------------------------------- MODULE ListPages -------------------------------
(***************************************************************************)
(* The pages that load their whole list when a context is selected, and    *)
(* filter, search and page it in the browser: Providers, Functions, XRDs,  *)
(* MRDs, MRAPs, one kind of composite resources, one kind of resources,    *)
(* managed resources and the search.                                       *)
(***************************************************************************)
EXTENDS PageBase

----------------------------------------------------------------------------
(* What the use cases return, failures included.                            *)

GetProviders(c) == OrFailed(c)
GetFunctions(c) == OrFailed(c)
GetXRDs(c) == OrFailed(c)
GetMRDs(c) == OrFailed(c)
GetMRAPs(c) == OrFailed(c)
\* A kind that cannot be listed is left out; so are all if the XRDs cannot be.
GetCompositeResources(c) == {List(c), <<>>} \cup WithoutAKind(c)
\* The kinds Composition and CompositeResourceDefinition have lists of their own.
GetKind(c) == GetCompositeResources(c) \cup OrFailed(c)
\* Of the kinds listed one after the other the page keeps one.
GetResources(c) == {List(c), <<>>}
\* Six lists, each of which may be missing from the results.
SearchResources(c) == {List(c), <<>>} \cup WithoutAKind(c)

\* The server's list, kept from an earlier call unless a refresh is forced.
Cached(call) == cache[call.context] # None /\ ~call.force
GetManaged(call) ==
    IF Cached(call) THEN {cache[call.context]} ELSE OrFailed(call.context) \cup WithoutAKind(call.context)

ListOutcomes(call) ==
    CASE route = "providers" -> GetProviders(call.context)
      [] route = "functions" -> GetFunctions(call.context)
      [] route = "xrds" -> GetXRDs(call.context)
      [] route = "mrds" -> GetMRDs(call.context)
      [] route = "mraps" -> GetMRAPs(call.context)
      [] route = "compositeResourceKind" -> GetKind(call.context)
      [] route = "resourceKind" -> GetResources(call.context)
      [] route = "managed" -> GetManaged(call)
      [] route = "search" -> SearchResources(call.context)

----------------------------------------------------------------------------
(* Loads: the effect that runs when a context is selected.                  *)

Load(call) ==
    /\ Ask(call)
    /\ loading' = TRUE /\ error' = "none"
    /\ table' = Unmounted
    /\ UNCHANGED <<rows, total, fetched, fromCache, stranded>>

\* Without a query there is nothing to search; what runs is cancelled.
PerformSearch(c, asked, f) ==
    IF asked THEN Load(Call(c, 1, f, FALSE, FALSE))
    ELSE /\ latest' = 0 /\ rows' = <<>> /\ table' = Fresh
         /\ source' = {}
         /\ UNCHANGED <<calls, loading, error, total, fetched, fromCache, overtaken, stranded>>

LoadContext(c) ==
    /\ IF route = "search" THEN PerformSearch(c, query, filter)
       ELSE Load(Call(c, 1, "all", FALSE, FALSE))
    /\ UNCHANGED filter

\* The search page searches again with the filter; the others filter what
\* they have, and a table whose filtered rows are none may leave the screen.
PickListFilter(f) ==
    /\ filter' = f
    /\ IF route = "search" THEN PerformSearch(context, query, f)
       ELSE /\ table' = IF route = "mrds" /\ Found(rows, f, FALSE) = <<>> THEN Fresh ELSE table
            /\ stranded' = (stranded \/ table.page > 1)
            /\ UNCHANGED <<rows, total, loading, error, fetched, fromCache, calls, latest, source, overtaken>>

----------------------------------------------------------------------------
(* Answers.                                                                 *)

\* The rest of an answer: the list changes under the page the table is on.
Settle(n) ==
    /\ Drop(n)
    /\ stranded' = (stranded \/ table'.page > 1)
    /\ UNCHANGED <<total, fetched, fromCache>>

Fill(list) == rows' = list /\ UNCHANGED <<table, error>>
Fail(list) == rows' = list /\ error' = "shown" /\ table' = Unmounted

\* An answer that the cleanup of its effect has cancelled.
Ignore(n) == Drop(n) /\ UNCHANGED <<page, history>>

\* Whatever call it answers, the list is replaced.
TakeAny(n, onError) ==
    /\ loading' = FALSE
    /\ Take(n)
    /\ IF calls[n].out = Failed THEN Fail(onError) ELSE Fill(calls[n].out)
    /\ Settle(n)

\* (mutation of ProvidersAnswer) As on the other pages.
ProvidersAnswerAny(n) == TakeAny(n, rows)

\* Only the context that is being loaded counts, and only while it is.
ProvidersAnswer(n) == IF Newest(n) THEN TakeAny(n, rows) ELSE Ignore(n)

\* On an error the cards, or rows, of the last load stay, under the message.
FunctionsAnswer(n) == TakeAny(n, rows)
CompositeResourceKindAnswer(n) == TakeAny(n, rows)
ResourceKindAnswer(n) == TakeAny(n, rows)

\* (mutation of XRDsAnswer) Loading is not ended by an error.
XRDsAnswerLoading(n) ==
    /\ Take(n)
    /\ IF calls[n].out = Failed THEN Fail(<<>>) /\ UNCHANGED loading
                                ELSE Fill(calls[n].out) /\ loading' = FALSE
    /\ Settle(n)

\* On an error they are cleared.
XRDsAnswer(n) == TakeAny(n, <<>>)
MRAPsAnswer(n) == TakeAny(n, <<>>)

\* With no row that passes the filters the table gives way to a message.
MRDsAnswer(n) ==
    /\ loading' = FALSE
    /\ Take(n)
    /\ IF calls[n].out = Failed THEN Fail(<<>>)
       ELSE /\ rows' = calls[n].out /\ UNCHANGED error
            /\ table' = IF Found(calls[n].out, filter, FALSE) = <<>> THEN Fresh ELSE table
    /\ Settle(n)

\* The results that match the query, and the quick filter.
SearchAnswer(n) ==
    IF ~Newest(n) THEN Ignore(n)
    ELSE /\ loading' = FALSE
         /\ Take(n)
         /\ Fill(Found(calls[n].out, calls[n].filter, TRUE))
         /\ Settle(n)

\* (mutation of NextPage) The token names the page that was taken last.
NextPageAgain(n) ==
    LET call == calls[n]
        p == IF call.page = 1 THEN 1 ELSE call.page - 1
    IN [call EXCEPT !.got = @ \o PageOf(call.out, p), !.page = @ + 1, !.out = None, !.force = FALSE]

\* A page of the server's list is added; its token names the next one.
NextPage(n) ==
    LET call == calls[n]
    IN [call EXCEPT !.got = @ \o PageOf(call.out, call.page), !.page = @ + 1, !.out = None, !.force = FALSE]

\* A load that is overtaken ends, but for one that fails: that one clears the page.
ManagedAnswer(n) ==
    LET call == calls[n]
        rest == NextPage(n)
    IN CASE call.out = Failed ->
              /\ Take(n)
              /\ Fail(<<>>) /\ loading' = FALSE /\ fromCache' = FALSE
              /\ Drop(n)
              /\ UNCHANGED <<total, fetched, stranded>>
         [] call.out # Failed /\ ~Newest(n) -> Ignore(n)
         [] OTHER ->
              /\ Take(n)
              /\ Fill(rest.got)
              /\ IF Len(call.out) > call.page * PageSize
                   THEN /\ calls' = [calls EXCEPT ![n] = rest]
                        /\ UNCHANGED <<loading, fromCache, latest>>
                   ELSE Drop(n) /\ loading' = FALSE /\ fromCache' = call.cached
              /\ UNCHANGED <<total, fetched, stranded>>

ListAnswer(n) ==
    /\ CASE route = "providers" -> ProvidersAnswer(n)
         [] route = "functions" -> FunctionsAnswer(n)
         [] route = "xrds" -> XRDsAnswer(n)
         [] route = "mrds" -> MRDsAnswer(n)
         [] route = "mraps" -> MRAPsAnswer(n)
         [] route = "compositeResourceKind" -> CompositeResourceKindAnswer(n)
         [] route = "resourceKind" -> ResourceKindAnswer(n)
         [] route = "managed" -> ManagedAnswer(n)
         [] route = "search" -> SearchAnswer(n)
    /\ UNCHANGED <<query, filter>>
----------------------------------------------------------------------------
(* Screens.                                                                 *)

Loaded(screen) == IF loading THEN "loading" ELSE IF error # "none" THEN "error" ELSE screen

ProvidersScreen == Loaded("cards")
FunctionsScreen == Loaded("cards")
XRDsScreen == Loaded("table")
MRDsScreen == Loaded(IF Found(rows, filter, FALSE) = <<>> THEN "nothing" ELSE "table")
MRAPsScreen == Loaded(IF rows = <<>> THEN "nothing" ELSE "table")
CompositeResourceKindScreen == Loaded("table")
ResourceKindScreen == Loaded("table")
ManagedScreen == IF error # "none" THEN "error" ELSE Loaded("table")
ResultsScreen == Loaded("table")
SearchScreen == IF query THEN ResultsScreen ELSE "landing"

\* The drop-down of a condition is there while some row that passes it has it.
HasCondition(list) == list = <<>> \/ \E row \in Range(list) : row.item \in Conditioned
CompositeResourceKindOffered == HasCondition(Found(rows, filter, FALSE))
ResourceKindOffered == HasCondition(Found(rows, filter, FALSE))
ManagedOffered == HasCondition(rows)
=============================================================================
