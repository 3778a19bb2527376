------------------------------- MODULE PageBase -------------------------------
(***************************************************************************)
(* What the list pages of the browser share: the selected context          *)
(* (AppProvider.jsx), the calls they make through KubernetesApiRepository, *)
(* and the table they show (components/common/DataTable.jsx).              *)
(*                                                                         *)
(* An object is a row [context, item]; a list is a sequence of rows in one *)
(* fixed order, newest first.  A call is answered in two steps: Serve      *)
(* reads the cluster, the page's own step takes the answer.  Answers may   *)
(* arrive in any order, as HTTP answers do.                                *)
(***************************************************************************)
EXTENDS Naturals, FiniteSets, SequencesExt

CONSTANTS Contexts,    \* contexts of the kubeconfig
          Order,       \* what there may be to list, newest first
          Conditioned, \* the items that have the condition one can filter by
          Hits,        \* the items that the text one can type matches
          Worlds,      \* bound: what the clusters hold at first
          PageSize,    \* itemsPerPage of the table, limit of a call
          Calls,       \* bound: the calls under way at one time, 1..n
          MaxSteps,    \* bound: steps of the user, calls that fail, changes of a
                       \* cluster and expiries of the server's list, together
          MaxPage,     \* bound: the page that is turned to
          None, Failed

Items == Range(Order)

ASSUME PageAssumption ==
    /\ Order \in Seq(Items) /\ IsInjective(Order)
    /\ Conditioned \subseteq Items /\ Hits \subseteq Items
    /\ PageSize \in Nat \ {0} /\ MaxPage \in Nat \ {0}
    /\ 1 \in Calls /\ 0 \notin Calls
    /\ Worlds \subseteq [Contexts -> SUBSET Items]

VARIABLES route,    \* the page that is shown
          context,  \* selectedContext
          query,    \* the search page: there is a query in the URL
          rows,     \* what the page holds, or serverData of the table
          total,    \* serverTotalCount of the table
          loading,  \* loading of the page, or isLoading of the table
          error,    \* "none"; "shown" instead of the list; "crashed"
          filter,   \* the drop-down filter: "all", "ready" or "none"
          table,    \* currentPage and searchTerm
          fetched,  \* allFetchedClaims of the Claims page
          fromCache \* the managed resources came from the server's cache
page == <<query, rows, total, loading, error, filter, table, fetched, fromCache>>

VARIABLES calls,    \* by slot, the call under way or None
          latest    \* the slot of the newest call
VARIABLES cluster,  \* what each context's cluster holds
          cache,    \* the server's list of managed resources, by context
          steps     \* taken of MaxSteps
world == <<cluster, cache>>

\* History, read by the properties only.
VARIABLES source,    \* the lists that the newest load was answered with
          overtaken, \* an older answer was taken since the page was last at rest
          stranded   \* the list or the count changed under a page other than the first
history == <<source, overtaken, stranded>>

vars == <<route, context, page, calls, latest, world, steps, history>>

----------------------------------------------------------------------------
(* Lists.                                                                   *)

Rows == [context : Contexts, item : Items]
Cut(n, s) == SubSeq(s, 1, IF n < Len(s) THEN n ELSE Len(s))
PageOf(s, p) == Cut(PageSize, SubSeq(s, (p - 1) * PageSize + 1, Len(s)))
Pages(n) == (n + PageSize - 1) \div PageSize

Passes(f, row) ==
    f = "all" \/ (f = "ready" /\ row.item \in Conditioned) \/ (f = "none" /\ row.item \notin Conditioned)
\* The elements of a list at some of its places, in their order.
At(s, places) ==
    [k \in 1..Cardinality(places) |->
        s[CHOOSE i \in places : Cardinality({j \in places : j <= i}) = k]]
Found(s, f, typed) ==
    At(s, {i \in DOMAIN s : Passes(f, s[i]) /\ (typed => s[i].item \in Hits)})

\* The list of a context, whoever asks for it.
Listing(c, items) ==
    LET kept == At(Order, {i \in DOMAIN Order : Order[i] \in items})
    IN [i \in DOMAIN kept |-> [context |-> c, item |-> kept[i]]]
List(c) == Listing(c, cluster[c])

\* A list that could not be had, and one without the rows of a kind that failed.
OrFailed(c) == {List(c), Failed}
WithoutAKind(c) == {Listing(c, cluster[c] \ {x}) : x \in Items}

----------------------------------------------------------------------------
(* Calls.                                                                   *)

AnyCall == [context : Contexts, page : Nat \ {0}, filter : {"all", "ready", "none"}, search : BOOLEAN,
            force : BOOLEAN, got : Seq(Rows), cached : BOOLEAN,
            out : Seq(Rows) \cup {None, Failed}]
ASSUME NoneAssumption ==
    /\ None \notin AnyCall \cup Seq(Rows) \cup Nat
    /\ Failed \notin Seq(Rows) \cup {None}

Resting == \A n \in Calls : calls[n] = None
Call(c, p, f, typed, force) ==
    [context |-> c, page |-> p, filter |-> f, search |-> typed, force |-> force,
     got |-> <<>>, cached |-> FALSE, out |-> None]

\* A call that starts a load, in the first free slot.
Ask(call) ==
    \E n \in Calls :
        /\ calls[n] = None /\ \A m \in 1..n - 1 : calls[m] # None
        /\ calls' = [calls EXCEPT ![n] = call]
        /\ latest' = n
        /\ source' = {}
        /\ overtaken' = FALSE

\* The call is over.
Drop(n) == calls' = [calls EXCEPT ![n] = None] /\ UNCHANGED latest
Newest(n) == n = latest

\* What the history keeps of an answer that the page takes.
Take(n) ==
    /\ source' = IF Newest(n) THEN source \cup {calls[n].out} ELSE source
    /\ overtaken' = (overtaken \/ (~Newest(n) /\ (calls[latest] = None \/ calls[n].out = Failed)))

----------------------------------------------------------------------------
(* The table.  A page either hands it all its rows (client side) or a       *)
(* function that fetches one page of them (server side).                    *)

Fresh == [page |-> 1, search |-> FALSE]
ServerSide == {"claims", "compositeResources", "compositions"}
\* Pages of cards, that filter and search by themselves and have one page.
Cards == {"providers", "functions"}
\* Tables that are given the whole list.
Tables == {"xrds", "mrds", "mraps", "compositeResourceKind", "resourceKind", "managed", "search"}
\* Widgets that count what they load, from one list or from two; one that shows
\* it in a table; and the kinds in the sidebar.
Counters == {"claimsCount", "compositionsCount", "xrdsCount", "managedCount", "providersStatus", "functionsCount"}
Combined == {"health", "namespaces", "activity"}
Dashboard == Counters \cup Combined \cup {"recent"}
Widgets == Dashboard \cup {"sidebar"}
Routes == ServerSide \cup Cards \cup Tables \cup Widgets

\* filteredData: the search page has its results filtered by the server.
Kept == Found(rows, IF route = "search" THEN "all" ELSE filter, table.search)

\* paginatedData.
Shown ==
    CASE route \in Cards -> Kept
      [] route \in Tables \cup {"recent"} -> PageOf(Kept, table.page)
      [] OTHER -> rows

\* totalPages: without a count, one more page is assumed after a full one.
TotalPages ==
    CASE route \in Cards -> 1
      [] route \in Tables \cup {"recent"} -> Pages(Len(Kept))
      [] OTHER -> IF total # None THEN Pages(total)
                  ELSE table.page + (IF Len(rows) = PageSize THEN 1 ELSE 0)

\* The page buttons: none for a single page; Previous stops at the first page,
\* Next at the last one only when it is exactly reached.
Turns ==
    {p \in 1..MaxPage : TotalPages > 1 /\
        \/ p \in 1..TotalPages
        \/ p = table.page - 1
        \/ p = table.page + 1 /\ table.page # TotalPages}

\* A table that leaves the screen forgets its page and its search.
Unmounted == IF route \in Cards THEN table ELSE Fresh
=============================================================================
