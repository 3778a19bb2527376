----------------------------- MODULE DetailsPanel -----------------------------
(***************************************************************************)
(* The panel that shows one resource beside a list page (ResourceDetails), *)
(* the data it loads (useResourceData), and the page's handlers that open  *)
(* it, follow its relations, go back and close it.                         *)
(*                                                                         *)
(* A load asks for the resource, then for those it refers to, then for the *)
(* events, and is never cancelled.  It ends without effect only when the   *)
(* panel it belongs to has left the screen.                                *)
(***************************************************************************)
EXTENDS Naturals, FiniteSets, SequencesExt

CONSTANTS Contexts,
          Resources, \* references: kind and name, without a context
          Relations, \* by resource, those it refers to
          Loads,     \* bound: loads under way at one time, 1..n
          MaxSteps,  \* bound: steps of the user, changes of a cluster and
                     \* calls that fail, together
          MaxTrail,  \* bound: length of the history
          None

ASSUME PanelAssumption ==
    /\ Relations \in [Resources -> SUBSET Resources]
    /\ None \notin Resources \cup Contexts
    /\ 1 \in Loads

VARIABLES page,     \* how the page handles the panel
          context,  \* selectedContext
          selected, \* selectedResource
          trail,    \* navigationHistory
          full,     \* fullResource
          related,  \* relatedResources
          events,   \* what the events are of
          loading, eventsLoading,
          loads,    \* by slot, a load or None
          newest,   \* slot of the newest load
          watched   \* watchedResources
panel == <<full, related, events, loading, eventsLoading, loads, newest>>

VARIABLES cluster,  \* what each context's cluster holds
          steps     \* taken of MaxSteps
VARIABLE  overtaken \* history: an older load set the panel after the newest had

vars == <<page, context, selected, trail, panel, watched, cluster, steps, overtaken>>

----------------------------------------------------------------------------
(* The pages.                                                               *)

\* row: a click on the row that is shown closes the panel, or opens it again.
\* history: cleared by a click on a row and kept by following a relation, or
\* the reverse.  close: what closing does to it.  reload: what a load of the
\* list for another context does to the panel.
ListPage == [row |-> "toggles", history |-> "relations", close |-> "clears", reload |-> "remounts"]
TablePage == [ListPage EXCEPT !.reload = "keeps"]

Providers == ListPage
Functions == ListPage
CompositeResourceDefinitions == ListPage
ManagedResourceDefinitions == ListPage
ManagedResourceActivationPolicies == ListPage
ResourceKind == ListPage
\* Its selection comes from the address; without one a new list clears it.
CompositeResourceKind == [ListPage EXCEPT !.reload = "closes"]
Claims == TablePage
CompositeResources == TablePage
Compositions == TablePage
ManagedResources == TablePage
\* The rows of its table of recent composite resources.
Dashboard == TablePage
Search == [row |-> "opens", history |-> "rows", close |-> "keeps", reload |-> "keeps"]

PanelPages ==
    {Providers, Functions, CompositeResourceDefinitions, ManagedResourceDefinitions,
     ManagedResourceActivationPolicies, ResourceKind, CompositeResourceKind,
     Claims, CompositeResources, Compositions, ManagedResources, Dashboard, Search}

----------------------------------------------------------------------------
(* Loads.                                                                   *)

\* What may be shown: nothing, the row that was clicked, the same completed
\* with what is known of it, or the object of a cluster.
Nothing == [res |-> None, context |-> None, from |-> "nothing"]
Row(r) == [res |-> r, context |-> None, from |-> "row"]
Bare(r) == [res |-> r, context |-> None, from |-> "error"]
Object(c, r) == [res |-> r, context |-> c, from |-> "cluster"]
Data == {Nothing} \cup {Row(r) : r \in Resources} \cup {Bare(r) : r \in Resources}
        \cup {Object(c, r) : c \in Contexts, r \in Resources}

AllLoads == [res : Resources, context : Contexts, step : {"resource", "related", "events"}, of : Data]
Load(c, r) == [res |-> r, context |-> c, step |-> "resource", of |-> Nothing]

ASSUME NoLoadAssumption == None \notin AllLoads

Resting == \A n \in Loads : loads[n] = None
FirstFree(n) == loads[n] = None /\ \A m \in 1..n - 1 : loads[m] # None

\* The panel comes on the screen and loads; what an earlier one loads is lost.
Mount(c, r) ==
    /\ full' = Row(r) /\ related' = [of |-> Nothing, known |-> {}] /\ events' = Nothing
    /\ loading' = TRUE /\ eventsLoading' = FALSE
    /\ loads' = [n \in Loads |-> IF n = 1 THEN Load(c, r) ELSE None]
    /\ newest' = 1 /\ overtaken' = FALSE

Unmount ==
    /\ full' = Nothing /\ related' = [of |-> Nothing, known |-> {}] /\ events' = Nothing
    /\ loading' = FALSE /\ eventsLoading' = FALSE
    /\ loads' = [n \in Loads |-> None]
    /\ newest' = 1 /\ overtaken' = FALSE

\* The effect of a new resource or context: one more load.
Reload(c, r) ==
    \E n \in Loads :
        /\ FirstFree(n)
        /\ loads' = [loads EXCEPT ![n] = Load(c, r)]
        /\ newest' = n /\ overtaken' = FALSE
        /\ loading' = TRUE
        /\ UNCHANGED <<full, related, events, eventsLoading>>

\* The panel for what the page has selected.
Render(r) ==
    CASE r = None -> Unmount
      [] r # None /\ selected = None -> Mount(context, r)
      [] r # None /\ selected # None /\ r # selected -> Reload(context, r)
      [] r = selected -> UNCHANGED <<panel, overtaken>>

\* A load writes to the panel.
Write(n) == overtaken' = (overtaken \/ (n # newest /\ (loads[newest] = None \/ loads[newest].step # "resource")))

RelationsOf(data) == IF data.from = "cluster" THEN Relations[data.res] ELSE {}

\* (mutation of ResourceAnswer) On an error the panel keeps what it shows.
ResourceAnswerKeeping(n, found) ==
    LET load == loads[n]
        data == IF found THEN Object(load.context, load.res) ELSE Bare(load.res)
        none == RelationsOf(data) = {}
    IN /\ load # None /\ load.step = "resource"
       /\ found => load.res \in cluster[load.context]
       /\ full' = IF found THEN data ELSE full
       /\ related' = IF none THEN [of |-> data, known |-> {}] ELSE related
       /\ eventsLoading' = (eventsLoading \/ none)
       /\ loads' = [loads EXCEPT ![n].of = data, ![n].step = IF none THEN "events" ELSE "related"]
       /\ Write(n)
       /\ UNCHANGED <<events, loading, newest>>

\* (mutation of EventsAnswer) Loading ends only with events of the resource.
EventsAnswerFound(n) ==
    LET load == loads[n]
    IN /\ load # None /\ load.step = "events"
       /\ events' = load.of
       /\ eventsLoading' = FALSE /\ loading' = (loading /\ load.of.from = "error")
       /\ loads' = [loads EXCEPT ![n] = None]
       /\ Write(n)
       /\ UNCHANGED <<full, related, newest>>

\* The resource, or on an error the reference itself, that refers to nothing.
ResourceAnswer(n, found) ==
    LET load == loads[n]
        data == IF found THEN Object(load.context, load.res) ELSE Bare(load.res)
        none == RelationsOf(data) = {}
    IN /\ load # None /\ load.step = "resource"
       /\ found => load.res \in cluster[load.context]
       /\ full' = data
       /\ related' = IF none THEN [of |-> data, known |-> {}] ELSE related
       /\ eventsLoading' = (eventsLoading \/ none)
       /\ loads' = [loads EXCEPT ![n].of = data, ![n].step = IF none THEN "events" ELSE "related"]
       /\ Write(n)
       /\ UNCHANGED <<events, loading, newest>>

\* Those it refers to, with their state as far as it could be listed.
RelatedAnswer(n, listed) ==
    LET load == loads[n]
    IN /\ load # None /\ load.step = "related"
       /\ related' = [of |-> load.of,
                      known |-> IF listed THEN RelationsOf(load.of) \cap cluster[load.context] ELSE {}]
       /\ eventsLoading' = TRUE
       /\ loads' = [loads EXCEPT ![n].step = "events"]
       /\ Write(n)
       /\ UNCHANGED <<full, events, loading, newest>>

\* The events; those that cannot be had are none.  The load is over.
EventsAnswer(n) ==
    LET load == loads[n]
    IN /\ load # None /\ load.step = "events"
       /\ events' = load.of
       /\ eventsLoading' = FALSE /\ loading' = FALSE
       /\ loads' = [loads EXCEPT ![n] = None]
       /\ Write(n)
       /\ UNCHANGED <<full, related, newest>>

----------------------------------------------------------------------------
(* The user.                                                                *)

Init ==
    /\ page \in PanelPages
    /\ context \in Contexts
    /\ selected = None /\ trail = <<>>
    /\ full = Nothing /\ related = [of |-> Nothing, known |-> {}] /\ events = Nothing
    /\ loading = FALSE /\ eventsLoading = FALSE
    /\ loads = [n \in Loads |-> None] /\ newest = 1 /\ overtaken = FALSE
    /\ watched = {}
    /\ cluster \in [Contexts -> {Resources}]
    /\ steps = 0

Step == steps < MaxSteps /\ steps' = steps + 1

Select(r, t) == selected' = r /\ trail' = t /\ Render(r)

RowClick(r) ==
    /\ Step
    /\ \/ page.row = "toggles" /\ IF r = selected THEN Select(None, <<>>) ELSE Select(r, <<>>)
       \/ page.row = "opens" /\ Len(trail) < MaxTrail /\ Select(r, Append(trail, selected))
    /\ UNCHANGED <<page, context, watched, cluster>>

\* Relations are on the screen once a load has ended.
RelatedClick(r) ==
    /\ Step
    /\ selected # None /\ ~loading
    /\ r \in RelationsOf(related.of)
    /\ \/ page.history = "relations" /\ Len(trail) < MaxTrail /\ Select(r, Append(trail, selected))
       \/ page.history = "rows" /\ Select(r, <<>>)
    /\ UNCHANGED <<page, context, watched, cluster>>

\* The button is there when there is a history.
Back ==
    /\ Step
    /\ selected # None /\ trail # <<>>
    /\ Select(Last(trail), Front(trail))
    /\ UNCHANGED <<page, context, watched, cluster>>

\* (mutation of Close) The history is kept.
CloseKeepingTrail ==
    /\ Step
    /\ selected # None
    /\ Select(None, trail)
    /\ UNCHANGED <<page, context, watched, cluster>>

Close ==
    /\ Step
    /\ selected # None
    /\ Select(None, IF page.close = "clears" THEN <<>> ELSE trail)
    /\ UNCHANGED <<page, context, watched, cluster>>

SelectContext(c) ==
    /\ Step
    /\ c # context /\ context' = c
    /\ CASE selected = None -> UNCHANGED <<selected, trail, panel, overtaken>>
         [] selected # None /\ page.reload = "keeps" -> Reload(c, selected) /\ UNCHANGED <<selected, trail>>
         [] selected # None /\ page.reload = "remounts" -> Mount(c, selected) /\ UNCHANGED <<selected, trail>>
         [] selected # None /\ page.reload = "closes" -> Unmount /\ selected' = None /\ trail' = <<>>
    /\ UNCHANGED <<page, watched, cluster>>

\* The watch list has no contexts.  What is watched is what the panel shows;
\* a row that is not completed yet is refused.
WatchToggle ==
    /\ Step
    /\ selected # None /\ full.from # "row"
    /\ watched' = IF full.res \in watched THEN watched \ {full.res} ELSE watched \cup {full.res}
    /\ UNCHANGED <<page, context, selected, trail, panel, cluster, overtaken>>

----------------------------------------------------------------------------
(* The cluster and the answers.                                             *)

Change(c, r) ==
    /\ Step
    /\ cluster' = [cluster EXCEPT ![c] = IF r \in @ THEN @ \ {r} ELSE @ \cup {r}]
    /\ UNCHANGED <<page, context, selected, trail, panel, watched, overtaken>>

\* A resource that is there is found unless the call fails.
Answer(n) ==
    /\ \/ \E found \in BOOLEAN :
             /\ ResourceAnswer(n, found)
             /\ IF found \/ loads[n].res \notin cluster[loads[n].context] THEN UNCHANGED steps ELSE Step
       \/ \E listed \in BOOLEAN : RelatedAnswer(n, listed) /\ IF listed THEN UNCHANGED steps ELSE Step
       \/ EventsAnswer(n) /\ UNCHANGED steps
    /\ UNCHANGED <<page, context, selected, trail, watched, cluster>>

Next ==
    \/ \E r \in Resources : RowClick(r) \/ RelatedClick(r)
    \/ Back \/ Close \/ WatchToggle
    \/ \E c \in Contexts : SelectContext(c)
    \/ \E c \in Contexts, r \in Resources : Change(c, r)
    \/ \E n \in Loads : Answer(n)

Spec == Init /\ [][Next]_vars

----------------------------------------------------------------------------
(* Properties.                                                              *)

\* Types; a panel that is not on the screen has no data and no load, and one
\* that is loading has a load.  A closed panel leaves no history and none leads
\* out of it, so that going back retraces the relations that were followed; the
\* search page, whose handlers are the other way around, promises neither.
DTypeOK ==
    /\ page \in PanelPages /\ context \in Contexts
    /\ selected \in Resources \cup {None} /\ trail \in Seq(Resources \cup {None})
    /\ full \in Data /\ events \in Data
    /\ related \in [of : Data, known : SUBSET Resources]
    /\ watched \subseteq Resources
    /\ selected = None <=> full = Nothing
    /\ selected = None => Resting
    /\ loading \/ eventsLoading => ~Resting
    /\ page.history = "relations" => None \notin Range(trail) /\ (selected = None => trail = <<>>)

\* Once its loads have ended, and if none of an earlier resource or context
\* wrote after the newest, the panel shows the resource it names: the object
\* of the selected context, or the reference if that could not be had, with
\* the relations and the events of the same.
PanelShowsSelected ==
    (selected # None /\ Resting /\ ~overtaken) =>
        /\ full \in {Object(context, selected), Bare(selected)}
        /\ related.of = full /\ events = full
        /\ ~loading /\ ~eventsLoading

\* The watch button adds or removes the resource that the panel names, but
\* while that is loading, or after an earlier load overtook it, it may be the
\* one shown before.
WatchesShown ==
    [][watched' # watched =>
        \/ ~Resting \/ overtaken
        \/ watched' \in {watched \cup {selected}, watched \ {selected}}]_vars

=============================================================================
