-------------------------- MODULE DetailsPanelProofs --------------------------
(* The panel beside a list page for any number of contexts, resources, loads
   under way and steps of the user: its types and the way back, what it shows
   once its loads have ended, and what its watch button adds or removes.     *)
EXTENDS DetailsPanel, TLAPS

\* What the page keeps, and what the panel keeps.
PageTyped ==
    /\ page \in PanelPages /\ context \in Contexts
    /\ selected \in Resources \cup {None} /\ trail \in Seq(Resources \cup {None})
    /\ watched \subseteq Resources

PanelTyped ==
    /\ full \in Data /\ events \in Data
    /\ related \in [of : Data, known : SUBSET Resources]
    /\ loading \in BOOLEAN /\ eventsLoading \in BOOLEAN /\ overtaken \in BOOLEAN
    /\ loads \in [Loads -> AllLoads \cup {None}] /\ newest \in Loads

\* A panel that is not on the screen has no data and no load; one that is
\* loading has a load.
OnScreen ==
    /\ selected = None <=> full = Nothing
    /\ selected = None => Resting
    /\ loading \/ eventsLoading => ~Resting

\* A closed panel leaves no history and none leads out of it.
Retraces ==
    page.history = "relations" => None \notin Range(trail) /\ (selected = None => trail = <<>>)

\* The newest load is of what is selected.  It fills the panel in three steps,
\* and what it has filled so far stays unless an older load writes after it.
Own(data) == data \in {Object(context, selected), Bare(selected)}
NewestShown ==
    selected # None =>
        /\ loads[newest] = None /\ ~overtaken => Own(full) /\ related.of = full /\ events = full
        /\ loads[newest] # None =>
              /\ loads[newest].res = selected /\ loads[newest].context = context
              /\ loads[newest].step # "resource" =>
                    Own(loads[newest].of) /\ (~overtaken => full = loads[newest].of)
              /\ loads[newest].step = "events" /\ ~overtaken => related.of = loads[newest].of

DInv == PageTyped /\ PanelTyped /\ OnScreen /\ Retraces /\ NewestShown

----------------------------------------------------------------------------
(* Data and history.                                                        *)

LEMMA DataTypes ==
    /\ Nothing \in Data
    /\ \A r \in Resources :
          /\ Row(r) \in Data /\ Row(r) # Nothing /\ Row(r).from = "row"
          /\ Bare(r) \in Data /\ Bare(r) # Nothing /\ Bare(r).res = r /\ Bare(r).from = "error"
    /\ \A c \in Contexts, r \in Resources :
          /\ Object(c, r) \in Data /\ Object(c, r) # Nothing
          /\ Object(c, r).res = r /\ Object(c, r).from = "cluster"
          /\ Load(c, r) \in AllLoads /\ Load(c, r) # None
          /\ Load(c, r).res = r /\ Load(c, r).context = c /\ Load(c, r).step = "resource"
<1>1. /\ Nothing \in Data
      /\ \A r \in Resources : Row(r) \in Data /\ Bare(r) \in Data
      /\ \A c \in Contexts, r \in Resources : Object(c, r) \in Data
  BY DEF Data
<1>2. \A r \in Resources :
          /\ Row(r) # Nothing /\ Row(r).from = "row"
          /\ Bare(r) # Nothing /\ Bare(r).res = r /\ Bare(r).from = "error"
  BY DEF Nothing, Row, Bare
<1>3. \A c \in Contexts, r \in Resources :
          Object(c, r) # Nothing /\ Object(c, r).res = r /\ Object(c, r).from = "cluster"
  BY DEF Nothing, Object
<1>4. \A c \in Contexts, r \in Resources :
          /\ Load(c, r) \in AllLoads
          /\ Load(c, r).res = r /\ Load(c, r).context = c /\ Load(c, r).step = "resource"
  BY <1>1 DEF Load, AllLoads
<1> QED
  BY <1>1, <1>2, <1>3, <1>4, NoLoadAssumption

\* Relations are of an object of a cluster, and among the resources.
LEMMA RelationsTypes ==
    ASSUME NEW data \in Data
    PROVE  RelationsOf(data) \subseteq Resources
<1>1. CASE data.from = "cluster"
  <2>1. \E c \in Contexts, r \in Resources : data = Object(c, r)
    BY <1>1 DEF Data, Nothing, Row, Bare
  <2>2. data.res \in Resources
    BY <2>1 DEF Object
  <2> QED
    BY <1>1, <2>2, PanelAssumption DEF RelationsOf
<1>2. CASE data.from # "cluster"
  BY <1>2 DEF RelationsOf
<1> QED
  BY <1>1, <1>2

\* A page that keeps a history of relations opens and closes rows without one.
LEMMA PageKinds ==
    ASSUME NEW p \in PanelPages
    PROVE  p.history = "relations" => p.row = "toggles" /\ p.close = "clears"
BY DEF PanelPages, ListPage, TablePage, Providers, Functions, CompositeResourceDefinitions,
       ManagedResourceDefinitions, ManagedResourceActivationPolicies, ResourceKind,
       CompositeResourceKind, Claims, CompositeResources, Compositions, ManagedResources,
       Dashboard, Search

LEMMA TrailLonger ==
    ASSUME NEW S, NEW t \in Seq(S), NEW r \in S
    PROVE  Append(t, r) \in Seq(S) /\ Range(Append(t, r)) = Range(t) \cup {r}
<1>1. Append(t, r) \in Seq(S)
  OBVIOUS
<1>2. Range(Append(t, r)) = Range(t) \cup {r}
  <2>1. DOMAIN t = 1..Len(t) /\ DOMAIN Append(t, r) = 1..Len(t) + 1 /\ Len(t) \in Nat
    OBVIOUS
  <2>2. Append(t, r)[Len(t) + 1] = r /\ \A i \in 1..Len(t) : Append(t, r)[i] = t[i]
    OBVIOUS
  <2> QED
    BY <2>1, <2>2 DEF Range
<1> QED
  BY <1>1, <1>2

LEMMA TrailBack ==
    ASSUME NEW S, NEW t \in Seq(S), t # <<>>
    PROVE  /\ Front(t) \in Seq(S) /\ Range(Front(t)) \subseteq Range(t)
           /\ Last(t) \in S /\ Last(t) \in Range(t)
<1>1. Len(t) \in Nat \ {0} /\ DOMAIN t = 1..Len(t)
  OBVIOUS
<1>2. Last(t) \in S /\ Last(t) \in Range(t)
  BY <1>1 DEF Last, Range
<1>3. /\ Front(t) \in Seq(S) /\ DOMAIN Front(t) = 1..Len(t) - 1
      /\ \A i \in 1..Len(t) - 1 : Front(t)[i] = t[i]
  BY <1>1 DEF Front
<1>4. Range(Front(t)) \subseteq Range(t)
  BY <1>1, <1>3 DEF Range
<1> QED
  BY <1>2, <1>3, <1>4

----------------------------------------------------------------------------
(* The panel comes, goes and loads again.                                   *)

LEMMA MountStep ==
    ASSUME PanelTyped, NEW r \in Resources, context' \in Contexts,
           selected' = r, Mount(context', r)
    PROVE  PanelTyped' /\ OnScreen' /\ NewestShown'
<1> DEFINE load == Load(context', r)
<1>1. load \in AllLoads /\ load # None /\ load.res = r /\ load.context = context' /\ load.step = "resource"
  BY DataTypes
<1>2. /\ full' = Row(r) /\ related' = [of |-> Nothing, known |-> {}] /\ events' = Nothing
      /\ loading' = TRUE /\ eventsLoading' = FALSE /\ overtaken' = FALSE
      /\ loads' = [n \in Loads |-> IF n = 1 THEN load ELSE None] /\ newest' = 1
  BY DEF Mount
<1> HIDE DEF load
<1>3. loads'[1] = load /\ 1 \in Loads
  BY <1>2, PanelAssumption
<1>4. PanelTyped'
  <2>1. full' \in Data /\ events' \in Data /\ related' \in [of : Data, known : SUBSET Resources]
    BY <1>2, DataTypes
  <2>2. loads' \in [Loads -> AllLoads \cup {None}] /\ newest' \in Loads
    BY <1>1, <1>2, <1>3
  <2> QED
    BY <1>2, <2>1, <2>2 DEF PanelTyped
<1>5. OnScreen'
  BY <1>1, <1>2, <1>3, DataTypes, PanelAssumption DEF OnScreen, Resting
<1>6. NewestShown'
  BY <1>1, <1>2, <1>3 DEF NewestShown
<1> QED
  BY <1>4, <1>5, <1>6

LEMMA UnmountStep ==
    ASSUME PanelTyped, selected' = None, Unmount
    PROVE  PanelTyped' /\ OnScreen' /\ NewestShown'
<1>1. /\ full' = Nothing /\ related' = [of |-> Nothing, known |-> {}] /\ events' = Nothing
      /\ loading' = FALSE /\ eventsLoading' = FALSE /\ overtaken' = FALSE
      /\ loads' = [n \in Loads |-> None] /\ newest' = 1
  BY DEF Unmount
<1>2. PanelTyped'
  BY <1>1, DataTypes, PanelAssumption DEF PanelTyped
<1>3. OnScreen' /\ NewestShown'
  BY <1>1 DEF OnScreen, NewestShown, Resting
<1> QED
  BY <1>2, <1>3

LEMMA ReloadStep ==
    ASSUME PanelTyped, OnScreen, selected # None,
           NEW r \in Resources, context' \in Contexts, selected' = r, Reload(context', r)
    PROVE  PanelTyped' /\ OnScreen' /\ NewestShown'
<1> DEFINE load == Load(context', r)
<1>1. load \in AllLoads /\ load # None /\ load.res = r /\ load.context = context' /\ load.step = "resource"
  BY DataTypes
<1>2. PICK n \in Loads :
        /\ loads' = [loads EXCEPT ![n] = load]
        /\ newest' = n /\ overtaken' = FALSE /\ loading' = TRUE
        /\ UNCHANGED <<full, related, events, eventsLoading>>
  BY DEF Reload
<1> HIDE DEF load
<1>3. loads' \in [Loads -> AllLoads \cup {None}] /\ loads'[n] = load
  BY <1>1, <1>2 DEF PanelTyped
<1>4. PanelTyped'
  BY <1>2, <1>3 DEF PanelTyped
<1>5. OnScreen'
  BY <1>1, <1>2, <1>3, PanelAssumption DEF OnScreen, Resting
<1>6. NewestShown'
  BY <1>1, <1>2, <1>3 DEF NewestShown
<1> QED
  BY <1>4, <1>5, <1>6

\* Whatever the page selects, the panel follows.
LEMMA RenderStep ==
    ASSUME PanelTyped, OnScreen, NewestShown, context \in Contexts, context' = context,
           selected \in Resources \cup {None},
           NEW r \in Resources \cup {None}, r # None \/ selected # None,
           selected' = r, Render(r)
    PROVE  PanelTyped' /\ OnScreen' /\ NewestShown'
<1>1. CASE r = None
  <2>1. Unmount
    BY <1>1 DEF Render
  <2> QED
    BY <1>1, <2>1, UnmountStep
<1>2. CASE r # None /\ selected = None
  <2>1. Mount(context', r)
    BY <1>2 DEF Render
  <2> QED
    BY <1>2, <2>1, MountStep
<1>3. CASE r # None /\ selected # None /\ r # selected
  <2>1. Reload(context', r)
    BY <1>3 DEF Render
  <2> QED
    BY <1>3, <2>1, ReloadStep
<1>4. CASE r # None /\ r = selected
  <2>1. UNCHANGED <<panel, overtaken>>
    BY <1>4 DEF Render
  <2> QED
    BY <1>4, <2>1 DEF panel, PanelTyped, OnScreen, NewestShown, Resting, Own
<1> QED
  BY <1>1, <1>2, <1>3, <1>4

----------------------------------------------------------------------------
(* A load writes to the panel.                                              *)

\* An older load that writes after the newest had marks the panel.
LEMMA WriteMarks ==
    ASSUME PanelTyped, NEW n \in Loads, Write(n)
    PROVE  /\ overtaken' \in BOOLEAN
           /\ overtaken => overtaken'
           /\ ~overtaken' => n = newest \/ (loads[newest] # None /\ loads[newest].step = "resource")
BY Zenon DEF Write

LEMMA ResourceStep ==
    ASSUME PanelTyped, OnScreen, NewestShown, NEW n \in Loads, NEW found \in BOOLEAN,
           UNCHANGED <<context, selected>>, ResourceAnswer(n, found)
    PROVE  PanelTyped' /\ OnScreen' /\ NewestShown'
<1> DEFINE load == loads[n]
           data == IF found THEN Object(load.context, load.res) ELSE Bare(load.res)
           none == RelationsOf(data) = {}
           next == [[load EXCEPT !.of = data] EXCEPT !.step = IF none THEN "events" ELSE "related"]
<1>1. load # None /\ load \in AllLoads /\ load.step = "resource"
  BY DEF ResourceAnswer, PanelTyped
<1>2. load.res \in Resources /\ load.context \in Contexts
  BY <1>1 DEF AllLoads
<1>3. data \in Data /\ data # Nothing /\ data \in {Object(load.context, load.res), Bare(load.res)}
  BY <1>2, DataTypes
<1>4. /\ full' = data
      /\ related' = IF none THEN [of |-> data, known |-> {}] ELSE related
      /\ eventsLoading' = (eventsLoading \/ none)
      /\ loads' = [loads EXCEPT ![n].of = data, ![n].step = IF none THEN "events" ELSE "related"]
      /\ Write(n)
      /\ UNCHANGED <<events, loading, newest>>
  BY Zenon DEF ResourceAnswer
<1>5. /\ next \in AllLoads /\ next # None /\ next.res = load.res /\ next.context = load.context
      /\ next.of = data /\ next.step = IF none THEN "events" ELSE "related"
  <2> HIDE DEF data, none
  <2> QED
    BY <1>1, <1>3, NoLoadAssumption DEF AllLoads
<1>6. loads' = [loads EXCEPT ![n] = next]
  <2> HIDE DEF data, none
  <2> QED
    BY <1>1, <1>4 DEF PanelTyped, AllLoads
<1>7. eventsLoading' \in BOOLEAN
  BY <1>4, Zenon
<1> HIDE DEF data, none, next
<1>8. /\ loads' \in [Loads -> AllLoads \cup {None}] /\ loads'[n] = next
      /\ \A m \in Loads \ {n} : loads'[m] = loads[m]
  BY <1>5, <1>6 DEF PanelTyped
<1>9. PanelTyped'
  <2>1. related' \in [of : Data, known : SUBSET Resources]
    BY <1>3, <1>4 DEF PanelTyped
  <2> QED
    BY <1>3, <1>4, <1>7, <1>8, <2>1, WriteMarks DEF PanelTyped
<1>10. OnScreen'
  BY <1>1, <1>3, <1>4, <1>5, <1>8 DEF OnScreen, Resting
<1>11. NewestShown'
  <2>1. CASE n = newest
    BY <1>1, <1>3, <1>4, <1>5, <1>8, <2>1 DEF NewestShown, Own
  <2>2. CASE n # newest
    <3>1. loads'[newest'] = loads[newest] /\ newest' = newest
      BY <1>4, <1>8, <2>2 DEF PanelTyped
    <3> QED
      BY <1>4, <2>2, <3>1, WriteMarks DEF NewestShown, Own
  <2> QED
    BY <2>1, <2>2
<1> QED
  BY <1>9, <1>10, <1>11

LEMMA RelatedStep ==
    ASSUME PanelTyped, OnScreen, NewestShown, NEW n \in Loads, NEW listed \in BOOLEAN,
           UNCHANGED <<context, selected>>, RelatedAnswer(n, listed)
    PROVE  PanelTyped' /\ OnScreen' /\ NewestShown'
<1> DEFINE load == loads[n]
           next == [load EXCEPT !.step = "events"]
<1>1. load # None /\ load \in AllLoads /\ load.step = "related"
  BY DEF RelatedAnswer, PanelTyped
<1>2. /\ related' = [of |-> load.of,
                     known |-> IF listed THEN RelationsOf(load.of) \cap cluster[load.context] ELSE {}]
      /\ eventsLoading' = TRUE
      /\ loads' = [loads EXCEPT ![n] = next]
      /\ Write(n)
      /\ UNCHANGED <<full, events, loading, newest>>
  BY Zenon DEF RelatedAnswer
<1>3. load.of \in Data /\ RelationsOf(load.of) \subseteq Resources
  BY <1>1, RelationsTypes DEF AllLoads
<1>4. /\ next \in AllLoads /\ next # None /\ next.res = load.res /\ next.context = load.context
      /\ next.of = load.of /\ next.step = "events"
  BY <1>1, NoLoadAssumption DEF AllLoads
<1> HIDE DEF next
<1>5. /\ loads' \in [Loads -> AllLoads \cup {None}] /\ loads'[n] = next
      /\ \A m \in Loads \ {n} : loads'[m] = loads[m]
  BY <1>2, <1>4 DEF PanelTyped
<1>6. PanelTyped'
  <2>1. related' \in [of : Data, known : SUBSET Resources] /\ related'.of = load.of
    BY <1>2, <1>3
  <2> QED
    BY <1>2, <1>5, <2>1, WriteMarks DEF PanelTyped
<1>7. OnScreen'
  BY <1>1, <1>2, <1>4, <1>5 DEF OnScreen, Resting
<1>8. NewestShown'
  <2>1. CASE n = newest
    BY <1>1, <1>2, <1>4, <1>5, <2>1, WriteMarks DEF NewestShown, Own
  <2>2. CASE n # newest
    <3>1. loads'[newest'] = loads[newest] /\ newest' = newest
      BY <1>2, <1>5, <2>2 DEF PanelTyped
    <3> QED
      BY <1>2, <2>2, <3>1, WriteMarks DEF NewestShown, Own
  <2> QED
    BY <2>1, <2>2
<1> QED
  BY <1>6, <1>7, <1>8

LEMMA EventsStep ==
    ASSUME PanelTyped, OnScreen, NewestShown, NEW n \in Loads,
           UNCHANGED <<context, selected>>, EventsAnswer(n)
    PROVE  PanelTyped' /\ OnScreen' /\ NewestShown'
<1> DEFINE load == loads[n]
<1>1. load # None /\ load \in AllLoads /\ load.step = "events"
  BY DEF EventsAnswer, PanelTyped
<1>2. /\ events' = load.of /\ eventsLoading' = FALSE /\ loading' = FALSE
      /\ loads' = [loads EXCEPT ![n] = None]
      /\ Write(n)
      /\ UNCHANGED <<full, related, newest>>
  BY Zenon DEF EventsAnswer
<1>3. load.of \in Data
  BY <1>1 DEF AllLoads
<1>4. /\ loads' \in [Loads -> AllLoads \cup {None}] /\ loads'[n] = None
      /\ \A m \in Loads \ {n} : loads'[m] = loads[m]
  BY <1>2 DEF PanelTyped
<1>5. PanelTyped'
  BY <1>2, <1>3, <1>4, WriteMarks DEF PanelTyped
<1>6. OnScreen'
  BY <1>1, <1>2, <1>4 DEF OnScreen, Resting
<1>7. NewestShown'
  <2>1. CASE n = newest
    BY <1>1, <1>2, <1>4, <2>1, WriteMarks DEF NewestShown, Own
  <2>2. CASE n # newest
    <3>1. loads'[newest'] = loads[newest] /\ newest' = newest
      BY <1>2, <1>4, <2>2 DEF PanelTyped
    <3> QED
      BY <1>1, <1>2, <2>2, <3>1, WriteMarks DEF NewestShown, Own
  <2> QED
    BY <2>1, <2>2
<1> QED
  BY <1>5, <1>6, <1>7

----------------------------------------------------------------------------
(* The user.                                                                *)

\* What a step does to the types and to the panel is what Render does; what it
\* does to the way back is its own.
LEMMA SelectStep ==
    ASSUME DInv, UNCHANGED <<page, context, watched>>,
           NEW r \in Resources \cup {None}, r # None \/ selected # None,
           NEW t \in Seq(Resources \cup {None}), Select(r, t),
           page.history = "relations" => None \notin Range(t) /\ (r = None => t = <<>>)
    PROVE  DInv'
<1>1. selected' = r /\ trail' = t /\ Render(r)
  BY DEF Select
<1>2. PageTyped'
  BY <1>1 DEF DInv, PageTyped
<1>3. Retraces'
  BY <1>1 DEF Retraces
<1>4. PanelTyped' /\ OnScreen' /\ NewestShown'
  BY <1>1, RenderStep DEF DInv, PageTyped
<1> QED
  BY <1>2, <1>3, <1>4 DEF DInv

LEMMA EmptyTrail == <<>> \in Seq(Resources \cup {None}) /\ Range(<<>>) = {}
BY DEF Range

LEMMA RowClickStep ==
    ASSUME DInv, NEW r \in Resources, RowClick(r)
    PROVE  DInv'
<1>1. UNCHANGED <<page, context, watched>> /\ r # None
  BY PanelAssumption DEF RowClick
<1>2. CASE page.row = "toggles" /\ r = selected /\ Select(None, <<>>)
  BY <1>1, <1>2, EmptyTrail, SelectStep
<1>3. CASE page.row = "toggles" /\ r # selected /\ Select(r, <<>>)
  BY <1>1, <1>3, EmptyTrail, SelectStep
<1>4. CASE page.row = "opens" /\ Select(r, Append(trail, selected))
  <2>1. page.history # "relations"
    BY <1>4, PageKinds DEF DInv, PageTyped
  <2>2. Append(trail, selected) \in Seq(Resources \cup {None})
    BY DEF DInv, PageTyped
  <2> QED
    BY <1>1, <1>4, <2>1, <2>2, SelectStep
<1> QED
  BY <1>2, <1>3, <1>4 DEF RowClick

LEMMA RelatedClickStep ==
    ASSUME DInv, NEW r \in Resources, RelatedClick(r)
    PROVE  DInv'
<1>1. UNCHANGED <<page, context, watched>> /\ r # None /\ selected # None
  BY PanelAssumption DEF RelatedClick
<1>2. CASE page.history = "relations" /\ Select(r, Append(trail, selected))
  <2>1. /\ Append(trail, selected) \in Seq(Resources \cup {None})
        /\ Range(Append(trail, selected)) = Range(trail) \cup {selected}
    BY TrailLonger DEF DInv, PageTyped
  <2>2. None \notin Range(Append(trail, selected))
    BY <1>1, <1>2, <2>1 DEF DInv, Retraces
  <2> QED
    BY <1>1, <1>2, <2>1, <2>2, SelectStep
<1>3. CASE page.history = "rows" /\ Select(r, <<>>)
  BY <1>1, <1>3, EmptyTrail, SelectStep
<1> QED
  BY <1>2, <1>3 DEF RelatedClick

LEMMA BackStep ==
    ASSUME DInv, Back
    PROVE  DInv'
<1>1. /\ UNCHANGED <<page, context, watched>> /\ selected # None /\ trail # <<>>
      /\ Select(Last(trail), Front(trail))
  BY DEF Back
<1>2. trail \in Seq(Resources \cup {None})
  BY DEF DInv, PageTyped
<1>3. /\ Front(trail) \in Seq(Resources \cup {None}) /\ Range(Front(trail)) \subseteq Range(trail)
      /\ Last(trail) \in Resources \cup {None} /\ Last(trail) \in Range(trail)
  BY <1>1, <1>2, TrailBack
<1>4. page.history = "relations" => None \notin Range(Front(trail)) /\ Last(trail) # None
  BY <1>3 DEF DInv, Retraces
<1> QED
  BY <1>1, <1>3, <1>4, SelectStep

LEMMA CloseStep ==
    ASSUME DInv, Close
    PROVE  DInv'
<1>1. /\ UNCHANGED <<page, context, watched>> /\ selected # None
      /\ Select(None, IF page.close = "clears" THEN <<>> ELSE trail)
  BY DEF Close
<1>2. page.history = "relations" => page.close = "clears"
  BY PageKinds DEF DInv, PageTyped
<1>3. (IF page.close = "clears" THEN <<>> ELSE trail) \in Seq(Resources \cup {None})
  BY EmptyTrail DEF DInv, PageTyped
<1>4. page.history = "relations" =>
         /\ None \notin Range(IF page.close = "clears" THEN <<>> ELSE trail)
         /\ (IF page.close = "clears" THEN <<>> ELSE trail) = <<>>
  BY <1>2, EmptyTrail
<1> QED
  BY <1>1, <1>3, <1>4, SelectStep

LEMMA SelectContextStep ==
    ASSUME DInv, NEW c \in Contexts, SelectContext(c)
    PROVE  DInv'
<1>1. context' = c /\ UNCHANGED <<page, watched>>
  BY DEF SelectContext
<1>2. CASE selected = None
  <2>1. UNCHANGED <<selected, trail, panel, overtaken>>
    BY <1>2 DEF SelectContext
  <2> QED
    BY <1>1, <1>2, <2>1
    DEF DInv, PageTyped, PanelTyped, OnScreen, Retraces, NewestShown, Resting, panel
<1>3. CASE selected # None /\ page.reload = "keeps"
  <2>1. Reload(context', selected) /\ UNCHANGED <<selected, trail>>
    BY <1>1, <1>3 DEF SelectContext
  <2>2. PanelTyped' /\ OnScreen' /\ NewestShown'
    BY <1>1, <1>3, <2>1, ReloadStep DEF DInv, PageTyped
  <2> QED
    BY <1>1, <2>1, <2>2 DEF DInv, PageTyped, Retraces
<1>4. CASE selected # None /\ page.reload = "remounts"
  <2>1. Mount(context', selected) /\ UNCHANGED <<selected, trail>>
    BY <1>1, <1>4 DEF SelectContext
  <2>2. PanelTyped' /\ OnScreen' /\ NewestShown'
    BY <1>1, <1>4, <2>1, MountStep DEF DInv, PageTyped
  <2> QED
    BY <1>1, <2>1, <2>2 DEF DInv, PageTyped, Retraces
<1>5. CASE selected # None /\ page.reload = "closes"
  <2>1. Unmount /\ selected' = None /\ trail' = <<>>
    BY <1>5 DEF SelectContext
  <2>2. PanelTyped' /\ OnScreen' /\ NewestShown'
    BY <2>1, UnmountStep DEF DInv
  <2> QED
    BY <1>1, <2>1, <2>2, EmptyTrail DEF DInv, PageTyped, Retraces
<1>6. page.reload \in {"keeps", "remounts", "closes"}
  BY DEF DInv, PageTyped, PanelPages, ListPage, TablePage, Providers, Functions,
         CompositeResourceDefinitions, ManagedResourceDefinitions, ManagedResourceActivationPolicies,
         ResourceKind, CompositeResourceKind, Claims, CompositeResources, Compositions,
         ManagedResources, Dashboard, Search
<1> QED
  BY <1>2, <1>3, <1>4, <1>5, <1>6

\* What has data in the panel names a resource.
LEMMA ShownResource ==
    ASSUME DInv, selected # None
    PROVE  full.res \in Resources
BY DEF DInv, PanelTyped, OnScreen, Data, Nothing, Row, Bare, Object

LEMMA WatchToggleStep ==
    ASSUME DInv, WatchToggle
    PROVE  DInv'
<1>1. /\ UNCHANGED <<page, context, selected, trail, panel, overtaken>> /\ selected # None
      /\ watched' = IF full.res \in watched THEN watched \ {full.res} ELSE watched \cup {full.res}
  BY DEF WatchToggle
<1>2. watched' \subseteq Resources
  BY <1>1, ShownResource DEF DInv, PageTyped
<1> QED
  BY <1>1, <1>2
  DEF DInv, PageTyped, PanelTyped, OnScreen, Retraces, NewestShown, Own, Resting, panel

LEMMA AnswerStep ==
    ASSUME DInv, NEW n \in Loads, Answer(n)
    PROVE  DInv'
<1>1. UNCHANGED <<page, context, selected, trail, watched>>
  BY DEF Answer
<1>2. PanelTyped' /\ OnScreen' /\ NewestShown'
  <2>1. CASE \E found \in BOOLEAN : ResourceAnswer(n, found)
    BY <1>1, <2>1, ResourceStep DEF DInv
  <2>2. CASE \E listed \in BOOLEAN : RelatedAnswer(n, listed)
    BY <1>1, <2>2, RelatedStep DEF DInv
  <2>3. CASE EventsAnswer(n)
    BY <1>1, <2>3, EventsStep DEF DInv
  <2> QED
    BY <2>1, <2>2, <2>3, Zenon DEF Answer
<1> QED
  BY <1>1, <1>2 DEF DInv, PageTyped, Retraces

----------------------------------------------------------------------------
(* The invariant.                                                           *)

LEMMA PanelInit == Init => DInv
<1> SUFFICES ASSUME Init PROVE DInv
  OBVIOUS
<1>1. PageTyped /\ Retraces
  BY EmptyTrail DEF Init, PageTyped, Retraces
<1>2. PanelTyped
  BY DataTypes, PanelAssumption DEF Init, PanelTyped
<1>3. OnScreen /\ NewestShown
  BY DEF Init, OnScreen, NewestShown, Resting
<1> QED
  BY <1>1, <1>2, <1>3 DEF DInv

LEMMA PanelStep == DInv /\ [Next]_vars => DInv'
<1> SUFFICES ASSUME DInv, [Next]_vars PROVE DInv'
  OBVIOUS
<1>1. ASSUME NEW r \in Resources, RowClick(r) \/ RelatedClick(r) PROVE DInv'
  BY <1>1, RowClickStep, RelatedClickStep
<1>2. CASE Back \/ Close \/ WatchToggle
  BY <1>2, BackStep, CloseStep, WatchToggleStep
<1>3. ASSUME NEW c \in Contexts, SelectContext(c) PROVE DInv'
  BY <1>3, SelectContextStep
<1>4. ASSUME NEW c \in Contexts, NEW r \in Resources, Change(c, r) PROVE DInv'
  BY <1>4 DEF Change, DInv, PageTyped, PanelTyped, OnScreen, Retraces, NewestShown, Own, Resting, panel
<1>5. ASSUME NEW n \in Loads, Answer(n) PROVE DInv'
  BY <1>5, AnswerStep
<1>6. CASE UNCHANGED vars
  BY <1>6 DEF vars, DInv, PageTyped, PanelTyped, OnScreen, Retraces, NewestShown, Own, Resting, panel
<1> QED
  BY <1>1, <1>2, <1>3, <1>4, <1>5, <1>6 DEF Next

LEMMA PanelInvariant == Spec => []DInv
BY PanelInit, PanelStep, PTL DEF Spec

----------------------------------------------------------------------------
(* The results.                                                             *)

\* The state of the page and of the panel is well formed; a closed panel keeps
\* no data, no load and no way back; an open one that is loading has a load
\* that will end that (the handlers of the pages and useResourceData).
THEOREM PanelTypeCorrect == Spec => []DTypeOK
<1>1. DInv => DTypeOK
  BY DEF DInv, PageTyped, PanelTyped, OnScreen, Retraces, DTypeOK
<1> QED
  BY <1>1, PanelInvariant, PTL

LEMMA SelectedShown == DInv => PanelShowsSelected
BY DEF DInv, PanelTyped, OnScreen, NewestShown, Own, Resting, PanelShowsSelected

\* Once all of its loads have ended the panel shows what is selected, of the
\* selected context, unless an older load wrote after the newest had.
THEOREM PanelShowsWhatIsSelected == Spec => []PanelShowsSelected
BY SelectedShown, PanelInvariant, PTL

\* The watch button adds or removes what the panel names, but while a load is
\* under way or after an older one overtook the newest (handleWatchToggle).
THEOREM PanelWatches == Spec => WatchesShown
<1>1. ASSUME DInv, [Next]_vars, watched' # watched, Resting, ~overtaken
      PROVE  watched' \in {watched \cup {selected}, watched \ {selected}}
  <2>1. WatchToggle
    BY <1>1 DEF Next, vars, RowClick, RelatedClick, Back, Close, SelectContext, Change, Answer
  <2>2. full \in {Object(context, selected), Bare(selected)}
    BY <1>1, <2>1, SelectedShown DEF PanelShowsSelected, WatchToggle
  <2>3. full.res = selected
    BY <2>2 DEF Object, Bare
  <2> QED
    BY <2>1, <2>3 DEF WatchToggle
<1>2. DInv /\ [Next]_vars =>
        [watched' # watched =>
           \/ ~Resting \/ overtaken
           \/ watched' \in {watched \cup {selected}, watched \ {selected}}]_vars
  BY <1>1
<1> QED
  BY <1>2, PanelInvariant, PTL DEF Spec, WatchesShown
=============================================================================
