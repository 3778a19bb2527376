---------------------------- MODULE ManagedCache ----------------------------
(***************************************************************************)
(* GET /api/managed: the list of all managed resources of a context, put   *)
(* together from one LIST per provider kind and cached per context         *)
(* (services/kubernetes_managed.go).                                       *)
(*                                                                         *)
(* Every one of those LISTs calls SetContext and reads the shared client   *)
(* anew, the LISTs of one request run in goroutines of their own, and the  *)
(* cache is read and written in two locked sections far apart.             *)
(***************************************************************************)
EXTENDS KubeContext, Naturals

CONSTANTS Requests,        \* goroutines serving GET /api/managed
          Owners,          \* the lists a request cannot do without: Provider, ProviderRevision
          Kinds,           \* the kinds of the providers' CRDs, one list each
          MaxConcurrency,  \* k.managedMaxConcurrency
          MaxWorld         \* (bound) how often the clusters' contents change

Parts == Owners \cup Kinds

ASSUME ManagedAssumption ==
    /\ Owners # {} /\ Owners \cap Kinds = {}
    /\ IsFiniteSet(Kinds)
    /\ MaxConcurrency \in Nat \ {0}
    /\ MaxWorld \in Nat

VARIABLES pc,        \* where each request is
          want,      \* contextName: as given, then as resolved
          force,     \* forceRefresh
          part,      \* the state of each of its lists
          from,      \* the contexts whose clusters its lists have come from
          seen,      \* the oldest contents any of them showed
          cache,     \* managedResourcesCache and managedResourcesCacheTime
          world,     \* how often the clusters' contents have changed
          disturbed, \* requests under way while another one moved the client
          overtaken  \* requests under way while another one stored its list

mlocal == <<pc, want, force, part, from, seen>>
mvars  == <<vars, mlocal, cache, world, disturbed, overtaken>>

\* What is cached for a context: where its lists came from, the oldest contents
\* they showed, and whether its time to live has not run out.
CacheEntries == [from : SUBSET Targets, seen : 0..MaxWorld, fresh : BOOLEAN]

\* A list waits to start, has set its context, has more pages to read, looks up
\* its plural name, or has ended.
ListStates == {"todo", "pointed", "paging", "plural", "done", "error"}

MTypeOK ==
    /\ TypeOK
    /\ pc \in [Requests -> {"idle", "resolve", "init", "name", "cache", "client",
                            "owners", "kinds"}]
    /\ want \in [Requests -> Names \cup {InCluster}]
    /\ force \in [Requests -> BOOLEAN]
    /\ part \in [Requests -> [Parts -> ListStates]]
    /\ from \in [Requests -> SUBSET Targets]
    /\ seen \in [Requests -> 0..MaxWorld]
    /\ cache \in [Targets -> CacheEntries \cup {None}]
    /\ world \in 0..MaxWorld
    /\ disturbed \subseteq Requests
    /\ overtaken \subseteq Requests

Unlisted == [p \in Parts |-> "todo"]

MInit ==
    /\ Init
    /\ pc = [r \in Requests |-> "idle"]
    /\ want = [r \in Requests |-> Empty]
    /\ force = [r \in Requests |-> FALSE]
    /\ part = [r \in Requests |-> Unlisted]
    /\ from = [r \in Requests |-> {}]
    /\ seen = [r \in Requests |-> MaxWorld]
    /\ cache = [t \in Targets |-> None]
    /\ world = 0
    /\ disturbed = {}
    /\ overtaken = {}

----------------------------------------------------------------------------

At(r, label) == up /\ pc[r] = label
Goto(r, label) == pc' = [pc EXCEPT ![r] = label]

\* (mutation of Return) The request's accumulators live on in the next one.
ReturnKeepingLists(r) ==
    /\ Goto(r, "idle")
    /\ want' = [want EXCEPT ![r] = Empty]
    /\ force' = [force EXCEPT ![r] = FALSE]
    /\ part' = [part EXCEPT ![r] = Unlisted]
    /\ UNCHANGED <<from, seen>>

\* The request is answered, with a list or an error, and forgets what it read.
Return(r) ==
    /\ Goto(r, "idle")
    /\ want' = [want EXCEPT ![r] = Empty]
    /\ force' = [force EXCEPT ![r] = FALSE]
    /\ part' = [part EXCEPT ![r] = Unlisted]
    /\ from' = [from EXCEPT ![r] = {}]
    /\ seen' = [seen EXCEPT ![r] = MaxWorld]

CallSetContext(r, name, ok) ==
    /\ SetContext(name, ok)
    /\ disturbed' = IF <<current, config>>' # <<current, config>>
                      THEN disturbed \cup {x \in Requests \ {r} : pc[x] \notin {"idle", "resolve"}}
                      ELSE disturbed
    /\ UNCHANGED <<files, up, cache, world, overtaken>>

Begin(r, name, refresh) ==
    /\ At(r, "idle")
    /\ Goto(r, "resolve")
    /\ want' = [want EXCEPT ![r] = name]
    /\ force' = [force EXCEPT ![r] = refresh]
    /\ disturbed' = disturbed \ {r}
    /\ overtaken' = overtaken \ {r}
    /\ UNCHANGED <<vars, part, from, seen, cache, world>>

Resolve(r) ==
    /\ At(r, "resolve") /\ want[r] # Empty
    /\ \E ok \in BOOLEAN :
          /\ CallSetContext(r, want[r], ok)
          /\ IF ok THEN /\ Goto(r, "cache")
                        /\ UNCHANGED <<want, force, part, from, seen>>
                   ELSE Return(r)

\* Without a contextName the current context is used; it is read twice, and set
\* to "" in between when there is none.
ResolveEmpty(r) ==
    /\ At(r, "resolve") /\ want[r] = Empty
    /\ Goto(r, IF current = Empty THEN "init" ELSE "name")
    /\ UNCHANGED <<vars, want, force, part, from, seen,
                   cache, world, disturbed, overtaken>>

InitContext(r) ==
    /\ At(r, "init")
    /\ \E ok \in BOOLEAN :
          /\ CallSetContext(r, Empty, ok)
          /\ IF ok THEN Goto(r, "name") /\ UNCHANGED <<want, force, part, from, seen>>
                   ELSE Return(r)

NameContext(r) ==
    /\ At(r, "name")
    /\ Goto(r, "cache")
    /\ want' = [want EXCEPT ![r] = current]
    /\ UNCHANGED <<vars, force, part, from, seen,
                   cache, world, disturbed, overtaken>>

FreshInCache(n) == cache[n] # None /\ cache[n].fresh

\* A fresh entry is the answer, unless refresh=true.
AnswerFromCache(r) ==
    /\ At(r, "cache")
    /\ ~force[r] /\ FreshInCache(want[r])
    /\ Return(r)
    /\ UNCHANGED <<vars, cache, world, disturbed, overtaken>>

\* forceRefresh is not looked at again.
Miss(r) ==
    /\ At(r, "cache")
    /\ force[r] \/ ~FreshInCache(want[r])
    /\ Goto(r, "client")
    /\ force' = [force EXCEPT ![r] = FALSE]
    /\ UNCHANGED <<vars, want, part, from, seen, cache, world, disturbed, overtaken>>

----------------------------------------------------------------------------
(* Fetching.                                                                *)

\* A list has shown the contents of the cluster that client c talks to.
Show(r, c) ==
    /\ from' = [from EXCEPT ![r] = @ \cup {c.target}]
    /\ seen' = [seen EXCEPT ![r] = IF world < @ THEN world ELSE @]

\* GetConfig(): this client lists the CRDs once the owners are known.
TakeClient(r) ==
    /\ At(r, "client")
    /\ IF config = None
         THEN Return(r)
         ELSE /\ Goto(r, "owners")
              /\ from' = [from EXCEPT ![r] = {config.target}]
              /\ UNCHANGED <<want, force, part, seen>>
    /\ UNCHANGED <<vars, cache, world, disturbed, overtaken>>

\* The lists of the running stage that hold a slot of the semaphore.
Running(r) == {p \in Kinds : part[r][p] \in {"pointed", "paging"}}

\* The list p of r reaches the state how.
Reach(r, p, how) == part' = [part EXCEPT ![r][p] = how]

\* Both owner lists start at once; the kinds wait for a slot.
MayStart(r, p) ==
    /\ part[r][p] = "todo"
    /\ \/ At(r, "owners") /\ p \in Owners
       \/ At(r, "kinds") /\ p \in Kinds /\ Cardinality(Running(r)) < MaxConcurrency

\* GetResources sets the request's context once more, for every page.
PointList(r, p) ==
    /\ up
    /\ MayStart(r, p) \/ part[r][p] = "paging"
    /\ \E ok \in BOOLEAN :
          /\ CallSetContext(r, want[r], ok)
          /\ Reach(r, p, IF ok THEN "pointed" ELSE "error")
    /\ UNCHANGED <<pc, want, force, from, seen>>

\* It takes the client that is there by then, and lists with it.  A kind may
\* have another page; an owner's plural name may have to be looked up first.
ReadList(r, p) ==
    /\ up
    /\ part[r][p] = "pointed"
    /\ \/ /\ Show(r, config)
          /\ \E how \in {"done", IF p \in Kinds THEN "paging" ELSE "plural"} : Reach(r, p, how)
       \/ Reach(r, p, "error") /\ UNCHANGED <<from, seen>>
    /\ UNCHANGED <<vars, pc, want, force, cache, world, disturbed, overtaken>>

\* resolvePluralName sets the context again; its errors are ignored.
DiscoverPlural(r, p) ==
    /\ up
    /\ part[r][p] = "plural"
    /\ \E ok \in BOOLEAN : CallSetContext(r, want[r], ok)
    /\ \E how \in {"done", "error"} : Reach(r, p, how)
    /\ UNCHANGED <<pc, want, force, from, seen>>

Ended(r, S) == \A p \in S : part[r][p] \in {"done", "error"}

\* provWg.Wait: no request goes on without its owners.
FailOwners(r) ==
    /\ At(r, "owners") /\ Ended(r, Owners)
    /\ \E p \in Owners : part[r][p] = "error"
    /\ Return(r)
    /\ UNCHANGED <<vars, cache, world, disturbed, overtaken>>

\* The CRDs name the kinds to list; they come from the client taken before.
ListCRDs(r) ==
    /\ At(r, "owners")
    /\ \A p \in Owners : part[r][p] = "done"
    /\ \/ Goto(r, "kinds") /\ UNCHANGED <<want, force, part, from, seen>>
       \/ Return(r)
    /\ UNCHANGED <<vars, cache, world, disturbed, overtaken>>

\* wg.Wait; the lists that ended with an error are dropped, the others deduped,
\* sorted, cached whatever else has been cached meanwhile, and answered.
Store(r) ==
    /\ At(r, "kinds") /\ Ended(r, Kinds)
    /\ cache' = [cache EXCEPT ![want[r]] =
                   [from |-> from[r], seen |-> seen[r], fresh |-> TRUE]]
    /\ overtaken' = overtaken \cup {x \in Requests \ {r} : pc[x] \in {"owners", "kinds"}}
    /\ Return(r)
    /\ UNCHANGED <<vars, world, disturbed>>

\* The time to live of a cached list runs out.
Expire(t) ==
    /\ FreshInCache(t)
    /\ cache' = [cache EXCEPT ![t].fresh = FALSE]
    /\ UNCHANGED <<vars, mlocal, world, disturbed, overtaken>>

\* Something changes in the clusters.
WorldChanges ==
    /\ world < MaxWorld
    /\ world' = world + 1
    /\ UNCHANGED <<vars, mlocal, cache, disturbed, overtaken>>

Boot  == Start /\ UNCHANGED <<mlocal, cache, world, disturbed, overtaken>>

Edit(t, e) == EditEntry(t, e) /\ UNCHANGED <<mlocal, cache, world, disturbed, overtaken>>

MNext ==
    \/ Boot
    \/ WorldChanges
    \/ \E t \in Targets, e \in Entries : Edit(t, e)
    \/ \E t \in Targets : Expire(t)
    \/ \E r \in Requests, name \in Names, refresh \in BOOLEAN : Begin(r, name, refresh)
    \/ \E r \in Requests :
          \/ Resolve(r) \/ ResolveEmpty(r) \/ InitContext(r) \/ NameContext(r)
          \/ AnswerFromCache(r) \/ Miss(r) \/ TakeClient(r)
          \/ FailOwners(r) \/ ListCRDs(r) \/ Store(r)
    \/ \E r \in Requests, p \in Parts :
          \/ PointList(r, p) \/ ReadList(r, p) \/ DiscoverPlural(r, p)

MSpec == MInit /\ [][MNext]_mvars

----------------------------------------------------------------------------
(* Properties.                                                              *)

\* The step in which r caches its list.
Stores(r) == pc[r] = "kinds" /\ pc'[r] = "idle"

\* A list that mixes in another context's resources is cached only by a request
\* during which another one moved the shared client, or after building the
\* client of its context has failed.
ForeignListExplained ==
    [][ \A t \in Targets, r \in Requests :
          /\ Stores(r) /\ cache'[t] # cache[t]
          /\ r \notin disturbed
          /\ Target(t) \notin failed
          => cache'[t].from \subseteq {Target(t)} ]_mvars

\* A cached list is replaced by one that shows older contents only by a request
\* during which another one stored a list: refreshing one after the other never
\* goes back in time.
RefreshGoesForward ==
    [][ \A t \in Targets, r \in Requests :
          /\ Stores(r) /\ cache[t] # None
          /\ r \notin overtaken
          => cache'[t].seen >= cache[t].seen ]_mvars
============================================================================
