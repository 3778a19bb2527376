# A TLA+ verification of crossview

crossview is a web dashboard for Crossplane: a Go server
(`src/crossview-go-server`) that talks to the Kubernetes clusters of a
kubeconfig, and a React client (`src/src`). This directory holds TLA+ models of
the stateful parts of both, TLC configurations that check them on small
instances, and TLAPS proofs of the main properties of the server and of the browser's
watch list, panel and pages for instances of any size.

Paths in this file are relative to the repository; `services/`, `models/`,
`api/` and `commands/` are those of `src/crossview-go-server`, and `pages/`,
`hooks/`, `providers/`, `components/` and `utils/` those of
`src/src/presentation`.

## 1. Inventory

The server is one process per replica. gin runs every HTTP request in a goroutine
of its own; they meet in one `KubernetesService` (memory, one `sync.RWMutex`), one
users table (when there is a database) and one map of WebSocket watchers. Nothing
but the users table and the kubeconfig file outlives a process. The browser is one
thread: what interleaves there are the answers to its calls, its sockets' events, its
timers and React's effects.

| Component | State | Operations | What is hard |
|---|---|---|---|
| Kubernetes service: context and client (`services/kubernetes_context.go`, `kubernetes_service.go`) | `currentContext`, `config`, `clientset`, `failedContexts` | `SetContext`, `GetClientset`, `GetConfig`, start, restart | one client for all requests; six ways out of `SetContext`, some of them half way through its assignments |
| Kubernetes service: reads and connection checks (`kubernetes_resources.go`, `kubernetes_events.go`, `kubernetes_helpers.go`, `IsConnected`) | locals of each request; `pluralCache` | list, get, events, switch, health check, plural discovery | the context is set in one locked section and the client taken in another; discovery sets it again; a check puts back what it found ten seconds ago |
| Kubernetes service: managed resources and their cache (`kubernetes_managed.go`) | cache and cache times per context | `GET /api/managed` with refresh, paging and filters | one goroutine per kind, each taking the shared client; two locked sections, far apart, around the cache |
| Kubernetes service: kubeconfig editing (`AddKubeConfig`, `RemoveContext`, `GetContexts`) | the file, `k.kubeConfig` | add, remove, list, the load in `SetContext` | loads without the lock; a file truncated before it is written; a pointer that is nil for a while |
| Users and roles (`models/user.go`, auth, user and SSO controllers, `commands/serve.go`) | the users table | default administrator, registration, create, update, SSO login, the admin check | check-then-act over several statements; several replicas; whole rows saved |
| Resource watch (server) (`api/controllers/kubernetes/watch_controller.go`) | per socket: context, resources, informers | subscribe, unsubscribe, setContext, informer events, disconnect | duplicate informers, a state that is read early and sent late, the shared client once more |
| Resource watch (browser) (`providers/OnWatchResourcesProvider.jsx`) | socket, timer, list in localStorage | connect, reconnect, subscribe, update, delete | callbacks of closed sockets, closures over an old context |
| Composition graph: fetching (`services/kubernetes_graph_fetch.go`) | none between requests | list in parallel, the managed list and its cache, warnings | the order in which lists end, lists that fail or are cut off |
| Composition graph: building (`services/kubernetes_graph.go`, `kubernetes_graph_objects.go`) | none | nodes, edges, references | references that resolve now, later or never |
| Browser: graph filters, limits, lineage and layout (`utils/graph`, `pages/Graph.jsx`) | filters in the URL | filter, focus, limit, lay out | limits per type that must not cut a chain; cycles |
| Browser: list pages (`pages/*.jsx`, `components/common/DataTable.jsx`) | rows, filter, page, search | load, filter, search, sort, turn, refresh | answers overtaken by a change of context, filter or page |
| Browser: resource panel (`ResourceDetails.jsx`, `hooks/useResourceData.js`) | selection, history, loaded data, watch list | open, follow, back, close, watch | three-step loads that nothing cancels |
| Browser: dashboard and sidebar (`components/widgets`, `pages/Dashboard.jsx`, `components/layout/Sidebar.jsx`) | what each widget counts or lists | one load per widget and context | loads that nothing cancels, failures counted as none |
| Browser: repositories and use cases (`src/src/data`, `src/src/domain`) | none | list, sort, cut, hide or pass on failures | a failure that looks like an empty list |
| Browser: application state, login and settings (`providers/AppProvider.jsx`) | session, contexts, selected context | load, select, log in and out | little that interleaves |
| Browser: components, theming, version check | preferences | rendering | none |
| Sessions and the three authentication modes; SSO protocol (OIDC, SAML); Azure workload identity; Configuration, logging, database connection, routing; Packaging | a cookie; environment | straight-line code, libraries | little that interleaves |

How they interact: every read, every managed list, every graph and every watch
goes through `SetContext` and the shared client, so a fault there reaches all of
them. The kubeconfig copy is what `SetContext` builds a client from. The browser
names its context in nearly every request. The pages call the server's lists, the graph
page draws the server's graph, and the panel's watch button puts a resource on the list
that the server's `deleted` messages shorten.

What makes each component correct:

- *Context and client*: the client belongs to the current context or the failure is
  on record; a failed context is never tried again.
- *Reads and checks*: an answer comes from the context asked for, or there is one
  of two known reasons why not; a check returns and changes nothing that lasts; nothing
  wrong enters the shared plural cache.
- *Managed resources*: what is cached for a context is of that context and does not
  go back in time.
- *Kubeconfig editing*: a request changes the contexts it names, reports only what
  it has done, leaves no reference open, always returns, never panics.
- *Users*: an administrator is always left, whoever overlaps whom; roles change on
  request only; an SSO login is served.
- *Watch, server*: no resource has two informers; an informer reads the socket's
  cluster; nothing outlives the socket; the browser is sent the state there is.
- *Watch, browser*: one socket, to the selected context; a resource leaves the list only
  because it is gone or the user says so; a lost connection is made again.
- *Graph*: what it shows was there or is warned about; a reference leads to what it
  names; the goroutines' order does not matter; limits and filters cut no chain.
- *List pages*: what is shown is the answer to the newest load, of the context, filter
  and page the user sees; a table is empty because nothing was found.
- *Dashboard and sidebar*: as the list pages, of numbers and of a few rows.
- *Resource panel*: it shows the selected resource, and watches that one.

The behaviours that a test of this code would hardly reach are listed, at the line
where each bites, under `hazards` in `PROJECT.json`, each with the properties that
would notice or the reason why there is none.

## 2. Modules

| Module | What it is |
|---|---|
| `KubeContext` | the shared client: specification of `SetContext`, start, restart, and a kubeconfig that changes |
| `KubeRequests` | extends it by the requests that use it; implements it (`StoreSpec`) |
| `ManagedCache` | extends it by `GET /api/managed` and its cache |
| `KubeConfigStore` | the kubeconfig file, its copy in memory, the lock |
| `UserAccounts` | the users table and what writes it |
| `WatchServer` | the sockets of `GET /api/watch`, their goroutines and informers |
| `WatchList` | what the watch list promises its user: an abstract specification |
| `WatchBrowser` | the provider behind the list; implements `WatchList` |
| `CompositionGraph` | `GetGraph`: the fetch, and `BuildGraph` as operators |
| `GraphPage` | extends it by the page that draws the graph |
| `PageBase` | rows, calls and the table, for all list pages |
| `ListPages`, `TablePages` | the nine pages that load whole lists; the three whose table loads page by page |
| `Widgets` | the widgets of the dashboard and the kinds in the sidebar |
| `Pages` | composes them: one page or widget from the moment it is opened |
| `DetailsPanel` | the panel that shows one resource, on each page |
| `KubeRequestsProofs`, `KubeConfigStoreProofs`, `ManagedCacheProofs`, `WatchServerProofs`, `DetailsPanelProofs`, `PagesProofs`, `GraphPageProofs` | theorems about the module of the same name, and their proofs; those about `KubeContext` are in `KubeRequestsProofs`, those about `CompositionGraph` in `GraphPageProofs` |
| `UsersAndWatchListProofs` | the same for `UserAccounts` and for `WatchBrowser`, which share nothing |
| `MCKubeRequests`, `MCManagedCache`, `MCKubeConfigStore`, `MCUserAccounts`, `MCWatchServer`, `MCWatchBrowser`, `MCGraphPage`, `MCPages`, `MCDetailsPanel` | values of the constants for TLC |

Operators with a comment that begins "(mutation of ...)" are not part of any model.
Each is the named action or definition with a plausible mistake in it, kept to show
that the properties notice.

### 2.1 KubeContext

`current`, `config`, `clientset` and `failed` are the four fields of the service.
`entry` says what the kubeconfig, or the mounted service account, has for a
context: a cluster, nothing that can be loaded (`Absent`), or something from which
no client can be built (`Unusable`). `inCluster` is the answer of `isInCluster()`;
the service account files are mounted for the life of the process.

`SetContext` holds `k.mu` for its whole body (`kubernetes_context.go:92-168`), so one
call is one step. Its ways out are five actions:

| Action | Lines | |
|---|---|---|
| `Reuse` | 101-103 | the early return; it precedes the look at `failedContexts` |
| `Refuse` | 105-107, 120-122 | a context that failed before, or no name |
| `FailToLoad` | 112-132 | nothing is assigned, the failure is recorded |
| `FailToBuild` | 134-155 | `currentContext` is already assigned, the client is not |
| `Build` | 134-168 | all are assigned, the record is deleted |

Left out: the dynamic client (only ever reset to nil), warning handlers, logging.
`config` and `clientset` are always assigned together; both are kept because the
code tests both. `EditEntry` is an external event: the kubeconfig is changed.
The kubeconfig's own structure is the business of `KubeConfigStore`; here a load is
atomic and its result is `entry`.

### 2.2 KubeRequests

A request is a program counter and its local variables (`want`, `saved`, `held`,
`plural`, `answer`). Its steps are exactly the locked sections of the code and the
calls to a cluster between them, so all interleavings of several requests are
there. `switch` is `POST /api/contexts/current`, `check` is `GET /api/health`,
`list` and `find` are the resource handlers with and without a plural; events
are a `list` whose cluster call may fail (`ClusterFails`). `find` goes through the
plural cache and `resolvePluralName`, which sets the context again. An answer is
the client it was read with, since all a property needs to tell apart is which
cluster answered and for which context's client. `disturbed` is a history variable:
the requests during which another one moved the client.

`PluralIn` gives each cluster's plural for the one kind that is listed, so that two
clusters can disagree, or have none, which makes the code fall back on a guess.

### 2.3 ManagedCache

`Begin` to `Miss` are the resolution of the context and the look into the cache
(`kubernetes_managed.go:181-217`); then the request takes a client, lists its owners
(providers and revisions) in two goroutines, lists the CRDs, lists every kind in a
goroutine of its own behind the semaphore, and stores. Each list is a small state
machine of its own in `part[r]`: it sets the context, takes the client that is
there by then, and does so again for every page. A list is abstracted to where it
came from (`from`) and to how old its contents are (`seen`, a position in the history
of `world`). `overtaken` records that another request stored meanwhile.

### 2.4 KubeConfigStore

`file`, its `access` (a read-only mount, a file that vanishes), `mem` (`k.kubeConfig`)
and `lock`. `loadKubeConfig` is two steps, `ReadFile` and `AssignLoaded`, where it is
called without the lock (`kubernetes_context.go:210`, `:255`, `GetContexts`), so that
its assignment lands anywhere in another goroutine's section, and one where it is
called with it. The body of an edit is split at its loops, because each reads the
pointer anew. Writing is `Truncate` and `Fill`, as `os.WriteFile` is. A panic ends
the request alone (`net/http` recovers it and drops the connection; the engine of
`lib/request_handler.go` has no recovery of its own) and, through the deferred
unlock, gives up the lock.
Clusters and users are handled alike by the code and are one set, `Defs`.

### 2.5 UserAccounts

One request is a sequence of database statements, each its own step and each able
to fail; a failed `Count` is a count of zero and a failed `First` is "not found",
as the code ignores those errors. The two unique indices are `Admitted`. A row is
saved whole, as it was read. `start` is the start of a replica: `HasAdmin`, then
`createAdmin`, whose error is only logged. Requests are served once some replica is
up. `overlapped` and `faulted` are history: another request wrote the table
meanwhile, a statement failed. `demoted` is set once an update asks for role `user`.
Passwords, names and dates are carried along and left out; applying an SSO identity
may save a row whose address is unchanged (its names were not), hence the choice in
`ApplyIdentity`. A username made from an SSO address is an ordinary username.

### 2.6 WatchServer

A socket has `phase`, `context`, `resources` and the keys of `informers`; its message
loop takes one message at a time, so `SubscribeOne`, `SubscribeList`, `Unsubscribe`,
`ChangeContext` and `Disconnect` are one step each. `SubscribeList` replaces `resources`
and starts a goroutine for what has no stored informer yet (`watch_controller.go:165-196`).
The goroutine of a subscription (`watchSingleResource`, `updateResource`) is a program
counter with the steps the locks and calls make of it: `UseContext` (`SetContext` on the
shared client), `TakeConfig`, `LookUp` (is there an informer?), `Create` (store it and run
it), `UseContextAgain`, `TakeConfigAgain`, `Get`, `SendState`. Between any two of them other
goroutines run and `SwitchClient`, which is any other request that names a context, moves
the client. An informer remembers the cluster it reads and the last state it saw; `Observe`
is its event for a change, `Resync` its periodic repetition, `Stop` its end after the
socket's. `CoreKeys` are resources of the API version "v1", which the code's split of
`apiVersion` refuses. `moved` and `overlapped` are history: the client was switched before
the goroutine took it; a resource was subscribed again before its informer was stored.
An informer reads the client's configuration at its start, so a later switch does not
reach it. Messages that only confirm a subscription are left out.

### 2.7 WatchList and WatchBrowser

`WatchList` is the promise: a resource stays on the list from when the user adds it until
the user takes it off or the selected context's cluster does not have it (`Drop`), as long
as the connection is `sound`. `WatchBrowser` is how the provider keeps it. React state
(`sel`, `list`) changes in one step and the effects run in the next (`RunEffects`), so that
socket events come in between; `effSel` and `effList` are what the last effects saw. Each
socket has a `readyState` (`st`), the context in its URL (`ctx`), which is also the one in
the closure of its `onclose`, and a `timer`, because every `onclose` arms one while the
provider keeps only the last handle (`tref`). `Open`, `Fail`, `FinishClose`, `FireTimer` and
`Deleted` are the events; `Deleted` is only sent for a subscribed resource that the cluster
of the socket's context lacks, which is what `WatchServer` sends, received as it is sent.
`crossed` records that a timer has met a connecting socket or another timer: from there on
the provider has connections it has lost track of, and the abstract list is no longer sound
until the page is loaded again (`Remount`). The refinement maps `watched` to `list`, `asked` to
`wanted`, `context` to `effSel`, `present` to `exists` and `sound` to `~crossed`.

### 2.8 CompositionGraph

`GetGraph` is `stage`: XRDs, Compositions and Functions (`ListDefinitions`), the kinds of the
XRs, the managed list. `Spawn` is the loop of `listXRs`, which waits for a slot; each
goroutine reads its kind (`ListKind`, `FailKind`) and then appends under the mutex
(`AppendXRs`), so `order` is the order in which they end. The managed list is skipped,
taken from the cache, listed with a cap per kind, or failed; each leaves its warning. `seen`
collects the states an object had during the request. `BuildGraph` and the operators under
it are the code's two passes: `Definitions` and `AddXRs` make the nodes that do not depend
on an order, and then the `References` are added one by one (`AddRef`), sorted by the place
of their list, of their XR in it, and of the reference in the XR (`Sorted`). A graph is a
function from ids to nodes and a set of edges; a reference without a namespace has two
`Candidates`, and one that resolves to neither becomes a stub.

### 2.9 GraphPage

The page takes the graph (`Receive`), and the user picks types, a namespace, a kind, a
health, a focus and limits; all go through the URL (`Pick`), which cannot write an empty list
of types. `View` is `ApplyLimits` after `ApplyFilters`, as `Graph.jsx:65-74` has it.
`ApplyFilters` is the code's chain of filters in its order, `Lineage` what a focus keeps,
`ChooseXRs` and its siblings the limits per type, and `NestingDepths` and `Column` the
columns. Nodes to choose from are given numbers to be sorted by, and a limit takes those
with few before them (`First`); what is reached along edges (`Closure`) and the passes of
`NestingDepths` are recursive functions of the number of steps. Names are compared by one
fixed order of ids (`Place`).

### 2.10 PageBase, ListPages, TablePages, Widgets, Pages

An object is a row of a context and an item, in one fixed order. A call is two steps:
`Serve` reads the cluster (through the cache of the managed list on that page) and decides
whether it fails; `Answer` is what the page does with it. Answers arrive in any order.
`route` is the page, chosen at the start; each of the twelve has its own operator for what
its use case returns, failures included, for what a load and an answer do to its state
(only `Providers` and `Search` drop the answers of earlier loads), and for what is on the
screen: a spinner, an error, the table, or, for
`Claims` after a failed load, fewer hooks called than before, which takes React's tree
down (`"crashed"`). The `ListPages` hold all their rows and let the table cut them;
the table of the `TablePages` calls for one page of rows at a time (`Fetch`), whenever its
page, search, filter or context changes. `source`, `overtaken` and `stranded` are history:
what the newest load was answered with, whether an older answer came after it, and whether
the list or the count changed under a page other than the first.

`Widgets` adds what the dashboard and the sidebar load when a context is selected. A
widget keeps the rows of an answer to count them (`TakeAny`), or cuts the newest of them
(`ShowNewest`). Three ask for two lists at once and count a list that fails as none, so
that their answers are any part of what there is (`BothLists`). The sidebar's effect
cancels older loads and turns a failure into no kinds. Widgets share nothing but the
selected context, so each is a `route` of its own.

### 2.11 DetailsPanel

`selected` and `trail` are the page's handlers, which differ: `PanelPages` has a record per
page, the dashboard included, of what a click on a row does, what becomes of the history and what a new list does
to the panel. A load (`loads`) asks for the resource, then for those it refers to, then for the
events; `ResourceAnswer`, `RelatedAnswer` and `EventsAnswer` are what each does to `full`,
`related` and `events`. Nothing cancels a load: `overtaken` records that an older one wrote
after the newest. `WatchToggle` is the button, which acts on `full`.

## 3. Runs

| Run | Configuration | States | What it shows |
|---|---|---|---|
| `kube_requests` | `KubeRequests.cfg` | 389 k | two interleaved requests: when a read is misrouted, what a check leaves behind and that it returns, what is cached; `KubeRequests` implements `KubeContext` |
| `kube_requests_refused` | `KubeRequestsRefused.cfg` | finding | a failed context is answered by the previous one's cluster |
| `managed_contexts` | `ManagedCache.cfg` | 2.3 M | when a cached list can be another context's |
| `managed_refresh` | `ManagedRefresh.cfg` | 22 k | refreshes go forward unless they overlap |
| `kubeconfig_serial` | `KubeConfigSerial.cfg` | 52 k | one request at a time: what the file holds, what is reported |
| `kubeconfig_race` | `KubeConfigRace.cfg` | 122 k | two goroutines: panics, locks, every request returns |
| `users_accounts` | `UserAccounts.cfg` | 2.9 M | two overlapping requests or starts on the users table |
| `watch_server` | `WatchServer.cfg` | 450 k | whose cluster an informer reads, how many there are, when they end, what is sent last |
| `watch_browser` | `WatchBrowser.cfg` | 561 k | one socket, subscribed again after every loss; `WatchBrowser` implements `WatchList` |
| `graph` | `GraphPage.cfg` | 133 k | the graph shows the cluster or warns; every order of goroutines, filter and limit |
| `pages` | `Pages.cfg` | 205 k | each list page and widget shows its newest load; an empty table found nothing |
| `details_panel` | `DetailsPanel.cfg` | 544 k | the panel shows, and watches, the selected resource |

States are distinct states; every passing run is exhaustive.

The properties that relate most:

- `MisrouteExplained`, `ForeignListExplained`, `ForeignInformerExplained`: the three ways in which
  one context's data can be another's, each possible only after somebody moved the shared
  client in a known window, or after a failed context.
- `OneInformerUnlessOverlapped` and `EndsWithCurrentState`: the check-then-act on informers, and
  the early read that is sent late; the second holds because informers resync.
- `OneSocketOfSelectedContext`: closing a socket on purpose arms a timer with the old
  context; effects cancel it in time as long as connections have not crossed.
- `GraphShowsCluster`: no stub for what was there all along and no node for what never was,
  unless a warning excuses it. The one silent exception is a managed kind whose list failed.
- `ViewKeepsWhatMatters`: three parts, `ChainsStayWhole`, `FocusKeepsChain` and
  `UnhealthyDrawnFirst`. `ReferencesSettled`: `RefsFindTarget` and `OnlyStubsDependOnOrder`.
  `EditsKept`: `OthersKept`, `RemovedReported` and `AddedReported`.
- `ShowsLatestLoad` and `EmptyOnlyIfNothingFound`: `Providers` and `Search` keep them whatever
  overtakes what, and so does the sidebar; the others only if no earlier answer came last.

### Bounds and why they are enough

- *Two requests.* Every interference here is of one goroutine with one other: each
  property relates one request to "somebody else in between", and `disturbed`,
  `overtaken` and `overlapped` stand for any number of others. The proofs of section 4
  lift the bound for all invariants and action properties.
- *Two contexts, two clusters.* One that always works and one whose client may fail to
  build. Two is the least at which an answer can be the wrong one; the clusters name the
  listed kind differently, so a plural can be too. The in-cluster pseudo context cannot be
  loaded in `kube_requests`, and works in `managed_contexts`.
- *ManagedCache.* `managed_contexts` needs two contexts, one owner list and one kind, each
  of which sets the context again; one kind's paging already makes several lists. It has
  no history (`MaxWorld = 0`). `managed_refresh` needs the owners, two kinds for one slot
  (`MaxConcurrency = 1`), and contents that change once (`MaxWorld = 1`), but one context.
  The full product would not finish.
- *KubeConfigStore.* With one goroutine three contexts, two of which share a definition:
  the least at which a removal must keep one. With two goroutines one context is enough:
  each may add or remove it, list or load under the other.
- *UserAccounts.* Beside the default administrator one account, a free username for it
  to be renamed to, and the addresses made up for SSO users. It starts from an empty table,
  so starting, registering and the first login overlap.
- *WatchServer.* One socket: sockets share nothing but the client, and `SwitchClient` is every
  other socket. Two subscriptions in flight over a kubeconfig of one context (duplicates,
  lists sent again), or one over two contexts (a moving client); two keys, one of the core
  group; one change (`MaxRev = 1`), which is all it takes for a message to be old.
- *WatchBrowser.* Two contexts, two resources of which one comes and goes once
  (`MaxChanges = 1`), one connection refused or lost (`MaxFaults = 1`), three sockets with a
  life or a timer at one time: the current one, one that is closing, and one that should
  not be. Once connections have crossed, the user leaves the page alone until a reload.
- *Graph.* Four XRDs over two slots, so one waits; three XRs, on a cycle, one of them nested
  twice, with references that resolve, that do not and that could be two things; a managed
  kind at the cap (`MaxItems = 2`); one failure, one change; three picks of filters
  and limits 1, 2 and "all", since a chain of two cuts needs two filters and a limit.
- *Pages.* Three objects in one context and one in the other, pages of one row, two calls
  under way, three steps of the user, the clusters or failures together: the shortest run
  to each known disagreement below takes two.
- *DetailsPanel.* A resource that refers to two others of which one refers back, two loads,
  a history of two, four steps: open, follow, follow or go back, switch.

`CHECK_DEADLOCK` is left on for the parts of the server that can always take another
request, and for the browser's watch list. It is `FALSE` in `WatchServer.cfg`, where a socket
has one life and ends, in `GraphPage.cfg`, where one request ends and picks are bounded, and in
`Pages.cfg` and `DetailsPanel.cfg`, whose steps are bounded.

### Fairness

- `FairRSpec` (run `kube_requests`) has weak fairness of the goroutines' own steps: the Go
  scheduler runs every runnable goroutine, and a check's call has a deadline of ten
  seconds (`kubernetes_context.go:185`), so `Probe` ends. It assumes nothing of the steps
  in which a cluster answers a list, because those calls have no deadline, nor of clients
  arriving. Each `SetContext` counts as one step, so the lock is assumed to be handed over.
- `FairSpec` (run `kubeconfig_race`) has weak fairness of each goroutine and strong
  fairness of taking the lock, since `sync.RWMutex` lets no waiter starve.
- `FairSpec` of `WatchServer`: goroutines run, informers deliver, resync and end once their
  context is cancelled, which is what client-go does. Nothing is assumed of the browser.
- `FairSpec` of `WatchBrowser`: React runs effects, timers go off, closing handshakes end, a
  server that does not refuse accepts and sends. Connections may fail `MaxFaults` times.
- `FairPSpec` of `GraphPage`: the request's goroutines run and each list ends, with items or
  with an error. Nothing is assumed of the user.

### Finding

`kube_requests_refused`: when building a client fails late, `currentContext` is the new name
and the client the old one's; the early return at `kubernetes_context.go:101` then serves
it, although `:106` says a failed context will be refused. No second request is needed.

### Further disagreements

Met while modelling. Each is in the model as the code has it; the properties above are stated
so that they hold, which is why each names its exception.

Server:

- `GetResources` sets the context in one locked section and takes the client in the next
  (`kubernetes_resources.go:19`, `:31`), so another request can decide which cluster answers
  (`MisrouteExplained`); README.md:158 documents the context as a parameter of the read.
- The load before the lock (`kubernetes_context.go:210`, `:255`) can undo another request's
  merge before it is written; that request still answers "Successfully added". A new context
  whose cluster or user has a name the file knows silently uses the existing one. Removing
  the current context leaves its client in place.
- docs/SSO_SETUP.md:214 promises that the first SSO user becomes an administrator; the default
  administrator is in the table before, so the count is never zero. After that account has
  been demoted, a start announces to create one (`serve.go:70`), runs into the unique index,
  and serves without.
- A managed kind whose list fails inside `GetManagedResources` (`kubernetes_managed.go:415`)
  leaves no warning, although `kubernetes_graph_fetch.go:28` collects them. Which stubs a
  graph has depends on the order in which goroutines end.
- README.md:60 offers to watch any resource; `watch_controller.go:267` refuses those whose API
  version has no group.

Browser:

- Two pending timers leave a second socket, to an old context, that reconnects for as
  long as the page is open; its `deleted` messages take resources off the new context's
  list. After that a list that changes without changing its size is not sent again. So does
  the socket of a user who has signed out.
- `Compositions.jsx:94` always asks for the first page, while docs/FEATURES.md:116 promises
  pagination; a page that is exactly full has a next one without end.
- docs/FEATURES.md:52 says unhealthy nodes are kept first; definitions that are linked come
  before them. Hiding the last type shows all (docs/FEATURES.md:47). The edge from an XRD to an
  XR that its Composition implies stays hidden when a limit cuts the Composition.
- A table that loads page by page keeps its page when the filter or the context changes,
  and shows an empty table without buttons if there are fewer pages now. `Claims` calls a
  hook after the early return for a failed load. A filter that finds nothing can hide its own drop-down. An
  error of an overtaken managed load hides newer rows.
- The watch button, pressed while the panel loads, watches the resource shown before. `Search`
  has the row and the relation handlers the other way around, so its history is of rows.
  Pages with a spinner mount the panel anew for every list; `CompositeResourceKind` closes it.

## 4. Proofs

The modules `...Proofs` are checked by tlapm down to the last leaf. They assume what their
models ASSUME of the constants, and no more:

- the model values (`None`, `Empty`, `Default`, ...) are not among the values they stand
  apart from, functions have their types, and bounds are natural numbers;
- slots are numbered from 1 (`Sockets`, `Routines`, `Loads`, `Calls`), as the models' choice of the
  first free one needs, and what a property or a type counts is finite (`Keys`,
  `Routines`, `Kinds`);
- a provider kind is not also an owner kind, and there is an owner kind: the code always
  lists two (`kubernetes_managed.go`);
- `Order`, in which every list of a page is sorted, has no object twice, and a page has room for a
  row: names are unique in a list, and the sizes of the pages are constants of the code;
- of the cluster behind the graph: there are finitely many objects and definitions; a name with
  its kind and namespace is one object; objects of one kind are all namespaced or none is, which
  is what the scope of a CRD says, and a reference with a namespace names a namespaced kind; XRs
  are of the kinds that XRDs define, and no managed kind is one of those, because a CRD is owned
  by an XRD or by a provider (`kubernetes_managed.go:321`), not by both; kinds carry their API
  group, so that no object is of the kind of the definitions; `Place` orders the ids;
- `SerialFile` and `SerialEdits` have the hypothesis `OneAtATime`, see there.

Sets of requests, goroutines, contexts, clusters, accounts and resources are of any size,
so every proof covers any number of actors, where the runs have two.

**KubeContext** (in `KubeRequestsProofs`). `TypeCorrect`, `Agreement` (`CurrentClientOrFailed`)
and `NeverRebuilt` (`FailedNeverRebuilt`). `TypeOK` is inductive. The agreement is
inductive relative to it: `FailToBuild` is the one way to get a name without its
client, and it records the failure; `Build` is the one way to take a name off the
list, and it makes the two agree. The lemmas `SetContextType` and
`SetContextAgreement` are about `SetContext` alone, so that steps of other modules which
call it can use them; `ManagedCacheProofs` has them too.

**KubeRequestsProofs.** For any number of requests:

- `RTypeCorrect`. `RTypeOK` is not inductive: between the first client read and the
  call a request uses `config` without looking again. `ClientHeld` (no client is ever
  dropped while a request is past that point) strengthens it.
- `Implements`: `RSpec => StoreSpec`. Every step of a request is a `KubeContext` step or
  leaves its variables alone (`StoreStep`); it needs `NamesKnown`, that the name passed to
  `SetContext` is one of `Names` or, for a restored context, has the same target.
  `RequestsNeverRebuild` and `RequestsAgree` follow from it and from the theorems on
  `KubeContext`.
- `Misroutes`, `ChecksKeepContext`, `ClientsAtHand`: from `RInv`, which says of each
  request (`Sound`) which fields are set where (`Shape`), that a client is there once the
  context was set (`Supplied`), that as long as nobody disturbed it the client is its
  target's or the target has failed (`Routed`), and what a check has still to put back
  (`Kept`). A step of one request preserves `Sound` of another because it either leaves
  the client alone or marks the other as disturbed (`BystanderSound`, `OthersSound`); that
  it preserves its own is one case per action (`OwnSound`).
- `PluralsCorrect`, from `PluralsDefined`: what a request is about to store was read from
  a cluster's CRDs.

**KubeConfigStoreProofs.** For any number of goroutines: `StoreTypeCorrect`,
`MutualExclusion`, and `NoPanic` (`PanicNeedsFailedReload`). The invariant is `StoreInv`:
types; whoever assigns or writes has a kubeconfig to do it with (`Buffers`); whoever
is inside a locked section holds the lock (`Holders`); and as long as every reload has
worked the copy is nil only while its holder is loading it again, or before anybody
has loaded it (`CopyKept`). The last is what makes the unlocked loads harmless as far
as panics go: they only ever assign something that is not nil.

`SerialFile` (`FileSelfContained`) and `SerialEdits` (`EditsKept`) are about one request at a
time (`OneAtATime`), over any contexts and definitions. The hypothesis is the one of the run
`kubeconfig_serial` and cannot be dropped: with two goroutines an unlocked load undoes half an
edit (section 3). The invariant is `Edits`: at each step of a request the copy in memory is
the file with the part of the edit that is done so far. A merge leaves the copy open between
its two loops, which is why the file is well formed at every step and the copy is not.

**ManagedCacheProofs.** For any number of requests, contexts, kinds and changes:
`ManagedTypeCorrect`, `ListsOwn` (`ForeignListExplained`) and `RefreshOrdered`
(`RefreshGoesForward`). The types are inductive together with `Reached`, what a request knows
at each stage, and `Sound`, what `SetContext` promises. `Own`: an undisturbed request finds
the client on its context, and its lists so far are of that context or the context has
failed. `Ahead`: what a request has read is at least as new as all that is cached, unless it
was overtaken; it needs an owner kind, because a request that lists nothing would store what
it has not read.

**UserAccounts** (in `UsersAndWatchListProofs`). For any number of requests and starting replicas: `AccountTypeCorrect`,
`AdminKept` (`AdminUnlessDemoted`), `RoleSaved` (`RoleChangeExplained`) and `LoginServed`
(`SSOServed`). The statements of the five handlers are first told by where they lead
(`Transition`, lemma `Moves`), so that each invariant needs one case per statement. That *some*
administrator is left is not inductive; that the *first* account is one is (`FirstAdmin`): an
insert into an empty table makes an administrator, and nothing but a demotion takes the role
from a row that was read with it. `RoleKept`: who was not asked for a role, and was not
overtaken, holds the table's. `Searched`: what a login knows after each of its look-ups, which
with the unique indices (`AccountsDiffer`) is why its insert is taken.

**WatchServerProofs.** For any number of sockets, goroutines, keys and changes:
`WatchTypeCorrect`, `OwnCluster` (`ForeignInformerExplained`) and `OneInformer`
(`OneInformerUnlessOverlapped`). `HeldContext`: a goroutine whose client nobody moved has it on
the context it set. `OneOnItsWay`: without an overlap one goroutine at most is on its way to
`Create`, one at `Create` has found no informer, and a running informer is on the socket's map,
so that the next one finds it.

**WatchBrowser** (in `UsersAndWatchListProofs`). For any number of sockets, resources and faults: `BrowserTypeCorrect`,
`OneSocket` (`OneSocketOfSelectedContext`) and the refinement `WatchListImplemented`
(`ImplementsWatchList`), step by step. The invariant has `References`, what the handles mean, and
`OneConnection`: while no connections have crossed, a timer is the one whose handle is kept,
and a timer or closing socket of an old context has a socket or a timer before it that will
meet it. That is what makes a message about a deletion one of the selected context's.

**DetailsPanelProofs.** For any number of resources, loads and steps and any history:
`PanelTypeCorrect`, `PanelShowsWhatIsSelected` (`PanelShowsSelected`) and `PanelWatches`
(`WatchesShown`). The invariant follows the newest load (`NewestShown`): after each of its three
steps the panel has what that step brought, of the selected resource and context, unless an
older load wrote later; with it go what the screen shows (`OnScreen`) and the way back
(`Retraces`).

**PagesProofs.** For any number of contexts, objects, calls under way and steps, any page size
and every page and widget: `PagesTypeCorrect` (`PTypeOK`), `PagesShowLatestLoad`
(`ShowsLatestLoad`) and `PagesEmptyOnlyIfNothingFound` (`EmptyOnlyIfNothingFound`). The
invariant `IInv` has, beside the types:

- `NewestCall`: a page that loads waits for its newest call, and only a search page without a
  query has none;
- `NewestLoad`, the heart of it: while the newest call is under way it asks for what the user
  sees, and of managed resources the page holds the beginning of the list its pages come from
  (`Pending`); once it is answered the rows are those of that answer, or the error is shown
  (`Answered`). Both stop at `overtaken`, an answer of an earlier load that came late, and
  `Errors` says on which pages that can happen: those that cancel their loads have no such way
  out;
- `TablesTurned` and `ServerTurned`: a table is on its first page or on one it has. For the pages
  that load page by page this takes that all answers under way are of the list that is there,
  which is what `stranded` stands for.

An answer preserves it route by route, because the twelve pages differ in what they keep of
an answer. What the pages keep is a part of a list (`At`: its elements at some of its places),
and most lemmas are about that: such a part has the elements it should, in their order, is
empty only if there are none, and pages put together are the list (`PagesTogether`).

**CompositionGraph** (in `GraphPageProofs`). For any number of kinds, objects, references, slots,
failures and changes: `GraphFetchingTyped` (`GTypeOK`), `GraphShowsTheCluster`
(`GraphShowsCluster`) and `ReferencesAreSettled` (`ReferencesSettled`). The invariant of the
request, `GInv`, has beside the types:

- `Fetching`: the lists appended so far are of XRDs that the loop has come to, and a request is
  done only when the loop is;
- `Accounted`: each XRD that the loop has come to is being listed, has been listed or has a
  warning (else a kind could be missing without a word), and what was read of an object, or that
  it was not there, is among what has been `seen` of it (`Listing`).

The graph is no part of the state: it is what `BuildGraph` makes of the lists. `Grown` says what is
true after any number of its references: each has its edge; every node is the one that its id
would have in any graph of these lists (`NodeOf`); what is not of the first pass comes from a
reference, which leads to the first of its candidates that is there, if one is (`Leads`).
`GrownStep` adds one more. It rests on `NoShadow`, the reason why the order does not matter: a
stub made for one reference never hides from another one an object that is there. That is
false without the assumption on scopes: a namespaced stub would be found before the
cluster-scoped object of the same kind. `ReferencesSettled` then compares two graphs of the same
lists in different orders, both `Grown`.

**GraphPage** (in `GraphPageProofs`). For any graph, filters, focus and limits:
`ViewKeepsWhatMattersAlways` (`ViewKeepsWhatMatters`) and `ArrowsAlwaysPointRight`
(`ArrowsPointRight`). The invariant `PageInv` adds to the request's what a graph on the page is
(`GraphOK`): its edges join its nodes, and only such types as `BuildGraph` links (`Joins`).

- *Filters* (`MatchedOf`): all that `ApplyFilters` does is to keep a part of the graph (`Part`) and
  then to hide edges that a Composition implies. *Limits* (`FirstOf`, `TakenFirst`): who has the
  smaller first number is taken first, however many are taken.
- *Lineage* (`ClosureOf`): as many steps as there are nodes reach all that can be reached. The sets
  reached so far grow until one step adds nothing, and they cannot grow more often than that.
- *Columns* (`PassSettles`): the XRs that are on or below no cycle have layers, by how many XRs each
  of them is below. After p passes the edges out of the layers below p point to the right and stay
  so, because no depth of such an XR exceeds its layer; there are no more layers than passes.

**Induction.** The induction theorems of the library have an operator as a parameter, which the
provers here cannot instantiate. What they can do is to take the least counterexample:
`LeastNumber` is proved from the well-foundedness of the naturals. It gives `PagesProofs` the
enumeration of a finite set of places, and `GraphPageProofs` an induction over sets of numbers
(`Induction`, `InductionTo`), with which a recursive function is read as a run of steps
(`BuildGraphSteps`, `ClosureSteps`, `DeepenSteps`, `DepthSteps`). That needs definitions that say
what the next step is. The folds of the community modules hide it, so the operators of the graph
do without them; where a fold is left, in the mutation of `BuildGraph`, nothing is proved.

**Only model-checked.** The liveness properties `CheckReturns`, `EveryRequestReturns`,
`NothingOutlivesSocket`, `EndsWithCurrentState`, `Resubscribes` and `GraphReturns`: fairness and
ENABLED are outside of what TLAPS proves. Every other property of a passing run is a theorem.

## 5. What is not modelled

- *Browser: application state, login and settings*: `AppProvider`, the login and the settings.
  The selected context, which is what the rest depends on, is a variable of `WatchBrowser`,
  `Pages` and `DetailsPanel`.
- *Browser: dashboard and sidebar*: of these the layout of the widgets and the open menus, which
  are preferences; their loads are in `Widgets`.
- Of the list pages: the saved searches and suggestions of `Search` and the loads of the
  drop-downs' options. Several drop-downs of one page are one filter.
- *Browser: components, theming, version check*: rendering and local preferences.
- *SSO protocol (OIDC, SAML)*, *Sessions and the three authentication modes*: exchanges with
  libraries and per-request straight-line code. The accounts they end in are in
  `UserAccounts`, without the mode that has no database, where nothing is stored.
- *Azure workload identity*: its failure is a `FailToBuild`.
- `normalizeKubeConfigPaths` and its unlocked writes to maps: a Go map used by two
  goroutines at once ends the process, which the restart of `KubeContext` covers but
  `KubeConfigStore` does not.
- A crash between the truncation and the filling of the kubeconfig: nothing in the code
  restores it, so there is nothing to promise. Loads that meet the truncated file are
  modelled.
- Several replicas each with a current context of their own: copies of one model that
  share nothing but the file.
- Functions without a caller: `ClearFailedContext`, `ClearManagedResourcesCache`,
  `watchResources`, `UserRepository.Delete`, the kind and search parameters of
  `GET /api/managed`, and the browser's `KubernetesRepository.js`, `GetDashboardDataUseCase.js` and
  `useDashboardData.js`.
- *Configuration, logging, database connection, routing*; *Packaging*.

## 6. Plan

All of section 2 is modelled and model-checked, and every invariant, action property and
refinement of the passing runs is proved. What a change of the code should bring with it:

1. its definition in the module that maps it, and TLC on the run of that module;
2. the invariant's lemma for the action it changes: each action has one of its own;
3. if the login and the settings come to share state beyond the selected context, a module
   for `AppProvider`.
