------------------------------ MODULE WatchServer ------------------------------
(***************************************************************************)
(* GET /api/watch on the server: handleMessages, watchSingleResource,      *)
(* updateResource and the informers of each websocket                      *)
(* (api/controllers/kubernetes/watch_controller.go).                       *)
(*                                                                         *)
(* Every subscription is served by a goroutine of its own that points the  *)
(* one shared Kubernetes client at the socket's context, starts an informer *)
(* and then reads the resource once more.  The informer lives as long as    *)
(* the socket; goroutine and informer write to the socket independently.    *)
(***************************************************************************)
EXTENDS Naturals, FiniteSets, Functions

CONSTANTS Contexts,     \* context names
          Keys,         \* watched resources: apiVersion, kind, namespace, name
          CoreKeys,     \* those whose apiVersion has no group ("v1")
          Watchers,     \* websockets
          Routines,     \* numbers of the goroutines running watchSingleResource
          MaxRoutines,  \* bound: how many of them, by the number of contexts
          MaxRev,       \* bound: changes of all resources together
          Default,      \* no context in the websocket's URL
          None          \* nil

ASSUME WatchAssumption ==
    /\ Default \notin Contexts
    /\ CoreKeys \subseteq Keys
    /\ MaxRev \in Nat
    /\ IsFiniteSet(Routines) /\ Routines = 1..Cardinality(Routines)
    /\ IsFiniteSet(Keys)
    /\ MaxRoutines \in [1..Cardinality(Contexts) -> Nat]
    /\ None \notin Contexts \cup {Default}

\* What a cluster holds under a key, and what a message says of it.
States == [rev : 0..MaxRev, alive : BOOLEAN]
Phases == {"unused", "open", "closed"}
PCs == {"free", "context", "config", "lookup", "create", "recontext", "reconfig", "get", "send", "done"}
Jobs == [watcher : Watchers, key : Keys, want : Contexts \cup {None},
         held : Contexts \cup {None}, got : States \cup {None}]
Informers == [source : Contexts, seen : States \cup {None}]
Nothing == [watcher |-> None, key |-> None, want |-> None, held |-> None, got |-> None]
ASSUME NoneAssumption == None \notin States \cup Informers

VARIABLES known,       \* the contexts of the kubeconfig, which stays as it is
          world,       \* what each context's cluster holds
          client,      \* the context the shared client talks to
          phase,       \* the websockets' life
          context,     \* watcher.context
          resources,   \* watcher.resources
          informers,   \* the keys of watcher.informers
          pc,          \* where each goroutine is
          job,         \* what it works on
          running,     \* the informer it has started
          sent,        \* the last message each websocket was sent about a key
          moved,       \* goroutines whose client was moved before they took it
          overlapped   \* resources subscribed again before an informer was stored

sockets == <<phase, context, resources>>
vars == <<known, world, client, sockets, informers, pc, job, running, sent, moved, overlapped>>

WTypeOK ==
    /\ known \subseteq Contexts
    /\ world \in [known -> [Keys -> States]]
    /\ client \in Contexts \cup {None}
    /\ phase \in [Watchers -> Phases]
    /\ context \in [Watchers -> Contexts \cup {Default}]
    /\ resources \in [Watchers -> SUBSET Keys]
    /\ informers \in [Watchers -> SUBSET Keys]
    /\ pc \in [Routines -> PCs]
    /\ job \in [Routines -> Jobs \cup {Nothing}]
    /\ \A r \in Routines : pc[r] # "free" => job[r] \in Jobs
    /\ running \in [Routines -> Informers \cup {None}]
    /\ sent \in [Watchers -> [Keys -> States \cup {None}]]
    /\ moved \subseteq Routines
    /\ overlapped \subseteq Watchers \X Keys

Init ==
    /\ known \in SUBSET Contexts \ {{}}
    /\ world \in [known -> [Keys -> {s \in States : s.rev = 0}]]
    /\ client \in known \cup {None}
    /\ phase = [w \in Watchers |-> "unused"]
    /\ context = [w \in Watchers |-> Default]
    /\ resources = [w \in Watchers |-> {}]
    /\ informers = [w \in Watchers |-> {}]
    /\ pc = [r \in Routines |-> "free"]
    /\ job = [r \in Routines |-> Nothing]
    /\ running = [r \in Routines |-> None]
    /\ sent = [w \in Watchers |-> [k \in Keys |-> None]]
    /\ moved = {}
    /\ overlapped = {}

----------------------------------------------------------------------------
(* The websocket: WatchResources and handleMessages.                        *)

Connect(w, c) ==
    /\ phase[w] = "unused"
    /\ phase' = [phase EXCEPT ![w] = "open"]
    /\ context' = [context EXCEPT ![w] = c]
    /\ UNCHANGED <<known, world, client, resources, informers, pc, job, running, sent, moved, overlapped>>

\* ReadMessage has returned the next message.
Receive(w) ==
    /\ phase[w] = "open"
    /\ UNCHANGED <<known, world, client, phase, informers, running, sent, moved>>

Working(r, w, k) == pc[r] \notin {"free", "done"} /\ job[r].watcher = w /\ job[r].key = k
Unstored(r, w, k) == Working(r, w, k) /\ pc[r] \in {"context", "config", "lookup", "create"}

\* go c.watchSingleResource(watcher, req) for each of the keys: the next free
\* numbers, in any order.
Start(w, keys) ==
    LET used == Cardinality({r \in Routines : pc[r] # "free"})
        new  == (used + 1)..(used + Cardinality(keys)) IN
    /\ new \subseteq 1..MaxRoutines[Cardinality(known)]
    /\ \E f \in Bijection(new, keys) :
          job' = [r \in Routines |->
                    IF r \in new THEN [Nothing EXCEPT !.watcher = w, !.key = f[r]] ELSE job[r]]
    /\ pc' = [r \in Routines |-> IF r \in new THEN "context" ELSE pc[r]]
    /\ overlapped' = overlapped \cup
          {<<w, k>> : k \in {j \in keys : \E r \in Routines : Unstored(r, w, j)}}

SubscribeOne(w, k) ==
    /\ Receive(w)
    /\ IF k \in resources[w]
         THEN UNCHANGED <<resources, pc, job, overlapped>>
         ELSE /\ resources' = [resources EXCEPT ![w] = @ \cup {k}]
              /\ Start(w, {k})
    /\ UNCHANGED context

\* The list replaces the old one; what has no stored informer yet is started.
SubscribeList(w, list) ==
    /\ Receive(w)
    /\ list # {}
    /\ resources' = [resources EXCEPT ![w] = list]
    /\ Start(w, list \ informers[w])
    /\ UNCHANGED context

\* The informer is left running.
Unsubscribe(w, k) ==
    /\ Receive(w)
    /\ resources' = [resources EXCEPT ![w] = @ \ {k}]
    /\ UNCHANGED <<context, pc, job, overlapped>>

ChangeContext(w, c) ==
    /\ Receive(w)
    /\ context' = [context EXCEPT ![w] = c]
    /\ UNCHANGED <<resources, pc, job, overlapped>>

\* ReadMessage fails: the handler returns and closes watcher.stop.
Disconnect(w) ==
    /\ phase[w] = "open"
    /\ phase' = [phase EXCEPT ![w] = "closed"]
    /\ UNCHANGED <<known, world, client, context, resources, informers, pc, job, running, sent, moved, overlapped>>

----------------------------------------------------------------------------
(* The goroutine of one subscription.                                       *)

At(r, label) == pc[r] = label
End(r) ==
    /\ pc' = [pc EXCEPT ![r] = "done"]
    /\ job' = [job EXCEPT ![r].want = None, ![r].held = None, ![r].got = None]
Go(r, label) == pc' = [pc EXCEPT ![r] = label]
Rest == UNCHANGED <<known, world, phase, resources, overlapped>>

\* Who has set a context and not yet taken the client, when it moves to c.
Disturbs(c) == {q \in Routines : pc[q] \in {"config", "reconfig"} /\ job[q].want # c}

\* An empty context becomes the server's current one, if there is one.
Resolved(w) == IF context[w] = Default /\ client # None THEN client ELSE context[w]

\* (mutation of SwitchTo) The error of SetContext is ignored.
SwitchToUnchecked(r, next) ==
    LET c == Resolved(job[r].watcher) IN
    /\ context' = [context EXCEPT ![job[r].watcher] = c]
    /\ \E ok \in BOOLEAN : client' = IF ok THEN c ELSE client
    /\ job' = [job EXCEPT ![r].want = c]
    /\ moved' = (moved \ {r}) \cup Disturbs(client')
    /\ Go(r, next)
    /\ UNCHANGED <<informers, running, sent>>
    /\ Rest

\* SetContext moves the shared client or fails, as it does for an empty name,
\* and then the goroutine reports the error and ends.
SwitchTo(r, next) ==
    LET c == Resolved(job[r].watcher) IN
    /\ context' = [context EXCEPT ![job[r].watcher] = c]
    /\ \/ /\ c # Default
          /\ client' = c
          /\ job' = [job EXCEPT ![r].want = c]
          /\ moved' = (moved \ {r}) \cup Disturbs(c)
          /\ Go(r, next)
       \/ /\ End(r)
          /\ UNCHANGED <<client, moved>>
    /\ UNCHANGED <<informers, running, sent>>
    /\ Rest

UseContext(r) == At(r, "context") /\ SwitchTo(r, "config")

\* GetConfig; an apiVersion without a group is refused.
TakeConfig(r) ==
    /\ At(r, "config")
    /\ IF job[r].key \in CoreKeys THEN End(r)
       ELSE Go(r, "lookup") /\ job' = [job EXCEPT ![r].held = client]
    /\ UNCHANGED <<client, context, informers, running, sent, moved>>
    /\ Rest

\* (mutation of LookUp) The stored informers are not looked at.
LookUpNothing(r) ==
    /\ At(r, "lookup")
    /\ Go(r, "create")
    /\ UNCHANGED <<client, context, informers, job, running, sent, moved>>
    /\ Rest

\* Is there an informer already?  One locked section ...
LookUp(r) ==
    /\ At(r, "lookup")
    /\ Go(r, IF job[r].key \in informers[job[r].watcher] THEN "recontext" ELSE "create")
    /\ UNCHANGED <<client, context, informers, job, running, sent, moved>>
    /\ Rest

\* ... and its storing in another one; then it runs.
Create(r) ==
    /\ At(r, "create")
    /\ informers' = [informers EXCEPT ![job[r].watcher] = @ \cup {job[r].key}]
    /\ running' = [running EXCEPT ![r] = [source |-> job[r].held, seen |-> None]]
    /\ Go(r, "recontext")
    /\ UNCHANGED <<client, context, job, sent, moved>>
    /\ Rest

\* updateResource sets the context and takes the client once more ...
UseContextAgain(r) == At(r, "recontext") /\ SwitchTo(r, "reconfig")

TakeConfigAgain(r) ==
    /\ At(r, "reconfig")
    /\ Go(r, "get")
    /\ job' = [job EXCEPT ![r].held = client]
    /\ UNCHANGED <<client, context, informers, running, sent, moved>>
    /\ Rest

\* ... reads the resource, unless the cluster cannot be reached ...
Get(r) ==
    /\ At(r, "get")
    /\ \/ /\ Go(r, "send")
          /\ job' = [job EXCEPT ![r].got = world[job[r].held][job[r].key]]
       \/ End(r)
    /\ UNCHANGED <<client, context, informers, running, sent, moved>>
    /\ Rest

\* A message reaches the browser only while the websocket is open.
Send(w, k, s) ==
    sent' = IF phase[w] = "open" THEN [sent EXCEPT ![w][k] = s] ELSE sent

\* ... and sends what it has read.
SendState(r) ==
    /\ At(r, "send")
    /\ Send(job[r].watcher, job[r].key, job[r].got)
    /\ End(r)
    /\ UNCHANGED <<client, context, informers, running, moved>>
    /\ Rest

Step(r) ==
    \/ UseContext(r) \/ TakeConfig(r) \/ LookUp(r) \/ Create(r)
    \/ UseContextAgain(r) \/ TakeConfigAgain(r) \/ Get(r) \/ SendState(r)

----------------------------------------------------------------------------
(* The informer that goroutine r has started.                               *)

Idle == UNCHANGED <<client, context, pc, job, moved>>

\* Its list or its watch brings a new state, and AddFunc, UpdateFunc or
\* DeleteFunc sends it; one that is absent is an event only if it was there
\* before.
Observe(r) ==
    LET i == running[r]
        now == world[i.source][job[r].key] IN
    /\ i # None
    /\ i.seen # now
    /\ running' = [running EXCEPT ![r].seen = now]
    /\ IF now.alive \/ (i.seen # None /\ i.seen.alive)
         THEN Send(job[r].watcher, job[r].key, now)
         ELSE UNCHANGED sent
    /\ UNCHANGED informers
    /\ Idle /\ Rest

\* (mutation of Resync) An informer without a resync period.
ResyncNever(r) == FALSE /\ Observe(r)

\* Every 30 seconds UpdateFunc gets what the informer has once more.
Resync(r) ==
    LET i == running[r] IN
    /\ i # None
    /\ i.seen # None
    /\ i.seen.alive
    /\ Send(job[r].watcher, job[r].key, i.seen)
    /\ UNCHANGED <<informers, running>>
    /\ Idle /\ Rest

\* (mutation of Stop) Only informers that the map still holds are stopped.
StopStored(r) ==
    /\ running[r] # None
    /\ phase[job[r].watcher] = "closed"
    /\ job[r].key \in informers[job[r].watcher]
    /\ informers' = [informers EXCEPT ![job[r].watcher] = @ \ {job[r].key}]
    /\ running' = [running EXCEPT ![r] = None]
    /\ UNCHANGED sent
    /\ Idle /\ Rest

\* watcher.stop is closed: the informer ends and takes its key off the map.
Stop(r) ==
    /\ running[r] # None
    /\ phase[job[r].watcher] = "closed"
    /\ informers' = [informers EXCEPT ![job[r].watcher] = @ \ {job[r].key}]
    /\ running' = [running EXCEPT ![r] = None]
    /\ UNCHANGED sent
    /\ Idle /\ Rest

----------------------------------------------------------------------------

\* Another request of the server sets a context.
SwitchClient(c) ==
    /\ client # c
    /\ client' = c
    /\ moved' = moved \cup Disturbs(c)
    /\ UNCHANGED <<known, world, sockets, informers, pc, job, running, sent, overlapped>>

\* The resource is created, updated or deleted.
Change(c, k) ==
    /\ \E alive \in BOOLEAN, rev \in 1..MaxRev :
          /\ alive \/ world[c][k].alive
          /\ \A d \in known, j \in Keys : world[d][j].rev < rev
          /\ \E d \in known, j \in Keys : world[d][j].rev = rev - 1
          /\ world' = [world EXCEPT ![c][k] = [rev |-> rev, alive |-> alive]]
    /\ UNCHANGED <<known, client, sockets, informers, pc, job, running, sent, moved, overlapped>>

Next ==
    \/ \E w \in Watchers :
          \/ \E c \in known \cup {Default} : Connect(w, c)
          \/ \E k \in Keys : SubscribeOne(w, k) \/ Unsubscribe(w, k)
          \/ \E list \in SUBSET Keys : SubscribeList(w, list)
          \/ \E c \in known : ChangeContext(w, c)
          \/ Disconnect(w)
    \/ \E r \in Routines : Step(r) \/ Observe(r) \/ Resync(r) \/ Stop(r)
    \/ \E c \in known : SwitchClient(c)
    \/ \E c \in known, k \in Keys : Change(c, k)

Spec == Init /\ [][Next]_vars

\* Goroutines run; an informer follows its cluster, delivers and resyncs, and
\* ends once its context is cancelled.
FairSpec ==
    /\ Spec
    /\ \A r \in Routines :
          /\ WF_vars(Step(r)) /\ WF_vars(Observe(r))
          /\ WF_vars(Resync(r)) /\ WF_vars(Stop(r))

----------------------------------------------------------------------------
(* Properties.                                                              *)

Watching(r, w, k) == running[r] # None /\ job[r].watcher = w /\ job[r].key = k

\* An informer reads the cluster of the context its socket had when the
\* goroutine pointed the shared client at it, unless another request moved that
\* client before the goroutine took it: the informer then reports another
\* cluster's resource for as long as the socket lives.
ForeignInformerExplained ==
    \A r \in Routines :
        pc[r] \in {"create", "recontext"} /\ r \notin moved => job[r].held = job[r].want

\* A socket has at most one informer for a resource, unless the resource was
\* subscribed again before the informer of the earlier subscription was stored:
\* neither a list that is sent again nor a resource that has left the list and
\* comes back starts a second one.
OneInformerUnlessOverlapped ==
    \A w \in Watchers, k \in Keys :
        <<w, k>> \notin overlapped =>
            Cardinality({r \in Routines : Watching(r, w, k)}) <= 1

\* When the socket is gone, so are in the end all its informers and goroutines,
\* the ones that were still being started when it closed included.
NothingOutlivesSocket ==
    \A w \in Watchers :
        [](phase[w] = "closed" =>
             <>[](\A r \in Routines : job[r].watcher = w => running[r] = None /\ pc[r] = "done"))

\* A browser whose socket stays open ends up with the resource as it is, in
\* spite of the state that updateResource read early and sent late: the resync
\* of the informer comes after it.
EndsWithCurrentState ==
    \A w \in Watchers, k \in Keys, c \in Contexts :
        <>[](/\ c \in known
             /\ phase[w] = "open"
             /\ world[c][k].alive
             /\ \E r \in Routines : Watching(r, w, k)
             /\ \A r \in Routines : Watching(r, w, k) => running[r].source = c)
        => []<>(c \in known /\ sent[w][k] = world[c][k])
============================================================================
