---------------------------- MODULE KubeRequests ----------------------------
(***************************************************************************)
(* HTTP requests that go through the shared client of KubeContext: the     *)
(* handlers of kubernetes_controller.go for switching the context, checking*)
(* a connection, listing and getting resources, and reading events.        *)
(*                                                                         *)
(* A handler first calls SetContext, lets go of the lock, and reads the    *)
(* client in a second locked section; between the two any other request    *)
(* may have moved the client to another context.                           *)
(***************************************************************************)
EXTENDS KubeContext

CONSTANTS Requests,   \* goroutines serving a request
          Plurals,    \* plural names of the one resource kind that is listed
          Guess,      \* strings.ToLower(kind) + "s"
          PluralIn,   \* the plural a cluster's CRDs define, or None
          Error       \* an error response

ASSUME RequestAssumption ==
    /\ Guess \in Plurals
    /\ PluralIn \in [Clusters -> Plurals \cup {None}]
    /\ None \notin Plurals \cup Names \cup Targets
    /\ Error \notin Clients \cup Targets \cup {Empty, None}

\* switch  POST /api/contexts/current    check   GET /api/health
\* list    GET /api/resources, /api/resource and /api/events naming the plural
\* find    the same two resource handlers when the plural is left out
Ops == {"switch", "check", "list", "find"}

PCs == {"idle", "default", "save", "resolve", "init", "report", "client",
        "lookup", "discover", "crds", "store", "call", "restore"}

VARIABLES pc,           \* where each request is
          op,           \* which handler it runs
          want,         \* contextName
          saved,        \* IsConnected's originalContext
          held,         \* the client the request has read
          plural,       \* the plural name it resolved
          answer,       \* what it was answered with: client, context or error
          pluralCache,  \* k.pluralCache at the kind that is listed
          disturbed     \* requests during or since which another one moved the client

local == <<pc, op, want, saved, held, plural, answer>>
rvars == <<vars, local, pluralCache, disturbed>>

RTypeOK ==
    /\ TypeOK
    /\ pc \in [Requests -> PCs]
    /\ op \in [Requests -> Ops]
    /\ want \in [Requests -> Names \cup {InCluster}]
    /\ saved \in [Requests -> Targets \cup {Empty}]
    /\ held \in [Requests -> Clients \cup {None}]
    /\ plural \in [Requests -> Plurals \cup {None}]
    /\ answer \in [Requests -> Clients \cup Targets \cup {Empty, None, Error}]
    /\ pluralCache \in Plurals \cup {None}
    /\ disturbed \subseteq Requests

RInit ==
    /\ Init
    /\ pc = [r \in Requests |-> "idle"]
    /\ op = [r \in Requests |-> "list"]
    /\ want = [r \in Requests |-> Empty]
    /\ saved = [r \in Requests |-> Empty]
    /\ held = [r \in Requests |-> None]
    /\ plural = [r \in Requests |-> None]
    /\ answer = [r \in Requests |-> None]
    /\ pluralCache = None
    /\ disturbed = {}

----------------------------------------------------------------------------
(* Steps shared by the handlers.                                            *)

At(r, label) == up /\ pc[r] = label
Goto(r, label) == pc' = [pc EXCEPT ![r] = label]

Finish(r, result) ==
    /\ Goto(r, "idle")
    /\ answer' = [answer EXCEPT ![r] = result]

Stay == UNCHANGED <<vars, pluralCache, disturbed>>

\* One call of SetContext by r.  Whoever else is under way, or has finished and
\* is not yet forgotten, is disturbed if the call moves the shared client.
CallSetContext(r, name, ok) ==
    /\ SetContext(name, ok)
    /\ disturbed' = IF <<current, config>>' # <<current, config>>
                      THEN disturbed \cup (Requests \ {r})
                      ELSE disturbed
    /\ UNCHANGED <<files, up, pluralCache>>

\* A request arrives.  Only a check without ?context= is answered from the
\* current context by its own controller (CheckConnection).
Begin(r, o, name) ==
    /\ At(r, "idle")
    /\ Goto(r, IF o # "check" THEN "resolve" ELSE IF name = Empty THEN "default" ELSE "save")
    /\ op' = [op EXCEPT ![r] = o]
    /\ want' = [want EXCEPT ![r] = name]
    /\ saved' = [saved EXCEPT ![r] = Empty]
    /\ held' = [held EXCEPT ![r] = None]
    /\ plural' = [plural EXCEPT ![r] = None]
    /\ answer' = [answer EXCEPT ![r] = None]
    /\ disturbed' = disturbed \ {r}
    /\ UNCHANGED <<vars, pluralCache>>

\* CheckConnection: an empty context means the current one, if there is one.
DefaultContext(r) ==
    /\ At(r, "default")
    /\ \/ /\ current # Empty
          /\ want' = [want EXCEPT ![r] = current]
          /\ Goto(r, "save")
          /\ UNCHANGED answer
       \/ /\ current = Empty
          /\ Finish(r, Error)
          /\ UNCHANGED want
    /\ UNCHANGED <<op, saved, held, plural>>
    /\ Stay

\* IsConnected remembers the current context before it switches.
SaveContext(r) ==
    /\ At(r, "save")
    /\ saved' = [saved EXCEPT ![r] = current]
    /\ Goto(r, "resolve")
    /\ UNCHANGED <<op, want, held, plural, answer>>
    /\ Stay

\* if contextName != "" { SetContext(contextName) }; the switch handler and
\* IsConnected call it whatever the name is.
ResolveContext(r) ==
    /\ At(r, "resolve")
    /\ want[r] # Empty \/ op[r] = "switch"
    /\ \E ok \in BOOLEAN :
          /\ CallSetContext(r, want[r], ok)
          /\ IF ok THEN /\ Goto(r, IF op[r] = "switch" THEN "report" ELSE "client")
                        /\ UNCHANGED answer
                   ELSE Finish(r, Error)
    /\ UNCHANGED <<op, want, saved, held, plural>>

\* ... else { if GetCurrentContext() == "" { SetContext("") } }: two sections.
UseCurrentContext(r) ==
    /\ At(r, "resolve")
    /\ want[r] = Empty /\ op[r] \in {"list", "find"}
    /\ Goto(r, IF current = Empty THEN "init" ELSE "client")
    /\ UNCHANGED <<op, want, saved, held, plural, answer>>
    /\ Stay

InitContext(r) ==
    /\ At(r, "init")
    /\ \E ok \in BOOLEAN :
          /\ CallSetContext(r, Empty, ok)
          /\ IF ok THEN Goto(r, "client") /\ UNCHANGED answer
                   ELSE Finish(r, Error)
    /\ UNCHANGED <<op, want, saved, held, plural>>

\* The SetContext handler reports the context that is current by now.
Report(r) ==
    /\ At(r, "report")
    /\ Finish(r, current)
    /\ UNCHANGED <<op, want, saved, held, plural>>
    /\ Stay

----------------------------------------------------------------------------
(* Reading the client and using it.                                         *)

\* GetConfig() or GetClientset(): a section of its own, after SetContext's.
TakeClient(r) ==
    /\ At(r, "client")
    /\ IF config = None
         THEN Finish(r, Error) /\ UNCHANGED held
         ELSE /\ held' = [held EXCEPT ![r] = config]
              /\ Goto(r, IF op[r] = "find" THEN "lookup" ELSE "call")
              /\ UNCHANGED answer
    /\ UNCHANGED <<op, want, saved, plural>>
    /\ Stay

\* pluralCache has no context in its key.
LookupPlural(r) ==
    /\ At(r, "lookup")
    /\ plural' = [plural EXCEPT ![r] = pluralCache]
    /\ Goto(r, IF pluralCache # None THEN "call"
               ELSE IF want[r] # Empty THEN "discover" ELSE "crds")
    /\ UNCHANGED <<op, want, saved, held, answer>>
    /\ Stay

\* resolvePluralName sets the context a second time ...
DiscoverContext(r) ==
    /\ At(r, "discover")
    /\ \E ok \in BOOLEAN :
          /\ CallSetContext(r, want[r], ok)
          /\ IF ok THEN Goto(r, "crds") /\ UNCHANGED plural
                   ELSE /\ plural' = [plural EXCEPT ![r] = Guess]
                        /\ Goto(r, "call")
    /\ UNCHANGED <<op, want, saved, held, answer>>

\* (mutation of ReadCRDs) The guessed plural is stored as well.
ReadCRDsStoringGuess(r) ==
    /\ At(r, "crds")
    /\ \E p \in {PluralIn[config.cluster], Guess} \ {None} :
          plural' = [plural EXCEPT ![r] = p]
    /\ Goto(r, "store")
    /\ UNCHANGED <<op, want, saved, held, answer>>
    /\ Stay

\* ... and lists the CRDs of whichever cluster the client is at by then.
ReadCRDs(r) ==
    /\ At(r, "crds")
    /\ \/ /\ PluralIn[config.cluster] # None
          /\ plural' = [plural EXCEPT ![r] = PluralIn[config.cluster]]
          /\ Goto(r, "store")
       \/ /\ plural' = [plural EXCEPT ![r] = Guess]   \* not listed there, or an error
          /\ Goto(r, "call")
    /\ UNCHANGED <<op, want, saved, held, answer>>
    /\ Stay

StorePlural(r) ==
    /\ At(r, "store")
    /\ pluralCache' = plural[r]
    /\ Goto(r, "call")
    /\ UNCHANGED <<vars, op, want, saved, held, plural, answer, disturbed>>

\* The cluster answers the client held by the request.  An unknown resource
\* type counts as an answer: it is returned as an empty list.
ClusterAnswers(r) ==
    /\ At(r, "call")
    /\ op[r] \in {"list", "find"}
    /\ Finish(r, held[r])
    /\ UNCHANGED <<op, want, saved, held, plural>>
    /\ Stay

\* The cluster returns an error or goes away.
ClusterFails(r) ==
    /\ At(r, "call")
    /\ op[r] \in {"list", "find"}
    /\ Finish(r, Error)
    /\ UNCHANGED <<op, want, saved, held, plural>>
    /\ Stay

\* (mutation of Probe) The original context is not restored after an error.
ProbeWithoutRestore(r) ==
    /\ At(r, "call")
    /\ op[r] = "check"
    /\ \E result \in {held[r], Error} :
          IF saved[r] \in {Empty, want[r]} \/ result = Error
            THEN Finish(r, result)
            ELSE /\ answer' = [answer EXCEPT ![r] = result]
                 /\ Goto(r, "restore")
    /\ UNCHANGED <<op, want, saved, held, plural>>
    /\ Stay

\* IsConnected: the list of namespaces succeeds, or fails within ten seconds.
\* Then the original context is restored, if there was another one.
Probe(r) ==
    /\ At(r, "call")
    /\ op[r] = "check"
    /\ \E result \in {held[r], Error} :
          IF saved[r] \in {Empty, want[r]}
            THEN Finish(r, result)
            ELSE /\ answer' = [answer EXCEPT ![r] = result]
                 /\ Goto(r, "restore")
    /\ UNCHANGED <<op, want, saved, held, plural>>
    /\ Stay

\* (mutation of RestoreContext) k.currentContext = originalContext.
RestoreNameOnly(r) ==
    /\ At(r, "restore")
    /\ current' = saved[r]
    /\ Goto(r, "idle")
    /\ UNCHANGED <<files, up, config, clientset, failed, pluralCache, disturbed,
                   op, want, saved, held, plural, answer>>

\* (mutation of RestoreContext) Restoring is repeated until it succeeds.
RestoreUntilDone(r) ==
    /\ At(r, "restore")
    /\ \E ok \in BOOLEAN :
          /\ CallSetContext(r, saved[r], ok)
          /\ Goto(r, IF ok THEN "idle" ELSE "restore")
    /\ UNCHANGED <<op, want, saved, held, plural, answer>>

\* Its error is dropped.
RestoreContext(r) ==
    /\ At(r, "restore")
    /\ \E ok \in BOOLEAN : CallSetContext(r, saved[r], ok)
    /\ Goto(r, "idle")
    /\ UNCHANGED <<op, want, saved, held, plural, answer>>

----------------------------------------------------------------------------

Serve(r) ==
    \/ DefaultContext(r)
    \/ SaveContext(r)
    \/ ResolveContext(r)
    \/ UseCurrentContext(r)
    \/ InitContext(r)
    \/ Report(r)
    \/ TakeClient(r)
    \/ LookupPlural(r)
    \/ DiscoverContext(r)
    \/ StorePlural(r)
    \/ Probe(r)
    \/ RestoreContext(r)

Boot ==
    /\ Start
    /\ UNCHANGED <<local, pluralCache, disturbed>>

Edit(t, e) ==
    /\ EditEntry(t, e)
    /\ UNCHANGED <<local, pluralCache, disturbed>>

\* A restart takes every request down with it.
Crash ==
    /\ Restart
    /\ pc' = [r \in Requests |-> "idle"]
    /\ op' = [r \in Requests |-> "list"]
    /\ want' = [r \in Requests |-> Empty]
    /\ saved' = [r \in Requests |-> Empty]
    /\ held' = [r \in Requests |-> None]
    /\ plural' = [r \in Requests |-> None]
    /\ answer' = [r \in Requests |-> None]
    /\ pluralCache' = None
    /\ disturbed' = {}

RNext ==
    \/ Boot
    \/ Crash
    \/ \E t \in Targets, e \in Entries : Edit(t, e)
    \/ \E r \in Requests, o \in Ops, name \in Names : Begin(r, o, name)
    \/ \E r \in Requests : Serve(r)
    \/ \E r \in Requests : ReadCRDs(r)
    \/ \E r \in Requests : ClusterAnswers(r)
    \/ \E r \in Requests : ClusterFails(r)

RSpec == RInit /\ [][RNext]_rvars

\* Go runs every goroutine, and a check's call has a ten second deadline.  No
\* other call has one, so a cluster need not ever answer a list.
FairRSpec == RSpec /\ WF_rvars(Boot) /\ \A r \in Requests : WF_rvars(Serve(r))

----------------------------------------------------------------------------
(* Properties.                                                              *)

\* The methods of the service as the handlers call them are the behaviour that
\* KubeContext specifies: nothing else touches the shared client.
Store == INSTANCE KubeContext
StoreSpec == Store!Spec

\* Reads that name a context and were answered.
Served(r) ==
    /\ pc[r] = "idle"
    /\ op[r] \in {"list", "find"}
    /\ want[r] # Empty
    /\ answer[r] \in Clients

\* A read may be answered by the cluster of another context for two reasons
\* only: another request moved the shared client meanwhile, or building the
\* client of the requested context failed earlier and SetContext's early return
\* then took the leftover client for its own.
MisrouteExplained ==
    \A r \in Requests :
        Served(r) /\ answer[r].target # Target(want[r]) =>
            r \in disturbed \/ Target(want[r]) \in failed

\* A check no other request ran into leaves the current context as it found
\* it, unless the checked or the original context is one that failed.
CheckKeepsContext ==
    \A r \in Requests :
        /\ pc[r] = "idle" /\ op[r] = "check" /\ answer[r] # None
        /\ r \notin disturbed
        /\ saved[r] # Empty
        => current = saved[r] \/ {saved[r], Target(want[r])} \cap failed # {}

\* The plural stored for later requests is one that some cluster's CRDs define:
\* a guess is used once and never cached.
OnlyDefinedPluralsCached ==
    pluralCache # None => \E k \in Clusters : PluralIn[k] = pluralCache

\* A request whose context was set is never turned away for lack of a client.
ClientAfterSetContext ==
    \A r \in Requests :
        pc[r] \in {"client", "discover", "crds"} /\ want[r] # Empty => config # None

\* Every check is answered, whatever the cluster does (the deadline of
\* IsConnected, kubernetes_context.go:185).
CheckReturns ==
    \A r \in Requests : op[r] = "check" /\ pc[r] # "idle" ~> pc[r] = "idle"

\* What the error text at kubernetes_context.go:106 says: asking for a context
\* that has failed is an error, so no read of it is answered by another's client.
FailedContextRefused ==
    \A r \in Requests :
        Served(r) /\ r \notin disturbed => answer[r].target = Target(want[r])
============================================================================
