---------------------------- MODULE KubeContext ----------------------------
(***************************************************************************)
(* The process-wide Kubernetes client of the Go server: the part of        *)
(* KubernetesService (services/kubernetes_service.go) that says which      *)
(* context is current and which client talks to its cluster.               *)
(*                                                                         *)
(* There is ONE such service for all requests.  Each of its methods holds  *)
(* the mutex k.mu for its whole body, so SetContext is one step here; what *)
(* a request does between two calls is the business of the modules that    *)
(* extend this one.                                                        *)
(***************************************************************************)
EXTENDS FiniteSets

CONSTANTS Contexts,   \* names of kubeconfig contexts
          InCluster,  \* the pseudo context "in-cluster"
          Empty,      \* the empty string ""
          Clusters,   \* the clusters a context can point to
          Absent,     \* an entry that cannot be loaded or is not there
          Unusable,   \* an entry that is there but yields no client
          None,       \* nil
          Offers      \* what the files may say of each target

Targets == Contexts \cup {InCluster}
Names   == Contexts \cup {Empty}
Entries == Clusters \cup {Absent, Unusable}

ASSUME ContextAssumption ==
    /\ InCluster \notin Contexts
    /\ Empty \notin Targets
    /\ {Absent, Unusable} \cap Clusters = {}
    /\ Absent # Unusable
    /\ None \notin [target : Targets, cluster : Clusters]
    /\ Offers \in [Targets -> SUBSET Entries]

VARIABLES inCluster,  \* are the service account files mounted?
          entry,      \* what kubeconfig (or the service account) says of a target
          up,         \* has NewKubernetesService returned?
          current,    \* k.currentContext
          config,     \* k.config
          clientset,  \* k.clientset
          failed      \* k.failedContexts

files == <<inCluster, entry>>
store == <<current, config, clientset, failed>>
vars  == <<files, up, store>>

\* A rest.Config, or the clientset made from it: the cluster it talks to, and
\* the context whose entry it was read from.
Clients == [target : Targets, cluster : Clusters]

TypeOK ==
    /\ inCluster \in BOOLEAN
    /\ entry \in [Targets -> Entries]
    /\ up \in BOOLEAN
    /\ current \in Targets \cup {Empty}
    /\ config \in Clients \cup {None}
    /\ clientset \in Clients \cup {None}
    /\ failed \subseteq Targets

----------------------------------------------------------------------------
(* SetContext(ctxName): its six ways out.  ok is "the returned error is nil". *)

Target(name) == IF inCluster THEN InCluster ELSE name

\* (mutation of Serving) The early return without its nil checks.
ServingByName(name) == current = Target(name)

\* The early return; it comes before failedContexts is looked at.
Serving(name) == current = Target(name) /\ clientset # None /\ config # None

Reuse(name, ok) ==
    /\ Serving(name)
    /\ ok = TRUE
    /\ UNCHANGED store

Refuse(name, ok) ==
    /\ ~Serving(name)
    /\ \/ Target(name) \in failed
       \/ Target(name) = Empty
    /\ ok = FALSE
    /\ UNCHANGED store

\* (mutation of Attempt) failedContexts is not consulted.
AttemptAgain(name) ==
    /\ ~Serving(name)
    /\ Target(name) \in Targets

Attempt(name) ==
    /\ ~Serving(name)
    /\ Target(name) \in Targets \ failed

\* (mutation of FailToLoad) The failure is recorded under ctxName, not under
\* targetContext.
FailToLoadByName(name, ok) ==
    /\ Attempt(name)
    /\ entry[Target(name)] = Absent
    /\ failed' = failed \cup {name}
    /\ ok = FALSE
    /\ UNCHANGED <<current, config, clientset>>

\* InClusterConfig fails, or the kubeconfig cannot be read or lacks the context.
FailToLoad(name, ok) ==
    /\ Attempt(name)
    /\ entry[Target(name)] = Absent
    /\ failed' = failed \cup {Target(name)}
    /\ ok = FALSE
    /\ UNCHANGED <<current, config, clientset>>

\* (mutation of FailToBuild) The late failure is not recorded.
FailToBuildUnrecorded(name, ok) ==
    /\ Attempt(name)
    /\ entry[Target(name)] = Unusable
    /\ current' = Target(name)
    /\ ok = FALSE
    /\ UNCHANGED <<config, clientset, failed>>

\* currentContext has been assigned by the time ClientConfig, the Azure setup
\* or NewForConfig fails; config and clientset keep their old values.
FailToBuild(name, ok) ==
    /\ Attempt(name)
    /\ entry[Target(name)] = Unusable
    /\ current' = Target(name)
    /\ failed' = failed \cup {Target(name)}
    /\ ok = FALSE
    /\ UNCHANGED <<config, clientset>>

Build(name, ok) ==
    /\ Attempt(name)
    /\ entry[Target(name)] \in Clusters
    /\ current' = Target(name)
    /\ config' = [target |-> Target(name), cluster |-> entry[Target(name)]]
    /\ clientset' = config'
    /\ failed' = failed \ {Target(name)}
    /\ ok = TRUE

SetContext(name, ok) ==
    \/ Reuse(name, ok)
    \/ Refuse(name, ok)
    \/ FailToLoad(name, ok)
    \/ FailToBuild(name, ok)
    \/ Build(name, ok)

----------------------------------------------------------------------------
(* The process around the methods.                                          *)

Init ==
    /\ inCluster \in BOOLEAN
    /\ entry \in [Targets -> Entries]
    /\ \A t \in Targets : entry[t] \in Offers[t]
    /\ up = FALSE
    /\ current = Empty
    /\ config = None
    /\ clientset = None
    /\ failed = {}

\* NewKubernetesService: under a service account it sets the context at once
\* and only logs the error; otherwise it sets nothing.
Start ==
    /\ ~up
    /\ up' = TRUE
    /\ \/ inCluster /\ \E ok \in BOOLEAN : SetContext(Empty, ok)
       \/ ~inCluster /\ UNCHANGED store
    /\ UNCHANGED files

Switch(name) ==
    /\ up
    /\ \E ok \in BOOLEAN : SetContext(name, ok)
    /\ UNCHANGED <<files, up>>

\* The kubeconfig is edited, certificates vanish, a token is rotated.
EditEntry(t, e) ==
    /\ e \in Offers[t]
    /\ (t = InCluster) <=> inCluster
    /\ entry' = [entry EXCEPT ![t] = e]
    /\ UNCHANGED <<inCluster, up, store>>

\* The process dies and comes back; all of the service's state is in memory.
Restart ==
    /\ up
    /\ up' = FALSE
    /\ current' = Empty
    /\ config' = None
    /\ clientset' = None
    /\ failed' = {}
    /\ UNCHANGED files

Next ==
    \/ Start
    \/ \E name \in Names : Switch(name)
    \/ \E t \in Targets, e \in Entries : EditEntry(t, e)
    \/ Restart

Spec == Init /\ [][Next]_vars

----------------------------------------------------------------------------
(* Properties.                                                              *)

\* The current context and the client may disagree in one way only: building
\* a client for the current context failed after currentContext had been
\* assigned (SetContext, kubernetes_context.go:134-154), and then the failure
\* is on record in failedContexts.
CurrentClientOrFailed ==
    current # Empty =>
        \/ config # None /\ config.target = current
        \/ current \in failed

\* "has previously failed and will not be retried" (kubernetes_context.go:106):
\* until the process restarts, a context on the failed list stays there and no
\* client is ever built for it, even if the current client is already its own.
FailedNeverRebuilt ==
    [][ up /\ up' =>
          /\ failed \subseteq failed'
          /\ config' # config => config'.target \notin failed ]_vars
============================================================================
