------------------------- MODULE KubeRequestsProofs -------------------------
(* The safety of KubeRequests for any number of requests, any contexts,
   clusters and plural names, and that it implements KubeContext.            *)
EXTENDS KubeRequests, TLAPS

----------------------------------------------------------------------------
(* The shared client alone: what TLC checks of KubeContext on two contexts,
   for any contexts, clusters and kubeconfig contents.                       *)

\* SetContext keeps every field of the service within its type.
LEMMA SetContextType ==
    ASSUME TypeOK, NEW name, NEW ok \in BOOLEAN, SetContext(name, ok)
    PROVE  /\ current' \in Targets \cup {Empty}
           /\ config' \in Clients \cup {None}
           /\ clientset' \in Clients \cup {None}
           /\ failed' \subseteq Targets
<1> USE DEF TypeOK, store
<1>1. CASE Reuse(name, ok)
  BY <1>1 DEF Reuse
<1>2. CASE Refuse(name, ok)
  BY <1>2 DEF Refuse
<1>3. CASE FailToLoad(name, ok)
  BY <1>3 DEF FailToLoad, Attempt
<1>4. CASE FailToBuild(name, ok)
  BY <1>4 DEF FailToBuild, Attempt
<1>5. CASE Build(name, ok)
  <2>1. Target(name) \in Targets
    BY <1>5 DEF Build, Attempt
  <2>2. config' \in Clients
    BY <1>5, <2>1 DEF Build, Clients
  <2> QED
    BY <1>5, <2>1, <2>2 DEF Build
<1> QED
  BY <1>1, <1>2, <1>3, <1>4, <1>5 DEF SetContext

\* Start, the five calls and the environment keep the types.
THEOREM TypeCorrect == Spec => []TypeOK
<1>1. Init => TypeOK
  BY DEF Init, TypeOK
<1>2. TypeOK /\ [Next]_vars => TypeOK'
  <2> SUFFICES ASSUME TypeOK, [Next]_vars PROVE TypeOK'
    OBVIOUS
  <2>1. CASE Start
    <3>1. CASE inCluster /\ \E ok \in BOOLEAN : SetContext(Empty, ok)
      BY <2>1, <3>1, SetContextType DEF Start, TypeOK, files
    <3>2. CASE ~inCluster /\ UNCHANGED store
      BY <2>1, <3>2 DEF Start, TypeOK, files, store
    <3> QED
      BY <2>1, <3>1, <3>2 DEF Start
  <2>2. ASSUME NEW name \in Names, Switch(name) PROVE TypeOK'
    BY <2>2, SetContextType DEF Switch, TypeOK, files
  <2>3. ASSUME NEW t \in Targets, NEW e \in Entries, EditEntry(t, e) PROVE TypeOK'
    BY <2>3 DEF EditEntry, TypeOK, store
  <2>4. CASE Restart
    BY <2>4 DEF Restart, TypeOK, files
  <2>5. CASE UNCHANGED vars
    BY <2>5 DEF vars, files, store, TypeOK
  <2> QED
    BY <2>1, <2>2, <2>3, <2>4, <2>5 DEF Next
<1> QED
  BY <1>1, <1>2, PTL DEF Spec

\* The five ways out of SetContext keep the current context and the client
\* together, or leave the failure that separated them on record.
LEMMA SetContextAgreement ==
    ASSUME TypeOK, CurrentClientOrFailed,
           NEW name, NEW ok \in BOOLEAN, SetContext(name, ok)
    PROVE  CurrentClientOrFailed'
<1> USE DEF CurrentClientOrFailed, store
<1>1. CASE Reuse(name, ok)
  BY <1>1 DEF Reuse
<1>2. CASE Refuse(name, ok)
  BY <1>2 DEF Refuse
<1>3. CASE FailToLoad(name, ok)
  BY <1>3 DEF FailToLoad
<1>4. CASE FailToBuild(name, ok)
  BY <1>4 DEF FailToBuild
<1>5. CASE Build(name, ok)
  <2>1. config' \in Clients /\ config'.target = Target(name)
    BY <1>5 DEF Build, Attempt, Clients
  <2>2. config' # None
    BY <2>1, ContextAssumption DEF Clients
  <2> QED
    BY <1>5, <2>1, <2>2 DEF Build
<1> QED
  BY <1>1, <1>2, <1>3, <1>4, <1>5 DEF SetContext

\* No step of the service or of its environment separates them.
LEMMA AgreementStep == TypeOK /\ CurrentClientOrFailed /\ [Next]_vars => CurrentClientOrFailed'
<1> SUFFICES ASSUME TypeOK, CurrentClientOrFailed, [Next]_vars
             PROVE  CurrentClientOrFailed'
  OBVIOUS
<1>1. CASE Start
  BY <1>1, SetContextAgreement DEF Start, store, CurrentClientOrFailed
<1>2. ASSUME NEW name \in Names, Switch(name) PROVE CurrentClientOrFailed'
  BY <1>2, SetContextAgreement DEF Switch
<1>3. ASSUME NEW t \in Targets, NEW e \in Entries, EditEntry(t, e)
      PROVE  CurrentClientOrFailed'
  BY <1>3 DEF EditEntry, store, CurrentClientOrFailed
<1>4. CASE Restart
  BY <1>4 DEF Restart, CurrentClientOrFailed
<1>5. CASE UNCHANGED vars
  BY <1>5 DEF vars, store, CurrentClientOrFailed
<1> QED
  BY <1>1, <1>2, <1>3, <1>4, <1>5 DEF Next

\* Whenever a context is current, the client is the one built for it, or the
\* context is on the failed list.
THEOREM Agreement == Spec => []CurrentClientOrFailed
<1>1. Init => CurrentClientOrFailed
  BY DEF Init, CurrentClientOrFailed
<1> QED
  BY <1>1, AgreementStep, TypeCorrect, PTL DEF Spec

\* Until a restart, a failed context stays failed and no client is built for it.
THEOREM NeverRebuilt == Spec => FailedNeverRebuilt
<1> DEFINE Kept == up /\ up' =>
                     /\ failed \subseteq failed'
                     /\ config' # config => config'.target \notin failed
<1>1. TypeOK /\ [Next]_vars => [Kept]_vars
  <2> SUFFICES ASSUME TypeOK, Next, up, up' PROVE Kept
    BY DEF vars
  <2>1. ASSUME NEW name \in Names, NEW ok \in BOOLEAN, SetContext(name, ok)
        PROVE  Kept
    <3>1. CASE Build(name, ok)
      BY <3>1 DEF Build, Attempt
    <3> QED
      BY <2>1, <3>1 DEF SetContext, Reuse, Refuse, FailToLoad, FailToBuild, store
  <2>2. CASE Start
    BY <2>2 DEF Start
  <2>3. ASSUME NEW name \in Names, Switch(name) PROVE Kept
    BY <2>1, <2>3 DEF Switch
  <2>4. ASSUME NEW t \in Targets, NEW e \in Entries, EditEntry(t, e) PROVE Kept
    BY <2>4 DEF EditEntry, store
  <2>5. CASE Restart
    BY <2>5 DEF Restart
  <2> QED
    BY <2>2, <2>3, <2>4, <2>5 DEF Next
<1> QED
  BY <1>1, TypeCorrect, PTL DEF Spec, FailedNeverRebuilt

----------------------------------------------------------------------------
(* What a call of SetContext does to the shared client.                     *)

\* There is no client without a current context, and under a service account no
\* other context than "in-cluster".
ClientNamed ==
    /\ config # None => current # Empty
    /\ inCluster => current \in {Empty, InCluster}

LEMMA SetContextNamed ==
    ASSUME ClientNamed, NEW name, NEW ok, SetContext(name, ok), inCluster' = inCluster
    PROVE  ClientNamed'
BY ContextAssumption DEF ClientNamed, SetContext, Reuse, Refuse, FailToLoad, FailToBuild, Build,
   Attempt, Target, store

\* A failed context stays on the list, and a client once built is not dropped.
LEMMA SetContextKeeps ==
    ASSUME TypeOK, NEW name, NEW ok, SetContext(name, ok)
    PROVE  /\ failed \subseteq failed'
           /\ config # None => config' # None
<1>1. CASE Build(name, ok)
  <2>1. config' \in Clients
    BY <1>1 DEF Build, Attempt, Clients
  <2> QED
    BY <1>1, <2>1, ContextAssumption DEF Build, Attempt, Clients
<1> QED
  BY <1>1 DEF SetContext, Reuse, Refuse, FailToLoad, FailToBuild, store

\* When SetContext returns no error, its target is current and a client is
\* there: the target's own, unless building that one has failed.
LEMMA SetContextSucceeds ==
    ASSUME TypeOK, CurrentClientOrFailed, ClientNamed,
           NEW name, NEW ok \in BOOLEAN, ok = TRUE, SetContext(name, ok)
    PROVE  /\ current' = Target(name)
           /\ config' # None
           /\ config'.target = Target(name) \/ Target(name) \in failed'
<1>1. CASE Build(name, ok)
  <2>1. config' \in Clients /\ config'.target = Target(name)
    BY <1>1 DEF Build, Attempt, Clients
  <2> QED
    BY <1>1, <2>1, ContextAssumption DEF Build, Clients
<1>2. CASE Reuse(name, ok)
  <2>1. Target(name) # Empty
    BY <1>2 DEF Reuse, Serving, ClientNamed
  <2> QED
    BY <1>2, <2>1 DEF Reuse, Serving, store, CurrentClientOrFailed
<1> QED
  BY <1>1, <1>2 DEF SetContext, Refuse, FailToLoad, FailToBuild

\* When it returns an error, the current context is the old one or the target
\* is on the failed list, and the client is the old one.
LEMMA SetContextFails ==
    ASSUME NEW name, NEW ok \in BOOLEAN, ok = FALSE, SetContext(name, ok)
    PROVE  /\ config' = config
           /\ current' = current \/ Target(name) \in failed'
           /\ Target(name) \in failed' \/ Target(name) = Empty
BY DEF SetContext, Reuse, Refuse, FailToLoad, FailToBuild, Build, store

----------------------------------------------------------------------------
(* Types.                                                                   *)

\* A call of SetContext by a request keeps the types of what it touches.
LEMMA CallType ==
    ASSUME RTypeOK, NEW r \in Requests, NEW name, NEW ok \in BOOLEAN,
           CallSetContext(r, name, ok)
    PROVE  /\ TypeOK'
           /\ pluralCache' \in Plurals \cup {None}
           /\ disturbed' \subseteq Requests
<1>1. TypeOK'
  BY SetContextType DEF RTypeOK, CallSetContext, TypeOK, files
<1> QED
  BY <1>1 DEF RTypeOK, CallSetContext

\* A step that leaves the shared state alone keeps its types.
LEMMA StayType ==
    ASSUME RTypeOK, Stay
    PROVE  /\ TypeOK'
           /\ pluralCache' \in Plurals \cup {None}
           /\ disturbed' \subseteq Requests
BY DEF RTypeOK, Stay, TypeOK, vars, files, store

\* Once a request has read a client there is one: ReadCRDs needs it for its type.
ClientHeld == \A r \in Requests : pc[r] \in {"lookup", "discover", "crds"} => config # None

\* Every step of a request, of the clusters and of the environment keeps the
\* state within its types (KubeRequests.tla, over the code of the handlers).
LEMMA RTypeStep == RTypeOK /\ ClientHeld /\ [RNext]_rvars => RTypeOK'
<1> SUFFICES ASSUME RTypeOK, ClientHeld, [RNext]_rvars PROVE RTypeOK'
  OBVIOUS
<1> USE DEF At, Goto, Finish
<1> DEFINE LocalType == /\ pc' \in [Requests -> PCs]
                        /\ op' \in [Requests -> Ops]
                        /\ want' \in [Requests -> Names \cup {InCluster}]
                        /\ saved' \in [Requests -> Targets \cup {Empty}]
                        /\ held' \in [Requests -> Clients \cup {None}]
                        /\ plural' \in [Requests -> Plurals \cup {None}]
                        /\ answer' \in [Requests -> Clients \cup Targets \cup {Empty, None, Error}]
<1>1. CASE Boot
  <2>1. TypeOK'
    BY <1>1, SetContextType DEF Boot, Start, RTypeOK, TypeOK, files, store
  <2> QED
    BY <1>1, <2>1 DEF Boot, RTypeOK, local
<1>2. CASE Crash
  <2>1. TypeOK'
    BY <1>2 DEF Crash, Restart, RTypeOK, TypeOK, files
  <2> QED
    BY <1>2, <2>1 DEF Crash, RTypeOK, PCs, Ops, Names
<1>3. ASSUME NEW t \in Targets, NEW e \in Entries, Edit(t, e) PROVE RTypeOK'
  <2>1. TypeOK'
    BY <1>3 DEF Edit, EditEntry, RTypeOK, TypeOK, store
  <2> QED
    BY <1>3, <2>1 DEF Edit, RTypeOK, local
<1>4. ASSUME NEW r \in Requests, NEW o \in Ops, NEW name \in Names, Begin(r, o, name)
      PROVE  RTypeOK'
  <2>1. TypeOK'
    BY <1>4 DEF Begin, RTypeOK, TypeOK, vars, files, store
  <2>2. LocalType
    BY <1>4 DEF Begin, RTypeOK, PCs, Names
  <2> QED
    BY <1>4, <2>1, <2>2 DEF Begin, RTypeOK
<1>5. ASSUME NEW r \in Requests, Serve(r) PROVE RTypeOK'
  <2>1. CASE DefaultContext(r)
    <3>1. LocalType
      BY <2>1 DEF DefaultContext, RTypeOK, TypeOK, PCs, Names, Targets
    <3> QED
      BY <2>1, <3>1, StayType DEF DefaultContext, RTypeOK
  <2>2. CASE SaveContext(r)
    <3>1. LocalType
      BY <2>2 DEF SaveContext, RTypeOK, TypeOK, PCs
    <3> QED
      BY <2>2, <3>1, StayType DEF SaveContext, RTypeOK
  <2>3. CASE ResolveContext(r)
    <3>1. LocalType
      BY <2>3 DEF ResolveContext, RTypeOK, PCs
    <3> QED
      BY <2>3, <3>1, CallType DEF ResolveContext, RTypeOK
  <2>4. CASE UseCurrentContext(r)
    <3>1. LocalType
      BY <2>4 DEF UseCurrentContext, RTypeOK, PCs
    <3> QED
      BY <2>4, <3>1, StayType DEF UseCurrentContext, RTypeOK
  <2>5. CASE InitContext(r)
    <3>1. LocalType
      BY <2>5 DEF InitContext, RTypeOK, PCs
    <3> QED
      BY <2>5, <3>1, CallType DEF InitContext, RTypeOK
  <2>6. CASE Report(r)
    <3>1. LocalType
      BY <2>6 DEF Report, RTypeOK, TypeOK, PCs
    <3> QED
      BY <2>6, <3>1, StayType DEF Report, RTypeOK
  <2>7. CASE TakeClient(r)
    <3>1. LocalType
      BY <2>7 DEF TakeClient, RTypeOK, TypeOK, PCs
    <3> QED
      BY <2>7, <3>1, StayType DEF TakeClient, RTypeOK
  <2>8. CASE LookupPlural(r)
    <3>1. LocalType
      BY <2>8 DEF LookupPlural, RTypeOK, PCs
    <3> QED
      BY <2>8, <3>1, StayType DEF LookupPlural, RTypeOK
  <2>9. CASE DiscoverContext(r)
    <3>1. LocalType
      BY <2>9, RequestAssumption DEF DiscoverContext, RTypeOK, PCs
    <3> QED
      BY <2>9, <3>1, CallType DEF DiscoverContext, RTypeOK
  <2>10. CASE StorePlural(r)
    <3>1. LocalType
      BY <2>10 DEF StorePlural, RTypeOK, PCs
    <3>2. TypeOK'
      BY <2>10 DEF StorePlural, RTypeOK, TypeOK, vars, files, store
    <3> QED
      BY <2>10, <3>1, <3>2 DEF StorePlural, RTypeOK
  <2>11. CASE Probe(r)
    <3>1. LocalType
      BY <2>11 DEF Probe, RTypeOK, PCs
    <3> QED
      BY <2>11, <3>1, StayType DEF Probe, RTypeOK
  <2>12. CASE RestoreContext(r)
    <3>1. LocalType
      BY <2>12 DEF RestoreContext, RTypeOK, PCs
    <3> QED
      BY <2>12, <3>1, CallType DEF RestoreContext, RTypeOK
  <2> QED
    BY <1>5, <2>1, <2>2, <2>3, <2>4, <2>5, <2>6, <2>7, <2>8, <2>9, <2>10, <2>11, <2>12
    DEF Serve
<1>6. ASSUME NEW r \in Requests, ReadCRDs(r) PROVE RTypeOK'
  <2>1. config \in Clients
    BY <1>6 DEF ReadCRDs, ClientHeld, RTypeOK, TypeOK
  <2>2. PluralIn[config.cluster] \in Plurals \cup {None}
    BY <2>1, RequestAssumption DEF Clients
  <2>3. LocalType
    BY <1>6, <2>2, RequestAssumption DEF ReadCRDs, RTypeOK, PCs
  <2> QED
    BY <1>6, <2>3, StayType DEF ReadCRDs, RTypeOK
<1>7. ASSUME NEW r \in Requests, ClusterAnswers(r) PROVE RTypeOK'
  <2>1. LocalType
    BY <1>7 DEF ClusterAnswers, RTypeOK, PCs
  <2> QED
    BY <1>7, <2>1, StayType DEF ClusterAnswers, RTypeOK
<1>8. ASSUME NEW r \in Requests, ClusterFails(r) PROVE RTypeOK'
  <2>1. LocalType
    BY <1>8 DEF ClusterFails, RTypeOK, PCs
  <2> QED
    BY <1>8, <2>1, StayType DEF ClusterFails, RTypeOK
<1>9. CASE UNCHANGED rvars
  BY <1>9 DEF rvars, vars, files, store, local, RTypeOK, TypeOK
<1> QED
  BY <1>1, <1>2, <1>3, <1>4, <1>5, <1>6, <1>7, <1>8, <1>9 DEF RNext

\* No step takes the client away from a request that has read one.
LEMMA ClientHeldStep == RTypeOK /\ ClientHeld /\ [RNext]_rvars => ClientHeld'
<1> SUFFICES ASSUME RTypeOK, ClientHeld, [RNext]_rvars PROVE ClientHeld'
  OBVIOUS
<1> USE DEF ClientHeld, At, Goto, Finish
<1>1. CASE Boot
  BY <1>1, SetContextKeeps DEF Boot, Start, RTypeOK, local, store
<1>2. CASE Crash
  BY <1>2 DEF Crash
<1>3. ASSUME NEW t \in Targets, NEW e \in Entries, Edit(t, e) PROVE ClientHeld'
  BY <1>3 DEF Edit, EditEntry, store, local
<1>4. ASSUME NEW r \in Requests, NEW o \in Ops, NEW name \in Names, Begin(r, o, name)
      PROVE  ClientHeld'
  BY <1>4 DEF Begin, RTypeOK, vars, store
<1>5. ASSUME NEW r \in Requests, Serve(r) PROVE ClientHeld'
  <2> USE DEF RTypeOK
  <2>1. ASSUME NEW name, NEW ok \in BOOLEAN, CallSetContext(r, name, ok), config # None
        PROVE  config' # None
    BY <2>1, SetContextKeeps DEF CallSetContext
  <2>2. CASE DefaultContext(r) \/ SaveContext(r) \/ UseCurrentContext(r) \/ Report(r)
    BY <2>2 DEF DefaultContext, SaveContext, UseCurrentContext, Report, Stay, vars, store
  <2>3. CASE TakeClient(r) \/ LookupPlural(r) \/ StorePlural(r) \/ Probe(r)
    BY <2>3 DEF TakeClient, LookupPlural, StorePlural, Probe, Stay, vars, store
  <2>4. CASE ResolveContext(r)
    BY <2>1, <2>4 DEF ResolveContext
  <2>5. CASE InitContext(r)
    BY <2>1, <2>5 DEF InitContext
  <2>6. CASE DiscoverContext(r)
    BY <2>1, <2>6 DEF DiscoverContext
  <2>7. CASE RestoreContext(r)
    BY <2>1, <2>7 DEF RestoreContext
  <2> QED
    BY <1>5, <2>2, <2>3, <2>4, <2>5, <2>6, <2>7 DEF Serve
<1>6. ASSUME NEW r \in Requests, ReadCRDs(r) \/ ClusterAnswers(r) \/ ClusterFails(r)
      PROVE  ClientHeld'
  BY <1>6 DEF ReadCRDs, ClusterAnswers, ClusterFails, Stay, vars, store, RTypeOK
<1>7. CASE UNCHANGED rvars
  BY <1>7 DEF rvars, vars, store, local
<1> QED
  BY <1>1, <1>2, <1>3, <1>4, <1>5, <1>6, <1>7 DEF RNext

LEMMA RInitType == RInit => RTypeOK /\ ClientHeld
<1> SUFFICES ASSUME RInit
             PROVE  RTypeOK /\ ClientHeld
  OBVIOUS
<1>1. TypeOK
  <2>1. inCluster \in BOOLEAN /\ entry \in [Targets -> Entries]
    BY DEF RInit, Init
  <2>2. up = FALSE /\ current = Empty /\ config = None /\ clientset = None /\ failed = {}
    BY DEF RInit, Init
  <2> QED
    BY <2>1, <2>2 DEF TypeOK
<1>2. pc \in [Requests -> PCs] /\ op \in [Requests -> Ops]
  BY DEF RInit, PCs, Ops
<1>3. want \in [Requests -> Names \cup {InCluster}]
  <2>1. Empty \in Names
    BY DEF Names
  <2> QED
    BY <2>1 DEF RInit
<1>4. saved \in [Requests -> Targets \cup {Empty}]
  BY DEF RInit
<1>5. held \in [Requests -> Clients \cup {None}] /\ plural \in [Requests -> Plurals \cup {None}]
  BY DEF RInit
<1>6. answer \in [Requests -> Clients \cup Targets \cup {Empty, None, Error}]
  BY DEF RInit
<1>7. pluralCache \in Plurals \cup {None} /\ disturbed \subseteq Requests
  BY DEF RInit
<1>8. RTypeOK
  BY <1>1, <1>2, <1>3, <1>4, <1>5, <1>6, <1>7 DEF RTypeOK
<1>9. ClientHeld
  BY DEF RInit, ClientHeld
<1> QED
  BY <1>8, <1>9

\* The state never leaves its types, and a request that reads CRDs or a plural
\* name has a client to do it with.
THEOREM RTypeCorrect == RSpec => []RTypeOK
<1>1. RSpec => [](RTypeOK /\ ClientHeld)
  BY RInitType, RTypeStep, ClientHeldStep, PTL DEF RSpec
<1> QED
  BY <1>1, PTL
----------------------------------------------------------------------------
(* The invariant of one request.                                            *)

\* Which handlers pass through which places, and with what.
Shape(r) ==
    /\ pc[r] \in {"default", "save", "restore"} => op[r] = "check"
    /\ pc[r] = "report" => op[r] = "switch"
    /\ pc[r] \in {"init", "lookup", "discover", "crds", "store"} => op[r] \in {"list", "find"}
    /\ pc[r] \in {"client", "call"} => op[r] # "switch"
    /\ op[r] = "check" /\ pc[r] \notin {"default", "idle"} => want[r] # Empty
    /\ pc[r] = "init" => want[r] = Empty
    /\ pc[r] = "discover" => want[r] # Empty
    /\ pc[r] = "default" => saved[r] = Empty
    /\ pc[r] = "restore" => saved[r] # Empty
    /\ pc[r] \in {"lookup", "discover", "crds", "store", "call"} => held[r] \in Clients
    /\ inCluster => saved[r] \in {Empty, InCluster}

\* A request that names a context and has passed SetContext finds a client.
Supplied(r) ==
    pc[r] \in {"client", "discover", "crds"} /\ want[r] # Empty => config # None

\* A read that nothing came in between of is on the way to its own context's
\* cluster, holds that cluster's client, or has been answered by it.
Routed(r) ==
    LET t == Target(want[r]) IN
    op[r] \in {"list", "find"} /\ want[r] # Empty /\ r \notin disturbed /\ t \notin failed =>
        /\ pc[r] = "client" => config.target = t
        /\ pc[r] \in {"lookup", "discover", "crds", "store", "call"} => held[r].target = t
        /\ pc[r] = "idle" /\ answer[r] \in Clients => answer[r].target = t

\* A check that nothing came in between of sees the context it saved, then its
\* own, then the saved one again.
Kept(r) ==
    op[r] = "check" /\ r \notin disturbed =>
        /\ pc[r] = "resolve" => current = saved[r]
        /\ pc[r] \in {"client", "call", "restore"} => current = Target(want[r])
        /\ pc[r] = "idle" /\ answer[r] # None /\ saved[r] # Empty =>
              current = saved[r] \/ {saved[r], Target(want[r])} \cap failed # {}

Sound(r) == Shape(r) /\ Supplied(r) /\ Routed(r) /\ Kept(r)

\* While the server is down no request is under way or remembered.
Quiet == ~up => /\ config = None
                /\ \A r \in Requests : pc[r] = "idle" /\ answer[r] = None

RInv ==
    /\ RTypeOK
    /\ ClientHeld
    /\ CurrentClientOrFailed
    /\ ClientNamed
    /\ Quiet
    /\ \A r \in Requests : Sound(r)

\* A step leaves r where it is ...
Untouched(r) ==
    /\ pc'[r] = pc[r] /\ op'[r] = op[r] /\ want'[r] = want[r]
    /\ saved'[r] = saved[r] /\ held'[r] = held[r] /\ answer'[r] = answer[r]

\* ... and marks r as disturbed if it moves the shared client.
Spared(r) ==
    /\ inCluster' = inCluster
    /\ failed \subseteq failed'
    /\ config # None => config' # None
    /\ r \in disturbed => r \in disturbed'
    /\ r \in disturbed' \/ (current' = current /\ config' = config)

\* A request's invariant survives such steps.
LEMMA BystanderSound ==
    ASSUME NEW r \in Requests, Sound(r), Untouched(r), Spared(r)
    PROVE  Sound(r)'
<1> USE DEF Untouched, Spared
<1>1. Shape(r)'
  BY DEF Sound, Shape
<1>2. Supplied(r)'
  BY DEF Sound, Supplied
<1>3. Routed(r)'
  BY DEF Sound, Routed, Target
<1>4. Kept(r)'
  BY DEF Sound, Kept, Target
<1> QED
  BY <1>1, <1>2, <1>3, <1>4 DEF Sound
\* Calling SetContext marks everyone else.
LEMMA CallSpares ==
    ASSUME RTypeOK, NEW q \in Requests, NEW r \in Requests \ {q}, NEW name,
           NEW ok \in BOOLEAN, CallSetContext(q, name, ok)
    PROVE  Spared(r)
<1>1. failed \subseteq failed' /\ (config # None => config' # None)
  BY SetContextKeeps DEF CallSetContext, RTypeOK
<1> QED
  BY <1>1 DEF Spared, CallSetContext, files

LEMMA StaySpares ==
    ASSUME NEW r \in Requests, Stay
    PROVE  Spared(r)
BY DEF Spared, Stay, vars, files, store

\* A step of q is one that r, another request, only stands by.
LEMMA OthersSound ==
    ASSUME RInv, NEW q \in Requests, NEW r \in Requests \ {q},
           Serve(q) \/ ReadCRDs(q) \/ ClusterAnswers(q) \/ ClusterFails(q)
    PROVE  Sound(r)'
<1> USE DEF RInv
<1> SUFFICES Untouched(r) /\ Spared(r)
  BY BystanderSound
<1> USE DEF RTypeOK, Untouched, Goto, Finish
<1>1. CASE DefaultContext(q) \/ SaveContext(q) \/ UseCurrentContext(q) \/ Report(q)
  BY <1>1, StaySpares DEF DefaultContext, SaveContext, UseCurrentContext, Report
<1>2. CASE TakeClient(q) \/ LookupPlural(q) \/ Probe(q)
  BY <1>2, StaySpares DEF TakeClient, LookupPlural, Probe
<1>3. CASE ReadCRDs(q) \/ ClusterAnswers(q) \/ ClusterFails(q)
  BY <1>3, StaySpares DEF ReadCRDs, ClusterAnswers, ClusterFails
<1>4. CASE StorePlural(q)
  BY <1>4 DEF StorePlural, Spared, vars, files, store
<1>5. CASE ResolveContext(q)
  BY <1>5, CallSpares DEF ResolveContext
<1>6. CASE InitContext(q)
  BY <1>6, CallSpares DEF InitContext
<1>7. CASE DiscoverContext(q)
  BY <1>7, CallSpares DEF DiscoverContext
<1>8. CASE RestoreContext(q)
  BY <1>8, CallSpares DEF RestoreContext
<1> QED
  BY <1>1, <1>2, <1>3, <1>4, <1>5, <1>6, <1>7, <1>8 DEF Serve
\* What a call by r itself comes to.
LEMMA CallSucceeds ==
    ASSUME RInv, NEW r \in Requests,
           NEW name, NEW ok \in BOOLEAN, ok = TRUE, CallSetContext(r, name, ok)
    PROVE  /\ current' = Target(name)
           /\ config' # None
           /\ config'.target = Target(name) \/ Target(name) \in failed'
BY SetContextSucceeds DEF CallSetContext, RInv, RTypeOK

LEMMA CallFails ==
    ASSUME NEW r \in Requests, NEW name, NEW ok \in BOOLEAN, ok = FALSE,
           CallSetContext(r, name, ok)
    PROVE  /\ config' = config
           /\ current' = current \/ Target(name) \in failed'
           /\ Target(name) \in failed' \/ Target(name) = Empty
BY SetContextFails DEF CallSetContext

LEMMA CallKeeps ==
    ASSUME RInv, NEW r \in Requests, NEW name, NEW ok \in BOOLEAN, CallSetContext(r, name, ok)
    PROVE  /\ failed \subseteq failed'
           /\ config # None => config' # None
           /\ inCluster' = inCluster
           /\ r \in disturbed' <=> r \in disturbed
BY SetContextKeeps DEF CallSetContext, RInv, RTypeOK, files

\* A step of r keeps r's own invariant.
LEMMA OwnSound ==
    ASSUME RInv, NEW r \in Requests,
           Serve(r) \/ ReadCRDs(r) \/ ClusterAnswers(r) \/ ClusterFails(r)
    PROVE  Sound(r)'
<1> USE DEF RInv, RTypeOK, Goto, Finish, At
<1>0. Sound(r) /\ ClientNamed
  OBVIOUS
<1>1. CASE DefaultContext(r)
  BY <1>0, <1>1, RequestAssumption
  DEF DefaultContext, Stay, vars, files, store, Sound, Shape, Supplied, Routed, Kept, Target, TypeOK
<1>2. CASE SaveContext(r)
  BY <1>0, <1>2
  DEF SaveContext, Stay, vars, files, store, Sound, Shape, Supplied, Routed, Kept, Target, ClientNamed
<1>3. CASE ResolveContext(r)
  <2>1. ASSUME NEW ok \in BOOLEAN, ok = TRUE, CallSetContext(r, want[r], ok),
               pc' = [pc EXCEPT ![r] = IF op[r] = "switch" THEN "report" ELSE "client"],
               UNCHANGED <<op, want, saved, held, answer>>
        PROVE  Sound(r)'
    <3>0. inCluster' = inCluster /\ (r \in disturbed' <=> r \in disturbed)
      BY <2>1, CallKeeps
    <3>1. /\ inCluster' = inCluster
          /\ Target(want[r])' = Target(want[r])
          /\ r \in disturbed' <=> r \in disturbed
      BY <2>1, <3>0 DEF Target
    <3>2. /\ current' = Target(want[r])
          /\ config' # None
          /\ config'.target = Target(want[r]) \/ Target(want[r]) \in failed'
      BY <2>1, CallSucceeds
    <3>3. Shape(r)' /\ Supplied(r)'
      BY <1>0, <1>3, <2>1, <3>1, <3>2 DEF ResolveContext, Sound, Shape, Supplied
    <3>4. Routed(r)' /\ Kept(r)'
      BY <1>0, <2>1, <3>1, <3>2 DEF Sound, Routed, Kept
    <3> QED
      BY <3>3, <3>4 DEF Sound
  <2>2. ASSUME NEW ok \in BOOLEAN, ok = FALSE, CallSetContext(r, want[r], ok),
               pc' = [pc EXCEPT ![r] = "idle"],
               answer' = [answer EXCEPT ![r] = Error],
               UNCHANGED <<op, want, saved, held>>
        PROVE  Sound(r)'
    <3>1. /\ inCluster' = inCluster
          /\ Target(want[r])' = Target(want[r])
          /\ r \in disturbed' <=> r \in disturbed
      BY <2>2, CallKeeps DEF Target
    <3>2. current' = current \/ Target(want[r]) \in failed'
      BY <2>2, CallFails
    <3>3. Shape(r)' /\ Supplied(r)' /\ Routed(r)'
      BY <1>0, <2>2, <3>1, RequestAssumption DEF Sound, Shape, Supplied, Routed
    <3>4. Kept(r)'
      BY <1>0, <1>3, <2>2, <3>1, <3>2 DEF ResolveContext, Sound, Kept
    <3> QED
      BY <3>3, <3>4 DEF Sound
  <2> QED
    BY <1>3, <2>1, <2>2 DEF ResolveContext
<1>4. CASE UseCurrentContext(r)
  BY <1>0, <1>4
  DEF UseCurrentContext, Stay, vars, files, store, Sound, Shape, Supplied, Routed, Kept
<1>5. CASE InitContext(r)
  <2> PICK ok \in BOOLEAN : CallSetContext(r, Empty, ok)
    BY <1>5 DEF InitContext
  <2>1. want[r] = Empty /\ op[r] \in {"list", "find"}
    BY <1>0, <1>5 DEF InitContext, Sound, Shape
  <2>2. /\ pc'[r] \in {"client", "idle"}
        /\ pc'[r] = "idle" => answer'[r] = Error
        /\ UNCHANGED <<op, want, saved, held>>
    BY <1>5 DEF InitContext
  <2>3. Shape(r)'
    BY <1>0, <2>1, <2>2, CallKeeps DEF Sound, Shape
  <2> QED
    BY <2>1, <2>2, <2>3 DEF Sound, Supplied, Routed, Kept
<1>6. CASE Report(r)
  BY <1>0, <1>6
  DEF Report, Stay, vars, files, store, Sound, Shape, Supplied, Routed, Kept
<1>7. CASE TakeClient(r)
  BY <1>0, <1>7
  DEF TakeClient, Stay, vars, files, store, Sound, Shape, Supplied, Routed, Kept, Target, TypeOK
<1>8. CASE LookupPlural(r)
  BY <1>0, <1>8
  DEF LookupPlural, Stay, vars, files, store, Sound, Shape, Supplied, Routed, Kept, Target, ClientHeld
<1>9. CASE DiscoverContext(r)
  <2> PICK ok \in BOOLEAN : CallSetContext(r, want[r], ok)
    BY <1>9 DEF DiscoverContext
  <2> QED
    BY <1>0, <1>9, CallKeeps
    DEF DiscoverContext, Sound, Shape, Supplied, Routed, Kept, Target, ClientHeld
<1>10. CASE StorePlural(r)
  BY <1>0, <1>10
  DEF StorePlural, vars, files, store, Sound, Shape, Supplied, Routed, Kept, Target
<1>11. CASE Probe(r)
  BY <1>0, <1>11
  DEF Probe, Stay, vars, files, store, Sound, Shape, Supplied, Routed, Kept, Target
<1>12. CASE RestoreContext(r)
  <2> PICK ok \in BOOLEAN : CallSetContext(r, saved[r], ok)
    BY <1>12 DEF RestoreContext
  <2>1. op[r] = "check" /\ saved[r] # Empty /\ Target(saved[r]) = saved[r]
    BY <1>0, <1>12 DEF RestoreContext, Sound, Shape, Target
  <2>2. current' = saved[r] \/ saved[r] \in failed'
    BY <2>1, CallSucceeds, CallFails
  <2> QED
    BY <1>0, <1>12, <2>1, <2>2, CallKeeps
    DEF RestoreContext, Sound, Shape, Supplied, Routed, Kept
<1>13. CASE ReadCRDs(r)
  BY <1>0, <1>13
  DEF ReadCRDs, Stay, vars, files, store, Sound, Shape, Supplied, Routed, Kept, Target
<1>14. CASE ClusterAnswers(r) \/ ClusterFails(r)
  BY <1>0, <1>14, RequestAssumption
  DEF ClusterAnswers, ClusterFails, Stay, vars, files, store, Sound, Shape, Supplied, Routed, Kept, Target
<1> QED
  BY <1>1, <1>2, <1>3, <1>4, <1>5, <1>6, <1>7, <1>8, <1>9, <1>10, <1>11, <1>12, <1>13, <1>14
  DEF Serve
----------------------------------------------------------------------------
(* The calls are calls of KubeContext.                                      *)

\* Outside a cluster nobody ever asks for the context "in-cluster".
NamesKnown ==
    ~inCluster => /\ current # InCluster
                  /\ \A r \in Requests : want[r] # InCluster /\ saved[r] # InCluster

\* A call makes the old or the asked-for target current.
LEMMA CallTarget ==
    ASSUME NEW r \in Requests, NEW name, NEW ok \in BOOLEAN, CallSetContext(r, name, ok)
    PROVE  /\ current' \in {current, Target(name)}
           /\ inCluster' = inCluster
BY DEF CallSetContext, files, SetContext, Reuse, Refuse, FailToLoad, FailToBuild, Build, store

\* A call by a handler is a step of the service: under a service account the
\* name does not matter, and otherwise it is a name.
LEMMA CallSwitches ==
    ASSUME NEW r \in Requests, NEW name \in Targets \cup {Empty}, NEW ok \in BOOLEAN, up,
           ~inCluster => name # InCluster, CallSetContext(r, name, ok)
    PROVE  Next
<1>1. CASE ~inCluster
  <2>1. name \in Names
    BY <1>1 DEF Names, Targets
  <2>2. Switch(name)
    BY DEF Switch, CallSetContext
  <2> QED
    BY <2>1, <2>2 DEF Next
<1>2. CASE inCluster
  <2>1. SetContext(Empty, ok)
    BY <1>2 DEF CallSetContext, SetContext, Reuse, Refuse, FailToLoad, FailToBuild, Build,
                Serving, Attempt, Target
  <2>2. Switch(Empty)
    BY <2>1 DEF Switch, CallSetContext
  <2> QED
    BY <2>2 DEF Next, Names
<1> QED
  BY <1>1, <1>2

LEMMA NamesKnownStep == RTypeOK /\ NamesKnown /\ [RNext]_rvars => NamesKnown'
<1> SUFFICES ASSUME RTypeOK, NamesKnown, [RNext]_rvars PROVE NamesKnown'
  OBVIOUS
<1> USE RequestAssumption, ContextAssumption DEF NamesKnown, RTypeOK, Finish
<1>1. CASE Boot
  BY <1>1 DEF Boot, Start, files, store, local
<1>2. CASE Crash
  BY <1>2 DEF Crash, Restart, files, Targets
<1>3. ASSUME NEW t \in Targets, NEW e \in Entries, Edit(t, e) PROVE NamesKnown'
  BY <1>3 DEF Edit, EditEntry, store, local
<1>4. ASSUME NEW r \in Requests, NEW o \in Ops, NEW name \in Names, Begin(r, o, name)
      PROVE  NamesKnown'
  BY <1>4 DEF Begin, vars, files, store, Names, Targets
<1>5. ASSUME NEW r \in Requests, Serve(r) PROVE NamesKnown'
  <2> USE DEF Stay, vars, files, store
  <2>1. CASE DefaultContext(r)
    BY <2>1 DEF DefaultContext
  <2>2. CASE SaveContext(r)
    BY <2>2 DEF SaveContext
  <2>3. CASE UseCurrentContext(r) \/ Report(r) \/ TakeClient(r)
    BY <2>3 DEF UseCurrentContext, Report, TakeClient
  <2>4. CASE LookupPlural(r) \/ StorePlural(r) \/ Probe(r)
    BY <2>4 DEF LookupPlural, StorePlural, Probe
  <2>5. CASE ResolveContext(r)
    BY <2>5, CallTarget DEF ResolveContext, Target
  <2>6. CASE InitContext(r)
    BY <2>6, CallTarget DEF InitContext, Target, Targets
  <2>7. CASE DiscoverContext(r)
    BY <2>7, CallTarget DEF DiscoverContext, Target
  <2>8. CASE RestoreContext(r)
    BY <2>8, CallTarget DEF RestoreContext, Target
  <2> QED
    BY <1>5, <2>1, <2>2, <2>3, <2>4, <2>5, <2>6, <2>7, <2>8 DEF Serve
<1>6. ASSUME NEW r \in Requests, ReadCRDs(r) \/ ClusterAnswers(r) \/ ClusterFails(r)
      PROVE  NamesKnown'
  BY <1>6 DEF ReadCRDs, ClusterAnswers, ClusterFails, Stay, vars, files, store
<1>7. CASE UNCHANGED rvars
  BY <1>7 DEF rvars, vars, files, store, local
<1> QED
  BY <1>1, <1>2, <1>3, <1>4, <1>5, <1>6, <1>7 DEF RNext

\* Every step here is one step of the service, or none.
LEMMA StoreStep == RTypeOK /\ NamesKnown /\ [RNext]_rvars => [Next]_vars
<1> SUFFICES ASSUME RTypeOK, NamesKnown, [RNext]_rvars PROVE [Next]_vars
  OBVIOUS
<1> USE DEF RTypeOK, NamesKnown
<1>1. CASE Boot
  BY <1>1 DEF Boot, Next
<1>2. CASE Crash
  BY <1>2 DEF Crash, Next
<1>3. ASSUME NEW t \in Targets, NEW e \in Entries, Edit(t, e) PROVE [Next]_vars
  BY <1>3 DEF Edit, Next
<1>4. ASSUME NEW r \in Requests, NEW o \in Ops, NEW name \in Names, Begin(r, o, name)
      PROVE  [Next]_vars
  BY <1>4 DEF Begin
<1>5. ASSUME NEW r \in Requests, Serve(r) PROVE [Next]_vars
  <2>1. up
    BY <1>5 DEF Serve, At, DefaultContext, SaveContext, ResolveContext, UseCurrentContext,
       InitContext, Report, TakeClient, LookupPlural, DiscoverContext, StorePlural, Probe,
       RestoreContext
  <2>2. CASE ResolveContext(r)
    BY <2>1, <2>2, CallSwitches DEF ResolveContext, Names, Targets
  <2>3. CASE InitContext(r)
    BY <2>1, <2>3, CallSwitches, ContextAssumption DEF InitContext, Targets
  <2>4. CASE DiscoverContext(r)
    <3> PICK ok \in BOOLEAN : CallSetContext(r, want[r], ok)
      BY <2>4 DEF DiscoverContext
    <3>1. want[r] \in Targets \cup {Empty}
      BY DEF Names, Targets
    <3> QED
      BY <2>1, <3>1, CallSwitches
  <2>5. CASE RestoreContext(r)
    <3> PICK ok \in BOOLEAN : CallSetContext(r, saved[r], ok)
      BY <2>5 DEF RestoreContext
    <3>1. saved[r] \in Targets \cup {Empty}
      OBVIOUS
    <3> QED
      BY <2>1, <3>1, CallSwitches
  <2>6. CASE DefaultContext(r) \/ SaveContext(r) \/ UseCurrentContext(r) \/ Report(r)
    BY <2>6 DEF DefaultContext, SaveContext, UseCurrentContext, Report, Stay
  <2>7. CASE TakeClient(r) \/ LookupPlural(r) \/ StorePlural(r) \/ Probe(r)
    BY <2>7 DEF TakeClient, LookupPlural, StorePlural, Probe, Stay
  <2> QED
    BY <1>5, <2>2, <2>3, <2>4, <2>5, <2>6, <2>7 DEF Serve
<1>6. ASSUME NEW r \in Requests, ReadCRDs(r) \/ ClusterAnswers(r) \/ ClusterFails(r)
      PROVE  [Next]_vars
  BY <1>6 DEF ReadCRDs, ClusterAnswers, ClusterFails, Stay
<1>7. CASE UNCHANGED rvars
  BY <1>7 DEF rvars
<1> QED
  BY <1>1, <1>2, <1>3, <1>4, <1>5, <1>6, <1>7 DEF RNext

\* The names asked for are known in every state that can be reached.
LEMMA NamesCorrect == RSpec => []NamesKnown
<1>1. RInit => NamesKnown
  BY ContextAssumption DEF RInit, Init, NamesKnown, Targets
<1> QED
  BY <1>1, NamesKnownStep, RTypeCorrect, PTL DEF RSpec

\* The handlers' use of the shared client, as a behaviour of KubeContext.
LEMMA ServiceCorrect == RSpec => Spec
<1>1. RInit => Init
  BY DEF RInit
<1> QED
  BY <1>1, StoreStep, NamesCorrect, RTypeCorrect, PTL DEF RSpec, Spec

\* The handlers use the shared client in no other way than through SetContext
\* and the getters: what they do to it is a behaviour of KubeContext.
THEOREM Implements == RSpec => StoreSpec
<1>1. Init => Store!Init
  BY DEF Init, Store!Init, Store!Targets, Targets, Store!Entries, Entries
<1>2. [Next]_vars => [Store!Next]_(Store!vars)
  BY DEF Next, Store!Next, vars, Store!vars, files, Store!files, store, Store!store,
     Start, Store!Start, Switch, Store!Switch, EditEntry, Store!EditEntry, Restart, Store!Restart,
     SetContext, Store!SetContext, Reuse, Store!Reuse, Refuse, Store!Refuse,
     FailToLoad, Store!FailToLoad, FailToBuild, Store!FailToBuild, Build, Store!Build,
     Serving, Store!Serving, Attempt, Store!Attempt, Target, Store!Target,
     Names, Store!Names, Targets, Store!Targets, Entries, Store!Entries
<1> QED
  BY <1>1, <1>2, ServiceCorrect, PTL DEF Spec, StoreSpec, Store!Spec

\* Whatever requests come, a failed context is not tried again before a restart.
THEOREM RequestsNeverRebuild == RSpec => FailedNeverRebuilt
BY ServiceCorrect, NeverRebuilt

----------------------------------------------------------------------------
(* The invariant of all requests, and what follows from it.                 *)

LEMMA NamedStep == ClientNamed /\ [Next]_vars => ClientNamed'
<1> SUFFICES ASSUME ClientNamed, [Next]_vars PROVE ClientNamed'
  OBVIOUS
<1>1. CASE Start
  BY <1>1, SetContextNamed DEF Start, files, store, ClientNamed
<1>2. ASSUME NEW name \in Names, Switch(name) PROVE ClientNamed'
  BY <1>2, SetContextNamed DEF Switch, files
<1>3. ASSUME NEW t \in Targets, NEW e \in Entries, EditEntry(t, e) PROVE ClientNamed'
  BY <1>3 DEF EditEntry, store, ClientNamed
<1>4. CASE Restart
  BY <1>4 DEF Restart, files, ClientNamed
<1>5. CASE UNCHANGED vars
  BY <1>5 DEF vars, files, store, ClientNamed
<1> QED
  BY <1>1, <1>2, <1>3, <1>4, <1>5 DEF Next

LEMMA QuietStep == RTypeOK /\ Quiet /\ [RNext]_rvars => Quiet'
<1> SUFFICES ASSUME RTypeOK, Quiet, [RNext]_rvars PROVE Quiet'
  OBVIOUS
<1> USE DEF Quiet
<1>1. CASE Boot
  BY <1>1 DEF Boot, Start
<1>2. CASE Crash
  BY <1>2 DEF Crash, Restart
<1>3. ASSUME NEW t \in Targets, NEW e \in Entries, Edit(t, e) PROVE Quiet'
  BY <1>3 DEF Edit, EditEntry, store, local
<1>4. ASSUME NEW r \in Requests, NEW o \in Ops, NEW name \in Names, Begin(r, o, name)
      PROVE  Quiet'
  BY <1>4 DEF Begin, At, vars
<1>5. ASSUME NEW r \in Requests, Serve(r) PROVE up'
  <2> USE DEF At, Stay, vars, CallSetContext
  <2>1. CASE DefaultContext(r) \/ SaveContext(r) \/ ResolveContext(r) \/ UseCurrentContext(r)
    BY <2>1 DEF DefaultContext, SaveContext, ResolveContext, UseCurrentContext
  <2>2. CASE InitContext(r) \/ Report(r) \/ TakeClient(r) \/ LookupPlural(r)
    BY <2>2 DEF InitContext, Report, TakeClient, LookupPlural
  <2>3. CASE DiscoverContext(r) \/ StorePlural(r) \/ Probe(r) \/ RestoreContext(r)
    BY <2>3 DEF DiscoverContext, StorePlural, Probe, RestoreContext
  <2> QED
    BY <1>5, <2>1, <2>2, <2>3 DEF Serve
<1>6. ASSUME NEW r \in Requests, ReadCRDs(r) \/ ClusterAnswers(r) \/ ClusterFails(r)
      PROVE  up'
  BY <1>6 DEF ReadCRDs, ClusterAnswers, ClusterFails, At, Stay, vars
<1>7. CASE UNCHANGED rvars
  BY <1>7 DEF rvars, vars, store, local
<1> QED
  BY <1>1, <1>2, <1>3, <1>4, <1>5, <1>6, <1>7 DEF RNext

\* Every step keeps the invariant of every request.
LEMMA SoundStep ==
    ASSUME RInv, [RNext]_rvars, NEW r \in Requests
    PROVE  Sound(r)'
<1> USE DEF RInv
<1>1. CASE Boot
  <2>1. Untouched(r) /\ pc[r] = "idle" /\ answer[r] = None /\ inCluster' = inCluster
    BY <1>1 DEF Boot, Start, Quiet, Untouched, local, files
  <2>2. None \notin Clients
    BY ContextAssumption DEF Clients
  <2> QED
    BY <2>1, <2>2 DEF Untouched, Sound, Shape, Supplied, Routed, Kept
<1>2. CASE Crash
  <2>1. None \notin Clients
    BY ContextAssumption DEF Clients
  <2> QED
    BY <1>2, <2>1 DEF Crash, Sound, Shape, Supplied, Routed, Kept
<1>3. ASSUME NEW t \in Targets, NEW e \in Entries, Edit(t, e) PROVE Sound(r)'
  <2>1. Untouched(r) /\ Spared(r)
    BY <1>3 DEF Edit, EditEntry, store, local, Untouched, Spared
  <2> QED
    BY <2>1, BystanderSound
<1>4. ASSUME NEW q \in Requests, NEW o \in Ops, NEW name \in Names, Begin(q, o, name)
      PROVE  Sound(r)'
  <2>1. CASE q = r
    BY <1>4, <2>1, ContextAssumption
    DEF Begin, Goto, RTypeOK, Clients, vars, files, store, Ops, Sound, Shape, Supplied, Routed, Kept
  <2>2. CASE q # r
    <3>1. Untouched(r) /\ Spared(r)
      BY <1>4, <2>2 DEF Begin, Goto, RTypeOK, vars, files, store, Untouched, Spared
    <3> QED
      BY <3>1, BystanderSound
  <2> QED
    BY <2>1, <2>2
<1>5. ASSUME NEW q \in Requests,
             Serve(q) \/ ReadCRDs(q) \/ ClusterAnswers(q) \/ ClusterFails(q)
      PROVE  Sound(r)'
  BY <1>5, OwnSound, OthersSound
<1>6. CASE UNCHANGED rvars
  <2>1. Untouched(r) /\ Spared(r)
    BY <1>6 DEF rvars, vars, files, store, local, Untouched, Spared
  <2> QED
    BY <2>1, BystanderSound
<1> QED
  BY <1>1, <1>2, <1>3, <1>4, <1>5, <1>6 DEF RNext

LEMMA RInvCorrect == RSpec => []RInv
<1>1. RInit => RInv
  <2> SUFFICES ASSUME RInit PROVE RInv
    OBVIOUS
  <2>1. None \notin Clients
    BY ContextAssumption DEF Clients
  <2>2. CurrentClientOrFailed /\ ClientNamed /\ Quiet
    BY DEF RInit, Init, CurrentClientOrFailed, ClientNamed, Quiet
  <2>3. \A r \in Requests : Sound(r)
    BY <2>1 DEF RInit, Init, Sound, Shape, Supplied, Routed, Kept
  <2> QED
    BY <2>2, <2>3, RInitType DEF RInv
<1>2. RInv /\ NamesKnown /\ [RNext]_rvars => RInv'
  <2> SUFFICES ASSUME RInv, NamesKnown, [RNext]_rvars PROVE RInv'
    OBVIOUS
  <2>1. RTypeOK /\ TypeOK
    BY DEF RInv, RTypeOK
  <2>2. [Next]_vars
    BY <2>1, StoreStep
  <2>3. RTypeOK' /\ ClientHeld' /\ Quiet'
    BY <2>1, RTypeStep, ClientHeldStep, QuietStep DEF RInv
  <2>4. CurrentClientOrFailed' /\ ClientNamed'
    BY <2>1, <2>2, AgreementStep, NamedStep DEF RInv
  <2>5. \A r \in Requests : Sound(r)'
    BY SoundStep
  <2> QED
    BY <2>3, <2>4, <2>5 DEF RInv
<1> QED
  BY <1>1, <1>2, NamesCorrect, PTL DEF RSpec

\* A read is answered by another context's cluster only if another request moved
\* the shared client meanwhile, or the requested context had failed before.
THEOREM Misroutes == RSpec => []MisrouteExplained
<1>1. RInv => MisrouteExplained
  BY DEF RInv, Sound, Routed, MisrouteExplained, Served
<1> QED
  BY <1>1, RInvCorrect, PTL

\* A check that no other request ran into puts the context back.
THEOREM ChecksKeepContext == RSpec => []CheckKeepsContext
<1>1. RInv => CheckKeepsContext
  BY DEF RInv, Sound, Kept, CheckKeepsContext
<1> QED
  BY <1>1, RInvCorrect, PTL

\* Once its context is set, a request finds a client.
THEOREM ClientsAtHand == RSpec => []ClientAfterSetContext
<1>1. RInv => ClientAfterSetContext
  BY DEF RInv, Sound, Supplied, ClientAfterSetContext
<1> QED
  BY <1>1, RInvCorrect, PTL

\* The current context has its own client or is on the failed list, whatever the
\* handlers do and however their steps interleave.
THEOREM RequestsAgree == RSpec => []CurrentClientOrFailed
<1>1. RInv => CurrentClientOrFailed
  BY DEF RInv
<1> QED
  BY <1>1, RInvCorrect, PTL
----------------------------------------------------------------------------
(* The plural cache.                                                        *)

\* What is cached, or about to be, is defined by the CRDs of some cluster.
PluralsDefined ==
    /\ OnlyDefinedPluralsCached
    /\ \A r \in Requests : pc[r] = "store" => \E k \in Clusters : PluralIn[k] = plural[r]

LEMMA PluralsStep ==
    RTypeOK /\ ClientHeld /\ PluralsDefined /\ [RNext]_rvars => PluralsDefined'
<1> SUFFICES ASSUME RTypeOK, ClientHeld, PluralsDefined, [RNext]_rvars PROVE PluralsDefined'
  OBVIOUS
<1> USE DEF PluralsDefined, OnlyDefinedPluralsCached, RTypeOK, Goto, Finish
<1>1. CASE Boot
  BY <1>1 DEF Boot, local
<1>2. CASE Crash
  BY <1>2 DEF Crash
<1>3. ASSUME NEW t \in Targets, NEW e \in Entries, Edit(t, e) PROVE PluralsDefined'
  BY <1>3 DEF Edit, local
<1>4. ASSUME NEW r \in Requests, NEW o \in Ops, NEW name \in Names, Begin(r, o, name)
      PROVE  PluralsDefined'
  BY <1>4 DEF Begin
<1>5. ASSUME NEW r \in Requests, Serve(r) PROVE PluralsDefined'
  <2> USE DEF Stay, CallSetContext
  <2>1. CASE DefaultContext(r) \/ SaveContext(r) \/ UseCurrentContext(r) \/ Report(r)
    BY <2>1 DEF DefaultContext, SaveContext, UseCurrentContext, Report
  <2>2. CASE ResolveContext(r) \/ InitContext(r) \/ RestoreContext(r)
    BY <2>2 DEF ResolveContext, InitContext, RestoreContext
  <2>3. CASE TakeClient(r) \/ LookupPlural(r) \/ Probe(r)
    BY <2>3 DEF TakeClient, LookupPlural, Probe
  <2>4. CASE DiscoverContext(r)
    BY <2>4 DEF DiscoverContext
  <2>5. CASE StorePlural(r)
    BY <2>5 DEF StorePlural, At
  <2> QED
    BY <1>5, <2>1, <2>2, <2>3, <2>4, <2>5 DEF Serve
<1>6. ASSUME NEW r \in Requests, ReadCRDs(r) PROVE PluralsDefined'
  <2>1. config \in Clients
    BY <1>6 DEF ReadCRDs, At, ClientHeld, TypeOK
  <2>2. config.cluster \in Clusters
    BY <2>1 DEF Clients
  <2> QED
    BY <1>6, <2>2 DEF ReadCRDs, Stay
<1>7. ASSUME NEW r \in Requests, ClusterAnswers(r) \/ ClusterFails(r) PROVE PluralsDefined'
  BY <1>7 DEF ClusterAnswers, ClusterFails, Stay
<1>8. CASE UNCHANGED rvars
  BY <1>8 DEF rvars, local
<1> QED
  BY <1>1, <1>2, <1>3, <1>4, <1>5, <1>6, <1>7, <1>8 DEF RNext

\* A guessed plural is never cached: what later requests are given in place of
\* the kind is defined by the CRDs of some cluster.
THEOREM PluralsCorrect == RSpec => []OnlyDefinedPluralsCached
<1>1. RInit => PluralsDefined
  BY DEF RInit, PluralsDefined, OnlyDefinedPluralsCached
<1>2. RInv => RTypeOK /\ ClientHeld
  BY DEF RInv
<1>3. PluralsDefined => OnlyDefinedPluralsCached
  BY DEF PluralsDefined
<1> QED
  BY <1>1, <1>2, <1>3, PluralsStep, RInvCorrect, PTL DEF RSpec
============================================================================
