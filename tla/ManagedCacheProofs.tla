-------------------------- MODULE ManagedCacheProofs --------------------------
(* The list of managed resources and its cache, for any number of requests,
   contexts, provider kinds and changes of the clusters.                     *)
EXTENDS ManagedCache, TLAPS

\* SetContext keeps every field of the service within its type.
LEMMA SetContextType ==
    ASSUME TypeOK, NEW name, NEW ok \in BOOLEAN, SetContext(name, ok)
    PROVE  /\ current' \in Targets \cup {Empty}
           /\ config' \in Clients \cup {None}
           /\ clientset' \in Clients \cup {None}
           /\ failed' \subseteq Targets
<1> USE DEF TypeOK, store
<1>1. CASE Reuse(name, ok)
  BY <1>1 DEF Reuse
<1>2. CASE Refuse(name, ok)
  BY <1>2 DEF Refuse
<1>3. CASE FailToLoad(name, ok)
  BY <1>3 DEF FailToLoad, Attempt
<1>4. CASE FailToBuild(name, ok)
  BY <1>4 DEF FailToBuild, Attempt
<1>5. CASE Build(name, ok)
  <2>1. Target(name) \in Targets
    BY <1>5 DEF Build, Attempt
  <2>2. config' \in Clients
    BY <1>5, <2>1 DEF Build, Clients
  <2> QED
    BY <1>5, <2>1, <2>2 DEF Build
<1> QED
  BY <1>1, <1>2, <1>3, <1>4, <1>5 DEF SetContext

\* The five ways out of SetContext keep the current context and the client
\* together, or leave the failure that separated them on record.
LEMMA SetContextAgreement ==
    ASSUME TypeOK, CurrentClientOrFailed,
           NEW name, NEW ok \in BOOLEAN, SetContext(name, ok)
    PROVE  CurrentClientOrFailed'
<1> USE DEF CurrentClientOrFailed, store
<1>1. CASE Reuse(name, ok)
  BY <1>1 DEF Reuse
<1>2. CASE Refuse(name, ok)
  BY <1>2 DEF Refuse
<1>3. CASE FailToLoad(name, ok)
  BY <1>3 DEF FailToLoad
<1>4. CASE FailToBuild(name, ok)
  BY <1>4 DEF FailToBuild
<1>5. CASE Build(name, ok)
  <2>1. config' \in Clients /\ config'.target = Target(name)
    BY <1>5 DEF Build, Attempt, Clients
  <2>2. config' # None
    BY <2>1, ContextAssumption DEF Clients
  <2> QED
    BY <1>5, <2>1, <2>2 DEF Build
<1> QED
  BY <1>1, <1>2, <1>3, <1>4, <1>5 DEF SetContext

\* Contexts and clients belong together, and in a pod there is but one context.
Sound ==
    /\ CurrentClientOrFailed
    /\ config # None => current # Empty
    /\ inCluster => current \in {Empty, InCluster}

\* What SetContext does to a service whose state is as it should be: it points to
\* the context, or leaves what it pointed to alone, and never forgets.
LEMMA Called ==
    ASSUME TypeOK, Sound, NEW name, NEW ok \in BOOLEAN, SetContext(name, ok), inCluster' = inCluster
    PROVE  /\ current' \in Targets \cup {Empty} /\ config' \in Clients \cup {None}
           /\ clientset' \in Clients \cup {None} /\ failed' \subseteq Targets
           /\ Sound'
           /\ failed \subseteq failed'
           /\ current' = current \/ (current' = Target(name) /\ current' # Empty)
           /\ config # None => config' # None
           /\ ok => current' = Target(name) /\ config' # None /\ current' # Empty
<1>1. /\ current' \in Targets \cup {Empty} /\ config' \in Clients \cup {None}
      /\ clientset' \in Clients \cup {None} /\ failed' \subseteq Targets
  BY SetContextType
<1>2. CurrentClientOrFailed'
  BY SetContextAgreement DEF Sound
<1>3. CASE Reuse(name, ok)
  BY <1>1, <1>2, <1>3 DEF Reuse, Serving, store, Sound
<1>4. CASE Refuse(name, ok) \/ FailToLoad(name, ok)
  BY <1>1, <1>2, <1>4 DEF Refuse, FailToLoad, store, Sound
<1>5. CASE FailToBuild(name, ok)
  BY <1>1, <1>2, <1>5, ContextAssumption DEF FailToBuild, Attempt, Sound, Target
<1>6. CASE Build(name, ok)
  <2>1. config' \in Clients
    BY <1>6 DEF Build, Attempt, Clients
  <2> QED
    BY <1>1, <1>2, <1>6, <2>1, ContextAssumption DEF Build, Attempt, Clients, Sound, Target
<1> QED
  BY <1>3, <1>4, <1>5, <1>6 DEF SetContext

----------------------------------------------------------------------------
(* Types.                                                                   *)

Stages == {"idle", "resolve", "init", "name", "cache", "client", "owners", "kinds"}

\* What one request keeps of its own.
LocalTypes ==
    /\ pc \in [Requests -> Stages]
    /\ want \in [Requests -> Names \cup {InCluster}]
    /\ force \in [Requests -> BOOLEAN]
    /\ part \in [Requests -> [Parts -> ListStates]]
    /\ from \in [Requests -> SUBSET Targets]
    /\ seen \in [Requests -> 0..MaxWorld]

\* What all requests share.
SharedTypes ==
    /\ TypeOK
    /\ cache \in [Targets -> CacheEntries \cup {None}]
    /\ world \in 0..MaxWorld
    /\ disturbed \subseteq Requests
    /\ overtaken \subseteq Requests

\* What a request knows at each of its stages: the context it lists, the client
\* there is once a list has set it, and the lists that are behind it.
Reached(r) ==
    /\ pc[r] # "idle" => up
    /\ pc[r] = "resolve" => want[r] \in Names
    /\ pc[r] = "name" => current # Empty
    /\ pc[r] \in {"cache", "client", "owners", "kinds"} => want[r] \in Targets
    /\ pc[r] \notin {"owners", "kinds"} => part[r] = Unlisted /\ seen[r] = MaxWorld
    /\ pc[r] = "kinds" => \A p \in Owners : part[r][p] = "done"
    /\ \A p \in Parts : part[r][p] = "pointed" => config # None

AllReached == Sound /\ \A r \in Requests : Reached(r)

MInv == MTypeOK /\ AllReached

\* The other requests keep what they have.
Others(r) ==
    \A q \in Requests \ {r} :
        /\ pc'[q] = pc[q] /\ want'[q] = want[q] /\ force'[q] = force[q]
        /\ part'[q] = part[q] /\ from'[q] = from[q] /\ seen'[q] = seen[q]

\* A request that has its answer forgets everything.
LEMMA Returned ==
    ASSUME LocalTypes, NEW r \in Requests, Return(r)
    PROVE  /\ LocalTypes' /\ Others(r)
           /\ pc'[r] = "idle" /\ want'[r] = Empty /\ part'[r] = Unlisted
           /\ from'[r] = {} /\ seen'[r] = MaxWorld
<1>1. Unlisted \in [Parts -> ListStates] /\ MaxWorld \in 0..MaxWorld
  BY ManagedAssumption DEF Unlisted, ListStates
<1>2. /\ pc' \in [Requests -> Stages] /\ want' \in [Requests -> Names \cup {InCluster}]
      /\ force' \in [Requests -> BOOLEAN] /\ part' \in [Requests -> [Parts -> ListStates]]
      /\ from' \in [Requests -> SUBSET Targets] /\ seen' \in [Requests -> 0..MaxWorld]
  BY <1>1 DEF LocalTypes, Return, Goto, Stages, Names
<1>3. Others(r)
  BY DEF LocalTypes, Return, Goto, Others
<1>4. /\ pc'[r] = "idle" /\ want'[r] = Empty /\ part'[r] = Unlisted
      /\ from'[r] = {} /\ seen'[r] = MaxWorld
  BY DEF LocalTypes, Return, Goto
<1> QED
  BY <1>2, <1>3, <1>4 DEF LocalTypes

\* A call of SetContext by r, and what it tells the others.
LEMMA CallsSetContext ==
    ASSUME SharedTypes, Sound, NEW r \in Requests, NEW name, NEW ok \in BOOLEAN,
           CallSetContext(r, name, ok)
    PROVE  /\ SharedTypes' /\ Sound' /\ up' = up /\ inCluster' = inCluster
           /\ failed \subseteq failed' /\ (config # None => config' # None)
           /\ current' = current \/ (current' = Target(name) /\ current' # Empty)
           /\ current # Empty => current' # Empty
           /\ ok => current' = Target(name) /\ config' # None /\ current' # Empty
           /\ UNCHANGED <<cache, world, overtaken>> /\ disturbed \subseteq disturbed'
           /\ \A q \in Requests \ {r} :
                 pc[q] \notin {"idle", "resolve"} /\ q \notin disturbed' =>
                    q \notin disturbed /\ current' = current
<1>1. /\ SetContext(name, ok) /\ inCluster' = inCluster
      /\ UNCHANGED <<files, up, cache, world, overtaken>>
  BY DEF CallSetContext, files
<1>2. /\ disturbed' \subseteq Requests /\ disturbed \subseteq disturbed'
      /\ \A q \in Requests \ {r} :
            pc[q] \notin {"idle", "resolve"} /\ q \notin disturbed' =>
               q \notin disturbed /\ current' = current
  BY DEF CallSetContext, SharedTypes
<1>3. /\ current' \in Targets \cup {Empty} /\ config' \in Clients \cup {None}
      /\ clientset' \in Clients \cup {None} /\ failed' \subseteq Targets
      /\ Sound' /\ failed \subseteq failed' /\ (config # None => config' # None)
      /\ current' = current \/ (current' = Target(name) /\ current' # Empty)
      /\ ok => current' = Target(name) /\ config' # None /\ current' # Empty
  BY <1>1, Called DEF SharedTypes
<1>4. SharedTypes'
  BY <1>1, <1>2, <1>3 DEF SharedTypes, TypeOK, files
<1> QED
  BY <1>1, <1>2, <1>3, <1>4

\* Everything r does between two calls of SetContext.
Quiet(r) ==
    \/ \E name \in Names, refresh \in BOOLEAN : Begin(r, name, refresh)
    \/ ResolveEmpty(r) \/ NameContext(r) \/ AnswerFromCache(r) \/ Miss(r) \/ TakeClient(r)
    \/ FailOwners(r) \/ ListCRDs(r) \/ Store(r)
    \/ \E p \in Parts : ReadList(r, p)

\* The calls of SetContext themselves.
Calling(r) ==
    \/ Resolve(r) \/ InitContext(r)
    \/ \E p \in Parts : PointList(r, p) \/ DiscoverPlural(r, p)

Environment ==
    \/ Boot \/ WorldChanges
    \/ \E t \in Targets, e \in Entries : Edit(t, e)
    \/ \E t \in Targets : Expire(t)

LEMMA MovesOfAll == MNext <=> Environment \/ \E r \in Requests : Quiet(r) \/ Calling(r)
BY DEF MNext, Environment, Quiet, Calling

LEMMA TypesApart == MTypeOK <=> LocalTypes /\ SharedTypes
BY DEF MTypeOK, LocalTypes, SharedTypes, Stages

\* A step of r leaves the others where they were.
LEMMA Together ==
    ASSUME MInv, NEW r \in Requests, Others(r), LocalTypes', SharedTypes', Sound', Reached(r)',
           up => up', current # Empty => current' # Empty, config # None => config' # None
    PROVE  MInv'
<1>1. ASSUME NEW q \in Requests \ {r} PROVE Reached(q)'
  <2>1. /\ Reached(q) /\ pc'[q] = pc[q] /\ want'[q] = want[q]
        /\ part'[q] = part[q] /\ seen'[q] = seen[q]
    BY DEF MInv, AllReached, Others
  <2> QED
    BY <2>1 DEF Reached
<1>2. MTypeOK'
  BY DEF MTypeOK, LocalTypes, SharedTypes, Stages
<1> QED
  BY <1>1, <1>2 DEF MInv, AllReached

LEMMA Listed ==
    ASSUME LocalTypes, NEW r \in Requests, NEW p \in Parts, NEW how \in ListStates, Reach(r, p, how)
    PROVE  /\ part' \in [Requests -> [Parts -> ListStates]]
           /\ part'[r][p] = how /\ \A o \in Parts \ {p} : part'[r][o] = part[r][o]
           /\ \A q \in Requests \ {r} : part'[q] = part[q]
<1>1. part' = [part EXCEPT ![r] = [part[r] EXCEPT ![p] = how]]
  BY DEF Reach
<1>2. [part[r] EXCEPT ![p] = how] \in [Parts -> ListStates]
  BY DEF LocalTypes
<1> QED
  BY <1>1, <1>2 DEF LocalTypes

\* A step between two calls: the service stays as it is, and so do the types.
LEMMA QuietStep ==
    ASSUME MInv, NEW r \in Requests, Quiet(r)
    PROVE  /\ LocalTypes' /\ SharedTypes' /\ Sound' /\ Others(r) /\ Reached(r)'
           /\ UNCHANGED <<vars, world>>
<1>0. LocalTypes /\ SharedTypes /\ Reached(r) /\ Sound
  BY TypesApart DEF MInv, AllReached
<1>1. UNCHANGED vars => TypeOK' /\ Sound' /\ up' = up /\ current' = current /\ config' = config
  BY <1>0 DEF vars, files, store, SharedTypes, TypeOK, Sound, CurrentClientOrFailed
<1>2. ASSUME Return(r), UNCHANGED <<vars, world>>, SharedTypes'
      PROVE  /\ LocalTypes' /\ SharedTypes' /\ Sound' /\ Others(r) /\ Reached(r)'
             /\ UNCHANGED <<vars, world>>
  <2>1. /\ LocalTypes' /\ Others(r)
        /\ pc'[r] = "idle" /\ part'[r] = Unlisted /\ seen'[r] = MaxWorld
    BY <1>0, <1>2, Returned
  <2>2. Reached(r)'
    BY <2>1 DEF Reached, Unlisted
  <2> QED
    BY <1>1, <1>2, <2>1, <2>2
<1>3. ASSUME NEW name \in Names, NEW refresh \in BOOLEAN, Begin(r, name, refresh)
      PROVE  /\ LocalTypes' /\ SharedTypes' /\ Others(r) /\ Reached(r)'
             /\ UNCHANGED <<vars, world>>
  <2>1. /\ UNCHANGED <<vars, part, from, seen, cache, world>> /\ pc[r] = "idle" /\ up
        /\ disturbed' = disturbed \ {r} /\ overtaken' = overtaken \ {r}
    BY <1>3 DEF Begin, At
  <2>2. /\ LocalTypes' /\ Others(r) /\ pc'[r] = "resolve" /\ want'[r] = name
    BY <1>0, <1>3, <2>1 DEF Begin, Goto, LocalTypes, Stages, Others
  <2>3. SharedTypes'
    BY <1>0, <1>1, <2>1 DEF SharedTypes
  <2>4. Reached(r)'
    BY <1>0, <1>1, <2>1, <2>2 DEF Reached
  <2> QED
    BY <2>1, <2>2, <2>3, <2>4
<1>4. ASSUME ResolveEmpty(r) \/ NameContext(r) \/ Miss(r)
      PROVE  /\ LocalTypes' /\ SharedTypes' /\ Others(r) /\ Reached(r)'
             /\ UNCHANGED <<vars, world>>
  <2>1. UNCHANGED <<vars, part, from, seen, cache, world, disturbed, overtaken>> /\ up
    BY <1>4 DEF ResolveEmpty, NameContext, Miss, At
  <2>2. /\ LocalTypes' /\ Others(r)
        /\ \/ /\ pc[r] = "resolve" /\ want'[r] = want[r]
              /\ pc'[r] = IF current = Empty THEN "init" ELSE "name"
           \/ pc[r] = "name" /\ pc'[r] = "cache" /\ want'[r] = current
           \/ pc[r] = "cache" /\ pc'[r] = "client" /\ want'[r] = want[r]
    <3>1. CASE ResolveEmpty(r)
      BY <1>0, <2>1, <3>1 DEF ResolveEmpty, At, Goto, LocalTypes, Stages, Others
    <3>2. CASE NameContext(r)
      <4>1. current \in Names \cup {InCluster}
        BY <1>0 DEF SharedTypes, TypeOK, Targets, Names
      <4> QED
        BY <1>0, <2>1, <3>2, <4>1 DEF NameContext, At, Goto, LocalTypes, Stages, Others
    <3>3. CASE Miss(r)
      BY <1>0, <2>1, <3>3 DEF Miss, At, Goto, LocalTypes, Stages, Others
    <3> QED
      BY <1>4, <3>1, <3>2, <3>3
  <2>3. SharedTypes'
    BY <1>0, <1>1, <2>1 DEF SharedTypes
  <2>4. Reached(r)'
    BY <1>0, <1>1, <2>1, <2>2 DEF Reached, SharedTypes, TypeOK
  <2> QED
    BY <2>1, <2>2, <2>3, <2>4
<1>5. ASSUME AnswerFromCache(r) \/ FailOwners(r)
      PROVE  Return(r) /\ UNCHANGED <<vars, world>> /\ SharedTypes'
  <2>1. Return(r) /\ UNCHANGED <<vars, cache, world, disturbed, overtaken>>
    BY <1>5 DEF AnswerFromCache, FailOwners
  <2> QED
    BY <1>0, <1>1, <2>1 DEF SharedTypes
<1>6. ASSUME TakeClient(r), ~Return(r)
      PROVE  /\ LocalTypes' /\ SharedTypes' /\ Others(r) /\ Reached(r)'
             /\ UNCHANGED <<vars, world>>
  <2>1. /\ config # None /\ pc[r] = "client" /\ up /\ Goto(r, "owners")
        /\ from' = [from EXCEPT ![r] = {config.target}] /\ UNCHANGED <<want, force, part, seen>>
        /\ UNCHANGED <<vars, cache, world, disturbed, overtaken>>
    BY <1>6 DEF TakeClient, At
  <2>2. config.target \in Targets
    BY <1>0, <2>1 DEF SharedTypes, TypeOK, Clients
  <2>3. LocalTypes' /\ Others(r) /\ pc'[r] = "owners"
    BY <1>0, <2>1, <2>2 DEF Goto, LocalTypes, Stages, Others
  <2>4. SharedTypes'
    BY <1>0, <1>1, <2>1 DEF SharedTypes
  <2>5. Reached(r)'
    BY <1>0, <1>1, <2>1, <2>3 DEF Reached
  <2> QED
    BY <2>1, <2>3, <2>4, <2>5
<1>7. ASSUME TakeClient(r) \/ ListCRDs(r), Return(r) PROVE UNCHANGED <<vars, world>> /\ SharedTypes'
  <2>1. UNCHANGED <<vars, cache, world, disturbed, overtaken>>
    BY <1>7 DEF TakeClient, ListCRDs
  <2> QED
    BY <1>0, <1>1, <2>1 DEF SharedTypes
<1>8. ASSUME ListCRDs(r), ~Return(r)
      PROVE  /\ LocalTypes' /\ SharedTypes' /\ Others(r) /\ Reached(r)'
             /\ UNCHANGED <<vars, world>>
  <2>1. /\ pc[r] = "owners" /\ up /\ Goto(r, "kinds") /\ UNCHANGED <<want, force, part, from, seen>>
        /\ \A p \in Owners : part[r][p] = "done"
        /\ UNCHANGED <<vars, cache, world, disturbed, overtaken>>
    BY <1>8 DEF ListCRDs, At
  <2>3. LocalTypes' /\ Others(r) /\ pc'[r] = "kinds"
    BY <1>0, <2>1 DEF Goto, LocalTypes, Stages, Others
  <2>4. SharedTypes'
    BY <1>0, <1>1, <2>1 DEF SharedTypes
  <2>5. Reached(r)'
    BY <1>0, <1>1, <2>1, <2>3 DEF Reached
  <2> QED
    BY <2>1, <2>3, <2>4, <2>5
<1>9. ASSUME Store(r) PROVE Return(r) /\ UNCHANGED <<vars, world>> /\ SharedTypes'
  <2>1. /\ Return(r) /\ UNCHANGED <<vars, world, disturbed>> /\ pc[r] = "kinds"
        /\ cache' = [cache EXCEPT ![want[r]] =
                       [from |-> from[r], seen |-> seen[r], fresh |-> TRUE]]
        /\ overtaken' \subseteq overtaken \cup Requests
    BY <1>9 DEF Store, At
  <2>2. [from |-> from[r], seen |-> seen[r], fresh |-> TRUE] \in CacheEntries
    BY <1>0 DEF LocalTypes, CacheEntries
  <2>3. cache' \in [Targets -> CacheEntries \cup {None}]
    BY <1>0, <2>1, <2>2 DEF SharedTypes
  <2> QED
    BY <1>0, <1>1, <2>1, <2>3 DEF SharedTypes
<1>10. ASSUME NEW p \in Parts, ReadList(r, p)
       PROVE  /\ LocalTypes' /\ SharedTypes' /\ Others(r) /\ Reached(r)'
              /\ UNCHANGED <<vars, world>>
  <2>1. /\ UNCHANGED <<vars, pc, want, force, cache, world, disturbed, overtaken>>
        /\ up /\ part[r][p] = "pointed"
    BY <1>10 DEF ReadList
  <2>2. PICK how \in ListStates : how # "pointed" /\ Reach(r, p, how)
    BY <1>10 DEF ReadList, ListStates
  <2>3. /\ part' \in [Requests -> [Parts -> ListStates]]
        /\ part'[r][p] = how /\ \A o \in Parts \ {p} : part'[r][o] = part[r][o]
        /\ \A q \in Requests \ {r} : part'[q] = part[q]
    BY <1>0, <2>2, Listed
  <2>4. config \in Clients
    BY <1>0, <2>1 DEF Reached, SharedTypes, TypeOK
  <2>5. /\ from' \in [Requests -> SUBSET Targets] /\ seen' \in [Requests -> 0..MaxWorld]
        /\ \A q \in Requests \ {r} : from'[q] = from[q] /\ seen'[q] = seen[q]
    <3>1. CASE Show(r, config)
      <4>1. config.target \in Targets /\ world \in 0..MaxWorld
        BY <1>0, <2>4 DEF Clients, SharedTypes
      <4> QED
        BY <1>0, <3>1, <4>1 DEF Show, LocalTypes
    <3>2. CASE UNCHANGED <<from, seen>>
      BY <1>0, <3>2 DEF LocalTypes
    <3> QED
      BY <1>10, <3>1, <3>2 DEF ReadList
  <2>6. LocalTypes' /\ Others(r)
    BY <1>0, <2>1, <2>3, <2>5 DEF LocalTypes, Others
  <2>7. SharedTypes'
    BY <1>0, <1>1, <2>1 DEF SharedTypes
  <2>8. pc[r] = "owners" \/ (pc[r] = "kinds" /\ p \notin Owners)
    BY <1>0, <2>1 DEF Reached, Unlisted
  <2>9. Reached(r)'
    <3>1. pc'[r] = pc[r] /\ want'[r] = want[r] /\ up' = up /\ config' = config
      BY <1>1, <2>1
    <3>2. pc[r] = "kinds" => \A o \in Owners : o # p /\ part'[r][o] = "done"
      BY <1>0, <2>3, <2>8 DEF Reached, Parts
    <3>3. \A o \in Parts : part'[r][o] = "pointed" => config # None
      BY <1>0, <2>2, <2>3 DEF Reached
    <3> QED
      BY <1>0, <2>8, <3>1, <3>2, <3>3 DEF Reached
  <2> QED
    BY <2>1, <2>6, <2>7, <2>9
<1>11. UNCHANGED <<vars, world>> => Sound'
  BY <1>1
<1> QED
  BY <1>2, <1>3, <1>4, <1>5, <1>6, <1>7, <1>8, <1>9, <1>10, <1>11 DEF Quiet

\* A step that calls SetContext: the request goes on to where the context is set,
\* or one of its lists does.
LEMMA CallingStep ==
    ASSUME MInv, NEW r \in Requests, Calling(r)
    PROVE  /\ LocalTypes' /\ SharedTypes' /\ Sound' /\ Others(r) /\ Reached(r)'
           /\ \E name : \E ok \in BOOLEAN : CallSetContext(r, name, ok)
           /\ pc'[r] = "cache" => pc[r] = "resolve" /\ current' = Target(want'[r])
           /\ pc'[r] \in {"client", "owners", "kinds"} =>
                 /\ pc'[r] = pc[r] /\ from'[r] = from[r] /\ want'[r] = want[r]
                 /\ current' = current \/ current' = Target(want[r])
<1>0. LocalTypes /\ SharedTypes /\ Reached(r) /\ Sound
  BY TypesApart DEF MInv, AllReached
<1>1. ASSUME NEW name, NEW ok \in BOOLEAN, CallSetContext(r, name, ok)
      PROVE  /\ SharedTypes' /\ Sound' /\ up' = up /\ (config # None => config' # None)
             /\ current' = current \/ (current' = Target(name) /\ current' # Empty)
             /\ current # Empty => current' # Empty
             /\ ok => current' = Target(name) /\ config' # None /\ current' # Empty
  BY <1>0, <1>1, CallsSetContext
<1>2. ASSUME NEW name, NEW ok \in BOOLEAN, CallSetContext(r, name, ok), Return(r)
      PROVE  /\ LocalTypes' /\ SharedTypes' /\ Sound' /\ Others(r) /\ Reached(r)' /\ pc'[r] = "idle"
  <2>1. /\ LocalTypes' /\ Others(r)
        /\ pc'[r] = "idle" /\ part'[r] = Unlisted /\ seen'[r] = MaxWorld
    BY <1>0, <1>2, Returned
  <2>2. Reached(r)'
    BY <2>1 DEF Reached, Unlisted
  <2> QED
    BY <1>1, <1>2, <2>1, <2>2
<1>3. CASE Resolve(r)
  <2>1. PICK ok \in BOOLEAN :
           /\ CallSetContext(r, want[r], ok)
           /\ IF ok THEN Goto(r, "cache") /\ UNCHANGED <<want, force, part, from, seen>> ELSE Return(r)
    BY <1>3 DEF Resolve
  <2>2. pc[r] = "resolve" /\ want[r] # Empty /\ up
    BY <1>3 DEF Resolve, At
  <2>3. CASE ok
    <3>1. LocalTypes' /\ Others(r) /\ pc'[r] = "cache" /\ want'[r] = want[r] /\ part'[r] = part[r]
          /\ seen'[r] = seen[r]
      BY <1>0, <2>1, <2>3 DEF Goto, LocalTypes, Stages, Others
    <3>2. want[r] \in Targets
      BY <1>0, <2>2 DEF Reached, Names, Targets
    <3>3. Reached(r)'
      BY <1>0, <1>1, <2>1, <2>2, <3>1, <3>2 DEF Reached, Unlisted
    <3>4. current' = Target(want[r])
      BY <1>1, <2>1, <2>3
    <3>5. Target(want[r]) = Target(want'[r])
      BY <3>1
    <3>6. Target(want'[r]) = Target(want[r])
      BY <3>5
    <3> QED
      BY <1>1, <2>1, <2>2, <3>1, <3>3, <3>4, <3>6
  <2>4. CASE ~ok
    BY <1>2, <2>1, <2>4
  <2> QED
    BY <2>3, <2>4
<1>4. CASE InitContext(r)
  <2>1. PICK ok \in BOOLEAN :
           /\ CallSetContext(r, Empty, ok)
           /\ IF ok THEN Goto(r, "name") /\ UNCHANGED <<want, force, part, from, seen>> ELSE Return(r)
    BY <1>4 DEF InitContext
  <2>2. pc[r] = "init" /\ up
    BY <1>4 DEF InitContext, At
  <2>3. CASE ok
    <3>1. LocalTypes' /\ Others(r) /\ pc'[r] = "name" /\ want'[r] = want[r] /\ part'[r] = part[r]
          /\ seen'[r] = seen[r]
      BY <1>0, <2>1, <2>3 DEF Goto, LocalTypes, Stages, Others
    <3>2. Reached(r)'
      BY <1>0, <1>1, <2>1, <2>2, <2>3, <3>1 DEF Reached, Unlisted
    <3> QED
      BY <1>1, <2>1, <3>1, <3>2
  <2>4. CASE ~ok
    BY <1>2, <2>1, <2>4
  <2> QED
    BY <2>3, <2>4
<1>5. ASSUME NEW p \in Parts, PointList(r, p) \/ DiscoverPlural(r, p)
      PROVE  /\ LocalTypes' /\ SharedTypes' /\ Sound' /\ Others(r) /\ Reached(r)'
             /\ pc'[r] = pc[r] /\ pc[r] # "cache" /\ from'[r] = from[r] /\ want'[r] = want[r]
             /\ \E ok \in BOOLEAN : CallSetContext(r, want[r], ok)
             /\ current' = current \/ current' = Target(want[r])
  <2>1. /\ up /\ UNCHANGED <<pc, want, force, from, seen>>
        /\ \/ MayStart(r, p)
           \/ part[r][p] = "paging"
           \/ part[r][p] = "plural"
    BY <1>5 DEF PointList, DiscoverPlural
  <2>2. PICK ok \in BOOLEAN, how \in ListStates :
           /\ CallSetContext(r, want[r], ok) /\ Reach(r, p, how)
           /\ how = "pointed" => ok
    BY <1>5 DEF PointList, DiscoverPlural, ListStates
  <2>3. /\ part' \in [Requests -> [Parts -> ListStates]]
        /\ part'[r][p] = how /\ \A o \in Parts \ {p} : part'[r][o] = part[r][o]
        /\ \A q \in Requests \ {r} : part'[q] = part[q]
    BY <1>0, <2>2, Listed
  <2>4. LocalTypes' /\ Others(r)
    BY <1>0, <2>1, <2>3 DEF LocalTypes, Others
  <2>5. pc[r] = "owners" \/ (pc[r] = "kinds" /\ p \notin Owners)
    BY <1>0, <2>1, ManagedAssumption DEF Reached, Unlisted, MayStart, At
  <2>6. /\ SharedTypes' /\ Sound' /\ up' = up /\ (config # None => config' # None)
        /\ current' = current \/ current' = Target(want[r])
        /\ ok => config' # None
    BY <1>1, <2>2
  <2>7. Reached(r)'
    <3>2. pc[r] = "kinds" => \A o \in Owners : o # p /\ part'[r][o] = "done"
      BY <1>0, <2>3, <2>5 DEF Reached, Parts
    <3>3. \A o \in Parts : part'[r][o] = "pointed" => config' # None
      BY <1>0, <2>2, <2>3, <2>6 DEF Reached
    <3> QED
      BY <1>0, <2>1, <2>5, <2>6, <3>2, <3>3 DEF Reached
  <2> QED
    BY <2>1, <2>2, <2>4, <2>5, <2>6, <2>7
<1> QED
  BY <1>3, <1>4, <1>5 DEF Calling

\* What goes on around the requests: nobody is served before the service is up,
\* and from then on only the requests move its client.
LEMMA EnvironmentStep ==
    ASSUME MInv, Environment
    PROVE  /\ MInv' /\ UNCHANGED <<mlocal, disturbed, overtaken>>
           /\ \A r \in Requests : pc[r] # "idle" =>
                 UNCHANGED <<inCluster, current, config, failed>>
           /\ world <= world'
           /\ \A t \in Targets : cache'[t] # None => cache[t] # None /\ cache'[t].seen = cache[t].seen
<1>0. LocalTypes /\ SharedTypes /\ Sound /\ MaxWorld \in Nat
  BY TypesApart, ManagedAssumption DEF MInv, AllReached
<1>1. world \in Nat
  BY <1>0 DEF SharedTypes
<1>2. UNCHANGED <<mlocal, disturbed, overtaken>>
  BY DEF Environment, Boot, WorldChanges, Edit, Expire
<1>3. ASSUME SharedTypes', Sound', up => up' /\ current' = current /\ config' = config PROVE MInv'
  <2>1. ASSUME NEW r \in Requests PROVE Reached(r)'
    <3>1. Reached(r) /\ pc' = pc /\ want' = want /\ part' = part /\ seen' = seen
      BY <1>2 DEF MInv, AllReached, mlocal
    <3>2. CASE up
      BY <1>3, <3>1, <3>2 DEF Reached
    <3>3. CASE ~up
      BY <3>1, <3>3 DEF Reached, Unlisted
    <3> QED
      BY <3>2, <3>3
  <2>2. LocalTypes'
    BY <1>0, <1>2 DEF LocalTypes, mlocal
  <2>3. MTypeOK'
    BY <1>3, <2>2 DEF MTypeOK, LocalTypes, SharedTypes, Stages
  <2> QED
    BY <1>3, <2>1, <2>3 DEF MInv, AllReached
<1>4. CASE Boot
  <2>1. /\ ~up /\ inCluster' = inCluster /\ entry' = entry /\ up' = TRUE
        /\ UNCHANGED <<cache, world, disturbed, overtaken>>
    BY <1>4 DEF Boot, Start, files
  <2>2. /\ TypeOK' /\ Sound'
    <3>1. CASE UNCHANGED store
      BY <1>0, <2>1, <3>1 DEF store, SharedTypes, TypeOK, Sound, CurrentClientOrFailed
    <3>2. ASSUME NEW ok \in BOOLEAN, SetContext(Empty, ok) PROVE TypeOK' /\ Sound'
      <4>1. /\ current' \in Targets \cup {Empty} /\ config' \in Clients \cup {None}
            /\ clientset' \in Clients \cup {None} /\ failed' \subseteq Targets
            /\ Sound'
        BY <1>0, <2>1, <3>2, Called DEF SharedTypes
      <4> QED
        BY <1>0, <2>1, <4>1 DEF SharedTypes, TypeOK
    <3> QED
      BY <1>4, <3>1, <3>2 DEF Boot, Start
  <2>3. MInv'
    BY <1>0, <1>3, <2>1, <2>2 DEF SharedTypes
  <2>4. \A r \in Requests : pc[r] = "idle"
    BY <2>1 DEF MInv, AllReached, Reached
  <2> QED
    BY <1>1, <1>2, <2>1, <2>3, <2>4
<1>5. CASE WorldChanges
  <2>1. UNCHANGED <<inCluster, entry, up, current, config, clientset, failed, cache, disturbed, overtaken>>
        /\ world' = world + 1 /\ world < MaxWorld
    BY <1>5 DEF WorldChanges, vars, files, store
  <2>2. SharedTypes'
    BY <1>0, <2>1 DEF SharedTypes, TypeOK
  <2>3. Sound'
    BY <1>0, <2>1 DEF Sound, CurrentClientOrFailed
  <2> QED
    BY <1>1, <1>2, <1>3, <2>1, <2>2, <2>3
<1>6. ASSUME NEW t \in Targets, NEW e \in Entries, Edit(t, e)
      PROVE  /\ MInv' /\ UNCHANGED <<inCluster, current, config, failed, world, cache>>
  <2>1. /\ UNCHANGED <<inCluster, up, current, config, clientset, failed, cache, world, disturbed, overtaken>>
        /\ entry' \in [Targets -> Entries]
    BY <1>0, <1>6 DEF Edit, EditEntry, store, SharedTypes, TypeOK
  <2>2. SharedTypes'
    BY <1>0, <2>1 DEF SharedTypes, TypeOK
  <2>3. Sound'
    BY <1>0, <2>1 DEF Sound, CurrentClientOrFailed
  <2> QED
    BY <1>3, <2>1, <2>2, <2>3
<1>7. ASSUME NEW t \in Targets, Expire(t)
      PROVE  /\ MInv' /\ UNCHANGED <<inCluster, current, config, failed, world>>
             /\ \A u \in Targets : cache'[u] # None => cache[u] # None /\ cache'[u].seen = cache[u].seen
  <2>1. /\ UNCHANGED <<inCluster, entry, up, current, config, clientset, failed, world, disturbed, overtaken>>
        /\ cache[t] # None /\ cache' = [cache EXCEPT ![t].fresh = FALSE]
    BY <1>7 DEF Expire, FreshInCache, vars, files, store
  <2>2. PICK c \in CacheEntries : c.seen = cache[t].seen /\ cache' = [cache EXCEPT ![t] = c]
    <3> DEFINE c == [cache[t] EXCEPT !.fresh = FALSE]
    <3>1. cache[t] \in CacheEntries
      BY <1>0, <2>1 DEF SharedTypes
    <3>2. c \in CacheEntries /\ c.seen = cache[t].seen
      BY <3>1 DEF CacheEntries
    <3>3. cache' = [cache EXCEPT ![t] = c]
      BY <2>1
    <3> QED
      BY <3>2, <3>3
  <2>3. SharedTypes'
    BY <1>0, <2>1, <2>2 DEF SharedTypes, TypeOK
  <2>4. Sound'
    BY <1>0, <2>1 DEF Sound, CurrentClientOrFailed
  <2>5. \A u \in Targets : cache'[u] # None => cache[u] # None /\ cache'[u].seen = cache[u].seen
    BY <1>0, <2>1, <2>2 DEF SharedTypes
  <2> QED
    BY <1>3, <2>1, <2>3, <2>4, <2>5
<1> QED
  BY <1>1, <1>2, <1>4, <1>5, <1>6, <1>7 DEF Environment

LEMMA ManagedStep == MInv /\ [MNext]_mvars => MInv'
<1> SUFFICES ASSUME MInv, [MNext]_mvars PROVE MInv'
  OBVIOUS
<1>0. SharedTypes
  BY TypesApart DEF MInv
<1>1. CASE UNCHANGED mvars
  BY <1>1 DEF mvars, vars, files, store, mlocal, MInv, MTypeOK, TypeOK, AllReached, Sound,
              CurrentClientOrFailed, Reached
<1>2. ASSUME NEW r \in Requests, Quiet(r) PROVE MInv'
  <2>1. /\ LocalTypes' /\ SharedTypes' /\ Sound' /\ Others(r) /\ Reached(r)'
        /\ up' = up /\ current' = current /\ config' = config
    BY <1>2, QuietStep DEF vars, files, store
  <2> QED
    BY <2>1, Together
<1>3. ASSUME NEW r \in Requests, Calling(r) PROVE MInv'
  <2>1. /\ LocalTypes' /\ SharedTypes' /\ Sound' /\ Others(r) /\ Reached(r)'
        /\ \E name : \E ok \in BOOLEAN : CallSetContext(r, name, ok)
    BY <1>3, CallingStep
  <2>2. up' = up /\ (current # Empty => current' # Empty) /\ (config # None => config' # None)
    BY <1>0, <2>1, CallsSetContext DEF MInv, AllReached
  <2> QED
    BY <2>1, <2>2, Together
<1> QED
  BY <1>1, <1>2, <1>3, EnvironmentStep, MovesOfAll

\* kubernetes_managed.go: the types, and what every request can rely on at each
\* of its stages: a context to list, and a client for every list that has set it.
THEOREM ManagedTypeCorrect == MSpec => [](MTypeOK /\ AllReached)
<1>1. MInit => MInv
  <2> SUFFICES ASSUME MInit PROVE MInv
    OBVIOUS
  <2>1. MTypeOK
    <3>1. TypeOK
      BY DEF MInit, Init, TypeOK
    <3>2. part \in [Requests -> [Parts -> ListStates]]
      BY DEF MInit, Unlisted, ListStates
    <3>3. /\ pc \in [Requests -> Stages] /\ want \in [Requests -> Names \cup {InCluster}]
          /\ force \in [Requests -> BOOLEAN] /\ from \in [Requests -> SUBSET Targets]
      BY DEF MInit, Stages, Names
    <3>4. seen \in [Requests -> 0..MaxWorld] /\ world \in 0..MaxWorld
      BY ManagedAssumption DEF MInit
    <3>5. /\ cache \in [Targets -> CacheEntries \cup {None}]
          /\ disturbed \subseteq Requests /\ overtaken \subseteq Requests
      BY DEF MInit
    <3> QED
      BY <3>1, <3>2, <3>3, <3>4, <3>5 DEF MTypeOK, Stages
  <2>2. AllReached
    BY DEF MInit, Init, AllReached, Sound, CurrentClientOrFailed, Reached, Unlisted
  <2> QED
    BY <2>1, <2>2 DEF MInv
<1> QED
  BY <1>1, ManagedStep, PTL DEF MSpec, MInv

\* A request that has waited for its kinds and has left them has cached its list.
LEMMA StoreStores ==
    ASSUME MInv, [MNext]_mvars, NEW r \in Requests, Stores(r)
    PROVE  Store(r)
<1>0. LocalTypes
  BY TypesApart DEF MInv
<1>1. CASE UNCHANGED mvars
  BY <1>1 DEF mvars, mlocal, Stores
<1>2. ASSUME Environment PROVE FALSE
  BY <1>2, EnvironmentStep DEF mlocal, Stores
<1>3. ASSUME NEW q \in Requests, Quiet(q) \/ Calling(q) PROVE q = r
  <2>1. Others(q)
    BY <1>3, QuietStep, CallingStep
  <2> QED
    BY <2>1 DEF Others, Stores
<1>4. ~Calling(r)
  BY DEF Calling, Resolve, InitContext, PointList, DiscoverPlural, At, Stores
<1>5. Quiet(r) => Store(r)
  BY DEF Quiet, Begin, ResolveEmpty, NameContext, AnswerFromCache, Miss, TakeClient,
         FailOwners, ListCRDs, ReadList, At, Stores
<1> QED
  BY <1>1, <1>2, <1>3, <1>4, <1>5, MovesOfAll

----------------------------------------------------------------------------
(* A cached list comes from one context.                                    *)

\* As long as nobody else has moved the client, it serves the context that the
\* request is about, and so did every list, unless that context has failed.
Own(r) ==
    r \notin disturbed =>
       /\ pc[r] \in {"cache", "client", "owners", "kinds"} => current = Target(want[r])
       /\ pc[r] \in {"owners", "kinds"} /\ Target(want[r]) \notin failed =>
             from[r] \subseteq {Target(want[r])}

AllOwn == \A r \in Requests : Own(r)

\* What r lists with, unless it has been disturbed or its context has failed.
LEMMA OwnClient ==
    ASSUME MInv, NEW r \in Requests, Own(r), r \notin disturbed,
           pc[r] \in {"cache", "client", "owners", "kinds"}, Target(want[r]) \notin failed
    PROVE  config # None /\ config.target = Target(want[r])
<1>1. current = Target(want[r]) /\ want[r] \in Targets /\ CurrentClientOrFailed
  BY DEF Own, MInv, AllReached, Reached, Sound
<1>2. current # Empty
  BY <1>1, ContextAssumption DEF Target, Targets
<1> QED
  BY <1>1, <1>2 DEF CurrentClientOrFailed

LEMMA QuietOwn ==
    ASSUME MInv, AllOwn, NEW r \in Requests, Quiet(r)
    PROVE  AllOwn'
<1>0. /\ LocalTypes /\ SharedTypes /\ Reached(r) /\ Sound /\ Own(r)
      /\ LocalTypes' /\ Others(r)
      /\ inCluster' = inCluster /\ current' = current /\ config' = config /\ failed' = failed
  BY TypesApart, QuietStep DEF MInv, AllReached, AllOwn, vars, files, store
<1>1. \A q \in Requests \ {r} : q \notin disturbed' => q \notin disturbed
  BY DEF Quiet, Begin, ResolveEmpty, NameContext, AnswerFromCache, Miss, TakeClient,
         FailOwners, ListCRDs, Store, ReadList
<1>2. ASSUME NEW q \in Requests \ {r} PROVE Own(q)'
  <2>1. Own(q) /\ pc'[q] = pc[q] /\ want'[q] = want[q] /\ from'[q] = from[q]
    BY <1>0 DEF AllOwn, Others
  <2> QED
    BY <1>0, <1>1, <2>1 DEF Own, Target
<1>3. CASE Return(r)
  <2>1. pc'[r] = "idle"
    BY <1>0, <1>3, Returned
  <2> QED
    BY <1>2, <2>1 DEF AllOwn, Own
<1>4. CASE pc'[r] \in {"resolve", "init", "name"}
  BY <1>2, <1>4 DEF AllOwn, Own
<1>5. CASE NameContext(r)
  <2>1. pc[r] = "name" /\ pc'[r] = "cache" /\ want'[r] = current
    BY <1>0, <1>5 DEF NameContext, At, Goto, LocalTypes
  <2>2. current = Target(current)
    BY <1>0, <2>1 DEF Reached, Sound, Target
  <2>3. Target(want[r])' = Target(current)
    BY <1>0, <2>1 DEF Target
  <2>4. Own(r)'
    BY <1>0, <2>1, <2>2, <2>3 DEF Own
  <2> QED
    BY <1>2, <2>4 DEF AllOwn
<1>6. CASE /\ pc[r] \in {"cache", "client", "owners", "kinds"} /\ want'[r] = want[r]
           /\ UNCHANGED disturbed
           /\ \/ pc'[r] = "client"
              \/ pc'[r] \in {"owners", "kinds"} /\ from'[r] = {config.target}
              \/ /\ pc[r] \in {"owners", "kinds"} /\ pc'[r] \in {"owners", "kinds"}
                 /\ from'[r] \subseteq from[r] \cup {config.target}
  <2>1. Target(want[r])' = Target(want[r])
    BY <1>0, <1>6 DEF Target
  <2>2. ASSUME r \notin disturbed, Target(want[r]) \notin failed PROVE config.target = Target(want[r])
    BY <1>0, <1>6, <2>2, OwnClient
  <2>3. Own(r)'
    BY <1>0, <1>6, <2>1, <2>2 DEF Own
  <2> QED
    BY <1>2, <2>3 DEF AllOwn
<1>7. ASSUME NEW name \in Names, NEW refresh \in BOOLEAN, Begin(r, name, refresh)
      PROVE  pc'[r] = "resolve"
  BY <1>0, <1>7 DEF Begin, Goto, LocalTypes
<1>8. ResolveEmpty(r) => pc'[r] \in {"init", "name"}
  BY <1>0 DEF ResolveEmpty, Goto, LocalTypes
<1>9. ASSUME Miss(r) \/ TakeClient(r) \/ ListCRDs(r) \/ \E p \in Parts : ReadList(r, p), ~Return(r)
      PROVE  /\ pc[r] \in {"cache", "client", "owners", "kinds"} /\ want'[r] = want[r]
             /\ UNCHANGED disturbed
             /\ \/ pc'[r] = "client"
                \/ pc'[r] \in {"owners", "kinds"} /\ from'[r] = {config.target}
                \/ /\ pc[r] \in {"owners", "kinds"} /\ pc'[r] \in {"owners", "kinds"}
                   /\ from'[r] \subseteq from[r] \cup {config.target}
  <2>1. CASE Miss(r)
    BY <1>0, <2>1 DEF Miss, At, Goto, LocalTypes
  <2>2. CASE TakeClient(r)
    BY <1>0, <1>9, <2>2 DEF TakeClient, At, Goto, LocalTypes
  <2>3. CASE ListCRDs(r)
    BY <1>0, <1>9, <2>3 DEF ListCRDs, At, Goto, LocalTypes
  <2>4. ASSUME NEW p \in Parts, ReadList(r, p)
        PROVE  /\ pc[r] \in {"owners", "kinds"} /\ want'[r] = want[r] /\ pc'[r] = pc[r]
               /\ UNCHANGED disturbed /\ from'[r] \subseteq from[r] \cup {config.target}
    <3>1. pc[r] \in {"owners", "kinds"}
      BY <1>0, <2>4 DEF ReadList, Reached, Unlisted
    <3> QED
      BY <1>0, <2>4, <3>1 DEF ReadList, Show, LocalTypes
  <2> QED
    BY <1>9, <2>1, <2>2, <2>3, <2>4
<1>10. AnswerFromCache(r) \/ FailOwners(r) \/ Store(r) => Return(r)
  BY DEF AnswerFromCache, FailOwners, Store
<1> QED
  BY <1>3, <1>4, <1>5, <1>6, <1>7, <1>8, <1>9, <1>10 DEF Quiet

LEMMA CallingOwn ==
    ASSUME MInv, AllOwn, NEW r \in Requests, Calling(r)
    PROVE  AllOwn'
<1>0. /\ LocalTypes /\ SharedTypes /\ Sound /\ Others(r)
      /\ pc'[r] = "cache" => current' = Target(want'[r])
      /\ pc'[r] \in {"client", "owners", "kinds"} =>
            /\ pc'[r] = pc[r] /\ from'[r] = from[r] /\ want'[r] = want[r]
            /\ current' = current \/ current' = Target(want[r])
  BY TypesApart, CallingStep DEF MInv, AllReached
<1>1. PICK name : \E ok \in BOOLEAN : CallSetContext(r, name, ok)
  BY CallingStep
<1>2. /\ inCluster' = inCluster /\ failed \subseteq failed' /\ disturbed \subseteq disturbed'
      /\ \A q \in Requests \ {r} :
            pc[q] \notin {"idle", "resolve"} /\ q \notin disturbed' =>
               q \notin disturbed /\ current' = current
  BY <1>0, <1>1, CallsSetContext
<1>3. ASSUME NEW q \in Requests \ {r} PROVE Own(q)'
  <2>1. Own(q) /\ pc'[q] = pc[q] /\ want'[q] = want[q] /\ from'[q] = from[q]
    BY <1>0 DEF AllOwn, Others
  <2> QED
    BY <1>2, <2>1 DEF Own, Target
<1>4. Own(r)'
  <2>1. Own(r) /\ \A n : Target(n)' = Target(n)
    BY <1>2 DEF AllOwn, Target
  <2>2. Target(want[r])' = Target(want'[r])
    BY <1>2 DEF Target
  <2> QED
    BY <1>0, <1>2, <2>1, <2>2 DEF Own
<1> QED
  BY <1>3, <1>4 DEF AllOwn

LEMMA OwnStep == MInv /\ AllOwn /\ [MNext]_mvars => AllOwn'
<1> SUFFICES ASSUME MInv, AllOwn, [MNext]_mvars PROVE AllOwn'
  OBVIOUS
<1>1. CASE UNCHANGED mvars
  BY <1>1 DEF mvars, vars, files, store, mlocal, AllOwn, Own, Target
<1>2. CASE Environment
  <2>1. /\ UNCHANGED <<pc, want, from, disturbed>>
        /\ \A r \in Requests : pc[r] # "idle" =>
              UNCHANGED <<inCluster, current, config, failed>>
    BY <1>2, EnvironmentStep DEF mlocal
  <2>2. ASSUME NEW r \in Requests PROVE Own(r)'
    <3>1. CASE pc[r] = "idle"
      BY <2>1, <3>1 DEF Own
    <3>2. CASE pc[r] # "idle"
      BY <2>1, <3>2 DEF AllOwn, Own, Target
    <3> QED
      BY <3>1, <3>2
  <2> QED
    BY <2>2 DEF AllOwn
<1> QED
  BY <1>1, <1>2, QuietOwn, CallingOwn, MovesOfAll

\* GET /api/managed caches a list that mixes in another context's resources only
\* after another request has moved the shared client, or after the client of its
\* context could not be built.
THEOREM ListsOwn == MSpec => ForeignListExplained
<1>1. MInit => AllOwn
  BY DEF MInit, AllOwn, Own
<1>2. MInv /\ AllOwn /\ [MNext]_mvars =>
         \A t \in Targets, r \in Requests :
            /\ Stores(r) /\ cache'[t] # cache[t]
            /\ r \notin disturbed
            /\ Target(t) \notin failed
            => cache'[t].from \subseteq {Target(t)}
  <2> SUFFICES ASSUME MInv, AllOwn, [MNext]_mvars, NEW t \in Targets, NEW r \in Requests,
                      Stores(r), cache'[t] # cache[t], r \notin disturbed, Target(t) \notin failed
               PROVE  cache'[t].from \subseteq {Target(t)}
    OBVIOUS
  <2>1. Own(r) /\ SharedTypes /\ LocalTypes
    BY TypesApart DEF AllOwn, MInv
  <2>2. Store(r) => cache' = [cache EXCEPT ![want[r]] =
                               [from |-> from[r], seen |-> seen[r], fresh |-> TRUE]]
    BY DEF Store
  <2>3. Store(r)
    BY StoreStores
  <2>4. t = want[r] /\ cache'[t].from = from[r]
    BY <2>1, <2>2, <2>3 DEF SharedTypes
  <2> QED
    BY <2>1, <2>4 DEF Own, Stores
<1> QED
  BY <1>1, <1>2, OwnStep, ManagedTypeCorrect, PTL DEF MSpec, ForeignListExplained, MInv

----------------------------------------------------------------------------
(* Refreshing goes forward.                                                 *)

\* A request whose lists have shown something has seen contents that were there;
\* what it has seen is as new as all that was cached when it began to list, and
\* nothing newer has been cached unless it has been overtaken.
Ahead(r) ==
    /\ \A p \in Parts : part[r][p] \in {"paging", "plural", "done"} => seen[r] <= world
    /\ pc[r] \in {"owners", "kinds"} /\ r \notin overtaken =>
          \A t \in Targets : cache[t] # None => cache[t].seen <= seen[r]

AllAhead ==
    /\ \A t \in Targets : cache[t] # None => cache[t].seen <= world
    /\ \A r \in Requests : Ahead(r)

LEMMA NumbersType ==
    ASSUME MInv
    PROVE  /\ world \in Nat /\ MaxWorld \in Nat /\ world <= MaxWorld
           /\ \A r \in Requests : seen[r] \in Nat /\ seen[r] <= MaxWorld
           /\ \A t \in Targets : cache[t] # None => cache[t].seen \in Nat /\ cache[t].seen <= MaxWorld
<1>1. LocalTypes /\ SharedTypes /\ MaxWorld \in Nat
  BY TypesApart, ManagedAssumption DEF MInv
<1>2. \A t \in Targets : cache[t] # None => cache[t].seen \in 0..MaxWorld
  BY <1>1 DEF SharedTypes, CacheEntries
<1> QED
  BY <1>1, <1>2 DEF LocalTypes, SharedTypes

\* A step of r that stores nothing.
LEMMA AheadKept ==
    ASSUME MInv, AllAhead, NEW r \in Requests, Others(r), UNCHANGED <<cache, world>>,
           overtaken \ {r} = overtaken' \ {r}, Ahead(r)'
    PROVE  AllAhead'
<1>1. ASSUME NEW q \in Requests \ {r} PROVE Ahead(q)'
  <2>1. Ahead(q) /\ pc'[q] = pc[q] /\ part'[q] = part[q] /\ seen'[q] = seen[q]
    BY DEF AllAhead, Others
  <2> QED
    BY <2>1 DEF Ahead
<1> QED
  BY <1>1 DEF AllAhead

\* Where r does not list, it has nothing to be ahead of.
LEMMA NothingListed ==
    ASSUME MInv', NEW r \in Requests, pc'[r] \notin {"owners", "kinds"}
    PROVE  Ahead(r)'
<1>1. part'[r] = Unlisted
  BY DEF MInv, AllReached, Reached
<1> QED
  BY <1>1 DEF Ahead, Unlisted

LEMMA StoreAhead ==
    ASSUME MInv, AllAhead, NEW r \in Requests, Store(r), MInv', Others(r)
    PROVE  AllAhead'
<1>0. LocalTypes /\ SharedTypes /\ Reached(r) /\ Ahead(r)
  BY TypesApart DEF MInv, AllReached, AllAhead
<1>1. /\ pc[r] = "kinds" /\ Return(r) /\ world' = world
      /\ cache' = [cache EXCEPT ![want[r]] = [from |-> from[r], seen |-> seen[r], fresh |-> TRUE]]
      /\ overtaken' = overtaken \cup {x \in Requests \ {r} : pc[x] \in {"owners", "kinds"}}
  BY DEF Store, At
<1>2. seen[r] <= world
  <2>1. PICK o \in Owners : TRUE
    BY ManagedAssumption
  <2>2. o \in Parts /\ part[r][o] = "done"
    BY <1>0, <1>1, <2>1 DEF Reached, Parts
  <2> QED
    BY <1>0, <2>2 DEF Ahead
<1>3. \A t \in Targets : cache'[t] # None => cache'[t].seen <= world'
  BY <1>0, <1>1, <1>2 DEF AllAhead, SharedTypes
<1>4. Ahead(r)'
  <2>1. pc'[r] = "idle"
    BY <1>0, <1>1, Returned
  <2> QED
    BY <2>1, NothingListed
<1>5. ASSUME NEW q \in Requests \ {r} PROVE Ahead(q)'
  <2>1. Ahead(q) /\ pc'[q] = pc[q] /\ part'[q] = part[q] /\ seen'[q] = seen[q]
    BY DEF AllAhead, Others
  <2>2. pc[q] \in {"owners", "kinds"} => q \in overtaken'
    BY <1>1
  <2> QED
    BY <1>1, <2>1, <2>2 DEF Ahead
<1> QED
  BY <1>3, <1>4, <1>5 DEF AllAhead

LEMMA ListingAhead ==
    ASSUME MInv, AllAhead, NEW r \in Requests, NEW p \in Parts, MInv', Others(r),
           ReadList(r, p) \/ PointList(r, p) \/ DiscoverPlural(r, p)
    PROVE  AllAhead'
<1>0. LocalTypes /\ SharedTypes /\ Reached(r) /\ Ahead(r)
  BY TypesApart DEF MInv, AllReached, AllAhead
<1>1. UNCHANGED <<pc, cache, world, overtaken>>
  BY DEF ReadList, PointList, DiscoverPlural, CallSetContext
<1>2. PICK how \in ListStates :
         /\ Reach(r, p, how)
         /\ how \in {"paging", "plural", "done"} =>
               Show(r, config) \/ (part[r][p] = "plural" /\ UNCHANGED seen)
         /\ how \notin {"paging", "plural", "done"} => UNCHANGED seen
  BY DEF ReadList, PointList, DiscoverPlural, ListStates
<1>3. /\ part'[r][p] = how /\ \A o \in Parts \ {p} : part'[r][o] = part[r][o]
  BY <1>0, <1>2, Listed
<1>4. /\ world \in Nat /\ seen[r] \in Nat
      /\ \A t \in Targets : cache[t] # None => cache[t].seen \in Nat /\ cache[t].seen <= world
  BY NumbersType DEF AllAhead
<1>5. \/ seen'[r] = (IF world < seen[r] THEN world ELSE seen[r])
      \/ seen'[r] = seen[r] /\ (how \in {"paging", "plural", "done"} => part[r][p] = "plural")
  BY <1>0, <1>2 DEF Show, LocalTypes
<1>6. \A o \in Parts : part'[r][o] \in {"paging", "plural", "done"} => seen'[r] <= world'
  BY <1>0, <1>1, <1>3, <1>4, <1>5 DEF Ahead
<1>7. ASSUME pc[r] \in {"owners", "kinds"}, r \notin overtaken, NEW t \in Targets, cache[t] # None
      PROVE  cache[t].seen <= seen'[r]
  BY <1>0, <1>4, <1>5, <1>7 DEF Ahead
<1>8. Ahead(r)'
  BY <1>1, <1>6, <1>7 DEF Ahead
<1> QED
  BY <1>1, <1>8, AheadKept

LEMMA AheadStep == MInv /\ AllAhead /\ [MNext]_mvars => AllAhead'
<1> SUFFICES ASSUME MInv, AllAhead, [MNext]_mvars PROVE AllAhead'
  OBVIOUS
<1>0. MInv'
  BY ManagedStep
<1>1. CASE UNCHANGED mvars
  BY <1>1 DEF mvars, mlocal, AllAhead, Ahead
<1>2. CASE Environment
  <2>1. /\ UNCHANGED <<pc, part, seen, overtaken>> /\ world <= world'
        /\ \A t \in Targets : cache'[t] # None => cache[t] # None /\ cache'[t].seen = cache[t].seen
    BY <1>2, EnvironmentStep DEF mlocal
  <2>2. /\ world \in Nat /\ \A r \in Requests : seen[r] \in Nat
        /\ \A t \in Targets : cache[t] # None => cache[t].seen \in Nat
    BY NumbersType
  <2>3. world' \in Nat
    BY <1>0, ManagedAssumption DEF MInv, MTypeOK
  <2>4. \A t \in Targets : cache'[t] # None => cache'[t].seen <= world'
    BY <2>1, <2>2, <2>3 DEF AllAhead
  <2>5. ASSUME NEW r \in Requests PROVE Ahead(r)'
    <3>1. Ahead(r) /\ seen[r] \in Nat
      BY <2>2 DEF AllAhead
    <3> QED
      BY <2>1, <2>2, <2>3, <3>1 DEF Ahead
  <2> QED
    BY <2>4, <2>5 DEF AllAhead
<1>3. ASSUME NEW r \in Requests, Quiet(r) \/ Calling(r) PROVE AllAhead'
  <2>0. /\ LocalTypes /\ Reached(r) /\ Others(r)
    BY <1>3, TypesApart, QuietStep, CallingStep DEF MInv, AllReached
  <2>1. CASE Store(r)
    BY <1>0, <2>0, <2>1, StoreAhead
  <2>2. ASSUME NEW p \in Parts, ReadList(r, p) \/ PointList(r, p) \/ DiscoverPlural(r, p)
        PROVE  AllAhead'
    BY <1>0, <2>0, <2>2, ListingAhead
  <2>3. ASSUME TakeClient(r) \/ ListCRDs(r) PROVE AllAhead'
    <3>1. UNCHANGED <<part, seen, cache, world, overtaken>> \/ Return(r)
      BY <2>3 DEF TakeClient, ListCRDs
    <3>2. UNCHANGED <<cache, world, overtaken>> /\ pc[r] \in {"client", "owners"}
      BY <2>3 DEF TakeClient, ListCRDs, At
    <3>3. CASE Return(r)
      <4>1. pc'[r] = "idle"
        BY <2>0, <3>3, Returned
      <4>2. Ahead(r)'
        BY <1>0, <4>1, NothingListed
      <4> QED
        BY <2>0, <3>2, <4>2, AheadKept
    <3>4. CASE UNCHANGED <<part, seen>>
      <4>1. Ahead(r) /\ (pc[r] = "client" => seen[r] = MaxWorld)
        BY <2>0 DEF AllAhead, Reached
      <4>2. \A t \in Targets : cache[t] # None => cache[t].seen <= MaxWorld
        BY NumbersType
      <4>3. Ahead(r)'
        BY <3>2, <3>4, <4>1, <4>2 DEF Ahead
      <4> QED
        BY <2>0, <3>2, <4>3, AheadKept
    <3> QED
      BY <3>1, <3>3, <3>4
  <2>4. ASSUME \/ \E name \in Names, refresh \in BOOLEAN : Begin(r, name, refresh)
               \/ ResolveEmpty(r) \/ NameContext(r) \/ AnswerFromCache(r) \/ Miss(r)
               \/ FailOwners(r) \/ Resolve(r) \/ InitContext(r)
        PROVE  AllAhead'
    <3>1. UNCHANGED <<cache, world>> /\ overtaken \ {r} = overtaken' \ {r}
      BY <2>4 DEF Begin, ResolveEmpty, NameContext, AnswerFromCache, Miss, FailOwners, Resolve,
                  InitContext, CallSetContext
    <3>2. pc'[r] \notin {"owners", "kinds"}
      <4>1. Return(r) => pc'[r] = "idle"
        BY <2>0, Returned
      <4> QED
        BY <2>0, <2>4, <4>1 DEF Begin, ResolveEmpty, NameContext, AnswerFromCache, Miss, FailOwners,
                                Resolve, InitContext, Goto, LocalTypes
    <3>3. Ahead(r)'
      BY <1>0, <3>2, NothingListed
    <3> QED
      BY <2>0, <3>1, <3>3, AheadKept
  <2> QED
    BY <1>3, <2>1, <2>2, <2>3, <2>4 DEF Quiet, Calling
<1> QED
  BY <1>1, <1>2, <1>3, MovesOfAll

\* Refreshing one after the other never replaces a cached list by an older one:
\* that takes another request that stores its own meanwhile.
THEOREM RefreshOrdered == MSpec => RefreshGoesForward
<1>1. MInit => AllAhead
  BY DEF MInit, AllAhead, Ahead, Unlisted
<1>2. MInv /\ AllAhead /\ [MNext]_mvars =>
         \A t \in Targets, r \in Requests :
            /\ Stores(r) /\ cache[t] # None
            /\ r \notin overtaken
            => cache'[t].seen >= cache[t].seen
  <2> SUFFICES ASSUME MInv, AllAhead, [MNext]_mvars, NEW t \in Targets, NEW r \in Requests,
                      Stores(r), cache[t] # None, r \notin overtaken
               PROVE  cache'[t].seen >= cache[t].seen
    OBVIOUS
  <2>1. Ahead(r) /\ SharedTypes
    BY TypesApart DEF AllAhead, MInv
  <2>2. Store(r)
    BY StoreStores
  <2>3. cache' = [cache EXCEPT ![want[r]] = [from |-> from[r], seen |-> seen[r], fresh |-> TRUE]]
    BY <2>2 DEF Store
  <2>4. cache[t].seen \in Nat /\ seen[r] \in Nat /\ cache[t].seen <= seen[r]
    BY <2>1, NumbersType DEF Ahead, Stores
  <2> QED
    BY <2>1, <2>3, <2>4 DEF SharedTypes
<1> QED
  BY <1>1, <1>2, AheadStep, ManagedTypeCorrect, PTL DEF MSpec, RefreshGoesForward, MInv
============================================================================
