-------------------------- MODULE WatchServerProofs --------------------------
(* The watch goroutines and informers for any number of websockets, of
   subscriptions in flight, of resources and of contexts: the types, which
   cluster an informer reads, and how many of them a socket has.             *)
EXTENDS WatchServer, FiniteSetTheorems, TLAPS

\* What a goroutine has in hand at each of its steps: a client once a context
\* has been set, a cluster that exists once the client has been taken, a state
\* once the resource has been read; its informer runs only from Create on.
InHand ==
    /\ client \in known \cup {None}
    /\ context \in [Watchers -> known \cup {Default}]
    /\ \A r \in Routines :
          /\ pc[r] \in {"config", "reconfig"} => client # None
          /\ pc[r] \in {"lookup", "create", "get"} => job[r].held \in known
          /\ pc[r] = "send" => job[r].got \in States
          /\ running[r] # None =>
                /\ pc[r] \notin {"free", "context", "config", "lookup", "create"}
                /\ running[r].source \in known

\* A context set by SetContext is one of the kubeconfig's, or none was named.
LEMMA ResolvedContext ==
    ASSUME InHand, NEW w \in Watchers
    PROVE  Resolved(w) \in known \cup {Default}
BY DEF InHand, Resolved

LEMMA JobUpdates ==
    ASSUME NEW j \in Jobs, NEW c \in Contexts \cup {None}
    PROVE  /\ [j EXCEPT !.want = None, !.held = None, !.got = None] \in Jobs
           /\ [j EXCEPT !.want = c] \in Jobs
           /\ [j EXCEPT !.held = c] \in Jobs
           /\ \A s \in States : [j EXCEPT !.got = s] \in Jobs
           /\ j.watcher \in Watchers /\ j.key \in Keys
           /\ j.want \in Contexts \cup {None} /\ j.held \in Contexts \cup {None}
BY DEF Jobs

\* The goroutines get their numbers in order.
Numbered == \E n \in Nat : {r \in Routines : pc[r] # "free"} = 1..n

\* The goroutines of a new subscription are free ones and get one key each; the
\* others keep what they have.
LEMMA Started ==
    ASSUME WTypeOK, Numbered, NEW w \in Watchers, NEW keys \in SUBSET Keys, Start(w, keys)
    PROVE  /\ pc' \in [Routines -> PCs] /\ job' \in [Routines -> Jobs \cup {Nothing}]
           /\ overlapped' = overlapped \cup
                 {<<w, k>> : k \in {j \in keys : \E r \in Routines : Unstored(r, w, j)}}
           /\ Numbered'
           /\ \A r \in Routines :
                 \/ /\ pc[r] = "free" /\ pc'[r] = "context"
                    /\ job'[r] \in Jobs /\ job'[r].watcher = w /\ job'[r].key \in keys
                 \/ pc'[r] = pc[r] /\ job'[r] = job[r]
           /\ \A q, r \in Routines :
                 pc[q] = "free" /\ pc[r] = "free" /\ pc'[q] # "free" /\ pc'[r] # "free"
                 /\ job'[q].key = job'[r].key => q = r
<1> DEFINE busy == {r \in Routines : pc[r] # "free"}
           used == Cardinality(busy)
           new  == (used + 1)..(used + Cardinality(keys))
<1>1. PICK f \in Bijection(new, keys) :
          job' = [r \in Routines |->
                    IF r \in new THEN [Nothing EXCEPT !.watcher = w, !.key = f[r]] ELSE job[r]]
  BY DEF Start
<1>2. /\ \A r \in new : f[r] \in keys
      /\ \A q, r \in new : f[q] = f[r] => q = r
  BY DEF Bijection, Injection, Surjection, IsInjective
<1>3. \A k \in Keys : /\ [Nothing EXCEPT !.watcher = w, !.key = k] \in Jobs
                      /\ [Nothing EXCEPT !.watcher = w, !.key = k].watcher = w
                      /\ [Nothing EXCEPT !.watcher = w, !.key = k].key = k
  BY DEF Nothing, Jobs
<1>4. pc' = [r \in Routines |-> IF r \in new THEN "context" ELSE pc[r]]
  BY DEF Start
<1>5. used \in Nat /\ busy = 1..used
  <2>1. PICK n \in Nat : busy = 1..n
    BY DEF Numbered
  <2>2. Cardinality(1..n) = n
    BY <2>1, FS_Interval
  <2> QED
    BY <2>1, <2>2
<1>6. Cardinality(keys) \in Nat
  BY WatchAssumption, FS_Subset, FS_CardinalityType
<1>7. overlapped' = overlapped \cup
          {<<w, k>> : k \in {j \in keys : \E r \in Routines : Unstored(r, w, j)}}
  BY DEF Start
<1> HIDE DEF used
<1>8. \A r \in Routines : r \in new => pc[r] = "free"
  BY <1>5, <1>6
<1>9. Numbered'
  <2>1. Cardinality(Routines) \in Nat /\ Routines = 1..Cardinality(Routines)
    BY WatchAssumption, FS_CardinalityType
  <2> DEFINE N == Cardinality(Routines)
             m == IF used + Cardinality(keys) <= N THEN used + Cardinality(keys) ELSE N
  <2>2. m \in Nat
    BY <1>5, <1>6, <2>1
  <2>3. {r \in Routines : pc'[r] # "free"} = busy \cup (new \cap Routines)
    BY <1>4
  <2>4. busy \cup (new \cap Routines) = 1..m
    BY <1>5, <1>6, <2>1
  <2> QED
    BY <2>2, <2>3, <2>4 DEF Numbered
<1> HIDE DEF new, busy
<1>10. \A r \in Routines : r \in new =>
          /\ job'[r] \in Jobs /\ job'[r].watcher = w /\ job'[r].key = f[r]
          /\ job'[r].key \in keys
  <2> SUFFICES ASSUME NEW r \in Routines, r \in new
               PROVE  /\ job'[r] \in Jobs /\ job'[r].watcher = w /\ job'[r].key = f[r]
                      /\ job'[r].key \in keys
    OBVIOUS
  <2>1. f[r] \in keys /\ f[r] \in Keys
    BY <1>2
  <2>2. job'[r] = [Nothing EXCEPT !.watcher = w, !.key = f[r]]
    BY <1>1
  <2> QED
    BY <1>3, <2>1, <2>2
<1>11. \A r \in Routines : r \notin new => job'[r] = job[r]
  BY <1>1
<1>12. pc' \in [Routines -> PCs] /\ job' \in [Routines -> Jobs \cup {Nothing}]
  BY <1>1, <1>4, <1>10, <1>11 DEF WTypeOK, PCs
<1>13. \A r \in Routines :
          \/ /\ pc[r] = "free" /\ pc'[r] = "context"
             /\ job'[r] \in Jobs /\ job'[r].watcher = w /\ job'[r].key \in keys
          \/ pc'[r] = pc[r] /\ job'[r] = job[r]
  BY <1>4, <1>8, <1>10, <1>11
<1>14. \A q, r \in Routines :
          pc[q] = "free" /\ pc[r] = "free" /\ pc'[q] # "free" /\ pc'[r] # "free"
          /\ job'[q].key = job'[r].key => q = r
  BY <1>2, <1>4, <1>10
<1> QED
  BY <1>7, <1>9, <1>12, <1>13, <1>14

\* A step of goroutine r at all: it has a job, and only its own entries change.
LEMMA SwitchTypes ==
    ASSUME WTypeOK, InHand, NEW r \in Routines, NEW next \in PCs \ {"free"},
           pc[r] \notin {"free", "config", "reconfig"}, SwitchTo(r, next)
    PROVE  /\ WTypeOK'
           /\ context' \in [Watchers -> known \cup {Default}]
           /\ client' \in known \cup {None}
           /\ client # None => client' # None
           /\ \/ pc'[r] = next /\ client' # None
              \/ pc'[r] = "done"
           /\ \A q \in Routines \ {r} : pc'[q] = pc[q] /\ job'[q] = job[q]
<1> DEFINE w == job[r].watcher
           c == Resolved(w)
<1>1. job[r] \in Jobs /\ w \in Watchers
  BY JobUpdates DEF WTypeOK
<1>2. c \in known \cup {Default}
  BY <1>1, ResolvedContext
<1>3. known \subseteq Contexts /\ Default \notin Contexts /\ None \notin Contexts \cup {Default}
  BY WatchAssumption DEF WTypeOK
<1>4. context' = [context EXCEPT ![w] = c]
  BY DEF SwitchTo
<1>5. UNCHANGED <<known, world, phase, resources, overlapped, informers, running, sent>>
  BY DEF SwitchTo, Rest
<1>6. \/ /\ c # Default
         /\ client' = c
         /\ job' = [job EXCEPT ![r].want = c]
         /\ moved' = (moved \ {r}) \cup Disturbs(c)
         /\ Go(r, next)
      \/ End(r) /\ UNCHANGED <<client, moved>>
  BY Zenon DEF SwitchTo
<1> HIDE DEF w, c
<1>7. context' \in [Watchers -> known \cup {Default}]
  BY <1>1, <1>2, <1>4 DEF InHand
<1>8. ASSUME c # Default, client' = c, job' = [job EXCEPT ![r].want = c],
             moved' = (moved \ {r}) \cup Disturbs(c), Go(r, next)
      PROVE  /\ job' \in [Routines -> Jobs \cup {Nothing}]
             /\ pc' \in [Routines -> PCs]
             /\ \A q \in Routines : pc'[q] # "free" => job'[q] \in Jobs
             /\ client' \in known \cup {None} /\ client' # None /\ moved' \subseteq Routines
             /\ pc'[r] = next
             /\ \A q \in Routines \ {r} : pc'[q] = pc[q] /\ job'[q] = job[q]
  <2>1. [job[r] EXCEPT !.want = c] \in Jobs
    BY <1>1, <1>2, <1>3, <1>8, JobUpdates
  <2>2. job' = [job EXCEPT ![r] = [job[r] EXCEPT !.want = c]]
    BY <1>8
  <2>3. /\ job' \in [Routines -> Jobs \cup {Nothing}]
        /\ \A q \in Routines \ {r} : job'[q] = job[q]
        /\ job'[r] \in Jobs
    BY <2>1, <2>2 DEF WTypeOK
  <2>4. /\ pc' \in [Routines -> PCs]
        /\ pc'[r] = next
        /\ \A q \in Routines \ {r} : pc'[q] = pc[q]
    BY <1>8 DEF Go, WTypeOK
  <2>5. moved' \subseteq Routines
    BY <1>8 DEF Disturbs, WTypeOK
  <2> QED
    BY <2>3, <2>4, <2>5, <1>2, <1>3, <1>8 DEF WTypeOK
<1>9. ASSUME End(r), UNCHANGED <<client, moved>>
      PROVE  /\ job' \in [Routines -> Jobs \cup {Nothing}]
             /\ pc' \in [Routines -> PCs]
             /\ \A q \in Routines : pc'[q] # "free" => job'[q] \in Jobs
             /\ pc'[r] = "done"
             /\ \A q \in Routines \ {r} : pc'[q] = pc[q] /\ job'[q] = job[q]
  <2>1. [job[r] EXCEPT !.want = None, !.held = None, !.got = None] \in Jobs
    BY <1>1, JobUpdates
  <2>2. job' = [job EXCEPT ![r] = [job[r] EXCEPT !.want = None, !.held = None, !.got = None]]
    BY <1>9 DEF End, WTypeOK
  <2>3. /\ job' \in [Routines -> Jobs \cup {Nothing}]
        /\ \A q \in Routines \ {r} : job'[q] = job[q]
        /\ job'[r] \in Jobs
    BY <2>1, <2>2 DEF WTypeOK
  <2>4. /\ pc' \in [Routines -> PCs]
        /\ pc'[r] = "done"
        /\ \A q \in Routines \ {r} : pc'[q] = pc[q]
    BY <1>9 DEF End, WTypeOK, PCs
  <2> QED
    BY <2>3, <2>4 DEF WTypeOK
<1>10. WTypeOK'
  <2>1. context' \in [Watchers -> Contexts \cup {Default}]
    BY <1>3, <1>7
  <2>2. CASE End(r) /\ UNCHANGED <<client, moved>>
    BY <1>5, <1>9, <2>1, <2>2 DEF WTypeOK
  <2>3. CASE ~(End(r) /\ UNCHANGED <<client, moved>>)
    BY <1>3, <1>5, <1>6, <1>8, <2>1, <2>3 DEF WTypeOK
  <2> QED
    BY <2>2, <2>3
<1> QED
  BY <1>6, <1>7, <1>8, <1>9, <1>10 DEF InHand

\* What a websocket does keeps the types; a new goroutine has nothing yet.
LEMMA SocketTypes ==
    ASSUME WTypeOK, InHand, Numbered, NEW w \in Watchers,
           \/ \E c \in known \cup {Default} : Connect(w, c)
           \/ \E k \in Keys : SubscribeOne(w, k) \/ Unsubscribe(w, k)
           \/ \E list \in SUBSET Keys : SubscribeList(w, list)
           \/ \E c \in known : ChangeContext(w, c)
           \/ Disconnect(w)
    PROVE  WTypeOK' /\ InHand'
<1>1. ASSUME NEW c \in known \cup {Default}, Connect(w, c)
      PROVE  WTypeOK' /\ InHand'
  BY <1>1, WatchAssumption DEF Connect, WTypeOK, InHand, Phases
<1>2. ASSUME NEW keys \in SUBSET Keys, Receive(w), Start(w, keys),
             resources' \in [Watchers -> SUBSET Keys], UNCHANGED context
      PROVE  WTypeOK' /\ InHand'
  <2>1. /\ pc' \in [Routines -> PCs] /\ job' \in [Routines -> Jobs \cup {Nothing}]
        /\ \A r \in Routines :
              \/ pc[r] = "free" /\ pc'[r] = "context" /\ job'[r] \in Jobs
              \/ pc'[r] = pc[r] /\ job'[r] = job[r]
    BY <1>2, Started
  <2>2. overlapped' \subseteq Watchers \X Keys
    <3>1. \A k \in keys : <<w, k>> \in Watchers \X Keys
      OBVIOUS
    <3> QED
      BY <1>2, <3>1, Started DEF WTypeOK
  <2>3. \A r \in Routines : pc'[r] # "free" => job'[r] \in Jobs
    BY <2>1 DEF WTypeOK
  <2>4. UNCHANGED <<known, world, client, phase, informers, running, sent, moved, context>>
    BY <1>2 DEF Receive
  <2>5. WTypeOK'
    BY <1>2, <2>1, <2>2, <2>3, <2>4 DEF WTypeOK
  <2> QED
    BY <2>1, <2>4, <2>5 DEF InHand
<1>3. ASSUME NEW k \in Keys, SubscribeOne(w, k) PROVE WTypeOK' /\ InHand'
  <2>1. CASE k \in resources[w]
    BY <1>3, <2>1 DEF SubscribeOne, Receive, WTypeOK, InHand
  <2>2. CASE k \notin resources[w]
    <3>1. resources' \in [Watchers -> SUBSET Keys]
      BY <1>3, <2>2 DEF SubscribeOne, WTypeOK
    <3> QED
      BY <1>2, <1>3, <2>2, <3>1 DEF SubscribeOne
  <2> QED
    BY <2>1, <2>2
<1>4. ASSUME NEW k \in Keys, Unsubscribe(w, k) PROVE WTypeOK' /\ InHand'
  BY <1>4 DEF Unsubscribe, Receive, WTypeOK, InHand
<1>5. ASSUME NEW list \in SUBSET Keys, SubscribeList(w, list) PROVE WTypeOK' /\ InHand'
  <2>1. resources' \in [Watchers -> SUBSET Keys]
    BY <1>5 DEF SubscribeList, WTypeOK
  <2> QED
    BY <1>2, <1>5, <2>1 DEF SubscribeList
<1>6. ASSUME NEW c \in known, ChangeContext(w, c) PROVE WTypeOK' /\ InHand'
  BY <1>6, WatchAssumption DEF ChangeContext, Receive, WTypeOK, InHand
<1>7. CASE Disconnect(w)
  BY <1>7 DEF Disconnect, WTypeOK, InHand, Phases
<1> QED
  BY <1>1, <1>3, <1>4, <1>5, <1>6, <1>7

\* A message sent is a state, or nothing is sent.
LEMMA SendType ==
    ASSUME WTypeOK, NEW w \in Watchers, NEW k \in Keys, NEW s \in States, Send(w, k, s)
    PROVE  sent' \in [Watchers -> [Keys -> States \cup {None}]]
<1>1. [sent[w] EXCEPT ![k] = s] \in [Keys -> States \cup {None}]
  BY DEF WTypeOK
<1>2. sent' = sent \/ sent' = [sent EXCEPT ![w] = [sent[w] EXCEPT ![k] = s]]
  BY DEF Send, WTypeOK
<1> QED
  BY <1>1, <1>2 DEF WTypeOK

\* The end of goroutine r, or its next step with the same context in mind.
LEMMA RoutineMoves ==
    ASSUME WTypeOK, NEW r \in Routines, pc[r] # "free", NEW label \in PCs \ {"free"},
           \/ End(r)
           \/ Go(r, label) /\ UNCHANGED job
           \/ Go(r, label) /\ \E c \in known \cup {None} : job' = [job EXCEPT ![r].held = c]
           \/ Go(r, label) /\ \E x \in States : job' = [job EXCEPT ![r].got = x]
    PROVE  /\ pc' \in [Routines -> PCs] /\ job' \in [Routines -> Jobs \cup {Nothing}]
           /\ \A q \in Routines : pc'[q] # "free" => job'[q] \in Jobs
           /\ pc'[r] \in {"done", label}
           /\ \A q \in Routines \ {r} : pc'[q] = pc[q] /\ job'[q] = job[q]
<1>1. job[r] \in Jobs /\ known \subseteq Contexts
  BY DEF WTypeOK
<1>2. /\ pc' \in [Routines -> PCs] /\ pc'[r] \in {"done", label}
      /\ \A q \in Routines \ {r} : pc'[q] = pc[q]
  BY DEF End, Go, WTypeOK, PCs
<1>3. \E j \in Jobs : job' = [job EXCEPT ![r] = j]
  <2>1. CASE End(r)
    <3>1. job' = [job EXCEPT ![r] = [job[r] EXCEPT !.want = None, !.held = None, !.got = None]]
      BY <2>1 DEF End, WTypeOK
    <3> QED
      BY <1>1, <3>1, JobUpdates
  <2>2. CASE UNCHANGED job
    BY <1>1, <2>2 DEF WTypeOK
  <2>3. ASSUME NEW c \in known \cup {None}, job' = [job EXCEPT ![r].held = c]
        PROVE  \E j \in Jobs : job' = [job EXCEPT ![r] = j]
    <3>1. [job[r] EXCEPT !.held = c] \in Jobs
      BY <1>1, JobUpdates
    <3> QED
      BY <2>3, <3>1 DEF WTypeOK
  <2>4. ASSUME NEW x \in States, job' = [job EXCEPT ![r].got = x]
        PROVE  \E j \in Jobs : job' = [job EXCEPT ![r] = j]
    <3>1. [job[r] EXCEPT !.got = x] \in Jobs
      BY <1>1, JobUpdates
    <3> QED
      BY <2>4, <3>1 DEF WTypeOK
  <2> QED
    BY <2>1, <2>2, <2>3, <2>4
<1> QED
  BY <1>2, <1>3 DEF WTypeOK

\* A step of a goroutine keeps the types, and so what everyone has in hand.
LEMMA RoutineTypes ==
    ASSUME WTypeOK, InHand, NEW r \in Routines, Step(r)
    PROVE  WTypeOK' /\ InHand'
<1> DEFINE w == job[r].watcher
<1>1. CASE UseContext(r)
  <2>1. pc[r] = "context" /\ SwitchTo(r, "config")
    BY <1>1 DEF UseContext, At
  <2>2. /\ WTypeOK' /\ context' \in [Watchers -> known \cup {Default}]
        /\ client' \in known \cup {None}
        /\ client # None => client' # None
        /\ (pc'[r] = "config" /\ client' # None) \/ pc'[r] = "done"
        /\ \A q \in Routines \ {r} : pc'[q] = pc[q] /\ job'[q] = job[q]
    BY <2>1, SwitchTypes DEF PCs
  <2>3. UNCHANGED <<known, running>>
    BY <2>1 DEF SwitchTo, Rest
  <2> QED
    BY <2>1, <2>2, <2>3 DEF InHand
<1>2. CASE UseContextAgain(r)
  <2>1. pc[r] = "recontext" /\ SwitchTo(r, "reconfig")
    BY <1>2 DEF UseContextAgain, At
  <2>2. /\ WTypeOK' /\ context' \in [Watchers -> known \cup {Default}]
        /\ client' \in known \cup {None}
        /\ client # None => client' # None
        /\ (pc'[r] = "reconfig" /\ client' # None) \/ pc'[r] = "done"
        /\ \A q \in Routines \ {r} : pc'[q] = pc[q] /\ job'[q] = job[q]
    BY <2>1, SwitchTypes DEF PCs
  <2>3. UNCHANGED <<known, running>>
    BY <2>1 DEF SwitchTo, Rest
  <2> QED
    BY <2>1, <2>2, <2>3 DEF InHand
<1>3. ASSUME NEW label \in PCs \ {"free"}, pc[r] # "free",
             \/ End(r)
             \/ Go(r, label) /\ UNCHANGED job
             \/ Go(r, label) /\ \E c \in known \cup {None} : job' = [job EXCEPT ![r].held = c]
             \/ Go(r, label) /\ \E x \in States : job' = [job EXCEPT ![r].got = x],
             UNCHANGED <<client, context, moved>>, Rest,
             informers' \in [Watchers -> SUBSET Keys],
             running' \in [Routines -> Informers \cup {None}],
             sent' \in [Watchers -> [Keys -> States \cup {None}]]
      PROVE  /\ WTypeOK' /\ UNCHANGED <<client, context, known>> /\ pc'[r] \in {"done", label}
             /\ \A q \in Routines \ {r} : pc'[q] = pc[q] /\ job'[q] = job[q]
  <2>1. /\ pc' \in [Routines -> PCs] /\ job' \in [Routines -> Jobs \cup {Nothing}]
        /\ \A q \in Routines : pc'[q] # "free" => job'[q] \in Jobs
        /\ pc'[r] \in {"done", label}
        /\ \A q \in Routines \ {r} : pc'[q] = pc[q] /\ job'[q] = job[q]
    BY <1>3, RoutineMoves
  <2>2. WTypeOK'
    BY <1>3, <2>1 DEF WTypeOK, Rest
  <2> QED
    BY <1>3, <2>1, <2>2 DEF Rest
<1>4. CASE TakeConfig(r)
  <2>1. UNCHANGED <<client, context, informers, running, sent, moved>> /\ Rest /\ pc[r] = "config"
    BY <1>4 DEF TakeConfig, At
  <2>2. /\ \/ End(r)
           \/ Go(r, "lookup") /\ \E c \in known \cup {None} : job' = [job EXCEPT ![r].held = c]
    BY <1>4 DEF TakeConfig, InHand
  <2>3. /\ WTypeOK' /\ UNCHANGED <<client, context, known>> /\ pc'[r] \in {"done", "lookup"}
        /\ \A q \in Routines \ {r} : pc'[q] = pc[q] /\ job'[q] = job[q]
    <3>1. /\ informers' \in [Watchers -> SUBSET Keys]
          /\ running' \in [Routines -> Informers \cup {None}]
          /\ sent' \in [Watchers -> [Keys -> States \cup {None}]]
      BY <2>1 DEF WTypeOK
    <3>2. "lookup" \in PCs \ {"free"} /\ pc[r] # "free" /\ UNCHANGED <<client, context, moved>>
      BY <2>1 DEF PCs
    <3> QED
      BY <1>3, <2>1, <2>2, <3>1, <3>2
  <2>4. pc'[r] = "lookup" => job'[r].held \in known
    <3>1. CASE End(r)
      BY <3>1 DEF End, WTypeOK
    <3>2. CASE job' = [job EXCEPT ![r].held = client]
      <4>1. job'[r].held = client
        BY <3>2, <2>1 DEF WTypeOK, Jobs
      <4> QED
        BY <2>1, <4>1 DEF InHand
    <3> QED
      BY <1>4, <3>1, <3>2 DEF TakeConfig
  <2> QED
    BY <2>1, <2>3, <2>4 DEF InHand
<1>5. CASE LookUp(r)
  <2> DEFINE label == IF job[r].key \in informers[w] THEN "recontext" ELSE "create"
  <2>1. UNCHANGED <<client, context, informers, job, running, sent, moved>> /\ Rest /\ pc[r] = "lookup"
    BY <1>5 DEF LookUp, At
  <2>2. Go(r, label) /\ label \in PCs \ {"free"}
    BY <1>5 DEF LookUp, PCs
  <2>3. /\ WTypeOK' /\ UNCHANGED <<client, context, known>> /\ pc'[r] \in {"done", label}
        /\ \A q \in Routines \ {r} : pc'[q] = pc[q] /\ job'[q] = job[q]
    BY <1>3, <2>1, <2>2 DEF WTypeOK
  <2> QED
    BY <2>1, <2>3 DEF InHand
<1>6. CASE Create(r)
  <2>1. /\ UNCHANGED <<client, context, job, sent, moved>> /\ Rest /\ pc[r] = "create"
        /\ Go(r, "recontext") /\ job[r] \in Jobs
        /\ informers' = [informers EXCEPT ![w] = @ \cup {job[r].key}]
        /\ running' = [running EXCEPT ![r] = [source |-> job[r].held, seen |-> None]]
    BY <1>6 DEF Create, At, WTypeOK
  <2>2. job[r].held \in known /\ known \subseteq Contexts /\ w \in Watchers /\ job[r].key \in Keys
    BY <2>1, JobUpdates DEF InHand, WTypeOK
  <2>3. [source |-> job[r].held, seen |-> None] \in Informers
    BY <2>2 DEF Informers
  <2> HIDE DEF w
  <2>4. /\ informers' \in [Watchers -> SUBSET Keys]
        /\ running' \in [Routines -> Informers \cup {None}]
    BY <2>1, <2>2, <2>3 DEF WTypeOK
  <2>5. /\ WTypeOK' /\ UNCHANGED <<client, context, known>> /\ pc'[r] \in {"done", "recontext"}
        /\ \A q \in Routines \ {r} : pc'[q] = pc[q] /\ job'[q] = job[q]
    <3>1. sent' \in [Watchers -> [Keys -> States \cup {None}]]
      BY <2>1 DEF WTypeOK
    <3>2. "recontext" \in PCs \ {"free"} /\ pc[r] # "free" /\ UNCHANGED <<client, context, moved>>
      BY <2>1 DEF PCs
    <3> QED
      BY <1>3, <2>1, <2>4, <3>1, <3>2
  <2>6. running'[r].source \in known /\ \A q \in Routines \ {r} : running'[q] = running[q]
    BY <2>1, <2>2 DEF WTypeOK
  <2> QED
    BY <2>1, <2>5, <2>6 DEF InHand
<1>7. CASE TakeConfigAgain(r)
  <2>1. /\ UNCHANGED <<client, context, informers, running, sent, moved>> /\ Rest /\ pc[r] = "reconfig"
        /\ Go(r, "get") /\ job' = [job EXCEPT ![r].held = client] /\ client \in known
    BY <1>7 DEF TakeConfigAgain, At, InHand
  <2>2. /\ WTypeOK' /\ UNCHANGED <<client, context, known>> /\ pc'[r] \in {"done", "get"}
        /\ \A q \in Routines \ {r} : pc'[q] = pc[q] /\ job'[q] = job[q]
    <3>1. /\ informers' \in [Watchers -> SUBSET Keys]
          /\ running' \in [Routines -> Informers \cup {None}]
          /\ sent' \in [Watchers -> [Keys -> States \cup {None}]]
      BY <2>1 DEF WTypeOK
    <3>2. "get" \in PCs \ {"free"} /\ pc[r] # "free" /\ UNCHANGED <<client, context, moved>>
      BY <2>1 DEF PCs
    <3> QED
      BY <1>3, <2>1, <3>1, <3>2
  <2>3. job'[r].held = client
    BY <2>1 DEF WTypeOK, Jobs
  <2> QED
    BY <2>1, <2>2, <2>3 DEF InHand
<1>8. CASE Get(r)
  <2> DEFINE x == world[job[r].held][job[r].key]
  <2>1. /\ UNCHANGED <<client, context, informers, running, sent, moved>> /\ Rest /\ pc[r] = "get"
        /\ \/ Go(r, "send") /\ job' = [job EXCEPT ![r].got = x]
           \/ End(r)
    BY <1>8 DEF Get, At
  <2>2. x \in States
    BY <2>1, JobUpdates DEF InHand, WTypeOK
  <2> HIDE DEF x
  <2>3. /\ WTypeOK' /\ UNCHANGED <<client, context, known>> /\ pc'[r] \in {"done", "send"}
        /\ \A q \in Routines \ {r} : pc'[q] = pc[q] /\ job'[q] = job[q]
    BY <1>3, <2>1, <2>2 DEF PCs, WTypeOK
  <2>4. pc'[r] = "send" => job'[r].got \in States
    <3>1. CASE End(r)
      BY <3>1 DEF End, WTypeOK
    <3>2. CASE job' = [job EXCEPT ![r].got = x]
      BY <2>1, <2>2, <3>2 DEF WTypeOK, Jobs
    <3> QED
      BY <2>1, <3>1, <3>2
  <2> QED
    BY <2>1, <2>3, <2>4 DEF InHand
<1>9. CASE SendState(r)
  <2>1. /\ UNCHANGED <<client, context, informers, running, moved>> /\ Rest /\ pc[r] = "send"
        /\ End(r) /\ Send(w, job[r].key, job[r].got)
    BY <1>9 DEF SendState, At
  <2>2. sent' \in [Watchers -> [Keys -> States \cup {None}]]
    BY <2>1, JobUpdates, SendType DEF InHand, WTypeOK
  <2>3. /\ WTypeOK' /\ UNCHANGED <<client, context, known>> /\ pc'[r] \in {"done", "send"}
        /\ \A q \in Routines \ {r} : pc'[q] = pc[q] /\ job'[q] = job[q]
    BY <1>3, <2>1, <2>2 DEF PCs, WTypeOK
  <2>4. pc'[r] = "done"
    BY <2>1 DEF End, WTypeOK
  <2> QED
    BY <2>1, <2>3, <2>4 DEF InHand
<1> QED
  BY <1>1, <1>2, <1>4, <1>5, <1>6, <1>7, <1>8, <1>9 DEF Step

\* What an informer observes, sends again or ends with keeps the types.
LEMMA InformerTypes ==
    ASSUME WTypeOK, InHand, NEW r \in Routines, Observe(r) \/ Resync(r) \/ Stop(r)
    PROVE  WTypeOK' /\ InHand'
<1> DEFINE w == job[r].watcher
           k == job[r].key
           now == world[running[r].source][k]
<1>1. running[r] # None /\ UNCHANGED <<client, context, pc, job, moved>> /\ Rest
  BY DEF Observe, Resync, Stop, Idle
<1>2. /\ job[r] \in Jobs /\ w \in Watchers /\ k \in Keys
      /\ running[r] \in Informers /\ running[r].source \in known
  BY <1>1, JobUpdates DEF WTypeOK, InHand
<1>3. now \in States
  BY <1>2 DEF WTypeOK
<1> HIDE DEF w, k, now
<1>4. ASSUME informers' \in [Watchers -> SUBSET Keys],
             sent' \in [Watchers -> [Keys -> States \cup {None}]],
             running' \in [Routines -> Informers \cup {None}],
             \A q \in Routines : running'[q] # None => running[q] # None /\ running'[q].source = running[q].source
      PROVE  WTypeOK' /\ InHand'
  <2>1. WTypeOK'
    BY <1>1, <1>4 DEF WTypeOK, Rest
  <2> QED
    BY <1>1, <1>4, <2>1 DEF InHand, Rest
<1>5. CASE Observe(r)
  <2>1. /\ running' = [running EXCEPT ![r].seen = now] /\ UNCHANGED informers
        /\ Send(w, k, now) \/ UNCHANGED sent
    BY <1>5 DEF Observe, now, k, w
  <2>2. [running[r] EXCEPT !.seen = now] \in Informers
    BY <1>2, <1>3 DEF Informers
  <2>3. running' = [running EXCEPT ![r] = [running[r] EXCEPT !.seen = now]]
    BY <2>1
  <2>4. /\ running' \in [Routines -> Informers \cup {None}]
        /\ \A q \in Routines : running'[q] # None => running[q] # None /\ running'[q].source = running[q].source
    BY <1>1, <1>2, <2>2, <2>3 DEF WTypeOK, Informers
  <2>5. sent' \in [Watchers -> [Keys -> States \cup {None}]]
    BY <1>2, <1>3, <2>1, SendType DEF WTypeOK
  <2> QED
    BY <1>4, <2>1, <2>4, <2>5 DEF WTypeOK
<1>6. CASE Resync(r)
  <2>1. /\ running[r].seen # None /\ Send(w, k, running[r].seen) /\ UNCHANGED <<informers, running>>
    BY <1>6 DEF Resync, k, w
  <2>2. running[r].seen \in States
    BY <1>2, <2>1 DEF Informers
  <2>3. sent' \in [Watchers -> [Keys -> States \cup {None}]]
    BY <1>2, <2>1, <2>2, SendType
  <2> QED
    BY <1>4, <2>1, <2>3 DEF WTypeOK
<1>7. CASE Stop(r)
  <2>1. /\ informers' = [informers EXCEPT ![w] = @ \ {k}]
        /\ running' = [running EXCEPT ![r] = None] /\ UNCHANGED sent
    BY <1>7 DEF Stop, k, w
  <2>2. /\ informers' \in [Watchers -> SUBSET Keys]
        /\ running' \in [Routines -> Informers \cup {None}]
        /\ \A q \in Routines : running'[q] # None => running[q] # None /\ running'[q].source = running[q].source
    BY <1>2, <2>1 DEF WTypeOK
  <2> QED
    BY <1>4, <2>1, <2>2 DEF WTypeOK
<1> QED
  BY <1>5, <1>6, <1>7

LEMMA OutsideTypes ==
    ASSUME WTypeOK, InHand, NEW c \in known,
           SwitchClient(c) \/ \E k \in Keys : Change(c, k)
    PROVE  WTypeOK' /\ InHand'
<1>1. CASE SwitchClient(c)
  BY <1>1, WatchAssumption DEF SwitchClient, sockets, Disturbs, WTypeOK, InHand
<1>2. ASSUME NEW k \in Keys, Change(c, k) PROVE WTypeOK' /\ InHand'
  <2>1. PICK s \in States : world' = [world EXCEPT ![c][k] = s]
    <3>1. PICK alive \in BOOLEAN, rev \in 1..MaxRev :
             world' = [world EXCEPT ![c][k] = [rev |-> rev, alive |-> alive]]
      BY <1>2 DEF Change
    <3>2. [rev |-> rev, alive |-> alive] \in States
      BY WatchAssumption DEF States
    <3> QED
      BY <3>1, <3>2
  <2>2. [world[c] EXCEPT ![k] = s] \in [Keys -> States]
    BY <2>1 DEF WTypeOK
  <2>3. world' \in [known -> [Keys -> States]]
    BY <2>1, <2>2 DEF WTypeOK
  <2>4. UNCHANGED <<known, client, sockets, informers, pc, job, running, sent, moved, overlapped>>
    BY <1>2 DEF Change
  <2> QED
    BY <2>3, <2>4 DEF WTypeOK, InHand, sockets
<1> QED
  BY <1>1, <1>2

\* A goroutine that has its number keeps it.
LEMMA NumberedStep ==
    ASSUME WTypeOK, Numbered, [Next]_vars
    PROVE  Numbered'
<1>1. ASSUME \A r \in Routines : pc'[r] = "free" <=> pc[r] = "free"
      PROVE  Numbered'
  BY <1>1 DEF Numbered
<1>2. ASSUME NEW w \in Watchers,
             \/ \E c \in known \cup {Default} : Connect(w, c)
             \/ \E k \in Keys : SubscribeOne(w, k) \/ Unsubscribe(w, k)
             \/ \E list \in SUBSET Keys : SubscribeList(w, list)
             \/ \E c \in known : ChangeContext(w, c)
             \/ Disconnect(w)
      PROVE  Numbered'
  <2>1. \/ UNCHANGED pc
        \/ \E keys \in SUBSET Keys : Start(w, keys)
    <3>1. ASSUME NEW k \in Keys, SubscribeOne(w, k)
          PROVE  UNCHANGED pc \/ Start(w, {k})
      BY <3>1 DEF SubscribeOne
    <3>2. ASSUME NEW list \in SUBSET Keys, SubscribeList(w, list)
          PROVE  Start(w, list \ informers[w])
      BY <3>2 DEF SubscribeList
    <3>3. ASSUME \/ \E c \in known \cup {Default} : Connect(w, c)
                 \/ \E k \in Keys : Unsubscribe(w, k)
                 \/ \E c \in known : ChangeContext(w, c)
                 \/ Disconnect(w)
          PROVE  UNCHANGED pc
      BY <3>3 DEF Connect, Unsubscribe, ChangeContext, Disconnect
    <3> QED
      BY <1>2, <3>1, <3>2, <3>3
  <2> QED
    BY <1>1, <2>1, Started
<1>3. ASSUME NEW r \in Routines, Step(r) PROVE Numbered'
  BY <1>1, <1>3 DEF Step, UseContext, TakeConfig, LookUp, Create, UseContextAgain,
     TakeConfigAgain, Get, SendState, SwitchTo, At, Go, End, WTypeOK
<1>4. ASSUME UNCHANGED pc PROVE Numbered'
  BY <1>1, <1>4
<1>5. ASSUME NEW r \in Routines, Observe(r) \/ Resync(r) \/ Stop(r) PROVE UNCHANGED pc
  BY <1>5 DEF Observe, Resync, Stop, Idle
<1>6. ASSUME NEW c \in known, SwitchClient(c) \/ \E k \in Keys : Change(c, k) PROVE UNCHANGED pc
  BY <1>6 DEF SwitchClient, Change
<1> QED
  BY <1>2, <1>3, <1>4, <1>5, <1>6 DEF Next, vars

LEMMA WatchTypeStep ==
    ASSUME WTypeOK, InHand, Numbered, [Next]_vars
    PROVE  WTypeOK' /\ InHand' /\ Numbered'
<1>1. CASE UNCHANGED vars
  BY <1>1 DEF vars, sockets, WTypeOK, InHand, Numbered
<1>2. CASE Next
  BY <1>2, SocketTypes, RoutineTypes, InformerTypes, OutsideTypes, NumberedStep DEF Next
<1> QED
  BY <1>1, <1>2

LEMMA WatchTypeInit == Init => WTypeOK /\ InHand /\ Numbered
<1> SUFFICES ASSUME Init PROVE WTypeOK /\ InHand /\ Numbered
  OBVIOUS
<1>1. WTypeOK
  BY DEF Init, WTypeOK, Phases, PCs
<1>2. InHand
  BY DEF Init, InHand
<1>3. {r \in Routines : pc[r] # "free"} = 1..0
  BY DEF Init
<1> QED
  BY <1>1, <1>2, <1>3 DEF Numbered

\* The types, for watchSingleResource, updateResource and startInformer at any
\* number of goroutines and sockets: in particular a goroutine that reads a
\* resource has a client, and one that sends has read something.
THEOREM WatchTypeCorrect == Spec => [](WTypeOK /\ InHand /\ Numbered)
<1>1. (WTypeOK /\ InHand /\ Numbered) /\ [Next]_vars => (WTypeOK /\ InHand /\ Numbered)'
  BY WatchTypeStep
<1> QED
  BY <1>1, WatchTypeInit, PTL DEF Spec

----------------------------------------------------------------------------
(* Which cluster an informer reads.                                         *)

\* A goroutine whose client nobody moved has it on the context it set, from
\* SetContext to the taking of the client and on.
HeldContext ==
    \A r \in Routines : r \notin moved =>
        /\ pc[r] \in {"config", "reconfig"} => job[r].want = client
        /\ pc[r] \in {"lookup", "create", "recontext"} => job[r].held = job[r].want

LEMMA HeldBySwitch ==
    ASSUME WTypeOK, HeldContext, NEW r \in Routines, NEW next \in {"config", "reconfig"},
           pc[r] \in {"context", "recontext"}, SwitchTo(r, next)
    PROVE  HeldContext'
<1> DEFINE c == Resolved(job[r].watcher)
<1>1. \/ /\ client' = c
         /\ job' = [job EXCEPT ![r].want = c]
         /\ moved' = (moved \ {r}) \cup Disturbs(c)
         /\ Go(r, next)
      \/ End(r) /\ UNCHANGED <<client, moved>>
  BY Zenon DEF SwitchTo
<1> HIDE DEF c
<1>2. CASE End(r) /\ UNCHANGED <<client, moved>>
  <2>1. /\ pc'[r] = "done"
        /\ \A q \in Routines \ {r} : pc'[q] = pc[q] /\ job'[q] = job[q]
    BY <1>2 DEF End, WTypeOK
  <2> QED
    BY <1>2, <2>1 DEF HeldContext
<1>3. ASSUME client' = c, job' = [job EXCEPT ![r].want = c],
             moved' = (moved \ {r}) \cup Disturbs(c), Go(r, next)
      PROVE  HeldContext'
  <2>1. job[r] \in Jobs
    BY DEF WTypeOK
  <2>2. job'[r].want = c
    BY <1>3, <2>1 DEF WTypeOK, Jobs
  <2>3. /\ pc'[r] = next
        /\ \A q \in Routines \ {r} : pc'[q] = pc[q] /\ job'[q] = job[q]
    BY <1>3 DEF Go, WTypeOK
  <2>4. ASSUME NEW q \in Routines \ {r}, q \notin moved'
        PROVE  /\ pc[q] \in {"config", "reconfig"} => job[q].want = client'
               /\ pc[q] \in {"lookup", "create", "recontext"} => job[q].held = job[q].want
    BY <1>3, <2>4 DEF HeldContext, Disturbs
  <2> QED
    BY <1>3, <2>2, <2>3, <2>4 DEF HeldContext
<1> QED
  BY <1>1, <1>2, <1>3

LEMMA HeldStep ==
    ASSUME WTypeOK, Numbered, HeldContext, [Next]_vars
    PROVE  HeldContext'
<1>1. ASSUME NEW w \in Watchers,
             \/ \E c \in known \cup {Default} : Connect(w, c)
             \/ \E k \in Keys : SubscribeOne(w, k) \/ Unsubscribe(w, k)
             \/ \E list \in SUBSET Keys : SubscribeList(w, list)
             \/ \E c \in known : ChangeContext(w, c)
             \/ Disconnect(w)
      PROVE  HeldContext'
  <2>1. UNCHANGED <<client, moved>>
    BY <1>1 DEF Connect, SubscribeOne, Unsubscribe, SubscribeList, ChangeContext, Disconnect, Receive
  <2>2. UNCHANGED <<pc, job>> \/ \E keys \in SUBSET Keys : Start(w, keys)
    <3>1. ASSUME NEW k \in Keys, SubscribeOne(w, k)
          PROVE  UNCHANGED <<pc, job>> \/ Start(w, {k})
      BY <3>1 DEF SubscribeOne
    <3>2. ASSUME NEW list \in SUBSET Keys, SubscribeList(w, list)
          PROVE  Start(w, list \ informers[w])
      BY <3>2 DEF SubscribeList
    <3>3. ASSUME \/ \E c \in known \cup {Default} : Connect(w, c)
                 \/ \E k \in Keys : Unsubscribe(w, k)
                 \/ \E c \in known : ChangeContext(w, c)
                 \/ Disconnect(w)
          PROVE  UNCHANGED <<pc, job>>
      BY <3>3 DEF Connect, Unsubscribe, ChangeContext, Disconnect
    <3> QED
      BY <1>1, <3>1, <3>2, <3>3
  <2>3. \A r \in Routines : pc'[r] = "context" \/ (pc'[r] = pc[r] /\ job'[r] = job[r])
    BY <2>2, Started
  <2> QED
    BY <2>1, <2>3 DEF HeldContext
<1>2. ASSUME NEW r \in Routines, Step(r) PROVE HeldContext'
  <2>1. CASE UseContext(r) \/ UseContextAgain(r)
    BY <2>1, HeldBySwitch DEF UseContext, UseContextAgain, At
  <2>2. CASE TakeConfig(r) \/ TakeConfigAgain(r)
    <3>1. /\ UNCHANGED <<client, moved>> /\ pc[r] \in {"config", "reconfig"}
          /\ \/ End(r)
             \/ (Go(r, "lookup") \/ Go(r, "get")) /\ job' = [job EXCEPT ![r].held = client]
      BY Zenon, <2>2 DEF TakeConfig, TakeConfigAgain, At
    <3>2. job[r] \in Jobs
      BY <3>1 DEF WTypeOK
    <3>3. /\ pc'[r] \in {"done", "get"} \/ (pc'[r] = "lookup" /\ job'[r].held = client /\ job'[r].want = job[r].want)
          /\ \A q \in Routines \ {r} : pc'[q] = pc[q] /\ job'[q] = job[q]
      BY <3>1, <3>2 DEF Go, End, WTypeOK, Jobs
    <3> QED
      BY <3>1, <3>3 DEF HeldContext
  <2>3. CASE LookUp(r) \/ Create(r)
    BY <2>3 DEF LookUp, Create, At, Go, WTypeOK, HeldContext
  <2>4. CASE Get(r) \/ SendState(r)
    <3>1. /\ UNCHANGED <<client, moved>> /\ pc'[r] \in {"done", "send"}
          /\ \A q \in Routines \ {r} : pc'[q] = pc[q] /\ job'[q] = job[q]
      BY <2>4 DEF Get, SendState, Go, End, WTypeOK
    <3> QED
      BY <3>1 DEF HeldContext
  <2> QED
    BY <1>2, <2>1, <2>2, <2>3, <2>4 DEF Step
<1>3. ASSUME NEW r \in Routines, Observe(r) \/ Resync(r) \/ Stop(r) PROVE HeldContext'
  BY <1>3 DEF Observe, Resync, Stop, Idle, HeldContext
<1>4. ASSUME NEW c \in known, SwitchClient(c) PROVE HeldContext'
  BY <1>4 DEF SwitchClient, HeldContext, Disturbs
<1>5. ASSUME NEW c \in known, NEW k \in Keys, Change(c, k) PROVE HeldContext'
  BY <1>5 DEF Change, HeldContext
<1>6. CASE UNCHANGED vars
  BY <1>6 DEF vars, HeldContext
<1> QED
  BY <1>1, <1>2, <1>3, <1>4, <1>5, <1>6 DEF Next

\* watchSingleResource: an informer reads the cluster of the context that
\* its goroutine set, unless another request moved the shared client before the
\* goroutine took it, however many sockets, goroutines and contexts there are.
THEOREM OwnCluster == Spec => []ForeignInformerExplained
<1>1. Init => HeldContext
  BY DEF Init, HeldContext
<1>2. (WTypeOK /\ Numbered) /\ HeldContext /\ [Next]_vars => HeldContext'
  BY HeldStep
<1>3. HeldContext => ForeignInformerExplained
  BY DEF HeldContext, ForeignInformerExplained
<1> QED
  BY <1>1, <1>2, <1>3, WatchTypeCorrect, PTL DEF Spec

----------------------------------------------------------------------------
(* How many informers a socket has for a resource.                          *)

\* As long as no two subscriptions of a resource have overlapped, one goroutine
\* at most is on its way to Create, who is at Create has found no informer, a
\* running informer is on the map, and so there is one at most.
OneOnItsWay ==
    \A w \in Watchers, k \in Keys : <<w, k>> \notin overlapped =>
        \A q, r \in Routines :
           /\ Unstored(q, w, k) /\ Unstored(r, w, k) => q = r
           /\ Watching(q, w, k) /\ Watching(r, w, k) => q = r
           /\ Watching(r, w, k) => k \in informers[w]
           /\ Unstored(r, w, k) /\ pc[r] = "create" => k \notin informers[w]

\* Nothing else than a subscription, Create and Stop can disturb it.
LEMMA OneKept ==
    ASSUME WTypeOK, OneOnItsWay, UNCHANGED informers, overlapped \subseteq overlapped',
           \A q \in Routines :
              /\ running'[q] # None => running[q] # None
              /\ \A w \in Watchers, k \in Keys :
                    /\ Unstored(q, w, k)' =>
                          Unstored(q, w, k) /\ (pc'[q] = "create" => pc[q] = "create" \/ k \notin informers[w])
                    /\ Watching(q, w, k)' => Watching(q, w, k)
    PROVE  OneOnItsWay'
BY DEF OneOnItsWay

LEMMA OneBySubscription ==
    ASSUME WTypeOK, InHand, Numbered, OneOnItsWay, NEW w \in Watchers, NEW keys \in SUBSET Keys,
           Start(w, keys), UNCHANGED <<informers, running>>
    PROVE  OneOnItsWay'
<1>1. /\ \A r \in Routines :
            \/ /\ pc[r] = "free" /\ pc'[r] = "context"
               /\ job'[r] \in Jobs /\ job'[r].watcher = w /\ job'[r].key \in keys
            \/ pc'[r] = pc[r] /\ job'[r] = job[r]
      /\ \A q, r \in Routines :
            pc[q] = "free" /\ pc[r] = "free" /\ pc'[q] # "free" /\ pc'[r] # "free"
            /\ job'[q].key = job'[r].key => q = r
      /\ overlapped' = overlapped \cup
            {<<w, k>> : k \in {j \in keys : \E r \in Routines : Unstored(r, w, j)}}
  BY Started
<1> SUFFICES ASSUME NEW v \in Watchers, NEW k \in Keys, <<v, k>> \notin overlapped',
                    NEW q \in Routines, NEW r \in Routines
             PROVE  /\ Unstored(q, v, k)' /\ Unstored(r, v, k)' => q = r
                    /\ Watching(q, v, k)' /\ Watching(r, v, k)' => q = r
                    /\ Watching(r, v, k)' => k \in informers'[v]
                    /\ Unstored(r, v, k)' /\ pc'[r] = "create" => k \notin informers'[v]
  BY DEF OneOnItsWay
<1>2. /\ Unstored(q, v, k) /\ Unstored(r, v, k) => q = r
      /\ Watching(q, v, k) /\ Watching(r, v, k) => q = r
      /\ Watching(r, v, k) => k \in informers[v]
      /\ Unstored(r, v, k) /\ pc[r] = "create" => k \notin informers[v]
  BY <1>1 DEF OneOnItsWay
<1>3. \A p \in Routines : Watching(p, v, k)' => Watching(p, v, k)
  <2> SUFFICES ASSUME NEW p \in Routines, Watching(p, v, k)' PROVE Watching(p, v, k)
    OBVIOUS
  <2>1. pc[p] # "free"
    BY DEF Watching, InHand
  <2> QED
    BY <1>1, <2>1 DEF Watching
<1>4. v = w /\ k \in keys => \A p \in Routines : ~Unstored(p, v, k)
  BY <1>1
<1>5. \A p \in Routines : Unstored(p, v, k)' =>
         \/ Unstored(p, v, k) /\ pc'[p] = pc[p]
         \/ v = w /\ k \in keys /\ pc[p] = "free" /\ pc'[p] = "context" /\ job'[p].key = k
  BY <1>1 DEF Unstored, Working
<1>6. Unstored(q, v, k)' /\ Unstored(r, v, k)' => q = r
  BY <1>1, <1>2, <1>4, <1>5
<1> QED
  BY <1>2, <1>3, <1>5, <1>6

LEMMA OneByCreate ==
    ASSUME WTypeOK, InHand, OneOnItsWay, NEW r \in Routines, Create(r)
    PROVE  OneOnItsWay'
<1> DEFINE w == job[r].watcher
           k == job[r].key
<1>1. /\ pc[r] = "create" /\ w \in Watchers /\ k \in Keys
      /\ UNCHANGED <<job, overlapped>>
      /\ informers' = [informers EXCEPT ![w] = @ \cup {k}]
      /\ running' = [running EXCEPT ![r] = [source |-> job[r].held, seen |-> None]]
      /\ pc' = [pc EXCEPT ![r] = "recontext"]
  BY JobUpdates DEF Create, At, Go, Rest, WTypeOK
<1>2. Unstored(r, w, k)
  BY <1>1 DEF Unstored, Working
<1> SUFFICES ASSUME NEW v \in Watchers, NEW j \in Keys, <<v, j>> \notin overlapped',
                    NEW p \in Routines, NEW q \in Routines
             PROVE  /\ Unstored(p, v, j)' /\ Unstored(q, v, j)' => p = q
                    /\ Watching(p, v, j)' /\ Watching(q, v, j)' => p = q
                    /\ Watching(q, v, j)' => j \in informers'[v]
                    /\ Unstored(q, v, j)' /\ pc'[q] = "create" => j \notin informers'[v]
  BY DEF OneOnItsWay
<1>3. \A x, y \in Routines :
          /\ Unstored(x, v, j) /\ Unstored(y, v, j) => x = y
          /\ Watching(x, v, j) /\ Watching(y, v, j) => x = y
          /\ Watching(x, v, j) => j \in informers[v]
          /\ Unstored(x, v, j) /\ pc[x] = "create" => j \notin informers[v]
  BY <1>1 DEF OneOnItsWay
<1>4. \A x \in Routines : Unstored(x, v, j)' => Unstored(x, v, j) /\ x # r /\ pc'[x] = pc[x]
  BY <1>1 DEF Unstored, Working, WTypeOK
<1>5. \A x \in Routines : Watching(x, v, j)' => Watching(x, v, j) \/ (x = r /\ v = w /\ j = k)
  BY <1>1 DEF Watching, WTypeOK
<1>6. CASE v = w /\ j = k
  <2>1. j \notin informers[v] /\ \A x \in Routines : ~Watching(x, v, j)
    BY <1>1, <1>2, <1>3, <1>6
  <2>2. \A x \in Routines : Unstored(x, v, j) => x = r
    BY <1>2, <1>3, <1>6
  <2>3. j \in informers'[v]
    BY <1>1, <1>6 DEF WTypeOK
  <2> QED
    BY <1>4, <1>5, <2>1, <2>2, <2>3
<1>7. CASE ~(v = w /\ j = k)
  <2>1. j \in informers'[v] <=> j \in informers[v]
    BY <1>1, <1>7 DEF WTypeOK
  <2> QED
    BY <1>3, <1>4, <1>5, <1>7, <2>1
<1> QED
  BY <1>6, <1>7

LEMMA OneByStop ==
    ASSUME WTypeOK, InHand, OneOnItsWay, NEW r \in Routines, Stop(r)
    PROVE  OneOnItsWay'
<1> DEFINE w == job[r].watcher
           k == job[r].key
<1>1. /\ running[r] # None
      /\ UNCHANGED <<pc, job, overlapped>>
      /\ informers' = [informers EXCEPT ![w] = @ \ {k}]
      /\ running' = [running EXCEPT ![r] = None]
  BY DEF Stop, Idle, Rest
<1>2. w \in Watchers /\ k \in Keys
  BY <1>1, JobUpdates DEF WTypeOK, InHand
<1>3. Watching(r, w, k)
  BY <1>1 DEF Watching
<1> SUFFICES ASSUME NEW v \in Watchers, NEW j \in Keys, <<v, j>> \notin overlapped',
                    NEW p \in Routines, NEW q \in Routines
             PROVE  /\ Unstored(p, v, j)' /\ Unstored(q, v, j)' => p = q
                    /\ Watching(p, v, j)' /\ Watching(q, v, j)' => p = q
                    /\ Watching(q, v, j)' => j \in informers'[v]
                    /\ Unstored(q, v, j)' /\ pc'[q] = "create" => j \notin informers'[v]
  BY DEF OneOnItsWay
<1>4. \A x, y \in Routines :
          /\ Unstored(x, v, j) /\ Unstored(y, v, j) => x = y
          /\ Watching(x, v, j) /\ Watching(y, v, j) => x = y
          /\ Watching(x, v, j) => j \in informers[v]
          /\ Unstored(x, v, j) /\ pc[x] = "create" => j \notin informers[v]
  BY <1>1 DEF OneOnItsWay
<1>5. \A x \in Routines : Unstored(x, v, j)' <=> Unstored(x, v, j)
  BY <1>1 DEF Unstored, Working
<1>6. \A x \in Routines : Watching(x, v, j)' => Watching(x, v, j) /\ x # r
  BY <1>1 DEF Watching, WTypeOK
<1>7. CASE v = w /\ j = k
  BY <1>1, <1>2, <1>3, <1>4, <1>5, <1>6, <1>7 DEF WTypeOK
<1>8. CASE ~(v = w /\ j = k)
  <2>1. j \in informers'[v] <=> j \in informers[v]
    BY <1>1, <1>2, <1>8 DEF WTypeOK
  <2> QED
    BY <1>1, <1>4, <1>5, <1>6, <2>1
<1> QED
  BY <1>7, <1>8

LEMMA OneStep ==
    ASSUME WTypeOK, InHand, Numbered, OneOnItsWay, [Next]_vars
    PROVE  OneOnItsWay'
<1>1. ASSUME UNCHANGED <<informers, running, pc, job, overlapped>> PROVE OneOnItsWay'
  BY <1>1 DEF OneOnItsWay, Unstored, Working, Watching
<1>2. ASSUME NEW w \in Watchers,
             \/ \E c \in known \cup {Default} : Connect(w, c)
             \/ \E k \in Keys : SubscribeOne(w, k) \/ Unsubscribe(w, k)
             \/ \E list \in SUBSET Keys : SubscribeList(w, list)
             \/ \E c \in known : ChangeContext(w, c)
             \/ Disconnect(w)
      PROVE  OneOnItsWay'
  <2>1. ASSUME NEW k \in Keys, SubscribeOne(w, k) PROVE OneOnItsWay'
    <3>1. UNCHANGED <<informers, running>>
      BY <2>1 DEF SubscribeOne, Receive
    <3>2. UNCHANGED <<pc, job, overlapped>> \/ Start(w, {k})
      BY <2>1 DEF SubscribeOne
    <3>3. {k} \in SUBSET Keys
      OBVIOUS
    <3> QED
      BY <1>1, <3>1, <3>2, <3>3, OneBySubscription
  <2>2. ASSUME NEW list \in SUBSET Keys, SubscribeList(w, list) PROVE OneOnItsWay'
    <3>1. UNCHANGED <<informers, running>> /\ Start(w, list \ informers[w])
      BY <2>2 DEF SubscribeList, Receive
    <3> QED
      BY <3>1, OneBySubscription
  <2>3. ASSUME \/ \E c \in known \cup {Default} : Connect(w, c)
               \/ \E k \in Keys : Unsubscribe(w, k)
               \/ \E c \in known : ChangeContext(w, c)
               \/ Disconnect(w)
        PROVE  OneOnItsWay'
    BY <1>1, <2>3 DEF Connect, Unsubscribe, ChangeContext, Disconnect, Receive
  <2> QED
    BY <1>2, <2>1, <2>2, <2>3
<1>3. ASSUME NEW r \in Routines, Step(r) PROVE OneOnItsWay'
  <2>1. CASE Create(r)
    BY <2>1, OneByCreate
  <2>2. CASE LookUp(r)
    <3>1. /\ UNCHANGED <<informers, running, job, overlapped>> /\ pc[r] = "lookup"
          /\ pc'[r] = IF job[r].key \in informers[job[r].watcher] THEN "recontext" ELSE "create"
          /\ \A q \in Routines \ {r} : pc'[q] = pc[q]
      BY <2>2 DEF LookUp, At, Go, Rest, WTypeOK
    <3>2. ASSUME NEW q \in Routines, NEW w \in Watchers, NEW k \in Keys
          PROVE  /\ Unstored(q, w, k)' =>
                       Unstored(q, w, k) /\ (pc'[q] = "create" => pc[q] = "create" \/ k \notin informers[w])
                 /\ Watching(q, w, k)' => Watching(q, w, k)
      BY <3>1 DEF Unstored, Working, Watching
    <3> QED
      BY <3>1, <3>2, OneKept
  <2>3. CASE \/ UseContext(r) \/ TakeConfig(r) \/ UseContextAgain(r)
             \/ TakeConfigAgain(r) \/ Get(r) \/ SendState(r)
    <3>1. /\ UNCHANGED <<informers, running, overlapped>>
          /\ pc[r] \in {"context", "config", "recontext", "reconfig", "get", "send"}
      BY <2>3 DEF UseContext, TakeConfig, UseContextAgain, TakeConfigAgain, Get, SendState,
         SwitchTo, At, Rest
    <3>2. /\ pc'[r] \in {"config", "lookup", "reconfig", "get", "send", "done"}
          /\ pc[r] \in {"recontext", "reconfig", "get", "send"} => pc'[r] \in {"reconfig", "get", "send", "done"}
          /\ \A q \in Routines \ {r} : pc'[q] = pc[q] /\ job'[q] = job[q]
          /\ job'[r].watcher = job[r].watcher /\ job'[r].key = job[r].key
      <4>1. job[r] \in Jobs
        BY <3>1 DEF WTypeOK
      <4>2. \A x : /\ [job[r] EXCEPT !.want = x].watcher = job[r].watcher
                   /\ [job[r] EXCEPT !.want = x].key = job[r].key
                   /\ [job[r] EXCEPT !.held = x].watcher = job[r].watcher
                   /\ [job[r] EXCEPT !.held = x].key = job[r].key
                   /\ [job[r] EXCEPT !.got = x].watcher = job[r].watcher
                   /\ [job[r] EXCEPT !.got = x].key = job[r].key
        BY <4>1 DEF Jobs
      <4>3. ASSUME End(r)
            PROVE  /\ pc'[r] = "done" /\ job'[r].watcher = job[r].watcher /\ job'[r].key = job[r].key
                   /\ \A q \in Routines \ {r} : pc'[q] = pc[q] /\ job'[q] = job[q]
        BY <4>1, <4>3 DEF End, WTypeOK, Jobs
      <4>4. ASSUME NEW next \in {"config", "reconfig"}, SwitchTo(r, next), ~End(r)
            PROVE  /\ pc'[r] = next /\ job'[r].watcher = job[r].watcher /\ job'[r].key = job[r].key
                   /\ \A q \in Routines \ {r} : pc'[q] = pc[q] /\ job'[q] = job[q]
        <5>1. PICK c : job' = [job EXCEPT ![r].want = c] /\ Go(r, next)
          BY <4>4, Zenon DEF SwitchTo
        <5> QED
          BY <4>2, <5>1 DEF Go, WTypeOK
      <4>5. ASSUME TakeConfig(r) \/ TakeConfigAgain(r) \/ Get(r) \/ SendState(r), ~End(r)
            PROVE  /\ pc'[r] \in {"lookup", "get", "send"}
                   /\ pc[r] \in {"reconfig", "get", "send"} => pc'[r] \in {"get", "send"}
                   /\ job'[r].watcher = job[r].watcher /\ job'[r].key = job[r].key
                   /\ \A q \in Routines \ {r} : pc'[q] = pc[q] /\ job'[q] = job[q]
        <5>1. /\ \/ pc[r] = "config" /\ Go(r, "lookup")
                 \/ pc[r] = "reconfig" /\ Go(r, "get")
                 \/ pc[r] = "get" /\ Go(r, "send")
              /\ \E x : \/ job' = [job EXCEPT ![r].held = x]
                        \/ job' = [job EXCEPT ![r].got = x]
          BY <4>5, Zenon DEF TakeConfig, TakeConfigAgain, Get, SendState, At
        <5>2. /\ job'[r].watcher = job[r].watcher /\ job'[r].key = job[r].key
              /\ \A q \in Routines \ {r} : job'[q] = job[q]
          <6>1. PICK x : \/ job' = [job EXCEPT ![r] = [job[r] EXCEPT !.held = x]]
                         \/ job' = [job EXCEPT ![r] = [job[r] EXCEPT !.got = x]]
            BY <5>1
          <6>2. job \in [Routines -> Jobs \cup {Nothing}]
            BY DEF WTypeOK
          <6>3. \E j : /\ job' = [job EXCEPT ![r] = j]
                       /\ j.watcher = job[r].watcher /\ j.key = job[r].key
            <7> DEFINE one == [job[r] EXCEPT !.held = x]
                       two == [job[r] EXCEPT !.got = x]
            <7>1. /\ one.watcher = job[r].watcher /\ one.key = job[r].key
                  /\ two.watcher = job[r].watcher /\ two.key = job[r].key
              BY <4>2
            <7>2. job' = [job EXCEPT ![r] = one] \/ job' = [job EXCEPT ![r] = two]
              BY <6>1
            <7> HIDE DEF one, two
            <7> QED
              BY <7>1, <7>2
          <6> QED
            BY <6>2, <6>3
        <5>3. /\ pc'[r] \in {"lookup", "get", "send"}
              /\ pc[r] \in {"reconfig", "get", "send"} => pc'[r] \in {"get", "send"}
              /\ \A q \in Routines \ {r} : pc'[q] = pc[q]
          <6>1. PICK x \in PCs : pc' = [pc EXCEPT ![r] = x] /\ x \in {"lookup", "get", "send"}
                                /\ (pc[r] \in {"reconfig", "get", "send"} => x # "lookup")
            BY <5>1 DEF Go, PCs
          <6> QED
            BY <6>1 DEF WTypeOK
        <5> QED
          BY <5>2, <5>3
      <4>6. CASE End(r)
        BY <4>3, <4>6
      <4>7. CASE UseContext(r) /\ ~End(r)
        BY <4>4, <4>7 DEF UseContext, At
      <4>8. CASE UseContextAgain(r) /\ ~End(r)
        BY <4>4, <4>8 DEF UseContextAgain, At
      <4>9. CASE (TakeConfig(r) \/ TakeConfigAgain(r) \/ Get(r) \/ SendState(r)) /\ ~End(r)
        <5>1. pc[r] # "recontext"
          BY <4>9 DEF TakeConfig, TakeConfigAgain, Get, SendState, At
        <5> QED
          BY <4>5, <4>9, <5>1
      <4> QED
        BY <2>3, <4>6, <4>7, <4>8, <4>9
    <3>3. ASSUME NEW q \in Routines, NEW w \in Watchers, NEW k \in Keys
          PROVE  /\ Unstored(q, w, k)' => Unstored(q, w, k) /\ (pc'[q] = "create" => pc[q] = "create")
                 /\ Watching(q, w, k)' => Watching(q, w, k)
      BY <3>1, <3>2 DEF Unstored, Working, Watching
    <3> QED
      BY <3>1, <3>3, OneKept
  <2> QED
    BY <1>3, <2>1, <2>2, <2>3 DEF Step
<1>4. ASSUME NEW r \in Routines, Observe(r) PROVE OneOnItsWay'
  <2>1. /\ UNCHANGED <<informers, pc, job, overlapped>>
        /\ \A q \in Routines : running'[q] # None => running[q] # None
    BY <1>4 DEF Observe, Idle, Rest, WTypeOK
  <2> QED
    BY <2>1 DEF OneOnItsWay, Unstored, Working, Watching
<1>5. ASSUME NEW r \in Routines, Resync(r) PROVE OneOnItsWay'
  BY <1>1, <1>5 DEF Resync, Idle, Rest
<1>6. ASSUME NEW r \in Routines, Stop(r) PROVE OneOnItsWay'
  BY <1>6, OneByStop
<1>7. ASSUME NEW c \in known, SwitchClient(c) \/ \E k \in Keys : Change(c, k) PROVE OneOnItsWay'
  BY <1>1, <1>7 DEF SwitchClient, Change
<1>8. CASE UNCHANGED vars
  BY <1>1, <1>8 DEF vars
<1> QED
  BY <1>2, <1>3, <1>4, <1>5, <1>6, <1>7, <1>8 DEF Next

\* A set without two different members has one at most.
LEMMA AtMostOne ==
    ASSUME NEW S, \A x, y \in S : x = y
    PROVE  Cardinality(S) <= 1
<1>1. CASE S = {}
  BY <1>1, FS_EmptySet
<1>2. CASE S # {}
  <2>1. PICK x \in S : TRUE
    BY <1>2
  <2>2. S = {x}
    BY <2>1
  <2> QED
    BY <2>2, FS_Singleton
<1> QED
  BY <1>1, <1>2

\* watchSingleResource: the look-up of the informer and its
\* storing are two locked sections, and yet a socket gets one informer for a
\* resource at most, as long as no two subscriptions of it overlap.
THEOREM OneInformer == Spec => []OneInformerUnlessOverlapped
<1>1. Init => OneOnItsWay
  BY DEF Init, OneOnItsWay, Unstored, Working, Watching
<1>2. (WTypeOK /\ InHand /\ Numbered) /\ OneOnItsWay /\ [Next]_vars => OneOnItsWay'
  BY OneStep
<1>3. OneOnItsWay => OneInformerUnlessOverlapped
  BY AtMostOne DEF OneOnItsWay, OneInformerUnlessOverlapped
<1> QED
  BY <1>1, <1>2, <1>3, WatchTypeCorrect, PTL DEF Spec
============================================================================
