------------------------------- MODULE WatchList -------------------------------
(***************************************************************************)
(* What the watch list promises its user: a resource is on it from when    *)
(* the user adds it until the user takes it off or the cluster of the      *)
(* selected context no longer has it.  The promise is given only while the *)
(* connection behind the list is sound.                                    *)
(***************************************************************************)
CONSTANTS Contexts, Keys, None

VARIABLES watched,  \* the resources on the list
          asked,    \* what the user put on it and did not take off
          context,  \* the context they are watched in
          present,  \* what each context's cluster has
          sound     \* no connection has been mistaken for another one

vars == <<watched, asked, context, present, sound>>

Init ==
    /\ watched \in SUBSET Keys
    /\ asked = watched
    /\ context \in Contexts \cup {None}
    /\ present \in [Contexts -> SUBSET Keys]
    /\ sound = TRUE

Watch(k) ==
    /\ watched' = watched \cup {k} /\ asked' = asked \cup {k}
    /\ UNCHANGED <<context, present, sound>>

Unwatch(k) ==
    /\ watched' = watched \ {k} /\ asked' = asked \ {k}
    /\ UNCHANGED <<context, present, sound>>

UnwatchAll ==
    /\ watched' = {} /\ asked' = {}
    /\ UNCHANGED <<context, present, sound>>

\* The list itself takes a resource off, or keeps it.
Drop(k) ==
    /\ context # None
    /\ k \notin present[context]
    /\ watched' = watched \ {k}
    /\ UNCHANGED <<asked, context, present, sound>>

\* Once the connection is unsound anything may go, but nothing comes.
Lose(k) ==
    /\ ~sound
    /\ watched' = watched \ {k}
    /\ UNCHANGED <<asked, context, present, sound>>

\* Another context is selected, or the connection turns unsound; only a new
\* page makes it sound again.
Rewatch ==
    /\ context' \in Contexts \cup {None}
    /\ sound' \in {s \in BOOLEAN : s => sound \/ context' = None}
    /\ UNCHANGED <<watched, asked, present>>

Evolve ==
    /\ present' \in [Contexts -> SUBSET Keys]
    /\ UNCHANGED <<watched, asked, context, sound>>

Next ==
    \/ \E k \in Keys : Watch(k) \/ Unwatch(k) \/ Drop(k) \/ Lose(k)
    \/ UnwatchAll \/ Rewatch \/ Evolve

Spec == Init /\ [][Next]_vars
============================================================================
