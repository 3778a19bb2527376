------------------------------ MODULE WatchBrowser ------------------------------
(***************************************************************************)
(* The watch list in the browser: OnWatchResourcesProvider and its         *)
(* websocket (src/presentation/providers/OnWatchResourcesProvider.jsx).    *)
(*                                                                         *)
(* A state change is one step and the effects that React runs after it are *)
(* another; events of the sockets come in between.  The provider keeps one *)
(* reference to a socket and one to a reconnect timer, but every onclose   *)
(* arms a timer of its own with the connectWebSocket of its own render.    *)
(* The server is what WatchServer gives a socket: messages about the       *)
(* subscribed resources of the cluster of the socket's context.            *)
(***************************************************************************)
EXTENDS Naturals, FiniteSets

CONSTANTS Contexts,    \* context names
          Keys,        \* resources (apiVersion, kind, namespace, name)
          Sockets,     \* 1..n, bound: websockets with a life or a timer at one time
          MaxFaults,   \* bound: connections lost or refused
          Fleeting,    \* the resources that come and go (the others stay)
          MaxChanges,  \* bound: resources created or deleted
          None         \* null

ASSUME BrowserAssumption ==
    /\ IsFiniteSet(Sockets) /\ Sockets = 1..Cardinality(Sockets)
    /\ IsFiniteSet(Keys)
    /\ None \notin Contexts
    /\ Fleeting \subseteq Keys
    /\ MaxFaults \in Nat /\ MaxChanges \in Nat

VARIABLES sel,      \* selectedContext
          list,     \* the keys of watchedResources, saved in localStorage
          wanted,   \* history: what the user put on the list and did not take off
          effSel,   \* selectedContext when the effects ran last
          effList,  \* watchedResources then, which watchedResourcesRef holds
          ws,       \* wsRef, 0 when null or when its socket is closed
          tref,     \* reconnectTimeoutRef, 0 when null or gone off
          st,       \* readyState of each socket; "none": closed or not there
          ctx,      \* the context in its URL, and in its onclose's closure
          subs,     \* the resources the server sends it messages about
          timer,    \* has its onclose armed a timer that has not gone off?
          exists,   \* the resources each context's cluster has
          faults,   \* connections lost or refused so far
          changes,  \* resources created or deleted so far
          crossed   \* has a timer met a connecting socket or another timer?

page == <<sel, list, wanted>>
refs == <<effSel, effList, ws, tref>>
net == <<st, ctx, subs, timer>>
vars == <<page, refs, net, exists, faults, changes, crossed>>

BTypeOK ==
    /\ sel \in Contexts \cup {None}
    /\ list \subseteq Keys
    /\ wanted \in SUBSET Keys /\ list \subseteq wanted
    /\ effSel \in Contexts \cup {None}
    /\ effList \subseteq Keys
    /\ ws \in Sockets \cup {0}
    /\ tref \in Sockets \cup {0}
    /\ st \in [Sockets -> {"none", "connecting", "open", "closing"}]
    /\ ctx \in [Sockets -> Contexts \cup {None}]
    /\ subs \in [Sockets -> SUBSET Keys]
    /\ timer \in [Sockets -> BOOLEAN]
    /\ exists \in [Contexts -> SUBSET Keys]
    /\ faults \in 0..MaxFaults
    /\ changes \in 0..MaxChanges
    /\ crossed \in BOOLEAN
    /\ \A s \in Sockets : st[s] # "none" \/ timer[s] <=> ctx[s] # None

Init ==
    /\ sel \in Contexts \cup {None}
    /\ list \in SUBSET Keys /\ wanted = list
    /\ effSel = None /\ effList = {}
    /\ ws = 0 /\ tref = 0
    /\ st = [s \in Sockets |-> "none"]
    /\ ctx = [s \in Sockets |-> None]
    /\ subs = [s \in Sockets |-> {}]
    /\ timer = [s \in Sockets |-> FALSE]
    /\ exists = [c \in Contexts |-> Keys]
    /\ faults = 0 /\ changes = 0
    /\ crossed = FALSE

----------------------------------------------------------------------------
(* What the user does.  Bound: once connections have crossed the page is left *)
(* alone until it is loaded again.                                          *)

SelectContext(c) ==
    /\ ~crossed
    /\ sel # c
    /\ sel' = c
    /\ UNCHANGED <<list, wanted, refs, net, exists, faults, changes, crossed>>

AddResource(k) ==
    /\ ~crossed
    /\ k \notin list
    /\ list' = list \cup {k} /\ wanted' = wanted \cup {k}
    /\ UNCHANGED <<sel, refs, net, exists, faults, changes, crossed>>

RemoveResource(k) ==
    /\ ~crossed
    /\ k \in list
    /\ list' = list \ {k} /\ wanted' = wanted \ {k}
    /\ UNCHANGED <<sel, refs, net, exists, faults, changes, crossed>>

ClearAll ==
    /\ ~crossed
    /\ list # {}
    /\ list' = {} /\ wanted' = {}
    /\ UNCHANGED <<sel, refs, net, exists, faults, changes, crossed>>

\* The page is loaded again, or the user signs out and in: a new provider
\* starts from localStorage.  What the old one leaves behind reaches no state
\* of the new one and is left out.
Remount ==
    /\ effSel # None
    /\ effSel' = None /\ effList' = {}
    /\ ws' = 0 /\ tref' = 0
    /\ st' = [s \in Sockets |-> "none"]
    /\ ctx' = [s \in Sockets |-> None]
    /\ subs' = [s \in Sockets |-> {}]
    /\ timer' = [s \in Sockets |-> FALSE]
    /\ crossed' = FALSE
    /\ UNCHANGED <<page, exists, faults, changes>>

----------------------------------------------------------------------------
(* Connecting.                                                              *)

Free(s) == st[s] = "none" /\ ~timer[s]

\* new WebSocket in slot s, for context c.
NewSocket(s, c, states, contexts) ==
    /\ ws' = s
    /\ st' = [states EXCEPT ![s] = "connecting"]
    /\ ctx' = [contexts EXCEPT ![s] = c]

\* connectWebSocket in a render whose selectedContext is c: a socket that is
\* open is kept, one that is still connecting is not.  The caller gives the
\* socket of wsRef and the sockets' states and contexts after what it has closed.
Connect(c, current, states, contexts) ==
    IF current # 0 /\ st[current] = "open"
    THEN ws' = current /\ st' = states /\ ctx' = contexts
    ELSE \E s \in Sockets :
        /\ Free(s)
        /\ \A q \in Sockets : Free(q) => s <= q
        /\ NewSocket(s, c, states, contexts)

\* clearTimeout on the one handle there is; the timer is forgotten with it.
Cancelled == IF tref = 0 THEN timer ELSE [timer EXCEPT ![tref] = FALSE]
Forget(states, timers) ==
    [s \in Sockets |-> IF states[s] = "none" /\ ~timers[s] THEN None ELSE ctx[s]]

\* ws.close(): its messages are ignored from now on.
Closed == IF ws = 0 THEN st ELSE [st EXCEPT ![ws] = "closing"]
Heard == IF ws = 0 THEN subs ELSE [subs EXCEPT ![ws] = {}]

\* The cleanup of the effect that connects, which is also what it does itself
\* without resources or context.
Disconnect ==
    /\ st' = Closed /\ ws' = 0 /\ subs' = Heard
    /\ tref' = 0 /\ timer' = Cancelled /\ ctx' = Forget(st, Cancelled)

\* (mutation of Reconnect) The effect has no cleanup.
ReconnectWithoutCleanup ==
    /\ Connect(sel, ws, st, ctx)
    /\ UNCHANGED <<subs, tref, timer>>

Reconnect ==
    /\ Connect(sel, 0, Closed, Forget(st, Cancelled))
    /\ subs' = Heard /\ tref' = 0 /\ timer' = Cancelled

\* (mutation of SendList) An open socket keeps the list it was sent first.
SendListOnce == UNCHANGED <<subs, ws, tref, timer, st, ctx>>

\* The list is sent again on the socket that is open.
SendList ==
    /\ subs' = IF ws # 0 /\ st[ws] = "open" THEN [subs EXCEPT ![ws] = @ \cup list] ELSE subs
    /\ UNCHANGED <<ws, tref, timer, st, ctx>>

\* (mutation of RunEffects) The selected context is not looked at.
RunEffectsUnchecked ==
    /\ sel # effSel \/ list # effList
    /\ effSel' = sel /\ effList' = list
    /\ IF sel # effSel \/ Cardinality(list) # Cardinality(effList)
         THEN IF list = {} THEN Disconnect ELSE Reconnect
         ELSE SendList
    /\ UNCHANGED <<page, exists, faults, changes, crossed>>

\* The effects after a render.  A new context or another number of resources
\* closes the socket and connects again; otherwise an open socket is sent the
\* new list.
RunEffects ==
    /\ sel # effSel \/ list # effList
    /\ effSel' = sel /\ effList' = list
    /\ IF sel # effSel \/ Cardinality(list) # Cardinality(effList)
         THEN IF list = {} \/ sel = None THEN Disconnect ELSE Reconnect
         ELSE SendList
    /\ UNCHANGED <<page, exists, faults, changes, crossed>>

\* onopen: the pending timer is cancelled and the whole list subscribed.
Open(s) ==
    /\ st[s] = "connecting"
    /\ st' = [st EXCEPT ![s] = "open"]
    /\ subs' = [subs EXCEPT ![s] = effList]
    /\ tref' = 0
    /\ timer' = Cancelled
    /\ ctx' = Forget(st, Cancelled)
    /\ UNCHANGED <<page, effSel, effList, ws, exists, faults, changes, crossed>>

\* (mutation of OnClose) Only a socket that was open is followed by a timer.
OnCloseOpened(s) ==
    /\ st' = [st EXCEPT ![s] = "none"]
    /\ subs' = [subs EXCEPT ![s] = {}]
    /\ ws' = IF ws = s THEN 0 ELSE ws
    /\ IF effList # {} /\ st[s] = "open"
         THEN /\ timer' = [timer EXCEPT ![s] = TRUE]
              /\ tref' = s
              /\ crossed' = (crossed \/ \E q \in Sockets : timer[q])
              /\ UNCHANGED ctx
         ELSE /\ ctx' = [ctx EXCEPT ![s] = None]
              /\ UNCHANGED <<timer, tref, crossed>>
    /\ UNCHANGED <<page, effSel, effList, exists, changes>>

\* onclose, also after a close() of the provider's own: a timer is armed, and
\* the handle of an earlier one is overwritten.
OnClose(s) ==
    /\ st' = [st EXCEPT ![s] = "none"]
    /\ subs' = [subs EXCEPT ![s] = {}]
    /\ ws' = IF ws = s THEN 0 ELSE ws
    /\ IF effList # {}
         THEN /\ timer' = [timer EXCEPT ![s] = TRUE]
              /\ tref' = s
              /\ crossed' = (crossed \/ \E q \in Sockets : timer[q])
              /\ UNCHANGED ctx
         ELSE /\ ctx' = [ctx EXCEPT ![s] = None]
              /\ UNCHANGED <<timer, tref, crossed>>
    /\ UNCHANGED <<page, effSel, effList, exists, changes>>

\* The closing handshake ends.
FinishClose(s) ==
    /\ st[s] = "closing"
    /\ OnClose(s)
    /\ UNCHANGED faults

\* The server refuses or loses the connection.
Fail(s) ==
    /\ st[s] \in {"connecting", "open"}
    /\ faults < MaxFaults
    /\ faults' = faults + 1
    /\ OnClose(s)

\* Three seconds later: connectWebSocket of the render that opened socket s,
\* with its context; the slot of the timer serves the new socket.
FireTimer(s) ==
    /\ timer[s]
    /\ timer' = [timer EXCEPT ![s] = FALSE]
    /\ tref' = IF tref = s THEN 0 ELSE tref
    /\ crossed' = (crossed \/ \E q \in Sockets : st[q] = "connecting")
    /\ IF ws # 0 /\ st[ws] = "open"
         THEN ctx' = [ctx EXCEPT ![s] = None] /\ UNCHANGED <<ws, st>>
         ELSE NewSocket(s, ctx[s], st, ctx)
    /\ UNCHANGED <<page, effSel, effList, subs, exists, faults, changes>>

----------------------------------------------------------------------------
(* Messages.                                                                *)

\* onmessage "deleted": the resource leaves the list.  ("updated" replaces the
\* shown copy of a resource that is on the list and leaves the list as it is.)
Deleted(s, k) ==
    /\ st[s] = "open"
    /\ k \in subs[s] \ exists[ctx[s]]
    /\ k \in list
    /\ list' = list \ {k}
    /\ UNCHANGED <<sel, wanted, refs, net, exists, faults, changes, crossed>>

Change(c, k) ==
    /\ changes < MaxChanges
    /\ changes' = changes + 1
    /\ exists' = [exists EXCEPT ![c] = IF k \in @ THEN @ \ {k} ELSE @ \cup {k}]
    /\ UNCHANGED <<page, refs, net, faults, crossed>>

Next ==
    \/ \E c \in Contexts : SelectContext(c)
    \/ \E k \in Keys : AddResource(k) \/ RemoveResource(k)
    \/ ClearAll \/ Remount
    \/ RunEffects
    \/ \E s \in Sockets : Open(s) \/ FinishClose(s) \/ Fail(s) \/ FireTimer(s)
    \/ \E s \in Sockets, k \in Keys : Deleted(s, k)
    \/ \E c \in Contexts, k \in Fleeting : Change(c, k)

Spec == Init /\ [][Next]_vars

\* The browser runs effects and timers and ends closing handshakes; a server
\* that no longer refuses connections accepts them and sends its messages.
FairSpec ==
    /\ Spec
    /\ WF_vars(RunEffects)
    /\ \A s \in Sockets : WF_vars(Open(s)) /\ WF_vars(FinishClose(s)) /\ WF_vars(FireTimer(s))
    /\ \A s \in Sockets, k \in Keys : WF_vars(Deleted(s, k))

----------------------------------------------------------------------------
(* Properties.                                                              *)

\* Unless a reconnect timer has met a socket that was still connecting or a
\* second timer, of which the provider keeps only the last handle, there is one
\* live socket at most, and it belongs to the selected context: closing a socket
\* on purpose also arms a timer, with the old context in its closure, and that
\* timer must never get to connect.
OneSocketOfSelectedContext ==
    ~crossed => \A s \in Sockets : st[s] \in {"connecting", "open"} => s = ws /\ ctx[s] = effSel

\* The list drops a resource only when the user takes it off or the selected
\* context's cluster does not have it, unless connections have crossed.
ListKept == INSTANCE WatchList
    WITH watched <- list, asked <- wanted, context <- effSel, present <- exists, sound <- ~crossed
ImplementsWatchList == ListKept!Spec

\* While the page is left alone, a list that is not empty has an open socket in
\* the end, whatever connections were lost, and unless connections have crossed
\* it is subscribed to all of the list.
Resubscribes ==
    \A c \in Contexts, keys \in SUBSET Keys \ {{}} :
        <>[](effSel = c /\ list = keys)
        => <>[](\E s \in Sockets : st[s] = "open" /\ (keys \subseteq subs[s] \/ crossed))
============================================================================
