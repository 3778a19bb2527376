--------------------------- MODULE KubeConfigStore ---------------------------
(***************************************************************************)
(* The kubeconfig file and its copy in memory: AddKubeConfig,              *)
(* RemoveContext, GetContexts and the part of SetContext that loads the    *)
(* file (services/kubernetes_context.go, kubernetes_service.go).           *)
(*                                                                         *)
(* k.mu guards the bodies, but loadKubeConfig takes no lock of its own and *)
(* is called without one at the start of AddKubeConfig and RemoveContext   *)
(* and in GetContexts.  Its assignment to k.kubeConfig can therefore land  *)
(* inside another goroutine's locked section, which reads that pointer anew *)
(* in each of its loops.  Clusters and users are treated alike by the code; *)
(* one kind of definition stands for both.                                 *)
(***************************************************************************)
EXTENDS FiniteSets

CONSTANTS Contexts,  \* context names
          Defs,      \* the clusters (and users) contexts refer to
          RefersTo,  \* the definition a context refers to
          Empty,     \* no context name
          None,      \* nil
          Procs      \* goroutines serving requests

ASSUME StoreAssumption ==
    /\ Empty \notin Contexts
    /\ RefersTo \in [Contexts -> Defs]

\* A kubeconfig: its contexts, its definitions and its current-context.
Kubeconfigs == [contexts : SUBSET Contexts, defs : SUBSET Defs, current : Contexts \cup {Empty}]
ASSUME NoneAssumption == None \notin Kubeconfigs \cup Procs

Blank == [contexts |-> {}, defs |-> {}, current |-> Empty]

VARIABLES file,     \* the file's contents
          access,   \* may it be read and written, only read, or neither?
          mem,      \* k.kubeConfig
          lock,     \* the goroutine holding k.mu
          pc,       \* where each goroutine is
          op,       \* what it does
          arg,      \* the contexts it adds or removes
          buf,      \* what it has read from the file, or encoded to write
          added,    \* addedContexts
          used,     \* clusterStillUsed, userStillUsed
          reply,    \* how its request ended
          base,     \* the contents the file last had before it was truncated
          unread    \* has reloading a file just written ever failed?

vars == <<file, access, mem, lock, pc, op, arg, buf, added, used, reply, base, unread>>

Ops == {"add", "remove", "list", "switch"}
PCs == {"idle", "read", "assign", "lock", "contexts", "defs", "scan", "truncate",
        "write", "reload", "peek", "listing", "load"}
Replies == {"none", "ok", "error", "panic"}

TypeOK ==
    /\ file \in Kubeconfigs
    /\ access \in {"rw", "ro", "none"}
    /\ mem \in Kubeconfigs \cup {None}
    /\ lock \in Procs \cup {None}
    /\ pc \in [Procs -> PCs]
    /\ op \in [Procs -> Ops]
    /\ arg \in [Procs -> SUBSET Contexts]
    /\ buf \in [Procs -> Kubeconfigs \cup {None}]
    /\ added \in [Procs -> SUBSET Contexts]
    /\ used \in [Procs -> BOOLEAN]
    /\ reply \in [Procs -> Replies]
    /\ base \in Kubeconfigs
    /\ unread \in BOOLEAN

\* A well-formed kubeconfig defines what its contexts refer to.
SelfContained(c) ==
    /\ {RefersTo[x] : x \in c.contexts} \subseteq c.defs
    /\ c.current \in c.contexts \cup {Empty}

Init ==
    /\ file \in {c \in Kubeconfigs : SelfContained(c)}
    /\ access \in {"rw", "ro"}
    /\ mem = None
    /\ lock = None
    /\ pc = [p \in Procs |-> "idle"]
    /\ op = [p \in Procs |-> "list"]
    /\ arg = [p \in Procs |-> {}]
    /\ buf = [p \in Procs |-> None]
    /\ added = [p \in Procs |-> {}]
    /\ used = [p \in Procs |-> FALSE]
    /\ reply = [p \in Procs |-> "none"]
    /\ base = Blank
    /\ unread = FALSE

----------------------------------------------------------------------------

Goto(p, label) == pc' = [pc EXCEPT ![p] = label]

\* The handler returns; deferred calls release the lock if it is held.
Return(p, how) ==
    /\ Goto(p, "idle")
    /\ reply' = [reply EXCEPT ![p] = how]
    /\ lock' = IF lock = p THEN None ELSE lock
    /\ arg' = [arg EXCEPT ![p] = {}]
    /\ added' = [added EXCEPT ![p] = {}]
    /\ buf' = [buf EXCEPT ![p] = None]
    /\ used' = [used EXCEPT ![p] = FALSE]

Continue == UNCHANGED <<reply, lock, arg, added, buf, used>>

disk == <<file, access, base, unread>>

Begin(p, o, s) ==
    /\ pc[p] = "idle"
    /\ Goto(p, CASE o \in {"add", "remove"} -> "read" [] o = "list" -> "peek" [] o = "switch" -> "lock")
    /\ op' = [op EXCEPT ![p] = o]
    /\ arg' = [arg EXCEPT ![p] = s]
    /\ reply' = [reply EXCEPT ![p] = "none"]
    /\ UNCHANGED <<disk, mem, lock, added, buf, used>>

\* A nil k.kubeConfig: the goroutine panics, and net/http drops its connection.
PanicOnNil(p) ==
    /\ mem = None
    /\ Return(p, "panic")
    /\ UNCHANGED mem

\* loadKubeConfig without the lock: the file is read ...
ReadFile(p) ==
    /\ pc[p] = "read"
    /\ \/ /\ access = "none"
          /\ Return(p, "error")
       \/ /\ access # "none"
          /\ buf' = [buf EXCEPT ![p] = file]
          /\ Goto(p, "assign")
          /\ UNCHANGED <<reply, lock, arg, added, used>>
    /\ UNCHANGED <<disk, mem, op>>

\* ... and k.kubeConfig is assigned, whoever holds the lock by then.
AssignLoaded(p) ==
    /\ pc[p] = "assign"
    /\ mem' = buf[p]
    /\ buf' = [buf EXCEPT ![p] = None]
    /\ Goto(p, IF op[p] = "list" THEN "listing" ELSE "lock")
    /\ UNCHANGED <<disk, op, reply, lock, arg, added, used>>

Lock(p) ==
    /\ pc[p] = "lock"
    /\ lock = None
    /\ lock' = p
    /\ Goto(p, IF op[p] = "switch" THEN "load" ELSE "contexts")
    /\ UNCHANGED <<disk, mem, op, reply, arg, added, buf, used>>

\* (mutation of MergeContexts) The contexts replace those that are there.
MergeContextsReplacing(p) ==
    /\ pc[p] = "contexts" /\ op[p] = "add"
    /\ \/ PanicOnNil(p)
       \/ /\ mem # None
          /\ added' = [added EXCEPT ![p] = arg[p] \ mem.contexts]
          /\ mem' = [mem EXCEPT !.contexts = arg[p]]
          /\ Goto(p, "defs")
          /\ UNCHANGED <<reply, lock, arg, buf, used>>
    /\ UNCHANGED <<disk, op>>

\* AddKubeConfig: contexts that are not there yet are merged in.
MergeContexts(p) ==
    /\ pc[p] = "contexts" /\ op[p] = "add"
    /\ \/ PanicOnNil(p)
       \/ /\ mem # None
          /\ added' = [added EXCEPT ![p] = arg[p] \ mem.contexts]
          /\ mem' = [mem EXCEPT !.contexts = @ \cup arg[p]]
          /\ Goto(p, "defs")
          /\ UNCHANGED <<reply, lock, arg, buf, used>>
    /\ UNCHANGED <<disk, op>>

\* (mutation of MergeDefs) The definitions are stored under the contexts' names.
MergeDefsByContext(p) ==
    /\ pc[p] = "defs" /\ op[p] = "add"
    /\ \/ PanicOnNil(p)
       \/ /\ mem # None
          /\ mem' = [mem EXCEPT !.defs = @ \cup arg[p]]
          /\ Goto(p, "truncate")
          /\ Continue
    /\ UNCHANGED <<disk, op>>

\* Then the definitions, through a new look at k.kubeConfig.
MergeDefs(p) ==
    /\ pc[p] = "defs" /\ op[p] = "add"
    /\ \/ PanicOnNil(p)
       \/ /\ mem # None
          /\ mem' = [mem EXCEPT !.defs = @ \cup {RefersTo[x] : x \in arg[p]}]
          /\ Goto(p, "truncate")
          /\ Continue
    /\ UNCHANGED <<disk, op>>

\* RemoveContext: the context goes; another one takes over as current-context.
DeleteContext(p) ==
    /\ pc[p] = "contexts" /\ op[p] = "remove"
    /\ \/ PanicOnNil(p)
       \/ /\ mem # None
          /\ ~(arg[p] \subseteq mem.contexts)
          /\ Return(p, "error")
          /\ UNCHANGED mem
       \/ /\ mem # None
          /\ arg[p] \subseteq mem.contexts
          /\ LET rest == mem.contexts \ arg[p] IN
             \E next \in IF mem.current \notin arg[p] THEN {mem.current}
                         ELSE IF rest # {} THEN rest ELSE {Empty} :
                mem' = [mem EXCEPT !.contexts = rest, !.current = next]
          /\ Goto(p, "scan")
          /\ Continue
    /\ UNCHANGED <<disk, op>>

\* Is its definition still used by one of the other contexts?
ScanUses(p) ==
    /\ pc[p] = "scan"
    /\ \/ PanicOnNil(p)
       \/ /\ mem # None
          /\ used' = [used EXCEPT ![p] =
                        \E x \in mem.contexts, y \in arg[p] : RefersTo[x] = RefersTo[y]]
          /\ Goto(p, "defs")
          /\ UNCHANGED <<mem, reply, lock, arg, added, buf>>
    /\ UNCHANGED <<disk, op>>

\* (mutation of DeleteDefs) The definitions go whether or not they are used.
DeleteAllDefs(p) ==
    /\ pc[p] = "defs" /\ op[p] = "remove"
    /\ \/ PanicOnNil(p)
       \/ /\ mem # None
          /\ mem' = [mem EXCEPT !.defs = @ \ {RefersTo[x] : x \in arg[p]}]
          /\ Goto(p, "truncate")
          /\ Continue
    /\ UNCHANGED <<disk, op>>

DeleteDefs(p) ==
    /\ pc[p] = "defs" /\ op[p] = "remove"
    /\ \/ PanicOnNil(p)
       \/ /\ mem # None
          /\ mem' = IF used[p] THEN mem
                    ELSE [mem EXCEPT !.defs = @ \ {RefersTo[x] : x \in arg[p]}]
          /\ Goto(p, "truncate")
          /\ Continue
    /\ UNCHANGED <<disk, op>>

\* (mutation of Truncate) A failed write is not noticed.
TruncateQuietly(p) ==
    /\ pc[p] = "truncate"
    /\ mem # None
    /\ IF access # "rw"
         THEN /\ Goto(p, "reload")
              /\ mem' = None
              /\ UNCHANGED <<file, base, buf>>
         ELSE /\ Goto(p, "write")
              /\ buf' = [buf EXCEPT ![p] = mem]
              /\ base' = file
              /\ file' = Blank
              /\ UNCHANGED mem
    /\ UNCHANGED <<access, op, unread, reply, lock, arg, added, used>>

\* WriteToFile: *k.kubeConfig is encoded, then os.WriteFile truncates the file
\* and fills it; an empty file loads as an empty kubeconfig.  A failure leaves
\* the memory as it is.
Truncate(p) ==
    /\ pc[p] = "truncate"
    /\ \/ PanicOnNil(p) /\ UNCHANGED <<file, base>>
       \/ /\ mem # None /\ access # "rw"
          /\ Return(p, "error")
          /\ UNCHANGED <<file, mem, base>>
       \/ /\ mem # None /\ access = "rw"
          /\ buf' = [buf EXCEPT ![p] = mem]
          /\ base' = file
          /\ file' = Blank
          /\ Goto(p, "write")
          /\ UNCHANGED <<mem, reply, lock, arg, added, used>>
    /\ UNCHANGED <<access, op, unread>>

\* The contents are written out, and the copy in memory is dropped.
Fill(p) ==
    /\ pc[p] = "write"
    /\ file' = buf[p]
    /\ buf' = [buf EXCEPT ![p] = None]
    /\ base' = Blank
    /\ mem' = None
    /\ Goto(p, "reload")
    /\ UNCHANGED <<access, op, unread, reply, lock, arg, added, used>>

\* (mutation of Reload) The lock is given up before the copy is loaded again.
ReloadUnlocked(p) ==
    /\ pc[p] = "reload"
    /\ \/ /\ lock = p
          /\ lock' = None
          /\ UNCHANGED <<mem, unread, pc, reply, arg, added, buf, used>>
       \/ /\ lock # p /\ access # "none"
          /\ mem' = file
          /\ Return(p, "ok")
          /\ UNCHANGED unread
       \/ /\ lock # p /\ access = "none"
          /\ unread' = TRUE
          /\ Return(p, "error")
          /\ UNCHANGED mem
    /\ UNCHANGED <<file, access, base, op>>

\* (mutation of Reload) The early return leaves the lock held.
ReloadKeepingLock(p) ==
    /\ pc[p] = "reload"
    /\ \/ /\ access # "none"
          /\ mem' = file
          /\ Return(p, "ok")
          /\ UNCHANGED unread
       \/ /\ access = "none"
          /\ unread' = TRUE
          /\ Goto(p, "idle")
          /\ UNCHANGED <<mem, lock, arg, added, buf, used, reply>>
    /\ UNCHANGED <<file, access, base, op>>

\* loadKubeConfig under the lock.
Reload(p) ==
    /\ pc[p] = "reload"
    /\ \/ /\ access # "none"
          /\ mem' = file
          /\ Return(p, "ok")
          /\ UNCHANGED unread
       \/ /\ access = "none"
          /\ unread' = TRUE
          /\ Return(p, "error")
          /\ UNCHANGED mem
    /\ UNCHANGED <<file, access, base, op>>

\* GetContexts: a copy that is there is listed under the read lock; a missing
\* one is loaded after the lock has been given up ...
Peek(p) ==
    /\ pc[p] = "peek"
    /\ lock = None
    /\ \/ mem # None /\ Return(p, "ok")
       \/ mem = None /\ Goto(p, "read") /\ Continue
    /\ UNCHANGED <<disk, mem, op>>

\* ... and listed once it has been taken again.
List(p) ==
    /\ pc[p] = "listing"
    /\ lock = None
    /\ \/ PanicOnNil(p)
       \/ mem # None /\ Return(p, "ok") /\ UNCHANGED mem
    /\ UNCHANGED <<disk, op>>

\* SetContext: the file is loaded under the lock, the context looked up in the
\* copy and made its current-context; the file is left alone.
LoadForSwitch(p) ==
    /\ pc[p] = "load"
    /\ \/ /\ access = "none"
          /\ Return(p, "error")
          /\ UNCHANGED mem
       \/ /\ access # "none"
          /\ \E name \in arg[p] :
                IF name \in file.contexts
                  THEN mem' = [file EXCEPT !.current = name] /\ Return(p, "ok")
                  ELSE mem' = file /\ Return(p, "error")
    /\ UNCHANGED <<disk, op>>

Step(p) ==
    \/ ReadFile(p) \/ AssignLoaded(p) \/ Lock(p)
    \/ MergeContexts(p) \/ MergeDefs(p)
    \/ DeleteContext(p) \/ ScanUses(p) \/ DeleteDefs(p)
    \/ Truncate(p) \/ Fill(p) \/ Reload(p)
    \/ Peek(p) \/ List(p)
    \/ LoadForSwitch(p)

\* The file's permissions change, or its mount comes and goes.
ChangeAccess ==
    /\ access' \in {"rw", "ro", "none"} \ {access}
    /\ UNCHANGED <<file, mem, lock, pc, op, arg, buf, added, used, reply, base, unread>>

Next ==
    \/ \E p \in Procs, o \in Ops, s \in SUBSET Contexts :
          /\ s # {}
          /\ o \in {"remove", "switch"} => Cardinality(s) = 1
          /\ o = "list" => s = Contexts
          /\ Begin(p, o, s)
    \/ \E p \in Procs : Step(p)
    \/ ChangeAccess

Spec == Init /\ [][Next]_vars

\* Goroutines run and sync.RWMutex hands the lock to every waiter.
FairSpec ==
    /\ Spec
    /\ \A p \in Procs : WF_vars(Step(p)) /\ SF_vars(Lock(p)) /\ SF_vars(Peek(p) \/ List(p))

----------------------------------------------------------------------------
(* Properties.                                                              *)

\* Outside of a write, no context of the file refers to a definition that is
\* not there: removing a context takes its cluster and user along only if no
\* other context uses them.
FileSelfContained == SelfContained(file)

\* A write changes the contexts its request names and no other, and adding
\* contexts leaves the file's current-context alone, whatever SetContext has
\* put into the copy in memory.
OthersKept ==
    [][ \A p \in Procs : pc[p] = "write" /\ pc'[p] = "reload" =>
          /\ file'.contexts \ arg[p] = base.contexts \ arg[p]
          /\ op[p] = "add" => file'.current = base.current ]_vars

\* When a removal is reported as successful the context is gone from the file.
RemovedReported ==
    [][ \A p \in Procs : pc[p] = "reload" /\ op[p] = "remove" /\ reply'[p] = "ok" =>
          arg[p] \cap file.contexts = {} ]_vars

\* "Successfully added %d context(s)" (kubernetes_controller.go:287): the
\* contexts that are reported are in the file by then.
AddedReported ==
    [][ \A p \in Procs : pc[p] = "reload" /\ op[p] = "add" /\ reply'[p] = "ok" =>
          added[p] \subseteq file.contexts ]_vars

\* The three together: an edit that is reported is in the file, and nothing else is.
EditsKept == OthersKept /\ RemovedReported /\ AddedReported

\* A goroutine meets a nil kubeconfig only if a file that had just been written
\* could not be read back: whoever drops the copy holds the lock until it has
\* loaded it again.
PanicNeedsFailedReload ==
    (\E p \in Procs : reply[p] = "panic") => unread

\* Whatever happens to the file, every request returns and gives up the lock.
EveryRequestReturns ==
    \A p \in Procs : pc[p] # "idle" ~> pc[p] = "idle"
============================================================================
