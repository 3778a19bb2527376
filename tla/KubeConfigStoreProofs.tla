------------------------ MODULE KubeConfigStoreProofs ------------------------
(* The copy of the kubeconfig in memory, for any number of goroutines and any
   contexts: its type, and when a goroutine can meet a nil one.  And, for one
   request at a time, what the file holds and what a request may report.     *)
EXTENDS KubeConfigStore, TLAPS

\* A kubeconfig with its contexts, definitions or current-context exchanged.
LEMMA KubeconfigUpdates ==
    ASSUME NEW c \in Kubeconfigs, NEW s \in SUBSET Contexts, NEW d \in SUBSET Defs,
           NEW x \in Contexts \cup {Empty}
    PROVE  /\ [c EXCEPT !.contexts = s] \in Kubeconfigs
           /\ [c EXCEPT !.defs = d] \in Kubeconfigs
           /\ [c EXCEPT !.current = x] \in Kubeconfigs
           /\ [c EXCEPT !.contexts = s, !.current = x] \in Kubeconfigs
           /\ c.contexts \in SUBSET Contexts
           /\ c.defs \in SUBSET Defs
           /\ c.current \in Contexts \cup {Empty}
BY DEF Kubeconfigs

LEMMA BlankType == Blank \in Kubeconfigs
BY DEF Blank, Kubeconfigs

LEMMA RefersType ==
    ASSUME NEW s \in SUBSET Contexts
    PROVE  {RefersTo[x] : x \in s} \subseteq Defs
BY StoreAssumption

\* What AddKubeConfig and RemoveContext make of a copy is a kubeconfig again.
LEMMA EditedCopy ==
    ASSUME TypeOK, NEW p \in Procs, mem # None,
           \/ MergeContexts(p) \/ MergeDefs(p)
           \/ DeleteContext(p) \/ ScanUses(p) \/ DeleteDefs(p)
    PROVE  mem' \in Kubeconfigs
<1> USE DEF TypeOK, PanicOnNil
<1>1. CASE MergeContexts(p)
  <2>1. [mem EXCEPT !.contexts = @ \cup arg[p]] \in Kubeconfigs
    BY KubeconfigUpdates
  <2> QED
    BY <1>1, <2>1 DEF MergeContexts
<1>2. CASE MergeDefs(p)
  <2>1. {RefersTo[x] : x \in arg[p]} \subseteq Defs
    BY RefersType
  <2>2. [mem EXCEPT !.defs = @ \cup {RefersTo[x] : x \in arg[p]}] \in Kubeconfigs
    BY <2>1, KubeconfigUpdates
  <2> QED
    BY <1>2, <2>2 DEF MergeDefs
<1>3. CASE DeleteContext(p)
  <2> DEFINE rest  == mem.contexts \ arg[p]
             Nexts == IF mem.current \notin arg[p] THEN {mem.current}
                      ELSE IF rest # {} THEN rest ELSE {Empty}
  <2>1. CASE arg[p] \subseteq mem.contexts
    <3>1. PICK next \in Nexts : mem' = [mem EXCEPT !.contexts = rest, !.current = next]
      BY <1>3, <2>1 DEF DeleteContext
    <3>2. next \in Contexts \cup {Empty}
      BY KubeconfigUpdates
    <3> QED
      BY <3>1, <3>2, KubeconfigUpdates
  <2> QED
    BY <1>3, <2>1 DEF DeleteContext
<1>4. CASE ScanUses(p)
  BY <1>4 DEF ScanUses
<1>5. CASE DeleteDefs(p)
  <2>1. [mem EXCEPT !.defs = @ \ {RefersTo[x] : x \in arg[p]}] \in Kubeconfigs
    BY KubeconfigUpdates
  <2> QED
    BY <1>5, <2>1 DEF DeleteDefs
<1> QED
  BY <1>1, <1>2, <1>3, <1>4, <1>5

\* SetContext leaves the old copy or a loaded one.
LEMMA SwitchedCopy ==
    ASSUME TypeOK, NEW p \in Procs, LoadForSwitch(p)
    PROVE  mem' = mem \/ mem' \in Kubeconfigs
<1>1. \A name \in arg[p] : [file EXCEPT !.current = name] \in Kubeconfigs
  BY KubeconfigUpdates DEF TypeOK
<1> QED
  BY <1>1 DEF LoadForSwitch, TypeOK

\* Who is about to assign or to write a kubeconfig has read or encoded one.
Buffers == \A p \in Procs : pc[p] \in {"assign", "write"} => buf[p] \in Kubeconfigs

\* The places at which a goroutine holds the lock.
LockedPCs == {"contexts", "defs", "scan", "truncate", "write", "reload", "load"}

Holders == \A p \in Procs : pc[p] \in LockedPCs => lock = p

\* As long as every reload has worked, the copy is nil only before the first
\* load or while the lock's holder is loading it again: who uses the copy under
\* the lock finds one, and so does, once it gets the lock, who has loaded one.
CopyKept ==
    ~unread =>
        /\ \A p \in Procs : pc[p] \in {"contexts", "defs", "scan", "truncate"} => mem # None
        /\ mem = None =>
              \A p \in Procs :
                 pc[p] = "listing" \/ (pc[p] = "lock" /\ op[p] # "switch") =>
                    \E q \in Procs : pc[q] = "reload"

\* The requests' inputs and the steps of the goroutines keep the types.
LEMMA TypeStep == TypeOK /\ Buffers /\ [Next]_vars => TypeOK'
<1> SUFFICES ASSUME TypeOK, Buffers, [Next]_vars PROVE TypeOK'
  OBVIOUS
<1> USE DEF TypeOK, Goto, disk
<1>1. ASSUME NEW p \in Procs, NEW o \in Ops, NEW s \in SUBSET Contexts, Begin(p, o, s)
      PROVE  TypeOK'
  <2>1. pc' \in [Procs -> PCs]
    BY <1>1 DEF Begin, PCs, Ops
  <2> QED
    BY <1>1, <2>1 DEF Begin, Replies
<1>2. ASSUME NEW p \in Procs, Step(p) PROVE TypeOK'
  <2> USE DEF Return, Continue, PanicOnNil, PCs, Replies
  <2>1. CASE ReadFile(p)
    <3>1. pc' \in [Procs -> PCs] /\ reply' \in [Procs -> Replies]
      BY <2>1 DEF ReadFile
    <3>2. arg' \in [Procs -> SUBSET Contexts] /\ added' \in [Procs -> SUBSET Contexts]
      BY <2>1 DEF ReadFile
    <3>3. used' \in [Procs -> BOOLEAN] /\ lock' \in Procs \cup {None}
      BY <2>1 DEF ReadFile
    <3>4. buf' \in [Procs -> Kubeconfigs \cup {None}] /\ op' \in [Procs -> Ops]
      BY <2>1 DEF ReadFile
    <3>5. UNCHANGED <<file, access, mem, base, unread>>
      BY <2>1 DEF ReadFile
    <3> QED
      BY <3>1, <3>2, <3>3, <3>4, <3>5
  <2>2. CASE AssignLoaded(p)
    BY <2>2 DEF AssignLoaded
  <2>3. CASE Lock(p)
    BY <2>3 DEF Lock
  <2>4. CASE MergeContexts(p)
    <3>1. mem' \in Kubeconfigs \cup {None}
      BY <2>4, EditedCopy DEF MergeContexts
    <3>2. arg[p] \ mem.contexts \in SUBSET Contexts
      OBVIOUS
    <3>3. pc' \in [Procs -> PCs] /\ reply' \in [Procs -> Replies]
      BY <2>4 DEF MergeContexts
    <3>4. arg' \in [Procs -> SUBSET Contexts] /\ added' \in [Procs -> SUBSET Contexts]
      BY <2>4, <3>2 DEF MergeContexts
    <3>5. used' \in [Procs -> BOOLEAN] /\ lock' \in Procs \cup {None}
      BY <2>4 DEF MergeContexts
    <3>6. buf' \in [Procs -> Kubeconfigs \cup {None}] /\ op' \in [Procs -> Ops]
      BY <2>4 DEF MergeContexts
    <3>7. UNCHANGED <<file, access, base, unread>>
      BY <2>4 DEF MergeContexts
    <3> QED
      BY <3>1, <3>3, <3>4, <3>5, <3>6, <3>7
  <2>5. CASE MergeDefs(p)
    <3>1. mem' \in Kubeconfigs \cup {None}
      BY <2>5, EditedCopy DEF MergeDefs
    <3> QED
      BY <2>5, <3>1 DEF MergeDefs
  <2>6. CASE DeleteContext(p)
    <3>1. mem' \in Kubeconfigs \cup {None}
      BY <2>6, EditedCopy DEF DeleteContext
    <3> QED
      BY <2>6, <3>1 DEF DeleteContext
  <2>7. CASE ScanUses(p)
    BY <2>7 DEF ScanUses
  <2>8. CASE DeleteDefs(p)
    <3>1. mem' \in Kubeconfigs \cup {None}
      BY <2>8, EditedCopy DEF DeleteDefs
    <3> QED
      BY <2>8, <3>1 DEF DeleteDefs
  <2>9. CASE Truncate(p)
    <3>1. file' \in Kubeconfigs /\ base' \in Kubeconfigs
      BY <2>9, BlankType DEF Truncate
    <3>2. pc' \in [Procs -> PCs] /\ reply' \in [Procs -> Replies]
      BY <2>9 DEF Truncate
    <3>3. arg' \in [Procs -> SUBSET Contexts] /\ added' \in [Procs -> SUBSET Contexts]
      BY <2>9 DEF Truncate
    <3>4. used' \in [Procs -> BOOLEAN] /\ lock' \in Procs \cup {None}
      BY <2>9 DEF Truncate
    <3>5. buf' \in [Procs -> Kubeconfigs \cup {None}] /\ op' \in [Procs -> Ops]
      BY <2>9 DEF Truncate
    <3>6. UNCHANGED <<access, unread>> /\ mem' = mem
      BY <2>9 DEF Truncate
    <3> QED
      BY <3>1, <3>2, <3>3, <3>4, <3>5, <3>6
  <2>10. CASE Fill(p)
    <3>1. buf[p] \in Kubeconfigs
      BY <2>10 DEF Fill, Buffers
    <3> QED
      BY <2>10, <3>1, BlankType DEF Fill
  <2>11. CASE Reload(p)
    BY <2>11 DEF Reload
  <2>12. CASE Peek(p) \/ List(p)
    BY <2>12 DEF Peek, List
  <2>13. CASE LoadForSwitch(p)
    <3>1. mem' \in Kubeconfigs \cup {None}
      BY <2>13, SwitchedCopy
    <3> QED
      BY <2>13, <3>1 DEF LoadForSwitch
  <2> QED
    BY <1>2, <2>1, <2>2, <2>3, <2>4, <2>5, <2>6, <2>7, <2>8, <2>9, <2>10, <2>11, <2>12, <2>13
    DEF Step
<1>3. CASE ChangeAccess
  BY <1>3 DEF ChangeAccess
<1>4. CASE UNCHANGED vars
  BY <1>4 DEF vars
<1> QED
  BY <1>1, <1>2, <1>3, <1>4 DEF Next

LEMMA BuffersStep == TypeOK /\ Buffers /\ [Next]_vars => Buffers'
<1> SUFFICES ASSUME TypeOK, Buffers, [Next]_vars PROVE Buffers'
  OBVIOUS
<1> USE DEF TypeOK, Buffers, Goto, disk
<1>1. ASSUME NEW p \in Procs, NEW o \in Ops, NEW s \in SUBSET Contexts, Begin(p, o, s)
      PROVE  Buffers'
  BY <1>1 DEF Begin, Ops
<1>2. ASSUME NEW p \in Procs, Step(p) PROVE Buffers'
  <2> USE DEF Return, Continue, PanicOnNil
  <2>1. CASE ReadFile(p) \/ AssignLoaded(p) \/ Lock(p) \/ Peek(p) \/ List(p)
    BY <2>1 DEF ReadFile, AssignLoaded, Lock, Peek, List
  <2>2. CASE MergeContexts(p) \/ MergeDefs(p) \/ DeleteContext(p)
    BY <2>2 DEF MergeContexts, MergeDefs, DeleteContext
  <2>3. CASE ScanUses(p) \/ DeleteDefs(p)
    BY <2>3 DEF ScanUses, DeleteDefs
  <2>4. CASE Truncate(p)
    BY <2>4 DEF Truncate
  <2>5. CASE Fill(p) \/ Reload(p) \/ LoadForSwitch(p)
    BY <2>5 DEF Fill, Reload, LoadForSwitch
  <2> QED
    BY <1>2, <2>1, <2>2, <2>3, <2>4, <2>5 DEF Step
<1>3. CASE ChangeAccess
  BY <1>3 DEF ChangeAccess
<1>4. CASE UNCHANGED vars
  BY <1>4 DEF vars
<1> QED
  BY <1>1, <1>2, <1>3, <1>4 DEF Next

\* The lock is held exactly where the code's locked sections are.
LEMMA HoldersStep == TypeOK /\ Holders /\ [Next]_vars => Holders'
<1> SUFFICES ASSUME TypeOK, Holders, [Next]_vars PROVE Holders'
  OBVIOUS
<1> USE NoneAssumption DEF TypeOK, Holders, LockedPCs, Goto, disk
<1>1. ASSUME NEW p \in Procs, NEW o \in Ops, NEW s \in SUBSET Contexts, Begin(p, o, s)
      PROVE  Holders'
  BY <1>1 DEF Begin, Ops
<1>2. ASSUME NEW p \in Procs, Step(p) PROVE Holders'
  <2> USE DEF Return, Continue, PanicOnNil
  <2>1. CASE ReadFile(p) \/ AssignLoaded(p) \/ Lock(p) \/ Peek(p) \/ List(p)
    BY <2>1 DEF ReadFile, AssignLoaded, Lock, Peek, List
  <2>2. CASE MergeContexts(p) \/ MergeDefs(p) \/ DeleteContext(p)
    BY <2>2 DEF MergeContexts, MergeDefs, DeleteContext
  <2>3. CASE ScanUses(p) \/ DeleteDefs(p)
    BY <2>3 DEF ScanUses, DeleteDefs
  <2>4. CASE Truncate(p)
    BY <2>4 DEF Truncate
  <2>5. CASE Fill(p) \/ Reload(p) \/ LoadForSwitch(p)
    BY <2>5 DEF Fill, Reload, LoadForSwitch
  <2> QED
    BY <1>2, <2>1, <2>2, <2>3, <2>4, <2>5 DEF Step
<1>3. CASE ChangeAccess
  BY <1>3 DEF ChangeAccess
<1>4. CASE UNCHANGED vars
  BY <1>4 DEF vars
<1> QED
  BY <1>1, <1>2, <1>3, <1>4 DEF Next

\* Every assignment of k.kubeConfig outside the lock assigns a loaded copy, and
\* the one nil is assigned under the lock and loaded over before it is released.
LEMMA CopyStep == TypeOK /\ Buffers /\ Holders /\ CopyKept /\ [Next]_vars => CopyKept'
<1> SUFFICES ASSUME TypeOK, Buffers, Holders, CopyKept, [Next]_vars PROVE CopyKept'
  OBVIOUS
<1> USE NoneAssumption DEF TypeOK, Holders, LockedPCs, CopyKept, Goto, disk
<1>0. ASSUME NEW p \in Procs, pc[p] = "reload"
      PROVE  \A q \in Procs \ {p} : pc[q] \notin LockedPCs
  BY <1>0
<1>1. ASSUME NEW p \in Procs, NEW o \in Ops, NEW s \in SUBSET Contexts, Begin(p, o, s)
      PROVE  CopyKept'
  BY <1>1 DEF Begin, Ops
<1>2. ASSUME NEW p \in Procs, Step(p) PROVE CopyKept'
  <2> USE DEF Return, Continue, PanicOnNil
  <2>1. CASE ReadFile(p) \/ Peek(p) \/ List(p)
    BY <2>1 DEF ReadFile, Peek, List
  <2>2. CASE AssignLoaded(p)
    <3>1. mem' # None
      BY <2>2 DEF AssignLoaded, Buffers
    <3> QED
      BY <2>2, <3>1 DEF AssignLoaded
  <2>3. CASE Lock(p)
    <3>1. \A q \in Procs : pc[q] # "reload"
      BY <2>3 DEF Lock
    <3> QED
      BY <2>3, <3>1 DEF Lock
  <2>4. CASE MergeContexts(p) \/ MergeDefs(p) \/ DeleteContext(p) \/ ScanUses(p) \/ DeleteDefs(p)
    <3>1. ASSUME ~unread PROVE mem' # None
      <4>1. mem # None
        BY <2>4, <3>1 DEF MergeContexts, MergeDefs, DeleteContext, ScanUses, DeleteDefs
      <4> QED
        BY <2>4, <4>1, EditedCopy
    <3> QED
      BY <2>4, <3>1 DEF MergeContexts, MergeDefs, DeleteContext, ScanUses, DeleteDefs
  <2>5. CASE Truncate(p)
    BY <2>5 DEF Truncate
  <2>6. CASE Fill(p)
    BY <2>6 DEF Fill
  <2>7. CASE Reload(p)
    BY <2>7 DEF Reload
  <2>8. CASE LoadForSwitch(p)
    <3>1. mem # None => mem' # None
      BY <2>8, SwitchedCopy
    <3> QED
      BY <2>8, <3>1 DEF LoadForSwitch
  <2> QED
    BY <1>2, <2>1, <2>2, <2>3, <2>4, <2>5, <2>6, <2>7, <2>8 DEF Step
<1>3. CASE ChangeAccess
  BY <1>3 DEF ChangeAccess
<1>4. CASE UNCHANGED vars
  BY <1>4 DEF vars
<1> QED
  BY <1>1, <1>2, <1>3, <1>4 DEF Next

StoreInv == TypeOK /\ Buffers /\ Holders /\ CopyKept /\ PanicNeedsFailedReload

LEMMA StoreInvCorrect == Spec => []StoreInv
<1>1. Init => StoreInv
  <2> SUFFICES ASSUME Init PROVE StoreInv
    OBVIOUS
  <2>1. file \in Kubeconfigs
    BY DEF Init
  <2>2. TypeOK
    BY <2>1, BlankType DEF Init, TypeOK, PCs, Ops, Replies
  <2>3. Buffers /\ Holders /\ CopyKept /\ PanicNeedsFailedReload
    BY DEF Init, Buffers, Holders, LockedPCs, CopyKept, PanicNeedsFailedReload
  <2> QED
    BY <2>2, <2>3 DEF StoreInv
<1>2. StoreInv /\ [Next]_vars => PanicNeedsFailedReload'
  <2> SUFFICES ASSUME StoreInv, [Next]_vars PROVE PanicNeedsFailedReload'
    OBVIOUS
  <2> USE NoneAssumption
      DEF StoreInv, TypeOK, Holders, LockedPCs, CopyKept, PanicNeedsFailedReload, Goto, disk
  <2>1. ASSUME NEW p \in Procs, NEW o \in Ops, NEW s \in SUBSET Contexts, Begin(p, o, s)
        PROVE  PanicNeedsFailedReload'
    BY <2>1 DEF Begin
  <2>2. ASSUME NEW p \in Procs, Step(p) PROVE PanicNeedsFailedReload'
    <3> USE DEF Return, Continue, PanicOnNil
    <3>1. CASE ReadFile(p) \/ AssignLoaded(p) \/ Lock(p) \/ Peek(p)
      BY <3>1 DEF ReadFile, AssignLoaded, Lock, Peek
    <3>2. CASE List(p)
      BY <3>2 DEF List
    <3>3. CASE MergeContexts(p) \/ MergeDefs(p) \/ DeleteContext(p)
      BY <3>3 DEF MergeContexts, MergeDefs, DeleteContext
    <3>4. CASE ScanUses(p) \/ DeleteDefs(p)
      BY <3>4 DEF ScanUses, DeleteDefs
    <3>5. CASE Truncate(p)
      BY <3>5 DEF Truncate
    <3>6. CASE Fill(p) \/ Reload(p) \/ LoadForSwitch(p)
      BY <3>6 DEF Fill, Reload, LoadForSwitch
    <3> QED
      BY <2>2, <3>1, <3>2, <3>3, <3>4, <3>5, <3>6 DEF Step
  <2>3. CASE ChangeAccess
    BY <2>3 DEF ChangeAccess
  <2>4. CASE UNCHANGED vars
    BY <2>4 DEF vars
  <2> QED
    BY <2>1, <2>2, <2>3, <2>4 DEF Next
<1>3. StoreInv /\ [Next]_vars => StoreInv'
  BY <1>2, TypeStep, BuffersStep, HoldersStep, CopyStep DEF StoreInv
<1> QED
  BY <1>1, <1>3, PTL DEF Spec

\* The kubeconfig, its copy and the goroutines' variables keep their types; in
\* particular a goroutine never writes or assigns a kubeconfig it has not got.
THEOREM StoreTypeCorrect == Spec => []TypeOK
<1>1. StoreInv => TypeOK
  BY DEF StoreInv
<1> QED
  BY <1>1, StoreInvCorrect, PTL

\* A nil copy is met only after a reload under the lock has failed.
THEOREM NoPanic == Spec => []PanicNeedsFailedReload
<1>1. StoreInv => PanicNeedsFailedReload
  BY DEF StoreInv
<1> QED
  BY <1>1, StoreInvCorrect, PTL

\* k.mu excludes: no two goroutines are inside the locked sections at once.
Exclusive == \A p, q \in Procs : {pc[p], pc[q]} \subseteq LockedPCs => p = q

THEOREM MutualExclusion == Spec => []Exclusive
<1>1. StoreInv => Exclusive
  BY DEF StoreInv, Holders, Exclusive
<1> QED
  BY <1>1, StoreInvCorrect, PTL

----------------------------------------------------------------------------
(* Requests one at a time.  With two goroutines an unlocked load may undo    *)
(* half an edit, so the hypothesis cannot be dropped.                        *)

OneAtATime == \A p, q \in Procs : p = q

\* What a request makes of the file it has loaded.
Edit(p, from, to) ==
    /\ op[p] = "add" =>
          /\ to.contexts = from.contexts \cup arg[p] /\ to.current = from.current
          /\ added[p] \subseteq arg[p]
    /\ op[p] = "remove" => to.contexts = from.contexts \ arg[p]

\* The copy that is edited is the one that was loaded for it; it is well formed
\* but between the two halves of a merge; and what is written is the edit.
Edits(p) ==
    /\ SelfContained(file)
    /\ mem # None /\ ~(pc[p] = "defs" /\ op[p] = "add") => SelfContained(mem)
    /\ pc[p] \in {"contexts", "defs", "truncate", "write", "reload"} => op[p] \in {"add", "remove"}
    /\ pc[p] = "scan" => op[p] = "remove"
    /\ pc[p] = "lock" => op[p] # "list"
    /\ pc[p] = "assign" => buf[p] = file
    /\ pc[p] = "contexts" \/ (pc[p] = "lock" /\ op[p] # "switch") => mem = file
    /\ pc[p] \in {"scan", "defs", "truncate"} => mem # None /\ Edit(p, file, mem)
    /\ pc[p] = "defs" /\ op[p] = "add" => mem.defs = file.defs
    /\ pc[p] = "defs" /\ op[p] = "remove" =>
          (used[p] <=> \E x \in mem.contexts, y \in arg[p] : RefersTo[x] = RefersTo[y])
    /\ pc[p] = "write" => SelfContained(buf[p]) /\ Edit(p, base, buf[p])
    /\ pc[p] = "reload" =>
          /\ op[p] = "add" => added[p] \subseteq file.contexts
          /\ op[p] = "remove" => arg[p] \cap file.contexts = {}

LEMMA BlankContained == SelfContained(Blank)
BY DEF SelfContained, Blank

\* A request begins: nothing has been edited yet.
LEMMA BeginEdits ==
    ASSUME TypeOK, NEW p \in Procs, Edits(p),
           NEW o \in Ops, NEW s \in SUBSET Contexts, Begin(p, o, s)
    PROVE  Edits(p)'
<1>1. /\ pc'[p] \in {"read", "peek", "lock"} /\ op'[p] = o
      /\ pc'[p] = "lock" => o = "switch"
      /\ pc[p] = "idle" /\ UNCHANGED <<file, mem>>
  BY DEF Begin, Goto, Ops, TypeOK, disk
<1> QED
  BY <1>1 DEF Edits, SelfContained

\* A request ends, or goes on without an edit.
LEMMA ReturnEdits ==
    ASSUME TypeOK, NEW p \in Procs, Edits(p), NEW how, Return(p, how),
           UNCHANGED file, mem' = None \/ SelfContained(mem')
    PROVE  Edits(p)'
<1>1. pc'[p] = "idle"
  BY DEF Return, Goto, TypeOK
<1> QED
  BY <1>1 DEF Edits, SelfContained

LEMMA LoadEdits ==
    ASSUME TypeOK, NEW p \in Procs, Edits(p),
           ReadFile(p) \/ AssignLoaded(p) \/ Lock(p) \/ Peek(p) \/ List(p) \/ LoadForSwitch(p)
    PROVE  Edits(p)'
<1> USE DEF disk
<1>1. CASE ReadFile(p)
  <2>1. ASSUME NEW how, Return(p, how) PROVE Edits(p)'
    BY <1>1, <2>1, ReturnEdits DEF ReadFile, Edits
  <2>2. CASE buf' = [buf EXCEPT ![p] = file] /\ Goto(p, "assign")
    BY <1>1, <2>2 DEF ReadFile, Edits, Goto, TypeOK, SelfContained
  <2> QED
    BY <1>1, <2>1, <2>2 DEF ReadFile
<1>2. CASE AssignLoaded(p)
  <2>1. /\ mem' = file /\ pc'[p] = IF op[p] = "list" THEN "listing" ELSE "lock"
        /\ UNCHANGED <<file, op>>
    BY <1>2 DEF AssignLoaded, Edits, Goto, TypeOK
  <2> QED
    BY <2>1 DEF Edits, SelfContained
<1>3. CASE Lock(p)
  <2>1. /\ pc'[p] = IF op[p] = "switch" THEN "load" ELSE "contexts"
        /\ pc[p] = "lock" /\ UNCHANGED <<file, mem, op>>
    BY <1>3 DEF Lock, Goto, TypeOK
  <2>2. op[p] \in {"add", "remove", "switch"}
    BY <2>1 DEF Edits, TypeOK, Ops
  <2> QED
    BY <2>1, <2>2 DEF Edits, SelfContained
<1>4. CASE Peek(p) \/ List(p)
  <2>1. ASSUME NEW how, Return(p, how) PROVE Edits(p)'
    BY <1>4, <2>1, ReturnEdits DEF Peek, List, PanicOnNil, Edits
  <2>2. CASE Goto(p, "read") /\ UNCHANGED <<file, mem>>
    <3>1. pc'[p] = "read" /\ pc[p] \in {"peek", "listing"}
      BY <1>4, <2>2 DEF Goto, TypeOK, Peek, List
    <3> QED
      BY <1>4, <2>2, <3>1 DEF Edits, SelfContained
  <2> QED
    BY <1>4, <2>1, <2>2 DEF Peek, List, PanicOnNil
<1>5. CASE LoadForSwitch(p)
  <2>1. PICK how \in {"ok", "error"} : Return(p, how)
    BY <1>5 DEF LoadForSwitch
  <2>2. \A name \in file.contexts : SelfContained([file EXCEPT !.current = name])
    BY DEF Edits, SelfContained, TypeOK, Kubeconfigs
  <2>3. mem' = None \/ SelfContained(mem')
    BY <1>5, <2>2 DEF LoadForSwitch, Edits
  <2> QED
    BY <1>5, <2>1, <2>3, ReturnEdits DEF LoadForSwitch
<1> QED
  BY <1>1, <1>2, <1>3, <1>4, <1>5

LEMMA MergeEdits ==
    ASSUME TypeOK, NEW p \in Procs, Edits(p), MergeContexts(p) \/ MergeDefs(p)
    PROVE  Edits(p)'
<1> USE DEF disk
<1>1. mem # None /\ mem \in Kubeconfigs
  BY NoneAssumption DEF Edits, TypeOK, MergeContexts, MergeDefs
<1>2. CASE MergeContexts(p)
  <2>1. /\ mem' = [mem EXCEPT !.contexts = @ \cup arg[p]] /\ mem = file
        /\ pc'[p] = "defs" /\ op' = op /\ op[p] = "add" /\ UNCHANGED <<file, arg>>
        /\ added'[p] = arg[p] \ mem.contexts
    BY <1>1, <1>2 DEF MergeContexts, PanicOnNil, Goto, Edits, TypeOK
  <2>2. /\ mem'.contexts = file.contexts \cup arg[p] /\ mem'.defs = file.defs
        /\ mem'.current = file.current
    BY <1>1, <2>1 DEF Kubeconfigs
  <2>3. mem' # None
    BY <1>1, <1>2, EditedCopy, NoneAssumption
  <2> QED
    BY <2>1, <2>2, <2>3 DEF Edits, Edit, SelfContained
<1>3. CASE MergeDefs(p)
  <2>1. /\ mem' = [mem EXCEPT !.defs = @ \cup {RefersTo[x] : x \in arg[p]}]
        /\ pc'[p] = "truncate" /\ pc[p] = "defs" /\ op' = op /\ op[p] = "add" /\ UNCHANGED <<file, arg, added>>
    BY <1>1, <1>3 DEF MergeDefs, PanicOnNil, Goto, TypeOK, Continue
  <2>2. /\ mem'.contexts = mem.contexts /\ mem'.current = mem.current
        /\ mem'.defs = mem.defs \cup {RefersTo[x] : x \in arg[p]}
    BY <1>1, <2>1 DEF Kubeconfigs
  <2>3. mem' # None
    BY <1>3, <1>1, EditedCopy, NoneAssumption
  <2>4. SelfContained(mem')
    BY <2>1, <2>2 DEF Edits, Edit, SelfContained
  <2> QED
    BY <2>1, <2>2, <2>3, <2>4 DEF Edits, Edit, SelfContained
<1> QED
  BY <1>2, <1>3

LEMMA RemoveEdits ==
    ASSUME TypeOK, NEW p \in Procs, Edits(p), DeleteContext(p) \/ ScanUses(p) \/ DeleteDefs(p)
    PROVE  Edits(p)'
<1> USE DEF disk
<1>1. mem # None /\ mem \in Kubeconfigs
  BY NoneAssumption DEF Edits, TypeOK, DeleteContext, ScanUses, DeleteDefs
<1>2. CASE DeleteContext(p)
  <2>1. CASE Return(p, "error") /\ UNCHANGED mem
    BY <1>2, <2>1, ReturnEdits DEF DeleteContext, Edits
  <2>2. CASE ~(Return(p, "error") /\ UNCHANGED mem)
    <3> DEFINE rest  == mem.contexts \ arg[p]
               Nexts == IF mem.current \notin arg[p] THEN {mem.current}
                        ELSE IF rest # {} THEN rest ELSE {Empty}
    <3>1. /\ pc[p] = "contexts" /\ op[p] = "remove" /\ pc'[p] = "scan" /\ op' = op
          /\ UNCHANGED <<file, arg>> /\ mem = file
          /\ \E next \in Nexts : mem' = [mem EXCEPT !.contexts = rest, !.current = next]
      BY <1>1, <1>2, <2>2 DEF DeleteContext, PanicOnNil, Goto, TypeOK, Continue, Edits
    <3>2. PICK next \in Nexts : mem' = [mem EXCEPT !.contexts = rest, !.current = next]
      BY <3>1
    <3>3. next \in rest \cup {Empty}
      BY <1>1, <3>1 DEF Edits, SelfContained
    <3>4. mem' \in Kubeconfigs /\ mem' # None
      BY <1>1, <1>2, EditedCopy, NoneAssumption
    <3>5. mem'.contexts = rest /\ mem'.current = next /\ mem'.defs = file.defs
      BY <1>1, <3>1, <3>2 DEF Kubeconfigs
    <3>6. SelfContained(mem')
      BY <3>1, <3>3, <3>5 DEF Edits, SelfContained
    <3> QED
      BY <3>1, <3>4, <3>5, <3>6 DEF Edits, Edit, SelfContained
  <2> QED
    BY <2>1, <2>2
<1>3. CASE ScanUses(p)
  <2>1. /\ pc[p] = "scan" /\ pc'[p] = "defs" /\ UNCHANGED <<file, mem, op, arg, added>>
        /\ used'[p] = \E x \in mem.contexts, y \in arg[p] : RefersTo[x] = RefersTo[y]
    BY <1>1, <1>3 DEF ScanUses, PanicOnNil, Goto, TypeOK
  <2>2. used'[p] <=> \E x \in mem'.contexts, y \in arg'[p] : RefersTo[x] = RefersTo[y]
    BY <2>1, Zenon
  <2> QED
    BY <2>1, <2>2 DEF Edits, Edit, SelfContained
<1>4. CASE DeleteDefs(p)
  <2>1. /\ pc[p] = "defs" /\ op[p] = "remove" /\ pc'[p] = "truncate"
        /\ UNCHANGED <<file, op, arg, added>>
        /\ mem' = IF used[p] THEN mem ELSE [mem EXCEPT !.defs = @ \ {RefersTo[x] : x \in arg[p]}]
    BY <1>1, <1>4 DEF DeleteDefs, PanicOnNil, Goto, TypeOK, Continue
  <2>2. /\ mem'.contexts = mem.contexts /\ mem'.current = mem.current
        /\ mem'.defs = IF used[p] THEN mem.defs ELSE mem.defs \ {RefersTo[x] : x \in arg[p]}
    BY <1>1, <2>1 DEF Kubeconfigs
  <2>3. mem' # None
    BY <1>4, <1>1, EditedCopy, NoneAssumption
  <2>4. SelfContained(mem')
    BY <2>1, <2>2 DEF Edits, SelfContained
  <2> QED
    BY <2>1, <2>2, <2>3, <2>4 DEF Edits, Edit, SelfContained
<1> QED
  BY <1>2, <1>3, <1>4

LEMMA WriteEdits ==
    ASSUME TypeOK, NEW p \in Procs, Edits(p), Truncate(p) \/ Fill(p) \/ Reload(p)
    PROVE  Edits(p)'
<1>1. CASE Truncate(p)
  <2>1. ASSUME NEW how, Return(p, how), UNCHANGED <<file, mem>> PROVE Edits(p)'
    BY <1>1, <2>1, ReturnEdits DEF Truncate, Edits
  <2>2. CASE mem # None /\ access = "rw"
    <3>1. /\ pc[p] = "truncate" /\ pc'[p] = "write" /\ buf'[p] = mem /\ base' = file
          /\ file' = Blank /\ UNCHANGED <<mem, op, arg, added>>
      BY <1>1, <2>2 DEF Truncate, PanicOnNil, Goto, TypeOK
    <3> QED
      BY <2>2, <3>1, BlankContained DEF Edits, Edit, SelfContained
  <2> QED
    BY <1>1, <2>1, <2>2 DEF Truncate, PanicOnNil
<1>2. CASE Fill(p)
  <2>1. /\ pc[p] = "write" /\ pc'[p] = "reload" /\ file' = buf[p] /\ mem' = None
        /\ UNCHANGED <<op, arg, added>>
    BY <1>2 DEF Fill, Goto, TypeOK
  <2> QED
    BY <2>1 DEF Edits, Edit, SelfContained
<1>3. CASE Reload(p)
  <2>1. PICK how \in {"ok", "error"} : Return(p, how)
    BY <1>3 DEF Reload
  <2>2. mem' = None \/ SelfContained(mem')
    BY <1>3 DEF Reload, Edits
  <2> QED
    BY <1>3, <2>1, <2>2, ReturnEdits DEF Reload
<1> QED
  BY <1>1, <1>2, <1>3

LEMMA SerialInvariant ==
    ASSUME OneAtATime
    PROVE  Spec => [](StoreInv /\ \A p \in Procs : Edits(p))
<1>1. Init => \A p \in Procs : Edits(p)
  BY DEF Init, Edits
<1>2. StoreInv /\ (\A p \in Procs : Edits(p)) /\ [Next]_vars => (\A p \in Procs : Edits(p))'
  <2> SUFFICES ASSUME StoreInv, \A p \in Procs : Edits(p), [Next]_vars, NEW p \in Procs
               PROVE  Edits(p)'
    OBVIOUS
  <2>1. TypeOK
    BY DEF StoreInv
  <2>2. ASSUME NEW q \in Procs, NEW o \in Ops, NEW s \in SUBSET Contexts, Begin(q, o, s)
        PROVE  Edits(p)'
    BY <2>1, <2>2, BeginEdits DEF OneAtATime
  <2>3. ASSUME NEW q \in Procs, Step(q) PROVE Edits(p)'
    <3>1. p = q
      BY DEF OneAtATime
    <3> QED
      BY <2>1, <2>3, <3>1, LoadEdits, MergeEdits, RemoveEdits, WriteEdits DEF Step
  <2>4. CASE ChangeAccess
    BY <2>4 DEF ChangeAccess, Edits, Edit, SelfContained
  <2>5. CASE UNCHANGED vars
    BY <2>5 DEF vars, Edits, Edit, SelfContained
  <2> QED
    BY <2>2, <2>3, <2>4, <2>5 DEF Next
<1> QED
  BY <1>1, <1>2, StoreInvCorrect, PTL DEF Spec

\* One request at a time, over any contexts and definitions: outside of a write
\* the file defines what its contexts refer to, also after removals that share
\* clusters and users and after writes that failed (RemoveContext, AddKubeConfig).
THEOREM SerialFile ==
    ASSUME OneAtATime, Procs # {}
    PROVE  Spec => []FileSelfContained
<1>1. (\A p \in Procs : Edits(p)) => FileSelfContained
  BY DEF Edits, FileSelfContained
<1> QED
  BY <1>1, SerialInvariant, PTL

\* And every edit that is reported is in the file, changes the contexts that its
\* request names and no other, and leaves the current-context alone when it adds.
THEOREM SerialEdits ==
    ASSUME OneAtATime
    PROVE  Spec => EditsKept
<1> DEFINE Others(p) ==
             pc[p] = "write" /\ pc'[p] = "reload" =>
                /\ file'.contexts \ arg[p] = base.contexts \ arg[p]
                /\ op[p] = "add" => file'.current = base.current
           Removed(p) ==
             pc[p] = "reload" /\ op[p] = "remove" /\ reply'[p] = "ok" => arg[p] \cap file.contexts = {}
           Added(p) ==
             pc[p] = "reload" /\ op[p] = "add" /\ reply'[p] = "ok" => added[p] \subseteq file.contexts
<1>1. ASSUME StoreInv, \A p \in Procs : Edits(p), [Next]_vars, NEW p \in Procs
      PROVE  Removed(p) /\ Added(p)
  BY <1>1 DEF Edits
<1>2. ASSUME StoreInv, \A p \in Procs : Edits(p), [Next]_vars, NEW p \in Procs,
             pc[p] = "write", pc'[p] = "reload"
      PROVE  Others(p)
  <2>1. Edit(p, base, buf[p]) /\ op[p] \in {"add", "remove"}
    BY <1>2 DEF Edits
  <2>2. file' = buf[p]
    <3>1. PICK q \in Procs : Step(q) \/ \E o \in Ops, s \in SUBSET Contexts : Begin(q, o, s)
      BY <1>2 DEF Next, ChangeAccess, vars
    <3>2. q = p
      BY DEF OneAtATime
    <3>3. Step(p)
      BY <1>2, <3>1, <3>2 DEF Begin
    <3>4. Fill(p)
      BY <1>2, <3>3 DEF Step, ReadFile, AssignLoaded, Lock, MergeContexts, MergeDefs, DeleteContext,
         ScanUses, DeleteDefs, Truncate, Reload, Peek, List, LoadForSwitch
    <3> QED
      BY <3>4 DEF Fill
  <2> QED
    BY <2>1, <2>2 DEF Edit
<1>3. StoreInv /\ (\A p \in Procs : Edits(p)) /\ [Next]_vars =>
        \A p \in Procs : Others(p) /\ Removed(p) /\ Added(p)
  BY <1>1, <1>2
<1>4. StoreInv /\ (\A p \in Procs : Edits(p)) /\ [Next]_vars =>
        /\ [\A p \in Procs : Others(p)]_vars
        /\ [\A p \in Procs : Removed(p)]_vars
        /\ [\A p \in Procs : Added(p)]_vars
  BY <1>3
<1> QED
  BY <1>4, SerialInvariant, PTL DEF Spec, EditsKept, OthersKept, RemovedReported, AddedReported
============================================================================
