----------------------- MODULE UsersAndWatchListProofs -----------------------
(***************************************************************************)
(* Two components that share nothing.                                      *)
(*                                                                         *)
(* The users table for any number of requests, replicas and accounts: its  *)
(* types, its administrator, and when a save or an SSO login can go wrong. *)
(*                                                                         *)
(* The watch list of the browser for any number of sockets, resources,     *)
(* contexts, faults and changes: its types, the one socket it has while no *)
(* connections have crossed, and that it implements WatchList.             *)
(***************************************************************************)
EXTENDS UserAccounts, WatchBrowser, SequenceTheorems, FiniteSetTheorems, TLAPS

----------------------------------------------------------------------------
(* The users table.                                                         *)

\* The table is a sequence whose ids are its positions.
LEMMA TableDomain ==
    ASSUME NEW s \in Seq(Rows)
    PROVE  /\ DOMAIN s = 1..Len(s) /\ Len(s) \in Nat
           /\ \A i \in DOMAIN s : s[i] \in Rows
           /\ s = <<>> <=> Len(s) = 0
BY ElementOfSeq, EmptySeq, LenProperties

\* A new row comes last; a saved one replaces the row of its id.
LEMMA AppendedTable ==
    ASSUME NEW s \in Seq(Rows), NEW r \in Rows
    PROVE  /\ Append(s, r) \in Seq(Rows)
           /\ Len(Append(s, r)) = Len(s) + 1
           /\ Append(s, r)[Len(s) + 1] = r
           /\ \A i \in DOMAIN s : Append(s, r)[i] = s[i]
BY AppendProperties, TableDomain

LEMMA SavedTable ==
    ASSUME NEW s \in Seq(Rows), NEW r \in Rows, NEW k \in DOMAIN s
    PROVE  /\ [s EXCEPT ![k] = r] \in Seq(Rows)
           /\ Len([s EXCEPT ![k] = r]) = Len(s)
           /\ [s EXCEPT ![k] = r][k] = r
           /\ \A i \in DOMAIN s : i # k => [s EXCEPT ![k] = r][i] = s[i]
BY ExceptSeq, TableDomain

\* What a handler knows at each of its statements: what it was asked; the row and
\* the id of an account it has found; somebody's account if it wants a login.
Reached(p) ==
    /\ pc[p] # "idle" => [op |-> op[p], form |-> form[p]] \in Requests
    /\ pc[p] = "hasAdmin" => op[p] = "start"
    /\ pc[p] = "admin" => op[p] \in {"create", "update"}
    /\ pc[p] = "read" => op[p] = "update"
    /\ pc[p] = "count" => op[p] \in {"register", "sso"}
    /\ pc[p] \in {"username", "email"} => op[p] # "start"
    /\ pc[p] \in {"username", "email"} /\ op[p] = "update" =>
          row[p] \in Rows /\ key[p] \in DOMAIN users
    /\ op[p] # "update" /\ pc[p] # "write" => key[p] = 0
    /\ pc[p] = "idle" => key[p] = 0
    /\ pc[p] = "write" => row[p] \in Rows /\ (key[p] = 0 \/ key[p] \in DOMAIN users)
    /\ pc[p] # "idle" /\ op[p] \in {"create", "update"} => users # <<>>

AccountTypes == UTypeOK /\ \A p \in Procs : Reached(p)

\* What the requests' forms allow.
LEMMA Asked ==
    ASSUME NEW p \in Procs, [op |-> op[p], form |-> form[p]] \in Requests
    PROVE  /\ op[p] \in Ops /\ form[p] \in Forms
           /\ op[p] \in {"register", "sso"} =>
                 form[p].role = Empty /\ form[p].username \in Usernames
           /\ op[p] \in {"register", "create"} =>
                 form[p].username \in Usernames /\ form[p].email \in Emails
           /\ form[p].username \in Usernames \cup {Empty}
           /\ form[p].email \in Emails \cup {Empty}
           /\ form[p].role \in Roles \cup {Empty}
<1> DEFINE r == [op |-> op[p], form |-> form[p]]
<1>1. /\ r \in [op : Ops, form : Forms]
      /\ r.op = op[p] /\ r.form = form[p]
  BY AccountAssumption
<1>2. /\ r.op \in {"register", "sso"} => r.form.role = Empty /\ r.form.username # Empty
      /\ r.op \in {"register", "create"} => r.form.username # Empty /\ r.form.email # Empty
  BY AccountAssumption
<1>3. op[p] \in Ops /\ form[p] \in Forms
  BY <1>1
<1> QED
  BY <1>1, <1>2, <1>3 DEF Forms

LEMMA CompletedType ==
    ASSUME AccountTypes, NEW p \in Procs, pc[p] = "email", op[p] # "sso"
    PROVE  /\ Completed(p) \in Rows
           /\ Completed(p).role =
                 IF form[p].role # Empty THEN form[p].role
                 ELSE IF op[p] = "register" THEN "admin"
                 ELSE IF op[p] = "create" THEN "user" ELSE row[p].role
<1>1. [op |-> op[p], form |-> form[p]] \in Requests /\ op[p] # "start"
  BY DEF AccountTypes, Reached
<1>2. op[p] \in {"register", "create", "update"}
  BY <1>1, Asked DEF Ops
<1>3. op[p] = "update" => row[p] \in Rows
  BY DEF AccountTypes, Reached
<1>4. /\ (IF form[p].username = Empty THEN row[p].username ELSE form[p].username) \in Usernames
      /\ (IF form[p].email = Empty THEN row[p].email ELSE form[p].email) \in Emails
  BY <1>1, <1>2, <1>3, Asked, AccountAssumption DEF Rows
<1>5. (IF form[p].role # Empty THEN form[p].role
       ELSE IF op[p] = "register" THEN "admin"
       ELSE IF op[p] = "create" THEN "user" ELSE row[p].role) \in Roles
  BY <1>1, <1>2, <1>3, Asked DEF Rows, Roles
<1> QED
  BY <1>4, <1>5 DEF Completed, Rows

LEMMA SSOUserType ==
    ASSUME AccountTypes, NEW p \in Procs, pc[p] = "count", op[p] = "sso", NEW none \in BOOLEAN
    PROVE  /\ NewSSOUser(p, none) \in Rows
           /\ NewSSOUser(p, none).username = form[p].username
           /\ NewSSOUser(p, none).email =
                 IF form[p].email = Empty THEN LocalEmail[form[p].username] ELSE form[p].email
           /\ NewSSOUser(p, none).role = IF none THEN "admin" ELSE "user"
<1>1. [op |-> op[p], form |-> form[p]] \in Requests
  BY DEF AccountTypes, Reached
<1>2. form[p].username \in Usernames /\ form[p].email \in Emails \cup {Empty}
  BY <1>1, Asked
<1>3. LocalEmail[form[p].username] \in Emails
  BY <1>2, AccountAssumption
<1> QED
  BY <1>2, <1>3 DEF NewSSOUser, Rows, Roles

----------------------------------------------------------------------------
(* The steps of a handler, told by where they lead.                         *)

\* The row k that applySSOUserInfo found, with the provider's address.
Applied(p, k) ==
    [users[k] EXCEPT !.email = IF form[p].email = Empty THEN users[k].email ELSE form[p].email]

Transition(p, label, k, r, fails) ==
    \/ pc[p] = "hasAdmin" /\ label = "write" /\ k = 0 /\ r = DefaultAdmin
    \/ pc[p] = "admin" /\ label = (IF op[p] = "update" THEN "read" ELSE "username")
       /\ k = key[p] /\ r = row[p]
    \/ pc[p] = "read" /\ label = "username" /\ k \in DOMAIN users /\ r = users[k]
    \/ pc[p] = "count" /\ op[p] = "register" /\ label = "username" /\ k = 0 /\ r = row[p]
    \/ pc[p] = "count" /\ op[p] = "sso" /\ label = "write" /\ k = 0
       /\ r = NewSSOUser(p, fails \/ users = <<>>)
    \/ pc[p] = "email" /\ op[p] = "sso" /\ label = "write"
       /\ k \in Mailed(form[p].email) /\ r = Applied(p, k)
    \/ pc[p] = "username" /\ op[p] = "sso" /\ label = "write"
       /\ k \in Named(form[p].username) /\ r = Applied(p, k)
    \/ pc[p] = "email" /\ op[p] = "sso" /\ label = "username" /\ k = 0 /\ r = row[p]
       /\ (fails \/ Mailed(form[p].email) = {})
    \/ pc[p] = "username" /\ op[p] = "sso" /\ label = "count" /\ k = 0 /\ r = row[p]
       /\ (fails \/ Named(form[p].username) = {})
    \/ pc[p] = "username" /\ op[p] # "sso" /\ label = "email" /\ k = key[p] /\ r = row[p]
    \/ pc[p] = "email" /\ op[p] # "sso" /\ label = "write" /\ k = key[p] /\ r = Completed(p)

GoesOn(p) ==
    /\ UNCHANGED <<users, demoted>> /\ up' \in BOOLEAN
    /\ \E label, k, r : \E fails \in BOOLEAN :
          Continue(p, label, k, r, fails) /\ Transition(p, label, k, r, fails)

GivesUp(p) == UNCHANGED <<users, demoted>> /\ up' \in BOOLEAN /\ pc[p] # "idle" /\ Return(p)

\* applySSOUserInfo saves the row it has found, or has nothing to save.
LEMMA Applies ==
    ASSUME NEW p \in Procs, NEW i \in Mailed(form[p].email) \cup Named(form[p].username),
           op[p] = "sso", pc[p] = "email" => i \in Mailed(form[p].email),
           pc[p] = "username" => i \in Named(form[p].username), pc[p] \in {"email", "username"},
           UNCHANGED <<users, up, demoted>>, up \in BOOLEAN, ApplyIdentity(p, i)
    PROVE  GoesOn(p) \/ GivesUp(p)
<1>1. CASE Return(p)
  BY <1>1 DEF GivesUp
<1>2. CASE Continue(p, "write", i, Applied(p, i), FALSE)
  <2>1. Transition(p, "write", i, Applied(p, i), FALSE)
    BY DEF Transition
  <2> QED
    BY <1>2, <2>1 DEF GoesOn
<1> QED
  BY <1>1, <1>2, Zenon DEF ApplyIdentity, Applied

LEMMA Moves ==
    ASSUME AccountTypes, NEW p \in Procs, Step(p)
    PROVE  GoesOn(p) \/ GivesUp(p) \/ Write(p)
<1>1. up \in BOOLEAN
  BY DEF AccountTypes, UTypeOK
<1>2. CASE HasAdmin(p)
  BY <1>1, <1>2 DEF HasAdmin, GivesUp, GoesOn, Transition
<1>3. CASE RequireAdmin(p)
  BY <1>1, <1>3 DEF RequireAdmin, GivesUp, GoesOn, Transition
<1>4. CASE FindByID(p)
  BY <1>1, <1>4 DEF FindByID, GivesUp, GoesOn, Transition
<1>5. CASE CountUsers(p)
  BY <1>1, <1>5 DEF CountUsers, GivesUp, GoesOn, Transition
<1>6. CASE FindByUsername(p)
  <2>1. pc[p] = "username" /\ UNCHANGED <<users, up, demoted>>
    BY <1>6 DEF FindByUsername
  <2>2. PICK fails \in BOOLEAN, asked \in BOOLEAN :
           LET found == IF fails \/ ~asked THEN {} ELSE Named(form[p].username) IN
           /\ asked = (op[p] # "update" \/ form[p].username \notin {Empty, row[p].username})
           /\ \/ op[p] = "sso" /\ FindForSSO(p, "count", found, fails)
              \/ op[p] # "sso" /\ found \ {key[p]} # {} /\ Return(p)
              \/ op[p] # "sso" /\ found \ {key[p]} = {} /\ Continue(p, "email", key[p], row[p], fails)
    BY <1>6 DEF FindByUsername
  <2> DEFINE found == IF fails \/ ~asked THEN {} ELSE Named(form[p].username)
  <2>3. CASE op[p] = "sso" /\ found # {}
    <3>1. PICK i \in found : ApplyIdentity(p, i)
      BY <2>2, <2>3 DEF FindForSSO
    <3>2. i \in Named(form[p].username)
      BY <3>1
    <3> QED
      BY <1>1, <2>1, <2>3, <3>1, <3>2, Applies
  <2>4. CASE op[p] = "sso" /\ found = {}
    <3>1. Continue(p, "count", 0, row[p], fails)
      BY <2>2, <2>4 DEF FindForSSO
    <3>2. fails \/ Named(form[p].username) = {}
      BY <2>2, <2>4
    <3> QED
      BY <1>1, <2>1, <2>4, <3>1, <3>2 DEF GoesOn, Transition
  <2>5. CASE op[p] # "sso"
    BY <1>1, <2>1, <2>2, <2>5 DEF GivesUp, GoesOn, Transition
  <2> QED
    BY <2>3, <2>4, <2>5
<1>7. CASE FindByEmail(p)
  <2>1. pc[p] = "email" /\ UNCHANGED <<users, up, demoted>>
    BY <1>7 DEF FindByEmail
  <2>2. PICK fails \in BOOLEAN, asked \in BOOLEAN :
           LET found == IF fails \/ ~asked THEN {} ELSE Mailed(form[p].email) IN
           /\ asked = (op[p] # "update" \/ form[p].email \notin {Empty, row[p].email})
           /\ \/ op[p] = "sso" /\ FindForSSO(p, "username", found, fails)
              \/ op[p] # "sso" /\ found \ {key[p]} # {} /\ Return(p)
              \/ op[p] # "sso" /\ found \ {key[p]} = {} /\ Continue(p, "write", key[p], Completed(p), fails)
    BY <1>7 DEF FindByEmail
  <2> DEFINE found == IF fails \/ ~asked THEN {} ELSE Mailed(form[p].email)
  <2>3. CASE op[p] = "sso" /\ found # {}
    <3>1. PICK i \in found : ApplyIdentity(p, i)
      BY <2>2, <2>3 DEF FindForSSO
    <3>2. i \in Mailed(form[p].email)
      BY <3>1
    <3> QED
      BY <1>1, <2>1, <2>3, <3>1, <3>2, Applies
  <2>4. CASE op[p] = "sso" /\ found = {}
    <3>1. Continue(p, "username", 0, row[p], fails)
      BY <2>2, <2>4 DEF FindForSSO
    <3>2. fails \/ Mailed(form[p].email) = {}
      BY <2>2, <2>4
    <3> QED
      BY <1>1, <2>1, <2>4, <3>1, <3>2 DEF GoesOn, Transition
  <2>5. CASE op[p] # "sso"
    BY <1>1, <2>1, <2>2, <2>5 DEF GivesUp, GoesOn, Transition
  <2> QED
    BY <2>3, <2>4, <2>5
<1> QED
  BY <1>2, <1>3, <1>4, <1>5, <1>6, <1>7 DEF Step

----------------------------------------------------------------------------
(* Types.                                                                   *)

PCs == {"idle", "hasAdmin", "admin", "read", "username", "email", "count", "write"}

\* What the handler of p works on next, whatever it was asked.
LEMMA TransitionTypes ==
    ASSUME AccountTypes, NEW p \in Procs, NEW label, NEW k, NEW r, NEW fails \in BOOLEAN,
           Transition(p, label, k, r, fails)
    PROVE  /\ label \in {"read", "username", "email", "count", "write"} /\ pc[p] # "idle"
           /\ k \in Nat /\ r \in Rows \cup {NoRow}
           /\ label = "read" => op[p] = "update"
           /\ label = "count" => op[p] = "sso"
           /\ label \in {"username", "email"} => op[p] # "start"
           /\ label \in {"username", "email"} /\ op[p] = "update" => r \in Rows /\ k \in DOMAIN users
           /\ op[p] # "update" /\ label # "write" => k = 0
           /\ label = "write" => r \in Rows /\ (k = 0 \/ k \in DOMAIN users)
<1> DEFINE Goal == /\ label \in {"read", "username", "email", "count", "write"} /\ pc[p] # "idle"
                   /\ k \in Nat /\ r \in Rows \cup {NoRow}
                   /\ label = "read" => op[p] = "update"
                   /\ label = "count" => op[p] = "sso"
                   /\ label \in {"username", "email"} => op[p] # "start"
                   /\ label \in {"username", "email"} /\ op[p] = "update" => r \in Rows /\ k \in DOMAIN users
                   /\ op[p] # "update" /\ label # "write" => k = 0
                   /\ label = "write" => r \in Rows /\ (k = 0 \/ k \in DOMAIN users)
<1>1. /\ key[p] \in Nat /\ row[p] \in Rows \cup {NoRow} /\ Reached(p)
      /\ \A j \in DOMAIN users : j \in Nat /\ users[j] \in Rows
  BY TableDomain DEF AccountTypes, UTypeOK
<1>2. CASE pc[p] = "hasAdmin" /\ label = "write" /\ k = 0 /\ r = DefaultAdmin
  BY <1>1, <1>2, AccountAssumption DEF DefaultAdmin, Rows, Roles
<1>3. CASE /\ pc[p] = "admin" /\ label = (IF op[p] = "update" THEN "read" ELSE "username")
           /\ k = key[p] /\ r = row[p]
  BY <1>1, <1>3 DEF Reached
<1>4. CASE pc[p] = "read" /\ label = "username" /\ k \in DOMAIN users /\ r = users[k]
  BY <1>1, <1>4 DEF Reached
<1>5. CASE pc[p] = "count" /\ op[p] = "register" /\ label = "username" /\ k = 0 /\ r = row[p]
  BY <1>1, <1>5 DEF Reached
<1>6. CASE /\ pc[p] = "count" /\ op[p] = "sso" /\ label = "write" /\ k = 0
           /\ r = NewSSOUser(p, fails \/ users = <<>>)
  <2>1. (fails \/ users = <<>>) \in BOOLEAN
    OBVIOUS
  <2>2. r \in Rows
    BY <1>6, <2>1, SSOUserType
  <2> QED
    BY <1>6, <2>2
<1>7. CASE /\ pc[p] \in {"email", "username"} /\ op[p] = "sso" /\ label = "write" /\ r = Applied(p, k)
           /\ k \in Mailed(form[p].email) \cup Named(form[p].username)
  <2>1. k \in DOMAIN users /\ users[k] \in Rows
    BY <1>1, <1>7 DEF Mailed, Named
  <2>2. form[p].email \in Emails \cup {Empty}
    BY <1>1, <1>7, Asked DEF Reached
  <2>3. r \in Rows
    BY <1>7, <2>1, <2>2 DEF Applied, Rows
  <2> QED
    BY <1>1, <1>7, <2>1, <2>3
<1>8. CASE /\ pc[p] \in {"email", "username"} /\ op[p] = "sso" /\ label \in {"username", "count"}
           /\ k = 0 /\ r = row[p]
  BY <1>1, <1>8
<1>9. CASE pc[p] = "username" /\ op[p] # "sso" /\ label = "email" /\ k = key[p] /\ r = row[p]
  BY <1>1, <1>9 DEF Reached
<1>10. CASE pc[p] = "email" /\ op[p] # "sso" /\ label = "write" /\ k = key[p] /\ r = Completed(p)
  BY <1>1, <1>10, CompletedType DEF Reached
<1> QED
  BY <1>2, <1>3, <1>4, <1>5, <1>6, <1>7, <1>8, <1>9, <1>10 DEF Transition

LEMMA BeginTypes ==
    ASSUME AccountTypes, NEW p \in Procs, NEW q \in Requests, Begin(p, q.op, q.form)
    PROVE  AccountTypes'
<1>1. /\ q \in [op : Ops, form : Forms] /\ q = [op |-> q.op, form |-> q.form]
      /\ q.op \in Ops /\ q.form \in Forms
  BY AccountAssumption
<1>2. /\ pc[p] = "idle" /\ op' = [op EXCEPT ![p] = q.op] /\ form' = [form EXCEPT ![p] = q.form]
      /\ UNCHANGED <<users, up, key, row, overlapped, demoted>> /\ faulted' = faulted \ {p}
      /\ q.op \in {"create", "update"} => users # <<>>
  BY DEF Begin
<1> DEFINE to == CASE q.op = "start"    -> "hasAdmin"
                   [] q.op = "register" -> "count"
                   [] q.op = "sso"      -> IF q.form.email = Empty THEN "username" ELSE "email"
                   [] OTHER             -> "admin"
<1>3. pc' = [pc EXCEPT ![p] = to]
  BY DEF Begin, Goto
<1>4. /\ to \in PCs
      /\ to = "hasAdmin" => q.op = "start"
      /\ to = "admin" => q.op \in {"create", "update"}
      /\ to = "count" => q.op = "register"
      /\ to \in {"username", "email"} => q.op = "sso"
      /\ to \notin {"read", "write", "idle"}
  BY <1>1 DEF Ops, PCs
<1> HIDE DEF to
<1>5. UTypeOK'
  BY <1>1, <1>2, <1>3, <1>4 DEF AccountTypes, UTypeOK, PCs
<1>6. /\ op'[p] = q.op /\ form'[p] = q.form /\ pc'[p] = to
      /\ \A o \in Procs \ {p} : op'[o] = op[o] /\ form'[o] = form[o] /\ pc'[o] = pc[o]
  BY <1>2, <1>3 DEF AccountTypes, UTypeOK
<1>7. Reached(p)'
  <2>1. [op |-> op'[p], form |-> form'[p]] \in Requests
    BY <1>1, <1>6
  <2>2. op'[p] # "update" => key[p] = 0
    BY <1>2 DEF AccountTypes, Reached
  <2> QED
    BY <1>2, <1>4, <1>6, <2>1, <2>2 DEF Reached
<1>8. \A o \in Procs \ {p} : Reached(o)'
  BY <1>2, <1>6 DEF AccountTypes, Reached
<1> QED
  BY <1>5, <1>7, <1>8 DEF AccountTypes

LEMMA GoesOnTypes ==
    ASSUME AccountTypes, NEW p \in Procs, GoesOn(p)
    PROVE  AccountTypes'
<1>1. PICK label, k, r : \E fails \in BOOLEAN :
         Continue(p, label, k, r, fails) /\ Transition(p, label, k, r, fails)
  BY DEF GoesOn
<1>2. PICK fails \in BOOLEAN : Continue(p, label, k, r, fails) /\ Transition(p, label, k, r, fails)
  BY <1>1
<1>3. /\ label \in {"read", "username", "email", "count", "write"} /\ pc[p] # "idle"
      /\ k \in Nat /\ r \in Rows \cup {NoRow}
      /\ label = "read" => op[p] = "update"
      /\ label = "count" => op[p] = "sso"
      /\ label \in {"username", "email"} => op[p] # "start"
      /\ label \in {"username", "email"} /\ op[p] = "update" => r \in Rows /\ k \in DOMAIN users
      /\ op[p] # "update" /\ label # "write" => k = 0
      /\ label = "write" => r \in Rows /\ (k = 0 \/ k \in DOMAIN users)
  BY <1>2, TransitionTypes
<1>4. /\ UNCHANGED <<users, demoted, op, form, overlapped>> /\ up' \in BOOLEAN
      /\ pc' = [pc EXCEPT ![p] = label]
      /\ faulted' = IF fails THEN faulted \cup {p} ELSE faulted
      /\ key' = [key EXCEPT ![p] = k] /\ row' = [row EXCEPT ![p] = r]
  BY <1>2 DEF GoesOn, Continue, Goto
<1>5. UTypeOK'
  BY <1>3, <1>4 DEF AccountTypes, UTypeOK
<1>6. /\ pc'[p] = label /\ key'[p] = k /\ row'[p] = r
      /\ \A o \in Procs \ {p} : pc'[o] = pc[o] /\ key'[o] = key[o] /\ row'[o] = row[o]
  BY <1>4 DEF AccountTypes, UTypeOK
<1>7. Reached(p)'
  BY <1>3, <1>4, <1>6 DEF AccountTypes, Reached
<1>8. \A o \in Procs \ {p} : Reached(o)'
  BY <1>4, <1>6 DEF AccountTypes, Reached
<1> QED
  BY <1>5, <1>7, <1>8 DEF AccountTypes

\* A handler that leaves has nothing in hand any more.
LEMMA Leaves ==
    ASSUME AccountTypes, NEW p \in Procs, Leave(p)
    PROVE  /\ pc' \in [Procs -> PCs] /\ op' \in [Procs -> Ops] /\ form' \in [Procs -> Forms]
           /\ key' \in [Procs -> Nat] /\ row' \in [Procs -> Rows \cup {NoRow}]
           /\ pc'[p] = "idle" /\ op'[p] = "start" /\ key'[p] = 0
           /\ \A o \in Procs \ {p} : /\ pc'[o] = pc[o] /\ op'[o] = op[o] /\ form'[o] = form[o]
                                     /\ key'[o] = key[o] /\ row'[o] = row[o]
<1>1. NoRow \in Forms
  BY DEF NoRow, Forms
<1> QED
  BY <1>1 DEF Leave, Goto, AccountTypes, UTypeOK, PCs, Ops

LEMMA GivesUpTypes ==
    ASSUME AccountTypes, NEW p \in Procs, GivesUp(p)
    PROVE  AccountTypes'
<1>1. /\ UNCHANGED <<users, demoted>> /\ up' \in BOOLEAN /\ Leave(p)
      /\ overlapped' = overlapped \ {p} /\ faulted' = faulted \ {p}
  BY DEF GivesUp, Return
<1>2. UTypeOK'
  BY <1>1, Leaves DEF AccountTypes, UTypeOK, PCs
<1>3. Reached(p)'
  BY <1>1, Leaves DEF Reached
<1>4. \A o \in Procs \ {p} : Reached(o)'
  BY <1>1, Leaves DEF AccountTypes, Reached
<1> QED
  BY <1>2, <1>3, <1>4 DEF AccountTypes

\* What Write makes of the table: it stays, or its last or saved row is the
\* handler's, and no row ever leaves it.
LEMMA Written ==
    ASSUME AccountTypes, NEW p \in Procs, Write(p)
    PROVE  /\ pc[p] = "write" /\ Leave(p)
           /\ \/ /\ users' = users /\ overlapped' = overlapped \ {p}
                 /\ demoted' = demoted
                 /\ Admitted(row[p], key[p]) => p \in faulted'
              \/ /\ Admitted(row[p], key[p])
                 /\ overlapped' = {q \in Procs : pc[q] # "idle"} \ {p}
                 /\ demoted' = (demoted \/ (op[p] = "update" /\ form[p].role = "user"))
                 /\ \/ key[p] = 0 /\ users' = Append(users, row[p])
                    \/ key[p] \in DOMAIN users /\ users' = [users EXCEPT ![key[p]] = row[p]]
           /\ users' \in Seq(Rows) /\ DOMAIN users \subseteq DOMAIN users'
           /\ users # <<>> => users' # <<>>
           /\ \A i \in DOMAIN users : i # key[p] => users'[i] = users[i]
           /\ up' \in BOOLEAN /\ demoted' \in BOOLEAN
           /\ faulted' \subseteq faulted \cup {p} /\ faulted \subseteq faulted' \cup {p}
<1>1. PICK fails \in BOOLEAN :
         LET ok == ~fails /\ Admitted(row[p], key[p]) IN
         /\ faulted' = IF fails THEN faulted \cup {p} ELSE faulted \ {p}
         /\ users' = IF ~ok THEN users
                     ELSE IF key[p] = 0 THEN Append(users, row[p])
                     ELSE [users EXCEPT ![key[p]] = row[p]]
         /\ overlapped' = (IF ok THEN {q \in Procs : pc[q] # "idle"} ELSE overlapped) \ {p}
         /\ demoted' = (demoted \/ (ok /\ op[p] = "update" /\ form[p].role = "user"))
         /\ Leave(p)
  BY DEF Write
<1>2. /\ pc[p] = "write" /\ up' \in BOOLEAN /\ demoted \in BOOLEAN /\ users \in Seq(Rows)
      /\ row[p] \in Rows /\ (key[p] = 0 \/ key[p] \in DOMAIN users)
  BY DEF Write, AccountTypes, UTypeOK, Reached
<1>3. CASE fails \/ ~Admitted(row[p], key[p])
  BY <1>1, <1>2, <1>3
<1>4. CASE ~fails /\ Admitted(row[p], key[p])
  <2>1. CASE key[p] = 0
    <3>1. users' = Append(users, row[p])
      BY <1>1, <1>4, <2>1
    <3> HIDE <1>1
    <3>2. /\ users' \in Seq(Rows) /\ Len(users') = Len(users) + 1
          /\ \A i \in DOMAIN users : users'[i] = users[i]
      BY <1>2, <3>1, AppendedTable
    <3>3. DOMAIN users \subseteq DOMAIN users' /\ users' # <<>>
      BY <1>2, <3>2, TableDomain
    <3> QED
      BY <1>1, <1>2, <1>4, <2>1, <3>1, <3>2, <3>3
  <2>2. CASE key[p] # 0
    <3>1. users' = [users EXCEPT ![key[p]] = row[p]] /\ key[p] \in DOMAIN users
      BY <1>1, <1>2, <1>4, <2>2
    <3>2. /\ users' \in Seq(Rows) /\ Len(users') = Len(users)
          /\ \A i \in DOMAIN users : i # key[p] => users'[i] = users[i]
      BY <1>2, <3>1, SavedTable
    <3>3. DOMAIN users \subseteq DOMAIN users' /\ (users # <<>> => users' # <<>>)
      BY <1>2, <3>2, TableDomain
    <3> QED
      BY <1>1, <1>2, <1>4, <2>2, <3>1, <3>2, <3>3
  <2> QED
    BY <2>1, <2>2
<1> QED
  BY <1>3, <1>4

LEMMA WriteTypes ==
    ASSUME AccountTypes, NEW p \in Procs, Write(p)
    PROVE  AccountTypes'
<1>1. /\ Leave(p) /\ users' \in Seq(Rows) /\ DOMAIN users \subseteq DOMAIN users'
      /\ users # <<>> => users' # <<>>
      /\ up' \in BOOLEAN /\ demoted' \in BOOLEAN
      /\ faulted' \subseteq faulted \cup {p} /\ overlapped' \subseteq Procs
  BY Written DEF AccountTypes, UTypeOK
<1>2. UTypeOK'
  BY <1>1, Leaves DEF AccountTypes, UTypeOK, PCs
<1>3. Reached(p)'
  BY <1>1, Leaves DEF Reached
<1>4. \A o \in Procs \ {p} : Reached(o)'
  BY <1>1, Leaves DEF AccountTypes, Reached
<1> QED
  BY <1>2, <1>3, <1>4 DEF AccountTypes

LEMMA AccountTypeStep == AccountTypes /\ [ANext]_avars => AccountTypes'
<1> SUFFICES ASSUME AccountTypes, [ANext]_avars PROVE AccountTypes'
  OBVIOUS
<1>1. CASE UNCHANGED avars
  BY <1>1 DEF avars, work, AccountTypes, UTypeOK, Reached
<1>2. CASE ANext
  BY <1>2, Moves, BeginTypes, GoesOnTypes, GivesUpTypes, WriteTypes DEF ANext
<1> QED
  BY <1>1, <1>2

\* The types, for every order of the statements of UserController, AuthController,
\* FindOrCreateSSOUser (models/user.go) and createAdmin (commands/serve.go): who
\* saves an account has a complete row, and the id of a row that exists.
THEOREM AccountTypeCorrect == ASpec => [](UTypeOK /\ \A p \in Procs : Reached(p))
<1>1. AInit => AccountTypes
  <2> SUFFICES ASSUME AInit PROVE AccountTypes
    OBVIOUS
  <2>1. NoRow \in Forms /\ <<>> \in Seq(Rows)
    BY EmptySeq DEF NoRow, Forms
  <2>2. UTypeOK
    BY <2>1 DEF AInit, UTypeOK, Ops
  <2>3. \A p \in Procs : Reached(p)
    BY DEF AInit, Reached
  <2> QED
    BY <2>2, <2>3 DEF AccountTypes
<1> QED
  BY <1>1, AccountTypeStep, PTL DEF ASpec, AccountTypes

----------------------------------------------------------------------------
(* The administrator.                                                       *)

\* As long as nobody has been made a plain user, the first account ever created
\* is an admin's: whoever holds a plain user's row for a new account has seen
\* others, and whoever is about to save the first one keeps its role or has
\* been asked for another.
FirstAdmin ==
    ~demoted =>
       /\ users # <<>> => users[1].role = "admin"
       /\ \A p \in Procs :
             /\ pc[p] \in {"username", "email"} /\ key[p] = 1 => row[p].role = "admin"
             /\ pc[p] = "write" /\ key[p] = 1 =>
                   row[p].role = "admin" \/ (op[p] = "update" /\ form[p].role = "user")
             /\ pc[p] = "write" /\ key[p] = 0 => row[p].role = "admin" \/ users # <<>>

\* The role in a row that a handler is about to hold.
LEMMA RoleOnTheWay ==
    ASSUME AccountTypes, FirstAdmin, ~demoted, NEW p \in Procs, NEW label, NEW k, NEW r,
           NEW fails \in BOOLEAN, Transition(p, label, k, r, fails)
    PROVE  /\ label \in {"username", "email"} /\ k = 1 => r.role = "admin"
           /\ label = "write" /\ k = 1 =>
                 r.role = "admin" \/ (op[p] = "update" /\ form[p].role = "user")
           /\ label = "write" /\ k = 0 => r.role = "admin" \/ users # <<>>
<1>1. /\ Reached(p) /\ users \in Seq(Rows)
      /\ \A j \in DOMAIN users : users[j] \in Rows /\ users # <<>>
  BY TableDomain DEF AccountTypes, UTypeOK
<1>2. /\ users # <<>> => users[1].role = "admin"
      /\ pc[p] \in {"username", "email"} /\ key[p] = 1 => row[p].role = "admin"
  BY DEF FirstAdmin
<1>3. CASE pc[p] = "hasAdmin" /\ label = "write" /\ k = 0 /\ r = DefaultAdmin
  BY <1>3 DEF DefaultAdmin
<1>4. CASE pc[p] = "admin" /\ label = (IF op[p] = "update" THEN "read" ELSE "username") /\ k = key[p]
  BY <1>1, <1>4 DEF Reached
<1>5. CASE pc[p] = "read" /\ label = "username" /\ k \in DOMAIN users /\ r = users[k]
  BY <1>1, <1>2, <1>5
<1>6. CASE pc[p] = "count" /\ label = "username" /\ k = 0
  BY <1>6
<1>7. CASE /\ pc[p] = "count" /\ op[p] = "sso" /\ label = "write" /\ k = 0
           /\ r = NewSSOUser(p, fails \/ users = <<>>)
  <2>1. (fails \/ users = <<>>) \in BOOLEAN
    OBVIOUS
  <2>2. r.role = IF fails \/ users = <<>> THEN "admin" ELSE "user"
    BY <1>7, <2>1, SSOUserType
  <2> QED
    BY <1>7, <2>2
<1>8. CASE /\ label = "write" /\ r = Applied(p, k)
           /\ k \in Mailed(form[p].email) \cup Named(form[p].username)
  <2>1. k \in DOMAIN users /\ users[k] \in Rows
    BY <1>1, <1>8 DEF Mailed, Named
  <2>2. r.role = users[k].role /\ users # <<>>
    BY <1>1, <1>8, <2>1 DEF Applied, Rows
  <2> QED
    BY <1>2, <1>8, <2>1, <2>2
<1>9. CASE label \in {"username", "count"} /\ k = 0
  BY <1>9
<1>10. CASE pc[p] = "username" /\ label = "email" /\ k = key[p] /\ r = row[p]
  BY <1>2, <1>10
<1>11. CASE pc[p] = "email" /\ op[p] # "sso" /\ label = "write" /\ k = key[p] /\ r = Completed(p)
  <2>1. /\ [op |-> op[p], form |-> form[p]] \in Requests /\ op[p] # "start"
        /\ op[p] # "update" => key[p] = 0
        /\ op[p] = "update" => key[p] \in DOMAIN users
        /\ op[p] = "create" => users # <<>>
    BY <1>1, <1>11 DEF Reached
  <2>2. /\ op[p] \in {"register", "create", "update"} /\ form[p].role \in Roles \cup {Empty}
        /\ op[p] = "register" => form[p].role = Empty
    BY <1>11, <2>1, Asked DEF Ops
  <2>3. r.role = IF form[p].role # Empty THEN form[p].role
                 ELSE IF op[p] = "register" THEN "admin"
                 ELSE IF op[p] = "create" THEN "user" ELSE row[p].role
    BY <1>11, CompletedType
  <2> QED
    BY <1>1, <1>2, <1>11, <2>1, <2>2, <2>3 DEF Roles
<1> QED
  BY <1>3, <1>4, <1>5, <1>6, <1>7, <1>8, <1>9, <1>10, <1>11 DEF Transition

LEMMA FirstAdminStep == AccountTypes /\ FirstAdmin /\ [ANext]_avars => FirstAdmin'
<1> SUFFICES ASSUME AccountTypes, FirstAdmin, [ANext]_avars, ~demoted' PROVE FirstAdmin'
  BY DEF FirstAdmin
<1>1. CASE UNCHANGED avars
  BY <1>1 DEF avars, work, FirstAdmin
<1>2. ASSUME NEW p \in Procs, NEW q \in Requests, Begin(p, q.op, q.form)
      PROVE  FirstAdmin'
  <2>1. /\ UNCHANGED <<users, key, row, demoted>> /\ pc[p] = "idle"
        /\ key[p] = 0
    BY <1>2 DEF Begin, AccountTypes, Reached
  <2>2. /\ pc'[p] \notin {"write"}
        /\ \A o \in Procs \ {p} : pc'[o] = pc[o] /\ op'[o] = op[o] /\ form'[o] = form[o]
    BY <1>2 DEF Begin, Goto, AccountTypes, UTypeOK
  <2> QED
    BY <2>1, <2>2 DEF FirstAdmin
<1>3. ASSUME NEW p \in Procs, GoesOn(p) PROVE FirstAdmin'
  <2>1. PICK label, k, r : \E fails \in BOOLEAN :
           Continue(p, label, k, r, fails) /\ Transition(p, label, k, r, fails)
    BY <1>3 DEF GoesOn
  <2>2. /\ UNCHANGED <<users, demoted, op, form>>
        /\ pc'[p] = label /\ key'[p] = k /\ row'[p] = r
        /\ \A o \in Procs \ {p} : pc'[o] = pc[o] /\ key'[o] = key[o] /\ row'[o] = row[o]
    BY <1>3, <2>1 DEF GoesOn, Continue, Goto, AccountTypes, UTypeOK
  <2>3. /\ label \in {"username", "email"} /\ k = 1 => r.role = "admin"
        /\ label = "write" /\ k = 1 => r.role = "admin" \/ (op[p] = "update" /\ form[p].role = "user")
        /\ label = "write" /\ k = 0 => r.role = "admin" \/ users # <<>>
    BY <2>1, <2>2, RoleOnTheWay
  <2> QED
    BY <2>2, <2>3 DEF FirstAdmin
<1>4. ASSUME NEW p \in Procs, GivesUp(p) PROVE FirstAdmin'
  <2>1. UNCHANGED <<users, demoted>> /\ Leave(p)
    BY <1>4 DEF GivesUp, Return
  <2> QED
    BY <2>1, Leaves DEF FirstAdmin
<1>5. ASSUME NEW p \in Procs, Write(p) PROVE FirstAdmin'
  <2>1. /\ pc[p] = "write" /\ Leave(p) /\ (users # <<>> => users' # <<>>)
        /\ \/ users' = users /\ demoted' = demoted
           \/ /\ demoted' = (demoted \/ (op[p] = "update" /\ form[p].role = "user"))
              /\ \/ key[p] = 0 /\ users' = Append(users, row[p])
                 \/ key[p] \in DOMAIN users /\ users' = [users EXCEPT ![key[p]] = row[p]]
    BY <1>5, Written
  <2>2. ~demoted /\ users \in Seq(Rows) /\ row[p] \in Rows
    <3>1. users \in Seq(Rows) /\ row[p] \in Rows
      BY <2>1 DEF AccountTypes, UTypeOK, Reached
    <3>2. ~demoted
      BY <2>1, Zenon
    <3> QED
      BY <3>1, <3>2
  <2>3. users' # <<>> => users'[1].role = "admin"
    <3>1. CASE users' = users
      BY <2>2, <3>1 DEF FirstAdmin
    <3>2. CASE key[p] = 0 /\ users' = Append(users, row[p])
      <4>1. CASE users = <<>>
        <5>1. row[p].role = "admin" /\ Len(users) = 0
          BY <2>1, <2>2, <3>2, <4>1, TableDomain DEF FirstAdmin
        <5> QED
          BY <2>2, <3>2, <5>1, AppendedTable
      <4>2. CASE users # <<>>
        <5>1. 1 \in DOMAIN users
          BY <2>2, <4>2, TableDomain
        <5> QED
          BY <2>2, <3>2, <4>2, <5>1, AppendedTable DEF FirstAdmin
      <4> QED
        BY <4>1, <4>2
    <3>3. CASE /\ key[p] \in DOMAIN users /\ users' = [users EXCEPT ![key[p]] = row[p]]
               /\ ~(op[p] = "update" /\ form[p].role = "user")
      <4>1. users # <<>> /\ 1 \in DOMAIN users
        BY <2>2, <3>3, TableDomain
      <4>2. CASE key[p] = 1
        BY <2>1, <2>2, <3>3, <4>1, <4>2, SavedTable DEF FirstAdmin
      <4>3. CASE key[p] # 1
        BY <2>2, <3>3, <4>1, <4>3, SavedTable DEF FirstAdmin
      <4> QED
        BY <4>2, <4>3
    <3> QED
      BY <2>1, <3>1, <3>2, <3>3
  <2>4. /\ pc'[p] = "idle"
        /\ \A o \in Procs \ {p} : /\ pc'[o] = pc[o] /\ op'[o] = op[o] /\ form'[o] = form[o]
                                  /\ key'[o] = key[o] /\ row'[o] = row[o]
    BY <2>1, Leaves
  <2> QED
    BY <2>1, <2>2, <2>3, <2>4 DEF FirstAdmin
<1> QED
  BY <1>1, <1>2, <1>3, <1>4, <1>5, Moves DEF ANext

\* As long as no update has asked for the role "user", there is an
\* administrator from the first account on: for any number of replicas that
\* start, registrations, SSO logins and edits, in any order and with any of
\* their statements failing.
THEOREM AdminKept == ASpec => []AdminUnlessDemoted
<1>1. AInit => FirstAdmin
  BY DEF AInit, FirstAdmin
<1>2. AccountTypes /\ FirstAdmin => AdminUnlessDemoted
  <2> SUFFICES ASSUME AccountTypes, FirstAdmin, users # <<>>, ~demoted PROVE AnAdmin
    BY DEF AdminUnlessDemoted
  <2>1. 1 \in DOMAIN users
    BY TableDomain DEF AccountTypes, UTypeOK
  <2> QED
    BY <2>1 DEF FirstAdmin, AnAdmin
<1> QED
  BY <1>1, <1>2, FirstAdminStep, AccountTypeCorrect, PTL DEF ASpec, AccountTypes

----------------------------------------------------------------------------
(* Saving a row that is still the table's.                                  *)

\* Unless somebody has written meanwhile, who was not asked for a role has in
\* hand the one the table has.
RoleKept ==
    \A p \in Procs :
        /\ pc[p] \in {"username", "email", "write"} /\ key[p] # 0
        /\ p \notin overlapped /\ form[p].role = Empty
        => row[p].role = users[key[p]].role

LEMMA RoleRead ==
    ASSUME AccountTypes, RoleKept, NEW p \in Procs, p \notin overlapped, form[p].role = Empty,
           NEW label \in {"username", "email", "write"}, NEW k, k # 0, NEW r,
           NEW fails \in BOOLEAN, Transition(p, label, k, r, fails)
    PROVE  r.role = users[k].role
<1>1. Reached(p) /\ \A j \in DOMAIN users : users[j] \in Rows
  BY TableDomain DEF AccountTypes, UTypeOK
<1>2. pc[p] \in {"username", "email"} /\ k = key[p] => row[p].role = users[k].role
  BY DEF RoleKept
<1>3. CASE pc[p] = "admin" /\ label = (IF op[p] = "update" THEN "read" ELSE "username") /\ k = key[p]
  BY <1>1, <1>3 DEF Reached
<1>4. CASE label = "write" /\ r = Applied(p, k) /\ k \in Mailed(form[p].email) \cup Named(form[p].username)
  <2>1. k \in DOMAIN users /\ users[k] \in Rows
    BY <1>1, <1>4 DEF Mailed, Named
  <2> QED
    BY <1>4, <2>1 DEF Applied, Rows
<1>5. CASE pc[p] = "email" /\ op[p] # "sso" /\ label = "write" /\ k = key[p] /\ r = Completed(p)
  <2>1. op[p] = "update"
    BY <1>1, <1>5 DEF Reached
  <2>2. r.role = row[p].role
    BY <1>5, <2>1, CompletedType
  <2> QED
    BY <1>2, <1>5, <2>2
<1> QED
  BY <1>2, <1>3, <1>4, <1>5 DEF Transition

LEMMA RoleKeptStep == AccountTypes /\ RoleKept /\ [ANext]_avars => RoleKept'
<1> SUFFICES ASSUME AccountTypes, RoleKept, [ANext]_avars PROVE RoleKept'
  OBVIOUS
<1>1. CASE UNCHANGED avars
  BY <1>1 DEF avars, work, RoleKept
<1>2. ASSUME NEW p \in Procs, NEW q \in Requests, Begin(p, q.op, q.form)
      PROVE  RoleKept'
  <2>1. UNCHANGED <<users, key, row, overlapped>> /\ key[p] = 0
    BY <1>2 DEF Begin, AccountTypes, Reached
  <2>2. \A o \in Procs \ {p} : pc'[o] = pc[o] /\ form'[o] = form[o]
    BY <1>2 DEF Begin, Goto, AccountTypes, UTypeOK
  <2> QED
    BY <2>1, <2>2 DEF RoleKept
<1>3. ASSUME NEW p \in Procs, GoesOn(p) PROVE RoleKept'
  <2>1. PICK label, k, r : \E fails \in BOOLEAN :
           Continue(p, label, k, r, fails) /\ Transition(p, label, k, r, fails)
    BY <1>3 DEF GoesOn
  <2>2. /\ UNCHANGED <<users, form, overlapped>>
        /\ pc'[p] = label /\ key'[p] = k /\ row'[p] = r
        /\ \A o \in Procs \ {p} : pc'[o] = pc[o] /\ key'[o] = key[o] /\ row'[o] = row[o]
    BY <1>3, <2>1 DEF GoesOn, Continue, Goto, AccountTypes, UTypeOK
  <2>3. /\ label \in {"username", "email", "write"} /\ k # 0 /\ p \notin overlapped /\ form[p].role = Empty
        => r.role = users[k].role
    BY <2>1, RoleRead
  <2> QED
    BY <2>2, <2>3 DEF RoleKept
<1>4. ASSUME NEW p \in Procs, GivesUp(p) PROVE RoleKept'
  <2>1. UNCHANGED users /\ Leave(p) /\ overlapped' = overlapped \ {p}
    BY <1>4 DEF GivesUp, Return
  <2> QED
    BY <2>1, Leaves DEF RoleKept
<1>5. ASSUME NEW p \in Procs, Write(p) PROVE RoleKept'
  <2>1. /\ Leave(p)
        /\ \/ users' = users /\ overlapped' = overlapped \ {p}
           \/ overlapped' = {q \in Procs : pc[q] # "idle"} \ {p}
    BY <1>5, Written
  <2>2. /\ pc'[p] = "idle"
        /\ \A o \in Procs \ {p} : /\ pc'[o] = pc[o] /\ form'[o] = form[o]
                                  /\ key'[o] = key[o] /\ row'[o] = row[o]
    BY <2>1, Leaves
  <2> QED
    BY <2>1, <2>2 DEF RoleKept
<1> QED
  BY <1>1, <1>2, <1>3, <1>4, <1>5, Moves DEF ANext

\* Only p's own Write ends a handler that is about to write.
LEMMA WriterWrites ==
    ASSUME AccountTypes, [ANext]_avars, NEW p \in Procs, Writes(p)
    PROVE  Write(p)
<1>1. CASE UNCHANGED avars
  BY <1>1 DEF avars, Writes
<1>2. ASSUME NEW q \in Procs, NEW r \in Requests, Begin(q, r.op, r.form) PROVE FALSE
  BY <1>2 DEF Begin, Goto, Writes, AccountTypes, UTypeOK
<1>3. ASSUME NEW q \in Procs, Step(q) PROVE q = p
  <2>1. \E label : pc' = [pc EXCEPT ![q] = label]
    BY <1>3, Moves DEF GoesOn, GivesUp, Write, Continue, Return, Leave, Goto
  <2> QED
    BY <2>1 DEF Writes, AccountTypes, UTypeOK
<1>4. Step(p) => Write(p)
  <2>1. pc[p] = "write"
    BY DEF Writes
  <2> QED
    BY <2>1 DEF Step, HasAdmin, RequireAdmin, FindByID, CountUsers, FindByUsername, FindByEmail
<1> QED
  BY <1>1, <1>2, <1>3, <1>4 DEF ANext

\* UpdateUser and applySSOUserInfo: an account's role changes against the request's
\* will only by the save of a row that another request has overtaken.
THEOREM RoleSaved == ASpec => RoleChangeExplained
<1>1. AInit => RoleKept
  BY DEF AInit, RoleKept
<1>2. AccountTypes /\ RoleKept /\ [ANext]_avars =>
         \A p \in Procs, i \in DOMAIN users :
            Writes(p) /\ users'[i].role # users[i].role =>
               form[p].role # Empty \/ p \in overlapped
  <2> SUFFICES ASSUME AccountTypes, RoleKept, [ANext]_avars, NEW p \in Procs, NEW i \in DOMAIN users,
                      Writes(p), form[p].role = Empty, p \notin overlapped
               PROVE  users'[i].role = users[i].role
    OBVIOUS
  <2>1. Write(p)
    BY WriterWrites
  <2>2. /\ pc[p] = "write" /\ (i # key[p] => users'[i] = users[i])
        /\ \/ users' = users
           \/ key[p] = 0
           \/ key[p] \in DOMAIN users /\ users' = [users EXCEPT ![key[p]] = row[p]]
    BY <2>1, Written
  <2>3. i # 0 /\ users \in Seq(Rows) /\ row[p] \in Rows
    <3>1. users \in Seq(Rows) /\ Reached(p)
      BY DEF AccountTypes, UTypeOK
    <3>2. row[p] \in Rows
      BY <2>2, <3>1 DEF Reached
    <3> QED
      BY <3>1, <3>2, TableDomain
  <2>4. CASE i = key[p]
    <3>1. row[p].role = users[i].role
      BY <2>2, <2>3, <2>4 DEF RoleKept
    <3> QED
      BY <2>2, <2>3, <2>4, <3>1, SavedTable
  <2> QED
    BY <2>2, <2>4
<1> QED
  BY <1>1, <1>2, RoleKeptStep, AccountTypeCorrect, PTL DEF ASpec, RoleChangeExplained, AccountTypes

----------------------------------------------------------------------------
(* The SSO login.                                                           *)

\* The unique indices hold.
AccountsDiffer ==
    \A i, j \in DOMAIN users :
        i # j => users[i].username # users[j].username /\ users[i].email # users[j].email

\* The address that an identity without one was made is another account's.
AddressGone(p) == form[p].email = Empty /\ Mailed(LocalEmail[form[p].username]) # {}

\* What a login knows that no failure and no other writer has disturbed: there is
\* no account of the address and of the username it has looked for, and the table
\* will take the row that it is about to write.
Searched(p) ==
    op[p] = "sso" /\ p \notin faulted \cup overlapped =>
       /\ pc[p] \in {"username", "count"} => form[p].email = Empty \/ Mailed(form[p].email) = {}
       /\ pc[p] = "count" => Named(form[p].username) = {}
       /\ pc[p] = "write" => Admitted(row[p], key[p]) \/ AddressGone(p)

AllSearched == AccountsDiffer /\ \A p \in Procs : Searched(p)

\* A search that goes on has found nothing where it looked, and the row that it
\* ends with is admitted.
LEMMA SearchGoesOn ==
    ASSUME AccountTypes, AllSearched, NEW p \in Procs, op[p] = "sso",
           NEW label, NEW k, NEW r, NEW fails \in BOOLEAN, Transition(p, label, k, r, fails),
           ~fails, p \notin faulted \cup overlapped
    PROVE  /\ label \in {"username", "count"} => form[p].email = Empty \/ Mailed(form[p].email) = {}
           /\ label = "count" => Named(form[p].username) = {}
           /\ label = "write" => Admitted(r, k) \/ AddressGone(p)
<1>1. Reached(p) /\ Searched(p) /\ \A j \in DOMAIN users : users[j] \in Rows
  BY TableDomain DEF AccountTypes, UTypeOK, AllSearched
<1>2. pc[p] \notin {"hasAdmin", "admin", "read"}
  BY <1>1 DEF Reached
<1>3. CASE pc[p] = "count" /\ label = "write" /\ k = 0 /\ r = NewSSOUser(p, users = <<>>)
  <2>1. /\ Named(form[p].username) = {} /\ (form[p].email = Empty \/ Mailed(form[p].email) = {})
    BY <1>1, <1>3 DEF Searched
  <2>2. /\ r.username = form[p].username
        /\ r.email = IF form[p].email = Empty THEN LocalEmail[form[p].username] ELSE form[p].email
    BY <1>3, SSOUserType
  <2>3. Mailed(r.email) = {} \/ AddressGone(p)
    BY <2>1, <2>2 DEF AddressGone
  <2>4. Named(r.username) = {} /\ Mailed(r.email) = {} => Admitted(r, k)
    BY DEF Named, Mailed, Admitted
  <2> QED
    BY <1>3, <2>1, <2>2, <2>3, <2>4
<1>4. CASE /\ pc[p] \in {"username", "email"} /\ label = "write" /\ r = Applied(p, k)
           /\ k \in Mailed(form[p].email) \cup Named(form[p].username)
           /\ pc[p] = "email" => k \in Mailed(form[p].email)
  <2>1. k \in DOMAIN users /\ users[k] \in Rows
    BY <1>1, <1>4 DEF Mailed, Named
  <2>2. /\ r.username = users[k].username
        /\ r.email = IF form[p].email = Empty THEN users[k].email ELSE form[p].email
    BY <1>4, <2>1 DEF Applied, Rows
  <2>3. r.email = users[k].email \/ Mailed(r.email) = {}
    BY <1>1, <1>4, <2>1, <2>2 DEF Searched, Mailed
  <2>4. Admitted(r, k)
    BY <2>1, <2>2, <2>3 DEF Admitted, AllSearched, AccountsDiffer, Mailed
  <2> QED
    BY <1>4, <2>4
<1>5. CASE /\ pc[p] = "email" /\ label = "username" /\ Mailed(form[p].email) = {}
  BY <1>5
<1>6. CASE /\ pc[p] = "username" /\ label = "count" /\ Named(form[p].username) = {}
  BY <1>1, <1>6 DEF Searched
<1> QED
  BY <1>2, <1>3, <1>4, <1>5, <1>6 DEF Transition

\* Who writes an admitted row keeps the indices unique.
LEMMA DifferKept ==
    ASSUME AccountTypes, AccountsDiffer, NEW p \in Procs, Write(p)
    PROVE  AccountsDiffer'
<1>1. users \in Seq(Rows) /\ Reached(p) /\ pc[p] = "write"
  BY Written DEF AccountTypes, UTypeOK
<1>2. row[p] \in Rows
  BY <1>1 DEF Reached
<1>3. CASE users' = users
  BY <1>3 DEF AccountsDiffer
<1>4. CASE Admitted(row[p], key[p]) /\ key[p] = 0 /\ users' = Append(users, row[p])
  <2>1. /\ users' \in Seq(Rows) /\ Len(users') = Len(users) + 1
        /\ users'[Len(users) + 1] = row[p] /\ \A i \in DOMAIN users : users'[i] = users[i]
    BY <1>1, <1>2, <1>4, AppendedTable
  <2>2. DOMAIN users' = DOMAIN users \cup {Len(users) + 1} /\ 0 \notin DOMAIN users
    BY <1>1, <2>1, TableDomain
  <2>3. \A i \in DOMAIN users : users[i].username # row[p].username /\ users[i].email # row[p].email
    BY <1>4, <2>2 DEF Admitted
  <2> QED
    BY <2>1, <2>2, <2>3 DEF AccountsDiffer
<1>5. CASE /\ Admitted(row[p], key[p]) /\ key[p] \in DOMAIN users
           /\ users' = [users EXCEPT ![key[p]] = row[p]]
  <2>1. /\ users' \in Seq(Rows) /\ Len(users') = Len(users)
        /\ users'[key[p]] = row[p] /\ \A i \in DOMAIN users : i # key[p] => users'[i] = users[i]
    BY <1>1, <1>2, <1>5, SavedTable
  <2>2. DOMAIN users' = DOMAIN users
    BY <1>1, <2>1, TableDomain
  <2> QED
    BY <1>5, <2>1, <2>2 DEF AccountsDiffer, Admitted
<1> QED
  BY <1>3, <1>4, <1>5, Written

LEMMA SearchKeptStep == AccountTypes /\ AllSearched /\ [ANext]_avars => AllSearched'
<1> SUFFICES ASSUME AccountTypes, AllSearched, [ANext]_avars PROVE AllSearched'
  OBVIOUS
<1>1. CASE UNCHANGED avars
  <2>1. AccountsDiffer'
    BY <1>1 DEF avars, AllSearched, AccountsDiffer
  <2>2. \A p \in Procs : Searched(p)'
    BY <1>1 DEF avars, work, AllSearched, Searched, Named, Mailed, Admitted, AddressGone
  <2> QED
    BY <2>1, <2>2 DEF AllSearched
<1>2. ASSUME NEW p \in Procs, NEW q \in Requests, Begin(p, q.op, q.form)
      PROVE  AllSearched'
  <2>1. UNCHANGED <<users, key, row, overlapped>> /\ faulted' = faulted \ {p}
    BY <1>2 DEF Begin
  <2>2. /\ op'[p] = q.op /\ form'[p] = q.form
        /\ q.op = "sso" => pc'[p] = IF q.form.email = Empty THEN "username" ELSE "email"
        /\ \A o \in Procs \ {p} : pc'[o] = pc[o] /\ form'[o] = form[o] /\ op'[o] = op[o]
    BY <1>2 DEF Begin, Goto, AccountTypes, UTypeOK
  <2>3. Searched(p)'
    BY <2>1, <2>2 DEF Searched
  <2>4. \A o \in Procs \ {p} : Searched(o)'
    BY <2>1, <2>2 DEF AllSearched, Searched, Named, Mailed, Admitted, AddressGone
  <2> QED
    BY <2>1, <2>3, <2>4 DEF AllSearched, AccountsDiffer
<1>3. ASSUME NEW p \in Procs, GoesOn(p) PROVE AllSearched'
  <2>1. PICK label, k, r : \E fails \in BOOLEAN :
           Continue(p, label, k, r, fails) /\ Transition(p, label, k, r, fails)
    BY <1>3 DEF GoesOn
  <2>2. PICK fails \in BOOLEAN :
           Continue(p, label, k, r, fails) /\ Transition(p, label, k, r, fails)
    BY <2>1
  <2>3. /\ UNCHANGED <<users, op, form, overlapped>>
        /\ faulted' = IF fails THEN faulted \cup {p} ELSE faulted
        /\ pc'[p] = label /\ key'[p] = k /\ row'[p] = r
        /\ \A o \in Procs \ {p} : pc'[o] = pc[o] /\ key'[o] = key[o] /\ row'[o] = row[o]
    BY <1>3, <2>2 DEF GoesOn, Continue, Goto, AccountTypes, UTypeOK
  <2>4. ASSUME op[p] = "sso", ~fails, p \notin faulted \cup overlapped
        PROVE  /\ label \in {"username", "count"} => form[p].email = Empty \/ Mailed(form[p].email) = {}
               /\ label = "count" => Named(form[p].username) = {}
               /\ label = "write" => Admitted(r, k) \/ AddressGone(p)
    BY <2>2, <2>4, SearchGoesOn
  <2>5. Searched(p)'
    BY <2>3, <2>4 DEF Searched, Named, Mailed, Admitted, AddressGone
  <2>6. \A o \in Procs \ {p} : Searched(o)'
    BY <2>3 DEF AllSearched, Searched, Named, Mailed, Admitted, AddressGone
  <2> QED
    BY <2>3, <2>5, <2>6 DEF AllSearched, AccountsDiffer
<1>4. ASSUME NEW p \in Procs, GivesUp(p) PROVE AllSearched'
  <2>1. /\ UNCHANGED users /\ Leave(p)
        /\ overlapped' = overlapped \ {p} /\ faulted' = faulted \ {p}
    BY <1>4 DEF GivesUp, Return
  <2>2. Searched(p)'
    BY <2>1, Leaves DEF Searched
  <2>3. \A o \in Procs \ {p} : Searched(o)'
    BY <2>1, Leaves DEF AllSearched, Searched, Named, Mailed, Admitted, AddressGone
  <2> QED
    BY <2>1, <2>2, <2>3 DEF AllSearched, AccountsDiffer
<1>5. ASSUME NEW p \in Procs, Write(p) PROVE AllSearched'
  <2>1. /\ Leave(p) /\ faulted \subseteq faulted' \cup {p}
        /\ \/ users' = users /\ overlapped' = overlapped \ {p}
           \/ overlapped' = {q \in Procs : pc[q] # "idle"} \ {p}
    BY <1>5, Written
  <2>2. Searched(p)'
    BY <2>1, Leaves DEF Searched
  <2>3. ASSUME NEW o \in Procs \ {p} PROVE Searched(o)'
    <3>1. pc'[o] = pc[o] /\ op'[o] = op[o] /\ form'[o] = form[o] /\ key'[o] = key[o] /\ row'[o] = row[o]
      BY <2>1, Leaves
    <3>2. CASE users' = users /\ overlapped' = overlapped \ {p}
      <4>1. Searched(o) /\ (o \notin faulted' \cup overlapped' => o \notin faulted \cup overlapped)
        BY <2>1, <3>2 DEF AllSearched
      <4>2. /\ Mailed(form[o].email)' = Mailed(form[o].email)
            /\ Named(form[o].username)' = Named(form[o].username)
            /\ Admitted(row[o], key[o])' <=> Admitted(row[o], key[o])
            /\ AddressGone(o)' <=> AddressGone(o)
        BY <3>1, <3>2 DEF Named, Mailed, Admitted, AddressGone
      <4> QED
        BY <3>1, <4>1, <4>2 DEF Searched
    <3>3. CASE overlapped' = {q \in Procs : pc[q] # "idle"} \ {p}
      BY <3>1, <3>3 DEF Searched
    <3> QED
      BY <2>1, <3>2, <3>3
  <2>4. AccountsDiffer'
    BY <1>5, DifferKept DEF AllSearched
  <2> QED
    BY <2>2, <2>3, <2>4 DEF AllSearched
<1> QED
  BY <1>1, <1>2, <1>3, <1>4, <1>5, Moves DEF ANext

\* FindOrCreateSSOUser (models/user.go): two look-ups, by address and by username,
\* and the save are enough, unless a statement fails, somebody else writes the
\* table in between, or the made-up address is taken.
THEOREM LoginServed == ASpec => SSOServed
<1>1. AInit => AllSearched
  <2> SUFFICES ASSUME AInit PROVE AllSearched
    OBVIOUS
  <2>1. DOMAIN users = {}
    BY DEF AInit
  <2>2. \A p \in Procs : Searched(p)
    BY DEF AInit, Searched
  <2> QED
    BY <2>1, <2>2 DEF AllSearched, AccountsDiffer
<1>2. AccountTypes /\ AllSearched /\ [ANext]_avars =>
         \A p \in Procs :
            op[p] = "sso" /\ Writes(p) /\ row[p] \notin {users'[i] : i \in DOMAIN users'} =>
               \/ p \in faulted \cup faulted' \cup overlapped
               \/ form[p].email = Empty /\ Mailed(LocalEmail[form[p].username]) # {}
  <2> SUFFICES ASSUME AccountTypes, AllSearched, [ANext]_avars, NEW p \in Procs,
                      op[p] = "sso", Writes(p), row[p] \notin {users'[i] : i \in DOMAIN users'},
                      p \notin faulted \cup faulted' \cup overlapped
               PROVE  AddressGone(p)
    BY DEF AddressGone
  <2>1. Write(p)
    BY WriterWrites
  <2>2. users \in Seq(Rows) /\ Reached(p) /\ Searched(p) /\ pc[p] = "write"
    BY <2>1, Written DEF AccountTypes, UTypeOK, AllSearched
  <2>3. row[p] \in Rows
    BY <2>2 DEF Reached
  <2>4. Admitted(row[p], key[p]) \/ AddressGone(p)
    BY <2>2 DEF Searched
  <2>5. ~(key[p] = 0 /\ users' = Append(users, row[p]))
    BY <2>2, <2>3, AppendedTable, TableDomain
  <2>6. ~(key[p] \in DOMAIN users /\ users' = [users EXCEPT ![key[p]] = row[p]])
    BY <2>2, <2>3, SavedTable, TableDomain
  <2>7. Admitted(row[p], key[p]) => p \in faulted'
    BY <2>1, <2>5, <2>6, Written
  <2> QED
    BY <2>4, <2>7
<1> QED
  BY <1>1, <1>2, SearchKeptStep, AccountTypeCorrect, PTL DEF ASpec, SSOServed, AccountTypes

----------------------------------------------------------------------------
(* The watch list of the browser.                                           *)

\* What the references mean: wsRef is a live socket, a slot is one of a socket
\* or of a timer, and without a context the provider has neither.
References ==
    /\ ws # 0 => st[ws] \in {"connecting", "open"}
    /\ \A s \in Sockets : timer[s] => st[s] = "none"
    /\ effSel = None => \A s \in Sockets : st[s] = "none" /\ ~timer[s]
    /\ sel = None => effSel = None

\* While no connections have crossed: a live socket is wsRef's and of the
\* selected context; a timer is the one whose handle is kept; one that would
\* connect to an old context, or a closing socket that will arm such a timer,
\* finds a socket or another timer before it; an empty list has neither.
OneConnection ==
    ~crossed =>
       /\ \A s \in Sockets :
             /\ st[s] \in {"connecting", "open"} => s = ws /\ ctx[s] = effSel
             /\ timer[s] => tref = s
             /\ timer[s] /\ ctx[s] # effSel => ws # 0
       /\ \A s \in Sockets :
             st[s] = "closing" /\ ctx[s] # effSel /\ effList # {} =>
                ws # 0 \/ \E q \in Sockets : timer[q]
       /\ effList = {} => ws = 0 /\ \A s \in Sockets : ~timer[s]

LEMMA NoSocketZero == 0 \notin Sockets
BY BrowserAssumption, FS_CardinalityType

\* clearTimeout while no connections have crossed leaves no timer at all.
LEMMA CancelsAll ==
    ASSUME BTypeOK, OneConnection, ~crossed
    PROVE  \A s \in Sockets : ~Cancelled[s]
<1> SUFFICES ASSUME NEW s \in Sockets PROVE ~Cancelled[s]
  OBVIOUS
<1>1. /\ timer[s] => tref = s /\ s # 0
      /\ timer \in [Sockets -> BOOLEAN]
  BY NoSocketZero DEF BTypeOK, OneConnection
<1>2. CASE tref = 0
  BY <1>1, <1>2 DEF Cancelled
<1>3. CASE tref # 0
  BY <1>1, <1>3 DEF Cancelled
<1> QED
  BY <1>2, <1>3

LEMMA CancelledType ==
    ASSUME BTypeOK
    PROVE  /\ Cancelled \in [Sockets -> BOOLEAN]
           /\ \A s \in Sockets : Cancelled[s] => timer[s]
BY DEF BTypeOK, Cancelled

\* What closing the socket of wsRef makes of the sockets.
LEMMA ClosedTypes ==
    ASSUME BTypeOK, References
    PROVE  /\ Closed \in [Sockets -> {"none", "connecting", "open", "closing"}]
           /\ Heard \in [Sockets -> SUBSET Keys]
           /\ \A s \in Sockets : /\ Closed[s] = "none" <=> st[s] = "none"
                                 /\ s # ws => Closed[s] = st[s]
                                 /\ s = ws => Closed[s] = "closing"
           /\ Forget(st, Cancelled) \in [Sockets -> Contexts \cup {None}]
           /\ \A s \in Sockets :
                 /\ Forget(st, Cancelled)[s] # None <=> st[s] # "none" \/ Cancelled[s]
                 /\ Forget(st, Cancelled)[s] # None => Forget(st, Cancelled)[s] = ctx[s]
<1>1. /\ Closed \in [Sockets -> {"none", "connecting", "open", "closing"}]
      /\ Heard \in [Sockets -> SUBSET Keys]
      /\ \A s \in Sockets : /\ Closed[s] = "none" <=> st[s] = "none"
                            /\ s # ws => Closed[s] = st[s]
                            /\ s = ws => Closed[s] = "closing"
  BY NoSocketZero DEF BTypeOK, References, Closed, Heard
<1>2. Forget(st, Cancelled) \in [Sockets -> Contexts \cup {None}]
  BY DEF BTypeOK, Forget
<1>3. ASSUME NEW s \in Sockets
      PROVE  /\ Forget(st, Cancelled)[s] # None <=> st[s] # "none" \/ Cancelled[s]
             /\ Forget(st, Cancelled)[s] # None => Forget(st, Cancelled)[s] = ctx[s]
  <2>1. Cancelled[s] => timer[s]
    BY CancelledType
  <2>2. st[s] # "none" \/ timer[s] <=> ctx[s] # None
    BY DEF BTypeOK
  <2>3. Forget(st, Cancelled)[s] = IF st[s] = "none" /\ ~Cancelled[s] THEN None ELSE ctx[s]
    BY DEF Forget
  <2> QED
    BY <2>1, <2>2, <2>3
<1> QED
  BY <1>1, <1>2, <1>3

\* The user's changes and those of the clusters touch no connection.
LEMMA PageSteps ==
    ASSUME BTypeOK, References, OneConnection,
           \/ \E c \in Contexts : SelectContext(c)
           \/ \E k \in Keys : AddResource(k) \/ RemoveResource(k)
           \/ ClearAll
           \/ \E s \in Sockets, k \in Keys : Deleted(s, k)
           \/ \E c \in Contexts, k \in Fleeting : Change(c, k)
    PROVE  BTypeOK' /\ References' /\ OneConnection'
<1>1. UNCHANGED <<refs, net, crossed, faults>>
  BY DEF SelectContext, AddResource, RemoveResource, ClearAll, Deleted, Change
<1>2. /\ sel' \in Contexts \cup {None} /\ (sel' = None => sel = None)
      /\ list' \subseteq Keys /\ wanted' \in SUBSET Keys /\ list' \subseteq wanted'
      /\ exists' \in [Contexts -> SUBSET Keys] /\ changes' \in 0..MaxChanges
  <2>1. ASSUME NEW c \in Contexts, SelectContext(c)
        PROVE  /\ sel' = c /\ UNCHANGED <<list, wanted, exists, changes>>
    BY <2>1 DEF SelectContext
  <2>2. ASSUME NEW c \in Contexts, NEW k \in Fleeting, Change(c, k)
        PROVE  /\ exists' \in [Contexts -> SUBSET Keys] /\ changes' \in 0..MaxChanges
               /\ UNCHANGED <<sel, list, wanted>>
    <3>1. exists' \in [Contexts -> SUBSET Keys]
      BY <2>2, BrowserAssumption DEF Change, BTypeOK
    <3>2. changes' \in 0..MaxChanges
      BY <2>2, BrowserAssumption DEF Change, BTypeOK
    <3> QED
      BY <2>2, <3>1, <3>2 DEF Change, page
  <2>3. ASSUME \/ \E k \in Keys : AddResource(k) \/ RemoveResource(k)
               \/ ClearAll
               \/ \E s \in Sockets, k \in Keys : Deleted(s, k)
        PROVE  /\ list' \subseteq Keys /\ wanted' \in SUBSET Keys /\ list' \subseteq wanted'
               /\ UNCHANGED <<sel, exists, changes>>
    BY <2>3 DEF AddResource, RemoveResource, ClearAll, Deleted, BTypeOK
  <2> QED
    BY <2>1, <2>2, <2>3, BrowserAssumption DEF BTypeOK
<1> QED
  BY <1>1, <1>2 DEF BTypeOK, References, OneConnection, refs, net

LEMMA RemountStep ==
    ASSUME BTypeOK, References, OneConnection, Remount
    PROVE  BTypeOK' /\ References' /\ OneConnection'
<1> USE NoSocketZero, BrowserAssumption
<1>1. BTypeOK'
  BY DEF Remount, BTypeOK, page
<1>2. References' /\ OneConnection'
  BY DEF Remount, References, OneConnection
<1> QED
  BY <1>1, <1>2

\* A new number of resources, none included, is seen by the effect.
LEMMA EmptyListSeen ==
    ASSUME BTypeOK, Cardinality(list) = Cardinality(effList)
    PROVE  list = {} <=> effList = {}
<1>1. IsFiniteSet(list) /\ IsFiniteSet(effList)
  BY BrowserAssumption, FS_Subset DEF BTypeOK
<1> QED
  BY <1>1, FS_EmptySet

LEMMA EffectsStep ==
    ASSUME BTypeOK, References, OneConnection, RunEffects
    PROVE  BTypeOK' /\ References' /\ OneConnection'
<1> USE NoSocketZero, BrowserAssumption
<1>1. effSel' = sel /\ effList' = list /\ UNCHANGED <<sel, list, wanted, exists, faults, changes, crossed>>
  BY DEF RunEffects, page
<1>2. CASE Disconnect /\ (list = {} \/ sel = None)
  <2>1. /\ st' = Closed /\ ws' = 0 /\ subs' = Heard
        /\ tref' = 0 /\ timer' = Cancelled /\ ctx' = Forget(st, Cancelled)
    BY <1>2 DEF Disconnect
  <2>2. BTypeOK'
    <3>1. /\ st' \in [Sockets -> {"none", "connecting", "open", "closing"}]
          /\ ctx' \in [Sockets -> Contexts \cup {None}]
          /\ subs' \in [Sockets -> SUBSET Keys]
          /\ timer' \in [Sockets -> BOOLEAN]
          /\ \A s \in Sockets : st'[s] # "none" \/ timer'[s] <=> ctx'[s] # None
      BY <2>1, ClosedTypes, CancelledType
    <3> QED
      BY <1>1, <2>1, <3>1 DEF BTypeOK
  <2>3. \A s \in Sockets : /\ timer'[s] => timer[s]
                           /\ st'[s] = "none" <=> st[s] = "none"
                           /\ st'[s] \in {"connecting", "open"} => st[s] \in {"connecting", "open"} /\ s # ws
    BY <2>1, ClosedTypes, CancelledType
  <2>4. References'
    BY <1>1, <2>1, <2>3 DEF References
  <2>5. OneConnection'
    <3> SUFFICES ASSUME ~crossed PROVE OneConnection'
      BY <1>1 DEF OneConnection
    <3>1. \A s \in Sockets : ~timer'[s]
      BY <2>1, CancelsAll
    <3>2. \A s \in Sockets : st'[s] \notin {"connecting", "open"}
      BY <2>3 DEF OneConnection
    <3>3. CASE list = {}
      BY <1>1, <2>1, <3>1, <3>2, <3>3 DEF OneConnection
    <3>4. CASE sel = None
      <4>1. \A s \in Sockets : st[s] = "none"
        BY <3>4 DEF References
      <4> QED
        BY <1>1, <2>1, <2>3, <3>1, <3>2, <4>1 DEF OneConnection
    <3> QED
      BY <1>2, <3>3, <3>4
  <2> QED
    BY <2>2, <2>4, <2>5
<1>3. CASE Reconnect /\ sel # None /\ list # {}
  <2>1. PICK s \in Sockets :
           /\ Free(s) /\ ws' = s
           /\ st' = [Closed EXCEPT ![s] = "connecting"]
           /\ ctx' = [Forget(st, Cancelled) EXCEPT ![s] = sel]
    BY <1>3 DEF Reconnect, Connect, NewSocket
  <2>2. subs' = Heard /\ tref' = 0 /\ timer' = Cancelled
    BY <1>3 DEF Reconnect
  <2>3. st[s] = "none" /\ ~timer[s] /\ s # ws
    BY <2>1 DEF Free, References
  <2>4. sel \in Contexts
    BY <1>3 DEF BTypeOK
  <2>5. /\ st' \in [Sockets -> {"none", "connecting", "open", "closing"}]
        /\ ctx' \in [Sockets -> Contexts \cup {None}]
        /\ subs' \in [Sockets -> SUBSET Keys]
        /\ timer' \in [Sockets -> BOOLEAN]
    BY <2>1, <2>2, <2>4, ClosedTypes, CancelledType
  <2>6. /\ st'[s] = "connecting" /\ ctx'[s] = sel /\ ~timer'[s]
        /\ \A q \in Sockets \ {s} :
              /\ st'[q] = Closed[q]
              /\ ctx'[q] = Forget(st, Cancelled)[q]
    BY <2>1, <2>2, <2>3, ClosedTypes, CancelledType
  <2>7. \A q \in Sockets : st'[q] # "none" \/ timer'[q] <=> ctx'[q] # None
    BY <2>2, <2>4, <2>6, ClosedTypes
  <2>8. BTypeOK'
    BY <1>1, <2>1, <2>2, <2>5, <2>7 DEF BTypeOK
  <2>9. References'
    BY <1>1, <1>3, <2>1, <2>2, <2>3, <2>6, ClosedTypes, CancelledType DEF References
  <2>10. OneConnection'
    <3> SUFFICES ASSUME ~crossed PROVE OneConnection'
      BY <1>1 DEF OneConnection
    <3>1. \A q \in Sockets : ~timer'[q]
      BY <2>2, CancelsAll
    <3>2. \A q \in Sockets \ {s} : st'[q] \notin {"connecting", "open"}
      BY <2>6, ClosedTypes DEF OneConnection
    <3> QED
      BY <1>1, <1>3, <2>1, <2>6, <3>1, <3>2 DEF OneConnection
  <2> QED
    BY <2>8, <2>9, <2>10
<1>4. CASE SendList /\ sel = effSel /\ Cardinality(list) = Cardinality(effList)
  <2>1. UNCHANGED <<ws, tref, timer, st, ctx>> /\ subs' \in [Sockets -> SUBSET Keys]
    BY <1>4 DEF SendList, BTypeOK
  <2>2. BTypeOK'
    BY <1>1, <2>1 DEF BTypeOK
  <2>3. effList' = {} <=> effList = {}
    BY <1>1, <1>4, EmptyListSeen
  <2> QED
    BY <1>1, <1>4, <2>1, <2>2, <2>3 DEF References, OneConnection
<1> QED
  BY <1>2, <1>3, <1>4 DEF RunEffects

LEMMA OpenStep ==
    ASSUME BTypeOK, References, OneConnection, NEW s \in Sockets, Open(s)
    PROVE  BTypeOK' /\ References' /\ OneConnection'
<1> USE NoSocketZero
<1>1. /\ st[s] = "connecting" /\ st' = [st EXCEPT ![s] = "open"]
      /\ subs' = [subs EXCEPT ![s] = effList] /\ tref' = 0
      /\ timer' = Cancelled /\ ctx' = Forget(st, Cancelled)
      /\ UNCHANGED <<sel, list, wanted, effSel, effList, ws, exists, faults, changes, crossed>>
  BY DEF Open, page
<1>2. BTypeOK'
  <2>1. /\ st' \in [Sockets -> {"none", "connecting", "open", "closing"}]
        /\ subs' \in [Sockets -> SUBSET Keys]
        /\ \A q \in Sockets : st'[q] = "none" <=> st[q] = "none"
    BY <1>1 DEF BTypeOK
  <2>2. /\ timer' \in [Sockets -> BOOLEAN] /\ ctx' \in [Sockets -> Contexts \cup {None}]
        /\ \A q \in Sockets : st[q] # "none" \/ timer'[q] <=> ctx'[q] # None
    BY <1>1, ClosedTypes, CancelledType
  <2> QED
    BY <1>1, <2>1, <2>2 DEF BTypeOK
<1>3. /\ \A q \in Sockets : /\ timer'[q] => timer[q]
                            /\ ctx'[q] # None => ctx'[q] = ctx[q]
                            /\ st'[q] # "none" => ctx'[q] # None
                            /\ st'[q] \in {"connecting", "open"} <=> st[q] \in {"connecting", "open"}
                            /\ st'[q] = "closing" <=> st[q] = "closing"
                            /\ st'[q] = "none" <=> st[q] = "none"
  BY <1>1, ClosedTypes, CancelledType DEF BTypeOK
<1>4. References'
  BY <1>1, <1>3 DEF References, BTypeOK
<1>5. OneConnection'
  <2> SUFFICES ASSUME ~crossed PROVE OneConnection'
    BY <1>1 DEF OneConnection
  <2>1. \A q \in Sockets : ~timer'[q]
    BY <1>1, CancelsAll
  <2>2. s = ws /\ s # 0
    BY <1>1 DEF OneConnection
  <2> QED
    BY <1>1, <1>3, <2>1, <2>2 DEF OneConnection
<1> QED
  BY <1>2, <1>4, <1>5

LEMMA CloseStep ==
    ASSUME BTypeOK, References, OneConnection, NEW s \in Sockets, FinishClose(s) \/ Fail(s)
    PROVE  BTypeOK' /\ References' /\ OneConnection'
<1> USE NoSocketZero
<1>1. st[s] # "none" /\ ctx[s] # None /\ ~timer[s]
  BY DEF FinishClose, Fail, BTypeOK, References
<1>2. OnClose(s) /\ faults' \in 0..MaxFaults
  BY BrowserAssumption DEF FinishClose, Fail, BTypeOK
<1>3. /\ st' = [st EXCEPT ![s] = "none"] /\ subs' = [subs EXCEPT ![s] = {}]
      /\ ws' = IF ws = s THEN 0 ELSE ws
      /\ UNCHANGED <<sel, list, wanted, effSel, effList, exists, changes>>
  BY <1>2 DEF OnClose, page
<1>4. CASE effList # {}
  <2>1. /\ timer' = [timer EXCEPT ![s] = TRUE] /\ tref' = s
        /\ crossed' = (crossed \/ \E q \in Sockets : timer[q]) /\ UNCHANGED ctx
    BY <1>2, <1>4 DEF OnClose
  <2>2. BTypeOK'
    BY <1>1, <1>2, <1>3, <2>1 DEF BTypeOK
  <2>3. References'
    BY <1>1, <1>3, <2>1 DEF References, BTypeOK
  <2>4. OneConnection'
    <3> SUFFICES ASSUME ~crossed, \A q \in Sockets : ~timer[q] PROVE OneConnection'
      BY <2>1 DEF OneConnection
    <3>1. /\ timer'[s] /\ \A q \in Sockets \ {s} : ~timer'[q]
          /\ st'[s] = "none" /\ \A q \in Sockets \ {s} : st'[q] = st[q]
      BY <1>3, <2>1 DEF BTypeOK
    <3>2. ctx[s] # effSel => ws # 0 /\ ws # s
      BY <1>1, <1>4 DEF FinishClose, Fail, OneConnection, References
    <3> QED
      BY <1>3, <1>4, <2>1, <3>1, <3>2 DEF OneConnection
  <2> QED
    BY <2>2, <2>3, <2>4
<1>5. CASE effList = {}
  <2>1. /\ ctx' = [ctx EXCEPT ![s] = None] /\ UNCHANGED <<timer, tref, crossed>>
    BY <1>2, <1>5 DEF OnClose
  <2>2. BTypeOK'
    BY <1>1, <1>2, <1>3, <2>1 DEF BTypeOK
  <2>3. References'
    BY <1>1, <1>3, <2>1 DEF References, BTypeOK
  <2>4. OneConnection'
    <3> SUFFICES ASSUME ~crossed PROVE OneConnection'
      BY <2>1 DEF OneConnection
    <3> QED
      BY <1>1, <1>3, <1>5, <2>1 DEF OneConnection, BTypeOK
  <2> QED
    BY <2>2, <2>3, <2>4
<1> QED
  BY <1>4, <1>5

LEMMA TimerStep ==
    ASSUME BTypeOK, References, OneConnection, NEW s \in Sockets, FireTimer(s)
    PROVE  BTypeOK' /\ References' /\ OneConnection'
<1> USE NoSocketZero
<1>1. /\ timer[s] /\ timer' = [timer EXCEPT ![s] = FALSE]
      /\ tref' = IF tref = s THEN 0 ELSE tref
      /\ crossed' = (crossed \/ \E q \in Sockets : st[q] = "connecting")
      /\ UNCHANGED <<sel, list, wanted, effSel, effList, subs, exists, faults, changes>>
  BY DEF FireTimer, page
<1>2. st[s] = "none" /\ ctx[s] # None /\ ws # s
  BY <1>1 DEF References, BTypeOK
<1>3. CASE ws # 0 /\ st[ws] = "open"
  <2>1. ctx' = [ctx EXCEPT ![s] = None] /\ UNCHANGED <<ws, st>>
    BY <1>3 DEF FireTimer
  <2>2. BTypeOK'
    BY <1>1, <1>2, <2>1 DEF BTypeOK
  <2>3. References'
    BY <1>1, <2>1 DEF References, BTypeOK
  <2>4. OneConnection'
    <3> SUFFICES ASSUME ~crossed PROVE OneConnection'
      BY <1>1 DEF OneConnection
    <3> QED
      BY <1>1, <1>2, <1>3, <2>1 DEF OneConnection, BTypeOK
  <2> QED
    BY <2>2, <2>3, <2>4
<1>4. CASE ~(ws # 0 /\ st[ws] = "open")
  <2>1. ws' = s /\ st' = [st EXCEPT ![s] = "connecting"] /\ ctx' = [ctx EXCEPT ![s] = ctx[s]]
    BY <1>4 DEF FireTimer, NewSocket
  <2>2. UNCHANGED ctx
    BY <2>1 DEF BTypeOK
  <2>3. BTypeOK'
    BY <1>1, <1>2, <2>1, <2>2 DEF BTypeOK
  <2>4. References'
    BY <1>1, <2>1 DEF References, BTypeOK
  <2>5. OneConnection'
    <3> SUFFICES ASSUME ~crossed, \A q \in Sockets : st[q] # "connecting" PROVE OneConnection'
      BY <1>1 DEF OneConnection
    <3>1. ws = 0
      BY <1>4 DEF References, BTypeOK
    <3>2. ctx[s] = effSel /\ \A q \in Sockets : st[q] \notin {"connecting", "open"}
      BY <1>1, <3>1 DEF OneConnection
    <3>3. \A q \in Sockets : timer[q] => q = s
      BY <1>1 DEF OneConnection
    <3> QED
      BY <1>1, <2>1, <2>2, <3>2, <3>3 DEF OneConnection, BTypeOK
  <2> QED
    BY <2>3, <2>4, <2>5
<1> QED
  BY <1>3, <1>4

BInv == BTypeOK /\ References /\ OneConnection

LEMMA BrowserInit == Init => BInv
<1> SUFFICES ASSUME Init PROVE BInv
  OBVIOUS
<1>1. BTypeOK
  <2>1. \A s \in Sockets : st[s] # "none" \/ timer[s] <=> ctx[s] # None
    BY DEF Init
  <2>2. faults \in 0..MaxFaults /\ changes \in 0..MaxChanges
    BY BrowserAssumption DEF Init
  <2>3. /\ st \in [Sockets -> {"none", "connecting", "open", "closing"}]
        /\ ctx \in [Sockets -> Contexts \cup {None}]
        /\ subs \in [Sockets -> SUBSET Keys]
        /\ timer \in [Sockets -> BOOLEAN]
        /\ exists \in [Contexts -> SUBSET Keys]
    BY DEF Init
  <2> QED
    BY <2>1, <2>2, <2>3 DEF Init, BTypeOK
<1> QED
  BY <1>1, NoSocketZero DEF Init, BInv, References, OneConnection

LEMMA BrowserStep == BInv /\ [Next]_vars => BInv'
<1> SUFFICES ASSUME BTypeOK, References, OneConnection, [Next]_vars
             PROVE  BTypeOK' /\ References' /\ OneConnection'
  BY DEF BInv
<1>1. CASE UNCHANGED vars
  <2>1. UNCHANGED <<sel, list, wanted, effSel, effList, ws, tref, st, ctx, subs, timer,
                    exists, faults, changes, crossed>>
    BY <1>1 DEF vars, page, refs, net
  <2> QED
    BY <2>1 DEF BTypeOK, References, OneConnection
<1>2. CASE Next
  BY <1>2, PageSteps, RemountStep, EffectsStep, OpenStep, CloseStep, TimerStep DEF Next
<1> QED
  BY <1>1, <1>2

LEMMA BrowserInvariant == Spec => []BInv
BY BrowserInit, BrowserStep, PTL DEF Spec

\* The types of the provider's state: a slot has a context exactly as long as it
\* holds a socket or a timer, and the list only what the user has put on it.
THEOREM BrowserTypeCorrect == Spec => []BTypeOK
<1>1. BInv => BTypeOK
  BY DEF BInv
<1> QED
  BY <1>1, BrowserInvariant, PTL

\* connectWebSocket and its effect (OnWatchResourcesProvider.jsx): one live socket at
\* most, of the selected context, while no timer has met a connecting socket or
\* another timer; for any number of sockets, resources, faults and contexts.
THEOREM OneSocket == Spec => []OneSocketOfSelectedContext
<1>1. BInv => OneSocketOfSelectedContext
  BY DEF BInv, OneConnection, OneSocketOfSelectedContext
<1> QED
  BY <1>1, BrowserInvariant, PTL

----------------------------------------------------------------------------
(* The list implements WatchList.                                           *)

LEMMA ListInit == Init => ListKept!Init
<1> SUFFICES ASSUME Init PROVE ListKept!Init
  OBVIOUS
<1>1. BTypeOK
  BY BrowserInit DEF BInv
<1> QED
  BY <1>1 DEF Init, BTypeOK, ListKept!Init

LEMMA ListStep ==
    ASSUME BInv, BInv', [Next]_vars
    PROVE  [ListKept!Next]_(ListKept!vars)
<1> USE DEF ListKept!Next, ListKept!vars
<1>1. ASSUME UNCHANGED <<list, wanted, effSel, exists, crossed>>
      PROVE  [ListKept!Next]_(ListKept!vars)
  BY <1>1
<1>2. ASSUME UNCHANGED <<list, wanted, exists>>, ~crossed' => ~crossed \/ effSel' = None
      PROVE  [ListKept!Next]_(ListKept!vars)
  <2>1. effSel' \in Contexts \cup {None} /\ crossed' \in BOOLEAN
    BY DEF BInv, BTypeOK
  <2>2. ListKept!Rewatch
    BY <1>2, <2>1 DEF ListKept!Rewatch
  <2> QED
    BY <2>2
<1>3. CASE \E c \in Contexts : SelectContext(c)
  BY <1>1, <1>3 DEF SelectContext, refs
<1>4. ASSUME NEW k \in Keys, AddResource(k) PROVE [ListKept!Next]_(ListKept!vars)
  <2>1. ListKept!Watch(k)
    BY <1>4 DEF AddResource, refs, ListKept!Watch
  <2> QED
    BY <2>1
<1>5. ASSUME NEW k \in Keys, RemoveResource(k) PROVE [ListKept!Next]_(ListKept!vars)
  <2>1. ListKept!Unwatch(k)
    BY <1>5 DEF RemoveResource, refs, ListKept!Unwatch
  <2> QED
    BY <2>1
<1>6. CASE ClearAll
  <2>1. ListKept!UnwatchAll
    BY <1>6 DEF ClearAll, refs, ListKept!UnwatchAll
  <2> QED
    BY <2>1
<1>7. CASE Remount
  BY <1>2, <1>7 DEF Remount, page
<1>8. CASE RunEffects
  BY <1>2, <1>8 DEF RunEffects, page
<1>9. ASSUME NEW s \in Sockets, Open(s) PROVE [ListKept!Next]_(ListKept!vars)
  BY <1>1, <1>9 DEF Open, page
<1>10. ASSUME NEW s \in Sockets, FinishClose(s) \/ Fail(s) \/ FireTimer(s)
       PROVE  [ListKept!Next]_(ListKept!vars)
  <2>1. UNCHANGED <<list, wanted, exists, effSel>>
    BY <1>10 DEF FinishClose, Fail, OnClose, FireTimer, page
  <2>2. ~crossed' => ~crossed
    BY <1>10 DEF FinishClose, Fail, OnClose, FireTimer
  <2> QED
    BY <1>2, <2>1, <2>2
<1>11. ASSUME NEW s \in Sockets, NEW k \in Keys, Deleted(s, k)
       PROVE  [ListKept!Next]_(ListKept!vars)
  <2>1. /\ st[s] = "open" /\ k \notin exists[ctx[s]] /\ list' = list \ {k}
        /\ UNCHANGED <<wanted, effSel, exists, crossed>>
    BY <1>11 DEF Deleted, refs
  <2>2. CASE crossed
    <3>1. ListKept!Lose(k)
      BY <2>1, <2>2 DEF ListKept!Lose
    <3> QED
      BY <3>1
  <2>3. CASE ~crossed
    <3>1. ctx[s] = effSel /\ effSel # None
      BY <2>1, <2>3 DEF BInv, BTypeOK, OneConnection
    <3>2. ListKept!Drop(k)
      BY <2>1, <3>1 DEF ListKept!Drop
    <3> QED
      BY <3>2
  <2> QED
    BY <2>2, <2>3
<1>12. ASSUME NEW c \in Contexts, NEW k \in Fleeting, Change(c, k)
       PROVE  [ListKept!Next]_(ListKept!vars)
  <2>1. exists' \in [Contexts -> SUBSET Keys]
    BY DEF BInv, BTypeOK
  <2>2. ListKept!Evolve
    BY <1>12, <2>1 DEF Change, page, refs, ListKept!Evolve
  <2> QED
    BY <2>2
<1>13. CASE UNCHANGED vars
  BY <1>1, <1>13 DEF vars, page, refs
<1> QED
  BY <1>3, <1>4, <1>5, <1>6, <1>7, <1>8, <1>9, <1>10, <1>11, <1>12, <1>13 DEF Next

\* The watch list of the browser keeps WatchList's promise: every step of the
\* provider is one of the abstract list or leaves it as it is, so a resource
\* leaves the list only when the user takes it off, or when the selected
\* context's cluster lacks it, or once connections have crossed.
THEOREM WatchListImplemented == Spec => ImplementsWatchList
<1>1. BInv /\ BInv' /\ [Next]_vars => [ListKept!Next]_(ListKept!vars)
  BY ListStep
<1> QED
  BY <1>1, ListInit, BrowserInvariant, PTL DEF Spec, ImplementsWatchList, ListKept!Spec
==============================================================================
