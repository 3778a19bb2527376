---------------------------- MODULE UserAccounts ----------------------------
(***************************************************************************)
(* The users table of the session mode with a database, and the requests   *)
(* that write it: registration, the administrator's POST and PUT           *)
(* /api/users, the SSO login, and the start of a server replica, which     *)
(* creates the default administrator.                                      *)
(*                                                                         *)
(* Every statement of models/user.go is its own transaction.  A request is *)
(* a sequence of such statements, and any number of requests of any number *)
(* of replicas (three in k8s/deployment.yaml) run between each other's.    *)
(* An account is saved as a whole row, as it was when it was read.         *)
(***************************************************************************)
EXTENDS Naturals, Sequences

CONSTANTS Procs,      \* goroutines serving requests, and starting replicas
          Usernames,
          Emails,
          Empty,      \* the empty string ""
          AdminName,  \* env.AdminUserName
          AdminEmail, \* ... + "@" + ... + ".com"
          LocalEmail, \* username + "@sso.local"
          Requests    \* what handlers may be asked, as [op : Ops, form : Forms]

Roles == {"admin", "user"}
Ops   == {"start", "register", "create", "update", "sso"}

\* A form field that is "" was left out; starting a replica asks for nothing.  An
\* SSO identity has a username: one made from an address is just another username.
Forms == [username : Usernames \cup {Empty}, email : Emails \cup {Empty}, role : Roles \cup {Empty}]
NoRow == [username |-> Empty, email |-> Empty, role |-> Empty]

ASSUME AccountAssumption ==
    /\ Empty \notin Usernames \cup Emails
    /\ AdminName \in Usernames
    /\ AdminEmail \in Emails
    /\ LocalEmail \in [Usernames -> Emails]
    /\ Requests \subseteq [op : Ops, form : Forms]
    /\ \A r \in Requests :
          /\ r.op = "start" => r.form = NoRow
          /\ r.op \in {"register", "sso"} => r.form.role = Empty /\ r.form.username # Empty
          /\ r.op \in {"register", "create"} => r.form.username # Empty /\ r.form.email # Empty

\* A row of the table; its id is its position.  Names, password and dates are
\* left out: they are only carried along.
Rows == [username : Usernames, email : Emails, role : Roles]

VARIABLES users,      \* the table
          up,         \* has some replica begun to serve?
          pc,         \* where each request is
          op,         \* which handler it runs
          form,       \* what it was asked: a username, an address and a role, or ""
          key,        \* the id of the row it writes; 0 for a new one
          row,        \* the models.User it works on
          faulted,    \* requests with a statement that the database failed
          overlapped, \* requests during which another one wrote the table
          demoted     \* has an update ever asked for the role "user"?

work  == <<op, form, key, row>>
avars == <<users, up, pc, work, faulted, overlapped, demoted>>

UTypeOK ==
    /\ users \in Seq(Rows)
    /\ up \in BOOLEAN
    /\ pc \in [Procs -> {"idle", "hasAdmin", "admin", "read", "username", "email", "count", "write"}]
    /\ op \in [Procs -> Ops]
    /\ form \in [Procs -> Forms]
    /\ key \in [Procs -> Nat]
    /\ row \in [Procs -> Rows \cup {NoRow}]
    /\ faulted \subseteq Procs
    /\ overlapped \subseteq Procs
    /\ demoted \in BOOLEAN

AInit ==
    /\ users = <<>>
    /\ up = FALSE
    /\ pc = [p \in Procs |-> "idle"]
    /\ op = [p \in Procs |-> "start"]
    /\ form = [p \in Procs |-> NoRow]
    /\ key = [p \in Procs |-> 0]
    /\ row = [p \in Procs |-> NoRow]
    /\ faulted = {}
    /\ overlapped = {}
    /\ demoted = FALSE

----------------------------------------------------------------------------

Goto(p, label) == pc' = [pc EXCEPT ![p] = label]

\* The handler goes on to another statement, with the row r for the key k; the
\* statement it comes from may have failed: the connection drops, a timeout.
Continue(p, label, k, r, fails) ==
    /\ Goto(p, label)
    /\ faulted' = IF fails THEN faulted \cup {p} ELSE faulted
    /\ key' = [key EXCEPT ![p] = k]
    /\ row' = [row EXCEPT ![p] = r]
    /\ UNCHANGED <<op, form, overlapped>>

\* It returns, and what it worked on is forgotten.
Leave(p) ==
    /\ Goto(p, "idle")
    /\ op' = [op EXCEPT ![p] = "start"]
    /\ form' = [form EXCEPT ![p] = NoRow]
    /\ key' = [key EXCEPT ![p] = 0]
    /\ row' = [row EXCEPT ![p] = NoRow]

Return(p) ==
    /\ Leave(p)
    /\ overlapped' = overlapped \ {p}
    /\ faulted' = faulted \ {p}

\* The rows that First finds.
Named(name)   == {i \in DOMAIN users : users[i].username = name}
Mailed(email) == {i \in DOMAIN users : users[i].email = email}

AnAdmin == \E i \in DOMAIN users : users[i].role = "admin"

\* A request comes in, or a replica starts, which asks for nothing.
Begin(p, o, f) ==
    /\ pc[p] = "idle"
    /\ up \/ o = "start"
    /\ o \in {"create", "update"} => users # <<>>   \* somebody is logged in
    /\ Goto(p, CASE o = "start"    -> "hasAdmin"
                 [] o = "register" -> "count"
                 [] o = "sso"      -> IF f.email = Empty THEN "username" ELSE "email"
                 [] OTHER          -> "admin")
    /\ op' = [op EXCEPT ![p] = o]
    /\ form' = [form EXCEPT ![p] = f]
    /\ faulted' = faulted \ {p}
    /\ UNCHANGED <<users, up, key, row, overlapped, demoted>>

DefaultAdmin == [username |-> AdminName, email |-> AdminEmail, role |-> "admin"]

\* serve: without an admin the default one is to be created; if that cannot be
\* found out the replica does not come up.
HasAdmin(p) ==
    /\ pc[p] = "hasAdmin"
    /\ \E fails \in BOOLEAN :
          \/ fails /\ Return(p) /\ UNCHANGED up
          \/ ~fails /\ AnAdmin /\ Return(p) /\ up' = TRUE
          \/ ~fails /\ ~AnAdmin /\ Continue(p, "write", 0, DefaultAdmin, FALSE) /\ UNCHANGED up
    /\ UNCHANGED <<users, demoted>>

\* RequireAdmin reads the role of the session's account, a.
RequireAdmin(p) ==
    /\ pc[p] = "admin"
    /\ \E fails \in BOOLEAN, a \in DOMAIN users :
          IF fails \/ users[a].role # "admin"
            THEN Return(p)
            ELSE Continue(p, IF op[p] = "update" THEN "read" ELSE "username", key[p], row[p], FALSE)
    /\ UNCHANGED <<users, up, demoted>>

\* UpdateUser reads the row that it will save, if there is one of that id.
FindByID(p) ==
    /\ pc[p] = "read"
    /\ \E fails \in BOOLEAN, id \in DOMAIN users :
          IF fails THEN Return(p)
                   ELSE Continue(p, "username", id, users[id], FALSE)
    /\ UNCHANGED <<users, up, demoted>>

\* (mutation of NewSSOUser) Nobody becomes an admin by the SSO login.
NewPlainSSOUser(p, none) ==
    [ username |-> form[p].username,
      email    |-> IF form[p].email = Empty THEN LocalEmail[form[p].username] ELSE form[p].email,
      role     |-> "user" ]

\* (mutation of NewSSOUser) The address of an SSO user may stay empty.
NewSSOUserWithoutAddress(p, none) ==
    [ username |-> form[p].username,
      email    |-> form[p].email,
      role     |-> IF none THEN "admin" ELSE "user" ]

NewSSOUser(p, none) ==
    [ username |-> form[p].username,
      email    |-> IF form[p].email = Empty THEN LocalEmail[form[p].username] ELSE form[p].email,
      role     |-> IF none THEN "admin" ELSE "user" ]

\* Register wants no users, and makes the first one an admin; so does the SSO
\* login.  A count that fails is a count of zero.
CountUsers(p) ==
    /\ pc[p] = "count"
    /\ \E fails \in BOOLEAN :
          LET none == fails \/ users = <<>> IN
          \/ op[p] = "register" /\ ~none /\ Return(p)
          \/ op[p] = "register" /\ none /\ Continue(p, "username", 0, row[p], fails)
          \/ op[p] = "sso" /\ Continue(p, "write", 0, NewSSOUser(p, none), fails)
    /\ UNCHANGED <<users, up, demoted>>

\* applySSOUserInfo: the row i that was found gets the provider's address and
\* names, and is saved if that changes anything.
ApplyIdentity(p, i) ==
    LET email == IF form[p].email = Empty THEN users[i].email ELSE form[p].email IN
    \/ Continue(p, "write", i, [users[i] EXCEPT !.email = email], FALSE)
    \/ email = users[i].email /\ Return(p)

\* (mutation of FindForSSO) Accounts are known by their address only.
FindForSSOByEmail(p, label, found, fails) ==
    IF pc[p] = "email" /\ found # {} THEN \E i \in found : ApplyIdentity(p, i)
                                     ELSE Continue(p, label, 0, row[p], fails)

\* FindOrCreateSSOUser: an account that is found is used, else the search goes on.
FindForSSO(p, label, found, fails) ==
    IF found # {} THEN \E i \in found : ApplyIdentity(p, i)
                  ELSE Continue(p, label, 0, row[p], fails)

\* Is the username taken?  An update asks only when it changes it.  SSO looks for
\* the account by username once it has not found one by address.
FindByUsername(p) ==
    /\ pc[p] = "username"
    /\ LET asked == op[p] # "update" \/ form[p].username \notin {Empty, row[p].username} IN
       \E fails \in BOOLEAN :
          LET found == IF fails \/ ~asked THEN {} ELSE Named(form[p].username) IN
          /\ fails => asked
          /\ \/ op[p] = "sso" /\ FindForSSO(p, "count", found, fails)
             \/ op[p] # "sso" /\ found \ {key[p]} # {} /\ Return(p)
             \/ op[p] # "sso" /\ found \ {key[p]} = {} /\ Continue(p, "email", key[p], row[p], fails)
    /\ UNCHANGED <<users, up, demoted>>

\* (mutation of Completed) An update that names no role is one to "user".
CompletedAsUser(p) ==
    [ username |-> IF form[p].username = Empty THEN row[p].username ELSE form[p].username,
      email    |-> IF form[p].email = Empty THEN row[p].email ELSE form[p].email,
      role     |-> IF form[p].role # Empty THEN form[p].role
                   ELSE IF op[p] = "register" THEN "admin" ELSE "user" ]

\* The row as the form wants it: what is left out keeps its value, or its default.
Completed(p) ==
    [ username |-> IF form[p].username = Empty THEN row[p].username ELSE form[p].username,
      email    |-> IF form[p].email = Empty THEN row[p].email ELSE form[p].email,
      role     |-> IF form[p].role # Empty THEN form[p].role
                   ELSE IF op[p] = "register" THEN "admin"
                   ELSE IF op[p] = "create" THEN "user" ELSE row[p].role ]

\* Is the address taken?  For SSO this question comes first.
FindByEmail(p) ==
    /\ pc[p] = "email"
    /\ LET asked == op[p] # "update" \/ form[p].email \notin {Empty, row[p].email} IN
       \E fails \in BOOLEAN :
          LET found == IF fails \/ ~asked THEN {} ELSE Mailed(form[p].email) IN
          /\ fails => asked
          /\ \/ op[p] = "sso" /\ FindForSSO(p, "username", found, fails)
             \/ op[p] # "sso" /\ found \ {key[p]} # {} /\ Return(p)
             \/ op[p] # "sso" /\ found \ {key[p]} = {} /\ Continue(p, "write", key[p], Completed(p), fails)
    /\ UNCHANGED <<users, up, demoted>>

\* The unique indices on username and email admit the row r in place of row k.
Admitted(r, k) ==
    \A i \in DOMAIN users : i # k => users[i].username # r.username /\ users[i].email # r.email

\* Create, or Update, which saves every column.  A replica comes up either way.
Write(p) ==
    /\ pc[p] = "write"
    /\ \E fails \in BOOLEAN :
          LET ok == ~fails /\ Admitted(row[p], key[p]) IN
          /\ faulted' = IF fails THEN faulted \cup {p} ELSE faulted \ {p}
          /\ users' = IF ~ok THEN users
                      ELSE IF key[p] = 0 THEN Append(users, row[p])
                      ELSE [users EXCEPT ![key[p]] = row[p]]
          /\ overlapped' = (IF ok THEN {q \in Procs : pc[q] # "idle"} ELSE overlapped) \ {p}
          /\ demoted' = (demoted \/ (ok /\ op[p] = "update" /\ form[p].role = "user"))
          /\ Leave(p)
    /\ up' = (up \/ op[p] = "start")

Step(p) ==
    \/ HasAdmin(p) \/ RequireAdmin(p) \/ FindByID(p) \/ CountUsers(p)
    \/ FindByUsername(p) \/ FindByEmail(p) \/ Write(p)

ANext ==
    \/ \E p \in Procs, r \in Requests : Begin(p, r.op, r.form)
    \/ \E p \in Procs : Step(p)

ASpec == AInit /\ [][ANext]_avars

----------------------------------------------------------------------------
(* Properties.                                                              *)

\* As long as nobody has been made a plain user, a table that is not empty has an
\* admin in it, whichever of the five handlers filled it, however they overlap
\* and whichever of their statements fail.
AdminUnlessDemoted == users # <<>> /\ ~demoted => AnAdmin

\* The step in which p's handler creates or saves its row, or fails to.
Writes(p) == pc[p] = "write" /\ pc'[p] = "idle"

\* Saving an account changes its role against the request's will only if another
\* request wrote the table between the read and the save.
RoleChangeExplained ==
    [][ \A p \in Procs, i \in DOMAIN users :
          Writes(p) /\ users'[i].role # users[i].role =>
             form[p].role # Empty \/ p \in overlapped ]_avars

\* An SSO login ends without its account only if the database failed it, another
\* request wrote the table meanwhile, or the address made up for it belongs to
\* another account.
SSOServed ==
    [][ \A p \in Procs :
          op[p] = "sso" /\ Writes(p) /\ row[p] \notin {users'[i] : i \in DOMAIN users'} =>
             \/ p \in faulted \cup faulted' \cup overlapped
             \/ form[p].email = Empty /\ Mailed(LocalEmail[form[p].username]) # {} ]_avars

============================================================================
