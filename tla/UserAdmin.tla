------------------------------ MODULE UserAdmin ------------------------------
(***************************************************************************)
(* Accounts and who administers them: sign-up with the hook that makes the  *)
(* first user an administrator, and the requests of administrators that     *)
(* create, change and delete accounts.                                      *)
(*                                                                         *)
(* Every request checks first and writes afterwards, in statements of its   *)
(* own; requests interleave between their statements.                       *)
(* A definition named Mutant... is a plausible slip in the definition that  *)
(* follows it; no specification uses it.                                     *)
(***************************************************************************)

CONSTANTS
  Users,      \* ids of the accounts that can be created
  Requests,   \* requests served at a time
  NoUser

ASSUME UserAssumption == NoUser \notin Users

VARIABLES
  role,      \* user.role; "none" before the account is created
  status,    \* user.status
  deleted,   \* user.deleted_at is set
  pc,        \* where each request is
  actor,     \* who is signed in; NoUser for a sign-up
  target,    \* the account the request is about
  newRole,   \* the role it asks for, or "keep"
  newStatus, \* the status it asks for, or "keep"
  first,     \* what the sign-up hook found: no account but deleted ones
  overlap    \* history: two requests of administrators overlapped

userVars == <<role, status, deleted>>
reqVars  == <<pc, actor, target, newRole, newStatus, first>>
vars == <<userVars, reqVars, overlap>>

-----------------------------------------------------------------------------
Roles    == {"admin", "user"}
Statuses == {"pending", "active"}

Present(u)     == role[u] # "none" /\ ~deleted[u]
ActiveAdmin(u) == Present(u) /\ role[u] = "admin" /\ status[u] = "active"

Steps == {"idle", "count", "insert", "apply", "find", "ensure", "update", "delete"}

\* A request that adminMiddleware has let through and that is not over.
Administering(r) == pc[r] # "idle" /\ actor[r] # NoUser

Init ==
  /\ role      = [u \in Users |-> "none"]
  /\ status    = [u \in Users |-> "pending"]
  /\ deleted   = [u \in Users |-> FALSE]
  /\ pc        = [r \in Requests |-> "idle"]
  /\ actor     = [r \in Requests |-> NoUser]
  /\ target    = [r \in Requests |-> NoUser]
  /\ newRole   = [r \in Requests |-> "keep"]
  /\ newStatus = [r \in Requests |-> "keep"]
  /\ first     = [r \in Requests |-> FALSE]
  /\ overlap   = FALSE

Begin(r, step, a, u, nr, ns) ==
  /\ pc[r] = "idle"
  /\ pc'        = [pc EXCEPT ![r] = step]
  /\ actor'     = [actor EXCEPT ![r] = a]
  /\ target'    = [target EXCEPT ![r] = u]
  /\ newRole'   = [newRole EXCEPT ![r] = nr]
  /\ newStatus' = [newStatus EXCEPT ![r] = ns]
  /\ UNCHANGED <<userVars, first>>

\* The end of a request, with an answer or an error.
End(r) ==
  /\ pc'        = [pc EXCEPT ![r] = "idle"]
  /\ actor'     = [actor EXCEPT ![r] = NoUser]
  /\ target'    = [target EXCEPT ![r] = NoUser]
  /\ newRole'   = [newRole EXCEPT ![r] = "keep"]
  /\ newStatus' = [newStatus EXCEPT ![r] = "keep"]
  /\ first'     = [first EXCEPT ![r] = FALSE]

Go(r, step) ==
  /\ pc' = [pc EXCEPT ![r] = step]
  /\ UNCHANGED <<actor, target, newRole, newStatus, first>>

-----------------------------------------------------------------------------
(* Sign-up, and an administrator who signs somebody up. *)

SignUp(r, u) ==
  /\ role[u] = "none"
  /\ \A q \in Requests : target[q] # u
  /\ Begin(r, "count", NoUser, u, "keep", "keep")
  /\ UNCHANGED overlap

\* adminMiddleware reads the session's user and lets active administrators in.
Admit(r, a, step, u, nr, ns) ==
  /\ ActiveAdmin(a)
  /\ Begin(r, step, a, u, nr, ns)
  /\ overlap' = (overlap \/ \E q \in Requests : Administering(q))

\* What the administrator leaves open.
Or(x, default) == IF x = "keep" THEN default ELSE x

CreateManaged(r, a, u, nr, ns) ==
  /\ role[u] = "none"
  /\ \A q \in Requests : target[q] # u
  /\ Admit(r, a, "count", u, Or(nr, "user"), Or(ns, "active"))


\* databaseHooks.user.create.before counts the accounts that are not deleted ...
CountUsers(r) ==
  /\ pc[r] = "count"
  /\ pc'    = [pc EXCEPT ![r] = "insert"]
  /\ first' = [first EXCEPT ![r] = \A u \in Users : ~Present(u)]
  /\ UNCHANGED <<userVars, actor, target, newRole, newStatus, overlap>>

\* ... and Better Auth inserts the account with what the hook decided.
InsertUser(r) ==
  LET u == target[r] IN
  /\ pc[r] = "insert"
  /\ role'   = [role EXCEPT ![u] = IF first[r] THEN "admin" ELSE "user"]
  /\ status' = [status EXCEPT ![u] = IF first[r] THEN "active" ELSE "pending"]
  /\ IF actor[r] = NoUser THEN End(r) ELSE Go(r, "apply")
  /\ UNCHANGED <<deleted, overlap>>

\* applyManagedUserDefaults also clears deleted_at.
ApplyDefaults(r) ==
  LET u == target[r] IN
  /\ pc[r] = "apply"
  /\ role'    = [role EXCEPT ![u] = newRole[r]]
  /\ status'  = [status EXCEPT ![u] = newStatus[r]]
  /\ deleted' = [deleted EXCEPT ![u] = FALSE]
  /\ End(r)
  /\ UNCHANGED overlap

-----------------------------------------------------------------------------
(* updateUser and deleteUser. *)

UpdateUser(r, a, u, nr, ns) ==
  /\ role[u] # "none"
  /\ nr # "keep" \/ ns # "keep"
  /\ Admit(r, a, "find", u, nr, ns)

DeleteUser(r, a, u) ==
  /\ role[u] # "none"
  /\ Admit(r, a, "find", u, "keep", "keep")

Deleting(r) == newRole[r] = "keep" /\ newStatus[r] = "keep"

\* What the row would be after the request.
NextRole(r)   == IF newRole[r] = "keep" THEN role[target[r]] ELSE newRole[r]
NextStatus(r) == IF newStatus[r] = "keep" THEN status[target[r]] ELSE newStatus[r]
StaysActiveAdmin(r) == ~Deleting(r) /\ NextRole(r) = "admin" /\ NextStatus(r) = "active"

Write(r) == IF Deleting(r) THEN "delete" ELSE "update"

MutantUpdatesDeleted(r) == target[r] = actor[r] /\ (Deleting(r) \/ newRole[r] = "user")

\* Nobody demotes or deletes themselves, but may well suspend themselves.
Refused(r) ==
  \/ deleted[target[r]]
  \/ target[r] = actor[r] /\ (Deleting(r) \/ newRole[r] = "user")

MutantAsksOnlyOnDelete(r) ==
  /\ pc[r] = "find"
  /\ IF Refused(r) THEN End(r)
     ELSE Go(r, IF ActiveAdmin(target[r]) /\ Deleting(r) THEN "ensure" ELSE Write(r))
  /\ UNCHANGED <<userVars, overlap>>

\* findUserForAdmin, and what is decided on the row it reads.
FindUser(r) ==
  /\ pc[r] = "find"
  /\ IF Refused(r) THEN End(r)
     ELSE Go(r, IF ActiveAdmin(target[r]) /\ ~StaysActiveAdmin(r) THEN "ensure" ELSE Write(r))
  /\ UNCHANGED <<userVars, overlap>>

\* ensureAnotherAdminRemains
EnsureAnotherAdmin(r) ==
  /\ pc[r] = "ensure"
  /\ IF \E u \in Users \ {target[r]} : ActiveAdmin(u) THEN Go(r, Write(r)) ELSE End(r)
  /\ UNCHANGED <<userVars, overlap>>

\* Only the columns the request names are set.
WriteUpdate(r) ==
  LET u == target[r] IN
  /\ pc[r] = "update"
  /\ role'   = [role EXCEPT ![u] = NextRole(r)]
  /\ status' = [status EXCEPT ![u] = NextStatus(r)]
  /\ End(r)
  /\ UNCHANGED <<deleted, overlap>>

WriteDelete(r) ==
  /\ pc[r] = "delete"
  /\ deleted' = [deleted EXCEPT ![target[r]] = TRUE]
  /\ End(r)
  /\ UNCHANGED <<role, status, overlap>>

\* A statement fails or the request dies.
Fail(r) ==
  /\ pc[r] # "idle"
  /\ End(r)
  /\ UNCHANGED <<userVars, overlap>>

-----------------------------------------------------------------------------
Arrive(r) ==
  \/ \E u \in Users : SignUp(r, u)
  \/ \E a, u \in Users, nr \in Roles \cup {"keep"}, ns \in Statuses \cup {"keep"} :
       CreateManaged(r, a, u, nr, ns) \/ UpdateUser(r, a, u, nr, ns)
  \/ \E a, u \in Users : DeleteUser(r, a, u)

Serve(r) ==
  \/ CountUsers(r)
  \/ InsertUser(r)
  \/ ApplyDefaults(r)
  \/ FindUser(r)
  \/ EnsureAnotherAdmin(r)
  \/ WriteUpdate(r)
  \/ WriteDelete(r)
  \/ Fail(r)

Next == \E r \in Requests : Arrive(r) \/ Serve(r)

Spec == Init /\ [][Next]_vars

-----------------------------------------------------------------------------
(* Types and properties. *)

TypeOK ==
  /\ role      \in [Users -> Roles \cup {"none"}]
  /\ status    \in [Users -> Statuses]
  /\ deleted   \in [Users -> BOOLEAN]
  /\ pc        \in [Requests -> Steps]
  /\ actor     \in [Requests -> Users \cup {NoUser}]
  /\ target    \in [Requests -> Users \cup {NoUser}]
  /\ newRole   \in [Requests -> Roles \cup {"keep"}]
  /\ newStatus \in [Requests -> Statuses \cup {"keep"}]
  /\ first     \in [Requests -> BOOLEAN]
  /\ overlap   \in BOOLEAN

(* As long as administrators act one after the other, whoever signs up in the
   meantime, a library that has users has one who can administer it. *)
AdminRemains ==
  (\E u \in Users : Present(u)) /\ ~overlap => \E u \in Users : ActiveAdmin(u)

(* A deleted account stays deleted, and keeps the role and status it had, unless
   two administrators act on it at a time. *)
DeletedIsFinal ==
  [][~overlap' => \A u \in Users : deleted[u] =>
       deleted'[u] /\ role'[u] = role[u] /\ status'[u] = status[u]]_vars

(* UserService.ts:85 promises more: a request "fails when removing this user would
   leave no active admin behind", however requests interleave. *)
AlwaysAnAdmin ==
  (\E u \in Users : Present(u)) => \E u \in Users : ActiveAdmin(u)
=============================================================================
