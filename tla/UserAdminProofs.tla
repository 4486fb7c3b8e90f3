--------------------------- MODULE UserAdminProofs ---------------------------
(***************************************************************************)
(* Proofs about UserAdmin, for any number of users and requests.            *)
(***************************************************************************)
EXTENDS UserAdmin, TLAPS

Known     == {"apply", "find", "ensure", "update", "delete"}
Inserting == {"count", "insert"}

(* An account that is being inserted is nobody else's target, and every other
   request of an administrator is about an account that was inserted. *)
TargetOK ==
  /\ \A u \in Users : role[u] = "none" => ~deleted[u]
  /\ \A r \in Requests : pc[r] # "idle" => target[r] \in Users
  /\ \A r \in Requests : pc[r] \in Inserting =>
       role[target[r]] = "none" /\ \A q \in Requests \ {r} : target[q] # target[r]
  /\ \A r \in Requests : pc[r] \in Known =>
       actor[r] \in Users /\ role[target[r]] # "none"
  /\ \A r \in Requests :
       pc[r] = "apply" \/ (pc[r] \in Inserting /\ actor[r] # NoUser) =>
         newRole[r] \in Roles /\ newStatus[r] \in Statuses

Some == \E u \in Users : ActiveAdmin(u)

(* While an administrator signs somebody up, who asked for it administers. *)
ActorStays(r) ==
  pc[r] \in Inserting \cup {"apply"} /\ actor[r] # NoUser =>
    ActiveAdmin(actor[r]) /\ target[r] # actor[r]

(* What a request is about to write leaves an administrator. *)
SafeWrite(r) ==
  pc[r] \in {"update", "delete"} /\ ActiveAdmin(target[r]) =>
    \/ pc[r] = "update" /\ StaysActiveAdmin(r)
    \/ \E u \in Users \ {target[r]} : ActiveAdmin(u)

(* What holds while administrators act one after the other. *)
Calm ==
  /\ \A q, r \in Requests : Administering(q) /\ Administering(r) => q = r
  /\ (\E u \in Users : Present(u)) => Some
  /\ \A r \in Requests : pc[r] = "insert" /\ ~first[r] => Some
  /\ \A r \in Requests : ActorStays(r)
  /\ \A r \in Requests : pc[r] \in Known \ {"find"} => ~deleted[target[r]]
  /\ \A r \in Requests : SafeWrite(r)

Inv ==
  /\ TypeOK
  /\ TargetOK
  /\ ~overlap => Calm

-----------------------------------------------------------------------------
(* Types and targets. *)

LEMMA InitInv == Init => Inv
  <1> SUFFICES ASSUME Init PROVE Inv
    OBVIOUS
  <1>1. TypeOK
    BY DEF Init, TypeOK, Roles, Statuses, Steps
  <1>2. TargetOK
    BY DEF Init, TargetOK, Known, Inserting
  <1>3. \A u \in Users : ~Present(u)
    BY DEF Init, Present
  <1>4. Calm
    BY <1>3 DEF Init, Calm, Known, Inserting, ActorStays, SafeWrite, Administering
  <1>5. QED
    BY <1>1, <1>2, <1>4 DEF Inv

LEMMA SignUpTypes ==
  ASSUME TypeOK, TargetOK, NEW r \in Requests, NEW u \in Users, SignUp(r, u)
  PROVE  TypeOK' /\ TargetOK'
  BY UserAssumption DEF SignUp, Begin, userVars, TypeOK, TargetOK, Steps, Known, Inserting

LEMMA CreateTypes ==
  ASSUME TypeOK, TargetOK, NEW r \in Requests, NEW a \in Users, NEW u \in Users,
         NEW nr \in Roles \cup {"keep"}, NEW ns \in Statuses \cup {"keep"},
         CreateManaged(r, a, u, nr, ns)
  PROVE  TypeOK' /\ TargetOK'
  BY UserAssumption DEF CreateManaged, Admit, Or, Begin, userVars, TypeOK, TargetOK, Steps, Known,
     Inserting, Roles, Statuses, Administering

LEMMA FindTypes ==
  ASSUME TypeOK, TargetOK, NEW r \in Requests, NEW a \in Users, NEW u \in Users,
         NEW nr \in Roles \cup {"keep"}, NEW ns \in Statuses \cup {"keep"},
         role[u] # "none", Admit(r, a, "find", u, nr, ns)
  PROVE  TypeOK' /\ TargetOK'
  BY UserAssumption DEF Admit, Begin, userVars, TypeOK, TargetOK, Steps, Known, Inserting,
     Administering

LEMMA EndTypes ==
  ASSUME TypeOK, TargetOK, NEW r \in Requests, pc[r] # "idle", End(r),
         UNCHANGED <<userVars, overlap>>
  PROVE  TypeOK' /\ TargetOK'
  BY UserAssumption DEF End, userVars, TypeOK, TargetOK, Steps, Known, Inserting

LEMMA GoTypes ==
  ASSUME TypeOK, TargetOK, NEW r \in Requests, NEW step \in {"ensure", "update", "delete"},
         pc[r] \in {"find", "ensure"}, Go(r, step), UNCHANGED <<userVars, overlap>>
  PROVE  TypeOK' /\ TargetOK'
  BY UserAssumption DEF Go, userVars, TypeOK, TargetOK, Steps, Known, Inserting

LEMMA CountTypes ==
  ASSUME TypeOK, TargetOK, NEW r \in Requests, CountUsers(r)
  PROVE  TypeOK' /\ TargetOK'
  BY UserAssumption DEF CountUsers, userVars, TypeOK, TargetOK, Steps, Known, Inserting

LEMMA InsertTypes ==
  ASSUME TypeOK, TargetOK, NEW r \in Requests, InsertUser(r)
  PROVE  TypeOK' /\ TargetOK'
  <1>1. target[r] \in Users /\ role[target[r]] = "none"
    BY DEF InsertUser, TargetOK, Inserting
  <1>2. /\ role' \in [Users -> Roles \cup {"none"}] /\ role'[target[r]] # "none"
        /\ \A u \in Users \ {target[r]} : role'[u] = role[u]
        /\ status' \in [Users -> Statuses] /\ deleted' = deleted
        /\ overlap' = overlap
    BY <1>1 DEF InsertUser, TypeOK, Roles, Statuses
  <1>3. CASE actor[r] = NoUser
    <2>1. End(r)
      BY <1>3 DEF InsertUser
    <2>2. TypeOK'
      BY <1>2, <2>1 DEF End, TypeOK, Steps
    <2>3. TargetOK'
      BY <1>1, <1>2, <2>1, UserAssumption DEF End, TypeOK, TargetOK, Known, Inserting
    <2>4. QED
      BY <2>2, <2>3
  <1>4. CASE actor[r] # NoUser
    <2>1. Go(r, "apply")
      BY <1>4 DEF InsertUser
    <2>2. newRole[r] \in Roles /\ newStatus[r] \in Statuses /\ actor[r] \in Users
      BY <1>4 DEF InsertUser, TypeOK, TargetOK, Inserting
    <2>3. QED
      BY <1>1, <1>2, <2>1, <2>2, UserAssumption DEF InsertUser, Go, TypeOK, TargetOK, Steps, Known, Inserting
  <1>5. QED
    BY <1>3, <1>4

LEMMA ApplyTypes ==
  ASSUME TypeOK, TargetOK, NEW r \in Requests, ApplyDefaults(r)
  PROVE  TypeOK' /\ TargetOK'
  BY UserAssumption DEF ApplyDefaults, End, TypeOK, TargetOK, Steps, Known, Inserting, Roles, Statuses

LEMMA UpdateTypes ==
  ASSUME TypeOK, TargetOK, NEW r \in Requests, WriteUpdate(r)
  PROVE  TypeOK' /\ TargetOK'
  BY UserAssumption DEF WriteUpdate, NextRole, NextStatus, End, TypeOK, TargetOK, Steps, Known,
     Inserting, Roles, Statuses

LEMMA DeleteTypes ==
  ASSUME TypeOK, TargetOK, NEW r \in Requests, WriteDelete(r)
  PROVE  TypeOK' /\ TargetOK'
  BY UserAssumption DEF WriteDelete, End, TypeOK, TargetOK, Steps, Known, Inserting

(* The two ways a step of a request ends. *)
LEMMA WriteTypes ==
  ASSUME TypeOK, TargetOK, NEW r \in Requests,
         FindUser(r) \/ EnsureAnotherAdmin(r) \/ Fail(r)
  PROVE  TypeOK' /\ TargetOK'
  <1>1. CASE FindUser(r)
    BY <1>1, EndTypes, GoTypes DEF FindUser, Write
  <1>2. CASE EnsureAnotherAdmin(r)
    BY <1>2, EndTypes, GoTypes DEF EnsureAnotherAdmin, Write
  <1>3. CASE Fail(r)
    BY <1>3, EndTypes DEF Fail
  <1>4. QED
    BY <1>1, <1>2, <1>3

LEMMA NextTypes ==
  ASSUME TypeOK, TargetOK, Next
  PROVE  TypeOK' /\ TargetOK'
  <1>1. PICK r \in Requests : Arrive(r) \/ Serve(r)
    BY DEF Next
  <1>2. CASE Arrive(r)
    BY <1>2, SignUpTypes, CreateTypes, FindTypes DEF Arrive, UpdateUser, DeleteUser
  <1>3. CASE Serve(r)
    BY <1>3, CountTypes, InsertTypes, ApplyTypes, WriteTypes, UpdateTypes, DeleteTypes DEF Serve
  <1>4. QED
    BY <1>1, <1>2, <1>3

-----------------------------------------------------------------------------
(* Administrators.  Every step by kind, under ~overlap'. *)

LEMMA SignUpCalm ==
  ASSUME Inv, Calm, NEW r \in Requests, NEW u \in Users, SignUp(r, u)
  PROVE  Calm'
  BY UserAssumption DEF SignUp, Begin, userVars, Inv, TypeOK, TargetOK, Calm, Known, Inserting, Some,
     ActorStays, SafeWrite, Administering, Present, ActiveAdmin, StaysActiveAdmin, Deleting, NextRole,
     NextStatus

(* A request that starts while no administrator's request runs. *)
LEMMA AdmitCalm ==
  ASSUME Inv, Calm, ~overlap', NEW r \in Requests, NEW a \in Users, NEW u \in Users,
         NEW step \in {"count", "find"}, NEW nr, NEW ns,
         step = "count" => role[u] = "none" /\ \A q \in Requests : target[q] # u,
         Admit(r, a, step, u, nr, ns)
  PROVE  Calm'
  <1> USE UserAssumption
  <1>1. \A q \in Requests : ~Administering(q)
    BY DEF Admit
  <1>2. /\ pc[r] = "idle" /\ pc' = [pc EXCEPT ![r] = step]
        /\ actor' = [actor EXCEPT ![r] = a] /\ target' = [target EXCEPT ![r] = u]
        /\ UNCHANGED <<role, status, deleted, first>> /\ ActiveAdmin(a)
    BY DEF Admit, Begin, userVars
  <1>3. Some
    BY <1>2 DEF Some
  <1>4. Some'
    BY <1>2, <1>3 DEF Some, ActiveAdmin, Present
  <1>5. \A q \in Requests \ {r} : ~Administering(q)' /\ pc'[q] \notin Known
    BY <1>1, <1>2 DEF Administering, Inv, TypeOK, TargetOK, Known
  <1>6. ActorStays(r)'
    BY <1>2 DEF ActorStays, ActiveAdmin, Present, Inv, TypeOK, Inserting
  <1>7. \A q \in Requests : ActorStays(q)'
    BY <1>5, <1>6 DEF ActorStays, Administering, Inserting
  <1>8. \A q \in Requests : pc'[q] \notin {"update", "delete"} /\ pc'[q] \notin Known \ {"find"}
    BY <1>2, <1>5 DEF Inv, TypeOK, Known
  <1>9. QED
    BY <1>4, <1>5, <1>7, <1>8 DEF Calm, SafeWrite

LEMMA CountCalm ==
  ASSUME Inv, Calm, NEW r \in Requests, CountUsers(r)
  PROVE  Calm'
  <1> USE UserAssumption DEF CountUsers, userVars
  <1>1. \A u \in Users : (Present(u)' <=> Present(u)) /\ (ActiveAdmin(u)' <=> ActiveAdmin(u))
    BY DEF Present, ActiveAdmin
  <1>2. Some' <=> Some
    BY <1>1 DEF Some
  <1>3. \A q \in Requests : /\ Administering(q)' <=> Administering(q)
                          /\ ActorStays(q)' /\ SafeWrite(q)'
    BY <1>1 DEF Administering, Calm, ActorStays, SafeWrite, Inv, TypeOK, Inserting, ActiveAdmin,
       Present, StaysActiveAdmin, Deleting, NextRole, NextStatus
  <1>4. \A q \in Requests : pc'[q] = "insert" /\ ~first'[q] => Some'
    BY <1>1, <1>2 DEF Calm, Inv, TypeOK
  <1>5. \A q \in Requests : pc'[q] \in Known \ {"find"} => ~deleted'[target'[q]]
    BY DEF Calm, Inv, TypeOK, Known
  <1>6. QED
    BY <1>1, <1>2, <1>3, <1>4, <1>5 DEF Calm

(* An inserted account adds an administrator or none, and takes none away. *)
LEMMA InsertCalm ==
  ASSUME Inv, Calm, NEW r \in Requests, InsertUser(r)
  PROVE  Calm'
  <1> USE UserAssumption
  <1>0. PICK t \in Users : t = target[r]
    BY DEF InsertUser, Inv, TargetOK
  <1>1. /\ t = target[r] /\ role[t] = "none" /\ ~deleted[t] /\ pc[r] = "insert"
        /\ \A q \in Requests \ {r} : target[q] # t
    BY <1>0 DEF InsertUser, Inv, TargetOK, Inserting
  <1>2. /\ \A u \in Users \ {t} : role'[u] = role[u] /\ status'[u] = status[u]
        /\ deleted' = deleted
        /\ first[r] => role'[t] = "admin" /\ status'[t] = "active"
    BY <1>1 DEF InsertUser, Inv, TypeOK
  <1>3. /\ \A u \in Users \ {t} : ActiveAdmin(u)' <=> ActiveAdmin(u)
        /\ ~ActiveAdmin(t) /\ (first[r] => ActiveAdmin(t)')
    BY <1>1, <1>2 DEF ActiveAdmin, Present
  <1>4. Some'
    <2>1. CASE first[r]
      BY <1>1, <1>3, <2>1 DEF Some
    <2>2. CASE ~first[r]
      <3>1. Some
        BY <1>1, <2>2 DEF Calm
      <3>2. QED
        BY <1>3, <3>1 DEF Some
    <2>3. QED
      BY <2>1, <2>2
  <1>5. \A q \in Requests \ {r} : /\ pc'[q] = pc[q] /\ actor'[q] = actor[q]
                                /\ target'[q] = target[q] /\ first'[q] = first[q]
                                /\ newRole'[q] = newRole[q] /\ newStatus'[q] = newStatus[q]
    BY DEF InsertUser, End, Go, Inv, TypeOK
  <1>6. \/ pc'[r] = "idle"
        \/ /\ pc'[r] = "apply" /\ actor[r] # NoUser /\ actor'[r] = actor[r] /\ target'[r] = t
    BY <1>0 DEF InsertUser, End, Go, Inv, TypeOK
  <1>7. \A q \in Requests : ActorStays(q)'
    <2>1. \A q \in Requests : ActorStays(q)
      BY DEF Calm
    <2>2. \A q \in Requests \ {r} : ActorStays(q)'
      BY <1>3, <1>5, <2>1 DEF ActorStays, Inv, TypeOK
    <2>3. ActorStays(r)'
      BY <1>1, <1>3, <1>6, <2>1 DEF ActorStays, Inv, TypeOK, Inserting
    <2>4. QED
      BY <2>2, <2>3
  <1>8. \A q \in Requests : SafeWrite(q)'
    <2>1. SUFFICES ASSUME NEW q \in Requests \ {r}, SafeWrite(q) PROVE SafeWrite(q)'
      BY <1>6 DEF Calm, SafeWrite
    <2>2. target[q] # t /\ (pc[q] # "idle" => target[q] \in Users)
      BY <1>1 DEF Inv, TargetOK
    <2>3. ASSUME pc[q] \in {"update", "delete"} PROVE StaysActiveAdmin(q)' <=> StaysActiveAdmin(q)
      BY <1>2, <1>5, <2>2, <2>3 DEF StaysActiveAdmin, Deleting, NextRole, NextStatus
    <2>4. QED
      BY <1>3, <1>5, <2>1, <2>2, <2>3 DEF SafeWrite
  <1>9. \A q \in Requests : pc'[q] \in Known \ {"find"} => ~deleted'[target'[q]]
    BY <1>1, <1>2, <1>5, <1>6 DEF Calm, Known
  <1>10. \A q, s \in Requests : Administering(q)' /\ Administering(s)' => q = s
    BY <1>1, <1>5, <1>6 DEF Calm, Administering
  <1>11. QED
    BY <1>4, <1>7, <1>8, <1>9, <1>10 DEF Calm

(* The end of the only request of an administrator, which leaves one. *)
LEMMA EndCalm ==
  ASSUME Inv, Calm, NEW r \in Requests, Administering(r) \/ UNCHANGED userVars, End(r),
         (\E u \in Users : Present(u))' => \E u \in Users : Present(u),
         Some => Some'
  PROVE  Calm'
  <1>1. \A q \in Requests \ {r} : /\ pc'[q] = pc[q] /\ actor'[q] = actor[q]
                                /\ target'[q] = target[q] /\ first'[q] = first[q]
                                /\ newRole'[q] = newRole[q] /\ newStatus'[q] = newStatus[q]
    BY DEF End, Inv, TypeOK
  <1>2. pc'[r] = "idle"
    BY DEF End, Inv, TypeOK
  <1>3. /\ \A q, s \in Requests : Administering(q)' /\ Administering(s)' => q = s
        /\ (\E u \in Users : Present(u))' => Some'
        /\ \A q \in Requests : pc'[q] = "insert" /\ ~first'[q] => Some'
    BY <1>1, <1>2 DEF Calm, Administering
  <1>4. CASE Administering(r)
    <2>1. \A q \in Requests \ {r} : ~Administering(q)
      BY <1>4 DEF Calm
    <2>2. \A q \in Requests : pc'[q] \notin Known /\ ~Administering(q)'
      BY <1>1, <1>2, <2>1, UserAssumption DEF Administering, Inv, TargetOK, Known
    <2>3. QED
      BY <1>3, <2>2 DEF Calm, ActorStays, SafeWrite, Administering, Known, Inserting
  <1>5. CASE UNCHANGED userVars
    <2>1. \A q \in Requests : ActorStays(q)' /\ SafeWrite(q)'
      BY <1>1, <1>2, <1>5 DEF userVars, Calm, ActorStays, SafeWrite, ActiveAdmin, Present, Inserting,
         StaysActiveAdmin, Deleting, NextRole, NextStatus
    <2>2. \A q \in Requests : pc'[q] \in Known \ {"find"} => ~deleted'[target'[q]]
      BY <1>1, <1>2, <1>5 DEF userVars, Calm, Known
    <2>3. QED
      BY <1>3, <2>1, <2>2 DEF Calm
  <1>6. QED
    BY <1>4, <1>5

(* Having looked, a request may write only what leaves an administrator. *)
LEMMA GoCalm ==
  ASSUME Inv, Calm, NEW r \in Requests, NEW step \in {"ensure", "update", "delete"},
         pc[r] \in {"find", "ensure"}, Go(r, step), UNCHANGED userVars,
         ~deleted[target[r]],
         step # "ensure" /\ ActiveAdmin(target[r]) =>
           \/ step = "update" /\ StaysActiveAdmin(r)
           \/ \E u \in Users \ {target[r]} : ActiveAdmin(u)
  PROVE  Calm'
  <1> USE DEF Go, userVars
  <1>1. \A u : (Present(u)' <=> Present(u)) /\ (ActiveAdmin(u)' <=> ActiveAdmin(u))
    BY DEF Present, ActiveAdmin
  <1>2. \A q \in Requests : StaysActiveAdmin(q)' <=> StaysActiveAdmin(q)
    BY DEF StaysActiveAdmin, Deleting, NextRole, NextStatus
  <1>3. Some' <=> Some
    BY <1>1 DEF Some
  <1>4. pc' = [pc EXCEPT ![r] = step] /\ pc \in [Requests -> Steps]
    BY DEF Inv, TypeOK
  <1>5. \A q \in Requests : SafeWrite(q)'
    <2>1. SafeWrite(r)'
      BY <1>1, <1>2, <1>4 DEF SafeWrite, Inv, TypeOK
    <2>2. \A q \in Requests \ {r} : SafeWrite(q)'
      BY <1>1, <1>2, <1>4 DEF SafeWrite, Calm, Inv, TypeOK
    <2>3. QED
      BY <2>1, <2>2
  <1>6. \A q \in Requests : ActorStays(q)' /\ (Administering(q)' <=> Administering(q))
    BY <1>1, <1>4 DEF ActorStays, Administering, Calm, Inserting, Inv, TypeOK
  <1>7. \A q \in Requests : /\ pc'[q] \in Known \ {"find"} => ~deleted'[target'[q]]
                          /\ pc'[q] = "insert" /\ ~first'[q] => Some'
    BY <1>3, <1>4 DEF Calm, Known
  <1>8. QED
    BY <1>1, <1>3, <1>5, <1>6, <1>7 DEF Calm

LEMMA WriteCalm ==
  ASSUME Inv, Calm, NEW r \in Requests, WriteUpdate(r) \/ WriteDelete(r)
  PROVE  Calm'
  <1>0. PICK t \in Users : t = target[r] /\ role[t] # "none" /\ ~deleted[t]
    BY DEF WriteUpdate, WriteDelete, Inv, TargetOK, Calm, Known
  <1>1. Administering(r) /\ End(r)
    BY <1>0, UserAssumption DEF WriteUpdate, WriteDelete, Administering, Inv, TargetOK, Known
  <1>2. \A u \in Users \ {t} : /\ Present(u)' <=> Present(u)
                             /\ ActiveAdmin(u)' <=> ActiveAdmin(u)
    BY <1>0 DEF WriteUpdate, WriteDelete, Present, ActiveAdmin, Inv, TypeOK
  <1>3. Present(t)
    BY <1>0 DEF Present
  <1>4. ASSUME pc[r] = "update", StaysActiveAdmin(r) PROVE ActiveAdmin(t)'
    BY <1>0, <1>4 DEF WriteUpdate, WriteDelete, StaysActiveAdmin, Present, ActiveAdmin, Inv, TypeOK
  <1>5. Some => Some'
    <2>1. SafeWrite(r) /\ pc[r] \in {"update", "delete"}
      BY DEF Calm, WriteUpdate, WriteDelete
    <2>2. CASE ActiveAdmin(t)
      BY <1>0, <1>2, <1>4, <2>1, <2>2 DEF SafeWrite, Some
    <2>3. CASE ~ActiveAdmin(t)
      BY <1>2, <2>3 DEF Some
    <2>4. QED
      BY <2>2, <2>3
  <1>6. QED
    BY <1>1, <1>3, <1>5, EndCalm

LEMMA ApplyCalm ==
  ASSUME Inv, Calm, NEW r \in Requests, ApplyDefaults(r)
  PROVE  Calm'
  <1>0. PICK t \in Users : t = target[r] /\ role[t] # "none" /\ ~deleted[t]
    BY DEF ApplyDefaults, Inv, TargetOK, Calm, Known
  <1>1. PICK a \in Users : a = actor[r] /\ a # t /\ ActiveAdmin(a)
    BY <1>0, UserAssumption DEF ApplyDefaults, Inv, TargetOK, Calm, Known, ActorStays
  <1>2. Administering(r) /\ End(r)
    BY <1>1, UserAssumption DEF ApplyDefaults, Administering
  <1>3. ActiveAdmin(a)'
    BY <1>0, <1>1 DEF ApplyDefaults, ActiveAdmin, Present, Inv, TypeOK
  <1>4. Present(t)
    BY <1>0 DEF Present
  <1>5. Some'
    BY <1>3 DEF Some
  <1>6. QED
    BY <1>2, <1>4, <1>5, EndCalm

LEMMA NextCalm ==
  ASSUME Inv, Calm, Next, ~overlap'
  PROVE  Calm'
  <1>1. PICK r \in Requests : Arrive(r) \/ Serve(r)
    BY DEF Next
  <1>2. CASE Arrive(r)
    <2>1. ASSUME NEW u \in Users, SignUp(r, u) PROVE Calm'
      BY <2>1, SignUpCalm
    <2>2. ASSUME NEW a \in Users, NEW u \in Users, NEW nr, NEW ns, CreateManaged(r, a, u, nr, ns)
          PROVE  Calm'
      BY <2>2, AdmitCalm DEF CreateManaged
    <2>3. ASSUME NEW a \in Users, NEW u \in Users, NEW nr, NEW ns,
                 UpdateUser(r, a, u, nr, ns) \/ DeleteUser(r, a, u)
          PROVE  Calm'
      BY <2>3, AdmitCalm DEF UpdateUser, DeleteUser
    <2>4. QED
      BY <1>2, <2>1, <2>2, <2>3 DEF Arrive
  <1>3. CASE UNCHANGED <<userVars, overlap>> /\ pc[r] # "idle" /\ End(r)
    <2>1. \A u \in Users : (Present(u)' <=> Present(u)) /\ (ActiveAdmin(u)' <=> ActiveAdmin(u))
      BY <1>3 DEF userVars, Present, ActiveAdmin
    <2>2. QED
      BY <1>3, <2>1, EndCalm DEF Some
  <1>4. CASE FindUser(r)
    <2>1. CASE Refused(r)
      BY <1>3, <1>4, <2>1 DEF FindUser
    <2>2. CASE ~Refused(r)
      BY <1>4, <2>2, GoCalm DEF FindUser, Refused, Write, StaysActiveAdmin
    <2>3. QED
      BY <2>1, <2>2
  <1>5. CASE EnsureAnotherAdmin(r)
    <2>1. ~deleted[target[r]]
      BY <1>5 DEF EnsureAnotherAdmin, Calm, Known
    <2>2. CASE \E u \in Users \ {target[r]} : ActiveAdmin(u)
      BY <1>5, <2>1, <2>2, GoCalm DEF EnsureAnotherAdmin, Write
    <2>3. CASE ~ \E u \in Users \ {target[r]} : ActiveAdmin(u)
      BY <1>3, <1>5, <2>3 DEF EnsureAnotherAdmin
    <2>4. QED
      BY <2>2, <2>3
  <1>6. CASE Fail(r)
    BY <1>3, <1>6 DEF Fail
  <1>7. QED
    BY <1>1, <1>2, <1>4, <1>5, <1>6, CountCalm, InsertCalm, ApplyCalm, WriteCalm DEF Serve

-----------------------------------------------------------------------------
(* Theorems. *)

LEMMA OverlapStays ==
  ASSUME Next, overlap PROVE overlap'
  BY DEF Next, Arrive, Serve, SignUp, CreateManaged, UpdateUser, DeleteUser, Admit, CountUsers,
     InsertUser, ApplyDefaults, FindUser, EnsureAnotherAdmin, WriteUpdate, WriteDelete, Fail

LEMMA Invariance == Spec => []Inv
  <1>1. Inv /\ [Next]_vars => Inv'
    <2>1. ASSUME Inv, Next PROVE Inv'
      <3>1. TypeOK' /\ TargetOK'
        BY <2>1, NextTypes DEF Inv
      <3>2. ~overlap' => ~overlap
        BY <2>1, OverlapStays
      <3>3. QED
        BY <2>1, <3>1, <3>2, NextCalm DEF Inv
    <2>2. ASSUME Inv, UNCHANGED vars PROVE Inv'
      BY <2>2 DEF vars, userVars, reqVars, Inv, TypeOK, TargetOK, Calm, Some, ActorStays, SafeWrite,
         Administering, Present, ActiveAdmin, StaysActiveAdmin, Deleting, NextRole, NextStatus
    <2>3. QED
      BY <2>1, <2>2
  <1>2. QED
    BY InitInv, <1>1, PTL DEF Spec

(* Every variable of UserAdmin keeps its type. *)
THEOREM TypeCorrect == Spec => []TypeOK
  <1>1. Inv => TypeOK
    BY DEF Inv
  <1>2. QED
    BY Invariance, <1>1, PTL

(* updateUser, deleteUser and the sign-up hook leave a library that has users
   with an administrator, as long as administrators act one after the other. *)
THEOREM AnAdminRemains == Spec => []AdminRemains
  <1>1. Inv => AdminRemains
    BY DEF Inv, Calm, Some, AdminRemains
  <1>2. QED
    BY Invariance, <1>1, PTL

(* No request restores or changes an account that findUserForAdmin would report
   as deleted, as long as administrators act one after the other. *)
THEOREM DeletedAreFinal == Spec => DeletedIsFinal
  <1> DEFINE Kept == \A u \in Users : deleted[u] =>
                       deleted'[u] /\ role'[u] = role[u] /\ status'[u] = status[u]
  <1>1. ASSUME Inv, Next, ~overlap' PROVE Kept
    <2>2. Calm
      BY <1>1, OverlapStays DEF Inv
    <2>3. PICK r \in Requests : Arrive(r) \/ Serve(r)
      BY <1>1 DEF Next
    <2>4. CASE InsertUser(r)
      BY <1>1, <2>4 DEF InsertUser, Inv, TypeOK, TargetOK, Inserting
    <2>5. CASE ApplyDefaults(r)
      BY <1>1, <2>2, <2>5 DEF ApplyDefaults, Inv, TypeOK, Calm, Known
    <2>6. CASE WriteUpdate(r)
      BY <1>1, <2>2, <2>6 DEF WriteUpdate, Inv, TypeOK, Calm, Known
    <2>7. CASE WriteDelete(r)
      BY <1>1, <2>7 DEF WriteDelete, Inv, TypeOK
    <2>8. QED
      BY <2>3, <2>4, <2>5, <2>6, <2>7 DEF Arrive, Serve, SignUp, CreateManaged, UpdateUser,
         DeleteUser, Admit, Begin, CountUsers, FindUser, EnsureAnotherAdmin, Fail, userVars
  <1>2. QED
    BY Invariance, <1>1, PTL DEF Spec, DeletedIsFinal
=============================================================================
