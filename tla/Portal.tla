------------------------------- MODULE Portal -------------------------------
(***************************************************************************)
(* The API server of the portal: requests that log in, log out and         *)
(* administer accounts, running concurrently over one database.            *)
(*                                                                         *)
(* A handler of AuthService or UserService is a chain of awaits.  Between  *)
(* two awaits nothing else runs; at an await every other request may.  So  *)
(* each await is one step here, together with the code that follows it up  *)
(* to the next one, and "stage" names the await a request is about to      *)
(* reach.  What a request read earlier is kept in its record: the actor as *)
(* the session lookup saw it, the target's role as the first query saw it. *)
(*                                                                         *)
(* A request is used once: idle, then a call, then an answer.              *)
(***************************************************************************)
EXTENDS Database

CONSTANTS
    Request,          \* request slots
    Calls,            \* the calls clients make
    NoCall, NoSession, Unset,
    Within,           \* scope pairs <<s, t>>: a key under s is a key under t
    RootScope,        \* the scopes with an empty prefix: whole buckets
    ConfiguredScope,  \* the scopes in a bucket of config.allowedBuckets
    InitUsers, InitSessions, InitPermissions

ASSUME RequestAssumption == AuditId = Request

ASSUME NullAssumption == NoSession \notin SessionId /\ NoCall \notin Calls

ASSUME KeyAssumption ==
    /\ UserId \cap SessionId = {}
    /\ (UserId \cup SessionId) \cap PermissionId = {}

ASSUME WithinAssumption ==
    \A r, s, t \in Scope : <<r, s>> \in Within /\ <<s, t>> \in Within => <<r, t>> \in Within

AdminOps == {"create", "update", "disable", "enable", "delete", "resetPassword",
             "addPermission", "removePermission"}

ASSUME ActionAssumption == Action = AdminOps \cup {"login", "logout"}

Call == [op: AdminOps \cup {"login", "logout"},
         target: UserId \cup {Unset},
         email: Email \cup {Unset}, password: Password \cup {Unset},
         role: Role \cup {Unset}, isActive: BOOLEAN \cup {Unset},
         scope: Scope \cup {Unset}, permissionId: PermissionId \cup {Unset}]

\* The fields the request schemas make mandatory for an operation.
WellFormed(c) ==
    /\ c.op \in AdminOps \ {"create"} => c.target # Unset
    /\ c.op \in {"login", "create"} => c.email # Unset
    /\ c.op \in {"login", "create", "resetPassword"} => c.password # Unset
    /\ c.op = "create" => c.role # Unset /\ c.isActive # Unset
    /\ c.op = "addPermission" => c.scope # Unset
    /\ c.op = "removePermission" => c.permissionId # Unset

ASSUME CallsAssumption == Calls \subseteq {c \in Call : WellFormed(c)}

ASSUME UnsetAssumption ==
    /\ Unset \notin UserId \cup PermissionId /\ Unset \notin Scope
    /\ Unset \notin Email /\ Unset \notin Password
    /\ Unset \notin Role /\ Unset \notin BOOLEAN

VARIABLES
    requests,   \* the state of every request
    \* history variables: they record, no guard reads them
    applied,    \* requests whose change the database has committed
    revoked,    \* for each request, the sessions its change takes the basis from
    delegated   \* the scopes some administrator has granted

vars == <<users, sessions, permissions, auditLog, issued, requests, applied, revoked, delegated>>

history == <<applied, revoked, delegated>>

-----------------------------------------------------------------------------
(* Requests.                                                               *)

NoRole == "NONE"

Pending == 0
Status == {Pending, 200, 400, 401, 403, 404, 409, 500}

Stage == {"idle", "session", "reap", "find", "open", "load", "email", "grants", "grant",
          "write", "purge", "purgeRole", "log", "me", "done"}

RequestState ==
    [stage: Stage, call: Calls \cup {NoCall}, cookie: SessionId \cup {NoSession},
     actor: UserId \cup {NoUser},         \* request.user, as the session lookup read it
     role: Role \cup {NoRole},            \* request.user.role
     seenRole: Role \cup {NoRole},        \* the target's role, as the first query read it
     status: Status]

IdleRequest ==
    [stage |-> "idle", call |-> NoCall, cookie |-> NoSession, actor |-> NoUser,
     role |-> NoRole, seenRole |-> NoRole, status |-> Pending]

At(r, stage) == requests[r].stage = stage

Op(r) == requests[r].call.op
Target(r) == requests[r].call.target

Goto(r, stage) == requests' = [requests EXCEPT ![r].stage = stage]

Answer(r, status) ==
    requests' = [requests EXCEPT ![r] = [@ EXCEPT !.stage = "done", !.status = status]]

(* Mutant of Rejection: an addPermission that was refused is taken for done. *)
MutantRejection(r) ==
    IF Op(r) = "addPermission" /\ requests[r].stage \in {"write", "purge", "log"}
    THEN 200 ELSE 500

\* What a rejected promise turns into: the error handler's 500, except that
\* addPermission catches whatever happens once it has started to write.
Rejection(r) ==
    IF Op(r) = "addPermission" /\ requests[r].stage \in {"write", "purge", "log"}
    THEN 409 ELSE 500

TypeOK ==
    /\ DatabaseTypeOK
    /\ requests \in [Request -> RequestState]
    /\ \A r \in Request : At(r, "idle") <=> requests[r].call = NoCall
    /\ applied \subseteq Request
    /\ revoked \in [Request -> SUBSET SessionId]
    /\ delegated \subseteq Scope

-----------------------------------------------------------------------------
Init ==
    /\ users = InitUsers
    /\ sessions = InitSessions
    /\ permissions = InitPermissions
    /\ auditLog = [a \in {} |-> NoUser]
    /\ issued = DOMAIN InitUsers \cup DOMAIN InitSessions \cup DOMAIN InitPermissions
    /\ requests = [r \in Request |-> IdleRequest]
    /\ applied = {}
    /\ revoked = [r \in Request |-> {}]
    /\ delegated = {InitPermissions[p].scope : p \in DOMAIN InitPermissions}

\* The database the server starts on is one its own constraints allow.
ASSUME InitAssumption ==
    /\ IsTable(InitUsers, UserId, UserRow)
    /\ IsTable(InitSessions, SessionId, SessionRow)
    /\ IsTable(InitPermissions, PermissionId, PermissionRow)
    /\ \A s \in DOMAIN InitSessions : InitSessions[s].userId \in DOMAIN InitUsers
    /\ \A p \in DOMAIN InitPermissions : InitPermissions[p].userId \in DOMAIN InitUsers
    /\ \A u, v \in DOMAIN InitUsers :
          Collated[InitUsers[u].email] = Collated[InitUsers[v].email] => u = v
    /\ \A p, q \in DOMAIN InitPermissions :
          /\ InitPermissions[p].userId = InitPermissions[q].userId
          /\ CollatedScope[InitPermissions[p].scope] = CollatedScope[InitPermissions[q].scope]
          => p = q

-----------------------------------------------------------------------------
(* Arrival and authentication.                                             *)

\* A client sends a call, with the cookie of a session it was once given or
\* with none.
Arrive(r) ==
    /\ At(r, "idle")
    /\ \E c \in Calls, cookie \in (issued \cap SessionId) \cup {NoSession} :
          requests' = [requests EXCEPT
              ![r] = [@ EXCEPT !.stage = "session", !.call = c, !.cookie = cookie]]
    /\ UNCHANGED dbVars /\ UNCHANGED history

\* request.user is null: login goes on, every other handler throws 401.
GoOnAnonymously(r) ==
    IF Op(r) = "login" THEN Goto(r, "find") ELSE Answer(r, 401)

\* Refusals decided before the handler's first query.
RoleForbids(c, role) ==
    \/ c.op \in AdminOps /\ role = "VIEWER"
    \/ c.op = "create" /\ role = "MANAGER" /\ c.role # "VIEWER"

(* Mutant of OwnAccount: only disabling the own account is refused. *)
MutantOwnAccount(c, u) == c.op = "disable" /\ c.target = u

OwnAccount(c, u) == c.op \in {"disable", "delete"} /\ c.target = u

FirstStage(op) ==
    CASE op = "login" -> "find"
      [] op = "logout" -> "write"
      [] op = "create" -> "email"
      [] OTHER -> "load"

GoOnAs(r, u) ==
    LET c == requests[r].call
        role == users[u].role
    IN  \/ RoleForbids(c, role) /\ Answer(r, 403)
        \/ ~RoleForbids(c, role) /\ OwnAccount(c, u) /\ Answer(r, 400)
        \/ /\ ~RoleForbids(c, role) /\ ~OwnAccount(c, u)
           /\ requests' = [requests EXCEPT
                  ![r] = [@ EXCEPT !.stage = FirstStage(c.op), !.actor = u, !.role = role]]

\* The onRequest hook: resolveSession looks up the session with its owner.
Authenticate(r) ==
    /\ At(r, "session")
    /\ LET s == requests[r].cookie
           u == sessions[s].userId
       IN  \/ s \notin DOMAIN sessions /\ GoOnAnonymously(r)
           \/ s \in DOMAIN sessions /\ sessions[s].expired /\ Goto(r, "reap")
           \/ /\ s \in DOMAIN sessions /\ ~sessions[s].expired
              /\ ~users[u].isActive /\ GoOnAnonymously(r)
           \/ /\ s \in DOMAIN sessions /\ ~sessions[s].expired
              /\ users[u].isActive /\ GoOnAs(r, u)
    /\ UNCHANGED dbVars /\ UNCHANGED history

\* An expired session is deleted; whether that works does not matter.
Reap(r) ==
    /\ At(r, "reap")
    /\ \/ DeleteSessions({requests[r].cookie})
       \/ UNCHANGED dbVars
    /\ GoOnAnonymously(r)
    /\ UNCHANGED history

-----------------------------------------------------------------------------
(* Reads of an administration request before it writes.                    *)

(* Mutants of ManagerForbidden: nobody looks at the target's role; update does
   not look at the new role. *)
MutantManagerAnyTarget(c, role, targetRole) ==
    role = "MANAGER" /\ c.op = "update" /\ c.role \notin {Unset, "VIEWER"}

MutantManagerForbidden(c, role, targetRole) ==
    role = "MANAGER" /\ targetRole # "VIEWER"

\* assertManagerCanManageTarget, and update's refusal to promote.
ManagerForbidden(c, role, targetRole) ==
    /\ role = "MANAGER"
    /\ \/ targetRole # "VIEWER"
       \/ c.op = "update" /\ c.role \notin {Unset, "VIEWER"}

\* assertCanGrantPermission before its query.
RootGrant(c, role) ==
    c.op = "addPermission" /\ role = "MANAGER" /\ c.scope \in RootScope

Unconfigured(c) == c.op = "addPermission" /\ c.scope \notin ConfiguredScope

StageAfterLoad(c, role, row) ==
    CASE c.op = "update" /\ c.email \notin {Unset, row.email} -> "email"
      [] c.op = "addPermission" /\ role = "MANAGER" -> "grants"
      [] c.op = "removePermission" -> "grant"
      [] OTHER -> "write"

\* The first query: ensureUser, or update's findUnique.
Load(r) ==
    /\ At(r, "load")
    /\ LET c == requests[r].call
           role == requests[r].role
           row == users[c.target]
           next == StageAfterLoad(c, role, row)
       IN  \/ c.target \notin DOMAIN users /\ Answer(r, 404)
           \/ /\ c.target \in DOMAIN users
              /\ ManagerForbidden(c, role, row.role) \/ RootGrant(c, role)
              /\ Answer(r, 403)
           \/ /\ c.target \in DOMAIN users
              /\ ~ManagerForbidden(c, role, row.role) /\ ~RootGrant(c, role)
              /\ IF next = "write" /\ Unconfigured(c)
                 THEN Answer(r, 400)
                 ELSE requests' = [requests EXCEPT
                          ![r] = [@ EXCEPT !.stage = next, !.seenRole = row.role]]
    /\ UNCHANGED dbVars /\ UNCHANGED history

\* create and update look whether the e-mail is taken.
CheckEmail(r) ==
    /\ At(r, "email")
    /\ IF Holders(requests[r].call.email) = {} THEN Goto(r, "write") ELSE Answer(r, 409)
    /\ UNCHANGED dbVars /\ UNCHANGED history

(* Mutant of MayDelegate: a permission on a whole bucket would do as well. *)
MutantMayDelegate(u, scope) ==
    \E p \in PermissionsOf(u) : \/ permissions[p].scope \in RootScope
                                \/ <<scope, permissions[p].scope>> \in Within

(* Mutant of MayDelegate: containment is tested the wrong way round. *)
MutantMayDelegateUpwards(u, scope) ==
    \E p \in PermissionsOf(u) : /\ permissions[p].scope \notin RootScope
                                /\ <<permissions[p].scope, scope>> \in Within

\* A manager's own permission, not on a whole bucket, contains the scope.
MayDelegate(u, scope) ==
    \E p \in PermissionsOf(u) : /\ permissions[p].scope \notin RootScope
                                /\ <<scope, permissions[p].scope>> \in Within

\* assertCanGrantPermission's query of the manager's own permissions.
LoadGrants(r) ==
    /\ At(r, "grants")
    /\ LET c == requests[r].call
           may == MayDelegate(requests[r].actor, c.scope)
       IN  \/ ~may /\ Answer(r, 403)
           \/ may /\ Unconfigured(c) /\ Answer(r, 400)
           \/ may /\ ~Unconfigured(c) /\ Goto(r, "write")
    /\ UNCHANGED dbVars /\ UNCHANGED history

\* removePermission looks for the row under the account it was given.
LoadPermission(r) ==
    /\ At(r, "grant")
    /\ IF requests[r].call.permissionId \in PermissionsOf(Target(r))
       THEN Goto(r, "write") ELSE Answer(r, 404)
    /\ UNCHANGED dbVars /\ UNCHANGED history

-----------------------------------------------------------------------------
(* The write, and what follows it.                                         *)

\* update's test for a role change: against the row it read, not the row it wrote.
RoleDiffers(r) ==
    Op(r) = "update" /\ requests[r].call.role \notin {Unset, requests[r].seenRole}

Deactivates(r) == Op(r) = "update" /\ requests[r].call.isActive = FALSE

(* Mutant of StageAfterWrite: a reset leaves the sessions alone. *)
MutantStageAfterWrite(r) ==
    CASE Op(r) \in {"disable", "addPermission", "removePermission"} -> "purge"
      [] Deactivates(r) -> "purge"
      [] RoleDiffers(r) -> "purgeRole"
      [] OTHER -> "log"

StageAfterWrite(r) ==
    CASE Op(r) \in {"disable", "resetPassword", "addPermission", "removePermission"} -> "purge"
      [] Deactivates(r) -> "purge"
      [] RoleDiffers(r) -> "purgeRole"
      [] OTHER -> "log"

Commit(r, S) ==
    /\ Goto(r, StageAfterWrite(r))
    /\ applied' = applied \cup {r}
    /\ revoked' = [revoked EXCEPT ![r] = S]

Writing(r, ops) == At(r, "write") /\ Op(r) \in ops

Create(r) ==
    /\ Writing(r, {"create"})
    /\ LET c == requests[r].call
       IN  \E u \in UserId : InsertUser(u, [email |-> c.email, role |-> c.role,
                                            isActive |-> c.isActive,
                                            passwordHash |-> c.password])
    /\ Commit(r, {})
    /\ UNCHANGED delegated

\* A column the request does not set keeps its value.
Or(value, default) == IF value = Unset THEN default ELSE value

(* Mutant of Update: a role the request does not set is overwritten. *)
MutantUpdate(r) ==
    /\ Writing(r, {"update"})
    /\ LET c == requests[r].call
       IN  UpdateUser(c.target, [users[c.target] EXCEPT !.email = Or(c.email, @), !.role = c.role,
                                                        !.isActive = Or(c.isActive, @)])
    /\ Commit(r, IF Deactivates(r) \/ RoleDiffers(r) THEN SessionsOf(Target(r)) ELSE {})
    /\ UNCHANGED delegated

Update(r) ==
    /\ Writing(r, {"update"})
    /\ LET c == requests[r].call
           row == users[c.target]
           new == [row EXCEPT !.email = Or(c.email, @), !.role = Or(c.role, @),
                              !.isActive = Or(c.isActive, @)]
       IN  /\ UpdateUser(c.target, new)
           /\ Commit(r, IF Deactivates(r) \/ RoleDiffers(r) \/ new.role # row.role
                        THEN SessionsOf(c.target) ELSE {})
    /\ UNCHANGED delegated

SetActive(r) ==
    /\ Writing(r, {"disable", "enable"})
    /\ UpdateUser(Target(r), [users[Target(r)] EXCEPT !.isActive = (Op(r) = "enable")])
    /\ Commit(r, IF Op(r) = "disable" THEN SessionsOf(Target(r)) ELSE {})
    /\ UNCHANGED delegated

ResetPassword(r) ==
    /\ Writing(r, {"resetPassword"})
    /\ UpdateUser(Target(r), [users[Target(r)] EXCEPT !.passwordHash = requests[r].call.password])
    /\ Commit(r, SessionsOf(Target(r)))
    /\ UNCHANGED delegated

Delete(r) ==
    /\ Writing(r, {"delete"})
    /\ DeleteUser(Target(r))
    /\ Commit(r, SessionsOf(Target(r)))
    /\ UNCHANGED delegated

AddPermission(r) ==
    /\ Writing(r, {"addPermission"})
    /\ LET c == requests[r].call
       IN  /\ \E p \in PermissionId :
                 InsertPermission(p, [userId |-> c.target, scope |-> c.scope])
           /\ delegated' = IF requests[r].role = "ADMIN"
                           THEN delegated \cup {c.scope} ELSE delegated
    /\ Commit(r, SessionsOf(Target(r)))

RemovePermission(r) ==
    /\ Writing(r, {"removePermission"})
    /\ DeletePermission(requests[r].call.permissionId)
    /\ Commit(r, SessionsOf(Target(r)))
    /\ UNCHANGED delegated

Logout(r) ==
    /\ Writing(r, {"logout"})
    /\ DeleteSessions({requests[r].cookie})
    /\ Commit(r, {requests[r].cookie})
    /\ UNCHANGED delegated

\* The constraints the write meets, or the row it needs and does not find.
WriteRefused(r) ==
    LET c == requests[r].call
    IN  CASE c.op = "create" -> Holders(c.email) # {}
          [] c.op = "update" ->
                \/ c.target \notin DOMAIN users
                \/ c.email # Unset /\ ~(Holders(c.email) \subseteq {c.target})
          [] c.op \in {"disable", "enable", "delete", "resetPassword"} ->
                c.target \notin DOMAIN users
          [] c.op = "addPermission" ->
                c.target \notin DOMAIN users \/ HasPermission(c.target, c.scope)
          [] c.op = "removePermission" -> c.permissionId \notin DOMAIN permissions
          [] OTHER -> FALSE

Refused(r) ==
    /\ At(r, "write")
    /\ WriteRefused(r)
    /\ Answer(r, Rejection(r))
    /\ UNCHANGED dbVars /\ UNCHANGED history

\* session.deleteMany of the target's sessions; update may do it twice.
PurgeSessions(r) ==
    /\ requests[r].stage \in {"purge", "purgeRole"}
    /\ DeleteSessions(SessionsOf(Target(r)))
    /\ Goto(r, IF At(r, "purge") /\ RoleDiffers(r) THEN "purgeRole" ELSE "log")
    /\ UNCHANGED history

(* Mutant of Log: nothing answers when the audit row is refused. *)
MutantLog(r) ==
    /\ At(r, "log")
    /\ requests[r].actor \in DOMAIN users
    /\ InsertAudit(r, [userId |-> requests[r].actor, action |-> Op(r)])
    /\ IF Op(r) = "login" THEN Goto(r, "me") ELSE Answer(r, 200)
    /\ UNCHANGED history

\* AuditService.log, the last await of every handler but login's.
Log(r) ==
    /\ At(r, "log")
    /\ \/ /\ requests[r].actor \in DOMAIN users
          /\ InsertAudit(r, [userId |-> requests[r].actor, action |-> Op(r)])
          /\ IF Op(r) = "login" THEN Goto(r, "me") ELSE Answer(r, 200)
       \/ /\ requests[r].actor \notin DOMAIN users
          /\ Answer(r, Rejection(r))
          /\ UNCHANGED dbVars
    /\ UNCHANGED history

-----------------------------------------------------------------------------
(* Login.                                                                  *)

\* login reads the account by its e-mail and verifies the password against
\* the hash it read; the account may change before the session is opened.
FindUser(r) ==
    /\ At(r, "find")
    /\ LET c == requests[r].call
           matching == {u \in Holders(c.email) : /\ users[u].isActive
                                                 /\ users[u].passwordHash = c.password}
       IN  \/ matching = {} /\ Answer(r, 401)
           \/ \E u \in matching :
                 requests' = [requests EXCEPT
                     ![r] = [@ EXCEPT !.stage = "open", !.actor = u, !.role = users[u].role]]
    /\ UNCHANGED dbVars /\ UNCHANGED history

\* The transaction that drops expired sessions and opens a fresh one.
OpenSession(r) ==
    /\ At(r, "open")
    /\ \/ /\ \E s \in SessionId :
                ReplaceExpired(s, [userId |-> requests[r].actor, expired |-> FALSE,
                                   password |-> requests[r].call.password])
          /\ Goto(r, "log")
          /\ applied' = applied \cup {r}
          /\ UNCHANGED <<revoked, delegated>>
       \/ /\ requests[r].actor \notin DOMAIN users
          /\ Answer(r, 500)
          /\ UNCHANGED dbVars /\ UNCHANGED history

\* The login route answers with AuthService.me.
Me(r) ==
    /\ At(r, "me")
    /\ Answer(r, IF requests[r].actor \in DOMAIN users THEN 200 ELSE 500)
    /\ UNCHANGED dbVars /\ UNCHANGED history

-----------------------------------------------------------------------------
(* The environment.                                                        *)

\* Whatever a request awaits may reject instead, and then changes nothing.
Fail(r) ==
    /\ requests[r].stage \notin {"idle", "reap", "done"}
    /\ Answer(r, Rejection(r))
    /\ UNCHANGED dbVars /\ UNCHANGED history

Expire(s) ==
    /\ PassExpiry(s)
    /\ UNCHANGED requests /\ UNCHANGED history

Write(r) ==
    \/ Create(r) \/ Update(r) \/ SetActive(r) \/ ResetPassword(r) \/ Delete(r)
    \/ AddPermission(r) \/ RemovePermission(r) \/ Logout(r) \/ Refused(r)

Step(r) ==
    \/ Authenticate(r) \/ Reap(r)
    \/ Load(r) \/ CheckEmail(r) \/ LoadGrants(r) \/ LoadPermission(r)
    \/ Write(r) \/ PurgeSessions(r) \/ Log(r)
    \/ FindUser(r) \/ OpenSession(r) \/ Me(r)

Next ==
    \/ \E r \in Request : Arrive(r) \/ Step(r) \/ Fail(r)
    \/ \E s \in SessionId : Expire(s)

Spec == Init /\ [][Next]_vars

\* A request that has arrived goes on: the event loop runs every settled
\* promise, and the database client settles every promise it gives out.
StepFair(r) == WF_vars(Step(r))

FairSpec == Spec /\ \A r \in Request : StepFair(r)

-----------------------------------------------------------------------------
(* Properties.                                                             *)

\* A scope that an administrator granted, or that lies within one, other than
\* a whole bucket, that an administrator granted.
Bounded(scope) ==
    \/ scope \in delegated
    \/ \E d \in delegated \ RootScope : <<scope, d>> \in Within

\* Delegation never widens access: whatever managers grant to each other's
\* viewers, whoever is promoted, and however stale the permissions a manager's
\* request has read, nobody holds a scope that is not within what an
\* administrator granted (assertCanGrantPermission and the insert after it).
DelegationBounded ==
    \A p \in DOMAIN permissions : Bounded(permissions[p].scope)

\* The change a request makes is one that, by the code's own tests, must end
\* the target's sessions.
Invalidates(r) ==
    \/ Op(r) \in {"logout", "disable", "delete", "resetPassword",
                  "addPermission", "removePermission"}
    \/ Deactivates(r) \/ RoleDiffers(r)

\* When a request whose change invalidates sessions is answered 200, none of
\* the sessions open at the moment of the change is left, and since a session
\* identifier is never reused they never come back, whatever logins and other
\* changes ran in between (the deleteMany after each write).
SessionsPurged ==
    \A r \in Request :
        requests[r].status = 200 /\ Invalidates(r) => revoked[r] \cap DOMAIN sessions = {}

\* The answer tells what happened: 200 means that the change is committed and
\* its audit row written; a refusal decided by a check means no change; and no
\* audit row records a change that was not made (the order write, purge, log in
\* every handler, when any step may be refused or fail).
AnswersTellTheEffect ==
    \A r \in Request :
        /\ requests[r].status = 200 => r \in applied /\ r \in DOMAIN auditLog
        /\ requests[r].status \in {400, 401, 403, 404} => r \notin applied
        /\ requests[r].status = 409 /\ Op(r) # "addPermission" => r \notin applied
        /\ r \in DOMAIN auditLog => r \in applied

\* An account becomes an administrator's or a manager's only through the write
\* of a request whose actor was an administrator when its session was looked
\* up, however the roles of actor and target have changed since (create and
\* update check the role of the actor, not the row they write).
StaffOnlyByAdmin ==
    [][\A u \in DOMAIN users' :
          /\ users'[u].role # "VIEWER"
          /\ u \in DOMAIN users => users[u].role # users'[u].role
          => \E r \in applied' \ applied : requests[r].role = "ADMIN"]_vars

\* An administrator's update has given u the role it has.
RaisedByAdmin(u) ==
    \E q \in applied :
        /\ requests[q].role = "ADMIN" /\ Op(q) = "update"
        /\ Target(q) = u /\ requests[q].call.role = users[u].role

\* A manager's change reaches the account of a manager or an administrator only
\* in a race: the account was a viewer's when the handler looked, and an
\* administrator has raised it (assertManagerCanManageTarget tests what
\* ensureUser read, and no write tests it again).
StaffReachedOnlyByRace ==
    [][\A r \in applied' \ applied :
          /\ requests[r].role = "MANAGER" /\ Op(r) \in AdminOps \ {"create"}
          /\ Target(r) \in DOMAIN users /\ users[Target(r)].role # "VIEWER"
          => requests[r].seenRole = "VIEWER" /\ RaisedByAdmin(Target(r))]_vars

\* Roles mean what they say: staff is made by administrators, and reached by
\* managers in a race only.
StaffGuarded == StaffOnlyByAdmin /\ StaffReachedOnlyByRace

Administrators == {u \in DOMAIN users : users[u].role = "ADMIN" /\ users[u].isActive}

\* The refusal to disable or delete one's own account keeps an administrator in
\* the portal: the last one that is active is lost by the own update, which no
\* test refuses, or in a race, to a request of an administrator who was one when
\* the session was looked up and has been overtaken by another's request, or to a
\* manager's that saw a viewer where an administrator has since raised one.
LastAdminGuarded ==
    [][Administrators # {} /\ Administrators' = {} =>
          \E r \in applied' \ applied :
              \/ Op(r) = "update" /\ Target(r) = requests[r].actor
              \/ requests[r].role = "ADMIN" /\ requests[r].actor \notin Administrators
              \/ requests[r].role = "MANAGER" /\ RaisedByAdmin(Target(r))]_vars

\* The audit log only grows: a row is never deleted or rewritten, except that
\* the deletion of the account it names clears that name (onDelete: SetNull).
AuditAppendOnly ==
    [][\A a \in DOMAIN auditLog :
          /\ a \in DOMAIN auditLog'
          /\ auditLog'[a].action = auditLog[a].action
          /\ \/ auditLog'[a].userId = auditLog[a].userId
             \/ auditLog'[a].userId = NoUser /\ auditLog[a].userId \notin DOMAIN users']_vars

\* Not checked, but the hypothesis of RequestsAreAnswered, which can prove nothing
\* of ENABLED: it says no more than that the guards of a request's steps leave no
\* gap, and EveryRequestAnswered, which is checked, fails where they do.
NeverStuck ==
    \A r \in Request :
        requests[r].stage \notin {"idle", "done"} => ENABLED <<Step(r)>>_vars

\* Every request that arrives is answered, whatever the others do.
EveryRequestAnswered ==
    \A r \in Request : At(r, "session") ~> At(r, "done")

\* What the server does to accounts, sessions and grants is what the ledger
\* allows: every step of a request is one step of the ledger or none.
Ledger == INSTANCE AccessLedger WITH
    accounts <- DOMAIN users,
    opened <- [s \in DOMAIN sessions |-> sessions[s].userId],
    spent <- issued \cap (UserId \cup SessionId),
    held <- {<<permissions[p].userId, permissions[p].scope>> : p \in DOMAIN permissions},
    granted <- delegated,
    FirstAccounts <- DOMAIN InitUsers,
    FirstOpened <- [s \in DOMAIN InitSessions |-> InitSessions[s].userId],
    FirstHeld <- {<<InitPermissions[p].userId, InitPermissions[p].scope>> :
                     p \in DOMAIN InitPermissions}

\* The refinement as a property: a session is opened once and for an existing
\* account, a deleted account leaves nothing, a grant is within what an
\* administrator granted.
ImplementsLedger == Ledger!LedgerSpec

-----------------------------------------------------------------------------
(* What the repository says and the code does not do: it is refuted.       *)

\* No request is under way, and all that were made succeeded.
AllSucceeded ==
    \A r \in Request : requests[r].stage = "idle" \/ requests[r].status = 200

\* "password ... changes invalidate affected sessions" (CHANGELOG.md:53): while
\* the password a reset answered 200 has set is in force, no session opened
\* with another password is open.
ResetInvalidates ==
    AllSucceeded => \A r \in Request :
        At(r, "done") /\ Op(r) = "resetPassword" =>
            \A s \in SessionsOf(Target(r)) :
                users[Target(r)].passwordHash = requests[r].call.password
                    => sessions[s].password = requests[r].call.password
=============================================================================
