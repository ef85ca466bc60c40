---------------------------- MODULE PortalProofs ----------------------------
(***************************************************************************)
(* Theorems about Portal, for every set of requests, calls, accounts and   *)
(* scopes.                                                                 *)
(***************************************************************************)
EXTENDS Portal, Naturals, TLAPS

-----------------------------------------------------------------------------
(* The constraints of the database hold whatever its clients do: each      *)
(* statement preserves the types of the tables, the foreign keys and the   *)
(* unique indexes.                                                         *)

\* Every statement writes rows of the table's type, and only keys handed out.
LEMMA DatabaseType == DatabaseTypeOK /\ [DatabaseNext]_dbVars => DatabaseTypeOK'
<1> SUFFICES ASSUME DatabaseTypeOK, [DatabaseNext]_dbVars PROVE DatabaseTypeOK'
    OBVIOUS
<1> USE DEF DatabaseTypeOK
<1>1. ASSUME NEW u \in UserId, NEW row \in UserRow, InsertUser(u, row)
      PROVE  DatabaseTypeOK'
  BY <1>1 DEF InsertUser, IsTable, Insert
<1>2. ASSUME NEW u \in UserId, NEW row \in UserRow, UpdateUser(u, row)
      PROVE  DatabaseTypeOK'
  BY <1>2 DEF UpdateUser, IsTable, Insert
<1>3. ASSUME NEW u \in UserId, DeleteUser(u) PROVE DatabaseTypeOK'
  <2>1. IsTable(users', UserId, UserRow) /\ DOMAIN users' \subseteq issued'
    BY <1>3 DEF DeleteUser, IsTable, Remove, Restrict
  <2>2. IsTable(sessions', SessionId, SessionRow) /\ DOMAIN sessions' \subseteq issued'
    BY <1>3 DEF DeleteUser, IsTable, Remove, Restrict
  <2>3. IsTable(permissions', PermissionId, PermissionRow) /\ DOMAIN permissions' \subseteq issued'
    BY <1>3 DEF DeleteUser, IsTable, Remove, Restrict
  <2>4. IsTable(auditLog', AuditId, AuditRow)
    BY <1>3 DEF DeleteUser, IsTable, AuditRow
  <2>5. QED
    BY <1>3, <2>1, <2>2, <2>3, <2>4 DEF DeleteUser
<1>4. ASSUME NEW S \in SUBSET SessionId, DeleteSessions(S) PROVE DatabaseTypeOK'
  BY <1>4 DEF DeleteSessions, IsTable, Remove, Restrict
<1>5. ASSUME NEW s \in SessionId, NEW row \in SessionRow, ReplaceExpired(s, row)
      PROVE  DatabaseTypeOK'
  <2> DEFINE kept == Remove(sessions, ExpiredSessions)
  <2>1. IsTable(kept, SessionId, SessionRow) /\ DOMAIN kept \subseteq DOMAIN sessions
    BY DEF IsTable, Remove, Restrict
  <2> HIDE DEF kept
  <2>2. sessions' = Insert(kept, s, row)
    BY <1>5 DEF ReplaceExpired, kept
  <2>3. QED
    BY <1>5, <2>1, <2>2 DEF ReplaceExpired, IsTable, Insert
<1>6. ASSUME NEW p \in PermissionId, NEW row \in PermissionRow, InsertPermission(p, row)
      PROVE  DatabaseTypeOK'
  BY <1>6 DEF InsertPermission, IsTable, Insert
<1>7. ASSUME NEW p \in PermissionId, DeletePermission(p) PROVE DatabaseTypeOK'
  BY <1>7 DEF DeletePermission, IsTable, Remove, Restrict
<1>8. ASSUME NEW a \in AuditId, NEW row \in AuditRow, InsertAudit(a, row)
      PROVE  DatabaseTypeOK'
  BY <1>8 DEF InsertAudit, IsTable, Insert
<1>9. ASSUME NEW s \in SessionId, PassExpiry(s) PROVE DatabaseTypeOK'
  BY <1>9 DEF PassExpiry, IsTable, SessionRow
<1>10. CASE UNCHANGED dbVars
  BY <1>10 DEF dbVars
<1> QED
  BY <1>1, <1>2, <1>3, <1>4, <1>5, <1>6, <1>7, <1>8, <1>9, <1>10 DEF DatabaseNext

\* The foreign keys: no statement leaves a row that names an account without one.
LEMMA DatabaseOrphans ==
    DatabaseTypeOK /\ NoOrphans /\ [DatabaseNext]_dbVars => NoOrphans'
<1> SUFFICES ASSUME DatabaseTypeOK, NoOrphans, [DatabaseNext]_dbVars PROVE NoOrphans'
    OBVIOUS
<1> USE DEF NoOrphans
<1>1. ASSUME NEW u \in UserId, NEW row \in UserRow, InsertUser(u, row) \/ UpdateUser(u, row)
      PROVE  NoOrphans'
  BY <1>1 DEF InsertUser, UpdateUser, Insert
<1>2. ASSUME NEW u \in UserId, DeleteUser(u) PROVE NoOrphans'
  <2>1. DOMAIN users' = DOMAIN users \ {u}
    BY <1>2 DEF DeleteUser, Remove, Restrict
  <2>2. \A s \in DOMAIN sessions' : sessions'[s].userId \in DOMAIN users'
    BY <1>2, <2>1 DEF DeleteUser, Remove, Restrict, SessionsOf
  <2>3. \A p \in DOMAIN permissions' : permissions'[p].userId \in DOMAIN users'
    BY <1>2, <2>1 DEF DeleteUser, Remove, Restrict, PermissionsOf
  <2>4. \A a \in DOMAIN auditLog' : auditLog'[a].userId \in DOMAIN users' \cup {NoUser}
    <3>1. TAKE a \in DOMAIN auditLog'
    <3>2. a \in DOMAIN auditLog /\ auditLog[a] \in AuditRow
      BY <1>2 DEF DeleteUser, DatabaseTypeOK, IsTable
    <3>3. auditLog'[a].userId = IF auditLog[a].userId = u THEN NoUser ELSE auditLog[a].userId
      BY <1>2, <3>2 DEF DeleteUser, AuditRow
    <3>4. QED
      BY <2>1, <3>2, <3>3
  <2>5. QED
    BY <2>2, <2>3, <2>4
<1>3. ASSUME NEW S \in SUBSET SessionId, DeleteSessions(S) PROVE NoOrphans'
  BY <1>3 DEF DeleteSessions, Remove, Restrict
<1>4. ASSUME NEW s \in SessionId, NEW row \in SessionRow, ReplaceExpired(s, row)
      PROVE  NoOrphans'
  BY <1>4 DEF ReplaceExpired, Insert, Remove, Restrict
<1>5. ASSUME NEW p \in PermissionId, NEW row \in PermissionRow, InsertPermission(p, row)
      PROVE  NoOrphans'
  BY <1>5 DEF InsertPermission, Insert
<1>6. ASSUME NEW p \in PermissionId, DeletePermission(p) PROVE NoOrphans'
  BY <1>6 DEF DeletePermission, Remove, Restrict
<1>7. ASSUME NEW a \in AuditId, NEW row \in AuditRow, InsertAudit(a, row) PROVE NoOrphans'
  BY <1>7 DEF InsertAudit, Insert
<1>8. ASSUME NEW s \in SessionId, PassExpiry(s) PROVE NoOrphans'
  BY <1>8 DEF PassExpiry, DatabaseTypeOK, IsTable, SessionRow
<1>9. CASE UNCHANGED dbVars
  BY <1>9 DEF dbVars
<1> QED
  BY <1>1, <1>2, <1>3, <1>4, <1>5, <1>6, <1>7, <1>8, <1>9 DEF DatabaseNext

\* The unique index on users.email: only two statements write an e-mail, and
\* each looks at every holder of it.
LEMMA DatabaseEmails == EmailsUnique /\ [DatabaseNext]_dbVars => EmailsUnique'
<1> SUFFICES ASSUME EmailsUnique, [DatabaseNext]_dbVars PROVE EmailsUnique'
    OBVIOUS
<1> USE DEF EmailsUnique
<1>1. ASSUME NEW u \in UserId, NEW row \in UserRow, InsertUser(u, row) \/ UpdateUser(u, row)
      PROVE  EmailsUnique'
  <2>1. \A v \in DOMAIN users : Collated[users[v].email] = Collated[row.email] => v = u
    BY <1>1 DEF InsertUser, UpdateUser, Holders
  <2>2. QED
    BY <1>1, <2>1 DEF InsertUser, UpdateUser, Insert
<1>2. ASSUME NEW u \in UserId, DeleteUser(u) PROVE EmailsUnique'
  BY <1>2 DEF DeleteUser, Remove, Restrict
<1>3. CASE UNCHANGED users
  BY <1>3
<1> QED
  BY <1>1, <1>2, <1>3
  DEF DatabaseNext, dbVars, DeleteSessions, ReplaceExpired, InsertPermission,
      DeletePermission, InsertAudit, PassExpiry

\* The unique index on userId, bucket and prefix.
LEMMA DatabaseGrants ==
    DatabaseTypeOK /\ OneRowPerGrant /\ [DatabaseNext]_dbVars => OneRowPerGrant'
<1> SUFFICES ASSUME DatabaseTypeOK, OneRowPerGrant, [DatabaseNext]_dbVars PROVE OneRowPerGrant'
    OBVIOUS
<1> USE DEF OneRowPerGrant
<1>1. ASSUME NEW p \in PermissionId, NEW row \in PermissionRow, InsertPermission(p, row)
      PROVE  OneRowPerGrant'
  <2>1. \A q \in DOMAIN permissions :
            permissions[q].userId = row.userId
            => CollatedScope[permissions[q].scope] # CollatedScope[row.scope]
    BY <1>1 DEF InsertPermission, HasPermission, PermissionsOf
  <2>2. QED
    BY <1>1, <2>1 DEF InsertPermission, Insert
<1>2. ASSUME NEW p \in PermissionId, DeletePermission(p) PROVE OneRowPerGrant'
  BY <1>2 DEF DeletePermission, Remove, Restrict
<1>3. ASSUME NEW u \in UserId, DeleteUser(u) PROVE OneRowPerGrant'
  BY <1>3 DEF DeleteUser, Remove, Restrict
<1>4. CASE UNCHANGED permissions
  BY <1>4
<1> QED
  BY <1>1, <1>2, <1>3, <1>4
  DEF DatabaseNext, dbVars, InsertUser, UpdateUser, DeleteSessions, ReplaceExpired,
      InsertAudit, PassExpiry

-----------------------------------------------------------------------------
(* What a request's stage says about it.                                   *)

\* The stages of a request that was let in: someone is known to be asking.
Admitted == {"load", "email", "grants", "grant", "write", "purge", "purgeRole"}

StagesOK ==
    \A r \in Request :
        /\ requests[r].stage \in {"find", "open", "me"} => Op(r) = "login"
        /\ requests[r].stage \in Admitted \cup {"reap"} => requests[r].cookie \in SessionId
        /\ requests[r].stage \in Admitted /\ Op(r) \in AdminOps
              => requests[r].role \in {"ADMIN", "MANAGER"}
        /\ At(r, "email") => Op(r) \in {"create", "update"}
        /\ At(r, "grants") => Op(r) = "addPermission"
        /\ At(r, "grant") => Op(r) = "removePermission"

-----------------------------------------------------------------------------
(* Requests keep their types.                                              *)

\* A request that is not idle carries a well-formed call.
LEMMA CallType ==
    ASSUME TypeOK, NEW r \in Request, ~At(r, "idle")
    PROVE  requests[r].call \in Calls /\ requests[r].call \in Call /\ WellFormed(requests[r].call)
BY CallsAssumption DEF TypeOK, At, RequestState

\* The part of TypeOK about requests.
RequestsOK ==
    /\ requests \in [Request -> RequestState]
    /\ \A r \in Request : At(r, "idle") <=> requests[r].call = NoCall

\* A step that gives one request a new state, with a call, keeps the types.
LEMMA ReviseType ==
    ASSUME TypeOK, NEW r \in Request, NEW state \in RequestState,
           state.stage # "idle", state.call # NoCall,
           requests' = [requests EXCEPT ![r] = state]
    PROVE  RequestsOK'
BY DEF TypeOK, RequestsOK, At

\* Moving one request to another stage keeps the types.
LEMMA GotoType ==
    ASSUME TypeOK, NEW r \in Request, ~At(r, "idle"), NEW s \in Stage \ {"idle"}, Goto(r, s)
    PROVE  RequestsOK'
BY DEF TypeOK, RequestsOK, At, Goto, RequestState

\* Answering one request keeps the types.
LEMMA AnswerType ==
    ASSUME TypeOK, NEW r \in Request, ~At(r, "idle"), NEW s \in Status, Answer(r, s)
    PROVE  RequestsOK'
<1> DEFINE state == [requests[r] EXCEPT !.stage = "done", !.status = s]
<1>1. requests[r] \in RequestState /\ requests[r].call # NoCall
  BY DEF TypeOK, At
<1>2. state \in RequestState /\ state.stage # "idle" /\ state.call # NoCall
  BY <1>1 DEF RequestState, Stage
<1>3. requests' = [requests EXCEPT ![r] = state]
  BY DEF Answer
<1> HIDE DEF state
<1>4. QED
  BY <1>2, <1>3, ReviseType

\* Going on without a session keeps the types.
LEMMA AnonymousType ==
    ASSUME TypeOK, NEW r \in Request, ~At(r, "idle"), GoOnAnonymously(r)
    PROVE  RequestsOK'
<1>1. "find" \in Stage \ {"idle"} /\ 401 \in Status
  BY DEF Stage, Status
<1>2. QED
  BY <1>1, GotoType, AnswerType DEF GoOnAnonymously

\* Every step keeps the requests' types.  The foreign keys matter here: the
\* owner of a session, whose role becomes the actor's, exists.
LEMMA RequestsType ==
    ASSUME TypeOK, NoOrphans, [Next]_vars PROVE RequestsOK'
<1>1. /\ {"session", "reap", "find", "open", "load", "email", "grants", "grant",
          "write", "purge", "purgeRole", "log", "me", "done"} \subseteq Stage \ {"idle"}
      /\ {200, 400, 401, 403, 404, 409, 500} \subseteq Status
  BY DEF Stage, Status
<1>2. ASSUME NEW r \in Request, Arrive(r) PROVE RequestsOK'
  <2>1. PICK c \in Calls, cookie \in (issued \cap SessionId) \cup {NoSession} :
            requests' = [requests EXCEPT
                ![r] = [@ EXCEPT !.stage = "session", !.call = c, !.cookie = cookie]]
    BY <1>2 DEF Arrive
  <2> DEFINE state == [requests[r] EXCEPT !.stage = "session", !.call = c, !.cookie = cookie]
  <2>2. "session" \in Stage /\ cookie \in SessionId \cup {NoSession}
    BY <1>1
  <2>3. state \in RequestState /\ state.stage # "idle" /\ state.call # NoCall
    BY <2>2, NullAssumption DEF TypeOK, RequestState
  <2>4. requests' = [requests EXCEPT ![r] = state]
    BY <2>1
  <2> HIDE DEF state
  <2>5. QED
    BY <2>3, <2>4, ReviseType
<1>3. ASSUME NEW r \in Request, Authenticate(r) PROVE RequestsOK'
  <2> DEFINE s == requests[r].cookie
             u == sessions[s].userId
  <2>1. ~At(r, "idle")
    BY <1>3 DEF Authenticate, At
  <2>2. CASE GoOnAnonymously(r)
    BY <2>1, <2>2, AnonymousType
  <2>3. CASE Goto(r, "reap")
    BY <1>1, <2>1, <2>3, GotoType
  <2>4. CASE s \in DOMAIN sessions /\ GoOnAs(r, u)
    <3>1. u \in UserId /\ users[u].role \in Role
      BY <2>4 DEF TypeOK, NoOrphans, DatabaseTypeOK, IsTable, UserRow
    <3>2. CASE Answer(r, 403) \/ Answer(r, 400)
      BY <1>1, <2>1, <3>2, AnswerType
    <3>3. CASE requests' = [requests EXCEPT
                  ![r] = [@ EXCEPT !.stage = FirstStage(requests[r].call.op),
                                   !.actor = u, !.role = users[u].role]]
      <4> DEFINE first == FirstStage(requests[r].call.op)
                 state == [requests[r] EXCEPT !.stage = first,
                                              !.actor = u, !.role = users[u].role]
      <4>1. first \in Stage \ {"idle"}
        BY <1>1 DEF FirstStage
      <4> HIDE DEF first
      <4>2. state \in RequestState /\ state.stage # "idle" /\ state.call # NoCall
        BY <2>1, <3>1, <4>1 DEF TypeOK, RequestState, At
      <4>3. requests' = [requests EXCEPT ![r] = state]
        BY <3>3 DEF first
      <4> HIDE DEF state
      <4>4. QED
        BY <4>2, <4>3, ReviseType
    <3>4. QED
      BY <2>4, <3>2, <3>3 DEF GoOnAs
  <2>5. QED
    BY <1>3, <2>2, <2>3, <2>4 DEF Authenticate
<1>4. ASSUME NEW r \in Request, Reap(r) PROVE RequestsOK'
  BY <1>4, AnonymousType DEF Reap, At
<1>5. ASSUME NEW r \in Request, Load(r) PROVE RequestsOK'
  <2> DEFINE c == requests[r].call
             row == users[c.target]
             next == StageAfterLoad(c, requests[r].role, row)
  <2>1. ~At(r, "idle")
    BY <1>5 DEF Load, At
  <2>2. CASE Answer(r, 404) \/ Answer(r, 403) \/ Answer(r, 400)
    BY <1>1, <2>1, <2>2, AnswerType
  <2>3. CASE /\ c.target \in DOMAIN users
             /\ requests' = [requests EXCEPT
                    ![r] = [@ EXCEPT !.stage = next, !.seenRole = row.role]]
    <3> DEFINE state == [requests[r] EXCEPT !.stage = next, !.seenRole = row.role]
    <3>1. next \in Stage \ {"idle"}
      BY <1>1 DEF StageAfterLoad
    <3>2. row.role \in Role
      BY <2>3 DEF TypeOK, DatabaseTypeOK, IsTable, UserRow
    <3>3. requests' = [requests EXCEPT ![r] = state]
      BY <2>3
    <3> HIDE DEF row, next
    <3>4. state \in RequestState /\ state.stage # "idle" /\ state.call # NoCall
      BY <2>1, <3>1, <3>2 DEF TypeOK, RequestState, At
    <3> HIDE DEF state
    <3>5. QED
      BY <3>3, <3>4, ReviseType
  <2>4. QED
    BY <1>5, <2>2, <2>3 DEF Load
<1>6. ASSUME NEW r \in Request, CheckEmail(r) \/ LoadGrants(r) \/ LoadPermission(r)
      PROVE  RequestsOK'
  <2>1. ~At(r, "idle")
    BY <1>6 DEF CheckEmail, LoadGrants, LoadPermission, At
  <2>2. QED
    BY <1>1, <1>6, <2>1, GotoType, AnswerType DEF CheckEmail, LoadGrants, LoadPermission
<1>7. ASSUME NEW r \in Request, Write(r) PROVE RequestsOK'
  <2>1. ~At(r, "idle") /\ StageAfterWrite(r) \in Stage \ {"idle"} /\ Rejection(r) \in Status
    BY <1>1, <1>7 DEF Write, Create, Update, SetActive, ResetPassword, Delete, AddPermission,
       RemovePermission, Logout, Refused, Writing, At, StageAfterWrite, Rejection
  <2>2. Goto(r, StageAfterWrite(r)) \/ Answer(r, Rejection(r))
    BY <1>7 DEF Write, Create, Update, SetActive, ResetPassword, Delete, AddPermission,
       RemovePermission, Logout, Refused, Commit
  <2>3. QED
    BY <2>1, <2>2, GotoType, AnswerType
<1>8. ASSUME NEW r \in Request, PurgeSessions(r) PROVE RequestsOK'
  <2>1. ~At(r, "idle") /\ (Goto(r, "purgeRole") \/ Goto(r, "log"))
    BY <1>8 DEF PurgeSessions, At
  <2>2. QED
    BY <1>1, <2>1, GotoType
<1>9. ASSUME NEW r \in Request, Log(r) \/ Me(r) \/ Fail(r) PROVE RequestsOK'
  <2>1. ~At(r, "idle") /\ Rejection(r) \in Status
    BY <1>1, <1>9 DEF Log, Me, Fail, At, Rejection
  <2>2. Goto(r, "me") \/ Answer(r, 200) \/ Answer(r, 500) \/ Answer(r, Rejection(r))
    BY <1>9 DEF Log, Me, Fail
  <2>3. QED
    BY <1>1, <2>1, <2>2, GotoType, AnswerType
<1>10. ASSUME NEW r \in Request, FindUser(r) PROVE RequestsOK'
  <2>1. ~At(r, "idle")
    BY <1>10 DEF FindUser, At
  <2>2. CASE Answer(r, 401)
    BY <1>1, <2>1, <2>2, AnswerType
  <2>3. ASSUME NEW u \in DOMAIN users,
               requests' = [requests EXCEPT
                   ![r] = [@ EXCEPT !.stage = "open", !.actor = u, !.role = users[u].role]]
        PROVE  RequestsOK'
    <3> DEFINE state == [requests[r] EXCEPT !.stage = "open", !.actor = u,
                                            !.role = users[u].role]
    <3>1. u \in UserId /\ users[u].role \in Role
      BY DEF TypeOK, DatabaseTypeOK, IsTable, UserRow
    <3>2. "open" \in Stage
      BY <1>1
    <3>3. state \in RequestState /\ state.stage # "idle" /\ state.call # NoCall
      BY <2>1, <3>1, <3>2 DEF TypeOK, RequestState, At
    <3>4. requests' = [requests EXCEPT ![r] = state]
      BY <2>3
    <3> HIDE DEF state
    <3>5. QED
      BY <3>3, <3>4, ReviseType
  <2>4. QED
    BY <1>10, <2>2, <2>3 DEF FindUser, Holders
<1>11. ASSUME NEW r \in Request, OpenSession(r) PROVE RequestsOK'
  <2>1. ~At(r, "idle") /\ (Goto(r, "log") \/ Answer(r, 500))
    BY <1>11 DEF OpenSession, At
  <2>2. QED
    BY <1>1, <2>1, GotoType, AnswerType
<1>12. CASE UNCHANGED requests
  BY <1>12 DEF TypeOK, RequestsOK, At
<1>13. QED
  BY <1>2, <1>3, <1>4, <1>5, <1>6, <1>7, <1>8, <1>9, <1>10, <1>11, <1>12
  DEF Next, Step, Expire, vars

-----------------------------------------------------------------------------
(* Stages.                                                                 *)

\* Every step keeps what each stage says of its request.
LEMMA StagesStep ==
    ASSUME TypeOK, NoOrphans, StagesOK, [Next]_vars PROVE StagesOK'
<1> USE DEF StagesOK, Admitted, Op, At
<1>1. ASSUME NEW r \in Request, Arrive(r) PROVE StagesOK'
  BY <1>1 DEF Arrive, TypeOK, RequestState
<1>2. ASSUME NEW r \in Request, NEW s, Answer(r, s) PROVE StagesOK'
  BY <1>2 DEF Answer, TypeOK, RequestState
<1>3. ASSUME NEW r \in Request, GoOnAnonymously(r) PROVE StagesOK'
  BY <1>2, <1>3 DEF GoOnAnonymously, Goto, TypeOK, RequestState
<1>4. ASSUME NEW r \in Request, Authenticate(r) PROVE StagesOK'
  <2> DEFINE s == requests[r].cookie
             u == sessions[s].userId
  <2>1. CASE GoOnAnonymously(r)
    BY <1>3, <2>1
  <2>2. CASE s \in DOMAIN sessions /\ Goto(r, "reap")
    BY <2>2 DEF Goto, TypeOK, RequestState, DatabaseTypeOK, IsTable
  <2>3. CASE s \in DOMAIN sessions /\ GoOnAs(r, u)
    <3> DEFINE c == requests[r].call
    <3>1. CASE Answer(r, 403) \/ Answer(r, 400)
      BY <1>2, <3>1
    <3>2. CASE /\ ~RoleForbids(c, users[u].role)
               /\ requests' = [requests EXCEPT
                      ![r] = [@ EXCEPT !.stage = FirstStage(c.op),
                                       !.actor = u, !.role = users[u].role]]
      <4>1. users[u].role \in Role
        BY <2>3 DEF TypeOK, NoOrphans, DatabaseTypeOK, IsTable, UserRow
      <4>2. s \in SessionId
        BY <2>3 DEF TypeOK, DatabaseTypeOK, IsTable
      <4>3. c.op \in AdminOps => users[u].role \in {"ADMIN", "MANAGER"}
        BY <3>2, <4>1 DEF RoleForbids, Role
      <4>4. /\ FirstStage(c.op) \in {"find", "email", "write", "load"}
            /\ FirstStage(c.op) = "find" => c.op = "login"
            /\ FirstStage(c.op) = "email" => c.op = "create"
        BY DEF FirstStage
      <4> HIDE DEF u
      <4>5. QED
        BY <3>2, <4>2, <4>3, <4>4 DEF TypeOK, RequestState
    <3>3. QED
      BY <2>3, <3>1, <3>2 DEF GoOnAs
  <2>4. QED
    BY <1>4, <2>1, <2>2, <2>3 DEF Authenticate
<1>5. ASSUME NEW r \in Request, Load(r) PROVE StagesOK'
  <2> DEFINE c == requests[r].call
             next == StageAfterLoad(c, requests[r].role, users[c.target])
  <2>1. CASE Answer(r, 404) \/ Answer(r, 403) \/ Answer(r, 400)
    BY <1>2, <2>1
  <2>2. CASE requests' = [requests EXCEPT
                 ![r] = [@ EXCEPT !.stage = next, !.seenRole = users[c.target].role]]
    <3>1. At(r, "load")
      BY <1>5 DEF Load
    <3>2. /\ next \in {"email", "grants", "grant", "write"}
          /\ next = "email" => c.op = "update"
          /\ next = "grants" => c.op = "addPermission"
          /\ next = "grant" => c.op = "removePermission"
      BY DEF StageAfterLoad
    <3> HIDE DEF next
    <3>3. QED
      BY <2>2, <3>1, <3>2 DEF At, TypeOK, RequestState
  <2>3. QED
    BY <1>5, <2>1, <2>2 DEF Load
<1>6. ASSUME NEW r \in Request, requests[r].stage \in Admitted,
             NEW s \in {"write", "purge", "purgeRole", "log"}, Goto(r, s)
      PROVE  StagesOK'
  BY <1>6 DEF Goto, TypeOK, RequestState
<1>7. ASSUME NEW r \in Request, CheckEmail(r) \/ LoadGrants(r) \/ LoadPermission(r)
      PROVE  StagesOK'
  BY <1>2, <1>6, <1>7 DEF CheckEmail, LoadGrants, LoadPermission, At
<1>8. ASSUME NEW r \in Request, Write(r) PROVE StagesOK'
  <2>1. At(r, "write") /\ (Goto(r, StageAfterWrite(r)) \/ Answer(r, Rejection(r)))
    BY <1>8 DEF Write, Create, Update, SetActive, ResetPassword, Delete, AddPermission,
       RemovePermission, Logout, Refused, Commit, Writing
  <2>2. StageAfterWrite(r) \in {"purge", "purgeRole", "log"}
    BY DEF StageAfterWrite
  <2>3. QED
    BY <1>2, <1>6, <2>1, <2>2 DEF At
<1>9. ASSUME NEW r \in Request, PurgeSessions(r) PROVE StagesOK'
  BY <1>6, <1>9 DEF PurgeSessions
<1>10. ASSUME NEW r \in Request, Log(r) PROVE StagesOK'
  BY <1>2, <1>10 DEF Log, Goto, TypeOK, RequestState
<1>11. ASSUME NEW r \in Request, FindUser(r) PROVE StagesOK'
  <2>1. CASE Answer(r, 401)
    BY <1>2, <2>1
  <2>2. ASSUME NEW u, requests' = [requests EXCEPT
                   ![r] = [@ EXCEPT !.stage = "open", !.actor = u, !.role = users[u].role]]
        PROVE  StagesOK'
    <3>1. requests[r].call.op = "login"
      BY <1>11 DEF FindUser, At
    <3>2. /\ requests'[r].stage = "open" /\ requests'[r].call = requests[r].call
          /\ \A q \in Request \ {r} : requests'[q] = requests[q]
      BY <2>2 DEF TypeOK, RequestState
    <3>3. QED
      BY <3>1, <3>2
  <2>3. QED
    BY <1>11, <2>1, <2>2 DEF FindUser
<1>12. ASSUME NEW r \in Request, OpenSession(r) PROVE StagesOK'
  BY <1>2, <1>12 DEF OpenSession, Goto, TypeOK, RequestState
<1>13. CASE UNCHANGED requests
  BY <1>13
<1>14. QED
  BY <1>1, <1>2, <1>3, <1>4, <1>5, <1>7, <1>8, <1>9, <1>10, <1>11, <1>12, <1>13
  DEF Next, Step, Reap, Me, Fail, Expire, vars

-----------------------------------------------------------------------------
(* The server uses the database as a client may.                           *)

\* A step does one of these, time runs out for a session, or only a request moves on.
Acts(r) ==
    \/ Create(r) \/ Update(r) \/ SetActive(r) \/ ResetPassword(r) \/ Delete(r)
    \/ AddPermission(r) \/ RemovePermission(r) \/ Logout(r)
    \/ Reap(r) \/ PurgeSessions(r) \/ Log(r) \/ OpenSession(r)

LEMMA StepKinds ==
    ASSUME [Next]_vars
    PROVE  \/ UNCHANGED <<dbVars, history>>
           \/ \E r \in Request : Acts(r)
           \/ \E s \in SessionId : Expire(s)
<1>1. ASSUME NEW r \in Request, Arrive(r) \/ Authenticate(r)
      PROVE  UNCHANGED <<dbVars, history>>
  BY <1>1 DEF Arrive, Authenticate
<1>2. ASSUME NEW r \in Request, Load(r) \/ CheckEmail(r)
      PROVE  UNCHANGED <<dbVars, history>>
  BY <1>2 DEF Load, CheckEmail
<1>3. ASSUME NEW r \in Request, LoadGrants(r) \/ LoadPermission(r) \/ Refused(r)
      PROVE  UNCHANGED <<dbVars, history>>
  BY <1>3 DEF LoadGrants, LoadPermission, Refused
<1>4. ASSUME NEW r \in Request, FindUser(r) \/ Me(r) \/ Fail(r)
      PROVE  UNCHANGED <<dbVars, history>>
  BY <1>4 DEF FindUser, Me, Fail
<1>5. CASE UNCHANGED vars
  BY <1>5 DEF vars, dbVars, history
<1>6. QED
  BY <1>1, <1>2, <1>3, <1>4, <1>5 DEF Next, Step, Write, Acts

\* Which steps change which table, and which the memory of what was done.
LEMMA ChangesOf ==
    ASSUME [Next]_vars
    PROVE  /\ \/ UNCHANGED users
              \/ \E r \in Request : \/ Create(r) \/ Update(r) \/ SetActive(r)
                                     \/ ResetPassword(r) \/ Delete(r)
           /\ \/ UNCHANGED permissions
              \/ \E r \in Request : AddPermission(r) \/ RemovePermission(r) \/ Delete(r)
           /\ UNCHANGED auditLog \/ \E r \in Request : Log(r) \/ Delete(r)
           /\ UNCHANGED delegated \/ \E r \in Request : AddPermission(r)
           /\ UNCHANGED <<applied, revoked>> \/ \E r \in Request : Write(r) \/ OpenSession(r)
<1>1. ASSUME NEW r \in Request, Create(r) \/ Update(r) \/ SetActive(r) \/ ResetPassword(r)
      PROVE  UNCHANGED <<permissions, auditLog, delegated>>
  BY <1>1 DEF Create, Update, SetActive, ResetPassword, InsertUser, UpdateUser
<1>2. ASSUME NEW r \in Request, Delete(r) PROVE UNCHANGED delegated
  BY <1>2 DEF Delete
<1>3. ASSUME NEW r \in Request, AddPermission(r) PROVE UNCHANGED <<users, auditLog>>
  BY <1>3 DEF AddPermission, InsertPermission
<1>4. ASSUME NEW r \in Request, RemovePermission(r) \/ Logout(r)
      PROVE  UNCHANGED <<users, auditLog, delegated>>
  BY <1>4 DEF RemovePermission, Logout, DeletePermission, DeleteSessions
<1>5. ASSUME NEW r \in Request, Logout(r) \/ Reap(r) \/ PurgeSessions(r)
      PROVE  UNCHANGED <<users, permissions, auditLog, delegated>>
  BY <1>5 DEF Logout, Reap, PurgeSessions, DeleteSessions, dbVars, history
<1>6. ASSUME NEW r \in Request, Log(r) PROVE UNCHANGED <<users, permissions, delegated>>
  BY <1>6 DEF Log, InsertAudit, dbVars, history
<1>7. ASSUME NEW r \in Request, OpenSession(r)
      PROVE  UNCHANGED <<users, permissions, auditLog, delegated>>
  BY <1>7 DEF OpenSession, ReplaceExpired, dbVars, history
<1>8. ASSUME NEW r \in Request, Reap(r) \/ PurgeSessions(r) \/ Log(r)
      PROVE  UNCHANGED <<applied, revoked>>
  BY <1>8 DEF Reap, PurgeSessions, Log, history
<1>9. ASSUME NEW s \in SessionId, Expire(s)
      PROVE  UNCHANGED <<users, permissions, auditLog, history>>
  BY <1>9 DEF Expire, PassExpiry, history
<1>10. QED
  BY <1>1, <1>2, <1>3, <1>4, <1>5, <1>6, <1>7, <1>8, <1>9, StepKinds
  DEF Acts, Write, dbVars, history

\* Every step of the server is a statement of the database, or none.
LEMMA DatabaseStep ==
    ASSUME TypeOK, NoOrphans, StagesOK, [Next]_vars PROVE [DatabaseNext]_dbVars
<1>1. ASSUME NEW r \in Request, ~At(r, "idle")
      PROVE  LET c == requests[r].call
             IN  c \in Call /\ WellFormed(c)
  BY <1>1, CallType
<1>2. ASSUME NEW r \in Request, Create(r) PROVE DatabaseNext
  <2> DEFINE c == requests[r].call
  <2>1. c \in Call /\ WellFormed(c) /\ c.op = "create"
    BY <1>1, <1>2 DEF Create, Writing, At, Op
  <2>2. [email |-> c.email, role |-> c.role, isActive |-> c.isActive,
         passwordHash |-> c.password] \in UserRow
    BY <2>1, UnsetAssumption DEF Call, WellFormed, UserRow
  <2>3. QED
    BY <1>2, <2>2 DEF Create, DatabaseNext
<1>3. ASSUME NEW r \in Request, Update(r) PROVE DatabaseNext
  <2> DEFINE c == requests[r].call
             row == users[c.target]
             new == [row EXCEPT !.email = Or(c.email, @), !.role = Or(c.role, @),
                                !.isActive = Or(c.isActive, @)]
  <2>1. c \in Call
    BY <1>1, <1>3 DEF Update, Writing, At
  <2>2. UpdateUser(c.target, new)
    BY <1>3 DEF Update
  <2>3. c.target \in UserId /\ row \in UserRow
    BY <2>2 DEF UpdateUser, TypeOK, DatabaseTypeOK, IsTable
  <2>4. Or(c.email, row.email) \in Email /\ Or(c.role, row.role) \in Role
        /\ Or(c.isActive, row.isActive) \in BOOLEAN
    BY <2>1, <2>3 DEF Or, Call, UserRow
  <2>5. new \in UserRow
    BY <2>3, <2>4 DEF UserRow
  <2>6. QED
    BY <2>2, <2>3, <2>5 DEF DatabaseNext
<1>4. ASSUME NEW r \in Request, SetActive(r) PROVE DatabaseNext
  <2> DEFINE u == Target(r)
             new == [users[u] EXCEPT !.isActive = (Op(r) = "enable")]
  <2>1. UpdateUser(u, new)
    BY <1>4 DEF SetActive
  <2>2. u \in UserId /\ users[u] \in UserRow
    BY <2>1 DEF UpdateUser, TypeOK, DatabaseTypeOK, IsTable
  <2>3. new \in UserRow
    BY <2>2 DEF UserRow
  <2>4. QED
    BY <2>1, <2>2, <2>3 DEF DatabaseNext
<1>5. ASSUME NEW r \in Request, ResetPassword(r) PROVE DatabaseNext
  <2> DEFINE u == Target(r)
             c == requests[r].call
             new == [users[u] EXCEPT !.passwordHash = c.password]
  <2>1. UpdateUser(u, new)
    BY <1>5 DEF ResetPassword
  <2>2. u \in UserId /\ users[u] \in UserRow
    BY <2>1 DEF UpdateUser, TypeOK, DatabaseTypeOK, IsTable
  <2>3. c.password \in Password
    BY <1>1, <1>5, UnsetAssumption DEF ResetPassword, Writing, At, Op, Call, WellFormed
  <2>4. new \in UserRow
    BY <2>2, <2>3 DEF UserRow
  <2>5. QED
    BY <2>1, <2>2, <2>4 DEF DatabaseNext
<1>6. ASSUME NEW r \in Request, Delete(r) PROVE DatabaseNext
  BY <1>6 DEF Delete, DeleteUser, TypeOK, DatabaseTypeOK, IsTable, DatabaseNext
<1>7. ASSUME NEW r \in Request, AddPermission(r) PROVE DatabaseNext
  <2> DEFINE c == requests[r].call
             row == [userId |-> c.target, scope |-> c.scope]
  <2>1. PICK p \in PermissionId : InsertPermission(p, row)
    BY <1>7 DEF AddPermission
  <2>2. c.scope \in Scope
    BY <1>1, <1>7, UnsetAssumption DEF AddPermission, Writing, At, Op, Call, WellFormed
  <2>3. row \in PermissionRow
    BY <2>1, <2>2 DEF InsertPermission, PermissionRow, TypeOK, DatabaseTypeOK, IsTable
  <2>4. QED
    BY <2>1, <2>3 DEF DatabaseNext
<1>8. ASSUME NEW r \in Request, RemovePermission(r) PROVE DatabaseNext
  BY <1>8 DEF RemovePermission, DeletePermission, TypeOK, DatabaseTypeOK, IsTable, DatabaseNext
<1>9. ASSUME NEW r \in Request, Logout(r) \/ PurgeSessions(r) \/ Reap(r)
      PROVE  DatabaseNext \/ UNCHANGED dbVars
  <2>1. SessionsOf(Target(r)) \subseteq SessionId
    BY DEF SessionsOf, TypeOK, DatabaseTypeOK, IsTable
  <2>2. Logout(r) \/ Reap(r) => requests[r].cookie \in SessionId
    BY DEF Logout, Writing, Reap, At, StagesOK, Admitted
  <2>3. QED
    BY <1>9, <2>1, <2>2 DEF Logout, PurgeSessions, Reap, DatabaseNext
<1>10. ASSUME NEW r \in Request, Log(r) PROVE DatabaseNext \/ UNCHANGED dbVars
  <2> DEFINE row == [userId |-> requests[r].actor, action |-> Op(r)]
  <2>1. Op(r) \in Action
    BY <1>1, <1>10, ActionAssumption DEF Log, At, Op, Call
  <2>2. requests[r].actor \in UserId \cup {NoUser}
    BY DEF TypeOK, RequestState
  <2>3. row \in AuditRow
    BY <2>1, <2>2 DEF AuditRow
  <2>4. QED
    BY <1>10, <2>3, RequestAssumption DEF Log, DatabaseNext
<1>11. ASSUME NEW r \in Request, OpenSession(r) PROVE DatabaseNext \/ UNCHANGED dbVars
  <2> DEFINE c == requests[r].call
             row == [userId |-> requests[r].actor, expired |-> FALSE, password |-> c.password]
  <2>1. CASE UNCHANGED dbVars
    BY <2>1
  <2>2. ASSUME NEW s \in SessionId, ReplaceExpired(s, row) PROVE DatabaseNext
    <3>1. c.password \in Password
      BY <1>1, <1>11, UnsetAssumption DEF OpenSession, At, StagesOK, Op, Call, WellFormed
    <3>2. row \in SessionRow
      BY <2>2, <3>1 DEF ReplaceExpired, SessionRow, TypeOK, DatabaseTypeOK, IsTable
    <3>3. QED
      BY <2>2, <3>2 DEF DatabaseNext
  <2>3. QED
    BY <1>11, <2>1, <2>2 DEF OpenSession
<1>12. ASSUME NEW s \in SessionId, Expire(s) PROVE DatabaseNext
  BY <1>12 DEF Expire, DatabaseNext
<1>13. QED
  BY <1>2, <1>3, <1>4, <1>5, <1>6, <1>7, <1>8, <1>9, <1>10, <1>11, <1>12, StepKinds DEF Acts

-----------------------------------------------------------------------------
(* The inductive invariant and its first consequences.                     *)

\* TypeOK is not inductive alone: that an actor's role is a role rests on the
\* foreign key of sessions, and that the row a login inserts has a password
\* rests on what stage a login can be in.
Consistent == TypeOK /\ NoOrphans /\ StagesOK

\* The initial database and the idle requests are consistent.
LEMMA ConsistentInit == Init => Consistent
<1> SUFFICES ASSUME Init PROVE Consistent
    OBVIOUS
<1> USE InitAssumption DEF Init
<1>1. DatabaseTypeOK
  BY DEF DatabaseTypeOK, IsTable
<1>2. IdleRequest \in RequestState
  BY DEF IdleRequest, RequestState, Stage, Status
<1>3. requests \in [Request -> RequestState]
  BY <1>2
<1>4. \A r \in Request : At(r, "idle") /\ requests[r].call = NoCall
  BY DEF At, IdleRequest
<1>5. delegated \subseteq Scope
  BY DEF IsTable, PermissionRow
<1>6. TypeOK
  BY <1>1, <1>3, <1>4, <1>5 DEF TypeOK
<1>7. NoOrphans
  BY DEF NoOrphans
<1>8. StagesOK
  BY <1>4 DEF StagesOK, At, Admitted
<1>9. QED
  BY <1>6, <1>7, <1>8 DEF Consistent

\* The history variables keep their types.
LEMMA HistoryType ==
    ASSUME TypeOK, NoOrphans, StagesOK, [Next]_vars
    PROVE  /\ applied' \subseteq Request
           /\ revoked' \in [Request -> SUBSET SessionId]
           /\ delegated' \subseteq Scope
<1>1. ASSUME NEW r \in Request, NEW S \in SUBSET SessionId, Commit(r, S)
      PROVE  applied' \subseteq Request /\ revoked' \in [Request -> SUBSET SessionId]
  BY <1>1 DEF Commit, TypeOK
<1>2. \A r \in Request : SessionsOf(Target(r)) \in SUBSET SessionId
  BY DEF SessionsOf, TypeOK, DatabaseTypeOK, IsTable
<1>3. ASSUME NEW r \in Request, Write(r)
      PROVE  applied' \subseteq Request /\ revoked' \in [Request -> SUBSET SessionId]
  <2>1. CASE Refused(r)
    BY <2>1 DEF Refused, history, TypeOK
  <2>2. CASE Logout(r)
    <3>1. {requests[r].cookie} \in SUBSET SessionId
      BY <2>2 DEF Logout, Writing, At, StagesOK, Admitted
    <3>2. QED
      BY <1>1, <2>2, <3>1 DEF Logout
  <2>3. CASE \E S \in {{}, SessionsOf(Target(r))} : Commit(r, S)
    BY <1>1, <1>2, <2>3
  <2>4. QED
    BY <1>3, <2>1, <2>2, <2>3
    DEF Write, Create, Update, SetActive, ResetPassword, Delete, AddPermission,
        RemovePermission, Target
<1>4. ASSUME NEW r \in Request, AddPermission(r) PROVE delegated' \subseteq Scope
  <2>1. requests[r].call.scope \in Scope
    BY <1>4, CallType, UnsetAssumption DEF AddPermission, Writing, At, Op, Call, WellFormed
  <2>2. QED
    BY <1>4, <2>1 DEF AddPermission, TypeOK
<1>5. ASSUME NEW r \in Request, OpenSession(r)
      PROVE  applied' \subseteq Request /\ revoked' \in [Request -> SUBSET SessionId]
  BY <1>5 DEF OpenSession, history, TypeOK
<1>6. QED
  BY <1>3, <1>4, <1>5, ChangesOf DEF TypeOK

\* Every step keeps the inductive invariant.
LEMMA ConsistentNext == Consistent /\ [Next]_vars => Consistent'
<1> SUFFICES ASSUME Consistent, [Next]_vars PROVE Consistent'
    OBVIOUS
<1> USE DEF Consistent
<1>1. [DatabaseNext]_dbVars
  BY DatabaseStep
<1>2. DatabaseTypeOK' /\ NoOrphans'
  BY <1>1, DatabaseType, DatabaseOrphans DEF TypeOK
<1>3. RequestsOK'
  BY RequestsType
<1>4. TypeOK'
  BY <1>2, <1>3, HistoryType DEF TypeOK, RequestsOK
<1>5. QED
  BY <1>2, <1>4, StagesStep

\* Types, references and stages are right in every reachable state: the
\* inductive invariant the other theorems start from (all of Portal).
THEOREM Consistency == Spec => []Consistent
<1>1. QED
  BY ConsistentInit, ConsistentNext, PTL DEF Spec

\* Whatever requests arrive and however they interleave, every table row, every
\* request and every history variable has its type (the state Portal declares).
THEOREM TypeCorrect == Spec => []TypeOK
<1>1. Consistent => TypeOK
  BY DEF Consistent
<1>2. QED
  BY <1>1, Consistency, PTL

\* No interleaving of deletions with logins, grants and log writes leaves a row
\* that names a deleted account (the foreign keys the handlers rely on).
THEOREM ReferencesHold == Spec => []NoOrphans
<1>1. Consistent => NoOrphans
  BY DEF Consistent
<1>2. QED
  BY <1>1, Consistency, PTL

\* Two requests that both found an e-mail free do not both get it, so a login
\* finds one account at most.
THEOREM EmailsStayUnique == Spec => []EmailsUnique
<1>1. Init => EmailsUnique
  BY InitAssumption DEF Init, EmailsUnique
<1>2. Consistent /\ EmailsUnique /\ [Next]_vars => EmailsUnique'
  BY DatabaseStep, DatabaseEmails DEF Consistent
<1>3. QED
  BY <1>1, <1>2, Consistency, PTL DEF Spec

\* However many requests add the same permission at once, one row holds it, and
\* removing that row removes the access.
THEOREM GrantsStayUnique == Spec => []OneRowPerGrant
<1>1. Init => OneRowPerGrant
  BY InitAssumption DEF Init, OneRowPerGrant
<1>2. Consistent /\ OneRowPerGrant /\ [Next]_vars => OneRowPerGrant'
  BY DatabaseStep, DatabaseGrants DEF Consistent, TypeOK
<1>3. QED
  BY <1>1, <1>2, Consistency, PTL DEF Spec

\* The tables stay consistent as a whole, for any number of requests.
THEOREM TablesStayConsistent == Spec => []TablesConsistent
<1>1. NoOrphans /\ EmailsUnique /\ OneRowPerGrant => TablesConsistent
  BY DEF TablesConsistent
<1>2. QED
  BY <1>1, ReferencesHold, EmailsStayUnique, GrantsStayUnique, PTL

-----------------------------------------------------------------------------
(* Delegation.                                                             *)

\* A scope that lies within one, not a whole bucket, that an administrator
\* granted.
Contained(scope) == \E d \in delegated \ RootScope : <<scope, d>> \in Within

\* DelegationBounded is not inductive alone: a manager's grant is decided at
\* one step and written at a later one, so what was decided must be known of
\* the request in between.  It is stable because "delegated" only grows.
GrantsAllowed ==
    \A r \in Request :
        At(r, "write") /\ Op(r) = "addPermission"
            => requests[r].role = "ADMIN" \/ Contained(requests[r].call.scope)

\* Before any request every scope held is one an administrator granted.
LEMMA GrantsInit == Init => GrantsAllowed /\ DelegationBounded
<1> SUFFICES ASSUME Init PROVE GrantsAllowed /\ DelegationBounded
    OBVIOUS
<1>1. GrantsAllowed
  BY DEF Init, GrantsAllowed, At, IdleRequest
<1>2. DelegationBounded
  BY DEF Init, DelegationBounded, Bounded
<1>3. QED
  BY <1>1, <1>2

\* What a manager's own permissions contain is contained in a grant of an
\* administrator: this is where Within must be transitive.
LEMMA DelegateContained ==
    ASSUME Consistent, DelegationBounded, NEW u, NEW scope \in Scope, MayDelegate(u, scope)
    PROVE  Contained(scope)
<1>1. PICK p \in DOMAIN permissions : /\ permissions[p].scope \notin RootScope
                                      /\ <<scope, permissions[p].scope>> \in Within
  BY DEF MayDelegate, PermissionsOf
<1>2. permissions[p].scope \in Scope
  BY DEF Consistent, TypeOK, DatabaseTypeOK, IsTable, PermissionRow
<1>3. CASE permissions[p].scope \in delegated
  BY <1>1, <1>3 DEF Contained
<1>4. ASSUME NEW d \in delegated \ RootScope, <<permissions[p].scope, d>> \in Within
      PROVE  Contained(scope)
  <2>1. d \in Scope
    BY DEF Consistent, TypeOK
  <2>2. <<scope, d>> \in Within
    BY <1>1, <1>2, <1>4, <2>1, WithinAssumption
  <2>3. QED
    BY <2>2 DEF Contained
<1>5. QED
  BY <1>3, <1>4 DEF DelegationBounded, Bounded

\* Scopes once granted by an administrator stay granted.
LEMMA DelegatedGrows == [Next]_vars => delegated \subseteq delegated'
BY ChangesOf DEF AddPermission

\* A request comes to its write only by a decision to let it.
LEMMA GrantsStep ==
    ASSUME Consistent, DelegationBounded, GrantsAllowed, [Next]_vars
    PROVE  GrantsAllowed'
<1> USE DEF Consistent
<1>1. \A scope : Contained(scope) => Contained(scope)'
  BY DelegatedGrows DEF Contained
<1>2. ASSUME NEW r \in Request,
             \A q \in Request \ {r} : requests'[q] = requests[q],
             requests'[r].stage = "write" /\ requests'[r].call.op = "addPermission"
                 => requests'[r].role = "ADMIN" \/ Contained(requests'[r].call.scope)
      PROVE  GrantsAllowed'
  BY <1>1, <1>2 DEF GrantsAllowed, At, Op
<1>3. ASSUME NEW r \in Request, NEW state, state.stage # "write",
             requests' = [requests EXCEPT ![r] = state]
      PROVE  GrantsAllowed'
  BY <1>2, <1>3 DEF TypeOK
<1>4. ASSUME NEW r \in Request, NEW s, Answer(r, s) PROVE GrantsAllowed'
  <2> DEFINE state == [requests[r] EXCEPT !.stage = "done", !.status = s]
  <2>1. requests' = [requests EXCEPT ![r] = state] /\ state.stage = "done"
    BY <1>4 DEF Answer, TypeOK, RequestState
  <2> HIDE DEF state
  <2>2. QED
    BY <1>3, <2>1
<1>5. ASSUME NEW r \in Request, NEW s, s # "write", Goto(r, s) PROVE GrantsAllowed'
  <2> DEFINE state == [requests[r] EXCEPT !.stage = s]
  <2>1. requests' = [requests EXCEPT ![r] = state] /\ state.stage = s
    BY <1>5 DEF Goto, TypeOK, RequestState
  <2> HIDE DEF state
  <2>2. QED
    BY <1>3, <1>5, <2>1
<1>6. ASSUME NEW r \in Request, GoOnAnonymously(r) PROVE GrantsAllowed'
  BY <1>4, <1>5, <1>6 DEF GoOnAnonymously
<1>7. ASSUME NEW r \in Request, Arrive(r) PROVE GrantsAllowed'
  <2>1. PICK c \in Calls, cookie \in (issued \cap SessionId) \cup {NoSession} :
            requests' = [requests EXCEPT
                ![r] = [@ EXCEPT !.stage = "session", !.call = c, !.cookie = cookie]]
    BY <1>7 DEF Arrive
  <2> DEFINE state == [requests[r] EXCEPT !.stage = "session", !.call = c, !.cookie = cookie]
  <2>2. requests' = [requests EXCEPT ![r] = state] /\ state.stage = "session"
    BY <2>1 DEF TypeOK, RequestState
  <2> HIDE DEF state
  <2>3. QED
    BY <1>3, <2>2
<1>8. ASSUME NEW r \in Request, Authenticate(r) PROVE GrantsAllowed'
  <2> DEFINE u == sessions[requests[r].cookie].userId
             c == requests[r].call
  <2>1. CASE requests' = [requests EXCEPT
                 ![r] = [@ EXCEPT !.stage = FirstStage(c.op),
                                  !.actor = u, !.role = users[u].role]]
    <3>1. FirstStage(c.op) = "write" => c.op # "addPermission"
      BY DEF FirstStage
    <3> HIDE DEF u
    <3>2. QED
      BY <1>2, <2>1, <3>1 DEF TypeOK, RequestState
  <2>2. QED
    BY <1>4, <1>5, <1>6, <1>8, <2>1 DEF Authenticate, GoOnAs
<1>9. ASSUME NEW r \in Request, Load(r) PROVE GrantsAllowed'
  <2> DEFINE c == requests[r].call
             role == requests[r].role
             next == StageAfterLoad(c, role, users[c.target])
  <2>1. CASE requests' = [requests EXCEPT
                 ![r] = [@ EXCEPT !.stage = next, !.seenRole = users[c.target].role]]
    <3>1. c.op = "addPermission" => role \in {"ADMIN", "MANAGER"}
      BY <1>9 DEF Load, At, StagesOK, Admitted, Op, AdminOps
    <3>2. next = "write" /\ c.op = "addPermission" => role = "ADMIN"
      BY <3>1 DEF StageAfterLoad
    <3> HIDE DEF next
    <3>3. QED
      BY <1>2, <2>1, <3>2 DEF TypeOK, RequestState
  <2>2. QED
    BY <1>4, <1>9, <2>1 DEF Load
<1>10. ASSUME NEW r \in Request, CheckEmail(r) \/ LoadPermission(r) PROVE GrantsAllowed'
  <2>1. Op(r) # "addPermission"
    BY <1>10 DEF CheckEmail, LoadPermission, StagesOK
  <2>2. CASE Goto(r, "write")
    BY <1>2, <2>1, <2>2 DEF Goto, Op, TypeOK, RequestState
  <2>3. QED
    BY <1>4, <1>10, <2>2 DEF CheckEmail, LoadPermission
<1>11. ASSUME NEW r \in Request, LoadGrants(r) PROVE GrantsAllowed'
  <2> DEFINE c == requests[r].call
  <2>1. CASE MayDelegate(requests[r].actor, c.scope) /\ Goto(r, "write")
    <3>1. c.scope \in Scope
      BY <1>11, CallType, UnsetAssumption DEF LoadGrants, At, StagesOK, Op, Call, WellFormed
    <3>2. Contained(c.scope)
      BY <2>1, <3>1, DelegateContained
    <3>3. QED
      BY <1>2, <2>1, <3>2 DEF Goto, TypeOK, RequestState
  <2>2. QED
    BY <1>4, <1>11, <2>1 DEF LoadGrants
<1>12. ASSUME NEW r \in Request, Write(r) PROVE GrantsAllowed'
  <2>1. Goto(r, StageAfterWrite(r)) \/ Answer(r, Rejection(r))
    BY <1>12 DEF Write, Create, Update, SetActive, ResetPassword, Delete, AddPermission,
       RemovePermission, Logout, Refused, Commit
  <2>2. StageAfterWrite(r) # "write"
    BY DEF StageAfterWrite
  <2>3. QED
    BY <1>4, <1>5, <2>1, <2>2
<1>13. ASSUME NEW r \in Request,
              Reap(r) \/ PurgeSessions(r) \/ Log(r) \/ OpenSession(r) \/ Me(r) \/ Fail(r)
       PROVE  GrantsAllowed'
  BY <1>4, <1>5, <1>6, <1>13 DEF Reap, PurgeSessions, Log, OpenSession, Me, Fail
<1>14. ASSUME NEW r \in Request, FindUser(r) PROVE GrantsAllowed'
  <2>1. ASSUME NEW u, requests' = [requests EXCEPT
                   ![r] = [@ EXCEPT !.stage = "open", !.actor = u, !.role = users[u].role]]
        PROVE  GrantsAllowed'
    <3> DEFINE state == [requests[r] EXCEPT !.stage = "open", !.actor = u,
                                            !.role = users[u].role]
    <3>1. requests' = [requests EXCEPT ![r] = state] /\ state.stage = "open"
      BY <2>1 DEF TypeOK, RequestState
    <3> HIDE DEF state
    <3>2. QED
      BY <1>3, <3>1
  <2>2. QED
    BY <1>4, <1>14, <2>1 DEF FindUser
<1>15. CASE UNCHANGED requests
  BY <1>1, <1>15 DEF GrantsAllowed, At, Op
<1>16. QED
  BY <1>7, <1>8, <1>9, <1>10, <1>11, <1>12, <1>13, <1>14, <1>15 DEF Next, Step, Expire, vars

\* Every step keeps all held scopes within what administrators granted.
LEMMA BoundedStep ==
    ASSUME Consistent, DelegationBounded, GrantsAllowed, [Next]_vars
    PROVE  DelegationBounded'
<1>1. \A scope : Bounded(scope) => Bounded(scope)'
  BY DelegatedGrows DEF Bounded
<1>2. CASE \E r \in Request : AddPermission(r)
  <2>1. PICK r \in Request : AddPermission(r)
    BY <1>2
  <2>2. PICK row : row = [userId |-> Target(r), scope |-> requests[r].call.scope]
    OBVIOUS
  <2>3. PICK p \in PermissionId : InsertPermission(p, row)
    BY <2>1, <2>2 DEF AddPermission, Target
  <2>4. Bounded(row.scope)'
    <3>1. requests[r].role = "ADMIN" \/ Contained(row.scope)
      BY <2>1, <2>2 DEF AddPermission, Writing, GrantsAllowed
    <3>2. requests[r].role = "ADMIN" => row.scope \in delegated'
      BY <2>1, <2>2 DEF AddPermission
    <3>3. Contained(row.scope) => Bounded(row.scope)
      BY DEF Contained, Bounded
    <3>4. QED
      BY <1>1, <3>1, <3>2, <3>3 DEF Bounded
  <2>5. QED
    BY <1>1, <2>3, <2>4 DEF InsertPermission, Insert, DelegationBounded
<1>3. CASE ~\E r \in Request : AddPermission(r)
  <2>1. /\ DOMAIN permissions' \subseteq DOMAIN permissions
        /\ \A p \in DOMAIN permissions' : permissions'[p] = permissions[p]
    BY <1>3, ChangesOf DEF RemovePermission, Delete, DeletePermission, DeleteUser, Remove, Restrict
  <2>2. QED
    BY <1>1, <2>1 DEF DelegationBounded
<1>4. QED
  BY <1>2, <1>3

\* No chain of grants, promotions, demotions and withdrawals, at any
\* interleaving, gives anybody a scope that is not within what an administrator
\* granted (addPermission and assertCanGrantPermission).
THEOREM DelegationStaysBounded == Spec => []DelegationBounded
<1> DEFINE Inv == GrantsAllowed /\ DelegationBounded
<1>1. Init => Inv
  BY GrantsInit
<1>2. Consistent /\ Inv /\ [Next]_vars => Inv'
  BY GrantsStep, BoundedStep
<1>3. Inv => DelegationBounded
  OBVIOUS
<1>4. QED
  BY <1>1, <1>2, <1>3, Consistency, PTL DEF Spec

-----------------------------------------------------------------------------
(* Every request is answered.                                              *)

\* How far a handler is: every await comes after those of lower rank.
Rank == [idle |-> 0, session |-> 1, reap |-> 2, find |-> 3, load |-> 3,
         open |-> 4, email |-> 4, grants |-> 4, grant |-> 4, write |-> 5,
         purge |-> 6, purgeRole |-> 7, log |-> 8, me |-> 9, done |-> 10]

Level(r) == Rank[requests[r].stage]

\* Request r has moved on, and no other request has moved.
Advanced(r) ==
    /\ Level(r)' > Level(r)
    /\ \A q \in Request \ {r} : Level(q)' = Level(q)

\* The ranks are numbers, and tell the first stages and the last from the others.
LEMMA RankType ==
    \A s \in Stage : /\ Rank[s] \in 0..10
                     /\ Rank[s] = 0 <=> s = "idle"
                     /\ Rank[s] = 1 <=> s = "session"
                     /\ Rank[s] = 10 <=> s = "done"
BY DEF Rank, Stage

\* Whatever a handler does next, it never returns to an await it has passed:
\* there is no retry and no loop in it.
LEMMA StepAdvances ==
    ASSUME Consistent, NEW r \in Request, Step(r) \/ Fail(r)
    PROVE  Advanced(r)
<1>1. requests \in [Request -> RequestState] /\ requests[r].stage \in Stage
  BY DEF Consistent, TypeOK, RequestState
<1>2. ASSUME NEW state, Rank[state.stage] > Level(r),
             requests' = [requests EXCEPT ![r] = state]
      PROVE  Advanced(r)
  BY <1>1, <1>2 DEF Advanced, Level
<1>3. ASSUME NEW s, Rank[s] > Level(r), Goto(r, s) PROVE Advanced(r)
  <2> DEFINE state == [requests[r] EXCEPT !.stage = s]
  <2>1. requests' = [requests EXCEPT ![r] = state] /\ state.stage = s
    BY <1>1, <1>3 DEF Goto, RequestState
  <2> HIDE DEF state
  <2>2. QED
    BY <1>2, <1>3, <2>1
<1>4. ASSUME NEW s, ~At(r, "done"), Answer(r, s) PROVE Advanced(r)
  <2> DEFINE state == [requests[r] EXCEPT !.stage = "done", !.status = s]
  <2>1. requests' = [requests EXCEPT ![r] = state] /\ state.stage = "done"
    BY <1>1, <1>4 DEF Answer, RequestState
  <2>2. Rank["done"] > Level(r)
    <3>1. Level(r) \in 0..10 /\ Level(r) # 10
      BY <1>1, <1>4, RankType DEF Level, At
    <3>2. QED
      BY <3>1 DEF Rank
  <2> HIDE DEF state
  <2>3. QED
    BY <1>2, <2>1, <2>2
<1>5. ASSUME requests[r].stage \in {"session", "reap"}, GoOnAnonymously(r)
      PROVE  Advanced(r)
  <2>1. ~At(r, "done") /\ Rank["find"] > Level(r)
    BY <1>5 DEF At, Level, Rank
  <2>2. QED
    BY <1>3, <1>4, <1>5, <2>1 DEF GoOnAnonymously
<1>6. CASE Authenticate(r)
  <2> DEFINE u == sessions[requests[r].cookie].userId
             first == FirstStage(requests[r].call.op)
  <2>1. At(r, "session") /\ Level(r) = 1
    BY <1>6 DEF Authenticate, At, Level, Rank
  <2>2. CASE Answer(r, 403) \/ Answer(r, 400)
    BY <1>4, <2>1, <2>2 DEF At
  <2>3. CASE requests' = [requests EXCEPT
                 ![r] = [@ EXCEPT !.stage = first, !.actor = u, !.role = users[u].role]]
    <3> DEFINE state == [requests[r] EXCEPT !.stage = first,
                                            !.actor = u, !.role = users[u].role]
    <3>1. Rank[first] > 1
      BY DEF FirstStage, Rank
    <3> HIDE DEF first
    <3>2. requests' = [requests EXCEPT ![r] = state] /\ state.stage = first
      BY <1>1, <2>3 DEF RequestState
    <3> HIDE DEF state
    <3>3. QED
      BY <1>2, <2>1, <3>1, <3>2
  <2>4. CASE Goto(r, "reap")
    <3>1. Rank["reap"] = 2
      BY DEF Rank
    <3>2. QED
      BY <1>3, <2>1, <2>4, <3>1
  <2>5. QED
    BY <1>5, <1>6, <2>1, <2>2, <2>3, <2>4 DEF Authenticate, GoOnAs, At
<1>7. CASE Reap(r)
  BY <1>5, <1>7 DEF Reap, At
<1>8. CASE Load(r)
  <2> DEFINE c == requests[r].call
             row == users[c.target]
             next == StageAfterLoad(c, requests[r].role, row)
  <2>1. At(r, "load") /\ Level(r) = 3
    BY <1>8 DEF Load, At, Level, Rank
  <2>2. CASE Answer(r, 404) \/ Answer(r, 403) \/ Answer(r, 400)
    BY <1>4, <2>1, <2>2 DEF At
  <2>3. CASE requests' = [requests EXCEPT ![r] = [@ EXCEPT !.stage = next, !.seenRole = row.role]]
    <3> DEFINE state == [requests[r] EXCEPT !.stage = next, !.seenRole = row.role]
    <3>1. Rank[next] > 3
      BY DEF StageAfterLoad, Rank
    <3> HIDE DEF next
    <3>2. requests' = [requests EXCEPT ![r] = state] /\ state.stage = next
      BY <1>1, <2>3 DEF RequestState
    <3> HIDE DEF state
    <3>3. QED
      BY <1>2, <2>1, <3>1, <3>2
  <2>4. QED
    BY <1>8, <2>2, <2>3 DEF Load
<1>9. CASE CheckEmail(r) \/ LoadGrants(r) \/ LoadPermission(r)
  <2>1. ~At(r, "done") /\ Level(r) = 4 /\ Rank["write"] = 5
    BY <1>9 DEF CheckEmail, LoadGrants, LoadPermission, At, Level, Rank
  <2>2. QED
    BY <1>3, <1>4, <1>9, <2>1 DEF CheckEmail, LoadGrants, LoadPermission
<1>10. CASE Write(r)
  <2>1. At(r, "write") /\ (Goto(r, StageAfterWrite(r)) \/ Answer(r, Rejection(r)))
    BY <1>10 DEF Write, Create, Update, SetActive, ResetPassword, Delete, AddPermission,
       RemovePermission, Logout, Refused, Commit, Writing
  <2>2. ~At(r, "done") /\ Level(r) = 5
    BY <2>1 DEF At, Level, Rank
  <2>3. Rank[StageAfterWrite(r)] > 5
    BY DEF StageAfterWrite, Rank
  <2>4. QED
    BY <1>3, <1>4, <2>1, <2>2, <2>3
<1>11. CASE PurgeSessions(r)
  <2>1. Rank["purge"] = 6 /\ Rank["purgeRole"] = 7 /\ Rank["log"] = 8
    BY DEF Rank
  <2>2. CASE At(r, "purge")
    BY <1>3, <1>11, <2>1, <2>2 DEF PurgeSessions, At, Level
  <2>3. CASE At(r, "purgeRole")
    BY <1>3, <1>11, <2>1, <2>3 DEF PurgeSessions, At, Level
  <2>4. QED
    BY <1>11, <2>2, <2>3 DEF PurgeSessions, At
<1>12. CASE Log(r)
  <2>1. ~At(r, "done") /\ Level(r) = 8 /\ Rank["me"] = 9
    BY <1>12 DEF Log, At, Level, Rank
  <2>2. QED
    BY <1>3, <1>4, <1>12, <2>1 DEF Log
<1>13. CASE FindUser(r)
  <2>1. At(r, "find")
    BY <1>13 DEF FindUser
  <2>2. ~At(r, "done") /\ Rank["open"] > Level(r)
    BY <2>1 DEF At, Level, Rank
  <2>3. ASSUME NEW u, requests' = [requests EXCEPT
                   ![r] = [@ EXCEPT !.stage = "open", !.actor = u, !.role = users[u].role]]
        PROVE  Advanced(r)
    <3> DEFINE state == [requests[r] EXCEPT !.stage = "open", !.actor = u,
                                            !.role = users[u].role]
    <3>1. requests' = [requests EXCEPT ![r] = state] /\ state.stage = "open"
      BY <1>1, <2>3 DEF RequestState
    <3> HIDE DEF state
    <3>2. QED
      BY <1>2, <2>2, <3>1
  <2>4. QED
    BY <1>4, <1>13, <2>2, <2>3 DEF FindUser
<1>14. CASE OpenSession(r)
  <2>1. ~At(r, "done") /\ Level(r) = 4 /\ Rank["log"] = 8
    BY <1>14 DEF OpenSession, At, Level, Rank
  <2>2. QED
    BY <1>3, <1>4, <1>14, <2>1 DEF OpenSession
<1>15. CASE Me(r) \/ Fail(r)
  BY <1>4, <1>15 DEF Me, Fail, At
<1>16. QED
  BY <1>6, <1>7, <1>8, <1>9, <1>10, <1>11, <1>12, <1>13, <1>14, <1>15 DEF Step

\* A request that has not started its next step stays where it is.
LEMMA LevelsNext ==
    ASSUME Consistent, [Next]_vars, NEW r \in Request, Level(r) > 0
    PROVE  Level(r)' = Level(r) \/ Level(r)' > Level(r)
<1>1. ASSUME NEW q \in Request, Arrive(q) PROVE Level(r)' = Level(r)
  <2>1. q # r
    BY <1>1 DEF Arrive, At, Level, Rank
  <2>2. QED
    BY <1>1, <2>1 DEF Arrive, Level, Consistent, TypeOK
<1>2. ASSUME NEW q \in Request, Step(q) \/ Fail(q)
      PROVE  Level(r)' = Level(r) \/ Level(r)' > Level(r)
  BY <1>2, StepAdvances DEF Advanced
<1>3. CASE UNCHANGED requests
  BY <1>3 DEF Level
<1>4. QED
  BY <1>1, <1>2, <1>3 DEF Next, Expire, vars

\* A request at await n goes on.
Advances(r, n) == (Level(r) = n) ~> (Level(r) > n)

\* One await: a fair step, always possible, and no step that leads back.
LEMMA EachAwaitPasses ==
    ASSUME NEW r \in Request, NEW n \in 1..9
    PROVE  Spec /\ StepFair(r) /\ []NeverStuck => Advances(r, n)
<1>1. Consistent /\ NeverStuck => (Level(r) = n => ENABLED <<Step(r)>>_vars)
  BY RankType DEF NeverStuck, Consistent, TypeOK, RequestState, Level
<1>2. Consistent /\ [Next]_vars => (Level(r) = n => (Level(r) = n)' \/ (Level(r) > n)')
  BY LevelsNext
<1>3. Consistent /\ <<Step(r)>>_vars => (Level(r) = n => (Level(r) > n)')
  BY StepAdvances DEF Advanced
<1>4. QED
  BY <1>1, <1>2, <1>3, Consistency, PTL DEF Spec, StepFair, Advances

\* Every request that arrives is answered, for any number of requests and
\* whatever the others do meanwhile, as long as no await is without a step that
\* can follow it (NeverStuck): the chain of a handler's awaits is finite and is
\* only walked forwards (all handlers of AuthService and UserService).
THEOREM RequestsAreAnswered == FairSpec /\ []NeverStuck => EveryRequestAnswered
<1>1. SUFFICES ASSUME NEW r \in Request
               PROVE  FairSpec /\ []NeverStuck => (At(r, "session") ~> At(r, "done"))
  BY DEF EveryRequestAnswered
<1>2. FairSpec => Spec /\ StepFair(r)
  BY DEF FairSpec
<1>3. Consistent => /\ Level(r) \in 0..10
                    /\ At(r, "session") => Level(r) = 1
                    /\ Level(r) = 10 => At(r, "done")
  BY RankType DEF Consistent, TypeOK, RequestState, Level, At
<1>4. Consistent =>
        /\ Level(r) > 9 => At(r, "done")
        /\ Level(r) > 8 => Level(r) = 9 \/ At(r, "done")
        /\ Level(r) > 7 => Level(r) = 8 \/ Level(r) > 8
        /\ Level(r) > 6 => Level(r) = 7 \/ Level(r) > 7
        /\ Level(r) > 5 => Level(r) = 6 \/ Level(r) > 6
        /\ Level(r) > 4 => Level(r) = 5 \/ Level(r) > 5
        /\ Level(r) > 3 => Level(r) = 4 \/ Level(r) > 4
        /\ Level(r) > 2 => Level(r) = 3 \/ Level(r) > 3
        /\ Level(r) > 1 => Level(r) = 2 \/ Level(r) > 2
  BY <1>3
<1>5. Spec /\ StepFair(r) /\ []NeverStuck =>
        /\ Advances(r, 1) /\ Advances(r, 2) /\ Advances(r, 3)
        /\ Advances(r, 4) /\ Advances(r, 5) /\ Advances(r, 6)
        /\ Advances(r, 7) /\ Advances(r, 8) /\ Advances(r, 9)
  BY EachAwaitPasses
<1>6. QED
  BY <1>2, <1>3, <1>4, <1>5, Consistency, PTL DEF Advances
=============================================================================
