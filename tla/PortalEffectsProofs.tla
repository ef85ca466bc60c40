------------------------- MODULE PortalEffectsProofs -------------------------
(***************************************************************************)
(* What the requests of Portal do and what they answer, for every set of   *)
(* requests, calls, accounts and scopes: answers, audit rows, sessions     *)
(* that a change ends, roles and the last administrator, the files behind  *)
(* the scopes, and the ledger that the whole implements.                   *)
(***************************************************************************)
EXTENDS PortalProofs, PortalAccess

-----------------------------------------------------------------------------
(* Answers and audit rows.                                                 *)

Early == {"idle", "session", "reap", "find", "open", "load", "email", "grants", "grant", "write"}

Written == {"purge", "purgeRole", "log"}

\* What the stage and the answer of a request say of its change and its row.
EffectOf(r) ==
    /\ requests[r].stage # "done" => requests[r].status = Pending
    /\ requests[r].stage \in Early => r \notin applied
    /\ requests[r].stage \in Written \cup {"me"} => r \in applied
    /\ requests[r].stage \in Early \cup Written => r \notin DOMAIN auditLog
    /\ requests[r].stage = "me" => r \in DOMAIN auditLog
    /\ requests[r].status = 200 => r \in applied /\ r \in DOMAIN auditLog
    /\ requests[r].status \in {400, 401, 403, 404} => r \notin applied
    /\ requests[r].status = 409 /\ Op(r) # "addPermission" => r \notin applied
    /\ r \in DOMAIN auditLog => r \in applied

EffectsOK == \A r \in Request : EffectOf(r)

\* Of each request but r, nothing the effects speak of changes.
Others(r) ==
    \A q \in Request \ {r} :
        /\ requests'[q] = requests[q]
        /\ q \in applied' <=> q \in applied
        /\ q \in DOMAIN auditLog' <=> q \in DOMAIN auditLog

LEMMA OthersKeep ==
    ASSUME EffectsOK, NEW r \in Request, Others(r), EffectOf(r)'
    PROVE  EffectsOK'
BY DEF EffectsOK, EffectOf, Others, Op

\* A request is answered, its change and its row as they are.
LEMMA AnswerEffect ==
    ASSUME TypeOK, EffectsOK, NEW r \in Request, NEW s, Answer(r, s), applied' = applied,
           DOMAIN auditLog' = DOMAIN auditLog,
           s = 200 => r \in applied /\ r \in DOMAIN auditLog,
           s \in {400, 401, 403, 404} => r \notin applied,
           s = 409 /\ Op(r) # "addPermission" => r \notin applied
    PROVE  EffectsOK'
<1>1. requests' = [requests EXCEPT ![r] = [requests[r] EXCEPT !.stage = "done", !.status = s]]
  BY DEF Answer
<1>2. /\ requests'[r].stage = "done" /\ requests'[r].status = s
      /\ requests'[r].call = requests[r].call
      /\ \A q \in Request \ {r} : requests'[q] = requests[q]
  BY <1>1 DEF TypeOK, RequestState
<1>3. EffectOf(r)'
  BY <1>2 DEF EffectsOK, EffectOf, Early, Written, Op
<1>4. QED
  BY <1>2, <1>3, OthersKeep DEF Others

\* A request moves to a stage with the same effects.
LEMMA GotoEffect ==
    ASSUME TypeOK, EffectsOK, NEW r \in Request, NEW s, applied' = applied,
           DOMAIN auditLog' = DOMAIN auditLog,
           \A q \in Request \ {r} : requests'[q] = requests[q],
           requests'[r].stage = s, requests'[r].status = requests[r].status,
           \/ requests[r].stage \in Early /\ s \in Early
           \/ requests[r].stage \in Written /\ s \in Written
    PROVE  EffectsOK'
<1>1. EffectOf(r)
  BY DEF EffectsOK
<1>2. EffectOf(r)'
  BY <1>1 DEF EffectOf, Early, Written, Pending
<1>3. QED
  BY <1>2, OthersKeep DEF Others

\* What Goto does to a request.
LEMMA GotoOnly ==
    ASSUME TypeOK, NEW r \in Request, NEW s, Goto(r, s)
    PROVE  /\ requests'[r].stage = s /\ requests'[r].status = requests[r].status
           /\ requests'[r].call = requests[r].call /\ requests'[r].cookie = requests[r].cookie
           /\ requests'[r].seenRole = requests[r].seenRole
           /\ requests'[r].role = requests[r].role /\ requests'[r].actor = requests[r].actor
           /\ \A q \in Request \ {r} : requests'[q] = requests[q]
BY DEF Goto, TypeOK, RequestState

\* The stage that a committed change leads to.
LEMMA CommitEffect ==
    ASSUME TypeOK, EffectsOK, NEW r \in Request, At(r, "write"), NEW S, Commit(r, S),
           DOMAIN auditLog' = DOMAIN auditLog
    PROVE  EffectsOK'
<1>1. StageAfterWrite(r) \in Written
  BY DEF StageAfterWrite, Written
<1>2. Goto(r, StageAfterWrite(r)) /\ applied' = applied \cup {r}
  BY DEF Commit
<1> HIDE DEF Commit
<1>3. EffectOf(r)
  BY DEF EffectsOK
<1>4. EffectOf(r)'
  BY <1>1, <1>2, <1>3, GotoOnly DEF EffectOf, At, Early, Written, Pending
<1>5. Others(r)
  BY <1>2, GotoOnly DEF Others
<1>6. QED
  BY <1>4, <1>5, OthersKeep

LEMMA EffectsInit == Init => EffectsOK
BY DEF Init, EffectsOK, EffectOf, IdleRequest, Pending, Written

\* Every statement but two leaves the rows of the audit log in place.
LEMMA AuditDomain ==
    ASSUME TypeOK, [Next]_vars
    PROVE  DOMAIN auditLog' = DOMAIN auditLog \/ \E r \in Request : Log(r)
<1>1. ASSUME NEW u, DeleteUser(u) PROVE DOMAIN auditLog' = DOMAIN auditLog
  BY <1>1 DEF DeleteUser
<1>2. QED
  BY <1>1, ChangesOf DEF Delete

\* Every step keeps what the stages and the answers say.
LEMMA EffectsStep ==
    ASSUME Consistent, EffectsOK, [Next]_vars PROVE EffectsOK'
<1> USE DEF Consistent
<1>0. \A r \in Request : EffectOf(r)
  BY DEF EffectsOK
<1>1. ASSUME NEW r \in Request, Arrive(r) PROVE EffectsOK'
  <2>1. PICK c \in Calls, cookie \in (issued \cap SessionId) \cup {NoSession} :
            requests' = [requests EXCEPT
                ![r] = [@ EXCEPT !.stage = "session", !.call = c, !.cookie = cookie]]
    BY <1>1 DEF Arrive
  <2>2. /\ requests'[r].stage = "session" /\ requests'[r].status = requests[r].status
        /\ \A q \in Request \ {r} : requests'[q] = requests[q]
    BY <2>1 DEF TypeOK, RequestState
  <2>3. applied' = applied /\ auditLog' = auditLog /\ requests[r].stage = "idle"
    BY <1>1 DEF Arrive, dbVars, history, At
  <2>4. QED
    BY <2>2, <2>3, GotoEffect DEF Early
<1>2. ASSUME NEW r \in Request, requests[r].stage \in {"session", "reap"}, GoOnAnonymously(r),
             DOMAIN auditLog' = DOMAIN auditLog, applied' = applied
      PROVE  EffectsOK'
  <2>1. r \notin applied
    BY <1>0, <1>2 DEF EffectOf, Early
  <2>2. CASE Answer(r, 401)
    BY <1>2, <2>1, <2>2, AnswerEffect
  <2>3. CASE Goto(r, "find")
    BY <1>2, <2>3, GotoOnly, GotoEffect DEF Early
  <2>4. QED
    BY <1>2, <2>2, <2>3 DEF GoOnAnonymously
<1>3. ASSUME NEW r \in Request, Authenticate(r) PROVE EffectsOK'
  <2> DEFINE u == sessions[requests[r].cookie].userId
             c == requests[r].call
  <2>1. applied' = applied /\ auditLog' = auditLog /\ requests[r].stage = "session"
    BY <1>3 DEF Authenticate, dbVars, history, At
  <2>2. r \notin applied
    BY <1>0, <2>1 DEF EffectOf, Early
  <2>3. CASE Answer(r, 403) \/ Answer(r, 400)
    BY <2>1, <2>2, <2>3, AnswerEffect
  <2>4. CASE Goto(r, "reap")
    BY <2>1, <2>4, GotoOnly, GotoEffect DEF Early
  <2>5. CASE requests' = [requests EXCEPT
                 ![r] = [@ EXCEPT !.stage = FirstStage(c.op),
                                  !.actor = u, !.role = users[u].role]]
    <3>1. FirstStage(c.op) \in Early
      BY DEF FirstStage, Early
    <3> HIDE DEF u
    <3>2. /\ requests'[r].stage = FirstStage(c.op) /\ requests'[r].status = requests[r].status
          /\ \A q \in Request \ {r} : requests'[q] = requests[q]
      BY <2>5 DEF TypeOK, RequestState
    <3>3. requests[r].stage \in Early
      BY <2>1 DEF Early
    <3>4. QED
      BY <2>1, <3>1, <3>2, <3>3, GotoEffect
  <2>6. QED
    BY <1>2, <1>3, <2>1, <2>3, <2>4, <2>5 DEF Authenticate, GoOnAs
<1>4. ASSUME NEW r \in Request, Reap(r) PROVE EffectsOK'
  <2>1. applied' = applied /\ auditLog' = auditLog /\ requests[r].stage = "reap"
    BY <1>4 DEF Reap, dbVars, history, At, DeleteSessions
  <2>2. QED
    BY <1>2, <1>4, <2>1 DEF Reap
<1>5. ASSUME NEW r \in Request, Load(r) PROVE EffectsOK'
  <2> DEFINE c == requests[r].call
             next == StageAfterLoad(c, requests[r].role, users[c.target])
  <2>1. applied' = applied /\ auditLog' = auditLog /\ requests[r].stage = "load"
    BY <1>5 DEF Load, dbVars, history, At
  <2>2. r \notin applied
    BY <1>0, <2>1 DEF EffectOf, Early
  <2>3. CASE Answer(r, 404) \/ Answer(r, 403) \/ Answer(r, 400)
    BY <2>1, <2>2, <2>3, AnswerEffect
  <2>4. CASE requests' = [requests EXCEPT
                 ![r] = [@ EXCEPT !.stage = next, !.seenRole = users[c.target].role]]
    <3>1. next \in Early
      BY DEF StageAfterLoad, Early
    <3> HIDE DEF next
    <3>2. /\ requests'[r].stage = next /\ requests'[r].status = requests[r].status
          /\ \A q \in Request \ {r} : requests'[q] = requests[q]
      BY <2>4 DEF TypeOK, RequestState
    <3>3. requests[r].stage \in Early
      BY <2>1 DEF Early
    <3>4. QED
      BY <2>1, <3>1, <3>2, <3>3, GotoEffect
  <2>5. QED
    BY <1>5, <2>3, <2>4 DEF Load
<1>6. ASSUME NEW r \in Request, CheckEmail(r) \/ LoadGrants(r) \/ LoadPermission(r)
      PROVE  EffectsOK'
  <2>1. /\ applied' = applied /\ auditLog' = auditLog
        /\ requests[r].stage \in {"email", "grants", "grant"}
    BY <1>6 DEF CheckEmail, LoadGrants, LoadPermission, dbVars, history, At
  <2>2. r \notin applied
    BY <1>0, <2>1 DEF EffectOf, Early
  <2>3. CASE Goto(r, "write")
    BY <2>1, <2>3, GotoOnly, GotoEffect DEF Early
  <2>4. CASE \E s \in {400, 403, 404, 409} : Answer(r, s)
    BY <2>1, <2>2, <2>4, AnswerEffect
  <2>5. QED
    BY <1>6, <2>3, <2>4 DEF CheckEmail, LoadGrants, LoadPermission
<1>7. ASSUME NEW r \in Request, Write(r) PROVE EffectsOK'
  <2>1. At(r, "write") /\ DOMAIN auditLog' = DOMAIN auditLog
    <3>1. At(r, "write")
      BY <1>7 DEF Write, Create, Update, SetActive, ResetPassword, Delete, AddPermission,
         RemovePermission, Logout, Refused, Writing
    <3>2. ASSUME NEW u, DeleteUser(u) PROVE DOMAIN auditLog' = DOMAIN auditLog
      BY <3>2 DEF DeleteUser
    <3>3. QED
      BY <1>7, <3>1, <3>2 DEF Write, Create, Update, SetActive, ResetPassword, Delete,
         AddPermission, RemovePermission, Logout, Refused, dbVars, InsertUser, UpdateUser,
         DeleteSessions, InsertPermission, DeletePermission
  <2>2. r \notin applied
    BY <1>0, <2>1 DEF EffectOf, Early, At
  <2>3. CASE Refused(r)
    <3>1. Rejection(r) = 409 => Op(r) = "addPermission"
      BY DEF Rejection
    <3>2. Rejection(r) \in {409, 500}
      BY DEF Rejection
    <3>3. Answer(r, Rejection(r)) /\ applied' = applied
      BY <2>3 DEF Refused, history
    <3>4. QED
      BY <2>1, <2>2, <3>1, <3>2, <3>3, AnswerEffect
  <2>4. ASSUME NEW S, Commit(r, S) PROVE EffectsOK'
    BY <2>1, <2>4, CommitEffect
  <2>5. QED
    BY <1>7, <2>3, <2>4 DEF Write, Create, Update, SetActive, ResetPassword, Delete,
       AddPermission, RemovePermission, Logout
<1>8. ASSUME NEW r \in Request, PurgeSessions(r) PROVE EffectsOK'
  <2>1. applied' = applied /\ auditLog' = auditLog /\ requests[r].stage \in Written
    BY <1>8 DEF PurgeSessions, DeleteSessions, history, Written
  <2>2. PICK s \in Written : Goto(r, s)
    BY <1>8 DEF PurgeSessions, Written
  <2>3. QED
    BY <2>1, <2>2, GotoOnly, GotoEffect
<1>9. ASSUME NEW r \in Request, Log(r) PROVE EffectsOK'
  <2>1. applied' = applied /\ requests[r].stage = "log" /\ At(r, "log")
    BY <1>9 DEF Log, history, At
  <2>2. r \in applied /\ EffectOf(r)
    BY <1>0, <2>1 DEF EffectOf, Written
  <2>3. CASE UNCHANGED auditLog /\ Answer(r, Rejection(r))
    <3>1. Rejection(r) = 409 => Op(r) = "addPermission"
      BY DEF Rejection
    <3>2. Rejection(r) \in {409, 500}
      BY DEF Rejection
    <3>3. QED
      BY <2>1, <2>3, <3>1, <3>2, AnswerEffect
  <2>4. CASE /\ InsertAudit(r, [userId |-> requests[r].actor, action |-> Op(r)])
             /\ IF Op(r) = "login" THEN Goto(r, "me") ELSE Answer(r, 200)
    <3>1. DOMAIN auditLog' = DOMAIN auditLog \cup {r}
      BY <2>4 DEF InsertAudit, Insert
    <3>2. /\ \/ requests'[r].stage = "me" /\ requests'[r].status = requests[r].status
             \/ requests'[r].stage = "done" /\ requests'[r].status = 200
          /\ \A q \in Request \ {r} : requests'[q] = requests[q]
      <4>1. CASE Goto(r, "me")
        BY <4>1, GotoOnly
      <4>2. CASE Answer(r, 200)
        BY <4>2 DEF Answer, TypeOK, RequestState
      <4>3. QED
        BY <2>4, <4>1, <4>2
    <3>3. EffectOf(r)'
      BY <2>1, <2>2, <3>1, <3>2 DEF EffectOf, Early, Written, Pending
    <3>4. Others(r)
      BY <2>1, <3>1, <3>2 DEF Others
    <3>5. QED
      BY <3>3, <3>4, OthersKeep
  <2>5. QED
    BY <1>9, <2>3, <2>4 DEF Log, dbVars
<1>10. ASSUME NEW r \in Request, FindUser(r) PROVE EffectsOK'
  <2>1. applied' = applied /\ auditLog' = auditLog /\ requests[r].stage = "find"
    BY <1>10 DEF FindUser, dbVars, history, At
  <2>2. r \notin applied
    BY <1>0, <2>1 DEF EffectOf, Early
  <2>3. CASE Answer(r, 401)
    BY <2>1, <2>2, <2>3, AnswerEffect
  <2>4. ASSUME NEW u, requests' = [requests EXCEPT
                   ![r] = [@ EXCEPT !.stage = "open", !.actor = u, !.role = users[u].role]]
        PROVE  EffectsOK'
    <3>1. /\ requests'[r].stage = "open" /\ requests'[r].status = requests[r].status
          /\ \A q \in Request \ {r} : requests'[q] = requests[q]
      BY <2>4 DEF TypeOK, RequestState
    <3>2. QED
      BY <2>1, <3>1, GotoEffect DEF Early
  <2>5. QED
    BY <1>10, <2>3, <2>4 DEF FindUser
<1>11. ASSUME NEW r \in Request, OpenSession(r) PROVE EffectsOK'
  <2>1. At(r, "open") /\ auditLog' = auditLog
    BY <1>11 DEF OpenSession, ReplaceExpired, dbVars
  <2>2. EffectOf(r) /\ r \notin applied
    BY <1>0, <2>1 DEF EffectOf, Early, At
  <2>3. CASE Answer(r, 500) /\ applied' = applied
    BY <2>1, <2>3, AnswerEffect
  <2>4. CASE Goto(r, "log") /\ applied' = applied \cup {r}
    <3>1. EffectOf(r)'
      BY <2>1, <2>2, <2>4, GotoOnly DEF EffectOf, At, Early, Written, Pending
    <3>2. Others(r)
      BY <2>1, <2>4, GotoOnly DEF Others
    <3>3. QED
      BY <3>1, <3>2, OthersKeep
  <2>5. QED
    BY <1>11, <2>3, <2>4 DEF OpenSession, history
<1>12. ASSUME NEW r \in Request, Me(r) PROVE EffectsOK'
  <2>1. applied' = applied /\ auditLog' = auditLog /\ requests[r].stage = "me"
    BY <1>12 DEF Me, dbVars, history, At
  <2>2. r \in applied /\ r \in DOMAIN auditLog
    BY <1>0, <2>1 DEF EffectOf
  <2>3. Answer(r, 200) \/ Answer(r, 500)
    BY <1>12 DEF Me
  <2>4. QED
    BY <2>1, <2>2, <2>3, AnswerEffect
<1>13. ASSUME NEW r \in Request, Fail(r) PROVE EffectsOK'
  <2>1. applied' = applied /\ auditLog' = auditLog /\ Answer(r, Rejection(r))
    BY <1>13 DEF Fail, dbVars, history
  <2>2. Rejection(r) = 409 => Op(r) = "addPermission"
    BY DEF Rejection
  <2>3. Rejection(r) \in {409, 500}
    BY DEF Rejection
  <2>4. QED
    BY <2>1, <2>2, <2>3, AnswerEffect
<1>14. ASSUME NEW s \in SessionId, Expire(s) PROVE EffectsOK'
  BY <1>14 DEF Expire, PassExpiry, history, EffectsOK, EffectOf, Op
<1>15. CASE UNCHANGED vars
  BY <1>15 DEF vars, EffectsOK, EffectOf, Op
<1>16. QED
  BY <1>1, <1>3, <1>4, <1>5, <1>6, <1>7, <1>8, <1>9, <1>10, <1>11, <1>12, <1>13, <1>14, <1>15
  DEF Next, Step

LEMMA EffectsHold == Spec => []EffectsOK
<1>1. QED
  BY EffectsInit, EffectsStep, Consistency, PTL DEF Spec

\* Whatever step of a handler is refused or fails, and whatever other requests
\* do meanwhile, the answer tells whether the change was made and recorded (the
\* order write, purge, log of every handler, and addPermission's catch).
THEOREM AnswersAreTrue == Spec => []AnswersTellTheEffect
<1>1. EffectsOK => AnswersTellTheEffect
  BY DEF EffectsOK, EffectOf, AnswersTellTheEffect
<1>2. QED
  BY <1>1, EffectsHold, PTL

\* No handler rewrites or loses an audit row, and the deletion of an account
\* clears its name in them and nothing else (AuditService.log, onDelete: SetNull).
THEOREM AuditRowsStay == Spec => AuditAppendOnly
<1> DEFINE Kept ==
        \A a \in DOMAIN auditLog :
          /\ a \in DOMAIN auditLog'
          /\ auditLog'[a].action = auditLog[a].action
          /\ \/ auditLog'[a].userId = auditLog[a].userId
             \/ auditLog'[a].userId = NoUser /\ auditLog[a].userId \notin DOMAIN users'
<1>1. Consistent /\ EffectsOK /\ [Next]_vars => [Kept]_vars
  <2> SUFFICES ASSUME Consistent, EffectsOK, [Next]_vars PROVE Kept
    OBVIOUS
  <2>1. ASSUME NEW u, DeleteUser(u) PROVE Kept
    <3> SUFFICES ASSUME NEW a \in DOMAIN auditLog
                 PROVE  /\ a \in DOMAIN auditLog'
                        /\ auditLog'[a].action = auditLog[a].action
                        /\ \/ auditLog'[a].userId = auditLog[a].userId
                           \/ auditLog'[a].userId = NoUser /\ auditLog[a].userId \notin DOMAIN users'
      OBVIOUS
    <3>1. auditLog[a] \in AuditRow
      BY DEF Consistent, TypeOK, DatabaseTypeOK, IsTable
    <3>2. /\ a \in DOMAIN auditLog'
          /\ auditLog'[a] = [auditLog[a] EXCEPT !.userId = IF @ = u THEN NoUser ELSE @]
      BY <2>1 DEF DeleteUser
    <3>3. u \notin DOMAIN users'
      BY <2>1 DEF DeleteUser, Remove, Restrict
    <3>4. QED
      BY <3>1, <3>2, <3>3 DEF AuditRow
  <2>2. ASSUME NEW r \in Request, Log(r) PROVE Kept
    <3>1. r \notin DOMAIN auditLog
      BY <2>2 DEF EffectsOK, EffectOf, Log, At, Written
    <3>2. QED
      BY <2>2, <3>1 DEF Log, InsertAudit, Insert, dbVars
  <2>3. CASE UNCHANGED auditLog
    BY <2>3
  <2>4. QED
    BY <2>1, <2>2, <2>3, ChangesOf DEF Delete
<1>2. QED
  BY <1>1, EffectsHold, Consistency, PTL DEF Spec, AuditAppendOnly

-----------------------------------------------------------------------------
(* Roles.                                                                  *)

\* A manager's request to write a role was refused on its way, unless the role
\* is a viewer's or none.
RolesOK ==
    \A r \in Request :
        requests[r].stage \in {"load", "email", "write"} /\ requests[r].role = "MANAGER" =>
            /\ Op(r) = "create" => requests[r].call.role = "VIEWER"
            /\ Op(r) = "update" /\ ~At(r, "load") => requests[r].call.role \in {Unset, "VIEWER"}

LEMMA RolesInit == Init => RolesOK
BY DEF Init, RolesOK, IdleRequest

\* A step that takes no request to its look at the e-mail or to its write.
LEMMA RolesElsewhere ==
    ASSUME RolesOK, NEW r \in Request, requests'[r].stage \notin {"load", "email", "write"},
           \A q \in Request \ {r} : requests'[q] = requests[q]
    PROVE  RolesOK'
BY DEF RolesOK, Op, At

LEMMA RolesStep ==
    ASSUME Consistent, RolesOK, [Next]_vars PROVE RolesOK'
<1> USE DEF Consistent
<1>1. ASSUME NEW r \in Request, NEW s, Answer(r, s) PROVE RolesOK'
  <2>1. requests'[r].stage = "done" /\ \A q \in Request \ {r} : requests'[q] = requests[q]
    BY <1>1 DEF Answer, TypeOK, RequestState
  <2>2. QED
    BY <2>1, RolesElsewhere
<1>2. ASSUME NEW r \in Request, NEW s, s \notin {"load", "email", "write"}, Goto(r, s) PROVE RolesOK'
  BY <1>2, GotoOnly, RolesElsewhere
<1>3. ASSUME NEW r \in Request, GoOnAnonymously(r) PROVE RolesOK'
  BY <1>1, <1>2, <1>3 DEF GoOnAnonymously
<1>4. ASSUME NEW r \in Request, Arrive(r) PROVE RolesOK'
  <2>1. PICK c \in Calls, cookie \in (issued \cap SessionId) \cup {NoSession} :
            requests' = [requests EXCEPT
                ![r] = [@ EXCEPT !.stage = "session", !.call = c, !.cookie = cookie]]
    BY <1>4 DEF Arrive
  <2>2. requests'[r].stage = "session" /\ \A q \in Request \ {r} : requests'[q] = requests[q]
    BY <2>1 DEF TypeOK, RequestState
  <2>3. QED
    BY <2>2, RolesElsewhere
<1>5. ASSUME NEW r \in Request, Authenticate(r) PROVE RolesOK'
  <2> DEFINE u == sessions[requests[r].cookie].userId
             c == requests[r].call
  <2>1. CASE /\ ~RoleForbids(c, users[u].role)
             /\ requests' = [requests EXCEPT
                    ![r] = [@ EXCEPT !.stage = FirstStage(c.op),
                                     !.actor = u, !.role = users[u].role]]
    <3>1. c.op = "update" => FirstStage(c.op) = "load"
      BY DEF FirstStage
    <3>2. users[u].role = "MANAGER" /\ c.op = "create" => c.role = "VIEWER"
      BY <2>1 DEF RoleForbids
    <3> DEFINE role == users[u].role
    <3> HIDE DEF u
    <3>3. /\ requests'[r].stage = FirstStage(c.op) /\ requests'[r].role = role
          /\ requests'[r].call = c
          /\ \A q \in Request \ {r} : requests'[q] = requests[q]
      BY <2>1 DEF TypeOK, RequestState
    <3>4. QED
      BY <3>1, <3>2, <3>3 DEF RolesOK, Op, At
  <2>2. QED
    BY <1>1, <1>2, <1>3, <1>5, <2>1 DEF Authenticate, GoOnAs
<1>6. ASSUME NEW r \in Request, Load(r) PROVE RolesOK'
  <2> DEFINE c == requests[r].call
             role == requests[r].role
             next == StageAfterLoad(c, role, users[c.target])
  <2>1. CASE /\ ~ManagerForbidden(c, role, users[c.target].role)
             /\ requests' = [requests EXCEPT
                    ![r] = [@ EXCEPT !.stage = next, !.seenRole = users[c.target].role]]
    <3>1. role = "MANAGER" /\ c.op = "update" => c.role \in {Unset, "VIEWER"}
      BY <2>1 DEF ManagerForbidden
    <3>2. At(r, "load")
      BY <1>6 DEF Load
    <3> HIDE DEF next
    <3>3. /\ requests'[r].role = role /\ requests'[r].call = c
          /\ \A q \in Request \ {r} : requests'[q] = requests[q]
      BY <2>1 DEF TypeOK, RequestState
    <3>4. QED
      BY <3>1, <3>2, <3>3 DEF RolesOK, Op, At
  <2>2. QED
    BY <1>1, <1>6, <2>1 DEF Load
<1>7. ASSUME NEW r \in Request, CheckEmail(r) \/ LoadGrants(r) \/ LoadPermission(r)
      PROVE  RolesOK'
  <2>1. CASE Goto(r, "write")
    <3>1. /\ requests'[r].stage = "write" /\ requests'[r].call = requests[r].call
          /\ requests'[r].role = requests[r].role
          /\ \A q \in Request \ {r} : requests'[q] = requests[q]
      BY <2>1, GotoOnly
    <3>2. At(r, "email") \/ Op(r) \notin {"create", "update"}
      BY <1>7 DEF CheckEmail, LoadGrants, LoadPermission, StagesOK
    <3>3. QED
      BY <3>1, <3>2 DEF RolesOK, Op, At
  <2>2. QED
    BY <1>1, <1>7, <2>1 DEF CheckEmail, LoadGrants, LoadPermission
<1>8. ASSUME NEW r \in Request, Write(r) PROVE RolesOK'
  <2>1. Goto(r, StageAfterWrite(r)) \/ Answer(r, Rejection(r))
    BY <1>8 DEF Write, Create, Update, SetActive, ResetPassword, Delete, AddPermission,
       RemovePermission, Logout, Refused, Commit
  <2>2. StageAfterWrite(r) \notin {"load", "email", "write"}
    BY DEF StageAfterWrite
  <2>3. QED
    BY <1>1, <1>2, <2>1, <2>2
<1>9. ASSUME NEW r \in Request,
             Reap(r) \/ PurgeSessions(r) \/ Log(r) \/ OpenSession(r) \/ Me(r) \/ Fail(r)
      PROVE  RolesOK'
  BY <1>1, <1>2, <1>3, <1>9 DEF Reap, PurgeSessions, Log, OpenSession, Me, Fail
<1>10. ASSUME NEW r \in Request, FindUser(r) PROVE RolesOK'
  <2>1. ASSUME NEW u, requests' = [requests EXCEPT
                   ![r] = [@ EXCEPT !.stage = "open", !.actor = u, !.role = users[u].role]]
        PROVE  RolesOK'
    <3>1. requests'[r].stage = "open" /\ \A q \in Request \ {r} : requests'[q] = requests[q]
      BY <2>1 DEF TypeOK, RequestState
    <3>2. QED
      BY <3>1, RolesElsewhere
  <2>2. QED
    BY <1>1, <1>10, <2>1 DEF FindUser
<1>11. CASE UNCHANGED requests
  BY <1>11 DEF RolesOK, Op, At
<1>12. QED
  BY <1>4, <1>5, <1>6, <1>7, <1>8, <1>9, <1>10, <1>11 DEF Next, Step, Expire, vars

\* enable, disable and resetPassword leave the role as it was.
LEMMA RoleUntouched ==
    ASSUME TypeOK, NEW r \in Request, SetActive(r) \/ ResetPassword(r)
    PROVE  \E row : UpdateUser(Target(r), row) /\ row.role = users[Target(r)].role
<1>1. CASE SetActive(r)
  <2> DEFINE row == [users[Target(r)] EXCEPT !.isActive = (Op(r) = "enable")]
  <2>1. UpdateUser(Target(r), row)
    BY <1>1 DEF SetActive
  <2>2. users[Target(r)] \in UserRow
    BY <2>1 DEF UpdateUser, TypeOK, DatabaseTypeOK, IsTable
  <2>3. row.role = users[Target(r)].role
    BY <2>2 DEF UserRow
  <2>4. QED
    BY <2>1, <2>3
<1>2. CASE ResetPassword(r)
  <2> DEFINE row == [users[Target(r)] EXCEPT !.passwordHash = requests[r].call.password]
  <2>1. UpdateUser(Target(r), row)
    BY <1>2 DEF ResetPassword
  <2>2. users[Target(r)] \in UserRow
    BY <2>1 DEF UpdateUser, TypeOK, DatabaseTypeOK, IsTable
  <2>3. row.role = users[Target(r)].role
    BY <2>2 DEF UserRow
  <2>4. QED
    BY <2>1, <2>3
<1>3. QED
  BY <1>1, <1>2

LEMMA RolesHold == Spec => []RolesOK
<1>1. Consistent /\ RolesOK /\ [Next]_vars => RolesOK'
  BY RolesStep
<1>2. QED
  BY <1>1, RolesInit, Consistency, PTL DEF Spec

\* However stale the roles that a request has read, nobody becomes an
\* administrator or a manager but by the change of a request that an
\* administrator made (create and update of UserService).
THEOREM StaffComesFromAdmins == Spec => StaffOnlyByAdmin
<1> DEFINE Raised(u) ==
        /\ users'[u].role # "VIEWER"
        /\ u \in DOMAIN users => users[u].role # users'[u].role
    Made == \E r \in applied' \ applied : requests[r].role = "ADMIN"
<1>1. ASSUME Consistent, EffectsOK, RolesOK, [Next]_vars,
             NEW u \in DOMAIN users', Raised(u)
      PROVE  Made
  <2> USE <1>1 DEF Consistent
  <2>1. ASSUME NEW r \in Request, At(r, "write"), Op(r) \in {"create", "update"},
               requests[r].call.role \notin {Unset, "VIEWER"}, applied' = applied \cup {r}
        PROVE  Made
    <3>1. r \notin applied
      BY <2>1 DEF EffectsOK, EffectOf, Early, At
    <3>2. requests[r].role = "ADMIN"
      BY <2>1 DEF RolesOK, StagesOK, Admitted, AdminOps, At
    <3>3. QED
      BY <2>1, <3>1, <3>2
  <2>2. ASSUME NEW r \in Request, Create(r) PROVE Made
    <3> DEFINE c == requests[r].call
               row == [email |-> c.email, role |-> c.role, isActive |-> c.isActive,
                       passwordHash |-> c.password]
    <3>1. PICK v \in UserId : InsertUser(v, row)
      BY <2>2 DEF Create
    <3>2. users' = Insert(users, v, row) /\ v \notin DOMAIN users
      BY <3>1 DEF InsertUser, TypeOK, DatabaseTypeOK
    <3>3. u = v /\ users'[u].role = c.role
      BY <3>2 DEF Insert
    <3>4. c.role # Unset
      BY <2>2, CallType DEF Create, Writing, At, Op, WellFormed
    <3>5. QED
      BY <2>1, <2>2, <3>3, <3>4 DEF Create, Writing, Commit
  <2>3. ASSUME NEW r \in Request, Update(r) PROVE Made
    <3> DEFINE c == requests[r].call
               row == users[c.target]
               new == [row EXCEPT !.email = Or(c.email, @), !.role = Or(c.role, @),
                                  !.isActive = Or(c.isActive, @)]
    <3>1. UpdateUser(c.target, new)
      BY <2>3 DEF Update
    <3>2. row \in UserRow
      BY <3>1 DEF UpdateUser, TypeOK, DatabaseTypeOK, IsTable
    <3>3. new.role = Or(c.role, row.role)
      BY <3>2 DEF UserRow
    <3> HIDE DEF new
    <3>4. u = c.target /\ users'[u] = new
      BY <3>1 DEF UpdateUser, Insert
    <3>5. c.role \notin {Unset, "VIEWER"}
      BY <3>1, <3>3, <3>4 DEF UpdateUser, Or
    <3>6. QED
      BY <2>1, <2>3, <3>5 DEF Update, Writing, Commit
  <2>4. ASSUME NEW v, NEW row, UpdateUser(v, row), row.role = users[v].role PROVE Made
    <3>1. u \in DOMAIN users /\ users'[u].role = users[u].role
      BY <2>4 DEF UpdateUser, Insert
    <3>2. QED
      BY <3>1
  <2>5. ASSUME NEW r \in Request, SetActive(r) \/ ResetPassword(r) PROVE Made
    <3>1. PICK row : UpdateUser(Target(r), row) /\ row.role = users[Target(r)].role
      BY <2>5, RoleUntouched
    <3>2. QED
      BY <2>4, <3>1
  <2>6. ASSUME NEW v, DeleteUser(v) PROVE Made
    BY <2>6 DEF DeleteUser, Remove, Restrict
  <2>7. CASE UNCHANGED users
    BY <2>7
  <2>8. QED
    BY <2>2, <2>3, <2>5, <2>6, <2>7, ChangesOf DEF Delete
<1>2. Consistent /\ EffectsOK /\ RolesOK /\ [Next]_vars
        => [\A u \in DOMAIN users' : Raised(u) => Made]_vars
  BY <1>1
<1>3. QED
  BY <1>2, RolesHold, EffectsHold, Consistency, PTL DEF Spec, StaffOnlyByAdmin

-----------------------------------------------------------------------------
(* What a manager's change can reach.                                      *)

\* Between the look at the target's role and the write.
Looking == {"email", "grants", "grant", "write"}

LookedAt(r) ==
    /\ requests[r].stage \in Looking
    /\ requests[r].role = "MANAGER" /\ Op(r) \in AdminOps \ {"create"}

\* A manager's request that has looked saw a viewer, whom nobody but an
\* administrator has raised since.
ViewerThen(r) ==
    /\ requests[r].seenRole = "VIEWER" /\ Target(r) \in issued
    /\ Target(r) \in DOMAIN users /\ users[Target(r)].role # "VIEWER"
          => RaisedByAdmin(Target(r))

LooksOK == \A r \in Request : LookedAt(r) => ViewerThen(r)

LEMMA LooksInit == Init => LooksOK
BY DEF Init, LooksOK, LookedAt, Looking, IdleRequest

\* The accounts there were keep their roles, or an administrator has set them.
RolesKept ==
    /\ applied \subseteq applied' /\ issued \subseteq issued'
    /\ \A u \in issued \cap DOMAIN users' :
          u \in DOMAIN users /\ (users'[u].role \in {users[u].role, "VIEWER"} \/ RaisedByAdmin(u)')

\* A request that has made its change keeps its call and its role.
ChangesKept ==
    \A q \in applied :
        requests'[q].call = requests[q].call /\ requests'[q].role = requests[q].role

LEMMA RaisedStays ==
    ASSUME ChangesKept, applied \subseteq applied', NEW u, users'[u].role = users[u].role,
           RaisedByAdmin(u)
    PROVE  RaisedByAdmin(u)'
BY DEF ChangesKept, RaisedByAdmin, Op, Target

\* A step of r that does not look, or goes on from its look.
LEMMA LooksKept ==
    ASSUME LooksOK, RolesKept, ChangesKept, NEW r \in Request,
           \A q \in Request \ {r} : requests'[q] = requests[q],
           \/ ~LookedAt(r)' \/ ViewerThen(r)'
           \/ /\ LookedAt(r) /\ requests'[r].call = requests[r].call
              /\ requests'[r].seenRole = requests[r].seenRole
    PROVE  LooksOK'
<1> SUFFICES ASSUME NEW q \in Request, LookedAt(q)', q # r \/ ~ViewerThen(r)' PROVE ViewerThen(q)'
  BY DEF LooksOK
<1>1. /\ LookedAt(q) /\ requests'[q].call = requests[q].call
      /\ requests'[q].seenRole = requests[q].seenRole
  BY DEF LookedAt, Op
<1>2. PICK u : u = requests[q].call.target
  OBVIOUS
<1>3. /\ requests[q].seenRole = "VIEWER" /\ u \in issued
      /\ u \in DOMAIN users /\ users[u].role # "VIEWER" => RaisedByAdmin(u)
  BY <1>2, <1>1 DEF LooksOK, ViewerThen, Target
<1>4. ASSUME u \in DOMAIN users', users'[u].role # "VIEWER" PROVE RaisedByAdmin(u)'
  <2>1. u \in DOMAIN users /\ (users'[u].role = users[u].role \/ RaisedByAdmin(u)')
    BY <1>3, <1>4 DEF RolesKept
  <2>2. QED
    BY <1>3, <1>4, <2>1, RaisedStays DEF RolesKept
<1>5. u \in issued'
  BY <1>3 DEF RolesKept
<1>6. QED
  BY <1>2, <1>1, <1>3, <1>4, <1>5 DEF ViewerThen, Target, RaisedByAdmin

\* What Answer leaves of a request.
LEMMA AnswerOnly ==
    ASSUME TypeOK, NEW r \in Request, NEW s, Answer(r, s)
    PROVE  /\ requests'[r].stage = "done" /\ requests'[r].call = requests[r].call
           /\ requests'[r].role = requests[r].role
           /\ \A q \in Request \ {r} : requests'[q] = requests[q]
BY DEF Answer, TypeOK, RequestState

\* A step of r after which it is not about to write what it has looked at.
LEMMA LooksElsewhere ==
    ASSUME TypeOK, LooksOK, EffectsOK, RolesKept, NEW r \in Request, requests'[r].stage \notin Looking,
           \A q \in Request \ {r} : requests'[q] = requests[q],
           \/ requests[r].stage \in Early
           \/ requests'[r].call = requests[r].call /\ requests'[r].role = requests[r].role
    PROVE  LooksOK'
<1>1. requests[r].stage \in Early => r \notin applied
  BY DEF EffectsOK, EffectOf
<1>2. ChangesKept
  BY <1>1 DEF ChangesKept, TypeOK
<1>3. ~LookedAt(r)'
  BY DEF LookedAt
<1>4. QED
  BY <1>2, <1>3, LooksKept

\* A step that writes no account.
LEMMA SameRoles ==
    ASSUME TypeOK, users' = users, applied \subseteq applied', issued \subseteq issued'
    PROVE  RolesKept
BY DEF RolesKept

\* A write that gives a role is an administrator's, or gives the viewer's.
LEMMA WriteKeepsRoles ==
    ASSUME Consistent, EffectsOK, RolesOK, NEW r \in Request, Write(r)
    PROVE  RolesKept
<1> USE DEF Consistent
<1>1. ASSUME NEW v, NEW row, UpdateUser(v, row), applied \subseteq applied',
             row.role \in {users[v].role, "VIEWER"} \/ RaisedByAdmin(v)'
      PROVE  RolesKept
  BY <1>1 DEF RolesKept, UpdateUser, Insert
<1>2. CASE Create(r)
  <2>1. PICK v, row : v \in UserId /\ InsertUser(v, row)
    BY <1>2 DEF Create
  <2>2. applied \subseteq applied'
    BY <1>2 DEF Create, Commit
  <2>3. QED
    BY <2>1, <2>2 DEF InsertUser, Insert, RolesKept
<1>3. CASE Update(r)
  <2> DEFINE c == requests[r].call
             row == users[c.target]
             new == [row EXCEPT !.email = Or(c.email, @), !.role = Or(c.role, @),
                                !.isActive = Or(c.isActive, @)]
  <2>1. UpdateUser(c.target, new) /\ applied' = applied \cup {r}
    BY <1>3 DEF Update, Commit
  <2>2. row \in UserRow
    BY <2>1 DEF UpdateUser, TypeOK, DatabaseTypeOK, IsTable
  <2>3. new.role = Or(c.role, row.role)
    BY <2>2 DEF UserRow
  <2>4. CASE c.role \in {Unset, "VIEWER"}
    <3>1. new.role \in {row.role, "VIEWER"}
      BY <2>3, <2>4 DEF Or
    <3> HIDE DEF new
    <3>2. QED
      BY <1>1, <2>1, <3>1
  <2>5. CASE c.role \notin {Unset, "VIEWER"}
    <3>1. requests[r].role = "ADMIN" /\ Op(r) = "update"
      BY <1>3, <2>5 DEF Update, Writing, RolesOK, StagesOK, Admitted, AdminOps, At
    <3>2. requests'[r].role = "ADMIN" /\ requests'[r].call = c
      BY <1>3, <3>1, GotoOnly DEF Update, Commit
    <3>3. new.role = c.role
      BY <2>3, <2>5 DEF Or
    <3> HIDE DEF new
    <3>4. PICK v : v = c.target
      OBVIOUS
    <3>5. users'[v].role = c.role
      BY <2>1, <3>3, <3>4 DEF UpdateUser, Insert
    <3>6. RaisedByAdmin(v)'
      BY <2>1, <3>1, <3>2, <3>4, <3>5 DEF RaisedByAdmin, Op, Target
    <3>7. UpdateUser(v, new)
      BY <2>1, <3>4
    <3>8. QED
      BY <1>1, <2>1, <3>6, <3>7
  <2>6. QED
    BY <2>4, <2>5
<1>4. CASE SetActive(r) \/ ResetPassword(r)
  <2>1. PICK row : UpdateUser(Target(r), row) /\ row.role = users[Target(r)].role
    BY <1>4, RoleUntouched
  <2>2. PICK v : v = Target(r)
    OBVIOUS
  <2>3. UpdateUser(v, row) /\ row.role = users[v].role /\ applied \subseteq applied'
    BY <1>4, <2>1, <2>2 DEF SetActive, ResetPassword, Commit
  <2>4. QED
    BY <1>1, <2>3
<1>5. CASE Delete(r)
  BY <1>5 DEF Delete, DeleteUser, Remove, Restrict, RolesKept, Commit
<1>6. CASE AddPermission(r) \/ RemovePermission(r) \/ Logout(r) \/ Refused(r)
  BY <1>6, SameRoles DEF AddPermission, RemovePermission, Logout, Refused, Commit, history, dbVars,
     InsertPermission, DeletePermission, DeleteSessions
<1>7. QED
  BY <1>2, <1>3, <1>4, <1>5, <1>6 DEF Write

LEMMA LooksStep ==
    ASSUME Consistent, EffectsOK, RolesOK, LooksOK, [Next]_vars PROVE LooksOK'
<1> USE DEF Consistent
<1>1. ASSUME NEW r \in Request, NEW s, Answer(r, s), RolesKept PROVE LooksOK'
  BY <1>1, AnswerOnly, LooksElsewhere DEF Looking
<1>2. ASSUME NEW r \in Request, NEW s, s \notin Looking, Goto(r, s), RolesKept PROVE LooksOK'
  BY <1>2, GotoOnly, LooksElsewhere
<1>3. ASSUME NEW r \in Request, GoOnAnonymously(r), RolesKept PROVE LooksOK'
  BY <1>1, <1>2, <1>3 DEF GoOnAnonymously, Looking
<1>4. ASSUME NEW r \in Request, Arrive(r) PROVE LooksOK'
  <2>1. PICK c \in Calls, cookie \in (issued \cap SessionId) \cup {NoSession} :
            requests' = [requests EXCEPT
                ![r] = [@ EXCEPT !.stage = "session", !.call = c, !.cookie = cookie]]
    BY <1>4 DEF Arrive
  <2>2. requests'[r].stage = "session" /\ \A q \in Request \ {r} : requests'[q] = requests[q]
    BY <2>1 DEF TypeOK, RequestState
  <2>3. requests[r].stage \in Early
    BY <1>4 DEF Arrive, At, Early
  <2>4. RolesKept
    BY <1>4, SameRoles DEF Arrive, dbVars, history
  <2>5. QED
    BY <2>2, <2>3, <2>4, LooksElsewhere DEF Looking
<1>5. ASSUME NEW r \in Request, Authenticate(r) PROVE LooksOK'
  <2> DEFINE u == sessions[requests[r].cookie].userId
             c == requests[r].call
  <2>1. RolesKept /\ At(r, "session")
    BY <1>5, SameRoles DEF Authenticate, dbVars, history
  <2>2. CASE requests' = [requests EXCEPT
                    ![r] = [@ EXCEPT !.stage = FirstStage(c.op),
                                     !.actor = u, !.role = users[u].role]]
    <3> DEFINE role == users[u].role
    <3> HIDE DEF u
    <3>1. /\ requests'[r].stage = FirstStage(c.op) /\ requests'[r].role = role
          /\ requests'[r].call = c
          /\ \A q \in Request \ {r} : requests'[q] = requests[q]
      BY <2>2 DEF TypeOK, RequestState
    <3>2. ~LookedAt(r)'
      BY <3>1 DEF LookedAt, FirstStage, Looking, AdminOps, Op
    <3>3. ChangesKept
      BY <2>1, <3>1 DEF ChangesKept, EffectsOK, EffectOf, Early, At, TypeOK
    <3>4. QED
      BY <2>1, <3>1, <3>2, <3>3, LooksKept
  <2>3. QED
    BY <1>1, <1>2, <1>3, <1>5, <2>1, <2>2 DEF Authenticate, GoOnAs, Looking
<1>6. ASSUME NEW r \in Request, Load(r) PROVE LooksOK'
  <2> DEFINE c == requests[r].call
             role == requests[r].role
             next == StageAfterLoad(c, role, users[c.target])
  <2>1. RolesKept /\ users' = users /\ issued' = issued
    BY <1>6, SameRoles DEF Load, dbVars, history
  <2>2. CASE /\ ~ManagerForbidden(c, role, users[c.target].role) /\ c.target \in DOMAIN users
             /\ requests' = [requests EXCEPT
                    ![r] = [@ EXCEPT !.stage = next, !.seenRole = users[c.target].role]]
    <3>1. role = "MANAGER" => users[c.target].role = "VIEWER"
      BY <2>2 DEF ManagerForbidden
    <3>2. c.target \in issued
      BY <2>2 DEF TypeOK, DatabaseTypeOK
    <3> HIDE DEF next
    <3>3. /\ requests'[r].role = role /\ requests'[r].call = c
          /\ requests'[r].seenRole = users[c.target].role
          /\ \A q \in Request \ {r} : requests'[q] = requests[q]
      BY <2>2 DEF TypeOK, RequestState
    <3>4. ChangesKept
      BY <3>3 DEF ChangesKept, TypeOK
    <3>5. LookedAt(r)' => ViewerThen(r)'
      BY <2>1, <3>1, <3>2, <3>3 DEF LookedAt, ViewerThen, Target
    <3>6. QED
      BY <2>1, <3>3, <3>4, <3>5, LooksKept
  <2>3. QED
    BY <1>1, <1>6, <2>1, <2>2 DEF Load
<1>7. ASSUME NEW r \in Request, CheckEmail(r) \/ LoadGrants(r) \/ LoadPermission(r)
      PROVE  LooksOK'
  <2>1. RolesKept
    BY <1>7, SameRoles DEF CheckEmail, LoadGrants, LoadPermission, dbVars, history
  <2>2. CASE Goto(r, "write")
    <3>1. /\ requests'[r].call = requests[r].call /\ requests'[r].role = requests[r].role
          /\ requests'[r].seenRole = requests[r].seenRole
          /\ \A q \in Request \ {r} : requests'[q] = requests[q]
      BY <2>2, GotoOnly
    <3>2. requests[r].stage \in Looking
      BY <1>7 DEF CheckEmail, LoadGrants, LoadPermission, At, Looking
    <3>3. LookedAt(r)' => LookedAt(r)
      BY <3>1, <3>2 DEF LookedAt, Op
    <3>4. ChangesKept
      BY <3>1 DEF ChangesKept, TypeOK
    <3>5. QED
      BY <2>1, <3>1, <3>3, <3>4, LooksKept
  <2>3. QED
    BY <1>1, <1>7, <2>1, <2>2 DEF CheckEmail, LoadGrants, LoadPermission
<1>8. ASSUME NEW r \in Request, Write(r) PROVE LooksOK'
  <2>1. Goto(r, StageAfterWrite(r)) \/ Answer(r, Rejection(r))
    BY <1>8 DEF Write, Create, Update, SetActive, ResetPassword, Delete, AddPermission,
       RemovePermission, Logout, Refused, Commit
  <2>2. StageAfterWrite(r) \notin Looking
    BY DEF StageAfterWrite, Looking
  <2>3. RolesKept
    BY <1>8, WriteKeepsRoles
  <2>4. QED
    BY <1>1, <1>2, <2>1, <2>2, <2>3
<1>9. ASSUME NEW r \in Request,
             Reap(r) \/ PurgeSessions(r) \/ Log(r) \/ OpenSession(r) \/ Me(r) \/ Fail(r)
      PROVE  LooksOK'
  <2>1. RolesKept
    BY <1>9, SameRoles DEF Reap, PurgeSessions, Log, OpenSession, Me, Fail, dbVars, history,
       DeleteSessions, ReplaceExpired, InsertAudit
  <2>2. QED
    BY <1>1, <1>2, <1>3, <1>9, <2>1
    DEF Reap, PurgeSessions, Log, OpenSession, Me, Fail, Looking
<1>10. ASSUME NEW r \in Request, FindUser(r) PROVE LooksOK'
  <2>1. RolesKept /\ At(r, "find")
    BY <1>10, SameRoles DEF FindUser, dbVars, history
  <2>2. ASSUME NEW u, requests' = [requests EXCEPT
                   ![r] = [@ EXCEPT !.stage = "open", !.actor = u, !.role = users[u].role]]
        PROVE  LooksOK'
    <3>1. requests'[r].stage = "open" /\ \A q \in Request \ {r} : requests'[q] = requests[q]
      BY <2>2 DEF TypeOK, RequestState
    <3>2. requests[r].stage \in Early
      BY <2>1 DEF At, Early
    <3>3. QED
      BY <2>1, <3>1, <3>2, LooksElsewhere DEF Looking
  <2>3. QED
    BY <1>1, <1>10, <2>1, <2>2 DEF FindUser
<1>11. CASE UNCHANGED requests /\ ~\E r \in Request : Arrive(r) \/ Step(r) \/ Fail(r)
  <2>1. users' = users /\ applied' = applied /\ issued' = issued
    BY <1>11 DEF Next, Expire, PassExpiry, vars, history
  <2>2. QED
    BY <1>11, <2>1 DEF LooksOK, LookedAt, ViewerThen, Op, Target, RaisedByAdmin
<1>12. QED
  BY <1>4, <1>5, <1>6, <1>7, <1>8, <1>9, <1>10, <1>11 DEF Next, Step, Expire, vars

LEMMA LooksHold == Spec => []LooksOK
<1>1. Consistent /\ EffectsOK /\ RolesOK /\ LooksOK /\ [Next]_vars => LooksOK'
  BY LooksStep
<1>2. QED
  BY <1>1, LooksInit, RolesHold, EffectsHold, Consistency, PTL DEF Spec

\* assertManagerCanManageTarget holds at the write but for the one race: whatever
\* roles, accounts and requests there are, a manager's change reaches nobody's
\* account but a viewer's, or one that an administrator raised under its feet.
THEOREM ManagersReachViewers == Spec => StaffReachedOnlyByRace
<1>1. Consistent /\ EffectsOK /\ LooksOK /\ [Next]_vars =>
        [\A r \in applied' \ applied :
            /\ requests[r].role = "MANAGER" /\ Op(r) \in AdminOps \ {"create"}
            /\ Target(r) \in DOMAIN users /\ users[Target(r)].role # "VIEWER"
            => requests[r].seenRole = "VIEWER" /\ RaisedByAdmin(Target(r))]_vars
  <2> SUFFICES ASSUME Consistent, EffectsOK, LooksOK, [Next]_vars,
                      NEW r \in applied' \ applied,
                      requests[r].role = "MANAGER", Op(r) \in AdminOps \ {"create"},
                      Target(r) \in DOMAIN users, users[Target(r)].role # "VIEWER"
               PROVE  requests[r].seenRole = "VIEWER" /\ RaisedByAdmin(Target(r))
    OBVIOUS
  <2>1. r \in Request /\ (At(r, "write") \/ At(r, "open"))
    BY ChangesOf DEF Write, Create, Update, SetActive, ResetPassword, Delete, AddPermission,
       RemovePermission, Logout, Refused, OpenSession, history, Commit, Writing
  <2>2. At(r, "write")
    BY <2>1 DEF Consistent, StagesOK, At, AdminOps
  <2>3. LookedAt(r)
    BY <2>2 DEF LookedAt, Looking, At
  <2>4. QED
    BY <2>1, <2>3 DEF LooksOK, ViewerThen
<1>2. QED
  BY <1>1, LooksHold, EffectsHold, Consistency, PTL DEF Spec, StaffReachedOnlyByRace

\* Roles mean what they say at every step of every request: only administrators
\* make staff, and managers reach it in the one race (create and update of
\* UserService, assertManagerCanManageTarget).
THEOREM StaffStaysGuarded == Spec => StaffGuarded
BY StaffComesFromAdmins, ManagersReachViewers DEF StaffGuarded

-----------------------------------------------------------------------------
(* The last administrator.                                                 *)

\* A request under way to disable or delete an account is for another one.
OwnOK ==
    \A r \in Request :
        requests[r].stage \in {"load", "write"} /\ Op(r) \in {"disable", "delete"}
            => Target(r) # requests[r].actor

LEMMA OwnInit == Init => OwnOK
BY DEF Init, OwnOK, IdleRequest

\* A step of r that does not take it to its look or to its write, or leaves it
\* with another target than its actor.
LEMMA OwnElsewhere ==
    ASSUME OwnOK, NEW r \in Request,
           \A q \in Request \ {r} : requests'[q] = requests[q],
           \/ requests'[r].stage \notin {"load", "write"}
           \/ requests'[r].call.op \notin {"disable", "delete"}
           \/ requests'[r].call.target # requests'[r].actor
    PROVE  OwnOK'
BY DEF OwnOK, Op, Target

LEMMA OwnStep ==
    ASSUME Consistent, OwnOK, [Next]_vars PROVE OwnOK'
<1> USE DEF Consistent
<1>1. ASSUME NEW r \in Request, NEW s, Answer(r, s) PROVE OwnOK'
  BY <1>1, AnswerOnly, OwnElsewhere
<1>2. ASSUME NEW r \in Request, NEW s, s \notin {"load", "write"}, Goto(r, s) PROVE OwnOK'
  BY <1>2, GotoOnly, OwnElsewhere
<1>3. ASSUME NEW r \in Request, GoOnAnonymously(r) PROVE OwnOK'
  BY <1>1, <1>2, <1>3 DEF GoOnAnonymously
<1>4. ASSUME NEW r \in Request, Arrive(r) PROVE OwnOK'
  <2>1. PICK c \in Calls, cookie \in (issued \cap SessionId) \cup {NoSession} :
            requests' = [requests EXCEPT
                ![r] = [@ EXCEPT !.stage = "session", !.call = c, !.cookie = cookie]]
    BY <1>4 DEF Arrive
  <2>2. requests'[r].stage = "session" /\ \A q \in Request \ {r} : requests'[q] = requests[q]
    BY <2>1 DEF TypeOK, RequestState
  <2>3. QED
    BY <2>2, OwnElsewhere
<1>5. ASSUME NEW r \in Request, Authenticate(r) PROVE OwnOK'
  <2> DEFINE u == sessions[requests[r].cookie].userId
             c == requests[r].call
  <2>1. CASE /\ ~OwnAccount(c, u)
             /\ requests' = [requests EXCEPT
                    ![r] = [@ EXCEPT !.stage = FirstStage(c.op),
                                     !.actor = u, !.role = users[u].role]]
    <3>1. c.op \in {"disable", "delete"} => c.target # u
      BY <2>1 DEF OwnAccount
    <3> HIDE DEF u
    <3>2. /\ requests'[r].call = c /\ requests'[r].actor = u
          /\ \A q \in Request \ {r} : requests'[q] = requests[q]
      BY <2>1 DEF TypeOK, RequestState
    <3>3. QED
      BY <3>1, <3>2, OwnElsewhere
  <2>2. QED
    BY <1>1, <1>2, <1>3, <1>5, <2>1 DEF Authenticate, GoOnAs
<1>6. ASSUME NEW r \in Request, Load(r) PROVE OwnOK'
  <2> DEFINE c == requests[r].call
             next == StageAfterLoad(c, requests[r].role, users[c.target])
  <2>1. CASE requests' = [requests EXCEPT
                 ![r] = [@ EXCEPT !.stage = next, !.seenRole = users[c.target].role]]
    <3>1. c.op \in {"disable", "delete"} => c.target # requests[r].actor
      BY <1>6 DEF Load, At, OwnOK, Op, Target
    <3> HIDE DEF next
    <3>2. /\ requests'[r].call = c /\ requests'[r].actor = requests[r].actor
          /\ \A q \in Request \ {r} : requests'[q] = requests[q]
      BY <2>1 DEF TypeOK, RequestState
    <3>3. QED
      BY <3>1, <3>2, OwnElsewhere
  <2>2. QED
    BY <1>1, <1>6, <2>1 DEF Load
<1>7. ASSUME NEW r \in Request, CheckEmail(r) \/ LoadGrants(r) \/ LoadPermission(r)
      PROVE  OwnOK'
  <2>1. Op(r) \notin {"disable", "delete"}
    BY <1>7 DEF CheckEmail, LoadGrants, LoadPermission, StagesOK
  <2>2. CASE Goto(r, "write")
    BY <2>1, <2>2, GotoOnly, OwnElsewhere DEF Op
  <2>3. QED
    BY <1>1, <1>7, <2>2 DEF CheckEmail, LoadGrants, LoadPermission
<1>8. ASSUME NEW r \in Request, Write(r) PROVE OwnOK'
  <2>1. Goto(r, StageAfterWrite(r)) \/ Answer(r, Rejection(r))
    BY <1>8 DEF Write, Create, Update, SetActive, ResetPassword, Delete, AddPermission,
       RemovePermission, Logout, Refused, Commit
  <2>2. StageAfterWrite(r) \notin {"load", "write"}
    BY DEF StageAfterWrite
  <2>3. QED
    BY <1>1, <1>2, <2>1, <2>2
<1>9. ASSUME NEW r \in Request,
             Reap(r) \/ PurgeSessions(r) \/ Log(r) \/ OpenSession(r) \/ Me(r) \/ Fail(r)
      PROVE  OwnOK'
  BY <1>1, <1>2, <1>3, <1>9 DEF Reap, PurgeSessions, Log, OpenSession, Me, Fail
<1>10. ASSUME NEW r \in Request, FindUser(r) PROVE OwnOK'
  <2>1. ASSUME NEW u, requests' = [requests EXCEPT
                   ![r] = [@ EXCEPT !.stage = "open", !.actor = u, !.role = users[u].role]]
        PROVE  OwnOK'
    <3>1. requests'[r].stage = "open" /\ \A q \in Request \ {r} : requests'[q] = requests[q]
      BY <2>1 DEF TypeOK, RequestState
    <3>2. QED
      BY <3>1, OwnElsewhere
  <2>2. QED
    BY <1>1, <1>10, <2>1 DEF FindUser
<1>11. CASE UNCHANGED requests
  BY <1>11 DEF OwnOK, Op, Target
<1>12. QED
  BY <1>4, <1>5, <1>6, <1>7, <1>8, <1>9, <1>10, <1>11 DEF Next, Step, Expire, vars

LEMMA OwnHolds == Spec => []OwnOK
<1>1. Consistent /\ OwnOK /\ [Next]_vars => OwnOK'
  BY OwnStep
<1>2. QED
  BY <1>1, OwnInit, Consistency, PTL DEF Spec

\* What may cost the portal its last administrator.
Loses(r) ==
    \/ Op(r) = "update" /\ Target(r) = requests[r].actor
    \/ requests[r].role = "ADMIN" /\ requests[r].actor \notin Administrators
    \/ requests[r].role = "MANAGER" /\ RaisedByAdmin(Target(r))

\* A statement that takes nobody's account, role or activity.
LEMMA AdministratorsStay ==
    ASSUME \A u \in DOMAIN users : /\ u \in DOMAIN users'
                                   /\ users'[u].role = users[u].role
                                   /\ users[u].isActive => users'[u].isActive
    PROVE  Administrators \subseteq Administrators'
BY DEF Administrators

\* A change to the account of its target takes the last administrator in one of
\* the three ways only: otherwise the actor is one, and remains one.
LEMMA LostThroughTarget ==
    ASSUME Consistent, EffectsOK, LooksOK, OwnOK, NEW r \in Request, At(r, "write"),
           Op(r) \in {"update", "disable", "delete"},
           \A u \in DOMAIN users \ {Target(r)} : u \in DOMAIN users' /\ users'[u] = users[u],
           Administrators # {}, Administrators' = {}
    PROVE  r \notin applied /\ Loses(r)
<1>1. r \notin applied
  BY DEF EffectsOK, EffectOf, Early, At
<1>2. \A u \in Administrators : u = Target(r)
  BY DEF Administrators
<1>3. Target(r) \in DOMAIN users /\ users[Target(r)].role = "ADMIN"
  BY <1>2 DEF Administrators
<1>4. CASE requests[r].role = "ADMIN"
  <2>1. Op(r) \in {"disable", "delete"} => Target(r) # requests[r].actor
    BY DEF OwnOK, At
  <2>2. QED
    BY <1>1, <1>2, <1>4, <2>1 DEF Loses
<1>5. CASE requests[r].role = "MANAGER"
  <2>1. LookedAt(r)
    BY <1>5 DEF LookedAt, Looking, At, AdminOps
  <2>2. RaisedByAdmin(Target(r))
    BY <1>3, <2>1 DEF LooksOK, ViewerThen
  <2>3. QED
    BY <1>1, <1>5, <2>2 DEF Loses
<1>6. QED
  BY <1>4, <1>5 DEF Consistent, StagesOK, Admitted, AdminOps, At

\* The portal loses its last active administrator only by that administrator's
\* own update, which nothing refuses, or by a change that another one has
\* overtaken, for all requests and at every interleaving (disable and delete
\* refuse the own account; no handler counts the administrators left).
THEOREM LastAdminStays == Spec => LastAdminGuarded
<1> DEFINE Made == \E r \in applied' \ applied : Loses(r)
<1>1. ASSUME Consistent, EffectsOK, LooksOK, OwnOK, [Next]_vars,
             Administrators # {}, Administrators' = {}
      PROVE  Made
  <2> USE <1>1 DEF Consistent
  <2>1. ASSUME NEW r \in Request, At(r, "write"), applied' = applied \cup {r},
               Op(r) \in {"update", "disable", "delete"},
               \A u \in DOMAIN users \ {Target(r)} : u \in DOMAIN users' /\ users'[u] = users[u]
        PROVE  Made
    BY <2>1, LostThroughTarget
  <2>2. ASSUME NEW r \in Request, NEW row, UpdateUser(Target(r), row)
        PROVE  \A u \in DOMAIN users \ {Target(r)} : u \in DOMAIN users' /\ users'[u] = users[u]
    BY <2>2 DEF UpdateUser, Insert
  <2>3. ASSUME NEW r \in Request, Update(r) PROVE Made
    <3>1. /\ At(r, "write") /\ Op(r) = "update" /\ applied' = applied \cup {r}
          /\ \E row : UpdateUser(Target(r), row)
      BY <2>3 DEF Update, Writing, Commit, Target
    <3>2. QED
      BY <2>1, <2>2, <3>1
  <2>4. ASSUME NEW r \in Request, SetActive(r), Op(r) = "disable" PROVE Made
    <3>1. /\ At(r, "write") /\ applied' = applied \cup {r}
          /\ \E row : UpdateUser(Target(r), row)
      BY <2>4 DEF SetActive, Writing, Commit
    <3>2. QED
      BY <2>1, <2>2, <2>4, <3>1
  <2>5. ASSUME NEW r \in Request, Delete(r) PROVE Made
    <3>1. At(r, "write") /\ Op(r) = "delete" /\ applied' = applied \cup {r}
      BY <2>5 DEF Delete, Writing, Commit
    <3>2. \A u \in DOMAIN users \ {Target(r)} : u \in DOMAIN users' /\ users'[u] = users[u]
      BY <2>5 DEF Delete, DeleteUser, Remove, Restrict
    <3>3. QED
      BY <2>1, <3>1, <3>2
  <2>6. ASSUME NEW r \in Request, NEW row, UpdateUser(Target(r), row),
               row.role = users[Target(r)].role, users[Target(r)].isActive => row.isActive
        PROVE  Made
    BY <2>6, AdministratorsStay DEF UpdateUser, Insert
  <2>7. ASSUME NEW r \in Request, SetActive(r), Op(r) = "enable" PROVE Made
    <3> DEFINE row == [users[Target(r)] EXCEPT !.isActive = (Op(r) = "enable")]
    <3>1. UpdateUser(Target(r), row)
      BY <2>7 DEF SetActive
    <3>2. users[Target(r)] \in UserRow
      BY <3>1 DEF UpdateUser, TypeOK, DatabaseTypeOK, IsTable
    <3>3. row.role = users[Target(r)].role /\ row.isActive
      BY <2>7, <3>2 DEF UserRow
    <3> HIDE DEF row
    <3>4. QED
      BY <2>6, <3>1, <3>3
  <2>8. ASSUME NEW r \in Request, ResetPassword(r) PROVE Made
    <3> DEFINE row == [users[Target(r)] EXCEPT !.passwordHash = requests[r].call.password]
    <3>1. UpdateUser(Target(r), row)
      BY <2>8 DEF ResetPassword
    <3>2. users[Target(r)] \in UserRow
      BY <3>1 DEF UpdateUser, TypeOK, DatabaseTypeOK, IsTable
    <3>3. row.role = users[Target(r)].role /\ row.isActive = users[Target(r)].isActive
      BY <3>2 DEF UserRow
    <3> HIDE DEF row
    <3>4. QED
      BY <2>6, <3>1, <3>3
  <2>9. ASSUME NEW v, NEW row, InsertUser(v, row) PROVE Made
    <3>1. v \notin DOMAIN users
      BY <2>9 DEF InsertUser, TypeOK, DatabaseTypeOK
    <3>2. QED
      BY <2>9, <3>1, AdministratorsStay DEF InsertUser, Insert
  <2>10. CASE UNCHANGED users
    BY <2>10 DEF Administrators
  <2>11. ASSUME NEW r \in Request, SetActive(r) PROVE Made
    BY <2>4, <2>7, <2>11 DEF SetActive, Writing
  <2>12. QED
    BY <2>3, <2>5, <2>8, <2>9, <2>10, <2>11, ChangesOf DEF Create
<1>2. Consistent /\ EffectsOK /\ LooksOK /\ OwnOK /\ [Next]_vars
        => [Administrators # {} /\ Administrators' = {} => Made]_vars
  BY <1>1
<1>3. QED
  BY <1>2, OwnHolds, LooksHold, EffectsHold, Consistency, PTL DEF Spec, LastAdminGuarded, Loses

-----------------------------------------------------------------------------
(* Sessions that a change ends.                                            *)

Left(r) == revoked[r] \cap DOMAIN sessions

\* The sessions a change takes the basis from are of its target until they are
\* deleted, and none is left once the handler has passed its deleteMany.
PurgeOf(r) ==
    /\ revoked[r] \subseteq issued
    /\ requests[r].cookie \in issued \cup {NoSession}
    /\ requests[r].stage \in {"purge", "purgeRole"} => Left(r) \subseteq SessionsOf(Target(r))
    /\ requests[r].stage \in {"log", "me"} /\ Invalidates(r) => Left(r) = {}
    /\ requests[r].status = 200 /\ Invalidates(r) => Left(r) = {}

PurgesOK == \A r \in Request : PurgeOf(r)

LEMMA PurgesInit == Init => PurgesOK
BY DEF Init, PurgesOK, PurgeOf, IdleRequest, Pending

\* No statement brings a session back or gives it to another account.
LEMMA SessionsMove ==
    ASSUME DatabaseTypeOK, [DatabaseNext]_dbVars
    PROVE  /\ issued \subseteq issued'
           /\ \A s \in issued \cap DOMAIN sessions' :
                 s \in DOMAIN sessions /\ sessions'[s].userId = sessions[s].userId
<1> DEFINE Kept == \A s \in issued \cap DOMAIN sessions' :
                       s \in DOMAIN sessions /\ sessions'[s].userId = sessions[s].userId
<1>1. ASSUME NEW s, NEW row, ReplaceExpired(s, row) PROVE Kept /\ issued \subseteq issued'
  BY <1>1 DEF ReplaceExpired, Insert, Remove, Restrict
<1>2. ASSUME NEW S, DeleteSessions(S) PROVE Kept /\ issued \subseteq issued'
  BY <1>2 DEF DeleteSessions, Remove, Restrict
<1>3. ASSUME NEW u, DeleteUser(u) PROVE Kept /\ issued \subseteq issued'
  BY <1>3 DEF DeleteUser, Remove, Restrict
<1>4. ASSUME NEW s, PassExpiry(s) PROVE Kept /\ issued \subseteq issued'
  BY <1>4 DEF PassExpiry, DatabaseTypeOK, IsTable, SessionRow
<1>5. CASE UNCHANGED sessions /\ issued \subseteq issued'
  BY <1>5
<1>6. QED
  BY <1>1, <1>2, <1>3, <1>4, <1>5 DEF DatabaseNext, dbVars, InsertUser, UpdateUser,
     InsertPermission, DeletePermission, InsertAudit

\* What a step leaves of the sessions a change has revoked.
LEMMA LeftShrinks ==
    ASSUME Consistent, PurgesOK, [Next]_vars, NEW r \in Request, revoked'[r] = revoked[r]
    PROVE  /\ revoked'[r] \subseteq issued' /\ issued \subseteq issued'
           /\ Left(r)' \subseteq Left(r)
           /\ \A u : Left(r) \subseteq SessionsOf(u) => Left(r)' \subseteq SessionsOf(u)'
<1>1. /\ issued \subseteq issued'
      /\ \A s \in issued \cap DOMAIN sessions' :
            s \in DOMAIN sessions /\ sessions'[s].userId = sessions[s].userId
  BY DatabaseStep, SessionsMove DEF Consistent, TypeOK
<1>2. revoked[r] \subseteq issued
  BY DEF PurgesOK, PurgeOf
<1>3. Left(r)' \subseteq Left(r)
  BY <1>1, <1>2 DEF Left
<1>4. \A u : Left(r) \subseteq SessionsOf(u) => Left(r)' \subseteq SessionsOf(u)'
  BY <1>1, <1>2, <1>3 DEF Left, SessionsOf
<1>5. QED
  BY <1>1, <1>2, <1>3, <1>4

\* A request that keeps its call, its view of the target and its revocation,
\* and moves where nothing more is asked of it.
LEMMA PurgeKeeps ==
    ASSUME Consistent, EffectsOK, PurgesOK, [Next]_vars, NEW r \in Request,
           revoked'[r] = revoked[r],
           requests'[r].cookie \in issued' \cup {NoSession},
           \/ requests'[r] = requests[r]
           \/ /\ requests'[r].stage \notin {"purge", "purgeRole", "log", "me"}
              /\ requests'[r].status # 200
           \/ /\ requests'[r].call = requests[r].call
              /\ requests'[r].seenRole = requests[r].seenRole
              /\ requests[r].stage \in {"log", "me"}
              /\ requests'[r].stage \in {"me", "done"}
    PROVE  PurgeOf(r)'
<1>1. PurgeOf(r) /\ EffectOf(r)
  BY DEF PurgesOK, EffectsOK
<1>2. /\ revoked'[r] \subseteq issued' /\ issued \subseteq issued'
      /\ Left(r)' \subseteq Left(r)
      /\ \A u : Left(r) \subseteq SessionsOf(u) => Left(r)' \subseteq SessionsOf(u)'
  BY LeftShrinks
<1>3. CASE requests'[r] = requests[r]
  BY <1>1, <1>2, <1>3 DEF PurgeOf, Target, Invalidates, Op, Deactivates, RoleDiffers
<1>4. CASE /\ requests'[r].stage \notin {"purge", "purgeRole", "log", "me"}
           /\ requests'[r].status # 200
  BY <1>2, <1>4 DEF PurgeOf
<1>5. CASE /\ requests'[r].call = requests[r].call
           /\ requests'[r].seenRole = requests[r].seenRole
           /\ requests[r].stage \in {"log", "me"}
           /\ requests'[r].stage \in {"me", "done"}
  <2>1. Invalidates(r)' => Invalidates(r)
    BY <1>5 DEF Invalidates, Op, Deactivates, RoleDiffers
  <2>2. Invalidates(r)' => Left(r)' = {}
    BY <1>1, <1>2, <1>5, <2>1 DEF PurgeOf
  <2>3. QED
    BY <1>2, <1>5, <2>2 DEF PurgeOf
<1>6. QED
  BY <1>3, <1>4, <1>5

\* The change itself: its sessions are the target's, or gone at once.
LEMMA PurgeStarts ==
    ASSUME Consistent, EffectsOK, PurgesOK, NEW r \in Request, Write(r), ~Refused(r)
    PROVE  PurgeOf(r)'
<1> USE DEF Consistent
<1> DEFINE c == requests[r].call
<1>1. /\ At(r, "write") /\ requests'[r].stage = StageAfterWrite(r)
      /\ requests'[r].call = c /\ requests'[r].cookie = requests[r].cookie
      /\ requests'[r].seenRole = requests[r].seenRole
      /\ requests'[r].status = requests[r].status
  BY GotoOnly DEF Write, Create, Update, SetActive, ResetPassword, Delete, AddPermission,
     RemovePermission, Logout, Writing, Commit
<1>2. requests[r].status = Pending
  BY <1>1 DEF EffectsOK, EffectOf, At
<1>3. /\ requests[r].cookie \in issued \cup {NoSession} /\ DOMAIN sessions \subseteq issued
      /\ revoked \in [Request -> SUBSET SessionId]
  BY DEF PurgesOK, PurgeOf, TypeOK, DatabaseTypeOK
<1>4. issued \subseteq issued'
  BY DEF Write, Create, Update, SetActive, ResetPassword, Delete, AddPermission,
     RemovePermission, Logout, InsertUser, UpdateUser, DeleteUser, DeleteSessions,
     InsertPermission, DeletePermission
<1>5. Op(r)' = Op(r) /\ Target(r)' = Target(r) /\ Deactivates(r)' = Deactivates(r)
      /\ RoleDiffers(r)' = RoleDiffers(r)
  BY <1>1 DEF Op, Target, Deactivates, RoleDiffers
<1>6. ASSUME UNCHANGED sessions, NEW S \in SUBSET SessionsOf(Target(r)), Commit(r, S),
             StageAfterWrite(r) = "log" => ~Invalidates(r)
      PROVE  PurgeOf(r)'
  <2>1. revoked'[r] = S
    BY <1>3, <1>6 DEF Commit
  <2>2. Left(r)' \subseteq SessionsOf(Target(r))' /\ revoked'[r] \subseteq issued'
    BY <1>3, <1>4, <1>5, <1>6, <2>1 DEF Left, SessionsOf
  <2>3. StageAfterWrite(r) # "me"
    BY DEF StageAfterWrite
  <2>4. Invalidates(r)' <=> Invalidates(r)
    BY <1>5 DEF Invalidates
  <2>5. QED
    BY <1>1, <1>2, <1>3, <1>4, <1>6, <2>2, <2>3, <2>4 DEF PurgeOf, Pending
<1>7. ASSUME NEW S \in SUBSET issued, Commit(r, S), S \cap DOMAIN sessions' = {},
             StageAfterWrite(r) = "log"
      PROVE  PurgeOf(r)'
  <2>1. revoked'[r] = S
    BY <1>3, <1>7 DEF Commit
  <2>2. Left(r)' = {} /\ revoked'[r] \subseteq issued'
    BY <1>4, <1>7, <2>1 DEF Left
  <2>3. QED
    BY <1>1, <1>2, <1>3, <1>4, <1>7, <2>2 DEF PurgeOf, Pending
<1>8. CASE Delete(r)
  <2>1. SessionsOf(Target(r)) \cap DOMAIN sessions' = {}
    BY <1>8 DEF Delete, DeleteUser, Remove, Restrict
  <2>2. StageAfterWrite(r) = "log"
    BY <1>8 DEF Delete, Writing, StageAfterWrite, Deactivates, RoleDiffers
  <2>3. SessionsOf(Target(r)) \in SUBSET issued
    BY <1>3 DEF SessionsOf
  <2>4. QED
    BY <1>7, <1>8, <2>1, <2>2, <2>3 DEF Delete
<1>9. CASE Logout(r)
  <2>1. {requests[r].cookie} \cap DOMAIN sessions' = {}
    BY <1>9 DEF Logout, DeleteSessions, Remove, Restrict
  <2>2. StageAfterWrite(r) = "log"
    BY <1>9 DEF Logout, Writing, StageAfterWrite, Deactivates, RoleDiffers
  <2>3. {requests[r].cookie} \in SUBSET issued
    <3>1. requests[r].cookie \in SessionId
      BY <1>1 DEF StagesOK, Admitted, At
    <3>2. QED
      BY <1>3, <3>1, NullAssumption
  <2>4. QED
    BY <1>7, <1>9, <2>1, <2>2, <2>3 DEF Logout
<1>10. CASE Create(r) \/ Update(r) \/ SetActive(r) \/ ResetPassword(r) \/ AddPermission(r)
              \/ RemovePermission(r)
  <2>1. UNCHANGED sessions
    BY <1>10 DEF Create, Update, SetActive, ResetPassword, AddPermission, RemovePermission,
       InsertUser, UpdateUser, InsertPermission, DeletePermission
  <2>2. PICK S \in SUBSET SessionsOf(Target(r)) : Commit(r, S)
    BY <1>10 DEF Create, Update, SetActive, ResetPassword, AddPermission, RemovePermission, Target
  <2>3. Op(r) \in {"create", "update", "disable", "enable", "resetPassword", "addPermission",
                   "removePermission"}
    BY <1>10 DEF Create, Update, SetActive, ResetPassword, AddPermission, RemovePermission, Writing
  <2>4. StageAfterWrite(r) = "log" => ~Invalidates(r)
    BY <2>3 DEF StageAfterWrite, Invalidates
  <2>5. QED
    BY <1>6, <2>1, <2>2, <2>4
<1>11. QED
  BY <1>8, <1>9, <1>10 DEF Write

\* The deleteMany: none of the sessions revoked is left.
LEMMA PurgeEnds ==
    ASSUME Consistent, EffectsOK, PurgesOK, NEW r \in Request, PurgeSessions(r)
    PROVE  PurgeOf(r)'
<1>1. PurgeOf(r) /\ EffectOf(r) /\ TypeOK
  BY DEF PurgesOK, EffectsOK, Consistent
<1>2. Left(r) \subseteq SessionsOf(Target(r)) /\ requests[r].status = Pending
  BY <1>1 DEF PurgeOf, EffectOf, PurgeSessions
<1>3. Left(r)' = {} /\ issued' = issued /\ revoked' = revoked
  BY <1>2 DEF PurgeSessions, DeleteSessions, Remove, Restrict, Left, history
<1>4. requests'[r].status = requests[r].status /\ requests'[r].cookie = requests[r].cookie
  BY <1>1, GotoOnly DEF PurgeSessions
<1>5. QED
  BY <1>1, <1>2, <1>3, <1>4 DEF PurgeOf, Pending

LEMMA PurgesStep ==
    ASSUME Consistent, EffectsOK, PurgesOK, [Next]_vars PROVE PurgesOK'
<1> USE DEF Consistent
<1>0. \A r \in Request : PurgeOf(r) /\ EffectOf(r)
  BY DEF PurgesOK, EffectsOK
<1>1. issued \subseteq issued' /\ \A r \in Request : requests[r].cookie \in issued' \cup {NoSession}
  BY <1>0, DatabaseStep, SessionsMove DEF TypeOK, PurgeOf
\* Every request but the one that moves.
<1>2. ASSUME NEW r \in Request, \A q \in Request \ {r} :
                 requests'[q] = requests[q] /\ revoked'[q] = revoked[q],
             PurgeOf(r)'
      PROVE  PurgesOK'
  <2>1. ASSUME NEW q \in Request \ {r} PROVE PurgeOf(q)'
    BY <1>1, <1>2, PurgeKeeps
  <2>2. QED
    BY <1>2, <2>1 DEF PurgesOK
\* A step without a change.
<1>3. ASSUME NEW r \in Request, NEW state, revoked' = revoked,
             requests' = [requests EXCEPT ![r] = state],
             state.cookie \in issued' \cup {NoSession},
             \/ state.stage \notin {"purge", "purgeRole", "log", "me"} /\ state.status # 200
             \/ /\ state.call = requests[r].call /\ state.seenRole = requests[r].seenRole
                /\ requests[r].stage \in {"log", "me"}
                /\ state.stage \in {"me", "done"}
      PROVE  PurgesOK'
  <2>1. requests'[r] = state /\ \A q \in Request \ {r} : requests'[q] = requests[q]
    BY <1>3 DEF TypeOK
  <2>2. PurgeOf(r)'
    BY <1>3, <2>1, PurgeKeeps
  <2>3. QED
    BY <1>2, <1>3, <2>1, <2>2
<1>4. ASSUME NEW r \in Request, NEW s, Answer(r, s), revoked' = revoked,
             s # 200 \/ requests[r].stage \in {"log", "me"}
      PROVE  PurgesOK'
  <2> DEFINE state == [requests[r] EXCEPT !.stage = "done", !.status = s]
  <2>1. /\ requests' = [requests EXCEPT ![r] = state]
        /\ state.stage = "done" /\ state.status = s /\ state.cookie = requests[r].cookie
        /\ state.call = requests[r].call /\ state.seenRole = requests[r].seenRole
    BY <1>4 DEF Answer, TypeOK, RequestState
  <2> HIDE DEF state
  <2>2. QED
    BY <1>1, <1>3, <1>4, <2>1
<1>5. ASSUME NEW r \in Request, NEW s, Goto(r, s), revoked' = revoked,
             \/ s \notin {"purge", "purgeRole", "log", "me", "done"} /\ requests[r].stage # "done"
             \/ requests[r].stage = "log" /\ s = "me"
      PROVE  PurgesOK'
  <2> DEFINE state == [requests[r] EXCEPT !.stage = s]
  <2>1. /\ requests' = [requests EXCEPT ![r] = state]
        /\ state.stage = s /\ state.status = requests[r].status
        /\ state.cookie = requests[r].cookie
        /\ state.call = requests[r].call /\ state.seenRole = requests[r].seenRole
    BY <1>5 DEF Goto, TypeOK, RequestState
  <2> HIDE DEF state
  <2>2. s \notin {"log", "me", "done"} => requests[r].status # 200
    BY <1>0, <1>5 DEF EffectOf, Pending
  <2>3. QED
    BY <1>1, <1>3, <1>5, <2>1, <2>2
<1>6. ASSUME NEW r \in Request, GoOnAnonymously(r), revoked' = revoked, requests[r].stage # "done"
      PROVE  PurgesOK'
  BY <1>4, <1>5, <1>6 DEF GoOnAnonymously
<1>7. ASSUME NEW r \in Request, Arrive(r) PROVE PurgesOK'
  <2>1. PICK c \in Calls, cookie \in (issued \cap SessionId) \cup {NoSession} :
            requests' = [requests EXCEPT
                ![r] = [@ EXCEPT !.stage = "session", !.call = c, !.cookie = cookie]]
    BY <1>7 DEF Arrive
  <2> DEFINE state == [requests[r] EXCEPT !.stage = "session", !.call = c, !.cookie = cookie]
  <2>2. /\ requests' = [requests EXCEPT ![r] = state]
        /\ state.stage = "session" /\ state.status = requests[r].status /\ state.cookie = cookie
    BY <2>1 DEF TypeOK, RequestState
  <2> HIDE DEF state
  <2>3. requests[r].status # 200 /\ revoked' = revoked
    BY <1>0, <1>7 DEF EffectOf, Arrive, At, history, Pending
  <2>4. QED
    BY <1>1, <1>3, <2>2, <2>3
<1>8. ASSUME NEW r \in Request, Authenticate(r) PROVE PurgesOK'
  <2> DEFINE u == sessions[requests[r].cookie].userId
             c == requests[r].call
  <2>1. revoked' = revoked /\ requests[r].stage = "session" /\ requests[r].status # 200
    BY <1>0, <1>8 DEF Authenticate, history, At, EffectOf, Pending
  <2>2. CASE requests' = [requests EXCEPT
                 ![r] = [@ EXCEPT !.stage = FirstStage(c.op),
                                  !.actor = u, !.role = users[u].role]]
    <3> DEFINE state == [requests[r] EXCEPT !.stage = FirstStage(c.op),
                                            !.actor = u, !.role = users[u].role]
    <3>1. FirstStage(c.op) \notin {"purge", "purgeRole", "log", "me"}
      BY DEF FirstStage
    <3> HIDE DEF u
    <3>2. /\ requests' = [requests EXCEPT ![r] = state]
          /\ state.stage = FirstStage(c.op) /\ state.status = requests[r].status
          /\ state.cookie = requests[r].cookie
      BY <2>2 DEF TypeOK, RequestState
    <3> HIDE DEF state
    <3>3. QED
      BY <1>1, <1>3, <2>1, <3>1, <3>2
  <2>3. CASE GoOnAs(r, u)
    BY <1>4, <2>1, <2>2, <2>3 DEF GoOnAs
  <2>4. CASE GoOnAnonymously(r)
    BY <1>6, <2>1, <2>4
  <2>5. CASE Goto(r, "reap")
    BY <1>5, <2>1, <2>5
  <2>6. QED
    BY <1>8, <2>3, <2>4, <2>5 DEF Authenticate
<1>9. ASSUME NEW r \in Request, Reap(r) PROVE PurgesOK'
  BY <1>6, <1>9 DEF Reap, history, At
<1>10. ASSUME NEW r \in Request, Load(r) PROVE PurgesOK'
  <2> DEFINE c == requests[r].call
             next == StageAfterLoad(c, requests[r].role, users[c.target])
  <2>1. revoked' = revoked /\ requests[r].stage = "load" /\ requests[r].status # 200
    BY <1>0, <1>10 DEF Load, history, At, EffectOf, Pending
  <2>2. CASE requests' = [requests EXCEPT
                 ![r] = [@ EXCEPT !.stage = next, !.seenRole = users[c.target].role]]
    <3>1. next \notin {"purge", "purgeRole", "log", "me"}
      BY DEF StageAfterLoad
    <3> HIDE DEF next
    <3> DEFINE state == [requests[r] EXCEPT !.stage = next, !.seenRole = users[c.target].role]
    <3>2. /\ requests' = [requests EXCEPT ![r] = state]
          /\ state.stage = next /\ state.status = requests[r].status
          /\ state.cookie = requests[r].cookie
      BY <2>2 DEF TypeOK, RequestState
    <3> HIDE DEF state
    <3>3. QED
      BY <1>1, <1>3, <2>1, <3>1, <3>2
  <2>3. QED
    BY <1>4, <1>10, <2>1, <2>2 DEF Load
<1>11. ASSUME NEW r \in Request, CheckEmail(r) \/ LoadGrants(r) \/ LoadPermission(r)
       PROVE  PurgesOK'
  <2>1. revoked' = revoked /\ requests[r].stage \in {"email", "grants", "grant"}
    BY <1>11 DEF CheckEmail, LoadGrants, LoadPermission, history, At
  <2>2. QED
    BY <1>4, <1>5, <1>11, <2>1 DEF CheckEmail, LoadGrants, LoadPermission
<1>12. ASSUME NEW r \in Request, Write(r) PROVE PurgesOK'
  <2>1. CASE Refused(r)
    <3>1. Answer(r, Rejection(r)) /\ revoked' = revoked
      BY <2>1 DEF Refused, history
    <3>2. Rejection(r) # 200
      BY DEF Rejection
    <3>3. QED
      BY <1>4, <3>1, <3>2
  <2>2. CASE ~Refused(r)
    <3>1. PICK S : Commit(r, S)
      BY <1>12, <2>2 DEF Write, Create, Update, SetActive, ResetPassword, Delete, AddPermission,
         RemovePermission, Logout
    <3>2. \A q \in Request \ {r} : requests'[q] = requests[q] /\ revoked'[q] = revoked[q]
      BY <3>1, GotoOnly DEF Commit, TypeOK
    <3>3. QED
      BY <1>2, <1>12, <2>2, <3>2, PurgeStarts
  <2>3. QED
    BY <2>1, <2>2
<1>13. ASSUME NEW r \in Request, PurgeSessions(r) PROVE PurgesOK'
  <2>1. \A q \in Request \ {r} : requests'[q] = requests[q] /\ revoked'[q] = revoked[q]
    BY <1>13, GotoOnly DEF PurgeSessions, history
  <2>2. QED
    BY <1>2, <1>13, <2>1, PurgeEnds
<1>14. ASSUME NEW r \in Request, Log(r) \/ Me(r) \/ Fail(r) PROVE PurgesOK'
  <2>1. revoked' = revoked /\ Rejection(r) # 200
    BY <1>14 DEF Log, Me, Fail, history, Rejection
  <2>2. QED
    BY <1>4, <1>5, <1>14, <2>1 DEF Log, Me, Fail, At
<1>15. ASSUME NEW r \in Request, FindUser(r) PROVE PurgesOK'
  <2>0. revoked' = revoked /\ requests[r].stage = "find"
    BY <1>15 DEF FindUser, history, At
  <2>1. revoked' = revoked /\ requests[r].stage = "find" /\ requests[r].status # 200
    BY <1>0, <2>0 DEF EffectOf, Pending
  <2>2. ASSUME NEW u, requests' = [requests EXCEPT
                   ![r] = [@ EXCEPT !.stage = "open", !.actor = u, !.role = users[u].role]]
        PROVE  PurgesOK'
    <3> DEFINE state == [requests[r] EXCEPT !.stage = "open", !.actor = u,
                                            !.role = users[u].role]
    <3>1. /\ requests' = [requests EXCEPT ![r] = state]
          /\ state.stage = "open" /\ state.status = requests[r].status
          /\ state.cookie = requests[r].cookie
      BY <2>2 DEF TypeOK, RequestState
    <3> HIDE DEF state
    <3>2. QED
      BY <1>1, <1>3, <2>1, <3>1
  <2>3. CASE Answer(r, 401)
    BY <1>4, <2>1, <2>3
  <2>4. QED
    BY <1>15, <2>2, <2>3 DEF FindUser
<1>16. ASSUME NEW r \in Request, OpenSession(r) PROVE PurgesOK'
  <2>1. revoked' = revoked /\ At(r, "open")
    BY <1>16 DEF OpenSession, history
  <2>2. CASE Goto(r, "log")
    <3>1. /\ requests'[r].status = requests[r].status /\ requests'[r].cookie = requests[r].cookie
          /\ requests'[r].call = requests[r].call
          /\ \A q \in Request \ {r} : requests'[q] = requests[q]
      BY <2>2, GotoOnly
    <3>2. Op(r)' = "login" /\ ~Invalidates(r)'
      BY <2>1, <3>1 DEF StagesOK, At, Op, Invalidates, Deactivates, RoleDiffers
    <3>3. PurgeOf(r)'
      <4>1. requests'[r].stage = "log"
        BY <2>2, GotoOnly
      <4>2. revoked'[r] \subseteq issued'
        BY <1>0, <1>1, <2>1 DEF PurgeOf
      <4>3. QED
        BY <1>1, <3>1, <3>2, <4>1, <4>2 DEF PurgeOf
    <3>4. QED
      BY <1>2, <2>1, <3>1, <3>3
  <2>3. CASE Answer(r, 500)
    BY <1>4, <2>1, <2>3
  <2>4. QED
    BY <1>16, <2>2, <2>3 DEF OpenSession
<1>17. CASE UNCHANGED <<requests, revoked>>
  <2>1. ASSUME NEW r \in Request PROVE PurgeOf(r)'
    BY <1>1, <1>17, PurgeKeeps
  <2>2. QED
    BY <2>1 DEF PurgesOK
<1>18. QED
  BY <1>7, <1>8, <1>9, <1>10, <1>11, <1>12, <1>13, <1>14, <1>15, <1>16, <1>17
  DEF Next, Step, Expire, history, vars

\* The sessions of an account are gone when a change that ends them is answered
\* 200, whatever logins, other changes and failures came in between (update,
\* disable, delete, resetPassword, addPermission, removePermission, logout).
THEOREM SessionsStayPurged == Spec => []SessionsPurged
<1>1. PurgesOK => SessionsPurged
  BY DEF PurgesOK, PurgeOf, Left, SessionsPurged
<1>2. Consistent /\ EffectsOK /\ PurgesOK /\ [Next]_vars => PurgesOK'
  BY PurgesStep
<1>3. QED
  BY <1>1, <1>2, PurgesInit, EffectsHold, Consistency, PTL DEF Spec

-----------------------------------------------------------------------------
(* The files behind the scopes.                                            *)

\* A text that begins with one that begins with p begins with p.
LEMMA UnderComposes ==
    ASSUME NEW p \in Seq(Name), NEW q \in Seq(Name), NEW t \in Seq(Name),
           Rules!Under(t, q), Rules!Under(q, p)
    PROVE  Rules!Under(t, p)
BY DEF Rules!Under

\* Two beginnings of one text are comparable.
LEMMA BeginningsCompare ==
    ASSUME NEW p \in Seq(Name), NEW q \in Seq(Name), NEW t \in Seq(Name),
           Rules!Under(t, p), Rules!Under(t, q)
    PROVE  Rules!Comparable(p, q)
<1>1. Len(p) \in Nat /\ Len(q) \in Nat
  OBVIOUS
<1>2. CASE Len(p) <= Len(q)
  BY <1>1, <1>2 DEF Rules!Under, Rules!Comparable
<1>3. CASE Len(q) <= Len(p)
  BY <1>1, <1>3 DEF Rules!Under, Rules!Comparable
<1>4. QED
  BY <1>1, <1>2, <1>3

\* The prefixes of scopes are texts.
LEMMA ScopeTexts ==
    ASSUME NEW s \in Scope PROVE s \in Rules!Permission /\ s.prefix \in Seq(Name)
BY ScopeAssumption, RulesAssumption DEF Rules!Permission, Rules!KeyAssumption

\* Containment of scopes composes: what the proofs about delegation assume of
\* Within is true of the test that assertCanGrantPermission makes.
THEOREM ContainmentComposes ==
    ASSUME NEW r \in Scope, NEW s \in Scope, NEW t \in Scope, Contains(s, r), Contains(t, s)
    PROVE  Contains(t, r)
BY ScopeTexts, UnderComposes DEF Contains

\* A scope opens no object that one containing it does not open.
LEMMA ContainedObjects ==
    ASSUME NEW s \in Scope, NEW t \in Scope, Contains(t, s), NEW k \in Key,
           Rules!Sees(k) # NoKey, Rules!Under(Rules!Sees(k), s.prefix)
    PROVE  Rules!Under(Rules!Sees(k), t.prefix)
<1>1. Rules!Sees(k) \in Seq(Name)
  BY RulesAssumption DEF Rules!Sees, Rules!KeyAssumption, Rules!OddAssumption
<1>2. QED
  BY <1>1, ScopeTexts, UnderComposes DEF Contains

\* Nor any folder: what lies on the way to it lies on the way to the other, or
\* below that.
LEMMA ContainedFolders ==
    ASSUME NEW s \in Scope, NEW t \in Scope, Contains(t, s), NEW f \in Prefix,
           Rules!Comparable(f, s.prefix)
    PROVE  Rules!Comparable(f, t.prefix)
<1>1. f \in Seq(Name) /\ s.prefix \in Seq(Name) /\ t.prefix \in Seq(Name)
  BY ScopeTexts, RulesAssumption DEF Rules!KeyAssumption
<1>2. CASE Rules!Under(f, s.prefix)
  BY <1>1, <1>2, UnderComposes DEF Contains, Rules!Comparable
<1>3. CASE Rules!Under(s.prefix, f)
  BY <1>1, <1>3, BeginningsCompare DEF Contains
<1>4. QED
  BY <1>2, <1>3 DEF Rules!Comparable

\* Every row of an account lies within a scope that is owed to it.
LEMMA RowsOwed ==
    ASSUME TypeOK, DelegationBounded, NEW u, NEW s \in RowsOf(u)
    PROVE  s \in Scope /\ \E d \in OwedTo(u) : d \in Scope /\ (d = s \/ Contains(d, s))
<1>1. PICK p \in DOMAIN permissions : permissions[p].scope = s
  BY DEF RowsOf, PermissionsOf
<1>2. s \in Scope
  BY <1>1 DEF TypeOK, DatabaseTypeOK, IsTable, PermissionRow
<1>3. CASE s \in delegated
  BY <1>2, <1>3 DEF OwedTo
<1>4. ASSUME NEW d \in delegated \ RootScope, <<s, d>> \in Within
      PROVE  d \in OwedTo(u) /\ d \in Scope /\ Contains(d, s)
  <2>1. d \in Scope
    BY DEF TypeOK
  <2>2. Contains(d, s)
    <3>1. PICK w \in Scope \X Scope : w = <<s, d>> /\ Contains(w[2], w[1])
      BY <1>4, ScopeAssumption
    <3>2. w[1] = s /\ w[2] = d
      BY <3>1
    <3>3. QED
      BY <3>1, <3>2
  <2>3. QED
    BY <2>1, <2>2 DEF OwedTo
<1>5. QED
  BY <1>1, <1>2, <1>3, <1>4 DEF DelegationBounded, Bounded

\* Whatever chain of delegations, promotions and withdrawals has run, no account
\* can download an object or list a folder that no administrator's grant opens,
\* and whole buckets are not handed on
\* (assertCanGrantPermission against isKeyWithinPrefix and canListWithinPermission).
THEOREM AccessStaysBounded == Spec => []AccessBounded
<1>1. TypeOK /\ DelegationBounded => AccessBounded
  <2> SUFFICES ASSUME TypeOK, DelegationBounded, NEW u \in RowOwners, NEW b \in Bucket
               PROVE  /\ \A k \in Key : Rules!CanAccess(RowsOf(u), b, k)
                                            => Rules!CanAccess(OwedTo(u), b, k)
                      /\ \A f \in Prefix : Rules!CanList(RowsOf(u), b, f)
                                            => Rules!CanList(OwedTo(u), b, f)
    BY DEF AccessBounded
  <2>1. ASSUME NEW k \in Key, Rules!CanAccess(RowsOf(u), b, k)
        PROVE  Rules!CanAccess(OwedTo(u), b, k)
    <3>1. Rules!Sees(k) # NoKey
      BY <2>1 DEF Rules!CanAccess
    <3>2. PICK s \in RowsOf(u) : s.bucket = b /\ Rules!Under(Rules!Sees(k), s.prefix)
      BY <2>1 DEF Rules!CanAccess
    <3>3. PICK d \in OwedTo(u) : d \in Scope /\ (d = s \/ Contains(d, s)) /\ s \in Scope
      BY RowsOwed
    <3>4. d.bucket = b /\ Rules!Under(Rules!Sees(k), d.prefix)
      BY <3>1, <3>2, <3>3, ContainedObjects DEF Contains
    <3>5. QED
      BY <3>1, <3>4 DEF Rules!CanAccess
  <2>2. ASSUME NEW f \in Prefix, Rules!CanList(RowsOf(u), b, f)
        PROVE  Rules!CanList(OwedTo(u), b, f)
    <3>1. PICK s \in RowsOf(u) : s.bucket = b /\ Rules!Comparable(f, s.prefix)
      BY <2>2 DEF Rules!CanList
    <3>2. PICK d \in OwedTo(u) : d \in Scope /\ (d = s \/ Contains(d, s)) /\ s \in Scope
      BY RowsOwed
    <3>3. d.bucket = b /\ Rules!Comparable(f, d.prefix)
      BY <3>1, <3>2, ContainedFolders DEF Contains
    <3>4. QED
      BY <3>3 DEF Rules!CanList
  <2>3. QED
    BY <2>1, <2>2
<1>2. QED
  BY <1>1, TypeCorrect, DelegationStaysBounded, PTL

-----------------------------------------------------------------------------
(* The ledger.                                                             *)

Owners == [s \in DOMAIN sessions |-> sessions[s].userId]

Spent == issued \cap (UserId \cup SessionId)

Held == {<<permissions[p].userId, permissions[p].scope>> : p \in DOMAIN permissions}

LEMMA LedgerGrant ==
    ASSUME NEW u \in UserId, NEW scope \in Scope,
           Ledger!GrantByAdmin(u, scope) \/ Ledger!Delegate(u, scope)
    PROVE  Ledger!LedgerNext
BY DEF Ledger!LedgerNext

LEMMA LedgerWithdraw ==
    ASSUME NEW h \in Held, Ledger!Withdraw(h) PROVE Ledger!LedgerNext
BY DEF Ledger!LedgerNext, Held

LEMMA LedgerClose ==
    ASSUME NEW K \in SUBSET DOMAIN Owners, Ledger!Close(K) PROVE Ledger!LedgerNext
BY DEF Ledger!LedgerNext, Owners

LEMMA LedgerOpen ==
    ASSUME NEW K \in SUBSET DOMAIN Owners, NEW s \in SessionId, NEW u \in UserId,
           Ledger!Open(s, u, K)
    PROVE  Ledger!LedgerNext
BY DEF Ledger!LedgerNext, Owners

LEMMA LedgerStarts == Init => Ledger!LedgerInit
<1> SUFFICES ASSUME Init PROVE Ledger!LedgerInit
    OBVIOUS
<1> USE InitAssumption DEF Init
<1>1. Spent = DOMAIN InitUsers \cup DOMAIN InitSessions
  BY KeyAssumption DEF Spent, IsTable
<1>2. DOMAIN [s \in DOMAIN InitSessions |-> InitSessions[s].userId] = DOMAIN InitSessions
  OBVIOUS
<1>3. delegated = {h[2] : h \in Held}
  <2>1. ASSUME NEW p \in DOMAIN InitPermissions
        PROVE  <<InitPermissions[p].userId, InitPermissions[p].scope>>[2] = InitPermissions[p].scope
    OBVIOUS
  <2>2. \A h \in Held : \E p \in DOMAIN InitPermissions : h[2] = InitPermissions[p].scope
    BY <2>1 DEF Held
  <2>3. \A p \in DOMAIN InitPermissions : \E h \in Held : h[2] = InitPermissions[p].scope
    BY <2>1 DEF Held
  <2>4. QED
    BY <2>2, <2>3
<1>4. /\ DOMAIN users = DOMAIN InitUsers
      /\ Owners = [s \in DOMAIN InitSessions |-> InitSessions[s].userId]
      /\ Held = {<<InitPermissions[p].userId, InitPermissions[p].scope>> :
                     p \in DOMAIN InitPermissions}
  BY DEF Owners, Held
<1>5. QED
  BY <1>1, <1>2, <1>3, <1>4 DEF Ledger!LedgerInit, Spent, Held, Owners

\* A statement on accounts or sessions is a step of the ledger.
LEMMA LedgerUsers ==
    ASSUME DatabaseTypeOK, UNCHANGED delegated,
           \/ \E u \in UserId, row \in UserRow : InsertUser(u, row) \/ UpdateUser(u, row)
           \/ \E u \in UserId : DeleteUser(u)
    PROVE  [Ledger!LedgerNext]_(Ledger!ledger)
<1> USE DEF DatabaseTypeOK, IsTable
<1>1. ASSUME NEW u \in UserId, NEW row, InsertUser(u, row) PROVE Ledger!Register(u)
  <2>1. u \notin Spent /\ Spent' = Spent \cup {u}
    BY <1>1 DEF InsertUser, Spent
  <2>2. DOMAIN users' = DOMAIN users \cup {u}
    BY <1>1 DEF InsertUser, Insert
  <2>3. QED
    BY <1>1, <2>1, <2>2 DEF Ledger!Register, InsertUser, Spent
<1>2. ASSUME NEW u \in UserId, NEW row, UpdateUser(u, row) PROVE UNCHANGED Ledger!ledger
  <2>1. DOMAIN users' = DOMAIN users
    BY <1>2 DEF UpdateUser, Insert
  <2>2. QED
    BY <1>2, <2>1 DEF UpdateUser, Ledger!ledger
<1>3. ASSUME NEW u \in UserId, DeleteUser(u) PROVE Ledger!Unregister(u)
  <2>1. DOMAIN users' = DOMAIN users \ {u}
    BY <1>3 DEF DeleteUser, Remove, Restrict
  <2>2. Owners' = Ledger!Keep({s \in DOMAIN Owners : Owners[s] # u})
    BY <1>3 DEF DeleteUser, Remove, Restrict, SessionsOf, Owners, Ledger!Keep
  <2>3. Held' = {h \in Held : h[1] # u}
    <3>1. /\ DOMAIN permissions' = {p \in DOMAIN permissions : permissions[p].userId # u}
          /\ \A p \in DOMAIN permissions' : permissions'[p] = permissions[p]
      BY <1>3 DEF DeleteUser, Remove, Restrict, PermissionsOf
    <3>2. Held' = {<<permissions[p].userId, permissions[p].scope>> : p \in DOMAIN permissions'}
      BY <3>1 DEF Held
    <3>3. QED
      BY <3>1, <3>2 DEF Held
  <2>4. issued' = issued
    BY <1>3 DEF DeleteUser
  <2>5. QED
    BY <2>1, <2>2, <2>3, <2>4 DEF Ledger!Unregister, Owners, Held
<1>4. QED
  BY <1>1, <1>2, <1>3 DEF Ledger!LedgerNext

LEMMA LedgerSessions ==
    ASSUME DatabaseTypeOK, UNCHANGED delegated,
           \/ \E S \in SUBSET SessionId : DeleteSessions(S)
           \/ \E s \in SessionId, row \in SessionRow : ReplaceExpired(s, row)
           \/ \E s \in SessionId : PassExpiry(s)
    PROVE  [Ledger!LedgerNext]_(Ledger!ledger)
<1> USE DEF DatabaseTypeOK, IsTable
<1>0. DOMAIN Owners = DOMAIN sessions
  BY DEF Owners
<1>1. ASSUME NEW S \in SUBSET SessionId, DeleteSessions(S) PROVE Ledger!LedgerNext
  <2>1. PICK K : K = DOMAIN sessions \ S
    OBVIOUS
  <2>2. Owners' = Ledger!Keep(K)
    BY <1>1, <2>1 DEF DeleteSessions, Remove, Restrict, Owners, Ledger!Keep
  <2>3. Ledger!Close(K)
    BY <1>1, <2>2 DEF Ledger!Close, DeleteSessions, Owners
  <2>4. K \in SUBSET DOMAIN Owners
    BY <1>0, <2>1
  <2>5. QED
    BY <2>3, <2>4, LedgerClose
<1>2. ASSUME NEW s \in SessionId, NEW row \in SessionRow, ReplaceExpired(s, row)
      PROVE  Ledger!LedgerNext
  <2>1. s \notin Spent /\ Spent' = Spent \cup {s}
    BY <1>2 DEF ReplaceExpired, Spent
  <2>2. PICK K : K = DOMAIN sessions \ ExpiredSessions
    OBVIOUS
  <2>3. PICK u \in UserId : u = row.userId
    BY DEF SessionRow
  <2>4. Owners' = [t \in DOMAIN Ledger!Keep(K) \cup {s} |-> IF t = s THEN u ELSE Owners[t]]
    BY <1>2, <2>2, <2>3 DEF ReplaceExpired, Insert, Remove, Restrict, Owners, Ledger!Keep
  <2>5. u \in DOMAIN users /\ UNCHANGED <<DOMAIN users, Held, delegated>>
    BY <1>2, <2>3 DEF ReplaceExpired, Held
  <2>6. Ledger!Open(s, u, K)
    BY <2>1, <2>4, <2>5 DEF Ledger!Open, Owners, Spent, Held
  <2>7. K \in SUBSET DOMAIN Owners
    BY <1>0, <2>2
  <2>8. QED
    BY <2>6, <2>7, LedgerOpen
<1>3. ASSUME NEW s \in SessionId, PassExpiry(s) PROVE UNCHANGED Ledger!ledger
  <2>1. Owners' = Owners
    BY <1>3 DEF PassExpiry, Owners, SessionRow
  <2>2. QED
    BY <1>3, <2>1 DEF PassExpiry, Ledger!ledger, Owners
<1>4. QED
  BY <1>1, <1>2, <1>3

\* Removing a row withdraws the grant, since no other row holds it.
LEMMA LedgerWithdraws ==
    ASSUME DatabaseTypeOK, OneRowPerGrant, UNCHANGED delegated,
           NEW p \in PermissionId, DeletePermission(p)
    PROVE  [Ledger!LedgerNext]_(Ledger!ledger)
<1>0. PICK h : h = <<permissions[p].userId, permissions[p].scope>>
  OBVIOUS
<1>1. p \in DOMAIN permissions /\ h \in Held
  BY <1>0 DEF DeletePermission, Held
<1>2. Held' = Held \ {h}
  <2>1. /\ DOMAIN permissions' = DOMAIN permissions \ {p}
        /\ \A q \in DOMAIN permissions' : permissions'[q] = permissions[q]
    BY DEF DeletePermission, Remove, Restrict
  <2>2. \A q \in DOMAIN permissions :
            <<permissions[q].userId, permissions[q].scope>> = h => q = p
    <3> SUFFICES ASSUME NEW q \in DOMAIN permissions,
                        permissions[q].userId = permissions[p].userId,
                        permissions[q].scope = permissions[p].scope
                 PROVE  q = p
      BY <1>0
    <3>1. QED
      BY <1>1 DEF OneRowPerGrant
  <2>3. Held' = {<<permissions[q].userId, permissions[q].scope>> : q \in DOMAIN permissions'}
    BY <2>1 DEF Held
  <2>4. QED
    BY <1>0, <2>1, <2>2, <2>3 DEF Held
<1>3. Ledger!Withdraw(h)
  BY <1>2 DEF Ledger!Withdraw, Held, DeletePermission
<1>4. QED
  BY <1>1, <1>3, LedgerWithdraw

\* A permission that a request adds is one the ledger lets it add.
LEMMA LedgerGrants ==
    ASSUME Consistent, GrantsAllowed, NEW r \in Request, AddPermission(r)
    PROVE  Ledger!LedgerNext
<1> USE DEF Consistent
<1> DEFINE c == requests[r].call
           row == [userId |-> c.target, scope |-> c.scope]
<1>1. At(r, "write") /\ Op(r) = "addPermission"
  BY DEF AddPermission, Writing
<1>2. PICK p \in PermissionId : InsertPermission(p, row)
  BY DEF AddPermission
<1>3. c.scope \in Scope
  BY <1>1, CallType, UnsetAssumption DEF At, Op, Call, WellFormed
<1>4. c.target \in DOMAIN users /\ c.target \in UserId
  BY <1>2 DEF InsertPermission, TypeOK, DatabaseTypeOK, IsTable
<1>5. Held' = Held \cup {<<c.target, c.scope>>}
  <2>1. /\ DOMAIN permissions' = DOMAIN permissions \cup {p} /\ p \notin DOMAIN permissions
        /\ permissions'[p] = row
        /\ \A q \in DOMAIN permissions : permissions'[q] = permissions[q]
    BY <1>2 DEF InsertPermission, Insert, TypeOK, DatabaseTypeOK
  <2>2. permissions'[p].userId = c.target /\ permissions'[p].scope = c.scope
    BY <2>1
  <2>3. QED
    BY <2>1, <2>2 DEF Held
<1>6. /\ UNCHANGED <<users, sessions>> /\ Spent' = Spent
  BY <1>2, KeyAssumption DEF InsertPermission, Spent
<1>7. CASE requests[r].role = "ADMIN"
  <2>1. delegated' = delegated \cup {c.scope}
    BY <1>7 DEF AddPermission
  <2>2. PICK u \in UserId, scope \in Scope : u = c.target /\ scope = c.scope
    BY <1>3, <1>4
  <2>3. Ledger!GrantByAdmin(u, scope)
    BY <1>4, <1>5, <1>6, <2>1, <2>2 DEF Ledger!GrantByAdmin, Held, Spent
  <2>4. QED
    BY <2>3, LedgerGrant
<1>8. CASE requests[r].role # "ADMIN"
  <2>1. delegated' = delegated
    BY <1>8 DEF AddPermission
  <2>2. \E d \in delegated \ RootScope : <<c.scope, d>> \in Within
    BY <1>1, <1>8 DEF GrantsAllowed, Contained
  <2>3. PICK u \in UserId, scope \in Scope : u = c.target /\ scope = c.scope
    BY <1>3, <1>4
  <2>4. Ledger!Delegate(u, scope)
    BY <1>4, <1>5, <1>6, <2>1, <2>2, <2>3 DEF Ledger!Delegate, Held, Spent
  <2>5. QED
    BY <2>4, LedgerGrant
<1>9. QED
  BY <1>7, <1>8

\* Every step of the server is one of the ledger, or none.
LEMMA LedgerStep ==
    ASSUME Consistent, OneRowPerGrant, GrantsAllowed, [Next]_vars
    PROVE  [Ledger!LedgerNext]_(Ledger!ledger)
<1> USE DEF Consistent
<1>1. CASE \E r \in Request : AddPermission(r)
  BY <1>1, LedgerGrants
<1>2. CASE ~\E r \in Request : AddPermission(r)
  <2>1. UNCHANGED delegated
    BY <1>2, ChangesOf
  <2>2. [DatabaseNext]_dbVars
    BY DatabaseStep
  <2>3. UNCHANGED permissions \/ (\E p \in PermissionId : DeletePermission(p))
                              \/ (\E u \in UserId : DeleteUser(u))
    <3>1. ASSUME NEW r \in Request, Delete(r) PROVE \E u \in UserId : DeleteUser(u)
      BY <3>1 DEF Delete, DeleteUser, TypeOK, DatabaseTypeOK, IsTable
    <3>2. ASSUME NEW r \in Request, RemovePermission(r)
          PROVE  \E p \in PermissionId : DeletePermission(p)
      BY <3>2 DEF RemovePermission, DeletePermission, TypeOK, DatabaseTypeOK, IsTable
    <3>3. QED
      BY <1>2, <3>1, <3>2, ChangesOf
  <2>4. CASE UNCHANGED <<users, sessions, permissions, issued>>
    BY <2>1, <2>4 DEF Ledger!ledger
  <2>5. ASSUME NEW p \in PermissionId, NEW row, InsertPermission(p, row) PROVE FALSE
    <3>1. p \in DOMAIN permissions' /\ p \notin DOMAIN permissions
      BY <2>5 DEF InsertPermission, Insert, TypeOK, DatabaseTypeOK
    <3>2. QED
      BY <2>3, <3>1 DEF DeletePermission, DeleteUser, Remove, Restrict
  <2>6. QED
    BY <2>1, <2>2, <2>4, <2>5, LedgerUsers, LedgerSessions, LedgerWithdraws
    DEF DatabaseNext, dbVars, InsertAudit, TypeOK
<1>3. QED
  BY <1>1, <1>2

\* The server implements the ledger: whatever its requests do, a session is
\* opened once and for an account that exists, an account removed leaves
\* nothing behind, and a grant is one that an administrator made or that lies
\* within one (every statement of AuthService and UserService).
THEOREM PortalImplementsLedger == Spec => ImplementsLedger
<1> DEFINE Inv == GrantsAllowed /\ DelegationBounded
<1>1. Init => Inv
  BY GrantsInit
<1>2. Consistent /\ Inv /\ [Next]_vars => Inv'
  BY GrantsStep, BoundedStep
<1>3. Consistent /\ OneRowPerGrant /\ Inv /\ [Next]_vars => [Ledger!LedgerNext]_(Ledger!ledger)
  BY LedgerStep
<1>4. QED
  BY <1>1, <1>2, <1>3, LedgerStarts, GrantsStayUnique, Consistency, PTL
  DEF Spec, ImplementsLedger, Ledger!LedgerSpec
=============================================================================
