--------------------------- MODULE LifecycleProofs ---------------------------
(***************************************************************************)
(* What Lifecycle promises, for any number of bootstrap runs, addresses,   *)
(* requests, migrations and attempts.                                      *)
(***************************************************************************)
EXTENDS Lifecycle, TLAPS

\* A run that may try again has an attempt left.
AttemptsLeft ==
    \A b \in Boot : boot[b].stage = "migrate" => boot[b].attempt < MaxAttempts

\* How far the schema and the accounts are, by how far each run is.
RunsAgree ==
    \A b \in Boot :
        /\ boot[b].stage \in {"admin", "email", "create", "ok"} => mysql.applied = Migrations
        /\ boot[b].stage = "ok" => hadAdmin
        /\ boot[b].stage \in {"email", "create"} => Admins = {} \/ b \in raced

\* And by how far the API is: in development it started on a finished db-init.
ApiAgrees ==
    /\ api.stage \in {"build", "binding", "listening"} => mysql.applied = Migrations
    /\ ~production /\ api.stage # "created" => mysql.applied = Migrations /\ hadAdmin
    /\ api.stage = "created" => ~api.closing

HistoryAgrees == Admins # {} => hadAdmin

Coherent ==
    /\ TypeOK /\ AttemptsLeft /\ RunsAgree /\ ApiAgrees /\ HistoryAgrees

-----------------------------------------------------------------------------
LEMMA InitCoherent == Init => Coherent
  <1> SUFFICES ASSUME Init PROVE Coherent
    OBVIOUS
  <1> USE LifecycleAssumption DEF Init
  <1>1. TypeOK
    <2>1. boot \in [Boot -> BootState] /\ api \in ApiState
      BY DEF BootState, Started, ApiState, Process
    <2>2. hadAdmin \in BOOLEAN /\ raced \subseteq Boot
      OBVIOUS
    <2>3. mysql \in [up: BOOLEAN, applied: 0..Migrations, broken: BOOLEAN]
      OBVIOUS
    <2> QED
      BY <2>1, <2>2, <2>3 DEF TypeOK
  <1>2. AttemptsLeft /\ RunsAgree
    BY DEF AttemptsLeft, RunsAgree
  <1>3. ApiAgrees /\ HistoryAgrees
    BY DEF ApiAgrees, HistoryAgrees, Process
  <1> QED
    BY <1>1, <1>2, <1>3 DEF Coherent

\* A migration never takes anything back.
LEMMA MigrationsGrow ==
  ASSUME TypeOK, MigrateDone \/ MigrateFails
  PROVE  /\ mysql' \in [up: BOOLEAN, applied: 0..Migrations, broken: BOOLEAN]
         /\ mysql.applied = Migrations => mysql'.applied = Migrations
         /\ MigrateDone => mysql'.applied = Migrations
  <1> USE LifecycleAssumption DEF TypeOK
  <1>1. CASE MigrateDone
    BY <1>1 DEF MigrateDone
  <1>2. CASE mysql' = mysql
    BY <1>2 DEF MigrateDone
  <1>3. ASSUME NEW k \in mysql.applied..Migrations, NEW broken \in BOOLEAN,
               mysql' = [mysql EXCEPT !.applied = k, !.broken = broken]
        PROVE  /\ mysql' \in [up: BOOLEAN, applied: 0..Migrations, broken: BOOLEAN]
               /\ mysql.applied = Migrations => mysql'.applied = Migrations
               /\ mysql'.applied = k
    <2>1. k \in 0..Migrations /\ mysql.applied \in 0..Migrations
      OBVIOUS
    <2>2. mysql' = [up |-> mysql.up, applied |-> k, broken |-> broken]
      BY <1>3
    <2>3. mysql.applied = Migrations => k = Migrations
      BY <2>1
    <2> QED
      BY <2>1, <2>2, <2>3
  <1>4. CASE MigrateFails /\ ~MigrateDone
    BY <1>2, <1>3, <1>4 DEF MigrateFails
  <1> QED
    BY <1>1, <1>4

\* What a change of roles does to the history, and to the runs it overtakes.
LEMMA WritesAgree ==
  ASSUME TypeOK, HistoryAgrees, NEW table \in [Email -> {"ADMIN", "VIEWER", None}],
         NEW actor, Writes(table, actor)
  PROVE  /\ accounts' \in [Email -> {"ADMIN", "VIEWER", None}]
         /\ hadAdmin' \in BOOLEAN /\ raced' \subseteq Boot
         /\ hadAdmin => hadAdmin'
         /\ HistoryAgrees'
         /\ \A b \in Boot \ {actor} :
               boot[b].stage \in {"email", "create"} /\ (Admins = {} \/ b \in raced)
                   => Admins' = {} \/ b \in raced'
  <1>1. accounts' = table
    BY DEF Writes
  <1>2. hadAdmin' = (hadAdmin \/ Admins' # {})
    BY DEF Writes
  <1>3. raced' = IF Admins' \subseteq Admins THEN raced
                 ELSE raced \cup {b \in Boot \ {actor} : boot[b].stage \in {"email", "create"}}
    BY DEF Writes
  <1> QED
    BY <1>1, <1>2, <1>3 DEF TypeOK, HistoryAgrees

\* Nothing that a run of the script agrees with changes while nobody writes.
LEMMA RestKeeps ==
  ASSUME HistoryAgrees, Rests
  PROVE  /\ HistoryAgrees' /\ Admins' = Admins
         /\ hadAdmin' = hadAdmin /\ raced' = raced /\ accounts' = accounts
  BY DEF HistoryAgrees, Rests, Admins

-----------------------------------------------------------------------------
LEMMA TurnsKeeps == ASSUME Coherent, Turns PROVE Coherent'
  <1> USE DEF Coherent, Turns
  <1>1. TypeOK'
    BY DEF TypeOK
  <1>2. AttemptsLeft'
    BY DEF AttemptsLeft
  <1>3. RunsAgree' /\ ApiAgrees' /\ HistoryAgrees'
    BY DEF TypeOK, RunsAgree, ApiAgrees, HistoryAgrees, Admins
  <1> QED
    BY <1>1, <1>2, <1>3

LEMMA StartKeeps ==
  ASSUME Coherent, NEW b \in Boot, Start(b)
  PROVE  Coherent'
  <1> USE LifecycleAssumption DEF Coherent, Start, Leaves
  <1>1. TypeOK'
    BY DEF TypeOK, BootState, Started
  <1>2. AttemptsLeft'
    BY DEF AttemptsLeft, TypeOK
  <1>3. RunsAgree'
    BY DEF RunsAgree, TypeOK, Admins
  <1>4. ApiAgrees' /\ HistoryAgrees'
    BY DEF ApiAgrees, HistoryAgrees, Admins
  <1> QED
    BY <1>1, <1>2, <1>3, <1>4

LEMMA MigrateKeeps ==
  ASSUME Coherent, NEW b \in Boot, Migrate(b)
  PROVE  Coherent'
  <1> USE LifecycleAssumption DEF Coherent, Leaves
  <1>1. TypeOK /\ (MigrateDone \/ MigrateFails) /\ Rests
    BY DEF Migrate
  <1>2. /\ mysql' \in [up: BOOLEAN, applied: 0..Migrations, broken: BOOLEAN]
        /\ mysql.applied = Migrations => mysql'.applied = Migrations
        /\ MigrateDone => mysql'.applied = Migrations
    BY <1>1, MigrationsGrow
  <1>3. /\ HistoryAgrees' /\ Admins' = Admins
        /\ hadAdmin' = hadAdmin /\ raced' = raced /\ accounts' = accounts
    BY <1>1, RestKeeps
  <1>4. UNCHANGED <<production, api>>
    BY DEF Migrate
  <1>5. boot[b].stage = "migrate" /\ boot[b].attempt < MaxAttempts /\ boot[b] \in BootState
    BY DEF Migrate, AttemptsLeft, TypeOK
  <1>6. PICK s \in BootState :
            /\ boot' = [boot EXCEPT ![b] = s]
            /\ s.stage \in {"admin", "migrate", "failed"}
            /\ s.stage = "admin" => mysql'.applied = Migrations
            /\ s.stage = "migrate" => s.attempt < MaxAttempts
    <2>1. CASE MigrateDone /\ Reaches(b, "admin")
      <3>1. boot' = [boot EXCEPT ![b] = [boot[b] EXCEPT !.stage = "admin"]]
        BY <2>1 DEF Reaches
      <3>2. [boot[b] EXCEPT !.stage = "admin"] \in BootState
        BY <1>5 DEF BootState, Started
      <3> QED
        BY <1>2, <1>5, <2>1, <3>1, <3>2 DEF BootState
    <2>2. CASE boot' = [boot EXCEPT ![b] = AfterFailure(b)]
      <3>1. AfterFailure(b) \in BootState
        BY <1>5 DEF AfterFailure, BootState, Started
      <3>2. /\ AfterFailure(b).stage \in {"migrate", "failed"}
            /\ AfterFailure(b).stage = "migrate" => AfterFailure(b).attempt < MaxAttempts
        BY DEF AfterFailure
      <3> QED
        BY <2>2, <3>1, <3>2
    <2> QED
      BY <2>1, <2>2 DEF Migrate
  <1>7. TypeOK'
    BY <1>2, <1>3, <1>4, <1>6 DEF TypeOK
  <1>8. AttemptsLeft'
    BY <1>6 DEF AttemptsLeft, TypeOK
  <1>9. RunsAgree'
    BY <1>2, <1>3, <1>6 DEF RunsAgree, TypeOK
  <1>10. ApiAgrees'
    BY <1>2, <1>3, <1>4 DEF ApiAgrees
  <1> QED
    BY <1>3, <1>7, <1>8, <1>9, <1>10

\* A run moves on to stage s without touching the schema.
LEMMA ReachKeeps ==
  ASSUME Coherent, NEW b \in Boot, NEW s \in Started \cup {"ok", "failed"},
         s # "migrate", Reaches(b, s), Leaves, Rests, UNCHANGED mysql,
         s = "failed" \/ mysql.applied = Migrations,
         s = "ok" => hadAdmin,
         s \in {"email", "create"} => Admins = {} \/ b \in raced
  PROVE  Coherent'
  <1> USE DEF Coherent, Leaves
  <1>1. /\ HistoryAgrees' /\ Admins' = Admins
        /\ hadAdmin' = hadAdmin /\ raced' = raced /\ accounts' = accounts
    BY RestKeeps
  <1>2. boot' = [boot EXCEPT ![b] = [boot[b] EXCEPT !.stage = s]]
    BY DEF Reaches
  <1>3. [boot[b] EXCEPT !.stage = s] \in BootState
    BY DEF TypeOK, BootState
  <1>4. TypeOK'
    BY <1>1, <1>2, <1>3 DEF TypeOK
  <1>5. AttemptsLeft'
    BY <1>2, <1>3 DEF AttemptsLeft, TypeOK, BootState
  <1>6. RunsAgree'
    BY <1>1, <1>2, <1>3 DEF RunsAgree, TypeOK, BootState
  <1>7. ApiAgrees'
    BY <1>1 DEF ApiAgrees
  <1> QED
    BY <1>1, <1>4, <1>5, <1>6, <1>7

LEMMA FindKeeps ==
  ASSUME Coherent, NEW b \in Boot, FindAdmin(b) \/ FindEmail(b) \/ BootFails(b)
  PROVE  Coherent'
  <1>1. CASE FindAdmin(b)
    <2>1. mysql.applied = Migrations
      BY <1>1 DEF FindAdmin, Ready
    <2>2. CASE Admins # {}
      BY <1>1, <2>1, <2>2, ReachKeeps DEF FindAdmin, AdminFound, Coherent, HistoryAgrees, Started
    <2>3. CASE Admins = {}
      BY <1>1, <2>1, <2>3, ReachKeeps DEF FindAdmin, AdminFound, Started
    <2> QED
      BY <2>2, <2>3
  <1>2. CASE FindEmail(b)
    <2>1. mysql.applied = Migrations /\ boot[b].stage = "email"
      BY <1>2 DEF FindEmail, Ready
    <2>2. Admins = {} \/ b \in raced
      BY <2>1 DEF Coherent, RunsAgree
    <2>3. PICK s \in {"failed", "create"} : Reaches(b, s)
      BY <1>2 DEF FindEmail, EmailTaken
    <2> QED
      BY <1>2, <2>1, <2>2, <2>3, ReachKeeps DEF FindEmail, Started
  <1>3. CASE BootFails(b)
    BY <1>3, ReachKeeps DEF BootFails
  <1> QED
    BY <1>1, <1>2, <1>3

LEMMA CreateKeeps ==
  ASSUME Coherent, NEW b \in Boot, Create(b)
  PROVE  Coherent'
  <1> DEFINE table == [accounts EXCEPT ![EmailOf[b]] = "ADMIN"]
  <1> USE DEF Coherent, Leaves
  <1>1. mysql.applied = Migrations /\ boot[b].stage = "create" /\ mysql' = mysql
    BY DEF Create, Ready
  <1>2. UNCHANGED <<production, api>>
    BY DEF Create
  <1>3. PICK s \in {"ok", "failed"} : boot' = [boot EXCEPT ![b] = [boot[b] EXCEPT !.stage = s]]
    BY DEF Create, Reaches
  <1>4. [boot[b] EXCEPT !.stage = s] \in BootState
    BY DEF TypeOK, BootState
  <1>5. Writes(table, b) /\ accounts' = table
    BY DEF Create, Inserts, Writes
  <1>6. table \in [Email -> {"ADMIN", "VIEWER", None}] /\ EmailOf[b] \in Email
    BY LifecycleAssumption DEF TypeOK
  <1>7. /\ accounts' \in [Email -> {"ADMIN", "VIEWER", None}]
        /\ hadAdmin' \in BOOLEAN /\ raced' \subseteq Boot
        /\ hadAdmin => hadAdmin'
        /\ HistoryAgrees'
        /\ \A c \in Boot \ {b} :
              boot[c].stage \in {"email", "create"} /\ (Admins = {} \/ c \in raced)
                  => Admins' = {} \/ c \in raced'
    <2> HIDE DEF table
    <2> QED
      BY <1>5, <1>6, WritesAgree
  <1>8. hadAdmin'
    <2>1. EmailOf[b] \in Admins'
      BY <1>5, <1>6 DEF Admins, TypeOK
    <2> QED
      BY <1>7, <2>1 DEF HistoryAgrees
  <1>9. TypeOK'
    BY <1>1, <1>2, <1>3, <1>4, <1>7 DEF TypeOK
  <1>10. AttemptsLeft'
    BY <1>3, <1>4 DEF AttemptsLeft, TypeOK, BootState
  <1>11. RunsAgree'
    <2> SUFFICES ASSUME NEW c \in Boot
                 PROVE  /\ boot'[c].stage \in {"admin", "email", "create", "ok"} => mysql'.applied = Migrations
                        /\ boot'[c].stage = "ok" => hadAdmin'
                        /\ boot'[c].stage \in {"email", "create"} => Admins' = {} \/ c \in raced'
      BY DEF RunsAgree
    <2>1. CASE c = b
      BY <1>1, <1>3, <1>4, <1>8, <2>1 DEF TypeOK, BootState
    <2>2. CASE c # b
      <3>1. boot'[c] = boot[c]
        BY <1>3, <2>2 DEF TypeOK
      <3> QED
        BY <1>1, <1>7, <1>8, <2>2, <3>1 DEF RunsAgree
    <2> QED
      BY <2>1, <2>2
  <1>12. ApiAgrees'
    BY <1>1, <1>2, <1>7 DEF ApiAgrees
  <1> QED
    BY <1>7, <1>9, <1>10, <1>11, <1>12

LEMMA PortalWritesKeeps == ASSUME Coherent, PortalWrites PROVE Coherent'
  <1> USE DEF Coherent
  <1>1. PICK e \in Email, role \in {"ADMIN", "VIEWER", None} :
            Writes([accounts EXCEPT ![e] = role], None)
    BY DEF PortalWrites
  <1>2. UNCHANGED <<production, mysql, boot, api>>
    BY DEF PortalWrites
  <1>3. [accounts EXCEPT ![e] = role] \in [Email -> {"ADMIN", "VIEWER", None}]
    BY DEF TypeOK
  <1>4. /\ accounts' \in [Email -> {"ADMIN", "VIEWER", None}]
        /\ hadAdmin' \in BOOLEAN /\ raced' \subseteq Boot
        /\ hadAdmin => hadAdmin'
        /\ HistoryAgrees'
        /\ \A b \in Boot \ {None} :
              boot[b].stage \in {"email", "create"} /\ (Admins = {} \/ b \in raced)
                  => Admins' = {} \/ b \in raced'
    BY <1>1, <1>3, WritesAgree
  <1>5. TypeOK'
    BY <1>2, <1>4 DEF TypeOK
  <1>6. AttemptsLeft' /\ ApiAgrees'
    BY <1>2, <1>4 DEF AttemptsLeft, ApiAgrees
  <1>7. RunsAgree'
    BY <1>2, <1>4, LifecycleAssumption DEF RunsAgree
  <1> QED
    BY <1>4, <1>5, <1>6, <1>7

\* A step of the API alone: what it may do to the schema and its stage.
LEMMA ApiKeeps ==
  ASSUME Coherent, Rests, UNCHANGED <<production, boot>>,
         api' \in ApiState,
         mysql' \in [up: BOOLEAN, applied: 0..Migrations, broken: BOOLEAN],
         mysql.applied = Migrations => mysql'.applied = Migrations,
         api'.stage \in {"build", "binding", "listening"} =>
             mysql'.applied = Migrations,
         ~production /\ api'.stage # "created" => mysql.applied = Migrations /\ hadAdmin,
         api'.stage = "created" => ~api'.closing
  PROVE  Coherent'
  <1> USE DEF Coherent
  <1>1. /\ HistoryAgrees' /\ Admins' = Admins
        /\ hadAdmin' = hadAdmin /\ raced' = raced /\ accounts' = accounts
    BY RestKeeps
  <1>2. TypeOK'
    BY <1>1 DEF TypeOK
  <1>3. AttemptsLeft' /\ RunsAgree' /\ ApiAgrees'
    BY <1>1 DEF AttemptsLeft, RunsAgree, ApiAgrees
  <1> QED
    BY <1>1, <1>2, <1>3

\* The API goes on with the same schema, to a stage that asks for no more.
LEMMA GoesOnKeeps ==
  ASSUME Coherent, Rests, UNCHANGED <<production, boot, mysql>>,
         api' \in ApiState,
         api'.stage # "created" => api.stage # "created",
         api'.stage = "created" => ~api'.closing,
         api'.stage \in {"build", "binding", "listening"} =>
             api.stage \in {"build", "binding", "listening"}
  PROVE  Coherent'
  <1> USE DEF Coherent
  <1>1. mysql' \in [up: BOOLEAN, applied: 0..Migrations, broken: BOOLEAN] /\ mysql' = mysql
    BY DEF TypeOK
  <1> QED
    BY <1>1, ApiKeeps DEF ApiAgrees

\* The process ends and its container starts again.
LEMMA ExitsKeep ==
  ASSUME Coherent, Rests, UNCHANGED <<production, boot>>,
         api.stage # "created",
         Exits,
         mysql' \in [up: BOOLEAN, applied: 0..Migrations, broken: BOOLEAN],
         mysql.applied = Migrations => mysql'.applied = Migrations
  PROVE  Coherent'
  <1> USE DEF Coherent
  <1>1. api' \in ApiState /\ api'.stage = "entry"
    BY DEF Exits, Process, ApiState
  <1> QED
    BY <1>1, ApiKeeps DEF ApiAgrees

LEMMA StartingKeeps ==
  ASSUME Coherent, ApiStart \/ Entry \/ BuildApp \/ Listen \/ StayOff
  PROVE  Coherent'
  <1> USE DEF Coherent, Goes, Else
  <1>0. /\ api \in ApiState
        /\ mysql \in [up: BOOLEAN, applied: 0..Migrations, broken: BOOLEAN]
    BY DEF TypeOK
  <1>1. CASE ApiStart
    <2>1. api' \in ApiState /\ api'.stage = "entry"
      BY <1>0, <1>1 DEF ApiStart, ApiState
    <2>2. ~production => mysql.applied = Migrations /\ hadAdmin
      BY <1>1, LifecycleAssumption DEF ApiStart, RunsAgree, ApiAgrees
    <2> QED
      BY <1>0, <1>1, <2>1, <2>2, ApiKeeps DEF ApiStart
  <1>2. CASE Entry
    <2>1. api.stage = "entry" /\ Rests /\ UNCHANGED <<production, boot>>
      BY <1>2 DEF Entry
    <2>2. CASE ~production /\ Goes("build") /\ UNCHANGED mysql
      <3>1. api' \in ApiState /\ api'.stage = "build"
        BY <1>0, <2>2 DEF ApiState
      <3>2. mysql.applied = Migrations /\ hadAdmin
        BY <2>1, <2>2 DEF ApiAgrees
      <3> QED
        BY <1>0, <2>1, <2>2, <3>1, <3>2, ApiKeeps
    <2>3. CASE production /\ MigrateDone /\ Goes("build")
      <3>1. api' \in ApiState /\ api'.stage = "build"
        BY <1>0, <2>3 DEF ApiState
      <3>2. /\ mysql' \in [up: BOOLEAN, applied: 0..Migrations, broken: BOOLEAN]
            /\ mysql'.applied = Migrations
        BY <2>3, MigrationsGrow
      <3> QED
        BY <1>0, <2>1, <2>3, <3>1, <3>2, ApiKeeps
    <2>4. CASE production /\ MigrateFails /\ Exits
      BY <2>1, <2>4, MigrationsGrow, ExitsKeep
    <2> QED
      BY <1>2, <2>2, <2>3, <2>4 DEF Entry
  <1>3. CASE BuildApp
    <2>1. api' \in ApiState
      BY <1>0, <1>3 DEF BuildApp, ApiState
    <2> QED
      BY <1>0, <1>3, <2>1, GoesOnKeeps DEF BuildApp, ApiState
  <1>4. CASE Listen
    <2>1. CASE Goes("listening")
      <3>1. api' \in ApiState
        BY <1>0, <2>1 DEF ApiState
      <3> QED
        BY <1>0, <1>4, <2>1, <3>1, GoesOnKeeps DEF Listen, ApiState
    <2>2. CASE Exits
      BY <1>0, <1>4, <2>2, ExitsKeep DEF Listen
    <2> QED
      BY <1>4, <2>1, <2>2 DEF Listen
  <1>5. CASE StayOff
    <2>1. api' \in ApiState
      BY <1>0, <1>5 DEF StayOff, ApiState
    <2> QED
      BY <1>0, <1>5, <2>1, GoesOnKeeps DEF StayOff, ApiState
  <1> QED
    BY <1>1, <1>2, <1>3, <1>4, <1>5

LEMMA RequestsKeep ==
  ASSUME Coherent, NEW r \in Request, Accept(r) \/ Finish(r)
  PROVE  Coherent'
  <1>1. api \in ApiState
    BY DEF Coherent, TypeOK
  <1>2. CASE Accept(r)
    <2>1. api' \in ApiState /\ api'.stage = "listening"
      BY <1>1, <1>2 DEF Accept, ApiState
    <2> QED
      BY <1>2, <2>1, GoesOnKeeps DEF Accept, Else
  <1>3. CASE Finish(r)
    <2>1. api' \in ApiState /\ api'.stage = api.stage /\ api'.closing = api.closing
      BY <1>1, <1>3 DEF Finish, ApiState
    <2> QED
      BY <1>3, <2>1, GoesOnKeeps DEF Finish, Else, Coherent, ApiAgrees
  <1> QED
    BY <1>2, <1>3

LEMMA EndingKeeps ==
  ASSUME Coherent, (\E s \in Signal : Signalled(s)) \/ Closed \/ TimerFires \/ Crash
  PROVE  Coherent'
  <1>1. /\ api \in ApiState
        /\ mysql \in [up: BOOLEAN, applied: 0..Migrations, broken: BOOLEAN]
    BY DEF Coherent, TypeOK
  <1>2. ASSUME NEW s \in Signal, Signalled(s)
        PROVE  Coherent'
    <2>1. Runs /\ Rests /\ UNCHANGED <<production, mysql, boot>>
      BY <1>2 DEF Signalled
    <2>2. CASE Exits
      BY <1>1, <2>1, <2>2, ExitsKeep DEF Runs
    <2>3. CASE api' = [api EXCEPT !.handled = @ \ {s}, !.closing = TRUE]
      <3>1. api' \in ApiState /\ api'.stage = api.stage
        BY <1>1, <2>3 DEF ApiState
      <3> QED
        BY <2>1, <2>3, <3>1, GoesOnKeeps DEF Runs
    <2> QED
      BY <1>2, <2>2, <2>3 DEF Signalled
  <1>3. CASE Closed \/ TimerFires
    <2>1. /\ api.closing /\ Rests /\ UNCHANGED <<production, mysql, boot>>
          /\ Exits
      BY <1>3 DEF Closed, TimerFires, TimerSet
    <2>2. api.stage # "created"
      BY <2>1 DEF Coherent, ApiAgrees
    <2> QED
      BY <1>1, <2>1, <2>2, ExitsKeep
  <1>4. CASE Crash
    BY <1>1, <1>4, ExitsKeep DEF Crash, Runs
  <1> QED
    BY <1>2, <1>3, <1>4

LEMMA NextKeeps == Coherent /\ [Next]_vars => Coherent'
  <1> SUFFICES ASSUME Coherent, [Next]_vars PROVE Coherent'
    OBVIOUS
  <1>1. CASE Turns
    BY <1>1, TurnsKeeps
  <1>2. CASE \E b \in Boot : Start(b) \/ BootStep(b)
    BY <1>2, StartKeeps, MigrateKeeps, FindKeeps, CreateKeeps DEF BootStep
  <1>3. CASE ApiStart \/ Entry \/ BuildApp \/ Listen \/ StayOff
    BY <1>3, StartingKeeps
  <1>4. CASE \E r \in Request : Accept(r) \/ Finish(r)
    BY <1>4, RequestsKeep
  <1>5. CASE PortalWrites
    BY <1>5, PortalWritesKeeps
  <1>6. CASE (\E s \in Signal : Signalled(s)) \/ Closed \/ TimerFires \/ Crash
    BY <1>6, EndingKeeps
  <1>7. CASE UNCHANGED vars
    BY <1>7 DEF vars, Coherent, TypeOK, AttemptsLeft, RunsAgree, ApiAgrees, HistoryAgrees,
                Admins
  <1> QED
    BY <1>1, <1>2, <1>3, <1>4, <1>5, <1>6, <1>7 DEF Next

-----------------------------------------------------------------------------
\* The inductive invariant: how far schema, accounts and history are by how far
\* the runs of the script and the API are.
THEOREM Coherence == Spec => []Coherent
  BY InitCoherent, NextKeeps, PTL DEF Spec

\* Every variable keeps its type; db-init never exceeds its attempts.
THEOREM LifecycleTypeCorrect == Spec => []TypeOK
  BY Coherence, PTL DEF Coherent

\* The API takes no request before the migrations, and in development an
\* administrator, are there.
THEOREM SetUpFirst == Spec => []SetUpBeforeServing
  <1>1. Coherent => SetUpBeforeServing
    BY DEF Coherent, ApiAgrees, SetUpBeforeServing
  <1> QED
    BY <1>1, Coherence, PTL

\* No step of a bootstrap run changes the role of an account that is there.
THEOREM BootstrapSparesAccounts == Spec => BootstrapNeverResets
  <1>1. Coherent /\ [Next]_vars =>
          [boot' # boot => \A e \in Email : accounts[e] # None => accounts'[e] = accounts[e]]_vars
    <2> SUFFICES ASSUME Coherent, Next, boot' # boot,
                        NEW e \in Email, accounts[e] # None
                 PROVE  accounts'[e] = accounts[e]
      OBVIOUS
    <2>1. PICK b \in Boot : Start(b) \/ BootStep(b)
      BY DEF Next, Turns, ApiStart, Entry, BuildApp, Listen, Accept, Finish, PortalWrites,
             Signalled, Closed, TimerFires, Crash, StayOff, Else
    <2>2. CASE Create(b)
      BY <2>2 DEF Create, Inserts, Writes, Coherent, TypeOK
    <2>3. CASE ~Create(b)
      BY <2>1, <2>3 DEF BootStep, Start, Migrate, FindAdmin, FindEmail, BootFails, Rests
    <2> QED
      BY <2>2, <2>3
  <1> QED
    BY <1>1, Coherence, PTL DEF Spec, BootstrapNeverResets

\* A run creates a second administrator only if another actor made the first
\* one after this run had found none.
THEOREM OneAdminWithoutARace == Spec => SecondOnlyByRace
  <1>1. Coherent /\ [Next]_vars =>
          [\A b \in Boot : boot[b].stage = "create" /\ boot'[b] # boot[b] /\ accounts' # accounts
              => Admins = {} \/ b \in raced]_vars
    BY DEF Coherent, RunsAgree
  <1> QED
    BY <1>1, Coherence, PTL DEF Spec, SecondOnlyByRace

\* The bootstrap changes no account that is there, and adds a second administrator
\* only in the race that BootstrapSafe names.
THEOREM BootstrapIsSafe == Spec => BootstrapSafe
BY BootstrapSparesAccounts, OneAdminWithoutARace DEF BootstrapSafe

-----------------------------------------------------------------------------
(* What comes to an end.                                                   *)

\* A shutdown is over only with the process, and its timer ends the process.
THEOREM ShutdownsEnd == FairSpec /\ []CanGoOn => ShutdownEnds
  <1>1. CanGoOn => (api.closing => ENABLED <<TimerFires>>_vars)
    BY DEF CanGoOn
  <1>2. <<TimerFires>>_vars => ~api.closing'
    BY DEF TimerFires, Exits, Process
  <1> QED
    BY <1>1, <1>2, PTL DEF FairSpec, TimerFair, ShutdownEnds

\* How far a run is within its attempt.
Progress == [migrate |-> 0, admin |-> 1, email |-> 2, create |-> 3]

\* Run b is in its attempt n, k stages on.
InAttempt(b, n, k) ==
    boot[b].stage \in Started /\ boot[b].attempt = n /\ Progress[boot[b].stage] = k

\* The attempt is over: so is the run, or the next attempt has begun.
AttemptOver(b, n) ==
    boot[b].stage \in {"ok", "failed"} \/ boot[b].attempt > n

\* A step of a run takes it to a later stage of the attempt, or ends that.
LEMMA BootStepAdvances ==
  ASSUME Coherent, NEW b \in Boot, BootStep(b),
         NEW n \in 0..MaxAttempts, NEW k \in 0..3, InAttempt(b, n, k)
  PROVE  AttemptOver(b, n)' \/ \E m \in 0..3 : m > k /\ InAttempt(b, n, m)'
  <1> USE LifecycleAssumption DEF InAttempt
  <1>1. boot \in [Boot -> BootState]
    BY DEF Coherent, TypeOK
  <1>2. ASSUME NEW stage, Reaches(b, stage)
        PROVE  boot'[b].stage = stage /\ boot'[b].attempt = n
    BY <1>1, <1>2 DEF Reaches, BootState
  <1>3. ASSUME Reaches(b, "ok") \/ Reaches(b, "failed") PROVE AttemptOver(b, n)'
    BY <1>2, <1>3 DEF AttemptOver
  <1>4. ASSUME NEW m \in 0..3, NEW stage \in Started, Progress[stage] = m, m > k,
               Reaches(b, stage)
        PROVE  \E i \in 0..3 : i > k /\ InAttempt(b, n, i)'
    BY <1>2, <1>4
  <1>5. CASE Migrate(b)
    <2>1. k = 0
      BY <1>5 DEF Migrate, Progress
    <2>2. CASE Reaches(b, "admin")
      <3>1. "admin" \in Started /\ Progress["admin"] = 1
        BY DEF Started, Progress
      <3> QED
        BY <1>4, <2>1, <2>2, <3>1
    <2>3. CASE boot' = [boot EXCEPT ![b] = AfterFailure(b)]
      <3>1. boot'[b].attempt = n + 1 /\ n \in Nat
        BY <1>1, <2>3 DEF AfterFailure
      <3> QED
        BY <3>1 DEF AttemptOver
    <2> QED
      BY <1>5, <2>2, <2>3 DEF Migrate
  <1>6. CASE FindAdmin(b)
    <2>1. k = 1
      BY <1>6 DEF FindAdmin, Progress
    <2>2. "email" \in Started /\ Progress["email"] = 2
      BY DEF Started, Progress
    <2> QED
      BY <1>3, <1>4, <1>6, <2>1, <2>2 DEF FindAdmin
  <1>7. CASE FindEmail(b)
    <2>1. k = 2
      BY <1>7 DEF FindEmail, Progress
    <2>2. "create" \in Started /\ Progress["create"] = 3
      BY DEF Started, Progress
    <2> QED
      BY <1>3, <1>4, <1>7, <2>1, <2>2 DEF FindEmail, EmailTaken
  <1>8. CASE Create(b) \/ BootFails(b)
    BY <1>3, <1>8 DEF Create, BootFails
  <1> QED
    BY <1>5, <1>6, <1>7, <1>8 DEF BootStep

\* Nobody but a run itself moves it while it is under way.
LEMMA OthersLeaveRun ==
  ASSUME Coherent, [Next]_vars, NEW b \in Boot, boot[b].stage \in Started
  PROVE  boot'[b] = boot[b] \/ BootStep(b)
  <1>1. boot \in [Boot -> BootState]
    BY DEF Coherent, TypeOK
  <1>2. ASSUME NEW c \in Boot, BootStep(c), c # b PROVE boot'[b] = boot[b]
    BY <1>1, <1>2 DEF BootStep, Migrate, FindAdmin, FindEmail, Create, BootFails, Reaches
  <1>3. ASSUME NEW c \in Boot, Start(c) PROVE boot'[b] = boot[b]
    BY <1>1, <1>3 DEF Start, Started
  <1>4. CASE ~\E c \in Boot : Start(c) \/ BootStep(c)
    BY <1>4 DEF Next, Turns, ApiStart, Entry, BuildApp, Listen, Accept, Finish, PortalWrites,
                Signalled, Closed, TimerFires, Crash, StayOff, Else, vars
  <1> QED
    BY <1>2, <1>3, <1>4

\* Stage k of attempt n is left.
StagePasses(b, n, k) ==
    InAttempt(b, n, k) ~> (AttemptOver(b, n) \/ \E m \in 0..3 : m > k /\ InAttempt(b, n, m))

\* One stage: a fair step, always possible, and no step that leads back.
LEMMA EachStagePasses ==
  ASSUME NEW b \in Boot, NEW n \in 0..MaxAttempts, NEW k \in 0..3
  PROVE  Spec /\ BootFair(b) /\ []CanGoOn => StagePasses(b, n, k)
  <1> DEFINE Later == AttemptOver(b, n) \/ \E m \in 0..3 : m > k /\ InAttempt(b, n, m)
  <1>1. CanGoOn => (InAttempt(b, n, k) => ENABLED <<BootStep(b)>>_vars)
    BY DEF CanGoOn, InAttempt
  <1>2. Coherent /\ <<BootStep(b)>>_vars => (InAttempt(b, n, k) => Later')
    BY BootStepAdvances
  <1>3. Coherent /\ [Next]_vars => (InAttempt(b, n, k) => InAttempt(b, n, k)' \/ Later')
    <2> SUFFICES ASSUME Coherent, [Next]_vars, InAttempt(b, n, k), ~BootStep(b)
                 PROVE  InAttempt(b, n, k)'
      BY BootStepAdvances
    <2> QED
      BY OthersLeaveRun DEF InAttempt
  <1> QED
    BY <1>1, <1>2, <1>3, Coherence, PTL DEF Spec, BootFair, StagePasses

\* Each attempt of each run comes to an end: with the run, or with the next
\* attempt.
EveryAttemptEnds ==
    \A b \in Boot, n \in 0..MaxAttempts :
        (boot[b].stage \in Started /\ boot[b].attempt = n) ~> AttemptOver(b, n)

\* No attempt of db-init or of any other run hangs, whatever the database, the
\* other runs and the API do (migrate deploy and bootstrap-admin.ts).
THEOREM AttemptsEnd == FairSpec /\ []CanGoOn => EveryAttemptEnds
  <1>1. SUFFICES ASSUME NEW b \in Boot, NEW n \in 0..MaxAttempts
                 PROVE  FairSpec /\ []CanGoOn =>
                        ((boot[b].stage \in Started /\ boot[b].attempt = n) ~> AttemptOver(b, n))
    BY DEF EveryAttemptEnds
  <1>2. FairSpec => Spec /\ BootFair(b)
    BY DEF FairSpec
  <1>3. Spec /\ BootFair(b) /\ []CanGoOn =>
          StagePasses(b, n, 0) /\ StagePasses(b, n, 1) /\ StagePasses(b, n, 2) /\ StagePasses(b, n, 3)
    BY EachStagePasses
  <1>4. boot[b].stage \in Started /\ boot[b].attempt = n =>
          InAttempt(b, n, 0) \/ InAttempt(b, n, 1) \/ InAttempt(b, n, 2) \/ InAttempt(b, n, 3)
    BY DEF InAttempt, Started, Progress
  <1>5. /\ (\E m \in 0..3 : m > 0 /\ InAttempt(b, n, m)) =>
              InAttempt(b, n, 1) \/ InAttempt(b, n, 2) \/ InAttempt(b, n, 3)
        /\ (\E m \in 0..3 : m > 1 /\ InAttempt(b, n, m)) => InAttempt(b, n, 2) \/ InAttempt(b, n, 3)
        /\ (\E m \in 0..3 : m > 2 /\ InAttempt(b, n, m)) => InAttempt(b, n, 3)
        /\ ~\E m \in 0..3 : m > 3 /\ InAttempt(b, n, m)
    OBVIOUS
  <1> QED
    BY <1>2, <1>3, <1>4, <1>5, PTL DEF StagePasses

\* A run that nobody repeats is in its first attempt until it ends.
FirstAttempt(b) == boot[b].stage \in Started \cup {"idle"} => boot[b].attempt = 0

\* Only db-init tries again.
LEMMA FirstAttemptHolds ==
  ASSUME NEW b \in Boot \ {DbInit}
  PROVE  Spec => []FirstAttempt(b)
  <1>1. Init => FirstAttempt(b)
    BY DEF Init, FirstAttempt
  <1>2. Coherent /\ FirstAttempt(b) /\ [Next]_vars => FirstAttempt(b)'
    <2> SUFFICES ASSUME Coherent, FirstAttempt(b), [Next]_vars PROVE FirstAttempt(b)'
      OBVIOUS
    <2>1. boot \in [Boot -> BootState]
      BY DEF Coherent, TypeOK
    <2>2. CASE boot[b].stage \in Started
      <3>1. CASE boot'[b] = boot[b]
        BY <3>1 DEF FirstAttempt
      <3>2. CASE Migrate(b) /\ boot' = [boot EXCEPT ![b] = AfterFailure(b)]
        BY <2>1, <3>2 DEF AfterFailure, FirstAttempt, Started
      <3>3. ASSUME NEW stage, Reaches(b, stage) PROVE FirstAttempt(b)'
        BY <2>1, <2>2, <3>3 DEF Reaches, BootState, FirstAttempt
      <3>4. BootStep(b) => \/ Migrate(b) /\ boot' = [boot EXCEPT ![b] = AfterFailure(b)]
                           \/ \E stage : Reaches(b, stage)
        BY DEF BootStep, Migrate, FindAdmin, FindEmail, Create, BootFails
      <3> QED
        BY <2>2, <3>1, <3>2, <3>3, <3>4, OthersLeaveRun
    <2>3. CASE boot[b].stage \notin Started
      <3>1. ASSUME NEW c \in Boot, Start(c) PROVE FirstAttempt(b)'
        BY <2>1, <3>1 DEF Start, FirstAttempt
      <3>2. ASSUME NEW c \in Boot, BootStep(c) PROVE boot'[b] = boot[b]
        <4>1. boot[c].stage \in Started
          BY <3>2 DEF BootStep, Migrate, FindAdmin, FindEmail, Create, BootFails, Started
        <4> QED
          BY <2>1, <2>3, <3>2, <4>1
          DEF BootStep, Migrate, FindAdmin, FindEmail, Create, BootFails, Reaches
      <3>3. CASE ~\E c \in Boot : Start(c) \/ BootStep(c)
        BY <3>3 DEF Next, Turns, ApiStart, Entry, BuildApp, Listen, Accept, Finish,
                    PortalWrites, Signalled, Closed, TimerFires, Crash, StayOff, Else, vars,
                    FirstAttempt
      <3> QED
        BY <3>1, <3>2, <3>3 DEF FirstAttempt
    <2> QED
      BY <2>2, <2>3
  <1> QED
    BY <1>1, <1>2, Coherence, PTL DEF Spec

\* A run by hand, or the entry point's, ends: with an administrator or with an
\* exit code.  db-init's ends too, as far as TLC tells: from one attempt to
\* MaxAttempts of them it takes an induction (EveryAttemptEnds is its step).
THEOREM RunsByHandEnd ==
    FairSpec /\ []CanGoOn =>
        \A b \in Boot \ {DbInit} : boot[b].stage \in Started ~> boot[b].stage \in {"ok", "failed"}
  <1>1. SUFFICES ASSUME NEW b \in Boot \ {DbInit}
                 PROVE  FairSpec /\ []CanGoOn =>
                        (boot[b].stage \in Started ~> boot[b].stage \in {"ok", "failed"})
    OBVIOUS
  <1>2. FairSpec => Spec /\ BootFair(b)
    BY DEF FairSpec
  <1>3. Spec /\ BootFair(b) /\ []CanGoOn =>
          StagePasses(b, 0, 0) /\ StagePasses(b, 0, 1) /\ StagePasses(b, 0, 2) /\ StagePasses(b, 0, 3)
    BY EachStagePasses, LifecycleAssumption
  <1>4. FirstAttempt(b) /\ boot[b].stage \in Started =>
          InAttempt(b, 0, 0) \/ InAttempt(b, 0, 1) \/ InAttempt(b, 0, 2) \/ InAttempt(b, 0, 3)
    BY DEF InAttempt, Started, Progress, FirstAttempt
  <1>5. /\ (\E m \in 0..3 : m > 0 /\ InAttempt(b, 0, m)) =>
              InAttempt(b, 0, 1) \/ InAttempt(b, 0, 2) \/ InAttempt(b, 0, 3)
        /\ (\E m \in 0..3 : m > 1 /\ InAttempt(b, 0, m)) => InAttempt(b, 0, 2) \/ InAttempt(b, 0, 3)
        /\ (\E m \in 0..3 : m > 2 /\ InAttempt(b, 0, m)) => InAttempt(b, 0, 3)
        /\ ~\E m \in 0..3 : m > 3 /\ InAttempt(b, 0, m)
    OBVIOUS
  <1>6. Coherent /\ FirstAttempt(b) /\ AttemptOver(b, 0) => boot[b].stage \in {"ok", "failed"}
    BY DEF Coherent, TypeOK, BootState, FirstAttempt, AttemptOver
  <1> QED
    BY <1>2, <1>3, <1>4, <1>5, <1>6, Coherence, FirstAttemptHolds, PTL DEF StagePasses
=============================================================================
