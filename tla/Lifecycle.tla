------------------------------ MODULE Lifecycle ------------------------------
(***************************************************************************)
(* How the portal comes up and goes down: migrations and the bootstrap of  *)
(* the first administrator, by db-init of the development stack or by an   *)
(* operator, next to the API process, its requests, signals and restarts.  *)
(*                                                                         *)
(* The database is what prisma and the script see of it: whether it        *)
(* answers, how many migrations it has, and the role each e-mail has.      *)
(* Requests are Portal seen from outside: one that was let in while there  *)
(* was an administrator may change roles for as long as it runs.           *)
(***************************************************************************)
EXTENDS Naturals

CONSTANTS
    Boot, DbInit,     \* runs of the bootstrap script; the one that is db-init's
    Email, EmailOf,   \* addresses; INITIAL_ADMIN_EMAIL of each run
    Request,
    Migrations,       \* how many there are: 3
    MaxAttempts,      \* of db-init: 30
    None

ASSUME LifecycleAssumption ==
    /\ DbInit \in Boot /\ EmailOf \in [Boot -> Email]
    /\ Migrations \in Nat /\ MaxAttempts \in Nat \ {0}
    /\ None \notin {"ADMIN", "VIEWER"} \cup Boot

VARIABLES
    production, \* which of the two compositions this is
    mysql,      \* the database server and its schema
    accounts,   \* the role of each e-mail, None if there is no such account
    boot,       \* the runs of the script, with what comes before it
    api,        \* the API container and its process
    \* history variables
    hadAdmin,   \* there has been an administrator
    raced       \* runs that had found no administrator when another actor made one

vars == <<production, mysql, accounts, boot, api, hadAdmin, raced>>

Signal == {"SIGTERM", "SIGINT"}

Started == {"migrate", "admin", "email", "create"}
BootState == [stage: Started \cup {"idle", "ok", "failed"}, attempt: 0..MaxAttempts]

\* closing is shuttingDown of main; handled, the signals that have a listener.
ApiState ==
    [stage: {"created", "entry", "build", "binding", "listening", "off"},
     closing: BOOLEAN, handled: SUBSET Signal, open: SUBSET Request, admins: SUBSET Request]

Process(stage) ==
    [stage |-> stage, closing |-> FALSE, handled |-> {}, open |-> {}, admins |-> {}]

Admins == {e \in Email : accounts[e] = "ADMIN"}

\* A portal that is new, or that ran before with any of its migrations.
Init ==
    /\ production \in BOOLEAN
    /\ mysql \in [up: BOOLEAN, applied: 0..Migrations, broken: {FALSE}]
    /\ accounts \in [Email -> {"ADMIN", "VIEWER", None}]
    /\ mysql.applied = 0 => accounts = [e \in Email |-> None]
    /\ boot = [b \in Boot |-> [stage |-> "idle", attempt |-> 0]]
    /\ api = Process("created")
    /\ hadAdmin = (Admins # {})
    /\ raced = {}

-----------------------------------------------------------------------------
(* The database.                                                           *)

Turns ==
    /\ mysql' = [mysql EXCEPT !.up = ~@]
    /\ UNCHANGED <<production, accounts, boot, api, hadAdmin, raced>>

Ready == mysql.up /\ mysql.applied = Migrations

\* prisma migrate deploy.
MigrateDone ==
    /\ mysql.up /\ ~mysql.broken
    /\ mysql' = [mysql EXCEPT !.applied = Migrations]

\* It fails: before it changes anything, between two migrations, or inside
\* one, which MySQL does not undo and prisma refuses to go over from then on.
MigrateFails ==
    \/ mysql' = mysql
    \/ /\ mysql.up /\ ~mysql.broken
       /\ \E k \in mysql.applied..Migrations, broken \in BOOLEAN :
             /\ broken => k < Migrations
             /\ mysql' = [mysql EXCEPT !.applied = k, !.broken = broken]

\* Somebody writes roles; the history follows.
Writes(table, actor) ==
    /\ accounts' = table
    /\ hadAdmin' = (hadAdmin \/ Admins' # {})
    /\ raced' = IF Admins' \subseteq Admins THEN raced
                ELSE raced \cup {b \in Boot \ {actor} : boot[b].stage \in {"email", "create"}}

Rests == UNCHANGED <<accounts, hadAdmin, raced>>

-----------------------------------------------------------------------------
(* db-init, and the script run by an operator.                             *)

Reaches(b, stage) == boot' = [boot EXCEPT ![b].stage = stage]

Leaves == UNCHANGED <<production, api>>

(* Mutant of AfterFailure: it never gives up. *)
MutantAfterFailure(b) ==
    [stage |-> "migrate", attempt |-> (boot[b].attempt + 1) % MaxAttempts]

(* Mutant of AfterFailure: one attempt too many. *)
MutantOneMore(b) ==
    LET n == boot[b].attempt + 1
    IN  [stage |-> IF b = DbInit /\ n <= MaxAttempts THEN "migrate" ELSE "failed", attempt |-> n]

\* db-init tries again, up to MaxAttempts; the entry point gives up at once.
AfterFailure(b) ==
    LET n == boot[b].attempt + 1
    IN  [stage |-> IF b = DbInit /\ n < MaxAttempts THEN "migrate" ELSE "failed", attempt |-> n]

\* db-init waits for a healthy database and exists in development only.
Start(b) ==
    /\ boot[b].stage \in {"idle", "ok", "failed"}
    /\ b = DbInit => ~production /\ mysql.up
    /\ boot' = [boot EXCEPT ![b] = [stage |-> "migrate", attempt |-> 0]]
    /\ raced' = raced \ {b}
    /\ Leaves /\ UNCHANGED <<mysql, accounts, hadAdmin>>

Migrate(b) ==
    /\ boot[b].stage = "migrate"
    /\ \/ MigrateDone /\ Reaches(b, "admin")
       \/ MigrateFails /\ boot' = [boot EXCEPT ![b] = AfterFailure(b)]
    /\ Leaves /\ Rests

(* Mutant of AdminFound: looks for the configured address only. *)
MutantAdminFound(b) == accounts[EmailOf[b]] = "ADMIN"

AdminFound(b) == Admins # {}

FindAdmin(b) ==
    /\ boot[b].stage = "admin" /\ Ready
    /\ Reaches(b, IF AdminFound(b) THEN "ok" ELSE "email")
    /\ Leaves /\ Rests /\ UNCHANGED mysql

(* Mutant of EmailTaken: an account in the way ends the script in peace. *)
MutantEmailTaken == "ok"

EmailTaken == "failed"

FindEmail(b) ==
    /\ boot[b].stage = "email" /\ Ready
    /\ Reaches(b, IF accounts[EmailOf[b]] # None THEN EmailTaken ELSE "create")
    /\ Leaves /\ Rests /\ UNCHANGED mysql

(* Mutant of Inserts: an account of that address is made an administrator. *)
MutantInserts(b) == Writes([accounts EXCEPT ![EmailOf[b]] = "ADMIN"], b)

Inserts(b) ==
    /\ accounts[EmailOf[b]] = None
    /\ Writes([accounts EXCEPT ![EmailOf[b]] = "ADMIN"], b)

\* The row may be there although its answer is lost.
Create(b) ==
    /\ boot[b].stage = "create" /\ Ready
    /\ Inserts(b)
    /\ \E stage \in {"ok", "failed"} : Reaches(b, stage)
    /\ Leaves /\ UNCHANGED mysql

\* A query rejects, the unique index of the addresses among the reasons, or
\* the container is stopped.
BootFails(b) ==
    /\ boot[b].stage \in Started
    /\ Reaches(b, "failed")
    /\ Leaves /\ Rests /\ UNCHANGED mysql

BootStep(b) == Migrate(b) \/ FindAdmin(b) \/ FindEmail(b) \/ Create(b) \/ BootFails(b)

-----------------------------------------------------------------------------
(* The API process.                                                        *)

Runs == api.stage \notin {"created", "off"}

Goes(stage) == api' = [api EXCEPT !.stage = stage]

Else == UNCHANGED <<production, boot>>

\* The process ends, by itself or not, with any code; restart: unless-stopped.
Exits == api' = Process("entry")

\* In development the first start waits for db-init to complete.
ApiStart ==
    /\ api.stage \in {"created", "off"}
    /\ api.stage = "created" /\ ~production => boot[DbInit].stage = "ok"
    /\ Goes("entry")
    /\ Else /\ Rests /\ UNCHANGED mysql

\* The entry point runs the migrations in production.
Entry ==
    /\ api.stage = "entry"
    /\ \/ ~production /\ Goes("build") /\ UNCHANGED mysql
       \/ production /\ MigrateDone /\ Goes("build")
       \/ production /\ MigrateFails /\ Exits
    /\ UNCHANGED <<production, boot>> /\ Rests

\* buildApp, and then the listeners of main.
BuildApp ==
    /\ api.stage = "build"
    /\ api' = [api EXCEPT !.stage = "binding", !.handled = Signal]
    /\ Else /\ Rests /\ UNCHANGED mysql

Listen ==
    /\ api.stage = "binding"
    /\ (~api.closing /\ Goes("listening")) \/ Exits
    /\ Else /\ Rests /\ UNCHANGED mysql

Accept(r) ==
    /\ api.stage = "listening" /\ ~api.closing /\ r \notin api.open
    /\ api' = [api EXCEPT !.open = @ \cup {r},
                          !.admins = IF Ready /\ Admins # {} THEN @ \cup {r} ELSE @]
    /\ Else /\ Rests /\ UNCHANGED mysql

Finish(r) ==
    /\ r \in api.open
    /\ api' = [api EXCEPT !.open = @ \ {r}, !.admins = @ \ {r}]
    /\ Else /\ Rests /\ UNCHANGED mysql

\* An administrator creates, promotes, demotes or deletes an account.
PortalWrites ==
    /\ api.admins # {} /\ Ready
    /\ \E e \in Email, role \in {"ADMIN", "VIEWER", None} :
          Writes([accounts EXCEPT ![e] = role], None)
    /\ UNCHANGED <<production, mysql, boot, api>>

\* once: a second signal of the kind meets no listener, and kills a process that
\* is not the first of its container.
Signalled(s) ==
    /\ Runs
    /\ \/ /\ s \in api.handled
          /\ api' = [api EXCEPT !.handled = @ \ {s}, !.closing = TRUE]
       \/ s \notin api.handled /\ Exits
    /\ UNCHANGED <<production, mysql, boot>> /\ Rests

\* Fastify's close stops listening and waits for the requests under way; then
\* its hook disconnects prisma.
Drained == api.open = {}

Closed ==
    /\ api.closing /\ Drained
    /\ Exits
    /\ UNCHANGED <<production, mysql, boot>> /\ Rests

TimerSet == api.closing

TimerFires ==
    /\ TimerSet
    /\ Exits
    /\ UNCHANGED <<production, mysql, boot>> /\ Rests

\* buildApp or close rejects, the process runs out of memory, SIGKILL.
Crash ==
    /\ Runs
    /\ Exits
    /\ UNCHANGED <<production, mysql, boot>> /\ Rests

\* The operator stops the container between two lives of the process.
StayOff ==
    /\ api.stage = "entry"
    /\ Goes("off")
    /\ Else /\ Rests /\ UNCHANGED mysql

Next ==
    \/ Turns
    \/ \E b \in Boot : Start(b) \/ BootStep(b)
    \/ ApiStart \/ Entry \/ BuildApp \/ Listen
    \/ (\E r \in Request : Accept(r) \/ Finish(r)) \/ PortalWrites
    \/ (\E s \in Signal : Signalled(s)) \/ Closed \/ TimerFires \/ Crash \/ StayOff

Spec == Init /\ [][Next]_vars

\* A container that has started goes on, whatever its steps come to; a timer
\* fires.  Requests need never finish, and nobody has to start anything.
BootFair(b) == WF_vars(BootStep(b))
TimerFair == WF_vars(TimerFires)

FairSpec ==
    /\ Spec
    /\ \A b \in Boot : BootFair(b)
    /\ TimerFair

-----------------------------------------------------------------------------
(* Properties.                                                             *)

TypeOK ==
    /\ production \in BOOLEAN
    /\ mysql \in [up: BOOLEAN, applied: 0..Migrations, broken: BOOLEAN]
    /\ accounts \in [Email -> {"ADMIN", "VIEWER", None}]
    /\ boot \in [Boot -> BootState]
    /\ api \in ApiState
    /\ hadAdmin \in BOOLEAN /\ raced \subseteq Boot

\* The API never takes requests on a schema that lacks a migration, and in
\* development not before there has been an administrator: over failed
\* migrations, exhausted retries, lost answers, crashes and restarts, and
\* addresses that belong to others (docker-compose.yml, api-entrypoint.sh,
\* bootstrap-admin.ts).
SetUpBeforeServing ==
    api.stage = "listening" => mysql.applied = Migrations /\ (production \/ hadAdmin)

\* The bootstrap changes no account that is there, whoever creates it, even
\* between the look-up of the address and the insert (bootstrap-admin.ts).
BootstrapNeverResets ==
    [][boot' # boot => \A e \in Email : accounts[e] # None => accounts'[e] = accounts[e]]_vars

\* A second administrator comes of the bootstrap only when another run or a
\* late request made the first one after this run had looked for it.
SecondOnlyByRace ==
    [][\A b \in Boot : boot[b].stage = "create" /\ boot'[b] # boot[b] /\ accounts' # accounts
          => Admins = {} \/ b \in raced]_vars

\* What the bootstrap may do to the accounts, whatever races it.
BootstrapSafe == BootstrapNeverResets /\ SecondOnlyByRace

\* Not checked, but the hypothesis of the theorems on what ends: no run of the
\* script can hang, since a query that cannot be answered rejects, and no shutdown
\* can lose its timer.  It says no more than that the guards leave no gap.
CanGoOn ==
    /\ \A b \in Boot : boot[b].stage \in Started => ENABLED <<BootStep(b)>>_vars
    /\ api.closing => ENABLED <<TimerFires>>_vars

\* db-init, and every run of the script, comes to an end.
EveryRunEnds ==
    \A b \in Boot : boot[b].stage \in Started ~> boot[b].stage \in {"ok", "failed"}

\* A shutdown ends the process even if a request hangs.
ShutdownEnds == api.closing ~> ~api.closing

\* What has been started or told to stop comes to its end, whatever the database
\* and the requests under way do.
RunsAndShutdownsEnd == EveryRunEnds /\ ShutdownEnds
=============================================================================
