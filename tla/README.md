# File Portal: specification, model checking and proofs

This directory is the verification project of the File Portal: a Fastify API over
Prisma/MySQL and Amazon S3 (`src/apps/api`), a React client (`src/apps/web`), the
packages they share (`src/packages`), and the scripts and compositions that start
it. It holds TLA+ modules translated from the source, TLC configurations that check
them on small instances, and TLAPS proofs that hold for every value of the
constants. Paths below are relative to the repository's root unless they begin with
`src/`, which is that root.

To repeat everything: `tlc -config X.cfg M.tla` for a run (the table of runs names
both), `tlapm M.tla` for a module of proofs.

## 1. The system

### Components, state, operations

| component | code | state it keeps | operations | module |
|---|---|---|---|---|
| Database | `apps/api/prisma/schema.prisma`, migrations | users, sessions, s3_permissions, audit_logs | inserts, updates, deletes with unique indexes and foreign keys | `Database` |
| AuthService | `apps/api/src/services/auth.service.ts`, `routes/auth.routes.ts` | rows of sessions | login, logout, resolveSession, me | `Portal` |
| UserService | `services/user.service.ts`, `routes/admin.routes.ts` | rows of users and s3_permissions | create, update, disable, enable, delete, resetPassword, addPermission, removePermission; the reads list, getById, listPermissions | `Portal` (writes), `AdminPages` (reads: the changes they were read after) |
| AuditService | `services/audit.service.ts` | rows of audit_logs | log, list | `Portal` (log), `AuditPages` (list) |
| AuthorizationService | `services/authorization.service.ts`, `utils/s3-path.ts` | none | canAccess, canList, filters, search roots | `AccessRules` |
| S3Service | `services/s3.service.ts`, `utils/cursor.ts`, `routes/files.routes.ts` | none; signed cursors live at clients | list, search, createDownloadUrl, roots | `FileAccess` |
| Session hook, cookies | `plugins/auth.ts` | `request.user`, a snapshot | onRequest, setting and clearing cookies; origin and CSRF checks | `Portal`, `WebSession` (hook and cookies) |
| Role checks, errors | `utils/roles.ts`, `utils/errors.ts`, `app.ts` | none | requireAuth, requireManagerOrAdmin, error handler | `Portal` |
| Validation | `packages/validation/src/index.ts` | none | request schemas | assumptions and inputs of `Portal`, `FileAccess`, `AuditPages` |
| Bootstrap | `scripts/bootstrap-admin.ts` | the first administrator | look for one, look for the address, insert | `Lifecycle` |
| Startup and shutdown | `server.ts`, `docker/api-entrypoint.sh`, `docker-compose.yml`, `docker-compose.prod.yml` | the schema, the process with its listeners, its timer, its requests | db-init and its retries, migrations, listening, signals, closing, restarts | `Lifecycle` |
| Web session | `apps/web/src/hooks/useAuth.tsx`, `components/ProtectedRoute.tsx`, `router/index.tsx`, `pages/LoginPage.tsx`, `layouts/AppLayout.tsx`, `api/client.ts` | account, loading, location, calls under way | load, login, logout, redirects | `WebSession` |
| FilesPage | `pages/FilesPage.tsx` | address and history, `activeSearch`, query cache, downloads | open roots and folders, search, download, redirect | `FileBrowser`, `WebSession` (roots across accounts) |
| Administration pages | `pages/UsersPage.tsx`, `UserDetailPage.tsx`, `UserPermissionsPage.tsx`, `AdminDashboardPage.tsx` | query cache, mutations under way | nine buttons, the queries they invalidate, navigation | `AdminPages`, `QueryCache` |
| AuditLogsPage | `pages/AuditLogsPage.tsx` | page number, query cache | turn pages | `AuditPages` |
| Plugins, configuration, types, presentation, proxy | `plugins/index.ts`, `packages/config`, `packages/types`, `ui.tsx`, nginx, Dockerfiles | third-party or none | | not modelled (section 5) |

### How they interact

A request enters through the `onRequest` hook, which looks its session up and
leaves a *snapshot* of the account in `request.user`. A handler then is a chain of
awaits over the database (or S3). No two handlers share memory; they meet in the
tables only, and no handler but login uses a transaction. So every await is a
place where every other request may run, and what was read before it may be stale
after it. The database's own constraints (unique e-mail, one row per permission,
CASCADE and SET NULL) are the last line of defence when the checks of a handler
have gone stale.

The client learns who is signed in from `GET /me` once per load and from the
answers to login and logout; tabs of a browser share the cookie and nothing else.
Query results are cached under keys that do not name the account. A mutation goes
on after its page has gone, and its callback then invalidates queries that other
pages may show.

Before any of that, something must have migrated the schema and created an
administrator: a container `db-init` in the development composition, the entry point
of the API (migrations) and an operator (administrator) in production.

### What is hard here

- **Interleaved awaits.** Snapshots of the actor, of the target's role, of a
  manager's permissions, of an e-mail's absence, of a password's hash.
- **Partial failure.** Change, session purge and audit row are three statements;
  any of them may reject, and the process may stop between them.
- **Paging over something that moves.** Pages of S3 filtered after they are cut;
  cursors from before a change; offsets into a log that grows and shrinks.
- **Answers that race.** `me`, login, logout and queries under way while the user,
  other tabs and administrators act.
- **Composition of grants.** Managers delegate, grantees are promoted and delegate
  further.
- **Retries, crashes and restarts of the startup.** A migration may break off between
  or inside its steps, an insert may be there although its answer was lost, and each
  service starts when another claims to be done.
- **Signals and a timer against requests under way.** Closing the server waits for
  them, the timer does not, and a second signal meets no listener.
- **Invalidations that join fetches under way.** A refetch may be the answer to an
  older question, and a button waits for refetches that may have no one to make them.
- **Transitions of the router against a page's own state.** A new address renders
  later than a changed search term; buttons of the old rendering still work.

### What makes each component correct

| component | correct means | property |
|---|---|---|
| Database | references and unique indexes hold at all times | `TablesConsistent` (`NoOrphans`, `EmailsUnique`, `OneRowPerGrant`) |
| UserService | nobody's scope is beyond what an administrator granted; staff are made by administrators only, and managers reach viewers only, but for one race; the last administrator is lost by the own update or a race only | `DelegationBounded`, `StaffGuarded` (`StaffOnlyByAdmin`, `StaffReachedOnlyByRace`), `LastAdminGuarded` |
| UserService, AuthService | a change answered 200 has ended the sessions it must end, for good; a session belongs to one account for all its life | `SessionsPurged`, `ImplementsLedger` |
| handlers | an answer tells what happened; every request is answered | `AnswersTellTheEffect`, `EveryRequestAnswered` |
| AuditService | the log only grows; no reader of its pages misses a row | `AuditAppendOnly`, `NothingSkipped` |
| AuthorizationService | delegated rows open no file and no folder that an administrator's grant does not open; what one may access one can also reach by listing; searches cover it | `AccessBounded`; `WayIsOpen`, `WayIsShown`, `RootsCover`, `RootsWithin` (theorems) |
| S3Service | no answer beyond the permissions, no refusal within them; no page or search leaves a file out | `NothingBeyondGrants`, `EntitledNotForbidden`, `PagesComplete`, `SearchComplete` |
| Bootstrap | it changes no account that is there; a second administrator takes a race; every run ends | `BootstrapSafe` (`BootstrapNeverResets`, `SecondOnlyByRace`), `RunsAndShutdownsEnd` |
| Startup and shutdown | no request before schema and administrator are there; a shutdown ends | `SetUpBeforeServing`, `RunsAndShutdownsEnd` |
| Web session | the header names the cookie's account; signing out lasts; redirects end | `HeaderAgrees`, `SignedOutStaysOut`, `RedirectsEnd` |
| FilesPage | what is listed is what the address and the search say, and never nothing at all; a download is of what was listed; a page without a folder finds one | `PageIsRight` (`RightListing`, `SomethingShown`, `AsksForWhatIsListed`), `SearchIsAddressed`, `WayOut`, `SettlesInAFolder` |
| Administration pages | a change of one's own shows in the account or the list it was made on, and on every page entered after it; a button is pressed over fresh data only, and is always released | `OwnChangesShown`, `ButtonsWait`, `WaitsForAFetch`, `ComesToRest`, `EveryClickEnds` |

## 2. The modules

```
AccessLedger             what the portal promises about accounts, sessions, grants
     ^ refines
Database <- Portal       requests over the tables         <- PortalProofs
              ^
              PortalAccess  what scopes mean for files    <- MCPortal (3)
              v                                           <- PortalEffectsProofs
AccessRules <- FileAccess   file routes over the bucket   <- MCFileAccess (3)
                  |
                  FileAccessProofs

AuditPages               reading the audit log            <- MCAuditPages, AuditPagesProofs
Lifecycle                startup, bootstrap, shutdown     <- MCLifecycle, LifecycleProofs
WebSession               a tab and its account            <- MCWebSession (2), WebSessionProofs

QueryCache <- AdminPages   the administration pages       <- MCAdminPages, AdminPagesProofs
           <- FileBrowser  FilesPage                      <- MCFileBrowser, FileBrowserProofs
```

Definitions named `Mutant...` stand beside the definition they alter, in the way a
plausible bug would; no specification uses them. Each was put in place of the
definition once per property, and TLC found the property violated.

### Database

The four tables as functions from the keys present to rows. One operator per statement
the services issue; each is atomic, refuses (is disabled) when a constraint forbids it,
and does what the foreign keys say (`DeleteUser` cascades to sessions and permissions
and clears `userId` in the audit log). Identifiers are never used twice (`issued`); they
stand for UUIDs and hashed random tokens. Columns no behaviour depends on are left out.
A bucket with a prefix is one value, a *scope*, and containment of prefixes is the
relation `Within`. `Collated` and `CollatedScope` are what the case-insensitive
collation of the unique indexes on e-mails and on permissions makes of a text; a look-up
by e-mail (`Holders`) compares as the index does, while the access rules compare
prefixes letter by letter. A password hash is the password it verifies; expiry is a flag
that time may set (`PassExpiry`).

### Portal

`requests[r]` is a handler under way: its call, cookie, the actor and role of the
snapshot, the target's role as first read, its status, and `stage`, the await it is
about to reach. One action per await, together with the code that follows it up to
the next:

| stage | action | code |
|---|---|---|
| session | `Authenticate`, then 401/403/400 or the first query | `plugins/auth.ts` onRequest, `resolveSession`, role checks of the route |
| reap | `Reap` | deletion of an expired session, `.catch`ed |
| load | `Load` | `ensureUser` / `findUnique` with the checks after it |
| email | `CheckEmail` | lookup of a taken e-mail |
| grants | `LoadGrants` | `assertCanGrantPermission` |
| grant | `LoadPermission` | lookup in `removePermission` |
| write | `Create`, `Update`, `SetActive`, `ResetPassword`, `Delete`, `AddPermission`, `RemovePermission`, `Logout`, or `Refused` | the write, or the error of a constraint or a missing row |
| purge, purgeRole | `PurgeSessions` | `session.deleteMany` |
| log | `Log` | `AuditService.log`; refused when the actor is gone |
| find, open, me | `FindUser`, `OpenSession`, `Me` | login |

`Fail(r)` lets any awaited promise reject without effect (500, or 409 where
`addPermission` catches everything); a request that never goes on afterwards is how
a crash of the process looks from the tables. `Expire` is time passing. Requests
arrive with a valid origin and CSRF token, with any cookie that was ever given out.

History variables, which no guard reads: `applied` (changes committed), `revoked`
(the sessions a change takes the basis from), `delegated` (scopes administrators
granted).

### AccessLedger

The abstract specification: a set of accounts, open sessions with their accounts,
pairs of account and scope, without requests, awaits, tables or failures. A session
opens once and never comes back; an account that is removed leaves nothing; a grant
is an administrator's or within one. `Portal!Ledger` is the refinement mapping and
`ImplementsLedger` the statement, checked as a PROPERTY and proved.

### AccessRules

The pure rules on texts. A text with slashes is the sequence of the names between
them, so that prefix relations become prefix relations of sequences and a name's
number is its place in S3's listing order. What zod's schemas do to prefixes makes
`normalizePrefix` the identity on them; keys come from the bucket unchanged, and
those `normalizeKey` changes or refuses are the constants `Odd` and `Padded`.

### PortalAccess

The composition of the two: a scope of `Portal` is a permission of `AccessRules`, a
bucket with a prefix, and `Contains` is the test of `assertCanGrantPermission`, which
defines what `Portal` takes as the constant `Within`. The handlers that grant compare
prefixes in one way (`startsWith` between normalized prefixes), those that list and
download in two others (a key below a prefix or equal to it without its slash; a folder
below a prefix or above it). `AccessBounded` says that they agree: rows handed on open
nothing that the rows administrators granted (`OwedTo`) do not open. `RowsOf` is what
`getUserPermissions` reads; an administrator's own access is not by rows.

### FileAccess

One account, any number of requests. `LoadPermissions` and `CheckAccess` are the two
separate readings of the permissions, `ListPage` one `ListObjectsV2` page with the
filter behind it (and a 500 for a page with a folder that has `..` in its name, at which
`folderNameFromPrefix` throws: `Unnameable`), `SearchStorage` one page of one root of a
search, `Log` the audit row and the answer. Meanwhile `Grant`, `Revoke`, `Put`, `Drop`
change permissions and buckets. A cursor remembers its folder and its token; requests
may bring any cursor handed out, for any folder, or a forged one. History: `shown` in
cursors, `held`, `steadyGrants`, `steadyStore`. A manager behaves as a viewer here.

### AuditPages

The two queries of a page (`Count`, `Read`) run side by side (`Promise.all`); rows are
inserted with times that need not ascend, or stop matching the filter when their
account is deleted. `AuditLogsPage` keeps each page's answer, shows it until a newer
one comes, and offers Next by the count. History: `seen`, `steady`, `lost`, `tied`, and
`late` in an answer (rows logged between its two queries).

### Lifecycle

| part | actions | code |
|---|---|---|
| a run of the script, by db-init or by hand | `Start`, `Migrate`, `FindAdmin`, `FindEmail`, `Create`, `BootFails` | `bootstrap-admin.ts`, one action per await; `AfterFailure` is the retry loop of `docker-compose.yml` |
| migrations | `MigrateDone`, `MigrateFails` | `prisma migrate deploy`: all of them, some, or one broken off inside, after which prisma refuses |
| the container | `ApiStart`, `Entry`, `StayOff` | `depends_on`, `api-entrypoint.sh`, `restart` |
| the process | `BuildApp`, `Listen`, `Signalled`, `Closed`, `TimerFires`, `Crash` | `main` of `server.ts`: `once` listeners, `shuttingDown`, the ten-second timer |
| the portal, from outside | `Accept`, `Finish`, `PortalWrites` | a request let in while there was an administrator may change roles for as long as it runs |
| MySQL | `Turns` | comes and goes |

`production` chooses the composition: in development the API waits for db-init to
complete and its entry point migrates nothing; in production there is no db-init.
The portal starts new, or with any of its migrations and accounts from an earlier
life. Exit codes are left out: restarts are the same for all of them. History: `hadAdmin`
(there has been an administrator), `raced` (runs that had found no administrator when
another actor made one).

### QueryCache

One query of TanStack Query with the defaults of `App.tsx`: its last answer (`data`),
its fetch under way (sent, or served with an answer that has not arrived), whether it
failed last. Answers are stale at once (`staleTime` 0), so whatever mounts asks again,
or joins a fetch under way (`Mounted`). `Invalidated` cancels a fetch and asks again,
but joins the first fetch of a query. The retry of a failed fetch leaves no trace, so
`Failed` is for good. The two modules that use it instantiate it.

### AdminPages

`view` is the page on screen, with the term of the search box for the list of users. The
dashboard is one, with its two queries and no button; `elsewhere` are the pages with no
query of these. The pages of one account are modelled; a call of the list may be for
`other` ones (`Concerns`). `calls` the mutations in the order they were made, each with
its stage, the invalidation it has come to and the refetches it still awaits;
`committed` the calls the server has carried out. An answer to a query is the set of the
tab's own calls that had been committed when it was read: that is what `OwnChangesShown`
can tell apart, and what other administrators do shows only as a refusal. `Click` sends
a call, `Commit` carries it out, `Answer` and `Proceed` run its `onSuccess` one
invalidation at a time (`Invalidates` lists them, `Awaited` those that are waited for,
which are on screen), `CallFails` ends it. `Show` goes to another page: queries mount,
and calls under way outlive their page. History: `here` (calls since the view last
changed), `missed` (a call, and a query whose fetch under way was not restarted),
`entered` (a committed call, and a query showing it that a page entered since has asked
anew).

### FileBrowser

`entries` and `at` are the history of the tab, `rendered` the address React shows: the
router renders a new one in a transition (`Render`), while `activeSearch` (`active`)
changes at once. Each input (`OpenRoot`, `Search`, `OpenFolder`, `Refresh`, `Follow` for
links, `Traverse` for Back and Forward, `Download`) therefore works with what is
rendered, not with where the tab is. `due` is the effect that leaves an address without
a bucket (`Redirect`); it runs after a rendering that mounts or changes the address and
when the roots change. `lists` is the query cache, keyed by bucket, folder and search
(`QueryKey`); a listing is the question it answers. `FileAccess` is what the answers
contain. History: `strayed` (the address was changed without the search of the page),
`outrun` (an input came before the address was rendered).

### WebSession

`tab` is the state of the client in one tab: `user`, `loading`, the path, the location
state `from`, the roots in the query cache, and for each kind of call the one under
way, with the cookie it was sent with and its answer once the server has given it.
Sending, serving and ending a call are separate steps (`SubmitLogin`, `ServeLogin`,
`LoginEnds`, ...), so that answers cross. `Outcomes` lets a served call still end in a
failure: the answer was lost. `Elsewhere` is every other tab, `End` expiry and
administrators. Where React may render before or after a `navigate`, both are
allowed (`SignedIn`, `LogoutEnds`). `Render` issues the roots query when FilesPage
comes into view. History: `left` (signed out, and nothing since), `doubtful` (a mishap
of the list in `HeaderAgrees`), `hops` (redirects in a row).

## 3. Model checking

| run | module, configuration | checks | distinct states |
|---|---|---|---|
| portal_all | MCPortal, Portal_all | TypeOK, TablesConsistent, AnswersTellTheEffect, SessionsPurged, DelegationBounded, AccessBounded, AuditAppendOnly, ImplementsLedger, StaffGuarded | 2.6 M |
| portal_answers | MCPortal, Portal_answers | LastAdminGuarded; EveryRequestAnswered with fairness | 1.3 M |
| files_access | MCFileAccess, Files_access | TypeOK, NothingBeyondGrants, EntitledNotForbidden, SearchComplete | 0.42 M |
| files_pages | MCFileAccess, Files_pages | PagesComplete | 0.14 M |
| audit_pages | MCAuditPages, Audit_pages | TypeOK, NothingSkipped | 5.7 M |
| lifecycle_all | MCLifecycle, Lifecycle_all | TypeOK, SetUpBeforeServing, BootstrapSafe; RunsAndShutdownsEnd with fairness; deadlock | 0.23 M |
| web_tab | MCWebSession, Web_tab | TypeOK, SignedOutStaysOut, HeaderAgrees, RedirectsEnd | 1.2 M |
| admin_pages | MCAdminPages, Admin_pages | TypeOK, OwnChangesShown, ButtonsWait, WaitsForAFetch; ComesToRest and EveryClickEnds with fairness | 1.1 M |
| file_browser | MCFileBrowser, File_browser | TypeOK, SearchIsAddressed, PageIsRight, WayOut; SettlesInAFolder with fairness | 0.6 M |
| portal_reset | MCPortal, Portal_reset | refutes ResetInvalidates | |
| files_empty | MCFileAccess, Files_empty | refutes EmptyMeansEmpty | |
| web_files | MCWebSession, Web_files | refutes YourFiles | |

### Bounds, and why they are enough

- **portal_all**: two requests, any two of the calls of `AllCalls` (every operation,
  with inputs for every branch: the actor's own account, a root scope, a bucket not
  configured, an e-mail taken in other case, a scope that only the index takes for a row
  that is there, an update of some fields only) over four accounts (administrator,
  manager, two viewers), three sessions and spare identifiers of each kind. A race in
  this code is between one handler's read and another's write, so two requests show it;
  spare identifiers suffice for whatever two requests insert. The proofs have any number
  of requests. Delegation is a chain of three steps, a grant, the promotion of the
  grantee and the grantee's own grant: the viewer starts with what the first step gives,
  so two requests complete it. The manager starts with a folder and with a whole bucket,
  which must not count. The objects lie in each folder, two are named like one, and one
  has a key that the rules take for another.
- **portal_answers**: two requests again, between two administrators who delete each
  other or step down, beside a login and a grant. They show the own update and the race;
  the third way `LastAdminGuarded` leaves open, a manager's request in a race, takes a
  promotion besides, so it is out of this run and covered by the theorem.
- **files_access**: one request against an environment that grants, revokes, puts and
  drops at every step; six objects at first and three that come and go, among them a
  folder marker, a key with `..`, one in a folder with `..` and one with a trailing
  blank; pages of 3 entries, search pages of 2, cap 3 (200, 1000 and 200 in the code),
  so that a search spans pages and roots and its cap falls inside them.
- **files_pages**: three requests, for a first page, a second and one with the cursor
  of another folder; one entry to a page, so that every page boundary occurs and
  filtered pages are empty.
- **audit_pages**: pages of 2 (25 in the code), three pages, four rows and a fifth
  logged at any time, before, between, after or at the instant of others; one row may
  stop matching (`MaxLost`).
- **lifecycle_all**: db-init and a run by hand, with different addresses; two migrations
  (so that a failure falls before, between and inside them) and two attempts (30 in the
  code), so that one failure is retried and two exhaust the loop; one request, which a
  signal, the timer or a crash may cut off. Runs, restarts and signals recur without
  bound: the state is finite as it is.
- **web_tab**: a manager and a viewer, three sessions (the first, one of this tab, one
  of another tab), two reloads.
- **admin_pages**: three inputs, each a button pressed, a page visited or a term typed
  (`MaxInputs`), two of them moves at most (`MaxMoves`); two terms make two lists. Two
  calls with a move between, or a call with two moves, are what it takes to leave a page,
  join a fetch under way and come back; three calls on one page restart each other's
  refetches. The tab is loaded on the list (`Starts`), from which every page is one move
  away; the proofs have any start.
- **file_browser**: three inputs (`MaxInputs`); two buckets, a folder in each, one term;
  the tab starts at `/files`, at a bookmarked search, or elsewhere. A button of an old
  rendering, a move in the history and the redirect of the page take three.

Symmetry is declared for requests and spare identifiers, or sessions, in runs that
check safety only; no configuration breaks the symmetry by naming one of them.
`lifecycle_all` checks deadlock: something can always be started. The other systems
really may stop, once every request is done or nobody presses anything, and their
configurations say so where they switch the check off.

### Fairness

- `EveryRequestAnswered`: `WF_vars(Step(r))` for each request. Node's event loop runs the
  continuation of every settled promise, and Prisma settles every promise it gives
  out, with a result or with an error; no step of a request waits for another
  request. `Arrive`, `Fail` and `Expire` are not fair: nobody has to send a request,
  nothing has to fail.
- `RunsAndShutdownsEnd`, of `EveryRunEnds` and `ShutdownEnds`: `WF_vars(BootStep(b))`, a
  container that has been started runs on, each of its commands ending one way or the
  other; `WF_vars(TimerFires)`, a timer that is set fires. Neither requests (`Finish`)
  nor `Closed` are fair: a request may hang, which is what the timer is for.
- `EveryClickEnds`, `ComesToRest`: `WF_vars(GoOn(c))`, which is `CallStep(c)` of a call
  that was made, and `WF_vars(FetchStep(k))`. A call or a query is answered or its
  connection breaks, and the tab runs the callbacks that are due. Nobody has to press
  anything.
- `SettlesInAFolder`: `WF_vars(Render)`, `WF_vars(Redirect)`. React commits a transition
  sooner or later and runs the effects of what it has committed. Answers are not fair.

### What the runs show

`portal_all` and `portal_answers` hold: with every interleaving of awaits, and
failures at each of them, the tables stay consistent, purges reach every session open at
the change, no request is left without an answer, and delegation never widens access,
neither by scopes nor by the files the rules open for them.
That `DelegationBounded` holds although a manager's permissions may be withdrawn
between `LoadGrants` and the insert is because it compares with what administrators
*ever* granted; a stronger property, with what the manager still holds, does not hold by
the design of the handler.

CHANGELOG.md:50 says that managers only reach viewers, which the race refutes. What the
code guarantees is `StaffReachedOnlyByRace`: the account was a viewer's when the handler
looked it up, and an administrator's update raised it before the write. The race is
reached in the run.

No handler counts administrators. What remains of the refusals to disable or delete one's
own account is `LastAdminGuarded`: while an administrator is active, a request of another
one leaves the actor; so the last is lost by the own update (a demotion or `isActive:
false`, which `update` does not refuse), to a request whose actor has ceased to be an
administrator since the session was looked up, or to a manager's in the race above.

`EntitledNotForbidden` is the other side of `NothingBeyondGrants`: two readings of
permissions that move never forbid what rows held all along permit, if the request names
its bucket or the account has rows in one bucket only. With rows in two buckets a request
that names none is about whichever row the database gives first.

The file routes never exceed rows held while the request ran, in spite of two
separate readings; paging loses nothing, in spite of filtering after the cut. Reading
the audit log loses no row but for those the three terms of `NothingSkipped` name.

`lifecycle_all`: over broken migrations, lost answers, exhausted retries, crashes and
restarts, in either composition, the API does not listen on an incomplete schema, and in
development not before there was an administrator; no account is taken over by the
bootstrap; a run that makes a second administrator was overtaken by the first one; runs and
shutdowns end.

The administration pages, `OwnChangesShown`: at rest, what shows the account or the list
that a call was made on shows its effect once the call has ended, wherever the tab has gone
in between, but where a fetch under way is joined (`missed` names it); and so does
every page that was entered after the commit, since whatever mounts asks again. That is all
that holds. No invalidation matches the keys of the dashboard, and those of the list leave
the page of the account out: a dashboard that is entered before a create or a delete is
committed keeps the old number of users, and the page of an account the account that the
list has deleted meanwhile. No button waits for a refetch that nobody makes
(`WaitsForAFetch`), and each is released.

FilesPage never lists one folder under the name of another, in whatever order addresses are
rendered and listings arrive. Its address names its search except after the inputs that
`SearchIsAddressed` names, which leave it out.

### Disagreements met

Three properties state what a text of the repository says, and the code does
otherwise. Each is refuted by a short trace:

- `ResetInvalidates` (CHANGELOG: password changes invalidate sessions): a login that
  has read and verified the old hash opens its session after the reset has purged.
- `EmptyMeansEmpty` (FilesPage: "This folder is empty"): a first page can be filtered to
  nothing while a cursor says there is more; the page mentions that only under entries.
- `YourFiles` (FilesPage: "Your Files"): the roots cached for one account are listed
  for the next one that signs in.

Others are known, and listed under the hazards with the reason no property covers
them or as the exceptions of one that does:

- *Accounts.* The role a manager's request checks is read before the write, so that a
  promotion in between lets it touch a staff account. An addPermission that fails after
  its insert is answered 409. An update that changes a role back ends no session. A
  grant may rest on permissions that were withdrawn after they were read. An
  administrator may deactivate the own account by update. The last administrator can be
  lost, in the ways of `LastAdminGuarded`. Two runs of the bootstrap may each create an
  administrator (`raced`). A grant whose prefix differs from another of the account in
  case only is refused. The form of a user sends every field and undoes changes made
  since it was loaded. Sessions that a crash has kept from being purged work again when
  the account is enabled.
- *Files.* Keys with `..` are refused and keys with blanks at an end are trimmed to other
  keys, so neither can be downloaded; one folder with `..` in its name makes the listing
  of its parent a 500, for everybody. A signed URL outlives the permission. A capped
  search answers `isTruncated: false`. Overlapping roots give duplicates.
- *Pages.* A late answer to `me`, or a logout that failed, leaves a header that is not the
  cookie's account. Refresh of FilesPage asks nothing again. After a Back that comes before
  the redirect is rendered, the page stays without a folder (`outrun`). A dashboard that is
  open keeps its old numbers. An empty later page of the audit log has no Previous button,
  and rows of one millisecond have no fixed order.
- *Shutdown.* A second SIGTERM, or the timer, cuts off requests under way.

## 4. Proofs

Theorems hold for every value of the constants that satisfies the named
assumptions of the modules (which TLC evaluates in the runs). Every safety property
of the passing runs is proved. `Spec =>` is the specification without fairness; the
liveness theorems are of `FairSpec`, with a hypothesis that states ENABLED: `NeverStuck` of
`Portal`, or the `CanGoOn` of the other modules.

| module | theorem | states |
|---|---|---|
| PortalProofs | `Consistency` | the inductive invariant of the server |
| | `TypeCorrect`, `ReferencesHold` | `Spec => []TypeOK`, `[]NoOrphans` |
| | `EmailsStayUnique`, `GrantsStayUnique`, `TablesStayConsistent` | `Spec => []EmailsUnique`, `[]OneRowPerGrant`, and with `NoOrphans` `[]TablesConsistent` |
| | `DelegationStaysBounded` | `Spec => []DelegationBounded` |
| | `RequestsAreAnswered` | `FairSpec /\ []NeverStuck => EveryRequestAnswered` |
| PortalEffectsProofs | `AnswersAreTrue`, `AuditRowsStay` | `Spec => []AnswersTellTheEffect`, `AuditAppendOnly` |
| | `SessionsStayPurged` | `Spec => []SessionsPurged` |
| | `StaffComesFromAdmins`, `ManagersReachViewers`, `StaffStaysGuarded` | `Spec => StaffOnlyByAdmin`, `StaffReachedOnlyByRace`, and so `StaffGuarded` |
| | `LastAdminStays` | `Spec => LastAdminGuarded` |
| | `ContainmentComposes`, `AccessStaysBounded` | the containment of scopes is transitive; `Spec => []AccessBounded` |
| | `PortalImplementsLedger` | `Spec => ImplementsLedger`, the refinement |
| FileAccessProofs | `WayIsOpen`, `WayIsShown` | from access to a key: every folder above may be listed, and shows the way |
| | `RootsCover`, `RootsWithin` | the roots of a search cover the permissions and stay in the folder |
| | `AnswersWithinGrants` | `Spec => []NothingBeyondGrants` |
| | `Completeness` | the inductive invariant of paging and searching |
| | `FilesTypeCorrect`, `NoPageLeavesOut`, `NoSearchLeavesOut` | `Spec => []TypeOK`, `[]PagesComplete`, `[]SearchComplete` |
| | `NoEntitledRefused` | `Spec => []EntitledNotForbidden` |
| AuditPagesProofs | `RowsAccountedFor` | the inductive invariant that counts rows |
| | `AuditTypeCorrect`, `NoRowIsSkipped` | `Spec => []TypeOK`, `[]NothingSkipped` |
| LifecycleProofs | `Coherence` | the inductive invariant of startup and shutdown |
| | `LifecycleTypeCorrect`, `SetUpFirst` | `Spec => []TypeOK`, `[]SetUpBeforeServing` |
| | `BootstrapSparesAccounts`, `OneAdminWithoutARace`, `BootstrapIsSafe` | `Spec => BootstrapNeverResets`, `SecondOnlyByRace`, and so `BootstrapSafe` |
| | `ShutdownsEnd` | `FairSpec /\ []CanGoOn => ShutdownEnds` |
| | `AttemptsEnd`, `RunsByHandEnd` | `FairSpec /\ []CanGoOn =>` every attempt of a bootstrap ends, and every run but db-init's |
| WebSessionProofs | `TabConsistent` | the inductive invariant of a tab |
| | `TabTypeCorrect`, `SigningOutLasts`, `RedirectionsEnd` | `Spec => []TypeOK`, `[]SignedOutStaysOut`, `[]RedirectsEnd` |
| | `HeaderIsRight` | `Spec => []HeaderAgrees` |
| AdminPagesProofs | `PagesCoherent` | the inductive invariant of the administration pages |
| | `PagesTypeCorrect`, `NoQueryForgotten`, `ButtonsWaitForData` | `Spec => []TypeOK`, `[]OwnChangesShown`, `[]ButtonsWait` |
| | `AwaitsAreMet` | `Spec => []WaitsForAFetch` |
| | `ClicksEnd` | `FairSpec /\ []CanGoOn /\ ComesToRest => EveryClickEnds` |
| FileBrowserProofs | `BrowserConsistent` | the inductive invariant of FilesPage |
| | `BrowserTypeCorrect`, `ListingIsRight`, `NeverBlank`, `DownloadsMatch` | `Spec => []TypeOK`, `[]RightListing`, `[]SomethingShown`, `[]AsksForWhatIsListed` |
| | `PageStaysRight` | `Spec => []PageIsRight`, the three together |
| | `SearchStaysAddressed`, `WayOutOpen` | `Spec => []SearchIsAddressed`, `[]WayOut` |
| | `PagesSettle` | `FairSpec /\ []CanGoOn => SettlesInAFolder` |

**Portal.** `TypeOK` is not inductive: `AddPermission` needs a scope in its call, `Log`
an actor. `Consistent == TypeOK /\ NoOrphans /\ StagesOK` adds what each stage says of
its request (only an addPermission waits at `grants`, whoever is past the session lookup
has a role and a cookie). The first part of `PortalProofs` has one lemma per statement
of the database; a request's step combines the lemma of its statement with one about
moving a request. What the steps have in common is proved once: `StepKinds` says which
actions touch neither the tables nor the history, `ChangesOf` which change which table,
and proofs about one table go through those alone. The unique indexes are invariants of
the statements alone. For delegation the invariant adds that a manager's request at
`write` has a bounded scope (it was contained in a row of the manager's at some time,
and containment is transitive: `WithinAssumption`), and that what administrators granted
only grows.

**Effects and refinement.** Three invariants on top of `Consistent`. `EffectsOK` says of
every stage and every answer whether the change and the audit row of the request are
there: `AnswersTellTheEffect` is what it says of finished requests. `RolesOK` says that a
manager's request to write any role but a viewer's was refused before its write, from
which a staff account is the work of an administrator's request. `PurgesOK` follows the
sessions that a change takes the basis from: until the request has passed its
`deleteMany` those left are of its target, and a session gone does not come back,
because its identifier is not given out again. For the refinement
every action of `Portal` is a step of `AccessLedger` or leaves `Ledger`'s variables alone;
a grant needs `GrantsAllowed`, the bound of delegation in the ledger's terms, and an
insert that `OneRowPerGrant` has kept rows and pairs in step. For
`StaffReachedOnlyByRace` the invariant `LooksOK` says of a manager's request between the
look at its target and the write that it saw a viewer, and that if the account is staff
by now an administrator's update, committed since, gave it the role it has: no other
statement changes a role, and an identifier is not given out again. `LastAdminGuarded` rests
on `LooksOK` and on `OwnOK`, that a request under way to disable or delete is for another
account than its actor's. A step that leaves nobody has changed the one account of its
target, so every administrator there was is the target; an actor who was one would be
the target too, which leaves the own update.

**Access.** `AccessStaysBounded` adds to delegation what the rules make of a prefix. A
text that begins with one prefix begins with those it begins with (`UnderComposes`,
`ContainmentComposes`), so what a scope opens, a containing one opens. For folders a
listing may also be above the scope: then it and the containing scope are two beginnings
of one text, and comparable (`BeginningsCompare`). `ContainmentComposes` is proved without
`WithinAssumption`, which thus asks nothing of the code that the code does not do.

**File access, rules.** Pure facts about prefixes of sequences, without induction.

**File access, bounds.** The invariant `AllBounded` follows a request: the rows first
read are within `held`, `held` contains the grants for as long as the request runs,
whatever has been collected lies within `held`, and what was collected is what is given.
It is needed because the answer is filtered by rows read earlier than the rows the
access check reads. The access rules are monotonic in the rows, which carries facts over
grants that come and go.

**File access, completeness.** The invariant `Complete` joins `AllBounded` and `WorldOK`
with a statement `RequestTrue` of each request: its rows cover what was granted all
along (`RowsCover`), its cursor is one handed out for its folder, and whatever was
stored and visible all along and lies before the token it has reached has been shown by
it or by the pages its cursor comes from (`PagesOK`, `SearchOK`). A page of S3 is the
first elements of what lies behind the token, in the order of texts; the lemmas on
`Less` and `First` say that the order is total and that what is not on the page lies
behind its last element (the least number of a finite set, by well-foundedness).
Searches are the same for one root, with the roots done so far besides; the cap is the
one way to end before the last. `FinitenessAssumption` says that buckets and grants
start finite, without which no listing ends.

**File access, refusals.** `AllTreated` says that between its readings a request that is
entitled to a bucket has chosen that bucket, and that no such request has been answered
403. `Entitles` can only become false: rows held all along get fewer, rows ever held
more, which is all that granting and revoking do.

**Audit pages.** `Inv == LogOK /\ QueriesOK /\ OpenedInOrder /\ Counted`. `Counted` is the
argument: of the newest `p * PageSize` rows, for the pages `1..p` that have been shown, as
many have not been seen as rows have been `lost`, at most. A row's rank is the number of
rows before it (`Ahead`). A row that is logged only pushes others back; a row that stops
matching lets at most one in, and is one more in `lost`. The first answer to a page
arrives while that page is shown, after the page before it (`OpenedInOrder`), so no
page is opened over a gap.

**Lifecycle.** `Coherent` ties the history to the stages: a run past `migrate` has found
every migration applied and none is ever undone (`RunsAgree`); a run that is about to
create has found no administrator, so there is none, or it is in `raced`; in development
an API that was ever started has behind it a db-init that ended well, hence `hadAdmin`
(`ApiAgrees`). `AttemptsLeft`, an attempt to spare for a run that may try again, keeps the
count of attempts in its type.

**WebSession.** `Consistent` joins the types with: an answered login names an account
and a session given out; a tab that signs out or has signed out is not loading (the
layout with its button is held back until the first answer, so no answer to `me` is
to come); and `hops + Distance(tab) <= 3`, where `Distance` is the number of redirects a
tab is from rest. Each redirect lowers the distance; every other step resets `hops`
or leaves both alone. `HeaderAgrees` needs `Agreement` besides: while nothing is doubtful,
the answer to `me` on its way is that of the cookie, and a session opened by a login on
its way is alive, is not the cookie's, and is not one that a logout on its way ends.

**AdminPages.** `Coherent` adds to the types: answers only grow and do not run ahead of
the server (`AnswersGrow`); a call past `answered` is committed (`StagesAgree`); for
every query a call has invalidated so far and that is on screen, either its data or the
fetch that will replace them have the call's effect (`CallsCovered`), or the pair is in
`missed`; the same of what a page entered since the commit has asked for
(`EntriesCovered`), on screen or not; and what a call no longer awaits has arrived or
failed (`CallsWait`). `WaitsForAFetch` is inductive on top of it.

**FileBrowser.** `Consistent == TypeOK /\ CacheOK /\ ObservedOK /\ AsksForWhatIsListed`:
each cached listing, and each on its way, answers the question it is kept for, and every
question observed is answered, asked or failed. `AsksForWhatIsListed` follows from the
key, which names the bucket. `SearchIsAddressed` is inductive on top of it: each input
sets the address and the search together, or is recorded in `strayed`.

**Liveness.** The provers know nothing of ENABLED, so each theorem has as a hypothesis
where the fair action is enabled (`NeverStuck`, `CanGoOn`). These hypotheses are
statements about the model's guards, that they leave no gap, and say nothing of the code
by themselves, so no run lists them as properties; the runs check the liveness
properties themselves, which would fail with them. Everything else is proved. Each chain
of awaits walks forwards. A handler's stage only advances, by its own steps
(`RequestsAreAnswered`: one weak-fairness step per stage, chained from the last one
back). A bootstrap goes from its stage to a later one or ends its attempt
(`AttemptsEnd`). A call of a button has four levels: sent, answered, first invalidation,
second; at each it either goes on by itself or waits for fetches under way, which
`AwaitsAreMet` says there are, and which all have arrived when the tab comes to rest
(`ClicksEnd`). A page without a folder has its effect due or an address to render
(`WayOutOpen`), and either step leads to a folder (`PagesSettle`). A timer set at the
signal stays set until the process is gone (`ShutdownsEnd`).

**Model-checked only.** `ComesToRest`, and `EveryRunEnds` for db-init: each is an
induction over a number (`MaxInputs` calls that may restart a fetch, `MaxAttempts`
attempts), and the library's induction theorems take an operator as a parameter, which
the provers cannot instantiate. No theorem rests on induction over data: the rules and
the order of texts are stated without recursion, and no module declares a RECURSIVE
operator.

## 5. Not modelled, and why

- **Origin and CSRF checks, HTTPS, rate limits, headers, CORS**: requests are taken
  to have passed them. The rate limiter's counters are the plugin's own.
- **Names, lengths, wording, timestamps** of rows and forms: no property depends on them.
  So are the contents of the administration forms; what is lost when two administrators
  save the same form is under the hazards.
- **Presigned URLs**: abstracted to the key they are for. Their expiry is S3's.
- **S3 itself**: a set of keys listed in order, strongly consistent, as
  `ListObjectsV2` is used in `s3.service.ts`.
- **Configuration, types, theme and presentation, nginx, images, the web container**: no
  behaviour over time. A configuration that is refused is a start that fails.
- **The query cache beyond section 2**: garbage collection, fetches and mutations paused
  offline, refetches on focus and reconnect; an answer that overtakes a later one of
  the same query, which the library prevents by cancelling.
- **The client beyond section 2**: cookies that expire in the browser, more than one
  login or logout call of one tab at a time, a full reload of FilesPage (which is `Init` of
  `FileBrowser`), the list and grid toggle, the link for screen readers to the home page,
  users beyond the first 50 of the list, React's StrictMode, which production
  builds do not have.
- **Calls that commit after their answer was given up**: in `AdminPages` a call whose
  connection broke either has been carried out by then or never is.

## 6. Order of the work, and what could follow

Written in this order: `Database` and `Portal` with `AccessLedger`; `AccessRules` and
`FileAccess`; `AuditPages`; `WebSession`; `Lifecycle`; `QueryCache` with `AdminPages` and
`FileBrowser`; the proofs of each after its runs passed, the refinement of `AccessLedger`
and the completeness of paging last.

What could follow:

1. `RequestGate`: the origin and CSRF checks of the preHandler, with tokens of sessions
   that change between tabs, composed with `WebSession`.
2. `FileBrowser` over `FileAccess`: listings that were cached when permissions change.
   (The client never sends a cursor: it only says that there is more.)
3. The paging of the users list, which the client asks for its first page only.
4. Lost updates of the user form, once two administrators' tabs are in one module.
