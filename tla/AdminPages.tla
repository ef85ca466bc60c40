------------------------------ MODULE AdminPages ------------------------------
(***************************************************************************)
(* The administration pages of one tab: the list of users, the page of one *)
(* account and its permissions, and the dashboard, which has no buttons.   *)
(* Each button makes one call; when it has been answered the page          *)
(* invalidates the queries it names and waits for those on screen, while   *)
(* the tab may be elsewhere.                                               *)
(*                                                                         *)
(* Portal is what the calls do.  Here an answer to a query is the set of   *)
(* the tab's own calls that were committed when it was read, which is what *)
(* the properties can tell apart; whatever others do shows as a refusal.   *)
(***************************************************************************)
EXTENDS Naturals, Sequences

CONSTANTS
    Term,       \* what the search box of the list may hold
    Starts,     \* the pages on which the tab may be loaded
    MaxInputs,  \* bound: buttons pressed, pages visited and terms typed
    MaxMoves,   \* bound: the latter two
    None, Sent  \* see QueryCache

ASSUME AdminPagesAssumption ==
    /\ MaxInputs \in Nat /\ MaxMoves \in Nat
    /\ Starts \subseteq Term \cup {"user", "permissions", "dashboard", "elsewhere"}
    /\ Term \cap {"user", "permissions", "summary", "activity", "dashboard", "elsewhere"} = {}
    /\ None # Sent /\ \A S \in SUBSET (1..MaxInputs) : S \notin {None, Sent}

VARIABLES
    view,       \* the page on screen; of the list, its term
    queries,    \* the query cache
    calls,      \* the mutations, in the order they were made
    committed,  \* calls the server has carried out
    \* history variables
    here,       \* calls made since the view last changed
    missed,     \* a call, and a query whose fetch under way it could not restart
    entered,    \* a committed call, and a query showing it that a page entered since asked
    moves

vars == <<view, queries, calls, committed, here, missed, entered, moves>>

INSTANCE QueryCache

Call == 1..MaxInputs

\* Query keys: ['admin-users', q] for each q, ['admin-user', id],
\* ['user-permissions', id], ['admin-users-summary'], ['admin-audit-summary'].
Key == Term \cup {"user", "permissions", "summary", "activity"}

View == Term \cup {"user", "permissions", "dashboard", "elsewhere"}

\* The queries that the page on screen observes.
OnScreen ==
    CASE view = "elsewhere" -> {}
      [] view = "permissions" -> {"user", "permissions"}
      [] view = "dashboard" -> {"summary", "activity"}
      [] OTHER -> {view}

ListKind == {"create", "toggle", "delete"}
PermissionKind == {"add", "remove"}
Kind == ListKind \cup PermissionKind \cup {"save", "reset"}

(* Mutant of Invalidates: the page of an account forgets the list.         *)
MutantInvalidates(kind) ==
    CASE kind \in ListKind -> <<Term>>
      [] kind = "save" -> <<{"user"}>>
      [] kind = "reset" -> <<>>
      [] OTHER -> <<{"permissions"}, Term>>

\* What onSuccess invalidates, one await after the other.
Invalidates(kind) ==
    CASE kind \in ListKind -> <<Term>>
      [] kind = "save" -> <<{"user"}, Term>>
      [] kind = "reset" -> <<>>
      [] OTHER -> <<{"permissions"}, Term>>

\* other: the call is for another account than the one whose pages are modelled.
\* mine: the component that made the call is still mounted, so its button
\* knows that the call is pending; of no use afterwards.
CallState ==
    [kind: Kind, other: BOOLEAN, stage: {"sent", "answered", "settling", "ended", "failed"},
     step: 0..2, awaits: SUBSET Key, mine: BOOLEAN]

\* What the pages render.  The list: name, e-mail, role, whether active, number of
\* permissions.  The page of the account: its name, e-mail and role, or that it is
\* not found.  Its permissions.  The dashboard: the number of users, the last actions.
ShownBy(call) ==
    LET gone == call.kind = "delete" /\ ~call.other
    IN  {k \in Key :
            \/ k \in Term /\ call.kind # "reset"
            \/ k = "user" /\ (call.kind = "save" \/ gone)
            \/ k = "permissions" /\ (call.kind \in PermissionKind \/ gone)
            \/ k = "summary" /\ call.kind \in {"create", "delete"}
            \/ k = "activity"}

Pending(c) == calls[c].stage \in {"sent", "answered", "settling"}

Made == DOMAIN calls

Init ==
    /\ view \in Starts
    /\ queries = [k \in Key |-> IF k \in OnScreen THEN Asked(NewQuery) ELSE NewQuery]
    /\ calls = <<>>
    /\ committed = {}
    /\ here = {} /\ missed = {} /\ entered = {} /\ moves = 0

-----------------------------------------------------------------------------
(* The tab.                                                                *)

(* Mutant of Unmounted: calls under way are dropped with their page.       *)
MutantUnmounted == <<>>

\* They go on, and so do their callbacks.
Unmounted == [c \in Made |-> [calls[c] EXCEPT !.mine = FALSE]]

InputLeft == Len(calls) + moves < MaxInputs

\* A page mounts with its queries; a term typed changes the query of the list,
\* whose page stays mounted.
Show(v) ==
    /\ InputLeft /\ moves < MaxMoves /\ v # view
    /\ view' = v
    /\ queries' = [k \in Key |-> IF k \in OnScreen' THEN Mounted(queries[k]) ELSE queries[k]]
    /\ calls' = IF {view, v} \subseteq Term THEN calls ELSE Unmounted
    /\ here' = {}
    /\ entered' = entered \cup
           {due \in committed \X OnScreen' :
               due[2] \in ShownBy(calls[due[1]]) /\ ~Fetching(queries[due[2]])}
    /\ moves' = moves + 1
    /\ UNCHANGED <<committed, missed>>

\* The buttons on screen.  The form to create a user and the one to add a
\* permission show without data.
Offered(kind) ==
    CASE kind = "create" -> view \in Term
      [] kind \in ListKind -> view \in Term /\ queries[view].data # None
      [] kind \in {"save", "reset"} -> view = "user" /\ queries["user"].data # None
      [] OTHER -> /\ view = "permissions"
                  /\ ~Loading(queries["user"]) /\ ~Loading(queries["permissions"])
                  /\ kind = "remove" => queries["permissions"].data # None

\* disabled={isPending}
Enabled(kind) ==
    Offered(kind) /\ \A c \in Made : calls[c].kind = kind => ~calls[c].mine

\* A row of the list is any account's; a new account is another one.
Concerns(kind, other) ==
    CASE kind = "create" -> other
      [] kind \in ListKind -> TRUE
      [] OTHER -> ~other

Click(kind, other) ==
    /\ InputLeft /\ Enabled(kind) /\ Concerns(kind, other)
    /\ calls' = Append(calls, [kind |-> kind, other |-> other, stage |-> "sent", step |-> 0,
                               awaits |-> {}, mine |-> TRUE])
    /\ here' = here \cup {Len(calls) + 1}
    /\ UNCHANGED <<view, queries, committed, missed, entered, moves>>

(* Mutants of Awaited: onSuccess does not return its promise; every query  *)
(* of the key is waited for, also those nobody refetches.                  *)
MutantAwaited(keys) == {}

MutantAwaitedAll(keys) == keys

\* invalidateQueries refetches what is on screen, and its promise waits for it.
Awaited(keys) == keys \cap OnScreen

\* A fetch under way that will not be asked again: of a query off screen, or
\* one that is joined.
Misses(k) == Fetching(queries[k]) /\ (k \notin OnScreen \/ Joins(queries[k]))

\* onSuccess, from its n-th invalidation on.
GoesOn(c, n) ==
    IF n > Len(Invalidates(calls[c].kind))
    THEN /\ calls' = [calls EXCEPT ![c].stage = "ended", ![c].step = 0, ![c].mine = FALSE]
         /\ UNCHANGED <<queries, missed>>
    ELSE LET keys == Invalidates(calls[c].kind)[n]
         IN  /\ calls' = [calls EXCEPT ![c].stage = "settling", ![c].step = n,
                                       ![c].awaits = Awaited(keys)]
             /\ queries' = [k \in Key |-> IF k \in keys \cap OnScreen
                                          THEN Invalidated(queries[k]) ELSE queries[k]]
             /\ missed' = missed \cup {<<c, k>> : k \in {j \in keys : Misses(j)}}

Answer(c) ==
    /\ calls[c].stage = "answered"
    /\ GoesOn(c, 1)
    /\ UNCHANGED <<view, committed, here, entered, moves>>

Proceed(c) ==
    /\ calls[c].stage = "settling" /\ calls[c].awaits = {}
    /\ GoesOn(c, calls[c].step + 1)
    /\ UNCHANGED <<view, committed, here, entered, moves>>

\* Refused, or its answer lost: onError, if there is one, only shows it.
CallFails(c) ==
    /\ calls[c].stage \in {"sent", "answered"}
    /\ calls' = [calls EXCEPT ![c].stage = "failed", ![c].mine = FALSE]
    /\ UNCHANGED <<view, queries, committed, here, missed, entered, moves>>

(* Mutant of Released: the waiters of a fetch are forgotten.               *)
MutantReleased(k) == calls

\* Whoever awaits the fetch of k goes on, in time or by piggyback on a later one.
Released(k) == [c \in Made |-> [calls[c] EXCEPT !.awaits = @ \ {k}]]

(* Mutant of Arrive: the page asks again at once.                          *)
MutantArrive(k) ==
    /\ queries[k].fetch \notin {None, Sent}
    /\ queries' = [queries EXCEPT ![k] = Asked(Settled(@))]
    /\ calls' = Released(k)
    /\ UNCHANGED <<view, committed, here, missed, entered, moves>>

Arrive(k) ==
    /\ queries[k].fetch \notin {None, Sent}
    /\ queries' = [queries EXCEPT ![k] = Settled(@)]
    /\ calls' = Released(k)
    /\ UNCHANGED <<view, committed, here, missed, entered, moves>>

\* Refused, or its answer lost, which comes to the same: a query changes nothing.
FetchFails(k) ==
    /\ queries[k].fetch = Sent
    /\ queries' = [queries EXCEPT ![k] = Failed(@)]
    /\ calls' = Released(k)
    /\ UNCHANGED <<view, committed, here, missed, entered, moves>>

-----------------------------------------------------------------------------
(* The server.                                                             *)

\* The account whose pages are modelled.
Deleted == \E c \in committed : calls[c].kind = "delete" /\ ~calls[c].other

\* ensureUser finds no deleted account.
Commit(c) ==
    /\ calls[c].stage = "sent"
    /\ Deleted => calls[c].other
    /\ calls' = [calls EXCEPT ![c].stage = "answered"]
    /\ committed' = committed \cup {c}
    /\ UNCHANGED <<view, queries, here, missed, entered, moves>>

\* getById and listPermissions reject without the account.
Serve(k) ==
    /\ queries[k].fetch = Sent
    /\ Deleted => k \notin {"user", "permissions"}
    /\ queries' = [queries EXCEPT ![k] = Served(@, committed)]
    /\ UNCHANGED <<view, calls, committed, here, missed, entered, moves>>

CallStep(c) == Commit(c) \/ Answer(c) \/ Proceed(c) \/ CallFails(c)

FetchStep(k) == Serve(k) \/ Arrive(k) \/ FetchFails(k)

Next ==
    \/ \E v \in View : Show(v)
    \/ \E kind \in Kind, other \in BOOLEAN : Click(kind, other)
    \/ \E c \in Made : CallStep(c)
    \/ \E k \in Key : FetchStep(k)

Spec == Init /\ [][Next]_vars

\* The server answers or the connection breaks, and the tab runs what is due.
\* Nobody has to press a button or go anywhere.
GoOn(c) == c \in Made /\ CallStep(c)

CallFair(c) == WF_vars(GoOn(c))
FetchFair(k) == WF_vars(FetchStep(k))

FairSpec ==
    /\ Spec
    /\ \A c \in Call : CallFair(c)
    /\ \A k \in Key : FetchFair(k)

-----------------------------------------------------------------------------
(* Properties.                                                             *)

TypeOK ==
    /\ view \in View
    /\ queries \in [Key -> Query(SUBSET Call)]
    /\ calls \in Seq(CallState) /\ Len(calls) + moves <= MaxInputs
    /\ committed \subseteq Made /\ here \subseteq Made
    /\ missed \subseteq Call \X Key /\ entered \subseteq committed \X Key
    /\ moves \in Nat

\* The queries of the page that has the button, and the list it was reached from.
NearBy(kind) ==
    CASE kind \in ListKind -> Term
      [] kind \in {"save", "reset"} -> {"user"} \cup Term
      [] OTHER -> {"user", "permissions"} \cup Term

\* c has ended well and k, on screen and near its button, should show it; a fetch
\* that was under way and was not restarted is the one way round it.
Due(c, k) ==
    /\ calls[c].stage = "ended" /\ <<c, k>> \notin missed
    /\ k \in ShownBy(calls[c]) \cap NearBy(calls[c].kind) \cap OnScreen

\* c was committed when the page on screen, or an earlier one with k, was entered.
DueSince(c, k) == <<c, k>> \in entered /\ k \in OnScreen

\* No page at rest shows the state before a call: wherever the tab has gone since,
\* if it shows the account or the list that the call was made on and the call has
\* ended (the invalidations of UsersPage, UserDetailPage and UserPermissionsPage);
\* and every page, the dashboard included, if it was entered after the commit.  A
\* dashboard entered before keeps its old number of users: nothing invalidates it.
OwnChangesShown ==
    \A c \in Made, k \in Key :
        LET query == queries[k]
        IN  /\ Due(c, k) \/ DueSince(c, k)
            /\ ~Fetching(query) /\ ~query.failed /\ query.data # None
            => c \in query.data

\* A button that can be pressed again after its call has ended well stands, on
\* the same view, over data that have the effect of the call: the pages await
\* their invalidations before isPending ends.
ButtonsWait ==
    \A c \in here, k \in Key :
        Due(c, k) => queries[k].failed \/ (queries[k].data # None /\ c \in queries[k].data)

\* No call waits for a fetch that nobody makes: not for a query that left the
\* screen before it was asked, nor for one whose fetch has arrived, failed or
\* been restarted by another call (invalidateQueries and its promise).
WaitsForAFetch ==
    \A c \in Made : \A k \in calls[c].awaits : Fetching(queries[k])

\* Not checked, but the hypothesis of ClicksEnd: a call that waits for nothing has
\* a next step.  It says no more than that the guards of CallStep leave no gap.
CanGoOn ==
    \A c \in Made : Pending(c) /\ calls[c].awaits = {} => ENABLED <<GoOn(c)>>_vars

AtRest == \A k \in Key : ~Fetching(queries[k])

\* The tab comes to rest again and again: no answer sets off another fetch.
ComesToRest == []<>AtRest

\* Every button pressed is released, whatever other calls, refetches and moves
\* come between.
EveryClickEnds == \A c \in Call : (c \in Made /\ Pending(c)) ~> ~(c \in Made /\ Pending(c))
=============================================================================
