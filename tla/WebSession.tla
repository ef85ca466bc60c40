----------------------------- MODULE WebSession -----------------------------
(***************************************************************************)
(* Who the web client believes is signed in: a tab of a browser, the       *)
(* session cookie it shares with other tabs, and the server behind it.     *)
(*                                                                         *)
(* A tab learns its account from the answer to GET /me, once when it loads *)
(* and never again, and from the answer to a login; a logout makes it      *)
(* forget.  Meanwhile other tabs, expiry and administrators change what    *)
(* the cookie stands for.  The same tab keeps a query cache, here for one  *)
(* query, the roots of FilesPage, and follows the redirects of the router. *)
(*                                                                         *)
(* The server is Portal seen from outside: sessions that live and end.     *)
(* Other tabs touch this one only through the cookie and the sessions.     *)
(***************************************************************************)
EXTENDS Naturals

CONSTANTS
    Account, Session,
    RoleOf,           \* the role of each account, as me answers it
    MaxLoads,         \* bound: how often the tab is loaded anew
    None              \* no account, no session, no call, no answer yet

ASSUME RoleAssumption == RoleOf \in [Account -> {"ADMIN", "MANAGER", "VIEWER"}]
ASSUME MaxLoadsAssumption == MaxLoads \in Nat

VARIABLES
    live,       \* the sessions the server honours, with their accounts
    spent,      \* session identifiers ever given out
    jar,        \* the session cookie of the browser
    tab,        \* the state of the tab
    loads,      \* how often it was loaded anew
    \* history variables
    left,       \* it was signed out, and has not loaded or signed in since
    doubtful,   \* since it loaded, something went wrong or raced (see HeaderAgrees)
    hops        \* redirects in a row

vars == <<live, spent, jar, tab, loads, left, doubtful, hops>>

Protected == {"/", "/files", "/admin", "/admin/users"}
Path == Protected \cup {"/login", "/other"}

Kind == {"me", "login", "logout", "roots"}

\* What a call of request() comes to; anything but an ok response throws.
Outcome == [ok: BOOLEAN, account: Account \cup {None}, session: Session \cup {None}]
Failure == [ok |-> FALSE, account |-> None, session |-> None]
Success(a, s) == [ok |-> TRUE, account |-> a, session |-> s]

\* A call under way: the cookie it was sent with and, for a login, the account.
Sent(cookie, a) == [cookie |-> cookie, account |-> a, answer |-> None]

Call == [cookie: Session \cup {None}, account: Account \cup {None}, answer: Outcome \cup {None}]

ASSUME NoneAssumption == None \notin Account \cup Session /\ None \notin Call \cup Outcome

TabState ==
    [user: Account \cup {None}, loading: BOOLEAN, path: Path, from: Protected \cup {None},
     roots: Account \cup {None}, calls: [Kind -> Call \cup {None}]]

Holder(s) == IF s \in DOMAIN live THEN live[s] ELSE None

-----------------------------------------------------------------------------
(* The router.                                                             *)

(* Mutant of HomePath: managers are sent to the dashboard. *)
MutantHomePath(role) == IF role = "VIEWER" THEN "/files" ELSE "/admin"

HomePath(role) ==
    CASE role = "ADMIN" -> "/admin" [] role = "MANAGER" -> "/admin/users" [] OTHER -> "/files"

RolesFor(path) ==
    CASE path = "/admin" -> {"ADMIN"}
      [] path = "/admin/users" -> {"ADMIN", "MANAGER"}
      [] OTHER -> {"ADMIN", "MANAGER", "VIEWER"}

LandingPath(x, a) == IF x.from = None THEN HomePath(RoleOf[a]) ELSE x.from

(* Mutant of LayoutShown: the layout does not wait for the first answer. *)
MutantLayoutShown(x) ==
    /\ x.path \in Protected /\ x.user # None
    /\ RoleOf[x.user] \in RolesFor(x.path)

\* ProtectedRoute lets the layout and its page through.
LayoutShown(x) ==
    /\ x.path \in Protected /\ ~x.loading /\ x.user # None
    /\ RoleOf[x.user] \in RolesFor(x.path)

FilesShown(x) == LayoutShown(x) /\ x.path = "/files"

FormShown(x) == x.path = "/login" /\ (x.loading \/ x.user = None)

At(x, path, from) == [x EXCEPT !.path = path, !.from = from]

-----------------------------------------------------------------------------
(* The tab.                                                                *)

(* Mutant of Fresh: a tab does not begin as loading. *)
MutantFresh(path, from, cookie) ==
    [user |-> None, loading |-> FALSE, path |-> path, from |-> from, roots |-> None,
     calls |-> [k \in Kind |-> IF k = "me" THEN Sent(cookie, None) ELSE None]]

\* A tab that has just loaded: useAuth asks who it is.
Fresh(path, from, cookie) ==
    [user |-> None, loading |-> TRUE, path |-> path, from |-> from, roots |-> None,
     calls |-> [k \in Kind |-> IF k = "me" THEN Sent(cookie, None) ELSE None]]

(* Mutant of ApplyMe: the account is not taken over from the answer. *)
MutantApplyMe(x, a) == x

ApplyMe(x, a) == [x EXCEPT !.user = a]

\* A page that comes into view asks for the roots, with the cookie of the
\* moment, unless they are being asked for; what is cached is shown meanwhile.
Render(x, cookie) ==
    tab' = IF FilesShown(x) /\ ~FilesShown(tab) /\ x.calls["roots"] = None
           THEN [x EXCEPT !.calls["roots"] = Sent(cookie, None)] ELSE x

Send(kind, a) == Render([tab EXCEPT !.calls[kind] = Sent(jar, a)], jar)

Calling(kind) == tab.calls[kind] # None

Without(kind, x) == [x EXCEPT !.calls[kind] = None]

\* How a call may end: with its answer, or in a network error or a 5xx,
\* whether or not the server has carried it out.
Outcomes(kind) == {Failure} \cup ({tab.calls[kind].answer} \ {None})

Init ==
    /\ \/ jar = None /\ live = [s \in {} |-> None]
       \/ jar \in Session /\ \E a \in Account : live = [s \in {jar} |-> a]
    /\ spent = DOMAIN live
    /\ \E path \in Path : tab = Fresh(path, None, jar)
    /\ loads = 0
    /\ left = FALSE /\ doubtful = FALSE
    /\ hops = 0

-----------------------------------------------------------------------------
(* The server, and the other tabs.                                         *)

Opens(s, a) ==
    /\ s \in Session \ spent /\ spent' = spent \cup {s}
    /\ live' = [x \in DOMAIN live \cup {s} |-> IF x = s THEN a ELSE live[x]]

Ends(s) == live' = [x \in DOMAIN live \ {s} |-> live[x]]

Answers(kind, outcome) ==
    /\ tab' = [tab EXCEPT !.calls[kind].answer = outcome]
    /\ UNCHANGED <<jar, loads, left, doubtful, hops>>

Unserved(kind) == Calling(kind) /\ tab.calls[kind].answer = None

\* me and roots answer for the account of the cookie, or 401.
ServeQuery(kind) ==
    /\ kind \in {"me", "roots"} /\ Unserved(kind)
    /\ LET a == Holder(tab.calls[kind].cookie)
       IN  Answers(kind, IF a = None THEN Failure ELSE Success(a, None))
    /\ UNCHANGED <<live, spent>>

ServeLogin ==
    /\ Unserved("login")
    /\ \/ \E s \in Session : LET a == tab.calls["login"].account
                             IN  Opens(s, a) /\ Answers("login", Success(a, s))
       \/ Answers("login", Failure) /\ UNCHANGED <<live, spent>>

ServeLogout ==
    /\ Unserved("logout")
    /\ LET s == tab.calls["logout"].cookie
       IN  \/ s \in DOMAIN live /\ Ends(s) /\ Answers("logout", Success(None, None))
           \/ s \notin DOMAIN live /\ Answers("logout", Failure) /\ UNCHANGED live
    /\ UNCHANGED spent

\* A session expires, or somebody else ends it.
End(s) ==
    /\ s \in DOMAIN live /\ Ends(s)
    /\ doubtful' = TRUE
    /\ UNCHANGED <<spent, jar, tab, loads, left, hops>>

\* Another tab has its login or its logout answered.
Elsewhere ==
    /\ \/ \E s \in Session, a \in Account : Opens(s, a) /\ jar' = s
       \/ jar' = None /\ UNCHANGED <<live, spent>>
    /\ doubtful' = TRUE
    /\ UNCHANGED <<tab, loads, left, hops>>

-----------------------------------------------------------------------------
(* The client.                                                             *)

\* A page is opened, or opened again: its location keeps its state.
Load ==
    /\ loads < MaxLoads /\ loads' = loads + 1
    /\ \/ tab' = Fresh(tab.path, tab.from, jar)
       \/ \E path \in Path : tab' = Fresh(path, None, jar)
    /\ left' = FALSE /\ doubtful' = FALSE /\ hops' = 0
    /\ UNCHANGED <<live, spent, jar>>

\* refresh: whatever goes wrong, nobody is signed in; then loading ends.
MeEnds ==
    /\ Calling("me")
    /\ \E o \in Outcomes("me") :
          /\ Render(Without("me", [ApplyMe(tab, o.account) EXCEPT !.loading = FALSE]), jar)
          /\ doubtful' = (doubtful \/ o # tab.calls["me"].answer)
    /\ hops' = 0
    /\ UNCHANGED <<live, spent, jar, loads, left>>

\* The form does not wait for the answer to me.  One login at a time.
SubmitLogin ==
    /\ FormShown(tab) /\ ~Calling("login")
    /\ \E a \in Account : Send("login", a)
    /\ hops' = 0
    /\ UNCHANGED <<live, spent, jar, loads, left, doubtful>>

\* login, then navigate: the new account may be rendered first, and the login
\* page then sends the tab where it came from.
SignedIn(o) ==
    LET x == ApplyMe(Without("login", tab), o.account)
    IN  /\ jar' = o.session
        /\ \/ Render(At(x, HomePath(RoleOf[o.account]), None), jar')
           \/ tab.path = "/login" /\ ~tab.loading
              /\ Render(At(x, LandingPath(tab, o.account), None), jar')
        /\ left' = FALSE
        /\ doubtful' = (doubtful \/ Calling("me"))

\* After ok headers the connection may break: the cookie is set all the same.
LoginEnds ==
    /\ Calling("login")
    /\ \/ \E o \in Outcomes("login") :
             \/ o.ok /\ SignedIn(o)
             \/ ~o.ok /\ Render(Without("login", tab), jar) /\ UNCHANGED <<jar, left, doubtful>>
             \/ /\ o.ok /\ jar' = o.session /\ doubtful' = TRUE
                /\ Render(Without("login", tab), jar') /\ UNCHANGED left
    /\ hops' = 0
    /\ UNCHANGED <<live, spent, loads>>

\* One logout at a time.
SubmitLogout ==
    /\ LayoutShown(tab) /\ ~Calling("logout")
    /\ Send("logout", None)
    /\ hops' = 0
    /\ UNCHANGED <<live, spent, jar, loads, left, doubtful>>

\* The account is forgotten whatever the outcome.  After an ok the tab goes to
\* the login page; the route it leaves may add where it was.
LogoutEnds ==
    /\ Calling("logout")
    /\ \E o \in Outcomes("logout") :
        LET x == ApplyMe(Without("logout", tab), None)
        IN  \/ /\ o.ok /\ jar' = None
               /\ \E from \in {None} \cup ({tab.path} \cap Protected) :
                      Render(At(x, "/login", from), jar')
               /\ UNCHANGED doubtful
            \/ ~o.ok /\ Render(x, jar) /\ doubtful' = TRUE /\ UNCHANGED jar
    /\ left' = TRUE /\ hops' = 0
    /\ UNCHANGED <<live, spent, loads>>

\* A query that fails is made once more, and then given up.  The number of
\* attempts is left out.
RootsEnd ==
    /\ Calling("roots")
    /\ \E o \in Outcomes("roots") :
        LET x == Without("roots", tab)
        IN  \/ o.ok /\ Render([x EXCEPT !.roots = o.account], jar)
            \/ ~o.ok /\ Render(x, jar)
            \/ ~o.ok /\ Send("roots", None)
    /\ UNCHANGED <<live, spent, jar, loads, left, doubtful, hops>>

\* The links of the layout.
Visit ==
    /\ LayoutShown(tab)
    /\ \E path \in Protected \ {"/"} :
          RoleOf[tab.user] \in RolesFor(path) /\ Render(At(tab, path, None), jar)
    /\ hops' = 0
    /\ UNCHANGED <<live, spent, jar, loads, left, doubtful>>

Goes(path, from) ==
    /\ Render(At(tab, path, from), jar)
    /\ hops' = hops + 1
    /\ UNCHANGED <<live, spent, jar, loads, left, doubtful>>

Known == ~tab.loading /\ tab.user # None

\* The routes of AppRouter: an address there is no page for; ProtectedRoute,
\* without and with roles; HomeRedirect; LoginPage.
RedirectUnknown == tab.path = "/other" /\ Goes("/", None)

RedirectToLogin ==
    tab.path \in Protected /\ ~tab.loading /\ tab.user = None /\ Goes("/login", tab.path)

RedirectByRole == tab.path \in Protected /\ Known /\ ~LayoutShown(tab) /\ Goes("/", None)

RedirectHome == tab.path = "/" /\ Known /\ Goes(HomePath(RoleOf[tab.user]), None)

RedirectFromLogin == tab.path = "/login" /\ Known /\ Goes(LandingPath(tab, tab.user), None)

Redirect ==
    RedirectUnknown \/ RedirectToLogin \/ RedirectByRole \/ RedirectHome \/ RedirectFromLogin

Next ==
    \/ \E kind \in Kind : ServeQuery(kind)
    \/ ServeLogin \/ ServeLogout \/ (\E s \in Session : End(s)) \/ Elsewhere
    \/ Load \/ MeEnds \/ SubmitLogin \/ LoginEnds
    \/ SubmitLogout \/ LogoutEnds \/ RootsEnd \/ Visit \/ Redirect

Spec == Init /\ [][Next]_vars

-----------------------------------------------------------------------------
(* Properties.                                                             *)

TypeOK ==
    /\ DOMAIN live \subseteq spent /\ spent \subseteq Session
    /\ \A s \in DOMAIN live : live[s] \in Account
    /\ jar \in spent \cup {None}
    /\ tab \in TabState
    /\ tab.loading <=> Calling("me")
    /\ loads \in 0..MaxLoads /\ left \in BOOLEAN /\ doubtful \in BOOLEAN /\ hops \in Nat

\* Signing out lasts: a tab that has been signed out shows nobody until it
\* loads again or signs somebody in.  The answer to me, under way since the
\* load, could come after the logout, did ProtectedRoute not keep the layout
\* with its button back until then (useAuth.refresh and logout).
SignedOutStaysOut == left => tab.user = None

\* A tab shows the account of the browser's cookie, or nobody when the cookie
\* is not honoured, whenever it has loaded and is not signing out, unless
\* since it loaded: another tab or the server changed what the cookie stands
\* for; me or logout failed, or a login after its headers; or a login was
\* answered before me (useAuth.login, logout and refresh, in any order).
HeaderAgrees ==
    ~doubtful /\ ~tab.loading /\ ~Calling("logout") => tab.user = Holder(jar)

\* The redirects of the router, of the login page and of HomeRedirect never
\* chase each other: from any address, in any state of the tab, three in a row
\* lead to a page.
RedirectsEnd == hops <= 3

-----------------------------------------------------------------------------
(* What the page says and the code does not do.                            *)

\* "Your Files" (FilesPage.tsx:103): the roots the page lists are those of the
\* account it greets, when nothing was raced, failed or changed by others.
YourFiles ==
    ~doubtful /\ FilesShown(tab) /\ tab.roots # None => tab.roots = tab.user
=============================================================================
