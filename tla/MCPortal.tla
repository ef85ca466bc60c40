------------------------------ MODULE MCPortal ------------------------------
(***************************************************************************)
(* Instances of Portal for TLC: an administrator, a manager and a viewer,  *)
(* each with an open session, a viewer without one, and two identifiers of *)
(* every kind to spare.                                                    *)
(***************************************************************************)
EXTENDS PortalAccess, TLC

CONSTANTS
    ada, max, vic, wil, u5, u6,               \* accounts
    adasCookie, maxsCookie, vicsCookie, s4, s5,
    p1, p2, p3, p4, p5,                       \* permissions
    r1, r2                                    \* requests

MCUserId == {ada, max, vic, wil, u5, u6}
MCSessionId == {adasCookie, maxsCookie, vicsCookie, s4, s5}
MCPermissionId == {p1, p2, p3, p4}
MorePermissionId == MCPermissionId \cup {p5}
MCAction == {"create", "update", "disable", "enable", "delete", "resetPassword",
             "addPermission", "removePermission", "login", "logout"}

\* "new@" and "NEW@" are one address to the index.
MCEmail == {"ada@", "max@", "vic@", "wil@", "new@", "NEW@"}
MCCollated == [e \in MCEmail |-> IF e = "NEW@" THEN "new@" ELSE e]

\* docs is a whole bucket, docsA, docsAB and docsABC are folders one in the other,
\* docsa is docsA to the index and another folder to the access rules, mailA is in
\* a bucket that is not configured.
In(bucket, prefix) == [bucket |-> bucket, prefix |-> prefix]
docs == In("docs", <<>>)
docsA == In("docs", <<1>>)
docsa == In("docs", <<5>>)
docsAB == In("docs", <<1, 2>>)
docsABC == In("docs", <<1, 2, 3>>)
mailA == In("mail", <<1>>)
MCScope == {docs, docsA, docsa, docsAB, docsABC, mailA}
MCCollatedScope == [s \in MCScope |-> IF s = docsa THEN docsA ELSE s]
MCRoots == {docs}
MCConfigured == MCScope \ {mailA}
MCWithin == {w \in MCScope \X MCScope : Contains(w[2], w[1])}

\* Objects in one folder more each, two of them named like a folder, and one
\* whose key the rules take for another's.
MCName == 0..5
MCKey == {<<1, 4>>, <<1, 2>>, <<1, 2, 3>>, <<4, 0>>}
MCPrefix == {s.prefix : s \in MCScope}
MCOdd == <<4, 0>> :> <<1, 4>>

Account(email, role) ==
    [email |-> email, role |-> role, isActive |-> TRUE, passwordHash |-> "old"]
MCUsers == ada :> Account("ada@", "ADMIN") @@ max :> Account("max@", "MANAGER")
           @@ vic :> Account("vic@", "VIEWER") @@ wil :> Account("wil@", "VIEWER")

Session(u) == [userId |-> u, expired |-> FALSE, password |-> "old"]
MCSessions == adasCookie :> Session(ada) @@ maxsCookie :> Session(max)
              @@ vicsCookie :> Session(vic)

\* Two administrators, for the questions about the last one.
TwoAdministrators == [MCUsers EXCEPT ![vic].role = "ADMIN"]

\* The manager holds a folder, and a whole bucket that must not count; a
\* viewer holds what will be a manager's to give.
MCPermissions == p1 :> [userId |-> max, scope |-> docsAB]
                 @@ p2 :> [userId |-> max, scope |-> docs]
MorePermissions == p5 :> [userId |-> vic, scope |-> docsABC] @@ MCPermissions

-----------------------------------------------------------------------------
Bare(op) == [op |-> op, target |-> Unset, email |-> Unset, password |-> Unset,
             role |-> Unset, isActive |-> Unset, scope |-> Unset, permissionId |-> Unset]
On(op, u) == [Bare(op) EXCEPT !.target = u]

Login(email, password) == [Bare("login") EXCEPT !.email = email, !.password = password]
NewUser(email, role) == [Bare("create") EXCEPT !.email = email, !.role = role,
                                               !.isActive = TRUE, !.password = "old"]
SetRole(u, role) == [On("update", u) EXCEPT !.role = role]
Reset(u, password) == [On("resetPassword", u) EXCEPT !.password = password]
Grant(u, scope) == [On("addPermission", u) EXCEPT !.scope = scope]
Withdraw(u, p) == [On("removePermission", u) EXCEPT !.permissionId = p]

\* Every operation, with the inputs its branches distinguish.
AllCalls ==
    {Login("vic@", "old"), Bare("logout"),
     NewUser("new@", "VIEWER"), NewUser("NEW@", "MANAGER"),
     SetRole(vic, "MANAGER"), SetRole(max, "VIEWER"),
     [On("update", vic) EXCEPT !.isActive = FALSE, !.email = "new@"],
     On("disable", vic), On("enable", vic), On("delete", vic), On("delete", ada),
     Reset(vic, "new"),
     Grant(vic, docsA), Grant(vic, docsa), Grant(vic, docs), Grant(vic, mailA), Grant(wil, docsABC),
     Withdraw(vic, p3), Withdraw(max, p1)}

\* Sessions: the ways to open one and the ways to end it.
SessionCalls ==
    {Login("vic@", "old"), Bare("logout"), Reset(vic, "new"),
     [SetRole(vic, "MANAGER") EXCEPT !.isActive = FALSE]}
TwoSessions == adasCookie :> Session(ada) @@ vicsCookie :> Session(vic)
SessionSymmetry == Permutations(Request) \cup Permutations({s4, s5})

\* Few calls, for the questions that need fairness: administrators who remove
\* each other or themselves, and what meets an account or a row that has gone.
AnswerCalls ==
    {Login("vic@", "old"), On("delete", vic), On("delete", ada),
     [SetRole(ada, "VIEWER") EXCEPT !.email = "new@"], Grant(wil, docsAB)}

TwoRequests == {r1, r2}
RequestSymmetry == Permutations(Request)
=============================================================================
