------------------------------ MODULE Database ------------------------------
(***************************************************************************)
(* The MySQL database behind the portal: the four tables of                *)
(* prisma/schema.prisma as keyed tables, and the SQL statements the        *)
(* services issue, each one atomic.  The database is what enforces the     *)
(* unique indexes, the foreign keys and their ON DELETE actions; the       *)
(* services rely on it when their own checks have gone stale.              *)
(*                                                                         *)
(* A table is a function from the primary keys present to their rows.      *)
(* Columns no behaviour depends on (names, timestamps, addresses) are left *)
(* out, and a bucket with a prefix is one value, a scope.                  *)
(***************************************************************************)
EXTENDS Functions

CONSTANTS
    UserId,        \* primary keys of users
    SessionId,     \* hashed session tokens, primary keys of sessions
    PermissionId,  \* primary keys of s3_permissions
    AuditId,       \* primary keys of audit_logs
    Action,        \* the values of enum AuditAction
    Email,         \* what a client may send as an e-mail address
    Collated,      \* the collation: what the unique index compares of an e-mail
    Password,      \* passwords; a hash stands for the password it verifies
    Scope,         \* a bucket with a prefix
    CollatedScope, \* what the unique index compares of a bucket with a prefix
    NoUser         \* SQL NULL in a userId column

ASSUME CollatedAssumption ==
    Collated \in [Email -> Email] /\ CollatedScope \in [Scope -> Scope]

ASSUME NoUserAssumption == NoUser \notin UserId

VARIABLES
    users, sessions, permissions, auditLog,
    issued         \* every primary key handed out so far

dbVars == <<users, sessions, permissions, auditLog, issued>>

-----------------------------------------------------------------------------
(* Tables.                                                                 *)

\* t holds rows of R under keys of K.
IsTable(t, K, R) == DOMAIN t \subseteq K /\ t \in [DOMAIN t -> R]

Insert(t, k, row) == [x \in DOMAIN t \cup {k} |-> IF x = k THEN row ELSE t[x]]

Remove(t, K) == Restrict(t, DOMAIN t \ K)

Role == {"ADMIN", "MANAGER", "VIEWER"}

UserRow == [email: Email, role: Role, isActive: BOOLEAN, passwordHash: Password]

\* "password" is not a column: it remembers which password opened the session.
SessionRow == [userId: UserId, expired: BOOLEAN, password: Password]

PermissionRow == [userId: UserId, scope: Scope]

AuditRow == [userId: UserId \cup {NoUser}, action: Action]

DatabaseTypeOK ==
    /\ IsTable(users, UserId, UserRow)
    /\ IsTable(sessions, SessionId, SessionRow)
    /\ IsTable(permissions, PermissionId, PermissionRow)
    /\ IsTable(auditLog, AuditId, AuditRow)
    /\ issued \subseteq UserId \cup SessionId \cup PermissionId
    /\ DOMAIN users \cup DOMAIN sessions \cup DOMAIN permissions \subseteq issued

-----------------------------------------------------------------------------
(* Queries.                                                                *)

\* The accounts an e-mail matches under the collation of the unique index.
Holders(email) == {u \in DOMAIN users : Collated[users[u].email] = Collated[email]}

SessionsOf(u) == {s \in DOMAIN sessions : sessions[s].userId = u}

PermissionsOf(u) == {p \in DOMAIN permissions : permissions[p].userId = u}

HasPermission(u, scope) ==
    \E p \in PermissionsOf(u) : CollatedScope[permissions[p].scope] = CollatedScope[scope]

ExpiredSessions == {s \in DOMAIN sessions : sessions[s].expired}

-----------------------------------------------------------------------------
(* Statements.  A guard is the constraint the statement must meet; a       *)
(* statement that does not meet it is refused and changes nothing.         *)

InsertUser(u, row) ==
    /\ u \in UserId \ issued
    /\ Holders(row.email) = {}
    /\ users' = Insert(users, u, row)
    /\ issued' = issued \cup {u}
    /\ UNCHANGED <<sessions, permissions, auditLog>>

UpdateUser(u, row) ==
    /\ u \in DOMAIN users
    /\ Holders(row.email) \subseteq {u}
    /\ users' = Insert(users, u, row)
    /\ UNCHANGED <<sessions, permissions, auditLog, issued>>

(* Mutant of DeleteUser: the audit rows go with the account. *)
MutantDeleteUserLog(u) ==
    /\ u \in DOMAIN users
    /\ users' = Remove(users, {u})
    /\ sessions' = Remove(sessions, SessionsOf(u))
    /\ permissions' = Remove(permissions, PermissionsOf(u))
    /\ auditLog' = Remove(auditLog, {a \in DOMAIN auditLog : auditLog[a].userId = u})
    /\ UNCHANGED issued

DeleteUser(u) ==
    /\ u \in DOMAIN users
    /\ users' = Remove(users, {u})
    /\ sessions' = Remove(sessions, SessionsOf(u))
    /\ permissions' = Remove(permissions, PermissionsOf(u))
    /\ auditLog' = [a \in DOMAIN auditLog |->
                       [auditLog[a] EXCEPT !.userId = IF @ = u THEN NoUser ELSE @]]
    /\ UNCHANGED issued

DeleteSessions(S) ==
    /\ sessions' = Remove(sessions, S)
    /\ UNCHANGED <<users, permissions, auditLog, issued>>

(* Mutant of ReplaceExpired: a token that was used before may come again. *)
MutantReplaceExpired(s, row) ==
    /\ s \in SessionId \ DOMAIN sessions
    /\ row.userId \in DOMAIN users
    /\ sessions' = Insert(Remove(sessions, ExpiredSessions), s, row)
    /\ issued' = issued \cup {s}
    /\ UNCHANGED <<users, permissions, auditLog>>

\* The transaction of a login: expired rows go, one row comes.
ReplaceExpired(s, row) ==
    /\ s \in SessionId \ issued
    /\ row.userId \in DOMAIN users
    /\ sessions' = Insert(Remove(sessions, ExpiredSessions), s, row)
    /\ issued' = issued \cup {s}
    /\ UNCHANGED <<users, permissions, auditLog>>

(* Mutant of InsertPermission: no unique index on userId, bucket, prefix. *)
MutantInsertPermission(p, row) ==
    /\ p \in PermissionId \ issued
    /\ row.userId \in DOMAIN users
    /\ permissions' = Insert(permissions, p, row)
    /\ issued' = issued \cup {p}
    /\ UNCHANGED <<users, sessions, auditLog>>

InsertPermission(p, row) ==
    /\ p \in PermissionId \ issued
    /\ row.userId \in DOMAIN users
    /\ ~HasPermission(row.userId, row.scope)
    /\ permissions' = Insert(permissions, p, row)
    /\ issued' = issued \cup {p}
    /\ UNCHANGED <<users, sessions, auditLog>>

DeletePermission(p) ==
    /\ p \in DOMAIN permissions
    /\ permissions' = Remove(permissions, {p})
    /\ UNCHANGED <<users, sessions, auditLog, issued>>

InsertAudit(a, row) ==
    /\ row.userId \in DOMAIN users
    /\ auditLog' = Insert(auditLog, a, row)
    /\ UNCHANGED <<users, sessions, permissions, issued>>

\* Not a statement: the clock passes a session's expiresAt.
PassExpiry(s) ==
    /\ s \in DOMAIN sessions
    /\ ~sessions[s].expired
    /\ sessions' = [sessions EXCEPT ![s].expired = TRUE]
    /\ UNCHANGED <<users, permissions, auditLog, issued>>

\* Whatever a client of the database does, it does with these.
DatabaseNext ==
    \/ \E u \in UserId, row \in UserRow : InsertUser(u, row) \/ UpdateUser(u, row)
    \/ \E u \in UserId : DeleteUser(u)
    \/ \E S \in SUBSET SessionId : DeleteSessions(S)
    \/ \E s \in SessionId, row \in SessionRow : ReplaceExpired(s, row)
    \/ \E p \in PermissionId, row \in PermissionRow : InsertPermission(p, row)
    \/ \E p \in PermissionId : DeletePermission(p)
    \/ \E a \in AuditId, row \in AuditRow : InsertAudit(a, row)
    \/ \E s \in SessionId : PassExpiry(s)

-----------------------------------------------------------------------------
(* What the constraints guarantee, whoever writes.                         *)

\* Every row that names an account names one that exists: the foreign keys of
\* sessions, s3_permissions and audit_logs and their ON DELETE actions.
NoOrphans ==
    /\ \A s \in DOMAIN sessions : sessions[s].userId \in DOMAIN users
    /\ \A p \in DOMAIN permissions : permissions[p].userId \in DOMAIN users
    /\ \A a \in DOMAIN auditLog : auditLog[a].userId \in DOMAIN users \cup {NoUser}

\* An e-mail, compared as the collation does, belongs to at most one account,
\* so a login finds one account or none.
EmailsUnique ==
    \A u, v \in DOMAIN users :
        Collated[users[u].email] = Collated[users[v].email] => u = v

\* An account holds a scope, compared as the collation does, through one row at
\* most (the unique index on userId, bucket and prefix), so removing that row
\* removes the access.
OneRowPerGrant ==
    \A p, q \in DOMAIN permissions :
        /\ permissions[p].userId = permissions[q].userId
        /\ CollatedScope[permissions[p].scope] = CollatedScope[permissions[q].scope]
        => p = q

\* What the foreign keys and the unique indexes keep, and every statement has to
\* keep here, whoever else comes between a look-up and the write it permits.
TablesConsistent == NoOrphans /\ EmailsUnique /\ OneRowPerGrant
=============================================================================
