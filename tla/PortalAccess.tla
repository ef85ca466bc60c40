---------------------------- MODULE PortalAccess ----------------------------
(***************************************************************************)
(* Portal and AccessRules together: what the scopes that administration    *)
(* hands on from account to account mean for the files behind them.  A     *)
(* scope is a row's bucket with its prefix, and a scope lies within        *)
(* another when its prefix begins with the other's.                        *)
(***************************************************************************)
EXTENDS Portal, Naturals, Sequences

CONSTANTS
    Bucket, AllowedBuckets, Name, Key, Prefix, Odd, Padded, NoKey   \* those of AccessRules

Rules == INSTANCE AccessRules

\* assertCanGrantPermission's containment: startsWith on normalized prefixes,
\* among rows of the same bucket.
Contains(t, s) == s.bucket = t.bucket /\ Rules!Under(s.prefix, t.prefix)

ASSUME RulesAssumption ==
    Rules!NameAssumption /\ Rules!KeyAssumption /\ Rules!OddAssumption

\* What the scopes of Portal stand for, and the tests it makes of them.
ASSUME ScopeAssumption ==
    /\ Scope \subseteq Rules!Permission
    /\ RootScope = {s \in Scope : s.prefix = <<>>}
    /\ ConfiguredScope = {s \in Scope : s.bucket \in AllowedBuckets}
    /\ Within = {w \in Scope \X Scope : Contains(w[2], w[1])}

\* getUserPermissions: the rows the access rules are given for an account.
RowsOf(u) == {permissions[p].scope : p \in PermissionsOf(u)}

\* The accounts with a row: to the others the rules open nothing.
RowOwners == {permissions[p].userId : p \in DOMAIN permissions}

\* What administrators granted to anybody, but of whole buckets those u holds.
OwedTo(u) == (delegated \ RootScope) \cup (delegated \cap RowsOf(u))

\* Delegation opens no file and no folder that no administrator's grant opens:
\* what the rules let an account download or list by its rows, whoever wrote them
\* and however the requests interleaved, they would let it by rows administrators
\* granted, and a whole bucket counts for the account that holds it only
\* (assertCanGrantPermission, the insert after it, isKeyWithinPrefix and
\* canListWithinPermission, which take prefixes apart in their own ways).
AccessBounded ==
    \A u \in RowOwners :
        LET rows == RowsOf(u)
            owed == OwedTo(u)
        IN  \A b \in Bucket :
                /\ \A k \in Key : Rules!CanAccess(rows, b, k) => Rules!CanAccess(owed, b, k)
                /\ \A f \in Prefix : Rules!CanList(rows, b, f) => Rules!CanList(owed, b, f)
=============================================================================
