---------------------------- MODULE AccessLedger ----------------------------
(***************************************************************************)
(* What the portal promises about access, without requests, awaits or      *)
(* tables: who has an account, which sessions are open and for whom, and   *)
(* who holds which scope.                                                  *)
(*                                                                         *)
(*   - a session is opened once, for an account that exists, and once      *)
(*     closed it is never open again;                                      *)
(*   - an account that is removed leaves no session and no grant behind;   *)
(*   - an administrator may grant any scope; anyone else only what lies    *)
(*     within a scope, other than a whole bucket, that an administrator    *)
(*     has granted to somebody.                                            *)
(***************************************************************************)
CONSTANTS UserId, SessionId, Scope, Within, RootScope,
          FirstAccounts, FirstOpened, FirstHeld

VARIABLES
    accounts,   \* the accounts that exist
    opened,     \* the open sessions, each with its account
    spent,      \* account and session identifiers ever used
    held,       \* pairs <<account, scope>>
    granted     \* the scopes some administrator has granted

ledger == <<accounts, opened, spent, held, granted>>

Keep(K) == [s \in DOMAIN opened \cap K |-> opened[s]]

LedgerInit ==
    /\ accounts = FirstAccounts
    /\ opened = FirstOpened
    /\ spent = FirstAccounts \cup DOMAIN FirstOpened
    /\ held = FirstHeld
    /\ granted = {h[2] : h \in FirstHeld}

Register(u) ==
    /\ u \notin spent
    /\ accounts' = accounts \cup {u}
    /\ spent' = spent \cup {u}
    /\ UNCHANGED <<opened, held, granted>>

Unregister(u) ==
    /\ accounts' = accounts \ {u}
    /\ opened' = Keep({s \in DOMAIN opened : opened[s] # u})
    /\ held' = {h \in held : h[1] # u}
    /\ UNCHANGED <<spent, granted>>

\* A session opens; others may have run out by then.
Open(s, u, K) ==
    /\ s \notin spent
    /\ u \in accounts
    /\ opened' = [t \in DOMAIN Keep(K) \cup {s} |-> IF t = s THEN u ELSE opened[t]]
    /\ spent' = spent \cup {s}
    /\ UNCHANGED <<accounts, held, granted>>

Close(K) ==
    /\ opened' = Keep(K)
    /\ UNCHANGED <<accounts, spent, held, granted>>

GrantByAdmin(u, scope) ==
    /\ u \in accounts
    /\ held' = held \cup {<<u, scope>>}
    /\ granted' = granted \cup {scope}
    /\ UNCHANGED <<accounts, opened, spent>>

Delegate(u, scope) ==
    /\ u \in accounts
    /\ \E g \in granted \ RootScope : <<scope, g>> \in Within
    /\ held' = held \cup {<<u, scope>>}
    /\ UNCHANGED <<accounts, opened, spent, granted>>

Withdraw(h) ==
    /\ held' = held \ {h}
    /\ UNCHANGED <<accounts, opened, spent, granted>>

LedgerNext ==
    \/ \E u \in UserId : Register(u) \/ Unregister(u)
    \/ \E s \in SessionId, u \in UserId : \E K \in SUBSET DOMAIN opened : Open(s, u, K)
    \/ \E K \in SUBSET DOMAIN opened : Close(K)
    \/ \E u \in UserId, scope \in Scope : GrantByAdmin(u, scope) \/ Delegate(u, scope)
    \/ \E h \in held : Withdraw(h)

LedgerSpec == LedgerInit /\ [][LedgerNext]_ledger
=============================================================================
