----------------------------- MODULE AuditPages -----------------------------
(***************************************************************************)
(* An administrator reads the audit log page by page while the portal goes *)
(* on logging: AuditService.list, which counts the rows and reads a page   *)
(* of them in two queries at once, and AuditLogsPage, which keeps the      *)
(* answer to each page and offers "Next" by the count.                     *)
(*                                                                         *)
(* The rows are those that match one filter.  A filter by user name or     *)
(* e-mail stops matching the rows of an account when it is deleted.        *)
(***************************************************************************)
EXTENDS Integers, FiniteSets

CONSTANTS
    Row, Time,
    InitLog,          \* the rows at first, each with its createdAt
    PageSize,         \* rows in a page: 25
    MaxPage,          \* bound: pages looked at
    MaxLost,          \* bound: rows that stop matching
    None              \* not asked, not answered yet

ASSUME PageAssumption ==
    /\ PageSize \in Nat \ {0} /\ MaxPage \in Nat \ {0} /\ MaxLost \in Nat
    /\ Time \subseteq Nat
    /\ IsFiniteSet(DOMAIN InitLog) /\ DOMAIN InitLog = 1..Cardinality(DOMAIN InitLog)
    /\ DOMAIN InitLog \subseteq Row /\ Row \subseteq Nat
    /\ InitLog \in [DOMAIN InitLog -> Time]

ASSUME NoneAssumption == None \notin Nat /\ \A S \in SUBSET Row : None # S

VARIABLES
    log,        \* the matching rows, with their createdAt
    page,       \* the page shown
    fetches,    \* for each page, the query under way: total and items, as far as they are known
    answers,    \* for each page, the answer in the query cache
    \* history variables
    seen,       \* rows shown so far
    steady,     \* rows that have matched all along
    lost,       \* how many rows have stopped matching
    tied        \* two rows have had the same createdAt

vars == <<log, page, fetches, answers, seen, steady, lost, tied>>

Page == 1..MaxPage

\* "late" is no part of a query: how many rows were logged after the count
\* and before the page was read.
Asked == [total |-> None, items |-> None, late |-> 0]

-----------------------------------------------------------------------------
(* The queries.                                                            *)

\* Rows in S that the order by createdAt, newest first, may put before all others.
Newest(S, n) ==
    {B \in SUBSET S :
        /\ Cardinality(B) = (IF Cardinality(S) < n THEN Cardinality(S) ELSE n)
        /\ \A x \in B, y \in S \ B : log[x] >= log[y]}

(* Mutant of PagesAt: takes everything up to the end of the page.          *)
MutantPagesAt(p) ==
    UNION {Newest(DOMAIN log \ skipped, p * PageSize) :
              skipped \in Newest(DOMAIN log, (p - 1) * PageSize)}

\* skip and take: rows of the same instant come in any order.
PagesAt(p) ==
    UNION {Newest(DOMAIN log \ skipped, PageSize) :
              skipped \in Newest(DOMAIN log, (p - 1) * PageSize)}

(* Mutant of TotalPages: rounded down.                                     *)
MutantTotalPages(answer) == IF answer.total < PageSize THEN 1 ELSE answer.total \div PageSize

TotalPages(answer) ==
    IF answer.total = 0 THEN 1 ELSE (answer.total + PageSize - 1) \div PageSize

-----------------------------------------------------------------------------
(* The server.                                                             *)

Init ==
    /\ log = InitLog
    /\ page = 1
    /\ fetches = [p \in Page |-> IF p = 1 THEN Asked ELSE None]
    /\ answers = [p \in Page |-> None]
    /\ seen = {}
    /\ steady = DOMAIN InitLog
    /\ lost = 0
    /\ tied = \E x, y \in DOMAIN InitLog : x # y /\ InitLog[x] = InitLog[y]

Pending(p, field) == fetches[p] # None /\ fetches[p][field] = None

Count(p) ==
    /\ Pending(p, "total")
    /\ fetches' = [fetches EXCEPT ![p].total = Cardinality(DOMAIN log)]
    /\ UNCHANGED <<log, page, answers, seen, steady, lost, tied>>

Read(p) ==
    /\ Pending(p, "items")
    /\ \E items \in PagesAt(p) : fetches' = [fetches EXCEPT ![p].items = items]
    /\ UNCHANGED <<log, page, answers, seen, steady, lost, tied>>

\* AUTO_INCREMENT.
NextRow == Cardinality(DOMAIN log) + lost + 1

\* Rows are logged with the time at the client of the database, so they need
\* not appear in the order of their times.
Insert(t) ==
    /\ NextRow \in Row
    /\ log' = [y \in DOMAIN log \cup {NextRow} |-> IF y = NextRow THEN t ELSE log[y]]
    /\ fetches' = [p \in Page |->
           IF fetches[p] # None /\ fetches[p].total # None /\ fetches[p].items = None
           THEN [fetches[p] EXCEPT !.late = @ + 1] ELSE fetches[p]]
    /\ tied' = (tied \/ \E y \in DOMAIN log : log[y] = t)
    /\ UNCHANGED <<page, answers, seen, steady, lost>>

\* The account of a row is deleted (ON DELETE SET NULL).
Unmatch(x) ==
    /\ x \in DOMAIN log /\ lost < MaxLost
    /\ log' = [y \in DOMAIN log \ {x} |-> log[y]]
    /\ steady' = steady \ {x}
    /\ lost' = lost + 1
    /\ UNCHANGED <<page, fetches, answers, seen, tied>>

-----------------------------------------------------------------------------
(* The page.                                                               *)

\* What page "now" shows, of the answers known: those of a page looked at
\* before are shown until newer ones arrive.
Show(now, known) == IF known[now] = None THEN {} ELSE known[now].items

\* The answer of a query, to the page it was for.
Answer(p) ==
    /\ fetches[p] # None /\ ~Pending(p, "total") /\ ~Pending(p, "items")
    /\ answers' = [answers EXCEPT ![p] = fetches[p]]
    /\ fetches' = [fetches EXCEPT ![p] = None]
    /\ seen' = seen \cup Show(page, answers')
    /\ UNCHANGED <<log, page, steady, lost, tied>>

\* A query that fails is made once more, and then given up: what is known of
\* the page stays.  The number of attempts is left out.
Fail(p) ==
    /\ fetches[p] # None
    /\ \E again \in {Asked, None} : fetches' = [fetches EXCEPT ![p] = again]
    /\ UNCHANGED <<log, page, answers, seen, steady, lost, tied>>

\* The table and its buttons are there when the page has rows.
HasRows == answers[page] # None /\ answers[page].items # {}

\* A page that is opened is asked for, unless it is being asked for.
Open(p) ==
    /\ page' = p
    /\ fetches' = [fetches EXCEPT ![p] = IF @ = None THEN Asked ELSE @]
    /\ seen' = seen \cup Show(p, answers)
    /\ UNCHANGED <<log, answers, steady, lost, tied>>

MoreToCome == page < TotalPages(answers[page])

Following == HasRows /\ MoreToCome /\ page < MaxPage /\ Open(page + 1)

Previous == HasRows /\ page > 1 /\ Open(page - 1)

Next ==
    \/ \E p \in Page : Count(p) \/ Read(p) \/ Answer(p) \/ Fail(p)
    \/ \E t \in Time : Insert(t)
    \/ \E x \in Row : Unmatch(x)
    \/ Following \/ Previous

Spec == Init /\ [][Next]_vars

-----------------------------------------------------------------------------
(* Properties.                                                             *)

TypeOK ==
    /\ DOMAIN log \subseteq Row /\ \A x \in DOMAIN log : log[x] \in Time
    /\ page \in Page
    /\ \A p \in Page : answers[p] # None =>
          /\ answers[p].total \in Nat /\ answers[p].late \in Nat
          /\ answers[p].items \subseteq Row /\ Cardinality(answers[p].items) <= PageSize
    /\ Show(page, answers) \subseteq seen
    /\ steady \subseteq DOMAIN log /\ lost \in 0..MaxLost

\* The last page: there is an answer, and "Next" is disabled or not there.
AtTheEnd == answers[page] # None /\ (answers[page].items = {} \/ ~MoreToCome)

\* A reader who goes on from the first page to the last, back and forth as
\* they like, has been shown every row that matched all along, but for one for
\* each row that stopped matching, and for each row logged between the count and
\* the reading of the last page; if no two rows had the same createdAt.  Rows
\* logged meanwhile, with whatever time, hide none (skip and take, totalPages).
NothingSkipped ==
    AtTheEnd /\ ~tied => Cardinality(steady \ seen) <= lost + answers[page].late
=============================================================================
