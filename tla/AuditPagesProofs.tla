-------------------------- MODULE AuditPagesProofs --------------------------
(***************************************************************************)
(* No row is skipped, for every log, page size and number of pages: the    *)
(* inductive invariant counts, for each page read, the rows that have not  *)
(* been shown although they are among the newest p * PageSize.  A row that *)
(* is logged pushes the others back, so fewer are; a row that stops        *)
(* matching lets one in.                                                   *)
(***************************************************************************)
EXTENDS AuditPages, FiniteSetTheorems, TLAPS

\* A query under way, or its answer.
RowSets == SUBSET Row
Fetch == [total: Nat \cup {None}, items: RowSets \cup {None}, late: Nat]

\* How far pages 1 to p reach, and how many of n rows lie beyond.
UpTo(p) == p * PageSize
Beyond(n, p) == IF n > UpTo(p) THEN n - UpTo(p) ELSE 0

\* The rows before x in the order by createdAt.
Ahead(l, x) == {y \in DOMAIN l : l[y] > l[x]}

\* Rows that have matched all along, are among the newest n and not in Z.
Low(l, S, Z, n) == {x \in S \ Z : Cardinality(Ahead(l, x)) < n}

\* All rows differ in their createdAt.
Ordered(l) == \A x, y \in DOMAIN l : x # y => l[x] # l[y]

-----------------------------------------------------------------------------
(* Subsets of finite sets have at most as many elements.                   *)
LEMMA Fewer ==
    ASSUME NEW S, IsFiniteSet(S), NEW T \in SUBSET S
    PROVE  /\ IsFiniteSet(T) /\ Cardinality(T) \in Nat /\ Cardinality(S) \in Nat
           /\ Cardinality(T) <= Cardinality(S)
           /\ T # S => Cardinality(T) < Cardinality(S)
           /\ IsFiniteSet(S \ T) /\ Cardinality(S \ T) = Cardinality(S) - Cardinality(T)
<1>1. IsFiniteSet(T) /\ Cardinality(T) <= Cardinality(S) /\ (Cardinality(S) = Cardinality(T) => S = T)
  BY FS_Subset
<1>2. Cardinality(T) \in Nat /\ Cardinality(S) \in Nat BY <1>1, FS_CardinalityType
<1>3. IsFiniteSet(S \ T) BY FS_Subset
<1>4. IsFiniteSet(S \ T) /\ Cardinality(S \ T) = Cardinality(S) - Cardinality(S \cap T)
  BY FS_Difference, Zenon
<1>5. S \cap T = T OBVIOUS
<1>6. Cardinality(S \ T) = Cardinality(S) - Cardinality(T) BY <1>4, <1>5
<1> QED BY <1>1, <1>2, <1>3, <1>6

(* Two finite sets together.                                               *)
LEMMA Together ==
    ASSUME NEW S, IsFiniteSet(S), NEW T, IsFiniteSet(T)
    PROVE  /\ IsFiniteSet(S \cup T)
           /\ Cardinality(S \cup T) <= Cardinality(S) + Cardinality(T)
           /\ S \cap T = {} => Cardinality(S \cup T) = Cardinality(S) + Cardinality(T)
           /\ Cardinality(S \cup T) \in Nat
<1>1. IsFiniteSet(S \cup T)
      /\ Cardinality(S \cup T) = Cardinality(S) + Cardinality(T) - Cardinality(S \cap T)
  BY FS_Union
<1>2. IsFiniteSet(S \cap T) BY FS_Intersection
<1>3. /\ Cardinality(S) \in Nat /\ Cardinality(T) \in Nat /\ Cardinality(S \cap T) \in Nat
      /\ Cardinality(S \cup T) \in Nat
  BY <1>1, <1>2, FS_CardinalityType
<1>4. S \cap T = {} => Cardinality(S \cap T) = 0 BY FS_EmptySet
<1> QED BY <1>1, <1>3, <1>4

(* Pages follow one another.                                               *)
LEMMA PagesAddUp ==
    ASSUME NEW p \in Page
    PROVE  /\ p \in Nat /\ p >= 1 /\ PageSize \in Nat /\ PageSize >= 1
           /\ UpTo(p) \in Nat /\ UpTo(p - 1) \in Nat /\ UpTo(p) = UpTo(p - 1) + PageSize
           /\ (p - 1) * PageSize = UpTo(p - 1)
           /\ p = 1 => UpTo(p - 1) = 0
<1>1. p \in Nat /\ p >= 1 /\ PageSize \in Nat /\ PageSize >= 1 BY PageAssumption DEF Page
<1>2. p * PageSize \in Nat /\ (p - 1) * PageSize \in Nat BY <1>1
<1>3. p * PageSize = (p - 1) * PageSize + PageSize BY <1>1
<1> QED BY <1>1, <1>2, <1>3 DEF UpTo

(* Beyond the last page by totalPages there are no rows.                   *)
LEMMA LastPage ==
    ASSUME NEW p \in Page, NEW answer, answer.total \in Nat, p >= TotalPages(answer)
    PROVE  answer.total <= UpTo(p)
<1> DEFINE t == answer.total
           n == t + PageSize - 1
           d == n \div PageSize
<1>1. p \in Nat /\ PageSize \in Nat \ {0} /\ t \in Nat /\ UpTo(p) \in Nat BY PagesAddUp
<1>2. CASE t = 0 BY <1>1, <1>2
<1>3. CASE t # 0
  <2>1. p >= d BY <1>3 DEF TotalPages
  <2>2. n \in Nat BY <1>1
  <2> HIDE DEF n, t
  <2>3. d \in Nat BY <1>1, <2>2
  <2>4. n = PageSize * d + (n % PageSize) BY <1>1, <2>2, SMT
  <2>5. n % PageSize \in 0..(PageSize - 1) BY <1>1, <2>2
  <2> HIDE DEF d
  <2>6. PageSize * d <= PageSize * p BY <1>1, <2>1, <2>3
  <2>7. UpTo(p) = PageSize * p BY <1>1 DEF UpTo
  <2> DEFINE a == PageSize * d
             c == n % PageSize
  <2>8. a \in Nat BY <1>1, <2>3
  <2>9. n = a + c /\ c \in 0..(PageSize - 1) /\ a <= UpTo(p) BY <2>4, <2>5, <2>6, <2>7
  <2> HIDE DEF a, c
  <2>10. n <= UpTo(p) + PageSize - 1 BY <1>1, <2>8, <2>9
  <2>11. n = t + PageSize - 1 BY DEF n
  <2>12. t <= UpTo(p) BY <1>1, <2>10, <2>11
  <2> QED BY <2>12 DEF t
<1> QED BY <1>2, <1>3

-----------------------------------------------------------------------------
(* What the newest k rows of a set are.                                    *)
LEMMA NewestOnes ==
    ASSUME NEW S, IsFiniteSet(S), NEW k \in Nat, NEW B \in Newest(S, k)
    PROVE  /\ B \subseteq S /\ IsFiniteSet(B) /\ Cardinality(B) \in Nat /\ Cardinality(B) <= k
           /\ B # S => Cardinality(B) = k
           /\ \A x \in B, y \in S \ B : log[x] >= log[y]
<1>1. B \in SUBSET S /\ Cardinality(B) = (IF Cardinality(S) < k THEN Cardinality(S) ELSE k)
      /\ \A x \in B, y \in S \ B : log[x] >= log[y]
  BY DEF Newest
<1>2. IsFiniteSet(B) /\ Cardinality(B) \in Nat /\ Cardinality(S) \in Nat
      /\ (B # S => Cardinality(B) < Cardinality(S))
  BY <1>1, Fewer
<1> QED BY <1>1, <1>2

(* Page p, read from rows that all differ: a row that is neither on it nor *)
(* beyond it is among the newest of the pages before; and so many rows are *)
(* beyond it.                                                              *)
LEMMA WhatAPageHolds ==
    ASSUME IsFiniteSet(DOMAIN log), \A x \in DOMAIN log : log[x] \in Nat,
           NEW p \in Page, NEW items \in PagesAt(p)
    PROVE  /\ items \subseteq DOMAIN log /\ IsFiniteSet(items) /\ Cardinality(items) <= PageSize
           /\ Cardinality(items) \in Nat
           /\ Ordered(log) => \E rest \in SUBSET DOMAIN log :
                 /\ IsFiniteSet(rest) /\ Cardinality(rest) \in Nat
                 /\ Cardinality(rest) <= Beyond(Cardinality(DOMAIN log), p)
                 /\ \A x \in rest : Cardinality(Ahead(log, x)) >= UpTo(p)
                 /\ \A x \in DOMAIN log \ (items \cup rest) :
                       Cardinality(Ahead(log, x)) < UpTo(p - 1)
                 /\ items = {} => rest = {}
<1> DEFINE S == DOMAIN log
<1>1. /\ p \in Nat /\ p >= 1 /\ PageSize \in Nat /\ PageSize >= 1
      /\ UpTo(p) \in Nat /\ UpTo(p - 1) \in Nat /\ UpTo(p) = UpTo(p - 1) + PageSize
      /\ (p - 1) * PageSize = UpTo(p - 1)
  BY PagesAddUp
<1>2. PICK skipped \in Newest(S, UpTo(p - 1)) : items \in Newest(S \ skipped, PageSize)
  BY <1>1 DEF PagesAt
<1>3. /\ skipped \subseteq S /\ IsFiniteSet(skipped) /\ Cardinality(skipped) \in Nat
      /\ Cardinality(skipped) <= UpTo(p - 1)
      /\ skipped # S => Cardinality(skipped) = UpTo(p - 1)
      /\ \A x \in skipped, y \in S \ skipped : log[x] >= log[y]
  BY <1>1, <1>2, NewestOnes
<1>4. IsFiniteSet(S \ skipped) BY <1>3, Fewer
<1>5. /\ items \subseteq S \ skipped /\ IsFiniteSet(items) /\ Cardinality(items) \in Nat
      /\ Cardinality(items) <= PageSize
      /\ items # S \ skipped => Cardinality(items) = PageSize
      /\ \A x \in items, y \in (S \ skipped) \ items : log[x] >= log[y]
  BY <1>1, <1>2, <1>4, NewestOnes
<1> DEFINE rest == S \ (skipped \cup items)
           shown == skipped \cup items
<1>6. /\ IsFiniteSet(rest) /\ Cardinality(rest) \in Nat /\ IsFiniteSet(shown)
      /\ Cardinality(shown) \in Nat /\ Cardinality(S) \in Nat
      /\ Cardinality(rest) = Cardinality(S) - Cardinality(shown)
      /\ Cardinality(shown) = Cardinality(skipped) + Cardinality(items)
  <2>1. shown \in SUBSET S BY <1>3, <1>5
  <2>2. Cardinality(shown) = Cardinality(skipped) + Cardinality(items)
    BY <1>3, <1>5, Together
  <2> HIDE DEF shown
  <2>3. /\ IsFiniteSet(shown) /\ Cardinality(shown) \in Nat /\ Cardinality(S) \in Nat
        /\ IsFiniteSet(S \ shown) /\ Cardinality(S \ shown) = Cardinality(S) - Cardinality(shown)
        /\ Cardinality(S \ shown) \in Nat
    BY <2>1, Fewer, FS_CardinalityType
  <2> QED BY <2>2, <2>3 DEF shown
<1>7. rest # {} => Cardinality(shown) = UpTo(p)
  <2>1. rest # {} => skipped # S /\ items # S \ skipped OBVIOUS
  <2> HIDE DEF rest, shown
  <2> QED BY <1>1, <1>3, <1>5, <1>6, <2>1
<1>8. Cardinality(rest) <= Beyond(Cardinality(S), p)
  <2>1. CASE rest = {}
    <3>1. Cardinality(rest) = 0 BY <2>1, FS_EmptySet
    <3> HIDE DEF rest, S
    <3> QED BY <1>1, <1>6, <3>1 DEF Beyond
  <2>2. CASE rest # {}
    <3> HIDE DEF rest, S, shown
    <3> QED BY <1>1, <1>6, <1>7, <2>2 DEF Beyond
  <2> QED BY <2>1, <2>2
<1>9. ASSUME Ordered(log), NEW x \in rest PROVE Cardinality(Ahead(log, x)) >= UpTo(p)
  <2>1. \A y \in shown : log[y] >= log[x] /\ y # x /\ y \in S /\ x \in S BY <1>3, <1>5
  <2>2. shown \subseteq Ahead(log, x) BY <1>9, <2>1 DEF Ordered, Ahead
  <2>3. IsFiniteSet(Ahead(log, x)) BY FS_Subset DEF Ahead
  <2> HIDE DEF shown
  <2>4. Cardinality(shown) <= Cardinality(Ahead(log, x)) BY <2>2, <2>3, Fewer
  <2>5. Cardinality(shown) = UpTo(p) BY <1>7
  <2> QED BY <2>4, <2>5
<1>10. ASSUME NEW x \in S \ (items \cup rest) PROVE Cardinality(Ahead(log, x)) < UpTo(p - 1)
  <2>1. x \in skipped OBVIOUS
  <2>2. Ahead(log, x) \subseteq skipped /\ x \notin Ahead(log, x) BY <1>3, <2>1 DEF Ahead
  <2>3. Cardinality(Ahead(log, x)) < Cardinality(skipped) /\ Cardinality(Ahead(log, x)) \in Nat
    BY <1>3, <2>1, <2>2, Fewer
  <2> QED BY <1>1, <1>3, <2>3
<1>11. items = {} => rest = {}
  <2>1. items = {} => Cardinality(items) = 0 BY FS_EmptySet
  <2>2. items = {} => items = S \ skipped BY <1>1, <1>5, <2>1
  <2> QED BY <2>2
<1>12. items \subseteq S BY <1>5
<1>13. rest \in SUBSET S OBVIOUS
<1> HIDE DEF rest, S
<1> QED BY <1>5, <1>6, <1>8, <1>9, <1>10, <1>11, <1>12, <1>13 DEF S

-----------------------------------------------------------------------------
(* The log and the histories: rows are numbered one after the other.       *)
LogOK ==
    /\ log \in [DOMAIN log -> Time] /\ IsFiniteSet(DOMAIN log) /\ DOMAIN log \subseteq Row
    /\ DOMAIN log \subseteq 1..(Cardinality(DOMAIN log) + lost)
    /\ steady \subseteq DOMAIN log /\ lost \in 0..MaxLost /\ tied \in BOOLEAN
    /\ ~tied => Ordered(log)

(* The queries, and the pages: a page is opened from the one before it or  *)
(* after it, when that has been answered.                                  *)
QueriesOK ==
    /\ page \in Page
    /\ fetches \in [Page -> Fetch \cup {None}] /\ answers \in [Page -> Fetch \cup {None}]
    /\ \A p \in Page : fetches[p] # None /\ fetches[p].items # None =>
          Cardinality(fetches[p].items) <= PageSize
    /\ \A p \in Page : answers[p] # None =>
          /\ answers[p].total # None /\ answers[p].items # None
          /\ Cardinality(answers[p].items) <= PageSize
    /\ Show(page, answers) \subseteq seen

OpenedInOrder ==
    /\ \A p \in Page : answers[p] # None \/ fetches[p] # None =>
          \A k \in 1..(p - 1) : answers[k] # None
    /\ \A p \in Page : fetches[p] # None /\ answers[p] = None => p = page

(* Once rows have been read as page p of n rows: what is missing among the *)
(* newest up to p * PageSize, and in all.                                  *)
Accounted(l, S, Z, gone, p, items, late, n) ==
    /\ Cardinality(Low(l, S, Z \cup items, UpTo(p))) <= gone
    /\ Cardinality(S \ (Z \cup items)) <= gone + late + Beyond(n, p)
    /\ items = {} => Cardinality(S \ Z) <= gone

(* What a query under way has read, or, when it has only counted, how many *)
(* rows there are to read; and what the answer to a page accounts for.     *)
FetchOK(p) ==
    LET f == fetches[p]
        n == Cardinality(DOMAIN log)
    IN  f # None =>
          /\ f.items # None =>
                Accounted(log, steady, seen, lost, p, f.items, f.late,
                          IF f.total = None THEN n ELSE f.total)
          /\ f.items = None /\ f.total # None => n <= f.total + f.late

AnswerOK(p) ==
    LET a == answers[p]
    IN  a # None => /\ Accounted(log, steady, seen, lost, p, a.items, a.late, a.total)
                    /\ Cardinality(Low(log, steady, seen, UpTo(p))) <= lost

Counted == ~tied => \A p \in Page : FetchOK(p) /\ AnswerOK(p)

(* The inductive invariant.                                                *)
Inv == LogOK /\ QueriesOK /\ OpenedInOrder /\ Counted

-----------------------------------------------------------------------------
(* How many rows lie beyond a page is a natural number,                    *)
LEMMA BeyondIsNat ==
    ASSUME NEW n \in Nat, NEW p \in Page
    PROVE  Beyond(n, p) \in Nat
BY PagesAddUp DEF Beyond

(* Numbers in a state: all of them are natural numbers.                    *)
LEMMA LogNumbers ==
    ASSUME LogOK
    PROVE  /\ IsFiniteSet(DOMAIN log) /\ Cardinality(DOMAIN log) \in Nat /\ lost \in Nat
           /\ IsFiniteSet(steady) /\ \A x \in DOMAIN log : log[x] \in Nat
<1>1. Cardinality(DOMAIN log) \in Nat /\ IsFiniteSet(steady) BY Fewer DEF LogOK
<1>2. lost \in Nat /\ \A x \in DOMAIN log : log[x] \in Nat BY PageAssumption DEF LogOK
<1> QED BY <1>1, <1>2 DEF LogOK

(* So are the counts of queries; what they read are rows.                  *)
LEMMA QueryNumbers ==
    ASSUME QueriesOK, NEW p \in Page
    PROVE  /\ fetches[p] # None =>
                /\ fetches[p] \in Fetch /\ fetches[p].late \in Nat
                /\ fetches[p].total # None => fetches[p].total \in Nat
                /\ fetches[p].items # None => fetches[p].items \in RowSets
           /\ answers[p] # None =>
                /\ answers[p].late \in Nat /\ answers[p].total \in Nat
                /\ answers[p].items \in RowSets
<1>1. ASSUME NEW f \in Fetch
      PROVE  /\ f.late \in Nat
             /\ f.total # None => f.total \in Nat
             /\ f.items # None => f.items \in RowSets
  BY DEF Fetch
<1>2. /\ fetches[p] # None => fetches[p] \in Fetch
      /\ answers[p] # None => /\ answers[p] \in Fetch
                              /\ answers[p].total # None /\ answers[p].items # None
  BY DEF QueriesOK
<1> QED BY <1>1, <1>2

(* What has been accounted for stays so, when fewer rows are missing.      *)
LEMMA StillAccounted ==
    ASSUME NEW l, NEW l2, NEW S, IsFiniteSet(S), NEW S2 \in SUBSET S, NEW Z, NEW Z2, Z \subseteq Z2,
           NEW gone \in Nat, NEW gone2 \in Nat, gone <= gone2, NEW late \in Nat,
           NEW n \in Nat, NEW n2 \in Nat, NEW p \in Page, NEW items,
           Accounted(l, S, Z, gone, p, items, late, n),
           Cardinality(Low(l2, S2, Z2 \cup items, UpTo(p)))
              <= Cardinality(Low(l, S, Z \cup items, UpTo(p))) + (gone2 - gone),
           gone + Beyond(n, p) <= gone2 + Beyond(n2, p)
    PROVE  Accounted(l2, S2, Z2, gone2, p, items, late, n2)
<1> DEFINE L == Low(l, S, Z \cup items, UpTo(p))
           L2 == Low(l2, S2, Z2 \cup items, UpTo(p))
<1>1. /\ IsFiniteSet(L) /\ Cardinality(L) \in Nat /\ IsFiniteSet(L2) /\ Cardinality(L2) \in Nat
  <2>1. L \in SUBSET S /\ L2 \in SUBSET S BY DEF Low
  <2> HIDE DEF L, L2
  <2> QED BY <2>1, Fewer
<1>2. Cardinality(L2) <= gone2
  <2>1. Cardinality(L) <= gone /\ Cardinality(L2) <= Cardinality(L) + (gone2 - gone)
    BY DEF Accounted
  <2> HIDE DEF L, L2
  <2> QED BY <1>1, <2>1
<1>3. ASSUME NEW A, NEW B, A \in SUBSET S, B \in SUBSET A
      PROVE  Cardinality(B) \in Nat /\ Cardinality(A) \in Nat /\ Cardinality(B) <= Cardinality(A)
  BY <1>3, Fewer
<1>4. Cardinality(S2 \ (Z2 \cup items)) <= gone2 + late + Beyond(n2, p)
  <2>1. /\ Cardinality(S2 \ (Z2 \cup items)) \in Nat /\ Cardinality(S \ (Z \cup items)) \in Nat
        /\ Cardinality(S2 \ (Z2 \cup items)) <= Cardinality(S \ (Z \cup items))
    <3>1. S \ (Z \cup items) \in SUBSET S /\ S2 \ (Z2 \cup items) \in SUBSET (S \ (Z \cup items))
      OBVIOUS
    <3> QED BY <1>3, <3>1
  <2>2. Cardinality(S \ (Z \cup items)) <= gone + late + Beyond(n, p) BY DEF Accounted
  <2>3. Beyond(n, p) \in Nat /\ Beyond(n2, p) \in Nat BY BeyondIsNat
  <2> QED BY <2>1, <2>2, <2>3
<1>5. ASSUME items = {} PROVE Cardinality(S2 \ Z2) <= gone2
  <2>1. S \ Z \in SUBSET S /\ S2 \ Z2 \in SUBSET (S \ Z) OBVIOUS
  <2>2. Cardinality(S2 \ Z2) <= Cardinality(S \ Z) /\ Cardinality(S2 \ Z2) \in Nat
        /\ Cardinality(S \ Z) \in Nat
    BY <1>3, <2>1
  <2>3. Cardinality(S \ Z) <= gone BY <1>5 DEF Accounted
  <2> QED BY <2>2, <2>3
<1> QED BY <1>2, <1>4, <1>5 DEF Accounted

(* More has been seen.                                                     *)
LEMMA LowShrinks ==
    ASSUME NEW l, NEW S, IsFiniteSet(S), NEW Z, NEW Z2, Z \subseteq Z2, NEW n
    PROVE  /\ Cardinality(Low(l, S, Z2, n)) <= Cardinality(Low(l, S, Z, n))
           /\ Cardinality(Low(l, S, Z2, n)) \in Nat /\ Cardinality(Low(l, S, Z, n)) \in Nat
<1>1. Low(l, S, Z, n) \in SUBSET S /\ Low(l, S, Z2, n) \in SUBSET Low(l, S, Z, n) BY DEF Low
<1>2. IsFiniteSet(Low(l, S, Z, n)) BY <1>1, Fewer
<1> QED BY <1>1, <1>2, Fewer

(* A row is logged: no row comes closer to the front.                      *)
LEMMA LowAfterInsert ==
    ASSUME NEW l, NEW l2, IsFiniteSet(DOMAIN l), IsFiniteSet(DOMAIN l2),
           NEW S \in SUBSET DOMAIN l, NEW Z, NEW n \in Nat,
           DOMAIN l \subseteq DOMAIN l2, \A x \in DOMAIN l : l2[x] = l[x]
    PROVE  /\ Cardinality(Low(l2, S, Z, n)) <= Cardinality(Low(l, S, Z, n))
           /\ Cardinality(Low(l2, S, Z, n)) \in Nat /\ Cardinality(Low(l, S, Z, n)) \in Nat
<1>1. ASSUME NEW x \in S, Cardinality(Ahead(l2, x)) < n PROVE Cardinality(Ahead(l, x)) < n
  <2>1. Ahead(l, x) \in SUBSET Ahead(l2, x) /\ Ahead(l2, x) \in SUBSET DOMAIN l2 BY DEF Ahead
  <2>2. IsFiniteSet(Ahead(l2, x)) BY <2>1, Fewer
  <2>3. /\ Cardinality(Ahead(l, x)) <= Cardinality(Ahead(l2, x))
        /\ Cardinality(Ahead(l, x)) \in Nat /\ Cardinality(Ahead(l2, x)) \in Nat
    BY <2>1, <2>2, Fewer
  <2> QED BY <1>1, <2>3
<1>2. Low(l2, S, Z, n) \in SUBSET Low(l, S, Z, n) /\ Low(l, S, Z, n) \in SUBSET DOMAIN l
  BY <1>1 DEF Low
<1>3. IsFiniteSet(Low(l, S, Z, n)) BY <1>2, Fewer
<1> QED BY <1>2, <1>3, Fewer

(* In a log without ties no two rows have the same number of rows ahead.   *)
LEMMA RanksDiffer ==
    ASSUME NEW l, IsFiniteSet(DOMAIN l), \A x \in DOMAIN l : l[x] \in Nat, Ordered(l),
           NEW x \in DOMAIN l, NEW y \in DOMAIN l, x # y
    PROVE  Cardinality(Ahead(l, x)) # Cardinality(Ahead(l, y))
<1>1. ASSUME NEW u \in DOMAIN l, NEW v \in DOMAIN l, l[u] > l[v]
      PROVE  Cardinality(Ahead(l, u)) < Cardinality(Ahead(l, v)) /\ Cardinality(Ahead(l, u)) \in Nat
             /\ Cardinality(Ahead(l, v)) \in Nat
  <2>1. Ahead(l, u) \in SUBSET Ahead(l, v) BY <1>1 DEF Ahead
  <2>2. u \in Ahead(l, v) /\ u \notin Ahead(l, u) BY <1>1 DEF Ahead
  <2>3. IsFiniteSet(Ahead(l, v))
    <3>1. Ahead(l, v) \in SUBSET DOMAIN l BY DEF Ahead
    <3> QED BY <3>1, Fewer
  <2> QED BY <2>1, <2>2, <2>3, Fewer
<1>2. l[x] > l[y] \/ l[y] > l[x] BY DEF Ordered
<1> QED BY <1>1, <1>2

(* A row stops matching: at most one row comes to be among the newest n.   *)
LEMMA LowAfterUnmatch ==
    ASSUME NEW l, NEW l2, IsFiniteSet(DOMAIN l), \A x \in DOMAIN l : l[x] \in Nat, Ordered(l),
           NEW S \in SUBSET DOMAIN l, NEW y \in DOMAIN l, NEW Z, NEW n \in Nat,
           DOMAIN l2 = DOMAIN l \ {y}, \A x \in DOMAIN l2 : l2[x] = l[x]
    PROVE  /\ Cardinality(Low(l2, S \ {y}, Z, n)) <= Cardinality(Low(l, S, Z, n)) + 1
           /\ Cardinality(Low(l2, S \ {y}, Z, n)) \in Nat /\ Cardinality(Low(l, S, Z, n)) \in Nat
<1> DEFINE at == {x \in DOMAIN l : Cardinality(Ahead(l, x)) = n}
           L == Low(l, S, Z, n)
           L2 == Low(l2, S \ {y}, Z, n)
<1>1. ASSUME NEW x \in S \ {y}, Cardinality(Ahead(l2, x)) < n
      PROVE  Cardinality(Ahead(l, x)) <= n /\ Cardinality(Ahead(l, x)) \in Nat
  <2>1. Ahead(l2, x) = Ahead(l, x) \ {y} BY DEF Ahead
  <2>2. IsFiniteSet(Ahead(l, x)) /\ Cardinality(Ahead(l, x)) \in Nat
    <3>1. Ahead(l, x) \in SUBSET DOMAIN l BY DEF Ahead
    <3> QED BY <3>1, Fewer
  <2>3. CASE y \in Ahead(l, x)
    <3>1. Cardinality(Ahead(l, x) \ {y}) = Cardinality(Ahead(l, x)) - 1
      BY <2>2, <2>3, FS_RemoveElement
    <3> QED BY <1>1, <2>1, <2>2, <3>1
  <2>4. CASE y \notin Ahead(l, x)
    <3>1. Ahead(l2, x) = Ahead(l, x) BY <2>1, <2>4
    <3> QED BY <1>1, <2>2, <3>1
  <2> QED BY <2>3, <2>4
<1>2. L2 \in SUBSET (L \cup at)
  <2>1. ASSUME NEW x \in L2 PROVE x \in L \cup at
    <3>1. x \in S \ {y} /\ x \notin Z /\ Cardinality(Ahead(l2, x)) < n BY DEF Low
    <3>2. Cardinality(Ahead(l, x)) < n \/ Cardinality(Ahead(l, x)) = n BY <1>1, <3>1
    <3> QED BY <3>1, <3>2 DEF Low
  <2> QED BY <2>1
<1>3. IsFiniteSet(at) /\ Cardinality(at) \in Nat /\ Cardinality(at) <= 1
  <2>1. CASE at = {} BY <2>1, FS_EmptySet
  <2>2. CASE at # {}
    <3> PICK x \in at : TRUE BY <2>2
    <3>1. ASSUME NEW z \in at, z # x PROVE FALSE
      <4>1. z \in DOMAIN l /\ x \in DOMAIN l OBVIOUS
      <4>2. Cardinality(Ahead(l, z)) = Cardinality(Ahead(l, x)) OBVIOUS
      <4> HIDE DEF at
      <4> QED BY <3>1, <4>1, <4>2, RanksDiffer
    <3>2. at = {x} BY <3>1
    <3>3. IsFiniteSet({x}) /\ Cardinality({x}) = 1 BY FS_Singleton
    <3> HIDE DEF at
    <3> QED BY <3>2, <3>3
  <2> QED BY <2>1, <2>2
<1>4. IsFiniteSet(L) /\ Cardinality(L) \in Nat
  <2>1. L \in SUBSET DOMAIN l BY DEF Low
  <2> HIDE DEF L
  <2> QED BY <2>1, Fewer
<1> HIDE DEF at, L, L2
<1>5. /\ IsFiniteSet(L \cup at) /\ Cardinality(L \cup at) <= Cardinality(L) + Cardinality(at)
      /\ Cardinality(L \cup at) \in Nat
  BY <1>3, <1>4, Together
<1>6. Cardinality(L2) <= Cardinality(L \cup at) /\ Cardinality(L2) \in Nat BY <1>2, <1>5, Fewer
<1>7. Cardinality(L2) <= Cardinality(L) + 1 BY <1>3, <1>4, <1>5, <1>6
<1> QED BY <1>4, <1>6, <1>7 DEF L, L2

(* and drops by no more than the number of rows does.                      *)
LEMMA BeyondMoves ==
    ASSUME NEW n \in Nat, NEW n2 \in Nat, NEW d \in Nat, n <= n2 + d, NEW p \in Page
    PROVE  Beyond(n, p) <= Beyond(n2, p) + d
BY PagesAddUp DEF Beyond

(* Arithmetic of what has been lost meanwhile.                             *)
LEMMA Difference ==
    ASSUME NEW a \in Nat, NEW b \in Nat, a <= b
    PROVE  b - a \in Nat
OBVIOUS

(* What has been read and answered stays accounted for.                    *)
LEMMA OthersStay ==
    ASSUME LogOK, LogOK', QueriesOK, steady' \subseteq steady, seen \subseteq seen', lost <= lost',
           \A Z : \A n \in Nat : Cardinality(Low(log', steady', Z, n))
                                    <= Cardinality(Low(log, steady, Z, n)) + (lost' - lost),
           Cardinality(DOMAIN log) <= Cardinality(DOMAIN log') + (lost' - lost),
           NEW q \in Page
    PROVE  /\ AnswerOK(q) /\ answers'[q] = answers[q] => AnswerOK(q)'
           /\ FetchOK(q) /\ fetches'[q] = fetches[q] /\ fetches[q].items # None => FetchOK(q)'
<1>1. /\ IsFiniteSet(steady) /\ lost \in Nat /\ Cardinality(DOMAIN log) \in Nat
  BY LogNumbers
<1>2. lost' \in Nat /\ Cardinality(DOMAIN log') \in Nat
  <2>1. lost' \in Nat BY PageAssumption DEF LogOK
  <2>2. IsFiniteSet(DOMAIN log') BY DEF LogOK
  <2> QED BY <2>1, <2>2, FS_CardinalityType
<1>3. UpTo(q) \in Nat BY PagesAddUp
<1>4. ASSUME NEW items, NEW late \in Nat, NEW n \in Nat, NEW n2 \in Nat, n <= n2 + (lost' - lost),
             Accounted(log, steady, seen, lost, q, items, late, n)
      PROVE  Accounted(log', steady', seen', lost', q, items, late, n2)
  <2>1. lost + Beyond(n, q) <= lost' + Beyond(n2, q)
    <3>1. lost' - lost \in Nat BY <1>1, <1>2, Difference
    <3>2. Beyond(n, q) <= Beyond(n2, q) + (lost' - lost) BY <1>4, <3>1, BeyondMoves
    <3>3. Beyond(n, q) \in Nat /\ Beyond(n2, q) \in Nat BY BeyondIsNat
    <3> QED BY <1>1, <1>2, <3>2, <3>3
  <2>2. Cardinality(Low(log', steady', seen' \cup items, UpTo(q)))
           <= Cardinality(Low(log, steady, seen \cup items, UpTo(q))) + (lost' - lost)
    <3> DEFINE Z == seen \cup items
               Z2 == seen' \cup items
    <3>1. Cardinality(Low(log', steady', Z, UpTo(q)))
             <= Cardinality(Low(log, steady, Z, UpTo(q))) + (lost' - lost)
      BY <1>3
    <3>2. /\ Cardinality(Low(log', steady', Z2, UpTo(q))) <= Cardinality(Low(log', steady', Z, UpTo(q)))
          /\ Cardinality(Low(log', steady', Z2, UpTo(q))) \in Nat
          /\ Cardinality(Low(log', steady', Z, UpTo(q))) \in Nat
      <4>1. IsFiniteSet(steady') BY <1>1, Fewer
      <4>2. Z \subseteq Z2 OBVIOUS
      <4> HIDE DEF Z, Z2
      <4> QED BY <4>1, <4>2, LowShrinks
    <3>3. Cardinality(Low(log, steady, Z, UpTo(q))) \in Nat BY <1>1, LowShrinks
    <3> HIDE DEF Z, Z2
    <3>4. Cardinality(Low(log', steady', Z2, UpTo(q)))
             <= Cardinality(Low(log, steady, Z, UpTo(q))) + (lost' - lost)
      BY <1>1, <1>2, <3>1, <3>2, <3>3
    <3> QED BY <3>4 DEF Z, Z2
  <2>3. steady' \in SUBSET steady OBVIOUS
  <2> QED BY <1>1, <1>2, <1>4, <2>1, <2>2, <2>3, StillAccounted
<1>5. ASSUME AnswerOK(q), answers'[q] = answers[q], answers[q] # None PROVE AnswerOK(q)'
  <2>1. answers[q].late \in Nat /\ answers[q].total \in Nat BY <1>5, QueryNumbers
  <2>2. answers[q].total <= answers[q].total + (lost' - lost) BY <1>1, <1>2, <2>1
  <2>3. /\ Accounted(log, steady, seen, lost, q, answers[q].items, answers[q].late, answers[q].total)
        /\ Cardinality(Low(log, steady, seen, UpTo(q))) <= lost
    BY <1>5 DEF AnswerOK
  <2>4. Accounted(log', steady', seen', lost', q, answers[q].items, answers[q].late, answers[q].total)
    BY <1>4, <2>1, <2>2, <2>3
  <2>5. Cardinality(Low(log', steady', seen', UpTo(q))) <= lost'
    <3>1. Cardinality(Low(log', steady', seen, UpTo(q)))
             <= Cardinality(Low(log, steady, seen, UpTo(q))) + (lost' - lost)
      BY <1>3
    <3>2. IsFiniteSet(steady') BY <1>1, Fewer
    <3>3. /\ Cardinality(Low(log', steady', seen', UpTo(q))) <= Cardinality(Low(log', steady', seen, UpTo(q)))
          /\ Cardinality(Low(log', steady', seen', UpTo(q))) \in Nat
          /\ Cardinality(Low(log', steady', seen, UpTo(q))) \in Nat
      BY <3>2, LowShrinks
    <3>4. Cardinality(Low(log, steady, seen, UpTo(q))) \in Nat BY <1>1, LowShrinks
    <3> QED BY <1>1, <1>2, <2>3, <3>1, <3>3, <3>4
  <2> QED BY <1>5, <2>4, <2>5 DEF AnswerOK
<1>6. ASSUME FetchOK(q), fetches'[q] = fetches[q], fetches[q].items # None, fetches[q] # None
      PROVE  FetchOK(q)'
  <2> DEFINE f == fetches[q]
             n == IF f.total = None THEN Cardinality(DOMAIN log) ELSE f.total
             n2 == IF f.total = None THEN Cardinality(DOMAIN log') ELSE f.total
  <2>1. f.late \in Nat /\ (f.total # None => f.total \in Nat) BY <1>6, QueryNumbers
  <2>2. n \in Nat /\ n2 \in Nat /\ n <= n2 + (lost' - lost) BY <1>1, <1>2, <2>1
  <2>3. Accounted(log, steady, seen, lost, q, f.items, f.late, n) BY <1>6 DEF FetchOK
  <2> HIDE DEF n, n2, f
  <2>4. Accounted(log', steady', seen', lost', q, f.items, f.late, n2) BY <1>4, <2>1, <2>2, <2>3
  <2> QED BY <1>6, <2>4 DEF FetchOK, f, n2
<1>7. answers[q] = None /\ answers'[q] = answers[q] => AnswerOK(q)' BY DEF AnswerOK
<1>8. fetches[q] = None /\ fetches'[q] = fetches[q] => FetchOK(q)' BY DEF FetchOK
<1> QED BY <1>5, <1>6, <1>7, <1>8

(* The log stays as it is, and more has been seen.                         *)
LEMMA QuietLog ==
    ASSUME LogOK, QueriesOK, UNCHANGED <<log, steady, lost, tied>>, seen \subseteq seen',
           NEW q \in Page
    PROVE  /\ LogOK'
           /\ AnswerOK(q) /\ answers'[q] = answers[q] => AnswerOK(q)'
           /\ FetchOK(q) /\ fetches'[q] = fetches[q] => FetchOK(q)'
<1>1. LogOK' BY DEF LogOK
<1>2. lost \in Nat /\ Cardinality(DOMAIN log) \in Nat /\ IsFiniteSet(steady) BY LogNumbers
<1>3. ASSUME NEW Z, NEW n \in Nat
      PROVE  Cardinality(Low(log', steady', Z, n))
                <= Cardinality(Low(log, steady, Z, n)) + (lost' - lost)
  <2>1. Cardinality(Low(log, steady, Z, n)) \in Nat BY <1>2, LowShrinks
  <2>2. Low(log', steady', Z, n) = Low(log, steady, Z, n) BY DEF Low
  <2> QED BY <1>2, <2>1, <2>2
<1>4. /\ steady' \subseteq steady /\ lost <= lost'
      /\ Cardinality(DOMAIN log) <= Cardinality(DOMAIN log') + (lost' - lost)
  BY <1>2
<1>5. /\ AnswerOK(q) /\ answers'[q] = answers[q] => AnswerOK(q)'
      /\ FetchOK(q) /\ fetches'[q] = fetches[q] /\ fetches[q].items # None => FetchOK(q)'
  BY <1>1, <1>3, <1>4, OthersStay
<1>6. FetchOK(q) /\ fetches'[q] = fetches[q] /\ fetches[q].items = None => FetchOK(q)'
  BY DEF FetchOK
<1> QED BY <1>1, <1>5, <1>6

-----------------------------------------------------------------------------
(* It holds at first,                                                      *)
LEMMA InitInv == Init => Inv
<1> SUFFICES ASSUME Init PROVE Inv OBVIOUS
<1>1. LogOK
  <2>1. log = InitLog /\ lost = 0 /\ steady = DOMAIN log BY DEF Init
  <2>2. log \in [DOMAIN log -> Time] /\ IsFiniteSet(DOMAIN log) /\ DOMAIN log \subseteq Row
    BY <2>1, PageAssumption
  <2>3. Cardinality(DOMAIN log) \in Nat BY <2>2, FS_CardinalityType
  <2>4. DOMAIN log \subseteq 1..(Cardinality(DOMAIN log) + lost)
    <3>1. DOMAIN log = 1..Cardinality(DOMAIN log) BY <2>1, PageAssumption
    <3>2. Cardinality(DOMAIN log) + lost = Cardinality(DOMAIN log) BY <2>1, <2>3
    <3> QED BY <3>1, <3>2
  <2>5. tied \in BOOLEAN BY DEF Init
  <2>6. ~tied => Ordered(log) BY DEF Init, Ordered
  <2>7. lost \in 0..MaxLost BY <2>1, PageAssumption
  <2> QED BY <2>1, <2>2, <2>4, <2>5, <2>6, <2>7 DEF LogOK
<1>2. page = 1 /\ page \in Page BY PageAssumption DEF Init, Page
<1>3. /\ fetches = [p \in Page |-> IF p = 1 THEN Asked ELSE None]
      /\ answers = [p \in Page |-> None]
  BY DEF Init
<1>4. Asked \in Fetch /\ Asked.items = None /\ Asked.total = None BY DEF Asked, Fetch
<1>5. QueriesOK
  <2>1. Show(page, answers) = {} BY <1>2, <1>3 DEF Show
  <2> QED BY <1>2, <1>3, <1>4, <2>1 DEF QueriesOK
<1>6. OpenedInOrder
  <2>1. \A p \in Page : answers[p] = None /\ (p # 1 => fetches[p] = None) BY <1>3
  <2>2. \A k \in 1..(1 - 1) : FALSE OBVIOUS
  <2> QED BY <1>2, <2>1, <2>2 DEF OpenedInOrder
<1>7. \A p \in Page : FetchOK(p) /\ AnswerOK(p) BY <1>3, <1>4 DEF FetchOK, AnswerOK
<1> QED BY <1>1, <1>5, <1>6, <1>7 DEF Inv, Counted

(* when the rows are counted,                                              *)
LEMMA CountKeeps ==
    ASSUME Inv, NEW p \in Page, Count(p)
    PROVE  Inv'
<1> DEFINE f == fetches[p]
           n == Cardinality(DOMAIN log)
           g == [f EXCEPT !.total = n]
<1>1. LogOK /\ QueriesOK /\ OpenedInOrder /\ Counted BY DEF Inv
<1>2. /\ UNCHANGED <<log, page, answers, seen, steady, lost, tied>>
      /\ f # None /\ f.total = None
      /\ fetches' = [fetches EXCEPT ![p] = g]
  BY DEF Count, Pending
<1>3. f \in Fetch /\ f.late \in Nat /\ n \in Nat BY <1>1, <1>2, QueryNumbers, LogNumbers
<1>4. g \in Fetch /\ g.total = n /\ g.items = f.items /\ g.late = f.late BY <1>3 DEF Fetch
<1>5. fetches \in [Page -> Fetch \cup {None}] BY <1>1 DEF QueriesOK
<1> HIDE DEF g
<1>6. /\ fetches' \in [Page -> Fetch \cup {None}] /\ fetches'[p] = g
      /\ \A q \in Page : q # p => fetches'[q] = fetches[q]
  BY <1>2, <1>4, <1>5
<1>7. LogOK' BY <1>1, <1>2, QuietLog
<1>8. QueriesOK'
  <2>1. \A q \in Page : fetches'[q] # None /\ fetches'[q].items # None =>
           Cardinality(fetches'[q].items) <= PageSize
    BY <1>1, <1>2, <1>4, <1>6 DEF QueriesOK
  <2> QED BY <1>1, <1>2, <1>6, <2>1 DEF QueriesOK, Show
<1>9. OpenedInOrder' BY <1>1, <1>2, <1>6 DEF OpenedInOrder
<1>10. ASSUME ~tied, NEW q \in Page PROVE FetchOK(q)' /\ AnswerOK(q)'
  <2>1. FetchOK(q) /\ AnswerOK(q) BY <1>1, <1>10 DEF Counted
  <2>2. AnswerOK(q)' BY <1>1, <1>2, <2>1, QuietLog
  <2>3. q # p => FetchOK(q)' BY <1>1, <1>2, <1>6, <2>1, QuietLog
  <2>4. q = p => FetchOK(q)'
    <3>1. n # None BY <1>3, NoneAssumption
    <3>2. n <= n + f.late BY <1>3
    <3> SUFFICES ASSUME q = p PROVE FetchOK(p)' OBVIOUS
    <3>3. f.items # None => Accounted(log, steady, seen, lost, p, f.items, f.late, n)
      BY <1>2, <2>1 DEF FetchOK
    <3> QED BY <1>2, <1>4, <1>6, <3>1, <3>2, <3>3 DEF FetchOK
  <2> QED BY <2>2, <2>3, <2>4
<1>11. Counted' BY <1>2, <1>10 DEF Counted
<1> QED BY <1>7, <1>8, <1>9, <1>11 DEF Inv

(* A page that is read leaves out no more than what was missing on the     *)
(* pages before it, and what lies beyond it.                               *)
LEMMA ReadAccounts ==
    ASSUME Inv, ~tied, NEW p \in Page, fetches[p] # None, NEW items \in PagesAt(p)
    PROVE  Accounted(log, steady, seen, lost, p, items, 0, Cardinality(DOMAIN log))
<1> DEFINE n == Cardinality(DOMAIN log)
           before == Low(log, steady, seen, UpTo(p - 1))
<1>1. /\ LogOK /\ Ordered(log) /\ n \in Nat /\ lost \in Nat /\ IsFiniteSet(steady)
      /\ IsFiniteSet(DOMAIN log) /\ \A x \in DOMAIN log : log[x] \in Nat
      /\ steady \subseteq DOMAIN log
  BY LogNumbers DEF Inv, LogOK
<1>2. PICK rest \in SUBSET DOMAIN log :
          /\ IsFiniteSet(rest) /\ Cardinality(rest) \in Nat
          /\ Cardinality(rest) <= Beyond(n, p)
          /\ \A x \in rest : Cardinality(Ahead(log, x)) >= UpTo(p)
          /\ \A x \in DOMAIN log \ (items \cup rest) : Cardinality(Ahead(log, x)) < UpTo(p - 1)
          /\ items = {} => rest = {}
  BY <1>1, WhatAPageHolds
<1>3. UpTo(p) \in Nat /\ UpTo(p - 1) \in Nat /\ p \in Nat /\ p >= 1 /\ (p = 1 => UpTo(p - 1) = 0)
  BY PagesAddUp
<1>4. \A x \in DOMAIN log : Cardinality(Ahead(log, x)) \in Nat
  <2> SUFFICES ASSUME NEW x \in DOMAIN log PROVE Cardinality(Ahead(log, x)) \in Nat OBVIOUS
  <2>1. Ahead(log, x) \in SUBSET DOMAIN log BY DEF Ahead
  <2> QED BY <1>1, <2>1, Fewer
<1>5. IsFiniteSet(before) /\ Cardinality(before) \in Nat
  <2>1. before \in SUBSET steady BY DEF Low
  <2> HIDE DEF before
  <2> QED BY <1>1, <2>1, Fewer
<1>6. Cardinality(before) <= lost
  <2>1. CASE p = 1
    <3>1. before = {} BY <1>1, <1>3, <1>4, <2>1 DEF Low
    <3>2. Cardinality(before) = 0 BY <3>1, FS_EmptySet
    <3> QED BY <1>1, <3>2
  <2>2. CASE p # 1
    <3>1. p - 1 \in Page /\ p - 1 \in 1..(p - 1) BY <1>3, <2>2, PageAssumption DEF Page
    <3>2. answers[p - 1] # None BY <3>1 DEF Inv, OpenedInOrder
    <3> QED BY <3>1, <3>2 DEF Inv, Counted, AnswerOK
  <2> QED BY <2>1, <2>2
<1> HIDE DEF n
<1>7. Cardinality(Low(log, steady, seen \cup items, UpTo(p))) <= lost
  <2>1. \A x \in DOMAIN log : x \notin items /\ Cardinality(Ahead(log, x)) < UpTo(p) =>
           Cardinality(Ahead(log, x)) < UpTo(p - 1)
    <3> SUFFICES ASSUME NEW x \in DOMAIN log, x \notin items, Cardinality(Ahead(log, x)) < UpTo(p)
                 PROVE  Cardinality(Ahead(log, x)) < UpTo(p - 1)
      OBVIOUS
    <3>1. x \notin rest BY <1>2, <1>3, <1>4
    <3> QED BY <1>2, <3>1
  <2>2. Low(log, steady, seen \cup items, UpTo(p)) \in SUBSET before BY <1>1, <2>1 DEF Low
  <2> HIDE DEF before
  <2>3. /\ Cardinality(Low(log, steady, seen \cup items, UpTo(p))) <= Cardinality(before)
        /\ Cardinality(Low(log, steady, seen \cup items, UpTo(p))) \in Nat
    BY <1>5, <2>2, Fewer
  <2> QED BY <1>1, <1>5, <1>6, <2>3
<1>8. steady \ (seen \cup items) \in SUBSET (before \cup rest)
  <2>1. ASSUME NEW x \in steady \ (seen \cup items), x \notin rest PROVE x \in before
    BY <1>1, <1>2, <2>1 DEF Low
  <2> QED BY <2>1
<1>9. items = {} => steady \ seen \in SUBSET before
  <2>1. ASSUME items = {}, NEW x \in steady \ seen PROVE x \in before
    BY <1>1, <1>2, <2>1 DEF Low
  <2> QED BY <2>1
<1> HIDE DEF before
<1>10. /\ IsFiniteSet(before \cup rest) /\ Cardinality(before \cup rest) \in Nat
       /\ Cardinality(before \cup rest) <= Cardinality(before) + Cardinality(rest)
  BY <1>2, <1>5, Together
<1>11. Cardinality(steady \ (seen \cup items)) <= lost + 0 + Beyond(n, p)
  <2>1. /\ Cardinality(steady \ (seen \cup items)) <= Cardinality(before \cup rest)
        /\ Cardinality(steady \ (seen \cup items)) \in Nat
    BY <1>8, <1>10, Fewer
  <2>2. Beyond(n, p) \in Nat BY <1>1, BeyondIsNat
  <2> QED BY <1>1, <1>2, <1>5, <1>6, <1>10, <2>1, <2>2
<1>12. items = {} => Cardinality(steady \ seen) <= lost
  <2> SUFFICES ASSUME items = {} PROVE Cardinality(steady \ seen) <= lost OBVIOUS
  <2>1. Cardinality(steady \ seen) <= Cardinality(before) /\ Cardinality(steady \ seen) \in Nat
    BY <1>5, <1>9, Fewer
  <2> QED BY <1>1, <1>5, <1>6, <2>1
<1> QED BY <1>7, <1>11, <1>12 DEF Accounted, n

(* when a page of them is read,                                            *)
LEMMA ReadKeeps ==
    ASSUME Inv, NEW p \in Page, Read(p)
    PROVE  Inv'
<1> DEFINE f == fetches[p]
           n == Cardinality(DOMAIN log)
<1>1. LogOK /\ QueriesOK /\ OpenedInOrder /\ Counted BY DEF Inv
<1>2. /\ UNCHANGED <<log, page, answers, seen, steady, lost, tied>>
      /\ f # None /\ f.items = None
  BY DEF Read, Pending
<1>3. PICK items \in PagesAt(p) : fetches' = [fetches EXCEPT ![p].items = items] BY DEF Read
<1> DEFINE g == [f EXCEPT !.items = items]
<1>4. /\ f \in Fetch /\ f.late \in Nat /\ (f.total # None => f.total \in Nat)
      /\ n \in Nat /\ lost \in Nat /\ IsFiniteSet(DOMAIN log) /\ IsFiniteSet(steady)
      /\ \A x \in DOMAIN log : log[x] \in Nat
  BY <1>1, <1>2, QueryNumbers, LogNumbers
<1>5. items \in RowSets /\ Cardinality(items) <= PageSize
  BY <1>1, <1>4, WhatAPageHolds DEF LogOK, RowSets
<1>6. g \in Fetch /\ g.total = f.total /\ g.items = items /\ g.late = f.late
  BY <1>4, <1>5 DEF Fetch
<1>7. fetches \in [Page -> Fetch \cup {None}] BY <1>1 DEF QueriesOK
<1> HIDE DEF g
<1>8. /\ fetches' \in [Page -> Fetch \cup {None}] /\ fetches'[p] = g
      /\ \A q \in Page : q # p => fetches'[q] = fetches[q]
  BY <1>3, <1>6, <1>7 DEF g
<1>9. LogOK' BY <1>1, <1>2, QuietLog
<1>10. QueriesOK'
  <2>1. \A q \in Page : fetches'[q] # None /\ fetches'[q].items # None =>
           Cardinality(fetches'[q].items) <= PageSize
    BY <1>1, <1>5, <1>6, <1>8 DEF QueriesOK
  <2> QED BY <1>1, <1>2, <1>8, <2>1 DEF QueriesOK, Show
<1>11. OpenedInOrder' BY <1>1, <1>2, <1>8 DEF OpenedInOrder
<1>12. ASSUME ~tied, NEW q \in Page PROVE FetchOK(q)' /\ AnswerOK(q)'
  <2>1. FetchOK(q) /\ AnswerOK(q) BY <1>1, <1>12 DEF Counted
  <2>2. AnswerOK(q)' BY <1>1, <1>2, <2>1, QuietLog
  <2>3. q # p => FetchOK(q)' BY <1>1, <1>2, <1>8, <2>1, QuietLog
  <2>4. ASSUME q = p PROVE FetchOK(q)'
    <3> DEFINE m == IF f.total = None THEN n ELSE f.total
    <3>1. Accounted(log, steady, seen, lost, p, items, 0, n) BY <1>2, <1>12, ReadAccounts
    <3>2. m \in Nat /\ n <= m + f.late
      <4>1. CASE f.total = None BY <1>4, <4>1
      <4>2. CASE f.total # None BY <1>2, <1>4, <2>1, <2>4, <4>2 DEF FetchOK
      <4> QED BY <4>1, <4>2
    <3>3. Cardinality(steady \ (seen \cup items)) <= lost + f.late + Beyond(m, p)
      <4>1. Cardinality(steady \ (seen \cup items)) <= lost + 0 + Beyond(n, p)
        BY <3>1 DEF Accounted
      <4>2. Beyond(n, p) <= Beyond(m, p) + f.late BY <1>4, <3>2, BeyondMoves
      <4>3. Beyond(n, p) \in Nat /\ Beyond(m, p) \in Nat BY <1>4, <3>2, BeyondIsNat
      <4>4. Cardinality(steady \ (seen \cup items)) \in Nat
        <5>1. steady \ (seen \cup items) \in SUBSET steady OBVIOUS
        <5> QED BY <1>4, <5>1, Fewer
      <4> HIDE DEF m, n, f
      <4> QED BY <1>4, <4>1, <4>2, <4>3, <4>4
    <3>4. Accounted(log, steady, seen, lost, p, items, f.late, m) BY <3>1, <3>3 DEF Accounted
    <3>5. items # None BY <1>5, NoneAssumption DEF RowSets
    <3>6. Accounted(log', steady', seen', lost', p, items, f.late, m) BY <1>2, <3>4
    <3> HIDE DEF f
    <3> QED BY <1>2, <1>6, <1>8, <2>4, <3>5, <3>6 DEF FetchOK
  <2> QED BY <2>2, <2>3, <2>4
<1>13. Counted' BY <1>2, <1>12 DEF Counted
<1> QED BY <1>9, <1>10, <1>11, <1>13 DEF Inv

(* when the answer arrives, and is shown if its page is: the first answer  *)
(* to a page arrives while that page is shown,                             *)
LEMMA AnswerKeeps ==
    ASSUME Inv, NEW p \in Page, Answer(p)
    PROVE  Inv'
<1> DEFINE f == fetches[p]
<1>1. LogOK /\ QueriesOK /\ OpenedInOrder /\ Counted BY DEF Inv
<1>2. /\ UNCHANGED <<log, page, steady, lost, tied>>
      /\ f # None /\ f.items # None /\ f.total # None
      /\ answers' = [answers EXCEPT ![p] = f] /\ fetches' = [fetches EXCEPT ![p] = None]
      /\ seen' = seen \cup Show(page, answers')
  BY DEF Answer, Pending
<1>3. f \in Fetch /\ f.late \in Nat /\ f.total \in Nat BY <1>1, <1>2, QueryNumbers
<1>4. /\ answers' \in [Page -> Fetch \cup {None}] /\ answers'[p] = f
      /\ \A q \in Page : q # p => answers'[q] = answers[q]
      /\ fetches' \in [Page -> Fetch \cup {None}] /\ fetches'[p] = None
      /\ \A q \in Page : q # p => fetches'[q] = fetches[q]
  BY <1>1, <1>2, <1>3 DEF QueriesOK
<1>5. seen \subseteq seen' BY <1>2
<1>6. LogOK' BY <1>1, <1>2, <1>5, QuietLog
<1>7. QueriesOK'
  <2>1. \A q \in Page : fetches'[q] # None /\ fetches'[q].items # None =>
           Cardinality(fetches'[q].items) <= PageSize
    BY <1>1, <1>4 DEF QueriesOK
  <2>2. \A q \in Page : answers'[q] # None =>
          /\ answers'[q].total # None /\ answers'[q].items # None
          /\ Cardinality(answers'[q].items) <= PageSize
    BY <1>1, <1>2, <1>4 DEF QueriesOK
  <2>3. Show(page', answers') \subseteq seen' BY <1>2
  <2> QED BY <1>1, <1>2, <1>4, <2>1, <2>2, <2>3 DEF QueriesOK
<1>8. OpenedInOrder'
  <2>1. \A q \in Page : answers[q] # None => answers'[q] # None BY <1>2, <1>4
  <2>2. ASSUME NEW q \in Page, answers'[q] # None \/ fetches'[q] # None, NEW k \in 1..(q - 1)
        PROVE  answers'[k] # None
    <3>1. k \in Page BY PageAssumption DEF Page
    <3>2. answers[q] # None \/ fetches[q] # None BY <1>2, <1>4, <2>2
    <3>3. answers[k] # None BY <1>1, <3>2 DEF OpenedInOrder
    <3> QED BY <2>1, <3>1, <3>3
  <2>3. ASSUME NEW q \in Page, fetches'[q] # None, answers'[q] = None PROVE q = page'
    BY <1>1, <1>2, <1>4, <2>1, <2>3 DEF OpenedInOrder
  <2> QED BY <2>2, <2>3 DEF OpenedInOrder
<1>9. ASSUME ~tied, NEW q \in Page PROVE FetchOK(q)' /\ AnswerOK(q)'
  <2>1. FetchOK(q) /\ AnswerOK(q) BY <1>1, <1>9 DEF Counted
  <2>2. CASE q # p BY <1>1, <1>2, <1>4, <1>5, <2>1, <2>2, QuietLog
  <2>3. CASE q = p
    <3>1. FetchOK(q)' BY <1>4, <2>3 DEF FetchOK
    <3>2. Accounted(log, steady, seen, lost, p, f.items, f.late, f.total)
      BY <1>2, <2>1, <2>3 DEF FetchOK
    <3>3. IsFiniteSet(steady) /\ lost \in Nat BY <1>1, LogNumbers
    <3>4. Accounted(log, steady, seen', lost, p, f.items, f.late, f.total)
      <4>1. seen \cup f.items \subseteq seen' \cup f.items BY <1>5
      <4>2. /\ Cardinality(Low(log, steady, seen' \cup f.items, UpTo(p)))
                  <= Cardinality(Low(log, steady, seen \cup f.items, UpTo(p)))
            /\ Cardinality(Low(log, steady, seen \cup f.items, UpTo(p))) \in Nat
        BY <3>3, <4>1, LowShrinks
      <4>3. Cardinality(Low(log, steady, seen' \cup f.items, UpTo(p)))
                  <= Cardinality(Low(log, steady, seen \cup f.items, UpTo(p))) + (lost - lost)
        BY <3>3, <4>1, <4>2, LowShrinks
      <4>4. Beyond(f.total, p) \in Nat BY <1>3, BeyondIsNat
      <4>5. lost <= lost /\ lost + Beyond(f.total, p) <= lost + Beyond(f.total, p) BY <3>3, <4>4
      <4>6. steady \in SUBSET steady OBVIOUS
      <4> HIDE DEF f
      <4> QED BY <1>3, <1>5, <3>2, <3>3, <4>3, <4>5, <4>6, StillAccounted
    <3>5. Cardinality(Low(log, steady, seen', UpTo(p))) <= lost
      <4>1. CASE answers[p] # None
        <5>1. Cardinality(Low(log, steady, seen, UpTo(p))) <= lost
          BY <2>1, <2>3, <4>1 DEF AnswerOK
        <5>2. /\ Cardinality(Low(log, steady, seen', UpTo(p))) <= Cardinality(Low(log, steady, seen, UpTo(p)))
              /\ Cardinality(Low(log, steady, seen', UpTo(p))) \in Nat
              /\ Cardinality(Low(log, steady, seen, UpTo(p))) \in Nat
          BY <1>5, <3>3, LowShrinks
        <5> QED BY <3>3, <5>1, <5>2
      <4>2. CASE answers[p] = None
        <5>1. p = page BY <1>1, <1>2, <4>2 DEF OpenedInOrder
        <5>2. seen' = seen \cup f.items BY <1>2, <1>4, <5>1 DEF Show
        <5> QED BY <3>2, <5>2 DEF Accounted
      <4> QED BY <4>1, <4>2
    <3>6. AnswerOK(q)'
      <4>1. Accounted(log', steady', seen', lost', p, f.items, f.late, f.total) BY <1>2, <3>4
      <4>2. Cardinality(Low(log', steady', seen', UpTo(p))) <= lost' BY <1>2, <3>5
      <4> HIDE DEF f
      <4> QED BY <1>4, <2>3, <4>1, <4>2 DEF AnswerOK
    <3> QED BY <3>1, <3>6
  <2> QED BY <2>2, <2>3
<1>10. Counted' BY <1>2, <1>9 DEF Counted
<1> QED BY <1>6, <1>7, <1>8, <1>10 DEF Inv

(* when a query fails,                                                     *)
LEMMA FailKeeps ==
    ASSUME Inv, NEW p \in Page, Fail(p)
    PROVE  Inv'
<1>1. LogOK /\ QueriesOK /\ OpenedInOrder /\ Counted BY DEF Inv
<1>2. /\ UNCHANGED <<log, page, answers, seen, steady, lost, tied>>
      /\ fetches[p] # None
  BY DEF Fail
<1>3. PICK again \in {Asked, None} : fetches' = [fetches EXCEPT ![p] = again] BY DEF Fail
<1>4. Asked \in Fetch /\ Asked.items = None /\ Asked.total = None BY DEF Asked, Fetch
<1>5. /\ fetches' \in [Page -> Fetch \cup {None}] /\ fetches'[p] = again
      /\ \A q \in Page : q # p => fetches'[q] = fetches[q]
  BY <1>1, <1>3, <1>4 DEF QueriesOK
<1>6. again # None => again = Asked OBVIOUS
<1>7. LogOK' BY <1>1, <1>2, QuietLog
<1>8. QueriesOK'
  <2>1. \A q \in Page : fetches'[q] # None /\ fetches'[q].items # None =>
           Cardinality(fetches'[q].items) <= PageSize
    BY <1>1, <1>4, <1>5, <1>6 DEF QueriesOK
  <2> QED BY <1>1, <1>2, <1>5, <2>1 DEF QueriesOK, Show
<1>9. OpenedInOrder' BY <1>1, <1>2, <1>5 DEF OpenedInOrder
<1>10. ASSUME ~tied, NEW q \in Page PROVE FetchOK(q)' /\ AnswerOK(q)'
  <2>1. FetchOK(q) /\ AnswerOK(q) BY <1>1, <1>10 DEF Counted
  <2>2. AnswerOK(q)' BY <1>1, <1>2, <2>1, QuietLog
  <2>3. q # p => FetchOK(q)' BY <1>1, <1>2, <1>5, <2>1, QuietLog
  <2>4. q = p => FetchOK(q)' BY <1>4, <1>5, <1>6 DEF FetchOK
  <2> QED BY <2>2, <2>3, <2>4
<1>11. Counted' BY <1>2, <1>10 DEF Counted
<1> QED BY <1>7, <1>8, <1>9, <1>11 DEF Inv

(* when a row is logged,                                                   *)
LEMMA InsertKeeps ==
    ASSUME Inv, NEW t \in Time, Insert(t)
    PROVE  Inv'
<1> DEFINE n == Cardinality(DOMAIN log)
           waits(q) == fetches[q] # None /\ fetches[q].total # None /\ fetches[q].items = None
<1>1. LogOK /\ QueriesOK /\ OpenedInOrder /\ Counted BY DEF Inv
<1>2. /\ UNCHANGED <<page, answers, seen, steady, lost>> /\ NextRow \in Row
      /\ log' = [y \in DOMAIN log \cup {NextRow} |-> IF y = NextRow THEN t ELSE log[y]]
      /\ fetches' = [q \in Page |-> IF waits(q) THEN [fetches[q] EXCEPT !.late = @ + 1]
                                                 ELSE fetches[q]]
      /\ tied' = (tied \/ \E y \in DOMAIN log : log[y] = t)
  BY DEF Insert
<1>3. /\ n \in Nat /\ lost \in Nat /\ IsFiniteSet(DOMAIN log) /\ IsFiniteSet(steady)
      /\ log \in [DOMAIN log -> Time] /\ DOMAIN log \subseteq 1..(n + lost)
      /\ steady \subseteq DOMAIN log /\ tied \in BOOLEAN
  BY <1>1, LogNumbers DEF LogOK
<1>4. NextRow = n + lost + 1 BY DEF NextRow
<1>5. NextRow \notin DOMAIN log BY <1>3, <1>4
<1>6. /\ DOMAIN log' = DOMAIN log \cup {NextRow} /\ log'[NextRow] = t
      /\ \A x \in DOMAIN log : log'[x] = log[x]
  BY <1>2, <1>5
<1>7. IsFiniteSet(DOMAIN log') /\ Cardinality(DOMAIN log') = n + 1
  BY <1>3, <1>5, <1>6, FS_AddElement
<1>8. LogOK'
  <2>1. log' \in [DOMAIN log' -> Time] BY <1>2, <1>3, <1>6
  <2>2. DOMAIN log' \subseteq 1..(Cardinality(DOMAIN log') + lost')
    <3>1. Cardinality(DOMAIN log') + lost' = n + lost + 1 BY <1>2, <1>3, <1>7
    <3>2. 1..(n + lost) \subseteq 1..(n + lost + 1) /\ n + lost + 1 \in 1..(n + lost + 1) BY <1>3
    <3> QED BY <1>3, <1>4, <1>6, <3>1, <3>2
  <2>3. DOMAIN log' \subseteq Row /\ steady' \subseteq DOMAIN log' /\ lost' \in 0..MaxLost
    BY <1>1, <1>2, <1>6 DEF LogOK
  <2>4. tied' \in BOOLEAN BY <1>2, <1>3
  <2>5. ~tied' => Ordered(log') BY <1>1, <1>2, <1>6 DEF LogOK, Ordered
  <2> QED BY <1>7, <2>1, <2>2, <2>3, <2>4, <2>5 DEF LogOK
<1>9. ASSUME NEW q \in Page, waits(q)
      PROVE  /\ fetches'[q] \in Fetch /\ fetches'[q].items = None
             /\ fetches'[q].total = fetches[q].total /\ fetches'[q].late = fetches[q].late + 1
             /\ fetches[q].late \in Nat /\ fetches[q].total \in Nat
  <2>1. fetches[q] \in Fetch /\ fetches[q].late \in Nat /\ fetches[q].total \in Nat
    BY <1>1, <1>9, QueryNumbers
  <2> DEFINE f == fetches[q]
             g == [f EXCEPT !.late = f.late + 1]
  <2>2. fetches'[q] = g BY <1>2, <1>9
  <2>3. g \in Fetch /\ g.items = f.items /\ g.total = f.total /\ g.late = f.late + 1
    BY <2>1 DEF Fetch
  <2> HIDE DEF g
  <2> QED BY <1>9, <2>1, <2>2, <2>3
<1>10. \A q \in Page : ~waits(q) => fetches'[q] = fetches[q] BY <1>2
<1>11. fetches' \in [Page -> Fetch \cup {None}]
  <2>1. \A q \in Page : fetches'[q] \in Fetch \cup {None} BY <1>1, <1>9, <1>10 DEF QueriesOK
  <2>2. fetches' = [q \in Page |-> fetches'[q]] BY <1>2
  <2> QED BY <2>1, <2>2
<1>12. QueriesOK'
  <2>1. \A q \in Page : fetches'[q] # None /\ fetches'[q].items # None =>
           Cardinality(fetches'[q].items) <= PageSize
    BY <1>1, <1>9, <1>10 DEF QueriesOK
  <2> HIDE DEF waits
  <2> QED BY <1>1, <1>2, <1>11, <2>1 DEF QueriesOK, Show
<1>13. OpenedInOrder'
  <2>1. \A q \in Page : fetches'[q] # None => fetches[q] # None BY <1>10
  <2> HIDE DEF waits
  <2> QED BY <1>1, <1>2, <2>1 DEF OpenedInOrder
<1>14. ASSUME ~tied', NEW q \in Page PROVE FetchOK(q)' /\ AnswerOK(q)'
  <2>1. ~tied BY <1>2, <1>14
  <2>2. FetchOK(q) /\ AnswerOK(q) BY <1>1, <2>1 DEF Counted
  <2>3. \A Z : \A k \in Nat : Cardinality(Low(log', steady', Z, k))
                                 <= Cardinality(Low(log, steady, Z, k)) + (lost' - lost)
    <3> SUFFICES ASSUME NEW Z, NEW k \in Nat
                 PROVE  Cardinality(Low(log', steady', Z, k))
                           <= Cardinality(Low(log, steady, Z, k)) + (lost' - lost)
      OBVIOUS
    <3>1. DOMAIN log \subseteq DOMAIN log' BY <1>6
    <3>2. /\ Cardinality(Low(log', steady, Z, k)) <= Cardinality(Low(log, steady, Z, k))
          /\ Cardinality(Low(log', steady, Z, k)) \in Nat /\ Cardinality(Low(log, steady, Z, k)) \in Nat
      BY <1>3, <1>6, <1>7, <3>1, LowAfterInsert
    <3>3. lost' = lost /\ steady' = steady BY <1>2
    <3> QED BY <1>3, <3>2, <3>3
  <2>4. /\ steady' \subseteq steady /\ seen \subseteq seen' /\ lost <= lost'
        /\ Cardinality(DOMAIN log) <= Cardinality(DOMAIN log') + (lost' - lost)
    BY <1>2, <1>3, <1>7
  <2>5. /\ AnswerOK(q) /\ answers'[q] = answers[q] => AnswerOK(q)'
        /\ FetchOK(q) /\ fetches'[q] = fetches[q] /\ fetches[q].items # None => FetchOK(q)'
    BY <1>1, <1>8, <2>3, <2>4, OthersStay
  <2>6. AnswerOK(q)' BY <1>2, <2>2, <2>5
  <2>7. CASE waits(q)
    <3>1. n <= fetches[q].total + fetches[q].late BY <2>2, <2>7 DEF FetchOK
    <3>2. Cardinality(DOMAIN log') <= fetches'[q].total + fetches'[q].late
      BY <1>3, <1>7, <1>9, <2>7, <3>1
    <3> QED BY <1>9, <2>6, <2>7, <3>2 DEF FetchOK
  <2>8. CASE ~waits(q)
    <3>1. fetches'[q] = fetches[q] BY <1>10, <2>8
    <3>2. CASE fetches[q].items # None BY <2>2, <2>5, <2>6, <3>1, <3>2
    <3>3. CASE fetches[q].items = None BY <2>6, <2>8, <3>1, <3>3 DEF FetchOK
    <3> QED BY <3>2, <3>3
  <2> QED BY <2>7, <2>8
<1>15. Counted' BY <1>14 DEF Counted
<1> QED BY <1>8, <1>12, <1>13, <1>15 DEF Inv

(* when a row stops matching,                                              *)
LEMMA UnmatchKeeps ==
    ASSUME Inv, NEW x \in Row, Unmatch(x)
    PROVE  Inv'
<1> DEFINE n == Cardinality(DOMAIN log)
<1>1. LogOK /\ QueriesOK /\ OpenedInOrder /\ Counted BY DEF Inv
<1>2. /\ UNCHANGED <<page, fetches, answers, seen, tied>>
      /\ x \in DOMAIN log /\ lost < MaxLost
      /\ log' = [y \in DOMAIN log \ {x} |-> log[y]]
      /\ steady' = steady \ {x} /\ lost' = lost + 1
  BY DEF Unmatch
<1>3. /\ n \in Nat /\ lost \in Nat /\ IsFiniteSet(DOMAIN log) /\ IsFiniteSet(steady)
      /\ log \in [DOMAIN log -> Time] /\ DOMAIN log \subseteq 1..(n + lost)
      /\ steady \subseteq DOMAIN log /\ \A y \in DOMAIN log : log[y] \in Nat
  BY <1>1, LogNumbers DEF LogOK
<1>4. /\ DOMAIN log' = DOMAIN log \ {x} /\ \A y \in DOMAIN log' : log'[y] = log[y]
  BY <1>2
<1>5. IsFiniteSet(DOMAIN log') /\ Cardinality(DOMAIN log') = n - 1 /\ n - 1 \in Nat
  <2>1. IsFiniteSet(DOMAIN log \ {x}) /\ Cardinality(DOMAIN log \ {x}) = n - 1
    BY <1>2, <1>3, FS_RemoveElement
  <2>2. Cardinality(DOMAIN log \ {x}) \in Nat BY <2>1, FS_CardinalityType
  <2> QED BY <1>4, <2>1, <2>2
<1>6. LogOK'
  <2>1. log' \in [DOMAIN log' -> Time] BY <1>2, <1>3, <1>4
  <2>2. Cardinality(DOMAIN log') + lost' = n + lost BY <1>2, <1>3, <1>5
  <2>3. DOMAIN log' \subseteq 1..(Cardinality(DOMAIN log') + lost') BY <1>3, <1>4, <2>2
  <2>4. DOMAIN log' \subseteq Row /\ steady' \subseteq DOMAIN log'
    BY <1>1, <1>2, <1>4 DEF LogOK
  <2>5. tied' \in BOOLEAN /\ lost' \in 0..MaxLost BY <1>1, <1>2, <1>3, PageAssumption DEF LogOK
  <2>6. ~tied' => Ordered(log') BY <1>1, <1>2, <1>4 DEF LogOK, Ordered
  <2> QED BY <1>5, <2>1, <2>3, <2>4, <2>5, <2>6 DEF LogOK
<1>7. QueriesOK' BY <1>1, <1>2 DEF QueriesOK, Show
<1>8. OpenedInOrder' BY <1>1, <1>2 DEF OpenedInOrder
<1>9. ASSUME ~tied', NEW q \in Page PROVE FetchOK(q)' /\ AnswerOK(q)'
  <2>1. ~tied /\ Ordered(log) BY <1>1, <1>2, <1>9 DEF LogOK
  <2>2. FetchOK(q) /\ AnswerOK(q) BY <1>1, <2>1 DEF Counted
  <2>3. \A Z : \A k \in Nat : Cardinality(Low(log', steady', Z, k))
                                 <= Cardinality(Low(log, steady, Z, k)) + (lost' - lost)
    <3> SUFFICES ASSUME NEW Z, NEW k \in Nat
                 PROVE  Cardinality(Low(log', steady', Z, k))
                           <= Cardinality(Low(log, steady, Z, k)) + (lost' - lost)
      OBVIOUS
    <3>1. Cardinality(Low(log', steady \ {x}, Z, k)) <= Cardinality(Low(log, steady, Z, k)) + 1
      BY <1>2, <1>3, <1>4, <2>1, LowAfterUnmatch
    <3>2. lost' - lost = 1 BY <1>2, <1>3
    <3> QED BY <1>2, <3>1, <3>2
  <2>4. /\ steady' \subseteq steady /\ seen \subseteq seen' /\ lost <= lost'
        /\ Cardinality(DOMAIN log) <= Cardinality(DOMAIN log') + (lost' - lost)
    BY <1>2, <1>3, <1>5
  <2>5. /\ AnswerOK(q) /\ answers'[q] = answers[q] => AnswerOK(q)'
        /\ FetchOK(q) /\ fetches'[q] = fetches[q] /\ fetches[q].items # None => FetchOK(q)'
    BY <1>1, <1>6, <2>3, <2>4, OthersStay
  <2>6. fetches'[q] = fetches[q] /\ answers'[q] = answers[q] BY <1>2
  <2>7. ASSUME fetches[q] # None, fetches[q].items = None, fetches[q].total # None
        PROVE  FetchOK(q)'
    <3>1. n <= fetches[q].total + fetches[q].late BY <2>2, <2>7 DEF FetchOK
    <3>2. fetches[q].total \in Nat /\ fetches[q].late \in Nat BY <1>1, <2>7, QueryNumbers
    <3>3. Cardinality(DOMAIN log') <= fetches[q].total + fetches[q].late
      BY <1>3, <1>5, <3>1, <3>2
    <3> QED BY <2>6, <2>7, <3>3 DEF FetchOK
  <2>8. fetches[q].items = None /\ (fetches[q] = None \/ fetches[q].total = None) => FetchOK(q)'
    BY <2>6 DEF FetchOK
  <2> QED BY <2>2, <2>5, <2>6, <2>7, <2>8
<1>10. Counted' BY <1>9 DEF Counted
<1> QED BY <1>6, <1>7, <1>8, <1>10 DEF Inv

(* and when the reader goes on or back.                                    *)
LEMMA OpenKeeps ==
    ASSUME Inv, answers[page] # None, NEW p \in Page, p = page + 1 \/ p = page - 1, Open(p)
    PROVE  Inv'
<1>1. LogOK /\ QueriesOK /\ OpenedInOrder /\ Counted BY DEF Inv
<1>2. /\ UNCHANGED <<log, answers, steady, lost, tied>> /\ page' = p
      /\ fetches' = [fetches EXCEPT ![p] = IF @ = None THEN Asked ELSE @]
      /\ seen' = seen \cup Show(p, answers)
  BY DEF Open
<1>3. Asked \in Fetch /\ Asked.items = None /\ Asked.total = None BY DEF Asked, Fetch
<1>4. /\ fetches' \in [Page -> Fetch \cup {None}]
      /\ fetches'[p] = IF fetches[p] = None THEN Asked ELSE fetches[p]
      /\ \A q \in Page : q # p => fetches'[q] = fetches[q]
  BY <1>1, <1>2, <1>3 DEF QueriesOK
<1>5. seen \subseteq seen' BY <1>2
<1>6. LogOK' BY <1>1, <1>2, <1>5, QuietLog
<1>7. page \in Page /\ page \in Nat /\ page >= 1 /\ p \in Nat BY <1>1, PageAssumption DEF QueriesOK, Page
<1>8. QueriesOK'
  <2>1. \A q \in Page : fetches'[q] # None /\ fetches'[q].items # None =>
           Cardinality(fetches'[q].items) <= PageSize
    BY <1>1, <1>3, <1>4 DEF QueriesOK
  <2>2. Show(page', answers') \subseteq seen' BY <1>2
  <2> QED BY <1>1, <1>2, <1>4, <2>1, <2>2 DEF QueriesOK
<1>9. OpenedInOrder'
  <2>1. \A q \in Page : 1..(q - 1) \subseteq Page BY PageAssumption DEF Page
  <2>2. ASSUME NEW k \in 1..(p - 1) PROVE answers[k] # None
    <3>1. k = page \/ k \in 1..(page - 1) BY <1>7
    <3> QED BY <1>1, <1>7, <3>1 DEF OpenedInOrder
  <2>3. ASSUME NEW q \in Page, answers'[q] # None \/ fetches'[q] # None, NEW k \in 1..(q - 1)
        PROVE  answers'[k] # None
    <3>1. CASE q = p BY <1>2, <2>2, <2>3, <3>1
    <3>2. CASE q # p BY <1>1, <1>2, <1>4, <2>3, <3>2 DEF OpenedInOrder
    <3> QED BY <3>1, <3>2
  <2>4. ASSUME NEW q \in Page, fetches'[q] # None, answers'[q] = None PROVE q = page'
    BY <1>1, <1>2, <1>4, <2>4 DEF OpenedInOrder
  <2> QED BY <2>3, <2>4 DEF OpenedInOrder
<1>10. ASSUME ~tied, NEW q \in Page PROVE FetchOK(q)' /\ AnswerOK(q)'
  <2>1. FetchOK(q) /\ AnswerOK(q) BY <1>1, <1>10 DEF Counted
  <2>2. AnswerOK(q)' BY <1>1, <1>2, <1>5, <2>1, QuietLog
  <2>3. CASE fetches'[q] = fetches[q] BY <1>1, <1>2, <1>5, <2>1, <2>2, <2>3, QuietLog
  <2>4. CASE fetches'[q] = Asked BY <1>3, <2>2, <2>4 DEF FetchOK
  <2> QED BY <1>4, <2>3, <2>4
<1>11. Counted' BY <1>2, <1>10 DEF Counted
<1> QED BY <1>6, <1>8, <1>9, <1>11 DEF Inv

(* Every step keeps the invariant.                                         *)
LEMMA NextInv == Inv /\ [Next]_vars => Inv'
<1> SUFFICES ASSUME Inv, [Next]_vars PROVE Inv' OBVIOUS
<1>1. ASSUME NEW p \in Page, Count(p) \/ Read(p) \/ Answer(p) \/ Fail(p) PROVE Inv'
  BY <1>1, CountKeeps, ReadKeeps, AnswerKeeps, FailKeeps
<1>2. page \in Page /\ page \in Nat /\ MaxPage \in Nat BY PageAssumption DEF Inv, QueriesOK, Page
<1>3. ASSUME Following PROVE Inv'
  <2>1. answers[page] # None /\ page + 1 \in Page /\ Open(page + 1)
    BY <1>2, <1>3 DEF Following, HasRows, Page
  <2> QED BY <2>1, OpenKeeps
<1>4. ASSUME Previous PROVE Inv'
  <2>1. answers[page] # None /\ page - 1 \in Page /\ Open(page - 1)
    BY <1>2, <1>4 DEF Previous, HasRows, Page
  <2> QED BY <2>1, OpenKeeps
<1>5. CASE UNCHANGED vars
  <2>1. /\ UNCHANGED <<log, page, fetches, answers, seen, steady, lost, tied>> BY <1>5 DEF vars
  <2>2. LogOK' /\ QueriesOK' /\ OpenedInOrder'
    BY <2>1 DEF Inv, LogOK, QueriesOK, OpenedInOrder, Show
  <2>3. \A q \in Page : (FetchOK(q)' <=> FetchOK(q)) /\ (AnswerOK(q)' <=> AnswerOK(q))
    BY <2>1 DEF FetchOK, AnswerOK
  <2>4. Counted' BY <2>1, <2>3 DEF Inv, Counted
  <2> QED BY <2>2, <2>4 DEF Inv
<1> QED BY <1>1, <1>3, <1>4, <1>5, InsertKeeps, UnmatchKeeps DEF Next

(* The invariant gives the properties.                                     *)
LEMMA InvTypes == Inv => TypeOK
<1> SUFFICES ASSUME Inv PROVE TypeOK OBVIOUS
<1>1. LogOK /\ QueriesOK BY DEF Inv
<1>2. \A x \in DOMAIN log : log[x] \in Time BY <1>1 DEF LogOK
<1>3. \A p \in Page : answers[p] # None =>
          /\ answers[p].total \in Nat /\ answers[p].late \in Nat
          /\ answers[p].items \subseteq Row /\ Cardinality(answers[p].items) <= PageSize
  BY <1>1, QueryNumbers DEF QueriesOK, RowSets
<1> QED BY <1>1, <1>2, <1>3 DEF LogOK, QueriesOK, TypeOK

(* On the last page nothing lies beyond.                                   *)
LEMMA InvSkipsNothing == Inv => NothingSkipped
<1> SUFFICES ASSUME Inv, AtTheEnd, ~tied
             PROVE  Cardinality(steady \ seen) <= lost + answers[page].late
  BY DEF NothingSkipped
<1> DEFINE a == answers[page]
<1>1. LogOK /\ QueriesOK /\ page \in Page BY DEF Inv, QueriesOK
<1>2. a # None /\ (a.items = {} \/ ~MoreToCome) BY DEF AtTheEnd
<1>3. lost \in Nat /\ IsFiniteSet(steady) /\ a.late \in Nat /\ a.total \in Nat
  BY <1>1, <1>2, LogNumbers, QueryNumbers
<1>4. Accounted(log, steady, seen, lost, page, a.items, a.late, a.total)
  BY <1>1, <1>2 DEF Inv, Counted, AnswerOK
<1>5. a.items \subseteq seen BY <1>1, <1>2 DEF QueriesOK, Show
<1>6. Cardinality(steady \ seen) \in Nat
  <2>1. steady \ seen \in SUBSET steady OBVIOUS
  <2> QED BY <1>3, <2>1, Fewer
<1>7. CASE a.items = {}
  <2>1. Cardinality(steady \ seen) <= lost BY <1>4, <1>7 DEF Accounted
  <2> HIDE DEF a
  <2> QED BY <1>3, <1>6, <2>1 DEF a
<1>8. CASE ~MoreToCome
  <2>1. page \in Nat /\ UpTo(page) \in Nat BY <1>1, PagesAddUp
  <2>2. TotalPages(a) \in Int
    <3>1. PageSize \in Nat \ {0} BY PageAssumption
    <3>2. a.total + PageSize - 1 \in Nat BY <1>3, <3>1
    <3>3. (a.total + PageSize - 1) \div PageSize \in Int BY <3>1, <3>2
    <3> QED BY <3>3 DEF TotalPages
  <2>3. page >= TotalPages(a) BY <1>8, <2>1, <2>2 DEF MoreToCome
  <2>4. a.total <= UpTo(page) BY <1>1, <1>3, <2>3, LastPage
  <2>5. Beyond(a.total, page) = 0 BY <1>3, <2>1, <2>4 DEF Beyond
  <2>6. steady \ (seen \cup a.items) = steady \ seen BY <1>5
  <2>7. Cardinality(steady \ seen) <= lost + a.late + Beyond(a.total, page)
    BY <1>4, <2>6 DEF Accounted
  <2> HIDE DEF a
  <2> QED BY <1>3, <1>6, <2>5, <2>7 DEF a
<1> QED BY <1>2, <1>7, <1>8

(* At every moment the pages read account for the rows not shown yet       *)
(* (AuditService.list with its skip, take and count).                      *)
THEOREM RowsAccountedFor == Spec => []Inv
BY InitInv, NextInv, PTL DEF Spec

(* The state of the page and of the queries has its type.                  *)
THEOREM AuditTypeCorrect == Spec => []TypeOK
BY RowsAccountedFor, InvTypes, PTL

(* A reader who reaches the last page has been shown every row that        *)
(* matched all along, but for the few that NothingSkipped allows, for      *)
(* every log, page size and number of pages (AuditService.list,            *)
(* AuditLogsPage).                                                         *)
THEOREM NoRowIsSkipped == Spec => []NothingSkipped
BY RowsAccountedFor, InvSkipsNothing, PTL
=============================================================================
