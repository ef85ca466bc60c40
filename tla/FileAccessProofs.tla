-------------------------- MODULE FileAccessProofs --------------------------
(***************************************************************************)
(* The file routes, for every set of names, keys, prefixes and requests.   *)
(*                                                                         *)
(* Four parts: what the listing and search rules promise each other; that  *)
(* no answer reaches beyond the permissions the account had since its      *)
(* request arrived, whatever happens meanwhile; that listings and searches *)
(* leave out nothing that was visible and stored all along; and that       *)
(* nobody is forbidden what has been permitted all along.                  *)
(***************************************************************************)
EXTENDS FileAccess, FiniteSetTheorems, WellFoundedInduction, TLAPS

(* Two prefixes of one text: one of them is a prefix of the other.         *)
LEMMA PrefixesComparable ==
    ASSUME NEW t \in Seq(Name), NEW p \in Seq(Name), NEW q \in Seq(Name),
           Under(t, p), Under(t, q)
    PROVE  Comparable(p, q)
<1>1. Len(p) \in Nat /\ Len(q) \in Nat /\ Len(t) \in Nat OBVIOUS
<1>2. CASE Len(p) <= Len(q)
  <2>1. \A i \in 1..Len(p) : i \in 1..Len(q) BY <1>1, <1>2
  <2>2. Under(q, p) BY <1>2, <2>1 DEF Under
  <2> QED BY <2>2 DEF Comparable
<1>3. CASE Len(q) <= Len(p)
  <2>1. \A i \in 1..Len(q) : i \in 1..Len(p) BY <1>1, <1>3
  <2>2. Under(p, q) BY <1>3, <2>1 DEF Under
  <2> QED BY <2>2 DEF Comparable
<1> QED BY <1>1, <1>2, <1>3

(* The way to an object is open: a user who may access an ordinary object  *)
(* may list every folder above it (canListWithinPermission says yes to     *)
(* parents of a permission as well as to what lies within it).             *)
THEOREM WayIsOpen ==
    ASSUME NEW rows \in SUBSET Permission, NEW b, NEW k \in Key, NEW P \in Prefix,
           k \notin DOMAIN Odd, CanAccess(rows, b, k), Below(P, k)
    PROVE  CanList(rows, b, P)
<1>1. PICK p \in rows : p.bucket = b /\ Under(k, p.prefix) BY DEF CanAccess, Sees
<1>2. k \in Seq(Name) /\ P \in Seq(Name) /\ p.prefix \in Seq(Name)
  BY KeyAssumption DEF Permission
<1>3. Under(k, P) BY DEF Below
<1>4. Comparable(P, p.prefix) BY <1>1, <1>2, <1>3, PrefixesComparable
<1> QED BY <1>1, <1>4 DEF CanList

(* And each listing on the way shows the entry that leads to the object:   *)
(* the folder that holds it, or the object itself.                         *)
THEOREM WayIsShown ==
    ASSUME NEW rows \in SUBSET Permission, NEW b, NEW k \in Key, NEW P \in Prefix,
           k \notin DOMAIN Odd, CanAccess(rows, b, k), Below(P, k), k # Marker(P)
    PROVE  Shown(rows, b, P, Entry(P, k))
<1>1. PICK p \in rows : p.bucket = b /\ Under(k, p.prefix) BY DEF CanAccess, Sees
<1>2. k \in Seq(Name) /\ P \in Seq(Name) /\ p.prefix \in Seq(Name)
  BY KeyAssumption DEF Permission
<1>3. Under(k, P) /\ Len(P) < Len(k) /\ Len(P) \in Nat /\ Len(k) \in Nat BY <1>2 DEF Below
<1>4. CASE Len(k) = Len(P) + 1
  <2>1. Entry(P, k) = k BY <1>4 DEF Entry
  <2>2. ~IsFolder(P, k) BY <1>3, <1>4 DEF IsFolder
  <2> QED BY <2>1, <2>2 DEF Shown
<1>5. CASE Len(k) # Len(P) + 1
  <2> DEFINE n == Len(P)
             e == [i \in 1..(n + 2) |-> IF i = n + 2 THEN Empty ELSE k[i]]
             f == FolderOf(e)
  <2>1. Len(k) >= n + 2 BY <1>3, <1>5
  <2>2. Entry(P, k) = e BY <1>5 DEF Entry
  <2>3. \A i \in 1..(n + 2) : e[i] \in Name
    <3>1. \A i \in 1..(n + 2) : i \in 1..Len(k) BY <2>1, <1>3
    <3>2. \A i \in 1..Len(k) : k[i] \in Name BY <1>2
    <3> QED BY <3>1, <3>2, NameAssumption
  <2>4. e \in Seq(Name) /\ Len(e) = n + 2
    <3>1. e \in [1..(n + 2) -> Name] BY <2>3
    <3>2. n + 2 \in Nat BY <1>3
    <3> QED BY <3>1, <3>2
  <2>5. f \in Seq(Name) /\ Len(f) = n + 1 /\ \A i \in 1..(n + 1) : f[i] = e[i]
    BY <2>4, <1>3 DEF FolderOf
  <2>6. Under(k, f)
    <3>1. \A i \in 1..(n + 1) : f[i] = k[i] BY <2>5, <1>3
    <3>2. Len(f) = n + 1 /\ n + 1 <= Len(k) BY <2>5, <2>1, <1>3
    <3> HIDE DEF n, e, f
    <3>3. \A i \in 1..Len(f) : k[i] = f[i] BY <3>1, <3>2
    <3> QED BY <3>2, <3>3 DEF Under
  <2>7. Comparable(f, p.prefix) BY <2>5, <2>6, <1>1, <1>2, PrefixesComparable
  <2>8. IsFolder(P, e) BY <2>4 DEF IsFolder
  <2> QED BY <2>2, <2>7, <2>8, <1>1 DEF Shown
<1> QED BY <1>4, <1>5

(* A search of a folder goes through a root above every object below the   *)
(* folder that one of the permissions covers (S3Service.search).           *)
THEOREM RootsCover ==
    ASSUME NEW rows \in SUBSET Permission, NEW b, NEW k \in Key, NEW P \in Prefix,
           NEW p \in rows, p.bucket = b, Below(p.prefix, k), Below(P, k)
    PROVE  \E root \in SearchRoots(rows, b, P) : Below(root, k)
<1>1. k \in Seq(Name) /\ P \in Seq(Name) /\ p.prefix \in Seq(Name)
  BY KeyAssumption DEF Permission
<1>2. Comparable(p.prefix, P) BY <1>1, PrefixesComparable DEF Below
<1> DEFINE near == {x \in rows : x.bucket = b /\ Comparable(x.prefix, P)}
           root == IF Under(P, p.prefix) THEN P ELSE p.prefix
<1>3. p \in near BY <1>2
<1>4. root \in SearchRoots(rows, b, P) BY <1>3 DEF SearchRoots
<1>5. Below(root, k) OBVIOUS
<1> QED BY <1>4, <1>5

(* No root of a search leaves the folder the search is in, when a          *)
(* permission reaches it: what a search finds lies below that folder.      *)
THEOREM RootsWithin ==
    ASSUME NEW rows \in SUBSET Permission, NEW b, NEW P \in Prefix,
           NEW root \in SearchRoots(rows, b, P)
    PROVE  Under(root, P)
<1>1. P \in Seq(Name) BY KeyAssumption
<1>2. Under(P, P) BY <1>1 DEF Under
<1>3. CASE root = P BY <1>2, <1>3
<1>4. CASE root # P
  <2>1. PICK p \in rows : Comparable(p.prefix, P) /\ ~Under(P, p.prefix) /\ root = p.prefix
    BY <1>4 DEF SearchRoots
  <2> QED BY <2>1 DEF Comparable
<1> QED BY <1>3, <1>4

-----------------------------------------------------------------------------
(***************************************************************************)
(* Answers within the permissions.  The inductive invariant follows a      *)
(* request through its awaits: the rows it has read first are rows held,   *)
(* what it has collected lies within rows held, and rows are held for as   *)
(* long as the request runs.                                               *)
(***************************************************************************)
Fields == {"stage", "call", "role", "cursor", "rows", "bucket", "root", "roots", "after",
           "page", "count", "next", "status"}

\* The rows that bound the answer to a request q, if h are the account's.
Rights(q, h) == IF q.role = "ADMIN" THEN AdminRows ELSE h

EntryWithin(q, rows, e) ==
    IF IsFolder(q.call.path, e) THEN CanList(rows, q.bucket, FolderOf(e))
                                ELSE CanAccess(rows, q.bucket, e)

PageWithin(q, rows) ==
    /\ q.call.kind = "list" => \A e \in q.page : EntryWithin(q, rows, e)
    /\ q.call.kind = "search" => \A k \in q.page : CanAccess(rows, q.bucket, k)

Chosen == {"access", "list", "search", "log"}

\* The rows read first, and the bucket chosen with them.
RowsHeld(q, h) ==
    q.stage \in Chosen => q.rows \subseteq Rights(q, h) /\ q.bucket \in AllowedBuckets

\* What has been collected, and when.
Collected(q, h) ==
    /\ q.stage \in {"idle", "permissions", "access", "list"} => q.page = {}
    /\ q.stage = "list" => q.call.kind = "list"
    /\ q.stage = "search" => q.call.kind = "search"
    /\ q.stage \in Chosen => PageWithin(q, Rights(q, h))
    /\ q.stage = "log" /\ q.call.kind = "download" =>
          CanAccess(Rights(q, h), q.bucket, Parsed(q.call.path))

\* What has been answered.
Given(q, h) ==
    /\ q.stage # "done" => q.status = 0
    /\ q.status = 200 =>
          /\ PageWithin(q, Rights(q, h))
          /\ q.call.kind = "download" \/ q.page # {} => q.bucket \in AllowedBuckets
          /\ q.call.kind = "download" => CanAccess(Rights(q, h), q.bucket, Parsed(q.call.path))

Bounded(q, h) ==
    /\ q = [f \in Fields |-> q[f]]
    /\ RowsHeld(q, h)
    /\ Collected(q, h)
    /\ Given(q, h)

AllBounded ==
    /\ requests = [r \in Request |-> requests[r]]
    /\ held = [r \in Request |-> held[r]]
    /\ \A r \in Request : Bounded(requests[r], held[r])
    /\ \A r \in Request : requests[r].stage \notin {"idle", "done"} => grants \subseteq held[r]

(* More rows allow no less.                                                *)
LEMMA MoreRows ==
    ASSUME NEW rows, NEW more, rows \subseteq more, NEW b
    PROVE  /\ \A k : CanAccess(rows, b, k) => CanAccess(more, b, k)
           /\ \A p : CanList(rows, b, p) => CanList(more, b, p)
BY DEF CanAccess, CanList

(* What the rules show, rows that are held bound.                          *)
LEMMA ShownWithin ==
    ASSUME NEW rows, NEW q, NEW e, Shown(rows, q.bucket, q.call.path, e)
    PROVE  EntryWithin(q, rows, e)
BY DEF Shown, EntryWithin, CanList

(* More rows bound no less of a page.                                     *)
LEMMA MoreEntries ==
    ASSUME NEW rows, NEW more, rows \subseteq more, NEW q
    PROVE  /\ \A e : EntryWithin(q, rows, e) => EntryWithin(q, more, e)
           /\ PageWithin(q, rows) => PageWithin(q, more)
<1>1. \A e : EntryWithin(q, rows, e) => EntryWithin(q, more, e)
  BY MoreRows DEF EntryWithin
<1>2. PageWithin(q, rows) => PageWithin(q, more)
  BY <1>1, MoreRows DEF PageWithin
<1> QED BY <1>1, <1>2

(* A request stays bounded when its account is granted more.               *)
LEMMA MoreHeld ==
    ASSUME NEW q, NEW h, NEW more, h \subseteq more, Bounded(q, h)
    PROVE  Bounded(q, more)
<1>1. Rights(q, h) \subseteq Rights(q, more) BY DEF Rights
<1>2. RowsHeld(q, more) BY <1>1 DEF Bounded, RowsHeld
<1>3. Collected(q, more) BY <1>1, MoreEntries, MoreRows DEF Bounded, Collected
<1>4. Given(q, more) BY <1>1, MoreEntries, MoreRows DEF Bounded, Given
<1> QED BY <1>2, <1>3, <1>4 DEF Bounded

(* A step of one request keeps all of them bounded if it keeps its own.    *)
LEMMA OneRequestSteps ==
    ASSUME AllBounded, NEW r \in Request, NEW q, Become(r, q), Bounded(q, held[r]),
           q.stage # "idle", requests[r].stage \notin {"idle", "done"},
           grants' = grants, held' = held
    PROVE  AllBounded'
<1>1. requests' = [x \in Request |-> IF x = r THEN q ELSE requests[x]]
  BY DEF AllBounded, Become
<1>2. requests' = [x \in Request |-> requests'[x]] BY <1>1
<1>3. \A x \in Request : Bounded(requests'[x], held[x]) BY <1>1 DEF AllBounded
<1>4. \A x \in Request : requests'[x].stage \notin {"idle", "done"} => grants \subseteq held[x]
  BY <1>1 DEF AllBounded
<1>5. held' = [x \in Request |-> held'[x]] BY DEF AllBounded
<1>6. \A x \in Request : Bounded(requests'[x], held'[x]) BY <1>3
<1> QED BY <1>2, <1>4, <1>5, <1>6 DEF AllBounded

(* A request that is refused, or fails, gives nothing.                     *)
LEMMA Refusal ==
    ASSUME NEW q, NEW h, Bounded(q, h), NEW status, status # 200
    PROVE  Bounded([q EXCEPT !.stage = "done", !.status = status], h)
BY DEF Bounded, Fields, RowsHeld, Collected, Given, Chosen

(* So does every step that refuses.                                        *)
LEMMA RefusalSteps ==
    ASSUME AllBounded, NEW r \in Request, NEW status, status # 200, Answer(r, status),
           requests[r].stage \notin {"idle", "done"}, grants' = grants, held' = held
    PROVE  AllBounded'
<1> DEFINE q == [requests[r] EXCEPT !.stage = "done", !.status = status]
<1>1. Bounded(requests[r], held[r]) BY DEF AllBounded
<1>2. Bounded(q, held[r]) BY <1>1, Refusal
<1>3. q.stage = "done" BY <1>1 DEF Bounded, Fields
<1>4. Become(r, q) BY DEF Answer
<1> QED BY <1>2, <1>3, <1>4, OneRequestSteps

(* No request has collected anything at the start,                         *)
LEMMA InitBounded == Init => AllBounded
<1> SUFFICES ASSUME Init PROVE AllBounded OBVIOUS
<1>1. requests = [r \in Request |-> IdleRequest] /\ held = [r \in Request |-> {}] BY DEF Init
<1>2. /\ IdleRequest = [f \in Fields |-> IdleRequest[f]]
      /\ IdleRequest.stage = "idle" /\ IdleRequest.page = {} /\ IdleRequest.status = 0
  BY DEF IdleRequest, Fields
<1>3. Bounded(IdleRequest, {})
  BY <1>2 DEF Bounded, RowsHeld, Collected, Given, Chosen
<1>4. \A r \in Request : Bounded(requests[r], held[r]) BY <1>1, <1>3
<1>5. \A r \in Request : requests[r].stage = "idle" BY <1>1, <1>2
<1> QED BY <1>1, <1>4, <1>5 DEF AllBounded

(* The two requests that can begin when a call arrives at the server.      *)
Arriving(r, c, role, cursor) ==
    [requests[r] EXCEPT !.call = c, !.role = role, !.cursor = cursor]

Misnamed(r, c, role, cursor) ==
    [Arriving(r, c, role, cursor) EXCEPT !.stage = "done", !.status = 400]

Begun(r, c, role, cursor) ==
    [Arriving(r, c, role, cursor) EXCEPT !.stage = "permissions"]

\* Either takes the call and leaves what else the request holds.
TakesCall(q, r, c, cursor) ==
    /\ q = [f \in Fields |-> q[f]]
    /\ q.call = c /\ q.cursor = cursor
    /\ q.bucket = requests[r].bucket /\ q.rows = requests[r].rows
    /\ q.page = requests[r].page /\ q.count = requests[r].count
    /\ q.next = requests[r].next /\ q.after = requests[r].after

(* Arrive begins one of them,                                              *)
LEMMA ArriveBecomes ==
    ASSUME NEW r, Arrive(r)
    PROVE  \E c \in Calls, role \in Roles, cursor \in cursors \cup {NoCursor, Forged} :
              Become(r, Misnamed(r, c, role, cursor)) \/ Become(r, Begun(r, c, role, cursor))
<1>1. PICK c \in Calls, role \in Roles, cursor \in cursors \cup {NoCursor, Forged} :
          IF c.kind = "download" /\ Parsed(c.path) = NoKey
          THEN Become(r, Misnamed(r, c, role, cursor))
          ELSE Become(r, Begun(r, c, role, cursor))
  BY Zenon DEF Arrive, Arriving, Misnamed, Begun
<1>2. Become(r, Misnamed(r, c, role, cursor)) \/ Become(r, Begun(r, c, role, cursor))
  BY <1>1, Zenon
<1> QED BY <1>2, Zenon

(* and they differ from the idle request in nothing else.                  *)
LEMMA ArrivalFields ==
    ASSUME NEW r, requests[r] = [f \in Fields |-> requests[r][f]],
           NEW c, NEW role, NEW cursor
    PROVE  /\ Misnamed(r, c, role, cursor).stage = "done"
           /\ Misnamed(r, c, role, cursor).status = 400
           /\ Begun(r, c, role, cursor).stage = "permissions"
           /\ Begun(r, c, role, cursor).status = requests[r].status
           /\ TakesCall(Misnamed(r, c, role, cursor), r, c, cursor)
           /\ TakesCall(Begun(r, c, role, cursor), r, c, cursor)
<1> DEFINE p == Arriving(r, c, role, cursor)
           refused == [p EXCEPT !.stage = "done", !.status = 400]
           begun == [p EXCEPT !.stage = "permissions"]
<1>1. {"call", "role", "cursor", "stage", "status"} \subseteq Fields BY DEF Fields
<1>2. p = [f \in Fields |-> CASE f = "call" -> c [] f = "role" -> role [] f = "cursor" -> cursor
                               [] OTHER -> requests[r][f]]
  BY <1>1 DEF Arriving
<1> HIDE DEF p
<1>3. refused = [f \in Fields |-> CASE f = "stage" -> "done" [] f = "status" -> 400
                                     [] OTHER -> p[f]]
  BY <1>1, <1>2
<1>4. begun = [f \in Fields |-> IF f = "stage" THEN "permissions" ELSE p[f]]
  BY <1>1, <1>2
<1>5. Misnamed(r, c, role, cursor) = refused /\ Begun(r, c, role, cursor) = begun
  BY Zenon DEF Misnamed, Begun, p
<1> HIDE DEF refused, begun
<1>6. /\ refused.stage = "done" /\ refused.status = 400 /\ begun.stage = "permissions"
      /\ begun.status = requests[r].status
  BY <1>1, <1>2, <1>3, <1>4
<1>7. ASSUME NEW q \in {refused, begun} PROVE TakesCall(q, r, c, cursor)
  <2>1. q = [f \in Fields |-> q[f]] BY <1>3, <1>4
  <2>2. \A f \in Fields \ {"stage", "status"} : q[f] = p[f] BY <1>3, <1>4
  <2>3. \A f \in Fields \ {"stage", "status", "call", "role", "cursor"} : q[f] = requests[r][f]
    BY <1>2, <2>2
  <2>4. q.call = c /\ q.cursor = cursor BY <1>1, <1>2, <2>2
  <2> QED BY <2>1, <2>3, <2>4 DEF TakesCall, Fields
<1> QED BY <1>5, <1>6, <1>7

(* So a request is bounded when it arrives.                                *)
LEMMA ArriveBounded ==
    ASSUME AllBounded, NEW r \in Request, Arrive(r)
    PROVE  AllBounded'
<1>1. Bounded(requests[r], held[r]) /\ requests[r].stage = "idle" BY DEF AllBounded, Arrive, At
<1>2. PICK c, role, cursor :
          Become(r, Misnamed(r, c, role, cursor)) \/ Become(r, Begun(r, c, role, cursor))
  BY ArriveBecomes, Zenon
<1> DEFINE refused == Misnamed(r, c, role, cursor)
           begun == Begun(r, c, role, cursor)
<1>3. grants' = grants /\ held' = [held EXCEPT ![r] = grants] BY DEF Arrive, Untouched
<1>4. /\ requests[r] = [f \in Fields |-> requests[r][f]]
      /\ requests[r].page = {} /\ requests[r].status = 0
  BY <1>1 DEF Bounded, Collected, Given
<1>5. \E q : Become(r, q) /\ Bounded(q, grants)
  <2> HIDE DEF refused, begun
  <2>0. /\ refused.stage = "done" /\ refused.status = 400
        /\ begun.stage = "permissions" /\ begun.status = requests[r].status
        /\ TakesCall(refused, r, c, cursor) /\ TakesCall(begun, r, c, cursor)
    BY <1>4, ArrivalFields DEF refused, begun
  <2>1. /\ refused = [f \in Fields |-> refused[f]] /\ begun = [f \in Fields |-> begun[f]]
        /\ refused.stage = "done" /\ refused.status = 400
        /\ begun.stage = "permissions" /\ begun.status = 0 /\ begun.page = {}
    BY <1>4, <2>0 DEF TakesCall
  <2>2. Bounded(refused, grants)
    BY <2>1 DEF Bounded, RowsHeld, Collected, Given, Chosen
  <2>3. Bounded(begun, grants)
    BY <2>1 DEF Bounded, RowsHeld, Collected, Given, Chosen, PageWithin
  <2> QED BY <1>2, <2>2, <2>3 DEF refused, begun
<1> PICK q : Become(r, q) /\ Bounded(q, grants) BY <1>5
<1>6. held' = [x \in Request |-> IF x = r THEN grants ELSE held[x]] BY <1>3 DEF AllBounded
<1>7. requests' = [x \in Request |-> IF x = r THEN q ELSE requests[x]]
  BY DEF AllBounded, Become
<1>8. \A x \in Request : Bounded(requests'[x], held'[x]) BY <1>5, <1>6, <1>7 DEF AllBounded
<1>9. \A x \in Request : requests'[x].stage \notin {"idle", "done"} => grants' \subseteq held'[x]
  BY <1>3, <1>6, <1>7 DEF AllBounded
<1>10. requests' = [x \in Request |-> requests'[x]] /\ held' = [x \in Request |-> held'[x]]
  BY <1>6, <1>7
<1> QED BY <1>8, <1>9, <1>10 DEF AllBounded

(* The first reading of the permissions.                                   *)
LEMMA LoadBounded ==
    ASSUME AllBounded, NEW r \in Request, LoadPermissions(r)
    PROVE  AllBounded'
<1> DEFINE q == requests[r]
           rows == Rows(q.role)
<1>1. /\ Bounded(q, held[r]) /\ q.stage = "permissions" /\ grants \subseteq held[r]
      /\ grants' = grants /\ held' = held
  BY DEF AllBounded, LoadPermissions, At, Untouched, history
<1>2. q.page = {} /\ q.status = 0 BY <1>1 DEF Bounded, Collected, Given
<1>3. rows \subseteq Rights(q, held[r]) BY <1>1 DEF Rows, Rights
<1>4. CASE q.call.kind # "download" /\ Answer(r, 200)
  <2> DEFINE p == [q EXCEPT !.stage = "done", !.status = 200]
  <2>1. Become(r, p) BY <1>4 DEF Answer
  <2>2. /\ p.stage = "done" /\ p.status = 200 /\ p.page = {} /\ p.call.kind # "download"
        /\ p = [f \in Fields |-> p[f]]
    BY <1>1, <1>2, <1>4 DEF Bounded, Fields
  <2> HIDE DEF p
  <2>3. Bounded(p, held[r])
    BY <2>2 DEF Bounded, RowsHeld, Collected, Given, Chosen, PageWithin
  <2> QED BY <1>1, <2>1, <2>2, <2>3, OneRequestSteps
<1>5. CASE \E status \in {400, 403} : Answer(r, status)
  BY <1>1, <1>5, RefusalSteps
<1>6. CASE \E b \in AllowedBuckets :
              Become(r, [q EXCEPT !.stage = "access", !.rows = rows, !.bucket = b])
  <2> PICK b \in AllowedBuckets :
              Become(r, [q EXCEPT !.stage = "access", !.rows = rows, !.bucket = b]) BY <1>6
  <2> DEFINE p == [q EXCEPT !.stage = "access", !.rows = rows, !.bucket = b]
  <2>1. /\ p.stage = "access" /\ p.rows = rows /\ p.bucket = b /\ p.page = {} /\ p.status = 0
        /\ p.role = q.role /\ p = [f \in Fields |-> p[f]]
    BY <1>1, <1>2 DEF Bounded, Fields
  <2> HIDE DEF rows, p
  <2>2. Rights(p, held[r]) = Rights(q, held[r]) BY <2>1 DEF Rights
  <2>3. Bounded(p, held[r])
    BY <1>3, <2>1, <2>2 DEF Bounded, RowsHeld, Collected, Given, Chosen, PageWithin
  <2>4. Become(r, p) BY DEF p
  <2> QED BY <1>1, <2>1, <2>3, <2>4, OneRequestSteps
<1> DEFINE chosen(b) == [q EXCEPT !.stage = "access", !.rows = rows, !.bucket = b]
           nothing == q.call.kind # "download" /\ rows = {}
           wrongFolder(b) == CursorRefused(q.cursor, b, q.call.path)
<1>7. \/ nothing /\ Answer(r, 200)
      \/ ~nothing /\ BucketRefused(rows, q.call.bucket) /\ Answer(r, 403)
      \/ \E b \in Buckets(q.role, rows, q.call.bucket) :
            \/ wrongFolder(b) /\ Answer(r, 400)
            \/ ~wrongFolder(b) /\ b \notin AllowedBuckets /\ Answer(r, 403)
            \/ ~wrongFolder(b) /\ b \in AllowedBuckets /\ Become(r, chosen(b))
  BY Zenon DEF LoadPermissions
<1> QED BY <1>4, <1>5, <1>6, <1>7, Zenon

(* The second reading: an object is accessible by rows held then.          *)
LEMMA CheckBounded ==
    ASSUME AllBounded, NEW r \in Request, CheckAccess(r)
    PROVE  AllBounded'
<1> DEFINE q == requests[r]
           rows == Rows(q.role)
           object == CanAccess(rows, q.bucket, Parsed(q.call.path))
           folder == CanList(rows, q.bucket, q.call.path)
           roots == SearchRoots(q.rows, q.bucket, q.call.path)
           download == [q EXCEPT !.stage = "log"]
           list == [q EXCEPT !.stage = "list"]
           search == [q EXCEPT !.stage = "search", !.roots = roots]
<1>1. /\ Bounded(q, held[r]) /\ q.stage = "access" /\ grants \subseteq held[r]
      /\ grants' = grants /\ held' = held
  BY DEF AllBounded, CheckAccess, At, Untouched, history
<1>2. /\ q.page = {} /\ q.status = 0 /\ q = [f \in Fields |-> q[f]]
      /\ q.rows \subseteq Rights(q, held[r]) /\ q.bucket \in AllowedBuckets
  BY <1>1 DEF Bounded, Collected, Given, RowsHeld, Chosen
<1>3. rows \subseteq Rights(q, held[r]) BY <1>1 DEF Rows, Rights
<1>4. CASE Answer(r, 403) BY <1>1, <1>4, RefusalSteps
<1>5. CASE object /\ q.call.kind = "download" /\ Become(r, download)
  <2>1. /\ download.stage = "log" /\ download.page = {} /\ download.status = 0
        /\ download.role = q.role /\ download.call = q.call /\ download.rows = q.rows
        /\ download.bucket = q.bucket /\ download = [f \in Fields |-> download[f]]
    BY <1>2 DEF Fields
  <2> HIDE DEF download
  <2>2. Rights(download, held[r]) = Rights(q, held[r]) BY <2>1 DEF Rights
  <2>3. CanAccess(Rights(download, held[r]), q.bucket, Parsed(q.call.path))
    BY <1>3, <1>5, <2>2, MoreRows
  <2>4. Bounded(download, held[r])
    BY <1>2, <2>1, <2>2, <2>3 DEF Bounded, RowsHeld, Collected, Given, Chosen, PageWithin
  <2> QED BY <1>1, <1>5, <2>1, <2>4, OneRequestSteps
<1>6. CASE q.call.kind = "list" /\ Become(r, list)
  <2>1. /\ list.stage = "list" /\ list.page = {} /\ list.status = 0
        /\ list.role = q.role /\ list.call = q.call /\ list.rows = q.rows
        /\ list.bucket = q.bucket /\ list = [f \in Fields |-> list[f]]
    BY <1>2 DEF Fields
  <2> HIDE DEF list
  <2>2. Rights(list, held[r]) = Rights(q, held[r]) BY <2>1 DEF Rights
  <2>3. Bounded(list, held[r])
    BY <1>2, <1>6, <2>1, <2>2 DEF Bounded, RowsHeld, Collected, Given, Chosen, PageWithin
  <2> QED BY <1>1, <1>6, <2>1, <2>3, OneRequestSteps
<1>7. CASE q.call.kind = "search" /\ Become(r, search)
  <2>1. /\ search.stage = "search" /\ search.page = {} /\ search.status = 0
        /\ search.role = q.role /\ search.call = q.call /\ search.rows = q.rows
        /\ search.bucket = q.bucket /\ search = [f \in Fields |-> search[f]]
    BY <1>2 DEF Fields
  <2> HIDE DEF search
  <2>2. Rights(search, held[r]) = Rights(q, held[r]) BY <2>1 DEF Rights
  <2>3. Bounded(search, held[r])
    BY <1>2, <1>7, <2>1, <2>2 DEF Bounded, RowsHeld, Collected, Given, Chosen, PageWithin
  <2> QED BY <1>1, <1>7, <2>1, <2>3, OneRequestSteps
<1>8. \/ Answer(r, 403)
      \/ object /\ q.call.kind = "download" /\ Become(r, download)
      \/ q.call.kind = "list" /\ Become(r, list)
      \/ q.call.kind = "search" /\ Become(r, search)
  BY Zenon DEF CheckAccess, Goto, Kind, Path
<1> QED BY <1>4, <1>5, <1>6, <1>7, <1>8, Zenon

(* A page of a folder shows what the rows read first allow.                *)
LEMMA ListBounded ==
    ASSUME AllBounded, NEW r \in Request, ListPage(r)
    PROVE  AllBounded'
<1> DEFINE q == requests[r]
<1>1. /\ Bounded(q, held[r]) /\ q.stage = "list" /\ grants \subseteq held[r]
      /\ grants' = grants /\ held' = held
  BY DEF AllBounded, ListPage, At, Untouched, history
<1>2. /\ q.status = 0 /\ q = [f \in Fields |-> q[f]] /\ q.call.kind = "list"
      /\ q.rows \subseteq Rights(q, held[r]) /\ q.bucket \in AllowedBuckets
  BY <1>1 DEF Bounded, Collected, Given, RowsHeld, Chosen
<1> DEFINE after == IF q.cursor = NoCursor THEN NoToken ELSE q.cursor.after
           all == Entries(q.bucket, q.call.path, after)
           some == First(all, MaxKeys)
           page == {e \in some : Shown(q.rows, q.bucket, q.call.path, e)}
           next == IF some = all THEN NoToken ELSE LastOf(some)
           p == [q EXCEPT !.stage = "log", !.page = page, !.next = next]
<1>3. CASE Answer(r, 500) BY <1>1, <1>3, RefusalSteps
<1>4. Answer(r, 500) \/ Become(r, p) BY Zenon DEF ListPage, Path
<1> HIDE DEF next
<1>5. \A e \in page : EntryWithin(q, Rights(q, held[r]), e)
  <2> SUFFICES ASSUME NEW e \in page PROVE EntryWithin(q, Rights(q, held[r]), e) OBVIOUS
  <2>1. EntryWithin(q, q.rows, e) BY ShownWithin
  <2> QED BY <1>2, <2>1, MoreEntries
<1>6. /\ p.stage = "log" /\ p.page = page /\ p.status = 0 /\ p.role = q.role
      /\ p.call = q.call /\ p.rows = q.rows /\ p.bucket = q.bucket
      /\ p = [f \in Fields |-> p[f]]
  BY <1>2 DEF Fields
<1> HIDE DEF page, p
<1>7. Rights(p, held[r]) = Rights(q, held[r]) BY <1>6 DEF Rights
<1>8. PageWithin(p, Rights(p, held[r]))
  BY <1>2, <1>5, <1>6, <1>7 DEF PageWithin, EntryWithin
<1>9. Bounded(p, held[r])
  BY <1>2, <1>6, <1>7, <1>8 DEF Bounded, RowsHeld, Collected, Given, Chosen
<1> QED BY <1>1, <1>3, <1>4, <1>6, <1>9, OneRequestSteps

(* A page of a search adds what the rows read first allow.                 *)
LEMMA SearchBounded ==
    ASSUME AllBounded, NEW r \in Request, SearchStorage(r)
    PROVE  AllBounded'
<1> DEFINE q == requests[r]
<1>1. /\ Bounded(q, held[r]) /\ q.stage = "search" /\ grants \subseteq held[r]
      /\ grants' = grants /\ held' = held
  BY DEF AllBounded, SearchStorage, At, Untouched, history
<1>2. /\ q.status = 0 /\ q = [f \in Fields |-> q[f]] /\ q.call.kind = "search"
      /\ q.rows \subseteq Rights(q, held[r]) /\ q.bucket \in AllowedBuckets
      /\ \A k \in q.page : CanAccess(Rights(q, held[r]), q.bucket, k)
  BY <1>1 DEF Bounded, Collected, Given, RowsHeld, Chosen, PageWithin
<1>3. PICK root : SearchOn(r, root) BY DEF SearchStorage
<1> DEFINE all == KeysBelow(q.bucket, root, q.after)
           some == First(all, SearchPage)
           kept == Kept(SearchHits(q, some), q.count)
           found == [q EXCEPT !.page = @ \cup kept, !.count = @ + Cardinality(kept),
                              !.root = root]
           on == [found EXCEPT !.after = LastOf(some)]
           next == [found EXCEPT !.after = NoToken, !.roots = @ \ {root},
                        !.stage = IF q.roots = {root} THEN "log" ELSE "search"]
<1>4. Become(r, on) \/ Become(r, next) BY <1>3, Zenon DEF SearchOn
<1>5. \A k \in kept : CanAccess(Rights(q, held[r]), q.bucket, k)
  <2>1. kept \subseteq SearchHits(q, some) BY DEF Kept, First
  <2>2. \A k \in SearchHits(q, some) : CanAccess(q.rows, q.bucket, k) BY DEF SearchHits
  <2> QED BY <1>2, <2>1, <2>2, MoreRows
<1> HIDE DEF kept
<1>6. /\ on.stage = "search" /\ on.page = q.page \cup kept /\ on.status = 0
      /\ on.role = q.role /\ on.call = q.call /\ on.rows = q.rows /\ on.bucket = q.bucket
      /\ on = [f \in Fields |-> on[f]]
  BY <1>1, <1>2 DEF Fields
<1>7. /\ next.stage \in {"search", "log"} /\ next.page = q.page \cup kept /\ next.status = 0
      /\ next.role = q.role /\ next.call = q.call /\ next.rows = q.rows
      /\ next.bucket = q.bucket /\ next = [f \in Fields |-> next[f]]
  BY <1>1, <1>2 DEF Fields
<1> HIDE DEF on, next
<1>8. ASSUME NEW p, p.stage \in {"search", "log"}, p.page = q.page \cup kept, p.status = 0,
             p.role = q.role, p.call = q.call, p.rows = q.rows, p.bucket = q.bucket,
             p = [f \in Fields |-> p[f]], Become(r, p)
      PROVE  AllBounded'
  <2>1. Rights(p, held[r]) = Rights(q, held[r]) BY <1>8 DEF Rights
  <2>2. PageWithin(p, Rights(p, held[r])) BY <1>2, <1>5, <1>8, <2>1 DEF PageWithin
  <2>3. Bounded(p, held[r])
    BY <1>2, <1>8, <2>1, <2>2 DEF Bounded, RowsHeld, Collected, Given, Chosen
  <2> QED BY <1>1, <1>8, <2>3, OneRequestSteps
<1> QED BY <1>4, <1>6, <1>7, <1>8

(* The answer gives what was collected.                                    *)
LEMMA LogBounded ==
    ASSUME AllBounded, NEW r \in Request, Log(r)
    PROVE  AllBounded'
<1> DEFINE q == requests[r]
           p == [q EXCEPT !.stage = "done", !.status = 200]
<1>1. /\ Bounded(q, held[r]) /\ q.stage = "log" /\ Answer(r, 200)
      /\ grants' = grants /\ held' = held
  BY DEF AllBounded, Log, At, history
<1>2. /\ q = [f \in Fields |-> q[f]]
      /\ q.rows \subseteq Rights(q, held[r]) /\ q.bucket \in AllowedBuckets
      /\ PageWithin(q, Rights(q, held[r]))
      /\ q.call.kind = "download" => CanAccess(Rights(q, held[r]), q.bucket, Parsed(q.call.path))
  BY <1>1 DEF Bounded, Collected, Given, RowsHeld, Chosen
<1>3. /\ p.stage = "done" /\ p.page = q.page /\ p.status = 200 /\ p.role = q.role
      /\ p.call = q.call /\ p.bucket = q.bucket /\ p = [f \in Fields |-> p[f]]
  BY <1>2 DEF Fields
<1>4. Become(r, p) BY <1>1 DEF Answer
<1> HIDE DEF p
<1>5. Rights(p, held[r]) = Rights(q, held[r]) BY <1>3 DEF Rights
<1>6. PageWithin(p, Rights(p, held[r]))
  BY <1>2, <1>3, <1>5 DEF PageWithin, EntryWithin
<1>7. Bounded(p, held[r])
  BY <1>2, <1>3, <1>5, <1>6 DEF Bounded, RowsHeld, Collected, Given, Chosen
<1> QED BY <1>1, <1>3, <1>4, <1>7, OneRequestSteps

(* Rows granted while a request runs are held; rows revoked stay held.     *)
LEMMA OthersBounded ==
    ASSUME AllBounded,
           \/ \E p \in Grantable : Grant(p) \/ Revoke(p)
           \/ \E o \in Passing : Put(o) \/ Drop(o)
    PROVE  AllBounded'
<1>1. CASE \E p \in Grantable : Grant(p)
  <2> PICK p \in Grantable : Grant(p) BY <1>1
  <2>1. /\ held' = [r \in Request |-> IF requests[r].stage = "done" THEN held[r]
                                                                   ELSE held[r] \cup {p}]
        /\ requests' = requests /\ grants' = grants \cup {p}
    BY DEF Grant, At
  <2>2. \A r \in Request : held[r] \subseteq held'[r] BY <2>1
  <2>3. \A r \in Request : Bounded(requests'[r], held'[r])
    BY <2>1, <2>2, MoreHeld DEF AllBounded
  <2>4. \A r \in Request : requests'[r].stage \notin {"idle", "done"} => grants' \subseteq held'[r]
    BY <2>1 DEF AllBounded
  <2>5. requests' = [r \in Request |-> requests'[r]] /\ held' = [r \in Request |-> held'[r]]
    BY <2>1 DEF AllBounded
  <2> QED BY <2>3, <2>4, <2>5 DEF AllBounded
<1>2. CASE \/ \E p \in Grantable : Revoke(p)
           \/ \E o \in Passing : Put(o) \/ Drop(o)
  <2>1. requests' = requests /\ held' = held /\ grants' \subseteq grants
    BY <1>2 DEF Revoke, Put, Drop, history
  <2>2. \A r \in Request : Bounded(requests'[r], held'[r]) BY <2>1 DEF AllBounded
  <2>3. \A r \in Request : requests'[r].stage \notin {"idle", "done"} => grants' \subseteq held'[r]
    BY <2>1 DEF AllBounded
  <2>4. requests' = [r \in Request |-> requests'[r]] /\ held' = [r \in Request |-> held'[r]]
    BY <2>1 DEF AllBounded
  <2> QED BY <2>2, <2>3, <2>4 DEF AllBounded
<1> QED BY <1>1, <1>2

(* Every step keeps every request bounded.                                 *)
LEMMA NextBounded == AllBounded /\ [Next]_vars => AllBounded'
<1> SUFFICES ASSUME AllBounded, [Next]_vars PROVE AllBounded' OBVIOUS
<1>1. ASSUME NEW r \in Request, Step(r) PROVE AllBounded'
  BY <1>1, LoadBounded, CheckBounded, ListBounded, SearchBounded, LogBounded DEF Step
<1>2. ASSUME NEW r \in Request, Fail(r) PROVE AllBounded'
  BY <1>2, RefusalSteps DEF Fail, Untouched, history
<1>3. CASE UNCHANGED vars
  <2>1. requests' = requests /\ held' = held /\ grants' = grants BY <1>3 DEF vars
  <2> QED BY <2>1 DEF AllBounded
<1> QED BY <1>1, <1>2, <1>3, ArriveBounded, OthersBounded DEF Next

(* Bounded requests give nothing beyond grants.                            *)
LEMMA BoundedGives == AllBounded => NothingBeyondGrants
<1> SUFFICES ASSUME AllBounded PROVE NothingBeyondGrants OBVIOUS
<1> SUFFICES ASSUME NEW r \in Request, requests[r].status = 200
             PROVE  LET q == requests[r]
                        rights == Rights(q, held[r])
                    IN  /\ q.call.kind = "download" =>
                              q.bucket \in AllowedBuckets
                              /\ CanAccess(rights, q.bucket, Parsed(q.call.path))
                        /\ q.call.kind = "list" => \A e \in q.page :
                              q.bucket \in AllowedBuckets /\ EntryWithin(q, rights, e)
                        /\ q.call.kind = "search" => \A k \in q.page :
                              q.bucket \in AllowedBuckets /\ CanAccess(rights, q.bucket, k)
  BY DEF NothingBeyondGrants, Answered, Rights, EntryWithin, Kind, Path
<1>1. Bounded(requests[r], held[r]) BY DEF AllBounded
<1> QED BY <1>1 DEF Bounded, Given, PageWithin

(* No answer of the file routes reaches beyond the rows the account held   *)
(* at some time since the request arrived, whatever administrators grant   *)
(* and revoke between the two readings of the permissions.                 *)
THEOREM AnswersWithinGrants == Spec => []NothingBeyondGrants
<1>1. Spec => []AllBounded BY InitBounded, NextBounded, PTL DEF Spec
<1> QED BY <1>1, BoundedGives, PTL

-----------------------------------------------------------------------------
(***************************************************************************)
(* Completeness.  The inductive invariant says what a cursor remembers:    *)
(* all that is owed up to its token; a page goes on from there, and a      *)
(* search below its cap has found what it sought in the roots it is done   *)
(* with.  It rests on the order of listings: a page is what a listing      *)
(* begins with.  Sets of numbers have a least element by the               *)
(* well-foundedness of < on Nat, so no induction over data is needed.      *)
(***************************************************************************)
(* A set of numbers has a least one.                                       *)
LEMMA LeastNumber ==
    ASSUME NEW T \in SUBSET Nat, T # {}
    PROVE  \E n \in T : \A m \in T : n <= m
<1> DEFINE R == {ss \in Nat \X Nat : ss[1] < ss[2]}
<1>1. IsWellFoundedOn(R, Nat) BY NatLessThanWellFounded DEF OpToRel
<1>2. \E n \in T : \A m \in T : ~(<<m, n>> \in R)
  <2> HIDE DEF R
  <2> QED BY <1>1, WFMin
<1> PICK n \in T : \A m \in T : ~(<<m, n>> \in R) BY <1>2
<1>3. ASSUME NEW m \in T PROVE n <= m
  <2>1. m \in Nat /\ n \in Nat OBVIOUS
  <2>2. ~(<<m, n>> \in R) OBVIOUS
  <2> QED BY <2>1, <2>2
<1> QED BY <1>3

(* Proper subsets of finite sets have fewer elements.                      *)
LEMMA FewerElements ==
    ASSUME NEW S, IsFiniteSet(S), NEW T \in SUBSET S
    PROVE  /\ IsFiniteSet(T) /\ Cardinality(T) \in Nat /\ Cardinality(S) \in Nat
           /\ Cardinality(T) <= Cardinality(S)
           /\ T # S => Cardinality(T) < Cardinality(S)
<1>1. IsFiniteSet(T) /\ Cardinality(T) <= Cardinality(S) /\ (Cardinality(S) = Cardinality(T) => S = T)
  BY FS_Subset
<1>2. Cardinality(T) \in Nat /\ Cardinality(S) \in Nat BY <1>1, FS_CardinalityType
<1> QED BY <1>1, <1>2

(* The listing order is a strict order of texts.                           *)
Text == Seq(Nat)

(* No text precedes itself,                                                *)
LEMMA LessIrreflexive == \A s \in Text : ~Less(s, s)
BY DEF Text, Less

(* the order is transitive,                                                *)
LEMMA LessTransitive ==
    ASSUME NEW s \in Text, NEW t \in Text, NEW u \in Text, Less(s, t), Less(t, u)
    PROVE  Less(s, u)
<1> DEFINE Differs(x, y, i) ==
             /\ i \in 1..Len(x) /\ i \in 1..Len(y)
             /\ x[i] < y[i] /\ \A j \in 1..(i - 1) : x[j] = y[j]
           Longer(x, y) == Len(x) < Len(y) /\ \A j \in 1..Len(x) : y[j] = x[j]
<1>1. ASSUME NEW x \in Text, NEW y \in Text
      PROVE  Less(x, y) <=> Longer(x, y) \/ \E i : Differs(x, y, i)
  <2>1. Len(x) \in Nat /\ Len(y) \in Nat BY DEF Text
  <2>2. Longer(x, y) <=> Len(x) < Len(y) /\ Under(y, x) BY <2>1 DEF Under
  <2>3. (\E i : Differs(x, y, i)) <=>
           \E i \in 1..Len(x) \cap 1..Len(y) : x[i] < y[i] /\ \A j \in 1..(i - 1) : x[j] = y[j]
    OBVIOUS
  <2> QED BY <2>2, <2>3 DEF Less
<1>2. /\ Len(s) \in Nat /\ Len(t) \in Nat /\ Len(u) \in Nat
      /\ \A i \in 1..Len(s) : s[i] \in Nat
      /\ \A i \in 1..Len(t) : t[i] \in Nat
      /\ \A i \in 1..Len(u) : u[i] \in Nat
  BY DEF Text
<1>3. CASE Longer(s, t) /\ Longer(t, u)
  <2>1. Longer(s, u) BY <1>2, <1>3
  <2> QED BY <1>1, <2>1
<1>4. CASE Longer(s, t) /\ \E j : Differs(t, u, j)
  <2> PICK j : Differs(t, u, j) BY <1>4
  <2>1. CASE j <= Len(s)
    <3>1. Differs(s, u, j) BY <1>2, <1>4, <2>1
    <3> QED BY <1>1, <3>1
  <2>2. CASE j > Len(s)
    <3>1. Longer(s, u) BY <1>2, <1>4, <2>2
    <3> QED BY <1>1, <3>1
  <2> QED BY <1>2, <2>1, <2>2
<1>5. CASE (\E i : Differs(s, t, i)) /\ Longer(t, u)
  <2> PICK i : Differs(s, t, i) BY <1>5
  <2>1. Differs(s, u, i) BY <1>2, <1>5
  <2> QED BY <1>1, <2>1
<1>6. CASE (\E i : Differs(s, t, i)) /\ (\E j : Differs(t, u, j))
  <2> PICK i : Differs(s, t, i) BY <1>6
  <2> PICK j : Differs(t, u, j) BY <1>6
  <2>1. CASE i <= j
    <3>1. Differs(s, u, i) BY <1>2, <2>1
    <3> QED BY <1>1, <3>1
  <2>2. CASE j < i
    <3>1. Differs(s, u, j) BY <1>2, <2>2
    <3> QED BY <1>1, <3>1
  <2> QED BY <1>2, <2>1, <2>2
<1> QED BY <1>1, <1>3, <1>4, <1>5, <1>6

(* and total: at the first place where two texts differ, or where one      *)
(* ends, they are ordered.                                                 *)
LEMMA LessTotal ==
    ASSUME NEW s \in Text, NEW t \in Text, s # t
    PROVE  Less(s, t) \/ Less(t, s)
<1> DEFINE D == {i \in 1..Len(s) \cap 1..Len(t) : s[i] # t[i]}
<1>1. /\ Len(s) \in Nat /\ Len(t) \in Nat
      /\ \A i \in 1..Len(s) : s[i] \in Nat
      /\ \A i \in 1..Len(t) : t[i] \in Nat
  BY DEF Text
<1>2. CASE D = {}
  <2>1. CASE Len(s) = Len(t)
    <3>1. \A i \in 1..Len(s) : s[i] = t[i] BY <1>2, <2>1
    <3>2. s = t BY <2>1, <3>1 DEF Text
    <3> QED BY <3>2
  <2>2. CASE Len(s) < Len(t)
    <3>1. \A i \in 1..Len(s) : s[i] = t[i] BY <1>1, <1>2, <2>2
    <3> QED BY <1>1, <2>2, <3>1 DEF Less, Under
  <2>3. CASE Len(t) < Len(s)
    <3>1. \A i \in 1..Len(t) : s[i] = t[i] BY <1>1, <1>2, <2>3
    <3> QED BY <1>1, <2>3, <3>1 DEF Less, Under
  <2> QED BY <1>1, <2>1, <2>2, <2>3
<1>3. CASE D # {}
  <2>1. PICK i \in D : \A j \in D : i <= j
    <3>1. D \in SUBSET Nat BY <1>1
    <3> HIDE DEF D
    <3> QED BY <1>3, <3>1, LeastNumber
  <2>2. \A j \in 1..(i - 1) : s[j] = t[j] BY <1>1, <2>1
  <2>3. s[i] < t[i] \/ t[i] < s[i] BY <1>1
  <2> QED BY <1>1, <2>2, <2>3 DEF Less
<1> QED BY <1>2, <1>3

(* What precedes e in a listing.                                           *)
Before(S, e) == {f \in S : Less(f, e)}

(* A later entry has more before it.                                       *)
LEMMA BeforeGrows ==
    ASSUME NEW S \in SUBSET Text, IsFiniteSet(S), NEW e \in S, NEW f \in S, Less(f, e)
    PROVE  /\ Before(S, f) \subseteq Before(S, e)
           /\ Cardinality(Before(S, f)) < Cardinality(Before(S, e))
           /\ Cardinality(Before(S, f)) \in Nat /\ Cardinality(Before(S, e)) \in Nat
<1>1. Before(S, f) \subseteq Before(S, e) BY LessTransitive DEF Before
<1>2. f \in Before(S, e) \ Before(S, f) BY LessIrreflexive DEF Before
<1>3. IsFiniteSet(Before(S, e)) BY FewerElements DEF Before
<1> QED BY <1>1, <1>2, <1>3, FewerElements

(* A page that is not empty has a first entry and a last one.              *)
LEMMA FirstEntry ==
    ASSUME NEW S \in SUBSET Text, IsFiniteSet(S), S # {}
    PROVE  \E e \in S : \A f \in S : f = e \/ Less(e, f)
<1> DEFINE T == {Cardinality(Before(S, e)) : e \in S}
<1>1. \A e \in S : Cardinality(Before(S, e)) \in Nat BY FewerElements DEF Before
<1>2. PICK n \in T : \A m \in T : n <= m
  <2>1. T \in SUBSET Nat /\ T # {} BY <1>1
  <2> HIDE DEF T
  <2> QED BY <2>1, LeastNumber
<1>3. PICK e \in S : n = Cardinality(Before(S, e)) BY <1>2
<1>4. ASSUME NEW f \in S, f # e, ~Less(e, f) PROVE FALSE
  <2>1. Less(f, e) BY <1>4, LessTotal
  <2>2. Cardinality(Before(S, f)) < Cardinality(Before(S, e)) BY <2>1, BeforeGrows
  <2>3. n <= Cardinality(Before(S, f)) BY <1>2
  <2> QED BY <1>1, <1>3, <2>2, <2>3
<1> QED BY <1>4

(* The last one is where the token of a page points.                       *)
LEMMA LastEntry ==
    ASSUME NEW S \in SUBSET Text, IsFiniteSet(S), S # {}
    PROVE  LastOf(S) \in S /\ \A f \in S : f = LastOf(S) \/ Less(f, LastOf(S))
<1> DEFINE after(e) == {f \in S : Less(e, f)}
           T == {Cardinality(after(e)) : e \in S}
<1>1. \A e \in S : IsFiniteSet(after(e)) /\ Cardinality(after(e)) \in Nat BY FewerElements
<1>2. PICK n \in T : \A m \in T : n <= m
  <2>1. T \in SUBSET Nat /\ T # {} BY <1>1
  <2> HIDE DEF T
  <2> QED BY <2>1, LeastNumber
<1>3. PICK e \in S : n = Cardinality(after(e)) BY <1>2
<1>4. ASSUME NEW f \in S, f # e, ~Less(f, e) PROVE FALSE
  <2>1. Less(e, f) BY <1>4, LessTotal
  <2>2. after(f) \subseteq after(e) BY <2>1, LessTransitive
  <2>3. f \in after(e) \ after(f) BY <2>1, LessIrreflexive
  <2>4. Cardinality(after(f)) < Cardinality(after(e)) BY <1>1, <2>2, <2>3, FewerElements
  <2>5. n <= Cardinality(after(f)) BY <1>2
  <2> QED BY <1>1, <1>3, <2>4, <2>5
<1>5. \E x \in S : \A f \in S : f = x \/ Less(f, x) BY <1>4
<1> QED BY <1>5 DEF LastOf

(* A page is what a listing begins with, up to the number of its entries.  *)
LEMMA PageOf ==
    ASSUME NEW S \in SUBSET Text, IsFiniteSet(S), NEW n \in Nat \ {0}
    PROVE  /\ First(S, n) \subseteq S /\ IsFiniteSet(First(S, n))
           /\ Cardinality(First(S, n)) \in Nat
           /\ S # {} => First(S, n) # {}
           /\ \A e \in First(S, n), f \in S : Less(f, e) => f \in First(S, n)
           /\ Cardinality(First(S, n)) <= n
           /\ First(S, n) # S => Cardinality(First(S, n)) >= n
<1> DEFINE P == First(S, n)
<1>1. P = {e \in S : Cardinality(Before(S, e)) < n} BY DEF First, Before
<1>2. IsFiniteSet(P) /\ Cardinality(P) \in Nat BY <1>1, FewerElements
<1>3. \A e \in S : IsFiniteSet(Before(S, e)) /\ Cardinality(Before(S, e)) \in Nat
  BY FewerElements DEF Before
<1>4. S # {} => P # {}
  <2> SUFFICES ASSUME S # {} PROVE P # {} OBVIOUS
  <2>1. PICK e \in S : \A f \in S : f = e \/ Less(e, f) BY FirstEntry
  <2>2. Before(S, e) = {} BY <2>1, LessTransitive, LessIrreflexive DEF Before
  <2> QED BY <1>1, <2>2, FS_EmptySet
<1>5. ASSUME NEW e \in P, NEW f \in S, Less(f, e) PROVE f \in P
  BY <1>1, <1>3, <1>5, BeforeGrows
<1>6. Cardinality(P) <= n
  <2>1. CASE P = {} BY <2>1, FS_EmptySet
  <2>2. CASE P # {}
    <3> DEFINE e == LastOf(P)
    <3>1. e \in P /\ \A f \in P : f = e \/ Less(f, e) BY <1>1, <1>2, <2>2, LastEntry
    <3> HIDE DEF e
    <3>2. P \ {e} \subseteq Before(S, e) BY <1>1, <3>1 DEF Before
    <3>3. Cardinality(P \ {e}) <= Cardinality(Before(S, e)) BY <1>1, <1>3, <3>1, <3>2, FewerElements
    <3>4. Cardinality(P \ {e}) = Cardinality(P) - 1 BY <1>2, <3>1, FS_RemoveElement
    <3> QED BY <1>1, <1>2, <1>3, <3>1, <3>3, <3>4
  <2> QED BY <2>1, <2>2
<1>7. ASSUME P # S PROVE Cardinality(P) >= n
  <2>1. S \ P # {} /\ IsFiniteSet(S \ P) /\ S \ P \in SUBSET Text BY <1>1, <1>7, FewerElements
  <2>2. PICK e \in S \ P : \A f \in S \ P : f = e \/ Less(e, f) BY <2>1, FirstEntry
  <2>3. Before(S, e) \subseteq P BY <2>2, LessTransitive, LessIrreflexive DEF Before
  <2>4. Cardinality(Before(S, e)) <= Cardinality(P) BY <1>2, <2>3, FewerElements
  <2>5. Cardinality(Before(S, e)) >= n BY <1>1, <1>3
  <2> QED BY <1>2, <1>3, <2>4, <2>5
<1> QED BY <1>1, <1>2, <1>4, <1>5, <1>6, <1>7

(* Entry e comes no later than last in a listing.                          *)
UpTo(e, last) == e = last \/ Less(e, last)

(* Where a request's cursor stands, and what its pages have shown so far.  *)
Place(q) == IF q.cursor = NoCursor THEN NoToken ELSE q.cursor.after
Earlier(q) == IF q.cursor = NoCursor THEN {} ELSE q.cursor.shown

(* The entries of a folder that lead to what has been granted and stored   *)
(* all along, and the objects that a search has to find.                   *)
Owed(granted, stored, b, prefix) ==
    {Entry(prefix, o[2]) : o \in {x \in stored : /\ x[1] = b /\ Below(prefix, x[2])
                                                 /\ Shown(granted, b, prefix, Entry(prefix, x[2]))}}

Sought(granted, stored, q) ==
    {o[2] : o \in {x \in stored :
        /\ x[1] = q.bucket /\ Below(q.call.path, x[2]) /\ x[2] \notin DOMAIN Odd
        /\ x[2][Len(x[2])] # Empty /\ x[2] \in Matches[q.call.needle]
        /\ \E p \in granted : p.bucket = q.bucket /\ Below(p.prefix, x[2])}}

(* A cursor remembers all that is owed up to its token.                    *)
CursorTrue(c, granted, stored) ==
    /\ c.after \in Text /\ Less(NoToken, c.after)
    /\ \A e \in c.shown : e \in Text /\ UpTo(e, c.after)
    /\ \A e \in Owed(granted, stored, c.bucket, c.prefix) : UpTo(e, c.after) => e \in c.shown

(* A page continues what was shown before it, up to its last entry.        *)
PageTrue(q, granted, stored) ==
    LET owed == Owed(granted, stored, q.bucket, q.call.path)
        all == Earlier(q) \cup q.page
    IN  /\ Earlier(q) \cap q.page = {}
        /\ q.next = NoToken => owed \subseteq all
        /\ q.next # NoToken => /\ \A e \in all : e \in Text /\ UpTo(e, q.next)
                               /\ \A e \in owed : UpTo(e, q.next) => e \in all

(* The values a request's fields take at each of its stages.               *)
Typed(q) ==
    /\ q.call \in Calls \cup {NoCall} /\ q.bucket \in Bucket \cup {NoBucket}
    /\ q.rows \subseteq Permission /\ IsFiniteSet(q.rows) /\ q.count \in Nat
    /\ q.stage = "idle" <=> q.call = NoCall
    /\ q.stage \in {"idle", "permissions", "done"} \cup Chosen
    /\ q.next # NoToken => q.call.kind = "list" /\ q.next \in Text /\ Less(NoToken, q.next)
    /\ q.next # NoToken => q.stage \in {"log", "done"}
    /\ q.after # NoToken => q.stage = "search" \/ q.status = 500
    /\ q.stage \in {"idle", "permissions", "access"} => q.count = 0
    /\ q.stage \in {"idle", "permissions"} => q.rows = {}

(* The rows read first cover what has been granted all along.              *)
RowsCover(q, granted) ==
    q.stage \in Chosen =>
        /\ IF q.role = "ADMIN" THEN q.rows = AdminRows ELSE granted \subseteq q.rows
        /\ q.call.kind # "download" => q.rows # {}

PagesOK(q, known, granted, stored) ==
    /\ q.stage # "idle" => q.cursor \in known \cup {NoCursor, Forged}
    /\ q.stage \in Chosen /\ q.cursor # NoCursor =>
          q.cursor \in known /\ q.cursor.bucket = q.bucket /\ q.cursor.prefix = q.call.path
    /\ q.call.kind = "list" /\ (q.stage = "log" \/ q.status = 200) => PageTrue(q, granted, stored)

(* A search that has not reached its cap has found what it sought in the   *)
(* roots it is done with, and in the root it is in up to its token.        *)
SearchUnderWay(q, granted, stored) ==
    LET all == SearchRoots(q.rows, q.bucket, q.call.path)
    IN  /\ q.roots \subseteq all
        /\ q.count < SearchCap + Cardinality(all \ q.roots)
        /\ q.count < SearchCap => \A k \in Sought(granted, stored, q) :
              (\E root \in all \ q.roots : Below(root, k)) => k \in q.page
        /\ q.after # NoToken =>
              /\ q.count < SearchCap /\ q.after \in Text
              /\ \A k \in Sought(granted, stored, q) :
                    Below(q.root, k) /\ UpTo(k, q.after) => k \in q.page

(* A search that stayed below its cap has found all it sought.             *)
SearchEnded(q, granted, stored) ==
    /\ q.count < SearchCap + Cardinality(q.rows)
    /\ q.count < SearchCap => Sought(granted, stored, q) \subseteq q.page

SearchOK(q, granted, stored) ==
    /\ q.stage = "search" => SearchUnderWay(q, granted, stored)
    /\ q.call.kind = "search" /\ (q.stage = "log" \/ q.status = 200) =>
          SearchEnded(q, granted, stored)

(* All that a request may count on, and what it owes.                      *)
RequestTrue(q, known, granted, stored) ==
    /\ Typed(q)
    /\ RowsCover(q, granted)
    /\ PagesOK(q, known, granted, stored)
    /\ SearchOK(q, granted, stored)

(* The permissions, the store and the cursors handed out.                  *)
WorldOK ==
    /\ grants \subseteq Permission /\ IsFiniteSet(grants)
    /\ store \subseteq Object /\ IsFiniteSet(store)
    /\ steadyGrants \subseteq grants /\ steadyStore \subseteq store
    /\ held \in [Request -> SUBSET Permission]
    /\ \A c \in cursors : CursorTrue(c, steadyGrants, steadyStore)

(* The inductive invariant of completeness.                                *)
Complete ==
    /\ AllBounded
    /\ WorldOK
    /\ \A r \in Request : RequestTrue(requests[r], cursors, steadyGrants, steadyStore)

-----------------------------------------------------------------------------
(* What a function reaches from a finite set is finite.                    *)
LEMMA FiniteImage ==
    ASSUME NEW S, NEW T, NEW f \in [S -> T], IsFiniteSet(S), \A t \in T : \E s \in S : f[s] = t
    PROVE  IsFiniteSet(T) /\ Cardinality(T) <= Cardinality(S) /\ Cardinality(T) \in Nat
<1>1. f \in Surjection(S, T) BY DEF Surjection
<1>2. IsFiniteSet(T) /\ Cardinality(T) <= Cardinality(S) BY <1>1, FS_Surjection
<1> QED BY <1>2, FS_CardinalityType

(* Keys and prefixes are sequences of numbers; a key is after the empty    *)
(* token with which a listing starts.                                      *)
LEMMA KeysAreTexts ==
    /\ \A k \in Key : k \in Text /\ Len(k) \in Nat \ {0} /\ Less(NoToken, k)
    /\ \A p \in Prefix : p \in Text /\ Len(p) \in Nat
<1>1. ASSUME NEW s \in Seq(Name) PROVE s \in Text
  <2>1. s \in [1..Len(s) -> Name] /\ Len(s) \in Nat OBVIOUS
  <2>2. Name \subseteq Nat BY NameAssumption
  <2>3. s \in [1..Len(s) -> Nat] BY <2>1, <2>2
  <2> QED BY <2>1, <2>3 DEF Text
<1>2. \A k \in Key : k \in Seq(Name) /\ k # <<>> BY KeyAssumption
<1>3. \A s \in Text : s # <<>> => Len(s) \in Nat \ {0} /\ Less(NoToken, s)
  BY DEF Text, Less, Under, NoToken
<1>4. \A p \in Prefix : p \in Seq(Name) /\ Len(p) \in Nat BY KeyAssumption
<1>5. \A k \in Key : k \in Text /\ Len(k) \in Nat \ {0} /\ Less(NoToken, k) BY <1>1, <1>2, <1>3
<1>6. \A p \in Prefix : p \in Text /\ Len(p) \in Nat BY <1>1, <1>4
<1> QED BY <1>5, <1>6

(* So is an entry of a listing.                                            *)
LEMMA EntryIsText ==
    ASSUME NEW P \in Prefix, NEW k \in Key, Below(P, k)
    PROVE  Entry(P, k) \in Text /\ Less(NoToken, Entry(P, k))
<1>1. /\ k \in Text /\ P \in Text /\ Len(P) \in Nat /\ Len(k) \in Nat /\ Len(k) > Len(P)
      /\ Less(NoToken, k)
  BY KeysAreTexts DEF Below
<1>2. CASE Len(k) = Len(P) + 1 BY <1>1, <1>2 DEF Entry
<1>3. CASE Len(k) # Len(P) + 1
  <2> DEFINE n == Len(P) + 2
             e == [i \in 1..n |-> IF i = n THEN Empty ELSE k[i]]
  <2>1. n \in Nat /\ n <= Len(k) BY <1>1, <1>3
  <2>2. \A i \in 1..n : e[i] \in Nat
    <3>1. \A i \in 1..Len(k) : k[i] \in Nat BY <1>1 DEF Text
    <3> QED BY <2>1, <1>1, <3>1 DEF Empty
  <2>3. e \in Text /\ Len(e) = n BY <2>1, <2>2 DEF Text
  <2>4. Entry(P, k) = e BY <1>3 DEF Entry
  <2> HIDE DEF e, n
  <2>5. n # 0 BY <1>1 DEF n
  <2>6. Less(NoToken, e) BY <2>1, <2>3, <2>5 DEF Less, Under, NoToken
  <2> QED BY <2>3, <2>4, <2>6
<1> QED BY <1>2, <1>3

(* ListObjectsV2 answers a finite number of entries,                       *)
LEMMA EntriesFinite ==
    ASSUME store \subseteq Object, IsFiniteSet(store), NEW b, NEW P \in Prefix, NEW last
    PROVE  /\ Entries(b, P, last) \in SUBSET Text /\ IsFiniteSet(Entries(b, P, last))
           /\ \A e \in Entries(b, P, last) : Less(NoToken, e)
<1> DEFINE S == {x \in store : x[1] = b /\ Below(P, x[2]) /\ Less(last, Entry(P, x[2]))}
           T == Entries(b, P, last)
           f == [x \in S |-> Entry(P, x[2])]
<1>1. T = {Entry(P, x[2]) : x \in S} BY DEF Entries
<1>2. IsFiniteSet(S)
  <2>1. S \in SUBSET store OBVIOUS
  <2> HIDE DEF S
  <2> QED BY <2>1, FS_Subset
<1>3. f \in [S -> T] /\ \A t \in T : \E s \in S : f[s] = t BY <1>1
<1> HIDE DEF f
<1>4. \A x \in S : x[2] \in Key /\ Below(P, x[2]) BY DEF Object
<1>5. \A e \in T : e \in Text /\ Less(NoToken, e) BY <1>1, <1>4, EntryIsText
<1> HIDE DEF S, T
<1>6. IsFiniteSet(T) BY <1>2, <1>3, FiniteImage
<1> QED BY <1>5, <1>6 DEF T

(* or of keys below a root of a search.                                    *)
LEMMA KeysFinite ==
    ASSUME store \subseteq Object, IsFiniteSet(store), NEW b, NEW root, NEW last
    PROVE  /\ KeysBelow(b, root, last) \in SUBSET Text
           /\ IsFiniteSet(KeysBelow(b, root, last))
<1> DEFINE T == KeysBelow(b, root, last)
           S == {x \in store : x[1] = b /\ x[2] \in T}
           f == [x \in S |-> x[2]]
<1>1. IsFiniteSet(S) BY FS_Subset
<1>2. f \in [S -> T] OBVIOUS
<1>3. ASSUME NEW k \in T PROVE \E s \in S : f[s] = k
  <2>1. <<b, k>> \in store BY <1>3 DEF KeysBelow
  <2>2. <<b, k>> \in S /\ f[<<b, k>>] = k BY <1>3, <2>1
  <2> QED BY <2>2
<1>4. T \in SUBSET Text BY KeysAreTexts DEF KeysBelow
<1> HIDE DEF S, T, f
<1>5. IsFiniteSet(T) BY <1>1, <1>2, <1>3, FiniteImage
<1> QED BY <1>4, <1>5 DEF T

(* A search has at most as many roots as there are permissions.            *)
LEMMA RootsFinite ==
    ASSUME NEW rows, IsFiniteSet(rows), NEW b, NEW P
    PROVE  LET R == SearchRoots(rows, b, P)
           IN  /\ IsFiniteSet(R) /\ Cardinality(R) \in Nat
               /\ rows # {} => Cardinality(R) <= Cardinality(rows)
<1> DEFINE near == {p \in rows : p.bucket = b /\ Comparable(p.prefix, P)}
           R == SearchRoots(rows, b, P)
           f == [p \in near |-> IF Under(P, p.prefix) THEN P ELSE p.prefix]
<1>1. IsFiniteSet(near) /\ Cardinality(near) \in Nat /\ Cardinality(near) <= Cardinality(rows)
      /\ Cardinality(rows) \in Nat
  BY FewerElements
<1>2. CASE near = {}
  <2>1. R = {P} BY <1>2 DEF SearchRoots
  <2> HIDE DEF f, near, R
  <2>2. IsFiniteSet(R) /\ Cardinality(R) = 1
    <3>1. IsFiniteSet({P}) /\ Cardinality({P}) = 1 BY FS_Singleton, Zenon
    <3> QED BY <2>1, <3>1, Zenon
  <2>3. rows # {} => Cardinality(rows) # 0 BY FS_EmptySet
  <2> QED BY <1>1, <2>2, <2>3 DEF R
<1>3. CASE near # {}
  <2>1. R = {IF Under(P, p.prefix) THEN P ELSE p.prefix : p \in near} BY <1>3 DEF SearchRoots
  <2>2. f \in [near -> R] /\ \A t \in R : \E s \in near : f[s] = t BY <2>1
  <2> HIDE DEF f, near, R
  <2>3. IsFiniteSet(R) /\ Cardinality(R) <= Cardinality(near) /\ Cardinality(R) \in Nat
    BY <1>1, <2>2, FiniteImage
  <2> QED BY <1>1, <2>3 DEF R
<1> QED BY <1>2, <1>3

(* What has been there all along only gets less.                           *)
LEMMA OwedShrinks ==
    ASSUME NEW granted, NEW stored, NEW granted2 \in SUBSET granted, NEW stored2 \in SUBSET stored
    PROVE  /\ \A b, P : Owed(granted2, stored2, b, P) \subseteq Owed(granted, stored, b, P)
           /\ \A q : Sought(granted2, stored2, q) \subseteq Sought(granted, stored, q)
<1>1. ASSUME NEW b, NEW P, NEW e, Shown(granted2, b, P, e) PROVE Shown(granted, b, P, e)
  BY <1>1, MoreRows DEF Shown
<1>2. \A b, P : Owed(granted2, stored2, b, P) \subseteq Owed(granted, stored, b, P)
  BY <1>1 DEF Owed
<1>3. \A q : Sought(granted2, stored2, q) \subseteq Sought(granted, stored, q)
  BY DEF Sought
<1> QED BY <1>2, <1>3

(* Hence what is true of cursors and requests stays true of them.          *)
LEMMA TruthStays ==
    ASSUME NEW granted, NEW stored, NEW granted2 \in SUBSET granted, NEW stored2 \in SUBSET stored,
           NEW known, NEW known2, known \subseteq known2
    PROVE  /\ \A c : CursorTrue(c, granted, stored) => CursorTrue(c, granted2, stored2)
           /\ \A q : RequestTrue(q, known, granted, stored)
                        => RequestTrue(q, known2, granted2, stored2)
<1>1. \A c : CursorTrue(c, granted, stored) => CursorTrue(c, granted2, stored2)
  BY OwedShrinks DEF CursorTrue
<1>2. ASSUME NEW q, RequestTrue(q, known, granted, stored)
      PROVE  RequestTrue(q, known2, granted2, stored2)
  <2>1. RowsCover(q, granted2) BY <1>2 DEF RequestTrue, RowsCover
  <2>2. PageTrue(q, granted, stored) => PageTrue(q, granted2, stored2)
    BY OwedShrinks DEF PageTrue
  <2>3. PagesOK(q, known2, granted2, stored2) BY <1>2, <2>2 DEF RequestTrue, PagesOK
  <2>4. SearchUnderWay(q, granted, stored) => SearchUnderWay(q, granted2, stored2)
    BY OwedShrinks DEF SearchUnderWay
  <2>5. SearchEnded(q, granted, stored) => SearchEnded(q, granted2, stored2)
    BY OwedShrinks DEF SearchEnded
  <2>6. SearchOK(q, granted2, stored2) BY <1>2, <2>4, <2>5 DEF RequestTrue, SearchOK
  <2> QED BY <1>2, <2>1, <2>3, <2>6 DEF RequestTrue
<1> QED BY <1>1, <1>2

(* One request moves, and what it may count on stays true.                 *)
LEMMA OneRequestTrue ==
    ASSUME Complete, AllBounded', WorldOK', NEW r \in Request, NEW q, Become(r, q),
           RequestTrue(q, cursors', steadyGrants, steadyStore), cursors \subseteq cursors',
           steadyGrants' = steadyGrants, steadyStore' = steadyStore
    PROVE  Complete'
<1>1. requests' = [x \in Request |-> IF x = r THEN q ELSE requests[x]]
  BY DEF Complete, AllBounded, Become
<1>2. \A x \in Request : RequestTrue(requests[x], cursors', steadyGrants, steadyStore)
  BY TruthStays DEF Complete
<1>3. \A x \in Request : RequestTrue(requests'[x], cursors', steadyGrants', steadyStore')
  BY <1>1, <1>2
<1> QED BY <1>3 DEF Complete

(* A step of a request that hands out no cursor leaves the rest alone.     *)
LEMMA SameWorld ==
    ASSUME WorldOK, UNCHANGED <<grants, store, cursors, held, steadyGrants, steadyStore>>
    PROVE  WorldOK'
BY DEF WorldOK

(* A refusal owes nothing: BadRequest, Forbidden and NotFound answers and  *)
(* the failures of a backend are complete in every state of a request.     *)
LEMMA RefusalTrue ==
    ASSUME NEW q, NEW h, Bounded(q, h), NEW known, NEW granted, NEW stored,
           RequestTrue(q, known, granted, stored), q.stage \notin {"idle", "done"},
           NEW status, status # 200, status = 500 \/ q.stage # "search"
    PROVE  RequestTrue([q EXCEPT !.stage = "done", !.status = status], known, granted, stored)
<1> DEFINE p == [q EXCEPT !.stage = "done", !.status = status]
<1>1. q = [f \in Fields |-> q[f]] /\ q.status = 0 BY DEF Bounded, Given
<1>2. /\ p.stage = "done" /\ p.status = status /\ p.call = q.call /\ p.role = q.role
      /\ p.cursor = q.cursor /\ p.rows = q.rows /\ p.bucket = q.bucket /\ p.count = q.count
      /\ p.next = q.next /\ p.after = q.after
  BY <1>1 DEF Fields
<1> HIDE DEF p
<1>3. Typed(p) BY <1>1, <1>2 DEF RequestTrue, Typed
<1>4. RowsCover(p, granted) BY <1>2 DEF RowsCover, Chosen
<1>5. PagesOK(p, known, granted, stored) BY <1>2 DEF RequestTrue, PagesOK, Chosen
<1>6. SearchOK(p, granted, stored) BY <1>2 DEF SearchOK
<1> QED BY <1>3, <1>4, <1>5, <1>6 DEF RequestTrue, p

(* So the steps that refuse or fail keep the invariant.                    *)
LEMMA RefusalStepTrue ==
    ASSUME Complete, AllBounded', NEW r \in Request, NEW status, status # 200, Answer(r, status),
           requests[r].stage \notin {"idle", "done"},
           status = 500 \/ requests[r].stage # "search",
           UNCHANGED <<grants, store, cursors, held, steadyGrants, steadyStore>>
    PROVE  Complete'
<1> DEFINE p == [requests[r] EXCEPT !.stage = "done", !.status = status]
<1>1. Bounded(requests[r], held[r]) /\ RequestTrue(requests[r], cursors, steadyGrants, steadyStore)
  BY DEF Complete, AllBounded
<1>2. RequestTrue(p, cursors, steadyGrants, steadyStore) BY <1>1, RefusalTrue
<1>3. Become(r, p) BY DEF Answer
<1>4. WorldOK' BY SameWorld DEF Complete
<1> HIDE DEF p
<1> QED BY <1>2, <1>3, <1>4, OneRequestTrue

(* The first state is complete,                                            *)
LEMMA InitComplete == Init => Complete
<1> SUFFICES ASSUME Init PROVE Complete OBVIOUS
<1>1. AllBounded BY InitBounded
<1>2. WorldOK
  BY InputAssumption, FinitenessAssumption DEF Init, WorldOK
<1>3. /\ IdleRequest.stage = "idle" /\ IdleRequest.call = NoCall /\ IdleRequest.bucket = NoBucket
      /\ IdleRequest.rows = {} /\ IdleRequest.count = 0 /\ IdleRequest.next = NoToken
      /\ IdleRequest.after = NoToken /\ IdleRequest.status = 0
  BY DEF IdleRequest
<1>4. Typed(IdleRequest) BY <1>3, FS_EmptySet DEF Typed
<1>5. RowsCover(IdleRequest, steadyGrants) BY <1>3 DEF RowsCover, Chosen
<1>6. PagesOK(IdleRequest, cursors, steadyGrants, steadyStore) BY <1>3 DEF PagesOK, Chosen
<1>7. SearchOK(IdleRequest, steadyGrants, steadyStore) BY <1>3 DEF SearchOK
<1>8. \A r \in Request : requests[r] = IdleRequest BY DEF Init
<1> QED BY <1>1, <1>2, <1>4, <1>5, <1>6, <1>7, <1>8 DEF Complete, RequestTrue

(* and stays so when a request arrives, with whatever cursor it brings,    *)
LEMMA ArriveComplete ==
    ASSUME Complete, AllBounded', NEW r \in Request, Arrive(r)
    PROVE  Complete'
<1>1. /\ Bounded(requests[r], held[r]) /\ requests[r].stage = "idle"
      /\ RequestTrue(requests[r], cursors, steadyGrants, steadyStore)
  BY DEF Complete, AllBounded, Arrive, At
<1>2. /\ requests[r] = [f \in Fields |-> requests[r][f]] /\ requests[r].status = 0
      /\ Typed(requests[r])
  BY <1>1 DEF Bounded, Given, RequestTrue
<1>3. PICK c \in Calls, role \in Roles, cursor \in cursors \cup {NoCursor, Forged} :
          Become(r, Misnamed(r, c, role, cursor)) \/ Become(r, Begun(r, c, role, cursor))
  BY ArriveBecomes, Zenon
<1> DEFINE refused == Misnamed(r, c, role, cursor)
           begun == Begun(r, c, role, cursor)
<1>4. /\ refused.stage = "done" /\ refused.status = 400
      /\ begun.stage = "permissions" /\ begun.status = 0
      /\ TakesCall(refused, r, c, cursor) /\ TakesCall(begun, r, c, cursor)
  BY <1>2, ArrivalFields
<1> HIDE DEF refused, begun
<1>5. ASSUME NEW q \in {refused, begun}
      PROVE  RequestTrue(q, cursors, steadyGrants, steadyStore)
  <2>1. q.stage \in {"permissions", "done"} /\ q.status \in {0, 400} BY <1>4
  <2>2. TakesCall(q, r, c, cursor) BY <1>4
  <2>3. /\ q.call = c /\ q.cursor = cursor /\ q.bucket = requests[r].bucket
        /\ q.rows = requests[r].rows /\ q.count = requests[r].count
        /\ q.next = requests[r].next /\ q.after = requests[r].after
    BY <2>2 DEF TakesCall
  <2>4. Typed(q) BY <1>1, <1>2, <2>1, <2>3, InputAssumption DEF Typed, Chosen
  <2>5. RowsCover(q, steadyGrants) BY <2>1 DEF RowsCover, Chosen
  <2>6. PagesOK(q, cursors, steadyGrants, steadyStore)
    <3>1. q.stage \notin Chosen /\ q.stage # "log" /\ q.status # 200 BY <2>1 DEF Chosen
    <3> QED BY <2>3, <3>1 DEF PagesOK
  <2>7. SearchOK(q, steadyGrants, steadyStore) BY <2>1 DEF SearchOK
  <2> QED BY <2>4, <2>5, <2>6, <2>7 DEF RequestTrue
<1>6. WorldOK' BY DEF Complete, WorldOK, Arrive, Untouched
<1>7. /\ cursors' = cursors /\ steadyGrants' = steadyGrants /\ steadyStore' = steadyStore
  BY DEF Arrive, Untouched
<1>8. Become(r, refused) \/ Become(r, begun) BY <1>3 DEF refused, begun
<1> QED BY <1>5, <1>6, <1>7, <1>8, OneRequestTrue

(* The rows that stand for an administrator cover every bucket.            *)
LEMMA AdminRowsOK == AdminRows \subseteq Permission /\ IsFiniteSet(AdminRows) /\ AdminRows # {}
<1> DEFINE f == [b \in AllowedBuckets |-> [bucket |-> b, prefix |-> <<>>]]
<1>1. f \in [AllowedBuckets -> AdminRows] /\ \A t \in AdminRows : \E b \in AllowedBuckets : f[b] = t
  BY DEF AdminRows
<1> HIDE DEF f
<1>2. IsFiniteSet(AdminRows) BY <1>1, FinitenessAssumption, FiniteImage
<1>3. AdminRows # {} BY BucketAssumption DEF AdminRows
<1>4. ASSUME NEW p \in AdminRows PROVE p \in Permission
  <2>1. PICK b \in AllowedBuckets : p = [bucket |-> b, prefix |-> <<>>] BY DEF AdminRows
  <2> QED BY <2>1, BucketAssumption, KeyAssumption DEF Permission
<1> QED BY <1>2, <1>3, <1>4

(* The rows read first show what has been granted all along.               *)
LEMMA RowsAllow ==
    ASSUME NEW q, NEW granted,
           IF q.role = "ADMIN" THEN q.rows = AdminRows ELSE granted \subseteq q.rows,
           NEW b \in AllowedBuckets, NEW e \in Text, Less(NoToken, e)
    PROVE  /\ \A P : Shown(granted, b, P, e) => Shown(q.rows, b, P, e)
           /\ CanAccess(granted, b, e) => CanAccess(q.rows, b, e)
<1>1. CASE q.role # "ADMIN"
  <2>1. granted \subseteq q.rows BY <1>1
  <2> QED BY <2>1, MoreRows DEF Shown
<1>2. CASE q.role = "ADMIN"
  <2> DEFINE row == [bucket |-> b, prefix |-> <<>>]
  <2>1. row \in q.rows /\ row.bucket = b /\ row.prefix = <<>> BY <1>2 DEF AdminRows
  <2>2. \A s \in Text : Under(s, <<>>) BY DEF Under, Text
  <2>3. Len(e) \in Nat \ {0} BY DEF Text, Less, Under, NoToken
  <2>4. FolderOf(e) \in Text BY <2>3 DEF FolderOf, Text
  <2>5. Sees(e) # NoKey => Sees(e) \in Text BY OddAssumption, KeysAreTexts DEF Sees
  <2> HIDE DEF row
  <2>6. CanAccess(granted, b, e) => CanAccess(q.rows, b, e) BY <2>1, <2>2, <2>5 DEF CanAccess
  <2>7. Comparable(FolderOf(e), row.prefix) BY <2>1, <2>2, <2>4 DEF Comparable
  <2> QED BY <2>1, <2>6, <2>7 DEF Shown
<1> QED BY <1>1, <1>2

(* when it reads its permissions and chooses a bucket,                     *)
LEMMA LoadComplete ==
    ASSUME Complete, AllBounded', NEW r \in Request, LoadPermissions(r)
    PROVE  Complete'
<1> DEFINE q == requests[r]
           rows == Rows(q.role)
           nothing == q.call.kind # "download" /\ rows = {}
           wrongFolder(b) == CursorRefused(q.cursor, b, q.call.path)
           chosen(b) == [q EXCEPT !.stage = "access", !.rows = rows, !.bucket = b]
           empty == [q EXCEPT !.stage = "done", !.status = 200]
<1>1. /\ Bounded(q, held[r]) /\ q.stage = "permissions"
      /\ RequestTrue(q, cursors, steadyGrants, steadyStore) /\ WorldOK
      /\ UNCHANGED <<grants, store, cursors, held, steadyGrants, steadyStore>>
  BY DEF Complete, AllBounded, LoadPermissions, At, Untouched, history
<1>2. /\ q = [f \in Fields |-> q[f]] /\ q.status = 0 /\ q.page = {} /\ Typed(q)
      /\ q.cursor \in cursors \cup {NoCursor, Forged}
  BY <1>1 DEF Bounded, Given, Collected, RequestTrue, PagesOK
<1>3. q.next = NoToken /\ q.after = NoToken /\ q.count = 0 /\ q.rows = {}
  BY <1>1, <1>2 DEF Typed
<1>4. /\ rows \subseteq Permission /\ IsFiniteSet(rows)
      /\ IF q.role = "ADMIN" THEN rows = AdminRows ELSE steadyGrants \subseteq rows
  BY <1>1, AdminRowsOK DEF Rows, WorldOK
<1>5. \/ nothing /\ Answer(r, 200)
      \/ ~nothing /\ BucketRefused(rows, q.call.bucket) /\ Answer(r, 403)
      \/ ~nothing /\ \E b \in Buckets(q.role, rows, q.call.bucket) :
            \/ wrongFolder(b) /\ Answer(r, 400)
            \/ ~wrongFolder(b) /\ b \notin AllowedBuckets /\ Answer(r, 403)
            \/ ~wrongFolder(b) /\ b \in AllowedBuckets /\ Become(r, chosen(b))
  BY Zenon DEF LoadPermissions, Kind, Path
<1>6. CASE \E status \in {400, 403} : Answer(r, status)
  BY <1>1, <1>6, RefusalStepTrue
<1>7. CASE nothing /\ Answer(r, 200)
  <2>1. /\ empty.stage = "done" /\ empty.status = 200 /\ empty.call = q.call
        /\ empty.cursor = q.cursor /\ empty.page = {} /\ empty.next = NoToken
        /\ empty.after = NoToken /\ empty.count = 0 /\ empty.rows = {} /\ empty.bucket = q.bucket
    BY <1>2, <1>3 DEF Fields
  <2>2. steadyGrants = {} BY <1>4, <1>7, AdminRowsOK
  <2> HIDE DEF empty
  <2>3. /\ Owed(steadyGrants, steadyStore, empty.bucket, empty.call.path) = {}
        /\ Sought(steadyGrants, steadyStore, empty) = {}
    BY <2>2 DEF Owed, Sought, Shown, CanAccess
  <2>4. Typed(empty) BY <1>1, <1>2, <2>1, FS_EmptySet DEF Typed
  <2>5. RowsCover(empty, steadyGrants) BY <2>1 DEF RowsCover, Chosen
  <2>6. PagesOK(empty, cursors, steadyGrants, steadyStore)
    BY <1>2, <2>1, <2>3 DEF PagesOK, PageTrue, Chosen
  <2>7. SearchOK(empty, steadyGrants, steadyStore)
    BY <2>1, <2>3, LimitAssumption, FS_EmptySet DEF SearchOK, SearchEnded
  <2>8. Become(r, empty) BY <1>7 DEF Answer, empty
  <2>9. WorldOK' BY <1>1, SameWorld
  <2> QED BY <1>1, <2>4, <2>5, <2>6, <2>7, <2>8, <2>9, OneRequestTrue DEF RequestTrue
<1>8. CASE ~nothing /\ \E b \in AllowedBuckets : ~wrongFolder(b) /\ Become(r, chosen(b))
  <2> PICK b \in AllowedBuckets : ~wrongFolder(b) /\ Become(r, chosen(b)) BY <1>8
  <2> DEFINE p == chosen(b)
  <2>1. /\ p.stage = "access" /\ p.status = 0 /\ p.call = q.call /\ p.role = q.role
        /\ p.cursor = q.cursor /\ p.next = NoToken
        /\ p.after = NoToken /\ p.count = 0 /\ p.rows = rows /\ p.bucket = b
    BY <1>2, <1>3 DEF Fields
  <2>2. q.cursor # NoCursor =>
           q.cursor \in cursors /\ q.cursor.bucket = b /\ q.cursor.prefix = q.call.path
    BY <1>2 DEF CursorRefused
  <2> HIDE DEF p, rows
  <2>3. Typed(p) BY <1>1, <1>2, <1>4, <2>1, BucketAssumption DEF Typed, Chosen
  <2>4. RowsCover(p, steadyGrants) BY <1>4, <1>8, <2>1 DEF RowsCover
  <2>5. PagesOK(p, cursors, steadyGrants, steadyStore) BY <1>2, <2>1, <2>2 DEF PagesOK
  <2>6. SearchOK(p, steadyGrants, steadyStore) BY <2>1 DEF SearchOK
  <2>7. Become(r, p) BY DEF p, rows
  <2>8. WorldOK' BY <1>1, SameWorld
  <2> QED BY <1>1, <2>3, <2>4, <2>5, <2>6, <2>7, <2>8, OneRequestTrue DEF RequestTrue
<1> HIDE DEF q, rows, nothing, wrongFolder, chosen
<1> QED BY <1>5, <1>6, <1>7, <1>8

(* when it checks them,                                                    *)
LEMMA CheckComplete ==
    ASSUME Complete, AllBounded', NEW r \in Request, CheckAccess(r)
    PROVE  Complete'
<1> DEFINE q == requests[r]
           roots == SearchRoots(q.rows, q.bucket, q.call.path)
           on(stage) == [q EXCEPT !.stage = stage]
           search == [q EXCEPT !.stage = "search", !.roots = roots]
<1>1. /\ Bounded(q, held[r]) /\ q.stage = "access"
      /\ RequestTrue(q, cursors, steadyGrants, steadyStore) /\ WorldOK
      /\ UNCHANGED <<grants, store, cursors, held, steadyGrants, steadyStore>>
  BY DEF Complete, AllBounded, CheckAccess, At, Untouched, history
<1>2. /\ q = [f \in Fields |-> q[f]] /\ q.status = 0 /\ q.page = {} /\ Typed(q)
      /\ RowsCover(q, steadyGrants) /\ PagesOK(q, cursors, steadyGrants, steadyStore)
  BY <1>1 DEF Bounded, Given, Collected, RequestTrue
<1>3. q.next = NoToken /\ q.after = NoToken /\ q.count = 0
  BY <1>1, <1>2 DEF Typed
<1>4. \/ Answer(r, 403)
      \/ q.call.kind = "download" /\ Become(r, on("log"))
      \/ q.call.kind = "list" /\ Become(r, on("list"))
      \/ q.call.kind = "search" /\ Become(r, search)
  BY Zenon DEF CheckAccess, Goto, Kind, Path
<1>5. CASE Answer(r, 403) BY <1>1, <1>5, RefusalStepTrue
<1>6. ASSUME NEW p, p.call = q.call, p.role = q.role, p.rows = q.rows, p.bucket = q.bucket,
             p.cursor = q.cursor, p.page = {}, p.count = 0, p.next = NoToken, p.after = NoToken,
             p.status = 0, Become(r, p),
             \/ p.stage = "log" /\ q.call.kind = "download"
             \/ p.stage = "list" /\ q.call.kind = "list"
             \/ p.stage = "search" /\ q.call.kind = "search" /\ p.roots = roots
      PROVE  Complete'
  <2>1. Typed(p) BY <1>1, <1>2, <1>6 DEF Typed, Chosen
  <2>2. RowsCover(p, steadyGrants) BY <1>1, <1>2, <1>6 DEF RowsCover, Chosen
  <2>3. PagesOK(p, cursors, steadyGrants, steadyStore)
    BY <1>1, <1>2, <1>6 DEF PagesOK, Chosen
  <2>4. p.stage = "search" => SearchUnderWay(p, steadyGrants, steadyStore)
    <3> SUFFICES ASSUME p.stage = "search" PROVE SearchUnderWay(p, steadyGrants, steadyStore)
      OBVIOUS
    <3>1. p.roots = SearchRoots(p.rows, p.bucket, p.call.path) BY <1>6
    <3>2. p.roots \ p.roots = {} /\ Cardinality({}) = 0 BY FS_EmptySet
    <3> QED BY <1>6, <3>1, <3>2, LimitAssumption DEF SearchUnderWay
  <2>5. SearchOK(p, steadyGrants, steadyStore) BY <1>6, <2>4 DEF SearchOK
  <2>6. WorldOK' BY <1>1, SameWorld
  <2> QED BY <1>1, <1>6, <2>1, <2>2, <2>3, <2>5, <2>6, OneRequestTrue DEF RequestTrue
<1>7. /\ search.call = q.call /\ search.role = q.role /\ search.rows = q.rows
      /\ search.bucket = q.bucket /\ search.cursor = q.cursor /\ search.page = {}
      /\ search.count = 0 /\ search.next = NoToken /\ search.after = NoToken
      /\ search.status = 0 /\ search.stage = "search" /\ search.roots = roots
  BY <1>2, <1>3 DEF Fields
<1>8. ASSUME NEW stage
      PROVE  /\ on(stage).call = q.call /\ on(stage).role = q.role /\ on(stage).rows = q.rows
             /\ on(stage).bucket = q.bucket /\ on(stage).cursor = q.cursor
             /\ on(stage).page = {} /\ on(stage).count = 0 /\ on(stage).next = NoToken
             /\ on(stage).after = NoToken /\ on(stage).status = 0 /\ on(stage).stage = stage
  BY <1>2, <1>3 DEF Fields
<1> HIDE DEF search, on, roots
<1> QED BY <1>4, <1>5, <1>6, <1>7, <1>8

(* What a page shows continues what the cursor remembers.                  *)
LEMMA PageContinues ==
    ASSUME WorldOK, NEW q, q.call.path \in Prefix, q.bucket \in AllowedBuckets,
           IF q.role = "ADMIN" THEN q.rows = AdminRows ELSE steadyGrants \subseteq q.rows,
           q.cursor # NoCursor =>
              q.cursor \in cursors /\ q.cursor.bucket = q.bucket /\ q.cursor.prefix = q.call.path,
           NEW p, p.cursor = q.cursor, p.bucket = q.bucket, p.call = q.call,
           NEW all, all = Entries(q.bucket, q.call.path, Place(q)),
           NEW some, some = First(all, MaxKeys),
           p.page = {e \in some : Shown(q.rows, q.bucket, q.call.path, e)},
           p.next = IF some = all THEN NoToken ELSE LastOf(some)
    PROVE  /\ PageTrue(p, steadyGrants, steadyStore)
           /\ p.next # NoToken => p.next \in Text /\ Less(NoToken, p.next)
<1> DEFINE place == Place(q)
           owed == Owed(steadyGrants, steadyStore, q.bucket, q.call.path)
<1>1. /\ all \in SUBSET Text /\ IsFiniteSet(all) /\ \A e \in all : Less(NoToken, e)
  BY EntriesFinite DEF WorldOK
<1>2. /\ some \subseteq all /\ IsFiniteSet(some) /\ (all # {} => some # {})
      /\ \A e \in some, f \in all : Less(f, e) => f \in some
  BY <1>1, PageOf, LimitAssumption
<1>3. \A e \in all : Less(place, e) BY DEF Entries
<1>4. /\ place \in Text
      /\ \A e \in Earlier(q) : e \in Text /\ UpTo(e, place)
      /\ q.cursor # NoCursor => \A e \in owed : UpTo(e, place) => e \in Earlier(q)
  <2>1. CASE q.cursor = NoCursor BY <2>1 DEF Place, Earlier, NoToken, Text
  <2>2. CASE q.cursor # NoCursor
    <3>1. CursorTrue(q.cursor, steadyGrants, steadyStore) BY <2>2 DEF WorldOK
    <3> QED BY <2>2, <3>1 DEF Place, Earlier, CursorTrue
  <2> QED BY <2>1, <2>2
<1>5. ASSUME NEW e \in owed
      PROVE  /\ e \in Text /\ Shown(q.rows, q.bucket, q.call.path, e)
             /\ e \in Earlier(q) \/ e \in all
  <2>1. PICK o \in steadyStore : /\ o[1] = q.bucket /\ Below(q.call.path, o[2])
                                 /\ e = Entry(q.call.path, o[2])
                                 /\ Shown(steadyGrants, q.bucket, q.call.path, e)
    BY DEF Owed
  <2>2. o \in store /\ o[2] \in Key BY DEF WorldOK, Object
  <2>3. e \in Text /\ Less(NoToken, e) BY <2>1, <2>2, EntryIsText
  <2>4. Shown(q.rows, q.bucket, q.call.path, e) BY <2>1, <2>3, RowsAllow
  <2>5. Less(place, e) => e \in all BY <2>1, <2>2 DEF Entries
  <2>6. ~Less(place, e) => e \in Earlier(q)
    <3> SUFFICES ASSUME ~Less(place, e) PROVE e \in Earlier(q) OBVIOUS
    <3>1. q.cursor # NoCursor BY <2>3 DEF Place
    <3>2. UpTo(e, place) BY <1>4, <2>3, LessTotal DEF UpTo
    <3> QED BY <1>4, <3>1, <3>2
  <2> QED BY <2>3, <2>4, <2>5, <2>6
<1>6. Earlier(p) = Earlier(q) BY DEF Earlier
<1>7. p.page \subseteq some OBVIOUS
<1> HIDE DEF place, owed
<1>8. Earlier(q) \cap p.page = {}
  <2> SUFFICES ASSUME NEW e \in Earlier(q), e \in p.page PROVE FALSE OBVIOUS
  <2>1. e \in Text /\ Less(place, e) /\ UpTo(e, place) BY <1>1, <1>2, <1>3, <1>4, <1>7
  <2> QED BY <1>4, <2>1, LessIrreflexive, LessTransitive DEF UpTo
<1>9. CASE some = all
  <2>1. owed \subseteq Earlier(q) \cup p.page BY <1>5, <1>9
  <2> QED BY <1>6, <1>8, <1>9, <2>1 DEF PageTrue, owed
<1>10. CASE some # all
  <2> DEFINE last == LastOf(some)
  <2>1. last \in some /\ \A e \in some : UpTo(e, last)
    BY <1>1, <1>2, <1>10, LastEntry DEF UpTo
  <2>2. last \in Text /\ Less(NoToken, last) /\ Less(place, last)
    BY <1>1, <1>2, <1>3, <2>1
  <2> HIDE DEF last
  <2>3. \A e \in Earlier(q) \cup p.page : e \in Text /\ UpTo(e, last)
    BY <1>1, <1>2, <1>4, <1>7, <2>1, <2>2, LessTransitive DEF UpTo
  <2>4. ASSUME NEW e \in owed, UpTo(e, last) PROVE e \in Earlier(q) \cup p.page
    <3>1. e \in all => e \in some BY <1>2, <2>1, <2>4 DEF UpTo
    <3> QED BY <1>5, <3>1
  <2>5. p.next = last /\ last # NoToken
    BY <1>10, <2>2, LessIrreflexive DEF last
  <2> QED BY <1>6, <1>8, <2>2, <2>3, <2>4, <2>5 DEF PageTrue, owed
<1> QED BY <1>9, <1>10

(* when it lists one page of a folder,                                     *)
LEMMA ListComplete ==
    ASSUME Complete, AllBounded', NEW r \in Request, ListPage(r)
    PROVE  Complete'
<1> DEFINE q == requests[r]
           all == Entries(q.bucket, q.call.path, Place(q))
           some == First(all, MaxKeys)
           p == [q EXCEPT !.stage = "log",
                          !.page = {e \in some : Shown(q.rows, q.bucket, q.call.path, e)},
                          !.next = IF some = all THEN NoToken ELSE LastOf(some)]
<1>1. /\ Bounded(q, held[r]) /\ q.stage = "list"
      /\ RequestTrue(q, cursors, steadyGrants, steadyStore) /\ WorldOK
      /\ UNCHANGED <<grants, store, cursors, held, steadyGrants, steadyStore>>
  BY DEF Complete, AllBounded, ListPage, At, Untouched, history
<1>2. /\ q = [f \in Fields |-> q[f]] /\ q.status = 0 /\ Typed(q) /\ q.call.kind = "list"
      /\ q.bucket \in AllowedBuckets
      /\ RowsCover(q, steadyGrants) /\ PagesOK(q, cursors, steadyGrants, steadyStore)
  BY <1>1 DEF Bounded, Given, Collected, RowsHeld, RequestTrue, Chosen
<1>3. q.after = NoToken /\ q.call \in Calls /\ q.call.path \in Prefix
  BY <1>1, <1>2, InputAssumption DEF Typed
<1>4. /\ IF q.role = "ADMIN" THEN q.rows = AdminRows ELSE steadyGrants \subseteq q.rows
      /\ q.cursor # NoCursor =>
            q.cursor \in cursors /\ q.cursor.bucket = q.bucket /\ q.cursor.prefix = q.call.path
  BY <1>1, <1>2 DEF RowsCover, PagesOK, Chosen
<1>5. Answer(r, 500) \/ Become(r, p) BY Zenon DEF ListPage, Path, Place
<1>13. CASE Answer(r, 500) BY <1>1, <1>13, RefusalStepTrue
<1> HIDE DEF all, some
<1>6. /\ p.stage = "log" /\ p.call = q.call /\ p.role = q.role /\ p.rows = q.rows
      /\ p.bucket = q.bucket /\ p.cursor = q.cursor /\ p.count = q.count /\ p.after = NoToken
      /\ p.status = 0
      /\ p.page = {e \in some : Shown(q.rows, q.bucket, q.call.path, e)}
      /\ p.next = IF some = all THEN NoToken ELSE LastOf(some)
  BY <1>2, <1>3 DEF Fields
<1> HIDE DEF p
<1>7. /\ PageTrue(p, steadyGrants, steadyStore)
      /\ p.next # NoToken => p.next \in Text /\ Less(NoToken, p.next)
  BY <1>1, <1>2, <1>3, <1>4, <1>6, PageContinues DEF all, some
<1>8. Typed(p) BY <1>1, <1>2, <1>6, <1>7 DEF Typed, Chosen
<1>9. RowsCover(p, steadyGrants) BY <1>1, <1>2, <1>6 DEF RowsCover, Chosen
<1>10. PagesOK(p, cursors, steadyGrants, steadyStore)
  BY <1>1, <1>2, <1>6, <1>7 DEF PagesOK, Chosen
<1>11. SearchOK(p, steadyGrants, steadyStore) BY <1>2, <1>6 DEF SearchOK
<1>12. WorldOK' BY <1>1, SameWorld
<1> QED BY <1>1, <1>5, <1>8, <1>9, <1>10, <1>11, <1>12, <1>13, OneRequestTrue DEF RequestTrue

(* What is sought is an object that the rows read first let through, below *)
(* a root of the search.                                                   *)
LEMMA SoughtWithin ==
    ASSUME WorldOK, NEW q, q.rows \subseteq Permission, q.call.path \in Prefix,
           q.bucket \in AllowedBuckets,
           IF q.role = "ADMIN" THEN q.rows = AdminRows ELSE steadyGrants \subseteq q.rows,
           NEW k \in Sought(steadyGrants, steadyStore, q)
    PROVE  /\ k \in Key /\ <<q.bucket, k>> \in store
           /\ k[Len(k)] # Empty /\ k \in Matches[q.call.needle]
           /\ CanAccess(q.rows, q.bucket, k)
           /\ \E root \in SearchRoots(q.rows, q.bucket, q.call.path) : Below(root, k)
<1>1. PICK o \in steadyStore :
          /\ o[1] = q.bucket /\ Below(q.call.path, o[2]) /\ o[2] \notin DOMAIN Odd
          /\ o[2][Len(o[2])] # Empty /\ o[2] \in Matches[q.call.needle]
          /\ \E p \in steadyGrants : p.bucket = q.bucket /\ Below(p.prefix, o[2])
          /\ k = o[2]
  BY DEF Sought
<1>2. o \in store /\ o \in Bucket \X Key BY DEF WorldOK, Object
<1>3. k \in Key /\ <<q.bucket, k>> \in store BY <1>1, <1>2
<1>4. k \in Text /\ Less(NoToken, k) /\ Len(k) \in Nat \ {0} BY <1>3, KeysAreTexts
<1>5. Sees(k) = k /\ k # NoKey BY <1>1, <1>3, KeyAssumption DEF Sees
<1>6. PICK p \in steadyGrants : p.bucket = q.bucket /\ Below(p.prefix, k) BY <1>1
<1>7. CanAccess(steadyGrants, q.bucket, k) BY <1>5, <1>6 DEF CanAccess, Below
<1>8. CanAccess(q.rows, q.bucket, k) BY <1>4, <1>7, RowsAllow
<1>9. \E row \in q.rows : row.bucket = q.bucket /\ Below(row.prefix, k)
  <2>1. CASE q.role = "ADMIN"
    <3> DEFINE row == [bucket |-> q.bucket, prefix |-> <<>>]
    <3>1. row \in q.rows BY <2>1 DEF AdminRows
    <3>2. Below(<<>>, k) BY <1>4 DEF Below, Under
    <3> QED BY <3>1, <3>2
  <2>2. CASE q.role # "ADMIN" BY <1>6, <2>2
  <2> QED BY <2>1, <2>2
<1>10. \E root \in SearchRoots(q.rows, q.bucket, q.call.path) : Below(root, k)
  BY <1>1, <1>3, <1>9, RootsCover
<1> QED BY <1>1, <1>3, <1>8, <1>10

(* A page of a root finds what is sought in it, up to its last key, unless *)
(* the cap is reached.                                                     *)
LEMMA PageFinds ==
    ASSUME WorldOK, NEW q, q.rows \subseteq Permission, q.call.path \in Prefix,
           q.bucket \in AllowedBuckets, q.count \in Nat,
           IF q.role = "ADMIN" THEN q.rows = AdminRows ELSE steadyGrants \subseteq q.rows,
           SearchUnderWay(q, steadyGrants, steadyStore),
           NEW root, q.after # NoToken => root = q.root,
           NEW all, all = KeysBelow(q.bucket, root, q.after),
           NEW some, some = First(all, SearchPage),
           NEW kept, kept = Kept(SearchHits(q, some), q.count)
    PROVE  /\ all \in SUBSET Text /\ IsFiniteSet(all) /\ some \subseteq all /\ IsFiniteSet(some)
           /\ \A e \in some, f \in all : Less(f, e) => f \in some
           /\ Cardinality(kept) \in Nat
           /\ q.count < SearchCap => q.count + Cardinality(kept) <= SearchCap
           /\ q.count >= SearchCap => Cardinality(kept) <= 1
           /\ q.count + Cardinality(kept) < SearchCap =>
                 \A k \in Sought(steadyGrants, steadyStore, q) :
                    Below(root, k) => /\ k \in Text /\ (k \in q.page \/ k \in all)
                                      /\ k \in some => k \in kept
<1> DEFINE hits == SearchHits(q, some)
<1>1. all \in SUBSET Text /\ IsFiniteSet(all) BY KeysFinite DEF WorldOK
<1>2. /\ some \subseteq all /\ IsFiniteSet(some)
      /\ \A e \in some, f \in all : Less(f, e) => f \in some
  BY <1>1, PageOf, LimitAssumption
<1>3. hits \subseteq some BY DEF SearchHits
<1>4. hits \in SUBSET Text /\ IsFiniteSet(hits) BY <1>1, <1>2, <1>3, FS_Subset
<1> HIDE DEF hits
<1>5. kept = First(hits, IF q.count < SearchCap THEN SearchCap - q.count ELSE 1)
  BY DEF Kept, hits
<1>6. SearchCap \in Nat \ {0} BY LimitAssumption
<1>7. CASE q.count >= SearchCap
  <2>1. kept = First(hits, 1) BY <1>5, <1>6, <1>7
  <2>2. Cardinality(kept) \in Nat /\ Cardinality(kept) <= 1 BY <1>4, <2>1, PageOf
  <2> QED BY <1>1, <1>2, <1>6, <1>7, <2>2
<1>8. CASE q.count < SearchCap
  <2> DEFINE n == SearchCap - q.count
  <2>1. n \in Nat \ {0} BY <1>6, <1>8
  <2>2. kept = First(hits, n) BY <1>5, <1>8
  <2>3. /\ Cardinality(kept) \in Nat /\ Cardinality(kept) <= n
        /\ kept # hits => Cardinality(kept) >= n
    BY <1>4, <2>1, <2>2, PageOf
  <2>4. ASSUME q.count + Cardinality(kept) < SearchCap,
               NEW k \in Sought(steadyGrants, steadyStore, q), Below(root, k)
        PROVE  /\ k \in Text /\ (k \in q.page \/ k \in all)
               /\ k \in some => k \in kept
    <3>1. /\ k \in Key /\ <<q.bucket, k>> \in store
          /\ k[Len(k)] # Empty /\ k \in Matches[q.call.needle]
          /\ CanAccess(q.rows, q.bucket, k)
      BY SoughtWithin
    <3>2. k \in Text /\ Less(NoToken, k) BY <3>1, KeysAreTexts
    <3>3. k \in some => k \in hits BY <3>1 DEF hits, SearchHits
    <3>4. kept = hits BY <1>6, <1>8, <2>3, <2>4
    <3>5. Less(q.after, k) => k \in all BY <2>4, <3>1 DEF KeysBelow
    <3>6. ~Less(q.after, k) => k \in q.page
      <4> SUFFICES ASSUME ~Less(q.after, k) PROVE k \in q.page OBVIOUS
      <4>1. q.after # NoToken BY <3>2
      <4>2. q.after \in Text BY <4>1 DEF SearchUnderWay
      <4>3. UpTo(k, q.after) BY <3>2, <4>2, LessTotal DEF UpTo
      <4> QED BY <2>4, <4>1, <4>3 DEF SearchUnderWay
    <3> QED BY <3>2, <3>3, <3>4, <3>5, <3>6
  <2> QED BY <1>1, <1>2, <1>6, <1>8, <2>3, <2>4
<1> QED BY <1>6, <1>7, <1>8

(* A page of a search leads to the next page, the next root or the end,    *)
(* and what it has found by then is what SearchUnderWay says.              *)
LEMMA SearchGoesOn ==
    ASSUME WorldOK, NEW q, q.rows \subseteq Permission, IsFiniteSet(q.rows), q.rows # {},
           q.call.path \in Prefix, q.bucket \in AllowedBuckets, q.count \in Nat,
           IF q.role = "ADMIN" THEN q.rows = AdminRows ELSE steadyGrants \subseteq q.rows,
           SearchUnderWay(q, steadyGrants, steadyStore),
           NEW root \in q.roots, q.after # NoToken => root = q.root,
           NEW all, all = KeysBelow(q.bucket, root, q.after),
           NEW some, some = First(all, SearchPage),
           NEW kept, kept = Kept(SearchHits(q, some), q.count),
           NEW p, p.call = q.call, p.bucket = q.bucket, p.rows = q.rows,
           p.page = q.page \cup kept, p.count = q.count + Cardinality(kept), p.root = root
    PROVE  /\ p.count \in Nat
           /\ MoreOf(some, all, p.count) /\ p.roots = q.roots /\ p.after = LastOf(some)
                 => SearchUnderWay(p, steadyGrants, steadyStore)
           /\ ~MoreOf(some, all, p.count) /\ p.roots = q.roots \ {root} /\ p.after = NoToken
                 => /\ SearchUnderWay(p, steadyGrants, steadyStore)
                    /\ p.roots = {} => SearchEnded(p, steadyGrants, steadyStore)
<1> DEFINE sought == Sought(steadyGrants, steadyStore, q)
           every == SearchRoots(q.rows, q.bucket, q.call.path)
           gone == every \ q.roots
<1>1. /\ all \in SUBSET Text /\ IsFiniteSet(all) /\ some \subseteq all /\ IsFiniteSet(some)
      /\ \A e \in some, f \in all : Less(f, e) => f \in some
      /\ Cardinality(kept) \in Nat
      /\ q.count < SearchCap => q.count + Cardinality(kept) <= SearchCap
      /\ q.count >= SearchCap => Cardinality(kept) <= 1
      /\ q.count + Cardinality(kept) < SearchCap =>
            \A k \in sought : Below(root, k) => /\ k \in Text /\ (k \in q.page \/ k \in all)
                                                /\ k \in some => k \in kept
  BY PageFinds
<1>2. SearchCap \in Nat \ {0} /\ p.count \in Nat BY <1>1, LimitAssumption
<1>3. /\ IsFiniteSet(every) /\ Cardinality(every) \in Nat
      /\ Cardinality(every) <= Cardinality(q.rows) /\ Cardinality(q.rows) \in Nat
  BY RootsFinite, FS_CardinalityType
<1>4. Sought(steadyGrants, steadyStore, p) = sought BY DEF Sought
<1>5. SearchRoots(p.rows, p.bucket, p.call.path) = every OBVIOUS
<1>6. /\ q.roots \subseteq every
      /\ q.count < SearchCap + Cardinality(gone)
      /\ q.count < SearchCap => \A k \in sought : (\E x \in gone : Below(x, k)) => k \in q.page
  BY DEF SearchUnderWay
<1>7. IsFiniteSet(gone) /\ Cardinality(gone) \in Nat BY <1>3, FewerElements
<1>8. p.count < SearchCap => q.count < SearchCap BY <1>1, <1>2
<1> HIDE DEF sought, every, gone
<1>9. ASSUME MoreOf(some, all, p.count), p.roots = q.roots, p.after = LastOf(some)
      PROVE  SearchUnderWay(p, steadyGrants, steadyStore)
  <2>1. some # all /\ p.count < SearchCap BY <1>9 DEF MoreOf
  <2>2. some # {}
    <3>1. all # {} BY <1>1, <2>1
    <3> QED BY <1>1, <3>1, PageOf, LimitAssumption
  <2>3. p.after \in some /\ \A e \in some : UpTo(e, p.after)
    BY <1>1, <1>9, <2>2, LastEntry DEF UpTo
  <2>4. ASSUME NEW k \in sought, Below(root, k), UpTo(k, p.after) PROVE k \in p.page
    <3>1. (k \in q.page \/ k \in all) /\ (k \in some => k \in kept)
      BY <1>1, <2>1, <2>4
    <3>2. k \in all => k \in some BY <1>1, <2>3, <2>4 DEF UpTo
    <3> QED BY <3>1, <3>2
  <2>5. p.count < SearchCap + Cardinality(gone) BY <1>2, <1>7, <2>1
  <2>6. every \ p.roots = gone BY <1>9 DEF gone
  <2>7. \A k \in sought : (\E x \in gone : Below(x, k)) => k \in p.page BY <1>6, <1>8, <2>1
  <2>8. p.after \in Text BY <1>1, <2>3
  <2> QED BY <1>4, <1>5, <1>6, <1>9, <2>1, <2>4, <2>5, <2>6, <2>7, <2>8 DEF SearchUnderWay
<1>10. ASSUME ~MoreOf(some, all, p.count), p.roots = q.roots \ {root}, p.after = NoToken
       PROVE  /\ SearchUnderWay(p, steadyGrants, steadyStore)
              /\ p.roots = {} => SearchEnded(p, steadyGrants, steadyStore)
  <2>1. every \ p.roots = gone \cup {root} /\ root \notin gone BY <1>6, <1>10 DEF gone
  <2>2. Cardinality(every \ p.roots) = Cardinality(gone) + 1
    <3>1. Cardinality(gone \cup {root}) = Cardinality(gone) + 1 BY <1>7, <2>1, FS_AddElement
    <3> QED BY <2>1, <3>1, Zenon
  <2>3. p.count < SearchCap + Cardinality(every \ p.roots) BY <1>1, <1>2, <1>6, <1>7, <2>2
  <2>4. ASSUME p.count < SearchCap, NEW k \in sought, NEW x \in every \ p.roots, Below(x, k)
        PROVE  k \in p.page
    <3>1. some = all BY <1>10, <2>4 DEF MoreOf
    <3>2. CASE x = root BY <1>1, <2>4, <3>1, <3>2
    <3>3. CASE x \in gone BY <1>6, <1>8, <2>4, <3>3
    <3> QED BY <2>1, <3>2, <3>3
  <2>5. SearchUnderWay(p, steadyGrants, steadyStore)
    BY <1>4, <1>5, <1>6, <1>10, <2>3, <2>4 DEF SearchUnderWay
  <2>6. ASSUME p.roots = {} PROVE SearchEnded(p, steadyGrants, steadyStore)
    <3>1. every \ p.roots = every BY <2>6
    <3>2. p.count < SearchCap + Cardinality(p.rows) BY <1>2, <1>3, <2>3, <3>1
    <3>3. \A k \in sought : \E x \in every : Below(x, k) BY SoughtWithin DEF sought, every
    <3>4. p.count < SearchCap => sought \subseteq p.page BY <2>4, <3>1, <3>3
    <3> QED BY <1>4, <3>2, <3>4 DEF SearchEnded
  <2> QED BY <2>5, <2>6
<1> QED BY <1>2, <1>9, <1>10

(* when a search reads one page of a root,                                 *)
LEMMA SearchStepComplete ==
    ASSUME Complete, AllBounded', NEW r \in Request, SearchStorage(r)
    PROVE  Complete'
<1> DEFINE q == requests[r]
<1>1. /\ Bounded(q, held[r]) /\ q.stage = "search"
      /\ RequestTrue(q, cursors, steadyGrants, steadyStore) /\ WorldOK
      /\ UNCHANGED <<grants, store, cursors, held, steadyGrants, steadyStore>>
  BY DEF Complete, AllBounded, SearchStorage, At, Untouched, history
<1>2. /\ q = [f \in Fields |-> q[f]] /\ q.status = 0 /\ Typed(q) /\ q.call.kind = "search"
      /\ q.bucket \in AllowedBuckets
      /\ RowsCover(q, steadyGrants) /\ PagesOK(q, cursors, steadyGrants, steadyStore)
      /\ SearchUnderWay(q, steadyGrants, steadyStore)
  BY <1>1 DEF Bounded, Given, Collected, RowsHeld, RequestTrue, SearchOK, Chosen
<1>3. /\ q.next = NoToken /\ q.call \in Calls /\ q.call.path \in Prefix /\ q.count \in Nat
      /\ q.rows \subseteq Permission /\ IsFiniteSet(q.rows)
  BY <1>1, <1>2, InputAssumption DEF Typed
<1>4. /\ IF q.role = "ADMIN" THEN q.rows = AdminRows ELSE steadyGrants \subseteq q.rows
      /\ q.rows # {}
  BY <1>1, <1>2 DEF RowsCover, Chosen
<1>5. PICK root \in q.roots : (q.after # NoToken => root = q.root) /\ SearchOn(r, root)
  BY DEF SearchStorage
<1> DEFINE all == KeysBelow(q.bucket, root, q.after)
           some == First(all, SearchPage)
           kept == Kept(SearchHits(q, some), q.count)
           found == [q EXCEPT !.page = @ \cup kept, !.count = @ + Cardinality(kept),
                              !.root = root]
           on == [found EXCEPT !.after = LastOf(some)]
           next == [found EXCEPT !.after = NoToken, !.roots = @ \ {root},
                        !.stage = IF q.roots = {root} THEN "log" ELSE "search"]
<1>6. IF MoreOf(some, all, found.count) THEN Become(r, on) ELSE Become(r, next)
  BY <1>5, Zenon DEF SearchOn
<1> HIDE DEF all, some, kept
<1>7. /\ found.count = q.count + Cardinality(kept)
      /\ on.stage = "search" /\ on.roots = q.roots /\ on.after = LastOf(some)
      /\ next.stage = (IF q.roots = {root} THEN "log" ELSE "search")
      /\ next.roots = q.roots \ {root} /\ next.after = NoToken
      /\ \A p \in {on, next} :
            /\ p.call = q.call /\ p.role = q.role /\ p.rows = q.rows /\ p.bucket = q.bucket
            /\ p.cursor = q.cursor /\ p.next = NoToken /\ p.status = 0 /\ p.root = root
            /\ p.page = q.page \cup kept /\ p.count = q.count + Cardinality(kept)
  BY <1>1, <1>2, <1>3 DEF Fields
<1> HIDE DEF found, on, next
<1>8. ASSUME NEW p, p \in {on, next}
      PROVE  /\ p.count \in Nat
             /\ MoreOf(some, all, p.count) /\ p.roots = q.roots /\ p.after = LastOf(some)
                   => SearchUnderWay(p, steadyGrants, steadyStore)
             /\ ~MoreOf(some, all, p.count) /\ p.roots = q.roots \ {root} /\ p.after = NoToken
                   => /\ SearchUnderWay(p, steadyGrants, steadyStore)
                      /\ p.roots = {} => SearchEnded(p, steadyGrants, steadyStore)
  BY <1>1, <1>2, <1>3, <1>4, <1>5, <1>7, <1>8, SearchGoesOn DEF all, some, kept
<1>9. ASSUME NEW p, p \in {on, next}, p.stage \in {"search", "log"},
             p.stage = "log" => p.after = NoToken,
             SearchOK(p, steadyGrants, steadyStore), Become(r, p)
      PROVE  Complete'
  <2>1. Typed(p) BY <1>1, <1>2, <1>7, <1>8, <1>9 DEF Typed, Chosen
  <2>2. RowsCover(p, steadyGrants) BY <1>1, <1>2, <1>7, <1>9 DEF RowsCover, Chosen
  <2>3. PagesOK(p, cursors, steadyGrants, steadyStore)
    BY <1>1, <1>2, <1>7, <1>9 DEF PagesOK, Chosen
  <2>4. WorldOK' BY <1>1, SameWorld
  <2> QED BY <1>1, <1>9, <2>1, <2>2, <2>3, <2>4, OneRequestTrue DEF RequestTrue
<1>10. CASE MoreOf(some, all, found.count)
  <2>1. SearchUnderWay(on, steadyGrants, steadyStore) BY <1>7, <1>8, <1>10
  <2>2. SearchOK(on, steadyGrants, steadyStore) BY <1>7, <2>1 DEF SearchOK
  <2> QED BY <1>6, <1>7, <1>9, <1>10, <2>2
<1>11. CASE ~MoreOf(some, all, found.count)
  <2>1. /\ SearchUnderWay(next, steadyGrants, steadyStore)
        /\ next.roots = {} => SearchEnded(next, steadyGrants, steadyStore)
    BY <1>7, <1>8, <1>11
  <2>2. next.stage = "log" => next.roots = {} BY <1>7
  <2>3. SearchOK(next, steadyGrants, steadyStore) BY <1>7, <2>1, <2>2 DEF SearchOK
  <2> QED BY <1>6, <1>7, <1>9, <1>11, <2>3
<1> QED BY <1>10, <1>11

(* when it records what it did and answers, with the cursor of a page      *)
(* that goes on,                                                           *)
LEMMA LogComplete ==
    ASSUME Complete, AllBounded', NEW r \in Request, Log(r)
    PROVE  Complete'
<1> DEFINE q == requests[r]
           p == [q EXCEPT !.stage = "done", !.status = 200]
           c == Cursor(q.bucket, q.call.path, q.next, Earlier(q) \cup q.page)
<1>1. /\ Bounded(q, held[r]) /\ q.stage = "log"
      /\ RequestTrue(q, cursors, steadyGrants, steadyStore) /\ WorldOK
      /\ UNCHANGED <<grants, store, held, steadyGrants, steadyStore>>
      /\ Become(r, p)
      /\ cursors' = IF q.next = NoToken THEN cursors ELSE cursors \cup {c}
  BY DEF Complete, AllBounded, Log, Answer, At, Path, Earlier, history
<1>2. /\ q = [f \in Fields |-> q[f]] /\ q.status = 0 /\ Typed(q)
      /\ PagesOK(q, cursors, steadyGrants, steadyStore) /\ SearchOK(q, steadyGrants, steadyStore)
  BY <1>1 DEF Bounded, Given, RequestTrue
<1>3. q.after = NoToken /\ q.call \in Calls
  BY <1>1, <1>2 DEF Typed
<1>4. /\ p.stage = "done" /\ p.call = q.call /\ p.role = q.role /\ p.rows = q.rows
      /\ p.bucket = q.bucket /\ p.cursor = q.cursor /\ p.count = q.count /\ p.after = NoToken
      /\ p.page = q.page /\ p.next = q.next /\ p.status = 200
  BY <1>2, <1>3 DEF Fields
<1> HIDE DEF p, c
<1>5. q.next # NoToken => CursorTrue(c, steadyGrants, steadyStore)
  <2> SUFFICES ASSUME q.next # NoToken PROVE CursorTrue(c, steadyGrants, steadyStore) OBVIOUS
  <2>1. q.next \in Text /\ Less(NoToken, q.next) /\ PageTrue(q, steadyGrants, steadyStore)
    BY <1>1, <1>2 DEF Typed, PagesOK
  <2>2. /\ c.bucket = q.bucket /\ c.prefix = q.call.path /\ c.after = q.next
        /\ c.shown = Earlier(q) \cup q.page
    BY DEF c, Cursor
  <2> QED BY <2>1, <2>2 DEF CursorTrue, PageTrue
<1>6. Typed(p) BY <1>1, <1>2, <1>4 DEF Typed, Chosen
<1>7. RowsCover(p, steadyGrants) BY <1>4 DEF RowsCover, Chosen
<1>8. PageTrue(q, steadyGrants, steadyStore) => PageTrue(p, steadyGrants, steadyStore)
  <2>1. Earlier(p) = Earlier(q) BY <1>4 DEF Earlier
  <2> QED BY <1>4, <2>1 DEF PageTrue
<1>9. PagesOK(p, cursors, steadyGrants, steadyStore)
  BY <1>1, <1>2, <1>4, <1>8 DEF PagesOK, Chosen
<1>10. Sought(steadyGrants, steadyStore, p) = Sought(steadyGrants, steadyStore, q)
  BY <1>4 DEF Sought
<1>11. SearchOK(p, steadyGrants, steadyStore)
  BY <1>1, <1>2, <1>4, <1>10 DEF SearchOK, SearchEnded
<1>12. WorldOK' BY <1>1, <1>5 DEF WorldOK
<1>13. RequestTrue(p, cursors', steadyGrants, steadyStore)
  <2>1. cursors \subseteq cursors' BY <1>1
  <2> QED BY <1>6, <1>7, <1>9, <1>11, <2>1, TruthStays DEF RequestTrue
<1> QED BY <1>1, <1>12, <1>13, OneRequestTrue

(* when a backend fails,                                                   *)
LEMMA FailComplete ==
    ASSUME Complete, AllBounded', NEW r \in Request, Fail(r)
    PROVE  Complete'
BY RefusalStepTrue DEF Fail, Untouched, history

(* and when permissions or objects come and go meanwhile.                  *)
LEMMA OthersComplete ==
    ASSUME Complete, AllBounded',
           \/ \E p \in Grantable : Grant(p) \/ Revoke(p)
           \/ \E o \in Passing : Put(o) \/ Drop(o)
    PROVE  Complete'
<1>1. /\ WorldOK /\ requests' = requests /\ cursors' = cursors
      /\ steadyGrants' \subseteq steadyGrants /\ steadyStore' \subseteq steadyStore
  BY DEF Complete, Grant, Revoke, Put, Drop, history
<1>2. \A r \in Request : RequestTrue(requests'[r], cursors', steadyGrants', steadyStore')
  BY <1>1, TruthStays DEF Complete
<1>3. \A c \in cursors' : CursorTrue(c, steadyGrants', steadyStore')
  BY <1>1, TruthStays DEF WorldOK
<1>4. /\ grants' \subseteq Permission /\ IsFiniteSet(grants') /\ steadyGrants' \subseteq grants'
      /\ store' \subseteq Object /\ IsFiniteSet(store') /\ steadyStore' \subseteq store'
      /\ held' \in [Request -> SUBSET Permission]
  <2>1. ASSUME NEW p \in Grantable, Grant(p)
        PROVE  /\ grants' \subseteq Permission /\ IsFiniteSet(grants')
               /\ held' \in [Request -> SUBSET Permission]
               /\ UNCHANGED <<store, steadyStore, steadyGrants>> /\ grants \subseteq grants'
    BY <1>1, <2>1, InputAssumption, FS_AddElement DEF Grant, WorldOK
  <2>2. ASSUME NEW p \in Grantable, Revoke(p)
        PROVE  /\ grants' \subseteq Permission /\ IsFiniteSet(grants') /\ steadyGrants' \subseteq grants'
               /\ UNCHANGED <<store, steadyStore, held>>
    BY <1>1, <2>2, FS_RemoveElement DEF Revoke, WorldOK
  <2>3. ASSUME NEW o \in Passing, Put(o)
        PROVE  /\ store' \subseteq Object /\ IsFiniteSet(store') /\ store \subseteq store'
               /\ UNCHANGED <<steadyStore, grants, steadyGrants, held>>
    BY <1>1, <2>3, InputAssumption, FS_AddElement DEF Put, WorldOK, history
  <2>4. ASSUME NEW o \in Passing, Drop(o)
        PROVE  /\ store' \subseteq Object /\ IsFiniteSet(store') /\ steadyStore' \subseteq store'
               /\ UNCHANGED <<grants, steadyGrants, held>>
    BY <1>1, <2>4, FS_RemoveElement DEF Drop, WorldOK
  <2> QED BY <1>1, <2>1, <2>2, <2>3, <2>4 DEF WorldOK
<1>5. WorldOK' BY <1>3, <1>4 DEF WorldOK
<1> QED BY <1>2, <1>5 DEF Complete

(* Every step keeps the invariant, and the invariant gives the properties. *)
LEMMA NextComplete == Complete /\ [Next]_vars => Complete'
<1> SUFFICES ASSUME Complete, [Next]_vars PROVE Complete' OBVIOUS
<1>1. AllBounded' BY NextBounded DEF Complete
<1>2. ASSUME NEW r \in Request, Arrive(r) \/ Step(r) \/ Fail(r) PROVE Complete'
  BY <1>1, <1>2, ArriveComplete, LoadComplete, CheckComplete, ListComplete, SearchStepComplete,
     LogComplete, FailComplete DEF Step
<1>3. CASE UNCHANGED vars
  BY <1>1, <1>3 DEF vars, Complete, WorldOK
<1> QED BY <1>1, <1>2, <1>3, OthersComplete DEF Next

(* The invariant types the state,                                          *)
LEMMA CompleteTypes == Complete => TypeOK
<1> SUFFICES ASSUME Complete PROVE TypeOK OBVIOUS
<1>1. ASSUME NEW r \in Request
      PROVE  LET q == requests[r]
             IN  /\ DOMAIN q = DOMAIN IdleRequest
                 /\ q.call \in Calls \cup {NoCall} /\ q.bucket \in Bucket \cup {NoBucket}
                 /\ q.rows \subseteq Permission /\ q.count \in Nat
                 /\ q.stage = "idle" <=> q.call = NoCall
                 /\ q.next # NoToken => q.call.kind = "list" /\ Less(NoToken, q.next)
                 /\ q.after # NoToken => q.stage = "search" \/ q.status = 500
  <2>1. Bounded(requests[r], held[r]) /\ Typed(requests[r])
    BY DEF Complete, AllBounded, RequestTrue
  <2>2. DOMAIN requests[r] = Fields BY <2>1 DEF Bounded
  <2>3. DOMAIN IdleRequest = Fields BY DEF IdleRequest, Fields
  <2> QED BY <2>1, <2>2, <2>3 DEF Typed
<1> QED BY <1>1 DEF Complete, WorldOK, TypeOK, At, Kind

(* says what a walk through a folder has shown,                            *)
LEMMA CompletePages == Complete => PagesComplete
<1> SUFFICES ASSUME Complete, NEW r \in Request, requests[r].status = 200,
                    requests[r].call.kind = "list"
             PROVE  LET q == requests[r]
                    IN  /\ Earlier(q) \cap q.page = {}
                        /\ q.next = NoToken => \A o \in steadyStore :
                              LET e == Entry(q.call.path, o[2])
                              IN  o[1] = q.bucket /\ Below(q.call.path, o[2])
                                  /\ Shown(steadyGrants, q.bucket, q.call.path, e)
                                     => e \in Earlier(q) \cup q.page
  BY DEF PagesComplete, Answered, Kind, Path, Earlier
<1>1. PageTrue(requests[r], steadyGrants, steadyStore) BY DEF Complete, RequestTrue, PagesOK
<1> QED BY <1>1 DEF PageTrue, Owed

(* and what a search has found.                                            *)
LEMMA CompleteSearches == Complete => SearchComplete
<1> SUFFICES ASSUME Complete, NEW r \in Request, requests[r].status = 200,
                    requests[r].call.kind = "search"
             PROVE  LET q == requests[r]
                    IN  /\ q.count < SearchCap + Cardinality(q.rows)
                        /\ q.count < SearchCap => \A o \in steadyStore :
                              /\ o[1] = q.bucket /\ Below(q.call.path, o[2]) /\ o[2] \notin DOMAIN Odd
                              /\ o[2][Len(o[2])] # Empty /\ o[2] \in Matches[q.call.needle]
                              /\ \E p \in steadyGrants : p.bucket = q.bucket /\ Below(p.prefix, o[2])
                              => o[2] \in q.page
  BY DEF SearchComplete, Answered, Kind, Path
<1>1. SearchEnded(requests[r], steadyGrants, steadyStore) BY DEF Complete, RequestTrue, SearchOK
<1> QED BY <1>1 DEF SearchEnded, Sought

(* Requests under way, the cursors they were handed and the answers given  *)
(* account for all that was there all along (S3Service.list, search).      *)
THEOREM Completeness == Spec => []Complete
BY InitComplete, NextComplete, PTL DEF Spec

(* The state of the file routes has its type.                              *)
THEOREM FilesTypeCorrect == Spec => []TypeOK
BY Completeness, CompleteTypes, PTL

(* Walking a folder page by page leaves out nothing that was visible all   *)
(* along and shows nothing twice, for every page size, every set of keys   *)
(* and any number of requests (S3Service.list with its cursors).           *)
THEOREM NoPageLeavesOut == Spec => []PagesComplete
BY Completeness, CompletePages, PTL

(* A search that stays below its cap finds every match it may show that    *)
(* was there all along, whatever the page size (S3Service.search).         *)
THEOREM NoSearchLeavesOut == Spec => []SearchComplete
BY Completeness, CompleteSearches, PTL
-----------------------------------------------------------------------------
(***************************************************************************)
(* Nobody is forbidden what has been permitted all along.  The invariant   *)
(* says of a request between its two readings that the bucket chosen is    *)
(* the one the account is entitled to; the entitlement can only get less,  *)
(* as rows are revoked and others are granted.                             *)
(***************************************************************************)
\* Entitled, of a request q whose account had the rows h and all along "granted".
Entitles(q, h, granted, b) ==
    LET steady == IF q.role = "ADMIN" THEN AdminRows ELSE granted
    IN  /\ \/ q.call.bucket = b
           \/ q.call.bucket = NoBucket /\ \A p \in Rights(q, h) : p.bucket = b
        /\ IF q.call.kind = "download" THEN CanAccess(steady, b, Parsed(q.call.path))
                                       ELSE CanList(steady, b, q.call.path)

Treated(q, h, granted) ==
    \A b \in AllowedBuckets : Entitles(q, h, granted, b) =>
        /\ q.stage = "access" => q.bucket = b
        /\ q.status # 403

AllTreated == \A r \in Request : Treated(requests[r], held[r], steadyGrants)

(* Who is entitled has a row in the bucket.                                *)
LEMMA EntitledByRow ==
    ASSUME NEW q, NEW h, NEW granted, NEW b, Entitles(q, h, granted, b)
    PROVE  \E p \in (IF q.role = "ADMIN" THEN AdminRows ELSE granted) : p.bucket = b
BY DEF Entitles, CanAccess, CanList

(* Revoking and granting entitle to nothing new.                           *)
LEMMA EntitledToLess ==
    ASSUME NEW q, NEW h, NEW more, h \subseteq more, NEW granted, NEW fewer, fewer \subseteq granted,
           Treated(q, h, granted)
    PROVE  Treated(q, more, fewer)
<1> SUFFICES ASSUME NEW b \in AllowedBuckets, Entitles(q, more, fewer, b)
             PROVE  Entitles(q, h, granted, b)
  BY DEF Treated
<1>1. Rights(q, h) \subseteq Rights(q, more) BY DEF Rights
<1>2. CASE q.role = "ADMIN" BY <1>1, <1>2 DEF Entitles
<1>3. CASE q.role # "ADMIN"
  <2>1. /\ CanAccess(fewer, b, Parsed(q.call.path)) => CanAccess(granted, b, Parsed(q.call.path))
        /\ CanList(fewer, b, q.call.path) => CanList(granted, b, q.call.path)
    BY MoreRows
  <2> QED BY <1>1, <1>3, <2>1 DEF Entitles
<1> QED BY <1>2, <1>3

(* A step of one request treats all of them well if it does its own.       *)
LEMMA OneRequestTreated ==
    ASSUME AllBounded, AllTreated, NEW r \in Request, NEW q, Become(r, q),
           Treated(q, held[r], steadyGrants), held' = held, steadyGrants' = steadyGrants
    PROVE  AllTreated'
<1>1. requests' = [x \in Request |-> IF x = r THEN q ELSE requests[x]]
  BY DEF AllBounded, Become
<1>2. \A x \in Request : Treated(requests'[x], held[x], steadyGrants) BY <1>1 DEF AllTreated
<1>3. \A x \in Request : Treated(requests'[x], held'[x], steadyGrants') BY <1>2
<1> QED BY <1>3 DEF AllTreated

(* A request goes past the second reading, or ends otherwise than by 403.  *)
LEMMA OtherEnds ==
    ASSUME NEW q, NEW h, NEW granted, q.stage # "access", q.status # 403
    PROVE  Treated(q, h, granted)
BY DEF Treated

(* So does every step that answers something else.                         *)
LEMMA AnswerTreated ==
    ASSUME AllBounded, AllTreated, NEW r \in Request, NEW status, status # 403, Answer(r, status),
           held' = held, steadyGrants' = steadyGrants
    PROVE  AllTreated'
<1> DEFINE q == [requests[r] EXCEPT !.stage = "done", !.status = status]
<1>1. q.stage = "done" /\ q.status = status BY DEF AllBounded, Bounded, Fields
<1>2. Treated(q, held[r], steadyGrants) BY <1>1, OtherEnds
<1>3. Become(r, q) BY DEF Answer
<1> QED BY <1>2, <1>3, OneRequestTreated

(* A refusal of a request that is entitled to nothing.                     *)
LEMMA RefusedTreated ==
    ASSUME AllBounded, AllTreated, NEW r \in Request, Answer(r, 403),
           \A b \in AllowedBuckets : ~Entitles(requests[r], held[r], steadyGrants, b),
           held' = held, steadyGrants' = steadyGrants
    PROVE  AllTreated'
<1> DEFINE q == [requests[r] EXCEPT !.stage = "done", !.status = 403]
<1>1. q.role = requests[r].role /\ q.call = requests[r].call BY DEF AllBounded, Bounded, Fields
<1>2. Become(r, q) BY DEF Answer
<1> HIDE DEF q
<1>3. ASSUME NEW b \in AllowedBuckets, Entitles(q, held[r], steadyGrants, b) PROVE FALSE
  <2>1. Rights(q, held[r]) = Rights(requests[r], held[r]) BY <1>1 DEF Rights
  <2>2. Entitles(requests[r], held[r], steadyGrants, b) BY <1>1, <1>3, <2>1 DEF Entitles
  <2> QED BY <2>2
<1>4. Treated(q, held[r], steadyGrants) BY <1>3 DEF Treated
<1> QED BY <1>2, <1>4, OneRequestTreated

(* The first reading chooses the bucket the account is entitled to, and    *)
(* refuses none that is.                                                   *)
LEMMA LoadTreated ==
    ASSUME Complete, AllTreated, NEW r \in Request, LoadPermissions(r)
    PROVE  AllTreated'
<1> DEFINE q == requests[r]
           rows == Rows(q.role)
           entitled(b) == Entitles(q, held[r], steadyGrants, b)
<1>1. /\ AllBounded /\ Bounded(q, held[r]) /\ q.stage = "permissions" /\ grants \subseteq held[r]
      /\ steadyGrants \subseteq grants /\ held' = held /\ steadyGrants' = steadyGrants
  BY DEF Complete, WorldOK, AllBounded, LoadPermissions, At, history
<1>2. rows \subseteq Rights(q, held[r]) BY <1>1 DEF Rows, Rights
<1>3. ASSUME NEW b \in AllowedBuckets, entitled(b)
      PROVE  \E p \in rows : p.bucket = b
  BY <1>1, <1>3, EntitledByRow DEF Rows
<1>4. ASSUME NEW b \in AllowedBuckets, entitled(b)
      PROVE  /\ ~BucketRefused(rows, q.call.bucket)
             /\ \A c \in Buckets(q.role, rows, q.call.bucket) : c = b
  <2>1. PICK p \in rows : p.bucket = b BY <1>3, <1>4
  <2>2. CASE q.call.bucket # NoBucket
    <3>1. q.call.bucket = b BY <1>4, <2>2 DEF Entitles
    <3> QED BY <2>1, <2>2, <3>1 DEF BucketRefused, Buckets
  <2>3. CASE q.call.bucket = NoBucket
    <3>1. q.call.bucket = b \/ \A x \in Rights(q, held[r]) : x.bucket = b BY <1>4 DEF Entitles
    <3>2. \A x \in Rights(q, held[r]) : x.bucket = b
      BY <2>3, <3>1, InputAssumption, BucketAssumption
    <3>3. \A x \in rows : x.bucket = b BY <1>2, <3>2
    <3>4. ~BucketRefused(rows, q.call.bucket) BY <2>3 DEF BucketRefused
    <3>5. CASE q.role = "ADMIN"
      <4>1. [bucket |-> FirstBucket, prefix |-> <<>>] \in rows
        BY <3>5, LimitAssumption DEF Rows, AdminRows
      <4>2. FirstBucket = b BY <3>3, <4>1
      <4> QED BY <2>3, <3>4, <3>5, <4>2 DEF Buckets
    <3>6. CASE q.role # "ADMIN"
      <4>1. rows # {} BY <2>1
      <4>2. Buckets(q.role, rows, q.call.bucket) = {x.bucket : x \in rows}
        BY <2>3, <3>6, <4>1 DEF Buckets
      <4> QED BY <3>3, <3>4, <4>2
    <3> QED BY <3>5, <3>6
  <2> QED BY <2>2, <2>3
<1>5. CASE Answer(r, 200) BY <1>1, <1>5, AnswerTreated
<1>6. CASE Answer(r, 400) BY <1>1, <1>6, AnswerTreated
<1>7. CASE BucketRefused(rows, q.call.bucket) /\ Answer(r, 403)
  BY <1>1, <1>4, <1>7, RefusedTreated
<1> DEFINE chosen(b) == [q EXCEPT !.stage = "access", !.rows = rows, !.bucket = b]
           nothing == q.call.kind # "download" /\ rows = {}
           wrongFolder(b) == CursorRefused(q.cursor, b, q.call.path)
<1>8. CASE \E c \in Buckets(q.role, rows, q.call.bucket) :
              c \notin AllowedBuckets /\ Answer(r, 403)
  <2>1. \A b \in AllowedBuckets : ~entitled(b) BY <1>4, <1>8
  <2> QED BY <1>1, <1>8, <2>1, RefusedTreated
<1>9. CASE \E c \in Buckets(q.role, rows, q.call.bucket) : Become(r, chosen(c))
  <2> PICK c \in Buckets(q.role, rows, q.call.bucket) : Become(r, chosen(c)) BY <1>9
  <2> DEFINE p == chosen(c)
  <2>1. q.status = 0 BY <1>1 DEF Bounded, Given
  <2>2. p.status = 0 /\ p.bucket = c /\ p.role = q.role /\ p.call = q.call
    BY <1>1, <2>1 DEF Bounded, Fields
  <2>3. Become(r, p) OBVIOUS
  <2> HIDE DEF p
  <2>4. ASSUME NEW b \in AllowedBuckets, Entitles(p, held[r], steadyGrants, b) PROVE c = b
    <3>1. Rights(p, held[r]) = Rights(q, held[r]) BY <2>2 DEF Rights
    <3>2. entitled(b) BY <2>2, <2>4, <3>1 DEF Entitles
    <3> QED BY <1>4, <3>2
  <2>5. Treated(p, held[r], steadyGrants) BY <2>2, <2>4 DEF Treated
  <2> QED BY <1>1, <2>3, <2>5, OneRequestTreated
<1>10. \/ nothing /\ Answer(r, 200)
       \/ ~nothing /\ BucketRefused(rows, q.call.bucket) /\ Answer(r, 403)
       \/ \E b \in Buckets(q.role, rows, q.call.bucket) :
             \/ wrongFolder(b) /\ Answer(r, 400)
             \/ ~wrongFolder(b) /\ b \notin AllowedBuckets /\ Answer(r, 403)
             \/ ~wrongFolder(b) /\ b \in AllowedBuckets /\ Become(r, chosen(b))
  BY Zenon DEF LoadPermissions
<1>11. \/ Answer(r, 200) \/ Answer(r, 400)
       \/ BucketRefused(rows, q.call.bucket) /\ Answer(r, 403)
       \/ \E c \in Buckets(q.role, rows, q.call.bucket) : c \notin AllowedBuckets /\ Answer(r, 403)
       \/ \E c \in Buckets(q.role, rows, q.call.bucket) : Become(r, chosen(c))
  <2> HIDE DEF nothing, wrongFolder, rows, chosen
  <2> QED BY <1>10
<1> QED BY <1>5, <1>6, <1>7, <1>8, <1>9, <1>11, Zenon

(* The second reading finds what has been granted all along.               *)
LEMMA CheckTreated ==
    ASSUME Complete, AllTreated, NEW r \in Request, CheckAccess(r)
    PROVE  AllTreated'
<1> DEFINE q == requests[r]
           rows == Rows(q.role)
           granted == IF q.call.kind = "download" THEN CanAccess(rows, q.bucket, Parsed(q.call.path))
                                                  ELSE CanList(rows, q.bucket, q.call.path)
           search == [q EXCEPT !.stage = "search",
                               !.roots = SearchRoots(q.rows, q.bucket, q.call.path)]
<1>1. /\ AllBounded /\ Bounded(q, held[r]) /\ q.stage = "access"
      /\ steadyGrants \subseteq grants /\ held' = held /\ steadyGrants' = steadyGrants
      /\ Treated(q, held[r], steadyGrants)
  BY DEF Complete, WorldOK, AllBounded, AllTreated, CheckAccess, At, history
<1>2. q.status = 0 BY <1>1 DEF Bounded, Given
<1>3. CASE ~granted /\ Answer(r, 403)
  <2>1. ASSUME NEW b \in AllowedBuckets, Entitles(q, held[r], steadyGrants, b) PROVE FALSE
    <3> DEFINE steady == IF q.role = "ADMIN" THEN AdminRows ELSE steadyGrants
    <3>1. q.bucket = b BY <1>1, <2>1 DEF Treated
    <3>2. steady \subseteq rows BY <1>1 DEF Rows
    <3>3. IF q.call.kind = "download" THEN CanAccess(steady, b, Parsed(q.call.path))
                                      ELSE CanList(steady, b, q.call.path)
      BY <2>1 DEF Entitles
    <3> HIDE DEF steady, rows
    <3> QED BY <1>3, <3>1, <3>2, <3>3, MoreRows
  <2> QED BY <1>1, <1>3, <2>1, RefusedTreated
<1>4. CASE \E stage \in {"log", "list"} : Become(r, [q EXCEPT !.stage = stage])
  <2> PICK stage \in {"log", "list"} : Become(r, [q EXCEPT !.stage = stage]) BY <1>4
  <2> DEFINE p == [q EXCEPT !.stage = stage]
  <2>1. p.stage # "access" /\ p.status # 403 BY <1>1, <1>2 DEF Bounded, Fields
  <2>2. Treated(p, held[r], steadyGrants) BY <2>1, OtherEnds
  <2> QED BY <1>1, <2>2, OneRequestTreated
<1>5. CASE Become(r, search)
  <2>1. search.stage # "access" /\ search.status # 403 BY <1>1, <1>2 DEF Bounded, Fields
  <2>2. Treated(search, held[r], steadyGrants) BY <2>1, OtherEnds
  <2> QED BY <1>1, <1>5, <2>2, OneRequestTreated
<1>6. \/ ~granted /\ Answer(r, 403)
      \/ Become(r, [q EXCEPT !.stage = "log"])
      \/ Become(r, [q EXCEPT !.stage = "list"])
      \/ Become(r, search)
  BY Zenon DEF CheckAccess, Goto, Kind, Path
<1> QED BY <1>3, <1>4, <1>5, <1>6

(* From there on no answer is 403.                                         *)
LEMMA LaterTreated ==
    ASSUME Complete, AllTreated, NEW r \in Request,
           ListPage(r) \/ SearchStorage(r) \/ Log(r) \/ Fail(r)
    PROVE  AllTreated'
<1> DEFINE q == requests[r]
<1>1. /\ AllBounded /\ Bounded(q, held[r]) /\ q.stage \notin {"idle", "done"}
      /\ held' = held /\ steadyGrants' = steadyGrants
  BY DEF Complete, AllBounded, ListPage, SearchStorage, Log, Fail, At, history
<1>2. q.status = 0 BY <1>1 DEF Bounded, Given
<1>3. CASE Log(r) \/ Fail(r) BY <1>1, <1>3, AnswerTreated DEF Log, Fail
<1>6. CASE Answer(r, 500) BY <1>1, <1>6, AnswerTreated
<1>4. CASE ListPage(r) /\ ~Answer(r, 500)
  <2>1. \E page, next : Become(r, [q EXCEPT !.stage = "log", !.page = page, !.next = next])
    BY <1>4, Zenon DEF ListPage
  <2> PICK page, next : Become(r, [q EXCEPT !.stage = "log", !.page = page, !.next = next])
    BY <2>1
  <2> DEFINE p == [q EXCEPT !.stage = "log", !.page = page, !.next = next]
  <2>2. p.stage # "access" /\ p.status # 403 BY <1>1, <1>2 DEF Bounded, Fields
  <2>3. Treated(p, held[r], steadyGrants) BY <2>2, OtherEnds
  <2> QED BY <1>1, <2>3, OneRequestTreated
<1>5. CASE SearchStorage(r)
  <2>1. q.stage = "search" BY <1>5 DEF SearchStorage, At
  <2> PICK root : SearchOn(r, root) BY <1>5 DEF SearchStorage
  <2> DEFINE all == KeysBelow(q.bucket, root, q.after)
             some == First(all, SearchPage)
             kept == Kept(SearchHits(q, some), q.count)
             found == [q EXCEPT !.page = @ \cup kept, !.count = @ + Cardinality(kept),
                                !.root = root]
             on == [found EXCEPT !.after = LastOf(some)]
             next == [found EXCEPT !.after = NoToken, !.roots = @ \ {root},
                          !.stage = IF q.roots = {root} THEN "log" ELSE "search"]
  <2>2. Become(r, on) \/ Become(r, next) BY Zenon DEF SearchOn
  <2> HIDE DEF kept, some
  <2>3. on.stage # "access" /\ on.status # 403 BY <1>1, <1>2, <2>1 DEF Bounded, Fields
  <2>4. next.stage # "access" /\ next.status # 403 BY <1>1, <1>2 DEF Bounded, Fields
  <2> HIDE DEF on, next
  <2> QED BY <1>1, <2>2, <2>3, <2>4, OtherEnds, OneRequestTreated
<1> QED BY <1>3, <1>4, <1>5, <1>6

(* A request has not been refused when it arrives,                         *)
LEMMA ArriveTreated ==
    ASSUME Complete, AllTreated, NEW r \in Request, Arrive(r)
    PROVE  AllTreated'
<1>1. AllBounded /\ Bounded(requests[r], held[r]) /\ requests[r].stage = "idle"
  BY DEF Complete, AllBounded, Arrive, At
<1>2. requests[r].status = 0 /\ requests[r] = [f \in Fields |-> requests[r][f]]
  BY <1>1 DEF Bounded, Given
<1>3. PICK c, role, cursor :
          Become(r, Misnamed(r, c, role, cursor)) \/ Become(r, Begun(r, c, role, cursor))
  BY ArriveBecomes, Zenon
<1> DEFINE refused == Misnamed(r, c, role, cursor)
           begun == Begun(r, c, role, cursor)
<1>4. refused.stage # "access" /\ refused.status # 403 BY <1>2, ArrivalFields
<1>5. begun.stage # "access" /\ begun.status # 403 BY <1>2, ArrivalFields
<1>6. Become(r, refused) \/ Become(r, begun) BY <1>3, Zenon
<1> HIDE DEF refused, begun
<1> PICK q : Become(r, q) /\ q.stage # "access" /\ q.status # 403 BY <1>4, <1>5, <1>6
<1>7. requests' = [x \in Request |-> IF x = r THEN q ELSE requests[x]]
  BY <1>1 DEF AllBounded, Become
<1>8. held' = [x \in Request |-> IF x = r THEN grants ELSE held[x]] /\ steadyGrants' = steadyGrants
  BY <1>1 DEF AllBounded, Arrive
<1>9. \A h : Treated(q, h, steadyGrants) BY OtherEnds
<1>10. \A x \in Request : Treated(requests'[x], held'[x], steadyGrants')
  BY <1>7, <1>8, <1>9 DEF AllTreated
<1> QED BY <1>10 DEF AllTreated

(* and granting or revoking entitles nobody to more.                       *)
LEMMA OthersTreated ==
    ASSUME Complete, AllTreated,
           \/ \E p \in Grantable : Grant(p) \/ Revoke(p)
           \/ \E o \in Passing : Put(o) \/ Drop(o)
           \/ UNCHANGED vars
    PROVE  AllTreated'
<1>1. requests' = requests /\ steadyGrants' \subseteq steadyGrants
  BY DEF Grant, Revoke, Put, Drop, history, vars
<1>2. \A r \in Request : held[r] \subseteq held'[r]
  <2>1. CASE \E p \in Grantable : Grant(p)
    <3> PICK p \in Grantable : Grant(p) BY <2>1
    <3>1. held' = [r \in Request |-> IF At(r, "done") THEN held[r] ELSE held[r] \cup {p}]
      BY DEF Grant
    <3> QED BY <3>1
  <2>2. CASE held' = held BY <2>2
  <2> QED BY <2>1, <2>2 DEF Revoke, Put, Drop, history, vars
<1>3. \A r \in Request : Treated(requests'[r], held'[r], steadyGrants')
  BY <1>1, <1>2, EntitledToLess DEF AllTreated
<1> QED BY <1>3 DEF AllTreated

(* Nobody is answered 403 for what rows held all along permit, whatever is *)
(* granted and revoked between the two readings of the permissions.        *)
THEOREM NoEntitledRefused == Spec => []EntitledNotForbidden
<1>1. Init => AllTreated
  <2> SUFFICES ASSUME Init, NEW r \in Request PROVE Treated(requests[r], held[r], steadyGrants)
    BY DEF AllTreated
  <2>1. requests[r].stage # "access" /\ requests[r].status # 403 BY DEF Init, IdleRequest
  <2> QED BY <2>1, OtherEnds
<1>2. Complete /\ AllTreated /\ [Next]_vars => AllTreated'
  BY ArriveTreated, LoadTreated, CheckTreated, LaterTreated, OthersTreated DEF Next, Step
<1>3. AllTreated => EntitledNotForbidden
  <2> SUFFICES ASSUME AllTreated, NEW r \in Request, NEW b \in AllowedBuckets, Entitled(r, b)
               PROVE  requests[r].status # 403
    BY DEF EntitledNotForbidden
  <2>1. Entitles(requests[r], held[r], steadyGrants, b)
    BY Zenon DEF Entitled, Entitles, Rights, Kind, Path
  <2> QED BY <2>1 DEF AllTreated, Treated
<1> QED BY <1>1, <1>2, <1>3, Completeness, PTL DEF Spec
=============================================================================
