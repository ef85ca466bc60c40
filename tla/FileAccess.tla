----------------------------- MODULE FileAccess -----------------------------
(***************************************************************************)
(* The file routes of the API: listing a folder page by page, searching    *)
(* below it, and creating a download URL, for one account, while           *)
(* administrators grant and revoke its permissions and the contents of     *)
(* the buckets change.                                                     *)
(*                                                                         *)
(* As in Portal a step is an await with the code up to the next one.       *)
(* S3Service reads the permissions twice: the first reading chooses the    *)
(* bucket and filters what the storage answers, the second decides whether *)
(* the folder or the object is accessible at all.                          *)
(***************************************************************************)
EXTENDS AccessRules, FiniteSets

CONSTANTS
    Request, Calls, NoCall, NoBucket,
    Roles,            \* the roles the account may have when a request arrives
    FirstBucket,      \* config.allowedBuckets[0]
    MaxKeys,          \* entries in a page of a listing: 200
    SearchPage,       \* keys in a page of a search: 1000
    SearchCap,        \* matches after which a search stops: 200
    Needle, Matches,  \* search terms, and the keys whose text contains them
    NoCursor, Forged, \* no cursor, and one that bears no valid signature
    Dotted,           \* the names with ".." in them
    InitGrants, InitStore,
    Grantable,        \* permissions that come and go
    Passing           \* objects that come and go

ASSUME LimitAssumption ==
    /\ MaxKeys \in Nat \ {0} /\ SearchPage \in Nat \ {0} /\ SearchCap \in Nat \ {0}
    /\ FirstBucket \in AllowedBuckets /\ Roles \subseteq {"ADMIN", "VIEWER"}

Call == [kind: {"list", "search", "download"}, bucket: Bucket \cup {NoBucket},
         path: Prefix \cup Key, needle: Needle]

Object == Bucket \X Key

ASSUME InputAssumption ==
    /\ Calls \subseteq Call /\ NoCall \notin Calls /\ NoBucket \notin Bucket
    /\ \A c \in Calls : c.path \in (IF c.kind = "download" THEN Key ELSE Prefix)
    /\ Matches \in [Needle -> SUBSET Key]
    /\ InitGrants \subseteq Permission /\ Grantable \subseteq Permission
    /\ InitStore \subseteq Object /\ Passing \subseteq Object

\* s3PrefixSchema and normalizeKey refuse a text with such a name in it.
ASSUME DottedAssumption ==
    /\ \A p \in Prefix : \A i \in 1..Len(p) : p[i] \notin Dotted
    /\ \A k \in Key : (\E i \in 1..Len(k) : k[i] \in Dotted) =>
          k \in DOMAIN Odd /\ Odd[k] = NoKey

ASSUME FinitenessAssumption ==
    IsFiniteSet(InitStore) /\ IsFiniteSet(InitGrants) /\ IsFiniteSet(AllowedBuckets)

VARIABLES
    grants,     \* the account's rows in s3_permissions
    store,      \* the objects in the buckets
    cursors,    \* the cursors handed out
    requests,
    \* history variables
    held,       \* for each request, the rows held at some time since it arrived
    steadyGrants, steadyStore   \* what has been granted, stored all along

vars == <<grants, store, cursors, requests, held, steadyGrants, steadyStore>>
history == <<held, steadyGrants, steadyStore>>

-----------------------------------------------------------------------------
(* The listing order, and cursors.                                         *)

Less(s, t) ==
    \/ Len(s) < Len(t) /\ Under(t, s)
    \/ \E i \in 1..Len(s) \cap 1..Len(t) :
          s[i] < t[i] /\ \A j \in 1..(i - 1) : s[j] = t[j]

First(S, n) == {e \in S : Cardinality({f \in S : Less(f, e)}) < n}

LastOf(S) == CHOOSE e \in S : \A f \in S : f = e \/ Less(f, e)

\* A continuation token is the last entry of the page before.
NoToken == <<>>

\* "shown" is no part of a cursor: it remembers what the pages up to here showed.
Cursor(bucket, prefix, after, shown) ==
    [bucket |-> bucket, prefix |-> prefix, after |-> after, shown |-> shown]

\* decodeCursor: the signature, then the folder the cursor was made for.
CursorRefused(cursor, bucket, prefix) ==
    /\ cursor # NoCursor
    /\ ~(cursor # Forged /\ cursor.bucket = bucket /\ cursor.prefix = prefix)

-----------------------------------------------------------------------------
(* Requests.                                                               *)

IdleRequest ==
    [stage |-> "idle", call |-> NoCall, role |-> "VIEWER", cursor |-> NoCursor, rows |-> {},
     bucket |-> NoBucket, root |-> <<>>, roots |-> {}, after |-> NoToken, page |-> {},
     count |-> 0, next |-> NoToken, status |-> 0]

At(r, stage) == requests[r].stage = stage
Kind(r) == requests[r].call.kind
Path(r) == requests[r].call.path

Become(r, q) == requests' = [requests EXCEPT ![r] = q]

Goto(r, stage) == Become(r, [requests[r] EXCEPT !.stage = stage])

Answer(r, status) == Become(r, [requests[r] EXCEPT !.stage = "done", !.status = status])

\* resolveAccessiblePermissions.
AdminRows == {[bucket |-> b, prefix |-> <<>>] : b \in AllowedBuckets}

Rows(role) == IF role = "ADMIN" THEN AdminRows ELSE grants

Init ==
    /\ grants = InitGrants
    /\ store = InitStore
    /\ cursors = {}
    /\ requests = [r \in Request |-> IdleRequest]
    /\ held = [r \in Request |-> {}]
    /\ steadyGrants = InitGrants
    /\ steadyStore = InitStore

Untouched == UNCHANGED <<grants, store, cursors>>

\* An authenticated request.  A download parses its key; a listing or a
\* search may bring a cursor that was handed out, or one that never was.
Arrive(r) ==
    /\ At(r, "idle")
    /\ \E c \in Calls, role \in Roles, cursor \in cursors \cup {NoCursor, Forged} :
          LET q == [requests[r] EXCEPT !.call = c, !.role = role, !.cursor = cursor]
          IN  /\ c.kind = "download" => cursor = NoCursor
              /\ IF c.kind = "download" /\ Parsed(c.path) = NoKey
                 THEN Become(r, [q EXCEPT !.stage = "done", !.status = 400])
                 ELSE Become(r, [q EXCEPT !.stage = "permissions"])
    /\ held' = [held EXCEPT ![r] = grants]
    /\ Untouched /\ UNCHANGED <<steadyGrants, steadyStore>>

-----------------------------------------------------------------------------
(* Which bucket, and whether the folder or the object is accessible.       *)

(* Mutant of BucketRefused: every row has to be in the bucket asked for. *)
MutantBucketRefused(rows, requested) ==
    /\ requested # NoBucket
    /\ requested \notin AllowedBuckets \/ \E p \in rows : p.bucket # requested

\* resolveDefaultBucket.  The order of an account's rows is the database's.
BucketRefused(rows, requested) ==
    /\ requested # NoBucket
    /\ requested \notin AllowedBuckets \/ \A p \in rows : p.bucket # requested

Buckets(role, rows, requested) ==
    CASE requested # NoBucket -> {requested}
      [] requested = NoBucket /\ (role = "ADMIN" \/ rows = {}) -> {FirstBucket}
      [] OTHER -> {p.bucket : p \in rows}

LoadPermissions(r) ==
    /\ At(r, "permissions")
    /\ LET c == requests[r].call
           rows == Rows(requests[r].role)
           nothing == c.kind # "download" /\ rows = {}
       IN  \/ nothing /\ Answer(r, 200)
           \/ ~nothing /\ BucketRefused(rows, c.bucket) /\ Answer(r, 403)
           \/ /\ ~nothing /\ ~BucketRefused(rows, c.bucket)
              /\ \E b \in Buckets(requests[r].role, rows, c.bucket) :
                    LET wrongFolder == CursorRefused(requests[r].cursor, b, c.path)
                    IN  \/ wrongFolder /\ Answer(r, 400)
                        \/ ~wrongFolder /\ b \notin AllowedBuckets /\ Answer(r, 403)
                        \/ /\ ~wrongFolder /\ b \in AllowedBuckets
                           /\ Become(r, [requests[r] EXCEPT
                                  !.stage = "access", !.rows = rows, !.bucket = b])
    /\ Untouched /\ UNCHANGED history

\* requirePrefixAccess and requireObjectAccess, on permissions read anew.
CheckAccess(r) ==
    /\ At(r, "access")
    /\ LET q == requests[r]
           rows == Rows(q.role)
           granted == IF Kind(r) = "download" THEN CanAccess(rows, q.bucket, Parsed(Path(r)))
                                              ELSE CanList(rows, q.bucket, Path(r))
       IN  \/ ~granted /\ Answer(r, 403)
           \/ granted /\ Kind(r) = "download" /\ Goto(r, "log")
           \/ granted /\ Kind(r) = "list" /\ Goto(r, "list")
           \/ /\ granted /\ Kind(r) = "search"
              /\ Become(r, [q EXCEPT !.stage = "search",
                                     !.roots = SearchRoots(q.rows, q.bucket, Path(r))])
    /\ Untouched /\ UNCHANGED history

-----------------------------------------------------------------------------
(* The storage.                                                            *)

\* What ListObjectsV2 has to answer from a token on, by folder or by key.
Entries(bucket, prefix, after) ==
    {e \in {Entry(prefix, o[2]) : o \in {x \in store : x[1] = bucket /\ Below(prefix, x[2])}} :
        Less(after, e)}

KeysBelow(bucket, prefix, after) ==
    {k \in Key : <<bucket, k>> \in store /\ Below(prefix, k) /\ Less(after, k)}

\* folderNameFromPrefix throws on a folder with such a name, and it is called for
\* every folder of a page before any is filtered out.
Unnameable(prefix, page) ==
    \E e \in page : IsFolder(prefix, e) /\ e[Len(prefix) + 1] \in Dotted

(* Mutant of ListPage: a page without anything to show ends the listing. *)
MutantListPage(r) ==
    /\ At(r, "list")
    /\ LET q == requests[r]
           after == IF q.cursor = NoCursor THEN NoToken ELSE q.cursor.after
           all == Entries(q.bucket, Path(r), after)
           some == First(all, MaxKeys)
           seen == {e \in some : Shown(q.rows, q.bucket, Path(r), e)}
       IN  \/ Unnameable(Path(r), some) /\ Answer(r, 500)
           \/ /\ ~Unnameable(Path(r), some)
              /\ Become(r, [q EXCEPT
                     !.stage = "log", !.page = seen,
                     !.next = IF some = all \/ seen = {} THEN NoToken ELSE LastOf(some)])
    /\ Untouched /\ UNCHANGED history

\* One page of a folder, filtered after it was cut off.
ListPage(r) ==
    /\ At(r, "list")
    /\ LET q == requests[r]
           after == IF q.cursor = NoCursor THEN NoToken ELSE q.cursor.after
           all == Entries(q.bucket, Path(r), after)
           some == First(all, MaxKeys)
       IN  \/ Unnameable(Path(r), some) /\ Answer(r, 500)
           \/ /\ ~Unnameable(Path(r), some)
              /\ Become(r, [q EXCEPT
                     !.stage = "log", !.page = {e \in some : Shown(q.rows, q.bucket, Path(r), e)},
                     !.next = IF some = all THEN NoToken ELSE LastOf(some)])
    /\ Untouched /\ UNCHANGED history

\* Of the keys in a page that match, those that are kept: up to the cap, and
\* one more for each further root once it is reached.
Kept(matching, count) ==
    First(matching, IF count < SearchCap THEN SearchCap - count ELSE 1)

SearchHits(q, keys) ==
    {k \in keys : /\ k[Len(k)] # Empty
                  /\ CanAccess(q.rows, q.bucket, k)
                  /\ k \in Matches[q.call.needle]}

(* Mutant of MoreOf: a root is left after its first page. *)
MutantMoreOf(some, all, count) == FALSE

\* Whether a root has a page to go on with.
MoreOf(some, all, count) == some # all /\ count < SearchCap

(* Mutant of SearchOn: the next root starts at the token of the one before. *)
MutantSearchOn(r, root) ==
    LET q == requests[r]
        all == KeysBelow(q.bucket, root, q.after)
        some == First(all, SearchPage)
        kept == Kept(SearchHits(q, some), q.count)
        found == [q EXCEPT !.page = @ \cup kept, !.count = @ + Cardinality(kept), !.root = root]
    IN  IF MoreOf(some, all, found.count)
        THEN Become(r, [found EXCEPT !.after = LastOf(some)])
        ELSE Become(r, [found EXCEPT !.roots = @ \ {root},
                                     !.stage = IF q.roots = {root} THEN "log" ELSE "search"])

\* A page of a root: the next page of the same root comes next if there is one
\* and the cap is not reached, and otherwise the next root.
SearchOn(r, root) ==
    LET q == requests[r]
        all == KeysBelow(q.bucket, root, q.after)
        some == First(all, SearchPage)
        kept == Kept(SearchHits(q, some), q.count)
        found == [q EXCEPT !.page = @ \cup kept, !.count = @ + Cardinality(kept), !.root = root]
    IN  IF MoreOf(some, all, found.count)
        THEN Become(r, [found EXCEPT !.after = LastOf(some)])
        ELSE Become(r, [found EXCEPT !.after = NoToken, !.roots = @ \ {root},
                                     !.stage = IF q.roots = {root} THEN "log" ELSE "search"])

SearchStorage(r) ==
    /\ At(r, "search")
    /\ \E root \in requests[r].roots :
          /\ requests[r].after # NoToken => root = requests[r].root
          /\ SearchOn(r, root)
    /\ Untouched /\ UNCHANGED history

\* The audit row; after it the answer goes out, with a cursor or a URL.
Log(r) ==
    /\ At(r, "log")
    /\ Answer(r, 200)
    /\ LET q == requests[r]
           before == IF q.cursor = NoCursor THEN {} ELSE q.cursor.shown
       IN  cursors' = IF q.next = NoToken THEN cursors
                      ELSE cursors \cup {Cursor(q.bucket, Path(r), q.next, before \cup q.page)}
    /\ UNCHANGED <<grants, store>> /\ UNCHANGED history

Fail(r) ==
    /\ requests[r].stage \notin {"idle", "done"}
    /\ Answer(r, 500)
    /\ Untouched /\ UNCHANGED history

-----------------------------------------------------------------------------
(* What happens meanwhile.                                                 *)

Grant(p) ==
    /\ grants' = grants \cup {p}
    /\ held' = [r \in Request |-> IF At(r, "done") THEN held[r] ELSE held[r] \cup {p}]
    /\ UNCHANGED <<store, cursors, requests, steadyGrants, steadyStore>>

Revoke(p) ==
    /\ grants' = grants \ {p}
    /\ steadyGrants' = steadyGrants \ {p}
    /\ UNCHANGED <<store, cursors, requests, held, steadyStore>>

\* Objects are put and deleted by others: the portal only reads the buckets.
Put(o) ==
    /\ store' = store \cup {o}
    /\ UNCHANGED <<grants, cursors, requests>> /\ UNCHANGED history

Drop(o) ==
    /\ store' = store \ {o}
    /\ steadyStore' = steadyStore \ {o}
    /\ UNCHANGED <<grants, cursors, requests, held, steadyGrants>>

Step(r) == LoadPermissions(r) \/ CheckAccess(r) \/ ListPage(r) \/ SearchStorage(r) \/ Log(r)

Next ==
    \/ \E r \in Request : Arrive(r) \/ Step(r) \/ Fail(r)
    \/ \E p \in Grantable : Grant(p) \/ Revoke(p)
    \/ \E o \in Passing : Put(o) \/ Drop(o)

Spec == Init /\ [][Next]_vars

-----------------------------------------------------------------------------
(* Properties.                                                             *)

TypeOK ==
    /\ grants \subseteq Permission
    /\ store \subseteq Object
    /\ \A r \in Request :
          LET q == requests[r]
          IN  /\ DOMAIN q = DOMAIN IdleRequest
              /\ q.call \in Calls \cup {NoCall} /\ q.bucket \in Bucket \cup {NoBucket}
              /\ q.rows \subseteq Permission /\ q.count \in Nat
              /\ At(r, "idle") <=> q.call = NoCall
              /\ q.next # NoToken => Kind(r) = "list" /\ Less(NoToken, q.next)
              /\ q.after # NoToken => At(r, "search") \/ q.status = 500
    /\ held \in [Request -> SUBSET Permission]
    /\ steadyGrants \subseteq grants /\ steadyStore \subseteq store

Answered(r, kind) == requests[r].status = 200 /\ Kind(r) = kind

\* Whatever is granted, revoked, put or deleted while a request runs, and
\* although it reads the permissions twice: each file and folder in its answer,
\* and the object its URL is for, is in a configured bucket and within rows the
\* account has held at some time since the request arrived.
NothingBeyondGrants ==
    \A r \in Request :
        LET q == requests[r]
            rights == IF q.role = "ADMIN" THEN AdminRows ELSE held[r]
        IN  /\ Answered(r, "download") =>
                  q.bucket \in AllowedBuckets /\ CanAccess(rights, q.bucket, Parsed(Path(r)))
            /\ Answered(r, "list") => \A e \in q.page :
                  /\ q.bucket \in AllowedBuckets
                  /\ IF IsFolder(Path(r), e) THEN CanList(rights, q.bucket, FolderOf(e))
                                             ELSE CanAccess(rights, q.bucket, e)
            /\ Answered(r, "search") => \A k \in q.page :
                  q.bucket \in AllowedBuckets /\ CanAccess(rights, q.bucket, k)

\* What r asks for lies in bucket b, one it names or, if it names none, the only
\* one its account has had rows in; and rows held all along permit it.
Entitled(r, b) ==
    LET q == requests[r]
        admin == q.role = "ADMIN"
        steady == IF admin THEN AdminRows ELSE steadyGrants
    IN  /\ b \in AllowedBuckets
        /\ \/ q.call.bucket = b
           \/ /\ q.call.bucket = NoBucket
              /\ \A p \in (IF admin THEN AdminRows ELSE held[r]) : p.bucket = b
        /\ IF Kind(r) = "download" THEN CanAccess(steady, b, Parsed(Path(r)))
                                   ELSE CanList(steady, b, Path(r))

\* Whatever is granted and revoked besides, between the reading that chooses the
\* bucket and the one that decides: nobody is forbidden what rows held all along
\* permit (resolveDefaultBucket, requirePrefixAccess, requireObjectAccess).
EntitledNotForbidden ==
    \A r \in Request : requests[r].status = 403 => \A b \in AllowedBuckets : ~Entitled(r, b)

\* Following cursors to the last page shows every entry once, and none is
\* missing that leads to an object stored, by a permission held, all along:
\* whatever else changes between the pages, and though pages are filtered after
\* they are cut off, so that some are empty (list, encodeCursor, decodeCursor).
PagesComplete ==
    \A r \in Request : Answered(r, "list") =>
        LET q == requests[r]
            before == IF q.cursor = NoCursor THEN {} ELSE q.cursor.shown
        IN  /\ before \cap q.page = {}
            /\ q.next = NoToken => \A o \in steadyStore :
                  LET e == Entry(Path(r), o[2])
                  IN  o[1] = q.bucket /\ Below(Path(r), o[2])
                      /\ Shown(steadyGrants, q.bucket, Path(r), e) => e \in before \cup q.page

\* A search that stays below its cap has found every matching object stored in
\* a permitted folder all along, however many roots and pages it went through;
\* and no search returns more than the cap and one for each further root.
SearchComplete ==
    \A r \in Request : Answered(r, "search") =>
        LET q == requests[r]
        IN  /\ q.count < SearchCap + Cardinality(q.rows)
            /\ q.count < SearchCap => \A o \in steadyStore :
                  /\ o[1] = q.bucket /\ Below(Path(r), o[2]) /\ o[2] \notin DOMAIN Odd
                  /\ o[2][Len(o[2])] # Empty /\ o[2] \in Matches[q.call.needle]
                  /\ \E p \in steadyGrants : p.bucket = q.bucket /\ Below(p.prefix, o[2])
                  => o[2] \in q.page

-----------------------------------------------------------------------------
(* What the repository says and the code does not do.  Each is refuted.    *)

\* "This folder is empty" (FilesPage.tsx:216): when the first page of a folder
\* is answered with nothing to show, no object the account can access all along
\* lies below it.
EmptyMeansEmpty ==
    \A r \in Request :
        Answered(r, "list") /\ requests[r].cursor = NoCursor /\ requests[r].page = {} =>
            \A o \in steadyStore :
                ~(/\ o[1] = requests[r].bucket /\ Below(Path(r), o[2])
                  /\ CanAccess(steadyGrants, o[1], o[2]) /\ o[2] # Marker(Path(r)))
=============================================================================
