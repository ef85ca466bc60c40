----------------------------- MODULE FileBrowser -----------------------------
(***************************************************************************)
(* FilesPage in a tab: the address names a bucket, a folder and a search   *)
(* term; the page keeps the term it searches for as well, lists what both  *)
(* say through the query cache, and leaves addresses without a bucket for  *)
(* the first root.                                                         *)
(*                                                                         *)
(* The router renders a new address in a transition: until then the        *)
(* buttons of the old rendering work, with what they were rendered with,   *)
(* while a change of the page's own state is rendered at once.             *)
(*                                                                         *)
(* What the API answers is FileAccess.  Here a listing is the question it  *)
(* answers, and a file is told by the bucket it was listed in.             *)
(***************************************************************************)
EXTENDS Naturals, SequencesExt

CONSTANTS
    Bucket, Prefix,    \* a prefix is the sequence of its names
    Term, NoTerm,      \* search terms, and none
    RootLists,         \* what /files/roots may answer
    Elsewhere,         \* the address of any other page
    Starts,            \* addresses the tab may be opened with
    MaxInputs,         \* bound: buttons pressed, links followed, steps in the history
    None, Sent         \* no bucket, no answer, no fetch; see QueryCache

Question == [bucket: Bucket, prefix: Prefix, search: Term \cup {NoTerm}]
Address == [bucket: Bucket \cup {None}, prefix: Prefix, search: Term \cup {NoTerm}]
Root == [bucket: Bucket, prefix: Prefix]

ASSUME FileBrowserAssumption ==
    /\ MaxInputs \in Nat /\ RootLists \subseteq Seq(Root)
    /\ Starts \subseteq Address \cup {Elsewhere}
    /\ None \notin Bucket \cup Question /\ Elsewhere \notin Address
    /\ Prefix \subseteq Seq(UNION {Range(p) : p \in Prefix}) /\ <<>> \in Prefix
    /\ \A p \in Prefix : p # <<>> => Front(p) \in Prefix

VARIABLES
    user,          \* the role and whether there are permissions, as me answered
    entries, at,   \* the history of the tab, and where in it the tab is
    rendered,      \* the address that is rendered
    active,        \* activeSearch
    due,           \* the effect that leaves an address without bucket has to run
    roots, lists,  \* the query cache
    downloads,     \* the mutations, in the order they were made
    moves,
    \* history variables
    strayed,       \* the address was changed without the search of the page
    outrun         \* an input came before the address was rendered

vars == <<user, entries, at, rendered, active, due, roots, lists, downloads,
          moves, strayed, outrun>>
tab == <<entries, at, rendered, active, due>>

INSTANCE QueryCache

-----------------------------------------------------------------------------
(* The router.                                                             *)

Here == entries[at]

To(bucket, prefix, search) == [bucket |-> bucket, prefix |-> prefix, search |-> search]

FilesHome == To(None, <<>>, NoTerm)

Push(address) ==
    /\ entries' = Append(SubSeq(entries, 1, at), address)
    /\ at' = at + 1

-----------------------------------------------------------------------------
(* The listing.                                                            *)

Asks(address, search) == To(address.bucket, address.prefix, search)

(* Mutant of QueryKey: the search is no part of it.                        *)
MutantQueryKey(question) == [question EXCEPT !.search = NoTerm]

\* ['files', bucket, prefix, activeSearch]
QueryKey(question) == question

\* enabled: Boolean(bucket)
Observed(address, search) ==
    IF address # Elsewhere /\ address.bucket # None THEN {Asks(address, search)} ELSE {}

AskedFor(query, question) ==
    IF Fetching(query) THEN query ELSE Served(Asked(query), question)

\* What is observed anew asks for its listing.
AskedIn(cache, now, before) ==
    LET keys(questions) == {QueryKey(q) : q \in questions}
    IN  [k \in Question |-> IF k \in keys(now) \ keys(before)
                            THEN AskedFor(cache[k], CHOOSE q \in now : TRUE) ELSE cache[k]]

Rerendered(address, search) ==
    /\ rendered' = address
    /\ active' = search
    /\ lists' = AskedIn(lists, Observed(address, search), Observed(rendered, active))

OnScreen == lists[QueryKey(Asks(rendered, active))]

-----------------------------------------------------------------------------
(* The page.                                                               *)

DownloadState ==
    [listed: Bucket, asked: Bucket, stage: {"sent", "opened", "failed"}, mine: BOOLEAN]

Init ==
    /\ user \in [role: {"ADMIN", "VIEWER"}, permissions: BOOLEAN]
    /\ \E address \in Starts :
          /\ entries = <<address>>
          /\ rendered = address
          /\ active = IF address = Elsewhere THEN NoTerm ELSE address.search
          /\ due = (address # Elsewhere)
          /\ roots = IF address = Elsewhere THEN NewQuery ELSE Asked(NewQuery)
          /\ lists = AskedIn([k \in Question |-> NewQuery], Observed(address, active), {})
    /\ at = 1
    /\ downloads = <<>>
    /\ moves = 0
    /\ strayed = FALSE /\ outrun = FALSE

Input ==
    /\ moves < MaxInputs /\ moves' = moves + 1
    /\ UNCHANGED user

Moves == Input /\ outrun' = (outrun \/ rendered # Here)

\* An address that leaves the search of the page alone.
Strays == strayed' = (strayed \/ active # NoTerm)

\* "No files available" takes the place of everything else.
Controls == rendered # Elsewhere /\ (user.permissions \/ user.role = "ADMIN")

KeepsPage == UNCHANGED <<rendered, active, due, roots, lists, downloads>>

RootsListed == IF roots.data = None THEN <<>> ELSE roots.data

OpenRoot(root) ==
    /\ Moves /\ Controls
    /\ root \in Range(RootsListed)
    /\ Push(To(root.bucket, root.prefix, NoTerm))
    /\ Strays /\ KeepsPage

Search(term) ==
    /\ Moves /\ Controls
    /\ Push([rendered EXCEPT !.search = term])
    /\ Rerendered(rendered, term)
    /\ strayed' = FALSE
    /\ UNCHANGED <<due, roots, downloads>>

Crumbs == {p \in Prefix : IsPrefix(p, rendered.prefix)}

\* A search finds no folders.
Folders ==
    IF rendered.bucket = None \/ OnScreen.data = None THEN {}
    ELSE {p \in Prefix : OnScreen.data.search = NoTerm /\ p # <<>> /\ Front(p) = OnScreen.data.prefix}

(* Mutant of OpenFolder: the search goes on in the folder.                 *)
MutantOpenFolder(prefix) ==
    /\ Moves /\ Controls
    /\ prefix \in Crumbs \cup Folders
    /\ Push(To(rendered.bucket, prefix, NoTerm))
    /\ strayed' = FALSE
    /\ KeepsPage

\* A crumb or a folder.
OpenFolder(prefix) ==
    /\ Moves /\ Controls
    /\ prefix \in Crumbs \cup Folders
    /\ Push(To(rendered.bucket, prefix, NoTerm))
    /\ Rerendered(rendered, NoTerm)
    /\ strayed' = FALSE
    /\ UNCHANGED <<due, roots, downloads>>

\* The button says Refresh.
Refresh ==
    /\ Moves /\ Controls
    /\ user.role = "VIEWER" /\ rendered.bucket = None
    /\ Push(FilesHome)
    /\ Strays /\ KeepsPage

\* The links of the layout.
Follow(address) ==
    /\ Moves
    /\ address # Here
    /\ Push(address)
    /\ Strays /\ KeepsPage

\* Back and forward.
Traverse(i) ==
    /\ Moves
    /\ i \in {at - 1, at + 1} \cap DOMAIN entries
    /\ at' = i
    /\ strayed' = TRUE
    /\ UNCHANGED entries /\ KeepsPage

(* Mutant of Left: a download belongs to the page that is gone.            *)
MutantLeft == downloads

Left == [d \in DOMAIN downloads |-> [downloads[d] EXCEPT !.mine = FALSE]]

(* Mutant of Render: the effect does not depend on the bucket.             *)
MutantRender ==
    /\ rendered # Here
    /\ LET mounts == rendered = Elsewhere
           leaves == Here = Elsewhere
       IN  /\ Rerendered(Here, CASE mounts -> Here.search [] leaves -> NoTerm [] OTHER -> active)
           /\ due' = (mounts \/ (due /\ ~leaves))
           /\ roots' = IF mounts THEN Mounted(roots) ELSE roots
           /\ downloads' = IF leaves THEN Left ELSE downloads
           /\ strayed' = (strayed /\ ~mounts /\ ~leaves)
    /\ outrun' = FALSE
    /\ UNCHANGED <<user, entries, at, moves>>

\* The address is rendered: FilesPage mounts, goes on, or goes away.
Render ==
    /\ rendered # Here
    /\ LET mounts == rendered = Elsewhere
           leaves == Here = Elsewhere
       IN  /\ Rerendered(Here, CASE mounts -> Here.search [] leaves -> NoTerm [] OTHER -> active)
           /\ due' = ~leaves
           /\ roots' = IF mounts THEN Mounted(roots) ELSE roots
           /\ downloads' = IF leaves THEN Left ELSE downloads
           /\ strayed' = (strayed /\ ~mounts /\ ~leaves)
    /\ outrun' = FALSE
    /\ UNCHANGED <<user, entries, at, moves>>

\* The effect of FilesPage.
Redirect ==
    /\ due
    /\ due' = FALSE
    /\ IF rendered.bucket = None /\ RootsListed # <<>>
       THEN /\ Push(To(RootsListed[1].bucket, RootsListed[1].prefix, NoTerm))
            /\ Strays
       ELSE UNCHANGED <<entries, at, strayed>>
    /\ UNCHANGED <<user, rendered, active, roots, lists, downloads, moves, outrun>>

Download ==
    /\ Input /\ Controls
    /\ rendered.bucket # None /\ OnScreen.data # None
    /\ \A d \in DOMAIN downloads : ~downloads[d].mine
    /\ downloads' = Append(downloads, [listed |-> OnScreen.data.bucket, asked |-> rendered.bucket,
                                       stage |-> "sent", mine |-> TRUE])
    /\ UNCHANGED tab /\ UNCHANGED <<roots, lists, strayed, outrun>>

-----------------------------------------------------------------------------
(* Answers.                                                                *)

(* Mutant of RootsArrive: the effect does not depend on the roots.         *)
MutantRootsArrive ==
    /\ Fetching(roots)
    /\ \E answer \in RootLists : roots' = Settled(Served(roots, answer))
    /\ UNCHANGED tab /\ UNCHANGED <<user, lists, downloads, moves, strayed, outrun>>

\* The effect depends on the roots: it runs again for others, not for the same.
RootsArrive ==
    /\ Fetching(roots)
    /\ \E answer \in RootLists :
          /\ roots' = Settled(Served(roots, answer))
          /\ due' = (due \/ (rendered # Elsewhere /\ answer # roots.data))
    /\ UNCHANGED <<user, entries, at, rendered, active, lists, downloads, moves, strayed, outrun>>

RootsFail ==
    /\ Fetching(roots)
    /\ roots' = Failed(roots)
    /\ UNCHANGED tab /\ UNCHANGED <<user, lists, downloads, moves, strayed, outrun>>

ListEnds(k) ==
    /\ Fetching(lists[k])
    /\ \E query \in {Settled(lists[k]), Failed(lists[k])} : lists' = [lists EXCEPT ![k] = query]
    /\ UNCHANGED tab /\ UNCHANGED <<user, roots, downloads, moves, strayed, outrun>>

\* A window opens, or nothing tells of the failure.
DownloadEnds(d) ==
    /\ downloads[d].stage = "sent"
    /\ \E stage \in {"opened", "failed"} :
          downloads' = [downloads EXCEPT ![d].stage = stage, ![d].mine = FALSE]
    /\ UNCHANGED tab /\ UNCHANGED <<user, roots, lists, moves, strayed, outrun>>

Next ==
    \/ \E root \in Root : OpenRoot(root)
    \/ \E term \in Term \cup {NoTerm} : Search(term)
    \/ \E prefix \in Prefix : OpenFolder(prefix)
    \/ \E address \in {FilesHome, Elsewhere} : Follow(address)
    \/ \E i \in DOMAIN entries : Traverse(i)
    \/ Refresh \/ Download \/ Render \/ Redirect
    \/ RootsArrive \/ RootsFail
    \/ \E k \in Question : ListEnds(k)
    \/ \E d \in DOMAIN downloads : DownloadEnds(d)

Spec == Init /\ [][Next]_vars

\* React commits what is rendered and runs its effects.
FairSpec == Spec /\ WF_vars(Render) /\ WF_vars(Redirect)

-----------------------------------------------------------------------------
(* Properties.                                                             *)

TypeOK ==
    /\ entries \in Seq(Address \cup {Elsewhere}) /\ at \in DOMAIN entries
    /\ rendered \in Address \cup {Elsewhere}
    /\ active \in Term \cup {NoTerm}
    /\ due \in BOOLEAN /\ strayed \in BOOLEAN /\ outrun \in BOOLEAN
    /\ due => rendered # Elsewhere
    /\ roots \in Query(RootLists)
    /\ lists \in [Question -> Query(Question)]
    /\ downloads \in Seq(DownloadState)
    /\ \A d \in DOMAIN downloads :
          downloads[d].mine => downloads[d].stage = "sent" /\ rendered # Elsewhere
    /\ moves \in 0..MaxInputs

\* The address names the search of the page, so that a reload or a bookmark
\* finds the same: whatever is pressed, also before an address is rendered,
\* unless during a search a root button, a link, Refresh or the effect has
\* left it out of the address, or the history was used (FilesPage).
SearchIsAddressed == ~strayed /\ Here # Elsewhere /\ rendered # Elsewhere => active = Here.search

\* What is listed answers for the bucket, the folder and the search rendered,
\* in whatever order listings are asked for and arrive (listQuery).
RightListing ==
    rendered # Elsewhere /\ rendered.bucket # None => OnScreen.data \in {None, Asks(rendered, active)}

\* An address with a bucket never renders as a blank page: there is a
\* listing, a spinner or an error.
SomethingShown ==
    rendered # Elsewhere /\ rendered.bucket # None =>
        OnScreen.data # None \/ Loading(OnScreen) \/ OnScreen.failed

\* A download asks for the file that was listed: the key of a row is joined
\* with the bucket of the address (downloadMutation).
AsksForWhatIsListed == \A d \in DOMAIN downloads : downloads[d].asked = downloads[d].listed

\* What a user sees and gets by a click is right, in any order of inputs and
\* answers: something is shown, for the address rendered, and its rows lead to
\* the files they name.
PageIsRight == RightListing /\ SomethingShown /\ AsksForWhatIsListed

Blank == rendered # Elsewhere /\ rendered.bucket = None /\ RootsListed # <<>>

\* A page without a bucket has a way out as soon as there is a root: its
\* effect is due, or another address is about to be rendered, whatever came
\* first, the roots, the address or a search.  The exception is an input that
\* comes before the address is rendered (the dependencies of the effect).
WayOut == Blank /\ ~outrun => due \/ rendered # Here

\* Not checked, but the hypothesis of PagesSettle: React can always commit the
\* address that is next and run the effect that is due, also when the effect finds
\* that it has nowhere to go.  It says no more than that the guards leave no gap.
CanGoOn ==
    /\ rendered # Here => ENABLED <<Render>>_vars
    /\ due => ENABLED <<Redirect>>_vars

\* A page without a bucket goes to the first root once there is one, or its
\* user goes elsewhere.  The way round it: an input that comes back to the old
\* address before the new one is rendered, after which the effect has no
\* reason to run again.
SettlesInAFolder == Blank /\ ~outrun ~> outrun \/ ~Blank
=============================================================================
