-------------------------- MODULE FileBrowserProofs --------------------------
(***************************************************************************)
(* Theorems about FileBrowser, for any buckets, folders, search terms and  *)
(* lists of roots.                                                         *)
(***************************************************************************)
EXTENDS FileBrowser, TLAPS

-----------------------------------------------------------------------------
(* The query cache.                                                        *)

\* Each cached listing, and each on its way, answers the question it is kept for.
CacheOK ==
    \A k \in Question : lists[k].data \in {None, k} /\ lists[k].fetch \in {None, k}

\* Every question observed is answered, asked or failed.
ObservedOK ==
    \A q \in Observed(rendered, active) :
        lists[q].data # None \/ lists[q].fetch # None \/ lists[q].failed

Consistent == TypeOK /\ CacheOK /\ ObservedOK /\ AsksForWhatIsListed

\* An address and a search observe one question at most.
LEMMA ObservedType ==
    ASSUME NEW address \in Address \cup {Elsewhere}, NEW search \in Term \cup {NoTerm}
    PROVE  /\ Observed(address, search) \subseteq Question
           /\ Observed(address, search) \subseteq {Asks(address, search)}
  BY DEF Observed, Asks, To, Address, Question

\* Asking leaves the cache in order, and what is observed is asked for.
LEMMA AskedInOK ==
    ASSUME lists \in [Question -> Query(Question)], CacheOK,
           NEW address \in Address \cup {Elsewhere}, NEW search \in Term \cup {NoTerm},
           NEW before \in SUBSET Question,
           \A q \in before : lists[q].data # None \/ lists[q].fetch # None \/ lists[q].failed
    PROVE  LET now == Observed(address, search)
               asked == AskedIn(lists, now, before)
           IN  /\ asked \in [Question -> Query(Question)]
               /\ \A k \in Question : asked[k].data \in {None, k} /\ asked[k].fetch \in {None, k}
               /\ \A q \in now : asked[q].data # None \/ asked[q].fetch # None \/ asked[q].failed
<1> DEFINE now == Observed(address, search)
           asked == AskedIn(lists, now, before)
<1>1. now \subseteq Question /\ now \subseteq {Asks(address, search)}
  BY ObservedType
<1>2. asked = [k \in Question |-> IF k \in now \ before
                                  THEN AskedFor(lists[k], CHOOSE q \in now : TRUE) ELSE lists[k]]
  <2>1. \A S : {QueryKey(q) : q \in S} = S
    BY DEF QueryKey
  <2> QED
    BY <2>1 DEF AskedIn
<1>3. ASSUME NEW k \in now PROVE (CHOOSE q \in now : TRUE) = k
  BY <1>1, <1>3
<1> HIDE DEF now, asked
<1>4. ASSUME NEW k \in Question
      PROVE  asked[k] = IF k \in now \ before THEN AskedFor(lists[k], k) ELSE lists[k]
  BY <1>2, <1>3
<1>5. ASSUME NEW k \in Question
      PROVE  /\ AskedFor(lists[k], k) \in Query(Question)
             /\ AskedFor(lists[k], k).data = lists[k].data
             /\ AskedFor(lists[k], k).fetch = k
  <2> DEFINE list == lists[k]
             sent == [list EXCEPT !.fetch = Sent]
             served == [sent EXCEPT !.fetch = k]
  <2>1. list \in Query(Question) /\ list.fetch \in {None, k}
    BY DEF CacheOK
  <2> HIDE DEF list
  <2>2. sent \in Query(Question) /\ sent.data = list.data
    BY <2>1 DEF Query
  <2> HIDE DEF sent
  <2>3. served \in Query(Question) /\ served.data = list.data /\ served.fetch = k
    BY <2>2 DEF Query
  <2>4. AskedFor(list, k) = IF list.fetch # None THEN list ELSE served
    BY Zenon DEF AskedFor, Asked, Served, Fetching, served, sent
  <2> HIDE DEF served
  <2> QED
    BY <2>1, <2>3, <2>4 DEF list
<1>6. asked \in [Question -> Query(Question)]
  BY <1>2, <1>3, <1>5
<1>7. ASSUME NEW k \in Question
      PROVE  asked[k].data \in {None, k} /\ asked[k].fetch \in {None, k}
  BY <1>4, <1>5 DEF CacheOK
<1>8. ASSUME NEW q \in now
      PROVE  asked[q].data # None \/ asked[q].fetch # None \/ asked[q].failed
  BY <1>1, <1>4, <1>5, FileBrowserAssumption
<1> QED
  BY <1>6, <1>7, <1>8 DEF now, asked

\* Rendering anew keeps the listings in order.
LEMMA RerenderedOK ==
    ASSUME TypeOK, CacheOK, ObservedOK,
           NEW address \in Address \cup {Elsewhere}, NEW search \in Term \cup {NoTerm},
           Rerendered(address, search)
    PROVE  /\ rendered' = address /\ active' = search
           /\ lists' \in [Question -> Query(Question)]
           /\ CacheOK' /\ ObservedOK'
<1>1. Observed(rendered, active) \subseteq Question
  BY ObservedType DEF TypeOK
<1>2. rendered' = address /\ active' = search
      /\ lists' = AskedIn(lists, Observed(address, search), Observed(rendered, active))
  BY DEF Rerendered
<1>3. /\ lists' \in [Question -> Query(Question)]
      /\ \A k \in Question : lists'[k].data \in {None, k} /\ lists'[k].fetch \in {None, k}
      /\ \A q \in Observed(address, search) :
            lists'[q].data # None \/ lists'[q].fetch # None \/ lists'[q].failed
  BY <1>1, <1>2, AskedInOK DEF TypeOK, ObservedOK
<1>4. ObservedOK'
  <2>1. Observed(rendered, active)' = Observed(address, search)
    BY <1>2 DEF Observed, Asks, To
  <2> QED
    BY <1>3, <2>1 DEF ObservedOK
<1> QED
  BY <1>2, <1>3, <1>4 DEF CacheOK

-----------------------------------------------------------------------------
(* The router.                                                             *)

\* A new entry cuts off what lay forward, and the tab is at it.
LEMMA PushType ==
    ASSUME entries \in Seq(Address \cup {Elsewhere}), at \in DOMAIN entries,
           NEW address \in Address \cup {Elsewhere}, Push(address)
    PROVE  /\ entries' \in Seq(Address \cup {Elsewhere}) /\ at' \in DOMAIN entries'
           /\ Here' = address
<1>1. at \in 1..Len(entries)
  OBVIOUS
<1>2. SubSeq(entries, 1, at) \in Seq(Address \cup {Elsewhere}) /\ Len(SubSeq(entries, 1, at)) = at
  BY <1>1
<1> DEFINE kept == SubSeq(entries, 1, at)
<1> HIDE DEF kept
<1>3. entries' = Append(kept, address) /\ at' = at + 1 /\ kept \in Seq(Address \cup {Elsewhere})
      /\ Len(kept) = at /\ at \in Nat
  BY <1>1, <1>2 DEF Push, kept
<1>4. entries' \in Seq(Address \cup {Elsewhere}) /\ Len(entries') = at + 1 /\ entries'[at + 1] = address
  BY <1>3
<1>5. at' \in DOMAIN entries'
  BY <1>3, <1>4
<1> QED
  BY <1>3, <1>4, <1>5 DEF Here

\* Where the buttons, the links and the effect lead to.
LEMMA Targets ==
    ASSUME TypeOK
    PROVE  /\ FilesHome \in Address
           /\ \A root \in Root : To(root.bucket, root.prefix, NoTerm) \in Address
           /\ rendered # Elsewhere => \A term \in Term \cup {NoTerm} :
                 [rendered EXCEPT !.search = term] \in Address
           /\ rendered # Elsewhere => \A prefix \in Prefix : To(rendered.bucket, prefix, NoTerm) \in Address
           /\ RootsListed # <<>> => RootsListed[1] \in Root
           /\ Here \in Address \cup {Elsewhere}
<1>1. FilesHome \in Address
  BY FileBrowserAssumption DEF FilesHome, To, Address
<1>2. \A root \in Root : To(root.bucket, root.prefix, NoTerm) \in Address
  BY DEF Root, To, Address
<1>3. rendered # Elsewhere => \A term \in Term \cup {NoTerm} :
          [rendered EXCEPT !.search = term] \in Address
  BY DEF TypeOK, Address
<1>4. rendered # Elsewhere => \A prefix \in Prefix : To(rendered.bucket, prefix, NoTerm) \in Address
  BY DEF TypeOK, Address, To
<1>5. RootsListed # <<>> => RootsListed[1] \in Root
  <2>1. RootsListed \in Seq(Root)
    BY FileBrowserAssumption DEF TypeOK, Query, RootsListed
  <2> QED
    BY <2>1
<1>6. Here \in Address \cup {Elsewhere}
  BY DEF TypeOK, Here
<1> QED
  BY <1>1, <1>2, <1>3, <1>4, <1>5, <1>6

-----------------------------------------------------------------------------
(* The inductive invariant.                                                *)

\* An input that goes to an address and leaves what is rendered as it is.
LEMMA PushOnly ==
    ASSUME Consistent, NEW address \in Address \cup {Elsewhere}, Push(address),
           Moves, strayed' \in BOOLEAN, KeepsPage
    PROVE  Consistent'
<1>1. entries' \in Seq(Address \cup {Elsewhere}) /\ at' \in DOMAIN entries'
  BY PushType DEF Consistent, TypeOK
<1>2. moves' \in 0..MaxInputs /\ outrun' \in BOOLEAN
  BY FileBrowserAssumption DEF Consistent, TypeOK, Moves, Input
<1>3. TypeOK'
  BY <1>1, <1>2 DEF Consistent, TypeOK, KeepsPage
<1> QED
  BY <1>3 DEF Consistent, CacheOK, ObservedOK, Observed, Asks, To, AsksForWhatIsListed, KeepsPage

\* An input that goes to an address and searches for something else.
LEMMA PushAndSearch ==
    ASSUME Consistent, rendered # Elsewhere,
           NEW address \in Address, NEW search \in Term \cup {NoTerm}, Push(address),
           Moves, Rerendered(rendered, search), strayed' = FALSE,
           UNCHANGED <<due, roots, downloads>>
    PROVE  Consistent'
<1> USE DEF Consistent
<1>1. entries' \in Seq(Address \cup {Elsewhere}) /\ at' \in DOMAIN entries'
  BY PushType DEF TypeOK
<1>2. moves' \in 0..MaxInputs /\ outrun' \in BOOLEAN
  BY FileBrowserAssumption DEF TypeOK, Moves, Input
<1>3. rendered \in Address \cup {Elsewhere}
  BY DEF TypeOK
<1>4. /\ rendered' = rendered /\ active' = search
      /\ lists' \in [Question -> Query(Question)]
      /\ CacheOK' /\ ObservedOK'
  BY <1>3, RerenderedOK
<1>5. TypeOK'
  BY <1>1, <1>2, <1>4 DEF TypeOK
<1> QED
  BY <1>4, <1>5 DEF AsksForWhatIsListed

\* Downloads of a page that is gone belong to nobody.
LEMMA LeftType ==
    ASSUME downloads \in Seq(DownloadState), AsksForWhatIsListed
    PROVE  /\ Left \in Seq(DownloadState)
           /\ \A d \in DOMAIN Left : ~Left[d].mine /\ Left[d].asked = Left[d].listed
<1>1. Len(downloads) \in Nat /\ DOMAIN downloads = 1..Len(downloads)
  OBVIOUS
<1>2. \A d \in DOMAIN downloads : downloads[d] \in DownloadState
  OBVIOUS
<1>3. \A d \in DOMAIN downloads :
          LET e == [downloads[d] EXCEPT !.mine = FALSE]
          IN  e \in DownloadState /\ ~e.mine /\ e.asked = e.listed
  BY <1>2 DEF DownloadState, AsksForWhatIsListed
<1>4. Left = [d \in 1..Len(downloads) |-> [downloads[d] EXCEPT !.mine = FALSE]]
  BY <1>1 DEF Left
<1>5. \A d \in 1..Len(downloads) : [downloads[d] EXCEPT !.mine = FALSE] \in DownloadState
  BY <1>1, <1>3
<1>6. Left \in Seq(DownloadState)
  BY <1>1, <1>4, <1>5
<1> QED
  BY <1>1, <1>3, <1>4, <1>6

LEMMA RenderKeeps == Consistent /\ Render => Consistent'
<1> SUFFICES ASSUME Consistent, Render PROVE Consistent'
    OBVIOUS
<1> USE DEF Consistent
<1> DEFINE mounts == rendered = Elsewhere
           leaves == Here = Elsewhere
           search == CASE mounts -> Here.search [] leaves -> NoTerm [] OTHER -> active
<1>1. Here \in Address \cup {Elsewhere} /\ rendered # Here
  BY Targets DEF Render
<1>2. search \in Term \cup {NoTerm}
  BY <1>1 DEF TypeOK, Address
<1>3. Rerendered(Here, search)
  BY DEF Render
<1> HIDE DEF search
<1>4. /\ rendered' = Here /\ active' = search
      /\ lists' \in [Question -> Query(Question)]
      /\ CacheOK' /\ ObservedOK'
  BY <1>1, <1>2, <1>3, RerenderedOK
<1>5. roots' \in Query(RootLists)
  <2>1. roots \in Query(RootLists) /\ Mounted(roots) \in Query(RootLists)
    BY DEF TypeOK, Query, Mounted, Asked
  <2> QED
    BY <2>1 DEF Render
<1>6. CASE leaves
  <2>1. downloads' = Left /\ due' = FALSE /\ strayed' \in BOOLEAN /\ outrun' = FALSE
        /\ UNCHANGED <<user, entries, at, moves>>
    BY <1>6 DEF Render, TypeOK
  <2>2. TypeOK'
    BY <1>1, <1>2, <1>4, <1>5, <2>1, LeftType DEF TypeOK
  <2> QED
    BY <1>4, <2>1, <2>2, LeftType DEF AsksForWhatIsListed, TypeOK
<1>7. CASE ~leaves
  <2>1. downloads' = downloads /\ due' = TRUE /\ strayed' \in BOOLEAN /\ outrun' = FALSE
        /\ UNCHANGED <<user, entries, at, moves>>
    BY <1>7 DEF Render, TypeOK
  <2>2. TypeOK'
    BY <1>1, <1>2, <1>4, <1>5, <1>7, <2>1 DEF TypeOK
  <2> QED
    BY <1>4, <2>1, <2>2 DEF AsksForWhatIsListed
<1> QED
  BY <1>6, <1>7

\* The effect goes to the first root or does nothing.
LEMMA RedirectKeeps == Consistent /\ Redirect => Consistent'
<1> SUFFICES ASSUME Consistent, Redirect PROVE Consistent'
    OBVIOUS
<1> USE DEF Consistent
<1>1. due' = FALSE /\ UNCHANGED <<user, rendered, active, roots, lists, downloads, moves, outrun>>
  BY DEF Redirect
<1>2. entries' \in Seq(Address \cup {Elsewhere}) /\ at' \in DOMAIN entries' /\ strayed' \in BOOLEAN
  <2>1. CASE rendered.bucket = None /\ RootsListed # <<>>
    <3>1. To(RootsListed[1].bucket, RootsListed[1].prefix, NoTerm) \in Address
      BY <2>1, Targets
    <3>2. Push(To(RootsListed[1].bucket, RootsListed[1].prefix, NoTerm)) /\ Strays
      BY <2>1 DEF Redirect
    <3> QED
      BY <3>1, <3>2, PushType DEF TypeOK, Strays
  <2>2. CASE ~(rendered.bucket = None /\ RootsListed # <<>>)
    BY <2>2 DEF Redirect, TypeOK
  <2> QED
    BY <2>1, <2>2
<1>3. TypeOK'
  BY <1>1, <1>2 DEF TypeOK
<1> QED
  BY <1>1, <1>3 DEF CacheOK, ObservedOK, Observed, Asks, To, AsksForWhatIsListed

\* What is listed was asked for with the bucket that is rendered.
LEMMA ScreenAnswers ==
    ASSUME Consistent, rendered # Elsewhere, rendered.bucket # None
    PROVE  /\ Asks(rendered, active) \in Question
           /\ OnScreen = lists[Asks(rendered, active)]
           /\ OnScreen.data \in {None, Asks(rendered, active)}
<1>1. Asks(rendered, active) \in Question
  BY DEF Consistent, TypeOK, Asks, To, Address, Question
<1> QED
  BY <1>1 DEF OnScreen, QueryKey, Consistent, CacheOK

LEMMA DownloadKeeps == Consistent /\ Download => Consistent'
<1> SUFFICES ASSUME Consistent, Download PROVE Consistent'
    OBVIOUS
<1> DEFINE new == [listed |-> OnScreen.data.bucket, asked |-> rendered.bucket,
                   stage |-> "sent", mine |-> TRUE]
<1>1. rendered # Elsewhere /\ rendered.bucket # None /\ OnScreen.data # None
  BY DEF Download, Controls
<1>2. new \in DownloadState /\ new.asked = new.listed /\ new.stage = "sent"
  <2>1. OnScreen.data = Asks(rendered, active) /\ OnScreen.data \in Question
    BY <1>1, ScreenAnswers
  <2>2. OnScreen.data.bucket = rendered.bucket /\ rendered.bucket \in Bucket
    BY <2>1 DEF Asks, To, Question
  <2> QED
    BY <2>2 DEF DownloadState
<1> HIDE DEF new
<1>3. downloads' = Append(downloads, new) /\ moves' \in 0..MaxInputs
      /\ UNCHANGED <<user, entries, at, rendered, active, due, roots, lists, strayed, outrun>>
  BY FileBrowserAssumption DEF Download, new, tab, Input, Consistent, TypeOK
<1>4. /\ downloads' \in Seq(DownloadState)
      /\ \A d \in DOMAIN downloads' : \/ d \in DOMAIN downloads /\ downloads'[d] = downloads[d]
                                      \/ downloads'[d] = new
  BY <1>2, <1>3 DEF Consistent, TypeOK
<1>5. TypeOK'
  BY <1>1, <1>2, <1>3, <1>4 DEF Consistent, TypeOK
<1>6. AsksForWhatIsListed'
  BY <1>2, <1>4 DEF Consistent, AsksForWhatIsListed
<1> QED
  BY <1>3, <1>5, <1>6 DEF Consistent, CacheOK, ObservedOK, Observed, Asks, To

LEMMA DownloadEndsKeeps ==
    ASSUME Consistent, NEW c \in DOMAIN downloads, DownloadEnds(c)
    PROVE  Consistent'
<1>1. PICK stage \in {"opened", "failed"} :
          downloads' = [downloads EXCEPT ![c].stage = stage, ![c].mine = FALSE]
  BY DEF DownloadEnds
<1>2. UNCHANGED <<user, entries, at, rendered, active, due, roots, lists, moves, strayed, outrun>>
  BY DEF DownloadEnds, tab
<1> DEFINE new == [downloads[c] EXCEPT !.stage = stage, !.mine = FALSE]
<1>3. downloads[c] \in DownloadState /\ downloads[c].asked = downloads[c].listed
  BY DEF Consistent, TypeOK, AsksForWhatIsListed
<1>4. new \in DownloadState /\ ~new.mine /\ new.asked = new.listed
  BY <1>3 DEF DownloadState
<1>5. downloads' = [downloads EXCEPT ![c] = new]
  BY <1>1
<1> HIDE DEF new
<1>6. /\ downloads' \in Seq(DownloadState) /\ DOMAIN downloads' = DOMAIN downloads
      /\ \A d \in DOMAIN downloads : downloads'[d] = IF d = c THEN new ELSE downloads[d]
  BY <1>4, <1>5 DEF Consistent, TypeOK
<1>7. TypeOK'
  BY <1>2, <1>4, <1>6 DEF Consistent, TypeOK
<1>8. AsksForWhatIsListed'
  BY <1>4, <1>6 DEF Consistent, AsksForWhatIsListed
<1> QED
  BY <1>2, <1>7, <1>8 DEF Consistent, CacheOK, ObservedOK, Observed, Asks, To

LEMMA AnswersKeep ==
    ASSUME Consistent, RootsArrive \/ RootsFail \/ \E k \in Question : ListEnds(k)
    PROVE  Consistent'
<1>1. CASE RootsArrive
  <2>1. PICK answer \in RootLists :
            /\ roots' = Settled(Served(roots, answer))
            /\ due' = (due \/ (rendered # Elsewhere /\ answer # roots.data))
    BY <1>1 DEF RootsArrive
  <2>2. roots' \in Query(RootLists)
    BY <2>1 DEF Settled, Served, Query, Consistent, TypeOK
  <2>3. UNCHANGED <<user, entries, at, rendered, active, lists, downloads, moves, strayed, outrun>>
    BY <1>1 DEF RootsArrive
  <2>4. TypeOK'
    BY <2>1, <2>2, <2>3 DEF Consistent, TypeOK
  <2> QED
    BY <2>3, <2>4 DEF Consistent, CacheOK, ObservedOK, Observed, Asks, To, AsksForWhatIsListed
<1>2. CASE RootsFail
  <2>1. roots' \in Query(RootLists)
    BY <1>2 DEF RootsFail, Failed, Query, Consistent, TypeOK
  <2>2. UNCHANGED <<user, entries, at, rendered, active, due, lists, downloads, moves, strayed, outrun>>
    BY <1>2 DEF RootsFail, tab
  <2>3. TypeOK'
    BY <2>1, <2>2 DEF Consistent, TypeOK
  <2> QED
    BY <2>2, <2>3 DEF Consistent, CacheOK, ObservedOK, Observed, Asks, To, AsksForWhatIsListed
<1>3. CASE \E k \in Question : ListEnds(k)
  <2>1. PICK k \in Question : ListEnds(k)
    BY <1>3
  <2>2. PICK query \in {Settled(lists[k]), Failed(lists[k])} : lists' = [lists EXCEPT ![k] = query]
    BY <2>1 DEF ListEnds
  <2>3. lists[k] \in Query(Question) /\ lists[k].fetch = k /\ lists[k].data \in {None, k} /\ k # None
    BY <2>1, FileBrowserAssumption DEF ListEnds, Fetching, Consistent, TypeOK, CacheOK
  <2>4. /\ query \in Query(Question)
        /\ query.data \in {None, k} /\ query.fetch \in {None, k}
        /\ query.data # None \/ query.failed
    <3>1. CASE query = Settled(lists[k])
      BY <2>3, <3>1 DEF Settled, Query
    <3>2. CASE query = Failed(lists[k])
      <4>1. /\ query.data = lists[k].data /\ query.fetch = None /\ query.failed
            /\ query \in Query(Question)
        BY <2>3, <3>2 DEF Failed, Query
      <4> QED
        BY <2>3, <4>1
    <3> QED
      BY <2>2, <3>1, <3>2
  <2>5. lists' \in [Question -> Query(Question)]
        /\ \A q \in Question : lists'[q] = IF q = k THEN query ELSE lists[q]
    BY <2>2, <2>4 DEF Consistent, TypeOK
  <2>6. UNCHANGED <<user, entries, at, rendered, active, due, roots, downloads, moves, strayed, outrun>>
    BY <2>1 DEF ListEnds, tab
  <2>7. TypeOK'
    BY <2>5, <2>6 DEF Consistent, TypeOK
  <2>8. CacheOK'
    BY <2>4, <2>5 DEF Consistent, CacheOK
  <2>9. ObservedOK'
    <3>1. Observed(rendered, active)' = Observed(rendered, active)
          /\ Observed(rendered, active) \subseteq Question
      BY <2>6, ObservedType DEF Consistent, TypeOK, Observed, Asks, To
    <3> QED
      BY <2>4, <2>5, <3>1 DEF Consistent, ObservedOK
  <2> QED
    BY <2>6, <2>7, <2>8, <2>9 DEF Consistent, AsksForWhatIsListed
<1> QED
  BY <1>1, <1>2, <1>3

LEMMA InputsKeep ==
    ASSUME Consistent,
           \/ \E root \in Root : OpenRoot(root)
           \/ \E term \in Term \cup {NoTerm} : Search(term)
           \/ \E prefix \in Prefix : OpenFolder(prefix)
           \/ \E address \in {FilesHome, Elsewhere} : Follow(address)
           \/ \E i \in DOMAIN entries : Traverse(i)
           \/ Refresh
    PROVE  Consistent'
<1>1. Strays => strayed' \in BOOLEAN
  BY DEF Strays, Consistent, TypeOK
<1>2. ASSUME NEW root \in Root, OpenRoot(root) PROVE Consistent'
  BY <1>1, <1>2, Targets, PushOnly DEF OpenRoot, Consistent
<1>3. ASSUME NEW term \in Term \cup {NoTerm}, Search(term) PROVE Consistent'
  <2>1. rendered # Elsewhere /\ [rendered EXCEPT !.search = term] \in Address
    BY <1>3, Targets DEF Search, Controls, Consistent
  <2> QED
    BY <1>3, <2>1, PushAndSearch DEF Search
<1>4. ASSUME NEW prefix \in Prefix, OpenFolder(prefix) PROVE Consistent'
  <2>1. rendered # Elsewhere /\ To(rendered.bucket, prefix, NoTerm) \in Address
    BY <1>4, Targets DEF OpenFolder, Controls, Consistent
  <2> QED
    BY <1>4, <2>1, PushAndSearch DEF OpenFolder
<1>5. ASSUME NEW address \in {FilesHome, Elsewhere}, Follow(address) PROVE Consistent'
  BY <1>1, <1>5, Targets, PushOnly DEF Follow, Consistent
<1>6. ASSUME NEW i \in DOMAIN entries, Traverse(i) PROVE Consistent'
  <2>1. entries' = entries /\ at' = i /\ strayed' = TRUE /\ KeepsPage
    BY <1>6 DEF Traverse
  <2>2. moves' \in 0..MaxInputs /\ outrun' \in BOOLEAN
    BY <1>6, FileBrowserAssumption DEF Traverse, Consistent, TypeOK, Moves, Input
  <2>3. TypeOK'
    BY <2>1, <2>2 DEF Consistent, TypeOK, KeepsPage
  <2> QED
    BY <2>1, <2>3 DEF Consistent, CacheOK, ObservedOK, Observed, Asks, To, AsksForWhatIsListed,
                      KeepsPage
<1>7. ASSUME Refresh PROVE Consistent'
  BY <1>1, <1>7, Targets, PushOnly DEF Refresh, Consistent
<1> QED
  BY <1>2, <1>3, <1>4, <1>5, <1>6, <1>7

LEMMA InitConsistent == Init => Consistent
<1> SUFFICES ASSUME Init PROVE Consistent
    OBVIOUS
<1>1. PICK address \in Starts :
          /\ entries = <<address>>
          /\ rendered = address
          /\ active = IF address = Elsewhere THEN NoTerm ELSE address.search
          /\ due = (address # Elsewhere)
          /\ roots = IF address = Elsewhere THEN NewQuery ELSE Asked(NewQuery)
          /\ lists = AskedIn([k \in Question |-> NewQuery], Observed(address, active), {})
  BY DEF Init
<1>2. address \in Address \cup {Elsewhere}
  BY FileBrowserAssumption
<1>3. active \in Term \cup {NoTerm}
  BY <1>1, <1>2 DEF Address
<1>4. roots \in Query(RootLists) /\ NewQuery \in Query(RootLists)
  BY <1>1 DEF Query, NewQuery, Asked
<1>5. /\ lists \in [Question -> Query(Question)]
      /\ \A k \in Question : lists[k].data \in {None, k} /\ lists[k].fetch \in {None, k}
      /\ \A q \in Observed(address, active) :
            lists[q].data # None \/ lists[q].fetch # None \/ lists[q].failed
  <2>1. Observed(address, active) \subseteq Question
        /\ Observed(address, active) \subseteq {Asks(address, active)}
    BY <1>2, <1>3, ObservedType
  <2>2. \A S : {QueryKey(q) : q \in S} = S
    BY DEF QueryKey
  <2>3. lists = [k \in Question |->
                   IF k \in Observed(address, active)
                   THEN AskedFor(NewQuery, CHOOSE q \in Observed(address, active) : TRUE)
                   ELSE NewQuery]
    BY <1>1, <2>2 DEF AskedIn
  <2>4. \A k \in Observed(address, active) : (CHOOSE q \in Observed(address, active) : TRUE) = k
    BY <2>1
  <2>5. \A k \in Question :
            lists[k] = IF k \in Observed(address, active) THEN AskedFor(NewQuery, k) ELSE NewQuery
    BY <2>3, <2>4
  <2>6. \A k \in Question :
            AskedFor(NewQuery, k) = [data |-> None, fetch |-> k, failed |-> FALSE]
    BY DEF AskedFor, NewQuery, Fetching, Served, Asked
  <2>7. NewQuery = [data |-> None, fetch |-> None, failed |-> FALSE]
    BY DEF NewQuery
  <2>8. ASSUME NEW k \in Question
        PROVE  /\ lists[k] \in Query(Question)
               /\ lists[k].data = None
               /\ lists[k].fetch \in {None, k}
               /\ k \in Observed(address, active) => lists[k].fetch # None
    <3>1. CASE k \in Observed(address, active)
      <4>1. lists[k] = [data |-> None, fetch |-> k, failed |-> FALSE]
        BY <2>5, <2>6, <3>1
      <4> QED
        BY <4>1, FileBrowserAssumption DEF Query
    <3>2. CASE k \notin Observed(address, active)
      <4>1. lists[k] = [data |-> None, fetch |-> None, failed |-> FALSE]
        BY <2>5, <2>7, <3>2
      <4> QED
        BY <3>2, <4>1 DEF Query
    <3> QED
      BY <3>1, <3>2
  <2>9. lists \in [Question -> Query(Question)]
    BY <2>3, <2>8
  <2> QED
    BY <2>1, <2>8, <2>9
<1>6. TypeOK
  <2>1. entries \in Seq(Address \cup {Elsewhere}) /\ at \in DOMAIN entries
    BY <1>1, <1>2 DEF Init
  <2>2. downloads = <<>> /\ moves = 0 /\ strayed = FALSE /\ outrun = FALSE
    BY DEF Init
  <2>3. downloads \in Seq(DownloadState) /\ moves \in 0..MaxInputs
    BY <2>2, FileBrowserAssumption
  <2>4. due \in BOOLEAN /\ (due => rendered # Elsewhere)
    BY <1>1, Zenon
  <2>5. \A d \in DOMAIN downloads :
            downloads[d].mine => downloads[d].stage = "sent" /\ rendered # Elsewhere
    BY <2>2
  <2> QED
    BY <1>1, <1>2, <1>3, <1>4, <1>5, <2>1, <2>2, <2>3, <2>4, <2>5 DEF TypeOK
<1>7. AsksForWhatIsListed
  BY DEF Init, AsksForWhatIsListed
<1> QED
  BY <1>1, <1>5, <1>6, <1>7 DEF Consistent, CacheOK, ObservedOK

\* Whatever is pressed, rendered or answered keeps the invariant.
LEMMA StepConsistent == Consistent /\ [Next]_vars => Consistent'
<1> SUFFICES ASSUME Consistent, [Next]_vars PROVE Consistent'
    OBVIOUS
<1>1. CASE UNCHANGED vars
  BY <1>1 DEF vars, Consistent, TypeOK, CacheOK, ObservedOK, Observed, Asks, To, AsksForWhatIsListed
<1>2. ASSUME NEW d \in DOMAIN downloads, DownloadEnds(d) PROVE Consistent'
  BY <1>2, DownloadEndsKeeps
<1> QED
  BY <1>1, <1>2, InputsKeep, AnswersKeep, DownloadKeeps, RedirectKeeps, RenderKeeps DEF Next

\* The inductive invariant of FilesPage.
THEOREM BrowserConsistent == Spec => []Consistent
<1> QED
  BY InitConsistent, StepConsistent, PTL DEF Spec

-----------------------------------------------------------------------------
(* What it gives.                                                          *)

\* The page, its history and its queries keep their types, and a download
\* belongs to a page that is there until it ends.
THEOREM BrowserTypeCorrect == Spec => []TypeOK
<1>1. Consistent => TypeOK
  BY DEF Consistent
<1> QED
  BY <1>1, BrowserConsistent, PTL

\* What is listed answers for the bucket, the folder and the search rendered.
THEOREM ListingIsRight == Spec => []RightListing
<1>1. Consistent => RightListing
  BY ScreenAnswers DEF RightListing
<1> QED
  BY <1>1, BrowserConsistent, PTL

\* An address with a bucket never renders as a blank page.
THEOREM NeverBlank == Spec => []SomethingShown
<1>1. Consistent => SomethingShown
  <2> SUFFICES ASSUME Consistent, rendered # Elsewhere, rendered.bucket # None
               PROVE  OnScreen.data # None \/ Loading(OnScreen) \/ OnScreen.failed
      BY DEF SomethingShown
  <2>1. Asks(rendered, active) \in Observed(rendered, active)
    BY DEF Observed
  <2> QED
    BY <2>1, ScreenAnswers DEF Consistent, ObservedOK, Loading, Fetching
<1> QED
  BY <1>1, BrowserConsistent, PTL

\* A download asks for the file that was listed, in the bucket it was listed in.
THEOREM DownloadsMatch == Spec => []AsksForWhatIsListed
<1>1. Consistent => AsksForWhatIsListed
  BY DEF Consistent
<1> QED
  BY <1>1, BrowserConsistent, PTL

\* What is seen is right as a whole, for any folders, searches and histories.
THEOREM PageStaysRight == Spec => []PageIsRight
<1>1. RightListing /\ SomethingShown /\ AsksForWhatIsListed => PageIsRight
  BY DEF PageIsRight
<1> QED
  BY <1>1, ListingIsRight, NeverBlank, DownloadsMatch, PTL

\* Going on with the page's own search keeps it in the address.
LEMMA StepAddressed == Consistent /\ SearchIsAddressed /\ [Next]_vars => SearchIsAddressed'
<1> SUFFICES ASSUME Consistent, SearchIsAddressed, [Next]_vars PROVE SearchIsAddressed'
    OBVIOUS
<1>1. entries \in Seq(Address \cup {Elsewhere}) /\ at \in DOMAIN entries
  BY DEF Consistent, TypeOK
<1>2. ASSUME NEW address \in Address, address.search = NoTerm, Push(address), Strays,
             UNCHANGED <<rendered, active>>
      PROVE  SearchIsAddressed'
  <2>1. Here' = address
    BY <1>1, <1>2, PushType
  <2> QED
    BY <1>2, <2>1 DEF SearchIsAddressed, Strays
<1>3. ASSUME UNCHANGED <<entries, at, rendered, active, strayed>> PROVE SearchIsAddressed'
  BY <1>3 DEF SearchIsAddressed, Here
<1>4. ASSUME NEW root \in Root, OpenRoot(root) PROVE SearchIsAddressed'
  <2>1. To(root.bucket, root.prefix, NoTerm) \in Address
    BY Targets DEF Consistent
  <2> QED
    BY <1>2, <1>4, <2>1 DEF OpenRoot, KeepsPage, To
<1>5. ASSUME NEW term \in Term \cup {NoTerm}, Search(term) PROVE SearchIsAddressed'
  <2>1. [rendered EXCEPT !.search = term] \in Address /\ rendered \in Address
    BY <1>5, Targets DEF Search, Controls, Consistent, TypeOK
  <2>2. Here' = [rendered EXCEPT !.search = term]
    BY <1>1, <1>5, <2>1, PushType DEF Search
  <2>3. Here'.search = term /\ active' = term
    BY <1>5, <2>1, <2>2 DEF Search, Rerendered, Address
  <2> QED
    BY <2>3 DEF SearchIsAddressed
<1>6. ASSUME NEW prefix \in Prefix, OpenFolder(prefix) PROVE SearchIsAddressed'
  <2>1. To(rendered.bucket, prefix, NoTerm) \in Address
    BY <1>6, Targets DEF OpenFolder, Controls, Consistent
  <2>2. Here' = To(rendered.bucket, prefix, NoTerm)
    BY <1>1, <1>6, <2>1, PushType DEF OpenFolder
  <2>3. Here'.search = NoTerm /\ active' = NoTerm
    BY <1>6, <2>2 DEF OpenFolder, Rerendered, To
  <2> QED
    BY <2>3 DEF SearchIsAddressed
<1>7. ASSUME Follow(FilesHome) PROVE SearchIsAddressed'
  <2>1. FilesHome \in Address /\ FilesHome.search = NoTerm
    BY Targets DEF Consistent, FilesHome, To
  <2> QED
    BY <1>2, <1>7, <2>1 DEF Follow, KeepsPage
<1>8. ASSUME Follow(Elsewhere) PROVE SearchIsAddressed'
  <2>1. Here' = Elsewhere
    BY <1>1, <1>8, PushType DEF Follow
  <2> QED
    BY <2>1 DEF SearchIsAddressed
<1>9. ASSUME NEW i \in DOMAIN entries, Traverse(i) PROVE SearchIsAddressed'
  BY <1>9 DEF Traverse, SearchIsAddressed
<1>10. ASSUME Refresh PROVE SearchIsAddressed'
  <2>1. FilesHome \in Address /\ FilesHome.search = NoTerm
    BY Targets DEF Consistent, FilesHome, To
  <2> QED
    BY <1>2, <1>10, <2>1 DEF Refresh, KeepsPage
<1>11. ASSUME Render PROVE SearchIsAddressed'
  BY <1>11 DEF Render, Rerendered, SearchIsAddressed, Here
<1>12. ASSUME Redirect PROVE SearchIsAddressed'
  <2>1. CASE rendered.bucket = None /\ RootsListed # <<>>
    <3>1. To(RootsListed[1].bucket, RootsListed[1].prefix, NoTerm) \in Address
      BY <2>1, Targets DEF Consistent
    <3> QED
      BY <1>2, <1>12, <2>1, <3>1 DEF Redirect, To
  <2>2. CASE ~(rendered.bucket = None /\ RootsListed # <<>>)
    BY <1>3, <1>12, <2>2 DEF Redirect
  <2> QED
    BY <2>1, <2>2
<1>13. ASSUME \/ Download \/ RootsArrive \/ RootsFail \/ UNCHANGED vars
              \/ \E k \in Question : ListEnds(k)
              \/ \E d \in DOMAIN downloads : DownloadEnds(d)
       PROVE  SearchIsAddressed'
  BY <1>3, <1>13 DEF Download, RootsArrive, RootsFail, ListEnds, DownloadEnds, vars, tab
<1> QED
  BY <1>4, <1>5, <1>6, <1>7, <1>8, <1>9, <1>10, <1>11, <1>12, <1>13 DEF Next

\* The address names the search of the page, but for the ways it may stray.
THEOREM SearchStaysAddressed == Spec => []SearchIsAddressed
<1>1. Init => SearchIsAddressed
  BY DEF Init, SearchIsAddressed, Here
<1>2. Consistent /\ SearchIsAddressed /\ [Next]_vars => SearchIsAddressed'
  BY StepAddressed
<1> QED
  BY <1>1, <1>2, BrowserConsistent, PTL DEF Spec

-----------------------------------------------------------------------------
(* A page without a bucket goes to a root.                                 *)

\* A page that has not been outrun and has somewhere to go.
Waiting == Blank /\ ~outrun

\* An input that is made before the address is rendered outruns the page, and
\* every other one leaves the roots and the effect as they are.
InputStep ==
    /\ UNCHANGED <<rendered, due, roots>>
    /\ outrun' = (outrun \/ rendered # Here)

\* The steps, as far as the effect, the roots and the address are concerned.
LEMMA WaitingStep ==
    ASSUME Consistent, [Next]_vars
    PROVE  \/ InputStep
           \/ Render \/ Redirect \/ RootsArrive
           \/ UNCHANGED <<entries, at, rendered, due, outrun>> /\ RootsListed' = RootsListed
<1>1. ASSUME NEW search, Rerendered(rendered, search) PROVE rendered' = rendered
  BY <1>1 DEF Rerendered
<1>2. CASE \/ \E root \in Root : OpenRoot(root)
           \/ \E term \in Term \cup {NoTerm} : Search(term)
           \/ \E prefix \in Prefix : OpenFolder(prefix)
           \/ \E address \in {FilesHome, Elsewhere} : Follow(address)
           \/ \E i \in DOMAIN entries : Traverse(i)
           \/ Refresh
  BY <1>1, <1>2 DEF OpenRoot, Search, OpenFolder, Follow, Traverse, Refresh, Moves, KeepsPage,
     InputStep
<1>3. CASE RootsFail
  BY <1>3 DEF RootsFail, Failed, tab, RootsListed, Consistent, TypeOK, Query
<1>4. CASE Download \/ (\E k \in Question : ListEnds(k)) \/ UNCHANGED vars
           \/ \E d \in DOMAIN downloads : DownloadEnds(d)
  BY <1>4 DEF Download, ListEnds, DownloadEnds, tab, vars, RootsListed
<1> QED
  BY <1>2, <1>3, <1>4 DEF Next

\* An input keeps the way out, unless it outruns the page.
LEMMA InputWayOut ==
    ASSUME Consistent, WayOut, [Next]_vars, InputStep PROVE WayOut'
  BY DEF InputStep, WayOut, Blank, RootsListed

\* The address that the effect goes to has a bucket, the one it leaves has none.
LEMMA RedirectLeads ==
    ASSUME Consistent, Blank, Redirect
    PROVE  /\ Here' # Elsewhere /\ Here'.bucket # None /\ Here' # rendered
           /\ UNCHANGED <<rendered, roots, outrun>> /\ due' = FALSE
           /\ RootsListed' = RootsListed
<1> DEFINE first == To(RootsListed[1].bucket, RootsListed[1].prefix, NoTerm)
<1>1. Push(first) /\ UNCHANGED <<rendered, roots, outrun>> /\ due' = FALSE
  BY DEF Redirect, Blank
<1>2. RootsListed[1] \in Root
  BY Targets DEF Blank, Consistent
<1>3. first \in Address /\ first.bucket # None
  BY <1>2, FileBrowserAssumption DEF Root, To, Address
<1> HIDE DEF first
<1>4. Here' = first
  BY <1>1, <1>3, PushType DEF Consistent, TypeOK
<1> QED
  BY <1>1, <1>3, <1>4, FileBrowserAssumption DEF Blank, RootsListed

\* Rendering makes the effect due on every page that is FilesPage.
LEMMA RenderLeads ==
    ASSUME Consistent, Render
    PROVE  /\ rendered' = Here /\ Here' = Here /\ due' = (Here # Elsewhere) /\ outrun' = FALSE
           /\ rendered # Elsewhere => RootsListed' = RootsListed
<1>1. rendered' = Here /\ UNCHANGED <<entries, at>> /\ outrun' = FALSE /\ due' = ~(Here = Elsewhere)
  BY DEF Render, Rerendered
<1>2. roots' = IF rendered = Elsewhere THEN Mounted(roots) ELSE roots
  BY DEF Render
<1> QED
  BY <1>1, <1>2 DEF Here, RootsListed

\* Roots that differ from those there were make the effect due.
LEMMA RootsLead ==
    ASSUME Consistent, RootsArrive
    PROVE  /\ UNCHANGED <<entries, at, rendered, outrun>>
           /\ due => due'
           /\ rendered # Elsewhere => due' \/ RootsListed' = RootsListed
<1>1. PICK answer \in RootLists :
          /\ roots' = Settled(Served(roots, answer))
          /\ due' = (due \/ (rendered # Elsewhere /\ answer # roots.data))
  BY DEF RootsArrive
<1>2. roots'.data = answer
  BY <1>1 DEF Settled, Served, Consistent, TypeOK, Query
<1> QED
  BY <1>1, <1>2 DEF RootsArrive, RootsListed

\* Every step keeps the way out.
LEMMA StepWayOut == Consistent /\ WayOut /\ [Next]_vars => WayOut'
<1> SUFFICES ASSUME Consistent, WayOut, [Next]_vars PROVE WayOut'
    OBVIOUS
<1>1. CASE InputStep
  BY <1>1, InputWayOut
<1>2. CASE Render
  BY <1>2, RenderLeads DEF WayOut, Blank
<1>3. CASE Redirect
  <2>1. CASE Blank
    BY <1>3, <2>1, RedirectLeads DEF WayOut, Blank
  <2>2. CASE ~Blank
    BY <1>3, <2>2 DEF Redirect, WayOut, Blank, RootsListed
  <2> QED
    BY <2>1, <2>2
<1>4. CASE RootsArrive
  BY <1>4, RootsLead DEF WayOut, Blank, Here
<1>5. CASE UNCHANGED <<entries, at, rendered, due, outrun>> /\ RootsListed' = RootsListed
  BY <1>5 DEF WayOut, Blank, Here
<1> QED
  BY <1>1, <1>2, <1>3, <1>4, <1>5, WaitingStep

\* However roots, renderings, searches and links interleave, a page without a
\* bucket has its effect due or another address coming, as soon as there is a
\* root (the effect of FilesPage and its dependencies).
THEOREM WayOutOpen == Spec => []WayOut
<1>1. Init => WayOut
  <2> SUFFICES ASSUME Init PROVE ~Blank
      BY DEF WayOut
  <2>1. roots.data = None
    BY DEF Init, NewQuery, Asked
  <2> QED
    BY <2>1 DEF Blank, RootsListed
<1> QED
  BY <1>1, StepWayOut, BrowserConsistent, PTL DEF Spec

\* The three phases of the way out: before the effect is due, before it has
\* run, before the address it went to is rendered.
AwaitsRender == Waiting /\ ~due
AwaitsEffect == Waiting /\ due
AwaitsRoot == Waiting /\ rendered # Here /\ Here # Elsewhere /\ Here.bucket # None

WaitOver == outrun \/ ~Blank

\* Each step keeps the phase, goes on to a later one or ends the wait.
LEMMA PhasesNext ==
    ASSUME Consistent, WayOut, [Next]_vars
    PROVE  /\ AwaitsRender => (AwaitsRender \/ AwaitsEffect \/ WaitOver)'
           /\ AwaitsEffect => (AwaitsEffect \/ AwaitsRoot \/ WaitOver)'
           /\ AwaitsRoot => (AwaitsRoot \/ WaitOver)'
<1> USE DEF AwaitsRender, AwaitsEffect, AwaitsRoot, WaitOver, Waiting, Blank
<1>1. CASE InputStep
  BY <1>1 DEF InputStep, RootsListed
<1>2. CASE Render
  BY <1>2, RenderLeads
<1>3. CASE Redirect
  BY <1>3, RedirectLeads
<1>4. CASE RootsArrive
  BY <1>4, RootsLead DEF Here
<1>5. CASE UNCHANGED <<entries, at, rendered, due, outrun>> /\ RootsListed' = RootsListed
  BY <1>5 DEF Here
<1> QED
  BY <1>1, <1>2, <1>3, <1>4, <1>5, WaitingStep

\* Rendering and the effect bring the page to the next phase.
LEMMA PhasesGoOn ==
    ASSUME Consistent, WayOut
    PROVE  /\ AwaitsRender /\ Render => (AwaitsEffect \/ WaitOver)'
           /\ AwaitsEffect /\ Redirect => AwaitsRoot'
           /\ AwaitsRoot /\ Render => WaitOver'
<1> USE DEF AwaitsRender, AwaitsEffect, AwaitsRoot, WaitOver, Waiting, Blank
<1>1. AwaitsRender /\ Render => (AwaitsEffect \/ WaitOver)'
  BY RenderLeads
<1>2. AwaitsEffect /\ Redirect => AwaitsRoot'
  BY RedirectLeads
<1>3. AwaitsRoot /\ Render => WaitOver'
  BY RenderLeads
<1> QED
  BY <1>1, <1>2, <1>3

\* A page without a bucket goes to the first root as soon as there is one, or
\* its user goes elsewhere, if React commits and runs its effects and can
\* always do so (CanGoOn).
THEOREM PagesSettle == FairSpec /\ []CanGoOn => SettlesInAFolder
<1>1. CanGoOn /\ WayOut => /\ AwaitsRender => ENABLED <<Render>>_vars
                           /\ AwaitsEffect => ENABLED <<Redirect>>_vars
                           /\ AwaitsRoot => ENABLED <<Render>>_vars
  BY DEF CanGoOn, WayOut, AwaitsRender, AwaitsEffect, AwaitsRoot, Waiting
<1>2. Consistent /\ WayOut /\ [Next]_vars =>
        /\ AwaitsRender => AwaitsRender' \/ AwaitsEffect' \/ WaitOver'
        /\ AwaitsEffect => AwaitsEffect' \/ AwaitsRoot' \/ WaitOver'
        /\ AwaitsRoot => AwaitsRoot' \/ WaitOver'
  BY PhasesNext
<1>3. Consistent /\ WayOut =>
        /\ AwaitsRender /\ <<Render>>_vars => AwaitsEffect' \/ WaitOver'
        /\ AwaitsEffect /\ <<Redirect>>_vars => AwaitsRoot'
        /\ AwaitsRoot /\ <<Render>>_vars => WaitOver'
  BY PhasesGoOn
<1>4. Spec /\ WF_vars(Render) /\ []CanGoOn => (AwaitsRoot ~> WaitOver)
  BY <1>1, <1>2, <1>3, WayOutOpen, BrowserConsistent, PTL DEF Spec
<1>5. Spec /\ WF_vars(Redirect) /\ []CanGoOn => (AwaitsEffect ~> AwaitsRoot \/ WaitOver)
  BY <1>1, <1>2, <1>3, WayOutOpen, BrowserConsistent, PTL DEF Spec
<1>6. Spec /\ WF_vars(Render) /\ []CanGoOn => (AwaitsRender ~> AwaitsEffect \/ WaitOver)
  BY <1>1, <1>2, <1>3, WayOutOpen, BrowserConsistent, PTL DEF Spec
<1>7. /\ Blank /\ ~outrun => AwaitsRender \/ AwaitsEffect
      /\ WaitOver <=> outrun \/ ~Blank
  BY DEF AwaitsRender, AwaitsEffect, Waiting, WaitOver
<1> QED
  BY <1>4, <1>5, <1>6, <1>7, PTL DEF FairSpec, SettlesInAFolder
=============================================================================
