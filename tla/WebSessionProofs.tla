-------------------------- MODULE WebSessionProofs --------------------------
(***************************************************************************)
(* Facts about a tab of the web client, for any accounts, any sessions and *)
(* any number of loads: its types, that signing out lasts, and that        *)
(* redirects end.                                                          *)
(***************************************************************************)
EXTENDS WebSession, TLAPS

(* What a call may be answered: what a login opened was given out before,  *)
(* and an ok to a login or a query names an account.                       *)
AnswerOK(kind) ==
    LET o == tab.calls[kind].answer
    IN  Calling(kind) /\ o # None =>
            /\ o.session \in spent \cup {None}
            /\ o.ok /\ kind = "login" => o.account \in Account

(* Whoever signs out or has signed out does so in a tab that has its first *)
(* answer: no other answer to "who is it" is to come.                      *)
Loaded == Calling("logout") \/ left => ~tab.loading

(* A login is for an account.                                              *)
Named == Calling("login") => tab.calls["login"].account \in Account

(* How many redirects a tab is from rest.                                  *)
Distance(x) ==
    IF x.loading THEN IF x.path = "/other" THEN 1 ELSE 0
    ELSE IF x.user = None THEN IF x.path = "/other" THEN 2 ELSE IF x.path = "/login" THEN 0 ELSE 1
    ELSE CASE x.path = "/login" -> 3
           [] x.path = "/other" -> 2
           [] x.path = "/" -> 1
           [] OTHER -> IF LayoutShown(x) THEN 0 ELSE 2

Consistent ==
    /\ TypeOK
    /\ \A k \in Kind : AnswerOK(k)
    /\ Loaded /\ Named
    /\ SignedOutStaysOut
    /\ hops + Distance(tab) <= 3

-----------------------------------------------------------------------------
(* Helpers.                                                                *)

LEMMA DistanceBound == ASSUME NEW x PROVE Distance(x) \in 0..3
  BY DEF Distance

LEMMA HomeIsPath == ASSUME NEW role PROVE HomePath(role) \in Protected
  BY DEF HomePath, Protected

LEMMA LandingIsPath ==
  ASSUME NEW x \in TabState, NEW a \in Account
  PROVE  LandingPath(x, a) \in Protected
  BY HomeIsPath DEF LandingPath, TabState

LEMMA OutcomeType ==
  ASSUME Consistent, NEW kind \in Kind, Calling(kind), NEW o \in Outcomes(kind)
  PROVE  /\ o \in Outcome /\ o.session \in spent \cup {None}
         /\ o.ok /\ kind = "login" => o.account \in Account
  <1>1. tab.calls[kind] \in Call
    BY DEF Consistent, TypeOK, TabState, Calling
  <1>2. CASE o = Failure
    BY <1>2 DEF Failure, Outcome
  <1>3. CASE o = tab.calls[kind].answer /\ o # None
    BY <1>1, <1>3 DEF Call, Consistent, AnswerOK
  <1> QED BY <1>2, <1>3 DEF Outcomes

LEMMA SentType ==
  ASSUME NEW c \in Session \cup {None}, NEW a \in Account \cup {None}
  PROVE  /\ Sent(c, a) \in Call /\ Sent(c, a) # None
         /\ Sent(c, a).answer = None /\ Sent(c, a).cookie = c
  BY NoneAssumption DEF Sent, Call

(* Render shows the tab it is given, but for a query of the roots.         *)
LEMMA RenderResult ==
  ASSUME Consistent, NEW x \in TabState, NEW c \in Session \cup {None}, Render(x, c)
  PROVE  /\ tab' \in TabState
         /\ tab'.user = x.user /\ tab'.loading = x.loading
         /\ tab'.path = x.path /\ tab'.from = x.from
         /\ \A k \in Kind \ {"roots"} : tab'.calls[k] = x.calls[k]
         /\ \/ tab'.calls["roots"] = x.calls["roots"]
            \/ /\ tab'.calls["roots"] # None /\ tab'.calls["roots"].answer = None
               /\ tab'.calls["roots"].cookie = c
         /\ Distance(tab') = Distance(x)
  <1>1. /\ Sent(c, None) \in Call /\ Sent(c, None) # None
        /\ Sent(c, None).answer = None /\ Sent(c, None).cookie = c
    BY SentType
  <1>2. tab' = x \/ tab' = [x EXCEPT !.calls["roots"] = Sent(c, None)]
    BY DEF Render
  <1>3. "roots" \in Kind
    BY DEF Kind
  <1> QED BY <1>1, <1>2, <1>3 DEF TabState, Distance, LayoutShown

(* A call that ends, or that is sent, leaves the others alone.             *)
LEMMA WithoutType ==
  ASSUME NEW kind \in Kind, NEW x \in TabState
  PROVE  /\ Without(kind, x) \in TabState
         /\ Without(kind, x).calls = [x.calls EXCEPT ![kind] = None]
         /\ Without(kind, x) = [x EXCEPT !.calls = [x.calls EXCEPT ![kind] = None]]
  BY DEF Without, TabState

(* What is left to show when a step renders a tab whose calls are those    *)
(* there were, one less or one more.                                       *)
LEMMA Rendered ==
  ASSUME Consistent, NEW x \in TabState, NEW c \in Session \cup {None}, Render(x, c),
         spent \subseteq spent',
         \A k \in Kind : \/ x.calls[k] = tab.calls[k]
                         \/ x.calls[k] = None
                         \/ x.calls[k].answer = None
  PROVE  \A k \in Kind : AnswerOK(k)'
  <1> SUFFICES ASSUME NEW k \in Kind PROVE AnswerOK(k)'
    OBVIOUS
  <1>1. CASE tab'.calls[k] = x.calls[k] /\ x.calls[k] = tab.calls[k]
    BY <1>1 DEF Consistent, AnswerOK, Calling
  <1>2. CASE tab'.calls[k] = None \/ tab'.calls[k].answer = None
    BY <1>2 DEF AnswerOK, Calling
  <1> QED BY <1>1, <1>2, RenderResult

(* The types of everything but the tab.                                    *)
OthersOK ==
    /\ DOMAIN live \subseteq spent /\ spent \subseteq Session
    /\ \A s \in DOMAIN live : live[s] \in Account
    /\ jar \in spent \cup {None}
    /\ loads \in 0..MaxLoads /\ left \in BOOLEAN /\ doubtful \in BOOLEAN /\ hops \in Nat

(* The invariant after a step that renders the tab x.                      *)
LEMMA RenderKeeps ==
  ASSUME Consistent, NEW x \in TabState, NEW c \in Session \cup {None}, Render(x, c),
         OthersOK', spent \subseteq spent',
         \A k \in Kind : \/ x.calls[k] = tab.calls[k]
                         \/ x.calls[k] = None
                         \/ x.calls[k].answer = None,
         x.loading <=> x.calls["me"] # None,
         x.calls["logout"] # None \/ left' => ~x.loading,
         left' => x.user = None,
         x.calls["login"] # None => x.calls["login"].account \in Account,
         hops' + Distance(x) <= 3
  PROVE  Consistent'
  <1>1. "me" \in Kind \ {"roots"} /\ "logout" \in Kind \ {"roots"}
    BY DEF Kind
  <1>2. TypeOK'
    BY <1>1, RenderResult DEF OthersOK, TypeOK, Calling
  <1>3. \A k \in Kind : AnswerOK(k)'
    BY Rendered
  <1>4. Loaded' /\ Named'
    <2>1. "login" \in Kind \ {"roots"}
      BY DEF Kind
    <2> QED BY <1>1, <2>1, RenderResult DEF Loaded, Named, Calling
  <1>5. SignedOutStaysOut' /\ hops' + Distance(tab)' <= 3
    BY RenderResult DEF SignedOutStaysOut
  <1> QED BY <1>2, <1>3, <1>4, <1>5 DEF Consistent

(* What the invariant says of the tab.                                     *)
LEMMA TabNow ==
  ASSUME Consistent
  PROVE  /\ tab \in TabState /\ OthersOK /\ jar \in Session \cup {None}
         /\ tab.loading <=> tab.calls["me"] # None
         /\ tab.calls["logout"] # None \/ left => ~tab.loading
         /\ left => tab.user = None
         /\ tab.calls["login"] # None => tab.calls["login"].account \in Account
  BY DEF Consistent, TypeOK, OthersOK, Calling, Loaded, Named, SignedOutStaysOut

-----------------------------------------------------------------------------
(* The server.                                                             *)

(* A call of the tab is answered: nothing else about the tab changes.      *)
LEMMA AnswersResult ==
  ASSUME Consistent, NEW kind \in Kind, Unserved(kind), NEW o \in Outcome, Answers(kind, o)
  PROVE  /\ tab' \in TabState /\ \A k \in Kind : Calling(k)' <=> Calling(k)
         /\ tab'.user = tab.user /\ tab'.loading = tab.loading /\ tab'.path = tab.path
         /\ tab'.calls[kind].answer = o
         /\ tab'.calls[kind].cookie = tab.calls[kind].cookie
         /\ tab'.calls[kind].account = tab.calls[kind].account
         /\ \A k \in Kind \ {kind} : tab'.calls[k] = tab.calls[k]
  <1> DEFINE call == tab.calls[kind]
  <1>1. call \in Call /\ call # None
    BY TabNow DEF TabState, Unserved, Calling
  <1>2. [call EXCEPT !.answer = o] \in Call /\ [call EXCEPT !.answer = o] # None
    BY <1>1, NoneAssumption DEF Call
  <1>3. tab' = [tab EXCEPT !.calls = [tab.calls EXCEPT ![kind] = [call EXCEPT !.answer = o]]]
    BY TabNow DEF Answers, TabState
  <1>4. /\ tab' \in TabState /\ \A k \in Kind : Calling(k)' <=> Calling(k)
        /\ tab'.user = tab.user /\ tab'.loading = tab.loading /\ tab'.path = tab.path
    BY <1>1, <1>2, <1>3, TabNow DEF TabState, Calling
  <1>5. tab'.calls[kind].answer = o /\ \A k \in Kind \ {kind} : tab'.calls[k] = tab.calls[k]
    BY <1>1, <1>3, TabNow DEF TabState, Call
  <1>6. tab'.calls[kind].cookie = call.cookie /\ tab'.calls[kind].account = call.account
    BY <1>1, <1>3, TabNow DEF TabState, Call
  <1> QED BY <1>4, <1>5, <1>6

LEMMA AnswersKeeps ==
  ASSUME Consistent, NEW kind \in Kind, Unserved(kind), NEW o \in Outcome, Answers(kind, o),
         OthersOK', spent \subseteq spent', o.session \in spent' \cup {None},
         o.ok /\ kind = "login" => o.account \in Account
  PROVE  Consistent'
  <1>1. "me" \in Kind /\ "logout" \in Kind /\ "login" \in Kind
    BY DEF Kind
  <1>2. TypeOK'
    BY <1>1, AnswersResult DEF OthersOK, TypeOK, Consistent
  <1>3. \A k \in Kind : AnswerOK(k)'
    BY AnswersResult DEF AnswerOK, Consistent, Calling
  <1>4. left' = left /\ hops' = hops
    BY DEF Answers
  <1>5. Loaded' /\ SignedOutStaysOut'
    BY <1>1, <1>4, AnswersResult DEF Loaded, SignedOutStaysOut, Consistent
  <1>6. Named'
    <2>1. tab'.calls["login"].account = tab.calls["login"].account
      BY <1>1, AnswersResult
    <2> QED BY <1>1, <2>1, AnswersResult DEF Named, Consistent
  <1>7. Distance(tab)' = Distance(tab)
    BY AnswersResult DEF Distance, LayoutShown
  <1> QED BY <1>2, <1>3, <1>4, <1>5, <1>6, <1>7 DEF Consistent

LEMMA OpensType ==
  ASSUME Consistent, NEW s \in Session, NEW a \in Account, Opens(s, a)
  PROVE  /\ spent \subseteq spent' /\ spent' \subseteq Session /\ s \in spent'
         /\ DOMAIN live' \subseteq spent' /\ \A x \in DOMAIN live' : live'[x] \in Account
  BY TabNow DEF OthersOK, Opens

LEMMA EndsType ==
  ASSUME Consistent, NEW s, Ends(s)
  PROVE  DOMAIN live' \subseteq spent /\ \A x \in DOMAIN live' : live'[x] \in Account
  BY TabNow DEF OthersOK, Ends

LEMMA QueryStep == ASSUME Consistent, NEW kind \in Kind, ServeQuery(kind) PROVE Consistent'
  <1> DEFINE a == Holder(tab.calls[kind].cookie)
             o == IF a = None THEN Failure ELSE Success(a, None)
  <1>1. a \in Account \cup {None}
    BY TabNow DEF Holder, OthersOK
  <1>2. o \in Outcome /\ o.session = None /\ kind # "login"
    BY <1>1 DEF Failure, Success, Outcome, ServeQuery
  <1>3. OthersOK' /\ spent' = spent
    BY TabNow DEF OthersOK, ServeQuery, Answers
  <1> QED BY <1>2, <1>3, AnswersKeeps DEF ServeQuery

LEMMA LoginServed == ASSUME Consistent, ServeLogin PROVE Consistent'
  <1> DEFINE a == tab.calls["login"].account
  <1>1. "login" \in Kind /\ Unserved("login") /\ a \in Account
    BY TabNow DEF Kind, ServeLogin, Unserved, Calling
  <1>2. ASSUME NEW s \in Session, Opens(s, a), Answers("login", Success(a, s))
        PROVE  Consistent'
    <2>1. Success(a, s) \in Outcome /\ Success(a, s).session = s /\ Success(a, s).account = a
      BY <1>1 DEF Success, Outcome
    <2>2. OthersOK' /\ spent \subseteq spent' /\ s \in spent'
      BY <1>1, <1>2, OpensType, TabNow DEF OthersOK, Answers
    <2> HIDE DEF a
    <2> QED BY <1>1, <1>2, <2>1, <2>2, AnswersKeeps
  <1>3. CASE Answers("login", Failure) /\ UNCHANGED <<live, spent>>
    <2>1. Failure \in Outcome /\ Failure.session = None /\ ~Failure.ok
      BY DEF Failure, Outcome
    <2>2. OthersOK' /\ spent' = spent
      BY <1>3, TabNow DEF OthersOK, Answers
    <2> QED BY <1>1, <1>3, <2>1, <2>2, AnswersKeeps
  <1> QED BY <1>2, <1>3 DEF ServeLogin

LEMMA LogoutServed == ASSUME Consistent, ServeLogout PROVE Consistent'
  <1> DEFINE s == tab.calls["logout"].cookie
  <1>1. "logout" \in Kind /\ "logout" # "login" /\ Unserved("logout")
    BY DEF Kind, ServeLogout
  <1>2. CASE Ends(s) /\ Answers("logout", Success(None, None)) /\ UNCHANGED spent
    <2>1. Success(None, None) \in Outcome /\ Success(None, None).session = None
      BY DEF Success, Outcome
    <2>2. OthersOK' /\ spent' = spent
      BY <1>2, EndsType, TabNow DEF OthersOK, Answers
    <2> QED BY <1>1, <1>2, <2>1, <2>2, AnswersKeeps
  <1>3. CASE Answers("logout", Failure) /\ UNCHANGED <<live, spent>>
    <2>1. Failure \in Outcome /\ Failure.session = None /\ ~Failure.ok
      BY DEF Failure, Outcome
    <2>2. OthersOK' /\ spent' = spent
      BY <1>3, TabNow DEF OthersOK, Answers
    <2> QED BY <1>1, <1>3, <2>1, <2>2, AnswersKeeps
  <1> QED BY <1>2, <1>3 DEF ServeLogout

(* Steps that leave the tab alone.                                         *)
LEMMA AroundKeeps ==
  ASSUME Consistent, OthersOK', spent \subseteq spent', UNCHANGED <<tab, left, hops>>
  PROVE  Consistent'
  BY DEF Consistent, TypeOK, OthersOK, AnswerOK, Loaded, Named, SignedOutStaysOut, Calling,
         Distance, LayoutShown

LEMMA EndStep == ASSUME Consistent, NEW s \in Session, End(s) PROVE Consistent'
  <1>1. OthersOK' /\ spent' = spent
    BY EndsType, TabNow DEF OthersOK, End
  <1> QED BY <1>1, AroundKeeps DEF End

LEMMA ElsewhereStep == ASSUME Consistent, Elsewhere PROVE Consistent'
  <1>1. OthersOK' /\ spent \subseteq spent'
    BY OpensType, TabNow DEF OthersOK, Elsewhere
  <1> QED BY <1>1, AroundKeeps DEF Elsewhere

-----------------------------------------------------------------------------
(* The client.                                                             *)

(* A tab that has just loaded.                                             *)
FreshTab ==
    /\ \E path \in Path, from \in Protected \cup {None} : tab = Fresh(path, from, jar)
    /\ ~left /\ hops = 0

LEMMA FreshType ==
  ASSUME NEW path \in Path, NEW from \in Protected \cup {None}, NEW c \in Session \cup {None}
  PROVE  /\ Fresh(path, from, c) \in TabState
         /\ Fresh(path, from, c).loading /\ Fresh(path, from, c).user = None
         /\ Fresh(path, from, c).calls = [k \in Kind |-> IF k = "me" THEN Sent(c, None) ELSE None]
  <1>1. Sent(c, None) \in Call
    BY SentType
  <1> QED BY <1>1 DEF Fresh, TabState

LEMMA FreshConsistent == FreshTab /\ OthersOK => Consistent
  <1> SUFFICES ASSUME FreshTab, OthersOK PROVE Consistent
    OBVIOUS
  <1>1. PICK path \in Path, from \in Protected \cup {None} : tab = Fresh(path, from, jar)
    BY DEF FreshTab
  <1>2. jar \in Session \cup {None}
    BY DEF OthersOK
  <1>3. /\ tab \in TabState /\ tab.loading /\ tab.user = None
        /\ tab.calls = [k \in Kind |-> IF k = "me" THEN Sent(jar, None) ELSE None]
    BY <1>1, <1>2, FreshType
  <1>4. Sent(jar, None) # None /\ Sent(jar, None).answer = None
    BY <1>2, SentType
  <1>5. "me" \in Kind /\ "login" \in Kind /\ "logout" \in Kind
    BY DEF Kind
  <1>6. Calling("me") /\ ~Calling("login") /\ ~Calling("logout")
    BY <1>3, <1>4, <1>5 DEF Calling
  <1>7. TypeOK
    BY <1>3, <1>6 DEF OthersOK, TypeOK
  <1>8. \A k \in Kind : AnswerOK(k)
    BY <1>3, <1>4 DEF AnswerOK, Calling
  <1>9. Loaded /\ Named /\ SignedOutStaysOut
    BY <1>6 DEF FreshTab, Loaded, Named, SignedOutStaysOut
  <1>10. hops + Distance(tab) <= 3
    BY DistanceBound DEF FreshTab
  <1> QED BY <1>7, <1>8, <1>9, <1>10 DEF Consistent

LEMMA LoadFresh == ASSUME Consistent, Load PROVE (FreshTab /\ OthersOK)'
  <1>1. OthersOK'
    <2>1. loads' \in 0..MaxLoads
      BY MaxLoadsAssumption, TabNow DEF OthersOK, Load
    <2>2. UNCHANGED <<live, spent, jar>> /\ ~left' /\ ~doubtful' /\ hops' = 0
      BY DEF Load
    <2>3. left' \in BOOLEAN /\ doubtful' \in BOOLEAN
      BY DEF Load
    <2> QED BY <2>1, <2>2, <2>3, TabNow DEF OthersOK
  <1>2. tab.path \in Path /\ tab.from \in Protected \cup {None}
    BY TabNow DEF TabState
  <1>3. FreshTab'
    BY <1>2 DEF FreshTab, Load
  <1> QED BY <1>1, <1>3

LEMMA LoadStep == ASSUME Consistent, Load PROVE Consistent'
  <1>1. (FreshTab /\ OthersOK => Consistent)'
    BY FreshConsistent, PTL
  <1> QED BY <1>1, LoadFresh

(* The tab with one more call under way.                                   *)
Sending(kind, a) == [tab EXCEPT !.calls[kind] = Sent(jar, a)]

LEMMA SendType ==
  ASSUME Consistent, NEW kind \in Kind, NEW a \in Account \cup {None}
  PROVE  /\ Sending(kind, a) \in TabState
         /\ Sending(kind, a).user = tab.user /\ Sending(kind, a).loading = tab.loading
         /\ Sending(kind, a).path = tab.path
         /\ Sending(kind, a).calls[kind] = Sent(jar, a)
         /\ \A k \in Kind \ {kind} : Sending(kind, a).calls[k] = tab.calls[k]
         /\ Sent(jar, a) # None /\ Sent(jar, a).answer = None /\ Sent(jar, a).account = a
         /\ Distance(Sending(kind, a)) = Distance(tab)
  <1>1. Sent(jar, a) \in Call /\ Sent(jar, a) # None /\ Sent(jar, a).answer = None
    BY TabNow, SentType
  <1>2. Sending(kind, a) = [tab EXCEPT !.calls = [tab.calls EXCEPT ![kind] = Sent(jar, a)]]
    BY TabNow DEF TabState, Sending
  <1>3. Sent(jar, a).account = a
    BY DEF Sent
  <1> QED BY <1>1, <1>2, <1>3, TabNow DEF TabState, Distance, LayoutShown

(* A tab that moves.                                                       *)
LEMMA AtType ==
  ASSUME NEW x \in TabState, NEW path \in Path, NEW from \in Protected \cup {None}
  PROVE  /\ At(x, path, from) \in TabState
         /\ At(x, path, from).user = x.user /\ At(x, path, from).loading = x.loading
         /\ At(x, path, from).path = path /\ At(x, path, from).calls = x.calls
  BY DEF At, TabState

(* A tab that takes over an account, or forgets it.                        *)
LEMMA ApplyMeType ==
  ASSUME NEW x \in TabState, NEW a \in Account \cup {None}
  PROVE  /\ ApplyMe(x, a) \in TabState
         /\ ApplyMe(x, a).user = a /\ ApplyMe(x, a).loading = x.loading
         /\ ApplyMe(x, a).path = x.path /\ ApplyMe(x, a).calls = x.calls
  BY DEF ApplyMe, TabState

LEMMA SubmitLoginStep == ASSUME Consistent, SubmitLogin PROVE Consistent'
  <1>1. PICK a \in Account : Send("login", a)
    BY DEF SubmitLogin
  <1> DEFINE x == Sending("login", a)
  <1>2. Render(x, jar) /\ "login" \in Kind
    BY <1>1 DEF Send, Sending, Kind
  <1>3. OthersOK' /\ spent' = spent /\ left' = left /\ hops' = 0
    BY TabNow DEF OthersOK, SubmitLogin
  <1>4. /\ x \in TabState
        /\ x.user = tab.user /\ x.loading = tab.loading
        /\ x.calls["login"].account = a
        /\ x.calls["me"] = tab.calls["me"] /\ x.calls["logout"] = tab.calls["logout"]
        /\ \A k \in Kind : x.calls[k] = tab.calls[k] \/ x.calls[k].answer = None
    BY <1>2, SendType DEF Kind
  <1>5. hops' + Distance(x) <= 3
    BY <1>3, DistanceBound
  <1> QED BY <1>2, <1>3, <1>4, <1>5, RenderKeeps, TabNow

LEMMA SubmitLogoutStep == ASSUME Consistent, SubmitLogout PROVE Consistent'
  <1> DEFINE x == Sending("logout", None)
  <1>2. Render(x, jar) /\ "logout" \in Kind
    BY DEF Send, Sending, SubmitLogout, Kind
  <1>3. OthersOK' /\ spent' = spent /\ left' = left /\ hops' = 0 /\ ~tab.loading
    BY TabNow DEF OthersOK, SubmitLogout, LayoutShown
  <1>4. /\ x \in TabState
        /\ x.user = tab.user /\ x.loading = tab.loading
        /\ x.calls["me"] = tab.calls["me"] /\ x.calls["login"] = tab.calls["login"]
        /\ \A k \in Kind : x.calls[k] = tab.calls[k] \/ x.calls[k].answer = None
    BY <1>2, SendType DEF Kind
  <1>5. hops' + Distance(x) <= 3
    BY <1>3, DistanceBound
  <1> QED BY <1>2, <1>3, <1>4, <1>5, RenderKeeps, TabNow

(* The first answer ends the loading.                                      *)
LEMMA MeStep == ASSUME Consistent, MeEnds PROVE Consistent'
  <1>1. PICK o \in Outcomes("me") :
           Render(Without("me", [ApplyMe(tab, o.account) EXCEPT !.loading = FALSE]), jar)
    BY DEF MeEnds
  <1> DEFINE y == ApplyMe(tab, o.account)
             z == [y EXCEPT !.loading = FALSE]
             x == Without("me", z)
  <1>2. "me" \in Kind /\ Calling("me")
    BY DEF Kind, MeEnds
  <1>3. o.account \in Account \cup {None}
    BY <1>2, OutcomeType DEF Outcome
  <1>4. y \in TabState /\ y.user = o.account /\ y.calls = tab.calls
    BY <1>3, TabNow, ApplyMeType
  <1> HIDE DEF y
  <1>5. z \in TabState /\ ~z.loading /\ z.user = o.account /\ z.calls = tab.calls
    BY <1>4 DEF TabState
  <1> HIDE DEF z
  <1>6. /\ x \in TabState /\ ~x.loading /\ x.user = o.account
        /\ x.calls = [tab.calls EXCEPT !["me"] = None]
    BY <1>2, <1>5, WithoutType DEF Without, TabState
  <1> HIDE DEF x
  <1>7. /\ x.calls["me"] = None /\ \A k \in Kind \ {"me"} : x.calls[k] = tab.calls[k]
        /\ "login" \in Kind \ {"me"} /\ "logout" \in Kind \ {"me"}
    BY <1>2, <1>6, TabNow DEF TabState, Kind
  <1>8. OthersOK' /\ spent' = spent /\ hops' = 0 /\ left' = left /\ Render(x, jar)
    BY <1>1, TabNow DEF OthersOK, MeEnds, x, z, y
  <1>9. ~left
    BY <1>2, TabNow DEF Calling
  <1>10. hops' + Distance(x) <= 3
    BY <1>8, DistanceBound
  <1> QED BY <1>6, <1>7, <1>8, <1>9, <1>10, RenderKeeps, TabNow

(* A tab whose call has ended, and that takes over an account.             *)
LEMMA EndedType ==
  ASSUME Consistent, NEW kind \in Kind, NEW a \in Account \cup {None}
  PROVE  /\ Without(kind, tab) \in TabState
         /\ Without(kind, tab).user = tab.user /\ Without(kind, tab).loading = tab.loading
         /\ Without(kind, tab).calls[kind] = None
         /\ \A k \in Kind \ {kind} : Without(kind, tab).calls[k] = tab.calls[k]
         /\ ApplyMe(Without(kind, tab), a) \in TabState
         /\ ApplyMe(Without(kind, tab), a).user = a
         /\ ApplyMe(Without(kind, tab), a).loading = tab.loading
         /\ ApplyMe(Without(kind, tab), a).calls = Without(kind, tab).calls
  <1>1. /\ Without(kind, tab) \in TabState
        /\ Without(kind, tab).user = tab.user /\ Without(kind, tab).loading = tab.loading
        /\ Without(kind, tab).calls = [tab.calls EXCEPT ![kind] = None]
    BY TabNow, WithoutType DEF TabState
  <1>2. tab.calls \in [Kind -> Call \cup {None}]
    BY TabNow DEF TabState
  <1> QED BY <1>1, <1>2, ApplyMeType

LEMMA LoginStep == ASSUME Consistent, LoginEnds PROVE Consistent'
  <1>1. PICK o \in Outcomes("login") :
           \/ o.ok /\ SignedIn(o)
           \/ ~o.ok /\ Render(Without("login", tab), jar) /\ UNCHANGED <<jar, left, doubtful>>
           \/ /\ o.ok /\ jar' = o.session /\ doubtful' = TRUE
              /\ Render(Without("login", tab), jar') /\ UNCHANGED left
    BY DEF LoginEnds
  <1>2. "login" \in Kind /\ Calling("login") /\ "me" \in Kind \ {"login"}
           /\ "logout" \in Kind \ {"login"}
    BY DEF Kind, LoginEnds
  <1>3. o.session \in spent \cup {None} /\ (o.ok => o.account \in Account)
    BY <1>2, OutcomeType
  <1>4. spent \subseteq Session /\ hops' = 0 /\ UNCHANGED <<live, spent, loads>>
    BY TabNow DEF LoginEnds, OthersOK
  <1> DEFINE y == Without("login", tab)
  <1>5. /\ y \in TabState /\ y.user = tab.user /\ y.loading = tab.loading
        /\ y.calls["login"] = None
        /\ \A k \in Kind \ {"login"} : y.calls[k] = tab.calls[k]
    BY <1>2, EndedType
  <1>6. CASE o.ok /\ SignedIn(o)
    <2> DEFINE x == ApplyMe(y, o.account)
    <2>1. x \in TabState /\ x.loading = tab.loading /\ x.calls = y.calls
      BY <1>3, <1>5, <1>6, ApplyMeType
    <2>2. PICK path \in Protected : Render(At(x, path, None), jar')
      BY <1>3, <1>6, HomeIsPath, LandingIsPath, TabNow DEF SignedIn
    <2>3. Protected \subseteq Path
      BY DEF Path
    <2> HIDE DEF x, y
    <2> DEFINE z == At(x, path, None)
    <2>4. z \in TabState /\ z.loading = tab.loading /\ z.calls = y.calls
      BY <2>1, <2>3, AtType
    <2>5. jar' = o.session /\ ~left' /\ left' \in BOOLEAN /\ doubtful' \in BOOLEAN
      BY <1>6 DEF SignedIn
    <2>6. OthersOK' /\ jar' \in Session \cup {None}
      BY <1>3, <1>4, <2>5, TabNow DEF OthersOK
    <2>7. hops' + Distance(z) <= 3
      BY <1>4, DistanceBound
    <2> HIDE DEF z
    <2>8. Render(z, jar')
      BY <2>2 DEF z
    <2> QED BY <1>2, <1>4, <1>5, <2>4, <2>5, <2>6, <2>7, <2>8, RenderKeeps, TabNow
  <1>7. ASSUME NEW c \in spent \cup {None}, jar' = c, Render(y, c), left' = left,
               doubtful' \in BOOLEAN
        PROVE  Consistent'
    <2>1. OthersOK' /\ c \in Session \cup {None}
      BY <1>4, <1>7, TabNow DEF OthersOK
    <2>2. hops' + Distance(y) <= 3
      BY <1>4, DistanceBound
    <2> HIDE DEF y
    <2> QED BY <1>2, <1>4, <1>5, <1>7, <2>1, <2>2, RenderKeeps, TabNow
  <1>8. CASE ~o.ok /\ Render(y, jar) /\ UNCHANGED <<jar, left, doubtful>>
    BY <1>7, <1>8, TabNow DEF OthersOK
  <1>9. CASE jar' = o.session /\ doubtful' = TRUE /\ Render(y, jar') /\ UNCHANGED left
    BY <1>3, <1>7, <1>9
  <1> QED BY <1>1, <1>6, <1>8, <1>9

LEMMA LogoutStep == ASSUME Consistent, LogoutEnds PROVE Consistent'
  <1> DEFINE x == ApplyMe(Without("logout", tab), None)
  <1>1. "logout" \in Kind /\ Calling("logout") /\ "me" \in Kind \ {"logout"}
           /\ "login" \in Kind \ {"logout"} /\ ~tab.loading
    BY TabNow DEF Kind, LogoutEnds, Calling
  <1>2. /\ x \in TabState /\ x.user = None /\ ~x.loading /\ x.calls["logout"] = None
        /\ \A k \in Kind \ {"logout"} : x.calls[k] = tab.calls[k]
    BY <1>1, EndedType
  <1>3. left' = TRUE /\ hops' = 0 /\ UNCHANGED <<live, spent, loads>>
    BY DEF LogoutEnds
  <1>4. \/ /\ jar' = None /\ UNCHANGED doubtful
           /\ \E from \in Protected \cup {None} : Render(At(x, "/login", from), jar')
        \/ Render(x, jar) /\ doubtful' = TRUE /\ UNCHANGED jar
    BY DEF LogoutEnds
  <1>5. OthersOK'
    BY <1>3, <1>4, TabNow DEF OthersOK
  <1>6. ASSUME NEW z \in TabState, NEW c \in Session \cup {None}, Render(z, c),
               z.user = None, ~z.loading, z.calls = x.calls
        PROVE  Consistent'
    <2>1. hops' + Distance(z) <= 3
      BY <1>3, DistanceBound
    <2> HIDE DEF x
    <2> QED BY <1>1, <1>2, <1>3, <1>5, <1>6, <2>1, RenderKeeps, TabNow
  <1>7. CASE Render(x, jar)
    BY <1>2, <1>6, <1>7, TabNow
  <1>8. ASSUME NEW from \in Protected \cup {None}, Render(At(x, "/login", from), jar'),
               jar' = None
        PROVE  Consistent'
    <2>1. "/login" \in Path
      BY DEF Path
    <2> HIDE DEF x
    <2> QED BY <1>2, <1>6, <1>8, <2>1, AtType
  <1> QED BY <1>4, <1>7, <1>8

LEMMA RootsStep == ASSUME Consistent, RootsEnd PROVE Consistent'
  <1> DEFINE y == Without("roots", tab)
  <1>1. PICK o \in Outcomes("roots") :
           \/ o.ok /\ Render([y EXCEPT !.roots = o.account], jar)
           \/ ~o.ok /\ Render(y, jar)
           \/ ~o.ok /\ Send("roots", None)
    BY DEF RootsEnd
  <1>2. "roots" \in Kind /\ Calling("roots")
           /\ {"me", "login", "logout"} \subseteq Kind \ {"roots"}
    BY DEF Kind, RootsEnd
  <1>3. o.account \in Account \cup {None}
    BY <1>2, OutcomeType DEF Outcome
  <1>4. OthersOK' /\ UNCHANGED <<spent, left, hops>>
    BY TabNow DEF OthersOK, RootsEnd
  <1>5. hops + Distance(tab) <= 3
    BY DEF Consistent
  <1>6. ASSUME NEW x \in TabState, Render(x, jar),
               x.user = tab.user, x.loading = tab.loading, x.path = tab.path,
               \A k \in Kind \ {"roots"} : x.calls[k] = tab.calls[k],
               x.calls["roots"] = None \/ x.calls["roots"].answer = None
        PROVE  Consistent'
    <2>1. Distance(x) = Distance(tab)
      BY <1>6 DEF Distance, LayoutShown
    <2> QED BY <1>2, <1>4, <1>5, <1>6, <2>1, RenderKeeps, TabNow
  <1>7. /\ y \in TabState /\ y.user = tab.user /\ y.loading = tab.loading
        /\ y.path = tab.path /\ y.calls["roots"] = None
        /\ \A k \in Kind \ {"roots"} : y.calls[k] = tab.calls[k]
    BY <1>2, EndedType, TabNow DEF Without, TabState
  <1> HIDE DEF y
  <1>8. CASE Render([y EXCEPT !.roots = o.account], jar)
    <2> DEFINE x == [y EXCEPT !.roots = o.account]
    <2>1. /\ x \in TabState /\ x.user = y.user /\ x.loading = y.loading
          /\ x.path = y.path /\ x.calls = y.calls
      BY <1>3, <1>7 DEF TabState
    <2> QED BY <1>6, <1>7, <1>8, <2>1
  <1>9. CASE Render(y, jar)
    BY <1>6, <1>7, <1>9
  <1>10. CASE Send("roots", None)
    <2>1. Render(Sending("roots", None), jar)
      BY <1>10 DEF Send, Sending
    <2> QED BY <1>2, <1>6, <2>1, SendType
  <1> QED BY <1>1, <1>8, <1>9, <1>10

(* The tab goes somewhere, no farther from rest than it has hops left.     *)
LEMMA MoveKeeps ==
  ASSUME Consistent, NEW path \in Path, NEW from \in Protected \cup {None},
         Render(At(tab, path, from), jar), hops' + Distance(At(tab, path, from)) <= 3,
         hops' \in Nat, UNCHANGED <<live, spent, jar, loads, left, doubtful>>
  PROVE  Consistent'
  <1> DEFINE x == At(tab, path, from)
  <1>1. x \in TabState /\ x.user = tab.user /\ x.loading = tab.loading /\ x.calls = tab.calls
    BY AtType, TabNow
  <1>2. OthersOK'
    BY TabNow DEF OthersOK
  <1> HIDE DEF x
  <1>3. Render(x, jar) /\ hops' + Distance(x) <= 3
    BY DEF x
  <1> QED BY <1>1, <1>2, <1>3, RenderKeeps, TabNow

LEMMA VisitStep == ASSUME Consistent, Visit PROVE Consistent'
  <1>1. PICK path \in Protected : Render(At(tab, path, None), jar)
    BY DEF Visit
  <1>2. path \in Path /\ hops' = 0
    BY DEF Path, Visit
  <1>3. hops' + Distance(At(tab, path, None)) <= 3
    BY <1>2, DistanceBound
  <1> QED BY <1>1, <1>2, <1>3, MoveKeeps DEF Visit

(* A redirect comes nearer to rest.                                        *)
LEMMA GoesKeeps ==
  ASSUME Consistent, NEW path \in Path, NEW from \in Protected \cup {None}, Goes(path, from),
         Distance(At(tab, path, from)) < Distance(tab)
  PROVE  Consistent'
  <1>1. hops \in Nat /\ hops + Distance(tab) <= 3 /\ hops' = hops + 1
    BY DEF Consistent, TypeOK, Goes
  <1>2. hops' + Distance(At(tab, path, from)) <= 3
    BY <1>1, DistanceBound
  <1> QED BY <1>1, <1>2, MoveKeeps DEF Goes

LEMMA RedirectStep == ASSUME Consistent, Redirect PROVE Consistent'
  <1>1. \A path \in Path, from \in Protected \cup {None} :
           LET x == At(tab, path, from)
           IN  x.user = tab.user /\ x.loading = tab.loading /\ x.path = path
    BY AtType, TabNow
  <1>2. Protected \subseteq Path /\ "/" \in Protected /\ "/login" \in Path
    BY DEF Path, Protected
  <1>3. CASE RedirectUnknown
    <2>1. Distance(At(tab, "/", None)) < Distance(tab)
      BY <1>1, <1>2, <1>3 DEF RedirectUnknown, Distance
    <2> QED BY <1>2, <1>3, <2>1, GoesKeeps DEF RedirectUnknown
  <1>4. CASE RedirectToLogin
    <2>1. Distance(At(tab, "/login", tab.path)) < Distance(tab)
      BY <1>1, <1>2, <1>4 DEF RedirectToLogin, Distance, Protected
    <2> QED BY <1>2, <1>4, <2>1, GoesKeeps DEF RedirectToLogin
  <1>5. CASE RedirectByRole
    <2>1. RolesFor("/") = {"ADMIN", "MANAGER", "VIEWER"}
      BY DEF RolesFor
    <2>2. tab.user \in Account /\ RoleOf[tab.user] \in RolesFor("/")
      BY <1>5, <2>1, RoleAssumption, TabNow DEF RedirectByRole, Known, TabState
    <2>3. tab.path # "/"
      BY <1>5, <2>2 DEF RedirectByRole, Known, LayoutShown
    <2>4. Distance(At(tab, "/", None)) < Distance(tab)
      BY <1>1, <1>2, <1>5, <2>3 DEF RedirectByRole, Known, Distance, Protected
    <2> QED BY <1>2, <1>5, <2>4, GoesKeeps DEF RedirectByRole
  <1>6. CASE RedirectHome
    <2> DEFINE role == RoleOf[tab.user]
               x == At(tab, HomePath(role), None)
    <2>1. tab.user \in Account /\ role \in {"ADMIN", "MANAGER", "VIEWER"}
      BY <1>6, RoleAssumption, TabNow DEF RedirectHome, Known, TabState
    <2>2. /\ HomePath(role) \in {"/admin", "/admin/users", "/files"}
          /\ role \in RolesFor(HomePath(role))
      BY <2>1 DEF HomePath, RolesFor
    <2>3. HomePath(role) \in Protected
      BY HomeIsPath
    <2>4. x.user = tab.user /\ x.loading = tab.loading /\ x.path = HomePath(role)
      BY <1>1, <1>2, <2>3
    <2>5. LayoutShown(x)
      BY <1>6, <2>2, <2>3, <2>4 DEF LayoutShown, RedirectHome, Known
    <2>6. Distance(x) = 0
      BY <1>6, <2>2, <2>4, <2>5 DEF Distance, RedirectHome, Known
    <2>7. Distance(tab) = 1
      BY <1>6 DEF Distance, RedirectHome, Known
    <2> QED BY <1>2, <1>6, <2>3, <2>6, <2>7, GoesKeeps DEF RedirectHome
  <1>7. CASE RedirectFromLogin
    <2> DEFINE x == At(tab, LandingPath(tab, tab.user), None)
    <2>1. LandingPath(tab, tab.user) \in Protected
      BY <1>7, LandingIsPath, TabNow DEF RedirectFromLogin, Known, TabState
    <2>2. x.user = tab.user /\ x.loading = tab.loading /\ x.path \in Protected
      BY <1>1, <1>2, <2>1
    <2>3. Distance(x) < 3
      BY <1>7, <2>2 DEF Distance, RedirectFromLogin, Known, Protected
    <2>4. Distance(tab) = 3
      BY <1>7 DEF Distance, RedirectFromLogin, Known
    <2> QED BY <1>2, <1>7, <2>1, <2>3, <2>4, GoesKeeps DEF RedirectFromLogin
  <1> QED BY <1>3, <1>4, <1>5, <1>6, <1>7 DEF Redirect

-----------------------------------------------------------------------------
(* The header and the cookie.                                              *)

(* Calls were sent with a cookie of a session given out by then.           *)
CookiesSpent == \A k \in Kind : Calling(k) => tab.calls[k].cookie \in spent \cup {None}

Honoured(c, sessions) == IF c \in DOMAIN sessions THEN sessions[c] ELSE None

(* A tab, the cookie of the browser and the server agree: on who is signed *)
(* in, on what me is about to tell, and on what a login is about to bring: *)
(* a session of its own, which no logout under way can end.                *)
Agree(x, cookie, sessions) ==
    /\ ~x.loading /\ x.calls["logout"] = None => x.user = Honoured(cookie, sessions)
    /\ LET call == x.calls["me"]
       IN  call # None =>
               /\ call.cookie = cookie
               /\ call.answer # None => call.answer.account = Honoured(cookie, sessions)
    /\ LET call == x.calls["login"]
           s == call.answer.session
       IN  call # None /\ call.answer # None /\ call.answer.ok =>
               /\ s \in DOMAIN sessions /\ sessions[s] = call.answer.account /\ s # cookie
               /\ x.calls["logout"] # None => x.calls["logout"].cookie # s

Agreement == CookiesSpent /\ (~doubtful => Agree(tab, jar, live))

LEMMA CookiesKept ==
  ASSUME Consistent, CookiesSpent, NEW x \in TabState, NEW c \in Session \cup {None}, Render(x, c),
         c \in spent' \cup {None}, spent \subseteq spent',
         \A k \in Kind : \/ x.calls[k] = None
                         \/ x.calls[k] = tab.calls[k]
                         \/ x.calls[k].cookie \in spent \cup {None}
  PROVE  CookiesSpent'
  <1> SUFFICES ASSUME NEW k \in Kind, Calling(k)' PROVE tab'.calls[k].cookie \in spent' \cup {None}
    BY DEF CookiesSpent
  <1>1. CASE tab'.calls[k] = x.calls[k]
    BY <1>1 DEF CookiesSpent, Calling
  <1>2. CASE tab'.calls[k].cookie = c
    BY <1>2
  <1> QED BY <1>1, <1>2, RenderResult

LEMMA ShownAgrees ==
  ASSUME Consistent, NEW x \in TabState, NEW c \in Session \cup {None}, Render(x, c),
         Agree(x, jar', live')
  PROVE  Agree(tab', jar', live')
  <1>1. {"me", "login", "logout"} \subseteq Kind \ {"roots"}
    BY DEF Kind
  <1>2. /\ tab'.user = x.user /\ tab'.loading = x.loading
        /\ tab'.calls["me"] = x.calls["me"] /\ tab'.calls["login"] = x.calls["login"]
        /\ tab'.calls["logout"] = x.calls["logout"]
    BY <1>1, RenderResult
  <1> QED BY <1>2 DEF Agree

(* Steps that concern neither who is signed in nor what is about to be     *)
(* told; a login may be sent or given up.                                  *)
LEMMA SameAgrees ==
  ASSUME Consistent, Agreement, NEW x \in TabState, Render(x, jar),
         UNCHANGED <<live, spent, jar, doubtful>>,
         x.user = tab.user, x.loading = tab.loading,
         x.calls["me"] = tab.calls["me"], x.calls["logout"] = tab.calls["logout"],
         \/ x.calls["login"] = tab.calls["login"]
         \/ x.calls["login"] = None
         \/ x.calls["login"].answer = None,
         \A k \in Kind : \/ x.calls[k] = None
                         \/ x.calls[k] = tab.calls[k]
                         \/ x.calls[k].cookie \in spent \cup {None}
  PROVE  Agreement'
  <1>1. jar \in Session \cup {None} /\ jar \in spent \cup {None}
    BY TabNow DEF OthersOK
  <1>2. CookiesSpent'
    BY <1>1, CookiesKept DEF Agreement
  <1>3. ASSUME ~doubtful PROVE Agree(x, jar', live')
    BY <1>3 DEF Agreement, Agree
  <1> QED BY <1>1, <1>2, <1>3, ShownAgrees DEF Agreement

(* Steps that leave the cookies alone and end, or keep, the agreement.     *)
LEMMA AnswersCookies ==
  ASSUME Consistent, CookiesSpent, NEW kind \in Kind, Unserved(kind), NEW o \in Outcome,
         Answers(kind, o), spent \subseteq spent'
  PROVE  CookiesSpent'
  BY AnswersResult DEF CookiesSpent

LEMMA QueryAgrees ==
  ASSUME Consistent, Agreement, NEW kind \in Kind, ServeQuery(kind) PROVE Agreement'
  <1> DEFINE a == Holder(tab.calls[kind].cookie)
             o == IF a = None THEN Failure ELSE Success(a, None)
  <1>1. a \in Account \cup {None} /\ kind \in {"me", "roots"}
    BY TabNow DEF Holder, OthersOK, ServeQuery
  <1>2. o \in Outcome /\ o.account = a
    BY <1>1 DEF Failure, Success, Outcome
  <1>3. Unserved(kind) /\ Answers(kind, o) /\ UNCHANGED <<live, spent, jar, doubtful>>
    BY DEF ServeQuery, Answers
  <1>4. a = Honoured(tab.calls[kind].cookie, live)
    BY DEF Holder, Honoured
  <1> HIDE DEF a, o
  <1>5. CookiesSpent'
    BY <1>2, <1>3, AnswersCookies DEF Agreement
  <1>6. /\ tab'.user = tab.user /\ tab'.loading = tab.loading
        /\ tab'.calls["login"] = tab.calls["login"] /\ tab'.calls["logout"] = tab.calls["logout"]
    BY <1>1, <1>2, <1>3, AnswersResult DEF Kind
  <1>7. CASE kind = "me"
    <2>1. /\ tab'.calls["me"].answer = o /\ tab'.calls["me"].cookie = tab.calls["me"].cookie
          /\ tab.calls["me"] # None
      BY <1>2, <1>3, <1>7, AnswersResult DEF Unserved, Calling
    <2> QED BY <1>2, <1>3, <1>4, <1>5, <1>6, <1>7, <2>1 DEF Agreement, Agree
  <1>8. CASE kind = "roots"
    <2>1. tab'.calls["me"] = tab.calls["me"]
      BY <1>2, <1>3, <1>8, AnswersResult DEF Kind
    <2> QED BY <1>3, <1>5, <1>6, <2>1 DEF Agreement, Agree
  <1> QED BY <1>1, <1>7, <1>8

LEMMA LoginServedAgrees == ASSUME Consistent, Agreement, ServeLogin PROVE Agreement'
  <1> DEFINE a == tab.calls["login"].account
  <1>1. "login" \in Kind /\ "logout" \in Kind /\ Unserved("login") /\ a \in Account
    BY TabNow DEF Kind, ServeLogin, Unserved, Calling
  <1>2. ASSUME NEW o \in Outcome, Answers("login", o), spent \subseteq spent'
        PROVE  /\ CookiesSpent'
               /\ tab'.user = tab.user /\ tab'.loading = tab.loading
               /\ tab'.calls["login"].answer = o
               /\ tab'.calls["me"] = tab.calls["me"] /\ tab'.calls["logout"] = tab.calls["logout"]
               /\ UNCHANGED <<jar, doubtful>>
    BY <1>1, <1>2, AnswersCookies, AnswersResult DEF Agreement, Kind, Answers
  <1>3. ASSUME NEW s \in Session, Opens(s, a), Answers("login", Success(a, s))
        PROVE  Agreement'
    <2> DEFINE o == Success(a, s)
    <2>1. o \in Outcome /\ o.session = s /\ o.account = a
      BY <1>1 DEF Success, Outcome
    <2>2. spent \subseteq spent' /\ s \notin spent /\ s # None
      BY <1>3, NoneAssumption DEF Opens
    <2>3. s \in DOMAIN live' /\ live'[s] = a
      BY <1>3 DEF Opens
    <2>4. jar # s /\ (tab.calls["logout"] # None => tab.calls["logout"].cookie # s)
      BY <1>1, <2>2, TabNow DEF Agreement, CookiesSpent, Calling, OthersOK
    <2>5. Honoured(jar, live') = Honoured(jar, live)
      BY <1>3, <2>4 DEF Opens, Honoured
    <2> HIDE DEF a, o
    <2>6. Answers("login", o)
      BY <1>3 DEF o
    <2> QED BY <1>2, <2>1, <2>2, <2>3, <2>4, <2>5, <2>6 DEF Agreement, Agree
  <1>4. CASE Answers("login", Failure) /\ UNCHANGED <<live, spent>>
    <2>1. Failure \in Outcome /\ ~Failure.ok
      BY DEF Failure, Outcome
    <2> QED BY <1>2, <1>4, <2>1 DEF Agreement, Agree
  <1> QED BY <1>3, <1>4 DEF ServeLogin

LEMMA LogoutServedAgrees == ASSUME Consistent, Agreement, ServeLogout PROVE Agreement'
  <1> DEFINE c == tab.calls["logout"].cookie
  <1>1. "logout" \in Kind /\ Unserved("logout") /\ tab.calls["logout"] # None
    BY DEF Kind, ServeLogout, Unserved, Calling
  <1>2. PICK o \in Outcome : Answers("logout", o)
    BY DEF ServeLogout, Success, Failure, Outcome
  <1>3. UNCHANGED spent /\ (UNCHANGED live \/ Ends(c))
    BY DEF ServeLogout
  <1>4. CookiesSpent'
    BY <1>1, <1>2, <1>3, AnswersCookies DEF Agreement
  <1>5. /\ tab'.loading = tab.loading /\ tab'.calls["login"] = tab.calls["login"]
        /\ tab'.calls["me"] = tab.calls["me"] /\ tab'.calls["logout"].cookie = c
        /\ tab'.calls["logout"] # None /\ UNCHANGED <<jar, doubtful>>
    BY <1>1, <1>2, AnswersResult DEF Kind, Answers, Calling
  <1>6. tab.calls["me"] = None
    BY <1>1, TabNow
  <1>7. \A s \in DOMAIN live \ {c} : s \in DOMAIN live' /\ live'[s] = live[s]
    BY <1>3 DEF Ends
  <1> HIDE DEF c
  <1>8. tab.calls["logout"].cookie = c
    BY DEF c
  <1> QED BY <1>1, <1>4, <1>5, <1>6, <1>7, <1>8 DEF Agreement, Agree

LEMMA MeAgrees == ASSUME Consistent, Agreement, MeEnds PROVE Agreement'
  <1>1. PICK o \in Outcomes("me") :
           /\ Render(Without("me", [ApplyMe(tab, o.account) EXCEPT !.loading = FALSE]), jar)
           /\ doubtful' = (doubtful \/ o # tab.calls["me"].answer)
    BY DEF MeEnds
  <1> DEFINE y == ApplyMe(tab, o.account)
             z == [y EXCEPT !.loading = FALSE]
             x == Without("me", z)
  <1>2. "me" \in Kind /\ Calling("me") /\ {"login", "logout"} \subseteq Kind \ {"me"}
    BY DEF Kind, MeEnds
  <1>3. o \in Outcome /\ o # None
    BY <1>2, OutcomeType, NoneAssumption
  <1>4. y \in TabState /\ y.user = o.account /\ y.calls = tab.calls
    BY <1>3, TabNow, ApplyMeType DEF Outcome
  <1> HIDE DEF y
  <1>5. z \in TabState /\ z.user = o.account /\ z.calls = tab.calls
    BY <1>4 DEF TabState
  <1> HIDE DEF z
  <1>6. x \in TabState /\ x.user = o.account /\ x.calls = [tab.calls EXCEPT !["me"] = None]
    BY <1>2, <1>5, WithoutType DEF Without, TabState
  <1> HIDE DEF x
  <1>7. x.calls["me"] = None /\ \A k \in Kind \ {"me"} : x.calls[k] = tab.calls[k]
    BY <1>2, <1>6, TabNow DEF TabState
  <1>8. Render(x, jar) /\ UNCHANGED <<live, spent, jar>>
           /\ jar \in Session \cup {None} /\ jar \in spent \cup {None}
    BY <1>1, TabNow DEF OthersOK, MeEnds, x, z, y
  <1>9. CookiesSpent'
    BY <1>2, <1>6, <1>7, <1>8, CookiesKept DEF Agreement
  <1>10. ASSUME ~doubtful' PROVE Agree(x, jar', live')
    <2>1. ~doubtful /\ o = tab.calls["me"].answer
      BY <1>1, <1>10
    <2>2. o.account = Honoured(jar, live)
      BY <1>2, <1>3, <2>1 DEF Agreement, Agree, Calling
    <2> QED BY <1>2, <1>6, <1>7, <1>8, <2>1, <2>2 DEF Agreement, Agree
  <1> QED BY <1>6, <1>8, <1>9, <1>10, ShownAgrees DEF Agreement

LEMMA SubmitLoginAgrees == ASSUME Consistent, Agreement, SubmitLogin PROVE Agreement'
  <1>1. PICK a \in Account : Render(Sending("login", a), jar)
    BY DEF SubmitLogin, Send, Sending
  <1>2. "login" \in Kind /\ {"me", "logout"} \subseteq Kind \ {"login"}
    BY DEF Kind
  <1>3. UNCHANGED <<live, spent, jar, doubtful>> /\ jar \in spent \cup {None}
    BY TabNow DEF SubmitLogin, OthersOK
  <1> DEFINE x == Sending("login", a)
  <1>4. /\ x \in TabState /\ x.user = tab.user /\ x.loading = tab.loading
        /\ x.calls["login"].answer = None /\ x.calls["login"].cookie \in spent \cup {None}
        /\ \A k \in Kind \ {"login"} : x.calls[k] = tab.calls[k]
    BY <1>2, <1>3, SendType, SentType, TabNow
  <1> HIDE DEF x
  <1>5. Render(x, jar)
    BY <1>1 DEF x
  <1> QED BY <1>2, <1>3, <1>4, <1>5, SameAgrees

LEMMA SubmitLogoutAgrees == ASSUME Consistent, Agreement, SubmitLogout PROVE Agreement'
  <1> DEFINE x == Sending("logout", None)
  <1>1. "logout" \in Kind /\ {"me", "login"} \subseteq Kind \ {"logout"}
    BY DEF Kind
  <1>2. /\ Render(x, jar) /\ UNCHANGED <<live, spent, jar, doubtful>> /\ ~tab.loading
        /\ jar \in Session \cup {None} /\ jar \in spent \cup {None}
    BY TabNow DEF SubmitLogout, Send, Sending, LayoutShown, OthersOK
  <1>3. /\ x \in TabState
        /\ x.calls["logout"] # None /\ x.calls["logout"].cookie = jar
        /\ \A k \in Kind \ {"logout"} : x.calls[k] = tab.calls[k]
    BY <1>1, <1>2, SendType, SentType
  <1>4. tab.calls["me"] = None
    BY <1>2, TabNow
  <1> HIDE DEF x
  <1>5. CookiesSpent'
    BY <1>2, <1>3, CookiesKept DEF Agreement
  <1>6. ASSUME ~doubtful PROVE Agree(x, jar', live')
    BY <1>1, <1>2, <1>3, <1>4, <1>6 DEF Agreement, Agree
  <1> QED BY <1>2, <1>3, <1>5, <1>6, ShownAgrees DEF Agreement

LEMMA LoginAgrees == ASSUME Consistent, Agreement, LoginEnds PROVE Agreement'
  <1>1. PICK o \in Outcomes("login") :
           \/ o.ok /\ SignedIn(o)
           \/ ~o.ok /\ Render(Without("login", tab), jar) /\ UNCHANGED <<jar, left, doubtful>>
           \/ /\ o.ok /\ jar' = o.session /\ doubtful' = TRUE
              /\ Render(Without("login", tab), jar') /\ UNCHANGED left
    BY DEF LoginEnds
  <1>2. "login" \in Kind /\ Calling("login") /\ {"me", "logout"} \subseteq Kind \ {"login"}
    BY DEF Kind, LoginEnds
  <1>3. o.session \in spent \cup {None} /\ (o.ok => o.account \in Account)
    BY <1>2, OutcomeType
  <1>4. spent \subseteq Session /\ UNCHANGED <<live, spent>>
    BY TabNow DEF LoginEnds, OthersOK
  <1> DEFINE y == Without("login", tab)
  <1>5. /\ y \in TabState /\ y.user = tab.user /\ y.loading = tab.loading
        /\ y.calls["login"] = None
        /\ \A k \in Kind \ {"login"} : y.calls[k] = tab.calls[k]
    BY <1>2, EndedType
  <1>6. CASE o.ok /\ SignedIn(o)
    <2> DEFINE w == ApplyMe(y, o.account)
    <2>1. w \in TabState /\ w.user = o.account /\ w.loading = tab.loading /\ w.calls = y.calls
      BY <1>3, <1>5, <1>6, ApplyMeType
    <2>2. PICK path \in Protected : Render(At(w, path, None), jar')
      BY <1>3, <1>6, HomeIsPath, LandingIsPath, TabNow DEF SignedIn
    <2>3. Protected \subseteq Path
      BY DEF Path
    <2> HIDE DEF w, y
    <2> DEFINE x == At(w, path, None)
    <2>4. x \in TabState /\ x.user = o.account /\ x.loading = tab.loading /\ x.calls = y.calls
      BY <2>1, <2>3, AtType
    <2> HIDE DEF x
    <2>5. jar' = o.session /\ doubtful' = (doubtful \/ Calling("me"))
      BY <1>6 DEF SignedIn
    <2>6. Render(x, jar') /\ jar' \in Session \cup {None} /\ jar' \in spent' \cup {None}
      BY <1>3, <1>4, <2>2, <2>5 DEF x
    <2>7. CookiesSpent'
      BY <1>4, <1>5, <2>4, <2>6, CookiesKept DEF Agreement
    <2>8. ASSUME ~doubtful' PROVE Agree(x, jar', live')
      <3>1. ~doubtful /\ tab.calls["me"] = None
        BY <2>5, <2>8 DEF Calling
      <3>2. o # Failure /\ o = tab.calls["login"].answer /\ o # None
        BY <1>2, <1>6, OutcomeType, NoneAssumption DEF Failure, Outcomes
      <3>3. o.session \in DOMAIN live /\ live[o.session] = o.account
        BY <1>2, <1>6, <3>1, <3>2 DEF Agreement, Agree, Calling
      <3>4. Honoured(jar', live') = o.account
        BY <1>4, <2>5, <3>3 DEF Honoured
      <3> QED BY <1>2, <1>5, <2>4, <3>1, <3>4 DEF Agree
    <2> QED BY <2>4, <2>6, <2>7, <2>8, ShownAgrees DEF Agreement
  <1>7. CASE ~o.ok /\ Render(y, jar) /\ UNCHANGED <<jar, left, doubtful>>
    <2> HIDE DEF y
    <2> QED BY <1>2, <1>4, <1>5, <1>7, SameAgrees
  <1>8. CASE jar' = o.session /\ doubtful' = TRUE /\ Render(y, jar')
    <2> HIDE DEF y
    <2>1. jar' \in Session \cup {None} /\ jar' \in spent' \cup {None}
      BY <1>3, <1>4, <1>8
    <2>2. CookiesSpent'
      BY <1>4, <1>5, <1>8, <2>1, CookiesKept DEF Agreement
    <2> QED BY <1>8, <2>2 DEF Agreement
  <1> QED BY <1>1, <1>6, <1>7, <1>8

LEMMA LogoutAgrees == ASSUME Consistent, Agreement, LogoutEnds PROVE Agreement'
  <1> DEFINE x == ApplyMe(Without("logout", tab), None)
  <1>1. "logout" \in Kind /\ Calling("logout") /\ {"me", "login"} \subseteq Kind \ {"logout"}
    BY DEF Kind, LogoutEnds
  <1>2. /\ x \in TabState /\ x.user = None /\ x.calls["logout"] = None
        /\ \A k \in Kind \ {"logout"} : x.calls[k] = tab.calls[k]
    BY <1>1, EndedType
  <1>3. tab.calls["me"] = None
    BY <1>1, TabNow DEF Calling
  <1>4. UNCHANGED <<live, spent>>
    BY DEF LogoutEnds
  <1>5. \/ /\ jar' = None /\ UNCHANGED doubtful
           /\ \E from \in Protected \cup {None} : Render(At(x, "/login", from), jar')
        \/ Render(x, jar) /\ doubtful' = TRUE /\ UNCHANGED jar
    BY DEF LogoutEnds
  <1> HIDE DEF x
  <1>6. ASSUME NEW from \in Protected \cup {None}, Render(At(x, "/login", from), jar'),
               jar' = None, doubtful' = doubtful
        PROVE  Agreement'
    <2> DEFINE z == At(x, "/login", from)
    <2>1. z \in TabState /\ z.user = None /\ z.calls = x.calls
      BY <1>2, AtType DEF Path
    <2> HIDE DEF z
    <2>2. Render(z, jar')
      BY <1>6 DEF z
    <2>3. CookiesSpent'
      BY <1>2, <1>4, <1>6, <2>1, <2>2, CookiesKept DEF Agreement
    <2>4. None \notin DOMAIN live
      BY NoneAssumption, TabNow DEF OthersOK
    <2>5. ASSUME ~doubtful PROVE Agree(z, jar', live')
      BY <1>1, <1>2, <1>3, <1>4, <1>6, <2>1, <2>4, <2>5 DEF Agreement, Agree, Honoured
    <2> QED BY <1>6, <2>1, <2>2, <2>3, <2>5, ShownAgrees DEF Agreement
  <1>7. CASE Render(x, jar) /\ doubtful' = TRUE
    <2>1. jar \in Session \cup {None} /\ jar \in spent' \cup {None}
      BY <1>4, TabNow DEF OthersOK
    <2>2. CookiesSpent'
      BY <1>2, <1>4, <1>7, <2>1, CookiesKept DEF Agreement
    <2> QED BY <1>7, <2>2 DEF Agreement
  <1> QED BY <1>5, <1>6, <1>7

LEMMA RootsAgrees == ASSUME Consistent, Agreement, RootsEnd PROVE Agreement'
  <1> DEFINE y == Without("roots", tab)
  <1>1. PICK o \in Outcomes("roots") :
           \/ Render([y EXCEPT !.roots = o.account], jar)
           \/ Render(y, jar)
           \/ Render(Sending("roots", None), jar)
    BY DEF RootsEnd, Send, Sending
  <1>2. "roots" \in Kind /\ Calling("roots") /\ {"me", "login", "logout"} \subseteq Kind \ {"roots"}
    BY DEF Kind, RootsEnd
  <1>3. o.account \in Account \cup {None} /\ jar \in Session \cup {None} /\ jar \in spent \cup {None}
    BY <1>2, OutcomeType, TabNow DEF Outcome, OthersOK
  <1>4. UNCHANGED <<live, spent, jar, doubtful>>
    BY DEF RootsEnd
  <1>5. /\ y \in TabState /\ y.user = tab.user /\ y.loading = tab.loading
        /\ y.calls["roots"] = None /\ \A k \in Kind \ {"roots"} : y.calls[k] = tab.calls[k]
    BY <1>2, EndedType
  <1> HIDE DEF y
  <1>6. CASE Render([y EXCEPT !.roots = o.account], jar)
    <2> DEFINE x == [y EXCEPT !.roots = o.account]
    <2>1. x \in TabState /\ x.user = y.user /\ x.loading = y.loading /\ x.calls = y.calls
      BY <1>3, <1>5 DEF TabState
    <2> HIDE DEF x
    <2>2. Render(x, jar)
      BY <1>6 DEF x
    <2> QED BY <1>2, <1>4, <1>5, <2>1, <2>2, SameAgrees
  <1>7. CASE Render(y, jar)
    BY <1>2, <1>4, <1>5, <1>7, SameAgrees
  <1>8. CASE Render(Sending("roots", None), jar)
    <2> DEFINE x == Sending("roots", None)
    <2>1. /\ x \in TabState /\ x.user = tab.user /\ x.loading = tab.loading
          /\ x.calls["roots"].cookie = jar /\ \A k \in Kind \ {"roots"} : x.calls[k] = tab.calls[k]
      BY <1>2, <1>3, SendType, SentType
    <2> HIDE DEF x
    <2>2. Render(x, jar)
      BY <1>8 DEF x
    <2> QED BY <1>2, <1>3, <1>4, <2>1, <2>2, SameAgrees
  <1> QED BY <1>1, <1>6, <1>7, <1>8

LEMMA MoveAgrees == ASSUME Consistent, Agreement, Visit \/ Redirect PROVE Agreement'
  <1>1. tab.path \in Protected \/ ~RedirectToLogin
    BY DEF RedirectToLogin
  <1>2. /\ \E path \in Path, from \in Protected \cup {None} : Render(At(tab, path, from), jar)
        /\ UNCHANGED <<live, spent, jar, doubtful>>
    <2>1. Protected \subseteq Path /\ "/login" \in Path /\ "/" \in Path
      BY DEF Path, Protected
    <2>2. CASE RedirectToLogin
      BY <1>1, <2>1, <2>2 DEF RedirectToLogin, Goes
    <2>3. CASE RedirectUnknown \/ RedirectByRole
      BY <2>1, <2>3 DEF RedirectUnknown, RedirectByRole, Goes
    <2>4. CASE RedirectHome
      BY <2>1, <2>4, HomeIsPath DEF RedirectHome, Goes
    <2>5. CASE RedirectFromLogin
      <3>1. LandingPath(tab, tab.user) \in Protected
        BY <2>5, LandingIsPath, TabNow DEF RedirectFromLogin, Known, TabState
      <3> QED BY <2>1, <2>5, <3>1 DEF RedirectFromLogin, Goes
    <2>6. CASE Visit
      <3>1. PICK path \in Protected : Render(At(tab, path, None), jar)
        BY <2>6 DEF Visit
      <3> QED BY <2>1, <2>6, <3>1 DEF Visit
    <2> QED BY <2>2, <2>3, <2>4, <2>5, <2>6 DEF Redirect
  <1>3. PICK path \in Path, from \in Protected \cup {None} : Render(At(tab, path, from), jar)
    BY <1>2
  <1> DEFINE x == At(tab, path, from)
  <1>4. x \in TabState /\ x.user = tab.user /\ x.loading = tab.loading /\ x.calls = tab.calls
    BY AtType, TabNow
  <1> HIDE DEF x
  <1>5. Render(x, jar)
    BY <1>3 DEF x
  <1> QED BY <1>2, <1>4, <1>5, SameAgrees

(* A tab that has just loaded; and the steps of others, which leave it     *)
(* doubtful.                                                               *)
LEMMA FreshAgrees == FreshTab /\ OthersOK => Agreement
  <1> SUFFICES ASSUME FreshTab, OthersOK PROVE Agreement
    OBVIOUS
  <1>1. PICK path \in Path, from \in Protected \cup {None} : tab = Fresh(path, from, jar)
    BY DEF FreshTab
  <1>2. jar \in Session \cup {None} /\ jar \in spent \cup {None}
    BY DEF OthersOK
  <1>3. /\ tab.loading
        /\ tab.calls = [k \in Kind |-> IF k = "me" THEN Sent(jar, None) ELSE None]
    BY <1>1, <1>2, FreshType
  <1>4. Sent(jar, None).answer = None /\ Sent(jar, None).cookie = jar
    BY <1>2, SentType
  <1> QED BY <1>2, <1>3, <1>4 DEF Agreement, CookiesSpent, Agree, Calling, Kind

LEMMA LoadAgrees == ASSUME Consistent, Load PROVE Agreement'
  <1>1. (FreshTab /\ OthersOK)'
    BY LoadFresh
  <1>2. (FreshTab /\ OthersOK => Agreement)'
    BY FreshAgrees, PTL
  <1> QED BY <1>1, <1>2

LEMMA OthersAgree ==
  ASSUME Consistent, Agreement, (\E s \in Session : End(s)) \/ Elsewhere
  PROVE  Agreement'
  <1>1. doubtful' = TRUE /\ tab' = tab /\ spent \subseteq spent'
    BY DEF End, Elsewhere, Opens
  <1> QED BY <1>1 DEF Agreement, CookiesSpent, Calling

-----------------------------------------------------------------------------
(* The theorems.                                                           *)

LEMMA InitFresh == Init => FreshTab /\ OthersOK
  <1> SUFFICES ASSUME Init PROVE FreshTab /\ OthersOK
    OBVIOUS
  <1>1. jar \in DOMAIN live \cup {None} /\ DOMAIN live \subseteq Session
           /\ \A s \in DOMAIN live : live[s] \in Account
    BY DEF Init
  <1>2. spent = DOMAIN live /\ loads = 0 /\ left \in BOOLEAN /\ doubtful \in BOOLEAN /\ hops = 0
    BY DEF Init
  <1>3. OthersOK
    BY <1>1, <1>2, MaxLoadsAssumption DEF OthersOK
  <1>4. FreshTab
    BY DEF Init, FreshTab
  <1> QED BY <1>3, <1>4

LEMMA ConsistentNext == Consistent /\ [Next]_vars => Consistent'
  <1> SUFFICES ASSUME Consistent, [Next]_vars PROVE Consistent'
    OBVIOUS
  <1>1. CASE UNCHANGED vars
    <2>1. OthersOK'
      BY <1>1, TabNow DEF OthersOK, vars
    <2> QED BY <1>1, <2>1, AroundKeeps DEF vars
  <1>2. CASE (\E kind \in Kind : ServeQuery(kind)) \/ ServeLogin \/ ServeLogout
    BY <1>2, QueryStep, LoginServed, LogoutServed
  <1>3. CASE (\E s \in Session : End(s)) \/ Elsewhere
    BY <1>3, EndStep, ElsewhereStep
  <1>4. CASE Load \/ MeEnds \/ SubmitLogin \/ LoginEnds
    BY <1>4, LoadStep, MeStep, SubmitLoginStep, LoginStep
  <1>5. CASE SubmitLogout \/ LogoutEnds \/ RootsEnd \/ Visit \/ Redirect
    BY <1>5, SubmitLogoutStep, LogoutStep, RootsStep, VisitStep, RedirectStep
  <1> QED BY <1>1, <1>2, <1>3, <1>4, <1>5 DEF Next

(* The invariant the three theorems below rest on: what a tab believes,    *)
(* what its calls may yet answer, and how far it is from a page, together. *)
THEOREM TabConsistent == Spec => []Consistent
  BY InitFresh, FreshConsistent, ConsistentNext, PTL DEF Spec

(* The tab, the cookie and the sessions keep their types: in particular a  *)
(* tab is loading exactly while it waits for its first answer (useAuth).   *)
THEOREM TabTypeCorrect == Spec => []TypeOK
  <1>1. Consistent => TypeOK
    BY DEF Consistent
  <1> QED BY <1>1, TabConsistent, PTL

(* A tab that was signed out shows nobody until it loads again or signs    *)
(* somebody in: no answer still under way brings an account back, whatever *)
(* other tabs, expiry and lost answers do meanwhile (useAuth.logout).      *)
THEOREM SigningOutLasts == Spec => []SignedOutStaysOut
  <1>1. Consistent => SignedOutStaysOut
    BY DEF Consistent
  <1> QED BY <1>1, TabConsistent, PTL

(* At most three redirects follow one another, for any accounts and roles: *)
(* AppRouter, ProtectedRoute, HomeRedirect and LoginPage never loop.       *)
THEOREM RedirectionsEnd == Spec => []RedirectsEnd
  <1>1. Consistent => RedirectsEnd
    BY DistanceBound DEF Consistent, TypeOK, RedirectsEnd
  <1> QED BY <1>1, TabConsistent, PTL

(* The invariant of the theorem below: every answer still under way and    *)
(* every cookie a call was sent with fit what the tab shows.               *)
THEOREM TabAgrees == Spec => []Agreement
  <1>1. Init => Agreement
    BY InitFresh, FreshAgrees
  <1>2. Consistent /\ Agreement /\ [Next]_vars => Agreement'
    <2> SUFFICES ASSUME Consistent, Agreement, [Next]_vars PROVE Agreement'
      OBVIOUS
    <2>1. CASE UNCHANGED vars
      BY <2>1 DEF vars, Agreement, CookiesSpent, Calling
    <2>2. CASE (\E kind \in Kind : ServeQuery(kind)) \/ ServeLogin \/ ServeLogout
      BY <2>2, QueryAgrees, LoginServedAgrees, LogoutServedAgrees
    <2>3. CASE (\E s \in Session : End(s)) \/ Elsewhere
      BY <2>3, OthersAgree
    <2>4. CASE Load \/ MeEnds \/ SubmitLogin \/ LoginEnds
      BY <2>4, LoadAgrees, MeAgrees, SubmitLoginAgrees, LoginAgrees
    <2>5. CASE SubmitLogout \/ LogoutEnds \/ RootsEnd \/ Visit \/ Redirect
      BY <2>5, SubmitLogoutAgrees, LogoutAgrees, RootsAgrees, MoveAgrees
    <2> QED BY <2>1, <2>2, <2>3, <2>4, <2>5 DEF Next
  <1> QED BY <1>1, <1>2, TabConsistent, PTL DEF Spec

(* A tab that has loaded and is not signing out shows the account its      *)
(* cookie stands for at the server, in whatever order its answers to me,   *)
(* to logins and to logouts are given and arrive, unless one was lost, a   *)
(* login overtook me, or others changed the cookie or the session.         *)
THEOREM HeaderIsRight == Spec => []HeaderAgrees
  <1>1. Agreement => HeaderAgrees
    BY DEF Agreement, Agree, HeaderAgrees, Calling, Holder, Honoured
  <1> QED BY <1>1, TabAgrees, PTL
=============================================================================
