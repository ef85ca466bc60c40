--------------------------- MODULE AdminPagesProofs ---------------------------
(***************************************************************************)
(* What AdminPages promises, for any search terms and any number of calls  *)
(* and moves.                                                              *)
(***************************************************************************)
EXTENDS AdminPages, TLAPS

Answers == SUBSET Call

\* The queries that a call has invalidated so far.
Done(call) ==
    CASE call.stage = "settling" ->
            {k \in Key : \E i \in 1..call.step : k \in Invalidates(call.kind)[i]}
      [] call.stage = "ended" ->
            {k \in Key : \E i \in 1..Len(Invalidates(call.kind)) : k \in Invalidates(call.kind)[i]}
      [] OTHER -> {}

\* Answers only grow, and never run ahead of the server.
AnswersGrow ==
    \A k \in Key :
        /\ queries[k].data # None => queries[k].data \subseteq committed
        /\ queries[k].fetch \notin {None, Sent} =>
              /\ queries[k].fetch \subseteq committed
              /\ queries[k].data # None => queries[k].data \subseteq queries[k].fetch

StagesAgree ==
    \A c \in Made :
        /\ calls[c].stage \in {"answered", "settling", "ended"} => c \in committed
        /\ calls[c].stage = "settling" => calls[c].step \in 1..Len(Invalidates(calls[c].kind))
        /\ calls[c].stage # "settling" => calls[c].awaits = {}

\* The query, on screen or not, has the effect of c, or the fetch under way will
\* bring it, or the next to look at it will ask again.
Covers(query, c, seen) ==
    \/ query.data # None /\ c \in query.data
    \/ query.fetch = Sent
    \/ query.fetch \notin {None, Sent} /\ c \in query.fetch
    \/ query.fetch = None /\ (query.failed \/ ~seen)

CallsCovered ==
    \A c \in Made : \A k \in Done(calls[c]) :
        <<c, k>> \in missed \/ Covers(queries[k], c, k \in OnScreen)

\* What a page entered since the commit asked for is still covered, wherever the
\* tab has gone after it.
EntriesCovered ==
    \A c \in committed, k \in Key : <<c, k>> \in entered => Covers(queries[k], c, TRUE)

\* On the same view a call has the fetches it caused, or waits for them.
Has(query, c) == query.failed \/ (query.data # None /\ c \in query.data)

CallsWait ==
    \A c \in here : \A k \in Done(calls[c]) \cap OnScreen :
        <<c, k>> \in missed \/ k \in calls[c].awaits \/ Has(queries[k], c)

Coherent ==
    /\ TypeOK /\ AnswersGrow /\ StagesAgree
    /\ CallsCovered /\ EntriesCovered /\ CallsWait

-----------------------------------------------------------------------------
LEMMA Keys ==
  /\ Term \subseteq Key /\ "user" \in Key /\ "permissions" \in Key
  /\ OnScreen \subseteq Key \/ view \notin View
  BY DEF Key, View, OnScreen

\* What onSuccess invalidates has all that shows the effect near the button.
LEMMA NothingLeftOut ==
  ASSUME NEW call \in CallState, NEW kind, kind = call.kind
  PROVE  /\ Len(Invalidates(kind)) \in 0..2
         /\ \A i \in 1..Len(Invalidates(kind)) : Invalidates(kind)[i] \subseteq Key
         /\ ShownBy(call) \cap NearBy(kind) \subseteq
               {k \in Key : \E i \in 1..Len(Invalidates(kind)) : k \in Invalidates(kind)[i]}
  <1>0. kind \in Kind /\ Term \subseteq Key /\ {"user", "permissions"} \subseteq Key
        /\ ShownBy(call) \subseteq Key /\ Term \cap {"user", "permissions"} = {}
    BY AdminPagesAssumption DEF CallState, Key, ShownBy
  <1>1. CASE kind \in ListKind
    <2>1. Invalidates(kind) = <<Term>> /\ NearBy(kind) = Term
      BY <1>1 DEF Invalidates, NearBy, ListKind
    <2>2. Len(<<Term>>) = 1 /\ <<Term>>[1] = Term
      OBVIOUS
    <2> QED
      BY <1>0, <2>1, <2>2
  <1>2. CASE kind = "save"
    <2>1. Invalidates(kind) = <<{"user"}, Term>> /\ NearBy(kind) = {"user"} \cup Term
      BY <1>2 DEF Invalidates, NearBy, ListKind
    <2>2. Len(<<{"user"}, Term>>) = 2 /\ <<{"user"}, Term>>[1] = {"user"}
          /\ <<{"user"}, Term>>[2] = Term
      OBVIOUS
    <2> QED
      BY <1>0, <2>1, <2>2
  <1>3. CASE kind = "reset"
    <2>1. Invalidates(kind) = <<>> /\ NearBy(kind) = {"user"} \cup Term
      BY <1>3 DEF Invalidates, NearBy, ListKind
    <2>2. ShownBy(call) \cap NearBy(kind) = {}
      <3>1. \A k \in Term : k \notin ShownBy(call)
        BY <1>3, AdminPagesAssumption DEF ShownBy
      <3>2. "user" \notin ShownBy(call)
        BY <1>0, <1>3 DEF ShownBy
      <3> QED
        BY <2>1, <3>1, <3>2
    <2> QED
      BY <2>1, <2>2
  <1>4. CASE kind \in PermissionKind
    <2>1. /\ Invalidates(kind) = <<{"permissions"}, Term>>
          /\ NearBy(kind) = {"user", "permissions"} \cup Term
      BY <1>4 DEF Invalidates, NearBy, ListKind, PermissionKind
    <2>2. Len(<<{"permissions"}, Term>>) = 2 /\ <<{"permissions"}, Term>>[1] = {"permissions"}
          /\ <<{"permissions"}, Term>>[2] = Term
      OBVIOUS
    <2>3. "user" \notin ShownBy(call)
      BY <1>0, <1>4 DEF ShownBy, PermissionKind
    <2> QED
      BY <1>0, <2>1, <2>2, <2>3
  <1> QED
    BY <1>0, <1>1, <1>2, <1>3, <1>4 DEF Kind

LEMMA CallTypes ==
  ASSUME TypeOK
  PROVE  /\ Made = 1..Len(calls) /\ Len(calls) \in Nat /\ Made \subseteq Call
         /\ \A c \in Made : calls[c] \in CallState
         /\ committed \in Answers
  BY AdminPagesAssumption DEF TypeOK, Made, Call, Answers

LEMMA AnswerTypes ==
  ASSUME NEW S \in Answers
  PROVE  S # None /\ S # Sent
  BY AdminPagesAssumption DEF Answers, Call

LEMMA InitCoherent == Init => Coherent
  <1> SUFFICES ASSUME Init PROVE Coherent
    OBVIOUS
  <1> USE DEF Init
  <1>0. Made = {} /\ Len(calls) = 0 /\ calls \in Seq(CallState)
    BY DEF Made
  <1>1. TypeOK
    <2>1. queries \in [Key -> Query(SUBSET Call)]
      BY DEF NewQuery, Asked, Query
    <2>2. Len(calls) + moves <= MaxInputs /\ moves \in Nat
      BY <1>0, AdminPagesAssumption
    <2>3. view \in View
      BY AdminPagesAssumption DEF View
    <2> QED
      BY <1>0, <2>1, <2>2, <2>3 DEF TypeOK
  <1>2. AnswersGrow
    BY DEF AnswersGrow, NewQuery, Asked
  <1> QED
    BY <1>0, <1>1, <1>2 DEF Coherent, StagesAgree, CallsCovered, EntriesCovered, CallsWait

-----------------------------------------------------------------------------
(* What a step may do to one query: nothing, ask again, be served, settle. *)

\* The queries keep their types and their answers grow.
Tidy(query, server) ==
    /\ query \in Query(Answers)
    /\ query.data # None => query.data \subseteq server
    /\ query.fetch \notin {None, Sent} =>
          query.fetch \subseteq server /\ (query.data # None => query.data \subseteq query.fetch)

LEMMA TidyQueries ==
  TypeOK /\ AnswersGrow =>
      queries \in [Key -> Query(Answers)] /\ \A k \in Key : Tidy(queries[k], committed)
  BY DEF TypeOK, AnswersGrow, Tidy, Answers

LEMMA TidySteps ==
  ASSUME NEW query, NEW server \in Answers, Tidy(query, server)
  PROVE  /\ Tidy(Mounted(query), server) /\ Tidy(Invalidated(query), server)
         /\ query.fetch = Sent => Tidy(Served(query, server), server)
         /\ query.fetch \notin {None, Sent} => Tidy(Settled(query), server)
         /\ Tidy(Failed(query), server)
         /\ \A more \in Answers : server \subseteq more => Tidy(query, more)
  <1> USE AnswerTypes, AdminPagesAssumption
  <1>0. query \in [data: {None} \cup Answers, fetch: {None, Sent} \cup Answers, failed: BOOLEAN]
    BY DEF Tidy, Query
  <1>1. Tidy(Asked(query), server)
    BY <1>0 DEF Tidy, Query, Asked
  <1>2. Tidy(Mounted(query), server) /\ Tidy(Invalidated(query), server)
    BY <1>1 DEF Mounted, Invalidated
  <1>3. query.fetch = Sent => Tidy(Served(query, server), server)
    BY <1>0 DEF Tidy, Query, Served
  <1>4. query.fetch \notin {None, Sent} => Tidy(Settled(query), server)
    BY <1>0 DEF Tidy, Query, Settled
  <1>5. Tidy(Failed(query), server)
    BY <1>0 DEF Tidy, Query, Failed
  <1>6. \A more \in Answers : server \subseteq more => Tidy(query, more)
    BY DEF Tidy
  <1> QED
    BY <1>2, <1>3, <1>4, <1>5, <1>6

LEMMA CoverSteps ==
  ASSUME NEW query, NEW c, NEW seen \in BOOLEAN, NEW server \in Answers,
         Tidy(query, server), Covers(query, c, seen), c \in server
  PROVE  /\ Covers(Mounted(query), c, TRUE) /\ Covers(query, c, FALSE)
         /\ Covers(Invalidated(query), c, seen)
         /\ query.fetch = Sent => Covers(Served(query, server), c, seen)
         /\ query.fetch \notin {None, Sent} =>
               /\ Covers(Settled(query), c, seen)
               /\ Has(Settled(query), c)
         /\ query.fetch = Sent => Covers(Failed(query), c, seen) /\ Has(Failed(query), c)
  <1> USE AnswerTypes, AdminPagesAssumption
  <1>0. query \in [data: {None} \cup Answers, fetch: {None, Sent} \cup Answers, failed: BOOLEAN]
    BY DEF Tidy, Query
  <1>1. Asked(query).fetch = Sent
    BY <1>0 DEF Asked
  <1>2. Covers(Asked(query), c, seen) /\ Covers(Asked(query), c, TRUE)
    BY <1>1 DEF Covers
  <1>3. Covers(Mounted(query), c, TRUE)
    BY <1>2 DEF Mounted, Fetching, Covers
  <1>4. Covers(query, c, FALSE)
    BY DEF Covers
  <1>5. Covers(Invalidated(query), c, seen)
    BY <1>2 DEF Invalidated
  <1>6. query.fetch = Sent => Covers(Served(query, server), c, seen)
    BY <1>0 DEF Served, Covers
  <1>7. ASSUME query.fetch \notin {None, Sent}
        PROVE  Covers(Settled(query), c, seen) /\ Has(Settled(query), c)
    <2>1. c \in query.fetch
      BY <1>7 DEF Covers, Tidy
    <2>2. Settled(query).data = query.fetch
      BY DEF Settled
    <2> QED
      BY <1>7, <2>1, <2>2 DEF Covers, Has
  <1>8. Failed(query).failed /\ Failed(query).fetch = None
    BY <1>0 DEF Failed
  <1>9. Covers(Failed(query), c, seen) /\ Has(Failed(query), c)
    BY <1>8 DEF Covers, Has
  <1> QED
    BY <1>3, <1>4, <1>5, <1>6, <1>7, <1>9

\* An invalidation covers every query it does not miss.
LEMMA InvalidationCovers ==
  ASSUME NEW query, NEW server \in Answers, Tidy(query, server), NEW c
  PROVE  /\ ~(Fetching(query) /\ Joins(query)) => Covers(Invalidated(query), c, TRUE)
         /\ ~Fetching(query) => Covers(query, c, FALSE)
  <1>0. query \in [data: {None} \cup Answers, fetch: {None, Sent} \cup Answers, failed: BOOLEAN]
    BY DEF Tidy, Query
  <1>1. Asked(query).fetch = Sent
    BY <1>0 DEF Asked
  <1> QED
    BY <1>1 DEF Invalidated, Joins, Loading, Fetching, Covers

LEMMA HasSteps ==
  ASSUME NEW query, NEW c, NEW server, Tidy(query, server), Has(query, c)
  PROVE  Has(Asked(query), c) /\ Has(Invalidated(query), c) /\ \A S : Has(Served(query, S), c)
  <1>0. query \in [data: {None} \cup Answers, fetch: {None, Sent} \cup Answers, failed: BOOLEAN]
    BY DEF Tidy, Query
  <1>1. Has(Asked(query), c)
    BY <1>0 DEF Has, Asked
  <1>2. \A S : Has(Served(query, S), c)
    BY <1>0 DEF Has, Served
  <1> QED
    BY <1>1, <1>2 DEF Invalidated

-----------------------------------------------------------------------------
(* The steps.                                                              *)

\* Calls of the same type, each with the same keys done and no new await.
SameCalls ==
    /\ DOMAIN calls' = Made /\ calls' \in Seq(CallState)
    /\ \A c \in Made :
          /\ calls'[c].kind = calls[c].kind /\ calls'[c].stage = calls[c].stage
          /\ calls'[c].step = calls[c].step /\ calls'[c].awaits \subseteq calls[c].awaits

LEMMA SameCallsAgree ==
  ASSUME TypeOK, StagesAgree, SameCalls, committed' = committed
  PROVE  /\ Made' = Made /\ Len(calls') = Len(calls)
         /\ StagesAgree'
         /\ \A c \in Made : Done(calls'[c]) = Done(calls[c])
  <1>1. Made' = Made /\ Len(calls') = Len(calls)
    BY CallTypes DEF SameCalls, Made
  <1>2. \A c \in Made : Done(calls'[c]) = Done(calls[c])
    BY DEF SameCalls, Done
  <1>3. StagesAgree'
    BY <1>1 DEF SameCalls, StagesAgree
  <1> QED
    BY <1>1, <1>2, <1>3

LEMMA TidyAgree ==
  ASSUME NEW server, committed' = server, queries' \in [Key -> Query(Answers)],
         \A k \in Key : Tidy(queries'[k], server)
  PROVE  AnswersGrow'
  BY DEF AnswersGrow, Tidy

LEMMA ReleasedSame ==
  ASSUME TypeOK, NEW k, calls' = Released(k)
  PROVE  SameCalls /\ \A c \in Made : calls'[c].awaits = calls[c].awaits \ {k}
  <1>1. Made = 1..Len(calls) /\ Len(calls) \in Nat /\ \A c \in Made : calls[c] \in CallState
    BY CallTypes
  <1>2. calls' = [c \in 1..Len(calls) |-> [calls[c] EXCEPT !.awaits = @ \ {k}]]
    BY <1>1 DEF Released
  <1>3. \A c \in Made : [calls[c] EXCEPT !.awaits = @ \ {k}] \in CallState
    BY <1>1 DEF CallState
  <1>4. calls' \in Seq(CallState)
    BY <1>1, <1>2, <1>3
  <1>5. \A c \in Made : calls'[c] = [calls[c] EXCEPT !.awaits = @ \ {k}]
    BY <1>1, <1>2
  <1>6. \A c \in Made :
          /\ calls'[c].kind = calls[c].kind /\ calls'[c].stage = calls[c].stage
          /\ calls'[c].step = calls[c].step /\ calls'[c].awaits = calls[c].awaits \ {k}
    BY <1>1, <1>5 DEF CallState
  <1>7. DOMAIN calls' = Made
    BY <1>1, <1>2
  <1> QED
    BY <1>4, <1>6, <1>7 DEF SameCalls

LEMMA UnmountedSame ==
  ASSUME TypeOK, calls' = Unmounted
  PROVE  SameCalls
  <1>1. Made = 1..Len(calls) /\ Len(calls) \in Nat /\ \A c \in Made : calls[c] \in CallState
    BY CallTypes
  <1>2. calls' = [c \in 1..Len(calls) |-> [calls[c] EXCEPT !.mine = FALSE]]
    BY <1>1 DEF Unmounted
  <1>3. \A c \in Made : [calls[c] EXCEPT !.mine = FALSE] \in CallState
    BY <1>1 DEF CallState
  <1>4. calls' \in Seq(CallState)
    BY <1>1, <1>2, <1>3
  <1>5. \A c \in Made : calls'[c] = [calls[c] EXCEPT !.mine = FALSE]
    BY <1>1, <1>2
  <1>6. \A c \in Made :
          /\ calls'[c].kind = calls[c].kind /\ calls'[c].stage = calls[c].stage
          /\ calls'[c].step = calls[c].step /\ calls'[c].awaits = calls[c].awaits
    BY <1>1, <1>5 DEF CallState
  <1>7. DOMAIN calls' = Made
    BY <1>1, <1>2
  <1> QED
    BY <1>4, <1>6, <1>7 DEF SameCalls

LEMMA Identical ==
  ASSUME TypeOK, calls' = calls
  PROVE  SameCalls
  BY DEF TypeOK, SameCalls, Made

\* What CallsCovered says of a call and a key of it, with the call's place.
LEMMA DoneIsServed ==
  ASSUME Coherent, NEW c \in Made, NEW k \in Done(calls[c])
  PROVE  c \in committed /\ k \in Key /\ calls[c].stage \in {"settling", "ended"}
  <1>1. calls[c] \in CallState
    BY CallTypes DEF Coherent
  <1>2. calls[c].stage \in {"settling", "ended"}
    BY DEF Done
  <1>3. c \in committed
    BY <1>2 DEF Coherent, StagesAgree
  <1>4. k \in Key
    BY <1>2 DEF Done
  <1> QED
    BY <1>2, <1>3, <1>4

LEMMA ShowKeeps ==
  ASSUME Coherent, NEW v \in View, Show(v)
  PROVE  Coherent'
  <1> USE DEF Coherent
  <1>1. SameCalls
    BY UnmountedSame, Identical DEF Show
  <1>2. /\ Made' = Made /\ Len(calls') = Len(calls) /\ StagesAgree'
        /\ \A c \in Made : Done(calls'[c]) = Done(calls[c])
    BY <1>1, SameCallsAgree DEF Show
  <1>3. queries \in [Key -> Query(Answers)] /\ \A k \in Key : Tidy(queries[k], committed)
    BY TidyQueries
  <1>4. \A k \in Key : queries'[k] = IF k \in OnScreen' THEN Mounted(queries[k]) ELSE queries[k]
    BY DEF Show
  <1>5. committed \in Answers /\ committed' = committed /\ Made \subseteq Call
    BY CallTypes DEF Show
  <1>6. \A k \in Key : Tidy(queries'[k], committed)
    BY <1>3, <1>4, <1>5, TidySteps
  <1>7. queries' \in [Key -> Query(Answers)]
    BY <1>6 DEF Show, Tidy
  <1>8. AnswersGrow'
    BY <1>5, <1>6, <1>7, TidyAgree
  <1>9. TypeOK'
    <2>1. view' \in View /\ here' \subseteq Made' /\ committed' \subseteq Made'
      BY <1>2, <1>5 DEF TypeOK, Show
    <2>2. Len(calls') + moves' <= MaxInputs /\ moves' \in Nat
      <3>1. Len(calls) \in Nat /\ moves \in Nat /\ MaxInputs \in Nat
        BY CallTypes, AdminPagesAssumption DEF TypeOK
      <3>2. Len(calls) + moves < MaxInputs /\ moves' = moves + 1
        BY DEF Show, InputLeft
      <3> QED
        BY <1>2, <3>1, <3>2
    <2>3. missed' \subseteq Call \X Key /\ calls' \in Seq(CallState)
      BY <1>1 DEF TypeOK, Show, SameCalls
    <2>4. entered' \subseteq committed' \X Key
      <3>1. OnScreen' \subseteq Key
        BY <2>1 DEF OnScreen, View, Key
      <3>2. entered \subseteq committed \X Key
        BY DEF TypeOK
      <3> QED
        BY <1>5, <3>1, <3>2 DEF Show
    <2> QED
      BY <1>7, <2>1, <2>2, <2>3, <2>4 DEF TypeOK, Answers
  <1>10. CallsCovered'
    <2> SUFFICES ASSUME NEW c \in Made, NEW k \in Done(calls[c]), <<c, k>> \notin missed
                 PROVE  Covers(queries'[k], c, k \in OnScreen')
      BY <1>2 DEF CallsCovered, Show
    <2>1. c \in committed /\ k \in Key
      BY DoneIsServed
    <2>2. Covers(queries[k], c, k \in OnScreen)
      BY DEF CallsCovered
    <2>3. (k \in OnScreen) \in BOOLEAN
      OBVIOUS
    <2>4. Covers(Mounted(queries[k]), c, TRUE) /\ Covers(queries[k], c, FALSE)
      BY <1>3, <1>5, <2>1, <2>2, <2>3, CoverSteps
    <2>5. CASE k \in OnScreen'
      <3>1. queries'[k] = Mounted(queries[k])
        BY <1>4, <2>1, <2>5
      <3>2. Covers(queries'[k], c, TRUE)
        BY <2>4, <3>1
      <3> QED
        BY <2>5, <3>2 DEF Covers
    <2>6. CASE k \notin OnScreen'
      <3>1. queries'[k] = queries[k]
        BY <1>4, <2>1, <2>6
      <3>2. Covers(queries'[k], c, FALSE)
        BY <2>4, <3>1
      <3> QED
        BY <2>6, <3>2 DEF Covers
    <2> QED
      BY <2>5, <2>6
  <1>11. CallsWait'
    BY DEF CallsWait, Show
  <1>12. EntriesCovered'
    <2> SUFFICES ASSUME NEW c \in committed, NEW k \in Key, <<c, k>> \in entered'
                 PROVE  Covers(queries'[k], c, TRUE)
      BY <1>5 DEF EntriesCovered
    <2>1. queries'[k] = IF k \in OnScreen' THEN Mounted(queries[k]) ELSE queries[k]
      BY <1>4
    <2>2. CASE <<c, k>> \in entered
      <3>1. Covers(queries[k], c, TRUE)
        BY <2>2 DEF EntriesCovered
      <3>2. Covers(Mounted(queries[k]), c, TRUE)
        BY <1>3, <1>5, <3>1, CoverSteps
      <3> QED
        BY <2>1, <3>1, <3>2
    <2>3. CASE <<c, k>> \notin entered
      <3>1. k \in OnScreen' /\ ~Fetching(queries[k])
        BY <2>3 DEF Show
      <3>2. queries'[k] = Asked(queries[k])
        BY <2>1, <3>1 DEF Mounted
      <3>3. queries'[k].fetch = Sent
        BY <1>3, <3>2 DEF Asked, Tidy, Query
      <3> QED
        BY <3>3 DEF Covers
    <2> QED
      BY <2>2, <2>3
  <1> QED
    BY <1>2, <1>8, <1>9, <1>10, <1>11, <1>12

LEMMA ClickKeeps ==
  ASSUME Coherent, NEW kind \in Kind, NEW other \in BOOLEAN, Click(kind, other)
  PROVE  Coherent'
  <1> DEFINE new == [kind |-> kind, other |-> other, stage |-> "sent", step |-> 0, awaits |-> {}, mine |-> TRUE]
             n == Len(calls) + 1
  <1> USE DEF Coherent
  <1>1. /\ Made = 1..Len(calls) /\ Len(calls) \in Nat /\ Made \subseteq Call
        /\ calls \in Seq(CallState) /\ new \in CallState
    <2>1. new \in CallState
      BY DEF CallState
    <2> QED
      BY <2>1, CallTypes DEF TypeOK
  <1>2. calls' = Append(calls, new)
    BY DEF Click
  <1>3. /\ calls' \in Seq(CallState) /\ Len(calls') = n /\ Made' = Made \cup {n}
        /\ calls'[n] = new /\ \A c \in Made : calls'[c] = calls[c]
    <2> HIDE DEF new
    <2> QED
      BY <1>1, <1>2 DEF Made
  <1>4. Done(calls'[n]) = {}
    BY <1>3 DEF Done
  <1>5. UNCHANGED <<view, queries, committed, missed, entered, moves>> /\ here' = here \cup {n}
    BY DEF Click
  <1>6. TypeOK'
    <2>1. Len(calls') + moves' <= MaxInputs
      <3>1. moves \in Nat /\ MaxInputs \in Nat /\ Len(calls) + moves < MaxInputs
        BY AdminPagesAssumption DEF TypeOK, Click, InputLeft
      <3> QED
        BY <1>1, <1>3, <1>5, <3>1
    <2>2. committed' \subseteq Made' /\ here' \subseteq Made'
      BY <1>3, <1>5 DEF TypeOK
    <2> QED
      BY <1>3, <1>5, <2>1, <2>2 DEF TypeOK
  <1>7. AnswersGrow'
    BY <1>5 DEF AnswersGrow
  <1>8. StagesAgree'
    BY <1>3, <1>5 DEF StagesAgree
  <1>9. CallsCovered'
    BY <1>3, <1>4, <1>5 DEF CallsCovered, OnScreen
  <1>10. CallsWait'
    <2>1. here \subseteq Made
      BY DEF TypeOK
    <2> QED
      BY <1>3, <1>4, <1>5, <2>1 DEF CallsWait, OnScreen
  <1>11. EntriesCovered'
    BY <1>5 DEF EntriesCovered
  <1> QED
    BY <1>6, <1>7, <1>8, <1>9, <1>10, <1>11

LEMMA CommitKeeps ==
  ASSUME Coherent, NEW c \in Made, Commit(c) \/ CallFails(c)
  PROVE  Coherent'
  <1> USE DEF Coherent
  <1>1. /\ Made = 1..Len(calls) /\ Len(calls) \in Nat /\ Made \subseteq Call
        /\ calls \in Seq(CallState) /\ \A d \in Made : calls[d] \in CallState
        /\ committed \in Answers
    BY CallTypes DEF TypeOK
  <1>2. /\ UNCHANGED <<view, queries, here, missed, entered, moves>>
        /\ calls[c].stage \in {"sent", "answered"}
    BY DEF Commit, CallFails
  <1>3. PICK call \in CallState :
            /\ calls' = [calls EXCEPT ![c] = call]
            /\ call.stage \in {"answered", "failed"} /\ call.awaits = calls[c].awaits
            /\ call.stage = "answered" => c \in committed'
    <2>1. CASE Commit(c)
      <3>1. [calls[c] EXCEPT !.stage = "answered"] \in CallState
        BY <1>1 DEF CallState
      <3> QED
        BY <1>1, <2>1, <3>1 DEF Commit, CallState
    <2>2. CASE CallFails(c)
      <3> DEFINE broken == [calls[c] EXCEPT !.stage = "failed", !.mine = FALSE]
      <3>1. /\ broken \in CallState
            /\ broken.stage = "failed" /\ broken.awaits = calls[c].awaits
        BY <1>1 DEF CallState
      <3>2. calls' = [calls EXCEPT ![c] = broken]
        BY <1>1, <2>2 DEF CallFails
      <3> QED
        BY <3>1, <3>2
    <2> QED
      BY <2>1, <2>2
  <1>4. /\ calls' \in Seq(CallState) /\ Len(calls') = Len(calls) /\ Made' = Made
        /\ calls'[c] = call /\ \A d \in Made \ {c} : calls'[d] = calls[d]
    BY <1>1, <1>3 DEF Made
  <1>5. Done(calls'[c]) = {}
    BY <1>3, <1>4 DEF Done
  <1>6. committed \subseteq committed' /\ committed' \in Answers /\ committed' \subseteq Made
    BY <1>1 DEF TypeOK, Commit, CallFails, Answers
  <1>7. TypeOK'
    BY <1>2, <1>4, <1>6 DEF TypeOK
  <1>8. AnswersGrow'
    BY <1>2, <1>6, TidyQueries, TidySteps, TidyAgree, <1>1
  <1>9. StagesAgree'
    <2>1. call.stage # "settling" /\ call.awaits = {}
      BY <1>2, <1>3 DEF StagesAgree
    <2> QED
      BY <1>3, <1>4, <1>6, <2>1 DEF StagesAgree
  <1>10. CallsCovered'
    BY <1>2, <1>4, <1>5 DEF CallsCovered, OnScreen
  <1>11. CallsWait'
    <2>1. here \subseteq Made
      BY DEF TypeOK
    <2> QED
      BY <1>2, <1>4, <1>5, <2>1 DEF CallsWait, OnScreen
  <1>12. EntriesCovered'
    <2>1. entered \subseteq committed \X Key
      BY DEF TypeOK
    <2> QED
      BY <1>2, <2>1 DEF EntriesCovered
  <1> QED
    BY <1>7, <1>8, <1>9, <1>10, <1>11, <1>12

LEMMA FetchKeeps ==
  ASSUME Coherent, NEW k \in Key, FetchStep(k)
  PROVE  Coherent'
  <1> USE DEF Coherent
  <1>1. UNCHANGED <<view, committed, here, missed, entered, moves>>
    BY DEF FetchStep, Serve, Arrive, FetchFails
  <1>2. SameCalls /\ \A c \in Made : calls'[c].awaits = calls[c].awaits \/
                                         calls'[c].awaits = calls[c].awaits \ {k}
    BY ReleasedSame, Identical DEF FetchStep, Serve, Arrive, FetchFails
  <1>3. /\ Made' = Made /\ Len(calls') = Len(calls) /\ StagesAgree'
        /\ \A c \in Made : Done(calls'[c]) = Done(calls[c])
    BY <1>1, <1>2, SameCallsAgree
  <1>4. /\ queries \in [Key -> Query(Answers)] /\ \A j \in Key : Tidy(queries[j], committed)
        /\ committed \in Answers
    BY TidyQueries, CallTypes
  <1>5. PICK query :
            /\ queries' = [queries EXCEPT ![k] = query]
            /\ \/ /\ queries[k].fetch = Sent /\ query = Served(queries[k], committed)
                  /\ calls' = calls
               \/ queries[k].fetch \notin {None, Sent} /\ query = Settled(queries[k])
               \/ queries[k].fetch = Sent /\ query = Failed(queries[k])
    BY <1>4 DEF FetchStep, Serve, Arrive, FetchFails
  <1>6. Tidy(query, committed)
    BY <1>4, <1>5, TidySteps
  <1>7. /\ queries' \in [Key -> Query(Answers)] /\ \A j \in Key : Tidy(queries'[j], committed)
        /\ queries'[k] = query /\ \A j \in Key \ {k} : queries'[j] = queries[j]
    BY <1>4, <1>5, <1>6 DEF Tidy
  <1>8. AnswersGrow'
    BY <1>1, <1>7, TidyAgree
  <1>9. TypeOK'
    BY <1>1, <1>2, <1>3, <1>7 DEF TypeOK, SameCalls, Answers
  <1>10. ASSUME NEW c \in Made, k \in Done(calls[c]), <<c, k>> \notin missed
         PROVE  /\ Covers(query, c, k \in OnScreen)
                /\ Has(query, c) \/ (calls' = calls /\ query = Served(queries[k], committed))
    <2>1. c \in committed
      BY <1>10, DoneIsServed
    <2>2. Covers(queries[k], c, k \in OnScreen)
      BY <1>10 DEF CallsCovered
    <2>3. (k \in OnScreen) \in BOOLEAN
      OBVIOUS
    <2>4. /\ queries[k].fetch = Sent => Covers(Served(queries[k], committed), c, k \in OnScreen)
          /\ queries[k].fetch \notin {None, Sent} =>
                /\ Covers(Settled(queries[k]), c, k \in OnScreen)
                /\ Has(Settled(queries[k]), c)
          /\ queries[k].fetch = Sent =>
                /\ Covers(Failed(queries[k]), c, k \in OnScreen)
                /\ Has(Failed(queries[k]), c)
      BY <1>4, <2>1, <2>2, <2>3, CoverSteps
    <2> QED
      BY <1>5, <2>4, Zenon
  <1>11. CallsCovered'
    <2>1. OnScreen' = OnScreen
      BY <1>1 DEF OnScreen
    <2> SUFFICES ASSUME NEW c \in Made, NEW j \in Done(calls[c]), <<c, j>> \notin missed
                 PROVE  Covers(queries'[j], c, j \in OnScreen)
      BY <1>1, <1>3, <2>1 DEF CallsCovered
    <2>2. CASE j = k
      BY <1>7, <1>10, <2>2
    <2>3. CASE j # k
      <3>1. j \in Key
        BY DoneIsServed
      <3> QED
        BY <1>7, <2>3, <3>1 DEF CallsCovered
    <2> QED
      BY <2>2, <2>3
  <1>12. CallsWait'
    <2>1. OnScreen' = OnScreen /\ here \subseteq Made
      BY <1>1 DEF OnScreen, TypeOK
    <2> SUFFICES ASSUME NEW c \in here, NEW j \in Done(calls[c]) \cap OnScreen,
                        <<c, j>> \notin missed
                 PROVE  j \in calls'[c].awaits \/ Has(queries'[j], c)
      BY <1>1, <1>3, <2>1 DEF CallsWait
    <2>2. j \in calls[c].awaits \/ Has(queries[j], c)
      BY DEF CallsWait
    <2>3. CASE j = k
      <3>1. CASE calls' = calls /\ query = Served(queries[k], committed)
        <4>1. Tidy(queries[k], committed) /\ queries'[k] = Served(queries[k], committed)
          BY <1>4, <1>7, <3>1
        <4>2. Has(queries[k], c) => Has(queries'[k], c)
          BY <4>1, HasSteps
        <4> QED
          BY <2>2, <2>3, <3>1, <4>2
      <3>2. CASE Has(query, c)
        BY <1>7, <2>3, <3>2
      <3> QED
        BY <1>10, <2>1, <2>3, <3>1, <3>2
    <2>4. CASE j # k
      <3>1. j \in Key
        BY <2>1, DoneIsServed
      <3> QED
        BY <1>2, <1>7, <2>1, <2>2, <2>4, <3>1
    <2> QED
      BY <2>3, <2>4
  <1>13. EntriesCovered'
    <2> SUFFICES ASSUME NEW c \in committed, NEW j \in Key, <<c, j>> \in entered
                 PROVE  Covers(queries'[j], c, TRUE)
      BY <1>1 DEF EntriesCovered
    <2>1. Covers(queries[j], c, TRUE)
      BY DEF EntriesCovered
    <2>2. CASE j = k
      <3>1. /\ queries[k].fetch = Sent => Covers(Served(queries[k], committed), c, TRUE)
            /\ queries[k].fetch \notin {None, Sent} => Covers(Settled(queries[k]), c, TRUE)
            /\ queries[k].fetch = Sent => Covers(Failed(queries[k]), c, TRUE)
        BY <1>4, <2>1, <2>2, CoverSteps
      <3> QED
        BY <1>5, <1>7, <2>2, <3>1
    <2>3. CASE j # k
      BY <1>7, <2>1, <2>3
    <2> QED
      BY <2>2, <2>3
  <1> QED
    BY <1>3, <1>8, <1>9, <1>11, <1>12, <1>13

\* The n-th await of the onSuccess of c is due.
Onward(c, n) ==
    /\ \/ calls[c].stage = "answered" /\ n = 1
       \/ calls[c].stage = "settling" /\ n = calls[c].step + 1
    /\ calls[c].awaits = {}

\* What a change of the call c alone leaves as it was.
LEMMA OneCall ==
  ASSUME TypeOK, NEW c \in Made, NEW call \in CallState, calls' = [calls EXCEPT ![c] = call]
  PROVE  /\ calls' \in Seq(CallState) /\ Len(calls') = Len(calls) /\ Made' = Made
         /\ calls'[c] = call /\ \A d \in Made \ {c} : calls'[d] = calls[d]
  BY CallTypes DEF TypeOK, Made

LEMMA EndKeeps ==
  ASSUME Coherent, NEW c \in Made, NEW n, Onward(c, n), GoesOn(c, n),
         n > Len(Invalidates(calls[c].kind)), UNCHANGED <<view, committed, here, entered, moves>>
  PROVE  Coherent'
  <1> DEFINE call == [calls[c] EXCEPT !.stage = "ended", !.step = 0, !.mine = FALSE]
  <1> USE DEF Coherent
  <1>1. calls[c] \in CallState /\ \A d \in Made : calls[d] \in CallState
    BY CallTypes
  <1>2. /\ call \in CallState /\ call.stage = "ended" /\ call.kind = calls[c].kind
        /\ call.awaits = {}
    <2>1. calls[c].awaits = {}
      BY DEF Onward
    <2>2. /\ call \in CallState /\ call.stage = "ended" /\ call.kind = calls[c].kind
          /\ call.awaits = calls[c].awaits
      <3>1. 0 \in 0..2 /\ "ended" \in {"sent", "answered", "settling", "ended", "failed"}
        OBVIOUS
      <3> QED
        BY <1>1, <3>1 DEF CallState
    <2> QED
      BY <2>1, <2>2
  <1>3. calls' = [calls EXCEPT ![c] = call] /\ UNCHANGED <<queries, missed>>
    BY <1>1 DEF GoesOn, CallState
  <1>4. /\ calls' \in Seq(CallState) /\ Len(calls') = Len(calls) /\ Made' = Made
        /\ calls'[c] = call /\ \A d \in Made \ {c} : calls'[d] = calls[d]
    <2> HIDE DEF call
    <2> QED
      BY <1>2, <1>3, OneCall
  <1>5. c \in committed
    BY DEF Onward, StagesAgree
  <1>6. Done(calls'[c]) \subseteq Done(calls[c])
    <2>1. Done(calls'[c]) = {k \in Key : \E i \in 1..Len(Invalidates(calls[c].kind)) :
                                             k \in Invalidates(calls[c].kind)[i]}
      BY <1>2, <1>4 DEF Done
    <2>2. Len(Invalidates(calls[c].kind)) \in 0..2
      BY <1>1, NothingLeftOut
    <2>3. CASE calls[c].stage = "answered" /\ n = 1
      <3>1. Len(Invalidates(calls[c].kind)) = 0
        BY <2>2, <2>3
      <3> QED
        BY <2>1, <2>2, <3>1
    <2>4. CASE calls[c].stage = "settling" /\ n = calls[c].step + 1
      <3>1. calls[c].step = Len(Invalidates(calls[c].kind))
        BY <1>1, <2>2, <2>4 DEF StagesAgree, CallState
      <3> QED
        BY <2>1, <2>2, <2>4, <3>1 DEF Done
    <2> QED
      BY <2>3, <2>4 DEF Onward
  <1>7. TypeOK'
    BY <1>3, <1>4 DEF TypeOK
  <1>8. AnswersGrow'
    BY <1>3 DEF AnswersGrow
  <1>9. StagesAgree'
    BY <1>2, <1>4, <1>5 DEF StagesAgree
  <1>10. CallsCovered'
    BY <1>3, <1>4, <1>6 DEF CallsCovered, OnScreen
  <1>11. CallsWait'
    <2>1. here \subseteq Made /\ OnScreen' = OnScreen
      BY DEF TypeOK, OnScreen
    <2>2. calls[c].awaits = {}
      BY DEF Onward
    <2> SUFFICES ASSUME NEW d \in here, NEW k \in Done(calls'[d]) \cap OnScreen,
                        <<d, k>> \notin missed
                 PROVE  k \in calls'[d].awaits \/ Has(queries[k], d)
      BY <1>3, <2>1 DEF CallsWait
    <2>3. k \in Done(calls[d])
      BY <1>4, <1>6, <2>1
    <2>4. k \in calls[d].awaits \/ Has(queries[k], d)
      BY <2>3 DEF CallsWait
    <2> QED
      BY <1>4, <2>1, <2>2, <2>4
  <1>12. EntriesCovered'
    BY <1>3 DEF EntriesCovered
  <1> QED
    BY <1>7, <1>8, <1>9, <1>10, <1>11, <1>12

LEMMA SettleKeeps ==
  ASSUME Coherent, NEW c \in Made, NEW n, Onward(c, n), GoesOn(c, n),
         ~(n > Len(Invalidates(calls[c].kind))), UNCHANGED <<view, committed, here, entered, moves>>
  PROVE  Coherent'
  <1> DEFINE keys == Invalidates(calls[c].kind)[n]
             call == [calls[c] EXCEPT !.stage = "settling", !.step = n, !.awaits = Awaited(keys)]
  <1> USE DEF Coherent
  <1>1. calls[c] \in CallState /\ Made \subseteq Call /\ committed \in Answers
    BY CallTypes
  <1>2. /\ Len(Invalidates(calls[c].kind)) \in 0..2
        /\ n \in 1..Len(Invalidates(calls[c].kind)) /\ n \in 0..2 /\ keys \subseteq Key
    <2>1. /\ Len(Invalidates(calls[c].kind)) \in 0..2
          /\ \A i \in 1..Len(Invalidates(calls[c].kind)) : Invalidates(calls[c].kind)[i] \subseteq Key
      BY <1>1, NothingLeftOut
    <2>2. n \in Nat /\ n >= 1
      <3>1. calls[c].step \in 0..2
        BY <1>1 DEF CallState
      <3>2. n = 1 \/ n = calls[c].step + 1
        BY DEF Onward
      <3> QED
        BY <3>1, <3>2
    <2>3. n \in 1..Len(Invalidates(calls[c].kind)) /\ n \in 0..2
      <3> DEFINE last == Len(Invalidates(calls[c].kind))
      <3>1. last \in 0..2 /\ ~(n > last)
        BY <2>1
      <3> HIDE DEF last
      <3>2. n \in 1..last /\ n \in 0..2
        BY <2>2, <3>1
      <3> QED
        BY <3>2 DEF last
    <2> QED
      BY <2>1, <2>3
  <1>3. /\ call \in CallState /\ call.stage = "settling" /\ call.kind = calls[c].kind
        /\ call.step = n /\ call.awaits = keys \cap OnScreen
    BY <1>1, <1>2 DEF CallState, Awaited
  <1>4. /\ calls' = [calls EXCEPT ![c] = call]
        /\ queries' = [k \in Key |-> IF k \in keys \cap OnScreen
                                     THEN Invalidated(queries[k]) ELSE queries[k]]
        /\ missed' = missed \cup {<<c, k>> : k \in {j \in keys : Misses(j)}}
    BY <1>1 DEF GoesOn, CallState
  <1>5. /\ calls' \in Seq(CallState) /\ Len(calls') = Len(calls) /\ Made' = Made
        /\ calls'[c] = call /\ \A d \in Made \ {c} : calls'[d] = calls[d]
    <2> HIDE DEF call
    <2> QED
      BY <1>3, <1>4, OneCall
  <1>6. c \in committed
    BY DEF Onward, StagesAgree
  <1>7. Done(calls'[c]) \subseteq Done(calls[c]) \cup keys
    <2>1. Done(calls'[c]) = {k \in Key : \E i \in 1..n : k \in Invalidates(calls[c].kind)[i]}
      BY <1>3, <1>5 DEF Done
    <2>2. CASE calls[c].stage = "answered" /\ n = 1
      BY <2>1, <2>2
    <2>3. CASE calls[c].stage = "settling" /\ n = calls[c].step + 1
      <3>1. \A i \in 1..n : i \in 1..calls[c].step \/ i = n
        BY <1>1, <1>2, <2>3 DEF CallState
      <3>2. Done(calls[c]) = {k \in Key : \E i \in 1..calls[c].step : k \in Invalidates(calls[c].kind)[i]}
        BY <2>3 DEF Done
      <3> QED
        BY <2>1, <3>1, <3>2
    <2> QED
      BY <2>2, <2>3 DEF Onward
  <1>8. OnScreen' = OnScreen /\ committed' = committed /\ here' = here /\ here \subseteq Made
    BY DEF TypeOK, OnScreen
  <1>9. queries \in [Key -> Query(Answers)] /\ \A k \in Key : Tidy(queries[k], committed)
    BY TidyQueries
  <1> HIDE DEF keys, call
  <1>10. \A k \in Key : queries'[k] = IF k \in keys \cap OnScreen
                                     THEN Invalidated(queries[k]) ELSE queries[k]
    BY <1>4
  <1>11. \A k \in Key : Tidy(queries'[k], committed)
    BY <1>1, <1>9, <1>10, TidySteps
  <1>12. queries' \in [Key -> Query(Answers)]
    BY <1>4, <1>11 DEF Tidy
  <1>13. AnswersGrow'
    BY <1>8, <1>11, <1>12, TidyAgree
  <1>14. TypeOK'
    <2>1. missed' \subseteq Call \X Key
      BY <1>1, <1>2, <1>4 DEF TypeOK
    <2> QED
      BY <1>5, <1>8, <1>12, <2>1 DEF TypeOK, Answers
  <1>15. StagesAgree'
    BY <1>2, <1>3, <1>5, <1>6, <1>8 DEF StagesAgree
  <1>16. CallsCovered'
    <2> SUFFICES ASSUME NEW d \in Made, NEW k \in Done(calls'[d]), <<d, k>> \notin missed'
                 PROVE  Covers(queries'[k], d, k \in OnScreen)
      BY <1>5, <1>8 DEF CallsCovered
    <2>1. <<d, k>> \notin missed /\ (d = c /\ k \in keys => ~Misses(k))
      BY <1>4
    <2>2. k \in Done(calls[d]) \/ (d = c /\ k \in keys)
      BY <1>5, <1>7
    <2>3. k \in Key
      BY <1>2, <2>2, DoneIsServed
    <2>4. CASE k \in Done(calls[d])
      <3>1. Covers(queries[k], d, k \in OnScreen) /\ d \in committed
        BY <2>1, <2>4, DoneIsServed DEF CallsCovered
      <3>2. (k \in OnScreen) \in BOOLEAN
        OBVIOUS
      <3>3. Covers(Invalidated(queries[k]), d, k \in OnScreen)
        BY <1>1, <1>9, <2>3, <3>1, <3>2, CoverSteps
      <3> QED
        BY <1>10, <2>3, <3>1, <3>3
    <2>5. CASE d = c /\ k \in keys /\ k \in OnScreen
      <3>1. ~(Fetching(queries[k]) /\ Joins(queries[k]))
        BY <2>1, <2>5 DEF Misses
      <3>2. Covers(Invalidated(queries[k]), d, TRUE)
        BY <1>1, <1>9, <2>3, <3>1, InvalidationCovers
      <3>3. queries'[k] = Invalidated(queries[k])
        BY <1>10, <2>3, <2>5
      <3> QED
        BY <2>5, <3>2, <3>3 DEF Covers
    <2>6. CASE d = c /\ k \in keys /\ k \notin OnScreen
      <3>1. ~Fetching(queries[k])
        BY <2>1, <2>6 DEF Misses
      <3>2. Covers(queries[k], d, FALSE)
        BY <1>1, <1>9, <2>3, <3>1, InvalidationCovers
      <3>3. queries'[k] = queries[k]
        BY <1>10, <2>3, <2>6
      <3> QED
        BY <2>6, <3>2, <3>3 DEF Covers
    <2> QED
      BY <2>2, <2>4, <2>5, <2>6
  <1>17. CallsWait'
    <2> SUFFICES ASSUME NEW d \in here, NEW k \in Done(calls'[d]) \cap OnScreen,
                        <<d, k>> \notin missed'
                 PROVE  k \in calls'[d].awaits \/ Has(queries'[k], d)
      BY <1>8 DEF CallsWait
    <2>1. d \in Made /\ <<d, k>> \notin missed
      BY <1>4, <1>8
    <2>2. CASE d = c /\ k \in keys
      BY <1>3, <1>5, <2>2
    <2>3. CASE k \in Done(calls[d]) /\ ~(d = c /\ k \in keys)
      <3>1. k \in calls[d].awaits \/ Has(queries[k], d)
        BY <2>1, <2>3 DEF CallsWait
      <3>2. k \in Key
        BY <2>1, <2>3, DoneIsServed
      <3>3. Has(queries[k], d) => Has(queries'[k], d)
        BY <1>9, <1>10, <3>2, HasSteps
      <3>4. CASE d = c
        BY <3>1, <3>3, <3>4 DEF Onward
      <3>5. CASE d # c
        BY <1>5, <2>1, <3>1, <3>3, <3>5
      <3> QED
        BY <3>4, <3>5
    <2> QED
      BY <1>5, <1>7, <2>1, <2>2, <2>3
  <1>18. EntriesCovered'
    <2> SUFFICES ASSUME NEW d \in committed, NEW k \in Key, <<d, k>> \in entered
                 PROVE  Covers(queries'[k], d, TRUE)
      BY <1>8 DEF EntriesCovered
    <2>1. Covers(queries[k], d, TRUE)
      BY DEF EntriesCovered
    <2>2. Covers(Invalidated(queries[k]), d, TRUE)
      BY <1>1, <1>9, <2>1, CoverSteps
    <2> QED
      BY <1>10, <2>1, <2>2
  <1> QED
    BY <1>13, <1>14, <1>15, <1>16, <1>17, <1>18

LEMMA NextKeeps ==
  Coherent /\ [Next]_vars => Coherent'
  <1> SUFFICES ASSUME Coherent, [Next]_vars PROVE Coherent'
    OBVIOUS
  <1>1. ASSUME NEW v \in View, Show(v) PROVE Coherent'
    BY <1>1, ShowKeeps
  <1>2. ASSUME NEW kind \in Kind, NEW other \in BOOLEAN, Click(kind, other) PROVE Coherent'
    BY <1>2, ClickKeeps
  <1>3. ASSUME NEW c \in Made, CallStep(c) PROVE Coherent'
    <2>1. CASE Commit(c) \/ CallFails(c)
      BY <2>1, CommitKeeps
    <2>2. ASSUME NEW n, Onward(c, n), GoesOn(c, n), UNCHANGED <<view, committed, here, entered, moves>>
          PROVE  Coherent'
      BY <2>2, EndKeeps, SettleKeeps
    <2>3. CASE Answer(c)
      <3>1. Onward(c, 1)
        BY <2>3 DEF Answer, Onward, Coherent, StagesAgree
      <3> QED
        BY <2>2, <2>3, <3>1 DEF Answer
    <2>4. CASE Proceed(c)
      <3>1. Onward(c, calls[c].step + 1)
        BY <2>4 DEF Proceed, Onward
      <3> QED
        BY <2>2, <2>4, <3>1 DEF Proceed
    <2> QED
      BY <1>3, <2>1, <2>3, <2>4 DEF CallStep
  <1>4. ASSUME NEW k \in Key, FetchStep(k) PROVE Coherent'
    BY <1>4, FetchKeeps
  <1>5. CASE UNCHANGED vars
    BY <1>5 DEF vars, Coherent, TypeOK, AnswersGrow, StagesAgree, CallsCovered,
                EntriesCovered, CallsWait, Made, OnScreen
  <1> QED
    BY <1>1, <1>2, <1>3, <1>4, <1>5 DEF Next

-----------------------------------------------------------------------------
\* The inductive invariant: what an invalidation covers stays covered, wherever
\* the tab goes and whatever its other calls and fetches do meanwhile.
THEOREM PagesCoherent == Spec => []Coherent
  BY InitCoherent, NextKeeps, PTL DEF Spec

\* The cache and the calls keep their types, and answers run behind the server.
THEOREM PagesTypeCorrect == Spec => []TypeOK
  <1>1. Coherent => TypeOK
    BY DEF Coherent
  <1> QED
    BY <1>1, PagesCoherent, PTL

LEMMA EndedIsDone ==
  ASSUME Coherent, NEW c \in Made, NEW k, Due(c, k)
  PROVE  k \in Done(calls[c]) /\ k \in OnScreen /\ <<c, k>> \notin missed /\ calls[c].awaits = {}
  <1>1. /\ calls[c].stage = "ended" /\ k \in OnScreen
        /\ k \in ShownBy(calls[c]) \cap NearBy(calls[c].kind)
    BY DEF Due
  <1>2. calls[c].awaits = {}
    BY <1>1 DEF Coherent, StagesAgree
  <1>3. k \in Done(calls[c])
    <2>1. calls[c] \in CallState
      BY CallTypes DEF Coherent
    <2> QED
      BY <1>1, <2>1, NothingLeftOut DEF Done
  <1> QED
    BY <1>1, <1>2, <1>3 DEF Due

\* For every tab and every order of its clicks, moves, answers and refetches:
\* UsersPage, UserDetailPage and UserPermissionsPage invalidate all that shows a
\* call of theirs near its button, and a page entered later, AdminDashboardPage
\* included, has asked anew; neither is lost to a later move, answer or failure.
THEOREM NoQueryForgotten == Spec => []OwnChangesShown
  <1>1. Coherent => OwnChangesShown
    <2> SUFFICES ASSUME Coherent, NEW c \in Made, NEW k \in Key, Due(c, k) \/ DueSince(c, k),
                        ~Fetching(queries[k]), ~queries[k].failed, queries[k].data # None
                 PROVE  c \in queries[k].data
      BY DEF OwnChangesShown
    <2>1. queries[k].fetch = None /\ None # Sent
      BY AdminPagesAssumption DEF Fetching
    <2>2. CASE Due(c, k)
      <3>1. k \in Done(calls[c]) /\ k \in OnScreen /\ <<c, k>> \notin missed
        BY <2>2, EndedIsDone
      <3>2. Covers(queries[k], c, k \in OnScreen)
        BY <3>1 DEF Coherent, CallsCovered
      <3> QED
        BY <2>1, <3>1, <3>2 DEF Covers
    <2>3. CASE DueSince(c, k)
      <3>1. <<c, k>> \in entered /\ c \in committed
        BY <2>3 DEF DueSince, Coherent, TypeOK
      <3>2. Covers(queries[k], c, TRUE)
        BY <3>1 DEF Coherent, EntriesCovered
      <3> QED
        BY <2>1, <3>2 DEF Covers
    <2> QED
      BY <2>2, <2>3
  <1> QED
    BY <1>1, PagesCoherent, PTL

\* isPending ends only when the data on screen have the effect of the call.
THEOREM ButtonsWaitForData == Spec => []ButtonsWait
  <1>1. Coherent => ButtonsWait
    <2> SUFFICES ASSUME Coherent, NEW c \in here, NEW k \in Key, Due(c, k)
                 PROVE  Has(queries[k], c)
      BY DEF ButtonsWait, Has
    <2>1. c \in Made
      BY DEF Coherent, TypeOK
    <2>2. /\ k \in Done(calls[c]) /\ k \in OnScreen /\ <<c, k>> \notin missed
          /\ calls[c].awaits = {}
      BY <2>1, EndedIsDone
    <2> QED
      BY <2>2 DEF Coherent, CallsWait
  <1> QED
    BY <1>1, PagesCoherent, PTL

-----------------------------------------------------------------------------
(* What the calls wait for, and that they end.                             *)

\* No new await, and no fetch of one goes away: then none is waited for in vain.
LEMMA WaitsKept ==
  ASSUME TypeOK, WaitsForAFetch, SameCalls,
         \A c \in Made : \A k \in calls'[c].awaits : Fetching(queries[k]) => Fetching(queries'[k])
  PROVE  WaitsForAFetch'
  BY DEF WaitsForAFetch, SameCalls, Made

\* The call that goes on, and no other, has ended or waits for the next keys.
LEMMA GoesOnAlone ==
  ASSUME TypeOK, NEW c \in Made, NEW n, GoesOn(c, n)
  PROVE  /\ Made' = Made /\ \A d \in Made \ {c} : calls'[d] = calls[d]
         /\ \/ calls'[c].stage = "ended" /\ calls'[c].awaits = calls[c].awaits
               /\ queries' = queries
            \/ /\ calls'[c].stage = "settling" /\ calls'[c].step = n
               /\ \E keys : /\ calls'[c].awaits = keys \cap OnScreen
                            /\ queries' = [k \in Key |-> IF k \in keys \cap OnScreen
                                                         THEN Invalidated(queries[k])
                                                         ELSE queries[k]]
  <1>1. calls[c] \in CallState /\ calls \in Seq(CallState)
    BY CallTypes DEF TypeOK
  <1>2. ASSUME NEW call, calls' = [calls EXCEPT ![c] = call]
        PROVE  Made' = Made /\ calls'[c] = call /\ \A d \in Made \ {c} : calls'[d] = calls[d]
    BY <1>1, <1>2 DEF Made
  <1>3. CASE n > Len(Invalidates(calls[c].kind))
    <2> DEFINE call == [calls[c] EXCEPT !.stage = "ended", !.step = 0, !.mine = FALSE]
    <2>1. call.stage = "ended" /\ call.awaits = calls[c].awaits
      BY <1>1 DEF CallState
    <2>2. calls' = [calls EXCEPT ![c] = call] /\ queries' = queries
      BY <1>1, <1>3 DEF GoesOn, CallState
    <2> HIDE DEF call
    <2> QED
      BY <1>2, <2>1, <2>2
  <1>4. CASE ~(n > Len(Invalidates(calls[c].kind)))
    <2> DEFINE keys == Invalidates(calls[c].kind)[n]
               call == [calls[c] EXCEPT !.stage = "settling", !.step = n, !.awaits = Awaited(keys)]
    <2>1. call.stage = "settling" /\ call.step = n /\ call.awaits = keys \cap OnScreen
      BY <1>1 DEF CallState, Awaited
    <2>2. /\ calls' = [calls EXCEPT ![c] = call]
          /\ queries' = [k \in Key |-> IF k \in keys \cap OnScreen
                                       THEN Invalidated(queries[k]) ELSE queries[k]]
      BY <1>1, <1>4 DEF GoesOn, CallState
    <2> HIDE DEF call, keys
    <2>3. Made' = Made /\ calls'[c] = call /\ \A d \in Made \ {c} : calls'[d] = calls[d]
      BY <1>2, <2>2
    <2>4. calls'[c].stage = "settling" /\ calls'[c].step = n /\ calls'[c].awaits = keys \cap OnScreen
      BY <2>1, <2>3
    <2> QED
      BY <2>2, <2>3, <2>4
  <1> QED
    BY <1>3, <1>4

\* onSuccess waits for what it has just had asked, or found on its way.
LEMMA GoesOnWaits ==
  ASSUME Coherent, WaitsForAFetch, NEW c \in Made, NEW n, GoesOn(c, n)
  PROVE  WaitsForAFetch'
  <1> USE DEF Coherent
  <1>1. \A d \in Made : calls[d] \in CallState
    BY CallTypes
  <1>2. \A d \in Made : \A k \in calls[d].awaits : k \in Key
    BY <1>1 DEF CallState
  <1>3. Made' = Made /\ \A d \in Made \ {c} : calls'[d] = calls[d]
    BY GoesOnAlone
  <1>4. CASE calls'[c].awaits = calls[c].awaits /\ queries' = queries
    BY <1>3, <1>4 DEF WaitsForAFetch
  <1>5. ASSUME NEW keys, calls'[c].awaits = keys \cap OnScreen,
               queries' = [k \in Key |-> IF k \in keys \cap OnScreen
                                        THEN Invalidated(queries[k]) ELSE queries[k]]
        PROVE  WaitsForAFetch'
    <2>1. \A k \in Key : Fetching(Invalidated(queries[k]))
      <3> SUFFICES ASSUME NEW k \in Key PROVE Fetching(Invalidated(queries[k]))
        OBVIOUS
      <3>1. queries[k] \in Query(Answers) /\ Sent # None
        BY TidyQueries, AdminPagesAssumption
      <3>2. Asked(queries[k]).fetch = Sent
        BY <3>1 DEF Asked, Query
      <3> QED
        BY <3>1, <3>2 DEF Invalidated, Joins, Loading, Fetching
    <2>2. \A k \in Key : Fetching(queries[k]) => Fetching(queries'[k])
      BY <1>5, <2>1
    <2>3. keys \cap OnScreen \subseteq Key
      BY Keys DEF TypeOK
    <2>4. \A k \in keys \cap OnScreen : Fetching(queries'[k])
      BY <1>5, <2>1, <2>3
    <2> QED
      BY <1>3, <1>2, <1>5, <2>2, <2>4 DEF WaitsForAFetch
  <1> QED
    BY <1>4, <1>5, GoesOnAlone

\* An answer or a failure releases all who wait for that fetch.
LEMMA FetchReleases ==
  ASSUME Coherent, WaitsForAFetch, NEW k \in Key, FetchStep(k)
  PROVE  WaitsForAFetch'
  <1> USE DEF Coherent
  <1>1. queries \in [Key -> Query(Answers)] /\ committed \in Answers
    BY TidyQueries, CallTypes
  <1>2. \A c \in Made : calls[c].awaits \subseteq Key
    BY CallTypes DEF CallState
  <1>3. CASE Serve(k)
    <2>1. queries'[k].fetch = committed /\ \A j \in Key \ {k} : queries'[j] = queries[j]
      BY <1>1, <1>3 DEF Serve, Served, Query
    <2>2. Fetching(queries'[k])
      BY <1>1, <2>1, AnswerTypes DEF Fetching
    <2>3. SameCalls
      BY <1>3, Identical DEF Serve
    <2> QED
      BY <1>2, <2>1, <2>2, <2>3, WaitsKept DEF SameCalls
  <1>4. CASE Arrive(k) \/ FetchFails(k)
    <2>1. \A j \in Key \ {k} : queries'[j] = queries[j]
      BY <1>1, <1>4 DEF Arrive, FetchFails
    <2>2. SameCalls /\ \A c \in Made : calls'[c].awaits = calls[c].awaits \ {k}
      BY <1>4, ReleasedSame DEF Arrive, FetchFails
    <2> QED
      BY <1>2, <2>1, <2>2, WaitsKept
  <1> QED
    BY <1>3, <1>4 DEF FetchStep

LEMMA NextWaits ==
  Coherent /\ WaitsForAFetch /\ [Next]_vars => WaitsForAFetch'
  <1> SUFFICES ASSUME Coherent, WaitsForAFetch, [Next]_vars PROVE WaitsForAFetch'
    OBVIOUS
  <1> USE DEF Coherent
  <1>1. ASSUME NEW v \in View, Show(v) PROVE WaitsForAFetch'
    <2>1. SameCalls
      BY <1>1, UnmountedSame, Identical DEF Show
    <2>2. \A c \in Made : calls[c].awaits \subseteq Key
      BY CallTypes DEF CallState
    <2>3. \A k \in Key : Fetching(queries[k]) => queries'[k] = queries[k]
      BY <1>1 DEF Show, Mounted
    <2> QED
      BY <2>1, <2>2, <2>3, WaitsKept DEF SameCalls
  <1>2. ASSUME NEW kind \in Kind, NEW other \in BOOLEAN, Click(kind, other) PROVE WaitsForAFetch'
    <2> DEFINE new == [kind |-> kind, other |-> other, stage |-> "sent", step |-> 0, awaits |-> {}, mine |-> TRUE]
    <2>1. calls \in Seq(CallState) /\ calls' = Append(calls, new) /\ queries' = queries
          /\ new.awaits = {}
      BY <1>2 DEF Click, TypeOK
    <2> HIDE DEF new
    <2>2. /\ Made' = Made \cup {Len(calls) + 1} /\ calls'[Len(calls) + 1] = new
          /\ \A c \in Made : calls'[c] = calls[c]
      BY <2>1 DEF Made
    <2> QED
      BY <2>1, <2>2 DEF WaitsForAFetch
  <1>3. ASSUME NEW c \in Made, CallStep(c) PROVE WaitsForAFetch'
    <2>1. CASE Commit(c) \/ CallFails(c)
      <3>1. \A d \in Made : calls[d] \in CallState
        BY CallTypes
      <3>2. Made' = Made /\ \A d \in Made : calls'[d].awaits = calls[d].awaits
        <4>1. calls \in Seq(CallState)
          BY DEF TypeOK
        <4>2. CASE Commit(c)
          BY <3>1, <4>1, <4>2 DEF Commit, CallState, Made
        <4>3. CASE CallFails(c)
          BY <3>1, <4>1, <4>3 DEF CallFails, CallState, Made
        <4> QED
          BY <2>1, <4>2, <4>3
      <3>3. queries' = queries
        BY <2>1 DEF Commit, CallFails
      <3> QED
        BY <3>2, <3>3 DEF WaitsForAFetch
    <2>2. CASE Answer(c)
      BY <2>2, GoesOnWaits DEF Answer
    <2>3. CASE Proceed(c)
      BY <2>3, GoesOnWaits DEF Proceed
    <2> QED
      BY <1>3, <2>1, <2>2, <2>3 DEF CallStep
  <1>4. ASSUME NEW k \in Key, FetchStep(k) PROVE WaitsForAFetch'
    BY <1>4, FetchReleases
  <1>5. CASE UNCHANGED vars
    BY <1>5 DEF vars, WaitsForAFetch, Made
  <1> QED
    BY <1>1, <1>2, <1>3, <1>4, <1>5 DEF Next

\* A promise of invalidateQueries hangs on a fetch that is made: whatever left
\* the screen, was restarted by another call or failed, its waiters were released.
THEOREM AwaitsAreMet == Spec => []WaitsForAFetch
  <1>1. Init => WaitsForAFetch
    BY DEF Init, WaitsForAFetch, Made
  <1> QED
    BY <1>1, NextWaits, PagesCoherent, PTL DEF Spec

-----------------------------------------------------------------------------
(* Every click ends.                                                       *)

\* How far a call is: each await of its onSuccess is a level.
Level(call) ==
    CASE call.stage = "sent" -> 1
      [] call.stage = "answered" -> 2
      [] call.stage = "settling" -> 2 + call.step
      [] OTHER -> 5

At(c, n) == c \in Made /\ Level(calls[c]) = n
Past(c, n) == c \in Made /\ Level(calls[c]) > n

LEMMA LevelType ==
  ASSUME Coherent, NEW c \in Made
  PROVE  /\ Level(calls[c]) \in 1..5
         /\ Pending(c) <=> Level(calls[c]) \in 1..4
  <1>1. calls[c] \in CallState
    BY CallTypes DEF Coherent
  <1>2. CASE calls[c].stage = "settling"
    <2>1. calls[c].step \in 1..2
      <3>1. Len(Invalidates(calls[c].kind)) \in 0..2
        BY <1>1, NothingLeftOut
      <3>2. calls[c].step \in 1..Len(Invalidates(calls[c].kind))
        BY <1>2 DEF Coherent, StagesAgree
      <3> HIDE DEF Invalidates
      <3> QED
        BY <1>1, <3>1, <3>2 DEF CallState
    <2> QED
      BY <1>2, <2>1 DEF Level, Pending
  <1>3. CASE calls[c].stage # "settling"
    BY <1>1, <1>3 DEF Level, Pending, CallState
  <1> QED
    BY <1>2, <1>3

\* A step of a call takes it to a later level.
LEMMA CallStepRaises ==
  ASSUME Coherent, NEW c \in Made, CallStep(c), NEW n \in 1..4, At(c, n)
  PROVE  Past(c, n)'
  <1> USE DEF Coherent
  <1>1. calls[c] \in CallState /\ calls \in Seq(CallState)
    BY CallTypes DEF TypeOK
  <1>2. /\ Made' = Made
        /\ Level(calls'[c]) > Level(calls[c])
    <2>1. CASE Commit(c) \/ CallFails(c)
      BY <1>1, <2>1 DEF Commit, CallFails, Level, CallState, Made
    <2>2. ASSUME NEW m, Onward(c, m), GoesOn(c, m)
          PROVE  Made' = Made /\ Level(calls'[c]) > Level(calls[c])
      <3>1. Made' = Made
        BY <2>2, GoesOnAlone
      <3>2. CASE calls'[c].stage = "ended"
        <4>1. Level(calls'[c]) = 5
          BY <3>2 DEF Level
        <4> QED
          BY <3>1, <4>1 DEF At
      <3>3. CASE calls'[c].stage = "settling" /\ calls'[c].step = m
        <4>1. \/ m = 1 /\ Level(calls[c]) = 2
              \/ m \in Nat /\ Level(calls[c]) = 2 + m - 1
          BY <1>1, <2>2 DEF Onward, Level, CallState
        <4>2. Level(calls'[c]) = 2 + m
          BY <3>3 DEF Level
        <4> QED
          BY <3>1, <4>1, <4>2
      <3> QED
        BY <2>2, <3>2, <3>3, GoesOnAlone
    <2>3. CASE Answer(c)
      <3>1. Onward(c, 1)
        BY <2>3 DEF Answer, Onward, StagesAgree
      <3> QED
        BY <2>2, <2>3, <3>1 DEF Answer
    <2>4. CASE Proceed(c)
      <3>1. Onward(c, calls[c].step + 1)
        BY <2>4 DEF Proceed, Onward
      <3> QED
        BY <2>2, <2>4, <3>1 DEF Proceed
    <2> QED
      BY <2>1, <2>3, <2>4 DEF CallStep
  <1> QED
    BY <1>2 DEF At, Past

\* Nobody but a call itself moves it, and others only end its waiting.
LEMMA OthersLeaveCall ==
  ASSUME Coherent, [Next]_vars, NEW c \in Made, ~CallStep(c)
  PROVE  /\ c \in Made' /\ Level(calls'[c]) = Level(calls[c])
         /\ calls'[c].awaits \subseteq calls[c].awaits
  <1> USE DEF Coherent
  <1>1. calls \in Seq(CallState)
    BY DEF TypeOK
  <1>2. CASE SameCalls
    BY <1>2 DEF SameCalls, Level, Made
  <1>3. ASSUME NEW v \in View, Show(v) PROVE SameCalls
    BY <1>3, UnmountedSame, Identical DEF Show
  <1>4. ASSUME NEW kind \in Kind, NEW other \in BOOLEAN, Click(kind, other) PROVE c \in Made' /\ calls'[c] = calls[c]
    <2> DEFINE new == [kind |-> kind, other |-> other, stage |-> "sent", step |-> 0, awaits |-> {}, mine |-> TRUE]
    <2>1. calls' = Append(calls, new)
      BY <1>4 DEF Click
    <2> HIDE DEF new
    <2> QED
      BY <1>1, <2>1 DEF Made
  <1>5. ASSUME NEW d \in Made, CallStep(d) PROVE c \in Made' /\ calls'[c] = calls[c]
    <2>1. c # d
      BY <1>5
    <2> QED
      BY <1>1, <1>5, <2>1 DEF CallStep, Commit, CallFails, Answer, Proceed, GoesOn, Made
  <1>6. ASSUME NEW k \in Key, FetchStep(k) PROVE SameCalls
    BY <1>6, ReleasedSame, Identical DEF FetchStep, Serve, Arrive, FetchFails
  <1>7. CASE UNCHANGED vars
    BY <1>7 DEF vars, Made
  <1> QED
    BY <1>2, <1>3, <1>4, <1>5, <1>6, <1>7 DEF Next

Waiting(c, n) == At(c, n) ~> Past(c, n)

\* One level: the fetches waited for come to rest, and then the call has a fair
\* step that nobody can take away.
LEMMA EachAwaitPasses ==
  ASSUME NEW c \in Call, NEW n \in 1..4
  PROVE  Spec /\ CallFair(c) /\ []CanGoOn /\ []<>AtRest => Waiting(c, n)
  <1> DEFINE Idle == At(c, n) /\ calls[c].awaits = {}
  <1>1. Coherent /\ CanGoOn => (Idle => ENABLED <<GoOn(c)>>_vars)
    <2>1. Coherent /\ At(c, n) => Pending(c)
      BY LevelType DEF At
    <2> QED
      BY <2>1 DEF CanGoOn, At
  <1>2. Coherent /\ <<GoOn(c)>>_vars => (At(c, n) => Past(c, n)')
    BY CallStepRaises DEF GoOn
  <1>3. Coherent /\ [Next]_vars => (At(c, n) => At(c, n)' \/ Past(c, n)')
    BY CallStepRaises, OthersLeaveCall DEF At
  <1>4. Coherent /\ [Next]_vars => (Idle => Idle' \/ Past(c, n)')
    BY CallStepRaises, OthersLeaveCall DEF At
  <1>5. Coherent /\ WaitsForAFetch /\ AtRest => (At(c, n) => Idle)
    <2> SUFFICES ASSUME Coherent, WaitsForAFetch, AtRest, At(c, n) PROVE calls[c].awaits = {}
      OBVIOUS
    <2>1. c \in Made /\ calls[c].awaits \subseteq Key
      BY CallTypes DEF At, CallState, Coherent
    <2> QED
      BY <2>1 DEF WaitsForAFetch, AtRest
  <1> QED
    BY <1>1, <1>2, <1>3, <1>4, <1>5, PagesCoherent, AwaitsAreMet, PTL
    DEF Spec, CallFair, Waiting

\* No button stays disabled for good: each of the four awaits of a call passes
\* (its answer, onSuccess, the two invalidations), whatever the tab, its other
\* calls and its refetches do, as long as the tab comes to rest now and then.
THEOREM ClicksEnd == FairSpec /\ []CanGoOn /\ ComesToRest => EveryClickEnds
  <1>1. SUFFICES ASSUME NEW c \in Call
                 PROVE  FairSpec /\ []CanGoOn /\ ComesToRest =>
                        ((c \in Made /\ Pending(c)) ~> ~(c \in Made /\ Pending(c)))
    BY DEF EveryClickEnds
  <1>2. FairSpec => Spec /\ CallFair(c)
    BY DEF FairSpec
  <1>3. Spec /\ CallFair(c) /\ []CanGoOn /\ []<>AtRest =>
            Waiting(c, 1) /\ Waiting(c, 2) /\ Waiting(c, 3) /\ Waiting(c, 4)
    BY EachAwaitPasses
  <1>4. Coherent => (c \in Made /\ Pending(c) => At(c, 1) \/ At(c, 2) \/ At(c, 3) \/ At(c, 4))
    BY LevelType DEF At
  <1>5. Coherent => /\ Past(c, 1) => At(c, 2) \/ At(c, 3) \/ At(c, 4) \/ At(c, 5)
                    /\ Past(c, 2) => At(c, 3) \/ At(c, 4) \/ At(c, 5)
                    /\ Past(c, 3) => At(c, 4) \/ At(c, 5)
                    /\ Past(c, 4) => At(c, 5)
    BY LevelType DEF At, Past
  <1>6. Coherent => (At(c, 5) => ~(c \in Made /\ Pending(c)))
    BY LevelType DEF At
  <1> QED
    BY <1>2, <1>3, <1>4, <1>5, <1>6, PagesCoherent, PTL DEF Waiting, ComesToRest
=============================================================================
