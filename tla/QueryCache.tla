------------------------------ MODULE QueryCache ------------------------------
(***************************************************************************)
(* One query of TanStack Query as the pages of the web client use it, with *)
(* the defaults of App.tsx.  An answer is stale at once (staleTime 0), so  *)
(* whatever mounts asks again; the first failure of a fetch is retried,    *)
(* which leaves no trace, so a fetch below fails only for good.            *)
(***************************************************************************)

CONSTANTS None, Sent \* no answer, no fetch; a fetch that is not served yet

\* data is the last answer, fetch the one under way: sent, or served with an
\* answer that has not arrived.
Query(Answer) ==
    [data: {None} \cup Answer, fetch: {None, Sent} \cup Answer, failed: BOOLEAN]

NewQuery == [data |-> None, fetch |-> None, failed |-> FALSE]

Fetching(query) == query.fetch # None

\* isLoading.
Loading(query) == Fetching(query) /\ query.data = None

Asked(query) == [query EXCEPT !.fetch = Sent]

(* Mutant of Mounted: an answer in the cache is good enough (a staleTime). *)
MutantMounted(query) ==
    IF Fetching(query) \/ query.data # None THEN query ELSE Asked(query)

\* A component that shows the query mounts: it joins a fetch under way.
Mounted(query) == IF Fetching(query) THEN query ELSE Asked(query)

\* invalidateQueries cancels the fetch under way and asks again, but the first
\* fetch of a query is joined.
Joins(query) == Loading(query)

Invalidated(query) == IF Joins(query) THEN query ELSE Asked(query)

Served(query, answer) == [query EXCEPT !.fetch = answer]

Settled(query) == [data |-> query.fetch, fetch |-> None, failed |-> FALSE]

\* What was there stays there.
Failed(query) == [query EXCEPT !.fetch = None, !.failed = TRUE]
=============================================================================
