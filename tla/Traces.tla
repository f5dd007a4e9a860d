------------------------------ MODULE Traces ------------------------------
(***************************************************************************)
(* web/src/pages/Traces.tsx with components/traces/TraceList.tsx: a list   *)
(* that is fetched for a filter, grows by pages while the user scrolls,    *)
(* gets what the hub pushes at its head, and is shown in an order the user *)
(* chooses.                                                                *)
(*                                                                         *)
(* Fetches and further pages are in flight together and land in any order. *)
(* An IntersectionObserver asks for the next page.  It is attached to the  *)
(* trigger below the list by a ref callback whenever that callback         *)
(* changes, and detached by the cleanup of the effect that fetches.        *)
(*                                                                         *)
(* Traces are numbered by start time.  All filters (service, status, time, *)
(* the partition's date of the URL ...) are one.  Handlers and the commits *)
(* they cause are one step.                                                *)
(***************************************************************************)
EXTENDS Sorting, QueryMerge, SequencesExt, FiniteSetsExt

CONSTANTS
  Filter, Matches,       \* filters, and the traces that match each
  DurationOf, StatusOf,  \* of each trace; status codes are 0 UNSET, 1 OK, 2 ERROR
  PAGE_SIZE, CAP,        \* 50 and 200 in the code
  MaxTraces, MaxPushes, MaxFlights,
  MaxRows                \* bounds; no new query is made with a longer list

ASSUME TracesAssumption ==
  /\ PAGE_SIZE \in Nat \ {0} /\ CAP \in Nat \ {0} /\ MaxTraces \in Nat
  /\ Matches \in [Filter -> SUBSET (1..MaxTraces)]
  /\ DurationOf \in [1..MaxTraces -> Int]
  /\ StatusOf \in [1..MaxTraces -> 0..2]

SortField == {"start_time", "duration_ms", "status_code"}

VARIABLES
  filter, traces, offset, hasMore, error,
  loading, refreshing, loadingMore,
  observing,   \* the observer is attached to the trigger
  sort,        \* state of TraceList: field and order
  flights,     \* requests; since: traces stored when sent; alone: nothing crossed it
  exact,       \* history: nothing has crossed the paging since the last fetch
  stored, inbox, pushes,  \* traces on the server, messages on their way or kept while the
                          \* screen is paused, how many were sent
  calm         \* nothing fails or arrives any more, and the user only scrolls

list == <<filter, traces, offset, hasMore, error>>
flags == <<loading, refreshing, loadingMore>>
server == <<stored, inbox, pushes, calm>>
vars == <<list, flags, observing, sort, flights, exact, server>>

DefaultSort == [field |-> "start_time", order |-> "desc"]

\* QueryTraces: newest first.  QueryMerge shows what several partitions cost.
Answer(f, count) ==
  LET newest[n \in 0..count] ==
        IF n = 0 THEN <<>>
        ELSE (IF n \in Matches[f] THEN <<n>> ELSE <<>>) \o newest[n - 1]
  IN newest[count]

Page(f, from, count) == Cut(Answer(f, count), PAGE_SIZE, from)

\* getAsyncViewState
View ==
  CASE loading /\ traces = <<>> -> "loading"
    [] error /\ traces = <<>> -> "error"
    [] traces = <<>> -> "empty"
    [] OTHER -> "ready"

-----------------------------------------------------------------------------
(* The observer *)

\* The element below the list.
Trigger == View = "ready" /\ hasMore

\* What the ref callback depends on, directly or through loadMore.
Dependencies == <<filter, offset, hasMore, loading, loadingMore>>

\* A commit: lastElementRef is called if it or the element is new.  TraceList
\* loses its state when another panel takes its place.
Commit ==
  /\ observing' =
       /\ Trigger'
       /\ IF Trigger /\ Dependencies' = Dependencies
            THEN observing ELSE ~loading' /\ ~loadingMore'
  /\ sort' = IF View' = "ready" THEN sort ELSE DefaultSort

\* The commits of a new filter: lastElementRef is called, then the cleanup of the
\* old effect disconnects, then fetchTraces may change a dependency once more.
CommitFilter ==
  /\ observing' =
       /\ Trigger'
       /\ <<offset, hasMore, loading>>' # <<offset, hasMore, loading>>
       /\ ~loading' /\ ~loadingMore'
  /\ sort' = IF View' = "ready" THEN sort ELSE DefaultSort

-----------------------------------------------------------------------------
(* Requests *)

Crossed(s) == [i \in DOMAIN s |-> [s[i] EXCEPT !.alone = FALSE]]

Send(more, f, from) ==
  /\ Len(flights) < MaxFlights
  /\ flights' = Append(Crossed(flights),
                       [more |-> more, filter |-> f, offset |-> from, refresh |-> traces # <<>>,
                        since |-> stored, alone |-> flights = <<>>])

\* fetchTraces, up to its request; hasExistingDataRef tells which flag is set.
FetchTraces(f) ==
  /\ Len(traces) <= MaxRows
  /\ loading' = (loading \/ traces = <<>>)
  /\ refreshing' = (refreshing \/ traces # <<>>)
  /\ offset' = 0 /\ hasMore' = TRUE
  /\ Send(FALSE, f, 0)
  /\ exact' = FALSE
  /\ UNCHANGED <<traces, error, loadingMore, server>>

Init ==
  /\ filter \in Filter /\ traces = <<>> /\ offset = 0 /\ hasMore = TRUE /\ error = FALSE
  /\ loading = TRUE /\ refreshing = FALSE /\ loadingMore = FALSE
  /\ observing = FALSE /\ sort = DefaultSort
  /\ stored \in 0..MaxTraces /\ inbox = <<>> /\ pushes = 0 /\ calm = FALSE
  /\ flights = <<[more |-> FALSE, filter |-> filter, offset |-> 0, refresh |-> FALSE,
                  since |-> stored, alone |-> TRUE]>>
  /\ exact = FALSE

\* A field of the form, or 'clear' on the banner of a date.
ChangeFilter(f) ==
  /\ ~calm /\ f # filter
  /\ filter' = f
  /\ FetchTraces(f)
  /\ CommitFilter

\* The search button, or the one of the error and the empty panel.
Search ==
  /\ ~calm
  /\ (~loading /\ ~refreshing) \/ View \in {"error", "empty"}
  /\ FetchTraces(filter)
  /\ filter' = filter
  /\ Commit

\* Mutated LandFetch: all the flags are reset.
LandFetchResetsAll(i) ==
  LET f == flights[i] IN
  /\ ~f.more
  /\ \/ \E count \in f.since..stored :
          /\ traces' = Page(f.filter, 0, count)
          /\ hasMore' = (Len(traces') >= PAGE_SIZE)
          /\ error' = FALSE
          /\ exact' = f.alone
     \/ /\ ~calm
        /\ error' = (error \/ ~f.refresh)
        /\ UNCHANGED <<traces, hasMore, exact>>
  /\ loading' = FALSE /\ refreshing' = FALSE /\ loadingMore' = FALSE
  /\ flights' = RemoveAt(flights, i)
  /\ UNCHANGED <<filter, offset, server>>
  /\ Commit

\* The answer of the server as it was at some moment of the flight, or an error.
LandFetch(i) ==
  LET f == flights[i] IN
  /\ ~f.more
  /\ \/ \E count \in f.since..stored :
          /\ traces' = Page(f.filter, 0, count)
          /\ hasMore' = (Len(traces') >= PAGE_SIZE)
          /\ error' = FALSE
          /\ exact' = f.alone
     \/ /\ ~calm
        /\ error' = (error \/ ~f.refresh)
        /\ UNCHANGED <<traces, hasMore, exact>>
  /\ loading' = FALSE /\ refreshing' = FALSE
  /\ flights' = RemoveAt(flights, i)
  /\ UNCHANGED <<filter, offset, loadingMore, server>>
  /\ Commit

\* The observer's callback, while the user is at the end of the list.
LoadMore ==
  /\ observing /\ ~loadingMore /\ hasMore
  /\ loadingMore' = TRUE
  /\ Send(TRUE, filter, offset + PAGE_SIZE)
  /\ exact' = (exact /\ flights = <<>>)
  /\ UNCHANGED <<list, loading, refreshing, server>>
  /\ Commit

\* Mutated LandMore: the offset is moved before the answer is looked at.
LandMoreSkips(i) ==
  LET f == flights[i] IN
  /\ f.more
  /\ \/ \E count \in f.since..stored :
          LET page == Page(f.filter, f.offset, count) IN
          /\ traces' = traces \o page
          /\ hasMore' = (hasMore /\ Len(page) >= PAGE_SIZE)
     \/ ~calm /\ UNCHANGED <<traces, hasMore>>
  /\ offset' = f.offset
  /\ loadingMore' = FALSE
  /\ flights' = RemoveAt(flights, i)
  /\ UNCHANGED <<filter, error, loading, refreshing, exact, server>>
  /\ Commit

\* Mutated LandMore: loadingMore is reset by answers only.
LandMoreKeepsFlag(i) ==
  LET f == flights[i] IN
  /\ f.more
  /\ \/ \E count \in f.since..stored :
          LET page == Page(f.filter, f.offset, count) IN
          /\ traces' = traces \o page
          /\ offset' = IF page = <<>> THEN offset ELSE f.offset
          /\ hasMore' = (hasMore /\ Len(page) >= PAGE_SIZE)
          /\ loadingMore' = FALSE
     \/ ~calm /\ UNCHANGED <<traces, offset, hasMore, loadingMore>>
  /\ flights' = RemoveAt(flights, i)
  /\ UNCHANGED <<filter, error, loading, refreshing, exact, server>>
  /\ Commit

LandMore(i) ==
  LET f == flights[i] IN
  /\ f.more
  /\ \/ \E count \in f.since..stored :
          LET page == Page(f.filter, f.offset, count) IN
          /\ traces' = traces \o page
          /\ offset' = IF page = <<>> THEN offset ELSE f.offset
          /\ hasMore' = (hasMore /\ Len(page) >= PAGE_SIZE)
     \/ ~calm /\ UNCHANGED <<traces, offset, hasMore>>
  /\ loadingMore' = FALSE
  /\ flights' = RemoveAt(flights, i)
  /\ UNCHANGED <<filter, error, loading, refreshing, exact, server>>
  /\ Commit

-----------------------------------------------------------------------------
(* The server's messages *)

\* Spans of a new trace, or more spans of an old one, are stored; their summary
\* is pushed, whatever the filter, and may be lost, by a paused screen too.
Store(n) ==
  /\ ~calm /\ pushes < MaxPushes
  /\ stored' = Max({stored, n}) /\ pushes' = pushes + 1
  /\ inbox' \in {inbox, Append(inbox, n)}
  /\ IF n > stored THEN exact' = FALSE /\ flights' = Crossed(flights)
                   ELSE UNCHANGED <<exact, flights>>
  /\ UNCHANGED <<list, flags, observing, sort, calm>>

\* The handler of 'traces'.
Receive ==
  /\ inbox # <<>> /\ inbox' = Tail(inbox)
  /\ traces' = SubSeq(<<Head(inbox)>> \o traces, 1, Min({CAP, Len(traces) + 1}))
  /\ exact' = FALSE
  /\ UNCHANGED <<filter, offset, hasMore, error, flags, flights, stored, pushes, calm>>
  /\ Commit

-----------------------------------------------------------------------------
(* TraceList *)

\* Mutated StatusRank: the code itself.
StatusRankByCode(code) == code

\* ERROR > UNSET > OK
StatusRank(code) == CASE code = 2 -> 3 [] code = 0 -> 2 [] code = 1 -> 1

Rank(field, n) ==
  CASE field = "start_time" -> n
    [] field = "duration_ms" -> DurationOf[n]
    [] field = "status_code" -> StatusRank(StatusOf[n])

\* sortedTraces
Sorted(rows) ==
  LET Place(i) == Rank(sort.field, rows[i])
      order == StableOrder(Len(rows), LAMBDA i, j :
                 IF sort.order = "asc" THEN Place(i) < Place(j) ELSE Place(i) > Place(j))
  IN [k \in DOMAIN rows |-> rows[order[k]]]

\* handleSort: the same header again turns the order round.
HandleSort(field) ==
  /\ View = "ready" /\ ~calm
  /\ sort' = [field |-> field,
              order |-> IF sort.field = field /\ sort.order = "desc" THEN "asc" ELSE "desc"]
  /\ UNCHANGED <<list, flags, observing, flights, exact, server>>

\* The list of orders on a narrow screen does not offer all.
SelectSort ==
  /\ View = "ready" /\ ~calm
  /\ sort' \in [field : SortField, order : {"asc", "desc"}]
               \ {[field |-> "status_code", order |-> "asc"]}
  /\ UNCHANGED <<list, flags, observing, flights, exact, server>>

-----------------------------------------------------------------------------

Settle ==
  /\ ~calm /\ calm' = TRUE
  /\ UNCHANGED <<list, flags, observing, sort, flights, exact, stored, inbox, pushes>>

Next ==
  \/ \E f \in Filter : ChangeFilter(f)
  \/ Search \/ LoadMore
  \/ \E i \in 1..Len(flights) : LandFetch(i) \/ LandMore(i)
  \/ \E n \in 1..Min({stored + 1, MaxTraces}) : Store(n)
  \/ Receive
  \/ \E field \in SortField : HandleSort(field)
  \/ SelectSort
  \/ Settle

LandFirst == flights # <<>> /\ (LandFetch(1) \/ LandMore(1))

\* Requests end and the user goes on scrolling; a paused screen may keep its messages.
Spec ==
  /\ Init /\ [][Next]_vars
  /\ WF_vars(LandFirst) /\ WF_vars(LoadMore)

-----------------------------------------------------------------------------
(* Properties *)

\* As long as nothing has crossed the paging (no new trace, no push, no two
\* requests at once), failed pages and retries included, the list is the first
\* part of the server's answer, and all of it when the page says so.
PagesExact ==
  exact =>
    /\ IsPrefix(traces, Answer(filter, stored))
    /\ ~hasMore => traces = Answer(filter, stored)

\* A page is never asked for twice at the same time, loadingMore is set exactly
\* while one is awaited, and a spinner or skeleton only while a fetch is.
FlagsSound ==
  LET more == {i \in DOMAIN flights : flights[i].more} IN
  /\ \A i, j \in more : i = j
  /\ loadingMore <=> more # {}
  /\ loading \/ refreshing => DOMAIN flights # more

\* The trigger is there, nothing keeps it from asking, and nobody watches it.
Unobserved == Trigger /\ ~observing /\ ~loading /\ ~loadingMore

\* A user who keeps scrolling gets to the end of the list, through failures and
\* new filters, unless the observer was lost, which only happens to the first page.
ScrollEnds ==
  <>[]calm => <>[](View # "ready" \/ ~hasMore \/ (Unobserved /\ offset = 0))

\* No row stands behind one it should precede, the most serious status first, and
\* every trace of the list is shown at the place among those of equal rank that it
\* has in the list.
SortedView ==
  LET rows == Sorted(traces)
      Later(a, b) ==
        CASE sort.field = "start_time" -> a > b
          [] sort.field = "duration_ms" -> DurationOf[a] > DurationOf[b]
          [] sort.field = "status_code" ->
               StatusOf[b] # 2 /\ StatusOf[a] # 1 /\ StatusOf[a] # StatusOf[b]
      Equal(a, b) == ~Later(a, b) /\ ~Later(b, a)
      EqualBefore(s, i) == {j \in 1..i - 1 : Equal(s[j], s[i])}
  IN /\ Len(rows) = Len(traces)
     /\ \A i, j \in DOMAIN rows :
          i < j => IF sort.order = "asc" THEN ~Later(rows[i], rows[j])
                                         ELSE ~Later(rows[j], rows[i])
     /\ \A i \in DOMAIN traces : \E k \in DOMAIN rows :
          /\ rows[k] = traces[i]
          /\ Cardinality(EqualBefore(rows, k)) = Cardinality(EqualBefore(traces, i))
=============================================================================
