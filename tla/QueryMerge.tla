---------------------------- MODULE QueryMerge ----------------------------
(***************************************************************************)
(* Queries over the daily partitions (internal/storage/sqlite.go):         *)
(* QueryTraces and QueryLogs ask every day's database for its newest rows, *)
(* merge the answers in memory and cut the page out of the result.         *)
(*                                                                         *)
(* A span is the trace it belongs to and its start; a log is its time.     *)
(* Only what the order and the extent of the answer depend on is modelled, *)
(* and the number of spans: the other columns are merged in the same way.  *)
(* The conditions of WHERE have been applied.  Starts are distinct, since  *)
(* sort.Slice may do anything with equal ones; from is the offset.         *)
(***************************************************************************)
EXTENDS Integers, Sequences, FiniteSets

Newest(rows) ==
  [i \in 1..Cardinality(rows) |->
     CHOOSE r \in rows : Cardinality({s \in rows : s.start > r.start}) = i - 1]

Limited(s, limit) == SubSeq(s, 1, IF limit < Len(s) THEN limit ELSE Len(s))

Cut(s, limit, from) ==
  LET upto == Limited(s, from + limit) IN SubSeq(upto, from + 1, Len(upto))

\* MIN(start_time)
Earliest(rows) == CHOOSE t \in {r.start : r \in rows} : \A r \in rows : t <= r.start

Rows(s) == {s[i] : i \in DOMAIN s}

\* GROUP BY trace_id
Summaries(spans) ==
  {LET own == {s \in spans : s.trace = t}
   IN [trace |-> t, start |-> Earliest(own), spans |-> Cardinality(own)] :
     t \in {s.trace : s \in spans}}

\* Mutated DayTraces: each day is asked for one page.
DayTracesOnePage(spans, limit, from) == Limited(Newest(Summaries(spans)), limit)

\* ORDER BY start_time DESC LIMIT ?
DayTraces(spans, limit, from) == Limited(Newest(Summaries(spans)), limit + from)

\* traceMap: the summaries of a trace become one.
Merged(rows) ==
  {LET own == {r \in rows : r.trace = t}
   IN [trace |-> t, start |-> Earliest(own),
       spans |-> Cardinality(UNION {{r} \X (1..r.spans) : r \in own})] :
     t \in {r.trace : r \in rows}}

\* QueryTraces; days gives the matching spans of each partition.
QueryTraces(days, limit, from) ==
  LET rows == UNION {Rows(DayTraces(days[d], limit, from)) : d \in DOMAIN days}
  IN Cut(Newest(Merged(rows)), limit, from)

\* QueryLogs
QueryLogs(days, limit, from) ==
  LET rows == UNION {Rows(Limited(Newest(days[d]), limit + from)) : d \in DOMAIN days}
  IN Cut(Newest(rows), limit, from)

-----------------------------------------------------------------------------
(* What one database would answer *)

All(days) == UNION {days[d] : d \in DOMAIN days}

AllTraces(days) == Newest(Summaries(All(days)))

\* The traces with spans on several days.
Spanning(days) ==
  {t \in {s.trace : s \in All(days)} :
     \E d, e \in DOMAIN days : d # e /\ \E a \in days[d], b \in days[e] : a.trace = t /\ b.trace = t}

\* A trace over several days takes a place in the answer of each, and may stand
\* at a later part's start: it costs a page its own place and one other trace.
\* The other traces come first, complete and in order: the n-th of them, of one
\* database's answer, is the n-th of them on the page.
PageExact(days, limit, from) ==
  LET asked == limit + from
      answer == AllTraces(days)
      result == QueryTraces(days, asked, 0)
      cost == Cardinality(Spanning(days))
      Whole(s, upto) == {i \in 1..upto : s[i].trace \notin Spanning(days)}
  IN /\ \A i \in Whole(answer, Len(answer)) :
          Cardinality(Whole(answer, i)) + cost <= asked =>
            \E k \in Whole(result, Len(result)) :
              /\ result[k] = answer[i]
              /\ Cardinality(Whole(result, k)) = Cardinality(Whole(answer, i))
     /\ Spanning(days) = {} =>
          QueryTraces(days, limit, from) = Cut(answer, limit, from)

LogsExact(days, limit, from) ==
  QueryLogs(days, limit, from) = Cut(Newest(All(days)), limit, from)
=============================================================================
