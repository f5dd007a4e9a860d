---------------------------- MODULE TraceDetail ----------------------------
(***************************************************************************)
(* web/src/pages/TraceDetail.tsx: the spans of one trace as a waterfall.   *)
(* The page is one of Pages; here it also has its content: the tree that   *)
(* is built from parent ids and flattened to rows, the bars on a common    *)
(* timeline, the summary, the filter and the selected span.                *)
(*                                                                         *)
(* A trace arrives in pieces and from many clocks: parents may be missing, *)
(* spans may have been sent twice, reported durations may disagree with    *)
(* start and end.  A span sent twice is sent twice with the same content.  *)
(* Times are integers: the rounding of nanoseconds to doubles is left out. *)
(***************************************************************************)
EXTENDS Pages, SequencesExt, FiniteSetsExt

CONSTANTS
  Content,    \* the spans of each trace on the server, by start time
  Waterfalls, \* sequences of spans to try the waterfall on
  Slow        \* the threshold of the filter for slow spans: 500 ms

\* What a trace may look like: clocks, durations and parents are anything.
IsTrace(spans) ==
  /\ spans \in Seq(Range(spans)) /\ spans # <<>>
  /\ \A s \in Range(spans) : s.start \in Int /\ s.end \in Int /\ s.duration \in Int
  /\ \A s, t \in Range(spans) : s.id = t.id => s = t

ASSUME TraceDetailAssumption ==
  /\ DOMAIN Content = Key
  /\ \A k \in Key : IsTrace(Content[k])
  /\ \A spans \in Waterfalls : IsTrace(spans)

\* duration_ms, as reported, or the observed one.
Duration(s) == Max({s.duration, s.end - s.start, 0})

-----------------------------------------------------------------------------
(* The tree *)

Ids(spans) == {s.id : s \in Range(spans)}

\* nodesMap: the last span with this id.
Node(spans, id) == spans[Max({i \in DOMAIN spans : spans[i].id = id})]

\* A parent that is given and known.
HasNode(spans, id) == id # None /\ id \in Ids(spans)

\* A stable sort by start time puts a node behind those that do not start later.
Insert(node, nodes) ==
  InsertAt(nodes, 1 + Cardinality({i \in DOMAIN nodes : nodes[i].start <= node.start}), node)

\* The nodes of the spans at these positions, sorted.
Nodes(spans, chosen) ==
  LET sorted[n \in 0..Len(spans)] ==
        IF n = 0 THEN <<>>
        ELSE IF n \in chosen THEN Insert(Node(spans, spans[n].id), sorted[n - 1])
        ELSE sorted[n - 1]
  IN sorted[Len(spans)]

Children(spans, id) ==
  Nodes(spans, {i \in DOMAIN spans : HasNode(spans, id) /\ spans[i].parent = id})

\* Mutated Roots: spans whose parent is missing are forgotten.
RootsWithoutOrphans(spans) == Nodes(spans, {i \in DOMAIN spans : spans[i].parent = None})

Roots(spans) == Nodes(spans, {i \in DOMAIN spans : ~HasNode(spans, spans[i].parent)})

\* The rows of a node and of what is below it, for every node.  A path down from a
\* root has at most as many levels as there are spans.
Traverse(spans) ==
  LET rows[levels \in 0..Len(spans)] ==
        [id \in Ids(spans) |->
           IF levels = 0 THEN <<>>
           ELSE LET children == Children(spans, id) IN
                <<[span |-> Node(spans, id), depth |-> Len(spans) - levels]>> \o
                FlattenSeq([i \in DOMAIN children |-> rows[levels - 1][children[i].id]])]
  IN rows[Len(spans)]

\* flattenedNodes
Flattened(spans) ==
  LET roots == Roots(spans)
      rows == Traverse(spans)
  IN FlattenSeq([i \in DOMAIN roots |-> rows[roots[i].id]])

-----------------------------------------------------------------------------
(* The timeline *)

\* getPrimaryRootSpan: the longest span without a parent, of those the earliest, of
\* those the first.
PrimaryRoot(spans) ==
  LET roots == {i \in DOMAIN spans : spans[i].parent = None}
      longest == {i \in roots : \A j \in roots : Duration(spans[j]) <= Duration(spans[i])}
      earliest == {i \in longest : \A j \in longest : spans[i].start <= spans[j].start}
  IN IF roots = {} THEN None ELSE spans[Min(earliest)]

TimelineStart(spans) == Min({spans[i].start : i \in DOMAIN spans})

\* Mutated TimelineEnd: reported durations are not looked at.
TimelineEndObserved(spans) == Max({spans[i].end : i \in DOMAIN spans})

TimelineEnd(spans) ==
  Max({Max({spans[i].end, spans[i].start + Duration(spans[i])}) : i \in DOMAIN spans})

EnvelopeDuration(spans) == Max({TimelineEnd(spans) - TimelineStart(spans), 0})

RequestDuration(spans) ==
  IF PrimaryRoot(spans) = None THEN EnvelopeDuration(spans)
  ELSE Duration(PrimaryRoot(spans))

\* One nanosecond at least.
TimelineDuration(spans) == Max({EnvelopeDuration(spans), RequestDuration(spans), 1})

\* getSpanTimelineMetrics, before nanoseconds become percent.
Bar(spans, s) ==
  LET start == Min({Max({s.start - TimelineStart(spans), 0}), TimelineDuration(spans)})
  IN [start |-> start,
      visible |-> Min({Duration(s), Max({TimelineDuration(spans) - start, 0})})]

\* top3Slowest, without the primary root unless it is the only span.
Top3(spans) ==
  LET root == PrimaryRoot(spans)
      candidates == {i \in DOMAIN spans : root # None /\ Len(spans) > 1 => spans[i].id # root.id}
      Before(i) == {j \in candidates :
                      \/ Duration(spans[j]) > Duration(spans[i])
                      \/ Duration(spans[j]) = Duration(spans[i]) /\ j < i}
  IN {spans[i] : i \in {c \in candidates : Cardinality(Before(c)) < 3}}

-----------------------------------------------------------------------------
(* The page *)

VARIABLES
  selected,   \* selectedSpan
  filterMode  \* which rows are shown

detail == <<selected, filterMode>>

Spans == IF data = None THEN <<>> ELSE Content[data.key]

\* displayNodes: the numbers of the rows that are shown.
Display ==
  LET rows == Flattened(Spans)
  IN {i \in DOMAIN rows : CASE filterMode = "all" -> TRUE
                            [] filterMode = "error" -> rows[i].span.error
                            [] filterMode = "slow" -> Duration(rows[i].span) >= Slow}

\* The waterfall: rows with their bars, the selected one highlighted.
Rows ==
  LET rows == Flattened(Spans)
  IN [i \in Display |->
        [span |-> rows[i].span, depth |-> rows[i].depth, bar |-> Bar(Spans, rows[i].span),
         isSelected |-> selected # None /\ selected.id = rows[i].span.id]]

\* The offset, the duration and the end of the selected span, next to its metadata.
Sidebar ==
  LET start == Bar(Spans, selected).start
  IN [start |-> start, duration |-> Duration(selected), end |-> start + Duration(selected)]

DetailInit == Init /\ selected = None /\ filterMode = "all"

\* Mutated Chosen: a selection is kept.
ChosenOnce(spans) ==
  IF selected # None THEN selected
  ELSE IF PrimaryRoot(spans) = None THEN spans[1] ELSE PrimaryRoot(spans)

Chosen(spans) == IF PrimaryRoot(spans) = None THEN spans[1] ELSE PrimaryRoot(spans)

\* fetchTrace: new spans bring a new selection.
Show(i) ==
  /\ Land(i)
  /\ selected' = IF kind = "trace" /\ flights[i].answer # Failed
                   THEN Chosen(Content[flights[i].key]) ELSE selected
  /\ filterMode' = filterMode

\* Clicks on a row, on one of the slowest spans and on a filter button.
SelectSpan ==
  /\ kind = "trace" /\ View = "ready"
  /\ \/ \E i \in DOMAIN Rows : selected' = Rows[i].span
     \/ \E s \in Top3(Spans) : selected' = s
  /\ UNCHANGED <<vars, filterMode>>

Filter(mode) ==
  /\ kind = "trace" /\ View = "ready"
  /\ filterMode' = IF filterMode = mode THEN "all" ELSE mode
  /\ UNCHANGED <<vars, selected>>

DetailNext ==
  \/ Other /\ UNCHANGED detail
  \/ \E i \in 1..Len(flights) : Show(i)
  \/ SelectSpan
  \/ \E mode \in {"error", "slow"} : Filter(mode)

DetailSpec == DetailInit /\ [][DetailNext]_<<vars, detail>> /\ Fairness

-----------------------------------------------------------------------------
(* Properties *)

Distinct(spans) == Cardinality(Ids(spans)) = Len(spans)

\* Spans that are their own ancestors, and what hangs below them.
Circular(spans) ==
  UNION {C \in SUBSET Ids(spans) : \A id \in C : Node(spans, id).parent \in C \ {None}}

CompleteRows(spans) ==
  LET rows == Flattened(spans)
      Parent(i) == rows[i].span.parent
  IN /\ {rows[i].span.id : i \in DOMAIN rows} = Ids(spans) \ Circular(spans)
     /\ \A j \in DOMAIN rows :
          IF HasNode(spans, Parent(j))
            THEN \E i \in 1..j - 1 :
                   /\ rows[i].span.id = Parent(j) /\ rows[i].depth = rows[j].depth - 1
                   /\ \A k \in i + 1..j - 1 : rows[k].depth > rows[i].depth
            ELSE rows[j].depth = 0
     /\ Distinct(spans) =>
          /\ Len(rows) = Cardinality(Ids(spans) \ Circular(spans))
          /\ \A i, j \in DOMAIN rows :
               i < j /\ Parent(i) = Parent(j) => rows[i].span.start <= rows[j].span.start

ExactBars(spans) ==
  LET first == TimelineStart(spans)
      total == TimelineDuration(spans)
  IN /\ \A i \in DOMAIN spans :
          Bar(spans, spans[i]) = [start |-> spans[i].start - first,
                                  visible |-> Duration(spans[i])]
     /\ \/ \E i \in DOMAIN spans : spans[i].start - first + Duration(spans[i]) = total
        \/ total = 1 /\ \A i \in DOMAIN spans : Duration(spans[i]) = 0

AllRowsComplete == \A spans \in Waterfalls : CompleteRows(spans)
AllBarsExact == \A spans \in Waterfalls : ExactBars(spans)

\* Whatever spans a trace has, the rows show every one that has an end above
\* it, orphans included; none twice, unless it was sent twice.  A child stands
\* below its parent, one step deeper, with only deeper rows in between, and
\* siblings by their start.
RowsComplete == kind = "trace" => AllRowsComplete

\* However the clocks of the services disagree, every bar starts where its span
\* does and is as long: nothing is cut off at the ends of the timeline, whose
\* whole length is used unless the trace has no duration.
BarsExact == kind = "trace" => AllBarsExact

\* The metadata next to the waterfall is that of a span of the trace shown,
\* also after answers for another trace, late or failed ones; it is the one that
\* is highlighted, and its times lie on the timeline.
SelectionBelongs ==
  kind = "trace" =>
    IF data = None THEN selected = None
    ELSE /\ \E i \in DOMAIN Spans : Spans[i] = selected
         /\ View = "ready" =>
              /\ \A i \in DOMAIN Rows : Rows[i].isSelected => Rows[i].span = selected
              /\ Sidebar.end <= TimelineDuration(Spans)
=============================================================================
