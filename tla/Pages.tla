------------------------------- MODULE Pages -------------------------------
(***************************************************************************)
(* The pages that show what they fetch (web/src/pages): Dashboard,         *)
(* ServiceDetail, Exemplars, Settings and TraceDetail.  Each keeps data,   *)
(* loading and errorMessage, fetches in an effect and picks a panel with   *)
(* getAsyncViewState (web/src/lib/request-state.ts).                       *)
(*                                                                         *)
(* Requests are not cancelled and their answers land in any order.  The    *)
(* Dashboard also polls, fetches again whenever the WebSocket status       *)
(* changes, and takes the 'stats' messages the hub pushes, which           *)
(* useWSMessage keeps in a buffer while the user has paused the screen.    *)
(*                                                                         *)
(* One page is mounted in a behaviour.  Requests a page makes together     *)
(* (Promise.all) are one request here, and so are the two messages of a    *)
(* broadcast: what they carry is the version of the data on the server.    *)
(***************************************************************************)
EXTENDS Integers, Sequences

CONSTANTS
  Key,         \* service names, trace ids, metric names: what a page can be asked for
  MaxVersion,  \* bound: how often new data arrives
  MaxFlights,  \* bound: requests in flight
  MaxBuffer,   \* messages useWSMessage keeps while paused
  None

ASSUME PagesAssumption ==
  /\ Key # {} /\ None \notin Key
  /\ None \notin [key : Key \union {None}, version : Nat]
  /\ MaxVersion \in Nat /\ MaxFlights \in Nat \ {0} /\ MaxBuffer \in Nat

Kind == {"dashboard", "service", "exemplars", "settings", "trace"}
Keyed == {"service", "exemplars", "trace"}  \* pages asked for something
Pending == -1                               \* answers that are not a version
Failed == -2

VARIABLES
  kind,       \* the mounted page
  want,       \* what it is asked for: the URL's parameter, the metric's name, or None
  data,       \* what it shows, with its version, or None
  loading, refreshing, error,
  flights,    \* its requests in the order they were made; late: overtaken by a later one
  last,       \* history: how the last request ended
  status,     \* the provider's WebSocket status
  casts,      \* the hub's goroutines about to push statistics
  inbox,      \* messages on their way to the page
  paused, buffer,
  version, up, calm   \* the server's data, the server runs, nothing fails any more

page == <<data, loading, refreshing, error, flights, last>>
socket == <<status, casts, inbox>>
pause == <<paused, buffer>>
server == <<version, up, calm>>
vars == <<kind, want, page, socket, pause, server>>

WS == INSTANCE Link WITH link <- status

-----------------------------------------------------------------------------
(* What the pages show *)

\* getAsyncViewState
AsyncView(hasData, isEmpty) ==
  CASE loading /\ ~hasData -> "loading"
    [] error /\ ~hasData -> "error"
    [] isEmpty -> "empty"
    [] OTHER -> "ready"

\* Version 0 has nothing to show: no traces, no spans of a service, no exemplars.
NothingIn(d) == d = None \/ d.version = 0

\* A panel, what it is about, what it contains, whether a button fetches again.
Screen(panel, title, again) ==
  [panel |-> panel, title |-> title, again |-> panel \in again,
   content |-> IF panel = "ready" THEN data ELSE None]

DashboardScreen ==
  Screen(AsyncView(data # None, data # None /\ NothingIn(data)), None, {"error", "empty"})

\* The header has the name of the URL, the rest comes from the data.
ServiceScreen ==
  LET view == AsyncView(data # None, data # None /\ NothingIn(data))
  IN Screen(IF view = "ready" /\ data = None THEN "empty" ELSE view, want, {"error", "empty"})

\* Without a request under way there always is data, if only an empty list.
ExemplarsScreen ==
  Screen(AsyncView(~NothingIn(data) \/ ~loading, NothingIn(data) /\ ~loading),
         want, {"error", "empty"})

SettingsScreen ==
  LET view == AsyncView(data # None, FALSE)
  IN Screen(IF view # "loading" /\ data = None THEN "error" ELSE view, None, {"error"})

\* No error panel, and no button.
TraceScreen ==
  Screen(CASE loading -> "loading" [] NothingIn(data) -> "empty" [] OTHER -> "ready", want, {})

Shown ==
  CASE kind = "dashboard" -> DashboardScreen
    [] kind = "service" -> ServiceScreen
    [] kind = "exemplars" -> ExemplarsScreen
    [] kind = "settings" -> SettingsScreen
    [] kind = "trace" -> TraceScreen

View == Shown.panel

-----------------------------------------------------------------------------
(* Requests *)

\* The flags each page sets before its request.
DashboardSends(background) ==
  /\ loading' = (loading \/ ~background)
  /\ refreshing' = (refreshing \/ background)
  /\ error' = error

ServiceSends == loading' = TRUE /\ UNCHANGED <<refreshing, error>>

ExemplarsSends == loading' = TRUE /\ error' = FALSE /\ refreshing' = refreshing

SettingsSends == loading' = TRUE /\ UNCHANGED <<refreshing, error>>

TraceSends == UNCHANGED <<loading, refreshing, error>>

\* fetchData: flags first, then the request.
Fetch(key, background) ==
  /\ Len(flights) < MaxFlights
  /\ flights' = Append(flights, [key |-> key, background |-> background,
                                 late |-> FALSE, answer |-> Pending])
  /\ CASE kind = "dashboard" -> DashboardSends(background)
       [] kind = "service" -> ServiceSends
       [] kind = "exemplars" -> ExemplarsSends
       [] kind = "settings" -> SettingsSends
       [] kind = "trace" -> TraceSends
  /\ UNCHANGED <<data, last>>

\* The first request is made when the page is mounted.
Init ==
  /\ kind \in Kind /\ want \in (IF kind \in Keyed THEN Key ELSE {None})
  /\ data = None /\ loading = TRUE /\ refreshing = FALSE /\ error = FALSE
  /\ flights = <<[key |-> want, background |-> FALSE, late |-> FALSE, answer |-> Pending]>>
  /\ last = "none"
  /\ status \in (IF kind = "dashboard" THEN WS!Status ELSE {"disconnected"})
  /\ casts = <<>> /\ inbox = <<>>
  /\ paused = FALSE /\ buffer = <<>>
  /\ version \in {0, 1} /\ up \in BOOLEAN /\ calm = FALSE

\* Mutated Navigate: the parameter is missing from the effect's dependencies.
NavigateWithoutEffect(k) ==
  /\ kind \in Keyed /\ k # want
  /\ want' = k
  /\ UNCHANGED <<kind, page, socket, pause, server>>

\* A link to another service or trace, or a search for another metric: the
\* component stays mounted, its effect depends on the parameter.
Navigate(k) ==
  /\ kind \in Keyed /\ k # want
  /\ want' = k
  /\ Fetch(k, FALSE)
  /\ UNCHANGED <<kind, socket, pause, server>>

\* The button of the error panel, and of the empty one.
Retry ==
  /\ Shown.again
  /\ Fetch(want, FALSE)
  /\ UNCHANGED <<kind, want, socket, pause, server>>

\* Mutated Poll: pushed statistics replace the polling.
PollWhenDisconnected ==
  /\ kind = "dashboard" /\ status # "connected"
  /\ Fetch(want, TRUE)
  /\ UNCHANGED <<kind, want, socket, pause, server>>

\* The Dashboard's interval.
Poll ==
  /\ kind = "dashboard"
  /\ Fetch(want, TRUE)
  /\ UNCHANGED <<kind, want, socket, pause, server>>

\* There is nothing to answer with: 404, or the server does not run.
NoAnswer == ~up \/ (version = 0 /\ kind \in {"service", "trace"})

Answer(i) ==
  /\ flights[i].answer = Pending
  /\ flights' = [flights EXCEPT ![i].answer = IF NoAnswer THEN Failed ELSE version]
  /\ UNCHANGED <<kind, want, data, loading, refreshing, error, last, socket, pause, server>>

\* Without request i; those made before it are late from now on.
Landed(i) ==
  [j \in 1..Len(flights) - 1 |->
     IF j < i THEN [flights[j] EXCEPT !.late = TRUE] ELSE flights[j + 1]]

\* Mutated Land: the flags are reset by answers only.
LandKeepsFlags(i) ==
  LET f == flights[i] IN
  /\ f.answer # Pending
  /\ flights' = Landed(i)
  /\ IF f.answer = Failed
       THEN /\ error' = (error \/ (~f.background /\ kind # "trace"))
            /\ UNCHANGED <<data, loading, refreshing>>
       ELSE /\ error' = FALSE
            /\ data' = [key |-> f.key, version |-> f.answer]
            /\ loading' = FALSE /\ refreshing' = FALSE
  /\ last' = CASE f.late -> "late" [] f.answer = Failed -> "failed" [] OTHER -> "fresh"
  /\ UNCHANGED <<kind, want, socket, pause, server>>

\* The rest of fetchData: the answer, or the error, and finally the flags.
Land(i) ==
  LET f == flights[i] IN
  /\ f.answer # Pending
  /\ flights' = Landed(i)
  /\ IF f.answer = Failed
       THEN /\ error' = (error \/ (~f.background /\ kind # "trace"))
            /\ data' = data
       ELSE /\ error' = FALSE
            /\ data' = [key |-> f.key, version |-> f.answer]
  /\ loading' = FALSE /\ refreshing' = FALSE
  /\ last' = CASE f.late -> "late" [] f.answer = Failed -> "failed" [] OTHER -> "fresh"
  /\ UNCHANGED <<kind, want, socket, pause, server>>

-----------------------------------------------------------------------------
(* The Dashboard's WebSocket *)

\* A new status is committed: the effect runs again, with a new interval.
NewStatus ==
  /\ kind = "dashboard"
  /\ inbox' = <<>>
  /\ Fetch(want, FALSE)
  /\ UNCHANGED <<kind, want, casts, pause, server>>

Reconnect == (WS!Retry \/ (WS!Open /\ up)) /\ NewStatus

Disconnect == WS!Lose /\ ~calm /\ NewStatus

\* New data is stored; the hub starts a goroutine that will push statistics.
\* Pages that are not pushed anything see one arrival.
Ingest ==
  /\ up /\ version < IF kind = "dashboard" THEN MaxVersion ELSE 1
  /\ version' = version + 1
  /\ casts' = IF kind = "dashboard" THEN Append(casts, Pending) ELSE casts
  /\ UNCHANGED <<kind, want, page, status, inbox, pause, up, calm>>

\* The goroutine reads the statistics, and later broadcasts what it has read.
ReadStats(i) ==
  /\ casts[i] = Pending
  /\ casts' = [casts EXCEPT ![i] = version]
  /\ UNCHANGED <<kind, want, page, status, inbox, pause, server>>

Broadcast(i) ==
  /\ casts[i] # Pending
  /\ casts' = SubSeq(casts, 1, i - 1) \o SubSeq(casts, i + 1, Len(casts))
  /\ inbox' = IF status = "connected" THEN Append(inbox, casts[i]) ELSE inbox
  /\ UNCHANGED <<kind, want, page, status, pause, server>>

\* The handlers of 'stats'.
Handle(v) ==
  /\ data' = [key |-> want, version |-> v]
  /\ error' = FALSE

\* The buffer keeps the oldest messages.
Buffered(v) == IF Len(buffer) < MaxBuffer THEN Append(buffer, v) ELSE buffer

\* routePayload: handled, buffered or, when the buffer is full, dropped.
Receive ==
  /\ inbox # <<>> /\ inbox' = Tail(inbox)
  /\ IF paused
       THEN /\ buffer' = Buffered(Head(inbox))
            /\ UNCHANGED <<data, error>>
       ELSE /\ Handle(Head(inbox))
            /\ buffer' = buffer
  /\ UNCHANGED <<kind, want, loading, refreshing, flights, last, status, casts, paused, server>>

\* The pause button of AppLayout; resuming replays the buffer.
TogglePause ==
  /\ kind = "dashboard"
  /\ paused' = ~paused
  /\ IF paused /\ buffer # <<>>
       THEN Handle(buffer[Len(buffer)]) /\ buffer' = <<>>
       ELSE UNCHANGED <<data, error, buffer>>
  /\ UNCHANGED <<kind, want, loading, refreshing, flights, last, socket, server>>

-----------------------------------------------------------------------------

\* The server fails, with the goroutines it runs; it is restarted after the
\* browser has noticed; it fails no more.
Fail ==
  /\ up /\ ~calm /\ up' = FALSE
  /\ casts' = <<>>
  /\ UNCHANGED <<kind, want, page, status, inbox, pause, version, calm>>

Restart ==
  /\ ~up /\ status # "connected" /\ up' = TRUE
  /\ UNCHANGED <<kind, want, page, socket, pause, version, calm>>

Settle ==
  /\ up /\ ~calm /\ calm' = TRUE
  /\ UNCHANGED <<kind, want, page, socket, pause, version, up>>

Other ==
  \/ \E k \in Key : Navigate(k)
  \/ Retry \/ Poll
  \/ \E i \in 1..Len(flights) : Answer(i)
  \/ Reconnect \/ Disconnect \/ Ingest
  \/ \E i \in 1..Len(casts) : ReadStats(i) \/ Broadcast(i)
  \/ Receive \/ TogglePause
  \/ Fail \/ Restart \/ Settle

Next == Other \/ \E i \in 1..Len(flights) : Land(i)

AnswerFirst == flights # <<>> /\ Answer(1)
LandFirst == flights # <<>> /\ Land(1)
CastFirst == casts # <<>> /\ (ReadStats(1) \/ Broadcast(1))

\* The interval fires, requests are answered and answers land, goroutines run,
\* messages arrive and the manager reconnects; nobody has to use the page.
Fairness ==
  /\ WF_vars(Poll) /\ WF_vars(AnswerFirst) /\ WF_vars(LandFirst)
  /\ WF_vars(CastFirst) /\ WF_vars(Receive) /\ WF_vars(Reconnect)
  /\ WF_vars(Restart)

Spec == Init /\ [][Next]_vars /\ Fairness

-----------------------------------------------------------------------------
(* Properties *)

\* A page at rest shows what its URL asks for, unless the last request failed
\* (the old data then stays, without an error panel) or was answered after a
\* later one.
StaleExplained ==
  flights = <<>> /\ last = "fresh" /\ View = "ready" => Shown.content.key = Shown.title

\* Whatever order answers land in, a page that is loading waits for a request,
\* a failure it has nothing else to show for ends in the error panel (in the
\* empty one on Exemplars and TraceDetail), and nothing is shown as data
\* without data, or a request that may still bring it.
PanelsExplained ==
  /\ View = "loading" => flights # <<>>
  /\ View = "ready" => Shown.content # None \/ flights # <<>>
  /\ flights = <<>> /\ data = None =>
       View = IF kind \in {"exemplars", "trace"} THEN "empty" ELSE "error"

\* Once nothing fails any more, the Dashboard shows what the server has: after
\* late answers, messages out of order, drops from a full buffer or a pause
\* that never ends.
FreshInTheEnd ==
  kind = "dashboard" /\ <>[]calm =>
    <>[](data = [key |-> want, version |-> version] /\ View # "loading")
=============================================================================
