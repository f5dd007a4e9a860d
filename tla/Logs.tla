-------------------------------- MODULE Logs --------------------------------
(***************************************************************************)
(* web/src/pages/Logs.tsx over the WebSocket link: a list that is polled,  *)
(* or streamed from the hub's 'logs' channel when the user asks for it.    *)
(* The page subscribes by hand (useWSChannel('logs', false)): nothing      *)
(* subscribes for it after a reconnection or unsubscribes when it goes.    *)
(*                                                                         *)
(* Its messages pass through useWSMessage, which keeps them in a buffer    *)
(* while the user has paused the screen with the button every page has,    *)
(* and drops them when the buffer is full.                                 *)
(*                                                                         *)
(* The hub broadcasts in a goroutine per flush that looks at a client's    *)
(* subscription and at its filter separately.  fetchLogs reads the         *)
(* parameters of the URL from the object of the render that created it.    *)
(*                                                                         *)
(* Handlers, the commits and the effects they cause are one step.  Logs    *)
(* are numbered by time; '' is the empty form field or parameter.          *)
(***************************************************************************)
EXTENDS Integers, Sequences, SequencesExt, FiniteSetsExt

CONSTANTS
  Service, Body, Trace,  \* values of the fields and of the parameter
  Log,             \* attributes of the logs to come: service, body, trace
  CAP,             \* the list is cut to this many logs: 500 in the code
  PAUSE_CAP,       \* messages useWSMessage keeps while paused: 1000
  LIMIT,           \* of QueryLogs; the page asks for none and gets 100
  MaxActs, MaxFlights, MaxWire,  \* bounds: user actions, requests and messages on their way
  None

ASSUME LogsAssumption ==
  /\ CAP \in Nat \ {0} /\ PAUSE_CAP \in Nat \ {0} /\ LIMIT \in Nat \ {0}
  /\ Len(Log) \in Nat
  /\ None \notin Service /\ "" \in Service \intersect Body \intersect Trace

VARIABLES
  url,             \* trace_id of the current searchParams
  captured, same,  \* of the ones fetchLogs has, and whether they are the same object
  service, body, streaming, logs, error, loading, refreshing,
  flights,         \* requests; since: logs stored when sent
  status,          \* of the link
  wire, inbox,     \* messages to and from the server
  sub,             \* the server's subscription: None or the filter's service
  stored, fresh, passed,  \* logs on the server, the ones to be broadcast, and past IsSubscribed
  tracked,         \* history: the last word on the subscription was said on this connection
  due,             \* history: logs the stream in force has to bring
  paused, held,    \* isPaused of the provider, and the buffer of this page's useWSMessage
  spilled,         \* history: those of due that the full buffer has dropped
  acts, calm       \* user actions, but for the end of a stream or of a pause; nothing fails
                   \* or arrives any more

params == <<url, captured, same>>
form == <<service, body>>
list == <<logs, error, loading, refreshing, flights>>
connection == <<status, wire, inbox, sub>>
server == <<stored, fresh, passed>>
pause == <<paused, held, spilled>>
vars == <<params, form, streaming, list, connection, server, pause,
          tracked, due, acts, calm>>

TheLink == INSTANCE Link WITH link <- status

\* What QueryLogs looks for.
Matches(query, n) == \A field \in DOMAIN query : query[field] \in {"", Log[n][field]}

\* Of the first count logs, those that match, newest first.
Matching(query, count) ==
  LET Newest[n \in 0..count] ==
        IF n = 0 THEN <<>>
        ELSE (IF Matches(query, n) THEN <<n>> ELSE <<>>) \o Newest[n - 1]
  IN Newest[count]

\* QueryLogs, without an offset: the newest of them.
Answer(query, count) ==
  LET found == Matching(query, count)
  IN SubSeq(found, 1, Min({LIMIT, Len(found)}))

\* getAsyncViewState
View ==
  CASE loading /\ logs = <<>> -> "loading"
    [] error /\ logs = <<>> -> "error"
    [] logs = <<>> -> "empty"
    [] OTHER -> "ready"

-----------------------------------------------------------------------------
(* What handlers and effects do *)

\* subscribe and unsubscribe, dropped unless the socket is open.
Tell(msgs) ==
  /\ tracked' = (status = "connected")
  /\ IF status = "connected"
       THEN Len(wire) + Len(msgs) <= MaxWire /\ wire' = wire \o msgs
       ELSE wire' = wire

Say == UNCHANGED <<wire, tracked>>

\* fetchLogs, called once for each flag, up to its requests.
Fetch(query, background) ==
  /\ Len(flights) + Len(background) <= MaxFlights
  /\ flights' = flights \o [i \in DOMAIN background |->
                   [query |-> query, background |-> background[i], since |-> stored]]
  /\ loading' = (loading \/ \E i \in DOMAIN background : ~background[i])
  /\ refreshing' = (refreshing \/ \E i \in DOMAIN background : background[i])
  /\ UNCHANGED <<logs, error>>

Query(s, b, t) == [service |-> s, body |-> b, trace |-> t]

\* The user does something; a stream is judged afresh from there on.
Did ==
  /\ ~calm /\ due' = {} /\ spilled' = {}
  /\ UNCHANGED <<status, inbox, sub, server, paused, calm>>

Act == Did /\ acts < MaxActs /\ acts' = acts + 1

\* The page as it is mounted at a URL, its first fetch under way.
Mounted(t) ==
  /\ url' = t /\ captured' = t /\ same' = TRUE
  /\ service' = "" /\ body' = "" /\ streaming' = FALSE
  /\ logs' = <<>> /\ error' = FALSE /\ loading' = TRUE /\ refreshing' = FALSE /\ held' = <<>>
  /\ flights' = <<[query |-> Query("", "", t), background |-> FALSE, since |-> stored]>>

Init ==
  /\ url \in Trace /\ captured = url /\ same = TRUE
  /\ service = "" /\ body = "" /\ streaming = FALSE
  /\ logs = <<>> /\ error = FALSE /\ loading = TRUE /\ refreshing = FALSE
  /\ stored = 0 /\ fresh = {} /\ passed = {}
  /\ flights = <<[query |-> Query("", "", url), background |-> FALSE, since |-> stored]>>
  /\ TheLink!Init /\ wire = <<>> /\ inbox = <<>> /\ sub = None
  /\ paused = FALSE /\ held = <<>> /\ spilled = {}
  /\ tracked = TRUE /\ due = {} /\ acts = 0 /\ calm = FALSE

-----------------------------------------------------------------------------
(* The user *)

\* toggleStreaming; then the effects: a new stream subscribes once more, an
\* ended one is replaced by a fetch and the poll.
ToggleStreaming ==
  /\ status = "connected"
  /\ streaming' = ~streaming
  /\ IF streaming THEN Did /\ acts' = acts ELSE Act
  /\ IF streaming
       THEN Tell(<<None>>) /\ Fetch(Query(service, body, captured), <<FALSE>>)
       ELSE Tell(<<service, None, service>>) /\ UNCHANGED list
  /\ UNCHANGED <<params, form, held>>

\* Mutated ChangeForm: the filter of a stream is not renewed.
ChangeFormOnly(s, b) ==
  /\ Act /\ (s = service) # (b = body)
  /\ service' = s /\ body' = b
  /\ captured' = url /\ same' = TRUE
  /\ Say
  /\ IF streaming THEN UNCHANGED list ELSE Fetch(Query(s, b, url), <<FALSE>>)
  /\ UNCHANGED <<url, streaming, held>>

\* One of the two fields: fetchLogs is created anew with the current parameters.
ChangeForm(s, b) ==
  /\ Act /\ (s = service) # (b = body)
  /\ service' = s /\ body' = b
  /\ captured' = url /\ same' = TRUE
  /\ IF streaming /\ s # service THEN Tell(<<None, s>>) ELSE Say
  /\ IF streaming THEN UNCHANGED list ELSE Fetch(Query(s, b, url), <<FALSE>>)
  /\ UNCHANGED <<url, streaming, held>>

\* The form's button or the error panel's, or 'refresh now' when not streaming.
Search ==
  /\ Act /\ Fetch(Query(service, body, captured), <<FALSE>>)
  /\ Say /\ UNCHANGED <<params, form, streaming, held>>

\* The button on the banner of a trace: it changes the object of this render,
\* and has fetchLogs called by itself and by the effect.
ClearTrace ==
  /\ Act /\ url # ""
  /\ url' = "" /\ same' = FALSE
  /\ captured' = IF same THEN "" ELSE captured
  /\ Fetch(Query(service, body, captured'), IF streaming THEN <<FALSE>> ELSE <<FALSE, FALSE>>)
  /\ Say /\ UNCHANGED <<form, streaming, held>>

\* A link to this page, or 'back', while it is mounted.
GoTo(t) ==
  /\ Act /\ t # url
  /\ url' = t /\ same' = FALSE
  /\ IF streaming THEN UNCHANGED list ELSE Fetch(Query(service, body, captured), <<FALSE>>)
  /\ Say /\ UNCHANGED <<captured, form, streaming, held>>

\* The user leaves and comes back; answers to the page that was left are ignored.
Visit(t) ==
  /\ Act /\ Mounted(t)
  /\ wire' = wire /\ tracked' = (tracked /\ ~streaming)

-----------------------------------------------------------------------------
(* Timers, answers, messages *)

\* Mutated Poll: no more after an error.
PollUntilError ==
  /\ ~streaming /\ ~error
  /\ Fetch(Query(service, body, captured), <<TRUE>>)
  /\ UNCHANGED <<params, form, streaming, pause, connection, server, tracked, due, acts, calm>>

\* The interval of five seconds.
Poll ==
  /\ ~streaming
  /\ Fetch(Query(service, body, captured), <<TRUE>>)
  /\ UNCHANGED <<params, form, streaming, pause, connection, server, tracked, due, acts, calm>>

\* The answer of the server as it was at some moment of the flight, or an
\* error; a stream that has begun meanwhile does not matter.
Land(i) ==
  /\ \/ \E count \in flights[i].since..stored :
          logs' = Answer(flights[i].query, count) /\ error' = FALSE
     \/ ~calm /\ logs' = logs /\ error' = (error \/ ~flights[i].background)
  /\ loading' = FALSE /\ refreshing' = FALSE
  /\ flights' = RemoveAt(flights, i)
  /\ due' = {} /\ spilled' = {}
  /\ UNCHANGED <<params, form, streaming, paused, held, connection, server,
                 tracked, acts, calm>>

\* What the handler of 'logs' makes of messages that come one after the other.
Shown(news) ==
  IF streaming THEN SubSeq(Reverse(news) \o logs, 1, Min({CAP, Len(news) + Len(logs)}))
               ELSE logs

\* Mutated Receive: the handler keeps the streaming of the first render.
ReceiveStale ==
  /\ inbox # <<>> /\ inbox' = Tail(inbox)
  /\ UNCHANGED <<params, form, streaming, list, status, wire, sub, server, pause,
                 tracked, due, acts, calm>>

\* routePayload: to the handler, or while paused into the buffer, if it has room.
Receive ==
  /\ inbox # <<>> /\ inbox' = Tail(inbox)
  /\ \/ ~paused /\ logs' = Shown(<<Head(inbox)>>) /\ UNCHANGED <<held, spilled>>
     \/ /\ paused /\ Len(held) < PAUSE_CAP
        /\ held' = Append(held, Head(inbox)) /\ UNCHANGED <<logs, spilled>>
     \/ /\ paused /\ Len(held) >= PAUSE_CAP
        /\ spilled' = spilled \union ({Head(inbox)} \intersect due) /\ UNCHANGED <<logs, held>>
  /\ UNCHANGED <<params, form, streaming, error, loading, refreshing, flights,
                 status, wire, sub, server, paused, tracked, due, acts, calm>>

\* Mutated TogglePause: resuming empties the buffer without the handler.
TogglePauseOnly ==
  /\ ~calm /\ paused' = ~paused
  /\ IF paused THEN acts' = acts ELSE acts < MaxActs /\ acts' = acts + 1
  /\ held' = <<>>
  /\ UNCHANGED <<params, form, streaming, list, connection, server, spilled,
                 tracked, due, calm>>

\* The button of AppLayout; resuming gives the buffer to the handler.
TogglePause ==
  /\ ~calm /\ paused' = ~paused
  /\ IF paused THEN acts' = acts ELSE acts < MaxActs /\ acts' = acts + 1
  /\ IF paused THEN logs' = Shown(held) /\ held' = <<>> ELSE UNCHANGED <<logs, held>>
  /\ UNCHANGED <<params, form, streaming, error, loading, refreshing, flights,
                 connection, server, spilled, tracked, due, calm>>

-----------------------------------------------------------------------------
(* The server *)

\* readPump: Subscribe or Unsubscribe.
Handle ==
  /\ wire # <<>> /\ sub' = Head(wire) /\ wire' = Tail(wire)
  /\ UNCHANGED <<params, form, streaming, pause, list, status, inbox, server,
                 tracked, due, acts, calm>>

InForce == streaming /\ wire = <<>> /\ sub = service

\* A log is flushed; BroadcastFlush starts its goroutine.
Store ==
  /\ ~calm /\ stored < Len(Log) /\ stored' = stored + 1
  /\ fresh' = IF status = "connected" THEN fresh \union {stored'} ELSE fresh
  /\ due' = IF InForce /\ service \in {"", Log[stored'].service}
              THEN due \union {stored'} ELSE due
  /\ UNCHANGED <<params, form, streaming, pause, list, connection, passed, tracked, acts, calm>>

\* IsSubscribed, of the goroutine for n.
Visited(n) ==
  /\ n \in fresh /\ fresh' = fresh \ {n}
  /\ passed' = IF sub = None THEN passed ELSE passed \union {n}
  /\ UNCHANGED <<params, form, streaming, pause, list, connection, stored,
                 tracked, due, acts, calm>>

\* filterLogsForClient, and the message; no filter lets everything through.
Push(n) ==
  /\ n \in passed /\ passed' = passed \ {n}
  /\ inbox' = IF sub \in {None, "", Log[n].service} THEN Append(inbox, n) ELSE inbox
  /\ UNCHANGED <<params, form, streaming, pause, list, status, wire, sub, stored, fresh,
                 tracked, due, acts, calm>>

\* The link opens: the server has a new client.
Open ==
  /\ TheLink!Open
  /\ UNCHANGED <<params, form, streaming, pause, list, wire, inbox, sub, server,
                 tracked, due, acts, calm>>

Retry ==
  /\ TheLink!Retry
  /\ UNCHANGED <<params, form, streaming, pause, list, wire, inbox, sub, server,
                 tracked, due, acts, calm>>

\* The link fails, with all that is on its way; the old client is forgotten.
Lose ==
  /\ ~calm /\ TheLink!Lose
  /\ wire' = <<>> /\ inbox' = <<>> /\ sub' = None
  /\ fresh' = {} /\ passed' = {} /\ due' = {} /\ spilled' = {}
  /\ tracked' = ~streaming
  /\ UNCHANGED <<params, form, streaming, paused, held, list, stored, acts, calm>>

Settle ==
  /\ ~calm /\ calm' = TRUE
  /\ UNCHANGED <<params, form, streaming, pause, list, connection, server, tracked, due, acts>>

Next ==
  \/ ToggleStreaming \/ Search \/ ClearTrace
  \/ \E s \in Service, b \in Body : ChangeForm(s, b)
  \/ \E t \in Trace : GoTo(t) \/ Visit(t)
  \/ Poll \/ Receive \/ TogglePause \/ Handle \/ Store
  \/ \E i \in DOMAIN flights : Land(i)
  \/ \E n \in fresh : Visited(n)
  \/ \E n \in passed : Push(n)
  \/ Open \/ Retry \/ Lose \/ Settle

\* The interval's timer fires and requests end.
Spec == Init /\ [][Next]_vars /\ WF_vars(Poll) /\ WF_vars(flights # <<>> /\ Land(1))

-----------------------------------------------------------------------------
(* Properties *)

\* Where the last word was said on this connection, the server's subscription
\* will be what the page shows, whatever order clicks and deliveries come in.
SubscriptionTracks ==
  tracked => (IF wire = <<>> THEN sub ELSE Last(wire)) = (IF streaming THEN service ELSE None)

\* A stream in force misses no log of its service: each is in the list, on its
\* way to it or in the buffer of a paused screen, unless the list is full or that
\* buffer was full when the log came.
StreamComplete ==
  Len(logs) < CAP =>
    due \ spilled \subseteq fresh \union passed \union Range(inbox) \union Range(held)
                              \union Range(logs)

StreamSound == SubscriptionTracks /\ StreamComplete

\* A page that is not streaming ends up with the logs the server has for the
\* form and for the parameters fetchLogs has captured, and without an error or
\* a skeleton, through failures, late answers and earlier streams.
PollingConverges ==
  <>[](calm /\ ~streaming) =>
    <>[](/\ logs = Answer(Query(service, body, captured), stored)
         /\ View = IF logs = <<>> THEN "empty" ELSE "ready")
=============================================================================
