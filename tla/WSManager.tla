----------------------------- MODULE WSManager -----------------------------
(***************************************************************************)
(* The browser's connection: WSManager (web/src/lib/websocket.ts), the     *)
(* WebSocketProvider that owns it, and useWSChannel of the page that is    *)
(* mounted (web/src/hooks/useWebSocket.tsx).                               *)
(*                                                                         *)
(* A development build runs in StrictMode (main.tsx): React mounts,        *)
(* unmounts and mounts the provider again, so two managers exist and both  *)
(* report to the provider's setStatus.  The aborted one has closed a       *)
(* socket whose close event is still to come.                              *)
(*                                                                         *)
(* An event handler or a timer callback is one step; the network, the      *)
(* server and React's commits come in between.  Time is not modelled: a    *)
(* timer may fire at any moment, but not before the commit of the status   *)
(* that was set a second or more earlier.                                  *)
(***************************************************************************)
EXTENDS Integers, Sequences

CONSTANTS
  Socket,     \* identities of WebSocket objects, reused once closed
  MaxWire,    \* bound: messages of the page on their way to the server
  None

ASSUME WSAssumption ==
  /\ Socket # {} /\ None \notin Socket
  /\ MaxWire \in Nat \ {0}

Manager == {"aborted", "kept"}
Status == {"connected", "disconnected", "reconnecting"}
InitialDelay == 1       \* reconnectDelay, in seconds
MaxDelay == 30          \* maxReconnectDelay

VARIABLES
  strict,            \* development build
  state, owner,      \* per socket: readyState ("none": closed), the manager whose handlers it has
  alive, wire, subs, \* per socket: the server's end exists, messages to it, its subscription
  ws, timer, reconnectDelay, intentionalClose, mstatus,  \* per manager; timer counts pending timeouts
  status, shown,     \* the provider's state, and the value React has committed
  page,              \* a page with useWSChannel(channel) is mounted
  up, calm           \* the server runs; from now on nothing fails any more

manager == <<ws, timer, reconnectDelay, intentionalClose, mstatus>>
socket == <<state, owner, alive, wire, subs>>
provider == <<status, shown, page>>
environment == <<strict, up, calm>>
vars == <<manager, socket, provider, environment>>

Live(s) == state[s] \in {"connecting", "open"}

\* After the provider's effect has run; in a development build the aborted
\* manager has been created, connected and disconnected before.
Init ==
  \E old, new \in Socket :
    /\ strict \in BOOLEAN /\ (strict => old # new)
    /\ state = [s \in Socket |-> IF s = new THEN "connecting"
                                 ELSE IF strict /\ s = old THEN "closing" ELSE "none"]
    /\ owner = [s \in Socket |-> IF s = new THEN "kept" ELSE "aborted"]
    /\ alive = [s \in Socket |-> FALSE] /\ wire = [s \in Socket |-> <<>>]
    /\ subs = [s \in Socket |-> FALSE]
    /\ ws = [m \in Manager |-> IF m = "kept" THEN new ELSE None]
    /\ timer = [m \in Manager |-> 0]
    /\ reconnectDelay = [m \in Manager |-> InitialDelay]
    /\ intentionalClose = [m \in Manager |-> m = "aborted"]
    /\ mstatus = [m \in Manager |-> IF m = "kept" THEN "reconnecting" ELSE "disconnected"]
    /\ status = "reconnecting" /\ shown = "reconnecting"
    /\ page = FALSE /\ up \in BOOLEAN /\ calm = FALSE

\* Mutated SetStatus: nothing is reported while closing intentionally or offline.
SetStatusUnlessLost(m, v) ==
  /\ mstatus' = [mstatus EXCEPT ![m] = v]
  /\ status' = IF v = "disconnected" THEN status ELSE v

SetStatus(m, v) ==
  /\ mstatus' = [mstatus EXCEPT ![m] = v]
  /\ status' = v

IsOpen(m) == ws[m] # None /\ state[ws[m]] = "open"

\* connect: a new WebSocket, unless the manager's is open.
Connect(m) ==
  IF IsOpen(m)
    THEN UNCHANGED <<socket, ws, intentionalClose, mstatus, status>>
    ELSE \E s \in Socket :
           /\ state[s] = "none"
           /\ state' = [state EXCEPT ![s] = "connecting"]
           /\ owner' = [owner EXCEPT ![s] = m]
           /\ ws' = [ws EXCEPT ![m] = s]
           /\ intentionalClose' = [intentionalClose EXCEPT ![m] = FALSE]
           /\ SetStatus(m, "reconnecting")
           /\ UNCHANGED <<alive, wire, subs>>

\* onopen
Opened(s) ==
  /\ state[s] = "connecting" /\ up
  /\ state' = [state EXCEPT ![s] = "open"]
  /\ alive' = [alive EXCEPT ![s] = TRUE]
  /\ reconnectDelay' = [reconnectDelay EXCEPT ![owner[s]] = InitialDelay]
  /\ SetStatus(owner[s], "connected")
  /\ UNCHANGED <<owner, wire, subs, ws, timer, intentionalClose, shown, page, environment>>

\* readyState after the end of s: onerror closes the manager's current socket,
\* whichever raised the event.
EndOf(s, error) ==
  [x \in Socket |-> IF x = s THEN "none"
                    ELSE IF error /\ x = ws[owner[s]] /\ Live(x) THEN "closing"
                    ELSE state[x]]

\* Mutated ScheduleReconnect: an intentional close reconnects as well.
ScheduleAlways(m) == [timer EXCEPT ![m] = @ + 1]

\* Mutated ScheduleReconnect: only one attempt, none after a failed one.
ScheduleOnce(m) ==
  IF intentionalClose[m] \/ reconnectDelay[m] > InitialDelay THEN timer
  ELSE [timer EXCEPT ![m] = @ + 1]

\* Timeouts pending after scheduleReconnect, which forgets one set before.
ScheduleReconnect(m) == IF intentionalClose[m] THEN timer ELSE [timer EXCEPT ![m] = @ + 1]

\* The socket fails or ends: onerror, if there was an error, and onclose.
Closed(s) ==
  /\ \/ state[s] = "closing"
     \/ state[s] = "connecting" /\ ~up
     \/ state[s] = "open" /\ ~alive[s]
  /\ \E error \in BOOLEAN :
       /\ state[s] = "connecting" => error
       /\ state' = EndOf(s, error)
  /\ SetStatus(owner[s], "disconnected")
  /\ timer' = ScheduleReconnect(owner[s])
  /\ alive' = [alive EXCEPT ![s] = FALSE]
  /\ wire' = [wire EXCEPT ![s] = <<>>]
  /\ subs' = [subs EXCEPT ![s] = FALSE]
  /\ UNCHANGED <<owner, ws, reconnectDelay, intentionalClose, shown, page, environment>>

NextDelay(d) == IF 2 * d <= MaxDelay THEN 2 * d ELSE MaxDelay

\* The callback of the reconnect timer.
Fire(m) ==
  /\ timer[m] > 0 /\ shown = status
  /\ timer' = [timer EXCEPT ![m] = @ - 1]
  /\ reconnectDelay' = [reconnectDelay EXCEPT ![m] = NextDelay(@)]
  /\ Connect(m)
  /\ UNCHANGED <<shown, page, environment>>

-----------------------------------------------------------------------------
(* useWSChannel *)

\* send: dropped unless the socket is open, lost when the server's end is gone.
Send(msgs) ==
  IF IsOpen("kept") /\ alive[ws["kept"]]
    THEN /\ Len(wire[ws["kept"]]) + Len(msgs) <= MaxWire
         /\ wire' = [wire EXCEPT ![ws["kept"]] = @ \o msgs]
    ELSE wire' = wire

\* The message, if the effect's condition holds.
If(condition, msg) == IF condition THEN <<msg>> ELSE <<>>

\* Mutated Commit: the status is missing from the effect's dependencies.
CommitWithoutEffect ==
  /\ shown # status
  /\ shown' = status
  /\ wire' = wire
  /\ UNCHANGED <<state, owner, alive, subs, manager, status, page, environment>>

\* React commits a new status; the effect of the mounted page depends on it:
\* the cleanup of the old one unsubscribes, the new one subscribes.
Commit ==
  /\ shown # status
  /\ shown' = status
  /\ Send(If(page /\ shown = "connected", "unsubscribe") \o
          If(page /\ status = "connected", "subscribe"))
  /\ UNCHANGED <<state, owner, alive, subs, manager, status, page, environment>>

Mount ==
  /\ ~page /\ page' = TRUE
  /\ Send(If(shown = "connected", "subscribe"))
  /\ UNCHANGED <<state, owner, alive, subs, manager, status, shown, environment>>

Unmount ==
  /\ page /\ page' = FALSE
  /\ Send(If(shown = "connected", "unsubscribe"))
  /\ UNCHANGED <<state, owner, alive, subs, manager, status, shown, environment>>

-----------------------------------------------------------------------------
(* The server and the network *)

\* The hub's readPump handles the next message of the client.
Deliver(s) ==
  /\ wire[s] # <<>>
  /\ subs' = [subs EXCEPT ![s] = Head(wire[s]) = "subscribe"]
  /\ wire' = [wire EXCEPT ![s] = Tail(@)]
  /\ UNCHANGED <<state, owner, alive, manager, provider, environment>>

\* The server closes one client, or the connection breaks.
Evict(s) ==
  /\ alive[s] /\ ~calm
  /\ alive' = [alive EXCEPT ![s] = FALSE]
  /\ wire' = [wire EXCEPT ![s] = <<>>]
  /\ subs' = [subs EXCEPT ![s] = FALSE]
  /\ UNCHANGED <<state, owner, manager, provider, environment>>

Crash ==
  /\ up /\ ~calm /\ up' = FALSE
  /\ alive' = [s \in Socket |-> FALSE]
  /\ wire' = [s \in Socket |-> <<>>]
  /\ subs' = [s \in Socket |-> FALSE]
  /\ UNCHANGED <<state, owner, manager, provider, strict, calm>>

Restart ==
  /\ ~up /\ up' = TRUE
  /\ UNCHANGED <<manager, socket, provider, strict, calm>>

Settle ==
  /\ up /\ ~calm /\ calm' = TRUE
  /\ UNCHANGED <<manager, socket, provider, strict, up>>

Next ==
  \/ \E s \in Socket : Opened(s) \/ Closed(s) \/ Deliver(s) \/ Evict(s)
  \/ \E m \in Manager : Fire(m)
  \/ Commit \/ Mount \/ Unmount
  \/ Crash \/ Restart \/ Settle

Spec == Init /\ [][Next]_vars

\* The browser delivers events, fires timers and commits; the server reads and
\* comes back.  Nobody has to visit a page, to fail or to stop failing.
FairSpec ==
  /\ Spec
  /\ \A s \in Socket : WF_vars(Opened(s)) /\ WF_vars(Closed(s)) /\ WF_vars(Deliver(s))
  /\ \A m \in Manager : WF_vars(Fire(m))
  /\ WF_vars(Commit) /\ WF_vars(Restart)

-----------------------------------------------------------------------------
(* Properties *)

\* Types; the backoff stays between 1 and 30 seconds.
TypeOK ==
  /\ strict \in BOOLEAN /\ page \in BOOLEAN /\ up \in BOOLEAN /\ calm \in BOOLEAN
  /\ state \in [Socket -> {"none", "connecting", "open", "closing"}]
  /\ owner \in [Socket -> Manager]
  /\ alive \in [Socket -> BOOLEAN] /\ subs \in [Socket -> BOOLEAN]
  /\ wire \in [Socket -> Seq({"subscribe", "unsubscribe"})]
  /\ ws \in [Manager -> Socket \union {None}]
  /\ timer \in [Manager -> Nat]
  /\ reconnectDelay \in [Manager -> InitialDelay..MaxDelay]
  /\ intentionalClose \in [Manager -> BOOLEAN]
  /\ mstatus \in [Manager -> Status] /\ status \in Status /\ shown \in Status

\* The manager never gives up and never works twice: it has a socket that is
\* open or connecting, its own and no other, or exactly one pending timer.
\* The manager that was disconnected has neither.
OneAttempt ==
  /\ \A s \in Socket : Live(s) => owner[s] = "kept" /\ ws["kept"] = s
  /\ timer["kept"] = IF \E s \in Socket : Live(s) THEN 0 ELSE 1
  /\ timer["aborted"] = 0

\* The status that the pages see says "connected" only while the manager's
\* socket is open; without the second manager of StrictMode, exactly then.
StatusSound ==
  /\ status = "connected" => IsOpen("kept")
  /\ ~strict => (IsOpen("kept") <=> status = "connected")

\* The manager implements the link that its status describes.
TheLink == INSTANCE Link WITH link <- mstatus["kept"]
LinkSpec == TheLink!Spec

Subscribed == \E s \in Socket : state[s] = "open" /\ alive[s] /\ subs[s]

\* Across reconnects and visits the server's subscriptions follow the page: once
\* nothing fails any more, a page that stays gets its channel (in a production
\* build) and a page that was left does not keep it.
SubscriptionFollowsPage ==
  /\ <>[](calm /\ page /\ ~strict) => <>[]Subscribed
  /\ <>[](calm /\ ~page) => <>[]~Subscribed
=============================================================================
