--------------------------------- MODULE Hub ---------------------------------
(***************************************************************************)
(* The WebSocket hub of internal/api/ws_hub.go with the handler of         *)
(* internal/api/handler.go.                                                *)
(*                                                                         *)
(* The hub goroutine owns the set of clients; it takes clients from the    *)
(* unbuffered channels register and unregister and changes the set under   *)
(* the write lock.  Broadcasts run on goroutines of their own (and on the  *)
(* hub's, for the ping) under the read lock and never wait for a client:   *)
(* one whose buffer is full is evicted by yet another goroutine.  Each     *)
(* client has a reader (its HTTP handler) and a writer goroutine.          *)
(*                                                                         *)
(* Sending on a closed channel or closing one twice is a panic that takes  *)
(* the process down.  Messages are counted, not told apart.                *)
(***************************************************************************)
EXTENDS Naturals, FiniteSets

CONSTANTS
  Client,       \* the connections of a behaviour
  Caster,       \* goroutines of BroadcastFlush that may run at once
  MaxClients,   \* 100
  SendBuf,      \* sendBufSize: 256
  MaxCasts      \* bound: broadcasts in a behaviour

ASSUME HubAssumption ==
  /\ IsFiniteSet(Client)
  /\ "hub" \notin Caster
  /\ MaxClients \in Nat \ {0} /\ SendBuf \in Nat \ {0} /\ MaxCasts \in Nat

VARIABLES
  clients,    \* Hub.clients
  hub,        \* the hub goroutine: pc, and the client it adds or removes
  todo,       \* per broadcast goroutine, the clients it still has to visit
  closed,     \* clients whose send channel is closed
  buf,        \* per client, messages in the send channel
  subs,       \* clients subscribed to the channel that is broadcast
  reader,     \* per client, where its handler is
  writer,     \* per client, where its writePump is
  connOpen,   \* clients whose connection is open
  evictions,  \* per client, goroutines blocked on unregister <- c
  casts,      \* number of broadcasts so far
  panicked    \* a channel was closed twice or written after its close

pumps == <<reader, writer, connOpen, subs>>
vars == <<clients, hub, todo, closed, buf, pumps, evictions, casts, panicked>>

IdleHub == [pc |-> "select", client |-> {}]

Init ==
  /\ clients = {} /\ closed = {} /\ subs = {} /\ connOpen = {}
  /\ hub = IdleHub
  /\ todo = [b \in Caster \cup {"hub"} |-> {}]
  /\ buf = [c \in Client |-> 0]
  /\ reader = [c \in Client |-> "none"]
  /\ writer = [c \in Client |-> "none"]
  /\ evictions = [c \in Client |-> 0]
  /\ casts = 0
  /\ panicked = FALSE

-----------------------------------------------------------------------------
(* HandleWebSocket and readPump.                                           *)

\* The upgrade succeeds; the handler blocks on register <- client.
Connect(c) ==
  /\ reader[c] = "none"
  /\ reader' = [reader EXCEPT ![c] = "registering"]
  /\ connOpen' = connOpen \cup {c}
  /\ UNCHANGED <<clients, hub, todo, closed, buf, writer, subs, evictions, casts, panicked>>

\* A message of the client changes its subscriptions.
Subscribe(c) ==
  /\ reader[c] = "reading" /\ c \in connOpen
  /\ \E s \in {subs \cup {c}, subs \ {c}} : subs' = s
  /\ UNCHANGED <<clients, hub, todo, closed, buf, reader, writer, connOpen,
                 evictions, casts, panicked>>

\* Read fails: the peer went away, or our side closed the connection.
ReadError(c) ==
  /\ reader[c] = "reading"
  /\ reader' = [reader EXCEPT ![c] = "leaving"]
  /\ UNCHANGED <<clients, hub, todo, closed, buf, writer, connOpen, subs,
                 evictions, casts, panicked>>

-----------------------------------------------------------------------------
(* writePump.                                                              *)

\* One message is written; an error (a timeout, a closed connection) ends the
\* writer and closes the connection.
Write(c) ==
  /\ writer[c] = "running" /\ buf[c] > 0
  /\ buf' = [buf EXCEPT ![c] = @ - 1]
  /\ \/ c \in connOpen /\ UNCHANGED <<writer, connOpen>>
     \/ writer' = [writer EXCEPT ![c] = "gone"] /\ connOpen' = connOpen \ {c}
  /\ UNCHANGED <<clients, hub, todo, closed, reader, subs, evictions, casts, panicked>>

\* Mutated WriterExit: the closed channel is not noticed.
WriterExitOnReturn(c) ==
  /\ writer[c] = "running"
  /\ reader[c] = "gone"
  /\ writer' = [writer EXCEPT ![c] = "gone"]
  /\ connOpen' = connOpen \ {c}
  /\ UNCHANGED <<clients, hub, todo, closed, buf, reader, subs, evictions, casts, panicked>>

\* The channel is closed and empty, or the handler has returned, which cancels
\* the request's context.
WriterExit(c) ==
  /\ writer[c] = "running"
  /\ (c \in closed /\ buf[c] = 0) \/ reader[c] = "gone"
  /\ writer' = [writer EXCEPT ![c] = "gone"]
  /\ connOpen' = connOpen \ {c}
  /\ UNCHANGED <<clients, hub, todo, closed, buf, reader, subs, evictions, casts, panicked>>

-----------------------------------------------------------------------------
(* Hub.Run.                                                                *)

\* The hub takes a client from register; its handler starts the pumps.
TakeRegister(c) ==
  /\ hub.pc = "select" /\ reader[c] = "registering"
  /\ hub' = [pc |-> "add", client |-> {c}]
  /\ reader' = [reader EXCEPT ![c] = "reading"]
  /\ writer' = [writer EXCEPT ![c] = "running"]
  /\ UNCHANGED <<clients, todo, closed, buf, connOpen, subs, evictions, casts, panicked>>

\* The hub takes a client from unregister, sent by its readPump, which then
\* closes the connection and returns ...
TakeLeave(c) ==
  /\ hub.pc = "select" /\ reader[c] = "leaving"
  /\ hub' = [pc |-> "remove", client |-> {c}]
  /\ reader' = [reader EXCEPT ![c] = "gone"]
  /\ connOpen' = connOpen \ {c}
  /\ UNCHANGED <<clients, todo, closed, buf, writer, subs, evictions, casts, panicked>>

\* ... or by a goroutine that evicts it.
TakeEviction(c) ==
  /\ hub.pc = "select" /\ evictions[c] > 0
  /\ hub' = [pc |-> "remove", client |-> {c}]
  /\ evictions' = [evictions EXCEPT ![c] = @ - 1]
  /\ UNCHANGED <<clients, todo, closed, buf, pumps, casts, panicked>>

\* The write lock is free: nobody holds the read lock.
LockFree == \A b \in Caster \cup {"hub"} : todo[b] = {}

Close(cs) ==
  /\ closed' = closed \cup cs
  /\ panicked' = (panicked \/ cs \cap closed # {})

Add ==
  /\ hub.pc = "add" /\ LockFree
  /\ IF Cardinality(clients) >= MaxClients
       THEN Close(hub.client) /\ UNCHANGED clients
       ELSE clients' = clients \cup hub.client /\ UNCHANGED <<closed, panicked>>
  /\ hub' = IdleHub
  /\ UNCHANGED <<todo, buf, pumps, evictions, casts>>

\* Mutated Remove: the client is closed without looking whether it is listed.
RemoveUnlisted ==
  /\ hub.pc = "remove" /\ LockFree
  /\ clients' = clients \ hub.client
  /\ Close(hub.client)
  /\ hub' = IdleHub
  /\ UNCHANGED <<todo, buf, pumps, evictions, casts>>

\* Mutated Remove: the client is removed without the write lock.
RemoveUnlocked ==
  /\ hub.pc = "remove"
  /\ clients' = clients \ hub.client
  /\ Close(hub.client \cap clients)
  /\ hub' = IdleHub
  /\ UNCHANGED <<todo, buf, pumps, evictions, casts>>

\* Only a client that is still listed is closed: its reader and any number of
\* evictions may all unregister it.
Remove ==
  /\ hub.pc = "remove" /\ LockFree
  /\ clients' = clients \ hub.client
  /\ Close(hub.client \cap clients)
  /\ hub' = IdleHub
  /\ UNCHANGED <<todo, buf, pumps, evictions, casts>>

\* The ping is broadcast by the hub goroutine itself.
Ping ==
  /\ hub.pc = "select" /\ casts < MaxCasts
  /\ hub' = [hub EXCEPT !.pc = "ping"]
  /\ todo' = [todo EXCEPT !["hub"] = clients]
  /\ casts' = casts + 1
  /\ UNCHANGED <<clients, closed, buf, pumps, evictions, panicked>>

PingDone ==
  /\ hub.pc = "ping" /\ todo["hub"] = {}
  /\ hub' = IdleHub
  /\ UNCHANGED <<clients, todo, closed, buf, pumps, evictions, casts, panicked>>

\* The context ends; nobody takes from register and unregister any more.
Exit ==
  /\ hub.pc = "select"
  /\ hub' = [hub EXCEPT !.pc = "exited"]
  /\ UNCHANGED <<clients, todo, closed, buf, pumps, evictions, casts, panicked>>

-----------------------------------------------------------------------------
(* broadcast, broadcastToChannel, broadcastLogsFiltered.                   *)

\* A goroutine of BroadcastFlush gets the read lock.  It has to wait while the
\* hub waits for the write lock.
Cast(b) ==
  /\ todo[b] = {} /\ casts < MaxCasts
  /\ clients # {} /\ hub.pc \notin {"add", "remove"}
  /\ todo' = [todo EXCEPT ![b] = clients]
  /\ casts' = casts + 1
  /\ UNCHANGED <<clients, hub, closed, buf, pumps, evictions, panicked>>

\* The non-blocking send to one client, or the start of its eviction.
Offer(c) ==
  IF buf[c] < SendBuf
    THEN /\ buf' = [buf EXCEPT ![c] = @ + 1]
         /\ panicked' = (panicked \/ c \in closed)
         /\ UNCHANGED evictions
    ELSE /\ evictions' = [evictions EXCEPT ![c] = @ + 1]
         /\ UNCHANGED <<buf, panicked>>

\* Mutated Visit: the send waits for room in the client's buffer.
VisitBlocking(b, c) ==
  /\ c \in todo[b]
  /\ b = "hub" \/ c \in subs => buf[c] < SendBuf
  /\ todo' = [todo EXCEPT ![b] = @ \ {c}]
  /\ IF b = "hub" \/ c \in subs THEN Offer(c) ELSE UNCHANGED <<buf, evictions, panicked>>
  /\ UNCHANGED <<clients, hub, closed, pumps, casts>>

\* Broadcast b visits client c: the ping goes to every client, the others to
\* those subscribed at that moment.
Visit(b, c) ==
  /\ c \in todo[b]
  /\ todo' = [todo EXCEPT ![b] = @ \ {c}]
  /\ IF b = "hub" \/ c \in subs THEN Offer(c) ELSE UNCHANGED <<buf, evictions, panicked>>
  /\ UNCHANGED <<clients, hub, closed, pumps, casts>>

-----------------------------------------------------------------------------
HubStep ==
  \/ \E c \in Client : TakeRegister(c) \/ TakeLeave(c) \/ TakeEviction(c)
  \/ Add
  \/ Remove
  \/ Ping
  \/ PingDone
  \/ Exit

Next ==
  \/ HubStep
  \/ \E c \in Client :
       Connect(c) \/ Subscribe(c) \/ ReadError(c) \/ Write(c) \/ WriterExit(c)
  \/ \E b \in Caster : Cast(b)
  \/ \E b \in Caster \cup {"hub"}, c \in Client : Visit(b, c)

Spec == Init /\ [][Next]_vars

\* Goroutines are scheduled; a blocked sender on a channel is served in turn;
\* writes end within writeTimeout; a reader of a closed connection sees it.
Fairness ==
  /\ \A c \in Client :
       /\ SF_vars(TakeRegister(c)) /\ SF_vars(TakeLeave(c)) /\ SF_vars(TakeEviction(c))
       /\ WF_vars(Write(c)) /\ WF_vars(WriterExit(c))
       /\ WF_vars(c \notin connOpen /\ ReadError(c))
  /\ WF_vars(Add) /\ WF_vars(Remove) /\ WF_vars(PingDone)
  /\ \A b \in Caster \cup {"hub"} : WF_vars(\E c \in Client : Visit(b, c))

FairSpec == Spec /\ Fairness

-----------------------------------------------------------------------------
(* Properties.                                                             *)

\* The type of every variable: the hub never lists more than MaxClients clients,
\* and no send channel holds more than SendBuf messages.
TypeOK ==
  /\ Cardinality(clients) <= MaxClients
  /\ clients \subseteq Client /\ closed \subseteq Client
  /\ subs \subseteq Client /\ connOpen \subseteq Client
  /\ hub \in [pc : {"select", "add", "remove", "ping", "exited"}, client : SUBSET Client]
  /\ todo \in [Caster \cup {"hub"} -> SUBSET Client]
  /\ buf \in [Client -> 0..SendBuf]
  /\ reader \in [Client -> {"none", "registering", "reading", "leaving", "gone"}]
  /\ writer \in [Client -> {"none", "running", "gone"}]
  /\ evictions \in [Client -> Nat]
  /\ casts \in Nat
  /\ panicked \in BOOLEAN

\* No interleaving of broadcasts, evictions and departures sends on a closed
\* channel or closes one twice, although a client may be unregistered by its
\* reader and by several evictions.
NoPanic == ~panicked

\* A client whose reader is leaving, or that is being evicted, is removed from the
\* hub although the hub also broadcasts: no goroutine waits for itself.
Removed ==
  \A c \in Client :
    reader[c] = "leaving" \/ evictions[c] > 0 ~> c \notin clients \/ hub.pc = "exited"

\* A client whose channel is closed, refused at the limit or evicted, winds down:
\* its writer ends, the connection is closed and its handler returns.
WindsDown ==
  \A c \in Client :
    c \in closed
      ~> hub.pc = "exited" \/ (writer[c] = "gone" /\ reader[c] = "gone" /\ c \notin connOpen)
=============================================================================
