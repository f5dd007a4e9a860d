-------------------------- MODULE WSManagerProofs --------------------------
(***************************************************************************)
(* Proofs about WSManager, for any set of sockets and any bound on the     *)
(* messages on their way.                                                  *)
(*                                                                         *)
(* The inductive invariant adds to the checked ones what the kept          *)
(* manager's status means for its sockets and its timer, and that only the *)
(* aborted manager has anything left to close.                             *)
(***************************************************************************)
EXTENDS WSManager, TLAPS

\* The kept manager's status tells what it is doing.
StatusMeaning ==
  /\ \A s \in Socket : state[s] = "connecting" => mstatus["kept"] = "reconnecting"
  /\ \A s \in Socket : state[s] = "open" => mstatus["kept"] = "connected"
  /\ (\A s \in Socket : ~Live(s)) => mstatus["kept"] = "disconnected"

\* Only the aborted manager closes intentionally, and it never had a socket since.
Roles ==
  /\ intentionalClose["aborted"] /\ ~intentionalClose["kept"]
  /\ ws["aborted"] = None
  /\ \A s \in Socket : state[s] = "closing" => owner[s] = "aborted" /\ strict

\* The provider's status follows the kept manager's, up to a late close of the other.
Provided ==
  /\ status = "connected" => mstatus["kept"] = "connected"
  /\ ~strict => status = mstatus["kept"]

IInv == TypeOK /\ OneAttempt /\ StatusMeaning /\ Roles /\ Provided

-----------------------------------------------------------------------------

\* The status the pages see is sound because it follows the manager's.
LEMMA InvariantImpliesSound ==
  IInv => StatusSound
<1> SUFFICES ASSUME IInv PROVE StatusSound
  OBVIOUS
<1> USE WSAssumption
<1>1. mstatus["kept"] = "connected" <=> IsOpen("kept")
  <2>1. ASSUME mstatus["kept"] = "connected" PROVE IsOpen("kept")
    <3>1. PICK s \in Socket : Live(s)
      BY <2>1 DEF IInv, StatusMeaning
    <3>2. state[s] = "open"
      BY <2>1, <3>1 DEF IInv, StatusMeaning, Live
    <3>3. QED
      BY <3>1, <3>2 DEF IInv, OneAttempt, IsOpen
  <2>2. ASSUME IsOpen("kept") PROVE mstatus["kept"] = "connected"
    <3>1. ws["kept"] \in Socket
      BY <2>2 DEF IInv, TypeOK, IsOpen, Manager
    <3>2. QED
      BY <2>2, <3>1 DEF IInv, StatusMeaning, IsOpen
  <2>3. QED
    BY <2>1, <2>2
<1>2. QED
  BY <1>1 DEF IInv, Provided, StatusSound

LEMMA InitialInvariant ==
  Init => IInv
<1> SUFFICES ASSUME Init PROVE IInv
  OBVIOUS
<1> USE WSAssumption
<1>1. PICK old \in Socket, new \in Socket :
        /\ strict \in BOOLEAN /\ (strict => old # new)
        /\ state = [s \in Socket |-> IF s = new THEN "connecting"
                                     ELSE IF strict /\ s = old THEN "closing" ELSE "none"]
        /\ owner = [s \in Socket |-> IF s = new THEN "kept" ELSE "aborted"]
        /\ alive = [s \in Socket |-> FALSE] /\ wire = [s \in Socket |-> <<>>]
        /\ subs = [s \in Socket |-> FALSE]
        /\ ws = [m \in Manager |-> IF m = "kept" THEN new ELSE None]
        /\ timer = [m \in Manager |-> 0]
        /\ reconnectDelay = [m \in Manager |-> InitialDelay]
        /\ intentionalClose = [m \in Manager |-> m = "aborted"]
        /\ mstatus = [m \in Manager |-> IF m = "kept" THEN "reconnecting" ELSE "disconnected"]
        /\ status = "reconnecting" /\ shown = "reconnecting"
        /\ page = FALSE /\ up \in BOOLEAN /\ calm = FALSE
  BY DEF Init
<1>2. TypeOK
  <2>1. wire \in [Socket -> Seq({"subscribe", "unsubscribe"})]
    BY <1>1
  <2>2. /\ state \in [Socket -> {"none", "connecting", "open", "closing"}]
        /\ owner \in [Socket -> Manager]
        /\ ws \in [Manager -> Socket \union {None}]
    BY <1>1 DEF Manager
  <2>3. /\ mstatus \in [Manager -> Status]
        /\ intentionalClose \in [Manager -> BOOLEAN]
    BY <1>1 DEF Manager, Status
  <2>4. /\ timer \in [Manager -> Nat]
        /\ reconnectDelay \in [Manager -> InitialDelay..MaxDelay]
    BY <1>1 DEF InitialDelay, MaxDelay
  <2>5. QED
    BY <1>1, <2>1, <2>2, <2>3, <2>4 DEF TypeOK, Status
<1>3. \A s \in Socket : Live(s) <=> s = new
  BY <1>1 DEF Live
<1>4. OneAttempt
  BY <1>1, <1>3 DEF OneAttempt, Manager
<1>5. StatusMeaning
  BY <1>1, <1>3 DEF StatusMeaning, Manager
<1>6. Roles
  BY <1>1 DEF Roles, Manager
<1>7. Provided
  BY <1>1 DEF Provided, Manager
<1>8. QED
  BY <1>2, <1>4, <1>5, <1>6, <1>7 DEF IInv

\* A socket opens: it is the kept manager's only one.
LEMMA OpenedKeepsInvariant ==
  ASSUME IInv, NEW s \in Socket, Opened(s)
  PROVE  IInv'
<1> USE WSAssumption
<1>1. owner[s] = "kept" /\ ws["kept"] = s /\ mstatus["kept"] = "reconnecting"
  BY DEF Opened, IInv, OneAttempt, StatusMeaning, Live
<1>2. \A x \in Socket : Live(x) => x = s
  BY <1>1 DEF IInv, OneAttempt
<1>3. state' = [state EXCEPT ![s] = "open"] /\ mstatus' = [mstatus EXCEPT !["kept"] = "connected"]
      /\ status' = "connected"
  BY <1>1 DEF Opened, SetStatus
<1>4. TypeOK'
  BY <1>1, <1>3 DEF Opened, IInv, TypeOK, Manager, Status, InitialDelay, MaxDelay, environment
<1>5. \A x \in Socket : Live(x)' <=> x = s
  BY <1>2, <1>3 DEF Live, IInv, TypeOK, Opened
<1>6. OneAttempt'
  BY <1>1, <1>5 DEF Opened, IInv, OneAttempt, Live
<1>7. StatusMeaning'
  BY <1>2, <1>3, <1>5 DEF StatusMeaning, IInv, TypeOK, Manager, Live
<1>8. Roles'
  BY <1>3 DEF Opened, IInv, Roles, TypeOK, environment
<1>9. Provided'
  BY <1>3 DEF Opened, IInv, Provided, TypeOK, Manager, environment
<1>10. QED
  BY <1>4, <1>6, <1>7, <1>8, <1>9 DEF IInv

\* A socket ends.  If it is live it is the kept manager's, which sets a timer;
\* otherwise it is the aborted manager's, which does not.
LEMMA ClosedKeepsInvariant ==
  ASSUME IInv, NEW s \in Socket, Closed(s)
  PROVE  IInv'
<1> USE WSAssumption
<1>1. PICK error \in BOOLEAN : state' = EndOf(s, error)
  BY DEF Closed
<1>2. state' = [state EXCEPT ![s] = "none"]
  <2>1. \A x \in Socket \ {s} : ~(x = ws[owner[s]] /\ Live(x))
    BY DEF Closed, IInv, OneAttempt, Roles, Live
  <2>2. QED
    BY <1>1, <2>1 DEF EndOf, IInv, TypeOK
<1>3. /\ mstatus' = [mstatus EXCEPT ![owner[s]] = "disconnected"] /\ status' = "disconnected"
      /\ timer' = ScheduleReconnect(owner[s])
      /\ strict' = strict /\ ws' = ws /\ owner' = owner /\ intentionalClose' = intentionalClose
  BY DEF Closed, SetStatus, environment
<1>4. TypeOK'
  <2>1. timer' \in [Manager -> Nat]
    BY <1>3 DEF ScheduleReconnect, IInv, TypeOK
  <2>2. QED
    BY <1>2, <1>3, <2>1 DEF Closed, IInv, TypeOK, Manager, Status, environment
<1>5. CASE Live(s)
  <2>1. owner[s] = "kept" /\ timer["kept"] = 0 /\ ~intentionalClose["kept"]
    BY <1>5 DEF IInv, OneAttempt, Roles
  <2>2. \A x \in Socket : ~Live(x)'
    BY <1>2, <1>5 DEF IInv, OneAttempt, Live, TypeOK
  <2>3. timer' = [timer EXCEPT !["kept"] = 1]
    BY <1>3, <2>1 DEF ScheduleReconnect, IInv, TypeOK, Manager
  <2>4. OneAttempt'
    BY <2>2, <2>3 DEF OneAttempt, IInv, TypeOK, Manager
  <2>5. StatusMeaning'
    BY <1>3, <2>1, <2>2 DEF StatusMeaning, Live, IInv, TypeOK, Manager
  <2>6. Roles'
    BY <1>2, <1>3 DEF Roles, IInv, TypeOK
  <2>7. Provided'
    BY <1>3, <2>1 DEF Provided, IInv, TypeOK, Manager
  <2>8. QED
    BY <1>4, <2>4, <2>5, <2>6, <2>7 DEF IInv
<1>6. CASE ~Live(s)
  <2>1. state[s] = "closing" /\ owner[s] = "aborted" /\ strict
    BY <1>6 DEF Closed, IInv, Roles, Live
  <2>2. timer' = timer /\ mstatus'["kept"] = mstatus["kept"]
    BY <1>3, <2>1 DEF ScheduleReconnect, IInv, Roles, TypeOK, Manager
  <2>3. \A x \in Socket : Live(x)' <=> Live(x)
    BY <1>2, <2>1 DEF Live, IInv, TypeOK
  <2>4. OneAttempt'
    BY <1>3, <2>2, <2>3 DEF OneAttempt, IInv
  <2>5. StatusMeaning'
    BY <1>2, <2>2, <2>3 DEF StatusMeaning, IInv, TypeOK, Live
  <2>6. Roles'
    BY <1>2, <1>3 DEF Roles, IInv, TypeOK
  <2>7. Provided'
    BY <1>3, <2>1 DEF Provided
  <2>8. QED
    BY <1>4, <2>4, <2>5, <2>6, <2>7 DEF IInv
<1>7. QED
  BY <1>5, <1>6

\* Only the kept manager has a timer; when it fires no socket is live, so connect opens one.
LEMMA FireKeepsInvariant ==
  ASSUME IInv, NEW m \in Manager, Fire(m)
  PROVE  /\ IInv'
         /\ m = "kept" /\ mstatus["kept"] = "disconnected" /\ mstatus'["kept"] = "reconnecting"
<1> USE WSAssumption
<1>1. m = "kept" /\ timer["kept"] = 1 /\ \A x \in Socket : ~Live(x)
  BY DEF Fire, IInv, OneAttempt, Manager
<1>2. ~IsOpen("kept")
  BY <1>1 DEF IsOpen, Live, IInv, TypeOK, Manager
<1>3. PICK s \in Socket :
        /\ state[s] = "none"
        /\ state' = [state EXCEPT ![s] = "connecting"]
        /\ owner' = [owner EXCEPT ![s] = "kept"]
        /\ ws' = [ws EXCEPT !["kept"] = s]
        /\ intentionalClose' = [intentionalClose EXCEPT !["kept"] = FALSE]
        /\ SetStatus("kept", "reconnecting")
        /\ UNCHANGED <<alive, wire, subs>>
  BY <1>1, <1>2 DEF Fire, Connect
<1>4. mstatus' = [mstatus EXCEPT !["kept"] = "reconnecting"] /\ status' = "reconnecting"
  BY <1>3 DEF SetStatus
<1>5. timer' = [timer EXCEPT !["kept"] = 0] /\ strict' = strict
  BY <1>1 DEF Fire, environment, IInv, TypeOK, Manager
<1>6. TypeOK'
  <2>1. reconnectDelay' \in [Manager -> InitialDelay..MaxDelay]
    <3>1. \A d \in InitialDelay..MaxDelay : NextDelay(d) \in InitialDelay..MaxDelay
      BY DEF NextDelay, InitialDelay, MaxDelay
    <3>2. reconnectDelay' = [reconnectDelay EXCEPT ![m] = NextDelay(@)]
      BY DEF Fire
    <3>3. QED
      BY <3>1, <3>2 DEF IInv, TypeOK
  <2>2. QED
    BY <1>3, <1>4, <1>5, <2>1 DEF Fire, IInv, TypeOK, Manager, Status, environment
<1>7. \A x \in Socket : Live(x)' <=> x = s
  BY <1>1, <1>3 DEF Live, IInv, TypeOK
<1>8. OneAttempt'
  BY <1>3, <1>5, <1>7 DEF OneAttempt, IInv, TypeOK, Manager
<1>9. StatusMeaning'
  BY <1>1, <1>3, <1>4, <1>7 DEF StatusMeaning, Live, IInv, TypeOK, Manager
<1>10. Roles'
  BY <1>3, <1>5 DEF Roles, IInv, TypeOK, Manager
<1>11. Provided'
  BY <1>4 DEF Provided, IInv, TypeOK, Manager
<1>12. mstatus["kept"] = "disconnected" /\ mstatus'["kept"] = "reconnecting"
  BY <1>1, <1>4 DEF IInv, StatusMeaning, TypeOK, Manager
<1>13. QED
  BY <1>1, <1>6, <1>8, <1>9, <1>10, <1>11, <1>12 DEF IInv

LEMMA IfType ==
  ASSUME NEW condition, NEW msg \in {"subscribe", "unsubscribe"}
  PROVE  If(condition, msg) \in Seq({"subscribe", "unsubscribe"})
<1>1. CASE condition
  BY <1>1 DEF If
<1>2. CASE ~condition
  BY <1>2 DEF If
<1>3. QED
  BY <1>1, <1>2

\* Whatever the page sends, it stays a sequence of messages.
LEMMA SendKeepsType ==
  ASSUME TypeOK, NEW msgs \in Seq({"subscribe", "unsubscribe"}), Send(msgs)
  PROVE  wire' \in [Socket -> Seq({"subscribe", "unsubscribe"})]
<1>1. CASE wire' = wire
  BY <1>1 DEF TypeOK
<1>2. CASE /\ IsOpen("kept")
           /\ wire' = [wire EXCEPT ![ws["kept"]] = @ \o msgs]
  <2>1. ws["kept"] \in Socket
    BY <1>2 DEF TypeOK, IsOpen, Manager
  <2>2. wire[ws["kept"]] \o msgs \in Seq({"subscribe", "unsubscribe"})
    BY <2>1 DEF TypeOK
  <2>3. QED
    BY <1>2, <2>1, <2>2 DEF TypeOK
<1>3. QED
  BY <1>1, <1>2 DEF Send

\* The other steps change neither sockets, timers nor any status but the committed one.
LEMMA OthersKeepInvariant ==
  ASSUME IInv,
         \/ \E s \in Socket : Deliver(s) \/ Evict(s)
         \/ Commit \/ Mount \/ Unmount \/ Crash \/ Restart \/ Settle
  PROVE  IInv' /\ mstatus' = mstatus
<1> USE WSAssumption
<1>1. /\ UNCHANGED <<state, owner, ws, timer, reconnectDelay, intentionalClose, mstatus>>
      /\ UNCHANGED <<status, strict>>
  BY DEF Deliver, Evict, Commit, Mount, Unmount, Crash, Restart, Settle, manager, socket,
         provider, environment
<1>2. OneAttempt' /\ StatusMeaning' /\ Roles' /\ Provided'
  BY <1>1 DEF IInv, OneAttempt, StatusMeaning, Roles, Provided, Live
<1>3. TypeOK'
  <2>1. CASE \E s \in Socket : Deliver(s)
    <3>1. PICK s \in Socket : Deliver(s)
      BY <2>1
    <3>2. Tail(wire[s]) \in Seq({"subscribe", "unsubscribe"})
      BY <3>1 DEF Deliver, IInv, TypeOK
    <3>3. QED
      BY <1>1, <3>1, <3>2 DEF Deliver, IInv, TypeOK, provider, environment
  <2>2. CASE \E s \in Socket : Evict(s)
    BY <1>1, <2>2 DEF Evict, IInv, TypeOK, provider, environment
  <2>3. CASE Commit
    <3> DEFINE msgs == If(page /\ shown = "connected", "unsubscribe") \o
                     If(page /\ status = "connected", "subscribe")
    <3>1. msgs \in Seq({"subscribe", "unsubscribe"})
      BY IfType
    <3>2. Send(msgs)
      BY <2>3 DEF Commit
    <3>3. wire' \in [Socket -> Seq({"subscribe", "unsubscribe"})]
      BY <3>1, <3>2, SendKeepsType DEF IInv
    <3>4. QED
      BY <1>1, <2>3, <3>3 DEF Commit, IInv, TypeOK, environment
  <2>4. CASE Mount
    <3> DEFINE msgs == If(shown = "connected", "subscribe")
    <3>1. msgs \in Seq({"subscribe", "unsubscribe"})
      BY IfType
    <3>2. Send(msgs)
      BY <2>4 DEF Mount
    <3>3. wire' \in [Socket -> Seq({"subscribe", "unsubscribe"})]
      BY <3>1, <3>2, SendKeepsType DEF IInv
    <3>4. QED
      BY <1>1, <2>4, <3>3 DEF Mount, IInv, TypeOK, environment
  <2>5. CASE Unmount
    <3> DEFINE msgs == If(shown = "connected", "unsubscribe")
    <3>1. msgs \in Seq({"subscribe", "unsubscribe"})
      BY IfType
    <3>2. Send(msgs)
      BY <2>5 DEF Unmount
    <3>3. wire' \in [Socket -> Seq({"subscribe", "unsubscribe"})]
      BY <3>1, <3>2, SendKeepsType DEF IInv
    <3>4. QED
      BY <1>1, <2>5, <3>3 DEF Unmount, IInv, TypeOK, environment
  <2>6. CASE Crash
    <3>1. wire' \in [Socket -> Seq({"subscribe", "unsubscribe"})]
      BY <2>6 DEF Crash
    <3>2. QED
      BY <1>1, <2>6, <3>1 DEF Crash, IInv, TypeOK, provider
  <2>7. CASE Restart
    BY <1>1, <2>7 DEF Restart, IInv, TypeOK, socket, provider
  <2>8. CASE Settle
    BY <1>1, <2>8 DEF Settle, IInv, TypeOK, socket, provider
  <2>9. QED
    BY <2>1, <2>2, <2>3, <2>4, <2>5, <2>6, <2>7, <2>8
<1>4. QED
  BY <1>1, <1>2, <1>3 DEF IInv

LEMMA StutterKeepsInvariant ==
  IInv /\ UNCHANGED vars => IInv'
BY DEF IInv, TypeOK, OneAttempt, StatusMeaning, Roles, Provided, Live, vars, manager, socket,
       provider, environment

\* The invariant is inductive.
LEMMA StepKeepsInvariant ==
  IInv /\ [Next]_vars => IInv'
BY OpenedKeepsInvariant, ClosedKeepsInvariant, FireKeepsInvariant, OthersKeepInvariant,
   StutterKeepsInvariant DEF Next

LEMMA InvariantHolds ==
  Spec => []IInv
BY InitialInvariant, StepKeepsInvariant, PTL DEF Spec

-----------------------------------------------------------------------------

\* For any number of sockets the state keeps its types, and the backoff its bounds.
THEOREM WSManagerTypeCorrect ==
  Spec => []TypeOK
<1>1. IInv => TypeOK
  BY DEF IInv
<1>2. QED
  BY <1>1, InvariantHolds, PTL

\* The manager (websocket.ts) is never idle and never has two connections or
\* timers, whatever fails and when; a disconnected manager never reconnects.
THEOREM OneAttemptHolds ==
  Spec => []OneAttempt
<1>1. IInv => OneAttempt
  BY DEF IInv
<1>2. QED
  BY <1>1, InvariantHolds, PTL

\* The status given to the pages (useWebSocket.tsx) never claims a connection
\* that is not there, and in a production build misses none.
THEOREM StatusSoundHolds ==
  Spec => []StatusSound
BY InvariantImpliesSound, InvariantHolds, PTL

-----------------------------------------------------------------------------

LEMMA InitImplementsLink ==
  Init => TheLink!Init
BY DEF Init, TheLink!Init, Manager

\* Each step of the manager is a step of the link or leaves it alone.
LEMMA StepImplementsLink ==
  IInv /\ [Next]_vars => [TheLink!Next]_(mstatus["kept"])
<1> SUFFICES ASSUME IInv, [Next]_vars
             PROVE  TheLink!Next \/ mstatus'["kept"] = mstatus["kept"]
  OBVIOUS
<1> USE WSAssumption
<1>1. ASSUME NEW s \in Socket, Opened(s) PROVE TheLink!Next
  <2>1. owner[s] = "kept" /\ mstatus["kept"] = "reconnecting"
    BY <1>1 DEF Opened, IInv, OneAttempt, StatusMeaning, Live
  <2>2. mstatus'["kept"] = "connected"
    BY <1>1, <2>1 DEF Opened, SetStatus, IInv, TypeOK, Manager
  <2>3. QED
    BY <2>1, <2>2 DEF TheLink!Next, TheLink!Open
<1>2. ASSUME NEW s \in Socket, Closed(s)
      PROVE  TheLink!Next \/ mstatus'["kept"] = mstatus["kept"]
  <2>1. mstatus' = [mstatus EXCEPT ![owner[s]] = "disconnected"]
    BY <1>2 DEF Closed, SetStatus
  <2>2. owner[s] \in Manager /\ mstatus \in [Manager -> Status]
    BY DEF IInv, TypeOK
  <2>3. CASE owner[s] = "kept"
    BY <2>1, <2>2, <2>3 DEF TheLink!Next, TheLink!Lose, Manager, Status
  <2>4. CASE owner[s] = "aborted"
    BY <2>1, <2>2, <2>4 DEF Manager
  <2>5. QED
    BY <2>2, <2>3, <2>4 DEF Manager
<1>3. ASSUME NEW m \in Manager, Fire(m) PROVE TheLink!Next
  BY <1>3, FireKeepsInvariant DEF TheLink!Next, TheLink!Retry
<1>4. CASE UNCHANGED vars
  BY <1>4 DEF vars, manager
<1>5. CASE \/ \E s \in Socket : Deliver(s) \/ Evict(s)
           \/ Commit \/ Mount \/ Unmount \/ Crash \/ Restart \/ Settle
  BY <1>5, OthersKeepInvariant
<1>6. QED
  BY <1>1, <1>2, <1>3, <1>4, <1>5 DEF Next

\* WSManager implements Link, the safety part: from 'disconnected' the status
\* goes to 'reconnecting' only, and to 'connected' only from there.
THEOREM ImplementsLink ==
  Spec => TheLink!Init /\ [][TheLink!Next]_(mstatus["kept"])
BY InitImplementsLink, StepImplementsLink, InvariantHolds, PTL DEF Spec
=============================================================================
