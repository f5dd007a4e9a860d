------------------------------ MODULE HubProofs ------------------------------
(***************************************************************************)
(* Proofs about Hub, for any finite set of clients, any goroutines that    *)
(* broadcast, and any capacities.                                          *)
(*                                                                         *)
(* Neither a panic nor the capacity can be excluded by itself.  The        *)
(* inductive invariant adds that what is listed or about to be visited is  *)
(* open, which the read lock protects, and that a client is handed to the  *)
(* hub only once, before it is either listed or closed.                    *)
(***************************************************************************)
EXTENDS Hub, FiniteSetTheorems, TLAPS

\* A client that is listed, or that a broadcast still has to visit, has an open
\* send channel: the read lock protects the whole of a broadcast.
VisitedIsOpen ==
  /\ clients \cap closed = {}
  /\ \A b \in Caster \cup {"hub"} : todo[b] \subseteq clients

\* A client that the hub has not taken from register is neither listed nor closed,
\* and neither is the one it is about to add.
AddedOnce ==
  /\ \A c \in Client :
       reader[c] \in {"none", "registering"} => c \notin clients \cup closed
  /\ hub.pc = "add" =>
       \E c \in Client : /\ hub.client = {c}
                         /\ c \notin clients \cup closed
                         /\ reader[c] \notin {"none", "registering"}

IInv == TypeOK /\ NoPanic /\ VisitedIsOpen /\ AddedOnce

-----------------------------------------------------------------------------

LEMMA InitialInvariant ==
  Init => IInv
<1> SUFFICES ASSUME Init PROVE IInv
  OBVIOUS
<1> USE HubAssumption
<1>1. Cardinality(clients) = 0
  BY FS_EmptySet DEF Init
<1>2. TypeOK
  <2>1. Cardinality(clients) <= MaxClients
    BY <1>1
  <2>2. hub \in [pc : {"select", "add", "remove", "ping", "exited"}, client : SUBSET Client]
    BY DEF Init, IdleHub
  <2>3. todo \in [Caster \cup {"hub"} -> SUBSET Client]
    BY DEF Init
  <2>4. buf \in [Client -> 0..SendBuf]
    BY DEF Init
  <2>5. evictions \in [Client -> Nat]
    BY DEF Init
  <2>6. QED
    BY <2>1, <2>2, <2>3, <2>4, <2>5 DEF Init, TypeOK
<1>3. NoPanic /\ VisitedIsOpen /\ AddedOnce
  BY DEF Init, NoPanic, VisitedIsOpen, AddedOnce, IdleHub
<1>4. QED
  BY <1>2, <1>3 DEF IInv

\* Handlers and writers change no set the hub owns.
LEMMA PumpsKeepInvariant ==
  ASSUME IInv, NEW c \in Client,
         Connect(c) \/ Subscribe(c) \/ ReadError(c) \/ Write(c) \/ WriterExit(c)
  PROVE  IInv'
<1> USE HubAssumption DEF IInv, TypeOK, NoPanic, VisitedIsOpen, AddedOnce
<1>1. CASE Connect(c)
  BY <1>1 DEF Connect
<1>2. CASE Subscribe(c)
  BY <1>2 DEF Subscribe
<1>3. CASE ReadError(c)
  BY <1>3 DEF ReadError
<1>4. CASE Write(c)
  BY <1>4 DEF Write
<1>5. CASE WriterExit(c)
  BY <1>5 DEF WriterExit
<1>6. QED
  BY <1>1, <1>2, <1>3, <1>4, <1>5

\* What the hub takes from register has never been listed or closed.
LEMMA TakesKeepInvariant ==
  ASSUME IInv, NEW c \in Client,
         TakeRegister(c) \/ TakeLeave(c) \/ TakeEviction(c)
  PROVE  IInv'
<1> USE HubAssumption DEF IInv, TypeOK, NoPanic, VisitedIsOpen, AddedOnce
<1>1. CASE TakeRegister(c)
  BY <1>1 DEF TakeRegister
<1>2. CASE TakeLeave(c)
  BY <1>2 DEF TakeLeave
<1>3. CASE TakeEviction(c)
  BY <1>3 DEF TakeEviction, pumps
<1>4. QED
  BY <1>1, <1>2, <1>3

\* The client taken from register is listed below the limit and closed at it.
LEMMA AddKeepsInvariant ==
  ASSUME IInv, Add
  PROVE  IInv'
<1> USE HubAssumption
<1>1. PICK c \in Client : /\ hub.client = {c}
                          /\ c \notin clients \cup closed
                          /\ reader[c] \notin {"none", "registering"}
  BY DEF IInv, AddedOnce, Add
<1>2. IsFiniteSet(clients) /\ Cardinality(clients) \in Nat
  BY FS_Subset, FS_CardinalityType DEF IInv, TypeOK
<1>3. Cardinality(clients \cup {c}) = Cardinality(clients) + 1
  BY <1>1, <1>2, FS_AddElement
<1>4. CASE Cardinality(clients) >= MaxClients
  BY <1>1, <1>4 DEF Add, Close, IdleHub, pumps, IInv, TypeOK, NoPanic, VisitedIsOpen, AddedOnce
<1>5. CASE ~(Cardinality(clients) >= MaxClients)
  <2>1. clients' = clients \cup {c} /\ UNCHANGED <<closed, panicked, todo, buf, pumps, evictions, casts>>
    BY <1>1, <1>5 DEF Add
  <2>2. Cardinality(clients') <= MaxClients
    BY <1>2, <1>3, <1>5, <2>1
  <2>3. TypeOK'
    BY <2>1, <2>2 DEF Add, IdleHub, pumps, IInv, TypeOK
  <2>4. NoPanic' /\ VisitedIsOpen' /\ AddedOnce'
    BY <1>1, <2>1 DEF Add, IdleHub, pumps, IInv, NoPanic, VisitedIsOpen, AddedOnce
  <2>5. QED
    BY <2>3, <2>4 DEF IInv
<1>6. QED
  BY <1>4, <1>5

\* Only a listed client is closed, and no broadcast is under way then.
LEMMA RemoveKeepsInvariant ==
  ASSUME IInv, Remove
  PROVE  IInv'
<1> USE HubAssumption
<1>1. clients' \subseteq clients /\ clients' = clients \ hub.client
  BY DEF Remove
<1>2. IsFiniteSet(clients) /\ Cardinality(clients) \in Nat
  BY FS_Subset, FS_CardinalityType DEF IInv, TypeOK
<1>3. Cardinality(clients') <= MaxClients
  <2>1. Cardinality(clients') <= Cardinality(clients) /\ Cardinality(clients') \in Nat
    BY <1>1, <1>2, FS_Subset, FS_CardinalityType
  <2>2. QED
    BY <1>2, <2>1 DEF IInv, TypeOK
<1>4. TypeOK'
  BY <1>1, <1>3 DEF Remove, Close, IdleHub, pumps, IInv, TypeOK, NoPanic
<1>5. NoPanic' /\ VisitedIsOpen' /\ AddedOnce'
  BY DEF Remove, Close, LockFree, IdleHub, pumps, IInv, TypeOK, NoPanic, VisitedIsOpen, AddedOnce
<1>6. QED
  BY <1>4, <1>5 DEF IInv

\* A broadcast sends to listed clients only.
LEMMA BroadcastsKeepInvariant ==
  ASSUME IInv,
         \/ Ping \/ PingDone \/ Exit
         \/ \E b \in Caster : Cast(b)
         \/ \E b \in Caster \cup {"hub"}, c \in Client : Visit(b, c)
  PROVE  IInv'
<1> USE HubAssumption DEF IInv, TypeOK, NoPanic, VisitedIsOpen, AddedOnce
<1>1. CASE Ping
  BY <1>1 DEF Ping, pumps
<1>2. CASE PingDone
  BY <1>2 DEF PingDone, IdleHub, pumps
<1>3. CASE Exit
  BY <1>3 DEF Exit, pumps
<1>4. ASSUME NEW b \in Caster, Cast(b) PROVE IInv'
  BY <1>4 DEF Cast, pumps
<1>5. ASSUME NEW b \in Caster \cup {"hub"}, NEW c \in Client, Visit(b, c) PROVE IInv'
  <2>1. c \in clients /\ c \notin closed
    BY <1>5 DEF Visit
  <2>2. UNCHANGED <<clients, hub, closed, pumps, casts>> /\ todo' = [todo EXCEPT ![b] = @ \ {c}]
    BY <1>5 DEF Visit
  <2>3. /\ buf' \in [Client -> 0..SendBuf] /\ evictions' \in [Client -> Nat]
        /\ panicked' = panicked
    BY <1>5, <2>1 DEF Visit, Offer
  <2>4. QED
    BY <2>2, <2>3 DEF pumps
<1>6. QED
  BY <1>1, <1>2, <1>3, <1>4, <1>5

LEMMA InvariantIsInductive ==
  IInv /\ [Next]_vars => IInv'
<1> SUFFICES ASSUME IInv, [Next]_vars PROVE IInv'
  OBVIOUS
<1>1. CASE Next
  BY <1>1, PumpsKeepInvariant, TakesKeepInvariant, AddKeepsInvariant, RemoveKeepsInvariant,
     BroadcastsKeepInvariant DEF Next, HubStep
<1>2. CASE UNCHANGED vars
  BY <1>2 DEF vars, pumps, IInv, TypeOK, NoPanic, VisitedIsOpen, AddedOnce
<1>3. QED
  BY <1>1, <1>2

-----------------------------------------------------------------------------

\* The hub keeps its types: it never lists more than MaxClients clients, and no
\* send channel holds more than SendBuf messages, for any number of clients.
THEOREM HubTypeCorrect == Spec => []TypeOK
<1>1. IInv => TypeOK
  BY DEF IInv
<1>2. QED
  BY <1>1, InitialInvariant, InvariantIsInductive, PTL DEF Spec

\* No interleaving of broadcasts, evictions and departures of any number of clients
\* sends on a closed channel or closes one twice.
THEOREM HubNeverPanics == Spec => []NoPanic
<1>1. IInv => NoPanic
  BY DEF IInv
<1>2. QED
  BY <1>1, InitialInvariant, InvariantIsInductive, PTL DEF Spec
=============================================================================
