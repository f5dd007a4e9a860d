--------------------------- MODULE PartitionsProofs ---------------------------
(***************************************************************************)
(* Proofs about Partitions: committed records are kept for the retention,  *)
(* queries are complete, handles break only under expired days, and old    *)
(* files go.                                                               *)
(***************************************************************************)
EXTENDS Partitions, TLAPS

USE PartitionsAssumption

-----------------------------------------------------------------------------
(* Days, instants and what is old *)

LEMMA DayProperties ==
  ASSUME NEW t \in Int
  PROVE  Day(t) \in Int /\ t + Offset < DayEnd(Day(t))
BY DEF Day, DayEnd

LEMMA Sets ==
  /\ Instant \subseteq Nat /\ Stamp \subseteq Int /\ Date \subseteq Int
  /\ \A t \in Instant \cup Stamp : Day(t) \in Date
<1>1. Instant \subseteq Nat
  BY DEF Instant
<1>2. Stamp \subseteq Int
  BY <1>1 DEF Stamp
<1>3. Date \subseteq Int
  BY <1>1, <1>2, DayProperties DEF Date
<1>4. QED
  BY <1>1, <1>2, <1>3 DEF Date

LEMMA RecordTimes == \A r \in Record : r.ts \in Int /\ r.created \in Int
<1> SUFFICES ASSUME NEW r \in Record PROVE r.ts \in Int /\ r.created \in Int
  OBVIOUS
<1>1. r.ts \in Stamp /\ r.created \in Instant
  BY DEF Record
<1>2. r.ts \in Int
  BY <1>1, Sets
<1>3. r.created \in Int
  BY <1>1 DEF Instant
<1>4. QED
  BY <1>2, <1>3

\* The day's file may be removed.
Old(d) == RetentionDays > 0 /\ OldDay(d, now - RetentionDays * TicksPerDay)

\* What is old stays old.
LEMMA OldLater ==
  ASSUME now \in Int, now' \in Int, now <= now'
  PROVE  /\ \A d \in Date : Old(d) => Old(d)'
         /\ \A r \in Record : Expired(r) => Expired(r)'
<1>1. RetentionDays * TicksPerDay \in Int /\ Slack \in Int
  BY DEF Slack
<1>2. ASSUME NEW d \in Date, Old(d) PROVE Old(d)'
  <2>1. DayEnd(d) \in Int
    BY Sets DEF DayEnd
  <2>2. QED
    BY <1>1, <1>2, <2>1 DEF Old, OldDay
<1>3. ASSUME NEW r \in Record, Expired(r) PROVE Expired(r)'
  <2>1. r.ts \in Int /\ r.created \in Int
    BY RecordTimes
  <2>2. QED
    BY <1>1, <1>3, <2>1 DEF Expired, Slack
<1>4. QED
  BY <1>2, <1>3

\* A record is expired when its day is old.
LEMMA OldExpired ==
  ASSUME NEW r \in Record, Old(Day(r.ts)), now \in Int
  PROVE  Expired(r)
<1>1. r.ts \in Int
  BY Sets DEF Record
<1>2. r.ts + Offset < DayEnd(Day(r.ts)) /\ DayEnd(Day(r.ts)) \in Int
  BY <1>1, DayProperties DEF DayEnd
<1>3. RetentionDays * TicksPerDay \in Int
  OBVIOUS
<1>4. Slack \in Int /\ -Offset <= Slack
  BY DEF Slack
<1>5. r.ts < now - RetentionDays * TicksPerDay + Slack
  BY <1>1, <1>2, <1>3, <1>4 DEF Old, OldDay
<1>6. QED
  BY <1>5 DEF Old, Expired

-----------------------------------------------------------------------------
(* Types *)

LEMMA OpenedType ==
  ASSUME TypeOK, NEW d \in Date, opens[d] < MaxOpens
  PROVE  Opened(d) \in DB
<1>1. opens[d] \in 0..MaxOpens /\ files[d] \in 0..MaxOpens
  BY DEF TypeOK
<1>2. opens[d] + 1 \in 0..MaxOpens
  BY <1>1
<1>3. QED
  BY <1>1, <1>2 DEF Opened, DB

LEMMA IdleTypes ==
  /\ IdleInsert \in InsertState
  /\ IdleInsert.pc = "idle" /\ IdleInsert.todo = {}
  /\ IdlePass \in PassState
  /\ IdlePass.pc = "idle"
  /\ IdleQuery \in [pc : {"idle", "visit"}, todo : SUBSET Handle, missing : SUBSET Record]
  /\ NoDB \in DB
BY DEF IdleInsert, IdlePass, IdleQuery, NoDB, Instant, InsertState, PassState, DB

LEMMA SnapshotType == TypeOK => Snapshot \subseteq Handle
BY DEF TypeOK, Snapshot, OpenDays, Handle, DB

LEMMA OnDiskType == TypeOK => OnDisk \subseteq Record
BY DEF TypeOK, OnDisk, FileDays

LEMMA InitType == Init => TypeOK
<1> SUFFICES ASSUME Init PROVE TypeOK
  OBVIOUS
<1>1. now \in Instant
  BY DEF Init, Instant
<1>2. [d \in Date |-> NoDB] \in [Date -> DB]
  BY IdleTypes
<1>3. QED
  BY <1>1, <1>2, IdleTypes DEF Init, TypeOK

LEMMA NextType == TypeOK /\ [Next]_vars => TypeOK'
<1> SUFFICES ASSUME TypeOK, [Next]_vars PROVE TypeOK'
  OBVIOUS
<1> USE DEF store, workers, history
<1>1. CASE Tick
  BY <1>1 DEF Tick, TypeOK, Instant
<1>2. CASE NewSQLite
  <2>1. PICK failed \in SUBSET (FileDays \ {Day(now)}) : OpenAll(Day(now), failed)
    BY <1>2 DEF NewSQLite
  <2>2. Day(now) \in Date
    BY Sets DEF TypeOK
  <2> DEFINE days == (FileDays \cup {Day(now)}) \ failed
  <2>3. days \subseteq Date /\ Day(now) \in days /\ \A d \in days : opens[d] < MaxOpens
    BY <2>1, <2>2 DEF OpenAll, FileDays
  <2>4. \A d \in days : Opened(d) \in DB
    BY <2>3, OpenedType
  <2>5. dbs' \in [Date -> DB]
    BY <2>1, <2>4, IdleTypes DEF OpenAll
  <2>6. files' \in [Date -> 0..MaxOpens]
    BY <2>1, <2>2, <2>3, <2>4 DEF OpenAll, TypeOK, DB
  <2>7. opens' \in [Date -> 0..MaxOpens]
    BY <2>1, <2>3 DEF OpenAll, TypeOK
  <2>8. QED
    BY <1>2, <2>5, <2>6, <2>7 DEF NewSQLite, TypeOK
<1>3. CASE Close
  BY <1>3, IdleTypes DEF Close, TypeOK
<1>4. CASE Exit \/ Crash
  <2>1. End
    BY <1>4 DEF Exit, Crash
  <2>2. dbs' \in [Date -> DB]
    BY <2>1, IdleTypes DEF End
  <2>3. ins'.pc = "idle" /\ ret'.pc = "idle" /\ phase' = "down"
        /\ ins' \in InsertState /\ ret' \in PassState
        /\ qry' \in [pc : {"idle", "visit"}, todo : SUBSET Handle, missing : SUBSET Record]
    BY <2>1, IdleTypes DEF End
  <2>4. QED
    BY <2>1, <2>2, <2>3 DEF End, TypeOK
<1>5. ASSUME NEW S \in SUBSET {now - a : a \in Ages}, InsertCall(S) PROVE TypeOK'
  <2>1. S \subseteq Stamp
    BY DEF TypeOK, Stamp
  <2>2. batches' \in 0..MaxBatches
    BY <1>5 DEF InsertCall, TypeOK
  <2>3. ins' \in InsertState
        /\ ins'.pc = "day"
    BY <1>5, <2>1, IdleTypes DEF InsertCall, InsertState
  <2>4. QED
    BY <1>5, <2>2, <2>3 DEF InsertCall, TypeOK
<1>6. ASSUME NEW d \in Date, GetDB(d) PROVE TypeOK'
  <2>1. d \in Int
    BY Sets
  <2>2. /\ dbs' \in [Date -> DB]
        /\ files' \in [Date -> 0..MaxOpens] /\ opens' \in [Date -> 0..MaxOpens]
    <3>1. CASE dbs[d].id # 0
      BY <1>6, <3>1 DEF GetDB, TypeOK
    <3>2. CASE dbs[d].id = 0
      <4>1. /\ opens[d] < MaxOpens
            /\ opens' = [opens EXCEPT ![d] = @ + 1]
            /\ dbs' = [dbs EXCEPT ![d] = Opened(d)]
            /\ files' = [files EXCEPT ![d] = Opened(d).gen]
        BY <1>6, <3>2 DEF GetDB
      <4>2. Opened(d) \in DB
        BY <4>1, OpenedType
      <4>3. opens' \in [Date -> 0..MaxOpens]
        BY <4>1 DEF TypeOK
      <4>4. dbs' \in [Date -> DB]
        BY <4>1, <4>2 DEF TypeOK
      <4>5. files' \in [Date -> 0..MaxOpens]
        BY <4>1, <4>2 DEF TypeOK, DB
      <4>6. QED
        BY <4>3, <4>4, <4>5
    <3>3. QED
      BY <3>1, <3>2
  <2>3. ins' \in InsertState
        /\ ins'.day = d
    BY <1>6, <2>1, <2>2 DEF GetDB, TypeOK, InsertState, DB
  <2>4. QED
    BY <1>6, <2>2, <2>3 DEF GetDB, TypeOK
<1>7. CASE Begin
  <2>1. ins' \in InsertState
        /\ ins'.day = ins.day /\ ins.day \in Date
    <3>1. ins.day \in Date /\ now \in Instant
      BY <1>7 DEF Begin, TypeOK
    <3>2. dbs[ins.day].gen \in 0..MaxOpens
      BY <3>1 DEF TypeOK, DB
    <3>3. ins \in InsertState /\ 0 \in 0..MaxOpens
      BY DEF TypeOK
    <3>4. ins' = [ins EXCEPT !.pc = "commit", !.id = 0, !.gen = dbs[ins.day].gen,
                        !.created = now]
      BY <1>7 DEF Begin
    <3>5. QED
      BY <3>1, <3>2, <3>3, <3>4 DEF InsertState
  <2>2. QED
    BY <1>7, <2>1 DEF Begin, TypeOK
<1>8. CASE BeginFails \/ InsertFails
  BY <1>8, IdleTypes DEF BeginFails, InsertFails, TypeOK
<1>9. CASE Commit
  <2> DEFINE today == {t \in ins.todo : Day(t) = ins.day}
  <2> DEFINE rows == {[batch |-> batches, ts |-> t, created |-> ins.created] : t \in today}
  <2>1. rows \subseteq Record
    BY DEF TypeOK, Record, InsertState
  <2>2. /\ ins.day \in Date /\ ins.gen \in 0..MaxOpens
        /\ disk' = [disk EXCEPT ![ins.day][ins.gen] = @ \cup rows]
        /\ committed' = committed \cup rows
        /\ ins' = IF ins.todo = today THEN IdleInsert
                  ELSE [IdleInsert EXCEPT !.pc = "day", !.todo = ins.todo \ today]
    BY <1>9 DEF Commit, TypeOK, InsertState
  <2>3. disk' \in [Date -> [0..MaxOpens -> SUBSET Record]]
    BY <2>1, <2>2 DEF TypeOK
  <2>4. ins' \in InsertState
        /\ ins'.pc \in {"idle", "day"}
    BY <2>2, IdleTypes DEF TypeOK, InsertState
  <2>5. QED
    BY <1>9, <2>1, <2>2, <2>3, <2>4 DEF Commit, TypeOK
<1>10. CASE RetentionRun
  <2>1. now - RetentionDays * TicksPerDay \in Int
    BY Sets DEF TypeOK
  <2>2. ret' = [IdlePass EXCEPT !.pc = "rows", !.todo = Snapshot,
                             !.limit = now - RetentionDays * TicksPerDay]
    BY <1>10 DEF RetentionRun
  <2>3. ret' \in PassState
        /\ ret'.pc = "rows"
    BY <2>1, <2>2, SnapshotType, IdleTypes DEF PassState
  <2>4. QED
    BY <1>10, <2>3 DEF RetentionRun, TypeOK
<1>11. ASSUME NEW h \in ret.todo, DeleteRows(h) PROVE TypeOK'
  <2>1. h \in Handle
    BY <1>11 DEF DeleteRows, TypeOK, PassState
  <2>2. disk' \in [Date -> [0..MaxOpens -> SUBSET Record]]
    <3>1. CASE disk' = disk
      BY <3>1 DEF TypeOK
    <3>2. CASE disk' = [disk EXCEPT ![h.day][dbs[h.day].gen] = {r \in @ : ~OldRow(r, ret.limit)}]
      <4>1. h.day \in Date /\ dbs[h.day].gen \in 0..MaxOpens
        BY <2>1 DEF Handle, TypeOK, DB
      <4>2. QED
        BY <3>2, <4>1 DEF TypeOK
    <3>3. QED
      BY <1>11, <3>1, <3>2 DEF DeleteRows
  <2>3. ret' \in PassState
        /\ ret'.pc = "rows"
    BY <1>11, <2>1 DEF DeleteRows, TypeOK, PassState
  <2>4. QED
    BY <1>11, <2>2, <2>3 DEF DeleteRows, TypeOK
<1>12. CASE ListFiles
  <2>1. {d \in FileDays : OldDay(d, ret.limit)} \subseteq Date
    BY DEF FileDays
  <2>2. ret' \in PassState
        /\ ret'.pc = "files"
    <3>1. ret \in PassState /\ opens \in [Date -> 0..MaxOpens]
      BY DEF TypeOK
    <3>2. ret' = [ret EXCEPT !.pc = "files", !.had = opens,
                        !.list = {d \in FileDays : OldDay(d, ret.limit)}]
      BY <1>12 DEF ListFiles
    <3>3. QED
      BY <2>1, <3>1, <3>2 DEF PassState
  <2>3. QED
    BY <1>12, <2>2 DEF ListFiles, ListFails, RemoveFails, TypeOK
<1>21. CASE ListFails
  BY <1>21, IdleTypes DEF ListFails, TypeOK
<1>22. CASE RemoveFails
  <2>1. ret' \in PassState /\ ret'.pc = "files"
    BY <1>22 DEF RemoveFails, TypeOK, PassState
  <2>2. QED
    BY <1>22, <2>1 DEF RemoveFails, TypeOK
<1>13. ASSUME NEW d \in Date, Forget(d) PROVE TypeOK'
  <2>1. d \in Int
    BY Sets
  <2>2. ret \in PassState
    BY DEF TypeOK
  <2>3. ret' \in PassState
        /\ ret'.pc = "remove" /\ ret'.day = d
    BY <1>13, <2>1, <2>2 DEF Forget, TypeOK, PassState
  <2>4. dbs' \in [Date -> DB]
    BY <1>13, IdleTypes DEF Forget, TypeOK
  <2>5. QED
    BY <1>13, <2>3, <2>4 DEF Forget, TypeOK
<1>14. CASE Remove
  <2>1. ret' \in PassState /\ ret'.pc = "files"
    BY <1>14 DEF Remove, TypeOK, PassState
  <2>2. files' \in [Date -> 0..MaxOpens]
    BY <1>14 DEF Remove, TypeOK
  <2>3. QED
    BY <1>14, <2>1, <2>2 DEF Remove, TypeOK
<1>15. CASE RetentionDone
  BY <1>15, IdleTypes DEF RetentionDone, TypeOK
<1>16. CASE QueryStart
  <2>1. {r \in OnDisk : Day(r.ts) \notin unopened} \subseteq Record
    BY OnDiskType
  <2>2. QED
    BY <1>16, <2>1, SnapshotType DEF QueryStart, TypeOK
<1>17. ASSUME NEW h \in qry.todo, Visit(h) \/ VisitFails(h) PROVE TypeOK'
  <2>1. qry' \in [pc : {"idle", "visit"}, todo : SUBSET Handle, missing : SUBSET Record]
    BY <1>17, IdleTypes DEF Visit, VisitFails, TypeOK
  <2>2. QED
    BY <1>17, <2>1 DEF Visit, VisitFails, TypeOK
<1>18. CASE Answered
  BY <1>18 DEF Answered, TypeOK
<1>19. CASE UNCHANGED vars
  BY <1>19 DEF vars, TypeOK
<1>20. QED
  BY <1>1, <1>2, <1>3, <1>4, <1>5, <1>6, <1>7, <1>8, <1>9, <1>10, <1>11, <1>12,
     <1>13, <1>14, <1>15, <1>16, <1>17, <1>18, <1>19, <1>21, <1>22
  DEF Next, Insert, Retention, Query

-----------------------------------------------------------------------------
(* The invariant *)

\* A handle has the file of its name, unless the day is old; every file that could
\* be opened has a handle.
Handles ==
  \A d \in Date :
    /\ files[d] <= opens[d] /\ dbs[d].id <= opens[d]
    /\ dbs[d].id # 0 => /\ phase = "running" /\ dbs[d].gen # 0
                        /\ files[d] = dbs[d].gen \/ Old(d)
    /\ phase = "running" /\ files[d] # 0 => dbs[d].id # 0 \/ d \in unopened \/ Old(d)

\* The pass works on what was old when it began, and on all of it.
Pass ==
  /\ ret.pc # "idle" =>
       RetentionDays > 0 /\ ret.limit <= now - RetentionDays * TicksPerDay
  /\ ret.pc = "remove" => Old(ret.day)
  /\ ret.pc \in {"files", "remove"} =>
       /\ \A d \in ret.list : Old(d)
       /\ \A d \in Date : ret.had[d] <= opens[d]
       /\ \A d \in FileDays : OldDay(d, ret.limit) =>
            \/ d \in ret.list \/ (ret.pc = "remove" /\ d = ret.day)
            \/ d \in ret.kept \/ files[d] > ret.had[d]

\* The insert's handle and transaction are those of its day, unless it is old.
Tx ==
  /\ ins.pc # "idle" => phase = "running"
  /\ ins.pc = "begin" => ins.id # 0 /\ (Usable(ins) \/ Old(ins.day))
  /\ ins.pc = "commit" => files[ins.day] = ins.gen \/ Old(ins.day)
  /\ ins.pc = "commit" => ins.gen # 0

RightDay == \A d \in Date : \A g \in 0..MaxOpens : \A r \in disk[d][g] : Day(r.ts) = d

\* What the answer lacks is expired, or in a database still to be visited.
Visiting ==
  /\ phase = "down" => qry.pc = "idle"
  /\ \A h \in qry.todo : /\ h.id # 0 /\ h.id <= opens[h.day]
                         /\ phase = "running" => Usable(h) \/ Old(h.day)
  /\ \A r \in qry.missing :
       \/ Expired(r)
       \/ \E h \in qry.todo :
            /\ h.day = Day(r.ts)
            /\ Usable(h) => r \in disk[h.day][dbs[h.day].gen]
  /\ qry.pc = "idle" => qry.todo = {}

Broken == \A d \in broke : d \in Date /\ Old(d)

IInv == Handles /\ Pass /\ Tx /\ RightDay /\ KeptForRetention /\ Visiting /\ Broken


\* Time does not go back.
LEMMA TimeGrows ==
  ASSUME TypeOK, [Next]_vars
  PROVE  now \in Int /\ now' \in Int /\ now <= now'
<1>1. now \in Int
  BY DEF TypeOK, Instant
<1>2. now' = now \/ now' = now + 1
  BY DEF Next, Insert, Retention, Query, Tick, NewSQLite, Close, Exit, Crash, End,
     InsertCall, GetDB, Begin, BeginFails, Commit, InsertFails, RetentionRun,
     DeleteRows, ListFiles, ListFails, RemoveFails, Forget, Remove, RetentionDone,
     QueryStart, Visit, VisitFails, Answered, vars
<1>3. QED
  BY <1>1, <1>2

\* So what is old stays old.
LEMMA StillOld ==
  ASSUME TypeOK, [Next]_vars
  PROVE  /\ \A d \in Date : Old(d) => Old(d)'
         /\ \A r \in Record : Expired(r) => Expired(r)'
BY TimeGrows, OldLater

\* Only removal takes a file's name away; a new file is younger than the others.
LEMMA FilesStay ==
  ASSUME TypeOK, Next, ~Remove, NEW d \in Date
  PROVE  /\ opens[d] <= opens'[d]
         /\ files'[d] = files[d] \/ (files[d] = 0 /\ files'[d] > opens[d])
<1>0. opens[d] \in Nat /\ files[d] \in Nat
  BY DEF TypeOK
<1>1. CASE files' = files /\ opens' = opens
  BY <1>0, <1>1
<1>2. CASE NewSQLite
  <2>1. PICK failed \in SUBSET (FileDays \ {Day(now)}) : OpenAll(Day(now), failed)
    BY <1>2 DEF NewSQLite
  <2>2. QED
    BY <1>0, <2>1 DEF OpenAll, Opened, TypeOK
<1>3. ASSUME NEW e \in Date, GetDB(e), ~(UNCHANGED <<files, opens>>)
      PROVE  /\ opens[d] <= opens'[d]
             /\ files'[d] = files[d] \/ (files[d] = 0 /\ files'[d] > opens[d])
  <2>1. /\ opens' = [opens EXCEPT ![e] = @ + 1]
        /\ files' = [files EXCEPT ![e] = Opened(e).gen]
    BY <1>3 DEF GetDB
  <2>2. CASE d = e
    BY <1>0, <2>1, <2>2 DEF Opened, TypeOK
  <2>3. CASE d # e
    BY <1>0, <2>1, <2>3 DEF TypeOK
  <2>4. QED
    BY <2>2, <2>3
<1>4. QED
  BY <1>1, <1>2, <1>3
  DEF Next, Insert, Retention, Query, Tick, Close, Exit, Crash, End,
      InsertCall, Begin, BeginFails, Commit, InsertFails, RetentionRun,
      DeleteRows, ListFiles, ListFails, RemoveFails, Forget, RetentionDone, QueryStart,
      Visit, VisitFails, Answered, store

LEMMA InitIInv == Init => IInv
<1> SUFFICES ASSUME Init PROVE IInv
  OBVIOUS
<1>1. Handles /\ Pass /\ Tx /\ RightDay
  BY DEF Init, Handles, Pass, Tx, RightDay, NoDB, IdlePass, IdleInsert
<1>2. KeptForRetention /\ Visiting /\ Broken
  BY DEF Init, KeptForRetention, Visiting, Broken, IdleQuery
<1>3. QED
  BY <1>1, <1>2 DEF IInv

\* Handles are opened on the file of their name and forgotten before it is removed.
LEMMA HandlesKept ==
  ASSUME TypeOK, IInv, [Next]_vars
  PROVE  Handles'
<1> USE DEF store, workers, history
<1>0. \A d \in Date : Old(d) => Old(d)'
  BY StillOld
<1>1. CASE UNCHANGED <<files, opens, dbs, phase, unopened>>
  BY <1>0, <1>1 DEF IInv, Handles
<1>2. CASE NewSQLite
  <2>1. PICK failed \in SUBSET (FileDays \ {Day(now)}) :
          OpenAll(Day(now), failed) /\ unopened' = failed
    BY <1>2 DEF NewSQLite
  <2>2. ASSUME NEW d \in Date
        PROVE  /\ files'[d] <= opens'[d] /\ dbs'[d].id <= opens'[d]
               /\ dbs'[d].id # 0 => dbs'[d].gen # 0 /\ files'[d] = dbs'[d].gen
               /\ files'[d] # 0 => dbs'[d].id # 0 \/ d \in unopened'
    <3>0. opens[d] \in Nat /\ files[d] \in Nat /\ files[d] <= opens[d] /\ Day(now) \in Date
      BY Sets DEF TypeOK, IInv, Handles
    <3> DEFINE days == (FileDays \cup {Day(now)}) \ failed
    <3>1. CASE d \in days
      <4>1. opens'[d] = opens[d] + 1 /\ dbs'[d] = Opened(d)
        BY <2>1, <3>1 DEF OpenAll
      <4>2. files'[d] = Opened(d).gen
        BY <2>1, <3>0, <3>1 DEF OpenAll, Opened, FileDays, TypeOK
      <4>3. QED
        BY <3>0, <4>1, <4>2 DEF Opened
    <3>2. CASE d \notin days
      <4>1. opens'[d] = opens[d] /\ dbs'[d] = NoDB /\ files'[d] = files[d]
        BY <2>1, <3>2, <3>0 DEF OpenAll, TypeOK
      <4>2. QED
        BY <2>1, <3>0, <3>2, <4>1 DEF NoDB, FileDays
    <3>3. QED
      BY <3>1, <3>2
  <2>3. QED
    BY <1>2, <2>2 DEF NewSQLite, Handles
<1>3. CASE Close \/ End
  BY <1>3 DEF Close, End, NoDB, IInv, Handles, TypeOK
<1>4. ASSUME NEW e \in Date, GetDB(e), ~(UNCHANGED <<files, opens, dbs, unopened>>)
      PROVE  Handles'
  <2>1. /\ phase = "running" /\ phase' = phase
        /\ opens' = [opens EXCEPT ![e] = @ + 1]
        /\ dbs' = [dbs EXCEPT ![e] = Opened(e)]
        /\ files' = [files EXCEPT ![e] = Opened(e).gen]
        /\ unopened' = unopened \ {e}
    BY <1>4 DEF GetDB, IInv, Tx
  <2>2. opens[e] \in Nat /\ files[e] \in Nat /\ files[e] <= opens[e]
    BY DEF TypeOK, IInv, Handles
  <2>3. /\ opens'[e] = opens[e] + 1 /\ dbs'[e] = Opened(e) /\ files'[e] = Opened(e).gen
        /\ dbs'[e].id = opens[e] + 1 /\ dbs'[e].gen = Opened(e).gen
        /\ files'[e] # 0 /\ files'[e] <= opens'[e]
    BY <2>1, <2>2 DEF TypeOK, Opened
  <2>4. \A d \in Date \ {e} : /\ opens'[d] = opens[d] /\ dbs'[d] = dbs[d]
                              /\ files'[d] = files[d]
                              /\ d \in unopened => d \in unopened'
    BY <2>1 DEF TypeOK
  <2>5. QED
    BY <1>0, <2>1, <2>2, <2>3, <2>4 DEF IInv, Handles
<1>5. ASSUME NEW e \in Date, Forget(e) PROVE Handles'
  <2>1. Old(e)'
    BY <1>0, <1>5 DEF Forget, IInv, Pass
  <2>2. QED
    BY <1>0, <1>5, <2>1 DEF Forget, IInv, Handles, NoDB, TypeOK
<1>6. CASE Remove
  <2>1. ret.day \in Date /\ Old(ret.day)'
    BY <1>0, <1>6 DEF Remove, IInv, Pass, TypeOK
  <2>2. 0 <= opens[ret.day]
    BY <2>1 DEF TypeOK
  <2>3. QED
    BY <1>0, <1>6, <2>1, <2>2 DEF Remove, IInv, Handles, TypeOK
<1>7. QED
  BY <1>1, <1>2, <1>3, <1>4, <1>5, <1>6
  DEF Next, Insert, Retention, Query, Tick, Exit, Crash, InsertCall, GetDB, Begin,
      BeginFails, Commit, InsertFails, RetentionRun, DeleteRows, ListFiles, ListFails,
      RemoveFails, RetentionDone, QueryStart, Visit, VisitFails, Answered, vars

\* A pass lists what was old when it began; a file made later is a younger one.
LEMMA PassKept ==
  ASSUME TypeOK, TypeOK', IInv, [Next]_vars
  PROVE  Pass'
<1> USE DEF store, workers, history
<1>0. \A d \in Date : Old(d) => Old(d)'
  BY StillOld
<1>a. now \in Int /\ now' \in Int /\ now <= now' /\ RetentionDays * TicksPerDay \in Int
  BY TimeGrows
<1>1. CASE UNCHANGED ret /\ Next /\ ~Remove
  <2>2. \A d \in Date :
          /\ opens[d] <= opens'[d]
          /\ files'[d] = files[d] \/ (files[d] = 0 /\ files'[d] > opens[d])
    BY <1>1, FilesStay
  <2>3. ret.limit \in Int /\ \A d \in Date : /\ opens[d] \in Int /\ opens'[d] \in Int
                          /\ files[d] \in Int /\ files'[d] \in Int /\ ret.had[d] \in Int
    BY DEF TypeOK, PassState
  <2>4. ret.pc # "idle" => RetentionDays > 0 /\ ret.limit <= now' - RetentionDays * TicksPerDay
    BY <1>a, <2>3 DEF IInv, Pass
  <2>5. ret.pc = "remove" => Old(ret.day)'
    BY <1>0, <1>1 DEF IInv, Pass, TypeOK
  <2>6. ASSUME ret.pc \in {"files", "remove"}
        PROVE /\ \A d \in ret.list : Old(d)'
              /\ \A d \in Date : ret.had[d] <= opens'[d]
              /\ \A d \in FileDays' : OldDay(d, ret.limit) =>
                    \/ d \in ret.list \/ (ret.pc = "remove" /\ d = ret.day)
                    \/ d \in ret.kept \/ files'[d] > ret.had[d]
    <3>1. \A d \in ret.list : Old(d)'
      BY <1>0, <2>6 DEF IInv, Pass, TypeOK, PassState
    <3>2. \A d \in Date : ret.had[d] <= opens[d]
      BY <2>6 DEF IInv, Pass
    <3>3. \A d \in Date : ret.had[d] <= opens'[d]
      BY <3>2, <2>2, <2>3
    <3>4. ASSUME NEW d \in FileDays', OldDay(d, ret.limit)
          PROVE  \/ d \in ret.list \/ (ret.pc = "remove" /\ d = ret.day)
                    \/ d \in ret.kept \/ files'[d] > ret.had[d]
      <4>0. d \in Date /\ files'[d] # 0
        BY DEF FileDays
      <4>1. CASE files'[d] = files[d]
        BY <2>6, <3>4, <4>0, <4>1 DEF IInv, Pass, FileDays
      <4>2. CASE files'[d] > opens[d]
        BY <2>3, <3>2, <4>0, <4>2
      <4>3. QED
        BY <2>2, <4>0, <4>1, <4>2
    <3>5. QED
      BY <3>1, <3>3, <3>4
  <2>7. QED
    BY <1>1, <2>4, <2>5, <2>6 DEF Pass
<1>2. CASE ret' = IdlePass
  BY <1>2 DEF IdlePass, Pass
<1>3. CASE RetentionRun
  <2>1. /\ ret'.pc = "rows" /\ ret'.limit = now - RetentionDays * TicksPerDay
        /\ RetentionDays > 0 /\ now' = now
    BY <1>3 DEF RetentionRun, IdlePass
  <2>2. QED
    BY <1>a, <2>1 DEF Pass
<1>4. ASSUME NEW h \in ret.todo, DeleteRows(h) PROVE Pass'
  <2>1. ret'.pc = "rows" /\ ret'.limit = ret.limit /\ now' = now /\ ret.pc = "rows"
    BY <1>4 DEF DeleteRows, TypeOK, PassState
  <2>2. QED
    BY <2>1 DEF Pass, IInv
<1>5. CASE ListFiles
  <2>1. /\ ret.pc = "rows" /\ ret'.pc = "files" /\ ret'.had = opens /\ ret'.limit = ret.limit
        /\ ret'.list = {d \in FileDays : OldDay(d, ret.limit)}
        /\ UNCHANGED <<now, files, opens>>
    BY <1>5 DEF ListFiles, ListFails, RemoveFails, TypeOK, PassState
  <2>2. RetentionDays > 0 /\ ret.limit <= now - RetentionDays * TicksPerDay /\ ret.limit \in Int
    BY <2>1 DEF IInv, Pass, TypeOK, PassState
  <2>3. ASSUME NEW d \in ret'.list PROVE Old(d)'
    <3>1. d \in Date /\ DayEnd(d) < ret.limit
      BY <2>1 DEF FileDays, OldDay
    <3>2. DayEnd(d) \in Int
      BY <3>1, Sets DEF DayEnd
    <3>3. Old(d)
      BY <1>a, <2>2, <3>1, <3>2 DEF Old, OldDay
    <3>4. QED
      BY <1>0, <3>1, <3>3
  <2>4. \A d \in Date : opens[d] <= opens[d]
    BY DEF TypeOK
  <2>5. FileDays' = FileDays
    BY <2>1 DEF FileDays
  <2>6. QED
    BY <2>1, <2>2, <2>3, <2>4, <2>5 DEF Pass
<1>6. ASSUME NEW e \in Date, Forget(e) PROVE Pass'
  <2>1. /\ ret.pc = "files" /\ e \in ret.list /\ ret'.pc = "remove" /\ ret'.day = e
        /\ ret'.list = ret.list \ {e} /\ ret'.had = ret.had /\ ret'.limit = ret.limit
        /\ ret'.kept = ret.kept
        /\ UNCHANGED <<now, files, opens>>
    BY <1>6 DEF Forget, TypeOK, PassState
  <2>2. FileDays' = FileDays /\ ret.list \subseteq Date
    BY <2>1 DEF FileDays, TypeOK, PassState
  <2>3. QED
    BY <1>0, <2>1, <2>2 DEF IInv, Pass
<1>7. CASE Remove
  <2>1. /\ ret.pc = "remove" /\ ret'.pc = "files" /\ ret'.day = ret.day /\ ret.day \in Date
 /\ ret'.kept = ret.kept
        /\ ret'.list = ret.list /\ ret'.had = ret.had /\ ret'.limit = ret.limit
        /\ files' = [files EXCEPT ![ret.day] = 0]
        /\ UNCHANGED <<now, opens>>
    BY <1>7 DEF Remove, TypeOK, PassState
  <2>2. FileDays' = FileDays \ {ret.day} /\ ret.list \subseteq Date
    BY <2>1 DEF FileDays, TypeOK, PassState
  <2>3. \A d \in FileDays' : files'[d] = files[d] /\ d # ret.day
    BY <2>1, <2>2 DEF FileDays, TypeOK
  <2>4. QED
    BY <1>0, <2>1, <2>2, <2>3 DEF IInv, Pass
<1>8. CASE RemoveFails
  <2>1. /\ ret.pc = "remove" /\ ret'.pc = "files" /\ ret.day \in Date
        /\ ret'.kept = ret.kept \cup {ret.day}
        /\ ret'.list = ret.list /\ ret'.had = ret.had /\ ret'.limit = ret.limit
        /\ UNCHANGED <<now, files, opens>>
    BY <1>8 DEF RemoveFails, TypeOK, PassState
  <2>2. FileDays' = FileDays /\ ret.list \subseteq Date
    BY <2>1 DEF FileDays, TypeOK, PassState
  <2>3. QED
    BY <1>0, <2>1, <2>2 DEF IInv, Pass
<1>9. CASE UNCHANGED vars
  BY <1>9 DEF vars, IInv, Pass, FileDays, Old
<1>10. QED
  BY <1>1, <1>2, <1>3, <1>4, <1>5, <1>6, <1>7, <1>8, <1>9
  DEF Next, ListFails, Insert, Retention, Query, Tick, NewSQLite, Close, Exit, Crash, End,
      InsertCall, GetDB, Begin, BeginFails, Commit, InsertFails,
      RetentionDone, QueryStart, Visit, VisitFails, Answered

\* An insert uses the handle of its day; its transaction is in the file of that name.
LEMMA TxKept ==
  ASSUME TypeOK, TypeOK', IInv, [Next]_vars
  PROVE  Tx'
<1> USE DEF store, workers, history
<1>0. \A d \in Date : Old(d) => Old(d)'
  BY StillOld
<1>1. CASE ins'.pc = "idle"
  BY <1>1 DEF Tx
<1>2. CASE ins'.pc = "day" /\ phase' = "running"
  BY <1>2 DEF Tx
<1>3. CASE UNCHANGED <<ins, phase, dbs, files>>
  BY <1>0, <1>3 DEF IInv, Tx, Usable, TypeOK
<1>4. CASE NewSQLite
  <2>1. ins' = ins /\ ins.pc = "idle"
    BY <1>4 DEF NewSQLite, IInv, Tx
  <2>2. QED
    BY <1>1, <2>1
<1>5. CASE Close \/ End \/ BeginFails \/ InsertFails
  BY <1>1, <1>5 DEF Close, End, BeginFails, InsertFails, IdleInsert
<1>6. ASSUME NEW S, InsertCall(S) PROVE ins'.pc = "day" /\ phase' = "running"
  BY <1>6 DEF InsertCall, IdleInsert
<1>7. CASE Commit
  BY <1>1, <1>2, <1>7 DEF Commit, IdleInsert, IInv, Tx
<1>8. ASSUME NEW e \in Date, GetDB(e) PROVE Tx'
  <2>1. /\ ins'.pc = "begin" /\ ins'.day = e /\ ins'.id = dbs'[e].id
        /\ phase' = phase /\ phase = "running"
    BY <1>8 DEF GetDB, IInv, Tx, TypeOK, InsertState
  <2>2. dbs'[e].id # 0
    BY <1>8 DEF GetDB, Opened, TypeOK
  <2>3. QED
    BY <2>1, <2>2 DEF Tx, Usable
<1>9. CASE Begin
  <2>1. /\ ins'.pc = "commit" /\ ins'.day = ins.day /\ ins'.gen = dbs[ins.day].gen
        /\ dbs[ins.day].id # 0 /\ ins.day \in Date /\ phase = "running"
        /\ UNCHANGED <<now, phase, files, dbs>>
    BY <1>9 DEF Begin, Usable, IInv, Tx, TypeOK, InsertState
  <2>2. dbs[ins.day].gen # 0 /\ (files[ins.day] = dbs[ins.day].gen \/ Old(ins.day))
    BY <2>1 DEF IInv, Handles
  <2>3. QED
    BY <1>0, <2>1, <2>2 DEF Tx
<1>10. ASSUME NEW e \in Date, Forget(e) PROVE Tx'
  <2>1. /\ UNCHANGED <<ins, phase, files>> /\ Old(e)'
        /\ \A d \in Date \ {e} : dbs'[d] = dbs[d]
    BY <1>0, <1>10 DEF Forget, IInv, Pass, TypeOK
  <2>2. QED
    BY <1>0, <2>1 DEF IInv, Tx, Usable, TypeOK
<1>11. CASE Remove
  <2>1. /\ UNCHANGED <<ins, phase, dbs>> /\ Old(ret.day)' /\ ret' .day = ret.day
        /\ \A d \in Date \ {ret.day} : files'[d] = files[d]
    BY <1>0, <1>11 DEF Remove, IInv, Pass, TypeOK, PassState
  <2>2. QED
    BY <1>0, <2>1 DEF IInv, Tx, Usable, TypeOK
<1>12. QED
  BY <1>1, <1>2, <1>3, <1>4, <1>5, <1>6, <1>7, <1>8, <1>9, <1>10, <1>11
  DEF Next, Insert, Retention, Query, Tick, Exit, Crash, RetentionRun, DeleteRows,
      ListFiles, ListFails, RemoveFails, RetentionDone, QueryStart, Visit, VisitFails,
      Answered, vars

\* Each file has the records of its day.
LEMMA RightDayKept ==
  ASSUME TypeOK, IInv, [Next]_vars
  PROVE  RightDay'
<1> USE DEF store, workers, history
<1>1. CASE disk' = disk
  BY <1>1 DEF IInv, RightDay
<1>2. CASE Commit
  <2> DEFINE rows == {[batch |-> batches, ts |-> t, created |-> ins.created] :
                        t \in {u \in ins.todo : Day(u) = ins.day}}
  <2>1. disk' = [disk EXCEPT ![ins.day][ins.gen] = @ \cup rows]
    BY <1>2 DEF Commit
  <2>2. \A r \in rows : Day(r.ts) = ins.day
    OBVIOUS
  <2>3. ASSUME NEW d \in Date, NEW g \in 0..MaxOpens, NEW r \in disk'[d][g]
        PROVE  r \in disk[d][g] \/ (d = ins.day /\ r \in rows)
    BY <2>1 DEF TypeOK
  <2>4. QED
    BY <2>2, <2>3 DEF IInv, RightDay
<1>3. ASSUME NEW h \in ret.todo, DeleteRows(h), disk' # disk PROVE RightDay'
  <2>1. disk' = [disk EXCEPT ![h.day][dbs[h.day].gen] = {r \in @ : ~OldRow(r, ret.limit)}]
    BY <1>3 DEF DeleteRows
  <2>2. \A d \in Date, g \in 0..MaxOpens : disk'[d][g] \subseteq disk[d][g]
    BY <2>1 DEF TypeOK
  <2>3. QED
    BY <2>2 DEF IInv, RightDay
<1>4. QED
  BY <1>1, <1>2, <1>3
  DEF Next, Insert, Retention, Query, Tick, NewSQLite, Close, Exit, Crash, End,
      InsertCall, GetDB, Begin, BeginFails, InsertFails, RetentionRun, ListFiles,
      ListFails, RemoveFails, Forget, Remove, RetentionDone, QueryStart, Visit,
      VisitFails, Answered, vars

\* Rows leave a day's file only when they are expired.
LEMMA DiskKept ==
  ASSUME TypeOK, IInv, [Next]_vars,
         NEW d \in Date, NEW g \in 0..MaxOpens, NEW r \in disk[d][g]
  PROVE  r \in disk'[d][g] \/ Expired(r)'
<1> USE DEF store, workers, history
<1>0. r \in Record
  BY DEF TypeOK
<1>1. CASE disk' = disk
  BY <1>1
<1>2. CASE Commit
  BY <1>2 DEF Commit, TypeOK
<1>3. ASSUME NEW h \in ret.todo, DeleteRows(h), disk' # disk
      PROVE  r \in disk'[d][g] \/ Expired(r)'
  <2>1. disk' = [disk EXCEPT ![h.day][dbs[h.day].gen] = {q \in @ : ~OldRow(q, ret.limit)}]
        /\ ret.pc = "rows" /\ now' = now
    BY <1>3 DEF DeleteRows
  <2>2. CASE OldRow(r, ret.limit)
    <3>1. r.created < ret.limit /\ r.created \in Int /\ ret.limit \in Int
      BY <1>0, <2>2, RecordTimes DEF OldRow, TypeOK, PassState
    <3>2. RetentionDays > 0 /\ ret.limit <= now - RetentionDays * TicksPerDay
      BY <2>1 DEF IInv, Pass
    <3>3. now \in Int /\ RetentionDays * TicksPerDay \in Int
      BY TimeGrows
    <3>4. QED
      BY <2>1, <3>1, <3>2, <3>3 DEF Expired
  <2>3. CASE ~OldRow(r, ret.limit)
    BY <2>1, <2>3 DEF TypeOK
  <2>4. QED
    BY <2>2, <2>3
<1>4. QED
  BY <1>1, <1>2, <1>3
  DEF Next, Insert, Retention, Query, Tick, NewSQLite, Close, Exit, Crash, End,
      InsertCall, GetDB, Begin, BeginFails, InsertFails, RetentionRun, ListFiles,
      ListFails, RemoveFails, Forget, Remove, RetentionDone, QueryStart, Visit,
      VisitFails, Answered, vars

\* Records leave the disk only when they are expired.
LEMMA OnDiskKept ==
  ASSUME TypeOK, TypeOK', IInv, [Next]_vars, NEW r \in OnDisk
  PROVE  r \in OnDisk' \/ Expired(r)'
<1>1. PICK d \in Date : files[d] # 0 /\ r \in disk[d][files[d]]
  BY DEF OnDisk, FileDays
<1>2. files[d] \in 0..MaxOpens /\ files'[d] \in 0..MaxOpens
  BY DEF TypeOK
<1>3. r \in disk'[d][files[d]] \/ Expired(r)'
  BY <1>1, <1>2, DiskKept
<1>4. CASE files'[d] = files[d]
  BY <1>1, <1>3, <1>4 DEF OnDisk, FileDays
<1>5. CASE Remove /\ d = ret.day
  <2>1. Old(d) /\ Day(r.ts) = d
    BY <1>1, <1>2, <1>5 DEF Remove, IInv, Pass, RightDay
  <2>2. now \in Int /\ r \in Record
    BY <1>1, <1>2, TimeGrows DEF TypeOK
  <2>3. QED
    BY <2>1, <2>2, OldExpired, StillOld
<1>6. CASE Remove /\ d # ret.day
  BY <1>4, <1>6 DEF Remove, TypeOK
<1>7. CASE ~Remove
  <2>1. CASE Next
    BY <1>1, <1>4, <1>7, <2>1, FilesStay
  <2>2. CASE UNCHANGED vars
    BY <1>4, <2>2 DEF vars, store
  <2>3. QED
    BY <2>1, <2>2
<1>8. QED
  BY <1>5, <1>6, <1>7

\* Committed records are in their files, or expired.
LEMMA CommittedKept ==
  ASSUME TypeOK, TypeOK', IInv, [Next]_vars
  PROVE  KeptForRetention'
<1> USE DEF store, workers, history
<1>1. ASSUME NEW r \in committed PROVE r \in OnDisk' \/ Expired(r)'
  <2>1. CASE r \in OnDisk
    BY <2>1, OnDiskKept
  <2>2. CASE Expired(r)
    BY <2>2, StillOld DEF TypeOK
  <2>3. QED
    BY <2>1, <2>2 DEF IInv, KeptForRetention
<1>2. CASE committed' = committed
  BY <1>1, <1>2 DEF KeptForRetention
<1>3. CASE Commit
  <2> DEFINE rows == {[batch |-> batches, ts |-> t, created |-> ins.created] :
                        t \in {u \in ins.todo : Day(u) = ins.day}}
  <2>1. /\ disk' = [disk EXCEPT ![ins.day][ins.gen] = @ \cup rows]
        /\ committed' = committed \cup rows /\ files' = files /\ ins.pc = "commit"
    BY <1>3 DEF Commit
  <2>2. ins.day \in Date /\ ins.gen \in 0..MaxOpens /\ ins.gen # 0
        /\ (files[ins.day] = ins.gen \/ Old(ins.day))
    BY <2>1 DEF TypeOK, InsertState, IInv, Tx
  <2>3. ASSUME NEW r \in rows PROVE r \in OnDisk' \/ Expired(r)'
    <3>1. r \in Record /\ Day(r.ts) = ins.day
      BY DEF TypeOK, InsertState, Record
    <3>2. CASE files[ins.day] = ins.gen
      <4>1. r \in disk'[ins.day][ins.gen]
        BY <2>1, <2>2 DEF TypeOK
      <4>2. files'[ins.day] = ins.gen
        BY <2>1, <3>2
      <4>3. QED
        BY <2>2, <4>1, <4>2 DEF OnDisk, FileDays
    <3>3. CASE Old(ins.day)
      BY <3>1, <3>3, OldExpired, StillOld, TimeGrows
    <3>4. QED
      BY <2>2, <3>2, <3>3
  <2>4. QED
    BY <1>1, <2>1, <2>3 DEF KeptForRetention
<1>4. QED
  BY <1>2, <1>3
  DEF Next, Insert, Retention, Query, Tick, NewSQLite, Close, Exit, Crash, End,
      InsertCall, GetDB, Begin, BeginFails, InsertFails, RetentionRun, DeleteRows,
      ListFiles, ListFails, RemoveFails, Forget, Remove, RetentionDone, QueryStart,
      Visit, VisitFails, Answered, vars

\* Handles broke only under old days.
LEMMA BrokenKept ==
  ASSUME TypeOK, IInv, [Next]_vars
  PROVE  Broken'
<1> USE DEF store, workers, history
<1>1. \A d \in broke : d \in Date /\ Old(d)'
  BY StillOld DEF IInv, Broken
<1>2. CASE broke' = broke
  BY <1>1, <1>2 DEF Broken
<1>3. CASE BeginFails
  <2>1. ins.day \in Date /\ Old(ins.day)
    BY <1>3 DEF BeginFails, IInv, Tx, TypeOK
  <2>2. QED
    BY <1>1, <1>3, <2>1, StillOld DEF BeginFails, Broken
<1>4. ASSUME NEW h \in qry.todo, VisitFails(h), broke' # broke PROVE Broken'
  <2>1. phase = "running" /\ h.day \in Date /\ ~Usable(h)
    BY <1>4 DEF VisitFails, IInv, Visiting, TypeOK, Handle
  <2>2. Old(h.day)'
    BY <2>1, StillOld DEF IInv, Visiting
  <2>3. QED
    BY <1>1, <1>4, <2>1, <2>2 DEF VisitFails, Broken
<1>5. QED
  BY <1>2, <1>3, <1>4
  DEF Next, Insert, Retention, Query, Tick, NewSQLite, Close, Exit, Crash, End,
      InsertCall, GetDB, Begin, Commit, InsertFails, RetentionRun, DeleteRows,
      ListFiles, ListFails, RemoveFails, Forget, Remove, RetentionDone, QueryStart,
      Visit, Answered, vars

\* What a query lacks is in a database it still visits, or expired.
LEMMA VisitingKept ==
  ASSUME TypeOK, TypeOK', IInv, [Next]_vars
  PROVE  Visiting'
<1> USE DEF store, workers, history
<1>0. /\ \A d \in Date : Old(d) => Old(d)'
      /\ \A r \in Record : Expired(r) => Expired(r)'
  BY StillOld
<1>a. \A h \in qry.todo : /\ h.day \in Date /\ h.id \in Nat /\ h.id # 0
                          /\ dbs[h.day].gen \in 0..MaxOpens /\ opens[h.day] \in Nat
                          /\ h.id <= opens[h.day]
  BY DEF TypeOK, Handle, DB, IInv, Visiting
<1>b. qry.missing \subseteq Record
  BY DEF TypeOK
<1>1. CASE UNCHANGED <<qry, phase, dbs, opens>>
  <2>1. /\ phase' = "down" => qry'.pc = "idle"
        /\ qry'.pc = "idle" => qry'.todo = {}
    BY <1>1 DEF IInv, Visiting
  <2>2. \A h \in qry'.todo : /\ h.id # 0 /\ h.id <= opens'[h.day]
                             /\ phase' = "running" => Usable(h)' \/ Old(h.day)'
    BY <1>0, <1>1, <1>a DEF IInv, Visiting, Usable
  <2>3. ASSUME NEW r \in qry'.missing, ~Expired(r)'
        PROVE  \E h \in qry'.todo :
                 /\ h.day = Day(r.ts)
                 /\ Usable(h)' => r \in disk'[h.day][dbs'[h.day].gen]
    <3>1. r \in qry.missing /\ ~Expired(r)
      BY <1>0, <1>1, <1>b, <2>3
    <3>2. PICK h \in qry.todo : /\ h.day = Day(r.ts)
                                /\ Usable(h) => r \in disk[h.day][dbs[h.day].gen]
      BY <3>1 DEF IInv, Visiting
    <3>3. Usable(h) => r \in disk'[h.day][dbs[h.day].gen]
      BY <1>a, <2>3, <3>2, DiskKept
    <3>4. QED
      BY <1>1, <3>2, <3>3 DEF Usable
  <2>4. QED
    BY <2>1, <2>2, <2>3 DEF Visiting
<1>2. CASE NewSQLite
  <2>1. qry' = qry /\ qry.pc = "idle" /\ qry.todo = {} /\ phase' = "running"
    BY <1>2 DEF NewSQLite, IInv, Visiting
  <2>2. \A r \in qry.missing : Expired(r)'
    BY <1>0, <1>b, <2>1 DEF IInv, Visiting
  <2>3. QED
    BY <2>1, <2>2 DEF Visiting
<1>3. CASE Close
  <2>1. /\ qry' = qry /\ phase = "running" /\ phase' = "closed" /\ opens' = opens
        /\ \A d \in Date : dbs'[d].id = 0
    BY <1>3 DEF Close, NoDB
  <2>2. \A h \in qry.todo : ~Usable(h)'
    BY <1>a, <2>1 DEF Usable
  <2>3. QED
    BY <1>0, <1>a, <1>b, <2>1, <2>2 DEF IInv, Visiting
<1>4. CASE qry' = IdleQuery
  BY <1>4 DEF IdleQuery, Visiting
<1>5. ASSUME NEW e \in Date, GetDB(e), ~(UNCHANGED <<dbs, opens>>)
      PROVE  Visiting'
  <2>1. /\ qry' = qry /\ phase' = phase /\ phase = "running" /\ dbs[e].id = 0
        /\ opens' = [opens EXCEPT ![e] = @ + 1]
        /\ dbs' = [dbs EXCEPT ![e] = Opened(e)]
    BY <1>5 DEF GetDB, IInv, Tx
  <2>2. opens[e] \in Nat /\ opens'[e] = opens[e] + 1 /\ dbs'[e].id = opens[e] + 1
    BY <2>1 DEF TypeOK, Opened
  <2>3. \A d \in Date \ {e} : opens'[d] = opens[d] /\ dbs'[d] = dbs[d]
    BY <2>1 DEF TypeOK
  <2>4. disk' = disk
    BY <1>5 DEF GetDB
  <2>5. ASSUME NEW h \in qry.todo
        PROVE  /\ h.id <= opens'[h.day] /\ (Usable(h)' \/ Old(h.day)')
               /\ Usable(h)' => Usable(h) /\ dbs'[h.day] = dbs[h.day]
    <3>1. CASE h.day = e
      <4>1. ~Usable(h) /\ ~Usable(h)'
        BY <1>a, <2>1, <2>2, <3>1 DEF Usable
      <4>2. QED
        BY <1>0, <1>a, <2>1, <2>2, <3>1, <4>1 DEF IInv, Visiting
    <3>2. CASE h.day # e
      <4>1. opens'[h.day] = opens[h.day] /\ dbs'[h.day] = dbs[h.day]
        BY <1>a, <2>3, <3>2
      <4>2. QED
        BY <1>0, <1>a, <2>1, <4>1 DEF Usable, IInv, Visiting
    <3>3. QED
      BY <3>1, <3>2
  <2>6. QED
    BY <1>0, <1>a, <1>b, <2>1, <2>4, <2>5 DEF IInv, Visiting
<1>6. ASSUME NEW e \in Date, Forget(e) PROVE Visiting'
  <2>1. /\ UNCHANGED <<qry, phase, opens, disk>> /\ Old(e)'
        /\ dbs'[e].id = 0 /\ \A d \in Date \ {e} : dbs'[d] = dbs[d]
    BY <1>0, <1>6 DEF Forget, IInv, Pass, NoDB, TypeOK
  <2>2. ASSUME NEW h \in qry.todo
        PROVE  /\ phase = "running" => Usable(h)' \/ Old(h.day)'
               /\ Usable(h)' => Usable(h) /\ dbs'[h.day] = dbs[h.day]
    BY <1>0, <1>a, <2>1 DEF Usable, IInv, Visiting
  <2>3. QED
    BY <1>0, <1>a, <1>b, <2>1, <2>2 DEF IInv, Visiting
<1>7. CASE QueryStart
  <2>1. /\ phase = "running" /\ qry'.pc = "visit" /\ qry'.todo = Snapshot
        /\ qry'.missing = {r \in OnDisk : Day(r.ts) \notin unopened}
        /\ UNCHANGED <<now, phase, dbs, opens, disk>>
    BY <1>7 DEF QueryStart
  <2>2. \A h \in Snapshot : /\ h.id # 0 /\ h.id <= opens[h.day] /\ Usable(h)
    BY DEF Snapshot, OpenDays, Usable, IInv, Handles
  <2>3. ASSUME NEW r \in OnDisk, Day(r.ts) \notin unopened, ~Expired(r)
        PROVE  \E h \in Snapshot : h.day = Day(r.ts) /\ r \in disk[h.day][dbs[h.day].gen]
    <3>1. PICK d \in Date : files[d] # 0 /\ r \in disk[d][files[d]]
      BY DEF OnDisk, FileDays
    <3>2. Day(r.ts) = d /\ r \in Record
      BY <3>1 DEF IInv, RightDay, TypeOK
    <3>3. ~Old(d)
      BY <2>3, <3>2, OldExpired, TimeGrows
    <3>4. dbs[d].id # 0 /\ files[d] = dbs[d].gen
      BY <2>1, <2>3, <3>1, <3>2, <3>3 DEF IInv, Handles
    <3>5. [day |-> d, id |-> dbs[d].id] \in Snapshot
      BY <3>4 DEF Snapshot, OpenDays
    <3>6. QED
      BY <3>1, <3>2, <3>4, <3>5
  <2>4. \A h \in Snapshot : Usable(h)' = Usable(h)
    BY <2>1 DEF Usable
  <2>5. \A r \in OnDisk : Expired(r)' = Expired(r)
    BY <2>1 DEF Expired
  <2>6. QED
    BY <2>1, <2>2, <2>3, <2>4, <2>5 DEF Visiting
<1>8. ASSUME NEW h \in qry.todo, Visit(h) PROVE Visiting'
  <2>1. /\ qry.pc = "visit" /\ Usable(h) /\ qry'.pc = "visit" /\ qry'.todo = qry.todo \ {h}
        /\ qry'.missing = qry.missing \ disk[h.day][dbs[h.day].gen]
        /\ UNCHANGED <<now, phase, dbs, opens, disk>>
    BY <1>8 DEF Visit, TypeOK
  <2>2. \A g \in qry.todo : Usable(g)' = Usable(g)
    BY <2>1 DEF Usable
  <2>3. ASSUME NEW r \in qry'.missing, ~Expired(r)
        PROVE  \E g \in qry'.todo : /\ g.day = Day(r.ts)
                                    /\ Usable(g) => r \in disk[g.day][dbs[g.day].gen]
    <3>1. PICK g \in qry.todo : /\ g.day = Day(r.ts)
                                /\ Usable(g) => r \in disk[g.day][dbs[g.day].gen]
      BY <2>1, <2>3 DEF IInv, Visiting
    <3>2. g # h
      BY <2>1, <3>1
    <3>3. QED
      BY <2>1, <3>1, <3>2
  <2>4. QED
    BY <1>0, <1>a, <1>b, <2>1, <2>2, <2>3 DEF IInv, Visiting
<1>9. CASE Answered
  <2>1. /\ qry'.pc = "idle" /\ qry'.todo = {} /\ qry'.missing = qry.missing /\ qry.todo = {}
        /\ now' = now
    BY <1>9 DEF Answered, TypeOK
  <2>2. \A r \in qry.missing : Expired(r)'
    BY <1>0, <1>b, <2>1 DEF IInv, Visiting
  <2>3. QED
    BY <2>1, <2>2 DEF Visiting
<1>10. QED
  BY <1>1, <1>2, <1>3, <1>4, <1>5, <1>6, <1>7, <1>8, <1>9
  DEF Next, Insert, Retention, Query, Tick, Exit, Crash, End,
      InsertCall, GetDB, Begin, BeginFails, Commit, InsertFails, RetentionRun, DeleteRows,
      ListFiles, ListFails, RemoveFails, Remove, RetentionDone, VisitFails, vars

-----------------------------------------------------------------------------
(* Theorems *)

\* The invariant holds in every state.
LEMMA Invariant == Spec => [](TypeOK /\ IInv)
<1>1. Init => TypeOK /\ IInv
  BY InitType, InitIInv
<1>2. TypeOK /\ IInv /\ [Next]_vars => TypeOK' /\ IInv'
  <2> SUFFICES ASSUME TypeOK, IInv, [Next]_vars PROVE TypeOK' /\ IInv'
    OBVIOUS
  <2>1. TypeOK'
    BY NextType
  <2>2. IInv'
    BY <2>1, HandlesKept, PassKept, TxKept, RightDayKept, CommittedKept, VisitingKept,
       BrokenKept DEF IInv
  <2>3. QED
    BY <2>1, <2>2
<1>3. QED
  BY <1>1, <1>2, PTL DEF Spec

\* The store keeps its types.
THEOREM PartitionsTypeCorrect == Spec => []TypeOK
BY Invariant, PTL

\* Committed records are in the file of their day until their retention is over
\* (sqlite.go:172-244, 1067-1137).
THEOREM PartitionsKeep == Spec => []KeptForRetention
<1>1. IInv => KeptForRetention
  BY DEF IInv
<1>2. QED
  BY <1>1, Invariant, PTL

\* A query that answers lacks only expired records and unopened databases
\* (sqlite.go:146, 440-560).
THEOREM PartitionsAnswer == Spec => []QueryComplete
<1>1. IInv => QueryComplete
  BY DEF IInv, Visiting, QueryComplete
<1>2. QED
  BY <1>1, Invariant, PTL

\* Handles are closed under an insert or a query only when their day is old
\* (sqlite.go:1127).
THEOREM PartitionsBreakOldDaysOnly == Spec => []FailuresExplained
<1>1. IInv => FailuresExplained
  BY DEF IInv, Broken, Old, OldDay, FailuresExplained
<1>2. QED
  BY <1>1, Invariant, PTL

\* A pass leaves no file of an old day behind (sqlite.go:1102-1134).
THEOREM PartitionsOldFilesGo == Spec => []OldFilesGo
<1>1. TypeOK /\ IInv => OldFilesGo
  BY DEF IInv, Pass, OldFilesGo, TypeOK
<1>2. QED
  BY <1>1, Invariant, PTL
=============================================================================
