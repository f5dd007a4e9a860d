------------------------------ MODULE Partitions ------------------------------
(***************************************************************************)
(* The store: internal/storage/sqlite.go and retention.go.                 *)
(*                                                                         *)
(* Records live in one SQLite file per local day, opened on demand and     *)
(* kept open in s.dbs.  The processor's worker inserts batches day by day; *)
(* queries walk over a snapshot of the open handles; the retention worker  *)
(* deletes old rows, then closes and removes the files of old days.  Only  *)
(* s.dbs is under a lock: the files are not, and a handle is used after    *)
(* the lock was given back.                                                *)
(*                                                                         *)
(* A file is modelled by the generation of its inode: a removed file that  *)
(* is made again has another, and a handle keeps the one it opened.  Time  *)
(* is counted in ticks, TicksPerDay of them in a day.                      *)
(***************************************************************************)
EXTENDS Integers, FiniteSets

CONSTANTS
  TicksPerDay,
  Offset,         \* local time minus UTC, in ticks
  RetentionDays,  \* cfg.Storage.RetentionDays; 0 switches retention off
  Start,          \* the instant at which the server is started first
  Ages,           \* how old a record may be when it is inserted
  MaxTime,        \* bound: the last instant
  MaxBatches,     \* bound: batches inserted
  MaxOpens,       \* bound: times a date's database is opened
  MaxFaults       \* bound: crashes, disk errors, cancelled contexts

ASSUME PartitionsAssumption ==
  /\ TicksPerDay \in Nat \ {0} /\ Offset \in Int
  /\ RetentionDays \in Nat
  /\ Start \in Nat /\ MaxTime \in Nat /\ Start <= MaxTime /\ Ages \subseteq Int
  /\ MaxBatches \in Nat /\ MaxOpens \in Nat /\ MaxFaults \in Nat

\* time.Unix(0, ts).Format("2006-01-02"): the local day of an instant.
Day(t) == (t + Offset) \div TicksPerDay

\* time.Parse of the same string plus 24 hours: the end of that day, in UTC.
DayEnd(d) == (d + 1) * TicksPerDay

Instant == Start..MaxTime
Stamp == {t - a : t \in Instant, a \in Ages}
Date == {Day(t) : t \in Instant \cup Stamp}
Record == [batch : 0..MaxBatches, ts : Stamp, created : Instant]

VARIABLES
  now,        \* time.Now()
  phase,      \* the process is "down", "running", or has "closed" the store
  files,      \* per date, the generation of the file by that name, 0 if none
  disk,       \* per date and generation, the records committed to it
  dbs,        \* s.dbs: per date, the handle's id and the generation it opened
  opens,      \* per date, the number of generations and handles so far
  ins,        \* the Insert* call of the processor's worker
  ret,        \* DeleteOldPartitions of the retention worker; had and kept are history:
              \* opens when the files were listed, dates whose file could not be removed
  qry,        \* one query: handles to visit, and what its answer lacks so far
  \* History.
  unopened,   \* dates whose file NewSQLite could not open
  committed,  \* records whose transaction was reported committed
  broke,      \* dates on whose handle an insert or a query failed without a fault
  batches,    \* number of batches so far
  faults      \* number of faults so far

workers == <<ins, ret, qry>>
store == <<files, disk, dbs, opens>>
history == <<unopened, committed, broke, batches, faults>>
vars == <<now, phase, store, workers, history>>

NoDB == [id |-> 0, gen |-> 0]
IdleInsert == [pc |-> "idle", todo |-> {}, day |-> 0, id |-> 0,
               gen |-> 0, created |-> Start]
IdlePass == [pc |-> "idle", limit |-> 0, todo |-> {}, list |-> {}, day |-> 0,
             had |-> [d \in Date |-> 0], kept |-> {}]
IdleQuery == [pc |-> "idle", todo |-> {}, missing |-> {}]

OpenDays == {d \in Date : dbs[d].id # 0}
FileDays == {d \in Date : files[d] # 0}

\* getAllDBs: the handles open now.
Snapshot == {[day |-> d, id |-> dbs[d].id] : d \in OpenDays}

\* A handle taken earlier has not been closed since.
Usable(h) == dbs[h.day].id = h.id

OnDisk == UNION {disk[d][files[d]] : d \in FileDays}

Init ==
  /\ now = Start /\ phase = "down"
  /\ files = [d \in Date |-> 0]
  /\ disk = [d \in Date |-> [g \in 0..MaxOpens |-> {}]]
  /\ dbs = [d \in Date |-> NoDB]
  /\ opens = [d \in Date |-> 0]
  /\ ins = IdleInsert /\ ret = IdlePass /\ qry = IdleQuery
  /\ unopened = {} /\ committed = {} /\ broke = {} /\ batches = 0 /\ faults = 0

Fault == faults < MaxFaults /\ faults' = faults + 1

Tick ==
  /\ now < MaxTime
  /\ now' = now + 1
  /\ UNCHANGED <<phase, store, workers, history>>

-----------------------------------------------------------------------------
(* NewSQLite, Close, the process.                                          *)

\* The handle and the file after opening the database of date d.
Opened(d) == [id |-> opens[d] + 1, gen |-> IF files[d] = 0 THEN opens[d] + 1 ELSE files[d]]

\* Mutated OpenAll: only today's database is opened.
OpenToday(today, failed) ==
  /\ opens[today] < MaxOpens
  /\ opens' = [opens EXCEPT ![today] = @ + 1]
  /\ dbs' = [d \in Date |-> IF d = today THEN Opened(d) ELSE NoDB]
  /\ files' = [files EXCEPT ![today] = Opened(today).gen]

\* Today's database and those of all the files, without the ones that failed.
OpenAll(today, failed) ==
  LET days == (FileDays \cup {today}) \ failed
  IN /\ \A d \in days : opens[d] < MaxOpens
     /\ opens' = [d \in Date |-> IF d \in days THEN opens[d] + 1 ELSE opens[d]]
     /\ dbs' = [d \in Date |-> IF d \in days THEN Opened(d) ELSE NoDB]
     /\ files' = [files EXCEPT ![today] = Opened(today).gen]

\* NewSQLite ends the process when today's database cannot be opened, and
\* ignores the error for the others.
NewSQLite ==
  /\ phase = "down"
  /\ \E failed \in SUBSET (FileDays \ {Day(now)}) :
       /\ IF failed = {} THEN UNCHANGED faults ELSE Fault
       /\ OpenAll(Day(now), failed)
       /\ unopened' = failed
  /\ phase' = "running"
  /\ UNCHANGED <<now, disk, workers, committed, broke, batches>>

\* Mutated Close: the store is closed before the processor is stopped.
CloseEarly ==
  /\ phase = "running"
  /\ phase' = "closed"
  /\ dbs' = [d \in Date |-> NoDB]
  /\ UNCHANGED <<now, files, disk, opens, workers, history>>

\* Close, after proc.Stop has ended the last insert.
Close ==
  /\ phase = "running" /\ ins.pc = "idle"
  /\ phase' = "closed"
  /\ dbs' = [d \in Date |-> NoDB]
  /\ UNCHANGED <<now, files, disk, opens, workers, history>>

\* The process ends: what is not in a file is gone.
End ==
  /\ phase' = "down"
  /\ dbs' = [d \in Date |-> NoDB]
  /\ ins' = IdleInsert /\ ret' = IdlePass /\ qry' = IdleQuery
  /\ unopened' = {}
  /\ UNCHANGED <<now, files, disk, opens, committed, broke, batches>>

Exit == phase = "closed" /\ End /\ UNCHANGED faults
Crash == phase # "down" /\ Fault /\ End

-----------------------------------------------------------------------------
(* InsertSpans, InsertMetrics, InsertLogs, InsertExemplars: one transaction *)
(* per day, the days in the random order of a map.                         *)

InsertCall(S) ==
  /\ phase = "running" /\ ins.pc = "idle" /\ batches < MaxBatches
  /\ S \subseteq {now - a : a \in Ages} /\ S # {}
  /\ ins' = [IdleInsert EXCEPT !.pc = "day", !.todo = S]
  /\ batches' = batches + 1
  /\ UNCHANGED <<now, phase, store, ret, qry, unopened, committed, broke, faults>>

\* getDB: the handle in s.dbs, or a new one under the lock.
GetDB(d) ==
  /\ ins.pc = "day" /\ d \in {Day(t) : t \in ins.todo}
  /\ IF dbs[d].id # 0
       THEN UNCHANGED <<dbs, files, opens, unopened>>
       ELSE /\ opens[d] < MaxOpens
            /\ opens' = [opens EXCEPT ![d] = @ + 1]
            /\ dbs' = [dbs EXCEPT ![d] = Opened(d)]
            /\ files' = [files EXCEPT ![d] = Opened(d).gen]
            /\ unopened' = unopened \ {d}
  /\ ins' = [ins EXCEPT !.pc = "begin", !.day = d, !.id = dbs'[d].id]
  /\ UNCHANGED <<now, phase, disk, ret, qry, committed, broke, batches, faults>>

\* BeginTx and the rows, all with the created_at of this day's transaction.
Begin ==
  /\ ins.pc = "begin" /\ Usable(ins)
  /\ ins' = [ins EXCEPT !.pc = "commit", !.id = 0, !.gen = dbs[ins.day].gen,
                        !.created = now]
  /\ UNCHANGED <<now, phase, store, ret, qry, history>>

\* The handle was closed meanwhile: this day and the others are lost.
BeginFails ==
  /\ ins.pc = "begin" /\ ~Usable(ins)
  /\ ins' = IdleInsert
  /\ broke' = broke \cup {ins.day}
  /\ UNCHANGED <<now, phase, store, ret, qry, unopened, committed, batches, faults>>

\* Commit goes to the file that the transaction began in, removed or not.
Commit ==
  LET today == {t \in ins.todo : Day(t) = ins.day}
      rows == {[batch |-> batches, ts |-> t, created |-> ins.created] :
                 t \in today}
  IN /\ ins.pc = "commit"
     /\ disk' = [disk EXCEPT ![ins.day][ins.gen] = @ \cup rows]
     /\ committed' = committed \cup rows
     /\ ins' = IF ins.todo = today THEN IdleInsert
               ELSE [IdleInsert EXCEPT !.pc = "day", !.todo = ins.todo \ today]
     /\ UNCHANGED <<now, phase, files, dbs, opens, ret, qry,
                    unopened, broke, batches, faults>>

\* Any of the calls reports an error and the rest of the batch is not inserted.
InsertFails ==
  /\ ins.pc # "idle" /\ Fault
  /\ ins' = IdleInsert
  /\ UNCHANGED <<now, phase, store, ret, qry, unopened, committed, broke, batches>>

-----------------------------------------------------------------------------
(* StartRetentionWorker, DeleteOldPartitions.                              *)

\* The worker is not stopped before the process ends, and runs at once, then at
\* every tick of its ticker.
RetentionRun ==
  /\ phase # "down" /\ ret.pc = "idle" /\ RetentionDays > 0
  /\ ret' = [IdlePass EXCEPT !.pc = "rows", !.todo = Snapshot,
                             !.limit = now - RetentionDays * TicksPerDay]
  /\ UNCHANGED <<now, phase, store, ins, qry, history>>

\* DELETE FROM spans, metrics, logs WHERE created_at < beforeNano.
OldRow(r, limit) == r.created < limit

\* The rows in the database of one handle; an error is printed and passed over.
DeleteRows(h) ==
  /\ ret.pc = "rows" /\ h \in ret.todo
  /\ \/ /\ Usable(h)
        /\ disk' = [disk EXCEPT ![h.day][dbs[h.day].gen] =
                      {r \in @ : ~OldRow(r, ret.limit)}]
        /\ UNCHANGED faults
     \/ ~Usable(h) /\ UNCHANGED <<disk, faults>>
     \/ Fault /\ UNCHANGED disk
  /\ ret' = [ret EXCEPT !.todo = @ \ {h}]
  /\ UNCHANGED <<now, phase, files, dbs, opens, ins, qry,
                 unopened, committed, broke, batches>>

\* Mutated OldDay: the day's beginning is compared, not its end.
OldDayBegin(d, limit) == DayEnd(d - 1) < limit

\* t.Add(24 * time.Hour).Before(beforeTime)
OldDay(d, limit) == DayEnd(d) < limit

\* Mutated ListFiles: only files with an open handle are found.
ListHandles ==
  /\ ret.pc = "rows" /\ ret.todo = {}
  /\ ret' = [ret EXCEPT !.pc = "files", !.had = opens,
                        !.list = {d \in OpenDays : OldDay(d, ret.limit)}]
  /\ UNCHANGED <<now, phase, store, ins, qry, history>>

\* ReadDir, and the files of the old days among them.
ListFiles ==
  /\ ret.pc = "rows" /\ ret.todo = {}
  /\ ret' = [ret EXCEPT !.pc = "files", !.had = opens,
                        !.list = {d \in FileDays : OldDay(d, ret.limit)}]
  /\ UNCHANGED <<now, phase, store, ins, qry, history>>

\* ReadDir fails: the pass ends with an error.
ListFails ==
  /\ ret.pc = "rows" /\ ret.todo = {} /\ Fault
  /\ ret' = IdlePass
  /\ UNCHANGED <<now, phase, store, ins, qry, unopened, committed, broke, batches>>

\* Under the lock: the handle of the next file is closed and forgotten.
Forget(d) ==
  /\ ret.pc = "files" /\ d \in ret.list /\ \A e \in ret.list : d <= e
  /\ dbs' = [dbs EXCEPT ![d] = NoDB]
  /\ ret' = [ret EXCEPT !.pc = "remove", !.day = d, !.list = @ \ {d}]
  /\ UNCHANGED <<now, phase, files, disk, opens, ins, qry, history>>

\* os.Remove of the file with its -wal and -shm files, without the lock.
Remove ==
  /\ ret.pc = "remove"
  /\ files' = [files EXCEPT ![ret.day] = 0]
  /\ ret' = [ret EXCEPT !.pc = "files"]
  /\ UNCHANGED <<now, phase, disk, dbs, opens, ins, qry, history>>

\* An error of os.Remove is ignored; the next pass finds the file again.
RemoveFails ==
  /\ ret.pc = "remove" /\ Fault
  /\ ret' = [ret EXCEPT !.pc = "files", !.kept = @ \cup {ret.day}]
  /\ UNCHANGED <<now, phase, store, ins, qry, unopened, committed, broke, batches>>

RetentionDone ==
  /\ ret.pc = "files" /\ ret.list = {}
  /\ ret' = IdlePass
  /\ UNCHANGED <<now, phase, store, ins, qry, history>>

-----------------------------------------------------------------------------
(* QueryTraces and its like: every handle of the snapshot in turn; the first *)
(* error ends the query.                                                   *)

QueryStart ==
  /\ phase = "running" /\ qry.pc = "idle"
  /\ qry' = [pc |-> "visit", todo |-> Snapshot,
             missing |-> {r \in OnDisk : Day(r.ts) \notin unopened}]
  /\ UNCHANGED <<now, phase, store, ins, ret, history>>

\* The rows of one day's database are added to the answer.
Visit(h) ==
  /\ qry.pc = "visit" /\ h \in qry.todo /\ Usable(h)
  /\ qry' = [qry EXCEPT !.todo = @ \ {h}, !.missing = @ \ disk[h.day][dbs[h.day].gen]]
  /\ UNCHANGED <<now, phase, store, ins, ret, history>>

\* The handle was closed meanwhile, or the database reports an error.
VisitFails(h) ==
  /\ qry.pc = "visit" /\ h \in qry.todo
  /\ \/ /\ ~Usable(h)
        /\ broke' = IF phase = "closed" THEN broke ELSE broke \cup {h.day}
        /\ UNCHANGED faults
     \/ Fault /\ UNCHANGED broke
  /\ qry' = IdleQuery
  /\ UNCHANGED <<now, phase, store, ins, ret, unopened, committed, batches>>

Answered ==
  /\ qry.pc = "visit" /\ qry.todo = {}
  /\ qry' = [qry EXCEPT !.pc = "idle"]
  /\ UNCHANGED <<now, phase, store, ins, ret, history>>

-----------------------------------------------------------------------------
Insert ==
  \/ \E S \in SUBSET {now - a : a \in Ages} : InsertCall(S)
  \/ \E d \in Date : GetDB(d)
  \/ Begin
  \/ BeginFails
  \/ Commit
  \/ InsertFails

Retention ==
  \/ RetentionRun
  \/ \E h \in ret.todo : DeleteRows(h)
  \/ ListFiles \/ ListFails
  \/ \E d \in Date : Forget(d)
  \/ Remove \/ RemoveFails
  \/ RetentionDone

Query ==
  \/ QueryStart
  \/ \E h \in qry.todo : Visit(h) \/ VisitFails(h)
  \/ Answered

Next ==
  \/ Tick
  \/ NewSQLite \/ Close \/ Exit \/ Crash
  \/ Insert
  \/ Retention
  \/ Query

Spec == Init /\ [][Next]_vars

-----------------------------------------------------------------------------
(* Properties.                                                             *)

\* Where local time is behind UTC, a day's file is old that much too early.
Slack == IF Offset < 0 THEN -Offset ELSE 0

\* The record may be deleted: the retention of its kind is over.
Expired(r) ==
  /\ RetentionDays > 0
  /\ \/ r.created < now - RetentionDays * TicksPerDay
     \/ r.ts < now - RetentionDays * TicksPerDay + Slack

\* A record whose transaction was reported committed is in the file of its day
\* until the retention is over, whatever crashes, removals and openings of files
\* come between the steps of the insert (sqlite.go:172-244, 1067-1137).
KeptForRetention == \A r \in committed : r \in OnDisk \/ Expired(r)

\* A query that answers without an error has seen every record that was on the
\* disk when it began and has not expired, except those of dates whose database
\* NewSQLite could not open, although retention closes handles and removes files
\* under it (sqlite.go:146, 1127).
QueryComplete == qry.pc = "idle" => \A r \in qry.missing : Expired(r)

\* An insert or a query of a running server finds its handle closed only when the
\* date is so old that its file is being removed (sqlite.go:1127).
FailuresExplained ==
  \A d \in broke : DayEnd(d) < now - RetentionDays * TicksPerDay

\* At its end a pass has removed the file of every old date, those that have no
\* handle included, except a file made anew while it ran and one that could not be
\* removed (sqlite.go:1102-1134).
OldFilesGo ==
  ret.pc = "files" /\ ret.list = {} =>
    \A d \in FileDays \ ret.kept : OldDay(d, ret.limit) => files[d] > ret.had[d]

Handle == [day : Date, id : 0..MaxOpens]
DB == [id : 0..MaxOpens, gen : 0..MaxOpens]
InsertState == [pc : {"idle", "day", "begin", "commit"}, todo : SUBSET Stamp,
                day : Int, id : 0..MaxOpens, gen : 0..MaxOpens, created : Instant]
PassState == [pc : {"idle", "rows", "files", "remove"}, limit : Int,
              todo : SUBSET Handle, list : SUBSET Date,
              day : Int, had : [Date -> 0..MaxOpens], kept : SUBSET Date]

\* Types, and that steps with a day in hand have one of the model.
TypeOK ==
  /\ now \in Instant
  /\ phase \in {"down", "running", "closed"}
  /\ files \in [Date -> 0..MaxOpens]
  /\ disk \in [Date -> [0..MaxOpens -> SUBSET Record]]
  /\ dbs \in [Date -> DB]
  /\ opens \in [Date -> 0..MaxOpens]
  /\ ins \in InsertState
  /\ ins.pc \in {"begin", "commit"} => ins.day \in Date
  /\ ret \in PassState
  /\ ret.pc = "remove" => ret.day \in Date
  /\ qry \in [pc : {"idle", "visit"}, todo : SUBSET Handle, missing : SUBSET Record]
  /\ committed \subseteq Record
  /\ batches \in 0..MaxBatches
=============================================================================
