----------------------------- MODULE Migration --------------------------------
(* The automatic upgrade of a v0 database when the engine is opened
   (internal/api/migration.go and NewEngine): the records are read into memory, put
   into a temporary v1 database, and six files change names.  The process can die
   between any two steps, and most of the steps can fail; many of the errors are
   not looked at.  A data file is [format, records] and a log is the set of records
   it puts; NoFile and {} stand for a name that is not taken. *)
EXTENDS Naturals

CONSTANTS
  DataRecords,   \* the records in the data file of the v0 database
  LogRecords,    \* those that are only in its log
  MaxFaults      \* bound on the crashes and errors

MigrationAssumption == DataRecords \cap LogRecords = {} /\ MaxFaults \in Nat

VARIABLES
  db, wal,       \* the database and its log
  dbBak, walBak, \* <name>.v0.bak
  tmp, tmpWal,   \* <name>.migrated.tmp
  records,       \* the map the migration collects, {} when none runs
  step, faults,
  logErrors      \* history: what has failed of this migration's log, unnoticed
files == <<db, wal, dbBak, walBak, tmp, tmpWal>>
vars  == <<files, records, step, faults, logErrors>>

File(format, rs) == [format |-> format, records |-> rs]
NoFile == File("none", {})

Init ==
  /\ db = File("v0", DataRecords) /\ wal = LogRecords
  /\ dbBak = NoFile /\ walBak = {} /\ tmp = NoFile /\ tmpWal = {}
  /\ records = {} /\ step = "closed" /\ faults = 0 /\ logErrors = {}

At(s)      == step = s
Go(s)      == step' = s
Fault      == faults < MaxFaults /\ faults' = faults + 1
NoFault    == faults' = faults

----------------------------------------------------------------------------
(* NewEngine.  Opening creates both files; a data file without pages becomes a
   v1 database, and its log, whichever it is, is replayed. *)
Open ==
  /\ At("closed") /\ NoFault
  /\ IF db.format = "v0"
     THEN Go("scan") /\ db' = db /\ logErrors' = {}
     ELSE Go("open") /\ db' = File("v1", db.records \cup wal) /\ logErrors' = logErrors
  /\ UNCHANGED <<wal, dbBak, walBak, tmp, tmpWal, records>>

(* A record that cannot be read is passed over, and an error of the cursor ends
   the scan. *)
ScanAll ==
  /\ At("scan") /\ Go("log") /\ NoFault
  /\ records' = db.records
  /\ UNCHANGED <<files, logErrors>>
ScanSome ==
  /\ At("scan") /\ Go("log") /\ Fault
  /\ \E rs \in SUBSET db.records \ {db.records} : records' = rs
  /\ UNCHANGED <<files, logErrors>>

(* A log that cannot be found, opened or read to its end is not missed. *)
LogAll ==
  /\ At("log") /\ Go("create") /\ NoFault
  /\ records' = records \cup wal
  /\ UNCHANGED <<files, logErrors>>
LogSome ==
  /\ At("log") /\ Go("create") /\ Fault
  /\ \E rs \in SUBSET wal \ {wal} : records' = records \cup rs
  /\ logErrors' = logErrors \cup {"read"}
  /\ UNCHANGED files

CreateTmp ==
  /\ At("create") /\ Go("fill") /\ NoFault
  /\ tmp' = File("v1", {}) /\ tmpWal' = {}
  /\ UNCHANGED <<db, wal, dbBak, walBak, records, logErrors>>

Fill(r) ==
  /\ At("fill") /\ r \in records \ tmp.records /\ NoFault
  /\ tmp' = File("v1", tmp.records \cup {r}) /\ tmpWal' = tmpWal \cup {r}
  /\ UNCHANGED <<db, wal, dbBak, walBak, records, step, logErrors>>
FillFails ==
  /\ At("fill") /\ records # tmp.records /\ Fault /\ Go("closed")
  /\ tmp' = NoFile /\ tmpWal' = {} /\ records' = {}
  /\ UNCHANGED <<db, wal, dbBak, walBak, logErrors>>

CloseTmp ==
  /\ At("fill") /\ records = tmp.records /\ NoFault /\ Go("backup")
  /\ dbBak' = NoFile /\ walBak' = {}
  /\ UNCHANGED <<db, wal, tmp, tmpWal, records, logErrors>>

BackupDropped == db' = NoFile /\ dbBak' = dbBak \* mutant: the old file is removed
Backup        == db' = NoFile /\ dbBak' = db
BackupDB ==
  /\ At("backup") /\ NoFault /\ Go("backupWAL") /\ Backup
  /\ UNCHANGED <<wal, walBak, tmp, tmpWal, records, logErrors>>
BackupWAL ==
  /\ At("backupWAL") /\ Go("install")
  /\ \/ NoFault /\ walBak' = wal /\ wal' = {} /\ UNCHANGED logErrors
     \/ Fault /\ logErrors' = logErrors \cup {"rename"} /\ UNCHANGED <<wal, walBak>>
  /\ UNCHANGED <<db, dbBak, tmp, tmpWal, records>>

Install ==
  /\ At("install") /\ NoFault /\ Go("installWAL")
  /\ db' = tmp /\ tmp' = NoFile
  /\ UNCHANGED <<wal, dbBak, walBak, tmpWal, records, logErrors>>
InstallWAL ==
  /\ At("installWAL") /\ Go("closed") /\ records' = {}
  /\ \/ NoFault /\ wal' = tmpWal /\ tmpWal' = {}
     \/ Fault /\ UNCHANGED <<wal, tmpWal>>
  /\ UNCHANGED <<db, dbBak, walBak, tmp, logErrors>>

(* An error that is reported: the engine is not opened.  The same is true of a
   crash, at any step. *)
Stop ==
  /\ ~At("closed") /\ Fault /\ Go("closed") /\ records' = {}
  /\ UNCHANGED <<files, logErrors>>

Next ==
  \/ Open \/ ScanAll \/ ScanSome \/ LogAll \/ LogSome
  \/ CreateTmp \/ (\E r \in DataRecords \cup LogRecords : Fill(r)) \/ FillFails
  \/ CloseTmp \/ BackupDB \/ BackupWAL \/ Install \/ InstallWAL \/ Stop
Spec == Init /\ [][Next]_vars

----------------------------------------------------------------------------
\* Wherever the process dies, again and again, every record of the v0 data file is in
\* the database or in its backup; and every record of its log is in the database, the
\* log or the log's backup, unless both the log could not be read and its rename
\* failed: then the new log takes the place of the only copy there is.
NothingDestroyed ==
  /\ DataRecords \subseteq db.records \cup dbBak.records
  /\ LogRecords \subseteq db.records \cup wal \cup walBak \/ logErrors = {"read", "rename"}

\* The engine, once it is open, shows every record of the v0 database.  It does not
\* hold: a crash between the names leaves no data file, and a new one is made.
OpensWhole == At("open") => DataRecords \cup LogRecords \subseteq db.records
==============================================================================
