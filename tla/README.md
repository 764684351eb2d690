# BeastDB in TLA+

BeastDB is a key-value store written in Go: `uint64` keys, opaque values, one
writer at a time, a write-ahead log, pages behind a buffer pool, a B+ tree, and
asynchronous read replicas. Beside the server the repository holds the Studio, a
web console in TypeScript. This directory models both in TLA+, checks the models
with TLC and proves theorems about them with TLAPS.

Contents: [the system](#the-system), [the modules](#the-modules),
[the runs](#the-runs), [what the code does that it says it does not](#findings),
[the proofs](#the-proofs), [what is not modelled](#not-modelled),
[the plan](#plan).

## The system

A request enters through gRPC (`internal/api/grpc_server.go`) or the web console
(`internal/web`). Both call `Engine` (`internal/api`), which logs the request in
the WAL (`internal/wal`), applies it to pages in the buffer pool
(`internal/storage`) through the B+ tree (`internal/index`), and hands the record
to a commit observer, the replication leader (`internal/replication`), which
streams it to followers. A follower applies records to an `Engine` of its own.

The Studio (`src/studio`, React) is another client: its hook `useStudioData` calls
the HTTP handlers of `internal/web/handler` and keeps what they answer; the
explorer (`RecordsView`), the dialogs that write a record, the dialog of API tokens
and the panel of a user's records work on that. No request is ever cancelled or
superseded: its answer is applied when it comes, whatever was done meanwhile.

| component | state | operations | what makes it correct |
|---|---|---|---|
| Storage engine, `internal/api` | `activeDataPage`, `reclaim`, `failed`, `mu` | Put, PutIf, PutIfAbsent, Delete, DeleteIf, BatchWrite, BatchWriteIf, Get, Scan, Checkpoint, CreateSnapshot, Close, recoverFromWAL | acknowledged writes survive crashes, batches are atomic, conditions are evaluated with the write, every live tuple belongs to one key, the lock is always released |
| Write-ahead log, `internal/wal` | the log file, the archived `.bak`, `currentLSN` | Write, Checkpoint (rotation), OpenWAL, SetCurrentLSN, Replay | LSNs are never reused and never go back; a record is on disk before its write is acknowledged; a torn record is never applied |
| Buffer pool, `storage/buffer_pool*.go` | frames, page table, clock hand | FetchPage, NewPage, UnpinPage, FlushPage, FlushAll | a page is in one frame at most, a pinned page stays, no change is lost, a frame is found if one can go |
| Slotted page, `storage/page.go` | header, slots, tuple bytes | InsertTuple, DeleteTuple, GetTuple, Compact | slots never overlap, a slot number keeps its tuple, freed space is found again |
| Meta page, `storage/meta_page.go` | magic, version, root, LastCheckpointLSN, ActiveDataPageID | read, write | the covered LSN never exceeds what is on disk |
| B+ tree, `internal/index` | nodes, leaf chain, mutation epoch | Insert, Delete, Search, Cursor | it is a sorted map; leaves are chained in order; separators route to the right leaf |
| Large values, `api/engine_large.go` | chunk chains of tuples | store, load, free | a chain is whole or absent; a failed store frees what it wrote |
| Secondary index, `index/secondary.go` | postings | Add, Remove, Search | postings agree with the primary records |
| Replication, `internal/replication` | subscribers' channels, `lastSentLSN`, the follower's `lastAppliedLSN` | StreamWAL, Broadcast, Subscribe, SyncLoop, ApplyReplicatedRecord | a follower holds a prefix of the leader's history, and notices when it cannot |
| Cache, `internal/cache` | shards: map, LRU list, TTL heap | Get, Set, Delete, EvictExpired | capacity is kept, an entry expires when its TTL says so and not otherwise |
| Data structures, `internal/dsa` | hash map, heap, ring buffer, vector | the usual ones | they agree with a map, a bag, a queue, a sequence |
| API tokens, `web/auth/token_store.go`, `ApiTokensDialog.tsx` | records in the engine, an index in memory; the dialog's list, secret and flags | Create, Delete, Reload; fetch, create, delete | a valid token is stored unless another request took its record, a revoked one does not come back, the list does not stay "loading" |
| Accounts and sessions, `web/auth` | records in the engine, sessions | CreateUser, login, logout | a name is taken once |
| HTTP handlers of the console, `web/handler` | none of their own | list, search, get, put, delete, delete a user, counts | a page neither overlaps the next nor skips; a search that stops early says so and where |
| The Studio's data, `hooks/useStudioData.ts` | the list, its next key, the partition, spinners, counts, the user | refresh, loadPartition, loadMore, search, scanRange, lookup, save, update, remove, removeUser, the timer | pages fit together; a spinner ends with what it is for |
| Explorer, `RecordsView.tsx`, `page.tsx` | search results and their totals, busy flag, selection, confirmations | search, continue, clear, choose, select, confirm | the banner counts what is shown; a search in chunks misses nothing |
| Record dialogs, `NewRecordDialog.tsx`, `EditRecordPanel.tsx` | texts, busy and saving flags, requests under way | type, submit, close, and what comes back | a new record replaces none; what is edited keeps its format; a dialog is not left busy |
| Panel of a user, `useUserContext.ts` | collections by partition | load, for every user shown | the records of two users are never mixed |
| Names of partitions, `usePartitionMetadata.ts`, `schema-inference.ts`, `key-decoder.ts` | inferred names, rounds of samples | sample, infer, list | names are those of the partitions there are; no two partitions look the same |
| List views, `RecordListTable.tsx`, `StatusFilterBar.tsx`, ... | filter, view, page, pane | filter, turn, switch, select | a pill shows every record it counts |
| Keys, `utils/format.ts`, `KeyBitSlicer.tsx`, `KeyAnalyzerDialog.tsx` | the key in the analyzer | build, decode, slice, hash | what builds keys, takes them apart and scans them agrees |
| Login limiter, `web/handler/ratelimit.go` | failures per address | Allow, RecordFailure, Reset | at most the configured number of failures per window |
| Migration, `api/migration.go` | the database files | MigrateV0ToV1 | a crash between renames loses nothing |
| Backup and restore, `cmd/beastctl` | files | backup, verify, restore | a restored backup equals a state of the source |
| RESP server, gRPC and HTTP handlers, binaries | connections, configuration | parsing, translation, wiring | no state of their own worth a model |

What is hard here:

* **Crashes.** The process may die between any two page writes, before or after
  an fsync, between the three file operations of a log rotation, in the middle
  of a recovery. Replay runs over pages of different ages.
* **Partial failure.** Any file operation may fail and be returned as an error
  after half of the work is done. The engine then *halts*: the log and the pages
  disagree until a restart.
* **Concurrency.** `Engine.mu` makes writers exclusive and lets readers share.
  Below it the buffer pool gives up its lock between a failed lookup and the
  load; above it the leader's streams run beside the writers.
* **Answers out of order.** The Studio has several requests under way; each may be
  lost, or made and its answer lost, and comes back to a page that has moved on.
  Other clients write in between.
* **Bounded resources.** Frames, replica channels, page space, pages of a scan,
  chunks of a search.

`PROJECT.json` lists each of these hazards at the line where it bites, with the
properties that cover it.

## The modules

| module | models | extends |
|---|---|---|
| `KVOps` | write requests and their effect on a map | |
| `KVOpsProofs` | theorems about `KVOps`, for any number of operations | `KVOps`, TLAPS |
| `KVStore` | what the engine promises, without pages or a log | `KVOps` |
| `Engine` | the engine, its log, its pages, crashes and recovery | `KVOps`; implements `KVStore` |
| `EngineProofs` | theorems about `Engine` | `Engine`, `KVOpsProofs` |
| `BufferPool` | the buffer pool and the goroutines that use it | |
| `BufferPoolProofs` | theorems about `BufferPool` | `BufferPool`, TLAPS |
| `ReplicatedStore` | what replication promises a follower's readers | `KVOps` |
| `Replication` | the leader's log files and broadcaster, streams, followers | `KVOps`; implements `ReplicatedStore` |
| `ReplicationProofs` | theorems about `Replication` | `Replication`, `KVOpsProofs` |
| `BTree` | the tree: splits, borrowing, merges, lookups, scans | |
| `BTreeProofs` | theorems about `BTree` | `BTree`, TLAPS |
| `LargeValues` | chains of chunks and their manifests | |
| `Migration` | the upgrade of a v0 database, rename by rename | |
| `LoginLimiter` | the limit on failed logins | |
| `KeyCodec` | the layout of keys, and what relies on it | |
| `KeyAnalyzer` | the dialog that takes a key apart | `KeyCodec` |
| `StudioServer` | the answers of the HTTP handlers, as functions of the store | `KeyCodec` |
| `StudioData` | the hook, its requests, the server, other clients | `StudioServer` |
| `Explorer` | `RecordsView` and the page, over the hook | `StudioData` |
| `RecordFields`, `RecordForms` | the builder of a record's fields; New Record and Edit Record | |
| `ApiTokens` | the token store and its dialog | |
| `UserContext` | the panel of a user's records | |
| `PartitionNames` | inference of names, its rounds of samples, the list of partitions | |
| `Listing` | filter, views, pages and panes of the list | |
| `Parts` | the modules that share nothing with others, put together | `BTree`; ten instances |
| `ExplorerProofs` | theorems about `Explorer`, with `StudioData` and `StudioServer` | `Explorer`, TLAPS |
| `StudioPartsProofs` | theorems about `RecordFields`, `RecordForms`, `ApiTokens`, `UserContext`, `PartitionNames`, `Listing` | `Parts`, TLAPS |
| `ServerPartsProofs` | theorems about `Migration`, `LoginLimiter`, `LargeValues`, `KeyAnalyzer`, and of the tree in `Parts` | `Parts`, `BTreeProofs` |
| `MCEngine`, `MCBufferPool`, `MCReplication`, `MCExplorer`, `MCBTree`, `MCParts` | instances for TLC | |

### KVOps and KVStore

A request is `[ops, conds]`: Put and Delete have one operation and no condition;
PutIf, PutIfAbsent, DeleteIf carry one condition; BatchWriteIf carries several
of both. `Holds` is `checkConditionLocked` (absent, present, equal to a value).
A delete writes `None`.

`KVStore` is the abstract specification: `db` is the map a restart would come
back with, `view` what readers see. A commit makes all operations of a request
durable in one step and closes the view; the acknowledgement opens it on exactly
`db`. Checkpoints, halts, stops and starts leave `db` alone.

### Engine

| state | code |
|---|---|
| `pc`, `task` | how far the goroutine that holds `Engine.mu` has got, and in which call |
| `cur`, `pos`, `oldRid`, `newRid` | the operations of the record being applied; `applyPutInMemory`'s locals |
| `currentLSN`, `walOpen`, `wal`, `bak` | `WAL.currentLSN`, `WAL.file`, the log and its archived generation |
| `active`, `reclaim`, `failed` | `Engine.activeDataPage`, `.reclaim`, `.failed` |
| `base`, `replayPos`, `highest` | `recoverFromWAL`'s locals |
| `cache`, `dirty`, `disk`, `numData` | newest version of each page, pages not yet on disk, the data file, its size |
| `hist` | history variable: the map after every operation the log holds |

| action | code |
|---|---|
| `Log`, `LogFails` | the write calls up to the return of `WAL.Write`: halted check, conditions, record, fsync |
| `InsertTuple`, `IndexKey`, `FreeOld` | `applyPutInMemory`, page by page |
| `DeleteAbsent`, `DeleteTuple`, `Unindex` | `applyDeleteInMemory` |
| `ApplyFails` | `Engine.halt` after an operation that failed part way |
| `StartFlush`, `FlushAll`, `FlushPage`, `FlushFails` | `updateMeta` and `FlushAll` in Checkpoint, CreateSnapshot and Close |
| `RemoveArchive`, `RotateLog`, `RotateFails` | `WAL.Checkpoint` |
| `Evict` | the buffer pool writes a dirty page to make room |
| `Crash`, `CrashInWrite` | the process dies |
| `Start`, `SkipRecord`, `ReplayRecord`, `ReplayEnds`, `ReplayFails` | `NewEngine` and `recoverFromWAL` |

Abstractions. The index is its root leaf, and `BTree` models the tree. A tuple takes
one slot. A large value is one tuple, and `LargeValues` models its chain. A page written is a
page on disk, because `DiskManager.WritePage` and `WAL.Write` fsync. Readers hold
the shared lock and change nothing, so what they can see is `View`, a function of
the state. A cursor keeps that lock until it is closed, so to the engine a scan is
one read.

The constant `Faults` names which hazards of the environment a run allows:
`steal` (a dirty page is evicted), `tornflush` (death between two page writes of
one flush), `torn` (death inside a log write), `ioerr`, `applyerr`, `freeerr`,
`replayerr` (something returns an error) and `closehalted` (a halted engine is
closed or checkpointed). Crashes between steps are always allowed. With `ioerr` alone a
failing `FlushAll` fails at its first page; with `tornflush` too (as in `engine_faults`) it can stop,
by a crash or by an error, after any of them. A log whose broken end reads as a header of
zeros ends `Replay` (`recovery.go:36`) but is an error of `findHighestLSN` (`wal.go:170`), so the
engine does not start and nothing changes: there is no step for it.

### BufferPool

Goroutines fetch, change, unpin and flush pages. Only `FetchPage` has a window:
the lookup under the shared lock fails, the lock is given up, taken
exclusively, and the page looked up again; `want` is a goroutine in that window.
Everything else is one critical section and one action. A page's content is the
number of changes made to it, so that losing one shows.

`findVictim`'s loop is stated in closed form: step `i` of the sweep visits frame
`At(i)`, `Takes(i)` says it stops there, `Victim(i)` that it stops there first.
`Visit` is one turn of the loop and `Sweep` the whole of it, as the code computes it; `SweepAgrees` says
that both are the same in every reachable state.

### ReplicatedStore and Replication

`ReplicatedStore` says that a follower shows states of the leader, one after the
other, never goes back, and comes back from a restart where it was.

| state | code |
|---|---|
| `lpc`, `log`, `published` | how far the holder of the leader's `Engine.mu` is; its records; the last one broadcast |
| `gens`, `walGen`, `bakGen` | the log files: what each holds, which is the active log and which the archive |
| `subs` | `Broadcaster.subscribers` |
| `acks` | `LeaderServer.acks` |
| `phase`, `from`, `handle`, `sent` | where `StreamWAL` is: reading the archive, the active log, between file and channel, live, returned; the request's `FromLsn`; the open file; `maxReplayedLSN`, then `lastSentLSN` |
| `chan`, `net` | the subscriber's channel; records gRPC has taken and the follower has not |
| `old` | an earlier handler of the same follower has not returned yet |
| `fpc`, `applied` | the follower's loop; `lastAppliedLSN` |
| `flsn`, `mem`, `disk`, `tail` | the follower's engine: its log's LSN, its map, the map on disk, the operations logged since |
| `hist` | history variable: the leader's map after every record |

| action | code |
|---|---|
| `LeaderWrite`, `OnCommit` | a write call: the log, then `Engine.mu` held up to the broadcast |
| `RemoveArchive`, `RenameLog`, `CreateLog` | `WAL.Checkpoint`, file by file |
| `LeaderHalts`, `LeaderCrash`, `LeaderStart` | `Engine.halt` or a failed rotation; the process dies; `OpenWAL` |
| `LeaderSkips` | `WAL.Write` takes an LSN and fails, and the halted engine is closed: the LSN is stamped on the data file, and no record has it (`Hole`) |
| `Connect` | `SyncLoop` up to the stream, and `Subscribe` in `StreamWAL` |
| `OpenFile`, `SendFromFile`, `EndOfFile`, `GoLive` | the two calls of `wal.Replay` and what follows |
| `SendLive`, `EndStream` | the live loop: a record, a closed channel |
| `OldHandlerReturns` | the deferred unsubscribe of a handler whose follower has gone |
| `Receive`, `Ignore`, `RejectGap`, `StreamEnds`, `ConnectionBreaks` | `SyncLoop`'s loop and its returns |
| `FollowerCheckpoint`, `FollowerCrash`, `FollowerStart` | checkpoints, death and recovery of the follower |

A record is its LSN wherever it travels, since nothing changes it. A handler
reads an open file, and a rename or removal does not change what it reads:
generation `g` holds the records between `gens[g]` and `gens[g+1]`, the last one
whatever has been logged since. A channel is open exactly as long as
`subscribers` leads to it, because whoever removes it closes it under the same
lock; so `Open` is a function of `subs`, and `<<f, "old">>` is the channel of an
earlier handler.

Abstractions. A follower's engine is its durable map, what it has logged since,
and its LSN; `Engine` has the detail. The leader's records all survive its
crash, so what `Engine` shows about torn logs is not repeated here. Requests are
unconditional, since conditions are decided before a record exists. A
follower whose engine halts is left out.

`Faults` again names what a run allows: `break`, `crash`, `leader`, `halt`, `skip`, at
most `MaxFaults` of them.

### BTree

A node is a leaf `[rids, next]` or a router `[child0, entries]`; pages are numbered as
they are allocated. Every write holds the tree's lock for the whole call, so a call
is one action, `Insert` or `Delete`. `Inserted` folds `InsertIntoParent` over the path from
the leaf up; an insertion that runs out of pages halfway leaves what it has done, and
its key in `doubt`. `Deleted` is `handleLeafUnderflow`: borrow from the left sibling, else
merge with it, else the same with the next leaf. A merge removes the separator that equals
the first key of the right leaf. When there is none, because that key was deleted
before, nothing is removed: `missed` remembers it, and the properties stop there
([findings](#findings), 4).

`Find` and `Scanned` are Search and the cursor: one leaf after another, in the first from the
lower end of the range, in each up to the first key beyond the upper end. A behaviour starts
from one of the trees that the calls in `Loads` build (`Loaded`), by the same operators
(`AfterInsert`, `AfterDelete`) as the calls that follow. `BTreeAssumption` asks for at least 4 entries
in a leaf and 3 in a router; the code has 200 of each. `Deletable` is the guard of the calls made: a key that
is there, and does not empty a leaf, which leaves of the code's sizes never come to; the code has no such
guard, and returns `ErrKeyNotFound` for other keys.

When an insertion ran out of pages, the right half of a leaf or router may be known to no router, and
only to the chain. A scan from a key of that half begins at the left half and yields
what it finds from there, so after a failure `ScanExact` speaks of scans from the lowest key.

### LargeValues

`heap` is the tuple in every slot, `leaf` the index. A call holds the engine's lock and is
one action; `PutFails`, `IndexFails`, `PutLeaks`, `DeleteFails` and `DeleteLeaks` are the
places where an I/O error leaves a call. `freeTuple` returns nothing when it cannot fetch its page
(`engine_space.go:121`), so whatever is freed, some of it may stay in use:

* `PutFails`: a chunk or the manifest cannot be inserted. The chunks before it are freed, or some of them are.
* `IndexFails`: the index does not take the value, which stays where it was written; or it took it in a
  split that stops halfway, so that lookups may miss other keys (`hidden`) and the old value stays.
* `PutLeaks`, `DeleteLeaks`: the call is acknowledged, and what it replaced is not all freed.
* `DeleteFails`: the value is freed, all or part, before the index fails to forget the key. The delete is
  not acknowledged, and `acked` stays.

What stays behind is in `orphans`. A call that fails halts the engine, which still reads: `ChainsExact` says that it
shows what was acknowledged but for the key of that call (`undecided`) and the hidden ones. What a restart makes
of a halted engine's log is `Engine`'s. `ChainOf` is `walkChain` with the manifest's checks.

### Migration

Files are records and names: the database, its log, the two backups, the temporary
database and its log. Each rename and each record copied is an action of its own, and `Stop` is a crash or a reported
error at any step. The next `Open` starts from the files that are there. Of the errors the code drops, those
of the scan (`ScanSome`: a tuple, or the rest of the tree), of the log (`LogSome`: `os.Stat` and `wal.Replay`, so that any part of
its records may be missing), and of the renames of the log (`BackupWAL`) and of the new log (`InstallWAL`) are
alternatives of their steps; `logErrors` remembers the first and the second of the three about logs. Those of `os.Remove`
are left out: a backup that is left is replaced by the rename that follows, a temporary database would be opened and
filled up.

### LoginLimiter

`Allow`, the password check and `RecordFailure` are three steps of a request; requests of
one address overlap. `failures` is the history of all of them; the times the limiter has on record are
kept as positions in it (`attempts`), as times alone would not tell two failures of one tick apart.

### KeyCodec and KeyAnalyzer

A key of 64 bits is a prefix of 8, a user's hash of 28 and an item's hash of 28. `format.ts`
builds keys with shifts, `key-decoder.ts` takes them apart with shifts and masks, the
analyzer's slicer cuts a string of binary digits, and the scans of partitions and of
users' collections compute first and last keys. The widths are constants, so all of it is
arithmetic, and the theorems hold for 2^8 and 2^28 as for the small numbers of the runs.

### StudioServer, StudioData, Explorer

`StudioServer` states the answers of the handlers as functions of `db`, the map the engine
stores: a page of a scan, a chunk of a search (which ends at the limit of hits, of keys
looked at, or of the range), the indexed search that is asked first, counts, put with
`createOnly`, delete. A value is what the Studio can tell of it: no match of the query, a
match the inverted index knows, a match it does not know.

| state of `StudioData` | code |
|---|---|
| `db`, `writes` | the store; how often it was written (bounded) |
| `calls` | requests under way: slots with what was asked, what the caller closed over, and the answer |
| `records`, `hasMore`, `nextKey`, `active` | the list, `nextKey`, `activePartition` |
| `loading`, `loadingMore`, `error` | spinners and `error` |
| `stats`, `statsError`, `user` | counts by partition, whether somebody is signed in |
| `from`, `upto`, `clean`, `touched` | history: the range the list is about, whether its pages belong together, keys written since |

A request is sent (`Ask...`), served at one moment (`ServeRead`, `ServeWrite`, `ServeCascade`) or
lost (`Lose`, also after a write was made), and delivered: `DeliverPartition`, `DeliverMore`,
`DeliverRefresh` (which goes on with counts), `DeliverCounts`, `DeliverTick`, `DeliverWrite`
(which goes on with a refresh), `DeliverRead`. `OtherWrite` is another client.

`Explorer` adds `RecordsView` and the page: `mode`, `results`, `meta` and `busy` of a search, the
partition and the prefix of the search bar, the selection, the two confirmations, and the
effect that loads a partition when the first counts arrive (`FirstCounts`). Each of its
actions is a click together with the hook's request, or a delivery together with what the
handler that awaited it does.

### RecordFields and RecordForms

`RecordFields` is the list of properties in New Record and the object built from it.
`RecordForms` is the two dialogs with their requests. New Record looks its key up and
then posts with `createOnly`; it cannot be closed while it does. The edit panel can: a
request that comes back later finds another panel, or none. An answer that is "ok" closes
whichever panel is open (`page.tsx:163`), and `update` puts whatever is there now. A text is
known by how it starts, whether it ends accordingly, whether JSON.parse takes it.

### ApiTokens, UserContext, PartitionNames, Listing

* `ApiTokens`: `Create` puts the record and then adds to the index; `Delete` removes from the
  index and then from the engine, whose failure is not undone; after a crash the index is any part of what is
  stored, since `NewTokenStore` drops the error of `Reload`, and starts with none, and a record that cannot be decoded is passed
  over. `TakeRecord` and `ReturnRecord` are DeleteKey, PutKey and the deletion of a user, which nothing
  keeps from the partition of the tokens: the record goes, or is written back, and the index hears
  nothing of it. Copies of a record at other keys are not followed. Above it the dialog, whose answers
  act on it whether it is open or not.
* `UserContext`: a load per user shown, one scan per populated partition, answers in any
  order; the last load to end is shown.
* `PartitionNames`: the rules that name a record, the scores that name a sample, rounds of
  samples in batches that new counts abort, the labels of the list. New counts of the same partitions
  abort and start over too. A label is a tuple of a name and numbers; the page shows the text they make (`Users · 03`), and
  that a name may read like such a text is left out.
* `Listing`: filter by status, table, gallery and split view, pages, panes.

## The runs

| run | configuration | checks |
|---|---|---|
| `engine_kv` | 2 keys, 2 values, 8 requests, 3 LSNs, 2 crashes, failing writes and operations | `Visible`, `SpaceExact`, `ImplementsKVStore` |
| `engine_faults` | 1 key, 2 requests, 2 LSNs, 2 crashes, all faults at once | `TypeOK`, `LogOrdered`, `FreshLSN`, `CheckpointMonotone` |
| `engine_live` | 1 key, fair scheduler, all errors | `LockReleased` |
| `engine_torn_flush`, `engine_torn_tail` | 1 key and one fault each | `Visible`, violated: see [findings](#findings) |
| `buffer_pool` | 2 goroutines, 3 pages, 2 frames, 2 changes per page | `TypeOK`, `TableConsistent`, `PinExact`, `HeldStays`, `NoLostUpdate`, `SweepAgrees`, `SecondChance` |
| `replication_restart` | 1 follower, puts and deletes, 3 records, 2 rotations, a fault of any kind, a skipped LSN too | `TypeOK`, `NumberingAligned`, `StreamOrdered`, `ImplementsReplicatedStore` |
| `replication_catchup` | 2 followers with one replica id, 2 batches, 2 faults (no follower crash), fair scheduler | `NoFalseGap`, `NoSilentHole`, `Converges` |
| `replication_lost_batch` | 1 follower that crashes | `FollowerPrefix`, violated |
| `studio_explorer` | 4 keys in 2 partitions and of 2 users, pages of 1, chunks of 2 keys or 1 hit, 2 requests under way, 1 write, 9 kinds of sessions | `SpinnersSettle`, `PagedComplete`, `BannerHonest`, `SearchCovers` |
| `parts` | one part at a time of those that stand alone | 13 invariants and `CreateNeverOverwrites` |
| `index_stale_separator` | 6 keys, leaves of 4, 5 calls | `DeletedIsGone`, violated |

`Parts` has eleven modules that share nothing: it extends `BTree`, so that what `BTreeProofs` proves is about its tree as it stands, and
instantiates the other ten. `part` names the one a behaviour uses; the others stay at their initial state. Its
states are the sum of theirs, and each property of an instance says `part = ... =>` what its
module states. All that the modules need to know is a constant of `Parts`, so that the theorems hold for any of
them; `MCParts` gives the constants values, and lets the parts that are not in use begin in one state.

What they show:

* `engine_kv`: as long as a flush is not cut in two, no dirty page is evicted
  and no record is torn, the engine implements the abstract store. Crashes at
  every step of a write, of a rotation and of a recovery, failed fsyncs, halted
  engines and repeated replays change nothing a client can see: `Visible` says
  readers see the log, `ImplementsKVStore` that each request becomes durable
  and visible at once, `SpaceExact` that no tuple leaks or is shared.
* `engine_faults`: LSNs stay ordered and fresh and the covered LSN never goes
  back even when everything fails that can.
* `engine_live`: a write, a checkpoint or a recovery ends, whatever fails in it.
* `buffer_pool`: the pool is correct for callers that unpin what they fetch and
  mark what they change.
* `replication_restart`: what a follower shows is always a state of the leader,
  and the next one it shows is the next state, across broken streams, rotations
  that outrun it, full channels and restarts of either side. `NumberingAligned`
  is why the restart works: the follower's own log counts as the leader's does.
* `replication_catchup`: subscribing before reading leaves no gap between the
  files and the channel, an overflow or a takeover of the channel ends the stream
  instead of dropping records, and two followers that were given the same id
  (the default of `-replica-id` is the same for all) both catch up, although
  each closes the other's channel.
* `studio_explorer`: the pages of the list fit together although pages of an earlier list
  arrive late (`PagedComplete` holds of lists all of whose pages were asked for the list
  they extend), a search in chunks misses and repeats nothing, its banner counts what is
  below it, and every error path takes its spinner down.
* `parts`: a record dialog never replaces a record and is never left busy; the builder makes
  exactly what is in its fields; revoked tokens stay revoked unless their record is written back; records of users are not mixed;
  names belong to the partitions there are; the tree finds and scans exactly what was
  inserted, until a merge misses a separator or a split runs out of pages; chains are whole
  and leak nothing but what is listed; the upgrade destroys nothing, but for the log when it can
  neither be read nor renamed; failed logins are bounded
  even when they overlap.

### Bounds

`MaxLSN` bounds writes; 3 allow an overwrite after a checkpoint followed by
another write, and 2 allow two rotations with nothing left in either log, which
is where LSN allocation can go wrong. `MaxCrashes` is 2: the second crash can hit
the recovery from the first. `NumPages` and `NumSlots` make pages fill up, so
that `reclaim` is used and new pages are allocated. An engine that dies or fails
to close after it has allocated a page allocates another one during recovery, so
repeated failures use any number of pages: an insert that finds none waits in
`engine_kv`, which checks safety only, and fails in `engine_live`, as it would on a
full disk. In the buffer pool two
goroutines and two frames are enough for a race on one page, for a victim that
is dirty, and for running out of frames; three pages force evictions. Goroutines
are interchangeable, so the run uses symmetry.

In `Replication` a channel (1024 records in the code) and a stream hold 1 or 2, so
that both fill up with 2 or 3 records: one in the channel, the next one closes
it. `MaxGens` 3 gives two rotations: after one a follower finds the records it lacks
in the archive, after two they may be gone, and it must notice. One fault is a
restart or a lost connection at any point of that; where the state is smaller,
in `replication_catchup`, there are two.

In `MCExplorer` a page of one record and a chunk of one hit make every list and search of
4 keys go on; two requests under way are a race, one write falls between any two of their
steps. A session allows some of the user's actions, so that the nine together have every
action and each pair that interacts (paging with a choice of partition, search with a
range, a deletion with a lost answer, and so on) without their product.

In `MCParts`: keys of 4 prefixes, 4 users, 2 items; 2 fields; one record, two edit requests; 2
tokens, 2 requests, a crash, a record that another writer takes; 2 loads of users' records over 2 partitions; 3 partitions in
batches of 2, 2 rounds; lists of up to 5 rows with pages of 1 and 2; 12 keys in leaves of 4 and
routers of 3, from 4 trees of two and three levels, 3 calls; 6 slots for values of 0, 2 and
3 chunks, one error; 3 records to upgrade, 3 crashes or errors; 2 logins at a time, 2
attempts in a window of 2 ticks.

Deadlock is not checked in the Studio's runs, nor in that of the tree: sessions are bounded, and
a user may stop. Deadlock is not checked in the engine's runs either: a halted engine may really stop
until somebody kills it, and `MaxCrashes` bounds how often that happens.

### Fairness

`FairSpec` is weak fairness of `Continue`, the steps of the goroutine that holds
`Engine.mu`. None of them waits for another goroutine (the pool's lock is held for
one critical section at a time) and Go's scheduler is fair, so a step that stays
enabled is taken. Nothing is assumed of clients, of crashes or of restarts.

In `Replication` weak fairness is assumed of the holder of the leader's `Engine.mu`
(`OnCommit` and the rest of a rotation), of each stream's handler, of each
follower's loop, which calls `SyncLoop` again a second after it returned
(`cmd/server/main.go`), and of restarts (`docker-compose.yml` has `restart:
unless-stopped`). `Handler` and `SyncLoop` may be blocked, by a full stream and by an
empty one; each then waits for the other, which is why the two are separate. Writes
are not fair: `Converges` compares with what has been acknowledged.

The runs of the Studio and of the parts check safety and assume no fairness. What a
spinner waits for is an answer, and the browser does not promise one; `SpinnersSettle`,
`FormsSettle` and `DialogSettles` say instead that it is under way.

## Findings

Four runs show a behaviour of the code that its documents rule out, each as a history
of a few steps. In the first two the property is `Visible`: an engine that serves shows
every operation whose record reached the log.

1. `engine_torn_flush`: `FlushAll` writes the meta page, with the new
   `LastCheckpointLSN`, before the pages it covers. A crash in between skips
   records that were never applied to the file.
2. `engine_torn_tail`: `OpenWAL` appends after a torn record; what is appended
   is acknowledged, and not read at the next start.
3. `replication_lost_batch` (`FollowerPrefix`): a follower writes a replicated Put or
   Delete to its own log and applies a batch in memory only. After a crash the
   batch is gone, and the follower asks for records from the wrong place.
4. `index_stale_separator` (`DeletedIsGone`): a key is deleted that is the first of its leaf,
   then the leaf is merged. `tree_delete.go:98` and `:133` look for a separator that equals the
   leaf's first key, which is not the one there; the router keeps leading to the page
   that was merged away, whose entries are still on it. A key deleted or put through the one
   page is still what it was on the other.

`PROJECT.json` quotes the sentence each contradicts. Because of them `engine_kv`
allows no `tornflush` and no `torn`, `replication_restart` has no batches (it crashes
followers), `replication_catchup` no follower crash, and the properties of `BTree` end at
`missed`.

More behaviours of this kind can be had from the models by changing a configuration; no
run is kept for them.

* `Faults` with `steal` (`MCEngine`, `Visible`): a leaf evicted before the data page it points
  into makes replay insert a value into the slot the leaf already names, and then free that
  slot as the "old" tuple.
* `Faults` with `closehalted` or `replayerr` (`MCEngine`, `Visible`): Close and Checkpoint of a
  halted engine stamp the LSN of the record that could not be applied.
* Rotations during catch-up (`MCReplication` with `MaxGens` 3, `NoSilentHole`): the handler reads
  the archive, a checkpoint moves records from the active log into it, and the handler reads
  the new, empty log. The follower notices at the next commit, and not before.
* An LSN without a record (`MCReplication` with `skip` in `replication_catchup`, `NoFalseGap`, `Converges`): a write fails behind
  `currentLSN++`, the halted engine is closed, which stamps that LSN on the meta page, and the next record
  gets the one after it. A follower takes that for a gap, and asks again from the same place for ever, although the
  archive holds all there is; `leader.go:60-63` says that a follower behind by less than a checkpoint still catches up.
* Two ignored errors in one upgrade (`Migration`): the log cannot be read, so the new database is without its records, and
  cannot be renamed, so the new log replaces it (`migration.go:105`, `:140`, `:145`). `NothingDestroyed` excepts exactly this; `:64`
  says the migration "safely extracts all records".
* `OpensWhole` (`Migration`): a crash between the renames leaves no data file under the
  database's name; the next start makes an empty one and opens it. The records are in the
  backups, which is what `NothingDestroyed` says.
* `CascadeWipes` (`Explorer`): the deletion of a user scans a bounded number of keys and
  deletes one by one, so it can report success and leave records; `README.md` of the repository calls it
  atomic.
* `AllLoadedHonest` (`StudioData`): a refresh, after a write too, loads the first page of all
  keys while the partition chosen stays chosen, and a late `loadPartition` replaces the newer
  one's list; the list then says "(all loaded)" of another range.
* `ShownHonest` (`Listing`): a page number is kept when a shorter list arrives, so the page is
  empty while the bar claims its last rows.

Other things the models follow the code in: prefix 0 is not sent with a search
(`useStudioData.ts:129`); an indexed search is cut off at its limit and says `hasMore` is false
(`search_api.go:80`); a failed deletion of a token takes effect until the next restart and not
after it (`token_store.go:123`); a secret created while the dialog is closed is lost when it is
opened again; a key that is looked up moves the partition rail without loading the list.

## The proofs

`BufferPoolProofs` proves, for every finite set of goroutines and all numbers of
pages, frames and changes:

| theorem | says |
|---|---|
| `TypeCorrect` | `Spec => []TypeOK` |
| `TableIsConsistent` | `Spec => []TableConsistent` |
| `PinsAreExact` | `Spec => []PinExact` |
| `PinsProtect` | `Spec => []HeldStays` |
| `ChangesSurvive` | `Spec => []NoLostUpdate` |
| `SweepFindsVictim` | the sweep finds a frame unless all are pinned |
| `ChancesAreGiven` | `Spec => SecondChance` |
| `SweepsAgree` | `Spec => []SweepAgrees` |

The only assumption is `PoolAssumption`: the set of goroutines is finite, the
numbers are naturals with at least one frame, `NoPage` is no page and `NoFrame`
no frame.

The inductive invariant is the conjunction of the five properties and
`Allocated`: pages beyond the end of the file have never been changed, are in no
frame, wanted and held by nobody. It is needed for `NewPage`, which would
otherwise put a page into a second frame. No conjunct is inductive alone:
`HeldStays` needs `PinExact` (a frame with holders is not taken), `PinExact`
needs `TableConsistent` (no second frame holds the page), and `NoLostUpdate` needs
both (the frame that is flushed or evicted is the one holding the last
change). The proof treats each action in a lemma, and the four ways a frame
changes hands (hit, load, new page, failed load) in lemmas about `Install` and
`InstallFails` that the actions share.

`ChancesAreGiven` and `SweepsAgree` are about `findVictim` alone. `RoundVisitsAll` says that each of the two rounds
meets every frame; so a referenced page, which goes in the second round only, goes when the first has passed over all
the others. `Sweep` is a recursive function, and the library's induction theorems do not apply to it; what it computes is found in another
way. `Course` states what the loop holds after each turn, `CourseLoops` that this satisfies the loop's equation
(`PassesOn` and `StopsThere` are one turn each), and `LoopsUnique` that nothing else does: two functions that satisfy it
would differ first somewhere, and there the equation makes them equal.

`EngineProofs` proves, for every set of keys, values and requests, any number of
pages, slots, LSNs and crashes, and every set of faults, those of the findings
included:

| theorem | says |
|---|---|
| `TypeCorrect` | `Spec => []TypeOK` |
| `LogStaysOrdered` | `Spec => []LogOrdered` |
| `LoggedAboveCheckpoint` | `Spec => FreshLSN`, a step property |
| `CheckpointNeverGoesBack` | `Spec => CheckpointMonotone`, a step property |
| `CleanPagesOnDisk` | `Spec => []Synced`: a page that is not dirty is as it is on disk |

and, for the same constants under `PlainFaults` (`Faults` has no more than `ioerr`, `applyerr` and
`freeerr`):

| theorem | says | assuming |
|---|---|---|
| `ServesWhatIsLogged` | `Spec => []Visible` | `PlainFaults` |
| `NoTupleLost` | `Spec => []SpaceExact` | `PlainFaults` without `freeerr` |
| `EngineImplementsStore` | `Spec => ImplementsKVStore` | `PlainFaults` |

The assumptions on the other constants are those of `KVOps` (`None` is no value; a request has at
least one operation, on keys and values of the model), `EngineAssumption` (`Free` is no value, pages
and slots exist, the bounds are naturals) and `NoRIDAssumption` (`None`, a leaf without an entry, is no
RID). `PlainFaults` leaves out `steal`, `tornflush`, `torn`, `replayerr` and `closehalted`: with each of
them TLC finds the code losing or misplacing data (see the findings), so the three theorems do not
hold there. A tuple that `freeTuple` could not free is the one fault that loses space and no data.

The argument begins with two inductive invariants. `Inv` strengthens `TypeOK`:

* `Unused`: pages beyond the end of the file hold no tuple, in memory or on disk.
  `insertTuple` needs it to find a free slot in the page it has just allocated.
* `AtOperation`: the goroutine that applies a record is at one of its operations,
  and `oldRID` and `rid` are set where they are used.
* `Intact`, `ReadSoFar`: a record that is not torn has an LSN and operations, and
  recovery has passed no torn record. Without them replay could leave the log or
  find an empty batch.

`LSNInv`, which is inductive under `Inv`, orders the LSNs. `CoveredLSNs` says that
the covered LSN on disk is at most the one in memory, which is at most
`currentLSN`, and that every record that can be read has at most `currentLSN`. While
the process is down `currentLSN` is nothing, and the two covered LSNs are equal;
`Start` must then establish the order from the files alone, which it does because
`OpenLSN` takes the greater of what the logs and the meta page hold, and because
`LogOrdered` puts the archive below the log. `ReplayedLSNs` does the same for a
recovery: what it stamps into the meta page lies above what is there. The three
properties follow: a new record has `currentLSN + 1`, and a page write copies one of
the two covered LSNs.

The other theorems need four more, which together with those two make `Sound`:

* `Synced`: every page that is not in the dirty table is equal in memory and on disk. Without it a
  complete flush would not be known to leave the file as the cache is.
* `CtlInv`, about who does what. `Doing`: a halted engine has nobody in it. `Whole`: without torn writes
  every record of the log can be read. `Covered`: when pages are flushed or the log is replaced,
  the LSN of the meta page covers the whole log, and recovery has covered what lies behind it.
  `OfRecord`: the operations at hand are those of the last record (a client's) or of the one recovery is at.
* `LinkInv`, about the leaf and the tuples. `Linked`: no two keys share a tuple and each entry leads to a
  live one, except between the steps of `applyPutInMemory` and `applyDeleteInMemory`, where it says
  which tuple is without its entry and which entry without its tuple. `DiskLinked` says it of the file,
  which is only ever replaced as a whole. `Exact`: where frees do not fail, the only tuples without a
  key are those in between.
* `DataInv`, about the map of all logged operations (`hist`). `Durable`: a key that no record above the
  checkpoint touches has its value on disk, and any other has the value of the last operation on it in the
  newest record. `Shown`: a key in memory has its value unless an operation on it is still to come
  (`Todo`): of the record at hand or, in a recovery, of a later one.

`Visible` alone says nothing while a record is being applied or replayed; `Todo` is what takes a
recovery from pages that are older than the log, and half of a batch, back to it. That replay may
apply a record whose effect is on disk already is harmless because `Durable` asks only for the newest
record. `SpaceExact` is `Linked` and `Exact` between operations. For the refinement, `Recovered = hist`
follows from `Durable`, and `KVStep` maps each action: the write of a record to the abstract put, an acknowledgement, a
halt, a crash and a start to theirs, and every other step to a stutter.

`ReplicationProofs` proves, for any number of followers and names, any requests, capacities,
log lengths and faults:

| theorem | says | assuming |
|---|---|---|
| `TypeCorrect` | `Spec => []TypeOK` | |
| `StreamsStayOrdered` | `Spec => []StreamOrdered` | |
| `FollowersShowHistory` | `Spec => []FollowerPrefix` | `Recoverable` |
| `Refines` | `Spec => ImplementsReplicatedStore` | `Recoverable` |
| `NumbersAgree` | `Spec => []NumberingAligned` | no batches, `OwnNames` |
| `NoGapSeen` | `Spec => []NoFalseGap` | `MaxGens = 1`, no `skip` |
| `NoHole` | `Spec => []NoSilentHole` | `MaxGens = 1`, no `skip` |

Besides `ReplicationAssumption` and those of `KVOps` there are four conditions. Without each of them
the code does not have the property, and TLC shows it: `Recoverable` says that no request is a
batch or no follower crashes (finding 3: a batch is not in the follower's log); `OwnNames` that no two
followers use one `-replica-id` (what is acknowledged under a shared name says nothing of the other
follower); `MaxGens = 1` that the leader keeps its log in one file (a rotation may take away what a
handler has yet to read); `"skip" \notin Faults` that every LSN has a record. The theorems without the last two
hold for any number of rotations and of skipped LSNs.

There are four inductive invariants, each over `TypeInv`, which is `TypeOK` and `Counted`: only a
logged record is committed, a follower's log is no longer than what it has applied, and a stream has a
follower.

* `OrderInv` adds `Sorted`, which is `StreamOrdered` with the first record bounded too.
* `ShowInv` adds `Recorded` (the history is what the log's records make of the empty map) and
  `Shows`: a follower's map is the history's at `applied`, and what it would read back from its disk
  and log is the history's at its own LSN. A checkpoint moves operations from one to the other and a record applied
  adds to the second; that this leaves what is read back right is `ApplyConcat` of
  `KVOpsProofs`. `Refines` follows: each step advances `at` by the record applied, or stutters.
* `Told`, under `ShowInv`: no acknowledgement is above the follower's LSN.
* `WholeInv` follows a record from the log to the follower. `NetWhole`: what is on the stream is a run of successive
  records that begins at most one above `applied` and ends at `sent`. `ChanWhole`: what is in
  the channel is such a run, and ends at the last commit as long as the channel is open. `Joined`: once
  the file is read, the run in the channel begins at most one above `sent`, and an empty open channel
  means that `sent` has everything. It is the step that leaves the file (`EndOfFileWhole`) that needs
  the subscription to be the older of the two: whatever the channel holds is in the log that was
  read to its end. A full channel is closed, after which `ChanWhole` asks nothing of its end.

`KVOpsProofs` holds what the engine's and the replication's proofs share: a set of numbers has a
least and a bounded one a greatest member; the last operation on a key decides its value; and
`ApplyConcat`, that the operations of two records do what those of one would.

For the keys `ServerPartsProofs` proves, for all numbers of prefixes, users and items (each is at
least one), so for the widths of the code:

| theorem | says |
|---|---|
| `RoundTripHolds` | `RoundTrip`: decoding undoes building, and every key is built from its parts |
| `ScansExactHolds` | `ScansExact`: the ranges of a partition and of a user's collection hold their keys and no others |
| `KeysExactHolds` | `KeysExact`, the two together, which `KeysFit` of `Parts` states |
| `AnatomyHolds` | `PartsSpec => []AnatomyAgrees` |

All of it rests on one lemma about division with remainder: `q * d + r` with `r` below
`d` has quotient `q` and remainder `r`, used once for the item and once for the user.

`ServerPartsProofs` and `StudioPartsProofs` are about `Parts`, and so about each of the modules in
it, whatever the values of the constants. `PartsAssumption` is what they need of them, module by module: sets that are
finite or of numbers, bounds that are naturals, and that what stands for "nothing", "free" or "idle" is none of the
values it is told apart from.

| theorem | says `PartsSpec =>` |
|---|---|
| `UpgradeKeepsRecords` | `[]NothingDestroyed` |
| `KeysAlwaysFit` | `[]KeysFit` |
| `LoginsAreLimited` | `[]FailuresBounded` |
| `ChainsReadBack` | `[]ChainsExact` |
| `TreeAlwaysFinds` | `[]TreeFinds` |
| `TreeAlwaysScans` | `[]TreeScans` |
| `NeverOverwrites` | `CreateNeverOverwrites`, a step property |
| `DialogsGiveBack` | `[]DialogsSettle` |
| `TokensHaveRecords` | `[]TokensBacked` |
| `PanelStaysWhole` | `[]PanelWhole` |
| `NamesAreRight` | `[]NamesRight` |
| `PillsAlwaysShow` | `[]PillsShowCounted` |
| `ComputedHolds` | `[]ComputedExact` |

*The upgrade.* `NothingDestroyed` is not inductive: that the rename of the temporary file loses nothing
depends on what was copied into it, that on what was collected, and that on whether the log was read (`HasRead`). `UpgradeInv` says for each step which of two
shapes the files have, `Intact` (as at first) or `Saved` (the old data file in its backup, the log's records in the
log, in its backup or in the new database, unless both of the log's errors have met), and what the map and the temporary database
hold by then. A crash leads back to `closed`, where both shapes are possible: the next `Open`
tells them apart by the format of the file it finds.

*The login limiter.* `LoginInv` adds to the bound that no position the limiter holds is beyond the failures there
are and that it holds all the recent ones. Only `Arrive` can raise the bounded sum, and it counts every recent
failure when it does; a failure that is recorded moves a request from one term to the other. Time only takes
positions out of `Recent`, and a set without them is no larger.

*Chains of large values.* `Lies(h, v, p)` says that value `v` is in the slots `p` of the heap, piece by piece, and
the central lemma, `WalkFinds`, that `walkChain`, a loop, then finds exactly those slots: its path is a recursive
function, of which it is shown that it exists and that there is no other (two differ at a least step). From there
on the proof has only `Lies`. It finds nothing when one of them has been freed (`BrokenChain`), so a chain that is left
in pieces is read as an error and holds nothing. In `ChainState` each key leads to where its acknowledged value
lies or, on a halted engine, to what the call that failed was to leave (`Held`), no two keys share a slot, and
nothing is in the heap but this and the `orphans`. `CallReplaces` is
one lemma for every call that takes effect: it puts something into free slots, frees or loses
what the key had, and touches nothing else (`OthersHeld`). `LeftBehindKeeps` is the one for calls that leave tuples in free
slots and the index as it was: a failed put (what its undo did not free) and a value that the index does not take. A
delete that fails in the index leaves its key to a value that is still whole or to one that is broken: `DeleteFailsKeeps`.

*The tree.* `BTreeProofs` is about `BTree` by itself, for any keys that are naturals, any places of records, sizes of
nodes of at least 4 and 3, loads and numbers of calls:

| theorem | says |
|---|---|
| `InsertKeeps` | from a tree that holds `W`, `Inserted` gives one that holds `W` and the record, or (without pages) one in which only its key is in doubt |
| `DeleteKeeps` | `Deleted` gives one that holds `W` without the key, unless a merge missed its separator |
| `FindIs` | `Find` returns what the tree holds |
| `TreeStaysWhole` | `Spec => []Inv` |

`TreeFinds` and `TreeScans` follow from `Inv` (`FindKept`, `ScanKept`). Neither is inductive: pages do not say which keys they are
for, and a lookup that is right now says nothing of the one after the next split. `Inv` says that there is a ghost for the
pages: which are in use, how far each is above the leaves, from which key to which it is for, and how far it is from the end of
the chain. `Shape` is what this means for the pages: the intervals of a level are apart (`Apart`), those of the children make up that
of their router and begin at its keys (`Routed`), and each leaf is followed by the one for the keys behind
its own (`Chained`). `Filed` says that each record is in the leaf that is for its key, and that no leaf but the root is empty.

A split is many steps of one call, and between them the tree is not one: the right half is on the chain and no router
leads to it. The ghost names the two halves; `Known` is the interval that the routers take the left one for, and
`Climbing` says that what is still to be routed is exactly the separator in hand. `UpStep` is one router on the way up: it takes
the right half, or is split itself, or there is no page. The last case is why a failed insertion
leaves a tree that finds and scans everything else: `Shape` with a split pending is what `Inv` keeps.
A borrowing moves the bound between two neighbours together with the key of their parent
(`ShiftKeeps`); a merge gives the interval of one to the other (`MergeKeeps`). Both are under one router, as the left
neighbour always is; when the next leaf of the chain is not, the code finds no separator and the call counts as
`missed`. Each recursion (the path, the way up, the chain, the load) is a recursive function whose equation is proved
first, and used then in an induction on levels, positions or calls.

*Tokens.* `TokensBacked` is not inductive: `Create` puts its record into the engine and then into the index,
and a revocation between the two would be undone by the second. `Unrevoked` is why there is none: the id was drawn by
that `Create` alone, so no answer to the dialog, no list and no request to delete holds it before it is
in the index. `Known` (what the clients hold has been drawn) makes a new id one that nobody
holds. `OneCall` is the step of a request that is not halfway afterwards, which all steps but
the draw and those of other writers share; a restart answers every request, so nothing is halfway after it.

*Dialogs.* `CreateNeverOverwrites` needs no invariant: only the server's step changes the record for New Record,
and it asks whether there is one (`createOnly`). That no dialog is left busy follows from `FormsInv`, whose `Owned`
says that a request marked as the open panel's own is under way only while a panel is open, so that its answer finds
the panel to give back.

*The panel of a user.* `PanelInv`: what is shown is of one owner (`OneOwner`), and a place that waits, or a panel that
is not ready, has a load under way (`Expected`).

*Names.* `NamesInv`: a round of samples that is not aborted names only partitions of the counts there are.
`ToldApartDistinct` is about any labels without prefixes in them: the two that were equal now differ by theirs, and
one that got its prefix differs from one without.

*Pills.* A pill counts the records whose normalised status it is; clicking it filters by how any status reads.
`MatchingCounts`: the filter, a loop, keeps as many records as there are positions that match, by induction on how
far it has come. The counted positions are among those. `ListingAssumption` says only that the lists are sequences.

*What is computed from lists.* The filter, the builder of fields, and the inference of names with its sums are loops,
written as recursive functions. That such a function has a value after each turn is proved once, for all of them:
`Turn` says what a turn of each does, and `LoopExists` builds the function turn by turn, by the least turn it could not reach.
After that each loop has an invariant of its own. The builder's is `ObjectTo`: after `i` fields there is an object exactly
when the first `i` are sound, and it has what they say; that every list of fields is made of fields is
`FieldsInv`. The inference's is `Kept`: the scores after `i` records are the labels met so far, each with the sum, the
number and the largest of its confidences, and of two scores the earlier one's label was met first. Hence a
stable sort by score puts the same label first as the definition `Favourite`, which knows no order of evaluation
(`BestIsFavourite`). `NamedByEvidence` says so of samples of any length; `ComputedExact` of those up to three records.
What it assumes is that "not built" is no object and "no name" none of the names (`FieldsAssumption`, `NamesAssumption`).

`ExplorerProofs` is about `Explorer` over the hook and the server's answers, for any keys, users and limits, any first
contents of the database, any number of requests under way and any set of things a session may do:

| theorem | says `Spec =>` |
|---|---|
| `SpinnersAlwaysSettle` | `[]SpinnersSettle` |
| `PagesFitTogether` | `[]PagedComplete` |
| `BannerAlwaysHonest` | `[]BannerHonest` |
| `SearchMissesNothing` | `[]SearchCovers` |
| `InvariantHolds` | `[]IInv`, from which the four follow |

It assumes that the limits of pages, matches and inspected keys are at least one, that partition 1 exists (the one the
page starts with), that the ranges typed in are ranges of keys, and that what stands for "no record", "no list", "unknown"
and so on is none of the values it is told apart from (`ServerAssumption`, `DataAssumption`, `ExplorerAssumption`).

*What the server answers.* `InOrder` of a finite set of numbers lists each of them once, in order: `Nth` exists since the
number of smaller members is one-to-one from the set to `0..n-1`. From that a page (`ScanIs`) tells of every
stored key from its start to where it ends (`ListOf`), and a chunk of a search shows exactly the hits of the keys
it inspected (`HitsOf`), whichever of the two limits stopped it.

*Why the properties are not inductive.* An answer is right when it is made and is applied later. `AnsOK` says of each
answer under way what `ListOf` or `HitsOf` says of it, but for the keys written since (`since`); `ListAges` and
`HitsAge` are that a write makes such a statement older and not wrong. `MoreOK` is what an extension needs: there is
one loadMore at a time, and as long as no other list took the place of the one it was asked for, it starts where that ends.
`FormsOK` is the same of a search that continues: as long as the page is in search mode, the banner is still the one the chunk was
asked from. That one request at a time is due to `loadingMore` and `busy`, which is why the spinners are part
of the same invariant. `ListGrows` and `HitsGrow` put the two pieces together.

*The steps.* Most requests concern neither loadMore nor a form (`Watched`): `Quiet` says that a step leaves those that do
alone, but for what was written, and `QuietKeeps` that then nothing of this is disturbed. What remains is one lemma for
each kind of step: `AsksKeep`, `FormsKeep`, `MoreKeeps`, `LooksKeep` for the user, `ServeKeeps` and `OtherKeeps` for
the server and other clients, `PagesKeep`, `CountsKeep`, `WritesKeep`, `AnswersKeep`, `SearchKeeps` and `MoreEnds` for what
comes back.

Every invariant and step property of the passing runs is stated by a theorem.
`CascadeWipes` of `Explorer` does not hold (see [findings](#findings) and the hazards). Liveness under fairness
(`LockReleased`, `Converges`) is outside the prover's reach.

## Not modelled

The byte layout of pages and records, checksums and their arithmetic (a torn
record is recognised as torn); parsing of RESP, gRPC and HTTP; metrics; TLS;
configuration. The slotted page's offsets and compaction. Secondary indexes and their postings.
`internal/cache`, which nothing imports, and the structures of `internal/dsa`, which are
sequential and covered by unit tests. Accounts and sessions, and the command line tools.

Of the modelled parts: errors of page reads inside the tree, among them those that `engine_scan.go:129` and `:140`
drop when they look for one more record, so that a list says it is complete; the epoch a cursor compares
(no write runs while the engine's lock is held); the moments between the engine calls of a user's deletion, which is one scan and then one
`Delete` per key (`user_delete_api.go:37-54`) and one step of `StudioData`; records deleted in the log of a v0 database;
the wording of errors; how values are shown; switching from the explorer to another view,
which mounts it anew; the Studio's overview and operations views, which show counters; the
older console in `internal/web/static`. `TypeOK` of `Explorer`, `RecordForms`, `ApiTokens` and `Listing`
states the types of their variables for the reader; no run lists it.

`PROJECT.json` lists every component with its reason.

## Plan

Done: `KVOps`, `KVStore`, `Engine` and `EngineProofs`; `BufferPool` and its proofs;
`ReplicatedStore`, `Replication` and its proofs; `BTree` and its proofs; `LargeValues`, `Migration`, `LoginLimiter` and
their proofs; the Studio, with the proofs about keys, the explorer, dialogs, tokens, the panel of a user and names.

Left, in this order:

1. A proof, for `Replication` with rotations, that a gap is only reported to a follower whose
   records have left the two files.
2. `SlottedPage`: offsets, compaction and slot reuse against a map from slots to tuples.
3. `SecondaryIndex`: postings against the primary records, over `Engine`'s actions.
4. Accounts and sessions; backup and restore.
