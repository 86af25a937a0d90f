# nmea2s3: verification project

TLA+ models of `nmea2s3`, the TLC configurations that check them on small instances, and TLAPS
proofs of what holds for every instance. Source paths are relative to the repository (`src/` here).

nmea2s3 captures NMEA 2000 frames from a CAN bus on a boat and archives them in S3. Everything
downstream (Postgres, exports) can be rebuilt from the archive; a frame the logger loses exists
nowhere. The logger is therefore the core of the program and of this project.

## Inventory

| component | state | operations | interacts with | what is hard | what makes it correct |
|---|---|---|---|---|---|
| RAM buffer (`logger.py` `_append`, `_trim`, `_take_buffer`, `_return_buffer`) | deque, byte counter, `dropped` | append, trim, take, put back | CAN callback, flush | a flush holds a batch across awaits while frames arrive and are trimmed | every frame in one place, counter exact, order, memory bound, every drop counted |
| Disk spool (`_write_spool`, `_evict_spool_for`, `_fsync_dir`) | files in `DISK_DIR`, `.tmp` files, what of them is durable | write, evict, fsync | flush (caller), uploader (same files) | runs on a thread beside the uploader; partial failure; power cut | True means durable; nothing vanishes; budget; evictions counted |
| Uploader (`_upload_spool`, `_upload_objects`) | the pass in progress | read, PUT, unlink | spool, S3 | lost answers, files evicted under it, cancelled PUTs that go on | delete only what is stored; the spool drains |
| Logger life cycle (`start`, `stop`, `_run`, systemd unit) | tasks, their awaits | start, cancel, flush, last pass, exit, restart | all of the above | cancellation at any await; threads outlive their coroutine | a stop saves the buffer, ends, and loses nothing placed |
| CAN listener (`_can_listener`, `_drain`) | socket, back-off delay | open, drain, reopen | RAM buffer | the interface goes while frames arrive | every drained frame enters the buffer once; the listener always reopens |
| Record and key format (`ndjson.py`) | none | serialise, name, group by day | spool, uploader, importer, exporter | names must be injective and sort in time | same rows, same key |
| Postgres session (`pg/session.py`) | connection, advisory lock | open, call, reconnect | update | the server session outlives the link, with the lock and a statement | one writer per table; only the lost session is signalled |
| Postgres update (`pg/update.py`, `pg/table.py`) | ledger, table, columns | list, ingest, write, record | S3, session, buckets | statements committed one by one; break, retry, kill between them | the ledger is true; retries do not show; every object gets in; schema changes are audited |
| Buckets (`pg/bucket.py`) | rows of winning samples | add, fields, rows | update, decoder | many devices in any order; decoder state that outlives an object | the best device's latest sample |
| Wire decoding (`pg/wire_*.py`, `decode.py`, `pg/ranges.py`) | fast-packet reassembly | decode | buckets | half a message, half a position | positions are whole; impossible values are dropped |
| Legacy importer (`migrate_n0183.py`) | none but the bucket and its audit entries | export a day | Postgres, S3 | re-run after a crash, lost answers, late rows | the end entry is true; a second run adds nothing |
| Exporter (`export.py`) | output file | list, filter, write | S3 | bad objects, keys that appear while it lists | exit code and file do not pass for a whole export |
| Retry (`retry.py`), audit log (`audit_log.py`) | attempt count; none | call; PUT | readers; all commands | what is retried | raises the last error; never fails its caller |

## Modules

| module | models | notes |
|---|---|---|
| `Totals` | sums of bytes | as a cardinality, so that proofs need no induction |
| `RamBuffer` | the RAM buffer and the batch in flight | one atomic action per method: they all run on the event loop |
| `Spool` | spool, uploader, bucket, crash behaviour | one step per system call for `_write_spool`, one per await for `_upload_spool` |
| `SpoolAlone` | `Spool` with a minimal caller | hands each object to one thread at a time |
| `Custody` | what is promised of a frame: the abstract specification | bus, ram, disk, s3, or lost as `dropped` or `dead` |
| `Logger` | the process: INSTANCEs `RamBuffer` and `Spool` | flush, cancellation, stop, exit, restart |
| `Capture` | the CAN listener; EXTENDS `RamBuffer`, whose `Receive` its `_drain` calls | one step per `recvmsg`, one per await of the listener |
| `WideTable` | what one object does to the Postgres table | pure operators, shared by the next two |
| `UpdatePg` | `nmea2s3-update-pg`, its session, and the server's sessions | one step per statement |
| `DerivedTable` | what the update promises: the abstract specification | whole objects, ledger after table |
| `Archive` | the bucket as the tools see it: keys, pages of a LIST, attempts of a call | used by the next two |
| `Import` | the legacy importer over repeated, interrupted runs | one step per S3 call |
| `Export` | the exporter, to a file or a pipe | one step per LIST page, GET and row |
| `Decode` | one archive record to its samples | pure operators, tables included |
| `Buckets` | rows of winning samples, object after object | one step per record |
| `MC...` | values of the constants for TLC; `MCParts` puts components that share no state side by side | a behaviour is one of them, by `subject` |
| `TotalsProofs` | lemmas on numbers and totals | used by the others |
| `RamBufferProofs`, `SpoolProofs`, `UpdatePgProofs` | theorems of the components | |
| `ListenerProofs` | the listener in front of the RAM buffer: refinement, and the buffer's theorems behind it | EXTENDS `RamBufferProofs` |
| `LoggerProofs`, `LoggerSafetyProofs` | theorems of the process: types, safety, refinement of `Custody` | the second EXTENDS the first |
| `ToolsProofs` | theorems of the importer, the exporter and bucketing | |

### RamBuffer

A frame is its arrival number; `NBytes` is its `nbytes`. `buffer`, `bufferBytes`, `dropped` are the
attributes of those names and `batch` is `_flush_buffer`'s local. `Receive` is `_append` (with its
trim) called from `_drain`; `TakeBuffer`, `ReturnBuffer` (with its trim) the methods; `PlaceBatch`
the successful return of `_flush_buffer`; `CancelFlush` a `CancelledError` at one of its awaits, which
drops the local; `ProcessEnds` the next process starting from `__init__`. `_trim`'s loop is stated by
where it stops: after the least number of pops that leaves the buffer within the cap. `placed`,
`trimmed`, `abandoned` and `gone` are history, and no guard reads them.

### Spool

An object stands for its gzipped bytes, its spool file and its S3 key: both names are derived from
the content. `Rank` is the order of the file names. `visible` is the directory as the process sees
it, `durable` what a power cut leaves; `_fsync_dir` and the filesystem's own commit copy the one to
the other. Each writer thread has the locals of `_write_spool` and `_evict_spool_for` and a program
counter, so that eviction and upload meet at every pair of system calls. The uploader's steps are its
awaits. `late` holds PUTs whose coroutine was cancelled: `asyncio.to_thread` cannot stop the thread.
`Faults` selects what may fail: `disk`, `fsync`, `unlink` and `read` are system calls that raise;
`put` a PUT that raises, `lostAnswer` one that raises though it was carried out, `outage` that every
PUT raises; `cancel`, `kill` and `power` what ends a pass, the process, the machine. After a failed
write the `.tmp` is unlinked, as the `except` clause does.

`self.dropped` is incremented on the event loop by `_trim` and on a worker thread by the eviction.
The model keeps the two counts apart (`dropped`, `evictedRows`); the read-modify-write race of the two
`+=` is not modelled. An eviction adds the rows it read from the file some steps before the unlink:
`evicted` is what an unlink took away, `counted` those of it for which at least their rows were added.
`NoSilentLoss`, `PlacedSurvivesPowerCut` and `Custody`'s "dropped" speak of `counted`.

### Logger

`phase` is the await `_flush_buffer` has reached and `life` how far the process is from `start()` to
its end. A shutdown (signal, or a loop that dies) cancels the flush wherever it is, while the writer
thread it started goes on: `stop()` flushes on a second thread, then makes one upload pass, and
`asyncio.run` joins the threads before the process exits. `DayRuns` is `group_by_day`; `Stamp` may
run backwards, since the clock is stepped. The audit entries of `start` and `stop` change nothing
and are only points where time passes.

### Capture

`link` is the interface and `changes` counts what happens to it (bound `MaxLinkChanges`). `sock` is
the socket, "broken" once the kernel has an error to report on it; `queue` is its receive queue, of
which only the kind of a frame matters: `_drain` skips short, error and remote frames. `draining` says
that `_drain` runs: it is a callback, so no flush step comes between two `recvmsg`. `dead` and
`delay` are the variables of `_can_listener`. What the kernel drops because the queue is full is not
counted by the program and not by the model. An interface that is down, unlike one that is absent,
can be bound: `_can_listener` then never backs off but retries after `CAN_RECONNECT_DELAY`.

### UpdatePg

`table`, `columns` and `ledger` are what is committed. `Ingested[o, h]` is the outcome of reading and
bucketing object `o` when the decoder holds the first parts of the messages `h`; objects are numbered in
the order of `keys.sort(key=(key_date, name))`. `run[r]` has the locals of `run()` and of its `Session`,
and `pc` where it is: `lock` and `relock` are `_take_lock`, `ensure`, `merge` and `record` the statements
of `write_object` (each column an ALTER of its own), `reopen` and `terminate` the steps of `reconnect`.
The connection is autocommit, so each is committed by itself. When a link dies the client learns it at
once (`BreakInCall` retries, `BreakStops` ends the run) but the server session stays, an orphan, with
what it received in `pending`: `OrphanRuns` executes it, `OrphanEnds` ends it and releases its lock.
`dying` are the sessions `pg_terminate_backend` has signalled. A session is its `(pid, backend_start)`;
that a pid is given to a later session is what the mutant `SignalledByPid` needs. `MaxFaults` bounds
breaks, refusals and kills. `noted`, `written`, `sole` and `altered` are history.

`adding` is `ensure`'s local list and `added` is `new_columns`: the one moves to the other when `ensure`
returns and is gone with its exception when it does not. Only `Audit` writes `noted`, the columns named in
an entry that was attempted. A run ends in one of four ways, which `exit` tells apart: well or busy
(`Finish`, 0), stopped part-way with an entry (`StopPartWay`, 75), with a traceback and no entry (`Raise`,
1), or killed (`Kill`, 137). `altered` is what the run saw added, reported or not.

### Import, Export

`Archive!bucket` is the set of keys; a key is a record of the parts the code reads from it, and its
content identifier the sequence of its lines. The importer's query may answer in any order its ORDER BY
admits. A PUT that fails may have been sent: `late` holds keys that may still land. Rows are inserted at
most `Lag` after their `received_at`, which is what `--lag-seconds` is for. The exporter lists page by
page, while objects are uploaded; `Stored` says which of an object's lines are malformed. An export that
loses buffered rows to a full disk and goes on (`torn`) is told apart from one that does not.

### Decode, Buckets

A value is a set of at most one element, a message a set of fields as the libraries return them. The
tables (`SENTENCE_FIELDS`, `CONVERSIONS`, `RANGES`, ...) are translated whole, so that the properties
run on real columns; what is checked of decoding is that positions stay whole, and of bucketing who
wins a cell. `NewBuckets` is `ingest_object` starting a new `Buckets` while `_decoder` goes on.

## Runs

| run | instance | shows |
|---|---|---|
| `MCSpool` | 2 objects of sizes 1 and 2, cap 2, 2 threads; disk, put, lostAnswer, cancel, kill, power | `NothingVanishes`, `PlacedIsDurable`, `TmpsAreLive`, `EvictionsAreCounted` |
| `MCSpoolOutage` | 3 objects, batches of up to 2, 1 thread, S3 down; disk, fsync, read, kill, power | `DiskCap` when only the writer deletes |
| `MCLogger` | 4 frames, buffer and spool of 2 bytes, 1 shutdown; disk, put | `NoSilentLoss`, `NoDuplicateRows`, `ShutdownSavesBuffer` |
| `MCLoggerCrash` | 3 frames, clock stepped back across midnight, 1 process end; disk, put, unlink, kill, power | `NoSilentLoss`, `PlacedSurvivesPowerCut`, refinement of `Custody` |
| `MCLoggerLive` | 2 frames, clock stepped back across midnight; disk, fsync, unlink, put, lostAnswer | `StopCompletes`, `FramesLeaveRam`, `SpoolDrains`; `NoSilentLoss` and refinement of `Custody` under these faults |
| `MCLoggerLostBatch` | 2 frames, no faults | violation, finding 1 |
| `MCSpoolCapRace` | 3 objects, no faults | violation, finding 2 |
| `MCLoggerUnsynced` | 2 frames; fsync, put, power | violation, finding 3 |
| `MCUpdatePg` | cron's run beside an operator's rebuild or dry run; 2 objects sharing a bucket and a split message, 3 sessions, 2 faults | `OneWriter`, `SignalsOnlyOrphans`, `RecordedIsWritten`, `SchemaChangesAreAudited`, `FinishedRunIsReplay`, refinement of `DerivedTable`; `EveryObjectIngested` |
| `MCUpdatePgErased` | 2 objects sharing a bucket, no faults | violation, finding 4 |
| `MCUpdatePgUnreported` | as `MCUpdatePg`, 1 fault | violation, finding 5 |
| `MCParts`, the buffer | 6 frames of sizes 1,2,1,4,3,1, cap 3; receive queue of 2, 3 link changes | the seven properties of `RamBuffer`; one frame exceeds the cap, one arrival can push out several; `ListenerRecovers` |
| `MCParts`, the tools | importer: 4 rows on 2 days, 2 runs, 2 faults; exporter: 6 objects, 5 requests, 2 exports, 2 faults; buckets: 4 of 11 records | `EndTellsTruth`, `OneObjectPerDay`; `ExitCodeTellsTruth`, `PathIsWhole`; `RowsAreBest`, `PositionIsOneReading` |

Bounds. A frame is one byte in `Logger`, so caps of 2 make the buffer trim at the third frame and the
spool evict at the second object; two frames make a batch that can be split by midnight, a third
arrives while it is being written. One process end gives a process before and one after; two ends add
nothing that `MCSpool`, which does not bound them, leaves out. `MaxEvictedRows` stops flushes once
that many rows have been evicted in one process: eviction of a file written again after a failed
flush could otherwise raise the counter for ever. `MaxObjects` bounds a batch's objects (days).
In `MCUpdatePg` two faults are the least that break a retry, or a run and the session it left; three
sessions are a run's lost one, its new one and the other run's. Two objects are the least that meet in
a bucket and split a message. In `MCParts` up to two days are listed one by one (31 in the code), a
page holds two keys, and a call has two attempts, so that each limit is passed.
`CHECK_DEADLOCK FALSE` there is for the bounds: a behaviour ends when its runs are used up.

Fairness (`Logger!FairSpec`). The event loop runs every task that can run and the executor every
thread, so each kind of step is weakly fair; `_flush_loop` and `_upload_loop` are `while` loops with
timers, so they come round; systemd has `Restart=always`. Strong fairness on the PUT of each object
that is tried again and again says that the network comes back. Nothing is assumed of the disk:
writes may fail for ever. `Shutdown`, `Kill`, `PowerCut`, arrivals and faults are not fair.
`Capture!CaptureSpec`: the listener's own steps, one weakly fair choice (a task, its callback and its
sleep); nothing is assumed of the interface. `UpdatePg!Fairness`: a process runs, cron starts its run
again and again, and the server ends sessions without a client (keepalives). Faults are bounded, which
is the assumption that they end.

## Findings

1. `ShutdownSavesBatch` (`logger.py:714`): the batch of a flush in progress is a local variable. A
   shutdown that cancels the flush before `_write_spool` is handed to its thread loses it;
   `logger.py:958` says that a crash still gets the buffer written out.
2. `DiskCap` (`logger.py:835`): the uploader deletes the eviction's victim between listing and
   `stat`; the exception breaks off the eviction and the batch is written over budget. The same
   happens when the two writer threads of a shutdown both find room.
3. `PlacedSurvivesPowerCut` (`logger.py:898`): after a failed `_fsync_dir` the retried batch finds its
   file, skips the write and with it the fsync, and reports success.
4. `NoReadingErased` (`pg/table.py:112`): the columns of `write` are the union over the batch. A row of
   the batch that lacks one of them stages NULL, and the merge overwrites the reading an earlier object
   put into that row: the bucket at an object's end is shared with the next object. `table.py:106`
   says that such a field keeps its value.
5. `RetriedColumnsAreReported` (`update.py:195`): a link that breaks inside `ensure`, after one of its
   ALTERs, takes the list with the exception; the retry finds the column present and the run's entry
   lacks it. `update.py:190-194` says that a first attempt that altered the table before its connection
   died still has its columns reported. That is so once `ensure` has returned, which
   `SchemaChangesAreAudited` states.

Not asserted, because the code does not ensure it: that an evicted file's rows, once counted, are
not also in S3 (the uploader may store the file between the count and the unlink), and, when an
fsync or one of a batch's two days fails, that no row is archived twice (`TODO.md` 3).
Others met while modelling, in the models as the code has them:

- a spool file that cannot be read when it is to be evicted counts as 0 rows and is evicted all the same.
  `logger.py:805-807` wants that for a corrupt file, but any exception will do, and `logger.py:820-822` says
  that each evicted file is counted so that the stats line never under-reports. `EvictionsAreCounted` and
  `NoSilentLoss` fail under the fault `read`: of the runs that hold only `MCSpoolOutage` has it, and the
  theorems on counted losses exclude it;
- a stop inside `ensure` leaves its columns out of the entry for the same reason as finding 5, and a
  traceback (a bug, a permanent S3 error, a database error that is not operational) writes no entry, although
  `update.py:250` says that a run that stops part-way writes the same one: `SchemaChangesAreAudited` asks for
  columns whose `ensure` returned, and for every end but a traceback and a kill;
- `RecordedIsWritten` accepts, for a cell of an object in the ledger, what another merged object assigned
  there, be it the NULL of finding 4; a cell that nobody assigned, or an object that is only partly merged, is
  what it excludes;
- an earlier object that is uploaded late is merged after a later one, and its sample replaces a later or
  better one in the bucket they share: `FinishedRunIsReplay` speaks of one run's keys, in order;
- a reconnected run goes on with the keys it listed before, some of which another run may have done;
- `--dry-run` creates the ledger table; a malformed `raw` value stops every later run at its object;
- `export.py:285` names a full disk among what discards the `.tmp`: inside `write_row` it is counted as
  a malformed object and the export goes on, and in the final flush or fsync the `.tmp` stays
  (`DiskFull`, `FinishFails`; the exit code tells, `PathIsWhole` excludes the first);
- a LIST is not retried and ends an export; a file without a date under `raw/` ends a wide one;
- a start entry without an end may also mean that the end entry's PUT failed.

## Proofs

`RamBufferProofs` proves for every `MaxFrames`, `NBytes` and `MaxBufferBytes` allowed by
`BufferAssumption` (frames have at least one byte):

- `TypeCorrect`, `EveryFrameIsSomewhereOnce`, `ByteCounterIsExact`, `QueueKeepsCaptureOrder`,
  `MemoryIsBounded`: `Spec => []P` for the five invariants of `RamBuffer`;
- `EveryDropIsCounted`, `TrimIsMinimal`: its two action properties.

The inductive invariant `IInv` is the conjunction of the five, written so that provers can use it
(`Partition` for the six-way disjointness, `Ordered` for order within and between batch and buffer).
None of the five is inductive alone: the counter stays exact only because no frame is queued twice,
which needs the partition; the count of a trim is right only because an increasing queue has as many
frames as positions; the memory bound needs the counter. `TrimLeavesSuffix` says what the loop of
`_trim` does to any increasing queue, and `TrimStopsInTime` that its last victim would not have
fitted; each action has one preservation lemma. `TotalsProofs` shows that totals are additive.

`UpdatePgProofs` proves for every set of runs, sessions, objects, fields and messages, every `Ingested`
and every number of faults allowed by `WideTableAssumption` and `UpdatePgAssumption`:

- `TypeCorrect`, `OneWriterAtATime`, `OnlyOrphansAreSignalled`, `LedgerIsTrue`, `ColumnsAreAudited`:
  `Spec => []P` for the invariants of `MCUpdatePg`, and `Spec => SchemaChangesAreAudited` for the last;
- `UpdateImplementsDerived`: `Spec => ImplementsDerived`, the refinement of `DerivedTable`;
- `RunReplaysItsKeys`: `Spec => FinishedRunIsReplay`, for keys in any number and messages split anyhow.

The inductive invariant is `Inv`, strengthened in three directions. `Inv` types a run by where it is
(`RunOK`: a run that may write holds the lock and a live session), keeps sessions apart (`OwnSession`)
and says of a statement left with an orphan that it is the lock's holder's (`PendingOK`): `OneWriter` is
not inductive without the last two, because an orphan may be granted the lock or end at any time.
`Ledgered` adds that a key about to be recorded, by a run or an orphan, has been merged, and that
what was merged stands: a merge replaces a cell only by another object's value for it. `OrphansOK` adds
that the session a run remembers as lost is nobody's, which is what `Terminate` needs. Each action has one
preservation step. `ColumnsAreAudited` needs of `Inv` that a process that is not running has nothing to report,
and then goes action by action: `Shape` is what one process may do to sessions and columns, `Reported` the part
of it that the property asks for.

`ReplayOK` says what a run's place among its keys means: while nobody else has merged anything (`sole`), the
table agrees with the replay of the keys before `Key(r)` on every cell but those the object at hand assigns,
with that object's replay too once it is merged, and what the decoder holds is what the replay holds
(`Progress`). The cells of the object at hand are left open because a broken link may or may not have merged
it, an orphan may merge it again, and the retry will. For that an orphan's late merge must be of the same key
and the same held parts; that no other run can put a statement there is `OrphansOK` and `OwnSession`. `After` is
a recursive function over objects: `ReplayExists` shows that its recursion has a solution (the least object up
to which it had none would have one), `AfterIsReplay` unfolds it, and `AfterSkips` steps over objects that are
not among the keys.

`SpoolProofs` proves, for `SpoolAlone` with every finite set of objects, every set of threads and every
ranking, size and cap allowed by `SpoolAssumption`:

- `SpoolTypes`, `SpoolLosesNothing`: `Spec => []P` for `TypeOK` and `NothingVanishes`, with batches of any
  size and every kind of fault;
- `NoTmpIsLeft`: `TmpsAreLive`, if the unlink of a `.tmp` does not fail;
- `TrueMeansDurable`: `PlacedIsDurable`, and `NoEvictionIsSilent`: `EvictionsAreCounted`, for batches of one
  object and a directory fsync that does not fail (and, for the second, files that can be read);
- `CapHoldsInOutage`: `DiskCap`, see below.

`Typed` adds to the types that a thread with an object in hand is inside its batch. `NothingVanishes` needs
only `DeletesStored`: what the uploader is about to unlink is in the bucket. `PlacedIsDurable` needs
`Placing`: one thread per object, where each call is, and above all `UnwrittenOffDisk`: no file has the name
of an object still to be written, so that a call never skips its file and with it the fsync. That is what
fails in finding 3, and the reason for the two conditions. The same fact carries
`EvictionsAreCounted`: the rows of a victim are read some steps before its unlink, and stay right
because a name that was written once does not come back in between (`WrittenOnce`).

A third condition gives `CapHoldsInOutage`: `DiskCap`, with one writer thread, S3 unreachable and an unlink
that works. The invariant `Budgeted` says that the thread's listing and its sum are still those of the
directory, that between the eviction and the rename the new file fits or the directory is empty, and that the
files within the budget *or a single one*, which unlike `DiskCap` survives the eviction of an oversized
file. Each condition is needed: finding 2 is what happens when anybody else deletes.

`ListenerProofs` proves, for every receive queue, number of link changes and back-off that `Capture` allows:

- `CaptureKeepsBuffer`: `CaptureSpec => Spec`. A step of the listener, of `_drain`, of the kernel or of a flush
  is a step of `RamBuffer` or leaves it alone;
- `ListenerLosesNoFrame`, `ListenerDropsOnlyByTrim`: hence the seven properties of `RamBuffer` hold in the run
  that checks them, whatever the interface does.

`LoggerProofs` and `LoggerSafetyProofs` prove, for every number of frames, stamp, day
length and cap allowed by `LoggerAssumption` and every set of faults:

- `BufferKeepsItsSpec`: `Spec => Buf!Spec`. A step of the process is a step of `RamBuffer` or leaves it alone,
  so the seven theorems of `RamBufferProofs` hold in the process. `Logger`'s actions are built from
  `RamBuffer`'s, so no run checks this; what is proved is that the flush keeps to their guards;
- `LoggerTypes`: `TypeOK`; `ShutdownEmptiesBuffer`: `ShutdownSavesBuffer`;
- `LoggerLosesNothingSilently`: `NoSilentLoss`, if spool files can be read and
  not both `fsync` and `power` are among the faults;
- `PlacedOutlivesPowerCut`: `PlacedSurvivesPowerCut`, if spool files can be read and the directory fsync works
  (finding 3 is the other case);
- `LoggerKeepsCustody`: `Spec => CustodySpec`, the refinement of the abstract specification, if spool files can
  be read;
- `NoFrameIsStoredTwice`: `NoDuplicateRows`, if every batch is of one day, the directory fsync works and no PUT
  is carried out and yet raises. `TODO.md` 3 describes the duplicates that remain without these.

`Shape` joins the invariants of the two components with `Control` (which await goes with which phase of the
life cycle) and `Calls` (the thread a flush waits for has its batch's objects). For safety `Filing` adds
that no file holds a frame not yet received, so that a batch just taken has at least one frame, its newest,
in no file: the call that writes it must rename something (`Fresh`), and therefore reaches the fsync.
`CallKeeps` follows the call: what it has passed is safe, and firm once it has synced. `DirectHolds` does the
same for the direct upload that follows a refusal, and `PlacedIsFirm` is the property in this form, with
eviction as an excuse. That an eviction has counted what it took is `Accounted`: what a thread lists has been in
the spool, and at its unlink it has read all the rows of the victim, or found it gone, which only an upload
explains (`CountsRight`); so whatever was evicted is counted or in S3 (`EvictionsAreSettled`).

For `Custody` the place of a frame is `Whereabouts`, which looks in S3 first, then on the disk, then in memory.
`Custodial` adds that nothing in flight is newer than the last frame received; `FramesMove` states each
action by where the frames it touches go, and the refinement follows place by place. `NoFrameIsStoredTwice`
rests on `Single`: two objects anywhere (files, bucket, requests, calls, a direct upload) are equal or
disjoint (`Apart`), none has a frame still in the buffer (`Ahead`), and one with a frame of the batch in hand
exists only when the call that writes it is past its last object (`InHand`). With two days, or an fsync that
fails after its rename, the batch comes back while its file is there, and `InHand` is lost.

`ToolsProofs` proves of `ImportSpec`, for every set of rows, day length, lag and bound:

- `ImportTellsTruth`: `EndTellsTruth`, whatever the bucket held before;
- `ImportMakesOneObject`: `OneObjectPerDay`, if the bucket held no legacy key before.

A closed day is settled (`StepSettles`): a row still to come is at most `Lag` old and therefore of a later day,
so the key made of a day's rows is a key of what the day will always hold. `SameOutput` shows that two
orders the ORDER BY admits make the same lines: if they differed at some place, the rows up to it in one and
from it on in the other would have nothing in common (`PlacesMeet` is the pigeonhole). On these rest
`KeyInHand`, `DaysDone` ("every day before `imp.day` is imported"), `EntriesBounded` and, for the second
theorem, `OfClosedDays`, which covers PUTs that are still to land.

and of `BucketsSpec`, for every bucket length and every set of records with integer times and natural CAN
identifiers, whose sentences have one latitude and one longitude at most (`BucketsAssumption`):

- `RowsHoldTheBest`: `RowsAreBest`, for any sequence of records and objects;
- `PositionsStayWhole`: `PositionIsOneReading`, for the same.

`Bucketed` says that the rows hold the best of the readings since the object began and that the decoder holds
the messages that the whole history leaves open, whichever object they began in (`OpenGrows`).
`RowsWithKeepsBest` is the step of one record; it needs that the samples of one record agree in device and
time (`SamplesAreAlike`), so that any of them that reaches a cell may stand for it.

`Positional` says that in every bucket the two cells of a position are both filled or both empty, and by one
record of the object. It stays so because `Position` gives both halves or neither, both within `RANGES`
whenever `_degrees` accepted them (`MinutesFit`), and with one priority, time and source: the comparison that
lets a record into one cell lets it into the other (`PairsStay`).

and of `ExportSpec`, for every page size, set of requests and content of the archive (`ExportAssumption`):

- `ExportSpeaksTruth`: `ExitCodeTellsTruth`; `OutputIsWhole`: `PathIsWhole`.

`ExportInv` follows a key from the listing to the output. `Ahead(e, k)` says that the listing has still to
come to `k`: it is on the page, or after the last key answered under the prefix at hand, or under a
later prefix. `NoneMissing`: a key that was there at the start is ahead, skipped, or out whole, unless the
output is torn; `NoneStray`: rows are of keys of the range and not of one ahead, so that each key is written
once although objects are uploaded between two pages; `AtHand`: the lines written of the object at hand are
those before `line`, in order. Prefixes have no key in common (`Apart`), so what one of them has passed does
not come back under the next.

The proofs changed the statement of a few definitions, not what they say. `Whereabouts` was a CASE whose
guards overlapped, which leaves the choice open: it is a nested IF now. `Pages` gives a page as the set of its keys
rather than a sorted sequence, and `WholeIn` speaks of positions, since `SortSeq` and `SelectSeq` are
recursive; `FinishedRunIsReplay` names its recursion (`After`). `FaultsAssumption`, `BucketsAssumption`,
`ExportAssumption` and the type of the importer's clock bound are stated. In `Decode`, a UNION that is an
operand has parentheses, because the two parsers read `UNION A \cup B` differently.

Only model-checked: `ShutdownSavesBatch` and the properties of the other violations, beyond the conditions
under which the theorems above have them (`DiskCap`, `PlacedSurvivesPowerCut`, `EvictionsAreCounted`); and liveness
(`ListenerRecovers`, `StopCompletes`, `FramesLeaveRam`, `SpoolDrains`, `EveryObjectIngested`), which needs ENABLED
and is out of the prover's reach. Bytes are summed as a cardinality, and order is stated on positions, because
induction over sequences is out of reach too; where a least counterexample does instead, `LeastOf` provides it.

## Plan

Every safety property that a run shows to hold is also a theorem, some under conditions that the findings make
necessary. What would come next is the composition of the logger's uploads with the update's ledger across
several days: `UpdatePg!Upload` lands objects in any order, which covers the logger's retries and restarts, but
no run has both.

## Not modelled

JSON, gzip, hashing and key syntax (an object's name is taken to be injective); the bytes of a frame or a
sentence and the libraries that parse them (`pynmea2`, `nmea2000`: their results are inputs of `Decode`,
their reassembly of messages is a set of first parts); logging and statistics; kernel timestamps; the
delays of retries, of the lock's holder wait and of the reconnect; the SQL views, which have no state;
command-line parsing, except the choices it makes (modes, formats, ranges); the tests.
