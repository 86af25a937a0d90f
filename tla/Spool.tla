------------------------------- MODULE Spool --------------------------------
(***************************************************************************)
(* The disk spool and the S3 bucket behind it: logger.py's _write_spool    *)
(* with _evict_spool_for and _fsync_dir, and _upload_spool.                *)
(*                                                                         *)
(* _write_spool runs on a worker thread and _upload_spool on the event     *)
(* loop with its reads and PUTs on worker threads, so every system call on *)
(* the directory is a step of its own.  There are two writer threads: a    *)
(* flush cancelled at shutdown leaves its thread running while stop()      *)
(* flushes what arrived since.                                             *)
(*                                                                         *)
(* An object is a gzipped batch.  Its spool file name and its S3 key are   *)
(* both derived from its content, so an object stands for its bytes, its   *)
(* file and its key at once; Rank is the order of the names.               *)
(***************************************************************************)
EXTENDS Integers, Sequences, FiniteSets, Functions, Totals

CONSTANTS
  Object,         \* every object that may be spooled
  Rank,           \* Rank[o]: position of o's name in sorted() order
  Size,           \* Size[o]: length of the gzipped body
  Rows,           \* Rows[o]: ndjson rows in it
  Thread,         \* writer threads
  MaxObjects,     \* bound: objects in one batch
  MaxDiskBytes,   \* MAX_DISK_BYTES
  Faults          \* which failures the environment may inject

FaultKinds == {"disk", "fsync", "unlink", "read",     \* a system call raises
               "put", "lostAnswer", "outage",         \* S3: some fail, all fail
               "cancel", "kill", "power"}             \* pass, process, machine

ASSUME SpoolAssumption ==
  /\ IsFiniteSet(Object)
  /\ Rank \in [Object -> Int]
  /\ Size \in [Object -> Nat]
  /\ Rows \in [Object -> Nat]
  /\ MaxObjects \in Nat
  /\ MaxDiskBytes \in Nat
  /\ Faults \subseteq FaultKinds

VARIABLES
  alive,        \* the logger process exists, past start()'s cleaning of DISK_DIR
  visible,      \* the disk.*.ndjson.gz files in DISK_DIR
  durable,      \* those of them a power cut would leave (last committed state)
  tmps,         \* the .tmp files in DISK_DIR
  s3,           \* the objects under raw/ in the bucket
  writer,       \* per thread, the state of its _write_spool call
  up,           \* the state of the _upload_spool pass
  late,         \* PUTs whose coroutine was cancelled, still on their thread
  evictedRows,  \* what _evict_spool_for added to self.dropped in this process
  evicted,      \* history: objects _evict_spool_for removed
  counted,      \* history: those of them whose rows it added to self.dropped
  stored        \* history: objects once renamed, less those a power cut undid

diskVars == <<visible, durable, tmps>>
history == <<evictedRows, evicted, counted, stored>>
vars == <<alive, diskVars, s3, writer, up, late, history>>

WriterPc == {"idle", "next", "list", "usage", "evict", "count", "unlink",
             "tmp", "rename", "sync", "true", "false"}
UploaderPc == {"idle", "next", "put", "unlink"}

Batches == UNION {[1..n -> Object] : n \in 1..MaxObjects}

\* sorted(files)[0].  Names with one time stamp are ordered by their hash.
Oldest(files) == {o \in files : \A p \in files : Rank[o] <= Rank[p]}

IdleWriter == [pc |-> "idle", objs |-> <<>>, i |-> 1, renamed |-> FALSE,
               files |-> {}, usage |-> 0, victim |-> {}, lost |-> 0]
IdleUploader == [pc |-> "idle", files |-> {}, obj |-> {}]
\* victim and obj are the empty set or hold the one object in hand.

Init ==
  /\ alive = TRUE
  /\ visible = {} /\ durable = {} /\ tmps = {} /\ s3 = {}
  /\ writer = [t \in Thread |-> IdleWriter]
  /\ up = IdleUploader
  /\ late = {} /\ evictedRows = 0
  /\ evicted = {} /\ counted = {} /\ stored = {}

----------------------------------------------------------------------------
(* _write_spool, one step per system call, on thread t. *)

\* The object the call is working on.
Current(t) == writer[t].objs[writer[t].i]

WriterAt(t, pc) == writer[t].pc = pc

\* Thread t moves on to pc, its other locals unchanged.
WriterGoes(t, pc) == writer' = [writer EXCEPT ![t].pc = pc]

\* What a step of a writer thread that touches no file leaves alone.
FilesUnchanged == UNCHANGED <<alive, diskVars, s3, up, late, history>>

(* asyncio.to_thread(self._write_spool, objects) *)
Submit(t, objs) ==
  /\ WriterAt(t, "idle")
  /\ writer' = [writer EXCEPT ![t] = [IdleWriter EXCEPT !.pc = "next", !.objs = objs]]
  /\ FilesUnchanged

(* The result is read, or thrown away because the awaiting task is gone. *)
Collect(t) ==
  /\ writer[t].pc \in {"true", "false"}
  /\ writer' = [writer EXCEPT ![t] = IdleWriter]
  /\ FilesUnchanged

(* `for obj in objects: if path.exists(): continue` *)
SkipExisting(t) ==
  /\ WriterAt(t, "next") /\ writer[t].i <= Len(writer[t].objs)
  /\ Current(t) \in visible
  /\ writer' = [writer EXCEPT ![t].i = @ + 1]
  /\ FilesUnchanged

BeginObject(t) ==
  /\ WriterAt(t, "next") /\ writer[t].i <= Len(writer[t].objs)
  /\ Current(t) \notin visible
  /\ WriterGoes(t, "list")
  /\ FilesUnchanged

(* _evict_spool_for: sorted(glob) *)
ListFiles(t) ==
  /\ WriterAt(t, "list")
  /\ writer' = [writer EXCEPT ![t].pc = "usage", ![t].files = visible]
  /\ FilesUnchanged

(* _disk_usage: a second glob, with a stat of each file *)
MeasureUsage(t) ==
  /\ WriterAt(t, "usage")
  /\ writer' = [writer EXCEPT ![t].pc = "evict", ![t].usage = Total(visible, Size)]
  /\ FilesUnchanged

\* Mutant: the incoming object is left out of the sum.
MustEvictWithoutIncoming(t) ==
  /\ writer[t].files # {}
  /\ writer[t].usage > MaxDiskBytes

\* `files and usage + incoming_size > MAX_DISK_BYTES`
MustEvict(t) ==
  /\ writer[t].files # {}
  /\ writer[t].usage + Size[Current(t)] > MaxDiskBytes

(* The loop condition, files.pop(0) and victim.stat() *)
PickVictim(t) ==
  /\ WriterAt(t, "evict") /\ MustEvict(t)
  /\ \E v \in Oldest(writer[t].files) \cap visible :
       writer' = [writer EXCEPT ![t].pc = "count", ![t].files = @ \ {v},
                                ![t].victim = {v}]
  /\ FilesUnchanged

(* _count_gz_rows: 0 for a file that has gone or cannot be read *)
CountRows(t) ==
  /\ WriterAt(t, "count")
  /\ \E v \in writer[t].victim :
     \E n \in {IF v \in visible THEN Rows[v] ELSE 0}
              \cup (IF "read" \in Faults THEN {0} ELSE {}) :
       writer' = [writer EXCEPT ![t].pc = "unlink", ![t].lost = n]
  /\ FilesUnchanged

\* Mutant: `self.dropped += lost_rows' is forgotten.
UnlinkUncounted(t) ==
  /\ WriterAt(t, "unlink")
  /\ \E v \in writer[t].victim :
       /\ visible' = visible \ {v}
       /\ evicted' = evicted \cup ({v} \cap visible)
       /\ writer' = [writer EXCEPT ![t].pc = "evict", ![t].usage = @ - Size[v],
                                   ![t].victim = {}, ![t].lost = 0]
  /\ UNCHANGED <<alive, durable, tmps, s3, up, late, evictedRows, counted, stored>>

\* Mutant: the lost rows are subtracted from the counter.
UnlinkSubtracting(t) ==
  /\ WriterAt(t, "unlink")
  /\ \E v \in writer[t].victim :
       /\ visible' = visible \ {v}
       /\ evicted' = evicted \cup ({v} \cap visible)
       /\ writer' = [writer EXCEPT ![t].pc = "evict", ![t].usage = @ - Size[v],
                                   ![t].victim = {}, ![t].lost = 0]
  /\ evictedRows' = evictedRows - writer[t].lost
  /\ UNCHANGED <<alive, durable, tmps, s3, up, late, counted, stored>>

(* victim.unlink(missing_ok=True), usage -= freed, self.dropped += lost_rows *)
UnlinkVictim(t) ==
  /\ WriterAt(t, "unlink")
  /\ \E v \in writer[t].victim :
       /\ visible' = visible \ {v}
       /\ evicted' = evicted \cup ({v} \cap visible)
       /\ counted' = counted \cup {o \in {v} \cap visible : writer[t].lost >= Rows[o]}
       /\ writer' = [writer EXCEPT ![t].pc = "evict", ![t].usage = @ - Size[v],
                                   ![t].victim = {}, ![t].lost = 0]
  /\ evictedRows' = evictedRows + writer[t].lost
  /\ UNCHANGED <<alive, durable, tmps, s3, up, late, stored>>

\* _evict_spool_for returns and its locals go.
LeaveEviction(t) ==
  /\ writer' = [writer EXCEPT ![t].pc = "tmp", ![t].files = {}, ![t].usage = 0,
                              ![t].victim = {}, ![t].lost = 0]
  /\ FilesUnchanged

(* victim.stat() raises: `except Exception: break`, and the write goes on. *)
VictimGone(t) ==
  /\ WriterAt(t, "evict") /\ MustEvict(t)
  /\ Oldest(writer[t].files) \ visible # {}
  /\ LeaveEviction(t)

(* The stat or the unlink of the victim fails for another reason: `break`. *)
EvictionFails(t) ==
  /\ "unlink" \in Faults
  /\ WriterAt(t, "unlink") \/ (WriterAt(t, "evict") /\ MustEvict(t))
  /\ LeaveEviction(t)

(* The loop ends with room, or with nothing left to delete. *)
EvictionDone(t) ==
  /\ WriterAt(t, "evict") /\ ~MustEvict(t)
  /\ LeaveEviction(t)

(* open(tmp), write, fsync of the file *)
WriteTmp(t) ==
  /\ WriterAt(t, "tmp")
  /\ tmps' = tmps \cup {Current(t)}
  /\ WriterGoes(t, "rename")
  /\ UNCHANGED <<alive, visible, durable, s3, up, late, history>>

(* tmp.rename(path) *)
RenameTmp(t) ==
  /\ WriterAt(t, "rename")
  /\ tmps' = tmps \ {Current(t)}
  /\ visible' = visible \cup {Current(t)}
  /\ writer' = [writer EXCEPT ![t].pc = "next", ![t].i = @ + 1, ![t].renamed = TRUE]
  /\ stored' = stored \cup {Current(t)}
  /\ UNCHANGED <<alive, durable, s3, up, late, evictedRows, evicted, counted>>

\* Mutant: the directory is never fsynced.
ObjectsDoneUnsynced(t) ==
  /\ WriterAt(t, "next") /\ writer[t].i > Len(writer[t].objs)
  /\ WriterGoes(t, "true")
  /\ FilesUnchanged

(* After the last object: _fsync_dir only if this call renamed something. *)
ObjectsDone(t) ==
  /\ WriterAt(t, "next") /\ writer[t].i > Len(writer[t].objs)
  /\ WriterGoes(t, IF writer[t].renamed THEN "sync" ELSE "true")
  /\ FilesUnchanged

(* _fsync_dir: the directory as it is now becomes durable. *)
FsyncDir(t) ==
  /\ WriterAt(t, "sync")
  /\ durable' = visible
  /\ WriterGoes(t, "true")
  /\ UNCHANGED <<alive, visible, tmps, s3, up, late, history>>

(* Any call in the try block raises: a full disk, a failing fsync, or      *)
(* _disk_usage meeting a file deleted after it was listed.  The tmp in     *)
(* hand is unlinked, if that works, and False is returned.                 *)
WriteRaises(t) ==
  \/ "disk" \in Faults /\ writer[t].pc \in {"list", "usage", "tmp", "rename"}
  \/ "fsync" \in Faults /\ WriterAt(t, "sync")
  \/ WriterAt(t, "usage") /\ ~(writer[t].files \subseteq visible)

WriteFails(t) ==
  /\ WriteRaises(t)
  /\ IF writer[t].pc \in {"tmp", "rename"}
       THEN \/ tmps' = tmps \ {Current(t)}
            \/ "unlink" \in Faults /\ tmps' = tmps \cup {Current(t)}
       ELSE tmps' = tmps
  /\ writer' = [writer EXCEPT ![t] =
                  [IdleWriter EXCEPT !.pc = "false", !.objs = writer[t].objs]]
  /\ UNCHANGED <<alive, visible, durable, s3, up, late, history>>

WriterProgress(t) ==
  \/ SkipExisting(t)
  \/ BeginObject(t)
  \/ ListFiles(t)
  \/ MeasureUsage(t)
  \/ PickVictim(t)
  \/ VictimGone(t)
  \/ CountRows(t)
  \/ UnlinkVictim(t)
  \/ EvictionDone(t)
  \/ WriteTmp(t)
  \/ RenameTmp(t)
  \/ ObjectsDone(t)
  \/ FsyncDir(t)

WriterStep(t) == WriterProgress(t) \/ EvictionFails(t) \/ WriteFails(t)

----------------------------------------------------------------------------
(* _upload_spool, one step per await. *)

\* What an uploader step that changes no file and no object leaves alone.
UploadKeeps == UNCHANGED <<alive, diskVars, s3, writer, late, history>>

(* `for fp in sorted(glob)`: the pass works on the listing it starts with. *)
BeginPass ==
  /\ up.pc = "idle"
  /\ up' = [IdleUploader EXCEPT !.pc = "next", !.files = visible]
  /\ UploadKeeps

(* fp.read_bytes *)
ReadFile ==
  /\ up.pc = "next"
  /\ \E o \in Oldest(up.files) \cap visible :
       up' = [pc |-> "put", files |-> up.files \ {o}, obj |-> {o}]
  /\ UploadKeeps

(* OSError from the read: evicted since the listing, or unreadable. *)
SkipFile ==
  /\ up.pc = "next"
  /\ \E o \in Oldest(up.files) :
       /\ o \notin visible \/ "read" \in Faults
       /\ up' = [up EXCEPT !.files = @ \ {o}]
  /\ UploadKeeps

\* Mutant: one key for every object.
PutToOneKey ==
  /\ up.pc = "put" /\ "outage" \notin Faults
  /\ s3' = up.obj
  /\ up' = [up EXCEPT !.pc = "unlink"]
  /\ UNCHANGED <<alive, diskVars, writer, late, history>>

(* put_object_gz returns. *)
PutOk ==
  /\ up.pc = "put" /\ "outage" \notin Faults
  /\ s3' = s3 \cup up.obj
  /\ up' = [up EXCEPT !.pc = "unlink"]
  /\ UNCHANGED <<alive, diskVars, writer, late, history>>

\* Mutant: the file is deleted whether or not the PUT succeeded.
PutFailsThenDeletes ==
  /\ Faults \cap {"put", "outage"} # {}
  /\ up.pc = "put"
  /\ up' = [up EXCEPT !.pc = "unlink"]
  /\ UploadKeeps

(* put_object_gz raises BotoCoreError or ClientError: the pass ends.  A    *)
(* request that timed out may have been carried out all the same.          *)
PutFails ==
  /\ Faults \cap {"put", "outage"} # {}
  /\ up.pc = "put"
  /\ s3' \in {s3} \cup (IF "lostAnswer" \in Faults THEN {s3 \cup up.obj} ELSE {})
  /\ up' = IdleUploader
  /\ UNCHANGED <<alive, diskVars, writer, late, history>>

(* fp.unlink(missing_ok=True) *)
DeleteUploaded ==
  /\ up.pc = "unlink"
  /\ visible' = visible \ up.obj
  /\ up' = [up EXCEPT !.pc = "next", !.obj = {}]
  /\ UNCHANGED <<alive, durable, tmps, s3, writer, late, history>>

(* The unlink raises OSError: logged, and the file is uploaded again later. *)
DeleteFails ==
  /\ "unlink" \in Faults
  /\ up.pc = "unlink"
  /\ up' = [up EXCEPT !.pc = "next", !.obj = {}]
  /\ UploadKeeps

\* Mutant: the pass stops one file short.
EndPassEarly ==
  /\ up.pc = "next" /\ Cardinality(up.files) <= 1
  /\ up' = IdleUploader
  /\ UploadKeeps

EndPass ==
  /\ up.pc = "next" /\ up.files = {}
  /\ up' = IdleUploader
  /\ UploadKeeps

UploadProgress ==
  \/ ReadFile
  \/ SkipFile
  \/ PutOk
  \/ DeleteUploaded
  \/ EndPass

UploadStep == UploadProgress \/ PutFails \/ DeleteFails

\* A PUT goes on on its thread when the coroutine awaiting it is cancelled.
InFlight == IF up.pc = "put" THEN up.obj ELSE {}

(* CancelledError at one of the pass's awaits, and at the direct PUT (of   *)
(* the objects in others) of a flush cancelled with it.                    *)
CancelUploads(others) ==
  /\ up' = IdleUploader
  /\ late' = late \cup InFlight \cup others
  /\ UNCHANGED <<alive, diskVars, s3, writer, history>>

(* A PUT that outlived its coroutine succeeds or fails. *)
LatePut ==
  /\ \E o \in late :
       /\ late' = late \ {o}
       /\ \/ "outage" \notin Faults /\ s3' = s3 \cup {o}
          \/ Faults \cap {"put", "outage"} # {} /\ s3' = s3
  /\ UNCHANGED <<alive, diskVars, writer, up, history>>

----------------------------------------------------------------------------
(* _upload_objects, the flush's way round a spool that refused the batch. *)

DirectPutOk(o) ==
  /\ "outage" \notin Faults
  /\ s3' = s3 \cup {o}
  /\ UNCHANGED <<alive, diskVars, writer, up, late, history>>

DirectPutFails(o) ==
  /\ Faults \cap {"put", "outage"} # {}
  /\ s3' \in {s3} \cup (IF "lostAnswer" \in Faults THEN {s3 \cup {o}} ELSE {})
  /\ UNCHANGED <<alive, diskVars, writer, up, late, history>>

----------------------------------------------------------------------------
(* The process and the machine. *)

\* Every thread stops where it is; requests already sent, those of a direct
\* upload in others, may still land.
ThreadsDie(others) ==
  /\ alive' = FALSE
  /\ writer' = [t \in Thread |-> IdleWriter]
  /\ up' = IdleUploader
  /\ late' = {}
  /\ \E landed \in SUBSET (IF "outage" \in Faults THEN {} ELSE late \cup InFlight \cup others) :
       s3' = s3 \cup landed
  /\ evictedRows' = 0

(* SIGKILL, or the end of stop(): the page cache survives. *)
ProcessEnds(others) ==
  /\ alive
  /\ ThreadsDie(others)
  /\ UNCHANGED <<diskVars, evicted, counted, stored>>

(* The filesystem's own commit, every few seconds on ext4. *)
JournalCommit ==
  /\ "power" \in Faults
  /\ durable' = visible
  /\ UNCHANGED <<alive, visible, tmps, s3, writer, up, late, history>>

(* Power is cut: the directory is what was last committed, and an undone   *)
(* rename may leave its .tmp.                                              *)
PowerCut(others) ==
  /\ "power" \in Faults
  /\ ThreadsDie(others)
  /\ visible' = durable
  /\ tmps' \in SUBSET (tmps \cup (visible \ durable))
  /\ stored' = stored \ (visible \ durable)
  /\ UNCHANGED <<durable, evicted, counted>>

\* Mutant: the .tmp files of the last process stay.
StartKeepingTmps ==
  /\ ~alive /\ alive' = TRUE
  /\ UNCHANGED <<diskVars, s3, writer, up, late, history>>

(* start(): every *.tmp is unlinked before any loop runs. *)
StartProcess ==
  /\ ~alive /\ alive' = TRUE
  /\ tmps' = {}
  /\ UNCHANGED <<visible, durable, s3, writer, up, late, history>>

----------------------------------------------------------------------------
(* Properties *)

Writer == [pc : WriterPc, objs : Seq(Object), i : Nat \ {0}, renamed : BOOLEAN,
           files : SUBSET Object, usage : Int, victim : SUBSET Object, lost : Nat]
Uploader == [pc : UploaderPc, files : SUBSET Object, obj : SUBSET Object]

(* The shape of the state; a thread writes an object of its own batch. *)
TypeOK ==
  /\ alive \in BOOLEAN
  /\ visible \subseteq Object /\ durable \subseteq Object /\ tmps \subseteq Object
  /\ s3 \subseteq Object /\ late \subseteq Object
  /\ evicted \subseteq Object /\ counted \subseteq evicted /\ stored \subseteq Object
  /\ evictedRows \in Nat
  /\ writer \in [Thread -> Writer]
  /\ up \in Uploader

(* A batch that reached its spool name is afterwards in the spool or in S3 *)
(* unless it was evicted: no order of rename, upload, unlink, eviction,    *)
(* cancellation and restart removes the file before its object is stored.  *)
NothingVanishes == stored \subseteq visible \cup s3 \cup evicted

(* However eviction and upload race for a file, an eviction that removes   *)
(* one adds at least its rows to self.dropped.                             *)
EvictionsAreCounted ==
  [][\A o \in evicted' \ evicted : evictedRows' >= evictedRows + Rows[o]]_vars

(* While the process lives, a .tmp in DISK_DIR is one that a thread is     *)
(* about to rename: failures, kills and power cuts leave none behind.      *)
TmpsAreLive ==
  alive => \A o \in tmps : \E t \in Thread : WriterAt(t, "rename") /\ Current(t) = o

(* The spool keeps to its budget, unless one batch is larger than all of   *)
(* it.                                                                     *)
DiskCap ==
  \/ Total(visible, Size) <= MaxDiskBytes
  \/ \E o \in visible : Size[o] > MaxDiskBytes
=============================================================================
