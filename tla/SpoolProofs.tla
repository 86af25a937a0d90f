---------------------------- MODULE SpoolProofs -----------------------------
(***************************************************************************)
(* The spool's properties under the caller of SpoolAlone, for every finite *)
(* set of objects, every set of threads, all sizes and every cap.          *)
(***************************************************************************)
EXTENDS SpoolAlone, TotalsProofs

----------------------------------------------------------------------------
(* Types *)

\* Where a thread has an object of its batch in hand.
Holding == {"list", "usage", "evict", "count", "unlink", "tmp", "rename"}

InBatch(w) == w.pc \in Holding => w.i \in 1..Len(w.objs)

Typed == TypeOK /\ \A t \in Thread : InBatch(writer[t])

LEMMA WriterFacts ==
  ASSUME Typed, NEW t \in Thread
  PROVE  /\ writer[t] \in Writer /\ InBatch(writer[t])
         /\ writer \in [Thread -> Writer] /\ DOMAIN writer = Thread
         /\ Len(writer[t].objs) \in Nat
         /\ writer[t].pc \in Holding => Current(t) \in Object
         /\ writer[t].pc = "next" /\ writer[t].i <= Len(writer[t].objs) =>
              Current(t) \in Object /\ writer[t].i \in 1..Len(writer[t].objs)
<1>1. writer[t] \in Writer /\ InBatch(writer[t]) /\ writer \in [Thread -> Writer]
  BY DEF Typed, TypeOK
<1>2. writer[t].objs \in Seq(Object) /\ writer[t].i \in Nat \ {0}
  BY <1>1 DEF Writer
<1>3. Len(writer[t].objs) \in Nat
  BY <1>2
<1>4. \A i \in 1..Len(writer[t].objs) : writer[t].objs[i] \in Object
  BY <1>2
<1> QED
  BY <1>1, <1>2, <1>3, <1>4 DEF InBatch, Current

LEMMA IdleTyped == IdleWriter \in Writer /\ InBatch(IdleWriter) /\ IdleUploader \in Uploader
<1>1. <<>> \in Seq(Object)
  OBVIOUS
<1> QED
  BY <1>1 DEF IdleWriter, IdleUploader, Writer, Uploader, WriterPc, UploaderPc, InBatch, Holding

\* One thread moves: the others are as they were.
LEMMA WriterReplaced ==
  ASSUME Typed, NEW t \in Thread, NEW w \in Writer, InBatch(w),
         writer' = [writer EXCEPT ![t] = w]
  PROVE  writer' \in [Thread -> Writer] /\ \A s \in Thread : InBatch(writer[s])'
<1>1. writer \in [Thread -> Writer] /\ \A s \in Thread : InBatch(writer[s])
  BY DEF Typed, TypeOK
<1>2. \A s \in Thread : writer'[s] = IF s = t THEN w ELSE writer[s]
  BY <1>1
<1> QED
  BY <1>1, <1>2 DEF InBatch

LEMMA UsageTyped == ASSUME Typed PROVE Total(visible, Size) \in Int
<1>1. IsFiniteSet(visible) /\ \A o \in visible : Size[o] \in Nat
  BY SpoolAssumption, FS_Subset DEF Typed, TypeOK
<1> QED
  BY <1>1, TotalType

\* A thread's step keeps the types.
LEMMA WriterTyped ==
  ASSUME Typed, NEW t \in Thread, WriterStep(t)
  PROVE  Typed'
<1> DEFINE Rest == /\ alive' \in BOOLEAN
                   /\ visible' \subseteq Object /\ durable' \subseteq Object /\ tmps' \subseteq Object
                   /\ s3' \subseteq Object /\ late' \subseteq Object
                   /\ evicted' \subseteq Object /\ counted' \subseteq evicted' /\ stored' \subseteq Object
                   /\ evictedRows' \in Nat
                   /\ up' \in Uploader
           w == writer[t]
<1>0. Typed /\ TypeOK
  BY DEF Typed
<1>a. /\ w \in Writer /\ InBatch(w)
      /\ writer \in [Thread -> Writer] /\ DOMAIN writer = Thread
      /\ Len(w.objs) \in Nat
  BY WriterFacts
<1>b. /\ w.pc \in Holding => Current(t) \in Object
      /\ w.pc = "next" /\ w.i <= Len(w.objs) =>
           Current(t) \in Object /\ w.i \in 1..Len(w.objs)
  BY WriterFacts
<1> USE <1>a, <1>b
<1>1. CASE SkipExisting(t)
  <2> DEFINE x == [w EXCEPT !.i = @ + 1]
  <2>0. w.pc = "next" /\ w.i \in Nat \ {0} /\ w.i + 1 \in Nat \ {0}
    BY <1>1 DEF SkipExisting, WriterAt, Writer
  <2>1. x \in Writer /\ InBatch(x)
    BY <2>0 DEF Writer, InBatch, Holding
  <2>2. writer' = [writer EXCEPT ![t] = x] /\ Rest
    BY <1>0, <1>1 DEF SkipExisting, FilesUnchanged, diskVars, history, TypeOK
  <2> QED
    BY <2>1, <2>2, WriterReplaced DEF Typed, TypeOK
<1>2. CASE BeginObject(t)
  <2> DEFINE x == [w EXCEPT !.pc = "list"]
  <2>1. x \in Writer /\ InBatch(x)
    BY <1>2 DEF BeginObject, WriterAt, Writer, WriterPc, InBatch, Holding
  <2>2. writer' = [writer EXCEPT ![t] = x] /\ Rest
    BY <1>0, <1>2 DEF BeginObject, WriterGoes, FilesUnchanged, diskVars, history, TypeOK
  <2> QED
    BY <2>1, <2>2, WriterReplaced DEF Typed, TypeOK
<1>3. CASE ListFiles(t)
  <2> DEFINE x == [w EXCEPT !.pc = "usage", !.files = visible]
  <2>1. x \in Writer /\ InBatch(x)
    BY <1>0, <1>3 DEF ListFiles, WriterAt, Writer, WriterPc, InBatch, Holding, TypeOK
  <2>2. writer' = [writer EXCEPT ![t] = x] /\ Rest
    BY <1>0, <1>3 DEF ListFiles, FilesUnchanged, diskVars, history, TypeOK
  <2> QED
    BY <2>1, <2>2, WriterReplaced DEF Typed, TypeOK
<1>4. CASE MeasureUsage(t)
  <2> DEFINE x == [w EXCEPT !.pc = "evict", !.usage = Total(visible, Size)]
  <2>1. x \in Writer /\ InBatch(x)
    BY <1>0, <1>4, UsageTyped DEF MeasureUsage, WriterAt, Writer, WriterPc, InBatch, Holding, TypeOK
  <2>2. writer' = [writer EXCEPT ![t] = x] /\ Rest
    BY <1>0, <1>4 DEF MeasureUsage, FilesUnchanged, diskVars, history, TypeOK
  <2> QED
    BY <2>1, <2>2, WriterReplaced DEF Typed, TypeOK
<1>5. CASE PickVictim(t)
  <2> PICK v \in Oldest(w.files) \cap visible :
         writer' = [writer EXCEPT ![t].pc = "count", ![t].files = @ \ {v}, ![t].victim = {v}]
    BY <1>5 DEF PickVictim
  <2> DEFINE x == [w EXCEPT !.pc = "count", !.files = @ \ {v}, !.victim = {v}]
  <2>1. v \in Object /\ w.pc \in Holding
    BY <1>0, <1>5 DEF PickVictim, WriterAt, Holding, TypeOK
  <2>2. w.files \ {v} \subseteq Object /\ {v} \subseteq Object /\ x.objs = w.objs /\ x.i = w.i
    BY <2>1 DEF Writer
  <2>3. x \in Writer
    BY <2>2 DEF Writer, WriterPc
  <2>4. InBatch(x)
    BY <2>1, <2>2 DEF InBatch
  <2>5. writer' = [writer EXCEPT ![t] = x] /\ Rest
    BY <1>0, <1>5 DEF PickVictim, FilesUnchanged, diskVars, history, TypeOK
  <2> QED
    BY <2>3, <2>4, <2>5, WriterReplaced DEF Typed, TypeOK
<1>6. CASE CountRows(t)
  <2> PICK n \in Nat : writer' = [writer EXCEPT ![t].pc = "unlink", ![t].lost = n]
    <3> PICK v \in w.victim :
           \E n \in {IF v \in visible THEN Rows[v] ELSE 0}
                    \cup (IF "read" \in Faults THEN {0} ELSE {}) :
             writer' = [writer EXCEPT ![t].pc = "unlink", ![t].lost = n]
      BY <1>6 DEF CountRows
    <3>1. v \in Object /\ Rows[v] \in Nat
      BY <1>0, SpoolAssumption DEF Writer
    <3> QED
      BY <3>1
  <2> DEFINE x == [w EXCEPT !.pc = "unlink", !.lost = n]
  <2>1. x \in Writer /\ InBatch(x)
    BY <1>0, <1>6 DEF CountRows, WriterAt, Writer, WriterPc, InBatch, Holding
  <2>2. writer' = [writer EXCEPT ![t] = x] /\ Rest
    BY <1>0, <1>6 DEF CountRows, FilesUnchanged, diskVars, history, TypeOK
  <2> QED
    BY <2>1, <2>2, WriterReplaced DEF Typed, TypeOK
<1>7. CASE UnlinkVictim(t)
  <2> PICK v \in w.victim :
         /\ visible' = visible \ {v}
         /\ evicted' = evicted \cup ({v} \cap visible)
         /\ counted' = counted \cup {o \in {v} \cap visible : w.lost >= Rows[o]}
         /\ writer' = [writer EXCEPT ![t].pc = "evict", ![t].usage = @ - Size[v],
                                     ![t].victim = {}, ![t].lost = 0]
    BY <1>7 DEF UnlinkVictim
  <2> DEFINE x == [w EXCEPT !.pc = "evict", !.usage = @ - Size[v], !.victim = {}, !.lost = 0]
  <2>0. v \in Object /\ Size[v] \in Nat /\ w.lost \in Nat /\ w.usage \in Int
    BY <1>0, SpoolAssumption DEF Writer
  <2>1. x \in Writer /\ InBatch(x)
    <3>1. w.pc \in Holding /\ w.usage - Size[v] \in Int
      BY <1>7, <2>0 DEF UnlinkVictim, WriterAt, Holding
    <3> QED
      BY <3>1, <2>0 DEF Writer, WriterPc, InBatch, Holding
  <2>2. writer' = [writer EXCEPT ![t] = x]
    OBVIOUS
  <2>3. evictedRows' \in Nat
    BY <1>0, <1>7, <2>0 DEF UnlinkVictim, TypeOK
  <2>4. visible' \subseteq Object /\ evicted' \subseteq Object /\ counted' \subseteq evicted'
    BY <1>0 DEF TypeOK
  <2>5. Rest
    BY <1>0, <1>7, <2>3, <2>4 DEF UnlinkVictim, TypeOK
  <2> QED
    BY <2>1, <2>2, <2>5, WriterReplaced DEF Typed, TypeOK
<1>8. CASE VictimGone(t) \/ EvictionFails(t) \/ EvictionDone(t)
  <2> DEFINE x == [w EXCEPT !.pc = "tmp", !.files = {}, !.usage = 0, !.victim = {}, !.lost = 0]
  <2>1. x \in Writer /\ InBatch(x)
    <3>1. w.pc \in Holding
      BY <1>8 DEF VictimGone, EvictionFails, EvictionDone, WriterAt, Holding
    <3>2. 0 \in Nat /\ 0 \in Int /\ {} \subseteq Object /\ x.objs = w.objs /\ x.i = w.i
      BY DEF Writer
    <3>3. x \in Writer
      BY <3>2 DEF Writer, WriterPc
    <3> QED
      BY <3>1, <3>2, <3>3 DEF InBatch
  <2>2. writer' = [writer EXCEPT ![t] = x] /\ Rest
    BY <1>0, <1>8 DEF VictimGone, EvictionFails, EvictionDone, LeaveEviction, FilesUnchanged, diskVars, history, TypeOK
  <2> QED
    BY <2>1, <2>2, WriterReplaced DEF Typed, TypeOK
<1>9. CASE WriteTmp(t)
  <2> DEFINE x == [w EXCEPT !.pc = "rename"]
  <2>1. x \in Writer /\ InBatch(x) /\ Current(t) \in Object
    BY <1>0, <1>9 DEF WriteTmp, WriterAt, Writer, WriterPc, InBatch, Holding
  <2>2. writer' = [writer EXCEPT ![t] = x] /\ Rest
    BY <1>0, <1>9, <2>1 DEF WriteTmp, WriterGoes, history, TypeOK
  <2> QED
    BY <2>1, <2>2, WriterReplaced DEF Typed, TypeOK
<1>10. CASE RenameTmp(t)
  <2> DEFINE x == [w EXCEPT !.pc = "next", !.i = @ + 1, !.renamed = TRUE]
  <2>1. x \in Writer /\ InBatch(x) /\ Current(t) \in Object
    BY <1>0, <1>10 DEF RenameTmp, WriterAt, Writer, WriterPc, InBatch, Holding
  <2>2. writer' = [writer EXCEPT ![t] = x] /\ Rest
    BY <1>0, <1>10, <2>1 DEF RenameTmp, TypeOK
  <2> QED
    BY <2>1, <2>2, WriterReplaced DEF Typed, TypeOK
<1>11. CASE ObjectsDone(t)
  <2> DEFINE x == [w EXCEPT !.pc = IF w.renamed THEN "sync" ELSE "true"]
  <2>1. x \in Writer /\ InBatch(x)
    BY <1>0, <1>11 DEF ObjectsDone, WriterAt, Writer, WriterPc, InBatch, Holding
  <2>2. writer' = [writer EXCEPT ![t] = x] /\ Rest
    BY <1>0, <1>11 DEF ObjectsDone, WriterGoes, FilesUnchanged, diskVars, history, TypeOK
  <2> QED
    BY <2>1, <2>2, WriterReplaced DEF Typed, TypeOK
<1>12. CASE FsyncDir(t)
  <2> DEFINE x == [w EXCEPT !.pc = "true"]
  <2>1. x \in Writer /\ InBatch(x)
    BY <1>0, <1>12 DEF FsyncDir, WriterAt, Writer, WriterPc, InBatch, Holding
  <2>2. writer' = [writer EXCEPT ![t] = x] /\ Rest
    BY <1>0, <1>12 DEF FsyncDir, WriterGoes, history, TypeOK
  <2> QED
    BY <2>1, <2>2, WriterReplaced DEF Typed, TypeOK
<1>13. CASE WriteFails(t)
  <2> DEFINE x == [IdleWriter EXCEPT !.pc = "false", !.objs = w.objs]
  <2>1. x \in Writer /\ InBatch(x)
    BY <1>0, IdleTyped DEF IdleWriter, Writer, WriterPc, InBatch, Holding
  <2>2. tmps' \subseteq Object
    BY <1>0, <1>13 DEF WriteFails, WriteRaises, TypeOK, Holding
  <2>3. writer' = [writer EXCEPT ![t] = x] /\ Rest
    BY <1>0, <1>13, <2>2 DEF WriteFails, history, TypeOK
  <2> QED
    BY <2>1, <2>3, WriterReplaced DEF Typed, TypeOK
<1> QED
  BY <1>1, <1>2, <1>3, <1>4, <1>5, <1>6, <1>7, <1>8, <1>9, <1>10, <1>11, <1>12, <1>13
     DEF WriterStep, WriterProgress

\* What the uploader, its stragglers and the filesystem do keeps the types.
LEMMA UploadTyped ==
  ASSUME Typed, NEW others \in SUBSET Object,
         BeginPass \/ UploadStep \/ CancelUploads(others) \/ LatePut \/ JournalCommit \/ StartProcess
  PROVE  Typed'
<1>0. TypeOK
  BY DEF Typed
<1>1. up.files \subseteq Object /\ up.obj \subseteq Object /\ up \in Uploader
  BY <1>0 DEF TypeOK, Uploader
<1>2. writer' = writer
  BY DEF BeginPass, UploadStep, UploadProgress, ReadFile, SkipFile, PutOk, DeleteUploaded, EndPass,
         PutFails, DeleteFails, CancelUploads, LatePut, JournalCommit, StartProcess, UploadKeeps
<1>3. evictedRows' = evictedRows /\ evicted' = evicted /\ counted' = counted /\ stored' = stored
  BY DEF BeginPass, UploadStep, UploadProgress, ReadFile, SkipFile, PutOk, DeleteUploaded, EndPass,
         PutFails, DeleteFails, CancelUploads, LatePut, JournalCommit, StartProcess, UploadKeeps, history
<1>4. alive' \in BOOLEAN
  BY <1>0 DEF BeginPass, UploadStep, UploadProgress, ReadFile, SkipFile, PutOk, DeleteUploaded, EndPass,
         PutFails, DeleteFails, CancelUploads, LatePut, JournalCommit, StartProcess, UploadKeeps, TypeOK
<1>5. visible' \subseteq Object /\ durable' \subseteq Object /\ tmps' \subseteq Object
  BY <1>0 DEF BeginPass, UploadStep, UploadProgress, ReadFile, SkipFile, PutOk, DeleteUploaded, EndPass,
         PutFails, DeleteFails, CancelUploads, LatePut, JournalCommit, StartProcess, UploadKeeps, diskVars, TypeOK
<1>6. s3' \subseteq Object /\ late' \subseteq Object
  BY <1>0, <1>1 DEF BeginPass, UploadStep, UploadProgress, ReadFile, SkipFile, PutOk, DeleteUploaded, EndPass,
         PutFails, DeleteFails, CancelUploads, InFlight, LatePut, JournalCommit, StartProcess, UploadKeeps, TypeOK
<1>7. up' \in Uploader
  <2>1. CASE BeginPass
    BY <2>1, <1>0 DEF BeginPass, IdleUploader, Uploader, UploaderPc, TypeOK
  <2>2. CASE ReadFile
    BY <2>2, <1>0, <1>1 DEF ReadFile, Uploader, UploaderPc, TypeOK
  <2>3. CASE SkipFile
    BY <2>3, <1>1 DEF SkipFile, Uploader
  <2>4. CASE PutOk \/ DeleteUploaded \/ DeleteFails
    BY <2>4, <1>1 DEF PutOk, DeleteUploaded, DeleteFails, Uploader, UploaderPc
  <2>5. CASE EndPass \/ PutFails \/ CancelUploads(others)
    BY <2>5, IdleTyped DEF EndPass, PutFails, CancelUploads
  <2>6. CASE LatePut \/ JournalCommit \/ StartProcess
    BY <2>6, <1>1 DEF LatePut, JournalCommit, StartProcess
  <2> QED
    BY <2>1, <2>2, <2>3, <2>4, <2>5, <2>6 DEF UploadStep, UploadProgress
<1> QED
  BY <1>0, <1>2, <1>3, <1>4, <1>5, <1>6, <1>7 DEF Typed, TypeOK, InBatch

LEMMA FlushTyped ==
  ASSUME Typed, NEW t \in Thread, Flush(t)
  PROVE  Typed'
<1> PICK objs \in Batches : Submit(t, objs)
  BY DEF Flush
<1> DEFINE x == [IdleWriter EXCEPT !.pc = "next", !.objs = objs]
<1>1. objs \in Seq(Object)
  <2> PICK n \in 1..MaxObjects : objs \in [1..n -> Object]
    BY DEF Batches
  <2> QED
    BY SpoolAssumption
<1>2. x \in Writer /\ InBatch(x)
  BY <1>1, IdleTyped DEF Writer, WriterPc, IdleWriter, InBatch, Holding
<1>3. writer' = [writer EXCEPT ![t] = x] /\ FilesUnchanged
  BY DEF Submit
<1> QED
  BY <1>2, <1>3, WriterReplaced DEF FilesUnchanged, diskVars, history, Typed, TypeOK

LEMMA AnswerTyped ==
  ASSUME Typed, NEW t \in Thread, Answer(t)
  PROVE  Typed'
<1>1. writer' = [writer EXCEPT ![t] = IdleWriter] /\ FilesUnchanged
  BY DEF Answer, Collect
<1> QED
  BY <1>1, IdleTyped, WriterReplaced DEF FilesUnchanged, diskVars, history, Typed, TypeOK

LEMMA EndTyped ==
  ASSUME Typed, NEW others \in SUBSET Object, PowerCut(others) \/ ProcessEnds(others)
  PROVE  Typed'
<1>0. TypeOK /\ up.obj \subseteq Object
  BY DEF Typed, TypeOK, Uploader
<1>1. ThreadsDie(others)
  BY DEF PowerCut, ProcessEnds
<1>2. /\ alive' \in BOOLEAN /\ late' \subseteq Object /\ evictedRows' \in Nat
      /\ up' \in Uploader /\ writer' \in [Thread -> Writer]
      /\ \A t \in Thread : InBatch(writer[t])'
  BY <1>1, IdleTyped DEF ThreadsDie, InBatch
<1>3. s3' \subseteq Object
  BY <1>0, <1>1 DEF ThreadsDie, InFlight, TypeOK
<1>4. /\ visible' \subseteq Object /\ durable' \subseteq Object /\ tmps' \subseteq Object
      /\ evicted' \subseteq Object /\ counted' \subseteq evicted' /\ stored' \subseteq Object
  BY <1>0 DEF PowerCut, ProcessEnds, diskVars, TypeOK
<1> QED
  BY <1>2, <1>3, <1>4 DEF Typed, TypeOK

LEMMA InitTyped == InitAlone => Typed
<1> SUFFICES ASSUME InitAlone PROVE Typed
  OBVIOUS
<1>1. writer \in [Thread -> Writer] /\ up \in Uploader /\ \A t \in Thread : InBatch(writer[t])
  BY IdleTyped DEF InitAlone, Init
<1> QED
  BY <1>1 DEF InitAlone, Init, Typed, TypeOK

LEMMA NextTyped == Typed /\ [Next]_allVars => Typed'
<1> SUFFICES ASSUME Typed, [Next]_allVars PROVE Typed'
  OBVIOUS
<1>1. CASE Threads
  BY <1>1, FlushTyped, AnswerTyped DEF Threads
<1>2. CASE EndOfProcess
  BY <1>2, EndTyped DEF EndOfProcess
<1>3. CASE Quiet
  BY <1>3, WriterTyped, UploadTyped DEF Quiet
<1>4. CASE UNCHANGED allVars
  BY <1>4 DEF allVars, vars, diskVars, history, Typed, TypeOK, InBatch
<1> QED
  BY <1>1, <1>2, <1>3, <1>4 DEF Next

LEMMA TypesHold == Spec => []Typed
BY InitTyped, NextTyped, PTL DEF Spec

(* The state keeps its shape: every thread works within the batch it was   *)
(* given and the counter of evicted rows never goes below zero.            *)
THEOREM SpoolTypes == Spec => []TypeOK
<1>1. Typed => TypeOK
  BY DEF Typed
<1> QED
  BY <1>1, TypesHold, PTL

----------------------------------------------------------------------------
(* Nothing vanishes *)

\* What the uploader is about to delete is in the bucket.
DeletesStored == up.pc = "unlink" => up.obj \subseteq s3

Kept == NothingVanishes /\ DeletesStored

LEMMA WriterKeeps ==
  ASSUME Kept, NEW t \in Thread, WriterStep(t)
  PROVE  Kept'
<1>1. CASE RenameTmp(t)
  BY <1>1 DEF RenameTmp, Kept, NothingVanishes, DeletesStored
<1>2. CASE UnlinkVictim(t)
  <2>1. visible \subseteq visible' \cup evicted' /\ evicted \subseteq evicted'
    BY <1>2 DEF UnlinkVictim
  <2> QED
    BY <1>2, <2>1 DEF UnlinkVictim, Kept, NothingVanishes, DeletesStored
<1>3. CASE FsyncDir(t) \/ WriteTmp(t) \/ WriteFails(t)
  BY <1>3 DEF FsyncDir, WriteTmp, WriteFails, history, Kept, NothingVanishes, DeletesStored
<1>4. CASE FilesUnchanged
  BY <1>4 DEF FilesUnchanged, diskVars, history, Kept, NothingVanishes, DeletesStored
<1> QED
  BY <1>1, <1>2, <1>3, <1>4
     DEF WriterStep, WriterProgress, SkipExisting, BeginObject, ListFiles, MeasureUsage, PickVictim,
         VictimGone, CountRows, EvictionDone, EvictionFails, LeaveEviction, ObjectsDone

LEMMA UploadKeepsAll ==
  ASSUME Kept, up \in Uploader, NEW others,
         BeginPass \/ UploadStep \/ CancelUploads(others) \/ LatePut \/ JournalCommit \/ StartProcess
  PROVE  Kept'
<1>1. CASE BeginPass \/ ReadFile \/ SkipFile \/ EndPass \/ DeleteFails \/ CancelUploads(others)
  <2>1. up'.pc # "unlink" \/ (up.pc = "next" /\ up'.pc = up.pc)
    <3>1. CASE ReadFile
      BY <3>1 DEF ReadFile
    <3>2. CASE SkipFile \/ DeleteFails
      BY <3>2 DEF SkipFile, DeleteFails, Uploader
    <3>3. CASE BeginPass
      BY <3>3 DEF BeginPass, IdleUploader
    <3>4. CASE EndPass \/ CancelUploads(others)
      BY <3>4 DEF EndPass, CancelUploads, IdleUploader
    <3> QED
      BY <1>1, <3>1, <3>2, <3>3, <3>4
  <2>2. UNCHANGED <<visible, s3, evicted, stored>>
    BY <1>1 DEF BeginPass, ReadFile, SkipFile, EndPass, DeleteFails, CancelUploads, UploadKeeps,
                diskVars, history
  <2> QED
    BY <2>1, <2>2 DEF Kept, NothingVanishes, DeletesStored
<1>2. CASE PutOk
  BY <1>2 DEF PutOk, Uploader, diskVars, history, Kept, NothingVanishes, DeletesStored
<1>3. CASE DeleteUploaded
  BY <1>3 DEF DeleteUploaded, history, Kept, NothingVanishes, DeletesStored
<1>4. CASE PutFails
  BY <1>4 DEF PutFails, IdleUploader, diskVars, history, Kept, NothingVanishes, DeletesStored
<1>5. CASE LatePut
  BY <1>5 DEF LatePut, diskVars, history, Kept, NothingVanishes, DeletesStored
<1>6. CASE JournalCommit \/ StartProcess
  BY <1>6 DEF JournalCommit, StartProcess, history, Kept, NothingVanishes, DeletesStored
<1> QED
  BY <1>1, <1>2, <1>3, <1>4, <1>5, <1>6 DEF UploadStep, UploadProgress

LEMMA EndKeeps ==
  ASSUME Kept, NEW others, PowerCut(others) \/ ProcessEnds(others)
  PROVE  Kept'
<1>1. up'.pc = "idle" /\ s3 \subseteq s3'
  BY DEF PowerCut, ProcessEnds, ThreadsDie, IdleUploader
<1>2. CASE PowerCut(others)
  BY <1>1, <1>2 DEF PowerCut, Kept, NothingVanishes, DeletesStored
<1>3. CASE ProcessEnds(others)
  BY <1>1, <1>3 DEF ProcessEnds, diskVars, Kept, NothingVanishes, DeletesStored
<1> QED
  BY <1>2, <1>3

LEMMA KeptHolds == Spec => []Kept
<1>1. InitAlone => Kept
  BY DEF InitAlone, Init, IdleUploader, Kept, NothingVanishes, DeletesStored
<1>2. Typed /\ Kept /\ [Next]_allVars => Kept'
  <2> SUFFICES ASSUME Typed, Kept, [Next]_allVars PROVE Kept'
    OBVIOUS
  <2>1. CASE Threads
    BY <2>1 DEF Threads, Flush, Submit, Answer, Collect, FilesUnchanged, diskVars, history,
                Kept, NothingVanishes, DeletesStored
  <2>2. CASE EndOfProcess
    BY <2>2, EndKeeps DEF EndOfProcess
  <2>3. CASE Quiet
    BY <2>3, WriterKeeps, UploadKeepsAll DEF Quiet, Typed, TypeOK
  <2>4. CASE UNCHANGED allVars
    BY <2>4 DEF allVars, vars, diskVars, history, Kept, NothingVanishes, DeletesStored
  <2> QED
    BY <2>1, <2>2, <2>3, <2>4 DEF Next
<1> QED
  BY <1>1, <1>2, TypesHold, PTL DEF Spec

(* No order of rename, upload, unlink, eviction, cancellation, kill and    *)
(* power cut removes a spooled file before its object is in the bucket,    *)
(* for any number of threads, batches of any size and every fault of       *)
(* FaultKinds: the uploader deletes only what its own PUT has stored.      *)
THEOREM SpoolLosesNothing == Spec => []NothingVanishes
<1>1. Kept => NothingVanishes
  BY DEF Kept
<1> QED
  BY <1>1, KeptHolds, PTL

----------------------------------------------------------------------------
(* Temporary files *)

LEMMA OthersStay ==
  ASSUME Typed, NEW t \in Thread, NEW x, writer' = [writer EXCEPT ![t] = x]
  PROVE  writer'[t] = x /\ \A s \in Thread \ {t} : writer'[s] = writer[s]
<1>1. writer \in [Thread -> Writer]
  BY DEF Typed, TypeOK
<1> QED
  BY <1>1

LEMMA WriterLeavesNoTmp ==
  ASSUME Typed, TmpsAreLive, "unlink" \notin Faults, NEW t \in Thread, WriterStep(t)
  PROVE  TmpsAreLive'
<1> DEFINE Renames(s) == writer[s].pc = "rename"
<1>0. TmpsAreLive <=> (alive => \A o \in tmps : \E s \in Thread : Renames(s) /\ Current(s) = o)
  BY DEF TmpsAreLive, WriterAt
<1>1. alive' = alive
  BY DEF WriterStep, WriterProgress, SkipExisting, BeginObject, ListFiles, MeasureUsage, PickVictim,
         VictimGone, CountRows, UnlinkVictim, EvictionDone, EvictionFails, LeaveEviction, WriteTmp,
         RenameTmp, ObjectsDone, FsyncDir, WriteFails, FilesUnchanged
<1>2. writer \in [Thread -> Writer] /\ DOMAIN writer = Thread
  BY DEF Typed, TypeOK
<1>3. \A s \in Thread \ {t} : writer'[s] = writer[s]
  BY <1>2 DEF WriterStep, WriterProgress, SkipExisting, BeginObject, ListFiles, MeasureUsage, PickVictim,
         VictimGone, CountRows, UnlinkVictim, EvictionDone, EvictionFails, LeaveEviction, WriteTmp,
         RenameTmp, ObjectsDone, FsyncDir, WriteFails, WriterGoes
<1>4. \A s \in Thread \ {t} : Renames(s) => Renames(s)' /\ Current(s)' = Current(s)
  BY <1>3 DEF Current
<1>5. CASE WriteTmp(t)
  <2>1. writer'[t].pc = "rename" /\ writer'[t].objs = writer[t].objs /\ writer'[t].i = writer[t].i
    BY <1>2, <1>5 DEF WriteTmp, WriterGoes, Writer
  <2>2. Renames(t)' /\ Current(t)' = Current(t)
    BY <2>1 DEF Current
  <2>3. ~Renames(t) /\ tmps' = tmps \cup {Current(t)}
    BY <1>5 DEF WriteTmp, WriterAt
  <2> QED
    BY <1>0, <1>1, <1>4, <2>2, <2>3 DEF TmpsAreLive, WriterAt
<1>6. CASE RenameTmp(t) \/ (WriteFails(t) /\ writer[t].pc \in {"tmp", "rename"})
  <2>1. tmps' = tmps \ {Current(t)}
    BY <1>6 DEF RenameTmp, WriteFails
  <2> QED
    BY <1>0, <1>1, <1>4, <2>1 DEF TmpsAreLive, WriterAt
<1>7. CASE ~Renames(t) /\ tmps' = tmps
  BY <1>0, <1>1, <1>4, <1>7 DEF TmpsAreLive, WriterAt
<1>8. ~Renames(t) \/ RenameTmp(t) \/ (WriteFails(t) /\ writer[t].pc \in {"tmp", "rename"})
  BY DEF WriterStep, WriterProgress, SkipExisting, BeginObject, ListFiles, MeasureUsage, PickVictim,
         VictimGone, CountRows, UnlinkVictim, EvictionDone, EvictionFails, LeaveEviction, WriteTmp,
         RenameTmp, ObjectsDone, FsyncDir, WriteFails, WriterAt
<1>9. tmps' = tmps \/ WriteTmp(t) \/ RenameTmp(t) \/ (WriteFails(t) /\ writer[t].pc \in {"tmp", "rename"})
  BY DEF WriterStep, WriterProgress, SkipExisting, BeginObject, ListFiles, MeasureUsage, PickVictim,
         VictimGone, CountRows, UnlinkVictim, EvictionDone, EvictionFails, LeaveEviction,
         ObjectsDone, FsyncDir, WriteFails, FilesUnchanged, diskVars
<1> QED
  BY <1>5, <1>6, <1>7, <1>8, <1>9

(* While the process lives, every .tmp is one that a thread is about to    *)
(* rename, whatever else fails, is killed or loses power: only a failing   *)
(* unlink leaves one behind.                                               *)
THEOREM NoTmpIsLeft == ASSUME "unlink" \notin Faults PROVE Spec => []TmpsAreLive
<1>1. InitAlone => TmpsAreLive
  BY DEF InitAlone, Init, TmpsAreLive
<1>2. Typed /\ TmpsAreLive /\ [Next]_allVars => TmpsAreLive'
  <2> SUFFICES ASSUME Typed, TmpsAreLive, [Next]_allVars PROVE TmpsAreLive'
    OBVIOUS
  <2>1. ASSUME NEW t \in Thread, Flush(t) \/ Answer(t) PROVE TmpsAreLive'
    <3>1. writer[t].pc # "rename" /\ alive' = alive /\ tmps' = tmps
      BY <2>1 DEF Flush, Submit, Answer, Collect, FilesUnchanged, diskVars, WriterAt
    <3>2. \A s \in Thread \ {t} : writer'[s] = writer[s]
      BY <2>1, OthersStay DEF Flush, Submit, Answer, Collect
    <3> QED
      BY <3>1, <3>2 DEF TmpsAreLive, WriterAt, Current
  <2>2. CASE EndOfProcess
    BY <2>2 DEF EndOfProcess, PowerCut, ProcessEnds, ThreadsDie, TmpsAreLive
  <2>3. CASE \E t \in Thread : WriterStep(t)
    BY <2>3, WriterLeavesNoTmp
  <2>4. CASE StartProcess
    BY <2>4 DEF StartProcess, TmpsAreLive
  <2>5. CASE BeginPass \/ UploadStep \/ CancelUploads({}) \/ LatePut \/ JournalCommit \/ UNCHANGED allVars
    <3>1. UNCHANGED <<alive, tmps, writer>>
      BY <2>5 DEF BeginPass, UploadStep, UploadProgress, ReadFile, SkipFile, PutOk, DeleteUploaded,
                  EndPass, PutFails, DeleteFails, CancelUploads, LatePut, JournalCommit, UploadKeeps,
                  diskVars, allVars, vars
    <3> QED
      BY <3>1 DEF TmpsAreLive, WriterAt, Current
  <2> QED
    BY <2>1, <2>2, <2>3, <2>4, <2>5 DEF Next, Threads, Quiet
<1> QED
  BY <1>1, <1>2, TypesHold, PTL DEF Spec
----------------------------------------------------------------------------
(* True means durable *)

\* Where an object whose rename was seen may be; where a power cut leaves it.
Safe == visible \cup s3 \cup evicted
Committed == durable \cup s3 \cup evicted
OnDisk == visible \cup durable

Own(w) == w.objs[1]

\* The one object of the call has not been renamed by it.
Fresh(w) == w.pc \in Holding \cup {"false"} \/ (w.pc = "next" /\ w.i = 1)

\* A call on a batch of one object.
Single(w) == w.pc # "idle" =>
  /\ Len(w.objs) = 1
  /\ w.pc \in Holding => w.i = 1
  /\ w.pc = "next" => w.i = 1 \/ (w.i = 2 /\ w.renamed)

\* After the rename the object is safe, and committed when the answer is True.
Reached(w, safe, committed) ==
  /\ w.pc = "sync" \/ (w.pc = "next" /\ w.i = 2) => Own(w) \in safe
  /\ w.pc = "true" => Own(w) \in committed

OneThreadEach ==
  /\ \A t \in Thread : writer[t].pc # "idle" => caller[Own(writer[t])] = "writing"
  /\ \A s, t \in Thread :
       s # t /\ writer[s].pc # "idle" /\ writer[t].pc # "idle" => Own(writer[s]) # Own(writer[t])

\* No file has the name of an object that is still to be written.
UnwrittenOffDisk ==
  /\ \A o \in Object : caller[o] = "held" => o \notin OnDisk
  /\ \A t \in Thread : Fresh(writer[t]) => Own(writer[t]) \notin OnDisk

Placing ==
  /\ caller \in [Object -> CallerStates]
  /\ \A t \in Thread : Single(writer[t]) /\ Reached(writer[t], Safe, Committed)
  /\ OneThreadEach
  /\ UnwrittenOffDisk
  /\ durable \subseteq Safe
  /\ PlacedIsDurable

\* The object has been written: no thread has yet to rename it.
Written(o) ==
  /\ caller[o] # "held"
  /\ \A t \in Thread : Fresh(writer[t]) => Own(writer[t]) # o

\* What is written once is not written again: a name that has gone stays gone.
WrittenOnce == \A o \in Object : Written(o) => Written(o)' /\ (o \in visible' => o \in visible)

\* How a step that is no power cut changes the files: only those in new are added.
FilesAdvance(new) ==
  /\ visible' \subseteq visible \cup new
  /\ durable' = durable \/ durable' = visible
  /\ visible \subseteq Safe' /\ s3 \subseteq s3' /\ evicted \subseteq evicted'

LEMMA AdvanceFacts ==
  ASSUME durable \subseteq Safe, NEW new, FilesAdvance(new)
  PROVE  Safe \subseteq Safe' /\ Committed \subseteq Committed' /\ durable' \subseteq Safe'
         /\ OnDisk' \subseteq OnDisk \cup new
BY DEF FilesAdvance, Safe, Committed, OnDisk

LEMMA OwnTyped ==
  ASSUME Typed, NEW t \in Thread, Single(writer[t]), writer[t].pc # "idle"
  PROVE  Own(writer[t]) \in Object
<1>1. writer[t].objs \in Seq(Object) /\ Len(writer[t].objs) = 1
  BY WriterFacts DEF Writer, Single
<1> QED
  BY <1>1 DEF Own

\* One thread's call goes on.
LEMMA CallAdvances ==
  ASSUME Typed, Placing, NEW t \in Thread, NEW x,
         writer' = [writer EXCEPT ![t] = x], caller' = caller,
         writer[t].pc # "idle", x.pc # "idle", x.objs = writer[t].objs,
         Single(x), Reached(x, Safe', Committed'),
         Fresh(x) => Fresh(writer[t]) /\ Own(x) \notin visible',
         FilesAdvance({Own(writer[t])}), Fresh(writer[t]) \/ visible' \subseteq visible
  PROVE  Placing' /\ WrittenOnce
<1> DEFINE w == writer[t]
<1>0. Own(w) \in Object /\ Own(x) = Own(w)
  BY OwnTyped DEF Placing, Own
<1>1. writer'[t] = x /\ \A s \in Thread \ {t} : writer'[s] = writer[s]
  BY OthersStay
<1>2. Safe \subseteq Safe' /\ Committed \subseteq Committed' /\ durable' \subseteq Safe'
      /\ OnDisk' \subseteq OnDisk \cup {Own(w)}
  BY AdvanceFacts DEF Placing
<1>3. \A s \in Thread : Single(writer'[s]) /\ Reached(writer'[s], Safe', Committed')
  BY <1>1, <1>2 DEF Placing, Reached
<1>4. OneThreadEach'
  BY <1>0, <1>1 DEF Placing, OneThreadEach, Own
<1>5. UnwrittenOffDisk'
  <2>1. \A o \in Object : caller[o] = "held" => o # Own(w)
    BY DEF Placing, OneThreadEach
  <2>2. \A s \in Thread \ {t} : Fresh(writer[s]) => Own(writer[s]) # Own(w)
    BY DEF Placing, OneThreadEach, Fresh, Holding
  <2>3. Fresh(x) => Own(x) \notin OnDisk'
    BY <1>0 DEF Placing, UnwrittenOffDisk, OnDisk, FilesAdvance
  <2> QED
    BY <1>1, <1>2, <2>1, <2>2, <2>3 DEF Placing, UnwrittenOffDisk
<1>6. PlacedIsDurable'
  BY <1>2 DEF Placing, PlacedIsDurable, Committed
<1>7. WrittenOnce
  <2> SUFFICES ASSUME NEW o \in Object, Written(o)
               PROVE  Written(o)' /\ (o \in visible' => o \in visible)
    BY DEF WrittenOnce
  <2>1. Fresh(writer[t]) => o # Own(w)
    BY DEF Written
  <2>2. Written(o)'
    BY <1>0, <1>1, <2>1 DEF Written
  <2> QED
    BY <2>1, <2>2 DEF FilesAdvance
<1> QED
  BY <1>2, <1>3, <1>4, <1>5, <1>6, <1>7 DEF Placing

\* The files change under calls that stand still.
LEMMA FilesMove ==
  ASSUME Placing, UNCHANGED <<writer, caller>>, FilesAdvance({})
  PROVE  Placing' /\ WrittenOnce
<1>1. Safe \subseteq Safe' /\ Committed \subseteq Committed' /\ durable' \subseteq Safe' /\ OnDisk' \subseteq OnDisk
  BY AdvanceFacts DEF Placing
<1>2. PlacedIsDurable'
  BY <1>1 DEF Placing, PlacedIsDurable, Committed
<1>3. \A s \in Thread : Single(writer'[s]) /\ Reached(writer'[s], Safe', Committed')
  BY <1>1 DEF Placing, Reached
<1>4. OneThreadEach' /\ UnwrittenOffDisk'
  BY <1>1 DEF Placing, OneThreadEach, UnwrittenOffDisk
<1>5. WrittenOnce
  BY DEF WrittenOnce, Written, FilesAdvance
<1> QED
  BY <1>1, <1>2, <1>3, <1>4, <1>5 DEF Placing
LEMMA WriterPlaces ==
  ASSUME Typed, Placing, "fsync" \notin Faults, NEW t \in Thread, WriterStep(t), caller' = caller
  PROVE  Placing' /\ WrittenOnce
<1> DEFINE w == writer[t]
           Still == UNCHANGED <<visible, durable, s3, evicted>>
<1>0. w \in Writer /\ Single(w) /\ Reached(w, Safe, Committed) /\ durable \subseteq Safe
      /\ (Fresh(w) => Own(w) \notin visible) /\ w.i \in Nat
  BY WriterFacts DEF Placing, UnwrittenOffDisk, OnDisk, Writer
<1>a. FilesUnchanged => Still
  BY DEF FilesUnchanged, diskVars, history
<1>b. Still => \A new : FilesAdvance(new) /\ Safe' = Safe /\ Committed' = Committed /\ visible' = visible
  BY DEF FilesAdvance, Safe, Committed
<1>c. ASSUME NEW x, writer' = [writer EXCEPT ![t] = x], w.pc \in Holding, x.pc \in Holding,
             x.objs = w.objs, x.i = w.i, FilesAdvance({Own(w)}), visible' \subseteq visible
      PROVE  Placing' /\ WrittenOnce
  <2>1. w.pc # "idle" /\ x.pc # "idle" /\ Fresh(w) /\ Own(x) = Own(w)
    BY <1>c DEF Fresh, Holding, Own
  <2>2. Single(x) /\ Reached(x, Safe', Committed')
    BY <1>0, <1>c DEF Single, Reached, Holding
  <2> QED
    BY <1>0, <1>c, <2>1, <2>2, CallAdvances
<1>1. CASE SkipExisting(t)
  <2>1. w.pc = "next" /\ w.i <= Len(w.objs) /\ Len(w.objs) = 1
    BY <1>0, <1>1 DEF SkipExisting, WriterAt, Single
  <2>2. w.i = 1
    BY <1>0, <2>1 DEF Single
  <2> QED
    BY <1>0, <1>1, <2>1, <2>2 DEF SkipExisting, Current, Own, Fresh
<1>2. CASE BeginObject(t)
  <2> DEFINE x == [w EXCEPT !.pc = "list"]
  <2>1. w.pc = "next" /\ w.i <= Len(w.objs) /\ Len(w.objs) = 1
    BY <1>0, <1>2 DEF BeginObject, WriterAt, Single
  <2>2. w.i = 1 /\ Fresh(w)
    BY <1>0, <2>1 DEF Single, Fresh
  <2>3. x.pc = "list" /\ x.objs = w.objs /\ x.i = w.i /\ writer' = [writer EXCEPT ![t] = x]
    BY <1>0, <1>2 DEF BeginObject, WriterGoes, Writer
  <2>4. Single(x) /\ Reached(x, Safe', Committed') /\ Own(x) = Own(w)
    BY <2>1, <2>2, <2>3 DEF Single, Reached, Own
  <2>5. Still
    BY <1>a, <1>2 DEF BeginObject
  <2> QED
    BY <1>0, <1>b, <2>1, <2>2, <2>3, <2>4, <2>5, CallAdvances
<1>3. CASE ListFiles(t)
  <2> DEFINE x == [w EXCEPT !.pc = "usage", !.files = visible]
  <2>1. x.pc = "usage" /\ x.objs = w.objs /\ x.i = w.i /\ w.pc = "list"
    BY <1>0, <1>3 DEF ListFiles, WriterAt, Writer
  <2>2. writer' = [writer EXCEPT ![t] = x] /\ Still
    BY <1>a, <1>3 DEF ListFiles
  <2> QED
    BY <1>b, <1>c, <2>1, <2>2 DEF Holding
<1>4. CASE MeasureUsage(t)
  <2> DEFINE x == [w EXCEPT !.pc = "evict", !.usage = Total(visible, Size)]
  <2>1. x.pc = "evict" /\ x.objs = w.objs /\ x.i = w.i /\ w.pc = "usage"
    BY <1>0, <1>4 DEF MeasureUsage, WriterAt, Writer
  <2>2. writer' = [writer EXCEPT ![t] = x] /\ Still
    BY <1>a, <1>4 DEF MeasureUsage
  <2> QED
    BY <1>b, <1>c, <2>1, <2>2 DEF Holding
<1>5. CASE PickVictim(t)
  <2> PICK v \in visible :
         writer' = [writer EXCEPT ![t].pc = "count", ![t].files = @ \ {v}, ![t].victim = {v}]
    BY <1>5 DEF PickVictim
  <2> DEFINE x == [w EXCEPT !.pc = "count", !.files = @ \ {v}, !.victim = {v}]
  <2>1. x.pc = "count" /\ x.objs = w.objs /\ x.i = w.i /\ w.pc = "evict"
    BY <1>0, <1>5 DEF PickVictim, WriterAt, Writer
  <2>2. writer' = [writer EXCEPT ![t] = x] /\ Still
    BY <1>a, <1>5 DEF PickVictim
  <2> QED
    BY <1>b, <1>c, <2>1, <2>2 DEF Holding
<1>6. CASE CountRows(t)
  <2> PICK n : writer' = [writer EXCEPT ![t].pc = "unlink", ![t].lost = n]
    BY <1>6 DEF CountRows
  <2> DEFINE x == [w EXCEPT !.pc = "unlink", !.lost = n]
  <2>1. x.pc = "unlink" /\ x.objs = w.objs /\ x.i = w.i /\ w.pc = "count"
    BY <1>0, <1>6 DEF CountRows, WriterAt, Writer
  <2>2. writer' = [writer EXCEPT ![t] = x] /\ Still
    BY <1>a, <1>6 DEF CountRows
  <2> QED
    BY <1>b, <1>c, <2>1, <2>2 DEF Holding
<1>7. CASE UnlinkVictim(t)
  <2> PICK v \in w.victim :
         /\ visible' = visible \ {v}
         /\ evicted' = evicted \cup ({v} \cap visible)
         /\ writer' = [writer EXCEPT ![t].pc = "evict", ![t].usage = @ - Size[v],
                                     ![t].victim = {}, ![t].lost = 0]
    BY <1>7 DEF UnlinkVictim
  <2> DEFINE x == [w EXCEPT !.pc = "evict", !.usage = @ - Size[v], !.victim = {}, !.lost = 0]
  <2>1. x.pc = "evict" /\ x.objs = w.objs /\ x.i = w.i /\ w.pc = "unlink"
    BY <1>0, <1>7 DEF UnlinkVictim, WriterAt, Writer
  <2>2. writer' = [writer EXCEPT ![t] = x]
    OBVIOUS
  <2>3. FilesAdvance({Own(w)}) /\ visible' \subseteq visible
    BY <1>7 DEF UnlinkVictim, FilesAdvance, Safe
  <2> QED
    BY <1>c, <2>1, <2>2, <2>3 DEF Holding
<1>8. CASE VictimGone(t) \/ EvictionFails(t) \/ EvictionDone(t)
  <2> DEFINE x == [w EXCEPT !.pc = "tmp", !.files = {}, !.usage = 0, !.victim = {}, !.lost = 0]
  <2>1. x.pc = "tmp" /\ x.objs = w.objs /\ x.i = w.i
    BY <1>0 DEF Writer
  <2>2. writer' = [writer EXCEPT ![t] = x] /\ Still
    BY <1>a, <1>8 DEF VictimGone, EvictionFails, EvictionDone, LeaveEviction
  <2>3. w.pc \in Holding
    BY <1>8 DEF VictimGone, EvictionFails, EvictionDone, WriterAt, Holding
  <2> QED
    BY <1>b, <1>c, <2>1, <2>2, <2>3 DEF Holding
<1>9. CASE WriteTmp(t)
  <2> DEFINE x == [w EXCEPT !.pc = "rename"]
  <2>1. x.pc = "rename" /\ x.objs = w.objs /\ x.i = w.i /\ w.pc = "tmp"
    BY <1>0, <1>9 DEF WriteTmp, WriterAt, Writer
  <2>2. writer' = [writer EXCEPT ![t] = x] /\ Still
    BY <1>9 DEF WriteTmp, WriterGoes, history
  <2> QED
    BY <1>b, <1>c, <2>1, <2>2 DEF Holding
<1>10. CASE RenameTmp(t)
  <2> DEFINE x == [w EXCEPT !.pc = "next", !.i = @ + 1, !.renamed = TRUE]
  <2>1. w.pc = "rename" /\ w.i = 1 /\ Len(w.objs) = 1 /\ Fresh(w)
    BY <1>0, <1>10 DEF RenameTmp, WriterAt, Single, Fresh, Holding
  <2>2. x.pc = "next" /\ x.objs = w.objs /\ x.i = 2 /\ x.renamed = TRUE
    BY <1>0, <2>1 DEF Writer
  <2>3. writer' = [writer EXCEPT ![t] = x]
    BY <1>10 DEF RenameTmp
  <2>4. visible' = visible \cup {Own(w)} /\ FilesAdvance({Own(w)}) /\ Own(w) \in Safe'
    BY <1>10, <2>1 DEF RenameTmp, Current, Own, FilesAdvance, Safe
  <2>5. Single(x) /\ Reached(x, Safe', Committed') /\ ~Fresh(x)
    BY <2>1, <2>2, <2>4 DEF Single, Reached, Fresh, Holding, Own
  <2> QED
    BY <2>1, <2>2, <2>3, <2>4, <2>5, CallAdvances
<1>11. CASE ObjectsDone(t)
  <2> DEFINE x == [w EXCEPT !.pc = "sync"]
  <2>1. w.pc = "next" /\ w.i = 2 /\ w.renamed /\ Len(w.objs) = 1 /\ Own(w) \in Safe
    <3>1. w.pc = "next" /\ w.i > Len(w.objs) /\ Len(w.objs) = 1
      BY <1>0, <1>11 DEF ObjectsDone, WriterAt, Single
    <3>2. w.i = 2 /\ w.renamed
      BY <1>0, <3>1 DEF Single
    <3> QED
      BY <1>0, <3>1, <3>2 DEF Reached
  <2>2. x.pc = "sync" /\ x.objs = w.objs
    BY <1>0 DEF Writer
  <2>3. writer' = [writer EXCEPT ![t] = x] /\ Still
    BY <1>a, <1>11, <2>1 DEF ObjectsDone, WriterGoes
  <2>4. Single(x) /\ Reached(x, Safe', Committed') /\ ~Fresh(x)
    BY <1>b, <2>1, <2>2, <2>3 DEF Single, Reached, Fresh, Holding, Own
  <2> QED
    BY <1>b, <2>1, <2>2, <2>3, <2>4, CallAdvances
<1>12. CASE FsyncDir(t)
  <2> DEFINE x == [w EXCEPT !.pc = "true"]
  <2>1. w.pc = "sync" /\ Len(w.objs) = 1 /\ Own(w) \in Safe
    BY <1>0, <1>12 DEF FsyncDir, WriterAt, Single, Reached
  <2>2. x.pc = "true" /\ x.objs = w.objs /\ writer' = [writer EXCEPT ![t] = x]
    BY <1>0, <1>12 DEF FsyncDir, WriterGoes, Writer
  <2>3. FilesAdvance({Own(w)}) /\ Own(w) \in Committed' /\ visible' = visible
    BY <1>12, <2>1 DEF FsyncDir, history, FilesAdvance, Safe, Committed
  <2>4. Single(x) /\ Reached(x, Safe', Committed') /\ ~Fresh(x)
    BY <2>1, <2>2, <2>3 DEF Single, Reached, Fresh, Holding, Own
  <2> QED
    BY <2>1, <2>2, <2>3, <2>4, CallAdvances
<1>13. CASE WriteFails(t)
  <2> DEFINE x == [IdleWriter EXCEPT !.pc = "false", !.objs = w.objs]
  <2>1. w.pc \in Holding
    BY <1>13 DEF WriteFails, WriteRaises, WriterAt, Holding
  <2>2. x.pc = "false" /\ x.objs = w.objs /\ writer' = [writer EXCEPT ![t] = x] /\ Still
    BY <1>13 DEF WriteFails, IdleWriter, history
  <2>3. Single(x) /\ Reached(x, Safe', Committed') /\ Fresh(w) /\ Own(x) = Own(w) /\ w.pc # "idle"
    BY <1>0, <2>1, <2>2 DEF Single, Reached, Fresh, Holding, Own
  <2> QED
    BY <1>0, <1>b, <2>2, <2>3, CallAdvances
<1> QED
  BY <1>1, <1>2, <1>3, <1>4, <1>5, <1>6, <1>7, <1>8, <1>9, <1>10, <1>11, <1>12, <1>13
     DEF WriterStep, WriterProgress

LEMMA UploadPlaces ==
  ASSUME Placing, DeletesStored, caller' = caller,
         BeginPass \/ UploadStep \/ CancelUploads({}) \/ LatePut \/ JournalCommit \/ StartProcess
  PROVE  Placing' /\ WrittenOnce
<1>1. writer' = writer
  BY DEF BeginPass, UploadStep, UploadProgress, ReadFile, SkipFile, PutOk, DeleteUploaded, EndPass,
         PutFails, DeleteFails, CancelUploads, LatePut, JournalCommit, StartProcess, UploadKeeps
<1>2. CASE JournalCommit
  BY <1>1, <1>2, FilesMove DEF JournalCommit, history, FilesAdvance, Safe
<1>3. CASE DeleteUploaded
  BY <1>1, <1>3, FilesMove DEF DeleteUploaded, history, DeletesStored, FilesAdvance, Safe
<1>4. CASE PutOk \/ PutFails \/ LatePut
  BY <1>1, <1>4, FilesMove DEF PutOk, PutFails, LatePut, diskVars, history, FilesAdvance, Safe
<1>5. CASE BeginPass \/ ReadFile \/ SkipFile \/ EndPass \/ DeleteFails \/ CancelUploads({}) \/ StartProcess
  <2>1. UNCHANGED <<visible, durable, s3, evicted>>
    BY <1>5 DEF BeginPass, ReadFile, SkipFile, EndPass, DeleteFails, CancelUploads, StartProcess,
                UploadKeeps, diskVars, history
  <2> QED
    BY <1>1, <2>1, FilesMove DEF FilesAdvance, Safe
<1> QED
  BY <1>2, <1>3, <1>4, <1>5 DEF UploadStep, UploadProgress

LEMMA FlushPlaces ==
  ASSUME Typed, Placing, MaxObjects = 1, NEW t \in Thread, Flush(t)
  PROVE  Placing' /\ WrittenOnce
<1> PICK objs \in Batches :
       /\ \A i \in DOMAIN objs : caller[objs[i]] = "held"
       /\ Submit(t, objs) /\ Tell(objs, "writing")
  BY DEF Flush
<1> DEFINE x == [IdleWriter EXCEPT !.pc = "next", !.objs = objs]
           own == objs[1]
<1>1. objs \in [1..1 -> Object] /\ Len(objs) = 1 /\ Range(objs) = {own} /\ own \in Object
      /\ caller[own] = "held"
  <2>1. objs \in [1..1 -> Object]
    BY DEF Batches
  <2>2. Len(objs) = 1
    BY <2>1
  <2> QED
    BY <2>1, <2>2 DEF Range
<1>2. x.pc = "next" /\ x.objs = objs /\ x.i = 1 /\ Own(x) = own
  BY DEF IdleWriter, Own
<1>3. writer'[t] = x /\ writer[t].pc = "idle" /\ \A s \in Thread \ {t} : writer'[s] = writer[s]
  BY OthersStay DEF Submit, WriterAt
<1>4. UNCHANGED <<visible, durable, s3, evicted>>
  BY DEF Submit, FilesUnchanged, diskVars, history
<1>5. caller' = [o \in Object |-> IF o = own THEN "writing" ELSE caller[o]]
  BY <1>1 DEF Tell
<1>6. caller' \in [Object -> CallerStates]
  BY <1>5 DEF Placing, CallerStates
<1>7. \A s \in Thread : Single(writer'[s]) /\ Reached(writer'[s], Safe', Committed')
  <2>1. Safe' = Safe /\ Committed' = Committed
    BY <1>4 DEF Safe, Committed
  <2>2. Single(x) /\ Reached(x, Safe', Committed')
    BY <1>1, <1>2 DEF Single, Reached, Holding
  <2> QED
    BY <1>3, <2>1, <2>2 DEF Placing
<1>8. \A s \in Thread \ {t} : writer[s].pc # "idle" => Own(writer[s]) # own /\ Own(writer[s]) \in Object
  BY <1>1, OwnTyped DEF Placing, OneThreadEach
<1>9. OneThreadEach'
  BY <1>1, <1>2, <1>3, <1>5, <1>8 DEF Placing, OneThreadEach
<1>10. UnwrittenOffDisk'
  BY <1>1, <1>2, <1>3, <1>4, <1>5 DEF Placing, UnwrittenOffDisk, OnDisk
<1>11. PlacedIsDurable'
  BY <1>4, <1>5 DEF Placing, PlacedIsDurable
<1>12. WrittenOnce
  BY <1>1, <1>2, <1>3, <1>4, <1>5 DEF WrittenOnce, Written
<1> QED
  BY <1>4, <1>6, <1>7, <1>9, <1>10, <1>11, <1>12 DEF Placing, Safe

LEMMA AnswerPlaces ==
  ASSUME Typed, Placing, NEW t \in Thread, Answer(t)
  PROVE  Placing' /\ WrittenOnce
<1> DEFINE w == writer[t]
           own == Own(w)
           state == IF w.pc = "true" THEN "placed" ELSE "held"
<1>1. w.pc \in {"true", "false"} /\ Len(w.objs) = 1 /\ Range(w.objs) = {own} /\ own \in Object
  <2>1. w.pc \in {"true", "false"} /\ Len(w.objs) = 1
    BY DEF Answer, Collect, Placing, Single
  <2>2. w.objs \in Seq(Object)
    BY WriterFacts DEF Writer
  <2> QED
    BY <2>1, <2>2, OwnTyped DEF Range, Own, Placing
<1>2. writer'[t] = IdleWriter /\ \A s \in Thread \ {t} : writer'[s] = writer[s]
  BY OthersStay DEF Answer, Collect
<1>3. IdleWriter.pc = "idle"
  BY DEF IdleWriter
<1>4. UNCHANGED <<visible, durable, s3, evicted>>
  BY DEF Answer, Collect, FilesUnchanged, diskVars, history
<1>5. caller' = [o \in Object |-> IF o = own THEN state ELSE caller[o]]
  BY <1>1 DEF Answer, Tell, WriterAt
<1>6. caller' \in [Object -> CallerStates]
  BY <1>5 DEF Placing, CallerStates
<1>7. \A s \in Thread : Single(writer'[s]) /\ Reached(writer'[s], Safe', Committed')
  BY <1>2, <1>3, <1>4 DEF Placing, Single, Reached, Safe, Committed
<1>8. \A s \in Thread \ {t} : writer[s].pc # "idle" => Own(writer[s]) # own /\ Own(writer[s]) \in Object
  BY <1>1, OwnTyped DEF Placing, OneThreadEach
<1>9. OneThreadEach'
  BY <1>2, <1>3, <1>5, <1>8 DEF Placing, OneThreadEach
<1>10. UnwrittenOffDisk'
  <2>1. state = "held" => own \notin OnDisk
    BY <1>1 DEF Placing, UnwrittenOffDisk, Fresh
  <2>2. ~Fresh(IdleWriter)
    BY <1>3 DEF Fresh, Holding
  <2> QED
    BY <1>2, <1>4, <1>5, <2>1, <2>2 DEF Placing, UnwrittenOffDisk, OnDisk
<1>11. PlacedIsDurable'
  <2>1. state = "placed" => own \in Committed
    BY <1>1 DEF Placing, Reached
  <2> QED
    BY <1>4, <1>5, <2>1 DEF Placing, PlacedIsDurable, Committed
<1>12. WrittenOnce
  <2>1. \A o \in Object : Written(o) /\ o = own => state = "placed"
    BY <1>1 DEF Written, Fresh
  <2>2. ~Fresh(IdleWriter)
    BY <1>3 DEF Fresh, Holding
  <2>3. ASSUME NEW o \in Object, Written(o) PROVE Written(o)'
    <3>1. caller'[o] # "held"
      BY <1>5, <2>1, <2>3 DEF Written
    <3> QED
      BY <1>2, <2>2, <2>3, <3>1 DEF Written
  <2> QED
    BY <1>4, <2>3 DEF WrittenOnce
<1> QED
  BY <1>4, <1>6, <1>7, <1>9, <1>10, <1>11, <1>12 DEF Placing, Safe

LEMMA EndPlaces ==
  ASSUME Typed, Placing, EndOfProcess
  PROVE  Placing'
<1>1. durable' = durable /\ evicted' = evicted /\ (visible' = visible \/ visible' = durable)
  BY DEF EndOfProcess, PowerCut, ProcessEnds, diskVars
<1>2. s3 \subseteq s3' /\ \A t \in Thread : writer'[t] = IdleWriter
  BY DEF EndOfProcess, PowerCut, ProcessEnds, ThreadsDie
<1>3. IdleWriter.pc = "idle"
  BY DEF IdleWriter
<1>4. caller' \in [Object -> CallerStates]
  BY DEF EndOfProcess, Placing, CallerStates
<1>5. \A o \in Object : caller'[o] \in {"held", "placed"} => caller[o] = caller'[o]
  BY DEF EndOfProcess
<1>6. \A t \in Thread : Single(writer'[t]) /\ Reached(writer'[t], Safe', Committed') /\ ~Fresh(writer'[t])
  BY <1>2, <1>3 DEF Single, Reached, Fresh, Holding
<1>7. OneThreadEach'
  BY <1>2, <1>3 DEF OneThreadEach
<1>8. UnwrittenOffDisk'
  BY <1>1, <1>5, <1>6 DEF Placing, UnwrittenOffDisk, OnDisk
<1>9. durable' \subseteq Safe' /\ PlacedIsDurable'
  BY <1>1, <1>2, <1>5 DEF Placing, PlacedIsDurable, Safe
<1> QED
  BY <1>4, <1>6, <1>7, <1>8, <1>9 DEF Placing

LEMMA PlacingHolds ==
  ASSUME MaxObjects = 1, "fsync" \notin Faults
  PROVE  Spec => []Placing
<1>1. InitAlone => Kept /\ Placing
  BY DEF InitAlone, Init, IdleWriter, IdleUploader, Kept, NothingVanishes, DeletesStored, Placing,
         CallerStates, Single, Reached, Fresh, Holding, OneThreadEach, UnwrittenOffDisk, OnDisk,
         PlacedIsDurable
<1>2. Typed /\ Kept /\ Placing /\ [Next]_allVars => Placing'
  <2> SUFFICES ASSUME Typed, Kept, Placing, [Next]_allVars PROVE Placing'
    OBVIOUS
  <2>1. CASE Threads
    BY <2>1, FlushPlaces, AnswerPlaces DEF Threads
  <2>2. CASE EndOfProcess
    BY <2>2, EndPlaces
  <2>3. CASE Quiet /\ UNCHANGED caller
    BY <2>3, WriterPlaces, UploadPlaces DEF Quiet, Kept
  <2>4. CASE UNCHANGED allVars
    <3>1. UNCHANGED <<writer, caller, visible, durable, s3, evicted>>
      BY <2>4 DEF allVars, vars, diskVars, history
    <3> QED
      BY <3>1, FilesMove DEF FilesAdvance, Safe
  <2> QED
    BY <2>1, <2>2, <2>3, <2>4 DEF Next
<1> QED
  BY <1>1, <1>2, TypesHold, KeptHolds, PTL DEF Spec

(* What _write_spool answered True for outlives a power cut, until it is   *)
(* in the bucket or evicted, for any number of threads and objects.  It    *)
(* takes batches of one object and a directory fsync that does not fail:   *)
(* otherwise a batch may be refused after a rename, and the retry finds    *)
(* the file, skips it and syncs nothing (PlacedSurvivesPowerCut of Logger  *)
(* is violated that way).                                                  *)
THEOREM TrueMeansDurable ==
  ASSUME MaxObjects = 1, "fsync" \notin Faults
  PROVE  Spec => []PlacedIsDurable
<1>1. Placing => PlacedIsDurable
  BY DEF Placing
<1> QED
  BY <1>1, PlacingHolds, PTL

----------------------------------------------------------------------------
(* The calls of any caller, on batches of any size *)

\* What a step of a call makes of its locals: w before, x after.
Works(w, x) ==       \* on the object in hand, up to its rename
  /\ w.i \in 1..Len(w.objs) /\ w.pc \in Holding \cup {"next"} /\ x.pc \in Holding
  /\ x.i = w.i /\ x.renamed = w.renamed
Skips(w, x) ==
  /\ w.i \in 1..Len(w.objs) /\ w.pc = "next" /\ x.pc = "next"
  /\ x.i = w.i + 1 /\ x.renamed = w.renamed
Renames(w, x) ==
  /\ w.i \in 1..Len(w.objs) /\ w.pc = "rename" /\ x.pc = "next"
  /\ x.i = w.i + 1 /\ x.renamed = TRUE
Finishes(w, x) ==
  /\ w.i > Len(w.objs) /\ w.pc = "next" /\ x.pc = IF w.renamed THEN "sync" ELSE "true"
  /\ x.i = w.i /\ x.renamed = w.renamed
Syncs(w, x) ==
  /\ w.pc = "sync" /\ x.pc = "true"
  /\ x.i = w.i /\ x.renamed = w.renamed
Refuses(w, x) ==
  /\ w.pc = "sync" => "fsync" \in Faults
  /\ w.pc # "sync" => w.i \in 1..Len(w.objs)
  /\ w.pc \in Holding \cup {"sync"} /\ x.pc = "false"
  /\ x.i = 1 /\ x.renamed = FALSE

\* Each with what it does to the files.
CallStep(w, x) ==
  \/ Works(w, x) /\ visible' \subseteq visible /\ durable' = durable
  \/ Skips(w, x) /\ UNCHANGED <<visible, durable>> /\ w.objs[w.i] \in visible
  \/ Renames(w, x) /\ visible' = visible \cup {w.objs[w.i]} /\ durable' = durable
  \/ Finishes(w, x) /\ UNCHANGED <<visible, durable>>
  \/ Syncs(w, x) /\ visible' = visible /\ durable' = visible
  \/ Refuses(w, x) /\ UNCHANGED <<visible, durable>>

LEMMA EveryCallStep ==
  ASSUME Typed, NEW t \in Thread, WriterStep(t)
  PROVE  /\ CallStep(writer[t], writer'[t]) /\ writer'[t].objs = writer[t].objs
         /\ \A s \in Thread \ {t} : writer'[s] = writer[s]
         /\ visible \subseteq visible' \cup evicted' /\ evicted \subseteq evicted'
         /\ UNCHANGED <<alive, s3, up, late>>
<1> DEFINE w == writer[t]
           x == writer'[t]
           Still == UNCHANGED <<visible, durable, evicted>>
<1>0. /\ w \in Writer /\ InBatch(w) /\ w.i \in Nat \ {0} /\ Len(w.objs) \in Nat
      /\ writer \in [Thread -> Writer]
  BY WriterFacts DEF Writer
<1>1. \A s \in Thread \ {t} : writer'[s] = writer[s]
  BY <1>0 DEF WriterStep, WriterProgress, SkipExisting, BeginObject, ListFiles, MeasureUsage, PickVictim,
         VictimGone, CountRows, UnlinkVictim, EvictionDone, EvictionFails, LeaveEviction, WriteTmp,
         RenameTmp, ObjectsDone, FsyncDir, WriteFails, WriterGoes
<1>2. UNCHANGED <<alive, s3, up, late>>
  BY DEF WriterStep, WriterProgress, SkipExisting, BeginObject, ListFiles, MeasureUsage, PickVictim,
         VictimGone, CountRows, UnlinkVictim, EvictionDone, EvictionFails, LeaveEviction, WriteTmp,
         RenameTmp, ObjectsDone, FsyncDir, WriteFails, FilesUnchanged, diskVars, history
<1>a. FilesUnchanged => Still
  BY DEF FilesUnchanged, diskVars, history
<1>b. w.pc \in Holding => w.i \in 1..Len(w.objs)
  BY <1>0 DEF InBatch
<1> HIDE DEF Still
<1>c. Still => /\ visible \subseteq visible' \cup evicted' /\ evicted \subseteq evicted'
               /\ visible' \subseteq visible /\ UNCHANGED <<visible, durable>>
  BY DEF Still
<1> DEFINE Goal == /\ CallStep(w, x) /\ x.objs = w.objs
                   /\ visible \subseteq visible' \cup evicted' /\ evicted \subseteq evicted'
<1> SUFFICES Goal
  BY <1>1, <1>2
<1>3. CASE SkipExisting(t)
  <2>1. w.pc = "next" /\ x.pc = "next" /\ x.objs = w.objs /\ x.i = w.i + 1 /\ x.renamed = w.renamed
    BY <1>0, <1>3 DEF SkipExisting, WriterAt, Writer
  <2>2. w.i \in 1..Len(w.objs) /\ w.objs[w.i] \in visible /\ Still
    BY <1>0, <1>a, <1>3 DEF SkipExisting, Current
  <2> QED
    BY <1>c, <2>1, <2>2 DEF CallStep, Skips
<1>4. ASSUME w.pc \in Holding \cup {"next"}, w.i \in 1..Len(w.objs), x.pc \in Holding,
             x.objs = w.objs, x.i = w.i, x.renamed = w.renamed,
             visible' \subseteq visible, durable' = durable,
             visible \subseteq visible' \cup evicted', evicted \subseteq evicted'
      PROVE  Goal
  BY <1>4 DEF CallStep, Works
<1>5. CASE BeginObject(t)
  <2>1. w.pc = "next" /\ x.pc = "list" /\ x.objs = w.objs /\ x.i = w.i /\ x.renamed = w.renamed
    BY <1>0, <1>5 DEF BeginObject, WriterAt, WriterGoes, Writer
  <2>2. w.i \in 1..Len(w.objs) /\ Still
    BY <1>0, <1>a, <1>5 DEF BeginObject
  <2> QED
    BY <1>4, <1>c, <2>1, <2>2 DEF Holding
<1>6. CASE ListFiles(t)
  <2>1. w.pc = "list" /\ x.pc = "usage" /\ x.objs = w.objs /\ x.i = w.i /\ x.renamed = w.renamed
    BY <1>0, <1>6 DEF ListFiles, WriterAt, Writer
  <2>2. Still
    BY <1>a, <1>6 DEF ListFiles
  <2> QED
    BY <1>4, <1>b, <1>c, <2>1, <2>2 DEF Holding
<1>7. CASE MeasureUsage(t)
  <2>1. w.pc = "usage" /\ x.pc = "evict" /\ x.objs = w.objs /\ x.i = w.i /\ x.renamed = w.renamed
    BY <1>0, <1>7 DEF MeasureUsage, WriterAt, Writer
  <2>2. Still
    BY <1>a, <1>7 DEF MeasureUsage
  <2> QED
    BY <1>4, <1>b, <1>c, <2>1, <2>2 DEF Holding
<1>8. CASE PickVictim(t)
  <2>1. w.pc = "evict" /\ x.pc = "count" /\ x.objs = w.objs /\ x.i = w.i /\ x.renamed = w.renamed
    BY <1>0, <1>8 DEF PickVictim, WriterAt, Writer
  <2>2. Still
    BY <1>a, <1>8 DEF PickVictim
  <2> QED
    BY <1>4, <1>b, <1>c, <2>1, <2>2 DEF Holding
<1>9. CASE CountRows(t)
  <2>1. w.pc = "count" /\ x.pc = "unlink" /\ x.objs = w.objs /\ x.i = w.i /\ x.renamed = w.renamed
    BY <1>0, <1>9 DEF CountRows, WriterAt, Writer
  <2>2. Still
    BY <1>a, <1>9 DEF CountRows
  <2> QED
    BY <1>4, <1>b, <1>c, <2>1, <2>2 DEF Holding
<1>10. CASE UnlinkVictim(t)
  <2>1. w.pc = "unlink" /\ x.pc = "evict" /\ x.objs = w.objs /\ x.i = w.i /\ x.renamed = w.renamed
    BY <1>0, <1>10 DEF UnlinkVictim, WriterAt, Writer
  <2>2. /\ visible' \subseteq visible /\ durable' = durable
        /\ visible \subseteq visible' \cup evicted' /\ evicted \subseteq evicted'
    BY <1>10 DEF UnlinkVictim
  <2> QED
    BY <1>4, <1>b, <2>1, <2>2 DEF Holding
<1>11. CASE VictimGone(t) \/ EvictionFails(t) \/ EvictionDone(t)
  <2>1. x.pc = "tmp" /\ x.objs = w.objs /\ x.i = w.i /\ x.renamed = w.renamed
    BY <1>0, <1>11 DEF VictimGone, EvictionFails, EvictionDone, LeaveEviction, Writer
  <2>2. Still /\ w.pc \in Holding
    BY <1>a, <1>11 DEF VictimGone, EvictionFails, EvictionDone, LeaveEviction, WriterAt, Holding
  <2> QED
    BY <1>4, <1>b, <1>c, <2>1, <2>2 DEF Holding
<1>12. CASE WriteTmp(t)
  <2>1. w.pc = "tmp" /\ x.pc = "rename" /\ x.objs = w.objs /\ x.i = w.i /\ x.renamed = w.renamed
    BY <1>0, <1>12 DEF WriteTmp, WriterAt, WriterGoes, Writer
  <2>2. Still
    BY <1>12 DEF WriteTmp, history, Still
  <2> QED
    BY <1>4, <1>b, <1>c, <2>1, <2>2 DEF Holding
<1>13. CASE RenameTmp(t)
  <2>1. w.pc = "rename" /\ x.pc = "next" /\ x.objs = w.objs /\ x.i = w.i + 1 /\ x.renamed = TRUE
    BY <1>0, <1>13 DEF RenameTmp, WriterAt, Writer
  <2>2. visible' = visible \cup {w.objs[w.i]} /\ durable' = durable /\ evicted' = evicted
    BY <1>13 DEF RenameTmp, Current
  <2> QED
    BY <1>b, <2>1, <2>2 DEF Holding, CallStep, Renames
<1>14. CASE ObjectsDone(t)
  <2>1. /\ w.pc = "next" /\ x.pc = IF w.renamed THEN "sync" ELSE "true"
        /\ x.objs = w.objs /\ x.i = w.i /\ x.renamed = w.renamed
    BY <1>0, <1>14 DEF ObjectsDone, WriterAt, WriterGoes, Writer
  <2>2. w.i > Len(w.objs) /\ Still
    BY <1>a, <1>14 DEF ObjectsDone
  <2> QED
    BY <1>c, <2>1, <2>2 DEF CallStep, Finishes
<1>15. CASE FsyncDir(t)
  <2>1. w.pc = "sync" /\ x.pc = "true" /\ x.objs = w.objs /\ x.i = w.i /\ x.renamed = w.renamed
    BY <1>0, <1>15 DEF FsyncDir, WriterAt, WriterGoes, Writer
  <2>2. visible' = visible /\ durable' = visible /\ evicted' = evicted
    BY <1>15 DEF FsyncDir, history
  <2> QED
    BY <2>1, <2>2 DEF CallStep, Syncs
<1>16. CASE WriteFails(t)
  <2>1. x.pc = "false" /\ x.objs = w.objs /\ x.i = 1 /\ x.renamed = FALSE
    BY <1>0, <1>16 DEF WriteFails, IdleWriter
  <2>2. w.pc \in Holding \/ (w.pc = "sync" /\ "fsync" \in Faults)
    BY <1>16 DEF WriteFails, WriteRaises, WriterAt, Holding
  <2>3. Still
    BY <1>16 DEF WriteFails, history, Still
  <2> QED
    BY <1>b, <1>c, <2>1, <2>2, <2>3 DEF Holding, CallStep, Refuses
<1> QED
  BY <1>3, <1>5, <1>6, <1>7, <1>8, <1>9, <1>10, <1>11, <1>12, <1>13, <1>14, <1>15, <1>16
     DEF WriterStep, WriterProgress

\* What uploads and the filesystem do to the files: none is added, and the
\* uploader deletes what is stored.
LEMMA EveryUploadStep ==
  ASSUME Kept, NEW others,
         BeginPass \/ UploadStep \/ CancelUploads(others) \/ LatePut \/ JournalCommit \/ StartProcess
  PROVE  /\ writer' = writer /\ evicted' = evicted
         /\ visible' \subseteq visible /\ visible \subseteq visible' \cup s3
         /\ durable' = durable \/ (durable' = visible /\ visible' = visible)
         /\ s3 \subseteq s3' /\ s3' \subseteq s3 \cup up.obj \cup late
<1>1. writer' = writer /\ evicted' = evicted
  BY DEF BeginPass, UploadStep, UploadProgress, ReadFile, SkipFile, PutOk, DeleteUploaded, EndPass,
         PutFails, DeleteFails, CancelUploads, LatePut, JournalCommit, StartProcess, UploadKeeps, history
<1>2. visible' \subseteq visible /\ visible \subseteq visible' \cup s3
  BY DEF BeginPass, UploadStep, UploadProgress, ReadFile, SkipFile, PutOk, DeleteUploaded, EndPass,
         PutFails, DeleteFails, CancelUploads, LatePut, JournalCommit, StartProcess, UploadKeeps, diskVars,
         Kept, DeletesStored
<1>3. durable' = durable \/ (durable' = visible /\ visible' = visible)
  BY DEF BeginPass, UploadStep, UploadProgress, ReadFile, SkipFile, PutOk, DeleteUploaded, EndPass,
         PutFails, DeleteFails, CancelUploads, LatePut, JournalCommit, StartProcess, UploadKeeps, diskVars
<1>4. s3 \subseteq s3' /\ s3' \subseteq s3 \cup up.obj \cup late
  BY DEF BeginPass, UploadStep, UploadProgress, ReadFile, SkipFile, PutOk, DeleteUploaded, EndPass,
         PutFails, DeleteFails, CancelUploads, LatePut, JournalCommit, StartProcess, UploadKeeps
<1> QED
  BY <1>1, <1>2, <1>3, <1>4

----------------------------------------------------------------------------
(* Evictions are counted *)

\* A victim is a file that no thread will write again, and what was read of
\* it is what it holds, if it is still there to be unlinked.
VictimCounted(w) == w.pc \in {"count", "unlink"} =>
  \A v \in w.victim :
    /\ w.victim = {v} /\ Written(v)
    /\ w.pc = "unlink" /\ v \in visible => w.lost >= Rows[v]

Counting == \A t \in Thread : VictimCounted(writer[t])

\* A thread that stands still, while others write nothing twice.
LEMMA VictimStays ==
  ASSUME Typed, WrittenOnce, NEW t \in Thread, VictimCounted(writer[t]), writer'[t] = writer[t]
  PROVE  VictimCounted(writer[t])'
<1>1. writer[t].victim \subseteq Object
  BY WriterFacts DEF Writer
<1> QED
  BY <1>1 DEF VictimCounted, WrittenOnce

LEMMA WriterCounts ==
  ASSUME Typed, Placing, Counting, WrittenOnce, "read" \notin Faults,
         NEW t \in Thread, WriterStep(t)
  PROVE  Counting'
<1> DEFINE w == writer[t]
<1>0. writer \in [Thread -> Writer] /\ w \in Writer /\ w.victim \subseteq Object
  BY WriterFacts DEF Writer
<1>1. \A s \in Thread \ {t} : writer'[s] = writer[s]
  BY <1>0 DEF WriterStep, WriterProgress, SkipExisting, BeginObject, ListFiles, MeasureUsage, PickVictim,
         VictimGone, CountRows, UnlinkVictim, EvictionDone, EvictionFails, LeaveEviction, WriteTmp,
         RenameTmp, ObjectsDone, FsyncDir, WriteFails, WriterGoes
<1>2. \A s \in Thread \ {t} : VictimCounted(writer[s])'
  BY <1>1, VictimStays DEF Counting
<1>3. CASE PickVictim(t)
  <2> PICK v \in Oldest(w.files) \cap visible :
         writer' = [writer EXCEPT ![t].pc = "count", ![t].files = @ \ {v}, ![t].victim = {v}]
    BY <1>3 DEF PickVictim
  <2>1. v \in Object
    BY DEF Typed, TypeOK
  <2>2. Written(v)
    BY <2>1 DEF Placing, UnwrittenOffDisk, OnDisk, Written
  <2>3. writer'[t].pc = "count" /\ writer'[t].victim = {v}
    BY <1>0 DEF Writer
  <2> QED
    <3>1. Written(v)'
      BY <2>1, <2>2 DEF WrittenOnce
    <3>2. VictimCounted(writer[t])'
      BY <2>3, <3>1 DEF VictimCounted
    <3> QED
      BY <1>2, <3>2 DEF Counting
<1>4. CASE CountRows(t)
  <2>1. w.pc = "count" /\ visible' = visible
    BY <1>4 DEF CountRows, WriterAt, FilesUnchanged, diskVars
  <2> PICK v \in w.victim :
         writer' = [writer EXCEPT ![t].pc = "unlink",
                                  ![t].lost = IF v \in visible THEN Rows[v] ELSE 0]
    BY <1>4 DEF CountRows
  <2>2. writer'[t].pc = "unlink" /\ writer'[t].victim = w.victim
        /\ writer'[t].lost = IF v \in visible THEN Rows[v] ELSE 0
    BY <1>0 DEF Writer
  <2>3. \A o \in w.victim : w.victim = {o} /\ Written(o)
    BY <2>1 DEF Counting, VictimCounted
  <2>4. v \in Object /\ Rows[v] \in Nat /\ w.victim = {v}
    BY <1>0, <2>3, SpoolAssumption
  <2>5. Written(v)'
    BY <2>3, <2>4 DEF WrittenOnce
  <2>6. v \in visible' => writer'[t].lost >= Rows[v]
    BY <2>1, <2>2, <2>4
  <2> QED
    <3>1. VictimCounted(writer[t])'
      BY <2>2, <2>4, <2>5, <2>6 DEF VictimCounted
    <3> QED
      BY <1>2, <3>1 DEF Counting
<1>5. CASE writer'[t].pc \notin {"count", "unlink"}
  BY <1>2, <1>5 DEF VictimCounted, Counting
<1>6. PickVictim(t) \/ CountRows(t) \/ writer'[t].pc \notin {"count", "unlink"}
  <2>1. CASE SkipExisting(t)
    BY <1>0, <2>1 DEF SkipExisting, WriterAt, Writer
  <2>2. CASE BeginObject(t) \/ WriteTmp(t) \/ ObjectsDone(t) \/ FsyncDir(t)
    BY <1>0, <2>2 DEF BeginObject, WriteTmp, ObjectsDone, FsyncDir, WriterGoes, Writer
  <2>3. CASE ListFiles(t) \/ MeasureUsage(t)
    BY <1>0, <2>3 DEF ListFiles, MeasureUsage, Writer
  <2>4. CASE UnlinkVictim(t)
    BY <1>0, <2>4 DEF UnlinkVictim, Writer
  <2>5. CASE VictimGone(t) \/ EvictionFails(t) \/ EvictionDone(t)
    BY <1>0, <2>5 DEF VictimGone, EvictionFails, EvictionDone, LeaveEviction, Writer
  <2>6. CASE RenameTmp(t)
    BY <1>0, <2>6 DEF RenameTmp, Writer
  <2>7. CASE WriteFails(t)
    BY <1>0, <2>7 DEF WriteFails, IdleWriter
  <2> QED
    BY <2>1, <2>2, <2>3, <2>4, <2>5, <2>6, <2>7 DEF WriterStep, WriterProgress
<1> QED
  BY <1>3, <1>4, <1>5, <1>6

LEMMA CallersCount ==
  ASSUME Typed, Counting, WrittenOnce, NEW t \in Thread, Flush(t) \/ Answer(t)
  PROVE  Counting'
<1>1. writer'[t].pc \in {"idle", "next"} /\ \A s \in Thread \ {t} : writer'[s] = writer[s]
  <2>1. CASE Flush(t)
    <3> PICK objs : writer' = [writer EXCEPT ![t] = [IdleWriter EXCEPT !.pc = "next", !.objs = objs]]
      BY <2>1 DEF Flush, Submit
    <3>1. [IdleWriter EXCEPT !.pc = "next", !.objs = objs].pc = "next"
      BY DEF IdleWriter
    <3> QED
      BY <3>1, OthersStay
  <2>2. CASE Answer(t)
    <3>1. writer' = [writer EXCEPT ![t] = IdleWriter] /\ IdleWriter.pc = "idle"
      BY <2>2 DEF Answer, Collect, IdleWriter
    <3> QED
      BY <3>1, OthersStay
  <2> QED
    BY <2>1, <2>2
<1>2. \A s \in Thread \ {t} : VictimCounted(writer[s])'
  BY <1>1, VictimStays DEF Counting
<1> QED
  BY <1>1, <1>2 DEF Counting, VictimCounted

\* Placing and Counting are kept by every step, and no step forgets to count.
LEMMA CountingNext ==
  ASSUME MaxObjects = 1, "fsync" \notin Faults, "read" \notin Faults,
         Typed, Kept, Placing, Counting, [Next]_allVars
  PROVE  Counting'
<1>1. CASE Threads
  BY <1>1, FlushPlaces, AnswerPlaces, CallersCount DEF Threads
<1>2. CASE EndOfProcess
  <2>1. \A t \in Thread : writer'[t].pc = "idle"
    BY <1>2 DEF EndOfProcess, PowerCut, ProcessEnds, ThreadsDie, IdleWriter
  <2> QED
    BY <2>1 DEF Counting, VictimCounted
<1>3. CASE UNCHANGED caller /\ \E t \in Thread : WriterStep(t)
  BY <1>3, WriterPlaces, WriterCounts
<1>4. CASE /\ UNCHANGED caller
           /\ BeginPass \/ UploadStep \/ CancelUploads({}) \/ LatePut \/ JournalCommit \/ StartProcess
  <2>1. writer' = writer
    BY <1>4 DEF BeginPass, UploadStep, UploadProgress, ReadFile, SkipFile, PutOk, DeleteUploaded, EndPass,
         PutFails, DeleteFails, CancelUploads, LatePut, JournalCommit, StartProcess, UploadKeeps
  <2> QED
    BY <1>4, <2>1, UploadPlaces, VictimStays DEF Kept, Counting
<1>5. CASE UNCHANGED allVars
  BY <1>5 DEF allVars, vars, diskVars, Counting, VictimCounted, Written
<1> QED
  BY <1>1, <1>2, <1>3, <1>4, <1>5 DEF Next, Quiet

LEMMA OnlyUnlinkEvicts ==
  ASSUME [Next]_allVars, evicted' # evicted
  PROVE  \E t \in Thread : UnlinkVictim(t)
<1>1. ~EndOfProcess /\ ~UNCHANGED allVars
  BY DEF EndOfProcess, PowerCut, ProcessEnds, allVars, vars, history
<1>2. ~Threads
  BY DEF Threads, Flush, Submit, Answer, Collect, FilesUnchanged, history
<1>3. ~(BeginPass \/ UploadStep \/ CancelUploads({}) \/ LatePut \/ JournalCommit \/ StartProcess)
  BY DEF BeginPass, UploadStep, UploadProgress, ReadFile, SkipFile, PutOk, DeleteUploaded, EndPass,
         PutFails, DeleteFails, CancelUploads, LatePut, JournalCommit, StartProcess, UploadKeeps, history
<1>4. \A t \in Thread : WriterStep(t) => UnlinkVictim(t)
  <2> TAKE t \in Thread
  <2>1. ~FilesUnchanged
    BY DEF FilesUnchanged, history
  <2>2. ~(WriteTmp(t) \/ RenameTmp(t) \/ FsyncDir(t) \/ WriteFails(t))
    BY DEF WriteTmp, RenameTmp, FsyncDir, WriteFails, history
  <2>3. ~(\/ SkipExisting(t) \/ BeginObject(t) \/ ListFiles(t) \/ MeasureUsage(t) \/ PickVictim(t)
          \/ CountRows(t) \/ ObjectsDone(t))
    BY <2>1 DEF SkipExisting, BeginObject, ListFiles, MeasureUsage, PickVictim, CountRows, ObjectsDone
  <2>4. ~(VictimGone(t) \/ EvictionDone(t) \/ EvictionFails(t))
    BY <2>1 DEF VictimGone, EvictionDone, EvictionFails, LeaveEviction
  <2> QED
    BY <2>2, <2>3, <2>4 DEF WriterStep, WriterProgress
<1> QED
  BY <1>1, <1>2, <1>3, <1>4 DEF Next, Quiet

(* However writers, uploads and evictions race for a file, an eviction     *)
(* that removes it adds at least its rows to self.dropped, for any number  *)
(* of threads and objects.  The rows were read some steps before the       *)
(* unlink: what makes them right is that no thread writes the same name a  *)
(* second time in between.  It takes a file that can be read, and what     *)
(* TrueMeansDurable takes.                                                 *)
THEOREM NoEvictionIsSilent ==
  ASSUME MaxObjects = 1, "fsync" \notin Faults, "read" \notin Faults
  PROVE  Spec => EvictionsAreCounted
<1>1. InitAlone => Counting
  BY DEF InitAlone, Init, IdleWriter, Counting, VictimCounted
<1>2. Typed /\ Kept /\ Placing /\ Counting /\ [Next]_allVars =>
        [\A o \in evicted' \ evicted : evictedRows' >= evictedRows + Rows[o]]_vars
  <2> SUFFICES ASSUME Typed, Counting, [Next]_allVars, NEW o \in evicted' \ evicted
               PROVE  evictedRows' >= evictedRows + Rows[o]
    OBVIOUS
  <2> PICK t \in Thread : UnlinkVictim(t)
    BY OnlyUnlinkEvicts
  <2>1. writer[t].pc = "unlink" /\ evictedRows' = evictedRows + writer[t].lost
    BY DEF UnlinkVictim, WriterAt
  <2>2. o \in writer[t].victim /\ o \in visible
    BY DEF UnlinkVictim
  <2>3. writer[t].lost >= Rows[o]
    BY <2>1, <2>2 DEF Counting, VictimCounted
  <2>4. writer[t].lost \in Nat /\ Rows[o] \in Nat /\ evictedRows \in Nat
    BY <2>2, WriterFacts, SpoolAssumption DEF Typed, TypeOK, Writer
  <2> QED
    BY <2>1, <2>3, <2>4
<1>3. Typed /\ Kept /\ Placing /\ Counting /\ [Next]_allVars => Counting'
  BY CountingNext
<1> QED
  BY <1>1, <1>2, <1>3, TypesHold, KeptHolds, PlacingHolds, PTL DEF Spec, EvictionsAreCounted

----------------------------------------------------------------------------
(* The budget in an outage *)

\* Within the budget, or with one file only.
Capped(files) == Total(files, Size) <= MaxDiskBytes \/ \E o \in Object : files = {o}

\* What a call knows of the files: no one else touches them.
Knows(w) ==
  /\ w.pc \in {"usage", "evict"} => w.files = visible
  /\ w.pc \in {"evict", "count", "unlink"} => w.usage = Total(visible, Size)
  /\ w.pc \in {"count", "unlink"} => \E v \in visible : w.victim = {v} /\ w.files = visible \ {v}
  /\ w.pc \in {"tmp", "rename"} =>
       visible = {} \/ Total(visible, Size) + Size[w.objs[w.i]] <= MaxDiskBytes

Budgeted ==
  /\ Capped(visible) /\ Capped(durable)
  /\ up.pc # "unlink"
  /\ \A t \in Thread : Knows(writer[t])

LEMMA SpoolTotals ==
  ASSUME NEW V, V \subseteq Object
  PROVE  /\ Total(V, Size) \in Nat
         /\ \A o \in V : /\ Size[o] \in Nat
                         /\ Total(V \ {o}, Size) = Total(V, Size) - Size[o]
<1>0. IsFiniteSet(V) /\ \A o \in V : Size[o] \in Nat
  BY SpoolAssumption, FS_Subset
<1>1. Total(V, Size) \in Nat
  BY <1>0, TotalType
<1>2. ASSUME NEW o \in V PROVE Total(V \ {o}, Size) = Total(V, Size) - Size[o]
  <2>1. /\ IsFiniteSet(V \ {o}) /\ IsFiniteSet({o})
        /\ (V \ {o}) \cap {o} = {} /\ (V \ {o}) \cup {o} = V
    BY <1>0, FS_Singleton, FS_Subset
  <2>2. Total((V \ {o}) \cup {o}, Size) = Total(V \ {o}, Size) + Total({o}, Size)
    BY <1>0, <2>1, TotalUnion
  <2>3. Total({o}, Size) = Size[o]
    BY <1>0, TotalOne
  <2>4. Total(V \ {o}, Size) \in Nat
    BY <1>0, <2>1, TotalType
  <2>5. Total(V, Size) = Total(V \ {o}, Size) + Total({o}, Size)
    BY <2>1, <2>2, Zenon
  <2>6. Size[o] \in Nat
    BY <1>0
  <2> QED BY <2>3, <2>4, <2>5, <2>6
<1> QED BY <1>0, <1>1, <1>2

LEMMA CappedSmaller ==
  ASSUME NEW V, V \subseteq Object, Capped(V), NEW v \in V
  PROVE  Capped(V \ {v})
<1>1. CASE Total(V, Size) <= MaxDiskBytes
  BY <1>1, SpoolTotals, SpoolAssumption DEF Capped
<1>2. CASE \E o \in Object : V = {o}
  <2>1. V \ {v} = {}
    BY <1>2
  <2> QED BY <2>1, TotalEmpty, SpoolAssumption DEF Capped
<1> QED BY <1>1, <1>2 DEF Capped

LEMMA CappedLarger ==
  ASSUME NEW V, V \subseteq Object, NEW o \in Object, o \notin V,
         V = {} \/ Total(V, Size) + Size[o] <= MaxDiskBytes
  PROVE  Capped(V \cup {o})
<1>1. CASE V = {}
  <2>1. V \cup {o} = {o}
    BY <1>1
  <2> QED BY <2>1 DEF Capped
<1>2. CASE Total(V, Size) + Size[o] <= MaxDiskBytes
  <2>1. (V \cup {o}) \ {o} = V /\ V \cup {o} \subseteq Object /\ o \in V \cup {o}
    OBVIOUS
  <2>2. /\ Total(V \cup {o}, Size) \in Nat /\ Size[o] \in Nat
        /\ Total(V, Size) = Total(V \cup {o}, Size) - Size[o]
    BY <2>1, SpoolTotals
  <2> QED BY <1>2, <2>2, SpoolAssumption DEF Capped
<1> QED BY <1>1, <1>2

\* The one thread moves and the files stay.
LEMMA CallBudgets ==
  ASSUME Typed, Budgeted, \A r, s \in Thread : r = s, NEW t \in Thread, NEW x,
         writer' = [writer EXCEPT ![t] = x], UNCHANGED <<visible, up>>,
         durable' = durable \/ durable' = visible, Knows(x)
  PROVE  Budgeted'
<1>1. writer'[t] = x
  BY WriterFacts
<1>2. \A s \in Thread : Knows(writer'[s])
  BY <1>1
<1>3. \A s \in Thread : Knows(writer[s])'
  BY <1>2 DEF Knows
<1>4. Capped(visible)' /\ Capped(durable)'
  BY DEF Budgeted, Capped
<1> QED BY <1>3, <1>4 DEF Budgeted

LEMMA WriterBudgets ==
  ASSUME Typed, Budgeted, \A r, s \in Thread : r = s, "unlink" \notin Faults,
         NEW t \in Thread, WriterStep(t)
  PROVE  Budgeted'
<1> DEFINE w == writer[t]
<1>0. /\ w \in Writer /\ Knows(w) /\ DOMAIN writer = Thread /\ writer \in [Thread -> Writer]
      /\ visible \subseteq Object /\ Total(visible, Size) \in Nat
      /\ w.pc \in Holding => Current(t) \in Object
  BY WriterFacts, SpoolTotals DEF Budgeted, Typed, TypeOK
<1>1. ASSUME NEW to, to \notin {"usage", "evict", "count", "unlink", "tmp", "rename"},
             WriterGoes(t, to), UNCHANGED <<visible, up>>, durable' = durable \/ durable' = visible
      PROVE  Budgeted'
  <2>1. writer' = [writer EXCEPT ![t] = [w EXCEPT !.pc = to]]
    BY <1>1 DEF WriterGoes
  <2>2. Knows([w EXCEPT !.pc = to])
    BY <1>0, <1>1 DEF Knows, Writer
  <2> QED BY <1>1, <2>1, <2>2, CallBudgets
<1>2. CASE SkipExisting(t)
  <2>1. /\ w.pc = "next" /\ writer' = [writer EXCEPT ![t] = [w EXCEPT !.i = @ + 1]]
        /\ UNCHANGED <<visible, up, durable>>
    BY <1>2 DEF SkipExisting, WriterAt, FilesUnchanged, diskVars
  <2>2. Knows([w EXCEPT !.i = @ + 1])
    BY <1>0, <2>1 DEF Knows, Writer
  <2> QED BY <2>1, <2>2, CallBudgets
<1>3. CASE BeginObject(t)
  BY <1>1, <1>3 DEF BeginObject, FilesUnchanged, diskVars
<1>4. CASE ListFiles(t)
  <2>1. /\ writer' = [writer EXCEPT ![t] = [w EXCEPT !.pc = "usage", !.files = visible]]
        /\ UNCHANGED <<visible, up, durable>>
    BY <1>4 DEF ListFiles, FilesUnchanged, diskVars
  <2>2. Knows([w EXCEPT !.pc = "usage", !.files = visible])
    BY <1>0 DEF Knows, Writer
  <2> QED BY <2>1, <2>2, CallBudgets
<1>5. CASE MeasureUsage(t)
  <2> DEFINE x == [w EXCEPT !.pc = "evict", !.usage = Total(visible, Size)]
  <2>1. /\ w.pc = "usage" /\ writer' = [writer EXCEPT ![t] = x]
        /\ UNCHANGED <<visible, up, durable>>
    BY <1>5 DEF MeasureUsage, WriterAt, FilesUnchanged, diskVars
  <2>2. x.pc = "evict" /\ x.usage = Total(visible, Size) /\ x.files = visible
    BY <1>0, <2>1 DEF Knows, Writer
  <2>3. Knows(x)
    BY <2>2 DEF Knows
  <2> QED BY <2>1, <2>3, CallBudgets
<1>6. CASE PickVictim(t)
  <2>1. PICK v \in Oldest(w.files) \cap visible :
          writer' = [writer EXCEPT ![t] = [w EXCEPT !.pc = "count", !.files = @ \ {v}, !.victim = {v}]]
    BY <1>6 DEF PickVictim
  <2>2. w.pc = "evict" /\ UNCHANGED <<visible, up, durable>>
    BY <1>6 DEF PickVictim, WriterAt, FilesUnchanged, diskVars
  <2> DEFINE x == [w EXCEPT !.pc = "count", !.files = @ \ {v}, !.victim = {v}]
  <2>3. x.pc = "count" /\ x.usage = w.usage /\ x.files = w.files \ {v} /\ x.victim = {v}
    BY <1>0 DEF Writer
  <2>4. w.usage = Total(visible, Size) /\ w.files = visible
    BY <1>0, <2>2 DEF Knows
  <2> HIDE DEF x
  <2>5. Knows(x)
    BY <2>3, <2>4 DEF Knows
  <2> QED BY <2>1, <2>2, <2>5, CallBudgets DEF x
<1>7. CASE VictimGone(t)
  <2>1. w.files = visible /\ Oldest(w.files) \subseteq w.files
    BY <1>0, <1>7 DEF VictimGone, WriterAt, Knows, Oldest
  <2> QED BY <1>7, <2>1 DEF VictimGone
<1>8. CASE CountRows(t)
  <2>1. PICK n : writer' = [writer EXCEPT ![t] = [w EXCEPT !.pc = "unlink", !.lost = n]]
    BY <1>8 DEF CountRows
  <2>2. w.pc = "count" /\ UNCHANGED <<visible, up, durable>>
    BY <1>8 DEF CountRows, WriterAt, FilesUnchanged, diskVars
  <2>3. Knows([w EXCEPT !.pc = "unlink", !.lost = n])
    BY <1>0, <2>2 DEF Knows, Writer
  <2> QED BY <2>1, <2>2, <2>3, CallBudgets
<1>9. CASE EvictionDone(t)
  <2> DEFINE x == [w EXCEPT !.pc = "tmp", !.files = {}, !.usage = 0, !.victim = {}, !.lost = 0]
  <2>1. /\ w.pc = "evict" /\ ~MustEvict(t) /\ writer' = [writer EXCEPT ![t] = x]
        /\ UNCHANGED <<visible, up, durable>>
    BY <1>9 DEF EvictionDone, LeaveEviction, WriterAt, FilesUnchanged, diskVars
  <2>2. x.pc = "tmp" /\ x.objs[x.i] = Current(t)
    BY <1>0 DEF Writer, Current
  <2>3. visible = {} \/ Total(visible, Size) + Size[Current(t)] <= MaxDiskBytes
    <3>1. w.files = visible /\ w.usage = Total(visible, Size)
      BY <1>0, <2>1 DEF Knows
    <3>2. Size[Current(t)] \in Nat
      BY <1>0, <2>1, SpoolAssumption DEF Holding
    <3> QED BY <1>0, <2>1, <3>1, <3>2, SpoolAssumption DEF MustEvict
  <2> HIDE DEF x
  <2>4. Knows(x)
    BY <2>2, <2>3 DEF Knows
  <2> QED BY <2>1, <2>4, CallBudgets
<1>10. CASE WriteTmp(t)
  <2>1. /\ w.pc = "tmp" /\ writer' = [writer EXCEPT ![t] = [w EXCEPT !.pc = "rename"]]
        /\ UNCHANGED <<visible, up, durable>>
    BY <1>10 DEF WriteTmp, WriterAt, WriterGoes
  <2>2. Knows([w EXCEPT !.pc = "rename"])
    BY <1>0, <2>1 DEF Knows, Writer
  <2> QED BY <2>1, <2>2, CallBudgets
<1>11. CASE ObjectsDone(t)
  BY <1>1, <1>11 DEF ObjectsDone, FilesUnchanged, diskVars
<1>12. CASE FsyncDir(t)
  BY <1>1, <1>12 DEF FsyncDir
<1>13. CASE WriteFails(t)
  <2> DEFINE x == [IdleWriter EXCEPT !.pc = "false", !.objs = w.objs]
  <2>1. writer' = [writer EXCEPT ![t] = x] /\ UNCHANGED <<visible, up, durable>>
    BY <1>13 DEF WriteFails
  <2>2. Knows(x)
    BY DEF Knows, IdleWriter
  <2> QED BY <2>1, <2>2, CallBudgets
<1>14. CASE UnlinkVictim(t)
  <2>1. PICK v \in w.victim :
          /\ visible' = visible \ {v}
          /\ writer' = [writer EXCEPT ![t].pc = "evict", ![t].usage = @ - Size[v],
                                      ![t].victim = {}, ![t].lost = 0]
    BY <1>14 DEF UnlinkVictim
  <2>2. w.pc = "unlink" /\ UNCHANGED <<up, durable>>
    BY <1>14 DEF UnlinkVictim, WriterAt
  <2>3. v \in visible /\ w.files = visible \ {v} /\ w.usage = Total(visible, Size)
    BY <1>0, <2>1, <2>2 DEF Knows
  <2>4. Total(visible', Size) = Total(visible, Size) - Size[v]
    BY <1>0, <2>1, <2>3, SpoolTotals
  <2> DEFINE x == [w EXCEPT !.pc = "evict", !.usage = @ - Size[v], !.victim = {}, !.lost = 0]
  <2>5. x.pc = "evict" /\ x.usage = Total(visible', Size) /\ x.files = visible'
    BY <1>0, <2>1, <2>3, <2>4 DEF Writer
  <2>5a. writer' = [writer EXCEPT ![t] = x]
    BY <2>1
  <2> HIDE DEF x
  <2>6. writer'[t] = x
    BY <1>0, <2>5a
  <2>7. Knows(writer[t])'
    BY <2>5, <2>6 DEF Knows
  <2>8. Capped(visible')
    BY <1>0, <2>1, <2>3, CappedSmaller DEF Budgeted
  <2>9. Capped(visible)' /\ Capped(durable)'
    BY <2>2, <2>8 DEF Budgeted, Capped
  <2> QED BY <2>2, <2>7, <2>9 DEF Budgeted
<1>15. CASE RenameTmp(t)
  <2>1. /\ w.pc = "rename" /\ visible' = visible \cup {Current(t)}
        /\ writer' = [writer EXCEPT ![t] = [w EXCEPT !.pc = "next", !.i = @ + 1, !.renamed = TRUE]]
        /\ UNCHANGED <<up, durable>>
    BY <1>15 DEF RenameTmp, WriterAt
  <2>2. writer'[t].pc = "next"
    BY <1>0, <2>1 DEF Writer
  <2>3. Knows(writer[t])'
    BY <2>2 DEF Knows
  <2>4. Current(t) \in Object
    BY <1>0, <2>1 DEF Holding
  <2>5. Capped(visible')
    <3>1. CASE Current(t) \in visible
      <4>1. visible' = visible
        BY <2>1, <3>1
      <4> QED BY <4>1 DEF Budgeted
    <3>2. CASE Current(t) \notin visible
      <4>1. visible = {} \/ Total(visible, Size) + Size[Current(t)] <= MaxDiskBytes
        BY <1>0, <2>1 DEF Knows, Current
      <4> QED BY <1>0, <2>1, <2>4, <3>2, <4>1, CappedLarger
    <3> QED BY <3>1, <3>2
  <2>6. Capped(visible)' /\ Capped(durable)'
    BY <2>1, <2>5 DEF Budgeted, Capped
  <2> QED BY <2>1, <2>3, <2>6 DEF Budgeted
<1> QED
  BY <1>2, <1>3, <1>4, <1>5, <1>6, <1>7, <1>8, <1>9, <1>10, <1>11, <1>12, <1>13, <1>14, <1>15
  DEF WriterStep, WriterProgress, EvictionFails

(* In an outage the pass never has a file to delete. *)
LEMMA UploadBudgets ==
  ASSUME Typed, Budgeted, "outage" \in Faults, NEW others,
         BeginPass \/ UploadStep \/ CancelUploads(others) \/ LatePut \/ JournalCommit \/ StartProcess
  PROVE  Budgeted'
<1>1. UNCHANGED <<visible, writer>> /\ (durable' = durable \/ durable' = visible) /\ up'.pc # "unlink"
  <2>1. up.pc # "unlink" /\ up \in Uploader
    BY DEF Budgeted, Typed, TypeOK
  <2>2. UploadKeeps => UNCHANGED <<visible, durable, writer>>
    BY DEF UploadKeeps, diskVars
  <2>2a. CASE ReadFile
    <3>1. UploadKeeps /\ \E o : up' = [pc |-> "put", files |-> up.files \ {o}, obj |-> {o}]
      BY <2>2a DEF ReadFile
    <3>2. up'.pc = "put"
      BY <3>1
    <3> QED BY <2>2, <3>1, <3>2
  <2>2b. CASE SkipFile
    <3>1. UploadKeeps /\ \E o : up' = [up EXCEPT !.files = @ \ {o}]
      BY <2>2b DEF SkipFile
    <3>2. up'.pc = up.pc
      BY <2>1, <3>1 DEF Uploader
    <3> QED BY <2>1, <2>2, <3>1, <3>2
  <2>2c. CASE BeginPass
    BY <2>2, <2>2c DEF BeginPass, IdleUploader
  <2>3. CASE EndPass \/ PutFails \/ CancelUploads(others)
    BY <2>2, <2>3 DEF EndPass, PutFails, CancelUploads, diskVars, IdleUploader
  <2>4. CASE PutOk \/ DeleteUploaded \/ DeleteFails
    BY <2>1, <2>4 DEF PutOk, DeleteUploaded, DeleteFails
  <2>5. CASE LatePut \/ JournalCommit \/ StartProcess
    BY <2>1, <2>5 DEF LatePut, JournalCommit, StartProcess, diskVars
  <2> QED BY <2>2a, <2>2b, <2>2c, <2>3, <2>4, <2>5 DEF UploadStep, UploadProgress
<1>2. Capped(visible)' /\ Capped(durable)'
  BY <1>1 DEF Budgeted, Capped
<1>3. \A t \in Thread : Knows(writer[t])'
  BY <1>1 DEF Budgeted, Knows
<1> QED BY <1>1, <1>2, <1>3 DEF Budgeted

LEMMA EndBudgets ==
  ASSUME Budgeted, NEW others, PowerCut(others) \/ ProcessEnds(others)
  PROVE  Budgeted'
<1>1. /\ writer' = [t \in Thread |-> IdleWriter] /\ up' = IdleUploader
      /\ durable' = durable /\ visible' \in {visible, durable}
  BY DEF PowerCut, ProcessEnds, ThreadsDie, diskVars
<1>2. Capped(visible)' /\ Capped(durable)'
  BY <1>1 DEF Budgeted, Capped
<1>3. \A t \in Thread : writer'[t].pc = "idle"
  BY <1>1 DEF IdleWriter
<1>4. \A t \in Thread : Knows(writer[t])'
  BY <1>3 DEF Knows
<1>5. up'.pc # "unlink"
  BY <1>1 DEF IdleUploader
<1> QED BY <1>2, <1>4, <1>5 DEF Budgeted

(* With S3 unreachable the spool keeps to its budget: after every step of  *)
(* one writer thread, whatever fails, is killed or loses power, the files  *)
(* fit in MAX_DISK_BYTES or are a single batch that does not.  An eviction *)
(* that fails (`break', and the write goes on), an upload that deletes a   *)
(* file from under it or a second writer can each break it: no other call  *)
(* may touch the directory between the listing and the rename.             *)
THEOREM CapHoldsInOutage ==
  ASSUME \A r, s \in Thread : r = s, "outage" \in Faults, "unlink" \notin Faults
  PROVE  Spec => []DiskCap
<1>1. InitAlone => Budgeted
  <2>1. Total({}, Size) = 0
    BY TotalEmpty
  <2>2. Capped({})
    BY <2>1, SpoolAssumption DEF Capped
  <2>3. Knows(IdleWriter)
    BY DEF Knows, IdleWriter
  <2> QED BY <2>2, <2>3 DEF InitAlone, Init, Budgeted, IdleUploader
<1>2. Typed /\ Budgeted /\ [Next]_allVars => Budgeted'
  <2> SUFFICES ASSUME Typed, Budgeted, [Next]_allVars PROVE Budgeted'
    OBVIOUS
  <2>1. ASSUME NEW t \in Thread, NEW objs, Submit(t, objs) PROVE Budgeted'
    <3> DEFINE x == [IdleWriter EXCEPT !.pc = "next", !.objs = objs]
    <3>1. writer' = [writer EXCEPT ![t] = x] /\ UNCHANGED <<visible, up, durable>>
      BY <2>1 DEF Submit, FilesUnchanged, diskVars
    <3>2. Knows(x)
      BY DEF Knows, IdleWriter
    <3> QED BY <3>1, <3>2, CallBudgets
  <2>2. ASSUME NEW t \in Thread, Collect(t) PROVE Budgeted'
    <3>1. writer' = [writer EXCEPT ![t] = IdleWriter] /\ UNCHANGED <<visible, up, durable>>
      BY <2>2 DEF Collect, FilesUnchanged, diskVars
    <3>2. Knows(IdleWriter)
      BY DEF Knows, IdleWriter
    <3> QED BY <3>1, <3>2, CallBudgets
  <2>3. CASE Threads
    BY <2>1, <2>2, <2>3 DEF Threads, Flush, Answer
  <2>4. CASE EndOfProcess
    BY <2>4, EndBudgets DEF EndOfProcess
  <2>5. CASE Quiet
    BY <2>5, WriterBudgets, UploadBudgets DEF Quiet
  <2>6. CASE UNCHANGED allVars
    BY <2>6 DEF allVars, vars, diskVars, Budgeted, Capped, Knows
  <2> QED BY <2>3, <2>4, <2>5, <2>6 DEF Next
<1>3. Typed /\ Budgeted => DiskCap
  <2> SUFFICES ASSUME Typed, Budgeted, NEW o \in Object, visible = {o} PROVE DiskCap
    BY DEF Budgeted, Capped, DiskCap
  <2>1. Total(visible, Size) = Size[o] /\ Size[o] \in Nat
    BY TotalOne, SpoolAssumption
  <2> QED BY <2>1, SpoolAssumption DEF DiskCap
<1> QED BY <1>1, <1>2, <1>3, TypesHold, PTL DEF Spec
=============================================================================
