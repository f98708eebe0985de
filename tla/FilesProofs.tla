---------------------------- MODULE FilesProofs ----------------------------
(***************************************************************************)
(* Proofs about Files for any number of images, entries and requests, with *)
(* every fault and crash the model has.                                    *)
(*                                                                         *)
(* None of the invariants is inductive alone.  IInv adds which steps may   *)
(* still touch a record: an image that is not yet answered is unknown to   *)
(* everybody but its upload, an old one has been answered, a clean-up only *)
(* knows images that were.  So two of them never delete the same record,   *)
(* except where the orphan job finds it gone (raced).                      *)
(***************************************************************************)
EXTENDS Files, FiniteSetTheorems, TLAPS

-----------------------------------------------------------------------------
(* The inductive invariant. *)

\* The orphan job only deals with images whose upload has ended.
Aged ==
  /\ \A f \in old : up[f] \in {"ok", "failed"}
  /\ found \subseteq listed /\ listed \subseteq old
  /\ job.step # "idle" => job.image \in listed

\* Until its upload has ended, nobody else deletes the record of an image.
Uploading ==
  \A f \in Images : up[f] \in {"put", "stored", "undo"} => f \in files

\* Whatever refers to an image, or has read it to refer to it, knows it from the
\* answer to its upload; an object is only deleted after its record.
Referring == \A f \in Images : Referenced(f) => f \in files /\ Known(f)
Remembers(q) ==
  CASE q.kind = "entry" -> q.images \cup q.removed
    [] q.kind = "avatar" -> {q.image, q.before} \ {None}
    [] q.kind = "cover" -> {q.image} \ {None}
    [] OTHER -> {}
Remembering == \A r \in Requests : \A f \in Remembers(req[r]) : Known(f)
Cleaning == \A t \in tasks : Known(t.image) /\ (t.step = "object" => t.image \notin files)

Stored ==
  \A f \in Images : /\ up[f] \in {"saved", "stored"} => f \in objects
                    /\ f \in files /\ Known(f) /\ f \notin listed => f \in objects

Reference == Aged /\ Uploading /\ Referring /\ Remembering /\ Cleaning /\ Stored

\* An image that is about to be taken off the counter has no record, and has not
\* been taken off.
Refunding ==
  \A f \in Images :
    /\ up[f] \notin {"ok", "failed"} => refunds[f] = 0
    /\ f \notin raced \cup botched =>
         /\ up[f] \in {"undo object", "undo counter"} => f \notin files
         /\ job = [step |-> "counter", image |-> f] => f \notin files /\ refunds[f] = 0

\* The images the counter still charges: those with a record and those that are
\* about to be taken off.
Charged ==
  {f \in Images : \/ f \in files
                  \/ up[f] \in {"undo object", "undo counter"}
                  \/ job = [step |-> "counter", image |-> f]}
Room == raced \cup botched = {} => Cardinality(Charged) <= used

IInv == TypeOK /\ Reference /\ Refunding /\ RefundedOnce /\ Room

-----------------------------------------------------------------------------
(* Frames and types. *)

\* What a group of actions leaves alone.
LEMMA UploadFrame ==
  ASSUME NEW f \in Images, Upload(f)
  PROVE  UNCHANGED <<entries, images, old, req, tasks, jobVars>>
BY DEF Upload, SaveLocally, CreateRecord, OverLimit, PutToOSS, PutFails, Answer,
       LaterPartFails, UndoRecord, UndoObject, UndoCounter, CrashUpload, rowVars, refVars

\* A request that saves references leaves uploads, records and the job alone.
LEMMA RequestFrame ==
  ASSUME NEW r \in Requests, Request(r)
  PROVE  UNCHANGED <<rowVars, old, up, jobVars, botched>>
BY DEF Request, ReadForEntry, SaveEntry, ReadForAvatar, SetAvatar, ReadForCover,
       SetCover, GiveUp

\* A clean-up leaves references, uploads, requests and the job alone.
LEMMA TaskFrame ==
  ASSUME NEW t \in tasks, CleanUp(t)
  PROVE  UNCHANGED <<entries, images, old, up, req, jobVars, botched>>
BY DEF CleanUp, TaskUnreferenced, TaskCheck, TaskDelete, TaskObject, CrashTask, refVars

\* The nightly job leaves references, uploads, requests and clean-ups alone.
LEMMA JobFrame ==
  ASSUME Job
  PROVE  UNCHANGED <<entries, images, old, up, req, tasks, botched>>
BY DEF Job, Scan, CrashJob, JobStep, JobSkips, JobObject, JobRecord, JobCounter, refVars

\* A refund keeps the counter between zero and the limit.
LEMMA RefundType ==
  ASSUME TypeOK, NEW f \in Images, Refund(f)
  PROVE  used' \in 0..Limit /\ refunds' \in [Images -> Nat]
<1>1. used \in 0..Limit /\ refunds \in [Images -> Nat] /\ Limit \in Nat
  BY ParametersAssumption DEF TypeOK
<1>2. used' \in 0..Limit
  BY <1>1 DEF Refund
<1>3. refunds' \in [Images -> Nat]
  BY <1>1 DEF Refund
<1>4. QED
  BY <1>2, <1>3

\* Deleting a record keeps the records and what the rows refer to in their types.
LEMMA DropRecordType ==
  ASSUME TypeOK, NEW f \in Images, DropRecord(f)
  PROVE  files' \subseteq Images /\ {avatar', cover'} \subseteq Images \cup {None}
BY DEF TypeOK, DropRecord

\* Clean-ups put off for later are clean-ups of images.
LEMMA LaterType ==
  ASSUME TypeOK, NEW S \in SUBSET Images, NEW e \in Entries \cup {None},
         NEW s \in {"check", "delete", "object"}, Later(S, e, s)
  PROVE  tasks' \subseteq Task
<1>1. \A f \in S : [image |-> f, of |-> e, step |-> s] \in Task
  BY DEF Task
<1>2. QED
  BY <1>1 DEF TypeOK, Later

\* Taking a cover away leaves an image or none.
LEMMA UncoverType ==
  ASSUME TypeOK, NEW S, Uncover(S)
  PROVE  cover' \in Images \cup {None}
BY DEF TypeOK, Uncover

\* The kind of a request tells which fields it has.
LEMMA KindOfRequest ==
  ASSUME TypeOK, NEW r \in Requests
  PROVE  /\ req[r].kind = "entry" => req[r] \in EntryRequest
         /\ req[r].kind = "avatar" => req[r] \in AvatarRequest
         /\ req[r].kind = "cover" => req[r] \in CoverRequest
<1>1. req[r] \in {NoRequest} \cup EntryRequest \cup AvatarRequest \cup CoverRequest
  BY DEF TypeOK
<1>2. CASE req[r] = NoRequest
  BY <1>2 DEF NoRequest
<1>3. CASE req[r] \in EntryRequest
  BY <1>3 DEF EntryRequest
<1>4. CASE req[r] \in AvatarRequest
  BY <1>4 DEF AvatarRequest
<1>5. CASE req[r] \in CoverRequest
  BY <1>5 DEF CoverRequest
<1>6. QED
  BY <1>1, <1>2, <1>3, <1>4, <1>5

\* The job, idle or at an image, has its type.
LEMMA JobTypes ==
  /\ Waiting \in [step : {"idle", "record", "counter"}, image : Images \cup {None}]
  /\ \A f \in Images, s \in {"record", "counter"} :
       [step |-> s, image |-> f] \in [step : {"idle", "record", "counter"}, image : Images \cup {None}]
BY DEF Waiting

\* A clean-up that goes on to delete keeps its image and entry.
LEMMA DeletingTask ==
  ASSUME NEW t \in Task
  PROVE  [t EXCEPT !.step = "delete"] = [image |-> t.image, of |-> t.of, step |-> "delete"]
<1>1. PICK f \in Images, e \in Entries \cup {None}, s \in {"check", "delete", "object"} :
        t = [image |-> f, of |-> e, step |-> s]
  BY DEF Task
<1>2. [[image |-> f, of |-> e, step |-> s] EXCEPT !.step = "delete"]
        = [image |-> f, of |-> e, step |-> "delete"]
  OBVIOUS
<1>3. QED
  BY <1>1, <1>2

\* Every step keeps the types.
LEMMA Types ==
  ASSUME TypeOK, [Next]_vars
  PROVE  TypeOK'
<1> USE ParametersAssumption DEF TypeOK, rowVars, refVars, jobVars
<1>1. ASSUME NEW f \in Images, Upload(f)
      PROVE  TypeOK'
  <2>1. CASE SaveLocally(f)
    BY <2>1 DEF SaveLocally, At
  <2>2. CASE CreateRecord(f)
    <3>1. used' \in 0..Limit
      <4>1. used \in 0..Limit /\ Limit \in Nat /\ used' = used + 1 /\ used + 1 <= Limit
        BY <2>2 DEF CreateRecord
      <4>2. QED
        BY ONLY <4>1
    <3>2. QED
      BY <2>2, <3>1 DEF CreateRecord, At
  <2>3. CASE OverLimit(f)
    BY <2>3 DEF OverLimit, At
  <2>4. CASE PutToOSS(f)
    BY <2>4 DEF PutToOSS, At
  <2>5. CASE PutFails(f)
    BY <2>5 DEF PutFails, At
  <2>6. CASE Answer(f)
    BY <2>6 DEF Answer, At
  <2>7. CASE LaterPartFails(f)
    BY <2>7 DEF LaterPartFails, At
  <2>8. CASE UndoRecord(f)
    BY <2>8 DEF UndoRecord, DropRecord, At
  <2>9. CASE UndoObject(f)
    BY <2>9 DEF UndoObject, At
  <2>10. CASE UndoCounter(f)
    <3>1. used' \in 0..Limit /\ refunds' \in [Images -> Nat]
      BY <2>10, RefundType DEF UndoCounter
    <3>2. QED
      BY <2>10, <3>1 DEF UndoCounter, At
  <2>11. CASE CrashUpload(f)
    BY <2>11 DEF CrashUpload, At
  <2>12. QED
    BY <1>1, <2>1, <2>2, <2>3, <2>4, <2>5, <2>6, <2>7, <2>8, <2>9, <2>10, <2>11 DEF Upload
<1>2. ASSUME NEW r \in Requests, Request(r)
      PROVE  TypeOK'
  <2>1. ASSUME NEW e \in Entries, NEW S \in SUBSET Images, ReadForEntry(r, e, S)
        PROVE  TypeOK'
    <3>1. [kind |-> "entry", entry |-> e, new |-> entries[e] = "new",
           images |-> S, removed |-> Of(e) \ S] \in EntryRequest
      BY DEF EntryRequest, Of
    <3>2. QED
      BY <2>1, <3>1 DEF ReadForEntry, Ask
  <2>2. CASE SaveEntry(r)
    <3>1. req[r] \in EntryRequest
      BY <2>2, KindOfRequest DEF SaveEntry
    <3>2. req[r].entry \in Entries /\ req[r].images \subseteq Images /\ req[r].removed \subseteq Images
      BY <3>1 DEF EntryRequest
    <3>3. cover' \in Images \cup {None} /\ tasks' \subseteq Task
      BY <2>2, <3>2, LaterType, UncoverType DEF SaveEntry
    <3>4. images' \subseteq Entries \X Images
      BY <2>2, <3>2 DEF SaveEntry
    <3>5. QED
      BY <2>2, <3>2, <3>3, <3>4 DEF SaveEntry, Ask
  <2>3. ASSUME NEW f \in Images, ReadForAvatar(r, f)
        PROVE  TypeOK'
    BY <2>3 DEF ReadForAvatar, Ask, AvatarRequest
  <2>4. CASE SetAvatar(r)
    <3>1. req[r] \in AvatarRequest
      BY <2>4, KindOfRequest DEF SetAvatar
    <3>2. req[r].image \in Images /\ {req[r].before} \ {None, req[r].image} \subseteq Images
      BY <3>1 DEF AvatarRequest
    <3>3. tasks' \subseteq Task
      BY <2>4, <3>2, LaterType DEF SetAvatar
    <3>4. QED
      BY <2>4, <3>2, <3>3 DEF SetAvatar, Ask
  <2>5. ASSUME NEW f \in Images \cup {None}, ReadForCover(r, f)
        PROVE  TypeOK'
    BY <2>5 DEF ReadForCover, Ask, CoverRequest
  <2>6. CASE SetCover(r)
    BY <2>6 DEF SetCover, Ask
  <2>7. CASE GiveUp(r)
    BY <2>7 DEF GiveUp, Ask
  <2>8. QED
    BY <1>2, <2>1, <2>2, <2>3, <2>4, <2>5, <2>6, <2>7 DEF Request
<1>3. ASSUME NEW e \in Entries, DeleteEntry(e)
      PROVE  TypeOK'
  <2>1. cover' \in Images \cup {None} /\ tasks' \subseteq Task
    BY <1>3, LaterType, UncoverType DEF DeleteEntry, Of
  <2>2. images' \subseteq Entries \X Images /\ entries' \in [Entries -> {"new", "there", "gone"}]
    BY <1>3 DEF DeleteEntry
  <2>3. QED
    BY <1>3, <2>1, <2>2 DEF DeleteEntry
<1>4. CASE DeleteDiary
  <2>1. cover' \in Images \cup {None} /\ tasks' \subseteq Task
    BY <1>4, LaterType, UncoverType DEF DeleteDiary
  <2>2. images' \subseteq Entries \X Images /\ entries' \in [Entries -> {"new", "there", "gone"}]
    BY <1>4 DEF DeleteDiary
  <2>3. QED
    BY <1>4, <2>1, <2>2 DEF DeleteDiary
<1>5. ASSUME NEW t \in tasks, CleanUp(t)
      PROVE  TypeOK'
  <2>1. t \in Task /\ t.image \in Images /\ ObjectTask(t.image) \in Task
        /\ [t EXCEPT !.step = "delete"] \in Task
    <3>1. t \in Task
      OBVIOUS
    <3>2. QED
      BY <3>1, DeletingTask DEF Task, ObjectTask
  <2>2. CASE TaskUnreferenced(t)
    <3>1. CASE Deletable(t.image) /\ DeleteUnreferenced(t.image) /\ Move(t, {ObjectTask(t.image)})
      <4>1. /\ used' \in 0..Limit /\ refunds' \in [Images -> Nat]
            /\ files' \subseteq Images /\ {avatar', cover'} \subseteq Images \cup {None}
        BY <2>1, <3>1, RefundType, DropRecordType DEF DeleteUnreferenced
      <4>2. QED
        BY <2>1, <2>2, <3>1, <4>1 DEF TaskUnreferenced, Move
    <3>2. CASE Move(t, {}) /\ UNCHANGED <<files, used, refunds, avatar, cover>>
      BY <2>2, <3>2 DEF TaskUnreferenced, Move
    <3>3. QED
      BY <2>2, <3>1, <3>2 DEF TaskUnreferenced
  <2>3. CASE TaskCheck(t)
    BY <2>1, <2>3 DEF TaskCheck, Move
  <2>4. CASE TaskDelete(t)
    BY <2>1, <2>4 DEF TaskDelete, DropRecord, Move
  <2>5. CASE TaskObject(t)
    BY <2>1, <2>5 DEF TaskObject, Move
  <2>6. CASE CrashTask(t)
    BY <2>1, <2>6 DEF CrashTask, Move
  <2>7. QED
    BY <1>5, <2>2, <2>3, <2>4, <2>5, <2>6 DEF CleanUp
<1>6. ASSUME NEW f \in Images, Delete(f) \/ Age(f)
      PROVE  TypeOK'
  <2>1. CASE Delete(f)
    <3>1. /\ used' \in 0..Limit /\ refunds' \in [Images -> Nat]
          /\ files' \subseteq Images /\ {avatar', cover'} \subseteq Images \cup {None}
      BY <2>1, RefundType, DropRecordType DEF Delete, DeleteUnreferenced
    <3>2. ObjectTask(f) \in Task
      BY DEF ObjectTask, Task
    <3>3. QED
      BY <2>1, <3>1, <3>2 DEF Delete
  <2>2. CASE Age(f)
    BY <2>2 DEF Age
  <2>3. QED
    BY <1>6, <2>1, <2>2
<1>7. CASE Job
  <2>1. CASE Scan
    BY <2>1 DEF Scan, Orphans
  <2>2. CASE CrashJob
    BY <2>2 DEF CrashJob, Waiting
  <2>3. ASSUME NEW f \in Images, JobStep(f)
        PROVE  TypeOK'
    <3>1. CASE JobSkips(f)
      BY <3>1 DEF JobSkips
    <3>2. CASE JobObject(f)
      BY <3>2 DEF JobObject
    <3>3. CASE JobRecord(f)
      <4>1. job' \in [step : {"idle", "record", "counter"}, image : Images \cup {None}]
        <5>1. job' = Waiting \/ job' = [step |-> "counter", image |-> f]
          BY <3>3 DEF JobRecord
        <5>2. QED
          BY ONLY <5>1, JobTypes, f \in Images
      <4>2. QED
        BY <3>3, <4>1 DEF JobRecord, DropRecord
    <3>4. CASE JobCounter(f)
      <4>1. used' \in 0..Limit /\ refunds' \in [Images -> Nat]
        BY <3>4, RefundType DEF JobCounter
      <4>2. QED
        BY <3>4, <4>1, JobTypes DEF JobCounter
    <3>5. QED
      BY <2>3, <3>1, <3>2, <3>3, <3>4 DEF JobStep
  <2>4. QED
    BY <1>7, <2>1, <2>2, <2>3 DEF Job
<1>8. CASE UNCHANGED vars
  BY <1>8 DEF vars
<1>9. QED
  BY <1>1, <1>2, <1>3, <1>4, <1>5, <1>6, <1>7, <1>8 DEF Next

-----------------------------------------------------------------------------
(* What a step may do to the uploads, records, objects and references. *)

\* Deleting an entry or a diary leaves uploads, records, requests and the job alone.
LEMMA EditFrame ==
  ASSUME DeleteDiary \/ \E e \in Entries : DeleteEntry(e)
  PROVE  UNCHANGED <<rowVars, avatar, old, up, req, jobVars, botched>>
BY DEF DeleteDiary, DeleteEntry

\* An upload moves its own image, and only before it has ended.
LEMMA UploadMoves ==
  ASSUME TypeOK, NEW f \in Images, Upload(f)
  PROVE  /\ up[f] \notin {"ok", "failed"}
         /\ \A g \in Images \ {f} : up'[g] = up[g]
<1>1. up \in [Images -> {"new", "saved", "put", "stored", "ok",
                        "undo", "undo object", "undo counter", "failed"}]
  BY DEF TypeOK
<1>2. \E s : up' = [up EXCEPT ![f] = s]
  BY DEF Upload, SaveLocally, CreateRecord, OverLimit, PutToOSS, PutFails, Answer,
         LaterPartFails, UndoRecord, UndoObject, UndoCounter, CrashUpload, At
<1>3. up[f] \notin {"ok", "failed"}
  BY DEF Upload, SaveLocally, CreateRecord, OverLimit, PutToOSS, PutFails, Answer,
         LaterPartFails, UndoRecord, UndoObject, UndoCounter, CrashUpload
<1>4. QED
  BY <1>1, <1>2, <1>3

\* Nothing but its upload moves an image.
LEMMA OthersStay ==
  ASSUME [Next]_vars, \A f \in Images : ~Upload(f)
  PROVE  up' = up
BY RequestFrame, TaskFrame, JobFrame, EditFrame
   DEF Next, Delete, Age, vars

\* An upload that has ended stays as it ended.
LEMMA Ends ==
  ASSUME TypeOK, [Next]_vars, NEW g \in Images, up[g] \in {"ok", "failed"}
  PROVE  up'[g] = up[g]
BY UploadMoves, OthersStay

\* Every step keeps what is old, and so may be listed by the job, ended.
LEMMA AgedStep ==
  ASSUME TypeOK, Aged, [Next]_vars
  PROVE  Aged'
<1> USE DEF Aged
<1>1. \A g \in old : up'[g] = up[g]
  BY Ends DEF TypeOK
<1>2. ASSUME NEW f \in Images, Upload(f)
      PROVE  Aged'
  BY <1>1, <1>2, UploadFrame DEF jobVars
<1>3. ASSUME NEW r \in Requests, Request(r)
      PROVE  Aged'
  BY <1>1, <1>3, RequestFrame DEF jobVars
<1>4. ASSUME NEW t \in tasks, CleanUp(t)
      PROVE  Aged'
  BY <1>1, <1>4, TaskFrame DEF jobVars
<1>5. CASE DeleteDiary \/ \E e \in Entries : DeleteEntry(e)
  BY <1>1, <1>5, EditFrame DEF jobVars
<1>6. ASSUME NEW f \in Images, Delete(f)
      PROVE  Aged'
  BY <1>1, <1>6 DEF Delete, jobVars
<1>7. ASSUME NEW f \in Images, Age(f)
      PROVE  Aged'
  BY <1>1, <1>7 DEF Age, jobVars
<1>8. CASE Job
  <2>1. up' = up /\ old' = old
    BY <1>8, JobFrame
  <2>2. CASE Scan
    BY <2>1, <2>2 DEF Scan, Orphans, Orphan, Waiting
  <2>3. CASE CrashJob
    BY <2>1, <2>3 DEF CrashJob, Waiting
  <2>4. ASSUME NEW f \in Images, JobStep(f)
        PROVE  Aged'
    <3>1. CASE JobSkips(f)
      BY <2>1, <3>1 DEF JobSkips
    <3>2. CASE JobObject(f)
      BY <2>1, <3>2 DEF JobObject
    <3>3. CASE JobRecord(f)
      BY <2>1, <3>3 DEF JobRecord, Waiting
    <3>4. CASE JobCounter(f)
      BY <2>1, <3>4 DEF JobCounter, Waiting
    <3>5. QED
      BY <2>4, <3>1, <3>2, <3>3, <3>4 DEF JobStep
  <2>5. QED
    BY <1>8, <2>2, <2>3, <2>4 DEF Job
<1>9. CASE UNCHANGED vars
  BY <1>9 DEF vars, jobVars
<1>10. QED
  BY <1>2, <1>3, <1>4, <1>5, <1>6, <1>7, <1>8, <1>9 DEF Next

\* A record is only created by an upload, and only deleted by one, or after one,
\* when nothing refers to it.
LEMMA Records ==
  ASSUME TypeOK, Reference, [Next]_vars, NEW g \in Images
  PROVE  /\ g \in files' /\ g \notin files => up[g] \in {"new", "saved"}
         /\ g \in files /\ g \notin files' =>
              /\ up[g] \in {"ok", "failed"} \/ up'[g] = "undo object"
              /\ ~Referenced(g)'
<1> DEFINE Only == /\ g \in files' /\ g \notin files => up[g] \in {"new", "saved"}
                   /\ g \in files /\ g \notin files' =>
                        /\ up[g] \in {"ok", "failed"} \/ up'[g] = "undo object"
                        /\ ~Referenced(g)'
<1>1. CASE files' = files
  BY <1>1
<1>2. ASSUME NEW f \in Images, DropRecord(f), UNCHANGED <<entries, images>>,
             ~UsedByEntry(f), up[f] \in {"ok", "failed"} \/ up'[f] = "undo object"
      PROVE  Only
  BY <1>2, ParametersAssumption DEF DropRecord, Referenced, UsedByEntry
<1>3. ASSUME NEW f \in Images, Upload(f)
      PROVE  Only
  <2>1. CASE CreateRecord(f)
    BY <2>1 DEF CreateRecord
  <2>2. CASE UndoRecord(f)
    <3>1. CASE DropRecord(f)
      <4>1. ~UsedByEntry(f)
        BY <2>2 DEF UndoRecord, Reference, Referring, Referenced, Known
      <4>2. up'[f] = "undo object"
        BY <2>2 DEF UndoRecord, At, TypeOK
      <4>3. QED
        BY <2>2, <3>1, <4>1, <4>2, <1>2 DEF UndoRecord
    <3>2. QED
      BY <2>2, <3>1, <1>1 DEF UndoRecord
  <2>3. CASE ~CreateRecord(f) /\ ~UndoRecord(f)
    <3>1. files' = files
      BY <1>3, <2>3 DEF Upload, SaveLocally, OverLimit, PutToOSS, PutFails, Answer,
         LaterPartFails, UndoObject, UndoCounter, CrashUpload, rowVars
    <3>2. QED
      BY <1>1, <3>1
  <2>4. QED
    BY <2>1, <2>2, <2>3
<1>4. ASSUME NEW r \in Requests, Request(r)
      PROVE  Only
  BY <1>1, <1>4, RequestFrame DEF rowVars
<1>5. ASSUME NEW t \in tasks, CleanUp(t)
      PROVE  Only
  <2>1. t.image \in Images /\ up[t.image] = "ok"
    BY DEF TypeOK, Task, Reference, Cleaning, Known
  <2>2. UNCHANGED <<entries, images>>
    BY <1>5, TaskFrame
  <2>3. files' = files \/ (DropRecord(t.image) /\ ~UsedByEntry(t.image))
    BY <1>5 DEF CleanUp, TaskUnreferenced, TaskCheck, TaskDelete, TaskObject, CrashTask,
       Deletable, DeleteUnreferenced, Referenced, rowVars
  <2>4. QED
    BY <1>1, <1>2, <2>1, <2>2, <2>3
<1>6. CASE DeleteDiary \/ \E e \in Entries : DeleteEntry(e)
  BY <1>1, <1>6, EditFrame DEF rowVars
<1>7. ASSUME NEW f \in Images, Delete(f)
      PROVE  Only
  BY <1>2, <1>7 DEF Delete, Deletable, DeleteUnreferenced, Referenced, Known
<1>8. ASSUME NEW f \in Images, Age(f)
      PROVE  Only
  BY <1>1, <1>8 DEF Age, rowVars
<1>9. CASE Job
  <2>1. CASE files' = files
    BY <1>1, <2>1
  <2>2. ASSUME NEW f \in Images, JobRecord(f)
        PROVE  Only
    <3>1. up[f] \in {"ok", "failed"}
      <4>1. job.step # "idle" /\ job.image = f
        BY <2>2 DEF JobRecord
      <4>2. QED
        BY <4>1 DEF Reference, Aged
    <3>2. CASE UsedByEntry(f)
      BY <2>2, <3>2, <1>1 DEF JobRecord
    <3>3. CASE ~UsedByEntry(f)
      BY <2>2, <3>1, <3>3, <1>2 DEF JobRecord
    <3>4. QED
      BY <3>2, <3>3
  <2>3. QED
    BY <1>9, <2>1, <2>2 DEF Job, JobStep, Scan, CrashJob, JobSkips, JobObject, JobCounter, rowVars
<1>10. CASE UNCHANGED vars
  BY <1>1, <1>10 DEF vars, rowVars
<1>11. QED
  BY <1>3, <1>4, <1>5, <1>6, <1>7, <1>8, <1>9, <1>10 DEF Next

\* An object is only deleted after its record, by the upload that is undone, or
\* by the orphan job.
LEMMA Objects ==
  ASSUME TypeOK, Reference, [Next]_vars, NEW g \in objects \ objects'
  PROVE  \/ g \notin files /\ Known(g)
         \/ g \in listed
         \/ up'[g] \in {"failed", "undo counter"}
<1> DEFINE Allowed == \/ g \notin files /\ Known(g)
                      \/ g \in listed
                      \/ up'[g] \in {"failed", "undo counter"}
<1>1. ASSUME NEW f \in Images, Upload(f)
      PROVE  Allowed
  BY <1>1 DEF Upload, SaveLocally, CreateRecord, OverLimit, PutToOSS, PutFails, Answer,
     LaterPartFails, UndoRecord, UndoObject, UndoCounter, CrashUpload, rowVars, At, TypeOK
<1>2. ASSUME NEW t \in tasks, CleanUp(t)
      PROVE  Allowed
  BY <1>2 DEF CleanUp, TaskUnreferenced, TaskCheck, TaskDelete, TaskObject, CrashTask,
     rowVars, Reference, Cleaning
<1>3. CASE Job
  BY <1>3 DEF Job, JobStep, Scan, CrashJob, JobSkips, JobObject, JobRecord, JobCounter,
     rowVars, Reference, Aged
<1>4. CASE objects' = objects
  BY <1>4
<1>5. QED
  BY <1>1, <1>2, <1>3, <1>4, RequestFrame, EditFrame DEF Next, Delete, Age, vars, rowVars

\* A new reference was read by its request before.
LEMMA References ==
  ASSUME TypeOK, [Next]_vars, NEW g \in Images, Referenced(g)', ~Referenced(g)
  PROVE  \E r \in Requests : g \in Remembers(req[r]) \cap files
<1> USE ParametersAssumption
<1> DEFINE Asked == \E r \in Requests : g \in Remembers(req[r]) \cap files
<1>1. CASE UNCHANGED <<images, avatar, cover>>
  BY <1>1 DEF Referenced, UsedByEntry
<1>2. ASSUME images' \subseteq images, avatar' \in {avatar, None}, cover' \in {cover, None}
      PROVE  Asked
  BY <1>2 DEF Referenced, UsedByEntry
<1>3. ASSUME NEW f \in Images, Upload(f)
      PROVE  Asked
  BY <1>2, <1>3 DEF Upload, SaveLocally, CreateRecord, OverLimit, PutToOSS, PutFails, Answer,
     LaterPartFails, UndoRecord, UndoObject, UndoCounter, CrashUpload, refVars, DropRecord
<1>4. ASSUME NEW r \in Requests, Request(r)
      PROVE  Asked
  <2>1. CASE SaveEntry(r)
    <3>1. req[r].kind = "entry" /\ req[r].images \subseteq files
      BY <2>1 DEF SaveEntry, Fits
    <3>2. avatar' = avatar /\ cover' \in {cover, None}
      BY <2>1 DEF SaveEntry, Uncover
    <3>3. UsedByEntry(g)' => UsedByEntry(g) \/ g \in req[r].images
      BY <2>1 DEF SaveEntry, UsedByEntry
    <3>4. g \in req[r].images
      BY <3>2, <3>3 DEF Referenced
    <3>5. QED
      BY <3>1, <3>4 DEF Remembers
  <2>2. CASE SetAvatar(r)
    <3>1. req[r].kind = "avatar" /\ req[r].image \in files /\ g = req[r].image
      BY <2>2 DEF SetAvatar, Referenced, UsedByEntry
    <3>2. QED
      BY <3>1 DEF Remembers
  <2>3. CASE SetCover(r)
    <3>1. req[r].kind = "cover" /\ req[r].image \in files \cup {None} /\ g = req[r].image
      BY <2>3 DEF SetCover, Referenced, UsedByEntry
    <3>2. QED
      BY <3>1 DEF Remembers
  <2>4. QED
    BY <1>1, <1>4, <2>1, <2>2, <2>3
       DEF Request, ReadForEntry, ReadForAvatar, ReadForCover, GiveUp, refVars
<1>5. ASSUME NEW t \in tasks, CleanUp(t)
      PROVE  Asked
  BY <1>2, <1>5 DEF CleanUp, TaskUnreferenced, TaskCheck, TaskDelete, TaskObject, CrashTask,
     refVars, DeleteUnreferenced, DropRecord
<1>6. CASE DeleteDiary \/ \E e \in Entries : DeleteEntry(e)
  BY <1>2, <1>6 DEF DeleteDiary, DeleteEntry, Uncover
<1>7. ASSUME NEW f \in Images, Delete(f) \/ Age(f)
      PROVE  Asked
  BY <1>2, <1>7 DEF Delete, Age, refVars, DeleteUnreferenced, DropRecord
<1>8. CASE Job
  BY <1>2, <1>8 DEF Job, JobStep, Scan, CrashJob, JobSkips, JobObject, JobRecord, JobCounter,
     refVars, DropRecord
<1>9. CASE UNCHANGED vars
  BY <1>1, <1>9 DEF vars, refVars
<1>10. QED
  BY <1>3, <1>4, <1>5, <1>6, <1>7, <1>8, <1>9 DEF Next

-----------------------------------------------------------------------------
(* References and objects. *)

\* Every step keeps the record of an upload that is under way.
LEMMA UploadingStep ==
  ASSUME TypeOK, Reference, [Next]_vars
  PROVE  Uploading'
<1> SUFFICES ASSUME NEW g \in Images, up'[g] \in {"put", "stored", "undo"}
             PROVE  g \in files'
  BY DEF Uploading
<1>1. CASE up[g] \in {"put", "stored", "undo"}
  BY <1>1, Records DEF Reference, Uploading
<1>2. CASE up[g] \notin {"put", "stored", "undo"}
  <2>1. up'[g] # up[g] /\ Upload(g)
    BY <1>2, UploadMoves, OthersStay
  <2>2. QED
    BY <1>2, <2>1 DEF TypeOK, Upload, SaveLocally, CreateRecord, OverLimit, PutToOSS, PutFails,
       Answer, LaterPartFails, UndoRecord, UndoObject, UndoCounter, CrashUpload, At
<1>3. QED
  BY <1>1, <1>2

\* Every step keeps what is referenced recorded and uploaded.
LEMMA ReferringStep ==
  ASSUME TypeOK, Reference, [Next]_vars
  PROVE  Referring'
<1> SUFFICES ASSUME NEW g \in Images, Referenced(g)'
             PROVE  g \in files' /\ up'[g] = "ok"
  BY DEF Referring, Known
<1>1. g \in files /\ up[g] = "ok"
  BY References DEF Reference, Referring, Remembering, Known
<1>2. QED
  BY <1>1, Records, Ends

\* What a request has read.
LEMMA Asking ==
  ASSUME TypeOK, Reference, [Next]_vars, NEW r \in Requests, req'[r] # req[r],
         NEW g \in Remembers(req'[r])
  PROVE  Known(g)
<1> USE DEF Reference, Referring
<1>1. PICK q \in Requests : Request(q)
  BY UploadFrame, TaskFrame, JobFrame, EditFrame DEF Next, Delete, Age, vars
<1>2. q = r /\ \E new : req' = [req EXCEPT ![q] = new]
  BY <1>1 DEF Request, ReadForEntry, SaveEntry, ReadForAvatar, SetAvatar, ReadForCover,
     SetCover, GiveUp, Ask, TypeOK
<1>3. ASSUME NEW e \in Entries, NEW S \in SUBSET Images, ReadForEntry(r, e, S)
      PROVE  Known(g)
  <2>1. req'[r] = [kind |-> "entry", entry |-> e, new |-> entries[e] = "new",
                   images |-> S, removed |-> Of(e) \ S]
    BY <1>3 DEF ReadForEntry, Ask, TypeOK
  <2>2. g \in S \cup Of(e)
    BY <2>1 DEF Remembers
  <2>3. QED
    BY <1>3, <2>2 DEF ReadForEntry, Of, Referenced, UsedByEntry
<1>4. ASSUME NEW f \in Images, ReadForAvatar(r, f)
      PROVE  Known(g)
  <2>1. req'[r] = [kind |-> "avatar", image |-> f, before |-> avatar]
    BY <1>4 DEF ReadForAvatar, Ask, TypeOK
  <2>2. g \in {f, avatar} \ {None}
    BY <2>1 DEF Remembers
  <2>3. QED
    BY <1>4, <2>2 DEF ReadForAvatar, Referenced, TypeOK
<1>5. ASSUME NEW f \in Images \cup {None}, ReadForCover(r, f)
      PROVE  Known(g)
  <2>1. req'[r] = [kind |-> "cover", image |-> f]
    BY <1>5 DEF ReadForCover, Ask, TypeOK
  <2>2. g = f /\ f # None
    BY <2>1 DEF Remembers
  <2>3. QED
    BY <1>5, <2>2 DEF ReadForCover, Referenced
<1>6. CASE req'[r] = NoRequest
  BY <1>6 DEF NoRequest, Remembers
<1>7. QED
  BY <1>1, <1>2, <1>3, <1>4, <1>5, <1>6
     DEF Request, SaveEntry, SetAvatar, SetCover, GiveUp, Ask, TypeOK

\* What a request remembers are images.
LEMMA RememberedIsImage ==
  ASSUME NEW q \in {NoRequest} \cup EntryRequest \cup AvatarRequest \cup CoverRequest
  PROVE  Remembers(q) \subseteq Images
BY DEF Remembers, NoRequest, EntryRequest, AvatarRequest, CoverRequest

\* Every step keeps what a request remembers uploaded.
LEMMA RememberingStep ==
  ASSUME TypeOK, Reference, [Next]_vars, TypeOK'
  PROVE  Remembering'
<1> SUFFICES ASSUME NEW r \in Requests, NEW g \in Remembers(req'[r])
             PROVE  up'[g] = "ok"
  BY DEF Remembering, Remembers, Known
<1>1. g \in Images
  BY RememberedIsImage DEF TypeOK
<1>2. up[g] = "ok"
  BY Asking DEF Reference, Remembering, Known
<1>3. QED
  BY <1>1, <1>2, Ends

\* A clean-up is of an image.
LEMMA TaskIsImage ==
  ASSUME TypeOK, NEW t \in tasks
  PROVE  t.image \in Images
BY DEF TypeOK, Task

\* A new clean-up is of an image that was referenced, or it deletes the object of
\* a record that is gone.
LEMMA Tasks ==
  ASSUME TypeOK, Reference, [Next]_vars, NEW t \in tasks', t \notin tasks
  PROVE  /\ t.image \in Images /\ Known(t.image)
         /\ t.step = "object" => t.image \notin files'
<1> DEFINE Good == /\ t.image \in Images /\ Known(t.image)
                   /\ t.step = "object" => t.image \notin files'
<1>1. ASSUME NEW S \in SUBSET Images, NEW e, NEW s \in {"check", "delete"}, Later(S, e, s),
             \A f \in S : Known(f)
      PROVE  Good
  BY <1>1 DEF Later
<1>2. ASSUME NEW f \in Images, Known(f), DropRecord(f), t = ObjectTask(f)
      PROVE  Good
  BY <1>2 DEF DropRecord, ObjectTask
<1>3. ASSUME NEW r \in Requests, Request(r)
      PROVE  Good
  <2>1. CASE SaveEntry(r)
    <3>1. req[r].kind = "entry" /\ req[r] \in EntryRequest
      BY <2>1, KindOfRequest DEF SaveEntry
    <3>2. req[r].removed \subseteq Images /\ \A f \in req[r].removed : Known(f)
      BY <3>1 DEF Reference, Remembering, Remembers, EntryRequest
    <3>3. QED
      BY <1>1, <2>1, <3>2 DEF SaveEntry
  <2>2. CASE SetAvatar(r)
    <3>1. req[r].kind = "avatar" /\ req[r] \in AvatarRequest
      BY <2>2, KindOfRequest DEF SetAvatar
    <3>2. /\ {req[r].before} \ {None, req[r].image} \subseteq Images
          /\ \A f \in {req[r].before} \ {None, req[r].image} : Known(f)
      BY <3>1 DEF Reference, Remembering, Remembers, AvatarRequest
    <3>3. QED
      BY <1>1, <2>2, <3>2 DEF SetAvatar
  <2>3. QED
    BY <1>3, <2>1, <2>2
       DEF Request, ReadForEntry, ReadForAvatar, ReadForCover, SetCover, GiveUp
<1>4. ASSUME NEW e \in Entries, DeleteEntry(e)
      PROVE  Good
  <2>1. Of(e) \subseteq Images /\ \A f \in Of(e) : Known(f)
    BY DEF Of, Reference, Referring, Referenced, UsedByEntry
  <2>2. QED
    BY <1>1, <1>4, <2>1 DEF DeleteEntry
<1>5. CASE DeleteDiary
  <2>1. \A f \in {g \in Images : UsedByEntry(g)} : Known(f)
    BY DEF Reference, Referring, Referenced
  <2>2. QED
    BY <1>1, <1>5, <2>1 DEF DeleteDiary
<1>6. ASSUME NEW u \in tasks, CleanUp(u)
      PROVE  Good
  <2>1. u \in Task /\ u.image \in Images /\ Known(u.image)
    BY TaskIsImage DEF TypeOK, Reference, Cleaning
  <2>2. CASE TaskUnreferenced(u)
    BY <1>2, <2>1, <2>2 DEF TaskUnreferenced, DeleteUnreferenced, Move
  <2>3. CASE TaskCheck(u)
    <3>1. t = [u EXCEPT !.step = "delete"]
      BY <2>3 DEF TaskCheck, Move
    <3>2. t.image = u.image /\ t.step = "delete"
      BY <2>1, <3>1, DeletingTask
    <3>3. QED
      BY <2>1, <3>2
  <2>4. CASE TaskDelete(u)
    BY <1>2, <2>1, <2>4 DEF TaskDelete, Move
  <2>5. QED
    BY <1>6, <2>2, <2>3, <2>4 DEF CleanUp, TaskObject, CrashTask, Move
<1>7. ASSUME NEW f \in Images, Delete(f)
      PROVE  Good
  BY <1>2, <1>7 DEF Delete, DeleteUnreferenced
<1>8. QED
  BY <1>3, <1>4, <1>5, <1>6, <1>7, UploadFrame, JobFrame DEF Next, Age, vars

\* Every step keeps clean-ups to images that were uploaded.
LEMMA CleaningStep ==
  ASSUME TypeOK, Reference, [Next]_vars
  PROVE  Cleaning'
<1> SUFFICES ASSUME NEW t \in tasks'
             PROVE  up'[t.image] = "ok" /\ (t.step = "object" => t.image \notin files')
  BY DEF Cleaning, Known
<1>1. t.image \in Images /\ Known(t.image)
  BY Tasks, TaskIsImage DEF Reference, Cleaning
<1>2. up'[t.image] = "ok"
  BY <1>1, Ends DEF Known
<1>3. CASE t \in tasks
  BY <1>1, <1>2, <1>3, Records DEF Reference, Cleaning, Known
<1>4. CASE t \notin tasks
  BY <1>2, <1>4, Tasks
<1>5. QED
  BY <1>3, <1>4

\* Every step keeps the object of a record that the job did not list.
LEMMA StoredStep ==
  ASSUME TypeOK, Reference, [Next]_vars
  PROVE  Stored'
<1> USE DEF Reference, Stored, Aged, Known
<1> SUFFICES ASSUME NEW g \in Images
             PROVE  /\ up'[g] \in {"saved", "stored"} => g \in objects'
                    /\ g \in files' /\ up'[g] = "ok" /\ g \notin listed' => g \in objects'
  OBVIOUS
<1>1. listed \subseteq listed'
  BY UploadFrame, RequestFrame, TaskFrame, EditFrame
     DEF Next, Delete, Age, Job, Scan, CrashJob, JobStep, JobSkips, JobObject, JobRecord,
         JobCounter, jobVars, vars
<1>2. CASE up'[g] = up[g]
  <2>1. CASE up[g] \in {"saved", "stored"}
    BY <1>2, <2>1, Objects
  <2>2. ASSUME g \in files', up[g] = "ok", g \notin listed'
        PROVE  g \in objects'
    <3>1. g \in files /\ g \notin listed
      BY <1>1, <2>2, Records
    <3>2. QED
      BY <1>2, <2>2, <3>1, Objects
  <2>3. QED
    BY <1>2, <2>1, <2>2
<1>3. CASE up'[g] # up[g]
  <2>1. Upload(g)
    BY <1>3, UploadMoves, OthersStay
  <2>2. QED
    BY <1>3, <2>1 DEF TypeOK, Upload, SaveLocally, CreateRecord, OverLimit, PutToOSS, PutFails,
       Answer, LaterPartFails, UndoRecord, UndoObject, UndoCounter, CrashUpload, At, rowVars
<1>4. QED
  BY <1>2, <1>3

-----------------------------------------------------------------------------
(* The counter. *)

\* No race and no lost refund is forgotten.
LEMMA HistoryGrows ==
  ASSUME [Next]_vars
  PROVE  raced \subseteq raced' /\ botched \subseteq botched'
BY RequestFrame, TaskFrame, EditFrame, UploadFrame
   DEF Next, Upload, SaveLocally, CreateRecord, OverLimit, PutToOSS, PutFails, Answer,
       LaterPartFails, UndoRecord, UndoObject, UndoCounter, CrashUpload, Delete, Age,
       Job, Scan, CrashJob, JobStep, JobSkips, JobObject, JobRecord, JobCounter, jobVars, vars

Counting(f) == job = [step |-> "counter", image |-> f]

\* What the job refunds it has listed before, when it was old.
LEMMA CountingIsListed ==
  ASSUME Aged, NEW f, Counting(f)
  PROVE  f \in listed /\ f \in old /\ up[f] \in {"ok", "failed"}
<1>1. job.step # "idle" /\ job.image = f
  BY DEF Counting
<1>2. QED
  BY <1>1 DEF Aged

\* A step that takes an image off the counter: of an upload that is undone, of a
\* record that it deletes, or of the orphan job.
TakesOff(f) ==
  /\ Refund(f)
  /\ \/ up[f] = "undo counter" /\ up'[f] = "failed" /\ files' = files /\ job' = job
     \/ f \in files /\ f \notin files' /\ Known(f) /\ job' = job
     \/ Counting(f) /\ job' = Waiting /\ files' = files

\* The counter goes down, and a refund is noted, only by a step that takes an image off it.
LEMMA Refunds ==
  ASSUME TypeOK, Reference, [Next]_vars, refunds' # refunds \/ used' < used
  PROVE  \E f \in Images : TakesOff(f)
<1>1. used \in Nat
  <2>1. used \in 0..Limit /\ Limit \in Nat
    BY ParametersAssumption DEF TypeOK
  <2>2. QED
    BY ONLY <2>1
<1> DEFINE Less == refunds' # refunds \/ used' < used
<1>2. UNCHANGED <<used, refunds>> \/ (used' = used + 1 /\ refunds' = refunds) => ~Less
  BY <1>1
<1>3. Less
  OBVIOUS
<1> HIDE DEF Less
<1>4. ASSUME NEW f \in Images, Upload(f)
      PROVE  \E g \in Images : TakesOff(g)
  <2>1. UndoCounter(f)
    BY <1>2, <1>3, <1>4 DEF Upload, SaveLocally, CreateRecord, OverLimit, PutToOSS, PutFails, Answer,
       LaterPartFails, UndoRecord, UndoObject, UndoCounter, CrashUpload, rowVars
  <2>2. Refund(f) /\ files' = files /\ job' = job /\ up[f] = "undo counter"
    BY <1>2, <1>3, <2>1 DEF UndoCounter, jobVars
  <2>3. up'[f] = "failed"
    BY <2>1 DEF UndoCounter, At, TypeOK
  <2>4. QED
    BY <2>2, <2>3 DEF TakesOff
<1>5. ASSUME NEW t \in tasks, CleanUp(t)
      PROVE  \E g \in Images : TakesOff(g)
  <2>1. t.image \in Images /\ Known(t.image)
    BY TaskIsImage DEF Reference, Cleaning
  <2>2. Deletable(t.image) /\ DeleteUnreferenced(t.image) /\ job' = job
    BY <1>2, <1>3, <1>5 DEF CleanUp, TaskUnreferenced, TaskCheck, TaskDelete, TaskObject, CrashTask,
       rowVars, jobVars
  <2>3. QED
    BY <2>1, <2>2 DEF Deletable, DeleteUnreferenced, DropRecord, TakesOff
<1>6. ASSUME NEW f \in Images, Delete(f)
      PROVE  \E g \in Images : TakesOff(g)
  BY <1>6 DEF Delete, Deletable, DeleteUnreferenced, DropRecord, jobVars, TakesOff
<1>7. CASE Job
  BY <1>2, <1>3, <1>7 DEF Job, JobStep, Scan, CrashJob, JobSkips, JobObject, JobRecord,
     JobCounter, rowVars, Counting, TakesOff
<1>8. CASE UNCHANGED <<used, refunds>>
  BY <1>2, <1>3, <1>8
<1>9. QED
  <2>1. CASE \E f \in Images : Upload(f) \/ Delete(f) \/ Age(f)
    BY <1>4, <1>6, <1>8, <2>1 DEF Age, rowVars
  <2>2. CASE \E r \in Requests : Request(r)
    BY <1>8, <2>2, RequestFrame DEF rowVars
  <2>3. CASE DeleteDiary \/ \E e \in Entries : DeleteEntry(e)
    BY <1>8, <2>3, EditFrame DEF rowVars
  <2>4. CASE UNCHANGED vars
    BY <1>8, <2>4 DEF vars, rowVars
  <2>5. QED
    BY <1>5, <1>7, <2>1, <2>2, <2>3, <2>4 DEF Next

\* The orphan job reaches its counter step by deleting a record, or finds it gone.
LEMMA CountingStep ==
  ASSUME [Next]_vars, NEW g \in Images, Counting(g)', ~Counting(g)
  PROVE  /\ UNCHANGED <<used, refunds, up>> /\ g \notin files' /\ files' \subseteq files
         /\ g \in files \/ g \in raced'
<1>1. job' # job
  BY DEF Counting
<1>2. Job
  BY <1>1, UploadFrame, RequestFrame, TaskFrame, EditFrame DEF Next, Delete, Age, jobVars, vars
<1>3. PICK f \in Images : JobRecord(f)
  BY <1>1, <1>2 DEF Job, Scan, CrashJob, JobStep, JobSkips, JobObject, JobCounter,
     Counting, Waiting
<1>4. job' = [step |-> "counter", image |-> f]
  BY <1>3 DEF JobRecord, Counting, Waiting
<1>5. f = g
  <2>1. job'.image = f /\ job'.image = g
    BY <1>4 DEF Counting
  <2>2. QED
    BY <2>1
<1>6. QED
  BY <1>3, <1>4, <1>5 DEF JobRecord, DropRecord, Waiting

\* What a refund does to the count of an image.
LEMMA RefundOf ==
  ASSUME TypeOK, Reference, [Next]_vars, NEW g \in Images, refunds'[g] # refunds[g]
  PROVE  refunds'[g] = refunds[g] + 1 /\ TakesOff(g)
<1>1. PICK f \in Images : TakesOff(f)
  BY Refunds
<1>2. refunds' = [refunds EXCEPT ![f] = @ + 1]
  BY <1>1 DEF TakesOff, Refund
<1>3. f = g
  BY <1>2 DEF TypeOK
<1>4. QED
  BY <1>1, <1>2, <1>3 DEF TypeOK

\* Every step keeps a refund to come for what was not refunded yet.
LEMMA RefundingStep ==
  ASSUME TypeOK, Reference, Refunding, RefundedOnce, [Next]_vars
  PROVE  Refunding'
<1> SUFFICES ASSUME NEW g \in Images
             PROVE  /\ up'[g] \notin {"ok", "failed"} => refunds'[g] = 0
                    /\ g \notin raced' \cup botched' =>
                         /\ up'[g] \in {"undo object", "undo counter"} => g \notin files'
                         /\ Counting(g)' => g \notin files' /\ refunds'[g] = 0
  BY DEF Refunding, Counting
<1>1. ASSUME up'[g] \notin {"ok", "failed"}
      PROVE  refunds'[g] = 0
  <2>1. up[g] \notin {"ok", "failed"}
    BY <1>1, Ends
  <2>2. ~TakesOff(g)
    BY <1>1, <2>1, CountingIsListed DEF TakesOff, Known, Reference
  <2>3. QED
    BY <2>1, <2>2, RefundOf DEF Refunding
<1>2. ASSUME g \notin raced' \cup botched', up'[g] \in {"undo object", "undo counter"}
      PROVE  g \notin files'
  <2>1. g \notin raced \cup botched
    BY <1>2, HistoryGrows
  <2>2. CASE up[g] \in {"undo object", "undo counter"}
    BY <2>1, <2>2, Records DEF Refunding
  <2>3. CASE up[g] \notin {"undo object", "undo counter"}
    <3>1. Upload(g)
      BY <1>2, <2>3, UploadMoves, OthersStay
    <3>2. QED
      BY <1>2, <2>3, <3>1 DEF TypeOK, Upload, SaveLocally, CreateRecord, OverLimit, PutToOSS,
         PutFails, Answer, LaterPartFails, UndoRecord, UndoObject, UndoCounter, CrashUpload, At,
         DropRecord
  <2>4. QED
    BY <2>2, <2>3
<1>3. ASSUME g \notin raced' \cup botched', Counting(g)'
      PROVE  g \notin files' /\ refunds'[g] = 0
  <2>1. g \notin raced \cup botched
    BY <1>3, HistoryGrows
  <2>2. CASE Counting(g)
    <3>1. g \notin files /\ refunds[g] = 0
      BY <2>1, <2>2 DEF Refunding, Counting
    <3>2. up[g] \in {"ok", "failed"}
      BY <2>2, CountingIsListed DEF Reference
    <3>3. ~TakesOff(g)
      BY <1>3, <3>1, <3>2 DEF TakesOff, Counting, Waiting
    <3>4. QED
      BY <3>1, <3>2, <3>3, Records, RefundOf
  <2>3. CASE ~Counting(g)
    <3>1. g \in files /\ g \notin files' /\ refunds' = refunds
      BY <1>3, <2>3, CountingStep
    <3>2. QED
      BY <2>1, <3>1 DEF RefundedOnce
  <2>4. QED
    BY <2>2, <2>3
<1>4. QED
  BY <1>1, <1>2, <1>3

\* No step refunds an image a second time.
LEMMA RefundedOnceStep ==
  ASSUME TypeOK, Reference, Refunding, RefundedOnce, [Next]_vars
  PROVE  RefundedOnce'
<1> SUFFICES ASSUME NEW g \in Images, g \notin raced' \cup botched'
             PROVE  refunds'[g] <= 1 /\ (g \in files' => refunds'[g] = 0)
  BY DEF RefundedOnce
<1>1. g \notin raced \cup botched
  BY HistoryGrows
<1>2. refunds[g] <= 1 /\ (g \in files => refunds[g] = 0)
  BY <1>1 DEF RefundedOnce
<1>3. CASE refunds'[g] = refunds[g]
  <2>1. ASSUME g \in files', g \notin files
        PROVE  refunds[g] = 0
    BY <2>1, Records DEF Refunding
  <2>2. QED
    BY <1>2, <1>3, <2>1
<1>4. CASE refunds'[g] # refunds[g]
  <2>1. refunds'[g] = refunds[g] + 1 /\ TakesOff(g)
    BY <1>4, RefundOf
  <2>2. refunds[g] = 0 /\ g \notin files'
    BY <1>1, <1>2, <2>1 DEF TakesOff, Refunding, Counting
  <2>3. QED
    BY <2>1, <2>2
<1>5. QED
  BY <1>3, <1>4

-----------------------------------------------------------------------------
(* The limit. *)

\* The counter grows with the record of one upload, within the limit.
LEMMA Charges ==
  ASSUME TypeOK, [Next]_vars, used' > used
  PROVE  \E f \in Images : used' = used + 1 /\ files' = files \cup {f} /\ job' = job
                           /\ \A g \in Images \ {f} : up'[g] = up[g]
<1>1. used \in Nat
  <2>1. used \in 0..Limit /\ Limit \in Nat
    BY ParametersAssumption DEF TypeOK
  <2>2. QED
    BY ONLY <2>1
<1>2. ASSUME NEW f, Refund(f)
      PROVE  FALSE
  BY <1>1, <1>2 DEF Refund
<1>3. used' # used
  BY <1>1
<1>4. PICK f \in Images : CreateRecord(f)
  BY <1>2, <1>3, RequestFrame, EditFrame
     DEF Next, Upload, SaveLocally, OverLimit, PutToOSS, PutFails, Answer, LaterPartFails,
         UndoRecord, UndoObject, UndoCounter, CrashUpload, Delete, DeleteUnreferenced, Age,
         CleanUp, TaskUnreferenced, TaskCheck, TaskDelete, TaskObject, CrashTask,
         Job, Scan, CrashJob, JobStep, JobSkips, JobObject, JobRecord, JobCounter, rowVars, vars
<1>5. QED
  BY <1>4 DEF CreateRecord, At, TypeOK, jobVars

\* Only such a step adds an image to those that are charged.
LEMMA ChargedGrows ==
  ASSUME TypeOK, Reference, Refunding, [Next]_vars, raced' \cup botched' = {},
         NEW g \in Charged', g \notin Charged
  PROVE  used' > used
<1>1. g \in Images /\ g \notin files /\ up[g] \notin {"undo object", "undo counter"} /\ ~Counting(g)
  BY DEF Charged, Counting
<1>2. raced \cup botched = {}
  BY HistoryGrows
<1>3. CASE g \in files'
  <2>1. PICK f \in Images : CreateRecord(f)
    BY <1>1, <1>3, RequestFrame, EditFrame
       DEF Next, Upload, SaveLocally, OverLimit, PutToOSS, PutFails, Answer, LaterPartFails,
           UndoRecord, UndoObject, UndoCounter, CrashUpload, Delete, DeleteUnreferenced, Age,
           CleanUp, TaskUnreferenced, TaskCheck, TaskDelete, TaskObject, CrashTask, DropRecord,
           Job, Scan, CrashJob, JobStep, JobSkips, JobObject, JobRecord, JobCounter, rowVars, vars
  <2>2. used' = used + 1 /\ used \in Int
    <3>1. used \in 0..Limit
      BY DEF TypeOK
    <3>2. QED
      BY <2>1, <3>1 DEF CreateRecord
  <2>3. QED
    BY <2>2
<1>4. CASE up'[g] \in {"undo object", "undo counter"}
  <2>1. Upload(g)
    BY <1>1, <1>4, UploadMoves, OthersStay
  <2>2. up[g] = "undo"
    BY <1>1, <1>4, <2>1 DEF TypeOK, Upload, SaveLocally, CreateRecord, OverLimit, PutToOSS,
       PutFails, Answer, LaterPartFails, UndoRecord, UndoObject, UndoCounter, CrashUpload, At
  <2>3. QED
    BY <1>1, <2>2 DEF Reference, Uploading
<1>5. CASE Counting(g)'
  BY <1>1, <1>5, CountingStep
<1>6. QED
  BY <1>3, <1>4, <1>5 DEF Charged, Counting

\* The charged images can be counted.
LEMMA ChargedIsFinite ==
  /\ IsFiniteSet(Charged) /\ Cardinality(Charged) \in Nat
  /\ IsFiniteSet(Charged') /\ Cardinality(Charged') \in Nat
<1>1. Charged \subseteq Images /\ Charged' \subseteq Images
  BY DEF Charged
<1>2. QED
  BY <1>1, ParametersAssumption, FS_Subset, FS_CardinalityType

\* Every step keeps the counter at or above the number of charged images.
LEMMA RoomStep ==
  ASSUME TypeOK, Reference, Refunding, RefundedOnce, Room, [Next]_vars, TypeOK'
  PROVE  Room'
<1> SUFFICES ASSUME raced' \cup botched' = {}
             PROVE  Cardinality(Charged') <= used'
  BY DEF Room
<1>1. raced \cup botched = {}
  BY HistoryGrows
<1>2. Cardinality(Charged) <= used
  BY <1>1 DEF Room
<1>3. used \in Nat /\ used' \in Nat
  <2>1. used \in 0..Limit /\ used' \in 0..Limit /\ Limit \in Nat
    BY ParametersAssumption DEF TypeOK
  <2>2. QED
    BY ONLY <2>1
<1>4. CASE used' = used
  <2>1. Charged' \subseteq Charged
    BY <1>3, <1>4, ChargedGrows
  <2>2. Cardinality(Charged') <= Cardinality(Charged)
    BY <2>1, ChargedIsFinite, FS_Subset
  <2>3. QED
    BY <1>2, <1>3, <1>4, <2>2, ChargedIsFinite
<1>5. CASE used' > used
  <2>1. PICK f \in Images : /\ used' = used + 1 /\ files' = files \cup {f} /\ job' = job
                           /\ \A g \in Images \ {f} : up'[g] = up[g]
    BY <1>5, Charges
  <2>2. Charged' \subseteq Charged \cup {f}
    BY <2>1 DEF Charged
  <2>3. /\ IsFiniteSet(Charged \cup {f})
        /\ Cardinality(Charged \cup {f}) <= Cardinality(Charged) + 1
    <3>1. Cardinality(Charged \cup {f}) \in {Cardinality(Charged), Cardinality(Charged) + 1}
      BY ChargedIsFinite, FS_AddElement
    <3>2. QED
      BY <3>1, ChargedIsFinite, FS_AddElement
  <2>4. Cardinality(Charged') <= Cardinality(Charged \cup {f})
    BY <2>2, <2>3, FS_Subset
  <2>5. Cardinality(Charged \cup {f}) \in Nat
    BY <2>3, FS_CardinalityType
  <2>6. QED
    BY <1>2, <1>3, <2>1, <2>3, <2>4, <2>5, ChargedIsFinite
<1>6. CASE used' < used
  <2>1. PICK f \in Images : TakesOff(f)
    BY <1>6, Refunds
  <2>2. f \in Charged
    BY <2>1 DEF TakesOff, Charged, Counting
  <2>3. used' = used - 1
    <3>1. used' = IF used = 0 THEN 0 ELSE used - 1
      BY <2>1 DEF TakesOff, Refund
    <3>2. QED
      BY <1>3, <1>6, <3>1
  <2>4. f \notin Charged'
    <3>1. /\ up[f] \in {"undo object", "undo counter"} => f \notin files
          /\ Counting(f) => f \notin files /\ up[f] \in {"ok", "failed"}
      BY <1>1, CountingIsListed DEF Refunding, Counting, Reference
    <3>2. f \notin files' /\ ~Counting(f)'
      <4>1. job' = Waiting => ~Counting(f)'
        BY DEF Counting, Waiting
      <4>2. job' = job => (Counting(f)' <=> Counting(f))
        BY DEF Counting
      <4>3. QED
        BY <2>1, <3>1, <4>1, <4>2 DEF TakesOff
    <3>3. up'[f] \in {"ok", "failed"}
      BY <2>1, <3>1, Ends DEF TakesOff, Known
    <3>4. QED
      BY <3>2, <3>3 DEF Charged, Counting
  <2>5. Charged' \subseteq Charged \ {f}
    BY <1>3, <1>6, <2>4, ChargedGrows
  <2>6. /\ IsFiniteSet(Charged \ {f})
        /\ Cardinality(Charged \ {f}) = Cardinality(Charged) - 1
    BY <2>2, ChargedIsFinite, FS_RemoveElement
  <2>7. Cardinality(Charged') <= Cardinality(Charged \ {f})
    BY <2>5, <2>6, FS_Subset
  <2>8. QED
    BY <1>2, <1>3, <2>3, <2>6, <2>7, ChargedIsFinite
<1>7. QED
  BY <1>3, <1>4, <1>5, <1>6

-----------------------------------------------------------------------------
(* The theorems. *)

\* The initial state satisfies the inductive invariant.
LEMMA Start == Init => IInv
<1> SUFFICES ASSUME Init
             PROVE  IInv
  OBVIOUS
<1> USE ParametersAssumption DEF Init
<1>1. TypeOK
  BY DEF TypeOK, Waiting
<1>2. ~\E f \in Images : Referenced(f)
  BY DEF Referenced, UsedByEntry
<1>3. Reference
  BY <1>2 DEF Reference, Aged, Uploading, Referring, Remembering, Remembers, Cleaning, Stored,
     NoRequest, Waiting, Known
<1>4. Refunding /\ RefundedOnce
  BY DEF Refunding, RefundedOnce, Waiting
<1>5. Room
  <2>1. Charged = {}
    BY DEF Charged, Waiting
  <2>2. QED
    BY <2>1, FS_EmptySet DEF Room
<1>6. QED
  BY <1>1, <1>3, <1>4, <1>5 DEF IInv

\* Every step keeps the inductive invariant.
LEMMA Step == IInv /\ [Next]_vars => IInv'
<1> SUFFICES ASSUME IInv, [Next]_vars
             PROVE  IInv'
  OBVIOUS
<1> USE DEF IInv
<1>1. TypeOK'
  BY Types
<1>2. Reference'
  BY <1>1, AgedStep, UploadingStep, ReferringStep, RememberingStep, CleaningStep, StoredStep
     DEF Reference
<1>3. Refunding' /\ RefundedOnce'
  BY RefundingStep, RefundedOnceStep
<1>4. Room'
  BY <1>1, RoomStep
<1>5. QED
  BY <1>1, <1>2, <1>3, <1>4

\* The inductive invariant holds in every reachable state.
THEOREM Invariance == Spec => []IInv
BY Start, Step, PTL DEF Spec

\* Every variable stays in its domain; the counter stays within the limit.
THEOREM TypeCorrectness == Spec => []TypeOK
<1>1. IInv => TypeOK
  BY DEF IInv
<1>2. QED
  BY Invariance, <1>1, PTL

\* Whatever an entry, the avatar or the cover refers to has its record, and its
\* object unless an orphan scan has found it.
THEOREM ReferencesStored == Spec => []ReferencedIsStored
<1>1. IInv => ReferencedIsStored
  BY DEF IInv, Reference, Referring, Stored, ReferencedIsStored
<1>2. QED
  BY Invariance, <1>1, PTL

\* An image comes off the counter at most once, and only without a record.
THEOREM SingleRefund == Spec => []RefundedOnce
<1>1. IInv => RefundedOnce
  BY DEF IInv
<1>2. QED
  BY Invariance, <1>1, PTL

\* However many uploads checked the limit at the same time, the records stay in it.
THEOREM LimitHolds == Spec => []UnderLimit
<1>1. IInv => UnderLimit
  <2> SUFFICES ASSUME IInv, raced \cup botched = {}
               PROVE  Cardinality(files) <= Limit
    BY DEF UnderLimit
  <2>1. files \subseteq Charged /\ used \in 0..Limit /\ Limit \in Nat
    BY ParametersAssumption DEF IInv, TypeOK, Charged
  <2>2. Cardinality(files) <= Cardinality(Charged) /\ Cardinality(files) \in Nat
    BY <2>1, ChargedIsFinite, FS_Subset, FS_CardinalityType
  <2>3. Cardinality(Charged) <= used
    BY DEF IInv, Room
  <2>4. QED
    BY <2>1, <2>2, <2>3, ChargedIsFinite
<1>2. QED
  BY Invariance, <1>1, PTL
=============================================================================
