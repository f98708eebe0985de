------------------------------- MODULE Files --------------------------------
(***************************************************************************)
(* The images of one user: their records (table files), their objects in   *)
(* the store, the references of entries, avatar and daily cover, and the   *)
(* counter users.image_storage_bytes that the quota is checked against     *)
(* (internal/file, the image handling of internal/diary, the avatar of     *)
(* internal/user, the orphan clean-up of internal/jobs).                   *)
(*                                                                         *)
(* Data.  Every image has size 1.  All entries belong to one diary, and    *)
(* the cover is the one of its date.  A statement that waits for a lock is *)
(* one that is executed later: a transaction that locks the files row, or  *)
(* whose foreign-key check does, is one step, since nothing that touches   *)
(* that row can happen in between; a transaction that only reads the row   *)
(* first is two.                                                           *)
(***************************************************************************)
EXTENDS Integers, FiniteSets

CONSTANTS
  Images,     \* file ids; each is uploaded at most once
  Entries,    \* entry ids; each is created at most once
  Requests,   \* concurrent requests that edit entries or set avatar or cover
  Limit,      \* the storage limit, in images
  Faulty,     \* what may fail: "put", "undo", "object"
  CanCrash,   \* whether a process may die
  None

ASSUME ParametersAssumption ==
  /\ Limit \in Nat \ {0} /\ IsFiniteSet(Images)
  /\ Faulty \subseteq {"put", "undo", "object"} /\ CanCrash \in BOOLEAN
  /\ None \notin Images \cup Entries

VARIABLES
  files,      \* records
  objects,    \* objects in the store
  used,       \* users.image_storage_bytes
  entries,    \* entries: not yet created, there, or deleted
  images,     \* diary_entry_images: pairs <<entry, image>>
  avatar,     \* users.avatar_file_id
  cover,      \* family_daily_covers of the date: the image it refers to
  old,        \* images uploaded more than a day ago
  up,         \* an upload: its position
  req,        \* a request between what it read and its transaction
  tasks,      \* goroutines that clean up after a commit
  job, found, \* the orphan clean-up: its position, what it still has to handle
  refunds,    \* history: how often an image was taken off the counter
  listed,     \* history: images an orphan scan has found
  botched,    \* history: images whose upload was undone only in part
  raced       \* history: images whose record was gone when the job deleted it

rowVars == <<files, objects, used, refunds>>
refVars == <<entries, images, avatar, cover>>
jobVars == <<job, found, listed, raced>>
vars == <<rowVars, refVars, old, up, req, tasks, jobVars, botched>>

Task == [image : Images, of : Entries \cup {None}, step : {"check", "delete", "object"}]
NoRequest == [kind |-> "idle"]
EntryRequest == [kind : {"entry"}, entry : Entries, new : BOOLEAN,
                 images : SUBSET Images, removed : SUBSET Images]
AvatarRequest == [kind : {"avatar"}, image : Images, before : Images \cup {None}]
CoverRequest == [kind : {"cover"}, image : Images \cup {None}]
Waiting == [step |-> "idle", image |-> None]

Init ==
  /\ files = {} /\ objects = {} /\ used = 0 /\ refunds = [f \in Images |-> 0]
  /\ entries = [e \in Entries |-> "new"] /\ images = {} /\ avatar = None /\ cover = None
  /\ old = {} /\ up = [f \in Images |-> "new"]
  /\ req = [r \in Requests |-> NoRequest]
  /\ tasks = {} /\ job = Waiting /\ found = {} /\ listed = {} /\ raced = {} /\ botched = {}

UsedByEntry(f) == \E e \in Entries : <<e, f>> \in images
Referenced(f) == UsedByEntry(f) \/ avatar = f \/ cover = f
Of(e) == {f \in Images : <<e, f>> \in images}

\* The client knows an image once its upload was answered.
Known(f) == up[f] = "ok"

\* DecrementUserImageStorage: GREATEST(..., 0).
Refund(f) ==
  /\ used' = IF used = 0 THEN 0 ELSE used - 1
  /\ refunds' = [refunds EXCEPT ![f] = @ + 1]

\* DELETE FROM files: entry images restrict, cover and avatar are set to NULL.
DropRecord(f) ==
  /\ files' = files \ {f}
  /\ avatar' = IF avatar = f THEN None ELSE avatar
  /\ cover' = IF cover = f THEN None ELSE cover

-----------------------------------------------------------------------------
(* POST /file/upload. *)

At(f, s) == up' = [up EXCEPT ![f] = s]

\* Without OSS the object comes first, with it last.  That used < Limit is read
\* once per request and may have become false when a later part is stored.
SaveLocally(f) ==
  /\ up[f] = "new"
  /\ objects' = objects \cup {f}
  /\ At(f, "saved")
  /\ UNCHANGED <<files, used, refunds, refVars, old, req, tasks, jobVars, botched>>

\* Mutant: the increment has no condition.
CreateRecordUnchecked(f) ==
  /\ up[f] \in {"new", "saved"}
  /\ files' = files \cup {f} /\ used' = used + 1
  /\ At(f, IF up[f] = "saved" THEN "stored" ELSE "put")
  /\ UNCHANGED <<objects, refunds, refVars, old, req, tasks, jobVars, botched>>

\* The record and the conditional increment in one transaction.
CreateRecord(f) ==
  /\ up[f] \in {"new", "saved"}
  /\ used + 1 <= Limit
  /\ files' = files \cup {f} /\ used' = used + 1
  /\ At(f, IF up[f] = "saved" THEN "stored" ELSE "put")
  /\ UNCHANGED <<objects, refunds, refVars, old, req, tasks, jobVars, botched>>

OverLimit(f) ==
  /\ up[f] = "saved" /\ used + 1 > Limit
  /\ \/ objects' = objects \ {f}
     \/ "object" \in Faulty /\ UNCHANGED objects
  /\ At(f, "failed")
  /\ UNCHANGED <<files, used, refunds, refVars, old, req, tasks, jobVars, botched>>

PutToOSS(f) ==
  /\ up[f] = "put"
  /\ objects' = objects \cup {f}
  /\ At(f, "stored")
  /\ UNCHANGED <<files, used, refunds, refVars, old, req, tasks, jobVars, botched>>

PutFails(f) ==
  /\ up[f] = "put" /\ "put" \in Faulty
  /\ At(f, "undo")
  /\ UNCHANGED <<rowVars, refVars, old, req, tasks, jobVars, botched>>

Answer(f) ==
  /\ up[f] = "stored"
  /\ At(f, "ok")
  /\ UNCHANGED <<rowVars, refVars, old, req, tasks, jobVars, botched>>

\* A later part of the request fails: rollbackUploadedParts.
LaterPartFails(f) ==
  /\ up[f] = "stored"
  /\ At(f, "undo")
  /\ UNCHANGED <<rowVars, refVars, old, req, tasks, jobVars, botched>>

\* Record, object and counter are undone one after the other, each at its best.
UndoRecord(f) ==
  /\ up[f] = "undo"
  /\ \/ DropRecord(f) /\ UNCHANGED botched
     \/ "undo" \in Faulty /\ botched' = botched \cup {f} /\ UNCHANGED <<files, avatar, cover>>
  /\ At(f, "undo object")
  /\ UNCHANGED <<objects, used, refunds, entries, images, old, req, tasks, jobVars>>

UndoObject(f) ==
  /\ up[f] = "undo object"
  /\ \/ objects' = objects \ {f} /\ UNCHANGED botched
     \/ "object" \in Faulty /\ botched' = botched \cup {f} /\ UNCHANGED objects
  /\ At(f, "undo counter")
  /\ UNCHANGED <<files, used, refunds, refVars, old, req, tasks, jobVars>>

UndoCounter(f) ==
  /\ up[f] = "undo counter"
  /\ \/ Refund(f) /\ UNCHANGED botched
     \/ "undo" \in Faulty /\ botched' = botched \cup {f} /\ UNCHANGED <<used, refunds>>
  /\ At(f, "failed")
  /\ UNCHANGED <<files, objects, refVars, old, req, tasks, jobVars>>

CrashUpload(f) ==
  /\ CanCrash /\ up[f] \notin {"new", "ok", "failed"}
  /\ At(f, "failed") /\ botched' = botched \cup {f}
  /\ UNCHANGED <<rowVars, refVars, old, req, tasks, jobVars>>

-----------------------------------------------------------------------------
(* Entries, avatar, cover. *)

Ask(r, q) == req' = [req EXCEPT ![r] = q]
Free(r) == req[r] = NoRequest

\* CreateEntry and UpdateEntry read before their transaction: the records of the
\* images and, for an update, the images the entry has.
ReadForEntry(r, e, S) ==
  /\ Free(r) /\ entries[e] # "gone"
  /\ \A f \in S : Known(f) /\ f \in files
  /\ Ask(r, [kind |-> "entry", entry |-> e, new |-> entries[e] = "new",
             images |-> S, removed |-> Of(e) \ S])
  /\ UNCHANGED <<rowVars, refVars, old, up, tasks, jobVars, botched>>

\* The transaction fails if an image has no record any more (foreign key) or the
\* entry to be updated is gone.
Fits(q) ==
  /\ q.images \subseteq files
  /\ entries[q.entry] = IF q.new THEN "new" ELSE "there"
Uncover(S) == cover' = IF cover \in S THEN None ELSE cover
Later(S, e, s) == tasks' = tasks \cup {[image |-> f, of |-> e, step |-> s] : f \in S}

SaveEntry(r) ==
  /\ req[r].kind = "entry" /\ Fits(req[r])
  /\ entries' = [entries EXCEPT ![req[r].entry] = "there"]
  /\ images' = {x \in images : x[1] # req[r].entry} \cup ({req[r].entry} \X req[r].images)
  /\ Uncover(req[r].removed)
  /\ Later(req[r].removed, req[r].entry, "check")
  /\ Ask(r, NoRequest)
  /\ UNCHANGED <<rowVars, avatar, old, up, jobVars, botched>>

DeleteEntry(e) ==
  /\ entries[e] = "there"
  /\ entries' = [entries EXCEPT ![e] = "gone"]
  /\ images' = {x \in images : x[1] # e}
  /\ Uncover(Of(e))
  /\ Later(Of(e), e, "check")
  /\ UNCHANGED <<rowVars, avatar, old, up, req, jobVars, botched>>

\* All entries of the date at once; other clean-up than for a single entry.  An
\* image that is added meanwhile goes by cascade and has no task: see CrashTask.
DeleteDiary ==
  /\ \E e \in Entries : entries[e] = "there"
  /\ entries' = [e \in Entries |-> IF entries[e] = "there" THEN "gone" ELSE entries[e]]
  /\ images' = {}
  /\ Uncover({f \in Images : UsedByEntry(f)})
  /\ Later({f \in Images : UsedByEntry(f)}, None, "delete")
  /\ UNCHANGED <<rowVars, avatar, old, up, req, jobVars, botched>>

ReadForAvatar(r, f) ==
  /\ Free(r) /\ Known(f) /\ f \in files
  /\ Ask(r, [kind |-> "avatar", image |-> f, before |-> avatar])
  /\ UNCHANGED <<rowVars, refVars, old, up, tasks, jobVars, botched>>

\* Then the avatar that was read before is deleted unless it is referenced.
SetAvatar(r) ==
  /\ req[r].kind = "avatar" /\ req[r].image \in files
  /\ avatar' = req[r].image
  /\ Later({req[r].before} \ {None, req[r].image}, None, "delete")
  /\ Ask(r, NoRequest)
  /\ UNCHANGED <<rowVars, entries, images, cover, old, up, jobVars, botched>>

\* The transaction is rejected, or the request dies before it.
GiveUp(r) ==
  /\ ~Free(r)
  /\ Ask(r, NoRequest)
  /\ UNCHANGED <<rowVars, refVars, old, up, tasks, jobVars, botched>>

\* UpdateCover and refreshFamilyDailyCover: an image of the date's entries, or
\* none if there is none, is read first and written later.
ReadForCover(r, f) ==
  /\ Free(r)
  /\ IF f = None THEN images = {} ELSE UsedByEntry(f)
  /\ Ask(r, [kind |-> "cover", image |-> f])
  /\ UNCHANGED <<rowVars, refVars, old, up, tasks, jobVars, botched>>

SetCover(r) ==
  /\ req[r].kind = "cover" /\ req[r].image \in files \cup {None}
  /\ cover' = req[r].image
  /\ Ask(r, NoRequest)
  /\ UNCHANGED <<rowVars, entries, images, avatar, old, up, tasks, jobVars, botched>>

-----------------------------------------------------------------------------
(* Deleting: DELETE /file and the goroutines started after a commit. *)

\* Mutant: the record is not locked, so that it may be gone when it is deleted.
DeletableUnlocked(f) == ~Referenced(f)

\* DeleteFile and DeletePhysicalIfUnreferenced, under FOR UPDATE of the record.
Deletable(f) == f \in files /\ ~Referenced(f)
DeleteUnreferenced(f) ==
  /\ DropRecord(f)
  /\ Refund(f)
ObjectTask(f) == [image |-> f, of |-> None, step |-> "object"]
Move(t, new) == tasks' = (tasks \ {t}) \cup new

Delete(f) ==
  /\ Known(f) /\ Deletable(f)
  /\ DeleteUnreferenced(f)
  /\ tasks' = tasks \cup {ObjectTask(f)}
  /\ UNCHANGED <<objects, entries, images, old, up, req, jobVars, botched>>

TaskUnreferenced(t) ==
  /\ t.step = "delete" /\ t.of = None
  /\ \/ /\ Deletable(t.image)
        /\ DeleteUnreferenced(t.image)
        /\ Move(t, {ObjectTask(t.image)})
     \/ /\ ~Deletable(t.image)
        /\ Move(t, {})
        /\ UNCHANGED <<files, used, refunds, avatar, cover>>
  /\ UNCHANGED <<objects, entries, images, old, up, req, jobVars, botched>>

\* deleteIfOnlySelfReferenced reads the references without a lock.
TaskCheck(t) ==
  /\ t.step = "check"
  /\ Move(t, IF avatar = t.image \/ cover = t.image
                \/ \E e \in Entries \ {t.of} : <<e, t.image>> \in images
             THEN {} ELSE {[t EXCEPT !.step = "delete"]})
  /\ UNCHANGED <<rowVars, refVars, old, up, req, jobVars, botched>>

\* Mutant: the object is deleted although the transaction failed.
TaskDeleteAnyway(t) ==
  /\ t.step = "delete" /\ t.of # None
  /\ \/ /\ t.image \in files /\ ~UsedByEntry(t.image)
        /\ DropRecord(t.image)
     \/ /\ t.image \notin files \/ UsedByEntry(t.image)
        /\ UNCHANGED <<files, avatar, cover>>
  /\ Move(t, {ObjectTask(t.image)})
  /\ UNCHANGED <<objects, used, refunds, entries, images, old, up, req, jobVars, botched>>

\* Then it deletes the record and leaves the counter as it is; the foreign key
\* stops it if an entry still shows the image.
TaskDelete(t) ==
  /\ t.step = "delete" /\ t.of # None
  /\ \/ /\ t.image \in files /\ ~UsedByEntry(t.image)
        /\ DropRecord(t.image)
        /\ Move(t, {ObjectTask(t.image)})
     \/ /\ t.image \notin files \/ UsedByEntry(t.image)
        /\ Move(t, {})
        /\ UNCHANGED <<files, avatar, cover>>
  /\ UNCHANGED <<objects, used, refunds, entries, images, old, up, req, jobVars, botched>>

\* Nothing remembers an object whose deletion fails.
TaskObject(t) ==
  /\ t.step = "object"
  /\ \/ objects' = objects \ {t.image}
     \/ "object" \in Faulty /\ UNCHANGED objects
  /\ Move(t, {})
  /\ UNCHANGED <<files, used, refunds, refVars, old, up, req, jobVars, botched>>

CrashTask(t) ==
  /\ CanCrash
  /\ Move(t, {})
  /\ UNCHANGED <<rowVars, refVars, old, up, req, jobVars, botched>>

-----------------------------------------------------------------------------
(* The orphan clean-up. *)

\* A day passes for an image whose upload has ended.
Age(f) ==
  /\ up[f] \in {"ok", "failed"}
  /\ old' = old \cup {f}
  /\ UNCHANGED <<rowVars, refVars, up, req, tasks, jobVars, botched>>

Orphan(f) == f \in files \cap old /\ ~Referenced(f)
Orphans == {f \in Images : Orphan(f)}

Scan ==
  /\ job = Waiting /\ found = {}
  /\ found' = Orphans
  /\ listed' = listed \cup Orphans
  /\ UNCHANGED <<rowVars, refVars, old, up, req, tasks, job, raced, botched>>

\* The record is gone already, or the object cannot be deleted.
JobSkips(f) ==
  /\ job = Waiting /\ f \in found
  /\ f \notin files \/ "object" \in Faulty
  /\ found' = found \ {f}
  /\ UNCHANGED <<rowVars, refVars, old, up, req, tasks, job, listed, raced, botched>>

\* Deleting an object that is missing is no error.
JobObject(f) ==
  /\ job = Waiting /\ f \in found \cap files
  /\ objects' = objects \ {f}
  /\ found' = found \ {f}
  /\ job' = [step |-> "record", image |-> f]
  /\ UNCHANGED <<files, used, refunds, refVars, old, up, req, tasks, listed, raced, botched>>

\* DELETE FROM files of a record that is gone is no error, of one that an entry
\* shows again it is.
JobRecord(f) ==
  /\ job = [step |-> "record", image |-> f]
  /\ \/ /\ UsedByEntry(f)
        /\ job' = Waiting
        /\ UNCHANGED <<files, avatar, cover, raced>>
     \/ /\ ~UsedByEntry(f)
        /\ DropRecord(f)
        /\ raced' = IF f \in files THEN raced ELSE raced \cup {f}
        /\ job' = [step |-> "counter", image |-> f]
  /\ UNCHANGED <<objects, used, refunds, entries, images, old, up, req, tasks, found, listed, botched>>

JobCounter(f) ==
  /\ job = [step |-> "counter", image |-> f]
  /\ Refund(f)
  /\ job' = Waiting
  /\ UNCHANGED <<files, objects, refVars, old, up, req, tasks, found, listed, raced, botched>>

CrashJob ==
  /\ CanCrash /\ <<job, found>> # <<Waiting, {}>>
  /\ job' = Waiting /\ found' = {}
  /\ UNCHANGED <<rowVars, refVars, old, up, req, tasks, listed, raced, botched>>

-----------------------------------------------------------------------------
Upload(f) ==
  \/ SaveLocally(f) \/ CreateRecord(f) \/ OverLimit(f) \/ PutToOSS(f) \/ PutFails(f)
  \/ Answer(f) \/ LaterPartFails(f) \/ UndoRecord(f) \/ UndoObject(f) \/ UndoCounter(f)
  \/ CrashUpload(f)

Request(r) ==
  \/ \E e \in Entries, S \in SUBSET Images : ReadForEntry(r, e, S)
  \/ SaveEntry(r)
  \/ \E f \in Images : ReadForAvatar(r, f)
  \/ \E f \in Images \cup {None} : ReadForCover(r, f)
  \/ SetAvatar(r) \/ SetCover(r) \/ GiveUp(r)

CleanUp(t) ==
  \/ TaskUnreferenced(t) \/ TaskCheck(t) \/ TaskDelete(t) \/ TaskObject(t) \/ CrashTask(t)

JobStep(f) == JobSkips(f) \/ JobObject(f) \/ JobRecord(f) \/ JobCounter(f)
Job == Scan \/ CrashJob \/ \E f \in Images : JobStep(f)

Next ==
  \/ \E f \in Images : Upload(f) \/ Delete(f) \/ Age(f)
  \/ \E r \in Requests : Request(r)
  \/ \E e \in Entries : DeleteEntry(e)
  \/ DeleteDiary
  \/ \E t \in tasks : CleanUp(t)
  \/ Job

Spec == Init /\ [][Next]_vars

-----------------------------------------------------------------------------
(* Properties. *)

TypeOK ==
  /\ files \subseteq Images /\ objects \subseteq Images
  /\ used \in 0..Limit /\ refunds \in [Images -> Nat]
  /\ entries \in [Entries -> {"new", "there", "gone"}]
  /\ images \subseteq Entries \X Images
  /\ {avatar, cover} \subseteq Images \cup {None}
  /\ old \subseteq Images
  /\ up \in [Images -> {"new", "saved", "put", "stored", "ok",
                        "undo", "undo object", "undo counter", "failed"}]
  /\ req \in [Requests -> {NoRequest} \cup EntryRequest \cup AvatarRequest \cup CoverRequest]
  /\ tasks \subseteq Task
  /\ job \in [step : {"idle", "record", "counter"}, image : Images \cup {None}]
  /\ found \subseteq Images /\ listed \subseteq Images
  /\ raced \subseteq Images /\ botched \subseteq Images

\* What an entry, the avatar or the cover refers to has a record, and its object
\* is in the store, unless an orphan scan has found it before.
ReferencedIsStored ==
  \A f \in Images : Referenced(f) => f \in files /\ (f \in objects \/ f \in listed)

\* An image is taken off the counter at most once, and never while its record
\* exists, unless an upload was undone in part or the orphan job found the record
\* deleted under its hands.
RefundedOnce ==
  \A f \in Images \ (raced \cup botched) :
    /\ refunds[f] <= 1
    /\ f \in files => refunds[f] = 0

\* The records never take more room than the limit, with any number of uploads
\* that checked it at the same time.
UnderLimit ==
  raced \cup botched = {} => Cardinality(files) <= Limit

\* What the counter charges is stored (the documentation's reading of it).
ChargedIsStored ==
  tasks = {} /\ botched = {} /\ raced = {} /\ job = Waiting
    /\ (\A f \in Images : up[f] \in {"new", "ok", "failed"})
  => used = Cardinality(files)
=============================================================================
