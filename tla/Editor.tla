------------------------------- MODULE Editor -------------------------------
(***************************************************************************)
(* The editors of an entry, of a memory and of a cover.                    *)
(* (components/NoteEdit, MemoryEdit, CoverEdit; uploadFile of utils/http.ts) *)
(*                                                                         *)
(* The Save button of an entry and of a memory stays usable, so calls of   *)
(* submit overlap; a later one cancels the request of an earlier one by    *)
(* its token.  A step is what runs between two callbacks of the platform;  *)
(* a call whose uploads have all ended, or whose token was cancelled, goes *)
(* on before the next callback (EditorCalm).                               *)
(***************************************************************************)
EXTENDS Naturals, Sequences, FiniteSets

CONSTANTS Subs,        \* calls of submit
          NoSub,
          MaxPics,     \* bound: pictures chosen
          MaxLeaves    \* bound: the page is hidden

ASSUME EditorAssumption == NoSub \notin Subs /\ MaxPics \in Nat /\ MaxLeaves \in Nat

Pics == 1..MaxPics

VARIABLES
  e,         \* the editor, see NewEditor
  sub,       \* the calls, see NoSave
  stored,    \* how often the server stored each picture: 0, 1, or 2 for more
  entry,     \* the pictures of the entry on the server, Unsaved before it is saved
  wanted,    \* history: pictures chosen and not deleted again
  resent,   \* history: pictures whose upload was repeated for a reason
  overlap,   \* history: Save was pressed while an earlier call was under way
  chosen,    \* pictures chosen so far, the old one included
  leaves

editorVars == <<e, sub, stored, entry, wanted, resent, overlap, chosen, leaves>>

Unsaved == <<0>>
Item(pic, kind) == [pic |-> pic, kind |-> kind, id |-> IF kind = "kept" THEN pic ELSE 0]

\* submitting is _submitting, uploading _uploading; late the list of pictures
\* set while the page is hidden, if any; picker: the album is shown.
NewEditor(of, imgs) ==
  [of |-> of, open |-> TRUE, shown |-> TRUE, saved |-> FALSE, imgs |-> imgs, late |-> <<>>, picker |-> FALSE,
   submitting |-> FALSE, uploading |-> FALSE, upToken |-> NoSub, saveToken |-> NoSub]

\* snap is the snapshot of the pictures, res what became of each of them, ids
\* what is saved.
NoSave == [pc |-> "idle", valid |-> TRUE, snap |-> <<>>, res |-> <<>>, ids |-> <<>>]

EditorInit ==
  /\ \E of \in {"entry", "memory", "cover"} : \E old \in 0..MaxPics :
       /\ old # 0 => of = "entry"
       /\ e = NewEditor(of, [i \in 1..old |-> Item(i, "kept")])
       /\ stored = [p \in Pics |-> IF p <= old THEN 1 ELSE 0] /\ wanted = 1..old /\ chosen = old
  /\ sub = [s \in Subs |-> NoSave]
  /\ entry = Unsaved /\ resent = {} /\ overlap = FALSE /\ leaves = 0

\* The part of a sequence that stands at the places of P.
Rank(P, i) == Cardinality({j \in P : j <= i})
Part(f, P) == [n \in 1..Cardinality(P) |-> f[CHOOSE i \in P : Rank(P, i) = n]]

PlacesOf(imgs, kinds) == {i \in 1..Len(imgs) : imgs[i].kind \in kinds}
Has(imgs, kind) == PlacesOf(imgs, {kind}) # {}
Live(imgs) == Part(imgs, PlacesOf(imgs, {"new", "kept"}))
PicsOf(imgs) == {imgs[i].pic : i \in 1..Len(imgs)}
View == IF e.late = <<>> THEN e.imgs ELSE Head(e.late)
PutImgs(n, imgs) == IF n.shown THEN [n EXCEPT !.imgs = imgs] ELSE [n EXCEPT !.late = <<imgs>>]

Settled(s) == sub[s].pc = "upload" /\ \A i \in 1..Len(sub[s].res) : sub[s].res[i] # "todo"
Cancelled(s) == sub[s].pc # "idle" /\ ~sub[s].valid
EditorCalm == e.open /\ \A s \in Subs : ~Settled(s) /\ ~Cancelled(s)
Touch == EditorCalm /\ e.shown /\ ~e.picker

-----------------------------------------------------------------------------
(* Pictures *)

\* selectImage, until the album is shown
OpenAlbum ==
  /\ Touch /\ e.of = "entry" /\ ~e.submitting /\ ~e.uploading
  /\ e' = [e EXCEPT !.picker = TRUE]
  /\ UNCHANGED <<sub, stored, entry, wanted, resent, overlap, chosen, leaves>>

\* The user chose pictures there, or none.
Choose ==
  /\ EditorCalm /\ e.picker
  /\ \E n \in 0..MaxPics - chosen :
       /\ chosen' = chosen + n /\ wanted' = wanted \cup (chosen + 1)..(chosen + n)
       /\ LET back == [e EXCEPT !.picker = FALSE]
          IN  e' = IF n = 0 THEN back
                   ELSE PutImgs(back, e.imgs \o [i \in 1..n |-> Item(chosen + i, "new")])
  /\ UNCHANGED <<sub, stored, entry, resent, overlap, leaves>>

\* Mutant: pictures can be deleted while others are uploaded.
DelImageAlways ==
  /\ Touch /\ e.of = "entry"
  /\ \E i \in 1..Len(e.imgs) :
       /\ e.imgs[i].kind # "deleted"
       /\ e' = [e EXCEPT !.imgs[i].kind = "deleted"]
       /\ wanted' = wanted \ {e.imgs[i].pic}
  /\ UNCHANGED <<sub, stored, entry, resent, overlap, chosen, leaves>>

DelImage ==
  /\ Touch /\ e.of = "entry" /\ ~e.submitting /\ ~e.uploading
  /\ \E i \in 1..Len(e.imgs) :
       /\ e.imgs[i].kind # "deleted"
       /\ e' = [e EXCEPT !.imgs[i].kind = "deleted"]
       /\ wanted' = wanted \ {e.imgs[i].pic}
  /\ UNCHANGED <<sub, stored, entry, resent, overlap, chosen, leaves>>

-----------------------------------------------------------------------------
(* submit *)

CancelOf(calls, t) == IF t = NoSub THEN calls ELSE [calls EXCEPT ![t].valid = FALSE]

\* The last part of submit: the request that saves, under a new token.
SaveWith(call, n, s, ids) ==
  /\ sub' = [CancelOf(sub, n.saveToken) EXCEPT ![s] = [call EXCEPT !.pc = "save", !.ids = ids]]
  /\ e' = [n EXCEPT !.saveToken = s]

KeptIds(imgs) == Part([i \in 1..Len(imgs) |-> imgs[i].id], PlacesOf(imgs, {"kept"}))

\* An entry is submitted with a snapshot of its pictures; there is no lock
\* against a second call.
SubmitEntry(s) ==
  /\ e.of = "entry"
  /\ LET busy == [e EXCEPT !.submitting = TRUE]
         call == [NoSave EXCEPT !.pc = "upload", !.snap = e.imgs,
                    !.res = [i \in 1..Len(e.imgs) |-> IF e.imgs[i].kind = "new" THEN "todo" ELSE "none"]]
     IN  IF Has(e.imgs, "new") \/ Has(e.imgs, "deleted")
         THEN /\ sub' = [CancelOf(sub, e.upToken) EXCEPT ![s] = call]
              /\ e' = [busy EXCEPT !.upToken = s, !.uploading = TRUE]
         ELSE SaveWith(NoSave, busy, s, KeptIds(e.imgs))

SubmitMemory(s) == e.of = "memory" /\ SaveWith(NoSave, e, s, <<>>)

\* The one submit that has a lock.
SubmitCover(s) ==
  /\ e.of = "cover" /\ ~e.submitting
  /\ SaveWith(NoSave, [e EXCEPT !.submitting = TRUE], s, <<>>)

\* Calls are alike: the next one takes the first that is free.
FirstFree == CHOOSE c \in Subs : sub[c].pc = "idle"
SubmitEditor(s) ==
  /\ Touch /\ sub[s].pc = "idle" /\ s = FirstFree
  /\ SubmitEntry(s) \/ SubmitMemory(s) \/ SubmitCover(s)
  /\ overlap' = (overlap \/ \E c \in Subs : sub[c].pc # "idle")
  /\ resent' = resent \cup (IF overlap' THEN wanted ELSE {})
  /\ UNCHANGED <<stored, entry, wanted, chosen, leaves>>

StoredMore(p) == [stored EXCEPT ![p] = IF @ < 2 THEN @ + 1 ELSE 2]

\* One file of uploadFile ends; it may be stored though its answer is lost.
FileEnds(s, i) ==
  /\ EditorCalm /\ sub[s].pc = "upload" /\ sub[s].res[i] = "todo"
  /\ LET p == sub[s].snap[i].pic
     IN  \/ /\ sub' = [sub EXCEPT ![s].res[i] = "ok"]
            /\ stored' = StoredMore(p) /\ UNCHANGED resent
         \/ sub' = [sub EXCEPT ![s].res[i] = "failed"] /\ UNCHANGED <<stored, resent>>
         \/ /\ sub' = [sub EXCEPT ![s].res[i] = "failed"]
            /\ stored' = StoredMore(p) /\ resent' = resent \cup {p}
  /\ UNCHANGED <<e, entry, wanted, overlap, chosen, leaves>>

\* uploadFile's result: the pictures there were, then those it stored.
Uploaded(call) ==
  KeptIds(call.snap) \o
  Part([i \in 1..Len(call.snap) |-> call.snap[i].pic], {i \in 1..Len(call.snap) : call.res[i] = "ok"})

\* A picture the server has stored.
KeptAs(x, id) == [x EXCEPT !.kind = "kept", !.id = id]

NewBefore(imgs, i) == Rank(PlacesOf(imgs, {"new"}), i)

\* Mutant: the new pictures take the ids from the start of the result.
WithIdsFromStart(imgs, ids) ==
  [i \in 1..Len(imgs) |->
     IF imgs[i].kind = "new" THEN KeptAs(imgs[i], ids[NewBefore(imgs, i)]) ELSE imgs[i]]

\* The new pictures take the ids behind those of the kept ones, in order.
WithIds(imgs, ids) ==
  LET first == Len(KeptIds(imgs))
  IN  [i \in 1..Len(imgs) |->
         IF imgs[i].kind = "new" THEN KeptAs(imgs[i], ids[first + NewBefore(imgs, i)]) ELSE imgs[i]]

\* finally of submit: the tokens and flags, whoever set them
Unlocked(n) == [n EXCEPT !.upToken = NoSub, !.saveToken = NoSub, !.submitting = FALSE, !.uploading = FALSE]

\* Mutant: the lock is only released where the upload succeeds.
UnlockedHalf(n, s) ==
  IF n.of = "cover" THEN [n EXCEPT !.submitting = FALSE]
  ELSE [n EXCEPT !.upToken = NoSub, !.saveToken = NoSub, !.submitting = FALSE]

Ended(n, s) ==
  CASE n.of = "entry"  -> Unlocked(n)
    [] n.of = "memory" -> [n EXCEPT !.saveToken = NoSub]
    [] n.of = "cover"  -> [n EXCEPT !.submitting = FALSE, !.saveToken = IF @ = s THEN NoSub ELSE @]

\* Mutant: after a failure everything is uploaded again.
PatchNothing(n, call) == n

\* What a failed submit has stored is not uploaded again; nothing of the sort
\* if the page is hidden.  Pictures are compared by their places.
Patched(n, call) ==
  IF n.shown /\ Len(call.snap) = Len(n.imgs)
  THEN [n EXCEPT !.imgs = [i \in 1..Len(n.imgs) |->
                             IF n.imgs[i].kind = "new" /\ call.res[i] = "ok"
                             THEN KeptAs(n.imgs[i], call.snap[i].pic) ELSE n.imgs[i]]]
  ELSE n

Fails(s, call) ==
  /\ e' = Ended(Patched(e, call), s) /\ sub' = [sub EXCEPT ![s] = NoSave]
  /\ resent' = resent \cup (IF e.shown THEN {} ELSE wanted)

UploadEnds(s) ==
  /\ e.open /\ Settled(s) /\ sub[s].valid
  /\ IF \A i \in 1..Len(sub[s].res) : sub[s].res[i] # "failed"
     THEN LET ids  == Uploaded(sub[s])
              free == [e EXCEPT !.uploading = FALSE, !.upToken = NoSub]
          IN  SaveWith(sub[s], PutImgs(free, Live(WithIds(sub[s].snap, ids))), s, ids) /\ UNCHANGED resent
     ELSE Fails(s, sub[s])
  /\ UNCHANGED <<stored, entry, wanted, overlap, chosen, leaves>>

\* A cancelled request may have reached the server.
Rejected(s) ==
  /\ e.open /\ Cancelled(s) /\ Fails(s, sub[s])
  /\ entry' \in {entry} \cup {sub[c].ids : c \in {s} \cap {c \in Subs : sub[c].pc = "save"}}
  /\ UNCHANGED <<stored, wanted, overlap, chosen, leaves>>

\* cancel: the tokens, and the parent removes the editor.
Closed == [NewEditor(e.of, e.imgs) EXCEPT !.open = FALSE, !.late = e.late]
NoCalls == [s \in Subs |-> NoSave]

SaveEnds(s) ==
  /\ EditorCalm /\ sub[s].pc = "save"
  /\ \/ entry' = sub[s].ids /\ e' = [Closed EXCEPT !.saved = TRUE] /\ sub' = NoCalls /\ UNCHANGED resent
     \/ entry' \in {entry, sub[s].ids} /\ Fails(s, sub[s])
  /\ UNCHANGED <<stored, wanted, overlap, chosen, leaves>>

-----------------------------------------------------------------------------
Cancel ==
  /\ Touch /\ e' = Closed /\ sub' = NoCalls
  /\ UNCHANGED <<stored, entry, wanted, resent, overlap, chosen, leaves>>

\* Writing goes on while the page is hidden.
LeaveEditor ==
  /\ e.open /\ e.shown /\ leaves < MaxLeaves /\ leaves' = leaves + 1
  /\ e' = [e EXCEPT !.shown = FALSE]
  /\ UNCHANGED <<sub, stored, entry, wanted, resent, overlap, chosen>>

Return ==
  /\ e.open /\ ~e.shown
  /\ e' = [e EXCEPT !.shown = TRUE, !.late = <<>>, !.imgs = View]
  /\ UNCHANGED <<sub, stored, entry, wanted, resent, overlap, chosen, leaves>>

Requests(s) == (\E i \in 1..Len(sub[s].res) : FileEnds(s, i)) \/ UploadEnds(s) \/ Rejected(s) \/ SaveEnds(s)

EditorNext ==
  \/ OpenAlbum \/ Choose \/ DelImage \/ Cancel \/ LeaveEditor \/ Return
  \/ \E s \in Subs : SubmitEditor(s) \/ Requests(s)

\* Uploads and requests end: both have timeouts.
EditorFairness == WF_editorVars(\E s \in Subs : Requests(s))
EditorSpec == EditorInit /\ [][EditorNext]_editorVars /\ EditorFairness

-----------------------------------------------------------------------------
\* The types of the editors' variables.
EditorTypeOK ==
  /\ e.of \in {"entry", "memory", "cover"} /\ e.upToken \in Subs \cup {NoSub} /\ e.saveToken \in Subs \cup {NoSub}
  /\ \A i \in 1..Len(e.imgs) : e.imgs[i].kind \in {"new", "kept", "deleted"} /\ e.imgs[i].pic \in Pics
  /\ \A s \in Subs : sub[s].pc \in {"idle", "upload", "save"} /\ Len(sub[s].res) <= Len(sub[s].snap)
  /\ wanted \subseteq Pics /\ resent \subseteq Pics /\ overlap \in BOOLEAN /\ leaves \in 0..MaxLeaves

\* A picture stays in the editor from its choice to its deletion, and one that
\* was deleted does not come back, whatever uploads end meanwhile; unless Save
\* was pressed again during an upload.
PicturesKept == ~overlap => PicsOf(Live(View)) = wanted

\* Each picture carries its own id, and a saved entry has the pictures shown
\* when it was saved; unless Save was pressed again during an upload.
IdsOf(ids) == {ids[i] : i \in 1..Len(ids)}
IdsBelong ==
  ~overlap =>
    /\ \A i \in 1..Len(View) : View[i].kind = "kept" => View[i].id = View[i].pic
    /\ e.saved => IdsOf(entry) = wanted

\* A picture is uploaded once, however often the save fails: only when the
\* answer was lost, the page hidden, or Save pressed twice, is it sent again.
UploadedOnce == \A p \in Pics : stored[p] > 1 => p \in resent
=============================================================================
