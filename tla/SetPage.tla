------------------------------ MODULE SetPage -------------------------------
(***************************************************************************)
(* The page of the settings and what it changes at the server: the phone   *)
(* number, which can be bound once a day, the nickname and the avatar.     *)
(* (pages/Set/Set.ts, auth/handler.go, user/handler.go)                    *)
(*                                                                         *)
(* A job is a request of the page and what waits for its answer.  Who has  *)
(* cancelled it no longer hears it, but the server may still get it.  The  *)
(* server works in steps: it reads the user, then asks WeChat or not, then *)
(* writes.  Phones, names and avatars are numbered in the order in which   *)
(* they are submitted.  All happens on one day.                            *)
(***************************************************************************)
EXTENDS Naturals, PageData

CONSTANTS Jobs,          \* requests that can overlap
          Subjects,      \* bound: what is changed in one behaviour
          MaxActs,       \* bound: submissions
          MaxAways       \* bound: the page is hidden or left

ASSUME SetPageAssumption ==
  /\ Jobs \subseteq Nat \ {0} /\ Subjects \subseteq {"phone", "name", "avatar"}
  /\ MaxActs \in Nat /\ MaxAways \in Nat

VARIABLES
  set,       \* the page
  job,       \* its requests
  profile,      \* the name and the avatar in storage
  user,      \* the row of the user at the server
  binds,     \* history: the numbers bound on this day
  slips,     \* history: what excuses a property
  subject,   \* what is changed
  acts, aways

setVars == <<set, job, profile, user, binds, slips, subject, acts, aways>>
setBounds == <<subject, acts, aways>>

NoData == [phone |-> {}, can |-> {}, name |-> {}, avatar |-> {}, drawer |-> {}]
\* A token is the job that it cancels, or 0.
NoPage == [open |-> FALSE, shown |-> FALSE, phone |-> 0, can |-> TRUE, name |-> 0, avatar |-> 0,
           drawer |-> FALSE, asking |-> FALSE, locked |-> FALSE, nameToken |-> 0, bindToken |-> 0,
           late |-> NoData]
NoJob == [pc |-> "idle", at |-> "none", arg |-> 0, heard |-> FALSE, chained |-> FALSE,
          read |-> [phone |-> 0, day |-> "never"]]
NewJob(pc, arg) == [NoJob EXCEPT !.pc = pc, !.at = "sent", !.arg = arg, !.heard = TRUE]

SetPageInit ==
  /\ set = NoPage /\ job = [t \in Jobs |-> NoJob] /\ profile = [name |-> 0, avatar |-> 0]
  /\ \E old \in {[phone |-> 0, day |-> "never"], [phone |-> 1, day |-> "before"]} :
       user = [phone |-> old.phone, day |-> old.day, name |-> 0, avatar |-> 0]
  /\ subject \in Subjects /\ (subject # "phone" => user.phone = 0)
  /\ binds = {} /\ slips = {} /\ acts = 0 /\ aways = 0

JobFree(t) == job[t].pc = "idle" /\ \A u \in Jobs : u < t => job[u].pc # "idle"
Submits(t, of) ==
  /\ set.shown /\ JobFree(t) /\ subject = of /\ UNCHANGED subject
  /\ acts < MaxActs /\ acts' = acts + 1
Number == acts + 2
Away == aways < MaxAways /\ aways' = aways + 1

\* cancel of a token: what reads, and what was answered, is over.
CutOff(j) ==
  IF j.pc = "fetch" \/ j.at \in {"done", "refused"} THEN NoJob ELSE [j EXCEPT !.heard = FALSE]
\* Only the fetch of onShow has the token of the page.
CutFetch(js) == [t \in Jobs |-> IF js[t].pc = "fetch" /\ ~js[t].chained THEN NoJob ELSE js[t]]
Cut(token) == [t \in Jobs |-> IF t = token THEN CutOff(job[t]) ELSE job[t]]

-----------------------------------------------------------------------------
\* onShow: the name and the avatar of storage, and a new fetch.
OnShowSet(t, p, js) ==
  /\ set' = [[f \in DOMAIN p |-> IF f \in DOMAIN NoData THEN LatestOf(p, f) ELSE p[f]]
               EXCEPT !.late = NoData, !.name = profile.name, !.avatar = profile.avatar, !.shown = TRUE]
  /\ job' = [CutFetch(js) EXCEPT ![t] = NewJob("fetch", 0)]

OpenSet(t) ==
  /\ ~set.open /\ JobFree(t)
  /\ OnShowSet(t, [NoPage EXCEPT !.open = TRUE], job)
  /\ slips' = slips \ {"failed", "unlocked", "unheard", "overtaken"}
  /\ UNCHANGED <<profile, user, binds, setBounds>>

ShowSet(t) ==
  /\ set.open /\ ~set.shown /\ JobFree(t)
  /\ OnShowSet(t, set, job)
  /\ UNCHANGED <<profile, user, binds, slips, setBounds>>

\* onHide cancels reading only; the drawer stays.
HideSet ==
  /\ set.shown /\ Away
  /\ set' = [set EXCEPT !.shown = FALSE] /\ job' = CutFetch(job)
  /\ UNCHANGED <<profile, user, binds, slips, subject, acts>>

\* onUnload: what is not cancelled finds the page destroyed.
UnloadSet ==
  /\ set.open /\ Away /\ set' = NoPage /\ job' = [t \in Jobs |-> CutOff(job[t])]
  /\ slips' = slips \cup (IF \E t \in Jobs : job[t].heard /\ job[t].pc \in {"name", "avatar"}
                          THEN {"lost"} ELSE {})
  /\ UNCHANGED <<profile, user, binds, subject, acts>>

-----------------------------------------------------------------------------
\* setNickname, hiddenNicknameDrawer
TurnDrawer ==
  /\ set.shown /\ subject = "name" /\ set' = [set EXCEPT !.drawer = ~@]
  /\ UNCHANGED <<job, profile, user, binds, slips, setBounds>>

\* Mutant: the submission before is not cancelled.
SubmitNicknameOver(t) ==
  /\ set.drawer /\ Submits(t, "name")
  /\ job' = [job EXCEPT ![t] = NewJob("name", Number)]
  /\ set' = [set EXCEPT !.nameToken = t]
  /\ UNCHANGED <<profile, user, binds, slips, aways>>

\* submitNickname cancels the submission before.  That one then ends, and
\* its `finally' drops the token, which is the new one's by now.
SubmitNickname(t) ==
  /\ set.drawer /\ Submits(t, "name")
  /\ job' = [Cut(set.nameToken) EXCEPT ![t] = NewJob("name", Number)]
  /\ set' = [set EXCEPT !.nameToken = IF @ = 0 THEN t ELSE 0]
  /\ slips' = slips \cup (IF set.nameToken = 0 /\ \E u \in Jobs : job[u].pc = "name" /\ job[u].heard
                          THEN {"dropped"} ELSE {})
  /\ UNCHANGED <<profile, user, binds, aways>>

\* onChooseAvatar has a lock.
ChooseAvatar(t) ==
  /\ ~set.locked /\ Submits(t, "avatar")
  /\ job' = [job EXCEPT ![t] = NewJob("avatar", Number)] /\ set' = [set EXCEPT !.locked = TRUE]
  /\ UNCHANGED <<profile, user, binds, slips, aways>>

\* getPhoneNumber and bindPhone, with the same `finally'.  Cancelling does
\* nothing once the binding was answered and the number is fetched.
BindPhone(t) ==
  LET binding == {u \in Jobs : u = set.bindToken /\ job[u].pc = "bind"}
  IN  /\ set.can /\ Submits(t, "phone")
      /\ job' = [u \in Jobs |-> CASE u = t -> NewJob("bind", Number)
                                [] u \in binding -> CutOff(job[u])
                                [] OTHER -> job[u]]
      /\ set' = [set EXCEPT !.bindToken = IF binding = {} THEN t ELSE 0]
      /\ slips' = slips \cup (IF \E u \in binding : job[u].at = "done" THEN {"unheard"} ELSE {})
  /\ UNCHANGED <<profile, user, binds, aways>>

\* onUnbindPhoneTap: the dialog, then a request without a token.
AskUnbind ==
  /\ set.shown /\ set.phone # 0 /\ ~set.asking /\ set' = [set EXCEPT !.asking = TRUE]
  /\ UNCHANGED <<job, profile, user, binds, slips, setBounds>>
Unbind(t) ==
  /\ set.asking /\ Submits(t, "phone")
  /\ job' = [job EXCEPT ![t] = NewJob("unbind", 0)] /\ set' = [set EXCEPT !.asking = FALSE]
  /\ UNCHANGED <<profile, user, binds, slips, aways>>
DontUnbind ==
  /\ set.shown /\ set.asking /\ set' = [set EXCEPT !.asking = FALSE]
  /\ UNCHANGED <<job, profile, user, binds, slips, setBounds>>

-----------------------------------------------------------------------------
\* The server.  A change is noted when no one hears of it, or while an older
\* reading, or the answer to an unbinding, is on its way to the page.
Missed(t) ==
  IF [user' EXCEPT !.name = 0, !.avatar = 0] = [user EXCEPT !.name = 0, !.avatar = 0] THEN {}
  ELSE (IF job[t].heard THEN {} ELSE {"unheard"})
       \cup (IF \E u \in Jobs \ {t} : job[u].at = "done" /\ job[u].pc \in {"fetch", "unbind"}
             THEN {"overtaken"} ELSE {})
Stands(t, pc, at) == job[t].pc = pc /\ job[t].at = at
Moves(t, at) == job' = [job EXCEPT ![t] = IF @.heard \/ at \notin {"done", "refused"}
                                           THEN [@ EXCEPT !.at = at] ELSE NoJob]
Reads(t, at) ==
  job' = [job EXCEPT ![t].at = at, ![t].read = [phone |-> user.phone, day |-> user.day]]

\* GetPhone
GetPhone(t) == Stands(t, "fetch", "sent") /\ Reads(t, "done") /\ UNCHANGED <<user, binds, slips>>

\* UpdateNickname, UpdateAvatar: the last that arrives counts.
PutName(t) ==
  /\ job[t].pc \in {"name", "avatar"} /\ job[t].at = "sent"
  /\ user' = [user EXCEPT ![job[t].pc] = job[t].arg] /\ Moves(t, "done")
  /\ slips' = slips \cup (IF user[job[t].pc] > job[t].arg THEN {"crossed"} ELSE {})
  /\ UNCHANGED binds

\* phoneModificationLockedToday, asked before WeChat is.
CheckBind(t) ==
  /\ Stands(t, "bind", "sent") /\ Moves(t, IF user.day = "today" THEN "refused" ELSE "read")
  /\ UNCHANGED <<user, binds, slips>>

\* Mutant: the row is not asked again when it is written.
BindIfCheckedOnly(t) ==
  /\ Stands(t, "bind", "read") /\ Moves(t, "done") /\ binds' = binds \cup {job[t].arg}
  /\ user' = [user EXCEPT !.phone = job[t].arg, !.day = "today"]
  /\ slips' = slips \cup Missed(t)

\* BindUserPhoneIfAllowed
BindIfAllowed(t) ==
  /\ Stands(t, "bind", "read")
  /\ IF user.day = "today" THEN Moves(t, "refused") /\ UNCHANGED <<user, binds, slips>>
     ELSE /\ Moves(t, "done") /\ binds' = binds \cup {job[t].arg}
          /\ user' = [user EXCEPT !.phone = job[t].arg, !.day = "today"]
          /\ slips' = slips \cup Missed(t)

CheckUnbind(t) ==
  /\ Stands(t, "unbind", "sent")
  /\ IF user.phone = 0 THEN Moves(t, "refused") ELSE Reads(t, "read")
  /\ UNCHANGED <<user, binds, slips>>

\* Mutant: unbinding clears the day on which the number was bound.
UpdatePhoneClears(t) ==
  /\ Stands(t, "unbind", "read") /\ Moves(t, "done") /\ UNCHANGED binds
  /\ user' = [user EXCEPT !.phone = 0, !.day = "never"] /\ slips' = slips \cup Missed(t)

\* UpdateUserPhone, with the day that was read: one that was bound since is
\* lost.
UpdatePhone(t) ==
  /\ Stands(t, "unbind", "read") /\ Moves(t, "done") /\ UNCHANGED binds
  /\ user' = [user EXCEPT !.phone = 0, !.day = job[t].read.day]
  /\ slips' = slips \cup Missed(t) \cup (IF user.day = job[t].read.day THEN {} ELSE {"restored"})

\* A request that no one hears need not arrive.
NeverArrives(t) ==
  /\ job[t].pc # "idle" /\ ~job[t].heard /\ job' = [job EXCEPT ![t] = NoJob]
  /\ UNCHANGED <<user, binds, slips>>

ServerStep(t) ==
  /\ GetPhone(t) \/ PutName(t) \/ CheckBind(t) \/ BindIfAllowed(t) \/ CheckUnbind(t)
     \/ UpdatePhone(t) \/ NeverArrives(t)
  /\ UNCHANGED <<set, profile, setBounds>>

-----------------------------------------------------------------------------
\* The answers.  After `catch', the request may still be at the server.
Forget(t) == job' = [job EXCEPT ![t] = NoJob]
Breaks(t) == job' \in {[job EXCEPT ![t] = NoJob], [job EXCEPT ![t] = CutOff(@)]}
Awaits(t, pc) == job[t].pc = pc /\ job[t].heard
Fulfilled(t) == job[t].at = "done"
Puts(p, r) == PutData(PutData(p, "phone", r.phone), "can", r.day # "today")

\* The fetch after binding also ends bindPhone.
PhoneFetched(t) ==
  LET p == IF job[t].chained THEN [set EXCEPT !.bindToken = 0] ELSE set
  IN  /\ Awaits(t, "fetch") /\ Forget(t)
      /\ \/ Fulfilled(t) /\ set' = Puts(p, job[t].read)
            /\ slips' = slips \ {"failed", "unlocked", "unheard"}
         \/ set' = p /\ slips' = slips \cup {"failed"}
      /\ UNCHANGED profile

\* Mutant: the number is not fetched when it was bound.
BindEndsUnfetched(t) ==
  /\ Awaits(t, "bind") /\ set' = [set EXCEPT !.bindToken = 0] /\ UNCHANGED profile
  /\ \/ Fulfilled(t) /\ Forget(t) /\ UNCHANGED slips
     \/ Breaks(t) /\ slips' = slips \cup {"failed"}

BindEnds(t) ==
  /\ Awaits(t, "bind") /\ UNCHANGED profile
  /\ \/ /\ Fulfilled(t) /\ UNCHANGED <<set, slips>>
        /\ job' = [job EXCEPT ![t] = [NewJob("fetch", 0) EXCEPT !.chained = TRUE]]
     \/ /\ Breaks(t) /\ set' = [set EXCEPT !.bindToken = 0]
        /\ slips' = IF job[t].at = "refused" THEN slips ELSE slips \cup {"failed"}

\* The page then offers to bind, whether the day allows it or not.
UnbindEnds(t) ==
  /\ Awaits(t, "unbind") /\ UNCHANGED profile
  /\ \/ /\ Fulfilled(t) /\ Forget(t) /\ set' = Puts(set, [phone |-> 0, day |-> "never"])
        /\ slips' = slips \cup (IF user.day = "today" THEN {"unlocked"} ELSE {})
     \/ Breaks(t) /\ UNCHANGED set /\ slips' = slips \cup {"failed"}

NicknameEnds(t) ==
  LET p == [set EXCEPT !.nameToken = 0]
  IN  /\ Awaits(t, "name")
      /\ \/ /\ Fulfilled(t) /\ Forget(t) /\ profile' = [profile EXCEPT !.name = job[t].arg]
            /\ set' = PutData(PutData(p, "name", job[t].arg), "drawer", FALSE) /\ UNCHANGED slips
         \/ Breaks(t) /\ set' = p /\ UNCHANGED profile /\ slips' = slips \cup {"lost"}

\* Mutant: the lock is released only when the avatar was changed.
AvatarEndsLocked(t) ==
  /\ Awaits(t, "avatar")
  /\ \/ /\ Fulfilled(t) /\ Forget(t) /\ profile' = [profile EXCEPT !.avatar = job[t].arg]
        /\ set' = PutData([set EXCEPT !.locked = FALSE], "avatar", job[t].arg) /\ UNCHANGED slips
     \/ Breaks(t) /\ UNCHANGED <<set, profile>> /\ slips' = slips \cup {"lost"}

AvatarEnds(t) ==
  LET p == [set EXCEPT !.locked = FALSE]
  IN  /\ Awaits(t, "avatar")
      /\ \/ /\ Fulfilled(t) /\ Forget(t) /\ profile' = [profile EXCEPT !.avatar = job[t].arg]
            /\ set' = PutData(p, "avatar", job[t].arg) /\ UNCHANGED slips
         \/ Breaks(t) /\ set' = p /\ UNCHANGED profile /\ slips' = slips \cup {"lost"}

SetAnswers ==
  \E t \in Jobs :
    /\ PhoneFetched(t) \/ BindEnds(t) \/ UnbindEnds(t) \/ NicknameEnds(t) \/ AvatarEnds(t)
    /\ UNCHANGED <<user, binds, setBounds>>

SetPageNext ==
  \/ \E t \in Jobs : \/ OpenSet(t) \/ ShowSet(t) \/ SubmitNickname(t) \/ ChooseAvatar(t)
                     \/ BindPhone(t) \/ Unbind(t) \/ ServerStep(t)
  \/ HideSet \/ UnloadSet \/ TurnDrawer \/ AskUnbind \/ DontUnbind
  \/ SetAnswers

-----------------------------------------------------------------------------
\* The types.
SetPageTypeOK ==
  /\ set.phone \in 0..(MaxActs + 1) /\ set.can \in BOOLEAN /\ set.drawer \in BOOLEAN
  /\ {set.nameToken, set.bindToken} \subseteq Jobs \cup {0}
  /\ \A t \in Jobs : /\ job[t].pc \in {"idle", "fetch", "bind", "unbind", "name", "avatar"}
                     /\ job[t].at \in {"none", "sent", "read", "done", "refused"}
  /\ user.day \in {"never", "before", "today"} /\ binds \subseteq 2..(MaxActs + 1)
  /\ slips \subseteq {"restored", "crossed", "lost", "dropped", "failed", "unlocked", "unheard",
                      "overtaken"}

Resting == set.shown /\ \A t \in Jobs : ~job[t].heard

\* A number is bound once a day, whatever requests overlap - unless an
\* unbinding wrote the day back that it had read before a number was bound.
BoundOnceADay == "restored" \notin slips => \A v, w \in binds : v = w

\* A page at rest shows the number that is bound, and offers to bind one just
\* when the server would - unless a request failed, was overtaken by a change
\* or was given up, or the page unlocked itself after an unbinding.
PhoneAgrees ==
  Resting /\ slips \cap {"failed", "unheard", "overtaken"} = {} =>
    /\ set.phone = user.phone
    /\ "unlocked" \notin slips => set.can = (user.day # "today")

\* The page, storage and the server agree on name and avatar, unless a
\* request was lost or two arrived in another order than they were sent.
NamesAgree ==
  Resting /\ slips \cap {"lost", "crossed", "dropped"} = {} =>
    \A f \in {"name", "avatar"} : set[f] = profile[f] /\ profile[f] = user[f]

\* One submission of a nickname is waited for at a time, the last one - unless
\* the end of a cancelled one dropped the token of another.
OneSubmission ==
  "dropped" \notin slips =>
    \A t, u \in Jobs : Awaits(t, "name") /\ Awaits(u, "name") => t = u

\* The avatar is locked just while a change of it is awaited.
LockIsAwaited == set.locked <=> \E t \in Jobs : Awaits(t, "avatar")
=============================================================================
