----------------------------- MODULE FormsProofs -----------------------------
(***************************************************************************)
(* Proofs about the forms of the mini-program, each on its own: the        *)
(* settings, the page of the family, the page of the backend and the place *)
(* picker.  As in PagesProofs, for each of them an invariant that holds    *)
(* initially, that every step keeps, and that implies what is promised     *)
(* (ClientProofs).                                                         *)
(***************************************************************************)
EXTENDS SetPage, FamilyPage, BackendConfig, PlacePicker, TLAPS

-----------------------------------------------------------------------------
(***************************************************************************)
(* The settings                                                            *)
(***************************************************************************)
BindDays == {"never", "before", "today"}
SetJobs ==
  [pc : {"idle", "fetch", "bind", "unbind", "name", "avatar"}, at : {"none", "sent", "read", "done", "refused"},
   arg : Nat, heard : BOOLEAN, chained : BOOLEAN, read : [phone : Nat, day : BindDays]]
SetLate == [phone : SUBSET Nat, can : SUBSET BOOLEAN, name : SUBSET Nat, avatar : SUBSET Nat, drawer : SUBSET BOOLEAN]
SetPages ==
  [open : BOOLEAN, shown : BOOLEAN, phone : Nat, can : BOOLEAN, name : Nat, avatar : Nat,
   drawer : BOOLEAN, asking : BOOLEAN, locked : BOOLEAN, nameToken : Nat, bindToken : Nat, late : SetLate]
SetUsers == [phone : Nat, day : BindDays, name : Nat, avatar : Nat]
SetSlips == {"restored", "crossed", "lost", "dropped", "failed", "unlocked", "unheard", "overtaken"}

\* Numbers are those of submissions, or there from the beginning.
SetData ==
  /\ set \in SetPages /\ user \in SetUsers /\ profile \in [name : Nat, avatar : Nat]
  /\ set.nameToken \in Jobs \cup {0} /\ set.bindToken \in Jobs \cup {0}
  /\ acts \in 0..MaxActs /\ aways \in 0..MaxAways /\ slips \subseteq SetSlips
  /\ set.phone <= acts + 1 /\ \A v \in set.late.phone : v <= acts + 1
  /\ user.phone <= acts + 1 /\ user.name <= acts + 1 /\ user.avatar <= acts + 1
  /\ binds \subseteq 2..(acts + 1)

\* Who is not heard of reads nothing and is told nothing.
FormedJob(j, k) ==
  /\ j \in SetJobs /\ j.arg <= k /\ j.read.phone <= k
  /\ j.pc = "idle" => j = NoJob
  /\ j.pc = "bind" => 2 <= j.arg
  /\ ~j.heard => j.at \notin {"done", "refused"} /\ j.pc # "fetch"
SetJobsOK == job \in [Jobs -> SetJobs] /\ \A t \in Jobs : FormedJob(job[t], acts + 1)

\* A closed page waits for nothing.
OpenWaits == /\ set.shown => set.open
             /\ ~set.open => set = NoPage /\ \A t \in Jobs : ~job[t].heard

\* A number is bound once on a day.
BindsToday == "restored" \notin slips => binds = {} \/ (user.day = "today" /\ \E v \in binds : binds = {v})

\* What was read is what there is.
ReadIsNew ==
  "overtaken" \notin slips =>
    \A t \in Jobs : job[t].at = "done" =>
      /\ job[t].pc = "fetch" => job[t].read.phone = user.phone /\ job[t].read.day = user.day
      /\ job[t].pc = "unbind" => user.phone = 0

\* The number on the page is right, or about to be read.
ToBeRead(t) == job[t].heard /\ (job[t].pc = "fetch" \/ (job[t].pc \in {"bind", "unbind"} /\ job[t].at = "done"))
PhoneIsRead ==
  set.shown /\ slips \cap {"failed", "unheard", "overtaken"} = {} /\ (\A t \in Jobs : ~ToBeRead(t)) =>
    set.phone = user.phone /\ ("unlocked" \notin slips => set.can = (user.day # "today"))

\* One change of the name or of the avatar is awaited, and it is the last.
OneAtATime(of) == \A t, u \in Jobs : Awaits(t, of) /\ Awaits(u, of) => t = u
LastCounts(of) ==
  /\ \A t \in Jobs : Awaits(t, of) =>
       /\ job[t].at = "done" => user[of] = job[t].arg
       /\ \A u \in Jobs : u # t /\ job[u].pc = of => job[u].arg < job[t].arg
  /\ (\A t \in Jobs : ~Awaits(t, of)) =>
       profile[of] = user[of] /\ \A u \in Jobs : job[u].pc = of => job[u].arg < user[of]
NamesInOrder ==
  /\ set.nameToken # 0 => Awaits(set.nameToken, "name")
  /\ "dropped" \notin slips => OneAtATime("name")
  /\ OneAtATime("avatar") /\ (set.locked <=> \E t \in Jobs : Awaits(t, "avatar"))
  /\ set.shown => set.name = profile.name /\ set.avatar = profile.avatar
  /\ slips \cap {"lost", "crossed", "dropped"} = {} => LastCounts("name") /\ LastCounts("avatar")

SetInv ==
  /\ SetData /\ SetJobsOK /\ OpenWaits /\ BindsToday /\ ReadIsNew /\ PhoneIsRead /\ NamesInOrder

LEMMA SetBounds ==
  /\ Jobs \subseteq Nat \ {0} /\ MaxActs \in Nat /\ MaxAways \in Nat
BY SetPageAssumption

LEMMA NoJobIs ==
  /\ NoJob \in SetJobs /\ NoJob.pc = "idle" /\ NoJob.at = "none" /\ NoJob.arg = 0 /\ ~NoJob.heard
  /\ NoJob.read.phone = 0 /\ NoJob.read.day = "never"
BY DEF NoJob, SetJobs, BindDays

LEMMA NoJobFormed == \A k \in Nat : FormedJob(NoJob, k)
BY NoJobIs DEF FormedJob

LEMMA NewJobIs ==
  ASSUME NEW kind \in {"fetch", "bind", "unbind", "name", "avatar"}, NEW arg \in Nat
  PROVE  LET j == NewJob(kind, arg)
         IN  /\ j \in SetJobs /\ j.pc = kind /\ j.at = "sent" /\ j.arg = arg /\ j.heard /\ ~j.chained
             /\ j.read.phone = 0
             /\ \A k \in Nat : arg <= k /\ (kind = "bind" => 2 <= arg) => FormedJob(j, k)
<1> DEFINE j == NewJob(kind, arg)
<1>1. j \in SetJobs /\ j.pc = kind /\ j.at = "sent" /\ j.arg = arg /\ j.heard /\ ~j.chained /\ j.read.phone = 0
  BY DEF NewJob, NoJob, SetJobs, BindDays
<1> HIDE DEF j
<1>2. \A k \in Nat : arg <= k /\ (kind = "bind" => 2 <= arg) => FormedJob(j, k)  BY <1>1 DEF FormedJob
<1>3. QED  BY <1>1, <1>2 DEF j

LEMMA CutOffIs ==
  ASSUME NEW k \in Nat, NEW j, FormedJob(j, k)
  PROVE  /\ FormedJob(CutOff(j), k) /\ ~CutOff(j).heard
         /\ CutOff(j).pc # "idle" =>
              CutOff(j).pc = j.pc /\ CutOff(j).at = j.at /\ CutOff(j).arg = j.arg
<1>1. CASE j.pc = "fetch" \/ j.at \in {"done", "refused"}
  BY <1>1, NoJobIs, NoJobFormed DEF CutOff
<1>2. CASE ~(j.pc = "fetch" \/ j.at \in {"done", "refused"})
  <2>1. CutOff(j) = [j EXCEPT !.heard = FALSE] /\ j \in SetJobs  BY <1>2 DEF CutOff, FormedJob
  <2>2. /\ CutOff(j) \in SetJobs /\ ~CutOff(j).heard /\ CutOff(j).pc = j.pc /\ CutOff(j).at = j.at
        /\ CutOff(j).arg = j.arg /\ CutOff(j).read = j.read /\ CutOff(j).chained = j.chained
    BY <2>1 DEF SetJobs
  <2>3. ~j.heard => CutOff(j) = j  BY <2>1 DEF SetJobs
  <2>4. QED  BY <1>2, <2>2, <2>3, NoJobIs DEF FormedJob
<1>3. QED  BY <1>1, <1>2

\* What SetInv says of the data.
LEMMA SetIs ==
  SetInv => /\ set \in SetPages /\ user \in SetUsers /\ profile \in [name : Nat, avatar : Nat]
            /\ job \in [Jobs -> SetJobs] /\ (\A t \in Jobs : FormedJob(job[t], acts + 1))
            /\ acts \in Nat /\ acts + 1 \in Nat /\ acts + 2 \in Nat
            /\ set.late \in SetLate /\ user.day \in BindDays /\ user.phone \in Nat
            /\ 0 \notin Jobs
BY SetBounds DEF SetInv, SetData, SetJobsOK, SetPages, SetUsers

LEMMA SetInvInit == SetPageInit => SetInv
<1> SUFFICES ASSUME SetPageInit PROVE SetInv  OBVIOUS
<1>1. /\ set = NoPage /\ job = [t \in Jobs |-> NoJob] /\ profile = [name |-> 0, avatar |-> 0]
      /\ binds = {} /\ slips = {} /\ acts = 0 /\ aways = 0
      /\ user \in SetUsers /\ user.phone <= 1 /\ user.name = 0 /\ user.avatar = 0
  BY DEF SetPageInit, SetUsers, BindDays
<1>2. /\ set \in SetPages /\ ~set.open /\ ~set.shown /\ set.phone = 0 /\ set.nameToken = 0 /\ set.bindToken = 0
      /\ set.late.phone = {} /\ ~set.locked
  BY <1>1 DEF NoPage, NoData, SetPages, SetLate
<1>3. \A t \in Jobs : job[t] = NoJob  BY <1>1
<1>4. SetData  BY <1>1, <1>2, SetBounds DEF SetData
<1>5. SetJobsOK  BY <1>1, <1>3, NoJobIs, NoJobFormed DEF SetJobsOK
<1>6. OpenWaits  BY <1>1, <1>2, <1>3, NoJobIs DEF OpenWaits
<1>8. BindsToday /\ PhoneIsRead  BY <1>1, <1>2 DEF BindsToday, PhoneIsRead
<1>9. ReadIsNew  BY <1>3, NoJobIs DEF ReadIsNew
<1>10. NamesInOrder
  <2>1. \A t \in Jobs : \A of : ~Awaits(t, of) /\ job[t].pc = "idle"  BY <1>3, NoJobIs DEF Awaits
  <2>2. profile["name"] = user["name"] /\ profile["avatar"] = user["avatar"]  BY <1>1
  <2>3. LastCounts("name") /\ LastCounts("avatar")  BY <2>1, <2>2 DEF LastCounts
  <2>4. QED  BY <1>2, <2>1, <2>3 DEF NamesInOrder, OneAtATime
<1>11. QED  BY <1>4, <1>5, <1>6, <1>8, <1>9, <1>10 DEF SetInv

-----------------------------------------------------------------------------
\* What a step keeps that has to do with something else.

\* The phone number stays, and who reads it.
LEMMA PhoneRests ==
  ASSUME SetInv, user'.phone = user.phone, user'.day = user.day, binds' = binds,
         \A s \in {"restored", "failed", "unheard", "overtaken", "unlocked"} : s \in slips' <=> s \in slips,
         set'.shown => /\ set.shown /\ set'.phone = set.phone /\ set'.can = set.can
                       /\ \A u \in Jobs : ToBeRead(u) => ToBeRead(u)',
         \A u \in Jobs : job'[u].at = "done" /\ job'[u].pc \in {"fetch", "unbind"} =>
           \/ job'[u] = job[u]
           \/ job'[u].pc = "fetch" /\ job'[u].read.phone = user.phone /\ job'[u].read.day = user.day
  PROVE  BindsToday' /\ ReadIsNew' /\ PhoneIsRead'
<1>1. BindsToday'  BY DEF SetInv, BindsToday
<1>2. ReadIsNew'  BY DEF SetInv, ReadIsNew
<1>3. PhoneIsRead'  BY DEF SetInv, PhoneIsRead
<1>4. QED  BY <1>1, <1>2, <1>3

\* So do names, or avatars, and their submissions.
LEMMA OthersRest ==
  ASSUME NEW of \in {"name", "avatar"}, user'[of] = user[of], profile'[of] = profile[of],
         \A u \in Jobs : \/ job'[u] = job[u]
                         \/ (job[u].pc = of => ~job[u].heard) /\ job'[u].pc # of
  PROVE  /\ \A u \in Jobs : Awaits(u, of)' <=> Awaits(u, of)
         /\ OneAtATime(of) => OneAtATime(of)'
         /\ LastCounts(of) => LastCounts(of)'
<1>1. \A u \in Jobs : /\ Awaits(u, of)' <=> Awaits(u, of)
                      /\ Awaits(u, of) => job'[u] = job[u]
                      /\ job'[u].pc = of => job'[u] = job[u]
  BY DEF Awaits
<1>2. OneAtATime(of) => OneAtATime(of)'  BY <1>1 DEF OneAtATime
<1>3. LastCounts(of) => LastCounts(of)'  BY <1>1 DEF LastCounts
<1>4. QED  BY <1>1, <1>2, <1>3

LEMMA NamesRest ==
  ASSUME SetInv, set'.nameToken = set.nameToken, set'.locked = set.locked, profile' = profile,
         user'["name"] = user["name"], user'["avatar"] = user["avatar"],
         set'.shown => set'.name = profile.name /\ set'.avatar = profile.avatar,
         \A s \in {"lost", "crossed", "dropped"} : s \in slips' <=> s \in slips,
         \A u \in Jobs : \/ job'[u] = job[u]
                         \/ /\ job[u].pc \in {"name", "avatar"} => ~job[u].heard
                            /\ job'[u].pc \notin {"name", "avatar"}
  PROVE  NamesInOrder'
<1>1. \A of \in {"name", "avatar"} :
        /\ \A u \in Jobs : Awaits(u, of)' <=> Awaits(u, of)
        /\ OneAtATime(of) => OneAtATime(of)'
        /\ LastCounts(of) => LastCounts(of)'
  BY OthersRest
<1>2. set'.locked <=> \E t \in Jobs : Awaits(t, "avatar")'  BY <1>1 DEF SetInv, NamesInOrder
<1>3. (set.nameToken # 0 => Awaits(set.nameToken, "name"))'  BY <1>1 DEF SetInv, SetData, NamesInOrder
<1>4. QED  BY <1>1, <1>2, <1>3 DEF SetInv, NamesInOrder

-----------------------------------------------------------------------------
\* What happens to one request.
LEMMA FormedUp ==
  ASSUME NEW k \in Nat, NEW m2 \in Nat, k <= m2, NEW j, FormedJob(j, k) PROVE FormedJob(j, m2)
BY DEF FormedJob, SetJobs

LEMMA MoreUp == ASSUME NEW a \in Nat, NEW b \in Nat, a <= b PROVE a + 1 \in Nat /\ b + 1 \in Nat /\ a + 1 <= b + 1
OBVIOUS

LEMMA OneJob ==
  ASSUME SetInv, NEW t \in Jobs, NEW j, acts' \in Nat, acts <= acts', FormedJob(j, acts' + 1),
         job' = [job EXCEPT ![t] = j]
  PROVE  SetJobsOK' /\ job'[t] = j /\ \A u \in Jobs : u # t => job'[u] = job[u]
<1>1. job'[t] = j /\ \A u \in Jobs : u # t => job'[u] = job[u]  BY SetIs
<1>2. j \in SetJobs  BY DEF FormedJob
<1>3. job' \in [Jobs -> SetJobs]  BY <1>2, SetIs
<1>4. acts' + 1 \in Nat /\ acts + 1 \in Nat /\ acts + 1 <= acts' + 1
  <2>1. acts \in Nat  BY SetIs
  <2>2. QED  BY <2>1, MoreUp
<1>5. \A u \in Jobs : FormedJob(job[u], acts' + 1)  BY <1>4, FormedUp, SetIs
<1>6. \A u \in Jobs : FormedJob(job'[u], acts' + 1)  BY <1>1, <1>5
<1>7. QED  BY <1>1, <1>3, <1>6 DEF SetJobsOK

LEMMA MovesIs ==
  ASSUME SetInv, NEW t \in Jobs, NEW at2 \in {"read", "done", "refused"}, job[t].pc # "idle",
         job[t].pc # "fetch", Moves(t, at2), acts' = acts
  PROVE  /\ SetJobsOK' /\ \A u \in Jobs : u # t => job'[u] = job[u]
         /\ job[t].heard \/ at2 = "read" =>
              /\ job'[t].pc = job[t].pc /\ job'[t].at = at2 /\ job'[t].arg = job[t].arg
              /\ job'[t].heard = job[t].heard
         /\ ~(job[t].heard \/ at2 = "read") => job'[t] = NoJob
<1> DEFINE moved == [job[t] EXCEPT !.at = at2]
           j == IF job[t].heard \/ at2 = "read" THEN moved ELSE NoJob
<1>1. job[t] \in SetJobs /\ FormedJob(job[t], acts + 1)  BY SetIs
<1>2. moved \in SetJobs /\ moved.pc = job[t].pc /\ moved.at = at2 /\ moved.arg = job[t].arg
      /\ moved.heard = job[t].heard /\ moved.read = job[t].read
  BY <1>1 DEF SetJobs
<1> HIDE DEF moved
<1>3. job' = [job EXCEPT ![t] = j]  BY DEF Moves, moved
<1>4. FormedJob(j, acts + 1)
  <2>1. CASE job[t].heard \/ at2 = "read"  BY <1>1, <1>2, <2>1 DEF FormedJob
  <2>2. CASE ~(job[t].heard \/ at2 = "read")  BY <2>2, NoJobFormed, SetIs
  <2>3. QED  BY <2>1, <2>2
<1> HIDE DEF j
<1>7. acts' \in Nat /\ acts <= acts' /\ FormedJob(j, acts' + 1)
  <2>1. acts \in Nat  BY SetIs
  <2>2. QED  BY <1>4, <2>1
<1>5. SetJobsOK' /\ job'[t] = j /\ \A u \in Jobs : u # t => job'[u] = job[u]  BY <1>3, <1>7, OneJob
<1>6. QED  BY <1>2, <1>5 DEF j

LEMMA BreaksIs ==
  ASSUME SetInv, NEW t \in Jobs, Breaks(t), acts' = acts
  PROVE  /\ SetJobsOK' /\ \A u \in Jobs : u # t => job'[u] = job[u]
         /\ ~job'[t].heard
         /\ job'[t].pc # "idle" =>
              job'[t].pc = job[t].pc /\ job'[t].at = job[t].at /\ job'[t].arg = job[t].arg
<1>1. FormedJob(job[t], acts + 1) /\ acts + 1 \in Nat  BY SetIs
<1>2. PICK j \in {NoJob, CutOff(job[t])} : job' = [job EXCEPT ![t] = j]  BY DEF Breaks
<1>3. FormedJob(j, acts + 1) /\ ~j.heard
      /\ (j.pc # "idle" => j.pc = job[t].pc /\ j.at = job[t].at /\ j.arg = job[t].arg)
  BY <1>1, NoJobFormed, NoJobIs, CutOffIs
<1>6. acts' \in Nat /\ acts <= acts' /\ FormedJob(j, acts' + 1)
  <2>1. acts \in Nat  BY SetIs
  <2>2. QED  BY <1>3, <2>1
<1>4. SetJobsOK' /\ job'[t] = j /\ \A u \in Jobs : u # t => job'[u] = job[u]  BY <1>2, <1>6, OneJob
<1>5. QED  BY <1>3, <1>4

-----------------------------------------------------------------------------
\* The page is shown, hidden and left.
ShownPage(p) ==
  [[x \in DOMAIN p |-> IF x \in DOMAIN NoData THEN LatestOf(p, x) ELSE p[x]]
     EXCEPT !.late = NoData, !.name = profile.name, !.avatar = profile.avatar, !.shown = TRUE]

LEMMA ShownIs ==
  ASSUME profile \in [name : Nat, avatar : Nat], NEW k \in Nat, NEW p \in SetPages, p.phone <= k,
         \A v \in p.late.phone : v <= k
  PROVE  LET q == ShownPage(p)
         IN  /\ q \in SetPages /\ q.phone <= k /\ q.late.phone = {} /\ q.shown /\ q.open = p.open
             /\ q.name = profile.name /\ q.avatar = profile.avatar /\ q.locked = p.locked
             /\ q.nameToken = p.nameToken /\ q.bindToken = p.bindToken
<1> DEFINE Fields == {"open", "shown", "phone", "can", "name", "avatar", "drawer", "asking", "locked",
                      "nameToken", "bindToken", "late"}
           latest == [x \in DOMAIN p |-> IF x \in DOMAIN NoData THEN LatestOf(p, x) ELSE p[x]]
           q == ShownPage(p)
<1>1. DOMAIN p = Fields  BY DEF SetPages
<1>2. DOMAIN NoData = {"phone", "can", "name", "avatar", "drawer"}  BY DEF NoData
<1>3. NoData \in SetLate /\ NoData.phone = {}  BY DEF NoData, SetLate
<1>4. p.late.phone \in SUBSET Nat /\ p.late.can \in SUBSET BOOLEAN /\ p.late.drawer \in SUBSET BOOLEAN
  BY DEF SetPages, SetLate
<1>5. p.phone \in Nat /\ p.can \in BOOLEAN /\ p.drawer \in BOOLEAN  BY DEF SetPages
<1>6. LatestOf(p, "phone") \in Nat /\ LatestOf(p, "phone") <= k
  <2>1. CASE p.late.phone = {}  BY <1>5, <2>1 DEF LatestOf
  <2>2. CASE p.late.phone # {}
    <3>1. (CHOOSE v \in p.late.phone : TRUE) \in p.late.phone  BY <2>2
    <3>2. QED  BY <1>4, <2>2, <3>1 DEF LatestOf
  <2>3. QED  BY <2>1, <2>2
<1>7. LatestOf(p, "can") \in BOOLEAN
  <2>1. CASE p.late.can = {}  BY <1>5, <2>1 DEF LatestOf
  <2>2. CASE p.late.can # {}
    <3>1. (CHOOSE v \in p.late.can : TRUE) \in p.late.can  BY <2>2
    <3>2. QED  BY <1>4, <2>2, <3>1 DEF LatestOf
  <2>3. QED  BY <2>1, <2>2
<1>8. LatestOf(p, "drawer") \in BOOLEAN
  <2>1. CASE p.late.drawer = {}  BY <1>5, <2>1 DEF LatestOf
  <2>2. CASE p.late.drawer # {}
    <3>1. (CHOOSE v \in p.late.drawer : TRUE) \in p.late.drawer  BY <2>2
    <3>2. QED  BY <1>4, <2>2, <3>1 DEF LatestOf
  <2>3. QED  BY <2>1, <2>2
<1>9. /\ DOMAIN latest = Fields /\ latest.phone = LatestOf(p, "phone") /\ latest.can = LatestOf(p, "can")
      /\ latest.drawer = LatestOf(p, "drawer") /\ latest.open = p.open /\ latest.asking = p.asking
      /\ latest.locked = p.locked /\ latest.nameToken = p.nameToken /\ latest.bindToken = p.bindToken
      /\ latest = [x \in Fields |-> latest[x]]
  BY <1>1, <1>2
<1>13. q = [latest EXCEPT !.late = NoData, !.name = profile.name, !.avatar = profile.avatar, !.shown = TRUE]
  BY DEF ShownPage
<1> HIDE DEF latest, q
<1>10. q = [open |-> p.open, shown |-> TRUE, phone |-> LatestOf(p, "phone"), can |-> LatestOf(p, "can"),
            name |-> profile.name, avatar |-> profile.avatar, drawer |-> LatestOf(p, "drawer"),
            asking |-> p.asking, locked |-> p.locked, nameToken |-> p.nameToken,
            bindToken |-> p.bindToken, late |-> NoData]
  BY <1>9, <1>13
<1>11. q \in SetPages  BY <1>3, <1>6, <1>7, <1>8, <1>10 DEF SetPages
<1>12. QED  BY <1>3, <1>6, <1>10, <1>11 DEF q

LEMMA CutFetchIs ==
  ASSUME SetInv, NEW u \in Jobs
  PROVE  /\ FormedJob(CutFetch(job)[u], acts + 1)
         /\ CutFetch(job)[u] = job[u] \/ (job[u].pc = "fetch" /\ CutFetch(job)[u] = NoJob)
BY SetIs, NoJobFormed DEF CutFetch

LEMMA OnShowKeeps ==
  ASSUME SetInv, NEW t \in Jobs, JobFree(t), NEW p \in SetPages, p.phone <= acts + 1,
         \A v \in p.late.phone : v <= acts + 1, p.open, p.locked = set.locked, p.nameToken = set.nameToken,
         p.bindToken \in Jobs \cup {0}, OnShowSet(t, p, job), UNCHANGED <<profile, user, binds, acts, aways>>, slips' \subseteq slips,
         \A s \in {"restored", "lost", "crossed", "dropped"} : s \in slips' <=> s \in slips,
         "overtaken" \in slips' \/ "overtaken" \notin slips \/ \A u \in Jobs : job[u].at # "done"
  PROVE  SetInv'
<1>1. /\ set' \in SetPages /\ set'.phone <= acts + 1 /\ set'.late.phone = {} /\ set'.shown /\ set'.open
      /\ set'.name = profile.name /\ set'.avatar = profile.avatar /\ set'.locked = set.locked
      /\ set'.nameToken = set.nameToken /\ set'.bindToken = p.bindToken
  <2>1. profile \in [name : Nat, avatar : Nat] /\ acts + 1 \in Nat  BY SetIs
  <2>2. set' = ShownPage(p)  BY DEF OnShowSet, ShownPage
  <2>3. QED  BY <2>1, <2>2, ShownIs
<1>2. /\ job' \in [Jobs -> SetJobs] /\ job'[t] = NewJob("fetch", 0)
      /\ \A u \in Jobs : u # t => job'[u] = CutFetch(job)[u]
  <2>1. CutFetch(job) \in [Jobs -> SetJobs]  BY SetIs, NoJobIs DEF CutFetch
  <2>2. NewJob("fetch", 0) \in SetJobs  BY NewJobIs
  <2>3. job' = [CutFetch(job) EXCEPT ![t] = NewJob("fetch", 0)]  BY DEF OnShowSet
  <2>4. QED  BY <2>1, <2>2, <2>3
<1>3. /\ job'[t].pc = "fetch" /\ job'[t].at = "sent" /\ job'[t].heard /\ FormedJob(job'[t], acts + 1)
  <2>1. 0 <= acts + 1 /\ acts + 1 \in Nat  BY SetIs
  <2>2. QED  BY <1>2, <2>1, NewJobIs
<1>4. \A u \in Jobs : u # t => /\ FormedJob(job'[u], acts + 1)
                               /\ job'[u] = job[u] \/ (job[u].pc = "fetch" /\ job'[u] = NoJob)
  BY <1>2, CutFetchIs
<1>5. SetData'
  <2>1. set'.nameToken \in Jobs \cup {0} /\ set'.bindToken \in Jobs \cup {0}  BY <1>1 DEF SetPages, SetInv, SetData
  <2>2. slips' \subseteq SetSlips  BY DEF SetInv, SetData
  <2>3. QED  BY <1>1, <2>1, <2>2 DEF SetInv, SetData
<1>6. SetJobsOK'  BY <1>2, <1>3, <1>4 DEF SetJobsOK
<1>7. OpenWaits'  BY <1>1 DEF OpenWaits
<1>8. BindsToday'  BY DEF SetInv, BindsToday
<1>9. ReadIsNew'
  <2>1. \A u \in Jobs : job'[u].at = "done" => job'[u] = job[u]  BY <1>3, <1>4, NoJobIs
  <2>2. QED  BY <2>1 DEF SetInv, ReadIsNew
<1>10. PhoneIsRead'
  <2>1. ToBeRead(t)'  BY <1>3 DEF ToBeRead
  <2>2. QED  BY <2>1 DEF PhoneIsRead
<1>11. NamesInOrder'
  <2>1. \A u \in Jobs : \/ job'[u] = job[u]
                        \/ /\ job[u].pc \in {"name", "avatar"} => ~job[u].heard
                           /\ job'[u].pc \notin {"name", "avatar"}
    BY <1>3, <1>4, NoJobIs DEF JobFree
  <2>2. QED  BY <1>1, <2>1, NamesRest
<1>12. QED  BY <1>5, <1>6, <1>7, <1>8, <1>9, <1>10, <1>11 DEF SetInv

LEMMA OpenSetKeeps == ASSUME SetInv, NEW t \in Jobs, OpenSet(t) PROVE SetInv'
<1> DEFINE p == [NoPage EXCEPT !.open = TRUE]
<1>1. ~set.open /\ JobFree(t) /\ OnShowSet(t, p, job)
      /\ slips' = slips \ {"failed", "unlocked", "unheard", "overtaken"}
      /\ UNCHANGED <<profile, user, binds, acts, aways>>
  BY DEF OpenSet, setBounds
<1>2. set = NoPage /\ \A u \in Jobs : ~job[u].heard  BY <1>1 DEF SetInv, OpenWaits
<1>3. \A u \in Jobs : job[u].at # "done"  BY <1>2, SetIs DEF FormedJob
<1>4. p \in SetPages /\ p.open /\ p.phone = 0 /\ p.late.phone = {} /\ p.locked = NoPage.locked
      /\ p.nameToken = NoPage.nameToken /\ p.bindToken = 0
  BY DEF NoPage, NoData, SetPages, SetLate
<1> HIDE DEF p
<1>5. p.phone <= acts + 1 /\ \A v \in p.late.phone : v <= acts + 1  BY <1>4, SetIs
<1>6. slips' \subseteq slips
      /\ \A s \in {"restored", "lost", "crossed", "dropped"} : s \in slips' <=> s \in slips
  BY <1>1
<1>7. QED  BY <1>1, <1>2, <1>3, <1>4, <1>5, <1>6, OnShowKeeps

LEMMA ShowSetKeeps == ASSUME SetInv, NEW t \in Jobs, ShowSet(t) PROVE SetInv'
<1>1. set.open /\ JobFree(t) /\ OnShowSet(t, set, job) /\ UNCHANGED <<profile, user, binds, slips, acts, aways>>
  BY DEF ShowSet, setBounds
<1>2. set \in SetPages /\ set.phone <= acts + 1 /\ set.bindToken \in Jobs \cup {0}
      /\ \A v \in set.late.phone : v <= acts + 1
  BY DEF SetInv, SetData
<1>3. QED  BY <1>1, <1>2, OnShowKeeps

LEMMA HideSetKeeps == SetInv /\ HideSet => SetInv'
<1> SUFFICES ASSUME SetInv, HideSet PROVE SetInv'  OBVIOUS
<1>1. /\ set.shown /\ set' = [set EXCEPT !.shown = FALSE] /\ job' = CutFetch(job)
      /\ aways < MaxAways /\ aways' = aways + 1 /\ UNCHANGED <<profile, user, binds, slips, acts>>
  BY DEF HideSet, Away
<1>2. /\ set' \in SetPages /\ set'.phone = set.phone /\ set'.late = set.late /\ ~set'.shown /\ set'.open = set.open
      /\ set'.locked = set.locked /\ set'.nameToken = set.nameToken /\ set'.bindToken = set.bindToken
  BY <1>1, SetIs DEF SetPages
<1>3. \A u \in Jobs : /\ FormedJob(job'[u], acts + 1)
                      /\ job'[u] = job[u] \/ (job[u].pc = "fetch" /\ job'[u] = NoJob)
  BY <1>1, CutFetchIs
<1>4. SetData'
  <2>1. aways' \in 0..MaxAways  BY <1>1, SetBounds DEF SetInv, SetData
  <2>2. QED  BY <1>1, <1>2, <2>1 DEF SetInv, SetData
<1>5. SetJobsOK'
  <2>1. job' \in [Jobs -> SetJobs]  BY <1>1, SetIs, NoJobIs DEF CutFetch
  <2>2. QED  BY <1>1, <1>3, <2>1 DEF SetJobsOK
<1>6. OpenWaits'  BY <1>1, <1>2 DEF SetInv, OpenWaits
<1>7. BindsToday' /\ ReadIsNew' /\ PhoneIsRead'  BY <1>1, <1>2, <1>3, NoJobIs, PhoneRests
<1>8. NamesInOrder'
  <2>1. \A u \in Jobs : \/ job'[u] = job[u]
                        \/ /\ job[u].pc \in {"name", "avatar"} => ~job[u].heard
                           /\ job'[u].pc \notin {"name", "avatar"}
    BY <1>3, NoJobIs
  <2>2. QED  BY <1>1, <1>2, <2>1, NamesRest
<1>9. QED  BY <1>4, <1>5, <1>6, <1>7, <1>8 DEF SetInv

LEMMA UnloadSetKeeps == SetInv /\ UnloadSet => SetInv'
<1> SUFFICES ASSUME SetInv, UnloadSet PROVE SetInv'  OBVIOUS
<1>1. /\ set' = NoPage /\ job' = [t \in Jobs |-> CutOff(job[t])]
      /\ aways < MaxAways /\ aways' = aways + 1 /\ UNCHANGED <<profile, user, binds, acts>>
      /\ slips' \in {slips, slips \cup {"lost"}}
      /\ "lost" \notin slips' => \A u \in Jobs : ~(job[u].heard /\ job[u].pc \in {"name", "avatar"})
  BY DEF UnloadSet, Away
<1>2. /\ NoPage \in SetPages /\ ~NoPage.shown /\ NoPage.phone = 0 /\ NoPage.late.phone = {}
      /\ ~NoPage.locked /\ NoPage.nameToken = 0 /\ NoPage.bindToken = 0
  BY DEF NoPage, NoData, SetPages, SetLate
<1>3. \A u \in Jobs : /\ FormedJob(job'[u], acts + 1) /\ ~job'[u].heard /\ job'[u].at # "done"
                      /\ job'[u].pc # "idle" =>
                           job'[u].pc = job[u].pc /\ job'[u].at = job[u].at /\ job'[u].arg = job[u].arg
  <2>1. \A u \in Jobs : FormedJob(job[u], acts + 1) /\ acts + 1 \in Nat  BY SetIs
  <2>2. \A u \in Jobs : job'[u] = CutOff(job[u])  BY <1>1
  <2>3. \A u \in Jobs : /\ FormedJob(job'[u], acts + 1) /\ ~job'[u].heard
                        /\ job'[u].pc # "idle" =>
                             job'[u].pc = job[u].pc /\ job'[u].at = job[u].at /\ job'[u].arg = job[u].arg
    BY <2>1, <2>2, CutOffIs
  <2>4. QED  BY <2>3 DEF FormedJob
<1>4. SetData'
  <2>1. aways' \in 0..MaxAways  BY <1>1, SetBounds DEF SetInv, SetData
  <2>2. slips' \subseteq SetSlips  BY <1>1 DEF SetInv, SetData, SetSlips
  <2>3. 0 <= acts + 1  BY SetIs
  <2>4. QED  BY <1>1, <1>2, <2>1, <2>2, <2>3 DEF SetInv, SetData
<1>5. SetJobsOK'
  <2>1. \A u \in Jobs : CutOff(job[u]) \in SetJobs  BY <1>1, <1>3 DEF FormedJob
  <2>2. job' \in [Jobs -> SetJobs]  BY <1>1, <2>1
  <2>3. QED  BY <1>1, <1>3, <2>2 DEF SetJobsOK
<1>6. OpenWaits'  BY <1>1, <1>2, <1>3 DEF OpenWaits
<1>7. BindsToday' /\ ReadIsNew' /\ PhoneIsRead'  BY <1>1, <1>2, <1>3, PhoneRests
<1>8. NamesInOrder'
  <2>1. \A u \in Jobs : \A of : ~Awaits(u, of)'  BY <1>3 DEF Awaits
  <2>2. ASSUME NEW of \in {"name", "avatar"}, slips' \cap {"lost", "crossed", "dropped"} = {}
        PROVE  LastCounts(of)'
    <3>1. LastCounts(of) /\ \A u \in Jobs : ~Awaits(u, of)  BY <1>1, <2>2 DEF SetInv, NamesInOrder, Awaits
    <3>2. profile[of] = user[of] /\ \A u \in Jobs : job[u].pc = of => job[u].arg < user[of]
      BY <3>1 DEF LastCounts
    <3>3. \A u \in Jobs : job'[u].pc = of => job'[u].arg < user[of]  BY <1>3, <3>2
    <3>4. QED  BY <1>1, <2>1, <3>2, <3>3 DEF LastCounts
  <2>3. QED  BY <1>1, <1>2, <2>1, <2>2 DEF NamesInOrder, OneAtATime
<1>9. QED  BY <1>4, <1>5, <1>6, <1>7, <1>8 DEF SetInv

LEMMA DrawerKeeps == SetInv /\ (TurnDrawer \/ AskUnbind \/ DontUnbind) => SetInv'
<1> SUFFICES ASSUME SetInv, TurnDrawer \/ AskUnbind \/ DontUnbind PROVE SetInv'  OBVIOUS
<1>1. /\ set.shown /\ UNCHANGED <<job, profile, user, binds, slips, acts, aways>>
      /\ \E y \in BOOLEAN : set' \in {[set EXCEPT !.drawer = y], [set EXCEPT !.asking = y]}
  BY SetIs DEF TurnDrawer, AskUnbind, DontUnbind, setBounds
<1>2. /\ set' \in SetPages /\ set'.phone = set.phone /\ set'.late = set.late /\ set'.shown = set.shown
      /\ set'.locked = set.locked /\ set'.nameToken = set.nameToken /\ set'.bindToken = set.bindToken
      /\ set'.can = set.can /\ set'.name = set.name /\ set'.avatar = set.avatar /\ set'.open = set.open
  BY <1>1, SetIs DEF SetPages
<1>3. SetData'  BY <1>1, <1>2 DEF SetInv, SetData
<1>4. SetJobsOK'  BY <1>1 DEF SetInv, SetJobsOK
<1>5. OpenWaits'  BY <1>1, <1>2 DEF SetInv, OpenWaits
<1>6. BindsToday' /\ ReadIsNew' /\ PhoneIsRead'
  <2>1. \A u \in Jobs : ToBeRead(u) => ToBeRead(u)'  BY <1>1 DEF ToBeRead
  <2>2. QED  BY <1>1, <1>2, <2>1, PhoneRests
<1>7. NamesInOrder'
  <2>1. set.name = profile.name /\ set.avatar = profile.avatar  BY <1>1 DEF SetInv, NamesInOrder
  <2>2. QED  BY <1>1, <1>2, <2>1, NamesRest
<1>8. QED  BY <1>3, <1>4, <1>5, <1>6, <1>7 DEF SetInv

-----------------------------------------------------------------------------
\* What the user submits.
LEMMA SubmitsIs ==
  ASSUME SetInv, NEW t \in Jobs, NEW of, Submits(t, of)
  PROVE  /\ set.shown /\ set.open /\ job[t] = NoJob /\ job[t].pc = "idle" /\ ~job[t].heard /\ job[t].at = "none"
         /\ acts \in Nat /\ acts' = acts + 1 /\ acts' \in Nat /\ acts <= acts' /\ acts' \in 0..MaxActs
         /\ Number \in Nat /\ Number = acts' + 1 /\ 2 <= Number
<1>1. set.shown /\ job[t].pc = "idle" /\ acts < MaxActs /\ acts' = acts + 1  BY DEF Submits, JobFree
<1>2. set.open /\ acts \in Nat /\ MaxActs \in Nat  BY <1>1, SetIs, SetBounds DEF SetInv, OpenWaits
<1>3. job[t] = NoJob  BY <1>1, SetIs DEF FormedJob
<1>4. acts' \in Nat /\ acts <= acts' /\ acts' \in 0..MaxActs  BY <1>1, <1>2
<1>5. Number \in Nat /\ Number = acts' + 1 /\ 2 <= Number  BY <1>1, <1>2 DEF Number
<1>6. QED  BY <1>1, <1>2, <1>3, <1>4, <1>5, NoJobIs

LEMMA SubmitData ==
  ASSUME SetInv, acts' = acts + 1, acts' \in 0..MaxActs, set' \in SetPages, set'.phone = set.phone,
         set'.late = set.late, set'.nameToken \in Jobs \cup {0}, set'.bindToken \in Jobs \cup {0},
         UNCHANGED <<profile, user, binds, aways>>, slips' \subseteq SetSlips
  PROVE  SetData'
<1>1. acts \in Nat /\ set.phone \in Nat /\ user \in SetUsers /\ \A v \in set.late.phone : v \in Nat
  BY SetIs DEF SetPages, SetLate
<1>2. user.phone \in Nat /\ user.name \in Nat /\ user.avatar \in Nat  BY <1>1 DEF SetUsers
<1>3. set.phone <= acts' + 1 /\ \A v \in set.late.phone : v <= acts' + 1  BY <1>1 DEF SetInv, SetData
<1>4. user.phone <= acts' + 1 /\ user.name <= acts' + 1 /\ user.avatar <= acts' + 1
  BY <1>1, <1>2 DEF SetInv, SetData
<1>5. binds \subseteq 2..(acts' + 1)
  <2>1. binds \subseteq 2..(acts + 1)  BY DEF SetInv, SetData
  <2>2. QED  BY <1>1, <2>1
<1>6. QED  BY <1>3, <1>4, <1>5 DEF SetInv, SetData

LEMMA SubmitNicknameKeeps == ASSUME SetInv, NEW t \in Jobs, SubmitNickname(t) PROVE SetInv'
<1> DEFINE n == set.nameToken
<1>1. /\ Submits(t, "name") /\ job' = [Cut(n) EXCEPT ![t] = NewJob("name", Number)]
      /\ set' = [set EXCEPT !.nameToken = IF @ = 0 THEN t ELSE 0]
      /\ UNCHANGED <<profile, user, binds, aways>>
      /\ slips' \in {slips, slips \cup {"dropped"}}
      /\ n = 0 /\ "dropped" \notin slips' => \A u \in Jobs : ~Awaits(u, "name")
  BY DEF SubmitNickname, Awaits
<1>2. n \in Jobs \cup {0} /\ (n # 0 => Awaits(n, "name"))  BY DEF SetInv, SetData, NamesInOrder
<1>3. n # t  BY <1>1, <1>2, SubmitsIs, SetIs DEF Awaits
<1>4. set \in SetPages /\ set.shown /\ set.open /\ acts + 1 \in Nat /\ acts' + 1 \in Nat /\ acts + 1 <= acts' + 1
  BY <1>1, SubmitsIs, SetIs, MoreUp
<1>5. /\ set' \in SetPages /\ set'.phone = set.phone /\ set'.late = set.late /\ set'.shown = set.shown
      /\ set'.locked = set.locked /\ set'.nameToken = (IF n = 0 THEN t ELSE 0) /\ set'.bindToken = set.bindToken
      /\ set'.can = set.can /\ set'.name = set.name /\ set'.avatar = set.avatar /\ set'.open = set.open
  <2>1. t \in Nat /\ 0 \in Nat  BY SetBounds
  <2>2. QED  BY <1>1, <1>4, <2>1 DEF SetPages
<1>6. /\ job'[t].pc = "name" /\ job'[t].at = "sent" /\ job'[t].arg = Number /\ job'[t].heard
      /\ FormedJob(job'[t], acts' + 1) /\ job' \in [Jobs -> SetJobs]
      /\ \A u \in Jobs : u # t => job'[u] = IF u = n THEN CutOff(job[u]) ELSE job[u]
  <2>1. CutOff(job[n]) \in SetJobs \/ n = 0  BY <1>2, CutOffIs, SetIs DEF FormedJob
  <2>2. Cut(n) \in [Jobs -> SetJobs]  BY <1>2, <2>1, SetIs DEF Cut
  <2>3. \A u \in Jobs : Cut(n)[u] = IF u = n THEN CutOff(job[u]) ELSE job[u]  BY DEF Cut
  <2>4. LET j == NewJob("name", Number)
        IN  j \in SetJobs /\ j.pc = "name" /\ j.at = "sent" /\ j.arg = Number /\ j.heard
            /\ FormedJob(j, acts' + 1)
    <3>1. Number \in Nat /\ Number <= acts' + 1 /\ acts' + 1 \in Nat  BY <1>1, <1>4, SubmitsIs
    <3>2. QED  BY <3>1, NewJobIs
  <2>5. QED  BY <1>1, <2>2, <2>3, <2>4
<1>7. \A u \in Jobs : u # t => /\ FormedJob(job'[u], acts' + 1)
                               /\ job'[u] = job[u] \/ (u = n /\ ~job'[u].heard)
                               /\ job'[u].pc # "idle" => job'[u].pc = job[u].pc /\ job'[u].arg = job[u].arg
  <2> SUFFICES ASSUME NEW u \in Jobs, u # t
               PROVE  /\ FormedJob(job'[u], acts' + 1)
                      /\ job'[u] = job[u] \/ (u = n /\ ~job'[u].heard)
                      /\ job'[u].pc # "idle" => job'[u].pc = job[u].pc /\ job'[u].arg = job[u].arg
    OBVIOUS
  <2>1. FormedJob(job[u], acts + 1)  BY SetIs
  <2>2. FormedJob(job[u], acts' + 1)  BY <1>4, <2>1, FormedUp
  <2>3. CASE u = n
    <3>1. job'[u] = CutOff(job[u])  BY <1>6, <2>3
    <3>2. QED  BY <1>4, <2>2, <2>3, <3>1, CutOffIs
  <2>4. CASE u # n  BY <1>6, <2>2, <2>4
  <2>5. QED  BY <2>3, <2>4
<1>14. \A u \in Jobs : \/ u = t
                       \/ job'[u] = job[u] /\ u # n
                       \/ u = n /\ job[u].pc = "name" /\ ~job'[u].heard /\ job'[u].pc \in {"idle", "name"}
  <2>1. \A u \in Jobs : u = n => job[u].pc = "name" /\ u # t  BY <1>2, <1>3, SetBounds DEF Awaits
  <2>2. \A u \in Jobs : u = n => ~job'[u].heard  BY <1>4, <1>6, <2>1, CutOffIs, SetIs
  <2>3. QED  BY <1>6, <1>7, <2>1, <2>2
<1>8. SetData'
  <2>1. slips' \subseteq SetSlips  BY <1>1 DEF SetInv, SetData, SetSlips
  <2>2. set'.nameToken \in Jobs \cup {0} /\ set'.bindToken \in Jobs \cup {0}  BY <1>5 DEF SetInv, SetData
  <2>3. acts' = acts + 1 /\ acts' \in 0..MaxActs  BY <1>1, SubmitsIs
  <2>4. QED  BY <1>1, <1>5, <2>1, <2>2, <2>3, SubmitData
<1>9. SetJobsOK'  BY <1>6, <1>7 DEF SetJobsOK
<1>10. OpenWaits'  BY <1>4, <1>5 DEF OpenWaits
<1>11. BindsToday' /\ ReadIsNew' /\ PhoneIsRead'
  <2>1. job[t].pc = "idle" /\ \A s \in {"restored", "failed", "unheard", "overtaken", "unlocked"} : s \in slips' <=> s \in slips
    BY <1>1, SubmitsIs
  <2>2. \A u \in Jobs : ToBeRead(u) => ToBeRead(u)'  BY <1>14, <2>1 DEF ToBeRead
  <2>3. \A u \in Jobs : job'[u].at = "done" /\ job'[u].pc \in {"fetch", "unbind"} => job'[u] = job[u]
    BY <1>6, <1>14
  <2>4. QED  BY <1>1, <1>5, <2>1, <2>2, <2>3, PhoneRests
<1>12. NamesInOrder'
  <2>1. /\ \A u \in Jobs : Awaits(u, "avatar")' <=> Awaits(u, "avatar")
        /\ OneAtATime("avatar")' /\ (LastCounts("avatar") => LastCounts("avatar")')
    <3>1. \A u \in Jobs : \/ job'[u] = job[u]
                          \/ (job[u].pc = "avatar" => ~job[u].heard) /\ job'[u].pc # "avatar"
      <4>1. job[t].pc = "idle"  BY <1>1, SubmitsIs
      <4>2. QED  BY <1>6, <1>14, <4>1
    <3>2. OneAtATime("avatar") /\ user'["avatar"] = user["avatar"] /\ profile'["avatar"] = profile["avatar"]
      BY <1>1 DEF SetInv, NamesInOrder
    <3>3. QED  BY <3>1, <3>2, OthersRest
  <2>2. \A u \in Jobs : u # t /\ Awaits(u, "name")' => Awaits(u, "name") /\ u # n
    BY <1>14 DEF Awaits
  <2>3. ASSUME "dropped" \notin slips'
        PROVE  \A u \in Jobs : Awaits(u, "name")' => u = t
    <3>1. "dropped" \notin slips /\ OneAtATime("name")  BY <1>1, <2>3 DEF SetInv, NamesInOrder
    <3>2. CASE n = 0  BY <1>1, <2>2, <2>3, <3>2
    <3>3. CASE n # 0  BY <1>2, <2>2, <3>1, <3>3 DEF OneAtATime
    <3>4. QED  BY <3>2, <3>3
  <2>4. Awaits(t, "name")'  BY <1>6 DEF Awaits
  <2>5. ASSUME slips' \cap {"lost", "crossed", "dropped"} = {}
        PROVE  LastCounts("name")'
    <3>1. \A u \in Jobs : u # t /\ job'[u].pc = "name" => job'[u].arg < job'[t].arg
      <4> SUFFICES ASSUME NEW u \in Jobs, u # t, job'[u].pc = "name" PROVE job'[u].arg < job'[t].arg
        OBVIOUS
      <4>1. job'[u].arg = job[u].arg  BY <1>7
      <4>2. job[u].arg \in Nat /\ job[u].arg <= acts + 1  BY SetIs DEF FormedJob, SetJobs
      <4>3. job'[t].arg = acts + 2 /\ acts \in Nat  BY <1>1, <1>6, SubmitsIs DEF Number
      <4>4. QED  BY <4>1, <4>2, <4>3
    <3>2. \A u \in Jobs : Awaits(u, "name")' => u = t  BY <2>3, <2>5
    <3>3. QED  BY <1>6, <2>4, <3>1, <3>2 DEF LastCounts
  <2>6. slips' \cap {"lost", "crossed", "dropped"} = {} => LastCounts("avatar")'
    BY <1>1, <2>1 DEF SetInv, NamesInOrder
  <2>7. "dropped" \notin slips' => OneAtATime("name")'  BY <2>3 DEF OneAtATime
  <2>8. (set.nameToken # 0 => Awaits(set.nameToken, "name"))'  BY <1>5, <2>4
  <2>9. (set.locked <=> \E u \in Jobs : Awaits(u, "avatar"))'  BY <1>5, <2>1 DEF SetInv, NamesInOrder
  <2>10. (set.shown => set.name = profile.name /\ set.avatar = profile.avatar)'
    BY <1>1, <1>5 DEF SetInv, NamesInOrder
  <2>11. QED  BY <2>1, <2>5, <2>6, <2>7, <2>8, <2>9, <2>10 DEF NamesInOrder
<1>13. QED  BY <1>8, <1>9, <1>10, <1>11, <1>12 DEF SetInv

LEMMA ChooseAvatarKeeps == ASSUME SetInv, NEW t \in Jobs, ChooseAvatar(t) PROVE SetInv'
<1>1. /\ ~set.locked /\ Submits(t, "avatar") /\ job' = [job EXCEPT ![t] = NewJob("avatar", Number)]
      /\ set' = [set EXCEPT !.locked = TRUE] /\ UNCHANGED <<profile, user, binds, slips, aways>>
  BY DEF ChooseAvatar
<1>2. set \in SetPages /\ set.shown /\ set.open /\ job[t].pc = "idle" /\ acts' \in Nat /\ acts <= acts'
  BY <1>1, SubmitsIs, SetIs
<1>3. /\ set' \in SetPages /\ set'.phone = set.phone /\ set'.late = set.late /\ set'.shown = set.shown
      /\ set'.locked /\ set'.nameToken = set.nameToken /\ set'.bindToken = set.bindToken
      /\ set'.can = set.can /\ set'.name = set.name /\ set'.avatar = set.avatar /\ set'.open = set.open
  BY <1>1, <1>2 DEF SetPages
<1>4. LET j == NewJob("avatar", Number)
      IN  j.pc = "avatar" /\ j.at = "sent" /\ j.arg = Number /\ j.heard /\ FormedJob(j, acts' + 1)
  <2>1. Number \in Nat /\ Number <= acts' + 1 /\ acts' + 1 \in Nat  BY <1>1, SubmitsIs
  <2>2. QED  BY <2>1, NewJobIs
<1>5. SetJobsOK' /\ job'[t] = NewJob("avatar", Number) /\ \A u \in Jobs : u # t => job'[u] = job[u]
  <2> DEFINE j == NewJob("avatar", Number)
  <2>1. FormedJob(j, acts' + 1)  BY <1>4
  <2>2. job' = [job EXCEPT ![t] = j]  BY <1>1
  <2> HIDE DEF j
  <2>3. SetJobsOK' /\ job'[t] = j /\ \A u \in Jobs : u # t => job'[u] = job[u]  BY <1>2, <2>1, <2>2, OneJob
  <2>4. QED  BY <2>3 DEF j
<1>6. job'[t].pc = "avatar" /\ job'[t].at = "sent" /\ job'[t].arg = Number /\ job'[t].heard  BY <1>4, <1>5
<1>7. SetData'
  <2>1. acts' = acts + 1 /\ acts' \in 0..MaxActs  BY <1>1, SubmitsIs
  <2>2. set'.nameToken \in Jobs \cup {0} /\ set'.bindToken \in Jobs \cup {0} /\ slips' \subseteq SetSlips
    BY <1>1, <1>3 DEF SetInv, SetData
  <2>3. QED  BY <1>1, <1>3, <2>1, <2>2, SubmitData
<1>8. OpenWaits'  BY <1>2, <1>3 DEF OpenWaits
<1>9. BindsToday' /\ ReadIsNew' /\ PhoneIsRead'
  <2>1. \A u \in Jobs : ToBeRead(u) => ToBeRead(u)'  BY <1>2, <1>5 DEF ToBeRead
  <2>2. QED  BY <1>1, <1>3, <1>5, <1>6, <2>1, PhoneRests
<1>10. NamesInOrder'
  <2>1. /\ \A u \in Jobs : Awaits(u, "name")' <=> Awaits(u, "name")
        /\ OneAtATime("name") => OneAtATime("name")'
        /\ LastCounts("name") => LastCounts("name")'
    <3>1. \A u \in Jobs : \/ job'[u] = job[u]
                          \/ (job[u].pc = "name" => ~job[u].heard) /\ job'[u].pc # "name"
      BY <1>2, <1>5, <1>6
    <3>2. user'["name"] = user["name"] /\ profile'["name"] = profile["name"]  BY <1>1
    <3>3. QED  BY <3>1, <3>2, OthersRest
  <2>2. \A u \in Jobs : ~Awaits(u, "avatar")  BY <1>1 DEF SetInv, NamesInOrder
  <2>3. Awaits(t, "avatar")' /\ \A u \in Jobs : Awaits(u, "avatar")' => u = t
    BY <1>5, <1>6, <2>2 DEF Awaits
  <2>4. LastCounts("avatar")'
    <3>1. \A u \in Jobs : u # t /\ job'[u].pc = "avatar" => job'[u].arg < job'[t].arg
      <4> SUFFICES ASSUME NEW u \in Jobs, u # t PROVE job'[u].arg < job'[t].arg
        OBVIOUS
      <4>1. job'[u].arg = job[u].arg  BY <1>5
      <4>2. job[u].arg \in Nat /\ job[u].arg <= acts + 1  BY SetIs DEF FormedJob, SetJobs
      <4>3. job'[t].arg = acts + 2 /\ acts \in Nat  BY <1>1, <1>6, SubmitsIs DEF Number
      <4>4. QED  BY <4>1, <4>2, <4>3
    <3>2. QED  BY <1>6, <2>3, <3>1 DEF LastCounts
  <2>5. OneAtATime("avatar")'  BY <2>3 DEF OneAtATime
  <2>6. (set.nameToken # 0 => Awaits(set.nameToken, "name"))'
    BY <1>3, <2>1 DEF SetInv, SetData, NamesInOrder
  <2>7. QED  BY <1>1, <1>3, <2>1, <2>3, <2>4, <2>5, <2>6 DEF SetInv, NamesInOrder
<1>11. QED  BY <1>5, <1>7, <1>8, <1>9, <1>10 DEF SetInv

LEMMA BindPhoneKeeps == ASSUME SetInv, NEW t \in Jobs, BindPhone(t) PROVE SetInv'
<1> DEFINE binding == {u \in Jobs : u = set.bindToken /\ job[u].pc = "bind"}
<1>1. /\ Submits(t, "phone")
      /\ job' = [u \in Jobs |-> CASE u = t -> NewJob("bind", Number)
                                  [] u \in binding -> CutOff(job[u])
                                  [] OTHER -> job[u]]
      /\ set' = [set EXCEPT !.bindToken = IF binding = {} THEN t ELSE 0]
      /\ UNCHANGED <<profile, user, binds, aways>>
      /\ slips' \in {slips, slips \cup {"unheard"}}
      /\ "unheard" \notin slips' => \A u \in binding : job[u].at # "done"
  BY DEF BindPhone
<1>2. /\ set \in SetPages /\ set.shown /\ set.open /\ job[t].pc = "idle" /\ acts' = acts + 1 /\ acts' \in Nat
      /\ acts' \in 0..MaxActs /\ acts + 1 \in Nat /\ acts' + 1 \in Nat /\ acts + 1 <= acts' + 1
  BY <1>1, SubmitsIs, SetIs, MoreUp
<1>3. binding \subseteq Jobs /\ t \notin binding /\ \A u \in binding : job[u].pc = "bind"  BY <1>2
<1> HIDE DEF binding
<1>4. /\ set' \in SetPages /\ set'.phone = set.phone /\ set'.late = set.late /\ set'.shown = set.shown
      /\ set'.locked = set.locked /\ set'.nameToken = set.nameToken /\ set'.bindToken \in {0, t}
      /\ set'.can = set.can /\ set'.name = set.name /\ set'.avatar = set.avatar /\ set'.open = set.open
  <2>1. t \in Nat /\ 0 \in Nat  BY SetBounds
  <2>2. QED  BY <1>1, <1>2, <2>1 DEF SetPages
<1>5. LET j == NewJob("bind", Number)
      IN  j.pc = "bind" /\ j.at = "sent" /\ j.heard /\ FormedJob(j, acts' + 1)
  <2>1. Number \in Nat /\ Number <= acts' + 1 /\ acts' + 1 \in Nat /\ 2 <= Number  BY <1>1, SubmitsIs
  <2>2. QED  BY <2>1, NewJobIs
<1>6. /\ job'[t] = NewJob("bind", Number)
      /\ \A u \in Jobs : u # t => job'[u] = IF u \in binding THEN CutOff(job[u]) ELSE job[u]
  BY <1>1, <1>3
<1>7. \A u \in binding : /\ FormedJob(CutOff(job[u]), acts' + 1) /\ ~CutOff(job[u]).heard
                         /\ CutOff(job[u]).pc \in {"idle", "bind"}
  <2> SUFFICES ASSUME NEW u \in binding
               PROVE  /\ FormedJob(CutOff(job[u]), acts' + 1) /\ ~CutOff(job[u]).heard
                      /\ CutOff(job[u]).pc \in {"idle", "bind"}
    OBVIOUS
  <2>1. FormedJob(job[u], acts + 1)  BY <1>3, SetIs
  <2>2. FormedJob(job[u], acts' + 1)  BY <1>2, <2>1, FormedUp
  <2>3. QED  BY <1>2, <1>3, <2>2, CutOffIs
<1>8. \A u \in Jobs : FormedJob(job'[u], acts' + 1)
  <2>1. \A u \in Jobs : FormedJob(job[u], acts' + 1)  BY <1>2, FormedUp, SetIs
  <2>2. QED  BY <1>5, <1>6, <1>7, <2>1
<1>9. \A u \in Jobs : \/ u = t /\ job'[u].pc = "bind" /\ job'[u].at = "sent" /\ job'[u].heard
                      \/ u # t /\ job'[u] = job[u]
                      \/ u \in binding /\ ~job'[u].heard /\ job'[u].pc \in {"idle", "bind"}
  BY <1>5, <1>6, <1>7
<1>10. SetData'
  <2>1. slips' \subseteq SetSlips  BY <1>1 DEF SetInv, SetData, SetSlips
  <2>2. set'.nameToken \in Jobs \cup {0} /\ set'.bindToken \in Jobs \cup {0}  BY <1>4 DEF SetInv, SetData
  <2>3. QED  BY <1>1, <1>2, <1>4, <2>1, <2>2, SubmitData
<1>11. SetJobsOK'
  <2>1. \A u \in Jobs : job'[u] \in SetJobs  BY <1>8 DEF FormedJob
  <2>2. job' = [u \in Jobs |-> job'[u]]  BY <1>1
  <2>3. job' \in [Jobs -> SetJobs]  BY <2>1, <2>2
  <2>4. QED  BY <1>8, <2>3 DEF SetJobsOK
<1>12. OpenWaits'  BY <1>2, <1>4 DEF OpenWaits
<1>13. BindsToday'  BY <1>1 DEF SetInv, BindsToday
<1>14. ReadIsNew'
  <2>1. \A u \in Jobs : job'[u].at = "done" /\ job'[u].pc \in {"fetch", "unbind"} => job'[u] = job[u]  BY <1>9
  <2>2. QED  BY <1>1, <2>1 DEF SetInv, ReadIsNew
<1>15. PhoneIsRead'
  <2>1. "unheard" \notin slips' => \A u \in Jobs : ToBeRead(u) => ToBeRead(u)'
    BY <1>1, <1>2, <1>3, <1>9 DEF ToBeRead
  <2>2. QED  BY <1>1, <1>4, <2>1 DEF SetInv, PhoneIsRead
<1>16. NamesInOrder'
  <2>1. set.name = profile.name /\ set.avatar = profile.avatar  BY <1>2 DEF SetInv, NamesInOrder
  <2>2. \A u \in Jobs : \/ job'[u] = job[u]
                        \/ /\ job[u].pc \in {"name", "avatar"} => ~job[u].heard
                           /\ job'[u].pc \notin {"name", "avatar"}
    BY <1>2, <1>3, <1>9
  <2>3. QED  BY <1>1, <1>4, <2>1, <2>2, NamesRest
<1>17. QED  BY <1>10, <1>11, <1>12, <1>13, <1>14, <1>15, <1>16 DEF SetInv

LEMMA UnbindKeeps == ASSUME SetInv, NEW t \in Jobs, Unbind(t) PROVE SetInv'
<1>1. /\ Submits(t, "phone") /\ job' = [job EXCEPT ![t] = NewJob("unbind", 0)]
      /\ set' = [set EXCEPT !.asking = FALSE] /\ UNCHANGED <<profile, user, binds, slips, aways>>
  BY DEF Unbind
<1>2. set \in SetPages /\ set.shown /\ set.open /\ job[t].pc = "idle" /\ acts' \in Nat /\ acts <= acts'
  BY <1>1, SubmitsIs, SetIs
<1>3. /\ set' \in SetPages /\ set'.phone = set.phone /\ set'.late = set.late /\ set'.shown = set.shown
      /\ set'.locked = set.locked /\ set'.nameToken = set.nameToken /\ set'.bindToken = set.bindToken
      /\ set'.can = set.can /\ set'.name = set.name /\ set'.avatar = set.avatar /\ set'.open = set.open
  BY <1>1, <1>2 DEF SetPages
<1>4. LET j == NewJob("unbind", 0)
      IN  j.pc = "unbind" /\ j.at = "sent" /\ j.heard /\ FormedJob(j, acts' + 1)
  <2> DEFINE k == acts' + 1
  <2>1. acts' \in Nat  BY <1>2
  <2>2. 0 <= k /\ k \in Nat /\ 0 \in Nat
    <3>1. \A n \in Nat : 0 <= n + 1 /\ n + 1 \in Nat  OBVIOUS
    <3>2. QED  BY <2>1, <3>1
  <2> HIDE DEF k
  <2>3. LET j == NewJob("unbind", 0)
        IN  j.pc = "unbind" /\ j.at = "sent" /\ j.heard /\ FormedJob(j, k)
    BY <2>2, NewJobIs
  <2>4. QED  BY <2>3 DEF k
<1>5. SetJobsOK' /\ job'[t] = NewJob("unbind", 0) /\ \A u \in Jobs : u # t => job'[u] = job[u]
  <2> DEFINE j == NewJob("unbind", 0)
  <2>1. FormedJob(j, acts' + 1)  BY <1>4
  <2>2. job' = [job EXCEPT ![t] = j]  BY <1>1
  <2> HIDE DEF j
  <2>3. SetJobsOK' /\ job'[t] = j /\ \A u \in Jobs : u # t => job'[u] = job[u]  BY <1>2, <2>1, <2>2, OneJob
  <2>4. QED  BY <2>3 DEF j
<1>6. job'[t].pc = "unbind" /\ job'[t].at = "sent" /\ job'[t].heard  BY <1>4, <1>5
<1>7. SetData'
  <2>1. acts' = acts + 1 /\ acts' \in 0..MaxActs  BY <1>1, SubmitsIs
  <2>2. set'.nameToken \in Jobs \cup {0} /\ set'.bindToken \in Jobs \cup {0} /\ slips' \subseteq SetSlips
    BY <1>1, <1>3 DEF SetInv, SetData
  <2>3. QED  BY <1>1, <1>3, <2>1, <2>2, SubmitData
<1>8. OpenWaits'  BY <1>2, <1>3 DEF OpenWaits
<1>9. BindsToday' /\ ReadIsNew' /\ PhoneIsRead'
  <2>1. \A u \in Jobs : ToBeRead(u) => ToBeRead(u)'  BY <1>2, <1>5 DEF ToBeRead
  <2>2. QED  BY <1>1, <1>3, <1>5, <1>6, <2>1, PhoneRests
<1>10. NamesInOrder'
  <2>1. set.name = profile.name /\ set.avatar = profile.avatar  BY <1>2 DEF SetInv, NamesInOrder
  <2>2. \A u \in Jobs : \/ job'[u] = job[u]
                        \/ /\ job[u].pc \in {"name", "avatar"} => ~job[u].heard
                           /\ job'[u].pc \notin {"name", "avatar"}
    BY <1>2, <1>5, <1>6
  <2>3. QED  BY <1>1, <1>3, <2>1, <2>2, NamesRest
<1>11. QED  BY <1>5, <1>7, <1>8, <1>9, <1>10 DEF SetInv

-----------------------------------------------------------------------------
\* The server.
AtServer == UNCHANGED <<set, profile, acts, aways>>

LEMMA ServerData ==
  ASSUME SetInv, AtServer, user' \in SetUsers, slips' \subseteq SetSlips, user'.phone <= acts + 1,
         user'.name <= acts + 1, user'.avatar <= acts + 1, binds' \subseteq 2..(acts + 1)
  PROVE  SetData'
BY DEF AtServer, SetInv, SetData

\* What only moves a request on.
LEMMA ServerKeeps2 ==
  ASSUME SetInv, AtServer, UNCHANGED <<user, binds, slips>>, SetJobsOK', NEW t \in Jobs,
         job[t].pc \notin {"name", "avatar"} \/ ~job[t].heard, job'[t].pc \notin {"name", "avatar"},
         job'[t].heard => job[t].heard, ToBeRead(t) => ToBeRead(t)',
         job'[t].at = "done" /\ job'[t].pc \in {"fetch", "unbind"} =>
           job'[t].pc = "fetch" /\ job'[t].read.phone = user.phone /\ job'[t].read.day = user.day,
         \A u \in Jobs : u # t => job'[u] = job[u]
  PROVE  SetInv'
<1>1. UNCHANGED <<set, profile, acts, aways>>  BY DEF AtServer
<1>2. SetData'  BY <1>1 DEF SetInv, SetData
<1>3. OpenWaits'  BY <1>1 DEF SetInv, OpenWaits
<1>4. BindsToday' /\ ReadIsNew' /\ PhoneIsRead'
  <2>1. \A u \in Jobs : ToBeRead(u) => ToBeRead(u)'  BY DEF ToBeRead
  <2>2. QED  BY <1>1, <2>1, PhoneRests
<1>5. NamesInOrder'
  <2>1. set.shown => set.name = profile.name /\ set.avatar = profile.avatar  BY DEF SetInv, NamesInOrder
  <2>2. \A u \in Jobs : \/ job'[u] = job[u]
                        \/ /\ job[u].pc \in {"name", "avatar"} => ~job[u].heard
                           /\ job'[u].pc \notin {"name", "avatar"}
    OBVIOUS
  <2>3. QED  BY <1>1, <2>1, <2>2, NamesRest
<1>6. QED  BY <1>2, <1>3, <1>4, <1>5 DEF SetInv

LEMMA ReadsIs ==
  ASSUME SetInv, NEW t \in Jobs, NEW at2 \in {"read", "done"}, Reads(t, at2), UNCHANGED acts,
         job[t].pc \in {"fetch", "unbind"}, job[t].heard \/ at2 = "read"
  PROVE  /\ SetJobsOK' /\ \A u \in Jobs : u # t => job'[u] = job[u]
         /\ job'[t].pc = job[t].pc /\ job'[t].at = at2 /\ job'[t].heard = job[t].heard
         /\ job'[t].read.phone = user.phone /\ job'[t].read.day = user.day
<1> DEFINE j == [job[t] EXCEPT !.at = at2, !.read = [phone |-> user.phone, day |-> user.day]]
<1>1. job[t] \in SetJobs /\ FormedJob(job[t], acts + 1) /\ user.phone \in Nat /\ user.day \in BindDays
      /\ user.phone <= acts + 1 /\ acts \in Nat
  BY SetIs DEF SetInv, SetData
<1>2. j \in SetJobs /\ j.pc = job[t].pc /\ j.at = at2 /\ j.arg = job[t].arg /\ j.heard = job[t].heard
      /\ j.read.phone = user.phone /\ j.read.day = user.day
  BY <1>1 DEF SetJobs
<1>3. job' = [job EXCEPT ![t] = j]  BY SetIs DEF Reads
<1> HIDE DEF j
<1>4. FormedJob(j, acts + 1)  BY <1>1, <1>2 DEF FormedJob
<1>5. acts' \in Nat /\ acts <= acts' /\ FormedJob(j, acts' + 1)  BY <1>1, <1>4
<1>6. SetJobsOK' /\ job'[t] = j /\ \A u \in Jobs : u # t => job'[u] = job[u]  BY <1>3, <1>5, OneJob
<1>7. QED  BY <1>2, <1>6

LEMMA GetPhoneKeeps == ASSUME SetInv, AtServer, NEW t \in Jobs, GetPhone(t) PROVE SetInv'
<1>1. job[t].pc = "fetch" /\ Reads(t, "done") /\ UNCHANGED <<user, binds, slips>> /\ UNCHANGED acts
  BY DEF GetPhone, Stands, AtServer
<1>2. job[t].heard  BY <1>1, SetIs DEF FormedJob
<1>3. /\ SetJobsOK' /\ (\A u \in Jobs : u # t => job'[u] = job[u])
      /\ job'[t].pc = "fetch" /\ job'[t].heard /\ job'[t].read.phone = user.phone /\ job'[t].read.day = user.day
  BY <1>1, <1>2, ReadsIs
<1>4. QED  BY <1>1, <1>2, <1>3, ServerKeeps2 DEF ToBeRead

LEMMA CheckBindKeeps == ASSUME SetInv, AtServer, NEW t \in Jobs, CheckBind(t) PROVE SetInv'
<1>1. job[t].pc = "bind" /\ job[t].at = "sent" /\ UNCHANGED <<user, binds, slips>> /\ acts' = acts
  BY DEF CheckBind, Stands, AtServer
<1>2. PICK at2 \in {"read", "refused"} : Moves(t, at2)  BY DEF CheckBind
<1>3. /\ SetJobsOK' /\ (\A u \in Jobs : u # t => job'[u] = job[u])
      /\ job'[t].pc \in {"bind", "idle"} /\ (job'[t].heard => job[t].heard)
  BY <1>1, <1>2, MovesIs, NoJobIs
<1>4. QED  BY <1>1, <1>3, ServerKeeps2 DEF ToBeRead

LEMMA CheckUnbindKeeps == ASSUME SetInv, AtServer, NEW t \in Jobs, CheckUnbind(t) PROVE SetInv'
<1>1. job[t].pc = "unbind" /\ job[t].at = "sent" /\ UNCHANGED <<user, binds, slips>> /\ acts' = acts
  BY DEF CheckUnbind, Stands, AtServer
<1>2. Moves(t, "refused") \/ Reads(t, "read")  BY DEF CheckUnbind
<1>3. /\ SetJobsOK' /\ (\A u \in Jobs : u # t => job'[u] = job[u])
      /\ job'[t].pc \in {"unbind", "idle"} /\ (job'[t].heard => job[t].heard) /\ job'[t].at # "done"
  <2>1. CASE Moves(t, "refused")  BY <1>1, <2>1, MovesIs, NoJobIs
  <2>2. CASE Reads(t, "read")  BY <1>1, <2>2, ReadsIs
  <2>3. QED  BY <1>2, <2>1, <2>2
<1>4. QED  BY <1>1, <1>3, ServerKeeps2 DEF ToBeRead

LEMMA NeverArrivesKeeps == ASSUME SetInv, AtServer, NEW t \in Jobs, NeverArrives(t) PROVE SetInv'
<1>1. /\ job[t].pc # "idle" /\ ~job[t].heard /\ job' = [job EXCEPT ![t] = NoJob]
      /\ UNCHANGED <<user, binds, slips>> /\ acts' = acts
  BY DEF NeverArrives, AtServer
<1>2. acts' \in Nat /\ acts <= acts' /\ FormedJob(NoJob, acts' + 1)
  <2>1. acts \in Nat  BY SetIs
  <2>2. acts' \in Nat /\ acts <= acts' /\ acts' + 1 \in Nat  BY <1>1, <2>1
  <2>3. QED  BY <2>2, NoJobFormed
<1>3. SetJobsOK' /\ job'[t] = NoJob /\ \A u \in Jobs : u # t => job'[u] = job[u]  BY <1>1, <1>2, OneJob
<1>4. QED  BY <1>1, <1>3, NoJobIs, ServerKeeps2 DEF ToBeRead

\* A change of the name or of the avatar arrives.
LEMMA PutCounts ==
  ASSUME SetInv, NEW t \in Jobs, NEW of \in {"name", "avatar"}, job[t].pc = of, job[t].at = "sent",
         user'[of] = job[t].arg, profile' = profile, Moves(t, "done"), acts' = acts,
         user[of] <= job[t].arg, OneAtATime(of), LastCounts(of), user[of] \in Nat
  PROVE  LastCounts(of)'
<1>1. /\ \A u \in Jobs : u # t => job'[u] = job[u]
      /\ job[t].heard => job'[t].pc = of /\ job'[t].at = "done" /\ job'[t].arg = job[t].arg /\ job'[t].heard
      /\ ~job[t].heard => job'[t] = NoJob
  BY MovesIs
<1>2. NoJob.pc # of /\ ~NoJob.heard  BY NoJobIs
<1>3. \A u \in Jobs : Awaits(u, of)' <=> Awaits(u, of)  BY <1>1, <1>2 DEF Awaits
<1>4. \A u \in Jobs : job'[u].pc = of => job[u].pc = of /\ job'[u].arg = job[u].arg  BY <1>1, <1>2
<1>5. job[t].arg \in Nat /\ \A u \in Jobs : job[u].arg \in Nat  BY SetIs DEF SetJobs
<1>6. CASE job[t].heard
  <2>1. Awaits(t, of) /\ \A u \in Jobs : Awaits(u, of) => u = t  BY <1>6 DEF Awaits, OneAtATime
  <2>2. \A u \in Jobs : u # t /\ job[u].pc = of => job[u].arg < job[t].arg  BY <2>1 DEF LastCounts
  <2>3. QED  BY <1>1, <1>3, <1>4, <1>6, <2>1, <2>2 DEF LastCounts
<1>7. CASE ~job[t].heard
  <2>1. ASSUME NEW v \in Jobs, Awaits(v, of)
        PROVE  /\ job'[v] = job[v] /\ job[v].at # "done"
               /\ \A u \in Jobs : u # v /\ job[u].pc = of => job[u].arg < job[v].arg
    <3>1. v # t  BY <1>7, <2>1 DEF Awaits
    <3>2. \A u \in Jobs : u # v /\ job[u].pc = of => job[u].arg < job[v].arg  BY <2>1 DEF LastCounts
    <3>3. job[t].arg < job[v].arg  BY <3>1, <3>2
    <3>4. job[v].at = "done" => user[of] = job[v].arg  BY <2>1 DEF LastCounts
    <3>5. job[v].at # "done"  BY <1>5, <3>3, <3>4
    <3>6. QED  BY <1>1, <3>1, <3>2, <3>5
  <2>2. \E v \in Jobs : Awaits(v, of)
    <3>1. SUFFICES ASSUME \A v \in Jobs : ~Awaits(v, of) PROVE FALSE  OBVIOUS
    <3>2. job[t].arg < user[of]  BY <3>1 DEF LastCounts
    <3>3. QED  BY <1>5, <3>2
  <2>3. ASSUME NEW v \in Jobs, Awaits(v, of)'
        PROVE  job'[v].at # "done" /\ \A u \in Jobs : u # v /\ job'[u].pc = of => job'[u].arg < job'[v].arg
    <3>1. Awaits(v, of)  BY <1>3, <2>3
    <3>2. QED  BY <1>4, <2>1, <3>1
  <2>4. \E v \in Jobs : Awaits(v, of)'  BY <1>3, <2>2
  <2>5. QED  BY <2>3, <2>4 DEF LastCounts
<1>8. QED  BY <1>6, <1>7

LEMMA PutNameKeeps == ASSUME SetInv, AtServer, NEW t \in Jobs, PutName(t) PROVE SetInv'
<1> DEFINE of == job[t].pc
<1>1. /\ of \in {"name", "avatar"} /\ job[t].at = "sent" /\ user' = [user EXCEPT ![of] = job[t].arg]
      /\ Moves(t, "done") /\ binds' = binds /\ slips' \in {slips, slips \cup {"crossed"}}
      /\ "crossed" \notin slips' => ~(user[of] > job[t].arg)
      /\ UNCHANGED <<set, profile, acts, aways>>
  BY DEF PutName, AtServer
<1>2. job[t].arg \in Nat /\ job[t].arg <= acts + 1 /\ user \in SetUsers /\ acts' = acts
  BY <1>1, SetIs DEF FormedJob, SetJobs
<1>3. /\ user' \in SetUsers /\ user'.phone = user.phone /\ user'.day = user.day
      /\ user'[of] = job[t].arg /\ user[of] \in Nat
      /\ user'.name \in {user.name, job[t].arg} /\ user'.avatar \in {user.avatar, job[t].arg}
      /\ \A o2 \in {"name", "avatar"} : o2 # of => user'[o2] = user[o2]
  <2>1. CASE of = "name"  BY <1>1, <1>2, <2>1 DEF SetUsers
  <2>2. CASE of = "avatar"  BY <1>1, <1>2, <2>2 DEF SetUsers
  <2>3. QED  BY <1>1, <2>1, <2>2
<1>4. /\ SetJobsOK' /\ \A u \in Jobs : u # t => job'[u] = job[u]
      /\ job[t].heard => job'[t].pc = of /\ job'[t].at = "done" /\ job'[t].arg = job[t].arg /\ job'[t].heard
      /\ ~job[t].heard => job'[t] = NoJob
  <2>1. of # "idle" /\ of # "fetch"  BY <1>1
  <2>2. QED  BY <1>1, <1>2, <2>1, MovesIs
<1>5. SetData'
  <2>1. slips' \subseteq SetSlips /\ user.phone <= acts + 1 /\ user.name <= acts + 1 /\ user.avatar <= acts + 1
        /\ binds \subseteq 2..(acts + 1)
    BY <1>1 DEF SetInv, SetData, SetSlips
  <2>2. user'.name <= acts + 1 /\ user'.avatar <= acts + 1 /\ user'.phone <= acts + 1  BY <1>2, <1>3, <2>1
  <2>3. QED  BY <1>1, <1>3, <2>1, <2>2, ServerData
<1>6. OpenWaits'
  <2>1. \A u \in Jobs : job'[u].heard => job[u].heard  BY <1>4, NoJobIs
  <2>2. QED  BY <1>1, <2>1 DEF SetInv, OpenWaits
<1>7. BindsToday' /\ ReadIsNew' /\ PhoneIsRead'
  <2>1. \A u \in Jobs : ToBeRead(u) => ToBeRead(u)'
    <3>1. ~ToBeRead(t)  BY <1>1 DEF ToBeRead
    <3>2. QED  BY <1>4, <3>1 DEF ToBeRead
  <2>2. \A u \in Jobs : job'[u].at = "done" /\ job'[u].pc \in {"fetch", "unbind"} => job'[u] = job[u]
    BY <1>1, <1>4, NoJobIs
  <2>3. QED  BY <1>1, <1>3, <2>1, <2>2, PhoneRests
<1>8. NamesInOrder'
  <2>1. \A o2 \in {"name", "avatar"} : \A u \in Jobs : Awaits(u, o2)' <=> Awaits(u, o2)
    <3>1. ~NoJob.heard  BY NoJobIs
    <3>2. QED  BY <1>4, <3>1 DEF Awaits
  <2>2. \A o2 \in {"name", "avatar"} : OneAtATime(o2) => OneAtATime(o2)'  BY <2>1 DEF OneAtATime
  <2>3. ASSUME NEW o2 \in {"name", "avatar"}, slips' \cap {"lost", "crossed", "dropped"} = {}
        PROVE  LastCounts(o2)'
    <3>1. LastCounts(o2) /\ OneAtATime(o2)  BY <1>1, <2>3 DEF SetInv, NamesInOrder
    <3>2. CASE o2 = of
      <4>1. user[of] <= job[t].arg  BY <1>1, <1>2, <1>3, <2>3
      <4> HIDE DEF of
      <4>2. job[t].pc = of  BY DEF of
      <4>3. QED  BY <1>1, <1>2, <1>3, <3>1, <3>2, <4>1, <4>2, PutCounts
    <3>3. CASE o2 # of
      <4>1. \A u \in Jobs : \/ job'[u] = job[u]
                            \/ (job[u].pc = o2 => ~job[u].heard) /\ job'[u].pc # o2
        BY <1>1, <1>4, <2>3, <3>3, NoJobIs
      <4>2. user'[o2] = user[o2] /\ profile'[o2] = profile[o2]  BY <1>1, <1>3, <3>3
      <4>3. QED  BY <3>1, <4>1, <4>2, OthersRest
    <3>4. QED  BY <3>2, <3>3
  <2>4. "dropped" \notin slips' => "dropped" \notin slips  BY <1>1
  <2>5. (set.nameToken # 0 => Awaits(set.nameToken, "name"))'
    BY <1>1, <2>1 DEF SetInv, SetData, NamesInOrder
  <2>6. (set.locked <=> \E u \in Jobs : Awaits(u, "avatar"))'  BY <1>1, <2>1 DEF SetInv, NamesInOrder
  <2>7. (set.shown => set.name = profile.name /\ set.avatar = profile.avatar)'  BY <1>1 DEF SetInv, NamesInOrder
  <2>8. (slips \cap {"lost", "crossed", "dropped"} = {} => LastCounts("name") /\ LastCounts("avatar"))'
    BY <2>3
  <2>9. ("dropped" \notin slips => OneAtATime("name"))' /\ OneAtATime("avatar")'
    BY <2>2, <2>4 DEF SetInv, NamesInOrder
  <2>10. QED  BY <2>5, <2>6, <2>7, <2>8, <2>9 DEF NamesInOrder
<1>9. QED  BY <1>4, <1>5, <1>6, <1>7, <1>8 DEF SetInv

\* The number changes: the page will read it, or it is noted.
LEMMA PhoneChanges ==
  ASSUME SetInv, AtServer, NEW t \in Jobs, NEW kind \in {"bind", "unbind"}, job[t].pc = kind,
         job[t].at = "read", Moves(t, "done"), user' \in SetUsers, user'.phone <= acts + 1,
         user'.name = user.name, user'.avatar = user.avatar, binds' \subseteq 2..(acts + 1),
         slips' \subseteq SetSlips, BindsToday', kind = "unbind" => user'.phone = 0,
         slips \subseteq slips', \A s \in {"lost", "crossed", "dropped"} : s \in slips' <=> s \in slips,
         \/ user'.phone = user.phone /\ user'.day = user.day
         \/ /\ "unheard" \in slips' \/ job[t].heard
            /\ \/ "overtaken" \in slips'
               \/ \A u \in Jobs : u # t => ~(job[u].at = "done" /\ job[u].pc \in {"fetch", "unbind"})
  PROVE  SetInv'
<1>1. UNCHANGED <<set, profile, acts, aways>> /\ acts' = acts  BY DEF AtServer
<1>2. /\ SetJobsOK' /\ \A u \in Jobs : u # t => job'[u] = job[u]
      /\ job[t].heard => job'[t].pc = kind /\ job'[t].at = "done" /\ job'[t].heard
      /\ ~job[t].heard => job'[t] = NoJob
  <2>1. job[t].pc # "idle" /\ job[t].pc # "fetch"  OBVIOUS
  <2>2. QED  BY <1>1, <2>1, MovesIs
<1>3. SetData'
  <2>1. user.name <= acts + 1 /\ user.avatar <= acts + 1  BY DEF SetInv, SetData
  <2>2. QED  BY <2>1, ServerData
<1>4. OpenWaits'
  <2>1. \A u \in Jobs : job'[u].heard => job[u].heard  BY <1>2, NoJobIs
  <2>2. QED  BY <1>1, <2>1 DEF SetInv, OpenWaits
<1>5. ReadIsNew'
  <2>1. job'[t].pc # "fetch" /\ (job'[t].at = "done" /\ job'[t].pc = "unbind" => user'.phone = 0)
    BY <1>2, NoJobIs
  <2>2. CASE user'.phone = user.phone /\ user'.day = user.day
    BY <1>2, <2>1, <2>2 DEF SetInv, ReadIsNew
  <2>3. CASE \/ "overtaken" \in slips'
             \/ \A u \in Jobs : u # t => ~(job[u].at = "done" /\ job[u].pc \in {"fetch", "unbind"})
    BY <1>2, <2>1, <2>3 DEF ReadIsNew
  <2>4. QED  BY <2>2, <2>3
<1>6. PhoneIsRead'
  <2>1. ~ToBeRead(t)  BY DEF ToBeRead
  <2>2. job[t].heard => ToBeRead(t)'  BY <1>2 DEF ToBeRead
  <2>3. \A u \in Jobs : ToBeRead(u) => ToBeRead(u)'  BY <1>2, <2>1 DEF ToBeRead
  <2>4. CASE user'.phone = user.phone /\ user'.day = user.day
    BY <1>1, <2>3, <2>4 DEF SetInv, PhoneIsRead
  <2>5. CASE "unheard" \in slips' \/ job[t].heard  BY <2>2, <2>5 DEF PhoneIsRead
  <2>6. QED  BY <2>4, <2>5
<1>7. NamesInOrder'
  <2>1. set.shown => set.name = profile.name /\ set.avatar = profile.avatar  BY DEF SetInv, NamesInOrder
  <2>2. \A u \in Jobs : \/ job'[u] = job[u]
                        \/ /\ job[u].pc \in {"name", "avatar"} => ~job[u].heard
                           /\ job'[u].pc \notin {"name", "avatar"}
    BY <1>2, NoJobIs
  <2>3. user'["name"] = user["name"] /\ user'["avatar"] = user["avatar"]  OBVIOUS
  <2>4. QED  BY <1>1, <2>1, <2>2, <2>3, NamesRest
<1>8. QED  BY <1>2, <1>3, <1>4, <1>5, <1>6, <1>7 DEF SetInv

LEMMA MissedIs ==
  ASSUME user \in SetUsers, user' \in SetUsers, NEW t \in Jobs
  PROVE  /\ Missed(t) \subseteq {"unheard", "overtaken"}
         /\ \/ user'.phone = user.phone /\ user'.day = user.day
            \/ /\ "unheard" \in Missed(t) \/ job[t].heard
               /\ \/ "overtaken" \in Missed(t)
                  \/ \A u \in Jobs : u # t => ~(job[u].at = "done" /\ job[u].pc \in {"fetch", "unbind"})
<1> DEFINE old == [user EXCEPT !.name = 0, !.avatar = 0]
           new == [user' EXCEPT !.name = 0, !.avatar = 0]
<1>1. old.phone = user.phone /\ old.day = user.day  BY DEF SetUsers
<1>2. new.phone = user'.phone /\ new.day = user'.day  BY DEF SetUsers
<1>3. Missed(t) =
        IF new = old THEN {}
        ELSE (IF job[t].heard THEN {} ELSE {"unheard"})
             \cup (IF \E u \in Jobs \ {t} : job[u].at = "done" /\ job[u].pc \in {"fetch", "unbind"}
                   THEN {"overtaken"} ELSE {})
  BY DEF Missed
<1> HIDE DEF old, new
<1>4. CASE new = old  BY <1>1, <1>2, <1>3, <1>4
<1>5. CASE new # old  BY <1>3, <1>5
<1>6. QED  BY <1>4, <1>5

LEMMA BindIfAllowedKeeps == ASSUME SetInv, AtServer, NEW t \in Jobs, BindIfAllowed(t) PROVE SetInv'
<1>1. job[t].pc = "bind" /\ job[t].at = "read" /\ acts' = acts  BY DEF BindIfAllowed, Stands, AtServer
<1>2. CASE user.day = "today"
  <2>1. Moves(t, "refused") /\ UNCHANGED <<user, binds, slips>>  BY <1>2 DEF BindIfAllowed
  <2>2. /\ SetJobsOK' /\ (\A u \in Jobs : u # t => job'[u] = job[u])
        /\ job'[t].pc \in {"bind", "idle"} /\ (job'[t].heard => job[t].heard)
    BY <1>1, <2>1, MovesIs, NoJobIs
  <2>3. QED  BY <1>1, <2>1, <2>2, ServerKeeps2 DEF ToBeRead
<1>3. CASE user.day # "today"
  <2>1. /\ Moves(t, "done") /\ binds' = binds \cup {job[t].arg}
        /\ user' = [user EXCEPT !.phone = job[t].arg, !.day = "today"] /\ slips' = slips \cup Missed(t)
    BY <1>3 DEF BindIfAllowed
  <2>2. job[t].arg \in 2..(acts + 1)
    <3>1. job[t].arg \in Nat /\ job[t].arg <= acts + 1 /\ 2 <= job[t].arg  BY <1>1, SetIs DEF FormedJob, SetJobs
    <3>2. QED  BY <3>1, SetIs
  <2>3. user \in SetUsers /\ acts \in Nat  BY SetIs
  <2>4. /\ user' \in SetUsers /\ user'.phone = job[t].arg /\ user'.day = "today"
        /\ user'.name = user.name /\ user'.avatar = user.avatar
    <3>1. job[t].arg \in Nat /\ "today" \in BindDays  BY SetIs DEF SetJobs, BindDays
    <3>2. QED  BY <2>1, <2>3, <3>1 DEF SetUsers
  <2>5. binds' \subseteq 2..(acts + 1) /\ user'.phone <= acts + 1
    BY <2>1, <2>2, <2>3, <2>4 DEF SetInv, SetData
  <2>6. Missed(t) \subseteq {"unheard", "overtaken"}  BY <2>3, <2>4, MissedIs
  <2>7. /\ slips' \subseteq SetSlips /\ slips \subseteq slips'
        /\ \A s \in {"restored", "lost", "crossed", "dropped"} : s \in slips' <=> s \in slips
    BY <2>1, <2>6 DEF SetInv, SetData, SetSlips
  <2>8. BindsToday'
    <3>1. "restored" \notin slips => binds = {}  BY <1>3 DEF SetInv, BindsToday
    <3>2. "restored" \notin slips' => binds' = {job[t].arg} /\ user'.day = "today"  BY <2>1, <2>4, <2>7, <3>1
    <3>3. QED  BY <3>2 DEF BindsToday
  <2>9. \/ user'.phone = user.phone /\ user'.day = user.day
        \/ /\ "unheard" \in slips' \/ job[t].heard
           /\ \/ "overtaken" \in slips'
              \/ \A u \in Jobs : u # t => ~(job[u].at = "done" /\ job[u].pc \in {"fetch", "unbind"})
    <3>1. Missed(t) \subseteq slips'  BY <2>1
    <3>2. QED  BY <2>3, <2>4, <3>1, MissedIs
  <2>10. PICK kind \in {"bind", "unbind"} : kind = "bind"  OBVIOUS
  <2>11. QED  BY <1>1, <2>1, <2>4, <2>5, <2>7, <2>8, <2>9, <2>10, PhoneChanges
<1>4. QED  BY <1>2, <1>3

LEMMA UpdatePhoneKeeps == ASSUME SetInv, AtServer, NEW t \in Jobs, UpdatePhone(t) PROVE SetInv'
<1> DEFINE day == job[t].read.day
<1>1. /\ job[t].pc = "unbind" /\ job[t].at = "read" /\ acts' = acts /\ Moves(t, "done") /\ binds' = binds
      /\ user' = [user EXCEPT !.phone = 0, !.day = day]
      /\ slips' = slips \cup Missed(t) \cup (IF user.day = day THEN {} ELSE {"restored"})
  BY DEF UpdatePhone, Stands, AtServer
<1>2. user \in SetUsers /\ acts \in Nat  BY SetIs
<1>3. day \in BindDays  BY SetIs DEF SetJobs
<1>4. /\ user' \in SetUsers /\ user'.phone = 0 /\ user'.day = day
      /\ user'.name = user.name /\ user'.avatar = user.avatar
  BY <1>1, <1>2, <1>3 DEF SetUsers
<1>5. binds' \subseteq 2..(acts + 1) /\ user'.phone <= acts + 1
  BY <1>1, <1>2, <1>4 DEF SetInv, SetData
<1>6. Missed(t) \subseteq {"unheard", "overtaken"}  BY <1>2, <1>4, MissedIs
<1>7. /\ slips' \subseteq SetSlips /\ slips \subseteq slips'
      /\ \A s \in {"lost", "crossed", "dropped"} : s \in slips' <=> s \in slips
  BY <1>1, <1>6 DEF SetInv, SetData, SetSlips
<1>8. BindsToday'
  <2>1. "restored" \notin slips' => "restored" \notin slips /\ user'.day = user.day  BY <1>1, <1>4
  <2>2. QED  BY <1>1, <2>1 DEF SetInv, BindsToday
<1>9. \/ user'.phone = user.phone /\ user'.day = user.day
      \/ /\ "unheard" \in slips' \/ job[t].heard
         /\ \/ "overtaken" \in slips'
            \/ \A u \in Jobs : u # t => ~(job[u].at = "done" /\ job[u].pc \in {"fetch", "unbind"})
  <2>1. Missed(t) \subseteq slips'  BY <1>1
  <2>2. QED  BY <1>2, <1>4, <2>1, MissedIs
<1>10. PICK kind \in {"bind", "unbind"} : kind = "unbind"  OBVIOUS
<1>11. QED  BY <1>1, <1>4, <1>5, <1>7, <1>8, <1>9, <1>10, PhoneChanges

-----------------------------------------------------------------------------
\* The answers.
AtPage == UNCHANGED <<user, binds, acts, aways>>

LEMMA AnswerData ==
  ASSUME SetInv, AtPage, set' \in SetPages, set'.phone <= acts + 1, \A v \in set'.late.phone : v <= acts + 1,
         set'.nameToken \in Jobs \cup {0}, set'.bindToken \in Jobs \cup {0},
         profile' \in [name : Nat, avatar : Nat], slips' \subseteq SetSlips
  PROVE  SetData'
BY DEF AtPage, SetInv, SetData

\* Who is heard belongs to an open page.
LEMMA HeardIsOpen ==
  ASSUME SetInv, AtPage, set'.open = set.open, set'.shown = set.shown, NEW t \in Jobs, job[t].heard
  PROVE  OpenWaits'
BY DEF SetInv, OpenWaits

LEMMA PutPhoneIs ==
  ASSUME NEW p \in SetPages, NEW v \in Nat
  PROVE  LET q == PutData(p, "phone", v)
         IN  /\ q \in SetPages /\ q.shown = p.shown /\ q.open = p.open /\ q.name = p.name /\ q.avatar = p.avatar
             /\ q.locked = p.locked /\ q.nameToken = p.nameToken /\ q.bindToken = p.bindToken
             /\ p.shown => q.phone = v /\ q.late.phone = p.late.phone
             /\ ~p.shown => q.phone = p.phone /\ q.late.phone = {v}
<1>1. CASE p.shown
  <2>1. PutData(p, "phone", v) = [p EXCEPT !.phone = v]  BY <1>1 DEF PutData
  <2>2. QED  BY <1>1, <2>1 DEF SetPages
<1>2. CASE ~p.shown
  <2> DEFINE l == [p.late EXCEPT !.phone = {v}]
  <2>1. PutData(p, "phone", v) = [p EXCEPT !.late = l]  BY <1>2 DEF PutData, SetPages
  <2>2. l \in SetLate /\ l.phone = {v}  BY DEF SetPages, SetLate
  <2> HIDE DEF l
  <2>3. QED  BY <1>2, <2>1, <2>2 DEF SetPages
<1>3. QED  BY <1>1, <1>2

\* Of the other fields nothing is promised while the page is hidden.
LEMMA PutCanIs ==
  ASSUME NEW p \in SetPages, NEW v \in BOOLEAN
  PROVE  LET q == PutData(p, "can", v)
         IN  /\ q \in SetPages /\ q.shown = p.shown /\ q.open = p.open /\ q.phone = p.phone
             /\ q.locked = p.locked /\ q.nameToken = p.nameToken /\ q.bindToken = p.bindToken
             /\ q.late.phone = p.late.phone /\ q.name = p.name /\ q.avatar = p.avatar
             /\ p.shown => q.can = v
<1>1. CASE p.shown
  <2>1. PutData(p, "can", v) = [p EXCEPT !.can = v]  BY <1>1 DEF PutData
  <2>2. QED  BY <1>1, <2>1 DEF SetPages
<1>2. CASE ~p.shown
  <2> DEFINE l == [p.late EXCEPT !.can = {v}]
  <2>1. PutData(p, "can", v) = [p EXCEPT !.late = l]  BY <1>2 DEF PutData, SetPages
  <2>2. l \in SetLate /\ l.phone = p.late.phone  BY DEF SetPages, SetLate
  <2> HIDE DEF l
  <2>3. QED  BY <1>2, <2>1, <2>2 DEF SetPages
<1>3. QED  BY <1>1, <1>2

LEMMA PutNameIs ==
  ASSUME NEW p \in SetPages, NEW v \in Nat
  PROVE  LET q == PutData(p, "name", v)
         IN  /\ q \in SetPages /\ q.shown = p.shown /\ q.open = p.open /\ q.phone = p.phone
             /\ q.locked = p.locked /\ q.nameToken = p.nameToken /\ q.bindToken = p.bindToken
             /\ q.late.phone = p.late.phone /\ q.can = p.can /\ q.avatar = p.avatar
             /\ p.shown => q.name = v
<1>1. CASE p.shown
  <2>1. PutData(p, "name", v) = [p EXCEPT !.name = v]  BY <1>1 DEF PutData
  <2>2. QED  BY <1>1, <2>1 DEF SetPages
<1>2. CASE ~p.shown
  <2> DEFINE l == [p.late EXCEPT !.name = {v}]
  <2>1. PutData(p, "name", v) = [p EXCEPT !.late = l]  BY <1>2 DEF PutData, SetPages
  <2>2. l \in SetLate /\ l.phone = p.late.phone  BY DEF SetPages, SetLate
  <2> HIDE DEF l
  <2>3. QED  BY <1>2, <2>1, <2>2 DEF SetPages
<1>3. QED  BY <1>1, <1>2

LEMMA PutAvatarIs ==
  ASSUME NEW p \in SetPages, NEW v \in Nat
  PROVE  LET q == PutData(p, "avatar", v)
         IN  /\ q \in SetPages /\ q.shown = p.shown /\ q.open = p.open /\ q.phone = p.phone
             /\ q.locked = p.locked /\ q.nameToken = p.nameToken /\ q.bindToken = p.bindToken
             /\ q.late.phone = p.late.phone /\ q.can = p.can /\ q.name = p.name
             /\ p.shown => q.avatar = v
<1>1. CASE p.shown
  <2>1. PutData(p, "avatar", v) = [p EXCEPT !.avatar = v]  BY <1>1 DEF PutData
  <2>2. QED  BY <1>1, <2>1 DEF SetPages
<1>2. CASE ~p.shown
  <2> DEFINE l == [p.late EXCEPT !.avatar = {v}]
  <2>1. PutData(p, "avatar", v) = [p EXCEPT !.late = l]  BY <1>2 DEF PutData, SetPages
  <2>2. l \in SetLate /\ l.phone = p.late.phone  BY DEF SetPages, SetLate
  <2> HIDE DEF l
  <2>3. QED  BY <1>2, <2>1, <2>2 DEF SetPages
<1>3. QED  BY <1>1, <1>2

LEMMA PutDrawerIs ==
  ASSUME NEW p \in SetPages
  PROVE  LET q == PutData(p, "drawer", FALSE)
         IN  /\ q \in SetPages /\ q.shown = p.shown /\ q.open = p.open /\ q.phone = p.phone
             /\ q.locked = p.locked /\ q.nameToken = p.nameToken /\ q.bindToken = p.bindToken
             /\ q.late.phone = p.late.phone /\ q.can = p.can /\ q.name = p.name /\ q.avatar = p.avatar
<1>1. CASE p.shown
  <2>1. PutData(p, "drawer", FALSE) = [p EXCEPT !.drawer = FALSE]  BY <1>1 DEF PutData
  <2>2. QED  BY <1>1, <2>1 DEF SetPages
<1>2. CASE ~p.shown
  <2> DEFINE l == [p.late EXCEPT !.drawer = {FALSE}]
  <2>1. PutData(p, "drawer", FALSE) = [p EXCEPT !.late = l]  BY <1>2 DEF PutData, SetPages
  <2>2. l \in SetLate /\ l.phone = p.late.phone  BY DEF SetPages, SetLate
  <2> HIDE DEF l
  <2>3. QED  BY <1>2, <2>1, <2>2 DEF SetPages
<1>3. QED  BY <1>1, <1>2

LEMMA PutsIs ==
  ASSUME NEW p \in SetPages, NEW r, r.phone \in Nat
  PROVE  LET q == Puts(p, r)
         IN  /\ q \in SetPages /\ q.shown = p.shown /\ q.open = p.open /\ q.name = p.name /\ q.avatar = p.avatar
             /\ q.locked = p.locked /\ q.nameToken = p.nameToken /\ q.bindToken = p.bindToken
             /\ p.shown => q.phone = r.phone /\ q.late.phone = p.late.phone /\ q.can = (r.day # "today")
             /\ ~p.shown => q.phone = p.phone /\ q.late.phone = {r.phone}
<1> DEFINE put == PutData(p, "phone", r.phone)
<1>1. /\ put \in SetPages /\ put.shown = p.shown /\ put.open = p.open /\ put.name = p.name /\ put.avatar = p.avatar
      /\ put.locked = p.locked /\ put.nameToken = p.nameToken /\ put.bindToken = p.bindToken
      /\ p.shown => put.phone = r.phone /\ put.late.phone = p.late.phone
      /\ ~p.shown => put.phone = p.phone /\ put.late.phone = {r.phone}
  BY PutPhoneIs
<1> DEFINE q == Puts(p, r)
<1> HIDE DEF put
<1>2. PICK ok \in BOOLEAN : ok = (r.day # "today")  OBVIOUS
<1>3. q = PutData(put, "can", ok)  BY <1>2 DEF Puts, put
<1>4. put \in SetPages  BY <1>1
<1> HIDE DEF q
<1>5. /\ q \in SetPages /\ q.shown = put.shown /\ q.open = put.open /\ q.phone = put.phone
      /\ q.locked = put.locked /\ q.nameToken = put.nameToken /\ q.bindToken = put.bindToken
      /\ q.late.phone = put.late.phone /\ q.name = put.name /\ q.avatar = put.avatar
      /\ put.shown => q.can = ok
  BY <1>3, <1>4, PutCanIs
<1>6. QED  BY <1>1, <1>2, <1>5 DEF q

\* An answer about the phone.
LEMMA PhoneAnswered ==
  ASSUME SetInv, AtPage, profile' = profile, NEW t \in Jobs, job[t].heard, job[t].pc \in {"fetch", "bind", "unbind"},
         SetJobsOK', \A u \in Jobs : u # t => job'[u] = job[u],
         job'[t].pc \notin {"name", "avatar"}, job'[t].at # "done",
         set' \in SetPages, set'.open = set.open, set'.shown = set.shown, set'.name = set.name,
         set'.avatar = set.avatar, set'.locked = set.locked, set'.nameToken = set.nameToken,
         set'.bindToken \in Jobs \cup {0}, set'.phone <= acts + 1, \A v \in set'.late.phone : v <= acts + 1,
         slips' \subseteq SetSlips,
         \A s \in {"restored", "overtaken", "lost", "crossed", "dropped"} : s \in slips' <=> s \in slips,
         PhoneIsRead'
  PROVE  SetInv'
<1>1. UNCHANGED <<user, binds, acts, aways>>  BY DEF AtPage
<1>2. SetData'
  <2>1. set'.nameToken \in Jobs \cup {0} /\ profile' \in [name : Nat, avatar : Nat]  BY DEF SetInv, SetData
  <2>2. QED  BY <2>1, AnswerData
<1>3. OpenWaits'  BY HeardIsOpen
<1>4. BindsToday'  BY <1>1 DEF SetInv, BindsToday
<1>5. ReadIsNew'  BY <1>1 DEF SetInv, ReadIsNew
<1>6. NamesInOrder'
  <2>1. set.shown => set.name = profile.name /\ set.avatar = profile.avatar  BY DEF SetInv, NamesInOrder
  <2>2. \A u \in Jobs : \/ job'[u] = job[u]
                        \/ /\ job[u].pc \in {"name", "avatar"} => ~job[u].heard
                           /\ job'[u].pc \notin {"name", "avatar"}
    OBVIOUS
  <2>3. user'["name"] = user["name"] /\ user'["avatar"] = user["avatar"]  BY <1>1
  <2>4. QED  BY <1>1, <2>1, <2>2, <2>3, NamesRest
<1>7. QED  BY <1>2, <1>3, <1>4, <1>5, <1>6 DEF SetInv

LEMMA ForgetIs ==
  ASSUME SetInv, NEW t \in Jobs, Forget(t), acts' = acts
  PROVE  SetJobsOK' /\ job'[t] = NoJob /\ \A u \in Jobs : u # t => job'[u] = job[u]
<1>1. acts' \in Nat /\ acts <= acts' /\ acts' + 1 \in Nat
  <2>1. acts \in Nat  BY SetIs
  <2>2. QED  BY <2>1
<1>2. FormedJob(NoJob, acts' + 1)  BY <1>1, NoJobFormed
<1>3. QED  BY <1>1, <1>2, OneJob DEF Forget

LEMMA PhoneFetchedKeeps == ASSUME SetInv, AtPage, NEW t \in Jobs, PhoneFetched(t) PROVE SetInv'
<1> DEFINE p == IF job[t].chained THEN [set EXCEPT !.bindToken = 0] ELSE set
           r == job[t].read
<1>1. /\ job[t].pc = "fetch" /\ job[t].heard /\ Forget(t) /\ profile' = profile
      /\ \/ Fulfilled(t) /\ set' = Puts(p, r) /\ slips' = slips \ {"failed", "unlocked", "unheard"}
         \/ set' = p /\ slips' = slips \cup {"failed"}
  BY DEF PhoneFetched, Awaits
<1>2. UNCHANGED <<user, binds, acts, aways>>  BY DEF AtPage
<1>3. SetJobsOK' /\ job'[t] = NoJob /\ \A u \in Jobs : u # t => job'[u] = job[u]  BY <1>1, <1>2, ForgetIs
<1>4. job'[t].pc \notin {"name", "avatar"} /\ job'[t].at # "done"  BY <1>3, NoJobIs
<1>5. /\ p \in SetPages /\ p.open = set.open /\ p.shown = set.shown /\ p.name = set.name /\ p.avatar = set.avatar
      /\ p.locked = set.locked /\ p.nameToken = set.nameToken /\ p.bindToken \in {set.bindToken, 0}
      /\ p.phone = set.phone /\ p.late = set.late
  BY SetIs DEF SetPages
<1>6. r.phone \in Nat /\ r.phone <= acts + 1  BY SetIs DEF FormedJob, SetJobs
<1>7. set.phone <= acts + 1 /\ (\A v \in set.late.phone : v <= acts + 1) /\ p.bindToken \in Jobs \cup {0}
  BY <1>5 DEF SetInv, SetData
<1> HIDE DEF p
<1>8. CASE Fulfilled(t) /\ set' = Puts(p, r) /\ slips' = slips \ {"failed", "unlocked", "unheard"}
  <2>1. /\ set' \in SetPages /\ set'.shown = p.shown /\ set'.open = p.open /\ set'.name = p.name
        /\ set'.avatar = p.avatar /\ set'.locked = p.locked /\ set'.nameToken = p.nameToken
        /\ set'.bindToken = p.bindToken
        /\ p.shown => set'.phone = r.phone /\ set'.late.phone = p.late.phone /\ set'.can = (r.day # "today")
        /\ ~p.shown => set'.phone = p.phone /\ set'.late.phone = {r.phone}
    <3>1. p \in SetPages /\ r.phone \in Nat /\ set' = Puts(p, r)  BY <1>5, <1>6, <1>8
    <3> HIDE DEF r
    <3>2. QED  BY <3>1, PutsIs
  <2>2. set'.phone <= acts + 1 /\ \A v \in set'.late.phone : v <= acts + 1
    BY <1>5, <1>6, <1>7, <2>1
  <2>3. slips' \subseteq SetSlips
        /\ \A s \in {"restored", "overtaken", "lost", "crossed", "dropped"} : s \in slips' <=> s \in slips
    BY <1>8 DEF SetInv, SetData
  <2>4. PhoneIsRead'
    <3>1. "overtaken" \notin slips' => r.phone = user.phone /\ r.day = user.day
      BY <1>1, <1>8, <2>3 DEF SetInv, ReadIsNew, Fulfilled
    <3>2. QED  BY <1>2, <2>1, <3>1 DEF PhoneIsRead
  <2> HIDE DEF r
  <2>5. QED  BY <1>1, <1>3, <1>4, <1>5, <1>7, <2>1, <2>2, <2>3, <2>4, PhoneAnswered
<1>9. CASE set' = p /\ slips' = slips \cup {"failed"}
  <2>1. slips' \subseteq SetSlips
        /\ \A s \in {"restored", "overtaken", "lost", "crossed", "dropped"} : s \in slips' <=> s \in slips
    BY <1>9 DEF SetInv, SetData, SetSlips
  <2>2. PhoneIsRead'  BY <1>9 DEF PhoneIsRead
  <2>3. QED  BY <1>1, <1>3, <1>4, <1>5, <1>7, <1>9, <2>1, <2>2, PhoneAnswered
<1>10. QED  BY <1>1, <1>8, <1>9

LEMMA BindEndsKeeps == ASSUME SetInv, AtPage, NEW t \in Jobs, BindEnds(t) PROVE SetInv'
<1>1. job[t].pc = "bind" /\ job[t].heard /\ profile' = profile  BY DEF BindEnds, Awaits
<1>2. UNCHANGED <<user, binds, acts, aways>>  BY DEF AtPage
<1>3. set \in SetPages /\ set.phone <= acts + 1 /\ (\A v \in set.late.phone : v <= acts + 1)
      /\ set.bindToken \in Jobs \cup {0} /\ slips \subseteq SetSlips
  BY DEF SetInv, SetData
<1>4. CASE /\ Fulfilled(t) /\ UNCHANGED <<set, slips>>
           /\ job' = [job EXCEPT ![t] = [NewJob("fetch", 0) EXCEPT !.chained = TRUE]]
  <2> DEFINE new == NewJob("fetch", 0)
             j == [new EXCEPT !.chained = TRUE]
  <2>1. new \in SetJobs /\ new.pc = "fetch" /\ new.at = "sent" /\ new.arg = 0 /\ new.heard /\ new.read.phone = 0
    <3>1. 0 \in Nat  OBVIOUS
    <3>2. QED  BY <3>1, NewJobIs
  <2> HIDE DEF new
  <2>2. j \in SetJobs /\ j.pc = "fetch" /\ j.at = "sent" /\ j.arg = 0 /\ j.heard /\ j.read.phone = 0
    BY <2>1 DEF SetJobs
  <2>3. job' = [job EXCEPT ![t] = j]  BY <1>4 DEF new
  <2> HIDE DEF j
  <2>4. acts' \in Nat /\ acts <= acts' /\ 0 <= acts' + 1
    <3>1. acts \in Nat  BY SetIs
    <3>2. QED  BY <1>2, <3>1
  <2>5. FormedJob(j, acts' + 1)
    <3>1. j.arg <= acts' + 1 /\ j.read.phone <= acts' + 1  BY <2>2, <2>4
    <3>2. j.pc # "idle" /\ j.pc # "bind" /\ j.heard  BY <2>2
    <3>3. QED  BY <2>2, <3>1, <3>2 DEF FormedJob
  <2>6. SetJobsOK' /\ job'[t] = j /\ \A u \in Jobs : u # t => job'[u] = job[u]  BY <2>3, <2>4, <2>5, OneJob
  <2>7. PhoneIsRead'  BY <2>2, <2>6 DEF PhoneIsRead, ToBeRead
  <2>8. QED  BY <1>1, <1>3, <1>4, <2>2, <2>6, <2>7, PhoneAnswered
<1>5. CASE /\ Breaks(t) /\ set' = [set EXCEPT !.bindToken = 0]
           /\ slips' = IF job[t].at = "refused" THEN slips ELSE slips \cup {"failed"}
  <2>1. /\ SetJobsOK' /\ (\A u \in Jobs : u # t => job'[u] = job[u])
        /\ ~job'[t].heard /\ job'[t].pc \in {"idle", "bind"}
    BY <1>1, <1>2, <1>5, BreaksIs
  <2>2. job'[t].at # "done"  BY <2>1 DEF SetJobsOK, FormedJob
  <2>3. /\ set' \in SetPages /\ set'.open = set.open /\ set'.shown = set.shown /\ set'.name = set.name
        /\ set'.avatar = set.avatar /\ set'.locked = set.locked /\ set'.nameToken = set.nameToken
        /\ set'.bindToken = 0 /\ set'.phone = set.phone /\ set'.late = set.late /\ set'.can = set.can
    BY <1>3, <1>5 DEF SetPages
  <2>4. slips' \subseteq SetSlips
        /\ \A s \in {"restored", "overtaken", "lost", "crossed", "dropped"} : s \in slips' <=> s \in slips
    BY <1>3, <1>5 DEF SetSlips
  <2>5. PhoneIsRead'
    <3>1. CASE job[t].at = "refused"
      <4>1. ~ToBeRead(t)  BY <1>1, <3>1 DEF ToBeRead
      <4>2. \A u \in Jobs : ToBeRead(u) => ToBeRead(u)'  BY <2>1, <4>1 DEF ToBeRead
      <4>3. QED  BY <1>2, <1>5, <2>3, <3>1, <4>2 DEF SetInv, PhoneIsRead
    <3>2. CASE job[t].at # "refused"  BY <1>5, <3>2 DEF PhoneIsRead
    <3>3. QED  BY <3>1, <3>2
  <2>6. QED  BY <1>1, <1>3, <2>1, <2>2, <2>3, <2>4, <2>5, PhoneAnswered
<1>6. QED  BY <1>4, <1>5 DEF BindEnds

LEMMA UnbindEndsKeeps == ASSUME SetInv, AtPage, NEW t \in Jobs, UnbindEnds(t) PROVE SetInv'
<1>1. job[t].pc = "unbind" /\ job[t].heard /\ profile' = profile  BY DEF UnbindEnds, Awaits
<1>2. UNCHANGED <<user, binds, acts, aways>>  BY DEF AtPage
<1>3. set \in SetPages /\ set.phone <= acts + 1 /\ (\A v \in set.late.phone : v <= acts + 1)
      /\ set.bindToken \in Jobs \cup {0} /\ slips \subseteq SetSlips /\ acts \in Nat
  BY SetIs DEF SetInv, SetData
<1> DEFINE r == [phone |-> 0, day |-> "never"]
<1>4. CASE /\ Fulfilled(t) /\ Forget(t) /\ set' = Puts(set, r)
           /\ slips' = slips \cup (IF user.day = "today" THEN {"unlocked"} ELSE {})
  <2>1. SetJobsOK' /\ job'[t] = NoJob /\ \A u \in Jobs : u # t => job'[u] = job[u]  BY <1>2, <1>4, ForgetIs
  <2>2. job'[t].pc \notin {"name", "avatar"} /\ job'[t].at # "done"  BY <2>1, NoJobIs
  <2>3. r.phone = 0 /\ r.phone \in Nat /\ r.day = "never"  OBVIOUS
  <2> HIDE DEF r
  <2>4. /\ set' \in SetPages /\ set'.shown = set.shown /\ set'.open = set.open /\ set'.name = set.name
        /\ set'.avatar = set.avatar /\ set'.locked = set.locked /\ set'.nameToken = set.nameToken
        /\ set'.bindToken = set.bindToken
        /\ set.shown => set'.phone = r.phone /\ set'.late.phone = set.late.phone /\ set'.can = (r.day # "today")
        /\ ~set.shown => set'.phone = set.phone /\ set'.late.phone = {r.phone}
    <3>1. set \in SetPages /\ r.phone \in Nat /\ set' = Puts(set, r)  BY <1>3, <1>4, <2>3
    <3>2. QED  BY <3>1, PutsIs
  <2>5. set'.phone <= acts + 1 /\ \A v \in set'.late.phone : v <= acts + 1
    BY <1>3, <2>3, <2>4
  <2>6. slips' \subseteq SetSlips
        /\ \A s \in {"restored", "overtaken", "lost", "crossed", "dropped"} : s \in slips' <=> s \in slips
    BY <1>3, <1>4 DEF SetSlips
  <2>7. PhoneIsRead'
    <3>1. "overtaken" \notin slips' => user.phone = 0
      BY <1>1, <1>4, <2>6 DEF SetInv, ReadIsNew, Fulfilled
    <3>2. "unlocked" \notin slips' => user.day # "today"  BY <1>4
    <3>3. QED  BY <1>2, <2>3, <2>4, <3>1, <3>2 DEF PhoneIsRead
  <2>8. QED  BY <1>1, <1>3, <2>1, <2>2, <2>4, <2>5, <2>6, <2>7, PhoneAnswered
<1>5. CASE Breaks(t) /\ UNCHANGED set /\ slips' = slips \cup {"failed"}
  <2>1. /\ SetJobsOK' /\ (\A u \in Jobs : u # t => job'[u] = job[u])
        /\ ~job'[t].heard /\ job'[t].pc \in {"idle", "unbind"}
    BY <1>1, <1>2, <1>5, BreaksIs
  <2>2. job'[t].at # "done"  BY <2>1 DEF SetJobsOK, FormedJob
  <2>3. slips' \subseteq SetSlips
        /\ \A s \in {"restored", "overtaken", "lost", "crossed", "dropped"} : s \in slips' <=> s \in slips
    BY <1>3, <1>5 DEF SetSlips
  <2>4. PhoneIsRead'  BY <1>5 DEF PhoneIsRead
  <2>5. QED  BY <1>1, <1>3, <1>5, <2>1, <2>2, <2>3, <2>4, PhoneAnswered
<1>6. QED  BY <1>4, <1>5 DEF UnbindEnds

\* The end of a change of the name, or of the avatar.
LEMMA EndCounts ==
  ASSUME NEW of \in {"name", "avatar"}, NEW t \in Jobs, job[t].pc = of, job[t].heard, job[t].at = "done",
         OneAtATime(of), LastCounts(of), user'[of] = user[of], profile'[of] = job[t].arg,
         job'[t] = NoJob, \A u \in Jobs : u # t => job'[u] = job[u]
  PROVE  LastCounts(of)'
<1>1. Awaits(t, of) /\ \A u \in Jobs : Awaits(u, of) => u = t  BY DEF Awaits, OneAtATime
<1>2. user[of] = job[t].arg /\ \A u \in Jobs : u # t /\ job[u].pc = of => job[u].arg < job[t].arg
  BY <1>1 DEF LastCounts
<1>3. \A u \in Jobs : ~Awaits(u, of)'  BY <1>1, NoJobIs DEF Awaits
<1>4. \A u \in Jobs : job'[u].pc = of => job[u].pc = of /\ u # t /\ job'[u].arg = job[u].arg  BY NoJobIs
<1>5. QED  BY <1>2, <1>3, <1>4 DEF LastCounts

LEMMA NameAnswered ==
  ASSUME SetInv, AtPage, NEW of \in {"name", "avatar"}, NEW t \in Jobs, job[t].pc = of, job[t].heard,
         SetJobsOK', \A u \in Jobs : u # t => job'[u] = job[u],
         ~job'[t].heard, job'[t].pc \in {of, "idle"},
         set' \in SetPages, set'.open = set.open, set'.shown = set.shown, set'.phone = set.phone,
         set'.can = set.can, set'.late.phone = set.late.phone, set'.bindToken = set.bindToken,
         set'.nameToken = (IF of = "name" THEN 0 ELSE set.nameToken),
         set'.locked = (IF of = "avatar" THEN FALSE ELSE set.locked),
         profile' \in [name : Nat, avatar : Nat], \A o2 \in {"name", "avatar"} : o2 # of => profile'[o2] = profile[o2],
         set.shown => set'.name = profile'.name /\ set'.avatar = profile'.avatar,
         \/ job[t].at = "done" /\ job'[t] = NoJob /\ profile'[of] = job[t].arg /\ slips' = slips
         \/ slips' = slips \cup {"lost"}
  PROVE  SetInv'
<1>1. UNCHANGED <<user, binds, acts, aways>>  BY DEF AtPage
<1>2. SetData'
  <2>1. slips' \subseteq SetSlips /\ set'.nameToken \in Jobs \cup {0} /\ set'.bindToken \in Jobs \cup {0}
    BY DEF SetInv, SetData, SetSlips
  <2>2. set'.phone <= acts + 1 /\ \A v \in set'.late.phone : v <= acts + 1  BY DEF SetInv, SetData
  <2>3. QED  BY <2>1, <2>2, AnswerData
<1>3. OpenWaits'  BY HeardIsOpen
<1>4. BindsToday' /\ ReadIsNew' /\ PhoneIsRead'
  <2>1. ~ToBeRead(t)  BY DEF ToBeRead
  <2>2. \A u \in Jobs : ToBeRead(u) => ToBeRead(u)'  BY <2>1 DEF ToBeRead
  <2>3. \A u \in Jobs : job'[u].at = "done" /\ job'[u].pc \in {"fetch", "unbind"} => job'[u] = job[u]
    OBVIOUS
  <2>4. \A s \in {"restored", "failed", "unheard", "overtaken", "unlocked"} : s \in slips' <=> s \in slips
    OBVIOUS
  <2>5. QED  BY <1>1, <2>2, <2>3, <2>4, PhoneRests
<1>5. NamesInOrder'
  <2>1. \A o2 \in {"name", "avatar"} : o2 # of =>
          /\ \A u \in Jobs : Awaits(u, o2)' <=> Awaits(u, o2)
          /\ OneAtATime(o2) => OneAtATime(o2)'
          /\ LastCounts(o2) => LastCounts(o2)'
    <3> SUFFICES ASSUME NEW o2 \in {"name", "avatar"}, o2 # of
                 PROVE  /\ \A u \in Jobs : Awaits(u, o2)' <=> Awaits(u, o2)
                        /\ OneAtATime(o2) => OneAtATime(o2)'
                        /\ LastCounts(o2) => LastCounts(o2)'
      OBVIOUS
    <3>1. \A u \in Jobs : \/ job'[u] = job[u]
                          \/ (job[u].pc = o2 => ~job[u].heard) /\ job'[u].pc # o2
      OBVIOUS
    <3>2. user'[o2] = user[o2] /\ profile'[o2] = profile[o2]  BY <1>1
    <3>3. QED  BY <3>1, <3>2, OthersRest
  <2>2. \A u \in Jobs : Awaits(u, of)' => Awaits(u, of) /\ u # t  BY DEF Awaits
  <2>3. OneAtATime(of) => OneAtATime(of)' /\ \A u \in Jobs : ~Awaits(u, of)'
    <3>1. Awaits(t, of)  BY DEF Awaits
    <3>2. QED  BY <2>2, <3>1 DEF OneAtATime
  <2>4. slips' \cap {"lost", "crossed", "dropped"} = {} => LastCounts(of)'
    <3> SUFFICES ASSUME slips' \cap {"lost", "crossed", "dropped"} = {} PROVE LastCounts(of)'  OBVIOUS
    <3>1. job[t].at = "done" /\ job'[t] = NoJob /\ profile'[of] = job[t].arg /\ slips' = slips  OBVIOUS
    <3>2. LastCounts(of) /\ OneAtATime(of)  BY <3>1 DEF SetInv, NamesInOrder
    <3>3. user'[of] = user[of]  BY <1>1
    <3>4. QED  BY <3>1, <3>2, <3>3, EndCounts
  <2>5. "dropped" \notin slips' => "dropped" \notin slips  OBVIOUS
  <2>6. slips' \cap {"lost", "crossed", "dropped"} = {} => slips \cap {"lost", "crossed", "dropped"} = {}
    OBVIOUS
  <2>7. CASE of = "name"
    <3>1. /\ \A u \in Jobs : Awaits(u, "avatar")' <=> Awaits(u, "avatar")
          /\ OneAtATime("avatar") => OneAtATime("avatar")'
          /\ LastCounts("avatar") => LastCounts("avatar")'
      BY <2>1, <2>7
    <3>2. OneAtATime("name") => OneAtATime("name")'  BY <2>3, <2>7
    <3>3. set'.nameToken = 0 /\ set'.locked = set.locked  BY <2>7
    <3>4. slips' \cap {"lost", "crossed", "dropped"} = {} => LastCounts("name")'  BY <2>4, <2>7
    <3>5. QED  BY <2>5, <2>6, <3>1, <3>2, <3>3, <3>4 DEF SetInv, NamesInOrder
  <2>8. CASE of = "avatar"
    <3>1. /\ \A u \in Jobs : Awaits(u, "name")' <=> Awaits(u, "name")
          /\ OneAtATime("name") => OneAtATime("name")'
          /\ LastCounts("name") => LastCounts("name")'
      BY <2>1, <2>8
    <3>2. OneAtATime("avatar")' /\ \A u \in Jobs : ~Awaits(u, "avatar")'  BY <2>3, <2>8 DEF SetInv, NamesInOrder
    <3>3. set'.nameToken = set.nameToken /\ ~set'.locked  BY <2>8
    <3>4. slips' \cap {"lost", "crossed", "dropped"} = {} => LastCounts("avatar")'  BY <2>4, <2>8
    <3>5. (set.nameToken # 0 => Awaits(set.nameToken, "name"))'
      BY <3>1, <3>3 DEF SetInv, SetData, NamesInOrder
    <3>6. QED  BY <2>5, <2>6, <3>1, <3>2, <3>3, <3>4, <3>5 DEF SetInv, NamesInOrder
  <2>9. QED  BY <2>7, <2>8
<1>6. QED  BY <1>2, <1>3, <1>4, <1>5 DEF SetInv

LEMMA NicknameEndsKeeps == ASSUME SetInv, AtPage, NEW t \in Jobs, NicknameEnds(t) PROVE SetInv'
<1> DEFINE p == [set EXCEPT !.nameToken = 0]
           arg == job[t].arg
<1>1. job[t].pc = "name" /\ job[t].heard  BY DEF NicknameEnds, Awaits
<1>2. \/ /\ Fulfilled(t) /\ Forget(t) /\ profile' = [profile EXCEPT !.name = arg]
         /\ set' = PutData(PutData(p, "name", arg), "drawer", FALSE) /\ slips' = slips
      \/ Breaks(t) /\ set' = p /\ profile' = profile /\ slips' = slips \cup {"lost"}
  BY DEF NicknameEnds
<1>3. UNCHANGED <<user, binds, acts, aways>>  BY DEF AtPage
<1>4. /\ p \in SetPages /\ p.open = set.open /\ p.shown = set.shown /\ p.name = set.name /\ p.avatar = set.avatar
      /\ p.locked = set.locked /\ p.nameToken = 0 /\ p.bindToken = set.bindToken
      /\ p.phone = set.phone /\ p.late = set.late /\ p.can = set.can
  BY SetIs DEF SetPages
<1>5. arg \in Nat /\ profile \in [name : Nat, avatar : Nat]
      /\ (set.shown => set.name = profile.name /\ set.avatar = profile.avatar)
  BY SetIs DEF SetJobs, SetInv, NamesInOrder
<1>6. PICK of \in {"name", "avatar"} : of = "name"  OBVIOUS
<1> HIDE DEF p
<1>7. CASE /\ Fulfilled(t) /\ Forget(t) /\ profile' = [profile EXCEPT !.name = arg]
           /\ set' = PutData(PutData(p, "name", arg), "drawer", FALSE) /\ slips' = slips
  <2>1. SetJobsOK' /\ job'[t] = NoJob /\ \A u \in Jobs : u # t => job'[u] = job[u]  BY <1>3, <1>7, ForgetIs
  <2>2. job[t].at = "done"  BY <1>7 DEF Fulfilled
  <2>0. p \in SetPages /\ arg \in Nat  BY <1>4, <1>5
  <2> DEFINE q == PutData(p, "name", arg)
  <2>3. /\ q \in SetPages /\ q.shown = p.shown /\ q.open = p.open /\ q.phone = p.phone
        /\ q.locked = p.locked /\ q.nameToken = p.nameToken /\ q.bindToken = p.bindToken
        /\ q.late.phone = p.late.phone /\ q.can = p.can /\ q.avatar = p.avatar
        /\ p.shown => q.name = arg
    <3> HIDE DEF arg
    <3>1. QED  BY <2>0, PutNameIs
  <2> HIDE DEF q
  <2>4. set' = PutData(q, "drawer", FALSE)  BY <1>7 DEF q
  <2>5. /\ set' \in SetPages /\ set'.shown = q.shown /\ set'.open = q.open /\ set'.phone = q.phone
        /\ set'.locked = q.locked /\ set'.nameToken = q.nameToken /\ set'.bindToken = q.bindToken
        /\ set'.late.phone = q.late.phone /\ set'.can = q.can /\ set'.name = q.name /\ set'.avatar = q.avatar
    BY <2>3, <2>4, PutDrawerIs
  <2>6. profile' \in [name : Nat, avatar : Nat] /\ profile'.name = arg /\ profile'.avatar = profile.avatar
    BY <1>5, <1>7
  <2>7. set.shown => set'.name = profile'.name /\ set'.avatar = profile'.avatar  BY <1>4, <1>5, <2>3, <2>5, <2>6
  <2>8. /\ set' \in SetPages /\ set'.open = set.open /\ set'.shown = set.shown /\ set'.phone = set.phone
        /\ set'.can = set.can /\ set'.late.phone = set.late.phone /\ set'.bindToken = set.bindToken
        /\ set'.nameToken = (IF of = "name" THEN 0 ELSE set.nameToken)
        /\ set'.locked = (IF of = "avatar" THEN FALSE ELSE set.locked)
    BY <1>4, <1>6, <2>3, <2>5
  <2>9. /\ \A o2 \in {"name", "avatar"} : o2 # of => profile'[o2] = profile[o2]
        /\ profile'[of] = job[t].arg
    BY <1>6, <2>6
  <2>10. job[t].pc = of /\ ~job'[t].heard /\ job'[t].pc \in {of, "idle"}  BY <1>1, <1>6, <2>1, NoJobIs
  <2>11. QED  BY <1>1, <1>7, <2>1, <2>2, <2>6, <2>7, <2>8, <2>9, <2>10, NameAnswered
<1>8. CASE Breaks(t) /\ set' = p /\ profile' = profile /\ slips' = slips \cup {"lost"}
  <2>1. /\ SetJobsOK' /\ (\A u \in Jobs : u # t => job'[u] = job[u])
        /\ ~job'[t].heard /\ job'[t].pc \in {of, "idle"} /\ job[t].pc = of
    BY <1>1, <1>3, <1>6, <1>8, BreaksIs
  <2>2. set.shown => set'.name = profile'.name /\ set'.avatar = profile'.avatar  BY <1>4, <1>5, <1>8
  <2>3. /\ set' \in SetPages /\ set'.open = set.open /\ set'.shown = set.shown /\ set'.phone = set.phone
        /\ set'.can = set.can /\ set'.late.phone = set.late.phone /\ set'.bindToken = set.bindToken
        /\ set'.nameToken = (IF of = "name" THEN 0 ELSE set.nameToken)
        /\ set'.locked = (IF of = "avatar" THEN FALSE ELSE set.locked)
    BY <1>4, <1>6, <1>8
  <2>4. profile' \in [name : Nat, avatar : Nat] /\ \A o2 \in {"name", "avatar"} : o2 # of => profile'[o2] = profile[o2]
    BY <1>5, <1>8
  <2>5. QED  BY <1>1, <1>8, <2>1, <2>2, <2>3, <2>4, NameAnswered
<1>9. QED  BY <1>2, <1>7, <1>8

LEMMA AvatarEndsKeeps == ASSUME SetInv, AtPage, NEW t \in Jobs, AvatarEnds(t) PROVE SetInv'
<1> DEFINE p == [set EXCEPT !.locked = FALSE]
           arg == job[t].arg
<1>1. job[t].pc = "avatar" /\ job[t].heard  BY DEF AvatarEnds, Awaits
<1>2. \/ /\ Fulfilled(t) /\ Forget(t) /\ profile' = [profile EXCEPT !.avatar = arg]
         /\ set' = PutData(p, "avatar", arg) /\ slips' = slips
      \/ Breaks(t) /\ set' = p /\ profile' = profile /\ slips' = slips \cup {"lost"}
  BY DEF AvatarEnds
<1>3. UNCHANGED <<user, binds, acts, aways>>  BY DEF AtPage
<1>4. /\ p \in SetPages /\ p.open = set.open /\ p.shown = set.shown /\ p.name = set.name /\ p.avatar = set.avatar
      /\ p.locked = FALSE /\ p.nameToken = set.nameToken /\ p.bindToken = set.bindToken
      /\ p.phone = set.phone /\ p.late = set.late /\ p.can = set.can
  BY SetIs DEF SetPages
<1>5. arg \in Nat /\ profile \in [name : Nat, avatar : Nat]
      /\ (set.shown => set.name = profile.name /\ set.avatar = profile.avatar)
  BY SetIs DEF SetJobs, SetInv, NamesInOrder
<1>6. PICK of \in {"name", "avatar"} : of = "avatar"  OBVIOUS
<1> HIDE DEF p
<1>7. CASE /\ Fulfilled(t) /\ Forget(t) /\ profile' = [profile EXCEPT !.avatar = arg]
           /\ set' = PutData(p, "avatar", arg) /\ slips' = slips
  <2>1. SetJobsOK' /\ job'[t] = NoJob /\ \A u \in Jobs : u # t => job'[u] = job[u]  BY <1>3, <1>7, ForgetIs
  <2>2. job[t].at = "done"  BY <1>7 DEF Fulfilled
  <2>5. /\ set' \in SetPages /\ set'.shown = p.shown /\ set'.open = p.open /\ set'.phone = p.phone
        /\ set'.locked = p.locked /\ set'.nameToken = p.nameToken /\ set'.bindToken = p.bindToken
        /\ set'.late.phone = p.late.phone /\ set'.can = p.can /\ set'.name = p.name
        /\ p.shown => set'.avatar = arg
    BY <1>4, <1>5, <1>7, PutAvatarIs
  <2>6. profile' \in [name : Nat, avatar : Nat] /\ profile'.avatar = arg /\ profile'.name = profile.name
    BY <1>5, <1>7
  <2>7. set.shown => set'.name = profile'.name /\ set'.avatar = profile'.avatar  BY <1>4, <1>5, <2>5, <2>6
  <2>8. /\ set' \in SetPages /\ set'.open = set.open /\ set'.shown = set.shown /\ set'.phone = set.phone
        /\ set'.can = set.can /\ set'.late.phone = set.late.phone /\ set'.bindToken = set.bindToken
        /\ set'.nameToken = (IF of = "name" THEN 0 ELSE set.nameToken)
        /\ set'.locked = (IF of = "avatar" THEN FALSE ELSE set.locked)
    BY <1>4, <1>6, <2>5
  <2>9. /\ \A o2 \in {"name", "avatar"} : o2 # of => profile'[o2] = profile[o2]
        /\ profile'[of] = job[t].arg
    BY <1>6, <2>6
  <2>10. job[t].pc = of /\ ~job'[t].heard /\ job'[t].pc \in {of, "idle"}  BY <1>1, <1>6, <2>1, NoJobIs
  <2>11. QED  BY <1>1, <1>7, <2>1, <2>2, <2>6, <2>7, <2>8, <2>9, <2>10, NameAnswered
<1>8. CASE Breaks(t) /\ set' = p /\ profile' = profile /\ slips' = slips \cup {"lost"}
  <2>1. /\ SetJobsOK' /\ (\A u \in Jobs : u # t => job'[u] = job[u])
        /\ ~job'[t].heard /\ job'[t].pc \in {of, "idle"} /\ job[t].pc = of
    BY <1>1, <1>3, <1>6, <1>8, BreaksIs
  <2>2. set.shown => set'.name = profile'.name /\ set'.avatar = profile'.avatar  BY <1>4, <1>5, <1>8
  <2>3. /\ set' \in SetPages /\ set'.open = set.open /\ set'.shown = set.shown /\ set'.phone = set.phone
        /\ set'.can = set.can /\ set'.late.phone = set.late.phone /\ set'.bindToken = set.bindToken
        /\ set'.nameToken = (IF of = "name" THEN 0 ELSE set.nameToken)
        /\ set'.locked = (IF of = "avatar" THEN FALSE ELSE set.locked)
    BY <1>4, <1>6, <1>8
  <2>4. profile' \in [name : Nat, avatar : Nat] /\ \A o2 \in {"name", "avatar"} : o2 # of => profile'[o2] = profile[o2]
    BY <1>5, <1>8
  <2>5. QED  BY <1>1, <1>8, <2>1, <2>2, <2>3, <2>4, NameAnswered
<1>9. QED  BY <1>2, <1>7, <1>8

-----------------------------------------------------------------------------
\* Every step keeps it.
LEMMA SetStutters == SetInv /\ UNCHANGED setVars => SetInv'
<1> SUFFICES ASSUME SetInv, UNCHANGED setVars PROVE SetInv'  OBVIOUS
<1>1. /\ set' = set /\ job' = job /\ profile' = profile /\ user' = user /\ binds' = binds /\ slips' = slips
      /\ acts' = acts /\ aways' = aways
  BY DEF setVars
<1>2. SetData' /\ SetJobsOK' /\ OpenWaits'  BY <1>1 DEF SetInv, SetData, SetJobsOK, OpenWaits
<1>3. BindsToday' /\ ReadIsNew' /\ PhoneIsRead'
  BY <1>1 DEF SetInv, BindsToday, ReadIsNew, PhoneIsRead, ToBeRead
<1>4. NamesInOrder'
  <2>1. \A of \in {"name", "avatar"} :
          /\ \A u \in Jobs : Awaits(u, of)' <=> Awaits(u, of)
          /\ OneAtATime(of) => OneAtATime(of)'
          /\ LastCounts(of) => LastCounts(of)'
    BY <1>1, OthersRest
  <2>2. (set.nameToken # 0 => Awaits(set.nameToken, "name"))'
    BY <1>1, <2>1 DEF SetInv, SetData, NamesInOrder
  <2>3. set'.locked <=> \E u \in Jobs : Awaits(u, "avatar")'  BY <1>1, <2>1 DEF SetInv, NamesInOrder
  <2>4. QED  BY <1>1, <2>1, <2>2, <2>3 DEF SetInv, NamesInOrder
<1>5. QED  BY <1>2, <1>3, <1>4 DEF SetInv

LEMMA SetInvStep == SetInv /\ [SetPageNext]_setVars => SetInv'
<1> SUFFICES ASSUME SetInv, [SetPageNext]_setVars PROVE SetInv'  OBVIOUS
<1>1. ASSUME NEW t \in Jobs,
             \/ OpenSet(t) \/ ShowSet(t) \/ SubmitNickname(t) \/ ChooseAvatar(t) \/ BindPhone(t) \/ Unbind(t)
      PROVE  SetInv'
  BY <1>1, OpenSetKeeps, ShowSetKeeps, SubmitNicknameKeeps, ChooseAvatarKeeps, BindPhoneKeeps, UnbindKeeps
<1>2. ASSUME NEW t \in Jobs, ServerStep(t) PROVE SetInv'
  <2>1. AtServer  BY <1>2 DEF ServerStep, AtServer, setBounds
  <2>2. \/ GetPhone(t) \/ PutName(t) \/ CheckBind(t) \/ BindIfAllowed(t) \/ CheckUnbind(t)
        \/ UpdatePhone(t) \/ NeverArrives(t)
    BY <1>2 DEF ServerStep
  <2>3. QED  BY <2>1, <2>2, GetPhoneKeeps, PutNameKeeps, CheckBindKeeps, BindIfAllowedKeeps, CheckUnbindKeeps,
                UpdatePhoneKeeps, NeverArrivesKeeps
<1>3. ASSUME SetAnswers PROVE SetInv'
  <2>1. PICK t \in Jobs :
          /\ PhoneFetched(t) \/ BindEnds(t) \/ UnbindEnds(t) \/ NicknameEnds(t) \/ AvatarEnds(t)
          /\ UNCHANGED <<user, binds, setBounds>>
    BY <1>3 DEF SetAnswers
  <2>2. AtPage  BY <2>1 DEF AtPage, setBounds
  <2>3. QED  BY <2>1, <2>2, PhoneFetchedKeeps, BindEndsKeeps, UnbindEndsKeeps, NicknameEndsKeeps, AvatarEndsKeeps
<1>4. QED  BY <1>1, <1>2, <1>3, HideSetKeeps, UnloadSetKeeps, DrawerKeeps, SetStutters DEF SetPageNext

LEMMA SetInvImplies ==
  SetInv => SetPageTypeOK /\ BoundOnceADay /\ PhoneAgrees /\ NamesAgree /\ OneSubmission /\ LockIsAwaited
<1> SUFFICES ASSUME SetInv
             PROVE  SetPageTypeOK /\ BoundOnceADay /\ PhoneAgrees /\ NamesAgree /\ OneSubmission /\ LockIsAwaited
  OBVIOUS
<1>1. SetPageTypeOK
  <2>1. acts \in Nat /\ acts <= MaxActs /\ acts + 1 <= MaxActs + 1 /\ MaxActs + 1 \in Nat /\ acts + 1 \in Nat
    <3>1. acts \in 0..MaxActs /\ MaxActs \in Nat  BY SetBounds DEF SetInv, SetData
    <3>2. QED  BY <3>1
  <2>2. set.phone \in Nat /\ set.phone <= acts + 1 /\ set.can \in BOOLEAN /\ set.drawer \in BOOLEAN
    BY DEF SetInv, SetData, SetPages
  <2>3. set.phone \in 0..(MaxActs + 1)  BY <2>1, <2>2
  <2>4. binds \subseteq 2..(MaxActs + 1)
    <3>1. binds \subseteq 2..(acts + 1)  BY DEF SetInv, SetData
    <3>2. QED  BY <2>1, <3>1
  <2>5. {set.nameToken, set.bindToken} \subseteq Jobs \cup {0}  BY DEF SetInv, SetData
  <2>6. \A t \in Jobs : /\ job[t].pc \in {"idle", "fetch", "bind", "unbind", "name", "avatar"}
                        /\ job[t].at \in {"none", "sent", "read", "done", "refused"}
    BY SetIs DEF SetJobs
  <2>7. user.day \in {"never", "before", "today"} /\ slips \subseteq SetSlips
    BY DEF SetInv, SetData, SetUsers, BindDays
  <2>8. QED  BY <2>2, <2>3, <2>4, <2>5, <2>6, <2>7 DEF SetPageTypeOK, SetSlips
<1>2. BoundOnceADay  BY DEF SetInv, BindsToday, BoundOnceADay
<1>3. PhoneAgrees  BY DEF SetInv, PhoneIsRead, PhoneAgrees, Resting, ToBeRead
<1>4. NamesAgree
  <2> SUFFICES ASSUME Resting, slips \cap {"lost", "crossed", "dropped"} = {}
               PROVE  \A x \in {"name", "avatar"} : set[x] = profile[x] /\ profile[x] = user[x]
    BY DEF NamesAgree
  <2>1. \A t \in Jobs : \A of : ~Awaits(t, of)  BY DEF Resting, Awaits
  <2>2. set.name = profile.name /\ set.avatar = profile.avatar  BY DEF SetInv, NamesInOrder, Resting
  <2>3. LastCounts("name") /\ LastCounts("avatar")  BY DEF SetInv, NamesInOrder
  <2>4. profile["name"] = user["name"] /\ profile["avatar"] = user["avatar"]  BY <2>1, <2>3 DEF LastCounts
  <2>5. QED  BY <2>2, <2>4
<1>5. OneSubmission  BY DEF SetInv, NamesInOrder, OneAtATime, OneSubmission
<1>6. LockIsAwaited  BY DEF SetInv, NamesInOrder, LockIsAwaited
<1>7. QED  BY <1>1, <1>2, <1>3, <1>4, <1>5, <1>6

-----------------------------------------------------------------------------
(***************************************************************************)
(* The page of the family                                                  *)
(***************************************************************************)
FamLate == [list : SUBSET Nat, link : SUBSET Nat, ready : SUBSET BOOLEAN]
FamPages ==
  [open : BOOLEAN, shown : BOOLEAN, list : Nat, link : Nat, ready : BOOLEAN, late : FamLate,
   creating : BOOLEAN, mask : BOOLEAN, ask : {"no", "leave", "remove"}]
FamPcs == {"idle", "login", "join", "fetch", "link", "leave", "remove"}
FamTasks == [pc : FamPcs, link : Nat, done : BOOLEAN, read : Nat]

\* Families up to this one are known to the server.
Newest == Links + srv.made

FamData ==
  /\ fam \in FamPages /\ task \in [Tasks -> FamTasks]
  /\ srv \in [home : Nat, made : Nat, count : Nat] /\ 0 < srv.count /\ srv.home <= Newest
  /\ fam.link <= Newest /\ (\A v \in fam.late.link : 0 < v /\ v <= Newest)
  /\ fam.list <= srv.count /\ (\A v \in fam.late.list : v <= srv.count)
  /\ loggedIn \in BOOLEAN /\ joined \in BOOLEAN /\ opened \in 0..Links
  /\ openings \in 0..MaxOpenings /\ shows \in 0..MaxShows /\ quits \in 0..MaxQuits

\* A task is of a page that is open, and what arrived did so with a session.
TaskFits(t) ==
  /\ task[t].pc = "idle" => task[t] = NoTask
  /\ task[t].pc # "idle" => fam.open
  /\ task[t].done => loggedIn /\ task[t].pc \notin {"idle", "login"}
  /\ task[t].pc = "link" => task[t].read <= Newest
  /\ task[t].pc # "link" => task[t].read <= srv.count
FamTasksFit == \A t \in Tasks : TaskFits(t)

\* The mask is that of a task that will take it away.
Masking ==
  /\ fam.shown => fam.open /\ fam.late = NoWrite
  /\ fam.mask => fam.shown /\ \E t \in Tasks : task[t].pc \notin {"idle", "login"}
  /\ fam.open /\ ~loggedIn => "failed" \in excuses

\* Only the link that was opened last is joined.
LinkOpened ==
  /\ pendingLink \in {0, opened} /\ (opened # 0 => pendingLink = opened \/ joined)
  /\ \A t \in Tasks : task[t].pc \in {"login", "join"} =>
       /\ task[t].link = opened /\ opened # 0
       /\ task[t].done => joined

\* A link that was answered, or is on the page, is that of the family.
LinkShared ==
  /\ \A t \in Tasks : task[t].pc = "link" /\ task[t].done =>
       task[t].read # 0 /\ ("moved" \notin excuses => task[t].read = srv.home)
  /\ LatestOf(fam, "link") # 0 /\ "moved" \notin excuses => LatestOf(fam, "link") = srv.home
  /\ fam.ready => fam.link # 0
  /\ TRUE \in fam.late.ready => fam.link # 0

\* A page that is not about to ask, and whether what it shows is so.
FamCalm == fam.shown /\ \A t \in Tasks : task[t].pc \in {"idle", "link"}
MembersRead ==
  /\ \A t \in Tasks : task[t].pc = "fetch" /\ task[t].done /\ "overtaken" \notin excuses =>
       task[t].read = srv.count
  /\ FamCalm /\ fam.list # Unread /\ excuses \cap {"failed", "overtaken"} = {} => fam.list = srv.count
  /\ AtRest /\ fam.link # 0 /\ fam.list # Unread /\ "failed" \notin excuses => fam.ready

FamInv == FamData /\ FamTasksFit /\ Masking /\ LinkOpened /\ LinkShared /\ MembersRead

LEMMA FamBounds == Tasks \subseteq Nat /\ Links \in Nat /\ MaxOpenings \in Nat /\ MaxShows \in Nat /\ MaxQuits \in Nat
BY FamilyPageAssumption

\* What FamInv says of the data.
LEMMA FamIs ==
  FamInv => /\ fam \in FamPages /\ fam.late \in FamLate /\ task \in [Tasks -> FamTasks]
            /\ srv.home \in Nat /\ srv.made \in Nat /\ srv.count \in Nat /\ Newest \in Nat
            /\ 0 < srv.count /\ srv.home <= Newest
            /\ \A t \in Tasks : TaskFits(t) /\ task[t] \in FamTasks
BY FamBounds DEF FamInv, FamData, FamTasksFit, FamPages, Newest

LEMMA NoTaskIs ==
  /\ NoTask \in FamTasks /\ NoTask.pc = "idle" /\ NoTask.link = 0 /\ ~NoTask.done /\ NoTask.read = 0
BY DEF NoTask, FamTasks, FamPcs

LEMMA BlankIs ==
  /\ Blank \in FamPages /\ ~Blank.open /\ ~Blank.shown /\ Blank.list = 0 /\ Blank.link = 0 /\ ~Blank.ready
  /\ Blank.late = NoWrite /\ ~Blank.mask /\ NoWrite \in FamLate
  /\ NoWrite.list = {} /\ NoWrite.link = {} /\ NoWrite.ready = {}
BY DEF Blank, FamPages, FamLate, NoWrite, Unread

LEMMA BeginIs ==
  ASSUME task \in [Tasks -> FamTasks], NEW t \in Tasks, NEW kind \in FamPcs, NEW l \in Nat, BeginTask(t, kind, l)
  PROVE  /\ task' \in [Tasks -> FamTasks] /\ \A u \in Tasks : u # t => task'[u] = task[u]
         /\ task'[t].pc = kind /\ task'[t].link = l /\ task'[t].done = FALSE /\ task'[t].read = 0
<1> DEFINE new == [NoTask EXCEPT !.pc = kind, !.link = l]
<1>1. new \in FamTasks /\ new.pc = kind /\ new.link = l /\ new.done = FALSE /\ new.read = 0
  BY DEF NoTask, FamTasks, FamPcs
<1>2. task' = [task EXCEPT ![t] = new]  BY DEF BeginTask
<1> HIDE DEF new
<1>3. QED  BY <1>1, <1>2

LEMMA EndIs ==
  ASSUME task \in [Tasks -> FamTasks], NEW t \in Tasks, EndTask(t)
  PROVE  task' \in [Tasks -> FamTasks] /\ task'[t] = NoTask /\ \A u \in Tasks : u # t => task'[u] = task[u]
BY NoTaskIs DEF EndTask

LEMMA MaskedIs ==
  ASSUME NEW p \in FamPages, NEW on \in BOOLEAN
  PROVE  LET q == Masked(p, on)
         IN  /\ q \in FamPages /\ q.open = p.open /\ q.shown = p.shown /\ q.list = p.list /\ q.link = p.link
             /\ q.ready = p.ready /\ q.late = p.late /\ q.mask = (IF p.shown THEN on ELSE p.mask)
BY DEF Masked, FamPages

LEMMA PutListIs ==
  ASSUME NEW p \in FamPages, NEW v \in Nat
  PROVE  LET q == PutData(p, "list", v)
         IN  /\ q \in FamPages /\ q.open = p.open /\ q.shown = p.shown /\ q.link = p.link /\ q.ready = p.ready
             /\ q.mask = p.mask /\ q.late.link = p.late.link /\ q.late.ready = p.late.ready
             /\ p.shown => q.list = v /\ q.late = p.late
             /\ ~p.shown => q.list = p.list /\ q.late.list = {v}
<1>1. CASE p.shown
  <2>1. PutData(p, "list", v) = [p EXCEPT !.list = v]  BY <1>1 DEF PutData
  <2>2. QED  BY <1>1, <2>1 DEF FamPages
<1>2. CASE ~p.shown
  <2> DEFINE l == [p.late EXCEPT !.list = {v}]
  <2>1. PutData(p, "list", v) = [p EXCEPT !.late = l]  BY <1>2 DEF PutData, FamPages
  <2>2. l \in FamLate /\ l.list = {v} /\ l.link = p.late.link /\ l.ready = p.late.ready  BY DEF FamPages, FamLate
  <2> HIDE DEF l
  <2>3. QED  BY <1>2, <2>1, <2>2 DEF FamPages
<1>3. QED  BY <1>1, <1>2

LEMMA PutLinkIs ==
  ASSUME NEW p \in FamPages, NEW v \in Nat
  PROVE  LET q == PutData(p, "link", v)
         IN  /\ q \in FamPages /\ q.open = p.open /\ q.shown = p.shown /\ q.list = p.list /\ q.ready = p.ready
             /\ q.mask = p.mask /\ q.late.list = p.late.list /\ q.late.ready = p.late.ready
             /\ p.shown => q.link = v /\ q.late = p.late
             /\ ~p.shown => q.link = p.link /\ q.late.link = {v}
<1>1. CASE p.shown
  <2>1. PutData(p, "link", v) = [p EXCEPT !.link = v]  BY <1>1 DEF PutData
  <2>2. QED  BY <1>1, <2>1 DEF FamPages
<1>2. CASE ~p.shown
  <2> DEFINE l == [p.late EXCEPT !.link = {v}]
  <2>1. PutData(p, "link", v) = [p EXCEPT !.late = l]  BY <1>2 DEF PutData, FamPages
  <2>2. l \in FamLate /\ l.link = {v} /\ l.list = p.late.list /\ l.ready = p.late.ready  BY DEF FamPages, FamLate
  <2> HIDE DEF l
  <2>3. QED  BY <1>2, <2>1, <2>2 DEF FamPages
<1>3. QED  BY <1>1, <1>2

LEMMA PutReadyIs ==
  ASSUME NEW p \in FamPages, NEW v \in BOOLEAN
  PROVE  LET q == PutData(p, "ready", v)
         IN  /\ q \in FamPages /\ q.open = p.open /\ q.shown = p.shown /\ q.list = p.list /\ q.link = p.link
             /\ q.mask = p.mask /\ q.late.list = p.late.list /\ q.late.link = p.late.link
             /\ p.shown => q.ready = v /\ q.late = p.late
             /\ ~p.shown => q.ready = p.ready /\ q.late.ready = {v}
<1>1. CASE p.shown
  <2>1. PutData(p, "ready", v) = [p EXCEPT !.ready = v]  BY <1>1 DEF PutData
  <2>2. QED  BY <1>1, <2>1 DEF FamPages
<1>2. CASE ~p.shown
  <2> DEFINE l == [p.late EXCEPT !.ready = {v}]
  <2>1. PutData(p, "ready", v) = [p EXCEPT !.late = l]  BY <1>2 DEF PutData, FamPages
  <2>2. l \in FamLate /\ l.ready = {v} /\ l.list = p.late.list /\ l.link = p.late.link  BY DEF FamPages, FamLate
  <2> HIDE DEF l
  <2>3. QED  BY <1>2, <2>1, <2>2 DEF FamPages
<1>3. QED  BY <1>1, <1>2

SomeOf(S) == CHOOSE v \in S : TRUE

LEMMA LatestLink ==
  ASSUME NEW p, NEW q, q.link = p.link, q.late.link = p.late.link
  PROVE  LatestOf(q, "link") = LatestOf(p, "link")
<1>1. \A r : LatestOf(r, "link") = IF r.late.link = {} THEN r.link ELSE SomeOf(r.late.link)
  BY DEF LatestOf, SomeOf
<1>2. QED  BY <1>1

LEMMA LatestIs ==
  ASSUME NEW p \in FamPages
  PROVE  /\ p.late.link = {} => LatestOf(p, "link") = p.link
         /\ \A v : p.late.link = {v} => LatestOf(p, "link") = v
         /\ LatestOf(p, "link") \in p.late.link \cup {p.link}
<1>1. p.late.link # {} => (CHOOSE v \in p.late.link : TRUE) \in p.late.link  OBVIOUS
<1>2. QED  BY <1>1 DEF LatestOf

LEMMA FamInvInit == FamilyPageInit => FamInv
<1> SUFFICES ASSUME FamilyPageInit PROVE FamInv  OBVIOUS
<1>1. /\ fam = Blank /\ task = [t \in Tasks |-> NoTask] /\ pendingLink = 0 /\ loggedIn \in BOOLEAN
      /\ srv.home = 0 /\ srv.made = 0 /\ srv.count = 1 /\ srv \in [home : Nat, made : Nat, count : Nat]
      /\ opened = 0 /\ joined = FALSE /\ excuses = {} /\ openings = 0 /\ shows = 0 /\ quits = 0
  BY DEF FamilyPageInit
<1>2. \A t \in Tasks : task[t] = NoTask  BY <1>1
<1>3. task \in [Tasks -> FamTasks]  BY <1>1, NoTaskIs
<1>4. FamData
  <2>1. Newest \in Nat /\ 0 <= Newest  BY <1>1, FamBounds DEF Newest
  <2>2. 0 \in 0..Links /\ 0 \in 0..MaxOpenings /\ 0 \in 0..MaxShows /\ 0 \in 0..MaxQuits  BY FamBounds
  <2>3. fam.link = 0 /\ fam.list = 0 /\ fam.late.link = {} /\ fam.late.list = {} /\ fam \in FamPages
    BY <1>1, BlankIs
  <2>4. 0 < srv.count /\ srv.home <= Newest /\ fam.link <= Newest /\ fam.list <= srv.count  BY <1>1, <2>1, <2>3
  <2>5. (\A v \in fam.late.link : 0 < v /\ v <= Newest) /\ \A v \in fam.late.list : v <= srv.count  BY <2>3
  <2>6. QED  BY <1>1, <1>3, <2>2, <2>3, <2>4, <2>5 DEF FamData
<1>5. FamTasksFit  BY <1>1, <1>2, NoTaskIs DEF FamTasksFit, TaskFits
<1>6. Masking  BY <1>1, BlankIs DEF Masking
<1>7. LinkOpened  BY <1>1, <1>2, NoTaskIs DEF LinkOpened
<1>8. LatestOf(fam, "link") = 0  BY <1>1, BlankIs, LatestIs
<1>9. LinkShared  BY <1>1, <1>2, <1>8, NoTaskIs, BlankIs DEF LinkShared
<1>10. MembersRead  BY <1>1, <1>2, NoTaskIs, BlankIs DEF MembersRead, FamCalm, AtRest
<1>11. QED  BY <1>4, <1>5, <1>6, <1>7, <1>9, <1>10 DEF FamInv

-----------------------------------------------------------------------------
\* A step of the page: one task may begin or end.
OneTurn(t) ==
  /\ UNCHANGED <<srv, opened, joined, openings, shows>> /\ quits' \in 0..MaxQuits
  /\ loggedIn' \in BOOLEAN /\ (loggedIn => loggedIn')
  /\ fam' \in FamPages /\ fam.open /\ fam'.open /\ fam'.shown = fam.shown
  /\ task' \in [Tasks -> FamTasks] /\ \A u \in Tasks : u # t => task'[u] = task[u]
  /\ \/ task'[t] = NoTask
     \/ /\ task'[t].pc \notin {"idle", "login"} /\ task'[t].done = FALSE /\ task'[t].read = 0
        /\ task'[t].pc = "join" => task'[t].link = opened /\ opened # 0

LEMMA TurnData ==
  ASSUME FamInv, NEW t \in Tasks, OneTurn(t), fam'.link <= Newest,
         \A v \in fam'.late.link : 0 < v /\ v <= Newest,
         fam'.list <= srv.count, \A v \in fam'.late.list : v <= srv.count
  PROVE  FamData' /\ FamTasksFit'
<1>1. FamData'  BY DEF OneTurn, FamInv, FamData, Newest
<1>2. TaskFits(t)'
  <2>1. CASE task'[t] = NoTask
    <3>1. 0 <= Newest /\ 0 <= srv.count  BY FamIs
    <3>2. Newest' = Newest /\ srv' = srv  BY DEF OneTurn, Newest
    <3>3. QED  BY <2>1, <3>1, <3>2, NoTaskIs DEF TaskFits
  <2>2. CASE task'[t] # NoTask
    <3>1. 0 <= Newest /\ 0 <= srv.count  BY FamIs
    <3>2. Newest' = Newest /\ srv' = srv  BY DEF OneTurn, Newest
    <3>3. task'[t].pc \notin {"idle", "login"} /\ task'[t].done = FALSE /\ task'[t].read = 0 /\ fam'.open
      BY <2>2 DEF OneTurn
    <3>4. QED  BY <3>1, <3>2, <3>3 DEF TaskFits
  <2>3. QED  BY <2>1, <2>2
<1>3. \A u \in Tasks : u # t => TaskFits(u)'
  <2>1. Newest' = Newest /\ srv' = srv /\ fam'.open /\ (loggedIn => loggedIn')
        /\ \A u \in Tasks : u # t => task'[u] = task[u]
    BY DEF OneTurn, Newest
  <2>2. QED  BY <2>1, FamIs DEF TaskFits
<1>4. QED  BY <1>1, <1>2, <1>3 DEF FamTasksFit

\* What is left to show of such a step.
LEMMA TurnKeeps ==
  ASSUME FamInv, NEW t \in Tasks, OneTurn(t), fam'.link <= Newest,
         \A v \in fam'.late.link : 0 < v /\ v <= Newest,
         fam'.list <= srv.count, \A v \in fam'.late.list : v <= srv.count,
         fam'.shown => fam'.late = NoWrite,
         fam'.mask => fam'.shown /\ \E u \in Tasks : task'[u].pc \notin {"idle", "login"},
         "failed" \in excuses /\ ~loggedIn' => "failed" \in excuses',
         pendingLink' \in {0, opened}, opened # 0 => pendingLink' = opened \/ joined,
         "moved" \in excuses' <=> "moved" \in excuses,
         "overtaken" \in excuses' <=> "overtaken" \in excuses,
         LatestOf(fam', "link") # 0 /\ "moved" \notin excuses => LatestOf(fam', "link") = srv.home,
         fam'.ready => fam'.link # 0, TRUE \in fam'.late.ready => fam'.link # 0,
         FamCalm' /\ fam'.list # 0 /\ excuses' \cap {"failed", "overtaken"} = {} => fam'.list = srv.count,
         AtRest' /\ fam'.link # 0 /\ fam'.list # 0 /\ "failed" \notin excuses' => fam'.ready
  PROVE  FamInv'
<1>1. FamData' /\ FamTasksFit'  BY TurnData
<1>2. UNCHANGED <<srv, opened, joined>>  BY DEF OneTurn
<1>3. /\ \A u \in Tasks : u # t => task'[u] = task[u]
      /\ ~task'[t].done /\ (task'[t].pc \in {"login", "join"} => task'[t].link = opened /\ opened # 0)
  BY NoTaskIs DEF OneTurn
<1>4. Masking'
  <2>1. fam'.shown => fam'.open  BY DEF OneTurn
  <2>2. ~loggedIn' => "failed" \in excuses  BY DEF FamInv, Masking, OneTurn
  <2>3. QED  BY <2>1, <2>2 DEF Masking
<1>5. LinkOpened'
  <2>1. \A u \in Tasks : task'[u].pc \in {"login", "join"} =>
          /\ task'[u].link = opened /\ opened # 0
          /\ task'[u].done => joined
    BY <1>3 DEF FamInv, LinkOpened
  <2>2. QED  BY <1>2, <2>1 DEF LinkOpened
<1>6. LinkShared'
  <2>1. \A u \in Tasks : task'[u].pc = "link" /\ task'[u].done =>
          task'[u].read # 0 /\ ("moved" \notin excuses => task'[u].read = srv.home)
    BY <1>3 DEF FamInv, LinkShared
  <2>2. LatestOf(fam, "link")' = LatestOf(fam', "link")  OBVIOUS
  <2>3. QED  BY <1>2, <2>1, <2>2 DEF LinkShared
<1>7. MembersRead'
  <2>1. \A u \in Tasks : task'[u].pc = "fetch" /\ task'[u].done /\ "overtaken" \notin excuses' =>
          task'[u].read = srv.count
    BY <1>3 DEF FamInv, MembersRead
  <2>2. QED  BY <1>2, <2>1 DEF MembersRead, Unread
<1>8. QED  BY <1>1, <1>4, <1>5, <1>6, <1>7 DEF FamInv

\* A step that leaves alone what the page shows: it may not end the last task
\* without saying that it failed.
LEMMA QuietTurn ==
  ASSUME FamInv, NEW t \in Tasks, OneTurn(t), fam'.link = fam.link, fam'.list = fam.list, fam'.ready = fam.ready,
         fam'.late = fam.late,
         fam'.mask => fam'.shown /\ \E u \in Tasks : task'[u].pc \notin {"idle", "login"},
         pendingLink' \in {0, opened}, opened # 0 => pendingLink' = opened \/ joined,
         excuses \subseteq excuses', excuses' \subseteq excuses \cup {"failed"},
         fam.shown /\ task'[t].pc \in {"idle", "link"} =>
           "failed" \in excuses' \/ task'[t] = task[t]
  PROVE  FamInv'
<1>1. /\ fam'.link <= Newest /\ (\A v \in fam'.late.link : 0 < v /\ v <= Newest)
      /\ fam'.list <= srv.count /\ \A v \in fam'.late.list : v <= srv.count
  BY DEF FamInv, FamData
<1>2. fam'.shown => fam'.late = NoWrite  BY DEF FamInv, Masking, OneTurn
<1>3. "failed" \in excuses => "failed" \in excuses'  OBVIOUS
<1>4. ("moved" \in excuses' <=> "moved" \in excuses) /\ ("overtaken" \in excuses' <=> "overtaken" \in excuses)
  OBVIOUS
<1>5. LatestOf(fam', "link") = LatestOf(fam, "link")  BY LatestLink
<1>6. LatestOf(fam', "link") # 0 /\ "moved" \notin excuses => LatestOf(fam', "link") = srv.home
  BY <1>5 DEF FamInv, LinkShared
<1>7. (fam'.ready => fam'.link # 0) /\ (TRUE \in fam'.late.ready => fam'.link # 0)  BY DEF FamInv, LinkShared
<1>8. FamCalm' => FamCalm \/ "failed" \in excuses'  BY DEF FamCalm, OneTurn
<1>9. AtRest' => AtRest \/ "failed" \in excuses'  BY NoTaskIs DEF AtRest, OneTurn
<1>10. FamCalm' /\ fam'.list # 0 /\ excuses' \cap {"failed", "overtaken"} = {} => fam'.list = srv.count
  BY <1>8 DEF FamInv, MembersRead, Unread
<1>11. AtRest' /\ fam'.link # 0 /\ fam'.list # 0 /\ "failed" \notin excuses' => fam'.ready
  BY <1>9 DEF FamInv, MembersRead, Unread
<1>12. QED  BY <1>1, <1>2, <1>3, <1>4, <1>6, <1>7, <1>10, <1>11, TurnKeeps

\* A step that begins and ends no task.
LEMMA NoTurn ==
  ASSUME FamInv, UNCHANGED <<task, srv, pendingLink, opened, joined, excuses, openings, shows, quits>>,
         loggedIn' \in BOOLEAN, loggedIn => loggedIn', fam' \in FamPages, fam'.open = fam.open,
         fam'.link = fam.link, fam'.list = fam.list, fam'.ready = fam.ready, fam'.late = fam.late,
         fam'.shown => fam.shown, fam'.mask => fam'.shown /\ fam.mask
  PROVE  FamInv'
<1>1. Newest' = Newest  BY DEF Newest
<1>2. FamData'  BY <1>1 DEF FamInv, FamData
<1>3. FamTasksFit'  BY <1>1 DEF FamInv, FamTasksFit, TaskFits
<1>4. Masking'  BY DEF FamInv, Masking
<1>5. LinkOpened'  BY DEF FamInv, LinkOpened
<1>6. LinkShared'
  <2>1. LatestOf(fam, "link")' = LatestOf(fam, "link")  BY LatestLink
  <2>2. QED  BY <2>1 DEF FamInv, LinkShared
<1>7. MembersRead'  BY DEF FamInv, MembersRead, FamCalm, AtRest
<1>8. QED  BY <1>2, <1>3, <1>4, <1>5, <1>6, <1>7 DEF FamInv

LEMMA HideFamilyKeeps == FamInv /\ HideFamily => FamInv'
<1> SUFFICES ASSUME FamInv, HideFamily PROVE FamInv'  OBVIOUS
<1>1. /\ fam' = [fam EXCEPT !.shown = FALSE, !.mask = FALSE, !.ask = "no"]
      /\ UNCHANGED <<task, pendingLink, loggedIn, srv, joined, excuses, opened, openings, shows, quits>>
  BY DEF HideFamily, familyBounds
<1>2. /\ fam' \in FamPages /\ fam'.open = fam.open /\ fam'.link = fam.link /\ fam'.list = fam.list
      /\ fam'.ready = fam.ready /\ fam'.late = fam.late /\ fam'.shown = FALSE /\ fam'.mask = FALSE
  BY <1>1, FamIs DEF FamPages
<1>3. loggedIn' \in BOOLEAN  BY <1>1 DEF FamInv, FamData
<1>4. QED  BY <1>1, <1>2, <1>3, NoTurn

LEMMA OthersLogInKeeps == FamInv /\ OthersLogIn => FamInv'
<1> SUFFICES ASSUME FamInv, OthersLogIn PROVE FamInv'  OBVIOUS
<1>1. /\ loggedIn' = TRUE
      /\ UNCHANGED <<fam, task, pendingLink, srv, joined, excuses, opened, openings, shows, quits>>
  BY DEF OthersLogIn, familyBounds
<1>2. fam' \in FamPages /\ (fam'.mask => fam'.shown)  BY <1>1, FamIs DEF FamInv, Masking
<1>3. QED  BY <1>1, <1>2, NoTurn

LEMMA AskQuitKeeps == ASSUME FamInv, NEW what \in {"leave", "remove"}, AskQuit(what) PROVE FamInv'
<1>1. /\ fam' = [fam EXCEPT !.ask = what] /\ ~fam.mask
      /\ UNCHANGED <<task, pendingLink, loggedIn, srv, joined, excuses, opened, openings, shows, quits>>
  BY DEF AskQuit, familyBounds
<1>2. /\ fam' \in FamPages /\ fam'.open = fam.open /\ fam'.link = fam.link /\ fam'.list = fam.list
      /\ fam'.ready = fam.ready /\ fam'.late = fam.late /\ fam'.shown = fam.shown /\ ~fam'.mask
  BY <1>1, FamIs DEF FamPages
<1>3. loggedIn' \in BOOLEAN  BY <1>1 DEF FamInv, FamData
<1>4. QED  BY <1>1, <1>2, <1>3, NoTurn

\* A task under way is of a page that is open.
LEMMA TaskOpen == ASSUME FamInv, NEW t \in Tasks, task[t].pc # "idle" PROVE fam.open
BY FamIs DEF TaskFits

LEMMA MaskOthers ==
  ASSUME FamInv, NEW t \in Tasks, fam.mask, task[t].pc \in {"idle", "login"},
         \A u \in Tasks : u # t => task'[u] = task[u]
  PROVE  fam.shown /\ \E u \in Tasks : task'[u].pc \notin {"idle", "login"}
BY DEF FamInv, Masking

LEMMA LinkLoginEndsKeeps == ASSUME FamInv, NEW t \in Tasks, LinkLoginEnds(t) PROVE FamInv'
<1>1. /\ task[t].pc = "login" /\ loggedIn' \in {loggedIn, TRUE}
      /\ UNCHANGED <<pendingLink, srv, joined, excuses, opened, openings, shows, quits>>
  BY DEF LinkLoginEnds, familyBounds
<1>2. /\ loggedIn' \in BOOLEAN /\ (loggedIn => loggedIn') /\ quits' \in 0..MaxQuits /\ fam.open
      /\ pendingLink \in {0, opened} /\ (opened # 0 => pendingLink = opened \/ joined)
      /\ task[t].link = opened /\ opened # 0 /\ task[t].link \in Nat
  BY <1>1, TaskOpen, FamIs DEF FamInv, FamData, LinkOpened, FamTasks
<1>3. CASE loggedIn' /\ fam.shown
  <2>1. BeginTask(t, "join", task[t].link) /\ fam' = Masked(fam, TRUE)  BY <1>3 DEF LinkLoginEnds
  <2>2. /\ task' \in [Tasks -> FamTasks] /\ \A u \in Tasks : u # t => task'[u] = task[u]
        /\ task'[t].pc = "join" /\ task'[t].link = opened /\ task'[t].done = FALSE /\ task'[t].read = 0
    <3>1. PICK kind \in FamPcs : kind = "join"  BY DEF FamPcs
    <3>2. QED  BY <1>2, <2>1, <3>1, FamIs, BeginIs
  <2>3. /\ fam' \in FamPages /\ fam'.open = fam.open /\ fam'.shown = fam.shown /\ fam'.list = fam.list
        /\ fam'.link = fam.link /\ fam'.ready = fam.ready /\ fam'.late = fam.late
    BY <2>1, FamIs, MaskedIs
  <2>4. OneTurn(t)  BY <1>1, <1>2, <2>2, <2>3 DEF OneTurn
  <2>5. fam'.mask => fam'.shown /\ \E u \in Tasks : task'[u].pc \notin {"idle", "login"}
    BY <1>3, <2>2, <2>3
  <2>6. QED  BY <1>1, <1>2, <2>2, <2>3, <2>4, <2>5, QuietTurn
<1>4. CASE ~(loggedIn' /\ fam.shown)
  <2>1. EndTask(t) /\ fam' = fam  BY <1>4 DEF LinkLoginEnds
  <2>2. task' \in [Tasks -> FamTasks] /\ task'[t] = NoTask /\ \A u \in Tasks : u # t => task'[u] = task[u]
    BY <2>1, FamIs, EndIs
  <2>3. OneTurn(t)  BY <1>1, <1>2, <2>1, <2>2, FamIs DEF OneTurn
  <2>4. fam'.mask => fam'.shown /\ \E u \in Tasks : task'[u].pc \notin {"idle", "login"}
    BY <1>1, <2>1, <2>2, MaskOthers
  <2>5. fam.shown => "failed" \in excuses'  BY <1>1, <1>2, <1>4 DEF FamInv, Masking
  <2>6. QED  BY <1>1, <1>2, <2>1, <2>3, <2>4, <2>5, QuietTurn
<1>5. QED  BY <1>3, <1>4

\* The list is asked for again, or the page is hidden.
LEMMA ReadAgainKeeps ==
  ASSUME FamInv, NEW t \in Tasks, task[t].pc # "idle", ReadAgain(t),
         UNCHANGED <<loggedIn, srv, joined, excuses, opened, openings, shows, quits>>,
         pendingLink' \in {0, opened}, opened # 0 => pendingLink' = opened \/ joined
  PROVE  FamInv'
<1>1. loggedIn' \in BOOLEAN /\ (loggedIn => loggedIn') /\ quits' \in 0..MaxQuits /\ fam.open
  BY TaskOpen DEF FamInv, FamData
<1>2. CASE fam.shown
  <2>1. BeginTask(t, "fetch", 0) /\ fam' = Masked(fam, TRUE)  BY <1>2 DEF ReadAgain
  <2>2. /\ task' \in [Tasks -> FamTasks] /\ \A u \in Tasks : u # t => task'[u] = task[u]
        /\ task'[t].pc = "fetch" /\ task'[t].done = FALSE /\ task'[t].read = 0
    <3>1. PICK kind \in FamPcs : kind = "fetch"  BY DEF FamPcs
    <3>2. PICK l \in Nat : l = 0  OBVIOUS
    <3>3. QED  BY <2>1, <3>1, <3>2, FamIs, BeginIs
  <2>3. /\ fam' \in FamPages /\ fam'.open = fam.open /\ fam'.shown = fam.shown /\ fam'.list = fam.list
        /\ fam'.link = fam.link /\ fam'.ready = fam.ready /\ fam'.late = fam.late
    BY <2>1, FamIs, MaskedIs
  <2>4. OneTurn(t)  BY <1>1, <2>2, <2>3 DEF OneTurn
  <2>5. fam'.mask => fam'.shown /\ \E u \in Tasks : task'[u].pc \notin {"idle", "login"}
    BY <1>2, <2>2, <2>3
  <2>6. QED  BY <2>2, <2>3, <2>4, <2>5, QuietTurn
<1>3. CASE ~fam.shown
  <2>1. EndTask(t) /\ fam' = fam  BY <1>3 DEF ReadAgain
  <2>2. task' \in [Tasks -> FamTasks] /\ task'[t] = NoTask /\ \A u \in Tasks : u # t => task'[u] = task[u]
    BY <2>1, FamIs, EndIs
  <2>3. OneTurn(t)  BY <1>1, <2>1, <2>2, FamIs DEF OneTurn
  <2>4. ~fam.mask  BY <1>3 DEF FamInv, Masking
  <2>5. QED  BY <1>3, <2>1, <2>3, <2>4, QuietTurn
<1>4. QED  BY <1>2, <1>3

LEMMA JoinEndsKeeps == ASSUME FamInv, NEW t \in Tasks, JoinEnds(t) PROVE FamInv'
<1>1. /\ task[t].pc = "join" /\ ReadAgain(t)
      /\ (task[t].done /\ pendingLink' = 0) \/ pendingLink' = pendingLink
      /\ UNCHANGED <<loggedIn, srv, joined, excuses, opened, openings, shows, quits>>
  BY DEF JoinEnds, familyBounds
<1>2. pendingLink' \in {0, opened} /\ (opened # 0 => pendingLink' = opened \/ joined)
  BY <1>1 DEF FamInv, LinkOpened
<1>3. QED  BY <1>1, <1>2, ReadAgainKeeps

\* What fails leaves the page as it is, without its mask.
LEMMA FailKeeps ==
  ASSUME FamInv, NEW t \in Tasks, task[t].pc # "idle", EndTask(t), fam' = Masked(fam, FALSE),
         excuses' = excuses \cup {"failed"},
         UNCHANGED <<pendingLink, loggedIn, srv, joined, opened, openings, shows, quits>>
  PROVE  FamInv'
<1>1. loggedIn' \in BOOLEAN /\ (loggedIn => loggedIn') /\ quits' \in 0..MaxQuits /\ fam.open
  BY TaskOpen DEF FamInv, FamData
<1>2. task' \in [Tasks -> FamTasks] /\ task'[t] = NoTask /\ \A u \in Tasks : u # t => task'[u] = task[u]
  BY FamIs, EndIs
<1>3. /\ fam' \in FamPages /\ fam'.open = fam.open /\ fam'.shown = fam.shown /\ fam'.list = fam.list
      /\ fam'.link = fam.link /\ fam'.ready = fam.ready /\ fam'.late = fam.late
      /\ fam'.mask = (IF fam.shown THEN FALSE ELSE fam.mask)
  BY FamIs, MaskedIs
<1>4. OneTurn(t)  BY <1>1, <1>2, <1>3 DEF OneTurn
<1>5. ~fam'.mask  BY <1>3 DEF FamInv, Masking
<1>6. pendingLink' \in {0, opened} /\ (opened # 0 => pendingLink' = opened \/ joined)
  BY DEF FamInv, LinkOpened
<1>7. QED  BY <1>3, <1>4, <1>5, <1>6, QuietTurn

LEMMA QuitEndsKeeps == ASSUME FamInv, NEW t \in Tasks, QuitEnds(t) PROVE FamInv'
<1>1. /\ task[t].pc # "idle"
      /\ UNCHANGED <<pendingLink, loggedIn, srv, joined, opened, openings, shows, quits>>
      /\ \/ ReadAgain(t) /\ excuses' = excuses
         \/ EndTask(t) /\ fam' = Masked(fam, FALSE) /\ excuses' = excuses \cup {"failed"}
  BY DEF QuitEnds, familyBounds
<1>2. pendingLink' \in {0, opened} /\ (opened # 0 => pendingLink' = opened \/ joined)
  BY <1>1 DEF FamInv, LinkOpened
<1>3. CASE ReadAgain(t) /\ excuses' = excuses  BY <1>1, <1>2, <1>3, ReadAgainKeeps
<1>4. CASE EndTask(t) /\ fam' = Masked(fam, FALSE) /\ excuses' = excuses \cup {"failed"}
  BY <1>1, <1>4, FailKeeps
<1>5. QED  BY <1>1, <1>3, <1>4

LEMMA AnswerQuitKeeps == ASSUME FamInv, NEW t \in Tasks, AnswerQuit(t) PROVE FamInv'
<1>1. /\ fam.shown /\ fam.ask # "no"
      /\ UNCHANGED <<pendingLink, loggedIn, srv, opened, joined, excuses, openings, shows>>
  BY DEF AnswerQuit
<1>2. /\ loggedIn' \in BOOLEAN /\ (loggedIn => loggedIn') /\ fam.open /\ fam.ask \in {"leave", "remove"}
      /\ pendingLink' \in {0, opened} /\ (opened # 0 => pendingLink' = opened \/ joined)
  BY <1>1, FamIs DEF FamInv, FamData, Masking, LinkOpened, FamPages
<1>3. CASE /\ quits < MaxQuits /\ quits' = quits + 1 /\ TaskFree(t)
           /\ BeginTask(t, fam.ask, 0) /\ fam' = [fam EXCEPT !.ask = "no", !.mask = TRUE]
  <2>1. quits' \in 0..MaxQuits  BY <1>3, FamBounds DEF FamInv, FamData
  <2>2. /\ task' \in [Tasks -> FamTasks] /\ \A u \in Tasks : u # t => task'[u] = task[u]
        /\ task'[t].pc = fam.ask /\ task'[t].done = FALSE /\ task'[t].read = 0
    <3>1. PICK kind \in FamPcs : kind = fam.ask  BY <1>2 DEF FamPcs
    <3>2. PICK l \in Nat : l = 0  OBVIOUS
    <3>3. QED  BY <1>3, <3>1, <3>2, FamIs, BeginIs
  <2>3. /\ fam' \in FamPages /\ fam'.open = fam.open /\ fam'.shown = fam.shown /\ fam'.list = fam.list
        /\ fam'.link = fam.link /\ fam'.ready = fam.ready /\ fam'.late = fam.late
    BY <1>3, FamIs DEF FamPages
  <2>4. OneTurn(t)  BY <1>1, <1>2, <2>1, <2>2, <2>3 DEF OneTurn
  <2>5. fam'.mask => fam'.shown /\ \E u \in Tasks : task'[u].pc \notin {"idle", "login"}
    BY <1>1, <1>2, <2>2, <2>3
  <2>6. QED  BY <1>1, <1>2, <2>2, <2>3, <2>4, <2>5, QuietTurn
<1>4. CASE fam' = [fam EXCEPT !.ask = "no"] /\ UNCHANGED <<task, quits>>
  <2>1. /\ fam' \in FamPages /\ fam'.open = fam.open /\ fam'.link = fam.link /\ fam'.list = fam.list
        /\ fam'.ready = fam.ready /\ fam'.late = fam.late /\ fam'.shown = fam.shown /\ fam'.mask = fam.mask
    BY <1>4, FamIs DEF FamPages
  <2>2. QED  BY <1>1, <1>2, <1>4, <2>1, NoTurn
<1>5. QED  BY <1>3, <1>4 DEF AnswerQuit

\* Whether there is a link is written last.
LEMMA ReadyIs ==
  ASSUME NEW p \in FamPages, p.shown => p.late = NoWrite
  PROVE  LET q == PutData(p, "ready", p.link # 0)
         IN  /\ q \in FamPages /\ q.open = p.open /\ q.shown = p.shown /\ q.list = p.list /\ q.link = p.link
             /\ q.mask = p.mask /\ q.late.list = p.late.list /\ q.late.link = p.late.link
             /\ q.shown => q.late = NoWrite /\ (q.ready <=> q.link # 0)
             /\ ~q.shown => q.ready = p.ready /\ (TRUE \in q.late.ready => q.link # 0)
<1>1. PICK v \in BOOLEAN : v = (p.link # 0)  OBVIOUS
<1> DEFINE q == PutData(p, "ready", v)
<1>2. /\ q \in FamPages /\ q.open = p.open /\ q.shown = p.shown /\ q.list = p.list /\ q.link = p.link
      /\ q.mask = p.mask /\ q.late.list = p.late.list /\ q.late.link = p.late.link
      /\ p.shown => q.ready = v /\ q.late = p.late
      /\ ~p.shown => q.ready = p.ready /\ q.late.ready = {v}
  BY PutReadyIs
<1>3. q = PutData(p, "ready", p.link # 0)  BY <1>1
<1> HIDE DEF q
<1>4. QED  BY <1>1, <1>2, <1>3

LEMMA FetchSucceedsKeeps ==
  ASSUME FamInv, NEW t \in Tasks, FetchSucceeds(t), excuses' = excuses \ {"failed"},
         UNCHANGED <<pendingLink, loggedIn, srv, joined, opened, openings, shows, quits>>
  PROVE  FamInv'
<1> DEFINE v == task[t].read
           g == PutData(fam, "list", v)
<1>1. /\ task[t].pc = "fetch" /\ task[t].done
      /\ \/ /\ g.link = 0 /\ ~g.creating /\ BeginTask(t, "link", 0) /\ fam' = [g EXCEPT !.creating = TRUE]
         \/ EndTask(t) /\ fam' = Masked(PutData(g, "ready", g.link # 0), FALSE)
  BY DEF FetchSucceeds
<1>2. v \in Nat /\ v <= srv.count /\ loggedIn /\ fam.open /\ ("overtaken" \notin excuses => v = srv.count)
  BY <1>1, TaskOpen, FamIs DEF FamTasks, TaskFits, FamInv, MembersRead
<1>3. /\ g \in FamPages /\ g.open = fam.open /\ g.shown = fam.shown /\ g.link = fam.link /\ g.ready = fam.ready
      /\ g.mask = fam.mask /\ g.late.link = fam.late.link /\ g.late.ready = fam.late.ready
      /\ fam.shown => g.list = v /\ g.late = fam.late
      /\ ~fam.shown => g.list = fam.list /\ g.late.list = {v}
  BY <1>2, FamIs, PutListIs
<1> HIDE DEF g
<1>4. fam.shown => fam.late = NoWrite  BY DEF FamInv, Masking
<1>5. /\ g.link <= Newest /\ (\A x \in g.late.link : 0 < x /\ x <= Newest)
      /\ g.list <= srv.count /\ \A x \in g.late.list : x <= srv.count
  BY <1>2, <1>3 DEF FamInv, FamData
<1>6. /\ pendingLink' \in {0, opened} /\ (opened # 0 => pendingLink' = opened \/ joined)
      /\ "moved" \in excuses' <=> "moved" \in excuses
      /\ "overtaken" \in excuses' <=> "overtaken" \in excuses
  BY DEF FamInv, LinkOpened
<1>7. g.link = fam.link /\ (g.ready => g.link # 0) /\ (TRUE \in g.late.ready => g.link # 0)
  BY <1>3 DEF FamInv, LinkShared
<1>8. LatestOf(g, "link") # 0 /\ "moved" \notin excuses => LatestOf(g, "link") = srv.home
  <2>1. LatestOf(g, "link") = LatestOf(fam, "link")  BY <1>3, LatestLink
  <2>2. QED  BY <2>1 DEF FamInv, LinkShared
<1>9. loggedIn' /\ loggedIn' \in BOOLEAN /\ quits' \in 0..MaxQuits  BY <1>2 DEF FamInv, FamData
<1>10. CASE BeginTask(t, "link", 0) /\ fam' = [g EXCEPT !.creating = TRUE]
  <2>1. /\ task' \in [Tasks -> FamTasks] /\ \A u \in Tasks : u # t => task'[u] = task[u]
        /\ task'[t].pc = "link" /\ task'[t].done = FALSE /\ task'[t].read = 0
    <3>1. PICK kind \in FamPcs : kind = "link"  BY DEF FamPcs
    <3>2. PICK l \in Nat : l = 0  OBVIOUS
    <3>3. QED  BY <1>10, <3>1, <3>2, FamIs, BeginIs
  <2>2. /\ fam' \in FamPages /\ fam'.open = g.open /\ fam'.shown = g.shown /\ fam'.list = g.list
        /\ fam'.link = g.link /\ fam'.ready = g.ready /\ fam'.late = g.late /\ fam'.mask = g.mask
    BY <1>3, <1>10 DEF FamPages
  <2>3. OneTurn(t)  BY <1>2, <1>3, <1>9, <2>1, <2>2 DEF OneTurn
  <2>4. fam'.mask => fam'.shown /\ \E u \in Tasks : task'[u].pc \notin {"idle", "login"}
    BY <1>3, <2>1, <2>2 DEF FamInv, Masking
  <2>5. LatestOf(fam', "link") = LatestOf(g, "link")  BY <2>2, LatestLink
  <2>6. FamCalm' /\ fam'.list # 0 /\ excuses' \cap {"failed", "overtaken"} = {} => fam'.list = srv.count
    BY <1>2, <1>3, <1>6, <2>2 DEF FamCalm
  <2>7. ~AtRest'  BY <2>1 DEF AtRest
  <2>8. /\ fam'.link <= Newest /\ (\A x \in fam'.late.link : 0 < x /\ x <= Newest)
        /\ fam'.list <= srv.count /\ \A x \in fam'.late.list : x <= srv.count
    BY <1>5, <2>2
  <2>9. /\ fam'.shown => fam'.late = NoWrite
        /\ LatestOf(fam', "link") # 0 /\ "moved" \notin excuses => LatestOf(fam', "link") = srv.home
        /\ fam'.ready => fam'.link # 0
        /\ TRUE \in fam'.late.ready => fam'.link # 0
    BY <1>3, <1>4, <1>7, <1>8, <2>2, <2>5
  <2>10. QED  BY <1>6, <1>9, <2>3, <2>4, <2>6, <2>7, <2>8, <2>9, TurnKeeps
<1>11. CASE EndTask(t) /\ fam' = Masked(PutData(g, "ready", g.link # 0), FALSE)
  <2>1. task' \in [Tasks -> FamTasks] /\ task'[t] = NoTask /\ \A u \in Tasks : u # t => task'[u] = task[u]
    BY <1>11, FamIs, EndIs
  <2> DEFINE h == PutData(g, "ready", g.link # 0)
  <2>2. /\ h \in FamPages /\ h.open = g.open /\ h.shown = g.shown /\ h.list = g.list /\ h.link = g.link
        /\ h.mask = g.mask /\ h.late.list = g.late.list /\ h.late.link = g.late.link
        /\ h.shown => h.late = NoWrite /\ (h.ready <=> h.link # 0)
        /\ ~h.shown => h.ready = g.ready /\ (TRUE \in h.late.ready => h.link # 0)
    <3>1. g \in FamPages /\ (g.shown => g.late = NoWrite)  BY <1>3, <1>4
    <3>2. QED  BY <3>1, ReadyIs
  <2>3. fam' = Masked(h, FALSE)  BY <1>11
  <2> HIDE DEF h
  <2>4. /\ fam' \in FamPages /\ fam'.open = h.open /\ fam'.shown = h.shown /\ fam'.list = h.list /\ fam'.link = h.link
        /\ fam'.ready = h.ready /\ fam'.late = h.late /\ fam'.mask = (IF h.shown THEN FALSE ELSE h.mask)
    BY <2>2, <2>3, MaskedIs
  <2>5. OneTurn(t)  BY <1>2, <1>3, <1>9, <2>1, <2>2, <2>4 DEF OneTurn
  <2>6. ~fam'.mask  BY <1>3, <2>2, <2>4 DEF FamInv, Masking
  <2>7. LatestOf(fam', "link") = LatestOf(g, "link")  BY <2>2, <2>4, LatestLink
  <2>8. FamCalm' /\ fam'.list # 0 /\ excuses' \cap {"failed", "overtaken"} = {} => fam'.list = srv.count
    BY <1>2, <1>3, <1>6, <2>2, <2>4 DEF FamCalm
  <2>9. AtRest' /\ fam'.link # 0 /\ fam'.list # 0 /\ "failed" \notin excuses' => fam'.ready
    BY <2>2, <2>4 DEF AtRest
  <2>10. /\ fam'.link <= Newest /\ (\A x \in fam'.late.link : 0 < x /\ x <= Newest)
         /\ fam'.list <= srv.count /\ \A x \in fam'.late.list : x <= srv.count
    BY <1>5, <2>2, <2>4
  <2>11. /\ fam'.shown => fam'.late = NoWrite
         /\ LatestOf(fam', "link") # 0 /\ "moved" \notin excuses => LatestOf(fam', "link") = srv.home
         /\ fam'.ready => fam'.link # 0
    BY <1>7, <1>8, <2>2, <2>4, <2>7
  <2>12. TRUE \in fam'.late.ready => fam'.link # 0
    <3>1. TRUE \notin NoWrite.ready  BY BlankIs
    <3>2. QED  BY <2>2, <2>4, <3>1
  <2>13. QED  BY <1>6, <1>9, <2>5, <2>6, <2>8, <2>9, <2>10, <2>11, <2>12, TurnKeeps
<1>12. QED  BY <1>1, <1>10, <1>11

LEMMA FetchEndsKeeps == ASSUME FamInv, NEW t \in Tasks, FetchEnds(t) PROVE FamInv'
<1>1. UNCHANGED <<pendingLink, loggedIn, srv, joined, opened, openings, shows, quits>>
  BY DEF FetchEnds, familyBounds
<1>2. CASE FetchFails(t) /\ excuses' = excuses \cup {"failed"}
  <2>1. task[t].pc # "idle" /\ EndTask(t) /\ fam' = Masked(fam, FALSE)  BY <1>2 DEF FetchFails
  <2>2. QED  BY <1>1, <1>2, <2>1, FailKeeps
<1>3. CASE FetchSucceeds(t) /\ excuses' = excuses \ {"failed"}  BY <1>1, <1>3, FetchSucceedsKeeps
<1>4. QED  BY <1>2, <1>3 DEF FetchEnds

LEMMA LinkEndsKeeps == ASSUME FamInv, NEW t \in Tasks, LinkEnds(t) PROVE FamInv'
<1> DEFINE v == task[t].read
<1>1. /\ task[t].pc = "link" /\ EndTask(t)
      /\ excuses' = (IF fam.shown THEN excuses ELSE excuses \cup {"failed"})
      /\ UNCHANGED <<pendingLink, loggedIn, srv, joined, opened, openings, shows, quits>>
  BY DEF LinkEnds, familyBounds
<1>2. PICK g \in {fam} \cup (IF task[t].done THEN {PutData(fam, "link", v)} ELSE {}) :
        fam' = Masked([PutData(g, "ready", g.link # 0) EXCEPT !.creating = FALSE], FALSE)
  BY DEF LinkEnds, LinkReady
<1>3. /\ v \in Nat /\ v <= Newest /\ fam.open
      /\ task[t].done => v # 0 /\ ("moved" \notin excuses => v = srv.home)
  BY <1>1, TaskOpen, FamIs DEF FamTasks, TaskFits, FamInv, LinkShared
<1>4. fam.shown => fam.late = NoWrite  BY DEF FamInv, Masking
<1>5. /\ g \in FamPages /\ g.open = fam.open /\ g.shown = fam.shown /\ g.list = fam.list /\ g.ready = fam.ready
      /\ g.mask = fam.mask /\ g.late.list = fam.late.list
      /\ g.link \in {fam.link, v} /\ (fam.link # 0 => g.link # 0) /\ (~fam.shown => g.link = fam.link)
      /\ \A x \in g.late.link : x \in fam.late.link \/ (x = v /\ v # 0)
      /\ g.shown => g.late = NoWrite
      /\ g.link <= Newest
      /\ LatestOf(g, "link") # 0 /\ "moved" \notin excuses => LatestOf(g, "link") = srv.home
  <2>0. fam \in FamPages /\ fam.link <= Newest  BY FamIs DEF FamInv, FamData
  <2>1. CASE g = fam  BY <1>4, <2>0, <2>1 DEF FamInv, LinkShared
  <2>2. CASE g # fam
    <3>1. task[t].done /\ g = PutData(fam, "link", v)  BY <1>2, <2>2
    <3>2. /\ g \in FamPages /\ g.open = fam.open /\ g.shown = fam.shown /\ g.list = fam.list /\ g.ready = fam.ready
          /\ g.mask = fam.mask /\ g.late.list = fam.late.list
          /\ fam.shown => g.link = v /\ g.late = fam.late
          /\ ~fam.shown => g.link = fam.link /\ g.late.link = {v}
      <4>1. fam \in FamPages /\ v \in Nat /\ g = PutData(fam, "link", v)  BY <1>3, <2>0, <3>1
      <4>2. QED  BY <4>1, PutLinkIs
    <3>3. LatestOf(g, "link") = v
      <4>1. g.shown => g.late.link = {}  BY <1>4, <3>2, BlankIs
      <4>2. QED  BY <3>2, <4>1, LatestIs
    <3>4. QED  BY <1>3, <1>4, <2>0, <3>1, <3>2, <3>3
  <2>3. QED  BY <2>1, <2>2
<1> DEFINE h == PutData(g, "ready", g.link # 0)
           k == [h EXCEPT !.creating = FALSE]
<1>6. /\ h \in FamPages /\ h.open = g.open /\ h.shown = g.shown /\ h.list = g.list /\ h.link = g.link
      /\ h.mask = g.mask /\ h.late.list = g.late.list /\ h.late.link = g.late.link
      /\ h.shown => h.late = NoWrite /\ (h.ready <=> h.link # 0)
      /\ ~h.shown => h.ready = g.ready /\ (TRUE \in h.late.ready => h.link # 0)
  BY <1>5, ReadyIs
<1>7. fam' = Masked(k, FALSE)  BY <1>2
<1> HIDE DEF h
<1>8. /\ k \in FamPages /\ k.open = h.open /\ k.shown = h.shown /\ k.list = h.list /\ k.link = h.link
      /\ k.mask = h.mask /\ k.late = h.late /\ k.ready = h.ready
  BY <1>6 DEF FamPages
<1> HIDE DEF k
<1>9. /\ fam' \in FamPages /\ fam'.open = k.open /\ fam'.shown = k.shown /\ fam'.list = k.list /\ fam'.link = k.link
      /\ fam'.ready = k.ready /\ fam'.late = k.late /\ fam'.mask = (IF k.shown THEN FALSE ELSE k.mask)
  BY <1>7, <1>8, MaskedIs
<1>10. task' \in [Tasks -> FamTasks] /\ task'[t] = NoTask /\ \A u \in Tasks : u # t => task'[u] = task[u]
  BY <1>1, FamIs, EndIs
<1>11. OneTurn(t)
  <2>1. loggedIn' \in BOOLEAN /\ (loggedIn => loggedIn') /\ quits' \in 0..MaxQuits
    BY <1>1 DEF FamInv, FamData
  <2>2. QED  BY <1>1, <1>3, <1>5, <1>6, <1>8, <1>9, <1>10, <2>1 DEF OneTurn
<1>12. ~fam'.mask  BY <1>5, <1>6, <1>8, <1>9 DEF FamInv, Masking
<1>13. /\ fam'.link <= Newest /\ fam'.list <= srv.count /\ \A x \in fam'.late.list : x <= srv.count
  BY <1>5, <1>6, <1>8, <1>9 DEF FamInv, FamData
<1>14. \A x \in fam'.late.link : 0 < x /\ x <= Newest
  <2>1. fam'.late.link = g.late.link  BY <1>6, <1>8, <1>9
  <2>2. v # 0 => 0 < v  BY <1>3
  <2>3. QED  BY <1>3, <1>5, <2>1, <2>2 DEF FamInv, FamData
<1>15. LatestOf(fam', "link") # 0 /\ "moved" \notin excuses => LatestOf(fam', "link") = srv.home
  <2>1. LatestOf(fam', "link") = LatestOf(g, "link")  BY <1>6, <1>8, <1>9, LatestLink
  <2>2. QED  BY <1>5, <2>1
<1>16. fam'.ready => fam'.link # 0
  <2>1. fam.ready => fam.link # 0  BY DEF FamInv, LinkShared
  <2>2. QED  BY <1>5, <1>6, <1>8, <1>9, <2>1
<1>17. TRUE \in fam'.late.ready => fam'.link # 0
  <2>1. TRUE \notin NoWrite.ready  BY BlankIs
  <2>2. QED  BY <1>6, <1>8, <1>9, <2>1
<1>18. FamCalm' /\ fam'.list # 0 /\ excuses' \cap {"failed", "overtaken"} = {} => fam'.list = srv.count
  <2>1. FamCalm' => FamCalm  BY <1>1, <1>5, <1>6, <1>8, <1>9, <1>10 DEF FamCalm
  <2>2. FamCalm' => excuses' = excuses  BY <1>1, <2>1 DEF FamCalm
  <2>3. fam'.list = fam.list  BY <1>5, <1>6, <1>8, <1>9
  <2>4. QED  BY <2>1, <2>2, <2>3 DEF FamInv, MembersRead, Unread
<1>19. AtRest' /\ fam'.link # 0 /\ fam'.list # 0 /\ "failed" \notin excuses' => fam'.ready
  BY <1>6, <1>8, <1>9 DEF AtRest
<1>20. /\ fam'.shown => fam'.late = NoWrite
       /\ "failed" \in excuses /\ ~loggedIn' => "failed" \in excuses'
       /\ "moved" \in excuses' <=> "moved" \in excuses
       /\ "overtaken" \in excuses' <=> "overtaken" \in excuses
  BY <1>1, <1>6, <1>8, <1>9
<1>21. pendingLink' \in {0, opened} /\ (opened # 0 => pendingLink' = opened \/ joined)
  BY <1>1 DEF FamInv, LinkOpened
<1>22. QED  BY <1>11, <1>12, <1>13, <1>14, <1>15, <1>16, <1>17, <1>18, <1>19, <1>20, <1>21, TurnKeeps

-----------------------------------------------------------------------------
\* The page is shown.
LEMMA OnShowIs ==
  ASSUME task \in [Tasks -> FamTasks], NEW t \in Tasks, NEW g \in FamPages, g.shown, ~g.mask, NEW l \in Nat,
         OnShow(t, g, l)
  PROVE  /\ fam' \in FamPages /\ fam'.open = g.open /\ fam'.shown = g.shown /\ fam'.list = g.list
         /\ fam'.link = g.link /\ fam'.ready = g.ready /\ fam'.late = g.late
         /\ task' \in [Tasks -> FamTasks] /\ \A u \in Tasks : u # t => task'[u] = task[u]
         /\ fam'.mask => task'[t].pc \in {"join", "fetch"}
         /\ loggedIn => task'[t].pc \in {"join", "fetch"}
         /\ \/ task' = task
            \/ /\ task'[t].pc \in {"login", "join", "fetch"} /\ task'[t].done = FALSE /\ task'[t].read = 0
               /\ task'[t].pc \in {"login", "join"} => task'[t].link = l /\ l # 0
<1>1. CASE loggedIn /\ l # 0 /\ BeginTask(t, "join", l) /\ fam' = Masked(g, TRUE)
  <2>1. PICK kind \in FamPcs : kind = "join"  BY DEF FamPcs
  <2>2. /\ task' \in [Tasks -> FamTasks] /\ \A u \in Tasks : u # t => task'[u] = task[u]
        /\ task'[t].pc = kind /\ task'[t].link = l /\ task'[t].done = FALSE /\ task'[t].read = 0
    BY <1>1, <2>1, BeginIs
  <2>3. /\ fam' \in FamPages /\ fam'.open = g.open /\ fam'.shown = g.shown /\ fam'.list = g.list
        /\ fam'.link = g.link /\ fam'.ready = g.ready /\ fam'.late = g.late
    BY <1>1, MaskedIs
  <2>4. QED  BY <1>1, <2>1, <2>2, <2>3
<1>2. CASE loggedIn /\ l = 0 /\ BeginTask(t, "fetch", 0) /\ fam' = Masked(g, TRUE)
  <2>1. PICK kind \in FamPcs : kind = "fetch"  BY DEF FamPcs
  <2>2. /\ task' \in [Tasks -> FamTasks] /\ \A u \in Tasks : u # t => task'[u] = task[u]
        /\ task'[t].pc = kind /\ task'[t].done = FALSE /\ task'[t].read = 0
    BY <1>2, <2>1, BeginIs
  <2>3. /\ fam' \in FamPages /\ fam'.open = g.open /\ fam'.shown = g.shown /\ fam'.list = g.list
        /\ fam'.link = g.link /\ fam'.ready = g.ready /\ fam'.late = g.late
    BY <1>2, MaskedIs
  <2>4. QED  BY <1>2, <2>1, <2>2, <2>3
<1>3. CASE ~loggedIn /\ l # 0 /\ BeginTask(t, "login", l) /\ fam' = g
  <2>1. PICK kind \in FamPcs : kind = "login"  BY DEF FamPcs
  <2>2. /\ task' \in [Tasks -> FamTasks] /\ \A u \in Tasks : u # t => task'[u] = task[u]
        /\ task'[t].pc = kind /\ task'[t].link = l /\ task'[t].done = FALSE /\ task'[t].read = 0
    BY <1>3, <2>1, BeginIs
  <2>3. QED  BY <1>3, <2>1, <2>2
<1>4. CASE ~loggedIn /\ l = 0 /\ fam' = g /\ UNCHANGED task  BY <1>4
<1>5. QED  BY <1>1, <1>2, <1>3, <1>4 DEF OnShow

LEMMA OnShowFamKeeps ==
  ASSUME FamInv, NEW t \in Tasks, task[t].pc = "idle", NEW g \in FamPages, g.open, g.shown, g.late = NoWrite, ~g.mask,
         g.link <= Newest, g.list <= srv.count, g.ready => g.link # 0,
         g.link # 0 /\ "moved" \notin excuses' => g.link = srv.home,
         OnShow(t, g, pendingLink'), pendingLink' \in {0, opened'}, opened' \in 0..Links,
         opened' # 0 => pendingLink' = opened' \/ joined', joined' \in BOOLEAN,
         \A u \in Tasks : task[u].pc \in {"login", "join"} => opened' = opened /\ joined' = joined,
         UNCHANGED <<loggedIn, srv, quits>>, openings' \in 0..MaxOpenings, shows' \in 0..MaxShows,
         ~loggedIn => "failed" \in excuses',
         \A u \in Tasks : task[u].pc # "idle" =>
           ("moved" \in excuses => "moved" \in excuses') /\ ("overtaken" \in excuses => "overtaken" \in excuses')
  PROVE  FamInv'
<1>1. pendingLink' \in Nat  BY FamBounds
<1>2. /\ fam' \in FamPages /\ fam'.open = g.open /\ fam'.shown = g.shown /\ fam'.list = g.list
      /\ fam'.link = g.link /\ fam'.ready = g.ready /\ fam'.late = g.late
      /\ task' \in [Tasks -> FamTasks] /\ \A u \in Tasks : u # t => task'[u] = task[u]
      /\ fam'.mask => task'[t].pc \in {"join", "fetch"}
      /\ loggedIn => task'[t].pc \in {"join", "fetch"}
      /\ \/ task' = task
         \/ /\ task'[t].pc \in {"login", "join", "fetch"} /\ task'[t].done = FALSE /\ task'[t].read = 0
            /\ task'[t].pc \in {"login", "join"} => task'[t].link = pendingLink' /\ pendingLink' # 0
  BY <1>1, FamIs, OnShowIs
<1>3. Newest' = Newest /\ srv' = srv /\ fam'.late.link = {} /\ fam'.late.list = {} /\ fam'.late.ready = {}
  BY <1>2, BlankIs DEF Newest
<1>4. FamData'
  <2>1. fam'.link <= Newest /\ fam'.list <= srv.count  BY <1>2
  <2>2. QED  BY <1>2, <1>3, <2>1 DEF FamInv, FamData
<1>5. FamTasksFit'
  <2>1. \A u \in Tasks : task'[u] = task[u] => TaskFits(u)'  BY <1>2, <1>3, FamIs DEF TaskFits
  <2>2. task'[t] # task[t] => TaskFits(t)'
    <3>1. 0 <= Newest /\ 0 <= srv.count  BY FamIs
    <3>2. QED  BY <1>2, <1>3, <3>1 DEF TaskFits
  <2>3. QED  BY <1>2, <2>1, <2>2 DEF FamTasksFit
<1>6. Masking'  BY <1>2 DEF Masking
<1>7. LinkOpened'
  <2>1. \A u \in Tasks : task'[u] = task[u] /\ task'[u].pc \in {"login", "join"} =>
          /\ task'[u].link = opened' /\ opened' # 0
          /\ task'[u].done => joined'
    BY DEF FamInv, LinkOpened
  <2>2. task'[t] # task[t] /\ task'[t].pc \in {"login", "join"} =>
          task'[t].link = opened' /\ opened' # 0 /\ ~task'[t].done
    BY <1>2
  <2>3. QED  BY <1>2, <2>1, <2>2 DEF LinkOpened
<1>8. LinkShared'
  <2>1. LatestOf(fam, "link")' = g.link  BY <1>2, <1>3, LatestIs
  <2>2. \A u \in Tasks : task'[u].pc = "link" /\ task'[u].done => task'[u] = task[u]  BY <1>2
  <2>3. \A u \in Tasks : task'[u].pc = "link" /\ task'[u].done =>
          task'[u].read # 0 /\ ("moved" \notin excuses' => task'[u].read = srv.home)
    BY <2>2 DEF FamInv, LinkShared
  <2>4. QED  BY <1>2, <1>3, <2>1, <2>3 DEF LinkShared
<1>9. MembersRead'
  <2>1. \A u \in Tasks : task'[u].pc = "fetch" /\ task'[u].done => task'[u] = task[u]  BY <1>2
  <2>2. \A u \in Tasks : task'[u].pc = "fetch" /\ task'[u].done /\ "overtaken" \notin excuses' =>
          task'[u].read = srv.count
    BY <2>1 DEF FamInv, MembersRead
  <2>3. FamCalm' \/ AtRest' => "failed" \in excuses'  BY <1>2 DEF FamCalm, AtRest
  <2>4. QED  BY <1>3, <2>2, <2>3 DEF MembersRead
<1>10. QED  BY <1>4, <1>5, <1>6, <1>7, <1>8, <1>9 DEF FamInv

LEMMA OpenFamilyKeeps == ASSUME FamInv, NEW t \in Tasks, NEW l \in 0..Links, OpenFamily(t, l) PROVE FamInv'
<1> DEFINE g == [Blank EXCEPT !.open = TRUE, !.shown = TRUE]
<1>1. /\ ~fam.open /\ openings < MaxOpenings /\ openings' = openings + 1 /\ task[t].pc = "idle"
      /\ IF l = 0 THEN UNCHANGED <<pendingLink, opened, joined>>
                  ELSE pendingLink' = l /\ opened' = l /\ joined' = FALSE
      /\ OnShow(t, g, pendingLink')
      /\ excuses' = (excuses \ {"moved", "failed", "overtaken"}) \cup Unasked
      /\ UNCHANGED <<loggedIn, srv, shows, quits>>
  BY DEF OpenFamily, TaskFree
<1>2. \A u \in Tasks : task[u].pc = "idle"  BY <1>1, TaskOpen
<1>3. /\ g \in FamPages /\ g.open /\ g.shown /\ g.late = NoWrite /\ ~g.mask /\ g.link = 0 /\ g.list = 0 /\ ~g.ready
  BY DEF Blank, FamPages, FamLate, NoWrite, Unread
<1>4. g.link <= Newest /\ g.list <= srv.count  BY <1>3, FamIs
<1>5. /\ pendingLink' \in {0, opened'} /\ opened' \in 0..Links
      /\ (opened' # 0 => pendingLink' = opened' \/ joined') /\ joined' \in BOOLEAN
  BY <1>1 DEF FamInv, FamData, LinkOpened
<1>6. openings' \in 0..MaxOpenings /\ shows' \in 0..MaxShows  BY <1>1, FamBounds DEF FamInv, FamData
<1>7. ~loggedIn => "failed" \in excuses'  BY <1>1 DEF Unasked
<1> HIDE DEF g
<1>8. QED  BY <1>1, <1>2, <1>3, <1>4, <1>5, <1>6, <1>7, OnShowFamKeeps

LEMMA ShowFamilyKeeps == ASSUME FamInv, NEW t \in Tasks, ShowFamily(t) PROVE FamInv'
<1> DEFINE p == [fam EXCEPT !.shown = TRUE]
           g == Applied(p)
<1>1. /\ fam.open /\ ~fam.shown /\ shows < MaxShows /\ shows' = shows + 1 /\ task[t].pc = "idle"
      /\ OnShow(t, g, pendingLink) /\ excuses' = excuses \cup Unasked
      /\ UNCHANGED <<pendingLink, loggedIn, srv, opened, joined, openings, quits>>
  BY DEF ShowFamily, TaskFree
<1>2. fam \in FamPages /\ fam.mask = FALSE  BY <1>1, FamIs DEF FamInv, Masking, FamPages
<1>3. /\ p \in FamPages /\ p.shown /\ p.open = fam.open /\ p.list = fam.list /\ p.link = fam.link
      /\ p.ready = fam.ready /\ p.late = fam.late /\ p.mask = FALSE
  BY <1>2 DEF FamPages
<1>4. g = [p EXCEPT !.list = LatestOf(p, "list"), !.link = LatestOf(p, "link"),
                    !.ready = LatestOf(p, "ready"), !.late = NoWrite]
  BY DEF Applied
<1> HIDE DEF p, g
<1>5. LatestOf(p, "link") \in Nat /\ LatestOf(p, "link") <= Newest /\ (fam.link # 0 => LatestOf(p, "link") # 0)
      /\ (LatestOf(p, "link") # 0 /\ "moved" \notin excuses => LatestOf(p, "link") = srv.home)
  <2>1. LatestOf(p, "link") = LatestOf(fam, "link")  BY <1>3, LatestLink
  <2>2. /\ fam.late.link = {} => LatestOf(fam, "link") = fam.link
        /\ LatestOf(fam, "link") \in fam.late.link \cup {fam.link}
    BY <1>2, LatestIs
  <2>3. fam.link \in Nat /\ fam.late.link \in SUBSET Nat  BY <1>2 DEF FamPages, FamLate
  <2>4. fam.link <= Newest /\ \A v \in fam.late.link : 0 < v /\ v <= Newest  BY DEF FamInv, FamData
  <2>5. LatestOf(fam, "link") # 0 /\ "moved" \notin excuses => LatestOf(fam, "link") = srv.home
    BY DEF FamInv, LinkShared
  <2>6. QED  BY <2>1, <2>2, <2>3, <2>4, <2>5
<1>6. LatestOf(p, "list") \in Nat /\ LatestOf(p, "list") <= srv.count
  <2>1. p.list \in Nat /\ p.late.list \in SUBSET Nat /\ p.list <= srv.count /\ \A v \in p.late.list : v <= srv.count
    BY <1>3 DEF FamPages, FamLate, FamInv, FamData
  <2>2. p.late.list # {} => (CHOOSE v \in p.late.list : TRUE) \in p.late.list  OBVIOUS
  <2>3. LatestOf(p, "list") \in p.late.list \cup {p.list}  BY <2>2 DEF LatestOf
  <2>4. QED  BY <2>1, <2>3
<1>7. LatestOf(p, "ready") \in BOOLEAN /\ (LatestOf(p, "ready") => LatestOf(p, "link") # 0)
  <2>1. p.ready \in BOOLEAN /\ p.late.ready \in SUBSET BOOLEAN  BY <1>3 DEF FamPages, FamLate
  <2>2. p.late.ready # {} => (CHOOSE v \in p.late.ready : TRUE) \in p.late.ready  OBVIOUS
  <2>3. (p.ready => fam.link # 0) /\ (TRUE \in p.late.ready => fam.link # 0)  BY <1>3 DEF FamInv, LinkShared
  <2>4. CASE p.late.ready = {}
    <3>1. LatestOf(p, "ready") = p.ready  BY <2>4 DEF LatestOf
    <3>2. QED  BY <1>5, <2>1, <2>3, <3>1
  <2>5. CASE p.late.ready # {}
    <3>1. LatestOf(p, "ready") \in p.late.ready  BY <2>2, <2>5 DEF LatestOf
    <3>2. PICK v \in BOOLEAN : v = LatestOf(p, "ready")  BY <2>1, <3>1
    <3>3. v => fam.link # 0  BY <2>3, <3>1, <3>2
    <3>4. QED  BY <1>5, <3>2, <3>3
  <2>6. QED  BY <2>4, <2>5
<1>8. /\ g \in FamPages /\ g.open /\ g.shown /\ g.late = NoWrite /\ g.mask = FALSE
      /\ g.link = LatestOf(p, "link") /\ g.list = LatestOf(p, "list") /\ g.ready = LatestOf(p, "ready")
  BY <1>1, <1>3, <1>4, <1>5, <1>6, <1>7, BlankIs DEF FamPages
<1>9. /\ g.link <= Newest /\ g.list <= srv.count /\ (g.ready => g.link # 0)
      /\ (g.link # 0 /\ "moved" \notin excuses' => g.link = srv.home)
  BY <1>1, <1>5, <1>6, <1>7, <1>8
<1>10. /\ pendingLink' \in {0, opened'} /\ opened' \in 0..Links
       /\ (opened' # 0 => pendingLink' = opened' \/ joined') /\ joined' \in BOOLEAN
  BY <1>1 DEF FamInv, FamData, LinkOpened
<1>11. openings' \in 0..MaxOpenings /\ shows' \in 0..MaxShows  BY <1>1, FamBounds DEF FamInv, FamData
<1>12. ~loggedIn => "failed" \in excuses'  BY <1>1 DEF Unasked
<1>13. OnShow(t, g, pendingLink')  BY <1>1
<1>14. QED  BY <1>1, <1>8, <1>9, <1>10, <1>11, <1>12, <1>13, OnShowFamKeeps

LEMMA UnloadFamilyKeeps == FamInv /\ UnloadFamily => FamInv'
<1> SUFFICES ASSUME FamInv, UnloadFamily PROVE FamInv'  OBVIOUS
<1>1. /\ fam' = Blank /\ task' = [t \in Tasks |-> NoTask]
      /\ UNCHANGED <<pendingLink, loggedIn, srv, joined, excuses, opened, openings, shows, quits>>
  BY DEF UnloadFamily, familyBounds
<1>2. (\A t \in Tasks : task'[t] = NoTask) /\ task' \in [Tasks -> FamTasks]  BY <1>1, NoTaskIs
<1>3. Newest' = Newest /\ 0 <= Newest /\ 0 <= srv.count  BY <1>1, FamIs DEF Newest
<1>4. /\ fam' \in FamPages /\ ~fam'.open /\ ~fam'.shown /\ fam'.list = 0 /\ fam'.link = 0 /\ ~fam'.ready
      /\ ~fam'.mask /\ fam'.late.link = {} /\ fam'.late.list = {} /\ fam'.late.ready = {}
  BY <1>1, BlankIs
<1>5. FamData'
  <2>1. fam'.link <= Newest /\ fam'.list <= srv.count  BY <1>3, <1>4
  <2>2. QED  BY <1>1, <1>2, <1>3, <1>4, <2>1 DEF FamInv, FamData
<1>6. FamTasksFit'  BY <1>1, <1>2, <1>3, NoTaskIs DEF FamTasksFit, TaskFits
<1>7. Masking'  BY <1>4 DEF Masking
<1>8. LinkOpened'  BY <1>1, <1>2, NoTaskIs DEF FamInv, LinkOpened
<1>9. LinkShared'
  <2>1. LatestOf(fam, "link")' = 0  BY <1>4, LatestIs
  <2>2. QED  BY <1>2, <1>4, <2>1, NoTaskIs DEF LinkShared
<1>10. MembersRead'  BY <1>2, <1>4, NoTaskIs DEF MembersRead, FamCalm, AtRest
<1>11. QED  BY <1>5, <1>6, <1>7, <1>8, <1>9, <1>10 DEF FamInv

-----------------------------------------------------------------------------
\* What a request does at the server.
LEMMA EffectIs ==
  ASSUME FamInv, NEW t \in Tasks, task[t].pc \in {"join", "fetch", "link", "leave", "remove"}, srv' = Effect(t)
  PROVE  /\ srv' \in [home : Nat, made : Nat, count : Nat] /\ srv.count <= srv'.count /\ srv.made <= srv'.made
         /\ srv'.home <= Newest' /\ Newest <= Newest' /\ Newest' \in Nat
         /\ task[t].pc = "fetch" => srv' = srv
         /\ task[t].pc = "link" => srv'.count = srv.count /\ srv'.home # 0
<1>1. /\ srv \in [home : Nat, made : Nat, count : Nat] /\ srv.home <= Links + srv.made /\ Links \in Nat
      /\ task[t].link \in Nat
  BY FamIs, FamBounds DEF FamInv, FamData, Newest, FamTasks
<1>2. srv.home \in Nat /\ srv.made \in Nat /\ srv.count \in Nat /\ srv.count + 1 \in Nat /\ srv.made + 1 \in Nat
      /\ Links + srv.made + 1 \in Nat /\ Links + srv.made \in Nat
  BY <1>1
<1>3. \A h \in Nat :
        LET s == [srv EXCEPT !.home = h, !.count = @ + 1]
        IN  s \in [home : Nat, made : Nat, count : Nat] /\ s.home = h /\ s.count = srv.count + 1 /\ s.made = srv.made
  BY <1>1, <1>2
<1>4. CASE task[t].pc = "join" /\ srv.home # task[t].link
  <2>1. srv' = [srv EXCEPT !.home = task[t].link, !.count = @ + 1]  BY <1>4 DEF Effect, Moved
  <2>2. srv' \in [home : Nat, made : Nat, count : Nat] /\ srv'.home = task[t].link /\ srv'.count = srv.count + 1
        /\ srv'.made = srv.made
    BY <1>1, <1>3, <2>1
  <2>3. task[t].link <= Links  BY <1>4 DEF FamInv, LinkOpened, FamData
  <2>4. QED  BY <1>1, <1>2, <1>4, <2>2, <2>3 DEF Newest
<1>5. CASE task[t].pc = "link" /\ srv.home = 0
  <2> DEFINE n == Links + srv.made + 1
  <2>1. srv' = [srv EXCEPT !.home = n, !.made = @ + 1]  BY <1>5 DEF Effect
  <2>2. srv' \in [home : Nat, made : Nat, count : Nat] /\ srv'.home = n /\ srv'.count = srv.count
        /\ srv'.made = srv.made + 1
    BY <1>1, <1>2, <2>1
  <2>3. n # 0 /\ n <= Links + (srv.made + 1) /\ Links + srv.made <= Links + (srv.made + 1)  BY <1>1, <1>2
  <2>4. QED  BY <1>1, <1>2, <1>5, <2>2, <2>3 DEF Newest
<1>6. CASE task[t].pc = "leave"
  <2>1. srv' = [srv EXCEPT !.home = 0, !.count = @ + 1]  BY <1>6 DEF Effect, Moved
  <2>2. PICK h \in Nat : h = 0  OBVIOUS
  <2>3. srv' \in [home : Nat, made : Nat, count : Nat] /\ srv'.home = 0 /\ srv'.count = srv.count + 1
        /\ srv'.made = srv.made
    BY <1>3, <2>1, <2>2
  <2>4. QED  BY <1>1, <1>2, <1>6, <2>3 DEF Newest
<1>7. CASE task[t].pc = "remove"
  <2>1. srv' = [srv EXCEPT !.count = @ + 1]  BY <1>7 DEF Effect
  <2>2. srv' \in [home : Nat, made : Nat, count : Nat] /\ srv'.home = srv.home /\ srv'.count = srv.count + 1
        /\ srv'.made = srv.made
    BY <1>1, <1>2, <2>1
  <2>3. QED  BY <1>1, <1>2, <1>7, <2>2 DEF Newest
<1>8. CASE ~(task[t].pc = "join" /\ srv.home # task[t].link) /\ ~(task[t].pc = "link" /\ srv.home = 0)
           /\ task[t].pc \notin {"leave", "remove"}
  <2>1. srv' = srv  BY <1>8 DEF Effect
  <2>2. task[t].pc = "link" => srv.home # 0  BY <1>8
  <2>3. QED  BY <1>1, <1>2, <2>1, <2>2 DEF Newest
<1>9. QED  BY <1>4, <1>5, <1>6, <1>7, <1>8

LEMMA ArrivesKeeps == ASSUME FamInv, NEW t \in Tasks, Arrives(t) PROVE FamInv'
<1> DEFINE read == IF task[t].pc = "link" THEN srv'.home ELSE srv'.count
           movedOn == srv'.home # srv.home /\ (LatestOf(fam, "link") # 0 \/ Overdue("link"))
           overtook == srv' # srv /\ Overdue("fetch")
<1>1. /\ task[t].pc \in {"join", "fetch", "link", "leave", "remove"} /\ ~task[t].done /\ loggedIn
      /\ srv' = Effect(t) /\ task' = [task EXCEPT ![t].done = TRUE, ![t].read = read]
      /\ joined' = (joined \/ (task[t].pc = "join" /\ task[t].link = opened))
      /\ excuses' = excuses \cup (IF movedOn THEN {"moved"} ELSE {}) \cup (IF overtook THEN {"overtaken"} ELSE {})
      /\ UNCHANGED <<fam, pendingLink, loggedIn, opened, openings, shows, quits>>
  BY DEF Arrives, familyBounds
<1>2. /\ srv' \in [home : Nat, made : Nat, count : Nat] /\ srv.count <= srv'.count /\ srv.made <= srv'.made
      /\ srv'.home <= Newest' /\ Newest <= Newest' /\ Newest' \in Nat
      /\ task[t].pc = "fetch" => srv' = srv
      /\ task[t].pc = "link" => srv'.count = srv.count /\ srv'.home # 0
  BY <1>1, EffectIs
<1>3. srv'.home \in Nat /\ srv'.count \in Nat /\ srv.count \in Nat /\ Newest \in Nat /\ 0 < srv.count /\ read \in Nat
  BY <1>2, FamIs
<1>4. excuses \subseteq excuses' /\ ("moved" \notin excuses' => ~movedOn) /\ ("overtaken" \notin excuses' => ~overtook)
      /\ excuses' \subseteq excuses \cup {"moved", "overtaken"}
  BY <1>1
<1>5. task \in [Tasks -> FamTasks] /\ task[t] \in FamTasks  BY FamIs
<1>6. "moved" \notin excuses' => srv'.home = srv.home \/ (LatestOf(fam, "link") = 0 /\ ~Overdue("link"))
  BY <1>4
<1>7. "overtaken" \notin excuses' => srv' = srv \/ ~Overdue("fetch")  BY <1>4
<1>8. task[t].pc = "link" => read = srv'.home  OBVIOUS
<1>9. task[t].pc # "link" => read = srv'.count  OBVIOUS
<1> HIDE DEF movedOn, overtook, read
<1>10. /\ task' \in [Tasks -> FamTasks] /\ \A u \in Tasks : u # t => task'[u] = task[u]
       /\ task'[t].pc = task[t].pc /\ task'[t].link = task[t].link /\ task'[t].done = TRUE /\ task'[t].read = read
  BY <1>1, <1>3, <1>5 DEF FamTasks
<1>11. FamData'
  <2>1. srv'.count > 0  BY <1>2, <1>3
  <2>2. fam.link \in Nat /\ fam.list \in Nat /\ fam.late.link \subseteq Nat /\ fam.late.list \subseteq Nat
    BY FamIs DEF FamPages, FamLate
  <2>3. fam'.link <= Newest' /\ fam'.list <= srv'.count  BY <1>1, <1>2, <1>3, <2>2 DEF FamInv, FamData
  <2>4. \A v \in fam'.late.link : 0 < v /\ v <= Newest'  BY <1>1, <1>2, <1>3, <2>2 DEF FamInv, FamData
  <2>5. \A v \in fam'.late.list : v <= srv'.count  BY <1>1, <1>2, <1>3, <2>2 DEF FamInv, FamData
  <2>6. joined' \in BOOLEAN  BY <1>1 DEF FamInv, FamData
  <2>7. QED  BY <1>1, <1>2, <1>10, <2>1, <2>3, <2>4, <2>5, <2>6 DEF FamInv, FamData
<1>12. FamTasksFit'
  <2>1. \A u \in Tasks : u # t => TaskFits(u)'
    <3> SUFFICES ASSUME NEW u \in Tasks, u # t PROVE TaskFits(u)'  OBVIOUS
    <3>1. task'[u] = task[u] /\ fam' = fam /\ loggedIn' = loggedIn  BY <1>1, <1>10
    <3>2. TaskFits(u) /\ task[u].read \in Nat  BY FamIs DEF FamTasks
    <3>3. task'[u].pc = "link" => task'[u].read <= Newest'  BY <1>2, <1>3, <3>1, <3>2 DEF TaskFits
    <3>4. task'[u].pc # "link" => task'[u].read <= srv'.count  BY <1>2, <1>3, <3>1, <3>2 DEF TaskFits
    <3>5. QED  BY <3>1, <3>2, <3>3, <3>4 DEF TaskFits
  <2>2. TaskFits(t)'
    <3>1. task'[t].pc = "link" => task'[t].read <= Newest'  BY <1>2, <1>8, <1>10
    <3>2. task'[t].pc # "link" => task'[t].read <= srv'.count  BY <1>3, <1>9, <1>10
    <3>3. fam'.open /\ loggedIn'  BY <1>1, TaskOpen
    <3>4. QED  BY <1>1, <1>10, <3>1, <3>2, <3>3 DEF TaskFits
  <2>3. QED  BY <2>1, <2>2 DEF FamTasksFit
<1>13. Masking'
  <2>1. \A u \in Tasks : task'[u].pc = task[u].pc  BY <1>10
  <2>2. QED  BY <1>1, <2>1 DEF FamInv, Masking
<1>14. LinkOpened'
  <2>1. \A u \in Tasks : task'[u].pc = task[u].pc /\ task'[u].link = task[u].link /\ (u # t => task'[u] = task[u])
    BY <1>10
  <2>2. joined => joined'  BY <1>1
  <2>3. task[t].pc = "join" => joined'  BY <1>1 DEF FamInv, LinkOpened
  <2>4. task'[t].pc # "login"  BY <1>1, <1>10
  <2>5. \A u \in Tasks : task'[u].pc \in {"login", "join"} =>
          /\ task'[u].link = opened /\ opened # 0
          /\ task'[u].done => joined'
    BY <2>1, <2>2, <2>3, <2>4 DEF FamInv, LinkOpened
  <2>6. pendingLink \in {0, opened} /\ (opened # 0 => pendingLink = opened \/ joined')
    BY <2>2 DEF FamInv, LinkOpened
  <2>7. QED  BY <1>1, <2>5, <2>6 DEF LinkOpened
<1>15. LinkShared'
  <2>1. \A u \in Tasks : u # t /\ task'[u].pc = "link" /\ task'[u].done =>
          task'[u].read # 0 /\ ("moved" \notin excuses' => task'[u].read = srv'.home)
    <3> SUFFICES ASSUME NEW u \in Tasks, u # t, task'[u].pc = "link", task'[u].done
                 PROVE  task'[u].read # 0 /\ ("moved" \notin excuses' => task'[u].read = srv'.home)
      OBVIOUS
    <3>1. task'[u] = task[u] /\ Overdue("link")  BY <1>10 DEF Overdue
    <3>2. "moved" \notin excuses' => srv'.home = srv.home /\ "moved" \notin excuses  BY <1>4, <1>6, <3>1
    <3>3. QED  BY <3>1, <3>2 DEF FamInv, LinkShared
  <2>2. task'[t].pc = "link" => task'[t].read = srv'.home /\ srv'.home # 0  BY <1>2, <1>8, <1>10
  <2>3. LatestOf(fam, "link")' = LatestOf(fam, "link")  BY <1>1
  <2>4. LatestOf(fam, "link") # 0 /\ "moved" \notin excuses' => LatestOf(fam, "link") = srv'.home
    BY <1>4, <1>6 DEF FamInv, LinkShared
  <2>5. (fam'.ready => fam'.link # 0) /\ (TRUE \in fam'.late.ready => fam'.link # 0)  BY <1>1 DEF FamInv, LinkShared
  <2>6. QED  BY <2>1, <2>2, <2>3, <2>4, <2>5 DEF LinkShared
<1>16. MembersRead'
  <2>1. \A u \in Tasks : task'[u].pc = "fetch" /\ task'[u].done /\ "overtaken" \notin excuses' =>
          task'[u].read = srv'.count
    <3> SUFFICES ASSUME NEW u \in Tasks, task'[u].pc = "fetch", task'[u].done, "overtaken" \notin excuses'
                 PROVE  task'[u].read = srv'.count
      OBVIOUS
    <3>1. CASE u = t  BY <1>9, <1>10, <3>1
    <3>2. CASE u # t
      <4>1. task'[u] = task[u] /\ Overdue("fetch")  BY <1>10, <3>2 DEF Overdue
      <4>2. srv' = srv /\ "overtaken" \notin excuses  BY <1>4, <1>7, <4>1
      <4>3. QED  BY <4>1, <4>2 DEF FamInv, MembersRead
    <3>3. QED  BY <3>1, <3>2
  <2>2. FamCalm' => FamCalm /\ srv'.count = srv.count  BY <1>1, <1>2, <1>10 DEF FamCalm
  <2>3. ~AtRest'  BY <1>1, <1>10 DEF AtRest
  <2>4. FamCalm' /\ fam'.list # 0 /\ excuses' \cap {"failed", "overtaken"} = {} => fam'.list = srv'.count
    BY <1>1, <1>4, <2>2 DEF FamInv, MembersRead, Unread
  <2>5. QED  BY <2>1, <2>3, <2>4 DEF MembersRead, Unread
<1>17. QED  BY <1>11, <1>12, <1>13, <1>14, <1>15, <1>16 DEF FamInv

LEMMA FamInvStep == FamInv /\ [FamilyPageNext]_familyVars => FamInv'
<1> SUFFICES ASSUME FamInv, [FamilyPageNext]_familyVars PROVE FamInv'  OBVIOUS
<1>1. CASE UNCHANGED familyVars
  <2>1. UNCHANGED <<fam, task, loggedIn, srv, pendingLink, opened, joined, excuses, openings, shows, quits>>
    BY <1>1 DEF familyVars
  <2>2. loggedIn \in BOOLEAN /\ fam \in FamPages /\ (fam.mask => fam.shown)
    BY FamIs DEF FamInv, FamData, Masking
  <2>3. QED  BY <2>1, <2>2, NoTurn
<1>2. ASSUME NEW t \in Tasks, (\E l \in 0..Links : OpenFamily(t, l)) \/ ShowFamily(t) \/ Arrives(t) \/ AnswerQuit(t)
      PROVE  FamInv'
  BY <1>2, OpenFamilyKeeps, ShowFamilyKeeps, ArrivesKeeps, AnswerQuitKeeps
<1>3. ASSUME FamilyAnswers PROVE FamInv'
  BY <1>3, LinkLoginEndsKeeps, JoinEndsKeeps, FetchEndsKeeps, LinkEndsKeeps, QuitEndsKeeps DEF FamilyAnswers
<1>4. QED  BY <1>1, <1>2, <1>3, HideFamilyKeeps, UnloadFamilyKeeps, OthersLogInKeeps, AskQuitKeeps DEF FamilyPageNext

LEMMA FamInvImplies ==
  FamInv => FamilyPageTypeOK /\ MaskIsAwaited /\ LinkIsKept /\ LinkIsOfHome /\ LinkIsOffered /\ MembersAgree
<1> SUFFICES ASSUME FamInv
             PROVE  FamilyPageTypeOK /\ MaskIsAwaited /\ LinkIsKept /\ LinkIsOfHome /\ LinkIsOffered /\ MembersAgree
  OBVIOUS
<1>1. FamilyPageTypeOK
  <2>1. fam.ask \in {"no", "leave", "remove"} /\ fam.link \in Nat /\ fam.list \in Nat  BY FamIs DEF FamPages
  <2>2. fam.link \in 0..(Links + srv.made) /\ fam.list \in 0..srv.count
    BY <2>1, FamIs DEF FamInv, FamData, Newest
  <2>3. \A t \in Tasks : task[t].pc \in {"idle", "login", "join", "fetch", "link", "leave", "remove"}
    BY FamIs DEF FamTasks, FamPcs
  <2>4. pendingLink \in 0..Links  BY FamBounds DEF FamInv, LinkOpened, FamData
  <2>5. QED  BY <2>1, <2>2, <2>3, <2>4 DEF FamInv, FamData, FamilyPageTypeOK
<1>2. MaskIsAwaited  BY DEF FamInv, Masking, MaskIsAwaited
<1>3. LinkIsKept  BY DEF FamInv, LinkOpened, LinkIsKept
<1>4. LinkIsOfHome  BY DEF FamInv, LinkShared, LinkIsOfHome
<1>5. LinkIsOffered  BY DEF FamInv, LinkShared, MembersRead, LinkIsOffered
<1>6. MembersAgree
  <2>1. AtRest => FamCalm  BY DEF AtRest, FamCalm
  <2>2. QED  BY <2>1 DEF FamInv, MembersRead, MembersAgree
<1>7. QED  BY <1>1, <1>2, <1>3, <1>4, <1>5, <1>6

-----------------------------------------------------------------------------
(***************************************************************************)
(* The page of the backend                                                 *)
(***************************************************************************)
ConfPages ==
  [open : BOOLEAN, shown : BOOLEAN, was : {"saas", "private"}, busy : BOOLEAN, late : BOOLEAN,
   token : BOOLEAN, modal : BOOLEAN, reLogin : BOOLEAN]
ConfRequests ==
  [kind : {"register", "unregister"}, key : Keys, url : Addresses \cup {"none"},
   held : BOOLEAN, due : BOOLEAN]
ConfFlows ==
  [pc : {"idle", "register", "probe", "unregister"}, for : {"none", "test", "save"},
   key : Keys \cup {"none"}, url : Addresses \cup {"none"}, done : BOOLEAN]
Configs == {Service} \cup {Private(k, u) : k \in Keys, u \in Addresses}

ConfData ==
  /\ conf \in ConfPages /\ flow \in ConfFlows /\ loose \subseteq ConfRequests
  /\ config \in Configs /\ routes \in [Keys -> Addresses \cup {"none"}]
  /\ acct.session \in BOOLEAN /\ acct.of \in Addresses \cup {"none", "saas"} /\ keptKeys \subseteq Keys
  /\ configs \in 0..MaxConfigs /\ presses \in 0..MaxPresses /\ exits \in 0..MaxExits

\* What is asked for, and where.
Testing == flow.for = "test" /\ flow.pc \in {"register", "probe"} /\ flow.url \in Addresses
SavingOn == flow.for = "save" /\ flow.pc = "register" /\ flow.url \in Addresses
SavingOff ==
  /\ flow.for = "save" /\ flow.pc = "unregister" /\ flow.url = "none"
  /\ config.mode = "private" /\ flow.key = config.key
FlowFits ==
  \/ flow = NoFlow
  \/ /\ flow.key \in Keys /\ (Testing \/ SavingOn \/ SavingOff)
     /\ flow.pc = "probe" => ~flow.done

\* A test or save is of a page on the screen, that asked for what is to be
\* cleaned up before.
FlowShown ==
  /\ flow # NoFlow => /\ conf.shown /\ conf.busy /\ ~conf.modal /\ acct.session
                      /\ \A r \in loose : ~r.due
  /\ conf.busy => IF conf.shown THEN flow # NoFlow ELSE conf.late
  /\ conf.shown => conf.open /\ ~conf.late /\ ~conf.reLogin
  /\ ~conf.open => ~conf.modal /\ ~conf.reLogin

\* Cleaning up is for the key in use, or gives up another.
DueFits ==
  \A r \in loose : r.due =>
    \/ r.kind = "register" /\ config.mode = "private" /\ r.key = config.key /\ r.url = config.url
    \/ r.kind = "unregister" /\ (config.mode = "private" => r.key # config.key)

\* The key that the flow has moved, and those that are cleaned up.
MovedKey(k) == flow.key = k /\ (flow.done \/ flow.pc = "probe")
RestoringKey(k) == \E r \in loose : r.due /\ r.key = k
KeyFits(k) ==
  \/ MovedKey(k) \/ RestoringKey(k)
  \/ /\ config.mode = "private" /\ k = config.key => routes[k] = config.url
     /\ routes[k] # "none" => k = config.key \/ k \in keptKeys
RoutesFit ==
  Straight =>
    /\ \A k \in Keys : KeyFits(k)
    /\ flow.pc = "probe" \/ (flow.done /\ flow.pc = "register") => routes[flow.key] = flow.url

ConfInv == ConfData /\ FlowFits /\ FlowShown /\ DueFits /\ RoutesFit /\ LoginIsOfBackend

LEMMA ConfBounds == MaxConfigs \in Nat /\ MaxPresses \in Nat /\ MaxExits \in Nat /\ "none" \notin Keys /\ "none" \notin Addresses
BY BackendConfigAssumption

LEMMA ServiceIs == Service.mode = "saas" /\ Service.key = "none" /\ Service.url = "none" /\ Service \in Configs
BY DEF Service, Configs

LEMMA PrivateIs ==
  ASSUME NEW k \in Keys, NEW u \in Addresses
  PROVE  /\ Private(k, u).mode = "private" /\ Private(k, u).key = k /\ Private(k, u).url = u
         /\ Private(k, u) \in Configs
BY DEF Private, Configs

LEMMA ConfigIs ==
  config \in Configs =>
    \/ config.mode = "saas" /\ config.key = "none" /\ config = Service
    \/ config.mode = "private" /\ config.key \in Keys /\ config.url \in Addresses
<1> SUFFICES ASSUME config \in Configs, config # Service
             PROVE  config.mode = "private" /\ config.key \in Keys /\ config.url \in Addresses
  BY ServiceIs
<1>1. PICK k \in Keys, u \in Addresses : config = Private(k, u)  BY DEF Configs
<1>2. QED  BY <1>1, PrivateIs

LEMMA SentIs ==
  ASSUME NEW kind \in {"register", "unregister"}, NEW k \in Keys, NEW u \in Addresses \cup {"none"},
         NEW hh \in BOOLEAN
  PROVE  LET r == Sent(kind, k, u, hh)
         IN  r \in ConfRequests /\ r.kind = kind /\ r.key = k /\ r.url = u /\ r.held = hh /\ r.due
BY DEF Sent, ConfRequests

LEMMA UnwantedIs ==
  ASSUME NEW r \in ConfRequests
  PROVE  Unwanted(r) \in ConfRequests /\ ~Unwanted(r).due
BY DEF Unwanted, ConfRequests

LEMMA AmissIs ==
  ASSUME NEW S
  PROVE  /\ S \cap {"unrestored", "late", "abandoned"} = {} <=>
              "unrestored" \notin S /\ "late" \notin S /\ "abandoned" \notin S
         /\ S \cap {"left", "misrouted"} # {} <=> "left" \in S \/ "misrouted" \in S
OBVIOUS

\* The page stands well as long as nothing is amiss.
LEMMA StraightIs ==
  /\ Straight <=> "unrestored" \notin amiss /\ "late" \notin amiss /\ "abandoned" \notin amiss
  /\ Straight' <=> "unrestored" \notin amiss' /\ "late" \notin amiss' /\ "abandoned" \notin amiss'
<1>1. Straight <=> "unrestored" \notin amiss /\ "late" \notin amiss /\ "abandoned" \notin amiss
  BY AmissIs DEF Straight
<1>2. Straight' <=> amiss' \cap {"unrestored", "late", "abandoned"} = {}  BY DEF Straight
<1>3. Straight' <=> "unrestored" \notin amiss' /\ "late" \notin amiss' /\ "abandoned" \notin amiss'
  BY <1>2, AmissIs
<1>4. QED  BY <1>1, <1>3

LEMMA NoFlowIs ==
  /\ NoFlow.pc = "idle" /\ NoFlow.for = "none" /\ NoFlow.key = "none" /\ NoFlow.url = "none" /\ NoFlow.done = FALSE
  /\ NoFlow \in ConfFlows
  /\ FlowFits => (flow = NoFlow <=> flow.pc = "idle")
<1>1. NoFlow.pc = "idle" /\ NoFlow.for = "none" /\ NoFlow.key = "none" /\ NoFlow.url = "none" /\ NoFlow.done = FALSE
      /\ NoFlow \in ConfFlows
  BY DEF NoFlow, ConfFlows
<1>2. FlowFits => (flow = NoFlow <=> flow.pc = "idle")  BY <1>1 DEF FlowFits, Testing, SavingOn, SavingOff
<1>3. QED  BY <1>1, <1>2

LEMMA NoConfIs ==
  /\ NoConf \in ConfPages /\ NoConf.open = FALSE /\ NoConf.shown = FALSE /\ NoConf.busy = FALSE
  /\ NoConf.late = FALSE /\ NoConf.token = FALSE /\ NoConf.modal = FALSE /\ NoConf.reLogin = FALSE
BY DEF NoConf, ConfPages

LEMMA FlowOverIs ==
  ASSUME NEW c \in ConfPages
  PROVE  LET o == FlowOver(c)
         IN  /\ o \in ConfPages /\ o.open = c.open /\ o.shown = c.shown /\ o.token = c.token
             /\ o.modal = c.modal /\ o.reLogin = c.reLogin /\ o.was = c.was
             /\ c.shown => o.busy = FALSE /\ o.late = c.late
             /\ ~c.shown => o.busy = c.busy /\ o.late = TRUE
BY DEF FlowOver, ConfPages

LEMMA RoutedIs ==
  ASSUME NEW kind \in {"register", "unregister"}, NEW k \in Keys, NEW u \in Addresses \cup {"none"},
         routes \in [Keys -> Addresses \cup {"none"}]
  PROVE  LET to == Routed(kind, k, u)
         IN  /\ to \in [Keys -> Addresses \cup {"none"}] /\ \A x \in Keys : x # k => to[x] = routes[x]
             /\ to[k] = IF kind = "register" THEN u ELSE "none"
BY DEF Routed

LEMMA UnderwayIs ==
  ASSUME FlowFits, config \in Configs
  PROVE  Underway \subseteq ConfRequests /\ \A r \in Underway : r.due = FALSE
<1>1. CASE flow.pc \in {"register", "unregister"} /\ ~flow.done
  <2>1. flow.key \in Keys /\ flow.url \in Addresses \cup {"none"} /\ FALSE \in BOOLEAN
    BY <1>1, NoFlowIs DEF FlowFits, Testing, SavingOn, SavingOff
  <2>2. PICK p \in {"register", "unregister"} : p = flow.pc  BY <1>1
  <2> DEFINE s == Sent(flow.pc, flow.key, flow.url, FALSE)
  <2>3. s \in ConfRequests  BY <2>1, <2>2, SentIs
  <2>4. Underway = {Unwanted(s)}  BY <1>1 DEF Underway
  <2>5. Unwanted(s) \in ConfRequests /\ ~Unwanted(s).due  BY <2>3, UnwantedIs
  <2>6. Unwanted(s).due = FALSE  BY <2>5 DEF ConfRequests
  <2> HIDE DEF s
  <2>7. QED  BY <2>4, <2>5, <2>6
<1>2. CASE ~(flow.pc \in {"register", "unregister"} /\ ~flow.done)
  BY <1>2 DEF Underway
<1>3. QED  BY <1>1, <1>2

LEMMA CancelledIs ==
  ASSUME FlowFits, config \in Configs, loose \subseteq ConfRequests
  PROVE  CancelledRequests \subseteq ConfRequests /\ \A r \in CancelledRequests : r.due => r \in loose
<1>1. Underway \subseteq ConfRequests /\ \A r \in Underway : r.due = FALSE  BY UnderwayIs
<1>2. \A r \in loose : Unwanted(r) \in ConfRequests /\ ~Unwanted(r).due  BY UnwantedIs
<1>3. ASSUME NEW q \in CancelledRequests PROVE q \in ConfRequests /\ (q.due => q \in loose)
  <2>1. q \in Underway \/ \E r \in loose : q = IF r.held THEN Unwanted(r) ELSE r
    BY DEF CancelledRequests
  <2>2. QED  BY <2>1, <1>1, <1>2
<1>4. QED  BY <1>3

\* What was due and is not in l makes the page amiss.
LEMMA UnrestoredIs ==
  ASSUME NEW l, "unrestored" \notin Unrestored(l)
  PROVE  \A r \in loose : r.due => r \in l
BY DEF Unrestored

\* What cleans up after the flow, with a session.
CleansUp(r) ==
  /\ r \in ConfRequests /\ r.due /\ r.key = flow.key
  /\ \/ r.kind = "register" /\ config.mode = "private" /\ r.key = config.key /\ r.url = config.url
     \/ r.kind = "unregister" /\ (config.mode = "private" => r.key # config.key)

LEMMA CleanupIs ==
  ASSUME config \in Configs, flow.key \in Keys, acct.session, NEW hh \in BOOLEAN
  PROVE  \E r : Cleanup(hh) = {r} /\ CleansUp(r)
<1>1. CASE config.mode = "private" /\ config.key = flow.key
  <2> DEFINE s == Sent("register", flow.key, config.url, hh)
  <2>0. config.url \in Addresses \cup {"none"}  BY <1>1, ConfigIs
  <2>1. s \in ConfRequests /\ s.kind = "register" /\ s.key = flow.key /\ s.url = config.url /\ s.due
    BY <2>0, SentIs
  <2>2. Cleanup(hh) = {s}  BY <1>1 DEF Cleanup
  <2> HIDE DEF s
  <2>3. QED  BY <1>1, <2>1, <2>2 DEF CleansUp
<1>2. CASE ~(config.mode = "private" /\ config.key = flow.key)
  <2> DEFINE s == Sent("unregister", flow.key, "none", hh)
  <2>1. s \in ConfRequests /\ s.kind = "unregister" /\ s.key = flow.key /\ s.due
    BY SentIs
  <2>2. Cleanup(hh) = {s}  BY <1>2 DEF Cleanup
  <2> HIDE DEF s
  <2>3. QED  BY <1>2, <2>1, <2>2 DEF CleansUp
<1>3. QED  BY <1>1, <1>2

LEMMA ConfInvInit == BackendConfigInit => ConfInv
<1> SUFFICES ASSUME BackendConfigInit PROVE ConfInv  OBVIOUS
<1>1. /\ conf = NoConf /\ flow = NoFlow /\ loose = {} /\ keptKeys = {} /\ amiss = {}
      /\ acct \in {Nobody, [session |-> TRUE, of |-> Configured]}
      /\ configs = 0 /\ presses = 0 /\ exits = 0
  BY DEF BackendConfigInit
<1>2. /\ config \in Configs /\ routes \in [Keys -> Addresses \cup {"none"}]
      /\ config.mode = "private" => routes[config.key] = config.url
      /\ \A k \in Keys : routes[k] # "none" => k = config.key
  <2>1. CASE config = Service /\ routes = [k \in Keys |-> "none"]
    BY <2>1, ServiceIs
  <2>2. CASE \E k \in Keys, u \in Addresses :
               config = Private(k, u) /\ routes = [x \in Keys |-> IF x = k THEN u ELSE "none"]
    <3>1. PICK k \in Keys, u \in Addresses :
            config = Private(k, u) /\ routes = [x \in Keys |-> IF x = k THEN u ELSE "none"]
      BY <2>2
    <3>2. QED  BY <3>1, PrivateIs
  <2>3. QED  BY <2>1, <2>2 DEF BackendConfigInit
<1>3. Configured \in Addresses \cup {"saas"}  BY <1>2, ConfigIs DEF Configured
<1>4. acct.session \in BOOLEAN /\ acct.of \in Addresses \cup {"none", "saas"} /\ acct.of \in {"none", Configured}
  <2>1. CASE acct = Nobody  BY <2>1 DEF Nobody
  <2>2. CASE acct = [session |-> TRUE, of |-> Configured]
    <3>1. acct.session = TRUE /\ acct.of = Configured  BY <2>2
    <3>2. QED  BY <3>1, <1>3
  <2>3. QED  BY <1>1, <2>1, <2>2
<1>5. ConfData
  <2>1. 0 \in 0..MaxConfigs /\ 0 \in 0..MaxPresses /\ 0 \in 0..MaxExits  BY ConfBounds
  <2>2. QED  BY <1>1, <1>2, <1>4, <2>1, NoConfIs, NoFlowIs DEF ConfData
<1>6. FlowFits /\ FlowShown /\ DueFits  BY <1>1, NoConfIs DEF FlowFits, FlowShown, DueFits
<1>7. RoutesFit  BY <1>1, <1>2, NoFlowIs DEF RoutesFit, KeyFits
<1>8. LoginIsOfBackend  BY <1>4 DEF LoginIsOfBackend
<1>9. QED  BY <1>5, <1>6, <1>7, <1>8 DEF ConfInv

\* Only the page, and the session, change: what is known of the routes stays.
LEMMA PageMoves ==
  ASSUME ConfInv, conf' \in ConfPages,
         UNCHANGED <<flow, loose, routes, config, keptKeys, confBounds>>,
         acct'.session \in BOOLEAN, acct'.of \in Addresses \cup {"none", "saas"},
         Straight' => Straight, FlowShown', LoginIsOfBackend'
  PROVE  ConfInv'
<1>1. ConfData'  BY DEF ConfInv, ConfData, confBounds
<1>2. FlowFits' /\ DueFits'
  BY DEF ConfInv, FlowFits, DueFits, Testing, SavingOn, SavingOff
<1>3. \A k : (MovedKey(k)' <=> MovedKey(k)) /\ (RestoringKey(k)' <=> RestoringKey(k))
  BY DEF MovedKey, RestoringKey
<1>4. RoutesFit'  BY <1>3 DEF ConfInv, RoutesFit, KeyFits
<1>5. QED  BY <1>1, <1>2, <1>4 DEF ConfInv

\* Whose the session is, when neither it nor the configuration changes.
LEMMA LoginKept ==
  ASSUME LoginIsOfBackend, UNCHANGED <<config, acct>>, amiss \subseteq amiss',
         conf.modal => conf'.modal, conf.reLogin => conf'.reLogin
  PROVE  LoginIsOfBackend'
<1>1. Configured' = Configured  BY DEF Configured
<1>2. amiss \cap {"left", "misrouted"} # {} => amiss' \cap {"left", "misrouted"} # {}  BY AmissIs
<1>3. QED  BY <1>1, <1>2 DEF LoginIsOfBackend

LEMMA OpenConfigKeeps == ASSUME ConfInv, OpenConfig PROVE ConfInv'
<1>1. /\ ~conf.open /\ ~conf.modal /\ configs < MaxConfigs /\ configs' = configs + 1
      /\ conf' = [NoConf EXCEPT !.open = TRUE, !.shown = TRUE, !.was = config.mode]
      /\ UNCHANGED <<flow, loose, routes, config, acct, keptKeys, amiss, presses, exits>>
  BY DEF OpenConfig
<1>2. config.mode \in {"saas", "private"}  BY ConfigIs DEF ConfInv, ConfData
<1>3. /\ conf' \in ConfPages /\ conf'.open /\ conf'.shown /\ ~conf'.busy /\ ~conf'.late
      /\ ~conf'.modal /\ ~conf'.reLogin
  BY <1>1, <1>2 DEF NoConf, ConfPages
<1>4. flow = NoFlow /\ ~conf.reLogin  BY <1>1 DEF ConfInv, FlowShown
<1>5. configs' \in 0..MaxConfigs
  <2>1. configs \in 0..MaxConfigs  BY DEF ConfInv, ConfData
  <2>2. QED  BY <1>1, <2>1, ConfBounds
<1>6. ConfData'  BY <1>1, <1>3, <1>5 DEF ConfInv, ConfData
<1>7. FlowShown'  BY <1>1, <1>3, <1>4 DEF FlowShown
<1>8. FlowFits' /\ DueFits'
  BY <1>1 DEF ConfInv, FlowFits, DueFits, Testing, SavingOn, SavingOff
<1>9. \A k : (MovedKey(k)' <=> MovedKey(k)) /\ (RestoringKey(k)' <=> RestoringKey(k))
  BY <1>1 DEF MovedKey, RestoringKey
<1>10. Straight' = Straight  BY <1>1 DEF Straight
<1>11. RoutesFit'  BY <1>1, <1>9, <1>10 DEF ConfInv, RoutesFit, KeyFits
<1>12. LoginIsOfBackend'  BY <1>1, <1>4, LoginKept DEF ConfInv
<1>13. QED  BY <1>6, <1>7, <1>8, <1>11, <1>12 DEF ConfInv

\* A press is for a page with no flow; what was due, if anything, is lost.
LEMMA PressIs ==
  ASSUME ConfInv, Press
  PROVE  /\ flow = NoFlow /\ conf.shown /\ conf.open /\ ~conf.modal /\ ~conf.reLogin /\ ~conf.late /\ ~conf.busy
         /\ loose' \subseteq ConfRequests /\ \A r \in loose' : ~r.due
         /\ routes' = routes /\ configs' = configs /\ exits' = exits /\ presses' \in 0..MaxPresses
         /\ amiss \subseteq amiss'
         /\ Straight' => Straight /\ \A r \in loose : ~r.due
<1>1. /\ conf.shown /\ ~conf.modal /\ ~conf.busy /\ presses < MaxPresses /\ presses' = presses + 1
      /\ loose' = {Unwanted(r) : r \in loose} /\ amiss' = amiss \cup Unrestored(loose')
      /\ UNCHANGED <<routes, configs, exits>>
  BY DEF Press
<1>2. flow = NoFlow /\ conf.open /\ ~conf.reLogin /\ ~conf.late  BY <1>1 DEF ConfInv, FlowShown
<1>3. \A r \in loose : Unwanted(r) \in ConfRequests /\ ~Unwanted(r).due
  BY UnwantedIs DEF ConfInv, ConfData
<1>4. loose' \subseteq ConfRequests /\ \A r \in loose' : ~r.due  BY <1>1, <1>3
<1>5. presses' \in 0..MaxPresses
  <2>1. presses \in 0..MaxPresses  BY DEF ConfInv, ConfData
  <2>2. QED  BY <1>1, <2>1, ConfBounds
<1>6. Straight' => Straight /\ \A r \in loose : ~r.due
  <2>1. Straight' => Straight /\ "unrestored" \notin Unrestored(loose')  BY <1>1, StraightIs
  <2>2. QED  BY <2>1, <1>4, UnrestoredIs
<1>7. QED  BY <1>1, <1>2, <1>4, <1>5, <1>6

\* Nothing is amiss, and nothing due: the routes are those that were saved.
LEMMA RoutesAtRest ==
  ASSUME ConfInv, flow = NoFlow, Straight, \A r \in loose : ~r.due
  PROVE  \A k \in Keys : /\ config.mode = "private" /\ k = config.key => routes[k] = config.url
                         /\ routes[k] # "none" => k = config.key \/ k \in keptKeys
<1>1. \A k : ~MovedKey(k) /\ ~RestoringKey(k)  BY NoFlowIs DEF MovedKey, RestoringKey
<1>2. QED  BY <1>1 DEF ConfInv, RoutesFit, KeyFits

\* A flow is started by the press.
LEMMA StartFlowIs ==
  ASSUME ConfInv, NEW for \in {"test", "save"}, NEW p \in {"register", "unregister"}, NEW k \in Keys,
         NEW u \in Addresses \cup {"none"}, StartFlow(for, p, k, u)
  PROVE  /\ flow' \in ConfFlows /\ flow'.pc = p /\ flow'.for = for /\ flow'.key = k /\ flow'.url = u /\ flow'.done = FALSE
         /\ conf' \in ConfPages /\ conf'.open = conf.open /\ conf'.shown = conf.shown /\ conf'.busy
         /\ conf'.late = conf.late /\ conf'.modal = conf.modal /\ conf'.reLogin = conf.reLogin
<1>1. conf \in ConfPages  BY DEF ConfInv, ConfData
<1>2. QED  BY <1>1 DEF StartFlow, ConfPages, ConfFlows

\* A test, or a save of an address, begins.
LEMMA BeginsKeeps ==
  ASSUME ConfInv, NEW for \in {"test", "save"}, NEW k \in Keys, NEW u \in Addresses, Press,
         IF acct.session THEN StartFlow(for, "register", k, u)
         ELSE conf' = [conf EXCEPT !.token = TRUE] /\ UNCHANGED flow,
         UNCHANGED <<config, acct, keptKeys>>
  PROVE  ConfInv'
<1>1. /\ flow = NoFlow /\ conf.shown /\ conf.open /\ ~conf.modal /\ ~conf.reLogin /\ ~conf.late /\ ~conf.busy
      /\ loose' \subseteq ConfRequests /\ \A r \in loose' : ~r.due
      /\ routes' = routes /\ configs' = configs /\ exits' = exits /\ presses' \in 0..MaxPresses
      /\ amiss \subseteq amiss'
      /\ Straight' => Straight /\ \A r \in loose : ~r.due
  BY PressIs
<1>2. /\ conf' \in ConfPages /\ conf'.open /\ conf'.shown /\ ~conf'.late /\ ~conf'.modal /\ ~conf'.reLogin
      /\ flow' \in ConfFlows
      /\ conf'.busy => flow' # NoFlow
      /\ flow' # NoFlow => conf'.busy /\ acct.session
  <2>1. CASE acct.session
    <3>1. StartFlow(for, "register", k, u)  BY <2>1
    <3>2. flow'.pc = "register"  BY <3>1, StartFlowIs
    <3>3. flow' # NoFlow  BY <3>2, NoFlowIs
    <3>4. QED  BY <1>1, <2>1, <3>1, <3>3, StartFlowIs
  <2>2. CASE ~acct.session
    <3>1. conf' = [conf EXCEPT !.token = TRUE] /\ flow' = flow /\ conf \in ConfPages
      BY <2>2 DEF ConfInv, ConfData
    <3>2. QED  BY <1>1, <3>1, NoFlowIs DEF ConfPages
  <2>3. QED  BY <2>1, <2>2
<1>3. FlowFits' /\ ~flow'.done /\ flow'.pc # "probe"
  <2>1. CASE acct.session
    <3>1. StartFlow(for, "register", k, u)  BY <2>1
    <3>2. flow'.pc = "register" /\ flow'.for = for /\ flow'.key = k /\ flow'.url = u /\ flow'.done = FALSE
      BY <3>1, StartFlowIs
    <3>3. QED  BY <3>2 DEF FlowFits, Testing, SavingOn
  <2>2. CASE ~acct.session
    <3>1. flow' = NoFlow  BY <1>1, <2>2
    <3>2. QED  BY <3>1, NoFlowIs DEF FlowFits
  <2>3. QED  BY <2>1, <2>2
<1>4. ConfData'  BY <1>1, <1>2 DEF ConfInv, ConfData
<1>5. FlowShown'  BY <1>1, <1>2 DEF FlowShown
<1>6. DueFits'  BY <1>1 DEF DueFits
<1>7. RoutesFit'  BY <1>1, <1>3, RoutesAtRest DEF RoutesFit, KeyFits
<1>8. LoginIsOfBackend'  BY <1>1, LoginKept DEF ConfInv
<1>9. QED  BY <1>3, <1>4, <1>5, <1>6, <1>7, <1>8 DEF ConfInv

LEMMA SaveOffKeeps == ASSUME ConfInv, SaveOff PROVE ConfInv'
<1>0. Press  BY DEF SaveOff
<1>1. /\ flow = NoFlow /\ conf.shown /\ conf.open /\ ~conf.modal /\ ~conf.reLogin /\ ~conf.late /\ ~conf.busy
      /\ loose' \subseteq ConfRequests /\ \A r \in loose' : ~r.due
      /\ routes' = routes /\ configs' = configs /\ exits' = exits /\ presses' \in 0..MaxPresses
      /\ amiss \subseteq amiss'
      /\ Straight' => Straight /\ \A r \in loose : ~r.due
  BY <1>0, PressIs
<1>2. acct' = acct /\ config \in Configs /\ conf \in ConfPages  BY DEF SaveOff, ConfInv, ConfData
<1>3. DueFits'  BY <1>1 DEF DueFits
<1>4. CASE acct.session /\ config.key # "none"
  <2>1. StartFlow("save", "unregister", config.key, "none") /\ config' = config /\ keptKeys' = keptKeys
    BY <1>4 DEF SaveOff
  <2>0. config.mode = "private" /\ config.key \in Keys  BY <1>2, <1>4, ConfigIs
  <2>2. /\ flow' \in ConfFlows /\ flow'.pc = "unregister" /\ flow'.for = "save" /\ flow'.key = config.key /\ flow'.url = "none"
        /\ flow'.done = FALSE
        /\ conf' \in ConfPages /\ conf'.open = conf.open /\ conf'.shown = conf.shown /\ conf'.busy
        /\ conf'.late = conf.late /\ conf'.modal = conf.modal /\ conf'.reLogin = conf.reLogin
    BY <2>0, <2>1, StartFlowIs
  <2>4. flow' # NoFlow  BY <2>2, NoFlowIs
  <2>5. ConfData'  BY <1>1, <1>2, <2>1, <2>2 DEF ConfInv, ConfData
  <2>6. FlowFits'  BY <2>1, <2>2, <2>0 DEF FlowFits, SavingOff
  <2>7. FlowShown'  BY <1>1, <1>2, <1>4, <2>2, <2>4 DEF FlowShown
  <2>8. RoutesFit'  BY <1>1, <2>1, <2>2, RoutesAtRest DEF RoutesFit, KeyFits
  <2>9. LoginIsOfBackend'  BY <1>1, <1>2, <2>1, <2>2, LoginKept DEF ConfInv
  <2>10. QED  BY <1>3, <2>5, <2>6, <2>7, <2>8, <2>9 DEF ConfInv
<1>5. CASE ~(acct.session /\ config.key # "none")
  <2>1. /\ config' = Service /\ keptKeys' = keptKeys \cup ({config.key} \cap Keys)
        /\ conf' = [conf EXCEPT !.token = TRUE, !.modal = TRUE] /\ flow' = flow
    BY <1>5 DEF SaveOff
  <2>2. /\ conf' \in ConfPages /\ conf'.open /\ conf'.shown /\ ~conf'.busy /\ ~conf'.late /\ conf'.modal /\ ~conf'.reLogin
    BY <1>1, <1>2, <2>1 DEF ConfPages
  <2>3. ConfData'  BY <1>1, <1>2, <2>1, <2>2, ServiceIs DEF ConfInv, ConfData
  <2>4. FlowFits' /\ FlowShown'  BY <1>1, <2>1, <2>2 DEF FlowFits, FlowShown
  <2>5. RoutesFit'
    <3>1. config'.mode # "private" /\ ~flow'.done /\ flow'.pc # "probe"  BY <1>1, <2>1, ServiceIs, NoFlowIs
    <3>2. QED  BY <1>1, <2>1, <3>1, RoutesAtRest DEF RoutesFit, KeyFits
  <2>6. LoginIsOfBackend'  BY <2>2 DEF LoginIsOfBackend
  <2>7. QED  BY <1>3, <2>3, <2>4, <2>5, <2>6 DEF ConfInv
<1>6. QED  BY <1>4, <1>5

\* The request of the flow arrives.
LEMMA FlowArrivesKeeps == ASSUME ConfInv, FlowArrives PROVE ConfInv'
<1>1. /\ flow.pc \in {"register", "unregister"} /\ ~flow.done
      /\ routes' = Routed(flow.pc, flow.key, flow.url) /\ flow' = [flow EXCEPT !.done = TRUE]
      /\ UNCHANGED <<conf, loose, config, acct, keptKeys, amiss, confBounds>>
  BY DEF FlowArrives
<1>2. PICK p \in {"register", "unregister"} : p = flow.pc  BY <1>1
<1>3. flow # NoFlow /\ FlowFits /\ FlowShown  BY <1>1, NoFlowIs DEF ConfInv
<1>4. /\ flow.key \in Keys /\ (Testing \/ SavingOn \/ SavingOff)
      /\ flow.url \in Addresses \cup {"none"}
  BY <1>3 DEF FlowFits, Testing, SavingOn, SavingOff
<1>5. routes \in [Keys -> Addresses \cup {"none"}]  BY DEF ConfInv, ConfData
<1>6. /\ routes' \in [Keys -> Addresses \cup {"none"}]
      /\ \A x \in Keys : x # flow.key => routes'[x] = routes[x]
      /\ routes'[flow.key] = IF flow.pc = "register" THEN flow.url ELSE "none"
  BY <1>1, <1>2, <1>4, <1>5, RoutedIs
<1>7. /\ flow'.done = TRUE /\ flow'.pc = flow.pc /\ flow'.for = flow.for /\ flow'.key = flow.key
      /\ flow'.url = flow.url /\ flow' \in ConfFlows
  <2>1. flow \in ConfFlows  BY DEF ConfInv, ConfData
  <2>2. QED  BY <1>1, <2>1 DEF ConfFlows
<1>8. ConfData'  BY <1>1, <1>6, <1>7 DEF ConfInv, ConfData, confBounds
<1>9. FlowFits'
  BY <1>1, <1>4, <1>7 DEF FlowFits, Testing, SavingOn, SavingOff
<1>10. flow' # NoFlow  BY <1>7, NoFlowIs
<1>11. FlowShown'  BY <1>1, <1>3, <1>10 DEF FlowShown
<1>12. DueFits'  BY <1>1 DEF ConfInv, DueFits
<1>13. RoutesFit'
  <2> SUFFICES ASSUME Straight'
               PROVE  (\A k \in Keys : KeyFits(k)') /\ (flow'.pc = "register" => routes'[flow'.key] = flow'.url)
    BY <1>1, <1>7 DEF RoutesFit
  <2>1. Straight  BY <1>1 DEF Straight
  <2>2. flow'.pc = "register" => routes'[flow'.key] = flow'.url  BY <1>6, <1>7
  <2>3. ASSUME NEW k \in Keys PROVE KeyFits(k)'
    <3>1. CASE k = flow.key
      <4>1. MovedKey(k)'  BY <1>7, <3>1 DEF MovedKey
      <4>2. QED  BY <4>1 DEF KeyFits
    <3>2. CASE k # flow.key
      <4>1. KeyFits(k)  BY <2>1 DEF ConfInv, RoutesFit
      <4>2. (MovedKey(k)' <=> MovedKey(k)) /\ (RestoringKey(k)' <=> RestoringKey(k))
        BY <1>1, <1>7, <3>2 DEF MovedKey, RestoringKey
      <4>3. routes'[k] = routes[k]  BY <1>6, <3>2
      <4>4. QED  BY <1>1, <4>1, <4>2, <4>3 DEF KeyFits
    <3>3. QED  BY <3>1, <3>2
  <2>4. QED  BY <2>2, <2>3
<1>14. LoginIsOfBackend'
  <2>1. LoginIsOfBackend  BY DEF ConfInv
  <2>2. QED  BY <1>1, <2>1, LoginKept
<1>15. QED  BY <1>8, <1>9, <1>11, <1>12, <1>13, <1>14 DEF ConfInv

\* A loose request arrives: one that is due puts its key right.
LEMMA LooseArrivesKeeps == ASSUME ConfInv, NEW r \in loose, LooseArrives(r) PROVE ConfInv'
<1>1. /\ loose' = loose \ {r} /\ routes' = Routed(r.kind, r.key, r.url)
      /\ amiss' = IF r.due \/ routes' = routes THEN amiss ELSE amiss \cup {"late"}
      /\ UNCHANGED <<conf, flow, config, acct, keptKeys, confBounds>>
  BY DEF LooseArrives
<1>2. /\ r \in ConfRequests /\ config \in Configs /\ routes \in [Keys -> Addresses \cup {"none"}]
      /\ FlowFits /\ FlowShown /\ DueFits /\ RoutesFit
  BY DEF ConfInv, ConfData
<1>3. PICK p \in {"register", "unregister"}, k \in Keys, u \in Addresses \cup {"none"} :
        p = r.kind /\ k = r.key /\ u = r.url
  BY <1>2 DEF ConfRequests
<1>4. routes' = Routed(p, k, u)  BY <1>1, <1>3
<1>5. /\ routes' \in [Keys -> Addresses \cup {"none"}] /\ \A x \in Keys : x # k => routes'[x] = routes[x]
      /\ routes'[k] = IF p = "register" THEN u ELSE "none"
  BY <1>2, <1>4, RoutedIs
<1>6. ConfData'  BY <1>1, <1>5 DEF ConfInv, ConfData, confBounds
<1>7. FlowFits'  BY <1>1, <1>2 DEF FlowFits, Testing, SavingOn, SavingOff
<1>8. FlowShown'  BY <1>1, <1>2 DEF FlowShown
<1>9. DueFits'  BY <1>1, <1>2 DEF DueFits
<1>10. \A x : MovedKey(x)' <=> MovedKey(x)  BY <1>1 DEF MovedKey
<1>11. RoutesFit'
  <2> SUFFICES ASSUME Straight'
               PROVE  /\ \A x \in Keys : KeyFits(x)'
                      /\ (flow.pc = "probe" \/ (flow.done /\ flow.pc = "register")) => routes'[flow.key] = flow.url
    BY <1>1 DEF RoutesFit
  <2>1. Straight /\ (r.due \/ routes' = routes)
    <3>1. r.due \/ routes' = routes  BY <1>1, StraightIs
    <3>2. QED  BY <1>1, <3>1, StraightIs
  <2>2. (\A x \in Keys : KeyFits(x)) /\ ((flow.pc = "probe" \/ (flow.done /\ flow.pc = "register")) => routes[flow.key] = flow.url)
    BY <2>1, <1>2 DEF RoutesFit
  <2>3. CASE r.due
    <3>1. flow = NoFlow  BY <1>2, <2>3 DEF FlowShown
    <3>2. ASSUME NEW x \in Keys PROVE KeyFits(x)'
      <4>1. CASE x = k
        <5>1. \/ p = "register" /\ config.mode = "private" /\ k = config.key /\ u = config.url
              \/ p = "unregister" /\ (config.mode = "private" => k # config.key)
          BY <1>2, <1>3, <2>3 DEF DueFits
        <5>2. QED  BY <1>1, <1>5, <4>1, <5>1 DEF KeyFits
      <4>2. CASE x # k
        <5>1. RestoringKey(x)' <=> RestoringKey(x)  BY <1>1, <1>3, <4>2 DEF RestoringKey
        <5>2. KeyFits(x) /\ routes'[x] = routes[x]  BY <2>2, <1>5, <4>2
        <5>3. QED  BY <1>1, <1>10, <5>1, <5>2 DEF KeyFits
      <4>3. QED  BY <4>1, <4>2
    <3>3. ~flow.done /\ flow.pc # "probe"  BY <3>1, NoFlowIs
    <3>4. QED  BY <3>2, <3>3
  <2>4. CASE ~r.due
    <3>1. routes' = routes  BY <2>1, <2>4
    <3>2. \A x : RestoringKey(x) => RestoringKey(x)'  BY <1>1, <2>4 DEF RestoringKey
    <3>3. \A x \in Keys : KeyFits(x)'  BY <1>1, <1>10, <3>1, <3>2, <2>2 DEF KeyFits
    <3>4. QED  BY <3>1, <3>3, <2>2
  <2>5. QED  BY <2>3, <2>4
<1>12. amiss \subseteq amiss'  BY <1>1
<1>13. LoginIsOfBackend'
  <2>1. LoginIsOfBackend  BY DEF ConfInv
  <2>2. QED  BY <1>1, <1>12, <2>1, LoginKept
<1>14. QED  BY <1>6, <1>7, <1>8, <1>9, <1>11, <1>13 DEF ConfInv

\* A loose request fails: the page is amiss if it was due.
LEMMA LooseFailsKeeps == ASSUME ConfInv, NEW r \in loose, LooseFails(r) PROVE ConfInv'
<1>1. /\ loose' = loose \ {r} /\ amiss' = amiss \cup (IF r.due THEN {"unrestored"} ELSE {})
      /\ UNCHANGED <<conf, flow, routes, config, acct, keptKeys, confBounds>>
  BY DEF LooseFails
<1>2. FlowFits /\ FlowShown /\ DueFits /\ RoutesFit /\ LoginIsOfBackend  BY DEF ConfInv
<1>3. ConfData'  BY <1>1 DEF ConfInv, ConfData, confBounds
<1>4. FlowFits'  BY <1>1, <1>2 DEF FlowFits, Testing, SavingOn, SavingOff
<1>5. FlowShown'  BY <1>1, <1>2 DEF FlowShown
<1>6. DueFits'  BY <1>1, <1>2 DEF DueFits
<1>7. \A x : MovedKey(x)' <=> MovedKey(x)  BY <1>1 DEF MovedKey
<1>8. Straight' => Straight /\ ~r.due  BY <1>1, StraightIs
<1>9. ~r.due => \A x : RestoringKey(x) => RestoringKey(x)'  BY <1>1 DEF RestoringKey
<1>10. RoutesFit'  BY <1>1, <1>2, <1>7, <1>8, <1>9 DEF RoutesFit, KeyFits
<1>11. amiss \subseteq amiss'  BY <1>1
<1>12. LoginIsOfBackend'  BY <1>1, <1>2, <1>11, LoginKept
<1>13. QED  BY <1>3, <1>4, <1>5, <1>6, <1>10, <1>12 DEF ConfInv

LEMMA TestRegisteredKeeps == ASSUME ConfInv, TestRegistered PROVE ConfInv'
<1>1. /\ flow.for = "test" /\ flow.pc = "register" /\ flow.done
      /\ flow' = [flow EXCEPT !.pc = "probe", !.done = FALSE]
      /\ UNCHANGED <<conf, loose, routes, config, acct, keptKeys, amiss, confBounds>>
  BY DEF TestRegistered
<1>2. FlowFits /\ FlowShown /\ DueFits /\ RoutesFit /\ LoginIsOfBackend /\ flow \in ConfFlows
  BY DEF ConfInv, ConfData
<1>3. flow # NoFlow  BY <1>1, NoFlowIs
<1>4. flow.key \in Keys /\ Testing  BY <1>1, <1>2, <1>3 DEF FlowFits, SavingOn, SavingOff
<1>5. /\ flow' \in ConfFlows /\ flow'.pc = "probe" /\ flow'.done = FALSE /\ flow'.for = flow.for
      /\ flow'.key = flow.key /\ flow'.url = flow.url
  BY <1>1, <1>2 DEF ConfFlows
<1>6. ConfData'  BY <1>1, <1>5 DEF ConfInv, ConfData, confBounds
<1>7. FlowFits'  BY <1>1, <1>4, <1>5 DEF FlowFits, Testing
<1>8. FlowShown'
  <2>1. flow' # NoFlow  BY <1>5, NoFlowIs
  <2>2. QED  BY <1>1, <1>2, <1>3, <2>1 DEF FlowShown
<1>9. DueFits'  BY <1>1, <1>2 DEF DueFits
<1>10. \A k : (MovedKey(k)' <=> MovedKey(k)) /\ (RestoringKey(k)' <=> RestoringKey(k))
  BY <1>1, <1>5 DEF MovedKey, RestoringKey
<1>11. Straight' = Straight  BY <1>1 DEF Straight
<1>12. RoutesFit'  BY <1>1, <1>2, <1>5, <1>10, <1>11 DEF RoutesFit, KeyFits
<1>13. LoginIsOfBackend'  BY <1>1, <1>2, LoginKept
<1>14. QED  BY <1>6, <1>7, <1>8, <1>9, <1>12, <1>13 DEF ConfInv

\* What is asked for when a test is over: the key is being restored, or has
\* passed its test and leads to the address that is in use, if it is.
LEMMA TestLeaves ==
  ASSUME ConfInv, TestOver
  PROVE  /\ loose' \subseteq ConfRequests /\ \A r \in loose' : r.due => CleansUp(r)
         /\ keptKeys \subseteq keptKeys' /\ keptKeys' \subseteq Keys
         /\ \/ \E r \in loose' : r.due /\ r.key = flow.key
            \/ /\ flow.pc = "probe" /\ flow.key \in keptKeys'
               /\ config.mode = "private" /\ config.key = flow.key => config.url = flow.url
<1>1. flow.for = "test" /\ (TestEnds \/ (TestFails /\ keptKeys' = keptKeys))  BY DEF TestOver
<1>2. FlowFits /\ FlowShown /\ conf \in ConfPages /\ loose \subseteq ConfRequests /\ keptKeys \subseteq Keys
      /\ config \in Configs
  BY DEF ConfInv, ConfData
<1>3. flow # NoFlow  BY <1>1, NoFlowIs
<1>4. flow.key \in Keys /\ acct.session /\ \A r \in loose : ~r.due
  BY <1>2, <1>3 DEF FlowFits, FlowShown
<1>5. conf.token \in BOOLEAN  BY <1>2 DEF ConfPages
<1>6. PICK c : Cleanup(conf.token) = {c} /\ CleansUp(c)  BY <1>2, <1>4, <1>5, CleanupIs
<1>7. c \in ConfRequests /\ c.due /\ c.key = flow.key  BY <1>6 DEF CleansUp
<1>8. ASSUME NEW l \in {{}, Underway}, loose' = loose \cup Cleanup(conf.token) \cup l, keptKeys' = keptKeys
      PROVE  /\ loose' \subseteq ConfRequests /\ \A r \in loose' : r.due => CleansUp(r)
             /\ \E r \in loose' : r.due /\ r.key = flow.key
  <2>1. l \subseteq ConfRequests /\ \A r \in l : ~r.due
    <3>1. Underway \subseteq ConfRequests /\ \A r \in Underway : r.due = FALSE  BY <1>2, UnderwayIs
    <3>2. QED  BY <3>1
  <2>2. loose' = loose \cup {c} \cup l  BY <1>6, <1>8
  <2>3. QED  BY <1>2, <1>4, <1>6, <1>7, <2>1, <2>2
<1>9. CASE TestFails /\ keptKeys' = keptKeys
  <2>1. PICK l \in {{}, Underway} : loose' = loose \cup Cleanup(conf.token) \cup l  BY <1>9 DEF TestFails
  <2>2. QED  BY <1>2, <1>8, <1>9, <2>1
<1>10. CASE TestEnds
  <2>1. flow.pc = "probe"  BY <1>10 DEF TestEnds
  <2>2. CASE loose' = loose \cup Cleanup(conf.token) /\ keptKeys' = keptKeys
    <3>1. loose' = loose \cup Cleanup(conf.token) \cup {}  BY <2>2
    <3>2. QED  BY <1>2, <1>8, <2>2, <3>1
  <2>3. CASE keptKeys' = keptKeys \cup {flow.key}
             /\ config.mode = "private" /\ config.key = flow.key /\ config.url # flow.url
             /\ loose' = loose \cup {Sent("register", config.key, config.url, conf.token)}
    <3> DEFINE s == Sent("register", config.key, config.url, conf.token)
    <3>1. config.key \in Keys /\ config.url \in Addresses \cup {"none"}  BY <1>2, <2>3, ConfigIs
    <3>2. s \in ConfRequests /\ s.kind = "register" /\ s.key = config.key /\ s.url = config.url /\ s.due
      BY <1>5, <3>1, SentIs
    <3>3. loose' = loose \cup {s}  BY <2>3
    <3> HIDE DEF s
    <3>4. CleansUp(s)  BY <2>3, <3>2 DEF CleansUp
    <3>5. QED  BY <1>2, <1>4, <2>3, <3>2, <3>3, <3>4
  <2>4. CASE keptKeys' = keptKeys \cup {flow.key}
             /\ ~(config.mode = "private" /\ config.key = flow.key /\ config.url # flow.url)
             /\ loose' = loose
    BY <1>2, <1>4, <2>1, <2>4
  <2>5. QED  BY <1>10, <2>2, <2>3, <2>4 DEF TestEnds
<1>11. QED  BY <1>1, <1>9, <1>10

LEMMA TestOverKeeps == ASSUME ConfInv, TestOver PROVE ConfInv'
<1>1. /\ flow.for = "test" /\ flow' = NoFlow /\ conf' = FlowOver(conf)
      /\ UNCHANGED <<routes, config, acct, amiss, confBounds>>
  BY DEF TestOver
<1>2. FlowFits /\ FlowShown /\ DueFits /\ RoutesFit /\ LoginIsOfBackend /\ conf \in ConfPages
  BY DEF ConfInv, ConfData
<1>3. flow # NoFlow  BY <1>1, NoFlowIs
<1>4. flow.key \in Keys /\ conf.shown /\ conf.open /\ ~conf.late /\ ~conf.modal /\ ~conf.reLogin
      /\ \A r \in loose : ~r.due
  BY <1>2, <1>3 DEF FlowFits, FlowShown
<1>5. /\ loose' \subseteq ConfRequests /\ \A r \in loose' : r.due => CleansUp(r)
      /\ keptKeys \subseteq keptKeys' /\ keptKeys' \subseteq Keys
      /\ \/ \E r \in loose' : r.due /\ r.key = flow.key
         \/ /\ flow.pc = "probe" /\ flow.key \in keptKeys'
            /\ config.mode = "private" /\ config.key = flow.key => config.url = flow.url
  BY TestLeaves
<1>6. /\ conf' \in ConfPages /\ conf'.open /\ conf'.shown /\ ~conf'.busy /\ ~conf'.late
      /\ ~conf'.modal /\ ~conf'.reLogin
  BY <1>1, <1>2, <1>4, FlowOverIs
<1>7. ConfData'  BY <1>1, <1>5, <1>6, NoFlowIs DEF ConfInv, ConfData, confBounds
<1>8. FlowFits' /\ FlowShown'  BY <1>1, <1>6 DEF FlowFits, FlowShown
<1>9. DueFits'  BY <1>1, <1>5 DEF DueFits, CleansUp
<1>10. RoutesFit'
  <2>1. SUFFICES ASSUME Straight, NEW k \in Keys PROVE KeyFits(k)'
    <3>1. Straight' = Straight  BY <1>1 DEF Straight
    <3>2. ~flow'.done /\ flow'.pc # "probe"  BY <1>1, NoFlowIs
    <3>3. QED  BY <3>1, <3>2 DEF RoutesFit
  <2>2. KeyFits(k) /\ (flow.pc = "probe" => routes[flow.key] = flow.url)  BY <1>2, <2>1 DEF RoutesFit
  <2>3. CASE k = flow.key
    <3>1. CASE \E r \in loose' : r.due /\ r.key = flow.key
      BY <2>3, <3>1 DEF KeyFits, RestoringKey
    <3>2. CASE /\ flow.pc = "probe" /\ flow.key \in keptKeys'
               /\ config.mode = "private" /\ config.key = flow.key => config.url = flow.url
      BY <1>1, <2>2, <2>3, <3>2 DEF KeyFits
    <3>3. QED  BY <1>5, <3>1, <3>2
  <2>4. CASE k # flow.key
    <3>1. ~MovedKey(k) /\ ~RestoringKey(k)  BY <1>4, <2>4 DEF MovedKey, RestoringKey
    <3>2. QED  BY <1>1, <1>5, <2>2, <3>1 DEF KeyFits
  <2>5. QED  BY <2>3, <2>4
<1>11. LoginIsOfBackend'  BY <1>1, <1>2, <1>4, LoginKept
<1>12. QED  BY <1>7, <1>8, <1>9, <1>10, <1>11 DEF ConfInv

LEMMA SaveSucceedsKeeps == ASSUME ConfInv, SaveSucceeds PROVE ConfInv'
<1>1. /\ flow.for = "save" /\ flow.done
      /\ config' = (IF flow.pc = "register" THEN Private(flow.key, flow.url) ELSE Service)
      /\ IF config'.mode = "private" /\ routes[flow.key] = flow.url
           THEN /\ keptKeys' = {k \in Keys \ {flow.key} : routes[k] # "none"}
                /\ amiss' = amiss \ {"unrestored", "late", "abandoned"}
           ELSE keptKeys' = keptKeys \cup ({config.key} \cap Keys) /\ amiss' = amiss
      /\ flow' = NoFlow /\ conf' = [FlowOver(conf) EXCEPT !.modal = TRUE]
      /\ UNCHANGED <<loose, routes, acct, confBounds>>
  BY DEF SaveSucceeds
<1>2. FlowFits /\ FlowShown /\ RoutesFit /\ conf \in ConfPages /\ keptKeys \subseteq Keys /\ config \in Configs
  BY DEF ConfInv, ConfData
<1>3. flow # NoFlow  BY <1>1, NoFlowIs
<1>4. flow.key \in Keys /\ (SavingOn \/ SavingOff)  BY <1>1, <1>2, <1>3 DEF FlowFits, Testing
<1>5. conf.shown /\ conf.open /\ ~conf.late /\ ~conf.reLogin /\ \A r \in loose : ~r.due
  BY <1>2, <1>3 DEF FlowShown
<1>6. /\ conf' \in ConfPages /\ conf'.open /\ conf'.shown /\ ~conf'.busy /\ ~conf'.late
      /\ conf'.modal /\ ~conf'.reLogin
  <2> DEFINE o == FlowOver(conf)
  <2>1. o \in ConfPages /\ o.open /\ o.shown /\ ~o.busy /\ ~o.late /\ ~o.reLogin
    BY <1>2, <1>5, FlowOverIs
  <2>2. conf' = [o EXCEPT !.modal = TRUE]  BY <1>1
  <2> HIDE DEF o
  <2>3. QED  BY <2>1, <2>2 DEF ConfPages
<1>7. /\ config' \in Configs /\ keptKeys' \subseteq Keys
      /\ config'.mode = "private" => SavingOn /\ config'.key = flow.key /\ config'.url = flow.url
      /\ config'.mode # "private" => SavingOff /\ config' = Service
  <2>1. CASE SavingOn
    <3>1. flow.pc = "register" /\ flow.url \in Addresses  BY <2>1 DEF SavingOn
    <3>2. config' = Private(flow.key, flow.url)  BY <1>1, <3>1
    <3>3. config' \in Configs /\ config'.mode = "private" /\ config'.key = flow.key /\ config'.url = flow.url
      BY <1>4, <3>1, <3>2, PrivateIs
    <3>4. keptKeys' \subseteq Keys  BY <1>1, <1>2
    <3>5. QED  BY <2>1, <3>3, <3>4
  <2>2. CASE SavingOff
    <3>1. config' = Service  BY <1>1, <2>2 DEF SavingOff
    <3>2. config' \in Configs /\ config'.mode # "private"  BY <3>1, ServiceIs
    <3>3. keptKeys' \subseteq Keys  BY <1>1, <1>2
    <3>4. QED  BY <2>2, <3>1, <3>2, <3>3
  <2>3. QED  BY <1>4, <2>1, <2>2
<1>8. ConfData'  BY <1>1, <1>6, <1>7, NoFlowIs DEF ConfInv, ConfData, confBounds
<1>9. FlowFits' /\ FlowShown'  BY <1>1, <1>6 DEF FlowFits, FlowShown
<1>10. DueFits'  BY <1>1, <1>5 DEF DueFits
<1>11. RoutesFit'
  <2>1. SUFFICES ASSUME Straight', NEW k \in Keys PROVE KeyFits(k)'
    <3>1. ~flow'.done /\ flow'.pc # "probe"  BY <1>1, NoFlowIs
    <3>2. QED  BY <3>1 DEF RoutesFit
  <2>2. CASE config'.mode = "private" /\ routes[flow.key] = flow.url
    <3>1. keptKeys' = {x \in Keys \ {flow.key} : routes[x] # "none"} /\ routes' = routes  BY <1>1, <2>2
    <3>2. QED  BY <1>7, <2>2, <3>1 DEF KeyFits
  <2>3. CASE ~(config'.mode = "private" /\ routes[flow.key] = flow.url)
    <3>1. keptKeys' = keptKeys \cup ({config.key} \cap Keys) /\ amiss' = amiss /\ routes' = routes
      BY <1>1, <2>3
    <3>2. Straight  BY <2>1, <3>1 DEF Straight
    <3>3. KeyFits(k) /\ (flow.pc = "register" => routes[flow.key] = flow.url)
      BY <1>1, <1>2, <3>2 DEF RoutesFit
    <3>4. SavingOff /\ config' = Service
      BY <1>7, <2>3, <3>3 DEF SavingOn
    <3>5. flow.key = config.key /\ config'.mode # "private"  BY <3>4, ServiceIs DEF SavingOff
    <3>6. ~RestoringKey(k) /\ (MovedKey(k) => k = config.key)  BY <1>5, <3>5 DEF MovedKey, RestoringKey
    <3>7. QED  BY <3>1, <3>3, <3>5, <3>6 DEF KeyFits
  <2>4. QED  BY <2>2, <2>3
<1>12. LoginIsOfBackend'  BY <1>6 DEF LoginIsOfBackend
<1>13. QED  BY <1>8, <1>9, <1>10, <1>11, <1>12 DEF ConfInv

LEMMA SaveFailsKeeps == ASSUME ConfInv, SaveFails PROVE ConfInv'
<1>1. /\ flow.for = "save" /\ flow' = NoFlow /\ loose' \in {loose, loose \cup Underway}
      /\ IF flow.pc = "unregister"
           THEN /\ config' = Service /\ keptKeys' = keptKeys \cup {flow.key} /\ amiss' = amiss
                /\ conf' = [FlowOver(conf) EXCEPT !.modal = TRUE]
           ELSE /\ amiss' = amiss \cup (IF flow.done THEN {"abandoned"} ELSE {})
                /\ conf' = FlowOver(conf) /\ config' = config /\ keptKeys' = keptKeys
      /\ UNCHANGED <<routes, acct, confBounds>>
  BY DEF SaveFails
<1>2. FlowFits /\ FlowShown /\ RoutesFit /\ LoginIsOfBackend /\ conf \in ConfPages /\ keptKeys \subseteq Keys
      /\ config \in Configs /\ loose \subseteq ConfRequests
  BY DEF ConfInv, ConfData
<1>3. flow # NoFlow  BY <1>1, NoFlowIs
<1>4. flow.key \in Keys /\ (SavingOn \/ SavingOff)  BY <1>1, <1>2, <1>3 DEF FlowFits, Testing
<1>5. conf.shown /\ conf.open /\ ~conf.late /\ ~conf.modal /\ ~conf.reLogin /\ \A r \in loose : ~r.due
  BY <1>2, <1>3 DEF FlowShown
<1>6. loose' \subseteq ConfRequests /\ \A r \in loose' : ~r.due
  <2>1. Underway \subseteq ConfRequests /\ \A r \in Underway : r.due = FALSE  BY <1>2, UnderwayIs
  <2>2. QED  BY <1>1, <1>2, <1>5, <2>1
<1>7. /\ conf' \in ConfPages /\ conf'.open /\ conf'.shown /\ ~conf'.busy /\ ~conf'.late /\ ~conf'.reLogin
      /\ flow.pc = "unregister" => conf'.modal
  <2> DEFINE o == FlowOver(conf)
  <2>1. o \in ConfPages /\ o.open /\ o.shown /\ ~o.busy /\ ~o.late /\ ~o.reLogin
    BY <1>2, <1>5, FlowOverIs
  <2>2. conf' = IF flow.pc = "unregister" THEN [o EXCEPT !.modal = TRUE] ELSE o  BY <1>1
  <2> HIDE DEF o
  <2>3. QED  BY <2>1, <2>2 DEF ConfPages
<1>8. FlowFits' /\ FlowShown'  BY <1>1, <1>7 DEF FlowFits, FlowShown
<1>9. DueFits'  BY <1>6 DEF DueFits
<1>10. ~flow'.done /\ flow'.pc # "probe"  BY <1>1, NoFlowIs
<1>11. CASE SavingOff
  <2>1. /\ config' = Service /\ keptKeys' = keptKeys \cup {flow.key} /\ amiss' = amiss /\ conf'.modal
        /\ flow.key = config.key /\ routes' = routes
    BY <1>1, <1>7, <1>11 DEF SavingOff
  <2>2. ConfData'  BY <1>1, <1>2, <1>4, <1>6, <1>7, <2>1, NoFlowIs, ServiceIs DEF ConfInv, ConfData, confBounds
  <2>3. RoutesFit'
    <3>1. SUFFICES ASSUME Straight, NEW k \in Keys PROVE KeyFits(k)'
      <4>1. Straight' = Straight  BY <2>1 DEF Straight
      <4>2. QED  BY <1>10, <4>1 DEF RoutesFit
    <3>2. KeyFits(k)  BY <1>2, <3>1 DEF RoutesFit
    <3>3. ~RestoringKey(k) /\ (MovedKey(k) => k = flow.key)  BY <1>5 DEF RestoringKey, MovedKey
    <3>4. config'.mode # "private"  BY <2>1, ServiceIs
    <3>5. QED  BY <2>1, <3>2, <3>3, <3>4 DEF KeyFits
  <2>4. LoginIsOfBackend'  BY <2>1 DEF LoginIsOfBackend
  <2>5. QED  BY <1>8, <1>9, <2>2, <2>3, <2>4 DEF ConfInv
<1>12. CASE SavingOn
  <2>1. /\ config' = config /\ keptKeys' = keptKeys /\ routes' = routes /\ flow.pc = "register"
        /\ amiss' = amiss \cup (IF flow.done THEN {"abandoned"} ELSE {})
    BY <1>1, <1>12 DEF SavingOn
  <2>2. ConfData'  BY <1>1, <1>2, <1>6, <1>7, <2>1, NoFlowIs DEF ConfInv, ConfData, confBounds
  <2>3. RoutesFit'
    <3>1. SUFFICES ASSUME Straight, ~flow.done, NEW k \in Keys PROVE KeyFits(k)'
      <4>1. Straight' => Straight /\ ~flow.done  BY <2>1, StraightIs
      <4>2. QED  BY <1>10, <4>1 DEF RoutesFit
    <3>2. KeyFits(k)  BY <1>2, <3>1 DEF RoutesFit
    <3>3. ~RestoringKey(k) /\ ~MovedKey(k)  BY <1>5, <2>1, <3>1 DEF RestoringKey, MovedKey
    <3>4. QED  BY <2>1, <3>2, <3>3 DEF KeyFits
  <2>4. LoginIsOfBackend'
    <3>1. acct' = acct /\ amiss \subseteq amiss'  BY <1>1, <2>1
    <3>2. QED  BY <1>2, <1>5, <2>1, <3>1, LoginKept
  <2>5. QED  BY <1>8, <1>9, <2>2, <2>3, <2>4 DEF ConfInv
<1>13. QED  BY <1>4, <1>11, <1>12

\* What is asked for when the page is left, and what of it is still due.
LEMMA AbandonsLeaves ==
  ASSUME ConfInv, NEW c, Abandons(c)
  PROVE  /\ loose' \subseteq ConfRequests /\ \A r \in loose' : r.due => r \in loose \/ (flow.for = "test" /\ CleansUp(r))
         /\ flow.for = "test" => \E r \in loose' : r.due /\ r.key = flow.key
         /\ Straight' => /\ Straight /\ \A r \in loose : r.due => r \in loose'
                         /\ ~(flow.for = "save" /\ flow.pc = "register" /\ flow.done)
<1>1. /\ loose' = CancelledRequests \cup (IF flow.for = "test" THEN Cleanup(FALSE) ELSE {})
      /\ amiss \subseteq amiss' /\ Unrestored(loose') \subseteq amiss'
      /\ flow.for = "save" /\ flow.pc = "register" /\ flow.done => "abandoned" \in amiss'
  BY DEF Abandons
<1>2. FlowFits /\ FlowShown /\ config \in Configs /\ loose \subseteq ConfRequests
  BY DEF ConfInv, ConfData
<1>3. CancelledRequests \subseteq ConfRequests /\ \A r \in CancelledRequests : r.due => r \in loose
  BY <1>2, CancelledIs
<1>4. flow.for = "test" => \E r : Cleanup(FALSE) = {r} /\ CleansUp(r)
  <2> SUFFICES ASSUME flow.for = "test" PROVE \E r : Cleanup(FALSE) = {r} /\ CleansUp(r)  OBVIOUS
  <2>1. flow # NoFlow  BY NoFlowIs
  <2>2. flow.key \in Keys /\ acct.session /\ FALSE \in BOOLEAN  BY <1>2, <2>1 DEF FlowFits, FlowShown
  <2>3. QED  BY <1>2, <2>2, CleanupIs
<1>5. /\ loose' \subseteq ConfRequests /\ \A r \in loose' : r.due => r \in loose \/ (flow.for = "test" /\ CleansUp(r))
      /\ flow.for = "test" => \E r \in loose' : r.due /\ r.key = flow.key
  <2>1. CASE flow.for = "test"
    <3>1. PICK q : Cleanup(FALSE) = {q} /\ CleansUp(q)  BY <1>4, <2>1
    <3>2. loose' = CancelledRequests \cup {q} /\ q \in ConfRequests /\ q.due /\ q.key = flow.key
      BY <1>1, <2>1, <3>1 DEF CleansUp
    <3>3. QED  BY <1>3, <2>1, <3>1, <3>2
  <2>2. CASE flow.for # "test"
    <3>1. loose' = CancelledRequests  BY <1>1, <2>2
    <3>2. QED  BY <1>3, <2>2, <3>1
  <2>3. QED  BY <2>1, <2>2
<1>6. Straight' => /\ Straight /\ \A r \in loose : r.due => r \in loose'
                   /\ ~(flow.for = "save" /\ flow.pc = "register" /\ flow.done)
  <2> SUFFICES ASSUME Straight'
               PROVE  /\ Straight /\ \A r \in loose : r.due => r \in loose'
                      /\ ~(flow.for = "save" /\ flow.pc = "register" /\ flow.done)
    OBVIOUS
  <2>1. "unrestored" \notin amiss' /\ "late" \notin amiss' /\ "abandoned" \notin amiss'  BY StraightIs
  <2>2. Straight /\ "unrestored" \notin Unrestored(loose')  BY <1>1, <2>1, StraightIs
  <2>3. QED  BY <1>1, <2>1, <2>2, UnrestoredIs
<1>7. QED  BY <1>5, <1>6

LEMMA AbandonsKeeps ==
  ASSUME ConfInv, NEW c \in ConfPages, Abandons(c), ~c.shown, c.busy => c.late,
         ~c.open => ~c.modal /\ ~c.reLogin /\ ~conf.modal,
         c.open => /\ conf.modal => c.modal
                   /\ conf.reLogin => c.reLogin
                   /\ flow.pc = "unregister" => c.reLogin
  PROVE  ConfInv'
<1>1. /\ flow' = NoFlow /\ conf' = c /\ UNCHANGED <<routes, acct, confBounds>>
      /\ IF flow.pc = "unregister"
           THEN config' = Service /\ keptKeys' = keptKeys \cup {flow.key}
           ELSE config' = config /\ keptKeys' = keptKeys
      /\ amiss \subseteq amiss'
      /\ ~c.open /\ (flow.pc = "unregister" \/ conf.reLogin) => "left" \in amiss'
  BY DEF Abandons
<1>2. FlowFits /\ FlowShown /\ DueFits /\ RoutesFit /\ LoginIsOfBackend /\ keptKeys \subseteq Keys /\ config \in Configs
  BY DEF ConfInv, ConfData
<1>3. /\ loose' \subseteq ConfRequests /\ \A r \in loose' : r.due => r \in loose \/ (flow.for = "test" /\ CleansUp(r))
      /\ flow.for = "test" => \E r \in loose' : r.due /\ r.key = flow.key
      /\ Straight' => /\ Straight /\ \A r \in loose : r.due => r \in loose'
                      /\ ~(flow.for = "save" /\ flow.pc = "register" /\ flow.done)
  BY AbandonsLeaves
<1>4. flow # NoFlow => flow.key \in Keys /\ (Testing \/ SavingOn \/ SavingOff) /\ \A r \in loose : ~r.due
  BY <1>2 DEF FlowFits, FlowShown
<1>5. flow.pc = "unregister" <=> SavingOff
  BY <1>4, NoFlowIs DEF Testing, SavingOn, SavingOff
<1>6. SavingOff => flow # NoFlow /\ flow.key \in Keys /\ flow.for # "test" /\ flow.key = config.key
  BY <1>4, <1>5, NoFlowIs DEF SavingOff
<1>7. ConfData'  BY <1>1, <1>2, <1>3, <1>5, <1>6, NoFlowIs, ServiceIs DEF ConfInv, ConfData, confBounds
<1>8. FlowFits' /\ FlowShown'  BY <1>1 DEF FlowFits, FlowShown
<1>9. DueFits'
  <2>1. CASE SavingOff  BY <1>3, <1>4, <1>6, <2>1 DEF DueFits
  <2>2. CASE ~SavingOff
    <3>1. config' = config  BY <1>1, <1>5, <2>2
    <3>2. QED  BY <1>2, <1>3, <3>1 DEF DueFits, CleansUp
  <2>3. QED  BY <2>1, <2>2
<1>10. RoutesFit'
  <2>1. SUFFICES ASSUME Straight', NEW k \in Keys PROVE KeyFits(k)'
    <3>1. ~flow'.done /\ flow'.pc # "probe"  BY <1>1, NoFlowIs
    <3>2. QED  BY <3>1 DEF RoutesFit
  <2>2. /\ Straight /\ \A r \in loose : r.due => r \in loose'
        /\ ~(flow.for = "save" /\ flow.pc = "register" /\ flow.done)
    BY <1>3, <2>1
  <2>3. KeyFits(k)  BY <1>2, <2>2 DEF RoutesFit
  <2>4. CASE SavingOff
    <3>1. config' = Service /\ config'.mode # "private" /\ keptKeys' = keptKeys \cup {config.key}
      BY <1>1, <1>5, <1>6, <2>4, ServiceIs
    <3>2. ~RestoringKey(k) /\ (MovedKey(k) => k = config.key)
      BY <1>4, <1>6, <2>4 DEF RestoringKey, MovedKey
    <3>3. QED  BY <1>1, <2>3, <3>1, <3>2 DEF KeyFits
  <2>5. CASE flow.for = "test" /\ k = flow.key
    BY <1>3, <2>5 DEF KeyFits, RestoringKey
  <2>6. CASE ~SavingOff /\ ~(flow.for = "test" /\ k = flow.key)
    <3>1. config' = config /\ keptKeys' = keptKeys /\ routes' = routes  BY <1>1, <1>5, <2>6
    <3>2. RestoringKey(k) => RestoringKey(k)'  BY <2>2 DEF RestoringKey
    <3>3. ~MovedKey(k)
      <4>1. CASE flow = NoFlow  BY <4>1, NoFlowIs DEF MovedKey
      <4>2. CASE Testing  BY <2>6, <4>2 DEF MovedKey, Testing
      <4>3. CASE SavingOn  BY <2>2, <4>3 DEF MovedKey, SavingOn
      <4>4. QED  BY <1>4, <2>6, <4>1, <4>2, <4>3
    <3>4. QED  BY <2>3, <3>1, <3>2, <3>3 DEF KeyFits
  <2>7. QED  BY <2>4, <2>5, <2>6
<1>11. LoginIsOfBackend'
  <2>1. CASE c.open /\ SavingOff  BY <1>1, <1>5, <2>1 DEF LoginIsOfBackend
  <2>2. CASE ~c.open /\ (SavingOff \/ conf.reLogin)
    <3>1. "left" \in amiss'  BY <1>1, <1>5, <2>2
    <3>2. QED  BY <3>1 DEF LoginIsOfBackend
  <2>3. CASE ~SavingOff /\ (c.open \/ ~conf.reLogin)
    <3>1. config' = config /\ acct' = acct  BY <1>1, <1>5, <2>3
    <3>2. (conf.modal => conf'.modal) /\ (conf.reLogin => conf'.reLogin)  BY <1>1, <2>3
    <3>3. QED  BY <1>1, <1>2, <3>1, <3>2, LoginKept
  <2>4. QED  BY <2>1, <2>2, <2>3
<1>12. QED  BY <1>7, <1>8, <1>9, <1>10, <1>11 DEF ConfInv

LEMMA HideConfigKeeps == ASSUME ConfInv, HideConfig PROVE ConfInv'
<1> DEFINE h == [conf EXCEPT !.shown = FALSE]
           o == IF flow.pc = "idle" THEN conf ELSE FlowOver(h)
           c == [o EXCEPT !.shown = FALSE, !.token = FALSE, !.reLogin = @ \/ flow.pc = "unregister"]
<1>1. conf.shown /\ Abandons(c)  BY DEF HideConfig
<1>2. conf \in ConfPages /\ FlowShown /\ FlowFits  BY DEF ConfInv, ConfData
<1>3. conf.open /\ (flow.pc = "idle" => ~conf.busy)  BY <1>1, <1>2, NoFlowIs DEF FlowShown
<1>4. h \in ConfPages /\ h.open /\ ~h.shown /\ h.modal = conf.modal /\ h.reLogin = conf.reLogin
  BY <1>2, <1>3 DEF ConfPages
<1>5. /\ o \in ConfPages /\ o.open /\ o.modal = conf.modal /\ o.reLogin = conf.reLogin
      /\ o.busy => o.late
  <2>1. CASE flow.pc = "idle"  BY <1>2, <1>3, <2>1
  <2>2. CASE flow.pc # "idle"
    <3>1. o = FlowOver(h)  BY <2>2
    <3> HIDE DEF h, o
    <3>2. QED  BY <1>4, <3>1, FlowOverIs
  <2>3. QED  BY <2>1, <2>2
<1> HIDE DEF o
<1>6. /\ c \in ConfPages /\ c.open /\ ~c.shown /\ c.modal = conf.modal /\ (c.busy => c.late)
      /\ c.reLogin = (conf.reLogin \/ flow.pc = "unregister")
  BY <1>5 DEF ConfPages
<1> HIDE DEF c
<1>7. QED  BY <1>1, <1>6, AbandonsKeeps

LEMMA UnloadConfigKeeps == ASSUME ConfInv, UnloadConfig PROVE ConfInv'
<1>1. ~conf.modal /\ Abandons(NoConf)  BY DEF UnloadConfig
<1>2. QED  BY <1>1, NoConfIs, AbandonsKeeps

\* The user's data are cleared, with nothing under way.
LEMMA LogsInAgainKeeps == ASSUME ConfInv, flow = NoFlow, LogsInAgain PROVE ConfInv'
<1>1. /\ acct' = Nobody /\ conf' = NoConf
      /\ loose' = CancelledRequests /\ amiss' = amiss \cup Unrestored(loose')
      /\ UNCHANGED <<flow, routes, config, keptKeys, confBounds>>
  BY DEF LogsInAgain
<1>2. FlowFits /\ DueFits /\ RoutesFit /\ config \in Configs /\ loose \subseteq ConfRequests
  BY DEF ConfInv, ConfData
<1>3. loose' \subseteq ConfRequests /\ \A r \in loose' : r.due => r \in loose  BY <1>1, <1>2, CancelledIs
<1>4. acct'.session = FALSE /\ acct'.of = "none"  BY <1>1 DEF Nobody
<1>5. ConfData'  BY <1>1, <1>3, <1>4, NoConfIs DEF ConfInv, ConfData, confBounds
<1>6. FlowFits'  BY <1>1 DEF FlowFits
<1>7. FlowShown'  BY <1>1, NoConfIs DEF FlowShown
<1>8. DueFits'  BY <1>1, <1>2, <1>3 DEF DueFits
<1>9. RoutesFit'
  <2>1. Straight' => Straight /\ \A r \in loose : r.due => r \in loose'
    <3>1. Straight' => Straight /\ "unrestored" \notin Unrestored(loose')  BY <1>1, StraightIs
    <3>2. QED  BY <3>1, UnrestoredIs
  <2>2. \A k : MovedKey(k)' <=> MovedKey(k)  BY <1>1 DEF MovedKey
  <2>3. Straight' => \A k : RestoringKey(k) => RestoringKey(k)'  BY <2>1 DEF RestoringKey
  <2>4. QED  BY <1>1, <1>2, <2>1, <2>2, <2>3 DEF RoutesFit, KeyFits
<1>10. LoginIsOfBackend'  BY <1>4 DEF LoginIsOfBackend
<1>11. QED  BY <1>5, <1>6, <1>7, <1>8, <1>9, <1>10 DEF ConfInv

LEMMA ShowConfigKeeps == ASSUME ConfInv, ShowConfig PROVE ConfInv'
<1>1. conf.open /\ ~conf.shown  BY DEF ShowConfig
<1>2. conf \in ConfPages /\ FlowShown /\ LoginIsOfBackend  BY DEF ConfInv, ConfData
<1>3. flow = NoFlow /\ (conf.busy => conf.late)  BY <1>1, <1>2 DEF FlowShown
<1>4. CASE conf.reLogin  BY <1>3, <1>4, LogsInAgainKeeps DEF ShowConfig
<1>5. CASE ~conf.reLogin
  <2>1. /\ conf' = [conf EXCEPT !.shown = TRUE, !.busy = @ /\ ~conf.late, !.late = FALSE]
        /\ UNCHANGED <<flow, loose, routes, config, acct, keptKeys, amiss, confBounds>>
    BY <1>5 DEF ShowConfig
  <2>2. /\ conf' \in ConfPages /\ conf'.shown /\ conf'.open /\ ~conf'.busy /\ ~conf'.late
        /\ conf'.modal = conf.modal /\ ~conf'.reLogin
    BY <1>1, <1>2, <1>3, <1>5, <2>1 DEF ConfPages
  <2>3. FlowShown'  BY <1>3, <2>1, <2>2 DEF FlowShown
  <2>4. LoginIsOfBackend'  BY <1>2, <1>5, <2>1, <2>2, LoginKept
  <2>5. Straight' = Straight  BY <2>1 DEF Straight
  <2>6. acct'.session \in BOOLEAN /\ acct'.of \in Addresses \cup {"none", "saas"}
    BY <2>1 DEF ConfInv, ConfData
  <2>7. QED  BY <2>1, <2>2, <2>3, <2>4, <2>5, <2>6, PageMoves
<1>6. QED  BY <1>4, <1>5

LEMMA ConfirmSavedKeeps == ASSUME ConfInv, ConfirmSaved PROVE ConfInv'
<1>1. conf.modal /\ LogsInAgain  BY DEF ConfirmSaved
<1>2. flow = NoFlow  BY <1>1 DEF ConfInv, FlowShown
<1>3. QED  BY <1>1, <1>2, LogsInAgainKeeps

LEMMA ConfigDiesKeeps == ASSUME ConfInv, ConfigDies PROVE ConfInv'
<1>1. /\ exits < MaxExits /\ exits' = exits + 1
      /\ conf' = NoConf /\ flow' = NoFlow /\ loose' = {Unwanted(r) : r \in loose} \cup Underway
      /\ amiss' = amiss \cup Unrestored(loose')
           \cup (IF flow.for = "test" THEN {"unrestored"} ELSE {})
           \cup (IF flow.for = "save" /\ flow.done THEN {"abandoned"} ELSE {})
           \cup (IF conf.modal \/ conf.reLogin THEN {"left"} ELSE {})
      /\ UNCHANGED <<routes, config, acct, keptKeys, configs, presses>>
  BY DEF ConfigDies
<1>2. /\ amiss \subseteq amiss' /\ Unrestored(loose') \subseteq amiss'
      /\ flow.for = "test" => "unrestored" \in amiss'
      /\ flow.for = "save" /\ flow.done => "abandoned" \in amiss'
      /\ conf.modal \/ conf.reLogin => "left" \in amiss'
  BY <1>1
<1>3. FlowFits /\ RoutesFit /\ LoginIsOfBackend /\ config \in Configs /\ loose \subseteq ConfRequests
  BY DEF ConfInv, ConfData
<1>4. loose' \subseteq ConfRequests /\ \A r \in loose' : ~r.due
  <2>1. Underway \subseteq ConfRequests /\ \A r \in Underway : r.due = FALSE  BY <1>3, UnderwayIs
  <2>2. \A r \in loose : Unwanted(r) \in ConfRequests /\ ~Unwanted(r).due  BY <1>3, UnwantedIs
  <2>3. ASSUME NEW q \in loose' PROVE q \in ConfRequests /\ ~q.due
    <3>1. q \in Underway \/ \E r \in loose : q = Unwanted(r)  BY <1>1
    <3>2. QED  BY <2>1, <2>2, <3>1
  <2>4. QED  BY <2>3
<1>5. exits' \in 0..MaxExits
  <2>1. exits \in 0..MaxExits  BY DEF ConfInv, ConfData
  <2>2. QED  BY <1>1, <2>1, ConfBounds
<1>6. ConfData'  BY <1>1, <1>4, <1>5, NoConfIs, NoFlowIs DEF ConfInv, ConfData
<1>7. FlowFits' /\ FlowShown' /\ DueFits'  BY <1>1, <1>4, NoConfIs DEF FlowFits, FlowShown, DueFits
<1>8. RoutesFit'
  <2>1. SUFFICES ASSUME Straight', NEW k \in Keys PROVE KeyFits(k)'
    <3>1. ~flow'.done /\ flow'.pc # "probe"  BY <1>1, NoFlowIs
    <3>2. QED  BY <3>1 DEF RoutesFit
  <2>2. "unrestored" \notin amiss' /\ "late" \notin amiss' /\ "abandoned" \notin amiss'
    BY <2>1, StraightIs
  <2>3. Straight /\ "unrestored" \notin Unrestored(loose') /\ flow.for # "test" /\ ~(flow.for = "save" /\ flow.done)
    BY <1>2, <2>2, StraightIs
  <2>4. ~RestoringKey(k)
    <3>1. \A r \in loose : r.due => r \in loose'  BY <2>3, UnrestoredIs
    <3>2. QED  BY <1>4, <3>1 DEF RestoringKey
  <2>5. ~MovedKey(k)
    <3>1. CASE flow = NoFlow  BY <3>1, NoFlowIs DEF MovedKey
    <3>2. CASE flow # NoFlow
      BY <1>3, <2>3, <3>2 DEF FlowFits, Testing, SavingOn, SavingOff, MovedKey
    <3>3. QED  BY <3>1, <3>2
  <2>6. KeyFits(k)  BY <1>3, <2>3 DEF RoutesFit
  <2>7. QED  BY <1>1, <2>4, <2>5, <2>6 DEF KeyFits
<1>9. LoginIsOfBackend'
  <2>1. CASE conf.modal \/ conf.reLogin
    <3>1. "left" \in amiss'  BY <1>2, <2>1
    <3>2. QED  BY <3>1 DEF LoginIsOfBackend
  <2>2. CASE ~conf.modal /\ ~conf.reLogin
    <3>1. config' = config /\ acct' = acct  BY <1>1
    <3>2. QED  BY <1>2, <1>3, <2>2, <3>1, LoginKept
  <2>3. QED  BY <2>1, <2>2
<1>10. QED  BY <1>6, <1>7, <1>8, <1>9 DEF ConfInv

LEMMA LogsInElsewhereKeeps == ASSUME ConfInv, LogsInElsewhere PROVE ConfInv'
<1>1. /\ ~conf.open /\ Reached # "none" /\ acct' = [session |-> TRUE, of |-> Reached]
      /\ amiss' = IF Reached = Configured THEN amiss \ {"left", "misrouted"}
                                          ELSE amiss \cup {"misrouted"}
      /\ UNCHANGED <<conf, flow, loose, routes, config, keptKeys, confBounds>>
  BY DEF LogsInElsewhere
<1>2. /\ conf \in ConfPages /\ config \in Configs /\ routes \in [Keys -> Addresses \cup {"none"}] /\ FlowShown
  BY DEF ConfInv, ConfData
<1>3. Reached \in Addresses \cup {"none", "saas"}
  <2>1. CASE config.mode = "saas"  BY <2>1 DEF Reached
  <2>2. CASE config.mode # "saas"
    <3>1. config.key \in Keys  BY <1>2, <2>2, ConfigIs
    <3>2. routes[config.key] \in Addresses \cup {"none"}  BY <1>2, <3>1
    <3>3. Reached = routes[config.key]  BY <2>2 DEF Reached
    <3>4. QED  BY <3>2, <3>3
  <2>3. QED  BY <2>1, <2>2
<1>4. acct'.session = TRUE /\ acct'.of = Reached  BY <1>1
<1>5. ~conf.shown /\ flow = NoFlow  BY <1>1, <1>2 DEF FlowShown
<1>6. FlowShown'  BY <1>1, <1>2, <1>5 DEF FlowShown
<1>7. Straight' => Straight
  <2>1. \A s \in {"unrestored", "late", "abandoned"} : s \in amiss => s \in amiss'  BY <1>1
  <2>2. QED  BY <2>1, StraightIs
<1>8. LoginIsOfBackend'
  <2>1. Configured' = Configured  BY <1>1 DEF Configured
  <2>2. CASE Reached = Configured  BY <1>4, <2>1, <2>2 DEF LoginIsOfBackend
  <2>3. CASE Reached # Configured
    <3>1. "misrouted" \in amiss'  BY <1>1, <2>3
    <3>2. QED  BY <3>1 DEF LoginIsOfBackend
  <2>4. QED  BY <2>2, <2>3
<1>9. acct'.session \in BOOLEAN /\ acct'.of \in Addresses \cup {"none", "saas"}  BY <1>3, <1>4
<1>10. QED  BY <1>1, <1>2, <1>6, <1>7, <1>8, <1>9, PageMoves

LEMMA UnauthorizedKeeps == ASSUME ConfInv, Unauthorized PROVE ConfInv'
<1>1. /\ ~conf.open /\ acct' = [acct EXCEPT !.session = FALSE]
      /\ UNCHANGED <<conf, flow, loose, routes, config, keptKeys, amiss, confBounds>>
  BY DEF Unauthorized
<1>2. conf \in ConfPages /\ FlowShown /\ LoginIsOfBackend /\ acct.of \in Addresses \cup {"none", "saas"}
  BY DEF ConfInv, ConfData
<1>3. flow = NoFlow  BY <1>1, <1>2 DEF FlowShown
<1>4. FlowShown'  BY <1>1, <1>2, <1>3 DEF FlowShown
<1>5. acct'.of = acct.of /\ acct'.session \in BOOLEAN  BY <1>1
<1>6. Straight' = Straight  BY <1>1 DEF Straight
<1>7. LoginIsOfBackend'
  <2>1. Configured' = Configured  BY <1>1 DEF Configured
  <2>2. QED  BY <1>1, <1>2, <1>5, <2>1 DEF LoginIsOfBackend
<1>8. QED  BY <1>1, <1>2, <1>4, <1>5, <1>6, <1>7, PageMoves

LEMMA ConfInvStep == ConfInv /\ [BackendConfigNext]_confVars => ConfInv'
<1> SUFFICES ASSUME ConfInv, [BackendConfigNext]_confVars PROVE ConfInv'  OBVIOUS
<1>1. CASE UNCHANGED confVars
  <2>1. UNCHANGED <<conf, flow, loose, routes, config, acct, keptKeys, amiss, confBounds>>
    BY <1>1 DEF confVars, confBounds
  <2>2. Straight' = Straight /\ conf \in ConfPages /\ acct.session \in BOOLEAN
        /\ acct.of \in Addresses \cup {"none", "saas"}
    BY <2>1 DEF Straight, ConfInv, ConfData
  <2>3. FlowShown'  BY <2>1 DEF ConfInv, FlowShown
  <2>4. LoginIsOfBackend'
    <3>1. LoginIsOfBackend  BY DEF ConfInv
    <3>2. QED  BY <2>1, <3>1, LoginKept
  <2>5. QED  BY <2>1, <2>2, <2>3, <2>4, PageMoves
<1>2. CASE OpenConfig  BY <1>2, OpenConfigKeeps
<1>3. CASE SaveOff  BY <1>3, SaveOffKeeps
<1>4. ASSUME NEW k \in Keys, NEW u \in Addresses, TestConnection(k, u) \/ SaveOn(k, u) PROVE ConfInv'
  <2>1. CASE TestConnection(k, u)  BY <2>1, BeginsKeeps DEF TestConnection
  <2>2. CASE SaveOn(k, u)  BY <2>2, BeginsKeeps DEF SaveOn
  <2>3. QED  BY <1>4, <2>1, <2>2
<1>5. CASE FlowArrives  BY <1>5, FlowArrivesKeeps
<1>6. ASSUME NEW r \in loose, LooseArrives(r) \/ LooseFails(r) PROVE ConfInv'
  BY <1>6, LooseArrivesKeeps, LooseFailsKeeps
<1>7. CASE ConfigAnswers
  BY <1>7, TestRegisteredKeeps, TestOverKeeps, SaveSucceedsKeeps, SaveFailsKeeps DEF ConfigAnswers
<1>8. CASE HideConfig \/ UnloadConfig \/ ShowConfig
  BY <1>8, HideConfigKeeps, UnloadConfigKeeps, ShowConfigKeeps
<1>9. CASE ConfirmSaved \/ ConfigDies
  BY <1>9, ConfirmSavedKeeps, ConfigDiesKeeps
<1>10. CASE LogsInElsewhere \/ Unauthorized
  BY <1>10, LogsInElsewhereKeeps, UnauthorizedKeeps
<1>11. QED
  BY <1>1, <1>2, <1>3, <1>4, <1>5, <1>6, <1>7, <1>8, <1>9, <1>10 DEF BackendConfigNext

LEMMA ConfInvImplies ==
  ConfInv => BackendConfigTypeOK /\ RouteIsSaved /\ NoOrphanRoute /\ LoginIsOfBackend /\ ButtonsReturn
<1> SUFFICES ASSUME ConfInv
             PROVE  BackendConfigTypeOK /\ RouteIsSaved /\ NoOrphanRoute /\ LoginIsOfBackend /\ ButtonsReturn
  OBVIOUS
<1>1. ConfData /\ FlowFits /\ FlowShown /\ LoginIsOfBackend  BY DEF ConfInv
<1>2. BackendConfigTypeOK  BY <1>1 DEF ConfData, ConfFlows, Configs, BackendConfigTypeOK
<1>3. NothingDue => flow = NoFlow /\ \A r \in loose : ~r.due  BY <1>1, NoFlowIs DEF NothingDue
<1>4. RouteIsSaved
  <2>1. config.mode = "private" => config.key \in Keys
    <3>1. config \in Configs  BY <1>1 DEF ConfData
    <3>2. QED  BY <3>1, ConfigIs, ServiceIs
  <2>2. QED  BY <1>3, <2>1, RoutesAtRest DEF RouteIsSaved
<1>5. NoOrphanRoute  BY <1>3, RoutesAtRest DEF NoOrphanRoute
<1>6. ButtonsReturn  BY <1>1, NoFlowIs DEF FlowShown, ButtonsReturn
<1>7. QED  BY <1>1, <1>2, <1>4, <1>5, <1>6

-----------------------------------------------------------------------------
(***************************************************************************)
(* The place picker                                                        *)
(***************************************************************************)
PlaceForms ==
  [addr : {"", "locating", "here", "chosen", "near"}, at : {"none", "here", "chosen", "near"},
   near : {"none", "here", "chosen"}]

\* What is late is one form, and only while the page is hidden.
PlaceData ==
  /\ form \in PlaceForms /\ late \in {<<>>} \cup {<<x>> : x \in PlaceForms}
  /\ find \in {"idle", "setting", "refused", "locate", "reverse"} /\ map \in {"idle", "map", "reverse"}
  /\ shown \in BOOLEAN /\ overwrote \in BOOLEAN /\ trips \in 0..MaxTrips
  /\ shown => late = <<>>

PlaceInv == PlaceData /\ PlaceAgrees

LEMMA LatestPlaceIs ==
  ASSUME PlaceData
  PROVE  /\ Latest \in PlaceForms /\ (shown => Latest = form)
         /\ \A x : late = <<x>> => Latest = x
<1>1. \A x : <<x>> # <<>> /\ <<x>>[1] = x  OBVIOUS
<1>2. QED  BY <1>1 DEF PlaceData, Latest

\* The form is filled at once, or as soon as the page is shown again.
LEMMA FillKeeps ==
  ASSUME PlaceData, NEW x \in PlaceForms, Fill(x), shown' = shown
  PROVE  /\ form' \in PlaceForms /\ late' \in {<<>>} \cup {<<y>> : y \in PlaceForms}
         /\ (shown' => late' = <<>>) /\ Latest' = x
<1>1. <<x>> # <<>> /\ <<x>>[1] = x  OBVIOUS
<1>2. CASE shown
  <2>1. form' = x /\ late' = late /\ late = <<>>  BY <1>2 DEF Fill, PlaceData
  <2>2. QED  BY <1>2, <2>1 DEF Latest, PlaceData
<1>3. CASE ~shown
  <2>1. form' = form /\ late' = <<x>>  BY <1>3 DEF Fill
  <2>2. QED  BY <1>1, <1>3, <2>1 DEF Latest, PlaceData
<1>4. QED  BY <1>2, <1>3

\* A placeholder keeps the coordinates, and is noted where there are any.
LEMMA GetLocationKeeps ==
  ASSUME PlaceInv, GetLocation, map' = map, shown' = shown, trips' = trips
  PROVE  PlaceInv'
<1> DEFINE x == [Latest EXCEPT !.addr = "locating"]
<1>1. PlaceData /\ PlaceAgrees  BY DEF PlaceInv
<1>2. Latest \in PlaceForms  BY <1>1, LatestPlaceIs
<1>3. x \in PlaceForms /\ x.at = Latest.at  BY <1>2 DEF PlaceForms
<1>4. find' = "locate" /\ Fill(x) /\ overwrote' = (overwrote \/ Latest.at # "none")  BY DEF GetLocation
<1> HIDE DEF x
<1>5. /\ form' \in PlaceForms /\ late' \in {<<>>} \cup {<<y>> : y \in PlaceForms}
      /\ (shown' => late' = <<>>) /\ Latest' = x
  BY <1>1, <1>3, <1>4, FillKeeps
<1>6. PlaceData'  BY <1>1, <1>4, <1>5 DEF PlaceData
<1>7. PlaceAgrees'
  <2>1. Latest.at # "none" => overwrote'  BY <1>4
  <2>2. Latest'.at # "none" => overwrote'  BY <1>3, <1>5, <2>1
  <2>3. QED  BY <2>2 DEF PlaceAgrees
<1>8. QED  BY <1>6, <1>7 DEF PlaceInv

\* Where the form stays, whatever else moves.
LEMMA FormRests ==
  ASSUME PlaceInv, form' = form, late' = late, overwrote' = overwrote,
         shown' = shown \/ shown' = FALSE,
         find' \in {"idle", "setting", "refused", "locate", "reverse"}, map' \in {"idle", "map", "reverse"},
         trips' \in 0..MaxTrips
  PROVE  PlaceInv'
<1>1. PlaceData /\ PlaceAgrees  BY DEF PlaceInv
<1>2. PlaceData'
  <2>1. shown \in BOOLEAN /\ (shown => late = <<>>) /\ overwrote \in BOOLEAN  BY <1>1 DEF PlaceData
  <2>2. shown' \in BOOLEAN  BY <2>1
  <2>3. shown' => late' = <<>>  BY <2>1
  <2>4. overwrote' \in BOOLEAN  BY <2>1
  <2>5. QED  BY <1>1, <2>2, <2>3, <2>4 DEF PlaceData
<1>3. Latest' = Latest  BY DEF Latest
<1>4. PlaceAgrees'  BY <1>1, <1>3 DEF PlaceAgrees
<1>5. QED  BY <1>2, <1>4 DEF PlaceInv

\* The form is that of one place.
LEMMA FormAgrees ==
  ASSUME PlaceInv, NEW x \in PlaceForms, x.addr = x.at, Fill(x),
         shown' = shown, overwrote' = overwrote, trips' = trips,
         find' \in {"idle", "setting", "refused", "locate", "reverse"}, map' \in {"idle", "map", "reverse"}
  PROVE  PlaceInv'
<1>1. PlaceData /\ PlaceAgrees  BY DEF PlaceInv
<1>2. /\ form' \in PlaceForms /\ late' \in {<<>>} \cup {<<y>> : y \in PlaceForms}
      /\ (shown' => late' = <<>>) /\ Latest' = x
  BY <1>1, FillKeeps
<1>3. PlaceData'  BY <1>1, <1>2 DEF PlaceData
<1>4. PlaceAgrees'  BY <1>2 DEF PlaceAgrees
<1>5. QED  BY <1>3, <1>4 DEF PlaceInv

LEMMA PlaceInvInit == PlaceInit => PlaceInv
<1> SUFFICES ASSUME PlaceInit PROVE PlaceInv  OBVIOUS
<1>1. PlaceData
  <2>1. form \in PlaceForms  BY DEF PlaceInit, PlaceForms, Empty
  <2>2. shown \in BOOLEAN /\ overwrote \in BOOLEAN  BY DEF PlaceInit
  <2>3. trips \in 0..MaxTrips  BY PlaceAssumption DEF PlaceAssumption, PlaceInit
  <2>4. late = <<>> /\ find = "setting" /\ map = "idle"  BY DEF PlaceInit
  <2>5. QED  BY <2>1, <2>2, <2>3, <2>4 DEF PlaceData
<1>2. Latest.at = "none"  BY DEF PlaceInit, Latest, Empty
<1>3. QED  BY <1>1, <1>2 DEF PlaceInv, PlaceAgrees

LEMMA PlaceInvStep == PlaceInv /\ [PlaceNext]_placeVars => PlaceInv'
<1> SUFFICES ASSUME PlaceInv, [PlaceNext]_placeVars PROVE PlaceInv'  OBVIOUS
<1>1. PlaceData /\ PlaceAgrees  BY DEF PlaceInv
<1> DEFINE Finds == {"idle", "setting", "refused", "locate", "reverse"}
           Maps == {"idle", "map", "reverse"}
<1>2. /\ form \in PlaceForms /\ find \in Finds /\ map \in Maps /\ trips \in 0..MaxTrips
      /\ (shown => late = <<>>)
  BY <1>1 DEF PlaceData
<1>3. CASE Setting
  <2>1. CASE GetLocation  BY <1>3, <2>1, GetLocationKeeps DEF Setting
  <2>2. CASE ~GetLocation  BY <1>2, <1>3, <2>2, FormRests DEF Setting
  <2>3. QED  BY <2>1, <2>2
<1>4. CASE OpenSetting
  <2>1. CASE GetLocation  BY <1>4, <2>1, GetLocationKeeps DEF OpenSetting
  <2>2. CASE ~GetLocation  BY <1>2, <1>4, <2>2, FormRests DEF OpenSetting
  <2>3. QED  BY <2>1, <2>2
<1>5. CASE Located  BY <1>2, <1>5, FormRests DEF Located
<1>6. CASE ReverseFound
  <2>1. CASE shown /\ FillLocation
    <3> DEFINE x == [addr |-> "here", at |-> "here", near |-> "here"]
    <3>1. x \in PlaceForms /\ x.addr = x.at  BY DEF PlaceForms
    <3>2. Fill(x)  BY <1>6, <2>1 DEF ReverseFound, FillLocation, Fill
    <3>3. QED  BY <1>2, <1>6, <3>1, <3>2, FormAgrees DEF ReverseFound
  <2>2. CASE UNCHANGED form  BY <1>2, <1>6, <2>2, FormRests DEF ReverseFound
  <2>3. QED  BY <1>6, <2>1, <2>2 DEF ReverseFound
<1>7. CASE ChooseLocation
  <2>1. trips' \in 0..MaxTrips  BY <1>2, <1>7, PlaceAssumption DEF PlaceAssumption, ChooseLocation, Trip
  <2>2. QED  BY <1>2, <1>7, <2>1, FormRests DEF ChooseLocation
<1>8. CASE MapCloses  BY <1>2, <1>8, FormRests DEF MapCloses
<1>9. CASE ReverseChosen
  <2> DEFINE x == [addr |-> "chosen", at |-> "chosen", near |-> "chosen"]
  <2>1. CASE Fill(x)
    <3>1. x \in PlaceForms /\ x.addr = x.at  BY DEF PlaceForms
    <3>2. QED  BY <1>2, <1>9, <2>1, <3>1, FormAgrees DEF ReverseChosen
  <2>2. CASE UNCHANGED <<form, late>>  BY <1>2, <1>9, <2>2, FormRests DEF ReverseChosen
  <2>3. QED  BY <1>9, <2>1, <2>2 DEF ReverseChosen
<1>10. CASE SelectPOI
  <2> DEFINE x == [form EXCEPT !.addr = "near", !.at = "near"]
  <2>1. x \in PlaceForms /\ x.addr = x.at  BY <1>2 DEF PlaceForms
  <2>2. Fill(x)  BY <1>10 DEF SelectPOI, Fill
  <2>3. QED  BY <1>2, <1>10, <2>1, <2>2, FormAgrees DEF SelectPOI
<1>11. CASE HidePlace
  <2>1. trips' \in 0..MaxTrips  BY <1>2, <1>11, PlaceAssumption DEF PlaceAssumption, HidePlace, Trip
  <2>2. QED  BY <1>2, <1>11, <2>1, FormRests DEF HidePlace
<1>12. CASE ShowPlace
  <2>1. form' = Latest /\ late' = <<>> /\ Latest \in PlaceForms  BY <1>1, <1>12, LatestPlaceIs DEF ShowPlace
  <2>2. Latest' = Latest  BY <2>1 DEF Latest
  <2>3. PlaceData'  BY <1>1, <1>12, <2>1 DEF ShowPlace, PlaceData
  <2>4. PlaceAgrees'  BY <1>1, <1>12, <2>2 DEF ShowPlace, PlaceAgrees
  <2>5. QED  BY <2>3, <2>4 DEF PlaceInv
<1>13. CASE UNCHANGED placeVars  BY <1>2, <1>13, FormRests DEF placeVars
<1>14. QED
  BY <1>3, <1>4, <1>5, <1>6, <1>7, <1>8, <1>9, <1>10, <1>11, <1>12, <1>13 DEF PlaceNext, Finding

LEMMA PlaceInvImplies == PlaceInv => PlaceTypeOK /\ PlaceAgrees
BY DEF PlaceInv, PlaceData, PlaceTypeOK, PlaceForms
=============================================================================
