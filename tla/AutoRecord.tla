----------------------------- MODULE AutoRecord -----------------------------
(***************************************************************************)
(* Automatic recording of one user (internal/autorecord, and the manual    *)
(* check-in of internal/diary): the device reports points, a background    *)
(* round groups the pending ones into stays, names each stay and turns it  *)
(* into a diary entry unless the last automatic entry of that date has the *)
(* same name, and only then deletes the points.  Rounds and check-ins of   *)
(* the user exclude each other by an advisory lock.                        *)
(*                                                                         *)
(* Data.  A point is its recorded_at, a number; Place gives the place it   *)
(* lies at.  Points of one place are within the merge radius of each       *)
(* other, points of two places are not.  A name is a landmark and maybe an *)
(* address, and names are all that is compared: a place has one name from  *)
(* the geocoder, which other places may share in part, and another when it *)
(* is a common address of the user, of which only a round knows.  (That    *)
(* the geocoder names two positions of one stay differently is left out.)  *)
(* Entries are not edited or deleted here, nor common addresses renamed,   *)
(* which renames the entries, too.                                         *)
(* geocode_attempts is left out: it is counted and logged, and no branch   *)
(* but the counting itself depends on it.  The rows that mergeStayPoints   *)
(* drops as invalid cannot be stored (NOT NULL, checked coordinates).      *)
(***************************************************************************)
EXTENDS Naturals, Sequences, FiniteSets

CONSTANTS
  Points,          \* recorded_at of the points the device may report
  Places, Place,   \* the place of each point
  Names, NoName,   \* landmarks and addresses, and the empty string
  Landmark,        \* what the geocoder gives as the landmark of a place (else its address)
  Address,         \* and as its address, which may be empty
  Window,          \* stayPointMergeWindow
  DayLength,       \* length of a calendar day
  Batch,           \* maxPendingPerUser
  Rounds,          \* background rounds of this user (several instances run them)
  CheckIns,        \* requests POST /diary/details/auto
  MaxNow,          \* bound: the clock
  MaxUploads,      \* bound: how often a point may be stored, where it may be again
  Settings,        \* who takes part in a behaviour, and what may go wrong in it
  None,            \* no actor, no place
  Unread           \* a date whose last entry a round has not read

Name == [landmark : Names \cup {NoName}, address : Names \cup {NoName}]

ASSUME ParametersAssumption ==
  /\ Points \subseteq Nat /\ Place \in [Points -> Places]
  /\ Landmark \in [Places -> Names] /\ Address \in [Places -> Names \cup {NoName}]
  /\ NoName \notin Names
  /\ Window \in Nat /\ DayLength \in Nat \ {0} /\ Batch \in Nat \ {0}
  /\ MaxNow \in Nat /\ MaxUploads \in Nat \ {0}
  /\ Settings \subseteq
       [actors : SUBSET (Rounds \cup CheckIns),
        points : SUBSET Points,                   \* what the device reports
        places : SUBSET Places,                   \* where the user checks in
        called : [Places -> Names \cup {NoName}],  \* the common address that may match a place
        maxEntries : Nat,                         \* bound: entries created
        failures : SUBSET {"geocode", "read", "create", "delete"},  \* statements that may fail
        fickle : BOOLEAN,                         \* the switch and the VIP may change
        crashes : BOOLEAN,                        \* a process may die
        repeats : BOOLEAN,                        \* a point that was handled may be stored again
        lossy : BOOLEAN]                          \* the connection that holds the lock may break
  /\ Rounds \cap CheckIns = {} /\ None \notin Rounds \cup CheckIns \cup Places /\ Unread \notin Name

Actors == Rounds \cup CheckIns
Day(t) == t \div DayLength
Days == {Day(t) : t \in 0..MaxNow}

VARIABLES
  pending,   \* auto_record_trajectories: rows [at, id]
  uploads,   \* history: how many rows a point was given
  stale,     \* history: points removed by the seven-day clean-up
  entries,   \* automatic diary entries in the order of their creation
  now, vip, enabled,
  holder,    \* who holds lock:auto_record:{userID} in PostgreSQL
  pc,        \* position of an actor
  todo,      \* a round: the stays it has still to handle
  del,       \* a round: toDelete
  known,     \* a round: commonAddrs, the places that a common address matches
  cache,     \* a round: lastAutoEntries, the name of the last entry by date
  here,      \* a check-in: its time, place and name, fixed before it takes the lock
  setting    \* the setting of this behaviour

dbVars == <<pending, uploads, stale, entries>>
userVars == <<now, vip, enabled, setting>>
roundVars == <<todo, del, known, cache>>
vars == <<dbVars, userVars, holder, pc, roundVars, here>>

Row == [at : Points, id : 1..MaxUploads]
Entry == [place : Places, name : Name, at : 0..MaxNow, of : SUBSET Row]

\* The name that the geocoder, and that a common address, gives to a place.
Geocoded(p) == [landmark |-> Landmark[p], address |-> Address[p]]
AsCommon(n) == [landmark |-> n, address |-> NoName]
NamesOf(p) == {Geocoded(p), AsCommon(setting.called[p])}

\* The row of a date that has no automatic entry.
Nameless == AsCommon(NoName)
NoPlan == [at |-> 0, place |-> None, name |-> Nameless]

Init ==
  /\ pending = {} /\ uploads = [p \in Points |-> 0] /\ stale = {} /\ entries = <<>>
  /\ now = 0 /\ vip = TRUE /\ enabled = TRUE
  /\ holder = None
  /\ pc = [a \in Actors |-> "idle"]
  /\ todo = [r \in Rounds |-> {}] /\ del = [r \in Rounds |-> {}]
  /\ known = [r \in Rounds |-> {}]
  /\ cache = [r \in Rounds |-> [d \in Days |-> Unread]]
  /\ here = [c \in CheckIns |-> NoPlan]
  /\ setting \in Settings

Goto(a, s) == pc' = [pc EXCEPT ![a] = s]
LockNotExclusive(a) == holder' = a   \* mutant: the answer of TryLock is ignored
Lock(a) == holder = None /\ holder' = a

-----------------------------------------------------------------------------
(* The user and the device. *)

\* One batch, possibly a repetition: ON CONFLICT DO NOTHING on the natural key.
New(S) == {p \in S : \A q \in pending : q.at # p}
UploadTrajectories(S) ==
  /\ vip /\ S \subseteq setting.points
  /\ \A p \in S : p <= now
  /\ \A p \in New(S) : uploads[p] < (IF setting.repeats THEN MaxUploads ELSE 1)
  /\ pending' = pending \cup {[at |-> p, id |-> uploads[p] + 1] : p \in New(S)}
  /\ uploads' = [p \in Points |-> IF p \in New(S) THEN uploads[p] + 1 ELSE uploads[p]]
  /\ UNCHANGED <<stale, entries, userVars, holder, pc, roundVars, here>>

UpdateConfig(on) ==
  /\ setting.fickle /\ (on => vip)
  /\ enabled' = on
  /\ UNCHANGED <<dbVars, now, vip, setting, holder, pc, roundVars, here>>

\* The VIP runs out or is bought again, and time passes.
VIPChanges ==
  /\ setting.fickle /\ vip' = ~vip
  /\ UNCHANGED <<dbVars, now, enabled, setting, holder, pc, roundVars, here>>
Tick ==
  /\ now < MaxNow /\ now' = now + 1
  /\ UNCHANGED <<dbVars, vip, enabled, setting, holder, pc, roundVars, here>>

\* created_at is not kept: any row may be the one that is seven days old.
DeleteStale(q) ==
  /\ q \in pending
  /\ pending' = pending \ {q}
  /\ stale' = stale \cup {q.at}
  /\ UNCHANGED <<uploads, entries, userVars, holder, pc, roundVars, here>>

-----------------------------------------------------------------------------
(* Stays: mergeStayPoints. *)

Listed == {q \in pending : Cardinality({p \in pending : p.at < q.at}) < Batch}

\* q joins the stay of p, the row before it.
Joins(p, q) == Place[p.at] = Place[q.at] /\ q.at - p.at <= Window
Before(R, q) == {p \in R : p.at < q.at}
Newest(R) == CHOOSE q \in R : \A p \in R : p.at <= q.at
Starts(R) == {q \in R : Before(R, q) = {} \/ ~Joins(Newest(Before(R, q)), q)}
Stay(R, s) == {q \in R : s.at <= q.at /\ \A t \in Starts(R) : t.at > s.at => q.at < t.at}
Stays(R) == {Stay(R, s) : s \in Starts(R)}

\* The stay a round handles next, its place, its time and the name the round gives it.
NextStay(r) == CHOOSE C \in todo[r] : \A D \in todo[r] : Newest(C).at <= Newest(D).at
PlaceOf(C) == Place[Newest(C).at]
DayOf(C) == Day(Newest(C).at)
NameOf(r, C) == IF PlaceOf(C) \in known[r] THEN AsCommon(setting.called[PlaceOf(C)]) ELSE Geocoded(PlaceOf(C))

\* IsSameAsLastAutoEntry: the landmarks or the addresses are equal, and not empty.
SameName(n, m) ==
  \/ n.landmark # NoName /\ n.landmark = m.landmark
  \/ n.address # NoName /\ n.address = m.address

\* GetUserLastAutoEntryByDate orders by record_time; equal times come in any order.
OnDay(d) == {i \in DOMAIN entries : Day(entries[i].at) = d}
LastOn(d) ==
  IF OnDay(d) = {} THEN {Nameless}
  ELSE {entries[i].name : i \in {j \in OnDay(d) : \A k \in OnDay(d) : entries[k].at <= entries[j].at}}

-----------------------------------------------------------------------------
\* The end of a round or check-in.  A holder whose connection broke releases
\* nothing, or the lock of the next holder of its own process: that is LoseLock again.
Release(a) == holder' = IF holder = a THEN None ELSE holder
Return(a) ==   \* and the local variables are gone
  /\ Goto(a, IF a \in Rounds THEN "idle" ELSE "done")
  /\ todo' = [r \in Rounds |-> IF r = a THEN {} ELSE todo[r]]
  /\ del' = [r \in Rounds |-> IF r = a THEN {} ELSE del[r]]
  /\ known' = [r \in Rounds |-> IF r = a THEN {} ELSE known[r]]
  /\ cache' = [r \in Rounds |-> IF r = a THEN [d \in Days |-> Unread] ELSE cache[r]]
  /\ here' = [c \in CheckIns |-> IF c = a THEN NoPlan ELSE here[c]]

-----------------------------------------------------------------------------
(* processUser. *)

\* Mutant: a round waits for the lock as a check-in does.
LockRoundWaits(r) ==
  /\ pc[r] = "idle" /\ r \in setting.actors
  /\ \/ Lock(r) /\ Goto(r, "check")
     \/ holder # None /\ Goto(r, "wait") /\ UNCHANGED holder
  /\ UNCHANGED <<dbVars, userVars, roundVars, here>>

\* The list of pending users is only a hint; everything is read again.
LockRound(r) ==
  /\ pc[r] = "idle" /\ r \in setting.actors /\ Lock(r)
  /\ Goto(r, "check")
  /\ UNCHANGED <<dbVars, userVars, roundVars, here>>

CheckUser(r) ==
  /\ pc[r] = "check"
  /\ Goto(r, IF enabled /\ vip THEN "list" ELSE "unlock")
  /\ UNCHANGED <<dbVars, userVars, holder, roundVars, here>>

\* The common addresses are read once: any of them, for the daily summary adds and
\* removes them, and none when they cannot be read.
CommonAddresses == SUBSET {p \in Places : setting.called[p] # NoName}
ListTrajectories(r) ==
  /\ pc[r] = "list"
  /\ Goto(r, IF pending = {} THEN "unlock" ELSE "name")
  /\ \E K \in CommonAddresses : known' = [known EXCEPT ![r] = K]
  /\ todo' = [todo EXCEPT ![r] = Stays(Listed)]
  /\ del' = [del EXCEPT ![r] = {}]
  /\ cache' = [cache EXCEPT ![r] = [d \in Days |-> Unread]]
  /\ UNCHANGED <<dbVars, userVars, holder, here>>

Naming(r) == pc[r] = "name" /\ todo[r] # {}
Geocodes(r) == Naming(r) /\ PlaceOf(NextStay(r)) \notin known[r]
\* The name, NameOf(r, NextStay(r)), is found: a common address, or the geocoder answers.
NameStay(r) ==
  /\ Naming(r)
  /\ Goto(r, "last")
  /\ UNCHANGED <<dbVars, userVars, holder, roundVars, here>>

\* Mutant: the points of a stay that cannot be named are deleted.
SkipStayDeletes(r) ==
  /\ Geocodes(r) /\ "geocode" \in setting.failures
  /\ todo' = [todo EXCEPT ![r] = @ \ {NextStay(r)}]
  /\ del' = [del EXCEPT ![r] = @ \cup NextStay(r)]
  /\ UNCHANGED <<dbVars, userVars, holder, pc, known, cache, here>>

\* Quota exhausted, geocoder down or empty answer: the points stay for a later round.
SkipStay(r) ==
  /\ Geocodes(r) /\ "geocode" \in setting.failures
  /\ todo' = [todo EXCEPT ![r] = @ \ {NextStay(r)}]
  /\ UNCHANGED <<dbVars, userVars, holder, pc, del, known, cache, here>>

\* What the round compares with: lastAutoEntries, read from the database at first.
Compared(r, d) == IF cache[r][d] = Unread THEN LastOn(d) ELSE {cache[r][d]}
Remember(r, d, n) == cache' = [cache EXCEPT ![r][d] = n]

\* Mutant: the points of a duplicate stay stay pending.
IsDuplicateKept(r) ==
  LET C == NextStay(r) IN
  /\ pc[r] = "last"
  /\ \E n \in Compared(r, DayOf(C)) : SameName(NameOf(r, C), n) /\ Remember(r, DayOf(C), n)
  /\ todo' = [todo EXCEPT ![r] = @ \ {C}]
  /\ Goto(r, "name")
  /\ UNCHANGED <<dbVars, userVars, holder, del, known, here>>

\* The stay is a repetition of the last entry: its points may go.
IsDuplicate(r) ==
  LET C == NextStay(r) IN
  /\ pc[r] = "last"
  /\ \E n \in Compared(r, DayOf(C)) : SameName(NameOf(r, C), n) /\ Remember(r, DayOf(C), n)
  /\ del' = [del EXCEPT ![r] = @ \cup C]
  /\ todo' = [todo EXCEPT ![r] = @ \ {C}]
  /\ Goto(r, "name")
  /\ UNCHANGED <<dbVars, userVars, holder, known, here>>

IsNew(r) ==
  LET C == NextStay(r) IN
  /\ pc[r] = "last"
  /\ \E n \in Compared(r, DayOf(C)) : ~SameName(NameOf(r, C), n) /\ Remember(r, DayOf(C), n)
  /\ Goto(r, "create")
  /\ UNCHANGED <<dbVars, userVars, holder, todo, del, known, here>>

\* The query fails: the round returns at once and deletes nothing.
ReadFails(r) ==
  /\ pc[r] = "last" /\ "read" \in setting.failures /\ cache[r][DayOf(NextStay(r))] = Unread
  /\ Goto(r, "unlock")
  /\ UNCHANGED <<dbVars, userVars, holder, roundVars, here>>

\* Mutant: the points of a recorded stay stay pending.
CreateEntryKeepsPoints(r) ==
  LET C == NextStay(r) IN
  /\ pc[r] = "create" /\ Len(entries) < setting.maxEntries
  /\ entries' = Append(entries, [place |-> PlaceOf(C), name |-> NameOf(r, C), at |-> Newest(C).at, of |-> C])
  /\ Remember(r, DayOf(C), NameOf(r, C))
  /\ todo' = [todo EXCEPT ![r] = @ \ {C}]
  /\ Goto(r, "name")
  /\ UNCHANGED <<pending, uploads, stale, del, known, userVars, holder, here>>

CreateEntry(r) ==
  LET C == NextStay(r) IN
  /\ pc[r] = "create" /\ Len(entries) < setting.maxEntries
  /\ entries' = Append(entries, [place |-> PlaceOf(C), name |-> NameOf(r, C), at |-> Newest(C).at, of |-> C])
  /\ Remember(r, DayOf(C), NameOf(r, C))
  /\ del' = [del EXCEPT ![r] = @ \cup C]
  /\ todo' = [todo EXCEPT ![r] = @ \ {C}]
  /\ Goto(r, "name")
  /\ UNCHANGED <<pending, uploads, stale, known, userVars, holder, here>>

CreateFails(r) ==
  /\ pc[r] = "create" /\ "create" \in setting.failures
  /\ todo' = [todo EXCEPT ![r] = @ \ {NextStay(r)}]
  /\ Goto(r, "name")
  /\ UNCHANGED <<dbVars, userVars, holder, del, known, cache, here>>

Handled(r) == pc[r] = "name" /\ todo[r] = {}
DeleteTrajectories(r) ==
  /\ Handled(r)
  /\ pending' = pending \ del[r]
  /\ Goto(r, "unlock")
  /\ UNCHANGED <<uploads, stale, entries, userVars, holder, roundVars, here>>

\* Only logged.
DeleteFails(r) ==
  /\ Handled(r) /\ del[r] # {} /\ "delete" \in setting.failures
  /\ Goto(r, "unlock")
  /\ UNCHANGED <<dbVars, userVars, holder, roundVars, here>>

-----------------------------------------------------------------------------
(* CreateAutoEntry: the check-in at the present place. *)

\* Time and place are fixed before the lock is taken, and the place is named by the
\* geocoder, whether it is a common address or not.  Without a name the request ends.
CheckIn(c, p) ==
  /\ pc[c] = "idle" /\ vip /\ c \in setting.actors /\ p \in setting.places
  /\ here' = [here EXCEPT ![c] = [at |-> now, place |-> p, name |-> Geocoded(p)]]
  /\ Goto(c, "wait")
  /\ UNCHANGED <<dbVars, userVars, holder, roundVars>>

LockCheckIn(c) ==
  /\ pc[c] = "wait" /\ Lock(c)
  /\ Goto(c, "compare")
  /\ UNCHANGED <<dbVars, userVars, roundVars, here>>

\* After ten attempts: ErrAutoEntryInProgress.
GiveUp(c) ==
  /\ pc[c] = "wait" /\ holder # None
  /\ Return(c)
  /\ UNCHANGED <<dbVars, userVars, holder>>

Compare(c) ==
  /\ pc[c] = "compare"
  /\ \E n \in LastOn(Day(here[c].at)) :
       Goto(c, IF SameName(here[c].name, n) THEN "unlock" ELSE "insert")
  /\ UNCHANGED <<dbVars, userVars, holder, roundVars, here>>

Insert(c) ==
  /\ pc[c] = "insert" /\ Len(entries) < setting.maxEntries
  /\ entries' = Append(entries, [place |-> here[c].place, name |-> here[c].name, at |-> here[c].at, of |-> {}])
  /\ Goto(c, "unlock")
  /\ UNCHANGED <<pending, uploads, stale, userVars, holder, roundVars, here>>

CheckInFails(c) ==
  /\ pc[c] \in {"compare", "insert"}
  /\ (IF pc[c] = "compare" THEN "read" ELSE "create") \in setting.failures
  /\ Goto(c, "unlock")
  /\ UNCHANGED <<dbVars, userVars, holder, roundVars, here>>

-----------------------------------------------------------------------------
(* Ends, crashes, lost connections. *)

Unlock(a) ==
  /\ pc[a] = "unlock"
  /\ Release(a) /\ Return(a)
  /\ UNCHANGED <<dbVars, userVars>>

Crash(a) ==
  /\ setting.crashes /\ pc[a] \notin {"idle", "done"}
  /\ Release(a) /\ Return(a)
  /\ UNCHANGED <<dbVars, userVars>>

LoseLock ==
  /\ setting.lossy /\ holder # None
  /\ holder' = None
  /\ UNCHANGED <<dbVars, userVars, pc, roundVars, here>>

RoundStep(r) ==
  \/ CheckUser(r) \/ ListTrajectories(r) \/ NameStay(r)
  \/ IsDuplicate(r) \/ IsNew(r) \/ CreateEntry(r) \/ DeleteTrajectories(r) \/ Unlock(r)
RoundFails(r) == SkipStay(r) \/ ReadFails(r) \/ CreateFails(r) \/ DeleteFails(r)
CheckInStep(c) == LockCheckIn(c) \/ Compare(c) \/ Insert(c) \/ Unlock(c)

Next ==
  \/ \E S \in SUBSET Points \ {{}} : UploadTrajectories(S)
  \/ \E on \in BOOLEAN : UpdateConfig(on)
  \/ VIPChanges \/ Tick
  \/ \E q \in pending : DeleteStale(q)
  \/ \E r \in Rounds : LockRound(r) \/ RoundStep(r) \/ RoundFails(r)
  \/ \E c \in CheckIns : \/ \E p \in Places : CheckIn(c, p)
                         \/ CheckInStep(c) \/ GiveUp(c) \/ CheckInFails(c)
  \/ \E a \in Actors : Crash(a)
  \/ LoseLock

Spec == Init /\ [][Next]_vars

\* The job runner starts a round every five minutes, a round that runs goes on,
\* and neither the geocoder nor the database fails forever.
Fairness ==
  /\ WF_vars(\E r \in Rounds : LockRound(r))
  /\ WF_vars((\E r \in Rounds : RoundStep(r)) \/ \E c \in CheckIns : CheckInStep(c) \/ GiveUp(c))
  /\ SF_vars(\E r \in Rounds : NameStay(r)) /\ SF_vars(\E r \in Rounds : CreateEntry(r))
FairSpec == Spec /\ Fairness

-----------------------------------------------------------------------------
\* Every variable has its type; one pending row per point (the natural key).
TypeOK ==
  /\ pending \subseteq Row /\ \A p, q \in pending : p.at = q.at => p = q
  /\ uploads \in [Points -> 0..MaxUploads] /\ stale \subseteq Points
  /\ \A i \in DOMAIN entries : entries[i] \in Entry
  /\ setting \in Settings
  /\ now \in 0..MaxNow /\ vip \in BOOLEAN /\ enabled \in BOOLEAN
  /\ holder \in Actors \cup {None}
  /\ \A r \in Rounds :
       /\ pc[r] \in {"idle", "check", "list", "name", "last", "create", "unlock"}
       /\ todo[r] \subseteq SUBSET Row /\ del[r] \subseteq Row
       /\ known[r] \in CommonAddresses /\ cache[r] \in [Days -> Name \cup {Unread}]
  /\ \A c \in CheckIns :
       /\ pc[c] \in {"idle", "wait", "compare", "insert", "unlock", "done"}
       /\ here[c].at \in 0..MaxNow /\ here[c].place \in Places \cup {None} /\ here[c].name \in Name

\* An entry of this name is, for a round, a record of a stay at place p.
StandsFor(n, p) == \E m \in NamesOf(p) : SameName(m, n)

\* A point that was stored is pending, or was removed by the seven-day clean-up,
\* or an automatic entry with a name of its place, of its date or a later one, stands for it:
\* no failure, crash or lost lock between the entries and the deletion drops a
\* stay (processUser deletes only toDelete, and handles the rest in a later round).
NothingDropped ==
  \A p \in Points :
    uploads[p] > 0 =>
      \/ \E q \in pending : q.at = p
      \/ p \in stale
      \/ \E i \in DOMAIN entries : StandsFor(entries[i].name, Place[p]) /\ Day(entries[i].at) >= Day(p)

\* No stored point is part of two entries (docs/ARCHITECTURE-INVARIANTS.md, I6).
RecordedOnce ==
  \A i, j \in DOMAIN entries : i # j => entries[i].of \cap entries[j].of = {}

\* Locks hold, no process dies, and nothing fails between the entries and the deletion.
Undisturbed == ~setting.lossy /\ ~setting.crashes /\ setting.failures \cap {"read", "delete"} = {}

\* What I6 asks for is given as long as nothing disturbs a round, whatever can
\* not be named or created, and although the device repeats its batches: what it
\* stores again after a round is a new row, and again part of one entry at most.
OnceUndisturbed == Undisturbed => RecordedOnce

\* The entry created last on a date, when it is also the latest one of that date.
NewestOf(s, d) == {i \in DOMAIN s : Day(s[i].at) = d /\ \A k \in DOMAIN s :
                     Day(s[k].at) = d => k <= i /\ (k # i => s[k].at < s[i].at)}

\* A new automatic entry never repeats the name, in landmark or address, of the entry
\* that is both the newest and the latest of its date, whoever created that: what was
\* compared is still so when the entry is created, as long as the shared lock holds
\* (DA-P1-04).  One place is recorded twice in a row only if it is a common address
\* of the user, once by that name, which only a round that knows it gives, and once by
\* the geocoder's, which a check-in always has.
NoEcho ==
  [][\A n \in DOMAIN entries' : n > Len(entries) /\ ~setting.lossy =>
       \A i \in NewestOf(entries, Day(entries'[n].at)) :
         /\ ~SameName(entries'[n].name, entries[i].name)
         /\ entries[i].place = entries'[n].place =>
              {entries[i].name, entries'[n].name} = NamesOf(entries[i].place)]_vars

\* While automatic recording stays on and nothing disturbs a round, every pending
\* point is handled in the end.
PointsAreHandled ==
  Undisturbed /\ <>[](enabled /\ vip) =>
    \A p \in Points : (\E q \in pending : q.at = p) ~> (\A q \in pending : q.at # p)
=============================================================================
