----------------------------- MODULE FamilyPage -----------------------------
(***************************************************************************)
(* The page of the family: joining by the link that was opened, the list   *)
(* of the members, the link to share, leaving and removing.                *)
(* (pages/Family/Family.ts; the pending link of utils/storage.ts)          *)
(*                                                                         *)
(* Families are numbers: 0 is the user's personal one, 1..Links are those  *)
(* the user is invited to, greater ones the user's own, made on the first  *)
(* invitation.  A link is the number of its family.  Each time the page is *)
(* shown, and each time the user leaves or removes, a task begins; tasks   *)
(* overlap when the page is hidden and shown.  A request reaches the       *)
(* server (Arrives) before it is answered, or fails on the way there or    *)
(* back.  A mask over the page keeps the user from the buttons.            *)
(***************************************************************************)
EXTENDS Naturals, PageData

CONSTANTS Tasks,         \* tasks that can overlap
          Links,         \* links the user can be sent
          MaxOpenings,   \* bound: the page is opened
          MaxShows,      \* bound: the page is shown again
          MaxQuits       \* bound: leaving and removing

ASSUME FamilyPageAssumption ==
  Tasks \subseteq Nat /\ Links \in Nat /\ MaxOpenings \in Nat /\ MaxShows \in Nat /\ MaxQuits \in Nat

VARIABLES
  fam,       \* the page
  task,      \* what each task waits for
  pendingLink,   \* the link in storage, or 0
  loggedIn,    \* whether there is a session
  srv,       \* the server: the user's family, families made, and a count of changes
  opened,    \* history: the last link that was opened
  joined,    \* history: whether that link has made the user a member
  excuses,   \* history: what excuses a property
  openings, shows, quits

familyVars ==
  <<fam, task, pendingLink, loggedIn, srv, opened, joined, excuses, openings, shows, quits>>
familyBounds == <<opened, openings, shows, quits>>

Unread == 0
NoWrite == [list |-> {}, link |-> {}, ready |-> {}]
NoTask == [pc |-> "idle", link |-> 0, done |-> FALSE, read |-> 0]
Blank == [open |-> FALSE, shown |-> FALSE, list |-> Unread, link |-> 0, ready |-> FALSE,
          late |-> NoWrite, creating |-> FALSE, mask |-> FALSE, ask |-> "no"]

FamilyPageInit ==
  /\ fam = Blank /\ task = [t \in Tasks |-> NoTask] /\ pendingLink = 0 /\ loggedIn \in BOOLEAN
  /\ srv = [home |-> 0, made |-> 0, count |-> 1]
  /\ opened = 0 /\ joined = FALSE /\ excuses = {} /\ openings = 0 /\ shows = 0 /\ quits = 0

\* _applyPendingSetData
Applied(g) ==
  [g EXCEPT !.list = LatestOf(g, "list"), !.link = LatestOf(g, "link"),
            !.ready = LatestOf(g, "ready"), !.late = NoWrite]

\* A task begins with the least number that is free.
TaskFree(t) == task[t].pc = "idle" /\ \A u \in Tasks : u < t => task[u].pc # "idle"
BeginTask(t, pc, link) == task' = [task EXCEPT ![t] = [NoTask EXCEPT !.pc = pc, !.link = link]]
EndTask(t) == task' = [task EXCEPT ![t] = NoTask]
Masked(g, on) == IF g.shown THEN [g EXCEPT !.mask = on] ELSE g

-----------------------------------------------------------------------------
\* onShow, with the link p that storage holds then.
OnShow(t, g, p) ==
  \/ loggedIn /\ p # 0 /\ BeginTask(t, "join", p) /\ fam' = Masked(g, TRUE)
  \/ loggedIn /\ p = 0 /\ BeginTask(t, "fetch", 0) /\ fam' = Masked(g, TRUE)
  \/ ~loggedIn /\ p # 0 /\ BeginTask(t, "login", p) /\ fam' = g
  \/ ~loggedIn /\ p = 0 /\ fam' = g /\ UNCHANGED task

\* Who is not logged in is shown what was read before.
Unasked == IF loggedIn THEN {} ELSE {"failed"}

\* onLoad and the first onShow: from the user's page, or by a link.  Links
\* have their numbers in the order in which they are opened first.
OpenFamily(t, l) ==
  /\ ~fam.open /\ l <= opened + 1 /\ openings < MaxOpenings /\ openings' = openings + 1
  /\ TaskFree(t)
  /\ IF l = 0 THEN UNCHANGED <<pendingLink, opened, joined>>
               ELSE pendingLink' = l /\ opened' = l /\ joined' = FALSE
  /\ OnShow(t, [Blank EXCEPT !.open = TRUE, !.shown = TRUE], pendingLink')
  /\ excuses' = (excuses \ {"moved", "failed", "overtaken"}) \cup Unasked
  /\ UNCHANGED <<loggedIn, srv, shows, quits>>

ShowFamily(t) ==
  /\ fam.open /\ ~fam.shown /\ shows < MaxShows /\ shows' = shows + 1
  /\ TaskFree(t)
  /\ OnShow(t, Applied([fam EXCEPT !.shown = TRUE]), pendingLink)
  /\ excuses' = excuses \cup Unasked
  /\ UNCHANGED <<pendingLink, loggedIn, srv, opened, joined, openings, quits>>

\* Requests go on while the page is hidden; the mask and the dialog go.
HideFamily ==
  /\ fam.shown /\ fam' = [fam EXCEPT !.shown = FALSE, !.mask = FALSE, !.ask = "no"]
  /\ UNCHANGED <<task, pendingLink, loggedIn, srv, joined, excuses, familyBounds>>

\* Mutant: leaving the page does not cancel its requests.
UnloadKeeps ==
  /\ fam.open /\ fam' = Blank
  /\ UNCHANGED <<task, pendingLink, loggedIn, srv, joined, excuses, familyBounds>>

\* All requests have the token that is cancelled here.
UnloadFamily ==
  /\ fam.open /\ fam' = Blank /\ task' = [t \in Tasks |-> NoTask]
  /\ UNCHANGED <<pendingLink, loggedIn, srv, joined, excuses, familyBounds>>

\* Another part of the program logs in.  (A session that expires makes the
\* requests fail, as they may anyway.)
OthersLogIn ==
  /\ ~loggedIn /\ loggedIn' = TRUE
  /\ UNCHANGED <<fam, task, pendingLink, srv, joined, excuses, familyBounds>>

-----------------------------------------------------------------------------
\* The server: joining, the link of the family (one is made for who has only
\* the personal one, with the same member), leaving (an owner cannot),
\* removing another member.  The count tells the lists of members apart.
Moved(home) == [srv EXCEPT !.home = home, !.count = @ + 1]
Effect(t) ==
  CASE task[t].pc = "join" /\ srv.home # task[t].link -> Moved(task[t].link)
    [] task[t].pc = "link" /\ srv.home = 0 ->
         [srv EXCEPT !.home = Links + srv.made + 1, !.made = @ + 1]
    [] task[t].pc = "leave" -> Moved(0)
    [] task[t].pc = "remove" -> [srv EXCEPT !.count = @ + 1]
    [] OTHER -> srv
Accepted(t) ==
  (task[t].pc = "leave" => srv.home \in 1..Links) /\ (task[t].pc = "remove" => srv.home > Links)
\* The server has answered, and the page does not know.
Overdue(what) == \E u \in Tasks : task[u].pc = what /\ task[u].done

Arrives(t) ==
  /\ task[t].pc \in {"join", "fetch", "link", "leave", "remove"} /\ ~task[t].done
  /\ loggedIn /\ Accepted(t)
  /\ srv' = Effect(t)
  /\ task' = [task EXCEPT ![t].done = TRUE,
                          ![t].read = IF task[t].pc = "link" THEN srv'.home ELSE srv'.count]
  /\ joined' = (joined \/ (task[t].pc = "join" /\ task[t].link = opened))
  /\ excuses' = excuses
       \cup (IF srv'.home # srv.home /\ (LatestOf(fam, "link") # 0 \/ Overdue("link"))
             THEN {"moved"} ELSE {})
       \cup (IF srv' # srv /\ Overdue("fetch") THEN {"overtaken"} ELSE {})
  /\ UNCHANGED <<fam, pendingLink, loggedIn, familyBounds>>

-----------------------------------------------------------------------------
\* Logged in for the link, or not.
LinkLoginEnds(t) ==
  /\ task[t].pc = "login"
  /\ loggedIn' \in {loggedIn, TRUE}
  /\ IF loggedIn' /\ fam.shown
       THEN BeginTask(t, "join", task[t].link) /\ fam' = Masked(fam, TRUE)
       ELSE EndTask(t) /\ UNCHANGED fam
  /\ UNCHANGED <<pendingLink, srv, joined, excuses, familyBounds>>

\* The list is read again, also when joining failed, unless the page is hidden.
ReadAgain(t) ==
  IF fam.shown THEN BeginTask(t, "fetch", 0) /\ fam' = Masked(fam, TRUE)
               ELSE EndTask(t) /\ UNCHANGED fam

\* Mutant: the link is forgotten when joining fails, too.
JoinEndsForgets(t) ==
  /\ task[t].pc = "join" /\ pendingLink' = 0
  /\ ReadAgain(t)
  /\ UNCHANGED <<loggedIn, srv, joined, excuses, familyBounds>>

\* handlePendingInvite: only a link that was joined is forgotten.
JoinEnds(t) ==
  /\ task[t].pc = "join"
  /\ \/ task[t].done /\ pendingLink' = 0
     \/ UNCHANGED pendingLink
  /\ ReadAgain(t)
  /\ UNCHANGED <<loggedIn, srv, joined, excuses, familyBounds>>

\* Mutant: an answer for a hidden page does not take the mask away, and none
\* is left to do it.
FetchFailsMasked(t) == task[t].pc = "fetch" /\ EndTask(t) /\ UNCHANGED fam

FetchFails(t) == task[t].pc = "fetch" /\ EndTask(t) /\ fam' = Masked(fam, FALSE)

\* The members, then the link if there is none and none is being made.
FetchSucceeds(t) ==
  LET g == PutData(fam, "list", task[t].read)
  IN  /\ task[t].pc = "fetch" /\ task[t].done
      /\ IF g.link = 0 /\ ~g.creating
           THEN BeginTask(t, "link", 0) /\ fam' = [g EXCEPT !.creating = TRUE]
           ELSE EndTask(t) /\ fam' = Masked(PutData(g, "ready", g.link # 0), FALSE)

FetchEnds(t) ==
  /\ \/ FetchFails(t) /\ excuses' = excuses \cup {"failed"}
     \/ FetchSucceeds(t) /\ excuses' = excuses \ {"failed"}
  /\ UNCHANGED <<pendingLink, loggedIn, srv, joined, familyBounds>>

\* Mutant: whether there is a link is asked before it is there.
LinkReadyEarly(g, h) == PutData(h, "ready", g.link # 0)

\* A link that a hidden page got is not seen yet.
LinkReady(g, h) == PutData(h, "ready", h.link # 0)

LinkEnds(t) ==
  /\ task[t].pc = "link"
  /\ \E g \in {fam} \cup (IF task[t].done THEN {PutData(fam, "link", task[t].read)} ELSE {}) :
       fam' = Masked([LinkReady(fam, g) EXCEPT !.creating = FALSE], FALSE)
  /\ EndTask(t)
  /\ excuses' = (IF fam.shown THEN excuses ELSE excuses \cup {"failed"})
  /\ UNCHANGED <<pendingLink, loggedIn, srv, joined, familyBounds>>

-----------------------------------------------------------------------------
\* quitFamily and the dialog that asks.
AskQuit(what) ==
  /\ fam.shown /\ ~fam.mask /\ fam.list # Unread /\ fam.ask = "no"
  /\ fam' = [fam EXCEPT !.ask = what]
  /\ UNCHANGED <<task, pendingLink, loggedIn, srv, joined, excuses, familyBounds>>

AnswerQuit(t) ==
  /\ fam.shown /\ fam.ask # "no"
  /\ \/ /\ quits < MaxQuits /\ quits' = quits + 1 /\ TaskFree(t)
        /\ BeginTask(t, fam.ask, 0) /\ fam' = [fam EXCEPT !.ask = "no", !.mask = TRUE]
     \/ fam' = [fam EXCEPT !.ask = "no"] /\ UNCHANGED <<task, quits>>
  /\ UNCHANGED <<pendingLink, loggedIn, srv, opened, joined, excuses, openings, shows>>

\* Mutant: the members are not read again.
QuitEndsStale(t) ==
  /\ task[t].pc \in {"leave", "remove"}
  /\ EndTask(t) /\ fam' = Masked(fam, FALSE)
  /\ \/ task[t].done /\ UNCHANGED excuses
     \/ excuses' = excuses \cup {"failed"}
  /\ UNCHANGED <<pendingLink, loggedIn, srv, joined, familyBounds>>

\* doQuitFamily
QuitEnds(t) ==
  /\ task[t].pc \in {"leave", "remove"}
  /\ \/ task[t].done /\ ReadAgain(t) /\ UNCHANGED excuses
     \/ EndTask(t) /\ fam' = Masked(fam, FALSE) /\ excuses' = excuses \cup {"failed"}
  /\ UNCHANGED <<pendingLink, loggedIn, srv, joined, familyBounds>>

FamilyAnswers ==
  \E t \in Tasks : LinkLoginEnds(t) \/ JoinEnds(t) \/ FetchEnds(t) \/ LinkEnds(t) \/ QuitEnds(t)

FamilyPageNext ==
  \/ \E t \in Tasks : \/ \E l \in 0..Links : OpenFamily(t, l)
                      \/ ShowFamily(t) \/ Arrives(t) \/ AnswerQuit(t)
  \/ HideFamily \/ UnloadFamily \/ OthersLogIn
  \/ \E what \in {"leave", "remove"} : AskQuit(what)
  \/ FamilyAnswers

-----------------------------------------------------------------------------
\* The types.
FamilyPageTypeOK ==
  /\ fam.ask \in {"no", "leave", "remove"}
  /\ fam.link \in 0..(Links + srv.made) /\ fam.list \in 0..srv.count
  /\ \A t \in Tasks : task[t].pc \in {"idle", "login", "join", "fetch", "link", "leave", "remove"}
  /\ pendingLink \in 0..Links /\ loggedIn \in BOOLEAN /\ joined \in BOOLEAN
  /\ openings \in 0..MaxOpenings /\ shows \in 0..MaxShows /\ quits \in 0..MaxQuits

AtRest == fam.shown /\ \A t \in Tasks : task[t].pc = "idle"

\* The mask lies on the page only while something is under way, and never
\* while the page is hidden: it would block every button.
MaskIsAwaited == fam.mask => fam.shown /\ \E t \in Tasks : task[t].pc # "idle"

\* The link that was opened last is kept until the user is in its family,
\* whatever fails and whichever task of an earlier one is answered late.
LinkIsKept == opened # 0 => pendingLink = opened \/ joined

\* What is shared is the link of the user's family, unless the user joined
\* or left one since the page asked for it: the page asks only once.
LinkIsOfHome ==
  LatestOf(fam, "link") # 0 /\ "moved" \notin excuses => LatestOf(fam, "link") = srv.home

\* A page at rest that has a link offers it, and none that it has not.
LinkIsOffered ==
  /\ fam.ready => fam.link # 0
  /\ AtRest /\ fam.link # 0 /\ fam.list # Unread /\ "failed" \notin excuses => fam.ready

\* A page at rest shows the members there are, unless an answer that was
\* overtaken by a change came after the newer one.
MembersAgree ==
  AtRest /\ fam.list # Unread /\ excuses \cap {"failed", "overtaken"} = {} => fam.list = srv.count
=============================================================================
