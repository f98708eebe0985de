-------------------------------- MODULE Feed --------------------------------
(***************************************************************************)
(* The list of days on the first page: paging, reloading, pulling down,    *)
(* leaving the page and coming back.  (pages/index/index.ts)               *)
(*                                                                         *)
(* The server has the days 1..days, the newest first.  A reload or a pull  *)
(* goes through login, fetch and stats; loading the next page is a request *)
(* of its own.  A cancelled request is rejected before the next callback   *)
(* and is part of the step that cancels it.                                *)
(***************************************************************************)
EXTENDS Naturals, Sequences

CONSTANTS PageSize,      \* PAGE_SIZE
          MaxList,       \* MAX_LIST_SIZE
          OldDays,       \* days there are at first
          MaxDays,       \* bound: days in the end
          MaxReloads,    \* bound: reloads and pulls
          MaxFeedHides   \* bound: the page is left

ASSUME FeedAssumption ==
  /\ {MaxList, OldDays, MaxDays, MaxReloads, MaxFeedHides} \subseteq Nat
  /\ PageSize \in 1..MaxList /\ OldDays <= MaxDays

VARIABLES
  f,        \* the page, see FirstShown
  days,     \* days on the server
  drawn,    \* days whose cover the server has drawn again
  slipped,  \* history: the cursor was moved under the list
  raced,    \* history: a day was added while a reload was under way
  blanked,  \* history: a reload nobody will repeat was given up
  reloads, feedHides

feedVars == <<f, days, drawn, slipped, raced, blanked, reloads, feedHides>>

NoRequest == [on |-> FALSE, cursor |-> 0, n |-> 0]

\* flow is how far the reload is, kind who asked for it; more is the request
\* for the next page, page the one of the reload; cursor 0 stands for none;
\* need is _needRefreshIndexList.  poll is the day whose cover is polled.
FirstShown ==
  [list |-> <<>>, cursor |-> 0, fin |-> FALSE, loading |-> FALSE, isLogin |-> FALSE, once |-> FALSE,
   need |-> FALSE, shown |-> FALSE, flow |-> "idle", kind |-> "show",
   more |-> NoRequest, page |-> NoRequest, poll |-> 0, was |-> 0]

FeedInit ==
  /\ f = FirstShown /\ days = OldDays /\ drawn = {}
  /\ slipped = FALSE /\ raced = FALSE /\ blanked = FALSE /\ reloads = 0 /\ feedHides = 0

CoverOf(day) == 10 * day + (IF day \in drawn THEN 1 ELSE 0)

\* A page: at most PageSize days before the cursor, of the days there were.
First(cursor, n) == IF cursor = 0 THEN n ELSE cursor - 1
Size(cursor, n) == IF First(cursor, n) < PageSize THEN First(cursor, n) ELSE PageSize
Page(cursor, n) ==
  [i \in 1..Size(cursor, n) |-> [day |-> First(cursor, n) - i + 1, cover |-> CoverOf(First(cursor, n) - i + 1)]]
NextCursor(cursor, n) ==
  LET last == First(cursor, n) - PageSize + 1 IN IF last > 1 THEN last ELSE 0

Same == UNCHANGED <<days, drawn, slipped, raced, blanked, reloads, feedHides>>

-----------------------------------------------------------------------------
\* reload up to its first await
Reload(g, kind) ==
  IF g.flow # "idle" \/ ~g.shown THEN g
  ELSE [g EXCEPT !.flow = "login", !.kind = kind, !.cursor = 0, !.fin = FALSE, !.list = <<>>, !.loading = FALSE]

\* handlePullRefresh up to its first await
Pull(g) == IF g.flow # "idle" \/ ~g.shown THEN g ELSE [g EXCEPT !.flow = "login", !.kind = "pull"]

Counted == reloads < MaxReloads /\ reloads' = reloads + 1

\* onShow
ShowFeed ==
  /\ ~f.shown
  /\ LET back == [f EXCEPT !.shown = TRUE]
     IN  f' = IF f.need \/ (f.list = <<>> /\ ~f.once) THEN Reload(back, "show") ELSE back
  /\ Same

PullRefresh ==
  /\ f.shown /\ f.flow = "idle" /\ Counted /\ f' = Pull(f)
  /\ UNCHANGED <<days, drawn, slipped, raced, blanked, feedHides>>

\* onEntrySubmit: the day is new, or one of those there are.
EntrySubmit ==
  /\ f.shown /\ f.isLogin /\ Counted
  /\ days' \in {n \in {days, days + 1} : n <= MaxDays}
  /\ LET g == Reload([f EXCEPT !.need = TRUE], "entry")
     IN  f' = [g EXCEPT !.poll = days', !.was = IF \E i \in 1..Len(g.list) : g.list[i].day = days'
                                               THEN CoverOf(days') ELSE 0]
  /\ raced' = (raced \/ f.flow # "idle")
  /\ UNCHANGED <<drawn, slipped, blanked, feedHides>>

\* onMemoryCreateSubmit: nothing says that the list is out of date.
MemoryCreateSubmit ==
  /\ f.shown /\ f.isLogin /\ Counted /\ f' = Reload(f, "memory")
  /\ UNCHANGED <<days, drawn, slipped, raced, blanked, feedHides>>

\* Mutant: the other page does not say so.
AddedUnnoticed ==
  /\ ~f.shown /\ f.isLogin /\ days < MaxDays /\ days' = days + 1
  /\ UNCHANGED <<f, drawn, slipped, raced, blanked, reloads, feedHides>>

\* Another page adds a day while this one is hidden.
AddedElsewhere ==
  /\ ~f.shown /\ f.isLogin /\ days < MaxDays /\ days' = days + 1
  /\ f' = [f EXCEPT !.need = TRUE]
  /\ UNCHANGED <<drawn, slipped, raced, blanked, reloads, feedHides>>

\* Mutant: a reload that came to nothing counts as loaded.
DoneForgets(g, loaded) ==
  [g EXCEPT !.flow = "idle", !.need = IF g.kind = "show" THEN FALSE ELSE @, !.once = @ \/ g.kind = "show"]

\* Mutant: only a reload that succeeds is over.
DoneBusy(g, loaded) ==
  [g EXCEPT !.flow = IF loaded THEN "idle" ELSE @, !.need = IF loaded /\ g.kind = "show" THEN FALSE ELSE @,
            !.once = @ \/ (loaded /\ g.kind = "show")]

\* The finally of both; only a reload that onShow awaits clears the flag.
Done(g, loaded) ==
  [g EXCEPT !.flow = "idle", !.need = IF loaded /\ g.kind = "show" THEN FALSE ELSE @,
            !.once = @ \/ (loaded /\ g.kind = "show")]

GivesUp(g) == blanked' = (blanked \/ (g.kind = "memory" /\ g.flow # "stats"))

-----------------------------------------------------------------------------
\* fetch for the reload: the request for the next page is cancelled.
StartFetch(g) ==
  IF g.loading \/ g.fin \/ ~g.isLogin \/ ~g.shown THEN [g EXCEPT !.flow = "fetched"]
  ELSE [g EXCEPT !.page = [on |-> TRUE, cursor |-> g.cursor, n |-> days], !.flow = "fetch",
                 !.more = NoRequest, !.loading = ~g.more.on]

\* What follows fetch: the statistics, unless it was left or found nothing.
Fetched(g) ==
  IF ~g.shown \/ (g.kind # "pull" /\ g.list = <<>> /\ ~g.fin) THEN Done(g, FALSE)
  ELSE [g EXCEPT !.flow = "stats"]
AfterFetch(g) == IF g.flow = "fetched" THEN Fetched(g) ELSE g

LoginEnds ==
  /\ f.flow = "login"
  /\ \E ok \in BOOLEAN :
       LET known == [f EXCEPT !.isLogin = IF f.shown THEN ok ELSE @]
           reset == IF f.kind = "pull" THEN [known EXCEPT !.cursor = 0, !.fin = FALSE] ELSE known
       IN  f' = IF ok THEN AfterFetch(StartFetch(reset)) ELSE Done(known, FALSE)
  /\ slipped' = (slipped \/ (f.list # <<>> /\ f'.cursor = 0 /\ ~f'.fin /\ ~f'.page.on))
  /\ IF f'.flow = "idle" THEN GivesUp(f) ELSE UNCHANGED blanked
  /\ UNCHANGED <<days, drawn, raced, reloads, feedHides>>

\* Mutant: the answer is appended although the list is to be replaced.
AddAlways(g, request, n, replace) ==
  [g EXCEPT !.cursor = NextCursor(request.cursor, n), !.fin = (NextCursor(request.cursor, n) = 0), !.loading = FALSE,
            !.list = @ \o Page(request.cursor, n)]

\* The answer of fetch: replaced, or appended up to MAX_LIST_SIZE.
Add(g, request, n, replace) ==
  LET more == Page(request.cursor, n)
      next == NextCursor(request.cursor, n)
      all  == g.list \o more
  IN  [g EXCEPT !.cursor = next, !.loading = FALSE,
                !.fin = (next = 0 \/ (~replace /\ Len(all) > MaxList)),
                !.list = IF replace THEN more ELSE IF Len(all) > MaxList THEN SubSeq(all, 1, MaxList) ELSE all]

PageArrives ==
  /\ f.flow = "fetch"
  /\ \E n \in {f.page.n, days} :
       f' = AfterFetch([Add(f, f.page, n, f.kind = "pull") EXCEPT !.flow = "fetched", !.page = NoRequest])
  /\ Same

\* fetch tells the user and returns as if nothing had happened.
PageFails ==
  /\ f.flow = "fetch"
  /\ f' = AfterFetch([f EXCEPT !.flow = "fetched", !.page = NoRequest, !.loading = FALSE])
  /\ slipped' = (slipped \/ f.kind = "pull") /\ GivesUp(f)
  /\ UNCHANGED <<days, drawn, raced, reloads, feedHides>>

StatsEnd == f.flow = "stats" /\ f' = Done(f, f.kind # "pull") /\ Same

\* handleLoadMore
LoadMore ==
  /\ f.shown /\ f.flow = "idle" /\ ~f.loading /\ ~f.fin /\ f.isLogin
  /\ f' = [f EXCEPT !.more = [on |-> TRUE, cursor |-> f.cursor, n |-> days], !.loading = TRUE]
  /\ Same

\* Also while a reload is still logging in, or after its login failed.
MoreArrives ==
  /\ f.more.on
  /\ \E n \in {f.more.n, days} : f' = [Add(f, f.more, n, FALSE) EXCEPT !.more = NoRequest]
  /\ slipped' = (slipped \/ (f.more.cursor # 0 /\ f.list = <<>>))
  /\ UNCHANGED <<days, drawn, raced, blanked, reloads, feedHides>>

MoreFails ==
  /\ f.more.on
  /\ f' = [f EXCEPT !.more = NoRequest, !.loading = FALSE]
  /\ Same

-----------------------------------------------------------------------------
\* onHide: requests for the list and the statistics are cancelled, login not.
HideFeed ==
  /\ f.shown /\ feedHides < MaxFeedHides /\ feedHides' = feedHides + 1
  /\ LET left == [f EXCEPT !.shown = FALSE, !.loading = FALSE, !.more = NoRequest, !.page = NoRequest]
     IN  f' = IF f.flow \in {"fetch", "stats"} THEN Done(left, FALSE) ELSE left
  /\ slipped' = (slipped \/ (f.flow = "fetch" /\ f.kind = "pull"))
  /\ IF f.flow = "fetch" THEN GivesUp(f) ELSE UNCHANGED blanked
  /\ UNCHANGED <<days, drawn, raced, reloads>>

\* The server draws the cover of a day again.
Draw == \E day \in 1..days : drawn' = drawn \cup {day} /\ f.poll = day
        /\ UNCHANGED <<f, days, slipped, raced, blanked, reloads, feedHides>>

\* Mutant: the cover goes to the first day of the list.
PollFirst ==
  /\ f.poll # 0
  /\ f' = [f EXCEPT !.poll = 0, !.list = IF @ = <<>> \/ CoverOf(f.poll) = f.was THEN @
                                         ELSE [@ EXCEPT ![1].cover = CoverOf(f.poll)]]
  /\ Same

\* _pollCoverForDate: the day is looked for again; it stops with the first
\* new cover, when the page is left, and after twelve times.
Poll ==
  /\ f.poll # 0
  /\ LET new == CoverOf(f.poll)
         at  == {i \in 1..Len(f.list) : f.list[i].day = f.poll}
     IN  f' = IF f.shown /\ new # f.was
              THEN [f EXCEPT !.poll = 0,
                             !.list = [i \in 1..Len(@) |-> IF i \in at THEN [@[i] EXCEPT !.cover = new] ELSE @[i]]]
              ELSE [f EXCEPT !.poll = 0]
  /\ Same

FeedAnswers == LoginEnds \/ PageArrives \/ PageFails \/ StatsEnd
FeedNext ==
  \/ FeedAnswers \/ ShowFeed \/ PullRefresh \/ EntrySubmit \/ MemoryCreateSubmit \/ AddedElsewhere
  \/ LoadMore \/ MoreArrives \/ MoreFails \/ HideFeed \/ Draw \/ Poll

\* Requests end: all have timeouts.
FeedFairness == WF_feedVars(FeedAnswers)
FeedSpec == FeedInit /\ [][FeedNext]_feedVars /\ FeedFairness

-----------------------------------------------------------------------------
\* The types of the list's variables.
FeedTypeOK ==
  /\ Len(f.list) <= MaxList /\ f.cursor \in 0..MaxDays /\ days \in OldDays..MaxDays
  /\ f.flow \in {"idle", "login", "fetch", "stats"} /\ f.kind \in {"show", "pull", "entry", "memory"}
  /\ reloads \in 0..MaxReloads /\ feedHides \in 0..MaxFeedHides

Run(list) == \A i \in 1..Len(list) : list[i].day = list[1].day - (i - 1)
\* The list is a run of days without gap or repetition, and the next page
\* begins after its last day, unless the list is at its end or full.  Not so
\* when a page arrived while a reload logged in, or a pull failed after it
\* reset the cursor (slipped).
ListIsRun ==
  ~slipped => /\ Run(f.list)
              /\ f.list # <<>> /\ ~f.fin /\ f.flow \notin {"login", "fetch"} =>
                   f.cursor = f.list[Len(f.list)].day

\* A list that is shown while nothing is under way has the newest day, or is
\* known to be out of date; a day added during a reload is missed.
ShowsNewest ==
  f.shown /\ f.flow = "idle" /\ ~f.need /\ f.list # <<>> /\ ~slipped /\ ~raced => f.list[1].day = days

\* Coming back finds a list, or a reload is due; only one given up for a
\* memory, or a first day added during a reload, is not made up for.
NotBlank ==
  ~f.shown /\ f.once /\ f.list = <<>> /\ f.flow = "idle" /\ ~blanked /\ ~raced /\ days > 0 => f.need

\* A cover drawn again is shown on its own day.
CoversBelong == \A i \in 1..Len(f.list) : f.list[i].cover \in {10 * f.list[i].day, 10 * f.list[i].day + 1}
=============================================================================
