------------------------------- MODULE Detail -------------------------------
(***************************************************************************)
(* The page of one day: its entries, paged by offset, the memories of the  *)
(* day, the tabs of the family's members, deleting, reloading and the      *)
(* picture to share.  (pages/NoteDetail/NoteDetail.ts, RecordItem.ts,      *)
(* MemoryItem.ts)                                                          *)
(*                                                                         *)
(* Entries are numbers in the order of their time.  A request that is      *)
(* cancelled is rejected in the step that cancels it; what a hidden page   *)
(* writes is applied when it is shown and read by nothing before.          *)
(***************************************************************************)
EXTENDS Naturals, Sequences, FiniteSets, Functions

CONSTANTS DetailSize,     \* PAGE_SIZE
          FullList,       \* MAX_FULL_LIST
          OldEntries,     \* entries there are at first
          MaxEntries,     \* bound: entries
          MaxChanges,     \* bound: changes and reloads of the user
          MaxDetailHides  \* bound: the page is left

ASSUME DetailAssumption ==
  /\ DetailSize \in Nat \ {0} /\ {FullList, MaxEntries, MaxChanges, MaxDetailHides} \subseteq Nat
  /\ OldEntries \subseteq 1..MaxEntries

VARIABLES
  d,        \* the page, see DetailShown
  held,     \* entries on the server
  kept,     \* memories on the server
  sent,     \* deletions on their way to the server
  gone,     \* history: items whose deletion the page was told of
  excused,  \* history: ways known to leave the list wrong
  changes, detailHides

detailVars == <<d, held, kept, sent, gone, excused, changes, detailHides>>

Memory == 0
Members == {1, 2}
Owner(item) == IF item % 2 = 0 THEN 1 ELSE 2
Offset == [on |-> FALSE, page |-> 0, by |-> "load", held |-> {}, kept |-> {}]

\* isLogin is the page's own copy; wait is who awaits _doLogin; by tells
\* reload from loadMore; then is what follows a reload; tab 0 shows all.
DetailShown ==
  [list |-> <<>>, mems |-> {}, view |-> {}, tab |-> 0, page |-> 1, hasMore |-> TRUE, loading |-> FALSE,
   reloading |-> FALSE, isLogin |-> FALSE, wait |-> "load", then |-> "nothing", shown |-> TRUE, need |-> FALSE,
   req |-> Offset, qr |-> "none", share |-> "no", dels |-> {}, poll |-> FALSE]

\* onLoad: with a session the list is asked for, without one login comes first.
DetailInit ==
  /\ held = OldEntries /\ kept = {Memory} /\ sent = {} /\ gone = {} /\ excused = {}
  /\ changes = 0 /\ detailHides = 0
  /\ d \in {DetailShown,
            [DetailShown EXCEPT !.isLogin = TRUE, !.wait = "no", !.loading = TRUE,
                                !.req = [Offset EXCEPT !.on = TRUE, !.page = 1, !.held = held, !.kept = kept]]}

Excuse(names) == excused' = excused \cup names
Server == <<held, kept, sent>>
Rest == UNCHANGED <<held, kept, sent, gone, excused, changes, detailHides>>
Change == changes < MaxChanges /\ changes' = changes + 1

-----------------------------------------------------------------------------
(* The list *)

Merged(g) == Range(g.list) \cup g.mems
OfTab(items, tab) == {item \in items : tab = 0 \/ Owner(item) = tab}

\* _refreshFromFullList: a tab whose member has nothing left is given up.
Refreshed(g) ==
  LET tab == IF g.tab \in {Owner(item) : item \in Merged(g)} THEN g.tab ELSE 0
  IN  [g EXCEPT !.tab = tab, !.view = OfTab(Merged(g), tab)]

Nth(entries, n) == CHOOSE item \in entries : Cardinality({other \in entries : other <= item}) = n
InOrder(entries) == [n \in 1..Cardinality(entries) |-> Nth(entries, n)]

\* The page that an offset gives.
AtOffset(entries, page) ==
  LET before == (page - 1) * DetailSize
      left   == Cardinality(entries) - before
  IN  [i \in 1..(IF left <= 0 THEN 0 ELSE IF left < DetailSize THEN left ELSE DetailSize) |-> Nth(entries, before + i)]

\* Mutant: what overlaps is shown twice.
WithPageTwice(g, entries) ==
  LET next == AtOffset(entries, g.req.page)
      all  == IF g.req.page = 1 THEN next ELSE g.list \o next
  IN  [g EXCEPT !.list = IF Len(all) > FullList THEN SubSeq(all, 1, FullList) ELSE all,
                !.hasMore = Len(next) = DetailSize /\ Len(all) <= FullList]

\* The first page replaces, a later one is added without what is there.
WithPage(g, entries) ==
  LET next == AtOffset(entries, g.req.page)
      all  == IF g.req.page = 1 THEN next ELSE g.list \o InOrder(Range(next) \ Range(g.list))
  IN  [g EXCEPT !.list = IF Len(all) > FullList THEN SubSeq(all, 1, FullList) ELSE all,
                !.hasMore = Len(next) = DetailSize /\ Len(all) <= FullList]

\* The answer of fetch; an empty day keeps neither page nor memories.
Answered(g, entries, memories) ==
  LET got == IF g.req.page = 1 /\ AtOffset(entries, 1) = <<>> /\ memories = {}
             THEN [g EXCEPT !.view = {}, !.hasMore = FALSE]
             ELSE Refreshed([WithPage(g, entries) EXCEPT !.mems = memories])
  IN  [got EXCEPT !.loading = FALSE, !.req = Offset]

\* fetch from the first request on; who is "reload" passes the guard.
Ask(g, who) ==
  IF g.loading \/ (g.reloading /\ who # "reload") THEN [g EXCEPT !.wait = "no"]
  ELSE LET page == IF who = "more" THEN g.page + 1 ELSE g.page
       IN  [g EXCEPT !.wait = "no", !.page = page, !.loading = TRUE,
                     !.req = [on |-> TRUE, page |-> page, by |-> who, held |-> held, kept |-> kept]]

\* Mutant: only a reload of a page that is shown is over.
ReloadHangs(g) ==
  IF g.shown THEN [g EXCEPT !.reloading = FALSE, !.then = "nothing", !.need = FALSE] ELSE g

\* finally of reload, and what its callers do
ReloadOver(g) ==
  LET ok == g.shown
  IN  [g EXCEPT !.reloading = FALSE, !.then = "nothing",
                !.need = IF g.then = "show" /\ ok THEN FALSE ELSE @, !.poll = @ \/ (g.then = "edit" /\ ok)]
Over(g, who) == IF who = "reload" THEN ReloadOver(g) ELSE g

\* fetch: without login it is left when another login is under way.
Fetch(g, who) ==
  IF ~g.shown THEN Over(g, who)
  ELSE IF g.isLogin THEN Ask(g, who)
  ELSE IF g.wait = "no" THEN [g EXCEPT !.wait = who]
  ELSE Over([g EXCEPT !.view = {}], who)

\* reload up to its first await: lists are emptied, and with them the items
\* whose deletion is under way; the pages and the picture code are cancelled.
ReloadDetail(g, then) ==
  IF g.reloading \/ ~g.shown THEN g
  ELSE Fetch([g EXCEPT !.reloading = TRUE, !.then = then, !.list = <<>>, !.mems = {}, !.view = {}, !.dels = {},
                       !.req = Offset, !.loading = FALSE, !.page = 1, !.hasMore = TRUE,
                       !.qr = IF @ = "flight" THEN "none" ELSE @, !.share = IF @ = "qr" THEN "no" ELSE @], "reload")

\* What a drawer or an item reports: a hidden page reloads when it is shown.
Changed(g, then) == IF g.shown THEN ReloadDetail(g, then) ELSE [g EXCEPT !.need = TRUE]

\* _doLogin ends, and what awaited it goes on; a hidden page forgets it.
DetailLoginEnds ==
  /\ d.wait # "no"
  /\ \E ok \in BOOLEAN :
       LET known == [d EXCEPT !.isLogin = ok /\ d.shown, !.wait = "no"]
       IN  /\ d' = IF known.isLogin THEN Ask(known, d.wait)
                   ELSE IF d.wait = "load" THEN Fetch(known, "again")
                   ELSE Over([known EXCEPT !.view = {}], d.wait)
           /\ Excuse(IF ok /\ ~d.shown THEN {"login"} ELSE {})
  /\ UNCHANGED <<Server, gone, changes, detailHides>>

DetailArrives ==
  /\ d.req.on
  /\ \E now \in [held : {d.req.held}, kept : {d.req.kept}] \cup [held : {held}, kept : {kept}] :
       /\ d' = Over(Answered(d, now.held, now.kept), d.req.by)
       /\ excused' = IF d.req.page = 1 THEN IF now.held = held THEN excused \ {"skipped", "moved"} ELSE excused
                     ELSE IF d.list = <<>> THEN excused \cup {"skipped"} ELSE excused
  /\ UNCHANGED <<Server, gone, changes, detailHides>>

\* Mutant: the page that failed is passed over.
FailsAhead ==
  /\ d.req.on
  /\ d' = Over([d EXCEPT !.req = Offset, !.loading = FALSE], d.req.by)
  /\ Rest

\* A request that fails puts the page back.
DetailFails ==
  /\ d.req.on
  /\ d' = Over([d EXCEPT !.req = Offset, !.loading = FALSE, !.page = IF d.req.page > 1 THEN d.req.page - 1 ELSE 1],
               d.req.by)
  /\ Rest

LoadMoreDetail ==
  /\ d.shown /\ ~d.loading /\ ~d.reloading /\ d.hasMore /\ d.wait = "no"
  /\ d' = Fetch(d, "more") /\ Rest

\* Mutant: the tab shows entries only.
TabOfEntries == \E tab \in Members \cup {0} :
  /\ d.shown /\ ~d.reloading
  /\ d' = [d EXCEPT !.tab = tab, !.view = OfTab(Range(d.list), tab)] /\ Rest

\* bindTabChange; a reload leaves the tabs where they are.
TabChange == \E tab \in Members \cup {0} :
  /\ d.shown /\ (d.reloading \/ \E item \in Merged(d) : tab \in {0, Owner(item)})
  /\ d' = [d EXCEPT !.tab = tab, !.view = OfTab(Merged(d), tab)] /\ Rest

-----------------------------------------------------------------------------
(* Changes *)

\* The user deletes an entry or a memory that the page shows.
Delete(item) ==
  /\ d.shown /\ item \in d.view \ d.dels /\ Owner(item) = 1 /\ Change
  /\ d' = [d EXCEPT !.dels = @ \cup {item}] /\ sent' = sent \cup {item}
  /\ UNCHANGED <<held, kept, gone, excused, detailHides>>

DeleteRuns(item) ==
  /\ item \in sent
  /\ sent' = sent \ {item} /\ held' = held \ {item} /\ kept' = kept \ {item} /\ Excuse({"moved"})
  /\ UNCHANGED <<d, gone, changes, detailHides>>

\* bindMemoryDel takes the memory away at once, bindDel only reloads.
WithoutMemory(g) == IF Memory \in g.mems THEN Refreshed([g EXCEPT !.mems = {}]) ELSE g

\* Mutant: the item goes, the page stays.
DeleteStays(item) ==
  /\ item \in d.dels \ sent /\ d' = [d EXCEPT !.dels = @ \ {item}] /\ gone' = gone \cup {item}
  /\ Excuse(IF d.shown THEN {} ELSE {"late"})
  /\ UNCHANGED <<Server, changes, detailHides>>

\* The answer; an item of a hidden page keeps it to itself.
DeleteAnswered(item) ==
  /\ item \in d.dels \ sent
  /\ LET g == [d EXCEPT !.dels = @ \ {item}]
     IN  d' = IF ~d.shown THEN g
              ELSE ReloadDetail(IF item = Memory THEN WithoutMemory(g) ELSE g, "nothing")
  /\ gone' = gone \cup {item}
  /\ Excuse((IF d.shown THEN {} ELSE {"late"}) \cup (IF d.shown /\ d.reloading THEN {"raced"} ELSE {}))
  /\ UNCHANGED <<Server, changes, detailHides>>

DeleteFails(item) ==
  /\ item \in d.dels /\ d' = [d EXCEPT !.dels = @ \ {item}] /\ sent' = sent \ {item}
  /\ UNCHANGED <<held, kept, gone, excused, changes, detailHides>>

\* reloadAfterEdit, onMemoryCreateSubmit, setCoverImg: what was saved by a
\* drawer that stays open while the page is hidden
Saved ==
  /\ d.isLogin /\ Change
  /\ \E then \in {"nothing", "edit"}, items \in SUBSET ((1..MaxEntries) \ (gone \cup d.dels)) :
       LET g == Changed(d, then)
       IN  /\ Cardinality(items) <= 1 /\ held' = held \cup items
           /\ d' = IF g.req.on /\ ~d.reloading THEN [g EXCEPT !.req.held = held'] ELSE g
  /\ Excuse(IF d.reloading THEN {"raced", "moved"} ELSE {})
  /\ UNCHANGED <<kept, sent, gone, detailHides>>

\* An entry that another of the family adds or deletes moves those after it.
OtherChanges ==
  /\ \E item \in (1..MaxEntries) \ gone : Owner(item) = 2 /\ held' \in {held \cup {item}, held \ {item}} \ {held}
  /\ Change /\ Excuse({"moved"})
  /\ UNCHANGED <<d, kept, sent, gone, detailHides>>

-----------------------------------------------------------------------------
(* Sharing, hiding *)

\* _ensureQRCode: one request, joined by all who need it.
EnsureQR(g) == IF g.shown /\ g.isLogin /\ g.qr = "none" THEN [g EXCEPT !.qr = "flight"] ELSE g

ShareMoment ==
  /\ d.shown /\ d.share = "no" /\ Change
  /\ LET g == EnsureQR(d)
     IN  d' = [g EXCEPT !.share = CASE g.qr = "have" -> "draw" [] g.qr = "flight" -> "qr" [] OTHER -> "no"]
  /\ UNCHANGED <<Server, gone, excused, detailHides>>

\* Mutant: only a picture that is drawn ends sharing.
QRHangs ==
  /\ d.qr = "flight"
  /\ \E qr \in {"have", "none"} :
       d' = [d EXCEPT !.qr = qr, !.share = IF @ = "qr" /\ d.shown /\ qr = "have" THEN "draw" ELSE @]
  /\ Rest

QRArrives ==
  /\ d.qr = "flight"
  /\ \E qr \in {"have", "none"} :
       d' = [d EXCEPT !.qr = qr,
                      !.share = IF @ = "qr" THEN (IF d.shown /\ qr = "have" THEN "draw" ELSE "no") ELSE @]
  /\ Rest

Drawn == d.share = "draw" /\ d' = [d EXCEPT !.share = "no"] /\ Rest

\* onHide: the requests for the list and the code are cancelled; one for the
\* next page leaves the page where it was to be.
HideDetail ==
  /\ d.shown /\ detailHides < MaxDetailHides /\ detailHides' = detailHides + 1
  /\ LET left == [d EXCEPT !.shown = FALSE, !.loading = FALSE, !.req = Offset, !.poll = FALSE,
                           !.qr = IF @ = "flight" THEN "none" ELSE @, !.share = IF @ = "qr" THEN "no" ELSE @]
     IN  d' = IF d.req.on THEN Over(left, d.req.by) ELSE left
  /\ Excuse(IF d.req.on THEN {IF d.req.by = "more" THEN "skipped" ELSE "blank"} ELSE {})
  /\ UNCHANGED <<Server, gone, changes>>

\* onShow; it awaits the reload before it asks for the code.
ShowDetail ==
  /\ ~d.shown
  /\ LET back == [d EXCEPT !.shown = TRUE]
     IN  d' = IF d.need THEN ReloadDetail(back, "show") ELSE EnsureQR(back)
  /\ Rest

\* _startCoverPolling is bounded, and ends when the page is hidden.
DetailPollEnds == d.poll /\ d' = [d EXCEPT !.poll = FALSE] /\ Rest

DetailAnswers == DetailFails \/ DetailArrives \/ DetailLoginEnds
DetailNext ==
  \/ DetailAnswers \/ LoadMoreDetail \/ TabChange \/ Saved \/ OtherChanges
  \/ \E item \in 0..MaxEntries : Delete(item) \/ DeleteRuns(item) \/ DeleteAnswered(item) \/ DeleteFails(item)
  \/ ShareMoment \/ QRArrives \/ Drawn \/ HideDetail \/ ShowDetail \/ DetailPollEnds

\* Requests end: all have timeouts.
DetailFairness == WF_detailVars(DetailAnswers)
DetailSpec == DetailInit /\ [][DetailNext]_detailVars /\ DetailFairness

-----------------------------------------------------------------------------
\* The types of the page's variables.
DetailTypeOK ==
  /\ Len(d.list) <= FullList /\ d.view \subseteq 0..MaxEntries /\ d.tab \in Members \cup {0}
  /\ d.wait \in {"no", "load", "again", "more", "reload"} /\ d.share \in {"no", "qr", "draw"}
  /\ changes \in 0..MaxChanges /\ detailHides \in 0..MaxDetailHides

\* No entry is shown twice, however the offsets have moved.
ShownOnce == IsInjective(d.list)

\* Up to the last entry that is shown none is missing that the server has,
\* also what the user saved while the page was hidden.  Excused are a page
\* that a hide cancelled, a second page asked for when the first had failed,
\* what was saved during a reload and entries of others that came or went
\* since the first page was read.
NoneSkipped ==
  excused \cap {"skipped", "moved"} = {} /\ d.shown /\ ~d.need =>
    \A i \in 1..Len(d.list) : \A item \in held : item < d.list[i] => item \in Range(d.list)

\* What is shown is what the list and the memories have for the tab.
ViewAgrees == ~d.reloading => d.view = OfTab(Merged(d), d.tab)

\* An item the page knows to be deleted is not shown by a page at rest.
NoGhosts ==
  /\ excused \cap {"late", "raced"} = {} /\ d.shown /\ ~d.reloading /\ ~d.req.on /\ d.wait = "no" /\ ~d.need
  => d.view \cap gone = {}

\* Sharing never waits for a code that no one fetches.
ShareIsAwaited == d.share = "qr" => d.qr = "flight"
=============================================================================
