# A TLA+ model of pathmemos

pathmemos is a WeChat mini-program (`src/frontend/miniapp/miniprogram`) with a
Go service behind it (`src/backend`): people keep diaries, alone or in families,
with images, automatically recorded tracks and daily covers; they talk to an AI
about them; VIP plans are paid through WeChat Pay. This directory holds TLA+
modules for the parts where interleavings, callbacks, crashes and repeated
deliveries decide whether data, money or what a page shows stays right, TLC
configurations that check them on small instances, and proofs by TLAPS that hold
for every instance.

`PROJECT.json` maps every definition to the lines it models and lists the runs,
the mutants (a deliberately wrong form of a definition that a property must
catch; they stand in the modules, marked "Mutant"), the hazards and the theorems.

## 1. The system

### The server

All persistent state is in PostgreSQL; Redis holds sessions, counters and
caches; images are files or OSS objects. Several instances of the server may
run. A request is handled by one goroutine; work that may wait (clean-up of
files, cover refresh) is started as a goroutine after the commit. Three tools
order concurrent work:

* `db.WithTx`: a READ COMMITTED transaction, where each statement sees what was
  committed before it, and `UPDATE ... WHERE state = ...` decides on the newest row;
* `db.WithTxDeferrable`: REPEATABLE READ, tried again on 40001 (and on nothing else);
* `AdvisoryLock.TryLock`: a session lock that lives as long as its connection.
  Invariant I11 of `docs/ARCHITECTURE-INVARIANTS.md` wants correctness to rest on
  transactions and constraints only, with locks as an optimisation.

| Component | State | Operations | Talks to | What is hard | What makes it right |
|---|---|---|---|---|---|
| VIP orders (`payment`) | `orders` | create, sign, cancel, WeChat callback, order-close job | VIP time, account deletion, WeChat | repeated and concurrent pushes against cancel, close and deletion; a 200 ends the retries | delivered exactly once; money never stranded; one order per transaction |
| VIP time (`vip`) | `user_vips`, `user_vip_claims` | deliver, claim trial, reward | orders, invitations | first grants without a row to lock; stale snapshots | every grant counts once and in full |
| Families (`family`) | `families`, `family_members`, `users.current_family_id` | create, join (with merge), leave, remove, dissolve, delete account | covers, files, orders | decisions on a reading made before the lock; lost locks | membership and current family agree; limit; ownership |
| Automatic recording (`autorecord`, check-in of `diary`) | `auto_record_trajectories`, automatic entries | upload, switch, round, check-in | geocoding, diary, VIP | crash between entries and deletion; partial failure; round against check-in | nothing dropped, nothing recorded twice but under two names |
| Files (`file`, image parts of `diary`, avatar, orphan job) | `files`, objects, `image_storage_bytes`, references | upload, attach, detach, delete, collect | diary, user, jobs | record, object and counter change one after the other | what is shown is stored; the counter is exact |
| Diary and covers (`diary`) | diaries, entries, memories, `family_daily_covers` | CRUD, refresh cover | files, families, autorecord | asynchronous refreshes overtake each other | a cover shows an image of its day |
| AI chat (`ai`) | Redis turn marker, quota in Redis and PostgreSQL | turn, reconnect, refund | upstream | retries of one turn; two counters | one charge per turn |
| Background jobs (`jobs`) | advisory locks, timers | nine periodic jobs | all | overlap, timeouts, stale lists | each job idempotent |
| Invitations (`invite`, `auth`, `family`) | Redis links, `users.inviter` | bind, reward | VIP time | concurrent binding | each reward once |
| Sessions, rate limits (`middleware`) | Redis sets | create, delete all | login, deletion | creation during deletion | no session survives |
| CDN purge queue, push, geocoding limiter | Redis set, daily marker, token bucket | record/pop, alert, wait | files, WeChat, map | pop before the work is done | nothing lost, rate kept |

MCP server, official-account bridge, operation logs, configuration and start-up,
and deployment keep no state of their own worth a model, or are sequential;
`PROJECT.json` lists each with the reason.

### The mini-program

One JavaScript thread. Nothing is preempted, but everything that takes time - a
request, storage, the platform's dialogs, location, permissions - ends in a
callback or an `await`, and between the two the user presses other buttons, the
page is hidden, left or destroyed, the process is killed, and answers come late,
fail or get lost. The code defends itself with flags (`_isHidden`,
`_isDestroyed`, busy flags), sequence numbers, cancel tokens and shared promises;
whether they fit together is the question of these modules.

| Part | State | Operations | Talks to | What is hard | What makes it right |
|---|---|---|---|---|---|
| AI drawer (`AIDrawer`, `eventSource`) | messages, sequence number, timers, stream | send, stop, clear, stream events, watchdog, hide and show | `ai`, diary | late callbacks of an aborted stream; one reconnection; flushes | a question stays; an answer is whole and shown once |
| Text decoder (`polyfills/textDecoder`) | bytes that stay over | decode a chunk, end | event stream | chunks cut anywhere, malformed bytes | the text of the bytes |
| Editors (`NoteEdit`, `MemoryEdit`, `CoverEdit`) | pictures, tokens, form | choose, remove, submit, close, hide | `file`, `diary` | submissions that overlap, partial uploads | each picture its id, uploaded once |
| Place picker (`NoteEdit`) | coordinates, address, source | locate, geocode, choose | location | answers of different questions | coordinates and address agree |
| Home list (`index`) | cards, cursor, flags | reload, next page, hide, poll a cover, changes by other pages | `diary` | reload against paging | a run of days, newest first |
| Page of a day (`NoteDetail`) | entries, memories, tab, QR code | load, page, edit, delete, share | `diary`, `invite` | offsets that shift; deletions against loads | none twice, none skipped, none that is gone |
| VIP page (`Vip`, `pay`, `vip`) | dialog, order, polling, fetch | agree, pay, poll, cancel, claim, leave | `payment`, `vip`, WeChat | the page is left while WeChat's dialog is open | one payment; no paid order cancelled |
| Login (`auth`, `http`, `storage`, `app`) | session, shared flight, scanned code | log in, expire, resolve the code | `auth`, `invite` | one flight for many callers | the flight ends; the inviter counts |
| Finding stays (`autoRecord`) | window, stable spot, timers | fix, fallback, hide, show, VIP check | location, `vip` | front and background, ages against intervals | found in time, once |
| Stay points (`autoRecord`) | queue, stored list, leading part reported | push, store, report, clear | `autorecord` | storage and network fail apart | none lost, none twice |
| Recording switch (`autoRecord`, `AutoBtn`, `User`) | flags, generation, listener, server's switch | open, restore, close, reset | permissions, `autorecord`, location | calls that overlap at every `await` | closed stays off; on is never silent |
| Family page (`Family`, `storage`) | members, link, invitation that was opened | open a link, join, read, make the link, leave, remove | `family`, login | tasks that overlap when the page is hidden and shown | an invitation is not lost; the link and the members are those of the family |
| Private backend page (`BackendConfig`) | stored mode, address, key; the router's address of the key | test, save, switch back | router, login | a test registers for real; one token for all requests | the key in use leads where it was saved; no login of the other backend |
| Settings page (`Set`, `auth/handler`) | phone, nickname, avatar; a token for each | bind, unbind, submit, choose, hide, leave | `auth`, `user`, WeChat | requests that overlap, are cancelled and arrive late | a phone bound once a day; page, storage and server agree |
| Operation log (`opslog`) | stored queue | log, report | `opslog` | events during a report | none lost, in order |

The pages for invitations and addresses are forms over single requests with the same
guards; the sharing canvas, widgets, theme and texts are drawing.

## 2. The modules

| Module | Models | Evidence |
|---|---|---|
| `Entitlement` | abstract: what the buyer of an order is promised | |
| `Payment`, `PaymentProofs` | orders, callbacks, order-close job, account deletion on orders; implements `Entitlement` | proved and checked |
| `Vip`, `PaymentProofs` | concurrent grants of VIP time on one row per user | proved and checked |
| `Family`, `FamilyProofs` | membership, locks and retried transactions | proved and checked |
| `AutoRecord`, `AutoRecordProofs` | points, rounds, check-ins, their lock | proved and checked |
| `Files`, `FilesProofs` | images of one user: records, objects, counter, references, clean-up | proved and checked |
| `ChatTurn`, `PaymentProofs` | chat requests of one user on one day: marker, cached reply, quota in Redis and PostgreSQL, refunds | proved and checked |
| `AIDrawer`, `TextDecoder` | the chat on the phone, its event stream and the decoder under it | checked |
| `Editor`, `PlacePicker` | pictures and place of an entry, memory or cover that is edited | proved and checked |
| `Purchase`, `Session`, `Recorder`, `Feed`, `Detail` | paying, logging in, switching automatic recording on the phone, the list of days, the page of a day | proved and checked |
| `StayPoints`, `OpsLog` | the points found by automatic recording and the operation log, kept and sent | proved and checked |
| `FamilyPage`, `BackendConfig`, `SetPage` | the page of the family, the page that switches backends, the settings | proved and checked |
| `Stays` | automatic recording on the phone: finding stays | checked |
| `PageData` | what is written to a page that is hidden (used by `FamilyPage`, `SetPage`) | |
| `Client` | composes the fifteen modules of the mini-program | checked, in part proved |
| `PagesProofs`, `FormsProofs`, `EditorProofs` | the invariants of its parts: every part keeps its own and it implies what is promised | |
| `ClientProofs` | the theorems about `Client`, from these invariants | |

The `MC*` modules only give constants their values for TLC.

### Payment

The variables `ostate`, `ouser`, `otxn` are the columns of `orders`; a callback is
a worker that goes through the statements of `ProcessPaymentCallback`: `ReadOrder`
(the transaction and `isUserDeleted`), `UpdateOrderPaid` (conditional UPDATE),
`RereadOrder` and `MarkClosedOrderPaid` for 0 rows, `ActivateVIP`, `Commit`,
`Reply` (the 200). A worker past its UPDATE owns the row (`Holding`); others wait,
that is, their statement is not enabled. `delStale` records what makes the
REPEATABLE READ deletion fail with 40001. WeChat is external: it charges at any
time after the parameters are out and pushes as often as it likes, until a 200.
The refinement counts deliveries; an order is "forfeited" when it is paid without
delivery and "orphaned" when its `user_id` is NULL.

### Vip

A grant is one transaction: `Start` reads the clock (and takes the snapshot of the
REPEATABLE READ kind), `Claim` inserts into `user_vip_claims`, `LockRow` is
`SELECT ... FOR UPDATE`, `ClaimRow` inserts the placeholder that expires a second
later, `Relock` locks again, `Upsert` writes and commits. Time is counted in
placeholder seconds. The first grant of a user who has no row is computed from the
placeholder's expiry, so it ends a second later than `now + duration`; the module
says so (`EveryGrantCounts` allows that second).

### Family

A request reads `users` (and the owner of the family) outside any transaction,
takes the advisory locks this reading calls for, and works on the snapshot of its
transaction. `Write` computes the rows it changes; it fails and is retried when
one of them was changed since the snapshot, or a parent row it refers to went
away, and it commits if the foreign keys and `uq_family_members_user_id` allow.

### AutoRecord

A row of the table is a point, its `recorded_at`, with the number of the row: once
its row is deleted, a point that is uploaded again is stored again (`repeats` in a
setting, at most `MaxUploads` rows of a point), as the natural key only protects rows
that exist. An entry keeps the rows it stands for. A round goes `LockRound`, `CheckUser`,
`ListTrajectories`, then per stay `NameStay`, `IsDuplicate` or `IsNew`,
`CreateEntry`, and at the end `DeleteTrajectories` and `Unlock`; every statement can
fail the way the code survives it. Check-ins share the lock.

What is compared are names, not places: a name is a landmark and maybe an address, and
two names are the same when one of them agrees and is not empty (`SameName`). The
geocoder gives a place one name (`Geocoded`), parts of which other places may have. A
round names a stay at a common address that it has read (`known`) after that address and
without asking the geocoder (`AsCommon`); a check-in always has the geocoder's name
(`CheckIn`). So `NoEcho` speaks of names, and of places with the one exception that
follows.

Abstracted: two points of a place are near each other and have one geocoded name, and
points of two places are not near each other; `geocode_attempts`, on which no branch
depends; points with one and the same `recorded_at`, which the natural key excludes per
place. Editing or deleting entries and renaming common addresses, which renames entries,
are not modelled. The table of held connections is abstracted to `LoseLock`: a lock goes
away while its holder goes on.

### Files

`up[f]` is the position of an upload. Without OSS the object is written before the
transaction, with OSS after it; failures undo record, object and counter one after
the other. Entries, avatar and cover refer to images; requests first read, later
write (`req`). What a commit leaves to do is a member of `tasks`: `TaskUnreferenced`
is `DeletePhysicalIfUnreferenced`, `TaskCheck` and `TaskDelete` are the two statements
of `deleteIfOnlySelfReferenced`, `TaskObject` is the deletion of the object. The orphan
job scans once and then works file by file: object, record, counter. All images have
size 1. A transaction that holds the `files` row (FOR UPDATE, or the foreign-key
check) is one step.

### ChatTurn

`pc[q]` is the position of a request in `chatWithPrompt`: `Lookup` (cached reply),
`Acquire` (SETNX of the marker), `PollReply` and `PollMarker` for who comes second,
`Prepare` (everything read before the charge), `CountInRedis`, `Charge` and `Uncount`
(`tryConsumeDailyQuota`), `Chunk`, `Breaks` and `Ends` (the stream), `StoreReply` and
`Release` (the deferred function). `refund[q]` is the goroutine of `refundDailyQuota`.
Redis may fail at every call, or come back empty; a statement may fail, and its answer
may be lost after it took effect, so that a refund repeats what it has done; a client
may leave before a counter is taken back in the context of its request; a process may
die. `faults` records which kinds happened, so that each property can say under which
of them it holds. Abstracted: a reply is nothing or something; that the user is a VIP
may change between requests, so the quota read is any of the two.

### The parts of the mini-program

In all of them a step runs from one callback to the next, as JavaScript does: it
takes in everything the code does synchronously, microtasks included. Where a
cancelled request is rejected at once, that rejection is part of the step that
cancels it, or a step that goes before any other (`Calm`, `EditorCalm`,
`RecorderCalm`). A page's data and flags are one record; requests under way are
records of what they captured, so that a late answer finds newer state. History
variables remember what the properties speak of; no guard reads them, except
that `Recorder` counts its calls by one (see the bounds).

* `AIDrawer`: `dr` is the component, `sse` the connection, with the sequence
  number `dr.seq` against late callbacks. What is written to a hidden page is
  kept in `dr.late` and applied when it is shown (`safeSetData`). An answer is
  the numbers of its pieces, so that a piece lost, doubled or of another turn shows.
* `TextDecoder`: bytes are numbers; `Decode` is the loop of the polyfill,
  `WellFormed` its range checks. A response is cut at any byte; `Reconnect` keeps
  the decoder and its bytes, as `eventSource` does. `TextIsWhole` compares with
  the characters the response was made of.
* `Editor`: `e` is the editor, `sub[s]` a call of submit with its snapshot of the
  pictures; `stored[p]` counts how often the server got picture `p`.
* `PlacePicker`: a place is where it comes from (the phone, the map, a place
  nearby); coordinates and address each remember theirs.
* `Feed`: days are numbers, the cursor the last one shown; a cover carries the
  day it was drawn for and its version. A list cut at `MAX_LIST_SIZE` is at its end
  (`finishedLoad`) although its cursor is further on.
* `Detail`: entries are numbers in the order of their time, paged by offset; a
  hidden page's writes wait as in `AIDrawer`.
* `Purchase`: `buyer` is the page, `fetching` the shared fetch of the user's VIP,
  `orders` and `charged` the server and WeChat, which settle at any time.
* `Session`: `call[c]` is a call of login, `flight[c]` what it started;
  `cur` is the shared promise. Requests that get 401 drop the session they find.
* `StayPoints`: `queue` in memory, `store` in storage, `lead` the leading part of
  the store the server has; `pc[c]` the place of a call of `_serialFlushAndReport`;
  `crowded` remembers that two calls have awaited the same round, after which
  they no longer go one by one (section 6).
* `Recorder`: `at[o]` is the `await` a call is at, `m` the module's memory and the
  platform's listener, `backend` the server's switch, `timer` the timeout of an opening.
  The poll (`fallback`) is started where the listener is, if recording is on by then
  (`Registered`): by a restore (`Listens`) but not by an opening (`TurnedOn`), whose
  first poll is started when the mini-program is shown again (`FallbackRestarts`).
* `Stays`: time goes on in units of half a minute; `loc` is what the code knows
  (window, stable spot, ages of its timers), `spot` where the phone is. The poll's timer
  is off after an opening (`ListensOnly`) until the mini-program is shown or recording
  restored; `unpolled` remembers that it has been off since.
* `FamilyPage`: a family is a number and a link the number of its family; `task[t]`
  is what a call of `onShow` or `doQuitFamily` waits for, `srv` the server with the
  user's family and a count of changes that tells lists of members apart; `fam.late`
  is what waits for a hidden page.
* `BackendConfig`: `routes` is what the router keeps for each key, `flow` the test or
  save under way, `loose` the requests nobody waits for: the clean-up of a test, and
  aborted requests that may arrive later. `acct` says whose session and data the
  phone has.
* `SetPage`: `set` is the page, `job[t]` a request with its place at the server
  (`at`) and whether someone still waits for it (`heard`); `user` is the row of the user,
  which binding and unbinding read, and write a step later, as `auth/handler.go` does.
  Cancelling ends the waiting, not the request; that the `finally` of what was cancelled
  runs after the new token is stored is part of the step that submits.
* `OpsLog`: `log` is the stored queue, `report` what a report has read. A queue that
  cannot be read is taken for empty, by an event, which then overwrites it
  (`overwritten`), as by a report.
* `Client`: the parts side by side. They share no variables the properties speak
  of, so one part moves in a behaviour while the others rest, and a run covers
  all of them in the sum of their states and not in the product. What each
  part promises is one invariant (`DrawerSafe`, `EditorSafe`, ...), the conjunction
  of named properties that the part's module states.

## 3. What the runs check

| Run | Instance | Shows |
|---|---|---|
| `payment` | 2 orders of one plan, 2 transactions, 2 workers, 1 user, 1 crash, fairness | delivered once or forfeited by deletion (`PaidIsDeliveredOnce`); a 200 only when nothing is lost by it; one order per transaction; collected money becomes a paid order (`ChargedIsSettled`); refines `Entitlement` |
| `vip` | 5 grants for one user: 2 deliveries, 2 claims of a trial, 1 reward | no grant lost, doubled or claimed twice |
| `family` | 3 users and locks that hold, or 2 users and locks that break; 2 new families, 2 requests of any kind, limit 2 | membership, current family and ownership agree, with or without the locks (I11); the limit while they hold |
| `auto_record` | 3 points, 2 places; a round and a check-in, or 2 rounds, lost locks, crashes and every statement failing; points stored again; fairness | no stay dropped; no row recorded twice unless a round was broken off; no entry repeats the name of the last one; every point handled |
| `files` | 2 images, 1 entry, limit 1, all faults and crashes | what is shown stays stored; at most one refund; limit |
| `chat_turn` | 2 requests of one turn or of two, quotas 1 and 2, two kinds of faults a day, fairness | one request at a time generates a turn; paid is answered or refunded; the counters agree; nobody waits for ever |
| `client` | each part with every order of its callbacks | what each part promises, below |
| `client_live` | the parts with a busy flag, fairness | `WaitingEnds`: every flag is cleared again |
| `family_orphan`, `auto_record_crash`, `files_quota` | small instances of the same modules | disagreements between code and documents, section 6 |
| `points_lost` | 3 overlapping calls, 3 points, no failure of storage or network, no kill | a stay point is lost, section 6 |

The invariants of `client`: `DrawerSafe` (questions kept, answers whole and once,
cards with their answer, one answer at a time), `EditorSafe` (pictures kept, ids
belong, uploaded once; coordinates and address agree), `FeedSafe` (a run of days
from the newest, never blank without a reload to come, covers on their day),
`DetailSafe` (no entry twice, skipped or back from deletion; the tab agrees;
sharing waits for something), `BuyerSafe` (one payment at a time, no paid order
cancelled, none left open, the dialog tells of what was bought), `SessionSafe` and
`LoggedIn` (the shared flight is alive and the only one; the inviter counts; a
login that ended well left a session), `PointsSafe` (no stay point and no logged
event lost or sent again, the points until two calls have waited for one round,
`crowded`), `RecorderSafe` (nothing located for a recording that is
off; closed stays off; one that is on listens, polls or will try again, but for
`crossed` and `deaf`), `StaysSafe` (each stay found in time and once; the background's
silence broken, but for `misplaced` and `unpolled`; only a denial of VIP closes), `FormsSafe` (an invitation kept until it is accepted,
the shared link and the members those of the user's family, the mask and the
buttons released; the key in use leads to the saved address and no other is left
registered after a test, the session and data are those of the configured backend; a
phone bound once a day, the number, name and avatar shown those of storage and server,
one submission of a name awaited at a time, the avatar locked only while one is awaited).
`DrawerSafe` also has the decoder: the text is that of the bytes.

**Bounds.** Two concurrent actors are enough to show a lost update, a stale reading
or a race between check and act in these modules, because every action changes rows
of one or two actors; the third actor that matters is always of another kind (job,
deletion, crash) and is there. Two orders share a plan, so that creating one
closes the other. Three users and two new families let an owner with a member join
another family while that one changes. `MaxCrashes`, `MaxNow`, `MaxTries`,
`MaxRetries`, `MaxUploads`, `MaxEntries` and `MaxKinds` bound counters in the guards. `Batch = 2`
is smaller than the number of points, so that a stay is cut. Limits of 1 or 2 are
reached at once. `Narrow` (Payment), `Starts` (Family) and `Settings` (AutoRecord)
name the pairs of bounds of a run whose full product would be too large: a wide
instance without faults beside a small one with all of them. Symmetry (families,
faults) permutes only constants that no definition tells apart, and is used with
safety properties only.

In the mini-program two calls overlap where two can (`Subs`, `Flushers`, `Opens`,
`Restores`); two flushers never crowd a round, which is what `points_lost` has a third
for. Pages are hidden once or twice in a behaviour: each hide resets the
same flags. Page sizes of 1 or 2 and limits of 2 to 5 replace 10 to 1000, with one
page more than the limit. `Recorder` counts openings, restorations, closings,
retries and deaths together (`MaxCalls = 2`); openings of which one was asked about
at the server while the next began (`crossed`) end the counting, since what follows
is the recorded exception. `Stays` scales its intervals, keeping their order (a
check before a mature stay before an old one) and lets either the way of the phone
or its circumstances (hiding, VIP, failures) vary (`Studies`). The family page runs
two tasks at a time, two links, two openings, one return and one departure or
removal; the page of the backend two visits and two presses of its buttons, two keys
and two addresses, so that a test may use the key in use with another address, or
another key. The settings change one thing per behaviour (`Subjects`), in three
submissions of which two overlap, with one departure or hiding; the day is one, since
midnight only lifts the lock. The decoder sees every pair of a character of each length and of
malformed bytes of each kind the code distinguishes, cut at every byte.

**Deadlock** is not checked: in every module the environment may stop asking (all
orders settled, all images gone, all pages left), which is a normal end. That
work does get done is what the liveness properties are for.

**Fairness.** `Payment`: WeChat repeats an unanswered push (SF of a push that counts
again and again), workers and deletions go on (WF). A waiting statement is enabled
only while the lock is free. `AutoRecord`: the runner starts a round every five
minutes and a round that runs goes on (WF), and neither the geocoder nor the
database fails for ever (SF on success). `ChatTurn`: a request that is served and a
refund that was started go on, and a marker has a time to live (WF); that a client
stops waiting, or that Redis answers, is not assumed. `Client`: what was asked of the
network or the platform is answered, fails or times out (one WF of `Answers`; every
request of `http.ts` has a timeout). Nothing is assumed of users: they may leave a
dialog open for ever.

**What the exceptions mean.** `ReferencedIsStored` leaves out images an orphan scan has
listed: the job works on its list long after the scan, and if such an image is
attached again in between, the job deletes its object and then fails to delete the
record. `RefundedOnce` leaves out images whose record was deleted under the job's
hands (its DELETE of 0 rows is no error, so it refunds again; GREATEST hides a
negative result only at 0) and uploads undone in part. F-7 of
`docs/spec/02g-file-push.md` excludes the first ("被条目/封面/头像引用的文件不会被清理"), D11 wants objects deleted after the commit.
And an object whose deletion fails after its record was deleted stays for ever:
the comments that leave it to the orphan job (`diary/service.go:1052`, `1303`, `1437`)
overlook that the job finds objects by their records.

The history variables of the client's modules name their exceptions where they are
declared, and each is a step that the code takes: they are listed in section 6 as
far as a comment or document says otherwise.

## 4. What is proved

TLAPS checks the theorems listed in `PROJECT.json` for all values of the constants.
The type invariants of `Payment`, `Vip`, `Files` and `ChatTurn` are part of these
proofs and have no run of their own.

`PaymentProofs` (assumption: `PaymentAssumption`, that NULLs are no ids and each order
has a plan). None of the invariants is inductive. `IInv` adds: an order goes through
its life in order (`Lifecycle`); a row has one writer, which found it unpaid
(`RowLocks`); the owner a worker remembers is the owner or gone for good (`Owners`);
a transaction id that is written or about to be belongs to one order
(`TxnOwnership`); a worker about to answer 200 may (`Answers`). Each conjunct is
shown to survive every action. The refinement shows that `Commit` delivers or
forfeits, a deletion orphans, and everything else stutters.

For `Vip` (also in `PaymentProofs`; `VipAssumption`), that no grant is lost rests on `GrantLocks` (one open
transaction per row, and the expiry it read is the one its UPSERT finds) and that a
trial delivers once on `Reservations` (a claim is reserved from its INSERT to the
commit).

`FilesProofs` (`ParametersAssumption`: the limit is positive, the images are finitely
many, no id is NULL), with all faults and crashes. `Reference` says who may still touch
a record: only its upload before it is answered (`Uploading`), only those who know it
from the answer afterwards (`Referring`, `Remembering`, `Cleaning`), and the orphan job
only images whose upload has ended (`Aged`). Hence an object is deleted after its record
or by the job (`Stored`), and two refunds of one image meet only where the job finds
the record gone (`Refunding`). For the limit, the counter is compared with the images
it charges, those whose refund is still under way included (`Room`); the records alone
would not be inductive. Lemmas say what a step may do to uploads, records, objects,
references and the counter; each conjunct follows from them.

For `ChatTurn` (also in `PaymentProofs`; `QuotaAssumption`: the requests are finitely many, the
quotas positive, an absent counter is no number), `Progress` says what is known of a request at each
place, and gives `PaidIsAnswered`; `Marking` says that who generates a turn has set the
marker that is there, which is why two cannot. `CountersAgree` speaks of quiet states
only; `Counting` says at any time which requests stand on the counter in the database
(charged and not refunded there) and on that in Redis (counted and not taken back),
and that each counter is the cardinality of its set; in a quiet state the sets are equal.
It also shows that without those faults no refund ever rebuilds the counter in Redis.

`FamilyProofs` (`FamilyAssumption`: ids are distinct, the limit and the number of tries
are positive; users may be infinitely many). A request writes what it computed from a
snapshot and from a reading before its locks, and both may be out of date. `Request` says
in which form that reading stays true (a family is never made twice, so its founder
never changes), `Snapshot` that a snapshot is a well-formed database of which every row
that has changed since is `dirty`. Each operation computes a `GoodChange`; a good
change without a conflict keeps the database `WellFormed` (one home for each user,
each family its founder, members that can be counted). So the argument is one lemma per
operation and one about the commit, and holds with locks or without. Only the limit
needs the locks: `Limited` says that no two requests hold one family and that a family
whose lock is held does not outgrow the snapshot, while `lossy` is false. The action
property `MovedByOwner` follows from the same lemmas.

`AutoRecordProofs` (`ParametersAssumption`), for any points, processes and settings. A
stay lies at one place by well-founded induction over its points. `RoundOk` says that a
round's stays are disjoint, hold stored rows of one place, and that what it is about to
delete is covered by an entry; that gives `NothingDropped`, whatever fails. For
`OnceUndisturbed`, `OncePending` says that a recorded row is pending only while its
round is about to delete it, which needs the lock (`Exclusive`); for `NoEcho`,
`Compares` says that what was compared with still is the name of the last entry, and
`Called` that every entry has one of the two names its place may have: two that are not
the same name are both of them. The proof was the
reason why the module now has rows: an upload that repeats a handled point makes a new
row, and what is not recorded twice is the row.

The proofs about the mini-program are in four modules. `PagesProofs` (stay points, log,
login, list of days, page of a day), `FormsProofs` (the three forms and the place picker) and
`EditorProofs` (paying, the recording switch, the editors) have, for each part on its own,
an invariant, that it holds initially, that every step of the part keeps it, and that it
implies what is promised of the part. `ClientProofs` has the lemma `ClientFrame` (a step of
the composition is one of the part that moves, or changes nothing of it), and from these
the theorems, one for each property of the run `client` that is proved.

Stay points and the log (`StayPointsAssumption`, `OpsLogAssumption`), for any number of calls. The
types and what the server was told (`Held`, `Control`, `Told`) hold always. While no
round is crowded, `OneByOne` holds: one call at a time is in its round, and one at most
waits for it (`Rounds`); a point is in memory or in storage (`Apart`); what a call has
copied is what the storage holds (`Copies`); the part counted as reported was confirmed,
also across a flush that will drop points at the cap (`Led`), and unless a write failed
nothing else was (`Unsent`, `UnsentAtRest`). That `Rounds` could not be proved for three
calls is how the finding of `points_lost` came about. For the log, `ReadCovers` says that
the queue a report has read covers every event that it may overwrite, but for those
logged meanwhile and those that an event overwrote because the queue could not be read.

The pages (`SessionAssumption`, `PurchaseAssumption`, `RecorderAssumption`,
`FeedAssumption`, `DetailAssumption`, `FamilyPageAssumption`, `BackendConfigAssumption`,
`SetPageAssumption`). Logging in
(`LoginInv`): who waits waits for a flight under way, and the shared flight is the only
one unless one was crossed (`Flights`, `OneFlight`); a code that was resolved goes with
the login that makes the account (`Inviting`); a profile that was refused was sent with
a dead session, and the session of a new account is there while its trial is claimed
(`RefusedIsDead`, `SessionKept`). `LoggedIn` is an action property over it. Paying
(`BuyerInv`): the lock of the page (`Locked`), how far the order is at each stage of the
payment (`OrderOfStage`), the orders themselves (`Ledger`), and that the fetch a payment
waits for sees what was granted before (`FetchIsNew`). Switching (`RecorderInv`): at
what places each kind of call can be (`CallsOfKind`); one opening at a time has its
30 seconds, and the recording it opens is off (`OpeningAlone`); what the user closed is
on only while a call closes it, and no opening from before is of the present generation
(`ClosedIsOff`); the location service runs for a recording that is off only while a call
is at one of the places behind which it is stopped (`StopsInTheEnd`); a recording that is
on listens or will retry, or is being closed or restored (`OnIsHeard`). That it is
taken for listening is not enough: `Reaching` says when points do come in then, by the
listener or the poll, unless a restart under way or a closing will see to it, or a failed
one left it `deaf`. The list of days
(`FeedInv`): which requests there can be at each step of a reload and what the reload
has reset (`FeedRequests`); what is asked for next goes on with the list (`FeedRun`); a
request was asked with the days there are, or the page knows that it is out of date
(`FeedNewest`); an empty list is one of no days, or one that will be loaded again
(`FeedBlank`). `PageIs`, `RunsJoin` and `AddIs` are the lemmas about paging: what a page
holds, that it goes on with the list its cursor ends, and what appending, replacing and
cutting make of the list, for any page size and cap. Stating `FeedRun` for every cap showed that a list
cut at the cap has its cursor beyond its last day, and `FeedBlank` that a first day
written while the first reload is under way is not loaded: the runs' bounds had hidden
both, and `ListIsRun` and `NotBlank` now say so.

The page of a day (`DetailInv`) is about sequences of entries asked for by offset. A request
under way is of a page that is shown and logged in, and asks for the first page when there is
nothing yet (`AskFits`, `LoginFits`, `ReloadFits`); the view is what list and memories have
for the tab (`ViewFits`). Unless an excuse of `NoneSkipped` was met, the list is what the
server has first, entry by entry, and as long as there is more its length says which page is
next; a request was asked with what the server still has (`FreshOf`). What was deleted is
neither at the server nor, without the excuses of `NoGhosts`, on the page or in an answer
under way (`Deleted`, `Noticed`). `NthIs` says that counting the entries up to one of them
and taking the n-th are inverse, `RunIs` and `OffsetIs` what a page by offset holds, and
`WithPageIs` what replacing, joining without repetition and cutting make of the list, for any
page size and cap.

The three forms make up `FormsSafe`. The family's page (`FamInv`): tasks join only
by the link that was opened last, which is kept until it was joined by (`LinkOpened`); the
page is masked only for a task that will unmask it (`Masking`); the link that is shared, or
that waits to be written to a hidden page, is that of the user's family
(`LinkShared`); members that were read are those of the server, or the page will read
again (`MembersRead`). The private backend (`ConfInv`): what a flow has told the router
at each of its steps (`FlowFits`) and who waits for it (`FlowShown`); a clean-up under way
restores what was saved (`DueFits`); every key leads where it was saved, unless the flow
has moved it or a clean-up that is under way will restore it (`RoutesFit`, the step from one
request to the other). The settings (`SetInv`): what was read is what there is, or a change
has overtaken it (`ReadIsNew`); the number on the page is right or about to be read
(`PhoneIsRead`); a number that was bound today closes the day (`BindsToday`, for which
`binds` is the set of the numbers bound, not their count); one change of a name
or an avatar is awaited at a time, and it is the last that was sent (`NamesInOrder`).

The editors make up `EditorSafe`. Their invariant (`EditorInv`, `EditorAssumption`) is about
sequences of any length: pictures in a list are all different and numbered in the order
of their choice (`ListIs`), what a call has recorded of its uploads belongs to its
snapshot (`SaveIs`), and a new picture is one that is wanted (`EditorShown`). As long as
Save was not pressed during an upload, one call at a time is under way, its snapshot is
what the editor shows while it uploads, and what it saves is what is wanted (`OneSave`).
`Sending` says which pictures may still be uploaded: those a call has yet to send or has
failed to send, and, while none uploads, the new ones in the editor, were not stored yet
or have a reason to be sent again. The lemmas `RankIs` and `PartAt` say what filtering a
sequence gives (each place of the filter has its rank, and the ranks are those up to the
number of places), from which `WithIdsIs` shows that the ids in the result of an upload
reach the pictures they were made for. The proof showed that `IdsBelong` holds only while
Save is pressed once (section 6), also the part about ids, which the bounds of the run had hidden. The
place picker (`PlaceInv`) needs only that what is late is one form.

TLC checked each of these
inductive invariants before it was proved, on instances larger than those of the runs
where the proofs are about counters (two polls, orders, payments and visits) or lists (four
entries of a day, pages of two).

Theorems about parts of the mini-program are stated of `ClientSafety`, the
specification of the run `client`: a behaviour in which only one part moves.

Only model-checked: liveness (`ChargedIsSettled`, `PointsAreHandled`, `Served`,
`Unblocked`, `WaitingEnds`), which is outside the prover's reach, and the other parts of
the mini-program: AI drawer and decoder (`DrawerSafe`) and finding stays (`StaysSafe`). TLC
checks the same definitions on small instances. What the loop of the decoder computes for
every response, and the centre of a cluster of points, which is a sum over a sequence, are
induction over data and will stay with TLC.

## 5. Plan

Modelling is complete in the sense of section 7. What is left to prove are parts of
`Client`:

1. The parts of `DrawerSafe` that are not about the decoder's loop.
2. The parts of `StaysSafe` that are not about the centre of a cluster.

## 6. Where code and documents disagree

* `family_orphan`: an account deletion reads the user's family before it locks,
  `CreateFamily` takes no lock, and no constraint notices: a family is left
  without owner and members. The comment at `family/service.go:701` counts on the
  unique constraint and the retries.
* `auto_record_crash`: a round that dies after its entries and before the deletion
  of its points records them again; I6 excludes it. A batch that is uploaded again
  after a round has the same effect, as the natural key only protects rows that
  still exist (`migrations/000005_trajectory_idempotency.up.sql`).
* `files_quota`: `deleteIfOnlySelfReferenced` deletes the record of an image without
  giving its size back to the quota, in contrast to the other deletions and to F-2.
* `points_lost`: a call of `_serialFlushAndReport` that finds a round under way awaits it
  and then begins its own without looking again (`autoRecord.ts:221`). Two calls that
  awaited the same round go on together; the one that finds `_reporting` set takes the
  promise of the other away when it ends, so that the next point is flushed beside the
  report and overwritten by its success. The comment at `autoRecord.ts:1101` and
  `docs/spec/02c-autorecord.md:60` rely on the chain of single flights to exclude this.
* Without a run: `agreeAndContinue` goes on with what `pendingAction` says, which hiding
  the page does not reset and buying does not set: claim, leave, come back, buy and
  agree claims the free time and does not pay, where
  `docs/spec/06-miniapp-pages.md:161` has the agreement go on to `doPay`. TLC refutes
  `AgreedIsDone` of `Purchase` with `BuyerSpec` (one poll, two visits are enough).
* Also without one: `WithinLimit` of `Family` rests on the advisory lock
  alone (with `LocksCanBeLost` TLC finds two joins that exceed it), while I11 wants
  locks to be an optimisation; the three observations on `Files` in section 3; the first
  grant's second.
* Also without a run: one `request_id` may be charged twice, one request after the
  other. A resend that looked for the cached reply before the first request stored it,
  and sets the marker after the first request released it (`ai/service.go:181`, `187`),
  generates again; and a reply that broke off is never cached, so that a resend is
  charged again. AI-2 of `docs/spec/02f-ai-chat.md:52` asserts that `used` does not grow.
  A statement whose answer is lost charges without an answer, or is refunded up to four
  times (`ai/service.go:472`), and the DECR that takes the counter back runs in the
  context of a request that may be over (`ai/service.go:457`).
* Also without one: at a common address a round and a check-in record one stay twice, one
  after the other and with the lock held. The round names it after the address
  (`autorecord/service.go:229`), the check-in by the geocoder (`diary/service.go:1491`), and
  `IsSameAsLastAutoEntry` compares the names; the comment at `diary/service.go:1509`
  counts on the lock alone. `NoEcho` names this case and shows that it is the only one.
* Observed in the mini-program, as the exceptions of its properties (the history
  variable is in brackets). A reset of the recording state while the mini-program is
  hidden marks it as shown (`_appBackgroundedAt = 0`, `autoRecord.ts:934`), so the
  fallback that the comment at `autoRecord.ts:33` promises for the background does not
  ask (`misplaced` of `Stays`). Nor does it after an opening until the mini-program is
  shown again: `_startFallbackTimer` at line 741 does nothing while recording is off, and
  it is switched on at 770 only (`unpolled` of `Stays`). For the same reason a restore in
  a recording that was only opened has nothing left when its restart fails: the listener
  was removed (1079), `_listenerRegistered` still says it is there, so that line 1144 does
  not start it again and 1169 drops the retry, and the recording stops silently, which
  the comment at 1163 is to exclude (`deaf` of `Recorder`). Openings that overlap while the server is asked about one that timed
  out can leave recording on and silent (`crossed` of `Recorder`). A reconnection in
  mid-character glues old bytes to the new stream (`spliced` of `TextDecoder`), against
  the comment at `eventSource.ts:38`. Events logged during a report are overwritten when
  it ends (`overtaken` of `OpsLog`), against the comment at `opslog.ts:52`; and an event
  logged when the queue cannot be read overwrites all that was kept (`opslog.ts:20`, `38`;
  `overwritten`). A page of the home list
  that arrives while a reload logs in moves the cursor under the list (`slipped` of `Feed`).
  The family page asks for its link once: after joining or leaving it shares the link of
  the family before (`moved` of `FamilyPage`), and an older list of members that comes
  after a change stays until the page is shown again (`overtaken`). The clean-up of a
  failed test is sent with the page's token: hiding the page or pressing again aborts it,
  and the key in use stays at the tested address (`unrestored` of `BackendConfig`), which
  the comment at `BackendConfig.ts:183` wants to prevent; an aborted registration may arrive
  all the same (`late`, `abandoned`), and a login meanwhile reaches the tested backend
  (`misrouted`). Leaving the page while switching back aborts the unregistering, which is
  caught, so that the mode is stored and line 291 returns: session and data of the private
  backend stay (`left`), where the comment at line 292 calls clearing them essential.
  Unbinding the phone writes back the day of the last binding as it read it
  (`auth/handler.go:307`): a binding that is committed in between is undone together with
  its day, and a second number can be bound on it (`restored` of `SetPage`), which the
  comment at line 290 wants to prevent. After an unbinding the settings page offers to
  bind at once (`Set.ts:281`), though the server still refuses on that day (`unlocked`); the
  comment at `auth/handler.go:191` wants the two to agree. The `finally` of a cancelled
  submission of a nickname sets the token of the newer one to null (`Set.ts:153`), so that a
  third does not cancel the second (`dropped`): the page may show one and the server keep
  the other. A cancelled request that arrives all the same may also change phone or name
  behind the page (`unheard`, `crossed`).
* Without a run of its own: the comment at `NoteEdit.ts:425` says that no pictures are
  added or removed during an upload or a save, since ids would be lost. When Save is
  pressed again, the `finally` of the cancelled call releases the lock while the second
  call still uploads. If a deleted picture is dropped by that upload, another one chosen,
  and the request that saves then fails, the `catch` compares by place
  (`NoteEdit.ts:592`) and gives the new picture the id of another. `IdsBelong` and
  `PicturesKept` therefore speak of the time before Save is pressed again (`overlap`).

## 7. Not modelled

Formatting, rendering, parsing, HTTP and the contents of diaries; amounts; the
WeChat and map protocols beyond what they do to state; clocks of several machines
(one clock per module). `Files` leaves out system files (trajectory maps, QR codes,
avatar markers) and the deletion of an account's files; `Family` leaves out covers
and everything a deletion cascades to; `Payment` leaves out rejected callbacks,
which change nothing.

On the server: daily covers and memories (what a cover should be depends on
rendering, and refreshes meet only in the database); connections of the pool that
held locks occupy; who is rewarded for an invitation; the job runner, whose jobs
are idempotent statements except the two that are modelled; the CDN queue, push,
rate limits and the geocoding limiter, best effort by design.

In the mini-program: the pages for invitations, addresses and the MCP key,
whose requests are single and guarded like those that are modelled; drawing the
shared picture; calendar and time pickers, swiping, transitions, texts and themes;
markdown. The client's modules stop at the request: that the server does with it
what the server's modules say is not composed, as the two sides share nothing but
the request and its answer, either of which the modules let fail or get lost. Some
details are left out of the parts that are modelled: `FamilyPage` and the leaving of a
page in `Session` let a request that was aborted have arrived before, not arrive after it
(`SetPage` and `BackendConfig` let it); `BackendConfig` assumes that the session lives
while its page is open; `StayPoints` has no `clearUserData` (`storage.ts:27`), which
empties the stored points without resetting `_reportedLeadingCount`.
