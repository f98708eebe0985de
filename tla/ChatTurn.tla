------------------------------ MODULE ChatTurn ------------------------------
(***************************************************************************)
(* The chat requests of one user on one day (internal/ai): the marker and  *)
(* the cached reply that make a resent turn idempotent, the daily quota    *)
(* that is counted in Redis and charged in the database, and the refunds   *)
(* that run after the answer.                                              *)
(*                                                                         *)
(* Data.  A turn is what the keys are made from (request id, or message).  *)
(* Of a reply only matters whether any of it has come.  The dialog logs,   *)
(* written with best effort, and the contents of prompts are left out.     *)
(* Whether the user is a VIP may have changed since the last request.      *)
(* Locals that are not read any more are reset.                            *)
(***************************************************************************)
EXTENDS Integers, FiniteSets

CONSTANTS
  Turns, Requests,
  Resends,     \* which turns the requests may be of: functions Requests -> Turns
  PlainQuota, VIPQuota,
  Absent,      \* a Redis counter that does not exist
  MaxKinds,    \* how many kinds of faults one day sees
  Faulty,      \* what may fail: "redis", "db"
  CanCrash,    \* whether a process may die
  CanOutlive   \* whether a turn may take longer than its marker lives

ASSUME QuotaAssumption ==
  /\ PlainQuota \in Nat \ {0} /\ VIPQuota \in Nat /\ PlainQuota <= VIPQuota
  /\ Resends \subseteq [Requests -> Turns]
  /\ Absent \notin Int /\ IsFiniteSet(Requests)
  /\ MaxKinds \in Nat /\ Faulty \subseteq {"redis", "db"} /\ CanCrash \in BOOLEAN /\ CanOutlive \in BOOLEAN

VARIABLES
  used,       \* ai_daily_quota_usage.used
  cached,     \* the same counter in Redis
  markers,    \* turns with a key ai:turn
  replies,    \* turns with a key ai:reply
  place, turn,   \* the requests and their turns
  acquired,   \* whether a request has set the marker
  limit,      \* the quota a request has read
  answered,   \* whether a request has received anything from upstream
  billed,    \* whether it was charged
  refund,     \* the goroutine that gives the charge back
  dbRead,       \* what that goroutine has read from the database
  faults      \* history: what has gone wrong so far

quotaVars == <<used, cached>>
keyVars == <<markers, replies>>
reqVars == <<place, turn, acquired, limit, answered, billed>>
refundVars == <<refund, dbRead>>
chatVars == <<quotaVars, keyVars, reqVars, refundVars, faults>>

ChatInit ==
  /\ used = 0 /\ cached = Absent /\ markers = {} /\ replies = {}
  /\ place = [q \in Requests |-> "idle"] /\ turn \in Resends
  /\ acquired = [q \in Requests |-> FALSE] /\ limit = [q \in Requests |-> 0]
  /\ answered = [q \in Requests |-> FALSE] /\ billed = [q \in Requests |-> FALSE]
  /\ refund = [q \in Requests |-> "none"] /\ dbRead = [q \in Requests |-> 0]
  /\ faults = {}

Count(c) == IF c = Absent THEN 0 ELSE c

Go(q, from, to) == place[q] = from /\ place' = [place EXCEPT ![q] = to]
GoesWrong(kind) ==
  /\ faults' = faults \cup {kind}
  /\ Cardinality(faults') <= MaxKinds
RedisFails == "redis" \in Faulty /\ GoesWrong("redis")
DBFails == "db" \in Faulty /\ UNCHANGED faults
AnswerLost == "db" \in Faulty /\ GoesWrong("lost")

-----------------------------------------------------------------------------
(* The marker and the cached reply. *)

Ask(q) ==
  /\ Go(q, "idle", "lookup")
  /\ UNCHANGED <<quotaVars, keyVars, turn, acquired, limit, answered, billed, refundVars, faults>>

\* A cached reply is replayed; without one, or without Redis, go on.
Lookup(q) ==
  /\ \/ turn[q] \in replies /\ Go(q, "lookup", "done") /\ UNCHANGED faults
     \/ turn[q] \notin replies /\ Go(q, "lookup", "acquire") /\ UNCHANGED faults
     \/ Go(q, "lookup", "acquire") /\ RedisFails
  /\ UNCHANGED <<quotaVars, keyVars, turn, acquired, limit, answered, billed, refundVars>>

\* Mutant: the marker is set with SET.
AcquireBySet(q) ==
  /\ \/ /\ Go(q, "acquire", "prepare")
        /\ markers' = markers \cup {turn[q]}
        /\ acquired' = [acquired EXCEPT ![q] = TRUE]
        /\ UNCHANGED faults
     \/ /\ Go(q, "acquire", "prepare")
        /\ RedisFails
        /\ UNCHANGED <<markers, acquired>>
  /\ UNCHANGED <<quotaVars, replies, turn, limit, answered, billed, refundVars>>

\* SETNX; without Redis the turn runs unmarked.
Acquire(q) ==
  /\ \/ /\ turn[q] \notin markers
        /\ Go(q, "acquire", "prepare")
        /\ markers' = markers \cup {turn[q]}
        /\ acquired' = [acquired EXCEPT ![q] = TRUE]
        /\ UNCHANGED faults
     \/ /\ turn[q] \in markers
        /\ Go(q, "acquire", "poll reply")
        /\ UNCHANGED <<markers, acquired, faults>>
     \/ /\ Go(q, "acquire", "prepare")
        /\ RedisFails
        /\ UNCHANGED <<markers, acquired>>
  /\ UNCHANGED <<quotaVars, replies, turn, limit, answered, billed, refundVars>>

PollReply(q) ==
  /\ \/ turn[q] \in replies /\ Go(q, "poll reply", "done") /\ UNCHANGED faults
     \/ turn[q] \notin replies /\ Go(q, "poll reply", "poll marker") /\ UNCHANGED faults
     \/ Go(q, "poll reply", "poll marker") /\ RedisFails
  /\ UNCHANGED <<quotaVars, keyVars, turn, acquired, limit, answered, billed, refundVars>>

\* Mutant: only a reply ends the waiting.
PollMarkerForReply(q) ==
  /\ Go(q, "poll marker", "poll reply")
  /\ UNCHANGED <<quotaVars, keyVars, turn, acquired, limit, answered, billed, refundVars, faults>>

\* Without a marker (or Redis) the other request has failed: so does this one.
PollMarker(q) ==
  /\ \/ turn[q] \notin markers /\ Go(q, "poll marker", "done") /\ UNCHANGED faults
     \/ turn[q] \in markers /\ Go(q, "poll marker", "poll reply") /\ UNCHANGED faults
     \/ Go(q, "poll marker", "done") /\ RedisFails
  /\ UNCHANGED <<quotaVars, keyVars, turn, acquired, limit, answered, billed, refundVars>>

\* The request is cancelled or its time is up while it waits.
StopWaiting(q) ==
  /\ Go(q, "poll reply", "done") \/ Go(q, "poll marker", "done")
  /\ UNCHANGED <<quotaVars, keyVars, turn, acquired, limit, answered, billed, refundVars, faults>>

-----------------------------------------------------------------------------
(* The quota. *)

\* Context, logs and VIP status are read before anything is charged.
Prepare(q) ==
  /\ \/ /\ Go(q, "prepare", "count")
        /\ \E l \in {PlainQuota, VIPQuota} : limit' = [limit EXCEPT ![q] = l]
     \/ /\ Go(q, "prepare", "release")
        /\ "db" \in Faulty /\ UNCHANGED limit
  /\ UNCHANGED <<quotaVars, keyVars, turn, acquired, answered, billed, refundVars, faults>>

\* dailyQuotaLua, atomic; without Redis the database decides alone.  A counter
\* that was below zero is counted up, and the request rejected.
CountInRedis(q) ==
  /\ \/ /\ Count(cached) + 1 \in 1..limit[q]
        /\ Go(q, "count", "charge")
        /\ cached' = Count(cached) + 1
        /\ UNCHANGED faults
     \/ /\ Count(cached) + 1 \notin 1..limit[q]
        /\ Go(q, "count", "release")
        /\ cached' = IF Count(cached) < 0 THEN Count(cached) + 1 ELSE Count(cached)
        /\ UNCHANGED faults
     \/ /\ Go(q, "count", "charge")
        /\ RedisFails /\ UNCHANGED cached
  /\ UNCHANGED <<used, keyVars, turn, acquired, limit, answered, billed, refundVars>>

\* IncrementAIDailyQuotaUsed: a conditional upsert.  Its answer may be lost.
ChargeQuota(q) ==
  /\ \/ /\ used < limit[q]
        /\ used' = used + 1 /\ billed' = [billed EXCEPT ![q] = TRUE]
        /\ \/ Go(q, "charge", "stream") /\ UNCHANGED faults
           \/ Go(q, "charge", "uncount") /\ AnswerLost
     \/ /\ Go(q, "charge", "uncount")
        /\ (used >= limit[q] /\ UNCHANGED faults) \/ DBFails
        /\ UNCHANGED <<used, billed>>
  /\ limit' = [limit EXCEPT ![q] = 0]
  /\ UNCHANGED <<cached, keyVars, turn, acquired, answered, refundVars>>

\* Mutant: the counter in Redis is not taken back.
UncountForgotten(q) ==
  /\ Go(q, "uncount", "release")
  /\ UNCHANGED <<quotaVars, keyVars, turn, acquired, limit, answered, billed, refundVars, faults>>

\* DECR, also of a counter that does not exist, in the context of the request: when
\* the client has left, it is not done.
Uncount(q) ==
  /\ Go(q, "uncount", "release")
  /\ \/ cached' = Count(cached) - 1 /\ UNCHANGED faults
     \/ (RedisFails \/ GoesWrong("left")) /\ UNCHANGED cached
  /\ UNCHANGED <<used, keyVars, turn, acquired, limit, answered, billed, refundVars>>

-----------------------------------------------------------------------------
(* The stream from upstream, which goes on when the client has left. *)

StartRefund(q) == refund' = [refund EXCEPT ![q] = "db"]

Chunk(q) ==
  /\ place[q] = "stream" /\ ~answered[q]
  /\ answered' = [answered EXCEPT ![q] = TRUE]
  /\ UNCHANGED <<quotaVars, keyVars, place, turn, acquired, limit, billed, refundVars, faults>>

\* Not started, broken or out of time: what was received is the answer, if any.
Breaks(q) ==
  /\ Go(q, "stream", "release")
  /\ IF answered[q] THEN UNCHANGED refund ELSE StartRefund(q)
  /\ UNCHANGED <<quotaVars, keyVars, turn, acquired, limit, answered, billed, dbRead, faults>>

\* Mutant: only an error is a reason to refund.
EndsWithoutRefund(q) ==
  /\ Go(q, "stream", IF answered[q] THEN "store" ELSE "release")
  /\ UNCHANGED <<quotaVars, keyVars, turn, acquired, limit, answered, billed, refundVars, faults>>

\* Only a complete reply is stored for those who ask again.
Ends(q) ==
  /\ \/ answered[q] /\ Go(q, "stream", "store") /\ UNCHANGED refund
     \/ ~answered[q] /\ Go(q, "stream", "release") /\ StartRefund(q)
  /\ UNCHANGED <<quotaVars, keyVars, turn, acquired, limit, answered, billed, dbRead, faults>>

\* First the reply, then the marker.
StoreReply(q) ==
  /\ Go(q, "store", "release")
  /\ \/ replies' = replies \cup {turn[q]} /\ UNCHANGED faults
     \/ RedisFails /\ UNCHANGED replies
  /\ UNCHANGED <<quotaVars, markers, turn, acquired, limit, answered, billed, refundVars>>

\* Only who has set the marker deletes it, whoever has set the one that is there.
Release(q) ==
  /\ Go(q, "release", "done")
  /\ \/ acquired[q] /\ markers' = markers \ {turn[q]} /\ UNCHANGED faults
     \/ ~acquired[q] /\ UNCHANGED <<markers, faults>>
     \/ acquired[q] /\ RedisFails /\ UNCHANGED markers
  /\ acquired' = [acquired EXCEPT ![q] = FALSE]
  /\ UNCHANGED <<quotaVars, replies, turn, limit, answered, billed, refundVars>>

-----------------------------------------------------------------------------
(* Refunds, started as goroutines. *)

RefundMoves(q, from, to) == refund[q] = from /\ refund' = [refund EXCEPT ![q] = to]

\* Up to four attempts, repeated also when only the answer was lost.
RefundInDB(q) ==
  /\ \/ /\ used' = IF used > 0 THEN used - 1 ELSE 0
        /\ \/ /\ RefundMoves(q, "db", "redis")
              /\ dbRead' = [dbRead EXCEPT ![q] = used']
              /\ UNCHANGED faults
           \/ /\ RefundMoves(q, "db", "db") \/ RefundMoves(q, "db", "failed")
              /\ AnswerLost /\ UNCHANGED dbRead
     \/ /\ RefundMoves(q, "db", "failed")
        /\ DBFails /\ UNCHANGED <<used, dbRead>>
  /\ UNCHANGED <<cached, keyVars, reqVars>>

\* refundDailyQuotaLua, which answers -1 for a counter that is missing or is -1.
RefundInRedis(q) ==
  /\ \/ /\ cached \in {Absent, -1}
        /\ RefundMoves(q, "redis", "rebuild")
        /\ UNCHANGED <<cached, dbRead, faults>>
     \/ /\ cached \notin {Absent, -1}
        /\ RefundMoves(q, "redis", "done")
        /\ cached' = IF cached > 0 THEN cached - 1 ELSE cached
        /\ dbRead' = [dbRead EXCEPT ![q] = 0]
        /\ UNCHANGED faults
     \/ /\ RefundMoves(q, "redis", "done")
        /\ RedisFails /\ UNCHANGED cached
        /\ dbRead' = [dbRead EXCEPT ![q] = 0]
  /\ UNCHANGED <<used, keyVars, reqVars>>

\* What the database said some time ago.
RebuildCounter(q) ==
  /\ RefundMoves(q, "rebuild", "done")
  /\ \/ cached' = dbRead[q] /\ UNCHANGED faults
     \/ RedisFails /\ UNCHANGED cached
  /\ dbRead' = [dbRead EXCEPT ![q] = 0]
  /\ UNCHANGED <<used, keyVars, reqVars>>

-----------------------------------------------------------------------------
(* The rest of the world. *)

InFlight(q) == place[q] \in {"prepare", "count", "charge", "uncount", "stream", "store", "release"}
MarkedInFlight(t) == \E q \in Requests : InFlight(q) /\ acquired[q] /\ turn[q] = t

\* Mutant: a marker has no time to live.
MarkerStays(t) ==
  /\ t \in markers /\ \E q \in Requests : turn[q] = t /\ place[q] = "done"
  /\ markers' = markers \ {t}
  /\ UNCHANGED <<quotaVars, replies, reqVars, refundVars, faults>>

\* A marker that nobody deleted lives for four minutes.
MarkerExpires(t) ==
  /\ t \in markers /\ ~MarkedInFlight(t)
  /\ markers' = markers \ {t}
  /\ UNCHANGED <<quotaVars, replies, reqVars, refundVars, faults>>

\* Reading the context may take up to three minutes, the stream three more.
MarkerOutlived(t) ==
  /\ CanOutlive /\ t \in markers /\ MarkedInFlight(t)
  /\ markers' = markers \ {t} /\ GoesWrong("outlived")
  /\ UNCHANGED <<quotaVars, replies, reqVars, refundVars>>

ReplyExpires(t) ==
  /\ t \in replies
  /\ replies' = replies \ {t}
  /\ UNCHANGED <<quotaVars, markers, reqVars, refundVars, faults>>

\* Redis comes back empty.
RedisRestarts ==
  /\ RedisFails
  /\ cached' = Absent /\ markers' = {} /\ replies' = {}
  /\ UNCHANGED <<used, reqVars, refundVars>>

\* The process that serves q, or refunds what q was charged, dies.
Crash(q) ==
  /\ CanCrash /\ GoesWrong("crash")
  /\ \/ place[q] \notin {"idle", "done", "dead"}
     \/ refund[q] \in {"db", "redis", "rebuild"}
  /\ place' = [place EXCEPT ![q] = IF @ = "done" THEN "done" ELSE "dead"]
  /\ refund' = [refund EXCEPT ![q] = IF @ \in {"none", "done", "failed"} THEN @ ELSE "lost"]
  /\ acquired' = [acquired EXCEPT ![q] = FALSE] /\ limit' = [limit EXCEPT ![q] = 0]
  /\ dbRead' = [dbRead EXCEPT ![q] = 0]
  /\ UNCHANGED <<quotaVars, keyVars, turn, answered, billed>>

-----------------------------------------------------------------------------
Serve(q) ==
  \/ Lookup(q) \/ Acquire(q) \/ PollReply(q) \/ PollMarker(q) \/ StopWaiting(q)
  \/ Prepare(q) \/ CountInRedis(q) \/ ChargeQuota(q) \/ Uncount(q)
  \/ Chunk(q) \/ Breaks(q) \/ Ends(q) \/ StoreReply(q) \/ Release(q)

Refund(q) == RefundInDB(q) \/ RefundInRedis(q) \/ RebuildCounter(q)

ChatNext ==
  \/ \E q \in Requests : Ask(q) \/ Serve(q) \/ Refund(q) \/ Crash(q)
  \/ \E t \in Turns : MarkerExpires(t) \/ MarkerOutlived(t) \/ ReplyExpires(t)
  \/ RedisRestarts

ChatSpec == ChatInit /\ [][ChatNext]_chatVars

\* Requests are served, goroutines run, and markers have a time to live.
ChatFairness ==
  /\ \A q \in Requests : WF_chatVars(Serve(q)) /\ WF_chatVars(Refund(q))
  /\ \A t \in Turns : WF_chatVars(MarkerExpires(t))

ChatFairSpec == ChatSpec /\ ChatFairness

-----------------------------------------------------------------------------
(* Properties. *)

Places == {"idle", "lookup", "acquire", "poll reply", "poll marker", "prepare", "count",
           "charge", "uncount", "stream", "store", "release", "done", "dead"}
RefundPlaces == {"none", "db", "redis", "rebuild", "done", "failed", "lost"}
FaultKinds == {"redis", "lost", "left", "outlived", "crash"}

\* Every variable has its type, and the charges stay within the larger quota.
ChatTypeOK ==
  /\ used \in 0..VIPQuota /\ cached \in Int \cup {Absent}
  /\ markers \subseteq Turns /\ replies \subseteq Turns
  /\ place \in [Requests -> Places] /\ refund \in [Requests -> RefundPlaces]
  /\ turn \in [Requests -> Turns] /\ acquired \in [Requests -> BOOLEAN]
  /\ limit \in [Requests -> {0, PlainQuota, VIPQuota}]
  /\ answered \in [Requests -> BOOLEAN]
  /\ billed \in [Requests -> BOOLEAN]
  /\ dbRead \in [Requests -> 0..VIPQuota]
  /\ faults \subseteq FaultKinds

\* No two requests generate the same turn at the same time, as long as Redis
\* answers and the marker lives as long as the turn.
OneAtATime ==
  faults \cap {"redis", "outlived"} = {} =>
    \A q, r \in Requests :
      InFlight(q) /\ InFlight(r) /\ turn[q] = turn[r] => q = r

\* Who was charged got an answer or gets the charge back, never both, and who was
\* not charged got none, unless the answer of the database was lost.
PaidIsAnswered ==
  "lost" \notin faults =>
    \A q \in Requests : place[q] \in {"store", "release", "done"} =>
      /\ answered[q] => billed[q]
      /\ billed[q] => (answered[q] <=> refund[q] = "none")

Quiet == \A q \in Requests : /\ place[q] \in {"idle", "done"}
                             /\ refund[q] \in {"none", "done", "failed"}

\* When nothing is under way, both counters are the number of charges that were
\* not given back, unless Redis or a process failed, an answer was lost
\* or a client left before the counter was taken back.
CountersAgree ==
  Quiet /\ faults \cap {"redis", "lost", "left", "crash"} = {} =>
    /\ used = Cardinality({q \in Requests : billed[q] /\ refund[q] # "done"})
    /\ Count(cached) = used

\* Every request is answered, whoever it waits for and whatever fails.
Served == \A q \in Requests : place[q] = "lookup" ~> place[q] \in {"done", "dead"}

\* No turn is blocked for ever, even when who has set the marker has died.
Unblocked == \A t \in Turns : t \in markers ~> t \notin markers
=============================================================================
