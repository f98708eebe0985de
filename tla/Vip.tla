-------------------------------- MODULE Vip --------------------------------
(***************************************************************************)
(* VIP time and the transactions that add to it: backend/internal/vip      *)
(* (service.go) and its queries (db/sqlc/vip.sql).                         *)
(*                                                                         *)
(* A grant is one transaction that ends by adding Duration[g] to the time  *)
(* of User[g]: the delivery of a paid order ("paid"), the claim of a trial *)
(* or free plan ("once"), an invitation reward inside a READ COMMITTED     *)
(* transaction ("days") or inside the REPEATABLE READ one of               *)
(* family/handler.go grantJoinReward, retried on 40001 ("daysRR").         *)
(* Transactions run statement by statement; what they wrote is seen by     *)
(* others at the commit, and the row they hold is locked until then.       *)
(*                                                                         *)
(* Time is in units of the placeholder second; a plan's calendar duration  *)
(* is a number of units.                                                   *)
(***************************************************************************)
EXTENDS Integers

CONSTANTS
  VipUsers, VipPlans,
  Grants,      \* the transactions
  User,        \* [Grants -> VipUsers]
  Kind,        \* [Grants -> Kinds]
  PlanOf,      \* [Grants -> VipPlans], the plan claimed ("paid", "once")
  Duration,    \* [Grants -> Nat \ {0}]; ParseVIPDuration refuses 0
  MaxNow,      \* bound of the clock
  MaxRetries   \* attempts of WithTxDeferrable

Kinds == {"paid", "once", "days", "daysRR"}

ASSUME VipAssumption ==
  /\ User \in [Grants -> VipUsers]
  /\ Kind \in [Grants -> Kinds]
  /\ PlanOf \in [Grants -> VipPlans]
  /\ Duration \in [Grants -> Nat \ {0}]
  /\ MaxNow \in Nat
  /\ MaxRetries \in Nat \ {0}

VARIABLES
  now,          \* the wall clock
  has,          \* users with a user_vips row
  begin,        \* user_vips.begin_time
  expire,       \* user_vips.expire_time
  version,      \* how often the row was written (what a snapshot tells apart)
  claims,       \* user_vip_claims, pairs <<user, plan>>
  stage,        \* position of each grant
  taken,        \* the `now` a grant read before its first statement
  seen,         \* the expire_time it read under the row lock
  inserted,     \* it inserted the placeholder row itself
  claimed,      \* it inserted the claim itself
  snapHas, snapVersion,   \* what the snapshot of a REPEATABLE READ grant holds
  tries,        \* attempts made by a REPEATABLE READ grant
  granted       \* history: time of the committed grants, per user

rowVars  == <<has, begin, expire, version, claims, granted>>
snapVars == <<snapHas, snapVersion, tries>>
grantVars == <<stage, taken, seen, inserted, claimed, snapVars>>
vipVars == <<now, rowVars, grantVars>>

Stages == {"start", "claim", "lock", "insert", "relock", "upsert", "done", "refused", "failed"}
Ended == {"done", "refused", "failed"}

Later(a, b) == IF a > b THEN a ELSE b

-----------------------------------------------------------------------------
\* Row and index locks of transactions that have not ended.
HoldsRow(g) == stage[g] = "upsert" \/ (stage[g] = "relock" /\ inserted[g])
RowFree(g) == \A h \in Grants \ {g} : User[h] = User[g] => ~HoldsRow(h)

\* Mutant: no unique index on user_vip_claims.
ClaimFreeUnchecked(g) == TRUE

ClaimFree(g) ==
  \A h \in Grants \ {g} : claimed[h] => <<User[h], PlanOf[h]>> # <<User[g], PlanOf[g]>>

GrantAt(g, s) == stage' = [stage EXCEPT ![g] = s]

\* The transaction ends and drops its locks and locals.
End(g, s) ==
  /\ GrantAt(g, s)
  /\ taken' = [taken EXCEPT ![g] = 0]
  /\ seen' = [seen EXCEPT ![g] = 0]
  /\ inserted' = [inserted EXCEPT ![g] = FALSE]
  /\ claimed' = [claimed EXCEPT ![g] = FALSE]
  /\ snapHas' = [snapHas EXCEPT ![g] = FALSE]
  /\ snapVersion' = [snapVersion EXCEPT ![g] = 0]

VipInit ==
  /\ now = 0
  /\ has = {}
  /\ begin = [u \in VipUsers |-> 0]
  /\ expire = [u \in VipUsers |-> 0]
  /\ version = [u \in VipUsers |-> 0]
  /\ claims = {}
  /\ stage = [g \in Grants |-> "start"]
  /\ taken = [g \in Grants |-> 0]
  /\ seen = [g \in Grants |-> 0]
  /\ inserted = [g \in Grants |-> FALSE]
  /\ claimed = [g \in Grants |-> FALSE]
  /\ snapHas = [g \in Grants |-> FALSE]
  /\ snapVersion = [g \in Grants |-> 0]
  /\ tries = [g \in Grants |-> 0]
  /\ granted = [u \in VipUsers |-> 0]

Tick ==
  /\ now < MaxNow
  /\ now' = now + 1
  /\ UNCHANGED <<rowVars, grantVars>>

\* `now` is read, and a REPEATABLE READ transaction takes its snapshot.
Start(g) ==
  /\ stage[g] = "start"
  /\ taken' = [taken EXCEPT ![g] = now]
  /\ IF Kind[g] = "daysRR"
       THEN /\ snapHas' = [snapHas EXCEPT ![g] = User[g] \in has]
            /\ snapVersion' = [snapVersion EXCEPT ![g] = version[User[g]]]
            /\ tries' = [tries EXCEPT ![g] = @ + 1]
       ELSE UNCHANGED snapVars
  /\ GrantAt(g, IF Kind[g] \in {"paid", "once"} THEN "claim" ELSE "lock")
  /\ UNCHANGED <<now, rowVars, seen, inserted, claimed>>

\* UpsertVIPClaim: ON CONFLICT DO NOTHING waits for a concurrent insert; a
\* conflict refuses a trial or free plan and lets a paid one through.
Claim(g) ==
  /\ stage[g] = "claim"
  /\ ClaimFree(g)
  /\ \/ /\ <<User[g], PlanOf[g]>> \notin claims
        /\ claimed' = [claimed EXCEPT ![g] = TRUE]
        /\ GrantAt(g, "lock")
        /\ UNCHANGED <<taken, seen, inserted, snapVars>>
     \/ /\ <<User[g], PlanOf[g]>> \in claims
        /\ Kind[g] = "once"
        /\ End(g, "refused")
        /\ UNCHANGED tries
     \/ /\ <<User[g], PlanOf[g]>> \in claims
        /\ Kind[g] # "once"
        /\ GrantAt(g, "lock")
        /\ UNCHANGED <<taken, seen, inserted, claimed, snapVars>>
  /\ UNCHANGED <<now, rowVars>>

\* 40001: WithTxDeferrable starts again, or gives up.
Serialization(g) == End(g, IF tries[g] < MaxRetries THEN "start" ELSE "failed")

\* A REPEATABLE READ grant reads its snapshot, the others what is committed.
Visible(g) == IF Kind[g] = "daysRR" THEN snapHas[g] ELSE User[g] \in has
Changed(g) == Kind[g] = "daysRR" /\ version[User[g]] # snapVersion[g]

\* Mutant: the row is read without FOR UPDATE.
LockRowPlainSelect(g) ==
  /\ stage[g] = "lock"
  /\ \/ /\ ~Visible(g)
        /\ GrantAt(g, "insert")
        /\ UNCHANGED <<taken, seen, inserted, claimed, snapHas, snapVersion>>
     \/ /\ Visible(g)
        /\ ~Changed(g)
        /\ seen' = [seen EXCEPT ![g] = expire[User[g]]]
        /\ GrantAt(g, "upsert")
        /\ UNCHANGED <<taken, inserted, claimed, snapHas, snapVersion>>
     \/ /\ Visible(g)
        /\ Changed(g)
        /\ Serialization(g)
  /\ UNCHANGED <<now, rowVars, tries>>

\* Mutant: a first grant computes from its own clock and lets GREATEST decide.
LockRowNoPlaceholder(g) ==
  /\ stage[g] = "lock"
  /\ \/ /\ ~Visible(g)
        /\ RowFree(g)
        /\ seen' = [seen EXCEPT ![g] = taken[g]]
        /\ GrantAt(g, "upsert")
        /\ UNCHANGED <<taken, inserted, claimed, snapHas, snapVersion>>
     \/ /\ Visible(g)
        /\ RowFree(g)
        /\ ~Changed(g)
        /\ seen' = [seen EXCEPT ![g] = expire[User[g]]]
        /\ GrantAt(g, "upsert")
        /\ UNCHANGED <<taken, inserted, claimed, snapHas, snapVersion>>
     \/ /\ Visible(g)
        /\ RowFree(g)
        /\ Changed(g)
        /\ Serialization(g)
  /\ UNCHANGED <<now, rowVars, tries>>

\* GetUserVIPForUpdate
LockRow(g) ==
  /\ stage[g] = "lock"
  /\ \/ /\ ~Visible(g)
        /\ GrantAt(g, "insert")
        /\ UNCHANGED <<taken, seen, inserted, claimed, snapHas, snapVersion>>
     \/ /\ Visible(g)
        /\ RowFree(g)
        /\ ~Changed(g)
        /\ seen' = [seen EXCEPT ![g] = expire[User[g]]]
        /\ GrantAt(g, "upsert")
        /\ UNCHANGED <<taken, inserted, claimed, snapHas, snapVersion>>
     \/ /\ Visible(g)
        /\ RowFree(g)
        /\ Changed(g)
        /\ Serialization(g)
  /\ UNCHANGED <<now, rowVars, tries>>

\* ClaimUserVIPRow: the placeholder, or nothing if a row was committed.
ClaimRow(g) ==
  /\ stage[g] = "insert"
  /\ RowFree(g)
  /\ \/ /\ User[g] \notin has
        /\ inserted' = [inserted EXCEPT ![g] = TRUE]
        /\ GrantAt(g, "relock")
        /\ UNCHANGED <<taken, seen, claimed, snapHas, snapVersion>>
     \/ /\ User[g] \in has
        /\ Kind[g] # "daysRR"
        /\ GrantAt(g, "relock")
        /\ UNCHANGED <<taken, seen, inserted, claimed, snapHas, snapVersion>>
     \/ /\ User[g] \in has
        /\ Kind[g] = "daysRR"
        /\ Serialization(g)
  /\ UNCHANGED <<now, rowVars, tries>>

\* Mutant: the placeholder already holds the duration that is added to it.
RelockFullPlaceholder(g) ==
  /\ stage[g] = "relock"
  /\ RowFree(g)
  /\ seen' = [seen EXCEPT ![g] = IF inserted[g] THEN taken[g] + Duration[g] ELSE expire[User[g]]]
  /\ GrantAt(g, "upsert")
  /\ UNCHANGED <<now, rowVars, taken, inserted, claimed, snapVars>>

\* GetUserVIPForUpdate again: the own placeholder (one second after `now`) or
\* the row another grant committed.
Relock(g) ==
  /\ stage[g] = "relock"
  /\ RowFree(g)
  /\ seen' = [seen EXCEPT ![g] = IF inserted[g] THEN taken[g] + 1 ELSE expire[User[g]]]
  /\ GrantAt(g, "upsert")
  /\ UNCHANGED <<now, rowVars, taken, inserted, claimed, snapVars>>

\* UpsertUserVIP (GREATEST with what is there) and the commit.
Upsert(g) ==
  LET u == User[g]
      old == IF inserted[g] THEN taken[g] + 1 ELSE expire[u]
  IN  /\ stage[g] = "upsert"
      /\ has' = has \cup {u}
      /\ begin' = [begin EXCEPT ![u] = IF inserted[g] THEN taken[g] ELSE @]
      /\ expire' = [expire EXCEPT ![u] = Later(old, Later(taken[g], seen[g]) + Duration[g])]
      /\ version' = [version EXCEPT ![u] = @ + 1]
      /\ claims' = claims \cup (IF claimed[g] THEN {<<u, PlanOf[g]>>} ELSE {})
      /\ granted' = [granted EXCEPT ![u] = @ + Duration[g]]
      /\ End(g, "done")
      /\ UNCHANGED <<now, tries>>

\* The request is cancelled or the process dies: everything is rolled back.
Abort(g) ==
  /\ stage[g] \notin Ended
  /\ End(g, "failed")
  /\ UNCHANGED <<now, rowVars, tries>>

Statement(g) == Start(g) \/ Claim(g) \/ LockRow(g) \/ ClaimRow(g) \/ Relock(g) \/ Upsert(g)

VipNext == Tick \/ \E g \in Grants : Statement(g) \/ Abort(g)

VipSpec == VipInit /\ [][VipNext]_vipVars

-----------------------------------------------------------------------------
\* Every variable has its type; a retried grant has a bounded number of tries.
VipTypeOK ==
  /\ now \in Nat
  /\ has \subseteq VipUsers
  /\ begin \in [VipUsers -> Nat]
  /\ expire \in [VipUsers -> Nat]
  /\ version \in [VipUsers -> Nat]
  /\ claims \subseteq VipUsers \X VipPlans
  /\ stage \in [Grants -> Stages]
  /\ taken \in [Grants -> Nat]
  /\ seen \in [Grants -> Nat]
  /\ inserted \in [Grants -> BOOLEAN]
  /\ claimed \in [Grants -> BOOLEAN]
  /\ snapHas \in [Grants -> BOOLEAN]
  /\ snapVersion \in [Grants -> Nat]
  /\ tries \in [Grants -> 0..MaxRetries]
  /\ granted \in [VipUsers -> Nat]

\* D6, VP-P2-02: no committed grant is swallowed by a concurrent one.  From
\* begin_time to expire_time a user has at least the sum of all grants.
NothingLost == \A u \in has : expire[u] - begin[u] >= granted[u]

\* No grant is counted twice: the time a user has left never exceeds the sum
\* of the grants, by more than the second of the placeholder.
NothingInvented == \A u \in has : expire[u] <= now + granted[u] + 1

\* Each grant counts in full where it commits: from the expire_time of that
\* moment (not the one it read), or from the time the request started if the
\* VIP had run out, and never by more than the placeholder's second.
Base(g) == IF User[g] \in has THEN Later(expire[User[g]], taken[g]) ELSE taken[g]
Counts(g) ==
  stage[g] # "done" /\ stage'[g] = "done" =>
    expire'[User[g]] \in {Base(g) + Duration[g], Base(g) + Duration[g] + 1}
EveryGrantCounts == [][\A g \in Grants : Counts(g)]_vipVars

\* D7: of all the claims of one trial or free plan by one user, sequential or
\* concurrent, at most one delivers.
OncePerUser ==
  \A g, h \in Grants :
    /\ g # h
    /\ Kind[g] = "once" /\ Kind[h] = "once"
    /\ <<User[g], PlanOf[g]>> = <<User[h], PlanOf[h]>>
    => ~(stage[g] = "done" /\ stage[h] = "done")
=============================================================================
