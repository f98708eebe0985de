------------------------------ MODULE Payment ------------------------------
(***************************************************************************)
(* VIP orders and their settlement: backend/internal/payment (service.go,  *)
(* handler.go), the order queries (db/sqlc/order.sql), the order-close job *)
(* (jobs/runner.go) and the part of account deletion that touches orders   *)
(* (family/service.go DeleteAccount).                                      *)
(*                                                                         *)
(* A callback is handled by a goroutine (a member of Workers) in the SQL   *)
(* statements of one READ COMMITTED transaction; every statement is an     *)
(* action, and what a transaction wrote is visible to others at its commit.*)
(* A row a transaction wrote is locked until it ends: Holding(w) says that *)
(* worker w holds the row of ord[w].  WeChat is external: it charges the   *)
(* buyer at any time once the payment parameters are out, pushes the       *)
(* notification, repeats it as often as it likes and keeps repeating it    *)
(* until it gets a 200.                                                    *)
(*                                                                         *)
(* Abstracted: amounts (any positive amount is delivered), the signature   *)
(* and decryption of the body, and the rejected payloads (no state change).*)
(***************************************************************************)
EXTENDS Naturals, FiniteSets

CONSTANTS
  Users,       \* user ids
  Orders,      \* out_trade_no values (32 random characters, never reused)
  Plans,       \* ids of the paid VIP plans
  Plan,        \* [Orders -> Plans], the plan an order is created for
  Txns,        \* WeChat transaction ids
  Workers,     \* goroutines that handle callbacks at the same time
  NoUser,      \* SQL NULL in orders.user_id
  NoTxn,       \* SQL NULL in orders.transaction_id
  NoOrder,     \* an idle worker handles no order
  MaxCrashes   \* bound: how often a worker or a deletion is cut off

ASSUME PaymentAssumption ==
  /\ Plan \in [Orders -> Plans]
  /\ NoUser \notin Users
  /\ NoTxn \notin Txns
  /\ NoOrder \notin Orders
  /\ MaxCrashes \in Nat

VARIABLES
  users,       \* the users rows
  ostate,      \* orders.state; "none": no such row yet
  ouser,       \* orders.user_id
  otxn,        \* orders.transaction_id
  oage,        \* age of the row: "fresh", "stale" (> 5 min), "expired" (> 24 h)
  signing,     \* orders committed whose pay parameters are being signed
  offered,     \* orders whose pay parameters reached the client
  charged,     \* WeChat: the transaction that collected the order's money
  acked,       \* WeChat: the push of the order was answered with 200
  pc, ord, snapGone, curUser,   \* the workers: position, order, isUserDeleted,
                                \* currentOrder.UserID
  listed,      \* order-close job: the (out_trade_no, user_id) pairs it listed
  del,         \* account deletions: "none", "open", "nullified"
  delStale,    \* a row the open deletion saw or must cascade to has changed
  deliveries,  \* history: committed VIP activations per order
  crashes

orderVars  == <<ostate, ouser, otxn>>
clientVars == <<oage, signing, offered>>
wechatVars == <<charged, acked>>
workerVars == <<pc, ord, snapGone, curUser>>
delVars    == <<users, del, delStale>>
vars == <<orderVars, clientVars, wechatVars, workerVars, delVars,
          listed, deliveries, crashes>>

States   == {"none", "pending", "paid", "closed"}
Ages     == {"fresh", "stale", "expired"}
Steps    == {"idle", "begin", "update", "reread", "markClosed",
             "activate", "commit", "commitSkipped", "reply"}
DelSteps == {"none", "open", "nullified"}

-----------------------------------------------------------------------------
\* Locks.  A worker past its UPDATE owns the row of its order until it ends.
Holding(w) == pc[w] \in {"activate", "commit", "commitSkipped"}

OrderLocked(o) ==
  \/ \E w \in Workers : Holding(w) /\ ord[w] = o
  \/ ouser[o] \in Users /\ del[ouser[o]] = "nullified"

\* Rows of the orders S are committed: a deletion that is open on an older
\* snapshot of them will fail with 40001.
Touch(S) ==
  delStale' = [u \in Users |-> delStale[u] \/ (del[u] # "none" /\ \E o \in S : ouser[o] = u)]

\* CloseOrder, CloseOrdersBatch and ClosePendingOrdersByUserAndVIP all close
\* by a conditional UPDATE of one statement: it waits for the row locks and
\* only touches rows that are still pending.
ClosePending(S) ==
  LET P == {o \in S : ostate[o] = "pending"}
  IN  /\ \A o \in P : ~OrderLocked(o)
      /\ ostate' = [o \in Orders |-> IF o \in P THEN "closed" ELSE ostate[o]]
      /\ Touch(P)

-----------------------------------------------------------------------------
Init ==
  /\ users = Users
  /\ ostate = [o \in Orders |-> "none"]
  /\ ouser = [o \in Orders |-> NoUser]
  /\ otxn = [o \in Orders |-> NoTxn]
  /\ oage = [o \in Orders |-> "fresh"]
  /\ signing = {}
  /\ offered = {}
  /\ charged = [o \in Orders |-> NoTxn]
  /\ acked = {}
  /\ pc = [w \in Workers |-> "idle"]
  /\ ord = [w \in Workers |-> NoOrder]
  /\ snapGone = [w \in Workers |-> FALSE]
  /\ curUser = [w \in Workers |-> NoUser]
  /\ listed = {}
  /\ del = [u \in Users |-> "none"]
  /\ delStale = [u \in Users |-> FALSE]
  /\ deliveries = [o \in Orders |-> 0]
  /\ crashes = 0

(***************************************************************************)
(* Client requests                                                         *)
(***************************************************************************)
\* The user's pending orders of the same plan older than five minutes.
Superseded(o, u) ==
  {p \in Orders : /\ ostate[p] = "pending" /\ ouser[p] = u
                  /\ Plan[p] = Plan[o] /\ oage[p] # "fresh"}

CreateOrder(o, u) ==
  /\ ostate[o] = "none"
  /\ u \in users
  /\ \A p \in Superseded(o, u) : ~OrderLocked(p)
  /\ ostate' = [p \in Orders |-> IF p = o THEN "pending"
                                 ELSE IF p \in Superseded(o, u) THEN "closed" ELSE ostate[p]]
  /\ ouser' = [ouser EXCEPT ![o] = u]
  /\ delStale' = [delStale EXCEPT ![u] = @ \/ del[u] # "none"]
  /\ signing' = signing \cup {o}
  /\ UNCHANGED <<otxn, oage, offered, wechatVars, workerVars, users, del, listed,
                 deliveries, crashes>>

\* wechat.Request signs the parameters and the client receives them.
SignSucceeds(o) ==
  /\ o \in signing
  /\ signing' = signing \ {o}
  /\ offered' = offered \cup {o}
  /\ UNCHANGED <<orderVars, oage, wechatVars, workerVars, delVars, listed, deliveries, crashes>>

\* Signing fails (no session key, no user row any more): the order is closed.
SignFails(o) ==
  /\ o \in signing
  /\ signing' = signing \ {o}
  /\ IF ouser[o] # NoUser /\ ostate[o] = "pending"
       THEN ClosePending({o})
       ELSE UNCHANGED <<ostate, delStale>>
  /\ UNCHANGED <<ouser, otxn, oage, offered, wechatVars, workerVars, users, del, listed,
                 deliveries, crashes>>

\* The owner cancels; an order that is not pending is left as it is.
Cancel(o) ==
  /\ ouser[o] # NoUser
  /\ ostate[o] = "pending"
  /\ ClosePending({o})
  /\ UNCHANGED <<ouser, otxn, clientVars, wechatVars, workerVars, users, del, listed,
                 deliveries, crashes>>

Age(o) ==
  /\ ostate[o] = "pending"
  /\ \/ oage[o] = "fresh" /\ oage' = [oage EXCEPT ![o] = "stale"]
     \/ oage[o] = "stale" /\ oage' = [oage EXCEPT ![o] = "expired"]
  /\ UNCHANGED <<orderVars, signing, offered, wechatVars, workerVars, delVars, listed,
                 deliveries, crashes>>

(***************************************************************************)
(* The order-close job lists, then closes what it listed                   *)
(***************************************************************************)
JobList ==
  /\ listed = {}
  /\ LET L == {o \in Orders : ostate[o] = "pending" /\ oage[o] = "expired" /\ ouser[o] # NoUser}
     IN  L # {} /\ listed' = {<<o, ouser[o]>> : o \in L}
  /\ UNCHANGED <<orderVars, clientVars, wechatVars, workerVars, delVars, deliveries, crashes>>

\* CloseOrdersBatch pairs each out_trade_no with the user_id it was listed with.
JobClose ==
  /\ listed # {}
  /\ LET S == {o \in Orders : ouser[o] # NoUser /\ <<o, ouser[o]>> \in listed}
     IN  ClosePending(S)
  /\ listed' = {}
  /\ UNCHANGED <<ouser, otxn, clientVars, wechatVars, workerVars, users, del, deliveries, crashes>>

(***************************************************************************)
(* WeChat                                                                  *)
(***************************************************************************)
Charge(o, t) ==
  /\ o \in offered
  /\ charged[o] = NoTxn
  /\ charged' = [charged EXCEPT ![o] = t]
  /\ UNCHANGED <<orderVars, clientVars, acked, workerVars, delVars, listed, deliveries, crashes>>

\* A push reaches a worker; a push that was answered may still be repeated.
Push(w, o) ==
  /\ charged[o] # NoTxn
  /\ pc[w] = "idle"
  /\ pc' = [pc EXCEPT ![w] = "begin"]
  /\ ord' = [ord EXCEPT ![w] = o]
  /\ UNCHANGED <<orderVars, clientVars, wechatVars, snapGone, curUser, delVars, listed,
                 deliveries, crashes>>

(***************************************************************************)
(* handleNotify, statement by statement                                    *)
(***************************************************************************)
Goto(w, s) == pc' = [pc EXCEPT ![w] = s]

\* A worker that is done, or was rolled back, forgets its locals.
Leave(w) ==
  /\ pc' = [pc EXCEPT ![w] = "idle"]
  /\ ord' = [ord EXCEPT ![w] = NoOrder]
  /\ snapGone' = [snapGone EXCEPT ![w] = FALSE]
  /\ curUser' = [curUser EXCEPT ![w] = NoUser]

\* currentOrder is read inside the transaction: isUserDeleted comes from here.
ReadOrder(w) ==
  /\ pc[w] = "begin"
  /\ snapGone' = [snapGone EXCEPT ![w] = ouser[ord[w]] = NoUser]
  /\ curUser' = [curUser EXCEPT ![w] = ouser[ord[w]]]
  /\ Goto(w, "update")
  /\ UNCHANGED <<orderVars, clientVars, wechatVars, ord, delVars, listed, deliveries, crashes>>

\* Mutant: transaction_id without a unique index.
TxnInUseUnchecked(w) == FALSE

\* The unique index on transaction_id makes a writer wait for a transaction
\* that is writing the same value, and fail if it is already committed.
TxnInUse(w) == \E p \in Orders \ {ord[w]} : otxn[p] = charged[ord[w]]
TxnBeingWritten(w) ==
  \E v \in Workers \ {w} : Holding(v) /\ charged[ord[v]] = charged[ord[w]]

\* An UPDATE that finds its row waits for the row lock and checks the WHERE
\* clause again; one that does not find it returns 0 rows at once.
CanWrite(w) == ~OrderLocked(ord[w]) /\ ~TxnBeingWritten(w)

\* Mutant: 0 rows are taken for a repeated push and answered at once.
UpdateOrderPaidNoReread(w) ==
  /\ pc[w] = "update"
  /\ \/ /\ ostate[ord[w]] # "pending"
        /\ Goto(w, "reply")
     \/ /\ ostate[ord[w]] = "pending"
        /\ CanWrite(w)
        /\ Goto(w, IF TxnInUse(w) THEN "reply"
                   ELSE IF snapGone[w] THEN "commitSkipped" ELSE "activate")
  /\ UNCHANGED <<orderVars, clientVars, wechatVars, ord, snapGone, curUser, delVars, listed,
                 deliveries, crashes>>

UpdateOrderPaid(w) ==
  /\ pc[w] = "update"
  /\ \/ /\ ostate[ord[w]] # "pending"
        /\ Goto(w, "reread")
     \/ /\ ostate[ord[w]] = "pending"
        /\ CanWrite(w)
        /\ Goto(w, IF TxnInUse(w) THEN "reply"
                   ELSE IF snapGone[w] THEN "commitSkipped" ELSE "activate")
  /\ UNCHANGED <<orderVars, clientVars, wechatVars, ord, snapGone, curUser, delVars, listed,
                 deliveries, crashes>>

\* Mutant: money that arrives for a closed order is ignored.
RereadOrderIgnoresClosed(w) ==
  /\ pc[w] = "reread"
  /\ curUser' = [curUser EXCEPT ![w] = ouser[ord[w]]]
  /\ Goto(w, "reply")
  /\ UNCHANGED <<orderVars, clientVars, wechatVars, ord, snapGone, delVars, listed,
                 deliveries, crashes>>

\* rows == 0: currentOrder is read again; isUserDeleted is not recomputed.
RereadOrder(w) ==
  /\ pc[w] = "reread"
  /\ curUser' = [curUser EXCEPT ![w] = ouser[ord[w]]]
  /\ Goto(w, IF ostate[ord[w]] = "closed" /\ ~snapGone[w] THEN "markClosed" ELSE "reply")
  /\ UNCHANGED <<orderVars, clientVars, wechatVars, ord, snapGone, delVars, listed,
                 deliveries, crashes>>

\* Mutant: the UPDATE of a closed order has no condition on its state.
MarkClosedOrderPaidUnconditional(w) ==
  /\ pc[w] = "markClosed"
  /\ CanWrite(w)
  /\ Goto(w, IF TxnInUse(w) THEN "reply" ELSE "activate")
  /\ UNCHANGED <<orderVars, clientVars, wechatVars, ord, snapGone, curUser, delVars, listed,
                 deliveries, crashes>>

MarkClosedOrderPaid(w) ==
  /\ pc[w] = "markClosed"
  /\ \/ /\ ostate[ord[w]] # "closed"
        /\ Goto(w, "reply")
     \/ /\ ostate[ord[w]] = "closed"
        /\ CanWrite(w)
        /\ Goto(w, IF TxnInUse(w) THEN "reply" ELSE "activate")
  /\ UNCHANGED <<orderVars, clientVars, wechatVars, ord, snapGone, curUser, delVars, listed,
                 deliveries, crashes>>

\* ActivateVIPWithTx: the claim and the user_vips row refer to the users row,
\* which is then locked (FOR KEY SHARE) until the transaction ends.
ActivateVIP(w) ==
  /\ pc[w] = "activate"
  /\ curUser[w] \in users
  /\ Goto(w, "commit")
  /\ UNCHANGED <<orderVars, clientVars, wechatVars, ord, snapGone, curUser, delVars, listed,
                 deliveries, crashes>>

\* Foreign key violation: rolled back, answered with 500, WeChat will retry.
ActivateVIPFails(w) ==
  /\ pc[w] = "activate"
  /\ curUser[w] \notin users
  /\ Leave(w)
  /\ UNCHANGED <<orderVars, clientVars, wechatVars, delVars, listed, deliveries, crashes>>

\* Mutant: the goods of a deleted account are delivered all the same.
CommitDeliversToGone(w) ==
  /\ pc[w] \in {"commit", "commitSkipped"}
  /\ ostate' = [ostate EXCEPT ![ord[w]] = "paid"]
  /\ otxn' = [otxn EXCEPT ![ord[w]] = charged[ord[w]]]
  /\ deliveries' = [deliveries EXCEPT ![ord[w]] = @ + 1]
  /\ Touch({ord[w]})
  /\ Goto(w, "reply")
  /\ UNCHANGED <<ouser, clientVars, wechatVars, ord, snapGone, curUser, users, del, listed, crashes>>

\* The transaction commits, with an activation or (owner gone) without.
Commit(w) ==
  /\ pc[w] \in {"commit", "commitSkipped"}
  /\ ostate' = [ostate EXCEPT ![ord[w]] = "paid"]
  /\ otxn' = [otxn EXCEPT ![ord[w]] = charged[ord[w]]]
  /\ deliveries' = [deliveries EXCEPT ![ord[w]] = @ + (IF pc[w] = "commit" THEN 1 ELSE 0)]
  /\ Touch({ord[w]})
  /\ Goto(w, "reply")
  /\ UNCHANGED <<ouser, clientVars, wechatVars, ord, snapGone, curUser, users, del, listed, crashes>>

\* The handler answers 200; the answer may be lost on its way (then: Crash).
Reply(w) ==
  /\ pc[w] = "reply"
  /\ acked' = acked \cup {ord[w]}
  /\ Leave(w)
  /\ UNCHANGED <<orderVars, clientVars, charged, delVars, listed, deliveries, crashes>>

(***************************************************************************)
(* DeleteAccount, a REPEATABLE READ transaction retried on 40001           *)
(***************************************************************************)
DeleteBegin(u) ==
  /\ u \in users
  /\ del[u] = "none"
  /\ del' = [del EXCEPT ![u] = "open"]
  /\ delStale' = [delStale EXCEPT ![u] = FALSE]
  /\ UNCHANGED <<orderVars, clientVars, wechatVars, workerVars, users, listed, deliveries, crashes>>

OrdersOf(u) == {o \in Orders : ouser[o] = u}

DeleteAborts(u) ==
  /\ del' = [del EXCEPT ![u] = "none"]
  /\ delStale' = [delStale EXCEPT ![u] = FALSE]
  /\ UNCHANGED <<users, ouser>>

\* NullifyOrdersByUser waits for the rows; a row changed since the snapshot
\* is a serialization failure.
NullifyOrders(u) ==
  /\ del[u] = "open"
  /\ \A o \in OrdersOf(u) : ~OrderLocked(o)
  /\ IF delStale[u]
       THEN DeleteAborts(u)
       ELSE del' = [del EXCEPT ![u] = "nullified"] /\ UNCHANGED <<users, ouser, delStale>>
  /\ UNCHANGED <<ostate, otxn, clientVars, wechatVars, workerVars, listed, deliveries, crashes>>

\* DeleteUser waits for transactions that refer to the users row, cascades
\* and commits; a row inserted meanwhile is a serialization failure.
DeleteCommit(u) ==
  /\ del[u] = "nullified"
  /\ ~\E w \in Workers : pc[w] = "commit" /\ curUser[w] = u
  /\ IF delStale[u]
       THEN DeleteAborts(u)
       ELSE /\ users' = users \ {u}
            /\ ouser' = [o \in Orders |-> IF ouser[o] = u THEN NoUser ELSE ouser[o]]
            /\ del' = [del EXCEPT ![u] = "none"]
            /\ UNCHANGED delStale
  /\ UNCHANGED <<ostate, otxn, clientVars, wechatVars, workerVars, listed, deliveries, crashes>>

(***************************************************************************)
(* Crashes: what was not committed is rolled back                          *)
(***************************************************************************)
CrashWorker(w) ==
  /\ crashes < MaxCrashes
  /\ pc[w] # "idle"
  /\ crashes' = crashes + 1
  /\ Leave(w)
  /\ UNCHANGED <<orderVars, clientVars, wechatVars, delVars, listed, deliveries>>

CrashDelete(u) ==
  /\ crashes < MaxCrashes
  /\ del[u] # "none"
  /\ crashes' = crashes + 1
  /\ DeleteAborts(u)
  /\ UNCHANGED <<ostate, otxn, clientVars, wechatVars, workerVars, listed, deliveries>>

-----------------------------------------------------------------------------
WorkerStep(w) ==
  \/ ReadOrder(w) \/ UpdateOrderPaid(w) \/ RereadOrder(w) \/ MarkClosedOrderPaid(w)
  \/ ActivateVIP(w) \/ ActivateVIPFails(w) \/ Commit(w) \/ Reply(w)

DeleteStep(u) == NullifyOrders(u) \/ DeleteCommit(u)

Next ==
  \/ \E o \in Orders, u \in Users : CreateOrder(o, u)
  \/ \E o \in Orders : SignSucceeds(o) \/ SignFails(o) \/ Cancel(o) \/ Age(o)
  \/ JobList
  \/ JobClose
  \/ \E o \in Orders, t \in Txns : Charge(o, t)
  \/ \E w \in Workers, o \in Orders : Push(w, o)
  \/ \E w \in Workers : WorkerStep(w) \/ CrashWorker(w)
  \/ \E u \in Users : DeleteBegin(u) \/ DeleteStep(u) \/ CrashDelete(u)

Spec == Init /\ [][Next]_vars

\* WeChat goes on pushing orders it got no 200 for, the process runs its
\* goroutines, and PostgreSQL lets a deletion that can go on do so.  SF for the
\* pushes: repetitions of others may keep the workers busy in between.
RetryPush(o) == o \notin acked /\ \E w \in Workers : Push(w, o)

Fairness ==
  /\ SF_vars(\E o \in Orders : RetryPush(o))
  /\ \A w \in Workers : WF_vars(WorkerStep(w))
  /\ \A u \in Users : WF_vars(DeleteStep(u))

FairSpec == Spec /\ Fairness

-----------------------------------------------------------------------------
(***************************************************************************)
(* Properties                                                              *)
(***************************************************************************)
\* Every variable has its type.
TypeOK ==
  /\ users \subseteq Users
  /\ ostate \in [Orders -> States]
  /\ ouser \in [Orders -> Users \cup {NoUser}]
  /\ otxn \in [Orders -> Txns \cup {NoTxn}]
  /\ oage \in [Orders -> Ages]
  /\ signing \subseteq Orders
  /\ offered \subseteq Orders
  /\ charged \in [Orders -> Txns \cup {NoTxn}]
  /\ acked \subseteq Orders
  /\ pc \in [Workers -> Steps]
  /\ ord \in [Workers -> Orders \cup {NoOrder}]
  /\ snapGone \in [Workers -> BOOLEAN]
  /\ curUser \in [Workers -> Users \cup {NoUser}]
  /\ listed \subseteq Orders \X Users
  /\ del \in [Users -> DelSteps]
  /\ delStale \in [Users -> BOOLEAN]
  /\ deliveries \in [Orders -> Nat]
  /\ crashes \in 0..MaxCrashes

\* I5 and D3: a paid order has been delivered exactly once, unless its owner
\* deleted the account, and an order that is not paid was never delivered;
\* whatever the interleaving of repeated pushes, cancel, order-close job,
\* re-ordering of the plan, account deletion and crashes.
PaidIsDeliveredOnce ==
  \A o \in Orders :
    /\ ostate[o] = "paid" => deliveries[o] = 1 \/ (deliveries[o] = 0 /\ ouser[o] = NoUser)
    /\ ostate[o] # "paid" => deliveries[o] = 0

\* A 200 ends WeChat's retries, so it is only given when nothing is lost by
\* it: the order is paid, or its owner is gone, or another order was paid
\* with the same transaction (the 23505 rejection).
AckedIsSettled ==
  \A o \in acked :
    \/ ostate[o] = "paid"
    \/ ouser[o] = NoUser
    \/ \E p \in Orders \ {o} : ostate[p] = "paid" /\ otxn[p] = charged[o]

\* One WeChat transaction pays at most one order, and it is the transaction
\* that collected the money of that order, however pushes interleave.
OneOrderPerTransaction ==
  \A o \in Orders : ostate[o] = "paid" =>
    /\ otxn[o] = charged[o]
    /\ \A p \in Orders \ {o} : ostate[p] = "paid" => otxn[p] # otxn[o]

\* The component implements Entitlement: at most one settlement per order, by
\* delivery to an existing owner or, only if the account is gone, without.
Promise == INSTANCE Entitlement
             WITH delivered <- deliveries,
                  forfeited <- {o \in Orders : ostate[o] = "paid" /\ deliveries[o] = 0},
                  orphaned  <- {o \in Orders : ostate[o] # "none" /\ ouser[o] = NoUser}
ImplementsEntitlement == Promise!Spec

\* Money that was collected is never stranded: once charged, an order is
\* eventually paid unless its owner deletes the account or the transaction
\* was already used for another order.
Settled(o) ==
  \/ ostate[o] = "paid"
  \/ ouser[o] = NoUser
  \/ \E p \in Orders \ {o} : otxn[p] = charged[o]
ChargedIsSettled == \A o \in Orders : charged[o] # NoTxn ~> Settled(o)
=============================================================================
