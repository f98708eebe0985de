--------------------------- MODULE PaymentProofs ---------------------------
(***************************************************************************)
(* Proofs about what is paid and what is delivered: Payment, for any       *)
(* number of users, orders, transactions and workers, with its refinement  *)
(* of Entitlement; Vip, for any number of users, plans and grants; and     *)
(* ChatTurn, for any number of requests, turns and faults.                 *)
(***************************************************************************)
EXTENDS Payment, Vip, ChatTurn, FiniteSetTheorems, TLAPS

-----------------------------------------------------------------------------
(***************************************************************************)
(* Orders                                                                  *)
(*                                                                         *)
(* None of the invariants is inductive alone.  IInv adds what the code     *)
(* relies on between two statements: which row a worker holds, that the    *)
(* owner it read is still the owner or is gone for good, and that a        *)
(* transaction id is reserved by whoever is about to write it.             *)
(***************************************************************************)
\* Orders come into being once, are offered, then charged, then pushed.
Lifecycle ==
  /\ \A o \in Orders : ostate[o] = "none" => ouser[o] = NoUser
  /\ \A o \in signing \cup offered : ostate[o] # "none"
  /\ \A o \in Orders : charged[o] # NoTxn => o \in offered
  /\ \A w \in Workers : pc[w] # "idle" => ord[w] \in Orders /\ charged[ord[w]] # NoTxn
  /\ \A o \in acked : charged[o] # NoTxn

\* A row has one writer, which found it unpaid and keeps it so; a deletion
\* that has nullified the orders of its user shares none of them.
RowLocks ==
  /\ \A w, v \in Workers : Holding(w) /\ Holding(v) /\ ord[w] = ord[v] => w = v
  /\ \A w \in Workers : Holding(w) => ostate[ord[w]] \in {"pending", "closed"}
  /\ \A w \in Workers : Holding(w) /\ ouser[ord[w]] \in Users => del[ouser[ord[w]]] # "nullified"

\* The owner a worker remembers is the owner, or has been deleted since.
Owners ==
  /\ \A o \in Orders : ouser[o] # NoUser => ouser[o] \in users
  /\ \A w \in Workers : pc[w] \notin {"idle", "begin"} /\ curUser[w] # NoUser =>
       \/ ouser[ord[w]] = curUser[w]
       \/ ouser[ord[w]] = NoUser /\ curUser[w] \notin users
  /\ \A w \in Workers : pc[w] \notin {"idle", "begin"} /\ snapGone[w] => ouser[ord[w]] = NoUser
  /\ \A w \in Workers : pc[w] = "commitSkipped" => snapGone[w]
  /\ \A w \in Workers : pc[w] = "commit" => curUser[w] \in Users /\ ouser[ord[w]] = curUser[w]
  /\ \A w \in Workers : pc[w] \in {"reread", "markClosed"} => ostate[ord[w]] \in {"paid", "closed"}

\* A transaction id that is written, or about to be, belongs to one order.
TxnOwnership ==
  /\ \A o \in Orders : otxn[o] = (IF ostate[o] = "paid" THEN charged[o] ELSE NoTxn)
  /\ \A o \in Orders : ostate[o] = "paid" => charged[o] # NoTxn
  /\ \A o, p \in Orders : ostate[o] = "paid" /\ ostate[p] = "paid" /\ o # p => otxn[o] # otxn[p]
  /\ \A w \in Workers : Holding(w) => \A p \in Orders \ {ord[w]} : otxn[p] # charged[ord[w]]
  /\ \A w, v \in Workers : Holding(w) /\ Holding(v) /\ w # v => charged[ord[w]] # charged[ord[v]]

\* What a 200 stands for; true of an order from the moment a worker decides
\* to answer it.
Answerable(o) ==
  \/ ostate[o] = "paid"
  \/ ouser[o] = NoUser
  \/ \E p \in Orders \ {o} : ostate[p] = "paid" /\ otxn[p] = charged[o]

Answers ==
  /\ \A o \in acked : Answerable(o)
  /\ \A w \in Workers : pc[w] = "reply" => Answerable(ord[w])

IInv ==
  /\ TypeOK
  /\ Lifecycle
  /\ RowLocks
  /\ Owners
  /\ TxnOwnership
  /\ Answers
  /\ PaidIsDeliveredOnce

-----------------------------------------------------------------------------
(***************************************************************************)
(* IInv holds initially and every step preserves each of its parts.        *)
(***************************************************************************)
\* No order exists and every worker is idle.
LEMMA InitIInv == Init => IInv
  BY PaymentAssumption
     DEF Init, IInv, TypeOK, States, Ages, Steps, DelSteps, Lifecycle, RowLocks, Owners,
         TxnOwnership, Answers, PaidIsDeliveredOnce, Holding

\* Every statement, request and crash keeps every variable in its type.
LEMMA NextTypeOK == IInv /\ [Next]_vars => TypeOK'
  <1> SUFFICES ASSUME IInv, [Next]_vars PROVE TypeOK'
    OBVIOUS
  <1> USE PaymentAssumption DEF IInv, TypeOK, Lifecycle, States, Ages, Steps, DelSteps, orderVars, clientVars, wechatVars, workerVars, delVars
  <1>1. ASSUME NEW o \in Orders, NEW u \in Users, CreateOrder(o, u) PROVE TypeOK'
    BY <1>1 DEF CreateOrder, Superseded
  <1>2. ASSUME NEW o \in Orders, SignSucceeds(o) PROVE TypeOK'
    BY <1>2 DEF SignSucceeds
  <1>3. ASSUME NEW o \in Orders, SignFails(o) PROVE TypeOK'
    <2>1. /\ signing' \subseteq Orders
          /\ UNCHANGED <<ouser, otxn, oage, offered, wechatVars, workerVars, users, del, listed,
                        deliveries, crashes>>
      BY <1>3 DEF SignFails
    <2>2. ostate' \in [Orders -> States] /\ delStale' \in [Users -> BOOLEAN]
      <3>1. CASE ClosePending({o})
        BY <3>1 DEF ClosePending, Touch
      <3>2. CASE UNCHANGED <<ostate, delStale>>
        BY <3>2
      <3>3. QED
        BY <1>3, <3>1, <3>2 DEF SignFails
    <2>3. QED
      BY <2>1, <2>2
  <1>4. ASSUME NEW o \in Orders, Cancel(o) PROVE TypeOK'
    BY <1>4 DEF Cancel, ClosePending, Touch
  <1>5. ASSUME NEW o \in Orders, Age(o) PROVE TypeOK'
    BY <1>5 DEF Age
  <1>6. CASE JobList
    BY <1>6 DEF JobList
  <1>7. CASE JobClose
    BY <1>7 DEF JobClose, ClosePending, Touch
  <1>8. ASSUME NEW o \in Orders, NEW t \in Txns, Charge(o, t) PROVE TypeOK'
    BY <1>8 DEF Charge
  <1>9. ASSUME NEW w \in Workers, NEW o \in Orders, Push(w, o) PROVE TypeOK'
    BY <1>9 DEF Push
  <1>10. ASSUME NEW w \in Workers, ReadOrder(w) PROVE TypeOK'
    BY <1>10 DEF ReadOrder, Goto
  <1>11. ASSUME NEW w \in Workers, UpdateOrderPaid(w) PROVE TypeOK'
    BY <1>11 DEF UpdateOrderPaid, CanWrite, TxnInUse, TxnBeingWritten, Goto
  <1>12. ASSUME NEW w \in Workers, RereadOrder(w) PROVE TypeOK'
    BY <1>12 DEF RereadOrder, Goto
  <1>13. ASSUME NEW w \in Workers, MarkClosedOrderPaid(w) PROVE TypeOK'
    BY <1>13 DEF MarkClosedOrderPaid, CanWrite, TxnInUse, TxnBeingWritten, Goto
  <1>14. ASSUME NEW w \in Workers, ActivateVIP(w) PROVE TypeOK'
    BY <1>14 DEF ActivateVIP, Goto
  <1>15. ASSUME NEW w \in Workers, ActivateVIPFails(w) PROVE TypeOK'
    BY <1>15 DEF ActivateVIPFails, Leave
  <1>16. ASSUME NEW w \in Workers, Commit(w) PROVE TypeOK'
    BY <1>16 DEF Commit, Touch, Goto
  <1>17. ASSUME NEW w \in Workers, Reply(w) PROVE TypeOK'
    BY <1>17 DEF Reply, Leave
  <1>18. ASSUME NEW w \in Workers, CrashWorker(w) PROVE TypeOK'
    BY <1>18 DEF CrashWorker, Leave
  <1>19. ASSUME NEW u \in Users, DeleteBegin(u) PROVE TypeOK'
    BY <1>19 DEF DeleteBegin
  <1>20. ASSUME NEW u \in Users, NullifyOrders(u) PROVE TypeOK'
    <2>1. CASE DeleteAborts(u)
      <3>1. UNCHANGED <<ostate, otxn, clientVars, wechatVars, workerVars, listed, deliveries, crashes>>
        BY <1>20 DEF NullifyOrders
      <3>2. QED
        BY <2>1, <3>1 DEF DeleteAborts
    <2>2. CASE ~DeleteAborts(u)
      BY <1>20, <2>2 DEF NullifyOrders
    <2>3. QED
      BY <2>1, <2>2
  <1>21. ASSUME NEW u \in Users, DeleteCommit(u) PROVE TypeOK'
    <2>1. CASE DeleteAborts(u)
      <3>1. UNCHANGED <<ostate, otxn, clientVars, wechatVars, workerVars, listed, deliveries, crashes>>
        BY <1>21 DEF DeleteCommit
      <3>2. QED
        BY <2>1, <3>1 DEF DeleteAborts
    <2>2. CASE ~DeleteAborts(u)
      BY <1>21, <2>2 DEF DeleteCommit
    <2>3. QED
      BY <2>1, <2>2
  <1>22. ASSUME NEW u \in Users, CrashDelete(u) PROVE TypeOK'
    BY <1>22 DEF CrashDelete, DeleteAborts
  <1>23. CASE UNCHANGED vars
    BY <1>23 DEF vars
  <1>24. QED
    BY <1>1, <1>2, <1>3, <1>4, <1>5, <1>6, <1>7, <1>8, <1>9, <1>10, <1>11, <1>12, <1>13, <1>14, <1>15, <1>16, <1>17, <1>18, <1>19, <1>20, <1>21, <1>22, <1>23 DEF Next, WorkerStep, DeleteStep

\* Orders are only charged once offered and only pushed once charged.
LEMMA NextLifecycle == IInv /\ [Next]_vars => Lifecycle'
  <1> SUFFICES ASSUME IInv, [Next]_vars PROVE Lifecycle'
    OBVIOUS
  <1> USE PaymentAssumption DEF IInv, TypeOK, Lifecycle, orderVars, clientVars, wechatVars, workerVars, delVars
  <1>1. ASSUME NEW o \in Orders, NEW u \in Users, CreateOrder(o, u) PROVE Lifecycle'
    BY <1>1 DEF CreateOrder, Superseded
  <1>2. ASSUME NEW o \in Orders, SignSucceeds(o) PROVE Lifecycle'
    BY <1>2 DEF SignSucceeds
  <1>3. ASSUME NEW o \in Orders, SignFails(o) PROVE Lifecycle'
    BY <1>3 DEF SignFails, ClosePending, Touch
  <1>4. ASSUME NEW o \in Orders, Cancel(o) PROVE Lifecycle'
    BY <1>4 DEF Cancel, ClosePending, Touch
  <1>5. ASSUME NEW o \in Orders, Age(o) PROVE Lifecycle'
    BY <1>5 DEF Age
  <1>6. CASE JobList
    BY <1>6 DEF JobList
  <1>7. CASE JobClose
    BY <1>7 DEF JobClose, ClosePending, Touch
  <1>8. ASSUME NEW o \in Orders, NEW t \in Txns, Charge(o, t) PROVE Lifecycle'
    BY <1>8 DEF Charge
  <1>9. ASSUME NEW w \in Workers, NEW o \in Orders, Push(w, o) PROVE Lifecycle'
    BY <1>9 DEF Push
  <1>10. ASSUME NEW w \in Workers, ReadOrder(w) PROVE Lifecycle'
    BY <1>10 DEF ReadOrder, Goto
  <1>11. ASSUME NEW w \in Workers, UpdateOrderPaid(w) PROVE Lifecycle'
    BY <1>11 DEF UpdateOrderPaid, CanWrite, TxnInUse, TxnBeingWritten, Goto
  <1>12. ASSUME NEW w \in Workers, RereadOrder(w) PROVE Lifecycle'
    BY <1>12 DEF RereadOrder, Goto
  <1>13. ASSUME NEW w \in Workers, MarkClosedOrderPaid(w) PROVE Lifecycle'
    BY <1>13 DEF MarkClosedOrderPaid, CanWrite, TxnInUse, TxnBeingWritten, Goto
  <1>14. ASSUME NEW w \in Workers, ActivateVIP(w) PROVE Lifecycle'
    BY <1>14 DEF ActivateVIP, Goto
  <1>15. ASSUME NEW w \in Workers, ActivateVIPFails(w) PROVE Lifecycle'
    BY <1>15 DEF ActivateVIPFails, Leave
  <1>16. ASSUME NEW w \in Workers, Commit(w) PROVE Lifecycle'
    BY <1>16 DEF Commit, Touch, Goto
  <1>17. ASSUME NEW w \in Workers, Reply(w) PROVE Lifecycle'
    BY <1>17 DEF Reply, Leave
  <1>18. ASSUME NEW w \in Workers, CrashWorker(w) PROVE Lifecycle'
    BY <1>18 DEF CrashWorker, Leave
  <1>19. ASSUME NEW u \in Users, DeleteBegin(u) PROVE Lifecycle'
    BY <1>19 DEF DeleteBegin
  <1>20. ASSUME NEW u \in Users, NullifyOrders(u) PROVE Lifecycle'
    BY <1>20 DEF NullifyOrders, DeleteAborts, OrdersOf
  <1>21. ASSUME NEW u \in Users, DeleteCommit(u) PROVE Lifecycle'
    BY <1>21 DEF DeleteCommit, DeleteAborts
  <1>22. ASSUME NEW u \in Users, CrashDelete(u) PROVE Lifecycle'
    BY <1>22 DEF CrashDelete, DeleteAborts
  <1>23. CASE UNCHANGED vars
    BY <1>23 DEF vars
  <1>24. QED
    BY <1>1, <1>2, <1>3, <1>4, <1>5, <1>6, <1>7, <1>8, <1>9, <1>10, <1>11, <1>12, <1>13, <1>14, <1>15, <1>16, <1>17, <1>18, <1>19, <1>20, <1>21, <1>22, <1>23 DEF Next, WorkerStep, DeleteStep

\* A row has one writer.
LEMMA NextRowLocks == IInv /\ [Next]_vars => RowLocks'
  <1> SUFFICES ASSUME IInv, [Next]_vars PROVE RowLocks'
    OBVIOUS
  <1> USE PaymentAssumption DEF IInv, TypeOK, Lifecycle, RowLocks, Owners, Holding, OrderLocked, orderVars, clientVars, wechatVars, workerVars, delVars
  <1>1. ASSUME NEW o \in Orders, NEW u \in Users, CreateOrder(o, u) PROVE RowLocks'
    BY <1>1 DEF CreateOrder, Superseded
  <1>2. ASSUME NEW o \in Orders, SignSucceeds(o) PROVE RowLocks'
    BY <1>2 DEF SignSucceeds
  <1>3. ASSUME NEW o \in Orders, SignFails(o) PROVE RowLocks'
    BY <1>3 DEF SignFails, ClosePending, Touch
  <1>4. ASSUME NEW o \in Orders, Cancel(o) PROVE RowLocks'
    BY <1>4 DEF Cancel, ClosePending, Touch
  <1>5. ASSUME NEW o \in Orders, Age(o) PROVE RowLocks'
    BY <1>5 DEF Age
  <1>6. CASE JobList
    BY <1>6 DEF JobList
  <1>7. CASE JobClose
    BY <1>7 DEF JobClose, ClosePending, Touch
  <1>8. ASSUME NEW o \in Orders, NEW t \in Txns, Charge(o, t) PROVE RowLocks'
    BY <1>8 DEF Charge
  <1>9. ASSUME NEW w \in Workers, NEW o \in Orders, Push(w, o) PROVE RowLocks'
    BY <1>9 DEF Push
  <1>10. ASSUME NEW w \in Workers, ReadOrder(w) PROVE RowLocks'
    BY <1>10 DEF ReadOrder, Goto
  <1>11. ASSUME NEW w \in Workers, UpdateOrderPaid(w) PROVE RowLocks'
    BY <1>11 DEF UpdateOrderPaid, CanWrite, TxnInUse, TxnBeingWritten, Goto
  <1>12. ASSUME NEW w \in Workers, RereadOrder(w) PROVE RowLocks'
    BY <1>12 DEF RereadOrder, Goto
  <1>13. ASSUME NEW w \in Workers, MarkClosedOrderPaid(w) PROVE RowLocks'
    BY <1>13 DEF MarkClosedOrderPaid, CanWrite, TxnInUse, TxnBeingWritten, Goto
  <1>14. ASSUME NEW w \in Workers, ActivateVIP(w) PROVE RowLocks'
    BY <1>14 DEF ActivateVIP, Goto
  <1>15. ASSUME NEW w \in Workers, ActivateVIPFails(w) PROVE RowLocks'
    BY <1>15 DEF ActivateVIPFails, Leave
  <1>16. ASSUME NEW w \in Workers, Commit(w) PROVE RowLocks'
    BY <1>16 DEF Commit, Touch, Goto
  <1>17. ASSUME NEW w \in Workers, Reply(w) PROVE RowLocks'
    BY <1>17 DEF Reply, Leave
  <1>18. ASSUME NEW w \in Workers, CrashWorker(w) PROVE RowLocks'
    BY <1>18 DEF CrashWorker, Leave
  <1>19. ASSUME NEW u \in Users, DeleteBegin(u) PROVE RowLocks'
    BY <1>19 DEF DeleteBegin
  <1>20. ASSUME NEW u \in Users, NullifyOrders(u) PROVE RowLocks'
    BY <1>20 DEF NullifyOrders, DeleteAborts, OrdersOf
  <1>21. ASSUME NEW u \in Users, DeleteCommit(u) PROVE RowLocks'
    BY <1>21 DEF DeleteCommit, DeleteAborts
  <1>22. ASSUME NEW u \in Users, CrashDelete(u) PROVE RowLocks'
    BY <1>22 DEF CrashDelete, DeleteAborts
  <1>23. CASE UNCHANGED vars
    BY <1>23 DEF vars
  <1>24. QED
    BY <1>1, <1>2, <1>3, <1>4, <1>5, <1>6, <1>7, <1>8, <1>9, <1>10, <1>11, <1>12, <1>13, <1>14, <1>15, <1>16, <1>17, <1>18, <1>19, <1>20, <1>21, <1>22, <1>23 DEF Next, WorkerStep, DeleteStep

\* The owner a worker remembers is the owner, or has been deleted since.
LEMMA NextOwners == IInv /\ [Next]_vars => Owners'
  <1> SUFFICES ASSUME IInv, [Next]_vars PROVE Owners'
    OBVIOUS
  <1> USE PaymentAssumption DEF IInv, TypeOK, Lifecycle, RowLocks, Owners, Holding, OrderLocked, orderVars, clientVars, wechatVars, workerVars, delVars
  <1>1. ASSUME NEW o \in Orders, NEW u \in Users, CreateOrder(o, u) PROVE Owners'
    BY <1>1 DEF CreateOrder, Superseded
  <1>2. ASSUME NEW o \in Orders, SignSucceeds(o) PROVE Owners'
    BY <1>2 DEF SignSucceeds
  <1>3. ASSUME NEW o \in Orders, SignFails(o) PROVE Owners'
    BY <1>3 DEF SignFails, ClosePending, Touch
  <1>4. ASSUME NEW o \in Orders, Cancel(o) PROVE Owners'
    BY <1>4 DEF Cancel, ClosePending, Touch
  <1>5. ASSUME NEW o \in Orders, Age(o) PROVE Owners'
    BY <1>5 DEF Age
  <1>6. CASE JobList
    BY <1>6 DEF JobList
  <1>7. CASE JobClose
    BY <1>7 DEF JobClose, ClosePending, Touch
  <1>8. ASSUME NEW o \in Orders, NEW t \in Txns, Charge(o, t) PROVE Owners'
    BY <1>8 DEF Charge
  <1>9. ASSUME NEW w \in Workers, NEW o \in Orders, Push(w, o) PROVE Owners'
    BY <1>9 DEF Push
  <1>10. ASSUME NEW w \in Workers, ReadOrder(w) PROVE Owners'
    <2>1. /\ pc' = [pc EXCEPT ![w] = "update"]
          /\ snapGone' = [snapGone EXCEPT ![w] = ouser[ord[w]] = NoUser]
          /\ curUser' = [curUser EXCEPT ![w] = ouser[ord[w]]]
          /\ UNCHANGED <<ouser, ostate, users, ord>>
      BY ONLY <1>10 DEF ReadOrder, Goto, orderVars, clientVars, wechatVars, delVars
    <2>2. \A v \in Workers \ {w} : pc'[v] = pc[v] /\ snapGone'[v] = snapGone[v] /\ curUser'[v] = curUser[v]
      BY <2>1
    <2>3. pc'[w] = "update" /\ (snapGone'[w] <=> ouser[ord[w]] = NoUser) /\ curUser'[w] = ouser[ord[w]]
      BY <2>1
    <2>4. QED
      BY <2>1, <2>2, <2>3
  <1>11. ASSUME NEW w \in Workers, UpdateOrderPaid(w) PROVE Owners'
    <2>1. CASE ostate[ord[w]] = "pending"
      BY <1>11, <2>1 DEF UpdateOrderPaid, CanWrite, TxnInUse, TxnBeingWritten, Goto
    <2>2. CASE ostate[ord[w]] # "pending"
      <3>1. ostate[ord[w]] \in {"paid", "closed"}
        BY <1>11, <2>2 DEF UpdateOrderPaid, States
      <3>2. pc[w] = "update" /\ pc' = [pc EXCEPT ![w] = "reread"] /\ UNCHANGED <<ostate, ouser, users, ord, snapGone, curUser>>
        BY <1>11, <2>2 DEF UpdateOrderPaid, Goto
      <3>3. QED
        BY <3>1, <3>2
    <2>3. QED
      BY <2>1, <2>2
  <1>12. ASSUME NEW w \in Workers, RereadOrder(w) PROVE Owners'
    BY <1>12 DEF RereadOrder, Goto
  <1>13. ASSUME NEW w \in Workers, MarkClosedOrderPaid(w) PROVE Owners'
    BY <1>13 DEF MarkClosedOrderPaid, CanWrite, TxnInUse, TxnBeingWritten, Goto
  <1>14. ASSUME NEW w \in Workers, ActivateVIP(w) PROVE Owners'
    BY <1>14 DEF ActivateVIP, Goto
  <1>15. ASSUME NEW w \in Workers, ActivateVIPFails(w) PROVE Owners'
    BY <1>15 DEF ActivateVIPFails, Leave
  <1>16. ASSUME NEW w \in Workers, Commit(w) PROVE Owners'
    BY <1>16 DEF Commit, Touch, Goto
  <1>17. ASSUME NEW w \in Workers, Reply(w) PROVE Owners'
    BY <1>17 DEF Reply, Leave
  <1>18. ASSUME NEW w \in Workers, CrashWorker(w) PROVE Owners'
    BY <1>18 DEF CrashWorker, Leave
  <1>19. ASSUME NEW u \in Users, DeleteBegin(u) PROVE Owners'
    BY <1>19 DEF DeleteBegin
  <1>20. ASSUME NEW u \in Users, NullifyOrders(u) PROVE Owners'
    BY <1>20 DEF NullifyOrders, DeleteAborts, OrdersOf
  <1>21. ASSUME NEW u \in Users, DeleteCommit(u) PROVE Owners'
    BY <1>21 DEF DeleteCommit, DeleteAborts
  <1>22. ASSUME NEW u \in Users, CrashDelete(u) PROVE Owners'
    BY <1>22 DEF CrashDelete, DeleteAborts
  <1>23. CASE UNCHANGED vars
    BY <1>23 DEF vars
  <1>24. QED
    BY <1>1, <1>2, <1>3, <1>4, <1>5, <1>6, <1>7, <1>8, <1>9, <1>10, <1>11, <1>12, <1>13, <1>14, <1>15, <1>16, <1>17, <1>18, <1>19, <1>20, <1>21, <1>22, <1>23 DEF Next, WorkerStep, DeleteStep

\* A transaction id belongs to one order.
LEMMA NextTxnOwnership == IInv /\ [Next]_vars => TxnOwnership'
  <1> SUFFICES ASSUME IInv, [Next]_vars PROVE TxnOwnership'
    OBVIOUS
  <1> USE PaymentAssumption DEF IInv, TypeOK, Lifecycle, RowLocks, TxnOwnership, Holding, OrderLocked, orderVars, clientVars, wechatVars, workerVars, delVars
  <1>1. ASSUME NEW o \in Orders, NEW u \in Users, CreateOrder(o, u) PROVE TxnOwnership'
    BY <1>1 DEF CreateOrder, Superseded
  <1>2. ASSUME NEW o \in Orders, SignSucceeds(o) PROVE TxnOwnership'
    BY <1>2 DEF SignSucceeds
  <1>3. ASSUME NEW o \in Orders, SignFails(o) PROVE TxnOwnership'
    BY <1>3 DEF SignFails, ClosePending, Touch
  <1>4. ASSUME NEW o \in Orders, Cancel(o) PROVE TxnOwnership'
    BY <1>4 DEF Cancel, ClosePending, Touch
  <1>5. ASSUME NEW o \in Orders, Age(o) PROVE TxnOwnership'
    BY <1>5 DEF Age
  <1>6. CASE JobList
    BY <1>6 DEF JobList
  <1>7. CASE JobClose
    BY <1>7 DEF JobClose, ClosePending, Touch
  <1>8. ASSUME NEW o \in Orders, NEW t \in Txns, Charge(o, t) PROVE TxnOwnership'
    BY <1>8 DEF Charge
  <1>9. ASSUME NEW w \in Workers, NEW o \in Orders, Push(w, o) PROVE TxnOwnership'
    BY <1>9 DEF Push
  <1>10. ASSUME NEW w \in Workers, ReadOrder(w) PROVE TxnOwnership'
    BY <1>10 DEF ReadOrder, Goto
  <1>11. ASSUME NEW w \in Workers, UpdateOrderPaid(w) PROVE TxnOwnership'
    <2>1. /\ UNCHANGED <<ostate, otxn, charged, ord>>
          /\ \A v \in Workers : v # w => (Holding(v)' <=> Holding(v))
      BY <1>11 DEF UpdateOrderPaid, Goto
    <2>2. Holding(w)' => ~TxnInUse(w) /\ ~TxnBeingWritten(w)
      BY <1>11 DEF UpdateOrderPaid, CanWrite, Goto
    <2>3. \A v \in Workers : Holding(v)' => \A p \in Orders \ {ord[v]} : otxn[p] # charged[ord[v]]
      BY <2>1, <2>2 DEF TxnInUse
    <2>4. \A v, x \in Workers : Holding(v)' /\ Holding(x)' /\ v # x => charged[ord[v]] # charged[ord[x]]
      BY <2>1, <2>2 DEF TxnBeingWritten
    <2>5. QED
      BY <2>1, <2>3, <2>4
  <1>12. ASSUME NEW w \in Workers, RereadOrder(w) PROVE TxnOwnership'
    BY <1>12 DEF RereadOrder, Goto
  <1>13. ASSUME NEW w \in Workers, MarkClosedOrderPaid(w) PROVE TxnOwnership'
    <2>1. /\ UNCHANGED <<ostate, otxn, charged, ord>>
          /\ \A v \in Workers : v # w => (Holding(v)' <=> Holding(v))
      BY <1>13 DEF MarkClosedOrderPaid, Goto
    <2>2. Holding(w)' => ~TxnInUse(w) /\ ~TxnBeingWritten(w)
      BY <1>13 DEF MarkClosedOrderPaid, CanWrite, Goto
    <2>3. \A v \in Workers : Holding(v)' => \A p \in Orders \ {ord[v]} : otxn[p] # charged[ord[v]]
      BY <2>1, <2>2 DEF TxnInUse
    <2>4. \A v, x \in Workers : Holding(v)' /\ Holding(x)' /\ v # x => charged[ord[v]] # charged[ord[x]]
      BY <2>1, <2>2 DEF TxnBeingWritten
    <2>5. QED
      BY <2>1, <2>3, <2>4
  <1>14. ASSUME NEW w \in Workers, ActivateVIP(w) PROVE TxnOwnership'
    BY <1>14 DEF ActivateVIP, Goto
  <1>15. ASSUME NEW w \in Workers, ActivateVIPFails(w) PROVE TxnOwnership'
    BY <1>15 DEF ActivateVIPFails, Leave
  <1>16. ASSUME NEW w \in Workers, Commit(w) PROVE TxnOwnership'
    BY <1>16 DEF Commit, Touch, Goto
  <1>17. ASSUME NEW w \in Workers, Reply(w) PROVE TxnOwnership'
    BY <1>17 DEF Reply, Leave
  <1>18. ASSUME NEW w \in Workers, CrashWorker(w) PROVE TxnOwnership'
    BY <1>18 DEF CrashWorker, Leave
  <1>19. ASSUME NEW u \in Users, DeleteBegin(u) PROVE TxnOwnership'
    BY <1>19 DEF DeleteBegin
  <1>20. ASSUME NEW u \in Users, NullifyOrders(u) PROVE TxnOwnership'
    BY <1>20 DEF NullifyOrders, DeleteAborts, OrdersOf
  <1>21. ASSUME NEW u \in Users, DeleteCommit(u) PROVE TxnOwnership'
    BY <1>21 DEF DeleteCommit, DeleteAborts
  <1>22. ASSUME NEW u \in Users, CrashDelete(u) PROVE TxnOwnership'
    BY <1>22 DEF CrashDelete, DeleteAborts
  <1>23. CASE UNCHANGED vars
    BY <1>23 DEF vars
  <1>24. QED
    BY <1>1, <1>2, <1>3, <1>4, <1>5, <1>6, <1>7, <1>8, <1>9, <1>10, <1>11, <1>12, <1>13, <1>14, <1>15, <1>16, <1>17, <1>18, <1>19, <1>20, <1>21, <1>22, <1>23 DEF Next, WorkerStep, DeleteStep

\* A 200 stands for a settled order.
LEMMA NextAnswers == IInv /\ [Next]_vars => Answers'
  <1> SUFFICES ASSUME IInv, [Next]_vars PROVE Answers'
    OBVIOUS
  <1> USE PaymentAssumption DEF IInv, TypeOK, Lifecycle, RowLocks, Owners, TxnOwnership, Answers, Answerable, Holding, OrderLocked, orderVars, clientVars, wechatVars, workerVars, delVars
  <1>1. ASSUME NEW o \in Orders, NEW u \in Users, CreateOrder(o, u) PROVE Answers'
    BY <1>1 DEF CreateOrder, Superseded
  <1>2. ASSUME NEW o \in Orders, SignSucceeds(o) PROVE Answers'
    BY <1>2 DEF SignSucceeds
  <1>3. ASSUME NEW o \in Orders, SignFails(o) PROVE Answers'
    BY <1>3 DEF SignFails, ClosePending, Touch
  <1>4. ASSUME NEW o \in Orders, Cancel(o) PROVE Answers'
    BY <1>4 DEF Cancel, ClosePending, Touch
  <1>5. ASSUME NEW o \in Orders, Age(o) PROVE Answers'
    BY <1>5 DEF Age
  <1>6. CASE JobList
    BY <1>6 DEF JobList
  <1>7. CASE JobClose
    BY <1>7 DEF JobClose, ClosePending, Touch
  <1>8. ASSUME NEW o \in Orders, NEW t \in Txns, Charge(o, t) PROVE Answers'
    BY <1>8 DEF Charge
  <1>9. ASSUME NEW w \in Workers, NEW o \in Orders, Push(w, o) PROVE Answers'
    BY <1>9 DEF Push
  <1>10. ASSUME NEW w \in Workers, ReadOrder(w) PROVE Answers'
    BY <1>10 DEF ReadOrder, Goto
  <1>11. ASSUME NEW w \in Workers, UpdateOrderPaid(w) PROVE Answers'
    BY <1>11 DEF UpdateOrderPaid, CanWrite, TxnInUse, TxnBeingWritten, Goto
  <1>12. ASSUME NEW w \in Workers, RereadOrder(w) PROVE Answers'
    BY <1>12 DEF RereadOrder, Goto
  <1>13. ASSUME NEW w \in Workers, MarkClosedOrderPaid(w) PROVE Answers'
    BY <1>13 DEF MarkClosedOrderPaid, CanWrite, TxnInUse, TxnBeingWritten, Goto
  <1>14. ASSUME NEW w \in Workers, ActivateVIP(w) PROVE Answers'
    BY <1>14 DEF ActivateVIP, Goto
  <1>15. ASSUME NEW w \in Workers, ActivateVIPFails(w) PROVE Answers'
    BY <1>15 DEF ActivateVIPFails, Leave
  <1>16. ASSUME NEW w \in Workers, Commit(w) PROVE Answers'
    BY <1>16 DEF Commit, Touch, Goto
  <1>17. ASSUME NEW w \in Workers, Reply(w) PROVE Answers'
    BY <1>17 DEF Reply, Leave
  <1>18. ASSUME NEW w \in Workers, CrashWorker(w) PROVE Answers'
    BY <1>18 DEF CrashWorker, Leave
  <1>19. ASSUME NEW u \in Users, DeleteBegin(u) PROVE Answers'
    BY <1>19 DEF DeleteBegin
  <1>20. ASSUME NEW u \in Users, NullifyOrders(u) PROVE Answers'
    BY <1>20 DEF NullifyOrders, DeleteAborts, OrdersOf
  <1>21. ASSUME NEW u \in Users, DeleteCommit(u) PROVE Answers'
    BY <1>21 DEF DeleteCommit, DeleteAborts
  <1>22. ASSUME NEW u \in Users, CrashDelete(u) PROVE Answers'
    BY <1>22 DEF CrashDelete, DeleteAborts
  <1>23. CASE UNCHANGED vars
    BY <1>23 DEF vars
  <1>24. QED
    BY <1>1, <1>2, <1>3, <1>4, <1>5, <1>6, <1>7, <1>8, <1>9, <1>10, <1>11, <1>12, <1>13, <1>14, <1>15, <1>16, <1>17, <1>18, <1>19, <1>20, <1>21, <1>22, <1>23 DEF Next, WorkerStep, DeleteStep

\* A paid order is delivered once.
LEMMA NextPaidIsDeliveredOnce == IInv /\ [Next]_vars => PaidIsDeliveredOnce'
  <1> SUFFICES ASSUME IInv, [Next]_vars PROVE PaidIsDeliveredOnce'
    OBVIOUS
  <1> USE PaymentAssumption DEF IInv, TypeOK, Lifecycle, RowLocks, Owners, PaidIsDeliveredOnce, Holding, OrderLocked, orderVars, clientVars, wechatVars, workerVars, delVars
  <1>1. ASSUME NEW o \in Orders, NEW u \in Users, CreateOrder(o, u) PROVE PaidIsDeliveredOnce'
    BY <1>1 DEF CreateOrder, Superseded
  <1>2. ASSUME NEW o \in Orders, SignSucceeds(o) PROVE PaidIsDeliveredOnce'
    BY <1>2 DEF SignSucceeds
  <1>3. ASSUME NEW o \in Orders, SignFails(o) PROVE PaidIsDeliveredOnce'
    BY <1>3 DEF SignFails, ClosePending, Touch
  <1>4. ASSUME NEW o \in Orders, Cancel(o) PROVE PaidIsDeliveredOnce'
    BY <1>4 DEF Cancel, ClosePending, Touch
  <1>5. ASSUME NEW o \in Orders, Age(o) PROVE PaidIsDeliveredOnce'
    BY <1>5 DEF Age
  <1>6. CASE JobList
    BY <1>6 DEF JobList
  <1>7. CASE JobClose
    BY <1>7 DEF JobClose, ClosePending, Touch
  <1>8. ASSUME NEW o \in Orders, NEW t \in Txns, Charge(o, t) PROVE PaidIsDeliveredOnce'
    BY <1>8 DEF Charge
  <1>9. ASSUME NEW w \in Workers, NEW o \in Orders, Push(w, o) PROVE PaidIsDeliveredOnce'
    BY <1>9 DEF Push
  <1>10. ASSUME NEW w \in Workers, ReadOrder(w) PROVE PaidIsDeliveredOnce'
    BY <1>10 DEF ReadOrder, Goto
  <1>11. ASSUME NEW w \in Workers, UpdateOrderPaid(w) PROVE PaidIsDeliveredOnce'
    BY <1>11 DEF UpdateOrderPaid, CanWrite, TxnInUse, TxnBeingWritten, Goto
  <1>12. ASSUME NEW w \in Workers, RereadOrder(w) PROVE PaidIsDeliveredOnce'
    BY <1>12 DEF RereadOrder, Goto
  <1>13. ASSUME NEW w \in Workers, MarkClosedOrderPaid(w) PROVE PaidIsDeliveredOnce'
    BY <1>13 DEF MarkClosedOrderPaid, CanWrite, TxnInUse, TxnBeingWritten, Goto
  <1>14. ASSUME NEW w \in Workers, ActivateVIP(w) PROVE PaidIsDeliveredOnce'
    BY <1>14 DEF ActivateVIP, Goto
  <1>15. ASSUME NEW w \in Workers, ActivateVIPFails(w) PROVE PaidIsDeliveredOnce'
    BY <1>15 DEF ActivateVIPFails, Leave
  <1>16. ASSUME NEW w \in Workers, Commit(w) PROVE PaidIsDeliveredOnce'
    BY <1>16 DEF Commit, Touch, Goto
  <1>17. ASSUME NEW w \in Workers, Reply(w) PROVE PaidIsDeliveredOnce'
    BY <1>17 DEF Reply, Leave
  <1>18. ASSUME NEW w \in Workers, CrashWorker(w) PROVE PaidIsDeliveredOnce'
    BY <1>18 DEF CrashWorker, Leave
  <1>19. ASSUME NEW u \in Users, DeleteBegin(u) PROVE PaidIsDeliveredOnce'
    BY <1>19 DEF DeleteBegin
  <1>20. ASSUME NEW u \in Users, NullifyOrders(u) PROVE PaidIsDeliveredOnce'
    BY <1>20 DEF NullifyOrders, DeleteAborts, OrdersOf
  <1>21. ASSUME NEW u \in Users, DeleteCommit(u) PROVE PaidIsDeliveredOnce'
    BY <1>21 DEF DeleteCommit, DeleteAborts
  <1>22. ASSUME NEW u \in Users, CrashDelete(u) PROVE PaidIsDeliveredOnce'
    BY <1>22 DEF CrashDelete, DeleteAborts
  <1>23. CASE UNCHANGED vars
    BY <1>23 DEF vars
  <1>24. QED
    BY <1>1, <1>2, <1>3, <1>4, <1>5, <1>6, <1>7, <1>8, <1>9, <1>10, <1>11, <1>12, <1>13, <1>14, <1>15, <1>16, <1>17, <1>18, <1>19, <1>20, <1>21, <1>22, <1>23 DEF Next, WorkerStep, DeleteStep

-----------------------------------------------------------------------------
(***************************************************************************)
(* The theorems                                                            *)
(***************************************************************************)
\* The strengthened invariant holds in every reachable state.
THEOREM Invariance == Spec => []IInv
  <1>1. IInv /\ [Next]_vars => IInv'
    BY NextTypeOK, NextLifecycle, NextRowLocks, NextOwners, NextTxnOwnership, NextAnswers,
       NextPaidIsDeliveredOnce
       DEF IInv
  <1>2. QED
    BY InitIInv, <1>1, PTL DEF Spec

\* Every variable of the payment component keeps its type.
THEOREM TypeCorrectness == Spec => []TypeOK
  <1>1. IInv => TypeOK
    BY DEF IInv
  <1>2. QED
    BY Invariance, <1>1, PTL

\* A paid order has been delivered exactly once, or its owner is gone.
THEOREM ExactlyOnceDelivery == Spec => []PaidIsDeliveredOnce
  <1>1. IInv => PaidIsDeliveredOnce
    BY DEF IInv
  <1>2. QED
    BY Invariance, <1>1, PTL

\* A push answered with 200 leaves nothing for WeChat to retry.
THEOREM AnswersAreFinal == Spec => []AckedIsSettled
  <1>1. IInv => AckedIsSettled
    BY DEF IInv, Answers, Answerable, AckedIsSettled
  <1>2. QED
    BY Invariance, <1>1, PTL

\* A transaction of WeChat pays at most one order.
THEOREM TransactionsAreUnique == Spec => []OneOrderPerTransaction
  <1>1. IInv => OneOrderPerTransaction
    BY DEF IInv, TxnOwnership, OneOrderPerTransaction
  <1>2. QED
    BY Invariance, <1>1, PTL

-----------------------------------------------------------------------------
(***************************************************************************)
(* Refinement of Entitlement                                               *)
(***************************************************************************)
Forfeited == {o \in Orders : ostate[o] = "paid" /\ deliveries[o] = 0}
Orphaned  == {o \in Orders : ostate[o] # "none" /\ ouser[o] = NoUser}

\* At the start nothing is settled and no order has lost its owner.
LEMMA InitRefines == Init => Promise!Init
  BY DEF Init, Promise!Init

\* A step that pays no order and deletes no account is invisible.
LEMMA Invisible ==
  ASSUME UNCHANGED deliveries, Forfeited' = Forfeited, Orphaned' = Orphaned
  PROVE  UNCHANGED Promise!vars
  BY DEF Promise!vars, Forfeited, Orphaned

\* A step that only creates orders for a user, or closes pending ones.
LEMMA NoPayment ==
  ASSUME TypeOK, TypeOK', UNCHANGED deliveries,
         \A o \in Orders : ostate[o] = "paid" <=> ostate'[o] = "paid",
         \A o \in Orders : (ostate[o] # "none" /\ ouser[o] = NoUser)
                             <=> (ostate'[o] # "none" /\ ouser'[o] = NoUser)
  PROVE  UNCHANGED Promise!vars
  <1>1. Forfeited' = Forfeited /\ Orphaned' = Orphaned
    BY DEF Forfeited, Orphaned
  <1>2. QED
    BY <1>1, Invisible

\* The commit of a worker delivers to an owner who still exists, or settles
\* without delivery an order whose owner is gone.
LEMMA CommitRefines ==
  ASSUME IInv, NEW w \in Workers, Commit(w)
  PROVE  Promise!Next
  <1> DEFINE o == ord[w]
  <1> USE DEF IInv, TypeOK
  <1>1. /\ o \in Orders
        /\ ostate[o] \in {"pending", "closed"}
        /\ deliveries[o] = 0
    BY DEF Commit, Lifecycle, RowLocks, Holding, PaidIsDeliveredOnce
  <1>2. /\ ostate' = [ostate EXCEPT ![o] = "paid"]
        /\ UNCHANGED ouser
    BY DEF Commit
  <1>3. Orphaned' = Orphaned
    BY <1>1, <1>2 DEF Orphaned
  <1>4. CASE pc[w] = "commit"
    <2>1. o \notin Orphaned
      BY <1>4, PaymentAssumption DEF Owners, Orphaned
    <2>2. deliveries' = [deliveries EXCEPT ![o] = 1]
      BY <1>1, <1>4 DEF Commit
    <2>3. Forfeited' = Forfeited
      BY <1>1, <1>2, <2>2 DEF Forfeited
    <2>4. Promise!Deliver(o)
      BY <1>1, <1>3, <2>1, <2>2, <2>3 DEF Promise!Deliver, Promise!Unsettled, Forfeited, Orphaned
    <2>5. \E p \in Orders : Promise!Deliver(p)
      BY <1>1, <2>4
    <2>6. QED
      BY <2>5 DEF Promise!Next
  <1>5. CASE pc[w] = "commitSkipped"
    <2>1. o \in Orphaned
      BY <1>1, <1>5 DEF Owners, Orphaned
    <2>2. deliveries' = deliveries
      BY <1>1, <1>5 DEF Commit
    <2>3. Forfeited' = Forfeited \cup {o}
      BY <1>1, <1>2, <2>2 DEF Forfeited
    <2>4. Promise!Forfeit(o)
      BY <1>1, <1>3, <2>1, <2>2, <2>3 DEF Promise!Forfeit, Promise!Unsettled, Forfeited, Orphaned
    <2>5. \E p \in Orders : Promise!Forfeit(p)
      BY <1>1, <2>4
    <2>6. QED
      BY <2>5 DEF Promise!Next
  <1>6. QED
    BY <1>4, <1>5 DEF Commit

\* A deletion that commits orphans the orders of its user.
LEMMA DeleteRefines ==
  ASSUME IInv, NEW u \in Users, DeleteCommit(u)
  PROVE  Promise!Next \/ UNCHANGED Promise!vars
  <1> USE DEF IInv, TypeOK
  <1>1. UNCHANGED <<ostate, deliveries>>
    BY DEF DeleteCommit
  <1>2. Forfeited' = Forfeited
    BY <1>1 DEF Forfeited
  <1>3. CASE UNCHANGED ouser
    BY <1>1, <1>2, <1>3, Invisible DEF Orphaned
  <1>4. CASE ouser' = [o \in Orders |-> IF ouser[o] = u THEN NoUser ELSE ouser[o]]
    <2>1. Orphaned \subseteq Orphaned' /\ Orphaned' \subseteq Orders
      BY <1>1, <1>4 DEF Orphaned
    <2>2. Promise!Orphan
      BY <1>1, <1>2, <2>1 DEF Promise!Orphan, Forfeited, Orphaned
    <2>3. QED
      BY <2>2 DEF Promise!Next
  <1>5. QED
    BY <1>3, <1>4 DEF DeleteCommit, DeleteAborts

\* Every step of the component is a step of Entitlement or invisible to it.
LEMMA StepRefines == IInv /\ IInv' /\ [Next]_vars => [Promise!Next]_(Promise!vars)
  <1> SUFFICES ASSUME IInv, IInv', [Next]_vars
               PROVE  Promise!Next \/ UNCHANGED Promise!vars
    OBVIOUS
  <1>0. TypeOK /\ TypeOK'
    BY DEF IInv
  <1>1. ASSUME NEW o \in Orders, NEW u \in Users, CreateOrder(o, u) PROVE Promise!Next \/ UNCHANGED Promise!vars
    BY <1>0, <1>1, NoPayment, PaymentAssumption DEF TypeOK, CreateOrder, Superseded, IInv, Lifecycle
  <1>2. ASSUME NEW o \in Orders, SignSucceeds(o) PROVE Promise!Next \/ UNCHANGED Promise!vars
    BY <1>2, Invisible DEF SignSucceeds, Forfeited, Orphaned, orderVars, delVars
  <1>3. ASSUME NEW o \in Orders, SignFails(o) PROVE Promise!Next \/ UNCHANGED Promise!vars
    BY <1>0, <1>3, NoPayment DEF TypeOK, SignFails, ClosePending
  <1>4. ASSUME NEW o \in Orders, Cancel(o) PROVE Promise!Next \/ UNCHANGED Promise!vars
    BY <1>0, <1>4, NoPayment DEF TypeOK, Cancel, ClosePending
  <1>5. ASSUME NEW o \in Orders, Age(o) PROVE Promise!Next \/ UNCHANGED Promise!vars
    BY <1>5, Invisible DEF Age, Forfeited, Orphaned, orderVars, delVars
  <1>6. CASE JobList
    BY <1>6, Invisible DEF JobList, Forfeited, Orphaned, orderVars, delVars
  <1>7. CASE JobClose
    BY <1>0, <1>7, NoPayment DEF TypeOK, JobClose, ClosePending
  <1>8. ASSUME NEW o \in Orders, NEW t \in Txns, Charge(o, t) PROVE Promise!Next \/ UNCHANGED Promise!vars
    BY <1>8, Invisible DEF Charge, Forfeited, Orphaned, orderVars, delVars
  <1>9. ASSUME NEW w \in Workers, NEW o \in Orders, Push(w, o) PROVE Promise!Next \/ UNCHANGED Promise!vars
    BY <1>9, Invisible DEF Push, Forfeited, Orphaned, orderVars, delVars
  <1>10. ASSUME NEW w \in Workers, ReadOrder(w) PROVE Promise!Next \/ UNCHANGED Promise!vars
    BY <1>10, Invisible DEF ReadOrder, Forfeited, Orphaned, orderVars, delVars
  <1>11. ASSUME NEW w \in Workers, UpdateOrderPaid(w) PROVE Promise!Next \/ UNCHANGED Promise!vars
    BY <1>11, Invisible DEF UpdateOrderPaid, Forfeited, Orphaned, orderVars, delVars
  <1>12. ASSUME NEW w \in Workers, RereadOrder(w) PROVE Promise!Next \/ UNCHANGED Promise!vars
    BY <1>12, Invisible DEF RereadOrder, Forfeited, Orphaned, orderVars, delVars
  <1>13. ASSUME NEW w \in Workers, MarkClosedOrderPaid(w) PROVE Promise!Next \/ UNCHANGED Promise!vars
    BY <1>13, Invisible DEF MarkClosedOrderPaid, Forfeited, Orphaned, orderVars, delVars
  <1>14. ASSUME NEW w \in Workers, ActivateVIP(w) PROVE Promise!Next \/ UNCHANGED Promise!vars
    BY <1>14, Invisible DEF ActivateVIP, Forfeited, Orphaned, orderVars, delVars
  <1>15. ASSUME NEW w \in Workers, ActivateVIPFails(w) PROVE Promise!Next \/ UNCHANGED Promise!vars
    BY <1>15, Invisible DEF ActivateVIPFails, Forfeited, Orphaned, orderVars, delVars
  <1>16. ASSUME NEW w \in Workers, Commit(w) PROVE Promise!Next \/ UNCHANGED Promise!vars
    BY <1>16, CommitRefines
  <1>17. ASSUME NEW w \in Workers, Reply(w) PROVE Promise!Next \/ UNCHANGED Promise!vars
    BY <1>17, Invisible DEF Reply, Forfeited, Orphaned, orderVars, delVars
  <1>18. ASSUME NEW w \in Workers, CrashWorker(w) PROVE Promise!Next \/ UNCHANGED Promise!vars
    BY <1>18, Invisible DEF CrashWorker, Forfeited, Orphaned, orderVars, delVars
  <1>19. ASSUME NEW u \in Users, DeleteBegin(u) PROVE Promise!Next \/ UNCHANGED Promise!vars
    BY <1>19, Invisible DEF DeleteBegin, Forfeited, Orphaned, orderVars, delVars
  <1>20. ASSUME NEW u \in Users, NullifyOrders(u) PROVE Promise!Next \/ UNCHANGED Promise!vars
    BY <1>20, Invisible DEF NullifyOrders, DeleteAborts, Forfeited, Orphaned, orderVars, delVars
  <1>21. ASSUME NEW u \in Users, DeleteCommit(u) PROVE Promise!Next \/ UNCHANGED Promise!vars
    BY <1>21, DeleteRefines
  <1>22. ASSUME NEW u \in Users, CrashDelete(u) PROVE Promise!Next \/ UNCHANGED Promise!vars
    BY <1>22, Invisible DEF CrashDelete, DeleteAborts, Forfeited, Orphaned, orderVars, delVars
  <1>23. CASE UNCHANGED vars
    BY <1>23, Invisible DEF vars, Forfeited, Orphaned, orderVars, delVars
  <1>24. QED
    BY <1>1, <1>2, <1>3, <1>4, <1>5, <1>6, <1>7, <1>8, <1>9, <1>10, <1>11, <1>12, <1>13, <1>14, <1>15, <1>16, <1>17, <1>18, <1>19, <1>20, <1>21, <1>22, <1>23 DEF Next, WorkerStep, DeleteStep

\* The payment component implements Entitlement: no order is settled twice,
\* and only an order without an owner is settled without delivery.
THEOREM RefinesEntitlement == Spec => ImplementsEntitlement
  <1>1. Spec => []IInv
    BY Invariance
  <1>2. QED
    BY <1>1, InitRefines, StepRefines, PTL DEF Spec, ImplementsEntitlement, Promise!Spec

-----------------------------------------------------------------------------
(***************************************************************************)
(* Grants of VIP time                                                      *)
(*                                                                         *)
(* That no grant is lost depends on two facts about transactions that are  *)
(* still open: at most one of them has the row of a user, and the          *)
(* expire_time it read is the one its UPSERT will find (GrantLocks).  That *)
(* a trial delivers once depends on the claim being reserved from its      *)
(* INSERT to the commit (Reservations).                                    *)
(***************************************************************************)
Open == {"lock", "insert", "relock", "upsert"}

GrantLocks ==
  /\ \A u \in VipUsers \ has : granted[u] = 0
  /\ \A g, h \in Grants : HoldsRow(g) /\ HoldsRow(h) /\ User[g] = User[h] => g = h
  /\ \A g \in Grants : inserted[g] => stage[g] \in {"relock", "upsert"} /\ User[g] \notin has
  /\ \A g \in Grants : stage[g] \in {"relock", "upsert"} /\ ~inserted[g] => User[g] \in has
  /\ \A g \in Grants : stage[g] = "upsert" =>
       seen[g] = (IF inserted[g] THEN taken[g] + 1 ELSE expire[User[g]])
  /\ \A g \in Grants : snapHas[g] => User[g] \in has
  /\ \A g \in Grants : taken[g] <= now
  /\ \A g \in Grants : stage[g] = "start" => tries[g] < MaxRetries

Key(g) == <<User[g], PlanOf[g]>>

Reservations ==
  /\ \A g \in Grants : claimed[g] => stage[g] \in Open /\ Key(g) \notin claims
  /\ \A g, h \in Grants : claimed[g] /\ claimed[h] /\ Key(g) = Key(h) => g = h
  /\ \A g \in Grants : Kind[g] = "once" /\ stage[g] \in Open => claimed[g]
  /\ \A g \in Grants : Kind[g] = "once" /\ stage[g] = "done" => Key(g) \in claims
  /\ OncePerUser

VipInv == VipTypeOK /\ GrantLocks /\ Reservations /\ NothingLost /\ NothingInvented

\* The initial state satisfies the inductive invariant.
LEMMA InitVipInv == VipInit => VipInv
<1> SUFFICES ASSUME VipInit
             PROVE  VipInv
  OBVIOUS
<1> USE VipAssumption DEF VipInit
<1>1. VipTypeOK
  BY DEF VipTypeOK, Stages
<1>2. GrantLocks
  BY DEF GrantLocks, HoldsRow
<1>3. Reservations
  BY DEF Reservations, OncePerUser, Open
<1>4. NothingLost /\ NothingInvented
  BY DEF NothingLost, NothingInvented
<1>5. QED
  BY <1>1, <1>2, <1>3, <1>4 DEF VipInv

\* A rollback leaves the committed rows alone and frees what it had reserved.
LEMMA Rollback ==
  ASSUME VipInv, NEW g \in Grants, NEW s \in {"start", "refused", "failed"},
         End(g, s), UNCHANGED <<now, rowVars, tries>>,
         s = "start" => tries[g] < MaxRetries
  PROVE  VipTypeOK' /\ GrantLocks' /\ Reservations'
<1> USE VipAssumption DEF VipInv, VipTypeOK, Stages, Kinds, End, GrantAt, rowVars
<1>1. VipTypeOK'
  OBVIOUS
<1>2. GrantLocks'
  BY DEF GrantLocks, HoldsRow
<1>3. Reservations'
  <2>1. \A h \in Grants \ {g} : stage'[h] = stage[h] /\ claimed'[h] = claimed[h]
    OBVIOUS
  <2>2. stage'[g] = s /\ ~claimed'[g]
    OBVIOUS
  <2>3. OncePerUser'
    BY <2>1, <2>2 DEF Reservations, OncePerUser, Key
  <2>4. QED
    BY <2>1, <2>2, <2>3 DEF Reservations, Open, Key
<1>4. QED
  BY <1>1, <1>2, <1>3

\* Every step keeps the types.
LEMMA NextVipTypeOK == VipInv /\ [VipNext]_vipVars => VipTypeOK'
<1> SUFFICES ASSUME VipInv, [VipNext]_vipVars
             PROVE  VipTypeOK'
  OBVIOUS
<1> USE VipAssumption DEF VipInv, VipTypeOK, Stages, Kinds
<1>1. CASE Tick
  BY <1>1 DEF Tick, rowVars, grantVars, snapVars
<1>2. ASSUME NEW g \in Grants, Start(g)
      PROVE  VipTypeOK'
  <2>1. CASE Kind[g] = "daysRR"
    <3>1. snapHas' \in [Grants -> BOOLEAN]
      <4>1. snapHas' = [snapHas EXCEPT ![g] = User[g] \in has]
        BY <2>1, <1>2 DEF Start
      <4>2. snapHas \in [Grants -> BOOLEAN] /\ (User[g] \in has) \in BOOLEAN
        OBVIOUS
      <4>3. QED
        BY ONLY <4>1, <4>2, Zenon
    <3>2. snapVersion' \in [Grants -> Nat] /\ tries' \in [Grants -> 0..MaxRetries]
      <4>1. tries[g] < MaxRetries
        BY <1>2 DEF Start, GrantLocks
      <4>2. QED
        BY <2>1, <1>2, <4>1 DEF Start
    <3>3. QED
      BY <3>1, <3>2, <1>2 DEF Start, GrantAt, rowVars
  <2>2. CASE Kind[g] # "daysRR"
    BY <2>2, <1>2 DEF Start, GrantAt, rowVars, snapVars
  <2>3. QED
    BY <2>1, <2>2
<1>3. ASSUME NEW g \in Grants, Claim(g)
      PROVE  VipTypeOK'
  <2>1. CASE Key(g) \notin claims
    BY <2>1, <1>3 DEF Claim, ClaimFree, GrantAt, End, rowVars, snapVars, Key
  <2>2. CASE Key(g) \in claims /\ Kind[g] = "once"
    BY <2>2, <1>3, Rollback DEF Claim, Key
  <2>3. CASE Key(g) \in claims /\ Kind[g] # "once"
    BY <2>3, <1>3 DEF Claim, ClaimFree, GrantAt, End, rowVars, snapVars, Key
  <2>4. QED
    BY <2>1, <2>2, <2>3
<1>4. ASSUME NEW g \in Grants, LockRow(g)
      PROVE  VipTypeOK'
  <2>1. CASE ~Visible(g)
    BY <2>1, <1>4 DEF LockRow, Visible, Changed, RowFree, Serialization, GrantAt, End, rowVars, snapVars
  <2>2. CASE Visible(g) /\ ~Changed(g)
    BY <2>2, <1>4 DEF LockRow, Visible, Changed, RowFree, Serialization, GrantAt, End, rowVars, snapVars
  <2>3. CASE Visible(g) /\ Changed(g)
    BY <2>3, <1>4, Rollback DEF LockRow, Serialization
  <2>4. QED
    BY <2>1, <2>2, <2>3
<1>5. ASSUME NEW g \in Grants, ClaimRow(g)
      PROVE  VipTypeOK'
  <2>1. CASE User[g] \notin has
    BY <2>1, <1>5 DEF ClaimRow, RowFree, Serialization, GrantAt, End, rowVars, snapVars
  <2>2. CASE User[g] \in has /\ Kind[g] # "daysRR"
    BY <2>2, <1>5 DEF ClaimRow, RowFree, Serialization, GrantAt, End, rowVars, snapVars
  <2>3. CASE User[g] \in has /\ Kind[g] = "daysRR"
    BY <2>3, <1>5, Rollback DEF ClaimRow, Serialization
  <2>4. QED
    BY <2>1, <2>2, <2>3
<1>6. ASSUME NEW g \in Grants, Relock(g)
      PROVE  VipTypeOK'
  BY <1>6 DEF Relock, RowFree, GrantAt, rowVars, snapVars
<1>7. ASSUME NEW g \in Grants, Upsert(g)
      PROVE  VipTypeOK'
  BY <1>7 DEF Upsert, Later, GrantAt, End, rowVars, snapVars
<1>8. ASSUME NEW g \in Grants, Abort(g)
      PROVE  VipTypeOK'
  BY <1>8, Rollback DEF Abort
<1>9. CASE UNCHANGED vipVars
  BY <1>9 DEF vipVars, rowVars, grantVars, snapVars
<1>10. QED
  BY <1>1, <1>2, <1>3, <1>4, <1>5, <1>6, <1>7, <1>8, <1>9 DEF VipNext, Statement

\* Every step keeps the row of a user with one grant, which knows its value.
LEMMA NextGrantLocks == VipInv /\ [VipNext]_vipVars => GrantLocks'
<1> SUFFICES ASSUME VipInv, [VipNext]_vipVars
             PROVE  GrantLocks'
  OBVIOUS
<1> USE VipAssumption DEF VipInv, VipTypeOK, Stages, Kinds, GrantLocks, HoldsRow
<1>1. CASE Tick
  BY <1>1 DEF Tick, rowVars, grantVars, snapVars
<1>2. ASSUME NEW g \in Grants, Start(g)
      PROVE  GrantLocks'
  BY <1>2 DEF Start, GrantAt, rowVars, snapVars
<1>3. ASSUME NEW g \in Grants, Claim(g)
      PROVE  GrantLocks'
  <2>1. CASE Key(g) \notin claims
    <3>1. /\ stage' = [stage EXCEPT ![g] = "lock"] /\ stage[g] = "claim"
          /\ UNCHANGED <<now, has, expire, granted, taken, seen, inserted, snapHas, tries>>
      BY ONLY <2>1, <1>3 DEF Claim, GrantAt, Key, rowVars, snapVars
    <3>2. \A h \in Grants : \A s \in {"relock", "upsert", "start"} : stage'[h] = s <=> stage[h] = s
      BY <3>1
    <3>3. QED
      BY <3>1, <3>2
  <2>2. CASE Key(g) \in claims /\ Kind[g] = "once"
    BY <2>2, <1>3, Rollback DEF Claim, Key
  <2>3. CASE Key(g) \in claims /\ Kind[g] # "once"
    BY <2>3, <1>3 DEF Claim, ClaimFree, GrantAt, End, rowVars, snapVars, Key
  <2>4. QED
    BY <2>1, <2>2, <2>3
<1>4. ASSUME NEW g \in Grants, LockRow(g)
      PROVE  GrantLocks'
  <2>1. CASE ~Visible(g)
    BY <2>1, <1>4 DEF LockRow, Visible, Changed, RowFree, Serialization, GrantAt, End, rowVars, snapVars
  <2>2. CASE Visible(g) /\ ~Changed(g)
    BY <2>2, <1>4 DEF LockRow, Visible, Changed, RowFree, Serialization, GrantAt, End, rowVars, snapVars
  <2>3. CASE Visible(g) /\ Changed(g)
    BY <2>3, <1>4, Rollback DEF LockRow, Serialization
  <2>4. QED
    BY <2>1, <2>2, <2>3
<1>5. ASSUME NEW g \in Grants, ClaimRow(g)
      PROVE  GrantLocks'
  <2>1. CASE User[g] \notin has
    <3>1. UNCHANGED <<now, has, expire, granted, taken, seen, snapHas, tries>>
      BY ONLY <2>1, <1>5 DEF ClaimRow, rowVars
    <3>2. stage' = [stage EXCEPT ![g] = "relock"] /\ inserted' = [inserted EXCEPT ![g] = TRUE]
      BY ONLY <2>1, <1>5 DEF ClaimRow, GrantAt
    <3>3. \A h \in Grants \ {g} : HoldsRow(h)' <=> HoldsRow(h)
      BY <3>2
    <3>4. \A h \in Grants \ {g} : User[h] = User[g] => ~HoldsRow(h)
      BY ONLY <1>5 DEF ClaimRow, RowFree
    <3>5. \A h, k \in Grants : HoldsRow(h)' /\ HoldsRow(k)' /\ User[h] = User[k] => h = k
      <4>1. \A h, k \in Grants : HoldsRow(h) /\ HoldsRow(k) /\ User[h] = User[k] => h = k
        BY DEF GrantLocks
      <4>2. QED
        BY ONLY <3>3, <3>4, <4>1
    <3>6. \A h \in Grants : /\ inserted'[h] => stage'[h] \in {"relock", "upsert"} /\ User[h] \notin has'
                            /\ stage'[h] \in {"relock", "upsert"} /\ ~inserted'[h] => User[h] \in has'
      BY <2>1, <3>1, <3>2
    <3>7. \A h \in Grants : stage'[h] = "upsert" => stage[h] = "upsert" /\ inserted'[h] = inserted[h]
      BY <3>2
    <3>8. \A h \in Grants : stage'[h] = "upsert" =>
             seen'[h] = (IF inserted'[h] THEN taken'[h] + 1 ELSE expire'[User[h]])
      BY <3>1, <3>7
    <3>9. \A h \in Grants : stage'[h] = "start" => tries'[h] < MaxRetries
      BY <3>1, <3>2
    <3>10. QED
      BY <3>1, <3>5, <3>6, <3>8, <3>9
  <2>2. CASE User[g] \in has /\ Kind[g] # "daysRR"
    BY <2>2, <1>5 DEF ClaimRow, RowFree, GrantAt, rowVars, snapVars
  <2>3. CASE User[g] \in has /\ Kind[g] = "daysRR"
    BY <2>3, <1>5, Rollback DEF ClaimRow, Serialization
  <2>4. QED
    BY <2>1, <2>2, <2>3
<1>6. ASSUME NEW g \in Grants, Relock(g)
      PROVE  GrantLocks'
  BY <1>6 DEF Relock, RowFree, GrantAt, rowVars, snapVars
<1>7. ASSUME NEW g \in Grants, Upsert(g)
      PROVE  GrantLocks'
  BY <1>7 DEF Upsert, Later, GrantAt, End, rowVars, snapVars
<1>8. ASSUME NEW g \in Grants, Abort(g)
      PROVE  GrantLocks'
  BY <1>8, Rollback DEF Abort
<1>9. CASE UNCHANGED vipVars
  BY <1>9 DEF vipVars, rowVars, grantVars, snapVars
<1>10. QED
  BY <1>1, <1>2, <1>3, <1>4, <1>5, <1>6, <1>7, <1>8, <1>9 DEF VipNext, Statement

\* Every step keeps a claim with one grant from its INSERT on.
LEMMA NextReservations == VipInv /\ [VipNext]_vipVars => Reservations'
<1> SUFFICES ASSUME VipInv, [VipNext]_vipVars
             PROVE  Reservations'
  OBVIOUS
<1> USE VipAssumption DEF VipInv, VipTypeOK, Stages, Kinds, Reservations, OncePerUser, Open, Key
<1>1. CASE Tick
  BY <1>1 DEF Tick, rowVars, grantVars, snapVars
<1>2. ASSUME NEW g \in Grants, Start(g)
      PROVE  Reservations'
  BY <1>2 DEF Start, GrantAt, rowVars, snapVars
<1>3. ASSUME NEW g \in Grants, Claim(g)
      PROVE  Reservations'
  <2>1. CASE Key(g) \notin claims
    <3>1. \A h \in Grants \ {g} : stage'[h] = stage[h] /\ claimed'[h] = claimed[h]
      BY <2>1, <1>3 DEF Claim, GrantAt
    <3>2. stage'[g] = "lock" /\ claimed'[g] /\ claims' = claims
      BY <2>1, <1>3 DEF Claim, GrantAt, Key, rowVars
    <3>3. \A h \in Grants \ {g} : claimed[h] => Key(h) # Key(g)
      BY <1>3 DEF Claim, ClaimFree
    <3>4. OncePerUser'
      BY <3>1, <3>2
    <3>5. QED
      BY <2>1, <3>1, <3>2, <3>3, <3>4
  <2>2. CASE Key(g) \in claims /\ Kind[g] = "once"
    BY <2>2, <1>3, Rollback DEF Claim, Key
  <2>3. CASE Key(g) \in claims /\ Kind[g] # "once"
    <3>1. \A h \in Grants \ {g} : stage'[h] = stage[h]
      BY <2>3, <1>3 DEF Claim, GrantAt
    <3>2. stage'[g] = "lock" /\ claimed' = claimed /\ claims' = claims
      BY <2>3, <1>3 DEF Claim, GrantAt, Key, rowVars
    <3>3. stage[g] = "claim"
      BY <1>3 DEF Claim
    <3>4. QED
      BY <2>3, <3>1, <3>2, <3>3
  <2>4. QED
    BY <2>1, <2>2, <2>3
<1>4. ASSUME NEW g \in Grants, LockRow(g)
      PROVE  Reservations'
  <2>1. CASE ~(Visible(g) /\ Changed(g))
    <3>1. /\ stage' = [stage EXCEPT ![g] = "insert"] \/ stage' = [stage EXCEPT ![g] = "upsert"]
          /\ UNCHANGED <<claims, claimed>> /\ stage[g] = "lock"
      BY ONLY <2>1, <1>4 DEF LockRow, GrantAt, rowVars
    <3>2. \A h \in Grants : /\ stage'[h] \in {"lock", "insert", "relock", "upsert"} <=>
                                 stage[h] \in {"lock", "insert", "relock", "upsert"}
                            /\ stage'[h] = "done" <=> stage[h] = "done"
      BY <3>1
    <3>3. QED
      BY <3>1, <3>2
  <2>3. CASE Visible(g) /\ Changed(g)
    BY <2>3, <1>4, Rollback DEF LockRow, Serialization
  <2>4. QED
    BY <2>1, <2>3
<1>5. ASSUME NEW g \in Grants, ClaimRow(g)
      PROVE  Reservations'
  <2>1. CASE ~(User[g] \in has /\ Kind[g] = "daysRR")
    <3>1. stage' = [stage EXCEPT ![g] = "relock"] /\ UNCHANGED <<claims, claimed>> /\ stage[g] = "insert"
      BY ONLY <2>1, <1>5 DEF ClaimRow, GrantAt, rowVars
    <3>2. \A h \in Grants : /\ stage'[h] \in {"lock", "insert", "relock", "upsert"} <=>
                                 stage[h] \in {"lock", "insert", "relock", "upsert"}
                            /\ stage'[h] = "done" <=> stage[h] = "done"
      BY <3>1
    <3>3. QED
      BY <3>1, <3>2
  <2>3. CASE User[g] \in has /\ Kind[g] = "daysRR"
    BY <2>3, <1>5, Rollback DEF ClaimRow, Serialization
  <2>4. QED
    BY <2>1, <2>3
<1>6. ASSUME NEW g \in Grants, Relock(g)
      PROVE  Reservations'
  BY <1>6 DEF Relock, RowFree, GrantAt, rowVars, snapVars
<1>7. ASSUME NEW g \in Grants, Upsert(g)
      PROVE  Reservations'
  BY <1>7 DEF Upsert, Later, GrantAt, End, rowVars, snapVars
<1>8. ASSUME NEW g \in Grants, Abort(g)
      PROVE  Reservations'
  BY <1>8, Rollback DEF Abort
<1>9. CASE UNCHANGED vipVars
  BY <1>9 DEF vipVars, rowVars, grantVars, snapVars
<1>10. QED
  BY <1>1, <1>2, <1>3, <1>4, <1>5, <1>6, <1>7, <1>8, <1>9 DEF VipNext, Statement

\* Every step keeps at least the sum of the grants.
LEMMA NextNothingLost == VipInv /\ [VipNext]_vipVars => NothingLost'
<1> SUFFICES ASSUME VipInv, [VipNext]_vipVars
             PROVE  NothingLost'
  OBVIOUS
<1> USE VipAssumption DEF VipInv, VipTypeOK, Stages, Kinds, GrantLocks, HoldsRow, NothingLost
<1>1. CASE Tick
  BY <1>1 DEF Tick, rowVars, grantVars, snapVars
<1>2. ASSUME NEW g \in Grants, Start(g)
      PROVE  NothingLost'
  BY <1>2 DEF Start, GrantAt, rowVars, snapVars
<1>3. ASSUME NEW g \in Grants, Claim(g)
      PROVE  NothingLost'
  BY <1>3 DEF Claim, ClaimFree, GrantAt, End, rowVars, snapVars
<1>4. ASSUME NEW g \in Grants, LockRow(g)
      PROVE  NothingLost'
  BY <1>4 DEF LockRow, Visible, Changed, RowFree, Serialization, GrantAt, End, rowVars, snapVars
<1>5. ASSUME NEW g \in Grants, ClaimRow(g)
      PROVE  NothingLost'
  BY <1>5 DEF ClaimRow, RowFree, Serialization, GrantAt, End, rowVars, snapVars
<1>6. ASSUME NEW g \in Grants, Relock(g)
      PROVE  NothingLost'
  BY <1>6 DEF Relock, RowFree, GrantAt, rowVars, snapVars
<1>7. ASSUME NEW g \in Grants, Upsert(g)
      PROVE  NothingLost'
  BY <1>7 DEF Upsert, Later, GrantAt, End, rowVars, snapVars
<1>8. ASSUME NEW g \in Grants, Abort(g)
      PROVE  NothingLost'
  BY <1>8 DEF Abort, Ended, GrantAt, End, rowVars, snapVars
<1>9. CASE UNCHANGED vipVars
  BY <1>9 DEF vipVars, rowVars, grantVars, snapVars
<1>10. QED
  BY <1>1, <1>2, <1>3, <1>4, <1>5, <1>6, <1>7, <1>8, <1>9 DEF VipNext, Statement

\* Every step keeps at most the sum of the grants.
LEMMA NextNothingInvented == VipInv /\ [VipNext]_vipVars => NothingInvented'
<1> SUFFICES ASSUME VipInv, [VipNext]_vipVars
             PROVE  NothingInvented'
  OBVIOUS
<1> USE VipAssumption DEF VipInv, VipTypeOK, Stages, Kinds, GrantLocks, HoldsRow, NothingInvented
<1>1. CASE Tick
  BY <1>1 DEF Tick, rowVars, grantVars, snapVars
<1>2. ASSUME NEW g \in Grants, Start(g)
      PROVE  NothingInvented'
  BY <1>2 DEF Start, GrantAt, rowVars, snapVars
<1>3. ASSUME NEW g \in Grants, Claim(g)
      PROVE  NothingInvented'
  BY <1>3 DEF Claim, ClaimFree, GrantAt, End, rowVars, snapVars
<1>4. ASSUME NEW g \in Grants, LockRow(g)
      PROVE  NothingInvented'
  BY <1>4 DEF LockRow, Visible, Changed, RowFree, Serialization, GrantAt, End, rowVars, snapVars
<1>5. ASSUME NEW g \in Grants, ClaimRow(g)
      PROVE  NothingInvented'
  BY <1>5 DEF ClaimRow, RowFree, Serialization, GrantAt, End, rowVars, snapVars
<1>6. ASSUME NEW g \in Grants, Relock(g)
      PROVE  NothingInvented'
  BY <1>6 DEF Relock, RowFree, GrantAt, rowVars, snapVars
<1>7. ASSUME NEW g \in Grants, Upsert(g)
      PROVE  NothingInvented'
  BY <1>7 DEF Upsert, Later, GrantAt, End, rowVars, snapVars
<1>8. ASSUME NEW g \in Grants, Abort(g)
      PROVE  NothingInvented'
  BY <1>8 DEF Abort, Ended, GrantAt, End, rowVars, snapVars
<1>9. CASE UNCHANGED vipVars
  BY <1>9 DEF vipVars, rowVars, grantVars, snapVars
<1>10. QED
  BY <1>1, <1>2, <1>3, <1>4, <1>5, <1>6, <1>7, <1>8, <1>9 DEF VipNext, Statement

\* A grant that commits counts in full.
LEMMA StepCounts == VipInv /\ [VipNext]_vipVars => \A g \in Grants : Counts(g)
<1> SUFFICES ASSUME VipInv, [VipNext]_vipVars
             PROVE  \A g \in Grants : Counts(g)
  OBVIOUS
<1> USE VipAssumption DEF VipInv, VipTypeOK, Stages, Kinds, GrantLocks, HoldsRow, Counts, Base, Ended
<1>1. CASE Tick
  BY <1>1 DEF Tick, rowVars, grantVars, snapVars
<1>2. ASSUME NEW f \in Grants, Start(f)
      PROVE  \A g \in Grants : Counts(g)
  BY <1>2 DEF Start, GrantAt, rowVars, snapVars
<1>3. ASSUME NEW f \in Grants, Claim(f)
      PROVE  \A g \in Grants : Counts(g)
  BY <1>3 DEF Claim, ClaimFree, GrantAt, End, rowVars, snapVars
<1>4. ASSUME NEW f \in Grants, LockRow(f)
      PROVE  \A g \in Grants : Counts(g)
  BY <1>4 DEF LockRow, Visible, Changed, RowFree, Serialization, GrantAt, End, rowVars, snapVars
<1>5. ASSUME NEW f \in Grants, ClaimRow(f)
      PROVE  \A g \in Grants : Counts(g)
  BY <1>5 DEF ClaimRow, RowFree, Serialization, GrantAt, End, rowVars, snapVars
<1>6. ASSUME NEW f \in Grants, Relock(f)
      PROVE  \A g \in Grants : Counts(g)
  BY <1>6 DEF Relock, RowFree, GrantAt, rowVars, snapVars
<1>7. ASSUME NEW f \in Grants, Upsert(f)
      PROVE  \A g \in Grants : Counts(g)
  BY <1>7 DEF Upsert, Later, GrantAt, End, rowVars, snapVars
<1>8. ASSUME NEW f \in Grants, Abort(f)
      PROVE  \A g \in Grants : Counts(g)
  BY <1>8 DEF Abort, Ended, GrantAt, End, rowVars, snapVars
<1>9. CASE UNCHANGED vipVars
  BY <1>9 DEF vipVars, rowVars, grantVars, snapVars
<1>10. QED
  BY <1>1, <1>2, <1>3, <1>4, <1>5, <1>6, <1>7, <1>8, <1>9 DEF VipNext, Statement

\* The inductive invariant holds in every reachable state.
THEOREM VipInvariance == VipSpec => []VipInv
<1>1. VipInv /\ [VipNext]_vipVars => VipInv'
  BY NextVipTypeOK, NextGrantLocks, NextReservations, NextNothingLost, NextNothingInvented DEF VipInv
<1>2. QED
  BY InitVipInv, <1>1, PTL DEF VipSpec

\* Every variable keeps its type.
THEOREM VipTypes == VipSpec => []VipTypeOK
<1>1. VipInv => VipTypeOK
  BY DEF VipInv
<1>2. QED
  BY VipInvariance, <1>1, PTL

\* However grants to a user interleave, no committed one is swallowed.
THEOREM NoGrantLost == VipSpec => []NothingLost
<1>1. VipInv => NothingLost
  BY DEF VipInv
<1>2. QED
  BY VipInvariance, <1>1, PTL

\* However grants to a user interleave, none is counted twice.
THEOREM NoGrantInvented == VipSpec => []NothingInvented
<1>1. VipInv => NothingInvented
  BY DEF VipInv
<1>2. QED
  BY VipInvariance, <1>1, PTL

\* A trial or free plan is delivered to a user at most once.
THEOREM TrialsAreOnce == VipSpec => []OncePerUser
<1>1. VipInv => OncePerUser
  BY DEF VipInv, Reservations
<1>2. QED
  BY VipInvariance, <1>1, PTL

\* Each grant extends the time that is there when it commits by its duration.
THEOREM GrantsCount == VipSpec => EveryGrantCounts
<1>1. VipSpec => [][\A g \in Grants : Counts(g)]_vipVars
  BY VipInvariance, StepCounts, PTL DEF VipSpec
<1>2. QED
  BY <1>1 DEF EveryGrantCounts

-----------------------------------------------------------------------------
(***************************************************************************)
(* Chat requests                                                           *)
(*                                                                         *)
(* PaidIsAnswered and OneAtATime speak of requests that are far enough; to *)
(* be inductive they need what is known of a request at each place         *)
(* (Progress) and who has set the marker (Marking).  The counters agree    *)
(* when nothing is under way because at any time each of them is the       *)
(* number of requests that stand on it (Counting).                         *)
(***************************************************************************)
Before == {"idle", "lookup", "acquire", "poll reply", "poll marker",
           "prepare", "count", "charge", "uncount"}

\* What is known of a request whose statements all answered.
Known(q) ==
  /\ place[q] \in Before => ~billed[q] /\ ~answered[q] /\ refund[q] = "none"
  /\ place[q] = "stream" => billed[q] /\ refund[q] = "none"
  /\ place[q] = "store" => billed[q] /\ answered[q] /\ refund[q] = "none"
  /\ refund[q] # "none" => billed[q]
  /\ place[q] \in {"release", "done"} =>
       /\ answered[q] => billed[q]
       /\ billed[q] => (answered[q] <=> refund[q] = "none")

Progress == "lost" \notin faults => \A q \in Requests : Known(q)

MarkersLast == faults \cap {"redis", "outlived"} = {}

Marking ==
  MarkersLast =>
    /\ \A q \in Requests : InFlight(q) => acquired[q] /\ turn[q] \in markers
    /\ \A q, r \in Requests : InFlight(q) /\ InFlight(r) /\ turn[q] = turn[r] => q = r

\* The requests that stand on the counter in the database, and on that in Redis.
OnUsed == {q \in Requests : billed[q] /\ refund[q] \in {"none", "db", "failed"}}
OnCached == {q \in Requests : \/ place[q] \in {"charge", "uncount"}
                              \/ billed[q] /\ refund[q] # "done"}

NothingWrong == faults \cap {"redis", "lost", "left", "crash"} = {}

Counting ==
  NothingWrong =>
    /\ \A q \in Requests : refund[q] \notin {"rebuild", "lost"}
    /\ used = Cardinality(OnUsed)
    /\ Count(cached) = Cardinality(OnCached)

-----------------------------------------------------------------------------
(* Type correctness. *)

\* The initial state has the types.
LEMMA InitTypeOK == ChatInit => ChatTypeOK
  BY QuotaAssumption DEF ChatInit, ChatTypeOK, Places, RefundPlaces

\* Every step keeps the types.
LEMMA NextChatTypeOK == ChatTypeOK /\ [ChatNext]_chatVars => ChatTypeOK'
<1> SUFFICES ASSUME ChatTypeOK, [ChatNext]_chatVars
             PROVE  ChatTypeOK'
  OBVIOUS
<1> USE DEF ChatTypeOK, quotaVars, keyVars, reqVars, refundVars, Go, Count,
        RedisFails, DBFails, AnswerLost, GoesWrong, RefundMoves, StartRefund
<1>a. /\ {"idle", "lookup", "acquire", "poll reply", "poll marker"} \subseteq Places
      /\ {"prepare", "count", "charge", "uncount"} \subseteq Places
      /\ {"stream", "store", "release", "done", "dead"} \subseteq Places
      /\ {"none", "db", "redis", "rebuild", "done", "failed", "lost"} \subseteq RefundPlaces
      /\ {"redis", "lost", "left", "outlived", "crash"} \subseteq FaultKinds
  BY DEF Places, RefundPlaces, FaultKinds
<1>1. ASSUME NEW q \in Requests, Ask(q)           PROVE ChatTypeOK'  BY <1>a, <1>1 DEF Ask
<1>2. ASSUME NEW q \in Requests, Lookup(q)
      PROVE  ChatTypeOK'
  <2>1. place' \in [Requests -> Places] /\ refund' \in [Requests -> RefundPlaces]
    BY <1>a, <1>2 DEF Lookup
  <2>2. used' \in 0..VIPQuota /\ cached' \in Int \cup {Absent}
    BY <1>2 DEF Lookup
  <2>3. limit' \in [Requests -> {0, PlainQuota, VIPQuota}] /\ dbRead' \in [Requests -> 0..VIPQuota]
    BY <1>2, <2>2 DEF Lookup
  <2>4. faults' \subseteq FaultKinds
    BY <1>a, <1>2 DEF Lookup
  <2>5. /\ markers' \subseteq Turns /\ replies' \subseteq Turns
        /\ turn' \in [Requests -> Turns] /\ acquired' \in [Requests -> BOOLEAN]
        /\ answered' \in [Requests -> BOOLEAN] /\ billed' \in [Requests -> BOOLEAN]
    BY <1>2 DEF Lookup
  <2>6. QED
    BY <2>1, <2>2, <2>3, <2>4, <2>5
<1>3. ASSUME NEW q \in Requests, Acquire(q)
      PROVE  ChatTypeOK'
  <2>1. place' \in [Requests -> Places] /\ refund' \in [Requests -> RefundPlaces]
    BY <1>a, <1>3 DEF Acquire
  <2>2. used' \in 0..VIPQuota /\ cached' \in Int \cup {Absent}
    BY <1>3 DEF Acquire
  <2>3. limit' \in [Requests -> {0, PlainQuota, VIPQuota}] /\ dbRead' \in [Requests -> 0..VIPQuota]
    BY QuotaAssumption, <1>3, <2>2 DEF Acquire
  <2>4. faults' \subseteq FaultKinds
    BY <1>a, <1>3 DEF Acquire
  <2>5. /\ turn' \in [Requests -> Turns] /\ replies' \subseteq Turns
        /\ answered' \in [Requests -> BOOLEAN] /\ billed' \in [Requests -> BOOLEAN]
    BY <1>3 DEF Acquire
  <2>6. turn[q] \in Turns
    OBVIOUS
  <2>7. markers' \subseteq Turns
    BY <1>3, <2>6 DEF Acquire
  <2>8. acquired' = acquired \/ acquired' = [acquired EXCEPT ![q] = TRUE]
    BY <1>3 DEF Acquire
  <2>9. QED
    BY <2>1, <2>2, <2>3, <2>4, <2>5, <2>7, <2>8
<1>4. ASSUME NEW q \in Requests, PollReply(q)     PROVE ChatTypeOK'  BY <1>a, <1>4 DEF PollReply
<1>5. ASSUME NEW q \in Requests, PollMarker(q)    PROVE ChatTypeOK'  BY <1>a, <1>5 DEF PollMarker
<1>6. ASSUME NEW q \in Requests, StopWaiting(q)   PROVE ChatTypeOK'  BY <1>a, <1>6 DEF StopWaiting
<1>7. ASSUME NEW q \in Requests, Prepare(q)
      PROVE  ChatTypeOK'
  <2>1. place' \in [Requests -> Places] /\ refund' \in [Requests -> RefundPlaces]
    BY <1>a, <1>7 DEF Prepare
  <2>2. used' \in 0..VIPQuota /\ cached' \in Int \cup {Absent}
    BY QuotaAssumption, <1>7 DEF Prepare
  <2>3. limit' \in [Requests -> {0, PlainQuota, VIPQuota}] /\ dbRead' \in [Requests -> 0..VIPQuota]
    BY QuotaAssumption, <1>7, <2>2 DEF Prepare
  <2>4. faults' \subseteq FaultKinds
    BY <1>a, <1>7 DEF Prepare
  <2>5. /\ markers' \subseteq Turns /\ replies' \subseteq Turns
        /\ turn' \in [Requests -> Turns] /\ acquired' \in [Requests -> BOOLEAN]
        /\ answered' \in [Requests -> BOOLEAN] /\ billed' \in [Requests -> BOOLEAN]
    BY <1>7 DEF Prepare
  <2>6. QED
    BY <2>1, <2>2, <2>3, <2>4, <2>5
<1>8. ASSUME NEW q \in Requests, CountInRedis(q)
      PROVE  ChatTypeOK'
  <2>1. place' \in [Requests -> Places] /\ refund' \in [Requests -> RefundPlaces]
    BY <1>a, <1>8 DEF CountInRedis
  <2>2. used' \in 0..VIPQuota /\ cached' \in Int \cup {Absent}
    BY QuotaAssumption, <1>8 DEF CountInRedis
  <2>3. limit' \in [Requests -> {0, PlainQuota, VIPQuota}] /\ dbRead' \in [Requests -> 0..VIPQuota]
    BY QuotaAssumption, <1>8, <2>2 DEF CountInRedis
  <2>4. faults' \subseteq FaultKinds
    BY <1>a, <1>8 DEF CountInRedis
  <2>5. /\ markers' \subseteq Turns /\ replies' \subseteq Turns
        /\ turn' \in [Requests -> Turns] /\ acquired' \in [Requests -> BOOLEAN]
        /\ answered' \in [Requests -> BOOLEAN] /\ billed' \in [Requests -> BOOLEAN]
    BY <1>8 DEF CountInRedis
  <2>6. QED
    BY <2>1, <2>2, <2>3, <2>4, <2>5
<1>9. ASSUME NEW q \in Requests, ChargeQuota(q)
      PROVE  ChatTypeOK'
  <2>1. place' \in [Requests -> Places] /\ refund' \in [Requests -> RefundPlaces]
    BY <1>a, <1>9 DEF ChargeQuota
  <2>2. used' \in 0..VIPQuota /\ cached' \in Int \cup {Absent}
    BY QuotaAssumption, <1>9 DEF ChargeQuota
  <2>3. limit' \in [Requests -> {0, PlainQuota, VIPQuota}] /\ dbRead' \in [Requests -> 0..VIPQuota]
    BY QuotaAssumption, <1>9, <2>2 DEF ChargeQuota
  <2>4. faults' \subseteq FaultKinds
    <3>1. faults' = faults \/ \E k \in FaultKinds : faults' = faults \cup {k}
      BY ONLY <1>9 DEF ChargeQuota, AnswerLost, DBFails, GoesWrong, FaultKinds
    <3>2. QED
      BY <3>1
  <2>5. /\ markers' \subseteq Turns /\ replies' \subseteq Turns
        /\ turn' \in [Requests -> Turns] /\ acquired' \in [Requests -> BOOLEAN]
        /\ answered' \in [Requests -> BOOLEAN] /\ billed' \in [Requests -> BOOLEAN]
    BY <1>9 DEF ChargeQuota
  <2>6. QED
    BY <2>1, <2>2, <2>3, <2>4, <2>5
<1>10. ASSUME NEW q \in Requests, Uncount(q)
      PROVE  ChatTypeOK'
  <2>1. place' \in [Requests -> Places] /\ refund' \in [Requests -> RefundPlaces]
    BY <1>a, <1>10 DEF Uncount
  <2>2. used' \in 0..VIPQuota /\ cached' \in Int \cup {Absent}
    BY QuotaAssumption, <1>10 DEF Uncount
  <2>3. limit' \in [Requests -> {0, PlainQuota, VIPQuota}] /\ dbRead' \in [Requests -> 0..VIPQuota]
    BY QuotaAssumption, <1>10, <2>2 DEF Uncount
  <2>4. faults' \subseteq FaultKinds
    BY <1>a, <1>10 DEF Uncount
  <2>5. /\ markers' \subseteq Turns /\ replies' \subseteq Turns
        /\ turn' \in [Requests -> Turns] /\ acquired' \in [Requests -> BOOLEAN]
        /\ answered' \in [Requests -> BOOLEAN] /\ billed' \in [Requests -> BOOLEAN]
    BY <1>10 DEF Uncount
  <2>6. QED
    BY <2>1, <2>2, <2>3, <2>4, <2>5
<1>11. ASSUME NEW q \in Requests, Chunk(q)        PROVE ChatTypeOK'  BY <1>a, <1>11 DEF Chunk
<1>12. ASSUME NEW q \in Requests, Breaks(q)
      PROVE  ChatTypeOK'
  <2>1. place' \in [Requests -> Places]
    BY <1>a, <1>12 DEF Breaks
  <2>2. refund' \in [Requests -> RefundPlaces]
    BY <1>a, <1>12 DEF Breaks
  <2>3. UNCHANGED <<used, cached, markers, replies, turn, acquired, limit, answered, billed, dbRead, faults>>
    BY <1>12 DEF Breaks
  <2>4. QED
    BY <2>1, <2>2, <2>3
<1>13. ASSUME NEW q \in Requests, Ends(q)
      PROVE  ChatTypeOK'
  <2>1. place' \in [Requests -> Places]
    BY <1>a, <1>13 DEF Ends
  <2>2. refund' \in [Requests -> RefundPlaces]
    BY <1>a, <1>13 DEF Ends
  <2>3. UNCHANGED <<used, cached, markers, replies, turn, acquired, limit, answered, billed, dbRead, faults>>
    BY <1>13 DEF Ends
  <2>4. QED
    BY <2>1, <2>2, <2>3
<1>14. ASSUME NEW q \in Requests, StoreReply(q)   PROVE ChatTypeOK'  BY <1>a, <1>14 DEF StoreReply
<1>15. ASSUME NEW q \in Requests, Release(q)
      PROVE  ChatTypeOK'
  <2>1. place' \in [Requests -> Places] /\ refund' \in [Requests -> RefundPlaces]
    BY <1>a, <1>15 DEF Release
  <2>2. used' \in 0..VIPQuota /\ cached' \in Int \cup {Absent}
    BY <1>15 DEF Release
  <2>3. limit' \in [Requests -> {0, PlainQuota, VIPQuota}] /\ dbRead' \in [Requests -> 0..VIPQuota]
    BY <1>15, <2>2 DEF Release
  <2>4. faults' \subseteq FaultKinds
    BY <1>a, <1>15 DEF Release
  <2>5. /\ markers' \subseteq Turns /\ replies' \subseteq Turns
        /\ turn' \in [Requests -> Turns] /\ acquired' \in [Requests -> BOOLEAN]
        /\ answered' \in [Requests -> BOOLEAN] /\ billed' \in [Requests -> BOOLEAN]
    BY <1>15 DEF Release
  <2>6. QED
    BY <2>1, <2>2, <2>3, <2>4, <2>5
<1>16. ASSUME NEW q \in Requests, RefundInDB(q)
      PROVE  ChatTypeOK'
  <2>1. place' \in [Requests -> Places] /\ refund' \in [Requests -> RefundPlaces]
    BY <1>a, <1>16 DEF RefundInDB
  <2>2. used' \in 0..VIPQuota /\ cached' \in Int \cup {Absent}
    BY QuotaAssumption, <1>16 DEF RefundInDB
  <2>3. limit' \in [Requests -> {0, PlainQuota, VIPQuota}] /\ dbRead' \in [Requests -> 0..VIPQuota]
    BY QuotaAssumption, <1>16, <2>2 DEF RefundInDB
  <2>4. faults' \subseteq FaultKinds
    BY <1>a, <1>16 DEF RefundInDB
  <2>5. /\ markers' \subseteq Turns /\ replies' \subseteq Turns
        /\ turn' \in [Requests -> Turns] /\ acquired' \in [Requests -> BOOLEAN]
        /\ answered' \in [Requests -> BOOLEAN] /\ billed' \in [Requests -> BOOLEAN]
    BY <1>16 DEF RefundInDB
  <2>6. QED
    BY <2>1, <2>2, <2>3, <2>4, <2>5
<1>17. ASSUME NEW q \in Requests, RefundInRedis(q)
      PROVE  ChatTypeOK'
  <2>1. place' \in [Requests -> Places] /\ refund' \in [Requests -> RefundPlaces]
    BY <1>a, <1>17 DEF RefundInRedis
  <2>2. used' \in 0..VIPQuota /\ cached' \in Int \cup {Absent}
    BY QuotaAssumption, <1>17 DEF RefundInRedis
  <2>3. limit' \in [Requests -> {0, PlainQuota, VIPQuota}] /\ dbRead' \in [Requests -> 0..VIPQuota]
    BY QuotaAssumption, <1>17, <2>2 DEF RefundInRedis
  <2>4. faults' \subseteq FaultKinds
    BY <1>a, <1>17 DEF RefundInRedis
  <2>5. /\ markers' \subseteq Turns /\ replies' \subseteq Turns
        /\ turn' \in [Requests -> Turns] /\ acquired' \in [Requests -> BOOLEAN]
        /\ answered' \in [Requests -> BOOLEAN] /\ billed' \in [Requests -> BOOLEAN]
    BY <1>17 DEF RefundInRedis
  <2>6. QED
    BY <2>1, <2>2, <2>3, <2>4, <2>5
<1>18. ASSUME NEW q \in Requests, RebuildCounter(q)
      PROVE  ChatTypeOK'
  <2>1. place' \in [Requests -> Places] /\ refund' \in [Requests -> RefundPlaces]
    BY <1>a, <1>18 DEF RebuildCounter
  <2>2. used' \in 0..VIPQuota /\ cached' \in Int \cup {Absent}
    BY QuotaAssumption, <1>18 DEF RebuildCounter
  <2>3. limit' \in [Requests -> {0, PlainQuota, VIPQuota}] /\ dbRead' \in [Requests -> 0..VIPQuota]
    BY QuotaAssumption, <1>18, <2>2 DEF RebuildCounter
  <2>4. faults' \subseteq FaultKinds
    BY <1>a, <1>18 DEF RebuildCounter
  <2>5. /\ markers' \subseteq Turns /\ replies' \subseteq Turns
        /\ turn' \in [Requests -> Turns] /\ acquired' \in [Requests -> BOOLEAN]
        /\ answered' \in [Requests -> BOOLEAN] /\ billed' \in [Requests -> BOOLEAN]
    BY <1>18 DEF RebuildCounter
  <2>6. QED
    BY <2>1, <2>2, <2>3, <2>4, <2>5
<1>19. ASSUME NEW q \in Requests, Crash(q)
      PROVE  ChatTypeOK'
  <2>1. place' \in [Requests -> Places] /\ refund' \in [Requests -> RefundPlaces]
    BY <1>a, <1>19 DEF Crash
  <2>2. used' \in 0..VIPQuota /\ cached' \in Int \cup {Absent}
    BY <1>19 DEF Crash
  <2>3. limit' \in [Requests -> {0, PlainQuota, VIPQuota}] /\ dbRead' \in [Requests -> 0..VIPQuota]
    BY QuotaAssumption, <1>19, <2>2 DEF Crash
  <2>4. faults' \subseteq FaultKinds
    BY <1>a, <1>19 DEF Crash
  <2>5. /\ markers' \subseteq Turns /\ replies' \subseteq Turns
        /\ turn' \in [Requests -> Turns] /\ acquired' \in [Requests -> BOOLEAN]
        /\ answered' \in [Requests -> BOOLEAN] /\ billed' \in [Requests -> BOOLEAN]
    BY <1>19 DEF Crash
  <2>6. QED
    BY <2>1, <2>2, <2>3, <2>4, <2>5
<1>20. ASSUME NEW t \in Turns, MarkerExpires(t) \/ MarkerOutlived(t) \/ ReplyExpires(t)
       PROVE  ChatTypeOK'
  BY <1>a, <1>20 DEF MarkerExpires, MarkerOutlived, ReplyExpires
<1>21. CASE RedisRestarts
  BY <1>a, <1>21 DEF RedisRestarts
<1>22. CASE UNCHANGED chatVars
  BY <1>a, <1>22 DEF chatVars
<1>23. QED
  BY <1>1, <1>2, <1>3, <1>4, <1>5, <1>6, <1>7, <1>8, <1>9, <1>10, <1>11, <1>12, <1>13,
     <1>14, <1>15, <1>16, <1>17, <1>18, <1>19, <1>20, <1>21, <1>22 DEF ChatNext, Serve, Refund

\* Every variable of ChatTurn keeps its type, and the charges of the database stay
\* within the larger quota and never below zero.
THEOREM ChatTypeCorrectness == ChatSpec => []ChatTypeOK
  BY InitTypeOK, NextChatTypeOK, PTL DEF ChatSpec

-----------------------------------------------------------------------------
(* The life of a request. *)

\* No fault is forgotten.
LEMMA FaultsGrow == [ChatNext]_chatVars => faults \subseteq faults'
<1> USE DEF RedisFails, DBFails, AnswerLost, GoesWrong
<1>1. ASSUME NEW q \in Requests, Ask(q) \/ Lookup(q) \/ Acquire(q) \/ PollReply(q) \/ PollMarker(q)
      PROVE  faults \subseteq faults'
  BY <1>1 DEF Ask, Lookup, Acquire, PollReply, PollMarker
<1>2. ASSUME NEW q \in Requests, StopWaiting(q) \/ Prepare(q) \/ CountInRedis(q) \/ ChargeQuota(q) \/ Uncount(q)
      PROVE  faults \subseteq faults'
  BY <1>2 DEF StopWaiting, Prepare, CountInRedis, ChargeQuota, Uncount
<1>3. ASSUME NEW q \in Requests, Chunk(q) \/ Breaks(q) \/ Ends(q) \/ StoreReply(q) \/ Release(q)
      PROVE  faults \subseteq faults'
  BY <1>3 DEF Chunk, Breaks, Ends, StoreReply, Release
<1>4. ASSUME NEW q \in Requests, RefundInDB(q) \/ RefundInRedis(q) \/ RebuildCounter(q) \/ Crash(q)
      PROVE  faults \subseteq faults'
  BY <1>4 DEF RefundInDB, RefundInRedis, RebuildCounter, Crash
<1>5. ASSUME NEW t \in Turns, MarkerExpires(t) \/ MarkerOutlived(t) \/ ReplyExpires(t)
      PROVE  faults \subseteq faults'
  BY <1>5 DEF MarkerExpires, MarkerOutlived, ReplyExpires
<1>6. CASE RedisRestarts \/ UNCHANGED chatVars
  BY <1>6 DEF RedisRestarts, chatVars
<1>7. QED
  BY <1>1, <1>2, <1>3, <1>4, <1>5, <1>6 DEF ChatNext, Serve, Refund

\* At first no request has got anywhere.
LEMMA InitProgress == ChatInit => Progress
  BY DEF ChatInit, Progress, Known, Before

\* Every step keeps what is known of the requests.
LEMMA NextProgress == ChatTypeOK /\ Progress /\ [ChatNext]_chatVars => Progress'
<1> SUFFICES ASSUME ChatTypeOK, Progress, [ChatNext]_chatVars, "lost" \notin faults', NEW r \in Requests
             PROVE  Known(r)'
  BY DEF Progress
<1>a. Known(r)
  BY FaultsGrow DEF Progress
<1> USE <1>a DEF ChatTypeOK, Known, Before, Go, RefundMoves, StartRefund, reqVars, refundVars,
        AnswerLost, GoesWrong
<1>1. ASSUME NEW q \in Requests, Ask(q)  PROVE Known(r)'
  BY <1>1 DEF Ask
<1>2. ASSUME NEW q \in Requests, Lookup(q)  PROVE Known(r)'
  BY <1>2 DEF Lookup
<1>3. ASSUME NEW q \in Requests, Acquire(q)  PROVE Known(r)'
  BY <1>3 DEF Acquire
<1>4. ASSUME NEW q \in Requests, PollReply(q)  PROVE Known(r)'
  BY <1>4 DEF PollReply
<1>5. ASSUME NEW q \in Requests, PollMarker(q)  PROVE Known(r)'
  BY <1>5 DEF PollMarker
<1>6. ASSUME NEW q \in Requests, StopWaiting(q)  PROVE Known(r)'
  BY <1>6 DEF StopWaiting
<1>7. ASSUME NEW q \in Requests, Prepare(q)  PROVE Known(r)'
  BY <1>7 DEF Prepare
<1>8. ASSUME NEW q \in Requests, CountInRedis(q)  PROVE Known(r)'
  BY <1>8 DEF CountInRedis
<1>9. ASSUME NEW q \in Requests, ChargeQuota(q)  PROVE Known(r)'
  BY <1>9 DEF ChargeQuota
<1>10. ASSUME NEW q \in Requests, Uncount(q)  PROVE Known(r)'
  BY <1>10 DEF Uncount
<1>11. ASSUME NEW q \in Requests, Chunk(q)  PROVE Known(r)'
  BY <1>11 DEF Chunk
<1>12. ASSUME NEW q \in Requests, Breaks(q)  PROVE Known(r)'
  BY <1>12 DEF Breaks
<1>13. ASSUME NEW q \in Requests, Ends(q)  PROVE Known(r)'
  BY <1>13 DEF Ends
<1>14. ASSUME NEW q \in Requests, StoreReply(q)  PROVE Known(r)'
  BY <1>14 DEF StoreReply
<1>15. ASSUME NEW q \in Requests, Release(q)  PROVE Known(r)'
  BY <1>15 DEF Release
<1>16. ASSUME NEW q \in Requests, RefundInDB(q)  PROVE Known(r)'
  BY <1>16 DEF RefundInDB
<1>17. ASSUME NEW q \in Requests, RefundInRedis(q)  PROVE Known(r)'
  BY <1>17 DEF RefundInRedis
<1>18. ASSUME NEW q \in Requests, RebuildCounter(q)  PROVE Known(r)'
  BY <1>18 DEF RebuildCounter
<1>19. ASSUME NEW q \in Requests, Crash(q)  PROVE Known(r)'
  BY <1>19 DEF Crash
<1>20. ASSUME NEW t \in Turns, MarkerExpires(t) \/ MarkerOutlived(t) \/ ReplyExpires(t)
       PROVE  Known(r)'
  BY <1>20 DEF MarkerExpires, MarkerOutlived, ReplyExpires
<1>21. CASE RedisRestarts
  BY <1>21 DEF RedisRestarts
<1>22. CASE UNCHANGED chatVars
  BY <1>22 DEF chatVars
<1>23. QED
  BY <1>1, <1>2, <1>3, <1>4, <1>5, <1>6, <1>7, <1>8, <1>9, <1>10, <1>11, <1>12, <1>13,
     <1>14, <1>15, <1>16, <1>17, <1>18, <1>19, <1>20, <1>21, <1>22 DEF ChatNext, Serve, Refund

\* Who was charged got an answer or gets the charge back, never both, and who was not
\* charged got none, whatever fails as long as the database answers what it does.
THEOREM PaidIsAnsweredOrRefunded == ChatSpec => []PaidIsAnswered
<1>1. Progress => PaidIsAnswered
  BY DEF Progress, Known, PaidIsAnswered
<1>2. QED
  BY <1>1, InitTypeOK, NextChatTypeOK, InitProgress, NextProgress, PTL DEF ChatSpec

-----------------------------------------------------------------------------
(* One request at a time. *)

\* At first no request is in flight.
LEMMA InitMarking == ChatInit => Marking
  BY DEF ChatInit, Marking, InFlight

\* Every step keeps the marker with the one request that generates the turn.
LEMMA NextMarking == ChatTypeOK /\ Marking /\ [ChatNext]_chatVars => Marking'
<1> SUFFICES ASSUME ChatTypeOK, Marking, [ChatNext]_chatVars, MarkersLast'
             PROVE  /\ \A q \in Requests : InFlight(q)' => acquired'[q] /\ turn'[q] \in markers'
                    /\ \A q, r \in Requests : InFlight(q)' /\ InFlight(r)' /\ turn'[q] = turn'[r] => q = r
  BY DEF Marking
<1>a. /\ \A q \in Requests : InFlight(q) => acquired[q] /\ turn[q] \in markers
      /\ \A q, r \in Requests : InFlight(q) /\ InFlight(r) /\ turn[q] = turn[r] => q = r
  BY FaultsGrow DEF Marking, MarkersLast
<1> DEFINE Held == \A q \in Requests : InFlight(q)' => acquired'[q] /\ turn'[q] \in markers'
           Alone == \A q, r \in Requests :
                      InFlight(q)' /\ InFlight(r)' /\ turn'[q] = turn'[r] => q = r
<1> USE <1>a DEF ChatTypeOK, InFlight, MarkedInFlight, Go, reqVars, keyVars, RedisFails, GoesWrong, MarkersLast
<1>1. ASSUME NEW q \in Requests, Ask(q)  PROVE Held /\ Alone
  BY <1>1 DEF Ask
<1>2. ASSUME NEW q \in Requests, Lookup(q)  PROVE Held /\ Alone
  BY <1>2 DEF Lookup
<1>3. ASSUME NEW q \in Requests, Acquire(q)  PROVE Held /\ Alone
  <2>1. CASE turn[q] \in markers
    <3>1. \A r \in Requests : InFlight(r)' <=> InFlight(r)
      BY <1>3, <2>1 DEF Acquire
    <3>2. UNCHANGED <<markers, acquired, turn>>
      BY <1>3, <2>1 DEF Acquire
    <3>3. QED
      BY <3>1, <3>2
  <2>2. CASE turn[q] \notin markers
    <3>1. /\ markers' = markers \cup {turn[q]} /\ turn' = turn
          /\ acquired' = [acquired EXCEPT ![q] = TRUE]
      BY <1>3, <2>2 DEF Acquire
    <3>2. place' = [place EXCEPT ![q] = "prepare"]
      BY <1>3, <2>2 DEF Acquire
    <3>3. \A r \in Requests \ {q} : InFlight(r)' <=> InFlight(r)
      BY <3>2
    <3>4. Held
      BY <3>1, <3>3
    <3>5. \A r \in Requests \ {q} : InFlight(r) => turn[r] # turn[q]
      BY <2>2
    <3>6. QED
      BY <3>1, <3>3, <3>4, <3>5
  <2>3. QED
    BY <2>1, <2>2
<1>4. ASSUME NEW q \in Requests, PollReply(q)  PROVE Held /\ Alone
  <2>1. UNCHANGED <<markers, acquired, turn>>
    BY ONLY <1>4 DEF PollReply, keyVars
  <2>2. \A r \in Requests : InFlight(r)' <=> InFlight(r)
    BY <1>4 DEF PollReply
  <2>3. QED
    BY <2>1, <2>2
<1>5. ASSUME NEW q \in Requests, PollMarker(q)  PROVE Held /\ Alone
  <2>1. UNCHANGED <<markers, acquired, turn>>
    BY ONLY <1>5 DEF PollMarker, keyVars
  <2>2. \A r \in Requests : InFlight(r)' <=> InFlight(r)
    BY <1>5 DEF PollMarker
  <2>3. QED
    BY ONLY <1>a, <2>1, <2>2
<1>6. ASSUME NEW q \in Requests, StopWaiting(q)  PROVE Held /\ Alone
  <2>1. UNCHANGED <<markers, acquired, turn>>
    BY ONLY <1>6 DEF StopWaiting, keyVars
  <2>2. \A r \in Requests : InFlight(r)' <=> InFlight(r)
    BY <1>6 DEF StopWaiting
  <2>3. QED
    BY ONLY <1>a, <2>1, <2>2
<1>7. ASSUME NEW q \in Requests, Prepare(q)  PROVE Held /\ Alone
  BY <1>7 DEF Prepare
<1>8. ASSUME NEW q \in Requests, CountInRedis(q)  PROVE Held /\ Alone
  BY <1>8 DEF CountInRedis
<1>9. ASSUME NEW q \in Requests, ChargeQuota(q)  PROVE Held /\ Alone
  BY <1>9 DEF ChargeQuota
<1>10. ASSUME NEW q \in Requests, Uncount(q)  PROVE Held /\ Alone
  BY <1>10 DEF Uncount
<1>11. ASSUME NEW q \in Requests, Chunk(q)  PROVE Held /\ Alone
  BY <1>11 DEF Chunk
<1>12. ASSUME NEW q \in Requests, Breaks(q)  PROVE Held /\ Alone
  BY <1>12 DEF Breaks
<1>13. ASSUME NEW q \in Requests, Ends(q)  PROVE Held /\ Alone
  BY <1>13 DEF Ends
<1>14. ASSUME NEW q \in Requests, StoreReply(q)  PROVE Held /\ Alone
  BY <1>14 DEF StoreReply
<1>15. ASSUME NEW q \in Requests, Release(q)  PROVE Held /\ Alone
  BY <1>15 DEF Release
<1>16. ASSUME NEW q \in Requests, RefundInDB(q)  PROVE Held /\ Alone
  BY <1>16 DEF RefundInDB
<1>17. ASSUME NEW q \in Requests, RefundInRedis(q)  PROVE Held /\ Alone
  BY <1>17 DEF RefundInRedis
<1>18. ASSUME NEW q \in Requests, RebuildCounter(q)  PROVE Held /\ Alone
  BY <1>18 DEF RebuildCounter
<1>19. ASSUME NEW q \in Requests, Crash(q)  PROVE Held /\ Alone
  BY <1>19 DEF Crash
<1>20. ASSUME NEW t \in Turns, MarkerExpires(t) \/ MarkerOutlived(t) \/ ReplyExpires(t)
       PROVE  Held /\ Alone
  BY <1>20 DEF MarkerExpires, MarkerOutlived, ReplyExpires
<1>21. CASE RedisRestarts
  BY <1>21 DEF RedisRestarts
<1>22. CASE UNCHANGED chatVars
  BY <1>22 DEF chatVars
<1>23. QED
  BY <1>1, <1>2, <1>3, <1>4, <1>5, <1>6, <1>7, <1>8, <1>9, <1>10, <1>11, <1>12, <1>13,
     <1>14, <1>15, <1>16, <1>17, <1>18, <1>19, <1>20, <1>21, <1>22 DEF ChatNext, Serve, Refund

\* No two requests generate the same turn at the same time, however many there are and
\* whatever fails, while Redis answers and markers outlive their turns.
THEOREM TurnsAreGeneratedAlone == ChatSpec => []OneAtATime
<1>1. Marking => OneAtATime
  BY DEF Marking, MarkersLast, OneAtATime
<1>2. QED
  BY <1>1, InitTypeOK, NextChatTypeOK, InitMarking, NextMarking, PTL DEF ChatSpec

-----------------------------------------------------------------------------
(* The counters. *)

\* At first nobody stands on a counter.
LEMMA InitCounting == ChatInit => Counting
<1> SUFFICES ASSUME ChatInit
             PROVE  Counting
  OBVIOUS
<1>1. OnUsed = {} /\ OnCached = {}
  BY DEF ChatInit, OnUsed, OnCached
<1>2. Count(cached) = 0
  BY DEF ChatInit, Count
<1>3. QED
  BY <1>1, <1>2, FS_EmptySet DEF ChatInit, Counting

\* One more request, or one less, stands on a counter.
LEMMA OneMoreOrLess ==
  ASSUME NEW S, IsFiniteSet(S), NEW q
  PROVE  /\ Cardinality(S) \in Nat
         /\ q \notin S => Cardinality(S \cup {q}) = Cardinality(S) + 1
         /\ q \in S => Cardinality(S \ {q}) = Cardinality(S) - 1 /\ Cardinality(S) > 0
<1>1. Cardinality(S) \in Nat /\ IsFiniteSet(S \ {q})
  BY FS_CardinalityType, FS_RemoveElement
<1>2. Cardinality(S \ {q}) \in Nat
  BY <1>1, FS_CardinalityType
<1>3. q \notin S => Cardinality(S \cup {q}) = Cardinality(S) + 1
  BY FS_AddElement
<1>4. q \in S => Cardinality(S \ {q}) = Cardinality(S) - 1
  BY FS_RemoveElement
<1>5. QED
  BY <1>1, <1>2, <1>3, <1>4

\* Every step that nothing goes wrong in changes a counter by the requests that come to
\* stand on it or leave it.
LEMMA NextCounting == ChatTypeOK /\ Progress /\ Counting /\ [ChatNext]_chatVars => Counting'
<1> SUFFICES ASSUME ChatTypeOK, Progress, Counting, [ChatNext]_chatVars, NothingWrong'
             PROVE  /\ \A q \in Requests : refund'[q] \notin {"rebuild", "lost"}
                    /\ used' = Cardinality(OnUsed')
                    /\ Count(cached)' = Cardinality(OnCached')
  BY DEF Counting
<1> DEFINE Exact == /\ \A q \in Requests : refund'[q] \notin {"rebuild", "lost"}
                    /\ used' = Cardinality(OnUsed')
                    /\ Count(cached)' = Cardinality(OnCached')
<1>a. /\ NothingWrong
      /\ \A q \in Requests : Known(q)
      /\ \A q \in Requests : refund[q] \notin {"rebuild", "lost"}
      /\ used = Cardinality(OnUsed)
      /\ Count(cached) = Cardinality(OnCached)
  BY FaultsGrow DEF Counting, NothingWrong, Progress
<1>b. IsFiniteSet(OnUsed) /\ IsFiniteSet(OnCached)
  BY QuotaAssumption, FS_Subset DEF OnUsed, OnCached
<1>c. ASSUME UNCHANGED <<used, cached>>, OnUsed' = OnUsed, OnCached' = OnCached,
             \A q \in Requests : refund'[q] \notin {"rebuild", "lost"}
      PROVE  Exact
  BY <1>a, <1>c DEF Count
<1> USE DEF Go, RefundMoves, StartRefund, quotaVars, reqVars, refundVars,
        RedisFails, AnswerLost, GoesWrong, NothingWrong
<1>1. ASSUME NEW q \in Requests, Ask(q)  PROVE Exact
  BY <1>a, <1>c, <1>1 DEF Ask, ChatTypeOK, OnUsed, OnCached, Known, Before
<1>2. ASSUME NEW q \in Requests, Lookup(q)  PROVE Exact
  BY <1>a, <1>c, <1>2 DEF Lookup, ChatTypeOK, OnUsed, OnCached, Known, Before
<1>3. ASSUME NEW q \in Requests, Acquire(q)  PROVE Exact
  BY <1>a, <1>c, <1>3 DEF Acquire, ChatTypeOK, OnUsed, OnCached, Known, Before
<1>4. ASSUME NEW q \in Requests, PollReply(q)  PROVE Exact
  BY <1>a, <1>c, <1>4 DEF PollReply, ChatTypeOK, OnUsed, OnCached, Known, Before
<1>5. ASSUME NEW q \in Requests, PollMarker(q)  PROVE Exact
  BY <1>a, <1>c, <1>5 DEF PollMarker, ChatTypeOK, OnUsed, OnCached, Known, Before
<1>6. ASSUME NEW q \in Requests, StopWaiting(q)  PROVE Exact
  BY <1>a, <1>c, <1>6 DEF StopWaiting, ChatTypeOK, OnUsed, OnCached, Known, Before
<1>7. ASSUME NEW q \in Requests, Prepare(q)  PROVE Exact
  BY <1>a, <1>c, <1>7 DEF Prepare, ChatTypeOK, OnUsed, OnCached, Known, Before
<1>8. ASSUME NEW q \in Requests, Chunk(q)  PROVE Exact
  BY <1>a, <1>c, <1>8 DEF Chunk, ChatTypeOK, OnUsed, OnCached, Known, Before
<1>9. ASSUME NEW q \in Requests, Breaks(q)  PROVE Exact
  BY <1>a, <1>c, <1>9 DEF Breaks, ChatTypeOK, OnUsed, OnCached, Known, Before
<1>10. ASSUME NEW q \in Requests, Ends(q)  PROVE Exact
  BY <1>a, <1>c, <1>10 DEF Ends, ChatTypeOK, OnUsed, OnCached, Known, Before
<1>11. ASSUME NEW q \in Requests, StoreReply(q)  PROVE Exact
  BY <1>a, <1>c, <1>11 DEF StoreReply, ChatTypeOK, OnUsed, OnCached, Known, Before
<1>12. ASSUME NEW q \in Requests, Release(q)  PROVE Exact
  BY <1>a, <1>c, <1>12 DEF Release, ChatTypeOK, OnUsed, OnCached, Known, Before
<1>13. ASSUME NEW q \in Requests, CountInRedis(q)  PROVE Exact
  <2>1. q \notin OnCached /\ UNCHANGED <<used, refund, billed>> /\ OnUsed' = OnUsed
    BY <1>a, <1>13 DEF CountInRedis, OnUsed, OnCached, Known, Before
  <2>2. CASE place' = [place EXCEPT ![q] = "charge"]
    <3>1. OnCached' = OnCached \cup {q}
      BY <2>1, <2>2 DEF OnCached, ChatTypeOK
    <3>2. cached' = Count(cached) + 1
      BY <1>13, <2>2 DEF CountInRedis, ChatTypeOK
    <3>3. QED
      BY <1>a, <1>b, <2>1, <3>1, <3>2, OneMoreOrLess, QuotaAssumption DEF Count
  <2>3. CASE place' = [place EXCEPT ![q] = "release"]
    <3>1. OnCached' = OnCached
      BY <2>1, <2>3, <1>13 DEF OnCached, ChatTypeOK, CountInRedis
    <3>2. Cardinality(OnCached) \in Nat
      BY <1>b, FS_CardinalityType
    <3>3. cached' = Count(cached)
      BY <1>a, <1>13, <2>3, <3>2 DEF CountInRedis, ChatTypeOK
    <3>4. QED
      BY <1>a, <2>1, <3>1, <3>2, <3>3, QuotaAssumption DEF Count
  <2>4. QED
    BY <1>13, <2>2, <2>3 DEF CountInRedis
<1>14. ASSUME NEW q \in Requests, ChargeQuota(q)  PROVE Exact
  <2>1. q \notin OnUsed /\ q \in OnCached /\ refund[q] = "none" /\ UNCHANGED <<cached, refund>>
    BY <1>a, <1>14 DEF ChargeQuota, OnUsed, OnCached, Known, Before
  <2>2. CASE billed' = [billed EXCEPT ![q] = TRUE] /\ used' = used + 1
    <3>1. OnUsed' = OnUsed \cup {q} /\ OnCached' = OnCached
      BY <1>14, <2>1, <2>2 DEF ChargeQuota, OnUsed, OnCached, ChatTypeOK
    <3>2. QED
      BY <1>a, <1>b, <2>1, <2>2, <3>1, OneMoreOrLess DEF Count
  <2>3. CASE UNCHANGED <<used, billed>>
    BY <1>14, <1>a, <1>c, <2>1, <2>3 DEF ChargeQuota, OnUsed, OnCached, ChatTypeOK
  <2>4. QED
    BY <1>14, <2>2, <2>3 DEF ChargeQuota
<1>15. ASSUME NEW q \in Requests, Uncount(q)  PROVE Exact
  <2>1. /\ q \in OnCached /\ UNCHANGED <<used, refund, billed>> /\ OnUsed' = OnUsed
        /\ OnCached' = OnCached \ {q}
    BY <1>a, <1>15 DEF Uncount, OnUsed, OnCached, Known, Before, ChatTypeOK
  <2>2. cached' = Count(cached) - 1
    BY <1>15 DEF Uncount
  <2>3. QED
    BY <1>a, <1>b, <2>1, <2>2, OneMoreOrLess, QuotaAssumption DEF Count
<1>16. ASSUME NEW q \in Requests, RefundInDB(q)  PROVE Exact
  <2>1. q \in OnUsed /\ UNCHANGED <<place, billed, cached>>
    BY <1>a, <1>16 DEF RefundInDB, OnUsed, Known
  <2>2. CASE refund' = [refund EXCEPT ![q] = "redis"]
    <3>1. OnUsed' = OnUsed \ {q} /\ OnCached' = OnCached
      BY <1>16, <2>1, <2>2 DEF RefundInDB, OnUsed, OnCached, ChatTypeOK
    <3>2. used > 0
      BY <1>a, <1>b, <2>1, OneMoreOrLess
    <3>3. used' = used - 1
      BY <1>16, <2>2, <3>2 DEF RefundInDB, ChatTypeOK
    <3>4. \A r \in Requests : refund'[r] \notin {"rebuild", "lost"}
      BY <1>a, <2>2 DEF ChatTypeOK
    <3>5. QED
      BY <1>a, <1>b, <2>1, <3>1, <3>3, <3>4, OneMoreOrLess DEF Count
  <2>3. CASE refund' = [refund EXCEPT ![q] = "failed"]
    <3>1. OnUsed' = OnUsed /\ OnCached' = OnCached
      BY <1>16, <2>1, <2>3 DEF RefundInDB, OnUsed, OnCached, ChatTypeOK
    <3>2. used' = used
      BY <1>16, <2>3 DEF RefundInDB, ChatTypeOK
    <3>3. QED
      BY <1>a, <1>c, <2>1, <2>3, <3>1, <3>2 DEF ChatTypeOK
  <2>4. QED
    BY <1>16, <2>2, <2>3 DEF RefundInDB
<1>17. ASSUME NEW q \in Requests, RefundInRedis(q)  PROVE Exact
  <2>1. /\ q \in OnCached /\ q \notin OnUsed /\ UNCHANGED <<place, billed, used>>
    BY <1>a, <1>17 DEF RefundInRedis, OnUsed, OnCached, Known
  <2>2. Count(cached) > 0
    BY <1>a, <1>b, <2>1, OneMoreOrLess
  <2>3. cached \notin {Absent, -1} /\ cached' = cached - 1 /\ refund' = [refund EXCEPT ![q] = "done"]
    BY <1>17, <2>2 DEF RefundInRedis, Count
  <2>4. place[q] \notin {"charge", "uncount"}
    BY <1>a, <1>17 DEF RefundInRedis, Known, Before
  <2>5. OnUsed' = OnUsed /\ OnCached' = OnCached \ {q}
    BY <2>1, <2>3, <2>4 DEF OnUsed, OnCached, ChatTypeOK
  <2>6. QED
    BY <1>a, <1>b, <2>1, <2>2, <2>3, <2>5, OneMoreOrLess, QuotaAssumption DEF Count, ChatTypeOK
<1>18. ASSUME NEW q \in Requests, RebuildCounter(q) \/ Crash(q)  PROVE Exact
  BY <1>a, <1>18 DEF RebuildCounter, Crash
<1>19. ASSUME NEW t \in Turns, MarkerExpires(t) \/ MarkerOutlived(t) \/ ReplyExpires(t)
       PROVE  Exact
  BY <1>a, <1>c, <1>19 DEF MarkerExpires, MarkerOutlived, ReplyExpires, OnUsed, OnCached
<1>20. CASE RedisRestarts
  BY <1>20 DEF RedisRestarts
<1>21. CASE UNCHANGED chatVars
  BY <1>a, <1>c, <1>21 DEF chatVars, OnUsed, OnCached
<1>22. QED
  BY <1>1, <1>2, <1>3, <1>4, <1>5, <1>6, <1>7, <1>8, <1>9, <1>10, <1>11, <1>12, <1>13,
     <1>14, <1>15, <1>16, <1>17, <1>18, <1>19, <1>20, <1>21 DEF ChatNext, Serve, Refund

\* When nothing is under way, both counters are the number of charges that were not given
\* back, for any number of requests and whatever happened in between, the faults that
\* CountersAgree names excepted.
THEOREM CountersAgreeWhenQuiet == ChatSpec => []CountersAgree
<1>1. Counting => CountersAgree
  <2> SUFFICES ASSUME Counting, Quiet, NothingWrong
               PROVE  /\ used = Cardinality({q \in Requests : billed[q] /\ refund[q] # "done"})
                      /\ Count(cached) = used
    BY DEF CountersAgree, NothingWrong
  <2>1. /\ OnUsed = {q \in Requests : billed[q] /\ refund[q] # "done"}
        /\ OnCached = OnUsed
    BY DEF Quiet, OnUsed, OnCached
  <2>2. QED
    BY <2>1 DEF Counting
<1>2. QED
  BY <1>1, InitTypeOK, NextChatTypeOK, InitProgress, NextProgress, InitCounting, NextCounting,
     PTL DEF ChatSpec
=============================================================================
