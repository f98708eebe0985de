------------------------------ MODULE Purchase ------------------------------
(***************************************************************************)
(* The page that sells VIP time: agreeing to the terms, paying, polling    *)
(* the order, claiming the free time, and the fetch of the user's VIP that *)
(* all of them share.  (pages/sub/Vip/Vip.ts, utils/pay.ts, utils/vip.ts)  *)
(*                                                                         *)
(* A user's VIP is the set of what was granted: orders, and 0 for the free *)
(* time.  The server settles an order at any time after it was charged.    *)
(***************************************************************************)
EXTENDS Naturals

CONSTANTS MaxPolls,   \* maxCount of _pollOrderStatus
          MaxOrders,  \* bound: orders made
          MaxTries,   \* bound: payments and claims begun on one page
          MaxVisits   \* bound: the page is left or shown again

ASSUME PurchaseAssumption ==
  MaxPolls \in Nat \ {0} /\ MaxOrders \in Nat /\ MaxTries \in Nat /\ MaxVisits \in Nat

VARIABLES
  buyer,    \* the page, see PageOpened
  fetching, \* _fetchVipPromise, see NoFetch
  cached,   \* the VIP that was fetched last
  orders,   \* the orders of the server: number to state
  charged,  \* orders WeChat took money for
  granted,  \* the user's VIP on the server
  cancels,  \* orders whose cancellation was sent
  blamed,   \* history: ways known to leave an order open or a view old
  visits

buyerVars == <<buyer, fetching, cached, orders, charged, granted, cancels, blamed, visits>>

FreeTime == 0
Numbers == 1..MaxOrders

\* stage is where the payment is, claim where claiming is; asked is what the
\* open modal was opened for, told the purchase or claim that the dialog
\* tells of and the VIP it shows.
\* open is FALSE once the page is unloaded.
Silent == [of |-> "", order |-> 0, vip |-> {}]
PageOpened ==
  [open |-> TRUE, front |-> TRUE, paying |-> FALSE, stage |-> "none", order |-> 0, polls |-> 0,
   claim |-> "none", tries |-> 0,
   agreed |-> FALSE, modal |-> FALSE, action |-> "", plan |-> FALSE, asked |-> "", vip |-> cached, told |-> Silent]

\* stage is the request that is out, vip what it read, waits for whom.
NoFetch == [stage |-> "none", vip |-> {}, waits |-> {}]

\* fetchVipInfo: who calls while one is out joins it, however old it is.
Fetching(who) ==
  IF fetching.stage = "none" THEN [stage |-> "vip", vip |-> granted, waits |-> {who}]
  ELSE [fetching EXCEPT !.waits = @ \cup {who}]
Joined == fetching.stage # "none"

BuyerInit ==
  /\ cached = {} /\ orders = [n \in Numbers |-> "none"] /\ charged = {} /\ granted = {}
  /\ cancels = {} /\ blamed = {} /\ visits = 0
  /\ fetching = [stage |-> "vip", vip |-> {}, waits |-> {"page"}] /\ buyer = PageOpened

Blame(names) == blamed' = blamed \cup names
ServerOrders == <<orders, charged, granted, cancels>>

\* _finishPaying
Finished(p) == [p EXCEPT !.paying = FALSE, !.stage = "none", !.polls = 0]

-----------------------------------------------------------------------------
(* What the user agrees to *)

\* buy: the order is made after this step.  There is a bound on orders.
Bought(p) ==
  IF p.paying \/ p.tries = MaxTries \/ \A n \in Numbers : orders[n] # "none" THEN p
  ELSE [p EXCEPT !.paying = TRUE, !.stage = "create", !.tries = @ + 1,
                 !.order = CHOOSE n \in Numbers : orders[n] = "none"]

\* doClaimFreeVip up to its first request
Claimed(p) ==
  IF FreeTime \in p.vip \/ p.claim # "none" \/ p.tries = MaxTries THEN p
  ELSE [p EXCEPT !.claim = "list", !.tries = @ + 1]

ChangeCheck == buyer.front /\ buyer' = [buyer EXCEPT !.agreed = ~@]
ConfirmBuy ==
  /\ buyer.front /\ ~buyer.modal
  /\ buyer' = IF buyer.agreed THEN Bought(buyer) ELSE [buyer EXCEPT !.modal = TRUE, !.plan = TRUE, !.asked = "buy"]
ClaimFreeVip ==
  /\ buyer.front /\ ~buyer.modal
  /\ buyer' = IF buyer.agreed THEN Claimed(buyer)
              ELSE [buyer EXCEPT !.modal = TRUE, !.action = "claimFree", !.asked = "claim"]
CloseAgreementModal ==
  buyer.modal /\ buyer' = [buyer EXCEPT !.modal = FALSE, !.plan = FALSE, !.action = "", !.asked = ""]
AgreeAndContinue ==
  /\ buyer.modal
  /\ LET p == [buyer EXCEPT !.modal = FALSE, !.agreed = TRUE, !.asked = ""]
     IN  buyer' = IF p.action = "claimFree" THEN Claimed(p) ELSE IF p.plan THEN Bought(p) ELSE p

DismissDialog == buyer.told # Silent /\ buyer' = [buyer EXCEPT !.told = Silent]

Touches ==
  /\ ChangeCheck \/ DismissDialog \/ ConfirmBuy \/ ClaimFreeVip \/ CloseAgreementModal \/ AgreeAndContinue
  /\ UNCHANGED <<ServerOrders, fetching, cached, blamed, visits>>

-----------------------------------------------------------------------------
(* Paying *)

\* doPay: the order is made and WeChat's dialog opens.
OrderMade ==
  /\ buyer.stage = "create"
  /\ orders' = [orders EXCEPT ![buyer.order] = "open"] /\ buyer' = [buyer EXCEPT !.stage = "sdk"]
  /\ UNCHANGED <<fetching, cached, charged, granted, cancels, blamed, visits>>

\* The request fails, or only its answer is lost.
OrderFails ==
  /\ buyer.stage = "create" /\ buyer' = Finished(buyer)
  /\ \/ UNCHANGED <<orders, blamed>>
     \/ orders' = [orders EXCEPT ![buyer.order] = "open"] /\ Blame({"lost"})
  /\ UNCHANGED <<fetching, cached, charged, granted, cancels, visits>>

\* Mutant: a payment whose page was left counts as aborted.
SdkAborts ==
  /\ buyer.stage = "sdk" /\ charged' = charged \cup {buyer.order}
  /\ cancels' = IF buyer.open THEN cancels ELSE cancels \cup {buyer.order}
  /\ buyer' = IF buyer.open THEN [buyer EXCEPT !.stage = "poll"] ELSE Finished(buyer)
  /\ UNCHANGED <<fetching, cached, orders, granted, blamed, visits>>

\* success of wx.requestVirtualPayment, also when the token was cancelled
SdkSucceeds ==
  /\ buyer.stage = "sdk" /\ charged' = charged \cup {buyer.order}
  /\ buyer' = IF buyer.open THEN [buyer EXCEPT !.stage = "poll"] ELSE Finished(buyer)
  /\ UNCHANGED <<fetching, cached, orders, granted, cancels, blamed, visits>>

\* Mutant: only a payment of an open page is cancelled.
SdkFailsOpen ==
  /\ buyer.stage = "sdk" /\ buyer' = Finished(buyer)
  /\ cancels' = IF buyer.open THEN cancels \cup {buyer.order} ELSE cancels
  /\ UNCHANGED <<fetching, cached, orders, charged, granted, blamed, visits>>

\* fail: the order is cancelled, in any case.
SdkFails ==
  /\ buyer.stage = "sdk" /\ buyer' = Finished(buyer) /\ cancels' = cancels \cup {buyer.order}
  /\ UNCHANGED <<fetching, cached, orders, charged, granted, blamed, visits>>

\* Mutant: the purchase is told of with the VIP that is cached.
PaidUnfetched ==
  /\ buyer.stage = "poll" /\ orders[buyer.order] = "paid"
  /\ buyer' = Finished([buyer EXCEPT !.told = [of |-> "buy", order |-> buyer.order, vip |-> cached]])
  /\ UNCHANGED <<fetching, cached, ServerOrders, blamed, visits>>

\* doPoll finds the order paid; paySuccess fetches the VIP.
PollPaid ==
  /\ buyer.stage = "poll" /\ orders[buyer.order] = "paid"
  /\ buyer' = [buyer EXCEPT !.stage = "fetch"] /\ fetching' = Fetching("pay")
  /\ Blame(IF Joined THEN {"joined"} ELSE {})
  /\ UNCHANGED <<ServerOrders, cached, visits>>

\* It finds the order closed, or the session expired.
PollEnds ==
  /\ buyer.stage = "poll" /\ buyer' = Finished(buyer)
  /\ UNCHANGED <<fetching, cached, ServerOrders, blamed, visits>>

\* It finds the order open, or fails; the last time it gives up.
PollAgain ==
  /\ buyer.stage = "poll"
  /\ buyer' = IF buyer.polls + 1 = MaxPolls THEN Finished(buyer) ELSE [buyer EXCEPT !.polls = @ + 1]
  /\ UNCHANGED <<fetching, cached, ServerOrders, blamed, visits>>

\* GET /vip/free, POST /vip/free/claim; the second is refused what is
\* granted already, and may be lost with the grant made.
ClaimListed ==
  /\ buyer.claim = "list" /\ buyer' = [buyer EXCEPT !.claim = "post"]
  /\ UNCHANGED <<fetching, cached, ServerOrders, blamed, visits>>
ClaimFails ==
  /\ buyer.claim \in {"list", "post"} /\ buyer' = [buyer EXCEPT !.claim = "none"]
  /\ granted' \in {granted} \cup {granted \cup {FreeTime} : s \in {"post"} \cap {buyer.claim}}
  /\ UNCHANGED <<fetching, cached, orders, charged, cancels, blamed, visits>>
ClaimRuns ==
  /\ buyer.claim = "post" /\ FreeTime \notin granted
  /\ granted' = granted \cup {FreeTime} /\ buyer' = [buyer EXCEPT !.claim = "fetch"]
  /\ fetching' = Fetching("claim") /\ Blame(IF Joined THEN {"joined"} ELSE {})
  /\ UNCHANGED <<cached, orders, charged, cancels, visits>>

-----------------------------------------------------------------------------
(* fetchVipInfo *)

\* GET /user/vip answers what held when it was asked, or since.
VipRead ==
  /\ fetching.stage = "vip"
  /\ \E now \in {fetching.vip, granted} : fetching' = [fetching EXCEPT !.stage = "free", !.vip = now \ {FreeTime}]
  /\ UNCHANGED <<buyer, cached, ServerOrders, blamed, visits>>

\* Those who wait go on: the page shows it if it is in front, a payment and a
\* claim show it also when they come back.
GoOn(p, waits, now) ==
  LET a == IF "page" \in waits /\ p.open /\ p.front THEN [p EXCEPT !.vip = now] ELSE p
      b == IF "claim" \in waits /\ p.open
           THEN [a EXCEPT !.claim = "none", !.vip = now, !.told = [of |-> "claim", order |-> 0, vip |-> now]] ELSE a
  IN  IF "pay" \in waits /\ p.stage = "fetch"
      THEN Finished(IF p.open THEN [b EXCEPT !.vip = now, !.told = [of |-> "buy", order |-> p.order, vip |-> now]]
                    ELSE b)
      ELSE b

\* GET /vip/free/check; if it fails the free time counts as not received.
FreeRead ==
  /\ fetching.stage = "free"
  /\ \E ok \in BOOLEAN :
       LET now == fetching.vip \cup (IF ok THEN granted \cap {FreeTime} ELSE {})
       IN  cached' = now /\ buyer' = GoOn(buyer, fetching.waits, now)
  /\ fetching' = NoFetch
  /\ UNCHANGED <<ServerOrders, blamed, visits>>

\* Mutant: a payment whose VIP cannot be read goes on waiting.
VipFailsQuietly ==
  /\ fetching.stage = "vip" /\ fetching' = NoFetch
  /\ buyer' = IF "claim" \in fetching.waits THEN [buyer EXCEPT !.claim = "none", !.vip = cached] ELSE buyer
  /\ UNCHANGED <<ServerOrders, cached, blamed, visits>>

\* All who wait are told; a claim shows what was cached.
VipFails ==
  /\ fetching.stage = "vip" /\ fetching' = NoFetch
  /\ LET p == IF "claim" \in fetching.waits THEN [buyer EXCEPT !.claim = "none", !.vip = cached] ELSE buyer
     IN  buyer' = IF "pay" \in fetching.waits THEN Finished(p) ELSE p
  /\ UNCHANGED <<ServerOrders, cached, blamed, visits>>

-----------------------------------------------------------------------------
(* The page comes and goes *)

Visit == visits < MaxVisits /\ visits' = visits + 1

\* onShow shows what is cached and fetches it again.
ShowBuyer ==
  /\ buyer.open /\ ~buyer.front
  /\ buyer' = [buyer EXCEPT !.front = TRUE, !.vip = cached] /\ fetching' = Fetching("page")
  /\ Blame(IF Joined THEN {"joined"} ELSE {}) /\ UNCHANGED <<ServerOrders, cached, visits>>

\* Mutant: leaving for WeChat's dialog unlocks the button.
HideUnlocks ==
  /\ buyer.front /\ Visit
  /\ buyer' = [buyer EXCEPT !.front = FALSE, !.modal = FALSE, !.asked = "", !.told = Silent, !.paying = FALSE]
  /\ UNCHANGED <<fetching, cached, ServerOrders, blamed>>

\* onHide: a payment and a claim go on.
HideBuyer ==
  /\ buyer.front /\ Visit
  /\ buyer' = [buyer EXCEPT !.front = FALSE, !.modal = FALSE, !.asked = "", !.told = Silent]
  /\ UNCHANGED <<fetching, cached, ServerOrders, blamed>>

\* onUnload: requests are cancelled.  WeChat's dialog is not: what it
\* answers is still heard.  The order of a cancelled request may be made.
CloseBuyer ==
  /\ buyer.open /\ Visit
  /\ LET p == [buyer EXCEPT !.open = FALSE, !.front = FALSE, !.modal = FALSE, !.asked = "", !.told = Silent,
                            !.paying = FALSE, !.claim = "none"]
     IN  buyer' = IF buyer.stage \in {"create", "poll"} THEN Finished(p) ELSE p
  /\ IF buyer.stage = "create"
     THEN orders' \in {orders, [orders EXCEPT ![buyer.order] = "open"]} /\ Blame({"lost"})
     ELSE UNCHANGED <<orders, blamed>>
  /\ granted' \in {granted} \cup {granted \cup {FreeTime} : s \in {"post"} \cap {buyer.claim}}
  /\ UNCHANGED <<fetching, cached, charged, cancels>>

\* onLoad and onShow of the next page, once nothing of the last is left
OpenBuyer ==
  /\ ~buyer.open /\ buyer.stage = "none" /\ fetching.stage = "none"
  /\ buyer' = PageOpened /\ fetching' = Fetching("page")
  /\ UNCHANGED <<cached, ServerOrders, blamed, visits>>

-----------------------------------------------------------------------------
(* The server *)

OrderPaid(n) ==
  /\ n \in charged /\ orders[n] \in {"open", "closed"}
  /\ orders' = [orders EXCEPT ![n] = "paid"] /\ granted' = granted \cup {n}
  /\ UNCHANGED <<buyer, fetching, cached, charged, cancels, blamed, visits>>

\* A cancellation, the next order or a job closes it.
OrderCloses(n) ==
  /\ orders[n] = "open" /\ orders' = [orders EXCEPT ![n] = "closed"]
  /\ UNCHANGED <<buyer, fetching, cached, charged, granted, cancels, blamed, visits>>

\* What ends by itself: requests have timeouts, WeChat's dialog is answered.
BuyerAnswers ==
  \/ SdkFails \/ OrderFails \/ PollAgain \/ VipFails \/ FreeRead
  \/ OrderMade \/ SdkSucceeds \/ PollPaid \/ PollEnds \/ ClaimListed \/ ClaimFails \/ ClaimRuns \/ VipRead
BuyerNext ==
  \/ BuyerAnswers \/ Touches \/ ShowBuyer \/ HideBuyer \/ CloseBuyer \/ OpenBuyer
  \/ \E n \in Numbers : OrderPaid(n) \/ OrderCloses(n)

BuyerFairness == WF_buyerVars(BuyerAnswers)
BuyerSpec == BuyerInit /\ [][BuyerNext]_buyerVars /\ BuyerFairness

-----------------------------------------------------------------------------
\* The types of the VIP page's variables.
BuyerTypeOK ==
  /\ buyer.stage \in {"none", "create", "sdk", "poll", "fetch"} /\ buyer.claim \in {"none", "list", "post", "fetch"}
  /\ buyer.polls < MaxPolls /\ fetching.stage \in {"none", "vip", "free"}
  /\ fetching.waits \subseteq {"page", "pay", "claim"} /\ visits \in 0..MaxVisits
  /\ orders \in [Numbers -> {"none", "open", "paid", "closed"}]

\* While a payment of this page is under way no other can be begun: the lock
\* outlives the hide that WeChat's own dialog causes.
PayingIsLocked == buyer.open /\ buyer.stage # "none" => buyer.paying

\* No order that was charged is cancelled, also when the page was left before
\* WeChat's dialog answered.
NoPaidCancelled == cancels \cap charged = {}

\* An order is not left open: one that was not charged and is not being paid
\* was cancelled.  Excused are orders whose number the client never learnt.
OrdersAreClosed ==
  "lost" \notin blamed =>
    \A n \in Numbers : orders[n] = "open" =>
      n \in charged \cup cancels \/ (n = buyer.order /\ buyer.stage = "sdk")

\* The dialog that tells of a purchase shows the time that was bought, unless
\* the fetch it joined is older than the payment.
BoughtIsTold == buyer.told.of = "buy" /\ "joined" \notin blamed => buyer.told.order \in buyer.told.vip

\* What the user asked for is what agreeing to the terms begins.  ("购买 |
\* 未勾选协议先弹协议弹窗；doPay")
AgreedIsDone == [][AgreeAndContinue /\ buyer.asked = "buy" => buyer'.claim = buyer.claim]_buyerVars
=============================================================================
