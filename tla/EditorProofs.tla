---------------------------- MODULE EditorProofs ----------------------------
(***************************************************************************)
(* Proofs about the page that sells VIP time, the recording switch and the *)
(* editors of the mini-program, each on its own.  As in PagesProofs, for   *)
(* each of them an invariant that holds initially, that every step keeps,  *)
(* and that implies what is promised (ClientProofs).                       *)
(***************************************************************************)
EXTENDS Purchase, Recorder, Editor, FiniteSetTheorems, SequenceTheorems, TLAPS

-----------------------------------------------------------------------------
(***************************************************************************)
(* The page that sells VIP time                                            *)
(***************************************************************************)
PayStages == {"none", "create", "sdk", "poll", "fetch"}
Dialogs == [of : {"", "buy", "claim"}, order : Nat, vip : SUBSET Nat]
Buyers ==
  [open : BOOLEAN, front : BOOLEAN, paying : BOOLEAN, stage : PayStages, order : Nat, polls : Nat,
   claim : {"none", "list", "post", "fetch"}, tries : Nat, agreed : BOOLEAN, modal : BOOLEAN,
   action : {"", "claimFree"}, plan : BOOLEAN, asked : {"", "buy", "claim"}, vip : SUBSET Nat,
   told : Dialogs]
Fetches ==
  [stage : {"none", "vip", "free"}, vip : SUBSET Nat, waits : SUBSET {"page", "pay", "claim"}]

BuyerTypes ==
  /\ buyer \in Buyers /\ buyer.polls < MaxPolls /\ fetching \in Fetches
  /\ cached \subseteq Nat /\ granted \subseteq Nat /\ charged \subseteq Numbers /\ cancels \subseteq Numbers
  /\ orders \in [Numbers -> {"none", "open", "paid", "closed"}] /\ visits \in 0..MaxVisits

\* The page and its lock
Locked ==
  /\ buyer.modal = TRUE => buyer.front = TRUE
  /\ buyer.front = TRUE => buyer.open = TRUE
  /\ buyer.open = TRUE /\ buyer.stage # "none" => buyer.paying = TRUE

\* How far the payment is, and how far its order.
OrderOfStage ==
  /\ buyer.stage # "none" => buyer.order \in Numbers
  /\ buyer.stage = "create" => orders[buyer.order] = "none"
  /\ buyer.stage = "sdk" => orders[buyer.order] # "none" /\ buyer.order \notin charged \cup cancels
  /\ buyer.stage \in {"poll", "fetch"} => buyer.order \in charged
  /\ buyer.stage = "fetch" => orders[buyer.order] = "paid"

\* The orders, and what became of each.
Ledger ==
  /\ \A n \in Numbers : n \in charged \cup cancels => orders[n] # "none"
  /\ \A n \in Numbers : orders[n] = "paid" => n \in granted
  /\ charged \cap cancels = {}

\* Who fetches waits, and sees what was granted before.
FetchIsNew ==
  /\ buyer.stage = "fetch" <=> "pay" \in fetching.waits
  /\ buyer.stage = "fetch" => fetching.stage # "none"
  /\ buyer.stage = "fetch" /\ "joined" \notin blamed => buyer.order \in fetching.vip

BuyerInv ==
  BuyerTypes /\ Locked /\ OrderOfStage /\ Ledger /\ OrdersAreClosed /\ FetchIsNew /\ BoughtIsTold

LEMMA FinishedIs ==
  ASSUME NEW p \in Buyers
  PROVE  /\ Finished(p) \in Buyers
         /\ Finished(p).paying = FALSE /\ Finished(p).stage = "none" /\ Finished(p).polls = 0
         /\ Finished(p).open = p.open /\ Finished(p).front = p.front /\ Finished(p).modal = p.modal
         /\ Finished(p).order = p.order /\ Finished(p).told = p.told
BY DEF Finished, Buyers, PayStages

\* A purchase begins unless one is under way.
LEMMA BoughtIs ==
  ASSUME NEW p \in Buyers
  PROVE  LET q == Bought(p)
         IN  /\ q \in Buyers /\ q.open = p.open /\ q.front = p.front /\ q.modal = p.modal
             /\ q.told = p.told /\ q.polls = p.polls
             /\ \/ q.stage = p.stage /\ q.order = p.order /\ q.paying = p.paying
                \/ /\ p.paying = FALSE /\ q.paying = TRUE /\ q.stage = "create"
                   /\ q.order \in Numbers /\ orders[q.order] = "none"
<1> DEFINE n == CHOOSE x \in Numbers : orders[x] = "none"
           t == p.tries + 1
           q == [p EXCEPT !.paying = TRUE, !.stage = "create", !.tries = t, !.order = n]
<1>1. CASE p.paying \/ p.tries = MaxTries \/ \A x \in Numbers : orders[x] # "none"
  BY <1>1 DEF Bought
<1>2. CASE ~(p.paying \/ p.tries = MaxTries \/ \A x \in Numbers : orders[x] # "none")
  <2>1. Bought(p) = q  BY <1>2 DEF Bought
  <2>2. n \in Numbers /\ orders[n] = "none"  BY <1>2
  <2> HIDE DEF n
  <2>3. n \in Nat /\ t \in Nat
    <3>1. p.tries \in Nat  BY DEF Buyers
    <3>2. n \in Nat  BY <2>2, PurchaseAssumption DEF Numbers
    <3>3. QED  BY <3>1, <3>2
  <2> HIDE DEF t
  <2>4. /\ q \in Buyers /\ q.open = p.open /\ q.front = p.front /\ q.modal = p.modal
        /\ q.told = p.told /\ q.polls = p.polls /\ q.paying = TRUE /\ q.stage = "create" /\ q.order = n
    BY <2>3 DEF Buyers, PayStages
  <2>5. p.paying = FALSE  BY <1>2 DEF Buyers
  <2> HIDE DEF q
  <2>6. QED  BY <2>1, <2>2, <2>4, <2>5
<1>3. QED  BY <1>1, <1>2

LEMMA ClaimedIs ==
  ASSUME NEW p \in Buyers
  PROVE  LET q == Claimed(p)
         IN  /\ q \in Buyers /\ q.open = p.open /\ q.front = p.front /\ q.modal = p.modal
             /\ q.told = p.told /\ q.polls = p.polls
             /\ q.stage = p.stage /\ q.order = p.order /\ q.paying = p.paying
<1> DEFINE t == p.tries + 1
           q == [p EXCEPT !.claim = "list", !.tries = t]
<1>1. t \in Nat
  <2>1. p.tries \in Nat  BY DEF Buyers
  <2>2. QED  BY <2>1
<1>2. Claimed(p) = p \/ Claimed(p) = q  BY DEF Claimed
<1> HIDE DEF t
<1>3. /\ q \in Buyers /\ q.open = p.open /\ q.front = p.front /\ q.modal = p.modal
      /\ q.told = p.told /\ q.polls = p.polls
      /\ q.stage = p.stage /\ q.order = p.order /\ q.paying = p.paying
  BY <1>1 DEF Buyers
<1> HIDE DEF q
<1>4. QED  BY <1>2, <1>3

\* The payment that waits for the VIP ends with it, and is told of with it.
LEMMA GoOnIs ==
  ASSUME NEW p \in Buyers, NEW whom, NEW now \in SUBSET Nat
  PROVE  LET q == GoOn(p, whom, now)
         IN  /\ q \in Buyers /\ q.open = p.open /\ q.front = p.front /\ q.modal = p.modal
             /\ q.order = p.order
             /\ "pay" \in whom /\ p.stage = "fetch" =>
                  q.stage = "none" /\ q.paying = FALSE /\ q.polls = 0
             /\ "pay" \notin whom \/ p.stage # "fetch" =>
                  q.stage = p.stage /\ q.paying = p.paying /\ q.polls = p.polls
             /\ q.told.of = "buy" =>
                  \/ q.told = p.told
                  \/ p.stage = "fetch" /\ q.told.order = p.order /\ q.told.vip = now
<1> DEFINE claimed == [of |-> "claim", order |-> 0, vip |-> now]
           bought == [of |-> "buy", order |-> p.order, vip |-> now]
           a == IF "page" \in whom /\ p.open /\ p.front THEN [p EXCEPT !.vip = now] ELSE p
           b == IF "claim" \in whom /\ p.open
                THEN [a EXCEPT !.claim = "none", !.vip = now, !.told = claimed] ELSE a
           c == IF p.open THEN [b EXCEPT !.vip = now, !.told = bought] ELSE b
<1>0. /\ claimed \in Dialogs /\ claimed.of = "claim"
      /\ bought \in Dialogs /\ bought.order = p.order /\ bought.vip = now
  BY DEF Dialogs, Buyers
<1>1. /\ a \in Buyers /\ a.open = p.open /\ a.front = p.front /\ a.modal = p.modal /\ a.order = p.order
      /\ a.stage = p.stage /\ a.paying = p.paying /\ a.polls = p.polls /\ a.told = p.told
  <2> DEFINE withNow == [p EXCEPT !.vip = now]
  <2>1. /\ withNow \in Buyers /\ withNow.open = p.open /\ withNow.front = p.front /\ withNow.modal = p.modal
        /\ withNow.order = p.order /\ withNow.stage = p.stage /\ withNow.paying = p.paying
        /\ withNow.polls = p.polls /\ withNow.told = p.told
    BY DEF Buyers
  <2>2. a = withNow \/ a = p  OBVIOUS
  <2> HIDE DEF withNow, a
  <2>3. QED  BY <2>1, <2>2
<1> HIDE DEF a
<1>2. /\ b \in Buyers /\ b.open = p.open /\ b.front = p.front /\ b.modal = p.modal /\ b.order = p.order
      /\ b.stage = p.stage /\ b.paying = p.paying /\ b.polls = p.polls
      /\ b.told = p.told \/ b.told.of = "claim"
  <2> DEFINE withNow == [a EXCEPT !.claim = "none", !.vip = now, !.told = claimed]
  <2> HIDE DEF claimed
  <2>1. /\ withNow \in Buyers /\ withNow.open = a.open /\ withNow.front = a.front /\ withNow.modal = a.modal
        /\ withNow.order = a.order /\ withNow.stage = a.stage /\ withNow.paying = a.paying
        /\ withNow.polls = a.polls /\ withNow.told = claimed
    <3>1. now \in SUBSET Nat /\ claimed \in Dialogs /\ "none" \in {"none", "list", "post", "fetch"}  BY <1>0
    <3>2. withNow \in Buyers  BY <1>1, <3>1 DEF Buyers
    <3>3. /\ withNow.open = a.open /\ withNow.front = a.front /\ withNow.modal = a.modal
          /\ withNow.order = a.order /\ withNow.stage = a.stage /\ withNow.paying = a.paying
          /\ withNow.polls = a.polls /\ withNow.told = claimed
      BY <1>1 DEF Buyers
    <3>4. QED  BY <3>2, <3>3
  <2>2. b = withNow \/ b = a  OBVIOUS
  <2> HIDE DEF withNow, b
  <2>3. QED  BY <1>0, <1>1, <2>1, <2>2
<1>3. GoOn(p, whom, now) = IF "pay" \in whom /\ p.stage = "fetch" THEN Finished(c) ELSE b
  BY DEF GoOn, a
<1> HIDE DEF b
<1>4. /\ c \in Buyers /\ c.open = p.open /\ c.front = p.front /\ c.modal = p.modal /\ c.order = p.order
      /\ c.told = b.told \/ (c.told.order = p.order /\ c.told.vip = now)
  <2> DEFINE withNow == [b EXCEPT !.vip = now, !.told = bought]
  <2> HIDE DEF bought
  <2>1. /\ withNow \in Buyers /\ withNow.open = b.open /\ withNow.front = b.front /\ withNow.modal = b.modal
        /\ withNow.order = b.order /\ withNow.told = bought
    BY <1>0, <1>2 DEF Buyers
  <2>2. c = withNow \/ c = b  OBVIOUS
  <2> HIDE DEF withNow, c
  <2>3. QED  BY <1>0, <1>2, <2>1, <2>2
<1> HIDE DEF c
<1>5. CASE "pay" \in whom /\ p.stage = "fetch"
  <2>1. GoOn(p, whom, now) = Finished(c)  BY <1>3, <1>5
  <2>2. Finished(c).told = c.told  BY <1>4, FinishedIs
  <2>3. c.told.of = "buy" => c.told = p.told \/ (c.told.order = p.order /\ c.told.vip = now)
    BY <1>2, <1>4
  <2> DEFINE q == Finished(c)
  <2>4. /\ q \in Buyers /\ q.paying = FALSE /\ q.stage = "none" /\ q.polls = 0
        /\ q.open = c.open /\ q.front = c.front /\ q.modal = c.modal /\ q.order = c.order
    BY <1>4, FinishedIs
  <2>5. q.told = c.told  BY <2>2
  <2> HIDE DEF bought, claimed, q
  <2>6. GoOn(p, whom, now) = q  BY <2>1 DEF q
  <2>7. QED  BY <1>4, <1>5, <2>3, <2>4, <2>5, <2>6
<1>6. CASE ~("pay" \in whom /\ p.stage = "fetch")
  <2>1. GoOn(p, whom, now) = b  BY <1>3, <1>6
  <2>2. QED  BY <1>2, <1>6, <2>1
<1>7. QED  BY <1>5, <1>6

LEMMA FetchingIs ==
  ASSUME BuyerTypes, NEW who \in {"page", "pay", "claim"}
  PROVE  LET g == Fetching(who)
         IN  /\ g \in Fetches /\ g.stage # "none" /\ who \in g.waits
             /\ "pay" \in g.waits => who = "pay" \/ "pay" \in fetching.waits
             /\ fetching.stage = "none" => g.vip = granted
             /\ fetching.stage # "none" =>
                  g.stage = fetching.stage /\ fetching.waits \subseteq g.waits /\ g.vip = fetching.vip
<1>1. CASE fetching.stage = "none"
  BY <1>1 DEF Fetching, Fetches, BuyerTypes
<1>2. CASE fetching.stage # "none"
  BY <1>2 DEF Fetching, Fetches, BuyerTypes
<1>3. QED  BY <1>1, <1>2

\* The payment is where it was, and so are the orders.
LEMMA PaymentRests ==
  ASSUME BuyerInv, BuyerTypes', UNCHANGED <<orders, charged, cancels>>,
         granted \subseteq granted', blamed \subseteq blamed',
         buyer'.stage = buyer.stage, buyer.stage # "none" => buyer'.order = buyer.order,
         buyer'.modal = TRUE => buyer'.front = TRUE, buyer'.front = TRUE => buyer'.open = TRUE,
         buyer'.open = TRUE /\ buyer.stage # "none" => buyer'.paying = TRUE,
         buyer'.told.of = "buy" => buyer'.told = buyer.told,
         "pay" \in fetching'.waits <=> "pay" \in fetching.waits,
         buyer.stage = "fetch" =>
           /\ fetching'.stage # "none"
           /\ buyer.order \in fetching.vip => buyer.order \in fetching'.vip
  PROVE  BuyerInv'
<1>1. Locked'  BY DEF BuyerInv, Locked
<1>2. OrderOfStage'  BY DEF BuyerInv, OrderOfStage
<1>3. Ledger'  BY DEF BuyerInv, Ledger
<1>4. OrdersAreClosed'  BY DEF BuyerInv, OrdersAreClosed
<1>5. FetchIsNew'  BY DEF BuyerInv, FetchIsNew
<1>6. BoughtIsTold'  BY DEF BuyerInv, BoughtIsTold
<1>7. QED  BY <1>1, <1>2, <1>3, <1>4, <1>5, <1>6 DEF BuyerInv

\* A payment ends; an order that was being paid is charged or cancelled.
LEMMA PaymentEnds ==
  ASSUME BuyerInv, BuyerTypes', buyer.stage # "none", buyer'.stage = "none", UNCHANGED orders,
         charged \subseteq charged', cancels \subseteq cancels', charged' \cap cancels' = {},
         \/ UNCHANGED <<charged, cancels>> /\ buyer.stage # "sdk"
         \/ /\ buyer.stage = "sdk" /\ buyer.order \in charged' \cup cancels'
            /\ charged' \cup cancels' \subseteq charged \cup cancels \cup {buyer.order},
         granted \subseteq granted', blamed \subseteq blamed',
         buyer'.modal = TRUE => buyer'.front = TRUE, buyer'.front = TRUE => buyer'.open = TRUE,
         buyer'.told.of = "buy" /\ "joined" \notin blamed' => buyer'.told.order \in buyer'.told.vip,
         "pay" \notin fetching'.waits
  PROVE  BuyerInv'
<1>1. Locked' /\ OrderOfStage' /\ FetchIsNew'  BY DEF Locked, OrderOfStage, FetchIsNew
<1>2. Ledger'
  <2>1. buyer.stage = "sdk" => orders[buyer.order] # "none"  BY DEF BuyerInv, OrderOfStage
  <2>2. QED  BY <2>1 DEF BuyerInv, Ledger
<1>3. OrdersAreClosed'
  <2>1. SUFFICES ASSUME "lost" \notin blamed, NEW n \in Numbers, orders[n] = "open"
                 PROVE  n \in charged' \cup cancels'
    BY DEF OrdersAreClosed
  <2>2. n \in charged \cup cancels \/ (n = buyer.order /\ buyer.stage = "sdk")
    BY <2>1 DEF BuyerInv, OrdersAreClosed
  <2>3. QED  BY <2>2
<1>4. BoughtIsTold'  BY DEF BoughtIsTold
<1>5. QED  BY <1>1, <1>2, <1>3, <1>4 DEF BuyerInv

\* The answer to the request that makes the order is lost.
LEMMA PaymentLost ==
  ASSUME BuyerInv, BuyerTypes', buyer.stage = "create", buyer'.stage = "none",
         orders' \in {orders, [orders EXCEPT ![buyer.order] = "open"]},
         UNCHANGED <<charged, cancels, fetching>>, "lost" \in blamed',
         granted \subseteq granted', blamed \subseteq blamed',
         buyer'.modal = TRUE => buyer'.front = TRUE, buyer'.front = TRUE => buyer'.open = TRUE,
         buyer'.told.of = "buy" => buyer'.told = buyer.told
  PROVE  BuyerInv'
<1>1. Locked' /\ OrderOfStage' /\ FetchIsNew'  BY DEF BuyerInv, Locked, OrderOfStage, FetchIsNew
<1>2. \A n \in Numbers : orders'[n] = orders[n] \/ orders'[n] = "open"
  BY DEF BuyerInv, BuyerTypes
<1>3. Ledger'  BY <1>2 DEF BuyerInv, Ledger
<1>4. OrdersAreClosed'  BY DEF OrdersAreClosed
<1>5. BoughtIsTold'  BY DEF BuyerInv, BoughtIsTold
<1>6. QED  BY <1>1, <1>3, <1>4, <1>5 DEF BuyerInv

\* What the user does: p is the page after it, before a purchase or a claim.
LEMMA TouchedKeeps ==
  ASSUME BuyerInv, NEW p \in Buyers, buyer' \in {p, Bought(p), Claimed(p)}, buyer.front = TRUE,
         p.open = buyer.open, p.front = buyer.front, p.stage = buyer.stage, p.order = buyer.order,
         p.paying = buyer.paying, p.polls = buyer.polls, p.told \in {buyer.told, Silent},
         UNCHANGED <<ServerOrders, fetching, cached, blamed, visits>>
  PROVE  BuyerInv'
<1>1. /\ buyer' \in Buyers /\ buyer'.open = buyer.open /\ buyer'.front = TRUE
      /\ buyer'.polls = buyer.polls /\ buyer'.told = p.told
      /\ \/ buyer'.stage = buyer.stage /\ buyer'.order = buyer.order /\ buyer'.paying = buyer.paying
         \/ /\ buyer.paying = FALSE /\ buyer'.paying = TRUE /\ buyer'.stage = "create"
            /\ buyer'.order \in Numbers /\ orders[buyer'.order] = "none"
  <2>1. CASE buyer' = p  BY <2>1
  <2>2. CASE buyer' = Bought(p)
    <3> DEFINE q == Bought(p)
    <3>1. /\ q \in Buyers /\ q.open = p.open /\ q.front = p.front
          /\ q.told = p.told /\ q.polls = p.polls
          /\ \/ q.stage = p.stage /\ q.order = p.order /\ q.paying = p.paying
             \/ /\ p.paying = FALSE /\ q.paying = TRUE /\ q.stage = "create"
                /\ q.order \in Numbers /\ orders[q.order] = "none"
      BY BoughtIs
    <3>2. buyer' = q  BY <2>2
    <3> HIDE DEF q
    <3>3. QED  BY <3>1, <3>2
  <2>3. CASE buyer' = Claimed(p)
    <3> DEFINE q == Claimed(p)
    <3>1. /\ q \in Buyers /\ q.open = p.open /\ q.front = p.front
          /\ q.told = p.told /\ q.polls = p.polls
          /\ q.stage = p.stage /\ q.order = p.order /\ q.paying = p.paying
      BY ClaimedIs
    <3>2. buyer' = q  BY <2>3
    <3> HIDE DEF q
    <3>3. QED  BY <3>1, <3>2
  <2>4. QED  BY <2>1, <2>2, <2>3
<1>2. BuyerTypes'  BY <1>1 DEF BuyerInv, BuyerTypes, ServerOrders
<1>3. buyer'.told.of = "buy" => buyer'.told = buyer.told
  <2>1. Silent.of = ""  BY DEF Silent
  <2>2. QED  BY <1>1, <2>1
<1>4. buyer.open = TRUE  BY DEF BuyerInv, Locked
<1>5. CASE buyer'.stage = buyer.stage /\ buyer'.order = buyer.order /\ buyer'.paying = buyer.paying
  <2>1. buyer.stage # "none" => buyer'.paying = TRUE  BY <1>4, <1>5 DEF BuyerInv, Locked
  <2>2. QED  BY <1>1, <1>2, <1>3, <1>4, <1>5, <2>1, PaymentRests DEF ServerOrders, BuyerInv, FetchIsNew
<1>6. CASE /\ buyer.paying = FALSE /\ buyer'.paying = TRUE /\ buyer'.stage = "create"
           /\ buyer'.order \in Numbers /\ orders[buyer'.order] = "none"
  <2>1. buyer.stage = "none"  BY <1>4, <1>6 DEF BuyerInv, Locked
  <2>2. Locked' /\ OrderOfStage' /\ FetchIsNew'
    BY <1>1, <1>4, <1>6, <2>1 DEF BuyerInv, Locked, OrderOfStage, FetchIsNew, ServerOrders
  <2>3. Ledger'  BY DEF BuyerInv, Ledger, ServerOrders
  <2>4. OrdersAreClosed'  BY <1>6, <2>1 DEF BuyerInv, OrdersAreClosed, ServerOrders
  <2>5. BoughtIsTold'  BY <1>3 DEF BuyerInv, BoughtIsTold
  <2>6. QED  BY <1>2, <2>2, <2>3, <2>4, <2>5 DEF BuyerInv
<1>7. QED  BY <1>1, <1>5, <1>6

LEMMA TouchesKeep ==
  ASSUME BuyerInv, Touches
  PROVE  BuyerInv'
<1>1. buyer \in Buyers /\ UNCHANGED <<ServerOrders, fetching, cached, blamed, visits>>
  BY DEF Touches, BuyerInv, BuyerTypes
<1>2. buyer.modal = TRUE => buyer.front = TRUE  BY DEF BuyerInv, Locked
<1>3. ASSUME NEW p \in Buyers, buyer' \in {p, Bought(p), Claimed(p)}, buyer.front = TRUE,
             p.open = buyer.open, p.front = buyer.front, p.stage = buyer.stage, p.order = buyer.order,
             p.paying = buyer.paying, p.polls = buyer.polls, p.told \in {buyer.told, Silent}
      PROVE  BuyerInv'
  BY <1>1, <1>3, TouchedKeeps
<1>4. CASE ChangeCheck
  <2> DEFINE p == [buyer EXCEPT !.agreed = ~@]
  <2>1. /\ p \in Buyers /\ p.open = buyer.open /\ p.front = buyer.front /\ p.stage = buyer.stage
        /\ p.order = buyer.order /\ p.paying = buyer.paying /\ p.polls = buyer.polls /\ p.told = buyer.told
    BY <1>1 DEF Buyers
  <2>2. buyer' = p /\ buyer.front = TRUE  BY <1>1, <1>4 DEF ChangeCheck, Buyers
  <2> HIDE DEF p
  <2>3. QED  BY <1>3, <2>1, <2>2
<1>5. CASE DismissDialog
  <2>1. /\ buyer' = [buyer EXCEPT !.told = Silent] /\ Silent \in Dialogs /\ Silent.of # "buy"
    BY <1>5 DEF DismissDialog, Silent, Dialogs
  <2>2. /\ buyer' \in Buyers /\ buyer'.open = buyer.open /\ buyer'.front = buyer.front
        /\ buyer'.stage = buyer.stage /\ buyer'.order = buyer.order /\ buyer'.paying = buyer.paying
        /\ buyer'.polls = buyer.polls /\ buyer'.told = Silent /\ buyer'.modal = buyer.modal
    BY <1>1, <2>1 DEF Buyers
  <2>3. BuyerTypes'  BY <1>1, <2>2 DEF BuyerInv, BuyerTypes, ServerOrders
  <2>4. QED  BY <1>1, <2>1, <2>2, <2>3, PaymentRests DEF ServerOrders, BuyerInv, FetchIsNew, Locked
<1>6. CASE ConfirmBuy \/ ClaimFreeVip
  <2> DEFINE p == [buyer EXCEPT !.modal = TRUE, !.plan = TRUE, !.asked = "buy"]
             q == [buyer EXCEPT !.modal = TRUE, !.action = "claimFree", !.asked = "claim"]
  <2>1. buyer.front = TRUE  BY <1>1, <1>6 DEF ConfirmBuy, ClaimFreeVip, Buyers
  <2>2. /\ p \in Buyers /\ p.open = buyer.open /\ p.front = buyer.front /\ p.stage = buyer.stage
        /\ p.order = buyer.order /\ p.paying = buyer.paying /\ p.polls = buyer.polls /\ p.told = buyer.told
    BY <1>1 DEF Buyers
  <2>3. /\ q \in Buyers /\ q.open = buyer.open /\ q.front = buyer.front /\ q.stage = buyer.stage
        /\ q.order = buyer.order /\ q.paying = buyer.paying /\ q.polls = buyer.polls /\ q.told = buyer.told
    BY <1>1 DEF Buyers
  <2>4. buyer' \in {p, q, Bought(buyer), Claimed(buyer)}  BY <1>6 DEF ConfirmBuy, ClaimFreeVip
  <2> HIDE DEF p, q
  <2>5. QED  BY <1>1, <1>3, <2>1, <2>2, <2>3, <2>4
<1>7. CASE CloseAgreementModal
  <2> DEFINE p == [buyer EXCEPT !.modal = FALSE, !.plan = FALSE, !.action = "", !.asked = ""]
  <2>1. /\ p \in Buyers /\ p.open = buyer.open /\ p.front = buyer.front /\ p.stage = buyer.stage
        /\ p.order = buyer.order /\ p.paying = buyer.paying /\ p.polls = buyer.polls /\ p.told = buyer.told
    BY <1>1 DEF Buyers
  <2>2. buyer' = p /\ buyer.front = TRUE  BY <1>1, <1>2, <1>7 DEF CloseAgreementModal, Buyers
  <2> HIDE DEF p
  <2>3. QED  BY <1>3, <2>1, <2>2
<1>8. CASE AgreeAndContinue
  <2> DEFINE p == [buyer EXCEPT !.modal = FALSE, !.agreed = TRUE, !.asked = ""]
  <2>1. /\ p \in Buyers /\ p.open = buyer.open /\ p.front = buyer.front /\ p.stage = buyer.stage
        /\ p.order = buyer.order /\ p.paying = buyer.paying /\ p.polls = buyer.polls /\ p.told = buyer.told
    BY <1>1 DEF Buyers
  <2>2. buyer.front = TRUE  BY <1>1, <1>2, <1>8 DEF AgreeAndContinue, Buyers
  <2>3. buyer' \in {p, Bought(p), Claimed(p)}  BY <1>8 DEF AgreeAndContinue
  <2> HIDE DEF p
  <2>4. QED  BY <1>3, <2>1, <2>2, <2>3
<1>9. QED  BY <1>4, <1>5, <1>6, <1>7, <1>8 DEF Touches

\* The payment: its order is made, charged or cancelled, and asked for.
LEMMA OrderMadeKeeps ==
  ASSUME BuyerInv, OrderMade
  PROVE  BuyerInv'
<1>1. /\ buyer.stage = "create" /\ orders' = [orders EXCEPT ![buyer.order] = "open"]
      /\ buyer' = [buyer EXCEPT !.stage = "sdk"]
      /\ UNCHANGED <<fetching, cached, charged, granted, cancels, blamed, visits>>
  BY DEF OrderMade
<1>2. /\ BuyerTypes /\ Locked /\ OrderOfStage /\ Ledger /\ OrdersAreClosed /\ FetchIsNew /\ BoughtIsTold
  BY DEF BuyerInv
<1>3. /\ buyer' \in Buyers /\ buyer'.stage = "sdk" /\ buyer'.open = buyer.open /\ buyer'.front = buyer.front
      /\ buyer'.modal = buyer.modal /\ buyer'.paying = buyer.paying /\ buyer'.order = buyer.order
      /\ buyer'.polls = buyer.polls /\ buyer'.told = buyer.told
  BY <1>1, <1>2 DEF BuyerTypes, Buyers, PayStages
<1>4. /\ buyer.order \in Numbers /\ orders[buyer.order] = "none" /\ orders'[buyer.order] = "open"
      /\ \A n \in Numbers : n # buyer.order => orders'[n] = orders[n]
  BY <1>1, <1>2 DEF BuyerTypes, OrderOfStage
<1>5. BuyerTypes'  BY <1>1, <1>2, <1>3 DEF BuyerTypes
<1>6. Locked' /\ FetchIsNew' /\ BoughtIsTold'
  BY <1>1, <1>2, <1>3 DEF Locked, FetchIsNew, BoughtIsTold
<1>7. OrderOfStage'  BY <1>1, <1>2, <1>3, <1>4 DEF OrderOfStage, Ledger
<1>8. Ledger'  BY <1>1, <1>2, <1>4 DEF Ledger
<1>9. OrdersAreClosed'  BY <1>1, <1>2, <1>3, <1>4 DEF OrdersAreClosed
<1>10. QED  BY <1>5, <1>6, <1>7, <1>8, <1>9 DEF BuyerInv

LEMMA SdkKeeps ==
  ASSUME BuyerInv, SdkSucceeds \/ SdkFails
  PROVE  BuyerInv'
<1>1. /\ buyer.stage = "sdk" /\ UNCHANGED <<fetching, cached, orders, granted, blamed, visits>>
  BY DEF SdkSucceeds, SdkFails
<1>2. /\ BuyerTypes /\ Locked /\ OrderOfStage /\ Ledger /\ OrdersAreClosed /\ FetchIsNew /\ BoughtIsTold
  BY DEF BuyerInv
<1>3. buyer \in Buyers /\ buyer.order \in Numbers /\ orders[buyer.order] # "none"
      /\ buyer.order \notin charged /\ buyer.order \notin cancels
  BY <1>1, <1>2 DEF BuyerTypes, OrderOfStage
<1>4. ASSUME buyer' = Finished(buyer), charged \subseteq charged', cancels \subseteq cancels',
             charged' \cap cancels' = {}, buyer.order \in charged' \cup cancels',
             charged' \cup cancels' \subseteq charged \cup cancels \cup {buyer.order}
      PROVE  BuyerInv'
  <2> DEFINE q == Finished(buyer)
  <2>1. /\ q \in Buyers /\ q.stage = "none" /\ q.open = buyer.open /\ q.front = buyer.front
        /\ q.modal = buyer.modal /\ q.polls = 0 /\ q.told = buyer.told
    BY <1>3, FinishedIs
  <2>2. buyer' = q  BY <1>4
  <2> HIDE DEF q
  <2>3. charged' \subseteq Numbers /\ cancels' \subseteq Numbers  BY <1>2, <1>3, <1>4 DEF BuyerTypes
  <2>4. BuyerTypes'  BY <1>1, <1>2, <2>1, <2>2, <2>3, PurchaseAssumption DEF BuyerTypes
  <2>5. "pay" \notin fetching'.waits  BY <1>1, <1>2 DEF FetchIsNew
  <2>6. buyer'.told.of = "buy" /\ "joined" \notin blamed' => buyer'.told.order \in buyer'.told.vip
    BY <1>1, <1>2, <2>1, <2>2 DEF BoughtIsTold
  <2>7. /\ buyer'.modal = TRUE => buyer'.front = TRUE
        /\ buyer'.front = TRUE => buyer'.open = TRUE
    BY <1>2, <2>1, <2>2 DEF Locked
  <2>8. QED  BY <1>1, <1>4, <2>1, <2>2, <2>4, <2>5, <2>6, <2>7, PaymentEnds
<1>5. CASE SdkSucceeds
  <2>1. charged' = charged \cup {buyer.order} /\ cancels' = cancels  BY <1>5 DEF SdkSucceeds
  <2>2. charged' \cap cancels' = {}  BY <1>2, <1>3, <2>1 DEF Ledger
  <2>3. CASE buyer.open # TRUE
    <3>1. buyer' = Finished(buyer)  BY <1>3, <1>5, <2>3 DEF SdkSucceeds, Buyers
    <3>2. QED  BY <1>4, <2>1, <2>2, <3>1
  <2>4. CASE buyer.open = TRUE
    <3>1. buyer' = [buyer EXCEPT !.stage = "poll"]  BY <1>5, <2>4 DEF SdkSucceeds
    <3>2. /\ buyer' \in Buyers /\ buyer'.stage = "poll" /\ buyer'.open = buyer.open
          /\ buyer'.front = buyer.front /\ buyer'.modal = buyer.modal /\ buyer'.paying = buyer.paying
          /\ buyer'.order = buyer.order /\ buyer'.polls = buyer.polls /\ buyer'.told = buyer.told
      BY <1>3, <3>1 DEF Buyers, PayStages
    <3>3. BuyerTypes'  BY <1>1, <1>2, <1>3, <2>1, <3>2 DEF BuyerTypes
    <3>4. Locked' /\ FetchIsNew' /\ BoughtIsTold'
      BY <1>1, <1>2, <3>2 DEF Locked, FetchIsNew, BoughtIsTold
    <3>5. OrderOfStage'  BY <1>3, <2>1, <3>2 DEF OrderOfStage
    <3>6. Ledger'  BY <1>1, <1>2, <1>3, <2>1, <2>2 DEF Ledger
    <3>7. OrdersAreClosed'  BY <1>1, <1>2, <2>1 DEF OrdersAreClosed
    <3>8. QED  BY <3>3, <3>4, <3>5, <3>6, <3>7 DEF BuyerInv
  <2>5. QED  BY <2>3, <2>4
<1>6. CASE SdkFails
  <2>1. buyer' = Finished(buyer) /\ cancels' = cancels \cup {buyer.order} /\ charged' = charged
    BY <1>6 DEF SdkFails
  <2>2. charged' \cap cancels' = {}  BY <1>2, <1>3, <2>1 DEF Ledger
  <2>3. QED  BY <1>4, <2>1, <2>2
<1>7. QED  BY <1>5, <1>6

LEMMA PollKeeps ==
  ASSUME BuyerInv, OrderFails \/ PollEnds \/ PollAgain
  PROVE  BuyerInv'
<1>1. /\ buyer.stage \in {"create", "poll"}
      /\ UNCHANGED <<fetching, cached, charged, granted, cancels, visits>> /\ blamed \subseteq blamed'
  BY DEF OrderFails, PollEnds, PollAgain, ServerOrders, Blame
<1>2. /\ BuyerTypes /\ Locked /\ OrderOfStage /\ Ledger /\ OrdersAreClosed /\ FetchIsNew /\ BoughtIsTold
  BY DEF BuyerInv
<1>3. buyer \in Buyers /\ "pay" \notin fetching'.waits  BY <1>1, <1>2 DEF BuyerTypes, FetchIsNew
<1>4. ASSUME buyer' = Finished(buyer), orders' = orders \/ OrderFails PROVE BuyerInv'
  <2> DEFINE q == Finished(buyer)
  <2>1. /\ q \in Buyers /\ q.stage = "none" /\ q.open = buyer.open /\ q.front = buyer.front
        /\ q.modal = buyer.modal /\ q.polls = 0 /\ q.told = buyer.told
    BY <1>3, FinishedIs
  <2>2. buyer' = q  BY <1>4
  <2> HIDE DEF q
  <2>3. /\ buyer'.modal = TRUE => buyer'.front = TRUE
        /\ buyer'.front = TRUE => buyer'.open = TRUE
        /\ buyer'.told = buyer.told /\ buyer'.stage = "none"
    BY <1>2, <2>1, <2>2 DEF Locked
  <2>4. CASE orders' = orders
    <3>1. BuyerTypes'  BY <1>1, <1>2, <2>1, <2>2, <2>4, PurchaseAssumption DEF BuyerTypes
    <3>2. buyer'.told.of = "buy" /\ "joined" \notin blamed' => buyer'.told.order \in buyer'.told.vip
      BY <1>1, <1>2, <2>3 DEF BoughtIsTold
    <3>3. charged' \cap cancels' = {}  BY <1>1, <1>2 DEF Ledger
    <3>4. QED  BY <1>1, <1>3, <2>3, <2>4, <3>1, <3>2, <3>3, PaymentEnds
  <2>5. CASE orders' # orders
    <3>1. /\ buyer.stage = "create" /\ orders' = [orders EXCEPT ![buyer.order] = "open"]
          /\ "lost" \in blamed'
      BY <1>4, <2>5 DEF OrderFails, Blame
    <3>2. BuyerTypes'
      <4>1. orders' \in [Numbers -> {"none", "open", "paid", "closed"}]  BY <1>2, <3>1 DEF BuyerTypes
      <4>2. QED  BY <1>1, <1>2, <2>1, <2>2, <4>1, PurchaseAssumption DEF BuyerTypes
    <3>3. QED  BY <1>1, <2>3, <3>1, <3>2, PaymentLost
  <2>6. QED  BY <2>4, <2>5
<1>5. CASE OrderFails  BY <1>4, <1>5 DEF OrderFails
<1>6. CASE PollEnds  BY <1>4, <1>6 DEF PollEnds, ServerOrders
<1>7. CASE PollAgain
  <2>1. CASE buyer.polls + 1 = MaxPolls  BY <1>4, <1>7, <2>1 DEF PollAgain, ServerOrders
  <2>2. CASE buyer.polls + 1 # MaxPolls
    <3> DEFINE x == buyer.polls + 1
    <3>1. buyer.polls \in Nat /\ buyer.polls < MaxPolls  BY <1>2 DEF BuyerTypes, Buyers
    <3>2. x \in Nat /\ x < MaxPolls  BY <2>2, <3>1, PurchaseAssumption
    <3>3. buyer' = [buyer EXCEPT !.polls = x] /\ orders' = orders /\ blamed' = blamed
      BY <1>7, <2>2 DEF PollAgain, ServerOrders
    <3> HIDE DEF x
    <3>4. /\ buyer' \in Buyers /\ buyer'.stage = buyer.stage /\ buyer'.open = buyer.open
          /\ buyer'.front = buyer.front /\ buyer'.modal = buyer.modal /\ buyer'.paying = buyer.paying
          /\ buyer'.order = buyer.order /\ buyer'.polls = x /\ buyer'.told = buyer.told
      BY <1>3, <3>2, <3>3 DEF Buyers
    <3>5. BuyerTypes'  BY <1>1, <1>2, <3>2, <3>3, <3>4 DEF BuyerTypes
    <3>6. /\ buyer'.modal = TRUE => buyer'.front = TRUE
          /\ buyer'.front = TRUE => buyer'.open = TRUE
          /\ buyer'.open = TRUE /\ buyer.stage # "none" => buyer'.paying = TRUE
      BY <1>2, <3>4 DEF Locked
    <3>7. QED  BY <1>1, <3>3, <3>4, <3>5, <3>6, PaymentRests
  <2>3. QED  BY <2>1, <2>2
<1>8. QED  BY <1>5, <1>6, <1>7

LEMMA PollPaidKeeps ==
  ASSUME BuyerInv, PollPaid
  PROVE  BuyerInv'
<1> DEFINE g == Fetching("pay")
<1>1. /\ buyer.stage = "poll" /\ orders[buyer.order] = "paid" /\ buyer' = [buyer EXCEPT !.stage = "fetch"]
      /\ fetching' = g /\ (fetching.stage # "none" => "joined" \in blamed') /\ blamed \subseteq blamed'
      /\ UNCHANGED <<ServerOrders, cached, visits>>
  BY DEF PollPaid, Blame, Joined
<1>2. /\ BuyerTypes /\ Locked /\ OrderOfStage /\ Ledger /\ OrdersAreClosed /\ FetchIsNew /\ BoughtIsTold
  BY DEF BuyerInv
<1>3. /\ g \in Fetches /\ g.stage # "none" /\ "pay" \in g.waits
      /\ fetching.stage = "none" => g.vip = granted
  BY <1>2, FetchingIs
<1> HIDE DEF g
<1>4. /\ buyer' \in Buyers /\ buyer'.stage = "fetch" /\ buyer'.open = buyer.open
      /\ buyer'.front = buyer.front /\ buyer'.modal = buyer.modal /\ buyer'.paying = buyer.paying
      /\ buyer'.order = buyer.order /\ buyer'.polls = buyer.polls /\ buyer'.told = buyer.told
  BY <1>1, <1>2 DEF BuyerTypes, Buyers, PayStages
<1>5. buyer.order \in Numbers /\ buyer.order \in granted /\ buyer.order \in charged
  BY <1>1, <1>2 DEF OrderOfStage, Ledger
<1>6. BuyerTypes'  BY <1>1, <1>2, <1>3, <1>4 DEF BuyerTypes, ServerOrders
<1>7. Locked' /\ BoughtIsTold'  BY <1>1, <1>2, <1>4 DEF Locked, BoughtIsTold
<1>8. OrderOfStage' /\ Ledger'  BY <1>1, <1>2, <1>4, <1>5 DEF OrderOfStage, Ledger, ServerOrders
<1>9. OrdersAreClosed'  BY <1>1, <1>2, <1>4 DEF OrdersAreClosed, ServerOrders
<1>10. FetchIsNew'  BY <1>1, <1>3, <1>4, <1>5 DEF FetchIsNew
<1>11. QED  BY <1>6, <1>7, <1>8, <1>9, <1>10 DEF BuyerInv

LEMMA FetchingRests ==
  ASSUME BuyerInv, NEW who \in {"page", "claim"}, fetching' = Fetching(who)
  PROVE  /\ fetching' \in Fetches /\ ("pay" \in fetching'.waits <=> "pay" \in fetching.waits)
         /\ buyer.stage = "fetch" =>
              /\ fetching'.stage # "none"
              /\ buyer.order \in fetching.vip => buyer.order \in fetching'.vip
<1> DEFINE g == Fetching(who)
<1>1. BuyerTypes /\ FetchIsNew /\ who \in {"page", "pay", "claim"} /\ who # "pay"  BY DEF BuyerInv
<1>2. /\ g \in Fetches /\ g.stage # "none" /\ ("pay" \in g.waits => who = "pay" \/ "pay" \in fetching.waits)
      /\ fetching.stage # "none" =>
           g.stage = fetching.stage /\ fetching.waits \subseteq g.waits /\ g.vip = fetching.vip
  BY <1>1, FetchingIs
<1>3. fetching' = g  OBVIOUS
<1> HIDE DEF g
<1>4. QED  BY <1>1, <1>2, <1>3 DEF FetchIsNew

\* Claiming the free time leaves the payment alone.
LEMMA ClaimingKeeps ==
  ASSUME BuyerInv, ClaimListed \/ ClaimFails \/ ClaimRuns
  PROVE  BuyerInv'
<1>1. /\ UNCHANGED <<orders, charged, cancels, cached, visits>> /\ blamed \subseteq blamed'
      /\ granted' \in {granted, granted \cup {0}}
  BY DEF ClaimListed, ClaimFails, ClaimRuns, ServerOrders, Blame, FreeTime
<1>2. BuyerTypes /\ Locked /\ FetchIsNew  BY DEF BuyerInv
<1>3. PICK x \in {"none", "post", "fetch"} : buyer' = [buyer EXCEPT !.claim = x]
  BY DEF ClaimListed, ClaimFails, ClaimRuns
<1>4. /\ buyer' \in Buyers /\ buyer'.stage = buyer.stage /\ buyer'.open = buyer.open
      /\ buyer'.front = buyer.front /\ buyer'.modal = buyer.modal /\ buyer'.paying = buyer.paying
      /\ buyer'.order = buyer.order /\ buyer'.polls = buyer.polls /\ buyer'.told = buyer.told
  BY <1>2, <1>3 DEF BuyerTypes, Buyers
<1>5. fetching' = fetching \/ fetching' = Fetching("claim")
  BY DEF ClaimListed, ClaimFails, ClaimRuns
<1>6. /\ fetching' \in Fetches /\ ("pay" \in fetching'.waits <=> "pay" \in fetching.waits)
      /\ buyer.stage = "fetch" =>
           /\ fetching'.stage # "none"
           /\ buyer.order \in fetching.vip => buyer.order \in fetching'.vip
  <2>1. CASE fetching' = fetching  BY <1>2, <2>1 DEF BuyerTypes, FetchIsNew
  <2>2. CASE fetching' = Fetching("claim")
    <3>1. PICK who \in {"page", "claim"} : fetching' = Fetching(who)  BY <2>2
    <3>2. QED  BY <3>1, FetchingRests
  <2>3. QED  BY <1>5, <2>1, <2>2
<1>7. granted \subseteq granted' /\ granted' \subseteq Nat  BY <1>1, <1>2 DEF BuyerTypes
<1>8. BuyerTypes'  BY <1>1, <1>2, <1>4, <1>6, <1>7 DEF BuyerTypes
<1>9. /\ buyer'.modal = TRUE => buyer'.front = TRUE
      /\ buyer'.front = TRUE => buyer'.open = TRUE
      /\ buyer'.open = TRUE /\ buyer.stage # "none" => buyer'.paying = TRUE
  BY <1>2, <1>4 DEF Locked
<1>10. QED  BY <1>1, <1>4, <1>6, <1>7, <1>8, <1>9, PaymentRests

\* A purchase is among what was granted, so what is read later has it.
LEMMA VipReadKeeps ==
  ASSUME BuyerInv, VipRead
  PROVE  BuyerInv'
<1>1. PICK now \in {fetching.vip, granted} :
        fetching' = [fetching EXCEPT !.stage = "free", !.vip = now \ {FreeTime}]
  BY DEF VipRead
<1>2. UNCHANGED <<buyer, cached, orders, charged, granted, cancels, blamed, visits>>
  BY DEF VipRead, ServerOrders
<1>3. BuyerTypes /\ Locked /\ OrderOfStage /\ Ledger /\ FetchIsNew  BY DEF BuyerInv
<1>4. fetching \in Fetches /\ now \in SUBSET Nat  BY <1>3 DEF BuyerTypes, Fetches
<1>5. /\ fetching' \in Fetches /\ fetching'.stage = "free" /\ fetching'.waits = fetching.waits
      /\ fetching'.vip = now \ {FreeTime}
  BY <1>1, <1>4 DEF Fetches
<1>6. buyer.stage = "fetch" => buyer.order \in granted /\ buyer.order # FreeTime
  <2>1. \A n \in Numbers : n # FreeTime  BY PurchaseAssumption DEF Numbers, FreeTime
  <2>2. QED  BY <1>3, <2>1 DEF OrderOfStage, Ledger
<1>7. BuyerTypes'  BY <1>2, <1>3, <1>5 DEF BuyerTypes
<1>8. buyer.stage = "fetch" /\ buyer.order \in fetching.vip => buyer.order \in fetching'.vip
  BY <1>5, <1>6
<1>9. /\ buyer'.modal = TRUE => buyer'.front = TRUE
      /\ buyer'.front = TRUE => buyer'.open = TRUE
      /\ buyer'.open = TRUE /\ buyer.stage # "none" => buyer'.paying = TRUE
  BY <1>2, <1>3 DEF Locked
<1>10. QED  BY <1>2, <1>5, <1>7, <1>8, <1>9, PaymentRests

LEMMA PageFetchEndsKeeps ==
  ASSUME BuyerInv, FreeRead \/ VipFails
  PROVE  BuyerInv'
<1>1. fetching' = NoFetch /\ UNCHANGED <<orders, charged, granted, cancels, blamed, visits>>
  <2>1. CASE FreeRead  BY <2>1 DEF FreeRead, ServerOrders
  <2>2. CASE VipFails
    <3>1. fetching' = NoFetch /\ UNCHANGED <<ServerOrders, blamed, visits>>  BY <2>2 DEF VipFails
    <3>2. QED  BY <3>1 DEF ServerOrders
  <2>3. QED  BY <2>1, <2>2
<1>2. BuyerTypes /\ Locked /\ Ledger /\ FetchIsNew /\ BoughtIsTold  BY DEF BuyerInv
<1>3. NoFetch \in Fetches /\ NoFetch.waits = {}  BY DEF NoFetch, Fetches
<1>4. buyer \in Buyers /\ fetching \in Fetches /\ fetching.vip \in SUBSET Nat
  BY <1>2 DEF BuyerTypes, Fetches
<1>5. ASSUME buyer' \in Buyers, cached' \subseteq Nat, buyer'.open = buyer.open, buyer'.front = buyer.front,
             buyer'.modal = buyer.modal, buyer'.order = buyer.order,
             IF "pay" \in fetching.waits
             THEN buyer'.stage = "none" /\ buyer'.polls = 0
             ELSE buyer'.stage = buyer.stage /\ buyer'.paying = buyer.paying /\ buyer'.polls = buyer.polls,
             buyer'.told.of = "buy" =>
               \/ buyer'.told = buyer.told
               \/ /\ buyer.stage = "fetch" /\ buyer'.told.order = buyer.order
                  /\ fetching.vip \subseteq buyer'.told.vip
      PROVE  BuyerInv'
  <2>1. BuyerTypes'  BY <1>1, <1>2, <1>3, <1>5, PurchaseAssumption DEF BuyerTypes
  <2>2. /\ buyer'.modal = TRUE => buyer'.front = TRUE
        /\ buyer'.front = TRUE => buyer'.open = TRUE
    BY <1>2, <1>5 DEF Locked
  <2>3. CASE "pay" \in fetching.waits
    <3>1. buyer.stage = "fetch" /\ buyer'.stage = "none"  BY <1>2, <1>5, <2>3 DEF FetchIsNew
    <3>2. buyer'.told.of = "buy" /\ "joined" \notin blamed' => buyer'.told.order \in buyer'.told.vip
      BY <1>1, <1>2, <1>5, <3>1 DEF BoughtIsTold, FetchIsNew
    <3>3. "pay" \notin fetching'.waits /\ charged' \cap cancels' = {}  BY <1>1, <1>2, <1>3 DEF Ledger
    <3>4. QED  BY <1>1, <2>1, <2>2, <3>1, <3>2, <3>3, PaymentEnds
  <2>4. CASE "pay" \notin fetching.waits
    <3>1. buyer.stage # "fetch" /\ buyer'.stage = buyer.stage  BY <1>2, <1>5, <2>4 DEF FetchIsNew
    <3>2. buyer'.told.of = "buy" => buyer'.told = buyer.told  BY <1>5, <3>1
    <3>3. buyer'.open = TRUE /\ buyer.stage # "none" => buyer'.paying = TRUE
      BY <1>2, <1>5, <2>4 DEF Locked
    <3>4. "pay" \in fetching'.waits <=> "pay" \in fetching.waits  BY <1>1, <1>3, <2>4
    <3>5. QED  BY <1>1, <1>5, <2>1, <2>2, <3>1, <3>2, <3>3, <3>4, PaymentRests
  <2>5. QED  BY <2>3, <2>4
<1>6. CASE FreeRead
  <2>1. PICK ok \in BOOLEAN :
          LET now == fetching.vip \cup (IF ok THEN granted \cap {FreeTime} ELSE {})
          IN  cached' = now /\ buyer' = GoOn(buyer, fetching.waits, now)
    BY <1>6 DEF FreeRead
  <2> DEFINE now == fetching.vip \cup (IF ok THEN granted \cap {FreeTime} ELSE {})
             q == GoOn(buyer, fetching.waits, now)
  <2>2. cached' = now /\ buyer' = q  BY <2>1
  <2>3. now \in SUBSET Nat /\ fetching.vip \subseteq now  BY <1>2, <1>4 DEF BuyerTypes
  <2> HIDE DEF now
  <2>4. /\ q \in Buyers /\ q.open = buyer.open /\ q.front = buyer.front /\ q.modal = buyer.modal
        /\ q.order = buyer.order
        /\ "pay" \in fetching.waits /\ buyer.stage = "fetch" =>
             q.stage = "none" /\ q.paying = FALSE /\ q.polls = 0
        /\ "pay" \notin fetching.waits \/ buyer.stage # "fetch" =>
             q.stage = buyer.stage /\ q.paying = buyer.paying /\ q.polls = buyer.polls
        /\ q.told.of = "buy" =>
             \/ q.told = buyer.told
             \/ buyer.stage = "fetch" /\ q.told.order = buyer.order /\ q.told.vip = now
    BY <1>4, <2>3, GoOnIs
  <2>5. "pay" \in fetching.waits => buyer.stage = "fetch"  BY <1>2 DEF FetchIsNew
  <2> HIDE DEF q
  <2>6. QED  BY <1>5, <2>2, <2>3, <2>4, <2>5
<1>7. CASE VipFails
  <2> DEFINE r == [buyer EXCEPT !.claim = "none", !.vip = cached]
             p == IF "claim" \in fetching.waits THEN r ELSE buyer
             q == Finished(p)
  <2>1. /\ r \in Buyers /\ r.open = buyer.open /\ r.front = buyer.front /\ r.modal = buyer.modal
        /\ r.order = buyer.order /\ r.stage = buyer.stage /\ r.paying = buyer.paying
        /\ r.polls = buyer.polls /\ r.told = buyer.told
    BY <1>2, <1>4 DEF BuyerTypes, Buyers
  <2>2. buyer' = (IF "pay" \in fetching.waits THEN q ELSE p) /\ cached' = cached
    BY <1>7 DEF VipFails
  <2>3. p = r \/ p = buyer  OBVIOUS
  <2> HIDE DEF r, p
  <2>4. /\ p \in Buyers /\ p.open = buyer.open /\ p.front = buyer.front /\ p.modal = buyer.modal
        /\ p.order = buyer.order /\ p.stage = buyer.stage /\ p.paying = buyer.paying
        /\ p.polls = buyer.polls /\ p.told = buyer.told
    BY <1>4, <2>1, <2>3
  <2>5. /\ q \in Buyers /\ q.stage = "none" /\ q.open = p.open /\ q.front = p.front
        /\ q.modal = p.modal /\ q.polls = 0 /\ q.told = p.told /\ q.order = p.order
    BY <2>4, FinishedIs
  <2> HIDE DEF q
  <2>6. cached' \subseteq Nat  BY <1>2, <2>2 DEF BuyerTypes
  <2>7. QED
    <3>1. CASE "pay" \in fetching.waits  BY <1>5, <2>2, <2>4, <2>5, <2>6, <3>1
    <3>2. CASE "pay" \notin fetching.waits  BY <1>5, <2>2, <2>4, <2>6, <3>2
    <3>3. QED  BY <3>1, <3>2
<1>8. QED  BY <1>6, <1>7

\* The page comes and goes; WeChat's dialog and the fetch outlive it.
LEMMA VisitsKeep ==
  ASSUME BuyerInv, ShowBuyer \/ HideBuyer \/ OpenBuyer
  PROVE  BuyerInv'
<1>1. /\ UNCHANGED <<ServerOrders, cached>> /\ visits' \in {visits, visits + 1}
      /\ (visits' # visits => visits < MaxVisits) /\ blamed \subseteq blamed'
      /\ fetching' = fetching \/ fetching' = Fetching("page")
  BY DEF ShowBuyer, HideBuyer, OpenBuyer, Visit, Blame
<1>2. BuyerTypes /\ Locked /\ FetchIsNew  BY DEF BuyerInv
<1>3. Silent \in Dialogs /\ Silent.of = ""  BY DEF Silent, Dialogs
<1>4. /\ buyer' \in Buyers /\ buyer'.stage = buyer.stage /\ (buyer.stage # "none" => buyer'.order = buyer.order)
      /\ buyer'.polls < MaxPolls
      /\ buyer'.modal = TRUE => buyer'.front = TRUE
      /\ buyer'.front = TRUE => buyer'.open = TRUE
      /\ buyer'.open = TRUE /\ buyer.stage # "none" => buyer'.paying = TRUE
      /\ buyer'.told.of = "buy" => buyer'.told = buyer.told
  <2>1. CASE ShowBuyer
    <3>1. buyer' = [buyer EXCEPT !.front = TRUE, !.vip = cached] /\ buyer.open = TRUE
      BY <1>2, <2>1 DEF ShowBuyer, BuyerTypes, Buyers
    <3>2. /\ buyer' \in Buyers /\ buyer'.stage = buyer.stage /\ buyer'.order = buyer.order
          /\ buyer'.open = buyer.open /\ buyer'.front = TRUE /\ buyer'.modal = buyer.modal
          /\ buyer'.paying = buyer.paying /\ buyer'.polls = buyer.polls /\ buyer'.told = buyer.told
      BY <1>2, <3>1 DEF BuyerTypes, Buyers
    <3>3. QED  BY <1>2, <3>1, <3>2 DEF Locked, BuyerTypes
  <2>2. CASE HideBuyer
    <3>1. buyer' = [buyer EXCEPT !.front = FALSE, !.modal = FALSE, !.asked = "", !.told = Silent]
      BY <2>2 DEF HideBuyer
    <3>2. /\ buyer' \in Buyers /\ buyer'.stage = buyer.stage /\ buyer'.order = buyer.order
          /\ buyer'.open = buyer.open /\ buyer'.front = FALSE /\ buyer'.modal = FALSE
          /\ buyer'.paying = buyer.paying /\ buyer'.polls = buyer.polls /\ buyer'.told = Silent
      BY <1>2, <1>3, <3>1 DEF BuyerTypes, Buyers
    <3>3. QED  BY <1>2, <1>3, <3>2 DEF Locked, BuyerTypes
  <2>3. CASE OpenBuyer
    <3>1. buyer' = PageOpened /\ buyer.stage = "none" /\ cached \in SUBSET Nat
      BY <1>2, <2>3 DEF OpenBuyer, BuyerTypes
    <3>2. /\ buyer' \in Buyers /\ buyer'.stage = "none" /\ buyer'.polls = 0 /\ buyer'.open = TRUE
          /\ buyer'.modal = FALSE /\ buyer'.told = Silent
      BY <1>3, <3>1 DEF PageOpened, Buyers, PayStages
    <3>3. buyer'.polls < MaxPolls  BY <3>2, PurchaseAssumption
    <3>4. QED  BY <1>3, <3>1, <3>2, <3>3
  <2>4. QED  BY <2>1, <2>2, <2>3
<1>5. /\ fetching' \in Fetches /\ ("pay" \in fetching'.waits <=> "pay" \in fetching.waits)
      /\ buyer.stage = "fetch" =>
           /\ fetching'.stage # "none"
           /\ buyer.order \in fetching.vip => buyer.order \in fetching'.vip
  <2>1. CASE fetching' = fetching  BY <1>2, <2>1 DEF BuyerTypes, FetchIsNew
  <2>2. CASE fetching' = Fetching("page")
    <3>1. PICK who \in {"page", "claim"} : fetching' = Fetching(who)  BY <2>2
    <3>2. QED  BY <3>1, FetchingRests
  <2>3. QED  BY <1>1, <2>1, <2>2
<1>6. visits' \in 0..MaxVisits  BY <1>1, <1>2, PurchaseAssumption DEF BuyerTypes
<1>7. BuyerTypes'  BY <1>1, <1>2, <1>4, <1>5, <1>6 DEF BuyerTypes, ServerOrders
<1>8. QED  BY <1>1, <1>4, <1>5, <1>7, PaymentRests DEF ServerOrders

LEMMA CloseKeeps ==
  ASSUME BuyerInv, CloseBuyer
  PROVE  BuyerInv'
<1> DEFINE p == [buyer EXCEPT !.open = FALSE, !.front = FALSE, !.modal = FALSE, !.asked = "",
                              !.told = Silent, !.paying = FALSE, !.claim = "none"]
           q == Finished(p)
<1>1. /\ UNCHANGED <<fetching, cached, charged, cancels>> /\ visits < MaxVisits /\ visits' = visits + 1
      /\ granted' \in {granted, granted \cup {0}}
      /\ IF buyer.stage = "create"
         THEN orders' \in {orders, [orders EXCEPT ![buyer.order] = "open"]} /\ blamed' = blamed \cup {"lost"}
         ELSE UNCHANGED <<orders, blamed>>
      /\ buyer' = IF buyer.stage \in {"create", "poll"} THEN q ELSE p
  BY DEF CloseBuyer, Visit, Blame, FreeTime
<1>2. BuyerTypes /\ Locked /\ Ledger /\ FetchIsNew /\ buyer \in Buyers  BY DEF BuyerInv, BuyerTypes
<1>3. Silent \in Dialogs /\ Silent.of = ""  BY DEF Silent, Dialogs
<1>4. /\ p \in Buyers /\ p.open = FALSE /\ p.front = FALSE /\ p.modal = FALSE /\ p.told = Silent
      /\ p.stage = buyer.stage /\ p.order = buyer.order /\ p.polls = buyer.polls
  BY <1>2, <1>3 DEF Buyers
<1> HIDE DEF p
<1>5. /\ q \in Buyers /\ q.open = FALSE /\ q.front = FALSE /\ q.modal = FALSE /\ q.told = Silent
      /\ q.stage = "none" /\ q.order = buyer.order /\ q.polls = 0
  BY <1>4, FinishedIs
<1> HIDE DEF q
<1>6. /\ buyer' \in Buyers /\ buyer'.open = FALSE /\ buyer'.front = FALSE /\ buyer'.modal = FALSE
      /\ buyer'.told = Silent /\ buyer'.polls < MaxPolls
  BY <1>1, <1>2, <1>4, <1>5, PurchaseAssumption DEF BuyerTypes
<1>7. visits' \in 0..MaxVisits  BY <1>1, <1>2, PurchaseAssumption DEF BuyerTypes
<1>8. granted \subseteq granted' /\ granted' \subseteq Nat  BY <1>1, <1>2 DEF BuyerTypes
<1>9. orders' \in [Numbers -> {"none", "open", "paid", "closed"}]  BY <1>1, <1>2 DEF BuyerTypes
<1>10. BuyerTypes'  BY <1>1, <1>2, <1>6, <1>7, <1>8, <1>9 DEF BuyerTypes
<1>11. buyer'.told.of # "buy"  BY <1>3, <1>6
<1>12. CASE buyer.stage = "create"
  <2>1. buyer'.stage = "none" /\ "lost" \in blamed' /\ blamed \subseteq blamed'  BY <1>1, <1>5, <1>12
  <2>2. QED  BY <1>1, <1>6, <1>8, <1>10, <1>11, <1>12, <2>1, PaymentLost
<1>13. CASE buyer.stage = "poll"
  <2>1. buyer'.stage = "none" /\ UNCHANGED <<orders, blamed>>  BY <1>1, <1>5, <1>13
  <2>2. "pay" \notin fetching'.waits /\ charged' \cap cancels' = {}
    BY <1>1, <1>2, <1>13 DEF FetchIsNew, Ledger
  <2>3. QED  BY <1>1, <1>6, <1>8, <1>10, <1>11, <1>13, <2>1, <2>2, PaymentEnds
<1>14. CASE buyer.stage \notin {"create", "poll"}
  <2>1. buyer'.stage = buyer.stage /\ buyer'.order = buyer.order /\ UNCHANGED <<orders, blamed>>
    BY <1>1, <1>4, <1>14
  <2>2. QED  BY <1>1, <1>2, <1>6, <1>8, <1>10, <1>11, <2>1, PaymentRests DEF FetchIsNew
<1>15. QED  BY <1>12, <1>13, <1>14

\* The server settles what was charged and closes what is open.
LEMMA ServerKeeps ==
  ASSUME BuyerInv, NEW n \in Numbers, OrderPaid(n) \/ OrderCloses(n)
  PROVE  BuyerInv'
<1>1. /\ UNCHANGED <<buyer, fetching, cached, charged, cancels, blamed, visits>>
      /\ granted' \in {granted, granted \cup {n}} /\ orders[n] \in {"open", "closed"}
      /\ orders' \in {[orders EXCEPT ![n] = "paid"], [orders EXCEPT ![n] = "closed"]}
      /\ (orders'[n] = "paid" => n \in granted') /\ orders'[n] \in {"paid", "closed"}
  BY DEF OrderPaid, OrderCloses, BuyerInv, BuyerTypes
<1>2. /\ BuyerTypes /\ Locked /\ OrderOfStage /\ Ledger /\ OrdersAreClosed /\ FetchIsNew /\ BoughtIsTold
  BY DEF BuyerInv
<1>3. n \in Nat  BY PurchaseAssumption DEF Numbers
<1>4. /\ orders' \in [Numbers -> {"none", "open", "paid", "closed"}]
      /\ \A o \in Numbers : o # n => orders'[o] = orders[o]
  BY <1>1, <1>2 DEF BuyerTypes
<1>5. BuyerTypes'  BY <1>1, <1>2, <1>3, <1>4 DEF BuyerTypes
<1>6. Locked' /\ FetchIsNew' /\ BoughtIsTold'  BY <1>1, <1>2 DEF Locked, FetchIsNew, BoughtIsTold
<1>7. OrderOfStage'
  <2>1. \A o \in Numbers : /\ orders[o] = "none" => orders'[o] = "none"
                           /\ orders[o] # "none" => orders'[o] # "none"
                           /\ orders[o] = "paid" => orders'[o] = "paid"
    BY <1>1, <1>4
  <2>2. QED  BY <1>1, <1>2, <2>1 DEF OrderOfStage
<1>8. Ledger'
  <2>1. \A o \in Numbers : /\ orders[o] # "none" => orders'[o] # "none"
                           /\ orders'[o] = "paid" => o \in granted'
    BY <1>1, <1>2, <1>4 DEF Ledger
  <2>2. QED  BY <1>1, <1>2, <2>1 DEF Ledger
<1>9. OrdersAreClosed'
  <2>1. \A o \in Numbers : orders'[o] = "open" => orders[o] = "open"  BY <1>1, <1>4
  <2>2. QED  BY <1>1, <1>2, <2>1 DEF OrdersAreClosed
<1>10. QED  BY <1>5, <1>6, <1>7, <1>8, <1>9 DEF BuyerInv

LEMMA BuyerInvInit == BuyerInit => BuyerInv
<1> SUFFICES ASSUME BuyerInit PROVE BuyerInv
  OBVIOUS
<1>1. /\ cached = {} /\ orders = [n \in Numbers |-> "none"] /\ charged = {} /\ granted = {}
      /\ cancels = {} /\ visits = 0 /\ buyer = PageOpened
      /\ fetching = [stage |-> "vip", vip |-> {}, waits |-> {"page"}]
  BY DEF BuyerInit
<1>2. Silent \in Dialogs /\ Silent.of = ""  BY DEF Silent, Dialogs
<1>3. /\ buyer \in Buyers /\ buyer.stage = "none" /\ buyer.polls = 0 /\ buyer.open = TRUE
      /\ buyer.modal = FALSE /\ buyer.told = Silent
  BY <1>1, <1>2 DEF PageOpened, Buyers, PayStages
<1>4. fetching \in Fetches /\ "pay" \notin fetching.waits  BY <1>1 DEF Fetches
<1>5. BuyerTypes  BY <1>1, <1>3, <1>4, PurchaseAssumption DEF BuyerTypes
<1>6. Locked /\ OrderOfStage /\ FetchIsNew  BY <1>3, <1>4 DEF Locked, OrderOfStage, FetchIsNew
<1>7. Ledger /\ OrdersAreClosed /\ BoughtIsTold
  BY <1>1, <1>2, <1>3 DEF Ledger, OrdersAreClosed, BoughtIsTold
<1>8. QED  BY <1>5, <1>6, <1>7 DEF BuyerInv

LEMMA BuyerInvStep == BuyerInv /\ [BuyerNext]_buyerVars => BuyerInv'
<1>1. ASSUME BuyerInv, BuyerNext PROVE BuyerInv'
  <2>1. CASE BuyerAnswers
    <3>1. CASE OrderMade  BY <1>1, <3>1, OrderMadeKeeps
    <3>2. CASE SdkSucceeds \/ SdkFails  BY <1>1, <3>2, SdkKeeps
    <3>3. CASE OrderFails \/ PollEnds \/ PollAgain  BY <1>1, <3>3, PollKeeps
    <3>4. CASE PollPaid  BY <1>1, <3>4, PollPaidKeeps
    <3>5. CASE ClaimListed \/ ClaimFails \/ ClaimRuns  BY <1>1, <3>5, ClaimingKeeps
    <3>6. CASE VipRead  BY <1>1, <3>6, VipReadKeeps
    <3>7. CASE FreeRead \/ VipFails  BY <1>1, <3>7, PageFetchEndsKeeps
    <3>8. QED  BY <2>1, <3>1, <3>2, <3>3, <3>4, <3>5, <3>6, <3>7 DEF BuyerAnswers
  <2>2. CASE ~BuyerAnswers
    BY <1>1, <2>2, TouchesKeep, VisitsKeep, CloseKeeps, ServerKeeps DEF BuyerNext
  <2>3. QED  BY <2>1, <2>2
<1>2. ASSUME BuyerInv, UNCHANGED buyerVars PROVE BuyerInv'
  <2>1. UNCHANGED <<buyer, fetching, cached, orders, charged, granted, cancels, blamed, visits>>
    BY <1>2 DEF buyerVars
  <2>2. BuyerTypes' /\ Locked' /\ OrderOfStage' /\ Ledger'
    BY <1>2, <2>1 DEF BuyerInv, BuyerTypes, Locked, OrderOfStage, Ledger
  <2>3. OrdersAreClosed' /\ FetchIsNew' /\ BoughtIsTold'
    BY <1>2, <2>1 DEF BuyerInv, OrdersAreClosed, FetchIsNew, BoughtIsTold
  <2>4. QED  BY <2>2, <2>3 DEF BuyerInv
<1>3. QED  BY <1>1, <1>2

LEMMA BuyerInvImplies ==
  BuyerInv => BuyerTypeOK /\ PayingIsLocked /\ NoPaidCancelled /\ OrdersAreClosed /\ BoughtIsTold
<1>1. BuyerInv => BuyerTypeOK
  BY DEF BuyerInv, BuyerTypes, Buyers, PayStages, Fetches, BuyerTypeOK
<1>2. BuyerInv => PayingIsLocked  BY DEF BuyerInv, BuyerTypes, Buyers, Locked, PayingIsLocked
<1>3. BuyerInv => NoPaidCancelled  BY DEF BuyerInv, Ledger, NoPaidCancelled
<1>4. QED  BY <1>1, <1>2, <1>3 DEF BuyerInv

-----------------------------------------------------------------------------
(***************************************************************************)
(* The recording switch                                                    *)
(***************************************************************************)
Recordings ==
  [alive : BOOLEAN, enabled : BOOLEAN, opening : BOOLEAN, restoring : BOOLEAN,
   token : Calls \cup {NoCall}, current : SUBSET Calls, valid : SUBSET Calls,
   listening : BOOLEAN, handler : BOOLEAN, running : BOOLEAN, fallback : BOOLEAN, retry : BOOLEAN]

RecorderTypes ==
  /\ m \in Recordings /\ backend \in BOOLEAN /\ at \in [Calls -> Stages]
  /\ timer \in [Opens -> {"off", "armed", "query"}]
  /\ m.valid \cup ({m.token} \ {NoCall}) \subseteq {c \in Calls : at[c] # "idle"}
  /\ crossed \in BOOLEAN /\ calls \in 0..MaxCalls /\ deaths \in 0..MaxDeaths

AtOpening == {"idle", "setting", "modal", "sync", "start", "undo"}
AtClosing == {"close report", "close sync"}
AtRestoring == {"idle", "restart", "report", "vip", "config", "restart again"} \cup AtClosing
AtStopping == {"undo", "report", "vip", "config", "restart again"} \cup AtClosing

\* Each call is at a place of its kind, and a closing has no token.
CallsOfKind ==
  /\ \A o \in Opens : at[o] \in AtOpening
  /\ \A r \in Restores : at[r] \in AtRestoring
  /\ \A c \in Closes : at[c] \in {"idle"} \cup AtClosing /\ c \notin m.valid /\ c # m.token

\* Nothing but the switch survives the process.
KilledIsFresh ==
  ~m.alive => /\ ~m.opening /\ ~m.restoring /\ ~m.running /\ ~m.listening
              /\ \A o \in Opens : timer[o] = "off"

\* One opening at a time has its 30 seconds.  A recording that is being
\* opened is off, unless the late answer to one opening met the next.
OpeningAlone ==
  /\ m.opening => \E o \in Opens : timer[o] = "armed"
  /\ \A o \in Opens : m.opening /\ o \in m.current => timer[o] = "armed"
  /\ ~crossed /\ m.opening => ~m.enabled
  /\ ~crossed => \A o, p \in Opens : timer[o] # "off" /\ timer[p] # "off" => o = p

BeingRestored == \E r \in Restores : at[r] # "idle"
BeingClosed == \E c \in Calls : at[c] \in AtClosing

\* The location service runs for a recording that is off only while a call
\* is under way that will stop it.
StopsInTheEnd ==
  /\ m.listening /\ ~m.enabled => \E o \in Opens : at[o] = "undo"
  /\ m.running /\ ~m.enabled => \E c \in Calls : at[c] \in AtStopping

\* What the user closed is on only until closing ends, and no opening from
\* before may go on.
ClosedIsOff ==
  ~wish => (m.enabled => BeingClosed) /\ \A o \in Opens : o \notin m.current

\* A recording that is on listens or will try again, or a call is under way
\* that sees to it.
OnIsHeard ==
  m.alive /\ ~crossed /\ m.enabled => m.listening \/ m.retry \/ BeingClosed \/ BeingRestored

\* What the module takes for listening is listened to or polled, or a restore
\* under way will see to it, or a closing will stop it; deaf tells of the rest.
Seeing == \E r \in Restores : at[r] = "restart" /\ r \in m.current /\ m.enabled
Reaching ==
  /\ deaf \in BOOLEAN
  /\ m.fallback => m.enabled
  /\ m.listening => m.running /\ (m.handler \/ m.fallback \/ deaf \/ Seeing \/ BeingClosed)

RecorderCore ==
  /\ RecorderTypes /\ CallsOfKind /\ KilledIsFresh /\ OpeningAlone
  /\ m.restoring => BeingRestored
  /\ StopsInTheEnd /\ ClosedIsOff /\ OnIsHeard

RecorderInv == RecorderCore /\ Reaching

-----------------------------------------------------------------------------
\* The fields of the memory, and what each helper leaves as it was.
Fields == {"alive", "enabled", "opening", "restoring", "token", "current", "valid",
           "listening", "handler", "running", "fallback", "retry"}
SameBut(n, k, F) == k \in Recordings /\ \A x \in Fields \ F : k[x] = n[x]

LEMMA HelpersStop ==
  ASSUME NEW n \in Recordings
  PROVE  /\ SameBut(n, Stopped(n), {"listening", "handler", "running", "fallback"})
         /\ ~Stopped(n).running /\ ~Stopped(n).listening
         /\ SameBut(n, ResetState(n), {"enabled", "listening", "handler", "running", "fallback"})
         /\ ~ResetState(n).running /\ ~ResetState(n).listening /\ ~ResetState(n).enabled
         /\ SameBut(n, ScheduleRetry(n), {"retry"}) /\ ScheduleRetry(n).retry
         /\ SameBut(n, ClearRetry(n), {"retry"})
BY DEF SameBut, Fields, Recordings, Stopped, ResetState, ScheduleRetry, ClearRetry

LEMMA HelpersListen ==
  ASSUME NEW n \in Recordings
  PROVE  /\ SameBut(n, Listens(n), {"enabled", "listening", "handler", "running", "fallback"})
         /\ Listens(n).running /\ Listens(n).listening /\ Listens(n).handler /\ Listens(n).enabled
         /\ SameBut(n, TurnedOn(n), {"enabled", "listening", "handler", "running", "fallback"})
         /\ TurnedOn(n).running /\ TurnedOn(n).listening /\ TurnedOn(n).handler /\ TurnedOn(n).enabled
         /\ SameBut(n, Registered(n), {"listening", "handler", "running", "fallback"})
         /\ Registered(n).running /\ Registered(n).listening /\ Registered(n).handler
<1>1. /\ SameBut(n, Registered(n), {"listening", "handler", "running", "fallback"})
      /\ Registered(n).running /\ Registered(n).listening /\ Registered(n).handler
  BY DEF SameBut, Fields, Recordings, Registered
<1>2. /\ SameBut(n, TurnedOn(n), {"enabled", "listening", "handler", "running", "fallback"})
      /\ TurnedOn(n).running /\ TurnedOn(n).listening /\ TurnedOn(n).handler /\ TurnedOn(n).enabled
  BY DEF SameBut, Fields, Recordings, Registered, TurnedOn
<1>3. /\ SameBut(n, Listens(n), {"enabled", "listening", "handler", "running", "fallback"})
      /\ Listens(n).running /\ Listens(n).listening /\ Listens(n).handler /\ Listens(n).enabled
  BY DEF SameBut, Fields, Recordings, Registered, Listens
<1>4. QED  BY <1>1, <1>2, <1>3

LEMMA HelpersToken ==
  ASSUME NEW n \in Recordings, NEW c \in Calls
  PROVE  /\ SameBut(n, CancelToken(n), {"valid"}) /\ CancelToken(n).valid = n.valid \ {n.token}
         /\ SameBut(n, NewToken(n, c), {"token", "valid"})
         /\ NewToken(n, c).token = c /\ NewToken(n, c).valid = (n.valid \ {n.token}) \cup {c}
         /\ SameBut(n, NewGeneration(n), {"current"}) /\ NewGeneration(n).current = {}
         /\ SameBut(n, Starts(n, c), {"current"}) /\ Starts(n, c).current = n.current \cup {c}
BY DEF SameBut, Fields, Recordings, CancelToken, NewToken, NewGeneration, Starts

LEMMA HelpersEnd ==
  ASSUME NEW n \in Recordings, NEW c \in Calls
  PROVE  /\ SameBut(n, CallEnds(n, c), {"token", "current", "valid"})
         /\ CallEnds(n, c).token \in {n.token, NoCall} \ {c}
         /\ CallEnds(n, c).current = n.current \ {c} /\ CallEnds(n, c).valid = n.valid \ {c}
<1>1. NoCall # c  BY RecorderAssumption DEF RecorderAssumption
<1>2. QED  BY <1>1 DEF SameBut, Fields, Recordings, CallEnds

-----------------------------------------------------------------------------
\* Calls are of three kinds.
LEMMA ThreeKinds ==
  /\ Opens \subseteq Calls /\ Restores \subseteq Calls /\ Closes \subseteq Calls
  /\ Opens \cap Restores = {} /\ Opens \cap Closes = {} /\ Restores \cap Closes = {}
  /\ NoCall \notin Calls
BY RecorderAssumption DEF RecorderAssumption, Calls

LEMMA CallBounds == MaxCalls \in Nat /\ MaxDeaths \in Nat
BY RecorderAssumption DEF RecorderAssumption

LEMMA RecorderCoreInit == RecorderInit => RecorderCore
<1> SUFFICES ASSUME RecorderInit PROVE RecorderCore  OBVIOUS
<1>1. PICK on \in BOOLEAN : m = [Fresh(on) EXCEPT !.alive = FALSE] /\ backend = on /\ wish = on
  BY DEF RecorderInit
<1>2. /\ m \in Recordings /\ ~m.alive /\ ~m.opening /\ ~m.restoring /\ ~m.running /\ ~m.listening
      /\ m.enabled = wish /\ m.token = NoCall /\ m.current = {} /\ m.valid = {}
  BY <1>1 DEF Fresh, Recordings
<1>3. /\ at \in [Calls -> Stages] /\ \A c \in Calls : at[c] = "idle"
      /\ timer \in [Opens -> {"off", "armed", "query"}] /\ \A o \in Opens : timer[o] = "off"
      /\ backend \in BOOLEAN /\ calls = 0 /\ deaths = 0 /\ crossed = FALSE
  BY <1>1 DEF RecorderInit, Stages
<1>4. RecorderTypes
  <2>1. crossed \in BOOLEAN /\ calls = 0 /\ deaths = 0  BY <1>3
  <2>4. calls \in 0..MaxCalls /\ deaths \in 0..MaxDeaths  BY <2>1, CallBounds
  <2>2. m.valid \cup ({m.token} \ {NoCall}) \subseteq {c \in Calls : at[c] # "idle"}  BY <1>2
  <2>3. QED  BY <1>2, <1>3, <2>1, <2>2, <2>4 DEF RecorderTypes, Recordings
<1>5. CallsOfKind
  BY <1>2, <1>3, RecorderAssumption DEF RecorderAssumption, CallsOfKind, Calls, AtOpening, AtRestoring
<1>6. QED
  BY <1>2, <1>3, <1>4, <1>5 DEF RecorderCore, KilledIsFresh, OpeningAlone, StopsInTheEnd, ClosedIsOff, OnIsHeard

\* The next call of a kind, at a place of this kind.
LEMMA CallGoes ==
  ASSUME RecorderCore, NEW c \in Calls, NEW p \in Stages, Goto(c, p),
         \/ c \in Opens /\ p \in AtOpening
         \/ c \in Restores /\ p \in AtRestoring
         \/ c \in Closes /\ p \in {"idle"} \cup AtClosing
  PROVE  /\ at' \in [Calls -> Stages] /\ at'[c] = p /\ \A x \in Calls : x # c => at'[x] = at[x]
         /\ \A o \in Opens : at'[o] \in AtOpening
         /\ \A r \in Restores : at'[r] \in AtRestoring
         /\ \A x \in Closes : at'[x] \in {"idle"} \cup AtClosing
<1>1. at' \in [Calls -> Stages] /\ at'[c] = p /\ \A x \in Calls : x # c => at'[x] = at[x]
  BY DEF RecorderCore, RecorderTypes, Goto
<1>2. QED  BY <1>1, ThreeKinds DEF RecorderCore, CallsOfKind

LEMMA CountsCalls == RecorderCore /\ CountCall => calls' \in 0..MaxCalls
BY CallBounds DEF CountCall, RecorderCore, RecorderTypes

LEMMA OpenKeeps == ASSUME RecorderCore, NEW o \in Opens, Open(o) PROVE RecorderCore'
<1>1. m \in Recordings /\ m.alive /\ ~m.enabled /\ ~m.opening  BY DEF RecorderCore, RecorderTypes, Recordings, Open, RecorderCalm
<1>2. o \in Calls /\ at[o] = "idle" /\ timer[o] = "off"  BY DEF Calls, Open, FreeButton
<1>3. /\ wish' = TRUE /\ UNCHANGED <<backend, deaths>> /\ calls' \in 0..MaxCalls
      /\ crossed' = \E p \in Opens : timer[p] # "off"
  <2>1. wish' = TRUE /\ UNCHANGED <<backend, deaths>> /\ crossed' = \E p \in Opens : timer[p] # "off"
    BY DEF Open
  <2>2. calls' \in 0..MaxCalls  BY CountsCalls DEF Open
  <2>3. QED  BY <2>1, <2>2
<1>4. CASE m' = NewGeneration(m) /\ UNCHANGED <<at, timer>>
  <2>1. SameBut(m, m', {"current"}) /\ m'.current = {}  BY <1>1, <1>2, <1>4, HelpersToken
  <2>2. RecorderTypes' /\ CallsOfKind'
    BY <1>3, <1>4, <2>1 DEF RecorderCore, RecorderTypes, CallsOfKind, Recordings, SameBut, Fields
  <2>3. KilledIsFresh' /\ OpeningAlone' /\ StopsInTheEnd' /\ ClosedIsOff' /\ OnIsHeard' /\ (m.restoring => BeingRestored)'
    BY <1>1, <1>3, <1>4, <2>1
    DEF RecorderCore, KilledIsFresh, OpeningAlone, StopsInTheEnd, ClosedIsOff, OnIsHeard, BeingRestored, SameBut, Fields
  <2>4. QED  BY <2>2, <2>3 DEF RecorderCore
<1>5. CASE /\ m' = [Starts(NewGeneration(m), o) EXCEPT !.opening = TRUE]
           /\ timer' = [timer EXCEPT ![o] = "armed"] /\ Goto(o, "setting")
  <2>1. /\ SameBut(m, m', {"current", "opening"}) /\ m'.current = {o} /\ m'.opening = TRUE
    <3> DEFINE k == Starts(NewGeneration(m), o)
    <3>1. SameBut(m, NewGeneration(m), {"current"}) /\ NewGeneration(m).current = {}
      BY <1>1, <1>2, HelpersToken
    <3>4. NewGeneration(m) \in Recordings  BY <3>1 DEF SameBut
    <3>5. SameBut(NewGeneration(m), k, {"current"}) /\ k.current = {} \cup {o}
      BY <1>2, <3>1, <3>4, HelpersToken
    <3>6. SameBut(m, k, {"current"}) /\ k.current = {o}  BY <3>1, <3>5 DEF SameBut
    <3>2. m' = [k EXCEPT !.opening = TRUE]  BY <1>5
    <3> HIDE DEF k
    <3>3. QED  BY <3>6, <3>2 DEF SameBut, Fields, Recordings
  <2>2. /\ timer' \in [Opens -> {"off", "armed", "query"}] /\ timer'[o] = "armed"
        /\ \A p \in Opens : p # o => timer'[p] = timer[p]
    BY <1>5 DEF RecorderCore, RecorderTypes
  <2>3. /\ at' \in [Calls -> Stages] /\ at'[o] = "setting" /\ \A x \in Calls : x # o => at'[x] = at[x]
        /\ \A x \in Opens : at'[x] \in AtOpening
        /\ \A r \in Restores : at'[r] \in AtRestoring
        /\ \A x \in Closes : at'[x] \in {"idle"} \cup AtClosing
    BY <1>2, <1>5, CallGoes DEF Stages, AtOpening
  <2>4. RecorderTypes'
    BY <1>2, <1>3, <2>1, <2>2, <2>3 DEF RecorderCore, RecorderTypes, Recordings, SameBut, Fields
  <2>5. CallsOfKind'
    BY <2>1, <2>3 DEF RecorderCore, CallsOfKind, SameBut, Fields
  <2>6. KilledIsFresh'  BY <1>1, <2>1 DEF KilledIsFresh, SameBut, Fields
  <2>7. OpeningAlone'  BY <1>1, <1>3, <2>1, <2>2 DEF RecorderCore, OpeningAlone, SameBut, Fields
  <2>8. StopsInTheEnd'
    BY <1>1, <1>2, <2>1, <2>3, ThreeKinds DEF RecorderCore, StopsInTheEnd, SameBut, Fields, AtStopping, AtClosing
  <2>9. ClosedIsOff' /\ OnIsHeard' /\ (m.restoring => BeingRestored)'
    BY <1>1, <1>2, <1>3, <2>1, <2>3, ThreeKinds DEF RecorderCore, ClosedIsOff, OnIsHeard, BeingRestored, SameBut, Fields
  <2>10. QED  BY <2>4, <2>5, <2>6, <2>7, <2>8, <2>9 DEF RecorderCore
<1>6. QED  BY <1>4, <1>5 DEF Open, OpenAutoRecord

LEMMA MemoryIs ==
  RecorderCore =>
    /\ m \in Recordings /\ at \in [Calls -> Stages] /\ timer \in [Opens -> {"off", "armed", "query"}]
    /\ backend \in BOOLEAN
BY DEF RecorderCore, RecorderTypes, Recordings

\* The types after a step that moves the call c from one place to another.
LEMMA GoesTyped ==
  ASSUME RecorderCore, NEW c \in Calls, NEW p \in Stages, Goto(c, p),
         \/ c \in Opens /\ p \in AtOpening
         \/ c \in Restores /\ p \in AtRestoring
         \/ c \in Closes /\ p \in {"idle"} \cup AtClosing,
         backend' \in BOOLEAN, timer' \in [Opens -> {"off", "armed", "query"}],
         calls' \in 0..MaxCalls, UNCHANGED <<crossed, deaths>>,
         m' \in Recordings, m'.alive, m'.valid \subseteq m.valid \cup {c}, m'.token \in {m.token, NoCall, c},
         p = "idle" \/ c \in Closes => c \notin m'.valid /\ c # m'.token
  PROVE  RecorderTypes' /\ CallsOfKind' /\ KilledIsFresh'
<1>1. /\ at' \in [Calls -> Stages] /\ at'[c] = p /\ \A x \in Calls : x # c => at'[x] = at[x]
      /\ \A o \in Opens : at'[o] \in AtOpening
      /\ \A r \in Restores : at'[r] \in AtRestoring
      /\ \A x \in Closes : at'[x] \in {"idle"} \cup AtClosing
  BY CallGoes
<1>2. (m.valid \cup ({m.token} \ {NoCall}) \subseteq {x \in Calls : at[x] # "idle"})'
  <2>1. \A x \in Calls : x \in m.valid \/ x = m.token => at[x] # "idle"
    BY ThreeKinds DEF RecorderCore, RecorderTypes
  <2>2. m'.valid \subseteq Calls /\ m'.token \in Calls \cup {NoCall}  BY DEF Recordings
  <2>3. \A x \in Calls : x \in m'.valid \/ x = m'.token => at'[x] # "idle"
    BY <1>1, <2>1, ThreeKinds
  <2>4. QED  BY <2>2, <2>3
<1>3. RecorderTypes'  BY <1>1, <1>2 DEF RecorderCore, RecorderTypes, Recordings
<1>4. \A x \in Closes : x \notin m'.valid /\ x # m'.token
  BY ThreeKinds DEF RecorderCore, CallsOfKind
<1>5. QED  BY <1>1, <1>3, <1>4 DEF CallsOfKind, KilledIsFresh

\* The types after a step in which every call stays where it is.
LEMMA RestsTyped ==
  ASSUME RecorderCore, UNCHANGED at,
         backend' \in BOOLEAN, timer' \in [Opens -> {"off", "armed", "query"}],
         calls' \in 0..MaxCalls, UNCHANGED <<crossed, deaths>>,
         m' \in Recordings, m'.alive, m'.valid \subseteq m.valid, m'.token \in {m.token, NoCall}
  PROVE  RecorderTypes' /\ CallsOfKind' /\ KilledIsFresh'
<1>1. RecorderTypes'  BY DEF RecorderCore, RecorderTypes, Recordings
<1>2. CallsOfKind'  BY ThreeKinds DEF RecorderCore, CallsOfKind
<1>3. QED  BY <1>1, <1>2 DEF KilledIsFresh

\* No opening begins.
LEMMA OpeningOver ==
  ASSUME RecorderCore, UNCHANGED crossed, ~m'.opening, \A o \in Opens : timer'[o] # "off" => timer[o] # "off"
  PROVE  OpeningAlone'
BY DEF RecorderCore, OpeningAlone

LEMMA OpeningRests ==
  ASSUME RecorderCore, UNCHANGED crossed, \A o \in Opens : timer'[o] = timer[o],
         m'.opening = m.opening, m'.current \cap Opens \subseteq m.current, m'.enabled => m.enabled
  PROVE  OpeningAlone'
BY DEF RecorderCore, OpeningAlone

\* An opening goes on, and the recording stays as it is.
LEMMA OpeningGoesOn ==
  ASSUME RecorderCore, NEW o \in Opens, at[o] \in {"setting", "modal", "sync", "start"},
         NEW p \in AtOpening, Goto(o, p), SameHistory, m.alive, m' \in Recordings,
         m'.enabled = m.enabled, m'.restoring = m.restoring, m'.retry = m.retry,
         m'.current \subseteq m.current,
         \/ m'.listening = m.listening /\ m'.running = m.running
         \/ m'.listening /\ p = "undo"
  PROVE  StopsInTheEnd' /\ ClosedIsOff' /\ OnIsHeard' /\ (m.restoring => BeingRestored)'
<1>1. at'[o] = p /\ \A x \in Calls : x # o => at'[x] = at[x]
  BY ThreeKinds, MemoryIs DEF Goto
<1>2. o \in Calls /\ o \notin Restores /\ at[o] \notin AtStopping /\ at[o] \notin AtClosing /\ at[o] # "undo"
  BY ThreeKinds DEF AtStopping, AtClosing
<1>3. BeingRestored => BeingRestored'  BY <1>1, <1>2, ThreeKinds DEF BeingRestored
<1>4. BeingClosed => BeingClosed'  BY <1>1, <1>2, ThreeKinds DEF BeingClosed
<1>5. StopsInTheEnd'
  <2>2. (\E x \in Opens : at[x] = "undo") => (\E x \in Opens : at'[x] = "undo")
    BY <1>1, <1>2, ThreeKinds
  <2>3. (\E x \in Calls : at[x] \in AtStopping) => (\E x \in Calls : at'[x] \in AtStopping)
    BY <1>1, <1>2
  <2>4. p = "undo" => at'[o] = "undo" /\ at'[o] \in AtStopping  BY <1>1 DEF AtStopping
  <2>5. QED  BY <1>2, <2>2, <2>3, <2>4 DEF RecorderCore, StopsInTheEnd
<1>6. ClosedIsOff'  BY <1>4 DEF RecorderCore, ClosedIsOff, SameWish, SameHistory
<1>7. OnIsHeard'  BY <1>3, <1>4 DEF RecorderCore, OnIsHeard, SameWish, SameHistory
<1>8. QED  BY <1>3, <1>5, <1>6, <1>7 DEF RecorderCore

\* What Finish does to the memory n, which differs from m in what F names, and
\* to the timer.
LEMMA FinishIs ==
  ASSUME RecorderCore, NEW n \in Recordings, NEW o \in Opens, FinishedCall(o)
  PROVE  LET k == Finish(n, o)
         IN  /\ SameBut(n, k, {"token", "current", "valid", "opening"})
             /\ k.token \in {n.token, NoCall} \ {o} /\ k.current = n.current \ {o} /\ k.valid = n.valid \ {o}
             /\ timer' \in [Opens -> {"off", "armed", "query"}]
             /\ \A p \in Opens : timer'[p] # "off" => timer[p] # "off"
             /\ \/ timer[o] = "armed" /\ ~k.opening
                \/ k.opening = n.opening /\ \A p \in Opens : timer'[p] = timer[p]
             /\ Goto(o, "idle")
<1> DEFINE c == CallEnds(n, o)
<1>1. /\ SameBut(n, c, {"token", "current", "valid"})
      /\ c.token \in {n.token, NoCall} \ {o} /\ c.current = n.current \ {o} /\ c.valid = n.valid \ {o}
  BY ThreeKinds, HelpersEnd
<1>2. /\ timer' \in [Opens -> {"off", "armed", "query"}]
      /\ timer[o] = "armed" => timer'[o] = "off" /\ \A p \in Opens : p # o => timer'[p] = timer[p]
      /\ timer[o] # "armed" => \A p \in Opens : timer'[p] = timer[p]
      /\ Goto(o, "idle")
  BY MemoryIs DEF FinishedCall
<1>3. Finish(n, o) = IF timer[o] = "armed" THEN [c EXCEPT !.opening = FALSE] ELSE c  BY DEF Finish
<1> HIDE DEF c
<1>4. CASE timer[o] = "armed"
  <2>1. Finish(n, o) = [c EXCEPT !.opening = FALSE]  BY <1>3, <1>4
  <2>2. /\ SameBut(c, Finish(n, o), {"opening"}) /\ ~Finish(n, o).opening
    BY <1>1, <2>1 DEF SameBut, Fields, Recordings
  <2>3. QED  BY <1>1, <1>2, <1>4, <2>2 DEF SameBut, Fields
<1>5. CASE timer[o] # "armed"
  <2>1. Finish(n, o) = c  BY <1>3, <1>5
  <2>2. QED  BY <1>1, <1>2, <1>5, <2>1 DEF SameBut, Fields
<1>6. QED  BY <1>4, <1>5

\* An opening ends without success, with the memory as it is or reset.
LEMMA OpeningEnds ==
  ASSUME RecorderCore, m.alive, NEW o \in Opens, SameHistory, backend' \in BOOLEAN, FinishedCall(o),
         \/ at[o] \in {"setting", "modal"} /\ m' = Finish(m, o)
         \/ m' = Finish(ResetState(m), o)
  PROVE  RecorderCore'
<1>1. PICK n \in Recordings :
        /\ m' = Finish(n, o)
        /\ \/ n = m /\ at[o] \in {"setting", "modal"}
           \/ /\ SameBut(m, n, {"enabled", "listening", "handler", "running", "fallback"})
              /\ ~n.running /\ ~n.listening /\ ~n.enabled
  BY MemoryIs, HelpersStop DEF SameBut
<1>2. /\ n.alive /\ n.token = m.token /\ n.valid = m.valid /\ n.current = m.current
      /\ n.opening = m.opening /\ n.restoring = m.restoring /\ n.retry = m.retry
  BY <1>1 DEF SameBut, Fields
<1>3. /\ SameBut(n, m', {"token", "current", "valid", "opening"})
      /\ m'.token \in {n.token, NoCall} \ {o} /\ m'.current = n.current \ {o} /\ m'.valid = n.valid \ {o}
      /\ timer' \in [Opens -> {"off", "armed", "query"}]
      /\ \A p \in Opens : timer'[p] # "off" => timer[p] # "off"
      /\ \/ timer[o] = "armed" /\ ~m'.opening
         \/ m'.opening = n.opening /\ \A p \in Opens : timer'[p] = timer[p]
      /\ Goto(o, "idle")
  BY <1>1, FinishIs
<1>4. /\ m' \in Recordings /\ m'.alive /\ m'.enabled = n.enabled /\ m'.restoring = n.restoring
      /\ m'.listening = n.listening /\ m'.running = n.running /\ m'.retry = n.retry
  BY <1>2, <1>3 DEF SameBut, Fields
<1>5. UNCHANGED <<wish, crossed, calls, deaths>>  BY DEF SameWish, SameHistory
<1>6. RecorderTypes' /\ CallsOfKind' /\ KilledIsFresh'
  <2>1. calls' \in 0..MaxCalls  BY <1>5 DEF RecorderCore, RecorderTypes
  <2>2. "idle" \in Stages /\ "idle" \in AtOpening /\ o \in Calls  BY ThreeKinds DEF Stages, AtOpening
  <2>3. QED  BY <1>2, <1>3, <1>4, <1>5, <2>1, <2>2, GoesTyped
<1>7. OpeningAlone'
  <2>1. m'.enabled => m.enabled  BY <1>1, <1>4
  <2>2. QED  BY <1>2, <1>3, <1>5, <2>1, OpeningOver, OpeningRests
<1>8. CASE n = m /\ at[o] \in {"setting", "modal"}
  <2>1. StopsInTheEnd' /\ ClosedIsOff' /\ OnIsHeard' /\ (m.restoring => BeingRestored)'
    BY <1>3, <1>4, <1>8, OpeningGoesOn DEF AtOpening
  <2>2. QED  BY <1>6, <1>7, <2>1 DEF RecorderCore
<1>9. CASE ~n.running /\ ~n.listening /\ ~n.enabled
  <2>1. at'[o] = "idle" /\ \A x \in Calls : x # o => at'[x] = at[x]  BY <1>3, ThreeKinds, MemoryIs DEF Goto
  <2>2. (m.restoring => BeingRestored)'
    BY <1>2, <1>4, <2>1, ThreeKinds DEF RecorderCore, BeingRestored
  <2>3. StopsInTheEnd' /\ OnIsHeard'  BY <1>4, <1>9 DEF StopsInTheEnd, OnIsHeard
  <2>4. ClosedIsOff'  BY <1>2, <1>3, <1>4, <1>5, <1>9 DEF RecorderCore, ClosedIsOff
  <2>5. QED  BY <1>6, <1>7, <2>2, <2>3, <2>4 DEF RecorderCore
<1>10. QED  BY <1>1, <1>8, <1>9

\* An opening moves on and takes a token, or listens.
LEMMA OpeningMoves ==
  ASSUME RecorderCore, m.alive, NEW o \in Opens, at[o] \in {"setting", "modal", "sync", "start"},
         NEW p \in AtOpening \ {"idle"}, Goto(o, p), SameHistory, UNCHANGED timer, backend' \in BOOLEAN,
         NEW F, F \subseteq {"token", "valid", "listening", "handler", "running", "fallback"},
         SameBut(m, m', F),
         m'.token \in {m.token, o}, m'.valid \subseteq m.valid \cup {o},
         \/ F \cap {"listening", "running"} = {}
         \/ m'.listening /\ p = "undo"
  PROVE  RecorderCore'
<1>1. /\ m' \in Recordings /\ m'.alive /\ m'.enabled = m.enabled /\ m'.restoring = m.restoring
      /\ m'.retry = m.retry /\ m'.opening = m.opening /\ m'.current = m.current
  BY DEF SameBut, Fields
<1>2. \/ m'.listening = m.listening /\ m'.running = m.running
      \/ m'.listening /\ p = "undo"
  BY DEF SameBut, Fields
<1>3. UNCHANGED <<wish, crossed, calls, deaths>>  BY DEF SameWish, SameHistory
<1>4. RecorderTypes' /\ CallsOfKind' /\ KilledIsFresh'
  <2>1. calls' \in 0..MaxCalls  BY <1>3 DEF RecorderCore, RecorderTypes
  <2>2. p \in Stages /\ o \in Calls /\ o \notin Closes /\ p # "idle"  BY ThreeKinds DEF Stages, AtOpening
  <2>3. timer' \in [Opens -> {"off", "armed", "query"}]  BY MemoryIs
  <2>4. QED  BY <1>1, <1>3, <2>1, <2>2, <2>3, GoesTyped
<1>5. OpeningAlone'  BY <1>1, <1>3, OpeningRests
<1>6. StopsInTheEnd' /\ ClosedIsOff' /\ OnIsHeard' /\ (m.restoring => BeingRestored)'
  BY <1>1, <1>2, OpeningGoesOn
<1>7. QED  BY <1>4, <1>5, <1>6 DEF RecorderCore

LEMMA DoOpenKeeps ==
  ASSUME RecorderCore, NEW o \in Opens, m.alive, at[o] \in {"setting", "modal"}, DoOpen(o),
         UNCHANGED backend, SameHistory
  PROVE  RecorderCore'
<1>1. /\ SameBut(m, m', {"token", "valid"}) /\ m'.token = o /\ m'.valid \subseteq m.valid \cup {o}
      /\ Goto(o, "sync") /\ UNCHANGED timer
  BY ThreeKinds, MemoryIs, HelpersToken DEF DoOpen
<1>2. "sync" \in AtOpening \ {"idle"} /\ backend' \in BOOLEAN  BY MemoryIs DEF AtOpening
<1>3. QED  BY <1>1, <1>2, OpeningMoves

\* An opening that is refused ends.
LEMMA ModalKeeps == ASSUME RecorderCore, NEW o \in Opens, Modal(o) PROVE RecorderCore'
<1>1. m.alive /\ at[o] = "modal" /\ UNCHANGED backend /\ SameHistory /\ backend' \in BOOLEAN
  BY MemoryIs DEF Modal, At, RecorderCalm, SameWish
<1>2. CASE DoOpen(o)  BY <1>1, <1>2, DoOpenKeeps
<1>3. ASSUME \/ ~m.opening /\ m' = CallEnds(m, o) /\ Goto(o, "idle") /\ UNCHANGED timer
             \/ m' = [CallEnds(m, o) EXCEPT !.opening = FALSE] /\ FinishedCall(o)
      PROVE  RecorderCore'
  <2> DEFINE k == CallEnds(m, o)
  <2>1. /\ SameBut(m, k, {"token", "current", "valid"})
        /\ k.token \in {m.token, NoCall} \ {o} /\ k.current = m.current \ {o} /\ k.valid = m.valid \ {o}
    BY ThreeKinds, MemoryIs, HelpersEnd
  <2>2. (m' = k /\ ~m.opening) \/ m' = [k EXCEPT !.opening = FALSE]  BY <1>3
  <2> HIDE DEF k
  <2>3. /\ SameBut(k, m', {"opening"}) /\ ~m'.opening
    BY <2>1, <2>2 DEF SameBut, Fields, Recordings
  <2>4. /\ m' \in Recordings /\ m'.alive /\ m'.enabled = m.enabled /\ m'.restoring = m.restoring
        /\ m'.retry = m.retry /\ m'.listening = m.listening /\ m'.running = m.running
        /\ m'.token \in {m.token, NoCall} \ {o} /\ m'.current \subseteq m.current /\ m'.valid = m.valid \ {o}
    BY <1>1, <2>1, <2>3 DEF SameBut, Fields
  <2>5. /\ Goto(o, "idle") /\ timer' \in [Opens -> {"off", "armed", "query"}]
        /\ \A p \in Opens : timer'[p] # "off" => timer[p] # "off"
    BY <1>3, MemoryIs DEF FinishedCall
  <2>6. UNCHANGED <<wish, crossed, calls, deaths>> /\ calls' \in 0..MaxCalls
    BY <1>1 DEF SameWish, SameHistory, RecorderCore, RecorderTypes
  <2>7. "idle" \in Stages /\ "idle" \in AtOpening /\ o \in Calls  BY ThreeKinds DEF Stages, AtOpening
  <2>8. RecorderTypes' /\ CallsOfKind' /\ KilledIsFresh'
    BY <1>1, <2>4, <2>5, <2>6, <2>7, GoesTyped
  <2>9. OpeningAlone'  BY <2>3, <2>5, <2>6, OpeningOver
  <2>10. StopsInTheEnd' /\ ClosedIsOff' /\ OnIsHeard' /\ (m.restoring => BeingRestored)'
    BY <1>1, <2>4, <2>5, <2>7, OpeningGoesOn
  <2>11. QED  BY <2>8, <2>9, <2>10 DEF RecorderCore
<1>4. QED  BY <1>2, <1>3 DEF Modal

LEMMA SettingKeeps == ASSUME RecorderCore, NEW o \in Opens, SettingAnswered(o) PROVE RecorderCore'
<1>1. m.alive /\ at[o] = "setting" /\ UNCHANGED backend /\ SameHistory /\ backend' \in BOOLEAN
  BY MemoryIs DEF SettingAnswered, At, RecorderCalm, SameWish
<1>2. CASE DoOpen(o)  BY <1>1, <1>2, DoOpenKeeps
<1>3. CASE Goto(o, "modal") /\ UNCHANGED <<m, timer>>
  <2>1. SameBut(m, m', {})  BY <1>3, MemoryIs DEF SameBut
  <2>2. "modal" \in AtOpening \ {"idle"}  BY DEF AtOpening
  <2>3. QED  BY <1>1, <1>3, <2>1, <2>2, OpeningMoves
<1>4. CASE m' = Finish(m, o) /\ FinishedCall(o)  BY <1>1, <1>4, OpeningEnds
<1>5. QED  BY <1>2, <1>3, <1>4 DEF SettingAnswered

LEMMA OpenFailsKeeps ==
  ASSUME RecorderCore, m.alive, NEW o \in Opens, at[o] \in {"sync", "start"},
         NEW n, n = m \/ n = Registered(m),
         OpenFails(n, o), backend' \in BOOLEAN, SameHistory
  PROVE  RecorderCore'
<1>1. /\ n \in Recordings
      /\ \/ SameBut(m, n, {})
         \/ SameBut(m, n, {"listening", "handler", "running", "fallback"}) /\ n.listening
  <2>1. SameBut(m, m, {})  BY MemoryIs DEF SameBut
  <2>2. SameBut(m, Registered(m), {"listening", "handler", "running", "fallback"}) /\ Registered(m).listening
    BY MemoryIs, HelpersListen
  <2>3. QED  BY <2>1, <2>2 DEF SameBut
<1>2. CASE o \in m.valid
  <2>1. m' = n /\ Goto(o, "undo") /\ UNCHANGED timer  BY <1>2 DEF OpenFails
  <2>2. m'.token = m.token /\ m'.valid = m.valid  BY <1>1, <2>1 DEF SameBut, Fields
  <2>3. "undo" \in AtOpening \ {"idle"}  BY DEF AtOpening
  <2>4. CASE SameBut(m, n, {})
    BY <2>1, <2>2, <2>3, <2>4, OpeningMoves
  <2>5. CASE SameBut(m, n, {"listening", "handler", "running", "fallback"}) /\ n.listening
    BY <2>1, <2>2, <2>3, <2>5, OpeningMoves
  <2>6. QED  BY <1>1, <2>4, <2>5
<1>3. CASE o \notin m.valid
  <2>1. m' = Finish(ResetState(n), o) /\ FinishedCall(o)  BY <1>3 DEF OpenFails
  <2>2. ResetState(n) = ResetState(m)
    <3>1. CASE n = m  BY <3>1
    <3>2. CASE n = Registered(m)
      BY <3>2, MemoryIs DEF ResetState, Stopped, Registered, Recordings
    <3>3. QED  BY <3>1, <3>2
  <2>3. QED  BY <2>1, <2>2, OpeningEnds
<1>4. QED  BY <1>2, <1>3

LEMMA SyncKeeps == ASSUME RecorderCore, NEW o \in Opens, Sync(o) \/ SyncCancelled(o) PROVE RecorderCore'
<1>1. m.alive /\ at[o] = "sync" /\ SameHistory /\ backend' \in BOOLEAN
  BY MemoryIs DEF Sync, SyncCancelled, At, RecorderCalm, SameWish
<1>2. CASE OpenFails(m, o)  BY <1>1, <1>2, OpenFailsKeeps
<1>3. CASE Goto(o, "start") /\ UNCHANGED <<m, timer>>
  <2>1. SameBut(m, m', {})  BY <1>3, MemoryIs DEF SameBut
  <2>2. "start" \in AtOpening \ {"idle"}  BY DEF AtOpening
  <2>3. QED  BY <1>1, <1>3, <2>1, <2>2, OpeningMoves
<1>4. QED  BY <1>2, <1>3 DEF Sync, SyncCancelled

\* An opening succeeds: it is the one whose time is running.
LEMMA StartKeeps == ASSUME RecorderCore, NEW o \in Opens, Start(o) PROVE RecorderCore'
<1>1. m.alive /\ at[o] = "start" /\ SameHistory /\ backend' = backend /\ backend' \in BOOLEAN
  BY MemoryIs DEF Start, At, RecorderCalm, SameWish
<1>2. CASE OpenFails(m, o) \/ OpenFails(Registered(m), o)
  BY <1>1, <1>2, OpenFailsKeeps
<1>3. ASSUME ~Aborted(o), m' = ClearRetry(Finish(TurnedOn(m), o)), FinishedCall(o) PROVE RecorderCore'
  <2>1. timer[o] = "armed" /\ o \in m.current  BY <1>3 DEF Aborted, RecorderCore, OpeningAlone
  <2> DEFINE n == TurnedOn(m)
             k == Finish(n, o)
  <2>2. /\ SameBut(m, n, {"enabled", "listening", "handler", "running", "fallback"})
        /\ n.running /\ n.listening /\ n.enabled
    BY MemoryIs, HelpersListen
  <2> HIDE DEF n
  <2>3. /\ SameBut(n, k, {"token", "current", "valid", "opening"})
        /\ k.token \in {n.token, NoCall} \ {o} /\ k.current = n.current \ {o} /\ k.valid = n.valid \ {o}
        /\ timer' \in [Opens -> {"off", "armed", "query"}]
        /\ \A p \in Opens : timer'[p] # "off" => timer[p] # "off"
        /\ timer[o] = "armed" => ~k.opening \/ \A p \in Opens : timer'[p] = timer[p]
        /\ Goto(o, "idle")
    <3>1. n \in Recordings  BY <2>2 DEF SameBut
    <3>2. QED  BY <1>3, <3>1, FinishIs
  <2>4. ~k.opening
    <3>1. timer'[o] = "off"  BY <1>3, <2>1, MemoryIs DEF FinishedCall
    <3>2. QED  BY <2>1, <2>3, <3>1
  <2> HIDE DEF k
  <2>5. SameBut(k, m', {"retry"})
    <3>1. m' = ClearRetry(k)  BY <1>3 DEF k, n
    <3>2. k \in Recordings  BY <2>3 DEF SameBut
    <3>3. QED  BY <3>1, <3>2, HelpersStop
  <2>6. /\ m' \in Recordings /\ m'.alive /\ m'.enabled /\ m'.restoring = m.restoring /\ ~m'.opening
        /\ m'.listening /\ m'.running
        /\ m'.token \in {m.token, NoCall} \ {o} /\ m'.current \subseteq m.current /\ m'.valid = m.valid \ {o}
    BY <1>1, <2>2, <2>3, <2>4, <2>5 DEF SameBut, Fields
  <2>7. UNCHANGED <<wish, crossed, calls, deaths>> /\ calls' \in 0..MaxCalls
    BY <1>1 DEF SameWish, SameHistory, RecorderCore, RecorderTypes
  <2>8. "idle" \in Stages /\ "idle" \in AtOpening /\ o \in Calls  BY ThreeKinds DEF Stages, AtOpening
  <2>9. RecorderTypes' /\ CallsOfKind' /\ KilledIsFresh'
    BY <1>1, <2>3, <2>6, <2>7, <2>8, GoesTyped
  <2>10. OpeningAlone'  BY <2>3, <2>6, <2>7, OpeningOver
  <2>11. wish = TRUE  BY <2>1 DEF RecorderCore, ClosedIsOff
  <2>12. StopsInTheEnd' /\ ClosedIsOff' /\ OnIsHeard'
    BY <2>6, <2>7, <2>11 DEF StopsInTheEnd, ClosedIsOff, OnIsHeard
  <2>13. (m.restoring => BeingRestored)'
    <3>1. \A x \in Calls : x # o => at'[x] = at[x]  BY <2>3, MemoryIs DEF Goto
    <3>2. QED  BY <2>6, <3>1, ThreeKinds DEF RecorderCore, BeingRestored
  <2>14. QED  BY <2>9, <2>10, <2>12, <2>13 DEF RecorderCore
<1>4. QED  BY <1>2, <1>3 DEF Start

LEMMA UndoKeeps == ASSUME RecorderCore, NEW o \in Opens, Undo(o) PROVE RecorderCore'
<1>1. m.alive /\ SameHistory /\ backend' \in BOOLEAN  BY MemoryIs DEF Undo, At, RecorderCalm, SameWish
<1>2. QED  BY <1>1, OpeningEnds DEF Undo

LEMMA TimeoutKeeps == ASSUME RecorderCore, NEW o \in Opens, OpenTimeout(o) PROVE RecorderCore'
<1>1. /\ m.alive /\ timer[o] = "armed" /\ timer' = [timer EXCEPT ![o] = "query"]
      /\ UNCHANGED <<backend, at, wish, crossed, calls, deaths>>
  BY DEF OpenTimeout, RecorderCalm, SameWish, SameHistory
<1>2. /\ m' \in Recordings /\ m'.alive /\ ~m'.opening /\ m'.valid \subseteq m.valid /\ m'.token = m.token
      /\ m'.enabled = m.enabled /\ m'.restoring = m.restoring /\ m'.listening = m.listening
      /\ m'.running = m.running /\ m'.retry = m.retry /\ m'.current = m.current
  <2> DEFINE k == CancelToken(m)
  <2>1. SameBut(m, k, {"valid"}) /\ k.valid = m.valid \ {m.token}
    <3>1. o \in Calls /\ m \in Recordings  BY ThreeKinds, MemoryIs
    <3>2. QED  BY <3>1, HelpersToken
  <2>2. m' = [k EXCEPT !.opening = FALSE]  BY DEF OpenTimeout
  <2> HIDE DEF k
  <2>3. SameBut(k, m', {"opening"}) /\ ~m'.opening  BY <2>1, <2>2 DEF SameBut, Fields, Recordings
  <2>4. QED  BY <1>1, <2>1, <2>3 DEF SameBut, Fields
<1>3. timer' \in [Opens -> {"off", "armed", "query"}] /\ \A p \in Opens : timer'[p] # "off" => timer[p] # "off"
  BY <1>1, MemoryIs
<1>4. RecorderTypes' /\ CallsOfKind' /\ KilledIsFresh'
  <2>1. backend' \in BOOLEAN /\ calls' \in 0..MaxCalls  BY <1>1 DEF RecorderCore, RecorderTypes
  <2>2. QED  BY <1>1, <1>2, <1>3, <2>1, RestsTyped
<1>5. OpeningAlone'  BY <1>1, <1>2, <1>3, OpeningOver
<1>6. StopsInTheEnd' /\ ClosedIsOff' /\ OnIsHeard' /\ (m.restoring => BeingRestored)'
  BY <1>1, <1>2 DEF RecorderCore, StopsInTheEnd, ClosedIsOff, OnIsHeard, BeingRestored, BeingClosed
<1>7. QED  BY <1>4, <1>5, <1>6 DEF RecorderCore

-----------------------------------------------------------------------------
\* Restoring

\* A restore or a closing moves on, with n as the memory.
LEMMA CallGoesOn ==
  ASSUME RecorderCore, m.alive, NEW c \in Restores \cup Closes, at[c] # "idle",
         NEW p \in AtRestoring \cap AtStopping, Goto(c, p), at[c] \in AtClosing => p \in AtClosing,
         c \in Closes => p \in AtClosing,
         UNCHANGED <<backend, timer>>, SameHistory,
         SameBut(m, m', {"enabled", "listening", "handler", "running", "fallback", "retry"}),
         m'.enabled = m.enabled, m'.listening => (m.listening \/ m.enabled)
  PROVE  RecorderCore'
<1>1. /\ m' \in Recordings /\ m'.alive /\ m'.opening = m.opening /\ m'.restoring = m.restoring
      /\ m'.token = m.token /\ m'.valid = m.valid /\ m'.current = m.current
  <2>1. m' \in Recordings /\ \A x \in Fields \ {"enabled", "listening", "handler", "running", "fallback", "retry"} : m'[x] = m[x]
    BY DEF SameBut
  <2>2. {"alive", "opening", "restoring", "token", "valid", "current"}
          \subseteq Fields \ {"enabled", "listening", "handler", "running", "fallback", "retry"}
    BY DEF Fields
  <2>3. QED  BY <2>1, <2>2
<1>2. UNCHANGED <<wish, crossed, calls, deaths>>  BY DEF SameWish, SameHistory
<1>3. c \in Calls /\ p \in Stages /\ p # "idle" /\ p \in {"idle"} \cup AtRestoring
  BY ThreeKinds DEF AtRestoring, AtStopping, AtClosing, Stages
<1>4. RecorderTypes' /\ CallsOfKind' /\ KilledIsFresh'
  <2>1. backend' \in BOOLEAN /\ calls' \in 0..MaxCalls /\ timer' \in [Opens -> {"off", "armed", "query"}]
    BY <1>2 DEF RecorderCore, RecorderTypes
  <2>2. c \in Closes => c \notin m'.valid /\ c # m'.token  BY <1>1 DEF RecorderCore, CallsOfKind
  <2>3. QED  BY <1>1, <1>2, <1>3, <2>1, <2>2, GoesTyped
<1>5. OpeningAlone'  BY <1>1, <1>2, OpeningRests
<1>6. at'[c] = p /\ \A x \in Calls : x # c => at'[x] = at[x]  BY <1>3, MemoryIs DEF Goto
<1>7. BeingRestored => BeingRestored'  BY <1>3, <1>6, ThreeKinds DEF BeingRestored
<1>8. BeingClosed => BeingClosed'  BY <1>3, <1>6 DEF BeingClosed
<1>13. BeingRestored' \/ BeingClosed'  BY <1>3, <1>6 DEF BeingRestored, BeingClosed
<1>9. StopsInTheEnd'
  <2>1. \E x \in Calls : at'[x] \in AtStopping  BY <1>3, <1>6
  <2>2. \A o \in Opens : at'[o] = at[o]  BY <1>6, ThreeKinds
  <2>3. QED  BY <2>1, <2>2 DEF RecorderCore, StopsInTheEnd
<1>10. ClosedIsOff'  BY <1>1, <1>2, <1>8 DEF RecorderCore, ClosedIsOff
<1>11. OnIsHeard'  BY <1>13 DEF OnIsHeard
<1>12. QED  BY <1>1, <1>4, <1>5, <1>7, <1>9, <1>10, <1>11 DEF RecorderCore

\* A restore ends, with n as the memory.
LEMMA RestoreEndsKeeps ==
  ASSUME RecorderCore, m.alive, NEW r \in Restores, NEW n, RestoreEnds(n, r),
         SameHistory, UNCHANGED timer, backend' \in BOOLEAN,
         SameBut(m, n, {"enabled", "listening", "handler", "running", "fallback", "retry"}),
         n.enabled => m.enabled /\ at[r] \notin AtClosing /\ (n.listening \/ n.retry),
         ~n.enabled /\ (n.listening \/ n.running) => \E o \in Opens : at[o] = "undo"
  PROVE  RecorderCore'
<1> DEFINE k == CallEnds(n, r)
<1>1. n \in Recordings /\ r \in Calls  BY ThreeKinds DEF SameBut
<1>2. /\ SameBut(n, k, {"token", "current", "valid"}) /\ k.token \in {n.token, NoCall} \ {r}
      /\ k.current = n.current \ {r} /\ k.valid = n.valid \ {r}
  BY <1>1, HelpersEnd
<1>3. m' = [k EXCEPT !.restoring = FALSE] /\ Goto(r, "idle")  BY DEF RestoreEnds
<1> HIDE DEF k
<1>4. SameBut(k, m', {"restoring"}) /\ ~m'.restoring  BY <1>2, <1>3 DEF SameBut, Fields, Recordings
<1>5. /\ m' \in Recordings /\ m'.alive /\ m'.opening = m.opening /\ m'.enabled = n.enabled
      /\ m'.listening = n.listening /\ m'.running = n.running /\ m'.retry = n.retry
      /\ m'.token \in {m.token, NoCall} \ {r} /\ m'.current = m.current \ {r} /\ m'.valid = m.valid \ {r}
  BY <1>2, <1>4 DEF SameBut, Fields
<1>6. UNCHANGED <<wish, crossed, calls, deaths>>  BY DEF SameWish, SameHistory
<1>7. RecorderTypes' /\ CallsOfKind' /\ KilledIsFresh'
  <2>1. calls' \in 0..MaxCalls /\ timer' \in [Opens -> {"off", "armed", "query"}]
    BY <1>6 DEF RecorderCore, RecorderTypes
  <2>2. "idle" \in Stages /\ "idle" \in AtRestoring  BY DEF Stages, AtRestoring
  <2>3. QED  BY <1>1, <1>3, <1>5, <1>6, <2>1, <2>2, GoesTyped
<1>8. OpeningAlone'  BY <1>5, <1>6, OpeningRests
<1>9. at'[r] = "idle" /\ \A x \in Calls : x # r => at'[x] = at[x]  BY <1>1, <1>3, MemoryIs DEF Goto
<1>10. StopsInTheEnd'
  <2>1. ~n.enabled /\ (n.listening \/ n.running) =>
          \E o \in Opens : at'[o] = "undo" /\ o \in Calls /\ at'[o] \in AtStopping
    BY <1>9, ThreeKinds DEF AtStopping
  <2>2. QED  BY <1>5, <2>1 DEF StopsInTheEnd
<1>11. ClosedIsOff'
  <2>1. n.enabled /\ BeingClosed => BeingClosed'  BY <1>9 DEF BeingClosed
  <2>2. QED  BY <1>5, <1>6, <2>1 DEF RecorderCore, ClosedIsOff
<1>12. OnIsHeard'  BY <1>5 DEF OnIsHeard
<1>13. QED  BY <1>4, <1>7, <1>8, <1>10, <1>11, <1>12 DEF RecorderCore

\* The server answers for an opening that timed out: no other has its time.
LEMMA OpeningAnswered ==
  ASSUME RecorderCore, UNCHANGED crossed, NEW o \in Opens, timer[o] = "query",
         timer' = [timer EXCEPT ![o] = "off"], m'.opening = m.opening,
         m'.current \cap Opens \subseteq m.current
  PROVE  OpeningAlone'
<1>1. timer'[o] = "off" /\ \A p \in Opens : p # o => timer'[p] = timer[p]  BY MemoryIs
<1>2. m.opening => crossed  BY DEF RecorderCore, OpeningAlone
<1>3. QED  BY <1>1, <1>2 DEF RecorderCore, OpeningAlone

\* A restore begins with n as the memory, or nothing is restored.
LEMMA TryRestoreKeeps ==
  ASSUME RecorderCore, NEW n, TryRestore(n), SameBut(m, n, {"alive", "enabled", "retry"}), n.alive,
         UNCHANGED <<backend, crossed, deaths>>, calls' \in 0..MaxCalls,
         \/ UNCHANGED <<timer, wish>> /\ n.enabled = m.enabled
         \/ \E o \in Opens : timer[o] = "query" /\ timer' = [timer EXCEPT ![o] = "off"] /\ n.enabled /\ wish' = TRUE
  PROVE  RecorderCore'
<1>1. /\ n \in Recordings /\ n.opening = m.opening /\ n.restoring = m.restoring /\ n.token = m.token
      /\ n.current = m.current /\ n.valid = m.valid /\ n.listening = m.listening /\ n.handler = m.handler
      /\ n.running = m.running
  BY DEF SameBut, Fields
<1>2. timer' \in [Opens -> {"off", "armed", "query"}] /\ backend' \in BOOLEAN  BY MemoryIs
<1>3. ASSUME m'.opening = n.opening, m'.enabled => n.enabled, m'.current \cap Opens \subseteq n.current
      PROVE  OpeningAlone'
  <2>1. CASE UNCHANGED timer /\ n.enabled = m.enabled
    BY <1>1, <1>3, <2>1, OpeningRests
  <2>2. CASE \E o \in Opens : timer[o] = "query" /\ timer' = [timer EXCEPT ![o] = "off"]
    BY <1>1, <1>3, <2>2, OpeningAnswered
  <2>3. QED  BY <2>1, <2>2
<1>4. ASSUME m'.enabled => n.enabled, m'.current \cap Opens \subseteq n.current, BeingClosed => BeingClosed'
      PROVE  ClosedIsOff'
  BY <1>1, <1>4 DEF RecorderCore, ClosedIsOff
<1>5. ASSUME Restorable(n), NEW r \in Restores, Free(Restores, r), Goto(r, "restart"),
             m' = [Starts(NewToken(n, r), r) EXCEPT !.restoring = TRUE, !.handler = FALSE]
      PROVE  RecorderCore'
  <2> DEFINE k == NewToken(n, r)
             l == Starts(k, r)
  <2>1. r \in Calls /\ r \notin Opens /\ r \notin Closes /\ at[r] = "idle"  BY <1>5, ThreeKinds DEF Free
  <2>2. SameBut(n, k, {"token", "valid"}) /\ k.token = r /\ k.valid = (n.valid \ {n.token}) \cup {r}
    BY <1>1, <2>1, HelpersToken
  <2>3. SameBut(k, l, {"current"}) /\ l.current = k.current \cup {r}
    <3>1. k \in Recordings  BY <2>2 DEF SameBut
    <3>2. QED  BY <2>1, <3>1, HelpersToken
  <2>4. m' = [l EXCEPT !.restoring = TRUE, !.handler = FALSE]  BY <1>5
  <2> HIDE DEF k, l
  <2>5. SameBut(l, m', {"restoring", "handler"})  BY <2>3, <2>4 DEF SameBut, Fields, Recordings
  <2>6. /\ m' \in Recordings /\ m'.alive /\ m'.enabled /\ m'.opening = n.opening
        /\ m'.token = r /\ m'.valid \subseteq m.valid \cup {r} /\ m'.current = n.current \cup {r}
        /\ m'.listening = n.listening
    <3>1. /\ k.alive = n.alive /\ k.enabled = n.enabled /\ k.opening = n.opening
          /\ k.current = n.current /\ k.listening = n.listening
      BY <2>2 DEF SameBut, Fields
    <3>2. /\ l.alive = k.alive /\ l.enabled = k.enabled /\ l.opening = k.opening /\ l.token = k.token
          /\ l.valid = k.valid /\ l.listening = k.listening
      BY <2>3 DEF SameBut, Fields
    <3>3. /\ m' \in Recordings /\ m'.alive = l.alive /\ m'.enabled = l.enabled /\ m'.opening = l.opening
          /\ m'.token = l.token /\ m'.valid = l.valid /\ m'.current = l.current
          /\ m'.listening = l.listening
      BY <2>5 DEF SameBut, Fields
    <3>4. n.enabled  BY <1>5 DEF Restorable
    <3>5. QED  BY <1>1, <2>2, <2>3, <3>1, <3>2, <3>3, <3>4
  <2>7. at'[r] = "restart" /\ \A x \in Calls : x # r => at'[x] = at[x]  BY <1>5, <2>1, MemoryIs DEF Goto
  <2>8. RecorderTypes' /\ CallsOfKind' /\ KilledIsFresh'
    <3>1. "restart" \in Stages /\ "restart" \in AtRestoring /\ "restart" # "idle"  BY DEF Stages, AtRestoring
    <3>2. QED  BY <1>2, <1>5, <2>1, <2>6, <3>1, GoesTyped
  <2>9. OpeningAlone' /\ ClosedIsOff'
    <3>1. m'.enabled => n.enabled  BY <1>5 DEF Restorable
    <3>2. m'.current \cap Opens \subseteq n.current  BY <2>1, <2>6
    <3>3. BeingClosed => BeingClosed'  BY <2>1, <2>7 DEF BeingClosed, AtClosing
    <3>4. QED  BY <1>3, <1>4, <2>6, <3>1, <3>2, <3>3
  <2>10. StopsInTheEnd'  BY <1>1, <2>6 DEF RecorderCore, StopsInTheEnd
  <2>11. BeingRestored'  BY <2>7 DEF BeingRestored
  <2>12. QED  BY <2>8, <2>9, <2>10, <2>11 DEF RecorderCore, OnIsHeard
<1>6. ASSUME ~Restorable(n), UNCHANGED at,
             m' = IF ~n.opening /\ ~n.enabled THEN ResetState(ClearRetry(n)) ELSE n
      PROVE  RecorderCore'
  <2>1. /\ m' \in Recordings /\ m'.alive /\ m'.opening = n.opening /\ m'.restoring = n.restoring
        /\ m'.token = n.token /\ m'.valid = n.valid /\ m'.current = n.current /\ m'.enabled = n.enabled
        /\ \/ ~m'.enabled /\ ~m'.listening /\ ~m'.running
           \/ m'.listening = n.listening /\ m'.running = n.running
    <3>1. CASE ~n.opening /\ ~n.enabled
      <4> DEFINE k == ClearRetry(n)
      <4>1. SameBut(n, k, {"retry"})  BY <1>1, HelpersStop
      <4>2. m' = ResetState(k)  BY <1>6, <3>1
      <4>3. k \in Recordings  BY <4>1 DEF SameBut
      <4> HIDE DEF k
      <4>4. /\ SameBut(k, m', {"enabled", "listening", "handler", "running", "fallback"})
            /\ ~m'.enabled /\ ~m'.listening /\ ~m'.running
        BY <4>2, <4>3, HelpersStop
      <4>6. n.enabled = FALSE /\ m'.enabled = FALSE
        <5>1. m' \in Recordings  BY <4>4 DEF SameBut
        <5>2. QED  BY <1>1, <3>1, <4>4, <5>1 DEF Recordings
      <4>5. QED  BY <4>1, <4>4, <4>6 DEF SameBut, Fields
    <3>2. CASE n.opening \/ n.enabled  BY <1>1, <1>6, <3>2
    <3>3. QED  BY <3>1, <3>2
  <2>2. RecorderTypes' /\ CallsOfKind' /\ KilledIsFresh'  BY <1>1, <1>2, <1>6, <2>1, RestsTyped
  <2>3. OpeningAlone' /\ ClosedIsOff'
    <3>1. BeingClosed => BeingClosed'  BY <1>6 DEF BeingClosed
    <3>2. QED  BY <1>3, <1>4, <2>1, <3>1
  <2>4. StopsInTheEnd'
    <3>1. CASE ~m'.listening /\ ~m'.running  BY <3>1 DEF StopsInTheEnd
    <3>2. CASE m'.listening = n.listening /\ m'.running = n.running
      BY <1>1, <1>6, <2>1, <3>2 DEF RecorderCore, StopsInTheEnd
    <3>3. QED  BY <2>1, <3>1, <3>2
  <2>5. (m.restoring => BeingRestored)'  BY <1>1, <1>6, <2>1 DEF RecorderCore, BeingRestored
  <2>6. OnIsHeard'
    <3>1. m'.enabled => m'.restoring \/ m'.opening  BY <1>6, <2>1 DEF Restorable
    <3>2. QED  BY <2>3, <2>5, <3>1 DEF OpeningAlone, OnIsHeard
  <2>7. QED  BY <2>2, <2>3, <2>4, <2>5, <2>6 DEF RecorderCore
<1>7. QED  BY <1>5, <1>6 DEF TryRestore

LEMMA QueryKeeps == ASSUME RecorderCore, NEW o \in Opens, OpenQuery(o) PROVE RecorderCore'
<1>1. /\ m.alive /\ timer[o] = "query" /\ timer' = [timer EXCEPT ![o] = "off"]
      /\ UNCHANGED <<backend, crossed, calls, deaths>>
  BY DEF OpenQuery, RecorderCalm
<1>2. calls' \in 0..MaxCalls  BY <1>1 DEF RecorderCore, RecorderTypes
<1>3. CASE TryRestore([m EXCEPT !.enabled = TRUE]) /\ wish' = TRUE
  <2>1. /\ SameBut(m, [m EXCEPT !.enabled = TRUE], {"alive", "enabled", "retry"})
        /\ [m EXCEPT !.enabled = TRUE].alive /\ [m EXCEPT !.enabled = TRUE].enabled
    BY <1>1, MemoryIs DEF SameBut, Fields, Recordings
  <2>2. QED  BY <1>1, <1>2, <1>3, <2>1, TryRestoreKeeps
<1>4. CASE m' = ResetState(m) /\ UNCHANGED <<at, wish>>
  <2>1. /\ SameBut(m, m', {"enabled", "listening", "handler", "running", "fallback"})
        /\ ~m'.running /\ ~m'.listening /\ ~m'.enabled
    BY <1>4, MemoryIs, HelpersStop
  <2>2. /\ m' \in Recordings /\ m'.alive /\ m'.opening = m.opening /\ m'.restoring = m.restoring
        /\ m'.token = m.token /\ m'.valid = m.valid /\ m'.current = m.current
    BY <1>1, <2>1 DEF SameBut, Fields
  <2>3. RecorderTypes' /\ CallsOfKind' /\ KilledIsFresh'
    <3>1. timer' \in [Opens -> {"off", "armed", "query"}] /\ backend' \in BOOLEAN  BY <1>1, MemoryIs
    <3>2. QED  BY <1>1, <1>2, <1>4, <2>2, <3>1, RestsTyped
  <2>4. OpeningAlone'  BY <1>1, <2>2, OpeningAnswered
  <2>5. StopsInTheEnd' /\ ClosedIsOff' /\ OnIsHeard' /\ (m.restoring => BeingRestored)'
    BY <1>4, <2>1, <2>2 DEF RecorderCore, StopsInTheEnd, ClosedIsOff, OnIsHeard, BeingRestored
  <2>6. QED  BY <2>3, <2>4, <2>5 DEF RecorderCore
<1>5. QED  BY <1>3, <1>4 DEF OpenQuery

LEMMA ShowKeeps == RecorderCore /\ (ShowApp \/ Retry \/ Launch) => RecorderCore'
<1> SUFFICES ASSUME RecorderCore, ShowApp \/ Retry \/ Launch PROVE RecorderCore'  OBVIOUS
<1>1. UNCHANGED <<backend, crossed, deaths>> /\ UNCHANGED <<timer, wish>>  BY DEF ShowApp, Retry, Launch, SameWish, SameHistory
<1>2. calls' \in 0..MaxCalls
  <2>1. calls' = calls => calls' \in 0..MaxCalls  BY DEF RecorderCore, RecorderTypes
  <2>2. CountCall \/ calls' = calls  BY DEF ShowApp, Retry, Launch, SameWish, SameHistory
  <2>3. QED  BY <2>1, <2>2, CountsCalls
<1>3. PICK n : /\ TryRestore(n) /\ SameBut(m, n, {"alive", "enabled", "retry"})
               /\ n.alive /\ n.enabled = m.enabled
  <2>1. CASE ShowApp
    <3>1. TryRestore(m) /\ m.alive /\ SameBut(m, m, {"alive", "enabled", "retry"})
      BY <2>1, MemoryIs DEF ShowApp, RecorderCalm, SameBut
    <3>2. QED  BY <3>1
  <2>2. CASE Retry
    <3>1. TryRestore(ClearRetry(m)) /\ m.alive  BY <2>2 DEF Retry, RecorderCalm
    <3>2. SameBut(m, ClearRetry(m), {"retry"})  BY MemoryIs, HelpersStop
    <3>3. SameBut(m, ClearRetry(m), {"alive", "enabled", "retry"}) /\ ClearRetry(m).alive
          /\ ClearRetry(m).enabled = m.enabled
      BY <3>1, <3>2 DEF SameBut, Fields
    <3>4. QED  BY <3>1, <3>3
  <2>3. CASE Launch
    <3> DEFINE k == [m EXCEPT !.alive = TRUE]
    <3>1. TryRestore(k)  BY <2>3 DEF Launch
    <3>2. SameBut(m, k, {"alive", "enabled", "retry"}) /\ k.alive /\ k.enabled = m.enabled
      BY MemoryIs DEF SameBut, Fields, Recordings
    <3>3. QED  BY <3>1, <3>2
  <2>4. QED  BY <2>1, <2>2, <2>3
<1>4. QED  BY <1>1, <1>2, <1>3, TryRestoreKeeps

\* What a start leaves, successful or not, and what a failure leaves.
LEMMA RestartedIs ==
  ASSUME RecorderCore, NEW r \in Restores, NEW n \in {Restarted(r), m}
  PROVE  /\ SameBut(m, n, {"enabled", "listening", "handler", "running", "fallback", "retry"})
         /\ n.enabled = m.enabled
         /\ n.listening => m.listening \/ m.enabled
<1>1. m \in Recordings  BY MemoryIs
<1>2. CASE n = m  BY <1>1, <1>2 DEF SameBut
<1>3. CASE n = Listens(m) /\ m.enabled
  <2>1. /\ SameBut(m, n, {"enabled", "listening", "handler", "running", "fallback"})
        /\ n.enabled
    BY <1>1, <1>3, HelpersListen
  <2>2. n.enabled = TRUE /\ m.enabled = TRUE
    <3>1. n \in Recordings  BY <2>1 DEF SameBut
    <3>2. QED  BY <1>1, <1>3, <2>1, <3>1 DEF Recordings
  <2>3. SameBut(m, n, {"enabled", "listening", "handler", "running", "fallback", "retry"})
    BY <2>1 DEF SameBut
  <2>4. QED  BY <1>3, <2>1, <2>2, <2>3
<1>4. CASE n = [m EXCEPT !.running = TRUE]
  BY <1>1, <1>4 DEF SameBut, Fields, Recordings
<1>5. QED  BY <1>2, <1>3, <1>4 DEF Restarted

LEMMA KeptIs ==
  ASSUME NEW n \in Recordings
  PROVE  LET k == ScheduleRetry(ResetKeeping(n))
         IN  /\ SameBut(n, k, {"listening", "handler", "running", "fallback", "retry"})
             /\ ~k.listening /\ ~k.running /\ k.retry
<1> DEFINE l == Stopped(n)
           k == ScheduleRetry(l)
<1>1. /\ SameBut(n, l, {"listening", "handler", "running", "fallback"}) /\ ~l.running /\ ~l.listening
  BY HelpersStop
<1>2. l \in Recordings  BY <1>1 DEF SameBut
<1> HIDE DEF l
<1>3. SameBut(l, k, {"retry"}) /\ k.retry  BY <1>2, HelpersStop
<1>4. ScheduleRetry(ResetKeeping(n)) = k  BY DEF ResetKeeping, l
<1> HIDE DEF k
<1>5. QED  BY <1>1, <1>3, <1>4 DEF SameBut, Fields

LEMMA RestartKeeps == ASSUME RecorderCore, NEW r \in Restores, Restart(r) PROVE RecorderCore'
<1>1. /\ m.alive /\ at[r] = "restart" /\ Goto(r, "report") /\ m' \in {Restarted(r), m}
      /\ UNCHANGED <<backend, timer>> /\ SameHistory
  BY DEF Restart, At, RecorderCalm, SameWish
<1>2. /\ "report" \in AtRestoring \cap AtStopping /\ at[r] \notin AtClosing /\ at[r] # "idle"
      /\ r \notin Closes /\ r \in Restores \cup Closes
  BY <1>1, ThreeKinds DEF AtRestoring, AtStopping, AtClosing
<1>3. /\ SameBut(m, m', {"enabled", "listening", "handler", "running", "fallback", "retry"})
      /\ m'.enabled = m.enabled
      /\ m'.listening => (m.listening \/ m.enabled)
  BY <1>1, RestartedIs
<1>4. QED  BY <1>1, <1>2, <1>3, CallGoesOn

LEMMA ReportKeeps ==
  ASSUME RecorderCore, NEW c \in Calls, (c \in Restores /\ RestoreReport(c)) \/ CloseReport(c)
  PROVE  RecorderCore'
<1>1. /\ m.alive /\ UNCHANGED <<backend, timer>> /\ SameHistory
      /\ m' \in {m, ScheduleRetry(ResetKeeping(m))}
  BY DEF RestoreReport, CloseReport, At, RecorderCalm, SameWish
<1>2. c \notin Opens
  <2>1. CASE c \in Restores  BY <2>1, ThreeKinds
  <2>2. CASE at[c] = "close report"  BY <2>2 DEF RecorderCore, CallsOfKind, AtOpening
  <2>3. QED  BY <2>1, <2>2 DEF CloseReport, At
<1>3. /\ SameBut(m, m', {"enabled", "listening", "handler", "running", "fallback", "retry"})
      /\ m'.enabled = m.enabled
      /\ m'.listening => m.listening
  <2>1. CASE m' = m  BY <2>1, MemoryIs DEF SameBut, RecorderCore, StopsInTheEnd
  <2>2. CASE m' = ScheduleRetry(ResetKeeping(m))
    <3>1. /\ SameBut(m, m', {"listening", "handler", "running", "fallback", "retry"})
          /\ ~m'.listening
      BY <2>2, MemoryIs, KeptIs
    <3>2. QED  BY <3>1 DEF SameBut, Fields
  <2>3. QED  BY <1>1, <2>1, <2>2
<1>4. CASE c \in Restores /\ RestoreReport(c)
  <2>1. at[c] = "report" /\ Goto(c, "vip")  BY <1>4 DEF RestoreReport, At
  <2>2. "vip" \in AtRestoring \cap AtStopping /\ at[c] \notin AtClosing /\ c \notin Closes
    BY <1>4, <2>1, ThreeKinds DEF AtRestoring, AtStopping, AtClosing
  <2>3. at[c] # "idle" /\ c \in Restores \cup Closes  BY <1>4, <2>1
  <2>4. QED  BY <1>1, <1>3, <2>1, <2>2, <2>3, CallGoesOn
<1>5. CASE CloseReport(c)
  <2>1. at[c] = "close report" /\ Goto(c, "close sync") /\ c \in Restores \cup Closes
    BY <1>2, <1>5 DEF CloseReport, At, Calls
  <2>2. "close sync" \in AtRestoring \cap AtStopping /\ "close sync" \in AtClosing
    BY DEF AtRestoring, AtStopping, AtClosing
  <2>3. at[c] # "idle"  BY <2>1
  <2>4. QED  BY <1>1, <1>3, <2>1, <2>2, <2>3, CallGoesOn
<1>6. QED  BY <1>4, <1>5

\* A restore that gives up leaves the recording off, or for the next try.
LEMMA RestoreGivesUp ==
  ASSUME RecorderCore, m.alive, NEW r \in Restores, SameHistory, UNCHANGED timer, backend' \in BOOLEAN,
         \/ at[r] \notin AtClosing /\ RestoreEnds(ScheduleRetry(ResetKeeping(m)), r)
         \/ RestoreEnds(ResetState(m), r)
         \/ RestoreEnds(ResetState(ClearRetry(m)), r)
  PROVE  RecorderCore'
<1> DEFINE Switches == {"enabled", "listening", "handler", "running", "fallback", "retry"}
           Left(n) == /\ RestoreEnds(n, r) /\ SameBut(m, n, Switches) /\ ~n.listening /\ ~n.running
                      /\ ~n.enabled \/ (n.enabled = m.enabled /\ n.retry /\ at[r] \notin AtClosing)
<1>1. \E n : Left(n)
  <2>1. ASSUME at[r] \notin AtClosing, RestoreEnds(ScheduleRetry(ResetKeeping(m)), r) PROVE \E n : Left(n)
    <3> DEFINE k == ScheduleRetry(ResetKeeping(m))
    <3>1. /\ SameBut(m, k, {"listening", "handler", "running", "fallback", "retry"})
          /\ ~k.listening /\ ~k.running /\ k.retry
      BY MemoryIs, KeptIs
    <3> HIDE DEF k
    <3>2. SameBut(m, k, Switches) /\ k.enabled = m.enabled  BY <3>1 DEF SameBut, Fields
    <3>3. RestoreEnds(k, r)  BY <2>1 DEF k
    <3>4. QED  BY <2>1, <3>1, <3>2, <3>3
  <2>2. ASSUME NEW l \in {m, ClearRetry(m)}, RestoreEnds(ResetState(l), r) PROVE \E n : Left(n)
    <3> DEFINE k == ResetState(l)
    <3>1. l \in Recordings /\ SameBut(m, l, {"retry"})
      <4>1. SameBut(m, ClearRetry(m), {"retry"}) /\ SameBut(m, m, {"retry"})
        BY MemoryIs, HelpersStop DEF SameBut
      <4>2. QED  BY <2>2, <4>1 DEF SameBut
    <3>2. /\ SameBut(l, k, {"enabled", "listening", "handler", "running", "fallback"})
          /\ ~k.running /\ ~k.listening /\ ~k.enabled
      BY <3>1, HelpersStop
    <3> HIDE DEF k
    <3>3. SameBut(m, k, Switches)  BY <3>1, <3>2 DEF SameBut
    <3>4. RestoreEnds(k, r)  BY <2>2 DEF k
    <3>5. QED  BY <3>2, <3>3, <3>4
  <2>3. QED  BY <2>1, <2>2
<1>2. PICK n : Left(n)  BY <1>1
<1>3. n.enabled => m.enabled /\ at[r] \notin AtClosing /\ (n.listening \/ n.retry)
  <2>1. n.enabled => n.enabled = m.enabled  BY <1>2
  <2>2. QED  BY <1>2, <2>1
<1>4. ~n.enabled /\ (n.listening \/ n.running) => \E o \in Opens : at[o] = "undo"
  BY <1>2
<1>5. QED  BY <1>2, <1>3, <1>4, RestoreEndsKeeps

\* closeAutoRecord: what was on stays on until it ends.
LEMMA CloseBeginsKeeps ==
  ASSUME RecorderCore, m.alive, NEW c \in Restores \cup Closes, c \in Restores => at[c] = "vip",
         CloseBegins(m, c), UNCHANGED <<backend, timer, crossed, deaths>>, calls' \in 0..MaxCalls
  PROVE  RecorderCore'
<1> DEFINE k == [NewGeneration(CancelToken(ClearRetry(m))) EXCEPT !.token = NoCall]
           l == ResetState(k)
           n == CallEnds(l, c)
<1>1. c \in Calls /\ c \notin Opens /\ NoCall # c  BY ThreeKinds
<1>2. /\ SameBut(m, k, {"token", "current", "valid", "retry"})
      /\ k.token = NoCall /\ k.current = {} /\ k.valid \subseteq m.valid
  BY MemoryIs DEF SameBut, Fields, Recordings, NewGeneration, CancelToken, ClearRetry
<1>3. timer' \in [Opens -> {"off", "armed", "query"}] /\ backend' \in BOOLEAN  BY MemoryIs
<1>4. c \in Closes => c \notin m.valid  BY DEF RecorderCore, CallsOfKind
<1>5. CASE m.enabled
  <2>1. m' = k /\ Goto(c, "close report")  BY <1>5 DEF CloseBegins
  <2> HIDE DEF k
  <2>2. /\ m' \in Recordings /\ m'.alive /\ m'.enabled = m.enabled /\ m'.opening = m.opening
        /\ m'.restoring = m.restoring /\ m'.listening = m.listening
        /\ m'.token = NoCall /\ m'.current = {} /\ m'.valid \subseteq m.valid
    BY <1>2, <2>1 DEF SameBut, Fields
  <2>3. at'[c] = "close report" /\ \A x \in Calls : x # c => at'[x] = at[x]  BY <1>1, <2>1, MemoryIs DEF Goto
  <2>4. RecorderTypes' /\ CallsOfKind' /\ KilledIsFresh'
    <3>1. "close report" \in Stages /\ "close report" \in AtRestoring /\ "close report" \in AtClosing
      BY DEF Stages, AtRestoring, AtClosing
    <3>2. QED  BY <1>1, <1>3, <1>4, <2>1, <2>2, <3>1, GoesTyped
  <2>5. OpeningAlone'  BY <2>2, OpeningRests
  <2>6. BeingClosed'  BY <1>1, <2>3 DEF BeingClosed, AtClosing
  <2>7. (m.restoring => BeingRestored)'  BY <2>2, <2>3, ThreeKinds DEF RecorderCore, BeingRestored
  <2>8. StopsInTheEnd'  BY <1>5, <2>2 DEF RecorderCore, StopsInTheEnd
  <2>9. ClosedIsOff' /\ OnIsHeard'  BY <2>2, <2>6 DEF ClosedIsOff, OnIsHeard
  <2>10. QED  BY <2>4, <2>5, <2>7, <2>8, <2>9 DEF RecorderCore
<1>6. CASE ~m.enabled
  <2>1. m' = [n EXCEPT !.restoring = IF c \in Restores THEN FALSE ELSE @] /\ Goto(c, "idle")
    BY <1>6 DEF CloseBegins
  <2> HIDE DEF k
  <2>2. /\ SameBut(k, l, {"enabled", "listening", "handler", "running", "fallback"})
        /\ ~l.running /\ ~l.listening /\ ~l.enabled
    <3>1. k \in Recordings  BY <1>2 DEF SameBut
    <3>2. QED  BY <3>1, HelpersStop
  <2> HIDE DEF l
  <2>3. /\ SameBut(l, n, {"token", "current", "valid"})
        /\ n.token \in {l.token, NoCall} \ {c} /\ n.current = l.current \ {c} /\ n.valid = l.valid \ {c}
    <3>1. l \in Recordings  BY <2>2 DEF SameBut
    <3>2. QED  BY <1>1, <3>1, HelpersEnd
  <2> HIDE DEF n
  <2>4. /\ SameBut(n, m', {"restoring"})
        /\ m'.restoring => (c \notin Restores /\ n.restoring)
    BY <2>1, <2>3 DEF SameBut, Fields, Recordings
  <2>5. /\ m' \in Recordings /\ m'.alive /\ ~m'.enabled /\ ~m'.listening /\ ~m'.running
        /\ m'.opening = m.opening /\ m'.token = NoCall /\ m'.current = {} /\ m'.valid \subseteq m.valid \ {c}
        /\ n.restoring = m.restoring
    <3>1. /\ k.alive = m.alive /\ k.opening = m.opening /\ k.restoring = m.restoring
      BY <1>2 DEF SameBut, Fields
    <3>2. /\ l.alive = k.alive /\ l.opening = k.opening /\ l.restoring = k.restoring
          /\ l.token = k.token /\ l.current = k.current /\ l.valid = k.valid
      BY <2>2 DEF SameBut, Fields
    <3>3. /\ n.alive = l.alive /\ n.opening = l.opening /\ n.restoring = l.restoring
          /\ n.enabled = l.enabled /\ n.listening = l.listening /\ n.running = l.running
      BY <2>3 DEF SameBut, Fields
    <3>4. /\ m' \in Recordings /\ m'.alive = n.alive /\ m'.opening = n.opening
          /\ m'.enabled = n.enabled /\ m'.listening = n.listening /\ m'.running = n.running
          /\ m'.token = n.token /\ m'.current = n.current /\ m'.valid = n.valid
      BY <2>4 DEF SameBut, Fields
    <3>5. QED  BY <1>2, <2>2, <2>3, <3>1, <3>2, <3>3, <3>4
  <2>6. at'[c] = "idle" /\ \A x \in Calls : x # c => at'[x] = at[x]  BY <1>1, <2>1, MemoryIs DEF Goto
  <2>7. RecorderTypes' /\ CallsOfKind' /\ KilledIsFresh'
    <3>1. "idle" \in Stages /\ "idle" \in AtRestoring  BY DEF Stages, AtRestoring
    <3>2. QED  BY <1>1, <1>3, <2>1, <2>5, <3>1, GoesTyped
  <2>8. OpeningAlone'  BY <2>5, OpeningRests
  <2>9. (m.restoring => BeingRestored)'
    <3>1. m'.restoring => c \notin Restores /\ BeingRestored  BY <2>4, <2>5 DEF RecorderCore
    <3>2. QED  BY <2>6, <3>1, ThreeKinds DEF BeingRestored
  <2>10. StopsInTheEnd' /\ ClosedIsOff' /\ OnIsHeard'  BY <2>5 DEF StopsInTheEnd, ClosedIsOff, OnIsHeard
  <2>11. QED  BY <2>7, <2>8, <2>9, <2>10 DEF RecorderCore
<1>7. QED  BY <1>5, <1>6

LEMMA VipKeeps == ASSUME RecorderCore, NEW r \in Restores, RestoreVip(r) PROVE RecorderCore'
<1>1. m.alive /\ at[r] = "vip" /\ UNCHANGED <<backend, timer>> /\ SameHistory
  BY DEF RestoreVip, At, RecorderCalm, SameWish
<1>2. at[r] \notin AtClosing /\ at[r] # "idle" /\ r \in Restores \cup Closes /\ r \notin Closes /\ backend' \in BOOLEAN
  BY <1>1, ThreeKinds, MemoryIs DEF AtClosing
<1>3. CASE RestoreEnds(ScheduleRetry(ResetKeeping(m)), r) \/ RestoreEnds(ResetState(m), r)
  BY <1>1, <1>2, <1>3, RestoreGivesUp
<1>4. CASE CloseBegins(m, r)
  <2>1. UNCHANGED <<crossed, deaths>> /\ calls' \in 0..MaxCalls
    BY <1>1 DEF SameWish, SameHistory, RecorderCore, RecorderTypes
  <2>2. wish' = wish  BY <1>1 DEF SameWish, SameHistory
  <2>3. QED  BY <1>1, <1>2, <1>4, <2>1, CloseBeginsKeeps
<1>5. CASE Goto(r, "config") /\ UNCHANGED m
  <2>1. SameBut(m, m', {"enabled", "listening", "handler", "running", "fallback", "retry"})
    BY <1>5, MemoryIs DEF SameBut
  <2>2. "config" \in AtRestoring \cap AtStopping  BY DEF AtRestoring, AtStopping
  <2>3. /\ m'.enabled = m.enabled
        /\ m'.listening => (m.listening \/ m.enabled)
    BY <1>5 DEF RecorderCore, StopsInTheEnd
  <2>4. QED  BY <1>1, <1>2, <1>5, <2>1, <2>2, <2>3, CallGoesOn
<1>6. QED  BY <1>3, <1>4, <1>5 DEF RestoreVip

LEMMA ConfigKeeps ==
  ASSUME RecorderCore, NEW r \in Restores, RestoreConfig(r) \/ RestoreCancelled(r) PROVE RecorderCore'
<1>1. m.alive /\ at[r] = "config" /\ UNCHANGED <<backend, timer>> /\ SameHistory
  BY DEF RestoreConfig, RestoreCancelled, At, RecorderCalm, SameWish
<1>2. at[r] \notin AtClosing /\ at[r] # "idle" /\ r \in Restores \cup Closes /\ r \notin Closes /\ backend' \in BOOLEAN
  BY <1>1, ThreeKinds, MemoryIs DEF AtClosing
<1>3. CASE \/ RestoreEnds(ScheduleRetry(ResetKeeping(m)), r) \/ RestoreEnds(ResetState(m), r)
           \/ RestoreEnds(ResetState(ClearRetry(m)), r)
  BY <1>1, <1>2, <1>3, RestoreGivesUp
<1>4. CASE m.listening /\ RestoreEnds(ClearRetry(m), r)
  <2> DEFINE k == ClearRetry(m)
  <2>1. SameBut(m, k, {"retry"})  BY MemoryIs, HelpersStop
  <2>2. RestoreEnds(k, r) /\ m.listening  BY <1>4
  <2> HIDE DEF k
  <2>3. /\ SameBut(m, k, {"enabled", "listening", "handler", "running", "fallback", "retry"})
        /\ k.enabled = m.enabled /\ k.listening = m.listening
    BY <2>1 DEF SameBut, Fields
  <2>4. ~m.enabled => \E o \in Opens : at[o] = "undo"  BY <2>2 DEF RecorderCore, StopsInTheEnd
  <2>5. /\ k.enabled => m.enabled /\ at[r] \notin AtClosing /\ (k.listening \/ k.retry)
        /\ ~k.enabled /\ (k.listening \/ k.running) => \E o \in Opens : at[o] = "undo"
    BY <1>2, <2>2, <2>3, <2>4
  <2>6. QED  BY <1>1, <1>2, <2>2, <2>3, <2>5, RestoreEndsKeeps
<1>5. CASE Goto(r, "restart again") /\ UNCHANGED m
  <2>1. SameBut(m, m', {"enabled", "listening", "handler", "running", "fallback", "retry"})
    BY <1>5, MemoryIs DEF SameBut
  <2>2. "restart again" \in AtRestoring \cap AtStopping  BY DEF AtRestoring, AtStopping
  <2>3. /\ m'.enabled = m.enabled
        /\ m'.listening => (m.listening \/ m.enabled)
    BY <1>5 DEF RecorderCore, StopsInTheEnd
  <2>4. QED  BY <1>1, <1>2, <1>5, <2>1, <2>2, <2>3, CallGoesOn
<1>6. QED  BY <1>3, <1>4, <1>5 DEF RestoreConfig, RestoreCancelled

LEMMA AgainKeeps == ASSUME RecorderCore, NEW r \in Restores, RestartAgain(r) PROVE RecorderCore'
<1>1. m.alive /\ at[r] = "restart again" /\ UNCHANGED <<backend, timer>> /\ SameHistory
  BY DEF RestartAgain, At, RecorderCalm, SameWish
<1>2. at[r] \notin AtClosing /\ backend' \in BOOLEAN  BY <1>1, MemoryIs DEF AtClosing
<1>3. PICK n \in {Restarted(r), m} :
        RestoreEnds(IF n.listening THEN ClearRetry(n) ELSE ScheduleRetry(ResetKeeping(n)), r)
  BY DEF RestartAgain
<1> DEFINE k == IF n.listening THEN ClearRetry(n) ELSE ScheduleRetry(ResetKeeping(n))
<1>4. /\ SameBut(m, n, {"enabled", "listening", "handler", "running", "fallback", "retry"})
      /\ n.enabled = m.enabled
      /\ n.listening => m.listening \/ m.enabled
  BY RestartedIs
<1>5. n \in Recordings  BY <1>4 DEF SameBut
<1>6. /\ SameBut(n, k, {"listening", "handler", "running", "fallback", "retry"})
      /\ \/ n.listening /\ k.listening
         \/ ~k.listening /\ ~k.running /\ k.retry
  <2>1. CASE n.listening
    <3>1. k = ClearRetry(n)  BY <2>1
    <3>2. SameBut(n, ClearRetry(n), {"retry"})  BY <1>5, HelpersStop
    <3> HIDE DEF k
    <3>3. QED  BY <1>4, <2>1, <3>1, <3>2 DEF SameBut, Fields
  <2>2. CASE ~n.listening
    <3>1. k = ScheduleRetry(ResetKeeping(n))  BY <2>2
    <3> HIDE DEF k
    <3>2. QED  BY <1>5, <3>1, KeptIs
  <2>3. QED  BY <2>1, <2>2
<1>7. RestoreEnds(k, r)  BY <1>3
<1> HIDE DEF k
<1>8. SameBut(m, k, {"enabled", "listening", "handler", "running", "fallback", "retry"}) /\ k.enabled = m.enabled
  BY <1>4, <1>6 DEF SameBut, Fields
<1>9. /\ k.enabled => m.enabled /\ at[r] \notin AtClosing /\ (k.listening \/ k.retry)
      /\ ~k.enabled /\ (k.listening \/ k.running) => \E o \in Opens : at[o] = "undo"
  <2>1. ~m.enabled /\ m.listening => \E o \in Opens : at[o] = "undo"  BY DEF RecorderCore, StopsInTheEnd
  <2>2. QED  BY <1>2, <1>4, <1>6, <1>8, <2>1
<1>10. QED  BY <1>1, <1>2, <1>7, <1>8, <1>9, RestoreEndsKeeps

LEMMA WatchdogKeeps == ASSUME RecorderCore, NEW r \in Restores, Watchdog(r) PROVE RecorderCore'
<1>1. m.alive /\ UNCHANGED <<backend, at, timer>> /\ UNCHANGED <<wish, crossed, calls, deaths>>
  BY DEF Watchdog, RecorderCalm, SameWish, SameHistory
<1>2. /\ m' \in Recordings /\ m'.alive /\ m'.opening = m.opening /\ ~m'.restoring /\ m'.retry
      /\ m'.token = m.token /\ m'.valid \subseteq m.valid /\ m'.current = m.current
      /\ m'.enabled = m.enabled /\ m'.listening = m.listening /\ m'.running = m.running
  BY <1>1, MemoryIs DEF Watchdog, ScheduleRetry, CancelToken, Recordings
<1>3. RecorderTypes' /\ CallsOfKind' /\ KilledIsFresh'
  <2>1. backend' \in BOOLEAN /\ calls' \in 0..MaxCalls /\ timer' \in [Opens -> {"off", "armed", "query"}]
    BY <1>1 DEF RecorderCore, RecorderTypes
  <2>2. QED  BY <1>1, <1>2, <2>1, RestsTyped
<1>4. OpeningAlone'  BY <1>1, <1>2, OpeningRests
<1>5. StopsInTheEnd' /\ ClosedIsOff' /\ OnIsHeard'
  BY <1>1, <1>2 DEF RecorderCore, StopsInTheEnd, ClosedIsOff, OnIsHeard, BeingClosed
<1>6. QED  BY <1>2, <1>3, <1>4, <1>5 DEF RecorderCore

-----------------------------------------------------------------------------
\* Closing, and the end of the process

LEMMA CloseCallKeeps == ASSUME RecorderCore, NEW c \in Closes, Close(c) PROVE RecorderCore'
<1>1. m.alive /\ CloseBegins(m, c) /\ UNCHANGED <<backend, timer, crossed, deaths>>
  BY DEF Close, At, RecorderCalm, SameWish
<1>2. calls' \in 0..MaxCalls  BY CountsCalls DEF Close
<1>3. c \in Restores \cup Closes /\ c \notin Restores  BY ThreeKinds
<1>4. QED  BY <1>1, <1>2, <1>3, CloseBeginsKeeps

LEMMA CloseSyncKeeps == ASSUME RecorderCore, NEW c \in Calls, CloseSync(c) PROVE RecorderCore'
<1>1. /\ m.alive /\ at[c] = "close sync" /\ UNCHANGED timer /\ SameHistory /\ backend' \in BOOLEAN
  BY MemoryIs DEF CloseSync, At, RecorderCalm, SameWish
<1>2. CASE c \in Restores
  <2>1. RestoreEnds(ResetState(m), c)  BY <1>2 DEF CloseSync
  <2>2. QED  BY <1>1, <1>2, <2>1, RestoreGivesUp
<1>3. CASE c \notin Restores
  <2>1. c \in Closes /\ c \notin m.valid /\ c # m.token
    BY <1>1, <1>3 DEF RecorderCore, CallsOfKind, AtOpening, Calls
  <2>2. m' = ResetState(m) /\ Goto(c, "idle")  BY <1>3 DEF CloseSync
  <2>3. /\ SameBut(m, m', {"enabled", "listening", "handler", "running", "fallback"})
        /\ ~m'.running /\ ~m'.listening /\ ~m'.enabled
    BY <2>2, MemoryIs, HelpersStop
  <2>4. /\ m' \in Recordings /\ m'.alive /\ m'.opening = m.opening /\ m'.restoring = m.restoring
        /\ m'.token = m.token /\ m'.valid = m.valid /\ m'.current = m.current
    BY <1>1, <2>3 DEF SameBut, Fields
  <2>5. UNCHANGED <<wish, crossed, calls, deaths>> /\ calls' \in 0..MaxCalls
    BY <1>1 DEF SameWish, SameHistory, RecorderCore, RecorderTypes
  <2>6. RecorderTypes' /\ CallsOfKind' /\ KilledIsFresh'
    <3>1. "idle" \in Stages /\ timer' \in [Opens -> {"off", "armed", "query"}]
      BY <1>1, MemoryIs DEF Stages
    <3>2. QED  BY <1>1, <2>1, <2>2, <2>4, <2>5, <3>1, GoesTyped
  <2>7. OpeningAlone'  BY <1>1, <2>3, <2>4, <2>5, OpeningRests
  <2>8. (m.restoring => BeingRestored)'
    <3>1. \A x \in Calls : x # c => at'[x] = at[x]  BY <2>2, MemoryIs DEF Goto
    <3>2. QED  BY <1>3, <2>4, <3>1, ThreeKinds DEF RecorderCore, BeingRestored
  <2>9. StopsInTheEnd' /\ ClosedIsOff' /\ OnIsHeard'
    BY <2>3, <2>4, <2>5 DEF RecorderCore, StopsInTheEnd, ClosedIsOff, OnIsHeard
  <2>10. QED  BY <2>6, <2>7, <2>8, <2>9 DEF RecorderCore
<1>4. QED  BY <1>2, <1>3

LEMMA KillKeeps == RecorderCore /\ KillRecorder => RecorderCore'
<1> SUFFICES ASSUME RecorderCore, KillRecorder PROVE RecorderCore'  OBVIOUS
<1>1. /\ m' = [Fresh(m.enabled) EXCEPT !.alive = FALSE]
      /\ at' = [c \in Calls |-> "idle"] /\ timer' = [o \in Opens |-> "off"]
      /\ wish' = m.enabled /\ UNCHANGED <<backend, crossed>>
  BY DEF KillRecorder
<1>2. /\ m' \in Recordings /\ ~m'.alive /\ ~m'.opening /\ ~m'.restoring /\ ~m'.running /\ ~m'.listening
      /\ m'.enabled = wish' /\ m'.token = NoCall /\ m'.current = {} /\ m'.valid = {}
  BY <1>1, MemoryIs DEF Fresh, Recordings
<1>3. /\ at' \in [Calls -> Stages] /\ \A c \in Calls : at'[c] = "idle"
      /\ timer' \in [Opens -> {"off", "armed", "query"}] /\ \A o \in Opens : timer'[o] = "off"
  BY <1>1 DEF Stages
<1>4. calls' \in 0..MaxCalls  BY CountsCalls DEF KillRecorder
<1>5. deaths' \in 0..MaxDeaths  BY CallBounds DEF KillRecorder, RecorderCore, RecorderTypes
<1>6. RecorderTypes'
  <2>1. backend' \in BOOLEAN /\ crossed' \in BOOLEAN  BY <1>1 DEF RecorderCore, RecorderTypes
  <2>2. (m.valid \cup ({m.token} \ {NoCall}) \subseteq {c \in Calls : at[c] # "idle"})'  BY <1>2
  <2>3. QED  BY <1>2, <1>3, <1>4, <1>5, <2>1, <2>2 DEF RecorderTypes, Recordings
<1>7. CallsOfKind'
  BY <1>2, <1>3, ThreeKinds DEF CallsOfKind, AtOpening, AtRestoring
<1>8. KilledIsFresh' /\ OpeningAlone' /\ StopsInTheEnd' /\ ClosedIsOff' /\ OnIsHeard' /\ (m.restoring => BeingRestored)'
  BY <1>2, <1>3 DEF KilledIsFresh, OpeningAlone, StopsInTheEnd, ClosedIsOff, OnIsHeard
<1>9. QED  BY <1>6, <1>7, <1>8 DEF RecorderCore

LEMMA FallbackKeeps == RecorderCore /\ FallbackRestarts => RecorderCore'
<1> SUFFICES ASSUME RecorderCore, FallbackRestarts PROVE RecorderCore'  OBVIOUS
<1>1. m.alive /\ m' = [m EXCEPT !.fallback = m.enabled] /\ UNCHANGED <<backend, at, timer, wish, crossed, calls, deaths>>
  BY DEF FallbackRestarts, RecorderCalm, SameHistory
<1>2. /\ m' \in Recordings /\ m'.alive = m.alive /\ m'.opening = m.opening /\ m'.restoring = m.restoring
      /\ m'.token = m.token /\ m'.valid = m.valid /\ m'.current = m.current /\ m'.retry = m.retry
      /\ m'.enabled = m.enabled /\ m'.listening = m.listening /\ m'.running = m.running
  BY <1>1, MemoryIs DEF Recordings
<1>3. RecorderTypes' /\ CallsOfKind' /\ KilledIsFresh'
  <2>1. backend' \in BOOLEAN /\ calls' \in 0..MaxCalls /\ timer' \in [Opens -> {"off", "armed", "query"}]
    BY <1>1 DEF RecorderCore, RecorderTypes
  <2>2. QED  BY <1>1, <1>2, <2>1, RestsTyped
<1>4. OpeningAlone'  BY <1>1, <1>2, OpeningRests
<1>5. StopsInTheEnd' /\ ClosedIsOff' /\ OnIsHeard' /\ (m.restoring => BeingRestored)'
  BY <1>1, <1>2 DEF RecorderCore, StopsInTheEnd, ClosedIsOff, OnIsHeard, BeingClosed, BeingRestored
<1>6. QED  BY <1>3, <1>4, <1>5 DEF RecorderCore

LEMMA RecorderStutters == RecorderCore /\ UNCHANGED recorderVars => RecorderCore'
BY DEF recorderVars, RecorderCore, RecorderTypes, CallsOfKind, KilledIsFresh, OpeningAlone,
       StopsInTheEnd, ClosedIsOff, OnIsHeard, BeingRestored, BeingClosed

LEMMA RecorderCoreStep == RecorderCore /\ [RecorderNext]_recorderVars => RecorderCore'
<1> SUFFICES ASSUME RecorderCore, [RecorderNext]_recorderVars PROVE RecorderCore'  OBVIOUS
<1>1. CASE UNCHANGED recorderVars  BY <1>1, RecorderStutters
<1>2. CASE \E o \in Opens : Open(o)  BY <1>2, OpenKeeps
<1>3. CASE \E c \in Closes : Close(c)  BY <1>3, CloseCallKeeps
<1>4. ASSUME NEW c \in Calls, Proceed(c) PROVE RecorderCore'
  <2>1. ASSUME c \in Opens, SettingAnswered(c) \/ Modal(c) \/ Sync(c) \/ SyncCancelled(c)
        PROVE  RecorderCore'
    BY <2>1, SettingKeeps, ModalKeeps, SyncKeeps
  <2>2. ASSUME c \in Opens, Start(c) \/ Undo(c) \/ OpenTimeout(c) \/ OpenQuery(c) PROVE RecorderCore'
    BY <2>2, StartKeeps, UndoKeeps, TimeoutKeeps, QueryKeeps
  <2>3. ASSUME c \in Restores, Restart(c) \/ RestoreReport(c) \/ RestoreVip(c) \/ RestoreConfig(c)
        PROVE  RecorderCore'
    BY <1>4, <2>3, RestartKeeps, ReportKeeps, VipKeeps, ConfigKeeps
  <2>4. ASSUME c \in Restores, RestoreCancelled(c) \/ RestartAgain(c) \/ Watchdog(c) PROVE RecorderCore'
    BY <2>4, ConfigKeeps, AgainKeeps, WatchdogKeeps
  <2>5. CASE CloseReport(c) \/ CloseSync(c)  BY <1>4, <2>5, ReportKeeps, CloseSyncKeeps
  <2>6. QED  BY <1>4, <2>1, <2>2, <2>3, <2>4, <2>5 DEF Proceed
<1>5. CASE ShowApp \/ Retry \/ Launch  BY <1>5, ShowKeeps
<1>6. CASE KillRecorder  BY <1>6, KillKeeps
<1>7. CASE FallbackRestarts  BY <1>7, FallbackKeeps
<1>8. QED  BY <1>1, <1>2, <1>3, <1>4, <1>5, <1>6, <1>7 DEF RecorderNext

-----------------------------------------------------------------------------
\* What the module takes for listening

SameReach ==
  /\ m'.listening = m.listening /\ m'.running = m.running /\ m'.handler = m.handler
  /\ m'.enabled = m.enabled /\ m'.fallback = m.fallback /\ deaf' = deaf

\* A call goes on that neither restarts the service nor ends a closing.
LEMMA ReachRests ==
  ASSUME RecorderCore, Reaching, SameReach, NEW c \in Calls, NEW p, Goto(c, p),
         at[c] # "restart", at[c] \in AtClosing => p \in AtClosing,
         m.current \ {c} \subseteq m'.current
  PROVE  Reaching'
<1>1. at'[c] = p /\ \A x \in Calls : x # c => at'[x] = at[x]  BY MemoryIs DEF Goto
<1>2. BeingClosed => BeingClosed'  BY <1>1 DEF BeingClosed
<1>3. Seeing => Seeing'  BY <1>1, ThreeKinds DEF Seeing, SameReach
<1>4. QED  BY <1>2, <1>3 DEF Reaching, SameReach

LEMMA ReachStays ==
  ASSUME Reaching, SameReach, UNCHANGED at, m.enabled => m.current \subseteq m'.current
  PROVE  Reaching'
<1>1. BeingClosed => BeingClosed'  BY DEF BeingClosed
<1>2. Seeing => Seeing'  BY DEF Seeing, SameReach
<1>3. QED  BY <1>1, <1>2 DEF Reaching, SameReach

LEMMA ReachAnew ==
  ASSUME deaf' \in BOOLEAN, m'.fallback => m'.enabled,
         m'.listening => m'.running /\ (m'.handler \/ Seeing' \/ BeingClosed')
  PROVE  Reaching'
BY DEF Reaching

LEMMA OpenFailsReaches ==
  ASSUME RecorderCore, Reaching, NEW o \in Opens, at[o] \in {"sync", "start"}, deaf' \in BOOLEAN,
         NEW n, (n = m /\ deaf' = deaf) \/ n = Registered(m), OpenFails(n, o)
  PROVE  Reaching'
<1>1. n \in Recordings
  <2>1. Registered(m) \in Recordings  BY MemoryIs, HelpersListen DEF SameBut
  <2>2. QED  BY <2>1, MemoryIs
<1>2. CASE o \in m.valid
  <2>1. m' = n /\ Goto(o, "undo")  BY <1>2 DEF OpenFails
  <2>2. CASE n = m /\ deaf' = deaf
    <3>1. SameReach /\ m.current \ {o} \subseteq m'.current  BY <2>1, <2>2 DEF SameReach
    <3>2. o \in Calls /\ at[o] # "restart" /\ at[o] \notin AtClosing  BY ThreeKinds DEF AtClosing
    <3>3. QED  BY <2>1, <3>1, <3>2, ReachRests
  <2>3. CASE n = Registered(m)
    <3>1. m'.running /\ m'.handler  BY <2>1, <2>3, MemoryIs, HelpersListen
    <3>2. m'.fallback => m'.enabled
      BY <2>1, <2>3, MemoryIs DEF Registered, Recordings, Reaching
    <3>3. QED  BY <3>1, <3>2, ReachAnew
  <2>4. QED  BY <2>2, <2>3
<1>3. CASE o \notin m.valid
  <2>1. m' = Finish(ResetState(n), o)  BY <1>3 DEF OpenFails
  <2>2. ~m'.listening /\ ~m'.fallback  BY <1>1, <2>1 DEF Finish, CallEnds, ResetState, Stopped, Recordings
  <2>3. QED  BY <2>2, ReachAnew
<1>4. QED  BY <1>2, <1>3

LEMMA OpeningReaches ==
  ASSUME RecorderCore, Reaching, NEW o \in Opens,
         \/ Open(o) \/ SettingAnswered(o) \/ Modal(o) \/ Sync(o) \/ SyncCancelled(o)
         \/ Start(o) \/ Undo(o) \/ OpenTimeout(o)
  PROVE  Reaching'
<1>1. m \in Recordings /\ deaf \in BOOLEAN /\ o \in Calls  BY MemoryIs, ThreeKinds DEF Reaching
<1>2. CASE Open(o)
  <2>1. deaf' = deaf /\ ~m.enabled  BY <1>2 DEF Open
  <2>2. SameReach
    BY <1>1, <1>2, <2>1 DEF Open, OpenAutoRecord, SameReach, Starts, NewGeneration, Recordings
  <2>3. at[o] # "restart" /\ at[o] \notin AtClosing  BY <1>2 DEF Open, FreeButton, AtClosing
  <2>4. UNCHANGED at \/ Goto(o, "setting")  BY <1>2 DEF Open, OpenAutoRecord
  <2>5. BeingClosed => BeingClosed'
    BY <1>1, <2>3, <2>4, MemoryIs DEF BeingClosed, Goto
  <2>6. ~Seeing  BY <2>1 DEF Seeing
  <2>7. QED  BY <2>2, <2>5, <2>6 DEF Reaching, SameReach
<1>3. CASE SettingAnswered(o) \/ Modal(o)
  <2>1. at[o] \in {"setting", "modal"} /\ deaf' = deaf
    BY <1>3 DEF SettingAnswered, Modal, At, SameWish
  <2>2. m' \in {m, NewToken(m, o), Finish(m, o), CallEnds(m, o), [CallEnds(m, o) EXCEPT !.opening = FALSE]}
    BY <1>3 DEF SettingAnswered, Modal, DoOpen
  <2>3. SameReach /\ m.current \ {o} \subseteq m'.current
    <3>1. CASE m' = m  BY <2>1, <3>1 DEF SameReach
    <3>2. CASE m' = NewToken(m, o)
      BY <1>1, <2>1, <3>2 DEF SameReach, NewToken, CancelToken, Recordings
    <3>3. CASE m' = CallEnds(m, o) \/ m' = [CallEnds(m, o) EXCEPT !.opening = FALSE]
      <4> DEFINE k == CallEnds(m, o)
      <4>1. SameBut(m, k, {"token", "current", "valid"}) /\ k.current = m.current \ {o}
        BY <1>1, HelpersEnd
      <4>2. m' = k \/ m' = [k EXCEPT !.opening = FALSE]  BY <3>3
      <4> HIDE DEF k
      <4>3. SameBut(k, m', {"opening"})  BY <4>1, <4>2 DEF SameBut, Fields, Recordings
      <4>4. QED  BY <2>1, <4>1, <4>3 DEF SameReach, SameBut, Fields
    <3>4. QED  BY <2>2, <3>1, <3>2, <3>3 DEF Finish
  <2>4. \E p : Goto(o, p)  BY <1>3 DEF SettingAnswered, Modal, DoOpen, FinishedCall
  <2>5. at[o] # "restart" /\ at[o] \notin AtClosing  BY <2>1 DEF AtClosing
  <2>6. QED  BY <1>1, <2>3, <2>4, <2>5, ReachRests
<1>4. CASE Sync(o) \/ SyncCancelled(o)
  <2>1. at[o] = "sync" /\ deaf' = deaf  BY <1>4 DEF Sync, SyncCancelled, At, SameWish
  <2>2. CASE OpenFails(m, o)  BY <1>1, <2>1, <2>2, OpenFailsReaches
  <2>3. CASE Goto(o, "start") /\ UNCHANGED <<m, timer>>
    <3>1. SameReach /\ m.current \ {o} \subseteq m'.current  BY <2>1, <2>3 DEF SameReach
    <3>2. at[o] # "restart" /\ at[o] \notin AtClosing  BY <2>1 DEF AtClosing
    <3>3. QED  BY <1>1, <2>3, <3>1, <3>2, ReachRests
  <2>4. QED  BY <1>4, <2>2, <2>3 DEF Sync, SyncCancelled
<1>5. CASE Start(o)
  <2>1. at[o] = "start" /\ (deaf' = FALSE \/ deaf' = deaf)  BY <1>5 DEF Start, At
  <2>2. CASE OpenFails(m, o) /\ UNCHANGED deaf  BY <1>1, <2>1, <2>2, OpenFailsReaches
  <2>3. CASE OpenFails(Registered(m), o)  BY <1>1, <2>1, <2>3, OpenFailsReaches
  <2>4. CASE m' = ClearRetry(Finish(TurnedOn(m), o))
    <3>1. m'.running /\ m'.handler /\ m'.enabled
      BY <1>1, <2>4 DEF ClearRetry, Finish, CallEnds, TurnedOn, Registered, Recordings
    <3>2. QED  BY <1>1, <2>1, <3>1, ReachAnew
  <2>5. QED  BY <1>5, <2>2, <2>3, <2>4 DEF Start
<1>6. CASE Undo(o)
  <2>1. m' = Finish(ResetState(m), o) /\ deaf' = deaf  BY <1>6 DEF Undo, SameWish
  <2>2. ~m'.listening /\ ~m'.fallback  BY <1>1, <2>1 DEF Finish, CallEnds, ResetState, Stopped, Recordings
  <2>3. QED  BY <1>1, <2>1, <2>2, ReachAnew
<1>7. CASE OpenTimeout(o)
  <2>1. SameReach /\ m'.current = m.current /\ UNCHANGED at
    BY <1>1, <1>7 DEF OpenTimeout, SameWish, SameReach, CancelToken, Recordings
  <2>2. QED  BY <2>1, ReachStays
<1>8. QED  BY <1>2, <1>3, <1>4, <1>5, <1>6, <1>7

LEMMA TryRestoreReaches ==
  ASSUME RecorderCore, Reaching, NEW n, TryRestore(n), SameBut(m, n, {"alive", "enabled", "retry"}),
         m.enabled => n.enabled, UNCHANGED deaf
  PROVE  Reaching'
<1>1. /\ n \in Recordings /\ n.current = m.current /\ n.listening = m.listening
      /\ n.handler = m.handler /\ n.running = m.running /\ n.fallback = m.fallback
  BY DEF SameBut, Fields
<1>2. deaf' \in BOOLEAN  BY DEF Reaching
<1>3. ASSUME Restorable(n), NEW r \in Restores, Goto(r, "restart"),
             m' = [Starts(NewToken(n, r), r) EXCEPT !.restoring = TRUE, !.handler = FALSE]
      PROVE  Reaching'
  <2>1. m'.listening = n.listening /\ m'.running = n.running /\ m'.enabled = n.enabled /\ r \in m'.current
    BY <1>1, <1>3 DEF Starts, NewToken, CancelToken, Recordings
  <2>2. n.enabled /\ at'[r] = "restart"  BY <1>3, ThreeKinds, MemoryIs DEF Restorable, Goto
  <2>3. Seeing' /\ m'.enabled  BY <2>1, <2>2 DEF Seeing
  <2>4. m'.listening => m'.running  BY <1>1, <2>1 DEF Reaching
  <2>5. QED  BY <1>2, <2>3, <2>4, ReachAnew
<1>4. ASSUME UNCHANGED at, m' = n PROVE Reaching'
  <2>1. BeingClosed => BeingClosed'  BY <1>4 DEF BeingClosed
  <2>2. Seeing => Seeing'  BY <1>1, <1>4 DEF Seeing
  <2>3. QED  BY <1>1, <1>4, <2>1, <2>2 DEF Reaching
<1>5. ASSUME m' = ResetState(ClearRetry(n)) PROVE Reaching'
  <2>1. ~m'.listening /\ ~m'.fallback  BY <1>1, <1>5 DEF ResetState, Stopped, ClearRetry, Recordings
  <2>2. QED  BY <1>2, <2>1, ReachAnew
<1>6. QED  BY <1>3, <1>4, <1>5 DEF TryRestore

LEMMA ShownReaches ==
  ASSUME RecorderCore, Reaching, ShowApp \/ Retry \/ Launch \/ \E o \in Opens : OpenQuery(o)
  PROVE  Reaching'
<1>1. UNCHANGED deaf  BY DEF ShowApp, Retry, Launch, OpenQuery, SameWish
<1>2. CASE \E n : TryRestore(n) /\ SameBut(m, n, {"alive", "enabled", "retry"}) /\ (m.enabled => n.enabled)
  BY <1>1, <1>2, TryRestoreReaches
<1>3. CASE ShowApp \/ Retry \/ Launch
  <2>1. CASE ShowApp  BY <1>2, <2>1, MemoryIs DEF ShowApp, SameBut
  <2>2. CASE Retry
    <3> DEFINE k == ClearRetry(m)
    <3>1. TryRestore(k)  BY <2>2 DEF Retry
    <3>2. SameBut(m, k, {"alive", "enabled", "retry"}) /\ k.enabled = m.enabled
      BY MemoryIs DEF ClearRetry, SameBut, Fields, Recordings
    <3>3. QED  BY <1>2, <3>1, <3>2
  <2>3. CASE Launch
    <3> DEFINE k == [m EXCEPT !.alive = TRUE]
    <3>1. TryRestore(k)  BY <2>3 DEF Launch
    <3>2. SameBut(m, k, {"alive", "enabled", "retry"}) /\ k.enabled = m.enabled
      BY MemoryIs DEF SameBut, Fields, Recordings
    <3>3. QED  BY <1>2, <3>1, <3>2
  <2>4. QED  BY <1>3, <2>1, <2>2, <2>3
<1>4. CASE \E o \in Opens : OpenQuery(o)
  <2>1. CASE TryRestore([m EXCEPT !.enabled = TRUE])
    <3> DEFINE k == [m EXCEPT !.enabled = TRUE]
    <3>1. SameBut(m, k, {"alive", "enabled", "retry"}) /\ k.enabled
      BY MemoryIs DEF SameBut, Fields, Recordings
    <3>2. QED  BY <1>2, <2>1, <3>1
  <2>2. CASE m' = ResetState(m)
    <3>1. ~m'.listening /\ ~m'.fallback  BY <2>2, MemoryIs DEF ResetState, Stopped, Recordings
    <3>2. QED  BY <1>1, <3>1, ReachAnew DEF Reaching
  <2>3. QED  BY <1>4, <2>1, <2>2 DEF OpenQuery
<1>5. QED  BY <1>3, <1>4

\* A start that is seen to, one that fails, and what an end of it leaves.
LEMMA RestartReaches ==
  ASSUME RecorderCore, Reaching, NEW r \in Restores, Restart(r) PROVE Reaching'
<1>1. m \in Recordings /\ deaf \in BOOLEAN /\ at[r] = "restart" /\ Goto(r, "report") /\ r \in Calls
  BY MemoryIs, ThreeKinds DEF Reaching, Restart, At
<1>2. at'[r] = "report" /\ \A x \in Calls : x # r => at'[x] = at[x]  BY <1>1, MemoryIs DEF Goto
<1>3. BeingClosed => BeingClosed'  BY <1>1, <1>2 DEF BeingClosed, AtClosing
<1>4. CASE m' = Restarted(r) /\ deaf' = (deaf /\ ~m'.handler)
  <2>1. CASE m' = Listens(m)
    <3>1. m'.running /\ m'.handler /\ m'.enabled  BY <1>1, <2>1, HelpersListen
    <3>2. QED  BY <1>1, <1>4, <3>1, ReachAnew
  <2>2. CASE m' = [m EXCEPT !.running = TRUE] /\ ~(r \in m.current /\ m.enabled)
    <3>1. /\ m'.running /\ m'.listening = m.listening /\ m'.handler = m.handler /\ m'.fallback = m.fallback
          /\ m'.current = m.current /\ m'.enabled = m.enabled
      BY <1>1, <2>2 DEF Recordings
    <3>2. Seeing => Seeing'  BY <1>2, <2>2, <3>1, ThreeKinds DEF Seeing
    <3>3. deaf' \in BOOLEAN /\ (deaf => deaf' \/ m'.handler)  BY <1>1, <1>4, Zenon
    <3>4. QED  BY <1>3, <3>1, <3>2, <3>3 DEF Reaching
  <2>3. QED  BY <1>4, <2>1, <2>2 DEF Restarted
<1>5. CASE m' = m /\ deaf' = (deaf \/ (m.listening /\ ~m.handler /\ ~m.fallback))
  <2>1. deaf' \in BOOLEAN  BY <1>5
  <2>2. m.listening => m.handler \/ m.fallback \/ deaf'  BY <1>5, Zenon
  <2>3. QED  BY <1>5, <2>1, <2>2 DEF Reaching
<1>6. QED  BY <1>4, <1>5 DEF Restart

\* A restore that ends: it listens, was stopped, or leaves what it found.
LEMMA EndReaches ==
  ASSUME RecorderCore, Reaching, NEW r \in Restores, NEW n \in Recordings, RestoreEnds(n, r), deaf' \in BOOLEAN,
         \/ ~n.listening /\ ~n.fallback
         \/ n.running /\ n.handler /\ n.enabled
         \/ n \in {m, ClearRetry(m)} /\ deaf' = deaf /\ at[r] \notin AtClosing \cup {"restart"}
  PROVE  Reaching'
<1>1. m' = [CallEnds(n, r) EXCEPT !.restoring = FALSE] /\ Goto(r, "idle") /\ r \in Calls
  BY ThreeKinds DEF RestoreEnds
<1>2. /\ m'.listening = n.listening /\ m'.running = n.running /\ m'.handler = n.handler
      /\ m'.enabled = n.enabled /\ m'.fallback = n.fallback /\ m'.current = n.current \ {r}
  BY <1>1 DEF CallEnds, Recordings
<1>3. CASE (~n.listening /\ ~n.fallback) \/ (n.running /\ n.handler /\ n.enabled)  BY <1>2, <1>3, ReachAnew
<1>4. CASE n \in {m, ClearRetry(m)} /\ deaf' = deaf /\ at[r] \notin AtClosing \cup {"restart"}
  <2>1. /\ n.listening = m.listening /\ n.running = m.running /\ n.handler = m.handler
        /\ n.enabled = m.enabled /\ n.fallback = m.fallback /\ n.current = m.current
    BY <1>4, MemoryIs DEF ClearRetry, Recordings
  <2>2. SameReach /\ m.current \ {r} \subseteq m'.current  BY <1>2, <1>4, <2>1 DEF SameReach
  <2>3. QED  BY <1>1, <1>4, <2>2, ReachRests
<1>5. QED  BY <1>3, <1>4

LEMMA CloseBeginsReaches ==
  ASSUME RecorderCore, Reaching, NEW c \in Calls, CloseBegins(m, c), UNCHANGED deaf PROVE Reaching'
<1> DEFINE k == [NewGeneration(CancelToken(ClearRetry(m))) EXCEPT !.token = NoCall]
<1>1. /\ k \in Recordings /\ k.listening = m.listening /\ k.running = m.running
      /\ k.fallback = m.fallback /\ k.enabled = m.enabled
  BY MemoryIs, ThreeKinds DEF NewGeneration, CancelToken, ClearRetry, Recordings
<1>2. deaf' \in BOOLEAN  BY DEF Reaching
<1>3. CASE m' = k /\ Goto(c, "close report")
  <2> HIDE DEF k
  <2>1. at'[c] = "close report"  BY <1>3, MemoryIs DEF Goto
  <2>2. BeingClosed'  BY <2>1 DEF BeingClosed, AtClosing
  <2>3. (m'.listening => m'.running) /\ (m'.fallback => m'.enabled)  BY <1>1, <1>3 DEF Reaching
  <2>4. QED  BY <1>2, <2>2, <2>3, ReachAnew
<1>4. CASE m' = [CallEnds(ResetState(k), c) EXCEPT !.restoring = IF c \in Restores THEN FALSE ELSE @]
  <2> HIDE DEF k
  <2>1. ~m'.listening /\ ~m'.fallback  BY <1>1, <1>4 DEF CallEnds, ResetState, Stopped, Recordings
  <2>2. QED  BY <1>2, <2>1, ReachAnew
<1>5. QED  BY <1>3, <1>4 DEF CloseBegins
\* What is stopped, for now or for good.
LEMMA StoppedIs ==
  ASSUME NEW n \in Recordings
  PROVE  \A k \in {ScheduleRetry(ResetKeeping(n)), ResetKeeping(n), ResetState(n), ResetState(ClearRetry(n))} :
           k \in Recordings /\ ~k.listening /\ ~k.fallback
<1>1. /\ ResetKeeping(n) \in Recordings /\ ~ResetKeeping(n).listening /\ ~ResetKeeping(n).fallback
      /\ ResetState(n) \in Recordings /\ ~ResetState(n).listening /\ ~ResetState(n).fallback
  BY DEF ResetKeeping, ResetState, Stopped, Recordings
<1>2. LET k == ScheduleRetry(ResetKeeping(n)) IN k \in Recordings /\ ~k.listening /\ ~k.fallback
  BY DEF ScheduleRetry, ResetKeeping, Stopped, Recordings
<1>3. LET k == ResetState(ClearRetry(n)) IN k \in Recordings /\ ~k.listening /\ ~k.fallback
  BY DEF ClearRetry, ResetState, Stopped, Recordings
<1>4. QED  BY <1>1, <1>2, <1>3

LEMMA RestoringReaches ==
  ASSUME RecorderCore, Reaching, NEW r \in Restores,
         \/ RestoreReport(r) \/ RestoreVip(r) \/ RestoreConfig(r) \/ RestoreCancelled(r)
         \/ RestartAgain(r) \/ Watchdog(r)
  PROVE  Reaching'
<1>1. m \in Recordings /\ deaf \in BOOLEAN /\ r \in Calls  BY MemoryIs, ThreeKinds DEF Reaching
<1>2. ASSUME NEW p, Goto(r, p), UNCHANGED <<m, deaf>>, at[r] \notin AtClosing \cup {"restart"} PROVE Reaching'
  <2>1. SameReach /\ m.current \ {r} \subseteq m'.current  BY <1>2 DEF SameReach
  <2>2. QED  BY <1>1, <1>2, <2>1, ReachRests
<1>3. ASSUME NEW n \in {ScheduleRetry(ResetKeeping(m)), ResetState(m), ResetState(ClearRetry(m))},
             RestoreEnds(n, r), UNCHANGED deaf
      PROVE  Reaching'
  <2>1. n \in Recordings /\ ~n.listening /\ ~n.fallback  BY <1>1, <1>3, StoppedIs
  <2>2. QED  BY <1>1, <1>3, <2>1, EndReaches
<1>4. CASE RestoreReport(r)
  <2>1. at[r] = "report" /\ Goto(r, "vip") /\ UNCHANGED deaf  BY <1>4 DEF RestoreReport, At, SameWish
  <2>2. CASE m' = m  BY <1>2, <2>1, <2>2 DEF AtClosing
  <2>3. CASE m' = ScheduleRetry(ResetKeeping(m))
    <3>1. ~m'.listening /\ ~m'.fallback  BY <1>1, <2>3, StoppedIs
    <3>2. QED  BY <1>1, <2>1, <3>1, ReachAnew
  <2>4. QED  BY <1>4, <2>2, <2>3 DEF RestoreReport
<1>5. CASE RestoreVip(r)
  <2>1. at[r] = "vip" /\ UNCHANGED deaf  BY <1>5 DEF RestoreVip, At, SameWish
  <2>2. CASE RestoreEnds(ScheduleRetry(ResetKeeping(m)), r) \/ RestoreEnds(ResetState(m), r)
    BY <1>3, <2>1, <2>2
  <2>3. CASE CloseBegins(m, r)  BY <1>1, <2>1, <2>3, CloseBeginsReaches
  <2>4. CASE Goto(r, "config") /\ UNCHANGED m  BY <1>2, <2>1, <2>4 DEF AtClosing
  <2>5. QED  BY <1>5, <2>2, <2>3, <2>4 DEF RestoreVip
<1>6. CASE RestoreConfig(r) \/ RestoreCancelled(r)
  <2>1. at[r] = "config" /\ UNCHANGED deaf  BY <1>6 DEF RestoreConfig, RestoreCancelled, At, SameWish
  <2>2. CASE \/ RestoreEnds(ScheduleRetry(ResetKeeping(m)), r) \/ RestoreEnds(ResetState(m), r)
             \/ RestoreEnds(ResetState(ClearRetry(m)), r)
    BY <1>3, <2>1, <2>2
  <2>3. CASE RestoreEnds(ClearRetry(m), r)
    <3>1. ClearRetry(m) \in Recordings  BY <1>1, HelpersStop DEF SameBut
    <3>2. at[r] \notin AtClosing \cup {"restart"}  BY <2>1 DEF AtClosing
    <3>3. QED  BY <1>1, <2>1, <2>3, <3>1, <3>2, EndReaches
  <2>4. CASE Goto(r, "restart again") /\ UNCHANGED m  BY <1>2, <2>1, <2>4 DEF AtClosing
  <2>5. QED  BY <1>6, <2>2, <2>3, <2>4 DEF RestoreConfig, RestoreCancelled
<1>7. CASE RestartAgain(r)
  <2>1. at[r] = "restart again"  BY <1>7 DEF RestartAgain, At
  <2>2. PICK n \in {Restarted(r), m} :
          /\ RestoreEnds(IF n.listening THEN ClearRetry(n) ELSE ScheduleRetry(ResetKeeping(n)), r)
          /\ deaf' = (deaf /\ ~n.handler)
    BY <1>7 DEF RestartAgain
  <2>3. deaf' \in BOOLEAN  BY <2>2
  <2>4. /\ n \in Recordings
        /\ \/ n.running /\ n.handler /\ n.enabled
           \/ /\ n.listening = m.listening /\ n.handler = m.handler /\ n.fallback = m.fallback
              /\ n.enabled = m.enabled /\ n.current = m.current /\ (m.running => n.running)
    <3>1. CASE n = m  BY <1>1, <3>1
    <3>2. CASE n = Listens(m)  BY <1>1, <3>2, HelpersListen DEF SameBut
    <3>3. CASE n = [m EXCEPT !.running = TRUE]  BY <1>1, <3>3 DEF Recordings
    <3>4. QED  BY <3>1, <3>2, <3>3 DEF Restarted
  <2>5. CASE ~n.listening
    <3> DEFINE k == ScheduleRetry(ResetKeeping(n))
    <3>1. RestoreEnds(k, r)  BY <2>2, <2>5
    <3>2. k \in Recordings /\ ~k.listening /\ ~k.fallback  BY <2>4, StoppedIs
    <3> HIDE DEF k
    <3>3. QED  BY <2>3, <3>1, <3>2, EndReaches
  <2>6. CASE n.listening
    <3> DEFINE k == ClearRetry(n)
    <3>1. m' = [CallEnds(k, r) EXCEPT !.restoring = FALSE] /\ Goto(r, "idle")  BY <2>2, <2>6 DEF RestoreEnds
    <3>2. /\ m'.listening = n.listening /\ m'.running = n.running /\ m'.handler = n.handler
          /\ m'.enabled = n.enabled /\ m'.fallback = n.fallback /\ m'.current = n.current \ {r}
      BY <2>4, <3>1 DEF ClearRetry, CallEnds, Recordings
    <3>3. CASE n.running /\ n.handler /\ n.enabled  BY <2>3, <3>2, <3>3, ReachAnew
    <3>4. CASE /\ n.listening = m.listening /\ n.handler = m.handler /\ n.fallback = m.fallback
               /\ n.enabled = m.enabled /\ n.current = m.current /\ (m.running => n.running)
      <4>1. at'[r] = "idle" /\ \A x \in Calls : x # r => at'[x] = at[x]  BY <1>1, <3>1, MemoryIs DEF Goto
      <4>2. BeingClosed => BeingClosed'  BY <2>1, <4>1 DEF BeingClosed, AtClosing
      <4>3. Seeing => Seeing'  BY <2>1, <3>2, <3>4, <4>1, ThreeKinds DEF Seeing
      <4>4. deaf => deaf' \/ m'.handler  BY <2>2, <3>2, Zenon
      <4>5. QED  BY <2>3, <3>2, <3>4, <4>2, <4>3, <4>4 DEF Reaching
    <3>5. QED  BY <2>4, <3>3, <3>4
  <2>7. QED  BY <2>5, <2>6
<1>8. CASE Watchdog(r)
  <2>1. SameReach /\ m'.current = m.current /\ UNCHANGED at
    BY <1>1, <1>8 DEF Watchdog, SameWish, SameReach, ScheduleRetry, CancelToken, Recordings
  <2>2. QED  BY <2>1, ReachStays
<1>9. QED  BY <1>4, <1>5, <1>6, <1>7, <1>8

LEMMA ClosingReaches ==
  ASSUME RecorderCore, Reaching, NEW c \in Calls, (c \in Closes /\ Close(c)) \/ CloseReport(c) \/ CloseSync(c)
  PROVE  Reaching'
<1>1. m \in Recordings /\ deaf \in BOOLEAN  BY MemoryIs DEF Reaching
<1>2. CASE Close(c)
  <2>1. CloseBegins(m, c) /\ UNCHANGED deaf  BY <1>2 DEF Close
  <2>2. QED  BY <2>1, CloseBeginsReaches
<1>3. CASE CloseReport(c)
  <2>1. at[c] = "close report" /\ Goto(c, "close sync") /\ UNCHANGED deaf  BY <1>3 DEF CloseReport, At, SameWish
  <2>2. CASE m' = m
    <3>1. SameReach /\ m.current \ {c} \subseteq m'.current  BY <2>1, <2>2 DEF SameReach
    <3>2. QED  BY <2>1, <3>1, ReachRests DEF AtClosing
  <2>3. CASE m' = ScheduleRetry(ResetKeeping(m))
    <3>1. ~m'.listening /\ ~m'.fallback  BY <1>1, <2>3, StoppedIs
    <3>2. QED  BY <1>1, <2>1, <3>1, ReachAnew
  <2>4. QED  BY <1>3, <2>2, <2>3 DEF CloseReport
<1>4. CASE CloseSync(c)
  <2>1. UNCHANGED deaf  BY <1>4 DEF CloseSync, SameWish
  <2>2. ResetState(m) \in Recordings /\ ~ResetState(m).listening /\ ~ResetState(m).fallback  BY <1>1, StoppedIs
  <2>3. CASE c \in Restores /\ RestoreEnds(ResetState(m), c)  BY <1>1, <2>1, <2>2, <2>3, EndReaches
  <2>4. CASE m' = ResetState(m)  BY <1>1, <2>1, <2>2, <2>4, ReachAnew
  <2>5. QED  BY <1>4, <2>3, <2>4 DEF CloseSync
<1>5. QED  BY <1>2, <1>3, <1>4

\* The poll starts again, or the process is killed.
LEMMA OtherwiseReaches ==
  ASSUME RecorderCore, Reaching, FallbackRestarts \/ KillRecorder PROVE Reaching'
<1>1. m \in Recordings /\ deaf \in BOOLEAN  BY MemoryIs DEF Reaching
<1>2. CASE FallbackRestarts
  <2>1. m' = [m EXCEPT !.fallback = m.enabled] /\ deaf' = (deaf /\ ~m.enabled) /\ UNCHANGED at
    BY <1>2 DEF FallbackRestarts
  <2>2. /\ m'.listening = m.listening /\ m'.running = m.running /\ m'.handler = m.handler
        /\ m'.enabled = m.enabled /\ m'.fallback = m.enabled /\ m'.current = m.current
    BY <1>1, <2>1 DEF Recordings
  <2>3. deaf' \in BOOLEAN /\ (deaf => deaf' \/ m'.fallback)  BY <1>1, <2>1, <2>2, Zenon
  <2>6. m.fallback => m'.fallback  BY <2>2 DEF Reaching
  <2>4. (BeingClosed => BeingClosed') /\ (Seeing => Seeing')  BY <2>1, <2>2 DEF BeingClosed, Seeing
  <2>5. QED  BY <2>2, <2>3, <2>4, <2>6 DEF Reaching
<1>3. CASE KillRecorder
  <2>1. ~m'.listening /\ ~m'.fallback /\ deaf' \in BOOLEAN  BY <1>1, <1>3 DEF KillRecorder, Fresh, Recordings
  <2>2. QED  BY <2>1, ReachAnew
<1>4. QED  BY <1>2, <1>3

LEMMA ReachingStep == RecorderCore /\ Reaching /\ [RecorderNext]_recorderVars => Reaching'
<1> SUFFICES ASSUME RecorderCore, Reaching, [RecorderNext]_recorderVars PROVE Reaching'  OBVIOUS
<1>1. CASE UNCHANGED recorderVars
  BY <1>1 DEF recorderVars, Reaching, Seeing, BeingClosed
<1>2. CASE \E o \in Opens : Open(o)  BY <1>2, OpeningReaches
<1>3. CASE \E c \in Closes : Close(c)  BY <1>3, ClosingReaches DEF Calls
<1>4. ASSUME NEW c \in Calls, Proceed(c) PROVE Reaching'
  <2>1. CASE c \in Opens /\ (SettingAnswered(c) \/ Modal(c) \/ Sync(c) \/ SyncCancelled(c) \/ Start(c)
                             \/ Undo(c) \/ OpenTimeout(c))
    BY <2>1, OpeningReaches
  <2>2. CASE c \in Opens /\ OpenQuery(c)  BY <2>2, ShownReaches
  <2>3. CASE c \in Restores /\ Restart(c)  BY <2>3, RestartReaches
  <2>4. CASE c \in Restores /\ (RestoreReport(c) \/ RestoreVip(c) \/ RestoreConfig(c) \/ RestoreCancelled(c)
                                \/ RestartAgain(c) \/ Watchdog(c))
    BY <2>4, RestoringReaches
  <2>5. CASE CloseReport(c) \/ CloseSync(c)  BY <2>5, ClosingReaches
  <2>6. QED  BY <1>4, <2>1, <2>2, <2>3, <2>4, <2>5 DEF Proceed
<1>5. CASE ShowApp \/ Retry \/ Launch  BY <1>5, ShownReaches
<1>6. CASE FallbackRestarts \/ KillRecorder  BY <1>6, OtherwiseReaches
<1>7. QED  BY <1>1, <1>2, <1>3, <1>4, <1>5, <1>6 DEF RecorderNext

-----------------------------------------------------------------------------
LEMMA RecorderInvInit == RecorderInit => RecorderInv
<1>1. RecorderInit => deaf \in BOOLEAN /\ ~m.listening /\ ~m.fallback  BY DEF RecorderInit, Fresh
<1>2. QED  BY <1>1, RecorderCoreInit DEF RecorderInv, Reaching

LEMMA RecorderInvStep == RecorderInv /\ [RecorderNext]_recorderVars => RecorderInv'
BY RecorderCoreStep, ReachingStep DEF RecorderInv

LEMMA RecorderInvImplies ==
  RecorderInv => RecorderTypeOK /\ NoLocationLeftOn /\ ClosedStaysOff /\ NeverSilent
<1>1. RecorderInv => RecorderTypeOK
  BY DEF RecorderInv, RecorderCore, Reaching, RecorderTypes, Recordings, RecorderTypeOK
<1>2. SUFFICES ASSUME RecorderInv, Quiet PROVE NoLocationLeftOn /\ ClosedStaysOff /\ NeverSilent
  BY <1>1 DEF NoLocationLeftOn, ClosedStaysOff, NeverSilent
<1>3. m.alive /\ ~BeingClosed /\ ~BeingRestored /\ ~Seeing /\ \A c \in Calls : at[c] \notin AtStopping
  BY <1>2, ThreeKinds DEF Quiet, BeingClosed, BeingRestored, Seeing, AtStopping, AtClosing
<1>4. NoLocationLeftOn /\ ClosedStaysOff
  BY <1>2, <1>3 DEF RecorderInv, RecorderCore, StopsInTheEnd, ClosedIsOff, NoLocationLeftOn, ClosedStaysOff
<1>5. NeverSilent
  <2>1. SUFFICES ASSUME ~crossed, ~(deaf /\ m.listening), m.enabled
                 PROVE  (m.running /\ m.handler) \/ m.fallback \/ m.retry
    BY DEF NeverSilent
  <2>2. m.listening \/ m.retry  BY <1>2, <1>3, <2>1 DEF RecorderInv, RecorderCore, OnIsHeard
  <2>3. m.listening => m.running /\ (m.handler \/ m.fallback)
    BY <1>2, <1>3, <2>1 DEF RecorderInv, Reaching
  <2>4. QED  BY <2>2, <2>3
<1>6. QED  BY <1>4, <1>5

-----------------------------------------------------------------------------
(***************************************************************************)
(* The editors                                                             *)
(***************************************************************************)
\* Places have ranks, one each.
Indices(P) == \E n \in Nat : P \in SUBSET (1..n)

LEMMA RankIs ==
  ASSUME NEW P, Indices(P)
  PROVE  /\ IsFiniteSet(P) /\ Cardinality(P) \in Nat
         /\ \A i \in P : Rank(P, i) \in 1..Cardinality(P)
         /\ \A i, j \in P : Rank(P, i) = Rank(P, j) => i = j
         /\ \A k \in 1..Cardinality(P) : \E i \in P : Rank(P, i) = k
<1>0. PICK n \in Nat : P \in SUBSET (1..n)  BY DEF Indices
<1>1. IsFiniteSet(1..n)
  <2>1. 1 \in Int /\ n \in Int  OBVIOUS
  <2>2. QED  BY <2>1, FS_Interval
<1>2. IsFiniteSet(P) /\ Cardinality(P) \in Nat  BY <1>0, <1>1, FS_Subset, FS_CardinalityType
<1> DEFINE Upto(i) == {j \in P : j <= i}
<1>3. ASSUME NEW i \in P
      PROVE  /\ IsFiniteSet(Upto(i)) /\ Rank(P, i) = Cardinality(Upto(i)) /\ Rank(P, i) \in Nat
             /\ Rank(P, i) <= Cardinality(P) /\ i \in Upto(i) /\ Rank(P, i) # 0
  <2>1. Upto(i) \in SUBSET P /\ i \in Upto(i)
    <3>1. i \in 1..n  BY <1>0
    <3>2. i <= i  BY <3>1
    <3>3. QED  BY <3>2
  <2>2. IsFiniteSet(Upto(i)) /\ Cardinality(Upto(i)) <= Cardinality(P)  BY <1>2, <2>1, FS_Subset
  <2>3. Cardinality(Upto(i)) \in Nat /\ Cardinality(Upto(i)) # 0  BY <2>1, <2>2, FS_CardinalityType, FS_EmptySet
  <2>4. QED  BY <2>1, <2>2, <2>3 DEF Rank
<1>4. \A i \in P : Rank(P, i) \in 1..Cardinality(P)
  <2>1. TAKE i \in P
  <2>2. Rank(P, i) \in Nat /\ Rank(P, i) <= Cardinality(P) /\ Rank(P, i) # 0  BY <1>3
  <2>3. QED  BY <1>2, <2>2
<1>5. ASSUME NEW i \in P, NEW j \in P, i < j PROVE Rank(P, i) # Rank(P, j)
  <2>1. i \in 1..n /\ j \in 1..n  BY <1>0
  <2>2. Upto(i) \in SUBSET Upto(j) /\ j \notin Upto(i)
    <3>1. \A k \in P : k <= i => k <= j  BY <1>5, <2>1
    <3>2. ~(j <= i)  BY <1>5, <2>1
    <3>3. QED  BY <3>1, <3>2
  <2>3. j \in Upto(j) /\ IsFiniteSet(Upto(j))  BY <1>3
  <2>4. Cardinality(Upto(i)) # Cardinality(Upto(j))
    <3>1. Cardinality(Upto(j)) = Cardinality(Upto(i)) => Upto(j) = Upto(i)  BY <2>2, <2>3, FS_Subset
    <3>2. QED  BY <2>2, <2>3, <3>1
  <2>5. QED  BY <1>3, <2>4
<1>6. \A i, j \in P : Rank(P, i) = Rank(P, j) => i = j
  <2>1. \A i, j \in P : i < j \/ j < i \/ i = j  BY <1>0
  <2>2. QED  BY <1>5, <2>1
<1>7. \A k \in 1..Cardinality(P) : \E i \in P : Rank(P, i) = k
  <2> DEFINE N == 1..Cardinality(P)
             ranks == [i \in P |-> Rank(P, i)]
  <2>1. IsFiniteSet(N) /\ Cardinality(N) = Cardinality(P)
    <3>1. 1 \in Int /\ Cardinality(P) \in Int  BY <1>2
    <3>2. IsFiniteSet(N) /\ Cardinality(N) = IF 1 > Cardinality(P) THEN 0 ELSE Cardinality(P) - 1 + 1
      BY <3>1, FS_Interval
    <3>3. QED  BY <1>2, <3>2
  <2>2. ranks \in Injection(P, N)  BY <1>4, <1>6 DEF Injection, IsInjective
  <2>3. ranks \in Surjection(P, N)  BY <1>2, <2>1, <2>2, FS_Injection
  <2>4. QED  BY <2>3 DEF Surjection
<1>8. QED  BY <1>2, <1>4, <1>6, <1>7

\* What stands at some places of a sequence, in order.
LEMMA PartAt ==
  ASSUME NEW P, Indices(P), NEW f
  PROVE  /\ Cardinality(P) \in Nat /\ Len(Part(f, P)) = Cardinality(P)
         /\ \A i \in P : Rank(P, i) \in 1..Cardinality(P) /\ Part(f, P)[Rank(P, i)] = f[i]
         /\ \A k \in 1..Cardinality(P) : \E i \in P : k = Rank(P, i) /\ Part(f, P)[k] = f[i]
         /\ \A i, j \in P : Rank(P, i) = Rank(P, j) => i = j
<1> DEFINE spot(k) == CHOOSE i \in P : Rank(P, i) = k
<1>1. /\ Cardinality(P) \in Nat /\ \A i \in P : Rank(P, i) \in 1..Cardinality(P)
      /\ \A i, j \in P : Rank(P, i) = Rank(P, j) => i = j
      /\ \A k \in 1..Cardinality(P) : \E i \in P : Rank(P, i) = k
  BY RankIs
<1>2. \A k \in 1..Cardinality(P) : spot(k) \in P /\ Rank(P, spot(k)) = k  BY <1>1
<1>3. Part(f, P) = [k \in 1..Cardinality(P) |-> f[spot(k)]]  BY DEF Part
<1> HIDE DEF spot
<1>4. Len(Part(f, P)) = Cardinality(P)  BY <1>1, <1>3
<1>5. \A k \in 1..Cardinality(P) : Part(f, P)[k] = f[spot(k)]  BY <1>3
<1>6. \A i \in P : spot(Rank(P, i)) = i  BY <1>1, <1>2
<1>7. QED  BY <1>1, <1>2, <1>4, <1>5, <1>6

LEMMA PartIs ==
  ASSUME NEW P, Indices(P), NEW T, NEW f, \A i \in P : f[i] \in T
  PROVE  Part(f, P) \in Seq(T)
<1>1. /\ Cardinality(P) \in Nat
      /\ \A k \in 1..Cardinality(P) : \E i \in P : k = Rank(P, i) /\ Part(f, P)[k] = f[i]
  BY PartAt
<1>2. \A k \in 1..Cardinality(P) : Part(f, P)[k] \in T  BY <1>1
<1>3. Part(f, P) \in [1..Cardinality(P) -> T]
  <2>1. Part(f, P) = [k \in 1..Cardinality(P) |-> Part(f, P)[k]]  BY DEF Part
  <2>2. QED  BY <1>2, <2>1
<1>4. QED  BY <1>1, <1>3

Pictures == [pic : Pics, kind : {"new", "kept", "deleted"}, id : Nat]
Outcomes == {"none", "todo", "ok", "failed"}
EditorStates ==
  [of : {"entry", "memory", "cover"}, open : BOOLEAN, shown : BOOLEAN, saved : BOOLEAN, imgs : Seq(Pictures),
   late : {<<>>} \cup {<<imgs>> : imgs \in Seq(Pictures)}, picker : BOOLEAN, submitting : BOOLEAN,
   uploading : BOOLEAN, upToken : Subs \cup {NoSub}, saveToken : Subs \cup {NoSub}]
CallStates ==
  [pc : {"idle", "upload", "save"}, valid : BOOLEAN, snap : Seq(Pictures), res : Seq(Outcomes), ids : Seq(Nat)]

\* Pictures are all different, and are among the first n.
ListIs(imgs, n) ==
  /\ imgs \in Seq(Pictures) /\ \A i \in 1..Len(imgs) : imgs[i].pic <= n
  /\ \A i, j \in 1..Len(imgs) : imgs[i].pic = imgs[j].pic => i = j

SaveIs(call, n) ==
  /\ call \in CallStates /\ ListIs(call.snap, n) /\ Len(call.res) = Len(call.snap)
  /\ \A i \in 1..Len(call.snap) : call.snap[i].kind = "new" <=> call.res[i] # "none"

EditorData ==
  /\ e \in EditorStates /\ ListIs(e.imgs, chosen) /\ ListIs(View, chosen)
  /\ sub \in [Subs -> CallStates] /\ (\A s \in Subs : SaveIs(sub[s], chosen))
  /\ stored \in [Pics -> 0..2] /\ (\A p \in Pics : p > chosen => stored[p] = 0)
  /\ entry \in Seq(Nat) /\ wanted \subseteq 1..chosen /\ resent \subseteq Pics
  /\ overlap \in BOOLEAN /\ chosen \in 0..MaxPics /\ leaves \in 0..MaxLeaves

NewIn(imgs, S) == \A i \in 1..Len(imgs) : imgs[i].kind = "new" => imgs[i].pic \in S
Labelled(imgs) == \A i \in 1..Len(imgs) : imgs[i].kind = "kept" => imgs[i].id = imgs[i].pic

\* What is shown is not late; what is saved is closed; only an entry has
\* pictures; a new picture is wanted.
EditorShown ==
  /\ e.shown /\ e.open => e.late = <<>>
  /\ e.saved => ~e.open
  /\ e.of # "entry" => View = <<>> /\ ~e.picker /\ wanted = {}
  /\ \A s \in Subs : sub[s].pc = "upload" => e.of = "entry"
  /\ NewIn(e.imgs, wanted) /\ NewIn(View, wanted)

\* One call at a time, whose upload is of the pictures in the editor.
Calling(s) == sub[s].pc # "idle"
OneSave ==
  ~overlap =>
    /\ \A s, t \in Subs : Calling(s) /\ Calling(t) => s = t
    /\ \A s \in Subs : Calling(s) =>
         /\ e.open /\ sub[s].valid /\ ~e.picker /\ (e.of = "entry" => e.submitting)
         /\ sub[s].pc = "upload" => e.uploading /\ sub[s].snap = e.imgs /\ e.late = <<>>
         /\ sub[s].pc = "save" => ~Has(View, "new") /\ IdsOf(sub[s].ids) = wanted
    /\ e.picker => e.late = <<>>

\* Whether a picture may be uploaded.
NotSent(p) == p \in resent \/ stored[p] = 0
SendsOf(s) ==
  \A i \in 1..Len(sub[s].snap) :
    /\ sub[s].res[i] \in {"todo", "failed"} => NotSent(sub[s].snap[i].pic)
    /\ overlap /\ sub[s].res[i] = "todo" => sub[s].snap[i].pic \in resent
Sending ==
  /\ \A p \in Pics : stored[p] > 1 => p \in resent
  /\ \A s \in Subs : sub[s].pc = "upload" => SendsOf(s)
  /\ ~overlap /\ e.open /\ (\A s \in Subs : sub[s].pc # "upload") =>
       \A i \in 1..Len(View) : View[i].kind = "new" => NotSent(View[i].pic)

EditorInv == EditorData /\ EditorShown /\ OneSave /\ Sending /\ PicturesKept /\ IdsBelong


-----------------------------------------------------------------------------
LEMMA EditorBounds == MaxPics \in Nat /\ MaxLeaves \in Nat /\ NoSub \notin Subs /\ Pics = 1..MaxPics
BY EditorAssumption DEF Pics

\* The pictures that are not deleted.
LivePics(imgs) == {imgs[i].pic : i \in PlacesOf(imgs, {"new", "kept"})}

LEMMA PlacesIs ==
  ASSUME NEW imgs \in Seq(Pictures), NEW kinds
  PROVE  Len(imgs) \in Nat /\ PlacesOf(imgs, kinds) \in SUBSET (1..Len(imgs)) /\ Indices(PlacesOf(imgs, kinds))
         /\ \A i \in 1..Len(imgs) : imgs[i] \in Pictures
<1>1. Len(imgs) \in Nat /\ \A i \in 1..Len(imgs) : imgs[i] \in Pictures  BY LenProperties, ElementOfSeq
<1>2. PlacesOf(imgs, kinds) \in SUBSET (1..Len(imgs))  BY DEF PlacesOf
<1>3. QED  BY <1>1, <1>2 DEF Indices

LEMMA LiveIs ==
  ASSUME NEW imgs \in Seq(Pictures)
  PROVE  LET l == Live(imgs)
         IN  /\ l \in Seq(Pictures) /\ PicsOf(l) = LivePics(imgs) /\ LivePics(l) = LivePics(imgs)
             /\ \A k \in 1..Len(l) : \E i \in 1..Len(imgs) : imgs[i].kind # "deleted" /\ l[k] = imgs[i]
             /\ (\A i, j \in 1..Len(imgs) : imgs[i].pic = imgs[j].pic => i = j) =>
                  \A i, j \in 1..Len(l) : l[i].pic = l[j].pic => i = j
<1> DEFINE P == PlacesOf(imgs, {"new", "kept"})
           l == Live(imgs)
<1>1. /\ P \in SUBSET (1..Len(imgs)) /\ Indices(P) /\ Len(imgs) \in Nat /\ \A i \in 1..Len(imgs) : imgs[i] \in Pictures
      /\ \A i \in 1..Len(imgs) : i \in P <=> imgs[i].kind # "deleted"
  <2>1. P \in SUBSET (1..Len(imgs)) /\ Indices(P) /\ Len(imgs) \in Nat /\ \A i \in 1..Len(imgs) : imgs[i] \in Pictures
    BY PlacesIs
  <2>2. \A i \in 1..Len(imgs) : i \in P <=> imgs[i].kind \in {"new", "kept"}  BY DEF PlacesOf
  <2>3. \A i \in 1..Len(imgs) : imgs[i].kind \in {"new", "kept"} <=> imgs[i].kind # "deleted"
    BY <2>1 DEF Pictures
  <2>4. QED  BY <2>1, <2>2, <2>3
<1>2. l = Part(imgs, P)  BY DEF Live
<1>3. \A i \in P : imgs[i] \in Pictures  BY <1>1
<1> HIDE DEF P, l
<1>4. /\ l \in Seq(Pictures) /\ Len(l) = Cardinality(P)
      /\ \A i \in P : Rank(P, i) \in 1..Cardinality(P) /\ l[Rank(P, i)] = imgs[i]
      /\ \A k \in 1..Cardinality(P) : \E i \in P : k = Rank(P, i) /\ l[k] = imgs[i]
      /\ \A i, j \in P : Rank(P, i) = Rank(P, j) => i = j
  <2>1. Indices(P)  BY <1>1
  <2>2. Part(imgs, P) \in Seq(Pictures)  BY ONLY <1>3, <2>1, PartIs
  <2>3. /\ Len(Part(imgs, P)) = Cardinality(P)
        /\ \A i \in P : Rank(P, i) \in 1..Cardinality(P) /\ Part(imgs, P)[Rank(P, i)] = imgs[i]
        /\ \A k \in 1..Cardinality(P) : \E i \in P : k = Rank(P, i) /\ Part(imgs, P)[k] = imgs[i]
        /\ \A i, j \in P : Rank(P, i) = Rank(P, j) => i = j
    BY ONLY <2>1, PartAt
  <2>4. QED  BY <1>2, <2>2, <2>3
<1>5. \A k \in 1..Len(l) : \E i \in P : k = Rank(P, i) /\ l[k] = imgs[i]  BY <1>4
<1>6. \A i \in P : \E k \in 1..Len(l) : l[k] = imgs[i]  BY <1>4
<1>7. LivePics(imgs) = {imgs[i].pic : i \in P}  BY DEF LivePics, P
<1>8. PicsOf(l) = LivePics(imgs)
  <2>1. PicsOf(l) = {l[k].pic : k \in 1..Len(l)}  BY DEF PicsOf
  <2>2. \A k \in 1..Len(l) : \E i \in P : l[k].pic = imgs[i].pic  BY <1>5
  <2>3. \A i \in P : \E k \in 1..Len(l) : l[k].pic = imgs[i].pic  BY <1>6
  <2>4. PicsOf(l) \subseteq LivePics(imgs)
    <3>1. \A i \in P : imgs[i].pic \in LivePics(imgs)  BY <1>7
    <3>2. \A k \in 1..Len(l) : l[k].pic \in LivePics(imgs)  BY <2>2, <3>1
    <3>3. QED  BY <2>1, <3>2
  <2>5. LivePics(imgs) \subseteq PicsOf(l)
    <3>1. \A k \in 1..Len(l) : l[k].pic \in PicsOf(l)  BY <2>1
    <3>2. \A i \in P : imgs[i].pic \in PicsOf(l)  BY <2>3, <3>1
    <3>3. QED  BY <1>7, <3>2
  <2>6. QED  BY <2>4, <2>5
<1>9. PlacesOf(l, {"new", "kept"}) = 1..Len(l)
  <2>1. \A k \in 1..Len(l) : l[k].kind \in {"new", "kept"}
    <3>1. \A i \in P : imgs[i].kind \in {"new", "kept"}  BY <1>1 DEF Pictures
    <3>2. QED  BY <1>5, <3>1
  <2>2. QED  BY <2>1 DEF PlacesOf
<1>10. LivePics(l) = LivePics(imgs)  BY <1>8, <1>9 DEF LivePics, PicsOf
<1>11. \A k \in 1..Len(l) : \E i \in 1..Len(imgs) : imgs[i].kind # "deleted" /\ l[k] = imgs[i]
  BY <1>1, <1>5
<1>12. ASSUME \A i, j \in 1..Len(imgs) : imgs[i].pic = imgs[j].pic => i = j
       PROVE  \A i, j \in 1..Len(l) : l[i].pic = l[j].pic => i = j
  <2>1. TAKE i, j \in 1..Len(l)
  <2>2. HAVE l[i].pic = l[j].pic
  <2>3. PICK a \in P : i = Rank(P, a) /\ l[i] = imgs[a]  BY <1>5
  <2>4. PICK b \in P : j = Rank(P, b) /\ l[j] = imgs[b]  BY <1>5
  <2>5. a = b  BY <1>1, <1>12, <2>2, <2>3, <2>4
  <2>6. QED  BY <2>3, <2>4, <2>5
<1>13. QED  BY <1>4, <1>8, <1>10, <1>11, <1>12 DEF l

\* The ids that are kept.
LEMMA KeptIdsIs ==
  ASSUME NEW imgs \in Seq(Pictures)
  PROVE  /\ KeptIds(imgs) \in Seq(Nat) /\ Len(KeptIds(imgs)) \in Nat
         /\ IdsOf(KeptIds(imgs)) = {imgs[i].id : i \in PlacesOf(imgs, {"kept"})}
<1> DEFINE P == PlacesOf(imgs, {"kept"})
           k == KeptIds(imgs)
<1>0. PICK ids : ids = [i \in 1..Len(imgs) |-> imgs[i].id]  OBVIOUS
<1>1. P \in SUBSET (1..Len(imgs)) /\ Indices(P) /\ Len(imgs) \in Nat /\ \A i \in 1..Len(imgs) : imgs[i] \in Pictures
  BY PlacesIs
<1>2. k = Part(ids, P)  BY <1>0 DEF KeptIds
<1>3. \A i \in P : ids[i] \in Nat /\ ids[i] = imgs[i].id  BY <1>0, <1>1 DEF Pictures
<1> HIDE DEF P, k
<1>4. /\ k \in Seq(Nat) /\ Len(k) = Cardinality(P)
      /\ \A i \in P : Rank(P, i) \in 1..Cardinality(P) /\ k[Rank(P, i)] = ids[i]
      /\ \A n \in 1..Cardinality(P) : \E i \in P : n = Rank(P, i) /\ k[n] = ids[i]
  <2>1. Indices(P)  BY <1>1, <1>3
  <2>2. Part(ids, P) \in Seq(Nat)
    <3>1. PICK T : T = Nat  OBVIOUS
    <3>2. \A i \in P : ids[i] \in T  BY <1>3, <3>1
    <3>3. Part(ids, P) \in Seq(T)  BY ONLY <2>1, <3>2, PartIs
    <3>4. QED  BY <3>1, <3>3
  <2>3. /\ Len(Part(ids, P)) = Cardinality(P)
        /\ \A i \in P : Rank(P, i) \in 1..Cardinality(P) /\ Part(ids, P)[Rank(P, i)] = ids[i]
        /\ \A n \in 1..Cardinality(P) : \E i \in P : n = Rank(P, i) /\ Part(ids, P)[n] = ids[i]
    BY ONLY <2>1, PartAt
  <2>4. QED  BY <1>2, <2>2, <2>3
<1>5. IdsOf(k) = {imgs[i].id : i \in P}
  <2>1. \A n \in 1..Len(k) : \E i \in P : k[n] = imgs[i].id  BY <1>3, <1>4
  <2>2. \A i \in P : \E n \in 1..Len(k) : k[n] = imgs[i].id  BY <1>3, <1>4
  <2>3. IdsOf(k) = {k[n] : n \in 1..Len(k)}  BY DEF IdsOf
  <2>4. IdsOf(k) \subseteq {imgs[i].id : i \in P}
    <3>1. \A i \in P : imgs[i].id \in {imgs[b].id : b \in P}  OBVIOUS
    <3>2. \A n \in 1..Len(k) : k[n] \in {imgs[i].id : i \in P}  BY <2>1, <3>1
    <3>3. QED  BY <2>3, <3>2
  <2>5. {imgs[i].id : i \in P} \subseteq IdsOf(k)
    <3>1. \A n \in 1..Len(k) : k[n] \in IdsOf(k)  BY <2>3
    <3>2. \A i \in P : imgs[i].id \in IdsOf(k)  BY <2>2, <3>1
    <3>3. QED  BY <3>2
  <2>6. QED  BY <2>4, <2>5
<1>6. Len(k) \in Nat  BY <1>4, LenProperties
<1>7. QED  BY <1>4, <1>5, <1>6 DEF k, P

AllStored(call) == \A i \in 1..Len(call.snap) : call.res[i] \in {"none", "ok"}

\* The result of an upload: the ids there were, and a picture for each new one,
\* at the place where it is looked for.
LEMMA UploadedIs ==
  ASSUME NEW call, NEW q, SaveIs(call, q), AllStored(call)
  PROVE  /\ Uploaded(call) \in Seq(Nat)
         /\ IdsOf(Uploaded(call)) = IdsOf(KeptIds(call.snap)) \cup {call.snap[i].pic : i \in PlacesOf(call.snap, {"new"})}
         /\ \A i \in PlacesOf(call.snap, {"new"}) :
              Uploaded(call)[Len(KeptIds(call.snap)) + NewBefore(call.snap, i)] = call.snap[i].pic
<1> DEFINE imgs == call.snap
           P == PlacesOf(imgs, {"new"})
           k == KeptIds(imgs)
           u == Uploaded(call)
<1>0. PICK pics : pics = [i \in 1..Len(imgs) |-> imgs[i].pic]  OBVIOUS
<1> DEFINE w == Part(pics, P)
<1>1. /\ imgs \in Seq(Pictures) /\ \A i \in 1..Len(imgs) : imgs[i].kind = "new" <=> call.res[i] = "ok"
  BY DEF SaveIs, ListIs, AllStored
<1>2. P \in SUBSET (1..Len(imgs)) /\ Indices(P) /\ Len(imgs) \in Nat /\ \A i \in 1..Len(imgs) : imgs[i] \in Pictures
  BY <1>1, PlacesIs
<1>3. P = {i \in 1..Len(imgs) : call.res[i] = "ok"}  BY <1>1 DEF PlacesOf
<1>4. u = k \o w  BY <1>0, <1>3 DEF Uploaded
<1>5. \A i \in P : pics[i] \in Nat /\ pics[i] = imgs[i].pic /\ NewBefore(imgs, i) = Rank(P, i)
  <2>1. \A i \in P : pics[i] = imgs[i].pic /\ imgs[i].pic \in Pics  BY <1>0, <1>2 DEF Pictures
  <2>2. Pics \subseteq Nat  BY EditorBounds
  <2>3. \A i \in P : NewBefore(imgs, i) = Rank(P, i)  BY DEF NewBefore
  <2>4. QED  BY <2>1, <2>2, <2>3
<1>6. k \in Seq(Nat) /\ Len(k) \in Nat  BY <1>1, KeptIdsIs
<1>7. P = PlacesOf(imgs, {"new"}) /\ w = Part(pics, P) /\ k = KeptIds(imgs)  OBVIOUS
<1> HIDE DEF P, w, u, k
<1>8. /\ w \in Seq(Nat) /\ Len(w) = Cardinality(P)
      /\ \A i \in P : Rank(P, i) \in 1..Cardinality(P) /\ w[Rank(P, i)] = pics[i]
      /\ \A n \in 1..Cardinality(P) : \E i \in P : n = Rank(P, i) /\ w[n] = pics[i]
  <2>1. Indices(P)  BY <1>2, <1>5
  <2>2. Part(pics, P) \in Seq(Nat)
    <3>1. PICK T : T = Nat  OBVIOUS
    <3>2. \A i \in P : pics[i] \in T  BY <1>5, <3>1
    <3>3. Part(pics, P) \in Seq(T)  BY ONLY <2>1, <3>2, PartIs
    <3>4. QED  BY <3>1, <3>3
  <2>3. /\ Len(Part(pics, P)) = Cardinality(P)
        /\ \A i \in P : Rank(P, i) \in 1..Cardinality(P) /\ Part(pics, P)[Rank(P, i)] = pics[i]
        /\ \A n \in 1..Cardinality(P) : \E i \in P : n = Rank(P, i) /\ Part(pics, P)[n] = pics[i]
    BY ONLY <2>1, PartAt
  <2>4. QED  BY <1>7, <2>2, <2>3
<1>9. Len(w) \in Nat  BY <1>8, LenProperties
<1>10. /\ u \in Seq(Nat) /\ Len(u) = Len(k) + Len(w)
       /\ \A i \in 1..Len(k) + Len(w) : u[i] = IF i <= Len(k) THEN k[i] ELSE w[i - Len(k)]
  BY <1>4, <1>6, <1>8, ConcatProperties
<1>11. \A n \in 1..Len(w) : u[Len(k) + n] = w[n] /\ Len(k) + n \in 1..Len(u)
  <2>1. TAKE n \in 1..Len(w)
  <2>2. Len(k) + n \in 1..Len(k) + Len(w) /\ ~(Len(k) + n <= Len(k)) /\ Len(k) + n - Len(k) = n
    BY <1>6, <1>9
  <2>3. QED  BY <1>10, <2>2
<1>12. \A n \in 1..Len(k) : u[n] = k[n] /\ n \in 1..Len(u)
  <2>1. TAKE n \in 1..Len(k)
  <2>2. n \in 1..Len(k) + Len(w) /\ n <= Len(k)  BY <1>6, <1>9
  <2>3. QED  BY <1>10, <2>2
<1>13. \A n \in 1..Len(u) : n \in 1..Len(k) \/ (n - Len(k) \in 1..Len(w) /\ n = Len(k) + (n - Len(k)))
  BY <1>6, <1>9, <1>10
<1>14. \A i \in P : u[Len(k) + NewBefore(imgs, i)] = imgs[i].pic  BY <1>5, <1>8, <1>11
<1>15. IdsOf(u) = IdsOf(k) \cup {imgs[i].pic : i \in P}
  <2>1. \A n \in 1..Len(u) : u[n] \in IdsOf(k) \cup {imgs[i].pic : i \in P}
    <3>1. \A n \in 1..Len(k) : k[n] \in IdsOf(k)  BY DEF IdsOf
    <3>2. \A n \in 1..Len(w) : \E i \in P : w[n] = imgs[i].pic  BY <1>5, <1>8
    <3>3. TAKE n \in 1..Len(u)
    <3>4. CASE n \in 1..Len(k)  BY <1>12, <3>1, <3>4
    <3>5. CASE n - Len(k) \in 1..Len(w) /\ n = Len(k) + (n - Len(k))
      <4>1. u[n] = w[n - Len(k)]  BY <1>11, <3>5
      <4>2. QED  BY <3>2, <3>5, <4>1
    <3>6. QED  BY <1>13, <3>4, <3>5
  <2>2. \A n \in 1..Len(u) : u[n] \in IdsOf(u)  BY DEF IdsOf
  <2>3. \A n \in 1..Len(k) : k[n] \in IdsOf(u)  BY <1>12, <2>2
  <2>4. \A i \in P : imgs[i].pic \in IdsOf(u)
    <3>1. TAKE i \in P
    <3>2. Rank(P, i) \in 1..Len(w) /\ w[Rank(P, i)] = imgs[i].pic  BY <1>5, <1>8
    <3>3. QED  BY <1>11, <2>2, <3>2
  <2>5. IdsOf(u) \subseteq IdsOf(k) \cup {imgs[i].pic : i \in P}  BY <2>1 DEF IdsOf
  <2>6. IdsOf(k) \subseteq IdsOf(u)
    <3>1. \A R : (\A n \in 1..Len(k) : k[n] \in R) => IdsOf(k) \subseteq R  BY DEF IdsOf
    <3>2. QED  BY <2>3, <3>1
  <2>7. QED  BY <2>4, <2>5, <2>6
<1>16. QED  BY <1>7, <1>10, <1>14, <1>15 DEF u

PicIsNat == \A x \in Pictures : x.pic \in Nat /\ x.pic \in Pics /\ x.id \in Nat
LEMMA PicturesNat == PicIsNat
<1>1. Pics \subseteq Nat  BY EditorBounds
<1>2. \A x \in Pictures : x.pic \in Pics /\ x.id \in Nat  BY DEF Pictures
<1>3. QED  BY <1>1, <1>2 DEF PicIsNat

\* A picture that is kept now.
LEMMA KeptIdsAre ==
  ASSUME NEW x \in Pictures, NEW p \in Pics
  PROVE  LET y == KeptAs(x, p) IN y \in Pictures /\ y.pic = x.pic /\ y.kind = "kept" /\ y.id = p
<1>1. p \in Nat  BY EditorBounds
<1>2. QED  BY <1>1 DEF Pictures, KeptAs

\* Two lists of the same pictures, deleted in one if they are in the other.
Alike(imgs, old) ==
  /\ imgs \in Seq(Pictures) /\ Len(imgs) = Len(old)
  /\ \A i \in 1..Len(old) : imgs[i].pic = old[i].pic /\ (imgs[i].kind = "deleted" <=> old[i].kind = "deleted")

LEMMA AlikeIs ==
  ASSUME NEW old, NEW n, ListIs(old, n), NEW imgs, Alike(imgs, old)
  PROVE  ListIs(imgs, n) /\ LivePics(imgs) = LivePics(old)
<1>1. ListIs(imgs, n)  BY DEF ListIs, Alike
<1>2. /\ imgs \in Seq(Pictures) /\ old \in Seq(Pictures) /\ Len(imgs) = Len(old)
      /\ \A i \in 1..Len(old) : imgs[i].pic = old[i].pic /\ (imgs[i].kind = "deleted" <=> old[i].kind = "deleted")
  BY DEF ListIs, Alike
<1>3. \A i \in 1..Len(old) : imgs[i] \in Pictures /\ old[i] \in Pictures  BY <1>2, ElementOfSeq
<1>4. \A x \in Pictures : x.kind \in {"new", "kept"} <=> x.kind # "deleted"  BY DEF Pictures
<1>5. PlacesOf(imgs, {"new", "kept"}) = PlacesOf(old, {"new", "kept"})
  <2>1. \A i \in 1..Len(old) : imgs[i].kind \in {"new", "kept"} <=> old[i].kind \in {"new", "kept"}
    BY <1>2, <1>3, <1>4
  <2>2. QED  BY <1>2, <2>1 DEF PlacesOf
<1>6. \A i \in PlacesOf(old, {"new", "kept"}) : i \in 1..Len(old) /\ imgs[i].pic = old[i].pic
  BY <1>2 DEF PlacesOf
<1>7. LivePics(imgs) = LivePics(old)  BY <1>5, <1>6 DEF LivePics
<1>8. QED  BY <1>1, <1>7

\* The snapshot with the ids of what was stored.
LEMMA WithIdsIs ==
  ASSUME NEW call, NEW n, SaveIs(call, n), AllStored(call)
  PROVE  LET w == WithIds(call.snap, Uploaded(call))
         IN  /\ Alike(w, call.snap)
             /\ \A i \in 1..Len(w) : w[i].kind # "new"
             /\ Labelled(call.snap) => Labelled(w)
<1> DEFINE imgs == call.snap
           u == Uploaded(call)
           first == Len(KeptIds(imgs))
           w == WithIds(imgs, u)
<1>1. imgs \in Seq(Pictures)  BY DEF SaveIs, ListIs
<1>2. Len(imgs) \in Nat /\ \A i \in 1..Len(imgs) : imgs[i] \in Pictures  BY <1>1, PlacesIs
<1>3. \A i \in PlacesOf(imgs, {"new"}) : u[first + NewBefore(imgs, i)] = imgs[i].pic  BY UploadedIs
<1>4. w = [i \in 1..Len(imgs) |->
             IF imgs[i].kind = "new" THEN KeptAs(imgs[i], u[first + NewBefore(imgs, i)]) ELSE imgs[i]]
  BY DEF WithIds
<1>5. \A i \in 1..Len(imgs) : imgs[i].kind = "new" => i \in PlacesOf(imgs, {"new"})  BY DEF PlacesOf
<1> HIDE DEF imgs, u, first, w
<1>6. \A i \in 1..Len(imgs) :
        w[i] = IF imgs[i].kind = "new" THEN KeptAs(imgs[i], imgs[i].pic) ELSE imgs[i]
  BY <1>3, <1>4, <1>5
<1>7. \A i \in 1..Len(imgs) :
        /\ w[i] \in Pictures /\ w[i].pic = imgs[i].pic /\ w[i].kind # "new"
        /\ w[i].kind = "deleted" <=> imgs[i].kind = "deleted"
        /\ w[i].kind = "kept" /\ imgs[i].kind # "kept" => w[i].id = w[i].pic
        /\ imgs[i].kind = "kept" => w[i] = imgs[i]
  <2>1. TAKE i \in 1..Len(imgs)
  <2>2. imgs[i] \in Pictures /\ imgs[i].pic \in Pics  BY <1>2, PicturesNat DEF PicIsNat
  <2>3. CASE imgs[i].kind = "new"
    <3>1. w[i] = KeptAs(imgs[i], imgs[i].pic)  BY <1>6, <2>3
    <3>2. w[i] \in Pictures /\ w[i].pic = imgs[i].pic /\ w[i].kind = "kept" /\ w[i].id = imgs[i].pic
      BY <2>2, <3>1, KeptIdsAre
    <3>3. QED  BY <2>3, <3>2
  <2>4. CASE imgs[i].kind # "new"
    <3>1. w[i] = imgs[i]  BY <1>6, <2>4
    <3>2. QED  BY <2>2, <2>4, <3>1
  <2>5. QED  BY <2>3, <2>4
<1>8. w \in Seq(Pictures) /\ Len(w) = Len(imgs)
  <2>1. w \in [1..Len(imgs) -> Pictures]
    <3>1. w = [i \in 1..Len(imgs) |-> w[i]]  BY <1>4
    <3>2. QED  BY <1>7, <3>1
  <2>2. QED  BY <1>2, <2>1
<1>9. Alike(w, imgs)  BY <1>7, <1>8 DEF Alike
<1>10. \A i \in 1..Len(w) : w[i].kind # "new"  BY <1>7, <1>8
<1>11. Labelled(imgs) => Labelled(w)  BY <1>7, <1>8 DEF Labelled
<1>12. QED  BY <1>9, <1>10, <1>11 DEF w, imgs, u

\* What the editor shows after an upload.
LEMMA FinalIs ==
  ASSUME NEW call, NEW q, SaveIs(call, q), AllStored(call)
  PROVE  LET l == Live(WithIds(call.snap, Uploaded(call)))
         IN  /\ ListIs(l, q) /\ LivePics(l) = LivePics(call.snap)
             /\ \A i \in 1..Len(l) : l[i].kind # "new"
             /\ Labelled(call.snap) => Labelled(l)
<1> DEFINE w == WithIds(call.snap, Uploaded(call))
           l == Live(w)
<1>1. /\ Alike(w, call.snap)
      /\ \A i \in 1..Len(w) : w[i].kind # "new"
      /\ Labelled(call.snap) => Labelled(w)
  BY WithIdsIs
<1>2. ListIs(call.snap, q)  BY DEF SaveIs
<1> HIDE DEF w
<1>3. ListIs(w, q) /\ LivePics(w) = LivePics(call.snap)  BY <1>1, <1>2, AlikeIs
<1>4. /\ w \in Seq(Pictures) /\ \A i \in 1..Len(w) : w[i].pic <= q
      /\ \A i, j \in 1..Len(w) : w[i].pic = w[j].pic => i = j
  BY <1>3 DEF ListIs
<1>5. /\ l \in Seq(Pictures) /\ LivePics(l) = LivePics(w)
      /\ \A k \in 1..Len(l) : \E i \in 1..Len(w) : w[i].kind # "deleted" /\ l[k] = w[i]
      /\ \A i, j \in 1..Len(l) : l[i].pic = l[j].pic => i = j
  BY <1>4, LiveIs
<1> HIDE DEF l
<1>6. ListIs(l, q)
  <2>1. \A k \in 1..Len(l) : l[k].pic <= q  BY <1>4, <1>5
  <2>2. QED  BY <1>5, <2>1 DEF ListIs
<1>7. \A k \in 1..Len(l) : l[k].kind # "new"  BY <1>1, <1>5
<1>8. Labelled(w) => Labelled(l)  BY <1>5 DEF Labelled
<1>9. QED  BY <1>1, <1>3, <1>5, <1>6, <1>7, <1>8 DEF l, w

\* What is saved then, and what is saved where there is nothing new.
LEMMA SavedIs ==
  ASSUME NEW call, NEW q, SaveIs(call, q), AllStored(call), Labelled(call.snap)
  PROVE  IdsOf(Uploaded(call)) = LivePics(call.snap)
<1> DEFINE imgs == call.snap
           new == PlacesOf(imgs, {"new"})
           kept == PlacesOf(imgs, {"kept"})
           both == PlacesOf(imgs, {"new", "kept"})
<1>1. imgs \in Seq(Pictures)  BY DEF SaveIs, ListIs
<1>2. IdsOf(KeptIds(imgs)) = {imgs[i].id : i \in kept}  BY <1>1, KeptIdsIs
<1>3. IdsOf(Uploaded(call)) = IdsOf(KeptIds(imgs)) \cup {imgs[i].pic : i \in new}  BY UploadedIs
<1>4. \A i \in kept : imgs[i].id = imgs[i].pic  BY DEF Labelled, PlacesOf
<1>5. both = new \cup kept  BY DEF PlacesOf
<1>6. LivePics(imgs) = {imgs[i].pic : i \in both}  BY DEF LivePics
<1> HIDE DEF imgs, new, kept, both
<1>7. {imgs[i].id : i \in kept} = {imgs[i].pic : i \in kept}  BY <1>4
<1>8. {imgs[i].pic : i \in both} = {imgs[i].pic : i \in kept} \cup {imgs[i].pic : i \in new}  BY <1>5
<1>9. QED  BY <1>2, <1>3, <1>6, <1>7, <1>8 DEF imgs

LEMMA KeptSaved ==
  ASSUME NEW imgs \in Seq(Pictures), Labelled(imgs), ~Has(imgs, "new")
  PROVE  IdsOf(KeptIds(imgs)) = LivePics(imgs)
<1> DEFINE kept == PlacesOf(imgs, {"kept"})
           both == PlacesOf(imgs, {"new", "kept"})
<1>1. IdsOf(KeptIds(imgs)) = {imgs[i].id : i \in kept}  BY KeptIdsIs
<1>2. \A i \in kept : imgs[i].id = imgs[i].pic  BY DEF Labelled, PlacesOf
<1>3. both = kept
  <2>1. PlacesOf(imgs, {"new"}) = {}  BY DEF Has
  <2>2. QED  BY <2>1 DEF PlacesOf
<1>4. LivePics(imgs) = {imgs[i].pic : i \in both}  BY DEF LivePics
<1> HIDE DEF kept, both
<1>5. {imgs[i].id : i \in kept} = {imgs[i].pic : i \in kept}  BY <1>2
<1>6. QED  BY <1>1, <1>3, <1>4, <1>5

LEMMA HasIs ==
  ASSUME NEW imgs, NEW k
  PROVE  Has(imgs, k) <=> \E i \in 1..Len(imgs) : imgs[i].kind = k
BY DEF Has, PlacesOf

\* The editor after a failed upload: pictures that were stored are kept.
PatchOf(imgs, old, call) ==
  /\ Alike(imgs, old)
  /\ \A i \in 1..Len(old) :
       \/ imgs[i] = old[i]
       \/ /\ Len(call.snap) = Len(old) /\ old[i].kind = "new" /\ call.res[i] = "ok" /\ imgs[i].kind = "kept"
          /\ imgs[i].id = call.snap[i].pic

\* What failing leaves of the editor.
SameEditor(n) ==
  /\ n \in EditorStates /\ n.of = e.of /\ n.open = e.open /\ n.shown = e.shown /\ n.saved = e.saved
  /\ n.late = e.late /\ n.picker = e.picker

LEMMA PatchedIs ==
  ASSUME NEW call, NEW q, SaveIs(call, q), e \in EditorStates
  PROVE  LET n == Patched(e, call)
         IN  /\ SameEditor(n) /\ PatchOf(n.imgs, e.imgs, call) /\ (~e.shown => n.imgs = e.imgs)
             /\ e.shown /\ Len(call.snap) = Len(e.imgs) =>
                  \A i \in 1..Len(e.imgs) : call.res[i] = "ok" => n.imgs[i].kind # "new"
<1> DEFINE n == Patched(e, call)
           imgs == e.imgs
           new == [i \in 1..Len(imgs) |->
                     IF imgs[i].kind = "new" /\ call.res[i] = "ok"
                     THEN KeptAs(imgs[i], call.snap[i].pic) ELSE imgs[i]]
<1>1. imgs \in Seq(Pictures) /\ Len(imgs) \in Nat /\ \A i \in 1..Len(imgs) : imgs[i] \in Pictures
  <2>1. imgs \in Seq(Pictures)  BY DEF EditorStates
  <2>2. QED  BY <2>1, PlacesIs
<1>2. call.snap \in Seq(Pictures) /\ \A i \in 1..Len(call.snap) : call.snap[i] \in Pictures
  <2>1. call.snap \in Seq(Pictures)  BY DEF SaveIs, ListIs
  <2>2. QED  BY <2>1, PlacesIs
<1>3. CASE e.shown /\ Len(call.snap) = Len(imgs)
  <2>1. n = [e EXCEPT !.imgs = new]  BY <1>3 DEF Patched
  <2> HIDE DEF imgs
  <2>2. \A i \in 1..Len(imgs) :
          /\ new[i] \in Pictures /\ new[i].pic = imgs[i].pic
          /\ new[i].kind = "deleted" <=> imgs[i].kind = "deleted"
          /\ \/ new[i] = imgs[i]
             \/ imgs[i].kind = "new" /\ call.res[i] = "ok" /\ new[i].kind = "kept" /\ new[i].id = call.snap[i].pic
          /\ call.res[i] = "ok" => new[i].kind # "new"
    <3>1. TAKE i \in 1..Len(imgs)
    <3>2. imgs[i] \in Pictures /\ call.snap[i].pic \in Pics
      BY <1>1, <1>2, <1>3, PicturesNat DEF PicIsNat
    <3>3. CASE imgs[i].kind = "new" /\ call.res[i] = "ok"
      <4>1. new[i] = KeptAs(imgs[i], call.snap[i].pic)  BY <3>3
      <4> HIDE DEF new
      <4>2. new[i] \in Pictures /\ new[i].pic = imgs[i].pic /\ new[i].kind = "kept" /\ new[i].id = call.snap[i].pic
        BY <3>2, <4>1, KeptIdsAre
      <4>3. QED  BY <3>3, <4>2
    <3>4. CASE ~(imgs[i].kind = "new" /\ call.res[i] = "ok")
      <4>1. new[i] = imgs[i]  BY <3>4
      <4>2. QED  BY <3>2, <3>4, <4>1
    <3>5. QED  BY <3>3, <3>4
  <2>3. new \in Seq(Pictures) /\ Len(new) = Len(imgs)
    <3>1. new \in [1..Len(imgs) -> Pictures]  BY <2>2
    <3> HIDE DEF new
    <3>2. QED  BY <1>1, <3>1
  <2> HIDE DEF new
  <2>4. SameEditor(n) /\ n.imgs = new
    <3>1. n.imgs = new /\ n \in EditorStates  BY <2>1, <2>3 DEF EditorStates
    <3>2. /\ n.of = e.of /\ n.open = e.open /\ n.shown = e.shown /\ n.saved = e.saved
          /\ n.late = e.late /\ n.picker = e.picker
      BY <2>1 DEF EditorStates
    <3>3. QED  BY <3>1, <3>2 DEF SameEditor
  <2> HIDE DEF n
  <2>5. Alike(new, imgs)  BY <2>2, <2>3 DEF Alike
  <2>6. PatchOf(new, imgs, call)  BY <1>3, <2>2, <2>5 DEF PatchOf
  <2>7. QED  BY <1>3, <2>2, <2>4, <2>6 DEF imgs, n
<1>4. CASE ~(e.shown /\ Len(call.snap) = Len(imgs))
  <2>1. n = e  BY <1>4 DEF Patched
  <2>2. Alike(imgs, imgs)  BY <1>1 DEF Alike
  <2>3. PatchOf(imgs, imgs, call)  BY <2>2 DEF PatchOf
  <2>4. SameEditor(e)  BY DEF SameEditor
  <2>5. QED  BY <1>4, <2>1, <2>3, <2>4
<1>5. QED  BY <1>3, <1>4

\* finally changes flags only.
LEMMA EndedIs ==
  ASSUME NEW n \in EditorStates, NEW s \in Subs
  PROVE  LET u == Ended(n, s)
         IN  /\ u \in EditorStates /\ u.imgs = n.imgs /\ u.of = n.of /\ u.open = n.open /\ u.shown = n.shown
             /\ u.saved = n.saved /\ u.late = n.late /\ u.picker = n.picker
<1>1. n.of \in {"entry", "memory", "cover"}  BY DEF EditorStates
<1>2. CASE n.of = "entry"
  <2>1. Ended(n, s) = Unlocked(n)  BY <1>2 DEF Ended
  <2>2. QED  BY <2>1 DEF Unlocked, EditorStates
<1>3. CASE n.of = "memory"
  <2>1. Ended(n, s) = [n EXCEPT !.saveToken = NoSub]  BY <1>3 DEF Ended
  <2>2. QED  BY <2>1 DEF EditorStates
<1>4. CASE n.of = "cover"
  <2>1. Ended(n, s) = [n EXCEPT !.submitting = FALSE, !.saveToken = IF @ = s THEN NoSub ELSE @]  BY <1>4 DEF Ended
  <2>2. QED  BY <2>1 DEF EditorStates
<1>5. QED  BY <1>1, <1>2, <1>3, <1>4

LEMMA NoSaveIs ==
  ASSUME NEW q
  PROVE  SaveIs(NoSave, q) /\ NoSave.pc = "idle"
<1>1. /\ NoSave.pc = "idle" /\ NoSave.valid = TRUE /\ NoSave.snap = <<>> /\ NoSave.res = <<>> /\ NoSave.ids = <<>>
      /\ NoSave \in CallStates
  <2>1. <<>> \in Seq(Pictures) /\ <<>> \in Seq(Outcomes) /\ <<>> \in Seq(Nat)  OBVIOUS
  <2>2. QED  BY <2>1 DEF NoSave, CallStates
<1>2. <<>> \in Seq(Pictures) /\ Len(<<>>) = 0 /\ \A i \in 1..0 : FALSE  OBVIOUS
<1>3. ListIs(<<>>, q)  BY <1>2 DEF ListIs
<1>4. QED  BY <1>1, <1>2, <1>3 DEF SaveIs

LEMMA NoCallsIs ==
  ASSUME NEW q
  PROVE  NoCalls \in [Subs -> CallStates] /\ \A s \in Subs : SaveIs(NoCalls[s], q) /\ NoCalls[s].pc = "idle"
<1>1. \A s \in Subs : NoCalls[s] = NoSave  BY DEF NoCalls
<1>2. SaveIs(NoSave, q) /\ NoSave.pc = "idle"  BY NoSaveIs
<1>3. NoSave \in CallStates  BY <1>2 DEF SaveIs
<1>4. NoCalls \in [Subs -> CallStates]  BY <1>3 DEF NoCalls
<1>5. QED  BY <1>1, <1>2, <1>4

\* Which pictures are kept is told by their places.
LEMMA KeptMeans ==
  ASSUME EditorData
  PROVE  PicturesKept <=> (~overlap => LivePics(View) = wanted)
<1>1. View \in Seq(Pictures)  BY DEF EditorData, ListIs
<1>2. PicsOf(Live(View)) = LivePics(View)  BY <1>1, LiveIs
<1>3. QED  BY <1>2 DEF PicturesKept

LEMMA LabelsMean == IdsBelong <=> (~overlap => Labelled(View) /\ (e.saved => IdsOf(entry) = wanted))
BY DEF IdsBelong, Labelled

\* Steps that leave the pictures as they are.
LEMMA SamePictures ==
  ASSUME EditorInv, e' \in EditorStates, e'.of = e.of, View' = View, e'.imgs \in {e.imgs, View},
         e'.shown /\ e'.open => e'.late = <<>>, e'.open => e.open, e'.picker => e.picker \/ e.of = "entry",
         e'.saved => ~e'.open /\ (~overlap => IdsOf(entry') = wanted), entry' \in Seq(Nat),
         sub' = sub \/ (sub' = NoCalls /\ ~e'.open),
         UNCHANGED <<stored, wanted, resent, overlap, chosen>>, leaves' \in 0..MaxLeaves
  PROVE  EditorData' /\ EditorShown' /\ Sending' /\ PicturesKept' /\ IdsBelong'
<1>1. EditorData /\ EditorShown /\ Sending /\ PicturesKept /\ IdsBelong  BY DEF EditorInv
<1>2. stored' = stored /\ wanted' = wanted /\ resent' = resent /\ overlap' = overlap /\ chosen' = chosen  OBVIOUS
<1>3. sub' \in [Subs -> CallStates] /\ \A s \in Subs : SaveIs(sub'[s], chosen)
  <2>1. CASE sub' = sub  BY <1>1, <2>1 DEF EditorData
  <2>2. CASE sub' = NoCalls  BY <2>2, NoCallsIs
  <2>3. QED  BY <2>1, <2>2
<1>4. \A s \in Subs : sub'[s].pc = "upload" => sub' = sub
  <2>1. CASE sub' = NoCalls
    <3>1. \A s \in Subs : NoCalls[s].pc = "idle"  BY NoCallsIs
    <3>2. QED  BY <2>1, <3>1
  <2>2. QED  BY <2>1
<1>5. EditorData'
  <2>1. ListIs(e'.imgs, chosen) /\ ListIs(View', chosen)  BY <1>1 DEF EditorData
  <2>2. /\ stored \in [Pics -> 0..2] /\ (\A p \in Pics : p > chosen => stored[p] = 0)
        /\ wanted \subseteq 1..chosen /\ resent \subseteq Pics /\ overlap \in BOOLEAN /\ chosen \in 0..MaxPics
    BY <1>1 DEF EditorData
  <2>3. QED  BY <1>2, <1>3, <2>1, <2>2 DEF EditorData
<1>6. EditorShown'
  <2>1. NewIn(e'.imgs, wanted) /\ NewIn(View', wanted)  BY <1>1 DEF EditorShown
  <2>2. e'.of # "entry" => View' = <<>> /\ ~e'.picker /\ wanted = {}  BY <1>1 DEF EditorShown
  <2>3. \A s \in Subs : sub'[s].pc = "upload" => e'.of = "entry"  BY <1>1, <1>4 DEF EditorShown
  <2>4. QED  BY <1>2, <2>1, <2>2, <2>3 DEF EditorShown
<1>7. Sending'
  <2>1. \A p : NotSent(p)' <=> NotSent(p)  BY <1>2 DEF NotSent
  <2>2. \A s \in Subs : sub'[s].pc = "upload" => SendsOf(s)'
    <3>1. TAKE s \in Subs
    <3>2. HAVE sub'[s].pc = "upload"
    <3>3. sub' = sub  BY <1>4, <3>2
    <3>4. SendsOf(s)  BY <1>1, <3>2, <3>3 DEF Sending
    <3>5. QED  BY <1>2, <2>1, <3>3, <3>4 DEF SendsOf
  <2>3. ~overlap' /\ e'.open /\ (\A s \in Subs : sub'[s].pc # "upload") =>
          (\A i \in 1..Len(View) : View[i].kind = "new" => NotSent(View[i].pic))'
    <3>1. HAVE ~overlap' /\ e'.open /\ \A s \in Subs : sub'[s].pc # "upload"
    <3>2. sub' = sub /\ e.open /\ ~overlap  BY <1>2, <3>1
    <3>3. \A i \in 1..Len(View) : View[i].kind = "new" => NotSent(View[i].pic)  BY <1>1, <3>1, <3>2 DEF Sending
    <3>4. \A i \in 1..Len(View) : View[i].kind = "new" => NotSent(View[i].pic)'  BY <2>1, <3>3
    <3>5. QED  BY <3>4
  <2>4. \A p \in Pics : stored'[p] > 1 => p \in resent'  BY <1>1, <1>2 DEF Sending
  <2>5. QED  BY <2>2, <2>3, <2>4 DEF Sending
<1>8. PicturesKept'  BY <1>1, <1>2 DEF PicturesKept
<1>9. IdsBelong'  BY <1>1, <1>2 DEF IdsBelong
<1>10. QED  BY <1>5, <1>6, <1>7, <1>8, <1>9

LEMMA OpenAlbumKeeps ==
  ASSUME EditorInv, OpenAlbum
  PROVE  EditorInv'
<1>1. EditorData /\ EditorShown /\ OneSave  BY DEF EditorInv
<1>2. /\ e.open /\ e.shown /\ e.of = "entry" /\ ~e.submitting /\ e' = [e EXCEPT !.picker = TRUE]
      /\ UNCHANGED <<sub, stored, entry, wanted, resent, overlap, chosen, leaves>>
  BY DEF OpenAlbum, Touch, EditorCalm
<1>3. e \in EditorStates /\ entry \in Seq(Nat) /\ leaves \in 0..MaxLeaves  BY <1>1 DEF EditorData
<1>4. e' \in EditorStates /\ e'.of = e.of /\ e'.imgs = e.imgs /\ e'.late = e.late /\ e'.shown = e.shown
      /\ e'.open = e.open /\ e'.saved = e.saved /\ e'.submitting = e.submitting /\ e'.uploading = e.uploading
  BY <1>2, <1>3 DEF EditorStates
<1>5. View' = View  BY <1>4 DEF View
<1>6. e.late = <<>> /\ ~e.saved  BY <1>1, <1>2 DEF EditorShown
<1>7. EditorData' /\ EditorShown' /\ Sending' /\ PicturesKept' /\ IdsBelong'
  BY <1>2, <1>3, <1>4, <1>5, <1>6, SamePictures
<1>8. OneSave'
  <2>1. sub' = sub /\ overlap' = overlap  BY <1>2
  <2>2. ~overlap => \A s \in Subs : ~Calling(s)  BY <1>1, <1>2 DEF OneSave
  <2>3. \A s \in Subs : Calling(s)' <=> Calling(s)  BY <2>1 DEF Calling
  <2>4. QED  BY <1>4, <1>6, <2>1, <2>2, <2>3 DEF OneSave
<1>9. QED  BY <1>7, <1>8 DEF EditorInv

\* The editor is removed with its calls.
LEMMA ClosedIs ==
  ASSUME EditorInv, e' \in {Closed, [Closed EXCEPT !.saved = TRUE]}
  PROVE  /\ e' \in EditorStates /\ e'.of = e.of /\ View' = View /\ e'.imgs = e.imgs /\ ~e'.open /\ ~e'.picker
         /\ e'.saved => e' = [Closed EXCEPT !.saved = TRUE]
<1>1. e \in EditorStates  BY DEF EditorInv, EditorData
<1>2. /\ Closed \in EditorStates /\ Closed.of = e.of /\ Closed.imgs = e.imgs /\ Closed.late = e.late /\ ~Closed.open
      /\ ~Closed.picker /\ ~Closed.saved
  BY <1>1 DEF Closed, NewEditor, EditorStates
<1>3. /\ e' \in EditorStates /\ e'.of = e.of /\ e'.imgs = e.imgs /\ e'.late = e.late /\ ~e'.open /\ ~e'.picker
      /\ e'.saved => e' = [Closed EXCEPT !.saved = TRUE]
  <2>1. CASE e' = Closed  BY <1>2, <2>1
  <2>2. CASE e' = [Closed EXCEPT !.saved = TRUE]  BY <1>2, <2>2 DEF EditorStates
  <2>3. QED  BY <2>1, <2>2
<1>4. View' = View  BY <1>3 DEF View
<1>5. QED  BY <1>3, <1>4

LEMMA NoCallsAlone ==
  ASSUME sub' = NoCalls, ~e'.picker
  PROVE  OneSave'
<1>1. \A s \in Subs : NoCalls[s].pc = "idle"  BY NoCallsIs
<1>2. \A s \in Subs : ~Calling(s)'  BY <1>1 DEF Calling
<1>3. QED  BY <1>2 DEF OneSave

LEMMA CancelKeeps ==
  ASSUME EditorInv, Cancel
  PROVE  EditorInv'
<1>1. e' = Closed /\ sub' = NoCalls /\ UNCHANGED <<stored, entry, wanted, resent, overlap, chosen, leaves>>
  BY DEF Cancel
<1>2. /\ e' \in EditorStates /\ e'.of = e.of /\ View' = View /\ e'.imgs = e.imgs /\ ~e'.open /\ ~e'.picker
  BY <1>1, ClosedIs
<1>3. entry \in Seq(Nat) /\ leaves \in 0..MaxLeaves /\ e \in EditorStates  BY DEF EditorInv, EditorData
<1>4. ~e'.saved  BY <1>1, <1>3 DEF Closed, NewEditor, EditorStates
<1>5. EditorData' /\ EditorShown' /\ Sending' /\ PicturesKept' /\ IdsBelong'
  BY <1>1, <1>2, <1>3, <1>4, SamePictures
<1>6. OneSave'  BY <1>1, <1>2, NoCallsAlone
<1>7. QED  BY <1>5, <1>6 DEF EditorInv

LEMMA LeaveEditorKeeps ==
  ASSUME EditorInv, LeaveEditor
  PROVE  EditorInv'
<1>1. EditorData /\ EditorShown /\ OneSave  BY DEF EditorInv
<1>2. /\ e.open /\ leaves < MaxLeaves /\ leaves' = leaves + 1 /\ e' = [e EXCEPT !.shown = FALSE]
      /\ UNCHANGED <<sub, stored, entry, wanted, resent, overlap, chosen>>
  BY DEF LeaveEditor
<1>3. e \in EditorStates /\ entry \in Seq(Nat) /\ leaves \in 0..MaxLeaves  BY <1>1 DEF EditorData
<1>4. e' \in EditorStates /\ e'.of = e.of /\ e'.imgs = e.imgs /\ e'.late = e.late /\ ~e'.shown
      /\ e'.open = e.open /\ e'.saved = e.saved /\ e'.submitting = e.submitting /\ e'.uploading = e.uploading
      /\ e'.picker = e.picker
  BY <1>2, <1>3 DEF EditorStates
<1>5. View' = View  BY <1>4 DEF View
<1>6. ~e.saved /\ (e.picker => e.of = "entry")
  <2>1. e.of \in {"entry", "memory", "cover"}  BY <1>3 DEF EditorStates
  <2>2. QED  BY <1>1, <1>2, <2>1 DEF EditorShown
<1>7. leaves' \in 0..MaxLeaves
  <2>1. \A n \in 0..MaxLeaves : n < MaxLeaves => n + 1 \in 0..MaxLeaves  BY EditorBounds
  <2>2. QED  BY <1>2, <1>3, <2>1
<1>8. EditorData' /\ EditorShown' /\ Sending' /\ PicturesKept' /\ IdsBelong'
  BY <1>2, <1>3, <1>4, <1>5, <1>6, <1>7, SamePictures
<1>9. OneSave'  BY <1>1, <1>2, <1>4, <1>5 DEF OneSave, Calling
<1>10. QED  BY <1>8, <1>9 DEF EditorInv

LEMMA ReturnKeeps ==
  ASSUME EditorInv, Return
  PROVE  EditorInv'
<1>1. EditorData /\ EditorShown /\ OneSave  BY DEF EditorInv
<1>2. /\ e.open /\ e' = [e EXCEPT !.shown = TRUE, !.late = <<>>, !.imgs = View]
      /\ UNCHANGED <<sub, stored, entry, wanted, resent, overlap, chosen, leaves>>
  BY DEF Return
<1>3. e \in EditorStates /\ entry \in Seq(Nat) /\ leaves \in 0..MaxLeaves /\ View \in Seq(Pictures)
  BY <1>1 DEF EditorData, ListIs
<1>4. e' \in EditorStates /\ e'.of = e.of /\ e'.imgs = View /\ e'.late = <<>>
      /\ e'.open = e.open /\ e'.saved = e.saved /\ e'.submitting = e.submitting /\ e'.uploading = e.uploading
      /\ e'.picker = e.picker
  BY <1>2, <1>3 DEF EditorStates
<1>5. View' = View  BY <1>4 DEF View
<1>6. ~e.saved /\ (e.picker => e.of = "entry")
  <2>1. e.of \in {"entry", "memory", "cover"}  BY <1>3 DEF EditorStates
  <2>2. QED  BY <1>1, <1>2, <2>1 DEF EditorShown
<1>7. EditorData' /\ EditorShown' /\ Sending' /\ PicturesKept' /\ IdsBelong'
  BY <1>2, <1>3, <1>4, <1>5, <1>6, SamePictures
<1>8. OneSave'
  <2>1. e.late = <<>> => e'.imgs = e.imgs  BY <1>4 DEF View
  <2>2. QED  BY <1>1, <1>2, <1>4, <1>5, <2>1 DEF OneSave, Calling
<1>9. QED  BY <1>7, <1>8 DEF EditorInv

\* What joins the pictures from the album.
NewPics(q, n) == [i \in 1..n |-> Item(q + i, "new")]

LEMMA MoreIs ==
  ASSUME NEW q \in Nat, NEW n \in Nat, q + n <= MaxPics, NEW imgs, ListIs(imgs, q)
  PROVE  LET long == imgs \o NewPics(q, n)
         IN  /\ ListIs(long, q + n) /\ LivePics(long) = LivePics(imgs) \cup (q + 1)..(q + n)
             /\ Labelled(imgs) => Labelled(long)
             /\ \A S : NewIn(imgs, S) => NewIn(long, S \cup (q + 1)..(q + n))
<1> DEFINE more == NewPics(q, n)
           long == imgs \o more
           k == Len(imgs)
<1>1. imgs \in Seq(Pictures) /\ k \in Nat /\ \A i \in 1..k : imgs[i] \in Pictures
  <2>1. imgs \in Seq(Pictures)  BY DEF ListIs
  <2>2. QED  BY <2>1, PlacesIs
<1>2. \A i \in 1..n : more[i] \in Pictures /\ more[i].pic = q + i /\ more[i].kind = "new"
  <2>1. TAKE i \in 1..n
  <2>2. q + i \in Pics
    <3>1. \A M \in Nat : q + n <= M => q + i \in 1..M  OBVIOUS
    <3>2. QED  BY <3>1, EditorBounds
  <2>3. more[i] = [pic |-> q + i, kind |-> "new", id |-> 0]  BY DEF Item, NewPics
  <2>4. QED  BY <2>2, <2>3 DEF Pictures
<1> HIDE DEF k
<1>3. more \in Seq(Pictures) /\ Len(more) = n
  <2>1. more \in [1..n -> Pictures]
    <3>1. more = [i \in 1..n |-> more[i]]  BY DEF NewPics
    <3>2. QED  BY <1>2, <3>1
  <2> HIDE DEF more
  <2>2. QED  BY <2>1
<1> HIDE DEF more
<1>4. /\ long \in Seq(Pictures) /\ Len(long) = k + n
      /\ \A i \in 1..k + n : long[i] = IF i <= k THEN imgs[i] ELSE more[i - k]
  <2>1. k = Len(imgs)  BY DEF k
  <2>2. QED  BY <1>1, <1>3, <2>1, ConcatProperties
<1> HIDE DEF long
<1>5. \A i \in 1..k : i \in 1..Len(long) /\ long[i] = imgs[i]
  <2>1. \A i \in 1..k : i \in 1..k + n /\ i <= k  BY <1>1
  <2>2. QED  BY <1>4, <2>1
<1>6. \A i \in 1..n : k + i \in 1..Len(long) /\ long[k + i] = more[i]
  <2>1. TAKE i \in 1..n
  <2>2. k + i \in 1..k + n /\ ~(k + i <= k) /\ k + i - k = i  BY <1>1
  <2>3. \A c \in 1..k + n : ~(c <= k) => c \in 1..Len(long) /\ \A a : a = c - k => long[c] = more[a]  BY <1>4
  <2>4. PICK c \in 1..k + n : c = k + i  BY <2>2
  <2>5. ~(c <= k) /\ i = c - k  BY <1>1, <2>4
  <2>6. c \in 1..Len(long) /\ long[c] = more[i]  BY <2>3, <2>5
  <2>7. QED  BY <2>4, <2>6
<1>7. \A i \in 1..Len(long) : i \in 1..k \/ \E j \in 1..n : i = k + j
  <2>1. TAKE i \in 1..Len(long)
  <2>2. i \in 1..k + n  BY <1>4
  <2>3. i \in 1..k \/ (i - k \in 1..n /\ i = k + (i - k))  BY <1>1, <2>2
  <2>4. QED  BY <2>3
<1>8. \A i \in 1..Len(long) :
        \/ i \in 1..k /\ long[i] = imgs[i] /\ long[i].pic <= q
        \/ \E j \in 1..n : i = k + j /\ long[i] = more[j] /\ long[i].pic = q + j
  <2>1. \A i \in 1..k : imgs[i].pic <= q  BY DEF ListIs, k
  <2>2. TAKE i \in 1..Len(long)
  <2>3. CASE i \in 1..k  BY <1>5, <2>1, <2>3
  <2>4. ASSUME NEW j \in 1..n, i = k + j PROVE long[i] = more[j] /\ long[i].pic = q + j
    <3>1. long[i] = more[j]  BY <1>6, <2>4
    <3>2. QED  BY <1>2, <3>1
  <2>5. QED  BY <1>7, <2>3, <2>4
<1>9. ListIs(long, q + n)
  <2>1. \A i \in 1..Len(long) : long[i].pic <= q + n
    <3>1. TAKE i \in 1..Len(long)
    <3>2. CASE i \in 1..k /\ long[i] = imgs[i] /\ long[i].pic <= q
      <4>1. long[i].pic \in Nat  BY <1>1, <3>2, PicturesNat DEF PicIsNat
      <4>2. \A p \in Nat : p <= q => p <= q + n  OBVIOUS
      <4>3. QED  BY <3>2, <4>1, <4>2
    <3>3. ASSUME NEW j \in 1..n, long[i].pic = q + j PROVE long[i].pic <= q + n  BY <3>3
    <3>4. QED  BY <1>8, <3>2, <3>3
  <2>2. ASSUME NEW i \in 1..Len(long), NEW j \in 1..Len(long), long[i].pic = long[j].pic PROVE i = j
    <3>1. CASE i \in 1..k /\ j \in 1..k
      <4>1. imgs[i].pic = imgs[j].pic  BY <1>5, <2>2, <3>1
      <4>2. \A a, b \in 1..k : imgs[a].pic = imgs[b].pic => a = b  BY DEF ListIs, k
      <4>3. QED  BY <3>1, <4>1, <4>2
    <3>2. \A p \in Nat, a \in 1..n : ~(p <= q /\ p = q + a)  OBVIOUS
    <3>3. \A a \in 1..k : long[a].pic \in Nat /\ long[a].pic <= q
      <4>1. \A a \in 1..k : imgs[a].pic \in Nat  BY <1>1, PicturesNat DEF PicIsNat
      <4>2. \A a \in 1..k : imgs[a].pic <= q  BY DEF ListIs, k
      <4>3. QED  BY <1>5, <4>1, <4>2
    <3>4. \A a \in 1..n : long[k + a].pic = q + a  BY <1>2, <1>6
    <3>5. ASSUME NEW a \in 1..n, i = k + a PROVE i = j
      <4>1. j \notin 1..k  BY <2>2, <3>2, <3>3, <3>4, <3>5
      <4>2. PICK b \in 1..n : j = k + b  BY <1>7, <4>1
      <4>3. q + a = q + b  BY <2>2, <3>4, <3>5, <4>2
      <4>4. a = b  BY <4>3
      <4>5. QED  BY <3>5, <4>2, <4>4
    <3>6. ASSUME NEW b \in 1..n, j = k + b, i \in 1..k PROVE FALSE  BY <2>2, <3>2, <3>3, <3>4, <3>6
    <3>7. QED  BY <1>7, <3>1, <3>5, <3>6
  <2>3. QED  BY <1>4, <2>1, <2>2 DEF ListIs
<1>10. LivePics(long) = LivePics(imgs) \cup (q + 1)..(q + n)
  <2> DEFINE P == PlacesOf(imgs, {"new", "kept"})
             Q == PlacesOf(long, {"new", "kept"})
  <2>1. /\ P \subseteq 1..k /\ \A i \in 1..k : i \in P <=> i \in Q
        /\ \A j \in 1..n : k + j \in Q
    <3>1. P = {i \in 1..k : imgs[i].kind \in {"new", "kept"}}  BY DEF PlacesOf, k
    <3>2. Q = {i \in 1..Len(long) : long[i].kind \in {"new", "kept"}}  BY DEF PlacesOf
    <3>3. \A j \in 1..n : k + j \in Q  BY <1>2, <1>6, <3>2
    <3>4. \A i \in 1..k : i \in P <=> i \in Q  BY <1>5, <3>1, <3>2
    <3>5. QED  BY <3>1, <3>3, <3>4
  <2>2. LivePics(long) = {long[i].pic : i \in Q} /\ LivePics(imgs) = {imgs[i].pic : i \in P}  BY DEF LivePics
  <2>3. Q \subseteq 1..Len(long)  BY DEF PlacesOf
  <2> HIDE DEF P, Q
  <2>4. \A i \in Q : long[i].pic \in LivePics(imgs) \cup (q + 1)..(q + n)
    <3>1. TAKE i \in Q
    <3>2. CASE i \in 1..k
      <4>1. i \in P /\ long[i] = imgs[i]  BY <1>5, <2>1, <3>2
      <4>2. QED  BY <2>2, <4>1
    <3>3. ASSUME NEW j \in 1..n, i = k + j PROVE long[i].pic \in (q + 1)..(q + n)
      <4>1. long[i].pic = q + j  BY <1>2, <1>6, <3>3
      <4>2. q + j \in (q + 1)..(q + n)  OBVIOUS
      <4>3. QED  BY <4>1, <4>2
    <3>4. i \in 1..k \/ \E j \in 1..n : i = k + j  BY <1>7, <2>3
    <3>5. QED  BY <3>2, <3>3, <3>4
  <2>5. \A i \in P : imgs[i].pic \in LivePics(long)
    <3>1. TAKE i \in P
    <3>2. i \in Q /\ long[i] = imgs[i]  BY <1>5, <2>1
    <3>3. QED  BY <2>2, <3>2
  <2>6. \A p \in (q + 1)..(q + n) : p \in LivePics(long)
    <3>1. TAKE p \in (q + 1)..(q + n)
    <3>2. p - q \in 1..n /\ p = q + (p - q)  OBVIOUS
    <3>3. PICK j \in 1..n : p = q + j  BY <3>2
    <3>4. k + j \in Q /\ long[k + j].pic = p  BY <1>2, <1>6, <2>1, <3>3
    <3>5. QED  BY <2>2, <3>4
  <2>7. LivePics(long) \subseteq LivePics(imgs) \cup (q + 1)..(q + n)  BY <2>2, <2>4
  <2>8. LivePics(imgs) \subseteq LivePics(long)  BY <2>2, <2>5
  <2>9. QED  BY <2>6, <2>7, <2>8
<1>11. Labelled(imgs) => Labelled(long)
  <2>1. \A i \in 1..Len(long) : long[i].kind = "kept" => i \in 1..k /\ long[i] = imgs[i]  BY <1>2, <1>8
  <2>2. QED  BY <2>1 DEF Labelled, k
<1>12. \A i \in 1..Len(long) : long[i].pic \in (q + 1)..(q + n) \/ \E j \in 1..Len(imgs) : long[i] = imgs[j]
  <2>1. \A j \in 1..n : q + j \in (q + 1)..(q + n)  OBVIOUS
  <2>2. \A i \in 1..k : i \in 1..Len(imgs)  BY DEF k
  <2>3. QED  BY <1>8, <2>1, <2>2
<1>13. ASSUME NEW S, NewIn(imgs, S) PROVE NewIn(long, S \cup (q + 1)..(q + n))  BY <1>12, <1>13 DEF NewIn
<1>14. QED  BY <1>9, <1>10, <1>11, <1>13 DEF long, more

LEMMA ChooseKeeps ==
  ASSUME EditorInv, Choose
  PROVE  EditorInv'
<1>1. EditorData /\ EditorShown /\ OneSave /\ Sending /\ PicturesKept /\ IdsBelong  BY DEF EditorInv
<1>2. e.open /\ e.picker /\ UNCHANGED <<sub, stored, entry, resent, overlap, leaves>>
  BY DEF Choose, EditorCalm
<1> DEFINE back == [e EXCEPT !.picker = FALSE]
           more(n) == NewPics(chosen, n)
<1>3. PICK n \in 0..MaxPics - chosen :
        /\ chosen' = chosen + n /\ wanted' = wanted \cup (chosen + 1)..(chosen + n)
        /\ e' = IF n = 0 THEN back ELSE PutImgs(back, e.imgs \o more(n))
  BY DEF Choose, NewPics
<1> DEFINE long == e.imgs \o more(n)
<1>4. /\ e \in EditorStates /\ ListIs(e.imgs, chosen) /\ ListIs(View, chosen) /\ chosen \in 0..MaxPics
      /\ sub \in [Subs -> CallStates] /\ (\A s \in Subs : SaveIs(sub[s], chosen))
      /\ stored \in [Pics -> 0..2] /\ (\A p \in Pics : p > chosen => stored[p] = 0)
      /\ entry \in Seq(Nat) /\ wanted \subseteq 1..chosen /\ resent \subseteq Pics
      /\ overlap \in BOOLEAN /\ leaves \in 0..MaxLeaves
  BY <1>1 DEF EditorData
<1>5. chosen \in Nat /\ n \in Nat /\ chosen + n <= MaxPics /\ chosen + n \in 0..MaxPics /\ chosen <= chosen + n
  BY <1>4, EditorBounds
<1>6. /\ back \in EditorStates /\ back.of = e.of /\ back.imgs = e.imgs /\ back.late = e.late /\ back.shown = e.shown
      /\ back.open /\ back.saved = e.saved /\ ~back.picker
  BY <1>2, <1>4 DEF EditorStates
<1>7. ~e.saved /\ e.of = "entry"  BY <1>1, <1>2 DEF EditorShown
<1>8. ~overlap => e.late = <<>> /\ \A s \in Subs : sub[s].pc = "idle"  BY <1>1, <1>2 DEF OneSave, Calling
<1>9. CASE n = 0
  <2>1. e' = back  BY <1>3, <1>9
  <2>2. chosen' = chosen /\ wanted' = wanted
    <3>1. chosen + 0 = chosen /\ (chosen + 1)..(chosen + 0) = {}  BY <1>5
    <3>2. QED  BY <1>3, <1>9, <3>1
  <2> HIDE DEF back
  <2>3. View' = View  BY <1>6, <2>1 DEF View
  <2>4. e'.shown /\ e'.open => e'.late = <<>>  BY <1>1, <1>2, <1>6, <2>1 DEF EditorShown
  <2>5. EditorData' /\ EditorShown' /\ Sending' /\ PicturesKept' /\ IdsBelong'
    BY <1>2, <1>4, <1>6, <1>7, <2>1, <2>2, <2>3, <2>4, SamePictures
  <2>6. OneSave'  BY <1>2, <1>6, <1>8, <2>1 DEF OneSave, Calling
  <2>7. QED  BY <2>5, <2>6 DEF EditorInv
<1>10. CASE n # 0
  <2>1. e' = PutImgs(back, long)  BY <1>3, <1>10
  <2> HIDE DEF back
  <2>2. /\ ListIs(long, chosen + n) /\ LivePics(long) = LivePics(e.imgs) \cup (chosen + 1)..(chosen + n)
        /\ Labelled(e.imgs) => Labelled(long)
        /\ \A S : NewIn(e.imgs, S) => NewIn(long, S \cup (chosen + 1)..(chosen + n))
    <3>1. chosen \in Nat /\ n \in Nat /\ chosen + n <= MaxPics /\ ListIs(e.imgs, chosen)  BY <1>4, <1>5
    <3>2. QED  BY <3>1, MoreIs
  <2> HIDE DEF long, more
  <2>3. long \in Seq(Pictures)  BY <2>2 DEF ListIs
  <2>4. /\ e' \in EditorStates /\ e'.of = e.of /\ e'.open /\ e'.saved = e.saved /\ ~e'.picker
        /\ e'.imgs \in {e.imgs, long} /\ View' = long
        /\ e'.shown = e.shown /\ (e.shown => e'.late = e.late)
    <3>1. CASE e.shown
      <4>1. e' = [back EXCEPT !.imgs = long]  BY <1>6, <2>1, <3>1 DEF PutImgs
      <4>2. e.late = <<>>  BY <1>1, <1>2, <3>1 DEF EditorShown
      <4>3. /\ e' \in EditorStates /\ e'.of = back.of /\ e'.open /\ e'.saved = back.saved /\ ~e'.picker
            /\ e'.imgs = long /\ e'.late = back.late /\ e'.shown = back.shown
        BY <1>6, <2>3, <4>1 DEF EditorStates
      <4>4. View' = long  BY <1>6, <4>2, <4>3 DEF View
      <4>5. QED  BY <1>6, <4>3, <4>4
    <3>2. CASE ~e.shown
      <4>1. e' = [back EXCEPT !.late = <<long>>]  BY <1>6, <2>1, <3>2 DEF PutImgs
      <4>2. /\ e' \in EditorStates /\ e'.of = back.of /\ e'.open /\ e'.saved = back.saved /\ ~e'.picker
            /\ e'.imgs = back.imgs /\ e'.late = <<long>> /\ e'.shown = back.shown
        BY <1>6, <2>3, <4>1 DEF EditorStates
      <4>3. View' = long  BY <4>2 DEF View
      <4>4. QED  BY <1>6, <3>2, <4>2, <4>3
    <3>3. QED  BY <3>1, <3>2
  <2>5. ListIs(e.imgs, chosen + n) /\ \A s \in Subs : SaveIs(sub[s], chosen + n)
    <3>1. ASSUME NEW imgs, ListIs(imgs, chosen) PROVE ListIs(imgs, chosen + n)
      <4>1. Len(imgs) \in Nat /\ \A i \in 1..Len(imgs) : imgs[i].pic \in Nat
        <5>1. imgs \in Seq(Pictures)  BY <3>1 DEF ListIs
        <5>2. QED  BY <5>1, PlacesIs, PicturesNat DEF PicIsNat
      <4>2. \A p \in Nat : p <= chosen => p <= chosen + n  BY <1>5
      <4>3. \A i \in 1..Len(imgs) : imgs[i].pic <= chosen + n  BY <3>1, <4>1, <4>2 DEF ListIs
      <4>4. QED  BY <3>1, <4>3 DEF ListIs
    <3>2. \A s \in Subs : SaveIs(sub[s], chosen + n)  BY <1>4, <3>1 DEF SaveIs
    <3>3. QED  BY <1>4, <3>1, <3>2
  <2>6. wanted' \subseteq 1..(chosen + n)
    <3>1. \A p \in 1..chosen : p \in 1..(chosen + n)  BY <1>5
    <3>2. \A p \in (chosen + 1)..(chosen + n) : p \in 1..(chosen + n)  BY <1>5
    <3>3. QED  BY <1>3, <1>4, <3>1, <3>2
  <2>7. EditorData'
    <3>1. ListIs(e'.imgs, chosen') /\ ListIs(View', chosen')  BY <1>3, <2>2, <2>4, <2>5
    <3>2. \A p \in Pics : p > chosen' => stored'[p] = 0
      <4>1. \A p \in Nat : p > chosen + n => p > chosen  BY <1>5
      <4>2. Pics \subseteq Nat  BY EditorBounds
      <4>3. QED  BY <1>2, <1>3, <1>4, <4>1, <4>2
    <3>3. sub' \in [Subs -> CallStates] /\ \A s \in Subs : SaveIs(sub'[s], chosen')  BY <1>2, <1>3, <1>4, <2>5
    <3>4. /\ stored' \in [Pics -> 0..2] /\ entry' \in Seq(Nat) /\ resent' \subseteq Pics /\ overlap' \in BOOLEAN
          /\ leaves' \in 0..MaxLeaves
      BY <1>2, <1>4
    <3>5. chosen' \in 0..MaxPics /\ wanted' \subseteq 1..chosen'  BY <1>3, <1>5, <2>6
    <3>6. QED  BY <2>4, <3>1, <3>2, <3>3, <3>4, <3>5 DEF EditorData
  <2>8. NewIn(e.imgs, wanted') /\ NewIn(long, wanted')
    <3>1. NewIn(e.imgs, wanted')  BY <1>1, <1>3 DEF EditorShown, NewIn
    <3>2. NewIn(long, wanted')  BY <1>1, <1>3, <2>2 DEF EditorShown
    <3>3. QED  BY <3>1, <3>2
  <2>9. EditorShown'
    <3>1. NewIn(e'.imgs, wanted') /\ NewIn(View', wanted')  BY <2>4, <2>8
    <3>2. e'.shown /\ e'.open => e'.late = <<>>  BY <1>1, <1>2, <2>4 DEF EditorShown
    <3>3. QED  BY <1>2, <1>7, <2>4, <3>1, <3>2 DEF EditorShown
  <2>10. OneSave'  BY <1>2, <1>8, <2>4 DEF OneSave, Calling
  <2>11. ~overlap => View = e.imgs  BY <1>8 DEF View
  <2>12. Sending'
    <3>1. \A p : NotSent(p)' <=> NotSent(p)  BY <1>2 DEF NotSent
    <3>2. \A s \in Subs : sub'[s].pc = "upload" => SendsOf(s)'
      <4>1. \A s \in Subs : sub[s].pc = "upload" => SendsOf(s)  BY <1>1 DEF Sending
      <4>2. QED  BY <1>2, <3>1, <4>1 DEF SendsOf
    <3>3. ~overlap' => (\A i \in 1..Len(View) : View[i].kind = "new" => NotSent(View[i].pic))'
      <4>1. HAVE ~overlap'
      <4> DEFINE S == {p \in Pics : NotSent(p)}
      <4>2. NewIn(e.imgs, S)
        <5>1. \A i \in 1..Len(e.imgs) : e.imgs[i].kind = "new" => NotSent(e.imgs[i].pic)
          BY <1>1, <1>2, <1>8, <2>11, <4>1 DEF Sending
        <5>2. \A i \in 1..Len(e.imgs) : e.imgs[i].pic \in Pics
          <6>1. e.imgs \in Seq(Pictures)  BY <1>4 DEF ListIs
          <6>2. QED  BY <6>1, PlacesIs, PicturesNat DEF PicIsNat
        <5>3. QED  BY <5>1, <5>2 DEF NewIn
      <4>3. \A p \in (chosen + 1)..(chosen + n) : p \in S
        <5>1. \A p \in (chosen + 1)..(chosen + n) : p \in 1..MaxPics /\ p > chosen  BY <1>5, EditorBounds
        <5>2. QED  BY <1>4, <5>1, EditorBounds DEF NotSent
      <4>4. NewIn(long, S \cup (chosen + 1)..(chosen + n))  BY <2>2, <4>2
      <4>5. \A i \in 1..Len(long) : long[i].kind = "new" => NotSent(long[i].pic)  BY <4>3, <4>4 DEF NewIn
      <4>6. QED  BY <2>4, <3>1, <4>5
    <3>4. \A p \in Pics : stored'[p] > 1 => p \in resent'  BY <1>1, <1>2 DEF Sending
    <3>5. QED  BY <3>2, <3>3, <3>4 DEF Sending
  <2>13. PicturesKept'
    <3>1. ~overlap => LivePics(e.imgs) = wanted  BY <1>1, <2>11, KeptMeans
    <3>2. ~overlap => LivePics(long) = wanted'  BY <1>3, <2>2, <3>1
    <3>3. PicsOf(Live(long)) = LivePics(long)  BY <2>3, LiveIs
    <3>4. QED  BY <1>2, <2>4, <3>2, <3>3 DEF PicturesKept
  <2>14. IdsBelong'
    <3>1. ~overlap => Labelled(e.imgs)  BY <1>1, <2>11, LabelsMean
    <3>2. ~overlap => Labelled(long)  BY <2>2, <3>1
    <3>3. QED  BY <1>2, <1>7, <2>4, <3>2 DEF IdsBelong, Labelled
  <2>15. QED  BY <2>7, <2>9, <2>10, <2>12, <2>13, <2>14 DEF EditorInv
<1>11. QED  BY <1>9, <1>10

LEMMA DeletedIs ==
  ASSUME NEW x \in Pictures
  PROVE  LET y == [x EXCEPT !.kind = "deleted"]
         IN  y \in Pictures /\ y.pic = x.pic /\ y.kind = "deleted" /\ y.id = x.id
BY DEF Pictures

\* One picture less.
LEMMA LessIs ==
  ASSUME NEW q, NEW imgs, ListIs(imgs, q), NEW i \in 1..Len(imgs), imgs[i].kind # "deleted"
  PROVE  LET less == [imgs EXCEPT ![i].kind = "deleted"]
         IN  /\ ListIs(less, q) /\ LivePics(less) = LivePics(imgs) \ {imgs[i].pic}
             /\ Labelled(imgs) => Labelled(less)
             /\ \A S : NewIn(imgs, S) => NewIn(less, S \ {imgs[i].pic})
<1> DEFINE less == [imgs EXCEPT ![i].kind = "deleted"]
<1>1. imgs \in Seq(Pictures) /\ Len(imgs) \in Nat /\ \A c \in 1..Len(imgs) : imgs[c] \in Pictures
  <2>1. imgs \in Seq(Pictures)  BY DEF ListIs
  <2>2. QED  BY <2>1, PlacesIs
<1>2. DOMAIN imgs = 1..Len(imgs)  BY <1>1
<1>3. less = [c \in 1..Len(imgs) |-> IF c = i THEN [imgs[i] EXCEPT !.kind = "deleted"] ELSE imgs[c]]
  BY <1>1, <1>2
<1>4. /\ less[i] \in Pictures /\ less[i].pic = imgs[i].pic /\ less[i].kind = "deleted" /\ less[i].id = imgs[i].id
      /\ \A c \in 1..Len(imgs) : c # i => less[c] = imgs[c]
  <2>1. less[i] = [imgs[i] EXCEPT !.kind = "deleted"]  BY <1>3
  <2>2. imgs[i] \in Pictures  BY <1>1
  <2>3. \A c \in 1..Len(imgs) : c # i => less[c] = imgs[c]  BY <1>3
  <2> HIDE DEF less
  <2>4. less[i] \in Pictures /\ less[i].pic = imgs[i].pic /\ less[i].kind = "deleted" /\ less[i].id = imgs[i].id
    BY <2>1, <2>2, DeletedIs
  <2>5. QED  BY <2>3, <2>4
<1>5. less \in Seq(Pictures) /\ Len(less) = Len(imgs)
  <2>1. less = [c \in 1..Len(imgs) |-> less[c]]  BY <1>3
  <2> HIDE DEF less
  <2>2. \A c \in 1..Len(imgs) : less[c] \in Pictures  BY <1>1, <1>4
  <2>3. less \in [1..Len(imgs) -> Pictures]  BY <2>1, <2>2
  <2>4. QED  BY <1>1, <2>3
<1> HIDE DEF less
<1>6. \A c \in 1..Len(imgs) : less[c].pic = imgs[c].pic  BY <1>4
<1>7. ListIs(less, q)  BY <1>5, <1>6 DEF ListIs
<1>8. \A a, b \in 1..Len(imgs) : imgs[a].pic = imgs[b].pic => a = b  BY DEF ListIs
<1>9. LivePics(less) = LivePics(imgs) \ {imgs[i].pic}
  <2> DEFINE P == PlacesOf(imgs, {"new", "kept"})
             Q == PlacesOf(less, {"new", "kept"})
  <2>1. Q = P \ {i} /\ P \subseteq 1..Len(imgs)
    <3>1. \A c \in 1..Len(imgs) : c \in Q <=> c \in P /\ c # i  BY <1>4, <1>5 DEF PlacesOf
    <3>2. Q \subseteq 1..Len(imgs) /\ P \subseteq 1..Len(imgs)  BY <1>5 DEF PlacesOf
    <3>3. QED  BY <3>1, <3>2
  <2>2. LivePics(less) = {less[c].pic : c \in Q} /\ LivePics(imgs) = {imgs[c].pic : c \in P}  BY DEF LivePics
  <2> HIDE DEF P, Q
  <2>3. \A c \in Q : less[c].pic \in LivePics(imgs) /\ less[c].pic # imgs[i].pic
    <3>1. TAKE c \in Q
    <3>2. c \in P /\ c # i /\ c \in 1..Len(imgs) /\ less[c].pic = imgs[c].pic  BY <1>6, <2>1
    <3>3. QED  BY <1>8, <2>2, <3>2
  <2>4. \A c \in P : imgs[c].pic # imgs[i].pic => imgs[c].pic \in LivePics(less)
    <3>1. TAKE c \in P
    <3>2. HAVE imgs[c].pic # imgs[i].pic
    <3>3. c \in Q /\ less[c].pic = imgs[c].pic  BY <1>6, <2>1, <3>2
    <3>4. QED  BY <2>2, <3>3
  <2>5. QED  BY <2>2, <2>3, <2>4
<1>10. Labelled(imgs) => Labelled(less)  BY <1>4, <1>5 DEF Labelled
<1>11. ASSUME NEW S, NewIn(imgs, S) PROVE NewIn(less, S \ {imgs[i].pic})
  <2>1. SUFFICES ASSUME NEW c \in 1..Len(less), less[c].kind = "new" PROVE less[c].pic \in S \ {imgs[i].pic}
    BY DEF NewIn
  <2>3. c \in 1..Len(imgs) /\ c # i /\ less[c] = imgs[c]  BY <1>4, <1>5, <2>1
  <2>4. imgs[c].pic # imgs[i].pic  BY <1>8, <2>3
  <2>5. imgs[c].pic \in S  BY <1>11, <2>1, <2>3 DEF NewIn
  <2>6. QED  BY <2>3, <2>4, <2>5
<1>12. QED  BY <1>7, <1>9, <1>10, <1>11 DEF less

LEMMA DelImageKeeps ==
  ASSUME EditorInv, DelImage
  PROVE  EditorInv'
<1>1. EditorData /\ EditorShown /\ OneSave /\ Sending /\ PicturesKept /\ IdsBelong  BY DEF EditorInv
<1>2. /\ e.open /\ e.shown /\ ~e.picker /\ e.of = "entry" /\ ~e.submitting
      /\ UNCHANGED <<sub, stored, entry, resent, overlap, chosen, leaves>>
  BY DEF DelImage, Touch, EditorCalm
<1>3. PICK i \in 1..Len(e.imgs) :
        /\ e.imgs[i].kind # "deleted" /\ e' = [e EXCEPT !.imgs[i].kind = "deleted"]
        /\ wanted' = wanted \ {e.imgs[i].pic}
  BY DEF DelImage
<1> DEFINE less == [e.imgs EXCEPT ![i].kind = "deleted"]
           p == e.imgs[i].pic
<1>4. /\ e \in EditorStates /\ ListIs(e.imgs, chosen) /\ ListIs(View, chosen) /\ chosen \in 0..MaxPics
      /\ sub \in [Subs -> CallStates] /\ (\A s \in Subs : SaveIs(sub[s], chosen))
      /\ stored \in [Pics -> 0..2] /\ (\A c \in Pics : c > chosen => stored[c] = 0)
      /\ entry \in Seq(Nat) /\ wanted \subseteq 1..chosen /\ resent \subseteq Pics
      /\ overlap \in BOOLEAN /\ leaves \in 0..MaxLeaves
  BY <1>1 DEF EditorData
<1>5. /\ ListIs(less, chosen) /\ LivePics(less) = LivePics(e.imgs) \ {p}
      /\ Labelled(e.imgs) => Labelled(less)
      /\ \A S : NewIn(e.imgs, S) => NewIn(less, S \ {p})
  BY <1>3, <1>4, LessIs
<1>6. e' = [e EXCEPT !.imgs = less]  BY <1>3, <1>4 DEF EditorStates
<1> HIDE DEF less, p
<1>7. less \in Seq(Pictures)  BY <1>5 DEF ListIs
<1>8. /\ e' \in EditorStates /\ e'.of = e.of /\ e'.open /\ e'.saved = e.saved /\ ~e'.picker /\ e'.shown
      /\ e'.imgs = less /\ e'.late = e.late
  BY <1>2, <1>4, <1>6, <1>7 DEF EditorStates
<1>9. e.late = <<>> /\ ~e.saved  BY <1>1, <1>2 DEF EditorShown
<1>10. View = e.imgs /\ View' = less  BY <1>8, <1>9 DEF View
<1>11. ~overlap => \A s \in Subs : sub[s].pc = "idle"  BY <1>1, <1>2 DEF OneSave, Calling
<1>12. wanted' = wanted \ {p}  BY <1>3 DEF p
<1>13. EditorData'
  <2>1. ListIs(e'.imgs, chosen) /\ ListIs(View', chosen)  BY <1>5, <1>8, <1>10
  <2>2. wanted' \subseteq 1..chosen  BY <1>4, <1>12
  <2>3. QED  BY <1>2, <1>4, <1>8, <2>1, <2>2 DEF EditorData
<1>14. EditorShown'
  <2>1. NewIn(less, wanted')  BY <1>1, <1>5, <1>12 DEF EditorShown
  <2>2. QED  BY <1>2, <1>8, <1>9, <1>10, <2>1 DEF EditorShown
<1>15. OneSave'  BY <1>2, <1>8, <1>9, <1>11 DEF OneSave, Calling
<1>16. Sending'
  <2>1. \A c : NotSent(c)' <=> NotSent(c)  BY <1>2 DEF NotSent
  <2>2. \A s \in Subs : sub'[s].pc = "upload" => SendsOf(s)'
    <3>1. \A s \in Subs : sub[s].pc = "upload" => SendsOf(s)  BY <1>1 DEF Sending
    <3>2. QED  BY <1>2, <2>1, <3>1 DEF SendsOf
  <2>3. ~overlap' => (\A c \in 1..Len(View) : View[c].kind = "new" => NotSent(View[c].pic))'
    <3>1. HAVE ~overlap'
    <3> DEFINE S == {c \in Pics : NotSent(c)}
    <3>2. NewIn(e.imgs, S)
      <4>1. \A c \in 1..Len(e.imgs) : e.imgs[c].kind = "new" => NotSent(e.imgs[c].pic)
        BY <1>1, <1>2, <1>10, <1>11, <3>1 DEF Sending
      <4>2. \A c \in 1..Len(e.imgs) : e.imgs[c].pic \in Pics
        <5>1. e.imgs \in Seq(Pictures)  BY <1>4 DEF ListIs
        <5>2. QED  BY <5>1, PlacesIs, PicturesNat DEF PicIsNat
      <4>3. QED  BY <4>1, <4>2 DEF NewIn
    <3>3. NewIn(less, S \ {p})  BY <1>5, <3>2
    <3>4. \A c \in 1..Len(less) : less[c].kind = "new" => NotSent(less[c].pic)  BY <3>3 DEF NewIn
    <3>5. QED  BY <1>10, <2>1, <3>4
  <2>4. \A c \in Pics : stored'[c] > 1 => c \in resent'  BY <1>1, <1>2 DEF Sending
  <2>5. QED  BY <2>2, <2>3, <2>4 DEF Sending
<1>17. PicturesKept'
  <2>1. ~overlap => LivePics(e.imgs) = wanted  BY <1>1, <1>10, KeptMeans
  <2>2. ~overlap => LivePics(less) = wanted'  BY <1>5, <1>12, <2>1
  <2>3. PicsOf(Live(less)) = LivePics(less)  BY <1>7, LiveIs
  <2>4. QED  BY <1>2, <1>10, <2>2, <2>3 DEF PicturesKept
<1>18. IdsBelong'
  <2>1. ~overlap => Labelled(less)  BY <1>1, <1>5, <1>10, LabelsMean
  <2>2. QED  BY <1>2, <1>8, <1>9, <1>10, <2>1 DEF IdsBelong, Labelled
<1>19. QED  BY <1>13, <1>14, <1>15, <1>16, <1>17, <1>18 DEF EditorInv

LEMMA PatchNew ==
  ASSUME NEW imgs, NEW old, NEW call, PatchOf(imgs, old, call)
  PROVE  /\ \A S : NewIn(old, S) => NewIn(imgs, S)
         /\ (\A i \in 1..Len(old) : call.res[i] = "ok" => call.snap[i].pic = old[i].pic) \/ NewIn(old, {}) =>
              (Labelled(old) => Labelled(imgs))
         /\ old = <<>> => imgs = <<>>
<1>1. /\ imgs \in Seq(Pictures) /\ Len(imgs) = Len(old)
      /\ \A i \in 1..Len(old) : imgs[i].pic = old[i].pic
      /\ \A i \in 1..Len(old) :
           \/ imgs[i] = old[i]
           \/ /\ old[i].kind = "new" /\ call.res[i] = "ok" /\ imgs[i].kind = "kept" /\ imgs[i].id = call.snap[i].pic
  BY DEF PatchOf, Alike
<1>2. \A S : NewIn(old, S) => NewIn(imgs, S)
  <2>1. \A i \in 1..Len(imgs) : imgs[i].kind = "new" => i \in 1..Len(old) /\ imgs[i] = old[i]
    <3>1. "kept" # "new"  OBVIOUS
    <3>2. QED  BY <1>1, <3>1
  <2>2. QED  BY <2>1 DEF NewIn
<1>3. ASSUME \A i \in 1..Len(old) : call.res[i] = "ok" => call.snap[i].pic = old[i].pic, Labelled(old)
      PROVE  Labelled(imgs)
  <2>1. \A i \in 1..Len(old) : imgs[i].kind = "kept" => imgs[i].id = imgs[i].pic
    <3>1. TAKE i \in 1..Len(old)
    <3>2. CASE imgs[i] = old[i]  BY <1>3, <3>2 DEF Labelled
    <3>3. CASE call.res[i] = "ok" /\ imgs[i].id = call.snap[i].pic  BY <1>1, <1>3, <3>3
    <3>4. QED  BY <1>1, <3>2, <3>3
  <2>2. QED  BY <1>1, <2>1 DEF Labelled
<1>4. ASSUME NewIn(old, {}), Labelled(old) PROVE Labelled(imgs)
  <2>1. \A i \in 1..Len(old) : old[i].kind # "new"  BY <1>4 DEF NewIn
  <2>2. \A i \in 1..Len(old) : imgs[i] = old[i]  BY <1>1, <2>1
  <2>3. QED  BY <1>1, <1>4, <2>2 DEF Labelled
<1>5. ASSUME old = <<>> PROVE imgs = <<>>
  <2>1. Len(imgs) = 0  BY <1>1, <1>5
  <2>2. QED  BY <1>1, <2>1
<1>6. QED  BY <1>2, <1>3, <1>4, <1>5

\* A call that fails.
LEMMA FailsKeeps ==
  ASSUME EditorInv, NEW s \in Subs, Calling(s), e.open, Fails(s, sub[s]), entry' \in Seq(Nat),
         UNCHANGED <<stored, wanted, overlap, chosen, leaves>>,
         ~overlap /\ sub[s].pc = "upload" => \A i \in 1..Len(sub[s].res) : sub[s].res[i] # "todo"
  PROVE  EditorInv'
<1> DEFINE call == sub[s]
           n == Patched(e, call)
<1>1. EditorData /\ EditorShown /\ OneSave /\ Sending /\ PicturesKept /\ IdsBelong  BY DEF EditorInv
<1>2. /\ e' = Ended(n, s) /\ sub' = [sub EXCEPT ![s] = NoSave]
      /\ resent' = resent \cup (IF e.shown THEN {} ELSE wanted)
  BY DEF Fails
<1>3. /\ e \in EditorStates /\ ListIs(e.imgs, chosen) /\ ListIs(View, chosen) /\ chosen \in 0..MaxPics
      /\ sub \in [Subs -> CallStates] /\ (\A c \in Subs : SaveIs(sub[c], chosen))
      /\ stored \in [Pics -> 0..2] /\ (\A p \in Pics : p > chosen => stored[p] = 0)
      /\ entry \in Seq(Nat) /\ wanted \subseteq 1..chosen /\ resent \subseteq Pics
      /\ overlap \in BOOLEAN /\ leaves \in 0..MaxLeaves
  BY <1>1 DEF EditorData
<1>4. SaveIs(call, chosen)  BY <1>3
<1>5. /\ SameEditor(n) /\ PatchOf(n.imgs, e.imgs, call) /\ (~e.shown => n.imgs = e.imgs)
      /\ e.shown /\ Len(call.snap) = Len(e.imgs) =>
           \A i \in 1..Len(e.imgs) : call.res[i] = "ok" => n.imgs[i].kind # "new"
  BY <1>3, <1>4, PatchedIs
<1> DEFINE imgs == n.imgs
<1> HIDE DEF n
<1>6. /\ e' \in EditorStates /\ e'.imgs = imgs /\ e'.of = e.of /\ e'.open = e.open /\ e'.shown = e.shown
      /\ e'.saved = e.saved /\ e'.late = e.late /\ e'.picker = e.picker
  <2>1. n \in EditorStates  BY <1>5 DEF SameEditor
  <2>2. /\ e' \in EditorStates /\ e'.imgs = n.imgs /\ e'.of = n.of /\ e'.open = n.open /\ e'.shown = n.shown
        /\ e'.saved = n.saved /\ e'.late = n.late /\ e'.picker = n.picker
    BY <1>2, <2>1, EndedIs
  <2>3. QED  BY <1>5, <2>2 DEF SameEditor
<1> HIDE DEF imgs
<1>7. PatchOf(imgs, e.imgs, call) /\ (~e.shown => imgs = e.imgs)  BY <1>5 DEF imgs
<1>8. /\ \A S : NewIn(e.imgs, S) => NewIn(imgs, S)
      /\ e.imgs = <<>> => imgs = <<>>
  BY <1>7, PatchNew
<1>9. ListIs(imgs, chosen) /\ LivePics(imgs) = LivePics(e.imgs)
  <2>1. Alike(imgs, e.imgs)  BY <1>7 DEF PatchOf
  <2>2. QED  BY <1>3, <2>1, AlikeIs
<1>10. /\ e.late = <<>> => View = e.imgs /\ View' = imgs
       /\ e.late # <<>> => View' = View
  BY <1>6 DEF View
<1>11. /\ ListIs(View', chosen) /\ LivePics(View') = LivePics(View)
       /\ \A S : NewIn(View, S) => NewIn(View', S)
       /\ View = <<>> => View' = <<>>
  <2>1. CASE e.late = <<>>  BY <1>8, <1>9, <1>10, <2>1
  <2>2. CASE e.late # <<>>  BY <1>3, <1>10, <2>2
  <2>3. QED  BY <2>1, <2>2
<1>12. sub'[s] = NoSave /\ \A c \in Subs : c # s => sub'[c] = sub[c]  BY <1>2, <1>3
<1>13. NoSave.pc = "idle" /\ SaveIs(NoSave, chosen)  BY NoSaveIs
<1>14. ~overlap => \A c \in Subs : sub'[c].pc = "idle"  BY <1>1, <1>12, <1>13 DEF OneSave, Calling
<1>15. EditorData'
  <2>1. sub' \in [Subs -> CallStates] /\ \A c \in Subs : SaveIs(sub'[c], chosen)
    <3>1. NoSave \in CallStates  BY <1>13 DEF SaveIs
    <3>2. sub' \in [Subs -> CallStates]  BY <1>2, <1>3, <3>1
    <3>3. \A c \in Subs : SaveIs(sub'[c], chosen)  BY <1>3, <1>12, <1>13
    <3>4. QED  BY <3>2, <3>3
  <2>2. resent' \subseteq Pics
    <3>1. \A p \in 1..chosen : p \in Pics
      <4>1. \A k \in 0..MaxPics : \A p \in 1..k : p \in 1..MaxPics  BY EditorBounds
      <4>2. QED  BY <1>3, <4>1, EditorBounds
    <3>2. QED  BY <1>2, <1>3, <3>1
  <2>3. ListIs(e'.imgs, chosen) /\ ListIs(View', chosen)  BY <1>6, <1>9, <1>11
  <2>4. QED  BY <1>3, <1>6, <2>1, <2>2, <2>3 DEF EditorData
<1>16. EditorShown'
  <2>1. NewIn(e'.imgs, wanted) /\ NewIn(View', wanted)  BY <1>1, <1>6, <1>8, <1>11 DEF EditorShown
  <2>2. e'.of # "entry" => View' = <<>> /\ ~e'.picker /\ wanted = {}  BY <1>1, <1>6, <1>11 DEF EditorShown
  <2>3. \A c \in Subs : sub'[c].pc = "upload" => e'.of = "entry"
    <3>1. \A c \in Subs : sub'[c].pc = "upload" => c # s /\ sub[c].pc = "upload"  BY <1>12, <1>13
    <3>2. QED  BY <1>1, <1>6, <3>1 DEF EditorShown
  <2>4. QED  BY <1>1, <1>6, <2>1, <2>2, <2>3 DEF EditorShown
<1>17. OneSave'
  <2>1. ~overlap => (e'.picker => e'.late = <<>>)  BY <1>1, <1>6 DEF OneSave
  <2>2. QED  BY <1>14, <2>1 DEF OneSave, Calling
<1>18. ~overlap /\ call.pc = "upload" =>
         /\ call.snap = e.imgs /\ e.late = <<>> /\ call.res \in Seq(Outcomes) /\ Len(call.res) = Len(e.imgs)
         /\ \A i \in 1..Len(e.imgs) : e.imgs[i].kind = "new" <=> call.res[i] # "none"
  <2>1. ~overlap /\ call.pc = "upload" => call.snap = e.imgs /\ e.late = <<>>  BY <1>1 DEF OneSave
  <2>2. Len(call.res) = Len(call.snap) /\ call.res \in Seq(Outcomes)  BY <1>4 DEF SaveIs, CallStates
  <2>3. QED  BY <1>4, <2>1, <2>2 DEF SaveIs
<1>19. ~overlap /\ call.pc = "save" => NewIn(View, {})
  <2>1. ~overlap /\ call.pc = "save" => ~Has(View, "new")  BY <1>1 DEF OneSave, Calling
  <2>2. QED  BY <2>1, HasIs DEF NewIn
<1>20. call.pc \in {"upload", "save"}
  <2>1. call.pc \in {"idle", "upload", "save"} /\ call.pc # "idle"  BY <1>4 DEF SaveIs, CallStates, Calling
  <2>2. QED  BY <2>1
<1>21. Sending'
  <2>1. \A p : NotSent(p) => NotSent(p)'  BY <1>2 DEF NotSent
  <2>2. \A c \in Subs : sub'[c].pc = "upload" => SendsOf(c)'
    <3>1. TAKE c \in Subs
    <3>2. HAVE sub'[c].pc = "upload"
    <3>3. sub'[c] = sub[c]  BY <1>12, <1>13, <3>2
    <3>4. SendsOf(c)  BY <1>1, <3>2, <3>3 DEF Sending
    <3>5. \A i \in 1..Len(sub[c].snap) :
            /\ sub[c].res[i] \in {"todo", "failed"} => NotSent(sub[c].snap[i].pic)
            /\ overlap /\ sub[c].res[i] = "todo" => sub[c].snap[i].pic \in resent
      BY <3>4 DEF SendsOf
    <3>6. overlap' = overlap /\ resent \subseteq resent'  BY <1>2
    <3>7. QED  BY <2>1, <3>3, <3>5, <3>6 DEF SendsOf
  <2>3. ~overlap' => (\A i \in 1..Len(View) : View[i].kind = "new" => NotSent(View[i].pic))'
    <3>1. HAVE ~overlap'
    <3>2. CASE call.pc = "save"
      <4>1. NewIn(View', {})  BY <1>11, <1>19, <3>1, <3>2
      <4>2. QED  BY <4>1 DEF NewIn
    <3>3. CASE call.pc = "upload" /\ ~e.shown
      <4>1. NewIn(View', wanted)  BY <1>1, <1>11 DEF EditorShown
      <4>2. \A p \in wanted : NotSent(p)'  BY <1>2, <3>3 DEF NotSent
      <4>3. QED  BY <4>1, <4>2 DEF NewIn
    <3>4. CASE call.pc = "upload" /\ e.shown
      <4>1. SendsOf(s)  BY <1>1, <3>4 DEF Sending
      <4>2. \A i \in 1..Len(e.imgs) : call.res[i] = "failed" => NotSent(e.imgs[i].pic)
        BY <1>18, <3>1, <3>4, <4>1 DEF SendsOf
      <4>3. Len(imgs) = Len(e.imgs) /\ \A i \in 1..Len(e.imgs) : imgs[i].pic = e.imgs[i].pic
        BY <1>7 DEF PatchOf, Alike
      <4>4. \A i \in 1..Len(e.imgs) : imgs[i].kind = "new" => call.res[i] = "failed"
        <5>1. TAKE i \in 1..Len(e.imgs)
        <5>2. HAVE imgs[i].kind = "new"
        <5>3. e.imgs[i].kind = "new"
          <6>1. imgs[i] = e.imgs[i] \/ imgs[i].kind = "kept"  BY <1>7 DEF PatchOf
          <6>2. QED  BY <5>2, <6>1
        <5>4. call.res[i] # "ok"  BY <1>5, <1>18, <3>1, <3>4, <5>2 DEF imgs
        <5>5. call.res[i] # "none" /\ call.res[i] # "todo"  BY <1>18, <3>1, <3>4, <5>3
        <5>6. call.res[i] \in Outcomes
          <6>1. i \in 1..Len(call.res) /\ call.res \in Seq(Outcomes)  BY <1>18, <3>1, <3>4
          <6>2. QED  BY <6>1, ElementOfSeq
        <5>7. QED  BY <5>4, <5>5, <5>6 DEF Outcomes
      <4>5. \A i \in 1..Len(imgs) : imgs[i].kind = "new" => NotSent(imgs[i].pic)  BY <4>2, <4>3, <4>4
      <4>6. View' = imgs  BY <1>10, <1>18, <3>1, <3>4
      <4>7. QED  BY <2>1, <4>5, <4>6
    <3>5. QED  BY <1>20, <3>2, <3>3, <3>4
  <2>4. \A p \in Pics : stored'[p] > 1 => p \in resent'  BY <1>1, <1>2 DEF Sending
  <2>5. QED  BY <2>2, <2>3, <2>4 DEF Sending
<1>22. PicturesKept'
  <2>1. ~overlap => LivePics(View') = wanted  BY <1>1, <1>11, KeptMeans
  <2>2. View' \in Seq(Pictures)  BY <1>11 DEF ListIs
  <2>3. PicsOf(Live(View')) = LivePics(View')  BY <2>2, LiveIs
  <2>4. QED  BY <2>1, <2>3 DEF PicturesKept
<1>23. IdsBelong'
  <2>1. ~overlap => Labelled(View)  BY <1>1, LabelsMean
  <2>2. ~overlap => Labelled(View')
    <3>1. HAVE ~overlap
    <3>2. CASE e.late # <<>>  BY <1>10, <2>1, <3>1, <3>2
    <3>3. CASE e.late = <<>> /\ call.pc = "save"
      <4>1. NewIn(e.imgs, {}) /\ Labelled(e.imgs)  BY <1>10, <1>19, <2>1, <3>1, <3>3
      <4>2. QED  BY <1>7, <1>10, <3>3, <4>1, PatchNew
    <3>4. CASE e.late = <<>> /\ call.pc = "upload"
      <4>1. Labelled(e.imgs) /\ \A i \in 1..Len(e.imgs) : call.snap[i].pic = e.imgs[i].pic
        BY <1>10, <1>18, <2>1, <3>1, <3>4
      <4>2. QED  BY <1>7, <1>10, <3>4, <4>1, PatchNew
    <3>5. QED  BY <1>20, <3>2, <3>3, <3>4
  <2>3. ~e'.saved  BY <1>1, <1>6 DEF EditorShown
  <2>4. QED  BY <2>2, <2>3 DEF IdsBelong, Labelled
<1>24. QED  BY <1>15, <1>16, <1>17, <1>21, <1>22, <1>23 DEF EditorInv

LEMMA RejectedKeeps ==
  ASSUME EditorInv, NEW s \in Subs, Rejected(s)
  PROVE  EditorInv'
<1>1. EditorData /\ OneSave  BY DEF EditorInv
<1>2. /\ e.open /\ sub[s].pc # "idle" /\ ~sub[s].valid /\ Fails(s, sub[s])
      /\ UNCHANGED <<stored, wanted, overlap, chosen, leaves>>
      /\ entry' \in {entry} \cup {sub[c].ids : c \in {s} \cap {c \in Subs : sub[c].pc = "save"}}
  BY DEF Rejected, Cancelled
<1>3. Calling(s)  BY <1>2 DEF Calling
<1>4. overlap
  <2>1. overlap \in BOOLEAN  BY <1>1 DEF EditorData
  <2>2. QED  BY <1>1, <1>2, <1>3, <2>1 DEF OneSave
<1>5. entry' \in Seq(Nat)
  <2>1. entry \in Seq(Nat) /\ \A c \in Subs : sub[c].ids \in Seq(Nat)  BY <1>1 DEF EditorData, CallStates
  <2>2. entry' = entry \/ \E c \in Subs : entry' = sub[c].ids  BY <1>2
  <2>3. QED  BY <2>1, <2>2
<1>6. QED  BY <1>2, <1>3, <1>4, <1>5, FailsKeeps

LEMMA SaveEndsKeeps ==
  ASSUME EditorInv, NEW s \in Subs, SaveEnds(s)
  PROVE  EditorInv'
<1>1. EditorData /\ OneSave  BY DEF EditorInv
<1>2. e.open /\ sub[s].pc = "save" /\ UNCHANGED <<stored, wanted, overlap, chosen, leaves>>
  BY DEF SaveEnds, EditorCalm
<1>3. Calling(s)  BY <1>2 DEF Calling
<1>4. entry \in Seq(Nat) /\ sub[s].ids \in Seq(Nat) /\ leaves \in 0..MaxLeaves
  BY <1>1 DEF EditorData, CallStates
<1>5. CASE entry' = sub[s].ids /\ e' = [Closed EXCEPT !.saved = TRUE] /\ sub' = NoCalls /\ UNCHANGED resent
  <2>1. ~overlap => IdsOf(entry') = wanted  BY <1>1, <1>2, <1>3, <1>5 DEF OneSave
  <2>2. e' \in EditorStates /\ e'.of = e.of /\ View' = View /\ e'.imgs = e.imgs /\ ~e'.open /\ ~e'.picker
    BY <1>5, ClosedIs
  <2>3. entry' \in Seq(Nat)  BY <1>4, <1>5
  <2>4. EditorData' /\ EditorShown' /\ Sending' /\ PicturesKept' /\ IdsBelong'
    BY <1>2, <1>4, <1>5, <2>1, <2>2, <2>3, SamePictures
  <2>5. OneSave'  BY <1>5, <2>2, NoCallsAlone
  <2>6. QED  BY <2>4, <2>5 DEF EditorInv
<1>6. CASE entry' \in {entry, sub[s].ids} /\ Fails(s, sub[s])
  <2>1. entry' \in Seq(Nat)  BY <1>4, <1>6
  <2>2. QED  BY <1>2, <1>3, <1>6, <2>1, FailsKeeps
<1>7. QED  BY <1>5, <1>6 DEF SaveEnds

\* Cancelling a call leaves what it does to its own next step.
LEMMA CancelOfIs ==
  ASSUME NEW q, sub \in [Subs -> CallStates], \A s \in Subs : SaveIs(sub[s], q), NEW t \in Subs \cup {NoSub}
  PROVE  LET saves == CancelOf(sub, t)
         IN  /\ saves \in [Subs -> CallStates] /\ \A s \in Subs : SaveIs(saves[s], q)
             /\ \A s \in Subs : /\ saves[s].pc = sub[s].pc /\ saves[s].snap = sub[s].snap
                                /\ saves[s].res = sub[s].res /\ saves[s].ids = sub[s].ids
<1> DEFINE saves == CancelOf(sub, t)
<1>1. saves = sub \/ (t \in Subs /\ saves = [sub EXCEPT ![t].valid = FALSE])  BY DEF CancelOf
<1> HIDE DEF saves
<1>2. CASE saves = sub  BY <1>2 DEF saves
<1>3. CASE t \in Subs /\ saves = [sub EXCEPT ![t].valid = FALSE]
  <2>1. \A s \in Subs : /\ saves[s] \in CallStates /\ saves[s].pc = sub[s].pc /\ saves[s].snap = sub[s].snap
                        /\ saves[s].res = sub[s].res /\ saves[s].ids = sub[s].ids
    <3>1. TAKE s \in Subs
    <3>2. CASE s = t
      <4>1. saves[s] = [sub[s] EXCEPT !.valid = FALSE] /\ sub[s] \in CallStates  BY <1>3, <3>2
      <4>2. QED  BY <4>1 DEF CallStates
    <3>3. CASE s # t
      <4>1. saves[s] = sub[s] /\ sub[s] \in CallStates  BY <1>3, <3>3
      <4>2. QED  BY <4>1
    <3>4. QED  BY <3>2, <3>3
  <2>2. saves = [s \in Subs |-> saves[s]]  BY <1>3
  <2>3. saves \in [Subs -> CallStates]  BY <2>1, <2>2
  <2>4. \A s \in Subs : SaveIs(saves[s], q)  BY <2>1 DEF SaveIs
  <2>5. QED  BY <2>1, <2>3, <2>4 DEF saves
<1>4. QED  BY <1>1, <1>2, <1>3

\* The request that saves is under way.
LEMMA SaveWithIs ==
  ASSUME EditorData, NEW s \in Subs, NEW call, SaveIs(call, chosen), NEW n \in EditorStates, NEW ids \in Seq(Nat),
         SaveWith(call, n, s, ids)
  PROVE  /\ e' \in EditorStates /\ e'.of = n.of /\ e'.open = n.open /\ e'.shown = n.shown /\ e'.saved = n.saved
         /\ e'.imgs = n.imgs /\ e'.late = n.late /\ e'.picker = n.picker /\ e'.submitting = n.submitting
         /\ sub' \in [Subs -> CallStates] /\ \A c \in Subs : SaveIs(sub'[c], chosen)
         /\ sub'[s].pc = "save" /\ sub'[s].valid = call.valid /\ sub'[s].ids = ids
         /\ \A c \in Subs : c # s => /\ sub'[c].pc = sub[c].pc /\ sub'[c].snap = sub[c].snap
                                     /\ sub'[c].res = sub[c].res /\ sub'[c].ids = sub[c].ids
<1> DEFINE saves == CancelOf(sub, n.saveToken)
           saving == [call EXCEPT !.pc = "save", !.ids = ids]
<1>1. sub' = [saves EXCEPT ![s] = saving] /\ e' = [n EXCEPT !.saveToken = s]  BY DEF SaveWith
<1>2. /\ e' \in EditorStates /\ e'.of = n.of /\ e'.open = n.open /\ e'.shown = n.shown /\ e'.saved = n.saved
      /\ e'.imgs = n.imgs /\ e'.late = n.late /\ e'.picker = n.picker /\ e'.submitting = n.submitting
  BY <1>1 DEF EditorStates
<1>3. n.saveToken \in Subs \cup {NoSub}  BY DEF EditorStates
<1>4. sub \in [Subs -> CallStates] /\ \A c \in Subs : SaveIs(sub[c], chosen)  BY DEF EditorData
<1>5. /\ saves \in [Subs -> CallStates] /\ \A c \in Subs : SaveIs(saves[c], chosen)
      /\ \A c \in Subs : /\ saves[c].pc = sub[c].pc /\ saves[c].snap = sub[c].snap
                         /\ saves[c].res = sub[c].res /\ saves[c].ids = sub[c].ids
  BY <1>3, <1>4, CancelOfIs
<1>6. /\ saving \in CallStates /\ saving.pc = "save" /\ saving.ids = ids /\ saving.valid = call.valid
      /\ saving.snap = call.snap /\ saving.res = call.res
  <2>1. call \in CallStates  BY DEF SaveIs
  <2>2. QED  BY <2>1 DEF CallStates
<1> HIDE DEF saves, saving
<1>7. SaveIs(saving, chosen)  BY <1>6 DEF SaveIs
<1>8. sub'[s] = saving /\ \A c \in Subs : c # s => sub'[c] = saves[c]  BY <1>1, <1>5
<1>9. sub' \in [Subs -> CallStates]  BY <1>1, <1>5, <1>6
<1>10. \A c \in Subs : SaveIs(sub'[c], chosen)  BY <1>5, <1>7, <1>8
<1>11. QED  BY <1>2, <1>5, <1>6, <1>8, <1>9, <1>10

LEMMA UploadEndsKeeps ==
  ASSUME EditorInv, NEW s \in Subs, UploadEnds(s)
  PROVE  EditorInv'
<1> DEFINE call == sub[s]
<1>1. EditorData /\ EditorShown /\ OneSave /\ Sending /\ PicturesKept /\ IdsBelong  BY DEF EditorInv
<1>2. /\ e.open /\ call.pc = "upload" /\ (\A i \in 1..Len(call.res) : call.res[i] # "todo") /\ call.valid
      /\ UNCHANGED <<stored, entry, wanted, overlap, chosen, leaves>>
  BY DEF UploadEnds, Settled
<1>3. /\ e \in EditorStates /\ ListIs(e.imgs, chosen) /\ ListIs(View, chosen) /\ chosen \in 0..MaxPics
      /\ sub \in [Subs -> CallStates] /\ (\A c \in Subs : SaveIs(sub[c], chosen))
      /\ stored \in [Pics -> 0..2] /\ (\A p \in Pics : p > chosen => stored[p] = 0)
      /\ entry \in Seq(Nat) /\ wanted \subseteq 1..chosen /\ resent \subseteq Pics
      /\ overlap \in BOOLEAN /\ leaves \in 0..MaxLeaves
  BY <1>1 DEF EditorData
<1>4. SaveIs(call, chosen) /\ call.res \in Seq(Outcomes) /\ Len(call.res) = Len(call.snap)
  BY <1>3 DEF SaveIs, CallStates
<1>5. CASE ~\A i \in 1..Len(call.res) : call.res[i] # "failed"
  <2>1. Fails(s, sub[s])  BY <1>5 DEF UploadEnds
  <2>2. Calling(s)  BY <1>2 DEF Calling
  <2>3. entry' \in Seq(Nat)  BY <1>2, <1>3
  <2>4. QED  BY <1>2, <2>1, <2>2, <2>3, FailsKeeps
<1>6. CASE \A i \in 1..Len(call.res) : call.res[i] # "failed"
  <2> DEFINE ids == Uploaded(call)
             free == [e EXCEPT !.uploading = FALSE, !.upToken = NoSub]
             l == Live(WithIds(call.snap, ids))
             n == PutImgs(free, l)
  <2>1. SaveWith(call, n, s, ids) /\ UNCHANGED resent  BY <1>6 DEF UploadEnds
  <2>2. AllStored(call)
    <3>1. \A i \in 1..Len(call.res) : call.res[i] \in Outcomes  BY <1>4, ElementOfSeq
    <3>2. QED  BY <1>2, <1>4, <1>6, <3>1 DEF AllStored, Outcomes
  <2>3. ids \in Seq(Nat)  BY <1>4, <2>2, UploadedIs
  <2>4. /\ ListIs(l, chosen) /\ LivePics(l) = LivePics(call.snap)
        /\ \A i \in 1..Len(l) : l[i].kind # "new"
        /\ Labelled(call.snap) => Labelled(l)
    BY <1>4, <2>2, FinalIs
  <2>5. /\ free \in EditorStates /\ free.of = e.of /\ free.imgs = e.imgs /\ free.late = e.late
        /\ free.shown = e.shown /\ free.open = e.open /\ free.saved = e.saved /\ free.picker = e.picker
        /\ free.submitting = e.submitting
    BY <1>3 DEF EditorStates
  <2>6. call.snap \in Seq(Pictures)  BY <1>4 DEF SaveIs, ListIs
  <2> HIDE DEF call, l, free, ids
  <2>7. l \in Seq(Pictures)  BY <2>4 DEF ListIs
  <2>8. /\ n \in EditorStates /\ n.of = e.of /\ n.open = e.open /\ n.saved = e.saved /\ n.picker = e.picker
        /\ n.submitting = e.submitting /\ n.shown = e.shown
        /\ e.shown => n.imgs = l /\ n.late = e.late
        /\ ~e.shown => n.imgs = e.imgs /\ n.late = <<l>>
    <3>1. CASE e.shown
      <4>1. n = [free EXCEPT !.imgs = l]  BY <2>5, <3>1 DEF PutImgs
      <4> HIDE DEF n
      <4>2. QED  BY <2>5, <2>7, <3>1, <4>1 DEF EditorStates
    <3>2. CASE ~e.shown
      <4>1. n = [free EXCEPT !.late = <<l>>]  BY <2>5, <3>2 DEF PutImgs
      <4> HIDE DEF n
      <4>2. QED  BY <2>5, <2>7, <3>2, <4>1 DEF EditorStates
    <3>3. QED  BY <3>1, <3>2
  <2> HIDE DEF n
  <2>9. /\ e' \in EditorStates /\ e'.of = n.of /\ e'.open = n.open /\ e'.shown = n.shown /\ e'.saved = n.saved
        /\ e'.imgs = n.imgs /\ e'.late = n.late /\ e'.picker = n.picker /\ e'.submitting = n.submitting
        /\ sub' \in [Subs -> CallStates] /\ \A c \in Subs : SaveIs(sub'[c], chosen)
        /\ sub'[s].pc = "save" /\ sub'[s].valid = call.valid /\ sub'[s].ids = ids
        /\ \A c \in Subs : c # s => /\ sub'[c].pc = sub[c].pc /\ sub'[c].snap = sub[c].snap
                                    /\ sub'[c].res = sub[c].res /\ sub'[c].ids = sub[c].ids
    BY <1>1, <1>4, <2>1, <2>3, <2>8, SaveWithIs
  <2>10. e.shown => e.late = <<>>  BY <1>1, <1>2 DEF EditorShown
  <2>11. View' = l
    <3>1. CASE e.shown  BY <2>8, <2>9, <2>10, <3>1 DEF View
    <3>2. CASE ~e.shown
      <4>1. e'.late = <<l>>  BY <2>8, <2>9, <3>2
      <4>2. QED  BY <4>1 DEF View
    <3>3. QED  BY <3>1, <3>2
  <2>12. e'.imgs \in {e.imgs, l} /\ (e'.shown => e'.late = <<>>)  BY <2>8, <2>9, <2>10
  <2>13. ~e.saved /\ e.of = "entry"  BY <1>1, <1>2 DEF EditorShown, call
  <2>14. EditorData'
    <3>1. ListIs(e'.imgs, chosen) /\ ListIs(View', chosen)  BY <1>3, <2>4, <2>11, <2>12
    <3>2. QED  BY <1>2, <1>3, <2>1, <2>9, <3>1 DEF EditorData
  <2>15. EditorShown'
    <3>1. \A S : NewIn(l, S)  BY <2>4 DEF NewIn
    <3>2. NewIn(e.imgs, wanted)  BY <1>1 DEF EditorShown
    <3>3. NewIn(e'.imgs, wanted) /\ NewIn(View', wanted)  BY <2>11, <2>12, <3>1, <3>2
    <3>4. QED  BY <1>2, <2>8, <2>9, <2>12, <2>13, <3>3 DEF EditorShown
  <2>16. ~overlap =>
           /\ \A c \in Subs : c # s => sub'[c].pc = "idle"
           /\ call.snap = e.imgs /\ View = e.imgs /\ ~e.picker /\ e.submitting
    <3>1. HAVE ~overlap
    <3>2. Calling(s)  BY <1>2 DEF Calling, call
    <3>3. \A c \in Subs : c # s => sub[c].pc = "idle"  BY <1>1, <3>1, <3>2 DEF OneSave, Calling
    <3>4. call.snap = e.imgs /\ e.late = <<>> /\ ~e.picker /\ e.submitting
      BY <1>1, <1>2, <2>13, <3>1, <3>2 DEF OneSave, call
    <3>5. QED  BY <2>9, <3>3, <3>4 DEF View
  <2>17. ~overlap => LivePics(l) = wanted /\ Labelled(l) /\ IdsOf(ids) = wanted
    <3>1. HAVE ~overlap
    <3>2. LivePics(call.snap) = wanted  BY <1>1, <2>16, <3>1, KeptMeans
    <3>3. Labelled(call.snap)  BY <1>1, <2>16, <3>1, LabelsMean
    <3>4. IdsOf(ids) = LivePics(call.snap)  BY <1>4, <2>2, <3>3, SavedIs DEF ids
    <3>5. QED  BY <2>4, <3>2, <3>3, <3>4
  <2>18. OneSave'
    <3>1. ~Has(l, "new")  BY <2>4, HasIs
    <3>2. overlap' = overlap /\ wanted' = wanted  BY <1>2
    <3>3. ASSUME ~overlap
          PROVE  /\ \A c \in Subs : sub'[c].pc # "idle" => c = s
                 /\ e'.open /\ sub'[s].valid /\ ~e'.picker /\ e'.submitting
                 /\ sub'[s].pc = "save" /\ ~Has(View', "new") /\ IdsOf(sub'[s].ids) = wanted
      BY <1>2, <2>8, <2>9, <2>11, <2>16, <2>17, <3>1, <3>3
    <3>4. "save" # "upload"  OBVIOUS
    <3>5. QED  BY <3>2, <3>3, <3>4 DEF OneSave, Calling
  <2>19. Sending'
    <3>1. \A p : NotSent(p) => NotSent(p)'  BY <1>2, <2>1 DEF NotSent
    <3>2. \A c \in Subs : sub'[c].pc = "upload" => SendsOf(c)'
      <4>1. TAKE c \in Subs
      <4>2. HAVE sub'[c].pc = "upload"
      <4>3. c # s  BY <2>9, <4>2
      <4>4. sub[c].pc = "upload" /\ sub'[c].snap = sub[c].snap /\ sub'[c].res = sub[c].res  BY <2>9, <4>2, <4>3
      <4>5. SendsOf(c)  BY <1>1, <4>4 DEF Sending
      <4>6. \A i \in 1..Len(sub[c].snap) :
              /\ sub[c].res[i] \in {"todo", "failed"} => NotSent(sub[c].snap[i].pic)
              /\ overlap /\ sub[c].res[i] = "todo" => sub[c].snap[i].pic \in resent
        BY <4>5 DEF SendsOf
      <4>7. overlap' = overlap /\ resent' = resent  BY <1>2, <2>1
      <4>8. QED  BY <3>1, <4>4, <4>6, <4>7 DEF SendsOf
    <3>3. (\A i \in 1..Len(View) : View[i].kind = "new" => NotSent(View[i].pic))'  BY <2>4, <2>11
    <3>4. \A p \in Pics : stored'[p] > 1 => p \in resent'  BY <1>1, <1>2, <2>1 DEF Sending
    <3>5. QED  BY <3>2, <3>3, <3>4 DEF Sending
  <2>20. PicturesKept'
    <3>1. PicsOf(Live(l)) = LivePics(l)  BY <2>7, LiveIs
    <3>2. QED  BY <1>2, <2>11, <2>17, <3>1 DEF PicturesKept
  <2>21. IdsBelong'  BY <1>2, <2>8, <2>9, <2>11, <2>13, <2>17 DEF IdsBelong, Labelled
  <2>22. QED  BY <2>14, <2>15, <2>18, <2>19, <2>20, <2>21 DEF EditorInv
<1>7. QED  BY <1>5, <1>6

LEMMA FileEndsKeeps ==
  ASSUME EditorInv, NEW s \in Subs, NEW i \in 1..Len(sub[s].res), FileEnds(s, i)
  PROVE  EditorInv'
<1> DEFINE call == sub[s]
           p == call.snap[i].pic
<1>1. EditorData /\ EditorShown /\ OneSave /\ Sending /\ PicturesKept /\ IdsBelong  BY DEF EditorInv
<1>2. /\ e.open /\ call.pc = "upload" /\ call.res[i] = "todo"
      /\ UNCHANGED <<e, entry, wanted, overlap, chosen, leaves>>
  BY DEF FileEnds, EditorCalm
<1>3. /\ e \in EditorStates /\ ListIs(e.imgs, chosen) /\ ListIs(View, chosen) /\ chosen \in 0..MaxPics
      /\ sub \in [Subs -> CallStates] /\ (\A c \in Subs : SaveIs(sub[c], chosen))
      /\ stored \in [Pics -> 0..2] /\ (\A c \in Pics : c > chosen => stored[c] = 0)
      /\ entry \in Seq(Nat) /\ wanted \subseteq 1..chosen /\ resent \subseteq Pics
      /\ overlap \in BOOLEAN /\ leaves \in 0..MaxLeaves
  BY <1>1 DEF EditorData
<1>4. /\ SaveIs(call, chosen) /\ call \in CallStates /\ call.res \in Seq(Outcomes) /\ Len(call.res) = Len(call.snap)
      /\ ListIs(call.snap, chosen) /\ \A k \in 1..Len(call.snap) : call.snap[k].kind = "new" <=> call.res[k] # "none"
  BY <1>3 DEF SaveIs, CallStates
<1>5. i \in 1..Len(call.snap) /\ call.snap \in Seq(Pictures) /\ Len(call.snap) \in Nat
      /\ \A k \in 1..Len(call.snap) : call.snap[k].pic \in Pics /\ call.snap[k].pic <= chosen
  <2>1. call.snap \in Seq(Pictures)  BY <1>4 DEF ListIs
  <2>2. \A k \in 1..Len(call.snap) : call.snap[k].pic \in Pics  BY <2>1, PlacesIs, PicturesNat DEF PicIsNat
  <2>3. QED  BY <1>4, <2>1, <2>2, LenProperties DEF ListIs
<1>6. p \in Pics /\ p <= chosen /\ stored[p] \in 0..2  BY <1>3, <1>5
<1>7. PICK x \in {"ok", "failed"} :
        /\ sub' = [sub EXCEPT ![s].res[i] = x]
        /\ \/ x = "ok" /\ stored' = StoredMore(p) /\ resent' = resent
           \/ x = "failed" /\ stored' = stored /\ resent' = resent
           \/ x = "failed" /\ stored' = StoredMore(p) /\ resent' = resent \cup {p}
  BY DEF FileEnds
<1> DEFINE ends == [call EXCEPT !.res = [call.res EXCEPT ![i] = x]]
           res == [call.res EXCEPT ![i] = x]
<1>8. /\ res \in Seq(Outcomes) /\ Len(res) = Len(call.res) /\ res[i] = x
      /\ \A k \in 1..Len(call.res) : k # i => res[k] = call.res[k]
  <2>1. DOMAIN call.res = 1..Len(call.res) /\ \A k \in 1..Len(call.res) : call.res[k] \in Outcomes
    BY <1>4, ElementOfSeq
  <2>2. res = [k \in 1..Len(call.res) |-> IF k = i THEN x ELSE call.res[k]]  BY <1>4, <2>1
  <2>3. x \in Outcomes  BY DEF Outcomes
  <2>4. res \in [1..Len(call.res) -> Outcomes]  BY <2>1, <2>2, <2>3
  <2>5. Len(call.res) \in Nat  BY <1>4, LenProperties
  <2> HIDE DEF res
  <2>6. res \in Seq(Outcomes) /\ Len(res) = Len(call.res)  BY <2>4, <2>5
  <2>7. QED  BY <2>2, <2>6
<1>9. sub' = [sub EXCEPT ![s] = ends]  BY <1>3, <1>7
<1> HIDE DEF res
<1>10. /\ ends \in CallStates /\ ends.pc = "upload" /\ ends.valid = call.valid /\ ends.snap = call.snap
       /\ ends.ids = call.ids /\ ends.res = res
  <2>1. ends = [call EXCEPT !.res = res]  BY DEF res
  <2> HIDE DEF ends, call
  <2>2. QED  BY <1>2, <1>4, <1>8, <2>1 DEF CallStates
<1> HIDE DEF ends
<1>11. SaveIs(ends, chosen)
  <2>1. \A k \in 1..Len(call.snap) : call.snap[k].kind = "new" <=> res[k] # "none"
    <3>1. TAKE k \in 1..Len(call.snap)
    <3>2. CASE k = i
      <4>1. call.snap[i].kind = "new"  BY <1>2, <1>4, <1>5
      <4>2. res[i] # "none"  BY <1>8
      <4>3. QED  BY <3>2, <4>1, <4>2
    <3>3. CASE k # i  BY <1>4, <1>8, <3>3
    <3>4. QED  BY <3>2, <3>3
  <2>2. QED  BY <1>4, <1>8, <1>10, <2>1 DEF SaveIs
<1>12. sub'[s] = ends /\ \A c \in Subs : c # s => sub'[c] = sub[c]  BY <1>3, <1>9
<1>13. View' = View /\ e' = e  BY <1>2 DEF View
<1>14. stored' \in [Pics -> 0..2] /\ (\A c \in Pics : c # p => stored'[c] = stored[c])
       /\ (stored' = stored \/ stored'[p] = IF stored[p] < 2 THEN stored[p] + 1 ELSE 2)
  <2>1. CASE stored' = stored  BY <1>3, <2>1
  <2>2. CASE stored' = StoredMore(p)
    <3> DEFINE more == IF stored[p] < 2 THEN stored[p] + 1 ELSE 2
    <3>1. stored' = [stored EXCEPT ![p] = more]  BY <2>2 DEF StoredMore
    <3>2. more \in 0..2  BY <1>6
    <3> HIDE DEF more, p
    <3>3. stored' \in [Pics -> 0..2] /\ stored'[p] = more /\ \A c \in Pics : c # p => stored'[c] = stored[c]
      BY <1>3, <1>6, <3>1, <3>2
    <3>4. QED  BY <3>3 DEF more
  <2>3. QED  BY <1>7, <2>1, <2>2
<1>15. NotSent(p) /\ (overlap => p \in resent)
  <2>1. SendsOf(s)  BY <1>1, <1>2 DEF Sending
  <2>2. QED  BY <1>2, <1>5, <2>1 DEF SendsOf
<1>16. resent \subseteq resent' /\ resent' \subseteq Pics  BY <1>3, <1>6, <1>7
<1> DEFINE clear == {c \in Pics : c \in resent' \/ stored'[c] = 0}
<1>17. \A c \in Pics : c # p => (NotSent(c) => c \in clear)  BY <1>14, <1>16 DEF NotSent
<1>18. p \in resent => p \in clear  BY <1>6, <1>16
<1>19. stored'[p] > 1 => p \in resent'
  <2>1. CASE p \in resent  BY <1>16, <2>1
  <2>2. CASE stored[p] = 0
    <3>1. stored'[p] = 0 \/ stored'[p] = 1  BY <1>14, <2>2
    <3>2. QED  BY <3>1
  <2>3. QED  BY <1>15, <2>1, <2>2 DEF NotSent
<1>20. x = "failed" => p \in clear
  <2>1. CASE stored' = stored /\ resent' = resent  BY <1>6, <1>15, <2>1 DEF NotSent
  <2>2. CASE resent' = resent \cup {p}  BY <1>6, <2>2
  <2>3. QED  BY <1>7, <2>1, <2>2
<1> HIDE DEF clear
<1>21. EditorData'
  <2>1. sub' \in [Subs -> CallStates]  BY <1>3, <1>9, <1>10
  <2>2. \A c \in Subs : SaveIs(sub'[c], chosen)  BY <1>3, <1>11, <1>12
  <2>3. \A c \in Pics : c > chosen => stored'[c] = 0
    <3>1. \A c \in Pics : c > chosen => c # p
      <4>1. \A a, b \in Nat : a <= b => ~(a > b)  OBVIOUS
      <4>2. p \in Nat /\ chosen \in Nat  BY <1>3, <1>6, EditorBounds
      <4>3. QED  BY <1>6, <4>1, <4>2
    <3>2. QED  BY <1>3, <1>14, <3>1
  <2>4. ListIs(e'.imgs, chosen) /\ ListIs(View', chosen)  BY <1>3, <1>13
  <2>5. QED  BY <1>2, <1>3, <1>13, <1>14, <1>16, <2>1, <2>2, <2>3, <2>4 DEF EditorData
<1>22. \A c \in Subs : sub'[c].pc = sub[c].pc /\ sub'[c].valid = sub[c].valid /\ sub'[c].snap = sub[c].snap
                       /\ sub'[c].ids = sub[c].ids
  BY <1>2, <1>10, <1>12
<1>23. EditorShown'  BY <1>1, <1>2, <1>13, <1>22 DEF EditorShown
<1>24. OneSave'  BY <1>1, <1>2, <1>13, <1>22 DEF OneSave, Calling
<1>25. Sending'
  <2>1. \A c \in Subs : sub'[c].pc = "upload" => SendsOf(c)'
    <3>1. TAKE c \in Subs
    <3>2. HAVE sub'[c].pc = "upload"
    <3>3. SendsOf(c)  BY <1>1, <1>22, <3>2 DEF Sending
    <3>4. \A k \in 1..Len(sub[c].snap) :
            /\ sub[c].res[k] \in {"todo", "failed"} => NotSent(sub[c].snap[k].pic)
            /\ overlap /\ sub[c].res[k] = "todo" => sub[c].snap[k].pic \in resent
      BY <3>3 DEF SendsOf
    <3>5. CASE c # s
      <4>1. \A k \in 1..Len(sub[c].snap) : sub[c].snap[k].pic \in Pics
        <5>1. sub[c].snap \in Seq(Pictures)  BY <1>3 DEF SaveIs, ListIs
        <5>2. QED  BY <5>1, PlacesIs, PicturesNat DEF PicIsNat
      <4>2. overlap
        <5>1. Calling(c) /\ Calling(s)  BY <1>2, <1>22, <3>2 DEF Calling
        <5>2. QED  BY <1>1, <3>5, <5>1 DEF OneSave
      <4>3. \A k \in 1..Len(sub[c].snap) :
              sub[c].res[k] \in {"todo", "failed"} => sub[c].snap[k].pic \in clear
        BY <1>15, <1>17, <1>18, <3>4, <4>1, <4>2
      <4>4. sub'[c] = sub[c] /\ overlap' = overlap  BY <1>2, <1>12, <3>5
      <4>5. \A k \in 1..Len(sub[c].snap) : overlap /\ sub[c].res[k] = "todo" => sub[c].snap[k].pic \in resent'
        BY <1>16, <3>4
      <4>6. QED  BY <4>3, <4>4, <4>5 DEF SendsOf, NotSent, clear
    <3>6. CASE c = s
      <4>1. \A k \in 1..Len(call.snap) : k # i => call.snap[k].pic # p  BY <1>4, <1>5 DEF ListIs
      <4>2. \A k \in 1..Len(call.snap) : res[k] \in {"todo", "failed"} => call.snap[k].pic \in clear
        <5>1. TAKE k \in 1..Len(call.snap)
        <5>2. HAVE res[k] \in {"todo", "failed"}
        <5>3. CASE k = i
          <6>1. x = "failed"  BY <1>8, <5>2, <5>3
          <6>2. QED  BY <1>20, <5>3, <6>1
        <5>4. CASE k # i
          <6>1. res[k] = call.res[k] /\ call.snap[k].pic # p /\ call.snap[k].pic \in Pics
            BY <1>4, <1>5, <1>8, <4>1, <5>4
          <6>2. NotSent(call.snap[k].pic)  BY <3>4, <3>6, <5>2, <6>1
          <6>3. QED  BY <1>17, <6>1, <6>2
        <5>5. QED  BY <5>3, <5>4
      <4>3. \A k \in 1..Len(call.snap) : overlap /\ res[k] = "todo" => call.snap[k].pic \in resent'
        <5>1. \A k \in 1..Len(call.snap) : res[k] = "todo" => call.res[k] = "todo"  BY <1>4, <1>8
        <5>2. QED  BY <1>16, <3>4, <3>6, <5>1
      <4>4. sub'[c].snap = call.snap /\ sub'[c].res = res /\ overlap' = overlap  BY <1>2, <1>10, <1>12, <3>6
      <4>5. QED  BY <4>2, <4>3, <4>4 DEF SendsOf, NotSent, clear
    <3>7. QED  BY <3>5, <3>6
  <2>2. \A c \in Pics : stored'[c] > 1 => c \in resent'
    <3>1. \A c \in Pics : stored[c] > 1 => c \in resent  BY <1>1 DEF Sending
    <3>2. QED  BY <1>14, <1>16, <1>19, <3>1
  <2>3. sub'[s].pc = "upload"  BY <1>10, <1>12
  <2>4. QED  BY <2>1, <2>2, <2>3 DEF Sending
<1>26. PicturesKept'  BY <1>1, <1>2, <1>13 DEF PicturesKept
<1>27. IdsBelong'  BY <1>1, <1>2, <1>13 DEF IdsBelong
<1>28. QED  BY <1>21, <1>23, <1>24, <1>25, <1>26, <1>27 DEF EditorInv

\* A call that begins.
Begun(s) ==
  /\ e' \in EditorStates /\ e'.of = e.of /\ e'.open = e.open /\ e'.shown = e.shown /\ e'.saved = e.saved
  /\ e'.imgs = e.imgs /\ e'.late = e.late /\ e'.picker = e.picker /\ (e.of = "entry" => e'.submitting)
  /\ sub' \in [Subs -> CallStates] /\ (\A c \in Subs : SaveIs(sub'[c], chosen)) /\ sub'[s].valid
  /\ \A c \in Subs : c # s => /\ sub'[c].pc = sub[c].pc /\ sub'[c].snap = sub[c].snap
                              /\ sub'[c].res = sub[c].res /\ sub'[c].ids = sub[c].ids
  /\ \/ sub'[s].pc = "save" /\ (~overlap => ~Has(View, "new") /\ IdsOf(sub'[s].ids) = wanted)
     \/ /\ e.of = "entry" /\ sub'[s].pc = "upload" /\ e'.uploading /\ sub'[s].snap = e.imgs
        /\ \A k \in 1..Len(e.imgs) : sub'[s].res[k] = IF e.imgs[k].kind = "new" THEN "todo" ELSE "none"

LEMMA BegunKeeps ==
  ASSUME EditorInv, NEW s \in Subs, e.open, e.shown, ~e.picker, sub[s].pc = "idle", Begun(s),
         overlap' = (overlap \/ \E c \in Subs : sub[c].pc # "idle"),
         resent' = resent \cup (IF overlap' THEN wanted ELSE {}),
         UNCHANGED <<stored, entry, wanted, chosen, leaves>>
  PROVE  EditorInv'
<1>1. EditorData /\ EditorShown /\ OneSave /\ Sending /\ PicturesKept /\ IdsBelong  BY DEF EditorInv
<1>2. /\ e \in EditorStates /\ ListIs(e.imgs, chosen) /\ ListIs(View, chosen) /\ chosen \in 0..MaxPics
      /\ sub \in [Subs -> CallStates] /\ (\A c \in Subs : SaveIs(sub[c], chosen))
      /\ stored \in [Pics -> 0..2] /\ (\A c \in Pics : c > chosen => stored[c] = 0)
      /\ entry \in Seq(Nat) /\ wanted \subseteq 1..chosen /\ resent \subseteq Pics
      /\ overlap \in BOOLEAN /\ leaves \in 0..MaxLeaves
  BY <1>1 DEF EditorData
<1>3. /\ e' \in EditorStates /\ e'.of = e.of /\ e'.open = e.open /\ e'.shown = e.shown /\ e'.saved = e.saved
      /\ e'.imgs = e.imgs /\ e'.late = e.late /\ e'.picker = e.picker /\ (e.of = "entry" => e'.submitting)
      /\ sub' \in [Subs -> CallStates] /\ (\A c \in Subs : SaveIs(sub'[c], chosen)) /\ sub'[s].valid
  BY DEF Begun
<1>4. \A c \in Subs : c # s => /\ sub'[c].pc = sub[c].pc /\ sub'[c].snap = sub[c].snap
                               /\ sub'[c].res = sub[c].res /\ sub'[c].ids = sub[c].ids
  BY DEF Begun
<1>5. \/ sub'[s].pc = "save" /\ (~overlap => ~Has(View, "new") /\ IdsOf(sub'[s].ids) = wanted)
      \/ /\ e.of = "entry" /\ sub'[s].pc = "upload" /\ e'.uploading /\ sub'[s].snap = e.imgs
         /\ \A k \in 1..Len(e.imgs) : sub'[s].res[k] = IF e.imgs[k].kind = "new" THEN "todo" ELSE "none"
  BY DEF Begun
<1>6. e.late = <<>> /\ ~e.saved /\ NewIn(e.imgs, wanted)  BY <1>1 DEF EditorShown
<1>7. View = e.imgs /\ View' = e.imgs  BY <1>3, <1>6 DEF View
<1>8. overlap' \in BOOLEAN /\ (overlap => overlap') /\ resent \subseteq resent' /\ (overlap' => wanted \subseteq resent')
  BY <1>2
<1>9. ~overlap' => ~overlap /\ \A c \in Subs : sub[c].pc = "idle"  OBVIOUS
<1>10. EditorData'
  <2>1. resent' \subseteq Pics
    <3>1. \A k \in 0..MaxPics : \A p \in 1..k : p \in 1..MaxPics  BY EditorBounds
    <3>2. wanted \subseteq Pics  BY <1>2, <3>1, EditorBounds
    <3>3. QED  BY <1>2, <3>2
  <2>2. ListIs(e'.imgs, chosen) /\ ListIs(View', chosen)  BY <1>2, <1>3, <1>7
  <2>3. QED  BY <1>2, <1>3, <1>8, <2>1, <2>2 DEF EditorData
<1>11. EditorShown'
  <2>1. \A c \in Subs : sub'[c].pc = "upload" => e.of = "entry"
    <3>1. TAKE c \in Subs
    <3>2. HAVE sub'[c].pc = "upload"
    <3>3. CASE c = s
      <4>1. "save" # "upload"  OBVIOUS
      <4>2. QED  BY <1>5, <3>2, <3>3, <4>1
    <3>4. CASE c # s  BY <1>1, <1>4, <3>2, <3>4 DEF EditorShown
    <3>5. QED  BY <3>3, <3>4
  <2>2. e.of # "entry" => e.imgs = <<>> /\ wanted = {}  BY <1>1, <1>7 DEF EditorShown
  <2>3. QED  BY <1>3, <1>6, <1>7, <2>1, <2>2 DEF EditorShown
<1>12. OneSave'
  <2>1. ASSUME ~overlap'
        PROVE  \A c \in Subs : sub'[c].pc # "idle" => c = s
    BY <1>4, <1>9, <2>1
  <2>2. ASSUME ~overlap', sub'[s].pc = "upload"
        PROVE  e'.uploading /\ sub'[s].snap = e'.imgs /\ e'.late = <<>>
    <3>1. "save" # "upload"  OBVIOUS
    <3>2. QED  BY <1>3, <1>5, <1>6, <2>2, <3>1
  <2>3. ASSUME ~overlap', sub'[s].pc = "save"
        PROVE  ~Has(View', "new") /\ IdsOf(sub'[s].ids) = wanted'
    <3>1. "save" # "upload"  OBVIOUS
    <3>2. QED  BY <1>5, <1>7, <1>9, <2>3, <3>1
  <2>4. QED  BY <1>3, <2>1, <2>2, <2>3 DEF OneSave, Calling
<1>13. Sending'
  <2> DEFINE clear == {c \in Pics : c \in resent' \/ stored'[c] = 0}
  <2>1. \A c \in Pics : NotSent(c) => c \in clear  BY <1>8 DEF NotSent
  <2>2. \A c \in Pics : c \in resent' => c \in clear  OBVIOUS
  <2>3. \A c \in clear : c \in resent' \/ stored'[c] = 0  OBVIOUS
  <2> HIDE DEF clear
  <2>4. \A k \in 1..Len(e.imgs) : e.imgs[k].pic \in Pics
    <3>1. e.imgs \in Seq(Pictures)  BY <1>2 DEF ListIs
    <3>2. QED  BY <3>1, PlacesIs, PicturesNat DEF PicIsNat
  <2>5. \A k \in 1..Len(e.imgs) : e.imgs[k].kind = "new" =>
          e.imgs[k].pic \in clear /\ (overlap' => e.imgs[k].pic \in resent')
    <3>1. TAKE k \in 1..Len(e.imgs)
    <3>2. HAVE e.imgs[k].kind = "new"
    <3>3. e.imgs[k].pic \in wanted  BY <1>6, <3>2 DEF NewIn
    <3>4. CASE overlap'  BY <1>8, <2>2, <2>4, <3>3, <3>4
    <3>5. CASE ~overlap'
      <4>1. \A c \in Subs : sub[c].pc # "upload"  BY <1>9, <3>5
      <4>2. NotSent(e.imgs[k].pic)  BY <1>1, <1>7, <1>9, <3>2, <3>5, <4>1 DEF Sending
      <4>3. QED  BY <2>1, <2>4, <3>5, <4>2
    <3>6. QED  BY <3>4, <3>5
  <2>6. \A c \in Subs : sub'[c].pc = "upload" => SendsOf(c)'
    <3>1. TAKE c \in Subs
    <3>2. HAVE sub'[c].pc = "upload"
    <3>3. CASE c # s
      <4>1. sub[c].pc = "upload" /\ sub'[c].snap = sub[c].snap /\ sub'[c].res = sub[c].res  BY <1>4, <3>2, <3>3
      <4>2. SendsOf(c)  BY <1>1, <4>1 DEF Sending
      <4>3. SaveIs(sub[c], chosen)  BY <1>2
      <4>4. \A k \in 1..Len(sub[c].snap) : sub[c].snap[k].pic \in Pics
        <5>1. sub[c].snap \in Seq(Pictures)  BY <4>3 DEF SaveIs, ListIs
        <5>2. QED  BY <5>1, PlacesIs, PicturesNat DEF PicIsNat
      <4>5. \A k \in 1..Len(sub[c].snap) : sub[c].res[k] \in {"todo", "failed"} => sub[c].snap[k].pic \in clear
        BY <2>1, <4>2, <4>4 DEF SendsOf
      <4>6. ASSUME overlap', NEW k \in 1..Len(sub[c].snap), sub[c].res[k] = "todo"
            PROVE  sub[c].snap[k].pic \in resent'
        <5>1. CASE overlap  BY <1>8, <4>2, <4>6, <5>1 DEF SendsOf
        <5>2. CASE ~overlap
          <6>1. sub[c].snap = e.imgs  BY <1>1, <4>1, <5>2 DEF OneSave, Calling
          <6>2. sub[c].snap[k].kind = "new"  BY <4>3, <4>6 DEF SaveIs
          <6>3. sub[c].snap[k].pic \in wanted  BY <1>6, <6>1, <6>2 DEF NewIn
          <6>4. QED  BY <1>8, <4>6, <6>3
        <5>3. QED  BY <5>1, <5>2
      <4>7. QED  BY <2>3, <4>1, <4>5, <4>6 DEF SendsOf, NotSent
    <3>4. CASE c = s
      <4>1. /\ sub'[s].snap = e.imgs
            /\ \A k \in 1..Len(e.imgs) : sub'[s].res[k] = IF e.imgs[k].kind = "new" THEN "todo" ELSE "none"
        <5>1. "save" # "upload"  OBVIOUS
        <5>2. QED  BY <1>5, <3>2, <3>4, <5>1
      <4>2. \A k \in 1..Len(e.imgs) : sub'[s].res[k] \in {"todo", "failed"} => e.imgs[k].kind = "new"
        <5>1. "none" # "todo" /\ "none" # "failed"  OBVIOUS
        <5>2. QED  BY <4>1, <5>1
      <4>3. QED  BY <2>3, <2>5, <3>4, <4>1, <4>2 DEF SendsOf, NotSent
    <3>5. QED  BY <3>3, <3>4
  <2>7. (\A k \in 1..Len(View) : View[k].kind = "new" => NotSent(View[k].pic))'
    BY <1>7, <2>3, <2>5 DEF NotSent
  <2>8. \A p \in Pics : stored'[p] > 1 => p \in resent'  BY <1>1, <1>8 DEF Sending
  <2>9. QED  BY <2>6, <2>7, <2>8 DEF Sending
<1>14. PicturesKept'  BY <1>1, <1>7, <1>8 DEF PicturesKept
<1>15. IdsBelong'  BY <1>1, <1>3, <1>6, <1>7, <1>8 DEF IdsBelong
<1>16. QED  BY <1>10, <1>11, <1>12, <1>13, <1>14, <1>15 DEF EditorInv

LEMMA SaveBegins ==
  ASSUME EditorData, NEW s \in Subs, NEW n \in EditorStates, NEW ids \in Seq(Nat), SaveWith(NoSave, n, s, ids),
         n.of = e.of, n.open = e.open, n.shown = e.shown, n.saved = e.saved, n.imgs = e.imgs, n.late = e.late,
         n.picker = e.picker, e.of = "entry" => n.submitting,
         ~overlap => ~Has(View, "new") /\ IdsOf(ids) = wanted
  PROVE  Begun(s)
<1>1. SaveIs(NoSave, chosen)  BY NoSaveIs
<1>2. NoSave.valid = TRUE  BY DEF NoSave
<1>3. /\ e' \in EditorStates /\ e'.of = n.of /\ e'.open = n.open /\ e'.shown = n.shown /\ e'.saved = n.saved
      /\ e'.imgs = n.imgs /\ e'.late = n.late /\ e'.picker = n.picker /\ e'.submitting = n.submitting
      /\ sub' \in [Subs -> CallStates] /\ \A c \in Subs : SaveIs(sub'[c], chosen)
      /\ sub'[s].pc = "save" /\ sub'[s].valid = NoSave.valid /\ sub'[s].ids = ids
      /\ \A c \in Subs : c # s => /\ sub'[c].pc = sub[c].pc /\ sub'[c].snap = sub[c].snap
                                  /\ sub'[c].res = sub[c].res /\ sub'[c].ids = sub[c].ids
  BY <1>1, SaveWithIs
<1>4. QED  BY <1>2, <1>3 DEF Begun

LEMMA UploadBegins ==
  ASSUME EditorData, NEW s \in Subs, e.of = "entry", sub[s].pc = "idle",
         sub' = [CancelOf(sub, e.upToken) EXCEPT
                   ![s] = [NoSave EXCEPT !.pc = "upload", !.snap = e.imgs,
                             !.res = [k \in 1..Len(e.imgs) |-> IF e.imgs[k].kind = "new" THEN "todo" ELSE "none"]]],
         e' = [[e EXCEPT !.submitting = TRUE] EXCEPT !.upToken = s, !.uploading = TRUE]
  PROVE  Begun(s)
<1> DEFINE res == [k \in 1..Len(e.imgs) |-> IF e.imgs[k].kind = "new" THEN "todo" ELSE "none"]
           call == [NoSave EXCEPT !.pc = "upload", !.snap = e.imgs, !.res = res]
           saves == CancelOf(sub, e.upToken)
<1>1. /\ e \in EditorStates /\ ListIs(e.imgs, chosen) /\ sub \in [Subs -> CallStates]
      /\ \A c \in Subs : SaveIs(sub[c], chosen)
  BY DEF EditorData
<1>2. /\ e' \in EditorStates /\ e'.of = e.of /\ e'.open = e.open /\ e'.shown = e.shown /\ e'.saved = e.saved
      /\ e'.imgs = e.imgs /\ e'.late = e.late /\ e'.picker = e.picker /\ e'.submitting /\ e'.uploading
  BY <1>1 DEF EditorStates
<1>3. e.upToken \in Subs \cup {NoSub} /\ e.imgs \in Seq(Pictures) /\ Len(e.imgs) \in Nat
  <2>1. e.imgs \in Seq(Pictures)  BY <1>1 DEF ListIs
  <2>2. QED  BY <1>1, <2>1, LenProperties DEF EditorStates
<1>4. /\ saves \in [Subs -> CallStates] /\ \A c \in Subs : SaveIs(saves[c], chosen)
      /\ \A c \in Subs : /\ saves[c].pc = sub[c].pc /\ saves[c].snap = sub[c].snap
                         /\ saves[c].res = sub[c].res /\ saves[c].ids = sub[c].ids
  BY <1>1, <1>3, CancelOfIs
<1>5. /\ res \in Seq(Outcomes) /\ Len(res) = Len(e.imgs)
      /\ \A k \in 1..Len(e.imgs) : res[k] = IF e.imgs[k].kind = "new" THEN "todo" ELSE "none"
  <2>1. \A k \in 1..Len(e.imgs) : res[k] = IF e.imgs[k].kind = "new" THEN "todo" ELSE "none"  OBVIOUS
  <2>2. res \in [1..Len(e.imgs) -> Outcomes]  BY DEF Outcomes
  <2> HIDE DEF res
  <2>3. res \in Seq(Outcomes) /\ Len(res) = Len(e.imgs)  BY <1>3, <2>2
  <2>4. QED  BY <2>1, <2>3
<1> HIDE DEF res, saves
<1>6. call \in CallStates /\ call.pc = "upload" /\ call.valid /\ call.snap = e.imgs /\ call.res = res
  <2>1. NoSave \in CallStates  BY NoSaveIs DEF SaveIs
  <2>2. NoSave.valid = TRUE  BY DEF NoSave
  <2>3. QED  BY <1>3, <1>5, <2>1, <2>2 DEF CallStates
<1>7. sub' = [saves EXCEPT ![s] = call]  BY DEF saves, res
<1> HIDE DEF call
<1>8. SaveIs(call, chosen)
  <2>1. \A k \in 1..Len(e.imgs) : e.imgs[k].kind = "new" <=> res[k] # "none"  BY <1>5
  <2>2. QED  BY <1>1, <1>5, <1>6, <2>1 DEF SaveIs
<1>9. sub'[s] = call /\ \A c \in Subs : c # s => sub'[c] = saves[c]  BY <1>4, <1>7
<1>10. sub' \in [Subs -> CallStates]  BY <1>4, <1>6, <1>7
<1>11. \A c \in Subs : SaveIs(sub'[c], chosen)  BY <1>4, <1>8, <1>9
<1>12. /\ sub'[s].pc = "upload" /\ sub'[s].valid /\ sub'[s].snap = e.imgs
       /\ \A k \in 1..Len(e.imgs) : sub'[s].res[k] = IF e.imgs[k].kind = "new" THEN "todo" ELSE "none"
  BY <1>5, <1>6, <1>9
<1>13. \A c \in Subs : c # s => /\ sub'[c].pc = sub[c].pc /\ sub'[c].snap = sub[c].snap
                                /\ sub'[c].res = sub[c].res /\ sub'[c].ids = sub[c].ids
  BY <1>4, <1>9
<1>14. QED  BY <1>2, <1>10, <1>11, <1>12, <1>13 DEF Begun

LEMMA SubmitEditorKeeps ==
  ASSUME EditorInv, NEW s \in Subs, SubmitEditor(s)
  PROVE  EditorInv'
<1>1. EditorData /\ EditorShown /\ OneSave /\ PicturesKept /\ IdsBelong  BY DEF EditorInv
<1>2. /\ e.open /\ e.shown /\ ~e.picker /\ sub[s].pc = "idle"
      /\ SubmitEntry(s) \/ SubmitMemory(s) \/ SubmitCover(s)
      /\ overlap' = (overlap \/ \E c \in Subs : sub[c].pc # "idle")
      /\ resent' = resent \cup (IF overlap' THEN wanted ELSE {})
      /\ UNCHANGED <<stored, entry, wanted, chosen, leaves>>
  BY DEF SubmitEditor, Touch, EditorCalm
<1>3. e \in EditorStates /\ e.imgs \in Seq(Pictures)  BY <1>1 DEF EditorData, ListIs
<1>4. e.late = <<>>  BY <1>1, <1>2 DEF EditorShown
<1>5. View = e.imgs  BY <1>4 DEF View
<1> DEFINE busy == [e EXCEPT !.submitting = TRUE]
<1>6. /\ busy \in EditorStates /\ busy.of = e.of /\ busy.open = e.open /\ busy.shown = e.shown
      /\ busy.saved = e.saved /\ busy.imgs = e.imgs /\ busy.late = e.late /\ busy.picker = e.picker
      /\ busy.submitting /\ busy.saveToken = e.saveToken
  BY <1>3 DEF EditorStates
<1>7. e.of # "entry" => ~Has(View, "new") /\ IdsOf(<<>>) = wanted
  <2>1. HAVE e.of # "entry"
  <2>2. View = <<>> /\ wanted = {}  BY <1>1, <2>1 DEF EditorShown
  <2>3. Len(<<>>) = 0 /\ 1..0 = {}  OBVIOUS
  <2>4. ~Has(<<>>, "new") /\ IdsOf(<<>>) = {}  BY <2>3 DEF Has, PlacesOf, IdsOf
  <2>5. QED  BY <2>2, <2>4
<1>8. <<>> \in Seq(Nat)  OBVIOUS
<1>9. CASE SubmitEntry(s)
  <2>1. e.of = "entry"  BY <1>9 DEF SubmitEntry
  <2>2. CASE Has(e.imgs, "new") \/ Has(e.imgs, "deleted")
    <3>1. Begun(s)  BY <1>1, <1>2, <1>9, <2>1, <2>2, UploadBegins DEF SubmitEntry
    <3>2. QED  BY <1>2, <3>1, BegunKeeps
  <2>3. CASE ~(Has(e.imgs, "new") \/ Has(e.imgs, "deleted"))
    <3>1. SaveWith(NoSave, busy, s, KeptIds(e.imgs))  BY <1>9, <2>3 DEF SubmitEntry
    <3>2. KeptIds(e.imgs) \in Seq(Nat)  BY <1>3, KeptIdsIs
    <3>3. ~overlap => ~Has(View, "new") /\ IdsOf(KeptIds(e.imgs)) = wanted
      <4>1. HAVE ~overlap
      <4>2. Labelled(e.imgs)  BY <1>1, <1>5, <4>1, LabelsMean
      <4>3. LivePics(e.imgs) = wanted  BY <1>1, <1>5, <4>1, KeptMeans
      <4>4. IdsOf(KeptIds(e.imgs)) = LivePics(e.imgs)  BY <1>3, <2>3, <4>2, KeptSaved
      <4>5. QED  BY <1>5, <2>3, <4>3, <4>4
    <3> HIDE DEF busy
    <3>4. Begun(s)  BY <1>1, <1>6, <3>1, <3>2, <3>3, SaveBegins
    <3>5. QED  BY <1>2, <3>4, BegunKeeps
  <2>4. QED  BY <2>2, <2>3
<1>10. CASE SubmitMemory(s)
  <2>1. e.of = "memory" /\ SaveWith(NoSave, e, s, <<>>)  BY <1>10 DEF SubmitMemory
  <2>2. e.of # "entry"  BY <2>1
  <2>3. Begun(s)  BY <1>1, <1>3, <1>7, <1>8, <2>1, <2>2, SaveBegins
  <2>4. QED  BY <1>2, <2>3, BegunKeeps
<1>11. CASE SubmitCover(s)
  <2>1. e.of = "cover" /\ SaveWith(NoSave, busy, s, <<>>)  BY <1>11 DEF SubmitCover
  <2>2. e.of # "entry"  BY <2>1
  <2> HIDE DEF busy
  <2>3. Begun(s)  BY <1>1, <1>6, <1>7, <1>8, <2>1, <2>2, SaveBegins
  <2>4. QED  BY <1>2, <2>3, BegunKeeps
<1>12. QED  BY <1>2, <1>9, <1>10, <1>11

LEMMA EditorInvInit == EditorInit => EditorInv
<1> SUFFICES ASSUME EditorInit PROVE EditorInv  OBVIOUS
<1>1. PICK of \in {"entry", "memory", "cover"}, old \in 0..MaxPics :
        /\ old # 0 => of = "entry"
        /\ e = NewEditor(of, [i \in 1..old |-> Item(i, "kept")])
        /\ stored = [p \in Pics |-> IF p <= old THEN 1 ELSE 0] /\ wanted = 1..old /\ chosen = old
  BY DEF EditorInit
<1>2. sub = NoCalls /\ entry = <<0>> /\ resent = {} /\ overlap = FALSE /\ leaves = 0
  BY DEF EditorInit, NoCalls, Unsaved
<1> DEFINE imgs == [i \in 1..old |-> Item(i, "kept")]
<1>3. old \in Nat /\ Pics = 1..MaxPics /\ MaxPics \in Nat /\ MaxLeaves \in Nat  BY EditorBounds
<1>4. \A i \in 1..old : imgs[i] \in Pictures /\ imgs[i].pic = i /\ imgs[i].kind = "kept" /\ imgs[i].id = i
  <2>1. TAKE i \in 1..old
  <2>2. imgs[i] = [pic |-> i, kind |-> "kept", id |-> i]  BY DEF Item
  <2>3. i \in Pics /\ i \in Nat  BY <1>3
  <2> HIDE DEF imgs
  <2>4. QED  BY <2>2, <2>3 DEF Pictures
<1>5. imgs \in Seq(Pictures) /\ Len(imgs) = old
  <2>1. imgs \in [1..old -> Pictures]  BY <1>4
  <2> HIDE DEF imgs
  <2>2. QED  BY <1>3, <2>1
<1>6. e = NewEditor(of, imgs)  BY <1>1
<1> HIDE DEF imgs
<1>7. /\ e \in EditorStates /\ e.of = of /\ e.open /\ e.shown /\ ~e.saved /\ e.imgs = imgs /\ e.late = <<>>
      /\ ~e.picker
  BY <1>5, <1>6 DEF NewEditor, EditorStates
<1>8. View = imgs  BY <1>7 DEF View
<1>9. ListIs(imgs, old)
  <2>1. \A i \in 1..old : i <= old  OBVIOUS
  <2>2. QED  BY <1>4, <1>5, <2>1 DEF ListIs
<1>10. NoCalls \in [Subs -> CallStates] /\ \A s \in Subs : SaveIs(NoCalls[s], old) /\ NoCalls[s].pc = "idle"
  BY NoCallsIs
<1>11. EditorData
  <2>1. stored \in [Pics -> 0..2] /\ \A p \in Pics : p > old => stored[p] = 0  BY <1>1, <1>3
  <2>2. <<0>> \in Seq(Nat) /\ 0 \in 0..MaxLeaves  BY <1>3
  <2>3. QED  BY <1>1, <1>2, <1>7, <1>8, <1>9, <1>10, <2>1, <2>2 DEF EditorData
<1>12. \A S : NewIn(imgs, S)
  <2>1. \A i \in 1..Len(imgs) : imgs[i].kind # "new"  BY <1>4, <1>5
  <2>2. QED  BY <2>1 DEF NewIn
<1>13. EditorShown
  <2>1. of # "entry" => imgs = <<>> /\ wanted = {}
    <3>1. HAVE of # "entry"
    <3>2. old = 0  BY <1>1, <3>1
    <3>3. Len(imgs) = 0 /\ 1..0 = {}  BY <1>5, <3>2
    <3>4. imgs = <<>>  BY <1>5, <3>3
    <3>5. QED  BY <1>1, <3>2, <3>3, <3>4
  <2>2. QED  BY <1>2, <1>7, <1>8, <1>10, <1>12, <2>1 DEF EditorShown
<1>14. OneSave  BY <1>2, <1>7, <1>10 DEF OneSave, Calling
<1>15. Sending
  <2>1. \A p \in Pics : ~(stored[p] > 1)  BY <1>1
  <2>2. \A s \in Subs : sub[s].pc # "upload"  BY <1>2, <1>10
  <2>3. \A i \in 1..Len(View) : View[i].kind # "new"  BY <1>4, <1>5, <1>8
  <2>4. QED  BY <2>1, <2>2, <2>3 DEF Sending
<1>16. PicturesKept
  <2>1. PicsOf(Live(imgs)) = LivePics(imgs)  BY <1>5, LiveIs
  <2>2. PlacesOf(imgs, {"new", "kept"}) = 1..old  BY <1>4, <1>5 DEF PlacesOf
  <2>3. LivePics(imgs) = 1..old
    <3>1. LivePics(imgs) = {imgs[i].pic : i \in 1..old}  BY <2>2 DEF LivePics
    <3>2. QED  BY <1>4, <3>1
  <2>4. QED  BY <1>1, <1>8, <2>1, <2>3 DEF PicturesKept
<1>17. IdsBelong  BY <1>4, <1>5, <1>7, <1>8 DEF IdsBelong
<1>18. QED  BY <1>11, <1>13, <1>14, <1>15, <1>16, <1>17 DEF EditorInv

LEMMA EditorInvStep == EditorInv /\ [EditorNext]_editorVars => EditorInv'
<1> SUFFICES ASSUME EditorInv, [EditorNext]_editorVars PROVE EditorInv'  OBVIOUS
<1>1. CASE OpenAlbum  BY <1>1, OpenAlbumKeeps
<1>2. CASE Choose  BY <1>2, ChooseKeeps
<1>3. CASE DelImage  BY <1>3, DelImageKeeps
<1>4. CASE Cancel  BY <1>4, CancelKeeps
<1>5. CASE LeaveEditor  BY <1>5, LeaveEditorKeeps
<1>6. CASE Return  BY <1>6, ReturnKeeps
<1>7. ASSUME NEW s \in Subs, SubmitEditor(s) PROVE EditorInv'  BY <1>7, SubmitEditorKeeps
<1>8. ASSUME NEW s \in Subs, Requests(s) PROVE EditorInv'
  <2>1. ASSUME NEW i \in 1..Len(sub[s].res), FileEnds(s, i) PROVE EditorInv'  BY <2>1, FileEndsKeeps
  <2>2. CASE UploadEnds(s)  BY <2>2, UploadEndsKeeps
  <2>3. CASE Rejected(s)  BY <2>3, RejectedKeeps
  <2>4. CASE SaveEnds(s)  BY <2>4, SaveEndsKeeps
  <2>5. QED  BY <1>8, <2>1, <2>2, <2>3, <2>4 DEF Requests
<1>9. CASE UNCHANGED editorVars
  <2>1. /\ e' = e /\ sub' = sub /\ stored' = stored /\ entry' = entry /\ wanted' = wanted /\ resent' = resent
        /\ overlap' = overlap /\ chosen' = chosen /\ leaves' = leaves
    BY <1>9 DEF editorVars
  <2>2. View' = View  BY <2>1 DEF View
  <2>3. EditorData' /\ EditorShown'  BY <2>1, <2>2 DEF EditorInv, EditorData, EditorShown
  <2>4. OneSave'  BY <2>1, <2>2 DEF EditorInv, OneSave, Calling
  <2>5. Sending'  BY <2>1, <2>2 DEF EditorInv, Sending, SendsOf, NotSent
  <2>6. PicturesKept' /\ IdsBelong'  BY <2>1, <2>2 DEF EditorInv, PicturesKept, IdsBelong
  <2>7. QED  BY <2>3, <2>4, <2>5, <2>6 DEF EditorInv
<1>10. QED  BY <1>1, <1>2, <1>3, <1>4, <1>5, <1>6, <1>7, <1>8, <1>9 DEF EditorNext

LEMMA EditorInvImplies == EditorInv => EditorTypeOK /\ PicturesKept /\ IdsBelong /\ UploadedOnce
<1> SUFFICES ASSUME EditorInv PROVE EditorTypeOK /\ UploadedOnce  BY DEF EditorInv
<1>1. EditorData /\ Sending  BY DEF EditorInv
<1>2. EditorTypeOK
  <2>1. /\ e \in EditorStates /\ e.imgs \in Seq(Pictures) /\ sub \in [Subs -> CallStates]
        /\ \A s \in Subs : Len(sub[s].res) = Len(sub[s].snap) /\ sub[s].snap \in Seq(Pictures)
    BY <1>1 DEF EditorData, ListIs, SaveIs
  <2>2. e.of \in {"entry", "memory", "cover"} /\ e.upToken \in Subs \cup {NoSub} /\ e.saveToken \in Subs \cup {NoSub}
    BY <2>1 DEF EditorStates
  <2>3. \A i \in 1..Len(e.imgs) : e.imgs[i].kind \in {"new", "kept", "deleted"} /\ e.imgs[i].pic \in Pics
    <3>1. \A i \in 1..Len(e.imgs) : e.imgs[i] \in Pictures  BY <2>1, PlacesIs
    <3>2. QED  BY <3>1 DEF Pictures
  <2>4. \A s \in Subs : sub[s].pc \in {"idle", "upload", "save"} /\ Len(sub[s].res) <= Len(sub[s].snap)
    <3>1. \A s \in Subs : Len(sub[s].snap) \in Nat  BY <2>1, LenProperties
    <3>2. \A s \in Subs : sub[s].pc \in {"idle", "upload", "save"}  BY <2>1 DEF CallStates
    <3>3. QED  BY <2>1, <3>1, <3>2
  <2>5. wanted \subseteq Pics
    <3>1. \A k \in 0..MaxPics : \A p \in 1..k : p \in 1..MaxPics  BY EditorBounds
    <3>2. QED  BY <1>1, <3>1, EditorBounds DEF EditorData
  <2>6. resent \subseteq Pics /\ overlap \in BOOLEAN /\ leaves \in 0..MaxLeaves  BY <1>1 DEF EditorData
  <2>7. QED  BY <2>2, <2>3, <2>4, <2>5, <2>6 DEF EditorTypeOK
<1>3. UploadedOnce  BY <1>1 DEF Sending, UploadedOnce
<1>4. QED  BY <1>2, <1>3
=============================================================================
