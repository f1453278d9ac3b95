----------------------------- MODULE Fulfillment -----------------------------
(***************************************************************************)
(* From a signed payment event to a license: processWebhook, fulfillOrder  *)
(* and handleRefund (handlers/checkout/checkout.go) over the orders and    *)
(* licenses tables, next to an admin who issues, unrevokes and voids.      *)
(*                                                                         *)
(* The payment provider redelivers an event until it is answered 200, may  *)
(* deliver it again after that, and delivers events in any order.  Every   *)
(* delivery is handled on its own goroutine: a request below.  Statements  *)
(* of different requests interleave; the writes of one transaction become  *)
(* visible together, at its commit.                                        *)
(***************************************************************************)
EXTENDS Integers, FiniteSets

CONSTANTS
  Sessions,    \* payment sessions: orders.payment_session
  Customers,
  Buyer,       \* Buyer[s]: who pays in session s
  Workers,     \* webhook deliveries that may be in progress at once
  LicenseIds,  \* BOUND on licenses ever created; an id is never used twice
  Slots,       \* the max_activations setting: slots per purchase
  MaxSlots,    \* BOUND on the slots of one license
  MaxVoids,    \* BOUND: nothing is voided once an order was this often
  MaxFails,    \* BOUND on failing deliveries
  None         \* no event, no worker, no license

ASSUME BuyerAssumption == Buyer \in [Sessions -> Customers]
ASSUME SlotsAssumption == Slots \in Nat \ {0}
ASSUME BoundsAssumption == MaxSlots \in Nat /\ MaxVoids \in Nat /\ MaxFails \in Nat
ASSUME FiniteAssumption == IsFiniteSet(LicenseIds)
ASSUME NoneAssumption == None \notin Workers \cup LicenseIds

VARIABLES
  order,     \* order[s]: the orders row of session s, see RowStates
  ver,       \* ver[s]: which row that is; a voided order's successor is another
  holder,    \* holder[s]: whose transaction has written the row and is open
  live,      \* the licenses table
  gone,      \* licenses deleted again
  orderOf,   \* licenses.order_id, as the session of the order
  slots,     \* licenses.max_activations
  revoked,   \* licenses.revoked
  pardoned,  \* history: licenses an admin has unrevoked
  sent,      \* events the provider has to tell
  answered,  \* events a handler has answered 200
  dropped,   \* events answered 200 with no provider to read them
  fails,     \* failed deliveries so far
  pc,        \* where each request stands
  job,       \* its event
  saw,       \* existingOrder: is there a row, and is it refunded
  sawVer,    \* which row it read
  target     \* the license a top-up goes to

license == <<live, gone, orderOf, slots, revoked, pardoned>>
events == <<sent, answered, dropped>>
locals == <<job, saw, sawVer, target>>
vars == <<order, ver, holder, license, events, fails, pc, locals>>

(* "stub" and "filled" are rows with refunded = TRUE, before and after     *)
(* FulfillStubOrder gave them a customer; "order" has refunded = FALSE.    *)
RowStates == {"none", "stub", "filled", "order"}
Refunded == {"stub", "filled"}

Events == {"order", "refund"} \X Sessions
Session(w) == job[w][2]

Steps == {"read", "write", "pick", "commit", "readRefund", "stub", "revoke"}

(* Points at which fulfillOrder's transaction has written its orders row.  *)
InTx == {"pick", "commit"}

LicensesOf(s) == {l \in live : orderOf[l] = s}
LicensesOfCustomer(c) == {l \in live : Buyer[orderOf[l]] = c}

TablesOK ==
  /\ order \in [Sessions -> RowStates]
  /\ ver \in [Sessions -> Nat]
  /\ holder \in [Sessions -> Workers \cup {None}]
  /\ live \subseteq LicenseIds /\ gone \subseteq LicenseIds
  /\ orderOf \in [LicenseIds -> Sessions]
  /\ slots \in [LicenseIds -> Nat]
  /\ revoked \subseteq LicenseIds /\ pardoned \subseteq LicenseIds

RequestsOK ==
  /\ sent \subseteq Events /\ answered \subseteq sent /\ dropped \subseteq sent
  /\ fails \in Nat
  /\ pc \in [Workers -> {"idle"} \cup Steps]
  /\ job \in [Workers -> Events \cup {None}]
  /\ saw \in [Workers -> {"none", "refunded"}]
  /\ sawVer \in [Workers -> Nat]
  /\ target \in [Workers -> LicenseIds \cup {None}]

TypeOK == TablesOK /\ RequestsOK

Init ==
  /\ order = [s \in Sessions |-> "none"]
  /\ ver = [s \in Sessions |-> 0]
  /\ holder = [s \in Sessions |-> None]
  /\ live = {} /\ gone = {} /\ revoked = {} /\ pardoned = {}
  /\ \E s \in Sessions : orderOf = [l \in LicenseIds |-> s]
  /\ slots = [l \in LicenseIds |-> 0]
  /\ sent = {} /\ answered = {} /\ dropped = {}
  /\ fails = 0
  /\ pc = [w \in Workers |-> "idle"]
  /\ job = [w \in Workers |-> None]
  /\ saw = [w \in Workers |-> "none"]
  /\ sawVer = [w \in Workers |-> 0]
  /\ target = [w \in Workers |-> None]

-----------------------------------------------------------------------------
(* The provider                                                            *)

(* A customer pays; every session is paid once.                            *)
Pay(s) ==
  /\ order[s] = "none" /\ ver[s] = 0 /\ <<"order", s>> \notin sent
  /\ sent' = sent \cup {<<"order", s>>}
  /\ UNCHANGED <<order, ver, holder, license, answered, dropped, fails, pc, locals>>

(* What was paid may be refunded, whether or not the store knows of it.    *)
Refund(s) ==
  /\ <<"order", s>> \in sent /\ <<"refund", s>> \notin sent
  /\ sent' = sent \cup {<<"refund", s>>}
  /\ UNCHANGED <<order, ver, holder, license, answered, dropped, fails, pc, locals>>

-----------------------------------------------------------------------------
(* A request                                                               *)

Goto(w, to) == pc' = [pc EXCEPT ![w] = to]

(* The handler returns and forgets what it knew.                           *)
Leave(w) ==
  /\ Goto(w, "idle")
  /\ job' = [job EXCEPT ![w] = None]
  /\ saw' = [saw EXCEPT ![w] = "none"]
  /\ sawVer' = [sawVer EXCEPT ![w] = 0]
  /\ target' = [target EXCEPT ![w] = None]

(* Mutant of Answer: the event is looked at after it was forgotten.        *)
AnswerForgotten(w) == /\ Leave(w)
                      /\ answered' = answered \cup {job'[w]}
                      /\ UNCHANGED <<sent, dropped>>

(* Status 200.                                                             *)
Answer(w) == /\ Leave(w)
             /\ answered' = answered \cup {job[w]}
             /\ UNCHANGED <<sent, dropped>>

(* Mutant of Refuse: 200 on every error.                                   *)
RefuseQuietly(w) == Answer(w)

(* Status 500: the provider will deliver the event again.                  *)
Refuse(w) == Leave(w) /\ UNCHANGED events

(* processWebhook up to the dispatch on the event's type.                  *)
Receive(w, e) ==
  /\ pc[w] = "idle" /\ e \in sent
  /\ Goto(w, IF e[1] = "refund" THEN "readRefund" ELSE "read")
  /\ job' = [job EXCEPT ![w] = e]
  /\ UNCHANGED <<order, ver, holder, license, events, fails, saw, sawVer, target>>

(* buildProvider failed: payments are switched off, or the setting that    *)
(* names the provider could not be read.  The answer is 200 all the same,  *)
(* and for an event not answered before it is the last of it.              *)
Ignore(e) ==
  /\ e \in sent \ (answered \cup dropped)
  /\ dropped' = dropped \cup {e}
  /\ UNCHANGED <<order, ver, holder, license, sent, answered, fails, pc, locals>>

(* The handler dies or a statement fails; the transaction rolls back.      *)
Fail(w) ==
  /\ pc[w] # "idle"
  /\ fails < MaxFails
  /\ fails' = fails + 1
  /\ holder' = IF pc[w] \in InTx THEN [holder EXCEPT ![Session(w)] = None] ELSE holder
  /\ Refuse(w)
  /\ UNCHANGED <<order, ver, license>>

-----------------------------------------------------------------------------
(* An order event: processWebhook's lookup, then fulfillOrder              *)

(* GetOrderByPaymentSession and the reads before the transaction.          *)
ReadOrder(w) ==
  LET s == Session(w) IN
  /\ pc[w] = "read"
  /\ \/ /\ order[s] = "order"
        /\ Answer(w)
     \/ /\ order[s] # "order"
        /\ Goto(w, "write")
        /\ saw' = [saw EXCEPT ![w] = IF order[s] = "none" THEN "none" ELSE "refunded"]
        /\ UNCHANGED <<events, job, sawVer, target>>
  /\ UNCHANGED <<order, ver, holder, license, fails>>

(* Mutant of InsertOrder: payment_session is not UNIQUE.                   *)
InsertOrderUnchecked(w) ==
  /\ pc[w] = "write" /\ saw[w] = "none"
  /\ holder' = [holder EXCEPT ![Session(w)] = w]
  /\ Goto(w, "pick")
  /\ UNCHANGED <<order, ver, license, events, fails, locals>>

(* InsertOrder.  An open transaction with the same payment_session makes   *)
(* it wait; a committed row is a unique violation, answered 200.           *)
InsertOrder(w) ==
  LET s == Session(w) IN
  /\ pc[w] = "write" /\ saw[w] = "none"
  /\ holder[s] = None
  /\ IF order[s] = "none"
       THEN /\ holder' = [holder EXCEPT ![s] = w]
            /\ Goto(w, "pick")
            /\ UNCHANGED <<events, locals>>
       ELSE Answer(w) /\ UNCHANGED holder
  /\ UNCHANGED <<order, ver, license, fails>>

(* Mutant of FulfillStub: UPDATE .. WHERE payment_session, refunded or not. *)
FulfillStubAnyRow(w) ==
  LET s == Session(w) IN
  /\ pc[w] = "write" /\ saw[w] = "refunded"
  /\ IF order[s] # "none"
       THEN /\ holder[s] = None
            /\ holder' = [holder EXCEPT ![s] = w]
            /\ Goto(w, "pick")
            /\ UNCHANGED <<events, locals>>
       ELSE Refuse(w) /\ UNCHANGED holder
  /\ UNCHANGED <<order, ver, license, fails>>

(* FulfillStubOrder: UPDATE .. WHERE payment_session AND refunded.  No row *)
(* is sql.ErrNoRows, answered 500.                                         *)
FulfillStub(w) ==
  LET s == Session(w) IN
  /\ pc[w] = "write" /\ saw[w] = "refunded"
  /\ IF order[s] \in Refunded
       THEN /\ holder[s] = None
            /\ holder' = [holder EXCEPT ![s] = w]
            /\ Goto(w, "pick")
            /\ UNCHANGED <<events, locals>>
       ELSE Refuse(w) /\ UNCHANGED holder
  /\ UNCHANGED <<order, ver, license, fails>>

(* fulfillLicense by purchase mode, which an admin may change between two  *)
(* deliveries: install_plus tops up any license of the buyer, if there is  *)
(* one (GetLicenseForAppAndEmail, LIMIT 1); the other modes look nothing   *)
(* up.                                                                     *)
PickLicense(w) ==
  /\ pc[w] = "pick"
  /\ \/ UNCHANGED target
     \/ \E l \in LicensesOfCustomer(Buyer[Session(w)]) :
           target' = [target EXCEPT ![w] = l]
  /\ Goto(w, "commit")
  /\ UNCHANGED <<order, ver, holder, license, events, fails, job, saw, sawVer>>

(* Mutant of Commit: the order of a top-up is not committed with it.       *)
CommitTopUpAlone(w) ==
  /\ pc[w] = "commit"
  /\ target[w] \in live /\ slots[target[w]] + Slots <= MaxSlots
  /\ slots' = [slots EXCEPT ![target[w]] = @ + Slots]
  /\ holder' = [holder EXCEPT ![Session(w)] = None]
  /\ Answer(w)
  /\ UNCHANGED <<order, ver, live, gone, orderOf, revoked, pardoned, fails>>

(* InsertLicense or BumpLicenseMaxActivations, then, for an order that was *)
(* refunded before it came, the revocation; and COMMIT.  A license deleted *)
(* since PickLicense is topped up in vain.                                 *)
Commit(w) ==
  LET s == Session(w) IN
  /\ pc[w] = "commit"
  /\ IF target[w] = None
       THEN \E l \in LicenseIds \ (live \cup gone) :
              /\ live' = live \cup {l}
              /\ orderOf' = [orderOf EXCEPT ![l] = s]
              /\ slots' = [slots EXCEPT ![l] = Slots]
       ELSE /\ slots[target[w]] + Slots <= MaxSlots
            /\ slots' = IF target[w] \in live
                          THEN [slots EXCEPT ![target[w]] = @ + Slots] ELSE slots
            /\ UNCHANGED <<live, orderOf>>
  /\ IF saw[w] = "refunded"
       THEN /\ revoked' = revoked \cup {l \in live' : orderOf'[l] = s}
            /\ order' = [order EXCEPT ![s] = "filled"]
       ELSE /\ UNCHANGED revoked
            /\ order' = [order EXCEPT ![s] = "order"]
  /\ holder' = [holder EXCEPT ![s] = None]
  /\ Answer(w)
  /\ UNCHANGED <<ver, gone, pardoned, fails>>

-----------------------------------------------------------------------------
(* A refund event: handleRefund                                            *)

(* Mutant of ReadForRefund: no stub, the provider shall come back when the *)
(* order is known.                                                         *)
ReadForRefundLater(w) ==
  LET s == Session(w) IN
  /\ pc[w] = "readRefund"
  /\ \/ order[s] \in Refunded /\ Answer(w)
     \/ order[s] = "none" /\ Refuse(w)
     \/ /\ order[s] = "order"
        /\ Goto(w, "revoke")
        /\ sawVer' = [sawVer EXCEPT ![w] = ver[s]]
        /\ UNCHANGED <<events, job, saw, target>>
  /\ UNCHANGED <<order, ver, holder, license, fails>>

(* GetOrderByPaymentSession and the two early ends of handleRefund.        *)
ReadForRefund(w) ==
  LET s == Session(w) IN
  /\ pc[w] = "readRefund"
  /\ \/ /\ order[s] \in Refunded
        /\ Answer(w)
     \/ /\ order[s] \notin Refunded
        /\ Goto(w, IF order[s] = "none" THEN "stub" ELSE "revoke")
        /\ sawVer' = [sawVer EXCEPT ![w] = ver[s]]
        /\ UNCHANGED <<events, job, saw, target>>
  /\ UNCHANGED <<order, ver, holder, license, fails>>

(* Mutant of InsertRefundStub: a unique violation is a duplicate, answered *)
(* 200 as it is for orders.                                                *)
InsertRefundStubOnce(w) ==
  LET s == Session(w) IN
  /\ pc[w] = "stub" /\ holder[s] = None
  /\ order' = [order EXCEPT ![s] = IF @ = "none" THEN "stub" ELSE @]
  /\ Answer(w)
  /\ UNCHANGED <<ver, holder, license, fails>>

(* InsertRefundStub, outside any transaction; a unique violation is an     *)
(* error like any other here, answered 500.                                *)
InsertRefundStub(w) ==
  LET s == Session(w) IN
  /\ pc[w] = "stub"
  /\ holder[s] = None
  /\ IF order[s] = "none"
       THEN order' = [order EXCEPT ![s] = "stub"] /\ Answer(w)
       ELSE UNCHANGED order /\ Refuse(w)
  /\ UNCHANGED <<ver, holder, license, fails>>

(* RevokeLicenseByOrderID, by the id read before: a voided order's         *)
(* successor is not touched.                                               *)
RevokeByOrder(w) ==
  LET s == Session(w) IN
  /\ pc[w] = "revoke"
  /\ revoked' = revoked \cup (IF sawVer[w] = ver[s] THEN LicensesOf(s) ELSE {})
  /\ Answer(w)
  /\ UNCHANGED <<order, ver, holder, live, gone, orderOf, slots, pardoned, fails>>

-----------------------------------------------------------------------------
(* The admin                                                               *)

(* AdminIssueLicense: an order of a session of its own and its license.    *)
IssueLicense(s, l) ==
  /\ <<"order", s>> \notin sent /\ order[s] = "none" /\ ver[s] = 0
  /\ l \notin live \cup gone
  /\ order' = [order EXCEPT ![s] = "order"]
  /\ live' = live \cup {l}
  /\ orderOf' = [orderOf EXCEPT ![l] = s]
  /\ slots' = [slots EXCEPT ![l] = Slots]
  /\ UNCHANGED <<ver, holder, gone, revoked, pardoned, events, fails, pc, locals>>

UnrevokeLicense(l) ==
  /\ l \in live \cap revoked
  /\ revoked' = revoked \ {l}
  /\ pardoned' = pardoned \cup {l}
  /\ UNCHANGED <<order, ver, holder, live, gone, orderOf, slots, events, fails, pc, locals>>

(* VoidOrder: one transaction that waits for whoever holds the row.        *)
VoidOrder(s) ==
  /\ order[s] # "none" /\ holder[s] = None
  /\ \A t \in Sessions : ver[t] < MaxVoids
  /\ order' = [order EXCEPT ![s] = "none"]
  /\ ver' = [ver EXCEPT ![s] = @ + 1]
  /\ live' = live \ LicensesOf(s)
  /\ gone' = gone \cup LicensesOf(s)
  /\ slots' = [l \in LicenseIds |-> IF l \in LicensesOf(s) THEN 0 ELSE slots[l]]
  /\ revoked' = revoked \ LicensesOf(s)
  /\ pardoned' = pardoned \ LicensesOf(s)
  /\ UNCHANGED <<holder, orderOf, events, fails, pc, locals>>

-----------------------------------------------------------------------------
Step(w) == \/ ReadOrder(w) \/ InsertOrder(w) \/ FulfillStub(w)
           \/ PickLicense(w) \/ Commit(w)
           \/ ReadForRefund(w) \/ InsertRefundStub(w) \/ RevokeByOrder(w)

Next == \/ \E s \in Sessions :
              \/ Pay(s) \/ Refund(s) \/ VoidOrder(s)
              \/ \E l \in LicenseIds : IssueLicense(s, l)
        \/ \E e \in Events : Ignore(e) \/ \E w \in Workers : Receive(w, e)
        \/ \E w \in Workers : Step(w) \/ Fail(w)
        \/ \E l \in LicenseIds : UnrevokeLicense(l)

(* The provider redelivers what was never answered, and finds a worker     *)
(* free if one is free again and again; a handler keeps running.           *)
Redeliver(e) == e \notin answered \cup dropped /\ \E w \in Workers : Receive(w, e)

Fairness == /\ \A e \in Events : SF_vars(Redeliver(e))
            /\ \A w \in Workers : WF_vars(Step(w))

Spec == Init /\ [][Next]_vars

FairSpec == Spec /\ Fairness

-----------------------------------------------------------------------------
(* Idempotence, for orders that were not refunded before they came: the    *)
(* row stands for at most one license however often and in whatever order  *)
(* its event is delivered, and a session without a fulfilled order has no  *)
(* license at all.                                                         *)
FulfilledOnce ==
  \A s \in Sessions :
     /\ order[s] = "order" => \A l, m \in LicensesOf(s) : l = m
     /\ order[s] \in {"none", "stub"} => LicensesOf(s) = {}

(* A refund that was answered has taken hold, whichever of the two events  *)
(* came first and however their handlers interleaved: no license of that   *)
(* order is usable unless an admin said so.  (A voided order is forgotten, *)
(* refund and all.)                                                        *)
RefundSticks ==
  \A s \in Sessions :
     <<"refund", s>> \in answered /\ ver[s] = 0 =>
        LicensesOf(s) \subseteq revoked \cup pardoned

(* The slots of a set of licenses: those of each are numbered from 1.      *)
SlotsOf(L) == UNION {{l} \X (1..slots[l]) : l \in L}
SlotsIn(L) == Cardinality(SlotsOf(L))

OrdersOf(c) == {s \in Sessions : Buyer[s] = c /\ order[s] = "order"}

(* No order of the customer was refunded before it came, or voided.        *)
PlainCustomer(c) ==
  \A s \in Sessions : Buyer[s] = c => order[s] # "filled" /\ ver[s] = 0

(* The slots a customer has are the slots the customer paid for: every     *)
(* order adds its slots exactly once, as a license or on top of one,       *)
(* though concurrent top-ups race and the purchase mode changes.  For the  *)
(* orders this leaves aside see OneLicensePerOrder.                        *)
SlotsMatchOrders ==
  \A c \in Customers :
     PlainCustomer(c) =>
        SlotsIn(LicensesOfCustomer(c)) = Slots * Cardinality(OrdersOf(c))

(* Nobody loses a license whose own payment was not refunded.              *)
RevokedForRefund ==
  [][\A l \in live : l \in revoked' \ revoked => <<"refund", orderOf[l]>> \in sent]_vars

(* Though its statements interleave with those of other handlers, and its  *)
(* look-ups may be stale, a handler that answers has acted at one moment,  *)
(* and one that does not has done nothing.                                 *)
Ledger == INSTANCE OrderLedger
HandledAtOnce == Ledger!Spec

(* A payment is lost when its event is answered and all that is left is    *)
(* the stub of its refund.  That takes a delivery that found no row before *)
(* the stub was there: to its INSERT, the stub is a duplicate.             *)
Lost(s) == order[s] = "stub" /\ <<"order", s>> \in answered /\ ver[s] = 0

LostInRace ==
  [][\A s \in Sessions :
        ~ Lost(s) /\ Lost(s)' =>
           \E w \in Workers : pc[w] = "write" /\ saw[w] = "none" /\ Session(w) = s]_vars

(* In the end a payment is recorded with its customer, unless payments     *)
(* were switched off, or seemed to be, when its event came, the admin      *)
(* voided the order, or it is lost; and it is lost in that race only.      *)
PaidIsRecorded ==
  /\ LostInRace
  /\ \A s \in Sessions :
        <<"order", s>> \in sent ~>
           order[s] \in {"order", "filled"} \/ ver[s] > 0 \/ Lost(s)
             \/ <<"order", s>> \in dropped

(* A refund is answered in the end, whatever state it finds the order in.  *)
RefundIsAnswered ==
  \A s \in Sessions :
     <<"refund", s>> \in sent ~> <<"refund", s>> \in answered \cup dropped

-----------------------------------------------------------------------------
(* The inductive invariant behind FulfilledOnce and RefundSticks.          *)

OrderSteps == {"read", "write"} \cup InTx

JobMatchesStep ==
  \A w \in Workers :
     pc[w] # "idle" =>
        /\ job[w] \in sent
        /\ job[w] = <<IF pc[w] \in OrderSteps THEN "order" ELSE "refund", Session(w)>>

RowHeld == \A s \in Sessions, w \in Workers :
              holder[s] = w <=> pc[w] \in InTx /\ Session(w) = s

(* What a transaction read of its row before it began is still so: nobody  *)
(* else gets at the row.                                                   *)
RowAsSeen ==
  \A w \in Workers :
     pc[w] \in InTx =>
        IF saw[w] = "none" THEN order[Session(w)] = "none"
                           ELSE order[Session(w)] \in Refunded

(* A refund about to revoke finds its order still there, or another one.   *)
RevokerAsSeen ==
  \A w \in Workers :
     pc[w] \in {"stub", "revoke"} =>
        /\ sawVer[w] <= ver[Session(w)]
        /\ pc[w] = "revoke" /\ sawVer[w] = ver[Session(w)] => order[Session(w)] = "order"

(* Until an admin voids the order, the store remembers every refund it has *)
(* answered: as an order, or as a stub that waits for one.                 *)
RefundRemembered ==
  \A s \in Sessions :
     /\ <<"refund", s>> \in answered /\ ver[s] = 0 => order[s] # "none"
     /\ order[s] \in Refunded => <<"refund", s>> \in sent

RefundedIsRevoked ==
  \A s \in Sessions :
     order[s] \in Refunded => LicensesOf(s) \subseteq revoked \cup pardoned

IInv == /\ TypeOK
        /\ JobMatchesStep
        /\ RowHeld
        /\ RowAsSeen
        /\ RevokerAsSeen
        /\ RefundRemembered
        /\ RefundedIsRevoked
        /\ FulfilledOnce
        /\ RefundSticks

-----------------------------------------------------------------------------
(* The inductive invariant behind SlotsMatchOrders, which holds beside IInv *)

(* A license is not in the table and deleted at once, and only voiding its *)
(* order deletes it.                                                       *)
GoneWasVoided ==
  /\ live \cap gone = {}
  /\ \A l \in gone : ver[orderOf[l]] > 0

(* The license a request is about to top up is or was one of its buyer.    *)
TargetIsBuyers ==
  \A w \in Workers :
     target[w] # None =>
        /\ pc[w] = "commit"
        /\ target[w] \in live \cup gone
        /\ Buyer[orderOf[target[w]]] = Buyer[Session(w)]

(* There are finitely many orders and slots to count.                      *)
Countable ==
  /\ IsFiniteSet({s \in Sessions : order[s] = "order"})
  /\ \A l \in LicenseIds : slots[l] <= Slots + MaxSlots

SlotsInv == GoneWasVoided /\ TargetIsBuyers /\ Countable /\ SlotsMatchOrders

-----------------------------------------------------------------------------
(* What the repository says and the code does not do.                      *)

(* "sending the same session_id twice results in exactly one order and one *)
(* license" (handlers/checkout_test.go, TestCheckoutDuplicateWebhook).     *)
OneLicensePerOrder == \A s \in Sessions : Cardinality(LicensesOf(s)) <= 1

(* "FulfillStubOrder populates both columns when the matching order        *)
(* webhook arrives" (001_schema.sql): an order event that was handled      *)
(* leaves no stub behind.                                                  *)
StubIsFilled ==
  \A s \in Sessions :
     <<"order", s>> \in answered /\ ver[s] = 0 => order[s] # "stub"

(* "refunds revoke what they paid for" (README.md): when every event is    *)
(* handled, the usable slots are those of the purchases not refunded.      *)
RefundTakesBack ==
  (/\ sent = answered /\ \A w \in Workers : pc[w] = "idle"
   /\ gone = {} /\ pardoned = {}) =>
     \A c \in Customers :
        SlotsIn(LicensesOfCustomer(c) \ revoked)
          = Slots * Cardinality({s \in Sessions : /\ Buyer[s] = c
                                                  /\ order[s] = "order"
                                                  /\ <<"refund", s>> \notin sent})

(* "handleRefund is idempotent" (polar.go): a refund event delivered again *)
(* does not undo what an admin decided about the license after it.         *)
PardonStands ==
  [][\A l \in pardoned \ revoked :
        <<"refund", orderOf[l]>> \in answered => l \notin revoked']_vars
=============================================================================
