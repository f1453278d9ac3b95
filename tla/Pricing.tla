------------------------------- MODULE Pricing -------------------------------
(***************************************************************************)
(* What a purchase costs, and how often a discount code was used           *)
(* (handlers/checkout/checkout.go, handlers/discounts, the admin's         *)
(* discount handlers, db/queries/discounts.go and auto_discounts.go).      *)
(*                                                                         *)
(* A checkout reads the app, the code and the automatic discount in        *)
(* statements of their own, while an admin changes them and time passes.   *)
(* The use of a code is counted by a goroutine after the order's commit.   *)
(* Codes do not influence each other: one code string is modelled.         *)
(***************************************************************************)
EXTENDS Integers, FiniteSets

CONSTANTS
  Apps,      \* what is for sale
  Scopes,    \* apps a discount may be limited to
  Prices,    \* price_cents an admin may set
  Edits,     \* BOUND on what the admin changes and the calendar does
  Autos,     \* BOUND on automatic discounts ever made
  Offers,    \* [scope, kind, value] of discounts an admin may make
  Limits,    \* max_uses an admin may set, 0 for no limit
  Checkouts, \* BOUND on checkout requests ever made
  Overlap,   \* BOUND on deliveries of one order past the look-up at once
  Repeats,   \* BOUND on fulfilments of one order that count the code
  None       \* store-wide (app_id IS NULL), no discount

ASSUME NoneAssumption == None \notin Scopes \cup Offers
ASSUME AppsAssumption == Apps \subseteq Scopes
ASSUME PricesAssumption == Prices \subseteq Int
ASSUME LimitsAssumption == Limits \subseteq Nat
ASSUME BoundsAssumption ==
  IsFiniteSet(Checkouts) /\ Edits \in Nat /\ Overlap \in Nat /\ Repeats \in Nat

(* ValidateDiscountParams                                                  *)
ASSUME OffersAssumption ==
  \A o \in Offers :
    /\ o \in [scope : Scopes \cup {None}, kind : {"percent", "fixed"}, value : Nat \ {0}]
    /\ o.kind = "percent" => o.value <= 100

VARIABLES
  price,   \* apps.price_cents
  auto,    \* auto_discounts: state, active and within its dates, terms
  code,    \* the discount_codes row with the code string
  job,     \* checkout requests, and the provider's sessions they open
  paid,    \* the checkouts that were paid
  row,     \* the orders row of each session: none, refunded (a stub,
           \* filled or not) or an order
  passed,  \* deliveries of each order past the look-up, by what it found
  started, \* history: goroutines started to count a use; <<s, n>> for the
           \* n-th fulfilment of s
  pending, \* those that have not counted yet
  touched, \* history: refunded before their order came, or voided
  edits    \* changes so far

rules == <<price, auto, code, edits>>
orders == <<paid, row, passed, started, pending, touched>>
vars == <<rules, job, orders>>

NoRow == [st |-> "none"]

AutoRow == [st : {"live", "archived"}, on : BOOLEAN, offer : Offers]
CodeRow == [st : {"live", "archived"}, on : BOOLEAN, offer : Offers,
            stackable : BOOLEAN, max : Limits, uses : Nat]

Job ==
  [at : {"new", "refused"}]
    \cup [at : {"check?", "code?"}, app : Apps, coded : BOOLEAN, list : Prices]
    \cup [at : {"auto?"}, app : Apps, coded : BOOLEAN, list : Prices,
          cut : Offers \cup {None}]
    \cup [at : {"open?"}, app : Apps, coded : BOOLEAN, list : Prices, charged : Int]
    \cup [at : {"open"}, app : Apps, coded : BOOLEAN, list : Prices, charged : Int,
          mock : BOOLEAN]

Found == {"none", "stub"}
Goroutine == Checkouts \X (1 .. Repeats)

TypeOK ==
  /\ price \in [Apps -> Prices]
  /\ auto \in [Autos -> AutoRow \cup {NoRow}]
  /\ code \in CodeRow \cup {NoRow}
  /\ job \in [Checkouts -> Job]
  /\ paid \subseteq {s \in Checkouts : job[s].at = "open"} /\ touched \subseteq paid
  /\ row \in [Checkouts -> Found \cup {"order"}]
  /\ \A s \in Checkouts : row[s] # "none" => s \in paid
  /\ passed \in [Checkouts -> [Found -> 0 .. Overlap]]
  /\ pending \subseteq started /\ started \subseteq Goroutine
  /\ edits \in 0 .. Edits

Init ==
  /\ price \in [Apps -> Prices]
  /\ auto = [d \in Autos |-> NoRow] /\ code = NoRow
  /\ job = [s \in Checkouts |-> [at |-> "new"]]
  /\ paid = {} /\ touched = {} /\ started = {} /\ pending = {} /\ edits = 0
  /\ row = [s \in Checkouts |-> "none"]
  /\ passed = [s \in Checkouts |-> [f \in Found |-> 0]]

-----------------------------------------------------------------------------
(* The rules.                                                              *)

(* Mutant of ApplyDiscount: a fixed discount may go below zero.            *)
ApplyUnfloored(o, cents) ==
  cents - IF o = None THEN 0
          ELSE IF o.kind = "percent" THEN (cents * o.value) \div 100 ELSE o.value

(* ApplyDiscount, in whole cents; None is no discount.                     *)
ApplyDiscount(o, cents) ==
  LET reduction == IF o = None THEN 0
                   ELSE IF o.kind = "percent" THEN (cents * o.value) \div 100
                   ELSE o.value
  IN IF cents < reduction THEN 0 ELSE cents - reduction

OrNone(S) == IF S = {} THEN {None} ELSE S

(* GetAllActiveAutoDiscounts                                               *)
Active == {auto[d].offer : d \in {e \in Autos : auto[e].st = "live" /\ auto[e].on}}

(* GetActiveAutoDiscount: ORDER BY puts the app's own discounts first, and *)
(* LIMIT 1 takes any of equals.                                            *)
GetActiveAutoDiscount(a) ==
  LET rows == {o \in Active : o.scope \in {None, a}}
  IN OrNone({o \in rows : \A q \in rows : q.scope # None => o.scope # None})

(* Mutant of bestAutoDiscount: a discount of another app passes for        *)
(* store-wide.                                                             *)
bestOfAny(a) ==
  LET own == {o \in Active : o.scope = a}
  IN IF own # {} THEN own ELSE OrNone({o \in Active : o.scope # a})

(* bestAutoDiscount: a loop over the active discounts in any order returns *)
(* the first one of the app, or else the first that is store-wide.         *)
bestAutoDiscount(a) ==
  LET own == {o \in Active : o.scope = a}
  IN IF own # {} THEN own ELSE OrNone({o \in Active : o.scope = None})

Exhausted == code.max > 0 /\ code.uses >= code.max

(* ValidateDiscountCode                                                    *)
ValidateDiscountCode(a) ==
  code.st = "live" /\ code.on /\ ~ Exhausted /\ code.offer.scope \in {None, a}

(* GET /projects: the price shown in the store.                            *)
Shown(a) == IF price[a] <= 0 THEN {price[a]}
            ELSE {ApplyDiscount(o, price[a]) : o \in bestAutoDiscount(a)}

(* POST /discounts/validate: the price shown for the code.                 *)
ValidateDiscount(a) ==
  {ApplyDiscount(code.offer, ApplyDiscount(o, price[a])) :
     o \in IF code.stackable THEN GetActiveAutoDiscount(a) ELSE {None}}

Goto(s, j) == job' = [job EXCEPT ![s] = j]
At(s, step) == job[s].at = step

(* computeDiscountedPrice: which discounts a checkout takes, ...            *)
WantsAuto(coded) == ~ coded \/ code.stackable
Cut(coded) == IF coded THEN code.offer ELSE None
AutoBase(a, list) == {ApplyDiscount(o, list) : o \in GetActiveAutoDiscount(a)}

(* ... and what its steps below arrive at while nothing changes.           *)
computeDiscountedPrice(a, coded) ==
  {ApplyDiscount(Cut(coded), base) :
     base \in IF WantsAuto(coded) THEN AutoBase(a, price[a]) ELSE {price[a]}}

-----------------------------------------------------------------------------
(* POST /checkout/session                                                  *)

(* The app is read.                                                        *)
CreateCheckout(s, a, coded) ==
  /\ At(s, "new")
  /\ Goto(s, IF price[a] <= 0 THEN [at |-> "refused"]
             ELSE [at |-> IF coded THEN "check?" ELSE "code?", app |-> a,
                   coded |-> coded, list |-> price[a]])
  /\ UNCHANGED <<rules, orders>>

(* The code is validated for the first time; the query may fail.           *)
ValidateCode(s) ==
  /\ At(s, "check?")
  /\ \/ Goto(s, [at |-> "refused"])
     \/ ValidateDiscountCode(job[s].app) /\ Goto(s, [job[s] EXCEPT !.at = "code?"])
  /\ UNCHANGED <<rules, orders>>

Priced(j, cents) ==
  [at |-> "open?", app |-> j.app, coded |-> j.coded, list |-> j.list, charged |-> cents]

AskAuto(j, cut) ==
  [at |-> "auto?", app |-> j.app, coded |-> j.coded, list |-> j.list, cut |-> cut]

(* computeDiscountedPrice, 1: the code is read again.  If it is not valid  *)
(* any more, or the query fails, the full price stands, without the        *)
(* automatic discount.                                                     *)
ReadCode(s, fails) ==
  LET j == job[s] IN
  /\ At(s, "code?")
  /\ Goto(s, IF j.coded /\ (fails \/ ~ ValidateDiscountCode(j.app))
               THEN Priced(j, j.list)
             ELSE IF WantsAuto(j.coded) THEN AskAuto(j, Cut(j.coded))
             ELSE Priced(j, ApplyDiscount(Cut(j.coded), j.list)))
  /\ UNCHANGED <<rules, orders>>

(* 2: the automatic discount, none if the query fails, and the code on top *)
(* of it.                                                                  *)
ReadAuto(s) ==
  LET j == job[s] IN
  /\ At(s, "auto?")
  /\ \E base \in AutoBase(j.app, j.list) \cup {j.list} :
       Goto(s, Priced(j, ApplyDiscount(j.cut, base)))
  /\ UNCHANGED <<rules, orders>>

Session(j, mock) ==
  [at |-> "open", app |-> j.app, coded |-> j.coded, list |-> j.list,
   charged |-> j.charged, mock |-> mock]

(* The provider opens a session for the price.  Paddle and Polar refuse a  *)
(* price that is not positive, the mock provider takes any.                *)
OpenSession(s, mock) ==
  /\ At(s, "open?")
  /\ Goto(s, IF mock \/ job[s].charged > 0 THEN Session(job[s], mock)
                                           ELSE [at |-> "refused"])
  /\ UNCHANGED <<rules, orders>>

-----------------------------------------------------------------------------
(* The order event (Fulfillment has the rest of the webhook).              *)

Pay(s) ==
  /\ At(s, "open") /\ s \notin paid
  /\ paid' = paid \cup {s}
  /\ UNCHANGED <<rules, job, row, passed, started, pending, touched>>

Enters(s) ==
  /\ row[s] \in Found /\ passed[s]["none"] + passed[s]["stub"] < Overlap
  /\ passed' = [passed EXCEPT ![s][row[s]] = @ + 1]
  /\ UNCHANGED <<rules, job, paid, row, started, pending, touched>>

(* Mutant of LookUpOrder: a delivery does not wait for a payment.          *)
LookUpUnpaid(s) == At(s, "open") /\ Enters(s)

(* A delivery, the first or a repeated one, goes on if it finds no row of  *)
(* the session, or one that is refunded.                                   *)
LookUpOrder(s) == s \in paid /\ Enters(s)

(* The next goroutine of the session.                                      *)
Starts(s) ==
  \E n \in 1 .. Repeats :
     /\ <<s, n>> \notin started /\ \A m \in 1 .. n - 1 : <<s, m>> \in started
     /\ started' = started \cup {<<s, n>>} /\ pending' = pending \cup {<<s, n>>}

Leaves(s, saw) ==
  passed[s][saw] > 0 /\ passed' = [passed EXCEPT ![s][saw] = @ - 1]

(* Mutant of FulfilOrder: the use is counted before the error is looked at. *)
FulfilAndCount(s, saw) ==
  /\ Leaves(s, saw)
  /\ row' = IF saw = "none" /\ row[s] = "none" THEN [row EXCEPT ![s] = "order"] ELSE row
  /\ IF job[s].coded THEN Starts(s) ELSE UNCHANGED <<started, pending>>
  /\ UNCHANGED <<rules, job, paid, touched>>

(* What it found decides: no row, and it inserts the order, unless there   *)
(* is a row by now; a refunded one, and it fills that, however often it    *)
(* was filled before, unless it is not there any more.  What was written   *)
(* starts the goroutine.                                                   *)
FulfilOrder(s, saw) ==
  /\ Leaves(s, saw)
  /\ row' = IF saw = "none" /\ row[s] = "none" THEN [row EXCEPT ![s] = "order"] ELSE row
  /\ IF row[s] = saw /\ job[s].coded THEN Starts(s) ELSE UNCHANGED <<started, pending>>
  /\ UNCHANGED <<rules, job, paid, touched>>

(* A delivery breaks off and will be repeated.                             *)
BreakOff(s, saw) ==
  /\ Leaves(s, saw)
  /\ UNCHANGED <<rules, job, paid, row, started, pending, touched>>

(* The refund event comes before the order: a stub takes its place.        *)
Refund(s) ==
  /\ s \in paid /\ row[s] = "none"
  /\ row' = [row EXCEPT ![s] = "stub"] /\ touched' = touched \cup {s}
  /\ UNCHANGED <<rules, job, paid, passed, started, pending>>

(* An admin deletes the row, whatever it is.                               *)
VoidOrder(s) ==
  /\ row[s] # "none"
  /\ row' = [row EXCEPT ![s] = "none"] /\ touched' = touched \cup {s}
  /\ UNCHANGED <<rules, job, paid, passed, started, pending>>

(* IncrementDiscountUses, for the app of the event, counts on whatever row *)
(* has the code string now, archived or not, up to its limit.              *)
IncrementDiscountUses(g) ==
  /\ g \in pending /\ pending' = pending \ {g}
  /\ code' = IF code.st = "none" \/ code.offer.scope \notin {None, job[g[1]].app} \/ Exhausted
               THEN code
               ELSE [code EXCEPT !.uses = @ + 1]
  /\ UNCHANGED <<price, auto, edits, job, paid, row, passed, started, touched>>

(* The process stops, or the statement fails: the use is never counted.    *)
LoseCount(g) ==
  /\ g \in pending /\ pending' = pending \ {g}
  /\ UNCHANGED <<rules, job, paid, row, passed, started, touched>>

-----------------------------------------------------------------------------
(* The admin, and time.                                                    *)

Edit == edits < Edits /\ edits' = edits + 1 /\ UNCHANGED <<job, orders>>

AdminUpdateApp(a, cents) ==
  /\ price' = [price EXCEPT ![a] = cents]
  /\ UNCHANGED <<auto, code>> /\ Edit

InsertDiscountCode(o, on, stackable, max) ==
  code' = [st |-> "live", on |-> on, offer |-> o, stackable |-> stackable,
           max |-> max, uses |-> 0]

(* Every column but the code string and uses; max_uses may go below uses.  *)
UpdateDiscountCode(o, on, stackable, max) ==
  code' = [code EXCEPT !.on = on, !.offer = o, !.stackable = stackable, !.max = max]

(* The code string is UNIQUE, archived rows included.                      *)
AdminCreateDiscountCode(o, on, stackable, max) ==
  /\ code.st = "none" /\ InsertDiscountCode(o, on, stackable, max)
  /\ UNCHANGED <<price, auto>> /\ Edit

AdminUpdateDiscountCode(o, on, stackable, max) ==
  /\ code.st = "live" /\ UpdateDiscountCode(o, on, stackable, max)
  /\ UNCHANGED <<price, auto>> /\ Edit

AdminDeleteDiscountCode ==
  /\ code.st = "live"
  /\ code' = [code EXCEPT !.st = "archived"]
  /\ UNCHANGED <<price, auto>> /\ Edit

AdminRestoreDiscountCode ==
  /\ code.st = "archived"
  /\ code' = [code EXCEPT !.st = "live"]
  /\ UNCHANGED <<price, auto>> /\ Edit

AdminHardDeleteDiscountCode ==
  /\ code.st = "archived"
  /\ code' = NoRow
  /\ UNCHANGED <<price, auto>> /\ Edit

ExpireCode ==
  /\ code.st # "none" /\ code.on
  /\ code' = [code EXCEPT !.on = FALSE]
  /\ UNCHANGED <<price, auto>> /\ Edit

SetAuto(d, terms) == auto' = [auto EXCEPT ![d] = terms] /\ UNCHANGED <<price, code>> /\ Edit

AdminCreateAutoDiscount(d, o, on) ==
  auto[d].st = "none" /\ SetAuto(d, [st |-> "live", on |-> on, offer |-> o])

AdminUpdateAutoDiscount(d, o, on) ==
  auto[d].st = "live" /\ SetAuto(d, [st |-> "live", on |-> on, offer |-> o])

AdminDeleteAutoDiscount(d) ==
  auto[d].st = "live" /\ SetAuto(d, [auto[d] EXCEPT !.st = "archived"])

AdminRestoreAutoDiscount(d) ==
  auto[d].st = "archived" /\ SetAuto(d, [auto[d] EXCEPT !.st = "live"])

(* valid_from or expires_at passes; the dates themselves are left out.     *)
TimePasses(d) ==
  auto[d].st # "none" /\ SetAuto(d, [auto[d] EXCEPT !.on = ~ @])

-----------------------------------------------------------------------------
Manage ==
  \/ \E a \in Apps, cents \in Prices : AdminUpdateApp(a, cents)
  \/ \E o \in Offers, on, stackable \in BOOLEAN, max \in Limits :
       \/ AdminCreateDiscountCode(o, on, stackable, max)
       \/ AdminUpdateDiscountCode(o, on, stackable, max)
  \/ AdminDeleteDiscountCode \/ AdminRestoreDiscountCode
  \/ AdminHardDeleteDiscountCode \/ ExpireCode
  \/ \E d \in Autos, o \in Offers, on \in BOOLEAN :
       AdminCreateAutoDiscount(d, o, on) \/ AdminUpdateAutoDiscount(d, o, on)
  \/ \E d \in Autos : \/ AdminDeleteAutoDiscount(d) \/ AdminRestoreAutoDiscount(d)
                      \/ TimePasses(d)

Buy(s) ==
  \/ \E a \in Apps, coded \in BOOLEAN : CreateCheckout(s, a, coded)
  \/ ValidateCode(s) \/ ReadAuto(s) \/ \E fails \in BOOLEAN : ReadCode(s, fails)
  \/ \E mock \in BOOLEAN : OpenSession(s, mock)
  \/ Pay(s) \/ LookUpOrder(s) \/ Refund(s) \/ VoidOrder(s)
  \/ \E saw \in Found : FulfilOrder(s, saw) \/ BreakOff(s, saw)

Count == \E g \in pending : IncrementDiscountUses(g) \/ LoseCount(g)

Next == Manage \/ Count \/ \E s \in Checkouts : Buy(s)

Spec == Init /\ [][Next]_vars
-----------------------------------------------------------------------------
(* No discount, and no pair of discounts read at different times, makes    *)
(* the charge negative or higher than the price that was read, and a       *)
(* session of a real provider is never free: only the mock provider's may  *)
(* be (ApplyDiscount, CreateCheckout of the providers).                    *)
ChargedWithinList ==
  \A s \in Checkouts :
    /\ At(s, "open?") => job[s].charged \in 0 .. job[s].list
    /\ At(s, "open") => job[s].charged \in (IF job[s].mock THEN 0 ELSE 1) .. job[s].list

(* A code has never more uses than fulfilments that counted it, though it  *)
(* may be deleted for good and made again in between; and an order is      *)
(* counted once, however often it is delivered and however many deliveries *)
(* are at it at once.  Not so one whose refund came first, or that an      *)
(* admin voided: each later delivery of it counts again (processWebhook,   *)
(* IncrementDiscountUses).                                                 *)
UsesAreOrders ==
  /\ code.st # "none" => code.uses <= Cardinality(started \ pending)
  /\ \A g \in started : g[1] \notin touched => g[2] = 1 /\ row[g[1]] = "order"

(* Two discounts of one scope are in force for an app: the programs below  *)
(* take either.                                                            *)
Tied(a) ==
  \E o, q \in Active :
    /\ o # q /\ o.scope = q.scope
    /\ o.scope = a \/ (o.scope = None /\ \A r \in Active : r.scope # a)

(* While nothing changes and no two discounts tie, the store shows one     *)
(* price, which is the one charged; and so it is with a code: three        *)
(* programs follow one rule (ListProjects, ValidateDiscount,               *)
(* computeDiscountedPrice).                                                *)
ShownIsCharged ==
  \A a \in Apps : price[a] > 0 /\ ~ Tied(a) =>
    /\ \E p \in Shown(a) : Shown(a) = {p} /\ computeDiscountedPrice(a, FALSE) = {p}
    /\ ValidateDiscountCode(a) =>
         \E p \in ValidateDiscount(a) : ValidateDiscount(a) = {p} /\ computeDiscountedPrice(a, TRUE) = {p}

(* The price in the store is that of the cheapest discount in force for    *)
(* the app ("cheapest applicable wins").                                   *)
CheapestWins ==
  \A a \in Apps : price[a] > 0 =>
    \A p \in Shown(a), o \in Active :
      o.scope \in {None, a} => p <= ApplyDiscount(o, price[a])
=============================================================================
