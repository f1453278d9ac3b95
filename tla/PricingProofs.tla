---------------------------- MODULE PricingProofs ----------------------------
(* Proofs about Pricing: what is charged lies between nothing and the list *)
(* price, an order that is neither refunded early nor voided counts its    *)
(* code once, and the price shown is the price charged, for any discounts, *)
(* prices and overlapping checkouts and deliveries.                        *)
EXTENDS Pricing, FiniteSetTheorems, TLAPS

-----------------------------------------------------------------------------
(* Discounts.                                                              *)

(* A discount takes something off, and leaves no less than nothing.        *)
LEMMA WithinPrice ==
  ASSUME NEW o \in Offers \cup {None}, NEW cents \in Int, cents >= 0
  PROVE  ApplyDiscount(o, cents) \in 0 .. cents
<1>1. CASE o = None
  BY <1>1 DEF ApplyDiscount
<1>2. CASE o \in Offers
  <2>1. o # None /\ o.kind \in {"percent", "fixed"} /\ o.value \in Nat
    BY <1>2, OffersAssumption, NoneAssumption
  <2>2. CASE o.kind = "percent"
    <3>. DEFINE cut == (cents * o.value) \div 100
    <3>1. ApplyDiscount(o, cents) = IF cents < cut THEN 0 ELSE cents - cut
      BY <2>1, <2>2 DEF ApplyDiscount
    <3>2. cents * o.value \in Nat
      BY <2>1
    <3>3. cut \in Nat
      BY <3>2
    <3>. QED
      BY <3>1, <3>3
  <2>3. CASE o.kind = "fixed"
    BY <2>1, <2>3 DEF ApplyDiscount
  <2>. QED
    BY <2>1, <2>2, <2>3
<1>. QED
  BY <1>1, <1>2

LEMMA NoDiscount == \A cents \in Nat : ApplyDiscount(None, cents) = cents
  BY DEF ApplyDiscount

-----------------------------------------------------------------------------
(* The price shown and the price charged.                                  *)

LEMMA RowFields ==
  ASSUME TypeOK
  PROVE  /\ \A d \in Autos : auto[d].st # "none" => auto[d] \in AutoRow
         /\ code.st # "none" => code \in CodeRow
  BY DEF TypeOK, NoRow

LEMMA ActiveOffers == TypeOK => Active \subseteq Offers
  BY RowFields DEF Active, AutoRow

(* The loop over all discounts takes what the query takes.                 *)
LEMMA LoopIsQuery ==
  ASSUME TypeOK, NEW a \in Apps
  PROVE  /\ bestAutoDiscount(a) = GetActiveAutoDiscount(a)
         /\ GetActiveAutoDiscount(a) \subseteq Offers \cup {None}
<1>. DEFINE own == {o \in Active : o.scope = a}
            rows == {o \in Active : o.scope \in {None, a}}
            first == {o \in rows : \A q \in rows : q.scope # None => o.scope # None}
<1>1. a # None
  BY NoneAssumption, AppsAssumption
<1>2. CASE own # {}
  <2>1. first = own
    BY <1>1, <1>2
  <2>. QED
    BY <1>2, <2>1, ActiveOffers DEF bestAutoDiscount, GetActiveAutoDiscount, OrNone
<1>3. CASE own = {}
  <2>1. rows = {o \in Active : o.scope = None}
    BY <1>3
  <2>2. first = rows
    BY <2>1
  <2>. QED
    BY <1>3, <2>1, <2>2, ActiveOffers DEF bestAutoDiscount, GetActiveAutoDiscount, OrNone
<1>. QED
  BY <1>2, <1>3

(* Without a tie they take one and the same.                               *)
LEMMA OneBest ==
  ASSUME TypeOK, NEW a \in Apps, ~ Tied(a)
  PROVE  \E o \in Offers \cup {None} :
            bestAutoDiscount(a) = {o} /\ GetActiveAutoDiscount(a) = {o}
<1>. DEFINE own == {o \in Active : o.scope = a}
            all == {o \in Active : o.scope = None}
<1>1. own \subseteq Offers /\ all \subseteq Offers
  BY ActiveOffers
<1>2. bestAutoDiscount(a) = IF own # {} THEN own ELSE OrNone(all)
  BY DEF bestAutoDiscount
<1>3. \A o, q \in own : o = q
  BY DEF Tied
<1>4. own = {} => \A o, q \in all : o = q
  BY DEF Tied
<1>5. \E o \in Offers \cup {None} : bestAutoDiscount(a) = {o}
  <2>. HIDE DEF own, all
  <2>1. CASE own # {}
    <3>1. PICK o \in own : TRUE
      BY <2>1
    <3>2. own = {o} /\ o \in Offers
      BY <1>1, <1>3, <3>1
    <3>. QED
      BY <1>2, <2>1, <3>2
  <2>2. CASE own = {} /\ all # {}
    <3>1. PICK o \in all : TRUE
      BY <2>2
    <3>2. all = {o} /\ o \in Offers
      BY <1>1, <1>4, <2>2, <3>1
    <3>. QED
      BY <1>2, <2>2, <3>2 DEF OrNone
  <2>3. CASE own = {} /\ all = {}
    BY <1>2, <2>3 DEF OrNone
  <2>. QED
    BY <2>1, <2>2, <2>3
<1>. QED
  BY <1>5, LoopIsQuery

LEMMA OneRule == TypeOK => ShownIsCharged
<1>. SUFFICES ASSUME TypeOK, NEW a \in Apps, price[a] > 0, ~ Tied(a)
              PROVE  /\ \E p \in Shown(a) :
                          Shown(a) = {p} /\ computeDiscountedPrice(a, FALSE) = {p}
                     /\ ValidateDiscountCode(a) =>
                          \E p \in ValidateDiscount(a) :
                            /\ ValidateDiscount(a) = {p}
                            /\ computeDiscountedPrice(a, TRUE) = {p}
  BY DEF ShownIsCharged
<1>1. price[a] \in Nat /\ ~ (price[a] <= 0)
  <2>1. price[a] \in Int
    BY PricesAssumption DEF TypeOK
  <2>. QED
    BY <2>1
<1>2. PICK o \in Offers \cup {None} :
         bestAutoDiscount(a) = {o} /\ GetActiveAutoDiscount(a) = {o}
  BY OneBest
<1>. DEFINE base == ApplyDiscount(o, price[a])
<1>3. base \in Nat
  BY <1>1, WithinPrice
<1>4. AutoBase(a, price[a]) = {base}
  BY <1>2 DEF AutoBase
<1>5. Shown(a) = {base}
  BY <1>1, <1>2 DEF Shown
<1>. HIDE DEF base
<1>6. computeDiscountedPrice(a, FALSE) = {base}
  <2>1. computeDiscountedPrice(a, FALSE) = {ApplyDiscount(None, base)}
    BY <1>4 DEF computeDiscountedPrice, WantsAuto, Cut
  <2>2. ApplyDiscount(None, base) = base
    BY <1>3, NoDiscount
  <2>. QED
    BY <2>1, <2>2
<1>7. ASSUME ValidateDiscountCode(a)
      PROVE  \E p : ValidateDiscount(a) = {p} /\ computeDiscountedPrice(a, TRUE) = {p}
  <2>1. CASE code.stackable
    <3>1. ValidateDiscount(a) = {ApplyDiscount(code.offer, base)}
      BY <1>2, <2>1 DEF ValidateDiscount, base
    <3>2. computeDiscountedPrice(a, TRUE) = {ApplyDiscount(code.offer, base)}
      BY <1>4, <2>1 DEF computeDiscountedPrice, WantsAuto, Cut
    <3>. QED
      BY <3>1, <3>2
  <2>2. CASE ~ code.stackable
    <3>1. ValidateDiscount(a) = {ApplyDiscount(code.offer, ApplyDiscount(None, price[a]))}
      BY <2>2 DEF ValidateDiscount
    <3>2. ApplyDiscount(None, price[a]) = price[a]
      BY <1>1, NoDiscount
    <3>3. computeDiscountedPrice(a, TRUE) = {ApplyDiscount(code.offer, price[a])}
      BY <2>2 DEF computeDiscountedPrice, WantsAuto, Cut
    <3>. QED
      BY <3>1, <3>2, <3>3
  <2>. QED
    BY <2>1, <2>2
<1>. QED
  BY <1>5, <1>6, <1>7
-----------------------------------------------------------------------------
(* The invariant.                                                          *)

Fresh == {"check?", "code?", "auto?", "open?", "open"}

(* A checkout goes on with a positive price, and charges part of it.       *)
Fair(j) ==
  /\ j.at \in Fresh => j.list \in Int /\ j.list > 0
  /\ j.at = "open?" => j.charged \in 0 .. j.list
  /\ j.at = "open" => j.charged \in (IF j.mock THEN 0 ELSE 1) .. j.list

(* A delivery is of a payment, and a stub was touched.                     *)
OrdersOK ==
  /\ \A s \in Checkouts, f \in Found : passed[s][f] > 0 => s \in paid
  /\ \A s \in Checkouts : row[s] = "stub" => s \in touched

PricingInv ==
  /\ TypeOK
  /\ \A s \in Checkouts : Fair(job[s])
  /\ OrdersOK
  /\ UsesAreOrders

LEMMA Counts ==
  ASSUME started \subseteq Goroutine
  PROVE  IsFiniteSet(started \ pending) /\ Cardinality(started \ pending) \in Nat
<1>1. IsFiniteSet(1 .. Repeats)
  BY BoundsAssumption, FS_Interval
<1>2. IsFiniteSet(Goroutine)
  BY <1>1, BoundsAssumption, FS_Product DEF Goroutine
<1>. QED
  BY <1>2, FS_Subset, FS_CardinalityType

LEMMA JobShape ==
  ASSUME NEW j \in Job
  PROVE  /\ j.at \in Fresh => j.app \in Apps /\ j.coded \in BOOLEAN /\ j.list \in Prices
         /\ j.at = "auto?" => j.cut \in Offers \cup {None}
         /\ j.at \in {"open?", "open"} => j.charged \in Int
<1>1. CASE j.at \in {"new", "refused"}
  BY <1>1 DEF Job, Fresh
<1>2. CASE j.at \in {"check?", "code?"}
  BY <1>2 DEF Job, Fresh
<1>3. CASE j.at = "auto?"
  BY <1>3 DEF Job, Fresh
<1>4. CASE j.at = "open?"
  BY <1>4 DEF Job, Fresh
<1>5. CASE j.at = "open"
  BY <1>5 DEF Job, Fresh
<1>. QED
  BY <1>1, <1>2, <1>3, <1>4, <1>5 DEF Job

Refused == [at |-> "refused"]
Asked(step, a, coded, cents) == [at |-> step, app |-> a, coded |-> coded, list |-> cents]

LEMMA RefusedIsJob == Refused \in Job /\ Fair(Refused)
  BY DEF Refused, Job, Fair, Fresh

LEMMA JobMade ==
  /\ \A step \in {"check?", "code?"}, a \in Apps, coded \in BOOLEAN, cents \in Prices :
        Asked(step, a, coded, cents) \in Job
  /\ \A j \in Job : j.at \in Fresh =>
        /\ \A cents \in Int : Priced(j, cents) \in Job
        /\ \A o \in Offers \cup {None} : AskAuto(j, o) \in Job
  /\ \A j \in Job, mock \in BOOLEAN : j.at = "open?" => Session(j, mock) \in Job
<1>2. \A step \in {"check?", "code?"}, a \in Apps, coded \in BOOLEAN, cents \in Prices :
        Asked(step, a, coded, cents) \in Job
  BY DEF Asked, Job
<1>3. ASSUME NEW j \in Job, j.at \in Fresh
      PROVE  /\ \A cents \in Int : Priced(j, cents) \in Job
             /\ \A o \in Offers \cup {None} : AskAuto(j, o) \in Job
  <2>1. j.app \in Apps /\ j.coded \in BOOLEAN /\ j.list \in Prices
    BY <1>3, JobShape
  <2>2. ASSUME NEW cents \in Int PROVE Priced(j, cents) \in Job
    BY <2>1 DEF Priced, Job
  <2>3. ASSUME NEW o \in Offers \cup {None} PROVE AskAuto(j, o) \in Job
    BY <2>1 DEF AskAuto, Job
  <2>. QED
    BY <2>2, <2>3
<1>4. ASSUME NEW j \in Job, NEW mock \in BOOLEAN, j.at = "open?"
      PROVE  Session(j, mock) \in Job
  <2>1. j.app \in Apps /\ j.coded \in BOOLEAN /\ j.list \in Prices /\ j.charged \in Int
    BY <1>4, JobShape DEF Fresh
  <2>. QED
    BY <2>1 DEF Session, Job
<1>. QED
  BY <1>2, <1>3, <1>4
-----------------------------------------------------------------------------
(* The steps, kind by kind.                                                *)

(* What a checkout remembers when it goes on.                              *)
LEMMA CheckoutStep ==
  ASSUME PricingInv, NEW s \in Checkouts,
         \/ \E a \in Apps, coded \in BOOLEAN : CreateCheckout(s, a, coded)
         \/ ValidateCode(s) \/ ReadAuto(s)
         \/ \E fails \in BOOLEAN : ReadCode(s, fails)
         \/ \E mock \in BOOLEAN : OpenSession(s, mock)
  PROVE  /\ job[s].at # "open" /\ UNCHANGED <<rules, orders>>
         /\ \E j \in Job : Goto(s, j) /\ Fair(j)
<1>. DEFINE Goal == \E j \in Job : Goto(s, j) /\ Fair(j)
<1>. USE DEF PricingInv
<1>1. /\ job[s].at # "open" /\ UNCHANGED <<rules, orders>>
  BY DEF CreateCheckout, ValidateCode, ReadAuto, ReadCode, OpenSession, At
<1>. SUFFICES Goal
  BY <1>1
<1>2. job[s] \in Job /\ Fair(job[s])
  BY DEF TypeOK
<1>3. ASSUME NEW cents \in 0 .. job[s].list, job[s].at \in Fresh, Goto(s, Priced(job[s], cents))
      PROVE  Goal
  <2>1. Priced(job[s], cents) \in Job
    BY <1>2, <1>3, JobMade DEF Fair
  <2>2. Fair(Priced(job[s], cents))
    BY <1>2, <1>3 DEF Fair, Priced, Fresh
  <2>. QED
    BY <1>3, <2>1, <2>2
<1>4. CASE \E a \in Apps, coded \in BOOLEAN : CreateCheckout(s, a, coded)
  <2>1. PICK a \in Apps, coded \in BOOLEAN : CreateCheckout(s, a, coded)
    BY <1>4
  <2>2. price[a] \in Prices /\ price[a] \in Int
    BY PricesAssumption DEF TypeOK
  <2>. DEFINE step == IF coded THEN "check?" ELSE "code?"
  <2>3. Goto(s, Refused) \/ (~ (price[a] <= 0) /\ Goto(s, Asked(step, a, coded, price[a])))
    BY <2>1 DEF CreateCheckout, Refused, Asked
  <2>4. CASE Goto(s, Refused)
    BY <2>4, RefusedIsJob
  <2>5. CASE ~ (price[a] <= 0) /\ Goto(s, Asked(step, a, coded, price[a]))
    <3>1. Asked(step, a, coded, price[a]) \in Job
      BY <2>2, JobMade
    <3>2. Fair(Asked(step, a, coded, price[a]))
      BY <2>2, <2>5 DEF Fair, Asked
    <3>. QED
      BY <2>5, <3>1, <3>2
  <2>. QED
    BY <2>3, <2>4, <2>5
<1>8. CASE ValidateCode(s)
  <2>. DEFINE j == [job[s] EXCEPT !.at = "code?"]
  <2>1. job[s].at = "check?" /\ (Goto(s, Refused) \/ Goto(s, j))
    BY <1>8 DEF ValidateCode, At, Refused
  <2>2. j \in Job /\ j.at = "code?" /\ j.list = job[s].list
    BY <1>2, <2>1 DEF Job
  <2>. HIDE DEF j
  <2>3. Fair(j)
    BY <1>2, <2>1, <2>2 DEF Fair, Fresh
  <2>. QED
    BY <2>1, <2>2, <2>3, RefusedIsJob
<1>5. CASE \E fails \in BOOLEAN : ReadCode(s, fails)
  <2>1. PICK fails \in BOOLEAN : ReadCode(s, fails)
    BY <1>5
  <2>2. /\ job[s].at = "code?" /\ job[s].coded \in BOOLEAN
        /\ job[s].list \in Int /\ job[s].list > 0
    BY <1>2, <2>1, JobShape DEF ReadCode, At, Fair, Fresh
  <2>3. CASE job[s].coded /\ (fails \/ ~ ValidateDiscountCode(job[s].app))
    <3>1. Goto(s, Priced(job[s], job[s].list))
      BY <2>1, <2>3 DEF ReadCode
    <3>2. job[s].list \in 0 .. job[s].list
      BY <2>2
    <3>. QED
      BY <1>3, <2>2, <3>1, <3>2 DEF Fresh
  <2>4. CASE ~ (job[s].coded /\ (fails \/ ~ ValidateDiscountCode(job[s].app)))
    <3>1. Cut(job[s].coded) \in Offers \cup {None}
      BY <2>2, <2>4, RowFields DEF Cut, ValidateDiscountCode, CodeRow
    <3>2. CASE WantsAuto(job[s].coded)
      <4>1. Goto(s, AskAuto(job[s], Cut(job[s].coded)))
        BY <2>1, <2>4, <3>2 DEF ReadCode
      <4>2. AskAuto(job[s], Cut(job[s].coded)) \in Job
        BY <1>2, <2>2, <3>1, JobMade DEF Fresh
      <4>3. Fair(AskAuto(job[s], Cut(job[s].coded)))
        BY <2>2 DEF Fair, AskAuto
      <4>. QED
        BY <4>1, <4>2, <4>3
    <3>3. CASE ~ WantsAuto(job[s].coded)
      <4>1. ApplyDiscount(Cut(job[s].coded), job[s].list) \in 0 .. job[s].list
        BY <2>2, <3>1, WithinPrice
      <4>2. Goto(s, Priced(job[s], ApplyDiscount(Cut(job[s].coded), job[s].list)))
        BY <2>1, <2>4, <3>3 DEF ReadCode
      <4>. QED
        BY <1>3, <2>2, <4>1, <4>2 DEF Fresh
    <3>. QED
      BY <3>2, <3>3
  <2>. QED
    BY <2>3, <2>4
<1>6. CASE ReadAuto(s)
  <2>1. /\ job[s].at = "auto?" /\ job[s].app \in Apps /\ job[s].cut \in Offers \cup {None}
        /\ job[s].list \in Int /\ job[s].list > 0
    BY <1>2, <1>6, JobShape DEF ReadAuto, At, Fair, Fresh
  <2>2. PICK base \in AutoBase(job[s].app, job[s].list) \cup {job[s].list} :
          Goto(s, Priced(job[s], ApplyDiscount(job[s].cut, base)))
    BY <1>6 DEF ReadAuto
  <2>3. base \in 0 .. job[s].list
    <3>1. CASE base = job[s].list
      BY <2>1, <3>1
    <3>2. ASSUME NEW o \in GetActiveAutoDiscount(job[s].app), base = ApplyDiscount(o, job[s].list)
          PROVE  base \in 0 .. job[s].list
      BY <2>1, <3>2, LoopIsQuery, WithinPrice
    <3>. QED
      BY <3>1, <3>2, <2>2 DEF AutoBase
  <2>4. ApplyDiscount(job[s].cut, base) \in 0 .. base
    <3>1. base \in Int /\ base >= 0
      BY <2>1, <2>3
    <3>2. job[s].cut \in Offers \cup {None}
      BY <2>1
    <3>. QED
      BY <3>1, <3>2, WithinPrice
  <2>5. ApplyDiscount(job[s].cut, base) \in 0 .. job[s].list
    BY <2>1, <2>3, <2>4
  <2>. QED
    BY <1>3, <2>1, <2>2, <2>5 DEF Fresh
<1>7. CASE \E mock \in BOOLEAN : OpenSession(s, mock)
  <2>1. PICK mock \in BOOLEAN : OpenSession(s, mock)
    BY <1>7
  <2>2. /\ job[s].at = "open?"
        /\ \/ Goto(s, Refused)
           \/ Goto(s, Session(job[s], mock)) /\ (mock \/ job[s].charged > 0)
    BY <2>1 DEF OpenSession, At, Refused
  <2>3. Session(job[s], mock) \in Job
    BY <1>2, <2>2, JobMade
  <2>4. mock \/ job[s].charged > 0 => Fair(Session(job[s], mock))
    BY <1>2, <2>2 DEF Fair, Fresh, Session
  <2>. QED
    BY <2>2, <2>3, <2>4, RefusedIsJob
<1>. QED
  BY <1>4, <1>5, <1>6, <1>7, <1>8

(* A paid session stays what it is.                                        *)
LEMMA CheckoutKeeps ==
  ASSUME PricingInv, NEW s \in Checkouts, NEW j \in Job, Goto(s, j), Fair(j),
         job[s].at # "open", UNCHANGED <<rules, orders>>
  PROVE  PricingInv'
<1>. USE DEF PricingInv
<1>1. s \notin paid
  BY DEF TypeOK
<1>2. job' = [job EXCEPT ![s] = j] /\ job \in [Checkouts -> Job]
  BY DEF Goto, TypeOK
<1>3. TypeOK'
  BY <1>1, <1>2 DEF TypeOK, rules, orders
<1>4. (\A q \in Checkouts : Fair(job[q]))'
  BY <1>2 DEF Fair
<1>5. OrdersOK' /\ UsesAreOrders'
  BY DEF OrdersOK, UsesAreOrders, rules, orders
<1>. QED
  BY <1>3, <1>4, <1>5
-----------------------------------------------------------------------------
(* The order event.                                                        *)

(* A delivery counts itself in and out.                                    *)
LEMMA PassedStep ==
  ASSUME PricingInv, NEW s \in Checkouts, LookUpOrder(s) \/ \E saw \in Found : Leaves(s, saw)
  PROVE  /\ passed' \in [Checkouts -> [Found -> 0 .. Overlap]] /\ s \in paid
         /\ \A t \in Checkouts, f \in Found : passed'[t][f] > 0 => t \in paid
<1>. USE BoundsAssumption DEF PricingInv, OrdersOK
<1>1. passed \in [Checkouts -> [Found -> 0 .. Overlap]]
  BY DEF TypeOK
<1>2. \A t \in Checkouts : /\ passed[t] \in [Found -> 0 .. Overlap]
                            /\ passed[t]["none"] \in 0 .. Overlap /\ passed[t]["stub"] \in 0 .. Overlap
  BY <1>1 DEF Found
<1>3. ASSUME NEW f \in Found, NEW n \in 0 .. Overlap, s \in paid,
             passed' = [passed EXCEPT ![s][f] = n]
      PROVE  /\ passed' \in [Checkouts -> [Found -> 0 .. Overlap]]
             /\ \A t \in Checkouts, g \in Found : passed'[t][g] > 0 => t \in paid
  <2>1. [passed[s] EXCEPT ![f] = n] \in [Found -> 0 .. Overlap]
    BY <1>2
  <2>2. passed' = [passed EXCEPT ![s] = [passed[s] EXCEPT ![f] = n]]
    BY <1>3
  <2>. HIDE DEF PricingInv
  <2>3. passed' \in [Checkouts -> [Found -> 0 .. Overlap]]
    BY <1>1, <2>1, <2>2
  <2>4. \A t \in Checkouts \ {s} : passed'[t] = passed[t]
    BY <1>1, <2>2
  <2>5. \A t \in Checkouts, g \in Found : passed'[t][g] > 0 => t \in paid
    BY <1>3, <2>4 DEF PricingInv
  <2>. QED
    BY <2>3, <2>5
<1>4. CASE LookUpOrder(s)
  <2>1. /\ s \in paid /\ row[s] \in Found /\ passed[s]["none"] + passed[s]["stub"] < Overlap
        /\ passed' = [passed EXCEPT ![s][row[s]] = passed[s][row[s]] + 1]
    BY <1>4 DEF LookUpOrder, Enters
  <2>2. passed[s][row[s]] + 1 \in 0 .. Overlap
    BY <1>2, <2>1 DEF Found
  <2>. QED
    BY <1>3, <2>1, <2>2
<1>5. ASSUME NEW saw \in Found, Leaves(s, saw)
      PROVE  /\ passed' \in [Checkouts -> [Found -> 0 .. Overlap]] /\ s \in paid
             /\ \A t \in Checkouts, f \in Found : passed'[t][f] > 0 => t \in paid
  <2>1. s \in paid /\ passed' = [passed EXCEPT ![s][saw] = passed[s][saw] - 1]
    BY <1>5 DEF Leaves
  <2>2. passed[s][saw] - 1 \in 0 .. Overlap
    BY <1>2, <1>5 DEF Leaves, Found
  <2>. QED
    BY <1>3, <2>1, <2>2
<1>. QED
  BY <1>4, <1>5

(* A goroutine that starts has not counted, and is the first if the row    *)
(* was not there.                                                          *)
LEMMA StartStep ==
  ASSUME PricingInv, NEW s \in Checkouts, Starts(s) \/ UNCHANGED <<started, pending>>,
         UNCHANGED code
  PROVE  /\ pending' \subseteq started' /\ started' \subseteq Goroutine
         /\ code.st # "none" => code.uses <= Cardinality(started' \ pending')
         /\ \A g \in started' \ started :
              g[1] = s /\ (g[2] = 1 \/ \E h \in started : h[1] = s)
<1>. USE DEF PricingInv
<1>1. pending \subseteq started /\ started \subseteq Goroutine
  BY DEF TypeOK
<1>2. code.st # "none" => code.uses <= Cardinality(started \ pending)
  BY DEF UsesAreOrders
<1>3. CASE UNCHANGED <<started, pending>>
  BY <1>1, <1>2, <1>3
<1>4. CASE Starts(s)
  <2>1. PICK n \in 1 .. Repeats :
           /\ <<s, n>> \notin started /\ \A m \in 1 .. n - 1 : <<s, m>> \in started
           /\ started' = started \cup {<<s, n>>} /\ pending' = pending \cup {<<s, n>>}
    BY <1>4 DEF Starts
  <2>2. started' \ pending' = started \ pending
    BY <1>1, <2>1
  <2>3. <<s, n>> \in Goroutine
    BY DEF Goroutine
  <2>4. n # 1 => \E h \in started : h[1] = s
    <3>1. n # 1 => 1 \in 1 .. n - 1
      BY BoundsAssumption
    <3>2. <<s, 1>>[1] = s
      OBVIOUS
    <3>. QED
      BY <2>1, <3>1, <3>2
  <2>5. \A g \in started' \ started : g[1] = s /\ g[2] = n
    BY <2>1
  <2>. QED
    BY <1>1, <1>2, <2>1, <2>2, <2>3, <2>4, <2>5
<1>. QED
  BY <1>3, <1>4

LEMMA OrderStep ==
  ASSUME PricingInv, NEW s \in Checkouts,
         \/ Pay(s) \/ LookUpOrder(s) \/ Refund(s) \/ VoidOrder(s)
         \/ \E saw \in Found : FulfilOrder(s, saw) \/ BreakOff(s, saw)
  PROVE  PricingInv'
<1>. USE DEF PricingInv
<1>1. UNCHANGED <<price, auto, code, edits, job>>
  BY DEF Pay, LookUpOrder, Enters, Refund, VoidOrder, FulfilOrder, BreakOff, rules
<1>2. (\A t \in Checkouts : Fair(job[t]))'
  BY <1>1 DEF Fair
<1>3. /\ paid \subseteq {t \in Checkouts : job[t].at = "open"} /\ touched \subseteq paid
      /\ row \in [Checkouts -> Found \cup {"order"}]
      /\ \A t \in Checkouts : row[t] # "none" => t \in paid
      /\ \A t \in Checkouts : row[t] = "stub" => t \in touched
      /\ \A t \in Checkouts, f \in Found : passed[t][f] > 0 => t \in paid
      /\ passed \in [Checkouts -> [Found -> 0 .. Overlap]]
      /\ pending \subseteq started /\ started \subseteq Goroutine
  BY DEF TypeOK, OrdersOK
<1>4. CASE Pay(s)
  <2>1. paid' = paid \cup {s} /\ job[s].at = "open" /\ UNCHANGED <<row, passed, started, pending, touched>>
    BY <1>4 DEF Pay, At
  <2>2. TypeOK'
    BY <1>1, <1>3, <2>1 DEF TypeOK
  <2>3. OrdersOK' /\ UsesAreOrders'
    BY <1>1, <1>3, <2>1 DEF OrdersOK, UsesAreOrders
  <2>. QED
    BY <1>2, <2>2, <2>3
<1>5. CASE LookUpOrder(s) \/ \E saw \in Found : BreakOff(s, saw)
  <2>1. UNCHANGED <<paid, row, started, pending, touched>>
    BY <1>5 DEF LookUpOrder, Enters, BreakOff
  <2>2. /\ passed' \in [Checkouts -> [Found -> 0 .. Overlap]]
        /\ \A t \in Checkouts, f \in Found : passed'[t][f] > 0 => t \in paid
    BY <1>5, PassedStep DEF BreakOff
  <2>3. TypeOK'
    BY <1>1, <2>1, <2>2 DEF TypeOK
  <2>4. OrdersOK' /\ UsesAreOrders'
    BY <1>1, <1>3, <2>1, <2>2 DEF OrdersOK, UsesAreOrders
  <2>. QED
    BY <1>2, <2>3, <2>4
<1>6. CASE Refund(s) \/ VoidOrder(s)
  <2>1. PICK r \in Found : row' = [row EXCEPT ![s] = r]
    BY <1>6 DEF Refund, VoidOrder, Found
  <2>2. /\ s \in paid /\ touched' = touched \cup {s}
        /\ UNCHANGED <<paid, passed, started, pending>>
    BY <1>3, <1>6 DEF Refund, VoidOrder
  <2>3. row' \in [Checkouts -> Found \cup {"order"}]
        /\ \A t \in Checkouts \ {s} : row'[t] = row[t]
    BY <1>3, <2>1
  <2>4. TypeOK'
    BY <1>1, <1>3, <2>2, <2>3 DEF TypeOK
  <2>5. OrdersOK'
    BY <1>3, <2>2, <2>3 DEF OrdersOK
  <2>6. UsesAreOrders'
    <3>1. \A g \in started : g[1] \in Checkouts
      BY <1>3 DEF Goroutine
    <3>. QED
      BY <1>1, <2>2, <2>3, <3>1 DEF UsesAreOrders
  <2>. QED
    BY <1>2, <2>4, <2>5, <2>6
<1>7. ASSUME NEW saw \in Found, FulfilOrder(s, saw) PROVE PricingInv'
  <2>. DEFINE counts == row[s] = saw /\ job[s].coded
  <2>1. /\ Leaves(s, saw) /\ UNCHANGED <<paid, touched>>
        /\ IF counts THEN Starts(s) ELSE UNCHANGED <<started, pending>>
    BY <1>7 DEF FulfilOrder
  <2>9. row' = IF saw = "none" /\ row[s] = "none" THEN [row EXCEPT ![s] = "order"] ELSE row
    BY <1>7 DEF FulfilOrder
  <2>10. Starts(s) \/ UNCHANGED <<started, pending>>
    <3>1. CASE counts
      BY <2>1, <3>1
    <3>2. CASE ~ counts
      BY <2>1, <3>2
    <3>. QED
      BY <3>1, <3>2
  <2>. HIDE DEF counts
  <2>2. /\ passed' \in [Checkouts -> [Found -> 0 .. Overlap]] /\ s \in paid
        /\ \A t \in Checkouts, f \in Found : passed'[t][f] > 0 => t \in paid
    BY <2>1, PassedStep
  <2>3. /\ pending' \subseteq started' /\ started' \subseteq Goroutine
        /\ code.st # "none" => code.uses <= Cardinality(started' \ pending')
        /\ \A g \in started' \ started :
             g[1] = s /\ (g[2] = 1 \/ \E h \in started : h[1] = s)
    <3>1. UNCHANGED code
      BY <1>1
    <3>. QED
      BY <2>10, <3>1, StartStep
  <2>4. /\ row' \in [Checkouts -> Found \cup {"order"}]
        /\ \A t \in Checkouts : row'[t] = "order" \/ row'[t] = row[t]
    <3>1. CASE saw = "none" /\ row[s] = "none"
      BY <1>3, <2>9, <3>1
    <3>2. CASE ~ (saw = "none" /\ row[s] = "none")
      BY <1>3, <2>9, <3>2
    <3>. QED
      BY <3>1, <3>2
  <2>5. TypeOK'
    <3>1. \A t \in Checkouts : row'[t] # "none" => t \in paid'
      BY <1>3, <2>1, <2>2, <2>4, <2>9
    <3>2. pending' \subseteq started' /\ started' \subseteq Goroutine
      BY <2>3
    <3>. QED
      BY <1>1, <1>3, <2>1, <2>2, <2>4, <3>1, <3>2 DEF TypeOK
  <2>6. OrdersOK'
    BY <1>3, <2>1, <2>2, <2>4 DEF OrdersOK
  <2>7. ASSUME NEW g \in started', g[1] \notin touched PROVE g[2] = 1 /\ row'[g[1]] = "order"
    <3>1. CASE g \in started
      <4>1. g[1] \in Checkouts /\ g[2] = 1 /\ row[g[1]] = "order"
        BY <1>3, <2>7, <3>1 DEF UsesAreOrders, Goroutine
      <4>. QED
        BY <2>4, <4>1
    <3>2. CASE g \notin started
      <4>1. g[1] = s /\ (g[2] = 1 \/ \E h \in started : h[1] = s)
        BY <2>3, <3>2
      <4>2. row[s] = saw
        BY <2>1, <2>7, <3>2 DEF counts
      <4>3. row[s] = "none"
        BY <1>3, <2>7, <4>1, <4>2 DEF Found
      <4>4. \A h \in started : h[1] # s
        BY <2>7, <4>1, <4>3 DEF UsesAreOrders
      <4>5. row'[s] = "order"
        BY <1>3, <2>9, <4>2, <4>3
      <4>. QED
        BY <4>1, <4>4, <4>5
    <3>. QED
      BY <3>1, <3>2
  <2>8. UsesAreOrders'
    BY <1>1, <2>1, <2>3, <2>7 DEF UsesAreOrders
  <2>. QED
    BY <1>2, <2>5, <2>6, <2>8
<1>. QED
  BY <1>4, <1>5, <1>6, <1>7

(* A goroutine counts one use, or none, and is done.                       *)
LEMMA CountStep == PricingInv /\ Count => PricingInv'
<1>. SUFFICES ASSUME PricingInv, Count PROVE PricingInv'
  OBVIOUS
<1>. USE DEF PricingInv
<1>1. PICK g \in pending : IncrementDiscountUses(g) \/ LoseCount(g)
  BY DEF Count
<1>2. /\ UNCHANGED <<price, auto, edits, job, paid, row, passed, started, touched>>
      /\ pending' = pending \ {g}
      /\ \/ UNCHANGED code
         \/ code.st # "none" /\ code' = [code EXCEPT !.uses = @ + 1]
  BY <1>1 DEF IncrementDiscountUses, LoseCount, rules
<1>3. g \in started /\ pending \subseteq started /\ started \subseteq Goroutine
  BY DEF TypeOK
<1>. DEFINE done == started \ pending
<1>4. done' = done \cup {g} /\ g \notin done
  BY <1>2, <1>3
<1>5. IsFiniteSet(done) /\ Cardinality(done) \in Nat
  BY <1>3, Counts
<1>6. Cardinality(done') = Cardinality(done) + 1
  BY <1>4, <1>5, FS_AddElement
<1>7. code.st # "none" => code \in CodeRow /\ code.uses \in Nat /\ code.uses <= Cardinality(done)
  BY RowFields DEF UsesAreOrders, CodeRow
<1>8. /\ code' \in CodeRow \cup {NoRow}
      /\ code'.st # "none" => code'.uses <= Cardinality(done')
  <2>1. CASE UNCHANGED code
    BY <1>5, <1>6, <1>7, <2>1 DEF TypeOK
  <2>2. CASE code.st # "none" /\ code' = [code EXCEPT !.uses = @ + 1]
    <3>1. code \in CodeRow /\ code.uses + 1 \in Nat
      BY <1>7, <2>2
    <3>2. code' \in CodeRow /\ code'.uses = code.uses + 1
      BY <2>2, <3>1 DEF CodeRow
    <3>. QED
      BY <1>5, <1>6, <1>7, <2>2, <3>2
  <2>. QED
    BY <1>2, <2>1, <2>2
<1>. HIDE DEF done
<1>9. TypeOK'
  BY <1>2, <1>3, <1>8 DEF TypeOK
<1>10. OrdersOK' /\ (\A t \in Checkouts : Fair(job[t]))'
  BY <1>2 DEF OrdersOK, Fair
<1>11. UsesAreOrders'
  BY <1>2, <1>8 DEF UsesAreOrders, done
<1>. QED
  BY <1>9, <1>10, <1>11
-----------------------------------------------------------------------------
(* The admin.                                                              *)

LEMMA RowChanged ==
  ASSUME NEW c \in CodeRow
  PROVE  /\ \A b \in BOOLEAN : [c EXCEPT !.on = b] \in CodeRow /\ [c EXCEPT !.on = b].uses = c.uses
         /\ \A st \in {"live", "archived"} :
              [c EXCEPT !.st = st] \in CodeRow /\ [c EXCEPT !.st = st].uses = c.uses
  BY DEF CodeRow

LEMMA CodeEdits ==
  ASSUME TypeOK, Manage
  PROVE  /\ UNCHANGED <<price, auto>> \/ UNCHANGED code
         /\ \/ UNCHANGED code \/ code' = NoRow
            \/ code' \in CodeRow /\ code.st # "none" /\ code'.uses = code.uses
            \/ code' \in CodeRow /\ code.st = "none" /\ code'.uses = 0
<1>1. code.st # "none" => code \in CodeRow
  BY RowFields
<1>2. ASSUME NEW o \in Offers, NEW on \in BOOLEAN, NEW stackable \in BOOLEAN, NEW max \in Limits,
             AdminCreateDiscountCode(o, on, stackable, max)
      PROVE  UNCHANGED <<price, auto>> /\ code' \in CodeRow /\ code.st = "none" /\ code'.uses = 0
  BY <1>2 DEF AdminCreateDiscountCode, InsertDiscountCode, CodeRow
<1>3. ASSUME NEW o \in Offers, NEW on \in BOOLEAN, NEW stackable \in BOOLEAN, NEW max \in Limits,
             AdminUpdateDiscountCode(o, on, stackable, max)
      PROVE  /\ UNCHANGED <<price, auto>> /\ code.st # "none"
             /\ code' \in CodeRow /\ code'.uses = code.uses
  <2>1. code \in CodeRow
    BY <1>1, <1>3 DEF AdminUpdateDiscountCode
  <2>2. code' = [code EXCEPT !.on = on, !.offer = o, !.stackable = stackable, !.max = max]
    BY <1>3 DEF AdminUpdateDiscountCode, UpdateDiscountCode
  <2>3. code' \in CodeRow /\ code'.uses = code.uses
    BY <2>1, <2>2 DEF CodeRow
  <2>. QED
    BY <1>3, <2>3 DEF AdminUpdateDiscountCode
<1>4. CASE AdminDeleteDiscountCode \/ AdminRestoreDiscountCode
  <2>1. PICK st \in {"live", "archived"} : code' = [code EXCEPT !.st = st]
    BY <1>4 DEF AdminDeleteDiscountCode, AdminRestoreDiscountCode
  <2>2. code.st # "none" /\ UNCHANGED <<price, auto>>
    BY <1>4 DEF AdminDeleteDiscountCode, AdminRestoreDiscountCode
  <2>. QED
    BY <1>1, <2>1, <2>2, RowChanged
<1>5. CASE ExpireCode
  BY <1>1, <1>5, RowChanged DEF ExpireCode
<1>6. CASE AdminHardDeleteDiscountCode
  BY <1>6 DEF AdminHardDeleteDiscountCode
<1>7. CASE \E a \in Apps, cents \in Prices : AdminUpdateApp(a, cents)
  BY <1>7 DEF AdminUpdateApp
<1>8. CASE \/ \E d \in Autos, o \in Offers, on \in BOOLEAN :
                AdminCreateAutoDiscount(d, o, on) \/ AdminUpdateAutoDiscount(d, o, on)
           \/ \E d \in Autos : \/ AdminDeleteAutoDiscount(d) \/ AdminRestoreAutoDiscount(d)
                               \/ TimePasses(d)
  BY <1>8 DEF AdminCreateAutoDiscount, AdminUpdateAutoDiscount, AdminDeleteAutoDiscount,
              AdminRestoreAutoDiscount, TimePasses, SetAuto
<1>. QED
  BY <1>2, <1>3, <1>4, <1>5, <1>6, <1>7, <1>8 DEF Manage

LEMMA OtherEdits ==
  ASSUME TypeOK, Manage
  PROVE  /\ price' \in [Apps -> Prices] /\ auto' \in [Autos -> AutoRow \cup {NoRow}]
         /\ edits' \in 0 .. Edits /\ UNCHANGED <<job, orders>>
<1>. USE BoundsAssumption
<1>1. /\ price \in [Apps -> Prices] /\ auto \in [Autos -> AutoRow \cup {NoRow}]
      /\ edits \in 0 .. Edits
  BY DEF TypeOK
<1>2. Edit
  BY DEF Manage, AdminUpdateApp, AdminCreateDiscountCode, AdminUpdateDiscountCode,
         AdminDeleteDiscountCode, AdminRestoreDiscountCode, AdminHardDeleteDiscountCode,
         ExpireCode, AdminCreateAutoDiscount, AdminUpdateAutoDiscount,
         AdminDeleteAutoDiscount, AdminRestoreAutoDiscount, TimePasses, SetAuto
<1>3. edits' \in 0 .. Edits /\ UNCHANGED <<job, orders>>
  BY <1>1, <1>2 DEF Edit
<1>4. UNCHANGED price \/ \E a \in Apps, cents \in Prices : price' = [price EXCEPT ![a] = cents]
  BY DEF Manage, AdminUpdateApp, AdminCreateDiscountCode, AdminUpdateDiscountCode,
         AdminDeleteDiscountCode, AdminRestoreDiscountCode, AdminHardDeleteDiscountCode,
         ExpireCode, AdminCreateAutoDiscount, AdminUpdateAutoDiscount,
         AdminDeleteAutoDiscount, AdminRestoreAutoDiscount, TimePasses, SetAuto
<1>5. ASSUME NEW d \in Autos, NEW terms \in AutoRow, SetAuto(d, terms)
      PROVE  auto' \in [Autos -> AutoRow \cup {NoRow}]
  BY <1>1, <1>5 DEF SetAuto
<1>6. CASE \E d \in Autos, o \in Offers, on \in BOOLEAN :
             AdminCreateAutoDiscount(d, o, on) \/ AdminUpdateAutoDiscount(d, o, on)
  <2>1. PICK d \in Autos, o \in Offers, on \in BOOLEAN :
               SetAuto(d, [st |-> "live", on |-> on, offer |-> o])
    BY <1>6 DEF AdminCreateAutoDiscount, AdminUpdateAutoDiscount
  <2>2. [st |-> "live", on |-> on, offer |-> o] \in AutoRow
    BY DEF AutoRow
  <2>3. auto' \in [Autos -> AutoRow \cup {NoRow}]
    BY <1>5, <2>1, <2>2
  <2>. QED
    BY <1>3, <1>4, <1>1, <2>3
<1>7. CASE \E d \in Autos : \/ AdminDeleteAutoDiscount(d) \/ AdminRestoreAutoDiscount(d)
                           \/ TimePasses(d)
  <2>1. PICK d \in Autos : \/ AdminDeleteAutoDiscount(d) \/ AdminRestoreAutoDiscount(d)
                          \/ TimePasses(d)
    BY <1>7
  <2>2. auto[d] \in AutoRow
    BY <2>1, RowFields DEF AdminDeleteAutoDiscount, AdminRestoreAutoDiscount, TimePasses
  <2>3. PICK terms \in AutoRow : SetAuto(d, terms)
    <3>1. CASE AdminDeleteAutoDiscount(d)
      BY <2>2, <3>1 DEF AdminDeleteAutoDiscount, AutoRow
    <3>2. CASE AdminRestoreAutoDiscount(d)
      BY <2>2, <3>2 DEF AdminRestoreAutoDiscount, AutoRow
    <3>3. CASE TimePasses(d)
      BY <2>2, <3>3 DEF TimePasses, AutoRow
    <3>. QED
      BY <2>1, <3>1, <3>2, <3>3
  <2>4. auto' \in [Autos -> AutoRow \cup {NoRow}]
    BY <1>5, <2>3
  <2>. QED
    BY <1>1, <1>3, <1>4, <2>4
<1>8. CASE UNCHANGED auto
  BY <1>1, <1>3, <1>4, <1>8
<1>. QED
  BY <1>6, <1>7, <1>8
  DEF Manage, AdminUpdateApp, AdminCreateDiscountCode, AdminUpdateDiscountCode,
      AdminDeleteDiscountCode, AdminRestoreDiscountCode, AdminHardDeleteDiscountCode, ExpireCode

LEMMA ManageStep == PricingInv /\ Manage => PricingInv'
<1>. SUFFICES ASSUME PricingInv, Manage PROVE PricingInv'
  OBVIOUS
<1>. USE DEF PricingInv
<1>1. UNCHANGED <<job, paid, row, passed, started, pending, touched>>
  BY OtherEdits DEF orders
<1>2. code' \in CodeRow \cup {NoRow}
  BY CodeEdits DEF TypeOK
<1>3. TypeOK'
  BY <1>1, <1>2, OtherEdits DEF TypeOK
<1>4. code'.st # "none" => code'.uses <= Cardinality(started \ pending)
  <2>1. Cardinality(started \ pending) \in Nat
    BY Counts DEF TypeOK
  <2>. QED
    BY <2>1, CodeEdits DEF UsesAreOrders, NoRow
<1>5. UsesAreOrders'
  BY <1>1, <1>4 DEF UsesAreOrders
<1>6. OrdersOK' /\ (\A t \in Checkouts : Fair(job[t]))'
  BY <1>1 DEF OrdersOK, Fair
<1>. QED
  BY <1>3, <1>5, <1>6
-----------------------------------------------------------------------------
(* The theorems.                                                           *)

LEMMA InitPricing == Init => PricingInv
<1>. SUFFICES ASSUME Init PROVE PricingInv
  OBVIOUS
<1>1. TypeOK
  BY BoundsAssumption DEF Init, TypeOK, Job, Found
<1>2. \A s \in Checkouts : Fair(job[s])
  BY DEF Init, Fair, Fresh
<1>3. OrdersOK /\ UsesAreOrders
  BY DEF Init, OrdersOK, UsesAreOrders, NoRow
<1>. QED
  BY <1>1, <1>2, <1>3 DEF PricingInv

LEMMA NextPricing == PricingInv /\ [Next]_vars => PricingInv'
<1>. SUFFICES ASSUME PricingInv, [Next]_vars PROVE PricingInv'
  OBVIOUS
<1>1. CASE UNCHANGED vars
  BY <1>1 DEF vars, rules, orders, PricingInv, TypeOK, OrdersOK, UsesAreOrders, Fair
<1>2. ASSUME NEW s \in Checkouts, Buy(s) PROVE PricingInv'
  <2>1. CASE \/ Pay(s) \/ LookUpOrder(s) \/ Refund(s) \/ VoidOrder(s)
             \/ \E saw \in Found : FulfilOrder(s, saw) \/ BreakOff(s, saw)
    BY <2>1, OrderStep
  <2>2. CASE \/ \E a \in Apps, coded \in BOOLEAN : CreateCheckout(s, a, coded)
             \/ ValidateCode(s) \/ ReadAuto(s) \/ \E fails \in BOOLEAN : ReadCode(s, fails)
             \/ \E mock \in BOOLEAN : OpenSession(s, mock)
    BY <2>2, CheckoutStep, CheckoutKeeps
  <2>. QED
    BY <1>2, <2>1, <2>2 DEF Buy
<1>. QED
  BY <1>1, <1>2, ManageStep, CountStep DEF Next

(* Every variable has its type, and only what was paid for has an order.   *)
THEOREM TypeCorrect == Spec => []TypeOK
<1>1. PricingInv => TypeOK
  BY DEF PricingInv
<1>. QED
  BY <1>1, InitPricing, NextPricing, PTL DEF Spec

(* The charge is never negative nor above the price that was read, with    *)
(* any discounts, read at any times, and a real provider's never free.     *)
THEOREM ChargeIsFair == Spec => []ChargedWithinList
<1>1. PricingInv => ChargedWithinList
  BY DEF PricingInv, Fair, ChargedWithinList, At
<1>. QED
  BY <1>1, InitPricing, NextPricing, PTL DEF Spec

(* A code has no more uses than were counted, and an order counts once     *)
(* unless it was refunded before it came, or voided.                       *)
THEOREM CountedOnce == Spec => []UsesAreOrders
<1>1. PricingInv => UsesAreOrders
  BY DEF PricingInv
<1>. QED
  BY <1>1, InitPricing, NextPricing, PTL DEF Spec

(* Store, code check and checkout agree on every price, but for a tie.     *)
THEOREM OnePrice == Spec => []ShownIsCharged
<1>1. PricingInv => ShownIsCharged
  BY OneRule DEF PricingInv
<1>. QED
  BY <1>1, InitPricing, NextPricing, PTL DEF Spec
=============================================================================
