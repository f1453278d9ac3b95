----------------------------- MODULE OrderLedger -----------------------------
(***************************************************************************)
(* What the store promises about payment events, with no handler in sight: *)
(* an event that is answered was handled in a single step, which decides   *)
(* by what is recorded at that moment, and one that is not answered has    *)
(* changed nothing.  Fulfillment.tla is shown to implement this.           *)
(***************************************************************************)
EXTENDS Naturals

CONSTANTS Sessions, Buyer, LicenseIds, Slots

VARIABLES
  order,    \* order[s]: nothing, "order", or refunded: "stub" and "filled"
  ver,      \* ver[s]: how often the order of s was voided
  live,     \* licenses
  gone,     \* licenses that were
  orderOf,  \* the session whose order gave the license
  slots,    \* the slots of a license
  revoked,  \* licenses out of use
  answered  \* events that were answered

licenses == <<live, gone, orderOf, slots, revoked>>
ledgerVars == <<order, ver, licenses, answered>>

LicensesOf(s) == {l \in live : orderOf[l] = s}

Init ==
  /\ order = [s \in Sessions |-> "none"]
  /\ ver = [s \in Sessions |-> 0]
  /\ live = {} /\ gone = {} /\ revoked = {} /\ answered = {}
  /\ \E s \in Sessions : orderOf = [l \in LicenseIds |-> s]
  /\ slots = [l \in LicenseIds |-> 0]

Answer(type, s) == answered' = answered \cup {<<type, s>>}

(* What was bought: a license, or slots on top of one the buyer has.       *)
NewLicense(s) ==
  \E l \in LicenseIds \ (live \cup gone) :
     /\ live' = live \cup {l}
     /\ orderOf' = [orderOf EXCEPT ![l] = s]
     /\ slots' = [slots EXCEPT ![l] = Slots]

TopUp(s) ==
  /\ \E l \in live :
        Buyer[orderOf[l]] = Buyer[s] /\ slots' = [slots EXCEPT ![l] = @ + Slots]
  /\ UNCHANGED <<live, orderOf>>

(* The license to top up was voided in between: nothing is left to top up. *)
TopUpInVain(s) ==
  /\ \E l \in gone : Buyer[orderOf[l]] = Buyer[s]
  /\ UNCHANGED <<live, orderOf, slots>>

Give(s) == NewLicense(s) \/ TopUp(s) \/ TopUpInVain(s)

(* A payment, before its refund or with none, and after it: what it gives  *)
(* is of no use then.                                                      *)
Fulfil(s) ==
  /\ order[s] = "none"
  /\ order' = [order EXCEPT ![s] = "order"]
  /\ Give(s) /\ Answer("order", s)
  /\ UNCHANGED <<ver, gone, revoked>>

FulfilRefunded(s) ==
  /\ order[s] \in {"stub", "filled"}
  /\ order' = [order EXCEPT ![s] = "filled"]
  /\ Give(s) /\ Answer("order", s)
  /\ revoked' = revoked \cup {l \in live' : orderOf'[l] = s}
  /\ UNCHANGED <<ver, gone>>

(* A payment that the ledger knows already.                                *)
Duplicate(s) ==
  /\ order[s] # "none"
  /\ Answer("order", s)
  /\ UNCHANGED <<order, ver, licenses>>

(* A refund, of an order that is known, or not known yet, ...              *)
RefundOrder(s) ==
  /\ order[s] = "order"
  /\ revoked' = revoked \cup LicensesOf(s)
  /\ Answer("refund", s)
  /\ UNCHANGED <<order, ver, live, gone, orderOf, slots>>

RefundFirst(s) ==
  /\ order[s] = "none"
  /\ order' = [order EXCEPT ![s] = "stub"]
  /\ Answer("refund", s)
  /\ UNCHANGED <<ver, licenses>>

(* ... or refunded already, or voided since the refund came in.            *)
RefundOfNothing(s) ==
  /\ order[s] \in {"stub", "filled"} \/ ver[s] > 0
  /\ Answer("refund", s)
  /\ UNCHANGED <<order, ver, licenses>>

-----------------------------------------------------------------------------
(* The admin.                                                              *)

Issue(s, l) ==
  /\ order[s] = "none" /\ ver[s] = 0 /\ l \notin live \cup gone
  /\ order' = [order EXCEPT ![s] = "order"]
  /\ live' = live \cup {l}
  /\ orderOf' = [orderOf EXCEPT ![l] = s]
  /\ slots' = [slots EXCEPT ![l] = Slots]
  /\ UNCHANGED <<ver, gone, revoked, answered>>

Unrevoke(l) ==
  /\ l \in live \cap revoked
  /\ revoked' = revoked \ {l}
  /\ UNCHANGED <<order, ver, live, gone, orderOf, slots, answered>>

Void(s) ==
  /\ order[s] # "none"
  /\ order' = [order EXCEPT ![s] = "none"]
  /\ ver' = [ver EXCEPT ![s] = @ + 1]
  /\ live' = live \ LicensesOf(s) /\ gone' = gone \cup LicensesOf(s)
  /\ slots' = [l \in LicenseIds |-> IF l \in LicensesOf(s) THEN 0 ELSE slots[l]]
  /\ revoked' = revoked \ LicensesOf(s)
  /\ UNCHANGED <<orderOf, answered>>

Next ==
  \/ \E s \in Sessions :
        \/ Fulfil(s) \/ FulfilRefunded(s) \/ Duplicate(s)
        \/ RefundOrder(s) \/ RefundFirst(s) \/ RefundOfNothing(s)
        \/ Void(s) \/ \E l \in LicenseIds : Issue(s, l)
  \/ \E l \in LicenseIds : Unrevoke(l)

Spec == Init /\ [][Next]_ledgerVars

-----------------------------------------------------------------------------
(* No event is answered and forgotten: until the admin voids the order,    *)
(* the ledger has a row for every payment and every refund it answered.    *)
AnsweredIsRecorded ==
  \A s \in Sessions, type \in {"order", "refund"} :
     <<type, s>> \in answered => order[s] # "none" \/ ver[s] > 0
=============================================================================
