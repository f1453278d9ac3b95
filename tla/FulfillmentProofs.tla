-------------------------- MODULE FulfillmentProofs --------------------------
(* Proofs about Fulfillment: an order is fulfilled at most once, an        *)
(* answered refund has taken hold and slots are those paid for, for any    *)
(* number of sessions, customers, licenses and concurrent deliveries.      *)
EXTENDS Fulfillment, FiniteSetTheorems, TLAPS

LEMMA InitIInv == Init => IInv
<1>. SUFFICES ASSUME Init PROVE IInv
  OBVIOUS
<1>1. TypeOK
  BY SlotsAssumption DEF Init, TypeOK, TablesOK, RequestsOK, RowStates, Events
<1>. QED
  BY <1>1, NoneAssumption
  DEF Init, IInv, JobMatchesStep, RowHeld, RowAsSeen, RevokerAsSeen,
      RefundRemembered, RefundedIsRevoked, FulfilledOnce, RefundSticks,
      LicensesOf, InTx, Refunded

(* A request that returns, whatever the status, is idle and knows nothing. *)
LEMMA Departure ==
  ASSUME RequestsOK, JobMatchesStep, NEW w \in Workers, pc[w] # "idle", fails' \in Nat,
         Answer(w) \/ Refuse(w)
  PROVE  RequestsOK' /\ JobMatchesStep'
<1>1. job[w] \in sent
  BY DEF JobMatchesStep
<1>2. RequestsOK'
  BY <1>1 DEF RequestsOK, Answer, Refuse, Leave, Goto, events
<1>3. /\ sent' = sent
      /\ \A v \in Workers : pc'[v] # "idle" => pc'[v] = pc[v] /\ job'[v] = job[v]
  BY DEF RequestsOK, Answer, Refuse, Leave, Goto, events
<1>4. JobMatchesStep'
  BY <1>3 DEF JobMatchesStep, Session
<1>. QED
  BY <1>2, <1>4

(* Types, and that a request is at a step that fits its event.             *)
LEMMA NextRequestsOK ==
  TypeOK /\ JobMatchesStep /\ [Next]_vars => RequestsOK' /\ JobMatchesStep'
<1>. SUFFICES ASSUME TypeOK, JobMatchesStep, [Next]_vars PROVE RequestsOK' /\ JobMatchesStep'
  OBVIOUS
<1>. USE DEF TypeOK, TablesOK, Goto, Session, Steps, InTx, Events,
             RowStates, Refunded, license, events, locals,
             LicensesOfCustomer
<1>1. ASSUME NEW w \in Workers, Step(w) \/ Fail(w)
      PROVE  RequestsOK' /\ JobMatchesStep'
  <2>1. CASE ReadOrder(w)
    <3>1. CASE order[Session(w)] = "order"
      BY <2>1, <3>1, Departure DEF ReadOrder, RequestsOK
    <3>2. CASE order[Session(w)] # "order"
      BY <2>1, <3>2 DEF ReadOrder, RequestsOK, JobMatchesStep, OrderSteps
    <3>. QED
      BY <3>1, <3>2
  <2>2. CASE InsertOrder(w)
    <3>1. CASE order[Session(w)] = "none"
      BY <2>2, <3>1 DEF InsertOrder, RequestsOK, JobMatchesStep, OrderSteps
    <3>2. CASE order[Session(w)] # "none"
      BY <2>2, <3>2, Departure DEF InsertOrder, RequestsOK
    <3>. QED
      BY <3>1, <3>2
  <2>3. CASE FulfillStub(w)
    <3>1. CASE order[Session(w)] \in Refunded
      BY <2>3, <3>1 DEF FulfillStub, RequestsOK, JobMatchesStep, OrderSteps
    <3>2. CASE order[Session(w)] \notin Refunded
      BY <2>3, <3>2, Departure DEF FulfillStub, RequestsOK
    <3>. QED
      BY <3>1, <3>2
  <2>4. CASE PickLicense(w)
    BY <2>4 DEF PickLicense, RequestsOK, JobMatchesStep, OrderSteps
  <2>5. CASE Commit(w)
    BY <2>5, Departure DEF Commit, RequestsOK
  <2>6. CASE ReadForRefund(w)
    <3>1. CASE order[Session(w)] \in Refunded
      BY <2>6, <3>1, Departure DEF ReadForRefund, RequestsOK
    <3>2. CASE order[Session(w)] \notin Refunded
      BY <2>6, <3>2 DEF ReadForRefund, RequestsOK, JobMatchesStep, OrderSteps
    <3>. QED
      BY <3>1, <3>2
  <2>7. CASE InsertRefundStub(w)
    BY <2>7, Departure DEF InsertRefundStub, RequestsOK
  <2>8. CASE RevokeByOrder(w)
    BY <2>8, Departure DEF RevokeByOrder, RequestsOK
  <2>9. CASE Fail(w)
    BY <2>9, Departure DEF Fail, RequestsOK
  <2>. QED
    BY <1>1, <2>1, <2>2, <2>3, <2>4, <2>5, <2>6, <2>7, <2>8, <2>9 DEF Step
<1>2. ASSUME NEW w \in Workers, NEW e \in Events, Receive(w, e)
      PROVE  RequestsOK' /\ JobMatchesStep'
  BY <1>2 DEF Receive, RequestsOK, JobMatchesStep, OrderSteps
<1>3. ASSUME NEW e \in Events, Ignore(e) PROVE RequestsOK' /\ JobMatchesStep'
  BY <1>3 DEF Ignore, RequestsOK, JobMatchesStep
<1>4. ASSUME NEW s \in Sessions, Pay(s) \/ Refund(s)
      PROVE  RequestsOK' /\ JobMatchesStep'
  BY <1>4 DEF Pay, Refund, RequestsOK, JobMatchesStep
<1>5. ASSUME NEW s \in Sessions, VoidOrder(s) PROVE RequestsOK' /\ JobMatchesStep'
  BY <1>5 DEF VoidOrder, RequestsOK, JobMatchesStep
<1>6. ASSUME NEW s \in Sessions, NEW l \in LicenseIds, IssueLicense(s, l)
      PROVE  RequestsOK' /\ JobMatchesStep'
  BY <1>6 DEF IssueLicense, RequestsOK, JobMatchesStep
<1>7. ASSUME NEW l \in LicenseIds, UnrevokeLicense(l)
      PROVE  RequestsOK' /\ JobMatchesStep'
  BY <1>7 DEF UnrevokeLicense, RequestsOK, JobMatchesStep
<1>8. CASE UNCHANGED vars
  BY <1>8 DEF vars, RequestsOK, JobMatchesStep
<1>. QED
  BY <1>1, <1>2, <1>3, <1>4, <1>5, <1>6, <1>7, <1>8 DEF Next

(* The types of the tables.                                                *)
LEMMA NextTablesOK == TypeOK /\ JobMatchesStep /\ [Next]_vars => TablesOK'
<1>. SUFFICES ASSUME TypeOK, JobMatchesStep, [Next]_vars PROVE TablesOK'
  OBVIOUS
<1>. USE SlotsAssumption
     DEF TypeOK, TablesOK, Session, InTx, RowStates, Refunded, license,
         LicensesOf
<1>1. ASSUME NEW w \in Workers, Step(w) \/ Fail(w) PROVE TablesOK'
  <2>1. CASE ReadOrder(w)
    BY <2>1 DEF ReadOrder
  <2>2. CASE InsertOrder(w)
    BY <2>2 DEF InsertOrder
  <2>3. CASE FulfillStub(w)
    BY <2>3 DEF FulfillStub
  <2>4. CASE PickLicense(w)
    BY <2>4 DEF PickLicense
  <2>5. CASE Commit(w)
    <3>1. Session(w) \in Sessions
      BY <2>5 DEF Commit, RequestsOK, Events, JobMatchesStep
    <3>2. CASE target[w] = None
      BY <2>5, <3>1, <3>2 DEF Commit
    <3>3. CASE target[w] # None
      BY <2>5, <3>1, <3>3 DEF Commit
    <3>. QED
      BY <3>2, <3>3
  <2>6. CASE ReadForRefund(w)
    BY <2>6 DEF ReadForRefund
  <2>7. CASE InsertRefundStub(w)
    BY <2>7 DEF InsertRefundStub
  <2>8. CASE RevokeByOrder(w)
    BY <2>8 DEF RevokeByOrder
  <2>9. CASE Fail(w)
    BY <2>9 DEF Fail, RequestsOK, Events
  <2>. QED
    BY <1>1, <2>1, <2>2, <2>3, <2>4, <2>5, <2>6, <2>7, <2>8, <2>9 DEF Step
<1>2. ASSUME NEW w \in Workers, NEW e \in Events, Receive(w, e) PROVE TablesOK'
  BY <1>2 DEF Receive
<1>3. ASSUME NEW e \in Events, Ignore(e) PROVE TablesOK'
  BY <1>3 DEF Ignore
<1>4. ASSUME NEW s \in Sessions, Pay(s) \/ Refund(s) PROVE TablesOK'
  BY <1>4 DEF Pay, Refund
<1>5. ASSUME NEW s \in Sessions, VoidOrder(s) PROVE TablesOK'
  BY <1>5 DEF VoidOrder
<1>6. ASSUME NEW s \in Sessions, NEW l \in LicenseIds, IssueLicense(s, l)
      PROVE  TablesOK'
  BY <1>6 DEF IssueLicense
<1>7. ASSUME NEW l \in LicenseIds, UnrevokeLicense(l) PROVE TablesOK'
  BY <1>7 DEF UnrevokeLicense
<1>8. CASE UNCHANGED vars
  BY <1>8 DEF vars
<1>. QED
  BY <1>1, <1>2, <1>3, <1>4, <1>5, <1>6, <1>7, <1>8 DEF Next

(* An order's handler works on a session that was paid, a refund's on one  *)
(* that was refunded.                                                      *)
LEMMA OwnSession ==
  ASSUME TypeOK, JobMatchesStep, NEW w \in Workers, pc[w] # "idle"
  PROVE  /\ Session(w) \in Sessions
         /\ pc[w] \in OrderSteps => <<"order", Session(w)>> \in sent
         /\ pc[w] \notin OrderSteps => <<"refund", Session(w)>> \in sent
<1>1. job[w] \in sent
      /\ job[w] = <<IF pc[w] \in OrderSteps THEN "order" ELSE "refund", Session(w)>>
  BY DEF JobMatchesStep
<1>2. job[w] \in Events
  BY <1>1 DEF TypeOK, RequestsOK
<1>. QED
  BY <1>1, <1>2 DEF Events, Session

(* Whoever has written a row in an open transaction holds it, alone.       *)
LEMMA NextRowHeld == IInv /\ [Next]_vars => RowHeld'
<1>. SUFFICES ASSUME IInv, [Next]_vars PROVE RowHeld'
  OBVIOUS
<1>. USE NoneAssumption
     DEF IInv, TypeOK, TablesOK, RequestsOK, JobMatchesStep, OrderSteps, Goto,
         Leave, Answer, Refuse, Session, Steps, InTx, RowStates, Refunded,
         Events, license, events, locals, RowHeld
<1>1. ASSUME NEW w \in Workers, Step(w) \/ Fail(w) PROVE RowHeld'
  <2>1. CASE ReadOrder(w)
    BY <2>1 DEF ReadOrder
  <2>2. CASE InsertOrder(w)
    BY <2>2 DEF InsertOrder
  <2>3. CASE FulfillStub(w)
    BY <2>3 DEF FulfillStub
  <2>4. CASE PickLicense(w)
    BY <2>4 DEF PickLicense
  <2>5. CASE Commit(w)
    BY <2>5 DEF Commit
  <2>6. CASE ReadForRefund(w)
    BY <2>6 DEF ReadForRefund
  <2>7. CASE InsertRefundStub(w)
    BY <2>7 DEF InsertRefundStub
  <2>8. CASE RevokeByOrder(w)
    BY <2>8 DEF RevokeByOrder
  <2>9. CASE Fail(w)
    BY <2>9 DEF Fail
  <2>. QED
    BY <1>1, <2>1, <2>2, <2>3, <2>4, <2>5, <2>6, <2>7, <2>8, <2>9 DEF Step
<1>2. ASSUME NEW w \in Workers, NEW e \in Events, Receive(w, e) PROVE RowHeld'
  BY <1>2 DEF Receive
<1>3. ASSUME NEW e \in Events, Ignore(e) PROVE RowHeld'
  BY <1>3 DEF Ignore
<1>4. ASSUME NEW s \in Sessions, Pay(s) \/ Refund(s) PROVE RowHeld'
  BY <1>4 DEF Pay, Refund
<1>5. ASSUME NEW s \in Sessions, VoidOrder(s) PROVE RowHeld'
  BY <1>5 DEF VoidOrder
<1>6. ASSUME NEW s \in Sessions, NEW l \in LicenseIds, IssueLicense(s, l)
      PROVE  RowHeld'
  BY <1>6 DEF IssueLicense
<1>7. ASSUME NEW l \in LicenseIds, UnrevokeLicense(l) PROVE RowHeld'
  BY <1>7 DEF UnrevokeLicense
<1>8. CASE UNCHANGED vars
  BY <1>8 DEF vars
<1>. QED
  BY <1>1, <1>2, <1>3, <1>4, <1>5, <1>6, <1>7, <1>8 DEF Next

(* A row that is held stays what its holder read.                          *)
LEMMA NextRowAsSeen == IInv /\ [Next]_vars => RowAsSeen'
<1>. SUFFICES ASSUME IInv, [Next]_vars PROVE RowAsSeen'
  OBVIOUS
<1>. USE NoneAssumption
     DEF IInv, TypeOK, TablesOK, RequestsOK, JobMatchesStep, OrderSteps, Goto,
         Leave, Answer, Refuse, Session, Steps, InTx, RowStates, Refunded,
         Events, license, events, locals, RowHeld, RowAsSeen
<1>1. ASSUME NEW w \in Workers, Step(w) \/ Fail(w) PROVE RowAsSeen'
  <2>1. CASE ReadOrder(w)
    BY <2>1 DEF ReadOrder
  <2>2. CASE InsertOrder(w)
    BY <2>2 DEF InsertOrder
  <2>3. CASE FulfillStub(w)
    BY <2>3 DEF FulfillStub
  <2>4. CASE PickLicense(w)
    BY <2>4 DEF PickLicense
  <2>5. CASE Commit(w)
    BY <2>5 DEF Commit
  <2>6. CASE ReadForRefund(w)
    BY <2>6 DEF ReadForRefund
  <2>7. CASE InsertRefundStub(w)
    BY <2>7 DEF InsertRefundStub
  <2>8. CASE RevokeByOrder(w)
    BY <2>8 DEF RevokeByOrder
  <2>9. CASE Fail(w)
    BY <2>9 DEF Fail
  <2>. QED
    BY <1>1, <2>1, <2>2, <2>3, <2>4, <2>5, <2>6, <2>7, <2>8, <2>9 DEF Step
<1>2. ASSUME NEW w \in Workers, NEW e \in Events, Receive(w, e) PROVE RowAsSeen'
  BY <1>2 DEF Receive
<1>3. ASSUME NEW e \in Events, Ignore(e) PROVE RowAsSeen'
  BY <1>3 DEF Ignore
<1>4. ASSUME NEW s \in Sessions, Pay(s) \/ Refund(s) PROVE RowAsSeen'
  BY <1>4 DEF Pay, Refund
<1>5. ASSUME NEW s \in Sessions, VoidOrder(s) PROVE RowAsSeen'
  BY <1>5 DEF VoidOrder
<1>6. ASSUME NEW s \in Sessions, NEW l \in LicenseIds, IssueLicense(s, l)
      PROVE  RowAsSeen'
  <2>1. \A w \in Workers : pc[w] \in InTx => Session(w) # s
    <3>. HIDE DEF Session, InTx, Goto, Leave
    <3>1. \A w \in Workers : pc[w] \in InTx => pc[w] \in OrderSteps /\ pc[w] # "idle"
      BY DEF OrderSteps, InTx
    <3>. QED
      BY <1>6, <3>1, OwnSession DEF IssueLicense
  <2>. QED
    BY <1>6, <2>1 DEF IssueLicense
<1>7. ASSUME NEW l \in LicenseIds, UnrevokeLicense(l) PROVE RowAsSeen'
  BY <1>7 DEF UnrevokeLicense
<1>8. CASE UNCHANGED vars
  BY <1>8 DEF vars
<1>. QED
  BY <1>1, <1>2, <1>3, <1>4, <1>5, <1>6, <1>7, <1>8 DEF Next

(* What handleRefund read is still there when it revokes, or was voided.   *)
LEMMA NextRevoker == IInv /\ [Next]_vars => RevokerAsSeen'
<1>. SUFFICES ASSUME IInv, [Next]_vars PROVE RevokerAsSeen'
  OBVIOUS
<1>. USE NoneAssumption
     DEF IInv, TypeOK, TablesOK, RequestsOK, JobMatchesStep, OrderSteps, Goto,
         Leave, Answer, Refuse, Session, Steps, InTx, RowStates, Refunded,
         Events, license, events, locals, RowAsSeen, RevokerAsSeen
<1>1. ASSUME NEW w \in Workers, Step(w) \/ Fail(w) PROVE RevokerAsSeen'
  <2>1. CASE ReadOrder(w)
    BY <2>1 DEF ReadOrder
  <2>2. CASE InsertOrder(w)
    BY <2>2 DEF InsertOrder
  <2>3. CASE FulfillStub(w)
    BY <2>3 DEF FulfillStub
  <2>4. CASE PickLicense(w)
    BY <2>4 DEF PickLicense
  <2>5. CASE Commit(w)
    BY <2>5 DEF Commit
  <2>6. CASE ReadForRefund(w)
    BY <2>6 DEF ReadForRefund
  <2>7. CASE InsertRefundStub(w)
    BY <2>7 DEF InsertRefundStub
  <2>8. CASE RevokeByOrder(w)
    BY <2>8 DEF RevokeByOrder
  <2>9. CASE Fail(w)
    BY <2>9 DEF Fail
  <2>. QED
    BY <1>1, <2>1, <2>2, <2>3, <2>4, <2>5, <2>6, <2>7, <2>8, <2>9 DEF Step
<1>2. ASSUME NEW w \in Workers, NEW e \in Events, Receive(w, e) PROVE RevokerAsSeen'
  BY <1>2 DEF Receive
<1>3. ASSUME NEW e \in Events, Ignore(e) PROVE RevokerAsSeen'
  BY <1>3 DEF Ignore
<1>4. ASSUME NEW s \in Sessions, Pay(s) \/ Refund(s) PROVE RevokerAsSeen'
  BY <1>4 DEF Pay, Refund
<1>5. ASSUME NEW s \in Sessions, VoidOrder(s) PROVE RevokerAsSeen'
  BY <1>5 DEF VoidOrder
<1>6. ASSUME NEW s \in Sessions, NEW l \in LicenseIds, IssueLicense(s, l)
      PROVE  RevokerAsSeen'
  BY <1>6 DEF IssueLicense
<1>7. ASSUME NEW l \in LicenseIds, UnrevokeLicense(l) PROVE RevokerAsSeen'
  BY <1>7 DEF UnrevokeLicense
<1>8. CASE UNCHANGED vars
  BY <1>8 DEF vars
<1>. QED
  BY <1>1, <1>2, <1>3, <1>4, <1>5, <1>6, <1>7, <1>8 DEF Next

(* A handler answers its own event: an order's handler never a refund.     *)
LEMMA OwnAnswer ==
  ASSUME JobMatchesStep, NEW w \in Workers, Step(w) \/ Fail(w), NEW s \in Sessions,
         <<"refund", s>> \in answered', <<"refund", s>> \notin answered
  PROVE  pc[w] \notin OrderSteps /\ Session(w) = s
<1>1. pc[w] # "idle" /\ answered' = answered \cup {job[w]}
  BY DEF Step, Fail, ReadOrder, InsertOrder, FulfillStub, PickLicense, Commit,
         ReadForRefund, InsertRefundStub, RevokeByOrder, Answer, Refuse, events
<1>2. job[w] = <<"refund", s>>
  BY <1>1
<1>. QED
  BY <1>1, <1>2 DEF JobMatchesStep, Session

(* An answered refund leaves a row, and only a refund leaves a refunded one.*)
LEMMA NextRemembered == IInv /\ [Next]_vars => RefundRemembered'
<1>. SUFFICES ASSUME IInv, [Next]_vars PROVE RefundRemembered'
  OBVIOUS
<1>. USE NoneAssumption
     DEF IInv, TypeOK, TablesOK, RequestsOK, JobMatchesStep, OrderSteps, Goto,
         Leave, Answer, Refuse, Session, Steps, InTx, RowStates, Refunded,
         Events, license, events, locals, RowAsSeen, RevokerAsSeen,
         RefundRemembered
<1>1. ASSUME NEW w \in Workers, Step(w) \/ Fail(w) PROVE RefundRemembered'
  <2>a. \A s \in Sessions : <<"refund", s>> \in answered' /\ <<"refund", s>> \notin answered
          => pc[w] \notin OrderSteps /\ Session(w) = s
    BY <1>1, OwnAnswer
  <2>1. CASE ReadOrder(w)
    BY <2>1, <2>a DEF ReadOrder
  <2>2. CASE InsertOrder(w)
    BY <2>2, <2>a DEF InsertOrder
  <2>3. CASE FulfillStub(w)
    BY <2>3 DEF FulfillStub
  <2>4. CASE PickLicense(w)
    BY <2>4 DEF PickLicense
  <2>5. CASE Commit(w)
    <3>. SUFFICES ASSUME NEW t \in Sessions
                  PROVE  /\ <<"refund", t>> \in answered' /\ ver'[t] = 0 => order'[t] # "none"
                         /\ order'[t] \in Refunded => <<"refund", t>> \in sent'
      OBVIOUS
    <3>r. /\ <<"refund", t>> \in answered /\ ver[t] = 0 => order[t] # "none"
          /\ order[t] \in Refunded => <<"refund", t>> \in sent
      OBVIOUS
    <3>1. /\ order'[Session(w)] # "none"
          /\ order'[Session(w)] \in Refunded => order[Session(w)] \in Refunded
          /\ t # Session(w) => order'[t] = order[t]
          /\ UNCHANGED <<sent, ver>> /\ pc[w] \in OrderSteps
      BY <2>5 DEF Commit
    <3>. HIDE DEF Refunded, Session, OrderSteps, Answer, IInv, TypeOK,
                  TablesOK, RequestsOK, JobMatchesStep,
                  RefundRemembered, RevokerAsSeen, RowAsSeen
    <3>. QED
      BY <2>a, <3>r, <3>1
  <2>6. CASE ReadForRefund(w)
    BY <2>6, <2>a DEF ReadForRefund
  <2>7. CASE InsertRefundStub(w)
    <3>. SUFFICES ASSUME NEW t \in Sessions
                  PROVE  /\ <<"refund", t>> \in answered' /\ ver'[t] = 0 => order'[t] # "none"
                         /\ order'[t] \in Refunded => <<"refund", t>> \in sent'
      OBVIOUS
    <3>r. /\ <<"refund", t>> \in answered /\ ver[t] = 0 => order[t] # "none"
          /\ order[t] \in Refunded => <<"refund", t>> \in sent
      OBVIOUS
    <3>1. /\ order'[Session(w)] # "none"
          /\ t # Session(w) => order'[t] = order[t]
          /\ UNCHANGED <<sent, ver>> /\ pc[w] = "stub"
      BY <2>7 DEF InsertRefundStub
    <3>2. <<"refund", Session(w)>> \in sent
      BY <3>1, OwnSession
    <3>. HIDE DEF Refunded, Session, OrderSteps, Answer, IInv, TypeOK,
                  TablesOK, RequestsOK, JobMatchesStep,
                  RefundRemembered, RevokerAsSeen, RowAsSeen
    <3>. QED
      BY <2>a, <3>r, <3>1, <3>2
  <2>8. CASE RevokeByOrder(w)
    <3>. SUFFICES ASSUME NEW t \in Sessions
                  PROVE  /\ <<"refund", t>> \in answered' /\ ver'[t] = 0 => order'[t] # "none"
                         /\ order'[t] \in Refunded => <<"refund", t>> \in sent'
      OBVIOUS
    <3>r. /\ <<"refund", t>> \in answered /\ ver[t] = 0 => order[t] # "none"
          /\ order[t] \in Refunded => <<"refund", t>> \in sent
      OBVIOUS
    <3>1. /\ UNCHANGED <<sent, ver, order>>
          /\ sawVer[w] <= ver[Session(w)]
          /\ sawVer[w] = ver[Session(w)] => order[Session(w)] = "order"
      BY <2>8 DEF RevokeByOrder
    <3>2. sawVer[w] \in Nat
      OBVIOUS
    <3>. HIDE DEF Refunded, Session, OrderSteps, Answer, IInv, TypeOK,
                  TablesOK, RequestsOK, JobMatchesStep,
                  RefundRemembered, RevokerAsSeen, RowAsSeen
    <3>. QED
      BY <2>a, <3>r, <3>1, <3>2
  <2>9. CASE Fail(w)
    BY <2>9 DEF Fail
  <2>. QED
    BY <1>1, <2>1, <2>2, <2>3, <2>4, <2>5, <2>6, <2>7, <2>8, <2>9 DEF Step
<1>2. ASSUME NEW w \in Workers, NEW e \in Events, Receive(w, e)
      PROVE  RefundRemembered'
  BY <1>2 DEF Receive
<1>3. ASSUME NEW e \in Events, Ignore(e) PROVE RefundRemembered'
  BY <1>3 DEF Ignore
<1>4. ASSUME NEW s \in Sessions, Pay(s) \/ Refund(s) PROVE RefundRemembered'
  BY <1>4 DEF Pay, Refund
<1>5. ASSUME NEW s \in Sessions, VoidOrder(s) PROVE RefundRemembered'
  <2>. SUFFICES ASSUME NEW t \in Sessions
                PROVE  /\ <<"refund", t>> \in answered' /\ ver'[t] = 0 => order'[t] # "none"
                       /\ order'[t] \in Refunded => <<"refund", t>> \in sent'
    OBVIOUS
  <2>r. /\ <<"refund", t>> \in answered /\ ver[t] = 0 => order[t] # "none"
        /\ order[t] \in Refunded => <<"refund", t>> \in sent
    OBVIOUS
  <2>1. /\ order' = [order EXCEPT ![s] = "none"]
        /\ ver' = [ver EXCEPT ![s] = ver[s] + 1]
        /\ UNCHANGED <<sent, answered>>
    BY <1>5 DEF VoidOrder
  <2>2. ver'[s] # 0 /\ order'[s] = "none"
    BY <2>1
  <2>3. t # s => ver'[t] = ver[t] /\ order'[t] = order[t]
    BY <2>1
  <2>4. order'[s] \notin Refunded
    BY <2>2
  <2>. HIDE DEF Refunded, Session, OrderSteps, Answer, IInv, TypeOK,
                TablesOK, RequestsOK, JobMatchesStep, RefundRemembered,
                RevokerAsSeen, RowAsSeen
  <2>. QED
    BY <2>r, <2>1, <2>2, <2>3, <2>4
<1>6. ASSUME NEW s \in Sessions, NEW l \in LicenseIds, IssueLicense(s, l)
      PROVE  RefundRemembered'
  BY <1>6 DEF IssueLicense
<1>7. ASSUME NEW l \in LicenseIds, UnrevokeLicense(l) PROVE RefundRemembered'
  BY <1>7 DEF UnrevokeLicense
<1>8. CASE UNCHANGED vars
  BY <1>8 DEF vars
<1>. QED
  BY <1>1, <1>2, <1>3, <1>4, <1>5, <1>6, <1>7, <1>8 DEF Next

(* The licenses of a refunded row are revoked as they are made.            *)
LEMMA NextRevoked == IInv /\ [Next]_vars => RefundedIsRevoked'
<1>. SUFFICES ASSUME IInv, [Next]_vars PROVE RefundedIsRevoked'
  OBVIOUS
<1>. USE NoneAssumption
     DEF IInv, TypeOK, TablesOK, RequestsOK, JobMatchesStep, OrderSteps, Goto,
         Leave, Answer, Refuse, Session, Steps, InTx, RowStates, Refunded,
         Events, license, events, locals, LicensesOf, RowAsSeen, FulfilledOnce,
         RefundedIsRevoked
<1>1. ASSUME NEW w \in Workers, Step(w) \/ Fail(w) PROVE RefundedIsRevoked'
  <2>1. CASE ReadOrder(w)
    BY <2>1 DEF ReadOrder
  <2>2. CASE InsertOrder(w)
    BY <2>2 DEF InsertOrder
  <2>3. CASE FulfillStub(w)
    BY <2>3 DEF FulfillStub
  <2>4. CASE PickLicense(w)
    BY <2>4 DEF PickLicense
  <2>5. CASE Commit(w)
    BY <2>5 DEF Commit
  <2>6. CASE ReadForRefund(w)
    BY <2>6 DEF ReadForRefund
  <2>7. CASE InsertRefundStub(w)
    BY <2>7 DEF InsertRefundStub
  <2>8. CASE RevokeByOrder(w)
    BY <2>8 DEF RevokeByOrder
  <2>9. CASE Fail(w)
    BY <2>9 DEF Fail
  <2>. QED
    BY <1>1, <2>1, <2>2, <2>3, <2>4, <2>5, <2>6, <2>7, <2>8, <2>9 DEF Step
<1>2. ASSUME NEW w \in Workers, NEW e \in Events, Receive(w, e)
      PROVE  RefundedIsRevoked'
  BY <1>2 DEF Receive
<1>3. ASSUME NEW e \in Events, Ignore(e) PROVE RefundedIsRevoked'
  BY <1>3 DEF Ignore
<1>4. ASSUME NEW s \in Sessions, Pay(s) \/ Refund(s) PROVE RefundedIsRevoked'
  BY <1>4 DEF Pay, Refund
<1>5. ASSUME NEW s \in Sessions, VoidOrder(s) PROVE RefundedIsRevoked'
  BY <1>5 DEF VoidOrder
<1>6. ASSUME NEW s \in Sessions, NEW l \in LicenseIds, IssueLicense(s, l)
      PROVE  RefundedIsRevoked'
  BY <1>6 DEF IssueLicense
<1>7. ASSUME NEW l \in LicenseIds, UnrevokeLicense(l) PROVE RefundedIsRevoked'
  BY <1>7 DEF UnrevokeLicense
<1>8. CASE UNCHANGED vars
  BY <1>8 DEF vars
<1>. QED
  BY <1>1, <1>2, <1>3, <1>4, <1>5, <1>6, <1>7, <1>8 DEF Next

(* Only a row that is not there yet gets a license without being refunded. *)
LEMMA NextOnce == IInv /\ [Next]_vars => FulfilledOnce'
<1>. SUFFICES ASSUME IInv, [Next]_vars PROVE FulfilledOnce'
  OBVIOUS
<1>. USE NoneAssumption
     DEF IInv, TypeOK, TablesOK, RequestsOK, JobMatchesStep, OrderSteps, Goto,
         Leave, Answer, Refuse, Session, Steps, InTx, RowStates, Refunded,
         Events, license, events, locals, LicensesOf, RowAsSeen, FulfilledOnce
<1>1. ASSUME NEW w \in Workers, Step(w) \/ Fail(w) PROVE FulfilledOnce'
  <2>1. CASE ReadOrder(w)
    BY <2>1 DEF ReadOrder
  <2>2. CASE InsertOrder(w)
    BY <2>2 DEF InsertOrder
  <2>3. CASE FulfillStub(w)
    BY <2>3 DEF FulfillStub
  <2>4. CASE PickLicense(w)
    BY <2>4 DEF PickLicense
  <2>5. CASE Commit(w)
    BY <2>5 DEF Commit
  <2>6. CASE ReadForRefund(w)
    BY <2>6 DEF ReadForRefund
  <2>7. CASE InsertRefundStub(w)
    BY <2>7 DEF InsertRefundStub
  <2>8. CASE RevokeByOrder(w)
    BY <2>8 DEF RevokeByOrder
  <2>9. CASE Fail(w)
    BY <2>9 DEF Fail
  <2>. QED
    BY <1>1, <2>1, <2>2, <2>3, <2>4, <2>5, <2>6, <2>7, <2>8, <2>9 DEF Step
<1>2. ASSUME NEW w \in Workers, NEW e \in Events, Receive(w, e) PROVE FulfilledOnce'
  BY <1>2 DEF Receive
<1>3. ASSUME NEW e \in Events, Ignore(e) PROVE FulfilledOnce'
  BY <1>3 DEF Ignore
<1>4. ASSUME NEW s \in Sessions, Pay(s) \/ Refund(s) PROVE FulfilledOnce'
  BY <1>4 DEF Pay, Refund
<1>5. ASSUME NEW s \in Sessions, VoidOrder(s) PROVE FulfilledOnce'
  BY <1>5 DEF VoidOrder
<1>6. ASSUME NEW s \in Sessions, NEW l \in LicenseIds, IssueLicense(s, l)
      PROVE  FulfilledOnce'
  BY <1>6 DEF IssueLicense
<1>7. ASSUME NEW l \in LicenseIds, UnrevokeLicense(l) PROVE FulfilledOnce'
  BY <1>7 DEF UnrevokeLicense
<1>8. CASE UNCHANGED vars
  BY <1>8 DEF vars
<1>. QED
  BY <1>1, <1>2, <1>3, <1>4, <1>5, <1>6, <1>7, <1>8 DEF Next

(* An answered refund stays in force.                                      *)
LEMMA NextSticks == IInv /\ [Next]_vars => RefundSticks'
<1>. SUFFICES ASSUME IInv, [Next]_vars PROVE RefundSticks'
  OBVIOUS
<1>. USE NoneAssumption
     DEF IInv, TypeOK, TablesOK, RequestsOK, JobMatchesStep, OrderSteps, Goto,
         Leave, Answer, Refuse, Session, Steps, InTx, RowStates, Refunded,
         Events, license, events, locals, LicensesOf, RowAsSeen, RevokerAsSeen,
         RefundRemembered, RefundedIsRevoked, FulfilledOnce, RefundSticks
<1>1. ASSUME NEW w \in Workers, Step(w) \/ Fail(w) PROVE RefundSticks'
  <2>1. CASE ReadOrder(w)
    BY <2>1 DEF ReadOrder
  <2>2. CASE InsertOrder(w)
    BY <2>2 DEF InsertOrder
  <2>3. CASE FulfillStub(w)
    BY <2>3 DEF FulfillStub
  <2>4. CASE PickLicense(w)
    BY <2>4 DEF PickLicense
  <2>5. CASE Commit(w)
    BY <2>5 DEF Commit
  <2>6. CASE ReadForRefund(w)
    BY <2>6 DEF ReadForRefund
  <2>7. CASE InsertRefundStub(w)
    BY <2>7 DEF InsertRefundStub
  <2>8. CASE RevokeByOrder(w)
    BY <2>8 DEF RevokeByOrder
  <2>9. CASE Fail(w)
    BY <2>9 DEF Fail
  <2>. QED
    BY <1>1, <2>1, <2>2, <2>3, <2>4, <2>5, <2>6, <2>7, <2>8, <2>9 DEF Step
<1>2. ASSUME NEW w \in Workers, NEW e \in Events, Receive(w, e) PROVE RefundSticks'
  BY <1>2 DEF Receive
<1>3. ASSUME NEW e \in Events, Ignore(e) PROVE RefundSticks'
  BY <1>3 DEF Ignore
<1>4. ASSUME NEW s \in Sessions, Pay(s) \/ Refund(s) PROVE RefundSticks'
  BY <1>4 DEF Pay, Refund
<1>5. ASSUME NEW s \in Sessions, VoidOrder(s) PROVE RefundSticks'
  BY <1>5 DEF VoidOrder
<1>6. ASSUME NEW s \in Sessions, NEW l \in LicenseIds, IssueLicense(s, l)
      PROVE  RefundSticks'
  BY <1>6 DEF IssueLicense
<1>7. ASSUME NEW l \in LicenseIds, UnrevokeLicense(l) PROVE RefundSticks'
  BY <1>7 DEF UnrevokeLicense
<1>8. CASE UNCHANGED vars
  BY <1>8 DEF vars
<1>. QED
  BY <1>1, <1>2, <1>3, <1>4, <1>5, <1>6, <1>7, <1>8 DEF Next

LEMMA NextIInv == IInv /\ [Next]_vars => IInv'
<1>. SUFFICES ASSUME IInv, [Next]_vars PROVE IInv'
  OBVIOUS
<1>1. RequestsOK' /\ JobMatchesStep' /\ TablesOK'
  BY NextRequestsOK, NextTablesOK DEF IInv
<1>2. RowHeld' /\ RowAsSeen' /\ RevokerAsSeen'
  BY NextRowHeld, NextRowAsSeen, NextRevoker
<1>3. RefundRemembered' /\ RefundedIsRevoked'
  BY NextRemembered, NextRevoked
<1>4. FulfilledOnce' /\ RefundSticks'
  BY NextOnce, NextSticks
<1>. QED
  BY <1>1, <1>2, <1>3, <1>4 DEF IInv, TypeOK

LEMMA Invariance == Spec => []IInv
BY InitIInv, NextIInv, PTL DEF Spec

(* The state always has its types.                                         *)
THEOREM TypeCorrect == Spec => []TypeOK
<1>1. IInv => TypeOK
  BY DEF IInv
<1>. QED
  BY <1>1, Invariance, PTL

(* However often, in whatever order and with whatever overlap the events   *)
(* of a session are delivered, an order that came before its refund gives  *)
(* at most one license.                                                    *)
THEOREM IdempotentFulfilment == Spec => []FulfilledOnce
<1>1. IInv => FulfilledOnce
  BY DEF IInv
<1>. QED
  BY <1>1, Invariance, PTL

(* Once a refund was answered its order has no usable license, unless an   *)
(* admin unrevoked it or voided the order.                                 *)
THEOREM RefundsHold == Spec => []RefundSticks
<1>1. IInv => RefundSticks
  BY DEF IInv
<1>. QED
  BY <1>1, Invariance, PTL

(* A license is revoked only for a refund of its own order.                *)
THEOREM NoUndueRevocation == Spec => RevokedForRefund
<1>. DEFINE Due == \A l \in live : l \in revoked' \ revoked => <<"refund", orderOf[l]>> \in sent
<1>1. ASSUME IInv, NEW w \in Workers, Commit(w) PROVE Due
  <2>. DEFINE s == Session(w)
  <2>1. CASE saw[w] = "refunded"
    <3>1. order[s] \in Refunded /\ s \in Sessions
      BY <1>1, <2>1, OwnSession DEF Commit, IInv, RowAsSeen, InTx
    <3>2. <<"refund", s>> \in sent
      BY <1>1, <3>1 DEF IInv, RefundRemembered
    <3>3. \A l \in live : l \in revoked' \ revoked => orderOf'[l] = s
      BY <1>1, <2>1 DEF Commit
    <3>4. \A l \in live : orderOf'[l] = orderOf[l]
      BY <1>1 DEF Commit, IInv, TypeOK, TablesOK
    <3>. QED
      BY <3>2, <3>3, <3>4
  <2>2. CASE saw[w] # "refunded"
    BY <1>1, <2>2 DEF Commit
  <2>. QED
    BY <2>1, <2>2
<1>2. ASSUME IInv, NEW w \in Workers, RevokeByOrder(w) PROVE Due
  <2>1. <<"refund", Session(w)>> \in sent
    BY <1>2, OwnSession DEF RevokeByOrder, IInv, OrderSteps, InTx
  <2>2. \A l \in live : l \in revoked' \ revoked => orderOf[l] = Session(w)
    BY <1>2 DEF RevokeByOrder, LicensesOf
  <2>. QED
    BY <2>1, <2>2
<1>3. IInv /\ [Next]_vars => [Due]_vars
  <2>. SUFFICES ASSUME IInv, Next, revoked' \ revoked # {} PROVE Due
    OBVIOUS
  <2>. QED
    BY <1>1, <1>2
    DEF Next, Step, Fail, ReadOrder, InsertOrder, FulfillStub, PickLicense, ReadForRefund,
        InsertRefundStub, Receive, Ignore, Pay, Refund, VoidOrder, IssueLicense,
        UnrevokeLicense, license
<1>. QED
  BY <1>3, Invariance, PTL DEF Spec, RevokedForRefund

-----------------------------------------------------------------------------
(* Counting slots.  Numbered(f, L) is SlotsOf(L) when slots is f.          *)
Numbered(f, L) == UNION {{l} \X (1..f[l]) : l \in L}

LEMMA NumberedIn ==
  ASSUME NEW f, NEW L, NEW e
  PROVE  e \in Numbered(f, L) <=> \E l \in L : \E i \in 1..f[l] : e = <<l, i>>
BY DEF Numbered

LEMMA NumberedFinite ==
  ASSUME NEW L \in SUBSET LicenseIds, NEW n \in Nat,
         NEW f \in [LicenseIds -> Nat], \A l \in L : f[l] <= n
  PROVE  IsFiniteSet(Numbered(f, L)) /\ Cardinality(Numbered(f, L)) \in Nat
<1>1. IsFiniteSet(L) /\ IsFiniteSet(1..n)
  BY FiniteAssumption, FS_Subset, FS_Interval
<1>2. IsFiniteSet(L \X (1..n))
  BY <1>1, FS_Product
<1>3. ASSUME NEW e \in Numbered(f, L) PROVE e \in L \X (1..n)
  BY <1>3, NumberedIn
<1>4. IsFiniteSet(Numbered(f, L))
  BY <1>2, <1>3, FS_Subset
<1>. QED
  BY <1>4, FS_CardinalityType

(* Licenses whose slots did not change have as many as before.             *)
LEMMA SlotsKept ==
  ASSUME NEW L, NEW f, NEW g, \A l \in L : f[l] = g[l]
  PROVE  Numbered(f, L) = Numbered(g, L)
<1>1. \A e : e \in Numbered(f, L) <=> e \in Numbered(g, L)
  BY NumberedIn
<1>. QED
  BY <1>1

(* One more license adds its slots.                                        *)
LEMMA SlotsAdded ==
  ASSUME NEW L \in SUBSET LicenseIds, NEW l \in LicenseIds \ L, NEW n \in Nat,
         NEW f \in [LicenseIds -> Nat], NEW g \in [LicenseIds -> Nat],
         \A m \in L : g[m] = f[m] /\ f[m] <= n
  PROVE  Cardinality(Numbered(g, L \cup {l})) = Cardinality(Numbered(f, L)) + g[l]
<1>. DEFINE Old == Numbered(f, L)
            New == {l} \X (1..g[l])
<1>1. IsFiniteSet(Old) /\ Cardinality(Old) \in Nat
  BY NumberedFinite
<1>2. IsFiniteSet(New) /\ Cardinality(New) = g[l]
  <2>1. IsFiniteSet({l}) /\ Cardinality({l}) = 1
    BY FS_Singleton
  <2>2. IsFiniteSet(1..g[l]) /\ Cardinality(1..g[l]) = g[l]
    BY FS_Interval
  <2>3. IsFiniteSet(New) /\ Cardinality(New) = Cardinality({l}) * Cardinality(1..g[l])
    BY <2>1, <2>2, FS_Product
  <2>4. g[l] \in Nat
    OBVIOUS
  <2>. QED
    BY <2>1, <2>2, <2>3, <2>4
<1>3. Numbered(g, L \cup {l}) = Old \cup New
  <2>1. \A e : e \in Numbered(g, L \cup {l}) <=> e \in Numbered(g, L) \/ e \in New
    BY NumberedIn
  <2>2. Numbered(g, L) = Old
    BY SlotsKept
  <2>. QED
    BY <2>1, <2>2
<1>4. Old \cap New = {}
  <2>1. \A e \in Old : e[1] \in L
    BY NumberedIn
  <2>2. \A e \in New : e[1] = l
    OBVIOUS
  <2>. QED
    BY <2>1, <2>2
<1>. HIDE DEF Old, New
<1>5. Cardinality(Old \cup New) = Cardinality(Old) + Cardinality(New) - Cardinality(Old \cap New)
  BY <1>1, <1>2, FS_Union
<1>6. Cardinality(Old \cap New) = 0
  BY <1>4, FS_EmptySet
<1>7. Cardinality(Numbered(g, L \cup {l})) = Cardinality(Old \cup New)
  BY <1>3
<1>8. g[l] \in Nat
  OBVIOUS
<1>9. Cardinality(Numbered(g, L \cup {l})) = Cardinality(Old) + g[l]
  BY <1>1, <1>2, <1>5, <1>6, <1>7, <1>8
<1>. QED
  BY <1>9 DEF Old

(* A license that is topped up has so many slots more.                     *)
LEMMA SlotsTopped ==
  ASSUME NEW L \in SUBSET LicenseIds, NEW l \in L, NEW n \in Nat, NEW k \in Nat,
         NEW f \in [LicenseIds -> Nat], \A m \in L : f[m] <= n,
         NEW g \in [LicenseIds -> Nat], g[l] = f[l] + k,
         \A m \in L \ {l} : g[m] = f[m]
  PROVE  Cardinality(Numbered(g, L)) = Cardinality(Numbered(f, L)) + k
<1>. DEFINE M == L \ {l}
<1>1. M \in SUBSET LicenseIds /\ l \in LicenseIds \ M /\ M \cup {l} = L
  OBVIOUS
<1>2. /\ g \in [LicenseIds -> Nat] /\ g[l] = f[l] + k
      /\ \A m \in M : g[m] = f[m] /\ f[m] <= n
  OBVIOUS
<1>3. Cardinality(Numbered(f, M)) \in Nat
  BY <1>1, <1>2, NumberedFinite
<1>. HIDE DEF M
<1>4. Cardinality(Numbered(g, L)) = Cardinality(Numbered(f, M)) + g[l]
  BY <1>1, <1>2, SlotsAdded
<1>5. Cardinality(Numbered(f, L)) = Cardinality(Numbered(f, M)) + f[l]
  BY <1>1, <1>2, SlotsAdded
<1>. QED
  BY <1>2, <1>3, <1>4, <1>5

-----------------------------------------------------------------------------
(* A deleted license comes back neither as it was nor under another order. *)
LEMMA NextGone == IInv /\ SlotsInv /\ [Next]_vars => GoneWasVoided'
<1>. SUFFICES ASSUME IInv, GoneWasVoided, [Next]_vars PROVE GoneWasVoided'
  BY DEF SlotsInv
<1>. USE DEF IInv, TypeOK, TablesOK, RequestsOK, license, LicensesOf, GoneWasVoided
<1>1. ASSUME NEW w \in Workers, Step(w) \/ Fail(w) PROVE GoneWasVoided'
  <2>1. CASE ReadOrder(w)
    BY <2>1 DEF ReadOrder
  <2>2. CASE InsertOrder(w)
    BY <2>2 DEF InsertOrder
  <2>3. CASE FulfillStub(w)
    BY <2>3 DEF FulfillStub
  <2>4. CASE PickLicense(w)
    BY <2>4 DEF PickLicense
  <2>5. CASE Commit(w)
    BY <2>5 DEF Commit
  <2>6. CASE ReadForRefund(w)
    BY <2>6 DEF ReadForRefund
  <2>7. CASE InsertRefundStub(w)
    BY <2>7 DEF InsertRefundStub
  <2>8. CASE RevokeByOrder(w)
    BY <2>8 DEF RevokeByOrder
  <2>9. CASE Fail(w)
    BY <2>9 DEF Fail
  <2>. QED
    BY <1>1, <2>1, <2>2, <2>3, <2>4, <2>5, <2>6, <2>7, <2>8, <2>9 DEF Step
<1>2. ASSUME NEW w \in Workers, NEW e \in Events, Receive(w, e) PROVE GoneWasVoided'
  BY <1>2 DEF Receive
<1>3. ASSUME NEW e \in Events, Ignore(e) PROVE GoneWasVoided'
  BY <1>3 DEF Ignore
<1>4. ASSUME NEW s \in Sessions, Pay(s) \/ Refund(s) PROVE GoneWasVoided'
  BY <1>4 DEF Pay, Refund
<1>5. ASSUME NEW s \in Sessions, VoidOrder(s) PROVE GoneWasVoided'
  BY <1>5 DEF VoidOrder
<1>6. ASSUME NEW s \in Sessions, NEW l \in LicenseIds, IssueLicense(s, l) PROVE GoneWasVoided'
  BY <1>6 DEF IssueLicense
<1>7. ASSUME NEW l \in LicenseIds, UnrevokeLicense(l) PROVE GoneWasVoided'
  BY <1>7 DEF UnrevokeLicense
<1>8. CASE UNCHANGED vars
  BY <1>8 DEF vars
<1>. QED
  BY <1>1, <1>2, <1>3, <1>4, <1>5, <1>6, <1>7, <1>8 DEF Next

(* A license found for a top-up keeps its order, and so its customer.      *)
LEMMA NextTarget == IInv /\ SlotsInv /\ [Next]_vars => TargetIsBuyers'
<1>. SUFFICES ASSUME IInv, TargetIsBuyers, [Next]_vars PROVE TargetIsBuyers'
  BY DEF SlotsInv
<1>. USE NoneAssumption
     DEF IInv, TypeOK, TablesOK, RequestsOK, Goto, Leave, Answer, Refuse, Session,
         license, events, locals, LicensesOf, LicensesOfCustomer, TargetIsBuyers
<1>1. ASSUME NEW w \in Workers, Step(w) \/ Fail(w) PROVE TargetIsBuyers'
  <2>1. CASE ReadOrder(w)
    BY <2>1 DEF ReadOrder
  <2>2. CASE InsertOrder(w)
    BY <2>2 DEF InsertOrder
  <2>3. CASE FulfillStub(w)
    BY <2>3 DEF FulfillStub
  <2>4. CASE PickLicense(w)
    BY <2>4 DEF PickLicense
  <2>5. CASE Commit(w)
    BY <2>5 DEF Commit
  <2>6. CASE ReadForRefund(w)
    BY <2>6 DEF ReadForRefund
  <2>7. CASE InsertRefundStub(w)
    BY <2>7 DEF InsertRefundStub
  <2>8. CASE RevokeByOrder(w)
    BY <2>8 DEF RevokeByOrder
  <2>9. CASE Fail(w)
    BY <2>9 DEF Fail
  <2>. QED
    BY <1>1, <2>1, <2>2, <2>3, <2>4, <2>5, <2>6, <2>7, <2>8, <2>9 DEF Step
<1>2. ASSUME NEW w \in Workers, NEW e \in Events, Receive(w, e) PROVE TargetIsBuyers'
  BY <1>2 DEF Receive
<1>3. ASSUME NEW e \in Events, Ignore(e) PROVE TargetIsBuyers'
  BY <1>3 DEF Ignore
<1>4. ASSUME NEW s \in Sessions, Pay(s) \/ Refund(s) PROVE TargetIsBuyers'
  BY <1>4 DEF Pay, Refund
<1>5. ASSUME NEW s \in Sessions, VoidOrder(s) PROVE TargetIsBuyers'
  BY <1>5 DEF VoidOrder
<1>6. ASSUME NEW s \in Sessions, NEW l \in LicenseIds, IssueLicense(s, l) PROVE TargetIsBuyers'
  BY <1>6 DEF IssueLicense
<1>7. ASSUME NEW l \in LicenseIds, UnrevokeLicense(l) PROVE TargetIsBuyers'
  BY <1>7 DEF UnrevokeLicense
<1>8. CASE UNCHANGED vars
  BY <1>8 DEF vars
<1>. QED
  BY <1>1, <1>2, <1>3, <1>4, <1>5, <1>6, <1>7, <1>8 DEF Next

(* A step adds at most one order, and slots within the bound.              *)
LEMMA NextCountable == IInv /\ SlotsInv /\ [Next]_vars => Countable'
<1>. SUFFICES ASSUME IInv, Countable, [Next]_vars PROVE Countable'
  BY DEF SlotsInv
<1>. DEFINE Orders == {s \in Sessions : order[s] = "order"}
            Bounded == \A l \in LicenseIds : slots[l] <= Slots + MaxSlots
            Few == \E s \in Sessions : \A t \in Sessions \ {s} :
                      order'[t] = "order" => order[t] = "order"
<1>. Bounded /\ Slots \in Nat /\ MaxSlots \in Nat
  BY SlotsAssumption, BoundsAssumption DEF Countable
<1>. HIDE DEF Few, Bounded
<1>c. (Bounded' /\ Few) \/ (Bounded' /\ order' = order)
  <2>. USE DEF IInv, TypeOK, TablesOK, RequestsOK, license
  <2>1. ASSUME NEW w \in Workers, Step(w) \/ Fail(w), order' # order \/ slots' # slots
        PROVE  Bounded' /\ Few
    <3>1. CASE Commit(w)
      <4>1. Session(w) \in Sessions
        BY <3>1, OwnSession DEF Commit
      <4>2. Few
        BY <3>1, <4>1 DEF Commit, Few
      <4>3. CASE target[w] = None
        BY <3>1, <4>2, <4>3 DEF Commit, Bounded
      <4>4. CASE target[w] # None
        BY <3>1, <4>2, <4>4 DEF Commit, Bounded
      <4>. QED
        BY <4>3, <4>4
    <3>2. CASE InsertRefundStub(w)
      <4>1. Session(w) \in Sessions
        BY <3>2, OwnSession DEF InsertRefundStub
      <4>. QED
        BY <3>2, <4>1 DEF InsertRefundStub, Bounded, Few
    <3>. QED
      BY <2>1, <3>1, <3>2
      DEF Step, Fail, ReadOrder, InsertOrder, FulfillStub, PickLicense, ReadForRefund,
          RevokeByOrder
  <2>2. ASSUME NEW s \in Sessions, VoidOrder(s) PROVE Bounded' /\ Few
    BY <2>2 DEF VoidOrder, Bounded, Few
  <2>3. ASSUME NEW s \in Sessions, NEW l \in LicenseIds, IssueLicense(s, l)
        PROVE  Bounded' /\ Few
    BY <2>3 DEF IssueLicense, Bounded, Few
  <2>4. CASE order' = order /\ slots' = slots
    BY <2>4 DEF Bounded
  <2>. QED
    BY <2>1, <2>2, <2>3, <2>4
    DEF Next, Receive, Ignore, Pay, Refund, UnrevokeLicense, vars
<1>1. Bounded'
  BY <1>c
<1>2. IsFiniteSet(Orders')
  <2>1. CASE order' = order
    BY <2>1 DEF Countable
  <2>2. CASE Few
    <3>1. PICK s \in Sessions : Orders' \subseteq Orders \cup {s}
      BY <2>2 DEF Few
    <3>2. IsFiniteSet(Orders \cup {s})
      BY FS_AddElement DEF Countable
    <3>. QED
      BY <3>1, <3>2, FS_Subset
  <2>. QED
    BY <1>c, <2>1, <2>2
<1>. QED
  BY <1>1, <1>2 DEF Countable, Bounded

-----------------------------------------------------------------------------
Held(c) == SlotsIn(LicensesOfCustomer(c))

Matches(c) == PlainCustomer(c) => Held(c) = Slots * Cardinality(OrdersOf(c))

LEMMA HeldIsNumbered ==
  ASSUME NEW c
  PROVE  /\ Held(c) = Cardinality(Numbered(slots, LicensesOfCustomer(c)))
         /\ Held(c)' = Cardinality(Numbered(slots', LicensesOfCustomer(c)'))
BY DEF Held, SlotsIn, SlotsOf, Numbered

LEMMA HeldIsNat ==
  ASSUME TypeOK, Countable, NEW c
  PROVE  Held(c) \in Nat
<1>1. Slots + MaxSlots \in Nat
  BY SlotsAssumption, BoundsAssumption
<1>2. LicensesOfCustomer(c) \in SUBSET LicenseIds /\ slots \in [LicenseIds -> Nat]
  BY DEF TypeOK, TablesOK, LicensesOfCustomer
<1>. QED
  BY <1>1, <1>2, NumberedFinite, HeldIsNumbered DEF Countable

(* A step that is not about the customer.                                  *)
LEMMA Undisturbed ==
  ASSUME NEW c, Matches(c), PlainCustomer(c)' => PlainCustomer(c),
         LicensesOfCustomer(c)' = LicensesOfCustomer(c),
         \A l \in LicensesOfCustomer(c) : slots'[l] = slots[l],
         OrdersOf(c)' = OrdersOf(c)
  PROVE  Matches(c)'
<1>1. Numbered(slots', LicensesOfCustomer(c)) = Numbered(slots, LicensesOfCustomer(c))
  BY SlotsKept
<1>2. Held(c)' = Held(c)
  BY <1>1, HeldIsNumbered
<1>. QED
  BY <1>2 DEF Matches

(* One more order and its slots.                                           *)
LEMMA Purchase ==
  ASSUME TypeOK, Countable, NEW s \in Sessions, order[s] = "none",
         order' = [order EXCEPT ![s] = "order"], ver' = ver,
         Matches(Buyer[s]), Held(Buyer[s])' = Held(Buyer[s]) + Slots
  PROVE  Matches(Buyer[s])'
<1>. DEFINE c == Buyer[s]
<1>1. OrdersOf(c)' = OrdersOf(c) \cup {s} /\ s \notin OrdersOf(c)
  BY DEF OrdersOf, TypeOK, TablesOK
<1>2. PlainCustomer(c)' => PlainCustomer(c)
  BY DEF PlainCustomer, TypeOK, TablesOK
<1>3. IsFiniteSet(OrdersOf(c)) /\ Cardinality(OrdersOf(c)) \in Nat
  <2>1. OrdersOf(c) \subseteq {t \in Sessions : order[t] = "order"}
    BY DEF OrdersOf
  <2>2. IsFiniteSet({t \in Sessions : order[t] = "order"})
    BY DEF Countable
  <2>3. IsFiniteSet(OrdersOf(c))
    BY <2>1, <2>2, FS_Subset
  <2>. QED
    BY <2>3, FS_CardinalityType
<1>4. Cardinality(OrdersOf(c) \cup {s}) = Cardinality(OrdersOf(c)) + 1
  BY <1>1, <1>3, FS_AddElement
<1>5. \A n \in Nat : Slots * (n + 1) = Slots * n + Slots
  BY SlotsAssumption
<1>6. Slots * Cardinality(OrdersOf(c))' = Slots * Cardinality(OrdersOf(c)) + Slots
  BY <1>1, <1>3, <1>4, <1>5
<1>. QED
  BY <1>2, <1>6 DEF Matches

(* A new license has Slots slots and its order's buyer for a customer.     *)
LEMMA LicenseAdds ==
  ASSUME TypeOK, TypeOK', Countable, NEW s \in Sessions, NEW l \in LicenseIds \ live,
         live' = live \cup {l}, orderOf' = [orderOf EXCEPT ![l] = s],
         slots' = [slots EXCEPT ![l] = Slots]
  PROVE  /\ Held(Buyer[s])' = Held(Buyer[s]) + Slots
         /\ \A c : c # Buyer[s] =>
              /\ LicensesOfCustomer(c)' = LicensesOfCustomer(c)
              /\ \A m \in LicensesOfCustomer(c) : slots'[m] = slots[m]
<1>. DEFINE L == LicensesOfCustomer(Buyer[s])
<1>1. /\ L \in SUBSET LicenseIds /\ l \in LicenseIds \ L
      /\ L' = L \cup {l}
  BY DEF LicensesOfCustomer, TypeOK, TablesOK
<1>2. /\ slots \in [LicenseIds -> Nat] /\ slots' \in [LicenseIds -> Nat]
      /\ slots'[l] = Slots /\ Slots + MaxSlots \in Nat
      /\ \A m \in L : slots'[m] = slots[m] /\ slots[m] <= Slots + MaxSlots
  BY <1>1, SlotsAssumption, BoundsAssumption DEF TypeOK, TablesOK, Countable
<1>3. Cardinality(Numbered(slots', L \cup {l})) = Cardinality(Numbered(slots, L)) + slots'[l]
  <2>1. PICK M, f, g, n : M = L /\ f = slots /\ g = slots' /\ n = Slots + MaxSlots
    OBVIOUS
  <2>. HIDE DEF L
  <2>2. /\ M \in SUBSET LicenseIds /\ l \in LicenseIds \ M /\ n \in Nat
        /\ f \in [LicenseIds -> Nat] /\ g \in [LicenseIds -> Nat]
        /\ \A m \in M : g[m] = f[m] /\ f[m] <= n
    BY <1>1, <1>2, <2>1
  <2>3. Cardinality(Numbered(g, M \cup {l})) = Cardinality(Numbered(f, M)) + g[l]
    BY <2>2, SlotsAdded
  <2>. QED
    BY <2>1, <2>3
<1>4. Held(Buyer[s])' = Held(Buyer[s]) + Slots
  BY <1>1, <1>2, <1>3, HeldIsNumbered
<1>5. ASSUME NEW c, c # Buyer[s]
      PROVE  /\ LicensesOfCustomer(c)' = LicensesOfCustomer(c)
             /\ \A m \in LicensesOfCustomer(c) : slots'[m] = slots[m]
  BY <1>5 DEF LicensesOfCustomer, TypeOK, TablesOK
<1>. QED
  BY <1>4, <1>5

(* A top-up adds Slots slots to a license of the customer.                 *)
LEMMA TopUpAdds ==
  ASSUME TypeOK, Countable, NEW l, l \in live, live' = live, orderOf' = orderOf,
         slots' \in [LicenseIds -> Nat], slots'[l] = slots[l] + Slots,
         \A m \in LicenseIds \ {l} : slots'[m] = slots[m],
         NEW d, Buyer[orderOf[l]] = d
  PROVE  /\ Held(d)' = Held(d) + Slots
         /\ \A c : LicensesOfCustomer(c)' = LicensesOfCustomer(c)
         /\ \A c : c # d => \A m \in LicensesOfCustomer(c) : slots'[m] = slots[m]
<1>. DEFINE L == LicensesOfCustomer(d)
<1>1. \A c : LicensesOfCustomer(c)' = LicensesOfCustomer(c)
  BY DEF LicensesOfCustomer
<1>2. /\ L \in SUBSET LicenseIds /\ l \in L
      /\ slots \in [LicenseIds -> Nat] /\ Slots \in Nat /\ Slots + MaxSlots \in Nat
      /\ \A m \in L : slots[m] <= Slots + MaxSlots
  BY SlotsAssumption, BoundsAssumption DEF LicensesOfCustomer, TypeOK, TablesOK, Countable
<1>3. Cardinality(Numbered(slots', L)) = Cardinality(Numbered(slots, L)) + Slots
  <2>1. PICK M, f, g, n : M = L /\ f = slots /\ g = slots' /\ n = Slots + MaxSlots
    OBVIOUS
  <2>. HIDE DEF L
  <2>2. /\ M \in SUBSET LicenseIds /\ l \in M /\ n \in Nat /\ Slots \in Nat
        /\ f \in [LicenseIds -> Nat] /\ \A m \in M : f[m] <= n
        /\ g \in [LicenseIds -> Nat] /\ g[l] = f[l] + Slots
        /\ \A m \in M \ {l} : g[m] = f[m]
    BY <1>2, <2>1
  <2>3. Cardinality(Numbered(g, M)) = Cardinality(Numbered(f, M)) + Slots
    BY <2>2, SlotsTopped
  <2>. QED
    BY <2>1, <2>3
<1>4. Held(d)' = Held(d) + Slots
  BY <1>1, <1>3, HeldIsNumbered
<1>5. \A c : c # d => \A m \in LicensesOfCustomer(c) : slots'[m] = slots[m]
  BY DEF LicensesOfCustomer, TypeOK, TablesOK
<1>. QED
  BY <1>1, <1>4, <1>5

(* The commit of an order, as a license or a top-up; where it fills a stub *)
(* or tops up what an admin has voided, the customer is no plain one.      *)
LEMMA CommitMatches ==
  ASSUME IInv, TypeOK', SlotsInv, NEW w \in Workers, Commit(w), NEW c \in Customers
  PROVE  Matches(c)'
<1>1. PICK s \in Sessions : s = Session(w)
  BY OwnSession DEF IInv, Commit
<1>2. PICK l : l = target[w]
  OBVIOUS
<1>3. /\ TypeOK /\ Countable /\ Matches(c) /\ ver' = ver
      /\ saw[w] \in {"none", "refunded"} /\ (saw[w] = "none" => order[s] = "none")
  BY <1>1 DEF IInv, SlotsInv, SlotsMatchOrders, Matches, Held, Commit, TypeOK, RequestsOK,
              RowAsSeen, InTx
<1>4. saw[w] = "none" => order' = [order EXCEPT ![s] = "order"]
  BY <1>1 DEF Commit
<1>5. CASE Buyer[s] = c /\ saw[w] = "refunded"
  BY <1>1, <1>3, <1>5 DEF Commit, Matches, PlainCustomer, TypeOK, TablesOK
<1>6. ASSUME Buyer[s] # c
      PROVE  OrdersOf(c)' = OrdersOf(c) /\ (PlainCustomer(c)' => PlainCustomer(c))
  BY <1>1, <1>3, <1>6 DEF Commit, OrdersOf, PlainCustomer, TypeOK, TablesOK
<1>7. CASE l = None
  <2>1. PICK m \in LicenseIds \ live :
           /\ live' = live \cup {m} /\ orderOf' = [orderOf EXCEPT ![m] = s]
           /\ slots' = [slots EXCEPT ![m] = Slots]
    BY <1>1, <1>2, <1>7 DEF Commit
  <2>2. /\ Held(Buyer[s])' = Held(Buyer[s]) + Slots
        /\ c # Buyer[s] => /\ LicensesOfCustomer(c)' = LicensesOfCustomer(c)
                           /\ \A k \in LicensesOfCustomer(c) : slots'[k] = slots[k]
    BY <1>3, <2>1, LicenseAdds
  <2>3. CASE Buyer[s] # c
    BY <1>3, <1>6, <2>2, <2>3, Undisturbed
  <2>4. CASE Buyer[s] = c /\ saw[w] = "none"
    BY <1>3, <1>4, <2>2, <2>4, Purchase
  <2>. QED
    BY <1>3, <1>5, <2>3, <2>4
<1>8. CASE l # None /\ l \in live
  <2>1. /\ live' = live /\ orderOf' = orderOf /\ Buyer[orderOf[l]] = Buyer[s]
        /\ slots' = [slots EXCEPT ![l] = slots[l] + Slots]
    BY <1>1, <1>2, <1>8 DEF Commit, SlotsInv, TargetIsBuyers
  <2>2. /\ Held(Buyer[s])' = Held(Buyer[s]) + Slots
        /\ LicensesOfCustomer(c)' = LicensesOfCustomer(c)
        /\ c # Buyer[s] => \A k \in LicensesOfCustomer(c) : slots'[k] = slots[k]
    <3>1. PICK d : d = Buyer[s]
      OBVIOUS
    <3>2. /\ slots' \in [LicenseIds -> Nat] /\ slots'[l] = slots[l] + Slots
          /\ \A m \in LicenseIds \ {l} : slots'[m] = slots[m]
      BY <1>3, <1>8, <2>1, SlotsAssumption DEF TypeOK, TablesOK
    <3>3. /\ Held(d)' = Held(d) + Slots
          /\ LicensesOfCustomer(c)' = LicensesOfCustomer(c)
          /\ c # d => \A k \in LicensesOfCustomer(c) : slots'[k] = slots[k]
      BY <1>3, <1>8, <2>1, <3>1, <3>2, TopUpAdds
    <3>. QED
      BY <3>1, <3>3
  <2>3. CASE Buyer[s] # c
    BY <1>3, <1>6, <2>2, <2>3, Undisturbed
  <2>4. CASE Buyer[s] = c /\ saw[w] = "none"
    BY <1>3, <1>4, <2>2, <2>4, Purchase
  <2>. QED
    BY <1>3, <1>5, <2>3, <2>4
<1>9. CASE l # None /\ l \notin live
  <2>1. live' = live /\ orderOf' = orderOf /\ slots' = slots
    BY <1>2, <1>9 DEF Commit
  <2>2. LicensesOfCustomer(c)' = LicensesOfCustomer(c)
    BY <2>1 DEF LicensesOfCustomer
  <2>3. CASE Buyer[s] # c
    BY <1>3, <1>6, <2>1, <2>2, <2>3, Undisturbed
  <2>4. CASE Buyer[s] = c
    <3>1. l \in gone /\ Buyer[orderOf[l]] = c
      BY <1>1, <1>2, <1>9, <2>4 DEF SlotsInv, TargetIsBuyers
    <3>2. orderOf[l] \in Sessions /\ ver[orderOf[l]] > 0
      BY <1>3, <3>1 DEF SlotsInv, GoneWasVoided, TypeOK, TablesOK
    <3>3. orderOf' = orderOf /\ ver' = ver
      BY <1>3, <2>1
    <3>. QED
      BY <3>1, <3>2, <3>3 DEF Matches, PlainCustomer
  <2>. QED
    BY <2>3, <2>4
<1>. QED
  BY <1>7, <1>8, <1>9

LEMMA NextSlotsMatch == IInv /\ SlotsInv /\ [Next]_vars => SlotsMatchOrders'
<1>. SUFFICES ASSUME IInv, SlotsInv, [Next]_vars, NEW c \in Customers PROVE Matches(c)'
  BY DEF SlotsMatchOrders, Matches, Held
<1>1. Matches(c) /\ TypeOK /\ Countable
  BY DEF SlotsInv, SlotsMatchOrders, Matches, Held, IInv
<1>2. TypeOK'
  BY NextIInv DEF IInv
<1>3. ASSUME /\ live' = live /\ orderOf' = orderOf /\ slots' = slots /\ ver' = ver
             /\ \A s \in Sessions : order'[s] = order[s]
                    \/ {order[s], order'[s]} \cap {"order", "filled"} = {}
      PROVE  Matches(c)'
  <2>1. LicensesOfCustomer(c)' = LicensesOfCustomer(c)
    BY <1>3 DEF LicensesOfCustomer
  <2>2. PlainCustomer(c)' => PlainCustomer(c)
    BY <1>3 DEF PlainCustomer
  <2>3. OrdersOf(c)' = OrdersOf(c)
    BY <1>3 DEF OrdersOf
  <2>. QED
    BY <1>1, <1>3, <2>1, <2>2, <2>3, Undisturbed
<1>4. ASSUME NEW w \in Workers, Step(w) \/ Fail(w) PROVE Matches(c)'
  <2>1. CASE Commit(w)
    BY <1>2, <2>1, CommitMatches
  <2>2. CASE InsertRefundStub(w)
    <3>1. Session(w) \in Sessions
      BY <2>2, OwnSession DEF InsertRefundStub, IInv
    <3>. QED
      BY <1>1, <1>3, <2>2, <3>1 DEF InsertRefundStub, TypeOK, TablesOK, license
  <2>. QED
    BY <1>3, <1>4, <2>1, <2>2
    DEF Step, Fail, ReadOrder, InsertOrder, FulfillStub, PickLicense, ReadForRefund,
        RevokeByOrder, license
<1>5. ASSUME NEW s \in Sessions, VoidOrder(s) PROVE Matches(c)'
  <2>1. ver'[s] > 0 /\ orderOf' = orderOf
    BY <1>1, <1>5 DEF VoidOrder, TypeOK, TablesOK
  <2>2. CASE Buyer[s] = c
    BY <2>1, <2>2 DEF Matches, PlainCustomer
  <2>3. CASE Buyer[s] # c
    <3>1. LicensesOfCustomer(c)' = LicensesOfCustomer(c)
      BY <1>5, <2>1, <2>3 DEF VoidOrder, LicensesOfCustomer, LicensesOf
    <3>2. \A l \in LicensesOfCustomer(c) : slots'[l] = slots[l]
      BY <1>1, <1>5, <2>3 DEF VoidOrder, LicensesOfCustomer, LicensesOf, TypeOK, TablesOK
    <3>3. OrdersOf(c)' = OrdersOf(c) /\ (PlainCustomer(c)' => PlainCustomer(c))
      BY <1>1, <1>5, <2>3 DEF VoidOrder, OrdersOf, PlainCustomer, TypeOK, TablesOK
    <3>. QED
      BY <1>1, <3>1, <3>2, <3>3, Undisturbed
  <2>. QED
    BY <2>2, <2>3
<1>6. ASSUME NEW s \in Sessions, NEW l \in LicenseIds, IssueLicense(s, l) PROVE Matches(c)'
  <2>1. /\ order[s] = "none" /\ order' = [order EXCEPT ![s] = "order"] /\ ver' = ver
        /\ l \in LicenseIds \ live /\ live' = live \cup {l}
        /\ orderOf' = [orderOf EXCEPT ![l] = s] /\ slots' = [slots EXCEPT ![l] = Slots]
    BY <1>6 DEF IssueLicense
  <2>2. CASE Buyer[s] = c
    <3>1. Held(Buyer[s])' = Held(Buyer[s]) + Slots
      BY <1>1, <1>2, <2>1, LicenseAdds
    <3>. QED
      BY <1>1, <2>1, <2>2, <3>1, Purchase
  <2>3. CASE Buyer[s] # c
    <3>1. OrdersOf(c)' = OrdersOf(c) /\ (PlainCustomer(c)' => PlainCustomer(c))
      BY <1>1, <2>1, <2>3 DEF OrdersOf, PlainCustomer, TypeOK, TablesOK
    <3>. QED
      BY <1>1, <1>2, <2>1, <2>3, <3>1, LicenseAdds, Undisturbed
  <2>. QED
    BY <2>2, <2>3
<1>. QED
  BY <1>3, <1>4, <1>5, <1>6
  DEF Next, Receive, Ignore, Pay, Refund, UnrevokeLicense, vars, license

LEMMA InitSlots == Init => SlotsInv
<1>. SUFFICES ASSUME Init PROVE SlotsInv
  OBVIOUS
<1>1. {s \in Sessions : order[s] = "order"} = {}
  BY DEF Init
<1>2. \A c : OrdersOf(c) = {} /\ SlotsOf(LicensesOfCustomer(c)) = {}
  BY DEF Init, OrdersOf, SlotsOf, LicensesOfCustomer
<1>3. IsFiniteSet({}) /\ Cardinality({}) = 0 /\ Slots * 0 = 0
  BY FS_EmptySet, SlotsAssumption
<1>4. SlotsMatchOrders
  BY <1>2, <1>3 DEF SlotsMatchOrders, SlotsIn
<1>5. GoneWasVoided /\ TargetIsBuyers
  BY DEF Init, GoneWasVoided, TargetIsBuyers
<1>6. Countable
  <2>1. \A l \in LicenseIds : slots[l] <= Slots + MaxSlots
    BY SlotsAssumption, BoundsAssumption DEF Init
  <2>. QED
    BY <1>1, <1>3, <2>1 DEF Countable
<1>. QED
  BY <1>4, <1>5, <1>6 DEF SlotsInv

(* A plain customer has as many slots as the customer's orders come to:    *)
(* none is lost to a race of top-ups, none is given twice for an event     *)
(* that is delivered twice.                                                *)
THEOREM SlotsPaidFor == Spec => []SlotsMatchOrders
<1>1. IInv /\ SlotsInv /\ [Next]_vars => SlotsInv'
  BY NextGone, NextTarget, NextCountable, NextSlotsMatch DEF SlotsInv
<1>2. SlotsInv => SlotsMatchOrders
  BY DEF SlotsInv
<1>. QED
  BY <1>1, <1>2, InitSlots, Invariance, PTL DEF Spec

-----------------------------------------------------------------------------
(* The handlers implement OrderLedger.                                     *)

(* What changes nothing the ledger knows of.                               *)
LEMMA OutOfLedger ==
  ASSUME UNCHANGED <<order, ver, license, answered>>
  PROVE  UNCHANGED Ledger!ledgerVars
BY DEF license, Ledger!ledgerVars, Ledger!licenses

(* Answering, a handler names its own event.                               *)
LEMMA AnswersOwn ==
  ASSUME TypeOK, JobMatchesStep, NEW w \in Workers, pc[w] # "idle", Answer(w)
  PROVE  /\ Session(w) \in Sessions
         /\ pc[w] \in OrderSteps => Ledger!Answer("order", Session(w))
         /\ pc[w] \notin OrderSteps => Ledger!Answer("refund", Session(w))
BY OwnSession DEF JobMatchesStep, Answer, Ledger!Answer

(* The commit gives what the ledger gives.                                 *)
LEMMA CommitGives ==
  ASSUME IInv, SlotsInv, NEW w \in Workers, Commit(w)
  PROVE  Ledger!Give(Session(w))
<1>1. CASE target[w] = None
  BY <1>1 DEF Commit, Ledger!Give, Ledger!NewLicense
<1>2. CASE target[w] # None
  <2>1. PICK l \in live \cup gone : l = target[w] /\ Buyer[orderOf[l]] = Buyer[Session(w)]
    BY <1>2 DEF SlotsInv, TargetIsBuyers
  <2>2. UNCHANGED <<live, orderOf>> /\ l # None
    BY <1>2, <2>1 DEF Commit
  <2>3. CASE l \in live
    <3>1. slots' = [slots EXCEPT ![l] = @ + Slots]
      BY <2>1, <2>2, <2>3 DEF Commit
    <3>. QED
      BY <2>1, <2>2, <2>3, <3>1 DEF Ledger!Give, Ledger!TopUp
  <2>4. CASE l \in gone \ live
    <3>1. slots' = slots
      BY <2>1, <2>2, <2>4 DEF Commit
    <3>. QED
      BY <2>1, <2>2, <2>4, <3>1 DEF Ledger!Give, Ledger!TopUpInVain
  <2>. QED
    BY <2>1, <2>3, <2>4
<1>. QED
  BY <1>1, <1>2

(* Nobody changed the row since the transaction wrote it, so the moment of *)
(* the commit is the moment of the look-up too.                            *)
LEMMA CommitIsFulfil ==
  ASSUME IInv, SlotsInv, NEW w \in Workers, Commit(w)
  PROVE  Session(w) \in Sessions /\ (Ledger!Fulfil(Session(w)) \/ Ledger!FulfilRefunded(Session(w)))
<1>. DEFINE s == Session(w)
<1>1. Ledger!Give(s)
  BY CommitGives
<1>2. pc[w] = "commit" /\ pc[w] \in InTx /\ pc[w] \in OrderSteps
  BY DEF Commit, InTx, OrderSteps
<1>3. s \in Sessions /\ Ledger!Answer("order", s)
  BY <1>2, AnswersOwn DEF Commit, IInv
<1>4. CASE saw[w] = "refunded"
  <2>1. order[s] \in {"stub", "filled"}
    BY <1>2, <1>4 DEF IInv, RowAsSeen, Refunded
  <2>2. /\ order' = [order EXCEPT ![s] = "filled"]
        /\ revoked' = revoked \cup {l \in live' : orderOf'[l] = s}
        /\ UNCHANGED <<ver, gone>>
    BY <1>4 DEF Commit
  <2>. QED
    BY <1>1, <1>3, <2>1, <2>2 DEF Ledger!FulfilRefunded
<1>5. CASE saw[w] # "refunded"
  <2>1. saw[w] = "none"
    BY <1>5 DEF IInv, TypeOK, RequestsOK
  <2>2. order[s] = "none"
    BY <1>2, <2>1 DEF IInv, RowAsSeen
  <2>3. order' = [order EXCEPT ![s] = "order"] /\ UNCHANGED <<ver, gone, revoked>>
    BY <1>5 DEF Commit
  <2>. QED
    BY <1>1, <1>3, <2>2, <2>3 DEF Ledger!Fulfil
<1>. QED
  BY <1>4, <1>5

LEMMA RefundIsRefund ==
  ASSUME IInv, NEW w \in Workers,
         ReadForRefund(w) \/ InsertRefundStub(w) \/ RevokeByOrder(w)
  PROVE  \/ \E s \in Sessions :
               Ledger!RefundOrder(s) \/ Ledger!RefundFirst(s) \/ Ledger!RefundOfNothing(s)
         \/ UNCHANGED <<order, ver, license, answered>>
<1>. DEFINE s == Session(w)
<1>1. pc[w] # "idle" /\ pc[w] \notin OrderSteps
  BY DEF ReadForRefund, InsertRefundStub, RevokeByOrder, OrderSteps, InTx
<1>2. s \in Sessions /\ (Answer(w) => Ledger!Answer("refund", s))
  BY <1>1, OwnSession, AnswersOwn DEF IInv
<1>3. CASE ~ Answer(w)
  BY <1>3 DEF ReadForRefund, InsertRefundStub, RevokeByOrder, Refuse, events, license
<1>4. CASE Answer(w) /\ ReadForRefund(w)
  <2>1. UNCHANGED <<order, ver, license>>
    BY <1>4 DEF ReadForRefund
  <2>2. CASE order[s] \in Refunded
    BY <1>2, <1>4, <2>1, <2>2 DEF Ledger!RefundOfNothing, Ledger!licenses, license, Refunded
  <2>3. CASE order[s] \notin Refunded
    BY <1>4, <2>1, <2>3 DEF ReadForRefund, events
  <2>. QED
    BY <2>2, <2>3
<1>5. CASE Answer(w) /\ InsertRefundStub(w)
  <2>1. CASE order[s] = "none"
    BY <1>2, <1>5, <2>1 DEF InsertRefundStub, Ledger!RefundFirst, Ledger!licenses, license
  <2>2. CASE order[s] # "none"
    BY <1>5, <2>2 DEF InsertRefundStub, Refuse, events, license
  <2>. QED
    BY <2>1, <2>2
<1>6. CASE Answer(w) /\ RevokeByOrder(w)
  <2>1. /\ revoked' = revoked \cup (IF sawVer[w] = ver[s] THEN LicensesOf(s) ELSE {})
        /\ UNCHANGED <<order, ver, live, gone, orderOf, slots>> /\ pc[w] = "revoke"
    BY <1>6 DEF RevokeByOrder
  <2>2. CASE sawVer[w] = ver[s]
    <3>1. order[s] = "order"
      BY <2>1, <2>2 DEF IInv, RevokerAsSeen
    <3>. QED
      BY <1>2, <1>6, <2>1, <2>2, <3>1 DEF Ledger!RefundOrder, Ledger!LicensesOf, LicensesOf
  <2>3. CASE sawVer[w] # ver[s]
    <3>1. sawVer[w] <= ver[s] /\ sawVer[w] \in Nat /\ ver[s] \in Nat
      BY <1>2, <2>1 DEF IInv, RevokerAsSeen, TypeOK, RequestsOK, TablesOK
    <3>2. ver[s] > 0 /\ revoked' = revoked
      BY <2>1, <2>3, <3>1
    <3>. QED
      BY <1>2, <1>6, <2>1, <3>2 DEF Ledger!RefundOfNothing, Ledger!licenses
  <2>. QED
    BY <2>2, <2>3
<1>. QED
  BY <1>3, <1>4, <1>5, <1>6

LEMMA LookUpIsDuplicate ==
  ASSUME IInv, NEW w \in Workers,
         ReadOrder(w) \/ InsertOrder(w) \/ FulfillStub(w) \/ PickLicense(w)
  PROVE  \/ \E s \in Sessions : Ledger!Duplicate(s)
         \/ UNCHANGED <<order, ver, license, answered>>
<1>. DEFINE s == Session(w)
<1>1. pc[w] # "idle" /\ pc[w] \in OrderSteps
  BY DEF ReadOrder, InsertOrder, FulfillStub, PickLicense, OrderSteps, InTx
<1>2. s \in Sessions /\ (Answer(w) => Ledger!Answer("order", s))
  BY <1>1, OwnSession, AnswersOwn DEF IInv
<1>3. UNCHANGED <<order, ver, license>>
  BY DEF ReadOrder, InsertOrder, FulfillStub, PickLicense
<1>4. answered' = answered \/ (Answer(w) /\ order[s] # "none")
  BY DEF ReadOrder, InsertOrder, FulfillStub, PickLicense, Refuse, events
<1>. QED
  BY <1>2, <1>3, <1>4 DEF Ledger!Duplicate, Ledger!licenses, license

LEMMA AdminKeepsLedger ==
  /\ \A s \in Sessions : VoidOrder(s) => Ledger!Void(s)
  /\ \A s \in Sessions, l \in LicenseIds : IssueLicense(s, l) => Ledger!Issue(s, l)
  /\ \A l \in LicenseIds : UnrevokeLicense(l) => Ledger!Unrevoke(l)
BY DEF VoidOrder, IssueLicense, UnrevokeLicense, Ledger!Void, Ledger!Issue, Ledger!Unrevoke,
       Ledger!LicensesOf, LicensesOf, events

LEMMA LedgerStep == IInv /\ SlotsInv /\ [Next]_vars => [Ledger!Next]_Ledger!ledgerVars
<1>. SUFFICES ASSUME IInv, SlotsInv, [Next]_vars
              PROVE  Ledger!Next \/ UNCHANGED Ledger!ledgerVars
  OBVIOUS
<1>1. ASSUME NEW w \in Workers, Step(w) PROVE Ledger!Next \/ UNCHANGED Ledger!ledgerVars
  <2>1. CASE Commit(w)
    BY <2>1, CommitIsFulfil DEF Ledger!Next
  <2>2. CASE ReadForRefund(w) \/ InsertRefundStub(w) \/ RevokeByOrder(w)
    BY <2>2, RefundIsRefund, OutOfLedger DEF Ledger!Next
  <2>3. CASE ReadOrder(w) \/ InsertOrder(w) \/ FulfillStub(w) \/ PickLicense(w)
    BY <2>3, LookUpIsDuplicate, OutOfLedger DEF Ledger!Next
  <2>. QED
    BY <1>1, <2>1, <2>2, <2>3 DEF Step
<1>2. ASSUME NEW s \in Sessions, \/ VoidOrder(s)
                                 \/ \E l \in LicenseIds : IssueLicense(s, l)
      PROVE  Ledger!Next
  BY <1>2, AdminKeepsLedger DEF Ledger!Next
<1>3. ASSUME NEW l \in LicenseIds, UnrevokeLicense(l) PROVE Ledger!Next
  BY <1>3, AdminKeepsLedger DEF Ledger!Next
<1>4. CASE UNCHANGED <<order, ver, license, answered>>
  BY <1>4, OutOfLedger
<1>. QED
  BY <1>1, <1>2, <1>3, <1>4
  DEF Next, Fail, Refuse, events, Receive, Ignore, Pay, Refund, vars

(* The statements of overlapping handlers, with what they looked up and    *)
(* when, amount to events that are each handled in one step.               *)
THEOREM EventsAreAtomic == Spec => HandledAtOnce
<1>1. Init => Ledger!Init
  BY DEF Init, Ledger!Init
<1>2. IInv /\ SlotsInv /\ [Next]_vars => SlotsInv'
  BY NextGone, NextTarget, NextCountable, NextSlotsMatch DEF SlotsInv
<1>. QED
  BY <1>1, <1>2, InitSlots, LedgerStep, Invariance, PTL DEF Spec, HandledAtOnce, Ledger!Spec

(* A row goes only when it is voided, and is counted then.                 *)
LEMMA LedgerKeepsRows ==
  ASSUME TypeOK, NEW s \in Sessions, [Ledger!Next]_Ledger!ledgerVars,
         order[s] # "none" \/ ver[s] > 0
  PROVE  order'[s] # "none" \/ ver'[s] > 0
<1>1. ASSUME NEW t \in Sessions, Ledger!Void(t) PROVE order'[s] # "none" \/ ver'[s] > 0
  BY <1>1 DEF Ledger!Void, TypeOK, TablesOK
<1>2. ASSUME NEW t \in Sessions, NEW x \in {"order", "filled", "stub"},
             order' = [order EXCEPT ![t] = x], ver' = ver
      PROVE  order'[s] # "none" \/ ver'[s] > 0
  BY <1>2 DEF TypeOK, TablesOK
<1>3. CASE order' = order /\ ver' = ver
  BY <1>3
<1>. QED
  BY <1>1, <1>2, <1>3
  DEF Ledger!Next, Ledger!ledgerVars, Ledger!Fulfil, Ledger!FulfilRefunded, Ledger!Duplicate,
      Ledger!RefundOrder, Ledger!RefundFirst, Ledger!RefundOfNothing, Ledger!Issue,
      Ledger!Unrevoke, Ledger!licenses

LEMMA LedgerRecords ==
  ASSUME TypeOK, [Ledger!Next]_Ledger!ledgerVars, Ledger!AnsweredIsRecorded
  PROVE  Ledger!AnsweredIsRecorded'
<1>. SUFFICES ASSUME NEW s \in Sessions, NEW type \in {"order", "refund"},
                     <<type, s>> \in answered'
              PROVE  order'[s] # "none" \/ ver'[s] > 0
  BY DEF Ledger!AnsweredIsRecorded
<1>1. CASE <<type, s>> \in answered
  BY <1>1, LedgerKeepsRows DEF Ledger!AnsweredIsRecorded
<1>2. CASE <<type, s>> \notin answered
  <2>1. PICK t \in Sessions : \/ Ledger!Fulfil(t) \/ Ledger!FulfilRefunded(t) \/ Ledger!Duplicate(t)
                             \/ Ledger!RefundOrder(t) \/ Ledger!RefundFirst(t)
                             \/ Ledger!RefundOfNothing(t)
    BY <1>2 DEF Ledger!Next, Ledger!ledgerVars, Ledger!Void, Ledger!Issue, Ledger!Unrevoke
  <2>2. t = s
    BY <1>2, <2>1 DEF Ledger!Fulfil, Ledger!FulfilRefunded, Ledger!Duplicate, Ledger!RefundOrder,
                      Ledger!RefundFirst, Ledger!RefundOfNothing, Ledger!Answer
  <2>. QED
    BY <2>1, <2>2 DEF Ledger!Fulfil, Ledger!FulfilRefunded, Ledger!Duplicate, Ledger!RefundOrder,
                      Ledger!RefundFirst, Ledger!RefundOfNothing, TypeOK, TablesOK
<1>. QED
  BY <1>1, <1>2

(* Whatever handlers looked up, met or gave up meanwhile, there is a row   *)
(* for every event that was answered 200, until it is voided.  For a       *)
(* payment it may be the stub of its refund: see LossIsRace.               *)
THEOREM NothingIsForgotten == Spec => []Ledger!AnsweredIsRecorded
<1>1. Init => Ledger!AnsweredIsRecorded
  BY DEF Init, Ledger!AnsweredIsRecorded
<1>2. IInv /\ SlotsInv /\ [Next]_vars => SlotsInv'
  BY NextGone, NextTarget, NextCountable, NextSlotsMatch DEF SlotsInv
<1>3. IInv /\ SlotsInv /\ [Next]_vars /\ Ledger!AnsweredIsRecorded
        => Ledger!AnsweredIsRecorded'
  BY LedgerStep, LedgerRecords DEF IInv
<1>. QED
  BY <1>1, <1>2, <1>3, InitSlots, Invariance, PTL DEF Spec

(* The ledger makes a stub of no row only.                                 *)
LEMMA StubIsNew ==
  ASSUME TypeOK, NEW s \in Sessions, [Ledger!Next]_Ledger!ledgerVars, order'[s] = "stub",
         ver'[s] = 0
  PROVE  /\ ver[s] = 0
         /\ \/ order[s] = "stub"
            \/ order[s] = "none" /\ (<<"order", s>> \in answered' => <<"order", s>> \in answered)
<1>1. ASSUME NEW t \in Sessions, Ledger!Void(t)
      PROVE  ver[s] = 0 /\ order[s] = "stub"
  BY <1>1 DEF Ledger!Void, TypeOK, TablesOK
<1>2. ASSUME NEW t \in Sessions, NEW x \in {"order", "filled"},
             order' = [order EXCEPT ![t] = x], ver' = ver
      PROVE  ver[s] = 0 /\ order[s] = "stub"
  BY <1>2 DEF TypeOK, TablesOK
<1>3. ASSUME NEW t \in Sessions, Ledger!RefundFirst(t)
      PROVE  /\ ver[s] = 0
             /\ \/ order[s] = "stub"
                \/ order[s] = "none" /\ (<<"order", s>> \in answered' => <<"order", s>> \in answered)
  BY <1>3 DEF Ledger!RefundFirst, Ledger!Answer, TypeOK, TablesOK
<1>4. CASE order' = order /\ ver' = ver
  BY <1>4
<1>. QED
  BY <1>1, <1>2, <1>3, <1>4
  DEF Ledger!Next, Ledger!ledgerVars, Ledger!Fulfil, Ledger!FulfilRefunded, Ledger!Duplicate,
      Ledger!RefundOrder, Ledger!RefundOfNothing, Ledger!Issue, Ledger!Unrevoke,
      Ledger!licenses

(* Only an INSERT answers a payment whose row is a stub and stays one.     *)
LEMMA StubMeetsInsert ==
  ASSUME IInv, [Next]_vars, NEW s \in Sessions, order[s] = "stub", order'[s] = "stub",
         <<"order", s>> \in answered', <<"order", s>> \notin answered
  PROVE  \E w \in Workers : pc[w] = "write" /\ saw[w] = "none" /\ Session(w) = s
<1>1. PICK w \in Workers : Step(w)
  BY DEF Next, Fail, Refuse, events, Receive, Ignore, Pay, Refund, VoidOrder, IssueLicense,
         UnrevokeLicense, vars
<1>2. pc[w] # "idle" /\ answered' = answered \cup {job[w]}
  BY <1>1 DEF Step, ReadOrder, InsertOrder, FulfillStub, PickLicense, Commit,
              ReadForRefund, InsertRefundStub, RevokeByOrder, Answer, Refuse, events
<1>3. job[w] = <<"order", s>>
  BY <1>2
<1>4. pc[w] \in OrderSteps /\ Session(w) = s
  BY <1>2, <1>3 DEF IInv, JobMatchesStep, Session
<1>5. CASE ReadOrder(w)
  BY <1>4, <1>5 DEF ReadOrder, events
<1>6. CASE InsertOrder(w)
  BY <1>4, <1>6 DEF InsertOrder
<1>7. CASE FulfillStub(w) \/ PickLicense(w)
  BY <1>7 DEF FulfillStub, PickLicense, Refuse, events
<1>8. CASE Commit(w)
  <2>1. order'[s] \in {"order", "filled"}
    BY <1>4, <1>8 DEF Commit, IInv, TypeOK, TablesOK
  <2>. QED
    BY <2>1
<1>9. CASE ReadForRefund(w) \/ InsertRefundStub(w) \/ RevokeByOrder(w)
  BY <1>4, <1>9 DEF ReadForRefund, InsertRefundStub, RevokeByOrder, OrderSteps, InTx
<1>. QED
  BY <1>1, <1>5, <1>6, <1>7, <1>8, <1>9 DEF Step

(* A payment is lost in one way only, for any number of deliveries: its    *)
(* order's delivery had found no row when its refund inserted the stub.    *)
THEOREM LossIsRace == Spec => LostInRace
<1>. DEFINE Raced == \A s \in Sessions :
                      ~ Lost(s) /\ Lost(s)' =>
                        \E w \in Workers : pc[w] = "write" /\ saw[w] = "none" /\ Session(w) = s
<1>1. Init => Ledger!AnsweredIsRecorded
  BY DEF Init, Ledger!AnsweredIsRecorded
<1>2. IInv /\ SlotsInv /\ [Next]_vars => SlotsInv'
  BY NextGone, NextTarget, NextCountable, NextSlotsMatch DEF SlotsInv
<1>3. IInv /\ SlotsInv /\ [Next]_vars /\ Ledger!AnsweredIsRecorded
        => Ledger!AnsweredIsRecorded'
  BY LedgerStep, LedgerRecords DEF IInv
<1>4. IInv /\ SlotsInv /\ [Next]_vars /\ Ledger!AnsweredIsRecorded => [Raced]_vars
  <2>. SUFFICES ASSUME IInv, SlotsInv, [Next]_vars, Ledger!AnsweredIsRecorded,
                       NEW s \in Sessions, ~ Lost(s), Lost(s)'
                PROVE  \E w \in Workers : pc[w] = "write" /\ saw[w] = "none" /\ Session(w) = s
    OBVIOUS
  <2>1. order'[s] = "stub" /\ ver'[s] = 0 /\ <<"order", s>> \in answered'
    BY DEF Lost
  <2>2. /\ ver[s] = 0
        /\ \/ order[s] = "stub"
           \/ order[s] = "none" /\ <<"order", s>> \in answered
    BY <2>1, LedgerStep, StubIsNew DEF IInv
  <2>3. order[s] = "stub"
    <3>1. <<"order", s>> \in answered => order[s] # "none" \/ ver[s] > 0
      BY DEF Ledger!AnsweredIsRecorded, IInv, TypeOK
    <3>. QED
      BY <2>2, <3>1
  <2>4. <<"order", s>> \notin answered
    BY <2>2, <2>3 DEF Lost
  <2>. QED
    BY <2>1, <2>3, <2>4, StubMeetsInsert
<1>. QED
  BY <1>1, <1>2, <1>3, <1>4, InitSlots, Invariance, PTL DEF Spec, LostInRace
=============================================================================
