--------------------------- MODULE ProvidersProofs ---------------------------
(* Proofs about Providers: the wall is a cached flag, the mock provider    *)
(* gives nothing away behind it, and Polar is asked for its own products,  *)
(* for any number of apps, products and overlapping requests.              *)
EXTENDS Providers, TLAPS

(* The requests that build a provider, and those that are at the wall.     *)
Building == {"secrets", "env", "parse", "product", "open"}
AtWall == {"upkeep", "provider"}
Passed == {"in", "mock", "minted"}

Built == [at : Building, p : Real, work : Work, key : Envs \cup {None},
          hook : Envs \cup {None}, env : Envs \cup {None}, product : Products \cup {None}]

(* A provider that is built has an environment, a checkout an app.         *)
JobOK(j) ==
  /\ j.at \in {"parse", "product", "open"} => j.env \in Envs
  /\ j.at \in {"product", "open"} => j.work.app \in Apps

Typed == TypeOK /\ \A r \in Requests : JobOK(job[r])

LEMMA JobCases ==
  ASSUME NEW j \in Job
  PROVE  /\ j.at \in Building => j \in Built
         /\ j.at \in AtWall => j.admin \in BOOLEAN
         /\ j.at \in Passed => j.pass \in Pass
<1>1. CASE j.at \in Building
  BY <1>1 DEF Job, Built, Building, AtWall, Passed
<1>2. CASE j.at \in AtWall
  BY <1>2 DEF Job, Building, AtWall, Passed
<1>3. CASE j.at \in Passed
  BY <1>3 DEF Job, Building, AtWall, Passed
<1>. QED
  BY <1>1, <1>2, <1>3

LEMMA BuiltIsJob == Built \subseteq Job
  BY DEF Built, Building, Job

LEMMA JobMade ==
  /\ Idle \in Job /\ JobOK(Idle)
  /\ \A b \in BOOLEAN : \A step \in AtWall : [at |-> step, admin |-> b] \in Job
  /\ \A x \in Pass : \A step \in Passed : [at |-> step, pass |-> x] \in Job
  /\ \A p \in Real, w \in Work : Build(p, w) \in Built
  BY DEF Idle, JobOK, Job, Built, Build, Building, AtWall, Passed

(* How a request goes on while it builds its provider.                     *)
Keyed(j, k, h) == [j EXCEPT !.at = "env", !.key = k, !.hook = h]
Routed(j, e, s) == [j EXCEPT !.env = e, !.at = s]
Known(j, x) == [j EXCEPT !.at = "open", !.product = x]
Made(j, x) == [j EXCEPT !.product = x]
Saved(j) == [j EXCEPT !.at = "open"]

LEMMA KeyedGoesOn ==
  ASSUME NEW j \in Built, NEW k \in Envs, NEW h \in Envs
  PROVE  /\ Keyed(j, k, h) \in Built /\ Keyed(j, k, h).at = "env"
         /\ Keyed(j, k, h).product = j.product
BY DEF Built, Building, Keyed

LEMMA RoutedGoesOn ==
  ASSUME NEW j \in Built, NEW e \in Envs, NEW s \in {"parse", "product", "open"}
  PROVE  /\ Routed(j, e, s) \in Built /\ Routed(j, e, s).at = s
         /\ Routed(j, e, s).env = e /\ Routed(j, e, s).work = j.work
         /\ Routed(j, e, s).product = j.product /\ Routed(j, e, s).p = j.p
BY DEF Built, Building, Routed

LEMMA KnownGoesOn ==
  ASSUME NEW j \in Built, NEW x \in Products
  PROVE  /\ Known(j, x) \in Built /\ Known(j, x).at = "open"
         /\ Known(j, x).env = j.env /\ Known(j, x).work = j.work
         /\ Known(j, x).product = x /\ Known(j, x).p = j.p
BY DEF Built, Building, Known

LEMMA MadeGoesOn ==
  ASSUME NEW j \in Built, NEW x \in Products
  PROVE  /\ Made(j, x) \in Built /\ Made(j, x).at = j.at
         /\ Made(j, x).env = j.env /\ Made(j, x).work = j.work
         /\ Made(j, x).product = x /\ Made(j, x).p = j.p
BY DEF Built, Building, Made

LEMMA SavedGoesOn ==
  ASSUME NEW j \in Built
  PROVE  /\ Saved(j) \in Built /\ Saved(j).at = "open"
         /\ Saved(j).env = j.env /\ Saved(j).work = j.work
         /\ Saved(j).product = j.product /\ Saved(j).p = j.p
BY DEF Built, Building, Saved

LEMMA PassGoesOn ==
  ASSUME NEW j \in Job, j.at \in Passed
  PROVE  \A s \in Passed : LET n == [j EXCEPT !.at = s]
                           IN  n \in Job /\ n.at = s /\ n.pass = j.pass
  BY DEF Job, Passed

LEMMA WallGoesOn ==
  ASSUME NEW j \in Job, j.at = "upkeep"
  PROVE  LET n == [j EXCEPT !.at = "provider"]
         IN  n \in Job /\ n.at = "provider" /\ n.admin = j.admin
  BY DEF Job
-----------------------------------------------------------------------------
(* What a step does to its request, action by action.                      *)

LEMMA WallJob ==
  ASSUME Typed, NEW r \in Requests,
         \/ \E admin \in BOOLEAN : Enter(r, admin)
         \/ \E fails \in BOOLEAN : ReadMaintenance(r, fails) \/ ReadProvider(r, fails)
  PROVE  \E j \in Job : Goto(r, j) /\ JobOK(j) /\ j.at \notin Building
<1>. USE JobMade DEF AtWall, Passed, Building
<1>1. job[r] \in Job
  BY DEF Typed, TypeOK
<1>2. ASSUME NEW admin \in BOOLEAN, NEW up \in BOOLEAN, NEW sure \in BOOLEAN,
             Admit(r, admin, up, sure)
      PROVE  \E j \in Job : Goto(r, j) /\ JobOK(j) /\ j.at \notin Building
  <2>1. [admin |-> admin, late |-> mockFor > TTL, sure |-> sure] \in Pass
    BY DEF Pass
  <2>. DEFINE j == [at |-> "in", pass |-> [admin |-> admin, late |-> mockFor > TTL, sure |-> sure]]
  <2>2. j \in Job /\ JobOK(j) /\ j.at = "in"
    BY <2>1 DEF JobOK
  <2>3. Goto(r, j) \/ Goto(r, Idle)
    BY <1>2 DEF Admit, Return
  <2>. HIDE DEF j
  <2>. QED
    BY <2>2, <2>3 DEF Idle
<1>3. wall.enabled \in BOOLEAN /\ wall.sure \in BOOLEAN /\ upkeep \in BOOLEAN
  BY DEF Typed, TypeOK
<1>4. ASSUME NEW admin \in BOOLEAN, Enter(r, admin)
      PROVE  \E j \in Job : Goto(r, j) /\ JobOK(j) /\ j.at \notin Building
  <2>1. CASE wall.age < TTL
    BY <1>2, <1>3, <1>4, <2>1 DEF Enter
  <2>2. CASE ~ (wall.age < TTL)
    BY <1>4, <2>2 DEF Enter, JobOK
  <2>. QED
    BY <2>1, <2>2
<1>5. ASSUME NEW fails \in BOOLEAN, ReadMaintenance(r, fails)
      PROVE  \E j \in Job : Goto(r, j) /\ JobOK(j) /\ j.at \notin Building
  <2>1. job[r].at = "upkeep" /\ job[r].admin \in BOOLEAN
    BY <1>1, <1>5, JobCases DEF ReadMaintenance, At
  <2>2. CASE ~ fails /\ upkeep
    BY <1>2, <1>5, <2>1, <2>2 DEF ReadMaintenance, Store
  <2>3. CASE ~ (~ fails /\ upkeep)
    <3>. DEFINE j == [job[r] EXCEPT !.at = "provider"]
    <3>1. Goto(r, j)
      BY <1>5, <2>3 DEF ReadMaintenance
    <3>2. j \in Job /\ j.at = "provider"
      BY <1>1, <2>1, WallGoesOn
    <3>. HIDE DEF j
    <3>. QED
      BY <3>1, <3>2 DEF JobOK
  <2>. QED
    BY <2>2, <2>3
<1>6. ASSUME NEW fails \in BOOLEAN, ReadProvider(r, fails)
      PROVE  \E j \in Job : Goto(r, j) /\ JobOK(j) /\ j.at \notin Building
  <2>1. job[r].admin \in BOOLEAN
    BY <1>1, <1>6, JobCases DEF ReadProvider, At
  <2>. DEFINE up == ~ fails /\ provider = "mock"
              ok == ~ fails
  <2>2. Admit(r, job[r].admin, up, ok) /\ up \in BOOLEAN /\ ok \in BOOLEAN
    BY <1>6 DEF ReadProvider, Store
  <2>. HIDE DEF up, ok
  <2>. QED
    BY <1>2, <2>1, <2>2
<1>. QED
  BY <1>4, <1>5, <1>6

(* Nothing past the wall touches the wall.                                 *)
LEMMA BuildJob ==
  ASSUME Typed, NEW r \in Requests,
         \/ \E a \in Apps : CreateCheckout(r, a)
         \/ \E e \in events : WebhookReceive(r, e)
         \/ ReadSecrets(r) \/ \E fails \in BOOLEAN : ReadEnvironment(r, fails)
         \/ LookUpProduct(r) \/ SaveProductID(r)
         \/ \E x \in Products, lost \in BOOLEAN : CreateProduct(r, x, lost)
         \/ \E kinds \in SUBSET Kinds : OpenCheckout(r, kinds) \/ CreateTransaction(r, kinds)
         \/ ParseWebhook(r) \/ ParseNotification(r)
         \/ MockComplete(r) \/ mockEmitAndDispatch(r) \/ Redirect(r)
         \/ Fail(r)
  PROVE  /\ \E j \in Job : /\ Goto(r, j) /\ JobOK(j) /\ j.at \notin AtWall
                           /\ j.at \in Passed => job[r].at \in Passed /\ j.pass = job[r].pass
         /\ UNCHANGED <<settings, wall, mockFor>>
<1>. DEFINE Goal ==
       /\ \E j \in Job : /\ Goto(r, j) /\ JobOK(j) /\ j.at \notin AtWall
                         /\ j.at \in Passed => job[r].at \in Passed /\ j.pass = job[r].pass
       /\ UNCHANGED <<settings, wall, mockFor>>
<1>1. job[r] \in Job /\ JobOK(job[r]) /\ (job[r].at \in Building => job[r] \in Built)
  BY JobCases DEF Typed, TypeOK
<1>2. ASSUME Return(r), UNCHANGED <<settings, wall, mockFor>> PROVE Goal
  BY <1>2, JobMade DEF Return, Idle, AtWall, Passed
<1>3. ASSUME NEW j \in Built, Goto(r, j), JobOK(j), UNCHANGED <<settings, wall, mockFor>>
      PROVE  Goal
  BY <1>3, BuiltIsJob DEF Built, Building, AtWall, Passed
<1>4. ASSUME NEW w \in Work, Goto(r, Build(provider, w)), provider \in Real,
             UNCHANGED <<settings, wall, mockFor>>
      PROVE  Goal
  <2>1. JobOK(Build(provider, w))
    BY DEF Build, JobOK
  <2>. QED
    BY <1>3, <1>4, <2>1, JobMade
<1>5. ASSUME NEW a \in Apps, CreateCheckout(r, a) PROVE Goal
  BY <1>2, <1>4, <1>5 DEF CreateCheckout, Work
<1>6. ASSUME NEW e \in events, WebhookReceive(r, e) PROVE Goal
  BY <1>2, <1>4, <1>6 DEF WebhookReceive, Work, Typed, TypeOK
<1>7. ASSUME ReadSecrets(r) PROVE Goal
  <2>. DEFINE j == Keyed(job[r], key[job[r].p], hook[job[r].p])
  <2>1. job[r] \in Built
    BY <1>1, <1>7 DEF ReadSecrets, At, Building
  <2>2. CASE None \in {key[job[r].p], hook[job[r].p]}
    BY <1>2, <1>7, <2>2 DEF ReadSecrets
  <2>3. CASE None \notin {key[job[r].p], hook[job[r].p]}
    <3>1. key[job[r].p] \in Envs /\ hook[job[r].p] \in Envs
      BY <2>1, <2>3 DEF Built, Typed, TypeOK
    <3>2. j \in Built /\ j.at = "env"
      BY <2>1, <3>1, KeyedGoesOn
    <3>3. Goto(r, j) /\ UNCHANGED <<settings, wall, mockFor>>
      BY <1>7, <2>3 DEF ReadSecrets, Keyed
    <3>. HIDE DEF j
    <3>. QED
      BY <1>3, <3>2, <3>3 DEF JobOK
  <2>. QED
    BY <2>2, <2>3
<1>8. ASSUME NEW fails \in BOOLEAN, ReadEnvironment(r, fails) PROVE Goal
  <2>. DEFINE e == IF fails THEN Default ELSE env[job[r].p]
              s == IF IsEvent(job[r].work) THEN "parse"
                   ELSE IF job[r].p = "polar" THEN "product" ELSE "open"
              j == Routed(job[r], e, s)
  <2>1. job[r] \in Built
    BY <1>1, <1>8 DEF ReadEnvironment, At, Building
  <2>2. e \in Envs /\ job[r].work \in Work
    BY <2>1, DefaultAssumption DEF Built, Typed, TypeOK
  <2>3. s \in {"parse", "product", "open"} /\ (s # "parse" => job[r].work.app \in Apps)
    BY <2>2 DEF Work, IsEvent
  <2>4. Goto(r, j) /\ UNCHANGED <<settings, wall, mockFor>>
    BY <1>8 DEF ReadEnvironment, Routed
  <2>. HIDE DEF e, s
  <2>5. j \in Built /\ j.at = s /\ j.env = e /\ j.work = job[r].work
    BY <2>1, <2>2, <2>3, RoutedGoesOn
  <2>. HIDE DEF j
  <2>. QED
    BY <1>3, <2>2, <2>3, <2>4, <2>5 DEF JobOK
<1>9. ASSUME LookUpProduct(r) PROVE Goal
  <2>. DEFINE x == GetProductID(job[r].work.app, job[r].env)
              j == Known(job[r], x)
  <2>1. job[r] \in Built /\ job[r].env \in Envs /\ job[r].work.app \in Apps
    BY <1>1, <1>9 DEF LookUpProduct, At, Building, JobOK
  <2>2. x \in Products
    BY <1>9, <2>1 DEF LookUpProduct, GetProductID, Typed, TypeOK
  <2>3. Goto(r, j) /\ UNCHANGED <<settings, wall, mockFor>>
    BY <1>9 DEF LookUpProduct, Known
  <2>. HIDE DEF x
  <2>4. j \in Built /\ j.env = job[r].env /\ j.work = job[r].work
    BY <2>1, <2>2, KnownGoesOn
  <2>. HIDE DEF j
  <2>. QED
    BY <1>3, <2>1, <2>3, <2>4 DEF JobOK
<1>10. ASSUME NEW x \in Products, NEW lost \in BOOLEAN, CreateProduct(r, x, lost) PROVE Goal
  <2>. DEFINE j == Made(job[r], x)
  <2>1. job[r] \in Built /\ job[r].env \in Envs /\ job[r].work.app \in Apps
    BY <1>1, <1>10 DEF CreateProduct, At, Building, JobOK
  <2>2. j \in Built /\ j.env = job[r].env /\ j.work = job[r].work
    BY <2>1, MadeGoesOn
  <2>3. (Goto(r, j) \/ Return(r)) /\ UNCHANGED <<settings, wall, mockFor>>
    BY <1>10 DEF CreateProduct, Return, Made
  <2>. HIDE DEF j
  <2>. QED
    BY <1>2, <1>3, <2>1, <2>2, <2>3 DEF JobOK
<1>11. ASSUME SaveProductID(r) PROVE Goal
  <2>. DEFINE j == Saved(job[r])
  <2>1. job[r] \in Built /\ job[r].env \in Envs /\ job[r].work.app \in Apps
    BY <1>1, <1>11 DEF SaveProductID, At, Building, JobOK
  <2>2. j \in Built /\ j.env = job[r].env /\ j.work = job[r].work
    BY <2>1, SavedGoesOn
  <2>3. Goto(r, j) /\ UNCHANGED <<settings, wall, mockFor>>
    BY <1>11 DEF SaveProductID, Saved
  <2>. HIDE DEF j
  <2>. QED
    BY <1>3, <2>1, <2>2, <2>3 DEF JobOK
<1>12. ASSUME MockComplete(r) \/ mockEmitAndDispatch(r) PROVE Goal
  <2>1. PICK s \in {"mock", "minted"} :
          (Goto(r, [job[r] EXCEPT !.at = s]) \/ Return(r)) /\ UNCHANGED <<settings, wall, mockFor>>
    BY <1>12 DEF MockComplete, mockEmitAndDispatch
  <2>. DEFINE j == [job[r] EXCEPT !.at = s]
  <2>2. j \in Job /\ j.at = s /\ j.pass = job[r].pass /\ job[r].at \in Passed
    BY <1>1, <1>12, PassGoesOn DEF MockComplete, mockEmitAndDispatch, At, Passed
  <2>3. Goto(r, j) \/ Return(r)
    BY <2>1
  <2>. HIDE DEF j
  <2>. QED
    BY <1>2, <2>1, <2>2, <2>3 DEF JobOK, AtWall
<1>13. CASE \/ \E kinds \in SUBSET Kinds : OpenCheckout(r, kinds) \/ CreateTransaction(r, kinds)
            \/ ParseWebhook(r) \/ ParseNotification(r) \/ Redirect(r) \/ Fail(r)
  BY <1>2, <1>13
  DEF OpenCheckout, CreateTransaction, ParseWebhook, ParseNotification, Redirect, Fail
<1>. QED
  BY <1>5, <1>6, <1>7, <1>8, <1>9, <1>10, <1>11, <1>12, <1>13
-----------------------------------------------------------------------------
(* The types.                                                              *)

(* What a step at the wall does to the rest.                               *)
LEMMA WallStep ==
  ASSUME NEW r \in Requests,
         \/ \E admin \in BOOLEAN : Enter(r, admin)
         \/ \E fails \in BOOLEAN : ReadMaintenance(r, fails) \/ ReadProvider(r, fails)
  PROVE  /\ UNCHANGED <<settings, mockFor, world, cache>>
         /\ \/ UNCHANGED wall
            \/ \E enabled, sure \in BOOLEAN :
                 wall' = [enabled |-> enabled, age |-> 0, sure |-> sure]
<1>1. ASSUME NEW fails \in BOOLEAN, ReadProvider(r, fails)
      PROVE  \E enabled, sure \in BOOLEAN :
               wall' = [enabled |-> enabled, age |-> 0, sure |-> sure]
  <2>. DEFINE up == ~ fails /\ provider = "mock"
              ok == ~ fails
  <2>1. wall' = [enabled |-> up, age |-> 0, sure |-> ok]
    BY <1>1 DEF ReadProvider, Store
  <2>2. up \in BOOLEAN /\ ok \in BOOLEAN
    OBVIOUS
  <2>. HIDE DEF up, ok
  <2>. QED
    BY <2>1, <2>2
<1>. QED
  BY <1>1 DEF Enter, ReadMaintenance, ReadProvider, Store

LEMMA StepTypes ==
  ASSUME Typed, NEW r \in Requests, Step(r) PROVE Typed'
<1>1. ASSUME NEW j \in Job, Goto(r, j), JobOK(j)
      PROVE  job' \in [Requests -> Job] /\ \A q \in Requests : JobOK(job'[q])
  BY <1>1 DEF Goto, Typed, TypeOK
<1>2. \E j \in Job : Goto(r, j) /\ JobOK(j)
  BY WallJob, BuildJob DEF Step
<1>3. job' \in [Requests -> Job] /\ \A q \in Requests : JobOK(job'[q])
  BY <1>1, <1>2
<1>4. \A q \in Requests : JobOK(job[q])'
  BY <1>3 DEF JobOK
<1>5. CASE UNCHANGED <<settings, wall, mockFor, catalog, cache>> /\ events' \subseteq Event
  BY <1>3, <1>4, <1>5 DEF Typed, TypeOK, settings
<1>6. CASE UNCHANGED <<settings, wall, mockFor, world, cache>>
  BY <1>5, <1>6 DEF Typed, TypeOK, world
<1>7. CASE \/ \E admin \in BOOLEAN : Enter(r, admin)
           \/ \E fails \in BOOLEAN : ReadMaintenance(r, fails) \/ ReadProvider(r, fails)
  <2>1. wall' \in [enabled : BOOLEAN, age : 0 .. TTL, sure : BOOLEAN]
    BY <1>7, WallStep, TTLAssumption DEF Typed, TypeOK
  <2>2. UNCHANGED <<settings, mockFor, world, cache>>
    BY <1>7, WallStep
  <2>. QED
    BY <1>3, <1>4, <2>1, <2>2 DEF Typed, TypeOK, settings, world
<1>8. ASSUME NEW x \in Products, NEW lost \in BOOLEAN, CreateProduct(r, x, lost) PROVE Typed'
  <2>1. job[r].env \in Envs /\ job[r].work.app \in Apps
    BY <1>8 DEF CreateProduct, At, Typed, JobOK
  <2>2. catalog' = [catalog EXCEPT ![x] = <<job[r].env, job[r].work.app>>]
        /\ UNCHANGED <<settings, wall, mockFor, cache, events>>
    BY <1>8 DEF CreateProduct
  <2>3. catalog' \in [Products -> Envs \X Apps \cup {None}]
    BY <2>1, <2>2 DEF Typed, TypeOK
  <2>. QED
    BY <1>3, <1>4, <2>2, <2>3 DEF Typed, TypeOK, settings
<1>9. CASE SaveProductID(r)
  <2>1. job[r].product \in Products
    <3>1. job[r] \in Built /\ job[r].product # None
      BY <1>9, JobCases DEF SaveProductID, At, Building, Typed, TypeOK
    <3>. QED
      BY <3>1 DEF Built
  <2>2. cache' \in [Apps \X Envs -> Products \cup {None}]
    BY <1>9, <2>1 DEF SaveProductID, Typed, TypeOK
  <2>. QED
    BY <1>3, <1>4, <1>9, <2>2 DEF SaveProductID, Typed, TypeOK, settings, world
<1>10. ASSUME NEW kinds \in SUBSET Kinds, OpenCheckout(r, kinds) \/ CreateTransaction(r, kinds)
       PROVE  Typed'
  <2>1. job[r].env \in Envs /\ job[r] \in Built
    BY <1>10, JobCases
    DEF OpenCheckout, CreateTransaction, At, Typed, TypeOK, JobOK, Building
  <2>2. job[r].p \in Real
    BY <2>1 DEF Built
  <2>3. events' = events \cup {[by |-> job[r].p, env |-> job[r].env, kind |-> k] : k \in kinds}
    BY <1>10 DEF OpenCheckout, CreateTransaction, Reported
  <2>4. events' \subseteq Event
    BY <2>1, <2>2, <2>3 DEF Event, Typed, TypeOK
  <2>. QED
    BY <1>5, <1>10, <2>4 DEF OpenCheckout, CreateTransaction
<1>11. CASE \/ \E e \in events : WebhookReceive(r, e)
            \/ ReadSecrets(r) \/ ParseWebhook(r) \/ ParseNotification(r) \/ Fail(r)
  <2>1. events' \subseteq events
    BY <1>11
    DEF WebhookReceive, ReadSecrets, ParseWebhook, ParseNotification, Fail, Answered, world
  <2>. QED
    BY <1>5, <1>11, <2>1
    DEF WebhookReceive, ReadSecrets, ParseWebhook, ParseNotification, Fail, Typed, TypeOK
<1>12. CASE \/ \E a \in Apps : CreateCheckout(r, a)
            \/ (\E fails \in BOOLEAN : ReadEnvironment(r, fails)) \/ LookUpProduct(r)
            \/ MockComplete(r) \/ mockEmitAndDispatch(r) \/ Redirect(r)
  BY <1>6, <1>12
  DEF CreateCheckout, ReadEnvironment, LookUpProduct, MockComplete, mockEmitAndDispatch,
      Redirect
<1>. QED
  BY <1>7, <1>8, <1>9, <1>10, <1>11, <1>12 DEF Step

LEMMA NextTypes == Typed /\ [Next]_vars => Typed'
<1>. SUFFICES ASSUME Typed, [Next]_vars PROVE Typed'
  OBVIOUS
<1>. USE TTLAssumption, EditsAssumption DEF Typed
<1>1. CASE AdminUpdateSetting
  <2>1. mockFor' \in 0 .. TTL + 1 /\ edits' \in 0 .. Edits
    BY <1>1 DEF AdminUpdateSetting, Watch, TypeOK
  <2>2. /\ provider' \in Names \cup {None} /\ upkeep' \in BOOLEAN
        /\ key' \in [Real -> Envs \cup {None}] /\ hook' \in [Real -> Envs \cup {None}]
        /\ env' \in [Real -> Envs]
    BY <1>1 DEF AdminUpdateSetting, TypeOK
  <2>3. UNCHANGED <<wall, catalog, events, cache, job>>
    BY <1>1 DEF AdminUpdateSetting, world
  <2>. QED
    BY <2>1, <2>2, <2>3 DEF TypeOK, JobOK
<1>2. CASE Tick
  <2>1. mockFor' \in 0 .. TTL + 1
    BY <1>2 DEF Tick, TypeOK
  <2>2. wall' \in [enabled : BOOLEAN, age : 0 .. TTL, sure : BOOLEAN]
    BY <1>2 DEF Tick, TypeOK
  <2>. QED
    BY <1>2, <2>1, <2>2 DEF Tick, TypeOK, JobOK, settings, world
<1>3. CASE UNCHANGED vars
  BY <1>3 DEF vars, TypeOK, JobOK
<1>. QED
  BY <1>1, <1>2, <1>3, StepTypes DEF Next

LEMMA InitTypes == Init => Typed
<1>. SUFFICES ASSUME Init PROVE Typed
  OBVIOUS
<1>1. key \in [Real -> Envs \cup {None}] /\ env \in [Real -> Envs]
  BY DefaultAssumption DEF Init
<1>2. mockFor \in 0 .. TTL + 1 /\ edits \in 0 .. Edits
  BY TTLAssumption, EditsAssumption DEF Init
<1>3. wall \in [enabled : BOOLEAN, age : 0 .. TTL, sure : BOOLEAN]
  BY TTLAssumption DEF Init
<1>4. job \in [Requests -> Job] /\ \A r \in Requests : JobOK(job[r])
  BY JobMade DEF Init
<1>5. /\ provider \in Names \cup {None} /\ upkeep \in BOOLEAN
      /\ hook \in [Real -> Envs \cup {None}]
      /\ catalog \in [Products -> Envs \X Apps \cup {None}]
      /\ cache \in [Apps \X Envs -> Products \cup {None}] /\ events \subseteq Event
  BY <1>1 DEF Init
<1>. QED
  BY <1>1, <1>2, <1>3, <1>4, <1>5 DEF Typed, TypeOK

(* Every variable keeps its type, whatever is switched when.               *)
THEOREM TypeCorrect == Spec => []TypeOK
  BY InitTypes, NextTypes, PTL DEF Spec, Typed
-----------------------------------------------------------------------------
(* The wall is a cached flag.                                              *)

(* Of the requests past the mutex there is one, and it found the answer    *)
(* old.                                                                    *)
Mutex ==
  \A r \in Requests : job[r].at \in AtWall =>
    wall.age = TTL /\ \A q \in Requests : job[q].at \in AtWall => q = r

(* A request at the wall either leaves it, having looked up or taken the   *)
(* answer that was kept, or is there alone with an old answer.             *)
LEMMA WallMoves ==
  ASSUME Typed, Mutex, NEW r \in Requests,
         \/ \E admin \in BOOLEAN : Enter(r, admin)
         \/ \E fails \in BOOLEAN : ReadMaintenance(r, fails) \/ ReadProvider(r, fails)
  PROVE  /\ \A q \in Requests \ {r} : job'[q] = job[q]
         /\ \/ UNCHANGED wall /\ job'[r].at \notin AtWall
            \/ /\ UNCHANGED wall /\ wall.age = TTL
               /\ \A q \in Requests \ {r} : job[q].at \notin AtWall
            \/ /\ job'[r].at \notin AtWall
               /\ \A q \in Requests \ {r} : job[q].at \notin AtWall
<1>. USE DEF AtWall
<1>1. job \in [Requests -> Job] /\ wall.age \in 0 .. TTL
  BY DEF Typed, TypeOK
<1>2. \A q \in Requests \ {r} : job'[q] = job[q]
  BY <1>1, WallJob DEF Goto
<1>3. ASSUME NEW admin, NEW up, NEW sure, Admit(r, admin, up, sure)
      PROVE  job'[r].at \notin AtWall
  BY <1>1, <1>3 DEF Admit, Goto, Return, Idle
<1>4. ASSUME NEW admin \in BOOLEAN, Enter(r, admin)
      PROVE  UNCHANGED wall /\ (\/ job'[r].at \notin AtWall
                                \/ wall.age = TTL
                                   /\ \A q \in Requests \ {r} : job[q].at \notin AtWall)
  BY <1>1, <1>3, <1>4, TTLAssumption DEF Enter, Locked
<1>5. ASSUME NEW fails \in BOOLEAN, ReadMaintenance(r, fails) \/ ReadProvider(r, fails)
      PROVE  /\ wall.age = TTL /\ \A q \in Requests \ {r} : job[q].at \notin AtWall
             /\ UNCHANGED wall \/ job'[r].at \notin AtWall
  <2>1. job[r].at \in AtWall
    BY <1>5 DEF ReadMaintenance, ReadProvider, At
  <2>2. UNCHANGED wall \/ \E admin, up, sure : Admit(r, admin, up, sure)
    BY <1>5 DEF ReadMaintenance, ReadProvider, Store
  <2>. QED
    BY <1>3, <2>1, <2>2 DEF Mutex
<1>. QED
  BY <1>2, <1>4, <1>5

LEMMA NextMutex == Typed /\ Mutex /\ [Next]_vars => Mutex'
<1>. SUFFICES ASSUME Typed, Mutex, [Next]_vars PROVE Mutex'
  OBVIOUS
<1>1. CASE AdminUpdateSetting \/ UNCHANGED vars
  BY <1>1 DEF AdminUpdateSetting, vars, Mutex
<1>2. CASE Tick
  <2>1. wall.age = TTL => wall'.age = TTL
    BY <1>2, TTLAssumption DEF Tick, Typed, TypeOK
  <2>. QED
    BY <1>2, <2>1 DEF Tick, Mutex
<1>3. ASSUME NEW r \in Requests, Step(r) PROVE Mutex'
  <2>1. CASE \/ \E admin \in BOOLEAN : Enter(r, admin)
             \/ \E fails \in BOOLEAN : ReadMaintenance(r, fails) \/ ReadProvider(r, fails)
    BY <2>1, WallMoves DEF Mutex
  <2>2. CASE UNCHANGED wall /\ \E j \in Job : Goto(r, j) /\ j.at \notin AtWall
    BY <2>2 DEF Mutex, Goto, Typed, TypeOK
  <2>. QED
    BY <1>3, <2>1, <2>2, BuildJob DEF Step
<1>. QED
  BY <1>1, <1>2, <1>3 DEF Next

(* Every step is one of the flag's, or none.                               *)
LEMMA WallSteps ==
  ASSUME Typed, Mutex, [Next]_vars
  PROVE  [Wall!Next]_<<provider = "mock", wall.enabled, wall.sure, wall.age>>
<1>. DEFINE same == UNCHANGED <<wall.enabled, wall.sure, wall.age>>
<1>1. wall \in [enabled : BOOLEAN, age : 0 .. TTL, sure : BOOLEAN]
  BY DEF Typed, TypeOK
<1>2. CASE UNCHANGED <<provider, wall>>
  BY <1>2
<1>3. CASE AdminUpdateSetting
  <2>1. same
    BY <1>3 DEF AdminUpdateSetting
  <2>2. CASE (provider' = "mock") = (provider = "mock")
    BY <2>1, <2>2
  <2>3. CASE (provider' = "mock") = ~ (provider = "mock")
    BY <2>1, <2>3 DEF Wall!Next, Wall!Change
  <2>. QED
    BY <2>2, <2>3
<1>4. CASE Tick
  <2>1. /\ wall'.enabled = wall.enabled /\ wall'.sure = wall.sure /\ UNCHANGED provider
        /\ wall'.age = IF wall.age < TTL THEN wall.age + 1 ELSE wall.age
    BY <1>1, <1>4 DEF Tick, settings
  <2>. QED
    BY <1>1, <2>1 DEF Wall!Next, Wall!Tick
<1>5. ASSUME NEW r \in Requests, NEW fails \in BOOLEAN, ReadMaintenance(r, fails), ~ UNCHANGED wall
      PROVE  Wall!LookUp
  <2>1. wall' = [enabled |-> TRUE, age |-> 0, sure |-> TRUE] /\ UNCHANGED provider
    BY <1>5 DEF ReadMaintenance, Store, settings
  <2>2. wall.age = TTL
    BY <1>5 DEF ReadMaintenance, At, Mutex, AtWall
  <2>. QED
    BY <2>1, <2>2 DEF Wall!LookUp
<1>6. ASSUME NEW r \in Requests, NEW fails \in BOOLEAN, ReadProvider(r, fails)
      PROVE  Wall!LookUp \/ Wall!LookUpFails
  <2>1. wall.age = TTL /\ UNCHANGED provider
    BY <1>6 DEF ReadProvider, At, Mutex, AtWall, settings
  <2>2. CASE fails
    <3>1. wall'.enabled = FALSE /\ wall'.sure = FALSE /\ wall'.age = 0
      BY <1>6, <2>2 DEF ReadProvider, Store
    <3>. QED
      BY <2>1, <3>1 DEF Wall!LookUpFails
  <2>3. CASE ~ fails
    <3>1. wall'.enabled = (provider = "mock") /\ wall'.sure = TRUE /\ wall'.age = 0
      BY <1>6, <2>3 DEF ReadProvider, Store
    <3>. QED
      BY <2>1, <3>1 DEF Wall!LookUp
  <2>. QED
    BY <2>2, <2>3
<1>7. ASSUME NEW r \in Requests, Step(r)
      PROVE  UNCHANGED <<provider, wall>> \/ Wall!LookUp \/ Wall!LookUpFails
  <2>1. ASSUME NEW admin \in BOOLEAN, Enter(r, admin) PROVE UNCHANGED <<provider, wall>>
    BY <2>1 DEF Enter, settings
  <2>2. ASSUME NEW fails \in BOOLEAN, ReadMaintenance(r, fails)
        PROVE  UNCHANGED <<provider, wall>> \/ Wall!LookUp
    BY <1>5, <2>2 DEF ReadMaintenance, settings
  <2>. QED
    BY <1>6, <1>7, <2>1, <2>2, BuildJob DEF Step, settings
<1>. QED
  BY <1>2, <1>3, <1>4, <1>7 DEF Next, vars, Wall!Next

(* The wall implements CachedFlag: its two statements under the mutex are  *)
(* one look-up, made when the answer is old and only then.                 *)
THEOREM WallRefines == Spec => WallIsCachedFlag
<1>1. Init => Wall!Init /\ Mutex
  <2>. SUFFICES ASSUME Init PROVE Wall!Init /\ Mutex
    OBVIOUS
  <2>1. wall.enabled = FALSE /\ wall.sure = TRUE /\ wall.age = TTL
    BY DEF Init
  <2>2. Mutex
    BY DEF Init, Mutex, Idle, AtWall
  <2>. QED
    BY <2>1, <2>2 DEF Wall!Init
<1>2. Typed /\ Mutex /\ [Next]_vars =>
        [Wall!Next]_<<provider = "mock", wall.enabled, wall.sure, wall.age>>
  BY WallSteps
<1>. QED
  BY <1>1, <1>2, InitTypes, NextTypes, NextMutex, PTL DEF Spec, WallIsCachedFlag, Wall!Spec
-----------------------------------------------------------------------------
(* The mock provider.                                                      *)

(* The answer no is as old as mock's time in office, or older, if it came  *)
(* of a look-up that worked.                                               *)
NoIsRecent ==
  /\ provider # "mock" => mockFor = 0
  /\ wall.age < TTL /\ wall.sure /\ ~ wall.enabled => mockFor <= wall.age

Harmless(pass) == pass.admin \/ ~ pass.late \/ ~ pass.sure

PassesOK == \A r \in Requests : job[r].at \in Passed => Harmless(job[r].pass)

FreeInv == Typed /\ Mutex /\ NoIsRecent /\ PassesOK

(* Who is let in on a sure no passes before TTL is over.                   *)
LEMMA Admission ==
  ASSUME Typed, NEW r \in Requests, NEW admin \in BOOLEAN, NEW up \in BOOLEAN,
         NEW sure \in BOOLEAN, Admit(r, admin, up, sure),
         ~ up /\ sure => mockFor <= TTL
  PROVE  job'[r].at \in Passed => Harmless(job'[r].pass)
<1>1. job \in [Requests -> Job] /\ mockFor \in Nat /\ TTL \in Nat
  BY TTLAssumption DEF Typed, TypeOK
<1>2. CASE up /\ ~ admin
  BY <1>1, <1>2 DEF Admit, Return, Goto, Idle, Passed
<1>3. CASE ~ (up /\ ~ admin)
  <2>1. job'[r].pass = [admin |-> admin, late |-> mockFor > TTL, sure |-> sure]
    BY <1>1, <1>3 DEF Admit, Goto
  <2>2. admin \/ ~ (mockFor > TTL) \/ ~ sure
    BY <1>1, <1>3
  <2>. QED
    BY <2>1, <2>2 DEF Harmless
<1>. QED
  BY <1>2, <1>3

LEMMA WallPasses ==
  ASSUME FreeInv, NEW r \in Requests,
         \/ \E admin \in BOOLEAN : Enter(r, admin)
         \/ \E fails \in BOOLEAN : ReadMaintenance(r, fails) \/ ReadProvider(r, fails)
  PROVE  /\ job'[r].at \in Passed => Harmless(job'[r].pass)
         /\ NoIsRecent'
<1>. USE TTLAssumption DEF FreeInv
<1>1. /\ job \in [Requests -> Job] /\ mockFor \in Nat
      /\ wall \in [enabled : BOOLEAN, age : 0 .. TTL, sure : BOOLEAN]
  BY DEF Typed, TypeOK
<1>2. ASSUME NEW admin \in BOOLEAN, Enter(r, admin)
      PROVE  /\ job'[r].at \in Passed => Harmless(job'[r].pass)
             /\ NoIsRecent'
  <2>1. NoIsRecent'
    BY <1>2 DEF Enter, NoIsRecent, settings
  <2>2. CASE wall.age < TTL
    <3>1. ~ wall.enabled /\ wall.sure => mockFor <= TTL
      BY <1>1, <2>2 DEF NoIsRecent
    <3>2. Admit(r, admin, wall.enabled, wall.sure)
      BY <1>2, <2>2 DEF Enter
    <3>3. job'[r].at \in Passed => Harmless(job'[r].pass)
      BY <1>1, <3>1, <3>2, Admission
    <3>. QED
      BY <2>1, <3>3
  <2>3. CASE ~ (wall.age < TTL)
    BY <1>1, <1>2, <2>1, <2>3 DEF Enter, Goto, Passed
  <2>. QED
    BY <2>2, <2>3
<1>3. ASSUME NEW fails \in BOOLEAN, ReadMaintenance(r, fails)
      PROVE  /\ job'[r].at \in Passed => Harmless(job'[r].pass)
             /\ NoIsRecent'
  <2>1. job[r].at = "upkeep" /\ job[r].admin \in BOOLEAN
    BY <1>1, <1>3, JobCases DEF ReadMaintenance, At, AtWall
  <2>2. CASE ~ fails /\ upkeep
    <3>1. Store(r, TRUE, TRUE) /\ UNCHANGED <<provider, mockFor>>
      BY <1>3, <2>2 DEF ReadMaintenance, settings
    <3>2. wall' = [enabled |-> TRUE, age |-> 0, sure |-> TRUE]
      BY <3>1 DEF Store
    <3>3. Admit(r, job[r].admin, TRUE, TRUE)
      BY <3>1 DEF Store
    <3>4. job'[r].at \in Passed => Harmless(job'[r].pass)
      BY <2>1, <3>3, Admission
    <3>. QED
      BY <3>1, <3>2, <3>4 DEF NoIsRecent
  <2>3. CASE ~ (~ fails /\ upkeep)
    <3>1. UNCHANGED <<wall, provider, mockFor>> /\ job'[r] = [job[r] EXCEPT !.at = "provider"]
      BY <1>1, <1>3, <2>3 DEF ReadMaintenance, Goto, settings
    <3>2. job'[r].at = "provider"
      BY <1>1, <2>1, <3>1, WallGoesOn
    <3>. QED
      BY <3>1, <3>2 DEF NoIsRecent, Passed
  <2>. QED
    BY <2>2, <2>3
<1>4. ASSUME NEW fails \in BOOLEAN, ReadProvider(r, fails)
      PROVE  /\ job'[r].at \in Passed => Harmless(job'[r].pass)
             /\ NoIsRecent'
  <2>1. job[r].admin \in BOOLEAN
    BY <1>1, <1>4, JobCases DEF ReadProvider, At, AtWall
  <2>. DEFINE up == ~ fails /\ provider = "mock"
              ok == ~ fails
  <2>2. /\ Admit(r, job[r].admin, up, ok) /\ up \in BOOLEAN /\ ok \in BOOLEAN
        /\ wall' = [enabled |-> up, age |-> 0, sure |-> ok]
        /\ UNCHANGED <<provider, mockFor>>
    BY <1>4 DEF ReadProvider, Store, settings
  <2>3. ~ up /\ ok => provider # "mock"
    OBVIOUS
  <2>4. ~ up /\ ok => mockFor = 0
    BY <2>3 DEF NoIsRecent
  <2>. HIDE DEF up, ok
  <2>5. job'[r].at \in Passed => Harmless(job'[r].pass)
    BY <2>1, <2>2, <2>4, Admission
  <2>6. NoIsRecent'
    BY <2>2, <2>4 DEF NoIsRecent
  <2>. QED
    BY <2>5, <2>6
<1>. QED
  BY <1>2, <1>3, <1>4

LEMMA NextFree == FreeInv /\ [Next]_vars => FreeInv'
<1>. SUFFICES ASSUME FreeInv, [Next]_vars PROVE NoIsRecent' /\ PassesOK'
  BY NextTypes, NextMutex DEF FreeInv
<1>. USE TTLAssumption DEF FreeInv
<1>1. CASE UNCHANGED vars
  BY <1>1 DEF vars, NoIsRecent, PassesOK
<1>2. CASE AdminUpdateSetting
  BY <1>2 DEF AdminUpdateSetting, Watch, NoIsRecent, PassesOK, Typed, TypeOK
<1>3. CASE Tick
  <2>1. wall.age < TTL =>
          wall'.age = wall.age + 1 /\ wall'.enabled = wall.enabled /\ wall'.sure = wall.sure
    BY <1>3 DEF Tick, Typed, TypeOK
  <2>2. ~ (wall.age < TTL) => ~ (wall'.age < TTL)
    BY <1>3 DEF Tick, Typed, TypeOK
  <2>3. /\ mockFor' \in {mockFor, mockFor + 1} /\ UNCHANGED <<provider, job>>
        /\ provider # "mock" => mockFor' = mockFor
    BY <1>3 DEF Tick, settings
  <2>4. mockFor \in Nat /\ wall.age \in Nat
    BY DEF Typed, TypeOK
  <2>. QED
    BY <2>1, <2>2, <2>3, <2>4 DEF NoIsRecent, PassesOK
<1>4. ASSUME NEW r \in Requests, Step(r) PROVE NoIsRecent' /\ PassesOK'
  <2>1. ASSUME job'[r].at \in Passed => Harmless(job'[r].pass), NoIsRecent',
               \E j \in Job : Goto(r, j)
        PROVE  NoIsRecent' /\ PassesOK'
    BY <2>1 DEF PassesOK, Goto, Typed, TypeOK
  <2>2. CASE \/ \E admin \in BOOLEAN : Enter(r, admin)
             \/ \E fails \in BOOLEAN : ReadMaintenance(r, fails) \/ ReadProvider(r, fails)
    BY <2>1, <2>2, WallPasses, WallJob
  <2>3. ASSUME UNCHANGED <<settings, wall, mockFor>>, NEW j \in Job, Goto(r, j),
               j.at \in Passed => job[r].at \in Passed /\ j.pass = job[r].pass
        PROVE  NoIsRecent' /\ PassesOK'
    <3>1. NoIsRecent'
      BY <2>3 DEF NoIsRecent, settings
    <3>2. job'[r].at \in Passed => Harmless(job'[r].pass)
      BY <2>3 DEF Goto, PassesOK, Typed, TypeOK
    <3>. QED
      BY <2>1, <2>3, <3>1, <3>2
  <2>. QED
    BY <1>4, <2>2, <2>3, BuildJob DEF Step
<1>. QED
  BY <1>1, <1>2, <1>3, <1>4 DEF Next

(* Nobody but an admin gets a license of the mock provider, once the wall  *)
(* had time to notice it, unless a read of the settings had failed.        *)
THEOREM NothingFree == Spec => []NoFreeLicense
<1>1. Init => FreeInv
  <2>. SUFFICES ASSUME Init PROVE FreeInv
    OBVIOUS
  <2>1. Mutex /\ PassesOK
    BY DEF Init, Mutex, PassesOK, Idle, AtWall, Passed
  <2>2. NoIsRecent
    BY TTLAssumption DEF Init, NoIsRecent
  <2>. QED
    BY <2>1, <2>2, InitTypes DEF FreeInv
<1>2. FreeInv => NoFreeLicense
  BY DEF FreeInv, PassesOK, Harmless, NoFreeLicense, At, Passed
<1>. QED
  BY <1>1, <1>2, NextFree, PTL DEF Spec

-----------------------------------------------------------------------------
(* Polar's products.                                                       *)

(* The product a checkout has found or made is of its own environment and  *)
(* app; it has none before, and one when it asks Polar for the session.    *)
ProductOK(j) ==
  /\ j.at \in {"secrets", "env"} => j.product = None
  /\ j.at \in {"product", "open"} /\ j.product # None =>
       catalog[j.product] = <<j.env, j.work.app>>
  /\ j.at = "open" /\ j.p = "polar" => j.product # None

CacheOK ==
  \A a \in Apps, e \in Envs :
    cache[<<a, e>>] # None => catalog[cache[<<a, e>>]] = <<e, a>>

ProductInv == Typed /\ CacheOK /\ \A r \in Requests : ProductOK(job[r])

LEMMA NextProducts == ProductInv /\ [Next]_vars => ProductInv'
<1>. SUFFICES ASSUME ProductInv, [Next]_vars
              PROVE  CacheOK' /\ \A r \in Requests : ProductOK(job[r])'
  BY NextTypes DEF ProductInv
<1>. USE DEF ProductInv
<1>1. CASE UNCHANGED <<catalog, cache, job>>
  BY <1>1 DEF CacheOK, ProductOK
<1>2. ASSUME NEW r \in Requests, NEW j, Goto(r, j), ProductOK(j), UNCHANGED <<catalog, cache>>
      PROVE  CacheOK' /\ \A q \in Requests : ProductOK(job[q])'
  BY <1>2 DEF CacheOK, ProductOK, Goto, Typed, TypeOK
<1>3. ASSUME NEW r \in Requests, Step(r)
      PROVE  CacheOK' /\ \A q \in Requests : ProductOK(job[q])'
  <2>1. job[r] \in Job /\ JobOK(job[r]) /\ (job[r].at \in Building => job[r] \in Built)
    BY JobCases DEF Typed, TypeOK
  <2>2. ASSUME NEW j \in Job, Goto(r, j), j.at \notin Building, UNCHANGED <<catalog, cache>>
        PROVE  CacheOK' /\ \A q \in Requests : ProductOK(job[q])'
    BY <1>2, <2>2 DEF ProductOK, Building
  <2>3. CASE Return(r) /\ UNCHANGED <<catalog, cache>>
    BY <2>2, <2>3, JobMade DEF Return, Idle, Building
  <2>4. CASE \/ \E admin \in BOOLEAN : Enter(r, admin)
             \/ \E fails \in BOOLEAN : ReadMaintenance(r, fails) \/ ReadProvider(r, fails)
    BY <2>2, <2>4, WallJob, WallStep DEF world
  <2>13. CASE MockComplete(r) \/ mockEmitAndDispatch(r)
    <3>1. PICK s \in {"mock", "minted"} : Goto(r, [job[r] EXCEPT !.at = s]) \/ Return(r)
      BY <2>13 DEF MockComplete, mockEmitAndDispatch
    <3>. DEFINE j == [job[r] EXCEPT !.at = s]
    <3>2. j \in Job /\ j.at = s
      BY <2>1, <2>13, PassGoesOn DEF MockComplete, mockEmitAndDispatch, At, Passed
    <3>3. (Goto(r, j) \/ Return(r)) /\ UNCHANGED <<catalog, cache>>
      BY <2>13, <3>1 DEF MockComplete, mockEmitAndDispatch, world
    <3>. HIDE DEF j
    <3>. QED
      BY <2>2, <2>3, <3>2, <3>3 DEF Building
  <2>5. ASSUME NEW w, Goto(r, Build(provider, w)), UNCHANGED <<catalog, cache>>
        PROVE  CacheOK' /\ \A q \in Requests : ProductOK(job[q])'
    BY <1>2, <2>5 DEF Build, ProductOK
  <2>6. CASE \/ \E a \in Apps : CreateCheckout(r, a)
             \/ \E e \in events : WebhookReceive(r, e)
    BY <2>3, <2>5, <2>6 DEF CreateCheckout, WebhookReceive, world
  <2>7. CASE ReadSecrets(r)
    <3>. DEFINE j == Keyed(job[r], key[job[r].p], hook[job[r].p])
    <3>1. job[r] \in Built /\ job[r].at = "secrets" /\ UNCHANGED <<catalog, cache>>
      BY <2>1, <2>7 DEF ReadSecrets, At, Building
    <3>2. CASE None \in {key[job[r].p], hook[job[r].p]}
      BY <2>3, <2>7, <3>1, <3>2 DEF ReadSecrets
    <3>3. CASE None \notin {key[job[r].p], hook[job[r].p]}
      <4>1. key[job[r].p] \in Envs /\ hook[job[r].p] \in Envs
        BY <3>1, <3>3 DEF Built, Typed, TypeOK
      <4>2. j.at = "env" /\ j.product = None
        BY <3>1, <4>1, KeyedGoesOn DEF ProductOK
      <4>3. Goto(r, j)
        BY <2>7, <3>3 DEF ReadSecrets, Keyed
      <4>. HIDE DEF j
      <4>4. ProductOK(j)
        BY <4>2 DEF ProductOK
      <4>. QED
        BY <1>2, <3>1, <4>3, <4>4
    <3>. QED
      BY <3>2, <3>3
  <2>8. ASSUME NEW fails \in BOOLEAN, ReadEnvironment(r, fails)
        PROVE  CacheOK' /\ \A q \in Requests : ProductOK(job[q])'
    <3>. DEFINE e == IF fails THEN Default ELSE env[job[r].p]
                s == IF IsEvent(job[r].work) THEN "parse"
                     ELSE IF job[r].p = "polar" THEN "product" ELSE "open"
                j == Routed(job[r], e, s)
    <3>1. job[r] \in Built /\ job[r].at = "env" /\ UNCHANGED <<catalog, cache>>
      BY <2>1, <2>8 DEF ReadEnvironment, At, Building, world
    <3>2. e \in Envs
      BY <3>1, DefaultAssumption DEF Built, Typed, TypeOK
    <3>3. s \in {"parse", "product", "open"} /\ (s = "open" => job[r].p # "polar")
      OBVIOUS
    <3>4. Goto(r, j)
      BY <2>8 DEF ReadEnvironment, Routed
    <3>. HIDE DEF e, s
    <3>5. j.at = s /\ j.product = None /\ j.p = job[r].p
      BY <3>1, <3>2, <3>3, RoutedGoesOn DEF ProductOK
    <3>. HIDE DEF j
    <3>6. ProductOK(j)
      BY <3>3, <3>5 DEF ProductOK
    <3>. QED
      BY <1>2, <3>1, <3>4, <3>6
  <2>9. CASE LookUpProduct(r)
    <3>. DEFINE x == GetProductID(job[r].work.app, job[r].env)
                j == Known(job[r], x)
    <3>1. /\ job[r] \in Built /\ job[r].env \in Envs /\ job[r].work.app \in Apps
          /\ UNCHANGED <<catalog, cache>>
      BY <2>1, <2>9 DEF LookUpProduct, At, Building, JobOK, world
    <3>2. x # None /\ x \in Products /\ catalog[x] = <<job[r].env, job[r].work.app>>
      BY <2>9, <3>1 DEF LookUpProduct, GetProductID, CacheOK, Typed, TypeOK
    <3>3. Goto(r, j)
      BY <2>9 DEF LookUpProduct, Known
    <3>. HIDE DEF x
    <3>4. j.at = "open" /\ j.env = job[r].env /\ j.work = job[r].work /\ j.product = x
      BY <3>1, <3>2, KnownGoesOn
    <3>. HIDE DEF j
    <3>5. ProductOK(j)
      BY <3>2, <3>4 DEF ProductOK
    <3>. QED
      BY <1>2, <3>1, <3>3, <3>5
  <2>10. ASSUME NEW x \in Products, NEW lost \in BOOLEAN, CreateProduct(r, x, lost)
         PROVE  CacheOK' /\ \A q \in Requests : ProductOK(job[q])'
    <3>. DEFINE own == <<job[r].env, job[r].work.app>>
                j == Made(job[r], x)
    <3>1. /\ job[r] \in Built /\ job[r].at = "product"
          /\ job[r].env \in Envs /\ job[r].work.app \in Apps
      BY <2>1, <2>10 DEF CreateProduct, At, Building, JobOK
    <3>2. own \in Envs \X Apps /\ own # None
      BY <3>1, NoneAssumption
    <3>3. /\ catalog[x] = None /\ catalog' = [catalog EXCEPT ![x] = own]
          /\ UNCHANGED cache /\ (Goto(r, j) \/ Goto(r, Idle))
      BY <2>10 DEF CreateProduct, Made
    <3>. HIDE DEF own, j
    <3>4. \A y \in Products : catalog[y] # None => y # x /\ catalog'[y] = catalog[y]
      BY <3>3 DEF Typed, TypeOK
    <3>5. CacheOK'
      <4>. SUFFICES ASSUME NEW a \in Apps, NEW e \in Envs, cache[<<a, e>>] # None
                    PROVE  catalog'[cache[<<a, e>>]] = <<e, a>>
        BY <3>3 DEF CacheOK
      <4>1. cache[<<a, e>>] \in Products /\ catalog[cache[<<a, e>>]] = <<e, a>>
        BY DEF CacheOK, Typed, TypeOK
      <4>2. <<e, a>> # None
        BY NoneAssumption
      <4>. QED
        BY <3>4, <4>1, <4>2
    <3>6. \A q \in Requests : ProductOK(job[q]) => ProductOK(job[q])' \/ job'[q] # job[q]
      <4>. SUFFICES ASSUME NEW q \in Requests, ProductOK(job[q]), job'[q] = job[q]
                    PROVE  ProductOK(job[q])'
        OBVIOUS
      <4>1. CASE job[q].at \in {"product", "open"} /\ job[q].product # None
        <5>1. job[q] \in Built /\ job[q].env \in Envs /\ job[q].work.app \in Apps
          BY <4>1, JobCases DEF Typed, TypeOK, JobOK, Building
        <5>2. job[q].product \in Products /\ <<job[q].env, job[q].work.app>> # None
          BY <4>1, <5>1, NoneAssumption DEF Built
        <5>3. catalog'[job[q].product] = catalog[job[q].product]
          BY <3>4, <4>1, <5>2 DEF ProductOK
        <5>. QED
          BY <5>3 DEF ProductOK
      <4>2. CASE ~ (job[q].at \in {"product", "open"} /\ job[q].product # None)
        BY <4>2 DEF ProductOK
      <4>. QED
        BY <4>1, <4>2
    <3>7. j.at = "product" /\ j.env = job[r].env /\ j.work = job[r].work /\ j.product = x
      BY <3>1, MadeGoesOn DEF j
    <3>8. catalog'[x] = <<job[r].env, job[r].work.app>>
      BY <3>3 DEF own, Typed, TypeOK
    <3>9. Goto(r, j) => ProductOK(job[r])'
      BY <3>7, <3>8 DEF ProductOK, Goto, Typed, TypeOK
    <3>10. Goto(r, Idle) => ProductOK(job[r])'
      BY DEF ProductOK, Goto, Idle, Typed, TypeOK
    <3>11. \A q \in Requests \ {r} : job'[q] = job[q]
      BY <3>3 DEF Goto, Typed, TypeOK
    <3>. QED
      BY <3>3, <3>5, <3>6, <3>9, <3>10, <3>11
  <2>11. CASE SaveProductID(r)
    <3>. DEFINE j == Saved(job[r])
    <3>1. /\ job[r] \in Built /\ job[r].at = "product" /\ job[r].product # None
          /\ job[r].env \in Envs /\ job[r].work.app \in Apps /\ UNCHANGED catalog
      BY <2>1, <2>11 DEF SaveProductID, At, Building, JobOK, world
    <3>2. /\ job[r].product \in Products
          /\ catalog[job[r].product] = <<job[r].env, job[r].work.app>>
      BY <3>1 DEF Built, ProductOK
    <3>3. /\ Goto(r, j)
          /\ cache' = [cache EXCEPT ![<<job[r].work.app, job[r].env>>] = job[r].product]
      BY <2>11 DEF SaveProductID, Saved
    <3>4. CacheOK'
      BY <3>1, <3>2, <3>3 DEF CacheOK, Typed, TypeOK
    <3>5. j.env = job[r].env /\ j.work = job[r].work /\ j.product = job[r].product
      BY <3>1, SavedGoesOn
    <3>6. j.at = "open"
      BY <3>1, SavedGoesOn
    <3>. HIDE DEF j
    <3>7. ProductOK(j)
      BY <3>1, <3>2, <3>5, <3>6 DEF ProductOK
    <3>8. \A q \in Requests : ProductOK(job[q])'
      BY <3>1, <3>3, <3>7 DEF ProductOK, Goto, Typed, TypeOK
    <3>. QED
      BY <3>4, <3>8
  <2>12. CASE \/ \E kinds \in SUBSET Kinds : OpenCheckout(r, kinds) \/ CreateTransaction(r, kinds)
              \/ ParseWebhook(r) \/ ParseNotification(r) \/ Redirect(r) \/ Fail(r)
    BY <2>3, <2>12
    DEF OpenCheckout, CreateTransaction, ParseWebhook, ParseNotification, Redirect, Fail, world
  <2>. QED
    BY <1>3, <2>4, <2>6, <2>7, <2>8, <2>9, <2>10, <2>11, <2>12, <2>13 DEF Step
<1>. QED
  BY <1>1, <1>3 DEF Next, AdminUpdateSetting, Tick, vars, world

(* Polar is asked for no product of another environment or app.            *)
THEOREM OwnProducts == Spec => []ProductOfItsCatalog
<1>1. Init => ProductInv
  <2>. SUFFICES ASSUME Init PROVE ProductInv
    OBVIOUS
  <2>1. CacheOK
    BY DEF Init, CacheOK
  <2>2. \A r \in Requests : ProductOK(job[r])
    BY DEF Init, ProductOK, Idle
  <2>. QED
    BY <2>1, <2>2, InitTypes DEF ProductInv
<1>2. ProductInv => ProductOfItsCatalog
  BY DEF ProductInv, CacheOK, ProductOK, ProductOfItsCatalog, At
<1>. QED
  BY <1>1, <1>2, NextProducts, PTL DEF Spec
=============================================================================
