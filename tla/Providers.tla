------------------------------ MODULE Providers ------------------------------
(***************************************************************************)
(* Which payment provider is active, and what hangs on it: the wall around *)
(* the store (middleware/maintenance.go), the provider that each request   *)
(* builds for itself (handlers/checkout/providers.go), Polar's products    *)
(* and their cache (payment/polar), and the mock provider's own payments.  *)
(*                                                                         *)
(* Every setting is a row of site_settings, read by a statement of its own *)
(* while an admin changes them one at a time.  What becomes of an accepted *)
(* event is in Fulfillment.                                                *)
(***************************************************************************)
EXTENDS Naturals, FiniteSets

CONSTANTS
  Real,     \* the providers that take money: "polar", "paddle"
  Envs,     \* their environments: sandbox and production ...
  Default,  \* ... and the one where none is read: production
  Apps,
  Products, \* BOUND on product ids Polar ever gives out
  Requests, \* requests in progress at once
  Edits,    \* BOUND on settings changed
  Open,     \* BOUND on events not answered yet
  TTL,      \* maintenanceCacheTTL, in ticks
  None      \* not set

ASSUME RealAssumption == Real \subseteq {"polar", "paddle"}
ASSUME DefaultAssumption == Default \in Envs
ASSUME TTLAssumption == TTL \in Nat \ {0}
ASSUME EditsAssumption == Edits \in Nat
ASSUME NoneAssumption ==
  None \notin {"polar", "paddle", "mock"} \cup Envs \cup Products \cup (Envs \X Apps)

VARIABLES
  provider, \* site_settings: payment_provider, ...
  upkeep,   \* ... maintenance_mode, ...
  key,      \* ... and of each provider the environment its API key is for,
  hook,     \* the one its webhook secret is for,
  env,      \* and the one it is set to
  edits,    \* changes so far
  wall,     \* MaintenanceChecker: enabled, ticks since cachedAt; as history,
            \* whether its last reads worked
  mockFor,  \* history: for how many ticks mock has been the provider
  catalog,  \* Polar: the environment and the app each product was made for
  cache,    \* provider_products, the rows of Polar
  events,   \* what the providers report until they get 200
  job       \* what each request does next and what it remembers

vars == <<provider, upkeep, key, hook, env, edits, wall, mockFor, catalog, cache,
          events, job>>
settings == <<provider, upkeep, key, hook, env, edits>>
world == <<catalog, events>>

Names == Real \cup {"mock"}
Kinds == {"order", "refund"}
Event == [by : Real, env : Envs, kind : Kinds]
Pass == [admin : BOOLEAN, late : BOOLEAN, sure : BOOLEAN]
Work == Event \cup {[app |-> a] : a \in Apps}
Idle == [at |-> "idle"]

Job ==
  [at : {"idle"}] \cup [at : {"upkeep", "provider"}, admin : BOOLEAN]
    \cup [at : {"in", "mock", "minted"}, pass : Pass]
    \cup [at : {"secrets", "env", "parse", "product", "open"}, p : Real, work : Work,
          key : Envs \cup {None}, hook : Envs \cup {None}, env : Envs \cup {None},
          product : Products \cup {None}]

TypeOK ==
  /\ provider \in Names \cup {None} /\ upkeep \in BOOLEAN
  /\ key \in [Real -> Envs \cup {None}] /\ hook \in [Real -> Envs \cup {None}]
  /\ env \in [Real -> Envs] /\ edits \in 0 .. Edits
  /\ wall \in [enabled : BOOLEAN, age : 0 .. TTL, sure : BOOLEAN]
  /\ mockFor \in 0 .. TTL + 1
  /\ catalog \in [Products -> Envs \X Apps \cup {None}]
  /\ cache \in [Apps \X Envs -> Products \cup {None}]
  /\ events \subseteq Event
  /\ job \in [Requests -> Job]

(* The providers are all set up for production, or not at all.             *)
(* cachedAt is the zero time.                                              *)
Init ==
  /\ provider \in Names \cup {None} /\ upkeep = FALSE
  /\ env = [p \in Real |-> Default]
  /\ key = env \/ key = [p \in Real |-> None]
  /\ hook = key /\ edits = 0
  /\ wall = [enabled |-> FALSE, age |-> TTL, sure |-> TRUE]
  /\ mockFor = 0 /\ events = {}
  /\ catalog = [x \in Products |-> None]
  /\ cache = [x \in Apps \X Envs |-> None]
  /\ job = [r \in Requests |-> Idle]

-----------------------------------------------------------------------------
Goto(r, j) == job' = [job EXCEPT ![r] = j]
Return(r) == Goto(r, Idle)
At(r, step) == job[r].at = step

(* The history of mockFor over a step that may switch the provider.        *)
Watch == mockFor' = IF provider' = "mock" /\ provider = "mock" THEN mockFor ELSE 0

(* PATCH /admin/settings: one row.  A secret is never made empty again.    *)
AdminUpdateSetting ==
  /\ edits < Edits /\ edits' = edits + 1
  /\ \/ /\ \E n \in Names \cup {None} : provider' = n
        /\ UNCHANGED <<upkeep, key, hook, env>>
     \/ upkeep' = ~ upkeep /\ UNCHANGED <<provider, key, hook, env>>
     \/ \E p \in Real, e \in Envs :
          /\ \/ key' = [key EXCEPT ![p] = e] /\ UNCHANGED <<hook, env>>
             \/ hook' = [hook EXCEPT ![p] = e] /\ UNCHANGED <<key, env>>
             \/ env' = [env EXCEPT ![p] = e] /\ UNCHANGED <<key, hook>>
          /\ UNCHANGED <<provider, upkeep>>
  /\ Watch
  /\ UNCHANGED <<wall, world, cache, job>>

(* Time.  A statement takes none.                                          *)
Tick ==
  /\ wall' = [wall EXCEPT !.age = IF @ < TTL THEN @ + 1 ELSE @]
  /\ mockFor' = IF provider = "mock" /\ mockFor <= TTL THEN mockFor + 1 ELSE mockFor
  /\ wall' # wall \/ mockFor' # mockFor
  /\ UNCHANGED <<settings, world, cache, job>>

-----------------------------------------------------------------------------
(* The wall: isEnabled under its mutex.                                    *)

Locked == \E r \in Requests : job[r].at \in {"upkeep", "provider"}

(* Middleware: an admin passes a closed wall.                              *)
Admit(r, admin, enabled, sure) ==
  IF enabled /\ ~ admin THEN Return(r)
  ELSE Goto(r, [at |-> "in", pass |-> [admin |-> admin, late |-> mockFor > TTL, sure |-> sure]])

(* Mutant of Enter: the cache is looked at before the mutex is taken.      *)
EnterUnlocked(r, admin) ==
  /\ At(r, "idle")
  /\ IF wall.age < TTL THEN Admit(r, admin, wall.enabled, wall.sure)
                       ELSE Goto(r, [at |-> "upkeep", admin |-> admin])
  /\ UNCHANGED <<settings, wall, mockFor, world, cache>>

Enter(r, admin) ==
  /\ At(r, "idle") /\ ~ Locked
  /\ IF wall.age < TTL THEN Admit(r, admin, wall.enabled, wall.sure)
                       ELSE Goto(r, [at |-> "upkeep", admin |-> admin])
  /\ UNCHANGED <<settings, wall, mockFor, world, cache>>

Store(r, enabled, sure) ==
  /\ wall' = [enabled |-> enabled, age |-> 0, sure |-> sure]
  /\ Admit(r, job[r].admin, enabled, sure)

(* Mutant of ReadMaintenance: maintenance_mode alone decides.              *)
ReadMaintenanceOnly(r, fails) ==
  /\ At(r, "upkeep")
  /\ Store(r, ~ fails /\ upkeep, ~ fails)
  /\ UNCHANGED <<settings, mockFor, world, cache>>

(* maintenance_mode; a read that fails, be it that the client has gone     *)
(* away, counts as off.                                                    *)
ReadMaintenance(r, fails) ==
  /\ At(r, "upkeep")
  /\ IF ~ fails /\ upkeep
       THEN Store(r, TRUE, TRUE)
       ELSE Goto(r, [job[r] EXCEPT !.at = "provider"]) /\ UNCHANGED wall
  /\ UNCHANGED <<settings, mockFor, world, cache>>

(* payment_provider: mock forces the wall up.                              *)
ReadProvider(r, fails) ==
  /\ At(r, "provider")
  /\ Store(r, ~ fails /\ provider = "mock", ~ fails)
  /\ UNCHANGED <<settings, mockFor, world, cache>>

-----------------------------------------------------------------------------
(* buildProvider: the name, the two secrets, the environment.              *)

Build(p, work) ==
  [at |-> "secrets", p |-> p, work |-> work, key |-> None, hook |-> None,
   env |-> None, product |-> None]

(* Mutant of CreateCheckout: the mock provider is built like a real one.   *)
CreateCheckoutAnywhere(r, a) ==
  /\ At(r, "in")
  /\ IF provider # None THEN Goto(r, Build(provider, [app |-> a])) ELSE Return(r)
  /\ UNCHANGED <<settings, wall, mockFor, world, cache>>

(* POST /checkout/session behind the wall.  The mock provider opens its    *)
(* session without asking anyone.                                          *)
CreateCheckout(r, a) ==
  /\ At(r, "in")
  /\ IF provider \in Real THEN Goto(r, Build(provider, [app |-> a])) ELSE Return(r)
  /\ UNCHANGED <<settings, wall, mockFor, world, cache>>

(* POST /payment/webhook: no wall.  Without a provider, or when its name   *)
(* cannot be read, the answer is 200; the mock provider refuses the        *)
(* signature.                                                              *)
WebhookReceive(r, e) ==
  /\ At(r, "idle") /\ e \in events
  /\ \/ provider \in Real /\ Goto(r, Build(provider, e)) /\ UNCHANGED events
     \/ provider = "mock" /\ Return(r) /\ UNCHANGED events
     \/ Return(r) /\ events' = events \ {e}
  /\ UNCHANGED <<settings, wall, mockFor, catalog, cache>>

IsEvent(w) == w \in Event

(* 200 ends the deliveries of an event.                                    *)
Answered(r) == events' = events \ {job[r].work}

(* loadSecret, twice, in one step.  Without both payment is not            *)
(* configured: 503 for a checkout, 200 for an event.                       *)
ReadSecrets(r) ==
  LET j == job[r] IN
  /\ At(r, "secrets")
  /\ IF None \in {key[j.p], hook[j.p]}
       THEN Return(r) /\ Answered(r)
       ELSE /\ Goto(r, [j EXCEPT !.at = "env", !.key = key[j.p], !.hook = hook[j.p]])
            /\ UNCHANGED events
  /\ UNCHANGED <<settings, wall, mockFor, catalog, cache>>

(* A read that fails is an environment that is not set.                    *)
ReadEnvironment(r, fails) ==
  LET j == job[r] IN
  /\ At(r, "env")
  /\ Goto(r, [j EXCEPT !.env = IF fails THEN Default ELSE env[j.p],
                       !.at = IF IsEvent(j.work) THEN "parse"
                              ELSE IF j.p = "polar" THEN "product" ELSE "open"])
  /\ UNCHANGED <<settings, wall, mockFor, world, cache>>

-----------------------------------------------------------------------------
(* Checkouts.                                                              *)

(* The provider's API takes a key only in the key's own environment.       *)
Allowed(j) == j.key = j.env

(* Mutant of GetProductID: a product is looked up by app alone.            *)
GetAnyProductID(a, e) ==
  LET known == {cache[<<a, f>>] : f \in Envs} \ {None}
  IN IF known = {} THEN None ELSE CHOOSE x \in known : TRUE

GetProductID(a, e) == cache[<<a, e>>]

(* ensureProduct, 1: what the cache has.                                   *)
LookUpProduct(r) ==
  LET j == job[r]
      known == GetProductID(j.work.app, j.env) IN
  /\ At(r, "product") /\ j.product = None /\ known # None
  /\ Goto(r, [j EXCEPT !.at = "open", !.product = known])
  /\ UNCHANGED <<settings, wall, mockFor, world, cache>>

(* 2: else a new product of Polar's, an orphan if the answer is lost.      *)
CreateProduct(r, x, lost) ==
  LET j == job[r] IN
  /\ At(r, "product") /\ j.product = None
  /\ GetProductID(j.work.app, j.env) = None
  /\ Allowed(j) /\ catalog[x] = None
  /\ catalog' = [catalog EXCEPT ![x] = <<j.env, j.work.app>>]
  /\ Goto(r, IF lost THEN Idle ELSE [j EXCEPT !.product = x])
  /\ UNCHANGED <<settings, wall, mockFor, cache, events>>

(* 3: SaveProductID; of two first checkouts the later one's stays.         *)
SaveProductID(r) ==
  LET j == job[r] IN
  /\ At(r, "product") /\ j.product # None
  /\ cache' = [cache EXCEPT ![<<j.work.app, j.env>>] = j.product]
  /\ Goto(r, [j EXCEPT !.at = "open"])
  /\ UNCHANGED <<settings, wall, mockFor, world>>

(* What a session may report once it is open.                              *)
Reported(j, kinds) ==
  /\ events' = events \cup {[by |-> j.p, env |-> j.env, kind |-> k] : k \in kinds}
  /\ Cardinality(events') <= Open

(* 4: Polar opens the session for the product, at our price.               *)
OpenCheckout(r, kinds) ==
  /\ At(r, "open") /\ job[r].p = "polar" /\ Allowed(job[r])
  /\ Reported(job[r], kinds)
  /\ Return(r)
  /\ UNCHANGED <<settings, wall, mockFor, catalog, cache>>

(* Paddle needs no product: everything is in the transaction.              *)
CreateTransaction(r, kinds) ==
  /\ At(r, "open") /\ job[r].p = "paddle" /\ Allowed(job[r])
  /\ Reported(job[r], kinds)
  /\ Return(r)
  /\ UNCHANGED <<settings, wall, mockFor, catalog, cache>>

-----------------------------------------------------------------------------
(* Events.                                                                 *)

(* A webhook is signed with the secret of the sender's environment.        *)
verifyWebhook(j) == j.p = j.work.by /\ j.hook = j.work.env

(* Polar's events carry our session id, orders and refunds alike.  400     *)
(* keeps the event, 200 ends its deliveries.                               *)
ParseWebhook(r) ==
  /\ At(r, "parse") /\ job[r].p = "polar"
  /\ IF verifyWebhook(job[r]) THEN Answered(r) ELSE UNCHANGED events
  /\ Return(r)
  /\ UNCHANGED <<settings, wall, mockFor, catalog, cache>>

(* The transaction of a refund is looked up with the key, and in the       *)
(* environment, that the request was built with.                           *)
parseAdjustment(j) == Allowed(j) /\ j.env = j.work.env

(* Of Paddle's events only orders carry it.                                *)
ParseNotification(r) ==
  LET j == job[r] IN
  /\ At(r, "parse") /\ j.p = "paddle"
  /\ IF verifyWebhook(j) /\ (j.work.kind = "refund" => parseAdjustment(j))
       THEN Answered(r) ELSE UNCHANGED events
  /\ Return(r)
  /\ UNCHANGED <<settings, wall, mockFor, catalog, cache>>

(* GET /checkout/mock/trigger: 404 unless mock is the provider.            *)
MockComplete(r) ==
  /\ At(r, "in")
  /\ IF provider = "mock" THEN Goto(r, [job[r] EXCEPT !.at = "mock"]) ELSE Return(r)
  /\ UNCHANGED <<settings, wall, mockFor, world, cache>>

(* Only the mock provider takes what is signed with the derived secret.    *)
TakesMock == provider = "mock"

(* The event it signs goes through processWebhook, which reads the         *)
(* provider again.                                                         *)
mockEmitAndDispatch(r) ==
  /\ At(r, "mock")
  /\ IF TakesMock THEN Goto(r, [job[r] EXCEPT !.at = "minted"]) ELSE Return(r)
  /\ UNCHANGED <<settings, wall, mockFor, world, cache>>

(* ... and the browser is sent to the success page.                        *)
Redirect(r) ==
  /\ At(r, "minted")
  /\ Return(r)
  /\ UNCHANGED <<settings, wall, mockFor, world, cache>>

(* The provider's API fails, a statement fails, or the process dies.  To   *)
(* an event whose secrets cannot be read or decrypted the answer is 200.   *)
Fail(r) ==
  /\ ~ At(r, "idle")
  /\ Return(r)
  /\ \/ UNCHANGED events
     \/ At(r, "secrets") /\ Answered(r)
  /\ UNCHANGED <<settings, wall, mockFor, catalog, cache>>

-----------------------------------------------------------------------------
Step(r) ==
  \/ \E admin \in BOOLEAN : Enter(r, admin)
  \/ \E fails \in BOOLEAN : ReadMaintenance(r, fails) \/ ReadProvider(r, fails)
  \/ \E a \in Apps : CreateCheckout(r, a)
  \/ \E e \in events : WebhookReceive(r, e)
  \/ ReadSecrets(r) \/ \E fails \in BOOLEAN : ReadEnvironment(r, fails)
  \/ LookUpProduct(r) \/ SaveProductID(r)
  \/ \E x \in Products, lost \in BOOLEAN : CreateProduct(r, x, lost)
  \/ \E kinds \in SUBSET Kinds : OpenCheckout(r, kinds) \/ CreateTransaction(r, kinds)
  \/ ParseWebhook(r) \/ ParseNotification(r)
  \/ MockComplete(r) \/ mockEmitAndDispatch(r) \/ Redirect(r)
  \/ Fail(r)

Next == AdminUpdateSetting \/ Tick \/ \E r \in Requests : Step(r)

Spec == Init /\ [][Next]_vars
-----------------------------------------------------------------------------
(* Polar is never asked for a product of another environment or app, and   *)
(* the cache never names one, however the environment is switched between  *)
(* the look-up, the creation and the saving of a product (ensureProduct).  *)
ProductOfItsCatalog ==
  /\ \A a \in Apps, e \in Envs :
        cache[<<a, e>>] # None => catalog[cache[<<a, e>>]] = <<e, a>>
  /\ \A r \in Requests :
        At(r, "open") /\ job[r].p = "polar" =>
          catalog[job[r].product] = <<job[r].env, job[r].work.app>>

(* The mock provider gives a license to nobody but admins, once the wall   *)
(* had TTL to notice that it was chosen: who got one had passed the wall   *)
(* before, or while the wall rested on a read that had failed.             *)
NoFreeLicense ==
  \A r \in Requests : At(r, "minted") =>
     job[r].pass.admin \/ ~ job[r].pass.late \/ ~ job[r].pass.sure

(* The two statements of isEnabled, under its mutex, are one look-up of    *)
(* whether mock is the provider, and are made only when the answer is old. *)
Wall == INSTANCE CachedFlag WITH
          flag <- provider = "mock", answer <- wall.enabled,
          sure <- wall.sure, age <- wall.age
WallIsCachedFlag == Wall!Spec

(* Expected by main.go: "it is kept safe by an invariant: selecting it     *)
(* forces the store into maintenance mode".  The read of the settings uses *)
(* the context of the request: when it fails, the wall is down for all     *)
(* until the cache is old again, however long mock has been the provider.  *)
MockIsWalled == mockFor > TTL /\ wall.age < TTL => wall.enabled
=============================================================================
