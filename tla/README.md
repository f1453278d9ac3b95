# stevio-home in TLA+

A verification development for stevio-home, the personal site and software
store under `src/` (Go API in `backend/`, React client in `frontend/`, one
Postgres). It models the parts of the backend where several actors touch the
same rows, files or settings: device activation, fulfilment of payment events,
prices and discount codes, the choice of a payment provider and the wall
around the store, the signing key, accounts, the catalogue, releases and their
downloads, and the support chat. TLC checks the models on small instances,
TLAPS proves the properties that matter most for every instance.

## The system

One Go process serves HTTP; every request, the provider's webhooks included,
runs on its own goroutine. All state of record is in PostgreSQL at READ
COMMITTED, reached through a pool of 25 connections. There is no queue and no
worker: what is not done inside a request is not done, except the hourly purge
of sessions and tokens and the goroutine that counts a discount use. So the
unit of interleaving is the SQL statement outside a transaction, and inside one
the statement that takes or waits for a row lock; the writes of a transaction
appear at its commit.

| component | state | operations | talks to | module |
| --- | --- | --- | --- | --- |
| Device activation (`handlers/sdk/license.go`) | `licenses`, `activations` | activate, deactivate | signing keys (a key must be active), fulfilment (grants slots), admin and erasure (delete) | `Activation` |
| Order fulfilment (`handlers/checkout`) | `orders`, `licenses` | order webhook, refund webhook | provider (events in any order, repeated until 200), licenses, discount counter | `Fulfillment` |
| License administration (`handlers/admin/licenses.go`, `users.go`) | the same tables | issue, unrevoke, void, delete an activation | the two above | both |
| Signing keys (`handlers/admin/signing_keys.go`) | `signing_keys` | rotate | activation and checkout read the active key | `SigningKeys` |
| Accounts (`app/auth_handlers.go`, `auth/`, `users/`) | `auth_tokens`, `sessions`, `users` | login, verify, logout, role change, purge | mailer, erasure | `Accounts` |
| Discounts (`handlers/admin/discounts.go`, `handlers/discounts`) | `discount_codes`, `auto_discounts` | price a checkout, show a price, count a use | checkout | `Pricing` |
| Payment providers (`payment/`, `handlers/checkout/providers.go`) | settings, `provider_products`, what the provider keeps | build a provider, open a session, take an event | checkout, settings | `Providers` |
| Settings, maintenance (`settings/`, `middleware/maintenance.go`) | `site_settings`, a cached flag | edit, gate requests | providers | `Providers`, `CachedFlag` |
| Catalogue (`handlers/admin/projects.go`, `apps.go`, `uploads.go`) | `projects`, `apps`, `project_images`, texts, files | edit, attach an app, publish, delete, restore, purge | checkout, store pages | `Catalog` |
| Downloads and updates (`handlers/sdk`, `handlers/account`) | `app_versions`, `download_tokens`, files | upload, announce, issue, spend once | licenses | `Releases` |
| Support chat (`handlers/chat`) | `chat_conversations`, `chat_messages`, `chat_bans` | write, read, ban, share the address | accounts, mailer | `Chat` |
| Erasure (`db/queries/userdata.go`) | nearly every table | export, erase, void | all of the above | a step in four of them |
| Localisation (`i18n/`) | locales, translations, an in-memory cache | edit, look up with fallback | every page | - |
| Rate limiter (`middleware/ratelimit.go`) | buckets in memory | allow, sweep | every request | - |

What makes each of them correct, and what is hard about it:

- **Activation.** The devices of a license never exceed its slots; nobody is
  thrown off by somebody else's activation; each request is answered. Hard:
  count-then-insert on concurrent requests, a cap read before the transaction,
  deletes that take no license lock.
- **Fulfilment.** A payment is recorded once, gives the slots it paid for once,
  and a refund holds. Hard: events come out of order, twice, and at the same
  time; two handlers answer the same error with different status codes; an
  admin changes rows in between.
- **Signing keys.** There is a key once there was one, and rotations are
  answered. Hard: two rotations at a time, each made of four statements that wait
  for each other's rows.
- **Accounts.** A link logs in once; nobody keeps a session or a role that was
  taken. Hard: link consumption, look-up and session are separate statements, and
  so are the two halves of a demotion.
- **Erasure.** Nothing of the person is left. Hard: other transactions that
  insert rows for the same person meanwhile.
- **Discounts.** The price shown is the price charged, never negative and never
  above the list; an order counts its code once. Hard: a checkout reads the app,
  the code and the automatic discount one after the other while an admin changes
  them; a use is counted after the fact, by a goroutine, at every delivery that
  fulfils.
- **Providers.** A store with the mock provider is never public; Polar is asked
  for products of the right environment and app. Hard: every setting is a row
  read by a statement of its own; a flag cached for five seconds.
- **Catalogue.** An uploaded picture that a row shows stays; what was ordered is
  never purged; a project that links elsewhere has no page. Hard: handlers read a
  project, decide, and write it in another statement; files are outside the
  transactions.
- **Downloads.** One token gives one download, to somebody who has a license.
  Hard: look-up, issue and use are separate statements; files are written in
  place while others read.
- **Chat.** What counts as read has been shown; a ban holds. Hard: no transaction
  spans a check, or a read, and its write.
- **Pool.** A handler never waits for a connection while it holds one.

`PROJECT.json` lists every hazard at its line, with the property that would
catch it, or the reason why none does.

## Modules

### `Activation.tla`, `DeviceSlots.tla`, `ActivationProofs.tla`

`DeviceSlots` is the promise: a license has a number of slots, taking a slot is
one step that needs a free one, and a machine leaves only by an explicit
release. `Activation` is the code, one action per statement:

| code | model |
| --- | --- |
| `licenses` row, `revoked`, `max_activations` | `row`, `revoked`, `cap` |
| `activations` of a license | `acts` |
| row lock of `SELECT .. FOR UPDATE` | `lock`, held at the points `Locked` |
| `maxActivations`, read before the transaction | `seenCap` |
| `ActivateLicense`: key guard, license read, lock, exists, count, upsert, sign | `ActivateLicense`, `ReadLicense`, `LockLicense`, `CheckExists`, `CountSlots`, `Upsert`, `Sign` |
| `DeactivateLicense`: license read, delete | `DeactivateLicense`, `FindLicense`, `DeleteOwn` |
| error, cancelled context, restart: rollback | `Abort` |
| fulfilment, refunds, admin, erasure, voiding | `InsertLicense`, `BumpCap`, `SetRevoked`, `DeleteActivation`, `DeleteLicense`, `ToggleKey` |

Those others are one action each: each is a single statement on the license
row, which waits for the row lock, or a transaction whose first effect here is
that statement. A machine's name, its version and `last_seen_at` are left out.

### `Fulfillment.tla`, `OrderLedger.tla`, `MCFulfillment.tla`, `FulfillmentProofs.tla`

`OrderLedger` is the promise: an event that is answered 200 was handled in one
step, which decides by what is recorded at that moment (`Fulfil`,
`FulfilRefunded`, `Duplicate`, `RefundFirst`, `RefundOrder`, `RefundOfNothing`),
and one that is not answered has changed nothing. `Fulfillment` is the code,
which looks up in one statement and writes in another.

| code | model |
| --- | --- |
| `orders` row of a payment session | `order[s]`: none, `stub` (refund came first), `filled` (a stub that got its customer; `refunded` is TRUE), `order` |
| `orders.id` | `ver[s]`: which row of that session it is |
| an open transaction that wrote the row | `holder[s]` |
| `licenses` | `live`, `orderOf`, `slots`, `revoked` |
| provider's events and their outcome | `sent`, `answered`, `dropped` |
| `processWebhook`, `fulfillOrder` | `Receive`, `ReadOrder`, `InsertOrder`, `FulfillStub`, `PickLicense`, `Commit` |
| `handleRefund` | `Receive`, `ReadForRefund`, `InsertRefundStub`, `RevokeByOrder` |
| status 200, 500 | `Answer`, `Refuse` |
| admin | `IssueLicense`, `UnrevokeLicense`, `VoidOrder` |

Choices a reader should know: there is one app, so "the license of app and
address" is "a license of this customer". The purchase mode is a setting an
admin may change at any time, so `PickLicense` may top up or not, each time.
`BumpLicenseMaxActivations` and the commit are one step, since the row lock of
the UPDATE keeps others away between them. `VoidOrder` is one step: it is one
transaction, and the delete of the orders row waits for whoever holds it.
`Ignore`, an event that is answered 200 because no provider could be built, is
modelled for events not yet answered; repeating an answered event into the void
changes nothing. The store's own reason for it is a provider that was switched
off, but an error while its settings are read has the same effect: the event is
lost, and the liveness properties exempt what was dropped. `Commit` adds slots to
nothing when the license the purchase found was voided meanwhile; such customers
are exempt in `SlotsMatchOrders`. `Lost(s)` is a payment that was answered and of
which a bare refund stub is all there is; `LostInRace` is how it comes about
(checkout.go:219-223), and `OrderLedger!Duplicate` makes it a legal step of the
ledger: refinement does not show it, `PaidIsRecorded` and `StubIsFilled` do. Money, discount snapshots and mails are left out. The slots of
a license are numbered from 1 (`SlotsOf`), so that those of several are counted
as one set.

### `SigningKeys.tla`, `AdminProofs.tla`

| code | model |
| --- | --- |
| `signing_keys`, `active` | `keys`, `active`, `used` |
| the row locks of an open transaction or statement | `locked[h]` |
| `InsertSigningKey` | `Insert` |
| `ActivateSigningKey`, first UPDATE | `Snapshot` (the rows it is about), `Deactivate` (it has their locks, and looks at them again) |
| second UPDATE, and the commit | `Activate` (the row's lock), `Commit` (the entry in the unique partial index on `active`) |
| `DeleteInactiveSigningKeys` | `DeleteInactive` (the rows it is about), `NextRow`, `DeleteRow` (each row's lock, in any order), `EndDelete` |
| error, closed connection, restart | `Abort` |
| PostgreSQL's deadlock detector | `Detect` |

`WaitsOn(h)` says whose transactions a rotation waits for: a DELETE waits for
rows that an activation has locked, an activation for the row that a DELETE has
locked and for the index entry of a key that another one is replacing. So
circles are possible, and PostgreSQL ends them by an error for one of them, which
the handler answers with 500. `CirclesNeedCleanup` says that none is possible
without a DELETE that is in the middle of its rows. An UPDATE's rows are locked
together here; at most one key is active, so it locks one.

### `Accounts.tla`, `AccountsProofs.tla`

| code | model |
| --- | --- |
| `users` by `email_hash`, `role` | `user`, `role`, `usedIds` |
| `auth_tokens` | `link`, `owner`; `mailed` is the set of links a person holds |
| `sessions` with the cached user id and role | `sessions` |
| `loginHandler` | `Login`, `CheckToken`, `InsertToken`, `SendMail` |
| `verifyHandler`, `FindOrCreate` | `Verify`, `Consume`, `FindUser`, `CreateUser`, `CreateSession` |
| `logoutHandler`, expiry, `AdminDeleteUserSessions`, `runCleanup` | `EndSession`, `DeleteSessionsByEmail`, `ExpireToken`, `Purge` |
| `EraseUserData`, statements 1, 2, 9 and the commit | `Erase`, `EraseSessions`, `EraseTokens`, `EraseUser` |
| rows deleted by an open erasure | `doomedS`, `doomedT` |
| `main` before it listens | `Seed`, `Scan`, `Demote`, `LogOut`, `Serve`, `Fault`, `Restart` |
| `ADMIN_EMAILS` | `allow`, chosen anew by every restart |

Choices a reader should know: a row that an erasure has deleted is still seen by
others until the commit, and who wants to change it waits. Statements 3 to 8 of
an erasure touch none of these tables and are left out here. An expired session
is refused like one that is gone, so expiry and logout are one action. A login
link is used only by whoever got the mail. `Fault` is a crash of the start (it
begins anew) or a statement of it that fails, which the code logs and passes
over; `clean` says that none has failed in this start. The variables `opened`,
`erased`, `voided` and `half` are histories: no guard reads them.

### `Pricing.tla`, `MCPricing.tla`, `PricingProofs.tla`

| code | model |
| --- | --- |
| `apps.price_cents`, `auto_discounts`, the row of one code string | `price`, `auto`, `code` |
| `ApplyDiscount`, `ValidateDiscountCode`, `GetActiveAutoDiscount`, `bestAutoDiscount` | operators of the same names; several equal discounts give a set, any of which may be taken |
| price shown by `GET /projects` and by `POST /discounts/validate` | `Shown`, `ValidateDiscount` |
| `CreateCheckout`, `computeDiscountedPrice` | `CreateCheckout`, `ValidateCode`, `ReadCode`, `ReadAuto`, `OpenSession`, one statement each; `computeDiscountedPrice` is what they arrive at while nothing changes |
| `processWebhook`, as far as the code goes | `Pay`, `LookUpOrder`, `FulfilOrder`, `BreakOff`, `Refund`, `VoidOrder` over the orders row `row`; the rest is in `Fulfillment` |
| the goroutine after each fulfilment | `started`, `pending`, `IncrementDiscountUses`, `LoseCount` |
| admin and calendar | `Manage` and its disjuncts |

Codes do not influence each other, so there is one code string. A validity
period is a flag that the calendar flips. A checkout opens at most one session,
with the provider of the moment (`mock` says whether it is the mock one).

An order event goes on when it finds no row, or one that is refunded
(checkout.go:209-214), and every fulfilment starts the goroutine
(checkout.go:229-235). So an order whose refund came first, or that an admin
voided, is counted again by each later delivery: a known deviation from "one use
per order", and `UsesAreOrders` says exactly that of every other order. `touched`
and `started` are the histories it is told by. When two discounts of one scope
are in force, the scan of the store and the LIMIT 1 of the checkout may take
different ones (no tiebreak in either query), so `ShownIsCharged` is about
discounts that do not tie (`Tied`).

### `Providers.tla`, `CachedFlag.tla`, `MCProviders.tla`, `ProvidersProofs.tla`

`CachedFlag` is the promise of the wall: the answer kept for `TTL` was right when
it was looked up, looking up is one step and happens only when the answer is
old. `Providers` implements it,

    Wall == INSTANCE CachedFlag WITH
              flag <- provider = "mock", answer <- wall.enabled,
              sure <- wall.sure, age <- wall.age

although the code makes two statements of a look-up: its mutex makes them one.

| code | model |
| --- | --- |
| rows of `site_settings` | `provider`, `upkeep`, and per provider `key`, `hook` (for which environment the secret is) and `env` |
| `MaintenanceChecker` | `wall`; `Enter`, `ReadMaintenance`, `ReadProvider` |
| `buildProvider` | `ReadSecrets`, `ReadEnvironment`; without a setting the environment is `Default` (polar.go, paddle.go: production) |
| `ensureProduct`, `provider_products` | `LookUpProduct`, `CreateProduct`, `SaveProductID`; `cache`; Polar's own products are `catalog` (external) |
| `CreateSession` of Polar and Paddle | `OpenCheckout`, `CreateTransaction` |
| `WebhookReceive`, the providers' parsers | `WebhookReceive`, `ParseWebhook`, `ParseNotification` |
| the mock provider | `MockComplete`, `mockEmitAndDispatch`, `Redirect` |

Choices a reader should know: a signature is valid when secret and sender are of
one environment; the provider's API accepts a key only there. Statements take no
time, only ticks between them do. The two secrets of a provider are read in one
step. A webhook whose provider cannot be built, because a setting could not be read
or decrypted, is answered 200 and gone (`Fail`, `WebhookReceive`). `mockFor`, and
`sure` and `late` of a pass, are histories.

### `Catalog.tla`, `MCCatalog.tla`, `AdminProofs.tla`

| code | model |
| --- | --- |
| `projects`, `apps`, `project_images`, `orders.app_id`, `entity_translations` | `proj`, `app`, `gallery`, `sold`, `texts` |
| the assets directory | `files` |
| `AdminCreateProject`, `AdminUpdateProject`, `AdminAttachCommerce`, `AdminDetachCommerce`, `resolveDetailPage` | a look-up that is remembered in `job`, then the write that relies on it |
| `HardDeleteProject` | `CountOrders`, `CollectFiles`, `PurgeProject` under the foreign keys, and `Unlink` after the commit |
| `AdminUploadProjectImage`, `AdminUploadProjectGalleryImage` | the file, then `UpdateProjectImageURL` or `InsertProjectImage` |
| `AdminDeleteProjectImage` | the row, then `Unlink` |
| `GetProjectDetail`, the sitemap | operators over the state, `Pages` |

Ids are never used twice, as in the code. `image_url` comes from the client
(create, update): none, a path without a file (`elsewhere`), or any file of any
project. A permanent deletion unlinks what its project names, so a file that
another project's `image_url` has named (`lent`) may go with that one: a known
deviation, exempt in `PicturesStay`, which is about the pictures a project has
uploaded itself. Left out: the order of projects and pictures, and what the texts
say. The lost update of two attach requests is in
the model (`AdminAttachCommerce` remembers the whole row), and no sentence of the
repository rules it out. A sitemap entry whose slug is empty names a project by
its id, which the detail page does not look up.

### `Releases.tla`, `MCReleases.tla`, `ReleasesProofs.tla`

| code | model |
| --- | --- |
| `licenses`, `app_versions`, `download_tokens` | `license`, `version`, `token` |
| `AppsDir` | `file`: which upload a file holds, if it is whole |
| `AdminCreateVersion`, `AdminUploadBinary` | `AdminCreateVersion`, `AdminUploadBinary`, `WriteFile`, `UpdateAppVersionFilePath` |
| `CheckForUpdate`, `CreateDownloadToken` | `CheckForUpdate`, `ReadLatest`, `CreateDownloadToken`, `InsertDownloadToken` |
| `ServeDownload` | `ConsumeDownloadToken`, `ServeDownload` (the newest version as it is by now), `ServeFile` |
| refunds, unrevocation, erasure | `SetRevoked`, `DeleteLicense` |

`copied`, `clear`, `alone`, `revoked`, `taken`, `overdue` and `late` are histories.
An upload truncates the file and copies into it in place. Two of one name at once
leave a mixture, which the row of a version may name by then: `PathIsWhole`
promises a whole file only for an upload that no other one of its name crossed
(`clear`), from its row on and until the next one begins, whatever was there
before; and for every upload that its row is written after its own copy ended
(`copied`). Things the model has and no sentence of the repository speaks against: a token is spent
with 404 while the latest version has no file yet; two versions that share a
file name replace each other's file; the upload does not compare the app of the
path with that of the version; spent tokens are never purged.

### `Chat.tla`, `MCChat.tla`, `ChatProofs.tla`

| code | model |
| --- | --- |
| `chat_conversations`, `chat_messages`, `chat_bans` | `conv`, `msg`, `banned` |
| `CreateChat` | `CreateChat`, `ConversationExists`, `generateDisplayName`, `CreateConversation` |
| `SendMessage`, `sendNotification` | `SendMessage`, `FindConversation`, `CreateMessage`, `sendNotification`, `SetConversationNotified` |
| `GetChat`, `AdminGetChat` | the same, `GetMessages`, `MarkMessagesRead` |
| `ShareEmail`, `DeleteChat`, `AdminDeleteChat`, `AdminBanUser` | the same, then the statement of each |
| `EraseUserData`, as far as the chat goes | `EraseUserData` |

`shown` (what each side was ever answered), `missed` (what was written between an
answer and the marking that follows it), `mailed` (the messages whose mail went
out) and `late` are histories. Left out: texts, the removal of addresses from
them, order and paging of the admin's list. What the model shows besides its
properties: a message that arrives while a chat is being opened is marked read
unseen (`ReadWasShown` says it is the only one that can be); a banned customer
who deletes the chat cannot be unbanned from the list; a request under way may
write a conversation or a ban for an erased user.

## Runs

| run | instance | distinct states | shows |
| --- | --- | --- | --- |
| `activation` | 1 license, 3 machines, 2 requests at a time, grants of 1 or 2, at most 2 slots | 111,750 | `TypeOK`, `CapRespected`, `NoEviction`, `ImplementsSlots` (refinement of `DeviceSlots`), `Answered` (liveness) |
| `fulfillment` | 2 sessions of one customer, 2 deliveries at a time, 1 failing, 2 licenses, 1 void | 331,943, up to symmetry and view | `TypeOK`, `FulfilledOnce`, `RefundSticks`, `SlotsMatchOrders`, `HandledAtOnce` (refinement of `OrderLedger`) |
| `fulfillment_live` | 1 session, 2 deliveries at a time, 1 void, 1 failing delivery | 87,097 | `PaidIsRecorded`, `RefundIsAnswered` (liveness) |
| `signing_keys` | 3 rotations at a time, 3 keys | 236,520 | `KeyTypeOK`, `CirclesNeedCleanup`, `KeyLostOnlyToCleanup`, `RotationEnds` (liveness) |
| `accounts` | 1 address, 2 links, 2 user ids, 2 requests at a time, 1 restart, 1 fault | 477,805 | `TypeOK`, `LinkOpensOnce`, `VoidedLinkIsDead`, `OneUserPerAddress`, `NoStaleAdmin` |
| `pricing` | 1 app for sale, 1 other a discount may name, 1 checkout, 2 automatic discounts, 2 deliveries of an order at a time, 2 goroutines of one order, a limit of 1, 3 changes | 602,013 | `TypeOK`, `ChargedWithinList`, `ShownIsCharged`, `UsesAreOrders` |
| `providers` | both providers, 2 environments, 1 app, 2 products, 2 requests, 2 settings changed, `TTL` 1 | 1,737,429 | `TypeOK`, `ProductOfItsCatalog`, `NoFreeLicense`, `WallIsCachedFlag` (refinement of `CachedFlag`) |
| `catalog` | 1 project, 1 gallery picture, 2 apps, 2 bundle ids, 2 handlers | 912,151, up to symmetry and view | `TypeOK`, `ExternalHasNoPage`, `OrdersKeepProduct`, `PicturesStay` |
| `releases` | 1 app, 2 versions, 2 file names, 1 license, 1 token, 2 requests, `TTL` 1 | 1,026,668, up to symmetry | `TypeOK`, `DownloadsAreLicensed`, `PathIsWhole` |
| `chat` | 2 customers, 1 pseudonym, 2 conversations, 1 message, 2 requests | 617,233 | `TypeOK`, `ReadWasShown`, `BanHolds` |

A view leaves out what no action and no property of its run reads (`Undropped`:
which events were dropped; `Textless`: which texts there are).

Four more instances pass and are run by hand (`tlc -config Counting.cfg MCPricing`);
each is larger in the one direction its run is small in.

| config, module | instance | distinct states | shows |
| --- | --- | --- | --- |
| `Counting.cfg`, `MCPricing` | 2 checkouts that count one code, a limit of 2, no automatic discounts | 2,072,088 | `TypeOK`, `UsesAreOrders` |
| `Pictures.cfg`, `MCCatalog` | 1 project with 2 gallery pictures, no apps | 1,402,929 | `PicturesStay` |
| `Borrowed.cfg`, `MCCatalog` | 2 projects that may name each other's pictures | 2,665,877 | `PicturesStay` |
| `ChatRead.cfg`, `MCChat` | 1 customer, 2 messages | 330,586 | `ReadWasShown` |

Why the bounds are enough for the cases that matter. Two requests and three
machines are the least with which a request can fill the last slot between
another's count and its insert while a third machine leaves. Slots of one
license need no second license: no statement touches two. Two sessions of one
customer are the least with which a top-up can find a license that another
order owns; two deliveries at a time make every pair of handlers overlap, and
deliveries follow each other without end, so repeats and reorderings are
unbounded. One void suffices to reach a successor row; two licenses to see a
second one appear. `MaxFails` 1 lets a handler die at each of its points. In
`Accounts` no statement touches the rows of two addresses but the loops of the
start, which visit them one by one, so one address shows the races; two links
and two ids are the least with which somebody logs in again after an erasure;
one restart and one fault break one demotion off.

`SigningKeys`: three rotations are the least with which one waits for a row, one
holds it and a third one's clean-up deletes it. `Pricing`: half price, a little
off and a fixed discount above the price, two of them for one app, one of another
app, reach a price of nothing, rounding (half of 5), ties and the choice between
discounts. Checkouts meet in the code's counter alone, so one checkout whose order
is delivered, refunded and voided shows what a code counts, and `Counting.cfg` two
of them. Two deliveries past the look-up at once, and as many fulfilments
of one order, are the least that count twice; three changes are
enough to make a code, delete it for good and make it again after a use.
`Providers`: two environments and two changes let a checkout be built from old
and new settings; two products let two first checkouts create one each; two
requests meet at the mutex. `Catalog`: the statements of a handler concern one
project; two apps are the least of which one can be detached and restored behind
the other; `Borrowed.cfg` has the two projects with which one names the other's
picture, which only the exemption of `PicturesStay` is about. Slugs only name pages, and no
property of the runs tells one from another, so none is typed. `Releases`: two
versions under two names, so that they can share a file and be uploaded again under
another; a path is a name to the model, and no statement touches two tokens. Two
requests let one upload cross another; the proof covers more. `Chat`: two
customers because one pseudonym can be taken by the other; one message at a time
arrives before, in or after the gap of an answer, `ChatRead.cfg` has two; two
requests because a check and its write are raced by one other request.

The proofs remove these bounds for the properties they cover.

### Fairness

`Activation`: weak fairness for each step of a request (a handler keeps
running), strong fairness for `LockLicense`, because PostgreSQL serves the
waiters of a row lock in the order they came. `Fulfillment`: weak fairness for
the steps of a handler, strong fairness for the redelivery of an event that was
not answered 200 (that is the providers' contract, and a worker is free again
and again); failures are bounded, since a database that always fails records
nothing. `SigningKeys`: weak fairness for the steps, and for `Detect`, because
PostgreSQL looks for circles of waits after `deadlock_timeout`. The other modules state no
liveness and assume no fairness. Nothing obliges a customer
to buy, an admin to act or a client to send a request.

### What the repository says and the code does not do

Two runs state a sentence of the repository and are violated by the code as
modelled; `PROJECT.json` quotes the sentences under "findings".

| run | sentence | what happens |
| --- | --- | --- |
| `duplicate_order` | the same session twice gives one order and one license | refund, order, order again: `refunded` stays TRUE, so the repeated order is fulfilled again |
| `wall_opens` | choosing the mock provider forces the store into maintenance, so it is never public | a read of the settings that fails (the client that found the cache old went away) counts as "no maintenance" and is kept for five seconds, for everybody |

Nine more are kept beside them, to be run by hand
(`tlc -config RefundTopUp.cfg MCFulfillment`); TLC finds each property violated.

| config, module | property | sentence | what happens |
| --- | --- | --- | --- |
| `OrderRefundRace.cfg`, `MCFulfillment` | `StubIsFilled` | `FulfillStubOrder` fills a stub when its order comes (001_schema.sql:83-85) | the order handler reads no row, the refund inserts the stub, the order's INSERT is a unique violation and is answered 200 (checkout.go:219-223): the payment is lost |
| `CheapestWins.cfg`, `MCPricing` | `CheapestWins` | the cheapest applicable automatic discount wins (store/projects.go:139) | store and checkout take one of the app before any store-wide one, and any of equals, whatever the prices |
| `ChatMails.cfg`, `MCChat` | `MailedOnce` | the notification is mailed once per conversation (customer.go:167) | two first messages at once both find the flag unset |
| `RefundTopUp.cfg`, `MCFulfillment` | `RefundTakesBack` | refunds revoke what they paid for | a refunded top-up takes nothing back; a refunded first purchase takes the others' slots along |
| `RefundAgain.cfg`, `MCFulfillment` | `PardonStands` | handling a refund is idempotent | a repeated refund event revokes a license an admin has unrevoked since |
| `ConcurrentRotation.cfg`, `SigningKeys` | `ActivatesGiven` | activation sets the given key active | the key was deleted by another rotation's clean-up; no key is active and the answer is 201 |
| `InterruptedDemotion.cfg`, `Accounts` | `RemovedIsLoggedOut` | who is taken off `ADMIN_EMAILS` is demoted and logged out on the next restart | the start breaks off after the role and before the sessions; the next start looks for admins only and leaves the session, which acts as admin until it expires |
| `ErasureRace.cfg`, `Accounts` | `ErasureIsComplete` | no identifier survives erasure | a login makes its session after the erasure's first DELETE and before its commit |
| `UnreachableOffer.cfg`, `MCCatalog` | `OfferHasPage` | what is for sale has a detail page, forced | `POST /admin/apps` and the restore of an app do not force it |

Deviations that no sentence of the repository speaks against, and that the
properties exempt by name: slots added to a license that was voided between
look-up and UPDATE, events dropped when settings cannot be read, uses counted
again for refunded and voided orders, pictures unlinked with another project that
named them, messages marked read in the gap between answer and marking, and torn
files of overlapping uploads. The sections above say where each is in the model.

## Proofs

`ActivationProofs` proves of `Activation!Spec`, for any requests, licenses,
finite set of machines and bounds: `TypeCorrect`, `DeviceCap`
(`CapRespected`), `NoSlotIsStolen` (`NoEviction`) and
`ActivationImplementsSlots`. The invariant `IInv` adds to the cap what makes it
inductive. `LockHeld`: the lock is held exactly by the request inside its
transaction. `LockedRowStays`: so the row cannot go meanwhile. `SeenCapIsLow`:
the cap a request remembers may be stale but only too low, because slots are
only ever added to a license that stays. `RoomToInsert`: what count (or exists)
established still holds at the insert, because inserts need the lock and
deletes only make room. `AbsentIsEmpty`: a license that is gone has neither
slots nor devices. The refinement follows: `Upsert` is `Take` or a stutter,
`BumpCap` and `InsertLicense` are `Grant`, the deletes are `Release` and
`Withdraw`.

`FulfillmentProofs` proves of `Fulfillment!Spec`: `TypeCorrect`,
`IdempotentFulfilment` (`FulfilledOnce`), `RefundsHold` (`RefundSticks`),
`SlotsPaidFor` (`SlotsMatchOrders`), `EventsAreAtomic` (`HandledAtOnce`) and
`NoUndueRevocation` (`RevokedForRefund`, an action property that no run checks). Its `IInv` says that the open
transaction of a row is unique (`RowHeld`) and finds the row as it read it
(`RowAsSeen`), that a refund about to revoke finds the order or a later row
(`RevokerAsSeen`), that a refund answered once is remembered as an order or a
stub until the order is voided (`RefundRemembered`), and that a row with
`refunded` has no usable license an admin did not restore
(`RefundedIsRevoked`). Counting slots takes a second invariant, `SlotsInv`: only
voiding its order deletes a license (`GoneWasVoided`), so the license a request
is about to top up is there unless its buyer is no longer a plain customer
(`TargetIsBuyers`), and there are finitely many orders and slots (`Countable`).
Each step that touches a license then adds as many slots as orders, or none
(`SlotsKept`, `SlotsAdded`, `SlotsTopped` count them). The refinement rests on
both: because the row an open transaction wrote is as it was read (`RowAsSeen`),
`Commit` is `Fulfil` or `FulfilRefunded`; `RevokeByOrder` is `RefundOrder` if the
row is still the one that was read (`RevokerAsSeen`) and `RefundOfNothing` if
not; `InsertRefundStub` is `RefundFirst`; every other step that answers finds a
row that knows its event, and the rest are stutters.
What holds of the ledger's steps then holds of the handlers: `NothingIsForgotten`
(`AnsweredIsRecorded`: what was answered has a row, be it a bare stub, until an
admin voids it) is shown that way. `LossIsRace`, the safety half of
`PaidIsRecorded`, is not a matter of the ledger: an answered payment is left with
a bare stub only if the delivery that was answered had found no row before the
refund inserted the stub.

`AccountsProofs` proves of `Accounts!Spec`, for any addresses, links, ids,
requests and bounds: `TypeCorrect`, `OneLoginPerLink` (`LinkOpensOnce`),
`ErasedLinksAreDead` (`VoidedLinkIsDead`), `OneUser` (`OneUserPerAddress`) and
`NoAdminStays` (`NoStaleAdmin`). There are three invariants over one base
(`TypeOK` and `RequestsOK`, what a request knows at its step). `LinkInv` adds
`LinksOK`: a consumed link is in the hands of one request, has opened nothing
yet and was not voided. `UserInv` adds `UsersOK`: ids are handed out once, and a
request about to make a session has the id its address has, unless it was
erased. `RoleInv` adds to that `StartOK` (after the scan every admin is on the
list or still to be demoted) and `CachedRoles` (a cached admin role is the
row's, but for a half-done demotion).

`PricingProofs` proves of `Pricing!Spec`, for any prices, discounts, finite set
of checkouts and bounds, all it is checked for: `TypeCorrect`, `ChargeIsFair`
(`ChargedWithinList`), `CountedOnce` (`UsesAreOrders`) and `OnePrice`
(`ShownIsCharged`). `WithinPrice` bounds a discount, percentages by integer
division; `LoopIsQuery` shows the loop of the store and the query of the checkout
to take the same discounts, and `OneBest` that they are one if none tie. The
invariants are the types, `Fair` (a checkout goes on with a positive list price
and charges part of it), and for the counting that an order nobody refunded or
voided has its row, and only then a goroutine, the first one, and that uses never
exceed the goroutines that have ended.

`ProvidersProofs` proves of `Providers!Spec`, for any apps, products, requests
and `TTL`: `TypeCorrect`, `WallRefines` (`WallIsCachedFlag`), `NothingFree`
(`NoFreeLicense`) and `OwnProducts` (`ProductOfItsCatalog`). `Mutex` says that
the request inside `isEnabled` is alone and the answer old; with it, each of the
two reads is a look-up of `CachedFlag` or a stutter. `FreeInv` adds `NoIsRecent`
(a "no" that came of a read that worked is at least as old as mock's time in
office) and `PassesOK`. `ProductInv` says that cache and requests only name
products that were made for their environment and app, which no step can undo.

`ReleasesProofs` proves of `Releases!Spec`: `TypeCorrect`, `Licensed`
(`DownloadsAreLicensed`) and `WholePaths` (`PathIsWhole`). `TokenInv` says that a
token is taken once and then used (`SpentOnce`), and that a token of a license
revoked for long has run out or came late (`TokensOK`, over `ClocksOK` and
`LookupsOK`). For paths, `UploadsOK` says that an upload whose copy ended has been copied, and
is there if nothing crossed it, and that while one copies, no `clear` version
names its path and no other upload of that path counts as uncrossed. It holds for
any number of uploads of one name, failing ones included.

`ChatProofs` proves of `Chat!Spec`: `TypeCorrect`, `NothingReadUnseen`
(`ReadWasShown`) and `BansHold` (`BanHolds`). For the first, a message that is in
the chat when a side is answered is shown to it, and one written between the
answer and the marking is in `missed` before the marking comes. `BanInv` says that
a request of a barred customer is a late one (`BarredAreLate`) and writes into its
author's conversation (`OwnConversation`).

`AdminProofs` proves of `SigningKeys!KeySpec`: `KeyTypes` (`KeyTypeOK`), `KeyLoss`
(`KeyLostOnlyToCleanup`) and `OnlyCleanupsClose` (`CirclesNeedCleanup`). The last
rests on `RowsHeld` and `LocksOK`: a rotation that is not in its clean-up holds
the active key or its own, one row has one holder, and a key about to be activated
is one rotation's. So one that waits for the active key waits for its holder,
who waits for nobody but a clean-up.

`AdminProofs` proves of `Catalog!Spec`, for any projects, apps, pictures, slugs,
bundle ids and requests: `CatalogTypes` (`TypeOK`, one live app for each project
included), `OneAddress` (`ExternalHasNoPage`), `OrdersKeepApp`
(`OrdersKeepProduct`) and `PicturesAreThere` (`PicturesStay`). First come four
lemmas that say what any step does to a project (`ProjectWritten`), to an app
(`AppWritten`), to the pictures (`PicturesWritten`) and what it hands a handler to
do next (`Given`); the invariants follow from them without looking at the
actions again. `PageOrLink` is inductive alone, since every writer of a project
writes page and link together. `AppsHaveProject` is so with `OrdersKeepProduct`:
the project that a permanent deletion takes away has no app left. For pictures,
`CardsOK` says that the file of a card picture stays until its project is gone,
also for a handler that remembers its name; `UploadsOK` that an upload is in the
hands of one handler until it has its row; `UnlinksOK` that what is about to be
unlinked has no row and never gets one.

Assumptions on constants are the named ASSUMEs of the modules: machines,
license ids and checkouts are finite, slots per purchase are positive,
percentages are at most 100, limits and bounds are naturals, a gallery
picture's name is no project's id, the markers for
"nobody" and "no row" are none of the things they stand beside. TLC evaluates
each of them.

Only model-checked: liveness (`Answered`, `PaidIsRecorded`, `RefundIsAnswered`,
`RotationEnds`), since the prover handles neither fairness nor ENABLED. Every
other property of the passing runs is proved.

## Not modelled

See "components" in `PROJECT.json`. In short:

- **Connection pool and lock order of erasure.** Handlers that ask the pool for a
  second connection inside a transaction, and erasure and voiding that lock
  activations before the license, can wait on each other. A model of either would
  restate which resources a handler takes in which order; PostgreSQL breaks the
  cycle of row locks by an error, which is `Abort` in `Activation`.
- **Erasure against open webhooks.** `Accounts`, `Chat`, `Activation` and
  `Releases` have erasure as a step of theirs; `Fulfillment` has `VoidOrder` but
  not the erasure of a whole customer.
- **Locale cache.** Loaded under its mutex and invalidated after each write;
  nothing of record depends on it.
- **Rate limiter.** Buckets in floating point under one mutex.
- **Pure functions and I/O.** Cryptography and encodings (signatures, HMACs,
  markdown, paths), SMTP, range requests, the CLI and the migrations (one-shot, on
  a quiet database), independent single-row reads and writes (hero, legal pages,
  social links, statistics) and the web client.
