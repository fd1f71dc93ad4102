# Verification of the KLH canteen backend

TLA+ modules, TLC instances and TLAPS proofs kept beside `src/`. The system is the
order and payment backend of a college canteen: a Hono application that runs as a
Cloudflare Worker (or a Node process) in front of PostgreSQL, with two Durable
Objects (live events, rate limits), Telegram and Google as side channels, and the
GuruPay UPI gateway.

## 1. Inventory

Every HTTP request is a short-lived worker; all shared state is in PostgreSQL, in a
Durable Object, or at the gateway. There is no scheduler: sweeps run in the
background of other requests. What makes the system hard is therefore

* workers that die, or lose the reply of a statement, between two SQL statements;
* `neon-http` has no cheap interactive transactions, so most operations are chains of
  single statements with a compensation, and only a few open a transaction;
* two counters (`MenuItem.reservedQty`, `CollectionWindow.bookedCount`) that many
  operations move and none owns;
* a payment gateway that answers late, twice, or not at all.

| Component (source) | State | Operations | Talks to | What must hold |
|---|---|---|---|---|
| Ordering (`services/orderService.ts`) | orders and their items, `reservedQty`, `stockQty`, `bookedCount` | createOrder (claim, seat, insert, compensate), releaseOrderReservation, releaseExpiredReservations, reconcileReservations, updateOrderStatus, cancelOrder, openOrderForAdmin | menu rows, payments, events | portions promised are freed exactly once, and what loses one from the counter is known; stock leaves with food only; no window is overbooked; over is over |
| Payments (`services/paymentService.ts`, `routes/payments.ts`) | `Payment` rows, `Order.paymentId`, `awaitingPayment` | initiatePayment, releaseUnpaidOrders, applyWebhook, reconcileWithGateway, expireStalePayments | ordering, gateway, events | no unpaid food; decided payments stay decided; a payment that fails, lapses or is never decided does not hold its orders' portions for good |
| Events hub, Durable Object (`durableObjects/orderEventsHub.ts`) | per shard: pending queue, sequence number, retained frames, connections | emit, alarm/flush, connect and replay, prune | every service that changes something | a client has seen every frame for it or was told to resync; queues drain; frames arrive in order |
| Events hub, Node process, and what the routes announce (`services/nodeEventsHub.ts`, `services/sseService.ts`, `lib/realtime.ts`, `routes/`) | the same in memory, for two shards | emit to the shards concerned, flush, connect, restart | routes, screens | a screen is never behind its shard, piece by piece; nobody receives what is for others |
| Sessions and passwords (`services/authService.ts`, `middleware/auth.ts`, `lib/jwt.ts`) | password hash, its cost, `mustChangePassword`, `tokensValidFrom`, `isActive` | login with re-hash, changeOwnPassword, logoutEverywhere, adminResetPassword, requireAuth | users | a token that a revocation refuses stays refused, but for an overlapping revocation; the shared starting password is transitional |
| Users, cohorts, imports, audit (`services/userAdminService.ts`, `cohortService.ts`, `studentRosterService.ts`, `studentImportService.ts`, `auditService.ts`) | users, audit log | create, edit, delete, (de)activate, promote, import twice over | sessions, orders | one account per identity, for a login that looks in two columns; what history refers to stays; no more is turned off than was confirmed |
| Google sign-in (`services/googleAuthService.ts`) | `googleId` | look up, link, enroll (DRK); enroll with a username (KLH) | users | one account per Google identity |
| Menu: categories and items (`services/menuService.ts`, `db/menuItemRepo.ts`, `db/categoryRepo.ts`) | categories, items, `isAvailable`, `isArchived` | create, update, move, archive, bulk update | ordering, images | archiving a category leaves nothing of it on the menu |
| Menu images (`services/menuImageService.ts`, `db/menuItemImageRepo.ts`) | image row, hash on the item | put, delete | menu | the hash stands for the bytes |
| Stock requests (`services/stockRequestService.ts`) | one row per student and item | request, notifyRestocked (read, send, delete) | Telegram | a round answers everybody it found |
| Telegram (`services/telegramService.ts`) | link codes and their expiry, chat ids | link, redeem, unlink | users | a chat belongs to one student |
| Rate limiting (`middleware/rateLimit.ts`, `durableObjects/rateLimiterHub.ts`) | a fixed window per identity and prefix | consume, progressive delay, reset, sweep alarm | login, guest and order routes | a bounded number passes; nobody is slowed early; logins are never refused; storage is swept |
| Soft lock on orders (`openOrderForAdmin`) | locked by, locked until | open, lapse | board | advisory: nothing else reads it |
| Exports, reads, platform fee, system status, plumbing | none of their own | | | |

## 2. Modules

| Module | What it is |
|---|---|
| `CanteenOrders` | createOrder statement by statement, the compensation, the kitchen's board, cancelOrder, the two sweeps, the admin's stock edits; the counters `reservedQty` and `bookedCount` |
| `CanteenPayments` | extends `CanteenOrders` with payments: checkout, the gateway, settlement, polling and expiry. Its next-state relation contains that of the orders, so every race between a payment and the kitchen, a cancellation or a sweep is in it |
| `EventsHub` | one shard of the live-events hub (the Durable Object): emit, the coalescing alarm, the retained log, connecting and replay, dropped and lost connections, resets |
| `EventFeed` | the abstract feed that `EventsHub` implements: changes are published, a client is owed what it asked for, and nobody is current who is owed something |
| `LiveBoards` | what the routes announce after their writes, the routing of announcements to two shards, the in-memory hub of the Node process, and the screens that patch themselves |
| `Requests` | what the next modules share: a request and how far its worker has come |
| `Accounts` | the `User` table under sign-in, Google, passwords and resets, revocation, the superadmin's edits, cohort promotion, the two imports and the audit log |
| `Catalog` | categories, items and pictures as admins edit them, with the row lock of the picture transactions |
| `StockRequests` | extends `Catalog` with stock requests, the restock round and Telegram links; its next-state relation contains the menu's |
| `RateLimiter` | one counter: the middleware, the Durable Object, its alarm |
| `Selections` | the elements of a sequence at chosen positions (`Array.prototype.filter`), which both hubs group, replay and fan out with |
| `CanteenOrdersProofs`, `CanteenPaymentsProofs`, `AccountsProofs`, `StockRequestsProofs`, `RateLimiterProofs`, `SelectionsProofs`, `EventsHubProofs`, `LiveBoardsProofs` | theorems (section 4) |
| `MCOrders`, `MCPayments`, `MCEvents`, `MCLive`, `MCAccounts`, `MCMenu`, `MCLimiter` | the constants of the TLC instances |

### How the model reads the code

* **A step is a statement.** One SQL statement, or one `BEGIN ... COMMIT`, is one
  action. What a worker does next is its program counter (`pc`, `callPc`, `pollPc`,
  `cancelPc`) in the orders and payments and the `stage` of `call[c]` in the modules over
  `Requests`. In the former a worker dies by an action (`WorkerDies`, `CheckoutDies`,
  `CancelDies`, `PollEnds`); in the latter a request that takes no further step is one
  that died, as no next step is forced. A statement with data-modifying CTEs (the
  settlement of an order) is one action because PostgreSQL runs it as one.
* **A local variable is kept in the worker's record** from the statement that reads it to
  the last one that uses it: the row `login` compared the password with, the cutoff that a
  password change, a logout, a reset or a deactivation computes before it sends its UPDATE,
  the ids a promotion previewed, the chats a round found. Stale reads are then what they are
  in the code.
* **A lost reply** (`replied = FALSE`) is a statement that commits while the worker is
  told it failed; `LostReplies` switches it on, because what a worker believes of its
  INSERT decides whether it compensates.
* **An order is a pair `<<cart, kitchen>>`**: createOrder splits a cart over the kitchens
  of its items. Its quantities are those of the basket, and a `SUM(quantity)` is the
  number of portions `<<cart, n>>`: this keeps recursion out of the modules, so that
  they can be proved about.
* **`Settle`** is the one place that gives an order's portions back: `stockSettledAt IS
  NULL` is `~settled`, and stamping and decrementing are one statement. Delivery,
  cancellation, expiry of a reservation, failed, lapsed and abandoned payments all go
  through it.
* **Clocks.** In the orders and payments `DeadlinePasses` and `WindowCloses` set a flag
  that the code compares `now()` with. `WindowCloses` is not enabled during a checkout call
  of the same payment: the call lasts seconds, the window fifteen minutes. `Accounts` counts
  whole seconds, because `iat` and `tokensValidFrom` are compared in them; `RateLimiter`
  counts ticks of which a window has two.
* **The gateway** is an environment. It opens a payment when create-order reaches it
  (the answer may be lost), decides it once, lets nobody pay a link that was never
  handed out, and may fail a payment on its own. Webhooks and the settlement found by a
  poll are one action, `ApplyWebhook`: a delivery only names the payment, and its
  outcome is what check-status says (`verifyTransaction`), so lost, duplicated, delayed
  and reordered deliveries are the freedom of `ApplyWebhook` to happen at any moment,
  any number of times, or never.
* **Amounts** are `paid` and `paidOther`: the code compares the amount it expects with
  the one the gateway reports, and nothing else about money changes state.
* **Unique indexes and foreign keys** are guards of the statement that meets them: `Free`
  in `Accounts` (email, rollNumber, googleId: three columns, as `Clash` has them), `ChatTaken` in `StockRequests` (telegramChatId),
  `ordered \cup audited` in `DeleteUserWrite` (both foreign keys are ON DELETE RESTRICT).
  A statement that violates one ends its request.
* **The picture transactions** hold the item's row from `LockMenuItem` to `Commit`; what
  they wrote is seen by nobody before, and any other UPDATE of the row waits
  (`Catalog!UpdateMenuItems`).
* **Passwords** are `shared` (the roster's starting password), `issued` (one somebody else
  chose: generated, so it equals no other), `random` (nobody knows it) or one of `Own`.
* **The Durable Object hub** (`EventsHub`) has one action per storage step of `flush` (`FlushTake`
  reads and deletes the queue, `FlushStore` writes frames and number, then pruning and fan-out),
  because it can be reset or fail between them. `enqueue` is `Emit`, which writes the queue, and
  then `Arm`, which looks at the alarm and sets it, or `ArmFails`: a reset or an error in between
  leaves a queue without an alarm. `handleConnect` writes nothing and is one action. None of them
  happens while a flush or another emit is under way: they only wait for
  storage, and while a Durable Object waits for its storage the platform delivers no other
  event to it. The same gate makes `HandleConsume` of `RateLimiter` one step. `wire` is
  what was written to a client and not received, `cursor` the number of the last message it
  got (`Last-Event-ID`). A client takes the current state from the database on SYNC_REQUIRED
  and on a HELLO that did not resume, as REALTIME_API.md:230 says.
* **`doubt`** (`EventsHub`, `LiveBoards`) is the set of clients that may have lost something and
  were not told: cut off behind a HELLO that is numbered ahead of its replay, past a fan-out that
  never happened, or with a cursor from before a restart. The properties of both hubs
  speak of everybody else; section 5 says what becomes of these. A client leaves `doubt` when
  it fetches.
* **Filters** are `Selections!Chosen`, not `SelectSeq`: that one is recursive, and the provers
  know nothing of it. `MCEvents` has TLC compare the two on every short sequence.
* **Screens** (`LiveBoards`) are patched piece by piece. A `Thing` is what one kind of delta of one
  type of event is about (`kind:id` of `buildFramePayload`): an order's row on the board has three
  kinds (created, status, seen), its owner's screen has its status, an item has its stock. Each
  piece has a version, how often it was changed, which stands for its value, so that a delta patches its
  piece and leaves the others of the same order alone. An admin's edit of the menu announces
  FULL_REFRESH: the client then fetches the menu (what it shows of it becomes what the tables say)
  before it takes the next message.

### What is abstracted

* Hub heartbeats, which also count as undrained messages, and in `EventsHub` the deltas inside a
  frame (`LiveBoards` has them); in `LiveBoards` the limit on undrained messages (`EventsHub` has it).
* `reconcileReservations` reads the ledger and writes the counters as one step; the
  snapshot effects of a single long UPDATE under READ COMMITTED are not modelled.
* `LiveBoards` has payments off: the announcements of a settlement (`broadcastSettlement`,
  routes/payments.ts) and those of a stock request (routes/orders.ts:223) are not in it.
* A restock round without the bot's token sends nothing and clears its requests
  (stockRequestService.ts:149): to the state that is a round whose messages are all refused, which
  `SendRestocked` has.
* `PollAsks` leaves out the five-second throttle between two gateway checks of one
  payment: a skipped check follows one made less than five seconds before.
* `Accounts` has names that are typed to sign in, `Username` (the lower-cased form of a roll number) and
  `Legacy` (its former address). What the superadmin creates, a roster or a file contains and a
  KLH student chooses are the bounds `Bodies`, `Rosters`, `CsvFiles`, `Usernames`; one intake is all
  roll numbers, and a Google identity has one address. `Catalog` has stock of none or some, since
  only the difference decides whether an item may be asked for.
* Names, prices, token strings, order numbers (and their collision retries, which end in
  `StatementFails`), validation and logging change none of this state.

## 3. Runs

| Run | Shows |
|---|---|
| `orders_stock` | Two carts over two kitchens compete for two portions of chai, one thali and one seat per window, with both kitchens' boards, both sweeps, workers that die and an admin who lowers the stock. The counter holds nothing nobody was promised (`NoPhantomReservation`); no basket takes what others hold unless the counter has lost it (`NoOversell`); stock drops by exactly what is collected (`StockFollowsCollection`); a cart that gets one seat and not the other gives exactly that one back (`SeatsAccounted`), and no window is overbooked (`NoOverbooking`) |
| `orders_repair` | Replies lost, workers killed, the rebuild overlapping placements, a cancellation: a promise drops out of the counter only where a rebuild meets a claim that is not yet an order, or a worker that was not told of its INSERT gives back what its orders hold (`NoPromiseForgotten`); the counter converges to the ledger for good (`CounterConverges`), and overdue reservations are freed (`OverdueIsReleased`) |
| `pay_settle` | Two checkouts of one order with a cancellation, the board, sweeps, a poll that expires, and deaths everywhere: no unpaid food (`ConfirmedIsPaid`), success hides no order (`PaidIsVisible`), decided is decided (`SettlementFinal`), what is over was settled (`OverHoldsNothing`) and the five ways an unpaid order is released never hand back what another order was promised (`NoPromiseForgotten`; that they leave nothing behind is the theorem `PaymentsLeakNothing`); an unpaid order does not hold them for good although nobody polls, no webhook arrives and the gateway may never answer (`UnpaidIsReleased`) |
| `hub_feed` | Three changes for two audiences, a log of two frames, a client dropped after two undrained messages, a reset or a lost connection, flushes and prunes that fail, an emit cut off before its alarm: the shard implements `EventFeed` (`ImplementsFeed`), frames arrive in order (`FramesInOrder`), queues drain once an alarm is armed (`QueueDrains`), and a client that keeps reconnecting learns every change it watches that reached the log (`ClientsLearn`), also when its own replay is longer than its queue may be |
| `live_feed` | Two requests of any kind change an order and its item and announce it emit by emit to two shards that keep one frame each, while a student, or the superadmin who placed the order and watches the boards, looks on, connections break and the process restarts: a screen with nothing on its way is never behind its shard (`ShowsWhatWasAccepted`), and nobody receives a frame that is not for them or out of order (`FramesForViewer`) |
| `accounts_sessions` | Three requests of any kind interleave statement by statement: a Google identity opens one account and a username that is its account's roll number finds only that account, although login looks in two columns (`OneAccountPerIdentity`), no account with history is deleted (`HistoryKept`), a revoked session comes back only through an overlapping revocation that computed its cutoff before the session was opened (`RevocationSticks`), and a promotion turns off no more accounts than confirmed (`NeverMoreThanConfirmed`) |
| `menu_requests` | Three requests edit the menu and its pictures, ask for sold-out items, announce their return and link chats: a hash stands for bytes that are there (`HashMatchesBytes`), archiving leaves only strays (`ArchiveLeavesNothingBehind`), a chat has one student (`OneStudentPerChat`), nobody loses a request to somebody else's refusal (`NobodyBehindIsDropped`), and a round that has begun discharges all it found (`RoundsDischarge`) |
| `limiter` | Three requests of one identity against a limit of one, refusing or slowing down, with the clock, the sweep, resets after a success, answers lost and the object lost between its writes: a window's length lets through at most twice the limit (`TwiceTheMaxAtMost`), nobody is slowed before the limit was reached (`NobodyIsSlowedEarly`), logins are served (`LoginsAreServed`), the counter is swept (`SweptInTheEnd`) |
| `orders_rebuild`, `orders_cancel_race`, `accounts_rehash`, `live_superadmin` | one disagreement each between the code and what it says of itself; see section 6 |

**Why the bounds are enough.** The races are between two parties, or two and a bystander.

* *Orders, payments.* Two portions of one item and one of another give full, partial and
  empty claims; capacity one gives the last seat to exactly one cart. Two payments give every
  order of two checkouts of the same orders; a single poll suffices because it sweeps all
  late payments. `pay_settle` has one cart in one kitchen; a cart split over kitchens and paid as
  one is in the theorems (`PaidBeforeCooked`, `AllPaidForIsVisible`), not in that run. `MaxQty` bounds a basket, `Cart`, `Cancel`, `Payment` and `Poller` bound the
  number of calls; nothing else is bounded.
* *Hub.* Clients do not affect each other, so one is enough; the second audience gives frames it
  is not sent, which move the numbers on, and three changes overflow a log of two. `MaxBreaks`
  bounds resets and lost connections: one to fall behind; drops by the hub, which can disturb the
  recovery, are not bounded by it. The proofs of the safety properties bound neither.
* *Live boards.* `MaxFrames` one makes every second frame push one out; `MaxVersion` two gives
  an old and a new value of each piece, so that deltas can be coalesced or overtake each
  other; `MaxBreaks` one; `Crowds` says who watches in one behaviour (one viewer, since viewers
  do not affect each other): asha, who watches no board, or boss, a superadmin who owns the order and
  watches the board of its kitchen as well.
* *Accounts.* Three requests: one that begins, one that invalidates what it read, one that
  profits. Two seeded rows and two free ones leave room for two inserts of one name.
  `Bodies`, `Rosters`, `CsvFiles` and `Usernames` contend for the same few names: a roll number in two
  spellings, one whose legacy form is a Google address, a username that is another row's roll
  number. `LastSecond` one separates tokens from before and after a cutoff. `Appointed` has the
  superadmin appoint admins only; the proofs bound none of these.
* *Menu and requests.* `ToMenu` and `ToNotices` say which of the three requests may go to
  which routes; one goes to either, so that two editors meet, two rounds meet, and an editor
  meets a round. `FirstTables` begins with a picture and both chats, or with neither.
* *Limiter.* A window of two ticks, `Grace` and `MaxDelay` of one, and no request after
  `LastCall`, tick two: a request may come in the first window, at its boundary and past it. At
  `LastCall` time waits for the requests on their way, and it ends at `Horizon`, when every
  window, delay and sweep is over.

Callers, carts and rows that are alike are symmetric where a run has no liveness property.

**Deadlock** is checked in every run of the orders and payments: the expiry sweep, the
rebuild or a poll can always act. The other runs stop, as they should, when the callers have made
their requests and nothing is on its way any more; they say `CHECK_DEADLOCK FALSE`.

**Fairness.**

* `FairSpec` of the orders: the sweeps are weakly fair, as every listing of the board starts them in
  the background, and a canteen that is open is looked at. A worker is weakly fair as a whole: it takes
  its next step or dies (`WorkerDies` is one of its steps), so it does not stay in the middle of
  createOrder for good.
* `PayFairSpec`: the orders' fairness and no other. The page polls for two minutes at most
  (routes/payments.ts:215) and the expiry hangs off its poll (routes/payments.ts:283), so that
  neither a poll, nor an expiry, nor a webhook, nor an answer of the gateway is counted on. What
  frees an unpaid order in the end is the sweep that the board's listings start.
* `FairSpec` of the hub: an emit goes on to its alarm or fails there, an alarm that is set is run (the
  platform's promise, at least once), and a
  client takes what was written to it and reconnects (EventSource does). Failing flushes, emits,
  breaks and the passing of time are not fair.
* `FairSpec` of `StockRequests`: a worker that has begun a round goes on with it (`WF` of
  `Notify`); the admin's request
  waits for the whole round, and a send that fails is a step like one that succeeds.
  A worker killed in the middle leaves the requests for the next round.
* `FairSpec` of `RateLimiter`: time passes, the runtime delivers the alarm, a handler goes on or the
  object is lost, a request gets its answer or fails open, a sleeper wakes.
* `LiveBoards` and `Accounts` have no liveness property and state no fairness.

## 4. Theorems

For all values of the constants, as far as `CanteenAssumption`, `PaymentAssumption`,
`AccountsAssumption`, `CatalogAssumption`, `StockRequestsAssumption`, `RateLimiterAssumption`,
`HubAssumption` and `LiveAssumption` restrict them. Every safety invariant, every action property and
the refinement that the passing runs check is a theorem here; what is not is listed at the end.

* **Orders** (`CanteenOrdersProofs`): `TypeCorrect`, `OverOrdersHoldNothing`, `NothingLeaks`, and
  `PromisesAreRemembered` (`NoPromiseForgotten`: whatever interleaves, a promise drops out of the
  counter in two ways only, a rebuild that meets a claim before its INSERT and a lost reply that
  makes the catch block release orders that exist). The inductive invariant is `CountedInv == LifecycleInv /\ CountInv`. `LifecycleInv`
  ties what a worker believes to what is on disk: a cart before its INSERT has no
  orders (`WrittenInv`), a worker that may compensate still holds its whole claim
  (`ClaimInv`), a cancellation that is about to write has settled (`CancelInv`).
  `CountInv` bounds the counter from above by a set of portions, those held and those of a claim
  that was never given back (`Claimants`). Each action adds or removes one cart's portions, and the
  lemmas on `PortionsOf` say what that does to the cardinalities. From below there is no
  invariant to have, since a rebuild may erase a claim at any time; `PromiseKept` compares the
  counter and the portions held (`Holders`) before and after a step instead: what leaves the counter
  leaves the promises too. Without `ClaimInv` and `WrittenInv` the floor at zero in `ReleaseStock`
  and `Settle` could hide a double release, and neither would hold.
* **Seats** (also `CanteenOrdersProofs`): `SeatsAreCounted` and
  `NoWindowIsOverbooked` (which leaves out the orders of a cart that was told it has none). The invariant `SeatInv` adds to `LifecycleInv` what a worker at each
  stage knows of its seats (`SeatStages`: nothing, or exactly what it has, and all of them before its
  INSERT), `WithinCapacity`, and that an order in a window has its seat (`OrdersAreSeated`).
  Without `SeatStages` the floor at zero of the give-back could free a seat that another cart holds.
* **Stock** (also `CanteenOrdersProofs`): `StockLeavesWithFood` (`StockFollowsCollection`) and
  `NothingIsPromisedTwice` (`NoOversell`), under no hypothesis on replies or rebuilds. Both follow, step
  by step, from the invariants of the orders. A delivery takes from the shelf exactly the portions
  it adds to what was collected, because its order had collected none. A claim checks the counter,
  so what it promises is still there as long as the counter has all that is held; handing over an
  unsettled order takes from shelf and promises alike. The exceptions the property names are the
  steps that do oversell: lowering the stock, delivering an order whose portions were
  released when it lapsed, and a claim against a counter that has lost a promise
  (`PromisesAreRemembered` says how it can, `orders_rebuild` shows that it does).
* **Payments** (`CanteenPaymentsProofs`): `PayTypeCorrect`, `PaidBeforeCooked` (`ConfirmedIsPaid`),
  `AllPaidForIsVisible` (`PaidIsVisible`), `SettledForGood` (`SettlementFinal`), and for the composed
  system `UnpaidHoldNothing`, `PaymentsLeakNothing` and `PaymentsForgetNoPromise` (`NoPromiseForgotten`). The inductive invariant is `PayInv`:
  `CountedInv` of the orders; `CallInv`, what the stage of a checkout says of its payment (it is
  pending until the call is over or fails, nothing is paid before the link is out, an order that is
  about to be cancelled has been settled); `PollInv`, a sweep holds late payments only and has settled
  what it will cancel; `AttachInv`. `CallInv` is what makes `SettlementFinal` true of
  `CloseUnopened`, the one write that does not look at the status. The orders' own steps are
  handled once, by `NextOrderSteps` (they never put an order back to awaiting payment and never
  confirm one); the payments' releases once, by `ReleaseKeepsCount`.
* **Accounts** (`AccountsProofs`): `AccountsTypeCorrect`, `IdentitiesAreUnique`
  (`OneAccountPerIdentity`), `HistoryIsKept` (`HistoryKept`), `RevocationIsFinal`
  (`RevocationSticks`), `PromotionIsBounded` (`NeverMoreThanConfirmed`). The invariant `AccountsInv`
  adds that no two rows clash in any of the three unique columns (`ColumnsAreUnique`), that every
  cutoff in the table was computed by now (`CutoffsAreComputed`), and that the ids a promotion
  holds are no more than were confirmed. That an account whose username is its roll number is the
  only one login finds under it then takes one more look: another account would have to
  hold that name in its other column, and one of the two columns would clash. `CutoffFalls` is the
  heart of `RevocationIsFinal`: the only step that moves a cutoff back is the write of a revocation
  that computed its own before.
* **Menu, requests, Telegram** (`StockRequestsProofs`): `MenuTypeCorrect`, `HashesStandForBytes`
  (`HashMatchesBytes`), `ChatsAreNotShared` (`OneStudentPerChat`), `ArchivesAreComplete`
  (`ArchiveLeavesNothingBehind`), `RequestsAreAnswered` (`NobodyBehindIsDropped`). The invariant
  `MenuInv` says who holds the row lock: a request between its lock and its commit, and only it; what
  such a request found is therefore still so when it commits.
* **Rate limiter** (`RateLimiterProofs`): `LimiterIsTyped`, `SlowedOnlyAfterTheMax`
  (`NobodyIsSlowedEarly`) and `AtMostTwiceTheMax` (`TwiceTheMaxAtMost`). `Backed` says that a stored
  count, and the count a request was answered with, is the number of requests one window holds, or
  less after a reset; it outlives the window, since what is tallied is never forgotten.
  `WindowsApart` keeps, as a set of starts that no variable holds, every window opened so far:
  windows do not overlap, each lets at most `max` through, and the counter stands for the last. The
  sweep drops a counter only when its window is over, so the next one starts clear of it. A stretch
  of one window's length then meets two of them at most, which is where the factor two comes from.
* **Selections** (`SelectionsProofs`): `ChosenIs` says what a filter returns: the elements at the
  chosen positions, all of them and only them, in their order. It rests on two lemmas on finite
  sets of numbers: ranks grow with the positions (`RanksGrow`) and leave no gap (`RanksFill`).
  `FirstAndLast`, that such a set has a least and a greatest element, is what "the last delta counts" needs.
* **Durable Object hub** (`EventsHubProofs`): `HubTypes` (`TypeOK`), `HubFramesInOrder`
  (`FramesInOrder`) and `HubImplementsFeed` (`ImplementsFeed`). The inductive invariant is
  `IInv == HubInv /\ OrderInv /\ LinkInv`. `HubInv`: a change is queued, being stored or
  stored, never two of these (`QueueInv`), and the log is numbered in its order, with what is about to
  be fanned out in it (`LogInv`). `OrderInv`: a frame on its way is retained still or too old
  for any replay, behind a HELLO that resumes come only frames the client has not seen, and
  whatever is about to be fanned out is newer than all of this. `LinkInv`, for every client
  that is not in doubt: what it lacks is on its way, about to be fanned out, or stored past the
  cursor it will present (or that cursor is too old, so that it will be told to fetch). A cursor
  is thus related to what the client *knows*, which is what the order of frames is for: a
  client that loses its connection with frames 3 and 4 on their way presents 2, and both
  are stored or 3 is past the log. The refinement maps `owed` to what is stored, wanted and not known, and
  `current` to the connected with nothing on their way; a store publishes, a receipt teaches, and every
  other step leaves both alone, or changes only who is current.
* **Live boards** (`LiveBoardsProofs`): `LiveTypes` (`LiveTypeOK`), `LiveFrames` (`FramesForViewer`) and
  `LiveScreens` (`ShowsWhatWasAccepted`), for any items, orders, requests and viewers. The
  inductive invariant `IInv` has three parts. `HubInv`: what a request has yet to announce is of a
  thing that was changed and no newer than it is (`CallInv`), so nothing accepted is ahead of
  the tables; and what a shard accepted last about a thing is the last it queued, or, with nothing
  queued, the last it retains (`ShardInv`). `WireInv`: a stream is HELLO, perhaps SYNC_REQUIRED, then
  frames in order that its viewer is entitled to; its last frame about a thing carries what was
  accepted, unless more is queued. `LinkOf`, for every viewer not in doubt: what its screen does
  not show yet is queued, on its way, about to be fetched, or will be replayed or refused as
  too old. Two facts about the routes are what this needs beyond the hub. Every thing has one
  audience (`OneAudience`), so a patch for one audience cannot undo a newer one for another: the
  board's row of an order and its owner's screen are told by different types of event and patched
  separately, also where one viewer sees both, as a superadmin who placed the order does. And the
  status on the board and on the owner's screen change together (`Together`), so that one number
  serves both deltas of `emitOrderStatusChanged`. Things that were announced had changed, so version 0 can
  stand for "nothing about it" in a frame.

The theorems say nothing about bounds such as `Appointed` or `LastSecond` beyond what the
assumptions state: they hold for every choice of them.

**Only model-checked**: the liveness properties (`UnpaidIsReleased`, `CounterConverges`,
`OverdueIsReleased`, `QueueDrains`, `ClientsLearn`, `RoundsDischarge`, `LoginsAreServed`,
`SweptInTheEnd`), as fairness and ENABLED are out of the prover's reach. The inductive invariants of both
hubs were checked by TLC on the instances of `hub_feed` and `live_feed` before they were proved.

## 5. Not modelled, and observations

### Not modelled

* The soft lock of `openOrderForAdmin` (nothing but it reads the lock; `LiveBoards` has what opening an
  order announces), order-number and token collisions, listings and pagination, webhook logging.
* Renaming of users, categories and items, sort order, the reads of the menu and of pictures.
* Guest sessions and Google's token, which are signed and stored nowhere; expiry of tokens.
* Heartbeats of both hubs; the announcements of settled payments and of stock requests.
* Exports, platform fee and system status: single-row reads or writes. Parsing of roll-number
  prefixes and CSV files, decoding of pictures. Database access, SQL builder, error mapping,
  application wiring: a statement or a transaction is one step.
* The Node process has no rate-limit counter; everything passes there.

### Observations

Noticed while modelling, and not a run: nothing in the repository claims otherwise, or the case is
accepted by the code, or it lies outside the modules. Where the repository does claim otherwise,
section 6 has it.

*Ordering and payments.*
A seat is freed only by a createOrder that fails, never by a
cancellation; a reply lost after the INSERT makes createOrder give back the stock and seats of orders
that exist (the stock recovers, `orders_repair`; the seats do not). The expiry that a poll starts
closes payments the gateway was not asked about (paymentService.ts:1068). A worker that dies
between closing a payment and cancelling its orders leaves orders nothing will cancel
(paymentService.ts:930, 1082). A second, failing checkout of the same orders cancels those of a payment
that is still open (paymentService.ts:858). Money that arrives for an order cancelled while its
payment was open confirms nothing. A payment whose page was closed and whose webhook is lost stays
PENDING until somebody's poll expires it (routes/payments.ts:215, :283); its orders lose their
portions when the reservation lapses and stay PENDING themselves.

*Live events.*
Both hubs number HELLO ahead of the replay that follows it: a client cut off between the two resumes
past frames it never got (orderEventsHub.ts:282, REALTIME_API.md:230). A queue whose emit was cut off between
its `put` and `setAlarm` waits for the next emit (orderEventsHub.ts:357-364). A batch is lost when the
Durable Object is reset between deleting its queue and writing its frames. The Node hub counts from zero
after a restart, and a cursor of its former life may fall inside the new log. A cancellation and a
guest's order announce no stock. A delivery announces raw stock where an order announces stock minus
reservations (adminOrders.ts:196). Emits that a request has not made when it ends are lost.
REALTIME_API.md:251 says deltas may be applied in any order; they are absolute, so the last one
received counts.

*Accounts.*
One account's username may be another's roll number: no index forbids it, and login takes one of the two
rows (userRepo.ts:82-85, LIMIT 1). Tokens signed between the computation of a cutoff and its write
survive it. A login in flight signs a token after a reset or a deactivation. A promotion compares
numbers: one student created and one deactivated between preview and confirmation go unnoticed.
Passwords that a superadmin sets in createUser and updateUser need not be replaced. The roster
import reports rows as created that the INSERT skipped, and a roll number that was taken meanwhile
fails it altogether, as ON CONFLICT is about the email only (userRepo.ts:282). A KLH sign-up that
collides on the Google identity is reported as a taken username. An account that ever acted in the
audit log can never be deleted.

*Menu and requests.*
An item moved to a category of the other school keeps its copy of the old school, and the
destination of a move is not checked (schema.ts:84). An item can be added to, or moved into, a category
archived meanwhile. Requests made while a round is sending are deleted with the others; two rounds at
once message twice. A redelivered /start may link a chat again after an unlink. The picture
route compares the hash and reads the bytes in two queries (routes/menu.ts:68).

*Rate limits.*
An object lost between its write and its `setAlarm` keeps its counter until the next window begins.

## 6. Where code and documentation disagree

`PROJECT.json` quotes the lines of those that a run shows.

* A rebuild between a cart's claim and its INSERT erases the claim; the order is then written with portions
  that the counter does not count, and the next basket may be promised them again. The comment at
  orderService.ts:288-291 says that the counter can diverge only one way, by a worker that is killed
  (`orders_rebuild`).
* A delivery between cancelOrder's read and its write ends as a cancelled order with a delivery date
  (`orders_cancel_race`).
* A sign-in that re-hashes the roster's shared password while the student replaces it restores the
  shared password without the flag that forces its replacement (`accounts_rehash`).
* A superadmin's stream watches both boards by the documentation and its subscription, and is held
  by the shard of one: announcements to the other board never reach it (`live_superadmin`).

Two more are visible in the model and have no run of their own; `RevocationSticks` names the exception they
make, and `RevocationIsFinal` proves that there is no other:

* Two revocations of one account that overlap may move the cutoff back, and let in again a session
  that the first had refused: each computes its cutoff before its UPDATE. authService.ts:223 says
  that a logout "moves the revocation cutoff forward", userAdminService.ts:305-314 that a deactivation
  does, authService.ts:207-209 that whoever knew the old password "cannot get back in".
* A token that `changeOwnPassword` returns is dated a second ahead, as new as the cutoff of a logout
  or a deactivation in the same second, which does not refuse it. jwt.ts:54 and
  userAdminService.ts:263 say that a cutoff is strictly newer than every token in circulation.

## 7. Plan

1. Proofs: safety parts of what is now liveness, such as that a step of a repair never moves
   the counter away from the ledger.
2. A run with two viewers of different boards, if viewers come to affect each other.
3. The soft lock, should anything but `openOrderForAdmin` come to read it.
