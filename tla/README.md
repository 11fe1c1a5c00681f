# Food-court ordering: TLA+ models and proofs

This directory models the food-court ordering platform in `src/` (a NestJS API
and a worker process over Postgres, three React front ends): how an order is
priced, placed and paid, online and at the counter; how it is put in front of a
kitchen and watched; how money is given back and people are told; how the edge
box and the cloud agree; and what the screens make of it. The modules are
translated from the code; where a comment, the PRD (`src/docs/prd.md`) or a test
says otherwise, the model follows the code and `PROJECT.json` lists the
difference under `findings`.

## 1. Inventory

All shared state is in Postgres. There are no in-memory locks: two API requests,
two worker replicas, or a request and a sweep meet only in the rows they read
and write, and *where a row lock ends* decides what they may see. The hard part
of the system is therefore not any one handler but what happens between a read
and the write that relies on it. The second source of difficulty is what is not
in the database: a card machine, a provider, a pub/sub transport, a phone that
is reloaded.

| Component (source) | State | Operations | Talks to | Hard behaviours |
|---|---|---|---|---|
| Order lifecycle (`ordering/state-machine.ts`, `transition.ts`) | `order.status` | `transitionOrder` under a row lock | every component below | a second mover must be refused or be a no-op |
| Payment engine (`payments/payment.repository.ts`, `webhook.ts`) | `payment`, `processed_event`, `reconciliation_item` | createIntent, ingestWebhook, reconcileStalePayments, refreshFromProvider, expireStaleIntents, captureOnAcknowledgement | provider, lifecycle | lost, late, repeated, mismatched webhooks; unlocked reads; crashes between claim and outcome |
| Providers (`payments/providers`) | at the provider | createIntent, getStatus, capture, refund, webhooks | payment and refund engines | answers that are unknown or late |
| Counter payments (`payments/pos.controller.ts`, `providers/pos*`) | at the card machine | charge, resolve, poll, refund | payment engine, till | the machine took the money and the answer was lost |
| Refund engine (`payments/refund.repository.ts`, `refund.ts`) | `refund` | claimRefundable/initiate, claimDue/attempt | provider, lifecycle, ledger | retries, replicas, orders that still move |
| Dispatch and escalation (`dispatch/`) | `dispatch_attempt`, `escalation_state`, `vendor.dispatch_blocked_at` | claimPending/dispatch, sweep (four rungs), cancelForAcknowledgement | lifecycle, kitchen | snapshots across replicas; statements that are not one transaction |
| Worker loop (`workers/index.ts`) | none | nine sweeps per tick, each wrapped so that a throw ends only that sweep | all of the above, notifications, sync | ordering of sweeps, starvation by one bad row |
| Order placement (`ordering/order.repository.ts`) | `order`, `order_item`, stock view | placeOrder, resolve, nextOrderNumber | pricing, ledger, catalog | idempotent retries, numbering, last portion |
| Kitchen API (`ordering/kds.controller.ts`) | `order.status` | accept, acknowledge, ready, collect, reject | lifecycle, escalation | acknowledgement races the ladder |
| Pricing, ledger, splits (`pricing/`, `ledger/`, `payments/split.ts`) | `ledger_entry` | computeQuote, computeFee, orderPlacementEntries, orderRefundEntries, buildSplit | placement, refunds | rounding, balance, terms that change between order and refund |
| Catalog, inventory, stock watch (`catalog/`) | menu, stock, `stock_watch`, `ai_generation`, opening hours | availability, counts, watch, sweep; dishes added, renamed, discontinued, recommended, described; the import of a spreadsheet; open now, until when | placement, consoles | a count that is stale when used; a watch told twice or never; an import and the kitchen on one row; windows across midnight |
| Notifications (`notify/`) | `notification` | notify, claim, record | worker | a crash between claim and send; two replicas on one stale claim |
| Edge-cloud sync (`sync/`) | watermarks, chunk buffers | export, assemble, import, in both directions | both databases | lost, repeated, reordered messages; a watermark ahead of the data; two clocks |
| Identity (`identity/`) | `customer_otp`, rate windows, tokens | request, verify, roles | placement, front ends | two submissions of one code |
| Tenancy and discovery (`tenancy/`) | court, stall, `app_session` | scan, resume, status ladder, listings | consoles, placement | a token that is replaced while it is scanned |
| Consoles (`console/`) | court, stall, logins, QR | create, edit, status, issue | tenancy | read, gate and write by two admins |
| Realtime (`realtime/`) | a listener per process | publish, listen, reconnect, invalidate | every screen | events nobody hears |
| Front ends (`apps/pwa`, `apps/kds`, `apps/admin`) | basket, key, token, cached queries | scan, verify, place, pay, track; the board | the API | reloads, lost answers, stale data |
| Platform (`platform/`) | none | config, logging, audit, errors | all | none |

What makes each modelled component correct:

* **Placement.** One order per idempotency key, and it is shown to nobody else;
  a number that was handed out is free; no order for a stall that is shut.
* **Payments.** No food without money the provider really holds; one order, one
  charge; a payable checkout is never forgotten; an event is finished only with
  its effect; a paid order does not wait for ever; committed money is captured.
* **Counter.** One order, one charge at the machine; a charged order stops waiting.
* **Dispatch.** A ticket in front of a kitchen is watched; one ticket per order;
  the ladder is climbed in order; a paid order is answered; a block with nothing
  behind it ends.
* **Menu.** No more dishes are recommended than the limit and no more descriptions
  charged than granted; an import leaves on sale what its file lists and does not
  undo what the kitchen said.
* **Hours.** What the page says of the next opening or closing is what the hours keep.
* **Refunds.** One refund per order; never both food and money; REFUNDED means
  returned; an open refund stays scheduled; owed money is noticed; a refund ends.
* **Basket and books.** Nothing is sold twice but by a race the design accepts;
  the books of an order sum to nothing; whoever waits for a dish is told.
* **Notifications.** One message per channel and event; food on the counter is
  announced; an alerted order is paged.
* **Sync.** The cursor passes only what left; nothing late takes an order or a
  catalogue row back. The first has one exception and the second two, named with
  the properties.
* **Access.** A code signs in once, and only the newest; a stall opens with its
  papers.
* **Front ends.** No second order beside one nobody saw; a paid screen moves on;
  a screen catches up; a ticket that is new to a board rings.

`PROJECT.json` lists every component with its status and, under `hazards`, the
places in the code that are hard to test, each with the properties that cover it
or the reason none does yet.

## 2. Modules and their correspondence to the code

| Module | Models | Extends |
|---|---|---|
| `OrderLifecycle` | the transition table and the classes of statuses | (constants only) |
| `Payments` | the payment engine for one order | `OrderLifecycle`, instantiates `Checkout` |
| `Checkout` | the abstract specification `Payments` implements | |
| `Refunds` | the refund engine and the webhook's refund events | `OrderLifecycle` |
| `Dispatch` | dispatch and the escalation ladder | `OrderLifecycle` |
| `Placement` | the request and the transaction that place an order | |
| `Pricing` | fees, quote, ledger entries, transfer | (constants only) |
| `Basket` | what may be ordered, stock, watches, and the books of each order | `Pricing` |
| `Counter` | one order at the tills and the card machine | `OrderLifecycle` |
| `Menu` | the dishes of a stall, its allowances and the import | |
| `Hours` | the opening hours of a stall and what its page says of them | |
| `Stall` | the till, the tablets and the hours of a stall side by side | `Counter`, `Menu`, `Hours` |
| `Worker` | the notifying sweeps and the ladder of channels | |
| `Sync` | the edge, the transport and the cloud | `OrderLifecycle` |
| `Phone` | the diner's phone from the QR code to the payment | |
| `Screens` | publication, listener, socket and the two screens of an order | `OrderLifecycle` |
| `Console` | the console: court, QR code, stall, kitchen logins | |
| `SignIn` | one-time codes and the session of a scan | |
| `Access` | the composition of the two: a scan needs the court and its token | `Console`, `SignIn` |
| `MCPayments`, `MCDispatch`, `MCPlacement`, `MCBasket`, `MCWorker`, `MCSync`, `MCPhone`, `MCAccess` | values and symmetry for TLC | the module they name |
| `Payments_proofs`, `Dispatch_proofs`, `Refunds_proofs`, `Placement_proofs`, `Basket_proofs`, `Stall_proofs`, `Access_proofs`, `Sync_proofs` | theorems about the module they name and its parts; `Stall_proofs` also about `Worker`, `Basket_proofs` about `Phone`, `Dispatch_proofs` about `Screens` | those modules, `TLAPS` |

**Granularity.** One action is one SQL statement, one transaction, or one call to
the provider: exactly the units after which another process may run. What a
handler read and uses later is in its own record (`task` in `Payments`, `worker`
in the others), so acting on stale data is the default and not a special case.
A transaction that fails leaves the tables unchanged and ends the handler (in a
sweep, the sweep), which is what `safely` does with an exception.

**`FOR UPDATE SKIP LOCKED`.** `claimPending` and `EscalationRepository.sweep` use
it in a statement outside a transaction; the locks end with the statement. The
models therefore give two replicas the same snapshot. `initiate` and `dispatch`
lock the order inside a transaction and re-check, and are single actions.

**Payments.** `order`, `row`, `payRef`, `newest`, `lapsed` are the columns
`order.status`, `payment.status`, `payment.provider_payment_ref`, the newest
`payment.created_at`, and `payment.expires_at < now`. `event` is
`processed_event` (absent, claimed with `processed_at` null, processed) and
`recon` is `reconciliation_item`. `prov` is the truth at the provider, which the
code never sees directly; properties about money are stated on it. The two
constraints that decide races, `payment_one_live_per_order` and
`payment_provider_ref_uq`, are `OneLive` and `RefsDistinct`; the trigger
`order_confirmation_requires_payment` is part of `OrderMoves`. A task in both
`ApiTasks` and `WorkerTasks` may run requests and sweeps in turn, which halves
the number of tasks a run needs. Every row the engine touches is keyed by the
order, so one order suffices for its properties; starvation between orders by
the sweeps' limits is out of its reach (a hazard of the list, without a property).
`Checkout` is the promise behind all this, over two variables: `Stage` maps the
order's status, `FateOf` a row and the provider's truth, to them. Both are
refinement mappings and translate no code.

**Dispatch.** `watch`, `step`, `timer`, `alerted`, `offered` are the columns of
`escalation_state`; `blocked` is `vendor.dispatch_blocked_at`. Time is one bit
per timer (in the future, passed), moved by `TimePasses`: the order in which
timers pass is unconstrained, so the ladder thresholds do not matter. The sweep
is modelled statement by statement, because blocking the stall, alerting and
recording the rung are separate statements.

**Refunds.** The order owns at most one payment that holds money, so `payment`
is a function of the order. `accepted` and `returned` are the truth at the
provider. Which due refund a sweep handles first is left open (the code orders
by time). Amounts, the ledger entries of `initiate` and notifications are
abstracted; a snapshot that does not reprice is the set `Mispriced`.

**Placement.** `owner` is `app_session.customer_id`, `placed` the `order` row a
request inserted, `shut` the stalls that are blocked, paused or not active.
`stallLock` and `courtLock` are the two `FOR UPDATE` rows, held to the end of
the transaction (`End` is commit, rollback or a lost connection). `request` is
what one HTTP request is doing: a step is one statement or one wait for a lock,
in READ COMMITTED, so each sees what others committed before it. The two unique
indexes are the refusals in `Insert`; that the trading day is read once for the
number and again for the row is two steps, with `Midnight` possible between
them. Baskets, prices, fee rules and stock can only turn a request down here
(`TurnDown`); the ledger and history rows are written with the order row. The
preview rolls back and is left out. One clock is assumed for all API replicas.

**Pricing and Basket.** Amounts are natural numbers of paise with the code's own
rounding; `Quote` and the two entry functions are the code's, record by record.
`order` keeps the lines, the quote, the terms that were snapshotted and the
entries written at placement and at refund; `terms` is which fee rules are in
force, and moves under orders already placed. `Remaining` is the stock view:
a day's count less the lines of orders that were confirmed once and neither
rejected nor cancelled. Placement is one step, because it holds the stall's row
from the check to the commit; the confirmation that makes a line count comes
later, which is the race the code accepts. `raced` is a history variable: the
items for which two unpaid orders, two lines of one order or a manager's edit
overlapped. The watch sweep is a read and an update per replica.

**Counter.** `rows` are the payment rows of the order, `machine` the terminal's
transaction for each reference, `debits` the truth on the customer's card. A
charge is the read, the request to the machine and the answer's effect, in three
steps; the machine may finish between any two, and the answer may be lost. What
ingesting an event does is one step here, being the subject of `Payments`.

**Menu.** `dishes` are the `menu_item` rows with the columns a decision reads,
`generations` the outcomes of `ai_generation`, `locker` whoever holds the vendor
row FOR UPDATE, `tablet` the request each tablet has open and what it has read.
`setMustTry` and `generate` are a request, the lock with its count, and the write
that commits; `generate` goes on to the provider with its credit already reserved
and settles afterwards, so that a death in between leaves the row PENDING, which
counts. Creating a dish looks for the name and inserts in two steps; the other
edits are one UPDATE. An import locks the menu row with its first write
(`import` is the one under way), reads the catalogue and writes row by row
from what it read; between the two, the tablets go on. Which of several rows with
one key it takes is left open, as its query asks for no order.

**Hours.** `hours` is the set of windows of `vendor.operating_hours`; `day` and
`minute` are the court's clock. `Look` is the page asking whether the stall is
open and, by one of two further computations, until when; `said` is that answer,
counting down while the clock ticks, so that what was said can be held against
what the stall does when its time comes. Nothing that places an order reads the
hours. `Stall` runs `Counter`, `Menu` and `Hours` in one model: they share no
column, so a behaviour follows one of the three, and no property of one depends on
another.

**Worker.** `note` is the `notification` table by order, event and tier,
`messages` what really left. A replica walks the tiers: look, claim (the unique
key), send, record. A claim ages into a stale one when its owner is slow or
dead. `shelf`, `alerted` and `status` are the columns that three sweeps select by.

**Sync.** `edge`, `cloud` and the catalogue rows carry their version and their
`updated_at` stamp, re-stamped by the trigger on every UPDATE; `CloudAhead` is
the difference of the clocks. The trigger stamps `now()`, which Postgres fixes when
the transaction begins, and the row is seen when it commits. A write is therefore
one action, its commit, with a stamp from `Began`: any instant of the last
`MaxOpen`, on the edge and on the cloud, in moves, imports, edits and sweeps. So
stamps may be out of the order of commits, a select may fall between the two, and a
select does not end its instant: an order moved in the same instant afterwards may
carry the instant of the select. Three history variables say where that happened:
`selected` is the instant of the latest select of orders, `straggling` holds the
versions that committed after a select with a stamp no later than the select,
`crossed` the orders a sweep of the cloud stamped earlier than the row it found,
because its transaction had begun before that row was written. `cycle` is one edge cycle, statement by statement;
the button and the loop have one each, because the busy flag is per orchestrator.
The transport loses and reorders: a chunk waits in `received` until its batch is
whole and imported, in any order of batches, and a restart of the responder
drops what is there. A chunk is not delivered twice, but two cycles that overlap
export the same version twice, in two batches.

**Phone.** `cart` is what localStorage keeps, `token` what a reload forgets;
`taps` are the place requests under way with the key each carries, `late` those
the phone gave up on and the server has not seen; `screen` names the order it is
about and, at the gate, where a verified diner is sent back to. The server's side is
`placeOrder` as `Placement` shows it to be, in one step.

**Screens.** One order and one screen, the tracking screen or the board. `query`
is the cached data and the request under way (an answer is of the moment it was
read, not of its arrival); `listener` is the process's LISTEN connection with
the reconnections its two handlers start.

**Console, SignIn, Access.** `desk` is each admin's request with what it read;
`holder` is the lock on the vendor row. `ask` and `try` are the requests for a
code and the attempts to use one; the row lock of an attempt is `locked`.
`Access` interleaves both and lets a scan succeed only on an active court whose
token is the poster's.

Abstractions shared by all: wording, history rows, milestone timestamps, audit;
amounts outside `Pricing` and `Basket` are right or wrong; ids are model values.
Where a module does not model who moves an order, an environment action moves it
along the same transition table.

## 3. Runs

| Run | Instance | What it shows |
|---|---|---|
| `payments_safety` | 2 intents, 2 tasks that are requests and workers in turn, `ON_CAPTURE`, authorise-first provider, one declined attempt | no interleaving confirms without money, charges twice, stops watching a payable checkout or finishes an event without its effect; every step is one `Checkout` allows |
| `payments_liveness` | 1 intent, 1 request that may crash, 1 worker, `ON_ACKNOWLEDGED`, expiry and mismatch notices, whole kitchen | a paid order stops waiting without any webhook; referenced money is captured |
| `dispatch` | 2 orders at one stall, 1 replica, 1 crash | watched, one ticket; answered; an empty block is lifted |
| `refunds` | 2 orders (one settled by its vendor), 2 replicas of which one may stop, 1 crash, 2 attempts, late captures, notifications of success and of failure | the four safety properties, owed refunds are opened, refunds end when the provider grants some time |
| `placement` | 4 requests: a double tap, a later customer with the same key, a neighbour at another stall of the court; 1 midnight, 2 numbers a day | free numbers, open stalls only, nobody's order to another |
| `basket` | 2 orders of two portions of a dish of which two are sold a day, two sets of fee terms, 1 watch, 2 sweeping replicas of which one may die, a midnight | oversold only by a race; the books close before and after a refund; told while the dish stays orderable |
| `counter` | 1 till, 2 intents, 3 presses, lost answers, poll, expiry, sweep, cancellation; or 2 tablets, 3 requests, 2 names, 1 id, a limit and a grant of one, an import; or any schedule of two windows in a week whose days have three minutes | one charge; a charged order stops waiting; the allowances hold; an import leaves what its file says; the stall opens and closes when its page said |
| `worker` | 1 order, 2 replicas, both ladders, 1 death or exception | one message per channel while nobody dies; ready food is announced; an alerted order is paged |
| `sync` | 2 orders of the edge, 1 catalogue row, 2 cycles, batches of one, 2 changes, 1 crash, one clock, transactions open for an instant, the cloud's own sweeps up to the refund | the cursor leaves nothing behind but stragglers; nothing late takes an order or a catalogue row back, but for orders whose stamps are out of order |
| `phone` | 2 diners who share a phone, 1 QR session, 2 taps, 2 orders, a court that does not ask for verification | no second order beside one nobody saw; the payment screen of captured money gives way |
| `screens` | 1 order, both screens, 2 listener connections | the screen comes to show where the order rests without any event; a ticket that comes onto the board after its first data rings |
| `access` | 2 admins, 6 edits, 1 login, 2 tokens; 3 requests for a code of which the limit lets 2 through, 2 attempts, 2 scans | a code signs in once, only the newest; a stall opens with its papers |

The disagreements between what the code does and what its comments, tests or the
PRD say are listed, with the lines of both, under `findings` in `PROJECT.json`.
Several properties are stated so as to leave such a case out, and say so:
`OrderIsTheirs` is about sessions one customer orders on, `OncePerTier` about
runs without a death, `NoSecondOrder` (with `Impatient` FALSE) about a diner who
waits for the answer to a tap, `AlertedIsPaged` excuses deaths and exceptions,
`ReferencedMoneyIsCaptured` is about rows that know their reference,
`OversoldOnlyByRace` names the races, `OpensWhenSaid` excepts a closing of
tomorrow, which another window may follow, `ScreenCatchesUp` excepts the statuses at
which the screen stops asking, `NewTicketRings` leaves out the first data of a
board (which rings although `notify.tsx` says that it is silent), `NothingLeftBehind`
excepts stragglers, and `NothingGoesBack` the orders with a straggler or with
sweeps of the cloud that overtook each other. `ImportIsTheFile` is about an import no
edit overtook, and `OpensWithPapers` about the papers of the readiness gate, not the
active staff login that it also asks for. `dispatch` has one replica and `counter` one till:
with two, `DispatchedIsWatched`, and `OneCharge` and `ChargedStopsWaiting`, do not hold.

**Bounds.** Every race in `Payments` is between two handlers over at most two
intents: uniqueness of the live row makes a third intent a repetition of the
second, and handlers share nothing but the tables. `MaxNotices` and
`MaxCrashes` are one because each property that is lost to notices or crashes is
lost by a single one. `payments_safety` has
neither a crash nor a notice of a wrong amount, which make the instance too large: what
a crash between the claim of an event and its finish may do is the theorem
`FinishedMoney`, and that a wrong amount confirms nothing `KitchenOnlyOnMoney`. Two
orders in
`Dispatch` are what a stall's shared block needs. `MaxAttempts = 2` in `refunds`
gives an attempt that is retried and a last one, which the code treats
differently; its five add repetitions of the first kind, and the theorems hold
for every number. `attempts` in `Refunds` is not bounded by a guard: the code
itself stops selecting a row that reached `MaxAttempts`, and two replicas exceed
it by one. `attempts` in `Dispatch` counts up to `MaxAttempts` and `opened` up to
2, because only "more than one" is asked about. `MaxNumber` stands for the 999 of
a day and is two in `placement`, so that the ceiling is reached; one midnight
(`MaxDay`) separates two days. Three requests share a key because a replay, a
concurrent tap and a stranger are three different stories; two stalls in one
court are what the court's lock is about.

In `basket` one dish is enough because stock, availability and watches are kept
by dish; baskets of two portions against a stock of two make the second order
the one that must be refused, and a price of 333 with odd rates makes every
percentage round. In `counter` two intents are the paid one and the one opened
beside it; three presses are a charge, its repetition and a resolve; of a
limit of one the second request is the one that must be refused, three requests
are a pair of edits and the import they meet, three dishes the first and two that
were added; in three minutes a day two windows can be apart, meet, overlap or run
into the next day, and a week is run through. In `worker`
the first customer channel never runs, as in the code, the next two stand for a
channel that fails and the one after it. In `sync` a batch of one makes two
orders two batches, so that one may overtake the other; one order is there when the
box first connects, unpaid or in the kitchen, and two changes are two moves of it, or
a move and another order or an edit of the catalogue; two cycles are an earlier and a
later; `MaxOpen = 1` is a transaction that is open across one tick, which a select, an
import or a sweep may fall into. Reach is the way from the
payment to the refund, on which both sides move an order. That the exceptions are
needed was tried on the same instance: without `straggling` in
`NothingLeftBehind`, and without either half of `Timely` in `NoOrderGoesBack`, TLC
finds each of them violated. In `phone`
two taps are a tap and its retry, four turns let a diner leave and the other
come. In `screens` two connections are the one that is used and the one the code
forgets. In `access` six edits reach an open court and a stall between its
gate and its write; a third request for a code is one more than the limit lets
through; once a phone is in use two more (`MaxOverlap`) go on around
it, which is what a scan can meet. Every bound is a CONSTANT commented as one.

**Deadlock** checking is off everywhere: an order that is collected, refunded or
failed is finished, and with a bounded environment nothing is left to do.

**Fairness.** The worker loop runs every sweep on every tick and each sweep is
wrapped so that an exception ends only that sweep. Hence: weak fairness of the
continuation of a sweep that has begun, strong fairness of starting each sweep
(another sweep occupies the same replica in between, so enabledness comes and
goes). The clock advances. A provider that is asked for ever answers some time
(`AskReconcile`, `AskCapture`), and for `RefundIsSettled` grants some time
(`GrantingSpec`). Nothing is assumed of customers, kitchens, webhooks or requests:
each may stop for ever. In `refunds` only the replicas in `Running` are fair, so
the other one may stop with a stale snapshot in hand and return at any time.
In `basket` only the replica `Steady` sweeps on; its update is strongly fair,
because the dish may sell out and come back between two ticks. In `counter` a
request at the till goes on, the machine ends what it began, and the sweep asks
about every row; nobody has to press anything. In `worker` each replica's loop
goes on unless it died, and a claim ages. In `phone` a tap is answered or times
out, and the payment screen's timers run; that the status poll is answered some
time is strong fairness, since a reload interrupts it. In `screens` the fallback
timer fires, a request under way is answered some time, and nothing is assumed of
sockets or listeners. `sync` and `access` have no liveness property: an edge
may stay offline, and an admin or a diner may stop.
Symmetry is used in `payments_safety` (intents and tasks), `sync` (cycles) and
`access` (requests for a code), whose properties are invariants and properties of
steps; no liveness is checked with it.

**Mutants.** Each property of each passing run has a mutated definition next to
the one it replaces (`X_What_The_Bug_Is`), a plausible bug at that place, which
TLC must find to break the property.

## 4. Proofs

`Payments_proofs` proves, for any finite or infinite set of intents, requests
and workers, either split timing and either provider:

* `TypeCorrect`: `Spec => []TypeOK`. `TypeOK` is inductive because it says of
  each handler what its later steps need (`WellFormed`): without "a handler at
  `insert` has an intent" the type of `newest` is not preserved.
* `FinishedMoney`: `Spec => []FinishedMoneyMovesOrder`. Not inductive alone: the
  step that marks an event processed must know that its effect has happened. The
  strengthening `HandlersConclude` says so of every handler at `finish` with
  such an event. The order never returns to waiting (`WaitIsOver`, from the
  transition table), so the effect is not undone by any other actor.
* `KitchenOnlyOnMoney`: `Spec => []ConfirmedOnlyOnMoney`. Strengthened by
  `HeardIsTrue` (an event the provider sent, or a reconcile event that was
  claimed, reports money that is really there) and `HandlersHeard` (what a
  handler carries was heard). Money that is there stays there, or lapses
  (`MoneyStays`), which is where the provider's side of the model enters.
  Most actions are discharged by `HarmlessStep`.

`Dispatch_proofs` proves, for any set of orders and stalls and any number of
crashes:

* `DispatchTypesHold`: `Spec => []TypeOK`, strengthened by `HandsFit` (a worker
  handling a rung has a row in hand, and the row has a rung left), for any
  number of replicas. That the recorded rung stays within 0..4 needs it.
* `OneTicketEach`: `Spec => []OneTicket` for any number of replicas. The
  strengthening `FirstTickets` says that before it is given up on, an order has
  at most one attempt, none while it waits, and is not in DISPATCH_FAILED, the
  one status that is both dispatchable and already dispatched.
* `LadderInOrder`: `Spec => []AlertedBeforeOffered` for any number of replicas.
  `LadderInv`: whoever knows of an order on the third rung or above (the row, a
  stale snapshot of it, the rung in hand) knows of an order whose manager was
  alerted. Alerts are never withdrawn, so stale knowledge stays true.
* `WatchedByOne`: `Spec => []DispatchedIsWatched` under the hypothesis that
  there is a single replica (`Workers = {W}`). Two break it (the finding at
  `escalation.repository.ts:201`). `WatchInv` says that what a sweep selected
  is still true enough when it acts: a row seen waiting has not fallen back to a
  dispatchable status, a row seen answered is not in front of a kitchen again,
  and the rows of a sweep are of distinct orders, so that failing one does not
  falsify what was seen of the next. `OthersMove` shows that kitchens, customers
  and the payment engine preserve all of this. It follows that with one replica
  the dispatch call of rungs 1 and 2 never does anything.

and, for the two screens, any listeners, sockets and answers:

* `ScreenTypes`: `ScreensSpec => [](ScreensTypeOK /\ BoardInv)`. `BoardInv`: the
  board's hook remembers the ticket the board shows and nothing else.
* `TicketsRing`: `ScreensSpec => NewTicketRings`, an action property about every
  answer after a board's first. Only
  `Received` changes the data, and by `BoardInv` a board without the ticket has
  forgotten it, so that a ticket which was dropped while its dispatch failed rings
  again when it is back.

`Placement_proofs` proves, for any number of requests, stalls, courts, sessions
and days, and either identity mode:

* `PlacementTypes`: `Spec => []TypeOK`, strengthened by `Numbered`.
* `OneOrderEach`: `Spec => []OneOrderPerKey`. Inductive as it stands: the unique
  index, not the lookup, carries it. No run checks it besides.
* `OpenStallsOnly`: `Spec => OnlyOpenStalls`, an action property, from
  `StallHeld`: past its check a request holds the stall's row, and the stall
  stays open while it does (`Holding`, `EndKeepsHeld`).
* `NumbersNeverMeet`: `Spec => []NumberIsFree`, from `CourtHeld` (who numbers
  holds the court) and `NumberFresh` (the number in hand is above every number
  of its court's day); `NoneFromTomorrow` is why midnight does no harm.
* `NobodyElsesOrder`: `Spec => [](OneCustomerPerSession => OrderIsTheirs)`, from
  `OwnerIsCaller`: from its claim to its insert the session is the caller's.

`Refunds_proofs` proves, for any number of orders, refunds, replicas and attempts:

* `RefundTypes`: `Spec => []TypeOK`, strengthened by `HandsFull`.
* `OnlyOneRefund`: `Spec => []OneRefundPerOrder`, from `OpenedOnce` (what has
  been opened has a row, and every way in looks for one under the order's lock).
* `FoodOrMoney`: `Spec => []NoFoodAndMoney`, from `FoodOrMoneyInv`: a refund is
  opened only together with a status out of which no path leads to the kitchen
  or the counter, and money is asked back only for a refund that was opened.
* `RefundedMeansReturned`: `Spec => []RefundedIsReturned` under the hypothesis
  `Provider = "stub"`, from `RefundedInv` (a report of success, in hand or on its
  way, is about money that was returned). With the hypothesis dropped the proof
  fails where the real provider's "pending" answer is read.
* `RefundStaysScheduled`: `Spec => []PendingRefundIsScheduled`.

`Payments_proofs` also proves, under the same assumptions:

* `ChargedOnce`: `Spec => []AtMostOneCharge`, and `Watched`:
  `Spec => []WatchedWhilePayable`, from one invariant, `ChargeInv`. A checkout the
  diner was handed and can still pay has a row that counts as live as long as the
  order waits (`OneHanded`), so no second one is handed out; what could break it
  is an answer of the provider written on the wrong row, since a row may carry
  the payment reference of another intent. `Known` says that while the order
  waits such a reference names money that is there, and `Handler` says it of what
  every handler has in hand. `Grows` is how the tables move whatever the step,
  and most steps only need it (`HandlersRest`).
* `Implements`: `Spec => ImplementsCheckout`, the refinement of `Checkout`: each
  step of a handler maps to a confirmation, a change of one checkout's fate, or a
  stutter (`HandlerImplements`, `WorldImplements`), from the invariants above.

`Basket_proofs` proves, for any menu, baskets, number of orders and sequence of
fee terms:

* `BooksAlwaysClose`: `Spec => []BooksClose`. `BooksInv` says of every order that
  its entries are those of its own quote under its own terms; `QuoteAddsUp` and
  `BooksOfAQuote` are the arithmetic, which holds for every rounding because each
  party's share is taken from the same rounded figures.
* `OversoldByRaceOnly`: `Spec => []OversoldOnlyByRace`, also for any number of
  replicas, watches and days. `StockInv`: as long as no race of a dish is on record,
  the day's count covers what was sold *and* what still waits for its payment
  (`Covered`). The property alone is not inductive, because the gate compares with
  what was sold only: a payment that comes later is what makes the count negative.
  `PlacingCovers` is the gate (without a rival and with one line of the dish, what
  is sold is all that is claimed), `MovesCover` says that no move of an order but its
  confirmation adds a claim, and that one only what the order already claimed.
* Both rest on a section about `SumFunctionOnSet`, the sum of the community
  modules, which is defined by a recursion over the subsets of a finite set. That
  a function with this recursion exists (`SumCanBeChosen`), that any element may be
  taken first (`SumTakes`), that sums of natural numbers are natural and grow with
  the set (`SumIsNat`, `SumGrows`) is shown without the induction theorems, by a
  smallest counterexample (`SmallestSet`), which the well-foundedness of the
  naturals provides.

and, for any number of diners, QR sessions, stalls, taps and orders:

* `PhoneTypes`: `PhoneSpec => []PhoneTypeOK`. No screen, tap or answer names an
  order that is not there, across reloads and the gate.
* `OneOrderPerBasket`: `PhoneSpec => []NoSecondOrder` under `~Impatient`.
  `NoSecondOrder` is not inductive: a call that was given up may place its order
  much later, so what counts is not the orders but every call the phone ever
  made. `OrderInv` says of the past (`OneOpenKey`) that of two calls of one diner
  at one table with different keys, one is resolved: its order was shown, or the
  key belongs to somebody else. Of the present it says that only the basket's key
  is open (`BasketKey`), that all calls since the last verification are of the
  diner who is signed in (`OneDiner`), that one tap waits, and that its answer is
  about its own key (`Answered`). The hypothesis is needed: the back button works
  while a tap is in flight, an answer ends whatever checkout it finds, and with
  `Impatient` TRUE, one diner and four taps TLC finds two orders the phone showed
  neither of (the finding at `Checkout.tsx:228`).

`Stall_proofs` proves, for any number of tablets, dishes, names and requests, any
limit and any grant, and for any number of tills, intents and presses:

* `MenuTypes`: `MenuSpec => []TypeOK`, where `TypeOK` says what each request
  carries at each of its steps.
* `CapsAlwaysHold`: `MenuSpec => []CapsHold`. The count that decides is taken
  before the write it allows, so the invariant needs the lock: whoever is at its
  write holds it, and its count is still an upper bound, because only a holder
  adds to what was counted (an import or an edit never marks a dish, a settled
  generation at most gives its credit back). Each generation under way has a
  PENDING row of its own, so that settling one does not give back what another
  reserved.

* `LeavesWhatTheFileLists`: `MenuSpec => ImportIsTheFile`, an action property.
  `ImportInv`: no two rows have one external id (the unique index), and every row
  an import has read is still there under the same id when it writes, because no
  step removes a row. The property is about an import that no edit overtook.
* `StallKeepsItsMenu`: `Spec => MenuSpec`, so that the theorems about the menu
  hold of the specification the run checks.
* `CounterTypes`: `Spec => []CounterTypeOK`.
* `DebitedOnce`: `Spec => []OneCharge` under the hypothesis `OneTill`: there is one
  till, and its cashier does not press Charge after "DO NOT charge again". Two
  tills debit twice (the finding at `pos.controller.ts:213`). `TillInv`: a debit is
  of a sale the till waits for, has in hand or is unsure of (`Tracked`), so that
  Charge is not pressed over it; a row fails only when its sale was declined
  (`FailedIsDeclined`), so that a second intent is opened when nothing was taken;
  and what the machine works on belongs to the newest intent (`OnlyTheNewest`).

for any schedule, any number of windows in it and any length of the day:

* `HoursTypes`: `HoursSpec => []HoursTypeOK`, and `StallKeepsItsHours`:
  `Spec => HoursSpec`.
* `OpensAsSaid`: `Spec => []OpensWhenSaid`. Of three computations that the page puts
  side by side, `isOpenAt` looks at two days, `nextOpening` at seven and
  `currentClose` at the windows sorted and merged. `StretchFacts` says what the last
  one makes: every span lies in a stretch, every minute of a stretch lies in a span,
  and where a stretch ends no span goes on, so that an adjoining window is never
  taken for a closing. It is shown of the loop after each span, by its first span
  that fails (`LoopOverSpans`, `MergingStretches`), which needs the spans in order
  (`CanBeSorted`: there is such an order). `HoursInv` is what was said, carried
  along by the clock: to open in n minutes is that some window begins then and none
  before, within the next six days (`OpensIn`); to close in n minutes is that every
  minute until then is one of a window, of today or of the day after (`ClosesIn`).
  That the schedule read a minute later is the one of the next minute, also over
  midnight and over the end of the week, is `OpensSoonerToday`,
  `OpensSoonerTomorrow` and their twins.

and, for any number of replicas, orders, events and tiers:

* `ToldOncePerTier`: `WorkerSpec => []OncePerTier` under `Prompt`, that a send takes
  less time than a claim takes to go stale; the property itself is about runs in
  which no worker dies or throws. `RungInv`: a claim that is QUEUED is in the hand
  of exactly one replica, so it does not go stale, and a message that was delivered
  is recorded or about to be by the replica that sent it.

`Access_proofs` proves, for any number of admins, requests, attempts and scans:

* `SignInTypes`, `ConsoleTypes`: `Spec => []SignInTypeOK`, `Spec => []ConsoleTypeOK`.
* `EntersOnce`: `Spec => []CodeEntersOnce`, and `NewestEnters`:
  `Spec => OnlyTheNewestEnters`. The row lock of an attempt is held from its read
  to its verdict, so what it read of a code is still true (`SignInInv`); a code
  that let somebody in is consumed. A newer code retires the older before it is
  inserted, and the partial unique index refuses the one of two that lost.
* `PapersAtOpening`: `Spec => OpensWithPapers`. Whoever passed the readiness gate
  holds the stall's row, and every edit that could take a paper away waits for it.
  The ladder of statuses is *not* protected in that way: it is read before the lock
  (a finding).

`Sync_proofs` proves, for any orders and catalogue rows, any number of overlapping
cycles, any size of a batch, any number of losses and crashes, and transactions that
stay open for any time:

* `SyncTypes`: `Spec => []SyncTypeOK`. That the cursor stays an instant and an id
  needs that no cycle saves the cursor of an empty batch.
* `NothingIsLeftBehind`: `Spec => []NothingLeftBehind`, whatever the clocks: an order
  the cursor has passed was published in full or is a straggler. `ExportInv`: no
  stamp a cycle holds, and no cursor, lies after the latest select, so that an order
  that moves later is stamped beyond the cursor that cycle will save or is a
  straggler (`MoveIsBeyond`); and the orders at or before a cursor in hand were
  published in full by the cycle that holds it, or before it, or straggle
  (`Covers`). The last row of a batch is found as the greatest element of a finite
  set, by `FiniteSetTheorems` and the well-foundedness of the naturals. What happens
  to a straggler is the finding at `export-orders.ts:108`: the cursor may have passed
  it when it commits, and then no batch carries it.
* `OrdersGoOn`: `Spec => [][NoOrderGoesBack]_vars` under `CloudAhead >= 0`.
  `ImportInv`, for the orders whose stamps are in the order of their commits
  (`Timely`): what was told of an order (`Told`: the batches, the chunks, the edge's
  row) is a story in which a later stamp never means an earlier status (`Story`),
  and a version that passes the guard continues what the cloud shows
  (`CloudFollows`). A transaction of the cloud that imports a batch began no earlier
  than its last chunk arrived, and that no earlier than its rows were stamped
  (`Past`): so the cloud's stamp lies after them however long it stays open.
* `CatalogGoesOn`: `Spec => [][NoRowGoesBack]_vars` under `CloudAhead <= 0`, for every
  row. `CatalogInv` is about the answers under way (`Pending`): where one is newer
  than the edge's row by its stamp, its version is no older; and where one holds a
  row stamped later than another was read, its version is no older than the other's
  (`Agrees`), so that importing either leaves the first half true.
* `NothingEverGoesBack`: `Spec => NothingGoesBack` under `CloudAhead = 0`, from both,
  with the exceptions of the first.
  The code does nothing to keep the clocks together, so the hypotheses are about its
  environment. Neither can be dropped: with `CloudAhead = 2`, one row and two
  cycles TLC finds a late answer that takes the row back, and with
  `CloudAhead = -6`, one order and three cycles a late batch that takes the order
  from READY to ACKNOWLEDGED, against the comments at `import-catalog.ts:5` and
  `import-orders.ts:117` (two findings).

The other assumptions are the named ASSUMEs of the modules about their
constants, which TLC evaluates in every run. Every safety property of a run, the
action properties and refinements included, is the conclusion of a theorem. Only
model-checked are the twelve liveness properties, such as `PaidOrderStopsWaiting` and
`ReadyIsTold`: liveness under fairness and ENABLED are out of reach of the prover.
The theorems of the library that take an operator as a parameter (its induction
theorems) cannot be used with the installed provers, so induction over data goes by
a smallest counterexample, as in `Basket_proofs`; no module needs a RECURSIVE
operator.

## 5. Not modelled, and the plan

Not modelled, because nothing in it decides anything another part relies on, or
because it is a function of one request's input that its unit tests enumerate:
HTTP, signatures and field mapping of the providers; the terminal's wire format;
permissions (a static table); token signing and password hashing; prices, options
and images of a dish, and the offer banner with the grant of its slot (columns no
modelled decision reads); lists, reports and
diagnostics (read-only queries); configuration, logging and audit; layout and
styling of the front ends; the admin app, whose forms send what `Console` models.
`cart/cart.ts`, `payments/credit.ts` and most of `tenancy/session.ts` have no
caller but their tests.

Out of reach at the present bounds, and listed as hazards or findings without a
property: starvation between orders by the limits of the sweeps (it needs more
than twenty orders), an exception that ends a sweep for the orders after it.

What the plan has left:

1. Composition of `Payments`, `Dispatch` and `Refunds` over one order table, in
   place of the environment actions that move an order in each of them.
2. A module of the sweeps over several orders with a limit, for the starvation
   above, with abstract orders.
3. The offer slot: asked for by the stall, granted or declined by the platform, on
   two surfaces.
