# POS Core V2: specifications and proofs

POS Core is an offline-first point of sale. A *Desktop* runs a local API on
SQLite (`apps/api/src/local`, `apps/api/src/core-v2/local-routes.ts`) inside a
Tauri shell, and keeps selling without a network. A hosted API on PostgreSQL
(`apps/api/src/server.ts`, `apps/api/src/sync`) serves web users and reconciles
the Desktops of each licensed Business. `apps/web/src/sync` holds the
reconcilers that carry data between the two.

This directory holds the TLA+ model of that system, the instances TLC checks
and the theorems TLAPS proves. It covers the cash-register protocol, which every
sale hangs on and which `docs/CORE_V2_SYNC.md` describes as the pattern of the
others; the realtime connection that makes it prompt; the sync of stock, sales
and returns, and of master data; the hosted till, where orders, payments and
counter sales meet; the activation of devices under a licence; and the
provisioning of a Business. Sections 3 to 10 take the models one by one,
section 11 says what is left out.

| Module | Proofs | Runs |
|---|---|---|
| `CashRegisterSync`, `CashLedger` | `CashRegisterProofs` | `cash_devices`, `cash_retry`, `cash_settles`, `cash_late_close` |
| `RealtimeSync` | `RealtimeProofs` | `rt_connections`, `rt_live` |
| `Activation` | `ActivationProofs` | `act_quota` |
| `Provisioning` | `ProvisioningProofs` | `prov_attempts` |
| `StockSync` | `StockProofs`, `SumFacts` | `stock_devices`, `stock_snapshot` |
| `HostedOrders` | `HostedOrdersProofs` | `orders_service` |
| `MasterDataSync` | `MasterDataProofs` | `master_devices` |

Each module has an `MC` module with the values of its constants. Every safety
invariant and action property that a passing run checks is also a theorem, for all
values of the constants, but for `NeverInItsOwnWay`; two hold under a hypothesis that
the theorem names (section 5). `TypeOK` is a theorem of each module. The provers do not reach
liveness, which is left to TLC. An operator under a comment `Mutant:` is a plausible
bug of the definition after it; `PROJECT.json` names the property TLC finds violated
with it.

## 1. Inventory

| Component | State it keeps | Operations | Interacts by |
|---|---|---|---|
| Cash-register reconciler `web/src/sync/desktopCashRegister*.ts`, `DesktopSync.tsx` | loaded outbox, quarantined sessions, one running reconciliation | load, push each mutation, acknowledge / conflict / defer, pull, apply | HTTP to both APIs; 15 s timer, `online` event, realtime event |
| Hosted cash sync `api/src/sync/desktop-cash-register.ts` | `cash_register_sessions`, hosted `sync_mutations` | push (deduplicated), pull by cursor | PostgreSQL transactions |
| Hosted cash handlers `api/src/server.ts:990-1037` | `cash_register_sessions` | open, close | row lock, unique open index |
| Local cash handlers `api/src/local/server.ts:419-424` | SQLite sessions, outbox | current, open, close | one SQLite transaction each |
| Local cash sync routes `api/src/core-v2/local-routes.ts:515-559` | outbox, `sync_state` cursor | outbox, retry, ack, conflict, defer, state, apply-v2 | called by the reconciler |
| Realtime client and hub `desktopRealtimeCore.ts`, `desktop-realtime.ts` | socket, generation, timers; subscribers | connect, reconnect with backoff, publish, heartbeat | WebSocket; triggers reconciliation |
| Transactional reconciler `desktopTransactionalSync.ts` | running flag | stock, purchases, orders, sales jobs in order | HTTP |
| Stock, sales, order, purchase and master-data sync, hosted and local halves | outboxes, cursors, sync identities | push, pull, apply, conflict | HTTP, transactions |
| Hosted POS handlers `core-v2/routes.ts`, `server.ts` | sales, stock, tables, QR orders | sell, return, order, transfer ... | PostgreSQL |
| Licensing `api/src/license` | licences, devices, activation codes, grants, sessions, certificates | activate, release, revoke, regenerate | control database |
| Provisioning and tenancy `api/src/saas` | vendor businesses, tenant databases | provision, retry, route | control and tenant databases |
| Local backup and migrations, Tauri shell, user interface, menu import, shared packages, legacy Laravel/React | files, processes, screens | | |

What is hard: a push whose answer is lost is sent again; a request abandoned
after 8 seconds may still be executed; cashiers keep working between any two
steps of a reconciliation; several devices and web users race for one branch;
pull cursors order rows by time stamps while rows appear in commit order; a
failing local write stops a queue. What makes each component correct:

- cash registers: one open session for each branch, every mutation takes effect
  once, a close reaches the session it was made for, devices file only what the
  server decided, nothing behind a cursor is missing, the outbox drains;
- stock: deltas are applied once on both sides and converge; sales: an order is
  sold once, returns never exceed sales; orders: status never goes back;
  purchases: received once; master data: no lost update without a conflict;
- realtime: one live connection, an event is followed by a reconciliation that
  starts after it;
- licensing: a code activates one device, the quota is never exceeded, a revoked
  device is not served; provisioning: a retry converges to one tenant.

## 2. Plan

Done, in the order of importance: cash registers with their abstract ledger,
realtime, activation, provisioning, stock and sales, the hosted till, master
data; each with its proofs. What is left:

1. Order and table-event sync and purchase sync, which run the loop of
   `StockSync` over the tables of `HostedOrders`; a module that composes the two
   (a desktop's push of an order status against the hosted handlers).
2. Proofs: `NeverInItsOwnWay`, and what `NoOrphanClose` and `NeverCopiesOwnSession`
   come to when the retry route is called; the refinement of the other protocols,
   once they have an abstract specification.
3. The local handlers of `apps/api/src/local/server.ts`, of which only the
   register, stock operations, sales and returns are modelled.

## 3. The cash-register model

| File | Content |
|---|---|
| `CashRegisterSync.tla` | the protocol: devices, reconcilers, hosted transactions, network, web users; properties; mutants |
| `CashLedger.tla` | what the hosted side promises, without devices or network |
| `MCCashRegister.tla`, `cash_*.cfg` | instances for TLC |
| `CashRegisterProofs.tla` | type correctness, the inductive invariant and the safety theorems, the refinement of the ledger, what cursors pass, what a queue without retries guarantees |

State and code:

- `sessions[d][r]`, `outbox[d][m]`, `cursor[d]`: the SQLite tables
  `cash_register_sessions`, `sync_mutations` and the `cash_register_cursor` row.
  A row is named by the open mutation that made it, or by the negated hosted id
  it was pulled under, in place of SQLite's id. `sync` has no "local": both
  handlers write "pending" and nothing tells the two apart.
- `worker[d]`: the awaited request of the single-flight reconciler and what it
  holds in memory: the loaded batch, the server ids patched into it, the
  quarantined sessions, the page and cursor of a pull.
- `hosted`, `outcome`: `cash_register_sessions` and `sync_mutations` in
  PostgreSQL; `done` and `web` are history variables.
- `strays`: pushes whose client gave up and which the server may execute later, in
  any order; an open given up between its two statements goes on from there.
- `clock`: counts the hosted commits that write a session.

A handler is one action where it is one SQLite transaction (`LocalOpen`,
`LocalClose`, `Retry`) or a PostgreSQL transaction that locks the row it goes by
(`ServePush`, with one disjunct for each way it ends; `WebClose`). A pushed open that
finds no register open locks nothing, so it has two steps: `LookPush` (or `LookStray`)
is its look-ups, `InsertPush` its inserts and commit. Another open may commit in
between; then the unique indexes on open sessions and on client ids refuse the insert
(`OutOfTurn`), the transaction is rolled back and the reconciliation ends
(`FailedPush`). A web user's open has the same two statements, but a look-up that
leads to no insert leaves nothing behind, so `WebOpen` is the insert alone.
`FailedPush` is also the 403 of a profile the server has at another branch
(`Refused`). `Load`, `SendPush`, `Ack`, `FailedAck`, `Conflict`, `Defer`, `Pull`,
`Apply`, `SkipApply` are the reconciler between two awaits. `GiveUp` is every other
way a request fails: offline, timeout, 5xx answers, a closed window; a request
that was sent may become a stray. The pull and its answer are one step, since a
pull reads one snapshot and a lost answer is `GiveUp` followed by nothing.

Time: a hosted transaction stamps `updated_at` with the time it began, and it
may have begun up to `TxSpan` commits ago but not before its request was sent
(`Stamps`). The cursor order is `After`; the device's own comparison,
`AfterInMillis`, drops what is below a millisecond (`TicksPerMs`).

Abstracted: amounts, notes, users and business dates, which no decision of the
protocol reads. The branches of the profiles used on a device are fixed: those it
has them at (`UserBranches`) and those the server has them at (`HostedBranches`),
which differ when a profile was moved after it had queued a mutation; the branches a
device has from bootstrap are `KnownBranches`. Signatures, licence and role checks
fail a request before it changes a session and are part of `GiveUp`. A crash of the window or the shell loses `worker` only and is the same
step; SQLite state survives.

## 4. What the runs show

`Device`, `Branch` and the bounds `MaxMut`, `MaxHosted`, `MaxStrays` are
constants. Deadlock is not checked: every run ends when its mutations are used
up and nobody has to do anything.

| Run | Instance | Shows |
|---|---|---|
| `cash_devices` | 2 devices, a Business without branches, 2 mutations each | `NeverCopiesOwnSession`, `ImplementsLedger` |
| `cash_retry` | 1 device, a web open, 3 mutations, retry route, a stray, batches and pages of one row, `TxSpan` = 2, two ticks in a millisecond | `OpenedOnce`, `VerdictIsHosted`, `CloseReachedItsSession`, `NothingSkipped` |
| `cash_settles` | 1 device, 2 branches of which the server accepts one, a web open, 3 mutations, fair | `NoOrphanClose`, `NeverInItsOwnWay`, `EventuallySettled` |

The bounds are the least in which the cases meet: two mutations are an open and
its close, a third reopens (and a reopening is what displaces, blocks or
orphans); two devices race, a third adds only another loser; one stray is
overtaken by its own repetition; two hosted sessions let one be closed and
another opened on the same branch. `OutboxLimit` and `PullLimit` are the code's
100 and 500 except in `cash_retry`, where 1 makes a batch end between an open and
its close and a page between two rows.

That no branch has two open registers is not a property of its own: `CashLedger` has
it as the guard of its opens, so that `ImplementsLedger` fails when two opens that
both found none get through. `cash_devices` has no branches because NULL is what the
first unique index let through (`drizzle/0023`), and the mutant is that index.

`NothingSkipped` names the one reason for which a pull passes over a change: a later
transaction committed before it (`Overtaken`). The code does skip such a change, and
`cash_retry` reaches it; equal stamps, the limit of a page, stamps that share a
millisecond and late requests never are a reason.

`EventuallySettled` names the two mutations that may hold a queue for ever
(`HeldUp`): one the server refuses each time, and one whose answer a unique index of
SQLite keeps from being stored. Both occur in the run; nothing else holds a queue, and
what is sent before such a mutation settles.

**Fairness.** `DesktopSync.tsx` reconciles every 15 seconds and when the network
returns, for as long as the window is open: weak fairness of `Reconcile(d)`. A
network that fails now and then must not fail each time at the same request,
hence strong fairness of sending, serving and answering. Cashiers and web users
owe nothing. Strong fairness is of a request that can be served: a refused one
(`FailedPush`) is enabled instead of it, so fairness does not help it through.

### Disagreements and limits

`cash_late_close` shows a disagreement between code and documents
(`QueuedCloseStands`): a close made after the outbox was loaded is undone locally
by the older page of the same reconciliation, until the next one. `PROJECT.json`
quotes the lines on both sides.

Limits of the protocol, which the properties except by name or the models show:

- a transaction that a later commit overtakes may commit behind a cursor that has
  been handed out, and its row is then never pulled (`Overtaken`);
- the device compares cursors in milliseconds: a page newer by microseconds is
  ignored until a later millisecond brings news (`AfterInMillis`);
- a close takes whichever open session the database holds, also one of another
  branch that was pulled;
- a sale takes any open session row, of any branch and sync status
  (`local/server.ts:427`);
- a profile moved to another branch makes every later push of what it queued fail with
  403, and everything queued behind it waits (`Refused`);
- a mutation put back by the retry route (`local-routes.ts:518`, which no client in
  `apps/web` calls) leaves its place in the queue: a close is pushed without its
  open (`NoOrphanClose`), and with a batch of one row a pull may run before an open
  in doubt is sent again and bring the device its own session
  (`NeverCopiesOwnSession`);
- a displaced open is applied by the server later; SQLite refuses the
  acknowledgement (`cash_register_one_open_idx`) and every reconciliation stops
  there, before the pull that would clear it (`AckRejected` in `HeldUp`).

## 5. What is proved

All theorems hold for every set of devices, every non-empty set of branches and
all bounds, under `DeviceAssumption` and `BoundAssumption` of
`CashRegisterSync`: constants have their types, and a device knows the branches
of its profiles.

- `WellTyped`: `Spec => []TypeOK`.
- `OpensExactlyOnce`, `DevicesBelieveTheServer`, `ClosesReachTheirSession`:
  `OpenedOnce`, `VerdictIsHosted`, `CloseReachedItsSession`.
- `CursorsAdvance`: `CursorAdvances`, with any `TicksPerMs`.
- `Refinement`: `Spec => Ledger!Spec`.
- `CursorsPassNothing`: `NothingSkipped`, with any `TxSpan` and page size.
- `NoCloseIsOrphan`, `NoDeviceCopiesItsOwn`: `NoOrphanClose` and
  `NeverCopiesOwnSession` where nobody calls the retry route (`~RetryCalls`).

That hypothesis is what the client does, and it is needed: with calls of the route TLC
violates both properties (section 4).

`OpenedOnce`, `VerdictIsHosted` and `CloseReachedItsSession` are not
inductive. `IInv` strengthens them with one idea: *wherever a server id travels it is the id of its
row, and it never changes*. `OutboxInv` says which row a queued mutation speaks
of, `RowInv` which ids rows may hold, `OutcomeInv` that an outcome names an
existing session of the right kind, `WorkerInv` that ids in a loaded batch or in
an unread answer, and the pages awaiting apply, agree with rows and outcomes, and
`StrayInv` the same of abandoned requests, which may be executed long after their
row has gone on. `WorkerInv` and `StrayInv` are what makes a late execution
harmless: the id it carries is either none, and then the close is refused, or the
one its row still has. The proof takes one lemma for each action and one step for
each conjunct the action can disturb. The refinement maps hosted rows and
outcomes to the ledger and drops everything else; each `ServePush` is one ledger
step or none, local steps are none.

The last three have invariants of their own on top of `IInv`:

- `PullInv`: all stamps and cursors lie before the clock (`ClockInv`), so what is
  committed next comes after them or is overtaken; a page awaiting apply holds every
  row between the cursor and its end that was not overtaken, as the row is now or with
  a change past that end (`PageOK`); a row kept for a pulled session has its server id
  (`CopyOK`).
- `OrphanInv`: a pending close without a server id stands behind the pending open of
  its row (`QueueOK`); the batch then holds both or the open is settled, and the open
  goes first (`BatchOK`).
- `DoubtInv`: an open the server may have decided without the device knowing is among
  the first `OutboxLimit` pending mutations and still to be sent in this cycle
  (`DoubtOK`), since only mutations before it can leave the queue (`CycleOK`), so no
  pull runs before the device knows its session (`CopiesOK`).

Left to TLC: `NeverInItsOwnWay` and `EventuallySettled`.

## 6. The realtime model

`RealtimeSync.tla` models one Desktop's connection: the client object of
`desktopRealtimeCore.ts`, the hub of `desktop-realtime.ts`, and when
reconciliations run (`desktopCashRegister.ts:55-61`, `DesktopSync.tsx`). What a
reconciliation does is the other model; here it is "before" or "after" its pull.
Clients share only the hub's channel, where each is announced to separately, so
one is enough. `MCRealtime.tla` and `rt_*.cfg` hold the instances.

- `client` holds the object's variables. `generation` is compared only with the
  value an attempt captured, so `connecting` says whether the attempt in progress
  is of the current one. Attempt counts and delays are left out: a timer fires
  at some time.
- `cs[i]`, `conn[i]`: the two ends of connection `i`; they learn of each other's
  close separately. A closed identity is used again, so a late answer for an old
  connection can meet a new one if the code lets it.
- `check[i]`: the server waits for the first message, or for the control
  database's answer to it. `subscribers`: the hub's map.
- `up`, `down[i]`: messages in flight. A path that breaks (`Break`) loses them
  and tells nobody; offline, likewise, each side finds out by itself.
- `run`, `queued`: `activeReconciliation` and `reconciliationQueued`;
  `client.reconciling`, `client.again` the second layer of coalescing above it.
- `pub`: commits whose `publishCashRegisterChanged` is still to come, since the
  handlers publish after their commit has returned; a restart forgets them.
- `unseen`: some committed change has not been pulled; `failed` marks that a
  reconciliation failed since the last one was committed.

`StartNew` is what `desktopRealtime.ts` does after it released a client; `Start`
of the same object after a stop is what the core offers and its tests use.

| Run | Instance | Shows |
|---|---|---|
| `rt_connections` | 2 connections, 1 unannounced commit, 1 fault | `NoChangeMissed`, `NothingLeftBehind` |
| `rt_live` | 1 connection, 1 commit, 1 fault, the timer, fair | `EventuallyConnected`, `EventuallyPulled` |

Two connections are an old one that is closing and the one that replaces it; a
third only repeats the old one. In `rt_live` one identity serves them all, so an
attempt may await its credentials but not dial while the old connection is
closing. A fault is a refusal, missing credentials, a time limit, a broken path
or a restart; going offline, stops and starts are not counted. `MaxDown` holds
back new commits, not messages. Deadlock is not checked: a stopped client may
rest for ever.

**Fairness.** `ConnectFairness`: scheduled callbacks run, both ends' handlers and
time limits run, and a browser reports the end of a connection that waits for an
answer or whose path works. It does *not* assume that a browser notices a silent
path once it is authenticated and only listens (`Noticed`): the client sends no
heartbeat of its own, so in that case only the server's end closes and the
Desktop relies on its timer. `TimerFairness`: `DesktopSync` reconciles every 15
seconds, a reconciliation and the ones after it end (each request has its time
limit), and one of them now and then gets as far as its pull.

**Proofs.** `RealtimeProofs.tla` proves, for any number of connections and any
bounds, `RealtimeTyped`, `NoChangeIsMissed` and `NoConnectionIsLeft` from `SocketAssumption` and `BoundAssumption`. `NoChangeMissed`
rests on a chain: a connection is silent before it is subscribed (`Silent`), the
server examines it only after the client spoke (`Spoken`), so "ready" is the
first message and is still in flight while the client is not authenticated
(`ReadyFirst`), so every later "changed" counts and each of them leads to a
reconciliation that has yet to pull (`Waiting`). `ClientInv` says that a stopped
client awaits nothing current. The two liveness properties are left to TLC.

## 7. Activation: codes, quota, devices, certificates

`Activation.tla` models one licence in the control-plane database with the
routes of `api/src/license` that change it.

- `licence`, `business`: the status and limits of the two rows; `token`:
  `license_activation_codes` and `provisioning_activation_grants`, where "dead" is
  revoked or expired; `device`: `license_devices`; `certs`: approved
  installations of `license_activations`.
- `conn[k]`: what the transaction on a pooled connection does, `holder`: who has
  each row lock. A request takes its locks one at a time in the order of its
  `FOR UPDATE` clause (`Begin`, `Acquire`), reads, and commits or rolls back.
- `CheckActivate`, `CheckValidate`, `CheckOffline`, `CheckLegacy` end where the
  route starts to sign; `Certify` is `issue()`, which asks for a second connection
  of the same pool while the first keeps its locks, and the commit.
- `Rollback` is every refusal: signature, nonce, fingerprint, expiry, lifecycle
  stage, a deadlock PostgreSQL resolves, a pool with no second connection.
- `RefuseLimits` is `return reply.code(409)` at `license/routes.ts:2789`, which
  leaves a transaction and its lock open on a released connection, until a later
  request on it or the pool (`Evict`) ends it.
- `TokenExpires`: `now()` is the beginning of a transaction, so a code that
  expires under the transaction that locked it is refused or still used.

`act_quota` has two connections (two transactions that race; a third only waits
longer), one Desktop, one browser, two codes, one grant, and limits of one and two
devices in total, so that each limit is met. `QuotaHeld`,
`RevokedLicenceHasNoDevice`, `ActivationIsAtomic`, `OnlineCertificatesAreEarned`
and `TokensEndOnce` are the properties. Nothing is promised of progress: requests
may be refused for ever.

**Proofs.** `ActivationProofs` proves all five and `TypeOK` for any connections,
installations, codes, grants and limits from `ActivationAssumption` (the sets of
installations, codes and grants are disjoint, the installations finite). The
invariant adds what a request knows between its check and its commit (`Issuer`):
it holds the locks it asked for, hence the licence, the business and its token
are as it has read them. The quota needs lemmas on cardinalities: registering a
device that is known changes no count, registering another uses a free slot.

What the model shows besides, without a run of its own: the offline route reads
the device without a lock and may certify one that was revoked meanwhile
(`OnlineCertificatesAreEarned` excepts it by name); `renew` makes any licence
active, also a revoked one, which reactivation refuses (`license/routes.ts:3044`
and 3002), and suspending first gets round that refusal too; activation locks
code, licence, business and regeneration licence, business, code, so that
PostgreSQL must abort one of the two; after a lost answer to a committed
activation, the retry is told that the device is active already.

## 8. Provisioning

`Provisioning.tla` models onboarding (`vendor-business-provisioning.ts`), tenant
databases (`tenant-provisioning.ts`, `tenant-registry.ts`), recovery with a
provisioning key, `PUT /businesses` and `POST /licenses`.

- `request`: the idempotency keys; `vendor`, `recipe`, `tenant`, `licences`,
  `runtime`, `bound`, `credential`: tables of the control plane; `database`:
  tenant databases with the number of migrations applied and their owner. In
  shared mode the same variable holds the rows of the runtime.
- `proc[p]`: a handler and what it does next. A statement outside a transaction
  and a transaction are one step each (`Claim`, `CommitOnboarding`, `Begin`,
  `Reset`, `Register`, `CheckDatabase`, `CreateDatabase`, `CheckFile`, `ApplyFile`,
  `SeedTenant`, `SeedShared`, `Complete`, `ReadLifecycle`, ...). Control-plane
  transactions begin by locking the Vendor Business; `Recover` keeps that lock
  while it works in another database.
- `Fail` is any statement that fails, and leads to the handler's `catch`
  (`FailRecipe`, `FailTenant`), each of whose updates may fail too; `Crash` is the
  end of the API process.

`prov_attempts`: two handlers, one key, one business, which may be older than
onboarding, two names and two owners, so that a rename or a recovery with other
data happens, two migration files (one between two steps), both tenancy modes,
and two faults, so that a failure meets a failing clean-up. `TypeOK`,
`CompletedIsWhole`, `ReadyIsUsable`, `PreparedForGood`, and `OneOfEach`, whose
three parts say that a request sent twice makes one business, with one licence
and one database. `EventuallyCompleted` holds under `Fairness`: a handler that is
neither failed nor killed goes on, and the operator retries what is not prepared
(strong fairness, since a retry finds a free handler only now and then).

**Proofs.** `ProvisioningProofs` proves `TypeOK`, the three safety properties and the
action property for any handlers, keys, businesses, names, owners and number of
migrations, in both modes, from `ProvisioningAssumption`. `IInv` has three parts
beside the types. `Tables` relates the rows of the two databases: a tenant row names
the database its recipe asks for and an active one a usable database (`Tenants`), and
an onboarded business has no other database (`Stores`). `Handlers` says what a handler
may rely on after other handlers have worked: its setup is its recipe's (`Follows`),
and the database has at least the migrations it has counted (`Arrived`). `Alone` is
what locks and keys give: two handlers onboard under two keys and recover two
businesses. Most steps only move tables forward (`Forward`), and
one lemma carries what the other handlers know over all of those. `EventuallyCompleted`
is left to TLC.

Beside the runs: a failure is written over a business another attempt has just
completed, which then shows as `PROVISIONING_FAILED` until the next retry, and so
does a `readLifecycle` that fails after the commit; a crash leaves `PROVISIONING`
without an error; `licences.vendor_business_id` has no unique constraint, only
the lock keeps licences to one; a recovery under another name makes a second
database (`license/routes.ts:1545`; `OneOfEach` speaks of onboarded businesses).

## 9. Stock, sales and returns

`StockSync.tla` models how the stock of one product travels: stock operations,
sales and returns made on desktops (`local/server.ts`), the stock and the sales
job of `desktopTransactionalSync.ts`, the push endpoints
(`desktop-stock-movements.ts`, `desktop-sales.ts`), and the pull to every device.

- `made` numbers every movement; the number is its client id. `hosted` is
  `stock_movements` in the order of ids, `decided` is `sync_mutations`, `hstock`
  and `stock[d]` the two `products.stock`.
- `unsent[d]`, `known[d]`, `cursor[d]`, `books[d]`, `salesCursor[d]`: outbox, local
  movements, pull cursor, local sales and returns, and the cursor the two share.
  `rec[d]`: the job, its step, the mutations
  loaded and the page. `late`: requests given up that may still arrive.
- `Record` is the SQLite transaction of an operation, sale or return. A pushed
  mutation is applied, replayed or refused; a refusal rolls everything back and
  ends its job. `ApplyStock` takes a page in one transaction, or none of it
  (`ApplyRefused`): it may not be storable, or the device takes it for an old one,
  since it compares cursors by millisecond and then by id (`Reconciled`).
- Time is counted in half milliseconds. Each movement is made in a millisecond of its
  own, at its start; the server stamps in either half (`Clock`, `Halves`), so that two
  stamps may share a millisecond. Stock operations keep the time of their device.
- Sales and returns have ids of their own tables (`LedgerId`) and one cursor. The
  server finds the last of a page by millisecond and id (`LastSales`) and selects by
  the exact stamp and id (`SalesAfter`); the device compares like the former
  (`SalesReconciled`). `PullSales` is the pull and its application; it stores nothing
  where a return lacks its sale or a new sale lacks what is not modelled here, its
  register session or its order, which may happen for any new row (`PullSalesRefused`).
- "quiet" is an operation without a note: `note not like 'Order %'` is null
  then, so that it is in no outbox. Movements of a sale or return travel with it.
- `Identity`: the outbox finds the movement of a return by its note, and takes the
  newest one the user has made of the sale. A device has one user here; that the
  note is matched as a prefix, which confuses sale 1 with sale 10, is not modelled.
- A request for a return may name its product several times (`lines`). Each line is
  compared by itself with what is left (`PerLine`, `TakeBack`), locally and at the
  server; locally all of them pass, at the server the second meets the unique client
  id of the first. The movements of one return are one movement of their sum.

`stock_devices`: two devices, one of which joins later, and the web, three
movements, a first sale of two, changes of -1, 0 and 1, two returns of a device,
requests that name the product twice, one fault, pages of two rows. Three movements
are a sale and two returns that compete for it, two returns of one sale that wait on
one device, or a change between a push and the pull of its echo. `Explained`,
`CountedOnce`, `SentIsHosted`, `ReturnsWithinSale`, `StampedHereIsPulled`;
`EventuallySent` under weak fairness of `Reconcile(d)`, since a running desktop
reconciles on each change, announcement and timer. It names the reasons for which a
device does not get through: the server refuses the first mutation of the job, or the
device cannot store the page or takes it for an old one. A job that stops so does not
stop the other one.

`Explained` relates a device to the server by what one of the two has not seen: rows
not pulled, mutations not decided (`Undecided`). It speaks of devices that began with
the product; the one in `Late` is the subject of `stock_snapshot`.
`StampedHereIsPulled` leaves out rows stamped by devices, and of sales and returns
those that share their stamp with one of the other table (`Tied`).

In this run the server stamps in the second half of each millisecond, which leaves
stamps that are equal and stamps of devices before them; both halves are in
`stock_snapshot` and in the theorems, since with them the run with fairness takes too
long. The safety properties hold with both halves as well, by the theorems below.

`stock_snapshot` shows a disagreement with `docs/CORE_V2_SYNC.md:48` ("Sync events,
not product stock snapshots"): a device that loads the product late gets its stock
of now, and then every movement since the first.

**Proofs.** `StockProofs` proves `TypeOK` and the five safety properties for any
devices, movements and faults, from `StockAssumption`. For `SentIsHosted`
(`NothingForgotten`) and `StampedHereIsPulled` (`NoStampedMovementSkipped`) the
invariant says that a mutation whose acknowledgement is next is decided; that rows the
server stamps are later than all before, while rows of devices may lie anywhere; and
that a page waiting to be applied holds every stamped row from the cursor to its end.
For sales and returns `Ledgers` says that their cursor is at one of them, and that
what lies before it is in the device's books or tied.
The other three are sums. `SumFacts` proves, by well-founded induction on the subsets
of a finite set, that `SumFunctionOnSet` satisfies its recursion, then that a
sum may be split at any element and is monotonic. With it `CountedOnce` needs only that
decided mutations are never decided again, and `ReturnsWithinSale` that a return is
checked under the sale's lock against those decided before.
`Explained` needs that an identity names one hosted row, that what a device knows it
made or pulled, and that what it made it knows (`Identified`). A row may then carry the
identity of another return than the one it is the movement of, as it does when two
returns of one sale wait and both are pushed under the newest one's: the device knows
that identity already, so the row is no news to it, while the mutation it stands for
leaves `Undecided`. Hence `StockIsExplained` has no hypothesis.
`EventuallySent` is model-checked only.

Limits seen: an operation pushed late is stamped by its device and may lie behind
every other device's cursor, where nobody pulls it; a correction to the stock
there is makes a movement of 0, which the push refuses each time; two unsent
returns of one sale are pushed under one identity, and the second is refused for
ever, as is a return that names its product twice, and the sales queued behind it
wait; a page with a remote sale a device cannot cover is rolled back each time; a
page whose last row is later by less than a millisecond and has a smaller id is taken
for reconciled until another one follows; of a sale and a return with one stamp the
cursor may pass over one; the manual retry route is not in the model.

## 10. Orders and master data

### The hosted till

`HostedOrders.tla` models orders of one table by staff and by QR menu, additions,
status, cancellation, the kitchen, payment (`core-v2/routes.ts`), counter sales,
returns and the register (`server.ts`), on one tracked product at price one.

- A handler that is one transaction without an unprotected read is one action
  (`AppendItems`, which locks its order first, `OpenRegister`, `CloseRegister`).
  Others are split where they read before they lock (`StatusRead`/`StatusWrite`),
  where they look a client id up before their transaction
  (`OrderRead`/`CreateOrder`: of two requests that find nothing the unique index of
  `orders` refuses one, `UniqueClient`), where they
  hold a lock between two statements (`PayBegin`/`PayCommit`,
  `SaleBegin`/`SaleCommit`, `ReturnBegin`/`ReturnCommit`), or where statements are
  autonomous (`KitchenTap`, `KitchenRead`, `KitchenWrite`). `call[h]` holds what a
  handler has read; `OrderFree`, `SaleFree`, `ProductFree`, `SessionFree` are
  the row locks. `Stop` is a handler that ends half-way.
- An order of the QR menu leaves no movement when the business has no active owner,
  patron or admin to sign it (`noted`); `StockIsItsMovements` counts these orders
  apart. The transaction of `CreateOrder` is one step, since its statements that
  matter to others come under the product's lock.
- A return may name a line of the sale several times (`entries`, up to `MaxEntries`):
  each entry is compared with what came back before the request, so that all pass.
  `returned` counts the lines that came back and `again` the units a request
  brought back beyond them.
- `orders_service`: two handlers at once, one order with one addition, two taps of
  the kitchen, a counter sale beside the payment, a return with two entries, one
  session. One order is enough since orders meet only in the product; two handlers are
  the reader and the one in between, or the same request twice.
- `PaidInFull`, `RequestedOnce`, `StockIsItsMovements`, `ReturnsWithinSale` and
  `ClosingCountsItsSales`.

**Proofs.** `HostedOrdersProofs` proves all five and `TypeOK` for any handlers, orders
and bounds from `ConstantsAssumption`. Each has an invariant that adds what
handlers have read: one counter sale at a time holds the product and knows its
stock (`ProductHeld`); a payment under way has read the total of an order nobody
else pays, and a paid order has all its lines in its sale (`Payments`); an
addition is in the audit log (`Origins`); a return under way has found something
left (`Returns`); a counter sale under way is in a session that is still open, so that a
closing has it in its sum or comes before it (`Tills`). A session keeps the set of
sales that `expected_cash` adds up (`counted`), not the amount.

Limits seen: `pay` reads the open session without a lock (`routes.ts:257`), so that
its sale may enter a session that was counted in between (the property speaks of
counter sales, which take `FOR SHARE`); `pay` does not look at "cancelled", so an
order whose goods went back to stock can be sold; the status `PATCH` writes over a
status it has read without a lock (234, 254), and the kitchen sets the status of
any order: a cancelled order can be revived and cancelled again, and its stock
restored twice; a return request that names one `sale_item` twice passes and brings
more back than was sold (`ReturnsWithinSale` speaks of requests at the same time);
confirming an inventory count overwrites sales made since it was counted
(305-309).

### Master data

`MasterDataSync.tla` models rows edited on desktops and on the web: the triggers of
`local/database.ts` that queue each change, the reconciler, the push with the
version an edit was made on (`desktop-master-data.ts`), and the pull
(`master-data-sync.ts`).

- A row's content is the number of the edit that wrote it. `edits` lists all
  edits with their author, the version they replace (`over`) and what became of
  them; `log` lists hosted versions, whose stamp is their position; `decided` is
  `sync_mutations`.
- `copy`, `base`, `status`, `cursor`: the device's row, the version it has of it,
  its sync status and pull cursor. `run[d]`: the mutations loaded, pushed in
  the order they were made (`First`), and the page; `late`: requests given up.
- The content of an upsert is read when it is sent, not when it was queued
  (`Prepared`). `ApplyPage` skips a row with a pending edit, and takes its own echo
  with a newer edit in the queue for a conflict.
- Foreign keys: `Category` files a row under another, one level deep. A push whose
  category the server lacks is "unavailable", a page that needs one the device
  lacks is not stored.
- An upsert without data (the row is gone from the device, `Missing`) makes the hosted
  statement fail (`Broken`), but on a row the server has deleted: there it updates
  nothing, and the mutation counts as applied.

`master_devices`: one device and the web, a product and its category, five edits,
one fault, pages of one row, so that a page can end between a product and its
category. Five edits are a creation, two competing changes and two deletions.
`InStep`, `SyncedEditsArrived`, `NoUnseenOverwritten`, `DeletedForGood`;
`EventuallySettled` under weak fairness of `Reconcile(d)` (the 15 s timer of
`DesktopSync.tsx`), except for a device whose first mutation the server fails on
each time (`Stuck`) and one that cannot store its page. Two devices with three
edits hold as well; devices meet only in `log`, where the web stands for the other
one.

**Proofs.** `MasterDataProofs` proves `TypeOK` and the four safety properties for any
devices, rows, edits and faults, from `MasterAssumption` (finitely many
rows, categories one level deep). Its `Inv` says that histories only grow
(`History`); that a device's version of a row is one (`Based`); that a push, also a
late one, carries a version of its row and the newest edit its device made on it
(`Requests`); that while something of a row is pending the row holds its newest
edit, made on the version the device has (`Queues`); and that a device
acknowledges only what the server has applied (`Verdicts`, `Arrivals`, `Acked`).
`InStep` needs `Copies` besides, which relates a device to the log: what the server
has applied of an edit that is still pending lies ahead of the cursor (`Echoes`), so
that an acknowledged row is either as hosted or has news to pull; a page holds one
version of a row and misses no change up to its end (`Paged`); and no hosted row is
filed under a deleted one (`FiledThere`), which is why deletions of a category reach
the rows in it. There is one lemma for each action; `EventuallySettled` is left to TLC.

Limits seen: a row created on a device has no version, so its next edit overwrites
an unseen web edit; of two edits queued before the first acknowledgement the
second conflicts with the first; an edit and then the deletion of a row before
either is sent makes the server fail each time, and the queue behind it waits; a
deletion that conflicts removes the row from its device for ever, with the
identity still called synced; a hosted deletion SQLite refuses for a foreign key
is swallowed; more than 500 changes may put a product on a page before its
category, which is then refused each time; a pulled change that is skipped for a
pending edit never comes again.

## 11. Not modelled

`PROJECT.json` lists every component with its status. Left out for good: user
interface, cryptography, PDF parsing, printing, deployment, shared type
packages and the legacy applications, which are pure input and output, or
superseded. The legacy `/sync/cash-register/apply` route and the outbox `ack`
route have no caller in the reconciler.

Left out so far: the purchases and orders jobs of the transactional reconciler and
their endpoints (`desktop-purchases.ts`, `desktop-orders.ts`, `order-sync.ts`);
inventory counts, table events, users, plans and reports of the hosted API;
routing of requests to tenant pools; local backups; the greater part of
`local/server.ts`. The models themselves leave out, as their heads say: prices,
payment methods, variants and discounts; hosted transactions that become visible in
another order than their stamps (but `TxSpan` in `CashRegisterSync`); clocks that
disagree; and limits of batches that no run reaches. Most of the repository's lines
are pages and rendering, queries of lists and reports, and copies of older
sources (`.hotfix-backup-20260910-165611`); the map therefore covers a small share
of them.
