# A TLA+ verification of MPP Router

MPP Router is a Cloudflare Worker that sells access to paid merchant APIs. A
payer pays the Router on Stellar (per call, by payment channel, with x402, or
from a prepaid playground balance); the Router pays the merchant (on Tempo, by
x402, by voucher) and passes the answer on. Around that sit the things that
must not go wrong with money: balances and vouchers kept in Durable Objects,
refunds when the merchant leg fails, invoices, coupons, and operator tools.

This directory holds TLA+ models of the Router's stateful parts, TLC
configurations that check them on small instances, and TLAPS proofs. Each
definition that stands for code is listed in `PROJECT.json` under `map` with
the lines it models. Findings, hazards and the status of each component are
listed there too.

## 1. Inventory

The columns are the state a part keeps, its operations, what makes it correct,
and the module that models it. `PROJECT.json` says for each part whether all of
it is modelled.

| part | state | operations | correct if | module |
|---|---|---|---|---|
| Atomic store (`mpp/atomic-store-do.ts`, `mpp/kv-atomic-store.ts`, `routes/stripe-atomic.ts`) | value and version per key, in one Durable Object | `/read`, `/commit`, `/seed`, `/scan`, `/gate`; `update`, `put`, `delete`, `casUpdate` | it is a linearizable register although calls overlap, retry, lose answers | `AtomicStore` |
| Refund queue (`refund/refund.ts`, `routes/refunds.ts`) | a record per payment: state, lease, envelope | enqueue, lease, complete, confirm, requeue, unpark, list | no refund is paid twice; confirmed means paid | `RefundQueue`, `RefundPipeline` |
| Refund signer (`refund-signer-core.ts`) and executor script (`scripts/admin/refund-executor.ts`) | reservations, sequence guard, the jobs of a run | a cron run; list, lease, sign, store, send, confirm | as above, through crashes and a lagging RPC; a submitted refund is settled | `RefundPipeline` |
| Order ledger (`services/order-ledger.ts`) | one row per order with refund and settlement status | record, update, query, statistics | a row tells what became of the money | `RefundPipeline`, `ChargeDelivery`, `X402Settlement` |
| Playground ledger (`playground/ledger-do.ts`, `routes/playground.ts`) | intents, balances, holds, totals, alarm | intent, open, reserve, dispatch, settle, reap | the books balance, caps hold, payments count once | `Playground` |
| Payment proxy (`routes/proxy.ts`) | request-local | verify payment, pay merchant, deliver, queue a refund | a paid request is delivered or refunded | `ChargeDelivery`, `ChannelDelivery`, `X402Settlement`, `TempoSession` |
| Stellar channels (`mpp/stellar-channel-*.ts`) | cumulative voucher, used challenges, delivery lock | accept voucher, deliver, roll back | the watermark is what was delivered; a failed call costs nothing | `ChannelDelivery` |
| Tempo channels (`mpp/tempo-client.ts`, `mpp/channel-store.ts`, `utils/tempo-channel-watch.ts`, `scripts/admin/*tempo*`) | two slots of channel records, watch state | resolve, pre-flight, sign, bump, top up, migrate, watch | a merchant is owed one quote per call; the watermark never falls behind | `TempoSession` |
| x402 settlement (`mpp/stellar-x402-server.ts`, `services/x402-settlement.ts`) | payload markers, result cache, order row, open marker | verify, reserve, pay, settle, resolve | a payload buys one call; the ledger says what the chain says | `X402Settlement` |
| Idempotency, rate limits (`mpp/idempotency.ts`, `mpp/rate-limit-do.ts`) | keys, counters | reserve, replay, peek, bump | one effect per key; the cap holds | `ChargeDelivery` |
| Asynchronous jobs (`routes/job-status.ts`) | job record, terminal record | poll, cron, roll back or refund | a job ends one way, and is paid for only if it was delivered | `ChannelDelivery`, `ChargeDelivery` |
| Playground channels (`routes/playground-channel.ts`, `playground/channel-*.ts`) | channel rows, stored voucher, close state | register, call, collect, close | what was charged is redeemable and collected | `PlaygroundChannel` |
| Stripe fulfilment (`routes/stripe-fulfillment.ts`) | fulfilment record, daily ledger | claim, sign, retry, reconcile, close | one Permit per session; paid means pulled | `StripeFulfillment` |
| Invoice creation (`routes/create-invoice.ts`, `existing-order.ts`, `relink-guard.ts`) | the order slots of a link | scan, create, reuse, supersede, re-target | one live order, never next to a funded one | `InvoiceOrders` |
| Invoice webhook and sweep (`routes/webhook.ts`, `coinbase-*.ts`, `invoice-claim.ts`) | record, claim, exec gate, paused index | webhook, settle, replay, sweep, confirm | one execution per link | `CoinbaseSettlement` |
| UPI (`routes/upi-invoice.ts`) | order record, claim, fingerprint | two protocols of execute and poll | paid once, reported as it happened | `UpiFulfillment` |
| Coupons and partners (`routes/coupon*.ts`, `partner-*.ts`) | coupons, partner record, idempotency keys | issue, reconcile, void, redeem, resolve | every coupon has its debit; redeemed once | `PartnerCoupons` |
| x402 payer (`x402payer/*`) | payments, top-ups, nonces (in an outside ledger), attempt cache | sign, top up, ops cron, reconcile | the Base funder covers what is owed; one credential a key | `X402Payer` |
| Provider registry (`routes/providers.ts`, `services/provider-*.ts`) | record, index, verification claims, proofs | register, prove, verify, publish, monitor | only what was paid for and last registered is public | `ProviderRegistry` |
| Operator tools (`routes/pay-invoice-admin.ts`, `checkout-control*.ts`) | switches, paused index | pay, enable, disable, clear | a refused delivery is not forgotten | `CoinbaseSettlement` (in part) |
| Catalogue, pages, OpenAPI | static data | none | no protocol state | none |

How they interact: the Workers are stateless and run concurrently; all shared
state is in Durable Objects, which run one handler at a time. The proxy writes
an order row and queues a refund in the atomic store; the signer, a separate
Worker, and the script reach that queue only through the Router's admin API,
each request of which makes one or two store accesses; they reach Stellar
through Soroban RPC. The playground has a Durable Object of its own.
Invoices, coupons, providers and Tempo channels keep their records partly in
that store and partly in KV, where a read and a write are two steps and nothing
compares versions.

What is hard: two store accesses of one request with others in between; leases
that run out while their holder goes on; a Worker that dies between storing,
sending and reporting; an answer lost after the effect; RPC nodes that lag or
have forgotten; an alarm armed after the transaction it is for. These are the
`hazards` of `PROJECT.json`, each with the properties that would show it.

## 2. Modules

```
AtomicRegister  <-- implemented by --  AtomicStore   (MCAtomicStore, AtomicStoreProofs)

RefundQueue  StellarLedger
        \      /
     RefundPipeline --> RefundInvariant --> MCRefundExecutors, RefundPipelineProofs
RefundPromise <-- implemented by RefundPipeline

PlaygroundLedger --> Playground --> PlaygroundInvariant --> MCPlayground, PlaygroundProofs

ChannelStore --> ChannelDelivery --> ChannelInvariant --> MCVouchers --> ChannelProofs

CoinbaseSettlement --> MCInvoiceSettlement --> InvoiceProofs
X402Settlement     --> MCX402, X402Proofs
ChargeDelivery     --> MCChargesAndCoupons --> ChargeProofs
X402Payer          --> MCPayerAndUpi       --> PayerProofs <-- MCInvoicesAndProviders

MCRefundExecutors      = RefundPipeline (signer) | RefundPipeline (signer and script)
MCVouchers             = ChannelDelivery | TempoSession | PlaygroundChannel
MCX402                 = X402Settlement | Playground
MCInvoiceSettlement    = CoinbaseSettlement | StripeFulfillment
MCInvoicesAndProviders = InvoiceOrders | ProviderRegistry
MCChargesAndCoupons    = ChargeDelivery | PartnerCoupons
MCPayerAndUpi          = X402Payer | UpiFulfillment
```

An MC module with `|` instantiates components that share no state side by side:
the variable `side` (or `topic`) picks one when the behaviour starts, the others stay as they
are. A property with a component's name on its side says nothing of the others.
This is not a composition; it lets one run ask the questions of several small
components. A proof module that extends an MC module proves about each of its
sides, for any value of the side's constants. Components that do meet are in one module: `ChargeDelivery` has the
proxy, the cap, the cache, the jobs, the refund executor and the ledger row;
`CoinbaseSettlement` has webhook, sweep, switch, administrator and coupon.

The newer modules name what the code lets happen instead of assuming it away:
a set `slips` (or a history flag) records that a named window was hit, and a
property lists exactly the windows it does not survive. Each exception was
needed: without it TLC finds a counterexample. They are listed in section 5.

### Atomic store

`AtomicStore` has the object's rows (`value`, `version`), the messages on their
way, and one record per client call. A call reads, applies its function,
commits with the version it read, and retries on a conflict, from the values
the conflict answer carries (`update`) or after another read (`casUpdate`).
A call may die at any time; a request it sent may still be executed.
`SeedKeys` are seeded whenever they are absent, also when a call deleted them:
the code seeds and deletes the same cumulative keys. `/seed` writes version 1,
and the history variable `stale` has the calls that work from a pair read before.
`AtomicRegister` is the promise: each call takes effect in one atomic step
between its start and its return. `Values` and `Fns` (the functions callers
pass) are parameters; the instance uses the claim of a
challenge, the raise of a voucher watermark and its rollback, which deletes.

* `VersionPinsValue`: who holds the current version holds the current value,
  calls in `stale` excepted.
* `AnswerIsEffect`: what a call returns belongs to the attempt that committed.
* `LinearizableUnlessReseeded`: refinement of `AtomicRegister`, where a call that
  `/seed` left behind may take effect on a value it did not read.
  The exception is needed: after a delete and a seed the commit of such a call
  meets the version it expects (section 5).

### Refunds

`RefundQueue` has the record transitions of `refund.ts` as operators (who may
lease, what a completion writes, what is answered); `StellarLedger` is an
external module with what the code relies on: an envelope has a sequence
number and a time window, each sequence number is used once, a node may lag by
`MaxLag` ledgers and remembers `Retention`. `RefundPipeline` puts the proxy's
failure branch, the signer and copies of the script on top. Every store access
and network call is one step, except that the read and the update of the
`manual_review` completion are merged in `Park`. `JobFails` is any exception of
a job, `Crash` the loss of a process. `RefundPromise` is what payers are told:
owed, paid at most once, reported only when paid.

* `NoDoubleRefund`: of all envelopes ever signed for a payment one succeeds at
  most.
* `LiveEnvelopeOnRecord`: an envelope that has paid or can still pay is the one
  on record.
* `ReportedOnlyIfPaid`: a record, reservation or order row says so only if it
  was paid.
* `ConfirmedIsFinal`: a confirmed record never changes.
* `KeepsPromise`: refinement of `RefundPromise`.
* `SubmittedIsLeftWhileRemembered` (liveness): a submitted refund is confirmed,
  parked or requeued, unless its transaction was included and failed, or the
  RPC has pruned the window in which it could have been included (`Forgotten`).
  Both exceptions are needed (section 5).

The assumption `SafeUse` says when the safety properties hold: nobody unparks,
or the RPC rejects for good only what no node holds and no script is running;
and no refund is leased, paid and confirmed between the two store accesses of
one `/complete`, or no script is running. Neither half can be dropped: run
`refund_unpark` shows it for the first; for the second see section 5.

### Playground

`PlaygroundLedger` has one operator per handler of the Durable Object,
`Playground` the routes that call them. A claim reads the intent, reads the
clock, verifies the payment and opens the intent; a call reserves, marks itself
dispatched, runs upstream and settles. Claims and calls overlap and may use the
same intent, payment or call id. The upstream payment is reduced to whether a
credential was signed for the call. `alarm()` settles stale calls with one
atomic write each and is restarted when it dies: `Reap` is one such write,
`AlarmEnd` the end of the handler. In `BeginCall` the object may die between
the transaction and `setAlarm`.

* `Solvent`: credited = committed + outstanding, and outstanding = balances +
  holds.
* `CreditedOnce`: each credited intent has a payment of its own, with its memo,
  confirmed in time.
* `CapsHold`: outstanding credit and each account's deposits per day keep to
  their caps, however many intents passed the advisory check.
* `ChargedOnlyIfPaid`: no charge without an upstream payment; a call id runs
  once.
* `OneLiveSession`: one deposit has one live session, none beyond the renewal
  window.
* `LossIsFlagged`: a call that was paid upstream and released is marked for
  recon. This needs `HealthyCalls`: a request is over before its lease. Without
  it the reaper can release a call before its marker is written, `/dispatch`
  answers ok, and the route pays for an unmarked call.
* `SettledIsFinal`: settled calls and credited intents do not change hands.
* `HoldsEnd` (liveness): while an alarm is scheduled, every hold ends. Checked in
  `MCX402`, for one of two interchangeable calls.

The run checks them as `SpendLimited` (`Solvent`, `CapsHold`), `CreditedOnce`,
`ChargedOnlyIfPaid` and `LedgerSane` (types, `OneLiveSession`, `LossIsFlagged`).

### Stellar channels and asynchronous jobs

`ChannelStore` has the three kinds of records of one channel (the delivery
lock, the watermark, the used challenges) and the operations on them.
`ChannelDelivery` has the channel branch of the proxy and `finishAsyncDelivery`.
A request takes the lock, reads the watermark, has its voucher accepted by mppx
(external: a voucher is good if its challenge is new, it is above the watermark
and the channel is not closing), asks the merchant, and keeps the payment or
rolls it back. When the merchant starts a job, the lock stays with the job's
record, and a finisher (a poll or a cron pass) later claims the job's end and
acts on it. Every store access is a step; a Worker may die between any two. The
two reads at the end of `rollbackFailedChannelVoucher` run side by side and come
in either order. `RollbackThrows` is the proxy's catch of a store error; a
finisher that meets one just ends (`Die`).

`faults` counts what the code's timing rules out but the platform does not: the
lock running out under work that goes on or a job that is open, and a KV write
that reports failure after it took effect. `repeated` says that a finisher took
up the claim of another. `Regular` is the absence of both.

* `WatermarkExact`: while `Regular`, the watermark is the highest voucher that
  was accepted and not rolled back.
* `TruthfulAnswers`: while `Regular`, what was delivered was charged and what
  was reported as not consumed was not.
* `OneEnd`: the end of a job that was claimed first stands.
* `LateReleaseHarmless`: a live lock only goes when its own holder releases it.
* `DeliveredStays`: a delivery stays paid for. It fails even without faults
  (`channel_retry`): a second finisher repeats the rollback of a failed job,
  and the rollback recognises "its" voucher by the amount alone.

### Charges, jobs and the order row (`ChargeDelivery`)

One retried call through the proxy: route and credential, the advisory peek and
the later compare-and-set on the daily cap, verification (which settles the
charge), the idempotency lookup, the merchant by each kind of route, a job that
is stored or refused, the refund that is queued or thrown away half-way, the row
and its late writers, the metric, and the pollers that end a job. Retries share
the idempotency key; a merchant that answers a retry with the same job id stands
for the collision of ids of two merchants as well.

* `ChargeSettled`: a settled charge whose request is over is delivered, queued
  for refund, under review or a job on record; and the row says so.
* `ChargeLimits`: a day's paid calls stay within the cap, and a job that ended
  has its published verdict.

### Session vouchers to Tempo merchants (`TempoSession`)

Two channel slots of one merchant, calls that resolve, pre-check, sign and bump,
the top-up, the migration to a new channel and the watch. A KV read and its put
are two steps. The merchant takes strictly larger vouchers up to the deposit.

* `SessionPays`: the merchant can redeem one quote per signed voucher at most,
  the recorded watermark covers what it holds, and a call that passed the
  pre-flight is not refused for want of deposit, unless others used it up or a
  watermark it relied on was undone.
* `SessionMoves`: a finished migration stands, and the state the watch remembers
  is one it reported.

### Inbound x402 (`X402Settlement`)

Retries of one signed payload: replay guard, verification, merchant, settlement
with up to two envelopes, open marker, final row, result cache, and the resolver
that completes what a dead Worker left. The chain applies, refuses or forgets an
envelope at any time within its validity.

* `PayloadOnce`: a payload buys one merchant call, and a stored result is within
  reach of the retry that needs it.
* `SettlementTold`: the row never says more than the chain, and an envelope that
  may still land is listed in the marker.
* `LandedIsRecorded` (liveness): what landed is recorded.

### Invoices

`InvoiceOrders`: the classic order of a link, its re-order slots and its
contract orders, scanned and created by concurrent requests while customers pay,
orders expire and the upstream switches pay-in details with a lost answer.
`OrdersHanded`: one live classic order, and none is handed out with details that
the switch of the very request that hands it out has retired (of switches by
other requests it says nothing). `OrdersPaidOnce`: nothing is handed out as payable next to an order
that was funded.

`CoinbaseSettlement`: the KV record with its guarded merge, the claim, the exec
gate, the paused index, whose write may fail: then a human is alerted and the
delivery goes on as refused (`RecordPaused`). Deliveries of one event are one holder of the gate to
`releaseCoinbaseExecGate`, and a release may fail unnoticed (`Release`); a coupon
takes claim and gate one after the other. An entry of the index is told from an
earlier one by the number of the refusal (`pauses`), as its event id and time do
in the code. `PaidByOne`: one pay-invoice request, and one more for each time an
administrator cleared the gate; one order told. `RefusedStaysIndexed`: a replay
clears only the entry it drove (a refusal that was not indexed is excepted).

`StripeFulfillment`: a Stripe session, its daily reserve, the signing request
and its ambiguous answer, retries by cron and administrator, the closer that
attributes a pull on chain, and what it remembers of siblings on a pass that
closes nothing. The grace period of an automatic retry runs from the time its
record's handler, or the whole sweep, began, and the sweep's clock is as old; so
the model lets it be over however recent the ambiguous answer is. Nor does the
record the retry reads have to be the generation the reconciler checked. `rushed`
counts the retries, by cron or administrator, of a record that was not `Clear`: a
request could still sign, or had. `StripePermit`: one Permit, and one more at most
for each of those; without the exception it fails, for the cron's retries too
(section 5). `StripeBooks`: paid means pulled, for
this session and not for a sibling of the same amount (but for a sibling's pull
that was `misread`); and the day's ledger counts every Permit.

`UpiFulfillment`: both protocols on one invoice with another channel and an
outside payer. The executor of either may send and answer 4xx nevertheless.
`UpiPaidOnce`, and `UpiReports`: failed means nothing was sent, paid means the
claim is ours, the executor got the frozen fingerprint. Two ways in which the first
protocol presumes that nothing was sent are recorded in `presumed` and excepted
from "failed": a 4xx, and a poll that had read the order queued. Without either of
them the property fails (section 5).

### Prepaid coupons (`PartnerCoupons`)

The partner's record (balance, breadcrumbs, applied keys), the coupon keys and
the idempotency keys are separate compare-and-set records; issuing, repairing,
voiding, redeeming and resolving are sequences over them. `CouponsBacked`: every
spendable coupon has its own debit, every debit its coupon or its breadcrumb.
`CouponsOnce`: retries of a caller key are charged once, a coupon pays once.

### Playground channels (`PlaygroundChannel`)

Calls under a lock that expires, the stored voucher, absorbing and fencing, the
settlement pass with its close, and a funder who closes on chain. `ChannelPays`:
what was reported as charged is redeemable, and the close takes it all.
`ChannelLoss`: while the channel is not fenced what was paid upstream is held
against the deposit, and only lost money is written off.

### Outbound x402 (`X402Payer`) and providers (`ProviderRegistry`)

`X402Payer`: signing for an agent with replay, shadow mode and a switch, top-ups
that bounce, the ops cron and the hourly reconciliation; the ledger is a set of
stored procedures outside the repository, modelled from their callers and from
the tests' stand-in. There are two wallets. Base credentials draw on the Base
funder (`funds`), which checkout shares, and which top-ups reach unless
`X402_TOPUP_RECEIVER` names another address; Solana credentials draw on a wallet of
their own (`solana`). One balance pays for both. `PayerSound`: the Base funder
holds the balances, the live Base credentials and the money of every Solana debit,
each key has one credential, an alert counted as sent was heard. Whether the Solana
wallet can honour its credentials is not a property: the code neither fills nor
checks it, and an unused Solana debit is never returned. `SwitchHolds`: no credential leaves while the switch is not on.

`ProviderRegistry`: registrations with each kind of proof, the id claim, the
paid verification with its claim and uncertain outcome, the monitor, the record
and the spliced index. The receipt of a paid call may name any payment of the
wallet to the provider, an earlier version's included, since that is what
`assertSettledToProvider` accepts; one that names an earlier payment when nothing
was paid now is `recycled`. `VerifiedOnce`: a version is paid for once, and what is
published was paid for, unless its receipt was recycled or its version `reused`;
it fails without either exception (section 5). `CatalogueTrue`: the last accepted registration or
suspension stands, and the index lists what is published.

## 3. Runs

| run | expects | shows |
|---|---|---|
| `atomic_store` | pass | three calls on two keys, two attempts each; every key may be deleted, one is seeded whenever it is absent |
| `refunds` | pass | the signer with one unpark, lagging RPC and pruned history; and signer and script on the same refund, two lease ids |
| `refund_liveness` | pass | RPC history shorter than the run: a submitted refund is left unless its transaction failed or its window is forgotten |
| `refund_unpark` | violation | a fatal rejection of an envelope the network holds, then unpark: paid twice |
| `playground` | pass | two intents, two payments, two claims, two requests with one call id |
| `vouchers` | pass | two requests and two finishers on one channel, closing vouchers, one fault; two calls over two Tempo channels with top-up (the old one serves calls only after it), migration and watch; two playground-channel calls against the cron and the funder |
| `channel_retry` | violation | a repeated rollback takes back a later voucher of the same amount |
| `invoice_settlement` | pass | two orders of one Coinbase link, two handlers, two events, a replay, a cleared gate, one death; a Stripe session with a sibling of the same amount, two handlers, a daily cap of two, one automatic retry or one by hand, one fault |
| `x402` | pass | two retries, two calls of different price, two envelopes each, one fault, with fairness; and the playground reaper with requests that die or outlive the lease |
| `invoices_and_providers` | pass | three requests for a link, two at a time; two registrations, two verifications, the monitor; and (`OneChange`: one registration request, no monitor, suspension, stop or domain token beside it) a second version, with the payment for the first to be named as its receipt |
| `charges_and_coupons` | pass | two retries of a charge, one job, a poll and the cron, every kind of route, cap 1, one fault; two coupon requests, two codes, two operations |
| `payer_and_upi` | pass | two requests to the x402 signer, a Base and a Solana requirement, two wallets, two nonces, one change of the switch; one order of each UPI protocol, two requests, two changes of the invoice, two polls |

Bounds. A lost update needs two writers and a reader, so three calls; two
attempts reach both the retry and the exhausted case. One refund suffices for
the refund properties since records of different payments meet only through
the account's sequence number, which `OtherTraffic` moves at will; the proofs
do without the bound. Two lease ids let a lease be taken over by another executor
while its first holder goes on; time is long enough for a window to open, close and
be forgotten by the RPC (`Retention` + `Validity` < `MaxTime`), in `refund_liveness`
too.
In the playground `MaxTime` covers an intent's life, a lease and a session each
ending inside a run, two days and three hours; `BeginCall` is bounded so that
every lease ends in modelled time.
For channels two requests, two amounts and two finishers give a predecessor to
restore, a voucher to overtake it, and two finishers of one job or of two; one
fault (`MaxFaults`) lets the second request run while the first still does.
In the newer modules two concurrent handlers reach every window between two
steps of one handler, a third request (`MaxRequests`) lets one that ended be
followed by a fresh one, and one fault a run lets one step of several fail. The
link orders were also explored with four requests (4.7 million states) and the
x402 signer with two keys; both hold. `MaxSeq`, `MaxUnparks`, `MaxTime`,
`MaxFaults` and the other constants marked `bound` are the only bounds on
counters. Symmetry is used in safety runs only, and no side that is idle holds a
symmetric value. `CHECK_DEADLOCK FALSE` is set where a finite supply of calls or
time lets the system stop.

Fairness. `refund_liveness`: the cron keeps starting runs and a run ends
(weak fairness of `List`, `EndRun`), every job ends, by its own timeouts if by
nothing else (`JobFails`), ledgers close, and a step of the submitted path that
is possible again and again is taken (strong fairness), i.e. not every run
fails. `x402`: a request that is alive takes its next step or is over (the
waits of the settlement are bounded, 28 s in all), the resolver cron passes over
each open marker and its reads succeed in the end; the exception `unread` stands
for a chain that cannot be read for 24 hours. For the playground, a scheduled
alarm fires, as the platform guarantees with retries, and time passes. Nothing
is assumed of playground requests, which may die at any point.

Mutants. Each property of a passing run has a definition `Faulty...` (or one
with the name of the slip) next to the code it breaks; with it TLC must find the
property violated.

## 4. Proofs

All theorems are proved for arbitrary constants that satisfy the named `ASSUME`s.

`AtomicStoreProofs`. `TypeCorrect` needs no more than that. The invariant `IInv`
says, per call that is not `stale`, that what it read, or what is on its way to it,
is never newer than the row, and equal to it if the versions are equal; a call that
`/seed` left behind is out of this until it reads again or meets a conflict. Deletes
and seeds of any key are covered. From it follow `VersionPinsValueHolds` and
`StoreLinearizable`. In the refinement a call's effect happens when its commit is
accepted, or, for a call that writes nothing, when it returns. `AnswerIsEffectHolds`
needs only the types and `Answered`, which follows one call from its commit to its
return.

`RefundPipelineProofs`. `TypeCorrect` and `ConfirmedIsFinalHolds` hold however
the pipeline is used. `NoDoubleRefund` is far from inductive: a second payment
starts many steps earlier, when an envelope that can still pay is dropped from
its record. The invariant (`RefundInvariant`) is `Shape` (types, what a record
in each state carries) and `Safe`, whose heart is `Bound`: an envelope that was
sent, or that some actor or listing may still send, is expired or is on its
record. Keeping `Bound` needs `Vouched` (a record with the lease an actor knows
has the envelope the actor knows), `Learnt` (what the RPC proved stays true,
lag and pruning included; lemma `DeadIsExpired` is the argument of
`isProvablyDeadEnvelope`) and `ParkedNeverSent`. Under `SafeUse` this gives
`NoDoubleRefundHolds`, `LiveEnvelopeOnRecordHolds`, `ReportedOnlyIfPaidHolds`
and `PipelineKeepsPromise`.

`PlaygroundProofs`. The invariant (`PlaygroundInvariant`) is `TypeOK` with
three parts. `Deposits`: a claim decides from a read that may be old, so
`ClaimsAgree` keeps what cannot change since (a credited intent stays credited,
with its creation time), `Credit` ties a credited intent to its payment and its
session, and `TokenOnRecord` says that a token that is alive is the session on
its intent's record; even the type of a token needs `Credit`. `CallsAgree`: one
request at a time works on a call id, and what it has done upstream follows from
its step. `Healthy`: under `HealthyCalls` the reaper leaves the calls of running
requests alone. This gives `TypeCorrect` (no balance becomes negative),
`CreditedOnceHolds`, `OneLiveSessionHolds`, `ChargedOnlyIfPaidHolds` and
`SettledIsFinalHolds` however slow requests are, and `LossIsFlaggedHolds` and
with it `LedgerSaneHolds` under `HealthyCalls`.

`SpendLimitedHolds` is about sums over accounts, calls and intents, which the
community module computes by recursion over subsets. The section on sums shows
what it computes: induction over a set of subsets (`SubsetInduction`, from the
well-foundedness of strict inclusion) gives that the recursive function exists
(`SumsExist`), that it does not matter in which order elements are taken
(`SumSplits`), and how one changed summand changes a sum (`SumChanges`). The
invariant `Books` adds to `SpendLimited` that the tally of a day is the sum of
the intents credited from payments of that day: the guard of `/open` tests the
tally, the property is about the intents, and they agree only because a claim
that credits has looked its payment up (`ClaimsAgree` rules out the replay, whose
time is the intent's). `PlaygroundConstants` asks for finitely many accounts,
intents and call ids; they are keys of bounded length.

`ChannelProofs`. `TypeOK` and `Busy` (a finisher that acts finds its own end on
record) hold whatever expires or fails and give `TypeCorrect`, `OneEndHolds` and
`LateReleaseHarmlessHolds`. The other two need `Sound`, which holds while the
behaviour is `Regular`. Its heart is `Exclusion` (one process works, under its
own live lock, or one job is open and nobody works) and `Owing`: whoever may
still roll a voucher back has the latest one, and the amount it read earlier is
the best of the others. That is why the restored watermark is right although it
was read many steps before. `Sole` (one finisher acts on a claim) is what a
repeated claim breaks. This gives `WatermarkExactHolds` and
`TruthfulAnswersHolds`.

It also proves about the two other sides of `MCVouchers`. Playground channels
(`PlaygroundChannel`, from `PlayConstants`: finitely many calls, distinct names,
natural amounts): `ReportedIsRedeemable` compares two totals, while each call
gives back what it read under a lock it may have lost. `Counted` bridges that:
pending vouchers are accepted in order and each call read a watermark that counts
those before it (`Ordered`), and some amount `f` is a floor that no rollback still
to come goes below (`Floor`: what is final plus what may become final below `f`
fits below `f`). It is stated twice, for what callers are charged and, while the
channel is not fenced, for what was paid upstream. `Sealed` and `Collected` say
that from the collector's mark on nothing is stored any more, so that its close
takes the amount it read before; `Recorded` follows a close until it is on record,
which decides whether a write-off is a loss. This gives `ChannelPaysHolds` and
`ChannelLossHolds`.

Tempo sessions (`TempoSession`, from `SessionConstants`: the mark of an empty slot
is no channel, deposits are natural): `Bounded` counts signatures, so that no record,
voucher or acceptance exceeds the calls that signed, whatever is written over
whatever; `PaidPerCall` follows from that alone. `Placed` says in which slot each
channel's record is at each step of the migration, `Covered` that some slot has at
least what the merchant holds or is about to be sent, `Roomy` that a call's
pre-flight still holds up to what others used since, `Watched` what was reported
and is not yet remembered. Each of the last four is needed only while its slip did
not happen. The attempt to prove `PreflightHolds` with the exceptions of the
instance failed and showed that they were too few: with more calls a pre-flight may
also be spoilt by a watermark that a racing bump rewound, or by a bump that was
late for the migration. The property now names both. The theorems are
`SessionPaysHolds` and `SessionMovesHolds`.

`InvoiceProofs` begins with the Coinbase link, from `CoinbaseConstants` (the names of holders are distinct).
`OneRequest` counts requests, and no single record says how many are still to
come. `Rights` does: requests made, handlers that have the gate and have not
sent, a free gate, and a coupon that has the gate add up to at most one more than
the clearings. Every step moves a right or destroys one; only `ClearGate` makes
one. This holds although a release by another delivery of the same event may
free a gate that is still in use, since the one who releases gives up its own
right. `OneDelivered` needs `OneSettles`: while no stale write happened, whoever
is about to write a record it read, or to report, has the settling order that is
on record. `RefusedStaysIndexedHolds` needs that the index holds the latest
refusal or nothing (`Indexed`).

Its second part is about Stripe invoices (`StripeFulfillment`, from `StripeConstants`:
finitely many sessions and handlers, a session is settled in one place). `OnePermit`
counts Permits, but a second one is decided long before it is signed. `Rights`
counts, for one session, the Permits, the requests under way at pay-invoice, and one
more while a request could still be made without looking at Stripe again: the record
may be claimed, a claim has not been used, or it is ambiguous with leave to retry. It
holds at most one, and one more for each rushed retry. The retry is the hard case: it
steps the record on what it saw before, and nothing it saw bounds the earlier request
in time. What holds it is the generation: each ambiguous answer begins another
(`Newer`), a step is bound to the one that was inspected (`Seen`), and so one
inspection of a record that was not clear accounts for one right at most, however many
handlers inspect at once. `SpendCounted` is an inequality
between a counter and Permits that may be signed after the counter was raised, or
while it is being lowered. `Units` adds to the Permits the requests under way, the
headroom a handler may give back (`Owed`) and the refunds a retry has yet to make; a
step moves a unit or pays for it, and a rushed retry is one of the payments. `PaidWasPulled` needs that a pull remembered of a
record is its own. The attempt to prove that failed, and showed that the model had
left out what a refused pass of the closer remembers, and that one such memory may be
wrong (`misread`, section 5). The theorems are `StripePermitHolds` and
`StripeBooksHolds`; their lemmas about counting are proved from the library's facts
on finite sets.

`X402Proofs`, from `X402Constants` (`Nobody` is no request and no envelope). The
invariant has two halves. `Guard` is about the replay guard: one request is past
it and the marker stands for that one (`SoleHolder`), and even once the marker
has lapsed nobody new reaches the merchant, because the authorization has run out
before (`SoleBuyer`). These give `PayloadOnceHolds`. The other half follows the
settlement of each request: which of its two envelopes can be where (`InOrder`),
what the open marker lists (`Listed`), and `Truth`, where the case that needs
care is `failed`: it is final only once both envelopes are refused, or the
envelopes' time bound has passed, so that nothing can land afterwards. This gives
`SettlementToldHolds`.

`ChargeProofs`, from `ChargeConstants` (`Nobody` is no request, the cap is a
number). `ChargeAccounted` and `RefundShown` speak of requests that are over; what
makes them true is decided steps earlier and by others. `Req` follows one request
with its row and its refund entry: nothing is charged before `verify`, there is no
entry before the row was tried, an entry names a row only if the request keeps
one, and a request that is over ended for a reason on a list (`Outcome`). `Job`
and `Polling` tie the record under a job id to a request that is over, and the
poll to the request it read from that record; when the record is replaced in
between, the poll queues the refund of the old request, and the slips
`overwritten` and `reused` are what that leaves. A poll that finishes a failed
job has the refund of its request queued, which is what `ChargeAccounted` needs
of a job that ended. `Verdict` gives `VerdictPublished`: the verdict is out, or
the poll that will publish it is still there. `Cap` gives `CapPerDay`: the record
under a key counts the slots of its own day, holds no slot of a later one, and is
never of a day that has not begun, so that starting anew on another day forgets
nothing. The theorems are `ChargeSettledHolds` and `ChargeLimitsHolds`.

Its second part is about coupons (`PartnerCoupons`, from `CouponConstants`: finitely
many requests, at least one, and natural bounds). The partner's record, the
coupons and the keys are changed one at a time, so between two steps a debit has
neither coupon nor refund, and `NoFreeCoupon` alone is far from inductive. `Paired`:
an operation has one code, wherever the pair is written down. `Drawn`: only the
request that drew an operation can still create its coupon. `Dead`: an operation
whose code is a tombstone, or taken by another one, has no coupon and will get none;
a request that is about to credit relies on it (`Fits`). `Backed`: a credit is
remembered by the key that made it, which is why no repair credits again, and a
debit that was not credited has its coupon or its breadcrumb. `Kept` counts, besides
the payments made, the requests about to make one: a void is authorised by the
state of the coupon, and what it must exclude is a request that has left that
state and not yet paid. `Charged` ties the one live operation of a caller key to the
key being remembered. The theorems are `CouponsBackedHolds` and `CouponsOnceHolds`.

`PayerProofs`, from `PayerConstants` (finitely many keys and top-ups, networks
and amounts of the right kind, `Nobody` is no requirement). `Backed` counts a Base
credential until it is used, and a Solana debit for good, since its money stays in the
Base funder. It is not inductive: a deposit that
reached the funder and is credited later would raise the balance without raising
the funds, so `Cover` counts it from the moment it arrives. Giving a credential
back is safe only if it can never be executed: `Rows` says that a row that was
checked or expired is `Unusable`, its nonce final and unused, and `Read` that what
the cron saw stays true until it reports. `Handed` ties a credential that left to
the row of its key, which gives `OneCredential` however retries race, and
`Asked` that a request that signs was let through by the switch. The theorems are
`PayerSoundHolds` and `SwitchHoldsAlways`.

Its second part is about UPI orders (`UpiFulfillment`, from `UpiConstants`: the two
protocols have different orders, and no order or fingerprint is one of the names
used as marks). That money leaves once follows from: whoever spent has the claim.
That this stays so depends on when a claim is given back, and on who still runs. A
record says what became of the claim and of the money (`Row1`, `Row2`), a request
what it relies on at its step (`Req1`, `Req2`, `Seen`; a request that goes to record a
refusal has not spent, or is `presumed` not to have), one request at a time executes
an order (`OneRuns`), and what a poll read is still true when it is applied
(`Polled`): the claim was the order's, and the provider's verdict does not change.
`Frozen` gives the fingerprint. The theorems are `UpiPaidOnceHolds` and
`UpiReportsHolds`.

Its third part is about the orders of a link (`InvoiceOrders`, from `OrderConstants`:
slots have distinct names). `OneLiveClassic` cannot be kept by looking at rows alone:
a request decides on a slot from copies, and creates later. `Lined` says that a
classic order exists only behind orders that are over (`Behind`), and since an order
that is over stays so, `Viewed` and `Placed` carry this from the scan to the
creation, however many requests scan at once: two of them aim at the same slot, and
upstream gives it once. `Funded` is about `NotPaidTwice`: orders found funded just
before a request creates are among those it reads again afterwards, and `Current`
about `HandedIsCurrent`. The theorems are `OrdersHandedHolds` and
`OrdersPaidOnceHolds`.

Its fourth part is about the provider registry (`ProviderRegistry`, from
`RegistryConstants`: what is published at first is a registration or nothing). A
worker acts on a copy of the record that others may overwrite. `Copy` says what the
copy is worth while nobody has (`seen`), which is what `LastWordStands` needs of the
put that follows the last look. `Alone` and `Booked` give one payment: one worker is
at the paid call of a version, it runs under the version's claim, and a version
without a claim was never paid for. `Vouched` ties what a worker is about to publish to a paid
call that was served, or to a slip that is on record, and `Listed` finds, whenever index and record differ, the
writer that is about to put this right. The theorems are `VerifiedOnceHolds` and
`CatalogueTrueHolds`.

The properties of `TypeCorrect`, `ReportedOnlyIfPaidHolds`,
`SettledIsFinalHolds` and `LateReleaseHarmlessHolds` are proved and in no run.

`ScriptSafe` is `NoDoubleRefund`, `ReportedOnlyIfPaid` and `LiveEnvelopeOnRecord`
of the instance with a script. The theorems of `RefundPipelineProofs` are about
any set of executors and cover that instance, which has nobody who unparks and
prompt stores (`SafeUse`).

Only model-checked: the liveness properties, since fairness is beyond the prover.
Every other property of a passing run is a theorem, `ScriptSafe` in the way just
said.

## 5. Disagreements

Where a comment or a document says more than the code does. The first two are
runs; the others were found with TLC by dropping the exception or the condition
named here, and are kept as exceptions of a property.

* `refund_unpark`, `channel_retry`: see `findings` in `PROJECT.json`, which quote
  the line and what the code does.
* Atomic store (`stale`). `/seed` writes version 1 whatever version the absent key
  had (`atomic-store-do.ts:297`), while `/commit` keeps and bumps the version of a
  deleted key. A call that read the key at version 1, before a delete, finds version
  1 again after the seed, and its commit overwrites a value it never saw. The keys
  are the same: `/admin/seed-atomic-store` is for the cumulative watermarks
  (`admin-seed-store.ts:20`) and `rollbackFailedChannelVoucher` deletes those
  (`stellar-channel-dispatch.ts:195`). The file is headed "Durable Object providing
  linearizable CAS" (`atomic-store-do.ts:2`).
* Refunds (`Forgotten`). An envelope that expired and whose window the RPC no longer
  keeps is refused for replacement and as dead envelope, and sending it again
  answers txTooLate, which counts as retryable (`refund-signer-core.ts:321`): the
  refund stays submitted and every run does the same again. "Anything less
  (unexpired, or possibly pruned history) is refused and stays for manual review"
  (`routes/refunds.ts:275-276`); nothing puts it there.
* Stripe (`rushed`). The grace period of an automatic retry is counted from the `at`
  of the ambiguous event, which is when its handler (`stripe-fulfillment.ts:555`) or
  its whole sweep (line 1327) began, and may be over when the answer arrives; and the
  state the reconciler checked may be of an earlier attempt. Two Permits for one
  session without an administrator (`StripePermit` with `MaxAdminRetries = 0` and
  without `rushed`). "the router may retry on its own when it can prove nothing was
  signed", with "a grace period after the ambiguous answer" (lines 1158-1162).
* Provider registry (`recycled`). The receipt may be any successful transfer from the
  verification wallet to the provider; amount, time and version are not compared. A
  provider that serves a new version without taking payment and names the payment
  for the old one is published. "a hash the provider picked from its own history
  (any old transfer to itself) must not certify OUR payment"
  (`provider-verification.ts:454-455`).
* UPI, first protocol (`presumed`). Every 4xx of pay-invoice becomes `failed`
  (`upi-invoice.ts:941`), on which the capture is refunded: "`failed`: definite
  executor refusal" (`docs/operations/upi-invoice-payment.md:52`). The second
  protocol says of the same endpoint "Any other post-call answer (4xx/5xx/unknown
  JSON) cannot rule out a spend" (line 1681). And a poll decides on the record it
  read before it asked the provider: if the order executes and pays in between, the
  poll takes its own payment for another party's and fails the order, so that the
  customer is refunded and the merchant paid. "`queued` means the record exists but
  execution never started (the executor was not called), so a provider success here
  is someone else's payment and can never be attributed to this order" (lines
  1053-1055).
* Refunds. `completeRefund` answers a `submitted` update with the record when it
  is already confirmed, before it compares the lease (`refund.ts:191`): an
  executor whose lease was taken over broadcasts an envelope that is on no
  record (`LiveEnvelopeOnRecord` without `PromptStore`, signer and script). The
  docs say the signer "persists the transaction envelope and hash before
  broadcast". A refund whose transaction was included and failed stays
  `submitted`, although `refund.ts` (lines 236-237) calls `manual_review` the one
  state that is never left. An amount at or above the maximum is not parked, as
  the docs say, but left pending with an alert. Alerts are keyed by refund and
  inserted once, so a refund that is parked again raises none (`refund-signer.ts:69`).
* Playground. Claiming an expired intent again gives back a second slot
  (`ledger-do.ts:506`), so the "Hard ceiling on stored intents per account" is
  passed; an intent that is never paid keeps its slot for ever;
  `docs/playground.md` (lines 130-136) says the reaper commits stranded calls
  that were dispatched, `alarm()` releases all of them.
* Stellar channels. `stellar-channel-dispatch.ts` (lines 219-221) says that steps
  that move money re-validate the lock; the proxy and the finishers never do. A
  job keeps the lock of its request, but may outlive it (`proxy.ts:3010`); then
  only the amounts decide (`Regular`).
* Charges. The comment at `proxy.ts:1598` says an over-cap request "is never
  charged"; the charge settles at verification, before the slot is taken, and is
  refunded. `order-ledger.ts:229` sees "no concurrent-update hazard", but the
  proxy's `unknown` (`proxy.ts:2963`) may overwrite `refunded` (`clobbered`).
  Rows are not "Recorded for EVERY settled call": jobs and cached answers write
  none. A store that throws after settlement leaves neither refund nor row
  (`threw`); a job of a credential without an account is refused and not
  refunded (`unbound`); a job record can be replaced (`overwritten`, `reused`). A
  5xx on a job poll refunds a job that may still deliver. Calls over midnight
  count under the day they started, so up to twice the cap falls on one day.
* x402 settlement. `checkAndReserveNonce` bounds the loss of its race to "one
  wasted XLM tx fee", but both requests pay the merchant first (`raced`). The
  24-hour result cache is reachable only while the one-hour marker stands
  (`lapsed`). The header's "the resolver below moves it on" fails if the Worker
  dies before the marker, or both marker writes fail; and a second hash missing
  from the marker makes the resolver record `failed` for a payment that landed
  (`unmarked`).
* Tempo. "we never rewind" (`channel-store.ts:240`) and "safe even if two
  in-flight requests race" (`tempo-client.ts`): three racing bumps, or a top-up
  and one, write an older watermark back (`rewound`). A migration relies on an
  idle route (`late`). A delivered recovery alert whose state is not stored makes
  the next low channel silent (`uncommitted`).
* Coinbase. A stale save of the record can lose which order settled the link, and
  a second one is told (`stale`); the comment says the guarded save "narrows
  races but cannot close them".
* Invoice orders. "Never two live orders per link" does not hold for contract
  orders when a quote lapses between scan and create; a superseded classic whose
  status cannot be read is handed out while replaced rows fail closed.
* Stripe. A throw between the release of the daily reserve and the record makes
  the release happen twice (`slips`); an administrator's retry skips the grace
  time and may get a second Permit as well (`rushed`); "Terminal states rank highest so
  nothing overwrites them", but `finalizeClaim` overwrites `manual_review`. The
  comment of `siblingsAccountedFor` (lines 1749-1755) has a sibling's late pull
  "never taken for this invoice's". But the pull found in a sibling's window is
  remembered as the sibling's without proof that it is (line 1795): if it was a
  third session's, the sibling's own late pull then looks like nobody's, and
  closes another invoice (`misread`).
* UPI. A refused retry does not return the claim an earlier queued request took
  (`upi-invoice.ts:1531`), although the comment above says it goes back.
* Coupons. A caller key is released on a record read before its sibling's debit
  (`loose`), against "a lost HTTP response must not become a double debit";
  a repair may drop the intent of a refund that a void is working on (`dropped`).
* Playground channels. "On every path the user's charged_usd equals what the
  collector can redeem" holds in the collector's direction only; an unreadable
  close state fences the channel for good, where the comment says it refuses the
  call; a close that was not recorded is written off although collected
  (`unmarked`); a registration that stopped between its two writes is answered as
  a replay and never becomes usable (`playground-channel.ts:313`).
* Providers. A record read a last time is then put whole, so monitor and
  verification can undo a registration or a suspension (`raced`), against
  "is never replaced with the old published row" (`provider-monitor.ts:37`);
  `registrationDigest` leaves the origin of a hosted provider out, so an earlier
  paid call publishes a new origin (`reused`); the index can be spliced from an
  older copy (`spliced`); an id is claimed before the last checks of a
  registration and stays burnt when they fail.
* x402 payer. A pass takes its slot before it works, so a pass that fails is
  skipped until the next slot; a failed report after a delivered alert alerts
  again; Solana debits are never checked or refunded by the ops cron, and Solana
  credentials are signed without a look at the wallet they draw on.

## 6. Not modelled

* Atomic store: `/gate`, and `/scan` other than as the listing of refunds.
* Refunds: the requeue of legacy malformed envelopes, the alert outbox, fees,
  amounts and the policy thresholds (a job that is held is `Skip`), receipts; an
  admin request that arrives after its sender died.
* Playground ledger: the call history, read-only reports, Turnstile, token
  format, several matching operations in one transaction, and amounts other than
  the quoted one.
* Stellar channels: finding a channel, several channels (their records never
  meet), several idempotency keys, the amount a closing voucher refunds, the
  ownership challenge of a poll. The cache write after a delivery is part of
  `Delivered`.
* Charges: the lifetime of the job record (24 h), the contents of challenges and
  quotes, statistics. x402: the 48 h lifetime of the marker, the 20-row batch;
  expiry of an authorization and of its marker are one step; hosted and pooled
  calls look alike. Tempo: KV that is stale across locations beyond a read
  followed by a write.
* Coinbase: test invoices, alerts, the status endpoint, the daily ledger (it is
  in `StripeFulfillment`). Stripe: tickets, session index, the paused backlog (it
  is in `CoinbaseSettlement`). UPI: the Stripe reservation of its executor,
  quotes, approval contents. Orders: validation, quotes, rate limits, refund
  addresses, Bitrefill and test invoices; parallel reads of a scan phase are one
  step.
* Coupons: eviction of applied keys (200), ledger bodies and indexes,
  authentication, API keys, rate limits, circuit breaker, Turnstile.
* Playground channels: configuration drift, register limits, recon counters; the
  one store write right after a lock renewal is taken to happen within the lock.
* x402 payer: key creation and balance routes, limits per IP. The ledger RPCs are
  external. Providers: budget of verifications, throttling, validation, listing
  submission, dashboard, sponsor. It is assumed that two writes of a record have
  different times, that an attempt is over after five minutes and that its
  payment cannot land half an hour later.
* Pages, catalogue, OpenAPI, statistics: no protocol state. Scripts other than
  the refund executor and the Tempo channel tools are one-off operator tools.

## 7. Plan

1. A second Stripe session in the run: `misread` needs three sessions of one
   amount, of which two must be settled here.
2. An abstract promise for the proxy (paid, then delivered or owed) that both
   `ChargeDelivery` and `ChannelDelivery` implement.
