--------------------------- MODULE ChargeDelivery ---------------------------
(***************************************************************************)
(* The stellar.charge branch of the payment proxy: what stands before a    *)
(* charge (route, daily cap, live quote), the charge itself, which mppx    *)
(* settles before the merchant is called, and every way the call can end   *)
(* after that: stored answer, refund, manual review, job, delivery.  The   *)
(* refund executor (RefundPipeline), the payer's polls and the cron that   *)
(* ends jobs run beside it.                                                *)
(*                                                                         *)
(* The requests are one payer's retries of one call: they share the route  *)
(* and the idempotency key, and each carries a charge of its own.          *)
(***************************************************************************)
EXTENDS Naturals, FiniteSets

CONSTANTS Requests,    \* the retries
          Jobs,        \* job ids merchants hand out
          Pollers,     \* who polls jobs: the payer and the cron
          Payer,       \* the poller that is the payer
          Routes,      \* kinds of route to explore, see Route
          PerDay,      \* daily cap of a "held" route
          MaxFaults,   \* bound: failed writes and stopped Workers in one behaviour
          Nobody

ASSUME ChargeConstants == Nobody \notin Requests /\ PerDay \in Nat

Days == 1..2           \* the day the requests start on and the next
Idle == [pc |-> "idle", day |-> 1, order |-> FALSE, job |-> Nobody, todo |-> {}]
Rest == [pc |-> "idle", job |-> Nobody, owner |-> Nobody, out |-> "none"]
Open == [out |-> "none", state |-> "none"]

VARIABLES route,     \* the kind of route all requests name
          proc,      \* proc[r]: next step, day of its cap key, order row kept, job, background work
          answer,    \* answer[r]: what the payer was told
          today,     \* UTC day
          counter,   \* counter[d]: the cap's record under the key of day d
          calls,     \* <<request, its day, day of the slot>> of the slots consumed
          charged,   \* requests whose charge settled
          cache,     \* the answer stored under the idempotency key
          row,       \* row[r]: refund_status of r's ledger row
          refund,    \* refund[r]: refund queue entry and whether it names the row
          jobs,      \* jobs[j]: request whose jobAuth record is stored
          terminal,  \* terminal[j]: async-terminal record
          metric,    \* metric[j]: route_metric_calls row of the job
          poll,      \* poll[p]: a poll of a job
          slips,     \* events the properties except
          faults     \* failures so far

jobVars == <<jobs, terminal, metric, poll>>
capVars == <<counter, calls>>
vars == <<route, proc, answer, today, capVars, charged, cache, row, refund, jobVars, slips, faults>>

Init == /\ route \in Routes
        /\ proc = [r \in Requests |-> Idle] /\ answer = [r \in Requests |-> "none"]
        /\ today = 1 /\ counter = [d \in Days |-> [day |-> 1, n |-> 0]] /\ calls = {}
        /\ charged = {} /\ cache = FALSE
        /\ row = [r \in Requests |-> "none"]
        /\ refund = [r \in Requests |-> [state |-> "none", order |-> FALSE]]
        /\ jobs = [j \in Jobs |-> Nobody] /\ terminal = [j \in Jobs |-> Open]
        /\ metric = [j \in Jobs |-> "none"] /\ poll = [p \in Pollers |-> Rest]
        /\ slips = {} /\ faults = 0

At(r, p)    == proc[r].pc = p
Goto(r, p)  == proc' = [proc EXCEPT ![r].pc = p]
Say(r, a)   == answer' = [answer EXCEPT ![r] = a]
End(r, a)   == Goto(r, "done") /\ Say(r, a)
Slip(S)     == slips' = slips \cup S
Fault(b)    == (b => faults < MaxFaults) /\ faults' = IF b THEN faults + 1 ELSE faults
Slipped(r, K) == \E k \in K : <<k, r>> \in slips

\* What the kinds stand for: "relay" a provider's own 402, "hosted" x402 only,
\* "closed" a route known broken whose launch gate is shut; the others charge:
\* "held" a fixed price with a router-held credential and a daily cap, "bridge"
\* the pay-invoice bridge, "tempo" a merchant paid on Tempo.
Chargeable == {"held", "bridge", "tempo"}

\* What no charge depends on.
rest == <<today, capVars, cache, row, refund, jobVars>>

\* resolveRoute; an unknown path or method, a closed route.
Route(r) ==
    /\ At(r, "idle")
    /\ \/ route # "closed" /\ Goto(r, IF route = "relay" THEN "relay" ELSE "classify") /\ UNCHANGED answer
       \/ End(r, "refused")
    /\ UNCHANGED <<route, rest, charged, slips, faults>>

\* The provider's own answer, never the router's challenge.
Relay(r) ==
    /\ At(r, "relay")
    /\ End(r, "refused")
    /\ UNCHANGED <<route, rest, charged, slips, faults>>

\* Upstream path, then the credential: a hosted route takes x402 only, a
\* credential that is not Stellar's is passed through.
Classify(r) ==
    /\ At(r, "classify")
    /\ \/ route \in Chargeable /\ Goto(r, "peek") /\ UNCHANGED answer
       \/ End(r, "refused")
    /\ UNCHANGED <<route, rest, charged, slips, faults>>

\* The cap's key is made of the day the request starts on; the count in it is
\* for the day the record says.
Used(d) == IF counter[d].day = today THEN counter[d].n ELSE 0

\* peekDailyLimit: reads only.
Peek(r) ==
    /\ At(r, "peek")
    /\ IF route = "held" /\ Used(today) >= PerDay
       THEN End(r, "refused")
       ELSE /\ proc' = [proc EXCEPT ![r].day = today, ![r].pc = "quote"]
            /\ UNCHANGED answer
    /\ UNCHANGED <<route, today, capVars, charged, cache, row, refund, jobVars, slips, faults>>

\* A fixed price needs no probe.  Otherwise the merchant may be free, its 402
\* unreadable, the invoice quote missing or checkout paused.
Quote(r) ==
    /\ At(r, "quote")
    /\ \/ Goto(r, IF route = "held" THEN "prepare" ELSE "preflight") /\ UNCHANGED answer
       \/ route # "held" /\ End(r, "refused")
    /\ UNCHANGED <<route, rest, charged, slips, faults>>

\* The session challenge and channel headroom, or the Tempo pool's balance:
\* what could not be delivered is refused while nothing is charged.
Preflight(r) ==
    /\ At(r, "preflight")
    /\ \/ Goto(r, "prepare") /\ UNCHANGED answer
       \/ End(r, "refused")
    /\ UNCHANGED <<route, rest, charged, slips, faults>>

\* Recipient, payment handler, and the amount at Stellar's precision.
Prepare(r) ==
    /\ At(r, "prepare")
    /\ \/ Goto(r, "verify") /\ UNCHANGED answer
       \/ End(r, "refused")
    /\ UNCHANGED <<route, rest, charged, slips, faults>>

\* mppx stellar/charge: no or a bad credential (402), or the charge settles.
\* An error after settlement answers 402 as well.
Verify(r) ==
    /\ At(r, "verify")
    /\ \/ End(r, "refused") /\ UNCHANGED <<charged, slips, faults>>
       \/ charged' = charged \cup {r} /\ Goto(r, "proof") /\ UNCHANGED <<answer, slips, faults>>
       \/ charged' = charged \cup {r} /\ End(r, "threw") /\ Slip({<<"threw", r>>}) /\ Fault(TRUE)
    /\ UNCHANGED <<route, rest>>

\* The proof of payment: the observer's, else rebuilt from the receipt.
Proof(r) ==
    /\ At(r, "proof")
    /\ \/ Goto(r, "lookup") /\ UNCHANGED <<answer, faults>>
       \/ End(r, "review") /\ Fault(TRUE)
    /\ UNCHANGED <<route, today, capVars, charged, cache, row, refund, jobVars, slips>>

\* An answer stored under the key is the answer; a KV error escapes the handler.
Lookup(r) ==
    /\ At(r, "lookup")
    /\ \/ cache /\ End(r, "cached") /\ UNCHANGED <<slips, faults>>
       \/ ~cache /\ Goto(r, "consume") /\ UNCHANGED <<answer, slips, faults>>
       \/ End(r, "threw") /\ Slip({<<"threw", r>>}) /\ Fault(TRUE)
    /\ UNCHANGED <<route, today, capVars, charged, cache, row, refund, jobVars>>

\* Faulty: the slot is consumed without looking at the count again.
FaultyBump(r) ==
    /\ counter' = [counter EXCEPT ![proc[r].day] = [day |-> today, n |-> Used(proc[r].day) + 1]]
    /\ calls' = calls \cup {<<r, proc[r].day, today>>}

\* checkAndBumpDailyLimit's commit.
Bump(r) ==
    /\ Used(proc[r].day) < PerDay
    /\ counter' = [counter EXCEPT ![proc[r].day] = [day |-> today, n |-> Used(proc[r].day) + 1]]
    /\ calls' = calls \cup {<<r, proc[r].day, today>>}

\* consumeRateLimitSlotOrReject, after the charge: a full day is a refund; an
\* object that cannot be reached, or retries used up, escapes the handler.
Consume(r) ==
    /\ At(r, "consume")
    /\ \/ route # "held" /\ Goto(r, "pay") /\ UNCHANGED <<capVars, answer, slips, faults>>
       \/ route = "held" /\ Bump(r) /\ Goto(r, "pay") /\ UNCHANGED <<answer, slips, faults>>
       \/ /\ route = "held" /\ Used(proc[r].day) >= PerDay
          /\ Goto(r, "fail") /\ UNCHANGED <<capVars, answer, slips, faults>>
       \/ /\ route = "held"
          /\ End(r, "threw") /\ Slip({<<"threw", r>>}) /\ Fault(TRUE) /\ UNCHANGED capVars
    /\ UNCHANGED <<route, today, charged, cache, row, refund, jobVars>>

\* Where an answer to the paid call leads: delivered, a job accepted with or
\* without an id (isAsyncJobResponse), or an error.
Accepted(r) ==
    \/ Goto(r, "deliver")
    \/ Goto(r, "nojob")
    \/ \E j \in Jobs : proc' = [proc EXCEPT ![r].pc = "job", ![r].job = j, ![r].todo = {"metric"}]

\* The upstream called with the router's credential: transport, status.
PayHeld(r)   == route = "held" /\ (Accepted(r) \/ Goto(r, "fail"))

\* The invoice service called with the admin secret, unless checkout is paused.
PayBridge(r) == route = "bridge" /\ (Accepted(r) \/ Goto(r, "fail"))

\* A merchant's 402: is its payment-required header present, too long, are there
\* EVM offers (well formed or not) and others in it, is there a Tempo challenge.
Answers == [header : {"none", "long", "short"}, evm : {"none", "good", "bad"},
            other : BOOLEAN, tempo : BOOLEAN]

\* mppx parses a header of well-formed EVM offers only; one that it cannot parse
\* hides the Tempo challenge too.
Parses(x) == x.header = "none" \/ (x.header = "short" /\ x.evm # "bad" /\ ~x.other)

\* sanitize402Response: a long header is stripped unread; one that does not
\* parse loses the other networks' offers if EVM ones remain; if that does not
\* help it is stripped, or left for mppx's own error without a Tempo challenge.
Sanitize(x) ==
    LET bare == [x EXCEPT !.header = "none"]
        kept == [x EXCEPT !.other = FALSE]
    IN  CASE x.header = "none" -> x
          [] x.header = "long" -> bare
          [] Parses(x) -> x
          [] x.evm # "none" /\ x.other /\ Parses(kept) -> kept
          [] x.tempo -> bare
          [] OTHER -> x

\* payMerchant: the client signs for a Tempo challenge it can see.
PayCharge(r) == \E x \in Answers : \/ Parses(Sanitize(x)) /\ x.tempo /\ Accepted(r)
                                  \/ Goto(r, "fail")

\* payMerchantSession and the errors around it: no channel, no deposit left,
\* another token, transport, status, empty body.  TempoSession has the vouchers.
PaySession(r) == Accepted(r) \/ Goto(r, "fail")

\* The merchant paid on Tempo, by charge or by session voucher.
PayTempo(r)  == route = "tempo" /\ (PayCharge(r) \/ PaySession(r))

\* payMerchantAndGetBody; what it throws is an error too.  The metric row of
\* the call is written in the background; only a job's is looked up again.
Pay(r) ==
    /\ At(r, "pay")
    /\ PayHeld(r) \/ PayBridge(r) \/ PayTempo(r)
    /\ UNCHANGED <<route, answer, rest, charged, slips, faults>>

\* recordRouteCall: INSERT ... ON CONFLICT DO NOTHING; classifyOutcome says
\* pending for an accepted job.
Metric(r) ==
    /\ "metric" \in proc[r].todo
    /\ LET j == proc[r].job IN
       /\ metric' = [metric EXCEPT ![j] = IF @ = "none" THEN "pending" ELSE @]
       /\ Slip(IF terminal[j].state = "done" THEN {<<"late", j>>} ELSE {})
    /\ proc' = [proc EXCEPT ![r].todo = {}]
    /\ UNCHANGED <<route, answer, today, capVars, charged, cache, row, refund, jobs, terminal, poll, faults>>

\* The row of a failed call is written and awaited before its refund is queued.
\* recordOrder answers FALSE also when the row is stored and its index is not.
RecordFailed(r) ==
    /\ At(r, "fail")
    /\ \/ /\ row' = [row EXCEPT ![r] = "pending"]
          /\ proc' = [proc EXCEPT ![r].order = TRUE, ![r].pc = "enqueue"]
          /\ UNCHANGED <<slips, faults>>
       \/ Goto(r, "enqueue") /\ Fault(TRUE) /\ UNCHANGED <<row, slips>>
       \/ /\ row' = [row EXCEPT ![r] = "pending"]
          /\ Goto(r, "enqueue") /\ Fault(TRUE) /\ Slip({<<"unindexed", r>>})
    /\ UNCHANGED <<route, answer, today, capVars, charged, cache, refund, jobVars>>

\* enqueueRefund is idempotent on the payment; the first entry keeps its order.
Queued(r, order) ==
    IF refund[r].state = "none" THEN [refund EXCEPT ![r] = [state |-> "queued", order |-> order]]
    ELSE refund

\* Faulty: the entry does not name the row.
FaultyEnqueue(r) ==
    /\ At(r, "enqueue")
    /\ refund' = Queued(r, FALSE) /\ End(r, "refund")
    /\ UNCHANGED <<route, today, capVars, charged, cache, row, jobVars, slips, faults>>

\* enqueueRefund: stored; or it throws, stored or not.  An outage that already
\* cost the request a write is counted once.
Enqueue(r) ==
    /\ At(r, "enqueue")
    /\ \/ refund' = Queued(r, proc[r].order) /\ End(r, "refund") /\ UNCHANGED faults
       \/ refund' \in {refund, Queued(r, proc[r].order)} /\ Goto(r, "unknown") /\ Fault(proc[r].order)
          /\ UNCHANGED answer
    /\ UNCHANGED <<route, today, capVars, charged, cache, row, jobVars, slips>>

\* updateOrderRefundStatus(..., 'unknown'): whatever the row says by now.
MarkUnknown(r) ==
    /\ At(r, "unknown")
    /\ End(r, "review")
    /\ \/ proc[r].order /\ row' = [row EXCEPT ![r] = "unknown"]
          /\ Slip(IF row[r] = "refunded" THEN {<<"clobbered", r>>} ELSE {}) /\ UNCHANGED faults
       \/ proc[r].order /\ Slip({<<"unmarked", r>>}) /\ UNCHANGED <<row, faults>>
       \/ ~proc[r].order /\ UNCHANGED <<row, slips, faults>>
    /\ UNCHANGED <<route, today, capVars, charged, cache, refund, jobVars>>

\* handleAsyncJob without a job id, or whose record could not be stored: a
\* refund that names no row, or manual review.
AsyncRefund(r) ==
    /\ At(r, "nojob")
    /\ \/ refund' = Queued(r, FALSE) /\ End(r, "refund") /\ UNCHANGED faults
       \/ refund' \in {refund, Queued(r, FALSE)} /\ End(r, "review") /\ Fault(TRUE)
    /\ UNCHANGED <<route, today, capVars, charged, cache, row, jobVars, slips>>

\* handleAsyncJob with an id: a credential without an account is refused, or
\* the record is put under the job id alone.
StoreJob(r) ==
    /\ At(r, "job")
    /\ LET j == proc[r].job IN
       \/ /\ jobs' = [jobs EXCEPT ![j] = r]
          /\ Slip(IF jobs[j] # Nobody THEN {<<"overwritten", jobs[j]>>, <<"reused", r>>} ELSE {})
          /\ End(r, "accepted")
          /\ UNCHANGED faults
       \/ /\ End(r, "unbound")
          /\ Slip({<<"unbound", r>>})
          /\ UNCHANGED <<jobs, faults>>
       \/ Goto(r, "nojob") /\ Fault(TRUE) /\ UNCHANGED <<jobs, answer, slips>>
    /\ UNCHANGED <<route, today, capVars, charged, cache, row, refund, terminal, metric, poll>>

\* The body is returned; storing it and the ledger row follow in the background.
Deliver(r) ==
    /\ At(r, "deliver")
    /\ Say(r, "delivered")
    /\ proc' = [proc EXCEPT ![r].pc = "done", ![r].todo = {"cache", "row"}]
    /\ UNCHANGED <<route, today, capVars, charged, cache, row, refund, jobVars, slips, faults>>

Background(r, what) ==
    /\ what \in proc[r].todo
    /\ proc' = [proc EXCEPT ![r].todo = @ \ {what}]
    /\ UNCHANGED <<route, answer, today, capVars, charged, refund, jobVars, slips>>

StoreAnswer(r) ==
    /\ Background(r, "cache") /\ UNCHANGED row
    /\ \/ cache' = TRUE /\ UNCHANGED faults
       \/ Fault(TRUE) /\ UNCHANGED cache

RecordDelivered(r) ==
    /\ Background(r, "row") /\ UNCHANGED cache
    /\ \/ row' = [row EXCEPT ![r] = "delivered"] /\ UNCHANGED faults
       \/ Fault(TRUE) /\ UNCHANGED row

\* The Worker stops: its next steps and its background work are not done.
Die(r) ==
    /\ proc[r].pc \notin {"idle", "done"} \/ proc[r].todo # {}
    /\ Fault(TRUE)
    /\ Slip({<<"died", r>>} \cup IF "metric" \in proc[r].todo THEN {<<"late", proc[r].job>>} ELSE {})
    /\ proc' = [proc EXCEPT ![r].pc = "done", ![r].todo = {}]
    /\ UNCHANGED <<route, answer, today, capVars, charged, cache, row, refund, jobVars>>

\* The refund executor returns the money, then moves the row the entry names.
ExecutorPays(r) ==
    /\ refund[r].state = "queued"
    /\ refund' = [refund EXCEPT ![r].state = "paid"]
    /\ UNCHANGED <<route, proc, answer, today, capVars, charged, cache, row, jobVars, slips, faults>>

\* updateOrderRefundStatus(..., 'refunded'), best effort.
ExecutorMarks(r) ==
    /\ refund[r].state = "paid"
    /\ refund' = [refund EXCEPT ![r].state = "marked"]
    /\ \/ row' = [row EXCEPT ![r] = IF refund[r].order THEN "refunded" ELSE @] /\ UNCHANGED <<slips, faults>>
       \/ refund[r].order /\ Fault(TRUE) /\ Slip({<<"unmarked", r>>}) /\ UNCHANGED row
    /\ UNCHANGED <<route, proc, answer, today, capVars, charged, cache, jobVars>>

\* A poll reads the record and then the merchant's status of the job.
PollAs(p, j) ==
    /\ poll[p].pc = "idle" /\ jobs[j] # Nobody
    /\ \E out \in {"failed", "delivered"} : poll' = [poll EXCEPT
          ![p] = [pc |-> "claim", job |-> j, owner |-> jobs[j], out |-> out]]
    /\ UNCHANGED <<route, proc, answer, today, capVars, charged, cache, row, refund, jobs, terminal, metric, slips, faults>>

\* The payer's poll, after its ownership challenge.
PayerPolls(p, j) == p = Payer /\ PollAs(p, j)

\* The cron's; after 23 hours it takes the job as failed.
CronPolls(p, j)  == p # Payer /\ PollAs(p, j)

\* finishAsyncDelivery claims the outcome: the other outcome is a conflict, a
\* finished one is done (the payer's poll then asks for its refund entry
\* again), an unfinished one is taken up.
Claim(p) ==
    LET j == poll[p].job  t == terminal[j]  out == poll[p].out IN
    /\ poll[p].pc = "claim"
    /\ \/ /\ t.out \in {"none", out} /\ t.state # "done"
          /\ terminal' = [terminal EXCEPT ![j] = [out |-> out, state |-> "processing"]]
          /\ poll' = [poll EXCEPT ![p].pc = IF out = "failed" THEN "refund" ELSE "finish"]
          /\ UNCHANGED refund
       \/ /\ t.out \notin {"none", out} \/ t.state = "done"
          /\ poll' = [poll EXCEPT ![p] = Rest]
          /\ refund' = IF p = Payer /\ t.out = "failed" /\ out = "failed"
                       THEN Queued(poll[p].owner, FALSE) ELSE refund
          /\ UNCHANGED terminal
    /\ UNCHANGED <<route, proc, answer, today, capVars, charged, cache, row, jobs, metric, slips, faults>>

FinishRefund(p) ==
    /\ poll[p].pc = "refund"
    /\ \/ refund' = Queued(poll[p].owner, FALSE)
          /\ poll' = [poll EXCEPT ![p].pc = "finish"] /\ UNCHANGED faults
       \/ refund' \in {refund, Queued(poll[p].owner, FALSE)}
          /\ poll' = [poll EXCEPT ![p] = Rest] /\ Fault(TRUE)
    /\ UNCHANGED <<route, proc, answer, today, capVars, charged, cache, row, jobs, terminal, metric, slips>>

Finish(p) ==
    /\ poll[p].pc = "finish"
    /\ terminal' = [terminal EXCEPT ![poll[p].job].state = "done"]
    /\ poll' = [poll EXCEPT ![p].pc = "metric"]
    /\ UNCHANGED <<route, proc, answer, today, capVars, charged, cache, row, refund, jobs, metric, slips, faults>>

\* UPDATE ... WHERE outcome = 'pending'.
Resolve(j, out) ==
    [metric EXCEPT ![j] = IF @ # "pending" THEN @ ELSE IF out = "delivered" THEN "ok" ELSE "provider_fault"]

FinishMetric(p) ==
    /\ poll[p].pc = "metric"
    /\ \/ metric' = Resolve(poll[p].job, poll[p].out) /\ UNCHANGED <<slips, faults>>
       \/ Fault(TRUE) /\ Slip({<<"late", poll[p].job>>}) /\ UNCHANGED metric
    /\ poll' = [poll EXCEPT ![p] = Rest]
    /\ UNCHANGED <<route, proc, answer, today, capVars, charged, cache, row, refund, jobs, terminal>>

\* Only the cap reads the date.
Midnight == /\ route = "held" /\ today = 1 /\ today' = 2
            /\ UNCHANGED <<route, proc, answer, capVars, charged, cache, row, refund, jobVars, slips, faults>>

Steps(r) ==
    \/ Route(r) \/ Relay(r) \/ Classify(r) \/ Peek(r) \/ Quote(r) \/ Preflight(r) \/ Prepare(r)
    \/ Verify(r) \/ Proof(r) \/ Lookup(r) \/ Consume(r)
    \/ Pay(r) \/ Metric(r) \/ RecordFailed(r) \/ Enqueue(r) \/ MarkUnknown(r) \/ AsyncRefund(r)
    \/ StoreJob(r) \/ Deliver(r) \/ StoreAnswer(r) \/ RecordDelivered(r)

Next == \/ \E r \in Requests : Steps(r) \/ Die(r) \/ ExecutorPays(r) \/ ExecutorMarks(r)
        \/ \E p \in Pollers : \/ \E j \in Jobs : PayerPolls(p, j) \/ CronPolls(p, j)
                              \/ Claim(p) \/ FinishRefund(p) \/ Finish(p) \/ FinishMetric(p)
        \/ Midnight

Spec == Init /\ [][Next]_vars
-----------------------------------------------------------------------------
Ended(r) == proc[r].pc = "done"

\* The money of every settled charge is accounted for once its request is
\* over: answered from the upstream or the store, queued for refund, handed to
\* an operator, or waiting as a job on record whose failure queues the refund.
\* Exceptions: an error or a stop after settlement, a job refused because its
\* credential names no account, a job id stored twice.
ChargeAccounted ==
    \A r \in charged : Ended(r) =>
        \/ answer[r] \in {"delivered", "cached", "review"}
        \/ refund[r].state # "none"
        \/ \E j \in Jobs : jobs[j] = r /\ terminal[j] # [out |-> "failed", state |-> "done"]
        \/ Slipped(r, {"threw", "died", "unbound", "overwritten", "reused"})

\* The public row tells what became of the refund: a row that reads pending has
\* a refund that will move it, and a paid refund shows.  Exceptions: a row
\* whose index failed, an update that failed, and a stopped Worker; and a row
\* the executor moved before the proxy, whose enqueue had thrown after storing
\* the entry, wrote `unknown` over it.
RefundShown ==
    \A r \in Requests :
        /\ row[r] = "pending" /\ Ended(r) =>
              \/ refund[r].state \in {"queued", "paid"} /\ refund[r].order
              \/ Slipped(r, {"unindexed", "unmarked", "died"})
        /\ refund[r].state = "marked" /\ refund[r].order =>
              \/ row[r] = "refunded"
              \/ Slipped(r, {"clobbered", "unmarked"})

\* A day's slots are at most PerDay: requests that started the day before are
\* counted under that day's key and come on top, PerDay again at most.
CapPerDay ==
    \A d \in Days, k \in Days : Cardinality({c \in calls : c[2] = k /\ c[3] = d}) <= PerDay

\* A job whose end is recorded has its verdict in the published metrics.
\* Exceptions: the metric row was written after the verdict or not at all, or
\* the update failed.
VerdictPublished ==
    \A j \in Jobs :
        (terminal[j].state = "done" /\ \A p \in Pollers : poll[p].job # j)
            => metric[j] # "pending" \/ <<"late", j>> \in slips

\* A settled charge is delivered, refunded, reviewed or kept as a job, and once
\* money went back the row says so, unless the row is lost (proxy.ts).
ChargeSettled == ChargeAccounted /\ RefundShown

\* The daily cap of a router-held credential is kept, and the published verdict
\* on a job is what became of it (rate-limit-do.ts, route-metrics.ts).
ChargeLimits == CapPerDay /\ VerdictPublished
=============================================================================
