--------------------------- MODULE RefundPipeline ---------------------------
(***************************************************************************)
(* How a settled payment whose merchant leg failed is paid back: the proxy *)
(* records the order and queues the refund (routes/proxy.ts), the refund   *)
(* signer's cron runs (refund-signer.ts, refund-signer-core.ts) and, where *)
(* an operator runs it, the executor script (scripts/admin/                *)
(* refund-executor.ts) work the queue through the Router's admin API       *)
(* (routes/refunds.ts) and the Stellar network (StellarLedger), and an     *)
(* operator may return a parked refund to the queue.                       *)
(*                                                                         *)
(* An actor processes the jobs of one listing one after the other.  Every  *)
(* store access and every network call is a step of its own; a job may     *)
(* fail at any step (a 409, an RPC error, a timeout) and an actor may die  *)
(* at any step and start over with a new listing.                          *)
(***************************************************************************)
EXTENDS RefundQueue, StellarLedger

CONSTANTS Signer,        \* the SIGNER_COORDINATOR durable object
          Executors,     \* running copies of the executor script
          LeaseIds,      \* random lease ids; one not in use anywhere is fresh
          Grace,         \* REFUND_TX_MIN_TIME_GRACE_SECONDS
          Validity,      \* REFUND_TX_VALIDITY_SECONDS
          MaxSkew,       \* how far the signer's clock is from ledger time
          MaxUnparks,    \* how often the operator uses /admin/refunds/unpark
          FatalOnlyWhenAbsent,  \* the RPC gives a non-retryable rejection only
                                \* of an envelope no node holds
          PromptStore,   \* no refund is leased, paid and confirmed between the
                         \* two store accesses of one /complete request
          ProxyFaults    \* the proxy's own writes may be dropped or throw

Actors == {Signer} \cup Executors

ASSUME PipelineAssumption == /\ Grace \in Nat /\ Validity \in Nat /\ MaxSkew \in Nat
                             /\ MaxUnparks \in Nat
                             /\ FatalOnlyWhenAbsent \in BOOLEAN
                             /\ PromptStore \in BOOLEAN
                             /\ ProxyFaults \in BOOLEAN
                             /\ Signer \notin Executors
                             /\ NoTx \notin Envelope
                             /\ NoLease \notin LeaseIds

Record == [state : States, lease : LeaseIds \cup {NoLease}, live : BOOLEAN,
           tx : Envelope \cup {NoTx}, hasOrder : BOOLEAN]

\* A job of a listing: the payment and the record as it was when listed.
Job == [payment : Payments, record : Record]

VARIABLES rec,       \* rec[p]: the refund record of payment p
          order,     \* order[p]: refund_status of p's order row, "none" without a row
          proxy,     \* where the request that paid p is in its failure branch
          unparks,   \* uses of unpark so far
          reservation,  \* reservation[p]: the signer's own ledger
          pc, jobs, job, lease, env,  \* what each actor is doing
          lastAccepted  \* RefundSequenceGuard of the current run

queue == <<rec, order, proxy, unparks, reservation>>
local == <<pc, jobs, job, lease, env, lastAccepted>>
vars  == <<now, acctSeq, sent, chain, rec, order, proxy, unparks, reservation,
           pc, jobs, job, lease, env, lastAccepted>>

Steps == {"idle", "next", "lease", "build", "store", "storeCas", "send", "wait", "park",
          "check", "resend", "reconcile", "requeue", "requeueCas",
          "confirm", "confirmCas", "order", "mark"}

Init == /\ LedgerInit
        /\ rec = [p \in Payments |-> NoRecord]
        /\ order = [p \in Payments |-> "none"]
        /\ proxy = [p \in Payments |-> "start"]
        /\ unparks = 0
        /\ reservation = [p \in Payments |-> "none"]
        /\ pc = [a \in Actors |-> "idle"]
        /\ jobs = [a \in Actors |-> {}]
        /\ job \in [Actors -> Payments]
        /\ lease = [a \in Actors |-> NoLease]
        /\ env = [a \in Actors |-> NoTx]
        /\ lastAccepted = [a \in Actors |-> 0]

-----------------------------------------------------------------------------
(* The proxy's failure branch.                                             *)

\* The order row is written, as "pending", before the refund becomes visible
\* to executors; the write may be dropped.
RecordOrder(p, recorded) ==
    /\ proxy[p] = "start"
    /\ recorded \/ ProxyFaults
    /\ proxy' = [proxy EXCEPT ![p] = "ordered"]
    /\ order' = [order EXCEPT ![p] = IF recorded THEN "pending" ELSE "none"]
    /\ UNCHANGED <<ledger, rec, unparks, reservation, local>>

Enqueue(p) ==
    /\ proxy[p] = "ordered"
    /\ rec' = [rec EXCEPT ![p] = Enqueued(@, order[p] # "none")]
    /\ proxy' = [proxy EXCEPT ![p] = "queued"]
    /\ UNCHANGED <<ledger, order, unparks, reservation, local>>

\* The second write of enqueueRefund, the public status key.
PutPublicKey(p) ==
    /\ proxy[p] = "queued"
    /\ proxy' = [proxy EXCEPT ![p] = "done"]
    /\ UNCHANGED <<ledger, rec, order, unparks, reservation, local>>

\* enqueueRefund throws, before or after the record was stored.
EnqueueThrows(p) ==
    /\ ProxyFaults
    /\ proxy[p] \in {"ordered", "queued"}
    /\ proxy' = [proxy EXCEPT ![p] = "failed"]
    /\ UNCHANGED <<ledger, rec, order, unparks, reservation, local>>

\* updateOrderRefundStatus(..., 'unknown'), when there is a row.
MarkUnknown(p) ==
    /\ proxy[p] = "failed"
    /\ proxy' = [proxy EXCEPT ![p] = "done"]
    /\ order' = [order EXCEPT ![p] = IF @ = "none" THEN "none" ELSE "unknown"]
    /\ UNCHANGED <<ledger, rec, unparks, reservation, local>>

-----------------------------------------------------------------------------
(* A run of the signer or of the script.                                   *)

\* GET /admin/refunds/pending: one scan, one consistent snapshot; a new run
\* has a new sequence guard.
List(a) ==
    /\ pc[a] = "idle"
    /\ jobs' = [jobs EXCEPT ![a] = {[payment |-> p, record |-> rec[p]] :
                                      p \in {q \in Payments : Listed(rec[q])}}]
    /\ pc' = [pc EXCEPT ![a] = "next"]
    /\ lastAccepted' = [lastAccepted EXCEPT ![a] = 0]
    /\ UNCHANGED <<ledger, queue, job, lease, env>>

\* Take up one job: its payment is verified and reserved, then the submitted
\* and the unsubmitted path part.
Begin(a, j) ==
    /\ pc[a] = "next"
    /\ j \in jobs[a]
    /\ jobs' = [jobs EXCEPT ![a] = @ \ {j}]
    /\ job' = [job EXCEPT ![a] = j.payment]
    /\ reservation' = IF a = Signer /\ reservation[j.payment] = "none"
                      THEN [reservation EXCEPT ![j.payment] = "reserved"]
                      ELSE reservation
    /\ \/ /\ j.record.state = "submitted"
          /\ lease' = [lease EXCEPT ![a] = j.record.lease]
          /\ env' = [env EXCEPT ![a] = j.record.tx]
          /\ pc' = [pc EXCEPT ![a] = IF a = Signer THEN "check" ELSE "resend"]
       \/ /\ j.record.state # "submitted"
          /\ lease' = [lease EXCEPT ![a] = NoLease]
          /\ env' = [env EXCEPT ![a] = NoTx]
          /\ pc' = [pc EXCEPT ![a] = "lease"]
    /\ UNCHANGED <<ledger, rec, order, proxy, unparks, lastAccepted>>

\* The job is over; its lease id and envelope go out of scope.
EndJob(a) == /\ pc' = [pc EXCEPT ![a] = "next"]
             /\ lease' = [lease EXCEPT ![a] = NoLease]
             /\ env' = [env EXCEPT ![a] = NoTx]

\* A job that is not taken up: its payment cannot be verified, or the policy
\* holds it for a human.
Skip(a, j) ==
    /\ pc[a] = "next"
    /\ j \in jobs[a]
    /\ jobs' = [jobs EXCEPT ![a] = @ \ {j}]
    /\ UNCHANGED <<ledger, queue, pc, job, lease, env, lastAccepted>>

EndRun(a) ==
    /\ pc[a] = "next"
    /\ jobs[a] = {}
    /\ pc' = [pc EXCEPT ![a] = "idle"]
    /\ UNCHANGED <<ledger, queue, jobs, job, lease, env, lastAccepted>>

\* The job's try block throws: the record stays as it is.
JobFails(a) ==
    /\ pc[a] \notin {"idle", "next"}
    /\ EndJob(a)
    /\ UNCHANGED <<ledger, queue, jobs, job, lastAccepted>>

\* The process dies; its listing and its leases are forgotten.
Crash(a) ==
    /\ pc[a] # "idle"
    /\ pc' = [pc EXCEPT ![a] = "idle"]
    /\ jobs' = [jobs EXCEPT ![a] = {}]
    /\ lease' = [lease EXCEPT ![a] = NoLease]
    /\ env' = [env EXCEPT ![a] = NoTx]
    /\ UNCHANGED <<ledger, queue, job, lastAccepted>>

-----------------------------------------------------------------------------
(* executePending: lease, sign, store, send.                               *)

FreshLease(l) == /\ \A p \in Payments : rec[p].lease # l
                 /\ \A a \in Actors : lease[a] # l /\ \A j \in jobs[a] : j.record.lease # l

Lease(a) ==
    /\ pc[a] = "lease"
    /\ LeaseGranted(rec[job[a]])
    /\ \E l \in LeaseIds :
         /\ FreshLease(l)
         /\ rec' = [rec EXCEPT ![job[a]] = Leased(@, l)]
         /\ lease' = [lease EXCEPT ![a] = l]
    /\ pc' = [pc EXCEPT ![a] = "build"]
    /\ UNCHANGED <<ledger, order, proxy, unparks, reservation, jobs, job, env, lastAccepted>>

\* The account's sequence number as a lagging node reports it, moved forward
\* by the run's guard (the script has no guard).
AccountSeqs(a) == LET fetched == {s \in (acctSeq - MaxLag) .. acctSeq : s >= 0}
                  IN  IF a = Signer
                      THEN {IF s < lastAccepted[a] THEN lastAccepted[a] ELSE s : s \in fetched}
                      ELSE fetched

\* buildSignedRefund; the script signs without time bounds.
Signed(a, s, clock) ==
    [payment |-> job[a], seq |-> s + 1,
     minTime |-> IF a = Signer THEN clock - Grace ELSE 0,
     maxTime |-> IF a = Signer THEN clock + Validity ELSE 0]

Build(a) ==
    /\ pc[a] = "build"
    /\ \E s \in AccountSeqs(a), clock \in (now - MaxSkew) .. (now + MaxSkew) :
         /\ clock > Grace
         /\ s < MaxSeq                      \* bounds: sequence numbers, and the
         /\ clock + Validity < MaxTime      \* window ends within modelled time
         /\ env' = [env EXCEPT ![a] = Signed(a, s, clock)]
    /\ pc' = [pc EXCEPT ![a] = "store"]
    /\ UNCHANGED <<ledger, queue, jobs, job, lease, lastAccepted>>

\* Faulty: the envelope is sent before it is stored.
SendWithoutStore(a) ==
    /\ pc[a] = "store"
    /\ rec[job[a]].lease = lease[a]
    /\ pc' = [pc EXCEPT ![a] = "send"]
    /\ UNCHANGED <<ledger, queue, jobs, job, lease, env, lastAccepted>>

\* /admin/refunds/complete {state: 'submitted'} reads the record ...
Store(a) ==
    /\ pc[a] = "store"
    /\ rec[job[a]].lease = lease[a]
    /\ pc' = [pc EXCEPT ![a] = "storeCas"]
    /\ UNCHANGED <<ledger, queue, jobs, job, lease, env, lastAccepted>>

\* ... and then updates it.
StoreCas(a) ==
    LET p == job[a]
    IN  /\ pc[a] = "storeCas"
        /\ CompleteAccepted(rec[p], lease[a], "submitted", env[a])
        /\ PromptStore => rec[p].state # "confirmed"
        /\ rec' = IF CompleteWrites(rec[p], lease[a], "submitted", env[a])
                  THEN [rec EXCEPT ![p] = Completed(@, "submitted", env[a])]
                  ELSE rec
        /\ pc' = [pc EXCEPT ![a] = "send"]
        /\ UNCHANGED <<ledger, order, proxy, unparks, reservation, jobs, job, lease, env,
                       lastAccepted>>

\* PENDING or DUPLICATE: the network has the envelope, its sequence is taken.
SendAccepted(a) ==
    /\ pc[a] = "send"
    /\ sent' = sent \cup {env[a]}
    /\ lastAccepted' = [lastAccepted EXCEPT ![a] = IF env[a].seq > @ THEN env[a].seq ELSE @]
    /\ pc' = [pc EXCEPT ![a] = "wait"]
    /\ UNCHANGED <<now, acctSeq, chain, queue, jobs, job, lease, env>>

\* TRY_AGAIN_LATER: not accepted, but polled for all the same.
SendBackpressure(a) ==
    /\ pc[a] = "send"
    /\ pc' = [pc EXCEPT ![a] = "wait"]
    /\ UNCHANGED <<ledger, queue, jobs, job, lease, env, lastAccepted>>

\* The envelope reaches the network, the answer does not reach the actor.
SendLost(a) ==
    /\ pc[a] = "send"
    /\ sent' = sent \cup {env[a]}
    /\ EndJob(a)
    /\ UNCHANGED <<now, acctSeq, chain, queue, jobs, job, lastAccepted>>

\* A rejection that is not retryable; only the signer parks.
SendRejected(a) ==
    /\ pc[a] = "send"
    /\ a = Signer
    /\ FatalOnlyWhenAbsent => env[a] \notin sent
    /\ pc' = [pc EXCEPT ![a] = "park"]
    /\ UNCHANGED <<ledger, queue, jobs, job, lease, env, lastAccepted>>

\* parkRejected: complete {state: 'manual_review'}, then the job throws.
Park(a) ==
    LET p == job[a]
    IN  /\ pc[a] = "park"
        /\ rec[p].lease = lease[a]
        /\ rec' = IF CompleteWrites(rec[p], lease[a], "manual_review", env[a])
                  THEN [rec EXCEPT ![p] = Completed(@, "manual_review", env[a])]
                  ELSE rec
        /\ EndJob(a)
        /\ UNCHANGED <<ledger, order, proxy, unparks, reservation, jobs, job, lastAccepted>>

\* waitForTransaction.
Wait(a) ==
    /\ pc[a] = "wait"
    /\ \E t \in Views : Found(env[a], TRUE, t)
    /\ pc' = [pc EXCEPT ![a] = "confirm"]
    /\ UNCHANGED <<ledger, queue, jobs, job, lease, env, lastAccepted>>

-----------------------------------------------------------------------------
(* confirmSubmitted, and the script's handling of a submitted job.         *)

\* Faulty: a dead envelope is sent again for ever.
CheckWithoutRequeue(a) ==
    /\ pc[a] = "check"
    /\ \E t \in Views : pc' = [pc EXCEPT ![a] = IF Found(env[a], TRUE, t) THEN "confirm" ELSE "send"]
    /\ UNCHANGED <<ledger, queue, jobs, job, lease, env, lastAccepted>>

\* getTransaction of the stored envelope: confirm what succeeded, replace what
\* is provably dead, send again everything else.
Check(a) ==
    /\ pc[a] = "check"
    /\ \E t \in Views :
         pc' = [pc EXCEPT ![a] =
                  CASE Found(env[a], TRUE, t) -> "confirm"
                    [] NotFound(env[a], t) /\ ProvablyDead(env[a], t) -> "requeue"
                    [] OTHER -> "send"]
    /\ UNCHANGED <<ledger, queue, jobs, job, lease, env, lastAccepted>>

\* The script sends again whatever the listing held, and ignores the outcome.
Resend(a, reached) ==
    /\ pc[a] = "resend"
    /\ sent' = IF reached THEN sent \cup {env[a]} ELSE sent
    /\ pc' = [pc EXCEPT ![a] = "reconcile"]
    /\ UNCHANGED <<now, acctSeq, chain, queue, jobs, job, lease, env, lastAccepted>>

\* The script asks for confirmation and, refused, for a requeue.
Reconcile(a, confirmed) ==
    /\ pc[a] = "reconcile"
    /\ pc' = [pc EXCEPT ![a] = IF confirmed THEN "confirm" ELSE "requeue"]
    /\ UNCHANGED <<ledger, queue, jobs, job, lease, env, lastAccepted>>

\* /admin/refunds/requeue-malformed reads the record, proves the stored
\* envelope dead from one RPC answer ...
Requeue(a) ==
    LET r == rec[job[a]]
    IN  /\ pc[a] = "requeue"
        /\ r.state = "submitted" /\ r.lease = lease[a] /\ r.tx # NoTx
        /\ \E t \in Views : NotFound(r.tx, t) /\ ProvablyDead(r.tx, t)
        /\ env' = [env EXCEPT ![a] = r.tx]
        /\ pc' = [pc EXCEPT ![a] = "requeueCas"]
        /\ UNCHANGED <<ledger, queue, jobs, job, lease, lastAccepted>>

\* ... and strips that envelope; the signer goes on to lease and sign anew.
RequeueCas(a) ==
    LET p == job[a]
    IN  /\ pc[a] = "requeueCas"
        /\ RequeueWrites(rec[p], lease[a], env[a])
        /\ rec' = [rec EXCEPT ![p] = Stripped(@)]
        /\ lease' = [lease EXCEPT ![a] = NoLease]
        /\ env' = [env EXCEPT ![a] = NoTx]
        /\ pc' = [pc EXCEPT ![a] = IF a = Signer THEN "lease" ELSE "next"]
        /\ UNCHANGED <<ledger, order, proxy, unparks, reservation, jobs, job, lastAccepted>>

\* Faulty: the executor's word is taken for the network's.
ConfirmUnverified(a) ==
    LET r == rec[job[a]]
    IN  /\ pc[a] = "confirm"
        /\ r.lease = lease[a] /\ r.tx # NoTx
        /\ env' = [env EXCEPT ![a] = r.tx]
        /\ pc' = [pc EXCEPT ![a] = "confirmCas"]
        /\ UNCHANGED <<ledger, queue, jobs, job, lease, lastAccepted>>

\* /admin/refunds/confirm reads the record, verifies its envelope on chain ...
Confirm(a) ==
    LET r == rec[job[a]]
    IN  /\ pc[a] = "confirm"
        /\ r.lease = lease[a] /\ r.tx # NoTx
        /\ \E t \in Views : Found(r.tx, TRUE, t)
        /\ env' = [env EXCEPT ![a] = r.tx]
        /\ pc' = [pc EXCEPT ![a] = "confirmCas"]
        /\ UNCHANGED <<ledger, queue, jobs, job, lease, lastAccepted>>

\* ... and updates it; a refused update is answered with 200 all the same.
ConfirmCas(a) ==
    LET p == job[a]
    IN  /\ pc[a] = "confirmCas"
        /\ rec' = IF CompleteWrites(rec[p], lease[a], "confirmed", env[a])
                  THEN [rec EXCEPT ![p] = Completed(@, "confirmed", env[a])]
                  ELSE rec
        /\ pc' = [pc EXCEPT ![a] =
                    IF /\ CompleteAccepted(rec[p], lease[a], "confirmed", env[a])
                       /\ rec[p].hasOrder
                    THEN "order" ELSE "mark"]
        /\ UNCHANGED <<ledger, order, proxy, unparks, reservation, jobs, job, lease, env,
                       lastAccepted>>

\* completeRefund's trailing updateOrderRefundStatus(..., 'refunded'), best effort.
OrderRefunded(a, written) ==
    LET p == job[a]
    IN  /\ pc[a] = "order"
        /\ order' = IF written /\ order[p] # "none"
                    THEN [order EXCEPT ![p] = "refunded"] ELSE order
        /\ pc' = [pc EXCEPT ![a] = "mark"]
        /\ UNCHANGED <<ledger, rec, proxy, unparks, reservation, jobs, job, lease, env,
                       lastAccepted>>

\* ledger.markConfirmed of the signer's reservation.
Mark(a) ==
    /\ pc[a] = "mark"
    /\ reservation' = IF a = Signer THEN [reservation EXCEPT ![job[a]] = "confirmed"]
                      ELSE reservation
    /\ EndJob(a)
    /\ UNCHANGED <<ledger, rec, order, proxy, unparks, jobs, job, lastAccepted>>

-----------------------------------------------------------------------------
(* The environment.                                                        *)

LeaseExpires(p) ==
    /\ rec[p].state = "leased" /\ rec[p].live
    /\ rec' = [rec EXCEPT ![p].live = FALSE]
    /\ UNCHANGED <<ledger, order, proxy, unparks, reservation, local>>

\* The operator's POST /admin/refunds/unpark.
Unpark(p) ==
    /\ unparks < MaxUnparks
    /\ UnparkWrites(rec[p])
    /\ rec' = [rec EXCEPT ![p] = Stripped(@)]
    /\ unparks' = unparks + 1
    /\ UNCHANGED <<ledger, order, proxy, reservation, local>>

Network == /\ \/ \E e \in sent, ok \in BOOLEAN : Include(e, ok)
              \/ OtherTraffic
              \/ CloseLedger
           /\ UNCHANGED <<queue, local>>

ProxyStep(p) == \/ \E recorded \in BOOLEAN : RecordOrder(p, recorded)
                \/ Enqueue(p) \/ PutPublicKey(p) \/ EnqueueThrows(p) \/ MarkUnknown(p)

PendingPath(a) == \/ Lease(a) \/ Build(a) \/ Store(a) \/ StoreCas(a)
                  \/ SendAccepted(a) \/ SendBackpressure(a) \/ SendLost(a) \/ SendRejected(a)
                  \/ Park(a) \/ Wait(a)

SubmittedPath(a) == \/ Check(a) \/ Requeue(a) \/ RequeueCas(a)
                    \/ \E b \in BOOLEAN : Resend(a, b) \/ Reconcile(a, b)

ConfirmPath(a) == \/ Confirm(a) \/ ConfirmCas(a) \/ Mark(a)
                  \/ \E written \in BOOLEAN : OrderRefunded(a, written)

RunStep(a) == \/ List(a) \/ EndRun(a) \/ JobFails(a) \/ Crash(a)
              \/ \E j \in jobs[a] : Begin(a, j) \/ Skip(a, j)

Next == \/ Network
        \/ \E p \in Payments : ProxyStep(p) \/ LeaseExpires(p) \/ Unpark(p)
        \/ \E a \in Actors : RunStep(a) \/ PendingPath(a) \/ SubmittedPath(a) \/ ConfirmPath(a)

Spec == Init /\ [][Next]_vars

-----------------------------------------------------------------------------
(* Properties.                                                             *)

TypeOK == /\ LedgerTypeOK
          /\ rec \in [Payments -> Record]
          /\ order \in [Payments -> {"none", "pending", "unknown", "refunded"}]
          /\ proxy \in [Payments -> {"start", "ordered", "queued", "failed", "done"}]
          /\ unparks \in 0 .. MaxUnparks
          /\ reservation \in [Payments -> {"none", "reserved", "confirmed"}]
          /\ pc \in [Actors -> Steps]
          /\ jobs \in [Actors -> SUBSET Job]
          /\ job \in [Actors -> Payments]
          /\ lease \in [Actors -> LeaseIds \cup {NoLease}]
          /\ env \in [Actors -> Envelope \cup {NoTx}]
          /\ lastAccepted \in [Actors -> Nat]

\* No payment is refunded twice, whatever runs overlap, fail or die and
\* however the RPC lags: of all envelopes ever signed for a payment at most
\* one succeeds.
NoDoubleRefund ==
    \A c, d \in chain : c.ok /\ d.ok /\ c.env.payment = d.env.payment => c.env = d.env

\* A refund is reported as returned, on its record, on the order row or in the
\* signer's own ledger, only if its transaction succeeded on chain.
ReportedOnlyIfPaid ==
    \A p \in Payments :
        /\ rec[p].state = "confirmed" => Succeeded(rec[p].tx)
        /\ order[p] = "refunded" \/ reservation[p] = "confirmed" =>
             \E c \in chain : c.ok /\ c.env.payment = p

\* An envelope past its window that did not succeed can never pay any more.
Expired(e) == e.maxTime # 0 /\ e.maxTime < now /\ ~Succeeded(e)

\* An envelope the network may hold and that paid, or still can, is the one
\* on the refund's record: it was persisted before it was broadcast and has
\* not been replaced ("never re-signed blindly", receipts-and-refunds.md).
LiveEnvelopeOnRecord ==
    \A e \in sent : Expired(e) \/ rec[e.payment].tx = e

\* Once confirmed, a refund record never changes again.
ConfirmedIsFinal ==
    [][\A p \in Payments : rec[p].state = "confirmed" => rec'[p] = rec[p]]_vars

\* Fairness: the cron keeps starting runs, ledgers keep closing, a job does
\* not hang (every request and poll times out), a listed job is eventually
\* taken up, and a step of the submitted path that can succeed does not fail
\* every time it is tried.
Fairness == /\ WF_vars(CloseLedger /\ UNCHANGED <<queue, local>>)
            /\ WF_vars(List(Signer))
            /\ WF_vars(EndRun(Signer))
            /\ WF_vars(JobFails(Signer))
            /\ SF_vars(\E j \in jobs[Signer] : Begin(Signer, j))
            /\ SF_vars(Check(Signer) /\ pc'[Signer] # "send")
            /\ SF_vars(Requeue(Signer))
            /\ SF_vars(RequeueCas(Signer))
            /\ SF_vars(Confirm(Signer))
            /\ SF_vars(ConfirmCas(Signer))
FairSpec == Spec /\ Fairness

Failed(e) == Included(e) /\ ~Succeeded(e)

\* The window of an envelope is over and no node remembers all of it.
Forgotten(e) == e.maxTime < now /\ Oldest(now) > e.minTime

\* A submitted refund does not stay submitted: the signer confirms it, parks
\* it, or proves its envelope dead and signs anew (confirmSubmitted,
\* /admin/refunds/requeue-malformed).  Two refunds stay: one whose transaction
\* was included and failed, which is found on chain and never confirmed; and
\* one whose window the RPC's history no longer covers, which is neither found
\* nor provably dead, and is sent again by every run: a refusal "stays for manual
\* review" (routes/refunds.ts:275-276), but nothing parks this one.
SubmittedIsLeftWhileRemembered ==
    \A p \in Payments :
        rec[p].state = "submitted" ~>
            \/ rec[p].state # "submitted"
            \/ rec[p].tx # NoTx /\ (Failed(rec[p].tx) \/ Forgotten(rec[p].tx))
=============================================================================
