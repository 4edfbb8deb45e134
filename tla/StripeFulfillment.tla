------------------------- MODULE StripeFulfillment -------------------------
(***************************************************************************)
(* Settlement of Stripe Crypto invoices (routes/stripe-fulfillment.ts and  *)
(* its admin endpoints).                                                   *)
(*                                                                         *)
(* The record of an invoice lives in the atomic store, so one update of it *)
(* is one step.  Everything between two updates interleaves: the webhook   *)
(* handler that claimed an invoice and calls pay-invoice, the cron and the *)
(* status page that ask Stripe about it, the automatic retry of an         *)
(* ambiguous answer, the closer that looks for Stripe's pull on chain, and *)
(* the administrator.  A handler may throw at any store access or die      *)
(* between two of them.                                                    *)
(*                                                                         *)
(* Stripe, pay-invoice and the chain are external and modelled from the    *)
(* answers this code tells apart.                                          *)
(***************************************************************************)
EXTENDS Naturals, FiniteSets

CONSTANTS Invoices,        \* Stripe sessions, all of the same amount: 1
          Siblings,        \* sessions of that amount other Workers settle meanwhile
          Procs,           \* concurrent handlers: webhooks, sweeps, admin calls
          DailyCap,        \* STRIPE_FULFILLMENT_DAILY_CAP_USD
          MaxAutoRetries,  \* AMBIGUOUS_MAX_AUTO_RETRIES
          GoneEscalate,    \* RECONCILE_GONE_ESCALATE_AFTER
          MaxAdminRetries, \* bound: of a record retried less often, the administrator retries
          MaxFaults        \* bound: throws and deaths of handlers

VARIABLES rec,       \* rec[i]: the fulfilment record
          spent,     \* the stripe ledger of the day
          channel,   \* channel[i]: who holds the invoice claim
          proc,      \* proc[p]: the local state of a handler
          req,       \* req[p]: the pay-invoice request p sent last
          sess,      \* sess[i]: the Payin Session at Stripe
          permits,   \* permits[i]: Permits pay-invoice signed for i
          pulled,    \* invoices whose amount Stripe's relayer pulled on chain
          told,      \* invoices Rozo was told are delivered
          faults,    \* throws and deaths so far
          rushed,    \* retries of an invoice that was not clear, see Clear
          slips,     \* throws between a release of headroom and the record of it
          misread    \* a pull was taken for a sibling's that was not

store    == <<rec, spent, channel>>
external == <<req, sess, permits, pulled>>
history  == <<faults, rushed, slips, misread>>
vars     == <<store, proc, external, told, history>>

InFlight == {"provider_paying", "provider_submitted", "provider_submitted_ambiguous"}

\* The states a webhook event never leaves.
HumanGated == {"manual_review", "failed_provider", "claimed_by_other_channel"}

Statuses == InFlight \cup HumanGated \cup
            {"rozo_payment_created", "payin_seen", "payout_seen", "provider_disabled",
             "paid", "failed_insufficient_balance"}

Sessions == {"checkout", "purchased", "complete", "failed", "gone"}
Answers  == {"none", "executing", "signed", "refused", "disabled", "failed"}

EmptyStripeRecord ==
    [status |-> "rozo_payment_created", locked |-> FALSE, retries |-> 0, gone |-> 0,
     ambig |-> 0, unsigned |-> FALSE, bound |-> FALSE, verified |-> "none"]

Idle == [pc |-> "idle", inv |-> CHOOSE i \in Invoices : TRUE, ev |-> "none", to |-> "none",
         live |-> "none", reserved |-> FALSE, started |-> FALSE, retries |-> 0, ambig |-> 0,
         caught |-> FALSE]

Init == /\ rec = [i \in Invoices \cup Siblings |-> EmptyStripeRecord]
        /\ spent = 0
        /\ channel = [i \in Invoices |-> "none"]
        /\ proc = [p \in Procs |-> Idle]
        /\ req = [p \in Procs |-> [inv |-> Idle.inv, st |-> "none"]]
        /\ sess = [i \in Invoices |-> "checkout"]
        /\ permits = [i \in Invoices |-> 0]
        /\ pulled = {} /\ told = {}
        /\ faults = 0 /\ rushed = 0 /\ slips = 0 /\ misread = FALSE

Inv(p)     == proc[p].inv
At(p, l)   == proc[p].pc = l
Go(p, l)   == proc' = [proc EXCEPT ![p].pc = l]
Free(p)    == At(p, "idle") /\ req[p].st # "executing"
Leave(p)   == proc' = [proc EXCEPT ![p] = Idle]
\* Go on at l with nothing remembered but the invoice.
On(p, l)   == [Idle EXCEPT !.pc = l, !.inv = proc[p].inv]
\* Go on at l with outcome s, with all that is remembered or with nothing else.
GoTo(p, l, s)   == proc' = [proc EXCEPT ![p].pc = l, ![p].to = s]
Enters(p, l, s) == proc' = [proc EXCEPT ![p] = [On(p, l) EXCEPT !.to = s]]
SetRec(i, r) == rec' = [rec EXCEPT ![i] = r]

\* The requests for i that may still sign; a request that may, or a Permit Stripe
\* does not show yet; nothing signed, and nothing that may sign.
Executing(i) == {p \in Procs : req[p] = [inv |-> i, st |-> "executing"]}
Unsettled(i) == Executing(i) # {} \/ (permits[i] > 0 /\ sess[i] = "checkout")
Clear(i)     == permits[i] = 0 /\ Executing(i) = {}

(***************************************************************************)
(* Creation of the record, and the other channel                           *)
(***************************************************************************)

\* seedStripeRecord fills the locked binding and never lowers the status.
SeedStripeRecord(i) ==
    /\ ~rec[i].locked
    /\ SetRec(i, [rec[i] EXCEPT !.locked = TRUE])
    /\ UNCHANGED <<spent, channel, proc, external, told, history>>

\* The UPI channel claims the same session.
ClaimByUpi(i) ==
    /\ channel[i] = "none"
    /\ channel' = [channel EXCEPT ![i] = "upi"]
    /\ UNCHANGED <<rec, spent, proc, external, told, history>>

(***************************************************************************)
(* The webhook event: claim, gates, call, outcome                          *)
(***************************************************************************)

\* The record after the event advanced it, before the locked binding is looked at.
Advanced(r, ev) ==
    [r EXCEPT !.status = CASE ev = "payout" -> "payout_seen"
                           [] r.status = "rozo_payment_created" -> "payin_seen"
                           [] OTHER -> r.status]

\* Phase 1: one update of the record deduplicates, advances, checks and claims.
ClaimRecord(p, i, ev) ==
    LET r == rec[i] IN
    \/ /\ r.status \in {"paid"} \cup HumanGated \cup InFlight
       /\ Leave(p) /\ UNCHANGED rec
    \/ /\ r.status \notin {"paid"} \cup HumanGated \cup InFlight
       /\ \/ /\ ev = "other"
             /\ SetRec(i, Advanced(r, ev)) /\ Leave(p)
          \/ /\ ev # "other" /\ ~r.locked
             /\ SetRec(i, [Advanced(r, ev) EXCEPT !.status = "manual_review"]) /\ Leave(p)
          \/ /\ ev # "other" /\ r.locked
             /\ SetRec(i, [Advanced(r, ev) EXCEPT !.status = "provider_paying"])
             /\ proc' = [proc EXCEPT ![p] = [Idle EXCEPT !.pc = "channel", !.inv = i, !.ev = ev]]

\* An event Rozo sends, or one the operator replays from the backlog.
Deliver(p, i, ev) ==
    /\ Free(p)
    /\ ClaimRecord(p, i, ev)
    /\ UNCHANGED <<spent, channel, external, told, history>>

\* First look at the checkout switch, which the operator may have thrown at any
\* time; then claimInvoiceKey for the crypto channel.
ClaimChannel(p) ==
    /\ At(p, "channel")
    /\ \/ /\ Enters(p, "unclaim", "payout_seen")
          /\ UNCHANGED channel
       \/ /\ channel[Inv(p)] = "upi"
          /\ Enters(p, "final", "claimed_by_other_channel")
          /\ UNCHANGED channel
       \/ /\ channel[Inv(p)] # "upi"
          /\ channel' = [channel EXCEPT ![Inv(p)] = "crypto"]
          /\ Go(p, "reserve")
    /\ UNCHANGED <<rec, spent, external, told, history>>

\* The balance on chain (short, enough or unknown), then the headroom of the day.
ReserveSpend(p) ==
    /\ At(p, "reserve")
    /\ \/ /\ Enters(p, "unclaim", IF proc[p].ev = "payout" THEN "failed_insufficient_balance"
                                                           ELSE "payout_seen")
          /\ UNCHANGED spent
       \/ /\ spent + 1 > DailyCap
          /\ Enters(p, "unclaim", "payout_seen")
          /\ UNCHANGED spent
       \/ /\ spent + 1 <= DailyCap
          /\ spent' = spent + 1
          /\ proc' = [proc EXCEPT ![p] = [On(p, "load") EXCEPT !.reserved = TRUE]]
    /\ UNCHANGED <<rec, channel, external, told, history>>

\* The claimed record is read again and its capability decrypted; then the
\* second look at the switch, and the request.
SendPayInvoice(p) ==
    /\ At(p, "load")
    /\ \/ /\ GoTo(p, "release", "manual_review")
          /\ UNCHANGED req
       \/ /\ GoTo(p, "release", "checkout_paused")
          /\ UNCHANGED req
       \/ /\ proc' = [proc EXCEPT ![p].pc = "calling", ![p].started = TRUE]
          /\ req' = [req EXCEPT ![p] = [inv |-> Inv(p), st |-> "executing"]]
    /\ UNCHANGED <<store, sess, permits, pulled, told, history>>

\* Faulty: an ambiguous answer hands the headroom back as a refusal does.
FaultyAnswer(p) ==
    /\ At(p, "calling")
    /\ GoTo(p, "release", "provider_submitted_ambiguous")
    /\ req' = [req EXCEPT ![p].st = IF @ = "executing" THEN @ ELSE "none"]
    /\ UNCHANGED <<store, sess, permits, pulled, told, history>>

\* The answer of pay-invoice, or none (transport error, 5xx, unreadable body).
Answer(p) ==
    /\ At(p, "calling")
    /\ \/ GoTo(p, "final", "provider_submitted_ambiguous")
       \/ req[p].st = "signed"   /\ GoTo(p, "final", "provider_submitted")
       \/ req[p].st = "failed"   /\ GoTo(p, "final", "unsigned")
       \/ req[p].st = "disabled" /\ GoTo(p, "release", "provider_disabled")
       \/ req[p].st = "refused"  /\ GoTo(p, "release", "failed_provider")
    /\ req' = [req EXCEPT ![p].st = IF @ = "executing" THEN @ ELSE "none"]
    /\ UNCHANGED <<store, sess, permits, pulled, told, history>>

\* releaseDailySpend of this attempt, never below zero.
ReleaseSpend(p) ==
    /\ At(p, "release")
    /\ spent' = IF spent = 0 THEN 0 ELSE spent - 1
    /\ proc' = [proc EXCEPT ![p].pc = IF proc[p].to = "checkout_paused" THEN "unclaim" ELSE "final",
                            ![p].reserved = IF proc[p].to = "checkout_paused"
                                              THEN FALSE ELSE proc[p].reserved]
    /\ UNCHANGED <<rec, channel, external, told, history>>

\* finalizeClaim: anything but paid is overwritten.  An accepted request may
\* have named the settlement transaction.
Finalized(r, to) ==
    LET s == IF to = "unsigned" THEN "provider_submitted_ambiguous" ELSE to
    IN [r EXCEPT !.status   = IF r.status = "paid" THEN r.status ELSE s,
                 !.ambig    = IF s = "provider_submitted_ambiguous" THEN @ + 1 ELSE @,
                 !.unsigned = IF s = "provider_submitted_ambiguous" THEN to = "unsigned" ELSE @]

FinalizeClaim(p) ==
    /\ At(p, "final")
    /\ \E named \in (IF proc[p].to = "provider_submitted" THEN BOOLEAN ELSE {FALSE}) :
         SetRec(Inv(p), [Finalized(rec[Inv(p)], proc[p].to) EXCEPT !.bound = @ \/ named])
    /\ Leave(p)
    /\ UNCHANGED <<spent, channel, external, told, history>>

\* releaseClaim: steps down only from the claim.
ReleaseClaim(p) ==
    /\ At(p, "unclaim")
    /\ LET i == Inv(p)
           to == IF proc[p].to = "checkout_paused" THEN "payout_seen" ELSE proc[p].to
       IN SetRec(i, IF rec[i].status = "provider_paying" THEN [rec[i] EXCEPT !.status = to]
                                                          ELSE rec[i])
    /\ Leave(p)
    /\ UNCHANGED <<spent, channel, external, told, history>>

\* The safety net: before the call the headroom is given back (if it can be)
\* and the claim stepped down; once the call started the outcome is ambiguous.
\* What it does itself is not caught again.
Throw(p) ==
    /\ proc[p].pc \in {"channel", "reserve", "load", "release", "final", "unclaim"} /\ ~proc[p].caught
    /\ faults < MaxFaults /\ faults' = faults + 1
    /\ slips' = IF At(p, "final") /\ proc[p].reserved
                     /\ proc[p].to \in {"manual_review", "provider_disabled", "failed_provider"}
                  THEN slips + 1 ELSE slips
    /\ IF proc[p].started
         THEN /\ proc' = [proc EXCEPT ![p].pc = "final", ![p].to = "provider_submitted_ambiguous",
                                      ![p].caught = TRUE]
              /\ UNCHANGED spent
         ELSE /\ proc' = [proc EXCEPT ![p].pc = "unclaim", ![p].to = "payout_seen", ![p].caught = TRUE]
              /\ \/ spent' = IF proc[p].reserved /\ spent > 0 THEN spent - 1 ELSE spent
                 \/ UNCHANGED spent
    /\ UNCHANGED <<rec, channel, external, told, rushed, misread>>

\* The Worker dies; whatever it held stays as it is.
Die(p) ==
    /\ ~At(p, "idle")
    /\ faults < MaxFaults /\ faults' = faults + 1
    /\ Leave(p)
    /\ UNCHANGED <<store, external, told, rushed, slips, misread>>

(***************************************************************************)
(* Reconciliation with Stripe, and the retry of an ambiguous answer        *)
(***************************************************************************)

\* reconcileStripeRecordWithProvider: the record is in flight, Stripe is asked.
ReconcileRead(p, i) ==
    /\ Free(p) /\ rec[i].status \in InFlight /\ rec[i].locked
    /\ \E live \in {sess[i], "error"} :
         proc' = [proc EXCEPT ![p] =
                    [Idle EXCEPT !.pc = "reconcile", !.inv = i, !.live = live, !.ev = rec[i].status]]
    /\ UNCHANGED <<store, external, told, history>>

Reconciled(r, live) ==
    CASE live = "complete" /\ r.status \in InFlight -> [r EXCEPT !.gone = 0, !.status = "paid"]
      [] live = "failed" /\ r.status \in InFlight   -> [r EXCEPT !.gone = 0, !.status = "failed_provider"]
      [] live = "gone" -> [r EXCEPT !.gone = IF @ = GoneEscalate THEN @ ELSE @ + 1,
                                    !.status = IF r.gone + 1 >= GoneEscalate /\ r.status \in InFlight
                                                 THEN "manual_review" ELSE @]
      [] OTHER -> [r EXCEPT !.gone = 0]

\* What Stripe said is applied to the record as it is now.  The sweep goes on
\* to the retry when the record it listed was ambiguous and stays in flight.
ReconcileWrite(p) ==
    /\ At(p, "reconcile")
    /\ SetRec(Inv(p), Reconciled(rec[Inv(p)], proc[p].live))
    /\ \/ Leave(p)
       \/ /\ proc[p].ev = "provider_submitted_ambiguous"
          /\ proc[p].live \in {"checkout", "purchased"}
          /\ proc' = [proc EXCEPT ![p].pc = "retry", ![p].ev = "none"]
    /\ UNCHANGED <<spent, channel, external, told, history>>

\* Inspect the record: its generation, the retries and the ambiguous answers so
\* far, is remembered.  A retry that is considered while a request may still sign,
\* or has signed, is rushed.
Inspect(p, i) ==
    /\ proc' = [proc EXCEPT ![p] = [Idle EXCEPT !.pc = "restep", !.inv = i,
                                        !.retries = rec[i].retries, !.ambig = rec[i].ambig]]
    /\ rushed' = IF Clear(i) THEN rushed ELSE rushed + 1

\* The cron counts its attempts and keeps the answer the reconciler got, which
\* may be about an earlier generation of the record than the one read here.  Its
\* grace period runs from the start of the handler that met the ambiguous answer,
\* which in a sweep is the start of the sweep, to the start of this sweep: however
\* recent the answer is, it may be over.  It is waived when pay-invoice said that
\* nothing was signed.
RetryCron(p) ==
    /\ At(p, "retry")
    /\ LET r       == rec[Inv(p)]
           allowed == /\ r.status = "provider_submitted_ambiguous"
                      /\ proc[p].live = "checkout"
                      /\ r.retries < MaxAutoRetries
       IN \/ allowed /\ Inspect(p, Inv(p))
          \/ ~(allowed /\ r.unsigned) /\ Leave(p) /\ UNCHANGED rushed
    /\ UNCHANGED <<store, external, told, faults, slips, misread>>

\* handleStripeFulfillmentRetry: no grace, no cap, but Stripe is read now.
RetryAdmin(p, i) ==
    /\ Free(p) /\ rec[i].status = "provider_submitted_ambiguous" /\ rec[i].locked
    /\ sess[i] = "checkout"
    /\ rec[i].retries < MaxAdminRetries
    /\ Inspect(p, i)
    /\ UNCHANGED <<store, external, told, faults, slips, misread>>

\* Faulty: any ambiguous answer will do, not only the one that was inspected.
StepUnbound(p) ==
    /\ At(p, "restep")
    /\ LET r == rec[Inv(p)] IN
       IF r.status = "provider_submitted_ambiguous"
         THEN /\ SetRec(Inv(p), [r EXCEPT !.status = "payout_seen", !.retries = @ + 1])
              /\ proc' = [proc EXCEPT ![p] = On(p, "refund")]
         ELSE Leave(p) /\ UNCHANGED rec
    /\ UNCHANGED <<spent, channel, external, told, history>>

\* The update is bound to the attempt that was inspected.
RetryStep(p) ==
    /\ At(p, "restep")
    /\ LET r == rec[Inv(p)] IN
       IF /\ r.status = "provider_submitted_ambiguous"
          /\ r.retries = proc[p].retries /\ r.ambig = proc[p].ambig
         THEN /\ SetRec(Inv(p), [r EXCEPT !.status = "payout_seen", !.retries = @ + 1])
              /\ proc' = [proc EXCEPT ![p] = On(p, "refund")]
         ELSE Leave(p) /\ UNCHANGED rec
    /\ UNCHANGED <<spent, channel, external, told, history>>

\* The headroom of the ambiguous attempt is handed back, at best effort.
RetryRelease(p) ==
    /\ At(p, "refund")
    /\ \/ spent' = IF spent = 0 THEN 0 ELSE spent - 1
       \/ UNCHANGED spent
    /\ Go(p, "redrive")
    /\ UNCHANGED <<rec, channel, external, told, history>>

RetryDrive(p) ==
    /\ At(p, "redrive")
    /\ ClaimRecord(p, Inv(p), "payout")
    /\ UNCHANGED <<spent, channel, external, told, history>>

(***************************************************************************)
(* The end of a parked record: the chain, the human, the report           *)
(***************************************************************************)

CannotPull == {"rozo_payment_created", "payin_seen", "claimed_by_other_channel"}

\* findStripeRelayerPull: the one pull in the window after the payout.  Which
\* pulls the window of i shows is left open.
Found(S) == IF Cardinality(S) = 1 THEN CHOOSE j \in S : TRUE ELSE "none"

\* The pull a sibling has of its own: bound to its session and on chain, or
\* the one its window shows.
Theirs(o, window) == IF rec[o].bound /\ o \in pulled THEN o ELSE Found(window[o])

\* siblingsAccountedFor: every other record that could have pulled has another
\* pull, remembered from an earlier pass or looked up now, or was paid out after
\* this pull landed and so cannot own it.
AccountedFor(o, j, window) ==
    \/ rec[o].status \in CannotPull
    \/ rec[o].verified \notin {"none", j}
    \/ rec[o].verified = "none" /\ Theirs(o, window) \notin {"none", j}
    \/ rec[o].verified = "none" /\ o # j

\* rememberVerifiedPull
Remember(r, j) == [r EXCEPT !.verified = IF @ = "none" THEN j ELSE @]

\* The siblings a pass finds a pull for, other than j, and may remember it of.
Located(i, j, window) == {o \in DOMAIN rec \ {i} : /\ rec[o].status \notin CannotPull
                                                  /\ rec[o].verified = "none"
                                                  /\ Theirs(o, window) \notin {"none", j}}

\* settleManualReviewFromChain: by the transaction pay-invoice named for the
\* session, else by exclusion.  The record closes as a human would close it.  What
\* was found of siblings is remembered also when another one is in the way.
CloseFromChain(i) ==
    /\ rec[i].status = "manual_review"
    /\ \E window \in [DOMAIN rec -> SUBSET pulled] :
         LET j     == IF rec[i].bound THEN i ELSE Found(window[i])
             proof == IF rec[i].bound THEN i \in pulled
                      ELSE j # "none" /\ \A o \in DOMAIN rec \ {i} : AccountedFor(o, j, window)
             found == IF rec[i].bound \/ j = "none" THEN {} ELSE Located(i, j, window)
         IN \E R \in SUBSET found :
              /\ rec' = [o \in DOMAIN rec |->
                           IF o \in R THEN Remember(rec[o], Theirs(o, window))
                           ELSE IF o = i /\ proof THEN [Remember(rec[i], j) EXCEPT !.status = "paid"]
                           ELSE rec[o]]
              /\ misread' = (misread \/ \E o \in R \cup (IF proof THEN found \cap {j} ELSE {}) :
                                            Theirs(o, window) # o)
    /\ UNCHANGED <<spent, channel, proc, external, told, faults, rushed, slips>>

\* resolveManualReview by the administrator, who looked the settlement up.
ResolveManualReview(i) ==
    /\ rec[i].status = "manual_review" /\ ~Unsettled(i)
    /\ SetRec(i, [rec[i] EXCEPT !.status = IF i \in pulled THEN "paid" ELSE "failed_provider"])
    /\ UNCHANGED <<spent, channel, proc, external, told, history>>

\* reportStripeDelivered: Rozo accepts the report of a paid record.
ReportStripeDelivered(i) ==
    /\ rec[i].status = "paid" /\ i \notin told
    /\ told' = told \cup {i}
    /\ UNCHANGED <<store, proc, external, history>>

(***************************************************************************)
(* External: pay-invoice and Stripe; the siblings                          *)
(***************************************************************************)

\* pay-invoice signs only while the session is at checkout; it may refuse,
\* be disabled, or fail before it signs.
PayInvoice(p) ==
    /\ req[p].st = "executing"
    /\ LET i == req[p].inv
           Done(st) == req' = [req EXCEPT ![p].st = IF At(p, "calling") THEN st ELSE "none"]
       IN \/ /\ sess[i] = "checkout"
             /\ permits' = [permits EXCEPT ![i] = @ + 1]
             /\ Done("signed")
          \/ /\ \E st \in {"refused", "disabled", "failed"} : Done(st)
             /\ UNCHANGED permits
    /\ UNCHANGED <<store, proc, sess, pulled, told, history>>

\* A submitted Permit moves the session; the relayer pulls; the merchant is
\* credited or not; a session is not readable for ever.
StripeMoves(i) ==
    /\ \/ /\ sess[i] = "checkout" /\ permits[i] > 0
          /\ sess' = [sess EXCEPT ![i] = "purchased"] /\ pulled' = pulled \cup {i}
       \/ /\ sess[i] = "purchased"
          /\ sess' = [sess EXCEPT ![i] = "complete"] /\ UNCHANGED pulled
       \/ /\ sess[i] = "checkout" /\ permits[i] = 0
          /\ \E s \in {"failed", "gone"} : sess' = [sess EXCEPT ![i] = s]
          /\ UNCHANGED pulled
       \/ /\ sess[i] = "complete"
          /\ sess' = [sess EXCEPT ![i] = "gone"] /\ UNCHANGED pulled
    /\ UNCHANGED <<store, proc, req, permits, told, history>>

\* A sibling is claimed, and later pulled; its record may name the transaction.
SiblingMoves(s) ==
    \/ /\ rec[s].status = "rozo_payment_created"
       /\ SetRec(s, [rec[s] EXCEPT !.status = "provider_paying"])
       /\ UNCHANGED <<spent, channel, proc, external, told, history>>
    \/ /\ rec[s].status = "provider_paying"
       /\ \E named \in BOOLEAN :
            SetRec(s, [rec[s] EXCEPT !.status = "provider_submitted", !.bound = named])
       /\ pulled' = pulled \cup {s}
       /\ UNCHANGED <<spent, channel, proc, req, sess, permits, told, history>>

Settle(p) == \/ ClaimChannel(p) \/ ReserveSpend(p) \/ SendPayInvoice(p) \/ Answer(p)
             \/ ReleaseSpend(p) \/ FinalizeClaim(p) \/ ReleaseClaim(p)

Retry(p) == RetryCron(p) \/ RetryStep(p) \/ RetryRelease(p) \/ RetryDrive(p)

Next ==
    \/ \E i \in Invoices : \/ SeedStripeRecord(i) \/ ClaimByUpi(i) \/ CloseFromChain(i)
                           \/ ResolveManualReview(i) \/ ReportStripeDelivered(i)
                           \/ StripeMoves(i)
    \/ \E s \in Siblings : SiblingMoves(s)
    \/ \E p \in Procs : \/ Settle(p) \/ Retry(p) \/ ReconcileWrite(p) \/ PayInvoice(p)
                        \/ Throw(p) \/ Die(p)
    \/ \E p \in Procs, i \in Invoices :
          \/ \E ev \in {"payin", "payout", "other"} : Deliver(p, i, ev)
          \/ ReconcileRead(p, i) \/ RetryAdmin(p, i)

Spec == Init /\ [][Next]_vars

(***************************************************************************)
(* Properties                                                              *)
(***************************************************************************)

\* pay-invoice signs at most one Permit for a session, whoever handles it: two
\* webhooks, the cron, the administrator, a handler whose evidence is of an older
\* attempt.  Exception: a retry that was allowed while the earlier request could
\* still sign, or had signed: "a grace period after the ambiguous answer"
\* (stripe-fulfillment.ts:1158-1161) is counted from an earlier moment.
OnePermit == \A i \in Invoices : permits[i] <= 1 + rushed

\* A record is closed as paid, and Rozo told that the merchant has it, only
\* if Stripe pulled the amount of this very invoice: not that of a sibling of
\* the same amount, and not on the word of a request that never signed.
\* Exception: a pass that took a pull for a sibling's because it was the one in
\* that sibling's window; then the sibling's own pull looks like nobody's.
PaidWasPulled ==
    \/ /\ \A i \in Invoices : rec[i].status = "paid" => i \in pulled
       /\ told \subseteq pulled
    \/ misread

\* Every Permit there is.
Signed == UNION {{i} \X (1 .. permits[i]) : i \in Invoices}

\* The ledger of the day counts every Permit signed, or the cap would not be
\* one.  It falls behind only where a throw comes between the release of an
\* attempt's headroom and the record of its outcome (the release is then made
\* a second time), or after a rushed retry.
SpendCounted == Cardinality(Signed) <= spent + slips + rushed

(***************************************************************************)
(* The inductive invariant                                                 *)
(***************************************************************************)

Known == Invoices \cup Siblings

Records == [status : Statuses, locked : BOOLEAN, retries : Nat, gone : Nat, ambig : Nat,
            unsigned : BOOLEAN, bound : BOOLEAN, verified : Known \cup {"none"}]
Steps   == {"idle", "channel", "reserve", "load", "calling", "release", "final", "unclaim",
            "reconcile", "retry", "restep", "refund", "redrive"}
Outcomes == Statuses \cup {"none", "unsigned", "checkout_paused"}
Locals  == [pc : Steps, inv : Invoices, ev : {"none", "payin", "payout", "other"} \cup InFlight,
            to : Outcomes,
            live : Sessions \cup {"none", "error"}, reserved : BOOLEAN, started : BOOLEAN,
            retries : Nat, ambig : Nat, caught : BOOLEAN]

TypeOK == /\ rec \in [Known -> Records]
          /\ spent \in Nat
          /\ channel \in [Invoices -> {"none", "crypto", "upi"}]
          /\ proc \in [Procs -> Locals]
          /\ req \in [Procs -> [inv : Invoices, st : Answers]]
          /\ sess \in [Invoices -> Sessions]
          /\ permits \in [Invoices -> Nat]
          /\ pulled \subseteq Known /\ told \subseteq Invoices
          /\ faults \in Nat /\ rushed \in Nat /\ slips \in Nat /\ misread \in BOOLEAN

\* A handler that claimed its invoice, and one whose request may have signed.
Holds(p) == proc[p].pc \in {"channel", "reserve", "load", "calling", "release", "final", "unclaim"}
Sent     == {"provider_submitted", "provider_submitted_ambiguous"}
Rejected == {"manual_review", "provider_disabled", "failed_provider"}
Gone(p)  == \/ At(p, "calling") /\ req[p].st \in {"executing", "signed"}
            \/ At(p, "final") /\ proc[p].to \in Sent

Ambiguous(i)  == rec[i].status = "provider_submitted_ambiguous"
Claimable(i)  == rec[i].status \notin {"paid"} \cup HumanGated \cup InFlight
Matched(p, i) == /\ At(p, "restep") /\ Inv(p) = i
                 /\ proc[p].retries = rec[i].retries /\ proc[p].ambig = rec[i].ambig

\* Without another look at Stripe one more request can be made.
MaySign(i) == \/ Claimable(i)
              \/ \E p \in Procs : Inv(p) = i /\ Holds(p) /\ ~Gone(p)
              \/ Ambiguous(i) /\ (rec[i].unsigned \/ \E p \in Procs : Matched(p, i))

Rights(i) == ({"permit"} \X (1 .. permits[i])) \cup ({"call"} \X Executing(i))
                \cup {t \in {<<"token", i>>} : MaySign(i)}

\* Headroom of the day that a handler may give back, or a retry will.
Charged(p) == \/ At(p, "load") \/ At(p, "release")
              \/ At(p, "calling") /\ req[p].st \notin {"executing", "signed"}
              \/ At(p, "final") /\ \/ proc[p].to = "unsigned"
                                   \/ proc[p].to = "provider_submitted_ambiguous" /\ Clear(Inv(p))
Owed(i) == \/ \E p \in Procs : Inv(p) = i /\ Charged(p)
           \/ /\ Ambiguous(i)
              /\ rec[i].unsigned \/ Clear(i) \/ \E p \in Procs : Matched(p, i)

\* What the ledger of the day counts: Permits, requests under way, refunds to
\* come of a retry, headroom owed.
Calls   == {p \in Procs : req[p].st = "executing"}
Refunds == {p \in Procs : At(p, "refund")}
Debts   == {i \in Invoices : Owed(i)}
UnitsOf(S, C, R, D) ==
    S \cup ((({"call"} \X C) \cup ({"refund"} \X R) \cup ({"owed"} \X D)) \X {0})
Units   == UnitsOf(Signed, Calls, Refunds, Debts)

\* The claim of an invoice has one holder.
Stay       == {"provider_paying", "paid"} \cup HumanGated
Claimed(p) == Holds(p) => /\ rec[Inv(p)].status \in Stay
                          /\ \A q \in Procs : Holds(q) /\ Inv(q) = Inv(p) => q = p

\* Where a request can still be under way, and what a handler has reserved.
Busy(p) == /\ req[p].st = "executing" => proc[p].pc \in {"idle", "calling", "final"}
           /\ req[p].st = "executing" /\ At(p, "final") => proc[p].started
           /\ req[p].st = "signed" => permits[req[p].inv] > 0
           /\ At(p, "calling") => req[p].inv = Inv(p) /\ proc[p].started
           /\ proc[p].pc \in {"load", "calling", "release"} => proc[p].reserved
           /\ proc[p].pc \in {"channel", "reserve"} => ~proc[p].reserved
           /\ At(p, "unclaim") /\ ~proc[p].caught => ~proc[p].reserved
           /\ proc[p].pc \in {"channel", "reserve", "load", "unclaim"} => ~proc[p].started
           /\ At(p, "unclaim") =>
                 proc[p].to \in {"payout_seen", "failed_insufficient_balance", "checkout_paused"}
           /\ At(p, "release") =>
                 /\ proc[p].to \in {"checkout_paused"} \cup Rejected
                 /\ proc[p].started <=> proc[p].to \in {"provider_disabled", "failed_provider"}
           /\ At(p, "final") =>
                 /\ proc[p].to \in {"claimed_by_other_channel", "unsigned"} \cup Sent \cup Rejected
                 /\ proc[p].started <=> proc[p].to \notin {"manual_review", "claimed_by_other_channel"}
                 /\ proc[p].reserved <=> proc[p].to # "claimed_by_other_channel"
                 /\ proc[p].to = "provider_submitted" => permits[Inv(p)] > 0

\* A handler about to step a record has inspected it in an earlier generation, if
\* not in this one.
Seen(p) == At(p, "restep") => proc[p].ambig <= rec[Inv(p)].ambig

\* What pay-invoice was asked for was claimed for this channel first.
Crypto(i) == /\ channel[i] = "crypto" => rec[i].status \notin CannotPull
             /\ rec[i].status = "claimed_by_other_channel" => channel[i] = "upi"
             /\ permits[i] > 0 \/ Executing(i) # {} => channel[i] = "crypto"
             /\ i \in pulled => permits[i] > 0
             /\ sess[i] \in {"purchased", "complete"} => i \in pulled
Toward(p) == /\ proc[p].pc \in {"reserve", "load", "calling"} => channel[Inv(p)] = "crypto"
             /\ At(p, "final") /\ proc[p].to = "claimed_by_other_channel" => channel[Inv(p)] = "upi"
             /\ At(p, "reconcile") /\ proc[p].live = "complete" => Inv(p) \in pulled
Elsewhere(s) == /\ rec[s].status \in {"rozo_payment_created", "provider_paying", "provider_submitted"}
                /\ s \in pulled => rec[s].status = "provider_submitted"

Own(p) == Claimed(p) /\ Busy(p) /\ Seen(p) /\ Toward(p)

IInv == /\ TypeOK
        /\ \A p \in Procs : Own(p)
        /\ \A i \in Invoices : Crypto(i) /\ Cardinality(Rights(i)) <= 1 + rushed
        /\ Cardinality(Units) <= spent + slips + rushed
        /\ \A s \in Siblings : Elsewhere(s)
        /\ PaidWasPulled
        /\ misread \/ \A o \in Known : rec[o].verified \in {o, "none"}

\* The record of an invoice is in the generation it was in, or in a newer one.
Newer(i) == /\ rec[i].ambig <= rec'[i].ambig
            /\ Ambiguous(i)' => \/ rec[i].ambig < rec'[i].ambig
                                \/ /\ Ambiguous(i) /\ rec'[i].ambig = rec[i].ambig
                                   /\ rec'[i].retries = rec[i].retries
                                   /\ rec'[i].unsigned = rec[i].unsigned

\* A step of handler p about invoice i, after which its state is h and the record r.
Moves(p, i, h, r) ==
    /\ proc' = [proc EXCEPT ![p] = h] /\ (h.inv = i \/ h.pc = "idle")
    /\ rec' = [rec EXCEPT ![i] = r]
    /\ \A q \in Procs \ {p} : req'[q] = req[q]
    /\ \A k \in Invoices \ {i} : Executing(k)' = Executing(k) /\ channel'[k] = channel[k]
    /\ channel[i] # "none" => channel'[i] = channel[i]
    /\ UNCHANGED <<sess, permits, pulled, told, misread>>
    /\ rushed <= rushed'

\* The channel claim is left alone, or the crypto channel takes it.
TakesChannel(i) == \/ channel' = channel
                   \/ channel[i] = "none" /\ channel' = [channel EXCEPT ![i] = "crypto"]

\* A step of handler p about i that leaves records and requests as they are.
Quiet(p, i, h) ==
    /\ proc' = [proc EXCEPT ![p] = h] /\ (h.inv = i \/ h.pc = "idle")
    /\ UNCHANGED <<rec, req, sess, permits, pulled, told, misread>> /\ TakesChannel(i)
    /\ spent' \in Nat /\ faults' \in Nat /\ slips' \in Nat /\ rushed' \in Nat /\ rushed <= rushed'

\* A handler that has nothing reserved, asked or caught.
Fresh(h) == ~h.reserved /\ ~h.started /\ ~h.caught

\* Record r, whose claim was closed with outcome o, is now q.
Closed(r, o, q) ==
    /\ q.verified = r.verified /\ r.ambig <= q.ambig
    /\ \/ o = "unsigned" /\ q.status \in {"provider_submitted_ambiguous", r.status} /\ r.ambig < q.ambig
       \/ /\ o = "provider_submitted_ambiguous"
          /\ q.status \in {"provider_submitted_ambiguous", r.status}
          /\ r.ambig < q.ambig /\ ~q.unsigned
       \/ o \notin {"unsigned", "provider_submitted_ambiguous"} /\ q.status \in {o, r.status}
    /\ r.status = "paid" <=> q.status = "paid"
    /\ r.status # "paid" => q.status = IF o = "unsigned" THEN "provider_submitted_ambiguous" ELSE o

\* Record r, after what Stripe said of its session was applied to it, is now q.
Applied(r, live, q) ==
    /\ q.ambig = r.ambig /\ q.retries = r.retries /\ q.unsigned = r.unsigned /\ q.verified = r.verified
    /\ \/ q.status = r.status
       \/ r.status \in InFlight /\ live = "complete" /\ q.status = "paid"
       \/ r.status \in InFlight /\ q.status \in {"failed_provider", "manual_review"}

=============================================================================
