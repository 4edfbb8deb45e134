---------------------------- MODULE RefundQueue ----------------------------
(***************************************************************************)
(* The refund record and its transitions (refund/refund.ts).  Each         *)
(* transition is the function its caller passes to the atomic store's      *)
(* update(), so one transition is one indivisible step (AtomicStore).      *)
(*                                                                         *)
(* refundTx is the hash of signedXdr: /admin/refunds/complete refuses a    *)
(* pair that does not match, so one field, tx, stands for both.  The lease *)
(* deadline is kept as the flag live, cleared when the deadline passes.    *)
(***************************************************************************)
CONSTANTS NoLease, NoTx

States == {"none", "pending", "leased", "submitted", "confirmed", "manual_review"}

NoRecord == [state |-> "none", lease |-> NoLease, live |-> FALSE, tx |-> NoTx,
             hasOrder |-> FALSE]

\* enqueueRefund: the id is a hash of the payment, so a second enqueue for the
\* same payment finds the first record and leaves it alone.
Enqueued(r, hasOrder) ==
    IF r.state # "none" THEN r
    ELSE [NoRecord EXCEPT !.state = "pending", !.hasOrder = hasOrder]

\* leaseRefund.
LeaseGranted(r) == r.state = "pending" \/ (r.state = "leased" /\ ~r.live)
Leased(r, l) == [r EXCEPT !.state = "leased", !.lease = l, !.live = TRUE]

\* completeRefund: when it writes, what it writes, and when its caller gets
\* the record back (anything else is answered with null).
CompleteWrites(r, l, s, tx) ==
    /\ r.state \notin {"none", "confirmed"}
    /\ r.lease = l
    /\ CASE s = "submitted"     -> r.state = "leased"
         [] s = "confirmed"     -> r.state = "submitted"
         [] s = "manual_review" -> r.state = "submitted" => r.tx = tx
Completed(r, s, tx) == [r EXCEPT !.state = s, !.tx = tx]
CompleteAccepted(r, l, s, tx) ==
    \/ r.state = "confirmed"
    \/ CompleteWrites(r, l, s, tx)
    \/ r.state = "submitted" /\ s = "submitted" /\ r.lease = l /\ r.tx = tx

\* The record without its envelope and lease, back at pending: what unparkRefund
\* and requeueMalformedRefund write.
Stripped(r) == [r EXCEPT !.state = "pending", !.lease = NoLease, !.live = FALSE, !.tx = NoTx]

RequeueWrites(r, l, tx) == r.state = "submitted" /\ r.lease = l /\ r.tx = tx
\* Faulty: unpark of a refund that is on its way, or done.
UnparkSubmitted(r) == r.state \in {"submitted", "manual_review"}
UnparkConfirmed(r) == r.state \in {"confirmed", "manual_review"}
UnparkWrites(r) == r.state = "manual_review"

\* Jobs GET /admin/refunds/pending hands to an executor.
Listed(r) == r.state \in {"pending", "leased", "submitted"}
=============================================================================
