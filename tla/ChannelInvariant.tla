-------------------------- MODULE ChannelInvariant --------------------------
(***************************************************************************)
(* The inductive invariant behind the safety of ChannelDelivery: as long   *)
(* as everything is regular, one process works on the channel, under its   *)
(* own lock, or one job is open; and whoever may still roll a voucher back *)
(* knows what the watermark was without it.                                *)
(***************************************************************************)
EXTENDS ChannelDelivery

Locked(r) == lock = [id |-> r, live |-> TRUE]

\* The lock excludes: workers work alone, and not while a job is open.
Exclusion ==
    /\ \A p \in Procs : Working(p) => Of(p) \in Requests /\ Locked(Of(p))
    /\ \A p, q \in Procs : Working(p) /\ Working(q) => p = q
    /\ \A r \in Requests : JobOpen(r) => Locked(r) /\ \A p \in Procs : ~Working(p)

\* Which steps, results and terminal records go together.
Requested == \A r \in Requests :
    /\ pc[r] \in {"idle", "read", "verify", "accepted"} => result[r] = "open"
    /\ pc[r] \in {"undo", "erase"} => result[r] \in {"limited", "failed"}
    /\ pc[r] \notin {"claim", "refund", "mark"}
    /\ r \in jobs => pc[r] = "done" /\ result[r] = "job"
    /\ r \notin jobs => terminal[r].outcome = "none" /\ terminal[r].done = FALSE

\* The steps of a finisher that has claimed its job's end.
Acting == {"undo", "erase", "refund", "release", "mark"}

Finishing == \A f \in Finishers :
    /\ pc[f] \notin {"read", "verify", "accepted"}
    /\ pc[f] \notin {"idle", "done"} => finish[f].job \in jobs
    /\ pc[f] \in Acting =>
         /\ terminal[finish[f].job].outcome = finish[f].end
         /\ terminal[finish[f].job].done = FALSE
    /\ pc[f] \in {"undo", "erase", "refund"} => finish[f].end = "failed"
    /\ pc[f] = "refund" => voucher[finish[f].job].close = TRUE
    /\ pc[f] \in {"release", "mark"} /\ finish[f].end = "failed" =>
         voucher[finish[f].job].close = TRUE \/ finish[f].job \notin charged

\* One finisher acts on a claim.
Sole == \A f, g \in Finishers :
    pc[f] \in Acting /\ pc[g] \in Acting /\ finish[f].job = finish[g].job => f = g

\* Voucher r is the latest, and its predecessor is the best of the others.
Owes(r) ==
    /\ r \in charged
    /\ voucher[r].amount = watermark.amount
    /\ voucher[r].close = watermark.settling
    /\ \A s \in charged \ {r} : voucher[s].amount <= voucher[r].previous
    /\ voucher[r].previous # 0 =>
         \E s \in charged \ {r} : voucher[s].amount = voucher[r].previous

\* Whoever may still roll a voucher back, or leave that to a finisher, owes it.
Owing == /\ \A p \in Procs : pc[p] \in {"accepted", "undo", "refund"} => Owes(Of(p))
         /\ \A r \in Requests : JobOpen(r) => Owes(r)

\* A rollback is never overtaken, and its second step finds its first one done.
Undoing == \A p \in Procs :
    /\ pc[p] \in {"undo", "erase"} => voucher[Of(p)].close = FALSE
    /\ pc[p] = "erase" => Of(p) \notin charged
    /\ pc[p] \notin {"recheck", "reamount", "rechallenge"}

\* A voucher is charged when it is accepted, on top of what was read before.
Fresh == \A r \in Requests :
    /\ pc[r] \in {"idle", "read", "verify"} => r \notin charged
    /\ pc[r] = "verify" => voucher[r].previous = watermark.amount

Exact == /\ \A r \in charged : voucher[r].amount <= watermark.amount
         /\ watermark.amount # 0 => \E r \in charged : voucher[r].amount = watermark.amount

Told == \A r \in Requests : /\ Kept(r) => r \in charged
                            /\ GivenBack(r) => r \notin charged

Sound == /\ Exclusion /\ Requested /\ Finishing /\ Sole
         /\ Owing /\ Undoing /\ Fresh /\ Exact /\ Told

\* Whatever happens, a finisher that has claimed an end finds that end on record.
Busy == \A f \in Finishers :
    /\ pc[f] # "idle" => finish[f].job \in Requests
    /\ pc[f] \in RollbackPC \cup {"refund", "release", "mark"} =>
         terminal[finish[f].job].outcome = finish[f].end

IInv == TypeOK /\ Busy /\ (Regular => Sound)
=============================================================================
