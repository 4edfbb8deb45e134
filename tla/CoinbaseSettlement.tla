------------------------ MODULE CoinbaseSettlement ------------------------
(***************************************************************************)
(* Settlement of one Coinbase payment link: the webhook (routes/           *)
(* webhook.ts), the cron sweep (coinbase-sweep.ts), the execution gate and *)
(* its admin endpoint, the cross-channel claim, the order that settles     *)
(* (settling-order.ts) and the checkout switch with its replay.            *)
(*                                                                         *)
(* The record of a link is in KV: a save reads it again, merges and        *)
(* writes, and both the copy a handler works on and the copy it merged     *)
(* with may be stale when it writes.  The gate, the claim and the index of *)
(* paused deliveries are in the atomic store.  Two Rozo orders may pay the *)
(* same link.  Coinbase, Rozo and pay-invoice are external.                *)
(***************************************************************************)
EXTENDS Naturals, FiniteSets

CONSTANTS Orders,      \* Rozo orders created for the link
          Procs,       \* concurrent handlers: webhook events, sweeps, replays
          MaxEvents,   \* bound: webhook events handled
          MaxReplays,  \* bound: replays of a paused delivery
          MaxClears,   \* bound: times an administrator clears the gate
          MaxFaults    \* bound: handlers that die

ASSUME CoinbaseConstants == IsFiniteSet(Procs) /\ "nobody" \notin Procs

VARIABLES rec,       \* the record in KV
          gate,      \* the execution gate: who holds it, for which order
          claim,     \* who holds the invoice, and how far a coupon that holds it has come
          entry,     \* the paused-delivery entry: the refusal it was last written for, or 0
          proc,      \* proc[p]: the copy p works on and its next step
          captured,  \* Coinbase has settled the invoice
          requests,  \* pay-invoice requests made
          paidout,   \* orders whose payout Rozo completed
          told,      \* orders Rozo was told are delivered
          pauses,    \* deliveries the switch has refused
          events,    \* webhook events handled
          replays,   \* replays made
          clears,    \* times the gate was cleared
          faults,    \* handlers that died
          stale,     \* a write of the record undid one made since its read
          owed       \* a delivery was refused by the switch and indexed, and not driven since

world   == <<captured, requests, paidout, told>>
history == <<replays, clears, faults, stale, owed>>
vars    == <<rec, gate, claim, entry, pauses, proc, world, events, history>>

PrePay   == {"payin_seen", "failed_insufficient_balance"}
Terminal == {"paid", "capture_pending", "manual_review", "failed_pay_invoice",
             "claimed_by_other_channel", "order_binding_failed"}

Rank(s) == CASE s \in PrePay -> 0
             [] s = "paying" -> 1
             [] s = "capture_pending" -> 2
             [] s = "paid" -> 4
             [] OTHER -> 3

\* A lower rank never overwrites, an equal one only before a payment.
KeepStored(stored, next) ==
    \/ Rank(next) < Rank(stored)
    \/ Rank(next) = Rank(stored) /\ Rank(stored) > 0 /\ stored # next

NoOrder == "none"

EmptyRecord == [exists |-> FALSE, status |-> "payin_seen", settling |-> NoOrder,
                dups |-> {}, reported |-> FALSE]

Free  == [by |-> "nobody", order |-> NoOrder]
Ready == [pc |-> "idle", order |-> NoOrder, ev |-> "none", mine |-> EmptyRecord, next |-> "idle",
          seen |-> 0, behind |-> FALSE]

Init == /\ rec = EmptyRecord /\ gate = Free /\ claim = "none" /\ entry = 0
        /\ proc = [p \in Procs |-> Ready]
        /\ captured = FALSE /\ requests = 0
        /\ paidout = {} /\ told = {}
        /\ pauses = 0 /\ events = 0 /\ replays = 0 /\ clears = 0 /\ faults = 0 /\ stale = FALSE /\ owed = FALSE

At(p, l)      == proc[p].pc = l
Mine(p)       == proc[p].mine
Go(p, l)      == proc' = [proc EXCEPT ![p].pc = l]
Leave(p)      == proc' = [proc EXCEPT ![p] = Ready]
\* What a handler still needs of itself once it is past the gates.
Rest(p, l)    == [Ready EXCEPT !.pc = l, !.seen = proc[p].seen,
                               !.ev = IF proc[p].ev = "replay" THEN "replay" ELSE "none"]
Finish(p)     == proc' = [proc EXCEPT ![p] = Rest(p, "end")]
\* Save the copy r, then go on at l.
Save(p, r, l) == proc' = [proc EXCEPT ![p] = [Rest(p, "reread") EXCEPT !.mine = r, !.next = l]]
Park(p, r)    == Save(p, r, "park")

(***************************************************************************)
(* The guarded save                                                        *)
(***************************************************************************)

\* mergeSettlingTrack: the stored settling order wins; the other is a duplicate.
Settling(stored, next) == IF stored.settling # NoOrder THEN stored.settling ELSE next.settling
Dups(stored, next) ==
    (stored.dups \cup next.dups \cup {next.settling}) \ {Settling(stored, next), NoOrder}

Merged(stored, next) ==
    IF ~stored.exists THEN [next EXCEPT !.exists = TRUE]
    ELSE [exists |-> TRUE,
          status |-> IF KeepStored(stored.status, next.status) THEN stored.status ELSE next.status,
          settling |-> Settling(stored, next), dups |-> Dups(stored, next),
          reported |-> stored.reported \/ next.reported]

\* The read of the save.
Reread(p) ==
    /\ At(p, "reread")
    /\ proc' = [proc EXCEPT ![p].pc = "write", ![p].mine = Merged(rec, Mine(p))]
    /\ UNCHANGED <<rec, gate, claim, entry, world, pauses, events, history>>

\* Its write.  Who read before it and writes after it undoes it.
Write(p) ==
    /\ At(p, "write")
    /\ rec' = Mine(p)
    /\ stale' = (stale \/ proc[p].behind)
    /\ proc' = [q \in Procs |->
                  IF q = p THEN CASE proc[p].next = "idle" -> Ready
                                  [] proc[p].next \in {"end", "park"} -> Rest(p, proc[p].next)
                                  [] OTHER -> [proc[p] EXCEPT !.pc = proc[p].next, !.behind = FALSE]
                  ELSE [proc[q] EXCEPT !.behind = @ \/ proc[q].pc = "write"]]
    /\ UNCHANGED <<gate, claim, entry, captured, requests, paidout, told, pauses, events,
                   replays, clears, faults, owed>>

(***************************************************************************)
(* The webhook                                                             *)
(***************************************************************************)

\* trackSettlingOrder for an event that settles.
Tracked(r, o) ==
    IF r.settling = NoOrder THEN [r EXCEPT !.settling = o]
    ELSE IF r.settling = o THEN r
    ELSE [r EXCEPT !.dups = @ \cup {o}]

\* The record is loaded and the event decided as far as the copy alone goes.
Load(p, o, ev) ==
    LET r == Tracked(rec, o)
        Start(pc, by, kind, next) == proc' = [proc EXCEPT ![p] =
              [pc |-> pc, order |-> by, ev |-> kind, mine |-> r, next |-> next, seen |-> pauses,
               behind |-> FALSE]]
    IN IF r.settling # o \/ r.status \in Terminal \cup {"paying"}   \* a second order, or under way
         THEN Start("reread", NoOrder, IF ev = "replay" THEN ev ELSE "none", "end")
         ELSE Start("gates", o, ev, "idle")

Receive(p, o, ev) ==
    /\ At(p, "idle") /\ events < MaxEvents
    /\ ev = "payout" => o \in paidout
    /\ Load(p, o, ev)
    /\ events' = events + 1
    /\ UNCHANGED <<rec, gate, claim, entry, pauses, world, history>>

\* Before any claim: the switch, which may be thrown at any time,
Paused(p) == Park(p, Mine(p))

\* the binding of the order, which may fail for good or not be known yet,
BindingFails(p) ==
    \/ Save(p, [Mine(p) EXCEPT !.status = "order_binding_failed"], "end")
    \/ Save(p, Mine(p), "end")

\* the funder's balance, which a payin may find short and a payout may not,
ShortBalance(p) ==
    Save(p, [Mine(p) EXCEPT !.status = IF proc[p].ev = "payin" THEN @
                                         ELSE "failed_insufficient_balance"], "end")

\* and the cap of the day, reached or (second case) not to be read, after which
\* the record keeps a pre-pay status.
OverCap(p) ==
    \/ Save(p, [Mine(p) EXCEPT !.status = IF proc[p].ev = "payin" THEN @
                                            ELSE "failed_insufficient_balance"], "end")
    \/ Save(p, Mine(p), "end")

Gates(p) ==
    /\ At(p, "gates")
    /\ Paused(p) \/ BindingFails(p) \/ ShortBalance(p) \/ OverCap(p) \/ Go(p, "claim")
    /\ UNCHANGED <<rec, gate, claim, entry, world, pauses, events, history>>

\* claimInvoiceKey
Claim(p) ==
    /\ At(p, "claim")
    /\ \/ /\ claim \in {"none", "crypto"}
          /\ claim' = "crypto" /\ Go(p, "acquire")
       \/ /\ claim \notin {"none", "crypto"}
          /\ Save(p, [Mine(p) EXCEPT !.status = "claimed_by_other_channel"], "end") /\ UNCHANGED claim
    /\ UNCHANGED <<rec, gate, entry, captured, requests, paidout, told, pauses, events, history>>

\* Faulty: re-entrant for the order that holds it, as the claim is.
FaultyAcquireGate(p) ==
    /\ At(p, "acquire")
    /\ IF gate = Free \/ gate.order = proc[p].order
         THEN gate' = [by |-> p, order |-> proc[p].order] /\ Go(p, "recheck")
         ELSE Save(p, Mine(p), "end") /\ UNCHANGED gate
    /\ UNCHANGED <<rec, claim, entry, world, pauses, events, history>>

\* acquireCoinbaseExecGate: absent, or refused whoever asks.
AcquireGate(p) ==
    /\ At(p, "acquire")
    /\ IF gate = Free THEN /\ gate' = [by |-> p, order |-> proc[p].order]
                           /\ proc' = [proc EXCEPT ![p] = [Rest(p, "recheck") EXCEPT !.mine = Mine(p)]]
                      ELSE Save(p, Mine(p), "end") /\ UNCHANGED gate
    /\ UNCHANGED <<rec, claim, entry, world, pauses, events, history>>

\* releaseCoinbaseExecGate by an event, the name of the holder: two deliveries
\* of one event share it, and a release that throws is ignored.
Release == gate' \in IF gate.by = "coupon" THEN {gate} ELSE {gate, Free}

\* The switch again; nothing was sent, so the gate is given back.  Otherwise the
\* record says paying before the request is made.
Recheck(p) ==
    /\ At(p, "recheck")
    /\ \/ Park(p, Mine(p)) /\ Release
       \/ Save(p, [Mine(p) EXCEPT !.status = "paying"], "send") /\ UNCHANGED gate
    /\ UNCHANGED <<rec, claim, entry, world, pauses, events, history>>

\* A save that throws before the request gives the gate back.
SaveThrows(p) ==
    /\ proc[p].pc \in {"reread", "write"} /\ proc[p].next = "send"
    /\ faults < MaxFaults /\ faults' = faults + 1
    /\ Release /\ Leave(p)
    /\ UNCHANGED <<rec, claim, entry, world, pauses, events, replays, clears, stale, owed>>

\* The save may have kept what another writer stored: then nothing is sent.
Send(p) ==
    /\ At(p, "send")
    /\ IF Mine(p).status = "paying"
         THEN /\ requests' = requests + 1
              /\ Go(p, "calling") /\ UNCHANGED gate
         ELSE /\ Release /\ Finish(p) /\ UNCHANGED requests
    /\ UNCHANGED <<rec, claim, entry, captured, paidout, told, pauses, events, history>>

\* The answer of pay-invoice: captured, accepted, or an error of either kind.
Answered(p) ==
    /\ At(p, "calling")
    /\ \/ /\ captured /\ Save(p, [Mine(p) EXCEPT !.status = "paid"], "report")
       \/ /\ Save(p, [Mine(p) EXCEPT !.status = "capture_pending"], "report")
       \/ /\ Save(p, [Mine(p) EXCEPT !.status = "failed_pay_invoice"], "report")
    /\ UNCHANGED <<rec, gate, claim, entry, captured, requests, paidout, told, pauses, events, history>>

\* The report to Rozo of a record that says paid, for the order it says.
Report(p) ==
    /\ At(p, "report")
    /\ IF Mine(p).status = "paid" /\ ~Mine(p).reported /\ Mine(p).settling # NoOrder
         THEN \/ /\ told' = told \cup {Mine(p).settling}
                 /\ Save(p, [Mine(p) EXCEPT !.reported = TRUE], "end")
              \/ Save(p, Mine(p), "end") /\ UNCHANGED told
         ELSE Finish(p) /\ UNCHANGED told
    /\ UNCHANGED <<rec, gate, claim, entry, captured, requests, paidout, pauses, events, history>>

\* recordPausedDelivery, after the save.  The index write is best effort: one
\* that fails is left to the human it alerts, and the delivery goes on as refused.
RecordPaused(p) ==
    /\ At(p, "park")
    /\ \/ pauses' = pauses + 1 /\ entry' = pauses + 1 /\ owed' = TRUE
       \/ UNCHANGED <<pauses, entry, owed>>
    /\ Leave(p)
    /\ UNCHANGED <<rec, gate, claim, world, events, replays, clears, faults, stale>>

\* Faulty: a replay clears the entry whatever was recorded meanwhile.
FaultyEnd(p) ==
    /\ At(p, "end")
    /\ entry' = IF proc[p].ev = "replay" THEN 0 ELSE entry
    /\ owed' = (owed /\ pauses # proc[p].seen)
    /\ Leave(p)
    /\ UNCHANGED <<rec, gate, claim, world, pauses, events, replays, clears, faults, stale>>

\* The handler is done.  A replay then clears the entry it saw, if it is still
\* that one; only a delivery driven since the last refusal settles what is owed.
End(p) ==
    /\ At(p, "end")
    /\ entry' = IF proc[p].ev = "replay" /\ entry = proc[p].seen THEN 0 ELSE entry
    /\ owed' = (owed /\ pauses # proc[p].seen)
    /\ Leave(p)
    /\ UNCHANGED <<rec, gate, claim, world, pauses, events, replays, clears, faults, stale>>

\* The replay of a paused delivery: an entry whose record left the pre-pay
\* states is dropped, the others are driven again.
Replay(p) ==
    /\ At(p, "idle") /\ entry > 0 /\ replays < MaxReplays
    /\ replays' = replays + 1
    /\ IF rec.status \notin PrePay
         THEN entry' = 0 /\ owed' = FALSE /\ UNCHANGED proc
         ELSE /\ \E o \in paidout : Load(p, o, "replay")
              /\ UNCHANGED <<entry, owed>>
    /\ UNCHANGED <<rec, gate, claim, world, pauses, events, clears, faults, stale>>

Die(p) ==
    /\ ~At(p, "idle") /\ faults < MaxFaults
    /\ faults' = faults + 1 /\ Leave(p)
    /\ UNCHANGED <<rec, gate, claim, entry, world, pauses, events, replays, clears, stale, owed>>

(***************************************************************************)
(* The sweep, which works on the record as it listed it and never pays     *)
(***************************************************************************)

SweepLoad(p, l) == proc' = [proc EXCEPT ![p] = [Ready EXCEPT !.pc = l, !.mine = rec]]

\* classify
Sweep(p) ==
    /\ At(p, "idle") /\ rec.exists
    /\ \/ rec.status \in {"capture_pending", "paying"} /\ SweepLoad(p, "confirm")
       \/ rec.status \in PrePay /\ rec.settling \in paidout /\ SweepLoad(p, "stuck")
       \/ rec.status = "paid" /\ ~rec.reported /\ captured /\ SweepLoad(p, "report")
    /\ UNCHANGED <<rec, gate, claim, entry, world, pauses, events, history>>

\* fastConfirmAfterPay: the record is read again seconds after the request, and
\* only a settled invoice changes it.
FastConfirm(p) ==
    /\ At(p, "idle") /\ rec.status = "capture_pending" /\ captured
    /\ Save(p, [rec EXCEPT !.status = "paid"], "report")
    /\ UNCHANGED <<rec, gate, claim, entry, world, pauses, events, history>>

\* confirmFromCoinbase: an unreadable answer changes nothing.
Confirm(p) ==
    /\ At(p, "confirm")
    /\ \/ /\ captured /\ Save(p, [Mine(p) EXCEPT !.status = "paid"], "report")
       \/ /\ ~captured /\ Save(p, [Mine(p) EXCEPT !.status = "manual_review"], "end")
       \/ Leave(p)
    /\ UNCHANGED <<rec, gate, claim, entry, captured, requests, paidout, told, pauses, events, history>>

\* checkStuck; adoptLostSettlement wants the gate of this very order, no
\* duplicate, and the funder's transfer right after the gate was taken.
CheckStuck(p) ==
    /\ At(p, "stuck")
    /\ \/ /\ captured /\ gate.order = Mine(p).settling /\ Mine(p).dups = {} /\ requests > 0
          /\ Save(p, [Mine(p) EXCEPT !.status = "paid"], "report")
       \/ /\ ~captured /\ Save(p, Mine(p), "end")
       \/ Leave(p)
    /\ UNCHANGED <<rec, gate, claim, entry, captured, requests, paidout, told, pauses, events, history>>

(***************************************************************************)
(* The administrator, the other payers, and the outside                    *)
(***************************************************************************)

\* handleCoinbaseExecGateClear: what the holder did is parked for a human, and
\* Coinbase says unsettled.
ClearGate ==
    /\ gate # Free /\ clears < MaxClears /\ ~captured
    /\ IF gate.by = "coupon" THEN claim = "coupon_sent"
                              ELSE rec.status \in {"manual_review", "failed_pay_invoice"}
    /\ gate' = Free /\ clears' = clears + 1
    /\ UNCHANGED <<rec, claim, entry, pauses, proc, world, events, replays, faults, stale, owed>>

\* A coupon redeemed against the link takes the same claim and the same gate,
\* and gives both back only before its request.
CouponPays ==
    /\ \/ /\ claim = "none"
          /\ claim' = "coupon" /\ UNCHANGED <<gate, requests>>
       \/ /\ claim = "coupon" /\ gate = Free
          /\ claim' = "coupon_gated" /\ gate' = [by |-> "coupon", order |-> NoOrder]
          /\ UNCHANGED requests
       \/ /\ claim = "coupon_gated"
          /\ claim' = "coupon_sent" /\ requests' = requests + 1
          /\ UNCHANGED gate
       \/ /\ claim = "coupon_gated"
          /\ claim' = "none" /\ gate' = IF gate.by = "coupon" THEN Free ELSE gate
          /\ UNCHANGED requests
    /\ UNCHANGED <<rec, entry, pauses, proc, captured, paidout, told, events, history>>

\* External: a request captures, or the customer pays Coinbase directly; Rozo
\* completes the payout of an order.
Capture == /\ ~captured
           /\ captured' = TRUE
           /\ UNCHANGED <<rec, gate, claim, entry, proc, requests, paidout, told, pauses, events, history>>

Payout(o) == /\ o \notin paidout
             /\ paidout' = paidout \cup {o}
             /\ UNCHANGED <<rec, gate, claim, entry, proc, captured, requests, told,
                            pauses, events, history>>

Settle(p) == \/ Gates(p) \/ Claim(p) \/ AcquireGate(p) \/ Recheck(p) \/ Send(p) \/ Answered(p)
             \/ Report(p) \/ RecordPaused(p) \/ End(p) \/ Reread(p) \/ Write(p)

Next == \/ \E p \in Procs : \/ Settle(p) \/ SaveThrows(p) \/ Replay(p) \/ Die(p)
                            \/ Sweep(p) \/ FastConfirm(p) \/ Confirm(p) \/ CheckStuck(p)
                            \/ \E o \in Orders, ev \in {"payin", "payout"} : Receive(p, o, ev)
        \/ \E o \in Orders : Payout(o)
        \/ ClearGate \/ CouponPays \/ Capture

Spec == Init /\ [][Next]_vars

(***************************************************************************)
(* Properties                                                              *)
(***************************************************************************)

\* At most one pay-invoice request is made for a link, by webhook, replay and
\* coupon together, unless an administrator cleared the gate in between: the
\* gate decides, never the record, which a stale writer may have rolled back.
OneRequest == requests <= 1 + clears

\* Rozo is told that an order was delivered only if the invoice is settled,
\* and of two orders that paid the same link only one is reported delivered
\* unless a stale write of the record lost which one it was.
OneDelivered == /\ told # {} => captured
                /\ (stale \/ Cardinality(told) <= 1)

\* One order's money pays a link: one request leaves for it and one order is
\* told so, however the events, the replays and the coupon interleave (webhook.ts).
PaidByOne == OneRequest /\ OneDelivered

\* A delivery the switch refused stays in the index until it is driven again:
\* a replay that ends late does not clear an entry recorded since it looked.
\* Exception: a refusal whose index write failed, which is a human's to re-drive.
RefusedStaysIndexed == owed => entry > 0

=============================================================================
