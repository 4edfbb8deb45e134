---------------------------- MODULE InvoiceProofs ----------------------------
(***************************************************************************)
(* Proofs about CoinbaseSettlement, for any orders, handlers and bounds:   *)
(* one pay-invoice request per link and clearing of its gate, one order    *)
(* told that it was delivered, no refused delivery forgotten.              *)
(* After them proofs about Stripe invoices (StripeFulfillment), for any    *)
(* finite sets of sessions and handlers.                                   *)
(***************************************************************************)
EXTENDS MCInvoiceSettlement, FiniteSetTheorems, TLAPS

Statuses == PrePay \cup Terminal \cup {"paying"}
Records  == [exists : BOOLEAN, status : Statuses, settling : Orders \cup {NoOrder},
             dups : SUBSET Orders, reported : BOOLEAN]
Steps    == {"idle", "reread", "write", "gates", "claim", "acquire", "recheck", "send", "calling",
             "report", "park", "end", "confirm", "stuck"}
Targets  == {"idle", "end", "park", "report", "send"}
Handlers == [pc : Steps, order : Orders \cup {NoOrder}, ev : {"none", "payin", "payout", "replay"},
             mine : Records, next : Targets, seen : Nat, behind : BOOLEAN]

TypeOK == /\ rec \in Records
          /\ gate \in [by : Procs \cup {"nobody", "coupon"}, order : Orders \cup {NoOrder}]
          /\ claim \in {"none", "crypto", "coupon", "coupon_gated", "coupon_sent"}
          /\ entry \in Nat /\ pauses \in Nat
          /\ proc \in [Procs -> Handlers]
          /\ captured \in BOOLEAN /\ requests \in Nat
          /\ paidout \subseteq Orders /\ told \subseteq Orders
          /\ events \in Nat /\ replays \in Nat /\ clears \in Nat /\ faults \in Nat
          /\ stale \in BOOLEAN /\ owed \in BOOLEAN

-----------------------------------------------------------------------------
(* The inductive invariant.                                                *)

\* A record or a copy of it says paid only when Coinbase has the money.
PaidIsCaptured == /\ rec.status = "paid" => captured
                  /\ \A p \in Procs : proc[p].mine.status = "paid" => captured
                  /\ told # {} => captured

\* A handler that has the gate and has not made its request.
Armed(h)  == \/ h.pc \in {"recheck", "send"}
             \/ h.pc \in {"reread", "write"} /\ h.next = "send"
ArmedProcs == {p \in Procs : Armed(proc[p])}
One(b)     == IF b THEN 1 ELSE 0

\* The right to one request is with the gate, with who took it, or used up; an
\* administrator who clears the gate grants another.
Rights == requests + Cardinality(ArmedProcs) + One(gate = Free) + One(claim = "coupon_gated")
            <= 1 + clears

\* Who read the record and found a settling order there writes that order back;
\* who is about to report has the settling order of the record.
SettlingAgrees(h) == /\ h.pc = "write" /\ ~h.behind /\ rec.settling # NoOrder =>
                          h.mine.settling = rec.settling
                     /\ h.pc = "report" => h.mine.settling \in {NoOrder, rec.settling}

\* Until a stale write loses it, the settling order of the record is the one
\* Rozo may have been told of.
OneSettles == /\ ~rec.exists => rec.settling = NoOrder
              /\ \A p \in Procs : proc[p].pc = "write" => proc[p].mine.exists
              /\ ~stale => /\ told \subseteq {rec.settling} \ {NoOrder}
                           /\ \A p \in Procs : SettlingAgrees(proc[p])

\* The index holds the latest refusal or nothing.
Indexed == entry \in {0, pauses} /\ RefusedStaysIndexed

IInv == TypeOK /\ PaidIsCaptured /\ Rights /\ OneSettles /\ Indexed

-----------------------------------------------------------------------------
(* Steps of one handler.                                                   *)

\* Only handler p moves.
Moved(p) == /\ proc' \in [Procs -> Handlers]
            /\ \A q \in Procs \ {p} : proc'[q] = proc[q]

\* The records and handlers the steps start from.
LEMMA Constants == EmptyRecord \in Records /\ Ready \in Handlers
BY DEF EmptyRecord, Ready, Records, Handlers, Statuses, PrePay, Steps, Targets, NoOrder

\* A handler goes on at l.
LEMMA GoMoves ==
    ASSUME TypeOK, NEW p \in Procs, NEW l \in Steps, Go(p, l)
    PROVE  /\ Moved(p) /\ proc'[p] = [proc[p] EXCEPT !.pc = l]
BY DEF TypeOK, Handlers, Go, Moved

\* A handler is done.
LEMMA LeaveMoves ==
    ASSUME TypeOK, NEW p \in Procs, Leave(p)
    PROVE  Moved(p) /\ proc'[p] = Ready
BY Constants DEF TypeOK, Leave, Moved

\* What is left of a handler at l.
LEMMA RestIs ==
    ASSUME TypeOK, NEW p \in Procs, NEW l \in Steps
    PROVE  /\ Rest(p, l) \in Handlers /\ Rest(p, l).pc = l /\ Rest(p, l).next = "idle"
           /\ Rest(p, l).mine = EmptyRecord /\ Rest(p, l).seen = proc[p].seen
           /\ ~Rest(p, l).behind
<1>1. proc[p] \in Handlers
  BY DEF TypeOK
<1>. QED BY <1>1, Constants DEF Rest, Ready, Handlers

\* A handler has nothing left to do but end.
LEMMA FinishMoves ==
    ASSUME TypeOK, NEW p \in Procs, Finish(p)
    PROVE  Moved(p) /\ proc'[p] = Rest(p, "end")
<1>1. "end" \in Steps
  BY DEF Steps
<1>2. Rest(p, "end") \in Handlers
  BY <1>1, RestIs
<1>. QED BY <1>2 DEF TypeOK, Finish, Moved

\* A handler starts to save the copy r.
LEMMA SaveMoves ==
    ASSUME TypeOK, NEW p \in Procs, NEW r \in Records, NEW l \in Targets, Save(p, r, l)
    PROVE  /\ Moved(p) /\ proc'[p].pc = "reread" /\ proc'[p].mine = r /\ proc'[p].next = l
           /\ proc'[p].seen = proc[p].seen
<1>1. "reread" \in Steps
  BY DEF Steps
<1>2. Rest(p, "reread") \in Handlers /\ Rest(p, "reread").pc = "reread"
      /\ Rest(p, "reread").seen = proc[p].seen
  BY <1>1, RestIs
<1>. DEFINE h == [Rest(p, "reread") EXCEPT !.mine = r, !.next = l]
<1>3. h \in Handlers /\ h.pc = "reread" /\ h.mine = r /\ h.next = l /\ h.seen = proc[p].seen
  BY <1>2 DEF Handlers
<1>4. proc' = [proc EXCEPT ![p] = h]
  BY DEF Save
<1>. HIDE DEF h
<1>. QED BY <1>3, <1>4 DEF TypeOK, Moved

\* How the handlers that have the gate change when one handler moves.
LEMMA ArmedCount ==
    ASSUME TypeOK, NEW p \in Procs, Moved(p)
    PROVE  /\ Cardinality(ArmedProcs) \in Nat
           /\ Cardinality(ArmedProcs') =
                Cardinality(ArmedProcs) + One(Armed(proc'[p])) - One(Armed(proc[p]))
<1>1. IsFiniteSet(ArmedProcs) /\ IsFiniteSet(ArmedProcs')
  <2>1. ArmedProcs \subseteq Procs /\ ArmedProcs' \subseteq Procs
    BY DEF ArmedProcs
  <2>. QED BY <2>1, CoinbaseConstants, FS_Subset
<1>2. Cardinality(ArmedProcs) \in Nat /\ Cardinality(ArmedProcs') \in Nat
  BY <1>1, FS_CardinalityType
<1>3. CASE Armed(proc'[p]) /\ Armed(proc[p])
  <2>1. ArmedProcs' = ArmedProcs
    BY <1>3 DEF ArmedProcs, Moved
  <2>. QED BY <2>1, <1>2, <1>3 DEF One
<1>4. CASE Armed(proc'[p]) /\ ~Armed(proc[p])
  <2>1. ArmedProcs' = ArmedProcs \cup {p} /\ p \notin ArmedProcs
    BY <1>4 DEF ArmedProcs, Moved
  <2>2. Cardinality(ArmedProcs') = Cardinality(ArmedProcs) + 1
    BY <2>1, <1>1, FS_AddElement
  <2>. QED BY <2>2, <1>2, <1>4 DEF One
<1>5. CASE ~Armed(proc'[p]) /\ Armed(proc[p])
  <2>1. ArmedProcs' = ArmedProcs \ {p} /\ p \in ArmedProcs
    BY <1>5 DEF ArmedProcs, Moved
  <2>2. Cardinality(ArmedProcs') = Cardinality(ArmedProcs) - 1
    BY <2>1, <1>1, FS_RemoveElement
  <2>. QED BY <2>2, <1>2, <1>5 DEF One
<1>6. CASE ~Armed(proc'[p]) /\ ~Armed(proc[p])
  <2>1. ArmedProcs' = ArmedProcs
    BY <1>6 DEF ArmedProcs, Moved
  <2>. QED BY <2>1, <1>2, <1>6 DEF One
<1>. QED BY <1>2, <1>3, <1>4, <1>5, <1>6

\* Nothing about who was told changes when a handler neither reaches its write
\* nor its report, and works on no copy that says paid too early.
LEMMA QuietHandler ==
    ASSUME IInv, NEW p \in Procs, Moved(p), UNCHANGED <<rec, captured, told, stale>>,
           proc'[p].pc \notin {"write", "report"},
           proc'[p].mine.status = "paid" => captured
    PROVE  PaidIsCaptured' /\ OneSettles'
<1>1. PaidIsCaptured'
  BY DEF IInv, PaidIsCaptured, Moved
<1>2. \A q \in Procs : proc'[q].pc \in {"write", "report"} => proc'[q] = proc[q]
  BY DEF Moved
<1>3. OneSettles'
  BY <1>2 DEF IInv, OneSettles, SettlingAgrees
<1>. QED BY <1>1, <1>3

\* The gate is given back, so a right to a request goes from the handler to it.
LEMMA ReleaseGives ==
    ASSUME TypeOK, Release
    PROVE  /\ gate' \in [by : Procs \cup {"nobody", "coupon"}, order : Orders \cup {NoOrder}]
           /\ One(gate' = Free) <= One(gate = Free) + 1
           /\ One(gate' = Free) \in {0, 1} /\ One(gate = Free) \in {0, 1}
BY DEF TypeOK, Release, Free, NoOrder, One

\* Rights are passed on and never made, unless the gate is cleared.
LEMMA RightsKept ==
    ASSUME IInv, NEW p \in Procs, Moved(p), requests' \in Nat, clears' = clears,
           claim' = "coupon_gated" => claim = "coupon_gated",
           requests' + One(Armed(proc'[p])) + One(gate' = Free)
             <= requests + One(Armed(proc[p])) + One(gate = Free)
    PROVE  Rights'
<1>1. /\ Cardinality(ArmedProcs) \in Nat
      /\ Cardinality(ArmedProcs') =
           Cardinality(ArmedProcs) + One(Armed(proc'[p])) - One(Armed(proc[p]))
  BY ArmedCount DEF IInv
<1>2. requests + Cardinality(ArmedProcs) + One(gate = Free) + One(claim = "coupon_gated")
        <= 1 + clears
  BY DEF IInv, Rights
<1>3. requests' + Cardinality(ArmedProcs') + One(gate' = Free) + One(claim' = "coupon_gated")
        <= 1 + clears'
  <2>1. requests \in Nat /\ clears \in Nat
    BY DEF IInv, TypeOK
  <2>2. /\ One(Armed(proc[p])) \in {0, 1} /\ One(Armed(proc'[p])) \in {0, 1}
        /\ One(gate = Free) \in {0, 1} /\ One(gate' = Free) \in {0, 1}
        /\ One(claim = "coupon_gated") \in {0, 1}
        /\ One(claim' = "coupon_gated") <= One(claim = "coupon_gated")
        /\ One(claim' = "coupon_gated") \in {0, 1}
    BY DEF One
  <2>. QED BY <1>1, <1>2, <2>1, <2>2
<1>. QED BY <1>3 DEF Rights, One, Free

\* A step of one handler that leaves the record and the index alone.
LEMMA HandlerStep ==
    ASSUME IInv, NEW p \in Procs, Moved(p),
           UNCHANGED <<rec, captured, told, paidout, stale, clears, entry, pauses, owed>>,
           events' \in Nat, replays' \in Nat, faults' \in Nat, requests' \in Nat,
           gate' \in [by : Procs \cup {"nobody", "coupon"}, order : Orders \cup {NoOrder}],
           claim' \in {"none", "crypto", "coupon", "coupon_gated", "coupon_sent"},
           claim' = "coupon_gated" => claim = "coupon_gated",
           requests' + One(Armed(proc'[p])) + One(gate' = Free)
             <= requests + One(Armed(proc[p])) + One(gate = Free),
           proc'[p].pc \notin {"write", "report"},
           proc'[p].mine.status = "paid" => captured
    PROVE  IInv'
<1>1. TypeOK'
  BY DEF IInv, TypeOK, Moved
<1>2. PaidIsCaptured' /\ OneSettles'
  BY QuietHandler
<1>3. Rights'
  BY RightsKept
<1>4. Indexed'
  BY DEF IInv, Indexed, RefusedStaysIndexed
<1>. QED BY <1>1, <1>2, <1>3, <1>4 DEF IInv

\* The copy of a handler is a record, also with another status.
LEMMA Copies ==
    ASSUME TypeOK, NEW p \in Procs
    PROVE  /\ proc[p] \in Handlers /\ Mine(p) \in Records
           /\ \A s \in Statuses : /\ [Mine(p) EXCEPT !.status = s] \in Records
                                  /\ [Mine(p) EXCEPT !.status = s].status = s
<1>1. proc[p] \in Handlers
  BY DEF TypeOK
<1>2. Mine(p) \in Records
  BY <1>1 DEF Mine, Handlers
<1>. QED BY <1>1, <1>2 DEF Records

\* A handler that starts to save and will not pay after it leaves the rights alone.
LEMMA SaveStep ==
    ASSUME IInv, NEW p \in Procs, NEW r \in Records, NEW l \in Targets, Save(p, r, l),
           UNCHANGED <<rec, gate, captured, requests, told, paidout, stale, clears, entry, pauses,
                       owed>>,
           events' \in Nat, replays' \in Nat, faults' \in Nat,
           claim' \in {"none", "crypto", "coupon", "coupon_gated", "coupon_sent"},
           claim' = "coupon_gated" => claim = "coupon_gated",
           l # "send", r.status = "paid" => captured
    PROVE  IInv'
<1>1. /\ Moved(p) /\ proc'[p].pc = "reread" /\ proc'[p].mine = r /\ proc'[p].next = l
  BY SaveMoves DEF IInv
<1>2. ~Armed(proc'[p])
  BY <1>1 DEF Armed
<1>3. /\ requests' + One(Armed(proc'[p])) + One(gate' = Free)
           <= requests + One(Armed(proc[p])) + One(gate = Free)
  BY <1>2 DEF IInv, TypeOK, One
<1>4. gate' \in [by : Procs \cup {"nobody", "coupon"}, order : Orders \cup {NoOrder}]
  BY DEF IInv, TypeOK
<1>5. requests' \in Nat
  BY DEF IInv, TypeOK
<1>. QED BY <1>1, <1>3, <1>4, <1>5, HandlerStep

\* The same when the claim is left alone too: the copy as it is,
LEMMA SaveMine ==
    ASSUME IInv, NEW p \in Procs, NEW l \in Targets, Save(p, Mine(p), l), l # "send",
           UNCHANGED <<rec, gate, claim, captured, requests, told, paidout, stale, clears, entry,
                       pauses, owed, events, replays, faults>>
    PROVE  IInv'
<1>1. Mine(p) \in Records
  BY Copies DEF IInv
<1>2. Mine(p).status = "paid" => captured
  BY DEF IInv, PaidIsCaptured, Mine
<1>3. /\ events' \in Nat /\ replays' \in Nat /\ faults' \in Nat
      /\ claim' \in {"none", "crypto", "coupon", "coupon_gated", "coupon_sent"}
  BY DEF IInv, TypeOK
<1>. QED BY <1>1, <1>2, <1>3, SaveStep

\* and with another status.
LEMMA SaveStatus ==
    ASSUME IInv, NEW p \in Procs, NEW l \in Targets, NEW s \in Statuses,
           Save(p, [Mine(p) EXCEPT !.status = s], l), l # "send", s = "paid" => captured,
           UNCHANGED <<rec, gate, claim, captured, requests, told, paidout, stale, clears, entry,
                       pauses, owed, events, replays, faults>>
    PROVE  IInv'
<1>1. [Mine(p) EXCEPT !.status = s] \in Records /\ [Mine(p) EXCEPT !.status = s].status = s
  BY Copies DEF IInv
<1>2. /\ events' \in Nat /\ replays' \in Nat /\ faults' \in Nat
      /\ claim' \in {"none", "crypto", "coupon", "coupon_gated", "coupon_sent"}
  BY DEF IInv, TypeOK
<1>. QED BY <1>1, <1>2, SaveStep

\* A handler goes on, without the gate.
LEMMA GoStep ==
    ASSUME IInv, NEW p \in Procs, NEW l \in {"claim", "acquire"}, Go(p, l),
           claim' \in {"none", "crypto", "coupon", "coupon_gated", "coupon_sent"},
           claim' = "coupon_gated" => claim = "coupon_gated",
           UNCHANGED <<rec, gate, captured, requests, told, paidout, stale, clears, entry,
                       pauses, owed, events, replays, faults>>
    PROVE  IInv'
<1>1. Moved(p) /\ proc'[p] = [proc[p] EXCEPT !.pc = l]
  BY GoMoves DEF IInv, Steps
<1>2. proc'[p].pc = l /\ proc'[p].mine = Mine(p)
  BY <1>1, Copies DEF IInv, Handlers, Mine
<1>3. One(Armed(proc'[p])) = 0 /\ One(Armed(proc[p])) \in {0, 1}
  BY <1>2 DEF Armed, One
<1>4. Mine(p).status = "paid" => captured
  BY DEF IInv, PaidIsCaptured, Mine
<1>5. /\ events' \in Nat /\ replays' \in Nat /\ faults' \in Nat /\ requests' \in Nat
      /\ gate' \in [by : Procs \cup {"nobody", "coupon"}, order : Orders \cup {NoOrder}]
  BY DEF IInv, TypeOK
<1>6. requests' + One(Armed(proc'[p])) + One(gate' = Free)
        <= requests + One(Armed(proc[p])) + One(gate = Free)
  BY <1>3, <1>5 DEF One
<1>. QED BY <1>1, <1>2, <1>4, <1>5, <1>6, HandlerStep

\* A handler that ends, by itself or not, holds no right and says nothing.
LEMMA ReadyIs == Ready.pc = "idle" /\ Ready.mine.status # "paid" /\ ~Armed(Ready)
BY DEF Ready, EmptyRecord, Armed

\* A handler ends and nothing else but a count of failures changes.
LEMMA LeaveStep ==
    ASSUME IInv, NEW p \in Procs, Leave(p), faults' \in Nat,
           UNCHANGED <<rec, gate, claim, captured, requests, told, paidout, stale, clears, entry,
                       pauses, owed, events, replays>>
    PROVE  IInv'
<1>1. Moved(p) /\ proc'[p] = Ready
  BY LeaveMoves DEF IInv
<1>2. /\ events' \in Nat /\ replays' \in Nat /\ requests' \in Nat
      /\ claim' \in {"none", "crypto", "coupon", "coupon_gated", "coupon_sent"}
      /\ gate' \in [by : Procs \cup {"nobody", "coupon"}, order : Orders \cup {NoOrder}]
  BY DEF IInv, TypeOK
<1>3. requests' + One(Armed(proc'[p])) + One(gate' = Free)
        <= requests + One(Armed(proc[p])) + One(gate = Free)
  BY <1>1, <1>2, ReadyIs DEF One
<1>. QED BY <1>1, <1>2, <1>3, ReadyIs, HandlerStep

\* The statuses and steps the actions name.
LEMMA Named ==
    /\ {"paid", "capture_pending", "manual_review", "failed_pay_invoice",
        "claimed_by_other_channel", "order_binding_failed", "failed_insufficient_balance",
        "paying"} \subseteq Statuses
    /\ {"end", "park", "report", "send"} \subseteq Targets
BY DEF Statuses, PrePay, Terminal, Targets

-----------------------------------------------------------------------------
(* The webhook.                                                            *)

LEMMA GatesStep ==
    ASSUME IInv, NEW p \in Procs, Gates(p)
    PROVE  IInv'
<1>1. /\ UNCHANGED <<rec, gate, claim, captured, requests, told, paidout, stale, clears, entry,
                     pauses, owed, events, replays, faults>>
      /\ claim' \in {"none", "crypto", "coupon", "coupon_gated", "coupon_sent"}
  BY DEF Gates, world, history, IInv, TypeOK
<1>2. CASE Paused(p)
  BY <1>1, <1>2, SaveMine, Named DEF Paused, Park
<1>3. CASE BindingFails(p)
  BY <1>1, <1>3, SaveMine, SaveStatus, Named DEF BindingFails
<1>4. CASE ShortBalance(p) \/ OverCap(p)
  <2>1. [Mine(p) EXCEPT !.status = @] = Mine(p)
    BY Copies DEF IInv, Records
  <2>2. \/ Save(p, Mine(p), "end")
        \/ Save(p, [Mine(p) EXCEPT !.status = "failed_insufficient_balance"], "end")
    <3>1. CASE proc[p].ev = "payin"
      BY <1>4, <2>1, <3>1 DEF ShortBalance, OverCap
    <3>2. CASE proc[p].ev # "payin"
      BY <1>4, <3>2 DEF ShortBalance, OverCap
    <3>. QED BY <3>1, <3>2
  <2>. QED BY <1>1, <2>2, SaveMine, SaveStatus, Named
<1>5. CASE Go(p, "claim")
  BY <1>1, <1>5, GoStep
<1>. QED BY <1>2, <1>3, <1>4, <1>5 DEF Gates

LEMMA ClaimStep ==
    ASSUME IInv, NEW p \in Procs, Claim(p)
    PROVE  IInv'
<1>1. UNCHANGED <<rec, gate, captured, requests, told, paidout, stale, clears, entry,
                  pauses, owed, events, replays, faults>>
  BY DEF Claim, history
<1>2. CASE claim' = "crypto" /\ Go(p, "acquire")
  BY <1>1, <1>2, GoStep
<1>3. CASE Save(p, [Mine(p) EXCEPT !.status = "claimed_by_other_channel"], "end") /\ UNCHANGED claim
  BY <1>1, <1>3, SaveStatus, Named
<1>. QED BY <1>2, <1>3 DEF Claim

\* The gate goes to one handler, with the right to a request.
LEMMA AcquireStep ==
    ASSUME IInv, NEW p \in Procs, AcquireGate(p)
    PROVE  IInv'
<1>1. UNCHANGED <<rec, claim, captured, requests, told, paidout, stale, clears, entry,
                  pauses, owed, events, replays, faults>>
  BY DEF AcquireGate, history, world
<1>2. CASE gate # Free
  BY <1>1, <1>2, SaveMine, Named DEF AcquireGate
<1>3. CASE gate = Free
  <2>. DEFINE h == [Rest(p, "recheck") EXCEPT !.mine = Mine(p)]
  <2>1. gate' = [by |-> p, order |-> proc[p].order] /\ proc' = [proc EXCEPT ![p] = h]
    BY <1>3 DEF AcquireGate
  <2>2. h \in Handlers /\ h.pc = "recheck" /\ h.mine = Mine(p)
    <3>1. Rest(p, "recheck") \in Handlers /\ Rest(p, "recheck").pc = "recheck"
      BY RestIs DEF IInv, Steps
    <3>. QED BY <3>1, Copies DEF IInv, Handlers
  <2>. HIDE DEF h
  <2>3. Moved(p) /\ proc'[p] = h
    BY <2>1, <2>2 DEF IInv, TypeOK, Moved
  <2>4. gate' # Free
    BY <2>1, CoinbaseConstants DEF Free
  <2>5. ~Armed(proc[p])
    BY DEF AcquireGate, At, Armed
  <2>6. One(Armed(proc'[p])) \in {0, 1} /\ One(Armed(proc[p])) = 0
        /\ One(gate' = Free) = 0 /\ One(gate = Free) = 1
    BY <1>3, <2>4, <2>5 DEF One
  <2>7. /\ events' \in Nat /\ replays' \in Nat /\ faults' \in Nat /\ requests' \in Nat
        /\ claim' \in {"none", "crypto", "coupon", "coupon_gated", "coupon_sent"}
        /\ requests \in Nat
    BY <1>1 DEF IInv, TypeOK
  <2>8. gate' \in [by : Procs \cup {"nobody", "coupon"}, order : Orders \cup {NoOrder}]
    BY <2>1, Copies DEF IInv, Handlers
  <2>9. requests' + One(Armed(proc'[p])) + One(gate' = Free)
          <= requests + One(Armed(proc[p])) + One(gate = Free)
    BY <1>1, <2>6, <2>7
  <2>10. proc'[p].mine.status = "paid" => captured
    BY <2>2, <2>3 DEF IInv, PaidIsCaptured, Mine
  <2>. QED BY <1>1, <2>2, <2>3, <2>7, <2>8, <2>9, <2>10, HandlerStep
<1>. QED BY <1>2, <1>3

\* A handler gives the gate back instead of making its request.
LEMMA ReleaseStep ==
    ASSUME IInv, NEW p \in Procs, Moved(p), Armed(proc[p]), ~Armed(proc'[p]), Release,
           proc'[p].pc \notin {"write", "report"}, proc'[p].mine.status = "paid" => captured,
           faults' \in Nat,
           UNCHANGED <<rec, claim, captured, requests, told, paidout, stale, clears, entry,
                       pauses, owed, events, replays>>
    PROVE  IInv'
<1>1. /\ gate' \in [by : Procs \cup {"nobody", "coupon"}, order : Orders \cup {NoOrder}]
      /\ One(gate' = Free) <= One(gate = Free) + 1
      /\ One(gate' = Free) \in {0, 1} /\ One(gate = Free) \in {0, 1}
  BY ReleaseGives DEF IInv
<1>2. /\ events' \in Nat /\ replays' \in Nat /\ requests' \in Nat /\ requests \in Nat
      /\ claim' \in {"none", "crypto", "coupon", "coupon_gated", "coupon_sent"}
      /\ requests' = requests
  BY DEF IInv, TypeOK
<1>5. requests' + One(Armed(proc'[p])) + One(gate' = Free)
        <= requests + One(Armed(proc[p])) + One(gate = Free)
  BY <1>2 DEF One
<1>. QED BY <1>1, <1>2, <1>5, HandlerStep

LEMMA RecheckStep ==
    ASSUME IInv, NEW p \in Procs, Recheck(p)
    PROVE  IInv'
<1>1. /\ UNCHANGED <<rec, claim, captured, requests, told, paidout, stale, clears, entry,
                     pauses, owed, events, replays, faults>>
      /\ faults' \in Nat
  BY DEF Recheck, history, world, IInv, TypeOK
<1>2. Armed(proc[p])
  BY DEF Recheck, At, Armed
<1>3. Mine(p) \in Records /\ (Mine(p).status = "paid" => captured)
  BY Copies DEF IInv, PaidIsCaptured, Mine
<1>4. CASE Park(p, Mine(p)) /\ Release
  <2>1. Moved(p) /\ proc'[p].pc = "reread" /\ proc'[p].mine = Mine(p) /\ proc'[p].next = "park"
    BY <1>3, <1>4, SaveMoves, Named DEF IInv, Park
  <2>. QED BY <1>1, <1>2, <1>3, <1>4, <2>1, ReleaseStep DEF Armed
<1>5. CASE Save(p, [Mine(p) EXCEPT !.status = "paying"], "send") /\ UNCHANGED gate
  <2>1. [Mine(p) EXCEPT !.status = "paying"] \in Records
        /\ [Mine(p) EXCEPT !.status = "paying"].status = "paying"
    BY Copies, Named DEF IInv
  <2>2. Moved(p) /\ proc'[p].pc = "reread" /\ proc'[p].mine.status = "paying"
    BY <1>5, <2>1, SaveMoves, Named DEF IInv
  <2>3. /\ events' \in Nat /\ replays' \in Nat /\ requests' \in Nat /\ requests \in Nat
        /\ claim' \in {"none", "crypto", "coupon", "coupon_gated", "coupon_sent"}
        /\ gate' \in [by : Procs \cup {"nobody", "coupon"}, order : Orders \cup {NoOrder}]
    BY <1>1, <1>5 DEF IInv, TypeOK
  <2>4. requests' + One(Armed(proc'[p])) + One(gate' = Free)
          <= requests + One(Armed(proc[p])) + One(gate = Free)
    BY <1>1, <1>2, <1>5, <2>3 DEF One
  <2>. QED BY <1>1, <2>2, <2>3, <2>4, HandlerStep
<1>. QED BY <1>4, <1>5 DEF Recheck

LEMMA SaveThrowsStep ==
    ASSUME IInv, NEW p \in Procs, SaveThrows(p)
    PROVE  IInv'
<1>1. /\ UNCHANGED <<rec, claim, captured, requests, told, paidout, stale, clears, entry,
                     pauses, owed, events, replays>>
      /\ faults' \in Nat
  BY DEF SaveThrows, world, IInv, TypeOK
<1>2. Armed(proc[p])
  BY DEF SaveThrows, Armed
<1>3. Moved(p) /\ proc'[p] = Ready
  BY LeaveMoves DEF SaveThrows, IInv
<1>4. Release
  BY DEF SaveThrows
<1>. QED BY <1>1, <1>2, <1>3, <1>4, ReadyIs, ReleaseStep

\* The right is used up.
LEMMA SendStep ==
    ASSUME IInv, NEW p \in Procs, Send(p)
    PROVE  IInv'
<1>1. /\ UNCHANGED <<rec, claim, captured, told, paidout, stale, clears, entry,
                     pauses, owed, events, replays, faults>>
      /\ faults' \in Nat
  BY DEF Send, history, IInv, TypeOK
<1>2. Armed(proc[p])
  BY DEF Send, At, Armed
<1>3. CASE Mine(p).status = "paying"
  <2>1. requests' = requests + 1 /\ Go(p, "calling") /\ UNCHANGED gate
    BY <1>3 DEF Send
  <2>2. Moved(p) /\ proc'[p] = [proc[p] EXCEPT !.pc = "calling"]
    BY <2>1, GoMoves DEF IInv, Steps
  <2>3. proc'[p].pc = "calling" /\ proc'[p].mine = Mine(p)
    BY <2>2, Copies DEF IInv, Handlers, Mine
  <2>4. /\ events' \in Nat /\ replays' \in Nat /\ requests' \in Nat /\ requests \in Nat
        /\ claim' \in {"none", "crypto", "coupon", "coupon_gated", "coupon_sent"}
        /\ gate' \in [by : Procs \cup {"nobody", "coupon"}, order : Orders \cup {NoOrder}]
    BY <1>1, <2>1 DEF IInv, TypeOK
  <2>5. One(Armed(proc'[p])) = 0 /\ One(Armed(proc[p])) = 1
    BY <1>2, <2>3 DEF One, Armed
  <2>6. requests' + One(Armed(proc'[p])) + One(gate' = Free)
          <= requests + One(Armed(proc[p])) + One(gate = Free)
    BY <2>1, <2>4, <2>5 DEF One
  <2>. QED BY <1>1, <1>3, <2>2, <2>3, <2>4, <2>6, HandlerStep
<1>4. CASE Mine(p).status # "paying"
  <2>1. Release /\ Finish(p) /\ UNCHANGED requests
    BY <1>4 DEF Send
  <2>2. Moved(p) /\ proc'[p] = Rest(p, "end")
    BY <2>1, FinishMoves DEF IInv
  <2>3. proc'[p].pc = "end" /\ proc'[p].mine = EmptyRecord
    BY <2>2, RestIs DEF IInv, Steps
  <2>4. ~Armed(proc'[p]) /\ proc'[p].mine.status # "paid"
    BY <2>3 DEF Armed, EmptyRecord
  <2>. QED BY <1>1, <1>2, <2>1, <2>2, <2>3, <2>4, ReleaseStep
<1>. QED BY <1>3, <1>4

LEMMA AnsweredStep ==
    ASSUME IInv, NEW p \in Procs, Answered(p)
    PROVE  IInv'
<1>1. UNCHANGED <<rec, gate, claim, captured, requests, told, paidout, stale, clears, entry,
                  pauses, owed, events, replays, faults>>
  BY DEF Answered, history
<1>. QED BY <1>1, SaveStatus, Named DEF Answered

\* Rozo is told of the settling order of the record.
LEMMA ReportStep ==
    ASSUME IInv, NEW p \in Procs, Report(p)
    PROVE  IInv'
<1>1. /\ UNCHANGED <<rec, gate, claim, captured, requests, paidout, stale, clears, entry,
                     pauses, owed, events, replays, faults>>
  BY DEF Report, history
<1>2. Mine(p) \in Records /\ (Mine(p).status = "paid" => captured)
  BY Copies DEF IInv, PaidIsCaptured, Mine
<1>3. CASE Finish(p) /\ UNCHANGED told
  <2>1. Moved(p) /\ proc'[p] = Rest(p, "end")
    BY <1>3, FinishMoves DEF IInv
  <2>2. proc'[p].pc = "end" /\ proc'[p].mine = EmptyRecord
    BY <2>1, RestIs DEF IInv, Steps
  <2>3. ~Armed(proc'[p]) /\ proc'[p].mine.status # "paid"
    BY <2>2 DEF Armed, EmptyRecord
  <2>4. /\ events' \in Nat /\ replays' \in Nat /\ requests' \in Nat /\ faults' \in Nat
        /\ claim' \in {"none", "crypto", "coupon", "coupon_gated", "coupon_sent"}
        /\ gate' \in [by : Procs \cup {"nobody", "coupon"}, order : Orders \cup {NoOrder}]
    BY <1>1 DEF IInv, TypeOK
  <2>5. requests' + One(Armed(proc'[p])) + One(gate' = Free)
          <= requests + One(Armed(proc[p])) + One(gate = Free)
    BY <1>1, <2>3, <2>4 DEF One
  <2>. QED BY <1>1, <1>3, <2>1, <2>2, <2>3, <2>4, <2>5, HandlerStep
<1>4. CASE Save(p, Mine(p), "end") /\ UNCHANGED told
  BY <1>1, <1>4, SaveMine, Named
<1>5. ASSUME Mine(p).status = "paid", Mine(p).settling # NoOrder,
             told' = told \cup {Mine(p).settling},
             Save(p, [Mine(p) EXCEPT !.reported = TRUE], "end")
      PROVE  IInv'
  <2>. DEFINE r == [Mine(p) EXCEPT !.reported = TRUE]
  <2>1. r \in Records
    BY <1>2 DEF Records
  <2>. HIDE DEF r
  <2>2. Moved(p) /\ proc'[p].pc = "reread" /\ proc'[p].next = "end"
    BY <1>5, <2>1, SaveMoves, Named DEF IInv, r
  <2>3. captured
    BY <1>2, <1>5
  <2>4. Mine(p).settling \in Orders
    BY <1>2, <1>5 DEF Records
  <2>5. TypeOK'
    BY <1>1, <1>5, <2>2, <2>4 DEF IInv, TypeOK, Moved
  <2>6. PaidIsCaptured'
    BY <1>1, <2>3 DEF PaidIsCaptured
  <2>7. Rights'
    <3>1. requests' \in Nat /\ requests = requests'
      BY <1>1 DEF IInv, TypeOK
    <3>2. One(Armed(proc'[p])) = 0 /\ One(Armed(proc[p])) \in {0, 1}
      BY <2>2 DEF Armed, One
    <3>3. requests' + One(Armed(proc'[p])) + One(gate' = Free)
            <= requests + One(Armed(proc[p])) + One(gate = Free)
      BY <1>1, <3>1, <3>2 DEF One
    <3>. QED BY <1>1, <2>2, <3>1, <3>3, RightsKept
  <2>8. OneSettles'
    <3>1. ~stale => Mine(p).settling = rec.settling
      BY <1>5 DEF IInv, OneSettles, SettlingAgrees, Report, At, Mine
    <3>2. ~stale => told' \subseteq {rec.settling} \ {NoOrder}
      BY <1>5, <3>1 DEF IInv, OneSettles
    <3>3. \A q \in Procs : proc'[q].pc \in {"write", "report"} => proc'[q] = proc[q]
      BY <2>2 DEF Moved
    <3>. QED BY <1>1, <3>2, <3>3 DEF IInv, OneSettles, SettlingAgrees
  <2>9. Indexed'
    BY <1>1 DEF IInv, Indexed, RefusedStaysIndexed
  <2>. QED BY <2>5, <2>6, <2>7, <2>8, <2>9 DEF IInv
<1>. QED BY <1>3, <1>4, <1>5 DEF Report

-----------------------------------------------------------------------------
(* The index of paused deliveries.                                         *)

\* A handler that leaves while the index changes.
LEMMA LeaveIndexed ==
    ASSUME IInv, NEW p \in Procs, Leave(p), Indexed',
           entry' \in Nat, pauses' \in Nat, owed' \in BOOLEAN,
           UNCHANGED <<rec, gate, claim, captured, requests, told, paidout, stale, clears,
                       events, replays, faults>>
    PROVE  IInv'
<1>1. Moved(p) /\ proc'[p] = Ready
  BY LeaveMoves DEF IInv
<1>2. TypeOK'
  BY <1>1 DEF IInv, TypeOK, Moved
<1>3. PaidIsCaptured' /\ OneSettles'
  BY <1>1, ReadyIs, QuietHandler
<1>4. Rights'
  <2>1. requests' \in Nat
    BY DEF IInv, TypeOK
  <2>2. requests' + One(Armed(proc'[p])) + One(gate' = Free)
          <= requests + One(Armed(proc[p])) + One(gate = Free)
    BY <1>1, <2>1, ReadyIs DEF One
  <2>. QED BY <1>1, <2>1, <2>2, RightsKept
<1>. QED BY <1>2, <1>3, <1>4 DEF IInv

LEMMA RecordPausedStep ==
    ASSUME IInv, NEW p \in Procs, RecordPaused(p)
    PROVE  IInv'
<1>1. /\ UNCHANGED <<rec, gate, claim, captured, requests, told, paidout, stale, clears,
                     events, replays, faults>>
      /\ Leave(p)
  BY DEF RecordPaused, world
<1>2. \/ pauses' = pauses + 1 /\ entry' = pauses + 1 /\ owed' = TRUE
      \/ UNCHANGED <<pauses, entry, owed>>
  BY DEF RecordPaused
<1>3. pauses \in Nat /\ entry \in Nat /\ owed \in BOOLEAN /\ Indexed
  BY DEF IInv, TypeOK
<1>4. Indexed'
  BY <1>2, <1>3 DEF Indexed, RefusedStaysIndexed
<1>5. pauses' \in Nat /\ entry' \in Nat /\ owed' \in BOOLEAN
  <2>1. CASE pauses' = pauses + 1 /\ entry' = pauses + 1 /\ owed' = TRUE
    BY <1>3, <2>1
  <2>2. CASE UNCHANGED <<pauses, entry, owed>>
    BY <1>3, <2>2, Zenon
  <2>. QED BY <1>2, <2>1, <2>2
<1>. QED BY <1>1, <1>4, <1>5, LeaveIndexed

\* A replay clears only the refusal it saw, and then nothing is owed.
LEMMA EndStep ==
    ASSUME IInv, NEW p \in Procs, End(p)
    PROVE  IInv'
<1>1. /\ UNCHANGED <<rec, gate, claim, captured, requests, told, paidout, stale, clears,
                     events, replays, faults>>
      /\ Leave(p)
  BY DEF End, world
<1>2. /\ pauses' = pauses /\ owed' = (owed /\ pauses # proc[p].seen)
      /\ entry' \in {entry, 0} /\ (entry' # entry => entry = proc[p].seen)
  BY DEF End
<1>3. pauses \in Nat /\ entry \in Nat /\ owed' \in BOOLEAN /\ entry \in {0, pauses}
      /\ (owed => entry > 0)
  BY <1>2 DEF IInv, TypeOK, Indexed, RefusedStaysIndexed
<1>4. owed' => entry' > 0
  BY <1>2, <1>3
<1>5. Indexed'
  BY <1>2, <1>3, <1>4 DEF Indexed, RefusedStaysIndexed
<1>. QED BY <1>1, <1>2, <1>3, <1>5, LeaveIndexed

\* A copy of the record with the settling order of an event tracked in it.
LEMMA TrackedIs ==
    ASSUME NEW r \in Records, NEW o \in Orders
    PROVE  Tracked(r, o) \in Records /\ Tracked(r, o).status = r.status
BY DEF Tracked, Records

\* An event or a replay starts on a copy of the record, without the gate.
LEMMA LoadStep ==
    ASSUME IInv, NEW p \in Procs, NEW o \in Orders, NEW ev \in {"payin", "payout", "replay"},
           Load(p, o, ev), events' \in Nat, replays' \in Nat,
           UNCHANGED <<rec, gate, claim, captured, requests, told, paidout, stale, clears, entry,
                       pauses, owed, faults>>
    PROVE  IInv'
<1>. DEFINE r == Tracked(rec, o)
<1>1. r \in Records /\ r.status = rec.status
  BY TrackedIs DEF IInv, TypeOK
<1>2. pauses \in Nat
  BY DEF IInv, TypeOK
<1>. DEFINE H(pc, by, kind, next) == [pc |-> pc, order |-> by, ev |-> kind, mine |-> r,
                                      next |-> next, seen |-> pauses, behind |-> FALSE]
<1>3. \E pc \in {"reread", "gates"}, by \in Orders \cup {NoOrder},
         kind \in {"none", "payin", "payout", "replay"}, next \in {"end", "idle"} :
           proc' = [proc EXCEPT ![p] = H(pc, by, kind, next)]
  <2>1. CASE r.settling # o \/ r.status \in Terminal \cup {"paying"}
    <3>1. proc' = [proc EXCEPT ![p] =
                     H("reread", NoOrder, IF ev = "replay" THEN ev ELSE "none", "end")]
      BY <2>1 DEF Load
    <3>. QED BY <3>1
  <2>2. CASE ~(r.settling # o \/ r.status \in Terminal \cup {"paying"})
    <3>1. proc' = [proc EXCEPT ![p] = H("gates", o, ev, "idle")]
      BY <2>2 DEF Load
    <3>. QED BY <3>1
  <2>. QED BY <2>1, <2>2
<1>4. PICK pc \in {"reread", "gates"}, by \in Orders \cup {NoOrder},
           kind \in {"none", "payin", "payout", "replay"}, next \in {"end", "idle"} :
           proc' = [proc EXCEPT ![p] = H(pc, by, kind, next)]
  BY <1>3
<1>. DEFINE h == H(pc, by, kind, next)
<1>5. h \in Handlers /\ h.pc = pc /\ h.mine = r /\ h.next = next
  BY <1>1, <1>2 DEF Handlers, Steps, Targets
<1>6. proc' = [proc EXCEPT ![p] = h]
  BY <1>4
<1>. HIDE DEF h, H, r
<1>7. Moved(p) /\ proc'[p] = h
  BY <1>5, <1>6 DEF IInv, TypeOK, Moved
<1>8. ~Armed(proc'[p])
  BY <1>5, <1>7 DEF Armed
<1>9. proc'[p].mine.status = "paid" => captured
  BY <1>1, <1>5, <1>7 DEF IInv, PaidIsCaptured
<1>10. /\ requests' \in Nat /\ requests' = requests /\ faults' \in Nat
       /\ claim' \in {"none", "crypto", "coupon", "coupon_gated", "coupon_sent"}
       /\ gate' \in [by : Procs \cup {"nobody", "coupon"}, order : Orders \cup {NoOrder}]
  BY DEF IInv, TypeOK
<1>11. requests' + One(Armed(proc'[p])) + One(gate' = Free)
         <= requests + One(Armed(proc[p])) + One(gate = Free)
  BY <1>8, <1>10 DEF One
<1>12. proc'[p].pc \notin {"write", "report"}
  BY <1>4, <1>5, <1>7
<1>. QED BY <1>7, <1>9, <1>10, <1>11, <1>12, HandlerStep

LEMMA ReceiveStep ==
    ASSUME IInv, NEW p \in Procs, NEW o \in Orders, NEW ev \in {"payin", "payout"},
           Receive(p, o, ev)
    PROVE  IInv'
<1>1. /\ Load(p, o, ev) /\ events' \in Nat /\ replays' \in Nat
      /\ UNCHANGED <<rec, gate, claim, captured, requests, told, paidout, stale, clears, entry,
                     pauses, owed, faults>>
  BY DEF Receive, world, history, IInv, TypeOK
<1>. QED BY <1>1, LoadStep

LEMMA ReplayStep ==
    ASSUME IInv, NEW p \in Procs, Replay(p)
    PROVE  IInv'
<1>1. /\ UNCHANGED <<rec, gate, claim, captured, requests, told, paidout, stale, clears,
                     pauses, events, faults>>
      /\ replays' \in Nat /\ events' \in Nat
  BY DEF Replay, world, IInv, TypeOK
<1>2. CASE rec.status \notin PrePay
  <2>1. entry' = 0 /\ owed' = FALSE /\ UNCHANGED proc
    BY <1>2 DEF Replay
  <2>2. TypeOK'
    BY <1>1, <2>1 DEF IInv, TypeOK
  <2>3. PaidIsCaptured' /\ OneSettles'
    BY <1>1, <2>1 DEF IInv, PaidIsCaptured, OneSettles, SettlingAgrees
  <2>4. Rights'
    BY <1>1, <2>1 DEF IInv, Rights, ArmedProcs
  <2>5. Indexed'
    BY <2>1 DEF Indexed, RefusedStaysIndexed
  <2>. QED BY <2>2, <2>3, <2>4, <2>5 DEF IInv
<1>3. CASE rec.status \in PrePay
  <2>1. PICK o \in paidout : Load(p, o, "replay")
    BY <1>3 DEF Replay
  <2>2. o \in Orders
    BY DEF IInv, TypeOK
  <2>3. UNCHANGED <<entry, owed>>
    BY <1>3 DEF Replay
  <2>. QED BY <1>1, <2>1, <2>2, <2>3, LoadStep
<1>. QED BY <1>2, <1>3

LEMMA DieStep ==
    ASSUME IInv, NEW p \in Procs, Die(p)
    PROVE  IInv'
<1>1. /\ UNCHANGED <<rec, gate, claim, captured, requests, told, paidout, stale, clears, entry,
                     pauses, owed, events, replays>>
      /\ Leave(p) /\ faults' \in Nat
  BY DEF Die, world, IInv, TypeOK
<1>. QED BY <1>1, LeaveStep

-----------------------------------------------------------------------------
(* The sweep.                                                              *)

\* A sweep starts on the record as it is.
LEMMA SweepStep ==
    ASSUME IInv, NEW p \in Procs, Sweep(p)
    PROVE  IInv'
<1>1. UNCHANGED <<rec, gate, claim, captured, requests, told, paidout, stale, clears, entry,
                  pauses, owed, events, replays, faults>>
  BY DEF Sweep, world, history
<1>2. PICK l \in {"confirm", "stuck", "report"} : SweepLoad(p, l)
  BY DEF Sweep
<1>. DEFINE h == [Ready EXCEPT !.pc = l, !.mine = rec]
<1>3. h \in Handlers /\ h.pc = l /\ h.mine = rec
  BY Constants DEF IInv, TypeOK, Handlers, Steps
<1>4. proc' = [proc EXCEPT ![p] = h]
  BY <1>2 DEF SweepLoad
<1>. HIDE DEF h
<1>5. Moved(p) /\ proc'[p] = h
  BY <1>3, <1>4 DEF IInv, TypeOK, Moved
<1>6. TypeOK'
  BY <1>1, <1>5 DEF IInv, TypeOK, Moved
<1>7. PaidIsCaptured'
  BY <1>1, <1>3, <1>5 DEF IInv, PaidIsCaptured, Moved
<1>8. Rights'
  <2>1. ~Armed(proc'[p])
    BY <1>2, <1>3, <1>5 DEF Armed
  <2>2. requests' \in Nat
    BY <1>1 DEF IInv, TypeOK
  <2>3. requests' + One(Armed(proc'[p])) + One(gate' = Free)
          <= requests + One(Armed(proc[p])) + One(gate = Free)
    BY <1>1, <2>1, <2>2 DEF One
  <2>. QED BY <1>1, <1>5, <2>2, <2>3, RightsKept
<1>9. OneSettles'
  <2>1. \A q \in Procs : proc'[q].pc = "write" => proc'[q] = proc[q]
    BY <1>2, <1>3, <1>5 DEF Moved
  <2>2. \A q \in Procs : proc'[q].pc = "report" => proc'[q] = proc[q] \/ proc'[q].mine = rec
    BY <1>3, <1>5 DEF Moved
  <2>. QED BY <1>1, <2>1, <2>2 DEF IInv, OneSettles, SettlingAgrees
<1>10. Indexed'
  BY <1>1 DEF IInv, Indexed, RefusedStaysIndexed
<1>. QED BY <1>6, <1>7, <1>8, <1>9, <1>10 DEF IInv

LEMMA FastConfirmStep ==
    ASSUME IInv, NEW p \in Procs, FastConfirm(p)
    PROVE  IInv'
<1>1. /\ UNCHANGED <<rec, gate, claim, captured, requests, told, paidout, stale, clears, entry,
                     pauses, owed, events, replays, faults>>
      /\ captured /\ Save(p, [rec EXCEPT !.status = "paid"], "report")
  BY DEF FastConfirm, world, history
<1>2. [rec EXCEPT !.status = "paid"] \in Records
  BY Named DEF IInv, TypeOK, Records
<1>3. /\ events' \in Nat /\ replays' \in Nat /\ faults' \in Nat
      /\ claim' \in {"none", "crypto", "coupon", "coupon_gated", "coupon_sent"}
  BY <1>1 DEF IInv, TypeOK
<1>. QED BY <1>1, <1>2, <1>3, SaveStep, Named

LEMMA ConfirmStep ==
    ASSUME IInv, NEW p \in Procs, Confirm(p)
    PROVE  IInv'
<1>1. /\ UNCHANGED <<rec, gate, claim, captured, requests, told, paidout, stale, clears, entry,
                     pauses, owed, events, replays, faults>>
      /\ faults' \in Nat
  BY DEF Confirm, history, IInv, TypeOK
<1>. QED BY <1>1, SaveStatus, LeaveStep, Named DEF Confirm

LEMMA CheckStuckStep ==
    ASSUME IInv, NEW p \in Procs, CheckStuck(p)
    PROVE  IInv'
<1>1. /\ UNCHANGED <<rec, gate, claim, captured, requests, told, paidout, stale, clears, entry,
                     pauses, owed, events, replays, faults>>
      /\ faults' \in Nat
  BY DEF CheckStuck, history, IInv, TypeOK
<1>. QED BY <1>1, SaveStatus, SaveMine, LeaveStep, Named DEF CheckStuck

-----------------------------------------------------------------------------
(* The guarded save.                                                       *)

\* What is written exists, says paid only if one of the two said so, and keeps
\* the settling order that was stored.
LEMMA MergedIs ==
    ASSUME NEW a \in Records, NEW b \in Records, ~a.exists => a.settling = NoOrder
    PROVE  /\ Merged(a, b) \in Records /\ Merged(a, b).exists
           /\ Merged(a, b).status \in {a.status, b.status}
           /\ a.settling # NoOrder => Merged(a, b).settling = a.settling
<1>1. CASE ~a.exists
  BY <1>1 DEF Merged, Records
<1>2. CASE a.exists
  <2>1. Settling(a, b) \in Orders \cup {NoOrder}
    BY DEF Settling, Records
  <2>2. Dups(a, b) \in SUBSET Orders
    BY DEF Dups, Records
  <2>. QED BY <1>2, <2>1, <2>2 DEF Merged, Records, Settling
<1>. QED BY <1>1, <1>2

LEMMA RereadStep ==
    ASSUME IInv, NEW p \in Procs, Reread(p)
    PROVE  IInv'
<1>1. UNCHANGED <<rec, gate, claim, captured, requests, told, paidout, stale, clears, entry,
                  pauses, owed, events, replays, faults>>
  BY DEF Reread, world, history
<1>. DEFINE m == Merged(rec, Mine(p))
<1>2. /\ m \in Records /\ m.exists /\ m.status \in {rec.status, Mine(p).status}
      /\ rec.settling # NoOrder => m.settling = rec.settling
  BY Copies, MergedIs DEF IInv, TypeOK, OneSettles
<1>3. proc' = [proc EXCEPT ![p].pc = "write", ![p].mine = m]
  BY DEF Reread
<1>. HIDE DEF m
<1>4. /\ Moved(p) /\ proc'[p].pc = "write" /\ proc'[p].mine = m /\ proc'[p].next = proc[p].next
  <2>1. proc[p] \in Handlers /\ proc \in [Procs -> Handlers] /\ "write" \in Steps
    BY DEF IInv, TypeOK, Steps
  <2>. DEFINE h == [proc[p] EXCEPT !.pc = "write", !.mine = m]
  <2>2. h \in Handlers /\ h.pc = "write" /\ h.mine = m /\ h.next = proc[p].next
    BY <1>2, <2>1 DEF Handlers
  <2>3. proc' = [proc EXCEPT ![p] = h]
    BY <1>3, <2>1
  <2>. HIDE DEF h
  <2>. QED BY <2>1, <2>2, <2>3 DEF Moved
<1>5. TypeOK'
  BY <1>1, <1>4 DEF IInv, TypeOK, Moved
<1>6. PaidIsCaptured'
  BY <1>1, <1>2, <1>4 DEF IInv, PaidIsCaptured, Moved, Mine
<1>7. Rights'
  <2>1. Armed(proc'[p]) <=> Armed(proc[p])
    BY <1>4 DEF Armed, Reread, At
  <2>2. requests' \in Nat
    BY <1>1 DEF IInv, TypeOK
  <2>3. requests' + One(Armed(proc'[p])) + One(gate' = Free)
          <= requests + One(Armed(proc[p])) + One(gate = Free)
    BY <1>1, <2>1, <2>2 DEF One
  <2>. QED BY <1>1, <1>4, <2>2, <2>3, RightsKept
<1>8. OneSettles'
  <2>1. \A q \in Procs \ {p} : proc'[q] = proc[q]
    BY <1>4 DEF Moved
  <2>2. \A q \in Procs : proc'[q].pc = "write" => proc'[q].mine.exists
    BY <1>2, <1>4, <2>1 DEF IInv, OneSettles
  <2>3. ~stale => \A q \in Procs : SettlingAgrees(proc[q])'
    BY <1>1, <1>2, <1>4, <2>1 DEF IInv, OneSettles, SettlingAgrees
  <2>. QED BY <1>1, <2>2, <2>3 DEF IInv, OneSettles
<1>9. Indexed'
  BY <1>1 DEF IInv, Indexed, RefusedStaysIndexed
<1>. QED BY <1>5, <1>6, <1>7, <1>8, <1>9 DEF IInv

\* What a write does to the handlers: the writer goes on with what it wrote,
\* and whoever is about to write is behind.
LEMMA WriteMoves ==
    ASSUME TypeOK, NEW p \in Procs, Write(p)
    PROVE  /\ proc' \in [Procs -> Handlers]
           /\ proc'[p].pc = proc[p].next
           /\ proc'[p].mine \in {EmptyRecord, Mine(p)}
           /\ proc'[p].pc = "report" => proc'[p].mine = Mine(p)
           /\ \A q \in Procs \ {p} :
                 /\ proc'[q].pc = proc[q].pc /\ proc'[q].next = proc[q].next
                 /\ proc'[q].mine = proc[q].mine
                 /\ proc[q].pc = "write" => proc'[q].behind
<1>1. \A q \in Procs : proc[q] \in Handlers
  BY DEF TypeOK
<1>2. proc[p].next \in Targets /\ Targets \subseteq Steps
  BY <1>1 DEF Handlers, Targets, Steps
<1>3. \A q \in Procs \ {p} : proc'[q] = [proc[q] EXCEPT !.behind = @ \/ proc[q].pc = "write"]
  BY DEF Write
<1>4. \A q \in Procs \ {p} :
         /\ proc'[q] \in Handlers
         /\ proc'[q].pc = proc[q].pc /\ proc'[q].next = proc[q].next
         /\ proc'[q].mine = proc[q].mine
         /\ proc[q].pc = "write" => proc'[q].behind
  <2>. TAKE q \in Procs \ {p}
  <2>. DEFINE b == proc[q].behind \/ proc[q].pc = "write"
  <2>1. proc[q] \in Handlers /\ b \in BOOLEAN /\ (proc[q].pc = "write" => b)
    BY <1>1 DEF Handlers
  <2>2. proc'[q] = [proc[q] EXCEPT !.behind = b]
    BY <1>3
  <2>. HIDE DEF b
  <2>. QED BY <2>1, <2>2 DEF Handlers
<1>5. /\ proc'[p] \in Handlers /\ proc'[p].pc = proc[p].next
      /\ proc'[p].mine \in {EmptyRecord, Mine(p)}
      /\ proc'[p].pc = "report" => proc'[p].mine = Mine(p)
  <2>1. CASE proc[p].next = "idle"
    <3>1. proc'[p] = Ready
      BY <2>1 DEF Write
    <3>. QED BY <2>1, <3>1, Constants DEF Ready
  <2>2. CASE proc[p].next \in {"end", "park"}
    <3>1. proc'[p] = Rest(p, proc[p].next)
      BY <2>2 DEF Write
    <3>2. proc'[p] \in Handlers /\ proc'[p].pc = proc[p].next /\ proc'[p].mine = EmptyRecord
      BY <1>2, <3>1, RestIs
    <3>. QED BY <2>2, <3>2
  <2>3. CASE proc[p].next \notin {"idle", "end", "park"}
    <3>1. proc'[p] = [proc[p] EXCEPT !.pc = proc[p].next, !.behind = FALSE]
      BY <2>3 DEF Write
    <3>. QED BY <1>1, <1>2, <3>1 DEF Handlers, Mine
  <2>. QED BY <2>1, <2>2, <2>3
<1>6. proc' = [q \in Procs |-> proc'[q]]
  BY DEF Write
<1>. QED BY <1>4, <1>5, <1>6

LEMMA WriteStep ==
    ASSUME IInv, NEW p \in Procs, Write(p)
    PROVE  IInv'
<1>1. /\ UNCHANGED <<gate, claim, captured, requests, told, paidout, clears, entry,
                     pauses, owed, events, replays, faults>>
      /\ rec' = Mine(p) /\ stale' = (stale \/ proc[p].behind) /\ proc[p].pc = "write"
  BY DEF Write, At
<1>2. /\ proc' \in [Procs -> Handlers]
      /\ proc'[p].pc = proc[p].next
      /\ proc'[p].mine \in {EmptyRecord, Mine(p)}
      /\ proc'[p].pc = "report" => proc'[p].mine = Mine(p)
      /\ \A q \in Procs \ {p} :
            /\ proc'[q].pc = proc[q].pc /\ proc'[q].next = proc[q].next
            /\ proc'[q].mine = proc[q].mine
            /\ proc[q].pc = "write" => proc'[q].behind
  BY WriteMoves DEF IInv
<1>3. proc[p].next \in Targets /\ Mine(p) \in Records
  BY Copies DEF IInv, Handlers
<1>4. TypeOK'
  <2>1. stale' \in BOOLEAN
    BY <1>1, Copies DEF IInv, TypeOK, Handlers
  <2>. QED BY <1>1, <1>2, <1>3, <2>1 DEF IInv, TypeOK
<1>5. PaidIsCaptured'
  <2>1. Mine(p).status = "paid" => captured
    BY DEF IInv, PaidIsCaptured, Mine
  <2>2. proc'[p].mine.status = "paid" => captured
    BY <1>2, <2>1 DEF EmptyRecord
  <2>. QED BY <1>1, <1>2, <2>1, <2>2 DEF IInv, PaidIsCaptured
<1>6. Rights'
  <2>1. Armed(proc'[p]) <=> Armed(proc[p])
    BY <1>1, <1>2, <1>3 DEF Armed, Targets
  <2>2. \A q \in Procs \ {p} : Armed(proc'[q]) <=> Armed(proc[q])
    BY <1>2 DEF Armed
  <2>3. ArmedProcs' = ArmedProcs
    BY <2>1, <2>2 DEF ArmedProcs
  <2>. QED BY <1>1, <2>3 DEF IInv, Rights
<1>7. OneSettles'
  <2>1. rec'.exists /\ \A q \in Procs : proc'[q].pc = "write" => proc'[q].mine.exists
    BY <1>1, <1>2, <1>3 DEF IInv, OneSettles, Mine, Targets
  <2>2. ASSUME ~stale'
        PROVE  /\ told' \subseteq {rec'.settling} \ {NoOrder}
               /\ \A q \in Procs : SettlingAgrees(proc[q])'
    <3>1. ~stale /\ ~proc[p].behind
      BY <1>1, <2>2
    <3>2. rec.settling # NoOrder => rec'.settling = rec.settling
      BY <1>1, <3>1 DEF IInv, OneSettles, SettlingAgrees, Mine
    <3>3. told \subseteq {rec.settling} \ {NoOrder}
      BY <3>1 DEF IInv, OneSettles
    <3>4. told' \subseteq {rec'.settling} \ {NoOrder}
      BY <1>1, <3>2, <3>3
    <3>5. ASSUME NEW q \in Procs \ {p} PROVE SettlingAgrees(proc[q])'
      <4>1. proc[q].pc = "report" => proc[q].mine.settling \in {NoOrder, rec.settling}
        BY <3>1 DEF IInv, OneSettles, SettlingAgrees
      <4>. QED BY <1>2, <3>2, <4>1 DEF SettlingAgrees
    <3>6. SettlingAgrees(proc[p])'
      BY <1>1, <1>2, <1>3 DEF SettlingAgrees, Targets
    <3>. QED BY <3>4, <3>5, <3>6
  <2>. QED BY <2>1, <2>2 DEF OneSettles
<1>8. Indexed'
  BY <1>1 DEF IInv, Indexed, RefusedStaysIndexed
<1>. QED BY <1>4, <1>5, <1>6, <1>7, <1>8 DEF IInv

-----------------------------------------------------------------------------
(* The administrator, the coupon and the outside.                          *)

\* Nothing but the gate, the claim, the requests and the captured money changes.
LEMMA OutsideStep ==
    ASSUME IInv, UNCHANGED <<rec, proc, entry, pauses, told, events, replays, faults, stale, owed>>,
           gate' \in [by : Procs \cup {"nobody", "coupon"}, order : Orders \cup {NoOrder}],
           claim' \in {"none", "crypto", "coupon", "coupon_gated", "coupon_sent"},
           requests' \in Nat, clears' \in Nat, paidout' \subseteq Orders,
           captured' \in BOOLEAN, captured => captured',
           requests' + One(gate' = Free) + One(claim' = "coupon_gated") + clears
             <= requests + One(gate = Free) + One(claim = "coupon_gated") + clears'
    PROVE  IInv'
<1>1. TypeOK'
  BY DEF IInv, TypeOK
<1>2. PaidIsCaptured' /\ OneSettles'
  BY DEF IInv, PaidIsCaptured, OneSettles, SettlingAgrees
<1>3. Indexed'
  BY DEF IInv, Indexed, RefusedStaysIndexed
<1>4. Rights'
  <2>1. ArmedProcs' = ArmedProcs
    BY DEF ArmedProcs
  <2>2. IsFiniteSet(ArmedProcs)
    BY CoinbaseConstants, FS_Subset DEF ArmedProcs
  <2>3. Cardinality(ArmedProcs) \in Nat
    BY <2>2, FS_CardinalityType
  <2>4. requests + Cardinality(ArmedProcs) + One(gate = Free) + One(claim = "coupon_gated")
          <= 1 + clears
    BY DEF IInv, Rights
  <2>5. /\ One(gate = Free) \in {0, 1} /\ One(gate' = Free) \in {0, 1}
        /\ One(claim = "coupon_gated") \in {0, 1} /\ One(claim' = "coupon_gated") \in {0, 1}
        /\ requests \in Nat /\ clears \in Nat
    BY DEF One, IInv, TypeOK
  <2>6. requests' + Cardinality(ArmedProcs) + One(gate' = Free) + One(claim' = "coupon_gated")
          <= 1 + clears'
    BY <2>3, <2>4, <2>5
  <2>. QED BY <2>1, <2>6 DEF Rights, One, Free
<1>. QED BY <1>1, <1>2, <1>3, <1>4 DEF IInv

LEMMA ClearGateStep ==
    ASSUME IInv, ClearGate
    PROVE  IInv'
<1>1. /\ gate # Free /\ gate' = Free /\ clears' = clears + 1
      /\ UNCHANGED <<rec, claim, entry, pauses, proc, captured, requests, paidout, told, events,
                     replays, faults, stale, owed>>
  BY DEF ClearGate, world
<1>2. requests \in Nat /\ clears \in Nat
  BY DEF IInv, TypeOK
<1>3. requests' + One(gate' = Free) + One(claim' = "coupon_gated") + clears
        <= requests + One(gate = Free) + One(claim = "coupon_gated") + clears'
  BY <1>1, <1>2 DEF One
<1>4. gate' \in [by : Procs \cup {"nobody", "coupon"}, order : Orders \cup {NoOrder}]
  BY <1>1 DEF Free
<1>. QED BY <1>1, <1>2, <1>3, <1>4, OutsideStep DEF IInv, TypeOK

LEMMA CouponStep ==
    ASSUME IInv, CouponPays
    PROVE  IInv'
<1>1. UNCHANGED <<rec, entry, pauses, proc, captured, paidout, told, events, replays, clears,
                  faults, stale, owed>>
  BY DEF CouponPays, history
<1>2. requests \in Nat /\ clears \in Nat
      /\ gate \in [by : Procs \cup {"nobody", "coupon"}, order : Orders \cup {NoOrder}]
  BY DEF IInv, TypeOK
<1>3. [by |-> "coupon", order |-> NoOrder] # Free
  BY DEF Free
<1>4. /\ requests' + One(gate' = Free) + One(claim' = "coupon_gated") + clears
           <= requests + One(gate = Free) + One(claim = "coupon_gated") + clears'
      /\ gate' \in [by : Procs \cup {"nobody", "coupon"}, order : Orders \cup {NoOrder}]
      /\ claim' \in {"none", "crypto", "coupon", "coupon_gated", "coupon_sent"}
      /\ requests' \in Nat
  <2>1. CASE claim = "none" /\ claim' = "coupon" /\ UNCHANGED <<gate, requests>>
    BY <1>1, <1>2, <2>1 DEF One
  <2>2. CASE /\ claim = "coupon" /\ gate = Free
             /\ claim' = "coupon_gated" /\ gate' = [by |-> "coupon", order |-> NoOrder]
             /\ UNCHANGED requests
    BY <1>1, <1>2, <1>3, <2>2 DEF One
  <2>3. CASE /\ claim = "coupon_gated" /\ claim' = "coupon_sent" /\ requests' = requests + 1
             /\ UNCHANGED gate
    BY <1>1, <1>2, <2>3 DEF One
  <2>4. CASE /\ claim = "coupon_gated" /\ claim' = "none"
             /\ gate' = IF gate.by = "coupon" THEN Free ELSE gate
             /\ UNCHANGED requests
    BY <1>1, <1>2, <2>4 DEF One, Free
  <2>. QED BY <2>1, <2>2, <2>3, <2>4 DEF CouponPays
<1>. QED BY <1>1, <1>2, <1>4, OutsideStep DEF IInv, TypeOK

LEMMA WorldStep ==
    ASSUME IInv, Capture \/ \E o \in Orders : Payout(o)
    PROVE  IInv'
<1>1. /\ UNCHANGED <<rec, gate, claim, entry, proc, requests, told, pauses, events, replays, clears,
                     faults, stale, owed>>
      /\ captured' \in BOOLEAN /\ (captured => captured') /\ paidout' \subseteq Orders
  BY DEF Capture, Payout, history, IInv, TypeOK
<1>2. /\ requests \in Nat /\ clears \in Nat
      /\ claim' \in {"none", "crypto", "coupon", "coupon_gated", "coupon_sent"}
      /\ gate' \in [by : Procs \cup {"nobody", "coupon"}, order : Orders \cup {NoOrder}]
  BY <1>1 DEF IInv, TypeOK
<1>3. requests' + One(gate' = Free) + One(claim' = "coupon_gated") + clears
        <= requests + One(gate = Free) + One(claim = "coupon_gated") + clears'
  BY <1>1, <1>2 DEF One
<1>. QED BY <1>1, <1>2, <1>3, OutsideStep

-----------------------------------------------------------------------------
(* The invariant and what follows from it.                                 *)

LEMMA InitIInv ==
    ASSUME Init
    PROVE  IInv
<1>1. TypeOK
  BY Constants DEF Init, TypeOK, Free, NoOrder
<1>2. PaidIsCaptured /\ OneSettles
  BY DEF Init, PaidIsCaptured, OneSettles, SettlingAgrees, Ready, EmptyRecord, NoOrder
<1>3. Indexed
  BY DEF Init, Indexed, RefusedStaysIndexed
<1>4. Rights
  <2>1. ArmedProcs = {}
    BY ReadyIs DEF Init, ArmedProcs
  <2>2. Cardinality(ArmedProcs) = 0
    BY <2>1, FS_EmptySet
  <2>3. One(gate = Free) = 1 /\ One(claim = "coupon_gated") = 0 /\ requests = 0 /\ clears = 0
    BY DEF Init, One
  <2>. QED BY <2>2, <2>3 DEF Rights
<1>. QED BY <1>1, <1>2, <1>3, <1>4 DEF IInv

LEMMA NextIInv ==
    ASSUME IInv, [Next]_vars
    PROVE  IInv'
<1>1. CASE UNCHANGED vars
  <2>1. UNCHANGED <<rec, gate, claim, entry, pauses, proc, captured, requests, paidout, told,
                    events, replays, clears, faults, stale, owed>>
    BY <1>1 DEF vars, world, history
  <2>2. requests \in Nat /\ clears \in Nat
    BY DEF IInv, TypeOK
  <2>3. requests' + One(gate' = Free) + One(claim' = "coupon_gated") + clears
          <= requests + One(gate = Free) + One(claim = "coupon_gated") + clears'
    BY <2>1, <2>2 DEF One
  <2>. QED BY <2>1, <2>3, OutsideStep DEF IInv, TypeOK
<1>2. ASSUME NEW p \in Procs, Settle(p) PROVE IInv'
  BY <1>2, GatesStep, ClaimStep, AcquireStep, RecheckStep, SendStep, AnsweredStep, ReportStep,
     RecordPausedStep, EndStep, RereadStep, WriteStep DEF Settle
<1>3. ASSUME NEW p \in Procs,
             SaveThrows(p) \/ Replay(p) \/ Die(p) \/ Sweep(p) \/ FastConfirm(p) \/ Confirm(p)
               \/ CheckStuck(p)
      PROVE  IInv'
  BY <1>3, SaveThrowsStep, ReplayStep, DieStep, SweepStep, FastConfirmStep, ConfirmStep,
     CheckStuckStep
<1>4. ASSUME NEW p \in Procs, NEW o \in Orders, NEW ev \in {"payin", "payout"}, Receive(p, o, ev)
      PROVE  IInv'
  BY <1>4, ReceiveStep
<1>5. CASE ClearGate \/ CouponPays \/ Capture \/ \E o \in Orders : Payout(o)
  BY <1>5, ClearGateStep, CouponStep, WorldStep
<1>. QED BY <1>1, <1>2, <1>3, <1>4, <1>5 DEF Next

\* The inductive invariant holds.
THEOREM Invariant == Spec => []IInv
<1>1. Init => IInv
  BY InitIInv
<1>2. IInv /\ [Next]_vars => IInv'
  BY NextIInv
<1>. QED BY <1>1, <1>2, PTL DEF Spec

\* The record, the gate, the claim, the index and the handlers keep their types.
THEOREM TypeCorrect == Spec => []TypeOK
<1>1. IInv => TypeOK
  BY DEF IInv
<1>. QED BY <1>1, Invariant, PTL

\* Webhook, replay and coupon together make one pay-invoice request for a link
\* and clearing of its gate, and one order is told that it was delivered: however
\* many handlers run, and whatever copies of the record they write back.
THEOREM PaidByOneHolds == Spec => []PaidByOne
<1>1. IInv => PaidByOne
  <2>. SUFFICES ASSUME IInv PROVE PaidByOne
    OBVIOUS
  <2>1. OneRequest
    <3>1. IsFiniteSet(ArmedProcs)
      BY CoinbaseConstants, FS_Subset DEF ArmedProcs
    <3>2. Cardinality(ArmedProcs) \in Nat
      BY <3>1, FS_CardinalityType
    <3>3. /\ One(gate = Free) \in {0, 1} /\ One(claim = "coupon_gated") \in {0, 1}
          /\ requests \in Nat /\ clears \in Nat
      BY DEF One, IInv, TypeOK
    <3>. QED BY <3>2, <3>3 DEF IInv, Rights, OneRequest
  <2>2. told # {} => captured
    BY DEF IInv, PaidIsCaptured
  <2>3. ~stale => Cardinality(told) <= 1
    <3>1. ASSUME ~stale PROVE told \subseteq {rec.settling}
      BY <3>1 DEF IInv, OneSettles
    <3>2. IsFiniteSet({rec.settling}) /\ Cardinality({rec.settling}) = 1
      BY FS_Singleton
    <3>. QED BY <3>1, <3>2, FS_Subset
  <2>. QED BY <2>1, <2>2, <2>3 DEF PaidByOne, OneDelivered
<1>. QED BY <1>1, Invariant, PTL

\* A delivery the switch refused stays in the index until it is driven again.
THEOREM RefusedStaysIndexedHolds == Spec => []RefusedStaysIndexed
<1>1. IInv => RefusedStaysIndexed
  BY DEF IInv, Indexed
<1>. QED BY <1>1, Invariant, PTL

-----------------------------------------------------------------------------
(* Stripe invoices: sets whose members are counted.                        *)

\* The instance counts as this module does.
LEMMA StripeCardinality == \A S : Stripe!Cardinality(S) = Cardinality(S)
BY DEF Stripe!Cardinality, Cardinality

\* One element less, one in exchange, one more.
LEMMA StripeCountShrinks ==
    ASSUME NEW S, NEW T, IsFiniteSet(S), NEW x \in S, T \subseteq S \ {x}
    PROVE  IsFiniteSet(T) /\ Cardinality(T) \in Nat /\ Cardinality(S) \in Nat
           /\ Cardinality(T) + 1 <= Cardinality(S)
<1>1. IsFiniteSet(S \ {x}) /\ Cardinality(S \ {x}) = Cardinality(S) - 1
  BY FS_RemoveElement
<1>2. T \in SUBSET (S \ {x})
  OBVIOUS
<1>3. IsFiniteSet(T) /\ Cardinality(T) <= Cardinality(S \ {x})
  BY <1>1, <1>2, FS_Subset
<1>. QED BY <1>1, <1>3, FS_CardinalityType

LEMMA StripeCountGrows ==
    ASSUME NEW S, NEW T, IsFiniteSet(S), NEW x, T \subseteq S \cup {x}
    PROVE  IsFiniteSet(T) /\ Cardinality(T) \in Nat /\ Cardinality(S) \in Nat
           /\ Cardinality(T) <= Cardinality(S) + 1
<1>1. IsFiniteSet(S \cup {x}) /\ Cardinality(S) \in Nat /\ Cardinality(S \cup {x}) <= Cardinality(S) + 1
  <2>1. Cardinality(S) \in Nat
    BY FS_CardinalityType
  <2>2. /\ IsFiniteSet(S \cup {x})
        /\ Cardinality(S \cup {x}) = IF x \in S THEN Cardinality(S) ELSE Cardinality(S) + 1
    BY FS_AddElement
  <2>3. CASE x \in S
    BY <2>1, <2>2, <2>3
  <2>4. CASE x \notin S
    BY <2>1, <2>2, <2>4
  <2>. QED BY <2>3, <2>4
<1>2. T \in SUBSET (S \cup {x})
  OBVIOUS
<1>3. IsFiniteSet(T) /\ Cardinality(T) <= Cardinality(S \cup {x})
  BY <1>1, <1>2, FS_Subset
<1>. QED BY <1>1, <1>3, FS_CardinalityType

LEMMA StripeCountMoves ==
    ASSUME NEW S, NEW T, IsFiniteSet(S), NEW x \in S, NEW y, T \subseteq (S \ {x}) \cup {y}
    PROVE  IsFiniteSet(T) /\ Cardinality(T) \in Nat /\ Cardinality(S) \in Nat
           /\ Cardinality(T) <= Cardinality(S)
<1>1. IsFiniteSet(S \ {x}) /\ Cardinality(S \ {x}) = Cardinality(S) - 1 /\ Cardinality(S) \in Nat
  BY FS_RemoveElement, FS_CardinalityType
<1>2. IsFiniteSet(T) /\ Cardinality(T) \in Nat /\ Cardinality(T) <= Cardinality(S \ {x}) + 1
  BY <1>1, StripeCountGrows
<1>. QED BY <1>1, <1>2

LEMMA StripeCountSwaps ==
    ASSUME NEW S, NEW T, IsFiniteSet(S), \E u \in S : \E v : T \subseteq (S \ {u}) \cup {v}
    PROVE  IsFiniteSet(T) /\ Cardinality(T) \in Nat /\ Cardinality(S) \in Nat
           /\ Cardinality(T) <= Cardinality(S)
BY StripeCountMoves

LEMMA StripeCountStays ==
    ASSUME NEW S, NEW T, IsFiniteSet(S), T \subseteq S
    PROVE  IsFiniteSet(T) /\ Cardinality(T) \in Nat /\ Cardinality(S) \in Nat
           /\ Cardinality(T) <= Cardinality(S)
<1>1. T \in SUBSET S
  OBVIOUS
<1>2. IsFiniteSet(T) /\ Cardinality(T) <= Cardinality(S)
  BY <1>1, FS_Subset
<1>. QED BY <1>2, FS_CardinalityType

\* What is tagged is as finite as the set it is taken from.
LEMMA StripeTaggedFinite ==
    ASSUME NEW x, NEW S, IsFiniteSet(S) PROVE IsFiniteSet({x} \X S)
<1>. DEFINE f == [s \in S |-> <<x, s>>]
<1>1. f \in Surjection(S, {x} \X S)
  <2>1. f \in [S -> {x} \X S]
    OBVIOUS
  <2>2. ASSUME NEW t \in {x} \X S PROVE \E s \in S : f[s] = t
    <3>1. t[2] \in S /\ t = <<x, t[2]>>
      OBVIOUS
    <3>. QED BY <3>1
  <2>. QED BY <2>1, <2>2 DEF Surjection
<1>. QED BY <1>1, FS_Surjection

LEMMA StripeMarkedFinite ==
    ASSUME NEW x, NEW S, IsFiniteSet(S) PROVE IsFiniteSet(S \X {x})
<1>. DEFINE f == [s \in S |-> <<s, x>>]
<1>1. f \in Surjection(S, S \X {x})
  <2>1. f \in [S -> S \X {x}]
    OBVIOUS
  <2>2. ASSUME NEW t \in S \X {x} PROVE \E s \in S : f[s] = t
    <3>1. t[1] \in S /\ t = <<t[1], x>>
      OBVIOUS
    <3>. QED BY <3>1
  <2>. QED BY <2>1, <2>2 DEF Surjection
<1>. QED BY <1>1, FS_Surjection

LEMMA StripeCountedFinite ==
    ASSUME Stripe!TypeOK
    PROVE  /\ \A i \in StripeInvoices : IsFiniteSet(Stripe!Rights(i))
              /\ Cardinality(Stripe!Rights(i)) \in Nat
           /\ IsFiniteSet(Stripe!Units) /\ Cardinality(Stripe!Units) \in Nat
<1>1. IsFiniteSet(StripeInvoices) /\ IsFiniteSet(StripeHandlers)
  BY StripeConstants
<1>2. ASSUME NEW S \in SUBSET StripeHandlers PROVE IsFiniteSet({"call"} \X S)
             /\ IsFiniteSet({"refund"} \X S)
  <2>1. IsFiniteSet(S)
    BY <1>1, FS_Subset
  <2>. QED BY <2>1, StripeTaggedFinite
<1>3. ASSUME NEW i \in StripeInvoices, NEW x PROVE IsFiniteSet({x} \X (1 .. stripePermits[i]))
  <2>1. IsFiniteSet(1 .. stripePermits[i])
    BY FS_Interval DEF Stripe!TypeOK
  <2>. QED BY <2>1, StripeTaggedFinite
<1>4. ASSUME NEW i \in StripeInvoices PROVE IsFiniteSet(Stripe!Rights(i))
  <2>. DEFINE P == {"permit"} \X (1 .. stripePermits[i])
  <2>. DEFINE E == {"call"} \X Stripe!Executing(i)
  <2>. DEFINE T == {t \in {<<"token", i>>} : Stripe!MaySign(i)}
  <2>1. IsFiniteSet(P) /\ IsFiniteSet(E)
    BY <1>2, <1>3 DEF Stripe!Executing
  <2>2. IsFiniteSet(T)
    <3>1. T \in SUBSET {<<"token", i>>} /\ IsFiniteSet({<<"token", i>>})
      BY FS_Singleton
    <3>. QED BY <3>1, FS_Subset
  <2>3. Stripe!Rights(i) = (P \cup E) \cup T
    BY DEF Stripe!Rights
  <2>. HIDE DEF P, E, T
  <2>. QED BY <2>1, <2>2, <2>3, FS_Union
<1>5. IsFiniteSet(Stripe!Signed)
  <2>. DEFINE F == [i \in StripeInvoices |-> {i} \X (1 .. stripePermits[i])]
  <2>. DEFINE R == {{i} \X (1 .. stripePermits[i]) : i \in StripeInvoices}
  <2>1. F \in [StripeInvoices -> R] /\ \A i \in StripeInvoices : F[i] = {i} \X (1 .. stripePermits[i])
    OBVIOUS
  <2>2. \A t \in R : \E i \in StripeInvoices : F[i] = t
    BY <2>1
  <2>3. F \in Surjection(StripeInvoices, R)
    BY <2>1, <2>2 DEF Surjection
  <2>4. \A S \in R : IsFiniteSet(S)
    <3>1. SUFFICES ASSUME NEW i \in StripeInvoices PROVE IsFiniteSet({i} \X (1 .. stripePermits[i]))
      BY Zenon
    <3>. QED BY <1>3
  <2>. HIDE DEF F, R
  <2>5. IsFiniteSet(R)
    BY <1>1, <2>3, FS_Surjection
  <2>6. IsFiniteSet(UNION R)
    BY <2>4, <2>5, FS_UNION
  <2>. QED BY <2>6 DEF Stripe!Signed, R
<1>6. IsFiniteSet(Stripe!Units)
  <2>. DEFINE E == {"call"} \X Stripe!Calls
  <2>. DEFINE D == {"refund"} \X Stripe!Refunds
  <2>. DEFINE O == {"owed"} \X Stripe!Debts
  <2>1. IsFiniteSet(E) /\ IsFiniteSet(D)
    BY <1>2 DEF Stripe!Calls, Stripe!Refunds
  <2>2. IsFiniteSet(O)
    <3>1. IsFiniteSet(Stripe!Debts)
      BY <1>1, FS_Subset DEF Stripe!Debts
    <3>. QED BY <3>1, StripeTaggedFinite
  <2>3. Stripe!Units = Stripe!Signed \cup (((E \cup D) \cup O) \X {0})
    BY DEF Stripe!Units, Stripe!UnitsOf
  <2>. HIDE DEF E, D, O
  <2>4. IsFiniteSet(E \cup D)
    BY <2>1, FS_Union
  <2>5. IsFiniteSet((E \cup D) \cup O)
    BY <2>2, <2>4, FS_Union
  <2>6. IsFiniteSet(((E \cup D) \cup O) \X {0})
    BY <2>5, StripeMarkedFinite
  <2>. QED BY <1>5, <2>3, <2>6, FS_Union
<1>. QED BY <1>4, <1>6, FS_CardinalityType

-----------------------------------------------------------------------------
(* What the invariant gives a step.                                        *)

LEMMA StripeKnown0 ==
    ASSUME Stripe!IInv
    PROVE  /\ Stripe!TypeOK /\ stripeProc \in [StripeHandlers -> Stripe!Locals]
              /\ stripeRec \in [Stripe!Known -> Stripe!Records]
           /\ stripePermits \in [StripeInvoices -> Nat]
              /\ stripeChannel \in [StripeInvoices -> {"none", "crypto", "upi"}]
           /\ stripeReq \in [StripeHandlers -> [inv : StripeInvoices, st : Stripe!Answers]]
           /\ stripeSpent \in Nat /\ stripeSlips \in Nat /\ stripeRushed \in Nat
              /\ stripeMisread \in BOOLEAN /\ stripeFaults \in Nat
           /\ stripeSess \in [StripeInvoices -> Stripe!Sessions]
              /\ stripePulled \subseteq Stripe!Known /\ stripeTold \subseteq StripeInvoices
           /\ \A p \in StripeHandlers : stripeProc[p] \in Stripe!Locals
              /\ Stripe!Inv(p) \in StripeInvoices /\ Stripe!Own(p)
           /\ \A i \in StripeInvoices : stripeRec[i] \in Stripe!Records /\ Stripe!Crypto(i)
              /\ Cardinality(Stripe!Rights(i)) <= 1 + stripeRushed
           /\ Cardinality(Stripe!Units) <= stripeSpent + stripeSlips + stripeRushed
           /\ \A s \in StripeSiblings : Stripe!Elsewhere(s) /\ stripeRec[s] \in Stripe!Records
           /\ Stripe!PaidWasPulled
           /\ stripeMisread \/ \A o \in Stripe!Known : stripeRec[o].verified \in {o, "none"}
BY StripeCardinality DEF Stripe!IInv, Stripe!TypeOK, Stripe!Known, Stripe!Inv, Stripe!Locals

LEMMA StripeLocalFacts ==
    ASSUME NEW r \in Stripe!Locals
    PROVE  /\ r.pc \in Stripe!Steps /\ r.inv \in StripeInvoices
           /\ r.ev \in {"none", "payin", "payout", "other"} \cup Stripe!InFlight
           /\ r.to \in Stripe!Outcomes
           /\ r.live \in Stripe!Sessions \cup {"none", "error"} /\ r.reserved \in BOOLEAN
              /\ r.started \in BOOLEAN
           /\ r.retries \in Nat /\ r.ambig \in Nat /\ r.caught \in BOOLEAN
BY DEF Stripe!Locals

LEMMA StripeRecordFacts ==
    ASSUME NEW r \in Stripe!Records
    PROVE  /\ r.status \in Stripe!Statuses /\ r.locked \in BOOLEAN /\ r.retries \in Nat
              /\ r.gone \in Nat
           /\ r.ambig \in Nat /\ r.unsigned \in BOOLEAN /\ r.bound \in BOOLEAN
           /\ r.verified \in Stripe!Known \cup {"none"}
BY DEF Stripe!Records

\* A record takes another status, and no other change.
LEMMA StripeRecordSteps ==
    ASSUME NEW r \in Stripe!Records, NEW s \in Stripe!Statuses
    PROVE  LET q == [r EXCEPT !.status = s] IN
           /\ q \in Stripe!Records /\ q.status = s /\ q.locked = r.locked /\ q.retries = r.retries
           /\ q.ambig = r.ambig /\ q.unsigned = r.unsigned /\ q.bound = r.bound
              /\ q.verified = r.verified
BY DEF Stripe!Records

LEMMA StripeIdleFacts ==
    /\ Stripe!Idle \in Stripe!Locals /\ Stripe!Idle.pc = "idle"
       /\ Stripe!Idle.inv \in StripeInvoices /\ Stripe!Idle.reserved = FALSE
    /\ Stripe!Idle.started = FALSE /\ Stripe!Idle.caught = FALSE /\ Stripe!Idle.ev = "none"
       /\ Stripe!Idle.live = "none"
    /\ Stripe!Idle.ambig = 0 /\ Stripe!Idle.retries = 0
       /\ Stripe!Idle.to = "none"
<1>1. PICK i \in StripeInvoices : i = CHOOSE j \in StripeInvoices : TRUE
  BY StripeConstants
<1>2. Stripe!Idle = [pc |-> "idle", inv |-> i, ev |-> "none", to |-> "none",
                     live |-> "none", reserved |-> FALSE, started |-> FALSE, retries |-> 0,
                     ambig |-> 0,
                     caught |-> FALSE]
  BY <1>1 DEF Stripe!Idle
<1>. QED BY <1>2 DEF Stripe!Locals, Stripe!Steps, Stripe!Outcomes

\* A handler that goes on at l with nothing remembered but its invoice.
LEMMA StripeOnFacts ==
    ASSUME NEW p \in StripeHandlers, stripeProc[p] \in Stripe!Locals, NEW l \in Stripe!Steps
    PROVE  LET r == Stripe!On(p, l) IN
           /\ r \in Stripe!Locals /\ r.pc = l /\ r.inv = Stripe!Inv(p) /\ r.reserved = FALSE
              /\ r.started = FALSE
           /\ r.caught = FALSE /\ r.ev = "none" /\ r.live = "none" /\ r.ambig = 0
<1>. DEFINE r == Stripe!On(p, l)
<1>1. r = [Stripe!Idle EXCEPT !.pc = l, !.inv = stripeProc[p].inv]
      /\ stripeProc[p].inv \in StripeInvoices
  BY StripeLocalFacts DEF Stripe!On
<1>2. r \in Stripe!Locals /\ r.pc = l /\ r.inv = stripeProc[p].inv /\ r.reserved = FALSE
      /\ r.started = FALSE
      /\ r.caught = FALSE /\ r.ev = "none" /\ r.live = "none" /\ r.ambig = 0
  BY <1>1, StripeIdleFacts DEF Stripe!Locals
<1>. QED BY <1>2 DEF Stripe!Inv

\* The handlers that take no step keep what the invariant says of them.
LEMMA StripeOwnKept ==
    ASSUME Stripe!IInv, Stripe!TypeOK', NEW q \in StripeHandlers, NEW i \in StripeInvoices,
           Stripe!Inv(q) = i,
           stripeProc'[q] = stripeProc[q], stripeReq'[q] = stripeReq[q], Stripe!Newer(i),
           stripeChannel[i] # "none" => stripeChannel'[i] = stripeChannel[i],
           \A k \in StripeInvoices : stripePermits[k] <= stripePermits'[k],
           stripePulled \subseteq stripePulled',
           Stripe!Ambiguous(i)' /\ Stripe!Clear(i) => Stripe!Clear(i)',
           Stripe!Holds(q) => stripeRec'[i].status \in Stripe!Stay
           /\ \A o \in StripeHandlers : Stripe!Holds(o)' /\ Stripe!Inv(o)' = i => o = q
    PROVE  Stripe!Own(q)'
<1>. USE StripeKnown0
<1>1. Stripe!Own(q) /\ stripeProc[q] \in Stripe!Locals /\ stripeRec[i] \in Stripe!Records
      /\ stripeRec'[i] \in Stripe!Records /\ Stripe!Inv(q)' = i
  BY DEF Stripe!TypeOK, Stripe!Known, Stripe!Inv
<1>2. stripeRec[i].ambig \in Nat /\ stripeRec'[i].ambig \in Nat /\ stripeProc[q].ambig \in Nat
  BY <1>1, StripeLocalFacts, StripeRecordFacts
<1>3. Stripe!Claimed(q)'
  BY <1>1 DEF Stripe!Claimed, Stripe!Holds, Stripe!Inv
<1>4. Stripe!Busy(q)'
  <2>1. stripeReq[q].inv \in StripeInvoices /\ stripePermits[stripeReq[q].inv] \in Nat
        /\ stripePermits'[stripeReq[q].inv] \in Nat
        /\ stripePermits[stripeReq[q].inv] <= stripePermits'[stripeReq[q].inv]
    BY DEF Stripe!TypeOK
  <2>2. stripePermits[i] \in Nat /\ stripePermits'[i] \in Nat /\ stripePermits[i] <= stripePermits'[i]
    BY DEF Stripe!TypeOK
  <2>. QED BY <1>1, <2>1, <2>2 DEF Stripe!Own, Stripe!Busy, Stripe!At, Stripe!Inv
<1>5. Stripe!Seen(q)'
  <2>1. Stripe!At(q, "restep") => stripeProc[q].ambig <= stripeRec[i].ambig
    BY <1>1 DEF Stripe!Own, Stripe!Seen, Stripe!Inv
  <2>2. stripeRec[i].ambig <= stripeRec'[i].ambig
    BY DEF Stripe!Newer
  <2>3. Stripe!At(q, "restep")' => stripeProc'[q].ambig <= stripeRec'[i].ambig
    BY <1>2, <2>1, <2>2 DEF Stripe!At
  <2>. QED BY <1>1, <2>3 DEF Stripe!Seen, Stripe!Inv
<1>6. Stripe!Toward(q)'
  BY <1>1 DEF Stripe!Own, Stripe!Toward, Stripe!At, Stripe!Inv
<1>. QED BY <1>3, <1>4, <1>5, <1>6 DEF Stripe!Own

LEMMA StripeMovesType ==
    ASSUME Stripe!IInv, NEW p \in StripeHandlers, NEW i \in Stripe!Known, NEW h \in Stripe!Locals,
           NEW r \in Stripe!Records, Stripe!Moves(p, i, h, r),
           stripeChannel' \in [StripeInvoices -> {"none", "crypto", "upi"}],
           stripeReq' \in [StripeHandlers -> [inv : StripeInvoices, st : Stripe!Answers]],
           stripeSpent' \in Nat, stripeFaults' \in Nat, stripeSlips' \in Nat, stripeRushed' \in Nat
    PROVE  /\ Stripe!TypeOK' /\ stripeProc'[p] = h /\ stripeRec'[i] = r /\ Stripe!Inv(p)' = h.inv
           /\ \A q \in StripeHandlers \ {p} : stripeProc'[q] = stripeProc[q]
              /\ Stripe!Inv(q)' = Stripe!Inv(q)
           /\ \A k \in Stripe!Known \ {i} : stripeRec'[k] = stripeRec[k]
<1>1. stripeProc \in [StripeHandlers -> Stripe!Locals]
      /\ stripeRec \in [Stripe!Known -> Stripe!Records] /\ Stripe!TypeOK
  BY StripeKnown0
<1>2. stripeProc' \in [StripeHandlers -> Stripe!Locals] /\ stripeProc'[p] = h
      /\ \A q \in StripeHandlers \ {p} : stripeProc'[q] = stripeProc[q]
  BY <1>1 DEF Stripe!Moves
<1>3. stripeRec' \in [Stripe!Known -> Stripe!Records] /\ stripeRec'[i] = r
      /\ \A k \in Stripe!Known \ {i} : stripeRec'[k] = stripeRec[k]
  BY <1>1 DEF Stripe!Moves
<1>4. Stripe!TypeOK'
  BY <1>1, <1>2, <1>3 DEF Stripe!Moves, Stripe!TypeOK
<1>. QED BY <1>2, <1>3, <1>4 DEF Stripe!Inv

\* The handlers a step of another leaves alone.
LEMMA StripeMovesOthers ==
    ASSUME Stripe!IInv, NEW p \in StripeHandlers, NEW i \in StripeInvoices, NEW h \in Stripe!Locals,
           NEW r \in Stripe!Records, Stripe!Moves(p, i, h, r),
           Stripe!TypeOK', Stripe!Newer(i),
           Stripe!Ambiguous(i)' /\ Stripe!Clear(i) => Stripe!Clear(i)',
           \A q \in StripeHandlers \ {p} : Stripe!Holds(q) /\ Stripe!Inv(q) = i
           => r.status \in Stripe!Stay /\ ~(Stripe!Holds(p)' /\ h.inv = i)
    PROVE  \A q \in StripeHandlers \ {p} : Stripe!Own(q)'
<1>. SUFFICES ASSUME NEW q \in StripeHandlers \ {p} PROVE Stripe!Own(q)'
  OBVIOUS
<1>. USE StripeKnown0
<1>1. /\ stripeProc \in [StripeHandlers -> Stripe!Locals]
         /\ stripeRec \in [Stripe!Known -> Stripe!Records] /\ Stripe!Inv(q) \in StripeInvoices
            /\ StripeInvoices \subseteq Stripe!Known
      /\ stripePermits \in [StripeInvoices -> Nat]
  BY DEF Stripe!Known
<1>2. /\ stripeProc'[p] = h /\ stripeRec'[i] = r
         /\ \A o \in StripeHandlers \ {p} : stripeProc'[o] = stripeProc[o]
      /\ \A k \in Stripe!Known \ {i} : stripeRec'[k] = stripeRec[k]
  BY <1>1 DEF Stripe!Moves
<1>3. PICK j \in StripeInvoices : j = Stripe!Inv(q)
  BY <1>1
<1>4. Stripe!Newer(j) /\ (Stripe!Ambiguous(j)' /\ Stripe!Clear(j) => Stripe!Clear(j)')
  <2>1. CASE j = i
    BY <2>1
  <2>2. CASE j # i
    <3>1. stripeRec'[j] = stripeRec[j] /\ stripeRec[j] \in Stripe!Records /\ stripeRec[j].ambig \in Nat
      BY <1>1, <1>2, <2>2, StripeRecordFacts
    <3>2. Stripe!Executing(j)' = Stripe!Executing(j) /\ stripePermits' = stripePermits
      BY <2>2 DEF Stripe!Moves
    <3>. QED BY <3>1, <3>2 DEF Stripe!Newer, Stripe!Ambiguous, Stripe!Clear
  <2>. QED BY <2>1, <2>2
<1>5. stripeChannel[j] # "none" => stripeChannel'[j] = stripeChannel[j]
  BY DEF Stripe!Moves
<1>6. \A k \in StripeInvoices : stripePermits[k] <= stripePermits'[k]
  BY <1>1 DEF Stripe!Moves
<1>7. ASSUME Stripe!Holds(q)
      PROVE  stripeRec'[j].status \in Stripe!Stay /\ \A o \in StripeHandlers : Stripe!Holds(o)'
             /\ Stripe!Inv(o)' = j => o = q
  <2>1. stripeRec[j].status \in Stripe!Stay /\ \A o \in StripeHandlers : Stripe!Holds(o)
        /\ Stripe!Inv(o) = j => o = q
    BY <1>3, <1>7 DEF Stripe!Own, Stripe!Claimed
  <2>2. stripeRec'[j].status \in Stripe!Stay /\ ~(Stripe!Holds(p)' /\ Stripe!Inv(p)' = j)
    <3>1. CASE j = i
      BY <1>2, <1>3, <1>7, <3>1 DEF Stripe!Inv
    <3>2. CASE j # i
      <4>1. stripeRec'[j] = stripeRec[j]
        BY <1>1, <1>2, <3>2
      <4>2. h.inv = i \/ h.pc = "idle"
        BY DEF Stripe!Moves
      <4>. QED BY <1>2, <2>1, <3>2, <4>1, <4>2 DEF Stripe!Holds, Stripe!Inv
    <3>. QED BY <3>1, <3>2
  <2>3. ASSUME NEW o \in StripeHandlers, Stripe!Holds(o)', Stripe!Inv(o)' = j PROVE o = q
    <3>1. o # p
      BY <2>2, <2>3
    <3>2. Stripe!Holds(o) /\ Stripe!Inv(o) = j
      BY <1>2, <2>3, <3>1 DEF Stripe!Holds, Stripe!Inv
    <3>. QED BY <2>1, <3>2
  <2>. QED BY <2>2, <2>3
<1>8. stripeProc'[q] = stripeProc[q] /\ stripeReq'[q] = stripeReq[q]
      /\ stripePulled \subseteq stripePulled'
  BY <1>2 DEF Stripe!Moves
<1>. QED BY <1>3, <1>4, <1>5, <1>6, <1>7, <1>8, StripeOwnKept

\* The right to a request: what a step keeps of it.
LEMMA StripeMayFrom ==
    ASSUME Stripe!IInv, Stripe!TypeOK', NEW p \in StripeHandlers, NEW k \in StripeInvoices,
           \A q \in StripeHandlers \ {p} : stripeProc'[q] = stripeProc[q]
           /\ stripeReq'[q] = stripeReq[q],
           Stripe!Newer(k), Stripe!Claimable(k)' => Stripe!MaySign(k),
           Stripe!Inv(p)' = k /\ Stripe!Holds(p)' /\ ~Stripe!Gone(p)' => Stripe!MaySign(k),
           Stripe!Ambiguous(k)' /\ stripeRec[k].ambig < stripeRec'[k].ambig
           /\ stripeRec'[k].unsigned => Stripe!MaySign(k),
           Stripe!Ambiguous(k)' /\ Stripe!Matched(p, k)' => Stripe!MaySign(k)
    PROVE  Stripe!MaySign(k)' => Stripe!MaySign(k)
<1>. SUFFICES ASSUME Stripe!MaySign(k)' PROVE Stripe!MaySign(k)
  OBVIOUS
<1>0. stripeRec[k].ambig \in Nat /\ stripeRec'[k].ambig \in Nat
  BY StripeKnown0, StripeRecordFacts DEF Stripe!TypeOK, Stripe!Known
<1>1. CASE Stripe!Claimable(k)'
  BY <1>1
<1>2. ASSUME NEW q \in StripeHandlers, Stripe!Inv(q)' = k, Stripe!Holds(q)',
~Stripe!Gone(q)' PROVE Stripe!MaySign(k)
  <2>1. CASE q = p
    BY <1>2, <2>1
  <2>2. CASE q # p
    <3>1. Stripe!Inv(q) = k /\ Stripe!Holds(q) /\ ~Stripe!Gone(q)
      BY <1>2, <2>2 DEF Stripe!Inv, Stripe!Holds, Stripe!Gone, Stripe!At
    <3>. QED BY <3>1 DEF Stripe!MaySign
  <2>. QED BY <2>1, <2>2
<1>3. CASE Stripe!Ambiguous(k)' /\ stripeRec'[k].unsigned
  BY <1>3 DEF Stripe!Newer, Stripe!MaySign
<1>4. ASSUME Stripe!Ambiguous(k)', NEW q \in StripeHandlers,
Stripe!Matched(q, k)' PROVE Stripe!MaySign(k)
  <2>1. CASE q = p
    BY <1>4, <2>1
  <2>2. CASE q # p
    <3>1. /\ Stripe!At(q, "restep") /\ Stripe!Inv(q) = k
             /\ stripeProc[q].retries = stripeRec'[k].retries
          /\ stripeProc[q].ambig = stripeRec'[k].ambig
      BY <1>4, <2>2 DEF Stripe!Matched, Stripe!At, Stripe!Inv
    <3>2. stripeProc[q].ambig <= stripeRec[k].ambig
      BY <3>1, StripeKnown0 DEF Stripe!Own, Stripe!Seen, Stripe!At
    <3>3. Stripe!Ambiguous(k) /\ Stripe!Matched(q, k)
      BY <1>0, <1>4, <3>1, <3>2 DEF Stripe!Newer, Stripe!Matched
    <3>. QED BY <3>3 DEF Stripe!MaySign
  <2>. QED BY <2>1, <2>2
<1>. QED BY <1>1, <1>2, <1>3, <1>4 DEF Stripe!MaySign

\* Headroom that is owed: what a step keeps of it.
LEMMA StripeOwedFrom ==
    ASSUME Stripe!IInv, Stripe!TypeOK', NEW p \in StripeHandlers, NEW k \in StripeInvoices,
           \A q \in StripeHandlers \ {p} : stripeProc'[q] = stripeProc[q]
           /\ stripeReq'[q] = stripeReq[q],
           Stripe!Newer(k), Stripe!Clear(k)' => Stripe!Clear(k),
           Stripe!Inv(p)' = k /\ Stripe!Charged(p)' => Stripe!Owed(k),
           Stripe!Ambiguous(k)' /\ stripeRec[k].ambig < stripeRec'[k].ambig
           /\ (stripeRec'[k].unsigned \/ Stripe!Clear(k)) => Stripe!Owed(k),
           Stripe!Ambiguous(k)' /\ Stripe!Matched(p, k)' => Stripe!Owed(k)
    PROVE  Stripe!Owed(k)' => Stripe!Owed(k)
<1>. SUFFICES ASSUME Stripe!Owed(k)' PROVE Stripe!Owed(k)
  OBVIOUS
<1>0. stripeRec[k].ambig \in Nat /\ stripeRec'[k].ambig \in Nat
  BY StripeKnown0, StripeRecordFacts DEF Stripe!TypeOK, Stripe!Known
<1>2. ASSUME NEW q \in StripeHandlers, Stripe!Inv(q)' = k, Stripe!Charged(q)' PROVE Stripe!Owed(k)
  <2>1. CASE q = p
    BY <1>2, <2>1
  <2>2. CASE q # p
    <3>1. Stripe!Inv(q) = k /\ stripeProc'[q] = stripeProc[q] /\ stripeReq'[q] = stripeReq[q]
      BY <1>2, <2>2 DEF Stripe!Inv
    <3>2. Stripe!Clear(Stripe!Inv(q))' <=> Stripe!Clear(k)'
      BY <1>2 DEF Stripe!Clear, Stripe!Executing
    <3>3. Stripe!Charged(q)
      BY <1>2, <3>1, <3>2 DEF Stripe!Charged, Stripe!At
    <3>. QED BY <3>1, <3>3 DEF Stripe!Owed
  <2>. QED BY <2>1, <2>2
<1>3. CASE Stripe!Ambiguous(k)' /\ (stripeRec'[k].unsigned \/ Stripe!Clear(k)')
  BY <1>3 DEF Stripe!Newer, Stripe!Owed
<1>4. ASSUME Stripe!Ambiguous(k)', NEW q \in StripeHandlers,
Stripe!Matched(q, k)' PROVE Stripe!Owed(k)
  <2>1. CASE q = p
    BY <1>4, <2>1
  <2>2. CASE q # p
    <3>1. /\ Stripe!At(q, "restep") /\ Stripe!Inv(q) = k
             /\ stripeProc[q].retries = stripeRec'[k].retries
          /\ stripeProc[q].ambig = stripeRec'[k].ambig
      BY <1>4, <2>2 DEF Stripe!Matched, Stripe!At, Stripe!Inv
    <3>2. stripeProc[q].ambig <= stripeRec[k].ambig
      BY <3>1, StripeKnown0 DEF Stripe!Own, Stripe!Seen, Stripe!At
    <3>3. Stripe!Ambiguous(k) /\ Stripe!Matched(q, k)
      BY <1>0, <1>4, <3>1, <3>2 DEF Stripe!Newer, Stripe!Matched
    <3>. QED BY <3>3 DEF Stripe!Owed
  <2>. QED BY <2>1, <2>2
<1>. QED BY <1>2, <1>3, <1>4 DEF Stripe!Owed

\* A step that gives an invoice no new right keeps their number.
LEMMA StripeRightsKept ==
    ASSUME Stripe!IInv, NEW i \in StripeInvoices, stripePermits'[i] = stripePermits[i],
           Stripe!Executing(i)' \subseteq Stripe!Executing(i),
           Stripe!MaySign(i)' => Stripe!MaySign(i), stripeRushed' \in Nat,
           stripeRushed <= stripeRushed'
    PROVE  Cardinality(Stripe!Rights(i))' <= 1 + stripeRushed'
<1>1. Stripe!Rights(i)' \subseteq Stripe!Rights(i)
  BY DEF Stripe!Rights
<1>2. IsFiniteSet(Stripe!Rights(i)) /\ Cardinality(Stripe!Rights(i)) <= 1 + stripeRushed
      /\ stripeRushed \in Nat
  BY StripeKnown0, StripeCountedFinite
<1>. QED BY <1>1, <1>2, StripeCountStays

\* An invoice with no Permit and no request under way has one right at most.
LEMMA StripeRightsOfClear ==
    ASSUME NEW i \in StripeInvoices, Stripe!Clear(i)', stripeRushed' \in Nat
    PROVE  Cardinality(Stripe!Rights(i))' <= 1 + stripeRushed'
<1>1. Stripe!Rights(i)' \subseteq {} \cup {<<"token", i>>}
  <2>1. 1 .. stripePermits'[i] = {} /\ Stripe!Executing(i)' = {}
    BY DEF Stripe!Clear
  <2>. QED BY <2>1 DEF Stripe!Rights
<1>2. IsFiniteSet({}) /\ Cardinality({}) = 0
  BY FS_EmptySet
<1>. QED BY <1>1, <1>2, StripeCountGrows

\* The right to a request is used, or given back by a request that signed nothing.
LEMMA StripeRightsMoved ==
    ASSUME Stripe!IInv, NEW i \in StripeInvoices, NEW x \in Stripe!Rights(i), NEW y,
           Stripe!Rights(i)' \subseteq (Stripe!Rights(i) \ {x}) \cup {y},
           stripeRushed' = stripeRushed
    PROVE  Cardinality(Stripe!Rights(i))' <= 1 + stripeRushed'
<1>2. IsFiniteSet(Stripe!Rights(i)) /\ Cardinality(Stripe!Rights(i)) <= 1 + stripeRushed
      /\ stripeRushed \in Nat
  BY StripeKnown0, StripeCountedFinite
<1>. QED BY <1>2, StripeCountMoves

\* What kind of unit an element of the units is.
LEMMA StripeUnitTags ==
    ASSUME NEW S, NEW C, NEW R, NEW D, \A x : <<x, 0>> \notin S
    PROVE  /\ S \subseteq Stripe!UnitsOf(S, C, R, D)
           /\ \A x : <<<<"call", x>>, 0>> \in Stripe!UnitsOf(S, C, R, D) <=> x \in C
           /\ \A x : <<<<"refund", x>>, 0>> \in Stripe!UnitsOf(S, C, R, D) <=> x \in R
           /\ \A x : <<<<"owed", x>>, 0>> \in Stripe!UnitsOf(S, C, R, D) <=> x \in D
           /\ \A t \in Stripe!UnitsOf(S, C, R, D) : \/ t \in S
                                                    \/ \E x \in C : t = <<<<"call", x>>, 0>>
                                                    \/ \E x \in R : t = <<<<"refund", x>>, 0>>
                                                    \/ \E x \in D : t = <<<<"owed", x>>, 0>>
<1>1. ASSUME NEW t \in Stripe!UnitsOf(S, C, R, D), t \notin S
      PROVE  \/ \E x \in C : t = <<<<"call", x>>, 0>>
             \/ \E x \in R : t = <<<<"refund", x>>, 0>>
             \/ \E x \in D : t = <<<<"owed", x>>, 0>>
  <2>1. PICK u \in ({"call"} \X C) \cup ({"refund"} \X R) \cup ({"owed"} \X D) : t = <<u, 0>>
    BY <1>1 DEF Stripe!UnitsOf
  <2>2. \/ u[2] \in C /\ u = <<"call", u[2]>>
        \/ u[2] \in R /\ u = <<"refund", u[2]>>
        \/ u[2] \in D /\ u = <<"owed", u[2]>>
    <3>1. CASE u \in {"call"} \X C
      BY <3>1
    <3>2. CASE u \in {"refund"} \X R
      BY <3>2
    <3>3. CASE u \in {"owed"} \X D
      BY <3>3
    <3>. QED BY <3>1, <3>2, <3>3
  <2>. QED BY <2>1, <2>2
<1>. QED BY <1>1 DEF Stripe!UnitsOf

LEMMA StripeSignedTags ==
    ASSUME Stripe!TypeOK PROVE \A x : <<x, 0>> \notin Stripe!Signed
BY DEF Stripe!Signed, Stripe!TypeOK

LEMMA StripeSignedTagsNext ==
    ASSUME Stripe!TypeOK' PROVE \A x : <<x, 0>> \notin Stripe!Signed'
BY DEF Stripe!Signed, Stripe!TypeOK

\* The kinds of a state and of the next one.
LEMMA StripeUnitKinds ==
    ASSUME Stripe!IInv, Stripe!TypeOK'
    PROVE  /\ IsFiniteSet(Stripe!Units) /\ Cardinality(Stripe!Units) \in Nat
           /\ Stripe!Signed \subseteq Stripe!Units
           /\ \A x : <<<<"call", x>>, 0>> \in Stripe!Units <=> x \in Stripe!Calls
           /\ \A x : <<<<"refund", x>>, 0>> \in Stripe!Units <=> x \in Stripe!Refunds
           /\ \A x : <<<<"owed", x>>, 0>> \in Stripe!Units <=> x \in Stripe!Debts
           /\ \A x : <<x, 0>> \notin Stripe!Signed'
           /\ \A t \in Stripe!Units' : \/ t \in Stripe!Signed'
                                       \/ \E x \in Stripe!Calls' : t = <<<<"call", x>>, 0>>
                                       \/ \E x \in Stripe!Refunds' : t = <<<<"refund", x>>, 0>>
                                       \/ \E x \in Stripe!Debts' : t = <<<<"owed", x>>, 0>>
<1>1. Stripe!Units = Stripe!UnitsOf(Stripe!Signed, Stripe!Calls, Stripe!Refunds, Stripe!Debts)
      /\ Stripe!Units' = Stripe!UnitsOf(Stripe!Signed', Stripe!Calls', Stripe!Refunds', Stripe!Debts')
  BY DEF Stripe!Units, Stripe!UnitsOf
<1>2. (\A x : <<x, 0>> \notin Stripe!Signed) /\ (\A x : <<x, 0>> \notin Stripe!Signed')
  BY StripeKnown0, StripeSignedTags, StripeSignedTagsNext
<1>3. IsFiniteSet(Stripe!Units) /\ Cardinality(Stripe!Units) \in Nat
  BY StripeKnown0, StripeCountedFinite
<1>4. /\ Stripe!Signed \subseteq Stripe!Units
      /\ \A x : <<<<"call", x>>, 0>> \in Stripe!Units <=> x \in Stripe!Calls
      /\ \A x : <<<<"refund", x>>, 0>> \in Stripe!Units <=> x \in Stripe!Refunds
      /\ \A x : <<<<"owed", x>>, 0>> \in Stripe!Units <=> x \in Stripe!Debts
  BY <1>1, <1>2, StripeUnitTags
<1>5. \A t \in Stripe!UnitsOf(Stripe!Signed', Stripe!Calls', Stripe!Refunds', Stripe!Debts') :
              \/ t \in Stripe!Signed'
              \/ \E x \in Stripe!Calls' : t = <<<<"call", x>>, 0>>
              \/ \E x \in Stripe!Refunds' : t = <<<<"refund", x>>, 0>>
              \/ \E x \in Stripe!Debts' : t = <<<<"owed", x>>, 0>>
  BY <1>2, StripeUnitTags
<1>. QED BY <1>1, <1>2, <1>3, <1>4, <1>5

LEMMA StripeUnitsStay ==
    ASSUME Stripe!IInv, Stripe!TypeOK', stripePermits' = stripePermits,
           Stripe!Calls' \subseteq Stripe!Calls, Stripe!Refunds' \subseteq Stripe!Refunds,
           Stripe!Debts' \subseteq Stripe!Debts
    PROVE  Cardinality(Stripe!Units) \in Nat /\ Cardinality(Stripe!Units') \in Nat
           /\ Cardinality(Stripe!Units') <= Cardinality(Stripe!Units)
<1>1. Stripe!Signed' = Stripe!Signed
  BY DEF Stripe!Signed
<1>2. \A t \in Stripe!Units' : t \in Stripe!Units
  BY <1>1, StripeUnitKinds
<1>. QED BY <1>2, StripeUnitKinds, StripeCountStays

\* Headroom that was owed is given back.
LEMMA StripeUnitsGive ==
    ASSUME Stripe!IInv, Stripe!TypeOK', stripePermits' = stripePermits,
           Stripe!Calls' \subseteq Stripe!Calls, Stripe!Refunds' \subseteq Stripe!Refunds,
           NEW i \in Stripe!Debts, Stripe!Debts' \subseteq Stripe!Debts \ {i}
    PROVE  Cardinality(Stripe!Units) \in Nat /\ Cardinality(Stripe!Units') \in Nat
           /\ Cardinality(Stripe!Units') + 1 <= Cardinality(Stripe!Units)
<1>1. Stripe!Signed' = Stripe!Signed
  BY DEF Stripe!Signed
<1>2. \A t \in Stripe!Units' : t \in Stripe!Units \ {<<<<"owed", i>>, 0>>}
  <2>1. SUFFICES ASSUME NEW t \in Stripe!Units' PROVE t \in Stripe!Units /\ t # <<<<"owed", i>>, 0>>
    OBVIOUS
  <2>. QED BY <1>1, StripeUnitKinds
<1>3. <<<<"owed", i>>, 0>> \in Stripe!Units
  BY StripeUnitKinds
<1>. QED BY <1>2, <1>3, StripeUnitKinds, StripeCountShrinks

\* So is that of the attempt a retry replaces.
LEMMA StripeUnitsRefund ==
    ASSUME Stripe!IInv, Stripe!TypeOK', stripePermits' = stripePermits,
           Stripe!Calls' \subseteq Stripe!Calls, Stripe!Debts' \subseteq Stripe!Debts,
           NEW p \in Stripe!Refunds, Stripe!Refunds' \subseteq Stripe!Refunds \ {p}
    PROVE  Cardinality(Stripe!Units) \in Nat /\ Cardinality(Stripe!Units') \in Nat
           /\ Cardinality(Stripe!Units') + 1 <= Cardinality(Stripe!Units)
<1>1. Stripe!Signed' = Stripe!Signed
  BY DEF Stripe!Signed
<1>2. \A t \in Stripe!Units' : t \in Stripe!Units \ {<<<<"refund", p>>, 0>>}
  <2>1. SUFFICES ASSUME NEW t \in Stripe!Units' PROVE t \in Stripe!Units /\ t # <<<<"refund", p>>, 0>>
    OBVIOUS
  <2>. QED BY <1>1, StripeUnitKinds
<1>3. <<<<"refund", p>>, 0>> \in Stripe!Units
  BY StripeUnitKinds
<1>. QED BY <1>2, <1>3, StripeUnitKinds, StripeCountShrinks

\* More headroom is owed.
LEMMA StripeUnitsOwe ==
    ASSUME Stripe!IInv, Stripe!TypeOK', stripePermits' = stripePermits,
           Stripe!Calls' \subseteq Stripe!Calls, Stripe!Refunds' \subseteq Stripe!Refunds,
           NEW i, Stripe!Debts' \subseteq Stripe!Debts \cup {i}
    PROVE  Cardinality(Stripe!Units) \in Nat /\ Cardinality(Stripe!Units') \in Nat
           /\ Cardinality(Stripe!Units') <= Cardinality(Stripe!Units) + 1
<1>1. Stripe!Signed' = Stripe!Signed
  BY DEF Stripe!Signed
<1>2. \A t \in Stripe!Units' : t \in Stripe!Units \cup {<<<<"owed", i>>, 0>>}
  BY <1>1, StripeUnitKinds
<1>. QED BY <1>2, StripeUnitKinds, StripeCountGrows

\* Headroom that is owed goes into a request, or into the refund before a retry.
LEMMA StripeUnitsSpend ==
    ASSUME Stripe!IInv, Stripe!TypeOK', stripePermits' = stripePermits, NEW i \in Stripe!Debts,
           Stripe!Debts' \subseteq Stripe!Debts \ {i}, NEW p,
           \/ Stripe!Calls' \subseteq Stripe!Calls \cup {p} /\ Stripe!Refunds' \subseteq Stripe!Refunds
           \/ Stripe!Calls' \subseteq Stripe!Calls /\ Stripe!Refunds' \subseteq Stripe!Refunds \cup {p}
    PROVE  Cardinality(Stripe!Units) \in Nat /\ Cardinality(Stripe!Units') \in Nat
           /\ Cardinality(Stripe!Units') <= Cardinality(Stripe!Units)
<1>1. Stripe!Signed' = Stripe!Signed
  BY DEF Stripe!Signed
<1>2. <<<<"owed", i>>, 0>> \in Stripe!Units
  BY StripeUnitKinds
<1>3. CASE Stripe!Calls' \subseteq Stripe!Calls \cup {p} /\ Stripe!Refunds' \subseteq Stripe!Refunds
  <2>1. \A t \in Stripe!Units' : t
        \in (Stripe!Units \ {<<<<"owed", i>>, 0>>}) \cup {<<<<"call", p>>, 0>>}
    BY <1>1, <1>3, StripeUnitKinds
  <2>. DEFINE x == <<<<"owed", i>>, 0>>
             y == <<<<"call", p>>, 0>>
  <2>7. x \in Stripe!Units
    BY <1>2, <2>1, StripeUnitKinds
  <2>8. Stripe!Units' \subseteq (Stripe!Units \ {x}) \cup {y}
    BY <1>2, <2>1, StripeUnitKinds
  <2>9. IsFiniteSet(Stripe!Units)
    BY StripeUnitKinds
  <2>10. \E u \in Stripe!Units : \E v : Stripe!Units' \subseteq (Stripe!Units \ {u}) \cup {v}
    BY <2>7, <2>8
  <2>. HIDE DEF x, y
  <2>. QED BY <2>9, <2>10, StripeCountSwaps, Zenon
<1>4. CASE Stripe!Calls' \subseteq Stripe!Calls /\ Stripe!Refunds' \subseteq Stripe!Refunds \cup {p}
  <2>1. \A t \in Stripe!Units' : t
        \in (Stripe!Units \ {<<<<"owed", i>>, 0>>}) \cup {<<<<"refund", p>>, 0>>}
    BY <1>1, <1>4, StripeUnitKinds
  <2>. DEFINE x == <<<<"owed", i>>, 0>>
             y == <<<<"refund", p>>, 0>>
  <2>7. x \in Stripe!Units
    BY <1>2, <2>1, StripeUnitKinds
  <2>8. Stripe!Units' \subseteq (Stripe!Units \ {x}) \cup {y}
    BY <1>2, <2>1, StripeUnitKinds
  <2>9. IsFiniteSet(Stripe!Units)
    BY StripeUnitKinds
  <2>10. \E u \in Stripe!Units : \E v : Stripe!Units' \subseteq (Stripe!Units \ {u}) \cup {v}
    BY <2>7, <2>8
  <2>. HIDE DEF x, y
  <2>. QED BY <2>9, <2>10, StripeCountSwaps, Zenon
<1>. QED BY <1>3, <1>4

\* A request ends without a Permit.
LEMMA StripeUnitsAnswer ==
    ASSUME Stripe!IInv, Stripe!TypeOK', stripePermits' = stripePermits, NEW p \in Stripe!Calls,
           Stripe!Calls' \subseteq Stripe!Calls \ {p}, NEW i,
           Stripe!Debts' \subseteq Stripe!Debts \cup {i}, Stripe!Refunds' \subseteq Stripe!Refunds
    PROVE  Cardinality(Stripe!Units) \in Nat /\ Cardinality(Stripe!Units') \in Nat
           /\ Cardinality(Stripe!Units') <= Cardinality(Stripe!Units)
<1>1. Stripe!Signed' = Stripe!Signed
  BY DEF Stripe!Signed
<1>2. <<<<"call", p>>, 0>> \in Stripe!Units
  BY StripeUnitKinds
<1>3. \A t \in Stripe!Units' : t \in (Stripe!Units \ {<<<<"call", p>>, 0>>}) \cup {<<<<"owed", i>>, 0>>}
  BY <1>1, StripeUnitKinds
<1>. DEFINE x == <<<<"call", p>>, 0>>
           y == <<<<"owed", i>>, 0>>
<1>7. x \in Stripe!Units
  BY <1>2, <1>3, StripeUnitKinds
<1>8. Stripe!Units' \subseteq (Stripe!Units \ {x}) \cup {y}
  BY <1>2, <1>3, StripeUnitKinds
<1>9. IsFiniteSet(Stripe!Units)
  BY StripeUnitKinds
<1>10. \E u \in Stripe!Units : \E v : Stripe!Units' \subseteq (Stripe!Units \ {u}) \cup {v}
  BY <1>7, <1>8
<1>. HIDE DEF x, y
<1>. QED BY <1>9, <1>10, StripeCountSwaps, Zenon

\* A request ends with one.
LEMMA StripeUnitsSign ==
    ASSUME Stripe!IInv, Stripe!TypeOK', NEW i \in StripeInvoices,
           stripePermits' = [stripePermits EXCEPT ![i] = @ + 1],
           NEW p \in Stripe!Calls, Stripe!Calls' \subseteq Stripe!Calls \ {p},
           Stripe!Debts' \subseteq Stripe!Debts, Stripe!Refunds' \subseteq Stripe!Refunds
    PROVE  Cardinality(Stripe!Units) \in Nat /\ Cardinality(Stripe!Units') \in Nat
           /\ Cardinality(Stripe!Units') <= Cardinality(Stripe!Units)
<1>1. \A t \in Stripe!Signed' : t \in Stripe!Signed \cup {<<i, stripePermits[i] + 1>>}
  <2>1. SUFFICES ASSUME NEW k \in StripeInvoices, NEW n \in 1 .. stripePermits'[k]
                 PROVE  <<k, n>> \in Stripe!Signed \cup {<<i, stripePermits[i] + 1>>}
    BY DEF Stripe!Signed
  <2>2. stripePermits \in [StripeInvoices -> Nat]
    BY StripeKnown0
  <2>3. (k = i /\ n = stripePermits[i] + 1) \/ n \in 1 .. stripePermits[k]
    BY <2>2
  <2>. QED BY <2>3 DEF Stripe!Signed
<1>2. <<<<"call", p>>, 0>> \in Stripe!Units
  BY StripeUnitKinds
<1>3. \A t \in Stripe!Units' : t
      \in (Stripe!Units \ {<<<<"call", p>>, 0>>}) \cup {<<i, stripePermits[i] + 1>>}
  <2>1. SUFFICES ASSUME NEW t \in Stripe!Units'
                 PROVE  t = <<i, stripePermits[i] + 1>>
                        \/ (t \in Stripe!Units /\ t # <<<<"call", p>>, 0>>)
    OBVIOUS
  <2>2. CASE t \in Stripe!Signed'
    BY <1>1, <2>2, StripeUnitKinds
  <2>3. CASE t \notin Stripe!Signed'
    BY <2>1, <2>3, StripeUnitKinds
  <2>. QED BY <2>2, <2>3
<1>. DEFINE x == <<<<"call", p>>, 0>>
           y == <<i, stripePermits[i] + 1>>
<1>7. x \in Stripe!Units
  BY <1>2, <1>3, StripeUnitKinds
<1>8. Stripe!Units' \subseteq (Stripe!Units \ {x}) \cup {y}
  BY <1>2, <1>3, StripeUnitKinds
<1>9. IsFiniteSet(Stripe!Units)
  BY StripeUnitKinds
<1>10. \E u \in Stripe!Units : \E v : Stripe!Units' \subseteq (Stripe!Units \ {u}) \cup {v}
  BY <1>7, <1>8
<1>. HIDE DEF x, y
<1>. QED BY <1>9, <1>10, StripeCountSwaps, Zenon

-----------------------------------------------------------------------------
(* Stripe invoices: what a step of a handler keeps.                        *)

\* A claimed invoice has one holder, and its record cannot be claimed or retried.
LEMMA StripeLoneHolder ==
    ASSUME Stripe!IInv, NEW p \in StripeHandlers, Stripe!Holds(p)
    PROVE  /\ stripeRec[Stripe!Inv(p)].status \in Stripe!Stay /\ ~Stripe!Claimable(Stripe!Inv(p))
              /\ ~Stripe!Ambiguous(Stripe!Inv(p))
           /\ \A q \in StripeHandlers : Stripe!Holds(q) /\ Stripe!Inv(q) = Stripe!Inv(p) => q = p
BY StripeKnown0 DEF Stripe!Own, Stripe!Claimed, Stripe!Claimable, Stripe!Ambiguous, Stripe!Stay,
     Stripe!HumanGated, Stripe!InFlight

\* A record that can be claimed or retried is not claimed.
LEMMA StripeNoHolder ==
    ASSUME Stripe!IInv, NEW i \in StripeInvoices, stripeRec[i].status \notin Stripe!Stay
    PROVE  \A q \in StripeHandlers : ~(Stripe!Holds(q) /\ Stripe!Inv(q) = i)
BY StripeKnown0 DEF Stripe!Own, Stripe!Claimed

LEMMA StripeChargedHolds ==
    ASSUME NEW p, Stripe!Charged(p) PROVE Stripe!Holds(p)
BY DEF Stripe!Charged, Stripe!Holds, Stripe!At

LEMMA StripeMovesElse ==
    ASSUME Stripe!IInv, NEW p \in StripeHandlers, NEW i \in StripeInvoices, NEW h \in Stripe!Locals,
           NEW r \in Stripe!Records, Stripe!Moves(p, i, h, r),
           Stripe!TypeOK', NEW k \in StripeInvoices \ {i}
    PROVE  /\ Cardinality(Stripe!Rights(k))' <= 1 + stripeRushed'
           /\ Stripe!Owed(k)' => Stripe!Owed(k)
           /\ Stripe!Crypto(k)'
<1>. USE StripeKnown0
<1>1. /\ stripeProc'[p] = h /\ \A q \in StripeHandlers \ {p} : stripeProc'[q] = stripeProc[q]
         /\ stripeReq'[q] = stripeReq[q]
      /\ stripeRec'[k] = stripeRec[k] /\ (h.inv = i \/ h.pc = "idle")
  BY DEF Stripe!Moves, Stripe!Known
<1>2. stripePermits' = stripePermits /\ Stripe!Executing(k)' = Stripe!Executing(k)
      /\ stripeRushed <= stripeRushed' /\ stripeRushed' \in Nat
      /\ stripeChannel'[k] = stripeChannel[k] /\ stripePulled' = stripePulled
         /\ stripeSess' = stripeSess
  BY DEF Stripe!Moves, Stripe!TypeOK
<1>3. stripeRec[k].ambig \in Nat
  BY StripeRecordFacts
<1>4. Stripe!Newer(k)
  BY <1>1, <1>3 DEF Stripe!Newer, Stripe!Ambiguous
<1>5. Stripe!Inv(p)' = k => h.pc = "idle"
  BY <1>1 DEF Stripe!Inv
<1>6. ~(Stripe!Inv(p)' = k /\ Stripe!Holds(p)') /\ ~(Stripe!Inv(p)' = k /\ Stripe!Charged(p)')
      /\ ~Stripe!Matched(p, k)'
  BY <1>1, <1>5 DEF Stripe!Holds, Stripe!Charged, Stripe!Matched, Stripe!At
<1>7. Stripe!MaySign(k)' => Stripe!MaySign(k)
  <2>1. Stripe!Claimable(k)' => Stripe!MaySign(k)
    BY <1>1 DEF Stripe!Claimable, Stripe!MaySign
  <2>. QED BY <1>1, <1>3, <1>4, <1>6, <2>1, StripeMayFrom
<1>8. Stripe!Owed(k)' => Stripe!Owed(k)
  <2>1. Stripe!Clear(k)' => Stripe!Clear(k)
    BY <1>2 DEF Stripe!Clear
  <2>. QED BY <1>1, <1>3, <1>4, <1>6, <2>1, StripeOwedFrom
<1>9. Cardinality(Stripe!Rights(k))' <= 1 + stripeRushed'
  BY <1>2, <1>7, StripeRightsKept
<1>10. Stripe!Crypto(k)'
  BY <1>1, <1>2 DEF Stripe!Crypto
<1>. QED BY <1>8, <1>9, <1>10

LEMMA StripeMovesKeep ==
    ASSUME Stripe!IInv, NEW p \in StripeHandlers, NEW i \in StripeInvoices, NEW h \in Stripe!Locals,
           NEW r \in Stripe!Records, Stripe!Moves(p, i, h, r),
           Stripe!TypeOK', Stripe!Newer(i),
           Stripe!Ambiguous(i)' /\ Stripe!Clear(i) => Stripe!Clear(i)',
           \A q \in StripeHandlers \ {p} : Stripe!Holds(q) /\ Stripe!Inv(q) = i
           => r.status \in Stripe!Stay /\ ~(Stripe!Holds(p)' /\ h.inv = i),
           Stripe!Own(p)', Stripe!Crypto(i)', Cardinality(Stripe!Rights(i))' <= 1 + stripeRushed',
           Cardinality(Stripe!Units') <= stripeSpent' + stripeSlips' + stripeRushed',
           r.status = "paid" => stripeRec[i].status = "paid" \/ i \in stripePulled,
           r.verified = stripeRec[i].verified
    PROVE  Stripe!IInv'
<1>. USE StripeKnown0
<1>1. \A q \in StripeHandlers : Stripe!Own(q)'
  BY StripeMovesOthers
<1>2. \A k \in StripeInvoices : Stripe!Crypto(k)' /\ Cardinality(Stripe!Rights(k))' <= 1 + stripeRushed'
  BY StripeMovesElse
<1>3. /\ stripeRec'[i] = r /\ \A k \in Stripe!Known \ {i} : stripeRec'[k] = stripeRec[k]
  BY DEF Stripe!Moves, Stripe!Known
<1>4. \A s \in StripeSiblings : Stripe!Elsewhere(s)'
  <2>1. SUFFICES ASSUME NEW s \in StripeSiblings PROVE Stripe!Elsewhere(s)'
    OBVIOUS
  <2>2. s # i /\ s \in Stripe!Known
    BY StripeConstants DEF Stripe!Known
  <2>. QED BY <1>3, <2>2 DEF Stripe!Elsewhere, Stripe!Moves
<1>5. Stripe!PaidWasPulled'
  BY <1>3 DEF Stripe!PaidWasPulled, Stripe!Moves, Stripe!Known
<1>6. (stripeMisread \/ \A o \in Stripe!Known : stripeRec[o].verified \in {o, "none"})'
  <2>1. stripeMisread' = stripeMisread
    BY DEF Stripe!Moves
  <2>2. ASSUME NEW o \in Stripe!Known PROVE stripeRec'[o].verified = stripeRec[o].verified
    BY <1>3
  <2>. QED BY <2>1, <2>2
<1>7. (Cardinality(Stripe!Units) <= stripeSpent + stripeSlips + stripeRushed)'
  OBVIOUS
<1>8. \A k \in StripeInvoices : (Stripe!Crypto(k) /\ Cardinality(Stripe!Rights(k)) <= 1 + stripeRushed)'
  BY <1>2
<1>. QED BY <1>1, <1>8, <1>4, <1>5, <1>6, <1>7, StripeCardinality DEF Stripe!IInv

\* A step that gives no new right and owes no more headroom.
LEMMA StripeTameStep ==
    ASSUME Stripe!IInv, NEW p \in StripeHandlers, NEW i \in StripeInvoices, NEW h \in Stripe!Locals,
           NEW r \in Stripe!Records, Stripe!Moves(p, i, h, r),
           Stripe!TypeOK', Stripe!Newer(i), Stripe!Executing(i)' = Stripe!Executing(i),
           \A q \in StripeHandlers \ {p} : Stripe!Holds(q) /\ Stripe!Inv(q) = i
           => r.status \in Stripe!Stay /\ ~(Stripe!Holds(p)' /\ h.inv = i),
           Stripe!Own(p)', Stripe!Crypto(i)', Stripe!MaySign(i)' => Stripe!MaySign(i),
           Stripe!Owed(i)' => Stripe!Owed(i),
           Stripe!Calls' \subseteq Stripe!Calls, Stripe!Refunds' \subseteq Stripe!Refunds,
           stripeSpent + stripeSlips + stripeRushed <= stripeSpent' + stripeSlips' + stripeRushed',
           r.status = "paid" => stripeRec[i].status = "paid" \/ i \in stripePulled,
           r.verified = stripeRec[i].verified
    PROVE  Stripe!IInv'
<1>. USE StripeKnown0
<1>1. stripePermits' = stripePermits /\ stripeRushed <= stripeRushed'
  BY DEF Stripe!Moves
<1>2. stripeSpent' \in Nat /\ stripeSlips' \in Nat /\ stripeRushed' \in Nat
  BY DEF Stripe!TypeOK
<1>3. Stripe!Ambiguous(i)' /\ Stripe!Clear(i) => Stripe!Clear(i)'
  BY <1>1 DEF Stripe!Clear
<1>4. Cardinality(Stripe!Rights(i))' <= 1 + stripeRushed'
  BY <1>1, <1>2, StripeRightsKept
<1>5. \A k \in StripeInvoices : Stripe!Owed(k)' => Stripe!Owed(k)
  BY StripeMovesElse
<1>6. Stripe!Debts' \subseteq Stripe!Debts
  BY <1>5 DEF Stripe!Debts
<1>7. Cardinality(Stripe!Units) \in Nat /\ Cardinality(Stripe!Units') \in Nat
      /\ Cardinality(Stripe!Units') <= Cardinality(Stripe!Units)
  BY <1>1, <1>6, StripeUnitsStay
<1>8. Cardinality(Stripe!Units') <= stripeSpent' + stripeSlips' + stripeRushed'
  BY <1>2, <1>7
<1>. QED BY <1>3, <1>4, <1>8, StripeMovesKeep

\* A handler that leaves.
LEMMA StripeIdleOwn ==
    ASSUME Stripe!IInv, NEW p \in StripeHandlers, stripeProc'[p] = Stripe!Idle,
           stripeReq'[p] = stripeReq[p], stripePermits' = stripePermits PROVE Stripe!Own(p)'
<1>1. stripeReq[p].st = "signed" => stripePermits[stripeReq[p].inv] > 0
  BY StripeKnown0 DEF Stripe!Own, Stripe!Busy
<1>2. Stripe!Idle.pc = "idle"
  BY StripeIdleFacts
<1>. QED BY <1>1, <1>2 DEF Stripe!Own, Stripe!Claimed, Stripe!Busy, Stripe!Seen, Stripe!Toward,
     Stripe!Holds, Stripe!At, Stripe!Inv

LEMMA StripeGoFacts ==
    ASSUME Stripe!IInv, NEW p \in StripeHandlers, NEW l \in Stripe!Steps, Stripe!Go(p, l)
    PROVE  \E h \in Stripe!Locals : /\ stripeProc' = [stripeProc EXCEPT ![p] = h] /\ h.pc = l
                                       /\ h.inv = Stripe!Inv(p) /\ h.ev = stripeProc[p].ev
                                    /\ h.to = stripeProc[p].to /\ h.live = stripeProc[p].live
                                       /\ h.reserved = stripeProc[p].reserved
                                    /\ h.started = stripeProc[p].started
                                       /\ h.retries = stripeProc[p].retries
                                    /\ h.ambig = stripeProc[p].ambig
                                       /\ h.caught = stripeProc[p].caught
<1>. DEFINE h == [stripeProc[p] EXCEPT !.pc = l]
<1>1. stripeProc \in [StripeHandlers -> Stripe!Locals] /\ stripeProc[p] \in Stripe!Locals
  BY StripeKnown0
<1>2. h \in Stripe!Locals /\ h.pc = l /\ h.inv = Stripe!Inv(p) /\ h.ev = stripeProc[p].ev
      /\ h.to = stripeProc[p].to /\ h.live = stripeProc[p].live /\ h.reserved = stripeProc[p].reserved
      /\ h.started = stripeProc[p].started /\ h.retries = stripeProc[p].retries
      /\ h.ambig = stripeProc[p].ambig /\ h.caught = stripeProc[p].caught
  BY <1>1 DEF Stripe!Locals, Stripe!Inv
<1>3. stripeProc' = [stripeProc EXCEPT ![p] = h]
  BY <1>1 DEF Stripe!Go
<1>. QED BY <1>2, <1>3, Zenon

LEMMA StripeGoToFacts ==
    ASSUME Stripe!IInv, NEW p \in StripeHandlers, NEW l \in Stripe!Steps, NEW s \in Stripe!Outcomes,
           Stripe!GoTo(p, l, s)
    PROVE  \E h \in Stripe!Locals : /\ stripeProc' = [stripeProc EXCEPT ![p] = h] /\ h.pc = l
                                       /\ h.inv = Stripe!Inv(p) /\ h.ev = stripeProc[p].ev
                                    /\ h.to = s /\ h.live = stripeProc[p].live
                                       /\ h.reserved = stripeProc[p].reserved
                                    /\ h.started = stripeProc[p].started
                                       /\ h.retries = stripeProc[p].retries
                                    /\ h.ambig = stripeProc[p].ambig
                                       /\ h.caught = stripeProc[p].caught
<1>. DEFINE h == [stripeProc[p] EXCEPT !.pc = l, !.to = s]
<1>1. stripeProc \in [StripeHandlers -> Stripe!Locals] /\ stripeProc[p] \in Stripe!Locals
  BY StripeKnown0
<1>2. h \in Stripe!Locals /\ h.pc = l /\ h.inv = Stripe!Inv(p) /\ h.ev = stripeProc[p].ev
      /\ h.to = s /\ h.live = stripeProc[p].live /\ h.reserved = stripeProc[p].reserved
      /\ h.started = stripeProc[p].started /\ h.retries = stripeProc[p].retries
      /\ h.ambig = stripeProc[p].ambig /\ h.caught = stripeProc[p].caught
  BY <1>1 DEF Stripe!Locals, Stripe!Inv
<1>3. stripeProc' = [stripeProc EXCEPT ![p] = h]
  BY <1>1 DEF Stripe!GoTo
<1>. QED BY <1>2, <1>3, Zenon

LEMMA StripeEntersFacts ==
    ASSUME Stripe!IInv, NEW p \in StripeHandlers, NEW l \in Stripe!Steps,
           NEW s \in Stripe!Outcomes,
           Stripe!Enters(p, l, s)
    PROVE  \E h \in Stripe!Locals : /\ stripeProc' = [stripeProc EXCEPT ![p] = h] /\ h.pc = l
                                       /\ h.inv = Stripe!Inv(p) /\ h.to = s
                                    /\ Stripe!Fresh(h)
<1>1. PICK g : g = Stripe!On(p, l)
  OBVIOUS
<1>2. g \in Stripe!Locals /\ g.pc = l /\ g.inv = Stripe!Inv(p) /\ g.reserved = FALSE
      /\ g.started = FALSE /\ g.caught = FALSE
  BY <1>1, StripeKnown0, StripeOnFacts
<1>. DEFINE h == [g EXCEPT !.to = s]
<1>3. /\ h \in Stripe!Locals /\ h.pc = l /\ h.inv = Stripe!Inv(p) /\ h.to = s
      /\ Stripe!Fresh(h)
  BY <1>2 DEF Stripe!Locals, Stripe!Fresh
<1>4. stripeProc' = [stripeProc EXCEPT ![p] = h]
  BY <1>1 DEF Stripe!Enters
<1>. QED BY <1>3, <1>4, Zenon

-----------------------------------------------------------------------------
(* Stripe invoices: the steps no handler takes.                            *)

LEMMA StripeWorldKeep ==
    ASSUME Stripe!IInv, Stripe!TypeOK', stripeProc' = stripeProc, stripeReq' = stripeReq,
           stripePermits' = stripePermits, stripeRushed' = stripeRushed, stripeSpent' = stripeSpent,
           stripeSlips' = stripeSlips, stripePulled \subseteq stripePulled',
           \A k \in StripeInvoices : /\ Stripe!Newer(k) /\ Stripe!Crypto(k)'
                                     /\ stripeRec[k].status \in Stripe!Stay
                                        => stripeRec'[k].status \in Stripe!Stay
                                     /\ Stripe!Claimable(k)' => Stripe!Claimable(k)
                                     /\ stripeChannel[k] # "none"
                                        => stripeChannel'[k] = stripeChannel[k]
                                     /\ stripeRec'[k].ambig = stripeRec[k].ambig,
           \A s \in StripeSiblings : Stripe!Elsewhere(s)',
           Stripe!PaidWasPulled',
           (stripeMisread \/ \A o \in Stripe!Known : stripeRec[o].verified \in {o, "none"})'
    PROVE  Stripe!IInv'
<1>. USE StripeKnown0
<1>0. \A k \in StripeInvoices : Stripe!Executing(k)' = Stripe!Executing(k)
      /\ (Stripe!Clear(k)' <=> Stripe!Clear(k)) /\ stripeRec[k].ambig \in Nat
  BY StripeRecordFacts DEF Stripe!Executing, Stripe!Clear
<1>1. \A q \in StripeHandlers : Stripe!Own(q)'
  <2>1. SUFFICES ASSUME NEW q \in StripeHandlers PROVE Stripe!Own(q)'
    OBVIOUS
  <2>2. PICK i \in StripeInvoices : i = Stripe!Inv(q)
    OBVIOUS
  <2>3. Stripe!Holds(q) => stripeRec'[i].status \in Stripe!Stay
        /\ \A o \in StripeHandlers : Stripe!Holds(o)' /\ Stripe!Inv(o)' = i => o = q
    BY <2>2 DEF Stripe!Own, Stripe!Claimed, Stripe!Holds, Stripe!Inv
  <2>4. \A k \in StripeInvoices : stripePermits[k] <= stripePermits'[k]
    OBVIOUS
  <2>. QED BY <1>0, <2>2, <2>3, <2>4, StripeOwnKept
<1>2. ASSUME NEW k \in StripeInvoices PROVE (Stripe!MaySign(k)' => Stripe!MaySign(k))
             /\ (Stripe!Owed(k)' => Stripe!Owed(k))
  <2>1. \A q \in StripeHandlers : (Stripe!Matched(q, k)' <=> Stripe!At(q, "restep")
                                   /\ Stripe!Inv(q) = k /\ stripeProc[q].retries = stripeRec'[k].retries
                                                             /\ stripeProc[q].ambig
                                                                = stripeRec'[k].ambig)
    BY DEF Stripe!Matched, Stripe!At, Stripe!Inv
  <2>2. Stripe!Ambiguous(k)' => Stripe!Ambiguous(k) /\ stripeRec'[k].retries = stripeRec[k].retries
        /\ stripeRec'[k].unsigned = stripeRec[k].unsigned
                                /\ stripeRec'[k].ambig = stripeRec[k].ambig
    BY <1>0 DEF Stripe!Newer
  <2>3. Stripe!Ambiguous(k)' => \A q \in StripeHandlers : Stripe!Matched(q, k)' => Stripe!Matched(q, k)
    BY <2>1, <2>2 DEF Stripe!Matched
  <2>4. \A q \in StripeHandlers : (Stripe!Holds(q)' <=> Stripe!Holds(q))
        /\ (Stripe!Gone(q)' <=> Stripe!Gone(q)) /\ Stripe!Inv(q)' = Stripe!Inv(q)
    BY DEF Stripe!Holds, Stripe!Gone, Stripe!At, Stripe!Inv
  <2>5. \A q \in StripeHandlers : Stripe!Inv(q) = k => (Stripe!Charged(q)' <=> Stripe!Charged(q))
    <3>1. SUFFICES ASSUME NEW q \in StripeHandlers,
    Stripe!Inv(q) = k PROVE Stripe!Charged(q)' <=> Stripe!Charged(q)
      OBVIOUS
    <3>2. Stripe!Clear(Stripe!Inv(q))' <=> Stripe!Clear(Stripe!Inv(q))
      BY <1>0, <2>4, <3>1 DEF Stripe!Clear, Stripe!Executing
    <3>. QED BY <3>2 DEF Stripe!Charged, Stripe!At
  <2>6. Stripe!MaySign(k)' => Stripe!MaySign(k)
    BY <2>2, <2>3, <2>4 DEF Stripe!MaySign
  <2>7. Stripe!Owed(k)' => Stripe!Owed(k)
    BY <1>0, <2>2, <2>3, <2>4, <2>5 DEF Stripe!Owed
  <2>. QED BY <2>6, <2>7
<1>3. \A k \in StripeInvoices : Cardinality(Stripe!Rights(k))' <= 1 + stripeRushed'
  BY <1>0, <1>2, StripeRightsKept
<1>4. Cardinality(Stripe!Units') <= stripeSpent' + stripeSlips' + stripeRushed'
  <2>1. Stripe!Debts' \subseteq Stripe!Debts /\ Stripe!Calls' = Stripe!Calls
        /\ Stripe!Refunds' = Stripe!Refunds
    BY <1>2 DEF Stripe!Debts, Stripe!Calls, Stripe!Refunds, Stripe!At
  <2>2. Cardinality(Stripe!Units) \in Nat /\ Cardinality(Stripe!Units') \in Nat
        /\ Cardinality(Stripe!Units') <= Cardinality(Stripe!Units)
    BY <2>1, StripeUnitsStay
  <2>. QED BY <2>2
<1>5. \A k \in StripeInvoices : (Stripe!Crypto(k) /\ Cardinality(Stripe!Rights(k)) <= 1 + stripeRushed)'
  BY <1>3
<1>6. (Cardinality(Stripe!Units) <= stripeSpent + stripeSlips + stripeRushed)'
  BY <1>4
<1>. QED BY <1>1, <1>5, <1>6, StripeCardinality DEF Stripe!IInv

\* A step that changes no record.
LEMMA StripeRecordsAlike ==
    ASSUME Stripe!IInv, stripeRec' = stripeRec
    PROVE  \A k \in StripeInvoices : /\ Stripe!Newer(k) /\ (Stripe!Claimable(k)' => Stripe!Claimable(k))
                                     /\ stripeRec[k].status \in Stripe!Stay
                                        => stripeRec'[k].status \in Stripe!Stay
                                     /\ stripeRec'[k].ambig = stripeRec[k].ambig
<1>1. \A k \in StripeInvoices : stripeRec[k].ambig \in Nat
  BY StripeKnown0, StripeRecordFacts
<1>. QED BY <1>1 DEF Stripe!Newer, Stripe!Claimable, Stripe!Ambiguous

LEMMA StripeSeedKeeps ==
    ASSUME Stripe!IInv, NEW i \in StripeInvoices, Stripe!SeedStripeRecord(i) PROVE Stripe!IInv'
<1>. USE StripeKnown0
<1>1. PICK r \in Stripe!Records : /\ stripeRec' = [stripeRec EXCEPT ![i] = r]
                                  /\ r.status = stripeRec[i].status
                                     /\ r.retries = stripeRec[i].retries /\ r.ambig = stripeRec[i].ambig
                                  /\ r.unsigned = stripeRec[i].unsigned
                                     /\ r.verified = stripeRec[i].verified
  <2>. DEFINE r == [stripeRec[i] EXCEPT !.locked = TRUE]
  <2>1. r \in Stripe!Records
    BY DEF Stripe!Records
  <2>2. /\ r.status = stripeRec[i].status /\ r.retries = stripeRec[i].retries
           /\ r.ambig = stripeRec[i].ambig
        /\ r.unsigned = stripeRec[i].unsigned /\ r.verified = stripeRec[i].verified
    BY DEF Stripe!Records
  <2>3. stripeRec' = [stripeRec EXCEPT ![i] = r]
    BY DEF Stripe!SeedStripeRecord, Stripe!SetRec
  <2>. QED BY <2>1, <2>2, <2>3, Zenon
<1>2. /\ stripeRec' \in [Stripe!Known -> Stripe!Records] /\ stripeRec'[i] = r
         /\ \A k \in Stripe!Known \ {i} : stripeRec'[k] = stripeRec[k]
      /\ i \in Stripe!Known
  BY <1>1 DEF Stripe!Known
<1>3. UNCHANGED <<stripeSpent, stripeChannel, stripeProc, stripeReq, stripeSess, stripePermits,
                  stripePulled, stripeTold, stripeFaults, stripeRushed, stripeSlips, stripeMisread>>
  BY DEF Stripe!SeedStripeRecord, Stripe!external, Stripe!history
<1>4. Stripe!TypeOK'
  BY <1>2, <1>3 DEF Stripe!TypeOK
<1>5. \A k \in Stripe!Known : /\ stripeRec'[k].status = stripeRec[k].status
                                 /\ stripeRec'[k].retries = stripeRec[k].retries
                              /\ stripeRec'[k].ambig = stripeRec[k].ambig
                                 /\ stripeRec'[k].unsigned = stripeRec[k].unsigned
                              /\ stripeRec'[k].verified = stripeRec[k].verified
  BY <1>1, <1>2
<1>6. \A k \in StripeInvoices : /\ Stripe!Newer(k)
                                /\ stripeRec[k].status \in Stripe!Stay
                                   => stripeRec'[k].status \in Stripe!Stay
                                /\ Stripe!Claimable(k)' => Stripe!Claimable(k)
  <2>1. \A k \in StripeInvoices : stripeRec[k].ambig \in Nat /\ k \in Stripe!Known
    BY StripeRecordFacts DEF Stripe!Known
  <2>. QED BY <1>5, <2>1 DEF Stripe!Newer, Stripe!Claimable, Stripe!Ambiguous
<1>7. \A k \in StripeInvoices : Stripe!Crypto(k)'
  BY <1>3, <1>5 DEF Stripe!Crypto, Stripe!Executing, Stripe!Known
<1>8. \A s \in StripeSiblings : Stripe!Elsewhere(s)'
  BY <1>3, <1>5 DEF Stripe!Elsewhere, Stripe!Known
<1>9. Stripe!PaidWasPulled'
  BY <1>3, <1>5 DEF Stripe!PaidWasPulled, Stripe!Known
<1>10. (stripeMisread \/ \A o \in Stripe!Known : stripeRec[o].verified \in {o, "none"})'
  BY <1>3, <1>5
<1>11. \A k \in StripeInvoices : stripeRec'[k].ambig = stripeRec[k].ambig
  BY <1>5 DEF Stripe!Known
<1>. QED BY <1>3, <1>4, <1>6, <1>7, <1>8, <1>9, <1>10, <1>11, StripeWorldKeep

LEMMA StripeUpiClaimKeeps ==
    ASSUME Stripe!IInv, NEW i \in StripeInvoices, Stripe!ClaimByUpi(i) PROVE Stripe!IInv'
<1>. USE StripeKnown0
<1>1. UNCHANGED <<stripeRec, stripeSpent, stripeProc, stripeReq, stripeSess, stripePermits,
                  stripePulled, stripeTold, stripeFaults, stripeRushed, stripeSlips, stripeMisread>>
  BY DEF Stripe!ClaimByUpi, Stripe!external, Stripe!history
<1>2. stripeChannel[i] = "none" /\ stripeChannel'[i] = "upi"
      /\ \A k \in StripeInvoices \ {i} : stripeChannel'[k] = stripeChannel[k]
  BY DEF Stripe!ClaimByUpi
<1>3. Stripe!TypeOK'
  BY <1>1 DEF Stripe!ClaimByUpi, Stripe!TypeOK
<1>4. \A k \in StripeInvoices : Stripe!Crypto(k)'
      /\ (stripeChannel[k] # "none" => stripeChannel'[k] = stripeChannel[k])
  BY <1>1, <1>2 DEF Stripe!Crypto, Stripe!Executing
<1>5. \A s \in StripeSiblings : Stripe!Elsewhere(s)'
  BY <1>1 DEF Stripe!Elsewhere
<1>6. Stripe!PaidWasPulled'
  BY <1>1 DEF Stripe!PaidWasPulled
<1>. QED BY <1>1, <1>3, <1>4, <1>5, <1>6, StripeRecordsAlike, StripeWorldKeep

LEMMA StripeReportKeeps ==
    ASSUME Stripe!IInv, NEW i \in StripeInvoices, Stripe!ReportStripeDelivered(i) PROVE Stripe!IInv'
<1>. USE StripeKnown0
<1>1. UNCHANGED <<stripeRec, stripeSpent, stripeChannel, stripeProc, stripeReq, stripeSess,
                  stripePermits, stripePulled, stripeFaults, stripeRushed, stripeSlips, stripeMisread>>
      /\ stripeTold' = stripeTold \cup {i} /\ stripeRec[i].status = "paid"
  BY DEF Stripe!ReportStripeDelivered, Stripe!external, Stripe!store, Stripe!history
<1>2. Stripe!TypeOK'
  BY <1>1 DEF Stripe!TypeOK
<1>3. \A k \in StripeInvoices : Stripe!Crypto(k)'
  BY <1>1 DEF Stripe!Crypto, Stripe!Executing
<1>4. \A s \in StripeSiblings : Stripe!Elsewhere(s)'
  BY <1>1 DEF Stripe!Elsewhere
<1>5. Stripe!PaidWasPulled'
  BY <1>1 DEF Stripe!PaidWasPulled
<1>. QED BY <1>1, <1>2, <1>3, <1>4, <1>5, StripeRecordsAlike, StripeWorldKeep

LEMMA StripeResolveKeeps ==
    ASSUME Stripe!IInv, NEW i \in StripeInvoices, Stripe!ResolveManualReview(i) PROVE Stripe!IInv'
<1>. USE StripeKnown0
<1>. DEFINE s0 == IF i \in stripePulled THEN "paid" ELSE "failed_provider"
<1>1. PICK s \in {"paid", "failed_provider"} :
              stripeRec' = [stripeRec EXCEPT ![i] = [stripeRec[i] EXCEPT !.status = s]]
              /\ (s = "paid" => i \in stripePulled)
  <2>1. stripeRec' = [stripeRec EXCEPT ![i] = [stripeRec[i] EXCEPT !.status = s0]]
    BY DEF Stripe!ResolveManualReview, Stripe!SetRec
  <2>2. s0 \in {"paid", "failed_provider"} /\ (s0 = "paid" => i \in stripePulled)
    OBVIOUS
  <2>. QED BY <2>1, <2>2, Zenon
<1>2. stripeRec[i].status = "manual_review"
      /\ UNCHANGED <<stripeSpent, stripeChannel, stripeProc, stripeReq, stripeSess, stripePermits,
                     stripePulled, stripeTold, stripeFaults, stripeRushed, stripeSlips, stripeMisread>>
  BY DEF Stripe!ResolveManualReview, Stripe!external, Stripe!history
<1>3. s \in Stripe!Statuses /\ i \in Stripe!Known
  BY DEF Stripe!Statuses, Stripe!HumanGated, Stripe!Known
<1>. DEFINE r == [stripeRec[i] EXCEPT !.status = s]
<1>4. r \in Stripe!Records /\ r.status = s /\ r.verified = stripeRec[i].verified
      /\ r.ambig = stripeRec[i].ambig
  BY <1>3, StripeRecordSteps
<1>5. stripeRec' \in [Stripe!Known -> Stripe!Records] /\ stripeRec'[i] = r
      /\ \A k \in Stripe!Known \ {i} : stripeRec'[k] = stripeRec[k]
  BY <1>1, <1>3, <1>4
<1>. HIDE DEF r
<1>6. Stripe!TypeOK'
  BY <1>2, <1>5 DEF Stripe!TypeOK
<1>7. \A k \in StripeInvoices : /\ Stripe!Newer(k) /\ (Stripe!Claimable(k)' => Stripe!Claimable(k))
                                /\ stripeRec[k].status \in Stripe!Stay
                                   => stripeRec'[k].status \in Stripe!Stay
                                /\ stripeRec'[k].ambig = stripeRec[k].ambig
  <2>1. \A k \in StripeInvoices : k \in Stripe!Known /\ stripeRec[k].ambig \in Nat
    BY StripeRecordFacts DEF Stripe!Known
  <2>. QED BY <1>2, <1>4, <1>5, <2>1 DEF Stripe!Newer, Stripe!Claimable, Stripe!Ambiguous,
       Stripe!Stay, Stripe!HumanGated
<1>8. \A k \in StripeInvoices : Stripe!Crypto(k)'
  BY <1>2, <1>4, <1>5 DEF Stripe!Crypto, Stripe!Executing, Stripe!CannotPull, Stripe!Known
<1>9. \A t \in StripeSiblings : Stripe!Elsewhere(t)'
  BY <1>2, <1>5, StripeConstants DEF Stripe!Elsewhere, Stripe!Known
<1>10. Stripe!PaidWasPulled'
  BY <1>1, <1>2, <1>4, <1>5 DEF Stripe!PaidWasPulled, Stripe!Known
<1>11. (stripeMisread \/ \A o \in Stripe!Known : stripeRec[o].verified \in {o, "none"})'
  BY <1>2, <1>4, <1>5
<1>. QED BY <1>2, <1>6, <1>7, <1>8, <1>9, <1>10, <1>11, StripeWorldKeep

LEMMA StripeMovesKeeps ==
    ASSUME Stripe!IInv, NEW i \in StripeInvoices, Stripe!StripeMoves(i) PROVE Stripe!IInv'
<1>. USE StripeKnown0
<1>1. UNCHANGED <<stripeRec, stripeSpent, stripeChannel, stripeProc, stripeReq, stripePermits,
                  stripeTold, stripeFaults, stripeRushed, stripeSlips, stripeMisread>>
  BY DEF Stripe!StripeMoves, Stripe!store, Stripe!history
<1>2. PICK s \in Stripe!Sessions :
         /\ stripeSess' = [stripeSess EXCEPT ![i] = s]
         /\ \/ stripeSess[i] = "checkout" /\ stripePermits[i] > 0
               /\ stripePulled' = stripePulled \cup {i}
            \/ stripePulled' = stripePulled /\ s = "complete" /\ stripeSess[i] = "purchased"
            \/ stripePulled' = stripePulled /\ s \in {"failed", "gone"}
  BY DEF Stripe!StripeMoves, Stripe!Sessions
<1>3. Stripe!TypeOK'
  BY <1>1, <1>2 DEF Stripe!TypeOK, Stripe!Known
<1>4. \A k \in StripeInvoices : Stripe!Crypto(k)'
  BY <1>1, <1>2 DEF Stripe!Crypto, Stripe!Executing
<1>5. \A t \in StripeSiblings : Stripe!Elsewhere(t)'
  BY <1>1, <1>2, StripeConstants DEF Stripe!Elsewhere
<1>6. Stripe!PaidWasPulled'
  BY <1>1, <1>2 DEF Stripe!PaidWasPulled
<1>7. stripePulled \subseteq stripePulled'
  BY <1>2
<1>. QED BY <1>1, <1>3, <1>4, <1>5, <1>6, <1>7, StripeRecordsAlike, StripeWorldKeep

LEMMA StripeSiblingKeeps ==
    ASSUME Stripe!IInv, NEW s \in StripeSiblings, Stripe!SiblingMoves(s) PROVE Stripe!IInv'
<1>. USE StripeKnown0
<1>1. UNCHANGED <<stripeSpent, stripeChannel, stripeProc, stripeReq, stripeSess, stripePermits,
                  stripeTold, stripeFaults, stripeRushed, stripeSlips, stripeMisread>>
  BY DEF Stripe!SiblingMoves, Stripe!external, Stripe!history
<1>2. s \in Stripe!Known /\ s \notin StripeInvoices
  BY StripeConstants DEF Stripe!Known
<1>3. PICK r \in Stripe!Records :
         /\ stripeRec' = [stripeRec EXCEPT ![s] = r] /\ r.verified = stripeRec[s].verified
         /\ \/ r.status = "provider_paying" /\ stripePulled' = stripePulled /\ s \notin stripePulled
            \/ r.status = "provider_submitted" /\ stripePulled' = stripePulled \cup {s}
  <2>1. CASE stripeRec[s].status = "rozo_payment_created" /\ stripePulled' = stripePulled
             /\ stripeRec'
                = [stripeRec EXCEPT ![s] = [stripeRec[s] EXCEPT !.status = "provider_paying"]]
    <3>. DEFINE r == [stripeRec[s] EXCEPT !.status = "provider_paying"]
    <3>1. r \in Stripe!Records /\ r.status = "provider_paying" /\ r.verified = stripeRec[s].verified
      <4>1. "provider_paying" \in Stripe!Statuses
        BY DEF Stripe!Statuses, Stripe!InFlight
      <4>. QED BY <4>1, StripeRecordSteps
    <3>2. s \notin stripePulled
      BY <2>1 DEF Stripe!Elsewhere
    <3>. QED BY <2>1, <3>1, <3>2, Zenon
  <2>2. ASSUME NEW named \in BOOLEAN, stripePulled' = stripePulled \cup {s},
               stripeRec'
               = [stripeRec EXCEPT ![s] = [stripeRec[s] EXCEPT !.status = "provider_submitted",
                                           !.bound = named]]
        PROVE  \E r \in Stripe!Records : /\ stripeRec' = [stripeRec EXCEPT ![s] = r]
                                            /\ r.verified = stripeRec[s].verified
                                         /\ r.status = "provider_submitted"
                                            /\ stripePulled' = stripePulled \cup {s}
    <3>. DEFINE r == [stripeRec[s] EXCEPT !.status = "provider_submitted", !.bound = named]
    <3>1. r \in Stripe!Records /\ r.status = "provider_submitted" /\ r.verified = stripeRec[s].verified
      BY DEF Stripe!Records, Stripe!Statuses, Stripe!InFlight
    <3>. QED BY <2>2, <3>1, Zenon
  <2>. QED BY <2>1, <2>2 DEF Stripe!SiblingMoves, Stripe!SetRec, Stripe!external
<1>4. stripeRec' \in [Stripe!Known -> Stripe!Records] /\ stripeRec'[s] = r
      /\ \A k \in Stripe!Known \ {s} : stripeRec'[k] = stripeRec[k]
  BY <1>2, <1>3
<1>5. Stripe!TypeOK' /\ stripePulled \subseteq stripePulled'
  BY <1>1, <1>2, <1>3, <1>4 DEF Stripe!TypeOK
<1>6. \A k \in StripeInvoices : stripeRec'[k] = stripeRec[k]
  BY <1>2, <1>4 DEF Stripe!Known
<1>7. \A k \in StripeInvoices : /\ Stripe!Newer(k) /\ (Stripe!Claimable(k)' => Stripe!Claimable(k))
                                /\ stripeRec[k].status \in Stripe!Stay
                                   => stripeRec'[k].status \in Stripe!Stay
                                /\ stripeRec'[k].ambig = stripeRec[k].ambig
  <2>1. \A k \in StripeInvoices : stripeRec[k].ambig \in Nat
    BY StripeRecordFacts
  <2>. QED BY <1>6, <2>1 DEF Stripe!Newer, Stripe!Claimable, Stripe!Ambiguous
<1>8. \A k \in StripeInvoices : Stripe!Crypto(k)'
  BY <1>1, <1>2, <1>3, <1>6 DEF Stripe!Crypto, Stripe!Executing
<1>9. \A t \in StripeSiblings : Stripe!Elsewhere(t)'
  BY <1>3, <1>4 DEF Stripe!Elsewhere, Stripe!Known
<1>10. Stripe!PaidWasPulled'
  BY <1>1, <1>5, <1>6 DEF Stripe!PaidWasPulled
<1>11. (stripeMisread \/ \A o \in Stripe!Known : stripeRec[o].verified \in {o, "none"})'
  BY <1>1, <1>3, <1>4
<1>. QED BY <1>1, <1>5, <1>6, <1>7, <1>8, <1>9, <1>10, <1>11, StripeWorldKeep

\* The one pull of a window, when there is one, is in it.
LEMMA StripeFoundFacts ==
    ASSUME NEW S, Stripe!Found(S) # "none" PROVE Stripe!Found(S) \in S
<1>1. Cardinality(S) = 1 /\ Stripe!Found(S) = CHOOSE j \in S : TRUE
  BY StripeCardinality DEF Stripe!Found
<1>2. S # {}
  BY <1>1, FS_EmptySet
<1>. QED BY <1>1, <1>2

LEMMA StripeTheirsFacts ==
    ASSUME NEW o, NEW window, window[o] \subseteq stripePulled
    PROVE  Stripe!Theirs(o, window) \in stripePulled \cup {"none"}
BY StripeFoundFacts DEF Stripe!Theirs

\* What a record remembers of a pull.
LEMMA StripeRememberFacts ==
    ASSUME NEW r \in Stripe!Records, NEW j \in Stripe!Known
    PROVE  LET q == Stripe!Remember(r, j) IN
           /\ q \in Stripe!Records /\ q.status = r.status /\ q.retries = r.retries /\ q.ambig = r.ambig
           /\ q.unsigned = r.unsigned /\ q.verified = (IF r.verified = "none" THEN j ELSE r.verified)
BY DEF Stripe!Remember, Stripe!Records

\* A pull that Stripe made for a record of its own is found at that record.
LEMMA StripeOwnPull ==
    ASSUME Stripe!IInv, ~stripeMisread, NEW i \in StripeInvoices, NEW window,
           NEW j \in stripePulled, j # i,
           \A o \in DOMAIN stripeRec \ {i} : Stripe!AccountedFor(o, j, window)
    PROVE  j \in Stripe!Located(i, j, window) /\ Stripe!Theirs(j, window) # j
<1>. USE StripeKnown0
<1>1. j \in Stripe!Known /\ DOMAIN stripeRec = Stripe!Known
  OBVIOUS
<1>2. Stripe!AccountedFor(j, j, window) /\ stripeRec[j].verified \in {j, "none"}
  BY <1>1
<1>3. stripeRec[j].status \notin Stripe!CannotPull
  <2>1. CASE j \in StripeInvoices
    BY <2>1 DEF Stripe!Crypto
  <2>2. CASE j \in StripeSiblings
    BY <2>2 DEF Stripe!Elsewhere, Stripe!CannotPull
  <2>. QED BY <1>1, <2>1, <2>2 DEF Stripe!Known
<1>4. stripeRec[j].verified = "none" /\ Stripe!Theirs(j, window) \notin {"none", j}
  BY <1>2, <1>3 DEF Stripe!AccountedFor
<1>. QED BY <1>1, <1>3, <1>4 DEF Stripe!Located

LEMMA StripeCloseKeeps ==
    ASSUME Stripe!IInv, NEW i \in StripeInvoices, Stripe!CloseFromChain(i) PROVE Stripe!IInv'
<1>. USE StripeKnown0
<1>1. DOMAIN stripeRec = Stripe!Known /\ i \in Stripe!Known /\ stripePulled \subseteq Stripe!Known
      /\ "none" \notin Stripe!Known
  BY StripeConstants DEF Stripe!Known
<1>2. stripeRec[i].status = "manual_review"
      /\ UNCHANGED <<stripeSpent, stripeChannel, stripeProc, stripeReq, stripeSess, stripePermits,
                     stripePulled, stripeTold, stripeFaults, stripeRushed, stripeSlips>>
  BY DEF Stripe!CloseFromChain, Stripe!external
<1>20. PICK window \in [Stripe!Known -> SUBSET stripePulled] :
         LET j     == IF stripeRec[i].bound THEN i ELSE Stripe!Found(window[i])
             proof == IF stripeRec[i].bound THEN i \in stripePulled
                      ELSE j # "none"
                      /\ \A o \in DOMAIN stripeRec \ {i} : Stripe!AccountedFor(o, j, window)
             found == IF stripeRec[i].bound \/ j = "none" THEN {} ELSE Stripe!Located(i, j, window)
         IN \E R \in SUBSET found :
              /\ stripeRec' = [o \in Stripe!Known |->
                                 IF o \in R THEN Stripe!Remember(stripeRec[o], Stripe!Theirs(o, window))
                                 ELSE IF o = i /\ proof
                                 THEN [Stripe!Remember(stripeRec[i], j) EXCEPT !.status = "paid"]
                                 ELSE stripeRec[o]]
              /\ stripeMisread'
                 = (stripeMisread \/ \E o \in R \cup (IF proof THEN found \cap {j} ELSE {}) :
                                            Stripe!Theirs(o, window) # o)
  BY <1>1 DEF Stripe!CloseFromChain
<1>. DEFINE j     == IF stripeRec[i].bound THEN i ELSE Stripe!Found(window[i])
            proof == IF stripeRec[i].bound THEN i \in stripePulled
                     ELSE j # "none"
                     /\ \A o \in DOMAIN stripeRec \ {i} : Stripe!AccountedFor(o, j, window)
            found == IF stripeRec[i].bound \/ j = "none" THEN {} ELSE Stripe!Located(i, j, window)
<1>21. PICK R \in SUBSET found :
         /\ stripeRec' = [o \in Stripe!Known |->
                            IF o \in R THEN Stripe!Remember(stripeRec[o], Stripe!Theirs(o, window))
                            ELSE IF o = i /\ proof
                            THEN [Stripe!Remember(stripeRec[i], j) EXCEPT !.status = "paid"]
                            ELSE stripeRec[o]]
         /\ stripeMisread' = (stripeMisread \/ \E o \in R \cup (IF proof THEN found \cap {j} ELSE {}) :
                                       Stripe!Theirs(o, window) # o)
  BY <1>20
<1>22. /\ stripeRec[i].bound => j = i /\ (proof => i \in stripePulled)
       /\ ~stripeRec[i].bound => /\ j = Stripe!Found(window[i])
                                 /\ proof => j # "none"
                                    /\ \A o \in DOMAIN stripeRec \ {i} : Stripe!AccountedFor(o, j,
                                       window)
       /\ \A o \in found : ~stripeRec[i].bound /\ j # "none" /\ o \in Stripe!Located(i, j, window)
       /\ ~stripeRec[i].bound /\ j # "none" => found = Stripe!Located(i, j, window)
  OBVIOUS
<1>. HIDE DEF j, proof, found
<1>3. /\ R \subseteq found
      /\ \A o \in Stripe!Known : stripeRec'[o] = IF o \in R
         THEN Stripe!Remember(stripeRec[o], Stripe!Theirs(o, window))
                                     ELSE IF o = i /\ proof
                                     THEN [Stripe!Remember(stripeRec[i], j) EXCEPT !.status = "paid"]
                                     ELSE stripeRec[o]
      /\ stripeRec' = [o \in Stripe!Known |-> stripeRec'[o]]
      /\ stripeMisread' = (stripeMisread \/ \E o \in R \cup (IF proof THEN found \cap {j} ELSE {}) :
                                    Stripe!Theirs(o, window) # o)
  BY <1>21
<1>4. \A o \in Stripe!Known : Stripe!Theirs(o, window) \in stripePulled \cup {"none"}
  BY StripeTheirsFacts
<1>5. \A o \in R : /\ o \in Stripe!Known /\ o # i /\ stripeRec[o].verified = "none"
                      /\ Stripe!Theirs(o, window) \in Stripe!Known
  BY <1>1, <1>3, <1>4, <1>22 DEF Stripe!Located
<1>6. proof => j \in stripePulled /\ j \in Stripe!Known
  BY <1>1, <1>22, StripeFoundFacts
<1>7. proof => stripeRec[i].bound
      \/ (j # "none" /\ \A o \in DOMAIN stripeRec \ {i} : Stripe!AccountedFor(o, j, window))
  BY <1>22
<1>8. stripeMisread' \in BOOLEAN /\ (stripeMisread => stripeMisread')
  BY <1>3
<1>9. ASSUME proof, ~stripeMisread' PROVE j = i
  <2>1. CASE stripeRec[i].bound
    BY <1>22, <2>1
  <2>2. CASE ~stripeRec[i].bound
    <3>1. SUFFICES ASSUME j # i PROVE FALSE
      OBVIOUS
    <3>2. j \in Stripe!Located(i, j, window) /\ Stripe!Theirs(j, window) # j
      BY <1>6, <1>7, <1>8, <1>9, <2>2, <3>1, StripeOwnPull
    <3>3. found = Stripe!Located(i, j, window)
      BY <1>7, <1>9, <1>22, <2>2
    <3>. QED BY <1>3, <1>9, <3>2, <3>3
  <2>. QED BY <2>1, <2>2
<1>10. ASSUME NEW o \in Stripe!Known
       PROVE  /\ stripeRec'[o] \in Stripe!Records /\ stripeRec'[o].retries = stripeRec[o].retries
                 /\ stripeRec'[o].ambig = stripeRec[o].ambig
              /\ stripeRec'[o].unsigned = stripeRec[o].unsigned
              /\ stripeRec'[o].status = stripeRec[o].status
                 \/ (o = i /\ stripeRec'[o].status = "paid" /\ proof)
              /\ \/ stripeRec'[o].verified = stripeRec[o].verified
                 \/ o \in R /\ stripeRec'[o].verified = Stripe!Theirs(o, window)
                 \/ o = i /\ proof /\ stripeRec'[o].verified = j
  <2>1. CASE o \in R
    <3>1. stripeRec'[o] = Stripe!Remember(stripeRec[o], Stripe!Theirs(o, window))
      BY <1>3, <2>1
    <3>2. PICK t \in Stripe!Known : t = Stripe!Theirs(o, window)
      BY <1>5, <2>1
    <3>3. LET q == Stripe!Remember(stripeRec[o], t) IN
          /\ q \in Stripe!Records /\ q.status = stripeRec[o].status
             /\ q.retries = stripeRec[o].retries /\ q.ambig = stripeRec[o].ambig
          /\ q.unsigned = stripeRec[o].unsigned
          /\ q.verified = (IF stripeRec[o].verified = "none" THEN t ELSE stripeRec[o].verified)
      BY StripeRememberFacts
    <3>. QED BY <1>5, <2>1, <3>1, <3>2, <3>3
  <2>2. CASE o \notin R /\ o = i /\ proof
    <3>1. stripeRec'[o] = [Stripe!Remember(stripeRec[i], j) EXCEPT !.status = "paid"]
      BY <1>3, <2>2
    <3>2. PICK q : q = Stripe!Remember(stripeRec[i], j)
      OBVIOUS
    <3>3. /\ q \in Stripe!Records /\ q.retries = stripeRec[i].retries /\ q.ambig = stripeRec[i].ambig
          /\ q.unsigned = stripeRec[i].unsigned /\ q.verified \in {stripeRec[i].verified, j}
      BY <1>6, <2>2, <3>2, StripeRememberFacts
    <3>4. "paid" \in Stripe!Statuses
      BY DEF Stripe!Statuses
    <3>. DEFINE t == [q EXCEPT !.status = "paid"]
    <3>5. /\ t \in Stripe!Records /\ t.status = "paid" /\ t.retries = q.retries
          /\ t.ambig = q.ambig /\ t.unsigned = q.unsigned /\ t.verified = q.verified
      BY <3>3, <3>4, StripeRecordSteps
    <3>6. stripeRec'[o] = t
      BY <3>1, <3>2
    <3>. HIDE DEF t
    <3>. QED BY <2>2, <3>3, <3>5, <3>6
  <2>3. CASE o \notin R /\ ~(o = i /\ proof)
    <3>1. stripeRec'[o] = stripeRec[o]
      BY <1>3, <2>3
    <3>. QED BY <3>1
  <2>. QED BY <2>1, <2>2, <2>3
<1>11. stripeRec' \in [Stripe!Known -> Stripe!Records]
  <2>1. \A o \in Stripe!Known : stripeRec'[o] \in Stripe!Records
    BY <1>10
  <2>. QED BY <1>3, <2>1
<1>12. Stripe!TypeOK'
  BY <1>2, <1>8, <1>11 DEF Stripe!TypeOK
<1>13. \A k \in StripeInvoices : /\ Stripe!Newer(k) /\ (Stripe!Claimable(k)' => Stripe!Claimable(k))
                                 /\ stripeRec[k].status \in Stripe!Stay
                                    => stripeRec'[k].status \in Stripe!Stay
                                 /\ stripeRec'[k].ambig = stripeRec[k].ambig
  <2>1. \A k \in StripeInvoices : k \in Stripe!Known /\ stripeRec[k].ambig \in Nat
    BY StripeRecordFacts DEF Stripe!Known
  <2>. QED BY <1>10, <2>1 DEF Stripe!Newer, Stripe!Claimable, Stripe!Ambiguous, Stripe!Stay
<1>14. \A k \in StripeInvoices : Stripe!Crypto(k)'
  <2>1. \A k \in StripeInvoices : k \in Stripe!Known
    BY DEF Stripe!Known
  <2>. QED BY <1>2, <1>10, <2>1 DEF Stripe!Crypto, Stripe!Executing, Stripe!CannotPull
<1>15. \A s \in StripeSiblings : Stripe!Elsewhere(s)'
  BY <1>2, <1>10, StripeConstants DEF Stripe!Elsewhere, Stripe!Known
<1>16. Stripe!PaidWasPulled'
  <2>1. SUFFICES ASSUME ~stripeMisread'
                        PROVE (\A k \in StripeInvoices : stripeRec'[k].status = "paid"
                               => k \in stripePulled) /\ stripeTold \subseteq stripePulled
    BY <1>2 DEF Stripe!PaidWasPulled
  <2>2. (\A k \in StripeInvoices : stripeRec[k].status = "paid" => k \in stripePulled)
        /\ stripeTold \subseteq stripePulled
    BY <1>8, <2>1 DEF Stripe!PaidWasPulled
  <2>3. ASSUME NEW k \in StripeInvoices, stripeRec'[k].status = "paid" PROVE k \in stripePulled
    <3>1. k \in Stripe!Known
      BY DEF Stripe!Known
    <3>. QED BY <1>6, <1>9, <1>10, <2>1, <2>2, <2>3, <3>1
  <2>. QED BY <2>2, <2>3
<1>17. (stripeMisread \/ \A o \in Stripe!Known : stripeRec[o].verified \in {o, "none"})'
  <2>1. SUFFICES ASSUME ~stripeMisread',
  NEW o \in Stripe!Known PROVE stripeRec'[o].verified \in {o, "none"}
    OBVIOUS
  <2>2. stripeRec[o].verified \in {o, "none"}
    BY <1>8, <2>1
  <2>3. \A k \in R : Stripe!Theirs(k, window) = k
    BY <1>3, <2>1
  <2>. QED BY <1>9, <1>10, <2>1, <2>2, <2>3
<1>. QED BY <1>2, <1>12, <1>13, <1>14, <1>15, <1>16, <1>17, StripeWorldKeep

-----------------------------------------------------------------------------
(* Stripe invoices: the steps of a handler.                                *)

\* A step that leaves records and requests as they are.
LEMMA StripeQuietMoves ==
    ASSUME Stripe!IInv, NEW p \in StripeHandlers, NEW i \in StripeInvoices, NEW h \in Stripe!Locals,
           Stripe!Quiet(p, i, h)
    PROVE  /\ Stripe!Moves(p, i, h, stripeRec[i]) /\ Stripe!TypeOK' /\ stripeRec[i] \in Stripe!Records
           /\ stripeProc'[p] = h /\ Stripe!Inv(p)' = h.inv
              /\ \A q \in StripeHandlers \ {p} : stripeProc'[q] = stripeProc[q]
                 /\ stripeReq'[q] = stripeReq[q]
           /\ Stripe!Newer(i) /\ Stripe!Executing(i)' = Stripe!Executing(i)
              /\ Stripe!Calls' = Stripe!Calls /\ (Stripe!Clear(i)' <=> Stripe!Clear(i))
           /\ (Stripe!Claimable(i)' <=> Stripe!Claimable(i))
              /\ (Stripe!Ambiguous(i)' <=> Stripe!Ambiguous(i))
           /\ (h.pc # "refund" => Stripe!Refunds' \subseteq Stripe!Refunds)
<1>. USE StripeKnown0 DEF Stripe!Quiet
<1>1. i \in Stripe!Known /\ stripeRec = [stripeRec EXCEPT ![i] = stripeRec[i]]
      /\ stripeRec[i] \in Stripe!Records /\ stripeRec[i].ambig \in Nat
  BY StripeRecordFacts DEF Stripe!Known
<1>2. \A k \in StripeInvoices : Stripe!Executing(k)' = Stripe!Executing(k)
  BY DEF Stripe!Executing
<1>3. \A k \in StripeInvoices \ {i} : stripeChannel'[k] = stripeChannel[k]
  BY DEF Stripe!TakesChannel
<1>4. stripeChannel[i] # "none" => stripeChannel'[i] = stripeChannel[i]
  BY DEF Stripe!TakesChannel
<1>5. Stripe!Moves(p, i, h, stripeRec[i])
  BY <1>1, <1>2, <1>3, <1>4 DEF Stripe!Moves
<1>6. stripeChannel' \in [StripeInvoices -> {"none", "crypto", "upi"}]
      /\ stripeReq' \in [StripeHandlers -> [inv : StripeInvoices, st : Stripe!Answers]]
  BY DEF Stripe!TakesChannel
<1>7. Stripe!TypeOK' /\ stripeProc'[p] = h /\ Stripe!Inv(p)' = h.inv
      /\ \A q \in StripeHandlers \ {p} : stripeProc'[q] = stripeProc[q]
  BY <1>1, <1>5, <1>6, StripeMovesType
<1>8. Stripe!Newer(i) /\ (Stripe!Claimable(i)' <=> Stripe!Claimable(i))
      /\ (Stripe!Ambiguous(i)' <=> Stripe!Ambiguous(i))
  BY <1>1 DEF Stripe!Newer, Stripe!Ambiguous, Stripe!Claimable
<1>9. Stripe!Calls' = Stripe!Calls /\ (Stripe!Clear(i)' <=> Stripe!Clear(i))
  BY <1>2 DEF Stripe!Calls, Stripe!Clear
<1>10. h.pc # "refund" => Stripe!Refunds' \subseteq Stripe!Refunds
  BY <1>7 DEF Stripe!Refunds, Stripe!At
<1>. QED BY <1>1, <1>2, <1>5, <1>7, <1>8, <1>9, <1>10

\* After a quiet step nothing is owed of an invoice that was not before, unless
\* the handler itself is now owed it or has a retry in hand.
LEMMA StripeQuietOwed ==
    ASSUME Stripe!IInv, Stripe!TypeOK', NEW p \in StripeHandlers, NEW i \in StripeInvoices,
           \A q \in StripeHandlers \ {p} : stripeProc'[q] = stripeProc[q]
           /\ stripeReq'[q] = stripeReq[q],
           Stripe!Newer(i), Stripe!Clear(i)' <=> Stripe!Clear(i), stripeRec' = stripeRec,
           Stripe!Inv(p)' = i /\ Stripe!Charged(p)' => Stripe!Owed(i),
           Stripe!Matched(p, i)' => Stripe!Owed(i)
    PROVE  Stripe!Owed(i)' => Stripe!Owed(i)
<1>1. stripeRec'[i].ambig = stripeRec[i].ambig /\ stripeRec[i].ambig \in Nat
  BY StripeKnown0, StripeRecordFacts
<1>2. Stripe!Clear(i)' => Stripe!Clear(i)
  OBVIOUS
<1>3. ~(Stripe!Ambiguous(i)' /\ stripeRec[i].ambig < stripeRec'[i].ambig
        /\ (stripeRec'[i].unsigned \/ Stripe!Clear(i)))
  BY <1>1
<1>4. Stripe!Ambiguous(i)' /\ Stripe!Matched(p, i)' => Stripe!Owed(i)
  OBVIOUS
<1>. QED BY <1>2, <1>3, <1>4, StripeOwedFrom

LEMMA StripeQuietMay ==
    ASSUME Stripe!IInv, Stripe!TypeOK', NEW p \in StripeHandlers, NEW i \in StripeInvoices,
           \A q \in StripeHandlers \ {p} : stripeProc'[q] = stripeProc[q]
           /\ stripeReq'[q] = stripeReq[q],
           Stripe!Newer(i), stripeRec' = stripeRec,
           Stripe!Inv(p)' = i /\ Stripe!Holds(p)' /\ ~Stripe!Gone(p)' => Stripe!MaySign(i),
           Stripe!Matched(p, i)' => Stripe!MaySign(i)
    PROVE  Stripe!MaySign(i)' => Stripe!MaySign(i)
<1>1. stripeRec'[i].ambig = stripeRec[i].ambig /\ stripeRec[i].ambig \in Nat
  BY StripeKnown0, StripeRecordFacts
<1>2. Stripe!Claimable(i)' => Stripe!MaySign(i)
  BY DEF Stripe!Claimable, Stripe!MaySign
<1>3. ~(Stripe!Ambiguous(i)' /\ stripeRec[i].ambig < stripeRec'[i].ambig /\ stripeRec'[i].unsigned)
  BY <1>1
<1>4. Stripe!Ambiguous(i)' /\ Stripe!Matched(p, i)' => Stripe!MaySign(i)
  OBVIOUS
<1>. QED BY <1>2, <1>3, <1>4, StripeMayFrom

\* What a handler that holds an invoice is: it has the claim.
LEMMA StripeHolderStep ==
    ASSUME Stripe!IInv, NEW p \in StripeHandlers, Stripe!Holds(p), NEW i \in StripeInvoices,
           i = Stripe!Inv(p)
    PROVE  /\ stripeRec[i].status \in Stripe!Stay /\ ~Stripe!Claimable(i) /\ ~Stripe!Ambiguous(i)
           /\ \A q \in StripeHandlers \ {p} : ~(Stripe!Holds(q) /\ Stripe!Inv(q) = i)
           /\ ~Stripe!Gone(p) => Stripe!MaySign(i)
           /\ Stripe!Charged(p) => Stripe!Owed(i)
<1>1. /\ stripeRec[i].status \in Stripe!Stay /\ ~Stripe!Claimable(i) /\ ~Stripe!Ambiguous(i)
      /\ \A q \in StripeHandlers \ {p} : ~(Stripe!Holds(q) /\ Stripe!Inv(q) = i)
  BY StripeLoneHolder
<1>2. (~Stripe!Gone(p) => Stripe!MaySign(i)) /\ (Stripe!Charged(p) => Stripe!Owed(i))
  BY DEF Stripe!MaySign, Stripe!Owed
<1>. QED BY <1>1, <1>2

\* A handler with the claim moves on, and the record stays as it is.
LEMMA StripeHolderQuiet ==
    ASSUME Stripe!IInv, NEW p \in StripeHandlers, NEW i \in StripeInvoices, i = Stripe!Inv(p),
           Stripe!Holds(p),
           NEW h \in Stripe!Locals, Stripe!Quiet(p, i, h), stripeRushed' = stripeRushed,
           h.pc \in {"reserve", "load", "release", "final", "unclaim", "idle"},
           Stripe!Own(p)', Stripe!Crypto(i)',
           h.pc \in {"reserve", "load", "release", "unclaim"}
           \/ (h.pc = "final" /\ ~Stripe!Gone(p)') => ~Stripe!Gone(p),
           Stripe!Charged(p)' => Stripe!Owed(i),
           stripeSpent + stripeSlips <= stripeSpent' + stripeSlips'
    PROVE  Stripe!IInv'
<1>1. /\ Stripe!Moves(p, i, h, stripeRec[i]) /\ Stripe!TypeOK' /\ stripeRec[i] \in Stripe!Records
      /\ stripeProc'[p] = h /\ Stripe!Inv(p)' = h.inv
         /\ \A q \in StripeHandlers \ {p} : stripeProc'[q] = stripeProc[q]
            /\ stripeReq'[q] = stripeReq[q]
      /\ Stripe!Newer(i) /\ Stripe!Executing(i)' = Stripe!Executing(i)
         /\ Stripe!Calls' = Stripe!Calls /\ (Stripe!Clear(i)' <=> Stripe!Clear(i))
      /\ (h.pc # "refund" => Stripe!Refunds' \subseteq Stripe!Refunds)
  BY StripeQuietMoves
<1>2. /\ \A q \in StripeHandlers \ {p} : ~(Stripe!Holds(q) /\ Stripe!Inv(q) = i)
      /\ ~Stripe!Gone(p) => Stripe!MaySign(i)
  BY StripeHolderStep
<1>3. ~Stripe!Matched(p, i)'
  BY <1>1 DEF Stripe!Matched, Stripe!At
<1>10. stripeRec' = stripeRec /\ stripeSpent' \in Nat /\ stripeSlips' \in Nat
  BY DEF Stripe!Quiet
<1>4. Stripe!MaySign(i)' => Stripe!MaySign(i)
  <2>1. Stripe!Inv(p)' = i /\ Stripe!Holds(p)' /\ ~Stripe!Gone(p)' => Stripe!MaySign(i)
    BY <1>1, <1>2 DEF Stripe!Holds
  <2>. QED BY <1>1, <1>3, <1>10, <2>1, StripeQuietMay
<1>5. Stripe!Owed(i)' => Stripe!Owed(i)
  BY <1>1, <1>3, <1>10, StripeQuietOwed
<1>6. \A q \in StripeHandlers \ {p} : Stripe!Holds(q) /\ Stripe!Inv(q) = i
      => stripeRec[i].status \in Stripe!Stay /\ ~(Stripe!Holds(p)' /\ h.inv = i)
  BY <1>2
<1>7. Stripe!Calls' \subseteq Stripe!Calls /\ Stripe!Refunds' \subseteq Stripe!Refunds
  BY <1>1
<1>8. stripeSpent + stripeSlips + stripeRushed <= stripeSpent' + stripeSlips' + stripeRushed'
  BY <1>10, StripeKnown0
<1>9. (stripeRec[i].status = "paid" => stripeRec[i].status = "paid" \/ i \in stripePulled)
      /\ stripeRec[i].verified = stripeRec[i].verified
  OBVIOUS
<1>. QED BY <1>1, <1>4, <1>5, <1>6, <1>7, <1>8, <1>9, StripeTameStep

\* Where a handler goes on to with nothing remembered.
LEMMA StripeEntersUnclaim ==
    ASSUME Stripe!IInv, NEW p \in StripeHandlers,
           NEW o \in {"payout_seen", "failed_insufficient_balance"}, Stripe!Enters(p, "unclaim", o)
    PROVE  \E h \in Stripe!Locals : /\ stripeProc' = [stripeProc EXCEPT ![p] = h]
                                       /\ h.pc = "unclaim" /\ h.inv = Stripe!Inv(p) /\ h.to = o
                                    /\ Stripe!Fresh(h)
<1>1. PICK l \in Stripe!Steps : l = "unclaim"
  BY DEF Stripe!Steps
<1>2. o \in Stripe!Outcomes
  BY DEF Stripe!Outcomes, Stripe!Statuses
<1>3. Stripe!Enters(p, l, o)
  BY <1>1
<1>4. \E h \in Stripe!Locals : /\ stripeProc' = [stripeProc EXCEPT ![p] = h] /\ h.pc = l
                                  /\ h.inv = Stripe!Inv(p) /\ h.to = o
                               /\ Stripe!Fresh(h)
  BY <1>2, <1>3, StripeEntersFacts
<1>. QED BY <1>1, <1>4

LEMMA StripeEntersFinal ==
    ASSUME Stripe!IInv, NEW p \in StripeHandlers,
           Stripe!Enters(p, "final", "claimed_by_other_channel")
    PROVE  \E h \in Stripe!Locals : /\ stripeProc' = [stripeProc EXCEPT ![p] = h] /\ h.pc = "final"
                                       /\ h.inv = Stripe!Inv(p)
                                    /\ h.to = "claimed_by_other_channel"
                                    /\ Stripe!Fresh(h)
<1>1. PICK l \in Stripe!Steps, o \in Stripe!Outcomes : l = "final" /\ o = "claimed_by_other_channel"
  BY DEF Stripe!Steps, Stripe!Outcomes, Stripe!Statuses, Stripe!HumanGated
<1>3. Stripe!Enters(p, l, o)
  BY <1>1
<1>4. \E h \in Stripe!Locals : /\ stripeProc' = [stripeProc EXCEPT ![p] = h] /\ h.pc = l
                                  /\ h.inv = Stripe!Inv(p) /\ h.to = o
                               /\ Stripe!Fresh(h)
  BY <1>3, StripeEntersFacts
<1>. QED BY <1>1, <1>4

LEMMA StripeClaimChannelKeeps ==
    ASSUME Stripe!IInv, NEW p \in StripeHandlers, Stripe!ClaimChannel(p) PROVE Stripe!IInv'
<1>. USE StripeKnown0
<1>1. PICK i \in StripeInvoices : i = Stripe!Inv(p)
  OBVIOUS
<1>2. Stripe!At(p, "channel")
      /\ UNCHANGED <<stripeRec, stripeSpent, stripeReq, stripeSess, stripePermits, stripePulled,
                     stripeTold, stripeFaults, stripeRushed, stripeSlips, stripeMisread>>
  BY DEF Stripe!ClaimChannel, Stripe!external, Stripe!history
<1>3. Stripe!Holds(p) /\ ~Stripe!Gone(p) /\ stripeProc[p].reserved = FALSE
      /\ stripeProc[p].started = FALSE /\ stripeReq[p].st # "executing"
  BY <1>2, StripeLocalFacts DEF Stripe!Holds, Stripe!Gone, Stripe!At, Stripe!Own, Stripe!Busy
<1>4. stripeRec[i].status \in Stripe!Stay
      /\ \A q \in StripeHandlers \ {p} : ~(Stripe!Holds(q) /\ Stripe!Inv(q) = i)
  BY <1>1, <1>3, StripeHolderStep
<1>5. PICK h \in Stripe!Locals :
         /\ stripeProc' = [stripeProc EXCEPT ![p] = h] /\ h.inv = i /\ h.reserved = FALSE
            /\ h.started = FALSE
         /\ \/ h.pc = "unclaim" /\ h.to = "payout_seen" /\ stripeChannel' = stripeChannel
            \/ h.pc = "final" /\ h.to = "claimed_by_other_channel" /\ stripeChannel' = stripeChannel
               /\ stripeChannel[i] = "upi"
            \/ h.pc = "reserve" /\ stripeChannel[i] # "upi"
               /\ stripeChannel' = [stripeChannel EXCEPT ![i] = "crypto"]
  <2>1. CASE Stripe!Enters(p, "unclaim", "payout_seen") /\ stripeChannel' = stripeChannel
    BY <1>1, <2>1, StripeEntersUnclaim DEF Stripe!Fresh
  <2>2. CASE Stripe!Enters(p, "final", "claimed_by_other_channel") /\ stripeChannel' = stripeChannel
             /\ stripeChannel[i] = "upi"
    BY <1>1, <2>2, StripeEntersFinal DEF Stripe!Fresh
  <2>3. CASE Stripe!Go(p, "reserve") /\ stripeChannel[i] # "upi"
             /\ stripeChannel' = [stripeChannel EXCEPT ![i] = "crypto"]
    <3>1. "reserve" \in Stripe!Steps
      BY DEF Stripe!Steps
    <3>. QED BY <1>1, <1>3, <2>3, <3>1, StripeGoFacts
  <2>. QED BY <1>1, <2>1, <2>2, <2>3 DEF Stripe!ClaimChannel
<1>6. stripeProc'[p] = h /\ \A q \in StripeHandlers \ {p} : stripeProc'[q] = stripeProc[q]
  BY <1>5
<1>7. Stripe!Quiet(p, i, h)
  BY <1>2, <1>5 DEF Stripe!Quiet, Stripe!TakesChannel
<1>8. Stripe!Own(p)'
  <2>1. Stripe!Claimed(p)'
    BY <1>2, <1>4, <1>5, <1>6 DEF Stripe!Claimed, Stripe!Holds, Stripe!Inv
  <2>2. Stripe!Busy(p)'
    BY <1>2, <1>3, <1>5, <1>6 DEF Stripe!Own, Stripe!Busy, Stripe!At, Stripe!Inv, Stripe!Rejected,
         Stripe!Sent
  <2>3. Stripe!Seen(p)' /\ Stripe!Toward(p)'
    BY <1>5, <1>6 DEF Stripe!Seen, Stripe!Toward, Stripe!At, Stripe!Inv
  <2>. QED BY <2>1, <2>2, <2>3 DEF Stripe!Own
<1>9. Stripe!Crypto(i)'
  BY <1>2, <1>4, <1>5 DEF Stripe!Crypto, Stripe!Executing, Stripe!Stay, Stripe!HumanGated,
       Stripe!CannotPull
<1>10. ~Stripe!Charged(p)'
  BY <1>5, <1>6 DEF Stripe!Charged, Stripe!At
<1>11. /\ h.pc \in {"reserve", "load", "release", "final", "unclaim", "idle"}
       /\ h.pc \in {"reserve", "load", "release", "unclaim"} \/ (h.pc = "final" /\ ~Stripe!Gone(p)')
          => ~Stripe!Gone(p)
       /\ Stripe!Charged(p)' => Stripe!Owed(i)
  BY <1>3, <1>5, <1>10
<1>12. stripeSpent' \in Nat /\ stripeFaults' \in Nat /\ stripeSlips' \in Nat
       /\ stripeRushed' = stripeRushed /\ stripeSpent + stripeSlips <= stripeSpent' + stripeSlips'
  BY <1>2
<1>. QED BY <1>1, <1>2, <1>3, <1>5, <1>7, <1>8, <1>9, <1>11, <1>12, StripeHolderQuiet

LEMMA StripeReserveSpendKeeps ==
    ASSUME Stripe!IInv, NEW p \in StripeHandlers, Stripe!ReserveSpend(p) PROVE Stripe!IInv'
<1>. USE StripeKnown0
<1>1. PICK i \in StripeInvoices : i = Stripe!Inv(p)
  OBVIOUS
<1>2. Stripe!At(p, "reserve")
      /\ UNCHANGED <<stripeRec, stripeChannel, stripeReq, stripeSess, stripePermits, stripePulled,
                     stripeTold, stripeFaults, stripeRushed, stripeSlips, stripeMisread>>
  BY DEF Stripe!ReserveSpend, Stripe!external, Stripe!history
<1>3. Stripe!Holds(p) /\ ~Stripe!Gone(p) /\ stripeReq[p].st # "executing" /\ stripeChannel[i] = "crypto"
  BY <1>1, <1>2, StripeLocalFacts DEF Stripe!Holds, Stripe!Gone, Stripe!At, Stripe!Own, Stripe!Busy,
       Stripe!Toward
<1>4. stripeRec[i].status \in Stripe!Stay
      /\ \A q \in StripeHandlers \ {p} : ~(Stripe!Holds(q) /\ Stripe!Inv(q) = i)
  BY <1>1, <1>3, StripeHolderStep
<1>5. PICK h \in Stripe!Locals :
         /\ stripeProc' = [stripeProc EXCEPT ![p] = h] /\ h.inv = i /\ ~h.started
         /\ \/ /\ h.pc = "unclaim" /\ h.to \in {"payout_seen", "failed_insufficient_balance"}
                  /\ ~h.reserved
               /\ stripeSpent' = stripeSpent
            \/ h.pc = "load" /\ h.reserved /\ stripeSpent' = stripeSpent + 1
  <2>1. CASE Stripe!Enters(p, "unclaim", "payout_seen") /\ stripeSpent' = stripeSpent
    BY <1>1, <2>1, StripeEntersUnclaim DEF Stripe!Fresh
  <2>2. CASE Stripe!Enters(p, "unclaim", "failed_insufficient_balance") /\ stripeSpent' = stripeSpent
    BY <1>1, <2>2, StripeEntersUnclaim DEF Stripe!Fresh
  <2>3. CASE /\ stripeProc' = [stripeProc EXCEPT ![p] = [Stripe!On(p, "load") EXCEPT !.reserved = TRUE]]
             /\ stripeSpent' = stripeSpent + 1
    <3>1. PICK l \in Stripe!Steps : l = "load"
      BY DEF Stripe!Steps
    <3>5. PICK g : g = Stripe!On(p, l)
      OBVIOUS
    <3>2. g \in Stripe!Locals /\ g.pc = l /\ g.inv = Stripe!Inv(p) /\ g.started = FALSE
      BY <3>5, StripeOnFacts
    <3>. DEFINE h == [g EXCEPT !.reserved = TRUE]
    <3>3. h \in Stripe!Locals /\ h.pc = "load" /\ h.inv = i /\ h.reserved /\ ~h.started
      BY <1>1, <3>1, <3>2 DEF Stripe!Locals
    <3>4. stripeProc' = [stripeProc EXCEPT ![p] = h]
      BY <2>3, <3>1, <3>5
    <3>. QED BY <2>3, <3>3, <3>4
  <2>4. \/ Stripe!Enters(p, "unclaim", "payout_seen") /\ stripeSpent' = stripeSpent
        \/ Stripe!Enters(p, "unclaim", "failed_insufficient_balance") /\ stripeSpent' = stripeSpent
        \/ /\ stripeProc' = [stripeProc EXCEPT ![p] = [Stripe!On(p, "load") EXCEPT !.reserved = TRUE]]
           /\ stripeSpent' = stripeSpent + 1
    BY DEF Stripe!ReserveSpend
  <2>. QED BY <2>1, <2>2, <2>3, <2>4
<1>6. stripeProc'[p] = h /\ \A q \in StripeHandlers \ {p} : stripeProc'[q] = stripeProc[q]
  BY <1>5
<1>7. Stripe!Quiet(p, i, h)
  BY <1>2, <1>5 DEF Stripe!Quiet, Stripe!TakesChannel
<1>8. Stripe!Own(p)'
  <2>1. Stripe!Claimed(p)'
    BY <1>2, <1>4, <1>5, <1>6 DEF Stripe!Claimed, Stripe!Holds, Stripe!Inv
  <2>2. Stripe!Busy(p)'
    BY <1>2, <1>3, <1>5, <1>6 DEF Stripe!Own, Stripe!Busy, Stripe!At, Stripe!Inv, Stripe!Rejected,
         Stripe!Sent
  <2>3. Stripe!Seen(p)' /\ Stripe!Toward(p)'
    BY <1>2, <1>3, <1>5, <1>6 DEF Stripe!Seen, Stripe!Toward, Stripe!At, Stripe!Inv
  <2>. QED BY <2>1, <2>2, <2>3 DEF Stripe!Own
<1>9. Stripe!Crypto(i)'
  BY <1>2 DEF Stripe!Crypto, Stripe!Executing
<1>10. CASE h.pc = "unclaim" /\ stripeSpent' = stripeSpent
  <2>1. ~Stripe!Charged(p)'
    BY <1>6, <1>10 DEF Stripe!Charged, Stripe!At
  <2>2. /\ h.pc \in {"reserve", "load", "release", "final", "unclaim", "idle"}
        /\ h.pc \in {"reserve", "load", "release", "unclaim"}
           \/ (h.pc = "final" /\ ~Stripe!Gone(p)') => ~Stripe!Gone(p)
        /\ Stripe!Charged(p)' => Stripe!Owed(i)
    BY <1>3, <1>10, <2>1
  <2>3. stripeSpent' \in Nat /\ stripeFaults' \in Nat /\ stripeSlips' \in Nat
        /\ stripeRushed' = stripeRushed /\ stripeSpent + stripeSlips <= stripeSpent' + stripeSlips'
    BY <1>2, <1>10
  <2>. QED BY <1>1, <1>2, <1>3, <1>5, <1>7, <1>8, <1>9, <2>2, <2>3, StripeHolderQuiet
<1>11. CASE h.pc = "load" /\ stripeSpent' = stripeSpent + 1
  <2>1. /\ Stripe!Moves(p, i, h, stripeRec[i]) /\ Stripe!TypeOK' /\ stripeRec[i] \in Stripe!Records
        /\ Stripe!Newer(i) /\ Stripe!Executing(i)' = Stripe!Executing(i)
           /\ Stripe!Calls' = Stripe!Calls /\ (Stripe!Clear(i)' <=> Stripe!Clear(i))
        /\ Stripe!Refunds' \subseteq Stripe!Refunds
    BY <1>7, <1>11, StripeQuietMoves
  <2>2. Stripe!MaySign(i)' => Stripe!MaySign(i)
    BY <1>1, <1>3, StripeHolderStep
  <2>3. stripePermits' = stripePermits /\ stripeRushed' = stripeRushed
    BY <1>2
  <2>4. Cardinality(Stripe!Rights(i))' <= 1 + stripeRushed'
    BY <2>1, <2>2, <2>3, StripeRightsKept
  <2>5. \A k \in StripeInvoices \ {i} : Stripe!Owed(k)' => Stripe!Owed(k)
    BY <2>1, StripeMovesElse
  <2>6. Stripe!Debts' \subseteq Stripe!Debts \cup {i}
    BY <2>5 DEF Stripe!Debts
  <2>7. Cardinality(Stripe!Units) \in Nat /\ Cardinality(Stripe!Units') \in Nat
        /\ Cardinality(Stripe!Units') <= Cardinality(Stripe!Units) + 1
    BY <2>1, <2>3, <2>6, StripeUnitsOwe
  <2>8. Cardinality(Stripe!Units') <= stripeSpent' + stripeSlips' + stripeRushed'
    BY <1>2, <1>11, <2>7
  <2>9. \A q \in StripeHandlers \ {p} : Stripe!Holds(q) /\ Stripe!Inv(q) = i
        => stripeRec[i].status \in Stripe!Stay /\ ~(Stripe!Holds(p)' /\ h.inv = i)
    BY <1>4
  <2>10. (stripeRec[i].status = "paid" => stripeRec[i].status = "paid" \/ i \in stripePulled)
         /\ stripeRec[i].verified = stripeRec[i].verified
         /\ (Stripe!Ambiguous(i)' /\ Stripe!Clear(i) => Stripe!Clear(i)')
    BY <2>1
  <2>. QED BY <1>8, <1>9, <2>1, <2>4, <2>8, <2>9, <2>10, StripeMovesKeep
<1>. QED BY <1>5, <1>10, <1>11

\* While an invoice stays claimed, what is owed of it and what may be signed is
\* up to the handler that holds it.
LEMMA StripeHolderOnly ==
    ASSUME Stripe!IInv, NEW p \in StripeHandlers, NEW i \in StripeInvoices,
           stripeRec'[i].status \in Stripe!Stay,
           \A q \in StripeHandlers \ {p} : stripeProc'[q] = stripeProc[q]
           /\ stripeReq'[q] = stripeReq[q] /\ ~(Stripe!Holds(q) /\ Stripe!Inv(q) = i)
    PROVE  /\ Stripe!MaySign(i)' => Stripe!Inv(p)' = i /\ Stripe!Holds(p)' /\ ~Stripe!Gone(p)'
           /\ Stripe!Owed(i)' => Stripe!Inv(p)' = i /\ Stripe!Charged(p)'
<1>1. ~Stripe!Claimable(i)' /\ ~Stripe!Ambiguous(i)'
  BY DEF Stripe!Claimable, Stripe!Ambiguous, Stripe!Stay, Stripe!HumanGated, Stripe!InFlight
<1>2. ASSUME NEW q \in StripeHandlers \ {p} PROVE ~(Stripe!Inv(q)' = i /\ Stripe!Holds(q)')
             /\ ~(Stripe!Inv(q)' = i /\ Stripe!Charged(q)')
  <2>1. ~(Stripe!Inv(q)' = i /\ Stripe!Holds(q)')
    BY DEF Stripe!Holds, Stripe!Inv
  <2>2. Stripe!Charged(q)' => Stripe!Holds(q)'
    BY DEF Stripe!Charged, Stripe!Holds, Stripe!At
  <2>. QED BY <2>1, <2>2
<1>3. Stripe!MaySign(i)' => Stripe!Inv(p)' = i /\ Stripe!Holds(p)' /\ ~Stripe!Gone(p)'
  BY <1>1, <1>2 DEF Stripe!MaySign
<1>4. Stripe!Owed(i)' => Stripe!Inv(p)' = i /\ Stripe!Charged(p)'
  BY <1>1, <1>2 DEF Stripe!Owed
<1>. QED BY <1>3, <1>4

\* A handler goes on, with an outcome.
LEMMA StripeGoToRelease ==
    ASSUME Stripe!IInv, NEW p \in StripeHandlers, NEW o \in Stripe!Outcomes,
           Stripe!GoTo(p, "release", o)
    PROVE  \E h \in Stripe!Locals : /\ stripeProc' = [stripeProc EXCEPT ![p] = h]
                                       /\ h.pc = "release" /\ h.inv = Stripe!Inv(p)
                                          /\ h.ev = stripeProc[p].ev
                                    /\ h.to = o /\ h.live = stripeProc[p].live
                                       /\ h.reserved = stripeProc[p].reserved
                                    /\ h.started = stripeProc[p].started
                                       /\ h.retries = stripeProc[p].retries
                                    /\ h.ambig = stripeProc[p].ambig
                                       /\ h.caught = stripeProc[p].caught
<1>1. PICK l \in Stripe!Steps : l = "release"
  BY DEF Stripe!Steps
<1>2. Stripe!GoTo(p, l, o)
  BY <1>1
<1>. QED BY <1>1, <1>2, StripeGoToFacts

LEMMA StripeGoToFinal ==
    ASSUME Stripe!IInv, NEW p \in StripeHandlers, NEW o \in Stripe!Outcomes,
           Stripe!GoTo(p, "final", o)
    PROVE  \E h \in Stripe!Locals : /\ stripeProc' = [stripeProc EXCEPT ![p] = h] /\ h.pc = "final"
                                       /\ h.inv = Stripe!Inv(p) /\ h.ev = stripeProc[p].ev
                                    /\ h.to = o /\ h.live = stripeProc[p].live
                                       /\ h.reserved = stripeProc[p].reserved
                                    /\ h.started = stripeProc[p].started
                                       /\ h.retries = stripeProc[p].retries
                                    /\ h.ambig = stripeProc[p].ambig
                                       /\ h.caught = stripeProc[p].caught
<1>1. PICK l \in Stripe!Steps : l = "final"
  BY DEF Stripe!Steps
<1>2. Stripe!GoTo(p, l, o)
  BY <1>1
<1>. QED BY <1>1, <1>2, StripeGoToFacts

LEMMA StripeSendPayInvoiceKeeps ==
    ASSUME Stripe!IInv, NEW p \in StripeHandlers, Stripe!SendPayInvoice(p) PROVE Stripe!IInv'
<1>. USE StripeKnown0
<1>1. PICK i \in StripeInvoices : i = Stripe!Inv(p)
  OBVIOUS
<1>2. Stripe!At(p, "load")
      /\ UNCHANGED <<stripeRec, stripeSpent, stripeChannel, stripeSess, stripePermits, stripePulled,
                     stripeTold, stripeFaults, stripeRushed, stripeSlips, stripeMisread>>
  BY DEF Stripe!SendPayInvoice, Stripe!store, Stripe!history
<1>3. /\ Stripe!Holds(p) /\ ~Stripe!Gone(p) /\ stripeReq[p].st # "executing"
         /\ stripeChannel[i] = "crypto" /\ Stripe!Charged(p)
      /\ stripeProc[p].reserved /\ ~stripeProc[p].started
  BY <1>1, <1>2, StripeLocalFacts DEF Stripe!Holds, Stripe!Gone, Stripe!At, Stripe!Own, Stripe!Busy,
       Stripe!Toward, Stripe!Charged
<1>4. stripeRec[i].status \in Stripe!Stay
      /\ (\A q \in StripeHandlers \ {p} : ~(Stripe!Holds(q) /\ Stripe!Inv(q) = i)) /\ Stripe!Owed(i)
         /\ Stripe!MaySign(i)
  BY <1>1, <1>3, StripeHolderStep
<1>5. CASE \E o \in {"manual_review", "checkout_paused"} : Stripe!GoTo(p, "release", o)
           /\ stripeReq' = stripeReq
  <2>1. PICK o \in {"manual_review", "checkout_paused"} :
           Stripe!GoTo(p, "release", o) /\ stripeReq' = stripeReq
    BY <1>5
  <2>2. o \in Stripe!Outcomes
    BY DEF Stripe!Outcomes, Stripe!Statuses, Stripe!HumanGated
  <2>3. PICK h \in Stripe!Locals :
           /\ stripeProc' = [stripeProc EXCEPT ![p] = h] /\ h.pc = "release"
           /\ h.inv = Stripe!Inv(p) /\ h.to = o
                                   /\ h.reserved = stripeProc[p].reserved
                                      /\ h.started = stripeProc[p].started
    BY <2>1, <2>2, StripeGoToRelease
  <2>4. stripeProc'[p] = h /\ (\A q \in StripeHandlers \ {p} : stripeProc'[q] = stripeProc[q])
        /\ h.reserved /\ ~h.started
    BY <1>3, <2>3
  <2>5. Stripe!Quiet(p, i, h)
    BY <1>1, <1>2, <1>5, <2>3 DEF Stripe!Quiet, Stripe!TakesChannel
  <2>6. Stripe!Own(p)'
    <3>1. Stripe!Claimed(p)'
      BY <1>1, <1>2, <1>4, <2>3, <2>4 DEF Stripe!Claimed, Stripe!Holds, Stripe!Inv
    <3>2. Stripe!Busy(p)'
      <4>1. stripeReq'[p].st # "executing"
            /\ (stripeReq'[p].st = "signed" => stripePermits'[stripeReq'[p].inv] > 0)
        BY <1>2, <1>3, <2>1 DEF Stripe!Own, Stripe!Busy
      <4>. QED BY <2>1, <2>3, <2>4, <4>1 DEF Stripe!Busy, Stripe!At, Stripe!Inv, Stripe!Rejected,
           Stripe!Sent
    <3>3. Stripe!Seen(p)' /\ Stripe!Toward(p)'
      BY <2>3, <2>4 DEF Stripe!Seen, Stripe!Toward, Stripe!At, Stripe!Inv
    <3>. QED BY <3>1, <3>2, <3>3 DEF Stripe!Own
  <2>7. Stripe!Crypto(i)'
    BY <1>2, <1>5 DEF Stripe!Crypto, Stripe!Executing
  <2>8. /\ h.pc \in {"reserve", "load", "release", "final", "unclaim", "idle"}
        /\ h.pc \in {"reserve", "load", "release", "unclaim"}
           \/ (h.pc = "final" /\ ~Stripe!Gone(p)') => ~Stripe!Gone(p)
        /\ Stripe!Charged(p)' => Stripe!Owed(i)
    BY <1>3, <1>4, <2>3
  <2>9. stripeSpent + stripeSlips <= stripeSpent' + stripeSlips' /\ stripeRushed' = stripeRushed
    BY <1>2
  <2>. QED BY <1>1, <1>3, <2>5, <2>6, <2>7, <2>8, <2>9, StripeHolderQuiet
<1>6. CASE /\ stripeProc' = [stripeProc EXCEPT ![p].pc = "calling", ![p].started = TRUE]
           /\ stripeReq' = [stripeReq EXCEPT ![p] = [inv |-> Stripe!Inv(p), st |-> "executing"]]
  <2>. DEFINE h == [stripeProc[p] EXCEPT !.pc = "calling", !.started = TRUE]
  <2>1. h \in Stripe!Locals /\ h.pc = "calling" /\ h.inv = i /\ h.started /\ h.reserved
        /\ stripeProc' = [stripeProc EXCEPT ![p] = h]
    <3>1. stripeProc[p] \in Stripe!Locals /\ stripeProc[p].inv = i
      BY <1>1 DEF Stripe!Inv
    <3>. QED BY <1>3, <1>6, <3>1 DEF Stripe!Locals, Stripe!Steps
  <2>. HIDE DEF h
  <2>2. stripeReq' \in [StripeHandlers -> [inv : StripeInvoices, st : Stripe!Answers]]
        /\ stripeReq'[p] = [inv |-> i, st |-> "executing"]
        /\ \A q \in StripeHandlers \ {p} : stripeReq'[q] = stripeReq[q]
    BY <1>1, <1>6 DEF Stripe!Answers
  <2>3. Stripe!Executing(i)' \subseteq Stripe!Executing(i) \cup {p} /\ p \in Stripe!Executing(i)'
        /\ \A k \in StripeInvoices \ {i} : Stripe!Executing(k)' = Stripe!Executing(k)
    BY <1>3, <2>2 DEF Stripe!Executing
  <2>4. stripeRec' = [stripeRec EXCEPT ![i] = stripeRec[i]] /\ stripeRec[i] \in Stripe!Records
        /\ i \in Stripe!Known /\ stripeRec[i].ambig \in Nat
    BY <1>2, StripeRecordFacts DEF Stripe!Known
  <2>5. Stripe!Moves(p, i, h, stripeRec[i])
    <3>1. /\ \A q \in StripeHandlers \ {p} : stripeReq'[q] = stripeReq[q]
          /\ \A k \in StripeInvoices \ {i} : Stripe!Executing(k)' = Stripe!Executing(k)
             /\ stripeChannel'[k] = stripeChannel[k]
          /\ stripeChannel[i] # "none" => stripeChannel'[i] = stripeChannel[i]
      BY <1>2, <2>2, <2>3
    <3>2. UNCHANGED <<stripeSess, stripePermits, stripePulled, stripeTold, stripeMisread>>
          /\ stripeRushed <= stripeRushed'
      BY <1>2
    <3>. QED BY <2>1, <2>4, <3>1, <3>2 DEF Stripe!Moves
  <2>6. Stripe!TypeOK' /\ stripeProc'[p] = h /\ Stripe!Inv(p)' = i
        /\ \A q \in StripeHandlers \ {p} : stripeProc'[q] = stripeProc[q]
    <3>1. /\ stripeChannel' \in [StripeInvoices -> {"none", "crypto", "upi"}]
             /\ stripeSpent' \in Nat /\ stripeFaults' \in Nat
          /\ stripeSlips' \in Nat /\ stripeRushed' \in Nat
      BY <1>2
    <3>2. stripeReq' \in [StripeHandlers -> [inv : StripeInvoices, st : Stripe!Answers]]
          /\ i \in Stripe!Known /\ h \in Stripe!Locals /\ stripeRec[i] \in Stripe!Records
      BY <2>1, <2>2, <2>4
    <3>3. Stripe!TypeOK'
      BY <2>5, <3>1, <3>2, StripeMovesType
    <3>. QED BY <1>1, <2>1, <3>3 DEF Stripe!Inv
  <2>7. Stripe!Newer(i) /\ ~Stripe!Ambiguous(i)' /\ stripeRec'[i].status \in Stripe!Stay
    BY <1>2, <1>4, <2>4 DEF Stripe!Newer, Stripe!Ambiguous, Stripe!Stay, Stripe!HumanGated
  <2>8. Stripe!Gone(p)' /\ ~Stripe!Charged(p)'
    BY <2>1, <2>2, <2>6 DEF Stripe!Gone, Stripe!Charged, Stripe!At
  <2>9. ~Stripe!MaySign(i)' /\ ~Stripe!Owed(i)'
    BY <1>4, <2>2, <2>6, <2>7, <2>8, StripeHolderOnly
  <2>10. Stripe!Own(p)'
    <3>1. Stripe!Claimed(p)'
      BY <1>2, <1>4, <2>6 DEF Stripe!Claimed, Stripe!Holds, Stripe!Inv
    <3>2. Stripe!Busy(p)'
      BY <2>1, <2>2, <2>6 DEF Stripe!Busy, Stripe!At, Stripe!Inv
    <3>3. Stripe!Seen(p)' /\ Stripe!Toward(p)'
      BY <1>2, <1>3, <2>1, <2>6 DEF Stripe!Seen, Stripe!Toward, Stripe!At, Stripe!Inv
    <3>. QED BY <3>1, <3>2, <3>3 DEF Stripe!Own
  <2>11. Stripe!Crypto(i)'
    BY <1>2, <1>3 DEF Stripe!Crypto
  <2>12. Cardinality(Stripe!Rights(i))' <= 1 + stripeRushed'
    <3>1. <<"token", i>> \in Stripe!Rights(i)
      BY <1>4 DEF Stripe!Rights
    <3>2. Stripe!Rights(i)' \subseteq (Stripe!Rights(i) \ {<<"token", i>>}) \cup {<<"call", p>>}
      BY <1>2, <2>3, <2>9 DEF Stripe!Rights
    <3>. QED BY <1>2, <3>1, <3>2, StripeRightsMoved
  <2>13. Cardinality(Stripe!Units') <= stripeSpent' + stripeSlips' + stripeRushed'
    <3>1. \A k \in StripeInvoices \ {i} : Stripe!Owed(k)' => Stripe!Owed(k)
      BY <2>1, <2>4, <2>5, <2>6, StripeMovesElse
    <3>2. i \in Stripe!Debts /\ Stripe!Debts' \subseteq Stripe!Debts \ {i}
      BY <1>4, <2>9, <3>1 DEF Stripe!Debts
    <3>3. Stripe!Calls' \subseteq Stripe!Calls \cup {p} /\ Stripe!Refunds' \subseteq Stripe!Refunds
      BY <2>1, <2>2, <2>6 DEF Stripe!Calls, Stripe!Refunds, Stripe!At
    <3>4. Cardinality(Stripe!Units') <= Cardinality(Stripe!Units)
          /\ Cardinality(Stripe!Units) \in Nat /\ Cardinality(Stripe!Units') \in Nat
      BY <1>2, <2>6, <3>2, <3>3, StripeUnitsSpend
    <3>. QED BY <1>2, <3>4
  <2>14. \A q \in StripeHandlers \ {p} : Stripe!Holds(q) /\ Stripe!Inv(q) = i
         => stripeRec[i].status \in Stripe!Stay /\ ~(Stripe!Holds(p)' /\ h.inv = i)
    BY <1>4
  <2>15. (stripeRec[i].status = "paid" => stripeRec[i].status = "paid" \/ i \in stripePulled)
         /\ stripeRec[i].verified = stripeRec[i].verified
         /\ (Stripe!Ambiguous(i)' /\ Stripe!Clear(i) => Stripe!Clear(i)')
    BY <2>7
  <2>. QED BY <2>1, <2>4, <2>5, <2>6, <2>7, <2>10, <2>11, <2>12, <2>13, <2>14, <2>15,
       StripeMovesKeep
<1>. QED BY <1>5, <1>6 DEF Stripe!SendPayInvoice

\* The answer of pay-invoice ends nothing that can still sign.
LEMMA StripeAnswerKeeps ==
    ASSUME Stripe!IInv, NEW p \in StripeHandlers, Stripe!Answer(p) PROVE Stripe!IInv'
<1>. USE StripeKnown0
<1>1. PICK i \in StripeInvoices : i = Stripe!Inv(p)
  OBVIOUS
<1>2. Stripe!At(p, "calling")
      /\ UNCHANGED <<stripeRec, stripeSpent, stripeChannel, stripeSess, stripePermits, stripePulled,
                     stripeTold, stripeFaults, stripeRushed, stripeSlips, stripeMisread>>
      /\ stripeReq' = [stripeReq EXCEPT ![p].st = IF @ = "executing" THEN @ ELSE "none"]
  BY DEF Stripe!Answer, Stripe!store, Stripe!history
<1>3. /\ Stripe!Holds(p) /\ stripeChannel[i] = "crypto" /\ stripeProc[p].reserved
         /\ stripeProc[p].started /\ stripeReq[p].inv = i
      /\ stripeReq[p].st = "signed" => stripePermits[i] > 0
  BY <1>1, <1>2, StripeLocalFacts DEF Stripe!Holds, Stripe!At, Stripe!Own, Stripe!Busy,
       Stripe!Toward
<1>4. stripeRec[i].status \in Stripe!Stay
      /\ (\A q \in StripeHandlers \ {p} : ~(Stripe!Holds(q) /\ Stripe!Inv(q) = i))
      /\ (~Stripe!Gone(p) => Stripe!MaySign(i)) /\ (Stripe!Charged(p) => Stripe!Owed(i))
  BY <1>1, <1>3, StripeHolderStep
<1>5. stripeReq' \in [StripeHandlers -> [inv : StripeInvoices, st : Stripe!Answers]]
      /\ stripeReq'[p].inv = i
      /\ (stripeReq'[p].st = "executing" <=> stripeReq[p].st = "executing")
         /\ stripeReq'[p].st # "signed"
      /\ \A q \in StripeHandlers \ {p} : stripeReq'[q] = stripeReq[q]
  <2>1. PICK x \in Stripe!Answers : x = IF stripeReq[p].st = "executing" THEN stripeReq[p].st
             ELSE "none"
    BY DEF Stripe!Answers
  <2>2. stripeReq' = [stripeReq EXCEPT ![p].st = x]
        /\ stripeReq[p] \in [inv : StripeInvoices, st : Stripe!Answers]
    BY <1>2, <2>1
  <2>. QED BY <1>3, <2>1, <2>2
<1>6. \A k \in StripeInvoices : Stripe!Executing(k)' = Stripe!Executing(k)
  <2>1. stripeReq[p] \in [inv : StripeInvoices, st : Stripe!Answers]
        /\ stripeReq'[p] \in [inv : StripeInvoices, st : Stripe!Answers]
    BY <1>5
  <2>2. \A k \in StripeInvoices : stripeReq'[p] = [inv |-> k, st |-> "executing"]
        <=> stripeReq[p] = [inv |-> k, st |-> "executing"]
    BY <1>3, <1>5, <2>1
  <2>. QED BY <1>5, <2>2 DEF Stripe!Executing
<1>7. Stripe!Executing(i)' = Stripe!Executing(i) /\ (Stripe!Clear(i)' <=> Stripe!Clear(i))
      /\ Stripe!Calls' = Stripe!Calls
  BY <1>2, <1>5, <1>6 DEF Stripe!Clear, Stripe!Calls
<1>8. PICK h \in Stripe!Locals :
         /\ stripeProc' = [stripeProc EXCEPT ![p] = h] /\ h.inv = i /\ h.reserved /\ h.started
         /\ \/ h.pc = "final" /\ h.to = "provider_submitted_ambiguous"
            \/ h.pc = "final" /\ h.to = "provider_submitted" /\ stripeReq[p].st = "signed"
            \/ h.pc = "final" /\ h.to = "unsigned" /\ stripeReq[p].st = "failed"
            \/ h.pc = "release" /\ h.to \in {"provider_disabled", "failed_provider"}
               /\ stripeReq[p].st \in {"disabled", "refused"}
  <2>1. ASSUME NEW o \in {"provider_submitted_ambiguous", "provider_submitted", "unsigned"},
  Stripe!GoTo(p, "final", o)
        PROVE \E h \in Stripe!Locals : /\ stripeProc' = [stripeProc EXCEPT ![p] = h] /\ h.inv = i
                                          /\ h.reserved /\ h.started
                                       /\ h.pc = "final" /\ h.to = o
    <3>1. o \in Stripe!Outcomes
      BY DEF Stripe!Outcomes, Stripe!Statuses, Stripe!InFlight
    <3>. QED BY <1>1, <1>3, <2>1, <3>1, StripeGoToFinal
  <2>2. ASSUME NEW o \in {"provider_disabled", "failed_provider"}, Stripe!GoTo(p, "release", o)
        PROVE \E h \in Stripe!Locals : /\ stripeProc' = [stripeProc EXCEPT ![p] = h] /\ h.inv = i
                                          /\ h.reserved /\ h.started
                                       /\ h.pc = "release" /\ h.to = o
    <3>1. o \in Stripe!Outcomes
      BY DEF Stripe!Outcomes, Stripe!Statuses, Stripe!HumanGated
    <3>. QED BY <1>1, <1>3, <2>2, <3>1, StripeGoToRelease
  <2>3. \/ Stripe!GoTo(p, "final", "provider_submitted_ambiguous")
        \/ stripeReq[p].st = "signed"   /\ Stripe!GoTo(p, "final", "provider_submitted")
        \/ stripeReq[p].st = "failed"   /\ Stripe!GoTo(p, "final", "unsigned")
        \/ stripeReq[p].st = "disabled" /\ Stripe!GoTo(p, "release", "provider_disabled")
        \/ stripeReq[p].st = "refused"  /\ Stripe!GoTo(p, "release", "failed_provider")
    BY DEF Stripe!Answer
  <2>. QED BY <2>1, <2>2, <2>3
<1>9. stripeRec' = [stripeRec EXCEPT ![i] = stripeRec[i]] /\ stripeRec[i] \in Stripe!Records
      /\ i \in Stripe!Known /\ stripeRec[i].ambig \in Nat
  BY <1>2, StripeRecordFacts DEF Stripe!Known
<1>10. Stripe!Moves(p, i, h, stripeRec[i])
  <2>1. /\ \A q \in StripeHandlers \ {p} : stripeReq'[q] = stripeReq[q]
        /\ \A k \in StripeInvoices \ {i} : Stripe!Executing(k)' = Stripe!Executing(k)
           /\ stripeChannel'[k] = stripeChannel[k]
        /\ stripeChannel[i] # "none" => stripeChannel'[i] = stripeChannel[i]
    BY <1>2, <1>5, <1>6
  <2>2. UNCHANGED <<stripeSess, stripePermits, stripePulled, stripeTold, stripeMisread>>
        /\ stripeRushed <= stripeRushed'
    BY <1>2
  <2>. QED BY <1>8, <1>9, <2>1, <2>2 DEF Stripe!Moves
<1>11. Stripe!TypeOK' /\ stripeProc'[p] = h /\ Stripe!Inv(p)' = i
       /\ \A q \in StripeHandlers \ {p} : stripeProc'[q] = stripeProc[q] /\ stripeReq'[q] = stripeReq[q]
  <2>1. /\ stripeChannel' \in [StripeInvoices -> {"none", "crypto", "upi"}] /\ stripeSpent' \in Nat
           /\ stripeFaults' \in Nat
        /\ stripeSlips' \in Nat /\ stripeRushed' \in Nat
           /\ stripeReq' \in [StripeHandlers -> [inv : StripeInvoices, st : Stripe!Answers]]
    BY <1>2, <1>5
  <2>2. Stripe!TypeOK'
    BY <1>9, <1>10, <2>1, StripeMovesType
  <2>. QED BY <1>5, <1>8, <2>2 DEF Stripe!Inv
<1>12. Stripe!Newer(i) /\ stripeRec'[i].status \in Stripe!Stay
  BY <1>2, <1>4, <1>9 DEF Stripe!Newer, Stripe!Ambiguous
<1>13. ~Stripe!Gone(p)' => ~Stripe!Gone(p)
  BY <1>2, <1>8, <1>11 DEF Stripe!Gone, Stripe!At, Stripe!Sent
<1>14. Stripe!Charged(p)' => Stripe!Charged(p)
  <2>1. Stripe!Clear(i) => stripeReq[p].st \notin {"executing", "signed"}
    <3>1. stripeReq[p].st = "executing" => p \in Stripe!Executing(i)
      BY <1>3 DEF Stripe!Executing
    <3>. QED BY <1>3, <3>1 DEF Stripe!Clear
  <2>2. ASSUME Stripe!Charged(p)' PROVE stripeReq[p].st \notin {"executing", "signed"}
    BY <1>7, <1>8, <1>11, <2>1, <2>2 DEF Stripe!Charged, Stripe!At
  <2>. QED BY <1>2, <2>2 DEF Stripe!Charged
<1>15. (Stripe!MaySign(i)' => Stripe!MaySign(i)) /\ (Stripe!Owed(i)' => Stripe!Owed(i))
  BY <1>4, <1>11, <1>12, <1>13, <1>14, StripeHolderOnly
<1>16. Stripe!Own(p)'
  <2>1. Stripe!Claimed(p)'
    BY <1>2, <1>4, <1>11 DEF Stripe!Claimed, Stripe!Holds, Stripe!Inv
  <2>2. Stripe!Busy(p)'
    <3>1. stripeReq[p].st = "executing" => h.pc = "final"
      BY <1>8
    <3>2. h.to = "provider_submitted" => stripePermits'[i] > 0
      BY <1>2, <1>3, <1>8
    <3>. QED BY <1>5, <1>8, <1>11, <3>1, <3>2 DEF Stripe!Busy, Stripe!At, Stripe!Inv,
         Stripe!Rejected, Stripe!Sent
  <2>3. Stripe!Seen(p)' /\ Stripe!Toward(p)'
    BY <1>8, <1>11 DEF Stripe!Seen, Stripe!Toward, Stripe!At, Stripe!Inv
  <2>. QED BY <2>1, <2>2, <2>3 DEF Stripe!Own
<1>17. Stripe!Crypto(i)'
  BY <1>2, <1>7 DEF Stripe!Crypto
<1>18. Stripe!Refunds' \subseteq Stripe!Refunds /\ Stripe!Calls' \subseteq Stripe!Calls
       /\ stripeSpent + stripeSlips + stripeRushed <= stripeSpent' + stripeSlips' + stripeRushed'
  BY <1>2, <1>7, <1>8, <1>11 DEF Stripe!Refunds, Stripe!At
<1>19. \A q \in StripeHandlers \ {p} : Stripe!Holds(q) /\ Stripe!Inv(q) = i
       => stripeRec[i].status \in Stripe!Stay /\ ~(Stripe!Holds(p)' /\ h.inv = i)
  BY <1>4
<1>20. (stripeRec[i].status = "paid" => stripeRec[i].status = "paid" \/ i \in stripePulled)
       /\ stripeRec[i].verified = stripeRec[i].verified
  OBVIOUS
<1>. QED BY <1>7, <1>9, <1>10, <1>11, <1>12, <1>15, <1>16, <1>17, <1>18, <1>19, <1>20,
     StripeTameStep

\* Headroom is given back once.
LEMMA StripeReleaseSpendKeeps ==
    ASSUME Stripe!IInv, NEW p \in StripeHandlers, Stripe!ReleaseSpend(p) PROVE Stripe!IInv'
<1>. USE StripeKnown0
<1>1. PICK i \in StripeInvoices : i = Stripe!Inv(p)
  OBVIOUS
<1>2. Stripe!At(p, "release")
      /\ UNCHANGED <<stripeRec, stripeChannel, stripeReq, stripeSess, stripePermits, stripePulled,
                     stripeTold, stripeFaults, stripeRushed, stripeSlips, stripeMisread>>
      /\ stripeSpent' = IF stripeSpent = 0 THEN 0 ELSE stripeSpent - 1
  BY DEF Stripe!ReleaseSpend, Stripe!external, Stripe!history
<1>3. /\ Stripe!Holds(p) /\ ~Stripe!Gone(p) /\ Stripe!Charged(p) /\ stripeReq[p].st # "executing"
         /\ stripeProc[p].reserved
      /\ stripeProc[p].to \in {"checkout_paused"} \cup Stripe!Rejected
      /\ stripeProc[p].started <=> stripeProc[p].to \in {"provider_disabled", "failed_provider"}
      /\ stripeProc[p] \in Stripe!Locals
  BY <1>1, <1>2, StripeLocalFacts DEF Stripe!Holds, Stripe!Gone, Stripe!At, Stripe!Own, Stripe!Busy,
       Stripe!Charged
<1>4. stripeRec[i].status \in Stripe!Stay
      /\ (\A q \in StripeHandlers \ {p} : ~(Stripe!Holds(q) /\ Stripe!Inv(q) = i))
         /\ Stripe!MaySign(i) /\ Stripe!Owed(i)
  BY <1>1, <1>3, StripeHolderStep
<1>5. PICK h \in Stripe!Locals :
         /\ stripeProc' = [stripeProc EXCEPT ![p] = h] /\ h.inv = i /\ h.to = stripeProc[p].to
         /\ h.started <=> stripeProc[p].to \in {"provider_disabled", "failed_provider"}
         /\ \/ h.pc = "unclaim" /\ h.to = "checkout_paused" /\ ~h.reserved
            \/ h.pc = "final" /\ h.to \in Stripe!Rejected /\ h.reserved
  <2>1. PICK l \in Stripe!Steps : l = IF stripeProc[p].to = "checkout_paused" THEN "unclaim"
             ELSE "final"
    BY DEF Stripe!Steps
  <2>2. PICK b \in BOOLEAN : b <=> stripeProc[p].to # "checkout_paused"
    OBVIOUS
  <2>. DEFINE h == [stripeProc[p] EXCEPT !.pc = l, !.reserved = b]
  <2>3. stripeProc' = [stripeProc EXCEPT ![p] = h]
    <3>1. stripeProc[p].to = "checkout_paused" => b = FALSE
      BY <2>2
    <3>2. stripeProc[p].to # "checkout_paused" => b = stripeProc[p].reserved
      BY <1>3, <2>2, StripeLocalFacts
    <3>3. b = IF stripeProc[p].to = "checkout_paused" THEN FALSE ELSE stripeProc[p].reserved
      BY <3>1, <3>2
    <3>4. stripeProc' = [stripeProc EXCEPT ![p].pc = l, ![p].reserved = b]
      BY <2>1, <3>3 DEF Stripe!ReleaseSpend
    <3>. QED BY <3>4
  <2>4. h \in Stripe!Locals /\ h.inv = i /\ h.to = stripeProc[p].to /\ h.pc = l
        /\ (h.reserved <=> b) /\ (h.started <=> stripeProc[p].started)
    BY <1>1, <1>3 DEF Stripe!Locals, Stripe!Inv
  <2>. HIDE DEF h
  <2>. QED BY <1>3, <2>1, <2>2, <2>3, <2>4
<1>6. stripeProc'[p] = h /\ \A q \in StripeHandlers \ {p} : stripeProc'[q] = stripeProc[q]
  BY <1>5
<1>7. stripeSpent' \in Nat /\ stripeSpent <= stripeSpent' + 1
      /\ (stripeSpent > 0 => stripeSpent' + 1 = stripeSpent)
  <2>1. PICK n \in Nat : n = stripeSpent
    OBVIOUS
  <2>2. stripeSpent' = IF n = 0 THEN 0 ELSE n - 1
    BY <1>2, <2>1
  <2>3. (IF n = 0 THEN 0 ELSE n - 1) \in Nat /\ n <= (IF n = 0 THEN 0 ELSE n - 1) + 1
        /\ (n > 0 => (IF n = 0 THEN 0 ELSE n - 1) + 1 = n)
    OBVIOUS
  <2>. QED BY <2>1, <2>2, <2>3
<1>8. Stripe!Quiet(p, i, h)
  BY <1>2, <1>5, <1>7 DEF Stripe!Quiet, Stripe!TakesChannel
<1>9. /\ Stripe!Moves(p, i, h, stripeRec[i]) /\ Stripe!TypeOK' /\ stripeRec[i] \in Stripe!Records
         /\ Stripe!Inv(p)' = i
      /\ \A q \in StripeHandlers \ {p} : stripeProc'[q] = stripeProc[q] /\ stripeReq'[q] = stripeReq[q]
      /\ Stripe!Newer(i) /\ Stripe!Executing(i)' = Stripe!Executing(i)
         /\ Stripe!Calls' = Stripe!Calls /\ (Stripe!Clear(i)' <=> Stripe!Clear(i))
      /\ Stripe!Refunds' \subseteq Stripe!Refunds
  BY <1>5, <1>8, StripeQuietMoves
<1>10. Stripe!Own(p)'
  <2>1. Stripe!Claimed(p)'
    BY <1>2, <1>4, <1>6, <1>9 DEF Stripe!Claimed, Stripe!Holds, Stripe!Inv
  <2>2. Stripe!Busy(p)'
    <3>1. stripeReq'[p].st # "executing"
          /\ (stripeReq'[p].st = "signed" => stripePermits'[stripeReq'[p].inv] > 0)
      BY <1>2, <1>3 DEF Stripe!Own, Stripe!Busy
    <3>. QED BY <1>5, <1>6, <3>1 DEF Stripe!Busy, Stripe!At, Stripe!Inv, Stripe!Rejected,
         Stripe!Sent
  <2>3. Stripe!Seen(p)' /\ Stripe!Toward(p)'
    BY <1>5, <1>6 DEF Stripe!Seen, Stripe!Toward, Stripe!At, Stripe!Inv, Stripe!Rejected
  <2>. QED BY <2>1, <2>2, <2>3 DEF Stripe!Own
<1>11. Stripe!Crypto(i)'
  BY <1>2 DEF Stripe!Crypto, Stripe!Executing
<1>12. ~Stripe!Charged(p)'
  BY <1>5, <1>6 DEF Stripe!Charged, Stripe!At, Stripe!Rejected
<1>13. ~Stripe!Owed(i)'
  <2>1. stripeRec'[i].status \in Stripe!Stay
    BY <1>2, <1>4
  <2>. QED BY <1>4, <1>9, <1>12, <2>1, StripeHolderOnly
<1>14. Cardinality(Stripe!Rights(i))' <= 1 + stripeRushed'
  BY <1>2, <1>4, <1>9, StripeRightsKept
<1>15. Cardinality(Stripe!Units') <= stripeSpent' + stripeSlips' + stripeRushed'
  <2>1. \A k \in StripeInvoices \ {i} : Stripe!Owed(k)' => Stripe!Owed(k)
    BY <1>9, StripeMovesElse
  <2>2. i \in Stripe!Debts /\ Stripe!Debts' \subseteq Stripe!Debts \ {i}
    BY <1>4, <1>13, <2>1 DEF Stripe!Debts
  <2>3. Cardinality(Stripe!Units) \in Nat /\ Cardinality(Stripe!Units') \in Nat
        /\ Cardinality(Stripe!Units') + 1 <= Cardinality(Stripe!Units)
    BY <1>2, <1>9, <2>2, StripeUnitsGive
  <2>. QED BY <1>2, <1>7, <2>3
<1>16. \A q \in StripeHandlers \ {p} : Stripe!Holds(q) /\ Stripe!Inv(q) = i
       => stripeRec[i].status \in Stripe!Stay /\ ~(Stripe!Holds(p)' /\ h.inv = i)
  BY <1>4
<1>17. (stripeRec[i].status = "paid" => stripeRec[i].status = "paid" \/ i \in stripePulled)
       /\ stripeRec[i].verified = stripeRec[i].verified
       /\ (Stripe!Ambiguous(i)' /\ Stripe!Clear(i) => Stripe!Clear(i)')
  BY <1>9
<1>. QED BY <1>9, <1>10, <1>11, <1>14, <1>15, <1>16, <1>17, StripeMovesKeep

\* The handler that holds the claim ends, and writes the outcome.
LEMMA StripeLeaveKeeps ==
    ASSUME Stripe!IInv, NEW p \in StripeHandlers, NEW i \in StripeInvoices, i = Stripe!Inv(p),
           Stripe!Holds(p), NEW r \in Stripe!Records,
           stripeProc' = [stripeProc EXCEPT ![p] = Stripe!Idle],
           stripeRec' = [stripeRec EXCEPT ![i] = r],
           UNCHANGED <<stripeSpent, stripeChannel, stripeReq, stripeSess, stripePermits, stripePulled,
                       stripeTold, stripeFaults, stripeRushed, stripeSlips, stripeMisread>>,
           r.status \notin {"paid"} \cup Stripe!HumanGated \cup Stripe!InFlight => ~Stripe!Gone(p),
           stripeRec[i].ambig <= r.ambig,
           r.status = "provider_submitted_ambiguous" =>
               stripeRec[i].ambig < r.ambig /\ (r.unsigned => ~Stripe!Gone(p) /\ Stripe!Charged(p))
               /\ (Stripe!Clear(i) => Stripe!Charged(p)),
           r.status = "paid" => stripeRec[i].status = "paid", r.verified = stripeRec[i].verified,
           stripeChannel[i] = "crypto" => r.status \notin Stripe!CannotPull,
           r.status = "claimed_by_other_channel" => stripeChannel[i] = "upi"
    PROVE  Stripe!IInv'
<1>. USE StripeKnown0
<1>1. i \in Stripe!Known /\ stripeRec'[i] = r
  BY DEF Stripe!Known
<1>2. PICK h \in Stripe!Locals : h = Stripe!Idle /\ h.pc = "idle"
  BY StripeIdleFacts
<1>3. \A k \in StripeInvoices : Stripe!Executing(k)' = Stripe!Executing(k)
  BY DEF Stripe!Executing
<1>4. Stripe!Moves(p, i, h, r)
  <2>1. /\ \A q \in StripeHandlers \ {p} : stripeReq'[q] = stripeReq[q]
        /\ \A k \in StripeInvoices \ {i} : Stripe!Executing(k)' = Stripe!Executing(k)
           /\ stripeChannel'[k] = stripeChannel[k]
        /\ stripeChannel[i] # "none" => stripeChannel'[i] = stripeChannel[i]
        /\ stripeRushed <= stripeRushed'
    BY <1>3
  <2>. QED BY <1>2, <2>1 DEF Stripe!Moves
<1>5. Stripe!TypeOK' /\ stripeProc'[p] = h
      /\ \A q \in StripeHandlers \ {p} : stripeProc'[q] = stripeProc[q] /\ stripeReq'[q] = stripeReq[q]
  <2>1. /\ stripeChannel' \in [StripeInvoices -> {"none", "crypto", "upi"}] /\ stripeSpent' \in Nat
           /\ stripeFaults' \in Nat
        /\ stripeSlips' \in Nat /\ stripeRushed' \in Nat
           /\ stripeReq' \in [StripeHandlers -> [inv : StripeInvoices, st : Stripe!Answers]]
    OBVIOUS
  <2>2. Stripe!TypeOK'
    BY <1>1, <1>4, <2>1, StripeMovesType
  <2>. QED BY <1>2, <2>2
<1>6. /\ \A q \in StripeHandlers \ {p} : ~(Stripe!Holds(q) /\ Stripe!Inv(q) = i)
      /\ (~Stripe!Gone(p) => Stripe!MaySign(i)) /\ (Stripe!Charged(p) => Stripe!Owed(i))
  BY StripeHolderStep
<1>7. Stripe!Newer(i)
  BY <1>1 DEF Stripe!Newer, Stripe!Ambiguous
<1>8. ~Stripe!Holds(p)' /\ ~Stripe!Charged(p)' /\ ~Stripe!Matched(p, i)' /\ ~Stripe!At(p, "refund")'
  BY <1>2, <1>5 DEF Stripe!Holds, Stripe!Charged, Stripe!Matched, Stripe!At
<1>9. (Stripe!Clear(i)' => Stripe!Clear(i)) /\ Stripe!Calls' = Stripe!Calls
  BY <1>3 DEF Stripe!Clear, Stripe!Calls
<1>10. Stripe!MaySign(i)' => Stripe!MaySign(i)
  <2>1. Stripe!Claimable(i)' => Stripe!MaySign(i)
    BY <1>1, <1>6 DEF Stripe!Claimable
  <2>2. Stripe!Ambiguous(i)' /\ stripeRec[i].ambig < stripeRec'[i].ambig /\ stripeRec'[i].unsigned
        => Stripe!MaySign(i)
    BY <1>1, <1>6 DEF Stripe!Ambiguous
  <2>. QED BY <1>5, <1>7, <1>8, <2>1, <2>2, StripeMayFrom
<1>11. Stripe!Owed(i)' => Stripe!Owed(i)
  <2>1. Stripe!Ambiguous(i)' /\ stripeRec[i].ambig < stripeRec'[i].ambig
        /\ (stripeRec'[i].unsigned \/ Stripe!Clear(i)) => Stripe!Owed(i)
    BY <1>1, <1>6 DEF Stripe!Ambiguous
  <2>. QED BY <1>5, <1>7, <1>8, <1>9, <2>1, StripeOwedFrom
<1>12. Stripe!Own(p)'
  BY <1>2, <1>5, StripeIdleOwn
<1>13. Stripe!Crypto(i)'
  BY <1>1, <1>3 DEF Stripe!Crypto
<1>14. \A q \in StripeHandlers \ {p} : Stripe!Holds(q) /\ Stripe!Inv(q) = i
       => r.status \in Stripe!Stay /\ ~(Stripe!Holds(p)' /\ h.inv = i)
  BY <1>6
<1>15. Stripe!Refunds' \subseteq Stripe!Refunds /\ Stripe!Calls' \subseteq Stripe!Calls
       /\ stripeSpent + stripeSlips + stripeRushed <= stripeSpent' + stripeSlips' + stripeRushed'
  BY <1>5, <1>8, <1>9 DEF Stripe!Refunds, Stripe!At
<1>16. r.status = "paid" => stripeRec[i].status = "paid" \/ i \in stripePulled
  OBVIOUS
<1>. QED BY <1>3, <1>4, <1>5, <1>7, <1>10, <1>11, <1>12, <1>13, <1>14, <1>15, <1>16, StripeTameStep

\* The record after the claim of a handler was closed with an outcome.
LEMMA StripeFinalizedFacts ==
    ASSUME NEW r \in Stripe!Records, NEW named \in BOOLEAN,
           NEW o \in {"claimed_by_other_channel", "unsigned"} \cup Stripe!Sent \cup Stripe!Rejected
    PROVE  \E q \in Stripe!Records : q = [Stripe!Finalized(r, o) EXCEPT !.bound = @ \/ named]
           /\ Stripe!Closed(r, o, q)
<1>1. PICK s \in Stripe!Statuses : s = IF o = "unsigned" THEN "provider_submitted_ambiguous" ELSE o
  BY DEF Stripe!Sent, Stripe!Rejected, Stripe!Statuses, Stripe!InFlight, Stripe!HumanGated
<1>2. PICK st \in Stripe!Statuses : st = IF r.status = "paid" THEN r.status ELSE s
  BY StripeRecordFacts
<1>3. PICK a \in Nat : a = IF s = "provider_submitted_ambiguous" THEN r.ambig + 1 ELSE r.ambig
  BY StripeRecordFacts
<1>4. PICK u \in BOOLEAN : u = IF s = "provider_submitted_ambiguous" THEN o = "unsigned" ELSE r.unsigned
  BY StripeRecordFacts
<1>5. PICK b \in BOOLEAN : b = (r.bound \/ named)
  BY StripeRecordFacts
<1>. DEFINE q == [r EXCEPT !.status = st, !.ambig = a, !.unsigned = u, !.bound = b]
<1>6. q \in Stripe!Records /\ q.status = st /\ q.ambig = a /\ q.unsigned = u /\ q.verified = r.verified
  BY DEF Stripe!Records
<1>7. q = [Stripe!Finalized(r, o) EXCEPT !.bound = @ \/ named]
  <2>1. Stripe!Finalized(r, o) = [r EXCEPT !.status = st, !.ambig = a, !.unsigned = u]
    BY <1>1, <1>2, <1>3, <1>4 DEF Stripe!Finalized
  <2>2. [r EXCEPT !.status = st, !.ambig = a, !.unsigned = u].bound = r.bound
    BY DEF Stripe!Records
  <2>. QED BY <1>5, <2>1, <2>2
<1>. HIDE DEF q
<1>8. r.ambig \in Nat /\ s # "paid"
  BY <1>1, StripeRecordFacts DEF Stripe!Sent, Stripe!Rejected
<1>9. r.ambig <= q.ambig
      /\ (s = "provider_submitted_ambiguous" => r.ambig < q.ambig /\ (q.unsigned <=> o = "unsigned"))
  BY <1>3, <1>4, <1>6, <1>8
<1>10. (r.status = "paid" <=> q.status = "paid") /\ q.status \in {s, r.status}
       /\ (r.status # "paid" => q.status = s)
  BY <1>2, <1>6, <1>8
<1>11. \/ o = "unsigned" /\ q.status \in {"provider_submitted_ambiguous", r.status} /\ r.ambig < q.ambig
       \/ /\ o = "provider_submitted_ambiguous"
             /\ q.status \in {"provider_submitted_ambiguous", r.status}
          /\ r.ambig < q.ambig /\ ~q.unsigned
       \/ o \notin {"unsigned", "provider_submitted_ambiguous"} /\ q.status \in {o, r.status}
  BY <1>1, <1>9, <1>10
<1>12. Stripe!Closed(r, o, q)
  BY <1>1, <1>6, <1>9, <1>10, <1>11 DEF Stripe!Closed
<1>. QED BY <1>6, <1>7, <1>12

LEMMA StripeFinalizeClaimKeeps ==
    ASSUME Stripe!IInv, NEW p \in StripeHandlers, Stripe!FinalizeClaim(p) PROVE Stripe!IInv'
<1>. USE StripeKnown0
<1>1. PICK i \in StripeInvoices : i = Stripe!Inv(p)
  OBVIOUS
<1>2. /\ Stripe!At(p, "final")
         /\ UNCHANGED <<stripeSpent, stripeChannel, stripeReq, stripeSess, stripePermits, stripePulled,
                        stripeTold, stripeFaults, stripeRushed, stripeSlips, stripeMisread>>
      /\ stripeProc' = [stripeProc EXCEPT ![p] = Stripe!Idle]
  BY DEF Stripe!FinalizeClaim, Stripe!external, Stripe!history, Stripe!Leave
<1>3. /\ Stripe!Holds(p)
         /\ stripeProc[p].to \in {"claimed_by_other_channel", "unsigned"} \cup Stripe!Sent
            \cup Stripe!Rejected
      /\ stripeProc[p].to = "claimed_by_other_channel" => stripeChannel[i] = "upi"
      /\ stripeRec[i] \in Stripe!Records
  BY <1>1, <1>2 DEF Stripe!Holds, Stripe!At, Stripe!Own, Stripe!Busy, Stripe!Toward
<1>4. stripeRec[i].status \in Stripe!Stay
  BY <1>1, <1>3, StripeHolderStep
<1>5. PICK named \in BOOLEAN : stripeRec'
           = [stripeRec EXCEPT ![i]
              = [Stripe!Finalized(stripeRec[i], stripeProc[p].to) EXCEPT !.bound = @ \/ named]]
  BY <1>1 DEF Stripe!FinalizeClaim, Stripe!SetRec
<1>6. PICK o : o = stripeProc[p].to
  OBVIOUS
<1>13. o \in {"claimed_by_other_channel", "unsigned"} \cup Stripe!Sent \cup Stripe!Rejected
  BY <1>3, <1>6
<1>7. PICK r \in Stripe!Records :
         r = [Stripe!Finalized(stripeRec[i], o) EXCEPT !.bound = @ \/ named]
         /\ Stripe!Closed(stripeRec[i], o, r)
  BY <1>3, <1>13, StripeFinalizedFacts
<1>8. stripeRec' = [stripeRec EXCEPT ![i] = r]
  BY <1>5, <1>6, <1>7
<1>9. r.status \notin {"paid"} \cup Stripe!HumanGated \cup Stripe!InFlight => ~Stripe!Gone(p)
  BY <1>2, <1>4, <1>6, <1>7 DEF Stripe!Closed, Stripe!Gone, Stripe!At, Stripe!Stay,
       Stripe!HumanGated, Stripe!InFlight, Stripe!Sent
<1>10. r.status = "provider_submitted_ambiguous" =>
               stripeRec[i].ambig < r.ambig /\ (r.unsigned => ~Stripe!Gone(p) /\ Stripe!Charged(p))
               /\ (Stripe!Clear(i) => Stripe!Charged(p))
  <2>1. o = "unsigned" => ~Stripe!Gone(p) /\ Stripe!Charged(p)
    BY <1>2, <1>6 DEF Stripe!Gone, Stripe!Charged, Stripe!At, Stripe!Sent
  <2>2. o = "provider_submitted_ambiguous" /\ Stripe!Clear(i) => Stripe!Charged(p)
    BY <1>1, <1>2, <1>6 DEF Stripe!Charged, Stripe!At
  <2>3. stripeRec[i].status # "provider_submitted_ambiguous"
    BY <1>4 DEF Stripe!Stay, Stripe!HumanGated
  <2>4. CASE o = "unsigned"
    BY <1>7, <2>1, <2>4 DEF Stripe!Closed
  <2>5. CASE o = "provider_submitted_ambiguous"
    BY <1>7, <2>2, <2>5 DEF Stripe!Closed
  <2>6. CASE o \notin {"unsigned", "provider_submitted_ambiguous"}
    BY <1>7, <2>3, <2>6 DEF Stripe!Closed
  <2>. QED BY <2>4, <2>5, <2>6
<1>11. /\ stripeChannel[i] = "crypto" => r.status \notin Stripe!CannotPull
       /\ r.status = "claimed_by_other_channel" => stripeChannel[i] = "upi"
  <2>1. /\ stripeChannel[i] = "crypto" => stripeRec[i].status \notin Stripe!CannotPull
        /\ stripeRec[i].status = "claimed_by_other_channel" => stripeChannel[i] = "upi"
    BY DEF Stripe!Crypto
  <2>2. r.status = stripeRec[i].status
        \/ (r.status = "claimed_by_other_channel" => o = "claimed_by_other_channel")
    BY <1>7 DEF Stripe!Closed
  <2>3. r.status = stripeRec[i].status \/ r.status \notin {"rozo_payment_created", "payin_seen"}
    BY <1>3, <1>6, <1>7 DEF Stripe!Closed, Stripe!Sent, Stripe!Rejected
  <2>. QED BY <1>3, <1>6, <2>1, <2>2, <2>3 DEF Stripe!CannotPull
<1>12. (r.status = "paid" => stripeRec[i].status = "paid") /\ r.verified = stripeRec[i].verified
       /\ stripeRec[i].ambig <= r.ambig
  BY <1>7 DEF Stripe!Closed
<1>. QED BY <1>1, <1>2, <1>3, <1>8, <1>9, <1>10, <1>11, <1>12, StripeLeaveKeeps

LEMMA StripeReleaseClaimKeeps ==
    ASSUME Stripe!IInv, NEW p \in StripeHandlers, Stripe!ReleaseClaim(p) PROVE Stripe!IInv'
<1>. USE StripeKnown0
<1>1. PICK i \in StripeInvoices : i = Stripe!Inv(p)
  OBVIOUS
<1>2. /\ Stripe!At(p, "unclaim")
         /\ UNCHANGED <<stripeSpent, stripeChannel, stripeReq, stripeSess, stripePermits, stripePulled,
                        stripeTold, stripeFaults, stripeRushed, stripeSlips, stripeMisread>>
      /\ stripeProc' = [stripeProc EXCEPT ![p] = Stripe!Idle]
  BY DEF Stripe!ReleaseClaim, Stripe!external, Stripe!history, Stripe!Leave
<1>3. /\ Stripe!Holds(p) /\ ~Stripe!Gone(p)
         /\ stripeProc[p].to \in {"payout_seen", "failed_insufficient_balance", "checkout_paused"}
      /\ stripeRec[i] \in Stripe!Records /\ stripeRec[i].ambig \in Nat
  BY <1>1, <1>2, StripeRecordFacts DEF Stripe!Holds, Stripe!At, Stripe!Own, Stripe!Busy, Stripe!Gone
<1>4. stripeRec[i].status \in Stripe!Stay
  BY <1>1, <1>3, StripeHolderStep
<1>5. PICK s \in {"payout_seen", "failed_insufficient_balance"} :
        stripeRec' = [stripeRec EXCEPT ![i] = IF stripeRec[i].status = "provider_paying"
                      THEN [stripeRec[i] EXCEPT !.status = s] ELSE stripeRec[i]]
  BY <1>1, <1>3 DEF Stripe!ReleaseClaim, Stripe!SetRec
<1>6. s \in Stripe!Statuses
  BY DEF Stripe!Statuses
<1>7. PICK r \in Stripe!Records :
         /\ stripeRec' = [stripeRec EXCEPT ![i] = r] /\ r.verified = stripeRec[i].verified
         /\ r.ambig = stripeRec[i].ambig
                                  /\ r.status \in {s, stripeRec[i].status}
  <2>1. CASE stripeRec[i].status = "provider_paying"
    <3>1. stripeRec' = [stripeRec EXCEPT ![i] = [stripeRec[i] EXCEPT !.status = s]]
      BY <1>5, <2>1
    <3>2. PICK q : q = [stripeRec[i] EXCEPT !.status = s]
      OBVIOUS
    <3>3. q \in Stripe!Records /\ q.verified = stripeRec[i].verified /\ q.ambig = stripeRec[i].ambig
          /\ q.status = s
      BY <1>3, <1>6, <3>2, StripeRecordSteps
    <3>. QED BY <3>1, <3>2, <3>3
  <2>2. CASE stripeRec[i].status # "provider_paying"
    BY <1>3, <1>5, <2>2
  <2>. QED BY <2>1, <2>2
<1>8. /\ r.status # "provider_submitted_ambiguous"
         /\ (r.status = "paid" => stripeRec[i].status = "paid")
  BY <1>4, <1>7 DEF Stripe!Stay, Stripe!HumanGated
<1>9. /\ stripeChannel[i] = "crypto" => r.status \notin Stripe!CannotPull
      /\ r.status = "claimed_by_other_channel" => stripeChannel[i] = "upi"
  BY <1>7 DEF Stripe!Crypto, Stripe!CannotPull
<1>10. stripeRec[i].ambig <= r.ambig
  BY <1>3, <1>7
<1>. QED BY <1>1, <1>2, <1>3, <1>7, <1>8, <1>9, <1>10, StripeLeaveKeeps

\* What the holder of an invoice does to the ledger of the day: nothing, one more
\* than it is owed, or what it was owed is given back.
LEMMA StripeHolderLedger ==
    ASSUME Stripe!IInv, NEW p \in StripeHandlers, NEW i \in StripeInvoices, i = Stripe!Inv(p),
           Stripe!Holds(p),
           NEW h \in Stripe!Locals, Stripe!Quiet(p, i, h), stripeRushed' = stripeRushed,
           h.pc \in {"reserve", "load", "release", "final", "unclaim", "idle"},
           Stripe!Own(p)', Stripe!Crypto(i)',
           h.pc \in {"reserve", "load", "release", "unclaim"}
           \/ (h.pc = "final" /\ ~Stripe!Gone(p)') => ~Stripe!Gone(p),
           \/ (Stripe!Charged(p)' => Stripe!Owed(i))
              /\ stripeSpent + stripeSlips <= stripeSpent' + stripeSlips'
           \/ stripeSpent + stripeSlips + 1 <= stripeSpent' + stripeSlips'
           \/ Stripe!Charged(p) /\ ~Stripe!Charged(p)'
              /\ stripeSpent + stripeSlips <= stripeSpent' + stripeSlips' + 1
    PROVE  Stripe!IInv'
<1>. USE StripeKnown0
<1>1. /\ Stripe!Moves(p, i, h, stripeRec[i]) /\ Stripe!TypeOK' /\ stripeRec[i] \in Stripe!Records
      /\ stripeProc'[p] = h /\ Stripe!Inv(p)' = h.inv
         /\ \A q \in StripeHandlers \ {p} : stripeProc'[q] = stripeProc[q]
            /\ stripeReq'[q] = stripeReq[q]
      /\ Stripe!Newer(i) /\ Stripe!Executing(i)' = Stripe!Executing(i)
         /\ Stripe!Calls' = Stripe!Calls /\ (Stripe!Clear(i)' <=> Stripe!Clear(i))
      /\ (h.pc # "refund" => Stripe!Refunds' \subseteq Stripe!Refunds)
  BY StripeQuietMoves
<1>2. /\ stripeRec[i].status \in Stripe!Stay
         /\ \A q \in StripeHandlers \ {p} : ~(Stripe!Holds(q) /\ Stripe!Inv(q) = i)
      /\ ~Stripe!Gone(p) => Stripe!MaySign(i)
      /\ Stripe!Charged(p) => Stripe!Owed(i)
  BY StripeHolderStep
<1>3. stripeRec' = stripeRec /\ stripeSpent' \in Nat /\ stripeSlips' \in Nat
      /\ stripePermits' = stripePermits /\ Stripe!Refunds' \subseteq Stripe!Refunds
  BY <1>1 DEF Stripe!Quiet
<1>4. /\ Stripe!MaySign(i)' => Stripe!Inv(p)' = i /\ Stripe!Holds(p)' /\ ~Stripe!Gone(p)'
      /\ Stripe!Owed(i)' => Stripe!Inv(p)' = i /\ Stripe!Charged(p)'
  BY <1>1, <1>2, <1>3, StripeHolderOnly
<1>5. Stripe!MaySign(i)' => Stripe!MaySign(i)
  BY <1>1, <1>2, <1>4 DEF Stripe!Holds
<1>6. Cardinality(Stripe!Rights(i))' <= 1 + stripeRushed'
  BY <1>1, <1>3, <1>5, StripeRightsKept
<1>7. \A k \in StripeInvoices \ {i} : Stripe!Owed(k)' => Stripe!Owed(k)
  BY <1>1, StripeMovesElse
<1>8. Cardinality(Stripe!Units') <= stripeSpent' + stripeSlips' + stripeRushed'
  <2>1. CASE (Stripe!Charged(p)' => Stripe!Owed(i))
             /\ stripeSpent + stripeSlips <= stripeSpent' + stripeSlips'
    <3>1. Stripe!Debts' \subseteq Stripe!Debts
      BY <1>4, <1>7, <2>1 DEF Stripe!Debts
    <3>2. Cardinality(Stripe!Units) \in Nat /\ Cardinality(Stripe!Units') \in Nat
          /\ Cardinality(Stripe!Units') <= Cardinality(Stripe!Units)
      BY <1>1, <1>3, <3>1, StripeUnitsStay
    <3>. QED BY <1>3, <2>1, <3>2
  <2>2. CASE stripeSpent + stripeSlips + 1 <= stripeSpent' + stripeSlips'
    <3>1. Stripe!Debts' \subseteq Stripe!Debts \cup {i}
      BY <1>7 DEF Stripe!Debts
    <3>2. Cardinality(Stripe!Units) \in Nat /\ Cardinality(Stripe!Units') \in Nat
          /\ Cardinality(Stripe!Units') <= Cardinality(Stripe!Units) + 1
      BY <1>1, <1>3, <3>1, StripeUnitsOwe
    <3>. QED BY <1>3, <2>2, <3>2
  <2>3. CASE Stripe!Charged(p) /\ ~Stripe!Charged(p)'
             /\ stripeSpent + stripeSlips <= stripeSpent' + stripeSlips' + 1
    <3>1. i \in Stripe!Debts /\ Stripe!Debts' \subseteq Stripe!Debts \ {i}
      BY <1>2, <1>4, <1>7, <2>3 DEF Stripe!Debts
    <3>2. Cardinality(Stripe!Units) \in Nat /\ Cardinality(Stripe!Units') \in Nat
          /\ Cardinality(Stripe!Units') + 1 <= Cardinality(Stripe!Units)
      BY <1>1, <1>3, <3>1, StripeUnitsGive
    <3>. QED BY <1>3, <2>3, <3>2
  <2>. QED BY <2>1, <2>2, <2>3
<1>9. \A q \in StripeHandlers \ {p} : Stripe!Holds(q) /\ Stripe!Inv(q) = i
      => stripeRec[i].status \in Stripe!Stay /\ ~(Stripe!Holds(p)' /\ h.inv = i)
  BY <1>2
<1>10. (stripeRec[i].status = "paid" => stripeRec[i].status = "paid" \/ i \in stripePulled)
       /\ stripeRec[i].verified = stripeRec[i].verified
       /\ (Stripe!Ambiguous(i)' /\ Stripe!Clear(i) => Stripe!Clear(i)')
  BY <1>1
<1>. QED BY <1>1, <1>6, <1>8, <1>9, <1>10, StripeMovesKeep

\* The safety net of a handler.
LEMMA StripeThrowKeeps ==
    ASSUME Stripe!IInv, NEW p \in StripeHandlers, Stripe!Throw(p) PROVE Stripe!IInv'
<1>. USE StripeKnown0
<1>1. PICK i \in StripeInvoices : i = Stripe!Inv(p)
  OBVIOUS
<1>2. /\ stripeProc[p].pc \in {"channel", "reserve", "load", "release", "final", "unclaim"}
         /\ ~stripeProc[p].caught
      /\ UNCHANGED <<stripeRec, stripeChannel, stripeReq, stripeSess, stripePermits, stripePulled,
                     stripeTold, stripeRushed, stripeMisread>> /\ stripeFaults' = stripeFaults + 1
      /\ stripeProc[p] \in Stripe!Locals
  BY DEF Stripe!Throw, Stripe!external
<1>3. stripeSlips' = IF Stripe!At(p, "final") /\ stripeProc[p].reserved
                                  /\ stripeProc[p].to
                                     \in {"manual_review", "provider_disabled", "failed_provider"}
                        THEN stripeSlips + 1 ELSE stripeSlips
  BY DEF Stripe!Throw
<1>4. /\ Stripe!Holds(p)
      /\ stripeRec[i].status \in Stripe!Stay
         /\ \A q \in StripeHandlers \ {p} : ~(Stripe!Holds(q) /\ Stripe!Inv(q) = i)
      /\ Stripe!Charged(p) => Stripe!Owed(i)
  BY <1>1, <1>2, StripeHolderStep DEF Stripe!Holds
<1>5. stripeSlips' \in Nat /\ stripeSlips <= stripeSlips' /\ Stripe!Crypto(i)'
      /\ stripeRushed' = stripeRushed
  BY <1>2, <1>3 DEF Stripe!Crypto, Stripe!Executing
<1>6. Stripe!Busy(p)
  BY DEF Stripe!Own
<1>7. CASE stripeProc[p].started
  <2>. DEFINE h == [stripeProc[p] EXCEPT !.pc = "final", !.to = "provider_submitted_ambiguous",
                    !.caught = TRUE]
  <2>1. stripeProc' = [stripeProc EXCEPT ![p].pc = "final", ![p].to = "provider_submitted_ambiguous",
                       ![p].caught = TRUE]
        /\ stripeSpent' = stripeSpent
    BY <1>7 DEF Stripe!Throw
  <2>2. h \in Stripe!Locals /\ h.pc = "final" /\ h.to = "provider_submitted_ambiguous" /\ h.inv = i
        /\ h.started
        /\ (h.reserved <=> stripeProc[p].reserved)
    BY <1>1, <1>2, <1>7 DEF Stripe!Locals, Stripe!Steps, Stripe!Outcomes, Stripe!Statuses,
         Stripe!InFlight, Stripe!Inv
  <2>3. stripeProc' = [stripeProc EXCEPT ![p] = h]
    BY <2>1
  <2>. HIDE DEF h
  <2>4. stripeProc'[p] = h /\ \A q \in StripeHandlers \ {p} : stripeProc'[q] = stripeProc[q]
    BY <2>3
  <2>5. Stripe!At(p, "release") \/ Stripe!At(p, "final")
    BY <1>2, <1>6, <1>7 DEF Stripe!Busy, Stripe!At
  <2>6. stripeProc[p].reserved
    BY <1>6, <1>7, <2>5 DEF Stripe!Busy, Stripe!At
  <2>7. Stripe!Quiet(p, i, h)
    <3>1. stripeSpent' \in Nat /\ stripeFaults' \in Nat
      BY <1>2, <2>1
    <3>. QED BY <1>2, <1>5, <2>2, <2>3, <3>1 DEF Stripe!Quiet, Stripe!TakesChannel
  <2>8. Stripe!Gone(p)'
    BY <2>2, <2>4 DEF Stripe!Gone, Stripe!At, Stripe!Sent
  <2>9. Stripe!Own(p)'
    <3>1. Stripe!Claimed(p)'
      BY <1>2, <1>4, <2>2, <2>4 DEF Stripe!Claimed, Stripe!Holds, Stripe!Inv
    <3>2. Stripe!Busy(p)'
      <4>1. stripeReq'[p].st = "signed" => stripePermits'[stripeReq'[p].inv] > 0
        BY <1>2, <1>6 DEF Stripe!Busy
      <4>. QED BY <2>2, <2>4, <2>6, <4>1 DEF Stripe!Busy, Stripe!At, Stripe!Inv, Stripe!Rejected,
           Stripe!Sent
    <3>3. Stripe!Seen(p)' /\ Stripe!Toward(p)'
      BY <2>2, <2>4 DEF Stripe!Seen, Stripe!Toward, Stripe!At, Stripe!Inv
    <3>. QED BY <3>1, <3>2, <3>3 DEF Stripe!Own
  <2>10. \/ (Stripe!Charged(p)' => Stripe!Owed(i))
            /\ stripeSpent + stripeSlips <= stripeSpent' + stripeSlips'
         \/ stripeSpent + stripeSlips + 1 <= stripeSpent' + stripeSlips'
    <3>1. CASE Stripe!At(p, "release")
      BY <1>4, <1>5, <2>1, <3>1 DEF Stripe!Charged
    <3>2. CASE Stripe!At(p, "final") /\ stripeProc[p].to = "unsigned"
      BY <1>4, <1>5, <2>1, <3>2 DEF Stripe!Charged
    <3>3. CASE Stripe!At(p, "final") /\ stripeProc[p].to \in Stripe!Sent
      <4>1. Stripe!Charged(p)' => Stripe!Clear(i)'
        BY <2>2, <2>4 DEF Stripe!Charged, Stripe!At, Stripe!Inv
      <4>2. Stripe!Clear(i)' => Stripe!Clear(i)
        BY <1>2 DEF Stripe!Clear, Stripe!Executing
      <4>3. stripeProc[p].to = "provider_submitted" => ~Stripe!Clear(i)
        BY <1>1, <1>6, <3>3 DEF Stripe!Busy, Stripe!Clear
      <4>4. stripeProc[p].to = "provider_submitted_ambiguous" /\ Stripe!Clear(i) => Stripe!Charged(p)
        BY <1>1, <3>3 DEF Stripe!Charged
      <4>. QED BY <1>4, <1>5, <2>1, <3>3, <4>1, <4>2, <4>3, <4>4 DEF Stripe!Sent
    <3>4. CASE Stripe!At(p, "final") /\ stripeProc[p].to \in Stripe!Rejected
      BY <1>3, <2>1, <2>6, <3>4 DEF Stripe!Rejected
    <3>5. Stripe!At(p, "final")
          => stripeProc[p].to \in {"unsigned"} \cup Stripe!Sent \cup Stripe!Rejected
      BY <1>6, <1>7 DEF Stripe!Busy
    <3>. QED BY <2>5, <3>1, <3>2, <3>3, <3>4, <3>5
  <2>11. /\ h.pc \in {"reserve", "load", "release", "final", "unclaim", "idle"}
         /\ h.pc \in {"reserve", "load", "release", "unclaim"}
            \/ (h.pc = "final" /\ ~Stripe!Gone(p)') => ~Stripe!Gone(p)
    BY <2>2, <2>8
  <2>. QED BY <1>1, <1>4, <1>5, <2>2, <2>7, <2>9, <2>10, <2>11, StripeHolderLedger
<1>8. CASE ~stripeProc[p].started
  <2>. DEFINE h == [stripeProc[p] EXCEPT !.pc = "unclaim", !.to = "payout_seen", !.caught = TRUE]
  <2>1. /\ stripeProc' = [stripeProc EXCEPT ![p].pc = "unclaim", ![p].to = "payout_seen",
                          ![p].caught = TRUE]
        /\ \/ stripeSpent' = IF stripeProc[p].reserved /\ stripeSpent > 0 THEN stripeSpent - 1
              ELSE stripeSpent
           \/ stripeSpent' = stripeSpent
    BY <1>8 DEF Stripe!Throw
  <2>2. h \in Stripe!Locals /\ h.pc = "unclaim" /\ h.to = "payout_seen" /\ h.inv = i /\ ~h.started
        /\ h.caught
    BY <1>1, <1>2, <1>8 DEF Stripe!Locals, Stripe!Steps, Stripe!Outcomes, Stripe!Statuses,
         Stripe!Inv
  <2>3. stripeProc' = [stripeProc EXCEPT ![p] = h]
    BY <2>1
  <2>. HIDE DEF h
  <2>4. stripeProc'[p] = h /\ \A q \in StripeHandlers \ {p} : stripeProc'[q] = stripeProc[q]
    BY <2>3
  <2>5. stripeSpent' \in Nat /\ stripeSpent <= stripeSpent' + 1
        /\ (~stripeProc[p].reserved => stripeSpent' = stripeSpent)
    BY <2>1
  <2>6. Stripe!Quiet(p, i, h)
    BY <1>2, <1>5, <2>2, <2>3, <2>5 DEF Stripe!Quiet, Stripe!TakesChannel
  <2>7. ~Stripe!Gone(p) /\ stripeReq[p].st # "executing"
    BY <1>2, <1>6, <1>8 DEF Stripe!Gone, Stripe!At, Stripe!Busy, Stripe!Sent
  <2>8. ~Stripe!Charged(p)'
    BY <2>2, <2>4 DEF Stripe!Charged, Stripe!At
  <2>9. Stripe!Own(p)'
    <3>1. Stripe!Claimed(p)'
      BY <1>2, <1>4, <2>2, <2>4 DEF Stripe!Claimed, Stripe!Holds, Stripe!Inv
    <3>2. Stripe!Busy(p)'
      <4>1. stripeReq'[p].st # "executing"
            /\ (stripeReq'[p].st = "signed" => stripePermits'[stripeReq'[p].inv] > 0)
        BY <1>2, <1>6, <2>7 DEF Stripe!Busy
      <4>. QED BY <2>2, <2>4, <4>1 DEF Stripe!Busy, Stripe!At, Stripe!Inv, Stripe!Rejected,
           Stripe!Sent
    <3>3. Stripe!Seen(p)' /\ Stripe!Toward(p)'
      BY <2>2, <2>4 DEF Stripe!Seen, Stripe!Toward, Stripe!At, Stripe!Inv
    <3>. QED BY <3>1, <3>2, <3>3 DEF Stripe!Own
  <2>10. \/ stripeSpent + stripeSlips <= stripeSpent' + stripeSlips'
         \/ Stripe!Charged(p) /\ stripeSpent + stripeSlips <= stripeSpent' + stripeSlips' + 1
    <3>1. CASE stripeProc[p].pc \in {"channel", "reserve", "unclaim"}
      BY <1>2, <1>5, <1>6, <2>5, <3>1 DEF Stripe!Busy, Stripe!At
    <3>2. CASE stripeProc[p].pc \in {"load", "release"}
      BY <1>5, <2>5, <3>2 DEF Stripe!Charged, Stripe!At
    <3>3. CASE Stripe!At(p, "final")
      <4>1. stripeProc[p].to \in {"manual_review", "claimed_by_other_channel"}
            /\ (stripeProc[p].reserved <=> stripeProc[p].to # "claimed_by_other_channel")
        BY <1>6, <1>8, <3>3 DEF Stripe!Busy
      <4>. QED BY <1>3, <1>5, <2>5, <3>3, <4>1
    <3>. QED BY <1>2, <3>1, <3>2, <3>3 DEF Stripe!At
  <2>11. /\ h.pc \in {"reserve", "load", "release", "final", "unclaim", "idle"}
         /\ h.pc \in {"reserve", "load", "release", "unclaim"}
            \/ (h.pc = "final" /\ ~Stripe!Gone(p)') => ~Stripe!Gone(p)
         /\ \/ (Stripe!Charged(p)' => Stripe!Owed(i))
               /\ stripeSpent + stripeSlips <= stripeSpent' + stripeSlips'
            \/ stripeSpent + stripeSlips + 1 <= stripeSpent' + stripeSlips'
            \/ Stripe!Charged(p) /\ ~Stripe!Charged(p)'
               /\ stripeSpent + stripeSlips <= stripeSpent' + stripeSlips' + 1
    BY <2>2, <2>7, <2>8, <2>10
  <2>. QED BY <1>1, <1>4, <1>5, <2>2, <2>6, <2>9, <2>11, StripeHolderLedger
<1>. QED BY <1>7, <1>8

\* A handler that leaves, and changes nothing else.
LEMMA StripeIdleKeeps ==
    ASSUME Stripe!IInv, NEW p \in StripeHandlers,
           stripeProc' = [stripeProc EXCEPT ![p] = Stripe!Idle], stripeFaults' \in Nat,
           UNCHANGED <<stripeRec, stripeSpent, stripeChannel, stripeReq, stripeSess, stripePermits,
                       stripePulled, stripeTold, stripeRushed, stripeSlips, stripeMisread>>
    PROVE  Stripe!IInv'
<1>. USE StripeKnown0
<1>1. PICK i \in StripeInvoices : i = Stripe!Inv(p)
  OBVIOUS
<1>3. PICK h \in Stripe!Locals : h = Stripe!Idle /\ h.pc = "idle"
  BY StripeIdleFacts
<1>4. Stripe!Quiet(p, i, h)
  BY <1>3 DEF Stripe!TakesChannel, Stripe!Quiet
<1>5. /\ Stripe!Moves(p, i, h, stripeRec[i]) /\ Stripe!TypeOK' /\ stripeRec[i] \in Stripe!Records
      /\ stripeProc'[p] = h /\ Stripe!Inv(p)' = h.inv
         /\ \A q \in StripeHandlers \ {p} : stripeProc'[q] = stripeProc[q]
            /\ stripeReq'[q] = stripeReq[q]
      /\ Stripe!Newer(i) /\ Stripe!Executing(i)' = Stripe!Executing(i)
         /\ Stripe!Calls' = Stripe!Calls /\ (Stripe!Clear(i)' <=> Stripe!Clear(i))
      /\ (h.pc # "refund" => Stripe!Refunds' \subseteq Stripe!Refunds)
  BY <1>3, <1>4, StripeQuietMoves
<1>6. Stripe!Own(p)'
  BY <1>3, <1>5, StripeIdleOwn
<1>7. Stripe!Crypto(i)'
  BY DEF Stripe!Crypto, Stripe!Executing
<1>8. ~Stripe!Holds(p)' /\ ~Stripe!Charged(p)' /\ ~Stripe!Matched(p, i)'
  BY <1>3, <1>5 DEF Stripe!Holds, Stripe!Charged, Stripe!Matched, Stripe!At
<1>9. Stripe!MaySign(i)' => Stripe!MaySign(i)
  BY <1>5, <1>8, StripeQuietMay
<1>10. Stripe!Owed(i)' => Stripe!Owed(i)
  BY <1>5, <1>8, StripeQuietOwed
<1>11. \A q \in StripeHandlers \ {p} : Stripe!Holds(q) /\ Stripe!Inv(q) = i
       => stripeRec[i].status \in Stripe!Stay /\ ~(Stripe!Holds(p)' /\ h.inv = i)
  BY <1>8 DEF Stripe!Own, Stripe!Claimed
<1>12. stripeSpent + stripeSlips + stripeRushed <= stripeSpent' + stripeSlips' + stripeRushed'
  OBVIOUS
<1>13. (stripeRec[i].status = "paid" => stripeRec[i].status = "paid" \/ i \in stripePulled)
       /\ stripeRec[i].verified = stripeRec[i].verified
       /\ Stripe!Calls' \subseteq Stripe!Calls /\ Stripe!Refunds' \subseteq Stripe!Refunds
  BY <1>3, <1>5
<1>. QED BY <1>5, <1>6, <1>7, <1>9, <1>10, <1>11, <1>12, <1>13, StripeTameStep

LEMMA StripeDieKeeps ==
    ASSUME Stripe!IInv, NEW p \in StripeHandlers, Stripe!Die(p) PROVE Stripe!IInv'
<1>1. UNCHANGED <<stripeRec, stripeSpent, stripeChannel, stripeReq, stripeSess, stripePermits,
                  stripePulled, stripeTold, stripeRushed, stripeSlips, stripeMisread>>
      /\ stripeFaults' \in Nat /\ stripeProc' = [stripeProc EXCEPT ![p] = Stripe!Idle]
  BY StripeKnown0 DEF Stripe!Die, Stripe!external, Stripe!store, Stripe!Leave
<1>. QED BY <1>1, StripeIdleKeeps

-----------------------------------------------------------------------------
(* Stripe invoices: the claim of a record.                                 *)

\* A record that nobody has claimed takes another status, and may be claimed.
LEMMA StripeAdvanceKeeps ==
    ASSUME Stripe!IInv, NEW p \in StripeHandlers, NEW i \in StripeInvoices, ~Stripe!Holds(p),
           stripeReq[p].st # "executing", Stripe!Claimable(i),
           NEW h \in Stripe!Locals, NEW s \in Stripe!Statuses,
           stripeProc' = [stripeProc EXCEPT ![p] = h],
           stripeRec' = [stripeRec EXCEPT ![i] = [stripeRec[i] EXCEPT !.status = s]],
           UNCHANGED <<stripeSpent, stripeChannel, stripeReq, stripeSess, stripePermits, stripePulled,
                       stripeTold, stripeFaults, stripeRushed, stripeSlips, stripeMisread>>,
           h = Stripe!Idle
           \/ (h.pc = "channel" /\ h.inv = i /\ ~h.reserved /\ ~h.started /\ s = "provider_paying"),
           s \notin {"paid", "provider_submitted_ambiguous", "claimed_by_other_channel"},
           stripeChannel[i] = "crypto" => s \notin Stripe!CannotPull
    PROVE  Stripe!IInv'
<1>. USE StripeKnown0
<1>1. PICK r : r = [stripeRec[i] EXCEPT !.status = s]
  OBVIOUS
<1>2. r \in Stripe!Records /\ r.status = s /\ r.ambig = stripeRec[i].ambig
      /\ r.verified = stripeRec[i].verified /\ r.ambig \in Nat
  BY <1>1, StripeRecordSteps, StripeRecordFacts
<1>3. i \in Stripe!Known /\ stripeRec' = [stripeRec EXCEPT ![i] = r] /\ stripeRec'[i] = r
  BY <1>1 DEF Stripe!Known
<1>4. \A k \in StripeInvoices : Stripe!Executing(k)' = Stripe!Executing(k)
  BY DEF Stripe!Executing
<1>5. Stripe!Moves(p, i, h, r)
  <2>1. /\ \A q \in StripeHandlers \ {p} : stripeReq'[q] = stripeReq[q]
        /\ \A k \in StripeInvoices \ {i} : Stripe!Executing(k)' = Stripe!Executing(k)
           /\ stripeChannel'[k] = stripeChannel[k]
        /\ stripeChannel[i] # "none" => stripeChannel'[i] = stripeChannel[i]
        /\ stripeRushed <= stripeRushed'
    BY <1>4
  <2>2. h.inv = i \/ h.pc = "idle"
    BY StripeIdleFacts
  <2>. QED BY <1>3, <2>1, <2>2 DEF Stripe!Moves
<1>6. Stripe!TypeOK' /\ stripeProc'[p] = h
      /\ \A q \in StripeHandlers \ {p} : stripeProc'[q] = stripeProc[q] /\ stripeReq'[q] = stripeReq[q]
  <2>1. /\ stripeChannel' \in [StripeInvoices -> {"none", "crypto", "upi"}] /\ stripeSpent' \in Nat
           /\ stripeFaults' \in Nat
        /\ stripeSlips' \in Nat /\ stripeRushed' \in Nat
           /\ stripeReq' \in [StripeHandlers -> [inv : StripeInvoices, st : Stripe!Answers]]
    OBVIOUS
  <2>2. Stripe!TypeOK'
    BY <1>2, <1>3, <1>5, <2>1, StripeMovesType
  <2>. QED BY <2>2
<1>7. \A q \in StripeHandlers : ~(Stripe!Holds(q) /\ Stripe!Inv(q) = i)
  <2>1. stripeRec[i].status \notin Stripe!Stay
    BY DEF Stripe!Claimable, Stripe!Stay, Stripe!InFlight
  <2>. QED BY <2>1, StripeNoHolder
<1>8. Stripe!Newer(i) /\ ~Stripe!Ambiguous(i)' /\ Stripe!MaySign(i)
  BY <1>2, <1>3 DEF Stripe!Newer, Stripe!Ambiguous, Stripe!MaySign
<1>9. ~Stripe!Charged(p)' /\ ~Stripe!Matched(p, i)' /\ ~Stripe!At(p, "refund")'
  BY <1>6, StripeIdleFacts DEF Stripe!Charged, Stripe!Matched, Stripe!At
<1>10. (Stripe!Clear(i)' => Stripe!Clear(i)) /\ Stripe!Calls' = Stripe!Calls
       /\ Stripe!Executing(i)' = Stripe!Executing(i)
  BY <1>4 DEF Stripe!Clear, Stripe!Calls
<1>11. Stripe!Owed(i)' => Stripe!Owed(i)
  BY <1>6, <1>8, <1>9, <1>10, StripeOwedFrom
<1>12. Stripe!Own(p)'
  <2>1. CASE h = Stripe!Idle
    BY <1>6, <2>1, StripeIdleOwn
  <2>2. CASE h.pc = "channel" /\ h.inv = i /\ ~h.reserved /\ ~h.started /\ s = "provider_paying"
    <3>1. Stripe!Claimed(p)'
      BY <1>2, <1>3, <1>6, <1>7, <2>2 DEF Stripe!Claimed, Stripe!Holds, Stripe!Inv, Stripe!Stay
    <3>2. Stripe!Busy(p)'
      <4>1. stripeReq'[p].st # "executing"
            /\ (stripeReq'[p].st = "signed" => stripePermits'[stripeReq'[p].inv] > 0)
        BY DEF Stripe!Own, Stripe!Busy
      <4>. QED BY <1>6, <2>2, <4>1 DEF Stripe!Busy, Stripe!At, Stripe!Inv, Stripe!Rejected,
           Stripe!Sent
    <3>3. Stripe!Seen(p)' /\ Stripe!Toward(p)'
      BY <1>6, <2>2 DEF Stripe!Seen, Stripe!Toward, Stripe!At, Stripe!Inv
    <3>. QED BY <3>1, <3>2, <3>3 DEF Stripe!Own
  <2>. QED BY <2>1, <2>2
<1>13. Stripe!Crypto(i)'
  BY <1>2, <1>3, <1>10 DEF Stripe!Crypto
<1>14. \A q \in StripeHandlers \ {p} : Stripe!Holds(q) /\ Stripe!Inv(q) = i
       => r.status \in Stripe!Stay /\ ~(Stripe!Holds(p)' /\ h.inv = i)
  BY <1>7
<1>15. Stripe!Refunds' \subseteq Stripe!Refunds /\ Stripe!Calls' \subseteq Stripe!Calls
       /\ stripeSpent + stripeSlips + stripeRushed <= stripeSpent' + stripeSlips' + stripeRushed'
  BY <1>6, <1>9, <1>10 DEF Stripe!Refunds, Stripe!At
<1>16. (r.status = "paid" => stripeRec[i].status = "paid" \/ i \in stripePulled)
       /\ r.verified = stripeRec[i].verified
       /\ (Stripe!MaySign(i)' => Stripe!MaySign(i))
  BY <1>2, <1>8
<1>. QED BY <1>2, <1>5, <1>6, <1>8, <1>10, <1>11, <1>12, <1>13, <1>14, <1>15, <1>16, StripeTameStep

LEMMA StripeClaimRecordKeeps ==
    ASSUME Stripe!IInv, NEW p \in StripeHandlers, NEW i \in StripeInvoices,
           NEW ev \in {"payin", "payout", "other"},
           ~Stripe!Holds(p), stripeReq[p].st # "executing", Stripe!ClaimRecord(p, i, ev),
           UNCHANGED <<stripeSpent, stripeChannel, Stripe!external, stripeTold, Stripe!history>>
    PROVE  Stripe!IInv'
<1>. USE StripeKnown0
<1>1. UNCHANGED <<stripeSpent, stripeChannel, stripeReq, stripeSess, stripePermits, stripePulled,
                  stripeTold, stripeFaults, stripeRushed, stripeSlips, stripeMisread>>
  BY DEF Stripe!external, Stripe!history
<1>2. PICK r : r = stripeRec[i] /\ r \in Stripe!Records /\ r.status \in Stripe!Statuses
  BY StripeRecordFacts
<1>3. CASE ~Stripe!Claimable(i)
  <2>1. stripeProc' = [stripeProc EXCEPT ![p] = Stripe!Idle] /\ stripeRec' = stripeRec
    BY <1>3 DEF Stripe!ClaimRecord, Stripe!Claimable, Stripe!Leave
  <2>. QED BY <1>1, <2>1, StripeIdleKeeps
<1>4. CASE Stripe!Claimable(i)
  <2>1. PICK a \in Stripe!Statuses : Stripe!Advanced(r, ev) = [r EXCEPT !.status = a]
                                     /\ (a = r.status \/ a = "payout_seen"
                                         \/ (r.status = "rozo_payment_created" /\ a = "payin_seen"))
    <3>1. PICK a : a = CASE ev = "payout" -> "payout_seen"
                         [] r.status = "rozo_payment_created" -> "payin_seen"
                         [] OTHER -> r.status
      OBVIOUS
    <3>2. a \in Stripe!Statuses
          /\ (a = r.status \/ a = "payout_seen"
              \/ (r.status = "rozo_payment_created" /\ a = "payin_seen"))
      BY <1>2, <3>1 DEF Stripe!Statuses
    <3>3. Stripe!Advanced(r, ev) = [r EXCEPT !.status = a]
      BY <3>1 DEF Stripe!Advanced
    <3>. QED BY <3>2, <3>3
  <2>2. \A x : [Stripe!Advanced(r, ev) EXCEPT !.status = x] = [r EXCEPT !.status = x]
    BY <1>2, <2>1 DEF Stripe!Records
  <2>3. PICK s \in Stripe!Statuses, h \in Stripe!Locals :
          /\ stripeRec' = [stripeRec EXCEPT ![i] = [r EXCEPT !.status = s]]
             /\ stripeProc' = [stripeProc EXCEPT ![p] = h]
          /\ h = Stripe!Idle
             \/ (h.pc = "channel" /\ h.inv = i /\ ~h.reserved /\ ~h.started /\ s = "provider_paying")
          /\ s = a \/ s = "manual_review" \/ s = "provider_paying"
    <3>1. "manual_review" \in Stripe!Statuses /\ "provider_paying" \in Stripe!Statuses
      BY DEF Stripe!Statuses, Stripe!InFlight, Stripe!HumanGated
    <3>2. CASE Stripe!SetRec(i, Stripe!Advanced(r, ev)) /\ Stripe!Leave(p)
      BY <2>1, <3>2, StripeIdleFacts DEF Stripe!SetRec, Stripe!Leave
    <3>3. CASE Stripe!SetRec(i, [Stripe!Advanced(r, ev) EXCEPT !.status = "manual_review"])
               /\ Stripe!Leave(p)
      BY <2>2, <3>1, <3>3, StripeIdleFacts DEF Stripe!SetRec, Stripe!Leave
    <3>4. CASE /\ Stripe!SetRec(i, [Stripe!Advanced(r, ev) EXCEPT !.status = "provider_paying"])
               /\ stripeProc'
                  = [stripeProc EXCEPT ![p] = [Stripe!Idle EXCEPT !.pc = "channel", !.inv = i,
                                               !.ev = ev]]
      <4>. DEFINE h == [Stripe!Idle EXCEPT !.pc = "channel", !.inv = i, !.ev = ev]
      <4>1. h \in Stripe!Locals /\ h.pc = "channel" /\ h.inv = i /\ ~h.reserved /\ ~h.started
        BY StripeIdleFacts DEF Stripe!Locals, Stripe!Steps
      <4>2. stripeRec' = [stripeRec EXCEPT ![i] = [r EXCEPT !.status = "provider_paying"]]
        BY <2>2, <3>4 DEF Stripe!SetRec
      <4>3. stripeProc' = [stripeProc EXCEPT ![p] = h]
        BY <3>4
      <4>. HIDE DEF h
      <4>. QED BY <3>1, <4>1, <4>2, <4>3
    <3>. QED BY <1>2, <1>4, <3>2, <3>3, <3>4 DEF Stripe!ClaimRecord, Stripe!Claimable
  <2>4. r.status \notin {"paid", "provider_submitted_ambiguous", "claimed_by_other_channel"}
        /\ (stripeChannel[i] = "crypto" => r.status \notin Stripe!CannotPull)
    BY <1>2, <1>4 DEF Stripe!Claimable, Stripe!HumanGated, Stripe!InFlight, Stripe!Crypto
  <2>5. s \notin {"paid", "provider_submitted_ambiguous", "claimed_by_other_channel"}
        /\ (stripeChannel[i] = "crypto" => s \notin Stripe!CannotPull)
    BY <2>1, <2>3, <2>4 DEF Stripe!CannotPull
  <2>6. stripeRec' = [stripeRec EXCEPT ![i] = [stripeRec[i] EXCEPT !.status = s]]
    BY <1>2, <2>3
  <2>. QED BY <1>1, <1>4, <2>3, <2>5, <2>6, StripeAdvanceKeeps
<1>. QED BY <1>3, <1>4

LEMMA StripeDeliverKeeps ==
    ASSUME Stripe!IInv, NEW p \in StripeHandlers, NEW i \in StripeInvoices,
           NEW ev \in {"payin", "payout", "other"}, Stripe!Deliver(p, i, ev)
    PROVE  Stripe!IInv'
<1>1. ~Stripe!Holds(p) /\ stripeReq[p].st # "executing"
  BY DEF Stripe!Deliver, Stripe!Free, Stripe!Holds, Stripe!At
<1>2. Stripe!ClaimRecord(p, i, ev)
      /\ UNCHANGED <<stripeSpent, stripeChannel, Stripe!external, stripeTold, Stripe!history>>
  BY DEF Stripe!Deliver
<1>. QED BY <1>1, <1>2, StripeClaimRecordKeeps

LEMMA StripeRetryDriveKeeps ==
    ASSUME Stripe!IInv, NEW p \in StripeHandlers, Stripe!RetryDrive(p) PROVE Stripe!IInv'
<1>1. PICK i \in StripeInvoices : i = Stripe!Inv(p)
  BY StripeKnown0
<1>2. ~Stripe!Holds(p) /\ stripeReq[p].st # "executing"
  BY StripeKnown0 DEF Stripe!RetryDrive, Stripe!Holds, Stripe!At, Stripe!Own, Stripe!Busy
<1>3. PICK ev \in {"payin", "payout", "other"} : ev = "payout"
  OBVIOUS
<1>4. Stripe!ClaimRecord(p, i, ev)
      /\ UNCHANGED <<stripeSpent, stripeChannel, Stripe!external, stripeTold, Stripe!history>>
  BY <1>1, <1>3 DEF Stripe!RetryDrive
<1>. QED BY <1>2, <1>4, StripeClaimRecordKeeps

-----------------------------------------------------------------------------
(* Stripe invoices: reconciliation and retry.                              *)

\* A handler looks at an invoice nobody has to claim, or an administrator rushes
\* the retry of one.
LEMMA StripeWatcherKeeps ==
    ASSUME Stripe!IInv, NEW p \in StripeHandlers, NEW i \in StripeInvoices, NEW h \in Stripe!Locals,
           Stripe!Quiet(p, i, h),
           h.pc \in {"reconcile", "retry", "restep", "redrive"}, Stripe!Own(p)', Stripe!Crypto(i)',
           stripeSpent' = stripeSpent, stripeSlips' = stripeSlips,
           \/ Stripe!Matched(p, i)' => Stripe!Owed(i) /\ (Stripe!MaySign(i) \/ Stripe!Clear(i))
           \/ stripeRushed' = stripeRushed + 1
    PROVE  Stripe!IInv'
<1>. USE StripeKnown0
<1>1. /\ Stripe!Moves(p, i, h, stripeRec[i]) /\ Stripe!TypeOK' /\ stripeRec[i] \in Stripe!Records
      /\ stripeProc'[p] = h /\ \A q \in StripeHandlers \ {p} : stripeProc'[q] = stripeProc[q]
         /\ stripeReq'[q] = stripeReq[q]
      /\ Stripe!Newer(i) /\ Stripe!Executing(i)' = Stripe!Executing(i)
         /\ Stripe!Calls' = Stripe!Calls /\ (Stripe!Clear(i)' <=> Stripe!Clear(i))
      /\ Stripe!Refunds' \subseteq Stripe!Refunds
  BY StripeQuietMoves
<1>2. stripeRec' = stripeRec /\ stripePermits' = stripePermits /\ stripeRushed' \in Nat
      /\ stripeRushed <= stripeRushed'
  BY DEF Stripe!Quiet
<1>3. ~Stripe!Holds(p)' /\ ~Stripe!Charged(p)'
  BY <1>1 DEF Stripe!Holds, Stripe!Charged, Stripe!At
<1>4. \A k \in StripeInvoices \ {i} : Stripe!Owed(k)' => Stripe!Owed(k)
  BY <1>1, StripeMovesElse
<1>5. ASSUME Stripe!Matched(p, i)' => Stripe!Owed(i) /\ (Stripe!MaySign(i) \/ Stripe!Clear(i))
      PROVE  Cardinality(Stripe!Rights(i))' <= 1 + stripeRushed'
             /\ Cardinality(Stripe!Units') <= stripeSpent' + stripeSlips' + stripeRushed'
  <2>1. Stripe!Owed(i)' => Stripe!Owed(i)
    BY <1>1, <1>2, <1>3, <1>5, StripeQuietOwed
  <2>2. Stripe!Debts' \subseteq Stripe!Debts
    BY <1>4, <2>1 DEF Stripe!Debts
  <2>3. Cardinality(Stripe!Units) \in Nat /\ Cardinality(Stripe!Units') \in Nat
        /\ Cardinality(Stripe!Units') <= Cardinality(Stripe!Units)
    BY <1>1, <1>2, <2>2, StripeUnitsStay
  <2>4. Cardinality(Stripe!Rights(i))' <= 1 + stripeRushed'
    <3>1. CASE Stripe!Matched(p, i)' => Stripe!MaySign(i)
      <4>1. Stripe!MaySign(i)' => Stripe!MaySign(i)
        BY <1>1, <1>2, <1>3, <3>1, StripeQuietMay
      <4>. QED BY <1>1, <1>2, <4>1, StripeRightsKept
    <3>2. CASE Stripe!Clear(i)
      BY <1>1, <1>2, <3>2, StripeRightsOfClear
    <3>. QED BY <1>5, <3>1, <3>2
  <2>5. Cardinality(Stripe!Units') <= stripeSpent' + stripeSlips' + stripeRushed'
    BY <1>2, <2>3
  <2>. QED BY <2>4, <2>5
<1>6. ASSUME stripeRushed' = stripeRushed + 1
      PROVE  Cardinality(Stripe!Rights(i))' <= 1 + stripeRushed'
             /\ Cardinality(Stripe!Units') <= stripeSpent' + stripeSlips' + stripeRushed'
  <2>1. Stripe!Debts' \subseteq Stripe!Debts \cup {i}
    BY <1>4 DEF Stripe!Debts
  <2>2. Cardinality(Stripe!Units) \in Nat /\ Cardinality(Stripe!Units') \in Nat
        /\ Cardinality(Stripe!Units') <= Cardinality(Stripe!Units) + 1
    BY <1>1, <1>2, <2>1, StripeUnitsOwe
  <2>3. Stripe!Rights(i)' \subseteq Stripe!Rights(i) \cup {<<"token", i>>}
    BY <1>1, <1>2 DEF Stripe!Rights
  <2>4. IsFiniteSet(Stripe!Rights(i)) /\ Cardinality(Stripe!Rights(i)) \in Nat
    BY StripeCountedFinite
  <2>5. Cardinality(Stripe!Rights(i)') \in Nat
        /\ Cardinality(Stripe!Rights(i)') <= Cardinality(Stripe!Rights(i)) + 1
    BY <2>3, <2>4, StripeCountGrows
  <2>6. Cardinality(Stripe!Rights(i))' <= 1 + stripeRushed'
    BY <1>6, <2>4, <2>5
  <2>7. Cardinality(Stripe!Units') <= stripeSpent' + stripeSlips' + stripeRushed'
    BY <1>6, <2>2
  <2>. QED BY <2>6, <2>7
<1>7. Cardinality(Stripe!Rights(i))' <= 1 + stripeRushed'
      /\ Cardinality(Stripe!Units') <= stripeSpent' + stripeSlips' + stripeRushed'
  BY <1>5, <1>6
<1>8. \A q \in StripeHandlers \ {p} : Stripe!Holds(q) /\ Stripe!Inv(q) = i
      => stripeRec[i].status \in Stripe!Stay /\ ~(Stripe!Holds(p)' /\ h.inv = i)
  BY <1>3 DEF Stripe!Own, Stripe!Claimed
<1>9. (stripeRec[i].status = "paid" => stripeRec[i].status = "paid" \/ i \in stripePulled)
      /\ stripeRec[i].verified = stripeRec[i].verified
      /\ (Stripe!Ambiguous(i)' /\ Stripe!Clear(i) => Stripe!Clear(i)')
  BY <1>1
<1>. QED BY <1>1, <1>7, <1>8, <1>9, StripeMovesKeep

LEMMA StripeReconcileReadKeeps ==
    ASSUME Stripe!IInv, NEW p \in StripeHandlers, NEW i \in StripeInvoices,
           Stripe!ReconcileRead(p, i) PROVE Stripe!IInv'
<1>. USE StripeKnown0
<1>1. /\ UNCHANGED <<stripeRec, stripeSpent, stripeChannel, stripeReq, stripeSess, stripePermits,
                     stripePulled, stripeTold, stripeFaults, stripeRushed, stripeSlips, stripeMisread>>
      /\ stripeReq[p].st # "executing" /\ stripeRec[i].status \in Stripe!InFlight
  BY DEF Stripe!ReconcileRead, Stripe!Free, Stripe!store, Stripe!external, Stripe!history
<1>2. PICK live \in {stripeSess[i], "error"} :
        stripeProc' = [stripeProc EXCEPT ![p] = [Stripe!Idle EXCEPT !.pc = "reconcile", !.inv = i,
                                                 !.live = live, !.ev = stripeRec[i].status]]
  BY DEF Stripe!ReconcileRead
<1>3. live \in Stripe!Sessions \cup {"none", "error"}
  OBVIOUS
<1>. DEFINE h == [Stripe!Idle EXCEPT !.pc = "reconcile", !.inv = i, !.live = live,
                  !.ev = stripeRec[i].status]
<1>4. h \in Stripe!Locals /\ h.pc = "reconcile" /\ h.inv = i /\ h.live = live
  BY <1>1, <1>3, StripeIdleFacts DEF Stripe!Locals, Stripe!Steps
<1>5. stripeProc' = [stripeProc EXCEPT ![p] = h]
  BY <1>2
<1>. HIDE DEF h
<1>6. stripeProc'[p] = h
  BY <1>5
<1>7. Stripe!Quiet(p, i, h)
  BY <1>1, <1>4, <1>5 DEF Stripe!Quiet, Stripe!TakesChannel
<1>8. Stripe!Own(p)'
  <2>1. Stripe!Claimed(p)'
    BY <1>4, <1>6 DEF Stripe!Claimed, Stripe!Holds
  <2>2. Stripe!Busy(p)'
    <3>1. stripeReq'[p].st # "executing"
          /\ (stripeReq'[p].st = "signed" => stripePermits'[stripeReq'[p].inv] > 0)
      BY <1>1 DEF Stripe!Own, Stripe!Busy
    <3>. QED BY <1>4, <1>6, <3>1 DEF Stripe!Busy, Stripe!At, Stripe!Inv, Stripe!Rejected,
         Stripe!Sent
  <2>3. Stripe!Seen(p)'
    BY <1>4, <1>6 DEF Stripe!Seen, Stripe!At
  <2>4. Stripe!Toward(p)'
    <3>1. live = "complete" => i \in stripePulled
      BY DEF Stripe!Crypto
    <3>. QED BY <1>1, <1>4, <1>6, <3>1 DEF Stripe!Toward, Stripe!At, Stripe!Inv
  <2>. QED BY <2>1, <2>2, <2>3, <2>4 DEF Stripe!Own
<1>9. Stripe!Crypto(i)'
  BY <1>1 DEF Stripe!Crypto, Stripe!Executing
<1>10. ~Stripe!Matched(p, i)'
  BY <1>4, <1>6 DEF Stripe!Matched, Stripe!At
<1>. QED BY <1>1, <1>4, <1>7, <1>8, <1>9, <1>10, StripeWatcherKeeps

\* The record in hand of a retry: it is matched, and the record was ambiguous.
LEMMA StripeRestepKeeps ==
    ASSUME Stripe!IInv, NEW p \in StripeHandlers, NEW i \in StripeInvoices, NEW h \in Stripe!Locals,
           stripeProc' = [stripeProc EXCEPT ![p] = h],
           h.pc = "restep", h.inv = i, h.ambig = stripeRec[i].ambig, stripeReq[p].st # "executing",
           Stripe!Ambiguous(i),
           UNCHANGED <<stripeRec, stripeSpent, stripeChannel, stripeReq, stripeSess, stripePermits,
                       stripePulled, stripeTold, stripeFaults, stripeSlips, stripeMisread>>,
           \/ Stripe!Clear(i) /\ stripeRushed' = stripeRushed
           \/ stripeRushed' = stripeRushed + 1
    PROVE  Stripe!IInv'
<1>. USE StripeKnown0
<1>1. stripeRec[i].ambig \in Nat /\ stripeProc'[p] = h
  BY StripeRecordFacts
<1>2. Stripe!Quiet(p, i, h)
  BY DEF Stripe!Quiet, Stripe!TakesChannel
<1>3. Stripe!Own(p)'
  <2>1. Stripe!Claimed(p)'
    BY <1>1 DEF Stripe!Claimed, Stripe!Holds
  <2>2. Stripe!Busy(p)'
    <3>1. stripeReq'[p].st # "executing"
          /\ (stripeReq'[p].st = "signed" => stripePermits'[stripeReq'[p].inv] > 0)
      BY DEF Stripe!Own, Stripe!Busy
    <3>. QED BY <1>1, <3>1 DEF Stripe!Busy, Stripe!At, Stripe!Inv, Stripe!Rejected, Stripe!Sent
  <2>3. Stripe!Seen(p)' /\ Stripe!Toward(p)'
    BY <1>1 DEF Stripe!Seen, Stripe!Toward, Stripe!At, Stripe!Inv
  <2>. QED BY <2>1, <2>2, <2>3 DEF Stripe!Own
<1>4. Stripe!Crypto(i)'
  BY DEF Stripe!Crypto, Stripe!Executing
<1>5. Stripe!Clear(i) => Stripe!Owed(i)
  BY DEF Stripe!Owed
<1>6. h.pc \in {"reconcile", "retry", "restep", "redrive"}
  OBVIOUS
<1>7. \/ Stripe!Matched(p, i)' => Stripe!Owed(i) /\ (Stripe!MaySign(i) \/ Stripe!Clear(i))
      \/ stripeRushed' = stripeRushed + 1
  BY <1>5
<1>. QED BY <1>2, <1>3, <1>4, <1>6, <1>7, StripeWatcherKeeps

\* A handler that inspects an ambiguous record before a retry.
LEMMA StripeInspectKeeps ==
    ASSUME Stripe!IInv, NEW p \in StripeHandlers, NEW i \in StripeInvoices, Stripe!Inspect(p, i),
           stripeReq[p].st # "executing", Stripe!Ambiguous(i),
           UNCHANGED <<stripeRec, stripeSpent, stripeChannel, stripeReq, stripeSess, stripePermits,
                       stripePulled, stripeTold, stripeFaults, stripeSlips, stripeMisread>>
    PROVE  Stripe!IInv'
<1>. USE StripeKnown0
<1>. DEFINE h == [Stripe!Idle EXCEPT !.pc = "restep", !.inv = i, !.retries = stripeRec[i].retries,
                  !.ambig = stripeRec[i].ambig]
<1>1. h \in Stripe!Locals /\ h.pc = "restep" /\ h.inv = i /\ h.ambig = stripeRec[i].ambig
  BY StripeIdleFacts, StripeRecordFacts DEF Stripe!Locals, Stripe!Steps
<1>2. stripeProc' = [stripeProc EXCEPT ![p] = h]
  BY DEF Stripe!Inspect
<1>. HIDE DEF h
<1>3. (Stripe!Clear(i) /\ stripeRushed' = stripeRushed) \/ stripeRushed' = stripeRushed + 1
  BY DEF Stripe!Inspect
<1>. QED BY <1>1, <1>2, <1>3, StripeRestepKeeps

LEMMA StripeRetryCronKeeps ==
    ASSUME Stripe!IInv, NEW p \in StripeHandlers, Stripe!RetryCron(p) PROVE Stripe!IInv'
<1>. USE StripeKnown0
<1>1. /\ UNCHANGED <<stripeRec, stripeSpent, stripeChannel, stripeReq, stripeSess, stripePermits,
                     stripePulled, stripeTold, stripeFaults, stripeSlips, stripeMisread>>
      /\ Stripe!At(p, "retry")
  BY DEF Stripe!RetryCron, Stripe!store, Stripe!external
<1>2. CASE Stripe!Leave(p) /\ UNCHANGED stripeRushed
  BY <1>1, <1>2, StripeIdleKeeps DEF Stripe!Leave
<1>3. CASE Stripe!Ambiguous(Stripe!Inv(p)) /\ Stripe!Inspect(p, Stripe!Inv(p))
  <2>1. stripeReq[p].st # "executing" /\ Stripe!Inv(p) \in StripeInvoices
    BY <1>1 DEF Stripe!Own, Stripe!Busy, Stripe!At
  <2>. QED BY <1>1, <1>3, <2>1, StripeInspectKeeps
<1>. QED BY <1>2, <1>3 DEF Stripe!RetryCron, Stripe!Ambiguous

LEMMA StripeRetryAdminKeeps ==
    ASSUME Stripe!IInv, NEW p \in StripeHandlers, NEW i \in StripeInvoices,
           Stripe!RetryAdmin(p, i) PROVE Stripe!IInv'
<1>1. /\ UNCHANGED <<stripeRec, stripeSpent, stripeChannel, stripeReq, stripeSess, stripePermits,
                     stripePulled, stripeTold, stripeFaults, stripeSlips, stripeMisread>>
      /\ stripeReq[p].st # "executing" /\ Stripe!Ambiguous(i) /\ Stripe!Inspect(p, i)
  BY DEF Stripe!RetryAdmin, Stripe!Free, Stripe!store, Stripe!external, Stripe!Ambiguous
<1>. QED BY <1>1, StripeInspectKeeps

\* What Stripe said is applied to a record.
LEMMA StripeReconciledFacts ==
    ASSUME NEW r \in Stripe!Records, NEW live
    PROVE  Stripe!Reconciled(r, live) \in Stripe!Records
           /\ Stripe!Applied(r, live, Stripe!Reconciled(r, live))
<1>1. r.gone \in Nat /\ r.status \in Stripe!Statuses
  BY StripeRecordFacts
<1>2. /\ "paid" \in Stripe!Statuses /\ "failed_provider" \in Stripe!Statuses
         /\ "manual_review" \in Stripe!Statuses
  BY DEF Stripe!Statuses, Stripe!HumanGated
<1>3. ASSUME NEW g \in Nat, NEW s \in Stripe!Statuses,
Stripe!Reconciled(r, live) = [r EXCEPT !.gone = g, !.status = s],
             \/ s = r.status
             \/ r.status \in Stripe!InFlight /\ live = "complete" /\ s = "paid"
             \/ r.status \in Stripe!InFlight /\ s \in {"failed_provider", "manual_review"}
      PROVE  Stripe!Reconciled(r, live) \in Stripe!Records
             /\ Stripe!Applied(r, live, Stripe!Reconciled(r, live))
  <2>1. PICK q : q = [r EXCEPT !.gone = g, !.status = s]
    OBVIOUS
  <2>2. q \in Stripe!Records /\ q.status = s /\ q.ambig = r.ambig /\ q.retries = r.retries
        /\ q.unsigned = r.unsigned
        /\ q.verified = r.verified
    BY <2>1 DEF Stripe!Records
  <2>. QED BY <1>3, <2>1, <2>2 DEF Stripe!Applied
<1>4. CASE live = "complete" /\ r.status \in Stripe!InFlight
  <2>1. Stripe!Reconciled(r, live) = [r EXCEPT !.gone = 0, !.status = "paid"]
    BY <1>4 DEF Stripe!Reconciled
  <2>. QED BY <1>2, <1>3, <1>4, <2>1
<1>5. CASE live = "failed" /\ r.status \in Stripe!InFlight
  <2>1. Stripe!Reconciled(r, live) = [r EXCEPT !.gone = 0, !.status = "failed_provider"]
    BY <1>5 DEF Stripe!Reconciled
  <2>. QED BY <1>2, <1>3, <1>5, <2>1
<1>6. CASE live = "gone"
  <2>1. PICK g \in Nat : g = IF r.gone = GoneEscalate THEN r.gone ELSE r.gone + 1
    BY <1>1
  <2>2. PICK s \in Stripe!Statuses :
          /\ s = IF r.gone + 1 >= GoneEscalate /\ r.status \in Stripe!InFlight
                 THEN "manual_review" ELSE r.status
          /\ (s = r.status \/ (r.status \in Stripe!InFlight /\ s = "manual_review"))
    BY <1>1, <1>2
  <2>3. Stripe!Reconciled(r, live) = [r EXCEPT !.gone = g, !.status = s]
    BY <1>6, <2>1, <2>2 DEF Stripe!Reconciled
  <2>. QED BY <1>3, <2>2, <2>3
<1>7. CASE ~(live = "complete" /\ r.status \in Stripe!InFlight)
           /\ ~(live = "failed" /\ r.status \in Stripe!InFlight) /\ live # "gone"
  <2>1. Stripe!Reconciled(r, live) = [r EXCEPT !.gone = 0]
    BY <1>7 DEF Stripe!Reconciled
  <2>2. [r EXCEPT !.gone = 0] = [r EXCEPT !.gone = 0, !.status = r.status]
    BY DEF Stripe!Records
  <2>. QED BY <1>1, <1>3, <2>1, <2>2
<1>. QED BY <1>4, <1>5, <1>6, <1>7

LEMMA StripeReconcileWriteKeeps ==
    ASSUME Stripe!IInv, NEW p \in StripeHandlers, Stripe!ReconcileWrite(p) PROVE Stripe!IInv'
<1>. USE StripeKnown0
<1>1. PICK i \in StripeInvoices : i = Stripe!Inv(p)
  OBVIOUS
<1>2. /\ UNCHANGED <<stripeSpent, stripeChannel, stripeReq, stripeSess, stripePermits, stripePulled,
                     stripeTold, stripeFaults, stripeRushed, stripeSlips, stripeMisread>>
      /\ Stripe!At(p, "reconcile")
  BY DEF Stripe!ReconcileWrite, Stripe!external, Stripe!history
<1>3. PICK live : live = stripeProc[p].live
  OBVIOUS
<1>4. PICK r \in Stripe!Records :
         stripeRec' = [stripeRec EXCEPT ![i] = r] /\ Stripe!Applied(stripeRec[i], live, r)
  <2>1. PICK r : r = Stripe!Reconciled(stripeRec[i], live)
    OBVIOUS
  <2>2. r \in Stripe!Records /\ Stripe!Applied(stripeRec[i], live, r)
    BY <2>1, StripeReconciledFacts
  <2>3. stripeRec' = [stripeRec EXCEPT ![i] = r]
    BY <1>1, <1>3, <2>1 DEF Stripe!ReconcileWrite, Stripe!SetRec
  <2>. QED BY <2>2, <2>3
<1>5. PICK h \in Stripe!Locals :
         /\ stripeProc' = [stripeProc EXCEPT ![p] = h]
         /\ \/ h = Stripe!Idle
            \/ /\ stripeProc[p].ev = "provider_submitted_ambiguous"
               /\ h.pc = "retry" /\ h.inv = i /\ h.live = live
  <2>1. CASE Stripe!Leave(p)
    BY <2>1, StripeIdleFacts DEF Stripe!Leave
  <2>2. CASE /\ stripeProc[p].ev = "provider_submitted_ambiguous"
             /\ stripeProc' = [stripeProc EXCEPT ![p].pc = "retry", ![p].ev = "none"]
    <3>. DEFINE h == [stripeProc[p] EXCEPT !.pc = "retry", !.ev = "none"]
    <3>1. h \in Stripe!Locals /\ h.pc = "retry" /\ h.inv = i /\ h.live = live
      BY <1>1, <1>3 DEF Stripe!Locals, Stripe!Steps, Stripe!Inv
    <3>2. stripeProc' = [stripeProc EXCEPT ![p] = h]
      BY <2>2
    <3>. HIDE DEF h
    <3>. QED BY <2>2, <3>1, <3>2
  <2>. QED BY <2>1, <2>2 DEF Stripe!ReconcileWrite
<1>6. i \in Stripe!Known /\ stripeRec'[i] = r /\ stripeRec[i].ambig \in Nat
  BY <1>4, StripeRecordFacts DEF Stripe!Known
<1>7. \A k \in StripeInvoices : Stripe!Executing(k)' = Stripe!Executing(k)
  BY <1>2 DEF Stripe!Executing
<1>8. h.inv = i \/ h.pc = "idle"
  BY <1>5, StripeIdleFacts
<1>9. Stripe!Moves(p, i, h, r)
  <2>1. /\ \A q \in StripeHandlers \ {p} : stripeReq'[q] = stripeReq[q]
        /\ \A k \in StripeInvoices \ {i} : Stripe!Executing(k)' = Stripe!Executing(k)
           /\ stripeChannel'[k] = stripeChannel[k]
        /\ stripeChannel[i] # "none" => stripeChannel'[i] = stripeChannel[i]
        /\ stripeRushed <= stripeRushed'
    BY <1>2, <1>7
  <2>. QED BY <1>2, <1>4, <1>5, <1>8, <2>1 DEF Stripe!Moves
<1>10. Stripe!TypeOK' /\ stripeProc'[p] = h
       /\ \A q \in StripeHandlers \ {p} : stripeProc'[q] = stripeProc[q] /\ stripeReq'[q] = stripeReq[q]
  <2>1. /\ stripeChannel' \in [StripeInvoices -> {"none", "crypto", "upi"}] /\ stripeSpent' \in Nat
           /\ stripeFaults' \in Nat
        /\ stripeSlips' \in Nat /\ stripeRushed' \in Nat
           /\ stripeReq' \in [StripeHandlers -> [inv : StripeInvoices, st : Stripe!Answers]]
    BY <1>2
  <2>2. Stripe!TypeOK'
    BY <1>6, <1>9, <2>1, StripeMovesType
  <2>. QED BY <1>2, <1>5, <2>2
<1>11. /\ r.ambig = stripeRec[i].ambig /\ r.retries = stripeRec[i].retries
          /\ r.unsigned = stripeRec[i].unsigned
       /\ r.verified = stripeRec[i].verified
       /\ \/ r.status = stripeRec[i].status
          \/ stripeRec[i].status \in Stripe!InFlight /\ live = "complete" /\ r.status = "paid"
          \/ stripeRec[i].status \in Stripe!InFlight
             /\ r.status \in {"failed_provider", "manual_review"}
  BY <1>4 DEF Stripe!Applied
<1>12. Stripe!Newer(i) /\ (Stripe!Claimable(i)' => Stripe!Claimable(i))
       /\ (Stripe!Ambiguous(i)' => Stripe!Ambiguous(i))
  BY <1>6, <1>11 DEF Stripe!Newer, Stripe!Ambiguous, Stripe!Claimable, Stripe!HumanGated
<1>13. ~Stripe!Holds(p)' /\ ~Stripe!Charged(p)' /\ ~Stripe!Matched(p, i)' /\ ~Stripe!At(p, "refund")'
  BY <1>5, <1>10, StripeIdleFacts DEF Stripe!Holds, Stripe!Charged, Stripe!Matched, Stripe!At
<1>14. (Stripe!Clear(i)' <=> Stripe!Clear(i)) /\ Stripe!Calls' = Stripe!Calls
       /\ Stripe!Executing(i)' = Stripe!Executing(i)
  BY <1>2, <1>7 DEF Stripe!Clear, Stripe!Calls
<1>15. ~(Stripe!Ambiguous(i)' /\ stripeRec[i].ambig < stripeRec'[i].ambig)
  BY <1>6, <1>11
<1>16. Stripe!MaySign(i)' => Stripe!MaySign(i)
  <2>1. Stripe!Claimable(i)' => Stripe!MaySign(i)
    BY <1>12 DEF Stripe!MaySign
  <2>. QED BY <1>10, <1>12, <1>13, <1>15, <2>1, StripeMayFrom
<1>17. Stripe!Owed(i)' => Stripe!Owed(i)
  BY <1>10, <1>12, <1>13, <1>14, <1>15, StripeOwedFrom
<1>18. Stripe!Own(p)'
  <2>1. CASE h = Stripe!Idle
    BY <1>2, <1>10, <2>1, StripeIdleOwn
  <2>2. CASE /\ stripeProc[p].ev = "provider_submitted_ambiguous"
             /\ h.pc = "retry" /\ h.inv = i /\ h.live = live
    <3>1. Stripe!Claimed(p)'
      BY <1>10, <2>2 DEF Stripe!Claimed, Stripe!Holds
    <3>2. Stripe!Busy(p)'
      <4>1. stripeReq'[p].st # "executing"
            /\ (stripeReq'[p].st = "signed" => stripePermits'[stripeReq'[p].inv] > 0)
        BY <1>2 DEF Stripe!Own, Stripe!Busy, Stripe!At
      <4>. QED BY <1>10, <2>2, <4>1 DEF Stripe!Busy, Stripe!At, Stripe!Inv, Stripe!Rejected,
           Stripe!Sent
    <3>3. Stripe!Seen(p)'
      BY <1>10, <2>2 DEF Stripe!Seen, Stripe!At
    <3>4. Stripe!Toward(p)'
      BY <1>10, <2>2 DEF Stripe!Toward, Stripe!At, Stripe!Inv
    <3>. QED BY <3>1, <3>2, <3>3, <3>4 DEF Stripe!Own
  <2>. QED BY <1>5, <2>1, <2>2
<1>19. Stripe!Crypto(i)'
  <2>1. Stripe!Crypto(i)
    OBVIOUS
  <2>2. r.status = stripeRec[i].status \/ r.status \notin Stripe!CannotPull
    BY <1>11 DEF Stripe!CannotPull
  <2>. QED BY <1>2, <1>6, <1>14, <2>1, <2>2 DEF Stripe!Crypto, Stripe!CannotPull
<1>20. \A q \in StripeHandlers \ {p} : Stripe!Holds(q) /\ Stripe!Inv(q) = i
       => r.status \in Stripe!Stay /\ ~(Stripe!Holds(p)' /\ h.inv = i)
  <2>1. stripeRec[i].status \in Stripe!Stay => r.status \in Stripe!Stay
    BY <1>11 DEF Stripe!Stay, Stripe!HumanGated
  <2>. QED BY <1>13, <2>1 DEF Stripe!Own, Stripe!Claimed
<1>21. Stripe!Refunds' \subseteq Stripe!Refunds /\ Stripe!Calls' \subseteq Stripe!Calls
       /\ stripeSpent + stripeSlips + stripeRushed <= stripeSpent' + stripeSlips' + stripeRushed'
  BY <1>2, <1>10, <1>13, <1>14 DEF Stripe!Refunds, Stripe!At
<1>22. r.status = "paid" => stripeRec[i].status = "paid" \/ i \in stripePulled
  BY <1>1, <1>2, <1>3, <1>11 DEF Stripe!Own, Stripe!Toward
<1>. QED BY <1>9, <1>10, <1>11, <1>12, <1>14, <1>16, <1>17, <1>18, <1>19, <1>20, <1>21, <1>22,
     StripeTameStep

\* The retry takes the place of the ambiguous attempt.
LEMMA StripeRetryStepKeeps ==
    ASSUME Stripe!IInv, NEW p \in StripeHandlers, Stripe!RetryStep(p) PROVE Stripe!IInv'
<1>. USE StripeKnown0
<1>1. PICK i \in StripeInvoices : i = Stripe!Inv(p)
  OBVIOUS
<1>2. /\ UNCHANGED <<stripeSpent, stripeChannel, stripeReq, stripeSess, stripePermits, stripePulled,
                     stripeTold, stripeFaults, stripeRushed, stripeSlips, stripeMisread>>
      /\ Stripe!At(p, "restep")
  BY DEF Stripe!RetryStep, Stripe!external, Stripe!history
<1>3. CASE Stripe!Leave(p) /\ stripeRec' = stripeRec
  BY <1>2, <1>3, StripeIdleKeeps DEF Stripe!Leave
<1>4. CASE /\ Stripe!Ambiguous(i) /\ stripeRec[i].retries = stripeProc[p].retries
              /\ stripeRec[i].ambig = stripeProc[p].ambig
           /\ stripeRec'
              = [stripeRec EXCEPT ![i] = [stripeRec[i] EXCEPT !.status = "payout_seen",
                                          !.retries = @ + 1]]
           /\ stripeProc' = [stripeProc EXCEPT ![p] = Stripe!On(p, "refund")]
  <2>1. PICK h \in Stripe!Locals :
           stripeProc' = [stripeProc EXCEPT ![p] = h] /\ h.pc = "refund" /\ h.inv = i
    <3>1. PICK l \in Stripe!Steps : l = "refund"
      BY DEF Stripe!Steps
    <3>2. PICK g : g = Stripe!On(p, l)
      OBVIOUS
    <3>3. g \in Stripe!Locals /\ g.pc = l /\ g.inv = i
      BY <1>1, <3>2, StripeOnFacts
    <3>4. stripeProc' = [stripeProc EXCEPT ![p] = g]
      BY <1>4, <3>1, <3>2
    <3>. QED BY <3>1, <3>3, <3>4
  <2>2. PICK r : r = [stripeRec[i] EXCEPT !.status = "payout_seen", !.retries = @ + 1]
    OBVIOUS
  <2>3. r \in Stripe!Records /\ r.status = "payout_seen" /\ r.ambig = stripeRec[i].ambig
        /\ r.verified = stripeRec[i].verified
    <3>1. stripeRec[i].retries + 1 \in Nat /\ "payout_seen" \in Stripe!Statuses
      BY StripeRecordFacts DEF Stripe!Statuses
    <3>. QED BY <2>2, <3>1 DEF Stripe!Records
  <2>4. i \in Stripe!Known /\ stripeRec' = [stripeRec EXCEPT ![i] = r] /\ stripeRec'[i] = r
        /\ stripeRec[i].ambig \in Nat
    BY <1>4, <2>2, StripeRecordFacts DEF Stripe!Known
  <2>5. \A k \in StripeInvoices : Stripe!Executing(k)' = Stripe!Executing(k)
    BY <1>2 DEF Stripe!Executing
  <2>6. Stripe!Moves(p, i, h, r)
    <3>1. /\ \A q \in StripeHandlers \ {p} : stripeReq'[q] = stripeReq[q]
          /\ \A k \in StripeInvoices \ {i} : Stripe!Executing(k)' = Stripe!Executing(k)
             /\ stripeChannel'[k] = stripeChannel[k]
          /\ stripeChannel[i] # "none" => stripeChannel'[i] = stripeChannel[i]
          /\ stripeRushed <= stripeRushed'
      BY <1>2, <2>5
    <3>. QED BY <1>2, <2>1, <2>4, <3>1 DEF Stripe!Moves
  <2>7. Stripe!TypeOK' /\ stripeProc'[p] = h
        /\ \A q \in StripeHandlers \ {p} : stripeProc'[q] = stripeProc[q]
           /\ stripeReq'[q] = stripeReq[q]
    <3>1. /\ stripeChannel' \in [StripeInvoices -> {"none", "crypto", "upi"}]
             /\ stripeSpent' \in Nat /\ stripeFaults' \in Nat
          /\ stripeSlips' \in Nat /\ stripeRushed' \in Nat
             /\ stripeReq' \in [StripeHandlers -> [inv : StripeInvoices, st : Stripe!Answers]]
      BY <1>2
    <3>2. Stripe!TypeOK'
      BY <2>3, <2>4, <2>6, <3>1, StripeMovesType
    <3>. QED BY <1>2, <2>1, <3>2
  <2>8. \A q \in StripeHandlers : ~(Stripe!Holds(q) /\ Stripe!Inv(q) = i)
    <3>1. stripeRec[i].status \notin Stripe!Stay
      BY <1>4 DEF Stripe!Ambiguous, Stripe!Stay, Stripe!HumanGated
    <3>. QED BY <3>1, StripeNoHolder
  <2>9. Stripe!MaySign(i) /\ Stripe!Owed(i)
    <3>1. Stripe!Matched(p, i)
      BY <1>1, <1>2, <1>4 DEF Stripe!Matched
    <3>. QED BY <1>4, <3>1 DEF Stripe!MaySign, Stripe!Owed
  <2>10. Stripe!Newer(i) /\ ~Stripe!Ambiguous(i)'
    BY <2>3, <2>4 DEF Stripe!Newer, Stripe!Ambiguous
  <2>11. ~Stripe!Charged(p)' /\ ~Stripe!Holds(p)'
    BY <2>1, <2>7 DEF Stripe!Charged, Stripe!Holds, Stripe!At
  <2>12. ~Stripe!Owed(i)'
    <3>1. ASSUME NEW q \in StripeHandlers, Stripe!Inv(q)' = i, Stripe!Charged(q)' PROVE FALSE
      <4>1. q # p
        BY <2>11, <3>1
      <4>2. Stripe!Holds(q) /\ Stripe!Inv(q) = i
        BY <2>7, <3>1, <4>1 DEF Stripe!Holds, Stripe!Charged, Stripe!At, Stripe!Inv
      <4>. QED BY <2>8, <4>2
    <3>. QED BY <2>10, <3>1 DEF Stripe!Owed
  <2>13. Cardinality(Stripe!Rights(i))' <= 1 + stripeRushed'
    BY <1>2, <2>5, <2>9, StripeRightsKept
  <2>14. Cardinality(Stripe!Units') <= stripeSpent' + stripeSlips' + stripeRushed'
    <3>1. \A k \in StripeInvoices \ {i} : Stripe!Owed(k)' => Stripe!Owed(k)
      BY <2>3, <2>6, <2>7, StripeMovesElse
    <3>2. i \in Stripe!Debts /\ Stripe!Debts' \subseteq Stripe!Debts \ {i}
      BY <2>9, <2>12, <3>1 DEF Stripe!Debts
    <3>3. Stripe!Calls' \subseteq Stripe!Calls /\ Stripe!Refunds' \subseteq Stripe!Refunds \cup {p}
      BY <1>2, <2>7 DEF Stripe!Calls, Stripe!Refunds, Stripe!At
    <3>4. Cardinality(Stripe!Units') <= Cardinality(Stripe!Units)
          /\ Cardinality(Stripe!Units) \in Nat /\ Cardinality(Stripe!Units') \in Nat
      BY <1>2, <2>7, <3>2, <3>3, StripeUnitsSpend
    <3>. QED BY <1>2, <3>4
  <2>15. Stripe!Own(p)'
    <3>1. stripeReq'[p].st # "executing"
          /\ (stripeReq'[p].st = "signed" => stripePermits'[stripeReq'[p].inv] > 0)
      BY <1>2 DEF Stripe!Own, Stripe!Busy, Stripe!At
    <3>2. Stripe!Busy(p)'
      BY <2>1, <2>7, <3>1 DEF Stripe!Busy, Stripe!At, Stripe!Inv, Stripe!Rejected, Stripe!Sent
    <3>3. Stripe!Seen(p)' /\ Stripe!Toward(p)'
      BY <2>1, <2>7 DEF Stripe!Seen, Stripe!Toward, Stripe!At, Stripe!Inv
    <3>. QED BY <2>11, <3>2, <3>3 DEF Stripe!Own, Stripe!Claimed
  <2>16. Stripe!Crypto(i)'
    BY <1>2, <2>3, <2>4, <2>5 DEF Stripe!Crypto, Stripe!CannotPull
  <2>17. \A q \in StripeHandlers \ {p} : Stripe!Holds(q) /\ Stripe!Inv(q) = i
         => r.status \in Stripe!Stay /\ ~(Stripe!Holds(p)' /\ h.inv = i)
    BY <2>8
  <2>18. (r.status = "paid" => stripeRec[i].status = "paid" \/ i \in stripePulled)
         /\ r.verified = stripeRec[i].verified
         /\ (Stripe!Ambiguous(i)' /\ Stripe!Clear(i) => Stripe!Clear(i)')
    BY <2>3, <2>10
  <2>. QED BY <2>3, <2>6, <2>7, <2>10, <2>13, <2>14, <2>15, <2>16, <2>17, <2>18, StripeMovesKeep
<1>5. (Stripe!Leave(p) /\ stripeRec' = stripeRec) \/
        /\ Stripe!Ambiguous(i) /\ stripeRec[i].retries = stripeProc[p].retries
           /\ stripeRec[i].ambig = stripeProc[p].ambig
        /\ stripeRec'
           = [stripeRec EXCEPT ![i] = [stripeRec[i] EXCEPT !.status = "payout_seen", !.retries = @ + 1]]
        /\ stripeProc' = [stripeProc EXCEPT ![p] = Stripe!On(p, "refund")]
  BY <1>1 DEF Stripe!RetryStep, Stripe!Ambiguous, Stripe!SetRec
<1>. QED BY <1>3, <1>4, <1>5

\* Its headroom is handed back, or not.
LEMMA StripeRetryReleaseKeeps ==
    ASSUME Stripe!IInv, NEW p \in StripeHandlers, Stripe!RetryRelease(p) PROVE Stripe!IInv'
<1>. USE StripeKnown0
<1>1. PICK i \in StripeInvoices : i = Stripe!Inv(p)
  OBVIOUS
<1>2. /\ UNCHANGED <<stripeRec, stripeChannel, stripeReq, stripeSess, stripePermits, stripePulled,
                     stripeTold, stripeFaults, stripeRushed, stripeSlips, stripeMisread>>
      /\ Stripe!At(p, "refund")
         /\ (stripeSpent' = (IF stripeSpent = 0 THEN 0 ELSE stripeSpent - 1)
             \/ stripeSpent' = stripeSpent)
  BY DEF Stripe!RetryRelease, Stripe!external, Stripe!history
<1>3. PICK h \in Stripe!Locals :
         stripeProc' = [stripeProc EXCEPT ![p] = h] /\ h.pc = "redrive" /\ h.inv = i
  <2>1. PICK l \in Stripe!Steps : l = "redrive"
    BY DEF Stripe!Steps
  <2>2. Stripe!Go(p, l)
    BY <2>1 DEF Stripe!RetryRelease
  <2>. QED BY <1>1, <2>1, <2>2, StripeGoFacts
<1>4. stripeSpent' \in Nat /\ stripeSpent <= stripeSpent' + 1
  BY <1>2
<1>5. Stripe!Quiet(p, i, h)
  BY <1>2, <1>3, <1>4 DEF Stripe!Quiet, Stripe!TakesChannel
<1>6. /\ Stripe!Moves(p, i, h, stripeRec[i]) /\ Stripe!TypeOK' /\ stripeRec[i] \in Stripe!Records
      /\ stripeProc'[p] = h /\ \A q \in StripeHandlers \ {p} : stripeProc'[q] = stripeProc[q]
         /\ stripeReq'[q] = stripeReq[q]
      /\ Stripe!Newer(i) /\ Stripe!Executing(i)' = Stripe!Executing(i)
         /\ Stripe!Calls' = Stripe!Calls /\ (Stripe!Clear(i)' <=> Stripe!Clear(i))
      /\ Stripe!Refunds' \subseteq Stripe!Refunds
  BY <1>3, <1>5, StripeQuietMoves
<1>7. ~Stripe!Holds(p)' /\ ~Stripe!Charged(p)' /\ ~Stripe!Matched(p, i)' /\ ~Stripe!At(p, "refund")'
  BY <1>3, <1>6 DEF Stripe!Holds, Stripe!Charged, Stripe!Matched, Stripe!At
<1>8. Stripe!MaySign(i)' => Stripe!MaySign(i)
  BY <1>2, <1>6, <1>7, StripeQuietMay
<1>9. Stripe!Owed(i)' => Stripe!Owed(i)
  BY <1>2, <1>6, <1>7, StripeQuietOwed
<1>10. Cardinality(Stripe!Rights(i))' <= 1 + stripeRushed'
  BY <1>2, <1>6, <1>8, StripeRightsKept
<1>11. Cardinality(Stripe!Units') <= stripeSpent' + stripeSlips' + stripeRushed'
  <2>1. \A k \in StripeInvoices \ {i} : Stripe!Owed(k)' => Stripe!Owed(k)
    BY <1>6, StripeMovesElse
  <2>2. Stripe!Debts' \subseteq Stripe!Debts
    BY <1>9, <2>1 DEF Stripe!Debts
  <2>3. p \in Stripe!Refunds /\ Stripe!Refunds' \subseteq Stripe!Refunds \ {p}
    BY <1>2, <1>6, <1>7 DEF Stripe!Refunds
  <2>4. Cardinality(Stripe!Units) \in Nat /\ Cardinality(Stripe!Units') \in Nat
        /\ Cardinality(Stripe!Units') + 1 <= Cardinality(Stripe!Units)
    BY <1>2, <1>6, <2>2, <2>3, StripeUnitsRefund
  <2>. QED BY <1>2, <1>4, <2>4
<1>12. Stripe!Own(p)'
  <2>1. stripeReq'[p].st # "executing"
        /\ (stripeReq'[p].st = "signed" => stripePermits'[stripeReq'[p].inv] > 0)
    BY <1>2 DEF Stripe!Own, Stripe!Busy, Stripe!At
  <2>2. Stripe!Busy(p)'
    BY <1>3, <1>6, <2>1 DEF Stripe!Busy, Stripe!At, Stripe!Inv, Stripe!Rejected, Stripe!Sent
  <2>3. Stripe!Seen(p)' /\ Stripe!Toward(p)'
    BY <1>3, <1>6 DEF Stripe!Seen, Stripe!Toward, Stripe!At, Stripe!Inv
  <2>. QED BY <1>7, <2>2, <2>3 DEF Stripe!Own, Stripe!Claimed
<1>13. Stripe!Crypto(i)'
  BY <1>2 DEF Stripe!Crypto, Stripe!Executing
<1>14. \A q \in StripeHandlers \ {p} : Stripe!Holds(q) /\ Stripe!Inv(q) = i
       => stripeRec[i].status \in Stripe!Stay /\ ~(Stripe!Holds(p)' /\ h.inv = i)
  BY <1>7 DEF Stripe!Own, Stripe!Claimed
<1>15. (stripeRec[i].status = "paid" => stripeRec[i].status = "paid" \/ i \in stripePulled)
       /\ stripeRec[i].verified = stripeRec[i].verified
       /\ (Stripe!Ambiguous(i)' /\ Stripe!Clear(i) => Stripe!Clear(i)')
  BY <1>6
<1>. QED BY <1>6, <1>10, <1>11, <1>12, <1>13, <1>14, <1>15, StripeMovesKeep

-----------------------------------------------------------------------------
(* Stripe invoices: pay-invoice ends a request.                            *)

\* Everything that is not about rights and headroom is as before.
LEMMA StripePayInvoiceFrame ==
    ASSUME Stripe!IInv, Stripe!TypeOK', NEW p \in StripeHandlers, stripeReq[p].st = "executing",
           stripeReq'[p].inv = stripeReq[p].inv,
           stripeReq'[p].st # "executing",
           stripeReq'[p].st = "signed" => Stripe!At(p, "calling")
           /\ stripePermits'[stripeReq[p].inv] > 0,
           \A q \in StripeHandlers \ {p} : stripeReq'[q] = stripeReq[q],
           \A k \in StripeInvoices : stripePermits[k] <= stripePermits'[k],
           \A k \in StripeInvoices \ {stripeReq[p].inv} : stripePermits[k] = stripePermits'[k],
           UNCHANGED <<stripeRec, stripeSpent, stripeChannel, stripeProc, stripeSess, stripePulled,
                       stripeTold, stripeFaults, stripeRushed, stripeSlips, stripeMisread>>,
           \A k \in StripeInvoices : Cardinality(Stripe!Rights(k))' <= 1 + stripeRushed',
           Cardinality(Stripe!Units') <= stripeSpent' + stripeSlips' + stripeRushed'
    PROVE  Stripe!IInv'
<1>. USE StripeKnown0
<1>1. PICK i \in StripeInvoices : i = stripeReq[p].inv
  OBVIOUS
<1>2. stripeReq[p] = [inv |-> i, st |-> "executing"] /\ p \in Stripe!Executing(i) /\ ~Stripe!Clear(i)
  <2>1. stripeReq[p] \in [inv : StripeInvoices, st : Stripe!Answers]
    OBVIOUS
  <2>2. stripeReq[p] = [inv |-> i, st |-> "executing"]
    BY <1>1, <2>1
  <2>. QED BY <2>2 DEF Stripe!Executing, Stripe!Clear
<1>3. \A k \in StripeInvoices : Stripe!Executing(k)' \subseteq Stripe!Executing(k)
  <2>1. \A k \in StripeInvoices : stripeReq'[p] # [inv |-> k, st |-> "executing"]
    OBVIOUS
  <2>. QED BY <2>1 DEF Stripe!Executing
<1>4. \A k \in StripeInvoices : Stripe!Clear(k) => Stripe!Clear(k)'
  <2>1. SUFFICES ASSUME NEW k \in StripeInvoices, Stripe!Clear(k) PROVE Stripe!Clear(k)'
    OBVIOUS
  <2>2. k # i
    BY <1>2, <2>1
  <2>. QED BY <1>1, <1>3, <2>1, <2>2 DEF Stripe!Clear
<1>5. \A k \in StripeInvoices : Stripe!Newer(k)
  BY StripeRecordFacts DEF Stripe!Newer, Stripe!Ambiguous
<1>6. \A q \in StripeHandlers : Stripe!Own(q)'
  <2>1. SUFFICES ASSUME NEW q \in StripeHandlers PROVE Stripe!Own(q)'
    OBVIOUS
  <2>2. Stripe!Own(q)
    OBVIOUS
  <2>3. Stripe!Claimed(q)'
    BY <2>2 DEF Stripe!Own, Stripe!Claimed, Stripe!Holds, Stripe!Inv
  <2>4. Stripe!Busy(q)'
    <3>1. Stripe!Busy(q) /\ stripePermits[Stripe!Inv(q)] <= stripePermits'[Stripe!Inv(q)]
          /\ stripePermits'[Stripe!Inv(q)] \in Nat /\ stripePermits[Stripe!Inv(q)] \in Nat
      BY <2>2 DEF Stripe!Own, Stripe!TypeOK
    <3>2. Stripe!At(q, "final") /\ stripeProc[q].to = "provider_submitted"
          => stripePermits'[Stripe!Inv(q)] > 0
      BY <3>1 DEF Stripe!Busy
    <3>3. stripeReq'[q].inv = stripeReq[q].inv
          /\ (stripeReq'[q].st = "executing" => stripeReq[q].st = "executing")
      BY <1>1
    <3>4. stripeReq'[q].st = "signed" => stripePermits'[stripeReq'[q].inv] > 0
      <4>1. CASE q = p
        BY <3>3, <4>1
      <4>2. CASE q # p
        <5>1. stripeReq'[q] = stripeReq[q] /\ stripeReq[q].inv \in StripeInvoices
          BY <4>2
        <5>2. stripePermits[stripeReq[q].inv] <= stripePermits'[stripeReq[q].inv]
              /\ stripePermits'[stripeReq[q].inv] \in Nat /\ stripePermits[stripeReq[q].inv] \in Nat
          BY <5>1 DEF Stripe!TypeOK
        <5>. QED BY <3>1, <5>1, <5>2 DEF Stripe!Busy
      <4>. QED BY <4>1, <4>2
    <3>. QED BY <3>1, <3>2, <3>3, <3>4 DEF Stripe!Busy, Stripe!At, Stripe!Inv
  <2>5. Stripe!Seen(q)'
    BY DEF Stripe!Own, Stripe!Seen, Stripe!At, Stripe!Inv
  <2>6. Stripe!Toward(q)'
    BY <2>2 DEF Stripe!Own, Stripe!Toward, Stripe!At, Stripe!Inv
  <2>. QED BY <2>3, <2>4, <2>5, <2>6 DEF Stripe!Own
<1>7. \A k \in StripeInvoices : Stripe!Crypto(k)'
  <2>1. SUFFICES ASSUME NEW k \in StripeInvoices PROVE Stripe!Crypto(k)'
    OBVIOUS
  <2>2. Stripe!Crypto(k) /\ stripePermits[k] <= stripePermits'[k] /\ stripePermits[k] \in Nat
        /\ stripePermits'[k] \in Nat
    BY DEF Stripe!TypeOK
  <2>3. stripePermits'[k] > 0 => stripePermits[k] > 0 \/ Stripe!Executing(k) # {}
    BY <1>1, <1>2, <2>2
  <2>4. Stripe!Executing(k)' # {} => Stripe!Executing(k) # {}
    BY <1>3
  <2>. QED BY <2>2, <2>3, <2>4 DEF Stripe!Crypto
<1>8. \A s \in StripeSiblings : Stripe!Elsewhere(s)'
  BY DEF Stripe!Elsewhere
<1>9. Stripe!PaidWasPulled'
      /\ (stripeMisread \/ \A o \in Stripe!Known : stripeRec[o].verified \in {o, "none"})'
  BY DEF Stripe!PaidWasPulled
<1>10. \A k \in StripeInvoices : (Stripe!Crypto(k)
                                  /\ Cardinality(Stripe!Rights(k)) <= 1 + stripeRushed)'
  BY <1>7
<1>11. (Cardinality(Stripe!Units) <= stripeSpent + stripeSlips + stripeRushed)'
  OBVIOUS
<1>. QED BY <1>6, <1>8, <1>9, <1>10, <1>11, StripeCardinality DEF Stripe!IInv

\* Nothing new may be signed of the other invoices, and nothing more is owed.
LEMMA StripePayInvoiceElse ==
    ASSUME Stripe!IInv, Stripe!TypeOK', NEW p \in StripeHandlers, NEW k \in StripeInvoices,
           k # stripeReq[p].inv \/ stripeReq'[p].st = "signed", stripeReq[p].st = "executing",
           stripeReq'[p].st = "signed" => Stripe!At(p, "calling"),
           \A q \in StripeHandlers \ {p} : stripeReq'[q] = stripeReq[q],
           UNCHANGED <<stripeRec, stripeProc>>, Stripe!Clear(k)' => Stripe!Clear(k)
    PROVE  (Stripe!MaySign(k)' => Stripe!MaySign(k)) /\ (Stripe!Owed(k)' => Stripe!Owed(k))
<1>. USE StripeKnown0
<1>1. Stripe!At(p, "calling") => stripeReq[p].inv = Stripe!Inv(p)
  BY DEF Stripe!Own, Stripe!Busy
<1>2. \A q \in StripeHandlers : Stripe!Inv(q)' = Stripe!Inv(q)
      /\ (Stripe!Holds(q)' <=> Stripe!Holds(q)) /\ (Stripe!Matched(q, k)' <=> Stripe!Matched(q, k))
  BY DEF Stripe!Inv, Stripe!Holds, Stripe!Matched, Stripe!At
<1>3. ASSUME NEW q \in StripeHandlers, Stripe!Inv(q) = k PROVE Stripe!Gone(q) => Stripe!Gone(q)'
  <2>1. CASE q # p
    BY <2>1 DEF Stripe!Gone, Stripe!At
  <2>2. CASE q = p
    BY <1>1, <1>3, <2>2 DEF Stripe!Gone, Stripe!At
  <2>. QED BY <2>1, <2>2
<1>4. ASSUME NEW q \in StripeHandlers,
Stripe!Inv(q) = k PROVE Stripe!Charged(q)' => Stripe!Charged(q)
  <2>1. Stripe!Inv(q)' = k
    BY <1>2, <1>4
  <2>2. CASE q # p
    BY <1>4, <2>1, <2>2 DEF Stripe!Charged, Stripe!At
  <2>3. CASE q = p
    BY <1>1, <1>4, <2>1, <2>3 DEF Stripe!Charged, Stripe!At
  <2>. QED BY <2>2, <2>3
<1>5. (Stripe!Claimable(k)' <=> Stripe!Claimable(k))
      /\ (Stripe!Ambiguous(k)' <=> Stripe!Ambiguous(k))
         /\ stripeRec'[k].unsigned = stripeRec[k].unsigned
  BY DEF Stripe!Claimable, Stripe!Ambiguous
<1>6. Stripe!MaySign(k)' => Stripe!MaySign(k)
  BY <1>2, <1>3, <1>5 DEF Stripe!MaySign
<1>7. Stripe!Owed(k)' => Stripe!Owed(k)
  BY <1>2, <1>4, <1>5 DEF Stripe!Owed
<1>. QED BY <1>6, <1>7

LEMMA StripePayInvoiceKeeps ==
    ASSUME Stripe!IInv, NEW p \in StripeHandlers, Stripe!PayInvoice(p) PROVE Stripe!IInv'
<1>. USE StripeKnown0
<1>1. PICK i \in StripeInvoices : i = stripeReq[p].inv
  OBVIOUS
<1>2. /\ UNCHANGED <<stripeRec, stripeSpent, stripeChannel, stripeProc, stripeSess, stripePulled,
                     stripeTold, stripeFaults, stripeRushed, stripeSlips, stripeMisread>>
      /\ stripeReq[p].st = "executing"
  BY DEF Stripe!PayInvoice, Stripe!store, Stripe!history
<1>3. PICK st \in {"signed", "refused", "disabled", "failed"} :
        /\ stripeReq' = [stripeReq EXCEPT ![p].st = IF Stripe!At(p, "calling") THEN st ELSE "none"]
        /\ \/ st = "signed" /\ stripePermits' = [stripePermits EXCEPT ![i] = @ + 1]
           \/ st # "signed" /\ stripePermits' = stripePermits
  BY <1>1 DEF Stripe!PayInvoice
<1>4. PICK x \in Stripe!Answers \ {"executing"} :
        /\ stripeReq' = [stripeReq EXCEPT ![p].st = x]
        /\ (x = "signed" => Stripe!At(p, "calling") /\ st = "signed")
        /\ (x # "signed" => st # "signed" \/ ~Stripe!At(p, "calling"))
  <2>1. PICK x : x = IF Stripe!At(p, "calling") THEN st ELSE "none"
    OBVIOUS
  <2>. QED BY <1>3, <2>1 DEF Stripe!Answers
<1>5. /\ stripeReq' \in [StripeHandlers -> [inv : StripeInvoices, st : Stripe!Answers]]
         /\ stripeReq'[p].inv = i /\ stripeReq'[p].st = x
      /\ \A q \in StripeHandlers \ {p} : stripeReq'[q] = stripeReq[q]
  <2>1. stripeReq[p] \in [inv : StripeInvoices, st : Stripe!Answers]
    OBVIOUS
  <2>. QED BY <1>1, <1>4, <2>1
<1>6. stripePermits' \in [StripeInvoices -> Nat]
  BY <1>3
<1>7. Stripe!TypeOK'
  BY <1>2, <1>5, <1>6 DEF Stripe!TypeOK
<1>8. /\ \A k \in StripeInvoices : stripePermits[k] <= stripePermits'[k]
      /\ \A k \in StripeInvoices \ {i} : stripePermits[k] = stripePermits'[k]
      /\ st = "signed" => stripePermits'[i] = stripePermits[i] + 1
      /\ st # "signed" => stripePermits'[i] = stripePermits[i]
  <2>1. CASE st = "signed"
    <3>1. stripePermits' = [stripePermits EXCEPT ![i] = stripePermits[i] + 1]
          /\ stripePermits[i] \in Nat
      BY <1>3, <2>1
    <3>. QED BY <2>1, <3>1
  <2>2. CASE st # "signed"
    BY <1>3, <2>2
  <2>. QED BY <2>1, <2>2
<1>9. stripeReq[p] = [inv |-> i, st |-> "executing"] /\ p \in Stripe!Executing(i) /\ p \in Stripe!Calls
  <2>1. stripeReq[p] \in [inv : StripeInvoices, st : Stripe!Answers]
    OBVIOUS
  <2>2. stripeReq[p] = [inv |-> i, st |-> "executing"]
    BY <1>1, <1>2, <2>1
  <2>. QED BY <1>2, <2>2 DEF Stripe!Executing, Stripe!Calls
<1>10. /\ \A k \in StripeInvoices : Stripe!Executing(k)' \subseteq Stripe!Executing(k) \ {p}
       /\ \A k \in StripeInvoices \ {i} : Stripe!Executing(k)' = Stripe!Executing(k)
       /\ Stripe!Calls' \subseteq Stripe!Calls \ {p} /\ Stripe!Refunds' = Stripe!Refunds
  <2>1. \A k \in StripeInvoices : stripeReq'[p] # [inv |-> k, st |-> "executing"]
    BY <1>4, <1>5
  <2>2. Stripe!Calls' \subseteq Stripe!Calls \ {p} /\ Stripe!Refunds' = Stripe!Refunds
    BY <1>2, <1>4, <1>5 DEF Stripe!Calls, Stripe!Refunds, Stripe!At
  <2>. QED BY <1>5, <1>9, <2>1, <2>2 DEF Stripe!Executing
<1>11. \A k \in StripeInvoices \ {i} : Stripe!Clear(k)' <=> Stripe!Clear(k)
  BY <1>8, <1>10 DEF Stripe!Clear
<1>12. \A k \in StripeInvoices \ {i} : (Stripe!MaySign(k)' => Stripe!MaySign(k))
       /\ (Stripe!Owed(k)' => Stripe!Owed(k))
  BY <1>1, <1>2, <1>4, <1>5, <1>7, <1>11, StripePayInvoiceElse
<1>13. \A k \in StripeInvoices \ {i} : Cardinality(Stripe!Rights(k))' <= 1 + stripeRushed'
  <2>1. stripeRushed' \in Nat /\ stripeRushed <= stripeRushed'
    BY <1>2
  <2>. QED BY <1>8, <1>10, <1>12, <2>1, StripeRightsKept
<1>14. <<"call", p>> \in Stripe!Rights(i)
  BY <1>9 DEF Stripe!Rights
<1>15. CASE st = "signed"
  <2>1. stripePermits' = [stripePermits EXCEPT ![i] = @ + 1] /\ stripePermits[i] \in Nat
    BY <1>3, <1>15
  <2>2. ~Stripe!Clear(i)'
    BY <1>8, <1>15, <2>1 DEF Stripe!Clear
  <2>3. (Stripe!MaySign(i)' => Stripe!MaySign(i)) /\ (Stripe!Owed(i)' => Stripe!Owed(i))
    <3>1. CASE x = "signed"
      BY <1>1, <1>2, <1>4, <1>5, <1>7, <2>2, <3>1, StripePayInvoiceElse
    <3>2. CASE ~Stripe!At(p, "calling")
      <4>1. \A q \in StripeHandlers : (Stripe!Gone(q)' <=> Stripe!Gone(q))
            /\ Stripe!Inv(q)' = Stripe!Inv(q) /\ (Stripe!Holds(q)' <=> Stripe!Holds(q))
               /\ (Stripe!Matched(q, i)' <=> Stripe!Matched(q, i))
        BY <1>2, <1>5, <3>2 DEF Stripe!Gone, Stripe!Inv, Stripe!Holds, Stripe!Matched, Stripe!At
      <4>2. \A q \in StripeHandlers : Stripe!Inv(q) = i /\ Stripe!Charged(q)' => Stripe!Charged(q)
        BY <1>2, <1>5, <2>2, <3>2 DEF Stripe!Charged, Stripe!At, Stripe!Inv
      <4>3. (Stripe!Claimable(i)' <=> Stripe!Claimable(i))
            /\ (Stripe!Ambiguous(i)' <=> Stripe!Ambiguous(i))
               /\ stripeRec'[i].unsigned = stripeRec[i].unsigned
        BY <1>2 DEF Stripe!Claimable, Stripe!Ambiguous
      <4>. QED BY <2>2, <4>1, <4>2, <4>3 DEF Stripe!MaySign, Stripe!Owed
    <3>. QED BY <1>4, <1>15, <3>1, <3>2
  <2>4. Cardinality(Stripe!Rights(i))' <= 1 + stripeRushed'
    <3>1. Stripe!Rights(i)' \subseteq (Stripe!Rights(i) \ {<<"call", p>>})
          \cup {<<"permit", stripePermits[i] + 1>>}
      <4>1. 1 .. stripePermits'[i] \subseteq (1 .. stripePermits[i]) \cup {stripePermits[i] + 1}
        <5>1. PICK n \in Nat : n = stripePermits[i]
          BY <2>1
        <5>2. stripePermits'[i] = n + 1
          BY <1>8, <1>15, <5>1
        <5>3. 1 .. (n + 1) \subseteq (1 .. n) \cup {n + 1}
          OBVIOUS
        <5>. QED BY <5>1, <5>2, <5>3
      <4>. QED BY <1>10, <2>3, <4>1 DEF Stripe!Rights
    <3>. QED BY <1>2, <1>14, <3>1, StripeRightsMoved
  <2>5. Cardinality(Stripe!Units') <= stripeSpent' + stripeSlips' + stripeRushed'
    <3>1. Stripe!Debts' \subseteq Stripe!Debts
      BY <1>12, <2>3 DEF Stripe!Debts
    <3>2. Cardinality(Stripe!Units) \in Nat /\ Cardinality(Stripe!Units') \in Nat
          /\ Cardinality(Stripe!Units') <= Cardinality(Stripe!Units)
      BY <1>7, <1>9, <1>10, <2>1, <3>1, StripeUnitsSign
    <3>. QED BY <1>2, <3>2
  <2>6. \A k \in StripeInvoices : Cardinality(Stripe!Rights(k))' <= 1 + stripeRushed'
    BY <1>13, <2>4
  <2>7. stripeReq'[p].st = "signed" => Stripe!At(p, "calling") /\ stripePermits'[stripeReq[p].inv] > 0
    BY <1>1, <1>4, <1>5, <1>8, <1>15, <2>1
  <2>. QED BY <1>1, <1>2, <1>4, <1>5, <1>7, <1>8, <2>5, <2>6, <2>7, StripePayInvoiceFrame
<1>16. CASE st # "signed"
  <2>1. stripePermits' = stripePermits
    BY <1>3, <1>16
  <2>2. Cardinality(Stripe!Rights(i))' <= 1 + stripeRushed'
    <3>1. Stripe!Rights(i)' \subseteq (Stripe!Rights(i) \ {<<"call", p>>}) \cup {<<"token", i>>}
      BY <1>10, <2>1 DEF Stripe!Rights
    <3>. QED BY <1>2, <1>14, <3>1, StripeRightsMoved
  <2>3. Cardinality(Stripe!Units') <= stripeSpent' + stripeSlips' + stripeRushed'
    <3>1. Stripe!Debts' \subseteq Stripe!Debts \cup {i}
      BY <1>12 DEF Stripe!Debts
    <3>2. Cardinality(Stripe!Units) \in Nat /\ Cardinality(Stripe!Units') \in Nat
          /\ Cardinality(Stripe!Units') <= Cardinality(Stripe!Units)
      BY <1>7, <1>9, <1>10, <2>1, <3>1, StripeUnitsAnswer
    <3>. QED BY <1>2, <3>2
  <2>4. \A k \in StripeInvoices : Cardinality(Stripe!Rights(k))' <= 1 + stripeRushed'
    BY <1>13, <2>2
  <2>5. stripeReq'[p].st # "signed"
    BY <1>4, <1>5, <1>16
  <2>. QED BY <1>1, <1>2, <1>4, <1>5, <1>7, <1>8, <2>3, <2>4, <2>5, StripePayInvoiceFrame
<1>. QED BY <1>15, <1>16

-----------------------------------------------------------------------------
(* Stripe invoices: the invariant, and what follows.                       *)

LEMMA StripeInitInv == Stripe!Init => Stripe!IInv
<1>. SUFFICES ASSUME Stripe!Init PROVE Stripe!IInv
  OBVIOUS
<1>1. stripeRec \in [Stripe!Known -> Stripe!Records]
      /\ \A o \in Stripe!Known : stripeRec[o].status = "rozo_payment_created"
         /\ stripeRec[o].verified = "none"
  <2>1. Stripe!EmptyStripeRecord \in Stripe!Records
    BY DEF Stripe!EmptyStripeRecord, Stripe!Records, Stripe!Statuses
  <2>. QED BY <2>1 DEF Stripe!Init, Stripe!Known, Stripe!EmptyStripeRecord
<1>2. \A p \in StripeHandlers : stripeProc[p] = Stripe!Idle /\ stripeReq[p].st = "none"
      /\ stripeReq[p].inv \in StripeInvoices
  BY StripeIdleFacts DEF Stripe!Init
<1>3. /\ stripePermits = [i \in StripeInvoices |-> 0]
         /\ stripeSess = [i \in StripeInvoices |-> "checkout"]
            /\ stripeChannel = [i \in StripeInvoices |-> "none"]
      /\ stripePulled = {} /\ stripeTold = {} /\ stripeSpent = 0 /\ stripeFaults = 0
         /\ stripeRushed = 0 /\ stripeSlips = 0 /\ stripeMisread = FALSE
  BY DEF Stripe!Init
<1>4. Stripe!TypeOK
  <2>1. stripeProc \in [StripeHandlers -> Stripe!Locals]
        /\ stripeReq \in [StripeHandlers -> [inv : StripeInvoices, st : Stripe!Answers]]
    BY StripeIdleFacts DEF Stripe!Init, Stripe!Answers
  <2>. QED BY <1>1, <1>3, <2>1 DEF Stripe!TypeOK, Stripe!Sessions
<1>5. \A p \in StripeHandlers : Stripe!Own(p)
  BY <1>2, StripeIdleFacts DEF Stripe!Own, Stripe!Claimed, Stripe!Busy, Stripe!Seen, Stripe!Toward,
       Stripe!Holds, Stripe!At, Stripe!Inv
<1>6. \A i \in StripeInvoices : Stripe!Executing(i) = {} /\ ~Stripe!Ambiguous(i)
  BY <1>1, <1>2 DEF Stripe!Executing, Stripe!Ambiguous, Stripe!Known
<1>7. \A i \in StripeInvoices : Stripe!Crypto(i)
  BY <1>1, <1>3, <1>6 DEF Stripe!Crypto, Stripe!Known
<1>8. \A i \in StripeInvoices : Cardinality(Stripe!Rights(i)) <= 1 + stripeRushed
  <2>1. SUFFICES ASSUME NEW i \in StripeInvoices PROVE Cardinality(Stripe!Rights(i)) <= 1 + stripeRushed
    OBVIOUS
  <2>2. Stripe!Rights(i) \subseteq {} \cup {<<"token", i>>}
    <3>1. 1 .. stripePermits[i] = {}
      BY <1>3
    <3>. QED BY <1>6, <3>1 DEF Stripe!Rights
  <2>3. IsFiniteSet({}) /\ Cardinality({}) = 0
    BY FS_EmptySet
  <2>4. Cardinality(Stripe!Rights(i)) \in Nat /\ Cardinality(Stripe!Rights(i)) <= Cardinality({}) + 1
    BY <2>2, <2>3, StripeCountGrows
  <2>. QED BY <1>3, <2>3, <2>4
<1>9. Cardinality(Stripe!Units) <= stripeSpent + stripeSlips + stripeRushed
  <2>1. Stripe!Signed = {}
    BY <1>3 DEF Stripe!Signed
  <2>2. Stripe!Calls = {} /\ Stripe!Refunds = {}
    BY <1>2, StripeIdleFacts DEF Stripe!Calls, Stripe!Refunds, Stripe!At
  <2>3. Stripe!Debts = {}
    BY <1>2, <1>6, StripeIdleFacts DEF Stripe!Debts, Stripe!Owed, Stripe!Charged, Stripe!At
  <2>4. Stripe!Units = {}
    BY <2>1, <2>2, <2>3 DEF Stripe!Units, Stripe!UnitsOf
  <2>. QED BY <1>3, <2>4, FS_EmptySet
<1>10. \A s \in StripeSiblings : Stripe!Elsewhere(s)
  BY <1>1, <1>3 DEF Stripe!Elsewhere, Stripe!Known
<1>11. Stripe!PaidWasPulled
       /\ (stripeMisread \/ \A o \in Stripe!Known : stripeRec[o].verified \in {o, "none"})
  BY <1>1, <1>3 DEF Stripe!PaidWasPulled, Stripe!Known
<1>. QED BY <1>4, <1>5, <1>7, <1>8, <1>9, <1>10, <1>11, StripeCardinality DEF Stripe!IInv

LEMMA StripeStillKeeps == ASSUME Stripe!IInv, UNCHANGED Stripe!vars PROVE Stripe!IInv'
<1>. USE StripeKnown0
<1>1. UNCHANGED <<stripeRec, stripeSpent, stripeChannel, stripeProc, stripeReq, stripeSess,
                  stripePermits, stripePulled, stripeTold, stripeFaults, stripeRushed, stripeSlips,
                  stripeMisread>>
  BY DEF Stripe!vars, Stripe!store, Stripe!external, Stripe!history
<1>2. Stripe!TypeOK'
  BY <1>1 DEF Stripe!TypeOK
<1>3. \A k \in StripeInvoices : Stripe!Crypto(k)'
  BY <1>1 DEF Stripe!Crypto, Stripe!Executing
<1>4. \A s \in StripeSiblings : Stripe!Elsewhere(s)'
  BY <1>1 DEF Stripe!Elsewhere
<1>5. Stripe!PaidWasPulled'
      /\ (stripeMisread \/ \A o \in Stripe!Known : stripeRec[o].verified \in {o, "none"})'
  BY <1>1 DEF Stripe!PaidWasPulled
<1>. QED BY <1>1, <1>2, <1>3, <1>4, <1>5, StripeRecordsAlike, StripeWorldKeep

LEMMA StripeNextKeeps == Stripe!IInv /\ [Stripe!Next]_Stripe!vars => Stripe!IInv'
<1>. SUFFICES ASSUME Stripe!IInv, [Stripe!Next]_Stripe!vars PROVE Stripe!IInv'
  OBVIOUS
<1>1. CASE UNCHANGED Stripe!vars
  BY <1>1, StripeStillKeeps
<1>2. ASSUME NEW i \in StripeInvoices,
             \/ Stripe!SeedStripeRecord(i) \/ Stripe!ClaimByUpi(i) \/ Stripe!CloseFromChain(i)
             \/ Stripe!ResolveManualReview(i) \/ Stripe!ReportStripeDelivered(i)
                \/ Stripe!StripeMoves(i)
      PROVE  Stripe!IInv'
  BY <1>2, StripeSeedKeeps, StripeUpiClaimKeeps, StripeCloseKeeps, StripeResolveKeeps,
       StripeReportKeeps, StripeMovesKeeps
<1>3. ASSUME NEW s \in StripeSiblings, Stripe!SiblingMoves(s) PROVE Stripe!IInv'
  BY <1>3, StripeSiblingKeeps
<1>4. ASSUME NEW p \in StripeHandlers, Stripe!Settle(p) PROVE Stripe!IInv'
  BY <1>4, StripeClaimChannelKeeps, StripeReserveSpendKeeps, StripeSendPayInvoiceKeeps,
       StripeAnswerKeeps, StripeReleaseSpendKeeps,
     StripeFinalizeClaimKeeps, StripeReleaseClaimKeeps DEF Stripe!Settle
<1>5. ASSUME NEW p \in StripeHandlers, Stripe!Retry(p) PROVE Stripe!IInv'
  BY <1>5, StripeRetryCronKeeps, StripeRetryStepKeeps, StripeRetryReleaseKeeps,
       StripeRetryDriveKeeps DEF Stripe!Retry
<1>6. ASSUME NEW p \in StripeHandlers,
Stripe!ReconcileWrite(p) \/ Stripe!PayInvoice(p) \/ Stripe!Throw(p) \/ Stripe!Die(p) PROVE Stripe!IInv'
  BY <1>6, StripeReconcileWriteKeeps, StripePayInvoiceKeeps, StripeThrowKeeps, StripeDieKeeps
<1>7. ASSUME NEW p \in StripeHandlers, NEW i \in StripeInvoices,
             \/ \E ev \in {"payin", "payout", "other"} : Stripe!Deliver(p, i, ev)
             \/ Stripe!ReconcileRead(p, i) \/ Stripe!RetryAdmin(p, i)
      PROVE  Stripe!IInv'
  BY <1>7, StripeDeliverKeeps, StripeReconcileReadKeeps, StripeRetryAdminKeeps
<1>8. CASE Stripe!Next
  BY <1>2, <1>3, <1>4, <1>5, <1>6, <1>7, <1>8 DEF Stripe!Next
<1>. QED BY <1>1, <1>8

LEMMA StripeKeptSafe == Stripe!IInv => Stripe!OnePermit /\ Stripe!PaidWasPulled /\ Stripe!SpendCounted
<1>. SUFFICES ASSUME Stripe!IInv PROVE Stripe!OnePermit /\ Stripe!PaidWasPulled /\ Stripe!SpendCounted
  OBVIOUS
<1>1. Stripe!TypeOK /\ stripeRushed \in Nat /\ stripeSpent \in Nat /\ stripeSlips \in Nat
  BY StripeKnown0
<1>2. ASSUME NEW i \in StripeInvoices PROVE stripePermits[i] <= 1 + stripeRushed
  <2>1. PICK n \in Nat : n = stripePermits[i]
    BY StripeKnown0
  <2>2. IsFiniteSet(Stripe!Rights(i)) /\ Cardinality(Stripe!Rights(i)) \in Nat
        /\ Cardinality(Stripe!Rights(i)) <= 1 + stripeRushed
    BY <1>1, StripeKnown0, StripeCountedFinite
  <2>. DEFINE f == [m \in 1 .. n |-> <<"permit", m>>]
  <2>3. f \in Injection(1 .. n, Stripe!Rights(i))
    <3>1. f \in [1 .. n -> Stripe!Rights(i)]
      BY <2>1 DEF Stripe!Rights
    <3>2. \A a, b \in 1 .. n : f[a] = f[b] => a = b
      OBVIOUS
    <3>. QED BY <3>1, <3>2 DEF Injection, IsInjective
  <2>. HIDE DEF f
  <2>4. Cardinality(1 .. n) <= Cardinality(Stripe!Rights(i))
    BY <2>2, <2>3, FS_Injection
  <2>5. Cardinality(1 .. n) = n
    BY FS_Interval
  <2>. QED BY <1>1, <2>1, <2>2, <2>4, <2>5
<1>3. Stripe!SpendCounted
  <2>1. Stripe!Signed \subseteq Stripe!Units
    BY DEF Stripe!Units, Stripe!UnitsOf
  <2>2. IsFiniteSet(Stripe!Units)
    BY <1>1, StripeCountedFinite
  <2>3. Cardinality(Stripe!Signed) \in Nat /\ Cardinality(Stripe!Units) \in Nat
        /\ Cardinality(Stripe!Signed) <= Cardinality(Stripe!Units)
    BY <2>1, <2>2, StripeCountStays
  <2>4. Cardinality(Stripe!Units) <= stripeSpent + stripeSlips + stripeRushed
    BY StripeKnown0
  <2>. QED BY <1>1, <2>3, <2>4, StripeCardinality DEF Stripe!SpendCounted
<1>. QED BY <1>2, <1>3, StripeKnown0 DEF Stripe!OnePermit

\* The inductive invariant of the settlement of Stripe invoices.
THEOREM StripeInvariant == Stripe!Spec => []Stripe!IInv
<1>1. Stripe!Init => Stripe!IInv
  BY StripeInitInv
<1>2. Stripe!IInv /\ [Stripe!Next]_Stripe!vars => Stripe!IInv'
  BY StripeNextKeeps
<1>. QED BY <1>1, <1>2, PTL DEF Stripe!Spec

\* One Permit a session but for rushed retries, nothing is paid that was not
\* pulled, and the ledger of the day counts every Permit.
THEOREM StripeSafe == Stripe!Spec => [](Stripe!OnePermit /\ Stripe!PaidWasPulled /\ Stripe!SpendCounted)
<1>1. Stripe!IInv => Stripe!OnePermit /\ Stripe!PaidWasPulled /\ Stripe!SpendCounted
  BY StripeKeptSafe
<1>. QED BY <1>1, StripeInvariant, PTL

-----------------------------------------------------------------------------
(* Once more for the behaviours where side picks the component.            *)

StripeSideInv == side = "stripe" => Stripe!IInv

LEMMA StripeSideInvariant == SideSpec => []StripeSideInv
<1>1. SideInit => StripeSideInv
  BY StripeInitInv DEF SideInit, StripeSideInv
<1>2. StripeSideInv /\ [SideNext]_all => StripeSideInv'
  <2>1. SUFFICES ASSUME side = "stripe" => Stripe!IInv, [SideNext]_all, side' = "stripe"
                 PROVE  Stripe!IInv'
    BY DEF StripeSideInv
  <2>2. CASE side = "stripe" /\ Stripe!Next /\ side' = side
    BY <2>1, <2>2, StripeNextKeeps
  <2>3. CASE UNCHANGED <<side, stripeVars>>
    <3>1. side = "stripe" /\ UNCHANGED Stripe!vars
      BY <2>1, <2>3 DEF stripeVars, Stripe!vars, Stripe!store, Stripe!external, Stripe!history
    <3>. QED BY <2>1, <3>1, StripeNextKeeps
  <2>. QED BY <2>1, <2>2, <2>3 DEF SideNext, all
<1>. QED BY <1>1, <1>2, PTL DEF SideSpec

\* The invariant of the run: a session gets one Permit, but for what each retry may
\* add that found a request still under way or the other channel not yet clear.
THEOREM StripePermitHolds == SideSpec => []StripePermit
<1>1. StripeSideInv => StripePermit
  BY StripeKeptSafe DEF StripePermit, StripeSideInv
<1>. QED BY <1>1, StripeSideInvariant, PTL

\* The invariant of the run: a record is closed as paid only on a pull of its
\* amount, and the day's spend counts every Permit that can still be pulled.
THEOREM StripeBooksHolds == SideSpec => []StripeBooks
<1>1. StripeSideInv => StripeBooks
  BY StripeKeptSafe DEF StripeBooks, StripeSideInv
<1>. QED BY <1>1, StripeSideInvariant, PTL
=============================================================================
