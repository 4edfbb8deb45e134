---------------------------- MODULE ChargeProofs ----------------------------
(***************************************************************************)
(* Proofs about ChargeDelivery, for any requests, jobs, pollers, routes,   *)
(* cap and faults: a settled charge is accounted for, the row shows the    *)
(* refund, a day's cap is kept and a job's verdict is published.           *)
(* After them proofs about PartnerCoupons, the other side of the run's     *)
(* module, for any requests, codes, operations and bounds.                 *)
(***************************************************************************)
EXTENDS MCChargesAndCoupons, FiniteSetTheorems, TLAPS

\* The steps of a request before its charge, and after it.
Before  == {"idle", "relay", "classify", "peek", "quote", "preflight", "prepare", "verify"}
Paid    == {"proof", "lookup", "consume", "pay", "deliver", "nojob", "job", "fail"}
Refunds == {"enqueue", "unknown", "done"}
Pcs     == Before \cup Paid \cup Refunds
Told    == {"none", "refused", "threw", "review", "cached", "refund", "accepted", "unbound", "delivered"}
Ends    == {"none", "failed", "delivered"}

Locals  == [pc : Pcs, day : Days, order : BOOLEAN, job : Jobs \cup {Nobody},
            todo : SUBSET {"metric", "cache", "row"}]
Entries == [state : {"none", "queued", "paid", "marked"}, order : BOOLEAN]
Polls   == [pc : {"idle", "claim", "refund", "finish", "metric"}, job : Jobs \cup {Nobody},
            owner : Requests \cup {Nobody}, out : Ends]

TypeOK == /\ proc \in [Requests -> Locals] /\ answer \in [Requests -> Told]
          /\ today \in Days /\ counter \in [Days -> [day : Days, n : Nat]]
          /\ calls \subseteq Requests \X Days \X Days
          /\ charged \subseteq Requests /\ cache \in BOOLEAN
          /\ row \in [Requests -> {"none", "pending", "unknown", "refunded", "delivered"}]
          /\ refund \in [Requests -> Entries]
          /\ jobs \in [Jobs -> Requests \cup {Nobody}]
          /\ terminal \in [Jobs -> [out : Ends, state : {"none", "processing", "done"}]]
          /\ metric \in [Jobs -> {"none", "pending", "ok", "provider_fault"}]
          /\ poll \in [Pollers -> Polls] /\ faults \in Nat

\* How a request that is over ended.
Outcome(r) == \/ answer[r] \in {"delivered", "cached", "review"}
              \/ answer[r] = "refund" /\ refund[r].state # "none"
              \/ answer[r] = "accepted" /\ \/ \E j \in Jobs : jobs[j] = r
                                           \/ Slipped(r, {"overwritten"})
              \/ answer[r] = "refused" /\ r \notin charged
              \/ Slipped(r, {"threw", "died", "unbound"})

\* A row that reads pending.
PendingRow(r) == /\ proc[r].pc \in Refunds
                 /\ proc[r].order \/ Slipped(r, {"unindexed"})
                 /\ Ended(r) => \/ refund[r].state \in {"queued", "paid"} /\ refund[r].order
                                \/ Slipped(r, {"unindexed", "unmarked", "died"})

\* A request, its ledger row and its refund entry.
Req(r) == /\ proc[r].pc \in Before => r \notin charged
          /\ Ended(r) => Outcome(r)
          /\ proc[r].pc = "job" \/ "metric" \in proc[r].todo => proc[r].job \in Jobs
          /\ "row" \in proc[r].todo => Ended(r) /\ ~proc[r].order
          /\ proc[r].order => proc[r].pc \in Refunds
          /\ refund[r].state # "none" => proc[r].pc \in {"unknown", "done"}
          /\ refund[r].order => proc[r].order
          /\ row[r] = "pending" => PendingRow(r)
          /\ refund[r].state = "marked" /\ refund[r].order =>
                row[r] = "refunded" \/ Slipped(r, {"clobbered", "unmarked"})

\* A job on record belongs to a request that is over; when it ended as failed
\* the refund of its request is queued.
Job(j) == /\ jobs[j] # Nobody => Ended(jobs[j])
          /\ terminal[j].state = "done" => jobs[j] # Nobody
          /\ terminal[j] = [out |-> "failed", state |-> "done"] =>
                refund[jobs[j]].state # "none" \/ Slipped(jobs[j], {"reused"})

\* A poll works for the request it read from the record, and for the end it claimed.
Polling(p) ==
    poll[p].pc # "idle" =>
        /\ poll[p].job \in Jobs /\ poll[p].owner \in Requests /\ poll[p].out # "none"
        /\ Ended(poll[p].owner) /\ jobs[poll[p].job] # Nobody
        /\ jobs[poll[p].job] = poll[p].owner \/ Slipped(jobs[poll[p].job], {"reused"})
        /\ poll[p].pc \in {"refund", "finish"} => terminal[poll[p].job].out = poll[p].out
        /\ poll[p].pc = "finish" /\ poll[p].out = "failed" => refund[poll[p].owner].state # "none"

\* The verdict on a job that is over is out, or the poll that ended it has it.
Verdict(j) == terminal[j].state = "done" =>
                 \/ metric[j] # "pending" \/ <<"late", j>> \in slips
                 \/ \E p \in Pollers : poll[p].job = j /\ poll[p].pc = "metric"

\* The slots of day d under the key of day k.
Slots(k, d) == {c \in calls : c[2] = k /\ c[3] = d}

\* The record of a key counts its own day's slots and knows no later day.
Cap == /\ IsFiniteSet(calls)
       /\ \A k \in Days : /\ counter[k].day <= today /\ counter[k].n <= PerDay
                          /\ \A d \in Days : /\ Cardinality(Slots(k, d)) <= PerDay
                                             /\ d > counter[k].day => Slots(k, d) = {}
                                             /\ d = counter[k].day =>
                                                   Cardinality(Slots(k, d)) <= counter[k].n

IInv == /\ TypeOK /\ Cap
        /\ \A r \in Requests : Req(r)
        /\ \A j \in Jobs : Job(j) /\ Verdict(j)
        /\ \A p \in Pollers : Polling(p)

-----------------------------------------------------------------------------
(* Steps of one request.                                                   *)

\* Of the requests, only r moves.
Moved(r) == /\ proc' \in [Requests -> Locals]
            /\ \A q \in Requests \ {r} : proc'[q] = proc[q]

\* A request goes on at l.
LEMMA GotoMoves ==
    ASSUME TypeOK, NEW r \in Requests, NEW l \in Pcs, Goto(r, l)
    PROVE  /\ Moved(r) /\ proc'[r].pc = l /\ proc'[r].day = proc[r].day
           /\ proc'[r].order = proc[r].order /\ proc'[r].job = proc[r].job
           /\ proc'[r].todo = proc[r].todo
<1>1. proc \in [Requests -> Locals] /\ proc[r] \in Locals
  BY DEF TypeOK
<1>. DEFINE h == [proc[r] EXCEPT !.pc = l]
<1>2. h \in Locals /\ h.pc = l /\ h.day = proc[r].day /\ h.order = proc[r].order
      /\ h.job = proc[r].job /\ h.todo = proc[r].todo
  BY <1>1 DEF Locals
<1>3. proc' = [proc EXCEPT ![r] = h]
  BY <1>1 DEF Goto
<1>. HIDE DEF h
<1>. QED BY <1>1, <1>2, <1>3 DEF Moved

\* What a request says.
LEMMA SayMoves ==
    ASSUME TypeOK, NEW r \in Requests, NEW a \in Told, Say(r, a)
    PROVE  /\ answer' \in [Requests -> Told] /\ answer'[r] = a
           /\ \A q \in Requests \ {r} : answer'[q] = answer[q]
BY DEF TypeOK, Say

LEMMA SlippedMore ==
    ASSUME slips \subseteq slips', NEW r, NEW K
    PROVE  Slipped(r, K) => Slipped(r, K)'
BY DEF Slipped

\* One failure more, or none.
LEMMA FaultType == ASSUME TypeOK, NEW b \in BOOLEAN, Fault(b) PROVE faults' \in Nat
BY DEF TypeOK, Fault

\* A request nothing happens to, unless its job record is taken over.
LEMMA ReqKept ==
    ASSUME NEW q \in Requests, Req(q), proc'[q] = proc[q], answer'[q] = answer[q],
           q \in charged' <=> q \in charged, row'[q] = row[q], refund'[q] = refund[q],
           slips \subseteq slips',
           (\A j \in Jobs : jobs[j] = q => jobs'[j] = q) \/ Slipped(q, {"overwritten"})'
    PROVE  Req(q)'
<1>1. Ended(q)' <=> Ended(q)
  BY DEF Ended
<1>2. \A K : Slipped(q, K) => Slipped(q, K)'
  BY SlippedMore
<1>3. Outcome(q) => Outcome(q)'
  BY <1>2 DEF Outcome
<1>4. PendingRow(q) => PendingRow(q)'
  BY <1>1, <1>2 DEF PendingRow
<1>. QED BY <1>1, <1>2, <1>3, <1>4 DEF Req

\* Jobs and polls, while records, ends and polls stay as they are.
LEMMA JobsKept ==
    ASSUME TypeOK, \A j \in Jobs : Job(j), \A p \in Pollers : Polling(p),
           UNCHANGED <<jobs, terminal, poll>>, slips \subseteq slips',
           \A q \in Requests : /\ Ended(q) => Ended(q)'
                               /\ refund[q].state # "none" => refund'[q].state # "none"
    PROVE  (\A j \in Jobs : Job(j)') /\ (\A p \in Pollers : Polling(p)')
<1>1. \A q, K : Slipped(q, K) => Slipped(q, K)'
  BY SlippedMore
<1>2. ASSUME NEW j \in Jobs PROVE Job(j)'
  <2>1. Job(j) /\ jobs[j] \in Requests \cup {Nobody}
    BY DEF TypeOK
  <2>. QED BY <1>1, <2>1 DEF Job
<1>3. ASSUME NEW p \in Pollers PROVE Polling(p)'
  <2>1. Polling(p)
    OBVIOUS
  <2>. QED BY <1>1, <2>1 DEF Polling
<1>. QED BY <1>2, <1>3

LEMMA VerdictsKept ==
    ASSUME \A j \in Jobs : Verdict(j), UNCHANGED <<metric, terminal, poll>>, slips \subseteq slips'
    PROVE  \A j \in Jobs : Verdict(j)'
BY DEF Verdict

LEMMA CapKept == ASSUME Cap, UNCHANGED <<counter, calls, today>> PROVE Cap'
BY DEF Cap, Slots

\* A step of request r alone that keeps the job records and the polls.
LEMMA RequestKeeps ==
    ASSUME IInv, TypeOK', NEW r \in Requests, Req(r)', Moved(r), Ended(r) => Ended(r)',
           \A q \in Requests \ {r} : /\ answer'[q] = answer[q] /\ row'[q] = row[q]
                                     /\ refund'[q] = refund[q]
                                     /\ q \in charged' <=> q \in charged,
           refund[r].state # "none" => refund'[r].state # "none",
           slips \subseteq slips', UNCHANGED <<jobs, terminal, poll>>,
           Cap', \A j \in Jobs : Verdict(j)'
    PROVE  IInv'
<1>1. ASSUME NEW q \in Requests PROVE Req(q)'
  <2>1. CASE q = r
    BY <2>1
  <2>2. CASE q # r
    BY <2>2, ReqKept DEF IInv, Moved
  <2>. QED BY <2>1, <2>2
<1>2. \A q \in Requests : /\ Ended(q) => Ended(q)'
                          /\ refund[q].state # "none" => refund'[q].state # "none"
  BY DEF Moved, Ended
<1>3. (\A j \in Jobs : Job(j)') /\ (\A p \in Pollers : Polling(p)')
  BY <1>2, JobsKept DEF IInv
<1>. QED BY <1>1, <1>3 DEF IInv

-----------------------------------------------------------------------------
(* Before the charge.                                                      *)

\* A request that is not charged goes on, or is refused.
LEMMA BeforeKeeps ==
    ASSUME IInv, NEW r \in Requests, proc[r].pc \in Before, Moved(r),
           proc'[r].order = proc[r].order, proc'[r].job = proc[r].job,
           proc'[r].todo = proc[r].todo,
           \/ proc'[r].pc \in Before /\ UNCHANGED answer
           \/ proc'[r].pc = "done" /\ Say(r, "refused"),
           UNCHANGED <<today, counter, calls, charged, cache, row, refund, jobs, terminal, metric,
                       poll, slips, faults>>
    PROVE  IInv'
<1>1. /\ answer' \in [Requests -> Told]
      /\ \A q \in Requests \ {r} : answer'[q] = answer[q]
      /\ proc'[r].pc = "done" => answer'[r] = "refused"
  <2>1. CASE UNCHANGED answer /\ proc'[r].pc \in Before
    BY <2>1 DEF IInv, TypeOK, Before
  <2>2. CASE Say(r, "refused")
    BY <2>2, SayMoves DEF IInv, Told
  <2>. QED BY <2>1, <2>2
<1>2. TypeOK'
  BY <1>1 DEF IInv, TypeOK, Moved
<1>3. Req(r) /\ r \notin charged /\ refund[r].state = "none" /\ ~proc[r].order /\ row[r] # "pending"
      /\ "row" \notin proc[r].todo /\ ~refund[r].order /\ ~Ended(r)
  <2>1. Req(r)
    BY DEF IInv
  <2>. QED BY <2>1 DEF Req, Before, Refunds, Ended, PendingRow, IInv, TypeOK, Locals, Entries
<1>4. Req(r)'
  <2>1. Outcome(r)' \/ ~Ended(r)'
    BY <1>1, <1>3 DEF Outcome, Ended
  <2>. QED BY <1>3, <2>1 DEF Req, Before
<1>5. Cap' /\ \A j \in Jobs : Verdict(j)'
  BY CapKept, VerdictsKept DEF IInv
<1>. QED BY <1>1, <1>2, <1>3, <1>4, <1>5, RequestKeeps DEF Moved

LEMMA BeforeSteps ==
    ASSUME IInv, NEW r \in Requests,
           \/ Route(r) \/ Relay(r) \/ Classify(r) \/ Quote(r) \/ Preflight(r) \/ Prepare(r)
    PROVE  IInv'
<1>1. /\ proc[r].pc \in Before
      /\ UNCHANGED <<today, counter, calls, charged, cache, row, refund, jobs, terminal, metric,
                     poll, slips, faults>>
  BY DEF Route, Relay, Classify, Quote, Preflight, Prepare, At, Before, rest, capVars, jobVars
<1>2. \/ \E l \in Before : Goto(r, l) /\ UNCHANGED answer
      \/ End(r, "refused")
  BY DEF Route, Relay, Classify, Quote, Preflight, Prepare, Before
<1>3. /\ Moved(r) /\ proc'[r].order = proc[r].order /\ proc'[r].job = proc[r].job
      /\ proc'[r].todo = proc[r].todo
      /\ \/ proc'[r].pc \in Before /\ UNCHANGED answer
         \/ proc'[r].pc = "done" /\ Say(r, "refused")
  <2>1. CASE End(r, "refused")
    BY <2>1, GotoMoves DEF End, IInv, Pcs, Refunds
  <2>2. CASE \E l \in Before : Goto(r, l) /\ UNCHANGED answer
    <3>1. PICK l \in Before : Goto(r, l) /\ UNCHANGED answer
      BY <2>2
    <3>. QED BY <3>1, GotoMoves DEF IInv, Pcs
  <2>. QED BY <1>2, <2>1, <2>2
<1>. QED BY <1>1, <1>3, BeforeKeeps

LEMMA PeekKeeps == ASSUME IInv, NEW r \in Requests, Peek(r) PROVE IInv'
<1>1. /\ proc[r].pc \in Before
      /\ UNCHANGED <<today, counter, calls, charged, cache, row, refund, jobs, terminal, metric,
                     poll, slips, faults>>
  BY DEF Peek, At, Before, capVars, jobVars
<1>2. CASE End(r, "refused")
  BY <1>1, <1>2, GotoMoves, BeforeKeeps DEF End, IInv, Pcs, Refunds
<1>3. CASE proc' = [proc EXCEPT ![r].day = today, ![r].pc = "quote"] /\ UNCHANGED answer
  <2>1. proc \in [Requests -> Locals] /\ proc[r] \in Locals /\ today \in Days
    BY DEF IInv, TypeOK
  <2>. DEFINE h == [proc[r] EXCEPT !.day = today, !.pc = "quote"]
  <2>2. h \in Locals /\ h.pc = "quote" /\ h.order = proc[r].order /\ h.job = proc[r].job
        /\ h.todo = proc[r].todo
    BY <2>1 DEF Locals, Pcs, Before
  <2>3. proc' = [proc EXCEPT ![r] = h]
    BY <1>3, <2>1
  <2>. HIDE DEF h
  <2>4. Moved(r) /\ proc'[r] = h
    BY <2>1, <2>2, <2>3 DEF Moved
  <2>5. proc'[r].pc \in Before
    BY <2>2, <2>4 DEF Before
  <2>. QED BY <1>1, <1>3, <2>2, <2>4, <2>5, BeforeKeeps
<1>. QED BY <1>2, <1>3 DEF Peek

-----------------------------------------------------------------------------
(* The charge, and the call after it.                                      *)

\* While a request has no refund and no row to answer for.
LEMMA NoRefundYet ==
    ASSUME IInv, NEW r \in Requests, proc[r].pc \in Paid \cup {"verify"}
    PROVE  /\ refund[r].state = "none" /\ ~refund[r].order /\ ~proc[r].order
           /\ row[r] # "pending" /\ "row" \notin proc[r].todo /\ ~Ended(r)
<1>1. Req(r)
  BY DEF IInv
<1>. QED BY <1>1 DEF Req, Paid, Refunds, Ended, PendingRow, IInv, TypeOK, Locals, Entries

\* A request goes on after its charge, or ends for one of the reasons known.
LEMMA PaidKeeps ==
    ASSUME IInv, NEW r \in Requests, proc[r].pc \in Paid \cup {"verify"}, Moved(r),
           ~proc'[r].order, proc'[r].pc \in Paid \cup {"done"}, Ended(r)' => Outcome(r)',
           proc'[r].pc = "job" \/ "metric" \in proc'[r].todo => proc'[r].job \in Jobs,
           "row" \in proc'[r].todo => Ended(r)',
           answer' \in [Requests -> Told], \A q \in Requests \ {r} : answer'[q] = answer[q],
           charged' \subseteq Requests,
           \A q \in Requests \ {r} : q \in charged' <=> q \in charged,
           slips \subseteq slips', faults' \in Nat,
           UNCHANGED <<today, cache, row, refund, jobs, terminal, metric, poll>>,
           counter' \in [Days -> [day : Days, n : Nat]], calls' \subseteq Requests \X Days \X Days,
           Cap'
    PROVE  IInv'
<1>1. TypeOK'
  BY DEF IInv, TypeOK, Moved
<1>2. Req(r)'
  BY NoRefundYet DEF Req, Paid, Before
<1>3. \A j \in Jobs : Verdict(j)'
  BY VerdictsKept DEF IInv
<1>. QED BY <1>1, <1>2, <1>3, NoRefundYet, RequestKeeps DEF Moved

\* The cap does not change.
LEMMA CapStays ==
    ASSUME IInv, UNCHANGED <<today, counter, calls>>
    PROVE  /\ Cap' /\ counter' \in [Days -> [day : Days, n : Nat]]
           /\ calls' \subseteq Requests \X Days \X Days
BY CapKept DEF IInv, TypeOK

LEMMA JobKnown ==
    ASSUME IInv, NEW r \in Requests, "metric" \in proc[r].todo
    PROVE  proc[r].job \in Jobs
BY DEF IInv, Req

\* It ends, and is told a.
LEMMA EndKeeps ==
    ASSUME IInv, NEW r \in Requests, proc[r].pc \in Paid \cup {"verify"},
           NEW a \in Told, End(r, a),
           \/ a \in {"cached", "review"} \/ (a = "refused" /\ r \notin charged')
           \/ Slipped(r, {"threw", "died", "unbound"})',
           charged' \subseteq Requests,
           \A q \in Requests \ {r} : q \in charged' <=> q \in charged,
           slips \subseteq slips', faults' \in Nat,
           UNCHANGED <<today, counter, calls, cache, row, refund, jobs, terminal, metric, poll>>
    PROVE  IInv'
<1>1. /\ Moved(r) /\ proc'[r].pc = "done" /\ proc'[r].order = proc[r].order
      /\ proc'[r].job = proc[r].job /\ proc'[r].todo = proc[r].todo
  BY GotoMoves DEF IInv, End, Pcs, Refunds
<1>2. /\ answer' \in [Requests -> Told] /\ answer'[r] = a
      /\ \A q \in Requests \ {r} : answer'[q] = answer[q]
  BY SayMoves DEF IInv, End
<1>3. Outcome(r)'
  BY <1>2 DEF Outcome
<1>. QED BY <1>1, <1>2, <1>3, NoRefundYet, JobKnown, CapStays, PaidKeeps

\* It goes on.
LEMMA OnKeeps ==
    ASSUME IInv, NEW r \in Requests, proc[r].pc \in Paid \cup {"verify"},
           NEW l \in Paid \ {"job"}, Goto(r, l), UNCHANGED answer,
           charged' \subseteq Requests,
           \A q \in Requests \ {r} : q \in charged' <=> q \in charged,
           slips \subseteq slips', faults' \in Nat,
           UNCHANGED <<today, cache, row, refund, jobs, terminal, metric, poll>>,
           counter' \in [Days -> [day : Days, n : Nat]], calls' \subseteq Requests \X Days \X Days,
           Cap'
    PROVE  IInv'
<1>1. /\ Moved(r) /\ proc'[r].pc = l /\ proc'[r].order = proc[r].order
      /\ proc'[r].job = proc[r].job /\ proc'[r].todo = proc[r].todo
  BY GotoMoves DEF IInv, Pcs
<1>2. ~Ended(r)'
  BY <1>1 DEF Ended, Paid
<1>3. answer' \in [Requests -> Told] /\ \A q \in Requests \ {r} : answer'[q] = answer[q]
  BY DEF IInv, TypeOK
<1>. QED BY <1>1, <1>2, <1>3, NoRefundYet, JobKnown, PaidKeeps

LEMMA VerifyKeeps == ASSUME IInv, NEW r \in Requests, Verify(r) PROVE IInv'
<1>1. /\ proc[r].pc = "verify" /\ r \notin charged
      /\ UNCHANGED <<today, counter, calls, cache, row, refund, jobs, terminal, metric, poll>>
  BY DEF Verify, At, rest, capVars, jobVars, IInv, Req, Before
<1>2. CASE End(r, "refused") /\ UNCHANGED <<charged, slips, faults>>
  BY <1>1, <1>2, EndKeeps DEF Told, IInv, TypeOK
<1>3. CASE charged' = charged \cup {r} /\ Goto(r, "proof") /\ UNCHANGED <<answer, slips, faults>>
  BY <1>1, <1>3, OnKeeps, CapStays DEF Paid, IInv, TypeOK
<1>4. CASE charged' = charged \cup {r} /\ End(r, "threw") /\ Slip({<<"threw", r>>}) /\ Fault(TRUE)
  <2>1. slips \subseteq slips' /\ Slipped(r, {"threw", "died", "unbound"})'
    BY <1>4 DEF Slip, Slipped
  <2>2. faults' \in Nat
    BY <1>4, FaultType DEF IInv
  <2>. QED BY <1>1, <1>4, <2>1, <2>2, EndKeeps DEF Told, IInv, TypeOK
<1>. QED BY <1>2, <1>3, <1>4 DEF Verify

LEMMA ProofKeeps == ASSUME IInv, NEW r \in Requests, Proof(r) PROVE IInv'
<1>1. /\ proc[r].pc \in Paid
      /\ UNCHANGED <<today, counter, calls, charged, cache, row, refund, jobs, terminal, metric, poll, slips>>
  BY DEF Proof, At, capVars, jobVars, Paid
<1>2. CASE Goto(r, "lookup") /\ UNCHANGED <<answer, faults>>
  BY <1>1, <1>2, OnKeeps, CapStays DEF Paid, IInv, TypeOK
<1>3. CASE End(r, "review") /\ Fault(TRUE)
  BY <1>1, <1>3, EndKeeps, FaultType DEF Told, IInv, TypeOK
<1>. QED BY <1>2, <1>3 DEF Proof

LEMMA LookupKeeps == ASSUME IInv, NEW r \in Requests, Lookup(r) PROVE IInv'
<1>1. /\ proc[r].pc \in Paid
      /\ UNCHANGED <<today, counter, calls, charged, cache, row, refund, jobs, terminal, metric, poll>>
  BY DEF Lookup, At, capVars, jobVars, Paid
<1>2. CASE End(r, "cached") /\ UNCHANGED <<slips, faults>>
  BY <1>1, <1>2, EndKeeps DEF Told, IInv, TypeOK
<1>3. CASE Goto(r, "consume") /\ UNCHANGED <<answer, slips, faults>>
  BY <1>1, <1>3, OnKeeps, CapStays DEF Paid, IInv, TypeOK
<1>4. CASE End(r, "threw") /\ Slip({<<"threw", r>>}) /\ Fault(TRUE)
  <2>1. slips \subseteq slips' /\ Slipped(r, {"threw", "died", "unbound"})'
    BY <1>4 DEF Slip, Slipped
  <2>2. faults' \in Nat
    BY <1>4, FaultType DEF IInv
  <2>. QED BY <1>1, <1>4, <2>1, <2>2, EndKeeps DEF Told, IInv, TypeOK
<1>. QED BY <1>2, <1>3, <1>4 DEF Lookup

\* A slot is taken under the key of the day the request started on: the count
\* of the record grows with the slots of today, or starts anew with them.
LEMMA BumpCap ==
    ASSUME IInv, NEW r \in Requests, Bump(r), UNCHANGED today
    PROVE  /\ Cap' /\ counter' \in [Days -> [day : Days, n : Nat]]
           /\ calls' \subseteq Requests \X Days \X Days
<1>. PICK k \in Days, d \in Days : k = proc[r].day /\ d = today
  BY DEF IInv, TypeOK, Locals
<1>. PICK u \in Nat : u = Used(k)
  <2>1. counter[k] \in [day : Days, n : Nat]
    BY DEF IInv, TypeOK
  <2>. QED BY <2>1 DEF Used
<1>. DEFINE c == <<r, k, d>>
            h == [day |-> d, n |-> u + 1]
<1>1. /\ u < PerDay /\ counter' = [counter EXCEPT ![k] = h] /\ calls' = calls \cup {c}
  BY DEF Bump
<1>2. h \in [day : Days, n : Nat] /\ h.day = d /\ h.n = u + 1
  OBVIOUS
<1>3. c \in Requests \X Days \X Days /\ c[2] = k /\ c[3] = d
  OBVIOUS
<1>. HIDE DEF c, h
<1>4. /\ counter' \in [Days -> [day : Days, n : Nat]] /\ counter'[k] = h
      /\ \A m \in Days \ {k} : counter'[m] = counter[m]
      /\ calls' \subseteq Requests \X Days \X Days
  BY <1>1, <1>2, <1>3 DEF IInv, TypeOK
<1>5. IsFiniteSet(calls) /\ IsFiniteSet(calls')
  BY <1>1, FS_AddElement DEF IInv, Cap
<1>6. \A m, e \in Days : IsFiniteSet(Slots(m, e)) /\ Cardinality(Slots(m, e)) \in Nat
  BY <1>5, FS_Subset, FS_CardinalityType DEF Slots
<1>7. \A m, e \in Days : <<m, e>> # <<k, d>> => Slots(m, e)' = Slots(m, e)
  BY <1>1, <1>3 DEF Slots
<1>8. Cardinality(Slots(k, d)') <= Cardinality(Slots(k, d)) + 1
  <2>1. Slots(k, d)' = Slots(k, d) \cup {c}
    BY <1>1, <1>3 DEF Slots
  <2>2. Cardinality(Slots(k, d) \cup {c}) =
           IF c \in Slots(k, d) THEN Cardinality(Slots(k, d)) ELSE Cardinality(Slots(k, d)) + 1
    BY <1>6, FS_AddElement
  <2>. QED BY <1>6, <2>1, <2>2
<1>9. Cardinality(Slots(k, d)) <= u
  <2>1. CASE counter[k].day = d
    BY <2>1 DEF IInv, Cap, Used
  <2>2. CASE counter[k].day # d
    <3>1. d > counter[k].day
      BY <2>2 DEF IInv, Cap, TypeOK, Days
    <3>2. Slots(k, d) = {}
      BY <3>1 DEF IInv, Cap
    <3>. QED BY <3>2, FS_EmptySet
  <2>. QED BY <2>1, <2>2
<1>10. Cardinality(Slots(k, d)') \in Nat
  <2>1. Slots(k, d)' \subseteq calls'
    BY DEF Slots
  <2>. QED BY <1>5, <2>1, FS_Subset, FS_CardinalityType
<1>11. Cardinality(Slots(k, d)') <= u + 1 /\ u + 1 <= PerDay
  BY <1>1, <1>6, <1>8, <1>9, <1>10, ChargeConstants
<1>12. ASSUME NEW m \in Days
       PROVE  /\ counter'[m].day <= today' /\ counter'[m].n <= PerDay
              /\ \A e \in Days : /\ Cardinality(Slots(m, e)') <= PerDay
                                 /\ e > counter'[m].day => Slots(m, e)' = {}
                                 /\ e = counter'[m].day =>
                                       Cardinality(Slots(m, e)') <= counter'[m].n
  <2>1. CASE m # k
    <3>1. counter'[m] = counter[m] /\ counter[m].day \in Days
      BY <1>4, <2>1 DEF IInv, TypeOK
    <3>2. \A e \in Days : Slots(m, e)' = Slots(m, e)
      BY <1>7, <2>1
    <3>. QED BY <3>1, <3>2 DEF IInv, Cap
  <2>2. CASE m = k
    <3>1. counter'[m].day = d /\ counter'[m].n = u + 1 /\ d <= today'
      BY <1>2, <1>4, <2>2 DEF Days
    <3>2. ASSUME NEW e \in Days
          PROVE  /\ Cardinality(Slots(m, e)') <= PerDay
                 /\ e > counter'[m].day => Slots(m, e)' = {}
                 /\ e = counter'[m].day => Cardinality(Slots(m, e)') <= counter'[m].n
      <4>1. CASE e = d
        BY <1>10, <1>11, <2>2, <3>1, <4>1, ChargeConstants DEF Days
      <4>2. CASE e # d
        <5>1. Slots(m, e)' = Slots(m, e)
          BY <1>7, <2>2, <4>2
        <5>2. e > d => e > counter[k].day
          BY DEF IInv, Cap, TypeOK, Days
        <5>3. /\ Cardinality(Slots(k, e)) <= PerDay
              /\ e > counter[k].day => Slots(k, e) = {}
          BY DEF IInv, Cap
        <5>. QED BY <2>2, <3>1, <4>2, <5>1, <5>2, <5>3
      <4>. QED BY <4>1, <4>2
    <3>3. counter'[m].n <= PerDay
      BY <1>11, <3>1
    <3>. QED BY <3>1, <3>2, <3>3
  <2>. QED BY <2>1, <2>2
<1>13. Cap'
  BY <1>5, <1>12 DEF Cap
<1>. QED BY <1>4, <1>13

LEMMA ConsumeKeeps == ASSUME IInv, NEW r \in Requests, Consume(r) PROVE IInv'
<1>1. /\ proc[r].pc \in Paid
      /\ UNCHANGED <<today, charged, cache, row, refund, jobs, terminal, metric, poll>>
  BY DEF Consume, At, jobVars, Paid
<1>2. CASE Bump(r) /\ Goto(r, "pay") /\ UNCHANGED <<answer, slips, faults>>
  BY <1>1, <1>2, OnKeeps, BumpCap DEF Paid, IInv, TypeOK
<1>3. CASE \E l \in {"pay", "fail"} : Goto(r, l) /\ UNCHANGED <<capVars, answer, slips, faults>>
  <2>1. PICK l \in {"pay", "fail"} : Goto(r, l) /\ UNCHANGED <<capVars, answer, slips, faults>>
    BY <1>3
  <2>2. l \in Paid \ {"job"} /\ UNCHANGED <<counter, calls>>
    BY <2>1 DEF Paid, capVars
  <2>. QED BY <1>1, <2>1, <2>2, OnKeeps, CapStays DEF IInv, TypeOK
<1>4. CASE End(r, "threw") /\ Slip({<<"threw", r>>}) /\ Fault(TRUE) /\ UNCHANGED capVars
  <2>1. slips \subseteq slips' /\ Slipped(r, {"threw", "died", "unbound"})' /\ UNCHANGED <<counter, calls>>
    BY <1>4 DEF Slip, Slipped, capVars
  <2>2. faults' \in Nat
    BY <1>4, FaultType DEF IInv
  <2>. QED BY <1>1, <1>4, <2>1, <2>2, EndKeeps DEF Told, IInv, TypeOK
<1>. QED BY <1>2, <1>3, <1>4 DEF Consume

LEMMA PayKeeps == ASSUME IInv, NEW r \in Requests, Pay(r) PROVE IInv'
<1>1. /\ proc[r].pc \in Paid
      /\ UNCHANGED <<answer, today, counter, calls, charged, cache, row, refund, jobs, terminal,
                     metric, poll, slips, faults>>
  BY DEF Pay, At, rest, capVars, jobVars, Paid
<1>2. \/ \E l \in Paid \ {"job"} : Goto(r, l)
      \/ \E j \in Jobs : proc' = [proc EXCEPT ![r].pc = "job", ![r].job = j, ![r].todo = {"metric"}]
  <2>1. Accepted(r) \/ Goto(r, "fail")
    BY DEF Pay, PayHeld, PayBridge, PayTempo, PayCharge, PaySession
  <2>. QED BY <2>1 DEF Accepted, Paid
<1>3. CASE \E l \in Paid \ {"job"} : Goto(r, l)
  BY <1>1, <1>3, OnKeeps, CapStays DEF IInv, TypeOK
<1>4. CASE \E j \in Jobs : proc' = [proc EXCEPT ![r].pc = "job", ![r].job = j, ![r].todo = {"metric"}]
  <2>1. PICK j \in Jobs : proc' = [proc EXCEPT ![r].pc = "job", ![r].job = j, ![r].todo = {"metric"}]
    BY <1>4
  <2>2. proc \in [Requests -> Locals] /\ proc[r] \in Locals
    BY DEF IInv, TypeOK
  <2>. DEFINE h == [proc[r] EXCEPT !.pc = "job", !.job = j, !.todo = {"metric"}]
  <2>3. h \in Locals /\ h.pc = "job" /\ h.order = proc[r].order /\ h.job = j /\ h.todo = {"metric"}
    BY <2>2 DEF Locals, Pcs, Paid
  <2>4. proc' = [proc EXCEPT ![r] = h]
    BY <2>1, <2>2
  <2>. HIDE DEF h
  <2>5. Moved(r) /\ proc'[r] = h
    BY <2>2, <2>3, <2>4 DEF Moved
  <2>6. ~Ended(r)' /\ proc'[r].pc \in Paid
    BY <2>3, <2>5 DEF Ended, Paid
  <2>. QED BY <1>1, <2>3, <2>5, <2>6, NoRefundYet, CapStays, PaidKeeps DEF IInv, TypeOK
<1>. QED BY <1>2, <1>3, <1>4

LEMMA DeliverKeeps == ASSUME IInv, NEW r \in Requests, Deliver(r) PROVE IInv'
<1>1. /\ proc[r].pc \in Paid
      /\ UNCHANGED <<today, counter, calls, charged, cache, row, refund, jobs, terminal, metric,
                     poll, slips, faults>>
      /\ Say(r, "delivered")
  BY DEF Deliver, At, capVars, jobVars, Paid
<1>2. proc \in [Requests -> Locals] /\ proc[r] \in Locals
  BY DEF IInv, TypeOK
<1>. DEFINE h == [proc[r] EXCEPT !.pc = "done", !.todo = {"cache", "row"}]
<1>3. h \in Locals /\ h.pc = "done" /\ h.order = proc[r].order /\ h.todo = {"cache", "row"}
  BY <1>2 DEF Locals, Pcs, Refunds
<1>4. proc' = [proc EXCEPT ![r] = h]
  BY <1>2 DEF Deliver
<1>. HIDE DEF h
<1>5. Moved(r) /\ proc'[r] = h
  BY <1>2, <1>3, <1>4 DEF Moved
<1>6. /\ answer' \in [Requests -> Told] /\ answer'[r] = "delivered"
      /\ \A q \in Requests \ {r} : answer'[q] = answer[q]
  BY <1>1, SayMoves DEF IInv, Told
<1>7. Ended(r)' /\ Outcome(r)'
  BY <1>3, <1>5, <1>6 DEF Ended, Outcome
<1>8. proc'[r].pc # "job" /\ "metric" \notin proc'[r].todo
  BY <1>3, <1>5
<1>. QED BY <1>1, <1>3, <1>5, <1>6, <1>7, <1>8, NoRefundYet, CapStays, PaidKeeps DEF IInv, TypeOK

-----------------------------------------------------------------------------
(* The row and the refund of a failed call.                                *)

\* A step of r in which it does not lose what others see of it.
LEMMA OwnKeeps ==
    ASSUME IInv, NEW r \in Requests, Moved(r), Req(r)', Ended(r) => Ended(r)',
           answer' \in [Requests -> Told], \A q \in Requests \ {r} : answer'[q] = answer[q],
           row' \in [Requests -> {"none", "pending", "unknown", "refunded", "delivered"}],
           \A q \in Requests \ {r} : row'[q] = row[q],
           refund' \in [Requests -> Entries], \A q \in Requests \ {r} : refund'[q] = refund[q],
           refund[r].state # "none" => refund'[r].state # "none",
           cache' \in BOOLEAN, slips \subseteq slips', faults' \in Nat,
           UNCHANGED <<today, counter, calls, charged, jobs, terminal, metric, poll>>
    PROVE  IInv'
<1>1. TypeOK'
  BY DEF IInv, TypeOK, Moved
<1>2. Cap' /\ \A j \in Jobs : Verdict(j)'
  BY CapKept, VerdictsKept DEF IInv
<1>. QED BY <1>1, <1>2, RequestKeeps

LEMMA RecordFailedKeeps == ASSUME IInv, NEW r \in Requests, RecordFailed(r) PROVE IInv'
<1>1. /\ proc[r].pc = "fail" /\ proc[r].pc \in Paid
      /\ UNCHANGED <<answer, today, counter, calls, charged, cache, refund, jobs, terminal, metric, poll>>
  BY DEF RecordFailed, At, capVars, jobVars, Paid
<1>2. proc \in [Requests -> Locals] /\ proc[r] \in Locals
  BY DEF IInv, TypeOK
<1>3. PICK o \in BOOLEAN :
         /\ Moved(r) /\ proc'[r].pc = "enqueue" /\ proc'[r].order = o
         /\ proc'[r].job = proc[r].job /\ proc'[r].todo = proc[r].todo
         /\ row' = [row EXCEPT ![r] = "pending"] \/ row' = row
         /\ row' = [row EXCEPT ![r] = "pending"] => o \/ Slipped(r, {"unindexed"})'
         /\ slips \subseteq slips' /\ faults' \in Nat
  <2>1. CASE /\ row' = [row EXCEPT ![r] = "pending"]
             /\ proc' = [proc EXCEPT ![r].order = TRUE, ![r].pc = "enqueue"]
             /\ UNCHANGED <<slips, faults>>
    <3>. DEFINE h == [proc[r] EXCEPT !.order = TRUE, !.pc = "enqueue"]
    <3>1. h \in Locals /\ h.pc = "enqueue" /\ h.order = TRUE /\ h.job = proc[r].job
          /\ h.todo = proc[r].todo
      BY <1>2 DEF Locals, Pcs, Refunds
    <3>2. proc' = [proc EXCEPT ![r] = h]
      BY <1>2, <2>1
    <3>. HIDE DEF h
    <3>3. Moved(r) /\ proc'[r] = h
      BY <1>2, <3>1, <3>2 DEF Moved
    <3>4. faults' \in Nat
      BY <2>1 DEF IInv, TypeOK
    <3>. QED BY <2>1, <3>1, <3>3, <3>4
  <2>2. CASE Goto(r, "enqueue") /\ Fault(TRUE) /\ UNCHANGED <<row, slips>>
    <3>1. /\ Moved(r) /\ proc'[r].pc = "enqueue" /\ proc'[r].order = proc[r].order
          /\ proc'[r].job = proc[r].job /\ proc'[r].todo = proc[r].todo
      BY <2>2, GotoMoves DEF IInv, Pcs, Refunds
    <3>2. faults' \in Nat
      BY <2>2, FaultType DEF IInv
    <3>3. row' # [row EXCEPT ![r] = "pending"]
      <4>1. row[r] # "pending"
        BY <1>1, NoRefundYet
      <4>. QED BY <2>2, <4>1 DEF IInv, TypeOK
    <3>4. proc[r].order \in BOOLEAN
      BY <1>2 DEF Locals
    <3>. QED BY <2>2, <3>1, <3>2, <3>3, <3>4
  <2>3. CASE /\ row' = [row EXCEPT ![r] = "pending"]
             /\ Goto(r, "enqueue") /\ Fault(TRUE) /\ Slip({<<"unindexed", r>>})
    <3>1. /\ Moved(r) /\ proc'[r].pc = "enqueue" /\ proc'[r].order = proc[r].order
          /\ proc'[r].job = proc[r].job /\ proc'[r].todo = proc[r].todo
      BY <2>3, GotoMoves DEF IInv, Pcs, Refunds
    <3>2. faults' \in Nat
      BY <2>3, FaultType DEF IInv
    <3>3. slips \subseteq slips' /\ Slipped(r, {"unindexed"})'
      BY <2>3 DEF Slip, Slipped
    <3>4. proc[r].order \in BOOLEAN
      BY <1>2 DEF Locals
    <3>. QED BY <2>3, <3>1, <3>2, <3>3, <3>4
  <2>. QED BY <2>1, <2>2, <2>3 DEF RecordFailed
<1>4. /\ row' \in [Requests -> {"none", "pending", "unknown", "refunded", "delivered"}]
      /\ \A q \in Requests \ {r} : row'[q] = row[q]
      /\ row'[r] = "pending" => o \/ Slipped(r, {"unindexed"})'
  <2>1. row[r] # "pending"
    BY <1>1, NoRefundYet
  <2>. QED BY <1>3, <2>1 DEF IInv, TypeOK
<1>5. Req(r)'
  <2>1. ~Ended(r)'
    BY <1>3 DEF Ended
  <2>2. row'[r] = "pending" => PendingRow(r)'
    BY <1>3, <1>4, <2>1 DEF PendingRow, Refunds
  <2>. QED BY <1>1, <1>3, <2>1, <2>2, NoRefundYet, JobKnown DEF Req, Before, Refunds
<1>. QED BY <1>1, <1>3, <1>4, <1>5, NoRefundYet, OwnKeeps DEF IInv, TypeOK

\* enqueueRefund stores the entry or leaves the one that is there.
LEMMA QueuedIs ==
    ASSUME TypeOK, NEW r \in Requests, NEW o \in BOOLEAN, refund' \in {refund, Queued(r, o)}
    PROVE  /\ refund' \in [Requests -> Entries]
           /\ \A q \in Requests \ {r} : refund'[q] = refund[q]
           /\ refund[r].state # "none" => refund'[r] = refund[r]
           /\ refund'[r] = refund[r] \/ (refund'[r].state = "queued" /\ refund'[r].order = o)
           /\ refund' = Queued(r, o) => refund'[r].state # "none"
<1>1. refund \in [Requests -> Entries] /\ refund[r] \in Entries
  BY DEF TypeOK
<1>. DEFINE h == [state |-> "queued", order |-> o]
<1>2. h \in Entries /\ h.state = "queued" /\ h.order = o
  BY DEF Entries
<1>3. Queued(r, o) = IF refund[r].state = "none" THEN [refund EXCEPT ![r] = h] ELSE refund
  BY DEF Queued
<1>. HIDE DEF h
<1>4. CASE refund' = refund /\ refund' # Queued(r, o)
  BY <1>1, <1>4
<1>5. CASE refund' = Queued(r, o) /\ refund[r].state = "none"
  BY <1>1, <1>2, <1>3, <1>5
<1>6. CASE refund' = Queued(r, o) /\ refund[r].state # "none"
  BY <1>1, <1>3, <1>6
<1>. QED BY <1>4, <1>5, <1>6

LEMMA EnqueueKeeps == ASSUME IInv, NEW r \in Requests, Enqueue(r) PROVE IInv'
<1>1. /\ proc[r].pc = "enqueue" /\ ~Ended(r)
      /\ UNCHANGED <<today, counter, calls, charged, cache, row, jobs, terminal, metric, poll, slips>>
  BY DEF Enqueue, At, capVars, jobVars, Ended
<1>. PICK o \in BOOLEAN : o = proc[r].order
  BY DEF IInv, TypeOK, Locals
<1>2. row[r] = "pending" => o \/ Slipped(r, {"unindexed"})
  <2>1. Req(r)
    BY DEF IInv
  <2>. QED BY <1>1, <2>1 DEF Req, PendingRow
<1>3. refund' \in {refund, Queued(r, o)}
  BY DEF Enqueue
<1>4. /\ refund' \in [Requests -> Entries]
      /\ \A q \in Requests \ {r} : refund'[q] = refund[q]
      /\ refund'[r] = refund[r] \/ (refund'[r].state = "queued" /\ refund'[r].order = o)
      /\ refund' = Queued(r, o) => refund'[r].state # "none"
  BY <1>3, QueuedIs DEF IInv
<1>5. Req(r) /\ refund[r].state = "none"
  <2>1. Req(r)
    BY DEF IInv
  <2>. QED BY <1>1, <2>1 DEF Req
<1>6. CASE refund' = Queued(r, o) /\ End(r, "refund") /\ UNCHANGED faults
  <2>1. /\ Moved(r) /\ proc'[r].pc = "done" /\ proc'[r].order = proc[r].order
        /\ proc'[r].job = proc[r].job /\ proc'[r].todo = proc[r].todo
    BY <1>6, GotoMoves DEF IInv, End, Pcs, Refunds
  <2>2. /\ answer' \in [Requests -> Told] /\ answer'[r] = "refund"
        /\ \A q \in Requests \ {r} : answer'[q] = answer[q]
    BY <1>6, SayMoves DEF IInv, End, Told
  <2>3. refund'[r].state = "queued" /\ refund'[r].order = o
    BY <1>4, <1>5, <1>6
  <2>4. Ended(r)' /\ Outcome(r)'
    BY <2>1, <2>2, <2>3 DEF Ended, Outcome
  <2>5. row'[r] = "pending" => PendingRow(r)'
    BY <1>1, <1>2, <1>5, <2>1, <2>3 DEF PendingRow, Refunds, Slipped
  <2>6. Req(r)'
    BY <1>1, <1>5, <2>1, <2>3, <2>4, <2>5 DEF Req, Before, Refunds
  <2>. QED BY <1>1, <1>4, <1>5, <1>6, <2>1, <2>2, <2>4, <2>6, OwnKeeps DEF IInv, TypeOK
<1>7. CASE Goto(r, "unknown") /\ Fault(o) /\ UNCHANGED answer
  <2>1. /\ Moved(r) /\ proc'[r].pc = "unknown" /\ proc'[r].order = proc[r].order
        /\ proc'[r].job = proc[r].job /\ proc'[r].todo = proc[r].todo
    BY <1>7, GotoMoves DEF IInv, Pcs, Refunds
  <2>2. ~Ended(r)'
    BY <2>1 DEF Ended
  <2>3. row'[r] = "pending" => PendingRow(r)'
    BY <1>1, <1>2, <1>5, <2>1, <2>2 DEF PendingRow, Refunds, Slipped
  <2>4. refund'[r].order => o
    BY <1>4, <1>5 DEF Req
  <2>5. refund'[r].state # "marked"
    BY <1>4, <1>5
  <2>6. Req(r)'
    BY <1>1, <1>5, <2>1, <2>2, <2>3, <2>4, <2>5 DEF Req, Before, Refunds
  <2>7. faults' \in Nat
    BY <1>7, FaultType DEF IInv
  <2>. QED BY <1>1, <1>4, <1>5, <1>7, <2>1, <2>6, <2>7, OwnKeeps DEF IInv, TypeOK
<1>. QED BY <1>6, <1>7 DEF Enqueue

LEMMA MarkUnknownKeeps == ASSUME IInv, NEW r \in Requests, MarkUnknown(r) PROVE IInv'
<1>1. /\ proc[r].pc = "unknown" /\ ~Ended(r) /\ End(r, "review")
      /\ UNCHANGED <<today, counter, calls, charged, cache, refund, jobs, terminal, metric, poll>>
  BY DEF MarkUnknown, At, capVars, jobVars, Ended
<1>2. /\ Moved(r) /\ proc'[r].pc = "done" /\ proc'[r].order = proc[r].order
      /\ proc'[r].job = proc[r].job /\ proc'[r].todo = proc[r].todo
  BY <1>1, GotoMoves DEF IInv, End, Pcs, Refunds
<1>3. /\ answer' \in [Requests -> Told] /\ answer'[r] = "review"
      /\ \A q \in Requests \ {r} : answer'[q] = answer[q]
  BY <1>1, SayMoves DEF IInv, End, Told
<1>4. Req(r) /\ row \in [Requests -> {"none", "pending", "unknown", "refunded", "delivered"}]
  BY DEF IInv, TypeOK
<1>5. /\ slips \subseteq slips' /\ UNCHANGED faults
      /\ row' \in [Requests -> {"none", "pending", "unknown", "refunded", "delivered"}]
      /\ \A q \in Requests \ {r} : row'[q] = row[q]
      /\ row'[r] = "pending" => row[r] = "pending" /\ (~proc[r].order \/ Slipped(r, {"unmarked"})')
      /\ row'[r] = row[r] \/ row[r] # "refunded" \/ Slipped(r, {"clobbered"})'
  <2>1. CASE /\ row' = [row EXCEPT ![r] = "unknown"] /\ UNCHANGED faults
             /\ Slip(IF row[r] = "refunded" THEN {<<"clobbered", r>>} ELSE {})
    BY <1>4, <2>1 DEF Slip, Slipped
  <2>2. CASE Slip({<<"unmarked", r>>}) /\ UNCHANGED <<row, faults>>
    BY <1>4, <2>2 DEF Slip, Slipped
  <2>3. CASE ~proc[r].order /\ UNCHANGED <<row, slips, faults>>
    BY <1>4, <2>3
  <2>. QED BY <2>1, <2>2, <2>3 DEF MarkUnknown
<1>6. \A K : Slipped(r, K) => Slipped(r, K)'
  BY <1>5, SlippedMore
<1>7. Ended(r)' /\ Outcome(r)'
  BY <1>2, <1>3 DEF Ended, Outcome
<1>8. row'[r] = "pending" => PendingRow(r)'
  <2>1. SUFFICES ASSUME row'[r] = "pending" PROVE PendingRow(r)'
    OBVIOUS
  <2>2. PendingRow(r)
    BY <1>4, <1>5, <2>1 DEF Req
  <2>3. Slipped(r, {"unindexed"})' => Slipped(r, {"unindexed", "unmarked", "died"})'
    BY DEF Slipped
  <2>4. Slipped(r, {"unmarked"})' => Slipped(r, {"unindexed", "unmarked", "died"})'
    BY DEF Slipped
  <2>5. proc'[r].order \/ Slipped(r, {"unindexed"})'
    BY <1>2, <1>6, <2>2 DEF PendingRow
  <2>6. Slipped(r, {"unindexed", "unmarked", "died"})'
    BY <1>2, <1>5, <2>1, <2>3, <2>4, <2>5
  <2>. QED BY <1>2, <2>5, <2>6 DEF PendingRow, Refunds
<1>9. refund'[r].state = "marked" /\ refund'[r].order =>
         row'[r] = "refunded" \/ Slipped(r, {"clobbered", "unmarked"})'
  <2>1. Slipped(r, {"clobbered"})' => Slipped(r, {"clobbered", "unmarked"})'
    BY DEF Slipped
  <2>. QED BY <1>1, <1>4, <1>5, <1>6, <2>1 DEF Req
<1>10. Req(r)'
  BY <1>1, <1>2, <1>4, <1>7, <1>8, <1>9 DEF Req, Before, Refunds
<1>. QED BY <1>1, <1>2, <1>3, <1>5, <1>7, <1>10, OwnKeeps DEF IInv, TypeOK

LEMMA AsyncRefundKeeps == ASSUME IInv, NEW r \in Requests, AsyncRefund(r) PROVE IInv'
<1>1. /\ proc[r].pc \in Paid
      /\ UNCHANGED <<today, counter, calls, charged, cache, row, jobs, terminal, metric, poll, slips>>
  BY DEF AsyncRefund, At, capVars, jobVars, Paid
<1>2. /\ refund[r].state = "none" /\ ~refund[r].order /\ ~proc[r].order
      /\ row[r] # "pending" /\ "row" \notin proc[r].todo /\ ~Ended(r)
  BY <1>1, NoRefundYet
<1>3. PICK a \in {"refund", "review"} :
         /\ End(r, a) /\ faults' \in Nat /\ refund' \in {refund, Queued(r, FALSE)}
         /\ a = "refund" => refund' = Queued(r, FALSE)
  <2>1. CASE refund' = Queued(r, FALSE) /\ End(r, "refund") /\ UNCHANGED faults
    BY <2>1 DEF IInv, TypeOK
  <2>2. CASE refund' \in {refund, Queued(r, FALSE)} /\ End(r, "review") /\ Fault(TRUE)
    BY <2>2, FaultType DEF IInv
  <2>. QED BY <2>1, <2>2 DEF AsyncRefund
<1>4. /\ refund' \in [Requests -> Entries]
      /\ \A q \in Requests \ {r} : refund'[q] = refund[q]
      /\ refund'[r] = refund[r] \/ (refund'[r].state = "queued" /\ refund'[r].order = FALSE)
      /\ refund' = Queued(r, FALSE) => refund'[r].state # "none"
  BY <1>3, QueuedIs DEF IInv
<1>5. /\ Moved(r) /\ proc'[r].pc = "done" /\ proc'[r].order = proc[r].order
      /\ proc'[r].job = proc[r].job /\ proc'[r].todo = proc[r].todo
  BY <1>3, GotoMoves DEF IInv, End, Pcs, Refunds
<1>6. /\ answer' \in [Requests -> Told] /\ answer'[r] = a
      /\ \A q \in Requests \ {r} : answer'[q] = answer[q]
  BY <1>3, SayMoves DEF IInv, End, Told
<1>7. Ended(r)' /\ Outcome(r)'
  BY <1>3, <1>4, <1>5, <1>6 DEF Ended, Outcome
<1>8. ~refund'[r].order /\ refund'[r].state # "marked"
  BY <1>2, <1>4
<1>9. Req(r)'
  BY <1>1, <1>2, <1>5, <1>7, <1>8, JobKnown DEF Req, Before, Refunds
<1>. QED BY <1>1, <1>2, <1>3, <1>4, <1>5, <1>6, <1>7, <1>9, OwnKeeps DEF IInv, TypeOK

-----------------------------------------------------------------------------
(* Jobs, and the work in the background.                                   *)

\* A record put over another's leaves word with both requests.
LEMMA StoreJobPuts ==
    ASSUME IInv, NEW r \in Requests, NEW j \in Jobs, proc[r].pc = "job",
           jobs' = [jobs EXCEPT ![j] = r],
           Slip(IF jobs[j] # Nobody THEN {<<"overwritten", jobs[j]>>, <<"reused", r>>} ELSE {}),
           End(r, "accepted"),
           UNCHANGED <<today, counter, calls, charged, cache, row, refund, terminal, metric, poll, faults>>
    PROVE  IInv'
<1>. PICK o : o = jobs[j]
  OBVIOUS
<1>1. /\ Moved(r) /\ proc'[r].pc = "done" /\ proc'[r].order = proc[r].order
      /\ proc'[r].job = proc[r].job /\ proc'[r].todo = proc[r].todo
  BY GotoMoves DEF IInv, End, Pcs, Refunds
<1>2. /\ answer' \in [Requests -> Told] /\ answer'[r] = "accepted"
      /\ \A q \in Requests \ {r} : answer'[q] = answer[q]
  BY SayMoves DEF IInv, End, Told
<1>3. /\ jobs' \in [Jobs -> Requests \cup {Nobody}] /\ jobs'[j] = r
      /\ \A i \in Jobs \ {j} : jobs'[i] = jobs[i]
  BY DEF IInv, TypeOK
<1>4. /\ slips \subseteq slips'
      /\ o # Nobody => Slipped(o, {"overwritten"})' /\ Slipped(r, {"reused"})'
  BY DEF Slip, Slipped
<1>5. TypeOK'
  BY <1>1, <1>2, <1>3 DEF IInv, TypeOK, Moved
<1>6. /\ refund[r].state = "none" /\ ~refund[r].order /\ ~proc[r].order
      /\ row[r] # "pending" /\ "row" \notin proc[r].todo /\ ~Ended(r)
  BY NoRefundYet DEF Paid
<1>7. ASSUME NEW q \in Requests PROVE Req(q)'
  <2>1. CASE q = r
    <3>1. Ended(r)' /\ Outcome(r)'
      BY <1>1, <1>2, <1>3 DEF Ended, Outcome
    <3>. QED BY <1>1, <1>6, <2>1, <3>1, JobKnown DEF Req, Before, Refunds
  <2>2. CASE q # r
    <3>1. (\A i \in Jobs : jobs[i] = q => jobs'[i] = q) \/ Slipped(q, {"overwritten"})'
      BY <1>3, <1>4, ChargeConstants
    <3>2. Req(q)
      BY DEF IInv
    <3>. QED BY <1>1, <1>2, <1>4, <2>2, <3>1, <3>2, ReqKept DEF Moved
  <2>. QED BY <2>1, <2>2
<1>8. \A q \in Requests : Ended(q) => Ended(q)'
  BY <1>1 DEF Moved, Ended
<1>9. \A q, K : Slipped(q, K) => Slipped(q, K)'
  BY <1>4, SlippedMore
<1>10. r # Nobody /\ Ended(r)'
  BY <1>1, ChargeConstants DEF Ended
<1>11. ASSUME NEW i \in Jobs PROVE Job(i)'
  <2>1. Job(i) /\ jobs[i] \in Requests \cup {Nobody}
    BY DEF IInv, TypeOK
  <2>2. CASE i = j
    BY <1>3, <1>4, <1>10, <2>1, <2>2 DEF Job
  <2>3. CASE i # j
    BY <1>3, <1>8, <1>9, <2>1, <2>3 DEF Job
  <2>. QED BY <2>2, <2>3
<1>12. ASSUME NEW p \in Pollers PROVE Polling(p)'
  <2>1. Polling(p)
    BY DEF IInv
  <2>2. CASE poll[p].job = j
    BY <1>3, <1>4, <1>8, <1>10, <2>1, <2>2 DEF Polling
  <2>3. CASE poll[p].job # j
    BY <1>3, <1>8, <1>9, <2>1, <2>3 DEF Polling
  <2>. QED BY <2>2, <2>3
<1>13. Cap' /\ \A i \in Jobs : Verdict(i)'
  BY <1>4, CapKept, VerdictsKept DEF IInv
<1>. QED BY <1>5, <1>7, <1>11, <1>12, <1>13 DEF IInv

LEMMA StoreJobKeeps == ASSUME IInv, NEW r \in Requests, StoreJob(r) PROVE IInv'
<1>1. /\ proc[r].pc = "job" /\ proc[r].pc \in Paid
      /\ UNCHANGED <<today, counter, calls, charged, cache, row, refund, terminal, metric, poll>>
  BY DEF StoreJob, At, capVars, Paid
<1>. PICK j \in Jobs : j = proc[r].job
  BY <1>1 DEF IInv, Req
<1>2. CASE /\ jobs' = [jobs EXCEPT ![j] = r]
           /\ Slip(IF jobs[j] # Nobody THEN {<<"overwritten", jobs[j]>>, <<"reused", r>>} ELSE {})
           /\ End(r, "accepted") /\ UNCHANGED faults
  BY <1>1, <1>2, StoreJobPuts
<1>3. CASE End(r, "unbound") /\ Slip({<<"unbound", r>>}) /\ UNCHANGED <<jobs, faults>>
  <2>1. slips \subseteq slips' /\ Slipped(r, {"threw", "died", "unbound"})'
    BY <1>3 DEF Slip, Slipped
  <2>. QED BY <1>1, <1>3, <2>1, EndKeeps DEF Told, IInv, TypeOK
<1>4. CASE Goto(r, "nojob") /\ Fault(TRUE) /\ UNCHANGED <<jobs, answer, slips>>
  <2>1. faults' \in Nat
    BY <1>4, FaultType DEF IInv
  <2>. QED BY <1>1, <1>4, <2>1, OnKeeps, CapStays DEF Paid, IInv, TypeOK
<1>. QED BY <1>2, <1>3, <1>4 DEF StoreJob

\* Work in the background is done.
LEMMA TodoMoves ==
    ASSUME IInv, NEW r \in Requests, NEW T, T \subseteq proc[r].todo,
           proc' = [proc EXCEPT ![r].todo = T]
    PROVE  /\ Moved(r) /\ proc'[r].pc = proc[r].pc /\ proc'[r].day = proc[r].day
           /\ proc'[r].order = proc[r].order /\ proc'[r].job = proc[r].job /\ proc'[r].todo = T
<1>1. proc \in [Requests -> Locals] /\ proc[r] \in Locals
  BY DEF IInv, TypeOK
<1>. DEFINE h == [proc[r] EXCEPT !.todo = T]
<1>2. h \in Locals /\ h.pc = proc[r].pc /\ h.day = proc[r].day /\ h.order = proc[r].order
      /\ h.job = proc[r].job /\ h.todo = T
  BY <1>1 DEF Locals
<1>3. proc' = [proc EXCEPT ![r] = h]
  BY <1>1
<1>. HIDE DEF h
<1>. QED BY <1>1, <1>2, <1>3 DEF Moved

\* Nothing else of the request changes with it, unless its delivery is recorded.
LEMMA TodoKeeps ==
    ASSUME IInv, NEW r \in Requests, NEW T, T \subseteq proc[r].todo,
           proc' = [proc EXCEPT ![r].todo = T], slips \subseteq slips',
           UNCHANGED <<answer, charged, refund, jobs>>,
           row'[r] = row[r] \/ ("row" \in proc[r].todo /\ row'[r] = "delivered")
    PROVE  Req(r)'
<1>1. /\ Moved(r) /\ proc'[r].pc = proc[r].pc /\ proc'[r].order = proc[r].order
      /\ proc'[r].job = proc[r].job /\ proc'[r].todo = T
  BY TodoMoves
<1>2. Req(r) /\ (Ended(r)' <=> Ended(r))
  BY <1>1 DEF IInv, Ended
<1>3. \A K : Slipped(r, K) => Slipped(r, K)'
  BY SlippedMore
<1>4. Outcome(r) => Outcome(r)'
  BY <1>3 DEF Outcome
<1>5. PendingRow(r) => PendingRow(r)'
  BY <1>1, <1>2, <1>3 DEF PendingRow
<1>6. "row" \in proc[r].todo => ~refund[r].order
  BY <1>2 DEF Req
<1>7. refund'[r].state = "marked" /\ refund'[r].order =>
         row'[r] = "refunded" \/ Slipped(r, {"clobbered", "unmarked"})'
  BY <1>2, <1>3, <1>6 DEF Req
<1>8. row'[r] = "pending" => PendingRow(r)'
  BY <1>2, <1>5 DEF Req
<1>9. proc'[r].pc = "job" \/ "metric" \in proc'[r].todo => proc'[r].job \in Jobs
  BY <1>1, <1>2 DEF Req
<1>10. "row" \in proc'[r].todo => Ended(r)' /\ ~proc'[r].order
  BY <1>1, <1>2 DEF Req
<1>. QED BY <1>1, <1>2, <1>4, <1>7, <1>8, <1>9, <1>10 DEF Req

LEMMA MetricKeeps == ASSUME IInv, NEW r \in Requests, Metric(r) PROVE IInv'
<1>1. /\ "metric" \in proc[r].todo /\ proc' = [proc EXCEPT ![r].todo = {}]
      /\ UNCHANGED <<answer, today, counter, calls, charged, cache, row, refund, jobs, terminal, poll, faults>>
  BY DEF Metric, capVars
<1>. PICK j \in Jobs : j = proc[r].job
  BY <1>1 DEF IInv, Req
<1>2. /\ metric' = [metric EXCEPT ![j] = IF @ = "none" THEN "pending" ELSE @]
      /\ Slip(IF terminal[j].state = "done" THEN {<<"late", j>>} ELSE {})
  BY DEF Metric
<1>3. /\ metric' \in [Jobs -> {"none", "pending", "ok", "provider_fault"}]
      /\ \A i \in Jobs \ {j} : metric'[i] = metric[i]
  BY <1>2 DEF IInv, TypeOK
<1>4. terminal[j].state = "done" => <<"late", j>> \in slips'
  BY <1>2 DEF Slip
<1>5. slips \subseteq slips'
  BY <1>2 DEF Slip
<1>. PICK T : T = {}
  OBVIOUS
<1>6. Moved(r) /\ proc'[r].pc = proc[r].pc
  <2>1. T \subseteq proc[r].todo /\ proc' = [proc EXCEPT ![r].todo = T]
    BY <1>1
  <2>. QED BY <1>1, <2>1, TodoMoves
<1>7. Req(r)'
  <2>1. T \subseteq proc[r].todo /\ proc' = [proc EXCEPT ![r].todo = T]
    BY <1>1
  <2>. QED BY <1>1, <1>5, <2>1, TodoKeeps
<1>8. TypeOK'
  BY <1>1, <1>3, <1>6 DEF IInv, TypeOK, Moved
<1>9. ASSUME NEW i \in Jobs PROVE Verdict(i)'
  <2>1. Verdict(i)
    BY DEF IInv
  <2>2. CASE i = j
    BY <1>1, <1>4, <1>5, <2>2 DEF Verdict
  <2>3. CASE i # j
    BY <1>1, <1>3, <1>5, <2>1, <2>3 DEF Verdict
  <2>. QED BY <2>2, <2>3
<1>10. Cap' /\ (Ended(r) => Ended(r)')
  BY <1>1, <1>6, CapKept DEF IInv, Ended
<1>. QED BY <1>1, <1>5, <1>6, <1>7, <1>8, <1>9, <1>10, RequestKeeps

LEMMA BackgroundKeeps ==
    ASSUME IInv, NEW r \in Requests, StoreAnswer(r) \/ RecordDelivered(r)
    PROVE  IInv'
<1>1. PICK what \in {"cache", "row"} :
         /\ what \in proc[r].todo /\ proc' = [proc EXCEPT ![r].todo = proc[r].todo \ {what}]
         /\ row' = row \/ (what = "row" /\ row' = [row EXCEPT ![r] = "delivered"])
         /\ cache' \in BOOLEAN /\ faults' \in Nat
         /\ UNCHANGED <<answer, today, counter, calls, charged, refund, jobs, terminal, metric, poll, slips>>
  <2>0. ASSUME NEW what, Background(r, what)
        PROVE  /\ what \in proc[r].todo /\ proc' = [proc EXCEPT ![r].todo = proc[r].todo \ {what}]
               /\ UNCHANGED <<answer, today, counter, calls, charged, refund, jobs, terminal, metric,
                              poll, slips>>
    <3>1. proc \in [Requests -> Locals]
      BY DEF IInv, TypeOK
    <3>. QED BY <2>0, <3>1 DEF Background, capVars, jobVars
  <2>1. CASE StoreAnswer(r)
    <3>1. cache' \in BOOLEAN /\ faults' \in Nat
      <4>1. CASE cache' = TRUE /\ UNCHANGED faults
        BY <4>1 DEF IInv, TypeOK
      <4>2. CASE Fault(TRUE) /\ UNCHANGED cache
        BY <4>2, FaultType DEF IInv, TypeOK
      <4>. QED BY <2>1, <4>1, <4>2 DEF StoreAnswer
    <3>. QED BY <2>0, <2>1, <3>1 DEF StoreAnswer
  <2>2. CASE RecordDelivered(r)
    <3>1. faults' \in Nat /\ cache' \in BOOLEAN
      <4>1. CASE UNCHANGED <<faults, cache>>
        BY <4>1 DEF IInv, TypeOK
      <4>2. CASE Fault(TRUE) /\ UNCHANGED cache
        BY <4>2, FaultType DEF IInv, TypeOK
      <4>. QED BY <2>2, <4>1, <4>2 DEF RecordDelivered
    <3>. QED BY <2>0, <2>2, <3>1 DEF RecordDelivered
  <2>. QED BY <2>1, <2>2
<1>2. /\ row' \in [Requests -> {"none", "pending", "unknown", "refunded", "delivered"}]
      /\ \A q \in Requests \ {r} : row'[q] = row[q]
      /\ row'[r] = row[r] \/ ("row" \in proc[r].todo /\ row'[r] = "delivered")
  BY <1>1 DEF IInv, TypeOK
<1>. PICK T : T = proc[r].todo \ {what}
  OBVIOUS
<1>3. Moved(r) /\ proc'[r].pc = proc[r].pc
  <2>1. T \subseteq proc[r].todo /\ proc' = [proc EXCEPT ![r].todo = T]
    BY <1>1
  <2>. QED BY <2>1, TodoMoves
<1>4. Req(r)'
  <2>1. T \subseteq proc[r].todo /\ proc' = [proc EXCEPT ![r].todo = T]
    BY <1>1
  <2>. QED BY <1>1, <1>2, <2>1, TodoKeeps
<1>5. Ended(r) => Ended(r)'
  BY <1>3 DEF Ended
<1>. QED BY <1>1, <1>2, <1>3, <1>4, <1>5, OwnKeeps DEF IInv, TypeOK

\* A Worker that stops leaves word.
LEMMA DieKeeps == ASSUME IInv, NEW r \in Requests, Die(r) PROVE IInv'
<1>1. /\ proc' = [proc EXCEPT ![r].pc = "done", ![r].todo = {}]
      /\ UNCHANGED <<answer, today, counter, calls, charged, cache, row, refund, jobs, terminal, metric, poll>>
  BY DEF Die, capVars, jobVars
<1>2. proc \in [Requests -> Locals] /\ proc[r] \in Locals
  BY DEF IInv, TypeOK
<1>. DEFINE h == [proc[r] EXCEPT !.pc = "done", !.todo = {}]
<1>3. h \in Locals /\ h.pc = "done" /\ h.order = proc[r].order /\ h.todo = {}
  BY <1>2 DEF Locals, Pcs, Refunds
<1>4. proc' = [proc EXCEPT ![r] = h]
  BY <1>1, <1>2
<1>. HIDE DEF h
<1>5. Moved(r) /\ proc'[r] = h
  BY <1>2, <1>3, <1>4 DEF Moved
<1>6. slips \subseteq slips' /\ <<"died", r>> \in slips' /\ faults' \in Nat
  BY FaultType DEF Die, Slip, IInv
<1>7. \A K : Slipped(r, K) => Slipped(r, K)'
  BY <1>6, SlippedMore
<1>8. Ended(r)' /\ Outcome(r)' /\ Slipped(r, {"unindexed", "unmarked", "died"})'
  BY <1>3, <1>5, <1>6 DEF Ended, Outcome, Slipped
<1>9. Req(r)
  BY DEF IInv
<1>10. row'[r] = "pending" => PendingRow(r)'
  BY <1>1, <1>3, <1>5, <1>7, <1>8, <1>9 DEF Req, PendingRow, Refunds
<1>11. Req(r)'
  BY <1>1, <1>3, <1>5, <1>7, <1>8, <1>9, <1>10 DEF Req, Before, Refunds
<1>. QED BY <1>1, <1>5, <1>6, <1>8, <1>11, OwnKeeps DEF IInv, TypeOK

-----------------------------------------------------------------------------
(* The refund executor.                                                    *)

LEMMA ExecutorPaysKeeps == ASSUME IInv, NEW r \in Requests, ExecutorPays(r) PROVE IInv'
<1>1. /\ refund[r].state = "queued" /\ refund' = [refund EXCEPT ![r].state = "paid"]
      /\ UNCHANGED <<proc, answer, today, counter, calls, charged, cache, row, jobs, terminal, metric,
                     poll, slips, faults>>
  BY DEF ExecutorPays, capVars, jobVars
<1>2. /\ refund' \in [Requests -> Entries] /\ refund'[r].state = "paid"
      /\ refund'[r].order = refund[r].order /\ \A q \in Requests \ {r} : refund'[q] = refund[q]
  BY <1>1 DEF IInv, TypeOK, Entries
<1>3. Req(r) /\ Moved(r) /\ (Ended(r)' <=> Ended(r))
  BY <1>1 DEF IInv, TypeOK, Moved, Ended
<1>4. \A K : Slipped(r, K) <=> Slipped(r, K)'
  BY <1>1 DEF Slipped
<1>5. Outcome(r) => Outcome(r)'
  BY <1>1, <1>2, <1>4 DEF Outcome
<1>6. PendingRow(r) => PendingRow(r)'
  BY <1>1, <1>2, <1>3, <1>4 DEF PendingRow
<1>7. Req(r)'
  BY <1>1, <1>2, <1>3, <1>5, <1>6 DEF Req
<1>. QED BY <1>1, <1>2, <1>3, <1>7, OwnKeeps DEF IInv, TypeOK

LEMMA ExecutorMarksKeeps == ASSUME IInv, NEW r \in Requests, ExecutorMarks(r) PROVE IInv'
<1>1. /\ refund[r].state = "paid" /\ refund' = [refund EXCEPT ![r].state = "marked"]
      /\ UNCHANGED <<proc, answer, today, counter, calls, charged, cache, jobs, terminal, metric, poll>>
  BY DEF ExecutorMarks, capVars, jobVars
<1>. PICK o \in BOOLEAN : o = refund[r].order
  BY DEF IInv, TypeOK, Entries
<1>2. /\ refund' \in [Requests -> Entries] /\ refund'[r].state = "marked"
      /\ refund'[r].order = o /\ \A q \in Requests \ {r} : refund'[q] = refund[q]
  BY <1>1 DEF IInv, TypeOK, Entries
<1>3. Req(r) /\ Moved(r) /\ (Ended(r)' <=> Ended(r))
  BY <1>1 DEF IInv, TypeOK, Moved, Ended
<1>4. /\ slips \subseteq slips' /\ faults' \in Nat
      /\ row' \in [Requests -> {"none", "pending", "unknown", "refunded", "delivered"}]
      /\ \A q \in Requests \ {r} : row'[q] = row[q]
      /\ o => row'[r] = "refunded" \/ Slipped(r, {"unmarked"})'
      /\ row'[r] = "pending" => row[r] = "pending"
  <2>1. CASE row' = [row EXCEPT ![r] = IF o THEN "refunded" ELSE @] /\ UNCHANGED <<slips, faults>>
    BY <2>1 DEF IInv, TypeOK
  <2>2. CASE Fault(TRUE) /\ Slip({<<"unmarked", r>>}) /\ UNCHANGED row
    <3>1. faults' \in Nat
      BY <2>2, FaultType DEF IInv
    <3>. QED BY <2>2, <3>1 DEF IInv, TypeOK, Slip, Slipped
  <2>. QED BY <2>1, <2>2 DEF ExecutorMarks
<1>5. \A K : Slipped(r, K) => Slipped(r, K)'
  BY <1>4, SlippedMore
<1>6. Outcome(r) => Outcome(r)'
  BY <1>1, <1>2, <1>5 DEF Outcome
<1>7. Slipped(r, {"unmarked"})' => /\ Slipped(r, {"clobbered", "unmarked"})'
                                   /\ Slipped(r, {"unindexed", "unmarked", "died"})'
  BY DEF Slipped
<1>8. row'[r] = "pending" => PendingRow(r)'
  <2>1. SUFFICES ASSUME row'[r] = "pending" PROVE PendingRow(r)'
    OBVIOUS
  <2>2. PendingRow(r)
    BY <1>3, <1>4, <2>1 DEF Req
  <2>3. Ended(r)' => Slipped(r, {"unindexed", "unmarked", "died"})'
    BY <1>3, <1>4, <1>5, <1>7, <2>1, <2>2 DEF PendingRow
  <2>. QED BY <1>1, <1>5, <2>2, <2>3 DEF PendingRow
<1>9. refund'[r].order => row'[r] = "refunded" \/ Slipped(r, {"clobbered", "unmarked"})'
  BY <1>2, <1>4, <1>7
<1>10. Req(r)'
  BY <1>1, <1>2, <1>3, <1>6, <1>8, <1>9 DEF Req
<1>. QED BY <1>1, <1>2, <1>3, <1>4, <1>10, OwnKeeps DEF IInv, TypeOK

-----------------------------------------------------------------------------
(* The polls.                                                              *)

\* The refund of a job's request is queued beside whatever it did before.
LEMMA ReqQueued ==
    ASSUME IInv, NEW r \in Requests, Ended(r), refund' \in {refund, Queued(r, FALSE)},
           slips \subseteq slips', UNCHANGED <<proc, answer, charged, row, jobs>>
    PROVE  Req(r)'
<1>1. /\ refund[r].state # "none" => refund'[r] = refund[r]
      /\ refund'[r] = refund[r] \/ (refund'[r].state = "queued" /\ refund'[r].order = FALSE)
  BY QueuedIs DEF IInv
<1>2. Req(r)
  BY DEF IInv
<1>3. CASE refund'[r] = refund[r]
  BY <1>2, <1>3, ReqKept
<1>4. CASE refund'[r] # refund[r]
  <2>1. /\ refund'[r].state = "queued" /\ ~refund'[r].order /\ refund[r].state = "none" /\ Ended(r)'
    BY <1>1, <1>4 DEF Ended
  <2>2. \A K : Slipped(r, K) => Slipped(r, K)'
    BY SlippedMore
  <2>3. Outcome(r)'
    BY <1>2, <2>1, <2>2 DEF Req, Outcome
  <2>4. PendingRow(r) => PendingRow(r)'
    BY <2>1, <2>2 DEF PendingRow
  <2>5. row'[r] = "pending" => PendingRow(r)'
    BY <1>2, <2>4 DEF Req
  <2>. QED BY <1>2, <2>1, <2>3, <2>5 DEF Req, Ended
<1>. QED BY <1>3, <1>4

\* A step of poller p: what a claimed job was claimed for stays, and the refund
\* it may queue is that of the request it works for.
LEMMA PollerKeeps ==
    ASSUME IInv, NEW p \in Pollers, NEW n \in Polls, poll' = [poll EXCEPT ![p] = n],
           terminal' \in [Jobs -> [out : Ends, state : {"none", "processing", "done"}]],
           metric' \in [Jobs -> {"none", "pending", "ok", "provider_fault"}],
           \A j \in Jobs : terminal[j].out # "none" => terminal'[j].out = terminal[j].out,
           \A j \in Jobs : terminal'[j] = terminal[j] \/ Job(j)',
           \A j \in Jobs : Verdict(j)', Polling(p)',
           UNCHANGED refund \/
              (/\ poll[p].pc # "idle" /\ refund' \in {refund, Queued(poll[p].owner, FALSE)}),
           slips \subseteq slips', faults' \in Nat,
           UNCHANGED <<proc, answer, today, counter, calls, charged, cache, row, jobs>>
    PROVE  IInv'
<1>1. poll' \in [Pollers -> Polls] /\ \A q \in Pollers \ {p} : poll'[q] = poll[q]
  BY DEF IInv, TypeOK
<1>2. /\ refund' \in [Requests -> Entries] /\ \A r \in Requests : Req(r)'
      /\ \A r \in Requests : refund[r].state # "none" => refund'[r].state # "none"
  <2>1. CASE UNCHANGED refund
    BY <2>1, ReqKept DEF IInv, TypeOK
  <2>2. CASE poll[p].pc # "idle" /\ refund' \in {refund, Queued(poll[p].owner, FALSE)}
    <3>1. PICK o \in Requests : o = poll[p].owner /\ Ended(o)
      BY <2>2 DEF IInv, Polling
    <3>2. refund' \in {refund, Queued(o, FALSE)}
      BY <2>2, <3>1
    <3>3. /\ refund' \in [Requests -> Entries]
          /\ \A q \in Requests \ {o} : refund'[q] = refund[q]
          /\ refund[o].state # "none" => refund'[o] = refund[o]
      BY <3>2, QueuedIs DEF IInv
    <3>4. Req(o)'
      BY <3>1, <3>2, ReqQueued
    <3>5. ASSUME NEW r \in Requests, r # o PROVE Req(r)'
      BY <3>3, <3>5, ReqKept DEF IInv
    <3>. QED BY <3>3, <3>4, <3>5
  <2>. QED BY <2>1, <2>2
<1>3. TypeOK'
  BY <1>1, <1>2 DEF IInv, TypeOK
<1>4. \A q, K : Slipped(q, K) => Slipped(q, K)'
  BY SlippedMore
<1>5. \A q \in Requests : Ended(q) => Ended(q)'
  BY DEF Ended
<1>6. ASSUME NEW j \in Jobs PROVE Job(j)'
  <2>1. Job(j) /\ jobs[j] \in Requests \cup {Nobody}
    BY DEF IInv, TypeOK
  <2>2. CASE terminal'[j] = terminal[j]
    BY <1>2, <1>4, <1>5, <2>1, <2>2 DEF Job
  <2>. QED BY <2>2
<1>7. ASSUME NEW q \in Pollers, q # p PROVE Polling(q)'
  <2>1. Polling(q) /\ poll'[q] = poll[q]
    BY <1>1, <1>7 DEF IInv
  <2>. QED BY <1>2, <1>4, <1>5, <2>1 DEF Polling
<1>8. Cap'
  BY CapKept DEF IInv
<1>. QED BY <1>2, <1>3, <1>6, <1>7, <1>8 DEF IInv

\* The verdict stays out or with the poll that has it.
LEMMA VerdictsStay ==
    ASSUME IInv, NEW p \in Pollers, NEW n, poll' = [poll EXCEPT ![p] = n], poll[p].pc # "metric",
           UNCHANGED <<metric, slips>>,
           \A j \in Jobs : terminal'[j].state = "done" =>
               terminal[j].state = "done" \/ (n.job = j /\ n.pc = "metric")
    PROVE  \A j \in Jobs : Verdict(j)'
<1>1. poll'[p] = n /\ \A q \in Pollers \ {p} : poll'[q] = poll[q]
  BY DEF IInv, TypeOK
<1>2. SUFFICES ASSUME NEW j \in Jobs, terminal'[j].state = "done"
               PROVE  \/ metric'[j] # "pending" \/ <<"late", j>> \in slips'
                      \/ \E q \in Pollers : poll'[q].job = j /\ poll'[q].pc = "metric"
  BY DEF Verdict
<1>3. CASE n.job = j /\ n.pc = "metric"
  BY <1>1, <1>3
<1>4. CASE terminal[j].state = "done"
  <2>1. \/ metric[j] # "pending" \/ <<"late", j>> \in slips
        \/ \E q \in Pollers : poll[q].job = j /\ poll[q].pc = "metric"
    BY <1>4 DEF IInv, Verdict
  <2>2. ASSUME NEW q \in Pollers, poll[q].job = j, poll[q].pc = "metric"
        PROVE  \E m \in Pollers : poll'[m].job = j /\ poll'[m].pc = "metric"
    BY <1>1, <2>2
  <2>. QED BY <2>1, <2>2
<1>. QED BY <1>2, <1>3, <1>4

\* A poll at rest has nothing to answer for.
LEMMA RestPolls == Rest \in Polls /\ Rest.pc = "idle"
BY DEF Rest, Polls, Ends

LEMMA PollAsKeeps ==
    ASSUME IInv, NEW p \in Pollers, NEW j \in Jobs, PollAs(p, j)
    PROVE  IInv'
<1>1. /\ poll[p].pc = "idle" /\ jobs[j] # Nobody
      /\ UNCHANGED <<proc, answer, today, counter, calls, charged, cache, row, refund, jobs,
                     terminal, metric, slips, faults>>
  BY DEF PollAs, capVars
<1>2. PICK r \in Requests : r = jobs[j] /\ Ended(r)
  BY <1>1 DEF IInv, TypeOK, Job
<1>3. PICK out \in {"failed", "delivered"} :
         poll' = [poll EXCEPT ![p] = [pc |-> "claim", job |-> j, owner |-> r, out |-> out]]
  BY <1>2 DEF PollAs
<1>. DEFINE n == [pc |-> "claim", job |-> j, owner |-> r, out |-> out]
<1>4. n \in Polls /\ n.pc = "claim" /\ n.job = j /\ n.owner = r /\ n.out # "none"
  BY DEF Polls, Ends
<1>5. poll' = [poll EXCEPT ![p] = n]
  BY <1>3
<1>. HIDE DEF n
<1>6. poll'[p] = n
  BY <1>5 DEF IInv, TypeOK
<1>7. Polling(p)'
  BY <1>1, <1>2, <1>4, <1>6 DEF Polling, Ended
<1>8. \A i \in Jobs : Verdict(i)'
  BY <1>1, <1>5, VerdictsStay
<1>. QED BY <1>1, <1>4, <1>5, <1>7, <1>8, PollerKeeps DEF IInv, TypeOK

\* A poll goes on, with the job it has.
LEMMA PollMoves ==
    ASSUME TypeOK, NEW p \in Pollers, NEW l \in {"refund", "finish", "metric"},
           poll' = [poll EXCEPT ![p].pc = l]
    PROVE  \E n \in Polls : /\ poll' = [poll EXCEPT ![p] = n] /\ poll'[p] = n
                            /\ n.pc = l /\ n.job = poll[p].job
                            /\ n.owner = poll[p].owner /\ n.out = poll[p].out
<1>1. poll \in [Pollers -> Polls] /\ poll[p] \in Polls
  BY DEF TypeOK
<1>. DEFINE n == [poll[p] EXCEPT !.pc = l]
<1>2. n \in Polls /\ n.pc = l /\ n.job = poll[p].job /\ n.owner = poll[p].owner /\ n.out = poll[p].out
  BY <1>1 DEF Polls
<1>3. poll' = [poll EXCEPT ![p] = n]
  BY <1>1
<1>. HIDE DEF n
<1>. QED BY <1>1, <1>2, <1>3

LEMMA ClaimKeeps == ASSUME IInv, NEW p \in Pollers, Claim(p) PROVE IInv'
<1>1. /\ poll[p].pc = "claim"
      /\ UNCHANGED <<proc, answer, today, counter, calls, charged, cache, row, jobs, metric, slips, faults>>
  BY DEF Claim, capVars
<1>2. Polling(p)
  BY DEF IInv
<1>3. PICK j \in Jobs, out \in {"failed", "delivered"} : j = poll[p].job /\ out = poll[p].out
  BY <1>1, <1>2 DEF Polling, IInv, TypeOK, Polls, Ends
<1>4. terminal \in [Jobs -> [out : Ends, state : {"none", "processing", "done"}]]
  BY DEF IInv, TypeOK
<1>5. CASE /\ terminal[j].out \in {"none", out} /\ terminal[j].state # "done"
           /\ terminal' = [terminal EXCEPT ![j] = [out |-> out, state |-> "processing"]]
           /\ poll' = [poll EXCEPT ![p].pc = IF out = "failed" THEN "refund" ELSE "finish"]
           /\ UNCHANGED refund
  <2>1. PICK l \in {"refund", "finish", "metric"} :
           /\ l = (IF out = "failed" THEN "refund" ELSE "finish") /\ l # "metric"
    OBVIOUS
  <2>2. PICK n \in Polls : /\ poll' = [poll EXCEPT ![p] = n] /\ poll'[p] = n
                           /\ n.pc = l /\ n.job = poll[p].job
                           /\ n.owner = poll[p].owner /\ n.out = poll[p].out
    <3>1. poll' = [poll EXCEPT ![p].pc = l]
      BY <1>5, <2>1
    <3>. QED BY <3>1, PollMoves DEF IInv
  <2>. DEFINE t == [out |-> out, state |-> "processing"]
  <2>3. t \in [out : Ends, state : {"none", "processing", "done"}] /\ t.out = out /\ t.state # "done"
    BY DEF Ends
  <2>4. terminal' = [terminal EXCEPT ![j] = t]
    BY <1>5
  <2>. HIDE DEF t
  <2>5. /\ terminal' \in [Jobs -> [out : Ends, state : {"none", "processing", "done"}]]
        /\ terminal'[j] = t /\ \A i \in Jobs \ {j} : terminal'[i] = terminal[i]
    BY <1>4, <2>3, <2>4
  <2>6. \A i \in Jobs : terminal[i].out # "none" => terminal'[i].out = terminal[i].out
    BY <1>5, <2>3, <2>5
  <2>7. \A i \in Jobs : terminal'[i] = terminal[i] \/ Job(i)'
    <3>1. Job(j) /\ terminal'[j].state # "done"
      BY <2>3, <2>5 DEF IInv
    <3>2. Job(j)'
      BY <1>1, <3>1 DEF Job, Ended
    <3>. QED BY <2>5, <3>2
  <2>8. Polling(p)'
    BY <1>1, <1>2, <1>3, <2>1, <2>2, <2>3, <2>5 DEF Polling, Ended, Slipped
  <2>9. \A i \in Jobs : Verdict(i)'
    <3>1. poll[p].pc # "metric" /\ \A i \in Jobs : terminal'[i].state = "done" => terminal[i].state = "done"
      BY <1>1, <2>3, <2>5
    <3>. QED BY <1>1, <2>2, <3>1, VerdictsStay
  <2>. QED BY <1>1, <1>5, <2>2, <2>5, <2>6, <2>7, <2>8, <2>9, PollerKeeps DEF IInv, TypeOK
<1>6. CASE /\ poll' = [poll EXCEPT ![p] = Rest] /\ UNCHANGED terminal
           /\ refund' \in {refund, Queued(poll[p].owner, FALSE)}
  <2>1. Polling(p)'
    BY <1>6, RestPolls DEF Polling, IInv, TypeOK
  <2>2. \A i \in Jobs : Verdict(i)'
    BY <1>1, <1>6, VerdictsStay
  <2>. QED BY <1>1, <1>6, <2>1, <2>2, RestPolls, PollerKeeps DEF IInv, TypeOK
<1>. QED BY <1>3, <1>5, <1>6 DEF Claim

LEMMA FinishRefundKeeps == ASSUME IInv, NEW p \in Pollers, FinishRefund(p) PROVE IInv'
<1>1. /\ poll[p].pc = "refund"
      /\ UNCHANGED <<proc, answer, today, counter, calls, charged, cache, row, jobs, terminal, metric, slips>>
      /\ refund' \in {refund, Queued(poll[p].owner, FALSE)}
  BY DEF FinishRefund, capVars
<1>2. Polling(p)
  BY DEF IInv
<1>3. CASE /\ refund' = Queued(poll[p].owner, FALSE) /\ UNCHANGED faults
           /\ poll' = [poll EXCEPT ![p].pc = "finish"]
  <2>1. PICK n \in Polls : /\ poll' = [poll EXCEPT ![p] = n] /\ poll'[p] = n
                           /\ n.pc = "finish" /\ n.job = poll[p].job
                           /\ n.owner = poll[p].owner /\ n.out = poll[p].out
    BY <1>3, PollMoves DEF IInv
  <2>2. PICK o \in Requests : o = poll[p].owner
    BY <1>1, <1>2 DEF Polling
  <2>3. refund'[o].state # "none"
    <3>1. refund' = Queued(o, FALSE)
      BY <1>3, <2>2
    <3>. QED BY <3>1, QueuedIs DEF IInv
  <2>4. Polling(p)'
    BY <1>1, <1>2, <2>1, <2>2, <2>3 DEF Polling, Ended, Slipped
  <2>5. \A i \in Jobs : Verdict(i)'
    BY <1>1, <2>1, VerdictsStay
  <2>. QED BY <1>1, <1>3, <2>1, <2>4, <2>5, PollerKeeps DEF IInv, TypeOK
<1>4. CASE poll' = [poll EXCEPT ![p] = Rest] /\ Fault(TRUE)
  <2>1. Polling(p)'
    BY <1>4, RestPolls DEF Polling, IInv, TypeOK
  <2>2. \A i \in Jobs : Verdict(i)'
    BY <1>1, <1>4, VerdictsStay
  <2>3. faults' \in Nat
    BY <1>4, FaultType DEF IInv
  <2>. QED BY <1>1, <1>4, <2>1, <2>2, <2>3, RestPolls, PollerKeeps DEF IInv, TypeOK
<1>. QED BY <1>3, <1>4 DEF FinishRefund

\* A job is over; a failed one has its request's refund queued by now.
LEMMA FinishKeeps == ASSUME IInv, NEW p \in Pollers, Finish(p) PROVE IInv'
<1>1. /\ poll[p].pc = "finish" /\ poll' = [poll EXCEPT ![p].pc = "metric"]
      /\ UNCHANGED <<proc, answer, today, counter, calls, charged, cache, row, refund, jobs, metric,
                     slips, faults>>
  BY DEF Finish, capVars
<1>2. Polling(p)
  BY DEF IInv
<1>3. PICK j \in Jobs : j = poll[p].job
  BY <1>1, <1>2 DEF Polling
<1>4. PICK n \in Polls : /\ poll' = [poll EXCEPT ![p] = n] /\ poll'[p] = n
                         /\ n.pc = "metric" /\ n.job = j
                         /\ n.owner = poll[p].owner /\ n.out = poll[p].out
  BY <1>1, <1>3, PollMoves DEF IInv
<1>5. /\ terminal' \in [Jobs -> [out : Ends, state : {"none", "processing", "done"}]]
      /\ terminal'[j].out = terminal[j].out
      /\ \A i \in Jobs \ {j} : terminal'[i] = terminal[i]
  <2>1. terminal' = [terminal EXCEPT ![j].state = "done"]
    BY <1>3 DEF Finish
  <2>. QED BY <2>1 DEF IInv, TypeOK
<1>6. Job(j)'
  <2>1. Job(j) /\ jobs[j] # Nobody /\ terminal[j].out = poll[p].out
    BY <1>1, <1>2, <1>3 DEF IInv, Polling
  <2>2. terminal'[j] = [out |-> "failed", state |-> "done"] => poll[p].out = "failed"
    BY <1>5, <2>1
  <2>3. poll[p].out = "failed" => refund[jobs[j]].state # "none" \/ Slipped(jobs[j], {"reused"})
    BY <1>1, <1>2, <1>3 DEF Polling
  <2>. QED BY <1>1, <2>1, <2>2, <2>3 DEF Job, Ended, Slipped
<1>7. Polling(p)'
  BY <1>1, <1>2, <1>3, <1>4 DEF Polling, Ended, Slipped
<1>8. \A i \in Jobs : Verdict(i)'
  <2>1. \A i \in Jobs : terminal'[i].state = "done" =>
           terminal[i].state = "done" \/ (n.job = i /\ n.pc = "metric")
    BY <1>4, <1>5
  <2>. QED BY <1>1, <1>4, <2>1, VerdictsStay
<1>9. \A i \in Jobs : terminal[i].out # "none" => terminal'[i].out = terminal[i].out
  BY <1>5
<1>10. \A i \in Jobs : terminal'[i] = terminal[i] \/ Job(i)'
  BY <1>5, <1>6
<1>11. metric' \in [Jobs -> {"none", "pending", "ok", "provider_fault"}] /\ faults' \in Nat
  BY <1>1 DEF IInv, TypeOK
<1>. QED BY <1>1, <1>4, <1>5, <1>7, <1>8, <1>9, <1>10, <1>11, PollerKeeps

LEMMA FinishMetricKeeps == ASSUME IInv, NEW p \in Pollers, FinishMetric(p) PROVE IInv'
<1>1. /\ poll[p].pc = "metric" /\ poll' = [poll EXCEPT ![p] = Rest]
      /\ UNCHANGED <<proc, answer, today, counter, calls, charged, cache, row, refund, jobs, terminal>>
  BY DEF FinishMetric, capVars
<1>2. PICK j \in Jobs : j = poll[p].job
  BY <1>1 DEF IInv, Polling
<1>3. poll'[p] = Rest /\ \A q \in Pollers \ {p} : poll'[q] = poll[q]
  BY <1>1 DEF IInv, TypeOK
<1>4. /\ metric' \in [Jobs -> {"none", "pending", "ok", "provider_fault"}]
      /\ \A i \in Jobs \ {j} : metric'[i] = metric[i]
      /\ metric'[j] # "pending" \/ <<"late", j>> \in slips'
      /\ slips \subseteq slips' /\ faults' \in Nat
  <2>1. CASE metric' = Resolve(poll[p].job, poll[p].out) /\ UNCHANGED <<slips, faults>>
    BY <1>2, <2>1 DEF IInv, TypeOK, Resolve
  <2>2. CASE Fault(TRUE) /\ Slip({<<"late", poll[p].job>>}) /\ UNCHANGED metric
    <3>1. faults' \in Nat
      BY <2>2, FaultType DEF IInv
    <3>. QED BY <1>2, <2>2, <3>1 DEF IInv, TypeOK, Slip
  <2>. QED BY <2>1, <2>2 DEF FinishMetric
<1>5. ASSUME NEW i \in Jobs PROVE Verdict(i)'
  <2>1. Verdict(i)
    BY DEF IInv
  <2>2. CASE i = j
    BY <1>4, <2>2 DEF Verdict
  <2>3. CASE i # j
    <3>1. ASSUME NEW q \in Pollers, poll[q].job = i PROVE poll'[q] = poll[q]
      BY <1>2, <1>3, <2>3, <3>1
    <3>. QED BY <1>1, <1>4, <2>1, <2>3, <3>1 DEF Verdict
  <2>. QED BY <2>2, <2>3
<1>6. Polling(p)'
  BY <1>3, RestPolls DEF Polling
<1>. QED BY <1>1, <1>4, <1>5, <1>6, RestPolls, PollerKeeps DEF IInv, TypeOK

-----------------------------------------------------------------------------
(* The invariant, and what follows from it.                                *)

LEMMA MidnightKeeps == ASSUME IInv, Midnight PROVE IInv'
<1>1. /\ today' = 2 /\ today' \in Days
      /\ UNCHANGED <<proc, answer, counter, calls, charged, cache, row, refund, jobs, terminal, metric,
                     poll, slips, faults>>
  BY DEF Midnight, capVars, jobVars, Days
<1>2. TypeOK'
  BY <1>1 DEF IInv, TypeOK
<1>3. Cap'
  <2>1. \A k \in Days : counter[k].day <= 2
    BY DEF IInv, TypeOK, Days
  <2>. QED BY <1>1, <2>1 DEF IInv, Cap, Slots
<1>4. \A r \in Requests : Req(r)'
  BY <1>1, ReqKept DEF IInv
<1>5. (\A j \in Jobs : Job(j)') /\ (\A p \in Pollers : Polling(p)')
  BY <1>1, JobsKept DEF IInv, Ended
<1>6. \A j \in Jobs : Verdict(j)'
  BY <1>1, VerdictsKept DEF IInv
<1>. QED BY <1>2, <1>3, <1>4, <1>5, <1>6 DEF IInv

LEMMA InitSound == Init => IInv
<1>. SUFFICES ASSUME Init PROVE IInv
  OBVIOUS
<1>1. TypeOK
  <2>1. Idle \in Locals
    BY DEF Idle, Locals, Pcs, Before, Days
  <2>2. Rest \in Polls
    BY RestPolls
  <2>3. [state |-> "none", order |-> FALSE] \in Entries
    BY DEF Entries
  <2>4. Open \in [out : Ends, state : {"none", "processing", "done"}]
    BY DEF Open, Ends
  <2>5. [day |-> 1, n |-> 0] \in [day : Days, n : Nat] /\ 1 \in Days
    BY DEF Days
  <2>. QED BY <2>1, <2>2, <2>3, <2>4, <2>5 DEF Init, TypeOK, Told
<1>2. Cap
  <2>1. \A k, d \in Days : Slots(k, d) = {}
    BY DEF Init, Slots
  <2>2. \A k \in Days : counter[k].day = 1 /\ counter[k].n = 0 /\ today = 1
    BY DEF Init
  <2>3. IsFiniteSet(calls) /\ Cardinality({}) = 0
    BY FS_EmptySet DEF Init
  <2>. QED BY <2>1, <2>2, <2>3, ChargeConstants DEF Cap
<1>3. ASSUME NEW r \in Requests PROVE Req(r)
  <2>1. /\ proc[r].pc = "idle" /\ ~proc[r].order /\ proc[r].todo = {} /\ r \notin charged
        /\ refund[r].state = "none" /\ ~refund[r].order /\ row[r] = "none"
    BY DEF Init, Idle
  <2>. QED BY <2>1 DEF Req, Ended
<1>4. ASSUME NEW j \in Jobs PROVE Job(j) /\ Verdict(j)
  <2>1. jobs[j] = Nobody /\ terminal[j].state = "none"
    BY DEF Init, Open
  <2>. QED BY <2>1 DEF Job, Verdict
<1>5. ASSUME NEW p \in Pollers PROVE Polling(p)
  BY RestPolls DEF Init, Polling
<1>. QED BY <1>1, <1>2, <1>3, <1>4, <1>5 DEF IInv

LEMMA StepsKeep == ASSUME IInv, NEW r \in Requests, Steps(r) PROVE IInv'
<1>1. CASE \/ Route(r) \/ Relay(r) \/ Classify(r) \/ Quote(r) \/ Preflight(r) \/ Prepare(r)
  BY <1>1, BeforeSteps
<1>2. CASE Peek(r)
  BY <1>2, PeekKeeps
<1>3. CASE Verify(r)
  BY <1>3, VerifyKeeps
<1>4. CASE Proof(r)
  BY <1>4, ProofKeeps
<1>5. CASE Lookup(r)
  BY <1>5, LookupKeeps
<1>6. CASE Consume(r)
  BY <1>6, ConsumeKeeps
<1>7. CASE Pay(r)
  BY <1>7, PayKeeps
<1>8. CASE Metric(r)
  BY <1>8, MetricKeeps
<1>9. CASE RecordFailed(r)
  BY <1>9, RecordFailedKeeps
<1>10. CASE Enqueue(r)
  BY <1>10, EnqueueKeeps
<1>11. CASE MarkUnknown(r)
  BY <1>11, MarkUnknownKeeps
<1>12. CASE AsyncRefund(r)
  BY <1>12, AsyncRefundKeeps
<1>13. CASE StoreJob(r)
  BY <1>13, StoreJobKeeps
<1>14. CASE Deliver(r)
  BY <1>14, DeliverKeeps
<1>15. CASE StoreAnswer(r) \/ RecordDelivered(r)
  BY <1>15, BackgroundKeeps
<1>. QED BY <1>1, <1>2, <1>3, <1>4, <1>5, <1>6, <1>7, <1>8, <1>9, <1>10, <1>11, <1>12, <1>13,
            <1>14, <1>15 DEF Steps

LEMMA StutterKeeps == ASSUME IInv, UNCHANGED vars PROVE IInv'
<1>1. UNCHANGED <<proc, answer, today, counter, calls, charged, cache, row, refund, jobs, terminal,
                  metric, poll, slips, faults>>
  BY DEF vars, capVars, jobVars
<1>2. TypeOK'
  BY <1>1 DEF IInv, TypeOK
<1>3. Cap' /\ \A j \in Jobs : Verdict(j)'
  BY <1>1, CapKept, VerdictsKept DEF IInv
<1>4. \A r \in Requests : Req(r)'
  BY <1>1, ReqKept DEF IInv
<1>5. (\A j \in Jobs : Job(j)') /\ (\A p \in Pollers : Polling(p)')
  BY <1>1, JobsKept DEF IInv, Ended
<1>. QED BY <1>2, <1>3, <1>4, <1>5 DEF IInv

LEMMA StepSound == IInv /\ [Next]_vars => IInv'
<1>. SUFFICES ASSUME IInv, [Next]_vars PROVE IInv'
  OBVIOUS
<1>1. ASSUME NEW r \in Requests, Steps(r) PROVE IInv'
  BY <1>1, StepsKeep
<1>2. ASSUME NEW r \in Requests, Die(r) PROVE IInv'
  BY <1>2, DieKeeps
<1>3. ASSUME NEW r \in Requests, ExecutorPays(r) PROVE IInv'
  BY <1>3, ExecutorPaysKeeps
<1>4. ASSUME NEW r \in Requests, ExecutorMarks(r) PROVE IInv'
  BY <1>4, ExecutorMarksKeeps
<1>5. ASSUME NEW p \in Pollers, NEW j \in Jobs, PayerPolls(p, j) \/ CronPolls(p, j) PROVE IInv'
  BY <1>5, PollAsKeeps DEF PayerPolls, CronPolls
<1>6. ASSUME NEW p \in Pollers, Claim(p) PROVE IInv'
  BY <1>6, ClaimKeeps
<1>7. ASSUME NEW p \in Pollers, FinishRefund(p) PROVE IInv'
  BY <1>7, FinishRefundKeeps
<1>8. ASSUME NEW p \in Pollers, Finish(p) PROVE IInv'
  BY <1>8, FinishKeeps
<1>9. ASSUME NEW p \in Pollers, FinishMetric(p) PROVE IInv'
  BY <1>9, FinishMetricKeeps
<1>10. CASE Midnight
  BY <1>10, MidnightKeeps
<1>11. CASE UNCHANGED vars
  BY <1>11, StutterKeeps
<1>. QED BY <1>1, <1>2, <1>3, <1>4, <1>5, <1>6, <1>7, <1>8, <1>9, <1>10, <1>11 DEF Next

\* Every reachable state of the charge path is one the invariant describes.
THEOREM Invariant == Spec => []IInv
BY InitSound, StepSound, PTL DEF Spec

\* Every variable of the charge path keeps its type.
THEOREM TypeCorrect == Spec => []TypeOK
<1>1. IInv => TypeOK
  BY DEF IInv
<1>. QED BY <1>1, Invariant, PTL

\* A settled charge whose request is over is delivered, refunded, reviewed or
\* kept as a job, and its row says what became of the refund.
THEOREM ChargeSettledHolds == Spec => []ChargeSettled
<1>1. IInv => ChargeAccounted
  <2>. SUFFICES ASSUME IInv, NEW r \in charged, Ended(r)
                PROVE  \/ answer[r] \in {"delivered", "cached", "review"}
                       \/ refund[r].state # "none"
                       \/ \E j \in Jobs : jobs[j] = r /\ terminal[j] # [out |-> "failed", state |-> "done"]
                       \/ Slipped(r, {"threw", "died", "unbound", "overwritten", "reused"})
    BY DEF ChargeAccounted
  <2>1. r \in Requests /\ Outcome(r)
    BY DEF IInv, TypeOK, Req
  <2>2. \A K \in SUBSET {"threw", "died", "unbound", "overwritten", "reused"} :
           Slipped(r, K) => Slipped(r, {"threw", "died", "unbound", "overwritten", "reused"})
    BY DEF Slipped
  <2>3. CASE \E j \in Jobs : jobs[j] = r
    <3>1. PICK j \in Jobs : jobs[j] = r
      BY <2>3
    <3>2. terminal[j] = [out |-> "failed", state |-> "done"] =>
             refund[r].state # "none" \/ Slipped(r, {"reused"})
      BY <3>1 DEF IInv, Job
    <3>. QED BY <2>2, <3>1, <3>2
  <2>4. CASE Slipped(r, {"overwritten"}) \/ Slipped(r, {"threw", "died", "unbound"})
    BY <2>2, <2>4
  <2>. QED BY <2>1, <2>3, <2>4 DEF Outcome
<1>2. IInv => RefundShown
  BY DEF IInv, RefundShown, Req, PendingRow
<1>3. IInv => ChargeSettled
  BY <1>1, <1>2 DEF ChargeSettled
<1>. QED BY <1>3, Invariant, PTL

\* No key of the daily cap gives out more than PerDay slots on a day, and a job
\* that is over has its verdict in the published metrics.
THEOREM ChargeLimitsHolds == Spec => []ChargeLimits
<1>1. IInv => CapPerDay
  BY DEF IInv, Cap, CapPerDay, Slots
<1>2. IInv => VerdictPublished
  BY DEF IInv, Verdict, VerdictPublished
<1>3. IInv => ChargeLimits
  BY <1>1, <1>2 DEF ChargeLimits
<1>. QED BY <1>3, Invariant, PTL

-----------------------------------------------------------------------------
(* Prepaid coupons.  Coupons is the instance.                              *)

LEMMA CouponsCardinality == \A S : Coupons!Cardinality(S) = Cardinality(S)
  BY DEF Coupons!Cardinality, Cardinality

LEMMA CouponsCardinalityType ==
    ASSUME NEW S, IsFiniteSet(S) PROVE Coupons!Cardinality(S) \in Nat
  BY CouponsCardinality, FS_CardinalityType

LEMMA CouponsEmptySet ==
    /\ Coupons!Cardinality({}) = 0
    /\ \A S : IsFiniteSet(S) => (Coupons!Cardinality(S) = 0 <=> S = {})
  BY CouponsCardinality, FS_EmptySet

LEMMA CouponsSingleton == \A x : Coupons!Cardinality({x}) = 1
  BY CouponsCardinality, FS_Singleton

LEMMA CouponsSubset ==
    ASSUME NEW S, IsFiniteSet(S), NEW T \in SUBSET S
    PROVE  IsFiniteSet(T) /\ Coupons!Cardinality(T) <= Coupons!Cardinality(S)
  BY CouponsCardinality, FS_Subset

LEMMA CouponsAddElement ==
    ASSUME NEW S, IsFiniteSet(S), NEW x, x \notin S
    PROVE  IsFiniteSet(S \cup {x}) /\ Coupons!Cardinality(S \cup {x}) = Coupons!Cardinality(S) + 1
  BY CouponsCardinality, FS_AddElement

LEMMA CouponsRemoveElement ==
    ASSUME NEW S, IsFiniteSet(S), NEW x \in S
    PROVE  IsFiniteSet(S \ {x}) /\ Coupons!Cardinality(S \ {x}) = Coupons!Cardinality(S) - 1
  BY CouponsCardinality, FS_RemoveElement

-----------------------------------------------------------------------------
(* Prepaid coupons: types.                                                 *)

LEMMA CouponsNothingNew == Coupons!Nothing \notin Coupons!Ops /\ Coupons!Nothing \notin Coupons!Codes
  BY DEF Coupons!Nothing, Coupons!Ops, Coupons!Codes

LEMMA CouponsKeyKinds ==
    /\ Coupons!IssueKey \in Coupons!Keys /\ Coupons!TopupKey \in Coupons!Keys
       /\ Coupons!IssueKey # Coupons!TopupKey
    /\ \A o \in Coupons!Ops : <<"unissue", o>> \in Coupons!Keys /\ <<"unissue", o>> # Coupons!IssueKey
    /\ \A c \in Coupons!Codes : <<"refund", c>> \in Coupons!Keys /\ <<"refund", c>> # Coupons!IssueKey
    /\ \A k \in Coupons!Keys : \/ k = Coupons!IssueKey \/ k = Coupons!TopupKey
                               \/ k[1] = "unissue" /\ k[2] \in Coupons!Ops /\ k = <<"unissue", k[2]>>
                               \/ k[1] = "refund" /\ k[2] \in Coupons!Codes /\ k = <<"refund", k[2]>>
    /\ Coupons!IssueKey[1] = "issue" /\ Coupons!TopupKey[1] = "topup"
  BY DEF Coupons!IssueKey, Coupons!TopupKey, Coupons!Keys

LEMMA CouponsTyped ==
    ASSUME Coupons!TypeOK, NEW p \in Requests
    PROVE  /\ couponsProc[p] \in Coupons!Locals /\ couponsProc[p].pc \in Coupons!Places
           /\ couponsProc[p].op \in Coupons!Ops \cup {Coupons!Nothing}
              /\ couponsProc[p].code \in Coupons!Codes \cup {Coupons!Nothing}
           /\ couponsProc[p].key \in Coupons!Keys
           /\ couponsProc[p].ret \in {"idle", "draw", "uncollide"}
           /\ couponsProc[p].fly \in Coupons!Codes \cup {Coupons!Nothing}
           /\ couponsProc[p].app \in Coupons!Codes \cup {Coupons!Nothing}
           /\ couponsProc[p].again \in BOOLEAN
  BY DEF Coupons!TypeOK, Coupons!Locals

LEMMA CouponsCouponTyped ==
    ASSUME Coupons!TypeOK, NEW c \in Coupons!Codes
    PROVE  /\ couponsCoupon[c] \in Coupons!Records /\ couponsCoupon[c].owed \in BOOLEAN
           /\ couponsCoupon[c].op \in Coupons!Ops \cup {Coupons!Nothing}
           /\ couponsCoupon[c].st \in Coupons!Over \cup {"absent", "issued", "tomb", "redeeming"}
  BY DEF Coupons!TypeOK, Coupons!Records

LEMMA CouponsIdleTyped ==
    /\ Coupons!Idle \in Coupons!Locals /\ Coupons!Idle.pc = "idle"
       /\ Coupons!Idle.op = Coupons!Nothing /\ Coupons!Idle.code = Coupons!Nothing
    /\ Coupons!Idle.key = Coupons!TopupKey /\ Coupons!Idle.ret = "idle"
       /\ Coupons!Idle.fly = Coupons!Nothing /\ Coupons!Idle.again = FALSE
<1>1. Coupons!TopupKey \in Coupons!Keys
  BY CouponsKeyKinds
<1>. QED BY <1>1 DEF Coupons!Idle, Coupons!Locals, Coupons!Places

\* What the invariant says.
LEMMA CouponsKnown ==
    ASSUME Coupons!IInv
    PROVE  /\ Coupons!TypeOK /\ Coupons!Paired /\ couponsDebited \subseteq couponsUsed
              /\ Coupons!Charged
           /\ \A i \in couponsPartner.issues : i[1] \in couponsDebited
           /\ \A p \in Requests : Coupons!Drawn(p) /\ Coupons!Fits(couponsProc[p])
           /\ \A o \in Coupons!Ops : Coupons!Backed(o)
           /\ \A c \in Coupons!Codes : Coupons!Kept(c)
  BY DEF Coupons!IInv

\* Only request p moves.
CouponsMoved(p) == /\ couponsProc' \in [Requests -> Coupons!Locals]
                   /\ \A q \in Requests \ {p} : couponsProc'[q] = couponsProc[q]

LEMMA CouponsBecomesMoves ==
    ASSUME Coupons!TypeOK, NEW p \in Requests, NEW r \in Coupons!Locals,
           couponsProc' = [couponsProc EXCEPT ![p] = r]
    PROVE  CouponsMoved(p) /\ couponsProc'[p] = r
  BY DEF Coupons!TypeOK, CouponsMoved

LEMMA CouponsGoMoves ==
    ASSUME Coupons!TypeOK, NEW p \in Requests, NEW l \in Coupons!Places, Coupons!Go(p, l)
    PROVE  /\ CouponsMoved(p)
           /\ l = "idle" => couponsProc'[p] = Coupons!Idle
           /\ l # "idle" => /\ couponsProc'[p].pc = l /\ couponsProc'[p].op = couponsProc[p].op
                               /\ couponsProc'[p].code = couponsProc[p].code
                            /\ couponsProc'[p].key = couponsProc[p].key
                               /\ couponsProc'[p].ret = couponsProc[p].ret
<1>. DEFINE h == IF l = "idle" THEN Coupons!Idle ELSE [couponsProc[p] EXCEPT !.pc = l]
<1>1. couponsProc[p] \in Coupons!Locals
  BY CouponsTyped
<1>2. /\ h \in Coupons!Locals
      /\ l = "idle" => h = Coupons!Idle
      /\ l # "idle" => /\ h.pc = l /\ h.op = couponsProc[p].op /\ h.code = couponsProc[p].code
                       /\ h.key = couponsProc[p].key /\ h.ret = couponsProc[p].ret
  <2>1. CASE l = "idle"
    BY <2>1, CouponsIdleTyped
  <2>2. CASE l # "idle"
    BY <1>1, <2>2 DEF Coupons!Locals, Coupons!Places
  <2>. QED BY <2>1, <2>2
<1>3. couponsProc' = [couponsProc EXCEPT ![p] = h]
  BY DEF Coupons!Go
<1>. HIDE DEF h
<1>. QED BY <1>2, <1>3, CouponsBecomesMoves

LEMMA CouponsLedgerMoves ==
    ASSUME Coupons!TypeOK, NEW p \in Requests, NEW k \in Coupons!Keys,
           NEW l \in {"idle", "uncollide"}, Coupons!Ledger(p, k, l)
    PROVE  /\ CouponsMoved(p) /\ couponsProc'[p].pc = "claim"
              /\ couponsProc'[p].op = couponsProc[p].op /\ couponsProc'[p].code = couponsProc[p].code
           /\ couponsProc'[p].key = k /\ couponsProc'[p].ret = l
<1>. DEFINE h == [couponsProc[p] EXCEPT !.pc = "claim", !.key = k, !.ret = l]
<1>1. couponsProc[p] \in [pc : Coupons!Places, op : Coupons!Ops \cup {Coupons!Nothing},
                   code : Coupons!Codes \cup {Coupons!Nothing}, key : Coupons!Keys,
                   ret : {"idle", "draw", "uncollide"},
                   app : Coupons!Codes \cup {Coupons!Nothing},
                   fly : Coupons!Codes \cup {Coupons!Nothing}, again : BOOLEAN]
  BY CouponsTyped DEF Coupons!Locals
<1>2. h \in Coupons!Locals /\ h.pc = "claim" /\ h.op = couponsProc[p].op
      /\ h.code = couponsProc[p].code /\ h.key = k /\ h.ret = l
  BY <1>1 DEF Coupons!Locals, Coupons!Places, Coupons!Booking
<1>3. couponsProc' = [couponsProc EXCEPT ![p] = h]
  BY DEF Coupons!Ledger
<1>. HIDE DEF h
<1>. QED BY <1>2, <1>3, CouponsBecomesMoves

-----------------------------------------------------------------------------
(* What a step of request p leaves to the others.                          *)

CouponsWaits(c) == c \in couponsPartner.refunds \/ couponsDropped \/ couponsCoupon[c].owed

CouponsFrame(p) ==
    /\ CouponsMoved(p) /\ couponsUsed \subseteq couponsUsed' /\ couponsDebited \subseteq couponsDebited'
    /\ \A c \in Coupons!Codes : couponsCoupon[c].st # "absent" =>
          /\ couponsCoupon'[c].op = couponsCoupon[c].op /\ couponsCoupon'[c].st # "absent"
          /\ couponsCoupon'[c].st = "tomb" <=> couponsCoupon[c].st = "tomb"
          /\ couponsCoupon[c].owed => couponsCoupon'[c].owed
    /\ \A c \in Coupons!Codes : couponsCoupon[c].st = "absent"
       /\ couponsCoupon'[c] # couponsCoupon[c] =>
          /\ couponsCoupon'[c].op = couponsProc[p].op /\ couponsProc[p].code = c
          /\ couponsCoupon'[c].st = "tomb" \/ (Coupons!Drawing(p) /\ ~Coupons!Drawing(p)')
    /\ \A o \in Coupons!Ops, c \in Coupons!Codes : <<o, c>> \in couponsPartner'.issues
       => Coupons!Pair(o, c)
    /\ \/ couponsProc'[p].op = Coupons!Nothing /\ ~Coupons!Drawing(p)'
       \/ /\ Coupons!Pair(couponsProc'[p].op, couponsProc'[p].code)
          /\ Coupons!Drawing(p)' => Coupons!Drawing(p) /\ couponsProc'[p].op = couponsProc[p].op
             /\ couponsProc'[p].code = couponsProc[p].code
       \/ /\ couponsProc'[p].op \in Coupons!Ops \ couponsUsed /\ couponsProc'[p].op \in couponsUsed'
             /\ couponsProc'[p].code \in Coupons!Codes
          /\ UNCHANGED <<couponsPartner, couponsCoupon>>
    /\ \A q \in Requests \ {p} : couponsProc[q].pc = "flip" /\ CouponsWaits(couponsProc[q].code)
       => CouponsWaits(couponsProc[q].code)'

LEMMA CouponsOpsKnown ==
    ASSUME Coupons!IInv, NEW c \in Coupons!Codes
    PROVE  /\ couponsCoupon[c].st = "absent" => couponsCoupon[c].op = Coupons!Nothing
              /\ ~couponsCoupon[c].owed
           /\ couponsCoupon[c].st # "absent" => couponsCoupon[c].op \in couponsDebited
              /\ couponsCoupon[c].op \in Coupons!Ops
  BY CouponsKnown DEF Coupons!Kept, Coupons!TypeOK

\* The pairs of operations and codes: old ones, and one of a fresh operation.
LEMMA CouponsPairsKeep ==
    ASSUME Coupons!IInv, NEW p \in Requests, CouponsFrame(p)
    PROVE  Coupons!Paired'
<1>1. Coupons!Paired /\ Coupons!TypeOK /\ couponsUsed \subseteq couponsUsed' /\ CouponsMoved(p)
  BY CouponsKnown DEF CouponsFrame
<1>2. ASSUME NEW o \in Coupons!Ops, NEW c \in Coupons!Codes, Coupons!Pair(o, c)'
      PROVE  Coupons!Pair(o, c) \/ (/\ couponsProc'[p].op = o /\ couponsProc'[p].code = c
                                       /\ o \notin couponsUsed /\ o \in couponsUsed'
                                    /\ UNCHANGED <<couponsPartner, couponsCoupon>>)
  <2>1. CASE <<o, c>> \in couponsPartner'.issues
    BY <2>1 DEF CouponsFrame
  <2>2. CASE couponsCoupon'[c].op = o
    <3>1. CASE couponsCoupon'[c].op = couponsCoupon[c].op
      BY <2>2, <3>1 DEF Coupons!Pair
    <3>2. CASE couponsCoupon'[c].op # couponsCoupon[c].op
      <4>1. couponsCoupon[c].st = "absent" /\ couponsCoupon'[c] # couponsCoupon[c]
        BY <3>2 DEF CouponsFrame
      <4>2. couponsProc[p].op = o /\ couponsProc[p].code = c
        BY <2>2, <4>1 DEF CouponsFrame
      <4>. QED BY <4>2 DEF Coupons!Pair
    <3>. QED BY <3>1, <3>2
  <2>3. CASE \E q \in Requests : couponsProc'[q].op = o /\ couponsProc'[q].code = c
    <3>1. PICK q \in Requests : couponsProc'[q].op = o /\ couponsProc'[q].code = c
      BY <2>3
    <3>2. CASE q # p
      BY <1>1, <3>1, <3>2 DEF Coupons!Pair, CouponsMoved
    <3>3. CASE q = p
      <4>1. o # Coupons!Nothing
        BY CouponsNothingNew
      <4>. QED BY <3>1, <3>3, <4>1 DEF CouponsFrame
    <3>. QED BY <3>2, <3>3
  <2>. QED BY <1>2, <2>1, <2>2, <2>3 DEF Coupons!Pair
<1>3. \A o \in Coupons!Ops, c \in Coupons!Codes : Coupons!Pair(o, c) => o \in couponsUsed
      /\ \A d \in Coupons!Codes : Coupons!Pair(o, d) => c = d
  BY <1>1 DEF Coupons!Paired
<1>4. ASSUME NEW o \in Coupons!Ops, NEW c \in Coupons!Codes,
Coupons!Pair(o, c)' PROVE o \in couponsUsed'
  BY <1>1, <1>2, <1>3, <1>4
<1>5. ASSUME NEW o \in Coupons!Ops, NEW c \in Coupons!Codes, NEW d \in Coupons!Codes,
Coupons!Pair(o, c)', Coupons!Pair(o, d)' PROVE c = d
  BY <1>2, <1>3, <1>5
<1>. QED BY <1>4, <1>5 DEF Coupons!Paired

LEMMA CouponsDrawingPairs ==
    ASSUME Coupons!IInv, NEW q \in Requests, Coupons!Drawing(q)
    PROVE  couponsProc[q].op \in Coupons!Ops /\ couponsProc[q].code \in Coupons!Codes
           /\ Coupons!Pair(couponsProc[q].op, couponsProc[q].code) /\ couponsProc[q].op \in couponsUsed
<1>1. Coupons!Drawn(q) /\ Coupons!Paired
  BY CouponsKnown
<1>2. couponsProc[q].op \in Coupons!Ops /\ couponsProc[q].code \in Coupons!Codes
  BY <1>1 DEF Coupons!Drawn
<1>3. Coupons!Pair(couponsProc[q].op, couponsProc[q].code)
  BY DEF Coupons!Pair
<1>. QED BY <1>1, <1>2, <1>3 DEF Coupons!Paired

\* A new coupon of an operation is the work of the request that drew it.
LEMMA CouponsNewCoupon ==
    ASSUME Coupons!IInv, NEW p \in Requests, CouponsFrame(p), NEW c \in Coupons!Codes,
           NEW o \in Coupons!Ops, couponsCoupon'[c].op = o
    PROVE  \/ couponsCoupon[c].op = o
              /\ (couponsCoupon'[c].st = "tomb" <=> couponsCoupon[c].st = "tomb")
                 /\ couponsCoupon[c].st # "absent"
           \/ couponsCoupon'[c].st = "tomb"
           \/ Coupons!Drawing(p) /\ ~Coupons!Drawing(p)' /\ couponsProc[p].op = o
              /\ couponsProc[p].code = c /\ couponsCoupon[c].st = "absent"
<1>1. CASE couponsCoupon[c].st # "absent"
  BY <1>1 DEF CouponsFrame
<1>2. CASE couponsCoupon[c].st = "absent"
  <2>1. couponsCoupon[c].op # o
    BY <1>2, CouponsOpsKnown, CouponsNothingNew
  <2>. QED BY <1>2, <2>1 DEF CouponsFrame
<1>. QED BY <1>1, <1>2

LEMMA CouponsDeadStays ==
    ASSUME Coupons!IInv, NEW p \in Requests, CouponsFrame(p), NEW o \in Coupons!Ops,
           o \in couponsDebited, Coupons!Dead(o)
    PROVE  Coupons!Dead(o)'
<1>1. o \in couponsUsed /\ CouponsMoved(p)
  BY CouponsKnown DEF CouponsFrame
<1>2. ASSUME NEW c \in Coupons!Codes, couponsCoupon'[c].op = o PROVE couponsCoupon'[c].st = "tomb"
  <2>1. CASE Coupons!Drawing(p) /\ ~Coupons!Drawing(p)' /\ couponsProc[p].op = o
             /\ couponsProc[p].code = c /\ couponsCoupon[c].st = "absent"
    BY <2>1 DEF Coupons!Dead
  <2>. QED BY <1>2, <2>1, CouponsNewCoupon DEF Coupons!Dead, Coupons!Tomb
<1>3. ASSUME NEW q \in Requests, Coupons!Drawing(q)',
couponsProc'[q].op = o PROVE couponsCoupon'[couponsProc'[q].code].st # "absent"
  <2>1. Coupons!Drawing(q) /\ couponsProc[q].op = o /\ couponsProc'[q].code = couponsProc[q].code
    <3>1. CASE q # p
      BY <1>1, <1>3, <3>1 DEF CouponsMoved, Coupons!Drawing
    <3>2. CASE q = p
      <4>1. o # Coupons!Nothing
        BY CouponsNothingNew
      <4>. QED BY <1>1, <1>3, <3>2, <4>1 DEF CouponsFrame
    <3>. QED BY <3>1, <3>2
  <2>2. couponsCoupon[couponsProc[q].code].st # "absent" /\ couponsProc[q].code \in Coupons!Codes
    BY <2>1, CouponsDrawingPairs DEF Coupons!Dead
  <2>. QED BY <2>1, <2>2 DEF CouponsFrame
<1>. QED BY <1>2, <1>3 DEF Coupons!Dead, Coupons!Tomb

LEMMA CouponsDrawnKeep ==
    ASSUME Coupons!IInv, NEW p \in Requests, CouponsFrame(p), NEW q \in Requests
    PROVE  Coupons!Drawn(q)'
<1>. SUFFICES ASSUME Coupons!Drawing(q)'
     PROVE  /\ couponsProc'[q].op \in Coupons!Ops /\ couponsProc'[q].code \in Coupons!Codes
            /\ \A c \in Coupons!Codes : couponsCoupon'[c].op = couponsProc'[q].op
               => couponsCoupon'[c].st = "tomb"
            /\ \A r \in Requests : Coupons!Drawing(r)' /\ couponsProc'[r].op = couponsProc'[q].op
               => r = q
  BY DEF Coupons!Drawn, Coupons!Tomb
<1>1. CouponsMoved(p) /\ \A r \in Requests : Coupons!Drawn(r)
  BY CouponsKnown DEF CouponsFrame
<1>2. ASSUME NEW r \in Requests, Coupons!Drawing(r)'
      PROVE  \/ Coupons!Drawing(r) /\ couponsProc'[r].op = couponsProc[r].op
                /\ couponsProc'[r].code = couponsProc[r].code
             \/ /\ r = p /\ couponsProc'[r].op \in Coupons!Ops \ couponsUsed
                   /\ couponsProc'[r].code \in Coupons!Codes
                /\ UNCHANGED couponsCoupon
  <2>1. CASE r # p
    BY <1>1, <1>2, <2>1 DEF CouponsMoved, Coupons!Drawing
  <2>2. CASE r = p
    BY <1>2, <2>2 DEF CouponsFrame
  <2>. QED BY <2>1, <2>2
<1>3. couponsProc'[q].op \in Coupons!Ops /\ couponsProc'[q].code \in Coupons!Codes
  BY <1>2, CouponsDrawingPairs
<1>4. ASSUME NEW c \in Coupons!Codes,
couponsCoupon'[c].op = couponsProc'[q].op PROVE couponsCoupon'[c].st = "tomb"
  <2>1. CASE Coupons!Drawing(q) /\ couponsProc'[q].op = couponsProc[q].op
    <3>1. couponsCoupon[c].op = couponsProc[q].op => couponsCoupon[c].st = "tomb"
      BY <1>1, <2>1 DEF Coupons!Drawn, Coupons!Tomb
    <3>2. PICK o \in Coupons!Ops : o = couponsProc[q].op
      BY <2>1, CouponsDrawingPairs
    <3>3. ~(Coupons!Drawing(p) /\ ~Coupons!Drawing(p)' /\ couponsProc[p].op = o)
      BY <1>1, <2>1, <3>2 DEF Coupons!Drawn
    <3>. QED BY <1>4, <2>1, <3>1, <3>2, <3>3, CouponsNewCoupon
  <2>2. CASE q = p /\ couponsProc'[q].op \in Coupons!Ops \ couponsUsed /\ UNCHANGED couponsCoupon
    <3>1. couponsCoupon[c].op \in Coupons!Ops /\ Coupons!Pair(couponsCoupon[c].op, c)
          /\ couponsCoupon[c].op \notin couponsUsed
      BY <1>4, <2>2 DEF Coupons!Pair
    <3>. QED BY <3>1, CouponsKnown DEF Coupons!Paired
  <2>. QED BY <1>2, <2>1, <2>2
<1>5. ASSUME NEW r \in Requests, Coupons!Drawing(r)',
couponsProc'[r].op = couponsProc'[q].op PROVE r = q
  <2>1. CASE Coupons!Drawing(r) /\ couponsProc'[r].op = couponsProc[r].op /\ Coupons!Drawing(q)
             /\ couponsProc'[q].op = couponsProc[q].op
    BY <1>1, <1>5, <2>1 DEF Coupons!Drawn
  <2>2. CASE r = p /\ couponsProc'[r].op \notin couponsUsed
    BY <1>2, <1>5, <2>2, CouponsDrawingPairs
  <2>3. CASE q = p /\ couponsProc'[q].op \notin couponsUsed
    BY <1>2, <1>5, <2>3, CouponsDrawingPairs
  <2>. QED BY <1>2, <1>5, <2>1, <2>2, <2>3
<1>. QED BY <1>3, <1>4, <1>5

LEMMA CouponsOursStays ==
    ASSUME NEW p \in Requests, CouponsFrame(p), Coupons!IInv, NEW c \in Coupons!Codes,
           NEW o \in Coupons!Ops, Coupons!Ours(c, o)
    PROVE  Coupons!Ours(c, o)'
<1>1. couponsCoupon[c].op = o /\ couponsCoupon[c].st # "tomb" /\ couponsCoupon[c].st # "absent"
  BY CouponsOpsKnown, CouponsNothingNew DEF Coupons!Ours, Coupons!Tomb
<1>. QED BY <1>1 DEF Coupons!Ours, Coupons!Tomb, CouponsFrame

LEMMA CouponsFitsStays ==
    ASSUME Coupons!IInv, NEW p \in Requests, CouponsFrame(p), NEW l, l.key \in Coupons!Keys,
           Coupons!Fits(l),
           l.pc = "flip" => CouponsWaits(l.code)'
    PROVE  Coupons!Fits(l)'
<1>1. couponsDebited \subseteq couponsDebited' /\ couponsDebited \subseteq Coupons!Ops
  BY CouponsKnown DEF CouponsFrame, Coupons!TypeOK
<1>2. \A o \in couponsDebited : Coupons!Dead(o) => Coupons!Dead(o)'
  BY <1>1, CouponsDeadStays
<1>3. \A c \in Coupons!Codes : couponsCoupon[c].owed => couponsCoupon'[c].owed
  BY CouponsOpsKnown DEF CouponsFrame
<1>4. l.pc = "confirm" => Coupons!Ours(l.code, l.op)'
  BY <1>1, CouponsOursStays DEF Coupons!Fits, Coupons!Making
<1>5. l.pc \in {"collided", "unissue"} => Coupons!Dead(l.op)'
  BY <1>1, <1>2 DEF Coupons!Fits, Coupons!Making
<1>6. l.pc \in Coupons!Booking /\ l.key[1] = "unissue" => l.key[2] \in couponsDebited'
      /\ Coupons!Dead(l.key[2])'
  BY <1>1, <1>2 DEF Coupons!Fits
<1>7. l.pc \in Coupons!Booking /\ l.key[1] = "refund" => couponsCoupon'[l.key[2]].owed
  <2>1. l.key[1] = "refund" => l.key[2] \in Coupons!Codes
    BY CouponsKeyKinds
  <2>. QED BY <1>3, <2>1 DEF Coupons!Fits
<1>. QED BY <1>1, <1>4, <1>5, <1>6, <1>7 DEF Coupons!Fits, CouponsWaits

LEMMA CouponsFitsKeep ==
    ASSUME Coupons!IInv, NEW p \in Requests, CouponsFrame(p), NEW q \in Requests, q # p
    PROVE  Coupons!Fits(couponsProc[q])'
<1>1. couponsProc'[q] = couponsProc[q] /\ Coupons!Fits(couponsProc[q]) /\ Coupons!TypeOK
  BY CouponsKnown DEF CouponsFrame, CouponsMoved
<1>2. PICK l : l = couponsProc[q]
  OBVIOUS
<1>3. l.key \in Coupons!Keys /\ Coupons!Fits(l)
  BY <1>1, <1>2, CouponsTyped
<1>4. l.pc = "flip" => CouponsWaits(l.code)
  BY <1>3 DEF Coupons!Fits, CouponsWaits
<1>5. l.pc = "flip" => CouponsWaits(l.code)'
  <2>1. couponsProc[q].pc = "flip" => CouponsWaits(couponsProc[q].code)'
    BY <1>2, <1>4 DEF CouponsFrame
  <2>. QED BY <1>1, <1>2, <2>1 DEF CouponsWaits
<1>6. Coupons!Fits(l)'
  BY <1>3, <1>5, CouponsFitsStays
<1>. QED BY <1>1, <1>2, <1>6

\* What is left to show for a step.
LEMMA CouponsKeeps ==
    ASSUME Coupons!IInv, Coupons!TypeOK', NEW p \in Requests, CouponsFrame(p),
           Coupons!Fits(couponsProc[p])', couponsDebited' \subseteq couponsUsed',
           \A i \in couponsPartner'.issues : i[1] \in couponsDebited',
           \A o \in Coupons!Ops : Coupons!Backed(o)', \A c \in Coupons!Codes : Coupons!Kept(c)',
           Coupons!Charged'
    PROVE  Coupons!IInv'
<1>1. \A q \in Requests : Coupons!Fits(couponsProc[q])'
  BY CouponsFitsKeep
<1>2. \A q \in Requests : Coupons!Drawn(q)'
  BY CouponsDrawnKeep
<1>. QED BY <1>1, <1>2, CouponsPairsKeep DEF Coupons!IInv

\* A coupon that a step leaves alone.
LEMMA CouponsKeptStays ==
    ASSUME Coupons!IInv, NEW c \in Coupons!Codes, couponsCoupon'[c] = couponsCoupon[c],
           couponsPaid'[c] = couponsPaid[c], couponsFreed'[c] = couponsFreed[c],
           Coupons!Pays(c)' \subseteq Coupons!Pays(c), couponsDebited \subseteq couponsDebited',
           couponsDropped => couponsDropped',
           <<"refund", c>> \in couponsPartner'.applied => <<"refund", c>> \in couponsPartner.applied
           \/ couponsCoupon[c].owed,
           couponsCoupon[c].owed /\ couponsCredits'[couponsCoupon[c].op] = 0 =>
              couponsCredits[couponsCoupon[c].op] = 0
              /\ (c \in couponsPartner.refunds => c \in couponsPartner'.refunds \/ couponsDropped')
    PROVE  Coupons!Kept(c)'
<1>1. Coupons!Kept(c) /\ IsFiniteSet(Coupons!Pays(c)) /\ couponsPaid[c] \in Nat
      /\ couponsFreed[c] \in Nat
  <2>1. Coupons!Pays(c) \in SUBSET Requests
    BY DEF Coupons!Pays
  <2>2. IsFiniteSet(Coupons!Pays(c))
    BY <2>1, CouponConstants, CouponsSubset
  <2>. QED BY <2>2, CouponsKnown DEF Coupons!TypeOK
<1>2. PICK S : S = Coupons!Pays(c)'
  OBVIOUS
<1>3. IsFiniteSet(S) /\ Coupons!Cardinality(S) <= Coupons!Cardinality(Coupons!Pays(c))
      /\ S \subseteq Coupons!Pays(c)
  BY <1>1, <1>2, CouponsSubset
<1>4. Coupons!Cardinality(S) \in Nat /\ Coupons!Cardinality(Coupons!Pays(c)) \in Nat
  BY <1>1, <1>3, CouponsCardinalityType
<1>5. couponsPaid'[c] + Coupons!Cardinality(S) <= couponsFreed'[c]
      + (IF couponsCoupon'[c].st \in Coupons!Over THEN 1 ELSE 0)
  BY <1>1, <1>3, <1>4 DEF Coupons!Kept
<1>. QED BY <1>1, <1>2, <1>3, <1>5 DEF Coupons!Kept

LEMMA CouponsBackedStays ==
    ASSUME Coupons!IInv, NEW p \in Requests, CouponsFrame(p), NEW o \in Coupons!Ops,
           couponsCredits'[o] = couponsCredits[o],
           o \in couponsDebited' => o \in couponsDebited,
           <<"unissue", o>> \in couponsPartner'.applied <=> <<"unissue", o>> \in couponsPartner.applied,
           \A c \in Coupons!Codes : <<"refund", c>> \in couponsPartner.applied
           => <<"refund", c>> \in couponsPartner'.applied,
           \A i \in couponsPartner.issues : i[1] = o => i \in couponsPartner'.issues
           \/ \E c \in Coupons!Codes : Coupons!Ours(c, o)
    PROVE  Coupons!Backed(o)'
<1>1. Coupons!Backed(o) /\ couponsDebited \subseteq couponsDebited'
      /\ \A c \in Coupons!Codes : Coupons!Kept(c)
  BY CouponsKnown DEF CouponsFrame
<1>2. \A c \in Coupons!Codes : <<"refund", c>> \in couponsPartner.applied
      => couponsCoupon'[c].op = couponsCoupon[c].op
  BY <1>1 DEF Coupons!Kept, CouponsFrame
<1>3. \A c \in Coupons!Codes : Coupons!Ours(c, o) => Coupons!Ours(c, o)'
  BY CouponsOursStays
<1>4. <<"unissue", o>> \in couponsPartner'.applied => o \in couponsDebited' /\ Coupons!Dead(o)'
  BY <1>1, CouponsDeadStays DEF Coupons!Backed
<1>5. o \in couponsDebited' /\ couponsCredits'[o] = 0 => \/ \E i \in couponsPartner'.issues : i[1] = o
                                                         \/ \E c \in Coupons!Codes : Coupons!Ours(c, o)'
  BY <1>1, <1>3 DEF Coupons!Backed
<1>6. couponsCredits'[o] <= 1 /\ (couponsCredits'[o] > 0 => /\ o \in couponsDebited'
                         /\ \/ <<"unissue", o>> \in couponsPartner'.applied
                            \/ \E c \in Coupons!Codes : <<"refund", c>> \in couponsPartner'.applied
                               /\ couponsCoupon'[c].op = o)
  BY <1>1, <1>2 DEF Coupons!Backed
<1>. QED BY <1>4, <1>5, <1>6 DEF Coupons!Backed

\* Steps that change nothing but what the request remembers.
CouponsLocalStep(p) ==
    /\ CouponsMoved(p)
       /\ UNCHANGED <<couponsPartner, couponsCoupon, couponsDebited, couponsCredits, couponsPaid,
                      couponsFreed, couponsDropped>>
    /\ couponsUsed \subseteq couponsUsed' /\ (couponsLoose => couponsLoose')
       /\ couponsProc'[p].pc \notin {"pay", "flip"}
    /\ Coupons!Fits(couponsProc'[p])
    /\ \/ couponsProc'[p].op = Coupons!Nothing /\ ~Coupons!Drawing(p)'
       \/ /\ Coupons!Pair(couponsProc'[p].op, couponsProc'[p].code)
          /\ Coupons!Drawing(p)' => Coupons!Drawing(p) /\ couponsProc'[p].op = couponsProc[p].op
             /\ couponsProc'[p].code = couponsProc[p].code
       \/ couponsProc'[p].op \in Coupons!Ops \ couponsUsed /\ couponsProc'[p].op \in couponsUsed'
          /\ couponsProc'[p].code \in Coupons!Codes

LEMMA CouponsLocalKeeps ==
    ASSUME Coupons!IInv, Coupons!TypeOK', NEW p \in Requests, CouponsLocalStep(p)
    PROVE  Coupons!IInv'
<1>1. /\ CouponsMoved(p)
         /\ UNCHANGED <<couponsPartner, couponsCoupon, couponsDebited, couponsCredits, couponsPaid,
                        couponsFreed, couponsDropped>>
      /\ couponsUsed \subseteq couponsUsed' /\ (couponsLoose => couponsLoose')
         /\ couponsProc'[p].pc \notin {"pay", "flip"}
      /\ Coupons!TypeOK
  BY CouponsKnown DEF CouponsLocalStep
<1>2. CouponsFrame(p)
  <2>1. \A o \in Coupons!Ops, c \in Coupons!Codes : <<o, c>> \in couponsPartner'.issues
        => Coupons!Pair(o, c)
    BY <1>1 DEF Coupons!Pair
  <2>2. \A q \in Requests \ {p} : CouponsWaits(couponsProc[q].code)
        => CouponsWaits(couponsProc[q].code)'
    BY <1>1 DEF CouponsWaits, CouponsMoved
  <2>. QED BY <1>1, <2>1, <2>2 DEF CouponsFrame, CouponsLocalStep
<1>3. PICK l : l = couponsProc'[p]
  OBVIOUS
<1>4. l.key \in Coupons!Keys /\ Coupons!Fits(l) /\ l.pc # "flip"
  BY <1>1, <1>3 DEF CouponsLocalStep, CouponsMoved, Coupons!Locals
<1>5. Coupons!Fits(l)'
  BY <1>2, <1>4, CouponsFitsStays
<1>6. Coupons!Fits(couponsProc[p])'
  BY <1>3, <1>5
<1>7. \A c \in Coupons!Codes : Coupons!Pays(c)' \subseteq Coupons!Pays(c)
  BY <1>1 DEF Coupons!Pays, Coupons!At, CouponsMoved
<1>8. \A c \in Coupons!Codes : Coupons!Kept(c)'
  BY <1>1, <1>7, CouponsKeptStays
<1>9. \A o \in Coupons!Ops : Coupons!Backed(o)'
  BY <1>1, <1>2, CouponsBackedStays
<1>10. Coupons!Charged'
  BY <1>1, CouponsKnown DEF Coupons!Charged, Coupons!Live
<1>11. couponsDebited' \subseteq couponsUsed'
       /\ \A i \in couponsPartner'.issues : i[1] \in couponsDebited'
  BY <1>1, CouponsKnown
<1>. QED BY <1>2, <1>6, <1>8, <1>9, <1>10, <1>11, CouponsKeeps
-----------------------------------------------------------------------------
(* Steps of one request that change only its locals and idempotency keys.  *)

LEMMA CouponsLocalTypes ==
    ASSUME Coupons!TypeOK, NEW p \in Requests, CouponsMoved(p),
           UNCHANGED <<couponsPartner, couponsCoupon, couponsDebited, couponsCredits, couponsPaid,
                       couponsFreed, couponsDropped>>,
           couponsIdem' \in [Coupons!Keys -> Coupons!Claims], couponsUsed' \subseteq Coupons!Ops,
           couponsLoose' \in BOOLEAN,
           couponsLeft' \in [{"ask", "admin", "fault"} -> Nat]
    PROVE  Coupons!TypeOK'
  BY DEF Coupons!TypeOK, CouponsMoved

\* The variables a local step leaves.
CouponsQuiet == UNCHANGED <<couponsPartner, couponsCoupon, couponsIdem, couponsUsed, couponsDebited,
                            couponsCredits, couponsPaid, couponsFreed, couponsLoose, couponsDropped,
                            couponsLeft>>

LEMMA CouponsQuietKeeps ==
    ASSUME Coupons!IInv, NEW p \in Requests, CouponsQuiet, CouponsMoved(p),
           couponsProc'[p].pc \notin {"pay", "flip"}, Coupons!Fits(couponsProc'[p]),
           \/ couponsProc'[p].op = Coupons!Nothing /\ ~Coupons!Drawing(p)'
           \/ /\ Coupons!Pair(couponsProc'[p].op, couponsProc'[p].code)
              /\ Coupons!Drawing(p)' => Coupons!Drawing(p) /\ couponsProc'[p].op = couponsProc[p].op
                 /\ couponsProc'[p].code = couponsProc[p].code
    PROVE  Coupons!IInv'
<1>1. Coupons!TypeOK
  BY CouponsKnown
<1>2. Coupons!TypeOK'
  BY <1>1, CouponsLocalTypes DEF Coupons!TypeOK, CouponsQuiet
<1>3. CouponsLocalStep(p)
  BY DEF CouponsLocalStep, CouponsQuiet
<1>. QED BY <1>2, <1>3, CouponsLocalKeeps

LEMMA CouponsFreshFits ==
    ASSUME NEW l, l.pc \in {"idle", "find", "found", "release", "forget", "draw", "uncollide"},
           l.pc \in {"idle", "find", "found"} => l.op = Coupons!Nothing
    PROVE  Coupons!Fits(l)
  BY DEF Coupons!Fits, Coupons!Making, Coupons!Booking, Coupons!Spending

\* A request that starts afresh at l.
LEMMA CouponsFreshMoves ==
    ASSUME Coupons!IInv, NEW p \in Requests, NEW r \in Coupons!Locals,
           couponsProc' = [couponsProc EXCEPT ![p] = r],
           r.pc \in {"idle", "find", "release", "draw"}, r.op = Coupons!Nothing
    PROVE  /\ CouponsMoved(p) /\ couponsProc'[p].pc \notin {"pay", "flip"}
              /\ Coupons!Fits(couponsProc'[p])
           /\ couponsProc'[p].op = Coupons!Nothing /\ ~Coupons!Drawing(p)'
<1>1. Coupons!TypeOK
  BY CouponsKnown
<1>2. CouponsMoved(p) /\ couponsProc'[p] = r
  BY <1>1, CouponsBecomesMoves
<1>3. Coupons!Fits(r)
  BY CouponsFreshFits
<1>4. ~Coupons!Drawing(p)'
  BY <1>2 DEF Coupons!Drawing, Coupons!Booking
<1>. QED BY <1>2, <1>3, <1>4

\* On to l with the same operation and code.
LEMMA CouponsOnMoves ==
    ASSUME Coupons!IInv, NEW p \in Requests, NEW l \in Coupons!Places, Coupons!Go(p, l),
           l \notin {"pay", "flip", "find", "found"},
           l \in Coupons!Booking \cup {"create"} => Coupons!Drawing(p)
           \/ couponsProc[p].key # Coupons!IssueKey,
           \A r \in Coupons!Locals : r.pc = l /\ r.op = couponsProc[p].op
           /\ r.code = couponsProc[p].code /\ r.key = couponsProc[p].key
                /\ l # "idle" => Coupons!Fits(r)
    PROVE  /\ CouponsMoved(p) /\ couponsProc'[p].pc \notin {"pay", "flip"}
              /\ Coupons!Fits(couponsProc'[p])
           /\ \/ couponsProc'[p].op = Coupons!Nothing /\ ~Coupons!Drawing(p)'
              \/ /\ Coupons!Pair(couponsProc'[p].op, couponsProc'[p].code)
                 /\ Coupons!Drawing(p)' => Coupons!Drawing(p)
                    /\ couponsProc'[p].op = couponsProc[p].op
                       /\ couponsProc'[p].code = couponsProc[p].code
<1>1. Coupons!TypeOK
  BY CouponsKnown
<1>2. /\ CouponsMoved(p)
      /\ l = "idle" => couponsProc'[p] = Coupons!Idle
      /\ l # "idle" => /\ couponsProc'[p].pc = l /\ couponsProc'[p].op = couponsProc[p].op
                          /\ couponsProc'[p].code = couponsProc[p].code
                       /\ couponsProc'[p].key = couponsProc[p].key
                          /\ couponsProc'[p].ret = couponsProc[p].ret
  BY <1>1, CouponsGoMoves
<1>3. CASE l = "idle"
  <2>1. Coupons!Fits(Coupons!Idle) /\ Coupons!Idle.pc = "idle" /\ Coupons!Idle.op = Coupons!Nothing
    BY CouponsIdleTyped, CouponsFreshFits
  <2>. QED BY <1>2, <1>3, <2>1 DEF Coupons!Drawing, Coupons!Booking
<1>4. CASE l # "idle"
  <2>1. couponsProc'[p] \in Coupons!Locals
    BY <1>2 DEF CouponsMoved
  <2>2. Coupons!Fits(couponsProc'[p])
    BY <1>2, <1>4, <2>1
  <2>3. Coupons!Pair(couponsProc'[p].op, couponsProc'[p].code)
    BY <1>2, <1>4 DEF Coupons!Pair
  <2>4. Coupons!Drawing(p)' => Coupons!Drawing(p)
    BY <1>2, <1>4 DEF Coupons!Drawing
  <2>. QED BY <1>2, <1>4, <2>2, <2>3, <2>4
<1>. QED BY <1>3, <1>4

\* Back to where applyLedger was called.
LEMMA CouponsRetMoves ==
    ASSUME Coupons!IInv, NEW p \in Requests, Coupons!Go(p, couponsProc[p].ret)
    PROVE  /\ CouponsMoved(p) /\ couponsProc'[p].pc \notin {"pay", "flip"}
              /\ Coupons!Fits(couponsProc'[p])
           /\ \/ couponsProc'[p].op = Coupons!Nothing /\ ~Coupons!Drawing(p)'
              \/ /\ Coupons!Pair(couponsProc'[p].op, couponsProc'[p].code)
                 /\ Coupons!Drawing(p)' => Coupons!Drawing(p)
                    /\ couponsProc'[p].op = couponsProc[p].op
                       /\ couponsProc'[p].code = couponsProc[p].code
<1>1. PICK l : l = couponsProc[p].ret
  OBVIOUS
<1>2. l \in {"idle", "draw", "uncollide"} /\ Coupons!Go(p, l)
  BY <1>1, CouponsKnown, CouponsTyped
<1>3. \A r \in Coupons!Locals : r.pc = l /\ l # "idle" => Coupons!Fits(r)
  BY <1>2, CouponsFreshFits
<1>4. l \in Coupons!Places /\ l \notin {"pay", "flip", "find", "found"}
      /\ l \notin Coupons!Booking \cup {"create"}
  BY <1>2 DEF Coupons!Places, Coupons!Asking, Coupons!Making, Coupons!Booking
<1>. QED BY <1>2, <1>3, <1>4, CouponsOnMoves

\* applyLedger is called with a key that may be credited.
LEMMA CouponsLedgerFits ==
    ASSUME Coupons!IInv, NEW p \in Requests, NEW k \in Coupons!Keys, k # Coupons!IssueKey,
           NEW l \in {"idle", "uncollide"}, Coupons!Ledger(p, k, l),
           k[1] = "unissue" => k[2] \in couponsDebited /\ Coupons!Dead(k[2]),
           k[1] = "refund" => couponsCoupon[k[2]].owed
    PROVE  /\ CouponsMoved(p) /\ couponsProc'[p].pc \notin {"pay", "flip"}
              /\ Coupons!Fits(couponsProc'[p])
           /\ Coupons!Pair(couponsProc'[p].op, couponsProc'[p].code) /\ ~Coupons!Drawing(p)'
<1>1. Coupons!TypeOK
  BY CouponsKnown
<1>2. /\ CouponsMoved(p) /\ couponsProc'[p].pc = "claim" /\ couponsProc'[p].op = couponsProc[p].op
         /\ couponsProc'[p].code = couponsProc[p].code
      /\ couponsProc'[p].key = k
  BY <1>1, CouponsLedgerMoves
<1>3. Coupons!Fits(couponsProc'[p])
  BY <1>2 DEF Coupons!Fits, Coupons!Making, Coupons!Booking, Coupons!Spending
<1>4. Coupons!Pair(couponsProc'[p].op, couponsProc'[p].code) /\ ~Coupons!Drawing(p)'
  BY <1>2 DEF Coupons!Pair, Coupons!Drawing
<1>. QED BY <1>2, <1>3, <1>4

LEMMA CouponsAgainMoves ==
    ASSUME Coupons!IInv, NEW p \in Requests, Coupons!LookAgain(p)
    PROVE  /\ CouponsMoved(p) /\ couponsProc'[p].pc \notin {"pay", "flip"}
              /\ Coupons!Fits(couponsProc'[p])
           /\ couponsProc'[p].op = Coupons!Nothing /\ ~Coupons!Drawing(p)'
<1>. DEFINE r == [Coupons!Idle EXCEPT !.pc = "find", !.again = TRUE]
<1>1. Coupons!Idle \in [pc : Coupons!Places, op : Coupons!Ops \cup {Coupons!Nothing},
            code : Coupons!Codes \cup {Coupons!Nothing}, key : Coupons!Keys,
            ret : {"idle", "draw", "uncollide"},
            app : Coupons!Codes \cup {Coupons!Nothing}, fly : Coupons!Codes \cup {Coupons!Nothing},
            again : BOOLEAN]
  BY CouponsIdleTyped DEF Coupons!Locals
<1>2. r \in Coupons!Locals /\ r.pc = "find" /\ r.op = Coupons!Nothing
  BY <1>1, CouponsIdleTyped DEF Coupons!Locals, Coupons!Places, Coupons!Asking
<1>3. couponsProc' = [couponsProc EXCEPT ![p] = r]
  BY DEF Coupons!LookAgain
<1>. HIDE DEF r
<1>. QED BY <1>2, <1>3, CouponsFreshMoves

LEMMA CouponsClaimKeeps ==
    ASSUME Coupons!IInv, NEW p \in Requests, Coupons!Claim(p)
    PROVE  Coupons!IInv'
<1>1. /\ Coupons!TypeOK /\ Coupons!Fits(couponsProc[p]) /\ couponsProc[p].pc = "claim"
         /\ couponsProc[p].key \in Coupons!Keys
      /\ UNCHANGED <<couponsPartner, couponsCoupon, couponsUsed, couponsDebited, couponsCredits,
                     couponsPaid, couponsFreed, couponsLoose, couponsDropped, couponsLeft>>
  BY CouponsKnown, CouponsTyped DEF Coupons!Claim, Coupons!At, Coupons!history
<1>2. CASE /\ couponsIdem' = [couponsIdem EXCEPT ![couponsProc[p].key].st = "pending"]
              /\ Coupons!Go(p, "commit")
  <2>1. \A r \in Coupons!Locals : r.pc = "commit" /\ r.op = couponsProc[p].op
        /\ r.code = couponsProc[p].code /\ r.key = couponsProc[p].key
                                  => Coupons!Fits(r)
    BY <1>1 DEF Coupons!Fits, Coupons!Booking, Coupons!Making, Coupons!Spending
  <2>2. Coupons!Drawing(p) \/ couponsProc[p].key # Coupons!IssueKey
    BY <1>1 DEF Coupons!Drawing, Coupons!Booking
  <2>3. /\ CouponsMoved(p) /\ couponsProc'[p].pc \notin {"pay", "flip"} /\ Coupons!Fits(couponsProc'[p])
        /\ \/ couponsProc'[p].op = Coupons!Nothing /\ ~Coupons!Drawing(p)'
           \/ /\ Coupons!Pair(couponsProc'[p].op, couponsProc'[p].code)
              /\ Coupons!Drawing(p)' => Coupons!Drawing(p) /\ couponsProc'[p].op = couponsProc[p].op
                 /\ couponsProc'[p].code = couponsProc[p].code
    BY <1>2, <2>1, <2>2, CouponsOnMoves DEF Coupons!Places, Coupons!Booking
  <2>4. couponsIdem' \in [Coupons!Keys -> Coupons!Claims]
    <3>1. couponsIdem
          \in [Coupons!Keys -> [st : {"free", "pending", "done"},
                                code : Coupons!Codes \cup {Coupons!Nothing}]]
      BY <1>1 DEF Coupons!TypeOK, Coupons!Claims
    <3>. QED BY <1>1, <1>2, <3>1 DEF Coupons!Claims
  <2>5. Coupons!TypeOK'
    BY <1>1, <2>3, <2>4, CouponsLocalTypes DEF Coupons!TypeOK
  <2>. QED BY <1>1, <2>3, <2>5, CouponsLocalKeeps DEF CouponsLocalStep
<1>3. CASE UNCHANGED couponsIdem /\ Coupons!LookAgain(p)
  BY <1>1, <1>3, CouponsAgainMoves, CouponsQuietKeeps DEF CouponsQuiet
<1>4. CASE UNCHANGED couponsIdem /\ Coupons!Go(p, couponsProc[p].ret)
  BY <1>1, <1>4, CouponsRetMoves, CouponsQuietKeeps DEF CouponsQuiet
<1>. QED BY <1>2, <1>3, <1>4 DEF Coupons!Claim

LEMMA CouponsSettleKeeps ==
    ASSUME Coupons!IInv, NEW p \in Requests, Coupons!Settle(p)
    PROVE  Coupons!IInv'
<1>1. /\ Coupons!TypeOK /\ Coupons!Fits(couponsProc[p]) /\ Coupons!Drawn(p)
         /\ couponsProc[p].pc = "settle" /\ couponsProc[p].key \in Coupons!Keys
      /\ couponsProc[p].code \in Coupons!Codes \cup {Coupons!Nothing}
      /\ UNCHANGED <<couponsPartner, couponsCoupon, couponsUsed, couponsDebited, couponsCredits,
                     couponsPaid, couponsFreed, couponsLoose, couponsDropped, couponsLeft>>
  BY CouponsKnown, CouponsTyped DEF Coupons!Settle, Coupons!At, Coupons!history
<1>2. couponsIdem' \in [Coupons!Keys -> Coupons!Claims]
  BY <1>1 DEF Coupons!Settle, Coupons!TypeOK, Coupons!Claims
<1>3. /\ CouponsMoved(p) /\ couponsProc'[p].pc \notin {"pay", "flip"} /\ Coupons!Fits(couponsProc'[p])
      /\ \/ couponsProc'[p].op = Coupons!Nothing /\ ~Coupons!Drawing(p)'
         \/ /\ Coupons!Pair(couponsProc'[p].op, couponsProc'[p].code)
            /\ Coupons!Drawing(p)' => Coupons!Drawing(p) /\ couponsProc'[p].op = couponsProc[p].op
               /\ couponsProc'[p].code = couponsProc[p].code
  <2>1. CASE couponsProc[p].key = Coupons!IssueKey
    <3>1. Coupons!Drawing(p) /\ couponsProc[p].op \in couponsDebited
          /\ couponsProc[p].code \in Coupons!Codes
      BY <1>1, <2>1 DEF Coupons!Drawing, Coupons!Booking, Coupons!Fits, Coupons!Drawn
    <3>2. \A r \in Coupons!Locals : r.pc = "create" /\ r.op = couponsProc[p].op
          /\ r.code = couponsProc[p].code /\ r.key = couponsProc[p].key
                                    => Coupons!Fits(r)
      BY <2>1, <3>1 DEF Coupons!Fits, Coupons!Booking, Coupons!Making, Coupons!Spending
    <3>3. Coupons!Go(p, "create")
      BY <2>1 DEF Coupons!Settle
    <3>. QED BY <3>1, <3>2, <3>3, CouponsOnMoves DEF Coupons!Places, Coupons!Making
  <2>2. CASE couponsProc[p].key # Coupons!IssueKey
    BY <2>2, CouponsRetMoves DEF Coupons!Settle
  <2>. QED BY <2>1, <2>2
<1>4. Coupons!TypeOK'
  BY <1>1, <1>2, <1>3, CouponsLocalTypes DEF Coupons!TypeOK
<1>. QED BY <1>1, <1>3, <1>4, CouponsLocalKeeps DEF CouponsLocalStep

LEMMA CouponsIssueKeeps ==
    ASSUME Coupons!IInv, NEW p \in Requests, Coupons!Issue(p)
    PROVE  Coupons!IInv'
<1>1. Coupons!TypeOK /\ couponsProc[p].op = Coupons!Nothing /\ CouponsQuiet /\ Coupons!Go(p, "find")
  BY CouponsKnown DEF Coupons!Issue, Coupons!At, CouponsQuiet, Coupons!history, Coupons!Fits
<1>2. CouponsMoved(p) /\ couponsProc'[p].pc = "find" /\ couponsProc'[p].op = Coupons!Nothing
  BY <1>1, CouponsGoMoves DEF Coupons!Places, Coupons!Asking
<1>3. Coupons!Fits(couponsProc'[p]) /\ ~Coupons!Drawing(p)'
  BY <1>2, CouponsFreshFits DEF Coupons!Drawing, Coupons!Booking
<1>. QED BY <1>1, <1>2, <1>3, CouponsQuietKeeps

LEMMA CouponsFindKeeps ==
    ASSUME Coupons!IInv, NEW p \in Requests, Coupons!Find(p)
    PROVE  Coupons!IInv'
<1>1. /\ Coupons!TypeOK /\ couponsProc[p].op = Coupons!Nothing /\ CouponsQuiet
      /\ couponsProc[p] \in [pc : Coupons!Places, op : Coupons!Ops \cup {Coupons!Nothing},
            code : Coupons!Codes \cup {Coupons!Nothing}, key : Coupons!Keys,
            ret : {"idle", "draw", "uncollide"},
            app : Coupons!Codes \cup {Coupons!Nothing}, fly : Coupons!Codes \cup {Coupons!Nothing},
            again : BOOLEAN]
  BY CouponsKnown, CouponsTyped DEF Coupons!Find, Coupons!At, CouponsQuiet, Coupons!history,
       Coupons!Fits, Coupons!Locals
<1>2. PICK f \in (IF couponsPartner.issues = {} THEN {Coupons!Nothing}
                  ELSE {i[2] : i \in couponsPartner.issues}),
           a \in Coupons!Codes \cup {Coupons!Nothing} :
         couponsProc' = [couponsProc EXCEPT ![p].pc = "found", ![p].fly = f, ![p].app = a]
  <2>1. (IF Coupons!IssueKey \in couponsPartner.applied THEN couponsPartner.code
         ELSE Coupons!Nothing) \in Coupons!Codes \cup {Coupons!Nothing}
    BY <1>1 DEF Coupons!TypeOK
  <2>. QED BY <2>1 DEF Coupons!Find
<1>3. f \in Coupons!Codes \cup {Coupons!Nothing}
  BY <1>1, <1>2 DEF Coupons!TypeOK
<1>. DEFINE r == [couponsProc[p] EXCEPT !.pc = "found", !.fly = f, !.app = a]
<1>4. r \in Coupons!Locals /\ r.pc = "found" /\ r.op = Coupons!Nothing
  BY <1>1, <1>3 DEF Coupons!Locals, Coupons!Places, Coupons!Asking
<1>5. couponsProc' = [couponsProc EXCEPT ![p] = r]
  BY <1>2
<1>. HIDE DEF r
<1>6. CouponsMoved(p) /\ couponsProc'[p] = r
  BY <1>1, <1>4, <1>5, CouponsBecomesMoves
<1>7. Coupons!Fits(couponsProc'[p]) /\ ~Coupons!Drawing(p)'
  BY <1>4, <1>6, CouponsFreshFits DEF Coupons!Drawing, Coupons!Booking
<1>. QED BY <1>1, <1>4, <1>6, <1>7, CouponsQuietKeeps

LEMMA CouponsNotFoundTyped ==
    ASSUME NEW p \in Requests
    PROVE  Coupons!NotFound(p) \in Coupons!Locals /\ Coupons!NotFound(p).pc \in {"idle", "draw"}
           /\ Coupons!NotFound(p).op = Coupons!Nothing
<1>1. [Coupons!Idle EXCEPT !.pc = "draw"] \in Coupons!Locals
      /\ [Coupons!Idle EXCEPT !.pc = "draw"].pc = "draw"
      /\ [Coupons!Idle EXCEPT !.pc = "draw"].op = Coupons!Nothing
  BY CouponsIdleTyped DEF Coupons!Locals, Coupons!Places, Coupons!Asking
<1>. QED BY <1>1, CouponsIdleTyped DEF Coupons!NotFound

LEMMA CouponsFoundKeeps ==
    ASSUME Coupons!IInv, NEW p \in Requests, Coupons!Found(p)
    PROVE  Coupons!IInv'
<1>1. /\ Coupons!TypeOK /\ couponsProc[p].op = Coupons!Nothing /\ CouponsQuiet
      /\ couponsProc[p] \in [pc : Coupons!Places, op : Coupons!Ops \cup {Coupons!Nothing},
            code : Coupons!Codes \cup {Coupons!Nothing}, key : Coupons!Keys,
            ret : {"idle", "draw", "uncollide"},
            app : Coupons!Codes \cup {Coupons!Nothing}, fly : Coupons!Codes \cup {Coupons!Nothing},
            again : BOOLEAN]
  BY CouponsKnown, CouponsTyped DEF Coupons!Found, Coupons!At, CouponsQuiet, Coupons!history,
       Coupons!Fits, Coupons!Locals
<1>2. PICK c \in Coupons!Codes \cup {Coupons!Nothing} :
         couponsProc' = [couponsProc EXCEPT ![p] = IF c = Coupons!Nothing THEN Coupons!NotFound(p)
                                                   ELSE [@ EXCEPT !.pc = "lookup", !.code = c,
                                                         !.app = Coupons!Nothing]]
  <2>1. couponsIdem[Coupons!IssueKey] \in Coupons!Claims
    BY <1>1, CouponsKeyKinds DEF Coupons!TypeOK
  <2>2. (IF couponsIdem[Coupons!IssueKey].st = "done" THEN couponsIdem[Coupons!IssueKey].code
         ELSE IF couponsProc[p].app # Coupons!Nothing THEN couponsProc[p].app
         ELSE couponsProc[p].fly) \in Coupons!Codes \cup {Coupons!Nothing}
    BY <1>1, <2>1, CouponsTyped DEF Coupons!Claims
  <2>. QED BY <2>2 DEF Coupons!Found
<1>3. CASE c = Coupons!Nothing
  <2>1. PICK r : r = Coupons!NotFound(p)
    OBVIOUS
  <2>2. r \in Coupons!Locals /\ r.pc \in {"idle", "draw"} /\ r.op = Coupons!Nothing
        /\ couponsProc' = [couponsProc EXCEPT ![p] = r]
    BY <1>2, <1>3, <2>1, CouponsNotFoundTyped
  <2>. QED BY <1>1, <2>2, CouponsFreshMoves, CouponsQuietKeeps
<1>4. CASE c # Coupons!Nothing
  <2>. DEFINE r == [couponsProc[p] EXCEPT !.pc = "lookup", !.code = c, !.app = Coupons!Nothing]
  <2>1. r \in Coupons!Locals /\ r.pc = "lookup" /\ r.op = Coupons!Nothing /\ r.code \in Coupons!Codes
    BY <1>1, <1>2, <1>4 DEF Coupons!Locals, Coupons!Places, Coupons!Asking
  <2>2. couponsProc' = [couponsProc EXCEPT ![p] = r]
    BY <1>2, <1>4
  <2>. HIDE DEF r
  <2>3. CouponsMoved(p) /\ couponsProc'[p] = r
    BY <1>1, <2>1, <2>2, CouponsBecomesMoves
  <2>4. Coupons!Fits(r)
    BY <2>1 DEF Coupons!Fits, Coupons!Making, Coupons!Booking, Coupons!Spending
  <2>5. ~Coupons!Drawing(p)'
    BY <2>1, <2>3 DEF Coupons!Drawing, Coupons!Booking
  <2>. QED BY <1>1, <2>1, <2>3, <2>4, <2>5, CouponsQuietKeeps
<1>. QED BY <1>3, <1>4

LEMMA CouponsLookupKeeps ==
    ASSUME Coupons!IInv, NEW p \in Requests, Coupons!Lookup(p)
    PROVE  Coupons!IInv'
<1>1. CouponsQuiet
  BY DEF Coupons!Lookup, CouponsQuiet, Coupons!history
<1>2. PICK r \in Coupons!Locals :
         r.pc \in {"idle", "release", "draw"} /\ r.op = Coupons!Nothing
         /\ couponsProc' = [couponsProc EXCEPT ![p] = r]
  <2>. DEFINE u == [Coupons!Idle EXCEPT !.pc = "release", !.ret = Coupons!NotFound(p).pc]
  <2>1. Coupons!Idle \in [pc : Coupons!Places, op : Coupons!Ops \cup {Coupons!Nothing},
            code : Coupons!Codes \cup {Coupons!Nothing}, key : Coupons!Keys,
            ret : {"idle", "draw", "uncollide"},
            app : Coupons!Codes \cup {Coupons!Nothing}, fly : Coupons!Codes \cup {Coupons!Nothing},
            again : BOOLEAN]
    BY CouponsIdleTyped DEF Coupons!Locals
  <2>2. u \in Coupons!Locals /\ u.pc = "release" /\ u.op = Coupons!Nothing
    BY <2>1, CouponsIdleTyped, CouponsNotFoundTyped DEF Coupons!Locals, Coupons!Places,
         Coupons!Asking
  <2>. HIDE DEF u
  <2>3. \/ couponsProc' = [couponsProc EXCEPT ![p] = Coupons!Idle]
           \/ couponsProc' = [couponsProc EXCEPT ![p] = u]
        \/ couponsProc' = [couponsProc EXCEPT ![p] = Coupons!NotFound(p)]
    BY DEF Coupons!Lookup, u
  <2>. QED BY <2>2, <2>3, CouponsIdleTyped, CouponsNotFoundTyped
<1>. QED BY <1>1, <1>2, CouponsFreshMoves, CouponsQuietKeeps
LEMMA CouponsReleaseKeeps ==
    ASSUME Coupons!IInv, NEW p \in Requests, Coupons!Release(p)
    PROVE  Coupons!IInv'
<1>1. /\ Coupons!TypeOK
         /\ UNCHANGED <<couponsPartner, couponsCoupon, couponsUsed, couponsDebited, couponsCredits,
                        couponsPaid, couponsFreed, couponsDropped, couponsLeft>>
      /\ Coupons!Go(p, "forget") /\ couponsLoose' = (couponsLoose \/ Coupons!Live # {})
  BY CouponsKnown DEF Coupons!Release
<1>2. couponsIdem' \in [Coupons!Keys -> Coupons!Claims]
  <2>1. [st |-> "free", code |-> Coupons!Nothing] \in Coupons!Claims
    BY DEF Coupons!Claims
  <2>. QED BY <1>1, <2>1 DEF Coupons!Release, Coupons!TypeOK
<1>3. \A r \in Coupons!Locals : r.pc = "forget" => Coupons!Fits(r)
  BY CouponsFreshFits
<1>4. "forget" \in Coupons!Places /\ "forget" \notin Coupons!Booking \cup {"create"}
  BY DEF Coupons!Places, Coupons!Asking, Coupons!Booking
<1>5. /\ CouponsMoved(p) /\ couponsProc'[p].pc \notin {"pay", "flip"} /\ Coupons!Fits(couponsProc'[p])
      /\ \/ couponsProc'[p].op = Coupons!Nothing /\ ~Coupons!Drawing(p)'
         \/ /\ Coupons!Pair(couponsProc'[p].op, couponsProc'[p].code)
            /\ Coupons!Drawing(p)' => Coupons!Drawing(p) /\ couponsProc'[p].op = couponsProc[p].op
               /\ couponsProc'[p].code = couponsProc[p].code
  BY <1>1, <1>3, <1>4, CouponsOnMoves
<1>6. couponsLoose' \in BOOLEAN /\ (couponsLoose => couponsLoose')
  BY <1>1
<1>7. Coupons!TypeOK'
  BY <1>1, <1>2, <1>5, <1>6, CouponsLocalTypes DEF Coupons!TypeOK
<1>. QED BY <1>1, <1>5, <1>6, <1>7, CouponsLocalKeeps DEF CouponsLocalStep

LEMMA CouponsDrawKeeps ==
    ASSUME Coupons!IInv, NEW p \in Requests, Coupons!Draw(p)
    PROVE  Coupons!IInv'
<1>1. /\ Coupons!TypeOK
         /\ UNCHANGED <<couponsPartner, couponsCoupon, couponsIdem, couponsDebited, couponsCredits,
                        couponsPaid, couponsFreed, couponsLoose, couponsDropped, couponsLeft>>
  BY CouponsKnown DEF Coupons!Draw
<1>2. CASE UNCHANGED couponsUsed /\ Coupons!Done(p)
  <2>1. couponsProc' = [couponsProc EXCEPT ![p] = Coupons!Idle] /\ CouponsQuiet
    BY <1>1, <1>2 DEF Coupons!Done, CouponsQuiet
  <2>. QED BY <2>1, CouponsIdleTyped, CouponsFreshMoves, CouponsQuietKeeps
<1>3. ASSUME NEW o \in Coupons!Ops \ couponsUsed, NEW c \in Coupons!Codes,
couponsUsed' = couponsUsed \cup {o},
             couponsProc'
             = [couponsProc EXCEPT ![p] = [Coupons!Idle EXCEPT !.pc = "claim",
                                           !.key = Coupons!IssueKey, !.op = o, !.code = c]]
      PROVE  Coupons!IInv'
  <2>. DEFINE r == [Coupons!Idle EXCEPT !.pc = "claim", !.key = Coupons!IssueKey, !.op = o, !.code = c]
  <2>1. Coupons!Idle \in [pc : Coupons!Places, op : Coupons!Ops \cup {Coupons!Nothing},
            code : Coupons!Codes \cup {Coupons!Nothing}, key : Coupons!Keys,
            ret : {"idle", "draw", "uncollide"},
            app : Coupons!Codes \cup {Coupons!Nothing}, fly : Coupons!Codes \cup {Coupons!Nothing},
            again : BOOLEAN]
    BY CouponsIdleTyped DEF Coupons!Locals
  <2>2. r \in Coupons!Locals /\ r.pc = "claim" /\ r.key = Coupons!IssueKey /\ r.op = o /\ r.code = c
    BY <2>1, CouponsIdleTyped, CouponsKeyKinds DEF Coupons!Locals, Coupons!Places, Coupons!Booking
  <2>3. couponsProc' = [couponsProc EXCEPT ![p] = r]
    BY <1>3
  <2>. HIDE DEF r
  <2>4. CouponsMoved(p) /\ couponsProc'[p] = r
    BY <1>1, <2>2, <2>3, CouponsBecomesMoves
  <2>5. Coupons!Fits(r)
    <3>1. Coupons!IssueKey[1] = "issue"
      BY CouponsKeyKinds
    <3>. QED BY <2>2, <3>1 DEF Coupons!Fits, Coupons!Making, Coupons!Booking, Coupons!Spending
  <2>6. couponsUsed' \subseteq Coupons!Ops /\ couponsUsed \subseteq couponsUsed' /\ o \in couponsUsed'
    BY <1>1, <1>3 DEF Coupons!TypeOK
  <2>7. Coupons!TypeOK'
    BY <1>1, <2>4, <2>6, CouponsLocalTypes DEF Coupons!TypeOK
  <2>. QED BY <1>1, <2>2, <2>4, <2>5, <2>6, <2>7, CouponsLocalKeeps DEF CouponsLocalStep
<1>. QED BY <1>2, <1>3 DEF Coupons!Draw

\* refundPendingIssue is called for a dead operation.
LEMMA CouponsUnissueKeeps ==
    ASSUME Coupons!IInv, NEW p \in Requests, NEW l \in {"idle", "uncollide"}, Coupons!Unissue(p, l),
           CouponsQuiet,
           couponsProc[p].op \in couponsDebited, Coupons!Dead(couponsProc[p].op)
    PROVE  Coupons!IInv'
<1>1. Coupons!TypeOK
  BY CouponsKnown
<1>2. PICK o : o = couponsProc[p].op
  OBVIOUS
<1>3. o \in Coupons!Ops /\ o \in couponsDebited /\ Coupons!Dead(o)
  BY <1>1, <1>2 DEF Coupons!TypeOK
<1>4. CASE Coupons!Ledger(p, <<"unissue", o>>, l)
  <2>1. PICK k \in Coupons!Keys : k = <<"unissue", o>> /\ k # Coupons!IssueKey
    BY <1>3, CouponsKeyKinds
  <2>2. k[1] = "unissue" /\ k[2] = o
    BY <2>1
  <2>3. /\ CouponsMoved(p) /\ couponsProc'[p].pc \notin {"pay", "flip"} /\ Coupons!Fits(couponsProc'[p])
        /\ Coupons!Pair(couponsProc'[p].op, couponsProc'[p].code) /\ ~Coupons!Drawing(p)'
    BY <1>3, <1>4, <2>1, <2>2, CouponsLedgerFits
  <2>. QED BY <2>3, CouponsQuietKeeps
<1>5. CASE Coupons!Go(p, l)
  <2>1. \A r \in Coupons!Locals : r.pc = l /\ l # "idle" => Coupons!Fits(r)
    BY CouponsFreshFits
  <2>2. l \in Coupons!Places /\ l \notin {"pay", "flip", "find", "found"}
        /\ l \notin Coupons!Booking \cup {"create"}
    BY DEF Coupons!Places, Coupons!Making, Coupons!Booking
  <2>3. /\ CouponsMoved(p) /\ couponsProc'[p].pc \notin {"pay", "flip"} /\ Coupons!Fits(couponsProc'[p])
        /\ \/ couponsProc'[p].op = Coupons!Nothing /\ ~Coupons!Drawing(p)'
           \/ /\ Coupons!Pair(couponsProc'[p].op, couponsProc'[p].code)
              /\ Coupons!Drawing(p)' => Coupons!Drawing(p) /\ couponsProc'[p].op = couponsProc[p].op
                 /\ couponsProc'[p].code = couponsProc[p].code
    BY <1>5, <2>1, <2>2, CouponsOnMoves
  <2>. QED BY <2>3, CouponsQuietKeeps
<1>. QED BY <1>2, <1>4, <1>5 DEF Coupons!Unissue

LEMMA CouponsCollidedKeeps ==
    ASSUME Coupons!IInv, NEW p \in Requests, Coupons!Collided(p)
    PROVE  Coupons!IInv'
<1>1. Coupons!Fits(couponsProc[p]) /\ couponsProc[p].pc = "collided" /\ CouponsQuiet
      /\ Coupons!Unissue(p, "uncollide")
  BY CouponsKnown DEF Coupons!Collided, Coupons!At, CouponsQuiet, Coupons!history
<1>2. couponsProc[p].op \in couponsDebited /\ Coupons!Dead(couponsProc[p].op)
  BY <1>1 DEF Coupons!Fits, Coupons!Making
<1>. QED BY <1>1, <1>2, CouponsUnissueKeeps

LEMMA CouponsUnissueStepKeeps ==
    ASSUME Coupons!IInv, NEW p \in Requests, Coupons!UnissueStep(p)
    PROVE  Coupons!IInv'
<1>1. Coupons!Fits(couponsProc[p]) /\ couponsProc[p].pc = "unissue" /\ CouponsQuiet
      /\ Coupons!Unissue(p, "idle")
  BY CouponsKnown DEF Coupons!UnissueStep, Coupons!At, CouponsQuiet, Coupons!history
<1>2. couponsProc[p].op \in couponsDebited /\ Coupons!Dead(couponsProc[p].op)
  BY <1>1 DEF Coupons!Fits, Coupons!Making
<1>. QED BY <1>1, <1>2, CouponsUnissueKeeps

LEMMA CouponsUncollideKeeps ==
    ASSUME Coupons!IInv, NEW p \in Requests, Coupons!Uncollide(p)
    PROVE  Coupons!IInv'
<1>. DEFINE r == [Coupons!Idle EXCEPT !.pc = "release", !.ret = "draw"]
<1>1. Coupons!Idle \in [pc : Coupons!Places, op : Coupons!Ops \cup {Coupons!Nothing},
            code : Coupons!Codes \cup {Coupons!Nothing}, key : Coupons!Keys,
            ret : {"idle", "draw", "uncollide"},
            app : Coupons!Codes \cup {Coupons!Nothing}, fly : Coupons!Codes \cup {Coupons!Nothing},
            again : BOOLEAN]
  BY CouponsIdleTyped DEF Coupons!Locals
<1>2. r \in Coupons!Locals /\ r.pc = "release" /\ r.op = Coupons!Nothing
  BY <1>1, CouponsIdleTyped DEF Coupons!Locals, Coupons!Places, Coupons!Asking
<1>3. couponsProc' = [couponsProc EXCEPT ![p] = r] /\ CouponsQuiet
  BY DEF Coupons!Uncollide, CouponsQuiet, Coupons!history
<1>. HIDE DEF r
<1>. QED BY <1>2, <1>3, CouponsFreshMoves, CouponsQuietKeeps

LEMMA CouponsReconcileKeeps ==
    ASSUME Coupons!IInv, NEW p \in Requests, Coupons!Reconcile(p)
    PROVE  Coupons!IInv'
<1>1. /\ Coupons!TypeOK /\ couponsProc[p].op = Coupons!Nothing /\ CouponsQuiet
      /\ couponsProc[p] \in [pc : Coupons!Places, op : Coupons!Ops \cup {Coupons!Nothing},
            code : Coupons!Codes \cup {Coupons!Nothing}, key : Coupons!Keys,
            ret : {"idle", "draw", "uncollide"},
            app : Coupons!Codes \cup {Coupons!Nothing}, fly : Coupons!Codes \cup {Coupons!Nothing},
            again : BOOLEAN]
      /\ \A i \in couponsPartner.issues : i[1] \in couponsDebited
  BY CouponsKnown, CouponsTyped DEF Coupons!Reconcile, Coupons!At, CouponsQuiet, Coupons!history,
       Coupons!Fits, Coupons!Locals
<1>2. ASSUME NEW i \in couponsPartner.issues,
             couponsProc' = [couponsProc EXCEPT ![p].pc = "inspect", ![p].op = i[1], ![p].code = i[2]]
      PROVE  Coupons!IInv'
  <2>1. PICK o \in Coupons!Ops, c \in Coupons!Codes :
           i = <<o, c>> /\ o \in couponsDebited /\ o = i[1] /\ c = i[2]
    BY <1>1 DEF Coupons!TypeOK
  <2>. DEFINE r == [couponsProc[p] EXCEPT !.pc = "inspect", !.op = o, !.code = c]
  <2>2. r \in Coupons!Locals /\ r.pc = "inspect" /\ r.op = o /\ r.code = c
    BY <1>1, <2>1 DEF Coupons!Locals, Coupons!Places, Coupons!Making
  <2>3. couponsProc' = [couponsProc EXCEPT ![p] = r]
    BY <1>2, <2>1
  <2>. HIDE DEF r
  <2>4. CouponsMoved(p) /\ couponsProc'[p] = r
    BY <1>1, <2>2, <2>3, CouponsBecomesMoves
  <2>5. Coupons!Fits(r)
    BY <2>1, <2>2 DEF Coupons!Fits, Coupons!Making, Coupons!Booking, Coupons!Spending
  <2>6. ~Coupons!Drawing(p)'
    BY <2>2, <2>4 DEF Coupons!Drawing, Coupons!Booking
  <2>7. Coupons!Pair(o, c)
    BY <2>1 DEF Coupons!Pair
  <2>8. couponsProc'[p].op = o /\ couponsProc'[p].code = c /\ couponsProc'[p].pc = "inspect"
        /\ Coupons!Fits(couponsProc'[p])
    BY <2>2, <2>4, <2>5
  <2>9. Coupons!Pair(couponsProc'[p].op, couponsProc'[p].code)
    BY <2>7, <2>8
  <2>. QED BY <1>1, <2>4, <2>6, <2>8, <2>9, CouponsQuietKeeps
<1>3. ASSUME NEW c \in couponsPartner.refunds,
couponsProc' = [couponsProc EXCEPT ![p].pc = "intent_seen", ![p].code = c]
      PROVE  Coupons!IInv'
  <2>. DEFINE r == [couponsProc[p] EXCEPT !.pc = "intent_seen", !.code = c]
  <2>1. c \in Coupons!Codes
    BY <1>1 DEF Coupons!TypeOK
  <2>2. r \in Coupons!Locals /\ r.pc = "intent_seen" /\ r.op = Coupons!Nothing /\ r.code = c
    BY <1>1, <2>1 DEF Coupons!Locals, Coupons!Places, Coupons!Spending
  <2>3. couponsProc' = [couponsProc EXCEPT ![p] = r]
    BY <1>3
  <2>. HIDE DEF r
  <2>4. CouponsMoved(p) /\ couponsProc'[p] = r
    BY <1>1, <2>2, <2>3, CouponsBecomesMoves
  <2>5. Coupons!Fits(r)
    BY <2>1, <2>2 DEF Coupons!Fits, Coupons!Making, Coupons!Booking, Coupons!Spending
  <2>6. ~Coupons!Drawing(p)'
    BY <2>2, <2>4 DEF Coupons!Drawing, Coupons!Booking
  <2>. QED BY <1>1, <2>2, <2>4, <2>5, <2>6, CouponsQuietKeeps
<1>. QED BY <1>2, <1>3 DEF Coupons!Reconcile

\* A code that went to somebody else, or to a tombstone, is lost to the operation.
LEMMA CouponsLostCode ==
    ASSUME Coupons!IInv, NEW p \in Requests, couponsProc[p].op \in Coupons!Ops,
           couponsProc[p].code \in Coupons!Codes,
           couponsCoupon[couponsProc[p].code].st # "absent",
           ~Coupons!Ours(couponsProc[p].code, couponsProc[p].op)
    PROVE  Coupons!Dead(couponsProc[p].op)
<1>1. PICK o \in Coupons!Ops, c \in Coupons!Codes : o = couponsProc[p].op /\ c = couponsProc[p].code
  OBVIOUS
<1>2. Coupons!Pair(o, c) /\ Coupons!Paired
  BY <1>1, CouponsKnown DEF Coupons!Pair
<1>3. \A d \in Coupons!Codes : Coupons!Pair(o, d) => d = c
  BY <1>2 DEF Coupons!Paired
<1>4. ASSUME NEW d \in Coupons!Codes, couponsCoupon[d].op = o PROVE Coupons!Tomb(d)
  BY <1>1, <1>3, <1>4 DEF Coupons!Pair, Coupons!Ours
<1>5. ASSUME NEW q \in Requests, Coupons!Drawing(q),
couponsProc[q].op = o PROVE couponsCoupon[couponsProc[q].code].st # "absent"
  BY <1>1, <1>3, <1>5, CouponsDrawingPairs
<1>6. Coupons!Dead(o)
  BY <1>4, <1>5 DEF Coupons!Dead
<1>. QED BY <1>1, <1>6

LEMMA CouponsInspectKeeps ==
    ASSUME Coupons!IInv, NEW p \in Requests, Coupons!Inspect(p)
    PROVE  Coupons!IInv'
<1>1. Coupons!Fits(couponsProc[p]) /\ couponsProc[p].pc = "inspect" /\ CouponsQuiet
      /\ couponsDebited \subseteq Coupons!Ops
  BY CouponsKnown DEF Coupons!Inspect, Coupons!At, CouponsQuiet, Coupons!history, Coupons!TypeOK
<1>2. couponsProc[p].op \in couponsDebited /\ couponsProc[p].op \in Coupons!Ops
      /\ couponsProc[p].code \in Coupons!Codes
  BY <1>1 DEF Coupons!Fits, Coupons!Making
<1>3. PICK l \in {"tomb", "confirm", "unissue"} :
         /\ Coupons!Go(p, l) /\ (l = "confirm" => Coupons!Ours(couponsProc[p].code, couponsProc[p].op))
         /\ l = "unissue" => couponsCoupon[couponsProc[p].code].st # "absent"
            /\ ~Coupons!Ours(couponsProc[p].code, couponsProc[p].op)
  BY DEF Coupons!Inspect
<1>4. l = "unissue" => Coupons!Dead(couponsProc[p].op)
  BY <1>2, <1>3, CouponsLostCode
<1>5. \A r \in Coupons!Locals : r.pc = l /\ r.op = couponsProc[p].op /\ r.code = couponsProc[p].code
      => Coupons!Fits(r)
  BY <1>2, <1>3, <1>4 DEF Coupons!Fits, Coupons!Booking, Coupons!Making, Coupons!Spending
<1>6. l \in Coupons!Places /\ l \notin {"pay", "flip", "find", "found"}
      /\ l \notin Coupons!Booking \cup {"create"}
  BY <1>3 DEF Coupons!Places, Coupons!Making, Coupons!Booking
<1>7. /\ CouponsMoved(p) /\ couponsProc'[p].pc \notin {"pay", "flip"} /\ Coupons!Fits(couponsProc'[p])
      /\ \/ couponsProc'[p].op = Coupons!Nothing /\ ~Coupons!Drawing(p)'
         \/ /\ Coupons!Pair(couponsProc'[p].op, couponsProc'[p].code)
            /\ Coupons!Drawing(p)' => Coupons!Drawing(p) /\ couponsProc'[p].op = couponsProc[p].op
               /\ couponsProc'[p].code = couponsProc[p].code
  BY <1>3, <1>5, <1>6, CouponsOnMoves
<1>. QED BY <1>1, <1>7, CouponsQuietKeeps

LEMMA CouponsReinspectKeeps ==
    ASSUME Coupons!IInv, NEW p \in Requests, Coupons!Reinspect(p)
    PROVE  Coupons!IInv'
<1>1. Coupons!Fits(couponsProc[p]) /\ couponsProc[p].pc = "reinspect" /\ CouponsQuiet
      /\ couponsDebited \subseteq Coupons!Ops
  BY CouponsKnown DEF Coupons!Reinspect, Coupons!At, CouponsQuiet, Coupons!history, Coupons!TypeOK
<1>2. couponsProc[p].op \in couponsDebited /\ couponsProc[p].op \in Coupons!Ops
      /\ couponsProc[p].code \in Coupons!Codes
  BY <1>1 DEF Coupons!Fits, Coupons!Making
<1>3. PICK l \in {"idle", "confirm", "unissue"} :
         /\ Coupons!Go(p, l) /\ (l = "confirm" => Coupons!Ours(couponsProc[p].code, couponsProc[p].op))
         /\ l = "unissue" => Coupons!Tomb(couponsProc[p].code)
  BY DEF Coupons!Reinspect, Coupons!Go
<1>4. l = "unissue" => Coupons!Dead(couponsProc[p].op)
  BY <1>2, <1>3, CouponsLostCode DEF Coupons!Ours, Coupons!Tomb
<1>5. \A r \in Coupons!Locals : r.pc = l /\ r.op = couponsProc[p].op /\ r.code = couponsProc[p].code
      /\ l # "idle" => Coupons!Fits(r)
  BY <1>2, <1>3, <1>4 DEF Coupons!Fits, Coupons!Booking, Coupons!Making, Coupons!Spending
<1>6. l \in Coupons!Places /\ l \notin {"pay", "flip", "find", "found"}
      /\ l \notin Coupons!Booking \cup {"create"}
  BY <1>3 DEF Coupons!Places, Coupons!Making, Coupons!Booking
<1>7. /\ CouponsMoved(p) /\ couponsProc'[p].pc \notin {"pay", "flip"} /\ Coupons!Fits(couponsProc'[p])
      /\ \/ couponsProc'[p].op = Coupons!Nothing /\ ~Coupons!Drawing(p)'
         \/ /\ Coupons!Pair(couponsProc'[p].op, couponsProc'[p].code)
            /\ Coupons!Drawing(p)' => Coupons!Drawing(p) /\ couponsProc'[p].op = couponsProc[p].op
               /\ couponsProc'[p].code = couponsProc[p].code
  BY <1>3, <1>5, <1>6, CouponsOnMoves
<1>. QED BY <1>1, <1>7, CouponsQuietKeeps

LEMMA CouponsIntentSeenKeeps ==
    ASSUME Coupons!IInv, NEW p \in Requests, Coupons!IntentSeen(p)
    PROVE  Coupons!IInv'
<1>1. Coupons!Fits(couponsProc[p]) /\ couponsProc[p].pc = "intent_seen" /\ CouponsQuiet
  BY CouponsKnown DEF Coupons!IntentSeen, Coupons!At, CouponsQuiet, Coupons!history
<1>2. PICK c \in Coupons!Codes : c = couponsProc[p].code
  BY <1>1 DEF Coupons!Fits, Coupons!Spending
<1>3. CASE couponsCoupon[c].owed /\ Coupons!Ledger(p, <<"refund", c>>, "idle")
  <2>1. PICK k \in Coupons!Keys : k = <<"refund", c>> /\ k # Coupons!IssueKey
    BY CouponsKeyKinds
  <2>2. k[1] = "refund" /\ k[2] = c
    BY <2>1
  <2>3. /\ CouponsMoved(p) /\ couponsProc'[p].pc \notin {"pay", "flip"} /\ Coupons!Fits(couponsProc'[p])
        /\ Coupons!Pair(couponsProc'[p].op, couponsProc'[p].code) /\ ~Coupons!Drawing(p)'
    BY <1>3, <2>1, <2>2, CouponsLedgerFits
  <2>. QED BY <1>1, <2>3, CouponsQuietKeeps
<1>4. CASE Coupons!Go(p, "drop")
  <2>1. \A r \in Coupons!Locals : r.pc = "drop" /\ r.code = couponsProc[p].code => Coupons!Fits(r)
    BY <1>2 DEF Coupons!Fits, Coupons!Booking, Coupons!Making, Coupons!Spending
  <2>2. "drop" \in Coupons!Places /\ "drop" \notin Coupons!Booking \cup {"create"}
    BY DEF Coupons!Places, Coupons!Spending, Coupons!Booking
  <2>3. /\ CouponsMoved(p) /\ couponsProc'[p].pc \notin {"pay", "flip"} /\ Coupons!Fits(couponsProc'[p])
        /\ \/ couponsProc'[p].op = Coupons!Nothing /\ ~Coupons!Drawing(p)'
           \/ /\ Coupons!Pair(couponsProc'[p].op, couponsProc'[p].code)
              /\ Coupons!Drawing(p)' => Coupons!Drawing(p) /\ couponsProc'[p].op = couponsProc[p].op
                 /\ couponsProc'[p].code = couponsProc[p].code
    BY <1>4, <2>1, <2>2, CouponsOnMoves
  <2>. QED BY <1>1, <2>3, CouponsQuietKeeps
<1>. QED BY <1>2, <1>3, <1>4 DEF Coupons!IntentSeen

LEMMA CouponsTopUpKeeps ==
    ASSUME Coupons!IInv, NEW p \in Requests, Coupons!TopUpPartner(p)
    PROVE  Coupons!IInv'
<1>1. CouponsQuiet /\ Coupons!Ledger(p, Coupons!TopupKey, "idle")
  BY DEF Coupons!TopUpPartner, CouponsQuiet, Coupons!history
<1>2. Coupons!TopupKey \in Coupons!Keys /\ Coupons!TopupKey # Coupons!IssueKey
      /\ Coupons!TopupKey[1] = "topup"
  BY CouponsKeyKinds
<1>3. /\ CouponsMoved(p) /\ couponsProc'[p].pc \notin {"pay", "flip"} /\ Coupons!Fits(couponsProc'[p])
      /\ Coupons!Pair(couponsProc'[p].op, couponsProc'[p].code) /\ ~Coupons!Drawing(p)'
  BY <1>1, <1>2, CouponsLedgerFits
<1>. QED BY <1>1, <1>3, CouponsQuietKeeps

LEMMA CouponsSpendTyped ==
    ASSUME Coupons!TypeOK, NEW b \in {"ask", "admin", "fault"}, Coupons!Spend(b)
    PROVE  couponsLeft' \in [{"ask", "admin", "fault"} -> Nat]
  BY DEF Coupons!TypeOK, Coupons!Spend

LEMMA CouponsDieKeeps ==
    ASSUME Coupons!IInv, NEW p \in Requests, Coupons!Die(p)
    PROVE  Coupons!IInv'
<1>1. /\ Coupons!TypeOK
         /\ UNCHANGED <<couponsPartner, couponsCoupon, couponsIdem, couponsUsed, couponsDebited,
                        couponsCredits, couponsPaid, couponsFreed, couponsLoose, couponsDropped>>
      /\ couponsProc' = [couponsProc EXCEPT ![p] = Coupons!Idle]
  BY CouponsKnown DEF Coupons!Die, Coupons!history, Coupons!Done
<1>2. /\ CouponsMoved(p) /\ couponsProc'[p].pc \notin {"pay", "flip"} /\ Coupons!Fits(couponsProc'[p])
      /\ couponsProc'[p].op = Coupons!Nothing /\ ~Coupons!Drawing(p)'
  BY <1>1, CouponsIdleTyped, CouponsFreshMoves
<1>3. Coupons!TypeOK'
  BY <1>1, <1>2, CouponsLocalTypes, CouponsSpendTyped DEF Coupons!TypeOK, Coupons!Die
<1>. QED BY <1>1, <1>2, <1>3, CouponsLocalKeeps DEF CouponsLocalStep
-----------------------------------------------------------------------------
(* Steps that change one couponsCoupon.                                           *)

\* One coupon changes: it keeps its operation and stays or is no tombstone, or
\* an empty key is taken by the request that has its code.
CouponsTouches(p, c, r) ==
    /\ couponsCoupon' = [couponsCoupon EXCEPT ![c] = r] /\ r \in Coupons!Records /\ r.st # "absent"
    /\ \/ /\ couponsCoupon[c].st # "absent" /\ r.op = couponsCoupon[c].op
          /\ r.st = "tomb" <=> couponsCoupon[c].st = "tomb"
          /\ couponsCoupon[c].owed => r.owed
       \/ /\ couponsCoupon[c].st = "absent" /\ r.op = couponsProc[p].op /\ couponsProc[p].code = c
          /\ r.st = "tomb" \/ (Coupons!Drawing(p) /\ ~Coupons!Drawing(p)')

\* What is left of the request's own pair of operation and code.
CouponsHolding(p) == \/ couponsProc'[p].op = Coupons!Nothing /\ ~Coupons!Drawing(p)'
                     \/ /\ Coupons!Pair(couponsProc'[p].op, couponsProc'[p].code)
                        /\ Coupons!Drawing(p)' => Coupons!Drawing(p)
                           /\ couponsProc'[p].op = couponsProc[p].op
                              /\ couponsProc'[p].code = couponsProc[p].code

LEMMA CouponsTouchFrame ==
    ASSUME Coupons!IInv, NEW p \in Requests, CouponsMoved(p), NEW c \in Coupons!Codes, NEW r,
           CouponsTouches(p, c, r), CouponsHolding(p),
           UNCHANGED <<couponsPartner, couponsUsed, couponsDebited, couponsDropped>>
    PROVE  CouponsFrame(p)
<1>1. couponsCoupon \in [Coupons!Codes -> Coupons!Records] /\ couponsCoupon'[c] = r
      /\ \A d \in Coupons!Codes \ {c} : couponsCoupon'[d] = couponsCoupon[d]
  BY CouponsKnown DEF Coupons!TypeOK, CouponsTouches
<1>2. \A d \in Coupons!Codes : couponsCoupon[d].st # "absent" =>
          /\ couponsCoupon'[d].op = couponsCoupon[d].op /\ couponsCoupon'[d].st # "absent"
          /\ couponsCoupon'[d].st = "tomb" <=> couponsCoupon[d].st = "tomb"
          /\ couponsCoupon[d].owed => couponsCoupon'[d].owed
  BY <1>1 DEF CouponsTouches
<1>3. \A d \in Coupons!Codes : couponsCoupon[d].st = "absent" /\ couponsCoupon'[d] # couponsCoupon[d] =>
          /\ couponsCoupon'[d].op = couponsProc[p].op /\ couponsProc[p].code = d
          /\ couponsCoupon'[d].st = "tomb" \/ (Coupons!Drawing(p) /\ ~Coupons!Drawing(p)')
  BY <1>1 DEF CouponsTouches
<1>4. \A o \in Coupons!Ops, d \in Coupons!Codes : <<o, d>> \in couponsPartner'.issues
      => Coupons!Pair(o, d)
  BY DEF Coupons!Pair
<1>5. ASSUME NEW q \in Requests \ {p}, couponsProc[q].pc = "flip",
CouponsWaits(couponsProc[q].code) PROVE CouponsWaits(couponsProc[q].code)'
  <2>1. Coupons!Fits(couponsProc[q]) /\ couponsProc'[q] = couponsProc[q]
    BY CouponsKnown DEF CouponsMoved
  <2>2. PICK d \in Coupons!Codes : d = couponsProc[q].code
    BY <1>5, <2>1 DEF Coupons!Fits, Coupons!Spending
  <2>3. couponsCoupon[d].owed => couponsCoupon'[d].owed
    BY <1>2, CouponsOpsKnown
  <2>. QED BY <1>5, <2>1, <2>2, <2>3 DEF CouponsWaits
<1>. QED BY <1>2, <1>3, <1>4, <1>5 DEF CouponsFrame, CouponsHolding

LEMMA CouponsTouchTypes ==
    ASSUME Coupons!TypeOK, NEW p \in Requests, CouponsMoved(p), NEW c \in Coupons!Codes, NEW r,
           CouponsTouches(p, c, r),
           UNCHANGED <<couponsPartner, couponsIdem, couponsUsed, couponsDebited, couponsCredits,
                       couponsPaid, couponsLoose, couponsDropped>>,
           couponsFreed' \in [Coupons!Codes -> Nat],
           couponsLeft' \in [{"ask", "admin", "fault"} -> Nat]
    PROVE  Coupons!TypeOK'
<1>1. couponsCoupon' \in [Coupons!Codes -> Coupons!Records]
  BY DEF Coupons!TypeOK, CouponsTouches
<1>. QED BY <1>1 DEF Coupons!TypeOK, CouponsMoved

CouponsTop(st) == IF st \in Coupons!Over THEN 1 ELSE 0

\* A coupon that changes keeps its refund and the room for its payments.
LEMMA CouponsKeptChanges ==
    ASSUME Coupons!IInv, NEW c \in Coupons!Codes,
           UNCHANGED <<couponsPartner, couponsDebited, couponsCredits, couponsDropped>>,
           couponsPaid'[c] = couponsPaid[c], couponsFreed'[c] \in Nat,
           couponsFreed'[c] >= couponsFreed[c], Coupons!Pays(c)' \subseteq Coupons!Pays(c),
           couponsCoupon'[c].st # "absent", couponsCoupon'[c].op \in couponsDebited,
           couponsCoupon'[c].owed => /\ couponsCoupon'[c].st = "void"
                                        /\ couponsCoupon'[c].op = couponsCoupon[c].op
                                     /\ \/ couponsCoupon[c].owed
                                        \/ /\ couponsFreed[c] > 0
                                              \/ (couponsPaid[c] = 0 /\ Coupons!Pays(c) = {})
                                           /\ c \in couponsPartner.refunds \/ couponsDropped,
           couponsCoupon[c].owed => couponsCoupon'[c].owed,
           couponsFreed[c] + CouponsTop(couponsCoupon[c].st) <= couponsFreed'[c]
           + CouponsTop(couponsCoupon'[c].st)
    PROVE  Coupons!Kept(c)'
<1>1. Coupons!Kept(c) /\ IsFiniteSet(Coupons!Pays(c)) /\ couponsPaid[c] \in Nat
      /\ couponsFreed[c] \in Nat
  <2>1. Coupons!Pays(c) \in SUBSET Requests
    BY DEF Coupons!Pays
  <2>2. IsFiniteSet(Coupons!Pays(c))
    BY <2>1, CouponConstants, CouponsSubset
  <2>. QED BY <2>2, CouponsKnown DEF Coupons!TypeOK
<1>2. PICK S : S = Coupons!Pays(c)'
  OBVIOUS
<1>3. IsFiniteSet(S) /\ Coupons!Cardinality(S) <= Coupons!Cardinality(Coupons!Pays(c))
      /\ S \subseteq Coupons!Pays(c)
  BY <1>1, <1>2, CouponsSubset
<1>4. Coupons!Cardinality(S) \in Nat /\ Coupons!Cardinality(Coupons!Pays(c)) \in Nat
  BY <1>1, <1>3, CouponsCardinalityType
<1>5. PICK n \in {0, 1}, m \in {0, 1} :
         n = CouponsTop(couponsCoupon[c].st) /\ m = CouponsTop(couponsCoupon'[c].st)
  BY DEF CouponsTop
<1>6. couponsPaid[c] + Coupons!Cardinality(Coupons!Pays(c)) <= couponsFreed[c] + n
  BY <1>1, <1>5 DEF Coupons!Kept, CouponsTop
<1>7. couponsFreed[c] + n <= couponsFreed'[c] + m
  BY <1>5
<1>8. couponsPaid'[c] + Coupons!Cardinality(S) <= couponsFreed'[c] + m
  BY <1>1, <1>3, <1>4, <1>5, <1>6, <1>7
<1>9. couponsPaid'[c] + Coupons!Cardinality(S) <= couponsFreed'[c]
      + (IF couponsCoupon'[c].st \in Coupons!Over THEN 1 ELSE 0)
  BY <1>5, <1>8 DEF CouponsTop
<1>10. couponsCoupon'[c].owed => couponsCoupon'[c].st = "void"
       /\ (couponsFreed'[c] > 0 \/ (couponsPaid'[c] = 0 /\ S = {}))
  BY <1>1, <1>3 DEF Coupons!Kept
<1>11. <<"refund", c>> \in couponsPartner'.applied => couponsCoupon'[c].owed
  BY <1>1 DEF Coupons!Kept
<1>12. couponsCoupon'[c].owed /\ couponsCredits'[couponsCoupon'[c].op] = 0
       => c \in couponsPartner'.refunds \/ couponsDropped'
  BY <1>1 DEF Coupons!Kept
<1>. QED BY <1>2, <1>9, <1>10, <1>11, <1>12 DEF Coupons!Kept

\* The rest of the invariant does not depend on what the coupon became.
LEMMA CouponsTouchKeeps ==
    ASSUME Coupons!IInv, Coupons!TypeOK', NEW p \in Requests, CouponsMoved(p),
           NEW c \in Coupons!Codes, NEW r, CouponsTouches(p, c, r), CouponsHolding(p),
           UNCHANGED <<couponsPartner, couponsUsed, couponsDebited, couponsCredits, couponsPaid,
                       couponsLoose, couponsDropped>>,
           \A d \in Coupons!Codes \ {c} : couponsFreed'[d] = couponsFreed[d],
           couponsProc'[p].pc = "pay" => couponsProc'[p].code = c \/ couponsProc'[p] = couponsProc[p],
           Coupons!Fits(couponsProc[p])', Coupons!Kept(c)'
    PROVE  Coupons!IInv'
<1>1. CouponsFrame(p)
  BY CouponsTouchFrame
<1>2. Coupons!TypeOK /\ \A d \in Coupons!Codes \ {c} : couponsCoupon'[d] = couponsCoupon[d]
  BY CouponsKnown DEF Coupons!TypeOK, CouponsTouches
<1>3. \A d \in Coupons!Codes \ {c} : Coupons!Pays(d)' \subseteq Coupons!Pays(d)
  BY DEF Coupons!Pays, Coupons!At, CouponsMoved
<1>4. \A d \in Coupons!Codes \ {c} : Coupons!Kept(d)'
  BY <1>2, <1>3, CouponsKeptStays
<1>5. \A o \in Coupons!Ops : Coupons!Backed(o)'
  BY <1>1, CouponsBackedStays
<1>6. Coupons!Charged' /\ couponsDebited' \subseteq couponsUsed'
      /\ \A i \in couponsPartner'.issues : i[1] \in couponsDebited'
  BY CouponsKnown DEF Coupons!Charged, Coupons!Live
<1>. QED BY <1>1, <1>4, <1>5, <1>6, CouponsKeeps

\* Going idle, or on with the same operation, after a change of a coupon.
LEMMA CouponsIdleHolds ==
    ASSUME Coupons!TypeOK, NEW p \in Requests, Coupons!Done(p)
    PROVE  CouponsMoved(p) /\ CouponsHolding(p) /\ Coupons!Fits(couponsProc[p])'
           /\ couponsProc'[p] = Coupons!Idle /\ couponsProc'[p].pc = "idle"
<1>1. CouponsMoved(p) /\ couponsProc'[p] = Coupons!Idle
  BY CouponsIdleTyped, CouponsBecomesMoves DEF Coupons!Done
<1>2. couponsProc'[p].pc = "idle" /\ couponsProc'[p].op = Coupons!Nothing
  BY <1>1, CouponsIdleTyped
<1>3. Coupons!Fits(couponsProc[p])'
  BY <1>2 DEF Coupons!Fits, Coupons!Making, Coupons!Booking, Coupons!Spending
<1>4. CouponsHolding(p)
  BY <1>2 DEF CouponsHolding, Coupons!Drawing, Coupons!Booking
<1>. QED BY <1>1, <1>2, <1>3, <1>4

\* Only the payer's own claim may change while it pays.
LEMMA CouponsPaysFall ==
    ASSUME NEW p \in Requests, CouponsMoved(p), couponsProc'[p].pc # "pay", NEW c \in Coupons!Codes
    PROVE  Coupons!Pays(c)' \subseteq Coupons!Pays(c)
  BY DEF Coupons!Pays, Coupons!At, CouponsMoved

LEMMA CouponsCreateKeeps ==
    ASSUME Coupons!IInv, NEW p \in Requests, Coupons!Create(p)
    PROVE  Coupons!IInv'
<1>1. /\ Coupons!TypeOK /\ Coupons!Fits(couponsProc[p]) /\ Coupons!Drawn(p)
         /\ couponsProc[p].pc = "create"
      /\ UNCHANGED <<couponsPartner, couponsIdem, couponsUsed, couponsDebited, couponsCredits,
                     couponsPaid, couponsFreed, couponsLoose, couponsDropped, couponsLeft>>
      /\ couponsDebited \subseteq Coupons!Ops
         /\ \A i \in couponsPartner.issues : i[1] \in couponsDebited
  BY CouponsKnown DEF Coupons!Create, Coupons!At, Coupons!history, Coupons!TypeOK
<1>2. couponsProc[p].op \in couponsDebited /\ couponsProc[p].op \in Coupons!Ops
      /\ couponsProc[p].code \in Coupons!Codes /\ Coupons!Drawing(p)
         /\ couponsProc[p].key = Coupons!IssueKey
  BY <1>1 DEF Coupons!Fits, Coupons!Making, Coupons!Drawing
<1>3. PICK o \in Coupons!Ops, c \in Coupons!Codes : o = couponsProc[p].op /\ c = couponsProc[p].code
  BY <1>2
<1>4. CASE couponsCoupon[c].st = "absent"
  <2>. DEFINE r == [Coupons!Absent EXCEPT !.st = "issued", !.op = o]
  <2>1. r \in Coupons!Records /\ r.st = "issued" /\ r.op = o /\ r.owed = FALSE
    BY DEF Coupons!Absent, Coupons!Records, Coupons!Over
  <2>2. couponsCoupon' = [couponsCoupon EXCEPT ![c] = r] /\ Coupons!Go(p, "confirm")
    BY <1>3, <1>4 DEF Coupons!Create
  <2>. HIDE DEF r
  <2>3. /\ CouponsMoved(p) /\ couponsProc'[p].pc = "confirm" /\ couponsProc'[p].op = o
           /\ couponsProc'[p].code = c
    BY <1>1, <1>3, <2>2, CouponsGoMoves DEF Coupons!Places, Coupons!Making
  <2>4. ~Coupons!Drawing(p)' /\ CouponsHolding(p)
    BY <1>3, <2>3 DEF Coupons!Drawing, Coupons!Booking, CouponsHolding, Coupons!Pair
  <2>5. CouponsTouches(p, c, r)
    BY <1>2, <1>3, <1>4, <2>1, <2>2, <2>4 DEF CouponsTouches
  <2>6. Coupons!TypeOK'
    BY <1>1, <2>3, <2>5, CouponsTouchTypes DEF Coupons!TypeOK
  <2>7. couponsCoupon'[c] = r
    BY <1>1, <2>2 DEF Coupons!TypeOK
  <2>8. Coupons!Ours(c, o)'
    BY <2>1, <2>7 DEF Coupons!Ours, Coupons!Tomb
  <2>9. Coupons!Fits(couponsProc[p])'
    <3>1. PICK l : l = couponsProc'[p]
      OBVIOUS
    <3>2. l.pc = "confirm" /\ l.op = o /\ l.code = c
      BY <2>3, <3>1
    <3>3. Coupons!Fits(l)'
      BY <1>1, <1>2, <1>3, <2>8, <3>2 DEF Coupons!Fits, Coupons!Making, Coupons!Booking,
           Coupons!Spending
    <3>. QED BY <3>1, <3>3
  <2>10. Coupons!Kept(c)'
    <3>1. Coupons!Pays(c)' \subseteq Coupons!Pays(c)
      BY <2>3, CouponsPaysFall
    <3>2. ~couponsCoupon[c].owed /\ couponsFreed[c] \in Nat /\ couponsPaid[c] \in Nat
      BY <1>1, <1>4, CouponsOpsKnown DEF Coupons!TypeOK
    <3>3. couponsFreed[c] + CouponsTop(couponsCoupon[c].st) <= couponsFreed'[c]
          + CouponsTop(couponsCoupon'[c].st)
      BY <1>1, <1>4, <2>1, <2>7, <3>2 DEF CouponsTop, Coupons!Over
    <3>. QED BY <1>1, <1>2, <1>3, <2>1, <2>7, <3>1, <3>2, <3>3, CouponsKeptChanges
  <2>. QED BY <1>1, <2>3, <2>4, <2>5, <2>6, <2>9, <2>10, CouponsTouchKeeps
<1>5. CASE couponsCoupon[c].st # "absent"
  <2>1. Coupons!Go(p, "collided") /\ CouponsQuiet
    BY <1>1, <1>3, <1>5 DEF Coupons!Create, Coupons!Go, CouponsQuiet
  <2>2. ~Coupons!Ours(c, o)
    BY <1>1, <1>2, <1>3 DEF Coupons!Drawn, Coupons!Ours, Coupons!Drawing
  <2>3. Coupons!Dead(o)
    BY <1>2, <1>3, <1>5, <2>2, CouponsLostCode
  <2>4. \A r \in Coupons!Locals : r.pc = "collided" /\ r.op = couponsProc[p].op
        /\ r.code = couponsProc[p].code /\ r.key = couponsProc[p].key
                                  => Coupons!Fits(r)
    BY <1>2, <1>3, <2>3 DEF Coupons!Fits, Coupons!Booking, Coupons!Making, Coupons!Spending
  <2>5. "collided" \in Coupons!Places /\ "collided" \notin Coupons!Booking \cup {"create"}
    BY DEF Coupons!Places, Coupons!Making, Coupons!Booking
  <2>6. /\ CouponsMoved(p) /\ couponsProc'[p].pc \notin {"pay", "flip"} /\ Coupons!Fits(couponsProc'[p])
        /\ \/ couponsProc'[p].op = Coupons!Nothing /\ ~Coupons!Drawing(p)'
           \/ /\ Coupons!Pair(couponsProc'[p].op, couponsProc'[p].code)
              /\ Coupons!Drawing(p)' => Coupons!Drawing(p) /\ couponsProc'[p].op = couponsProc[p].op
                 /\ couponsProc'[p].code = couponsProc[p].code
    BY <2>1, <2>4, <2>5, CouponsOnMoves
  <2>. QED BY <2>1, <2>6, CouponsQuietKeeps
<1>. QED BY <1>4, <1>5
LEMMA CouponsTombstoneKeeps ==
    ASSUME Coupons!IInv, NEW p \in Requests, Coupons!Tombstone(p)
    PROVE  Coupons!IInv'
<1>1. /\ Coupons!TypeOK /\ Coupons!Fits(couponsProc[p]) /\ Coupons!Paired /\ couponsProc[p].pc = "tomb"
      /\ UNCHANGED <<couponsPartner, couponsIdem, couponsUsed, couponsDebited, couponsCredits,
                     couponsPaid, couponsFreed, couponsLoose, couponsDropped, couponsLeft>>
      /\ couponsDebited \subseteq Coupons!Ops
  BY CouponsKnown DEF Coupons!Tombstone, Coupons!At, Coupons!history, Coupons!TypeOK
<1>2. couponsProc[p].op \in couponsDebited /\ couponsProc[p].op \in Coupons!Ops
      /\ couponsProc[p].code \in Coupons!Codes /\ ~Coupons!Drawing(p)
  BY <1>1 DEF Coupons!Fits, Coupons!Making, Coupons!Drawing, Coupons!Booking
<1>3. PICK o \in Coupons!Ops, c \in Coupons!Codes : o = couponsProc[p].op /\ c = couponsProc[p].code
  BY <1>2
<1>4. CASE couponsCoupon[c].st = "absent"
  <2>. DEFINE r == [Coupons!Absent EXCEPT !.st = "tomb", !.op = o]
  <2>1. r \in Coupons!Records /\ r.st = "tomb" /\ r.op = o /\ r.owed = FALSE
    BY DEF Coupons!Absent, Coupons!Records, Coupons!Over
  <2>2. couponsCoupon' = [couponsCoupon EXCEPT ![c] = r] /\ Coupons!Go(p, "unissue")
    BY <1>3, <1>4 DEF Coupons!Tombstone
  <2>. HIDE DEF r
  <2>3. /\ CouponsMoved(p) /\ couponsProc'[p].pc = "unissue" /\ couponsProc'[p].op = o
           /\ couponsProc'[p].code = c
    BY <1>1, <1>3, <2>2, CouponsGoMoves DEF Coupons!Places, Coupons!Making
  <2>4. ~Coupons!Drawing(p)' /\ CouponsHolding(p)
    BY <1>3, <2>3 DEF Coupons!Drawing, Coupons!Booking, CouponsHolding, Coupons!Pair
  <2>5. CouponsTouches(p, c, r)
    BY <1>2, <1>3, <1>4, <2>1, <2>2, <2>4 DEF CouponsTouches
  <2>6. Coupons!TypeOK'
    BY <1>1, <2>3, <2>5, CouponsTouchTypes DEF Coupons!TypeOK
  <2>7. couponsCoupon'[c] = r /\ \A d \in Coupons!Codes \ {c} : couponsCoupon'[d] = couponsCoupon[d]
    BY <1>1, <2>2 DEF Coupons!TypeOK
  <2>8. Coupons!Dead(o)'
    <3>1. Coupons!Pair(o, c) /\ \A d \in Coupons!Codes : Coupons!Pair(o, d) => d = c
      BY <1>1, <1>3 DEF Coupons!Pair, Coupons!Paired
    <3>2. ASSUME NEW d \in Coupons!Codes,
    couponsCoupon'[d].op = o PROVE couponsCoupon'[d].st = "tomb"
      BY <2>1, <2>7, <3>1, <3>2 DEF Coupons!Pair
    <3>3. ASSUME NEW q \in Requests, Coupons!Drawing(q)',
    couponsProc'[q].op = o PROVE couponsCoupon'[couponsProc'[q].code].st # "absent"
      <4>1. q # p /\ couponsProc'[q] = couponsProc[q] /\ Coupons!Drawing(q)
        BY <2>3, <2>4, <3>3 DEF CouponsMoved, Coupons!Drawing
      <4>2. couponsProc[q].code = c
        BY <3>1, <3>3, <4>1, CouponsDrawingPairs
      <4>. QED BY <2>1, <2>7, <4>1, <4>2
    <3>. QED BY <3>2, <3>3 DEF Coupons!Dead, Coupons!Tomb
  <2>9. Coupons!Fits(couponsProc[p])'
    <3>1. PICK l : l = couponsProc'[p]
      OBVIOUS
    <3>2. l.pc = "unissue" /\ l.op = o /\ l.code = c
      BY <2>3, <3>1
    <3>3. Coupons!Fits(l)'
      BY <1>1, <1>2, <1>3, <2>8, <3>2 DEF Coupons!Fits, Coupons!Making, Coupons!Booking,
           Coupons!Spending
    <3>. QED BY <3>1, <3>3
  <2>10. Coupons!Kept(c)'
    <3>1. Coupons!Pays(c)' \subseteq Coupons!Pays(c)
      BY <2>3, CouponsPaysFall
    <3>2. ~couponsCoupon[c].owed /\ couponsFreed[c] \in Nat /\ couponsPaid[c] \in Nat
      BY <1>1, <1>4, CouponsOpsKnown DEF Coupons!TypeOK
    <3>3. couponsFreed[c] + CouponsTop(couponsCoupon[c].st) <= couponsFreed'[c]
          + CouponsTop(couponsCoupon'[c].st)
      BY <1>1, <1>4, <2>1, <2>7, <3>2 DEF CouponsTop, Coupons!Over
    <3>. QED BY <1>1, <1>2, <1>3, <2>1, <2>7, <3>1, <3>2, <3>3, CouponsKeptChanges
  <2>. QED BY <1>1, <2>3, <2>4, <2>5, <2>6, <2>9, <2>10, CouponsTouchKeeps
<1>5. CASE couponsCoupon[c].st # "absent"
  <2>1. Coupons!Go(p, "reinspect") /\ CouponsQuiet
    BY <1>1, <1>3, <1>5 DEF Coupons!Tombstone, CouponsQuiet
  <2>2. \A r \in Coupons!Locals : r.pc = "reinspect" /\ r.op = couponsProc[p].op
        /\ r.code = couponsProc[p].code => Coupons!Fits(r)
    BY <1>2 DEF Coupons!Fits, Coupons!Booking, Coupons!Making, Coupons!Spending
  <2>3. "reinspect" \in Coupons!Places /\ "reinspect" \notin Coupons!Booking \cup {"create"}
    BY DEF Coupons!Places, Coupons!Making, Coupons!Booking
  <2>4. /\ CouponsMoved(p) /\ couponsProc'[p].pc \notin {"pay", "flip"} /\ Coupons!Fits(couponsProc'[p])
        /\ \/ couponsProc'[p].op = Coupons!Nothing /\ ~Coupons!Drawing(p)'
           \/ /\ Coupons!Pair(couponsProc'[p].op, couponsProc'[p].code)
              /\ Coupons!Drawing(p)' => Coupons!Drawing(p) /\ couponsProc'[p].op = couponsProc[p].op
                 /\ couponsProc'[p].code = couponsProc[p].code
    BY <2>1, <2>2, <2>3, CouponsOnMoves
  <2>. QED BY <2>1, <2>4, CouponsQuietKeeps
<1>. QED BY <1>4, <1>5

\* A request that spends a coupon relies on nothing but having its code.
LEMMA CouponsSpendFits ==
    ASSUME NEW l, l.pc \in {"intent_seen", "drop", "redeem", "pay", "finalize"},
           l.code \in Coupons!Codes
    PROVE  Coupons!Fits(l) /\ Coupons!Fits(l)'
  BY DEF Coupons!Fits, Coupons!Making, Coupons!Booking, Coupons!Spending

LEMMA CouponsFlipKeeps ==
    ASSUME Coupons!IInv, NEW p \in Requests, Coupons!Flip(p)
    PROVE  Coupons!IInv'
<1>1. /\ Coupons!TypeOK /\ Coupons!Fits(couponsProc[p]) /\ couponsProc[p].pc = "flip"
      /\ UNCHANGED <<couponsPartner, couponsIdem, couponsUsed, couponsDebited, couponsCredits,
                     couponsPaid, couponsFreed, couponsLoose, couponsDropped, couponsLeft>>
  BY CouponsKnown DEF Coupons!Flip, Coupons!At, Coupons!history
<1>2. PICK c \in Coupons!Codes : c = couponsProc[p].code
  BY <1>1 DEF Coupons!Fits, Coupons!Spending
<1>3. PICK k \in Coupons!Keys :
         k = <<"refund", c>> /\ k # Coupons!IssueKey /\ k[1] = "refund" /\ k[2] = c
  BY CouponsKeyKinds
<1>4. CASE couponsCoupon[c].st = "issued"
  <2>. DEFINE r == [couponsCoupon[c] EXCEPT !.st = "void", !.owed = TRUE, !.by = Coupons!Nothing]
  <2>1. couponsCoupon[c] \in [st : Coupons!Over \cup {"absent", "issued", "tomb", "redeeming"},
                              op : Coupons!Ops \cup {Coupons!Nothing},
                              owed : BOOLEAN, by : Requests \cup {Coupons!Nothing}]
    BY <1>1 DEF Coupons!TypeOK, Coupons!Records
  <2>2. r \in Coupons!Records /\ r.st = "void" /\ r.op = couponsCoupon[c].op /\ r.owed = TRUE
    BY <2>1 DEF Coupons!Records, Coupons!Over
  <2>3. couponsCoupon' = [couponsCoupon EXCEPT ![c] = r] /\ Coupons!Ledger(p, k, "idle")
    BY <1>2, <1>3, <1>4 DEF Coupons!Flip
  <2>. HIDE DEF r
  <2>4. CouponsMoved(p) /\ couponsProc'[p].pc = "claim" /\ couponsProc'[p].op = couponsProc[p].op
        /\ couponsProc'[p].code = couponsProc[p].code
        /\ couponsProc'[p].key = k
    BY <1>1, <2>3, CouponsLedgerMoves
  <2>5. CouponsHolding(p)
    BY <1>3, <2>4 DEF Coupons!Drawing, CouponsHolding, Coupons!Pair
  <2>6. CouponsTouches(p, c, r)
    BY <1>4, <2>2, <2>3 DEF CouponsTouches
  <2>7. Coupons!TypeOK'
    BY <1>1, <2>4, <2>6, CouponsTouchTypes DEF Coupons!TypeOK
  <2>8. couponsCoupon'[c] = r
    BY <1>1, <2>3 DEF Coupons!TypeOK
  <2>9. Coupons!Fits(couponsProc[p])'
    <3>1. PICK l : l = couponsProc'[p]
      OBVIOUS
    <3>2. l.pc = "claim" /\ l.key = k
      BY <2>4, <3>1
    <3>3. couponsCoupon'[c].owed
      BY <2>2, <2>8
    <3>4. Coupons!Fits(l)'
      BY <1>3, <3>2, <3>3 DEF Coupons!Fits, Coupons!Making, Coupons!Booking, Coupons!Spending
    <3>. QED BY <3>1, <3>4
  <2>10. Coupons!Kept(c)'
    <3>1. Coupons!Pays(c)' \subseteq Coupons!Pays(c)
      BY <2>4, CouponsPaysFall
    <3>2. Coupons!Kept(c) /\ couponsFreed[c] \in Nat /\ couponsPaid[c] \in Nat
          /\ couponsCoupon[c].op \in couponsDebited
      BY <1>1, <1>4, CouponsKnown, CouponsOpsKnown DEF Coupons!TypeOK
    <3>3. couponsFreed[c] + CouponsTop(couponsCoupon[c].st) <= couponsFreed'[c]
          + CouponsTop(couponsCoupon'[c].st)
      BY <1>1, <1>4, <2>2, <2>8, <3>2 DEF CouponsTop, Coupons!Over
    <3>4. couponsFreed[c] > 0 \/ (couponsPaid[c] = 0 /\ Coupons!Pays(c) = {})
      <4>1. IsFiniteSet(Coupons!Pays(c))
        <5>1. Coupons!Pays(c) \in SUBSET Requests
          BY DEF Coupons!Pays
        <5>. QED BY <5>1, CouponConstants, CouponsSubset
      <4>2. Coupons!Cardinality(Coupons!Pays(c)) \in Nat
            /\ (Coupons!Cardinality(Coupons!Pays(c)) = 0 => Coupons!Pays(c) = {})
        BY <4>1, CouponsCardinalityType, CouponsEmptySet
      <4>3. couponsPaid[c] + Coupons!Cardinality(Coupons!Pays(c)) <= couponsFreed[c]
        BY <1>4, <3>2 DEF Coupons!Kept, Coupons!Over
      <4>. QED BY <3>2, <4>2, <4>3
    <3>5. c \in couponsPartner.refunds \/ couponsDropped
      BY <1>1, <1>2, <1>4, <3>2 DEF Coupons!Fits, Coupons!Kept
    <3>. QED BY <1>1, <2>2, <2>8, <3>1, <3>2, <3>3, <3>4, <3>5, CouponsKeptChanges
  <2>. QED BY <1>1, <2>4, <2>5, <2>6, <2>7, <2>9, <2>10, CouponsTouchKeeps
<1>5. CASE couponsCoupon[c].st # "issued" /\ couponsCoupon[c].owed
  <2>1. CouponsQuiet /\ Coupons!Ledger(p, k, "idle")
    BY <1>1, <1>2, <1>3, <1>5 DEF Coupons!Flip, CouponsQuiet
  <2>2. /\ CouponsMoved(p) /\ couponsProc'[p].pc \notin {"pay", "flip"} /\ Coupons!Fits(couponsProc'[p])
        /\ Coupons!Pair(couponsProc'[p].op, couponsProc'[p].code) /\ ~Coupons!Drawing(p)'
    BY <1>3, <1>5, <2>1, CouponsLedgerFits
  <2>. QED BY <2>1, <2>2, CouponsQuietKeeps
<1>6. CASE couponsCoupon[c].st # "issued" /\ ~couponsCoupon[c].owed
  <2>1. CouponsQuiet /\ Coupons!Go(p, "drop")
    BY <1>1, <1>2, <1>6 DEF Coupons!Flip, CouponsQuiet
  <2>2. \A r \in Coupons!Locals : r.pc = "drop" /\ r.code = couponsProc[p].code => Coupons!Fits(r)
    BY <1>2, CouponsSpendFits
  <2>3. "drop" \in Coupons!Places /\ "drop" \notin Coupons!Booking \cup {"create"}
    BY DEF Coupons!Places, Coupons!Spending, Coupons!Booking
  <2>4. /\ CouponsMoved(p) /\ couponsProc'[p].pc \notin {"pay", "flip"} /\ Coupons!Fits(couponsProc'[p])
        /\ \/ couponsProc'[p].op = Coupons!Nothing /\ ~Coupons!Drawing(p)'
           \/ /\ Coupons!Pair(couponsProc'[p].op, couponsProc'[p].code)
              /\ Coupons!Drawing(p)' => Coupons!Drawing(p) /\ couponsProc'[p].op = couponsProc[p].op
                 /\ couponsProc'[p].code = couponsProc[p].code
    BY <2>1, <2>2, <2>3, CouponsOnMoves
  <2>. QED BY <2>1, <2>4, CouponsQuietKeeps
<1>. QED BY <1>4, <1>5, <1>6

LEMMA CouponsRedeemKeeps ==
    ASSUME Coupons!IInv, NEW p \in Requests, NEW c \in Coupons!Codes, Coupons!Redeem(p, c)
    PROVE  Coupons!IInv'
<1>1. /\ Coupons!TypeOK /\ Coupons!Fits(couponsProc[p]) /\ couponsProc[p].pc = "idle"
         /\ couponsCoupon[c].st \in {"issued", "redeeming"}
      /\ UNCHANGED <<couponsPartner, couponsIdem, couponsUsed, couponsDebited, couponsCredits,
                     couponsPaid, couponsFreed, couponsLoose, couponsDropped>>
      /\ couponsLeft' \in [{"ask", "admin", "fault"} -> Nat]
  BY CouponsKnown, CouponsSpendTyped DEF Coupons!Redeem, Coupons!At, Coupons!history
<1>2. couponsProc[p].op = Coupons!Nothing /\ couponsCoupon[c].op \in couponsDebited
      /\ ~couponsCoupon[c].owed
  BY <1>1, CouponsOpsKnown, CouponsKnown DEF Coupons!Fits, Coupons!Kept
<1>. DEFINE r == [couponsCoupon[c] EXCEPT !.st = "redeeming", !.by = p]
            l == [couponsProc[p] EXCEPT !.pc = "redeem", !.code = c]
<1>3. couponsCoupon[c] \in [st : Coupons!Over \cup {"absent", "issued", "tomb", "redeeming"},
                            op : Coupons!Ops \cup {Coupons!Nothing},
                            owed : BOOLEAN, by : Requests \cup {Coupons!Nothing}]
  BY <1>1 DEF Coupons!TypeOK, Coupons!Records
<1>4. r \in Coupons!Records /\ r.st = "redeeming" /\ r.op = couponsCoupon[c].op
      /\ r.owed = couponsCoupon[c].owed
  BY <1>3 DEF Coupons!Records
<1>5. couponsProc[p] \in [pc : Coupons!Places, op : Coupons!Ops \cup {Coupons!Nothing},
                   code : Coupons!Codes \cup {Coupons!Nothing}, key : Coupons!Keys,
                   ret : {"idle", "draw", "uncollide"},
                   app : Coupons!Codes \cup {Coupons!Nothing},
                   fly : Coupons!Codes \cup {Coupons!Nothing}, again : BOOLEAN]
  BY <1>1, CouponsTyped DEF Coupons!Locals
<1>6. l \in Coupons!Locals /\ l.pc = "redeem" /\ l.code = c /\ l.op = Coupons!Nothing
  BY <1>2, <1>5 DEF Coupons!Locals, Coupons!Places, Coupons!Spending
<1>7. couponsCoupon' = [couponsCoupon EXCEPT ![c] = r] /\ couponsProc' = [couponsProc EXCEPT ![p] = l]
  BY DEF Coupons!Redeem
<1>. HIDE DEF r, l
<1>8. CouponsMoved(p) /\ couponsProc'[p] = l
  BY <1>1, <1>6, <1>7, CouponsBecomesMoves
<1>9. CouponsHolding(p)
  BY <1>6, <1>8 DEF CouponsHolding, Coupons!Drawing, Coupons!Booking
<1>10. CouponsTouches(p, c, r)
  BY <1>1, <1>4, <1>7 DEF CouponsTouches
<1>11. Coupons!TypeOK'
  BY <1>1, <1>8, <1>10, CouponsTouchTypes DEF Coupons!TypeOK
<1>12. couponsCoupon'[c] = r
  BY <1>1, <1>7 DEF Coupons!TypeOK
<1>13. Coupons!Fits(couponsProc[p])'
  <2>1. PICK m : m = couponsProc'[p]
    OBVIOUS
  <2>2. Coupons!Fits(m)'
    BY <1>6, <1>8, <2>1, CouponsSpendFits
  <2>. QED BY <2>1, <2>2
<1>14. Coupons!Kept(c)'
  <2>1. Coupons!Pays(c)' \subseteq Coupons!Pays(c)
    BY <1>6, <1>8, CouponsPaysFall
  <2>2. couponsFreed[c] \in Nat
    BY <1>1 DEF Coupons!TypeOK
  <2>3. couponsFreed[c] + CouponsTop(couponsCoupon[c].st) <= couponsFreed'[c]
        + CouponsTop(couponsCoupon'[c].st)
    BY <1>1, <1>4, <1>12, <2>2 DEF CouponsTop, Coupons!Over
  <2>. QED BY <1>1, <1>2, <1>4, <1>12, <2>1, <2>2, <2>3, CouponsKeptChanges
<1>. QED BY <1>1, <1>6, <1>8, <1>9, <1>10, <1>11, <1>13, <1>14, CouponsTouchKeeps

\* A claim is given back, or a payment is finished: the request is done.
LEMMA CouponsDoneKeeps ==
    ASSUME Coupons!IInv, NEW p \in Requests, Coupons!Done(p), NEW c \in Coupons!Codes,
           NEW st \in {"issued", "redeemed", "manual_review"},
           UNCHANGED <<couponsPartner, couponsIdem, couponsUsed, couponsDebited, couponsCredits,
                       couponsPaid, couponsFreed, couponsLoose, couponsDropped, couponsLeft>>,
           \/ UNCHANGED couponsCoupon
           \/ /\ couponsCoupon' = [couponsCoupon EXCEPT ![c].st = st, ![c].by = Coupons!Nothing]
                 \/ couponsCoupon' = [couponsCoupon EXCEPT ![c].st = st]
              /\ couponsCoupon[c].st \in {"redeeming", "paying"}
              /\ st = "issued" => couponsCoupon[c].st = "redeeming"
    PROVE  Coupons!IInv'
<1>1. Coupons!TypeOK
  BY CouponsKnown
<1>2. CouponsMoved(p) /\ CouponsHolding(p) /\ Coupons!Fits(couponsProc[p])'
      /\ couponsProc'[p] = Coupons!Idle /\ couponsProc'[p].pc = "idle"
  BY <1>1, CouponsIdleHolds
<1>3. CASE UNCHANGED couponsCoupon
  BY <1>3, CouponsIdleTyped, CouponsFreshMoves, CouponsQuietKeeps DEF CouponsQuiet, Coupons!Done
<1>4. ASSUME NEW b \in Requests \cup {Coupons!Nothing},
couponsCoupon' = [couponsCoupon EXCEPT ![c].st = st, ![c].by = b],
             couponsCoupon[c].st \in {"redeeming", "paying"},
             st = "issued" => couponsCoupon[c].st = "redeeming"
      PROVE  Coupons!IInv'
  <2>. DEFINE r == [couponsCoupon[c] EXCEPT !.st = st, !.by = b]
  <2>1. couponsCoupon[c] \in [st : Coupons!Over \cup {"absent", "issued", "tomb", "redeeming"},
                              op : Coupons!Ops \cup {Coupons!Nothing},
                              owed : BOOLEAN, by : Requests \cup {Coupons!Nothing}]
    BY <1>1 DEF Coupons!TypeOK, Coupons!Records
  <2>2. r \in Coupons!Records /\ r.st = st /\ r.op = couponsCoupon[c].op
        /\ r.owed = couponsCoupon[c].owed
    BY <2>1 DEF Coupons!Records, Coupons!Over
  <2>3. couponsCoupon' = [couponsCoupon EXCEPT ![c] = r]
    BY <1>4
  <2>. HIDE DEF r
  <2>4. CouponsTouches(p, c, r)
    BY <1>4, <2>2, <2>3 DEF CouponsTouches
  <2>5. Coupons!TypeOK'
    BY <1>1, <1>2, <2>4, CouponsTouchTypes DEF Coupons!TypeOK
  <2>6. couponsCoupon'[c] = r
    BY <1>1, <2>3 DEF Coupons!TypeOK
  <2>7. Coupons!Kept(c)'
    <3>1. Coupons!Pays(c)' \subseteq Coupons!Pays(c)
      BY <1>2, CouponsPaysFall
    <3>2. couponsFreed[c] \in Nat /\ couponsCoupon[c].op \in couponsDebited /\ ~couponsCoupon[c].owed
      BY <1>1, <1>4, CouponsOpsKnown, CouponsKnown DEF Coupons!TypeOK, Coupons!Kept
    <3>3. couponsFreed[c] + CouponsTop(couponsCoupon[c].st) <= couponsFreed'[c]
          + CouponsTop(couponsCoupon'[c].st)
      BY <1>4, <2>2, <2>6, <3>2 DEF CouponsTop, Coupons!Over
    <3>4. /\ couponsCoupon'[c].st # "absent" /\ couponsCoupon'[c].op \in couponsDebited
             /\ ~couponsCoupon'[c].owed
          /\ couponsPaid'[c] = couponsPaid[c] /\ couponsFreed'[c] \in Nat
             /\ couponsFreed'[c] >= couponsFreed[c]
      BY <1>4, <2>2, <2>6, <3>2
    <3>. QED BY <3>1, <3>2, <3>3, <3>4, CouponsKeptChanges
  <2>. QED BY <1>2, <2>4, <2>5, <2>7, CouponsTouchKeeps
<1>5. CASE couponsCoupon' = [couponsCoupon EXCEPT ![c].st = st]
           /\ couponsCoupon[c].st \in {"redeeming", "paying"}
           /\ (st = "issued" => couponsCoupon[c].st = "redeeming")
  <2>1. PICK b \in Requests \cup {Coupons!Nothing} : b = couponsCoupon[c].by
    BY <1>1 DEF Coupons!TypeOK, Coupons!Records
  <2>2. couponsCoupon
        \in [Coupons!Codes -> [st : Coupons!Over \cup {"absent", "issued", "tomb", "redeeming"},
                               op : Coupons!Ops \cup {Coupons!Nothing},
                                             owed : BOOLEAN, by : Requests \cup {Coupons!Nothing}]]
    BY <1>1 DEF Coupons!TypeOK, Coupons!Records
  <2>3. [couponsCoupon[c] EXCEPT !.st = st] = [couponsCoupon[c] EXCEPT !.st = st, !.by = b]
    BY <2>1, <2>2
  <2>4. couponsCoupon' = [couponsCoupon EXCEPT ![c].st = st, ![c].by = b]
    BY <1>5, <2>2, <2>3
  <2>. QED BY <1>4, <1>5, <2>4
<1>. QED BY <1>3, <1>4, <1>5

LEMMA CouponsRollbackKeeps ==
    ASSUME Coupons!IInv, NEW p \in Requests, Coupons!Rollback(p)
    PROVE  Coupons!IInv'
<1>1. /\ Coupons!Fits(couponsProc[p]) /\ couponsProc[p].pc = "redeem" /\ Coupons!Done(p)
      /\ UNCHANGED <<couponsPartner, couponsIdem, couponsUsed, couponsDebited, couponsCredits,
                     couponsPaid, couponsFreed, couponsLoose, couponsDropped, couponsLeft>>
  BY CouponsKnown DEF Coupons!Rollback, Coupons!At, Coupons!history
<1>2. PICK c \in Coupons!Codes : c = couponsProc[p].code
  BY <1>1 DEF Coupons!Fits, Coupons!Spending
<1>3. \/ UNCHANGED couponsCoupon
      \/ couponsCoupon' = [couponsCoupon EXCEPT ![c].st = "issued", ![c].by = Coupons!Nothing]
         /\ couponsCoupon[c].st = "redeeming"
  BY <1>2 DEF Coupons!Rollback, Coupons!Holds
<1>. QED BY <1>1, <1>3, CouponsDoneKeeps

LEMMA CouponsFinalizeKeeps ==
    ASSUME Coupons!IInv, NEW p \in Requests, Coupons!Finalize(p)
    PROVE  Coupons!IInv'
<1>1. /\ Coupons!Fits(couponsProc[p]) /\ couponsProc[p].pc = "finalize" /\ Coupons!Done(p)
      /\ UNCHANGED <<couponsPartner, couponsIdem, couponsUsed, couponsDebited, couponsCredits,
                     couponsPaid, couponsFreed, couponsLoose, couponsDropped, couponsLeft>>
  BY CouponsKnown DEF Coupons!Finalize, Coupons!At, Coupons!history
<1>2. PICK c \in Coupons!Codes : c = couponsProc[p].code
  BY <1>1 DEF Coupons!Fits, Coupons!Spending
<1>3. PICK st \in {"redeemed", "manual_review"} :
         UNCHANGED couponsCoupon
         \/ (couponsCoupon' = [couponsCoupon EXCEPT ![c].st = st] /\ couponsCoupon[c].st = "paying")
  BY <1>2 DEF Coupons!Finalize, Coupons!Holds
<1>. QED BY <1>1, <1>3, CouponsDoneKeeps
LEMMA CouponsEnterPayingKeeps ==
    ASSUME Coupons!IInv, NEW p \in Requests, Coupons!EnterPaying(p)
    PROVE  Coupons!IInv'
<1>1. /\ Coupons!TypeOK /\ Coupons!Fits(couponsProc[p]) /\ couponsProc[p].pc = "redeem"
      /\ UNCHANGED <<couponsPartner, couponsIdem, couponsUsed, couponsDebited, couponsCredits,
                     couponsPaid, couponsFreed, couponsLoose, couponsDropped, couponsLeft>>
  BY CouponsKnown DEF Coupons!EnterPaying, Coupons!At, Coupons!history
<1>2. PICK c \in Coupons!Codes : c = couponsProc[p].code
  BY <1>1 DEF Coupons!Fits, Coupons!Spending
<1>3. CASE Coupons!Done(p) /\ UNCHANGED couponsCoupon
  BY <1>1, <1>3, CouponsDoneKeeps
<1>4. CASE couponsCoupon[c].st = "redeeming"
           /\ couponsCoupon' = [couponsCoupon EXCEPT ![c].st = "paying"] /\ Coupons!Go(p, "pay")
  <2>. DEFINE r == [couponsCoupon[c] EXCEPT !.st = "paying"]
  <2>1. couponsCoupon[c] \in [st : Coupons!Over \cup {"absent", "issued", "tomb", "redeeming"},
                              op : Coupons!Ops \cup {Coupons!Nothing},
                              owed : BOOLEAN, by : Requests \cup {Coupons!Nothing}]
    BY <1>1 DEF Coupons!TypeOK, Coupons!Records
  <2>2. r \in Coupons!Records /\ r.st = "paying" /\ r.op = couponsCoupon[c].op
        /\ r.owed = couponsCoupon[c].owed
    BY <2>1 DEF Coupons!Records, Coupons!Over
  <2>3. couponsCoupon' = [couponsCoupon EXCEPT ![c] = r]
    BY <1>4
  <2>. HIDE DEF r
  <2>4. CouponsMoved(p) /\ couponsProc'[p].pc = "pay" /\ couponsProc'[p].op = couponsProc[p].op
        /\ couponsProc'[p].code = c
    BY <1>1, <1>2, <1>4, CouponsGoMoves DEF Coupons!Places, Coupons!Spending
  <2>5. CouponsHolding(p)
    BY <1>2, <2>4 DEF CouponsHolding, Coupons!Drawing, Coupons!Booking, Coupons!Pair
  <2>6. CouponsTouches(p, c, r)
    BY <1>4, <2>2, <2>3 DEF CouponsTouches
  <2>7. Coupons!TypeOK'
    BY <1>1, <2>4, <2>6, CouponsTouchTypes DEF Coupons!TypeOK
  <2>8. couponsCoupon'[c] = r
    BY <1>1, <2>3 DEF Coupons!TypeOK
  <2>9. Coupons!Fits(couponsProc[p])'
    <3>1. PICK m : m = couponsProc'[p]
      OBVIOUS
    <3>2. Coupons!Fits(m)'
      BY <2>4, <3>1, CouponsSpendFits
    <3>. QED BY <3>1, <3>2
  <2>10. Coupons!Kept(c)'
    <3>1. Coupons!Kept(c) /\ couponsFreed[c] \in Nat /\ couponsPaid[c] \in Nat
          /\ couponsCoupon[c].op \in couponsDebited
      BY <1>1, <1>4, CouponsOpsKnown, CouponsKnown DEF Coupons!TypeOK
    <3>2. ~couponsCoupon[c].owed
          /\ couponsPaid[c] + Coupons!Cardinality(Coupons!Pays(c)) <= couponsFreed[c]
      BY <1>4, <3>1 DEF Coupons!Kept, Coupons!Over
    <3>3. PICK S : S = Coupons!Pays(c)'
      OBVIOUS
    <3>4. S = Coupons!Pays(c) \cup {p} /\ p \notin Coupons!Pays(c)
      BY <1>1, <1>2, <2>4, <3>3 DEF Coupons!Pays, Coupons!At, CouponsMoved
    <3>5. IsFiniteSet(Coupons!Pays(c))
      <4>1. Coupons!Pays(c) \in SUBSET Requests
        BY DEF Coupons!Pays
      <4>. QED BY <4>1, CouponConstants, CouponsSubset
    <3>6. Coupons!Cardinality(S) = Coupons!Cardinality(Coupons!Pays(c)) + 1
          /\ Coupons!Cardinality(Coupons!Pays(c)) \in Nat
      BY <3>4, <3>5, CouponsAddElement, CouponsCardinalityType
    <3>7. couponsPaid'[c] + Coupons!Cardinality(S) <= couponsFreed'[c] + 1
      BY <1>1, <3>1, <3>2, <3>6
    <3>8. /\ couponsCoupon'[c].st = "paying" /\ couponsCoupon'[c].op \in couponsDebited'
             /\ ~couponsCoupon'[c].owed
          /\ couponsCoupon'[c].st # "absent" /\ couponsCoupon'[c].st \in Coupons!Over
      BY <1>1, <2>2, <2>8, <3>1, <3>2 DEF Coupons!Over
    <3>9. <<"refund", c>> \notin couponsPartner'.applied
      BY <1>1, <3>1, <3>2 DEF Coupons!Kept
    <3>. QED BY <3>3, <3>7, <3>8, <3>9 DEF Coupons!Kept
  <2>. QED BY <1>1, <2>4, <2>5, <2>6, <2>7, <2>9, <2>10, CouponsTouchKeeps
<1>. QED BY <1>2, <1>3, <1>4 DEF Coupons!EnterPaying, Coupons!Holds

LEMMA CouponsResolveKeeps ==
    ASSUME Coupons!IInv, NEW c \in Coupons!Codes, Coupons!Resolve(c)
    PROVE  Coupons!IInv'
<1>1. /\ Coupons!TypeOK /\ couponsCoupon[c].st # "absent"
      /\ UNCHANGED <<couponsPartner, couponsIdem, couponsProc, couponsUsed, couponsDebited,
                     couponsCredits, couponsPaid, couponsLoose, couponsDropped>>
      /\ couponsLeft' \in [{"ask", "admin", "fault"} -> Nat]
  BY CouponsKnown, CouponsSpendTyped DEF Coupons!Resolve
<1>2. PICK p \in Requests : TRUE
  BY CouponConstants
<1>3. Coupons!Kept(c) /\ couponsCoupon[c].op \in couponsDebited
      /\ couponsFreed \in [Coupons!Codes -> Nat] /\ couponsFreed[c] \in Nat
  BY <1>1, CouponsKnown, CouponsOpsKnown DEF Coupons!TypeOK
<1>4. PICK st \in {"void", "issued", "redeemed"} :
         /\ couponsCoupon' = [couponsCoupon EXCEPT ![c].st = st, ![c].by = Coupons!Nothing]
         /\ st = "void" => couponsCoupon[c].st # "tomb" /\ couponsFreed' = couponsFreed
         /\ st # "void" => couponsCoupon[c].st \in {"manual_review", "redeeming", "paying"}
         /\ st = "redeemed" => couponsFreed' = couponsFreed
         /\ st = "issued"
            => couponsFreed' = [couponsFreed EXCEPT ![c] = IF couponsCoupon[c].st = "redeeming"
                                THEN @ ELSE @ + 1]
  BY DEF Coupons!Resolve, Coupons!Tomb
<1>5. /\ couponsFreed' \in [Coupons!Codes -> Nat] /\ couponsFreed'[c] >= couponsFreed[c]
      /\ \A d \in Coupons!Codes \ {c} : couponsFreed'[d] = couponsFreed[d]
      /\ couponsFreed[c] + CouponsTop(couponsCoupon[c].st) <= couponsFreed'[c] + CouponsTop(st)
  <2>1. CASE st = "void"
    BY <1>3, <1>4, <2>1 DEF CouponsTop, Coupons!Over
  <2>2. CASE st = "redeemed"
    BY <1>3, <1>4, <2>2 DEF CouponsTop, Coupons!Over
  <2>3. CASE st = "issued"
    <3>1. CASE couponsCoupon[c].st = "redeeming"
      BY <1>3, <1>4, <2>3, <3>1 DEF CouponsTop, Coupons!Over
    <3>2. CASE couponsCoupon[c].st # "redeeming"
      BY <1>3, <1>4, <2>3, <3>2 DEF CouponsTop, Coupons!Over
    <3>. QED BY <3>1, <3>2
  <2>. QED BY <2>1, <2>2, <2>3
<1>. DEFINE r == [couponsCoupon[c] EXCEPT !.st = st, !.by = Coupons!Nothing]
<1>6. couponsCoupon[c] \in [st : Coupons!Over \cup {"absent", "issued", "tomb", "redeeming"},
                            op : Coupons!Ops \cup {Coupons!Nothing},
                            owed : BOOLEAN, by : Requests \cup {Coupons!Nothing}]
  BY <1>1 DEF Coupons!TypeOK, Coupons!Records
<1>7. r \in Coupons!Records /\ r.st = st /\ r.op = couponsCoupon[c].op /\ r.owed = couponsCoupon[c].owed
  BY <1>6 DEF Coupons!Records, Coupons!Over
<1>8. couponsCoupon' = [couponsCoupon EXCEPT ![c] = r]
  BY <1>4
<1>. HIDE DEF r
<1>9. couponsCoupon'[c] = r
  BY <1>1, <1>8 DEF Coupons!TypeOK
<1>10. CouponsMoved(p) /\ CouponsHolding(p)
  <2>1. Coupons!Pair(couponsProc'[p].op, couponsProc'[p].code)
    BY <1>1 DEF Coupons!Pair
  <2>. QED BY <1>1, <2>1 DEF CouponsMoved, CouponsHolding, Coupons!Drawing, Coupons!TypeOK
<1>11. CouponsTouches(p, c, r)
  BY <1>1, <1>4, <1>7, <1>8 DEF CouponsTouches
<1>12. Coupons!TypeOK'
  BY <1>1, <1>5, <1>10, <1>11, CouponsTouchTypes
<1>13. Coupons!Fits(couponsProc[p])'
  <2>1. CouponsFrame(p)
    BY <1>1, <1>10, <1>11, CouponsTouchFrame
  <2>2. PICK l : l = couponsProc[p]
    OBVIOUS
  <2>3. Coupons!Fits(l) /\ l.key \in Coupons!Keys
    BY <1>1, <2>2, CouponsKnown, CouponsTyped
  <2>4. l.pc = "flip" => CouponsWaits(l.code)'
    <3>1. l.pc = "flip" => l.code \in Coupons!Codes /\ CouponsWaits(l.code)
      BY <2>3 DEF Coupons!Fits, CouponsWaits, Coupons!Spending
    <3>2. \A d \in Coupons!Codes : couponsCoupon[d].owed => couponsCoupon'[d].owed
      BY <2>1, CouponsOpsKnown DEF CouponsFrame
    <3>. QED BY <1>1, <3>1, <3>2 DEF CouponsWaits
  <2>5. Coupons!Fits(l)'
    BY <2>1, <2>3, <2>4, CouponsFitsStays
  <2>. QED BY <1>1, <2>2, <2>5
<1>14. Coupons!Kept(c)'
  <2>1. Coupons!Pays(c)' \subseteq Coupons!Pays(c)
    BY <1>1 DEF Coupons!Pays, Coupons!At
  <2>2. couponsCoupon[c].owed => couponsCoupon[c].st = "void" /\ st = "void"
    BY <1>3, <1>4 DEF Coupons!Kept
  <2>3. /\ couponsCoupon'[c].st # "absent" /\ couponsCoupon'[c].op \in couponsDebited
           /\ couponsCoupon'[c].op = couponsCoupon[c].op
        /\ couponsCoupon'[c].owed = couponsCoupon[c].owed /\ couponsCoupon'[c].st = st
        /\ couponsPaid'[c] = couponsPaid[c] /\ couponsFreed'[c] \in Nat
    BY <1>1, <1>3, <1>5, <1>7, <1>9
  <2>4. couponsFreed[c] + CouponsTop(couponsCoupon[c].st) <= couponsFreed'[c]
        + CouponsTop(couponsCoupon'[c].st)
    BY <1>5, <2>3
  <2>5. couponsCoupon'[c].owed => couponsCoupon'[c].st = "void" /\ couponsCoupon[c].owed
    BY <2>2, <2>3
  <2>. QED BY <1>1, <1>5, <2>1, <2>3, <2>4, <2>5, CouponsKeptChanges
<1>. QED BY <1>1, <1>5, <1>10, <1>11, <1>12, <1>13, <1>14, CouponsTouchKeeps

-----------------------------------------------------------------------------
(* Steps that change the couponsPartner's record, or pay.                         *)

LEMMA CouponsRecordFrame ==
    ASSUME Coupons!IInv, NEW p \in Requests, CouponsMoved(p), CouponsHolding(p),
           UNCHANGED <<couponsCoupon, couponsUsed>>,
           couponsDebited \subseteq couponsDebited', couponsDropped => couponsDropped',
           \A i \in couponsPartner'.issues : i \in couponsPartner.issues
           \/ i = <<couponsProc[p].op, couponsProc[p].code>>,
           \A q \in Requests \ {p} : couponsProc[q].pc = "flip"
           /\ couponsProc[q].code \in couponsPartner.refunds =>
               couponsProc[q].code \in couponsPartner'.refunds \/ couponsDropped'
               \/ couponsCoupon[couponsProc[q].code].owed
    PROVE  CouponsFrame(p)
<1>1. ASSUME NEW o \in Coupons!Ops, NEW c \in Coupons!Codes,
<<o, c>> \in couponsPartner'.issues PROVE Coupons!Pair(o, c)
  BY <1>1 DEF Coupons!Pair
<1>2. ASSUME NEW q \in Requests \ {p}, couponsProc[q].pc = "flip",
CouponsWaits(couponsProc[q].code) PROVE CouponsWaits(couponsProc[q].code)'
  BY <1>2 DEF CouponsWaits, CouponsMoved
<1>. QED BY <1>1, <1>2 DEF CouponsFrame, CouponsHolding

LEMMA CouponsPayKeeps ==
    ASSUME Coupons!IInv, NEW p \in Requests, Coupons!Pay(p)
    PROVE  Coupons!IInv'
<1>1. /\ Coupons!TypeOK /\ Coupons!Fits(couponsProc[p]) /\ couponsProc[p].pc = "pay"
         /\ Coupons!Go(p, "finalize")
      /\ UNCHANGED <<couponsPartner, couponsCoupon, couponsIdem, couponsUsed, couponsDebited,
                     couponsCredits, couponsFreed, couponsLoose, couponsDropped, couponsLeft>>
  BY CouponsKnown DEF Coupons!Pay, Coupons!At
<1>2. PICK c \in Coupons!Codes : c = couponsProc[p].code
  BY <1>1 DEF Coupons!Fits, Coupons!Spending
<1>3. couponsPaid' = [couponsPaid EXCEPT ![c] = @ + 1] /\ couponsPaid \in [Coupons!Codes -> Nat]
      /\ couponsPaid[c] \in Nat
  BY <1>1, <1>2 DEF Coupons!Pay, Coupons!TypeOK
<1>4. /\ couponsPaid' \in [Coupons!Codes -> Nat] /\ couponsPaid'[c] = couponsPaid[c] + 1
      /\ \A d \in Coupons!Codes \ {c} : couponsPaid'[d] = couponsPaid[d]
  BY <1>3
<1>5. CouponsMoved(p) /\ couponsProc'[p].pc = "finalize" /\ couponsProc'[p].op = couponsProc[p].op
      /\ couponsProc'[p].code = c
  BY <1>1, <1>2, CouponsGoMoves DEF Coupons!Places, Coupons!Spending
<1>6. CouponsHolding(p)
  BY <1>2, <1>5 DEF CouponsHolding, Coupons!Drawing, Coupons!Booking, Coupons!Pair
<1>7. Coupons!TypeOK'
  BY <1>1, <1>4, <1>5 DEF Coupons!TypeOK, CouponsMoved
<1>8. CouponsFrame(p)
  BY <1>1, <1>5, <1>6, CouponsRecordFrame
<1>9. Coupons!Fits(couponsProc[p])'
  <2>1. PICK m : m = couponsProc'[p]
    OBVIOUS
  <2>2. Coupons!Fits(m)'
    BY <1>5, <2>1, CouponsSpendFits
  <2>. QED BY <2>1, <2>2
<1>10. \A d \in Coupons!Codes : Coupons!Pays(d)' \subseteq Coupons!Pays(d)
  BY <1>5, CouponsPaysFall
<1>11. \A d \in Coupons!Codes \ {c} : Coupons!Kept(d)'
  BY <1>1, <1>4, <1>10, CouponsKeptStays
<1>12. Coupons!Kept(c)'
  <2>1. Coupons!Kept(c) /\ couponsFreed[c] \in Nat
    BY <1>1, CouponsKnown DEF Coupons!TypeOK
  <2>2. PICK S : S = Coupons!Pays(c)'
    OBVIOUS
  <2>3. S = Coupons!Pays(c) \ {p} /\ p \in Coupons!Pays(c)
    BY <1>1, <1>2, <1>5, <2>2 DEF Coupons!Pays, Coupons!At, CouponsMoved
  <2>4. IsFiniteSet(Coupons!Pays(c))
    <3>1. Coupons!Pays(c) \in SUBSET Requests
      BY DEF Coupons!Pays
    <3>. QED BY <3>1, CouponConstants, CouponsSubset
  <2>5. Coupons!Cardinality(S) = Coupons!Cardinality(Coupons!Pays(c)) - 1
        /\ Coupons!Cardinality(Coupons!Pays(c)) \in Nat
    BY <2>3, <2>4, CouponsRemoveElement, CouponsCardinalityType
  <2>6. couponsPaid[c] + Coupons!Cardinality(Coupons!Pays(c)) <= couponsFreed[c]
        + (IF couponsCoupon[c].st \in Coupons!Over THEN 1 ELSE 0)
    BY <2>1 DEF Coupons!Kept
  <2>7. couponsPaid'[c] + Coupons!Cardinality(S) <= couponsFreed'[c]
        + (IF couponsCoupon'[c].st \in Coupons!Over THEN 1 ELSE 0)
    <3>1. PICK n \in {0, 1} : n = (IF couponsCoupon[c].st \in Coupons!Over THEN 1 ELSE 0)
      OBVIOUS
    <3>2. couponsPaid'[c] + Coupons!Cardinality(S) <= couponsFreed'[c] + n
      BY <1>1, <1>3, <1>4, <2>1, <2>5, <2>6, <3>1
    <3>. QED BY <1>1, <3>1, <3>2
  <2>8. couponsCoupon[c].owed => couponsFreed[c] > 0
    BY <2>1, <2>3 DEF Coupons!Kept
  <2>. QED BY <1>1, <2>1, <2>2, <2>7, <2>8 DEF Coupons!Kept
<1>13. \A o \in Coupons!Ops : Coupons!Backed(o)'
  BY <1>1, <1>8, CouponsBackedStays
<1>14. Coupons!Charged' /\ couponsDebited' \subseteq couponsUsed'
       /\ \A i \in couponsPartner'.issues : i[1] \in couponsDebited'
  BY <1>1, CouponsKnown DEF Coupons!Charged, Coupons!Live
<1>. QED BY <1>7, <1>8, <1>9, <1>11, <1>12, <1>13, <1>14, CouponsKeeps
\* What a request that moved relies on still holds after its step.
LEMMA CouponsFitsNext ==
    ASSUME Coupons!IInv, NEW p \in Requests, CouponsFrame(p), Coupons!Fits(couponsProc'[p]),
           couponsProc'[p].pc # "flip"
    PROVE  Coupons!Fits(couponsProc[p])'
<1>1. PICK l : l = couponsProc'[p]
  OBVIOUS
<1>2. l.key \in Coupons!Keys /\ Coupons!Fits(l) /\ l.pc # "flip"
  BY <1>1 DEF CouponsFrame, CouponsMoved, Coupons!Locals
<1>3. Coupons!Fits(l)'
  BY <1>2, CouponsFitsStays
<1>. QED BY <1>1, <1>3

LEMMA CouponsVoidKeeps ==
    ASSUME Coupons!IInv, NEW p \in Requests, NEW c \in Coupons!Codes, Coupons!Void(p, c)
    PROVE  Coupons!IInv'
<1>1. /\ Coupons!TypeOK /\ Coupons!Fits(couponsProc[p]) /\ couponsProc[p].pc = "idle"
      /\ UNCHANGED <<couponsCoupon, couponsIdem, couponsUsed, couponsDebited, couponsCredits,
                     couponsPaid, couponsFreed, couponsLoose, couponsDropped>>
      /\ couponsLeft' \in [{"ask", "admin", "fault"} -> Nat]
  BY CouponsKnown, CouponsSpendTyped DEF Coupons!Void, Coupons!At, Coupons!history
<1>2. couponsProc[p].op = Coupons!Nothing
  BY <1>1 DEF Coupons!Fits
<1>3. couponsPartner \in [bal : Nat, issues : SUBSET (Coupons!Ops \X Coupons!Codes),
                          refunds : SUBSET Coupons!Codes,
                          applied : SUBSET Coupons!Keys,
                          code : Coupons!Codes \cup {Coupons!Nothing}]
  BY <1>1 DEF Coupons!TypeOK
<1>4. /\ couponsPartner' \in [bal : Nat, issues : SUBSET (Coupons!Ops \X Coupons!Codes),
                              refunds : SUBSET Coupons!Codes,
                              applied : SUBSET Coupons!Keys,
                              code : Coupons!Codes \cup {Coupons!Nothing}]
      /\ couponsPartner'.issues = couponsPartner.issues
         /\ couponsPartner'.applied = couponsPartner.applied
      /\ couponsPartner'.refunds = couponsPartner.refunds \cup {c}
  BY <1>3 DEF Coupons!Void
<1>. DEFINE l == [couponsProc[p] EXCEPT !.pc = "flip", !.code = c]
<1>5. couponsProc[p] \in [pc : Coupons!Places, op : Coupons!Ops \cup {Coupons!Nothing},
                   code : Coupons!Codes \cup {Coupons!Nothing}, key : Coupons!Keys,
                   ret : {"idle", "draw", "uncollide"},
                   app : Coupons!Codes \cup {Coupons!Nothing},
                   fly : Coupons!Codes \cup {Coupons!Nothing}, again : BOOLEAN]
  BY <1>1, CouponsTyped DEF Coupons!Locals
<1>6. l \in Coupons!Locals /\ l.pc = "flip" /\ l.code = c /\ l.op = Coupons!Nothing
  BY <1>2, <1>5 DEF Coupons!Locals, Coupons!Places, Coupons!Spending
<1>7. couponsProc' = [couponsProc EXCEPT ![p] = l]
  BY DEF Coupons!Void
<1>. HIDE DEF l
<1>8. CouponsMoved(p) /\ couponsProc'[p] = l
  BY <1>1, <1>6, <1>7, CouponsBecomesMoves
<1>9. CouponsHolding(p)
  BY <1>6, <1>8 DEF CouponsHolding, Coupons!Drawing, Coupons!Booking
<1>10. Coupons!TypeOK'
  BY <1>1, <1>4, <1>8 DEF Coupons!TypeOK, CouponsMoved
<1>11. CouponsFrame(p)
  BY <1>1, <1>4, <1>8, <1>9, CouponsRecordFrame
<1>12. Coupons!Fits(couponsProc[p])'
  <2>1. PICK m : m = couponsProc'[p]
    OBVIOUS
  <2>2. m.pc = "flip" /\ m.code = c
    BY <1>6, <1>8, <2>1
  <2>3. Coupons!Fits(m)'
    BY <1>4, <2>2 DEF Coupons!Fits, Coupons!Making, Coupons!Booking, Coupons!Spending
  <2>. QED BY <2>1, <2>3
<1>13. \A d \in Coupons!Codes : Coupons!Pays(d)' \subseteq Coupons!Pays(d)
  BY <1>6, <1>8, CouponsPaysFall
<1>14. \A d \in Coupons!Codes : Coupons!Kept(d)'
  BY <1>1, <1>4, <1>13, CouponsKeptStays
<1>15. \A o \in Coupons!Ops : Coupons!Backed(o)'
  BY <1>1, <1>4, <1>11, CouponsBackedStays
<1>16. Coupons!Charged' /\ couponsDebited' \subseteq couponsUsed'
       /\ \A i \in couponsPartner'.issues : i[1] \in couponsDebited'
  BY <1>1, <1>4, CouponsKnown DEF Coupons!Charged, Coupons!Live
<1>. QED BY <1>10, <1>11, <1>12, <1>14, <1>15, <1>16, CouponsKeeps

LEMMA CouponsDropKeeps ==
    ASSUME Coupons!IInv, NEW p \in Requests, Coupons!Drop(p)
    PROVE  Coupons!IInv'
<1>1. /\ Coupons!TypeOK /\ Coupons!Fits(couponsProc[p]) /\ couponsProc[p].pc = "drop" /\ Coupons!Done(p)
      /\ UNCHANGED <<couponsCoupon, couponsIdem, couponsUsed, couponsDebited, couponsCredits,
                     couponsPaid, couponsFreed, couponsLoose, couponsLeft>>
  BY CouponsKnown DEF Coupons!Drop, Coupons!At
<1>2. PICK c \in Coupons!Codes : c = couponsProc[p].code
  BY <1>1 DEF Coupons!Fits, Coupons!Spending
<1>3. couponsPartner \in [bal : Nat, issues : SUBSET (Coupons!Ops \X Coupons!Codes),
                          refunds : SUBSET Coupons!Codes,
                          applied : SUBSET Coupons!Keys,
                          code : Coupons!Codes \cup {Coupons!Nothing}]
  BY <1>1 DEF Coupons!TypeOK
<1>4. /\ couponsPartner' \in [bal : Nat, issues : SUBSET (Coupons!Ops \X Coupons!Codes),
                              refunds : SUBSET Coupons!Codes,
                              applied : SUBSET Coupons!Keys,
                              code : Coupons!Codes \cup {Coupons!Nothing}]
      /\ couponsPartner'.issues = couponsPartner.issues
         /\ couponsPartner'.applied = couponsPartner.applied
      /\ couponsPartner'.refunds = couponsPartner.refunds \ {c}
  BY <1>2, <1>3 DEF Coupons!Drop
<1>5. /\ couponsDropped' \in BOOLEAN /\ (couponsDropped => couponsDropped')
         /\ (couponsCoupon[c].owed => couponsDropped')
      /\ \A q \in Requests \ {p} : couponsProc[q].code = c /\ couponsProc[q].pc = "flip"
         => couponsDropped'
  <2>1. couponsDropped \in BOOLEAN /\ couponsCoupon[c].owed \in BOOLEAN
    BY <1>1, CouponsCouponTyped DEF Coupons!TypeOK
  <2>2. couponsDropped' = (\/ couponsDropped \/ couponsCoupon[c].owed
                           \/ \E q \in Requests \ {p} : couponsProc[q].code = c
                              /\ couponsProc[q].pc = "flip")
    BY <1>2 DEF Coupons!Drop, Coupons!At
  <2>. QED BY <2>1, <2>2
<1>6. CouponsMoved(p) /\ CouponsHolding(p) /\ Coupons!Fits(couponsProc[p])'
      /\ couponsProc'[p].pc = "idle"
  BY <1>1, CouponsIdleHolds
<1>7. Coupons!TypeOK'
  BY <1>1, <1>4, <1>5, <1>6 DEF Coupons!TypeOK, CouponsMoved
<1>8. CouponsFrame(p)
  <2>1. \A q \in Requests \ {p} : couponsProc[q].pc = "flip"
        /\ couponsProc[q].code \in couponsPartner.refunds =>
               couponsProc[q].code \in couponsPartner'.refunds \/ couponsDropped'
    BY <1>4, <1>5
  <2>. QED BY <1>1, <1>4, <1>5, <1>6, <2>1, CouponsRecordFrame
<1>9. \A d \in Coupons!Codes : Coupons!Pays(d)' \subseteq Coupons!Pays(d)
  BY <1>6, CouponsPaysFall
<1>10. \A d \in Coupons!Codes : Coupons!Kept(d)'
  <2>1. \A d \in Coupons!Codes : couponsCoupon[d].owed
        => (d \in couponsPartner.refunds => d \in couponsPartner'.refunds \/ couponsDropped')
    BY <1>4, <1>5
  <2>. QED BY <1>1, <1>4, <1>5, <1>9, <2>1, CouponsKeptStays
<1>11. \A o \in Coupons!Ops : Coupons!Backed(o)'
  BY <1>1, <1>4, <1>8, CouponsBackedStays
<1>12. Coupons!Charged' /\ couponsDebited' \subseteq couponsUsed'
       /\ \A i \in couponsPartner'.issues : i[1] \in couponsDebited'
  BY <1>1, <1>4, CouponsKnown DEF Coupons!Charged, Coupons!Live
<1>. QED BY <1>6, <1>7, <1>8, <1>10, <1>11, <1>12, CouponsKeeps

LEMMA CouponsConfirmKeeps ==
    ASSUME Coupons!IInv, NEW p \in Requests, Coupons!Confirm(p)
    PROVE  Coupons!IInv'
<1>1. /\ Coupons!TypeOK /\ Coupons!Fits(couponsProc[p]) /\ couponsProc[p].pc = "confirm"
         /\ Coupons!Done(p)
      /\ UNCHANGED <<couponsCoupon, couponsIdem, couponsUsed, couponsDebited, couponsCredits,
                     couponsPaid, couponsFreed, couponsLoose, couponsDropped, couponsLeft>>
  BY CouponsKnown DEF Coupons!Confirm, Coupons!At, Coupons!history
<1>2. PICK o \in Coupons!Ops, c \in Coupons!Codes :
         o = couponsProc[p].op /\ c = couponsProc[p].code /\ Coupons!Ours(c, o)
  BY <1>1 DEF Coupons!Fits, Coupons!Making, Coupons!TypeOK
<1>3. couponsPartner \in [bal : Nat, issues : SUBSET (Coupons!Ops \X Coupons!Codes),
                          refunds : SUBSET Coupons!Codes,
                          applied : SUBSET Coupons!Keys,
                          code : Coupons!Codes \cup {Coupons!Nothing}]
  BY <1>1 DEF Coupons!TypeOK
<1>4. /\ couponsPartner' \in [bal : Nat, issues : SUBSET (Coupons!Ops \X Coupons!Codes),
                              refunds : SUBSET Coupons!Codes,
                              applied : SUBSET Coupons!Keys,
                              code : Coupons!Codes \cup {Coupons!Nothing}]
      /\ couponsPartner'.issues = {i \in couponsPartner.issues : i[1] # o}
         /\ couponsPartner'.applied = couponsPartner.applied
      /\ couponsPartner'.refunds = couponsPartner.refunds
  BY <1>2, <1>3 DEF Coupons!Confirm
<1>5. CouponsMoved(p) /\ CouponsHolding(p) /\ Coupons!Fits(couponsProc[p])'
      /\ couponsProc'[p].pc = "idle"
  BY <1>1, CouponsIdleHolds
<1>6. Coupons!TypeOK'
  BY <1>1, <1>4, <1>5 DEF Coupons!TypeOK, CouponsMoved
<1>7. CouponsFrame(p)
  BY <1>1, <1>4, <1>5, CouponsRecordFrame
<1>8. \A d \in Coupons!Codes : Coupons!Pays(d)' \subseteq Coupons!Pays(d)
  BY <1>5, CouponsPaysFall
<1>9. \A d \in Coupons!Codes : Coupons!Kept(d)'
  BY <1>1, <1>4, <1>8, CouponsKeptStays
<1>10. ASSUME NEW x \in Coupons!Ops PROVE Coupons!Backed(x)'
  <2>1. \A i \in couponsPartner.issues : i[1] = x => i \in couponsPartner'.issues
        \/ \E d \in Coupons!Codes : Coupons!Ours(d, x)
    BY <1>2, <1>4
  <2>. QED BY <1>1, <1>4, <1>7, <2>1, CouponsBackedStays
<1>11. Coupons!Charged' /\ couponsDebited' \subseteq couponsUsed'
       /\ \A i \in couponsPartner'.issues : i[1] \in couponsDebited'
  BY <1>1, <1>4, CouponsKnown DEF Coupons!Charged, Coupons!Live
<1>. QED BY <1>5, <1>6, <1>7, <1>9, <1>10, <1>11, CouponsKeeps

LEMMA CouponsForgetKeeps ==
    ASSUME Coupons!IInv, NEW p \in Requests, Coupons!Forget(p)
    PROVE  Coupons!IInv'
<1>1. /\ Coupons!TypeOK /\ Coupons!Go(p, couponsProc[p].ret)
         /\ couponsLoose' = (couponsLoose \/ Coupons!Live # {})
      /\ UNCHANGED <<couponsCoupon, couponsIdem, couponsUsed, couponsDebited, couponsCredits,
                     couponsPaid, couponsFreed, couponsDropped, couponsLeft>>
  BY CouponsKnown DEF Coupons!Forget
<1>2. couponsPartner \in [bal : Nat, issues : SUBSET (Coupons!Ops \X Coupons!Codes),
                          refunds : SUBSET Coupons!Codes,
                          applied : SUBSET Coupons!Keys,
                          code : Coupons!Codes \cup {Coupons!Nothing}]
  BY <1>1 DEF Coupons!TypeOK
<1>3. /\ couponsPartner' \in [bal : Nat, issues : SUBSET (Coupons!Ops \X Coupons!Codes),
                              refunds : SUBSET Coupons!Codes,
                              applied : SUBSET Coupons!Keys,
                              code : Coupons!Codes \cup {Coupons!Nothing}]
      /\ couponsPartner'.issues = couponsPartner.issues
         /\ couponsPartner'.applied = couponsPartner.applied \ {Coupons!IssueKey}
      /\ couponsPartner'.refunds = couponsPartner.refunds
  BY <1>2 DEF Coupons!Forget
<1>4. CouponsMoved(p) /\ couponsProc'[p].pc \notin {"pay", "flip"} /\ Coupons!Fits(couponsProc'[p])
      /\ CouponsHolding(p)
  BY <1>1, CouponsRetMoves DEF CouponsHolding
<1>5. Coupons!TypeOK'
  BY <1>1, <1>3, <1>4 DEF Coupons!TypeOK, CouponsMoved
<1>6. CouponsFrame(p)
  BY <1>1, <1>3, <1>4, CouponsRecordFrame
<1>7. Coupons!Fits(couponsProc[p])'
  BY <1>4, <1>6, CouponsFitsNext
<1>8. \A d \in Coupons!Codes : Coupons!Pays(d)' \subseteq Coupons!Pays(d)
  BY <1>4, CouponsPaysFall
<1>9. \A d \in Coupons!Codes : Coupons!Kept(d)'
  BY <1>1, <1>3, <1>8, CouponsKeptStays
<1>10. ASSUME NEW o \in Coupons!Ops PROVE Coupons!Backed(o)'
  <2>1. <<"unissue", o>> # Coupons!IssueKey
        /\ \A c \in Coupons!Codes : <<"refund", c>> # Coupons!IssueKey
    BY CouponsKeyKinds
  <2>. QED BY <1>1, <1>3, <1>6, <2>1, CouponsBackedStays
<1>11. Coupons!Charged'
  <2>1. CASE couponsLoose' = TRUE
    BY <2>1 DEF Coupons!Charged
  <2>2. CASE Coupons!Live = {}
    BY <1>1, <2>2 DEF Coupons!Charged, Coupons!Live
  <2>. QED BY <1>1, <2>1, <2>2
<1>12. couponsDebited' \subseteq couponsUsed'
       /\ \A i \in couponsPartner'.issues : i[1] \in couponsDebited'
  BY <1>1, <1>3, CouponsKnown
<1>. QED BY <1>5, <1>6, <1>7, <1>9, <1>10, <1>11, <1>12, CouponsKeeps
-----------------------------------------------------------------------------
(* The commit of applyLedger.                                              *)

\* A key that credits is remembered with the credit it stands for.
CouponsCreditStep(p, k, x) ==
    /\ Coupons!Go(p, "settle")
       /\ UNCHANGED <<couponsCoupon, couponsIdem, couponsUsed, couponsDebited, couponsPaid,
                      couponsFreed, couponsLoose, couponsDropped, couponsLeft>>
    /\ couponsPartner' \in [bal : Nat, issues : SUBSET (Coupons!Ops \X Coupons!Codes),
                            refunds : SUBSET Coupons!Codes,
                            applied : SUBSET Coupons!Keys,
                            code : Coupons!Codes \cup {Coupons!Nothing}]
    /\ couponsPartner'.applied = couponsPartner.applied \cup {k}
    /\ couponsCredits' = [o \in Coupons!Ops |-> IF o = x THEN couponsCredits[o] + 1
                          ELSE couponsCredits[o]]

LEMMA CouponsCreditTypes ==
    ASSUME Coupons!IInv, NEW p \in Requests, couponsProc[p].pc = "commit",
           couponsProc[p].key # Coupons!IssueKey, NEW k, NEW x, CouponsCreditStep(p, k, x)
    PROVE  /\ Coupons!TypeOK' /\ CouponsMoved(p) /\ CouponsHolding(p)
              /\ Coupons!Fits(couponsProc'[p]) /\ couponsProc'[p].pc = "settle"
           /\ \A o \in Coupons!Ops : couponsCredits'[o] = IF o = x THEN couponsCredits[o] + 1
              ELSE couponsCredits[o]
<1>1. Coupons!TypeOK /\ Coupons!Fits(couponsProc[p])
  BY CouponsKnown
<1>2. couponsCredits \in [Coupons!Ops -> Nat]
  BY <1>1 DEF Coupons!TypeOK
<1>3. couponsCredits' \in [Coupons!Ops -> Nat]
      /\ \A o \in Coupons!Ops : couponsCredits'[o] = IF o = x THEN couponsCredits[o] + 1
         ELSE couponsCredits[o]
  BY <1>2 DEF CouponsCreditStep
<1>4. \A r \in Coupons!Locals : r.pc = "settle" /\ r.op = couponsProc[p].op
      /\ r.code = couponsProc[p].code /\ r.key = couponsProc[p].key
                                => Coupons!Fits(r)
  BY <1>1 DEF Coupons!Fits, Coupons!Booking, Coupons!Making, Coupons!Spending
<1>5. Coupons!Go(p, "settle") /\ "settle" \in Coupons!Places
  BY DEF CouponsCreditStep, Coupons!Places, Coupons!Booking
<1>6. CouponsMoved(p) /\ Coupons!Fits(couponsProc'[p]) /\ CouponsHolding(p)
  BY <1>4, <1>5, CouponsOnMoves DEF CouponsHolding
<1>7. couponsProc'[p].pc = "settle"
  BY <1>1, <1>5, CouponsGoMoves
<1>8. Coupons!TypeOK'
  BY <1>1, <1>3, <1>6 DEF Coupons!TypeOK, CouponsMoved, CouponsCreditStep
<1>. QED BY <1>3, <1>6, <1>7, <1>8

\* The credit of operation x, once the record remembers why.
LEMMA CouponsCreditKeeps ==
    ASSUME Coupons!IInv, NEW p \in Requests, couponsProc[p].pc = "commit",
           couponsProc[p].key # Coupons!IssueKey,
           NEW k \in Coupons!Keys, NEW x \in Coupons!Ops \cup {Coupons!Nothing},
           CouponsCreditStep(p, k, x),
           k # Coupons!IssueKey, couponsPartner'.issues \subseteq couponsPartner.issues,
           \A i \in couponsPartner.issues : i[1] # x => i \in couponsPartner'.issues,
           \A c \in Coupons!Codes : c \in couponsPartner.refunds => c \in couponsPartner'.refunds
           \/ (couponsCoupon[c].op = x /\ couponsCoupon[c].owed),
           x # Coupons!Nothing => couponsCredits[x] = 0 /\ x \in couponsDebited,
           x # Coupons!Nothing => \/ k = <<"unissue", x>> /\ Coupons!Dead(x)
                                  \/ \E c \in Coupons!Codes : k = <<"refund", c>>
                                     /\ couponsCoupon[c].op = x,
           \A o \in Coupons!Ops : k = <<"unissue", o>> => o = x,
           \A c \in Coupons!Codes : k = <<"refund", c>> => couponsCoupon[c].owed
    PROVE  Coupons!IInv'
<1>1. Coupons!TypeOK /\ couponsCredits \in [Coupons!Ops -> Nat]
  BY CouponsKnown DEF Coupons!TypeOK
<1>2. /\ Coupons!TypeOK' /\ CouponsMoved(p) /\ CouponsHolding(p) /\ Coupons!Fits(couponsProc'[p])
         /\ couponsProc'[p].pc = "settle"
      /\ \A o \in Coupons!Ops : couponsCredits'[o] = IF o = x THEN couponsCredits[o] + 1
         ELSE couponsCredits[o]
  BY CouponsCreditTypes
<1>3. /\ UNCHANGED <<couponsCoupon, couponsUsed, couponsDebited, couponsPaid, couponsFreed,
                     couponsLoose, couponsDropped>>
      /\ couponsPartner'.applied = couponsPartner.applied \cup {k}
  BY DEF CouponsCreditStep
<1>4. CouponsFrame(p)
  <2>1. \A q \in Requests \ {p} : couponsProc[q].pc = "flip"
        /\ couponsProc[q].code \in couponsPartner.refunds =>
               couponsProc[q].code \in couponsPartner'.refunds \/ couponsDropped'
               \/ couponsCoupon[couponsProc[q].code].owed
    BY <1>1 DEF Coupons!TypeOK
  <2>. QED BY <1>2, <1>3, <2>1, CouponsRecordFrame
<1>5. Coupons!Fits(couponsProc[p])'
  BY <1>2, <1>4, CouponsFitsNext
<1>6. \A d \in Coupons!Codes : Coupons!Pays(d)' \subseteq Coupons!Pays(d)
  BY <1>2, CouponsPaysFall
<1>7. ASSUME NEW d \in Coupons!Codes PROVE Coupons!Kept(d)'
  <2>1. <<"refund", d>> \in couponsPartner'.applied => <<"refund", d>> \in couponsPartner.applied
        \/ couponsCoupon[d].owed
    BY <1>3
  <2>2. couponsCoupon[d].owed /\ couponsCredits'[couponsCoupon[d].op] = 0 =>
                     couponsCredits[couponsCoupon[d].op] = 0
                     /\ (d \in couponsPartner.refunds => d \in couponsPartner'.refunds
                         \/ couponsDropped')
    <3>1. SUFFICES ASSUME couponsCoupon[d].owed, couponsCredits'[couponsCoupon[d].op] = 0
                   PROVE  couponsCredits[couponsCoupon[d].op] = 0
                          /\ (d \in couponsPartner.refunds => d \in couponsPartner'.refunds)
      OBVIOUS
    <3>2. PICK o \in Coupons!Ops : o = couponsCoupon[d].op
      BY <3>1, CouponsOpsKnown
    <3>3. o # x
      BY <1>1, <1>2, <3>1, <3>2
    <3>. QED BY <1>2, <3>1, <3>2, <3>3
  <2>. QED BY <1>3, <1>6, <2>1, <2>2, CouponsKeptStays
<1>8. ASSUME NEW o \in Coupons!Ops PROVE Coupons!Backed(o)'
  <2>1. CASE o # x
    <3>1. couponsCredits'[o] = couponsCredits[o]
      BY <1>2, <2>1
    <3>2. <<"unissue", o>> \in couponsPartner'.applied <=> <<"unissue", o>> \in couponsPartner.applied
      BY <1>3, <2>1
    <3>3. \A i \in couponsPartner.issues : i[1] = o => i \in couponsPartner'.issues
      BY <2>1
    <3>. QED BY <1>3, <1>4, <3>1, <3>2, <3>3, CouponsBackedStays
  <2>2. CASE o = x
    <3>1. couponsCredits'[o] = 1 /\ o \in couponsDebited' /\ o # Coupons!Nothing /\ o \in couponsDebited
      BY <1>1, <1>2, <1>3, <2>2, CouponsNothingNew
    <3>2. \/ <<"unissue", o>> \in couponsPartner'.applied
          \/ \E c \in Coupons!Codes : <<"refund", c>> \in couponsPartner'.applied
             /\ couponsCoupon'[c].op = o
      BY <1>3, <2>2, <3>1
    <3>3. <<"unissue", o>> \in couponsPartner'.applied => Coupons!Dead(o)
      <4>1. <<"unissue", o>> \in couponsPartner.applied => Coupons!Dead(o)
        BY CouponsKnown DEF Coupons!Backed
      <4>2. \A c \in Coupons!Codes : <<"unissue", o>> # <<"refund", c>>
        OBVIOUS
      <4>. QED BY <1>3, <2>2, <3>1, <4>1, <4>2
    <3>4. <<"unissue", o>> \in couponsPartner'.applied => Coupons!Dead(o)'
      BY <1>4, <3>1, <3>3, CouponsDeadStays
    <3>5. couponsCredits'[o] <= 1 /\ couponsCredits'[o] # 0
      BY <3>1
    <3>. QED BY <3>1, <3>2, <3>4, <3>5, Zenon DEF Coupons!Backed
  <2>. QED BY <2>1, <2>2
<1>9. Coupons!Charged'
  <2>1. Coupons!Charged /\ couponsDebited \subseteq Coupons!Ops
    BY <1>1, CouponsKnown DEF Coupons!TypeOK
  <2>2. Coupons!Live' \subseteq Coupons!Live
    BY <1>1, <1>2, <1>3, <2>1 DEF Coupons!Live
  <2>3. CASE couponsLoose
    BY <1>3, <2>3 DEF Coupons!Charged
  <2>4. CASE ~couponsLoose
    <3>1. \A o \in Coupons!Live : Coupons!IssueKey \in couponsPartner.applied
          /\ \A q \in Coupons!Live : o = q
      BY <2>1, <2>4 DEF Coupons!Charged
    <3>. QED BY <1>3, <2>2, <3>1 DEF Coupons!Charged
  <2>. QED BY <2>3, <2>4
<1>10. couponsDebited' \subseteq couponsUsed'
       /\ \A i \in couponsPartner'.issues : i[1] \in couponsDebited'
  BY <1>3, CouponsKnown
<1>. QED BY <1>2, <1>4, <1>5, <1>7, <1>8, <1>9, <1>10, CouponsKeeps
LEMMA CouponsDebitKeeps ==
    ASSUME Coupons!IInv, NEW p \in Requests, couponsProc[p].pc = "commit",
           couponsProc[p].key = Coupons!IssueKey, Coupons!IssueKey \notin couponsPartner.applied,
           Coupons!Go(p, "settle"),
           UNCHANGED <<couponsCoupon, couponsIdem, couponsUsed, couponsCredits, couponsPaid,
                       couponsFreed, couponsLoose, couponsDropped, couponsLeft>>,
           couponsDebited' = couponsDebited \cup {couponsProc[p].op},
           couponsPartner' \in [bal : Nat, issues : SUBSET (Coupons!Ops \X Coupons!Codes),
                                refunds : SUBSET Coupons!Codes,
                                applied : SUBSET Coupons!Keys,
                                code : Coupons!Codes \cup {Coupons!Nothing}],
           couponsPartner'.applied = couponsPartner.applied \cup {Coupons!IssueKey},
           couponsPartner'.refunds = couponsPartner.refunds,
           couponsPartner'.issues = couponsPartner.issues
           \cup {<<couponsProc[p].op, couponsProc[p].code>>}
    PROVE  Coupons!IInv'
<1>1. Coupons!TypeOK /\ Coupons!Drawing(p)
  BY CouponsKnown DEF Coupons!Drawing, Coupons!Booking
<1>2. PICK x \in Coupons!Ops, c \in Coupons!Codes :
         x = couponsProc[p].op /\ c = couponsProc[p].code /\ x \in couponsUsed
  BY <1>1, CouponsDrawingPairs
<1>3. /\ CouponsMoved(p) /\ couponsProc'[p].pc = "settle" /\ couponsProc'[p].op = x
         /\ couponsProc'[p].code = c
      /\ couponsProc'[p].key = Coupons!IssueKey
  BY <1>1, <1>2, CouponsGoMoves DEF Coupons!Places, Coupons!Booking
<1>4. Coupons!TypeOK'
  BY <1>1, <1>2, <1>3 DEF Coupons!TypeOK, CouponsMoved
<1>5. CouponsHolding(p)
  BY <1>1, <1>2, <1>3 DEF CouponsHolding, Coupons!Pair
<1>6. CouponsFrame(p)
  BY <1>3, <1>5, CouponsRecordFrame
<1>7. Coupons!Fits(couponsProc[p])'
  <2>1. PICK m : m = couponsProc'[p]
    OBVIOUS
  <2>2. m.pc = "settle" /\ m.key = Coupons!IssueKey /\ m.op \in couponsDebited'
        /\ Coupons!IssueKey[1] = "issue"
    BY <1>2, <1>3, <2>1, CouponsKeyKinds
  <2>3. Coupons!Fits(m)'
    BY <2>2 DEF Coupons!Fits, Coupons!Making, Coupons!Booking, Coupons!Spending
  <2>. QED BY <2>1, <2>3
<1>8. \A d \in Coupons!Codes : Coupons!Pays(d)' \subseteq Coupons!Pays(d)
  BY <1>3, CouponsPaysFall
<1>9. \A d \in Coupons!Codes : Coupons!Kept(d)'
  <2>1. \A d \in Coupons!Codes : <<"refund", d>> # Coupons!IssueKey
    BY CouponsKeyKinds
  <2>. QED BY <1>8, <2>1, CouponsKeptStays
<1>10. ASSUME NEW o \in Coupons!Ops PROVE Coupons!Backed(o)'
  <2>1. <<"unissue", o>> # Coupons!IssueKey
    BY CouponsKeyKinds
  <2>2. <<"unissue", o>> \in couponsPartner'.applied <=> <<"unissue", o>> \in couponsPartner.applied
    BY <2>1
  <2>3. CASE o \in couponsDebited \/ o # x
    <3>1. o \in couponsDebited' => o \in couponsDebited
      BY <1>2, <2>3
    <3>. QED BY <1>6, <2>2, <3>1, CouponsBackedStays
  <2>4. CASE o = x /\ o \notin couponsDebited
    <3>1. Coupons!Backed(o) /\ couponsCredits[o] \in Nat
      BY <1>1, CouponsKnown DEF Coupons!TypeOK
    <3>2. couponsCredits'[o] = 0 /\ <<"unissue", o>> \notin couponsPartner'.applied
      BY <2>2, <2>4, <3>1 DEF Coupons!Backed
    <3>3. <<o, c>> \in couponsPartner'.issues /\ <<o, c>>[1] = o
      BY <1>2, <2>4
    <3>4. couponsCredits'[o] <= 1 /\ ~(couponsCredits'[o] > 0)
      BY <3>2
    <3>. QED BY <3>2, <3>3, <3>4, Zenon DEF Coupons!Backed
  <2>. QED BY <2>3, <2>4
<1>11. Coupons!Charged'
  <2>1. CASE couponsLoose
    BY <2>1 DEF Coupons!Charged
  <2>2. CASE ~couponsLoose
    <3>1. Coupons!Live = {}
      BY <2>2, CouponsKnown DEF Coupons!Charged
    <3>2. \A o \in Coupons!Live' : o = x
      BY <1>2, <3>1 DEF Coupons!Live
    <3>. QED BY <3>2 DEF Coupons!Charged
  <2>. QED BY <2>1, <2>2
<1>12. couponsDebited' \subseteq couponsUsed'
  BY <1>2, CouponsKnown
<1>13. \A i \in couponsPartner'.issues : i[1] \in couponsDebited'
  <2>1. <<x, c>>[1] = x
    OBVIOUS
  <2>. QED BY <1>2, <2>1, CouponsKnown
<1>. QED BY <1>4, <1>6, <1>7, <1>9, <1>10, <1>11, <1>12, <1>13, CouponsKeeps

LEMMA CouponsCommitKeeps ==
    ASSUME Coupons!IInv, NEW p \in Requests, Coupons!Commit(p)
    PROVE  Coupons!IInv'
<1>1. /\ Coupons!TypeOK /\ Coupons!Fits(couponsProc[p]) /\ Coupons!Paired
         /\ couponsProc[p].pc = "commit" /\ couponsProc[p].key \in Coupons!Keys
      /\ UNCHANGED <<couponsCoupon, couponsIdem, couponsUsed, couponsPaid, couponsFreed, couponsLoose,
                     couponsDropped, couponsLeft>>
      /\ couponsDebited \subseteq Coupons!Ops
  BY CouponsKnown, CouponsTyped DEF Coupons!Commit, Coupons!At, Coupons!TypeOK
<1>2. PICK k \in Coupons!Keys : k = couponsProc[p].key
  BY <1>1
<1>3. /\ couponsPartner \in [bal : Nat, issues : SUBSET (Coupons!Ops \X Coupons!Codes),
                             refunds : SUBSET Coupons!Codes,
                             applied : SUBSET Coupons!Keys,
                             code : Coupons!Codes \cup {Coupons!Nothing}]
      /\ TopUp \in Nat
  BY <1>1, CouponConstants DEF Coupons!TypeOK
<1>4. CASE UNCHANGED <<couponsPartner, couponsDebited, couponsCredits>> /\ Coupons!LookAgain(p)
  BY <1>1, <1>4, CouponsAgainMoves, CouponsQuietKeeps DEF CouponsQuiet
<1>5. CASE UNCHANGED <<couponsPartner, couponsDebited, couponsCredits>>
           /\ Coupons!Go(p, couponsProc[p].ret)
  BY <1>1, <1>5, CouponsRetMoves, CouponsQuietKeeps DEF CouponsQuiet
<1>6. CASE UNCHANGED <<couponsPartner, couponsDebited, couponsCredits>> /\ Coupons!Done(p)
  <2>1. couponsProc' = [couponsProc EXCEPT ![p] = Coupons!Idle] /\ CouponsQuiet
    BY <1>1, <1>6 DEF Coupons!Done, CouponsQuiet
  <2>. QED BY <2>1, CouponsIdleTyped, CouponsFreshMoves, CouponsQuietKeeps
<1>7. CASE /\ k \notin couponsPartner.applied /\ k = Coupons!IssueKey /\ couponsPartner.bal > 0
           /\ couponsPartner'
              = [Coupons!Debited(couponsPartner, couponsProc[p].op,
                                 couponsProc[p].code) EXCEPT !.applied = @ \cup {k}]
           /\ couponsDebited' = couponsDebited \cup {couponsProc[p].op} /\ Coupons!Go(p, "settle")
              /\ UNCHANGED couponsCredits
  <2>1. Coupons!Drawing(p)
    BY <1>1, <1>2, <1>7 DEF Coupons!Drawing, Coupons!Booking
  <2>2. PICK x \in Coupons!Ops, c \in Coupons!Codes : x = couponsProc[p].op /\ c = couponsProc[p].code
    BY <2>1, CouponsDrawingPairs
  <2>3. /\ couponsPartner' \in [bal : Nat, issues : SUBSET (Coupons!Ops \X Coupons!Codes),
                                refunds : SUBSET Coupons!Codes,
                                applied : SUBSET Coupons!Keys,
                                code : Coupons!Codes \cup {Coupons!Nothing}]
        /\ couponsPartner'.applied = couponsPartner.applied \cup {k}
           /\ couponsPartner'.refunds = couponsPartner.refunds
        /\ couponsPartner'.issues = couponsPartner.issues \cup {<<x, c>>}
    <3>4. couponsPartner.bal - 1 \in Nat
      BY <1>3, <1>7
    <3>5. couponsPartner.issues \cup {<<x, c>>} \in SUBSET (Coupons!Ops \X Coupons!Codes)
      BY <1>3
    <3>3. PICK b \in Nat, s \in SUBSET (Coupons!Ops \X Coupons!Codes) :
             b = couponsPartner.bal - 1 /\ s = couponsPartner.issues \cup {<<x, c>>}
      BY <3>4, <3>5, Zenon
    <3>. DEFINE d == [couponsPartner EXCEPT !.bal = b, !.issues = s, !.code = c]
    <3>1. /\ d \in [bal : Nat, issues : SUBSET (Coupons!Ops \X Coupons!Codes),
                    refunds : SUBSET Coupons!Codes,
                    applied : SUBSET Coupons!Keys, code : Coupons!Codes \cup {Coupons!Nothing}]
          /\ d.applied = couponsPartner.applied /\ d.refunds = couponsPartner.refunds
          /\ d.issues = couponsPartner.issues \cup {<<x, c>>}
      BY <1>3, <3>3
    <3>2. couponsPartner' = [d EXCEPT !.applied = @ \cup {k}]
      BY <1>7, <2>2, <3>3 DEF Coupons!Debited
    <3>. HIDE DEF d
    <3>. QED BY <3>1, <3>2
  <2>. QED BY <1>1, <1>2, <1>7, <2>2, <2>3, CouponsDebitKeeps
<1>8. CASE /\ k \notin couponsPartner.applied /\ k # Coupons!IssueKey
           /\ couponsPartner' = [Coupons!Credited(couponsPartner, k) EXCEPT !.applied = @ \cup {k}]
           /\ couponsCredits' = [o \in Coupons!Ops |-> IF o = Coupons!CreditedOp(k)
                                 THEN couponsCredits[o] + 1 ELSE couponsCredits[o]]
           /\ Coupons!Go(p, "settle") /\ UNCHANGED couponsDebited
  <2>1. CASE k = Coupons!TopupKey
    <3>1. k[1] = "topup"
      BY <2>1, CouponsKeyKinds
    <3>2. Coupons!CreditedOp(k) = Coupons!Nothing
      BY <3>1 DEF Coupons!CreditedOp
    <3>3. /\ couponsPartner' \in [bal : Nat, issues : SUBSET (Coupons!Ops \X Coupons!Codes),
                                  refunds : SUBSET Coupons!Codes,
                                  applied : SUBSET Coupons!Keys,
                                  code : Coupons!Codes \cup {Coupons!Nothing}]
          /\ couponsPartner'.applied = couponsPartner.applied \cup {k}
             /\ couponsPartner'.refunds = couponsPartner.refunds
          /\ couponsPartner'.issues = couponsPartner.issues
      <4>. DEFINE d == [couponsPartner EXCEPT !.bal = @ + TopUp]
      <4>1. /\ d \in [bal : Nat, issues : SUBSET (Coupons!Ops \X Coupons!Codes),
                      refunds : SUBSET Coupons!Codes,
                      applied : SUBSET Coupons!Keys, code : Coupons!Codes \cup {Coupons!Nothing}]
            /\ d.applied = couponsPartner.applied /\ d.refunds = couponsPartner.refunds
               /\ d.issues = couponsPartner.issues
        BY <1>3
      <4>2. couponsPartner' = [d EXCEPT !.applied = @ \cup {k}]
        BY <1>8, <3>1 DEF Coupons!Credited
      <4>. HIDE DEF d
      <4>. QED BY <4>1, <4>2
    <3>4. CouponsCreditStep(p, k, Coupons!Nothing)
      BY <1>1, <1>8, <3>2, <3>3 DEF CouponsCreditStep
    <3>5. /\ \A o \in Coupons!Ops : k # <<"unissue", o>>
          /\ \A c \in Coupons!Codes : k # <<"refund", c>>
      BY <3>1
    <3>. QED BY <1>1, <1>2, <1>8, <3>3, <3>4, <3>5, CouponsCreditKeeps
  <2>2. CASE k[1] = "unissue"
    <3>1. PICK x \in Coupons!Ops : x = k[2] /\ k = <<"unissue", x>>
      BY <2>2, CouponsKeyKinds
    <3>2. x \in couponsDebited /\ Coupons!Dead(x)
      BY <1>1, <1>2, <2>2, <3>1 DEF Coupons!Fits, Coupons!Booking
    <3>3. Coupons!CreditedOp(k) = x
      BY <2>2, <3>1 DEF Coupons!CreditedOp
    <3>4. couponsCredits[x] = 0
      <4>1. Coupons!Backed(x) /\ couponsCredits[x] \in Nat /\ \A c \in Coupons!Codes : Coupons!Kept(c)
        BY <1>1, CouponsKnown DEF Coupons!TypeOK
      <4>2. ASSUME NEW c \in Coupons!Codes,
      <<"refund", c>> \in couponsPartner.applied, couponsCoupon[c].op = x PROVE FALSE
        BY <3>2, <4>1, <4>2 DEF Coupons!Kept, Coupons!Dead, Coupons!Tomb
      <4>3. ~(couponsCredits[x] > 0)
        BY <1>8, <3>1, <4>1, <4>2, Zenon DEF Coupons!Backed
      <4>. QED BY <4>1, <4>3
    <3>5. /\ couponsPartner' \in [bal : Nat, issues : SUBSET (Coupons!Ops \X Coupons!Codes),
                                  refunds : SUBSET Coupons!Codes,
                                  applied : SUBSET Coupons!Keys,
                                  code : Coupons!Codes \cup {Coupons!Nothing}]
          /\ couponsPartner'.applied = couponsPartner.applied \cup {k}
             /\ couponsPartner'.refunds = couponsPartner.refunds
          /\ couponsPartner'.issues = {i \in couponsPartner.issues : i[1] # x}
      <4>4. couponsPartner.bal + 1 \in Nat
        BY <1>3
      <4>5. {i \in couponsPartner.issues : i[1] # x} \in SUBSET (Coupons!Ops \X Coupons!Codes)
        BY <1>3
      <4>3. PICK b \in Nat, s \in SUBSET (Coupons!Ops \X Coupons!Codes) :
               b = couponsPartner.bal + 1 /\ s = {i \in couponsPartner.issues : i[1] # x}
        BY <4>4, <4>5, Zenon
      <4>. DEFINE d == [couponsPartner EXCEPT !.bal = b, !.issues = s]
      <4>1. /\ d \in [bal : Nat, issues : SUBSET (Coupons!Ops \X Coupons!Codes),
                      refunds : SUBSET Coupons!Codes,
                      applied : SUBSET Coupons!Keys, code : Coupons!Codes \cup {Coupons!Nothing}]
            /\ d.applied = couponsPartner.applied /\ d.refunds = couponsPartner.refunds
            /\ d.issues = {i \in couponsPartner.issues : i[1] # x}
        BY <1>3, <4>3
      <4>2. couponsPartner' = [d EXCEPT !.applied = @ \cup {k}]
        BY <1>8, <2>2, <3>1, <4>3 DEF Coupons!Credited
      <4>. HIDE DEF d
      <4>. QED BY <4>1, <4>2
    <3>6. CouponsCreditStep(p, k, x)
      BY <1>1, <1>8, <3>3, <3>5 DEF CouponsCreditStep
    <3>7. /\ \A o \in Coupons!Ops : k = <<"unissue", o>> => o = x
          /\ \A c \in Coupons!Codes : k # <<"refund", c>>
      BY <3>1
    <3>8. x \in Coupons!Ops \cup {Coupons!Nothing} /\ couponsProc[p].key # Coupons!IssueKey
      BY <1>2, <1>8
    <3>9. /\ couponsPartner'.issues \subseteq couponsPartner.issues
          /\ \A i \in couponsPartner.issues : i[1] # x => i \in couponsPartner'.issues
      BY <3>5
    <3>10. \A c \in Coupons!Codes : c \in couponsPartner.refunds => c \in couponsPartner'.refunds
           \/ (couponsCoupon[c].op = x /\ couponsCoupon[c].owed)
      BY <3>5
    <3>11. /\ \A o \in Coupons!Ops : k = <<"unissue", o>> => o = x
           /\ \A c \in Coupons!Codes : k = <<"refund", c>> => couponsCoupon[c].owed
      BY <3>7
    <3>12. \/ k = <<"unissue", x>> /\ Coupons!Dead(x)
           \/ \E c \in Coupons!Codes : k = <<"refund", c>> /\ couponsCoupon[c].op = x
      BY <3>1, <3>2
    <3>13. k # Coupons!IssueKey /\ couponsProc[p].pc = "commit"
      BY <1>1, <1>8
    <3>. QED BY <3>2, <3>4, <3>6, <3>8, <3>9, <3>10, <3>11, <3>12, <3>13, CouponsCreditKeeps, Zenon
  <2>3. CASE k[1] = "refund"
    <3>1. PICK c \in Coupons!Codes : c = k[2] /\ k = <<"refund", c>>
      BY <2>3, CouponsKeyKinds
    <3>2. couponsCoupon[c].owed /\ Coupons!Kept(c)
      BY <1>1, <1>2, <2>3, <3>1, CouponsKnown DEF Coupons!Fits, Coupons!Booking
    <3>3. PICK x \in Coupons!Ops :
             x = couponsCoupon[c].op /\ x \in couponsDebited /\ couponsCoupon[c].st = "void"
      BY <3>2, CouponsOpsKnown DEF Coupons!Kept
    <3>4. Coupons!CreditedOp(k) = x
      BY <2>3, <3>1, <3>3 DEF Coupons!CreditedOp
    <3>5. couponsCredits[x] = 0
      <4>1. Coupons!Backed(x) /\ couponsCredits[x] \in Nat
        BY <1>1, CouponsKnown DEF Coupons!TypeOK
      <4>2. <<"unissue", x>> \notin couponsPartner.applied
        BY <3>3, <4>1 DEF Coupons!Backed, Coupons!Dead, Coupons!Tomb
      <4>3. ASSUME NEW d \in Coupons!Codes,
      <<"refund", d>> \in couponsPartner.applied, couponsCoupon[d].op = x PROVE FALSE
        <5>1. Coupons!Pair(x, d) /\ Coupons!Pair(x, c)
          BY <3>3, <4>3 DEF Coupons!Pair
        <5>2. d = c
          BY <1>1, <5>1 DEF Coupons!Paired
        <5>. QED BY <1>8, <3>1, <4>3, <5>2
      <4>4. ~(couponsCredits[x] > 0)
        BY <4>1, <4>2, <4>3, Zenon DEF Coupons!Backed
      <4>. QED BY <4>1, <4>4
    <3>6. /\ couponsPartner' \in [bal : Nat, issues : SUBSET (Coupons!Ops \X Coupons!Codes),
                                  refunds : SUBSET Coupons!Codes,
                                  applied : SUBSET Coupons!Keys,
                                  code : Coupons!Codes \cup {Coupons!Nothing}]
          /\ couponsPartner'.applied = couponsPartner.applied \cup {k}
             /\ couponsPartner'.refunds = couponsPartner.refunds \ {c}
          /\ couponsPartner'.issues = couponsPartner.issues
      <4>4. couponsPartner.bal + 1 \in Nat
        BY <1>3
      <4>5. couponsPartner.refunds \ {c} \in SUBSET Coupons!Codes
        BY <1>3
      <4>3. PICK b \in Nat, s \in SUBSET Coupons!Codes :
               b = couponsPartner.bal + 1 /\ s = couponsPartner.refunds \ {c}
        BY <4>4, <4>5, Zenon
      <4>. DEFINE d == [couponsPartner EXCEPT !.bal = b, !.refunds = s]
      <4>1. /\ d \in [bal : Nat, issues : SUBSET (Coupons!Ops \X Coupons!Codes),
                      refunds : SUBSET Coupons!Codes,
                      applied : SUBSET Coupons!Keys, code : Coupons!Codes \cup {Coupons!Nothing}]
            /\ d.applied = couponsPartner.applied /\ d.refunds = couponsPartner.refunds \ {c}
               /\ d.issues = couponsPartner.issues
        BY <1>3, <4>3
      <4>2. couponsPartner' = [d EXCEPT !.applied = @ \cup {k}]
        BY <1>8, <2>3, <3>1, <4>3 DEF Coupons!Credited
      <4>. HIDE DEF d
      <4>. QED BY <4>1, <4>2
    <3>7. CouponsCreditStep(p, k, x)
      BY <1>1, <1>8, <3>4, <3>6 DEF CouponsCreditStep
    <3>8. /\ \A o \in Coupons!Ops : k # <<"unissue", o>>
          /\ \A d \in Coupons!Codes : k = <<"refund", d>> => d = c
      BY <3>1
    <3>9. \A d \in Coupons!Codes : d \in couponsPartner.refunds => d \in couponsPartner'.refunds
          \/ (couponsCoupon[d].op = x /\ couponsCoupon[d].owed)
      BY <3>2, <3>3, <3>6
    <3>10. \E d \in Coupons!Codes : k = <<"refund", d>> /\ couponsCoupon[d].op = x
      BY <3>1, <3>3
    <3>11. x \in Coupons!Ops \cup {Coupons!Nothing} /\ couponsProc[p].key # Coupons!IssueKey
      BY <1>2, <1>8
    <3>12. /\ couponsPartner'.issues \subseteq couponsPartner.issues
           /\ \A i \in couponsPartner.issues : i[1] # x => i \in couponsPartner'.issues
      BY <3>6
    <3>13. /\ \A o \in Coupons!Ops : k = <<"unissue", o>> => o = x
           /\ \A d \in Coupons!Codes : k = <<"refund", d>> => couponsCoupon[d].owed
      BY <3>2, <3>8
    <3>. QED BY <1>1, <1>8, <3>3, <3>5, <3>7, <3>9, <3>10, <3>11, <3>12, <3>13, CouponsCreditKeeps,
         Zenon
  <2>. QED BY <1>8, <2>1, <2>2, <2>3, CouponsKeyKinds
<1>. QED BY <1>2, <1>4, <1>5, <1>6, <1>7, <1>8 DEF Coupons!Commit
-----------------------------------------------------------------------------
(* The invariant of the coupons.                                          *)

LEMMA CouponsInitKeeps ==
    ASSUME Coupons!Init
    PROVE  Coupons!IInv
<1>1. Coupons!Idle \in Coupons!Locals /\ Coupons!Idle.pc = "idle"
      /\ Coupons!Idle.op = Coupons!Nothing /\ Coupons!Idle.code = Coupons!Nothing
  BY CouponsIdleTyped
<1>2. /\ Coupons!Absent \in Coupons!Records /\ Coupons!Absent.st = "absent"
         /\ Coupons!Absent.op = Coupons!Nothing /\ Coupons!Absent.owed = FALSE
  BY DEF Coupons!Absent, Coupons!Records
<1>3. \A p \in Requests : couponsProc[p] = Coupons!Idle
  BY DEF Coupons!Init
<1>4. \A c \in Coupons!Codes : couponsCoupon[c] = Coupons!Absent /\ couponsPaid[c] = 0
      /\ couponsFreed[c] = 0
  BY DEF Coupons!Init
<1>5. /\ couponsPartner.issues = {} /\ couponsPartner.applied = {} /\ couponsPartner.refunds = {}
      /\ couponsDebited = {} /\ \A o \in Coupons!Ops : couponsCredits[o] = 0
  BY DEF Coupons!Init
<1>6. Coupons!TypeOK
  <2>1. /\ couponsPartner \in [bal : Nat, issues : SUBSET (Coupons!Ops \X Coupons!Codes),
                               refunds : SUBSET Coupons!Codes,
                               applied : SUBSET Coupons!Keys,
                               code : Coupons!Codes \cup {Coupons!Nothing}]
    BY DEF Coupons!Init
  <2>2. [st |-> "free", code |-> Coupons!Nothing] \in Coupons!Claims
    BY DEF Coupons!Claims
  <2>3. couponsIdem \in [Coupons!Keys -> Coupons!Claims]
    BY <2>2 DEF Coupons!Init
  <2>4. couponsLeft \in [{"ask", "admin", "fault"} -> Nat]
    BY CouponConstants DEF Coupons!Init
  <2>5. couponsCoupon \in [Coupons!Codes -> Coupons!Records]
        /\ couponsProc \in [Requests -> Coupons!Locals]
    BY <1>1, <1>2 DEF Coupons!Init
  <2>. QED BY <2>1, <2>3, <2>4, <2>5 DEF Coupons!Init, Coupons!TypeOK
<1>7. Coupons!Paired
  <2>1. \A o \in Coupons!Ops, c \in Coupons!Codes : ~Coupons!Pair(o, c)
    BY <1>1, <1>2, <1>3, <1>4, <1>5, CouponsNothingNew DEF Coupons!Pair
  <2>. QED BY <2>1 DEF Coupons!Paired
<1>8. ASSUME NEW p \in Requests PROVE Coupons!Drawn(p) /\ Coupons!Fits(couponsProc[p])
  <2>1. Coupons!Fits(Coupons!Idle)
    BY <1>1, CouponsFreshFits
  <2>. QED BY <1>1, <1>3, <2>1 DEF Coupons!Drawn, Coupons!Drawing, Coupons!Booking
<1>9. \A o \in Coupons!Ops : Coupons!Backed(o)
  BY <1>5 DEF Coupons!Backed
<1>10. ASSUME NEW c \in Coupons!Codes PROVE Coupons!Kept(c)
  <2>1. Coupons!Pays(c) = {}
    BY <1>1, <1>3 DEF Coupons!Pays, Coupons!At
  <2>2. Coupons!Cardinality(Coupons!Pays(c)) = 0
    BY <2>1, CouponsEmptySet
  <2>3. couponsCoupon[c].st = "absent" /\ couponsCoupon[c].op = Coupons!Nothing
        /\ ~couponsCoupon[c].owed
    BY <1>2, <1>4
  <2>4. couponsPaid[c] + Coupons!Cardinality(Coupons!Pays(c)) <= couponsFreed[c]
        + (IF couponsCoupon[c].st \in Coupons!Over THEN 1 ELSE 0)
    BY <1>4, <2>2, <2>3 DEF Coupons!Over
  <2>. QED BY <1>5, <2>3, <2>4 DEF Coupons!Kept
<1>11. Coupons!Charged
  BY <1>5 DEF Coupons!Charged, Coupons!Live
<1>12. couponsDebited \subseteq couponsUsed /\ \A i \in couponsPartner.issues : i[1] \in couponsDebited
  BY <1>5
<1>. QED BY <1>6, <1>7, <1>8, <1>9, <1>10, <1>11, <1>12 DEF Coupons!IInv

LEMMA CouponsStutterKeeps ==
    ASSUME Coupons!IInv, UNCHANGED Coupons!vars
    PROVE  Coupons!IInv'
<1>1. UNCHANGED <<couponsPartner, couponsCoupon, couponsIdem, couponsProc, couponsUsed, couponsDebited,
                  couponsCredits, couponsPaid, couponsFreed, couponsLoose, couponsDropped, couponsLeft>>
  BY DEF Coupons!vars, Coupons!history
<1>2. /\ Coupons!TypeOK' /\ Coupons!Paired' /\ couponsDebited' \subseteq couponsUsed'
         /\ Coupons!Charged'
      /\ \A i \in couponsPartner'.issues : i[1] \in couponsDebited'
  BY <1>1, CouponsKnown DEF Coupons!TypeOK, Coupons!Paired, Coupons!Pair, Coupons!Charged,
       Coupons!Live
<1>3. \A p \in Requests : Coupons!Drawn(p)'
  BY <1>1, CouponsKnown DEF Coupons!Drawn, Coupons!Drawing, Coupons!Tomb
<1>4. ASSUME NEW l, Coupons!Fits(l) PROVE Coupons!Fits(l)'
  <2>1. \A o : Coupons!Dead(o) => Coupons!Dead(o)'
    BY <1>1 DEF Coupons!Dead, Coupons!Drawing, Coupons!Tomb
  <2>2. \A c, o : Coupons!Ours(c, o) => Coupons!Ours(c, o)'
    BY <1>1 DEF Coupons!Ours, Coupons!Tomb
  <2>. QED BY <1>1, <1>4, <2>1, <2>2 DEF Coupons!Fits
<1>5. ASSUME NEW p \in Requests PROVE Coupons!Fits(couponsProc[p])'
  <2>1. PICK l : l = couponsProc[p]
    OBVIOUS
  <2>2. Coupons!Fits(l)'
    BY <1>4, <2>1, CouponsKnown
  <2>. QED BY <1>1, <2>1, <2>2
<1>6. \A o \in Coupons!Ops : Coupons!Backed(o)'
  <2>1. \A o : Coupons!Dead(o) => Coupons!Dead(o)'
    BY <1>1 DEF Coupons!Dead, Coupons!Drawing, Coupons!Tomb
  <2>2. \A c, o : Coupons!Ours(c, o) => Coupons!Ours(c, o)'
    BY <1>1 DEF Coupons!Ours, Coupons!Tomb
  <2>. QED BY <1>1, <2>1, <2>2, CouponsKnown DEF Coupons!Backed
<1>7. \A c \in Coupons!Codes : Coupons!Kept(c)'
  BY <1>1, CouponsKnown DEF Coupons!Kept, Coupons!Pays, Coupons!At
<1>. QED BY <1>2, <1>3, <1>5, <1>6, <1>7 DEF Coupons!IInv

LEMMA CouponsNextKeeps ==
    ASSUME Coupons!IInv, [Coupons!Next]_Coupons!vars
    PROVE  Coupons!IInv'
<1>1. ASSUME NEW p \in Requests, Coupons!Step(p) PROVE Coupons!IInv'
  BY <1>1, CouponsClaimKeeps, CouponsCommitKeeps, CouponsSettleKeeps, CouponsIssueKeeps,
       CouponsFindKeeps, CouponsFoundKeeps, CouponsLookupKeeps,
     CouponsReleaseKeeps, CouponsForgetKeeps, CouponsDrawKeeps, CouponsCreateKeeps,
     CouponsConfirmKeeps, CouponsCollidedKeeps, CouponsUncollideKeeps,
     CouponsReconcileKeeps, CouponsInspectKeeps, CouponsTombstoneKeeps, CouponsReinspectKeeps,
     CouponsUnissueStepKeeps, CouponsFlipKeeps,
     CouponsIntentSeenKeeps, CouponsDropKeeps, CouponsRollbackKeeps, CouponsEnterPayingKeeps,
     CouponsPayKeeps, CouponsFinalizeKeeps,
     CouponsTopUpKeeps, CouponsDieKeeps DEF Coupons!Step
<1>. QED BY <1>1, CouponsVoidKeeps, CouponsRedeemKeeps, CouponsResolveKeeps,
     CouponsStutterKeeps DEF Coupons!Next

\* Every coupon has one debit, every credit its key, and every payment its room.
THEOREM CouponsInvariant == Coupons!Spec => []Coupons!IInv
<1>1. Coupons!Init => Coupons!IInv
  BY CouponsInitKeeps
<1>2. Coupons!IInv /\ [Coupons!Next]_Coupons!vars => Coupons!IInv'
  BY CouponsNextKeeps
<1>. QED BY <1>1, <1>2, PTL DEF Coupons!Spec

LEMMA CouponsKeptSafe ==
    ASSUME Coupons!IInv
    PROVE  Coupons!NoFreeCoupon /\ Coupons!NothingStranded /\ Coupons!OnePayment /\ Coupons!ChargedOnce
<1>1. Coupons!TypeOK /\ couponsCredits \in [Coupons!Ops -> Nat] /\ couponsDebited \subseteq Coupons!Ops
  BY CouponsKnown DEF Coupons!TypeOK
<1>2. \A o \in Coupons!Ops : couponsCredits[o] <= IF o \in couponsDebited THEN 1 ELSE 0
  <2>1. SUFFICES ASSUME NEW o \in Coupons!Ops PROVE couponsCredits[o] <= IF o \in couponsDebited
                        THEN 1 ELSE 0
    OBVIOUS
  <2>2. Coupons!Backed(o) /\ couponsCredits[o] \in Nat
    BY <1>1, CouponsKnown
  <2>3. couponsCredits[o] <= 1 /\ (couponsCredits[o] > 0 => o \in couponsDebited)
    BY <2>2 DEF Coupons!Backed
  <2>. QED BY <2>2, <2>3
<1>3. ASSUME NEW c \in Coupons!Codes, couponsCoupon[c].op # Coupons!Nothing, ~Coupons!Tomb(c)
      PROVE  /\ couponsCoupon[c].op \in couponsDebited
             /\ couponsCredits[couponsCoupon[c].op] > 0 => couponsCoupon[c].st = "void"
                /\ (couponsFreed[c] > 0 \/ couponsPaid[c] = 0)
  <2>1. PICK o \in Coupons!Ops : o = couponsCoupon[c].op /\ o \in couponsDebited
    BY <1>3, CouponsOpsKnown
  <2>2. ASSUME couponsCredits[o] > 0 PROVE couponsCoupon[c].owed
    <3>1. Coupons!Backed(o) /\ \A d \in Coupons!Codes : Coupons!Kept(d)
      BY CouponsKnown
    <3>2. <<"unissue", o>> \notin couponsPartner.applied
      BY <1>3, <2>1, <3>1 DEF Coupons!Backed, Coupons!Dead
    <3>3. PICK d \in Coupons!Codes :
             <<"refund", d>> \in couponsPartner.applied /\ couponsCoupon[d].op = o
      BY <2>2, <3>1, <3>2 DEF Coupons!Backed
    <3>4. d = c
      <4>1. Coupons!Pair(o, d) /\ Coupons!Pair(o, c)
        BY <2>1, <3>3 DEF Coupons!Pair
      <4>. QED BY <4>1, CouponsKnown DEF Coupons!Paired
    <3>. QED BY <3>1, <3>3, <3>4 DEF Coupons!Kept
  <2>3. Coupons!Kept(c)
    BY CouponsKnown
  <2>4. couponsCoupon[c].owed => couponsCoupon[c].st = "void"
        /\ (couponsFreed[c] > 0 \/ couponsPaid[c] = 0)
    BY <2>3 DEF Coupons!Kept
  <2>. QED BY <2>1, <2>2, <2>4
<1>4. Coupons!NoFreeCoupon
  BY <1>2, <1>3 DEF Coupons!NoFreeCoupon
<1>5. Coupons!NothingStranded
  <2>1. \A o \in Coupons!Live : \/ \E i \in couponsPartner.issues : i[1] = o
                       \/ \E c \in Coupons!Codes : Coupons!Ours(c, o)
    BY <1>1, CouponsKnown, Zenon DEF Coupons!Live, Coupons!Backed
  <2>. QED BY <2>1, CouponsKnown DEF Coupons!NothingStranded, Coupons!Kept
<1>6. ASSUME NEW c \in Coupons!Codes PROVE couponsPaid[c] <= 1 + couponsFreed[c]
  <2>1. Coupons!Kept(c) /\ couponsPaid[c] \in Nat /\ couponsFreed[c] \in Nat
    BY <1>1, CouponsKnown DEF Coupons!TypeOK
  <2>2. Coupons!Cardinality(Coupons!Pays(c)) \in Nat
    <3>1. Coupons!Pays(c) \in SUBSET Requests
      BY DEF Coupons!Pays
    <3>2. IsFiniteSet(Coupons!Pays(c))
      BY <3>1, CouponConstants, CouponsSubset
    <3>. QED BY <3>2, CouponsCardinalityType
  <2>3. PICK n \in {0, 1} : n = (IF couponsCoupon[c].st \in Coupons!Over THEN 1 ELSE 0)
    OBVIOUS
  <2>4. couponsPaid[c] + Coupons!Cardinality(Coupons!Pays(c)) <= couponsFreed[c] + n
    BY <2>1, <2>3 DEF Coupons!Kept
  <2>. QED BY <2>1, <2>2, <2>3, <2>4
<1>7. Coupons!ChargedOnce
  <2>1. CASE couponsLoose
    BY <2>1 DEF Coupons!ChargedOnce
  <2>2. CASE ~couponsLoose
    <3>1. \A o, q \in Coupons!Live : o = q
      BY <2>2, CouponsKnown DEF Coupons!Charged
    <3>2. CASE Coupons!Live = {}
      <4>1. Coupons!Cardinality(Coupons!Live) = 0
        BY <3>2, CouponsEmptySet
      <4>. QED BY <4>1 DEF Coupons!ChargedOnce
    <3>3. CASE Coupons!Live # {}
      <4>1. PICK o : Coupons!Live = {o}
        BY <3>1, <3>3
      <4>2. Coupons!Cardinality(Coupons!Live) = 1
        BY <4>1, CouponsSingleton
      <4>. QED BY <4>2 DEF Coupons!ChargedOnce
    <3>. QED BY <3>2, <3>3
  <2>. QED BY <2>1, <2>2
<1>. QED BY <1>4, <1>5, <1>6, <1>7 DEF Coupons!OnePayment

\* No coupon is free, no debit is stranded, a coupon pays once and a caller key
\* is charged once, but for what the properties name.
THEOREM CouponsSafe == Coupons!Spec
=> [](Coupons!NoFreeCoupon /\ Coupons!NothingStranded /\ Coupons!OnePayment /\ Coupons!ChargedOnce)
<1>1. Coupons!IInv => Coupons!NoFreeCoupon /\ Coupons!NothingStranded /\ Coupons!OnePayment
      /\ Coupons!ChargedOnce
  BY CouponsKeptSafe
<1>. QED BY <1>1, CouponsInvariant, PTL

-----------------------------------------------------------------------------
\* Once more for the behaviours where side picks the component.
CouponsSideInv == side = "coupons" => Coupons!IInv

LEMMA CouponsSideInvariant == SideSpec => []CouponsSideInv
<1>1. SideInit => CouponsSideInv
  BY CouponsInitKeeps DEF SideInit, CouponsSideInv
<1>2. CouponsSideInv /\ [SideNext]_all => CouponsSideInv'
  <2>1. SUFFICES ASSUME side = "coupons" => Coupons!IInv, [SideNext]_all, side' = "coupons"
                 PROVE  Coupons!IInv'
    BY DEF CouponsSideInv
  <2>2. CASE side = "coupons" /\ Coupons!Next /\ side' = side
    BY <2>1, <2>2, CouponsNextKeeps
  <2>3. CASE UNCHANGED <<side, couponsVars>>
    <3>1. side = "coupons" /\ UNCHANGED Coupons!vars
      BY <2>1, <2>3 DEF couponsVars, Coupons!vars, Coupons!history
    <3>. QED BY <2>1, <3>1, CouponsNextKeeps
  <2>. QED BY <2>1, <2>2, <2>3 DEF SideNext, all
<1>. QED BY <1>1, <1>2, PTL DEF SideSpec

\* The invariant of the run: every coupon that can be spent has its own debit,
\* given back at most once, and no debit is left without coupon or breadcrumb.
THEOREM CouponsBackedHolds == SideSpec => []CouponsBacked
<1>1. CouponsSideInv => CouponsBacked
  BY CouponsKeptSafe DEF CouponsBacked, CouponsSideInv
<1>. QED BY <1>1, CouponsSideInvariant, PTL

\* The invariant of the run: retries of a caller key are charged once, and a
\* coupon is sent to pay-invoice once and once more for each release by hand.
THEOREM CouponsOnceHolds == SideSpec => []CouponsOnce
<1>1. CouponsSideInv => CouponsOnce
  BY CouponsKeptSafe DEF CouponsOnce, CouponsSideInv
<1>. QED BY <1>1, CouponsSideInvariant, PTL
=============================================================================
