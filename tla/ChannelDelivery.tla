-------------------------- MODULE ChannelDelivery --------------------------
(***************************************************************************)
(* Deliveries paid from an inbound Stellar channel: the channel path of    *)
(* the proxy (routes/proxy.ts) and the end of asynchronous jobs            *)
(* (routes/job-status.ts).                                                 *)
(*                                                                         *)
(* A request locks the channel, reads the watermark, has its voucher       *)
(* accepted, calls the merchant, and then keeps the payment or rolls the   *)
(* voucher back.  A merchant that accepts a job leaves the lock with it;   *)
(* a finisher (the owner's poll, or the cron) later keeps or rolls back.   *)
(* Every store access is a step of its own; Workers die between any two,   *)
(* and the lock may expire under a holder that goes on.                    *)
(***************************************************************************)
EXTENDS ChannelStore

CONSTANTS Finishers,     \* polls and cron passes that see a job end
          MaxFaults      \* how often a request or a job outlives the lock's TTL, or a
                         \* KV write takes effect and fails

Procs == Requests \cup Finishers

ASSUME ChannelConstants == /\ Requests \cap Finishers = {}
                           /\ MaxFaults \in Nat

VARIABLES pc,         \* pc[p]: the next step of request or finisher p
          voucher,    \* voucher[r]: what request r presented, and found before
          result,     \* result[r]: what request r came to
          cached,     \* the idempotency cache holds an answer
          jobs,       \* jobAuth:<id>, by the request that started the job
          terminal,   \* refund:async-terminal:<id>
          finish,     \* finish[f]: the job finisher f works on, and the end it saw
          charged,    \* requests whose voucher was accepted and not rolled back
          faults,     \* how many of these faults there were
          repeated    \* a finisher took up a claim of another

request == <<voucher, result, cached>>
async   == <<jobs, terminal, finish>>
past    == <<faults, repeated>>
vars    == <<store, pc, request, async, charged, past>>

RequestPC  == {"idle", "read", "verify", "accepted"}
RollbackPC == {"undo", "erase", "recheck", "reamount", "rechallenge"}
FinisherPC == {"idle", "claim", "refund", "mark"}
Ends       == {"delivered", "failed"}
Results    == {"open", "limited", "failed", "refused", "delivered", "returned",
               "refunded", "review", "job"}
Voucher    == [challenge : Challenges \cup {NoOne}, amount : Nat, close : BOOLEAN,
               previous : Nat]
NoVoucher  == [challenge |-> NoOne, amount |-> 0, close |-> FALSE, previous |-> 0]
Terminal   == [outcome : Ends \cup {"none"}, done : BOOLEAN]

TypeOK == /\ StoreTypeOK
          /\ pc \in [Procs -> RequestPC \cup RollbackPC \cup FinisherPC \cup {"release", "done"}]
          /\ voucher \in [Requests -> Voucher]
          /\ result \in [Requests -> Results]
          /\ cached \in BOOLEAN
          /\ jobs \subseteq Requests
          /\ terminal \in [Requests -> Terminal]
          /\ finish \in [Finishers -> [job : Requests \cup {NoOne}, end : Ends]]
          /\ charged \subseteq Requests
          /\ faults \in 0 .. MaxFaults
          /\ repeated \in BOOLEAN

Init == /\ StoreInit
        /\ pc = [p \in Procs |-> "idle"]
        /\ voucher = [r \in Requests |-> NoVoucher]
        /\ result = [r \in Requests |-> "open"]
        /\ cached = FALSE
        /\ jobs = {}
        /\ terminal = [r \in Requests |-> [outcome |-> "none", done |-> FALSE]]
        /\ finish = [f \in Finishers |-> [job |-> NoOne, end |-> "failed"]]
        /\ charged = {}
        /\ faults = 0
        /\ repeated = FALSE

Go(p, step)  == pc' = [pc EXCEPT ![p] = step]
End(r, what) == result' = [result EXCEPT ![r] = what]
Fault        == faults < MaxFaults /\ faults' = faults + 1

\* The request whose voucher process p handles.
Of(p) == IF p \in Requests THEN p ELSE finish[p].job

-----------------------------------------------------------------------------
(* The proxy: lock, watermark, voucher.                                    *)

\* A request with a credential takes the lock ...
Lock(r) ==
    /\ pc[r] = "idle"
    /\ AcquireLock(r)
    /\ Go(r, "read")
    /\ UNCHANGED <<watermark, used, request, async, charged, past>>

\* ... or is told to retry shortly (409).
LockBusy(r) ==
    /\ pc[r] = "idle"
    /\ lock.live
    /\ Go(r, "done")
    /\ End(r, "refused")
    /\ UNCHANGED <<store, voucher, cached, async, charged, past>>

ReadPrevious(r) ==
    /\ pc[r] = "read"
    /\ voucher' = [voucher EXCEPT ![r] = [NoVoucher EXCEPT !.previous = watermark.amount]]
    /\ Go(r, "verify")
    /\ UNCHANGED <<store, result, cached, async, charged, past>>

\* What the credential says is first looked at when it is verified.
Accepted(r, c, n, close) ==
    /\ pc[r] = "verify"
    /\ AcceptVoucher(c, n, close)
    /\ voucher' = [voucher EXCEPT ![r] = [challenge |-> c, amount |-> n, close |-> close,
                                          previous |-> voucher[r].previous]]
    /\ charged' = charged \cup {r}
    /\ UNCHANGED <<lock, cached, async, past>>

Verify(r, c, n, close) ==
    Accepted(r, c, n, close) /\ Go(r, "accepted") /\ UNCHANGED result

\* The voucher is accepted but its details cannot be recovered from the
\* credential (503, the lock stays) ...
VerifyUncaptured(r, c, n, close) ==
    Accepted(r, c, n, close) /\ Go(r, "done") /\ End(r, "review")

\* ... or the answer of the store is lost and the verifier throws (402).
VerifyThrows(r, c, n, close) ==
    Accepted(r, c, n, close) /\ Go(r, "release") /\ End(r, "refused")

VerifyRefused(r) ==
    /\ pc[r] = "verify"
    /\ Go(r, "release")
    /\ End(r, "refused")
    /\ UNCHANGED <<store, voucher, cached, async, charged, past>>

-----------------------------------------------------------------------------
(* The proxy: the merchant's answer.                                       *)

Answered(r, what, step) ==
    /\ pc[r] = "accepted"
    /\ End(r, what)
    /\ Go(r, step)
    /\ UNCHANGED <<store, voucher, terminal, finish, charged>>

Answer(r, what, step) == Answered(r, what, step) /\ UNCHANGED <<cached, jobs, past>>

\* An idempotent retry is answered from the cache, for its new voucher.
CacheHit(r) == cached /\ Answer(r, "delivered", "release")

\* The merchant delivers; the answer is cached afterwards, if at all.
Delivered(r, caches) ==
    /\ Answered(r, "delivered", "release")
    /\ cached' = (cached \/ caches)
    /\ UNCHANGED <<jobs, past>>

\* The merchant accepts a job: its record keeps the lock and the voucher.
JobStored(r) == /\ Answered(r, "job", "done")
                /\ jobs' = jobs \cup {r}
                /\ UNCHANGED <<cached, past>>

\* A job of a credential without an account is refused (401): the lock stays, and
\* so does the voucher.
JobUnbound(r) == Answer(r, "review", "done")

\* Faulty: an undelivered voucher is kept.
FailedKept(r, what) == ~voucher[r].close /\ Answer(r, "returned", "release")

\* No slot, no answer, an error, or a job without an id: a voucher is rolled
\* back ...
FailedVoucher(r, what) == ~voucher[r].close /\ Answer(r, what, "undo")

\* ... as it is when the job's record could not be stored, or seemed not to be.
JobUnstored(r, stored) ==
    /\ ~voucher[r].close
    /\ Answered(r, "failed", "undo")
    /\ jobs' = IF stored THEN jobs \cup {r} ELSE jobs
    /\ IF stored THEN Fault ELSE UNCHANGED faults
    /\ UNCHANGED <<cached, repeated>>

\* A closing voucher has been settled on chain, so its failure is refunded; if
\* that cannot be queued an operator must, and a failed job keeps the lock.
FailedClose(r) == voucher[r].close /\ Answer(r, "refunded", "release")
RefundThrows(r, keeps) ==
    voucher[r].close /\ Answer(r, "review", IF keeps THEN "done" ELSE "release")

-----------------------------------------------------------------------------
(* rollbackFailedChannelVoucher, for a request or for a finisher.          *)

Return(p, ok) ==
    IF p \in Requests
    THEN /\ End(p, IF ok THEN "returned" ELSE "review")
         /\ Go(p, IF ok \/ result[p] = "limited" THEN "release" ELSE "done")
    ELSE /\ UNCHANGED result
         /\ Go(p, IF ok THEN "release" ELSE "done")

Undo(p) ==
    LET v == voucher[Of(p)]
    IN  /\ pc[p] = "undo"
        /\ RestoreWatermark(v.amount, v.previous)
        /\ charged' = charged \ {Of(p)}
        /\ Go(p, "erase")
        /\ UNCHANGED <<lock, used, request, async, past>>

UndoOvertaken(p) ==
    /\ pc[p] = "undo"
    /\ ~Latest(voucher[Of(p)].amount)
    /\ Go(p, "recheck")
    /\ UNCHANGED <<store, request, async, charged, past>>

Erase(p) ==
    /\ pc[p] = "erase"
    /\ used' = used \ {voucher[Of(p)].challenge}
    /\ Return(p, TRUE)
    /\ UNCHANGED <<lock, watermark, voucher, cached, async, charged, past>>

\* Was it rolled back before?  The watermark and the challenge are read side by
\* side, in either order; both must be as the rollback leaves them.
Reread(p, asLeft, last, other) ==
    /\ pc[p] \in {"recheck", last}
    /\ IF asLeft /\ pc[p] = "recheck" THEN Go(p, other) /\ UNCHANGED result
                                     ELSE Return(p, asLeft)
    /\ UNCHANGED <<store, voucher, cached, async, charged, past>>

RereadWatermark(p) ==
    Reread(p, watermark.amount = voucher[Of(p)].previous, "reamount", "rechallenge")
RereadChallenge(p) ==
    Reread(p, voucher[Of(p)].challenge \notin used, "rechallenge", "reamount")

\* The proxy catches a store error during the rollback.
RollbackThrows(r) ==
    /\ pc[r] \in RollbackPC
    /\ Return(r, FALSE)
    /\ UNCHANGED <<store, voucher, cached, async, charged, past>>

Rollback(p) == Undo(p) \/ UndoOvertaken(p) \/ Erase(p) \/ RereadWatermark(p) \/ RereadChallenge(p)

\* The lock is given back: the request is answered, the job is marked done.
Release(p) ==
    /\ pc[p] = "release"
    /\ ReleaseLock(Of(p))
    /\ Go(p, IF p \in Requests THEN "done" ELSE "mark")
    /\ UNCHANGED <<watermark, used, request, async, charged, past>>

\* The Worker dies, or an error nobody catches ends it.
Die(p) ==
    /\ pc[p] \notin {"idle", "done"}
    /\ Go(p, "done")
    /\ UNCHANGED <<store, request, async, charged, past>>

-----------------------------------------------------------------------------
(* The end of a job: finishAsyncDelivery.                                  *)

\* A poll or the cron reads the job and learns its end: the merchant says so,
\* answers an error, or the job is too old.
SeeEnd(f, r, end) ==
    /\ pc[f] = "idle"
    /\ r \in jobs
    /\ finish' = [finish EXCEPT ![f] = [job |-> r, end |-> end]]
    /\ Go(f, "claim")
    /\ UNCHANGED <<store, request, jobs, terminal, charged, past>>

AfterClaim(f) ==
    LET r == finish[f].job
    IN  Go(f, IF finish[f].end = "delivered" THEN "release"
              ELSE IF voucher[r].close THEN "refund" ELSE "undo")

\* Faulty: the end that was claimed before is overwritten.
ClaimAnyway(f) ==
    LET r == finish[f].job
    IN  /\ pc[f] = "claim"
        /\ terminal' = [terminal EXCEPT ![r] = [outcome |-> finish[f].end, done |-> FALSE]]
        /\ AfterClaim(f)
        /\ UNCHANGED <<store, request, jobs, finish, charged, past>>

Claim(f) ==
    LET r == finish[f].job
    IN  /\ pc[f] = "claim"
        /\ terminal[r].outcome = "none"
        /\ terminal' = [terminal EXCEPT ![r] = [outcome |-> finish[f].end, done |-> FALSE]]
        /\ AfterClaim(f)
        /\ UNCHANGED <<store, request, jobs, finish, charged, past>>

\* Claimed for the other end, or done.
ClaimRefused(f) ==
    LET t == terminal[finish[f].job]
    IN  /\ pc[f] = "claim"
        /\ t.outcome # "none"
        /\ t.outcome # finish[f].end \/ t.done
        /\ Go(f, "done")
        /\ UNCHANGED <<store, request, async, charged, past>>

\* Claimed for the same end and not done: do it (again).
ClaimRetry(f) ==
    LET t == terminal[finish[f].job]
    IN  /\ pc[f] = "claim"
        /\ t.outcome = finish[f].end
        /\ ~t.done
        /\ AfterClaim(f)
        /\ repeated' = TRUE
        /\ UNCHANGED <<store, request, async, charged, faults>>

\* enqueueRefund for a job paid by a closing voucher.
RefundJob(f) ==
    /\ pc[f] = "refund"
    /\ Go(f, "release")
    /\ UNCHANGED <<store, request, async, charged, past>>

MarkDone(f) ==
    LET r == finish[f].job
    IN  /\ pc[f] = "mark"
        /\ terminal' = [terminal EXCEPT ![r] = [outcome |-> finish[f].end, done |-> TRUE]]
        /\ Go(f, "done")
        /\ UNCHANGED <<store, request, jobs, finish, charged, past>>

-----------------------------------------------------------------------------

\* Somebody still relies on the lock of request r.
JobOpen(r) == r \in jobs /\ terminal[r].outcome = "none"
Working(p) == pc[p] \notin {"idle", "claim", "mark", "done"}
Holding(r) == JobOpen(r) \/ \E p \in Procs : Working(p) /\ Of(p) = r

\* 300 s after it was taken the lock may be taken over.
LockExpires ==
    /\ ExpireLock
    /\ IF Holding(lock.id) THEN Fault ELSE UNCHANGED faults
    /\ UNCHANGED <<watermark, used, pc, request, async, charged, repeated>>

RequestStep(r) ==
    \/ Lock(r) \/ LockBusy(r) \/ ReadPrevious(r) \/ VerifyRefused(r)
    \/ \E c \in Challenges, n \in Amounts, close \in BOOLEAN :
         Verify(r, c, n, close) \/ VerifyUncaptured(r, c, n, close) \/ VerifyThrows(r, c, n, close)
    \/ CacheHit(r) \/ JobStored(r) \/ JobUnbound(r)
    \/ \E b \in BOOLEAN : Delivered(r, b) \/ JobUnstored(r, b) \/ RefundThrows(r, b)
    \/ \E what \in {"limited", "failed"} : FailedVoucher(r, what)
    \/ FailedClose(r) \/ RollbackThrows(r)

FinisherStep(f) ==
    \/ \E r \in Requests, end \in Ends : SeeEnd(f, r, end)
    \/ Claim(f) \/ ClaimRefused(f) \/ ClaimRetry(f)
    \/ RefundJob(f) \/ MarkDone(f)

Next == \/ \E r \in Requests : RequestStep(r)
        \/ \E f \in Finishers : FinisherStep(f)
        \/ \E p \in Procs : Rollback(p) \/ Release(p) \/ Die(p)
        \/ LockExpires

Spec == Init /\ [][Next]_vars

-----------------------------------------------------------------------------
(* Properties.                                                             *)

\* Every lock outlived the work done under it, no write took effect and failed,
\* and no rollback was repeated.
Regular == faults = 0 /\ ~repeated

Kept(r)      == result[r] = "delivered" \/ terminal[r].outcome = "delivered"
GivenBack(r) == \/ result[r] = "returned"
                \/ /\ terminal[r] = [outcome |-> "failed", done |-> TRUE]
                   /\ ~voucher[r].close

\* As long as everything is regular the watermark is the highest voucher that was
\* accepted and not rolled back: neither a concurrent nor a failed delivery moves
\* it elsewhere, whoever dies.
WatermarkExact ==
    Regular => /\ \A r \in charged : voucher[r].amount <= watermark.amount
               /\ watermark.amount # 0 => \E r \in charged : voucher[r].amount = watermark.amount

\* The payer is told the truth: what was delivered was charged, and a voucher
\* reported as not consumed was not.
TruthfulAnswers ==
    Regular => \A r \in Requests : /\ Kept(r) => r \in charged
                                   /\ GivenBack(r) => r \notin charged

\* A job ends one way: the end that was claimed first stands, however many polls
\* and cron passes see another one.
OneEnd == [][\A r \in Requests : terminal[r].outcome # "none" =>
                /\ terminal'[r].outcome = terminal[r].outcome
                /\ terminal[r].done => terminal'[r].done]_vars

\* A late holder cannot delete the lock that was taken over from it: a live lock
\* only goes when its own request, or the job's finisher, releases it.
LateReleaseHarmless ==
    [][lock.live /\ lock'.id # lock.id =>
         \E p \in Procs : pc[p] = "release" /\ pc'[p] # "release" /\ Of(p) = lock.id]_vars
=============================================================================
