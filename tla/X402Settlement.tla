--------------------------- MODULE X402Settlement ---------------------------
(***************************************************************************)
(* The stellar.x402 branch of the payment proxy: the replay guard on the   *)
(* signed payload, the merchant paid first, the buyer settled second with  *)
(* a bounded wait and one retry (mpp/stellar-x402-server.ts), the ledger   *)
(* row written before settlement and the cron that closes rows whose       *)
(* outcome was not known (services/x402-settlement.ts).                    *)
(*                                                                         *)
(* All requests present the SAME signed payload: its single-use nonce is   *)
(* what the chain enforces, everything else is the router's.  A request is *)
(* its own order; the envelopes it signs are numbered 1 and 2.  A request  *)
(* is for one of Calls (route, method, path, query and body together).     *)
(***************************************************************************)
EXTENDS Naturals, FiniteSets

CONSTANTS Requests,    \* requests that carry the payload
          Calls,       \* the upstream calls they ask for
          Quote,       \* Quote[c]: what the merchant asks, in USDC of six decimals
          Signed,      \* the amount the buyer signed
          Tolerance,   \* absolute overpay tolerance
          Retrying,    \* bound: requests that get an error worth a retry
          MaxFaults,   \* bound: failures in one behaviour
          Nobody

ASSUME X402Constants == Nobody \notin Requests /\ Nobody \notin Requests \X {1, 2}

Envelopes == Requests \X {1, 2}
Outcomes  == {"settled", "failed", "unknown"}
Idle      == [pc |-> "idle", call |-> Nobody, retried |-> FALSE,
              failedOnChain |-> FALSE, outcome |-> "unknown"]

VARIABLES proc,      \* proc[r]: next step and locals of a request
          reserved,  \* the payload's marker in KV
          cache,     \* cache[c]: request whose delivered result is stored for c
          row,       \* row[r]: settlement_status of r's ledger row
          open,      \* open[r]: open marker, the set of envelopes it lists
          env,       \* env[e]: what became of an envelope
          nonceUsed, \* the chain consumed the authorization's nonce
          expired,   \* the authorization can no longer be used
          over,      \* requests whose envelopes' time bound passed
          spent,     \* requests whose upstream call was bought or served
          slips,     \* events the properties except
          faults     \* failed writes, unreadable answers and stopped Workers so far

marks == <<row, open>>
chain == <<env, nonceUsed>>
vars  == <<proc, reserved, cache, marks, chain, expired, over, spent, slips, faults>>

None == {Nobody}      \* no open marker

Init == /\ proc = [r \in Requests |-> Idle]
        /\ reserved = FALSE /\ cache = [c \in Calls |-> Nobody]
        /\ row = [r \in Requests |-> "none"]
        /\ open = [r \in Requests |-> None]
        /\ env = [e \in Envelopes |-> "unsigned"] /\ nonceUsed = FALSE
        /\ expired = FALSE /\ over = {}
        /\ spent = {} /\ slips = {} /\ faults = 0

Goto(r, p)  == proc' = [proc EXCEPT ![r].pc = p]
End(r)      == proc' = [proc EXCEPT ![r] = [Idle EXCEPT !.pc = "done"]]
At(r, p)    == proc[r].pc = p
Slip(b, s)  == slips' = IF b THEN slips \cup {s} ELSE slips
Fault(b)    == (b => faults < MaxFaults) /\ faults' = IF b THEN faults + 1 ELSE faults
Slipped(S)  == \E s \in slips : s[1] \in S
Hashes(r)   == {e \in {r} \X {1, 2} : env[e] # "unsigned"}
Current(r)  == <<r, Cardinality(Hashes(r))>>
Ended(r)    == proc[r].pc \in {"served", "done"}
CanLand(e)  == env[e] = "sent" /\ ~nonceUsed /\ e[1] \notin over

\* Underpayment is refused; overpayment up to the tolerance or a tenth is taken.
IsAmountAcceptable(signed, merchant) ==
    /\ signed >= merchant
    /\ \/ signed - merchant <= Tolerance
       \/ signed - merchant <= merchant \div 10

\* The buyer signs at Stellar's seven decimals; a merchant that does not quote
\* whole units of six decimals is refused (End in Prepare).
AtStellar(c) == 10 * Quote[c]

\* A payload that cannot be decoded or breaks the amount policy is answered
\* before anything is reserved.
Reject(r, c) == ~IsAmountAcceptable(Signed, AtStellar(c)) /\ End(r)

\* Phase A, local: decode, recipient, amount policy, payload hash.
Prepare(r) ==
    /\ At(r, "idle")
    /\ \E c \in Calls : \/ /\ IsAmountAcceptable(Signed, AtStellar(c))
                           /\ proc' = [proc EXCEPT ![r].call = c, ![r].pc = "reserve"]
                        \/ Reject(r, c)
    /\ UNCHANGED <<reserved, cache, marks, chain, expired, over, spent, slips, faults>>

\* checkAndReserveNonce reads, then writes: two requests may both find no marker.
ReserveRead(r) ==
    /\ At(r, "reserve")
    /\ Goto(r, IF reserved THEN "replay" ELSE "fresh")
    /\ UNCHANGED <<reserved, cache, marks, chain, expired, over, spent, slips, faults>>

\* Faulty: the marker is not written.
FaultyReservePut(r) == At(r, "fresh") /\ Goto(r, "verify")
                       /\ UNCHANGED <<reserved, cache, marks, chain, expired, over, spent, slips, faults>>

ReservePut(r) ==
    /\ At(r, "fresh")
    /\ reserved' = TRUE
    /\ Slip(reserved, <<"raced", Nobody>>)
    /\ Goto(r, "verify")
    /\ UNCHANGED <<cache, marks, chain, expired, over, spent, faults>>

\* The result stored for this payload and this very call, if it parses.
Stored(c) == cache[c] # Nobody

\* A payload seen before: the result it bought for this very call, or an error.
Replay(r) ==
    /\ At(r, "replay")
    /\ proc' = [proc EXCEPT ![r] = [Idle EXCEPT !.pc = IF Stored(proc[r].call) THEN "served" ELSE "done"]]
    /\ UNCHANGED <<reserved, cache, marks, chain, expired, over, spent, slips, faults>>

\* Phase B: the facilitator simulates on chain, which a used nonce fails; then
\* the daily slot of the service is consumed, or refused.
Verify(r) ==
    /\ At(r, "verify")
    /\ \/ /\ ~nonceUsed /\ ~expired
          /\ Goto(r, "pay")
       \/ Goto(r, "release")
    /\ UNCHANGED <<reserved, cache, marks, chain, expired, over, spent, slips, faults>>

\* release(), after the answer: deletes the marker whoever wrote it.
Release(r) ==
    /\ At(r, "release")
    /\ End(r)
    /\ \E failed \in BOOLEAN : Fault(failed) /\ reserved' = (failed /\ reserved)
    /\ UNCHANGED <<cache, marks, chain, expired, over, spent, slips>>

\* The upstream answered: a merchant paid from the pool, or a hosted provider's
\* own endpoint called with its stored credential.
Served(r) == Goto(r, "record") /\ spent' = spent \cup {r} /\ UNCHANGED slips

\* An error (no credential, transport, a redirect, a refusal), after which the
\* payload is released although the upstream may have done the work.
Unserved(r) ==
    /\ Goto(r, "release")
    /\ \E lost \in BOOLEAN : /\ spent' = IF lost THEN spent \cup {r} ELSE spent
                             /\ Slip(lost, <<"lost", Nobody>>)

\* payMerchantAndGetBody: delivered (at once or as a job), or an error.
PayMerchant(r) ==
    /\ At(r, "pay")
    /\ Served(r) \/ Unserved(r)
    /\ UNCHANGED <<reserved, cache, marks, chain, expired, over, faults>>

\* recordOrder: the row, its transaction index, the statistics; FALSE when the
\* row or its index failed.  Statistics keep the larger `settled`.
RecordOrder(r, status, ok) ==
    /\ row' \in {[row EXCEPT ![r] = status]} \cup IF ok THEN {} ELSE {row}

\* The row exists before settlement starts, whether or not the write succeeds.
RecordRow(r) ==
    /\ At(r, "record")
    /\ \E ok \in BOOLEAN : RecordOrder(r, "pending", ok) /\ Fault(~ok)
    /\ Goto(r, "mark")
    /\ UNCHANGED <<reserved, cache, open, chain, expired, over, spent, slips>>

\* writeOpen: two tries, failures are logged only.
WriteOpen(r, hashes) ==
    \/ open' = [open EXCEPT ![r] = hashes] /\ UNCHANGED <<slips, faults>>
    \/ UNCHANGED open /\ Slip(TRUE, <<"unmarked", r>>) /\ Fault(TRUE)

MarkOpen(r) ==
    /\ At(r, "mark")
    /\ WriteOpen(r, {})
    /\ Goto(r, "attempt")
    /\ UNCHANGED <<reserved, cache, row, chain, expired, over, spent>>

\* An attempt that ends without an accepted transaction: the one retry is for
\* errors before the RPC took the transaction, while time remains.
NextAttempt(r) ==
    \/ r \in Retrying /\ ~proc[r].retried /\ proc' = [proc EXCEPT ![r].pc = "attempt", ![r].retried = TRUE]
    \/ Goto(r, "result")

\* settle() verifies again first; nothing is signed when that fails.
AttemptFails(r) ==
    /\ At(r, "attempt")
    /\ NextAttempt(r)
    /\ UNCHANGED <<reserved, cache, marks, chain, expired, over, spent, slips, faults>>

\* The signer: the hash is traced before the envelope can be submitted.
Sign(r) ==
    /\ At(r, "attempt")
    /\ ~nonceUsed /\ ~expired
    /\ env' = [env EXCEPT ![<<r, Cardinality(Hashes(r)) + 1>>] = "signed"]
    /\ Goto(r, "signed")
    /\ UNCHANGED <<reserved, cache, marks, nonceUsed, expired, over, spent, slips, faults>>

\* Faulty: the hash is not written before the submission.
FaultyOnSigned(r) == At(r, "signed") /\ Goto(r, "send")
                     /\ UNCHANGED <<reserved, cache, marks, chain, expired, over, spent, slips, faults>>

OnSigned(r) ==
    /\ At(r, "signed")
    /\ WriteOpen(r, Hashes(r))
    /\ Goto(r, "send")
    /\ UNCHANGED <<reserved, cache, row, chain, expired, over, spent>>

\* sendTransaction: PENDING, refused, or no answer.
Send(r) ==
    /\ At(r, "send")
    /\ \/ env' = [env EXCEPT ![Current(r)] = "sent"] /\ Goto(r, "poll")
       \/ env' \in {env, [env EXCEPT ![Current(r)] = "sent"]} /\ NextAttempt(r)
    /\ UNCHANGED <<reserved, cache, marks, nonceUsed, expired, over, spent, slips, faults>>

\* The bounded poll reads what became of the accepted transaction.
Poll(r) ==
    /\ At(r, "poll")
    /\ \/ env[Current(r)] = "applied"
          /\ proc' = [proc EXCEPT ![r].pc = "final", ![r].outcome = "settled"]
       \/ env[Current(r)] = "rejected"
          /\ proc' = [proc EXCEPT ![r].pc = "result", ![r].failedOnChain = TRUE]
    /\ UNCHANGED <<reserved, cache, marks, chain, expired, over, spent, slips, faults>>

\* Definitely failed: nothing signed, or the only envelope failed on chain.
Result(r) ==
    /\ At(r, "result")
    /\ proc' = [proc EXCEPT ![r].pc = "final",
                            ![r].outcome = IF \/ Hashes(r) = {}
                                              \/ proc[r].failedOnChain /\ Cardinality(Hashes(r)) = 1
                                           THEN "failed" ELSE "unknown"]
    /\ UNCHANGED <<reserved, cache, marks, chain, expired, over, spent, slips, faults>>

\* SETTLE_WAIT_MS passed: the attempt is abandoned and may sign or send nothing
\* new; a submission already on its way may still reach the chain.
Deadline(r) ==
    /\ proc[r].pc \in {"attempt", "signed", "send", "poll"}
    /\ env' \in {env} \cup {[env EXCEPT ![e] = "sent"] : e \in {f \in {Current(r)} : At(r, "send")}}
    /\ proc' = [proc EXCEPT ![r].pc = "final", ![r].outcome = "unknown"]
    /\ UNCHANGED <<reserved, cache, marks, nonceUsed, expired, over, spent, slips, faults>>

\* Faulty: the marker is dropped without regard to outcome and write.
FaultyFinalRow(r) ==
    /\ At(r, "final")
    /\ \E ok \in BOOLEAN : RecordOrder(r, proc[r].outcome, ok) /\ Fault(~ok)
    /\ Goto(r, "unmark")
    /\ UNCHANGED <<reserved, cache, open, chain, expired, over, spent, slips>>

\* The final row; the marker is dropped only when the row landed and is final.
FinalRow(r) ==
    /\ At(r, "final")
    /\ \E ok \in BOOLEAN :
         /\ RecordOrder(r, proc[r].outcome, ok) /\ Fault(~ok)
         /\ Goto(r, IF proc[r].outcome = "unknown" THEN "remark" ELSE IF ok THEN "unmark" ELSE "cache")
    /\ UNCHANGED <<reserved, cache, open, chain, expired, over, spent, slips>>

Unmark(r) ==
    /\ At(r, "unmark")
    /\ \E failed \in BOOLEAN : Fault(failed) /\ open' = IF failed THEN open ELSE [open EXCEPT ![r] = None]
    /\ Goto(r, "cache")
    /\ UNCHANGED <<reserved, cache, row, chain, expired, over, spent, slips>>

Remark(r) ==
    /\ At(r, "remark")
    /\ WriteOpen(r, Hashes(r))
    /\ Goto(r, "cache")
    /\ UNCHANGED <<reserved, cache, row, chain, expired, over, spent>>

\* The delivered result under payload and call, before the answer; jobs and
\* failed writes leave nothing.
CacheResult(r) ==
    /\ At(r, "cache")
    /\ cache' \in {cache, [cache EXCEPT ![proc[r].call] = r]}
    /\ End(r)
    /\ UNCHANGED <<reserved, marks, chain, expired, over, spent, slips, faults>>

\* The Worker stops between two steps.
Die(r) ==
    /\ proc[r].pc \notin {"idle", "served", "done"}
    /\ End(r)
    /\ Fault(TRUE)
    /\ Slip(proc[r].pc \in {"record", "mark"}, <<"unmarked", r>>)
    /\ UNCHANGED <<reserved, cache, marks, chain, expired, over, spent>>

\* The chain: the nonce lets one envelope through.
Apply(e) ==
    /\ env[e] = "sent" /\ e[1] \notin over
    /\ env' = [env EXCEPT ![e] = IF nonceUsed THEN "rejected" ELSE "applied"]
    /\ nonceUsed' = TRUE
    /\ UNCHANGED <<proc, reserved, cache, marks, expired, over, spent, slips, faults>>

\* The time bound of r's envelopes passes after r ended.
PassBound(r) ==
    /\ Ended(r) /\ r \in spent \ over
    /\ over' = over \cup {r}
    /\ UNCHANGED <<proc, reserved, cache, marks, chain, expired, spent, slips, faults>>

\* The authorization runs out, and later the payload's marker (one hour).
NonceLapse ==
    /\ ~expired /\ expired' = TRUE
    /\ reserved' = FALSE
    /\ Slip(TRUE, <<"lapsed", Nobody>>)
    /\ UNCHANGED <<proc, cache, marks, chain, over, spent, faults>>

\* resolveOne: what the chain says of the listed envelopes, errs unreadable.
Found(r, errs) == \E e \in open[r] \ errs : env[e] = "applied"

\* Unreadable envelopes keep the row open for a day, then it stays unknown.
Resolved(r, errs) ==
    IF Found(r, errs) THEN "settled"
    ELSE IF r \notin over THEN "open"
    ELSE IF open[r] = {} \/ errs # {} THEN "unknown" ELSE "failed"

\* The 2-minute cron, on markers old enough that no request still runs.
Resolve(r, errs, ok) ==
    /\ Ended(r) /\ open[r] # None /\ errs \subseteq open[r]
    /\ Resolved(r, errs) # "open"
    /\ RecordOrder(r, Resolved(r, errs), ok)
    /\ open' = IF ok THEN [open EXCEPT ![r] = None] ELSE open
    /\ Slip(Resolved(r, errs) = "unknown", <<"unread", r>>) /\ Fault(errs # {} \/ ~ok)
    /\ UNCHANGED <<proc, reserved, cache, chain, expired, over, spent>>

Step(r) == \/ Prepare(r) \/ ReserveRead(r) \/ ReservePut(r) \/ Replay(r) \/ Verify(r) \/ Release(r)
           \/ PayMerchant(r) \/ RecordRow(r) \/ MarkOpen(r) \/ AttemptFails(r) \/ Sign(r)
           \/ OnSigned(r) \/ Send(r) \/ Poll(r) \/ Result(r) \/ Deadline(r) \/ FinalRow(r)
           \/ Unmark(r) \/ Remark(r) \/ CacheResult(r) \/ Die(r) \/ PassBound(r)

Next == \/ \E r \in Requests : Step(r)
        \/ \E r \in Requests : \E errs \in SUBSET Hashes(r), ok \in BOOLEAN : Resolve(r, errs, ok)
        \/ \E e \in Envelopes : Apply(e)
        \/ NonceLapse

\* A request runs until it ends or its Worker stops; the cron comes back every
\* two minutes until a read and a write succeed.
Spec == /\ Init /\ [][Next]_vars
        /\ \A r \in Requests : WF_vars(Step(r)) /\ WF_vars(Resolve(r, {}, TRUE))

Landed(r) == \E e \in {r} \X {1, 2} : env[e] = "applied"

\* The ledger never says more than the chain: `settled` (and the published
\* statistics) only for a payment that landed, `failed` only for one that did
\* not and cannot any more (header of x402-settlement.ts); the exception: an
\* envelope whose hash could not be written to the marker.
LedgerTruth ==
    \A r \in Requests :
        /\ row[r] = "settled" => Landed(r)
        /\ row[r] = "failed" => \/ ~Landed(r) /\ \A e \in {r} \X {1, 2} : ~CanLand(e)
                                \/ <<"unmarked", r>> \in slips

\* An envelope that may still land is listed in the open marker, so a killed
\* Worker leaves a hash to look up; except when the marker could not be written.
Findable ==
    \A e \in Envelopes : CanLand(e) => e \in open[e[1]] \/ <<"unmarked", e[1]>> \in slips

\* One payload pays one merchant call, except when two requests passed the
\* replay guard together or a failed call had cost the router its payment.
OneCallPerPayload == Cardinality(spent) > 1 => Slipped({"raced", "lost"})

\* A stored result stays within reach of the retry that needs it: it is looked
\* up only while the payload's marker stands.
StoredIsReachable ==
    \A c \in Calls : Stored(c) => reserved \/ Slipped({"raced", "lapsed"})

\* A payload buys one upstream call, and a delivered result is one a retry of
\* the payload still gets (stellar-x402-server.ts, proxy.ts).
PayloadOnce == OneCallPerPayload /\ StoredIsReachable

\* The ledger says of a settlement what the chain says, and what may still land
\* can be looked up (x402-settlement.ts).
SettlementTold == LedgerTruth /\ Findable

\* A payment that landed is in the ledger in the end, whatever became of the
\* request, unless its marker was lost or the chain was unreadable for a day.
LandedIsRecorded ==
    \A r \in Requests :
        Landed(r) ~> (row[r] = "settled" \/ {<<"unmarked", r>>, <<"unread", r>>} \cap slips # {})

=============================================================================
