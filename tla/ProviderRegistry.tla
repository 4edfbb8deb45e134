-------------------------- MODULE ProviderRegistry --------------------------
(***************************************************************************)
(* Onboarding of one provider id (routes/providers.ts): registration with  *)
(* an ownership proof, the paid verification call behind a claim in the    *)
(* atomic store (services/provider-verify-claim.ts), its reconciliation    *)
(* from the ledger, publication, and the cron jobs that write health and   *)
(* discovery evidence into the record (provider-monitor.ts,                *)
(* provider-discovery.ts).  Records and the catalogue index are KV values  *)
(* that are read, checked and written in separate steps.                   *)
(*                                                                         *)
(* A payload is a registration; Digest[p] is the version a claim is keyed  *)
(* by.  updatedAt is one bit per worker: "nobody wrote since I read".      *)
(***************************************************************************)
EXTENDS Integers, FiniteSets

CONSTANTS Regs,       \* registration requests
          Verifs,     \* verification requests
          Keepers,    \* cron passes: health monitor, discovery
          Payloads, Digest,
          First,      \* payload of a record that is already published, or Nobody
          MaxWorkers, \* bound: requests and cron passes in one behaviour
          MaxFaults,  \* bound: workers that stop half way
          Nobody

Workers == Regs \cup Verifs \cup Keepers
Digests == {Digest[p] : p \in Payloads}

None == [status |-> "none", pay |-> Nobody, proof |-> "none", domain |-> FALSE]
Idle == [pc |-> "idle", row |-> None, seen |-> TRUE, pay |-> Nobody, proof |-> "none",
         had |-> FALSE, result |-> "none"]
NoClaim == [state |-> "none", hash |-> "none", served |-> FALSE]

VARIABLES w,         \* w[x]: step, row read or to write, is it current, request
          rec,       \* provider record in KV
          index,     \* payload the catalogue lists for the id, or Nobody
          snapshot,  \* the same, in an index another provider's write has read
          idClaim,   \* the id has been claimed for creation
          token,     \* a domain proof token is active
          evidence,  \* domain control was confirmed separately
          claim,     \* claim[d]: paid verification of version d
          paid,      \* paid[d]: payments of the verification wallet
          served,    \* payloads whose paid call was served
          intent,    \* last accepted registration, and whether it was suspended
          signed,    \* a registration was accepted on a wallet signature
          slips,     \* events the properties except
          faults

money == <<claim, paid, served>>
proofs == <<idClaim, token, evidence>>
vars == <<w, rec, index, snapshot, proofs, money, intent, signed, slips, faults>>

\* Nothing registered, or the first registration published on a public proof.
Init == /\ w = [x \in Workers |-> Idle]
        /\ token = FALSE /\ evidence = FALSE /\ signed = FALSE
        /\ slips = {} /\ faults = 0
        /\ \E p \in {Nobody, First} :
              LET pub == p # Nobody IN
              /\ rec = IF pub THEN [status |-> "published", pay |-> p, proof |-> "live402", domain |-> TRUE]
                       ELSE None
              /\ index = p /\ snapshot = p /\ idClaim = pub /\ served = {p} \ {Nobody}
              /\ claim = [d \in Digests |-> IF pub /\ d = Digest[First]
                             THEN [state |-> "completed", hash |-> "ledger", served |-> TRUE] ELSE NoClaim]
              /\ paid = [d \in Digests |-> IF pub /\ d = Digest[First] THEN 1 ELSE 0]
              /\ intent = [pay |-> p, suspended |-> FALSE]

At(x, p)   == w[x].pc = p
Goto(x, p) == w' = [w EXCEPT ![x].pc = p]
End(x)     == w' = [w EXCEPT ![x] = [Idle EXCEPT !.pc = "done"]]
Epoch(x)   == Digest[w[x].pay]
Start(x)   == At(x, "idle") /\ Cardinality({y \in Workers : ~At(y, "idle")}) < MaxWorkers
Slip(S)    == slips' = slips \cup S

\* putProviderRecord, first write: every other worker's copy is out of date.
\* A write whose own copy was out of date undoes what it did not see.
PutRecord(x, row) ==
    /\ rec' = row
    /\ Slip({k \in {"raced"} : ~w[x].seen})
    /\ w' = [y \in Workers |-> IF y = x THEN [w[x] EXCEPT !.pc = "index", !.row = row]
                               ELSE [w[y] EXCEPT !.seen = FALSE]]

\* refreshIndex: others and, when published, the changed record.
Splice(row) == IF row.status = "published" THEN row.pay ELSE Nobody

\* Second write; a record written since makes it out of date.
PutIndex(x) ==
    /\ At(x, "index")
    /\ index' = Splice(w[x].row)
    /\ Slip({k \in {"spliced"} : ~w[x].seen})
    /\ End(x)
    /\ UNCHANGED <<rec, snapshot, proofs, money, intent, signed, faults>>
-----------------------------------------------------------------------------
\* POST register: validation, the record as it is now.  A suspended record, or
\* another owner address, is refused.
RegRead(r, p, k) ==
    /\ Start(r)
    /\ \/ rec.status = "suspended" /\ End(r)
       \/ /\ rec.status # "suspended"
          /\ w' = [w EXCEPT ![r] = [Idle EXCEPT !.pc = "proof", !.row = rec, !.pay = p, !.proof = k,
                                                 !.had = (rec # None)]]
    /\ UNCHANGED <<rec, index, snapshot, proofs, money, intent, signed, slips, faults>>

\* consumeDomainProof: the token is deleted by version before it counts.
Consume == token /\ token' = FALSE /\ evidence' = TRUE

SignatureProof(r) == w[r].proof = "signature" /\ UNCHANGED <<token, evidence>>
FileProof(r)      == w[r].proof = "file" /\ Consume
LiveProof(r)      == w[r].proof = "live402" /\ UNCHANGED <<token, evidence>>

\* assertNoProofDowngrade: a signed record needs a signature.
NoDowngrade(r) == w[r].row.proof = "signature" => w[r].proof = "signature"

\* Each proof may fail; an update on a public one also needs the dashboard token.
RegProof(r) ==
    /\ At(r, "proof")
    /\ \/ End(r) /\ UNCHANGED proofs
       \/ /\ SignatureProof(r) \/ FileProof(r) \/ LiveProof(r)
          /\ NoDowngrade(r)
          /\ Goto(r, IF w[r].had THEN "hosting" ELSE "claimId")
          /\ UNCHANGED idClaim
    /\ UNCHANGED <<rec, index, snapshot, money, intent, signed, slips, faults>>

\* claimProviderIdForCreate: one creation per id, for ever.
ClaimId(r) ==
    /\ At(r, "claimId")
    /\ \/ idClaim /\ End(r) /\ UNCHANGED idClaim
       \/ ~idClaim /\ idClaim' = TRUE /\ Goto(r, "hosting")
    /\ UNCHANGED <<rec, index, snapshot, token, evidence, money, intent, signed, slips, faults>>

\* A hosted update may keep its credential; a creation that asks to is refused,
\* after its id was claimed.
Hosting(r) ==
    /\ At(r, "hosting")
    /\ Goto(r, "put") \/ (~w[r].had /\ End(r))
    /\ UNCHANGED <<rec, index, snapshot, proofs, money, intent, signed, slips, faults>>

\* The proof of the first registration; a signature replaces a weaker one.
OwnerProof(r) == IF w[r].had /\ w[r].proof # "signature" THEN w[r].row.proof ELSE w[r].proof

\* Always pending: the new payload has not been verified.
RegPut(r) ==
    /\ At(r, "put")
    /\ PutRecord(r, [status |-> "pending", pay |-> w[r].pay, proof |-> OwnerProof(r),
                     domain |-> w[r].proof # "signature" \/ evidence])
    /\ intent' = [pay |-> w[r].pay, suspended |-> FALSE]
    /\ signed' = (signed \/ w[r].proof = "signature")
    /\ UNCHANGED <<index, snapshot, proofs, money, faults>>

\* POST check issues a token unless one is active; it expires after days.
IssueToken  == ~token /\ token' = TRUE
               /\ UNCHANGED <<w, rec, index, snapshot, idClaim, evidence, money, intent, signed, slips, faults>>
ExpireToken == token /\ token' = FALSE
               /\ UNCHANGED <<w, rec, index, snapshot, idClaim, evidence, money, intent, signed, slips, faults>>

\* POST domain-verify.
DomainVerify == ~evidence /\ Consume
                /\ UNCHANGED <<w, rec, index, snapshot, idClaim, money, intent, signed, slips, faults>>

Register(r) == \/ \E p \in Payloads, k \in {"signature", "file", "live402"} : RegRead(r, p, k)
               \/ RegProof(r) \/ ClaimId(r) \/ Hosting(r) \/ RegPut(r) \/ PutIndex(r)
-----------------------------------------------------------------------------
\* POST verify: a published record is answered as it is, a suspended one or one
\* without proof of the domain refused.
VerifyRead(v) ==
    /\ Start(v)
    /\ rec.status = "pending"
    /\ \/ rec.domain /\ w' = [w EXCEPT ![v] = [Idle EXCEPT !.pc = "settle", !.row = rec, !.pay = rec.pay]]
       \/ ~rec.domain /\ End(v)
    /\ UNCHANGED <<rec, index, snapshot, proofs, money, intent, signed, slips, faults>>

\* A claim nobody works on any more counts as uncertain after five minutes.
Stalled(d) == /\ claim[d].state = "running"
              /\ \A v \in Verifs : w[v].pc \in {"pay", "record"} => Epoch(v) # d

\* Faulty: a hash that is not on the ledger is taken for "nothing was paid".
FaultyUnpaid(d) == claim[d].hash = "unknown"

\* The hash the provider named is not on the ledger, half an hour has passed,
\* and the wallet's own history shows no payment since the attempt started.
Unpaid(d) == claim[d].hash = "unknown" /\ paid[d] = 0

\* The hash shows a transfer of the wallet to the provider; it completes the
\* claim only if the call had been served.
OnLedger(d)   == claim[d].hash = "ledger"
Reconciled(d) == OnLedger(d) /\ claim[d].served

\* reconcileUncertainClaim completes or releases an uncertain claim and never
\* pays; the answer is 409 unless it did one of them.
SettleClaim(v) ==
    LET d == Epoch(v) IN
    /\ At(v, "settle")
    /\ \/ claim[d].state # "uncertain" /\ Goto(v, "probe") /\ UNCHANGED claim
       \/ /\ Stalled(d)
          /\ claim' = [claim EXCEPT ![d] = [NoClaim EXCEPT !.state = "uncertain"]] /\ End(v)
       \/ /\ claim[d].state = "uncertain"
          /\ \/ Reconciled(d) /\ claim' = [claim EXCEPT ![d].state = "completed"] /\ Goto(v, "probe")
             \/ Unpaid(d) /\ claim' = [claim EXCEPT ![d] = NoClaim] /\ Goto(v, "probe")
             \/ UNCHANGED claim /\ End(v)
    /\ UNCHANGED <<rec, index, snapshot, proofs, paid, served, intent, signed, slips, faults>>

\* GET verification: may complete a claim, never release one.
StatusPage(d) ==
    /\ rec.status # "published" /\ rec.pay # Nobody /\ Digest[rec.pay] = d
    /\ \/ Stalled(d) /\ claim' = [claim EXCEPT ![d] = [NoClaim EXCEPT !.state = "uncertain"]]
       \/ /\ claim[d].state = "uncertain" /\ Reconciled(d)
          /\ claim' = [claim EXCEPT ![d].state = "completed"]
    /\ UNCHANGED <<w, rec, index, snapshot, proofs, paid, served, intent, signed, slips, faults>>

\* gateProbe402: free.  A failure is written to the record.
Probe(v) ==
    /\ At(v, "probe")
    /\ \/ Goto(v, "acquire")
       \/ w' = [w EXCEPT ![v].pc = "recheck", ![v].result = "failed"]
    /\ UNCHANGED <<rec, index, snapshot, proofs, money, intent, signed, slips, faults>>

\* runClaimedPaidGate: one attempt per version; a completed one is reused.
Acquire(v) ==
    LET d == Epoch(v) IN
    /\ At(v, "acquire")
    /\ \/ claim[d].state = "none" /\ Goto(v, "pay")
          /\ claim' = [claim EXCEPT ![d].state = "running"] /\ UNCHANGED slips
       \/ claim[d].state = "completed" /\ UNCHANGED claim
          /\ w' = [w EXCEPT ![v].pc = "recheck", ![v].result = "ok"]
          /\ Slip({k \in {"reused"} : w[v].pay \notin served})
       \/ claim[d].state \in {"running", "uncertain"} /\ End(v) /\ UNCHANGED <<claim, slips>>
    /\ UNCHANGED <<rec, index, snapshot, proofs, paid, served, intent, signed, faults>>

\* gateRealMoneyCall: no wallet, price, payout or budget, or another challenge
\* than the probe's: nothing is signed.
Unsigned(v) ==
    /\ At(v, "pay")
    /\ w' = [w EXCEPT ![v].pc = "record", ![v].result = "unsigned"]
    /\ UNCHANGED <<rec, index, snapshot, proofs, money, intent, signed, slips, faults>>

\* Once the credential is signed the wallet may have paid whatever the answer.
Spend(d, p) == paid' = [paid EXCEPT ![d] = @ + IF p THEN 1 ELSE 0]

\* The receipt names no hash, one the ledger does not know, or one that passes
\* assertSettledToProvider: of any transfer of the wallet to the provider, this
\* payment's or an earlier one's.  Amount, time and version are not looked at.
Receipts(p) == {"none", "unknown"}
                  \cup {h \in {"ledger"} : p \/ \E d \in Digests : paid[d] > 0}

\* Published only when served, with a receipt the ledger confirms.  A receipt is
\* recycled when the payment it names is an earlier one and none was made now.
Pay(v) ==
    LET d == Epoch(v) IN
    /\ At(v, "pay")
    /\ \E p \in BOOLEAN, ok \in BOOLEAN : \E hash \in Receipts(p), result \in {"ok", "uncertain"} :
          /\ result = "ok" => ok /\ hash = "ledger"
          /\ Spend(d, p)
          /\ served' = IF ok /\ p THEN served \cup {w[v].pay} ELSE served
          /\ w' = [w EXCEPT ![v].pc = "record", ![v].result = result]
          /\ claim' = [claim EXCEPT ![d].hash = hash, ![d].served = ok]
          /\ Slip({k \in {"recycled"} : hash = "ledger" /\ ~p})
    /\ UNCHANGED <<rec, index, snapshot, proofs, intent, signed, faults>>

\* A refusal deletes the claim; success completes it; anything else freezes it.
RecordResult(v) ==
    LET d == Epoch(v) IN
    /\ At(v, "record")
    /\ claim' = [claim EXCEPT ![d] = CASE w[v].result = "unsigned"  -> NoClaim
                                       [] w[v].result = "ok"        -> [@ EXCEPT !.state = "completed"]
                                       [] w[v].result = "uncertain" -> [@ EXCEPT !.state = "uncertain"]]
    /\ Goto(v, "recheck")
    /\ UNCHANGED <<rec, index, snapshot, proofs, paid, served, intent, signed, slips, faults>>

\* Faulty: the record is not compared with the one that was verified.
FaultyUnchanged(x) == rec # None

\* Same status and updatedAt as the row this worker started from.
Unchanged(x) == w[x].seen

\* The record is read again; a changed one is left alone (409).
Recheck(v) ==
    /\ At(v, "recheck")
    /\ IF Unchanged(v)
       THEN w' = [w EXCEPT ![v].pc = "write", ![v].seen = TRUE,
                           ![v].row = IF w[v].result = "ok" THEN [rec EXCEPT !.status = "published"] ELSE rec]
       ELSE End(v)
    /\ UNCHANGED <<rec, index, snapshot, proofs, money, intent, signed, slips, faults>>

Write(x) ==
    /\ At(x, "write")
    /\ PutRecord(x, w[x].row)
    /\ UNCHANGED <<index, snapshot, proofs, money, intent, signed, faults>>

\* The Worker stops while the paid call is under way, or before it is recorded.
Stop(v) ==
    /\ w[v].pc \in {"pay", "record"}
    /\ faults < MaxFaults /\ faults' = faults + 1
    /\ End(v)
    /\ claim' = [claim EXCEPT ![Epoch(v)] = [NoClaim EXCEPT !.state = "running"]]
    /\ \/ UNCHANGED paid
       \/ At(v, "pay") /\ paid' = [paid EXCEPT ![Epoch(v)] = @ + 1]
    /\ UNCHANGED <<rec, index, snapshot, proofs, served, intent, signed, slips>>

Verify(v) == \/ VerifyRead(v) \/ SettleClaim(v) \/ Probe(v) \/ Acquire(v) \/ Unsigned(v) \/ Pay(v)
             \/ RecordResult(v) \/ Recheck(v) \/ Write(v) \/ PutIndex(v) \/ Stop(v)
-----------------------------------------------------------------------------
\* monitorPublishedProviders, submitAndPersistPartnerDiscovery: a published row
\* is read, an outside call made, the row read again and written.
KeeperRead(k) ==
    /\ Start(k) /\ rec.status = "published"
    /\ w' = [w EXCEPT ![k] = [Idle EXCEPT !.pc = "recheck", !.row = rec, !.pay = rec.pay]]
    /\ UNCHANGED <<rec, index, snapshot, proofs, money, intent, signed, slips, faults>>

Keep(k) == KeeperRead(k) \/ Recheck(k) \/ Write(k) \/ PutIndex(k)

\* refreshIndex of another provider, from an index up to ten seconds old.
OtherReads == /\ snapshot # index /\ snapshot' = index
              /\ UNCHANGED <<w, rec, index, proofs, money, intent, signed, slips, faults>>
OtherWrites == /\ index # snapshot /\ index' = snapshot /\ Slip({"spliced"})
               /\ UNCHANGED <<w, rec, snapshot, proofs, money, intent, signed, faults>>

\* The operator suspends the id by hand.
Suspend ==
    /\ rec.status \in {"pending", "published"}
    /\ rec' = [rec EXCEPT !.status = "suspended"] /\ index' = Nobody
    /\ intent' = [intent EXCEPT !.suspended = TRUE]
    /\ w' = [x \in Workers |-> [w[x] EXCEPT !.seen = FALSE]]
    /\ UNCHANGED <<snapshot, proofs, money, signed, slips, faults>>

Next == \/ \E r \in Regs : Register(r)
        \/ \E v \in Verifs : Verify(v)
        \/ \E k \in Keepers : Keep(k)
        \/ \E d \in Digests : StatusPage(d)
        \/ IssueToken \/ ExpireToken \/ DomainVerify \/ OtherReads \/ OtherWrites \/ Suspend

Spec == Init /\ [][Next]_vars
-----------------------------------------------------------------------------
\* The verification wallet pays at most once for a version of a registration,
\* however often it is verified, and whatever the provider answers.
PaidOncePerVersion == \A d \in Digests : paid[d] <= 1

\* A published record describes a payload that the wallet paid for in a call that
\* was served.  Exceptions: a version whose digest leaves the changed part out (the
\* origin of a hosted provider), so that an earlier paid call is reused; and a
\* recycled receipt, although "any old transfer to itself" is said not to certify
\* the payment (provider-verification.ts:454-455).
PublishedWasPaid ==
    rec.status = "published" => rec.pay \in served \/ slips \cap {"reused", "recycled"} # {}

\* The record is the last accepted registration, a suspension holds, and an id
\* once registered on a signature needs one: no verification, cron pass or other
\* registration brings back what these replaced.  Exception: a write between
\* the last look at the record and the put.
LastWordStands ==
    \/ /\ rec.pay = intent.pay
       /\ intent.suspended => rec.status = "suspended"
       /\ signed => rec.proof = "signature"
    \/ "raced" \in slips

\* The catalogue lists what the record says is published, once the writes under
\* way have ended.  Exception: an index spliced from an older copy.
ListedIsPublished ==
    (\A x \in Workers : w[x].pc # "index")
        => \/ index = IF rec.status = "published" THEN rec.pay ELSE Nobody
           \/ "spliced" \in slips

(***************************************************************************)
(* The inductive invariant                                                 *)
(***************************************************************************)

Steps  == {"idle", "done", "proof", "claimId", "hosting", "put", "settle", "probe", "acquire",
           "pay", "record", "recheck", "write", "index"}
Kinds  == {"none", "signature", "file", "live402"}
Names  == Payloads \cup {Nobody}
Recs   == [status : {"none", "pending", "published", "suspended"}, pay : Names, proof : Kinds, domain : BOOLEAN]
Locals == [pc : Steps, row : Recs, seen : BOOLEAN, pay : Names, proof : Kinds, had : BOOLEAN,
           result : {"none", "failed", "unsigned", "ok", "uncertain"}]
Claims == [state : {"none", "running", "uncertain", "completed"}, hash : {"none", "unknown", "ledger"},
           served : BOOLEAN]

TypeOK == /\ w \in [Workers -> Locals] /\ rec \in Recs
          /\ index \in Names /\ snapshot \in Names
          /\ idClaim \in BOOLEAN /\ token \in BOOLEAN /\ evidence \in BOOLEAN
          /\ claim \in [Digests -> Claims] /\ paid \in [Digests -> Nat] /\ served \subseteq Payloads
          /\ intent \in [pay : Names, suspended : BOOLEAN] /\ signed \in BOOLEAN
          /\ slips \subseteq {"raced", "reused", "recycled", "spliced"} /\ faults \in Nat

\* A record that exists has a payload.
Named(row) == row.status # "none" => row.pay \in Payloads

Served(p) == p \in served \/ slips \cap {"reused", "recycled"} # {}

Reading == {"settle", "probe", "acquire", "pay", "record", "recheck"}

\* What a worker knows while nobody has written the record since it read it.
Copy(r) ==
    r.seen => /\ r.pc \in Reading \cup {"proof", "claimId", "hosting", "put", "index"} => r.row = rec
              /\ r.pc \in Reading => r.pay = rec.pay
              /\ r.pc \in Reading \cup {"write"} => rec.status \in {"pending", "published"}
              /\ r.pc = "write" => r.row.pay = rec.pay /\ r.row.proof = rec.proof

\* What a worker is about to write.
Vouched(r) ==
    /\ r.pc \notin {"idle", "done", "recheck", "write", "index"} => r.pay \in Payloads
    /\ r.pc \in {"record", "recheck"} /\ r.result = "ok" => Served(r.pay)
    /\ r.pc = "write" /\ r.row.status = "published" => Served(r.row.pay)
    /\ r.pc = "write" => Named(r.row)
    /\ r.pc \in {"claimId", "hosting", "put"} /\ r.row.proof = "signature" => r.proof = "signature"

\* The one worker that may pay for a version.
Paying(x)  == w[x].pc \in {"pay", "record"}
Alone(x) ==
    Paying(x) => /\ x \in Verifs /\ claim[Epoch(x)].state = "running"
                 /\ \A y \in Workers : Paying(y) /\ Epoch(y) = Epoch(x) => y = x
                 /\ At(x, "record") => w[x].result \in {"unsigned", "ok", "uncertain"}
                 /\ At(x, "pay") \/ w[x].result = "unsigned" => paid[Epoch(x)] = 0

\* A version nobody has claimed was not paid for.
Booked(d) == paid[d] <= 1 /\ (claim[d].state = "none" => paid[d] = 0)

\* The catalogue lists the record, or the worker that wrote it is about to list it.
Listed == \/ index = Splice(rec) \/ "spliced" \in slips
          \/ \E x \in Workers : At(x, "index") /\ w[x].row = rec

IInv == /\ TypeOK /\ Named(rec) /\ PublishedWasPaid /\ LastWordStands /\ Listed
        /\ \A d \in Digests : Booked(d)
        /\ \A x \in Workers : Copy(w[x]) /\ Vouched(w[x]) /\ Alone(x)
=============================================================================
