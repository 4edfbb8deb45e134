-------------------------- MODULE RefundInvariant --------------------------
(***************************************************************************)
(* The inductive invariant behind the safety of RefundPipeline.  Its heart *)
(* is Bound: every envelope that is on the network, or that somebody is    *)
(* about to send, is the one on its refund's record, or is expired.  A     *)
(* record loses its envelope only when that envelope is provably dead      *)
(* (requeue) or was never sent (unpark).                                   *)
(***************************************************************************)
EXTENDS RefundPipeline

\* How the pipeline must be used.  Unpark is safe only if a parked envelope
\* was rejected before any node held it, and while no copy of the script is
\* running that may still hold it in a listing; the /complete request is safe
\* only if its two store accesses are close, or the signer is alone.
SafeUse == /\ MaxUnparks = 0 \/ (Executors = {} /\ FatalOnlyWhenAbsent)
           /\ PromptStore \/ Executors = {}

\* A record holds an envelope, for its own payment, exactly when it is past
\* the leased state, and a lease from then on.
WellFormed(p, r) ==
    /\ r.state \in {"none", "pending", "leased"} => r.tx = NoTx
    /\ r.state \in {"submitted", "confirmed", "manual_review"} =>
         r.tx \in Envelope /\ r.tx.payment = p /\ r.lease # NoLease
    /\ r.state = "leased" => r.lease # NoLease
    /\ r.state \in {"none", "pending"} => r.lease = NoLease

Records == \A p \in Payments : WellFormed(p, rec[p])

Listings == \A a \in Actors : \A j \in jobs[a] : /\ WellFormed(j.payment, j.record)
                                                 /\ Listed(j.record)

\* Steps at which an actor works with an envelope.
Holding == Steps \ {"idle", "next", "lease", "build"}

Holders == \A a \in Actors :
              /\ pc[a] \in Holding => env[a] \in Envelope /\ env[a].payment = job[a]
              /\ pc[a] \in Holding \cup {"build"} => lease[a] # NoLease

\* An envelope that an actor may hand to the network without asking again.
MaySend(a, e) == \/ pc[a] \in {"check", "resend", "send"} /\ env[a] = e
                 \/ \E j \in jobs[a] : j.record.state = "submitted" /\ j.record.tx = e

Loose(e) == e \in sent \/ \E a \in Actors : MaySend(a, e)

Bound == \A e \in Envelope : Loose(e) => Expired(e) \/ rec[e.payment].tx = e

\* As long as a record carries the lease an actor knows, it carries the
\* envelope the actor knows.
Vouched == \A a \in Actors :
              /\ pc[a] \in {"check", "resend", "send", "park"} /\ rec[job[a]].lease = lease[a] =>
                   rec[job[a]].tx = env[a]
              /\ \A j \in jobs[a] :
                   j.record.state = "submitted" /\ rec[j.payment].lease = j.record.lease =>
                     rec[j.payment].tx = j.record.tx

\* Included envelopes were sent and respected their window.
Inclusions == \A c \in chain : c.env \in sent /\ InWindow(c.env, c.at) /\ c.at <= now

\* What an actor learnt from the network stays true.
Paid(p) == \E c \in chain : c.ok /\ c.env.payment = p
Learnt == \A a \in Actors : /\ pc[a] = "requeueCas" => Expired(env[a])
                            /\ pc[a] = "confirmCas" => Succeeded(env[a])
                            /\ pc[a] \in {"order", "mark"} => Paid(job[a])

\* A signer that is alone keeps the lease it was granted.
Alone == Executors = {} =>
            (pc[Signer] \in {"build", "store", "storeCas"} => rec[job[Signer]].state = "leased")

\* A parked envelope never left the signer.
OneJobEach == /\ \A j, k \in jobs[Signer] : j.payment = k.payment => j = k
              /\ pc[Signer] \notin {"idle", "next"} =>
                    \A j \in jobs[Signer] : j.payment # job[Signer]

ParkedNeverSent ==
    Executors = {} /\ FatalOnlyWhenAbsent =>
       /\ pc[Signer] = "park" => env[Signer] \notin sent
       /\ \A p \in Payments : rec[p].state = "manual_review" =>
            /\ rec[p].tx \notin sent
            /\ \A j \in jobs[Signer] : j.payment # p
            /\ job[Signer] = p => pc[Signer] \in {"idle", "next"}

\* The parts that hold however the pipeline is used, and those that need SafeUse.
Shape == TypeOK /\ Records /\ Listings /\ Holders
Safe == /\ Inclusions /\ Bound /\ Learnt /\ ReportedOnlyIfPaid
        /\ Vouched /\ Alone /\ OneJobEach /\ ParkedNeverSent

IInv == Shape /\ Safe

\* The pipeline as an implementation of the promise made to payers.
Promise == INSTANCE RefundPromise
             WITH owed     <- {p \in Payments : rec[p].state # "none"},
                  paid     <- {e \in sent : Succeeded(e)},
                  reported <- {p \in Payments : rec[p].state = "confirmed"}

\* Refunds are paid only for queued refunds, at most once each, and reported
\* confirmed only once paid.
KeepsPromise == Promise!Spec
=============================================================================
