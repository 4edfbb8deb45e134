--------------------------- MODULE StellarLedger ---------------------------
(***************************************************************************)
(* The Stellar network as the refund code uses it: an account whose        *)
(* sequence number every transaction consumes, transactions that are       *)
(* included in a closing ledger or never, and an RPC node that answers     *)
(* from a view that may lag behind and forgets old ledgers.                *)
(*                                                                         *)
(* External to the repository: modelled from what refund-signer-core.ts,   *)
(* refund/stellar-proof.ts and routes/refunds.ts assume of it.  Time is    *)
(* the close time of the last closed ledger.                               *)
(***************************************************************************)
EXTENDS Integers

CONSTANTS Payments,      \* settled payments that may be refunded
          MaxLag,        \* how far an RPC view lags behind the ledger
          Retention,     \* how much history an RPC node keeps
          FirstTime, MaxTime,  \* bounds on ledger time
          MaxSeq         \* bound on the account's sequence number

ASSUME LedgerAssumption == /\ MaxLag \in Nat
                           /\ Retention \in Nat
                           /\ FirstTime \in Nat
                           /\ MaxTime \in Nat
                           /\ MaxSeq \in Nat

\* A signed envelope is what it commits to; its hash is a function of that.
\* maxTime = 0: signed without time bounds.
Envelope == [payment : Payments, seq : Nat, minTime : Int, maxTime : Int]

VARIABLES now,       \* close time of the last closed ledger
          acctSeq,   \* the account's sequence number
          sent,      \* envelopes some node of the network may hold
          chain      \* included transactions: [env, ok, at]

ledger == <<now, acctSeq, sent, chain>>

LedgerTypeOK == /\ now \in Nat
                /\ acctSeq \in Nat
                /\ sent \subseteq Envelope
                /\ chain \subseteq [env : Envelope, ok : BOOLEAN, at : Nat]

LedgerInit == now = FirstTime /\ acctSeq = 0 /\ sent = {} /\ chain = {}

Succeeded(e) == \E c \in chain : c.env = e /\ c.ok
Included(e)  == \E c \in chain : c.env = e

\* Time bounds are enforced by the network.
InWindow(e, t) == e.maxTime = 0 \/ (e.minTime <= t /\ t <= e.maxTime)

\* An envelope the network holds is included: it succeeds, or fails and still
\* uses up its sequence number.
Include(e, ok) == /\ e \in sent
                  /\ e.seq = acctSeq + 1
                  /\ InWindow(e, now)
                  /\ acctSeq' = acctSeq + 1
                  /\ chain' = chain \cup {[env |-> e, ok |-> ok, at |-> now]}
                  /\ UNCHANGED <<now, sent>>

\* Other traffic of the same account uses up sequence numbers.
OtherTraffic == /\ acctSeq < MaxSeq
                /\ acctSeq' = acctSeq + 1
                /\ UNCHANGED <<now, sent, chain>>

CloseLedger == /\ now < MaxTime
               /\ now' = now + 1
               /\ UNCHANGED <<acctSeq, sent, chain>>

-----------------------------------------------------------------------------
(* getTransaction, answered by a node whose last ledger closed at time t.  *)

Views == {t \in (now - MaxLag) .. now : t > 0}
Oldest(t) == IF t - Retention > 0 THEN t - Retention ELSE 1
Sees(t, c) == Oldest(t) <= c.at /\ c.at <= t

Found(e, ok, t)  == \E c \in chain : c.env = e /\ c.ok = ok /\ Sees(t, c)
NotFound(e, t) == ~Found(e, TRUE, t) /\ ~Found(e, FALSE, t)

\* Faulty: dead already at the last moment of its window.
DeadTooEarly(e, t) == /\ e.maxTime > 0 /\ e.minTime > 0
                      /\ e.maxTime <= t
                      /\ Oldest(t) <= e.minTime

\* isProvablyDeadEnvelope, from the close times of that same answer.
ProvablyDead(e, t) == /\ e.maxTime > 0 /\ e.minTime > 0
                      /\ e.maxTime < t
                      /\ Oldest(t) <= e.minTime
=============================================================================
