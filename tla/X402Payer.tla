------------------------------ MODULE X402Payer ------------------------------
(***************************************************************************)
(* The x402 payer (src/x402payer): an agent's prepaid balance signs x402   *)
(* requirements from Rozo's wallets: the Base funder, which checkout       *)
(* shares and top-ups fill, or a Solana wallet, which neither a top-up nor *)
(* a look at its money reaches.  One balance pays for both.                *)
(*                                                                         *)
(* A request reads the account, draws or reuses a nonce, has it signed,    *)
(* and only then commits row and debit in one ledger transaction; a cron   *)
(* pass reports Base authorizations that are past their time, and the      *)
(* ledger gives unused ones back.                                          *)
(*                                                                         *)
(* The ledger is a database outside this repository: its procedures are    *)
(* modelled from how routes.ts, reconcile.ts and the tests' ledger use     *)
(* them.  Every requirement costs one unit.  An authorization ages from    *)
(* fresh to short (too little time to be reused), past (the Worker's clock *)
(* says expired) and final (a finalized block is later than validBefore).  *)
(***************************************************************************)
EXTENDS Integers, FiniteSets

CONSTANTS Requests,  \* calls of POST /v1/x402/sign
          Keys,      \* idempotency keys
          Hashes,    \* requirements, by requirementHash
          Network,   \* Network[h]: "evm" or "svm"
          TopUps,    \* calls of POST /v1/x402/topup
          Opening,   \* balance at the start, backed by the Base funder
          Stock,     \* USDC of the Solana wallet at the start
          Credit,    \* units of one top-up
          MaxNonce,  \* bound: nonces drawn
          MaxFlips,  \* bound: changes of the switch
          MaxFaults, \* bound: lost answers, failed passes, funder payments elsewhere
          Nobody

ASSUME PayerConstants == /\ IsFiniteSet(Keys) /\ IsFiniteSet(TopUps)
                         /\ Network \in [Hashes -> {"evm", "svm"}]
                         /\ Opening \in Nat /\ Credit \in Nat /\ Stock \in Nat
                         /\ MaxNonce \in Nat /\ Nobody \notin Hashes

Nonces  == 1..MaxNonce
Modes   == {"off", "shadow", "on"}
NoPay   == [hash |-> Nobody, nonce |-> 0, mode |-> "none", state |-> "none"]
NoTry   == [hash |-> Nobody, nonce |-> 0]
Idle    == [pc |-> "idle", key |-> Nobody, hash |-> Nobody, mode |-> "none", nonce |-> 0]
NoTop   == [pc |-> "idle", bound |-> FALSE, paid |-> FALSE, state |-> "open", heard |-> FALSE]
NoPass  == [pc |-> "idle", reads |-> {}, told |-> {}]

VARIABLES req,     \* req[r]: step, arguments, mode acted on, nonce
          mode, flips,
          bal,     \* balance of the account
          pay,     \* pay[k]: payment row of the idempotency key
          cache,   \* cache[k]: signing parameters of the first attempt, in KV
          age,     \* age[n]: life of the authorization with nonce n
          sent,    \* credentials handed out: [by, key, nonce]
          used,    \* nonces executed on chain
          funds,   \* the Base funder's USDC
          solana,  \* the Solana wallet's USDC
          drained, \* what checkout, which shares the funder, took from it
          top,     \* top[t]: top-up order and its binding
          ops,     \* cron pass in progress
          slot,    \* the ten-minute slot has been taken
          recon,   \* reconcile state: a shortfall is on record, it was delivered
          faults

ledger == <<bal, pay>>
chain  == <<used, funds, solana, drained>>
jobs   == <<top, ops, slot, recon>>
vars   == <<req, mode, flips, ledger, cache, age, sent, chain, jobs, faults>>

Init == /\ req = [r \in Requests |-> Idle]
        /\ mode = "on" /\ flips = 0
        /\ bal = Opening
        /\ pay = [k \in Keys |-> NoPay]
        /\ cache = [k \in Keys |-> NoTry]
        /\ age = [n \in Nonces |-> "undrawn"]
        /\ sent = {} /\ used = {} /\ funds = Opening /\ solana = Stock /\ drained = 0
        /\ top = [t \in TopUps |-> NoTop]
        /\ ops = NoPass /\ slot = FALSE
        /\ recon = [short |-> FALSE, heard |-> FALSE]
        /\ faults = 0

At(r, p) == req[r].pc = p
End(r)   == req' = [req EXCEPT ![r] = [Idle EXCEPT !.pc = "done"]]
Fault    == faults < MaxFaults /\ faults' = faults + 1
Undrawn  == {n \in Nonces : age[n] = "undrawn"}
Next1    == CHOOSE n \in Undrawn : \A m \in Undrawn : n <= m
-----------------------------------------------------------------------------
\* isRefunded: the debit went back to the balance.
IsRefunded(p) == p.state = "expired"

\* storedPaymentResponse: a credential leaves only from a live row in mode on.
Stored(r, k, p) ==
    sent' = IF IsRefunded(p) \/ p.mode = "shadow" THEN sent
            ELSE sent \cup {[by |-> r, key |-> k, nonce |-> p.nonce]}

\* validateRequirement, selectRequirement, budget: only an exact USDC payment on
\* Base or Solana within its limits goes on to the ledger.
Refuse(r) == /\ At(r, "idle")
             /\ End(r)
             /\ UNCHANGED <<mode, flips, ledger, cache, age, sent, chain, jobs, faults>>

\* requirementHash: what an idempotency key is bound to.
SameTerms(x, h) == x.hash = h

\* sign, first half: the account as the ledger has it: authorisation, then
\* replay, then what can be refused early.  A switch that is off, an inactive
\* key, a conflict, a limit or a ledger out of reach ends the request.
SignRead(r, k, h) ==
    /\ At(r, "idle")
    /\ \/ End(r) /\ UNCHANGED sent
       \/ /\ mode # "off" /\ pay[k] # NoPay /\ SameTerms(pay[k], h)
          /\ End(r)
          /\ IF mode = "on" THEN Stored(r, k, pay[k]) ELSE UNCHANGED sent
       \/ /\ mode # "off" /\ pay[k] = NoPay
          /\ mode = "on" => bal >= 1
          /\ req' = [req EXCEPT ![r] = [pc |-> IF mode = "shadow" THEN "shadow" ELSE Network[h],
                                        key |-> k, hash |-> h, mode |-> mode, nonce |-> 0]]
          /\ UNCHANGED sent
    /\ UNCHANGED <<mode, flips, ledger, cache, age, chain, jobs, faults>>

Drawn(r) == /\ Undrawn # {}
            /\ age' = [age EXCEPT ![Next1] = "fresh"]
            /\ req' = [req EXCEPT ![r].pc = IF @ = "evm" THEN "remote" ELSE "commit", ![r].nonce = Next1]

\* loadOrCreateAttempt: the first attempt's nonce while it outlives a signing
\* timeout; otherwise, or when KV does not show it, a new one.
Attempt(r) ==
    LET k == req[r].key IN
    /\ At(r, "evm")
    /\ \/ /\ SameTerms(cache[k], req[r].hash) /\ age[cache[k].nonce] = "fresh"
          /\ req' = [req EXCEPT ![r].pc = "remote", ![r].nonce = cache[k].nonce]
          /\ UNCHANGED <<cache, age>>
       \/ /\ Drawn(r)
          /\ cache' = [cache EXCEPT ![k] = [hash |-> req[r].hash, nonce |-> Next1]]
    /\ UNCHANGED <<mode, flips, ledger, sent, chain, jobs, faults>>

\* The service refuses, times out, or its answer is for another wallet,
\* authorization or signer, or too late: nothing was debited.
RemoteFails(r) == At(r, "remote") /\ End(r)

\* A verified signature over the parameters asked for, with time left.
RemoteSigns(r) == /\ At(r, "remote")
                  /\ age[req[r].nonce] \in {"fresh", "short"}
                  /\ req' = [req EXCEPT ![r].pc = "commit"]

\* remoteSignEvmExact
RemoteSign(r) ==
    /\ RemoteFails(r) \/ RemoteSigns(r)
    /\ UNCHANGED <<mode, flips, ledger, cache, age, sent, chain, jobs, faults>>

\* signSolanaExact: a new transaction each time; its signature is the nonce.
SolanaSign(r) ==
    /\ At(r, "svm")
    /\ \/ End(r) /\ UNCHANGED age
       \/ Drawn(r)
    /\ UNCHANGED <<mode, flips, ledger, cache, sent, chain, jobs, faults>>

\* Shadow: a placeholder nonce, no signer is touched.
ShadowDraw(r) ==
    /\ At(r, "shadow")
    /\ Drawn(r)
    /\ UNCHANGED <<mode, flips, ledger, cache, sent, chain, jobs, faults>>

\* Faulty: the row is written without looking for the key's row again.
FaultyFree(k) == TRUE

\* x402_payment_commit: the key has no row yet.
Free(k) == pay[k] = NoPay

Row(r) == [hash |-> req[r].hash, nonce |-> req[r].nonce, mode |-> mode,
           state |-> IF mode = "on" THEN "signed" ELSE "would_sign"]

\* created: row, nonce, credential and debit in one transaction.
Created(r) == /\ Free(req[r].key)
              /\ req[r].mode = mode
              /\ bal >= 1
              /\ pay' = [pay EXCEPT ![req[r].key] = Row(r)]
              /\ bal' = IF mode = "on" THEN bal - 1 ELSE bal

\* Faulty: a replay found at commit is answered whatever the switch says.
FaultyReplayed(r) == SameTerms(pay[req[r].key], req[r].hash)

\* replay at commit: a lost race, answered only while the switch is still on.
Replayed(r) == SameTerms(pay[req[r].key], req[r].hash) /\ mode = "on"

\* sign, second half: the commit and its answer.  A refusal (switch, conflict,
\* limits, ledger out of reach) ends the request; so does a lost answer.
Commit(r) ==
    LET k == req[r].key IN
    /\ At(r, "commit")
    /\ End(r)
    /\ \/ UNCHANGED <<ledger, sent, faults>>
       \/ mode # "off" /\ Created(r) /\ Stored(r, k, Row(r)) /\ UNCHANGED faults
       \/ Replayed(r) /\ Stored(r, k, pay[k]) /\ UNCHANGED <<ledger, faults>>
       \/ mode # "off" /\ Created(r) /\ Fault /\ UNCHANGED sent
    /\ UNCHANGED <<mode, flips, cache, age, chain, jobs>>
-----------------------------------------------------------------------------
Older(s) == CASE s = "fresh" -> "short" [] s = "short" -> "past" [] OTHER -> "final"

\* Time passes for one authorization.
Age(n) == /\ age[n] \in {"fresh", "short", "past"}
          /\ age' = [age EXCEPT ![n] = Older(@)]
          /\ UNCHANGED <<req, mode, flips, ledger, cache, sent, chain, jobs, faults>>

\* The row's credential was signed on Base, not on Solana.
OnBase(k) == Network[pay[k].hash] = "evm"

\* The merchant's facilitator executes a credential it was given, from the wallet
\* that signed it.  A block that is not finalized yet may hold it after the
\* Worker's clock says expired.
Execute(n) ==
    /\ age[n] # "final" /\ n \notin used
    /\ used' = used \cup {n}
    /\ \E c \in sent :
         /\ c.nonce = n
         /\ \/ OnBase(c.key) /\ funds >= 1 /\ funds' = funds - 1 /\ UNCHANGED solana
            \/ ~OnBase(c.key) /\ solana >= 1 /\ solana' = solana - 1 /\ UNCHANGED funds
    /\ UNCHANGED <<req, mode, flips, ledger, cache, age, sent, drained, jobs, faults>>

\* Checkout pays an invoice from the Base funder.
Drain == /\ funds >= 1 /\ Fault
         /\ funds' = funds - 1 /\ drained' = drained + 1
         /\ UNCHANGED <<req, mode, flips, ledger, cache, age, sent, used, solana, jobs>>

\* An operator moves app_config.X402_PAYER.
Flip(m) == /\ m # mode /\ flips < MaxFlips
           /\ mode' = m /\ flips' = flips + 1
           /\ UNCHANGED <<req, ledger, cache, age, sent, chain, jobs, faults>>
-----------------------------------------------------------------------------
Top(t, x) == top' = [top EXCEPT ![t] = x]

Refused == [NoTop EXCEPT !.pc = "refused"]

\* topup: key, switch, signer and amount, before any order exists.
TopupRefuse(t) == Top(t, Refused)

\* parseTopupSource: chain and coin are never defaulted.
SourceRefuse(t) == Top(t, Refused)

\* An order at the intents API that came back with the receiver, chain and coin
\* asked for; any other answer is a refusal.
TopupOrder(t) ==
    /\ top[t].pc = "idle"
    /\ \/ TopupRefuse(t) \/ SourceRefuse(t)
       \/ mode = "on" /\ Top(t, [NoTop EXCEPT !.pc = "ordered"])
    /\ UNCHANGED <<req, mode, flips, ledger, cache, age, sent, chain, ops, slot, recon, faults>>

\* The deposit address is answered only for a registered order.
Shown(bound) == bound

\* registerTopup: bound and answered, refused, or bound with the answer lost.
TopupRegister(t) ==
    /\ top[t].pc = "ordered"
    /\ \/ /\ \E b \in BOOLEAN : /\ b => mode # "off"
                                /\ Top(t, [top[t] EXCEPT !.bound = b,
                                                         !.pc = IF Shown(b) THEN "shown" ELSE "refused"])
          /\ UNCHANGED faults
       \/ Fault /\ Top(t, [top[t] EXCEPT !.bound = TRUE, !.pc = "refused"])
    /\ UNCHANGED <<req, mode, flips, ledger, cache, age, sent, chain, ops, slot, recon>>

\* The agent pays the deposit it was shown; it reaches the Base funder.
Deposit(t) ==
    /\ top[t].pc = "shown" /\ ~top[t].paid
    /\ Top(t, [top[t] EXCEPT !.paid = TRUE])
    /\ funds' = funds + Credit
    /\ UNCHANGED <<req, mode, flips, ledger, cache, age, sent, used, solana, drained, ops, slot, recon, faults>>

\* The ledger credits a bound order that was paid.
CreditTopup(t) ==
    /\ top[t].paid /\ top[t].bound /\ top[t].state = "open"
    /\ Top(t, [top[t] EXCEPT !.state = "credited"])
    /\ bal' = bal + Credit
    /\ UNCHANGED <<req, mode, flips, pay, cache, age, sent, chain, ops, slot, recon, faults>>

\* The order bounces after its credit; the balance is not taken back.
Reverse(t) ==
    /\ top[t].state = "credited" /\ funds >= Credit
    /\ Top(t, [top[t] EXCEPT !.state = "reversed"])
    /\ funds' = funds - Credit
    /\ UNCHANGED <<req, mode, flips, ledger, cache, age, sent, used, solana, drained, ops, slot, recon, faults>>
-----------------------------------------------------------------------------
\* x402_ops_pending: Base credentials past valid_before, not yet settled or checked.
Checks == {k \in Keys : /\ pay[k].state = "signed" /\ OnBase(k)
                        /\ age[pay[k].nonce] \in {"past", "final"}}

\* readAuthorizationState: an answer only from a finalized block past validBefore.
Readable(k) == age[pay[k].nonce] = "final"

\* runX402Ops: the slot is taken first, so a pass that fails here loses it.
\* Then what is pending is read, and each reversal is sent to the alert channel.
OpsRun ==
    /\ ~slot /\ ops.pc = "idle"
    /\ slot' = TRUE
    /\ \/ Fault /\ UNCHANGED <<ops, top>>
       \/ \E R \in SUBSET {k \in Checks : Readable(k)},
             A \in SUBSET {t \in TopUps : top[t].state = "reversed"} :
            /\ ops' = [pc |-> "report", told |-> A,
                       reads |-> {[key |-> k, used |-> pay[k].nonce \in used] : k \in R}]
            /\ top' = [t \in TopUps |-> [top[t] EXCEPT !.heard = @ \/ t \in A]]
            /\ UNCHANGED faults
    /\ UNCHANGED <<req, mode, flips, ledger, cache, age, sent, chain, recon>>

\* Only a delivered alert is acknowledged.
Acked(t) == t \in ops.told

\* opsReport: used rows settle, unused ones are stamped; reversals are closed.
OpsReport ==
    /\ ops.pc = "report"
    /\ ops' = NoPass
    /\ \/ Fault /\ UNCHANGED <<pay, top>>
       \/ /\ pay' = [k \in Keys |-> IF \E x \in ops.reads : x.key = k /\ pay[k].state = "signed"
                       THEN [pay[k] EXCEPT !.state = IF [key |-> k, used |-> TRUE] \in ops.reads
                                                     THEN "settled" ELSE "checked"]
                       ELSE pay[k]]
          /\ top' = [t \in TopUps |-> IF Acked(t) THEN [top[t] EXCEPT !.state = "closed"] ELSE top[t]]
          /\ UNCHANGED faults
    /\ UNCHANGED <<req, mode, flips, bal, cache, age, sent, chain, slot, recon>>

\* pg_cron x402-refund-expired: a checked, unused credential goes back to the balance.
Refund(k) ==
    /\ pay[k].state = "checked"
    /\ pay' = [pay EXCEPT ![k].state = "expired"]
    /\ bal' = bal + 1
    /\ UNCHANGED <<req, mode, flips, cache, age, sent, chain, jobs, faults>>

NextSlot == /\ slot /\ slot' = FALSE
            /\ UNCHANGED <<req, mode, flips, ledger, cache, age, sent, chain, top, ops, recon, faults>>

\* base_liability_usd: the balance and the Base credentials not known as settled.
Liability == bal + Cardinality({k \in Keys : /\ pay[k].mode = "on" /\ OnBase(k)
                                             /\ pay[k].state \in {"signed", "checked"}})

\* The state is kept only if the alert was delivered; otherwise the next hour retries.
OnRecord(delivered) == delivered

\* reconcileX402Payer, one hourly pass; a shortfall on record is sent again
\* after a day.  A pass that cannot read, or finds the hour taken, does nothing.
Reconcile ==
    /\ mode # "off"
    /\ IF Liability > funds
       THEN \E d \in BOOLEAN : recon' = [short |-> recon.short \/ OnRecord(d), heard |-> recon.heard \/ d]
       ELSE recon.short /\ recon' = [short |-> FALSE, heard |-> FALSE]
    /\ UNCHANGED <<req, mode, flips, ledger, cache, age, sent, chain, top, ops, slot, faults>>

Next == \/ \E r \in Requests, k \in Keys, h \in Hashes : SignRead(r, k, h)
        \/ \E r \in Requests : \/ Refuse(r) \/ Attempt(r) \/ RemoteSign(r) \/ SolanaSign(r)
                               \/ ShadowDraw(r) \/ Commit(r)
        \/ \E n \in Nonces : Age(n) \/ Execute(n)
        \/ Drain \/ NextSlot \/ OpsRun \/ OpsReport \/ Reconcile
        \/ \E m \in Modes : Flip(m)
        \/ \E t \in TopUps : \/ TopupOrder(t) \/ TopupRegister(t) \/ Deposit(t)
                             \/ CreditTopup(t) \/ Reverse(t)
        \/ \E k \in Keys : Refund(k)

Spec == Init /\ [][Next]_vars
-----------------------------------------------------------------------------
\* Debits whose money is still in the Base funder: its own live credentials, and
\* every Solana one, which is executed from the other wallet.
Live == {k \in Keys : /\ pay[k].mode = "on" /\ pay[k].state # "expired"
                      /\ OnBase(k) => pay[k].nonce \notin used}
Reversed == {t \in TopUps : top[t].state \in {"reversed", "closed"}}

\* The Base funder can always honour what the agent is owed on Base and still
\* hold what the Solana wallet advanced: balance, live credentials and Solana
\* debits never exceed its money, apart from what checkout took from the same
\* wallet and from deposits that bounced after their credit.  It breaks if a
\* signature that lost its commit leaves, if a used credential is refunded, or
\* if a retry pays twice (routes.ts sign, reconcile.ts readAuthorizationState).
\* Of the Solana wallet it says nothing: the code neither fills nor checks it.
Backed == bal + Cardinality(Live) <= funds + drained + Credit * Cardinality(Reversed)

\* Every credential that left the Worker is the one on its key's row, and one
\* that was given back was not executed (header of routes.ts: a signature whose
\* commit loses never leaves this Worker).
OneCredential == \A c \in sent : /\ pay[c.key].nonce = c.nonce /\ pay[c.key].mode = "on"
                                 /\ pay[c.key].state = "expired" => c.nonce \notin used

\* An acknowledged reversal and a recorded shortfall were really delivered to
\* the alert channel (reconcile.ts, jobs 2 and 3).
AlertsHeard == /\ \A t \in TopUps : top[t].state = "closed" => top[t].heard
               /\ recon.short => recon.heard

\* The Base funder covers what it owes, a key has one credential,
\* and an alert the payer's cron counts as sent was heard (x402payer).
PayerSound == Backed /\ OneCredential /\ AlertsHeard

\* No step hands out a credential, new or replayed, unless the switch is on
\* when the ledger answers (sign: authorisation first, replay second).
SwitchHolds == [][sent' # sent => mode = "on"]_vars
=============================================================================
