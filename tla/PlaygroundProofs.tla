-------------------------- MODULE PlaygroundProofs --------------------------
(***************************************************************************)
(* Proofs about Playground, for any number of accounts, intents, payments, *)
(* claims, calls and requests and any caps, lifetimes and lease.           *)
(***************************************************************************)
EXTENDS PlaygroundInvariant, FiniteSetTheorems, TLAPS

-----------------------------------------------------------------------------
(* Types.                                                                  *)

\* An hourly or daily tally.
LEMMA TallyType ==
  ASSUME NEW f \in [Accounts -> [Times -> Nat]], NEW a \in Accounts, NEW k, NEW n \in Nat
  PROVE  [f EXCEPT ![a][k] = @ + n] \in [Accounts -> [Times -> Nat]]
<1>1. f[a] \in [Times -> Nat]
  OBVIOUS
<1>2. [f[a] EXCEPT ![k] = @ + n] \in [Times -> Nat]
  <2>1. CASE k \in Times
    BY <1>1, <2>1
  <2>2. CASE k \notin Times
    <3> DEFINE g == f[a]
    <3>1. g \in [Times -> Nat]
      BY <1>1
    <3>2. [g EXCEPT ![k] = @ + n] = g
      <4> HIDE DEF g
      <4> QED
        BY <3>1, <2>2
    <3> QED
      BY <3>1, <3>2
  <2> QED
    BY <2>1, <2>2
<1> QED
  BY <1>2

LEMMA CreateTypes ==
  ASSUME LedgerTypeOK, NEW i \in Intents, NEW a \in Accounts, NEW n \in Nat, NEW t \in Nat,
         CreateIntent(i, a, n, t)
  PROVE  LedgerTypeOK'
<1> USE DEF LedgerTypeOK, totals
<1>0. [intent[i] EXCEPT !.status = "open", !.account = a, !.amount = n, !.created = t] \in Intent
  BY DEF Intent
<1>1. intent' \in [Intents -> Intent]
  BY <1>0 DEF CreateIntent
<1>2. minted' \in [Accounts -> [Times -> Nat]]
  BY TallyType DEF CreateIntent
<1> QED
  BY <1>1, <1>2 DEF CreateIntent

LEMMA DepositTypes ==
  ASSUME LedgerTypeOK,
         NEW i \in Intents, NEW p \in Payments, NEW t \in Nat, NEW jti \in Sessions, NEW exp \in Nat
  PROVE  /\ Reopen(i, p, t, jti, exp) => LedgerTypeOK'
         /\ OpenExpired(i, p, t) => LedgerTypeOK'
         /\ OpenOverCap(i, p, t) => LedgerTypeOK'
         /\ OpenCredit(i, p, t, jti, exp) => LedgerTypeOK'
<1> USE DEF LedgerTypeOK, totals
<1>2. Reopen(i, p, t, jti, exp) => LedgerTypeOK'
  <2> SUFFICES ASSUME Reopen(i, p, t, jti, exp) PROVE LedgerTypeOK'
    OBVIOUS
  <2>0. [intent[i] EXCEPT !.jti = jti, !.exp = exp] \in Intent
    BY DEF Intent
  <2>1. intent' \in [Intents -> Intent]
    BY <2>0 DEF Reopen
  <2> QED
    BY <2>1 DEF Reopen
<1>3. intent[i].account \in Accounts /\ intent[i].amount \in Nat
  BY DEF Intent
<1>4. OpenExpired(i, p, t) => LedgerTypeOK'
  <2> SUFFICES ASSUME OpenExpired(i, p, t) PROVE LedgerTypeOK'
    OBVIOUS
  <2>0. [intent[i] EXCEPT !.status = "expired"] \in Intent
    BY DEF Intent
  <2>1. intent' \in [Intents -> Intent]
    BY <2>0 DEF OpenExpired
  <2>2. openCount' \in [Accounts -> Nat]
    BY <1>3 DEF OpenExpired, ReleaseOpenSlot
  <2> QED
    BY <2>1, <2>2 DEF OpenExpired
<1>5. OpenOverCap(i, p, t) => LedgerTypeOK'
  <2> SUFFICES ASSUME OpenOverCap(i, p, t) PROVE LedgerTypeOK'
    OBVIOUS
  <2>0. [intent[i] EXCEPT !.status = "over_cap", !.payment = p] \in Intent
    BY DEF Intent
  <2>1. intent' \in [Intents -> Intent]
    BY <2>0 DEF OpenOverCap
  <2>2. openCount' \in [Accounts -> Nat]
    BY <1>3 DEF OpenOverCap, ReleaseOpenSlot
  <2> QED
    BY <2>1, <2>2 DEF OpenOverCap
<1>6. OpenCredit(i, p, t, jti, exp) => LedgerTypeOK'
  <2> SUFFICES ASSUME OpenCredit(i, p, t, jti, exp) PROVE LedgerTypeOK'
    OBVIOUS
  <2>0. [intent[i] EXCEPT !.status = "consumed", !.payment = p, !.jti = jti, !.exp = exp] \in Intent
    BY DEF Intent
  <2>1. intent' \in [Intents -> Intent]
    BY <2>0 DEF OpenCredit
  <2>2. openCount' \in [Accounts -> Nat]
    BY <1>3 DEF OpenCredit, ReleaseOpenSlot
  <2>3. deposited' \in [Accounts -> [Times -> Nat]] /\ balance' \in [Accounts -> Nat]
    <3>1. deposited' = [deposited EXCEPT ![intent[i].account][Day(t)] = @ + intent[i].amount]
      BY DEF OpenCredit
    <3>2. balance' = [balance EXCEPT ![intent[i].account] = @ + intent[i].amount]
      BY DEF OpenCredit
    <3>3. deposited' \in [Accounts -> [Times -> Nat]]
      BY <1>3, <3>1, TallyType
    <3>4. balance[intent[i].account] + intent[i].amount \in Nat
      BY <1>3
    <3>5. balance' \in [Accounts -> Nat]
      BY <1>3, <3>2, <3>4
    <3> QED
      BY <3>3, <3>5
  <2>4. credited' \in Nat /\ outstanding' \in Int
    BY <1>3 DEF OpenCredit
  <2> QED
    BY <2>1, <2>2, <2>3, <2>4 DEF OpenCredit
<1> QED
  BY <1>2, <1>4, <1>5, <1>6

LEMMA ReserveTypes ==
  ASSUME LedgerTypeOK, NEW c \in CallIds, NEW a \in Accounts, NEW n \in Nat, NEW t \in Nat,
         NEW armed \in BOOLEAN, Reserve(c, a, n, t, armed)
  PROVE  LedgerTypeOK'
<1> USE DEF LedgerTypeOK, totals, deposits
<1>1. call' \in [CallIds -> Call]
  BY DEF Reserve, Call
<1>2. balance' \in [Accounts -> Nat]
  BY DEF Reserve
<1>3. alarm' \in BOOLEAN
  BY DEF Reserve
<1> QED
  BY <1>1, <1>2, <1>3 DEF Reserve

LEMMA DispatchTypes ==
  ASSUME LedgerTypeOK, NEW c \in CallIds, MarkDispatched(c)
  PROVE  LedgerTypeOK'
<1>1. call' \in [CallIds -> Call]
  BY DEF MarkDispatched, Call, LedgerTypeOK
<1> QED
  BY <1>1 DEF MarkDispatched, LedgerTypeOK, totals, deposits

LEMMA SettleTypes ==
  ASSUME LedgerTypeOK, NEW c \in CallIds, NEW n \in Nat, NEW action, Settle(c, action, n)
  PROVE  LedgerTypeOK'
<1> USE DEF LedgerTypeOK, totals, deposits
<1>1. CASE call[c].status # "reserved"
  BY <1>1 DEF Settle, ledger
<1>2. CASE call[c].status = "reserved"
  <2> DEFINE charge == IF action = "commit" THEN Clamp(n, call[c].price) ELSE 0
  <2>0. call[c].account \in Accounts /\ call[c].price \in Nat
    BY DEF Call
  <2>1. charge \in Nat /\ call[c].price - charge \in Nat
    BY <2>0 DEF Clamp
  <2>2. [call[c] EXCEPT !.status = IF action = "commit" THEN "committed" ELSE "released",
                        !.charged = charge] \in Call
    BY <2>1 DEF Call
  <2>3. call' \in [CallIds -> Call]
    BY <1>2, <2>2 DEF Settle
  <2>4. balance' = [balance EXCEPT ![call[c].account] = @ + (call[c].price - charge)]
    BY <1>2 DEF Settle
  <2>5. balance[call[c].account] + (call[c].price - charge) \in Nat
    BY <2>0, <2>1
  <2>6. committed' \in Nat /\ outstanding' \in Int
    BY <1>2, <2>1 DEF Settle
  <2>7. balance' \in [Accounts -> Nat]
    <3> HIDE DEF charge
    <3> QED
      BY <2>0, <2>4, <2>5
  <2> QED
    BY <1>2, <2>3, <2>6, <2>7 DEF Settle
<1> QED
  BY <1>1, <1>2

LEMMA ReapTypes ==
  ASSUME LedgerTypeOK, NEW t, (\E c \in CallIds : Reap(c, t)) \/ AlarmEnd(t)
  PROVE  LedgerTypeOK'
<1> USE DEF LedgerTypeOK, totals, deposits
<1>1. ASSUME NEW c \in CallIds, Reap(c, t) PROVE LedgerTypeOK'
  <2>1. call[c].account \in Accounts /\ call[c].price \in Nat
    BY DEF Call
  <2>2. call' \in [CallIds -> Call]
    BY <1>1 DEF Reap, Call
  <2>3. balance' = [balance EXCEPT ![call[c].account] = @ + call[c].price]
    BY <1>1 DEF Reap
  <2>4. balance[call[c].account] + call[c].price \in Nat
    BY <2>1
  <2>5. balance' \in [Accounts -> Nat]
    BY <2>1, <2>3, <2>4
  <2> QED
    BY <1>1, <2>2, <2>5 DEF Reap
<1>2. CASE AlarmEnd(t)
  BY <1>2 DEF AlarmEnd
<1> QED
  BY <1>1, <1>2

-----------------------------------------------------------------------------

LEMMA InitTypes == Init => TypeOK
<1> SUFFICES ASSUME Init PROVE TypeOK
  OBVIOUS
<1>1. LedgerTypeOK
  <2>1. intent \in [Intents -> Intent] /\ call \in [CallIds -> Call]
    BY DEF Init, LedgerInit, Intent, Call
  <2>2. minted \in [Accounts -> [Times -> Nat]] /\ deposited \in [Accounts -> [Times -> Nat]]
    BY DEF Init, LedgerInit
  <2>3. /\ consumed \in [Payments -> Intents \cup {None}]
        /\ openCount \in [Accounts -> Nat] /\ balance \in [Accounts -> Nat]
    BY DEF Init, LedgerInit
  <2>4. credited = 0 /\ committed = 0 /\ outstanding = 0
    BY DEF Init, LedgerInit
  <2>5. alarm \in BOOLEAN
    BY DEF Init, LedgerInit
  <2> QED
    BY <2>1, <2>2, <2>3, <2>4, <2>5 DEF LedgerTypeOK
<1>2. claim \in [Sessions -> Claim]
  <2>1. PICK i \in Intents, p \in Payments :
          claim = [s \in Sessions |-> [pc |-> "idle", intent |-> i, payment |-> p,
                                       seen |-> intent[i], at |-> 0]]
    BY DEF Init
  <2>2. intent[i] \in Intent
    BY <1>1 DEF LedgerTypeOK
  <2> QED
    BY <2>1, <2>2 DEF Claim
<1>3. now \in Times
  BY LedgerConstants DEF Init, Times
<1>4. /\ paid \in [Payments -> Payment]
      /\ tokens \subseteq Token
      /\ caller \in [Callers -> Caller]
      /\ upstream \in [CallIds -> [runs : Nat, paid : Nat]]
  BY DEF Init, Payment, Caller
<1> QED
  BY <1>1, <1>2, <1>3, <1>4 DEF TypeOK

\* What a claim asks the ledger for is well typed.
LEMMA WantedTypes ==
  ASSUME TypeOK, NEW s \in Sessions
  PROVE  /\ claim[s] \in Claim
         /\ claim[s].intent \in Intents /\ claim[s].payment \in Payments /\ claim[s].at \in Nat
         /\ claim[s].seen \in Intent /\ claim[s].seen.created \in Nat /\ claim[s].seen.exp \in Nat
         /\ WantedJti(s, claim[s]) \in Sessions
         /\ WantedExp(claim[s]) \in Nat
         /\ ConfirmedAt(claim[s]) \in Nat
<1>1. claim[s] \in Claim
  BY DEF TypeOK
<1>2. /\ claim[s].intent \in Intents /\ claim[s].payment \in Payments /\ claim[s].at \in Nat
      /\ claim[s].seen \in Intent
  BY <1>1 DEF Claim
<1>3. /\ claim[s].seen.created \in Nat /\ claim[s].seen.exp \in Nat
      /\ claim[s].seen.jti \in Sessions \cup {None}
  BY <1>2 DEF Intent
<1>4. WantedJti(s, claim[s]) \in Sessions
  BY <1>3 DEF WantedJti, LiveSession
<1>5. SessionTTL \in Nat /\ RenewalCap \in Nat
  BY LedgerConstants
<1>6. WantedExp(claim[s]) \in Nat
  BY <1>2, <1>3, <1>5 DEF WantedExp
<1>7. paid[claim[s].payment].at \in Nat
  BY <1>2 DEF TypeOK, Payment
<1>8. ConfirmedAt(claim[s]) \in Nat
  BY <1>3, <1>7 DEF ConfirmedAt
<1> QED
  BY <1>1, <1>2, <1>3, <1>4, <1>6, <1>8

LEMMA TypeStep == TypeOK /\ Deposits /\ [Next]_vars => TypeOK'
<1> SUFFICES ASSUME TypeOK, Deposits, [Next]_vars PROVE TypeOK'
  OBVIOUS
<1>0. now \in Nat /\ now \in Times /\ LedgerTypeOK
  BY LedgerConstants DEF TypeOK, Times
<1>u. ASSUME UNCHANGED ledger PROVE LedgerTypeOK'
  BY <1>0, <1>u DEF LedgerTypeOK, ledger
<1>1. ASSUME NEW i \in Intents, NEW a \in Accounts, NEW n \in Amounts, RequestIntent(i, a, n)
      PROVE  TypeOK'
  <2>1. n \in Nat
    BY PlaygroundConstants
  <2>3. LedgerTypeOK'
    BY <1>0, <1>1, <2>1, CreateTypes DEF RequestIntent
  <2> QED
    BY <1>1, <2>3 DEF RequestIntent, TypeOK
<1>2. ASSUME NEW i \in Intents, NEW p \in Payments, Pay(p, i) PROVE TypeOK'
  <2>1. paid' \in [Payments -> Payment]
    BY <1>0, <1>2 DEF Pay, TypeOK, Payment
  <2> QED
    BY <1>2, <1>u, <2>1 DEF Pay, TypeOK
<1>3. ASSUME NEW s \in Sessions, NEW i \in Intents, NEW p \in Payments, ClaimRead(s, i, p)
      PROVE  TypeOK'
  <2>1. intent[i] \in Intent
    BY <1>0 DEF LedgerTypeOK
  <2>2. claim' \in [Sessions -> Claim]
    BY <1>3, <2>1 DEF ClaimRead, TypeOK, Claim
  <2> QED
    BY <1>3, <1>u, <2>2 DEF ClaimRead, TypeOK
<1>4. ASSUME NEW s \in Sessions, ClaimClock(s) PROVE TypeOK'
  <2>1. [claim[s] EXCEPT !.pc = "open", !.at = now] \in Claim
    <3>1. claim[s] \in Claim
      BY WantedTypes
    <3> QED
      BY <1>0, <3>1 DEF Claim
  <2>2. claim' = [claim EXCEPT ![s] = [claim[s] EXCEPT !.pc = "open", !.at = now]]
    BY <1>4 DEF ClaimClock, TypeOK
  <2>3. claim' \in [Sessions -> Claim]
    BY <2>1, <2>2 DEF TypeOK
  <2> QED
    BY <1>4, <1>u, <2>3 DEF ClaimClock, TypeOK
<1>5. ASSUME NEW s \in Sessions, ClaimOpen(s) PROVE TypeOK'
  <2> DEFINE r == claim[s]
  <2>1. LedgerTypeOK'
    BY <1>0, <1>5, <1>u, WantedTypes, DepositTypes DEF ClaimOpen
  <2>2. [r EXCEPT !.pc = "done"] \in Claim
    BY WantedTypes DEF Claim
  <2>3. claim' \in [Sessions -> Claim]
    BY <1>5, <2>2 DEF ClaimOpen, TypeOK
  <2>4. tokens' \subseteq Token
    <3>1. CASE UNCHANGED tokens
      BY <3>1 DEF TypeOK
    <3>2. CASE \/ Reopen(r.intent, r.payment, r.at, WantedJti(s, r), WantedExp(r))
               \/ OpenCredit(r.intent, r.payment, ConfirmedAt(r), WantedJti(s, r), WantedExp(r))
      <4>1. r.intent \in Intents /\ intent \in [Intents -> Intent] /\ Credit(r.intent)
        BY <1>0, WantedTypes DEF LedgerTypeOK, Deposits
      <4>2. intent[r.intent] \in Intent /\ intent[r.intent].jti \in Sessions \cup {None}
        BY <4>1 DEF Intent
      <4>3. intent'[r.intent].jti \in Sessions
        <5>1. WantedJti(s, r) \in Sessions
          BY WantedTypes
        <5>2. CASE Reopen(r.intent, r.payment, r.at, WantedJti(s, r), WantedExp(r))
          <6>1. intent[r.intent].jti \in Sessions
            BY <4>1, <4>2, <5>2 DEF Reopen, Credit
          <6> HIDE DEF r
          <6> QED
            BY <4>1, <4>2, <5>1, <5>2, <6>1 DEF Reopen, Intent
        <5>3. CASE OpenCredit(r.intent, r.payment, ConfirmedAt(r), WantedJti(s, r), WantedExp(r))
          <6> HIDE DEF r
          <6> QED
            BY <4>1, <4>2, <5>1, <5>3 DEF OpenCredit, Intent
        <5> QED
          BY <3>2, <5>2, <5>3
      <4>4. intent'[r.intent].exp \in Nat
        BY <2>1, <4>1 DEF LedgerTypeOK, Intent
      <4>5. Grant(s, r) => tokens' \subseteq Token
        BY <4>1, <4>3, <4>4 DEF Grant, Token, TypeOK
      <4>6. UNCHANGED tokens \/ Grant(s, r)
        BY <1>5 DEF ClaimOpen
      <4> QED
        BY <3>1, <4>5, <4>6
    <3> QED
      BY <1>5, <3>1, <3>2 DEF ClaimOpen
  <2> QED
    BY <1>5, <2>1, <2>3, <2>4 DEF ClaimOpen, TypeOK
<1>6. ASSUME NEW q \in Callers, NEW c \in CallIds, NEW a \in Accounts, NEW n \in Prices,
             NEW armed \in BOOLEAN, BeginCall(q, c, a, n, armed)
      PROVE  TypeOK'
  <2>1. n \in Nat
    BY PlaygroundConstants
  <2>2. LedgerTypeOK'
    BY <1>0, <1>6, <2>1, ReserveTypes DEF BeginCall
  <2>3. caller' \in [Callers -> Caller]
    BY <1>0, <1>6 DEF BeginCall, TypeOK, Caller
  <2> QED
    BY <1>6, <2>2, <2>3 DEF BeginCall, TypeOK
<1>7. ASSUME NEW q \in Callers, NEW c \in CallIds, ReplayCall(q, c) PROVE TypeOK'
  <2>1. caller' \in [Callers -> Caller]
    BY <1>0, <1>7 DEF ReplayCall, TypeOK, Caller
  <2> QED
    BY <1>7, <1>u, <2>1 DEF ReplayCall, TypeOK
<1>8. ASSUME NEW q \in Callers
      PROVE  /\ caller[q].call \in CallIds
             /\ \A x \in {"mark", "abort", "upstream", "commit", "release", "done"} :
                  Go(q, x) => caller' \in [Callers -> Caller]
  BY DEF Go, TypeOK, Caller
<1>9. ASSUME NEW q \in Callers, Dispatch(q) PROVE TypeOK'
  <2>1. LedgerTypeOK'
    BY <1>0, <1>8, <1>9, DispatchTypes DEF Dispatch
  <2> QED
    BY <1>8, <1>9, <2>1 DEF Dispatch, TypeOK
<1>10. ASSUME NEW q \in Callers, NEW b \in BOOLEAN, DispatchThrows(q, b) PROVE TypeOK'
  <2>1. LedgerTypeOK'
    BY <1>0, <1>8, <1>10, <1>u, DispatchTypes DEF DispatchThrows
  <2> QED
    BY <1>8, <1>10, <2>1 DEF DispatchThrows, TypeOK
<1>11. ASSUME NEW q \in Callers, NEW b \in BOOLEAN, RunUpstream(q, b) PROVE TypeOK'
  <2>1. caller' \in [Callers -> Caller]
    BY <1>8, <1>11 DEF RunUpstream
  <2>2. upstream' \in [CallIds -> [runs : Nat, paid : Nat]]
    BY <1>8, <1>11 DEF RunUpstream, TypeOK
  <2> QED
    BY <1>11, <1>u, <2>1, <2>2 DEF RunUpstream, TypeOK
<1>12. ASSUME NEW q \in Callers, SettleCall(q) PROVE TypeOK'
  <2>1. call[caller[q].call].price \in Nat
    BY <1>0, <1>8 DEF LedgerTypeOK, Call
  <2>2. LedgerTypeOK'
    BY <1>0, <1>8, <1>12, <2>1, SettleTypes DEF SettleCall
  <2> QED
    BY <1>8, <1>12, <2>2 DEF SettleCall, TypeOK
<1>13. ASSUME NEW q \in Callers, Die(q) PROVE TypeOK'
  BY <1>8, <1>13, <1>u DEF Die, TypeOK
<1>14. CASE AlarmStep
  <2>1. LedgerTypeOK'
    BY <1>0, <1>14, ReapTypes DEF AlarmStep
  <2> QED
    BY <1>14, <2>1 DEF AlarmStep, TypeOK
<1>15. CASE Tick
  <2>1. now' \in Times
    BY <1>0, <1>15, LedgerConstants DEF Tick, Times
  <2> QED
    BY <1>15, <1>u, <2>1 DEF Tick, TypeOK
<1>16. CASE UNCHANGED vars
  BY <1>16, <1>u DEF vars, TypeOK, ledger
<1> QED
  BY <1>1, <1>2, <1>3, <1>4, <1>5, <1>6, <1>7, <1>9, <1>10, <1>11, <1>12, <1>13, <1>14, <1>15, <1>16
     DEF Next, DepositStep, CallStep
-----------------------------------------------------------------------------
(* Deposits.                                                               *)

\* An intent of the ledger, field by field.
LEMMA IntentFields ==
  ASSUME TypeOK, NEW i \in Intents
  PROVE  /\ intent[i] \in Intent
         /\ intent[i].created \in Nat /\ intent[i].exp \in Nat
         /\ intent[i].payment \in Payments \cup {None}
         /\ intent[i].jti \in Sessions \cup {None}
BY DEF TypeOK, LedgerTypeOK, Intent

\* How an intent may change without disturbing what claims and tokens rely on.
Evolves(i) == /\ intent'[i].created = intent[i].created
              /\ intent[i].status = "consumed" => /\ intent'[i].status = "consumed"
                                                 /\ intent'[i].payment = intent[i].payment
              /\ intent[i].status # "none" => intent'[i].status # "none"

LEMMA ClaimsKept ==
  ASSUME TypeOK, Deposits, TypeOK', now' >= now, NEW s \in Sessions,
         \A i \in Intents : intent[i].status # "none" => Evolves(i),
         claim'[s].pc # "idle" => /\ claim[s].pc # "idle"
                                  /\ claim'[s].intent = claim[s].intent
                                  /\ claim'[s].seen = claim[s].seen
                                  /\ claim'[s].at <= now'
  PROVE  ClaimsAgree(s)'
<1>1. claim[s].intent \in Intents
  BY WantedTypes
<1>2. ClaimsAgree(s)
  BY DEF Deposits
<1> QED
  BY <1>1, <1>2 DEF ClaimsAgree, Evolves

\* A token stays on record while its intent's session stays, or once it is over.
LEMMA TokensKept ==
  ASSUME TypeOK, Deposits, now' \in Nat, now' >= now, NEW t \in tokens,
         Evolves(t.intent),
         \/ t.exp <= now'
         \/ intent'[t.intent].jti = intent[t.intent].jti /\ intent'[t.intent].exp = intent[t.intent].exp
  PROVE  TokenOnRecord(t)'
<1>1. TokenOnRecord(t)
  BY DEF Deposits
<1>2. t.exp \in Nat /\ now \in Nat
  BY LedgerConstants DEF TypeOK, Token, Times
<1> QED
  BY <1>1, <1>2 DEF TokenOnRecord, Evolves

LEMMA DepositsKept ==
  ASSUME Deposits, UNCHANGED <<intent, consumed, paid, claim, tokens, now>>
  PROVE  Deposits'
BY DEF Deposits, Credit, ClaimsAgree, TokenOnRecord

LEMMA InitDeposits == Init => Deposits
<1> SUFFICES ASSUME Init PROVE Deposits
  OBVIOUS
<1>1. \A i \in Intents : intent[i].status = "none" /\ intent[i].jti = None
  BY DEF Init, LedgerInit
<1>2. \A s \in Sessions : claim[s].pc = "idle"
  BY DEF Init
<1> QED
  BY <1>1, <1>2 DEF Deposits, Credit, ClaimsAgree, Init

LEMMA RequestKeepsDeposits ==
  ASSUME TypeOK, TypeOK', Deposits, NEW i \in Intents, NEW a \in Accounts, NEW n \in Amounts,
         RequestIntent(i, a, n)
  PROVE  Deposits'
<1>1. /\ intent[i].status = "none"
      /\ intent' = [intent EXCEPT ![i] = [@ EXCEPT !.status = "open", !.account = a,
                                                   !.amount = n, !.created = now]]
      /\ UNCHANGED <<consumed, paid, claim, tokens, now>>
  BY DEF RequestIntent, CreateIntent
<1>2. \A j \in Intents : j # i => intent'[j] = intent[j]
  BY <1>1 DEF TypeOK, LedgerTypeOK
<1>3. /\ intent'[i].status = "open" /\ intent'[i].jti = intent[i].jti
  BY <1>1, IntentFields DEF TypeOK, LedgerTypeOK, Intent
<1>4. ASSUME NEW j \in Intents PROVE Credit(j)'
  BY <1>1, <1>2, <1>3 DEF Deposits, Credit
<1>5. \A j \in Intents : intent[j].status # "none" => Evolves(j)
  BY <1>1, <1>2 DEF Evolves
<1>6. now \in Nat
  BY LedgerConstants DEF TypeOK, Times
<1>7. ASSUME NEW s \in Sessions PROVE ClaimsAgree(s)'
  <2>1. claim[s].pc # "idle" => claim[s].at <= now
    BY DEF Deposits, ClaimsAgree
  <2> QED
    BY <1>1, <1>5, <1>6, <2>1, ClaimsKept
<1>8. ASSUME NEW t \in tokens PROVE TokenOnRecord(t)'
  <2>1. intent[t.intent].status = "consumed" /\ t.intent \in Intents
    BY DEF Deposits, TokenOnRecord, TypeOK, Token
  <2>2. intent'[t.intent] = intent[t.intent]
    BY <1>1, <1>2, <2>1
  <2> QED
    BY <1>1, <1>5, <1>6, <2>1, <2>2, TokensKept
<1> QED
  BY <1>1, <1>4, <1>7, <1>8 DEF Deposits

LEMMA PayKeepsDeposits ==
  ASSUME TypeOK, Deposits, NEW i \in Intents, NEW p \in Payments, Pay(p, i)
  PROVE  Deposits'
<1>1. /\ paid[p].intent = None
      /\ paid' = [paid EXCEPT ![p] = [intent |-> i, at |-> now]]
      /\ UNCHANGED <<intent, consumed, claim, tokens, now>>
  BY DEF Pay, ledger
<1>2. ASSUME NEW j \in Intents PROVE Credit(j)'
  <2>1. j # None
    BY LedgerConstants
  <2>2. Credit(j)
    BY DEF Deposits
  <2>3. intent[j].status = "consumed" => intent[j].payment # p /\ intent[j].payment \in Payments
    BY <1>1, <2>1, <2>2 DEF Credit
  <2>4. intent[j].status = "consumed" => paid'[intent[j].payment] = paid[intent[j].payment]
    BY <1>1, <2>3 DEF TypeOK
  <2> QED
    BY <1>1, <2>2, <2>4 DEF Credit
<1> QED
  BY <1>1, <1>2 DEF Deposits, ClaimsAgree, TokenOnRecord

LEMMA ReadKeepsDeposits ==
  ASSUME TypeOK, TypeOK', Deposits, NEW s \in Sessions,
         ClaimClock(s) \/ \E i \in Intents, p \in Payments : ClaimRead(s, i, p)
  PROVE  Deposits'
<1>1. UNCHANGED <<intent, consumed, paid, tokens, now>>
  BY DEF ClaimClock, ClaimRead, ledger
<1>2. now \in Nat
  BY LedgerConstants DEF TypeOK, Times
<1>3. \A i \in Intents : Evolves(i)
  BY <1>1 DEF Evolves
<1>4. ASSUME NEW u \in Sessions, u # s PROVE ClaimsAgree(u)'
  <2>1. claim'[u] = claim[u]
    BY <1>4 DEF ClaimClock, ClaimRead, TypeOK
  <2> QED
    BY <1>1, <2>1 DEF Deposits, ClaimsAgree
<1>5. CASE ClaimClock(s)
  <2>1. /\ claim[s].pc = "read"
        /\ claim'[s].intent = claim[s].intent /\ claim'[s].seen = claim[s].seen
        /\ claim'[s].at = now
    BY <1>5, WantedTypes DEF ClaimClock, TypeOK, Claim
  <2> QED
    BY <1>1, <1>2, <1>3, <1>4, <2>1, ClaimsKept DEF Deposits, Credit, TokenOnRecord
<1>6. ASSUME NEW i \in Intents, NEW p \in Payments, ClaimRead(s, i, p) PROVE Deposits'
  <2>1. /\ claim'[s] = [pc |-> "read", intent |-> i, payment |-> p, seen |-> intent[i], at |-> 0]
        /\ intent[i].status # "none"
    BY <1>6 DEF ClaimRead, TypeOK
  <2>2. ClaimsAgree(s)'
    BY <1>1, <1>2, <2>1 DEF ClaimsAgree, Deposits, Credit
  <2> QED
    BY <1>1, <1>4, <2>2 DEF Deposits, Credit, TokenOnRecord
<1> QED
  BY <1>5, <1>6

LEMMA TickKeepsDeposits ==
  ASSUME TypeOK, TypeOK', Deposits, Tick
  PROVE  Deposits'
<1>1. /\ UNCHANGED <<intent, consumed, paid, claim, tokens>>
      /\ now' = now + 1
  BY DEF Tick, ledger
<1>2. now \in Nat
  BY LedgerConstants DEF TypeOK, Times
<1>3. ASSUME NEW s \in Sessions PROVE ClaimsAgree(s)'
  <2>1. claim[s].at \in Nat
    BY WantedTypes
  <2> QED
    BY <1>1, <1>2, <2>1 DEF ClaimsAgree, Deposits
<1>4. ASSUME NEW t \in tokens PROVE TokenOnRecord(t)'
  BY <1>1, <1>2, TokensKept DEF Evolves
<1> QED
  BY <1>1, <1>3, <1>4 DEF Deposits, Credit

\* What /open does to the intent it was called for, whatever it answers.
LEMMA OpenEffect ==
  ASSUME TypeOK, Deposits, NEW s \in Sessions, ClaimOpen(s),
         NEW i \in Intents, i = claim[s].intent, NEW p \in Payments, p = claim[s].payment
  PROVE  /\ \A j \in Intents \ {i} : intent'[j] = intent[j]
         /\ Evolves(i)
         /\ \/ UNCHANGED consumed
            \/ consumed[p] = None /\ consumed' = [consumed EXCEPT ![p] = i]
         /\ Credit(i)'
         /\ intent[i].status = "consumed" /\ intent[i].exp > claim[s].at =>
              intent'[i].jti = intent[i].jti /\ intent'[i].exp = intent[i].exp
         /\ \/ UNCHANGED tokens
            \/ /\ intent'[i].status = "consumed"
               /\ tokens' \subseteq tokens \cup {[intent |-> i, jti |-> intent'[i].jti,
                                                 exp |-> intent'[i].exp]}
<1> DEFINE r == claim[s]
           w == WantedJti(s, r)
           x == WantedExp(r)
<1>0. /\ r.at \in Nat /\ w \in Sessions /\ x \in Nat
      /\ w # None /\ RenewalCap \in Nat /\ SessionTTL \in Nat /\ None \notin Intents
      /\ r.seen.created \in Nat /\ r.seen.exp \in Nat
  BY WantedTypes, LedgerConstants
<1>1. Credit(i) /\ ClaimsAgree(s)
  BY <1>0 DEF Deposits
<1>2. r.pc = "open" /\ Verified(r) /\ UNCHANGED <<paid, now>>
  BY DEF ClaimOpen
<1>3. x <= intent[i].created + RenewalCap
  <2>1. r.seen.created = intent[i].created
    BY <1>1, <1>2 DEF ClaimsAgree
  <2>2. LiveSession(r.seen, r.at) => r.seen.exp <= r.seen.created + RenewalCap
    BY <1>1, <1>2 DEF ClaimsAgree, LiveSession
  <2>3. CASE LiveSession(r.seen, r.at)
    BY <2>1, <2>2, <2>3 DEF WantedExp
  <2>4. CASE ~LiveSession(r.seen, r.at)
    BY <1>0, <2>1, <2>4 DEF WantedExp
  <2> QED
    BY <2>3, <2>4
<1>4. intent \in [Intents -> Intent] /\ intent[i] \in Intent /\ consumed \in [Payments -> Intents \cup {None}]
  BY <1>0, IntentFields DEF TypeOK, LedgerTypeOK
<1>5. tokens' = tokens \/ Grant(s, r)
  BY DEF ClaimOpen
<1>6. Grant(s, r) => tokens' \subseteq tokens \cup {[intent |-> i, jti |-> intent'[i].jti,
                                                     exp |-> intent'[i].exp]}
  BY DEF Grant
<1> HIDE DEF w, x
<1>7. CASE OpenRefused(i, p) /\ UNCHANGED ledger /\ UNCHANGED tokens
  BY <1>1, <1>2, <1>7 DEF ledger, Evolves, Credit
<1>8. CASE (OpenExpired(i, p, ConfirmedAt(r)) \/ OpenOverCap(i, p, ConfirmedAt(r))) /\ UNCHANGED tokens
  <2>1. /\ intent[i].status \in {"open", "expired"}
        /\ UNCHANGED consumed
        /\ \/ intent' = [intent EXCEPT ![i] = [@ EXCEPT !.status = "expired"]]
           \/ intent' = [intent EXCEPT ![i] = [@ EXCEPT !.status = "over_cap", !.payment = p]]
    BY <1>8 DEF OpenExpired, OpenOverCap, Claimable
  <2>2. /\ \A j \in Intents \ {i} : intent'[j] = intent[j]
        /\ intent'[i].status \in {"expired", "over_cap"}
        /\ intent'[i].jti = intent[i].jti
        /\ intent'[i].created = intent[i].created
    <3>1. CASE intent' = [intent EXCEPT ![i] = [@ EXCEPT !.status = "expired"]]
      BY <1>4, <3>1 DEF Intent
    <3>2. CASE intent' = [intent EXCEPT ![i] = [@ EXCEPT !.status = "over_cap", !.payment = p]]
      BY <1>4, <3>2 DEF Intent
    <3> QED
      BY <2>1, <3>1, <3>2
  <2> QED
    BY <1>1, <1>8, <2>1, <2>2 DEF Evolves, Credit
<1>9. CASE Reopen(i, p, r.at, w, x)
  <2>1. /\ intent[i].status = "consumed" /\ intent[i].payment = p
        /\ UNCHANGED consumed
        /\ \/ intent[i].exp <= r.at /\ intent' = [intent EXCEPT ![i] = [@ EXCEPT !.jti = w, !.exp = x]]
           \/ intent' = intent
    BY <1>9 DEF Reopen
  <2>2. CASE intent' = intent
    BY <1>1, <1>2, <1>5, <1>6, <2>1, <2>2 DEF Evolves, Credit
  <2>3. CASE intent[i].exp <= r.at /\ intent' = [intent EXCEPT ![i] = [@ EXCEPT !.jti = w, !.exp = x]]
    <3>1. /\ \A j \in Intents \ {i} : intent'[j] = intent[j]
          /\ intent'[i].status = intent[i].status
          /\ intent'[i].payment = intent[i].payment
          /\ intent'[i].created = intent[i].created
          /\ intent'[i].jti = w /\ intent'[i].exp = x
      BY <1>0, <1>4, <2>3 DEF Intent
    <3>2. Credit(i)'
      BY <1>0, <1>1, <1>2, <1>3, <2>1, <3>1 DEF Credit
    <3>3. ~(intent[i].exp > r.at)
      BY <1>0, <1>4, <2>3 DEF Intent
    <3> QED
      BY <1>5, <1>6, <2>1, <3>1, <3>2, <3>3 DEF Evolves
  <2> QED
    BY <2>1, <2>2, <2>3
<1>10. CASE OpenCredit(i, p, ConfirmedAt(r), w, x)
  <2>1. /\ intent[i].status \in {"open", "expired"} /\ consumed[p] = None
        /\ ConfirmedAt(r) <= intent[i].created + IntentTTL
        /\ consumed' = [consumed EXCEPT ![p] = i]
        /\ intent' = [intent EXCEPT ![i] = [@ EXCEPT !.status = "consumed", !.payment = p,
                                                     !.jti = w, !.exp = x]]
    BY <1>10 DEF OpenCredit, Claimable
  <2>2. ~ExactReplay(r)
    BY <1>1, <1>2, <2>1 DEF ExactReplay, ClaimsAgree
  <2>3. paid[p].intent = i /\ ConfirmedAt(r) = paid[p].at
    BY <1>2, <2>2 DEF Verified, ConfirmedAt
  <2>4. /\ \A j \in Intents \ {i} : intent'[j] = intent[j]
        /\ intent'[i].status = "consumed" /\ intent'[i].payment = p
        /\ intent'[i].created = intent[i].created
        /\ intent'[i].jti = w /\ intent'[i].exp = x
        /\ consumed'[p] = i
    BY <1>0, <1>4, <2>1 DEF Intent
  <2>5. Credit(i)'
    BY <1>0, <1>2, <1>3, <2>1, <2>3, <2>4 DEF Credit
  <2> QED
    BY <1>5, <1>6, <2>1, <2>4, <2>5 DEF Evolves
<1> QED
  BY <1>7, <1>8, <1>9, <1>10 DEF ClaimOpen, w, x

LEMMA OpenKeepsDeposits ==
  ASSUME TypeOK, TypeOK', Deposits, NEW s \in Sessions, ClaimOpen(s)
  PROVE  Deposits'
<1>i. PICK i \in Intents, p \in Payments : i = claim[s].intent /\ p = claim[s].payment
  BY WantedTypes
<1>0. /\ i \in Intents /\ p \in Payments /\ claim[s].at \in Nat /\ now \in Nat
      /\ None \notin Intents
      /\ UNCHANGED <<now, paid>>
  BY WantedTypes, LedgerConstants DEF TypeOK, Times, ClaimOpen
<1>1. /\ \A j \in Intents \ {i} : intent'[j] = intent[j]
      /\ Evolves(i)
      /\ \/ UNCHANGED consumed
         \/ consumed[p] = None /\ consumed' = [consumed EXCEPT ![p] = i]
      /\ Credit(i)'
      /\ intent[i].status = "consumed" /\ intent[i].exp > claim[s].at =>
           intent'[i].jti = intent[i].jti /\ intent'[i].exp = intent[i].exp
      /\ \/ UNCHANGED tokens
         \/ /\ intent'[i].status = "consumed"
            /\ tokens' \subseteq tokens \cup {[intent |-> i, jti |-> intent'[i].jti,
                                              exp |-> intent'[i].exp]}
  BY <1>i, OpenEffect
<1>2. \A j \in Intents : Evolves(j)
  BY <1>1 DEF Evolves
<1>3. ASSUME NEW j \in Intents PROVE Credit(j)'
  <2>1. CASE j = i
    BY <1>1, <2>1
  <2>2. CASE j # i
    <3>1. Credit(j)
      BY DEF Deposits
    <3>2. intent[j].status = "consumed" => /\ intent[j].payment \in Payments
                                            /\ consumed'[intent[j].payment] = consumed[intent[j].payment]
      BY <1>0, <1>1, <3>1 DEF Credit, TypeOK, LedgerTypeOK
    <3> QED
      BY <1>0, <1>1, <2>2, <3>1, <3>2 DEF Credit
  <2> QED
    BY <2>1, <2>2
<1>4. ASSUME NEW u \in Sessions PROVE ClaimsAgree(u)'
  <2>1. ClaimsAgree(u) /\ claim[s].pc = "open" /\ claim[s] \in Claim
    BY WantedTypes DEF Deposits, ClaimOpen
  <2>2. /\ claim'[u].intent = claim[u].intent /\ claim'[u].seen = claim[u].seen
        /\ claim'[u].at = claim[u].at
        /\ claim'[u].pc # "idle" => claim[u].pc # "idle"
    BY <2>1 DEF ClaimOpen, TypeOK, Claim
  <2>3. claim[u].pc # "idle" => claim[u].at <= now
    BY <2>1 DEF ClaimsAgree
  <2> QED
    BY <1>0, <1>2, <2>2, <2>3, ClaimsKept
<1>5. claim[s].at <= now
  BY DEF Deposits, ClaimsAgree, ClaimOpen
<1>6. ASSUME NEW t \in tokens PROVE TokenOnRecord(t)'
  <2>1. t.intent \in Intents /\ t.exp \in Nat
    BY DEF TypeOK, Token
  <2>2. TokenOnRecord(t)
    BY DEF Deposits
  <2>3. \/ t.exp <= now'
        \/ intent'[t.intent].jti = intent[t.intent].jti /\ intent'[t.intent].exp = intent[t.intent].exp
    <3>1. CASE t.intent # i
      BY <1>1, <2>1, <3>1
    <3>2. CASE t.intent = i /\ t.exp > now
      BY <1>0, <1>1, <1>5, <2>1, <2>2, <3>2 DEF TokenOnRecord
    <3> QED
      BY <1>0, <2>1, <3>1, <3>2
  <2> QED
    BY <1>0, <1>2, <2>1, <2>3, TokensKept
<1>7. ASSUME NEW t \in tokens', t \notin tokens PROVE TokenOnRecord(t)'
  <2>1. /\ t = [intent |-> i, jti |-> intent'[i].jti, exp |-> intent'[i].exp]
        /\ intent'[i].status = "consumed"
    BY <1>1, <1>7
  <2>2. intent'[i].exp <= intent'[i].created + RenewalCap
    BY <1>1, <2>1 DEF Credit
  <2> QED
    BY <2>1, <2>2 DEF TokenOnRecord
<1> QED
  BY <1>3, <1>4, <1>6, <1>7 DEF Deposits

LEMMA DepositsStep == TypeOK /\ TypeOK' /\ Deposits /\ [Next]_vars => Deposits'
<1> SUFFICES ASSUME TypeOK, TypeOK', Deposits, [Next]_vars PROVE Deposits'
  OBVIOUS
<1>1. CASE DepositStep
  BY <1>1, RequestKeepsDeposits, PayKeepsDeposits, ReadKeepsDeposits, OpenKeepsDeposits DEF DepositStep
<1>2. ASSUME NEW q \in Callers, CallStep(q) PROVE Deposits'
  <2>1. UNCHANGED <<intent, consumed, paid, claim, tokens, now>>
    BY <1>2 DEF CallStep, BeginCall, ReplayCall, Dispatch, DispatchThrows, RunUpstream, SettleCall,
         Die, Reserve, MarkDispatched, Settle, ledger, deposits
  <2> QED
    BY <2>1, DepositsKept
<1>3. CASE AlarmStep \/ UNCHANGED vars
  <2>1. UNCHANGED <<intent, consumed, paid, claim, tokens, now>>
    BY <1>3 DEF AlarmStep, Reap, AlarmEnd, deposits, vars
  <2> QED
    BY <2>1, DepositsKept
<1>4. CASE Tick
  BY <1>4, TickKeepsDeposits
<1> QED
  BY <1>1, <1>2, <1>3, <1>4 DEF Next

-----------------------------------------------------------------------------
(* Calls.                                                                  *)

\* The types of a request, the call it is about and that call's upstream runs.
LEMMA CallFields ==
  ASSUME TypeOK
  PROVE  /\ \A q \in Callers : /\ caller[q] \in Caller /\ caller[q].call \in CallIds
                               /\ caller[q].start \in Nat
         /\ \A c \in CallIds : /\ call[c] \in Call /\ call[c].at \in Nat /\ call[c].price \in Nat
                               /\ call[c].charged \in Nat
                               /\ upstream[c].runs \in Nat /\ upstream[c].paid \in Nat
         /\ now \in Nat
<1>1. /\ \A q \in Callers : caller[q] \in Caller
      /\ \A c \in CallIds : call[c] \in Call /\ upstream[c] \in [runs : Nat, paid : Nat]
  BY DEF TypeOK, LedgerTypeOK
<1>2. now \in Nat
  BY LedgerConstants DEF TypeOK, Times
<1> QED
  BY <1>1, <1>2 DEF Caller, Call

\* What every handler leaves alone of a call that exists.
Persists(c) == call[c].status # "none" => call'[c].status # "none" /\ call'[c].at = call[c].at

\* Requests are not disturbed by steps of others that start no new call.
LEMMA WorksKept ==
  ASSUME CallsAgree, NEW q \in Callers, caller[q].call \in CallIds,
         Active(q)' => caller'[q] = caller[q],
         \A c \in CallIds : Persists(c),
         Active(q)' => upstream'[caller[q].call] = upstream[caller[q].call],
         \A r \in Callers : Active(r)' => Active(r) /\ caller'[r].call = caller[r].call
  PROVE  Works(q)'
<1>1. Works(q)
  BY DEF CallsAgree
<1> QED
  BY <1>1 DEF Works, Active, Persists

LEMMA InitCalls == Init => CallsAgree /\ Healthy
<1> SUFFICES ASSUME Init PROVE CallsAgree /\ Healthy
  OBVIOUS
<1>1. \A q \in Callers : ~Active(q)
  BY DEF Init, Active
<1>2. \A c \in CallIds : upstream[c].runs = 0 /\ upstream[c].paid = 0 /\ call[c].charged = 0
  BY DEF Init, LedgerInit
<1> QED
  BY <1>1, <1>2 DEF CallsAgree, Healthy, Works, Ran, InTime, Marked

LEMMA BeginKeepsCalls ==
  ASSUME TypeOK, CallsAgree, NEW q \in Callers, NEW c \in CallIds, NEW a \in Accounts,
         NEW n \in Prices, NEW armed \in BOOLEAN, BeginCall(q, c, a, n, armed)
  PROVE  CallsAgree' /\ (Healthy => Healthy')
<1>1. /\ call[c].status = "none"
      /\ call' = [call EXCEPT ![c] = [@ EXCEPT !.status = "reserved", !.account = a,
                                               !.price = n, !.at = now]]
      /\ caller' = [caller EXCEPT ![q] = [pc |-> IF armed THEN "mark" ELSE "done",
                                          call |-> c, start |-> now]]
      /\ UNCHANGED <<upstream, now>>
  BY DEF BeginCall, Reserve
<1>2. /\ \A d \in CallIds \ {c} : call'[d] = call[d]
      /\ \A r \in Callers \ {q} : caller'[r] = caller[r]
      /\ caller'[q] = [pc |-> IF armed THEN "mark" ELSE "done", call |-> c, start |-> now]
  BY <1>1 DEF TypeOK, LedgerTypeOK
<1>3. call'[c].status = "reserved" /\ call'[c].at = now /\ call'[c].charged = call[c].charged
  BY <1>1, CallFields DEF Call, TypeOK, LedgerTypeOK
<1>4. \A r \in Callers : Active(r) => caller[r].call # c
  BY <1>1 DEF CallsAgree, Works
<1>5. upstream[c].runs = 0 /\ upstream[c].paid = 0
  BY <1>1, CallFields DEF CallsAgree, Ran
<1>6. \A d \in CallIds : Ran(d)'
  BY <1>1, <1>2, <1>3, <1>5 DEF CallsAgree, Ran
<1>7. Works(q)'
  BY <1>1, <1>2, <1>3, <1>4, <1>5 DEF Works, Active
<1>8. ASSUME NEW r \in Callers, r # q PROVE Works(r)'
  <2>1. Works(r) /\ caller[r].call \in CallIds
    BY CallFields DEF CallsAgree
  <2> QED
    BY <1>1, <1>2, <1>4, <1>8, <2>1 DEF Works, Active
<1>9. ASSUME HealthyCalls, Healthy, NEW r \in Callers PROVE InTime(r)'
  <2>1. CASE r = q
    BY <1>1, <1>2, <1>3, <2>1, CallFields, LedgerConstants DEF InTime, Active
  <2>2. CASE r # q
    <3>1. InTime(r) /\ caller[r].call \in CallIds
      BY <1>9, CallFields DEF Healthy
    <3> QED
      BY <1>1, <1>2, <1>4, <2>2, <3>1 DEF InTime, Active
  <2> QED
    BY <2>1, <2>2
<1>10. ASSUME HealthyCalls, Healthy, NEW d \in CallIds PROVE Marked(d)'
  <2>1. Marked(d)
    BY <1>10 DEF Healthy
  <2> QED
    BY <1>1, <1>2, <1>5, <2>1 DEF Marked
<1> QED
  BY <1>6, <1>7, <1>8, <1>9, <1>10 DEF CallsAgree, Healthy

\* Steps of a request that leave the ledger and the upstream alone.
LEMMA LeaveKeepsCalls ==
  ASSUME TypeOK, CallsAgree, NEW q \in Callers, Die(q) \/ \E c \in CallIds : ReplayCall(q, c)
  PROVE  CallsAgree' /\ (Healthy => Healthy')
<1>1. /\ UNCHANGED <<call, upstream, now>>
      /\ \A r \in Callers \ {q} : caller'[r] = caller[r]
      /\ caller'[q].pc = "done"
  BY CallFields DEF Die, ReplayCall, Go, ledger, TypeOK, Caller
<1>2. \A r \in Callers : Active(r)' => Active(r) /\ caller'[r] = caller[r]
  BY <1>1 DEF Active
<1>3. ASSUME NEW r \in Callers PROVE Works(r)'
  BY <1>1, <1>2, CallFields, WorksKept DEF Persists
<1>4. ASSUME HealthyCalls, Healthy, NEW r \in Callers PROVE InTime(r)'
  <2>1. InTime(r)
    BY <1>4 DEF Healthy
  <2> QED
    BY <1>1, <1>2, <2>1 DEF InTime
<1> QED
  BY <1>1, <1>3, <1>4 DEF CallsAgree, Healthy, Ran, Marked

LEMMA DispatchKeepsCalls ==
  ASSUME TypeOK, CallsAgree, NEW q \in Callers,
         Dispatch(q) \/ \E b \in BOOLEAN : DispatchThrows(q, b)
  PROVE  CallsAgree' /\ (Healthy => Healthy')
<1>c. PICK c \in CallIds : c = caller[q].call
  BY CallFields
<1>1. /\ caller[q].pc = "mark"
      /\ UNCHANGED <<upstream, now>>
  BY DEF Dispatch, DispatchThrows
<1>2. /\ \A r \in Callers \ {q} : caller'[r] = caller[r]
      /\ caller'[q].pc \in {"upstream", "abort"} /\ caller'[q].call = c
      /\ caller'[q].start = caller[q].start
  <2>1. \/ caller' = [caller EXCEPT ![q].pc = "upstream"]
        \/ caller' = [caller EXCEPT ![q].pc = "abort"]
    BY DEF Dispatch, DispatchThrows, Go
  <2> QED
    BY <1>c, <2>1, CallFields DEF TypeOK, Caller
<1>3. \A d \in CallIds : /\ call'[d].status = call[d].status /\ call'[d].at = call[d].at
                          /\ call'[d].charged = call[d].charged /\ call'[d].reaped = call[d].reaped
                          /\ call'[d].dispatched \in {call[d].dispatched, TRUE}
  <2>1. \/ call' = call
        \/ call' = [call EXCEPT ![c] = [@ EXCEPT !.dispatched = TRUE]]
    BY <1>c DEF Dispatch, DispatchThrows, MarkDispatched, ledger
  <2>2. CASE call' = call
    BY <2>2
  <2>3. CASE call' = [call EXCEPT ![c] = [@ EXCEPT !.dispatched = TRUE]]
    <3>1. call[c] \in Call /\ call \in [CallIds -> Call]
      BY DEF TypeOK, LedgerTypeOK
    <3> QED
      BY <2>3, <3>1 DEF Call
  <2> QED
    BY <2>1, <2>2, <2>3
<1>4. Active(q) /\ \A r \in Callers : Active(r)' => Active(r) /\ caller'[r].call = caller[r].call
  BY <1>c, <1>1, <1>2 DEF Active
<1>5. Works(q)'
  <2>1. Works(q)
    BY DEF CallsAgree
  <2> QED
    BY <1>c, <1>1, <1>2, <1>3, <1>4, <2>1 DEF Works
<1>6. ASSUME NEW r \in Callers, r # q PROVE Works(r)'
  BY <1>1, <1>2, <1>3, <1>4, <1>6, CallFields, WorksKept DEF Persists
<1>7. ASSUME HealthyCalls, Healthy, NEW r \in Callers PROVE InTime(r)'
  <2>1. InTime(r) /\ InTime(q)
    BY <1>7 DEF Healthy
  <2>2. CASE r # q
    BY <1>1, <1>2, <1>3, <2>1, <2>2, CallFields DEF InTime, Active
  <2>3. CASE r = q
    <3>1. call[c].status = "reserved" /\ now - caller[q].start < Lease
      BY <1>c, <1>4, <2>1 DEF InTime
    <3>2. caller'[q].pc = "upstream" => call'[c].dispatched
      <4>1. caller'[q].pc = "upstream" => Dispatch(q)
        BY CallFields DEF DispatchThrows, Go, TypeOK, Caller
      <4>2. Dispatch(q) => call' = [call EXCEPT ![c] = [@ EXCEPT !.dispatched = TRUE]]
        BY <1>c, <3>1 DEF Dispatch, MarkDispatched
      <4> QED
        BY <4>1, <4>2, CallFields DEF TypeOK, LedgerTypeOK, Call
    <3> QED
      BY <1>1, <1>2, <1>3, <2>3, <3>1, <3>2 DEF InTime
  <2> QED
    BY <2>2, <2>3
<1> QED
  BY <1>1, <1>3, <1>5, <1>6, <1>7 DEF CallsAgree, Healthy, Ran, Marked

LEMMA UpstreamKeepsCalls ==
  ASSUME TypeOK, CallsAgree, NEW q \in Callers, NEW b \in BOOLEAN, RunUpstream(q, b)
  PROVE  CallsAgree' /\ (Healthy => Healthy')
<1>c. PICK c \in CallIds : c = caller[q].call
  BY CallFields
<1>1. caller[q].pc = "upstream" /\ UNCHANGED <<call, now>> /\ Active(q) /\ Works(q)
  BY DEF RunUpstream, ledger, Active, CallsAgree
<1>2. /\ \A r \in Callers \ {q} : caller'[r] = caller[r]
      /\ caller'[q].pc = (IF b THEN "commit" ELSE "release") /\ caller'[q].call = c
      /\ caller'[q].start = caller[q].start
  BY <1>c, CallFields DEF RunUpstream, Go, TypeOK, Caller
<1>3. upstream[c].runs = 0 /\ upstream[c].paid = 0 /\ call[c].status # "none"
  BY <1>c, <1>1, CallFields DEF Works, CallsAgree, Ran
<1>4. /\ \A d \in CallIds \ {c} : upstream'[d] = upstream[d]
      /\ upstream'[c].runs = 1 /\ upstream'[c].paid = (IF b THEN 1 ELSE 0)
  BY <1>c, <1>3 DEF RunUpstream, TypeOK
<1>5. \A r \in Callers : Active(r)' => Active(r) /\ caller'[r].call = caller[r].call
  BY <1>c, <1>1, <1>2 DEF Active
<1>6. \A r \in Callers \ {q} : Active(r) => caller[r].call # c
  BY <1>c, <1>1 DEF Works
<1>7. Works(q)'
  BY <1>c, <1>1, <1>2, <1>4, <1>5 DEF Works
<1>8. ASSUME NEW r \in Callers, r # q PROVE Works(r)'
  BY <1>1, <1>2, <1>4, <1>5, <1>6, <1>8, CallFields, WorksKept DEF Persists
<1>9. ASSUME NEW d \in CallIds PROVE Ran(d)'
  <2>1. Ran(d)
    BY DEF CallsAgree
  <2> QED
    BY <1>1, <1>3, <1>4, <2>1, CallFields DEF Ran
<1>10. ASSUME HealthyCalls, Healthy, NEW r \in Callers PROVE InTime(r)'
  <2>1. InTime(r)
    BY <1>10 DEF Healthy
  <2> QED
    BY <1>c, <1>1, <1>2, <1>5, <2>1 DEF InTime
<1>11. ASSUME HealthyCalls, Healthy, NEW d \in CallIds PROVE Marked(d)'
  <2>1. Marked(d) /\ InTime(q)
    BY <1>11 DEF Healthy
  <2>2. CASE d # c
    BY <1>1, <1>4, <2>1, <2>2 DEF Marked
  <2>3. CASE d = c
    BY <1>c, <1>1, <2>1, <2>3 DEF Marked, InTime
  <2> QED
    BY <2>2, <2>3
<1> QED
  BY <1>7, <1>8, <1>9, <1>10, <1>11 DEF CallsAgree, Healthy

\* What settling does to the call.
LEMMA SettleEffect ==
  ASSUME TypeOK, NEW c \in CallIds, NEW action \in {"commit", "release"},
         Settle(c, action, call[c].price)
  PROVE  /\ \A d \in CallIds \ {c} : call'[d] = call[d]
         /\ \/ call'[c] = call[c] /\ call[c].status # "reserved"
            \/ /\ call[c].status = "reserved"
               /\ call'[c].status = (IF action = "commit" THEN "committed" ELSE "released")
               /\ call'[c].at = call[c].at
               /\ call'[c].reaped = call[c].reaped /\ call'[c].dispatched = call[c].dispatched
               /\ action = "release" => call'[c].charged = 0
<1>1. call \in [CallIds -> Call] /\ call[c] \in Call
  BY DEF TypeOK, LedgerTypeOK
<1>2. CASE call[c].status # "reserved"
  BY <1>2 DEF Settle, ledger
<1>3. CASE call[c].status = "reserved"
  <2> DEFINE charge == IF action = "commit" THEN Clamp(call[c].price, call[c].price) ELSE 0
  <2>1. call' = [call EXCEPT ![c] = [@ EXCEPT
                   !.status = IF action = "commit" THEN "committed" ELSE "released",
                   !.charged = charge]]
    BY <1>3 DEF Settle
  <2>2. action = "release" => charge = 0
    OBVIOUS
  <2> HIDE DEF charge
  <2> QED
    BY <1>1, <1>3, <2>1, <2>2 DEF Call
<1> QED
  BY <1>2, <1>3

LEMMA SettleKeepsCalls ==
  ASSUME TypeOK, CallsAgree, NEW q \in Callers, SettleCall(q)
  PROVE  CallsAgree' /\ (Healthy => Healthy')
<1>c. PICK c \in CallIds : c = caller[q].call
  BY CallFields
<1>a. PICK action \in {"commit", "release"} :
        action = IF caller[q].pc = "commit" THEN "commit" ELSE "release"
  OBVIOUS
<1>1. /\ caller[q].pc \in {"commit", "release", "abort"} /\ UNCHANGED <<upstream, now>>
      /\ Active(q) /\ Works(q) /\ Settle(c, action, call[c].price)
  BY <1>c, <1>a DEF SettleCall, Active, CallsAgree
<1>2. /\ \A r \in Callers \ {q} : caller'[r] = caller[r]
      /\ caller'[q].pc = "done"
  BY CallFields DEF SettleCall, Go, TypeOK, Caller
<1>3. /\ \A d \in CallIds \ {c} : call'[d] = call[d]
      /\ \/ call'[c] = call[c] /\ call[c].status # "reserved"
         \/ /\ call[c].status = "reserved"
            /\ call'[c].status = (IF action = "commit" THEN "committed" ELSE "released")
            /\ call'[c].at = call[c].at
            /\ call'[c].reaped = call[c].reaped /\ call'[c].dispatched = call[c].dispatched
            /\ action = "release" => call'[c].charged = 0
  BY <1>1, SettleEffect
<1>4. \A r \in Callers : Active(r)' => Active(r) /\ caller'[r] = caller[r]
  BY <1>1, <1>2 DEF Active
<1>5. ASSUME NEW r \in Callers PROVE Works(r)'
  <2>1. \A d \in CallIds : Persists(d)
    BY <1>3 DEF Persists
  <2> QED
    BY <1>1, <1>4, <2>1, CallFields, WorksKept
<1>6. action = "commit" => upstream[c].paid = 1
  BY <1>c, <1>a, <1>1 DEF Works
<1>7. action = "release" => upstream[c].paid = 0
  <2>1. upstream[c].paid <= upstream[c].runs
    BY DEF CallsAgree, Ran
  <2> QED
    BY <1>c, <1>a, <1>1, <2>1, CallFields DEF Works
<1>8. ASSUME NEW d \in CallIds PROVE Ran(d)'
  <2>1. Ran(d)
    BY DEF CallsAgree
  <2>2. call[c].status # "none"
    BY <1>c, <1>1 DEF Works
  <2> QED
    BY <1>1, <1>3, <1>6, <2>1, <2>2 DEF Ran
<1>9. ASSUME HealthyCalls, Healthy, NEW r \in Callers PROVE InTime(r)'
  <2>1. InTime(r)
    BY <1>9 DEF Healthy
  <2>2. Active(r)' => caller[r].call # c
    BY <1>c, <1>1, <1>2, <1>4 DEF Works, Active
  <2> QED
    BY <1>1, <1>3, <1>4, <2>1, <2>2, CallFields DEF InTime
<1>10. ASSUME HealthyCalls, Healthy, NEW d \in CallIds PROVE Marked(d)'
  <2>1. Marked(d)
    BY <1>10 DEF Healthy
  <2>2. CASE d # c
    BY <1>1, <1>3, <2>1, <2>2 DEF Marked
  <2>3. CASE d = c
    BY <1>1, <1>3, <1>6, <1>7, <2>1, <2>3 DEF Marked
  <2> QED
    BY <2>2, <2>3
<1> QED
  BY <1>5, <1>8, <1>9, <1>10 DEF CallsAgree, Healthy

LEMMA AlarmKeepsCalls ==
  ASSUME TypeOK, CallsAgree, AlarmStep
  PROVE  CallsAgree' /\ (Healthy => Healthy')
<1>1. UNCHANGED <<caller, upstream, now>> /\ \A r \in Callers : Active(r)' <=> Active(r)
  BY DEF AlarmStep, Active
<1>2. ASSUME NEW c \in CallIds, Reap(c, now) PROVE CallsAgree' /\ (Healthy => Healthy')
  <2>1. /\ call[c].status = "reserved" /\ now - call[c].at >= Lease
        /\ call' = [call EXCEPT ![c] = [@ EXCEPT !.status = "released", !.reaped = TRUE]]
    BY <1>2 DEF Reap, Stale
  <2>2. call \in [CallIds -> Call] /\ call[c] \in Call
    BY DEF TypeOK, LedgerTypeOK
  <2>3. /\ \A d \in CallIds \ {c} : call'[d] = call[d]
        /\ call'[c].status = "released" /\ call'[c].reaped = TRUE
        /\ call'[c].at = call[c].at /\ call'[c].charged = call[c].charged
        /\ call'[c].dispatched = call[c].dispatched
    BY <2>1, <2>2 DEF Call
  <2>4. ASSUME NEW r \in Callers PROVE Works(r)'
    <3>1. \A d \in CallIds : Persists(d)
      BY <2>3 DEF Persists
    <3> QED
      BY <1>1, <3>1, CallFields, WorksKept
  <2>5. ASSUME NEW d \in CallIds PROVE Ran(d)'
    BY <1>1, <2>1, <2>3 DEF CallsAgree, Ran
  <2>6. ASSUME HealthyCalls, Healthy, NEW r \in Callers PROVE InTime(r)'
    <3>1. InTime(r) /\ Works(r)
      BY <2>6 DEF Healthy, CallsAgree
    <3>2. Lease \in Nat
      BY LedgerConstants
    <3>3. Active(r) => caller[r].call # c
      BY <2>1, <3>1, <3>2, CallFields DEF InTime, Works
    <3> QED
      BY <1>1, <2>3, <3>1, <3>3, CallFields DEF InTime
  <2>7. ASSUME HealthyCalls, Healthy, NEW d \in CallIds PROVE Marked(d)'
    <3>1. Marked(d)
      BY <2>7 DEF Healthy
    <3> QED
      BY <1>1, <2>3, <3>1 DEF Marked
  <2> QED
    BY <2>4, <2>5, <2>6, <2>7 DEF CallsAgree, Healthy
<1>3. CASE AlarmEnd(now)
  <2>1. UNCHANGED call
    BY <1>3 DEF AlarmEnd
  <2> QED
    BY <1>1, <2>1 DEF CallsAgree, Healthy, Works, Ran, InTime, Marked, Active
<1> QED
  BY <1>2, <1>3 DEF AlarmStep

LEMMA TickKeepsCalls ==
  ASSUME TypeOK, CallsAgree, Tick
  PROVE  CallsAgree' /\ (Healthy => Healthy')
<1>1. UNCHANGED <<call, caller, upstream>> /\ now' = now + 1
  BY DEF Tick, ledger
<1>2. CallsAgree'
  BY <1>1 DEF CallsAgree, Works, Ran, Active
<1>3. ASSUME HealthyCalls, Healthy, NEW q \in Callers PROVE InTime(q)'
  <2>1. InTime(q)
    BY <1>3 DEF Healthy
  <2>2. Active(q) => now + 1 - caller[q].start < Lease
    BY <1>3 DEF Tick
  <2>3. Active(q)' <=> Active(q)
    BY <1>1 DEF Active
  <2>4. ASSUME Active(q) PROVE now' - caller'[q].start < Lease
    <3>1. caller'[q] = caller[q]
      BY <1>1
    <3>2. now + 1 - caller[q].start < Lease
      BY <2>2, <2>4
    <3>3. now \in Nat /\ caller[q].start \in Nat /\ Lease \in Nat
      BY CallFields, LedgerConstants
    <3>4. now' = now + 1 /\ caller'[q].start = caller[q].start
      BY <1>1, <3>1
    <3> QED
      BY ONLY <3>2, <3>3, <3>4
  <2> QED
    BY <1>1, <2>1, <2>3, <2>4 DEF InTime
<1> QED
  BY <1>1, <1>2, <1>3 DEF Healthy, Marked

LEMMA CallsStep == TypeOK /\ CallsAgree /\ Healthy /\ [Next]_vars => CallsAgree' /\ Healthy'
<1> SUFFICES ASSUME TypeOK, CallsAgree, Healthy, [Next]_vars PROVE CallsAgree' /\ Healthy'
  OBVIOUS
<1>1. CASE DepositStep \/ UNCHANGED vars
  <2>1. UNCHANGED <<call, caller, upstream, now>>
    BY <1>1 DEF DepositStep, RequestIntent, Pay, ClaimRead, ClaimClock, ClaimOpen, CreateIntent,
         Reopen, OpenCredit, OpenExpired, OpenOverCap, ledger, vars
  <2> QED
    BY <2>1 DEF CallsAgree, Healthy, Works, Ran, InTime, Marked, Active
<1>2. ASSUME NEW q \in Callers, CallStep(q) PROVE CallsAgree' /\ Healthy'
  BY <1>2, BeginKeepsCalls, LeaveKeepsCalls, DispatchKeepsCalls, UpstreamKeepsCalls, SettleKeepsCalls
     DEF CallStep
<1>3. CASE AlarmStep
  BY <1>3, AlarmKeepsCalls
<1>4. CASE Tick
  BY <1>4, TickKeepsCalls
<1> QED
  BY <1>1, <1>2, <1>3, <1>4 DEF Next

-----------------------------------------------------------------------------
(* The theorems.                                                           *)

LEMMA IInvHolds == Spec => []IInv
<1>1. Init => IInv
  BY InitTypes, InitDeposits, InitCalls DEF IInv
<1>2. IInv /\ [Next]_vars => IInv'
  BY TypeStep, DepositsStep, CallsStep DEF IInv
<1> QED
  BY <1>1, <1>2, PTL DEF Spec

\* Type correctness: no balance goes negative, and every token is for a session.
THEOREM TypeCorrect == Spec => []TypeOK
<1>1. IInv => TypeOK
  BY DEF IInv
<1> QED
  BY <1>1, IInvHolds, PTL

\* A payment is credited once, to its own intent and in time (open() in
\* ledger-do.ts behind the stale read of the route).
THEOREM CreditedOnceHolds == Spec => []CreditedOnce
<1>1. IInv => CreditedOnce
  BY DEF IInv, Deposits, Credit, CreditedOnce, CreditedIntents
<1> QED
  BY <1>1, IInvHolds, PTL

\* A deposit has one live session (handlePlaygroundOpen).
THEOREM OneLiveSessionHolds == Spec => []OneLiveSession
<1>1. IInv => OneLiveSession
  <2> SUFFICES ASSUME IInv PROVE OneLiveSession
    OBVIOUS
  <2>1. \A t \in tokens : t \in Token /\ TokenOnRecord(t)
    BY DEF IInv, Deposits, TypeOK
  <2>2. ASSUME NEW t \in tokens, NEW u \in tokens, t.intent = u.intent, t.exp > now, u.exp > now
        PROVE  t = u
    <3>1. t.jti = u.jti /\ t.exp = u.exp
      BY <2>1, <2>2 DEF TokenOnRecord
    <3> QED
      BY <2>1, <2>2, <3>1 DEF Token
  <2> QED
    BY <2>1, <2>2 DEF OneLiveSession, TokenOnRecord
<1> QED
  BY <1>1, IInvHolds, PTL

\* A charge needs an upstream payment, and a call id runs once (beginCall,
\* failCall).
THEOREM ChargedOnlyIfPaidHolds == Spec => []ChargedOnlyIfPaid
<1>1. IInv => ChargedOnlyIfPaid
  BY DEF IInv, CallsAgree, Ran, ChargedOnlyIfPaid
<1> QED
  BY <1>1, IInvHolds, PTL

\* While no request outlives its lease, a paid call that was released carries
\* the marks recon looks for (alarm, markDispatched).
THEOREM LossIsFlaggedHolds == ASSUME HealthyCalls PROVE Spec => []LossIsFlagged
<1>1. IInv => LossIsFlagged
  BY DEF IInv, Healthy, Marked, LossIsFlagged
<1> QED
  BY <1>1, IInvHolds, PTL

\* The ledger's records agree with what happened outside it, while no request
\* outlives its lease (ledger-do.ts).
THEOREM LedgerSaneHolds == ASSUME HealthyCalls PROVE Spec => []LedgerSane
BY TypeCorrect, OneLiveSessionHolds, LossIsFlaggedHolds, PTL DEF LedgerSane

LEMMA CreditsFinal ==
  ASSUME TypeOK, Deposits, [Next]_vars, NEW i \in Intents, intent[i].status = "consumed"
  PROVE  intent'[i].status = "consumed" /\ intent'[i].payment = intent[i].payment
<1>1. ASSUME NEW j \in Intents, NEW a \in Accounts, NEW n \in Amounts, RequestIntent(j, a, n)
      PROVE  intent'[i] = intent[i]
  <2>1. i # j /\ intent' = [intent EXCEPT ![j] = [@ EXCEPT !.status = "open", !.account = a,
                                                           !.amount = n, !.created = now]]
    BY <1>1 DEF RequestIntent, CreateIntent
  <2> QED
    BY <2>1 DEF TypeOK, LedgerTypeOK
<1>2. ASSUME NEW s \in Sessions, ClaimOpen(s)
      PROVE  Evolves(i)
  <2>1. PICK j \in Intents, p \in Payments : j = claim[s].intent /\ p = claim[s].payment
    BY WantedTypes
  <2>2. Evolves(j) /\ \A k \in Intents \ {j} : intent'[k] = intent[k]
    BY <1>2, <2>1, OpenEffect
  <2> QED
    BY <2>2 DEF Evolves
<1>4. ASSUME NEW q \in Callers, CallStep(q) PROVE UNCHANGED intent
  BY <1>4 DEF CallStep, BeginCall, ReplayCall, Dispatch, DispatchThrows, RunUpstream, SettleCall,
       Die, Reserve, MarkDispatched, Settle, ledger, deposits
<1>5. CASE AlarmStep \/ Tick \/ UNCHANGED vars
  BY <1>5 DEF AlarmStep, Reap, AlarmEnd, Tick, ledger, deposits, vars
<1>6. CASE DepositStep
  <2>2. ASSUME NEW s \in Sessions, ClaimClock(s) PROVE UNCHANGED intent
    BY <2>2 DEF ClaimClock, ledger
  <2>3. ASSUME NEW j \in Intents, NEW p \in Payments, Pay(p, j) PROVE UNCHANGED intent
    BY <2>3 DEF Pay, ledger
  <2>4. ASSUME NEW s \in Sessions, NEW j \in Intents, NEW p \in Payments, ClaimRead(s, j, p)
        PROVE  UNCHANGED intent
    BY <2>4 DEF ClaimRead, ledger
  <2> QED
    BY <1>1, <1>2, <1>6, <2>2, <2>3, <2>4 DEF DepositStep, Evolves
<1> QED
  BY <1>4, <1>5, <1>6 DEF Next

LEMMA SettlementsFinal ==
  ASSUME TypeOK, [Next]_vars, NEW c \in CallIds, call[c].status \in {"committed", "released"}
  PROVE  call'[c] = call[c]
<1>0. call \in [CallIds -> Call]
  BY DEF TypeOK, LedgerTypeOK
<1>1. ASSUME NEW q \in Callers, NEW d \in CallIds, NEW a \in Accounts, NEW n \in Prices,
             NEW armed \in BOOLEAN, BeginCall(q, d, a, n, armed)
      PROVE  call'[c] = call[c]
  <2>1. c # d /\ call' = [call EXCEPT ![d] = [@ EXCEPT !.status = "reserved", !.account = a,
                                                       !.price = n, !.at = now]]
    BY <1>1 DEF BeginCall, Reserve
  <2> QED
    BY <1>0, <2>1
<1>2. ASSUME NEW d \in CallIds, MarkDispatched(d) PROVE call'[c] = call[c]
  <2>1. \/ UNCHANGED call
        \/ c # d /\ call' = [call EXCEPT ![d] = [@ EXCEPT !.dispatched = TRUE]]
    BY <1>2 DEF MarkDispatched
  <2> QED
    BY <1>0, <2>1
<1>3. ASSUME NEW q \in Callers, Dispatch(q) \/ \E b \in BOOLEAN : DispatchThrows(q, b)
      PROVE  call'[c] = call[c]
  <2>1. PICK d \in CallIds : d = caller[q].call
    BY CallFields
  <2>2. MarkDispatched(d) \/ UNCHANGED call
    BY <1>3, <2>1 DEF Dispatch, DispatchThrows, ledger
  <2> QED
    BY <1>2, <2>2
<1>4. ASSUME NEW q \in Callers, SettleCall(q) PROVE call'[c] = call[c]
  <2>1. PICK d \in CallIds : d = caller[q].call
    BY CallFields
  <2>2. PICK action \in {"commit", "release"} : Settle(d, action, call[d].price)
    BY <1>4, <2>1 DEF SettleCall
  <2> QED
    BY <2>2, SettleEffect
<1>5. ASSUME NEW d \in CallIds, Reap(d, now) PROVE call'[c] = call[c]
  <2>1. c # d /\ call' = [call EXCEPT ![d] = [@ EXCEPT !.status = "released", !.reaped = TRUE]]
    BY <1>5 DEF Reap, Stale
  <2> QED
    BY <1>0, <2>1
<1>6. ASSUME NEW q \in Callers, CallStep(q) PROVE call'[c] = call[c]
  <2>1. ASSUME NEW d \in CallIds, ReplayCall(q, d) PROVE UNCHANGED call
    BY <2>1 DEF ReplayCall, ledger
  <2>2. ASSUME NEW b \in BOOLEAN, RunUpstream(q, b) PROVE UNCHANGED call
    BY <2>2 DEF RunUpstream, ledger
  <2>3. CASE Die(q)
    BY <2>3 DEF Die, ledger
  <2> QED
    BY <1>1, <1>3, <1>4, <1>6, <2>1, <2>2, <2>3 DEF CallStep
<1>7. CASE AlarmStep
  BY <1>5, <1>7 DEF AlarmStep, AlarmEnd
<1>8. CASE DepositStep \/ Tick \/ UNCHANGED vars
  BY <1>8 DEF DepositStep, RequestIntent, Pay, ClaimRead, ClaimClock, ClaimOpen, CreateIntent,
       Reopen, OpenCredit, OpenExpired, OpenOverCap, Tick, ledger, vars
<1> QED
  BY <1>6, <1>7, <1>8 DEF Next

\* Settled calls and credited intents are final, also when the reaper and a
\* slow request settle the same call (settle, alarm, open).
THEOREM SettledIsFinalHolds == Spec => SettledIsFinal
<1>1. IInv /\ [Next]_vars => [SettlementStands]_vars
  BY CreditsFinal, SettlementsFinal DEF IInv, CreditedIntents, SettlementStands
<1> QED
  BY <1>1, IInvHolds, PTL DEF Spec, SettledIsFinal

-----------------------------------------------------------------------------
(* Sums over finite sets.  The induction is over sets of subsets, by the   *)
(* well-foundedness of strict inclusion.                                   *)

\* Induction over the subsets of a finite set, for a set G of good ones.
LEMMA SubsetInduction ==
  ASSUME NEW S, IsFiniteSet(S), NEW G,
         \A T \in SUBSET S : (\A U \in SUBSET T : U # T => U \in G) => T \in G
  PROVE  SUBSET S \subseteq G
<1> DEFINE Bad == (SUBSET S) \ G
<1>1. SUFFICES ASSUME Bad # {} PROVE FALSE
  OBVIOUS
<1>2. IsWellFoundedOn(StrictSubsetOrdering(S), SUBSET S)
  BY FS_StrictSubsetOrderingWellFounded, FS_FiniteSubsetsOfFinite
<1>3. PICK T \in Bad : \A U \in Bad : <<U, T>> \notin StrictSubsetOrdering(S)
  <2> HIDE DEF Bad
  <2>1. Bad \subseteq SUBSET S
    BY DEF Bad
  <2> QED
    BY <1>1, <1>2, <2>1, WFMin
<1>4. ASSUME NEW U \in SUBSET T, U # T PROVE U \in G
  BY <1>3, <1>4 DEF StrictSubsetOrdering
<1> QED
  BY <1>3, <1>4

\* The element a sum is continued with, and the function it is computed by.
Pick(T) == CHOOSE x \in T : TRUE

LEMMA PickIn == ASSUME NEW T, T # {} PROVE Pick(T) \in T
BY DEF Pick

Sums(f, S, g) == g = [T \in SUBSET S |-> IF T = {} THEN 0 ELSE f[Pick(T)] + g[T \ {Pick(T)}]]

LEMMA SumUnfolds ==
  ASSUME NEW f, NEW S
  PROVE  SumFunctionOnSet(f, S) = (CHOOSE g : Sums(f, S, g))[S]
BY DEF SumFunctionOnSet, FoldFunctionOnSet, MapThenFoldSet, Sums, Pick

\* Two such functions agree where both are defined.
LEMMA SumsAgree ==
  ASSUME NEW f, NEW S, NEW T, IsFiniteSet(S), NEW g, NEW h, Sums(f, S, g), Sums(f, T, h),
         NEW U \in SUBSET S, U \in SUBSET T
  PROVE  g[U] = h[U]
<1> DEFINE G == {V \in SUBSET U : g[V] = h[V]}
<1>0. IsFiniteSet(U)
  BY FS_Subset
<1>1. ASSUME NEW V \in SUBSET U, \A W \in SUBSET V : W # V => W \in G
      PROVE  V \in G
  <2>1. CASE V = {}
    BY <2>1 DEF Sums
  <2>2. CASE V # {}
    <3>1. Pick(V) \in V
      BY <2>2, PickIn
    <3>2. V \ {Pick(V)} \in G
      BY <1>1, <3>1
    <3>3. g[V] = f[Pick(V)] + g[V \ {Pick(V)}] /\ h[V] = f[Pick(V)] + h[V \ {Pick(V)}]
      BY <2>2 DEF Sums
    <3> QED
      BY <3>2, <3>3
  <2> QED
    BY <2>1, <2>2
<1> HIDE DEF G
<1>2. SUBSET U \subseteq G
  BY <1>0, <1>1, SubsetInduction
<1> QED
  BY <1>2 DEF G

\* There is one, by induction over the subsets.
LEMMA SumsExist ==
  ASSUME NEW f, NEW S, IsFiniteSet(S)
  PROVE  \E g : Sums(f, S, g)
<1> DEFINE Sol(T) == CHOOSE g : Sums(f, T, g)
           G == {T \in SUBSET S : \E g : Sums(f, T, g)}
<1>1. ASSUME NEW T \in SUBSET S, \A U \in SUBSET T : U # T => U \in G
      PROVE  T \in G
  <2> DEFINE R == T \ {Pick(T)}
             k == [U \in SUBSET T |-> IF U = T THEN IF T = {} THEN 0 ELSE f[Pick(T)] + Sol(R)[R]
                                      ELSE Sol(U)[U]]
  <2>1. ASSUME NEW U \in SUBSET T, U # T PROVE Sums(f, U, Sol(U))
    BY <1>1, <2>1
  <2>2. ASSUME NEW U \in SUBSET T, U # {}
        PROVE  k[U] = f[Pick(U)] + k[U \ {Pick(U)}]
    <3> DEFINE V == U \ {Pick(U)}
    <3>1. Pick(U) \in U
      BY <2>2, PickIn
    <3>2. V \in SUBSET T /\ V # T /\ V \in SUBSET U /\ V # U
      BY <3>1
    <3>3. k[V] = Sol(V)[V]
      BY <3>2
    <3>4. CASE U = T
      BY <2>2, <3>2, <3>3, <3>4
    <3>5. CASE U # T
      <4>1. Sums(f, U, Sol(U)) /\ Sums(f, V, Sol(V))
        BY <2>1, <3>2, <3>5
      <4>2. Sol(U)[U] = f[Pick(U)] + Sol(U)[V]
        <5> HIDE DEF Sol
        <5> QED
          BY <2>2, <4>1 DEF Sums
      <4>3. IsFiniteSet(U)
        BY FS_Subset
      <4>4. Sol(U)[V] = Sol(V)[V]
        <5> HIDE DEF Sol, V
        <5> QED
          BY <3>2, <4>1, <4>3, SumsAgree
      <4>5. k[U] = Sol(U)[U]
        BY <3>5
      <4> QED
        BY <3>3, <4>2, <4>4, <4>5
    <3> QED
      BY <3>4, <3>5
  <2>3. ASSUME {} \in SUBSET T PROVE k[{}] = 0
    <3>1. CASE T = {}
      BY <3>1
    <3>2. CASE T # {}
      <4>1. Sums(f, {}, Sol({}))
        BY <2>1, <3>2
      <4>2. Sol({})[{}] = 0
        <5> HIDE DEF Sol
        <5> QED
          BY <4>1 DEF Sums
      <4> QED
        BY <3>2, <4>2
    <3> QED
      BY <3>1, <3>2
  <2>4. k = [U \in SUBSET T |-> k[U]]
    OBVIOUS
  <2> HIDE DEF k
  <2>5. Sums(f, T, k)
    <3>1. ASSUME NEW U \in SUBSET T
          PROVE  k[U] = IF U = {} THEN 0 ELSE f[Pick(U)] + k[U \ {Pick(U)}]
      BY <2>2, <2>3
    <3> QED
      BY <2>4, <3>1 DEF Sums
  <2> QED
    BY <2>5
<1> HIDE DEF G
<1>2. SUBSET S \subseteq G
  BY <1>1, SubsetInduction
<1> QED
  BY <1>2 DEF G

\* One step of the computation.
LEMMA SumRow ==
  ASSUME NEW f, NEW S, IsFiniteSet(S)
  PROVE  /\ SumFunctionOnSet(f, {}) = 0
         /\ S # {} => SumFunctionOnSet(f, S) = f[Pick(S)] + SumFunctionOnSet(f, S \ {Pick(S)})
<1> DEFINE Sol(T) == CHOOSE g : Sums(f, T, g)
<1>1. ASSUME NEW T, IsFiniteSet(T)
      PROVE  Sums(f, T, Sol(T)) /\ SumFunctionOnSet(f, T) = Sol(T)[T]
  BY <1>1, SumsExist, SumUnfolds
<1> HIDE DEF Sol
<1>2. SumFunctionOnSet(f, {}) = 0
  <2>1. IsFiniteSet({})
    BY FS_EmptySet
  <2> QED
    BY <1>1, <2>1 DEF Sums
<1>3. ASSUME S # {} 
      PROVE SumFunctionOnSet(f, S) = f[Pick(S)] + SumFunctionOnSet(f, S \ {Pick(S)})
  <2> DEFINE R == S \ {Pick(S)}
  <2>1. R \in SUBSET S /\ IsFiniteSet(R)
    BY FS_Subset
  <2>2. Sol(S)[S] = f[Pick(S)] + Sol(S)[R]
    BY <1>1, <1>3 DEF Sums
  <2>3. Sums(f, S, Sol(S)) /\ Sums(f, R, Sol(R)) /\ R \in SUBSET R
    BY <1>1, <2>1
  <2>4. Sol(S)[R] = Sol(R)[R]
    <3> HIDE DEF R
    <3> QED
      BY <2>1, <2>3, SumsAgree
  <2> QED
    BY <1>1, <2>1, <2>2, <2>4
<1> QED
  BY <1>2, <1>3

\* The sum of natural numbers is one.
LEMMA SumIsNat ==
  ASSUME NEW f, NEW S, IsFiniteSet(S), \A x \in S : f[x] \in Nat
  PROVE  SumFunctionOnSet(f, S) \in Nat
<1> DEFINE G == {T \in SUBSET S : SumFunctionOnSet(f, T) \in Nat}
<1>1. ASSUME NEW T \in SUBSET S, \A U \in SUBSET T : U # T => U \in G
      PROVE  T \in G
  <2>0. IsFiniteSet(T)
    BY FS_Subset
  <2>1. CASE T = {}
    <3>1. SumFunctionOnSet(f, T) = 0
      BY <2>0, <2>1, SumRow
    <3> QED
      BY <3>1
  <2>2. CASE T # {}
    <3>1. Pick(T) \in T
      BY <2>2, PickIn
    <3>2. T \ {Pick(T)} \in G
      BY <1>1, <3>1
    <3>3. SumFunctionOnSet(f, T) = f[Pick(T)] + SumFunctionOnSet(f, T \ {Pick(T)})
      BY <2>0, <2>2, SumRow
    <3> QED
      BY <3>1, <3>2, <3>3
  <2> QED
    BY <2>1, <2>2
<1> HIDE DEF G
<1>2. SUBSET S \subseteq G
  BY <1>1, SubsetInduction
<1> QED
  BY <1>2 DEF G

\* An element can be taken out of a sum, whichever it is.
LEMMA SumSplits ==
  ASSUME NEW f, NEW S, IsFiniteSet(S), \A x \in S : f[x] \in Nat, NEW y \in S
  PROVE  SumFunctionOnSet(f, S) = f[y] + SumFunctionOnSet(f, S \ {y})
<1> DEFINE G == {T \in SUBSET S : \A x \in T : SumFunctionOnSet(f, T) = f[x] + SumFunctionOnSet(f, T \ {x})}
<1>1. ASSUME NEW T \in SUBSET S, \A U \in SUBSET T : U # T => U \in G
      PROVE  T \in G
  <2> SUFFICES ASSUME NEW x \in T
               PROVE  SumFunctionOnSet(f, T) = f[x] + SumFunctionOnSet(f, T \ {x})
    OBVIOUS
  <2>0. IsFiniteSet(T)
    BY FS_Subset
  <2> DEFINE p == Pick(T)
             B == T \ {p, x}
  <2>1. p \in T /\ SumFunctionOnSet(f, T) = f[p] + SumFunctionOnSet(f, T \ {p})
    BY <2>0, SumRow, PickIn
  <2> HIDE DEF p
  <2>2. CASE p = x
    BY <2>1, <2>2
  <2>3. CASE p # x
    <3>1. (T \ {p}) \ {x} = B /\ (T \ {x}) \ {p} = B
      BY <2>3
    <3>2. T \ {p} \in G /\ T \ {x} \in G /\ x \in T \ {p} /\ p \in T \ {x}
      BY <1>1, <2>1, <2>3
    <3>3. SumFunctionOnSet(f, T \ {p}) = f[x] + SumFunctionOnSet(f, B)
      BY <3>1, <3>2
    <3>4. SumFunctionOnSet(f, T \ {x}) = f[p] + SumFunctionOnSet(f, B)
      BY <3>1, <3>2
    <3>5. B \in SUBSET S /\ IsFiniteSet(B)
      BY <2>0, FS_Subset
    <3> HIDE DEF B, G
    <3>6. SumFunctionOnSet(f, B) \in Nat
      BY <3>5, SumIsNat
    <3>7. f[p] \in Nat /\ f[x] \in Nat
      BY <2>1
    <3> QED
      BY <2>1, <3>3, <3>4, <3>6, <3>7
  <2> QED
    BY <2>2, <2>3
<1> HIDE DEF G
<1>2. SUBSET S \subseteq G
  BY <1>1, SubsetInduction
<1> QED
  BY <1>2 DEF G

\* Only the summed values matter.
LEMMA SumSame ==
  ASSUME NEW f, NEW g, NEW S, IsFiniteSet(S), \A x \in S : f[x] = g[x]
  PROVE  SumFunctionOnSet(f, S) = SumFunctionOnSet(g, S)
<1> DEFINE G == {T \in SUBSET S : SumFunctionOnSet(f, T) = SumFunctionOnSet(g, T)}
<1>1. ASSUME NEW T \in SUBSET S, \A U \in SUBSET T : U # T => U \in G
      PROVE  T \in G
  <2>0. IsFiniteSet(T)
    BY FS_Subset
  <2>1. CASE T = {}
    BY <2>0, <2>1, SumRow
  <2>2. CASE T # {}
    <3>1. Pick(T) \in T
      BY <2>2, PickIn
    <3>2. T \ {Pick(T)} \in G
      BY <1>1, <3>1
    <3>3. /\ SumFunctionOnSet(f, T) = f[Pick(T)] + SumFunctionOnSet(f, T \ {Pick(T)})
          /\ SumFunctionOnSet(g, T) = g[Pick(T)] + SumFunctionOnSet(g, T \ {Pick(T)})
      BY <2>0, <2>2, SumRow
    <3> QED
      BY <3>1, <3>2, <3>3
  <2> QED
    BY <2>1, <2>2
<1> HIDE DEF G
<1>2. SUBSET S \subseteq G
  BY <1>1, SubsetInduction
<1> QED
  BY <1>2 DEF G

\* A change of one summand changes the sum by as much.
LEMMA SumChanges ==
  ASSUME NEW f, NEW g, NEW S, IsFiniteSet(S), \A x \in S : f[x] \in Nat /\ g[x] \in Nat,
         NEW y \in S, \A x \in S \ {y} : f[x] = g[x]
  PROVE  SumFunctionOnSet(g, S) = SumFunctionOnSet(f, S) - f[y] + g[y]
<1> DEFINE R == S \ {y}
<1>1. IsFiniteSet(R)
  BY FS_Subset
<1>2. SumFunctionOnSet(f, R) = SumFunctionOnSet(g, R)
  BY <1>1, SumSame
<1>3. SumFunctionOnSet(f, S) = f[y] + SumFunctionOnSet(f, R)
  BY SumSplits
<1>4. SumFunctionOnSet(g, S) = g[y] + SumFunctionOnSet(g, R)
  BY SumSplits
<1>5. SumFunctionOnSet(f, R) \in Nat
  BY <1>1, SumIsNat
<1> QED
  BY <1>2, <1>3, <1>4, <1>5

LEMMA SumOfZeros ==
  ASSUME NEW f, NEW S, IsFiniteSet(S), \A x \in S : f[x] = 0
  PROVE  SumFunctionOnSet(f, S) = 0
<1> DEFINE G == {T \in SUBSET S : SumFunctionOnSet(f, T) = 0}
<1>1. ASSUME NEW T \in SUBSET S, \A U \in SUBSET T : U # T => U \in G
      PROVE  T \in G
  <2>0. IsFiniteSet(T)
    BY FS_Subset
  <2>1. CASE T = {}
    BY <2>0, <2>1, SumRow
  <2>2. CASE T # {}
    <3>1. Pick(T) \in T
      BY <2>2, PickIn
    <3>2. T \ {Pick(T)} \in G
      BY <1>1, <3>1
    <3>3. SumFunctionOnSet(f, T) = f[Pick(T)] + SumFunctionOnSet(f, T \ {Pick(T)})
      BY <2>0, <2>2, SumRow
    <3> QED
      BY <3>1, <3>2, <3>3
  <2> QED
    BY <2>1, <2>2
<1> HIDE DEF G
<1>2. SUBSET S \subseteq G
  BY <1>1, SubsetInduction
<1> QED
  BY <1>2 DEF G

-----------------------------------------------------------------------------
(* The books.                                                              *)

\* Days are counted from the epoch and are no longer than one tick.
LEMMA DayInTimes == ASSUME NEW t \in Times PROVE Day(t) \in Times
BY LedgerConstants DEF Times, Day

LEMMA AmountType ==
  ASSUME TypeOK
  PROVE  /\ \A i \in Intents : Amount[i] = intent[i].amount /\ Amount[i] \in Nat
         /\ \A a \in Accounts : balance[a] \in Nat
         /\ \A c \in CallIds : Held[c] \in Nat
         /\ IsFiniteSet(CreditedIntents) /\ CreditedIntents \subseteq Intents
         /\ \A a \in Accounts, d \in Times : /\ IsFiniteSet(CreditedOn(a, d))
                                             /\ CreditedOn(a, d) \subseteq CreditedIntents
<1>1. \A i \in Intents : Amount[i] = intent[i].amount /\ Amount[i] \in Nat
  BY DEF TypeOK, LedgerTypeOK, Intent, Amount
<1>2. \A c \in CallIds : Held[c] \in Nat
  BY DEF TypeOK, LedgerTypeOK, Call, Held
<1>3. CreditedIntents \subseteq Intents /\ IsFiniteSet(CreditedIntents)
  <2>1. CreditedIntents \subseteq Intents
    BY DEF CreditedIntents
  <2> QED
    BY <2>1, PlaygroundConstants, FS_Subset
<1>4. ASSUME NEW a \in Accounts, NEW d \in Times
      PROVE  IsFiniteSet(CreditedOn(a, d)) /\ CreditedOn(a, d) \subseteq CreditedIntents
  <2>1. CreditedOn(a, d) \subseteq CreditedIntents
    BY DEF CreditedOn
  <2> QED
    BY <1>3, <2>1, FS_Subset
<1> QED
  BY <1>1, <1>2, <1>3, <1>4 DEF TypeOK, LedgerTypeOK

\* Steps that credit nothing.
Uncredited == /\ \A i \in Intents :
                   /\ intent'[i].status = "consumed" <=> intent[i].status = "consumed"
                   /\ intent[i].status = "consumed" =>
                        /\ intent'[i].amount = intent[i].amount
                        /\ intent'[i].account = intent[i].account
                        /\ intent'[i].payment = intent[i].payment
                        /\ paid'[intent[i].payment] = paid[intent[i].payment]
              /\ UNCHANGED <<credited, deposited>>

LEMMA CreditKept ==
  ASSUME TypeOK, TypeOK', CreditBooks, Uncredited
  PROVE  CreditBooks'
<1>1. CreditedIntents' = CreditedIntents
  BY DEF CreditedIntents, Uncredited
<1>2. ASSUME NEW i \in CreditedIntents PROVE Amount'[i] = Amount[i]
  BY AmountType DEF CreditedIntents, Uncredited, Amount
<1>3. SumFunctionOnSet(Amount', CreditedIntents) = SumFunctionOnSet(Amount, CreditedIntents)
  BY <1>2, AmountType, SumSame
<1>4. ASSUME NEW a \in Accounts, NEW d \in Times PROVE DayTally(a, d)'
  <2>1. CreditedOn(a, d)' = CreditedOn(a, d)
    BY <1>1 DEF CreditedOn, CreditedIntents, Uncredited
  <2>2. SumFunctionOnSet(Amount', CreditedOn(a, d)) = SumFunctionOnSet(Amount, CreditedOn(a, d))
    <3>1. IsFiniteSet(CreditedOn(a, d)) /\ \A i \in CreditedOn(a, d) : Amount'[i] = Amount[i]
      BY <1>2, AmountType
    <3> QED
      BY <3>1, SumSame
  <2>3. DayTally(a, d)
    BY DEF CreditBooks
  <2> QED
    BY <2>1, <2>2, <2>3 DEF DayTally, Uncredited
<1> QED
  BY <1>1, <1>3, <1>4 DEF CreditBooks, Uncredited

\* What an account and a call hold moves by as much as the outstanding credit.
LEMMA HoldsMove ==
  ASSUME TypeOK, TypeOK', HoldBooks, NEW a \in Accounts, NEW c \in CallIds,
         \A b \in Accounts \ {a} : balance'[b] = balance[b],
         \A d \in CallIds \ {c} : Held'[d] = Held[d],
         outstanding' = outstanding + (balance'[a] - balance[a]) + (Held'[c] - Held[c])
  PROVE  HoldBooks'
<1>0. /\ \A b \in Accounts : balance[b] \in Nat /\ balance'[b] \in Nat
      /\ \A d \in CallIds : Held[d] \in Nat
  BY AmountType DEF TypeOK, LedgerTypeOK
<1>1. \A d \in CallIds : Held'[d] \in Nat
  BY DEF TypeOK, LedgerTypeOK, Call, Held
<1>2. SumFunctionOnSet(balance', Accounts) = SumFunctionOnSet(balance, Accounts) - balance[a] + balance'[a]
  BY <1>0, PlaygroundConstants, SumChanges
<1>3. SumFunctionOnSet(Held', CallIds) = SumFunctionOnSet(Held, CallIds) - Held[c] + Held'[c]
  BY <1>0, <1>1, PlaygroundConstants, SumChanges
<1>4. SumFunctionOnSet(balance, Accounts) \in Nat /\ SumFunctionOnSet(Held, CallIds) \in Nat
  BY <1>0, PlaygroundConstants, SumIsNat
<1>5. balance[a] \in Nat /\ balance'[a] \in Nat /\ Held[c] \in Nat /\ Held'[c] \in Nat
  BY <1>0, <1>1
<1> QED
  BY <1>2, <1>3, <1>4, <1>5 DEF HoldBooks

LEMMA HoldsKept ==
  ASSUME TypeOK, HoldBooks, UNCHANGED <<balance, outstanding>>,
         \A c \in CallIds : Held'[c] = Held[c]
  PROVE  HoldBooks'
<1>1. SumFunctionOnSet(Held', CallIds) = SumFunctionOnSet(Held, CallIds)
  BY PlaygroundConstants, SumSame
<1> QED
  BY <1>1 DEF HoldBooks

\* What stays as it is for a step that credits nothing and holds nothing.
LEMMA BooksKept ==
  ASSUME TypeOK, TypeOK', Books, Uncredited, UNCHANGED <<balance, committed, outstanding>>,
         \A c \in CallIds : Held'[c] = Held[c]
  PROVE  Books'
BY CreditKept, HoldsKept DEF Books, Uncredited

LEMMA CreditBalances ==
  ASSUME TypeOK, TypeOK', Deposits, Books, NEW i \in Intents, NEW p \in Payments, NEW jti, NEW exp,
         OpenCredit(i, p, paid[p].at, jti, exp), UNCHANGED paid
  PROVE  Books'
<1> DEFINE n == intent[i].amount
           a == intent[i].account
           k == Day(paid[p].at)
<1>0. /\ n \in Nat /\ a \in Accounts /\ i \notin CreditedIntents
      /\ credited \in Nat /\ outstanding \in Int /\ committed \in Nat
      /\ deposited[a] \in [Times -> Nat]
  BY DEF TypeOK, LedgerTypeOK, Intent, OpenCredit, Claimable, CreditedIntents
<1>1. /\ \A j \in Intents \ {i} : intent'[j] = intent[j]
      /\ intent'[i].status = "consumed" /\ intent'[i].amount = n
      /\ intent'[i].account = a /\ intent'[i].payment = p
  <2>1. intent' = [intent EXCEPT ![i] = [@ EXCEPT !.status = "consumed", !.payment = p,
                                                  !.jti = jti, !.exp = exp]]
    BY DEF OpenCredit
  <2> QED
    BY <2>1 DEF TypeOK, LedgerTypeOK, Intent
<1>2. CreditedIntents' = CreditedIntents \cup {i}
  BY <1>1 DEF CreditedIntents
<1>3. /\ \A j \in Intents : Amount'[j] = Amount[j] /\ Amount[j] \in Nat /\ Amount'[j] \in Nat
      /\ Amount[i] = n
  BY <1>1, AmountType DEF Amount
<1>4. ASSUME NEW T \in SUBSET CreditedIntents
      PROVE  /\ SumFunctionOnSet(Amount', T) = SumFunctionOnSet(Amount, T)
             /\ SumFunctionOnSet(Amount', T \cup {i}) = SumFunctionOnSet(Amount, T) + n
             /\ SumFunctionOnSet(Amount, T) \in Nat
  <2>0. IsFiniteSet(T) /\ T \subseteq Intents /\ i \notin T
    BY <1>0, AmountType, FS_Subset
  <2>1. SumFunctionOnSet(Amount', T) = SumFunctionOnSet(Amount, T)
    BY <1>3, <2>0, SumSame
  <2>2. SumFunctionOnSet(Amount, T) \in Nat
    BY <1>3, <2>0, SumIsNat
  <2>3. IsFiniteSet(T \cup {i}) /\ i \in T \cup {i} /\ (T \cup {i}) \ {i} = T
    BY <2>0, FS_AddElement
  <2>4. SumFunctionOnSet(Amount', T \cup {i}) = Amount'[i] + SumFunctionOnSet(Amount', (T \cup {i}) \ {i})
    <3>1. \A j \in T \cup {i} : Amount'[j] \in Nat
      BY <1>3, <2>0
    <3> QED
      BY <2>3, <3>1, SumSplits
  <2>5. SumFunctionOnSet(Amount', T \cup {i}) = Amount'[i] + SumFunctionOnSet(Amount', T)
    BY <2>3, <2>4
  <2>6. Amount'[i] = n
    BY <1>3
  <2> QED
    BY <1>0, <2>1, <2>2, <2>5, <2>6
<1>5. credited' = SumFunctionOnSet(Amount, CreditedIntents) + n
  BY DEF OpenCredit, Books, CreditBooks
<1>6. credited' = SumFunctionOnSet(Amount', CreditedIntents')
  BY <1>2, <1>4, <1>5
<1>7. ASSUME NEW b \in Accounts, NEW d \in Times PROVE DayTally(b, d)'
  <2>0. DayTally(b, d) /\ CreditedOn(b, d) \in SUBSET CreditedIntents
    BY AmountType DEF Books, CreditBooks
  <2>1. \A j \in CreditedIntents : intent'[j] = intent[j]
    BY <1>0, <1>1 DEF CreditedIntents
  <2>2. deposited' = [deposited EXCEPT ![a][k] = @ + n]
    BY DEF OpenCredit
  <2>3. CASE b = a /\ d = k
    <3>1. CreditedOn(b, d)' = CreditedOn(b, d) \cup {i}
      BY <1>0, <1>1, <1>2, <2>1, <2>3 DEF CreditedOn
    <3>2. deposited'[b][d] = deposited[b][d] + n
      BY <1>0, <2>2, <2>3 DEF TypeOK, LedgerTypeOK
    <3>3. deposited[b][d] + n <= DayCap
      BY <1>0, <2>3, LedgerConstants DEF OpenCredit, OverCap
    <3> QED
      BY <1>4, <2>0, <3>1, <3>2, <3>3 DEF DayTally
  <2>4. CASE ~(b = a /\ d = k)
    <3>1. CreditedOn(b, d)' = CreditedOn(b, d)
      BY <1>0, <1>1, <1>2, <2>1, <2>4 DEF CreditedOn
    <3>2. deposited'[b][d] = deposited[b][d]
      BY <1>0, <2>2, <2>4 DEF TypeOK, LedgerTypeOK
    <3> QED
      BY <1>4, <2>0, <3>1, <3>2 DEF DayTally
  <2> QED
    BY <2>3, <2>4
<1>8. HoldBooks'
  <2>1. SumFunctionOnSet(balance', Accounts) = SumFunctionOnSet(balance, Accounts) - balance[a] + balance'[a]
    <3>1. \A b \in Accounts \ {a} : balance[b] = balance'[b]
      BY <1>0 DEF OpenCredit, TypeOK, LedgerTypeOK
    <3>2. \A b \in Accounts : balance[b] \in Nat /\ balance'[b] \in Nat
      BY DEF TypeOK, LedgerTypeOK
    <3> QED
      BY <1>0, <3>1, <3>2, PlaygroundConstants, SumChanges
  <2>2. balance'[a] = balance[a] + n /\ balance[a] \in Nat
    BY <1>0 DEF OpenCredit, TypeOK, LedgerTypeOK
  <2>3. /\ SumFunctionOnSet(balance, Accounts) \in Nat /\ SumFunctionOnSet(Held, CallIds) \in Nat
    BY AmountType, PlaygroundConstants, SumIsNat
  <2>4. Held' = Held
    BY DEF OpenCredit, Held
  <2>5. outstanding' = outstanding + n
    BY DEF OpenCredit
  <2> QED
    BY <1>0, <2>1, <2>2, <2>3, <2>4, <2>5 DEF HoldBooks, Books
<1>9. outstanding' <= GlobalCap /\ credited' = committed' + outstanding'
  <2>1. /\ credited' = credited + n /\ outstanding' = outstanding + n /\ committed' = committed
        /\ ~(outstanding + n > GlobalCap)
    BY DEF OpenCredit, OverCap
  <2> QED
    BY <1>0, <2>1, LedgerConstants DEF Books
<1> QED
  BY <1>6, <1>7, <1>8, <1>9 DEF Books, CreditBooks

\* /open: what a claim credits was paid on the day it is counted for.
LEMMA OpenBalances ==
  ASSUME TypeOK, TypeOK', Deposits, Books, NEW s \in Sessions, ClaimOpen(s)
  PROVE  Books'
<1> DEFINE r == claim[s]
<1>1. r.intent \in Intents /\ r.payment \in Payments /\ r.pc = "open"
  BY WantedTypes DEF ClaimOpen
<1>2. PICK i \in Intents, p \in Payments : i = r.intent /\ p = r.payment
  BY <1>1
<1>3. UNCHANGED paid
  BY DEF ClaimOpen
<1>4. ASSUME OpenCredit(i, p, ConfirmedAt(r), WantedJti(s, r), WantedExp(r)) PROVE Books'
  <2>1. intent[i].status # "consumed"
    BY <1>4 DEF OpenCredit, Claimable
  <2>2. ConfirmedAt(r) = paid[p].at
    BY <1>1, <1>2, <2>1 DEF Deposits, ClaimsAgree, ConfirmedAt, ExactReplay
  <2> QED
    BY <1>3, <1>4, <2>2, CreditBalances
<1>5. ASSUME \/ Reopen(i, p, r.at, WantedJti(s, r), WantedExp(r))
             \/ OpenExpired(i, p, ConfirmedAt(r)) \/ OpenOverCap(i, p, ConfirmedAt(r))
             \/ UNCHANGED ledger
      PROVE  Books'
  <2>0. intent \in [Intents -> Intent]
    BY DEF TypeOK, LedgerTypeOK
  <2>1. \A j \in Intents \ {i} : intent'[j] = intent[j]
    BY <1>5, <2>0 DEF Reopen, OpenExpired, OpenOverCap, ledger
  <2>2. /\ intent'[i].status = "consumed" <=> intent[i].status = "consumed"
        /\ intent[i].status = "consumed" => /\ intent'[i].amount = intent[i].amount
                                            /\ intent'[i].account = intent[i].account
                                            /\ intent'[i].payment = intent[i].payment
    <3>1. CASE Reopen(i, p, r.at, WantedJti(s, r), WantedExp(r))
      <4>1. \/ intent' = intent
            \/ intent' = [intent EXCEPT ![i] = [@ EXCEPT !.jti = WantedJti(s, r), !.exp = WantedExp(r)]]
        BY <3>1 DEF Reopen
      <4> QED
        BY <2>0, <4>1 DEF Intent
    <3>2. CASE OpenExpired(i, p, ConfirmedAt(r))
      <4>1. /\ intent[i].status # "consumed"
            /\ intent' = [intent EXCEPT ![i] = [@ EXCEPT !.status = "expired"]]
        BY <3>2 DEF OpenExpired, Claimable
      <4> QED
        BY <2>0, <4>1 DEF Intent
    <3>3. CASE OpenOverCap(i, p, ConfirmedAt(r))
      <4>1. /\ intent[i].status # "consumed"
            /\ intent' = [intent EXCEPT ![i] = [@ EXCEPT !.status = "over_cap", !.payment = p]]
        BY <3>3 DEF OpenOverCap, Claimable
      <4> QED
        BY <2>0, <4>1 DEF Intent
    <3>4. CASE UNCHANGED ledger
      BY <3>4 DEF ledger
    <3> QED
      BY <1>5, <3>1, <3>2, <3>3, <3>4
  <2>3. UNCHANGED <<credited, deposited, balance, committed, outstanding, call>>
    BY <1>5 DEF Reopen, OpenExpired, OpenOverCap, ledger, totals
  <2>4. Uncredited
    BY <1>3, <2>1, <2>2, <2>3 DEF Uncredited
  <2>5. Held' = Held
    BY <2>3 DEF Held
  <2> QED
    BY <2>3, <2>4, <2>5, BooksKept
<1> QED
  BY <1>2, <1>4, <1>5 DEF ClaimOpen

LEMMA ReserveBalances ==
  ASSUME TypeOK, TypeOK', Books, NEW c \in CallIds, NEW a \in Accounts, NEW n \in Nat, NEW t, NEW armed,
         Reserve(c, a, n, t, armed), UNCHANGED paid
  PROVE  Books'
<1>0. call \in [CallIds -> Call] /\ balance \in [Accounts -> Nat] /\ outstanding \in Int
  BY DEF TypeOK, LedgerTypeOK
<1>1. Uncredited
  BY DEF Reserve, Uncredited, deposits, totals
<1>2. /\ call[c].status = "none"
      /\ call' = [call EXCEPT ![c] = [@ EXCEPT !.status = "reserved", !.account = a, !.price = n, !.at = t]]
      /\ balance' = [balance EXCEPT ![a] = @ - n]
      /\ UNCHANGED <<committed, outstanding>>
  BY DEF Reserve, totals
<1>3. call'[c].status = "reserved" /\ call'[c].price = n
  BY <1>0, <1>2 DEF Call
<1>4. \A d \in CallIds \ {c} : Held'[d] = Held[d]
  BY <1>0, <1>2 DEF Held
<1>5. Held[c] = 0 /\ Held'[c] = n
  BY <1>2, <1>3 DEF Held
<1>6. balance'[a] = balance[a] - n /\ \A b \in Accounts \ {a} : balance'[b] = balance[b]
  BY <1>0, <1>2
<1>7. outstanding' = outstanding + (balance'[a] - balance[a]) + (Held'[c] - Held[c])
  BY <1>0, <1>2, <1>5, <1>6
<1>8. HoldBooks'
  BY <1>4, <1>6, <1>7, HoldsMove DEF Books
<1> QED
  BY <1>1, <1>2, <1>8, CreditKept DEF Books, Uncredited

\* A hold that ends, charged or given back.
LEMMA HoldEnds ==
  ASSUME TypeOK, TypeOK', Books, NEW c \in CallIds, NEW charge \in Nat, call[c].status = "reserved",
         \A d \in CallIds \ {c} : call'[d] = call[d], call'[c].status # "reserved",
         NEW a \in Accounts, a = call[c].account,
         balance'[a] = balance[a] + (call[c].price - charge),
         \A b \in Accounts \ {a} : balance'[b] = balance[b],
         committed' = committed + charge, outstanding' = outstanding - charge, Uncredited
  PROVE  Books'
<1>0. /\ call[c].price \in Nat
      /\ balance \in [Accounts -> Nat] /\ outstanding \in Int /\ committed \in Nat /\ credited \in Nat
  BY DEF TypeOK, LedgerTypeOK, Call
<1>1. Held[c] = call[c].price /\ Held'[c] = 0 /\ \A d \in CallIds \ {c} : Held'[d] = Held[d]
  BY DEF Held
<1>2. outstanding' = outstanding + (balance'[a] - balance[a]) + (Held'[c] - Held[c])
  BY <1>0, <1>1
<1>4. HoldBooks'
  BY <1>1, <1>2, HoldsMove DEF Books
<1>5. outstanding' <= GlobalCap /\ credited' = committed' + outstanding'
  BY <1>0, LedgerConstants DEF Books, Uncredited
<1> QED
  BY <1>4, <1>5, CreditKept DEF Books

LEMMA SettleBalances ==
  ASSUME TypeOK, TypeOK', Books, NEW c \in CallIds, NEW action \in {"commit", "release"},
         Settle(c, action, call[c].price), UNCHANGED paid
  PROVE  Books'
<1>0. call[c].price \in Nat
  BY CallFields
<1>1. CASE call[c].status # "reserved"
  <2>1. UNCHANGED ledger
    BY <1>1 DEF Settle
  <2> QED
    BY <2>1, BooksKept DEF ledger, Uncredited, Held
<1>2. CASE call[c].status = "reserved"
  <2> DEFINE charge == IF action = "commit" THEN Clamp(call[c].price, call[c].price) ELSE 0
  <2>1. charge \in Nat
    BY <1>0 DEF Clamp
  <2>2. /\ balance' = [balance EXCEPT ![call[c].account] = @ + (call[c].price - charge)]
        /\ committed' = committed + charge /\ outstanding' = outstanding - charge
        /\ UNCHANGED <<deposits, credited>>
    BY <1>2 DEF Settle
  <2>3. /\ \A d \in CallIds \ {c} : call'[d] = call[d]
        /\ call'[c].status # "reserved"
    BY <1>2, SettleEffect
  <2>4. Uncredited
    BY <2>2 DEF deposits, Uncredited
  <2> HIDE DEF charge
  <2>5. PICK a \in Accounts : a = call[c].account
    BY DEF TypeOK, LedgerTypeOK, Call
  <2>6. /\ balance'[a] = balance[a] + (call[c].price - charge)
        /\ \A b \in Accounts \ {a} : balance'[b] = balance[b]
    BY <2>2, <2>5 DEF TypeOK, LedgerTypeOK
  <2> QED
    BY <1>2, <2>1, <2>2, <2>3, <2>4, <2>5, <2>6, HoldEnds
<1> QED
  BY <1>1, <1>2

LEMMA ReapBalances ==
  ASSUME TypeOK, TypeOK', Books, NEW c \in CallIds, Reap(c, now), UNCHANGED paid
  PROVE  Books'
<1>0. call \in [CallIds -> Call] /\ call[c].price \in Nat /\ call[c].account \in Accounts
      /\ balance \in [Accounts -> Nat] /\ committed \in Nat /\ outstanding \in Int
  BY DEF TypeOK, LedgerTypeOK, Call
<1>1. /\ call[c].status = "reserved"
      /\ call' = [call EXCEPT ![c] = [@ EXCEPT !.status = "released", !.reaped = TRUE]]
      /\ balance' = [balance EXCEPT ![call[c].account] = @ + call[c].price]
      /\ UNCHANGED <<deposits, totals>>
  BY DEF Reap, Stale
<1>2. call'[c].status # "reserved" /\ \A d \in CallIds \ {c} : call'[d] = call[d]
  BY <1>0, <1>1 DEF Call
<1>3. PICK a \in Accounts : a = call[c].account
  BY <1>0
<1>4. /\ balance'[a] = balance[a] + (call[c].price - 0)
      /\ \A b \in Accounts \ {a} : balance'[b] = balance[b]
  BY <1>0, <1>1, <1>3
<1>5. committed' = committed + 0 /\ outstanding' = outstanding - 0
  BY <1>0, <1>1 DEF totals
<1>6. Uncredited
  BY <1>1 DEF deposits, totals, Uncredited
<1> QED
  BY <1>1, <1>2, <1>3, <1>4, <1>5, <1>6, HoldEnds

LEMMA BooksStep == TypeOK /\ TypeOK' /\ Deposits /\ Books /\ [Next]_vars => Books'
<1> SUFFICES ASSUME TypeOK, TypeOK', Deposits, Books, [Next]_vars PROVE Books'
  OBVIOUS
<1>0. /\ intent \in [Intents -> Intent] /\ call \in [CallIds -> Call]
      /\ paid \in [Payments -> Payment]
  BY DEF TypeOK, LedgerTypeOK
<1>1. ASSUME NEW i \in Intents, NEW a \in Accounts, NEW n \in Amounts, RequestIntent(i, a, n)
      PROVE  Books'
  <2>1. /\ intent[i].status = "none"
        /\ intent' = [intent EXCEPT ![i] = [@ EXCEPT !.status = "open", !.account = a,
                                                     !.amount = n, !.created = now]]
        /\ UNCHANGED <<deposited, balance, totals, call, paid>>
    BY <1>1 DEF RequestIntent, CreateIntent
  <2>2. intent'[i].status = "open" /\ \A j \in Intents \ {i} : intent'[j] = intent[j]
    BY <1>0, <2>1 DEF Intent
  <2>3. Uncredited
    BY <2>1, <2>2 DEF Uncredited, totals
  <2> QED
    BY <2>1, <2>3, BooksKept DEF totals, Held
<1>2. ASSUME NEW p \in Payments, NEW i \in Intents, Pay(p, i) PROVE Books'
  <2>1. paid[p].intent = None /\ paid' = [paid EXCEPT ![p] = [intent |-> i, at |-> now]] /\ UNCHANGED ledger
    BY <1>2 DEF Pay
  <2>2. ASSUME NEW j \in Intents, intent[j].status = "consumed"
        PROVE  paid'[intent[j].payment] = paid[intent[j].payment]
    <3>1. intent[j].payment \in Payments /\ paid[intent[j].payment].intent = j
      BY <2>2 DEF Deposits, Credit
    <3>2. intent[j].payment # p
      BY <2>1, <3>1, LedgerConstants
    <3> QED
      BY <1>0, <2>1, <3>1, <3>2
  <2>3. Uncredited
    BY <2>1, <2>2 DEF Uncredited, ledger
  <2> QED
    BY <2>1, <2>3, BooksKept DEF ledger, Held
<1>3. ASSUME NEW q \in Callers, CallStep(q) PROVE Books'
  <2>0. UNCHANGED paid
    BY <1>3 DEF CallStep, BeginCall, ReplayCall, Dispatch, DispatchThrows, RunUpstream, SettleCall, Die
  <2>1. ASSUME NEW c \in CallIds, NEW a \in Accounts, NEW n \in Prices, NEW armed \in BOOLEAN,
               BeginCall(q, c, a, n, armed)
        PROVE  Books'
    <3>1. n \in Nat /\ Reserve(c, a, n, now, armed)
      BY <2>1, PlaygroundConstants DEF BeginCall
    <3> QED
      BY <2>0, <3>1, ReserveBalances
  <2>2. ASSUME NEW c \in CallIds, MarkDispatched(c) PROVE Books'
    <3>1. Uncredited /\ UNCHANGED <<balance, committed, outstanding>>
      BY <2>0, <2>2 DEF MarkDispatched, deposits, totals, Uncredited
    <3>2. \/ UNCHANGED call
          \/ call' = [call EXCEPT ![c] = [@ EXCEPT !.dispatched = TRUE]]
      BY <2>2 DEF MarkDispatched
    <3>3. \A d \in CallIds : call'[d].status = call[d].status /\ call'[d].price = call[d].price
      BY <1>0, <3>2 DEF Call
    <3>4. \A d \in CallIds : Held'[d] = Held[d]
      BY <3>3 DEF Held
    <3> QED
      BY <3>1, <3>4, BooksKept
  <2>3. CASE UNCHANGED ledger
    BY <2>0, <2>3, BooksKept DEF ledger, Uncredited, Held
  <2>4. CASE SettleCall(q)
    <3>1. PICK d \in CallIds : d = caller[q].call
      BY CallFields
    <3>2. PICK action \in {"commit", "release"} : Settle(d, action, call[d].price)
      BY <2>4, <3>1 DEF SettleCall
    <3> QED
      BY <2>0, <3>2, SettleBalances
  <2>5. ASSUME Dispatch(q) \/ \E b \in BOOLEAN : DispatchThrows(q, b) PROVE Books'
    <3>1. PICK d \in CallIds : d = caller[q].call
      BY CallFields
    <3>2. MarkDispatched(d) \/ UNCHANGED ledger
      BY <2>5, <3>1 DEF Dispatch, DispatchThrows
    <3> QED
      BY <2>2, <2>3, <3>2
  <2>6. ASSUME Die(q) \/ (\E c \in CallIds : ReplayCall(q, c)) \/ \E b \in BOOLEAN : RunUpstream(q, b)
        PROVE  UNCHANGED ledger
    BY <2>6 DEF Die, ReplayCall, RunUpstream
  <2> QED
    BY <1>3, <2>1, <2>3, <2>4, <2>5, <2>6 DEF CallStep
<1>4. CASE AlarmStep
  <2>1. UNCHANGED paid
    BY <1>4 DEF AlarmStep
  <2>2. CASE AlarmEnd(now)
    BY <2>1, <2>2, BooksKept DEF AlarmEnd, deposits, totals, Uncredited, Held
  <2> QED
    BY <1>4, <2>1, <2>2, ReapBalances DEF AlarmStep
<1>5. CASE Tick \/ UNCHANGED vars
  <2>1. UNCHANGED <<ledger, paid>>
    BY <1>5 DEF Tick, vars, ledger
  <2> QED
    BY <2>1, BooksKept DEF ledger, Uncredited, Held
<1>6. ASSUME NEW s \in Sessions, ClaimClock(s) \/ \E i \in Intents, p \in Payments : ClaimRead(s, i, p)
      PROVE  Books'
  <2>1. UNCHANGED <<ledger, paid>>
    BY <1>6 DEF ClaimClock, ClaimRead
  <2> QED
    BY <2>1, BooksKept DEF ledger, Uncredited, Held
<1> QED
  BY <1>1, <1>2, <1>3, <1>4, <1>5, <1>6, OpenBalances DEF Next, DepositStep

LEMMA InitBooks == Init => Books
<1> SUFFICES ASSUME Init PROVE Books
  OBVIOUS
<1>0. TypeOK
  BY InitTypes
<1>1. CreditedIntents = {}
  BY DEF Init, LedgerInit, CreditedIntents
<1>2. \A f : SumFunctionOnSet(f, {}) = 0
  BY FS_EmptySet, SumRow
<1>3. \A a \in Accounts, d \in Times : CreditedOn(a, d) = {} /\ deposited[a][d] = 0
  BY <1>1 DEF CreditedOn, Init, LedgerInit
<1>4. CreditBooks
  <2>1. credited = 0
    BY DEF Init, LedgerInit
  <2>2. ASSUME NEW a \in Accounts, NEW d \in Times PROVE DayTally(a, d)
    BY <1>2, <1>3, LedgerConstants DEF DayTally
  <2> QED
    BY <1>1, <1>2, <2>1, <2>2 DEF CreditBooks
<1>6. SumFunctionOnSet(balance, Accounts) = 0
  BY PlaygroundConstants, SumOfZeros DEF Init, LedgerInit
<1>7. SumFunctionOnSet(Held, CallIds) = 0
  BY PlaygroundConstants, SumOfZeros DEF Init, LedgerInit, Held
<1> QED
  BY <1>4, <1>6, <1>7, LedgerConstants DEF Books, HoldBooks, Init, LedgerInit

\* The money in the ledger is backed and bounded, whichever claims, calls and
\* reaps overlap and whichever of them die (open, reserve, settle, alarm).
THEOREM SpendLimitedHolds == Spec => []SpendLimited
<1>1. IInv /\ Books => SpendLimited
  <2> SUFFICES ASSUME IInv, Books PROVE SpendLimited
    OBVIOUS
  <2>1. ASSUME NEW a \in Accounts, NEW d \in {Day(t) : t \in Times}
        PROVE  SumFunctionOnSet(Amount, CreditedOn(a, d)) <= DayCap
    <3>1. d \in Times
      BY DayInTimes
    <3> QED
      BY <3>1 DEF Books, CreditBooks, DayTally
  <2> QED
    BY <2>1 DEF Books, CreditBooks, HoldBooks, Solvent, CapsHold, SpendLimited
<1>2. Init => Books
  BY InitBooks
<1>3. IInv /\ IInv' /\ Books /\ [Next]_vars => Books'
  BY BooksStep DEF IInv
<1> QED
  BY <1>1, <1>2, <1>3, IInvHolds, PTL DEF Spec
=============================================================================
