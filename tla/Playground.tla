----------------------------- MODULE Playground -----------------------------
(***************************************************************************)
(* The prepaid playground (routes/playground.ts) on top of its ledger: a   *)
(* user asks for a deposit intent, pays it on chain, claims the payment    *)
(* for a session, and makes paid calls.                                    *)
(*                                                                         *)
(* A claim reads the intent, reads the clock, looks the payment up on      *)
(* Horizon and then opens the intent; a call holds its price, marks itself *)
(* dispatched, runs the upstream call and settles.  Requests overlap       *)
(* freely, may use the same intent, payment or call id, and a Worker may   *)
(* die at any step (a claim that dies just takes no further step).         *)
(***************************************************************************)
EXTENDS PlaygroundLedger, FiniteSets, Functions

CONSTANTS Callers,        \* requests to a call endpoint
          Amounts,        \* DEPOSIT_OPTIONS_USD
          Prices,         \* flat prices of the call endpoints
          HealthyCalls    \* no request outlives the reaper's lease

ASSUME PlaygroundConstants == /\ Amounts \subseteq Nat \ {0}
                              /\ Prices \subseteq Nat \ {0}
                              /\ HealthyCalls \in BOOLEAN
                              /\ IsFiniteSet(Accounts) /\ IsFiniteSet(Intents)
                              /\ IsFiniteSet(CallIds)

VARIABLES now,
          paid,       \* paid[p]: the intent whose memo payment p carries, and when it confirmed
          claim,      \* claim[s]: the request to session/open whose fresh jti is s
          tokens,     \* session tokens handed out
          caller,     \* caller[q]: a request to a call endpoint
          upstream    \* upstream[c]: how often call c was run upstream, and paid for

vars == <<intent, consumed, openCount, minted, deposited, balance, credited, committed,
          outstanding, call, alarm, now, paid, claim, tokens, caller, upstream>>

Payment == [intent : Intents \cup {None}, at : Nat]
Claim  == [pc : {"idle", "read", "open", "done"}, intent : Intents, payment : Payments,
           seen : Intent, at : Nat]
Token  == [intent : Intents, jti : Sessions, exp : Nat]
Caller == [pc : {"idle", "mark", "abort", "upstream", "commit", "release", "done"},
           call : CallIds, start : Nat]

Init == /\ LedgerInit
        /\ now = 0
        /\ paid = [p \in Payments |-> [intent |-> None, at |-> 0]]
        /\ \E i \in Intents, p \in Payments :
             claim = [s \in Sessions |-> [pc |-> "idle", intent |-> i, payment |-> p,
                                          seen |-> intent[i], at |-> 0]]
        /\ tokens = {}
        /\ \E c \in CallIds : caller = [q \in Callers |-> [pc |-> "idle", call |-> c, start |-> 0]]
        /\ upstream = [c \in CallIds |-> [runs |-> 0, paid |-> 0]]

-----------------------------------------------------------------------------
(* Deposits and sessions.                                                  *)

\* POST session/intent, for an account that passed the checks.
RequestIntent(i, a, amount) ==
    /\ CreateIntent(i, a, amount, now)
    /\ UNCHANGED <<now, paid, claim, tokens, caller, upstream>>

\* The user pays the quoted amount with the intent's memo, perhaps late,
\* perhaps twice.
Pay(p, i) ==
    /\ paid[p].intent = None
    /\ intent[i].status # "none"
    /\ paid' = [paid EXCEPT ![p] = [intent |-> i, at |-> now]]
    /\ UNCHANGED <<ledger, now, claim, tokens, caller, upstream>>

\* POST session/open: getIntent ...
ClaimRead(s, i, p) ==
    /\ claim[s].pc = "idle"
    /\ intent[i].status # "none"
    /\ claim' = [claim EXCEPT ![s] = [pc |-> "read", intent |-> i, payment |-> p,
                                      seen |-> intent[i], at |-> 0]]
    /\ UNCHANGED <<ledger, now, paid, tokens, caller, upstream>>

\* ... the clock; a session too old to renew is refused ...
LiveSession(seen, t) == seen.jti # None /\ seen.exp > t
ClaimClock(s) ==
    /\ claim[s].pc = "read"
    /\ \/ claim[s].seen.jti = None
       \/ LiveSession(claim[s].seen, now)
       \/ now <= claim[s].seen.created + RenewalCap
    /\ claim' = [claim EXCEPT ![s].pc = "open", ![s].at = now]
    /\ UNCHANGED <<ledger, now, paid, tokens, caller, upstream>>

\* ... verifyDeposit, unless the intent was read as credited from this payment ...
ExactReplay(r) == r.seen.status = "consumed" /\ r.seen.payment = r.payment
Verified(r)    == ExactReplay(r) \/ paid[r.payment].intent = r.intent
\* Faulty: the expiry is judged by another time than the payment's.
ConfirmedAtCreation(r) == r.seen.created
ConfirmedAt(r) == IF ExactReplay(r) THEN r.seen.created ELSE paid[r.payment].at

\* ... the session to ask for: the one that was read while it lives, or a new
\* one that ends with the renewal window ...
WantedJti(s, r) == IF LiveSession(r.seen, r.at) THEN r.seen.jti ELSE s
WantedExp(r)    == IF LiveSession(r.seen, r.at) THEN r.seen.exp
                   ELSE IF r.at + SessionTTL < r.seen.created + RenewalCap
                        THEN r.at + SessionTTL ELSE r.seen.created + RenewalCap

\* ... the session granted by the ledger, unless it is over already ...
Grant(s, r) ==
    tokens' = IF intent'[r.intent].exp > r.at
              THEN tokens \cup {[intent |-> r.intent, jti |-> intent'[r.intent].jti,
                                 exp |-> intent'[r.intent].exp]}
              ELSE tokens

\* ... and /open, whose answer decides about the token.
ClaimOpen(s) ==
    LET r == claim[s]
        jti == WantedJti(s, r)
        exp == WantedExp(r)
    IN  /\ r.pc = "open"
        /\ Verified(r)
        /\ \/ /\ \/ Reopen(r.intent, r.payment, r.at, jti, exp)
                 \/ OpenCredit(r.intent, r.payment, ConfirmedAt(r), jti, exp)
              /\ Grant(s, r)
           \/ /\ \/ OpenExpired(r.intent, r.payment, ConfirmedAt(r))
                 \/ OpenOverCap(r.intent, r.payment, ConfirmedAt(r))
                 \/ OpenRefused(r.intent, r.payment) /\ UNCHANGED ledger
              /\ UNCHANGED tokens
        /\ claim' = [claim EXCEPT ![s].pc = "done"]
        /\ UNCHANGED <<now, paid, caller, upstream>>

-----------------------------------------------------------------------------
(* Calls.                                                                  *)

Go(q, pc) == caller' = [caller EXCEPT ![q].pc = pc]

\* beginCall: a new call id holds its price; when the object dies before its
\* alarm is armed the request fails.
BeginCall(q, c, a, price, armed) ==
    /\ caller[q].pc = "idle"
    /\ now + Lease <= MaxTime     \* bound: every lease ends within modelled time
    /\ Reserve(c, a, price, now, armed)
    /\ caller' = [caller EXCEPT ![q] = [pc |-> IF armed THEN "mark" ELSE "done",
                                        call |-> c, start |-> now]]
    /\ UNCHANGED <<now, paid, claim, tokens, upstream>>

\* Faulty: a call id whose hold was released is run again.
RerunCall(q, c) ==
    /\ caller[q].pc = "idle"
    /\ call[c].status = "released"
    /\ caller' = [caller EXCEPT ![q] = [pc |-> "upstream", call |-> c, start |-> now]]
    /\ UNCHANGED <<ledger, now, paid, claim, tokens, upstream>>

\* A known call id is answered from the ledger.
ReplayCall(q, c) ==
    /\ caller[q].pc = "idle"
    /\ call[c].status # "none"
    /\ caller' = [caller EXCEPT ![q] = [pc |-> "done", call |-> c, start |-> now]]
    /\ UNCHANGED <<ledger, now, paid, claim, tokens, upstream>>

\* Faulty: the call is sent upstream without its marker.
DispatchUnmarked(q) ==
    /\ caller[q].pc = "mark"
    /\ Go(q, "upstream")
    /\ UNCHANGED <<ledger, now, paid, claim, tokens, upstream>>

Dispatch(q) ==
    /\ caller[q].pc = "mark"
    /\ MarkDispatched(caller[q].call)
    /\ Go(q, "upstream")
    /\ UNCHANGED <<now, paid, claim, tokens, upstream>>

\* markDispatched throws, before or after it took effect.
DispatchThrows(q, applied) ==
    /\ caller[q].pc = "mark"
    /\ IF applied THEN MarkDispatched(caller[q].call) ELSE UNCHANGED ledger
    /\ Go(q, "abort")
    /\ UNCHANGED <<now, paid, claim, tokens, upstream>>

\* Faulty: a call that was sent upstream counts as paid.
RunUpstreamCommits(q, charged) ==
    /\ caller[q].pc = "upstream"
    /\ upstream' = [upstream EXCEPT ![caller[q].call] =
                      [runs |-> @.runs + 1, paid |-> IF charged THEN @.paid + 1 ELSE @.paid]]
    /\ Go(q, "commit")
    /\ UNCHANGED <<ledger, now, paid, claim, tokens>>

\* callUpstreamJson.  Whether the response was usable does not matter: the
\* call is committed exactly if a credential was signed for it.
RunUpstream(q, charged) ==
    /\ caller[q].pc = "upstream"
    /\ upstream' = [upstream EXCEPT ![caller[q].call] =
                      [runs |-> @.runs + 1, paid |-> IF charged THEN @.paid + 1 ELSE @.paid]]
    /\ Go(q, IF charged THEN "commit" ELSE "release")
    /\ UNCHANGED <<ledger, now, paid, claim, tokens>>

\* commit, release, and the release after a failed dispatch marker.
SettleCall(q) ==
    LET c == caller[q].call
    IN  /\ caller[q].pc \in {"commit", "release", "abort"}
        /\ Settle(c, IF caller[q].pc = "commit" THEN "commit" ELSE "release", call[c].price)
        /\ Go(q, "done")
        /\ UNCHANGED <<now, paid, claim, tokens, upstream>>

Active(q) == caller[q].pc \notin {"idle", "done"}

\* The Worker dies, or a ledger call it makes fails.
Die(q) == /\ Active(q)
          /\ Go(q, "done")
          /\ UNCHANGED <<ledger, now, paid, claim, tokens, upstream>>

-----------------------------------------------------------------------------

\* The reaper's alarm.
AlarmStep == /\ \/ \E c \in CallIds : Reap(c, now)
                \/ AlarmEnd(now)
             /\ UNCHANGED <<now, paid, claim, tokens, caller, upstream>>

Tick == /\ now < MaxTime
        /\ HealthyCalls => \A q \in Callers : Active(q) => now + 1 - caller[q].start < Lease
        /\ now' = now + 1
        /\ UNCHANGED <<ledger, paid, claim, tokens, caller, upstream>>

DepositStep == \/ \E i \in Intents : \/ \E a \in Accounts, n \in Amounts : RequestIntent(i, a, n)
                                     \/ \E p \in Payments : Pay(p, i)
               \/ \E s \in Sessions : \/ \E i \in Intents, p \in Payments : ClaimRead(s, i, p)
                                      \/ ClaimClock(s) \/ ClaimOpen(s)

CallStep(q) == \/ \E c \in CallIds :
                    \/ \E a \in Accounts, n \in Prices, armed \in BOOLEAN :
                         BeginCall(q, c, a, n, armed)
                    \/ ReplayCall(q, c)
               \/ Dispatch(q) \/ SettleCall(q) \/ Die(q)
               \/ \E b \in BOOLEAN : DispatchThrows(q, b) \/ RunUpstream(q, b)

Next == \/ DepositStep \/ AlarmStep \/ Tick
        \/ \E q \in Callers : CallStep(q)

Spec == Init /\ [][Next]_vars

-----------------------------------------------------------------------------
(* Properties.                                                             *)

TypeOK == /\ LedgerTypeOK
          /\ now \in Times
          /\ paid \in [Payments -> Payment]
          /\ claim \in [Sessions -> Claim]
          /\ tokens \subseteq Token
          /\ caller \in [Callers -> Caller]
          /\ upstream \in [CallIds -> [runs : Nat, paid : Nat]]

CreditedIntents == {i \in Intents : intent[i].status = "consumed"}

\* The incremental totals agree with the rows they are kept for, whatever died
\* between a hold and its settlement: what was credited is what the credited
\* intents quoted, all of it is spent or outstanding, and outstanding credit
\* is what the accounts hold, free or reserved ("outstanding == sum of
\* balances + sum of holds", ledger-do.ts).
Amount == [i \in Intents |-> intent[i].amount]
Held   == [c \in CallIds |-> IF call[c].status = "reserved" THEN call[c].price ELSE 0]
Solvent ==
    /\ credited = SumFunctionOnSet(Amount, CreditedIntents)
    /\ credited = committed + outstanding
    /\ outstanding = SumFunctionOnSet(balance, Accounts) + SumFunctionOnSet(Held, CallIds)

\* A payment is credited once, to the intent whose memo it carries, and only
\* if it was confirmed before that intent expired.
CreditedOnce ==
    \A i \in CreditedIntents :
        /\ consumed[intent[i].payment] = i
        /\ paid[intent[i].payment].intent = i
        /\ paid[intent[i].payment].at <= intent[i].created + IntentTTL

\* The caps bound what is credited however many intents passed them before:
\* outstanding credit, and each account's deposits per confirmation day.
CreditedOn(a, d) == {i \in CreditedIntents : /\ intent[i].account = a
                                              /\ Day(paid[intent[i].payment].at) = d}
CapsHold ==
    /\ outstanding <= GlobalCap
    /\ \A a \in Accounts, d \in {Day(t) : t \in Times} :
         SumFunctionOnSet(Amount, CreditedOn(a, d)) <= DayCap

\* A user is charged only for a call that was paid upstream, and a call id is
\* run upstream at most once however often it is submitted.
ChargedOnlyIfPaid ==
    \A c \in CallIds : /\ upstream[c].runs <= 1
                        /\ call[c].charged > 0 => upstream[c].paid = 1

\* One deposit opens one session at a time, and none beyond its renewal window.
OneLiveSession ==
    \A t \in tokens :
        /\ t.exp <= intent[t.intent].created + RenewalCap
        /\ \A u \in tokens : t.intent = u.intent /\ t.exp > now /\ u.exp > now => t = u

\* A call that was paid upstream is charged or, after its request died, is
\* released with the mark that tells recon it may have been paid ("we never
\* run a paid call with an unpersisted marker", docs/playground.md).
LossIsFlagged ==
    \A c \in CallIds : upstream[c].paid > 0 /\ call[c].status = "released" =>
                           call[c].reaped /\ call[c].dispatched

\* The money in the ledger is backed and bounded, whichever claims, calls and
\* reaps overlap: the totals that the caps are tested on are those of the rows
\* (ledger-do.ts).
SpendLimited == Solvent /\ CapsHold

\* The ledger's records agree with what happened outside it: a deposit has one
\* live session, and a call paid upstream and not charged carries its mark.
LedgerSane == TypeOK /\ OneLiveSession /\ LossIsFlagged

\* A settled call and a credited intent are never settled or credited again,
\* whoever comes late: a slow request after the reaper, a second claim.
SettlementStands ==
    /\ \A c \in CallIds : call[c].status \in {"committed", "released"} => call'[c] = call[c]
    /\ \A i \in CreditedIntents : /\ intent'[i].status = "consumed"
                                   /\ intent'[i].payment = intent[i].payment
SettledIsFinal == [][SettlementStands]_vars

\* Fairness: a scheduled alarm fires and time passes.
FairSpec == Spec /\ WF_vars(AlarmStep) /\ WF_vars(Tick)

\* While an alarm is scheduled no hold is kept for ever: the call settles, or
\* the reaper releases it.
HoldsEnd == \A c \in CallIds : (call[c].status = "reserved" /\ alarm) ~> call[c].status # "reserved"
=============================================================================
