------------------------ MODULE PlaygroundInvariant ------------------------
(***************************************************************************)
(* The inductive invariant behind the safety of Playground, in three       *)
(* parts: which payment an intent was credited from, which request works   *)
(* on a call, and which session of a deposit is alive.                     *)
(***************************************************************************)
EXTENDS Playground

\* A credited intent has a payment, its own and in time, and a session that
\* ends within the renewal window; nothing else has a session.
Credit(i) ==
    /\ intent[i].status = "consumed" =>
         /\ intent[i].payment \in Payments
         /\ consumed[intent[i].payment] = i
         /\ paid[intent[i].payment].intent = i
         /\ paid[intent[i].payment].at <= intent[i].created + IntentTTL
    /\ intent[i].status = "consumed" <=> intent[i].jti # None
    /\ intent[i].jti # None => intent[i].exp <= intent[i].created + RenewalCap

\* What a claim read of its intent is past, but what cannot change still holds.
ClaimsAgree(s) ==
    claim[s].pc # "idle" =>
        /\ claim[s].seen.status = "consumed" => intent[claim[s].intent].status = "consumed"
        /\ claim[s].seen.created = intent[claim[s].intent].created
        /\ claim[s].seen.jti # None => claim[s].seen.exp <= claim[s].seen.created + RenewalCap
        /\ intent[claim[s].intent].status # "none"
        /\ claim[s].at <= now

\* A token that is alive is the session on its intent's record.
TokenOnRecord(t) ==
    /\ intent[t.intent].status = "consumed"
    /\ t.exp <= intent[t.intent].created + RenewalCap
    /\ t.exp > now => t.jti = intent[t.intent].jti /\ t.exp = intent[t.intent].exp

Deposits == /\ \A i \in Intents : Credit(i)
            /\ \A s \in Sessions : ClaimsAgree(s)
            /\ \A t \in tokens : TokenOnRecord(t)

\* One request at a time works on a call, and it ran upstream if its step says so.
Works(q) ==
    LET c == caller[q].call
    IN  Active(q) =>
          /\ call[c].status # "none"
          /\ call[c].at = caller[q].start
          /\ \A r \in Callers : Active(r) /\ caller[r].call = c => r = q
          /\ caller[q].pc \in {"mark", "abort", "upstream"} => upstream[c].runs = 0
          /\ caller[q].pc = "commit" => upstream[c].paid = 1
          /\ caller[q].pc = "release" => upstream[c].paid = 0

Ran(c) == /\ call[c].status = "none" => upstream[c].runs = 0
          /\ upstream[c].runs <= 1
          /\ upstream[c].paid <= upstream[c].runs
          /\ call[c].charged > 0 => upstream[c].paid = 1

CallsAgree == /\ \A q \in Callers : Works(q)
              /\ \A c \in CallIds : Ran(c)

\* While no request outlives its lease the reaper leaves running calls alone:
\* a call is marked before it is paid, and settled by its own request or not
\* before that is over.
InTime(q) ==
    LET c == caller[q].call
    IN  Active(q) => /\ now - caller[q].start < Lease
                     /\ call[c].status = "reserved"
                     /\ caller[q].pc \in {"upstream", "commit", "release"} => call[c].dispatched

Marked(c) == upstream[c].paid > 0 =>
                /\ call[c].dispatched
                /\ call[c].status = "released" => call[c].reaped

Healthy == HealthyCalls => /\ \A q \in Callers : InTime(q)
                           /\ \A c \in CallIds : Marked(c)

IInv == TypeOK /\ Deposits /\ CallsAgree /\ Healthy

\* A day's tally is what the intents credited from that day's payments add up
\* to, and no tally passed its cap; free and held credit is what is outstanding.
DayTally(a, d) == /\ deposited[a][d] = SumFunctionOnSet(Amount, CreditedOn(a, d))
                  /\ deposited[a][d] <= DayCap

CreditBooks == /\ credited = SumFunctionOnSet(Amount, CreditedIntents)
               /\ \A a \in Accounts, d \in Times : DayTally(a, d)

HoldBooks == outstanding = SumFunctionOnSet(balance, Accounts) + SumFunctionOnSet(Held, CallIds)

Books == /\ CreditBooks
         /\ HoldBooks
         /\ credited = committed + outstanding
         /\ outstanding <= GlobalCap
=============================================================================
