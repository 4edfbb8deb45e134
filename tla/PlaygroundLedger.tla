-------------------------- MODULE PlaygroundLedger --------------------------
(***************************************************************************)
(* The PlaygroundLedger durable object (playground/ledger-do.ts): deposit  *)
(* intents, prepaid balances, the holds of paid calls and the reaper that  *)
(* gives back the holds of calls whose request died.                       *)
(*                                                                         *)
(* One instance serves every account and runs one handler at a time, so    *)
(* each handler below is one step; who calls it, and when, is in           *)
(* Playground.  Handlers are given the caller's clock, as in the code.     *)
(***************************************************************************)
EXTENDS Integers

CONSTANTS Accounts, Intents, CallIds,
          Payments,      \* on-chain payment operations, (tx_hash, op_index)
          Sessions,      \* session ids (jti)
          None,
          DayCap,        \* DEPOSIT_CAP_PER_ACCOUNT_PER_DAY_USD
          GlobalCap,     \* PLAYGROUND_GLOBAL_CAP_USD
          RatePerHour,   \* INTENT_RATE_PER_HOUR
          MaxOpen,       \* MAX_OPEN_INTENTS_PER_ACCOUNT
          IntentTTL, Lease, SessionTTL, RenewalCap,
          HourLength, DayLength,   \* in ticks
          MaxTime        \* bound on the clock

ASSUME LedgerConstants ==
    /\ None \notin Payments \cup Sessions \cup Intents
    /\ {DayCap, GlobalCap, RatePerHour, MaxOpen, IntentTTL, RenewalCap, MaxTime} \subseteq Nat
    /\ {Lease, SessionTTL, HourLength, DayLength} \subseteq Nat \ {0}

Times   == 0 .. MaxTime
Day(t)  == t \div DayLength      \* utcDayKey
Hour(t) == t \div HourLength     \* utcHourKey

Intent == [status : {"none", "open", "consumed", "expired", "over_cap"},
           account : Accounts, amount : Nat, created : Nat,
           payment : Payments \cup {None}, jti : Sessions \cup {None}, exp : Nat]
Call   == [status : {"none", "reserved", "committed", "released"},
           account : Accounts, price : Nat, charged : Nat, at : Nat,
           dispatched : BOOLEAN, reaped : BOOLEAN]

VARIABLES intent,       \* intent:<id>
          consumed,     \* consumed:<tx>:<op>, the intent a payment was credited to
          openCount,    \* open:<account>
          minted,       \* rl:<account>:<hour>
          deposited,    \* dep:<account>:<day>
          balance,      \* bal:<account>
          credited, committed, outstanding,   \* total:*
          call,         \* call:<id>
          alarm         \* an alarm is scheduled

deposits == <<intent, consumed, openCount, minted, deposited>>
totals   == <<credited, committed, outstanding>>
ledger   == <<intent, consumed, openCount, minted, deposited, balance,
              credited, committed, outstanding, call, alarm>>

LedgerTypeOK == /\ intent \in [Intents -> Intent]
                /\ consumed \in [Payments -> Intents \cup {None}]
                /\ openCount \in [Accounts -> Nat]
                /\ minted \in [Accounts -> [Times -> Nat]]
                /\ deposited \in [Accounts -> [Times -> Nat]]
                /\ balance \in [Accounts -> Nat]
                /\ credited \in Nat /\ committed \in Nat /\ outstanding \in Int
                /\ call \in [CallIds -> Call]
                /\ alarm \in BOOLEAN

LedgerInit == /\ \E a \in Accounts :
                   /\ intent = [i \in Intents |->
                        [status |-> "none", account |-> a, amount |-> 0, created |-> 0,
                         payment |-> None, jti |-> None, exp |-> 0]]
                   /\ call = [c \in CallIds |->
                        [status |-> "none", account |-> a, price |-> 0, charged |-> 0, at |-> 0,
                         dispatched |-> FALSE, reaped |-> FALSE]]
              /\ consumed = [p \in Payments |-> None]
              /\ openCount = [a \in Accounts |-> 0]
              /\ minted = [a \in Accounts |-> [t \in Times |-> 0]]
              /\ deposited = [a \in Accounts |-> [t \in Times |-> 0]]
              /\ balance = [a \in Accounts |-> 0]
              /\ credited = 0 /\ committed = 0 /\ outstanding = 0
              /\ alarm = FALSE

-----------------------------------------------------------------------------
(* Deposits.                                                               *)

\* /intent/create.  The caps are only looked at: an intent holds no headroom.
CreateIntent(i, a, amount, t) ==
    /\ intent[i].status = "none"       \* ids and memos are random: never reused
    /\ minted[a][Hour(t)] < RatePerHour
    /\ deposited[a][Day(t)] + amount <= DayCap
    /\ outstanding + amount <= GlobalCap
    /\ openCount[a] < MaxOpen
    /\ intent' = [intent EXCEPT ![i] = [@ EXCEPT !.status = "open", !.account = a,
                                                 !.amount = amount, !.created = t]]
    /\ minted' = [minted EXCEPT ![a][Hour(t)] = @ + 1]
    /\ openCount' = [openCount EXCEPT ![a] = @ + 1]
    /\ UNCHANGED <<consumed, deposited, balance, totals, call, alarm>>

\* releaseOpenSlot, when an intent reaches a terminal status.
ReleaseOpenSlot(a) == openCount' = [openCount EXCEPT ![a] = IF @ > 0 THEN @ - 1 ELSE 0]

\* /open of an intent that was credited from the same payment: while its
\* session lives the same session is granted, after that the caller's new one.
Reopen(i, p, t, jti, exp) ==
    /\ intent[i].status = "consumed"
    /\ intent[i].payment = p
    /\ intent' = IF intent[i].exp <= t
                 THEN [intent EXCEPT ![i] = [@ EXCEPT !.jti = jti, !.exp = exp]] ELSE intent
    /\ UNCHANGED <<consumed, openCount, minted, deposited, balance, totals, call, alarm>>

\* /open that is refused without a change: the intent is terminal or was
\* credited from another payment, or the payment was credited to another intent.
OpenRefused(i, p) == \/ intent[i].status \in {"none", "over_cap"}
                     \/ intent[i].status = "consumed" /\ intent[i].payment # p
                     \/ intent[i].status \in {"open", "expired"} /\ consumed[p] # None

\* What is left is not credited yet.  Note that this includes "expired".
Claimable(i, p) == intent[i].status \in {"open", "expired"} /\ consumed[p] = None

\* The payment was confirmed, at time at, after the intent had expired.
OpenExpired(i, p, at) ==
    /\ Claimable(i, p)
    /\ at > intent[i].created + IntentTTL
    /\ intent' = [intent EXCEPT ![i] = [@ EXCEPT !.status = "expired"]]
    /\ ReleaseOpenSlot(intent[i].account)
    /\ UNCHANGED <<consumed, minted, deposited, balance, totals, call, alarm>>

OverCap(i, at) == \/ deposited[intent[i].account][Day(at)] + intent[i].amount > DayCap
                  \/ outstanding + intent[i].amount > GlobalCap

\* The deposit would pass a cap; the payment is not consumed.
OpenOverCap(i, p, at) ==
    /\ Claimable(i, p)
    /\ at <= intent[i].created + IntentTTL
    /\ OverCap(i, at)
    /\ intent' = [intent EXCEPT ![i] = [@ EXCEPT !.status = "over_cap", !.payment = p]]
    /\ ReleaseOpenSlot(intent[i].account)
    /\ UNCHANGED <<consumed, minted, deposited, balance, totals, call, alarm>>

\* Credit the deposit: consume the payment, bind it to the intent, raise the
\* balance, the day's deposits and the totals, all in one transaction.
OpenCredit(i, p, at, jti, exp) ==
    LET a == intent[i].account
        n == intent[i].amount
    IN  /\ Claimable(i, p)
        /\ at <= intent[i].created + IntentTTL
        /\ ~OverCap(i, at)
        /\ consumed' = [consumed EXCEPT ![p] = i]
        /\ intent' = [intent EXCEPT ![i] = [@ EXCEPT !.status = "consumed", !.payment = p,
                                                     !.jti = jti, !.exp = exp]]
        /\ ReleaseOpenSlot(a)
        /\ balance' = [balance EXCEPT ![a] = @ + n]
        /\ deposited' = [deposited EXCEPT ![a][Day(at)] = @ + n]
        /\ credited' = credited + n
        /\ outstanding' = outstanding + n
        /\ UNCHANGED <<minted, committed, call, alarm>>

-----------------------------------------------------------------------------
(* Calls.                                                                  *)

\* /reserve of a new call id: hold the price.  The alarm is armed after the
\* transaction: the object may die in between.
Reserve(c, a, price, t, armed) ==
    /\ call[c].status = "none"
    /\ balance[a] >= price
    /\ call' = [call EXCEPT ![c] = [@ EXCEPT !.status = "reserved", !.account = a,
                                             !.price = price, !.at = t]]
    /\ balance' = [balance EXCEPT ![a] = @ - price]
    /\ alarm' = (alarm \/ armed)
    /\ UNCHANGED <<deposits, totals>>

\* /dispatch: answered with ok whether or not the marker was written.
MarkDispatched(c) ==
    /\ call' = IF call[c].status = "reserved" THEN [call EXCEPT ![c] = [@ EXCEPT !.dispatched = TRUE]] ELSE call
    /\ UNCHANGED <<deposits, balance, totals, alarm>>

Clamp(n, held) == IF n > held THEN held ELSE n

\* /settle, for a call that is still reserved; any other is left alone.
Settle(c, action, n) ==
    LET a == call[c].account
        charge == IF action = "commit" THEN Clamp(n, call[c].price) ELSE 0
    IN  IF call[c].status # "reserved" THEN UNCHANGED ledger
        ELSE /\ call' = [call EXCEPT ![c] = [@ EXCEPT
                   !.status = IF action = "commit" THEN "committed" ELSE "released",
                   !.charged = charge]]
             /\ balance' = [balance EXCEPT ![a] = @ + (call[c].price - charge)]
             /\ committed' = committed + charge
             /\ outstanding' = outstanding - charge
             /\ UNCHANGED <<deposits, credited, alarm>>

\* A call the reaper gives up on.
Stale(c, t) == call[c].status = "reserved" /\ t - call[c].at >= Lease

\* Faulty: the released hold is taken out of the outstanding credit.
ReapAsSpent(c, t) ==
    /\ alarm
    /\ Stale(c, t)
    /\ call' = [call EXCEPT ![c] = [@ EXCEPT !.status = "released", !.reaped = TRUE]]
    /\ balance' = [balance EXCEPT ![call[c].account] = @ + call[c].price]
    /\ outstanding' = outstanding - call[c].price
    /\ UNCHANGED <<deposits, credited, committed, alarm>>

\* alarm().  It releases the stale calls one by one, each with its balance in
\* a single write, and is started again by the platform when it dies half way:
\* releasing one call is a step, the end of the handler is another.
Reap(c, t) ==
    /\ alarm
    /\ Stale(c, t)
    /\ call' = [call EXCEPT ![c] = [@ EXCEPT !.status = "released", !.reaped = TRUE]]
    /\ balance' = [balance EXCEPT ![call[c].account] = @ + call[c].price]
    /\ UNCHANGED <<deposits, totals, alarm>>

\* Faulty: the alarm lapses after one run.
AlarmLapses(t) ==
    /\ alarm
    /\ \A c \in CallIds : ~Stale(c, t)
    /\ alarm' = FALSE
    /\ UNCHANGED <<deposits, balance, totals, call>>

\* It keeps waking while anything is reserved.
AlarmEnd(t) ==
    /\ alarm
    /\ \A c \in CallIds : ~Stale(c, t)
    /\ alarm' = (\E c \in CallIds : call[c].status = "reserved")
    /\ UNCHANGED <<deposits, balance, totals, call>>
=============================================================================
