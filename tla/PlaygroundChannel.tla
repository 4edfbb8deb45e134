-------------------------- MODULE PlaygroundChannel --------------------------
(***************************************************************************)
(* The non-custodial playground: calls paid from a channel its user opened *)
(* on chain (routes/playground-channel.ts) and the cron that collects what *)
(* was spent (playground/channel-settle.ts).                               *)
(*                                                                         *)
(* A call locks the channel, passes the fence and the close guard, has its *)
(* cumulative voucher accepted, pays upstream, and only then stores the    *)
(* voucher the collector can redeem.  What cannot be stored is absorbed    *)
(* and the channel fenced.  The funder may close on chain at any time; the *)
(* lock expires under a holder that is slow or dead.  Every call costs one *)
(* unit; the watermark and the stored voucher are amounts.                 *)
(***************************************************************************)
EXTENDS Naturals, FiniteSets

CONSTANTS Calls,       \* concurrent calls
          Cron,        \* the settlement pass
          Nobody,
          Deposit,     \* units in the channel when it is opened
          Threshold,   \* units that are collected without a close
          MaxCalls     \* bound: calls

Idle     == [pc |-> "idle", n |-> 0, prev |-> 0]
CronIdle == [pc |-> "idle", cum |-> 0, closing |-> FALSE, empty |-> FALSE]

VARIABLES reg,        \* pgChannel and pgAgent records
          lock,       \* delivery lock
          mark,       \* highest accepted voucher
          stored,     \* voucher kept for the collector, and what is settled of it
          blocked,    \* closed marker or fence
          chain,      \* the contract: state, and what the collector got
          proc,       \* proc[c]: next step and locals of a call
          cron,       \* of the cron
          told,       \* registrations answered with success
          paid,       \* units paid upstream
          charged,    \* units the callers were told they paid
          writtenOff, \* a debt was written off
          slips,      \* events the properties except
          left        \* calls left

money == <<mark, stored, blocked>>
past  == <<paid, charged>>
vars  == <<reg, lock, money, chain, proc, cron, told, past, slips, writtenOff, left>>

Init == /\ reg = [deposit |-> 0, agent |-> FALSE]
        /\ lock = [id |-> Nobody, live |-> FALSE]
        /\ mark = 0 /\ stored = [cum |-> 0, settled |-> 0] /\ blocked = FALSE
        /\ chain = [st |-> "open", got |-> 0]
        /\ proc = [c \in Calls |-> Idle]
        /\ cron = CronIdle
        /\ told = FALSE /\ paid = 0 /\ charged = 0 /\ writtenOff = FALSE
        /\ slips = {}
        /\ left = MaxCalls

Max2(a, b) == IF a > b THEN a ELSE b

(***************************************************************************)
(* Registration                                                            *)
(***************************************************************************)

\* checkChannelMatches: the contract the factory deploys, funded, and not closing.
Registrable == chain.st = "open"

\* The agent leads to the channel, the channel to its record.
Resolves == reg.agent /\ reg.deposit > 0

\* The chain is read; an open and funded channel is recorded, then indexed by
\* its agent.  The worker may stop between the two writes.
Register ==
    /\ reg.deposit = 0 /\ Registrable
    /\ \E indexed \in BOOLEAN : reg' = [deposit |-> Deposit, agent |-> indexed] /\ told' = indexed
    /\ UNCHANGED <<lock, money, chain, proc, cron, past, slips, writtenOff, left>>

\* A record that is there is answered as a replay, without another write.
Replay ==
    /\ reg.deposit > 0 /\ ~told
    /\ told' = TRUE
    /\ UNCHANGED <<reg, lock, money, chain, proc, cron, past, slips, writtenOff, left>>

(***************************************************************************)
(* A call                                                                  *)
(***************************************************************************)

At(c, l) == proc[c].pc = l
Go(c, l) == proc' = [proc EXCEPT ![c].pc = l]
End(c)   == proc' = [proc EXCEPT ![c] = Idle]
NoMoney  == UNCHANGED <<money, past, slips>>
Only     == UNCHANGED <<reg, chain, cron, told, writtenOff, left>>

\* The caller signs on top of the watermark it was shown.
Request(c) ==
    /\ At(c, "idle") /\ left > 0
    /\ Resolves
    /\ proc' = [proc EXCEPT ![c] = [Idle EXCEPT !.pc = "lock", !.n = mark + 1]]
    /\ left' = left - 1
    /\ NoMoney /\ UNCHANGED <<reg, lock, chain, cron, told, writtenOff>>

Acquire(id)  == ~lock.live /\ lock' = [id |-> id, live |-> TRUE]
Own(id)      == lock.id = id
\* revalidateChannelDeliveryLock: on success the lock lives on.
Renew(id)    == lock' = IF Own(id) THEN [id |-> id, live |-> TRUE] ELSE lock
Drop(id)     == lock' = IF Own(id) THEN [id |-> Nobody, live |-> FALSE] ELSE lock

Lock(c) ==
    /\ At(c, "lock")
    /\ \/ Acquire(c) /\ Go(c, "gate")
       \/ lock.live /\ End(c) /\ UNCHANGED lock
    /\ NoMoney /\ Only

Gate(c) ==
    /\ At(c, "gate")
    /\ Go(c, IF blocked THEN "release" ELSE "guard")
    /\ NoMoney /\ UNCHANGED lock /\ Only

\* A close that has started, or a chain that cannot be read, fences the channel;
\* a cached answer may be older than the close.
CloseGuard(c) ==
    /\ At(c, "guard")
    /\ \/ Go(c, "read") /\ NoMoney
       \/ /\ Go(c, "release")
          /\ blocked' = TRUE \/ UNCHANGED blocked
          /\ UNCHANGED <<mark, stored, past, slips>>
    /\ UNCHANGED lock /\ Only

\* No voucher beyond the deposit.
ReadPrevious(c) ==
    /\ At(c, "read")
    /\ proc' = [proc EXCEPT ![c].prev = mark,
                            ![c].pc = IF mark + 1 > reg.deposit THEN "release" ELSE "verify"]
    /\ NoMoney /\ UNCHANGED lock /\ Only

\* Accepted if it is above the watermark.  The answer may be lost after that.
Verify(c) ==
    /\ At(c, "verify")
    /\ \/ /\ proc[c].n > mark
          /\ mark' = proc[c].n
          /\ slips' = IF Own(c) THEN slips ELSE slips \cup {"overtaken"}
          /\ Go(c, "accepted") \/ Go(c, "release")
          /\ UNCHANGED <<stored, blocked, past>>
       \/ Go(c, "release") /\ NoMoney
    /\ UNCHANGED lock /\ Only

Revalidate(c) ==
    /\ At(c, "accepted")
    /\ Renew(c)
    /\ Go(c, IF Own(c) THEN "pay" ELSE "reverse")
    /\ NoMoney /\ Only

Pay(c) ==
    /\ At(c, "pay")
    /\ \/ paid' = paid + 1 /\ Go(c, "paid")
       \/ UNCHANGED paid /\ Go(c, "reverse")
    /\ UNCHANGED <<money, charged, slips, lock>> /\ Only

\* commitPaidVoucher: store only under the lock; else see who did.
Commit(c) ==
    /\ At(c, "paid")
    /\ Renew(c)
    /\ Go(c, IF Own(c) THEN "persist" ELSE "cover")
    /\ NoMoney /\ Only

Charge(c) == charged' = charged + 1 /\ Go(c, "release")

\* putLatestVoucher is monotone; its answer may be lost, or it may fail.
Persist(c) ==
    /\ At(c, "persist")
    /\ \/ /\ stored' = [stored EXCEPT !.cum = Max2(@, proc[c].n)]
          /\ Charge(c) \/ (Go(c, "cover") /\ UNCHANGED charged)
       \/ UNCHANGED <<stored, charged>> /\ Go(c, "cover")
    /\ UNCHANGED <<mark, blocked, paid, slips, lock>> /\ Only

\* Faulty: a voucher that cannot be read back counts as stored.
FaultyCheckCovered(c) ==
    /\ At(c, "cover")
    /\ \/ Charge(c)
       \/ stored.cum < proc[c].n /\ Go(c, "absorb") /\ UNCHANGED charged
    /\ UNCHANGED <<money, paid, slips, lock>> /\ Only

\* A charge stands only when a voucher that covers it is read back.
CheckCovered(c) ==
    /\ At(c, "cover")
    /\ \/ stored.cum >= proc[c].n /\ Charge(c)
       \/ Go(c, "absorb") /\ UNCHANGED charged
    /\ UNCHANGED <<money, paid, slips, lock>> /\ Only

\* Faulty: the watermark goes back although the channel could not be fenced.
FaultyAbsorb(c) ==
    /\ At(c, "absorb")
    /\ blocked' \in {TRUE, blocked} /\ Go(c, "undo")
    /\ UNCHANGED <<mark, stored, past, slips, lock>> /\ Only

\* absorbPaidCallAndFence: the fence first; without it nothing is given back.
Absorb(c) ==
    /\ At(c, "absorb")
    /\ \/ blocked' = TRUE /\ Go(c, "undo")
       \/ UNCHANGED blocked /\ Go(c, "release")
    /\ UNCHANGED <<mark, stored, past, slips, lock>> /\ Only

\* rollbackFailedChannelVoucher, if the voucher is still the latest.
RolledBack(c) == mark' = IF mark = proc[c].n THEN proc[c].prev ELSE mark

Undo(c) ==
    /\ At(c, "undo")
    /\ RolledBack(c)
    /\ Go(c, "release")
    /\ UNCHANGED <<stored, blocked, past, slips, lock>> /\ Only

\* reverseChargeOrFence: nothing was paid; a watermark that could not be
\* restored for certain fences the channel.
Reverse(c) ==
    /\ At(c, "reverse")
    /\ RolledBack(c)
    /\ Go(c, "fence") \/ (mark = proc[c].n /\ Go(c, "release"))
    /\ UNCHANGED <<stored, blocked, past, slips, lock>> /\ Only

Fence(c) ==
    /\ At(c, "fence")
    /\ blocked' \in {TRUE, blocked}
    /\ Go(c, "release")
    /\ UNCHANGED <<mark, stored, past, slips, lock>> /\ Only

Release(c) ==
    /\ At(c, "release")
    /\ Drop(c)
    /\ End(c)
    /\ NoMoney /\ Only

\* A worker stops; its lock stays until it expires.
Die(c) ==
    /\ ~At(c, "idle")
    /\ End(c)
    /\ NoMoney /\ UNCHANGED lock /\ Only

(***************************************************************************)
(* Settlement                                                              *)
(***************************************************************************)

CronAt(l) == cron.pc = l
CronGo(l) == cron' = [cron EXCEPT !.pc = l]
CronEnd   == CronGo("release")
OnlyCron  == UNCHANGED <<reg, proc, told, mark, past, slips, left>>

\* A channel without a voucher, or settled and blocked, is skipped.
ToSettle == stored.cum > 0 /\ (stored.cum > stored.settled \/ ~blocked)

SettleLock ==
    /\ CronAt("idle") /\ ToSettle
    /\ Acquire(Cron) /\ CronGo("voucher")
    /\ UNCHANGED <<stored, blocked, chain, writtenOff>> /\ OnlyCron

\* The voucher is read under the lock.
SettleRead ==
    /\ CronAt("voucher")
    /\ cron' = [cron EXCEPT !.pc = "state", !.cum = stored.cum]
    /\ UNCHANGED <<lock, stored, blocked, chain, writtenOff>> /\ OnlyCron

\* The chain is read, which may fail; a close that has started fences the channel.
SettleState ==
    /\ CronAt("state")
    /\ \/ LET closing == chain.st # "open"
              due     == cron.cum > stored.settled /\ (closing \/ cron.cum - stored.settled >= Threshold)
          IN /\ blocked' \in IF closing THEN {TRUE, blocked} ELSE {blocked}
             /\ cron' = [cron EXCEPT !.closing = closing, !.empty = chain.st \in {"refunded", "closed"},
                                     !.pc = IF due THEN "revalidate" ELSE "release"]
       \/ CronEnd /\ UNCHANGED blocked
    /\ UNCHANGED <<lock, stored, chain, writtenOff>> /\ OnlyCron

SettleRevalidate ==
    /\ CronAt("revalidate")
    /\ Renew(Cron)
    /\ CronGo(IF Own(Cron) THEN "mark" ELSE "release")
    /\ UNCHANGED <<stored, blocked, chain, writtenOff>> /\ OnlyCron

SettleMark ==
    /\ CronAt("mark")
    /\ blocked' = TRUE
    /\ CronGo(IF cron.closing /\ cron.empty THEN "writeoff" ELSE "close")
    /\ UNCHANGED <<lock, stored, chain, writtenOff>> /\ OnlyCron

\* The collector closes: final, and the rest goes back to the funder.  The
\* answer may be lost, the transaction never be included; an empty channel
\* cannot pay.
SettleClose ==
    /\ CronAt("close")
    /\ \/ /\ chain.st \in {"open", "closing"}
          /\ chain' = [st |-> "closed", got |-> cron.cum]
          /\ \/ CronGo("settled") /\ UNCHANGED slips
             \/ CronEnd /\ slips' = slips \cup {"unmarked"}
       \/ CronEnd /\ UNCHANGED <<chain, slips>>
       \/ chain.st \in {"refunded", "closed"} /\ CronGo("writeoff") /\ UNCHANGED <<chain, slips>>
    /\ UNCHANGED <<reg, lock, proc, told, money, past, writtenOff, left>>

SettleWriteOff ==
    /\ CronAt("writeoff")
    /\ writtenOff' = TRUE
    /\ CronGo("settled")
    /\ UNCHANGED <<lock, stored, blocked, chain>> /\ OnlyCron

SettleDone ==
    /\ CronAt("settled")
    /\ stored' = [stored EXCEPT !.settled = Max2(@, cron.cum)]
    /\ CronEnd
    /\ UNCHANGED <<lock, blocked, chain, writtenOff>> /\ OnlyCron

SettleRelease ==
    /\ CronAt("release")
    /\ Drop(Cron) /\ cron' = CronIdle
    /\ UNCHANGED <<stored, blocked, chain, writtenOff>> /\ OnlyCron

CronDies ==
    /\ cron.pc \notin {"idle", "release"}
    /\ cron' = CronIdle
    /\ slips' = IF CronAt("settled") THEN slips \cup {"unmarked"} ELSE slips
    /\ UNCHANGED <<reg, lock, proc, told, money, past, chain, writtenOff, left>>

(***************************************************************************)
(* The lock's time and the funder's contract                               *)
(***************************************************************************)

\* The one write that follows a renewal is done long before the lock's time is up.
Renewed(id) == IF id = Cron THEN CronAt("mark") ELSE id \in Calls /\ At(id, "persist")

LockExpires ==
    /\ lock.live /\ ~Renewed(lock.id)
    /\ lock' = [lock EXCEPT !.live = FALSE]
    /\ UNCHANGED <<reg, money, chain, proc, cron, told, past, slips, writtenOff, left>>

Funder ==
    /\ \/ chain.st = "open"    /\ chain' = [chain EXCEPT !.st = "closing"]
       \/ chain.st = "closing" /\ chain' = [chain EXCEPT !.st = "refunded"]
    /\ UNCHANGED <<reg, lock, money, proc, cron, told, past, slips, writtenOff, left>>

Settlement == \/ SettleLock \/ SettleRead \/ SettleState \/ SettleRevalidate \/ SettleMark
              \/ SettleClose \/ SettleWriteOff \/ SettleDone \/ SettleRelease

Call(c) == \/ Request(c) \/ Lock(c) \/ Gate(c) \/ CloseGuard(c) \/ ReadPrevious(c) \/ Verify(c)
           \/ Revalidate(c) \/ Pay(c) \/ Commit(c) \/ Persist(c) \/ CheckCovered(c)
           \/ Absorb(c) \/ Undo(c) \/ Reverse(c) \/ Fence(c) \/ Release(c) \/ Die(c)

Next == Register \/ Replay \/ (\E c \in Calls : Call(c)) \/ Settlement \/ CronDies \/ LockExpires \/ Funder

Spec == Init /\ [][Next]_vars

(***************************************************************************)
(* Properties                                                              *)
(***************************************************************************)

\* No call lost its lock between reading the watermark and its voucher's acceptance.
Regular == "overtaken" \notin slips

\* What callers were told they paid, the collector can redeem: no charge is
\* reported whose voucher is not stored, whatever fails after the payment.  The
\* exception is a call that lost its lock after reading the watermark and whose
\* voucher was accepted nevertheless: its rollback restores a stale amount.
ReportedIsRedeemable == Regular => charged <= stored.cum

\* The collector's close is final and takes all that was reported: no call is
\* charged behind its back, although the lock may pass from one to the other.
CloseTakesAll == Regular /\ chain.st = "closed" => charged <= chain.got

\* While the channel is not fenced every unit paid upstream is held against the
\* deposit: a paid call that cannot be collected never frees capacity that the
\* next call could spend again.
LossIsBounded == Regular /\ ~blocked => paid <= mark

\* A debt is only written off when the funder took the money back.  The
\* exception is a close that went through and was not recorded: the next pass
\* finds the channel empty.
WriteOffIsLoss == writtenOff => chain.st = "refunded" \/ "unmarked" \in slips

(***************************************************************************)
(* The inductive invariant                                                 *)
(***************************************************************************)

Steps     == {"idle", "lock", "gate", "guard", "read", "verify", "accepted", "pay", "paid", "persist",
              "cover", "absorb", "undo", "reverse", "fence", "release"}
CronSteps == {"idle", "voucher", "state", "revalidate", "mark", "close", "writeoff", "settled", "release"}
Locals    == [pc : Steps, n : Nat, prev : Nat]
Passes    == [pc : CronSteps, cum : Nat, closing : BOOLEAN, empty : BOOLEAN]
States    == {"open", "closing", "refunded", "closed"}

TypeOK == /\ reg \in [deposit : Nat, agent : BOOLEAN]
          /\ lock \in [id : Calls \cup {Cron, Nobody}, live : BOOLEAN]
          /\ mark \in Nat /\ stored \in [cum : Nat, settled : Nat] /\ blocked \in BOOLEAN
          /\ chain \in [st : States, got : Nat]
          /\ proc \in [Calls -> Locals] /\ cron \in Passes
          /\ told \in BOOLEAN /\ paid \in Nat /\ charged \in Nat /\ writtenOff \in BOOLEAN
          /\ slips \subseteq {"overtaken", "unmarked"} /\ left \in Nat

\* The amount each call signed for and the watermark it read.
Asked == [c \in Calls |-> proc[c].n]
Read  == [c \in Calls |-> proc[c].prev]

\* Calls whose voucher was accepted and may yet be taken back: all, those that
\* may still be charged, those that may take it back with nothing paid, those
\* that may still pay; and calls about to have their voucher accepted.
ToCharge  == {"accepted", "pay", "paid", "persist", "cover"}
ToEnd     == ToCharge \cup {"absorb", "undo", "reverse"}
ToPay     == {"accepted", "pay"}
ToReverse == ToPay \cup {"reverse"}
Charging  == {c \in Calls : proc[c].pc \in ToCharge}
Pending   == {c \in Calls : proc[c].pc \in ToEnd}
Paying    == {c \in Calls : proc[c].pc \in ToPay}
Unpaid    == {c \in Calls : proc[c].pc \in ToReverse}
Verifying == {c \in Calls : proc[c].pc = "verify" /\ lock.id = c}

\* Vouchers are accepted in order, and each call read a watermark that counts
\* the ones before it: N what was signed, P what was read, m the watermark.
Ordered(R, V, N, P, m) ==
    /\ \A c \in R : 0 < N[c] /\ N[c] <= m
    /\ \A c, d \in R : c # d => N[c] # N[d]
    /\ \A c, d \in R : N[c] < N[d] => N[c] <= P[d]
    /\ \A c \in R, v \in V : N[c] <= P[v]

Below(S, N, x) == {c \in S : N[c] < x}

\* t units are final and those of S may become so; f is the highest voucher of
\* a final one.  No call of R that may still take its voucher back takes the
\* watermark below what is final or held before it.
Floor(S, R, V, N, P, m, t, f) ==
    /\ f <= m /\ t + Cardinality(S) <= m
    /\ t + Cardinality(Below(S, N, f)) <= f
    /\ \A v \in V : f <= P[v] /\ t + Cardinality(S) <= P[v]
    /\ \A r \in R : /\ N[r] # f
                    /\ N[r] > f => /\ f <= P[r]
                                   /\ t + Cardinality(Below(S, N, N[r])) <= P[r]
                                   /\ t + Cardinality(Below(S, N, N[r])) < N[r]

Counted == /\ Ordered(Pending, Verifying, Asked, Read, mark)
           /\ \E f \in 0 .. mark : f <= stored.cum /\ Floor(Charging, Pending, Verifying, Asked, Read, mark, charged, f)
           /\ ~blocked => \E f \in 0 .. mark : Floor(Paying, Unpaid, Verifying, Asked, Read, mark, paid, f)

\* Who stores holds the lock; who gives back a paid voucher has fenced.
Guarded == /\ \A c \in Calls : /\ At(c, "persist") => lock = [id |-> c, live |-> TRUE]
                               /\ At(c, "undo") => blocked
           /\ CronAt("mark") => lock = [id |-> Cron, live |-> TRUE]

\* The channel is fenced and no holder of the lock is past the gate.
Outer  == {"idle", "lock", "gate", "release"}
Sealed == blocked /\ \A c \in Calls : Own(c) => proc[c].pc \in Outer

\* What the cron read is what is stored, as long as it has the lock; from its
\* mark on nothing is stored any more.
Collected == /\ CronAt("state") /\ Own(Cron) => cron.cum = stored.cum
             /\ CronAt("revalidate") /\ Own(Cron) => cron.cum = stored.cum
             /\ CronAt("mark") => cron.cum = stored.cum
             /\ cron.pc \in {"close", "writeoff", "settled"} => Sealed /\ cron.cum = stored.cum
             /\ chain.st = "closed" => Sealed /\ chain.got = stored.cum

\* An empty channel is one the funder emptied, or one whose close is recorded
\* or about to be, or was lost.
Recorded == /\ cron.closing /\ cron.empty => chain.st \in {"refunded", "closed"}
            /\ CronAt("writeoff") => chain.st \in {"refunded", "closed"}
            /\ chain.st = "closed" => \/ "unmarked" \in slips
                                      \/ CronAt("settled")
                                      \/ stored.settled >= stored.cum /\ cron.pc \in {"idle", "release"}
            /\ writtenOff => chain.st = "refunded" \/ "unmarked" \in slips

IInv == TypeOK /\ Guarded /\ Collected /\ Recorded /\ (Regular => Counted)

=============================================================================
