--------------------------- MODULE PartnerCoupons ---------------------------
(***************************************************************************)
(* The prepaid balance of one coupon partner (routes/partner-store.ts) and *)
(* the coupons it pays for (routes/coupon.ts).                             *)
(*                                                                         *)
(* Balance, unsettled operations and applied keys are one record, every    *)
(* coupon and every idempotency key is another, and a step changes one of  *)
(* them: issuing, repairing, refunding and redeeming are sequences of      *)
(* steps that interleave and may stop anywhere.  Time only decides that a  *)
(* claim or an operation counts as stale, and it may do so at any moment.  *)
(* Issue requests are retries of one caller key; a coupon costs one unit.  *)
(***************************************************************************)
EXTENDS Naturals, FiniteSets

CONSTANTS Procs,       \* concurrent requests
          MaxCodes,    \* bound: coupon codes
          MaxOps,      \* bound: operation ids issue attempts may draw
          TopUp,       \* units the operator credits
          MaxAsks,     \* bound: void and redeem requests together
          MaxAdmin,    \* bound: resolutions by an administrator
          MaxFaults    \* bound: requests that die

VARIABLES partner,   \* the partner's record
          coupon,    \* coupon[c]: the record under the key of a code
          idem,      \* idem[k]: the claim on an idempotency key
          proc,      \* proc[p]: next step and locals of a request
          used,      \* operation ids drawn
          debited,   \* operations whose debit was committed
          credits,   \* credits[op]: credits committed for the operation
          paid,      \* paid[c]: pay-invoice calls for the coupon
          freed,     \* freed[c]: coupons put back by hand after paying began
          loose,     \* the caller key was released under a live operation
          dropped,   \* an intent to refund was dropped before the coupon flipped
          left       \* what is left of each bound

history == <<used, debited, credits, paid, freed, loose, dropped>>
vars    == <<partner, coupon, idem, proc, history, left>>

\* Ids and codes are random in the code; here they are numbered as they are drawn.
Nothing  == 0
Ops      == 1 .. MaxOps
Codes    == 1 .. MaxCodes
IssueKey == <<"issue", Nothing>>
TopupKey == <<"topup", Nothing>>
Keys     == {IssueKey, TopupKey} \cup {<<"unissue", o>> : o \in Ops} \cup {<<"refund", c>> : c \in Codes}

Absent == [st |-> "absent", op |-> Nothing, owed |-> FALSE, by |-> Nothing]
Idle   == [pc |-> "idle", op |-> Nothing, code |-> Nothing, key |-> TopupKey, ret |-> "idle",
           app |-> Nothing, fly |-> Nothing, again |-> FALSE]

Init == /\ partner = [bal |-> 0, issues |-> {}, refunds |-> {}, applied |-> {}, code |-> Nothing]
        /\ coupon = [c \in Codes |-> Absent]
        /\ idem = [k \in Keys |-> [st |-> "free", code |-> Nothing]]
        /\ proc = [p \in Procs |-> Idle]
        /\ used = {} /\ debited = {} /\ credits = [o \in Ops |-> 0]
        /\ paid = [c \in Codes |-> 0] /\ freed = [c \in Codes |-> 0]
        /\ loose = FALSE /\ dropped = FALSE
        /\ left = [ask |-> MaxAsks, admin |-> MaxAdmin, fault |-> MaxFaults]

At(p, l)     == proc[p].pc = l
Go(p, l)     == proc' = [proc EXCEPT ![p] = IF l = "idle" THEN Idle ELSE [@ EXCEPT !.pc = l]]
Done(p)      == proc' = [proc EXCEPT ![p] = Idle]
Tomb(c)      == coupon[c].st = "tomb"
Ours(c, o)   == coupon[c].op = o /\ ~Tomb(c)
Spend(b)     == left[b] > 0 /\ left' = [left EXCEPT ![b] = @ - 1]
\* The caller key is taken: the request looks a second time for what it made.
LookAgain(p) == proc' = [proc EXCEPT ![p] = [Idle EXCEPT !.pc = "find", !.again = TRUE]]
\* Call applyLedger with a key, then go on at l.
Ledger(p, k, l) == proc' = [proc EXCEPT ![p].pc = "claim", ![p].key = k, ![p].ret = l]

(***************************************************************************)
(* applyLedger: claim the key, commit balance and breadcrumbs, settle      *)
(***************************************************************************)

\* A key that is done, or pending and fresh, is not ours; a stale one is.
Claim(p) ==
    /\ At(p, "claim")
    /\ LET k == proc[p].key IN
         \/ /\ idem[k].st # "done"
            /\ idem' = [idem EXCEPT ![k].st = "pending"]
            /\ Go(p, "commit")
         \/ /\ idem[k].st # "free"
            /\ UNCHANGED idem
            /\ IF k = IssueKey THEN LookAgain(p)
                               ELSE Go(p, proc[p].ret)
    /\ UNCHANGED <<partner, coupon, history, left>>

\* What the commit of a key does to the record besides remembering the key.
Debited(r, o, c) == [r EXCEPT !.bal = @ - 1, !.issues = @ \cup {<<o, c>>}, !.code = c]
Credited(r, k)   ==
    CASE k[1] = "topup"   -> [r EXCEPT !.bal = @ + TopUp]
      [] k[1] = "unissue" -> [r EXCEPT !.bal = @ + 1, !.issues = {i \in @ : i[1] # k[2]}]
      [] k[1] = "refund"  -> [r EXCEPT !.bal = @ + 1, !.refunds = @ \ {k[2]}]

CreditedOp(k) == CASE k[1] = "unissue" -> k[2] [] k[1] = "refund" -> coupon[k[2]].op [] OTHER -> Nothing

\* Faulty: the record does not remember the keys it applied.
FaultyCommit(p) ==
    /\ At(p, "commit")
    /\ LET k == proc[p].key IN
         \/ /\ k # IssueKey
            /\ partner' = Credited(partner, k)
            /\ credits' = [o \in Ops |-> IF o = CreditedOp(k) THEN credits[o] + 1 ELSE credits[o]]
            /\ Go(p, "settle") /\ UNCHANGED debited
         \/ /\ k = IssueKey /\ partner.bal > 0
            /\ partner' = Debited(partner, proc[p].op, proc[p].code)
            /\ debited' = debited \cup {proc[p].op}
            /\ Go(p, "settle") /\ UNCHANGED credits
         \/ /\ k = IssueKey
            /\ Done(p) /\ UNCHANGED <<partner, debited, credits>>
    /\ UNCHANGED <<coupon, idem, used, paid, freed, loose, dropped, left>>

\* Already applied: nothing.  A refusal (balance, suspension, too many
\* operations) throws and leaves the claim pending.
Commit(p) ==
    /\ At(p, "commit")
    /\ LET k == proc[p].key
           Remember(r) == [r EXCEPT !.applied = @ \cup {k}]
       IN \/ /\ k \in partner.applied
             /\ UNCHANGED <<partner, debited, credits>>
             /\ IF k = IssueKey THEN LookAgain(p)
                                ELSE Go(p, proc[p].ret)
          \/ /\ k \notin partner.applied /\ k # IssueKey
             /\ partner' = Remember(Credited(partner, k))
             /\ credits' = [o \in Ops |-> IF o = CreditedOp(k) THEN credits[o] + 1 ELSE credits[o]]
             /\ Go(p, "settle") /\ UNCHANGED debited
          \/ /\ k \notin partner.applied /\ k = IssueKey /\ partner.bal > 0
             /\ partner' = Remember(Debited(partner, proc[p].op, proc[p].code))
             /\ debited' = debited \cup {proc[p].op}
             /\ Go(p, "settle") /\ UNCHANGED credits
          \/ /\ k \notin partner.applied /\ k = IssueKey
             /\ Done(p) /\ UNCHANGED <<partner, debited, credits>>
    /\ UNCHANGED <<coupon, idem, used, paid, freed, loose, dropped, left>>

Settle(p) ==
    /\ At(p, "settle")
    /\ LET k == proc[p].key IN
         /\ idem' = [idem EXCEPT ![k] = IF @.st = "done" THEN @
                                        ELSE [st |-> "done", code |-> proc[p].code]]
         /\ Go(p, IF k = IssueKey THEN "create" ELSE proc[p].ret)
    /\ UNCHANGED <<partner, coupon, history, left>>

(***************************************************************************)
(* issuePartnerCoupon                                                      *)
(***************************************************************************)

Issue(p) == /\ At(p, "idle") /\ used # Ops
            /\ Go(p, "find")
            /\ UNCHANGED <<partner, coupon, idem, history, left>>

\* findIssuedByClientKey reads the partner,
Find(p) ==
    /\ At(p, "find")
    /\ \E f \in IF partner.issues = {} THEN {Nothing} ELSE {i[2] : i \in partner.issues} :
         proc' = [proc EXCEPT ![p].pc = "found", ![p].fly = f,
                              ![p].app = IF IssueKey \in partner.applied THEN partner.code ELSE Nothing]
    /\ UNCHANGED <<partner, coupon, idem, history, left>>

\* Nothing found: the first time a new attempt starts, the second the request
\* is answered that another one is in flight.
NotFound(p) == IF proc[p].again THEN Idle ELSE [Idle EXCEPT !.pc = "draw"]

\* then the claim,
Found(p) ==
    /\ At(p, "found")
    /\ LET i == idem[IssueKey]
           c == IF i.st = "done" THEN i.code
                ELSE IF proc[p].app # Nothing THEN proc[p].app ELSE proc[p].fly
       IN proc' = [proc EXCEPT ![p] = IF c = Nothing THEN NotFound(p)
                                      ELSE [@ EXCEPT !.pc = "lookup", !.code = c, !.app = Nothing]]
    /\ UNCHANGED <<partner, coupon, idem, history, left>>

\* then the coupon.  One that is not there, with no operation open as the
\* partner was read, means that the key may be used again.
Lookup(p) ==
    /\ At(p, "lookup")
    /\ LET c == proc[p].code IN
         proc' = [proc EXCEPT ![p] =
                    IF coupon[c].op # Nothing /\ ~Tomb(c) THEN Idle
                    ELSE IF proc[p].fly = Nothing THEN [Idle EXCEPT !.pc = "release", !.ret = NotFound(p).pc]
                    ELSE NotFound(p)]
    /\ UNCHANGED <<partner, coupon, idem, history, left>>

\* An operation of the caller key that was debited and not given back.
Live == {o \in debited : credits[o] = 0}

\* releaseIdempotency, in two steps.
Release(p) ==
    /\ At(p, "release")
    /\ idem' = [idem EXCEPT ![IssueKey] = [st |-> "free", code |-> Nothing]]
    /\ loose' = (loose \/ Live # {})
    /\ Go(p, "forget")
    /\ UNCHANGED <<partner, coupon, used, debited, credits, paid, freed, dropped, left>>

Forget(p) ==
    /\ At(p, "forget")
    /\ partner' = [partner EXCEPT !.applied = @ \ {IssueKey}, !.code = Nothing]
    /\ loose' = (loose \/ Live # {})
    /\ Go(p, proc[p].ret)
    /\ UNCHANGED <<coupon, idem, used, debited, credits, paid, freed, dropped, left>>

\* A fresh operation id and a code, which may be taken.
Draw(p) ==
    /\ At(p, "draw")
    /\ \/ \E o \in Ops \ used, c \in Codes :
            /\ o = Cardinality(used) + 1 /\ c <= o
            /\ used' = used \cup {o}
            /\ proc' = [proc EXCEPT ![p] = [Idle EXCEPT !.pc = "claim", !.key = IssueKey,
                                                        !.op = o, !.code = c]]
       \/ used = Ops /\ Done(p) /\ UNCHANGED used
    /\ UNCHANGED <<partner, coupon, idem, debited, credits, paid, freed, loose, dropped, left>>

\* The coupon is created if its key is absent.
Create(p) ==
    /\ At(p, "create")
    /\ LET c == proc[p].code IN
         IF coupon[c].st = "absent"
           THEN /\ coupon' = [coupon EXCEPT ![c] = [Absent EXCEPT !.st = "issued", !.op = proc[p].op]]
                /\ Go(p, "confirm")
           ELSE /\ proc' = [proc EXCEPT ![p].pc = "collided"] /\ UNCHANGED coupon
    /\ UNCHANGED <<partner, idem, history, left>>

\* confirmPendingIssue
Confirm(p) ==
    /\ At(p, "confirm")
    /\ partner' = [partner EXCEPT !.issues = {i \in @ : i[1] # proc[p].op}]
    /\ Done(p)
    /\ UNCHANGED <<coupon, idem, history, left>>

\* refundPendingIssue: the operation is looked up again before the credit.
Unissue(p, l) ==
    LET o == proc[p].op IN
    IF \E i \in partner.issues : i[1] = o THEN Ledger(p, <<"unissue", o>>, l)
    ELSE Go(p, l)

\* After a collision the debit is given back and the key released for the next attempt.
Collided(p) ==
    /\ At(p, "collided")
    /\ Unissue(p, "uncollide")
    /\ UNCHANGED <<partner, coupon, idem, history, left>>

Uncollide(p) ==
    /\ At(p, "uncollide")
    /\ proc' = [proc EXCEPT ![p] = [Idle EXCEPT !.pc = "release", !.ret = "draw"]]
    /\ UNCHANGED <<partner, coupon, idem, history, left>>

(***************************************************************************)
(* reconcilePending, one unsettled operation at a time                     *)
(***************************************************************************)

Reconcile(p) ==
    /\ At(p, "idle")
    /\ \/ \E i \in partner.issues :
            proc' = [proc EXCEPT ![p].pc = "inspect", ![p].op = i[1], ![p].code = i[2]]
       \/ \E c \in partner.refunds : proc' = [proc EXCEPT ![p].pc = "intent_seen", ![p].code = c]
    /\ UNCHANGED <<partner, coupon, idem, history, left>>

Inspect(p) ==
    /\ At(p, "inspect")
    /\ LET c == proc[p].code IN
         Go(p, IF coupon[c].st = "absent" THEN "tomb"
               ELSE IF Ours(c, proc[p].op) THEN "confirm" ELSE "unissue")
    /\ UNCHANGED <<partner, coupon, idem, history, left>>

\* Faulty: an empty key is taken as proof that the coupon will never be.
FaultyTombstone(p) ==
    /\ At(p, "tomb")
    /\ Go(p, "unissue")
    /\ UNCHANGED <<partner, coupon, idem, history, left>>

\* An empty key is taken before the refund; who loses it looks again.
Tombstone(p) ==
    /\ At(p, "tomb")
    /\ LET c == proc[p].code IN
         IF coupon[c].st = "absent"
           THEN /\ coupon' = [coupon EXCEPT ![c] = [Absent EXCEPT !.st = "tomb", !.op = proc[p].op]]
                /\ Go(p, "unissue")
           ELSE /\ UNCHANGED coupon /\ Go(p, "reinspect")
    /\ UNCHANGED <<partner, idem, history, left>>

Reinspect(p) ==
    /\ At(p, "reinspect")
    /\ LET c == proc[p].code IN
         proc' = [proc EXCEPT ![p] = IF Tomb(c) THEN [@ EXCEPT !.pc = "unissue"]
                                     ELSE IF Ours(c, proc[p].op) THEN [@ EXCEPT !.pc = "confirm"]
                                     ELSE Idle]
    /\ UNCHANGED <<partner, coupon, idem, history, left>>

UnissueStep(p) ==
    /\ At(p, "unissue")
    /\ Unissue(p, "idle")
    /\ UNCHANGED <<partner, coupon, idem, history, left>>

(***************************************************************************)
(* voidPartnerCoupon and the settlement of its intent                      *)
(***************************************************************************)

\* The intent is recorded on the partner first.
Void(p, c) ==
    /\ At(p, "idle") /\ coupon[c].op # Nothing /\ ~Tomb(c)
    /\ Spend("ask")
    /\ partner' = [partner EXCEPT !.refunds = @ \cup {c}]
    /\ proc' = [proc EXCEPT ![p].pc = "flip", ![p].code = c]
    /\ UNCHANGED <<coupon, idem, history>>

\* Then issued -> void is won, with the authorisation of the credit.
Flip(p) ==
    /\ At(p, "flip")
    /\ LET c == proc[p].code IN
         IF coupon[c].st = "issued"
           THEN /\ coupon' = [coupon EXCEPT ![c].st = "void", ![c].owed = TRUE, ![c].by = Nothing]
                /\ Ledger(p, <<"refund", c>>, "idle")
           ELSE /\ UNCHANGED coupon
                /\ IF coupon[c].owed THEN Ledger(p, <<"refund", c>>, "idle") ELSE Go(p, "drop")
    /\ UNCHANGED <<partner, idem, history, left>>

\* settlePendingRefund: only a void that carries the authorisation is owed.
IntentSeen(p) ==
    /\ At(p, "intent_seen")
    /\ LET c == proc[p].code IN
         IF coupon[c].st = "void" /\ coupon[c].owed THEN Ledger(p, <<"refund", c>>, "idle")
         ELSE Go(p, "drop")
    /\ UNCHANGED <<partner, coupon, idem, history, left>>

Drop(p) ==
    /\ At(p, "drop")
    /\ partner' = [partner EXCEPT !.refunds = @ \ {proc[p].code}]
    /\ dropped' = \/ dropped \/ coupon[proc[p].code].owed
                  \/ \E q \in Procs \ {p} : proc[q].code = proc[p].code /\ At(q, "flip")
    /\ Done(p)
    /\ UNCHANGED <<coupon, idem, used, debited, credits, paid, freed, loose, left>>

(***************************************************************************)
(* Redemption                                                              *)
(***************************************************************************)

\* A claim that is stale may be taken over.
Redeem(p, c) ==
    /\ At(p, "idle") /\ coupon[c].st \in {"issued", "redeeming"}
    /\ Spend("ask")
    /\ coupon' = [coupon EXCEPT ![c].st = "redeeming", ![c].by = p]
    /\ proc' = [proc EXCEPT ![p].pc = "redeem", ![p].code = c]
    /\ UNCHANGED <<partner, idem, history>>

Holds(p, st) == LET c == proc[p].code IN coupon[c].st = st /\ coupon[c].by = p

\* Quote, amount, stop switch, funder balance, claim or gate of the link: any
\* may refuse, and the coupon is given back.
Rollback(p) ==
    /\ At(p, "redeem")
    /\ coupon' = IF Holds(p, "redeeming")
                   THEN [coupon EXCEPT ![proc[p].code].st = "issued", ![proc[p].code].by = Nothing]
                   ELSE coupon
    /\ Done(p)
    /\ UNCHANGED <<partner, idem, history, left>>

\* redeeming -> paying must be won.
EnterPaying(p) ==
    /\ At(p, "redeem")
    /\ IF Holds(p, "redeeming")
         THEN coupon' = [coupon EXCEPT ![proc[p].code].st = "paying"] /\ Go(p, "pay")
         ELSE Done(p) /\ UNCHANGED coupon
    /\ UNCHANGED <<partner, idem, history, left>>

Pay(p) ==
    /\ At(p, "pay")
    /\ paid' = [paid EXCEPT ![proc[p].code] = @ + 1]
    /\ Go(p, "finalize")
    /\ UNCHANGED <<partner, coupon, idem, used, debited, credits, freed, loose, dropped, left>>

\* Only our own payment is finalized, redeemed or parked.
Finalize(p) ==
    /\ At(p, "finalize")
    /\ \E st \in {"redeemed", "manual_review"} :
         coupon' = IF Holds(p, "paying") THEN [coupon EXCEPT ![proc[p].code].st = st] ELSE coupon
    /\ Done(p)
    /\ UNCHANGED <<partner, idem, history, left>>

(***************************************************************************)
(* The administrator, the operator, and requests that die                  *)
(***************************************************************************)

\* handleResolveCoupon: void has no status check; a tombstone, which is void, stays one.
Resolve(c) ==
    /\ coupon[c].st # "absent" /\ Spend("admin")
    /\ LET Set(st) == coupon' = [coupon EXCEPT ![c].st = st, ![c].by = Nothing] IN
         \/ /\ ~Tomb(c) /\ Set("void") /\ UNCHANGED freed
         \/ /\ coupon[c].st \in {"manual_review", "redeeming", "paying"}
            /\ Set("issued")
            /\ freed' = [freed EXCEPT ![c] = IF coupon[c].st = "redeeming" THEN @ ELSE @ + 1]
         \/ /\ coupon[c].st \in {"manual_review", "redeeming", "paying"}
            /\ Set("redeemed") /\ UNCHANGED freed
    /\ UNCHANGED <<partner, idem, proc, used, debited, credits, paid, loose, dropped>>

\* topupPartner
TopUpPartner(p) ==
    /\ At(p, "idle") /\ idem[TopupKey].st # "done"
    /\ Ledger(p, TopupKey, "idle")
    /\ UNCHANGED <<partner, coupon, idem, history, left>>

Die(p) ==
    /\ ~At(p, "idle") /\ Spend("fault")
    /\ Done(p)
    /\ UNCHANGED <<partner, coupon, idem, history>>

Step(p) ==
    \/ Claim(p) \/ Commit(p) \/ Settle(p)
    \/ Issue(p) \/ Find(p) \/ Found(p) \/ Lookup(p) \/ Release(p) \/ Forget(p) \/ Draw(p)
    \/ Create(p) \/ Confirm(p) \/ Collided(p) \/ Uncollide(p)
    \/ Reconcile(p) \/ Inspect(p) \/ Tombstone(p) \/ Reinspect(p) \/ UnissueStep(p)
    \/ Flip(p) \/ IntentSeen(p) \/ Drop(p)
    \/ Rollback(p) \/ EnterPaying(p) \/ Pay(p) \/ Finalize(p)
    \/ TopUpPartner(p) \/ Die(p)

Next == \/ \E p \in Procs : Step(p) \/ \E c \in Codes : Void(p, c) \/ Redeem(p, c)
        \/ \E c \in Codes : Resolve(c)

Spec == Init /\ [][Next]_vars

(***************************************************************************)
(* Properties                                                              *)
(***************************************************************************)

\* Every coupon that can be spent has its own debit, given back at most once
\* and only for a coupon that is void or never came to be; and what was given
\* back was never paid to a merchant, unless an administrator put the coupon
\* back after its payment had begun.
NoFreeCoupon ==
    /\ \A o \in Ops : credits[o] <= IF o \in debited THEN 1 ELSE 0
    /\ \A c \in Codes : LET o == coupon[c].op IN
         o # Nothing /\ ~Tomb(c) =>
           /\ o \in debited
           /\ credits[o] > 0 => coupon[c].st = "void" /\ (freed[c] > 0 \/ paid[c] = 0)

\* A debit that was not given back has bought the coupon of its operation, or
\* the partner's record still knows the operation; and a refund that was
\* authorised and not yet credited is known there too, unless a repair dropped
\* the intent under a void that was still under way.
NothingStranded ==
    /\ \A o \in Live : \/ \E i \in partner.issues : i[1] = o
                       \/ \E c \in Codes : Ours(c, o)
    /\ \A c \in Codes : coupon[c].owed /\ credits[coupon[c].op] = 0 =>
                          c \in partner.refunds \/ dropped

\* A coupon is sent to pay-invoice at most once, and once more for each time an
\* administrator puts it back from `paying` or `manual_review`.
OnePayment == \A c \in Codes : paid[c] <= 1 + freed[c]

\* Retries of one caller key are charged once, unless the key was released
\* while an operation made under it was still live.
ChargedOnce == loose \/ Cardinality(Live) <= 1

(***************************************************************************)
(* The inductive invariant                                                 *)
(***************************************************************************)

Asking   == {"find", "found", "lookup", "release", "forget", "draw"}
Booking  == {"claim", "commit", "settle"}
Making   == {"create", "confirm", "collided", "uncollide", "inspect", "tomb", "reinspect", "unissue"}
Spending == {"flip", "intent_seen", "drop", "redeem", "pay", "finalize"}
Places   == {"idle"} \cup Asking \cup Booking \cup Making \cup Spending
Over     == {"paying", "manual_review", "redeemed", "void"}
Locals  == [pc : Places, op : Ops \cup {Nothing}, code : Codes \cup {Nothing},
            key : Keys, ret : {"idle", "draw", "uncollide"},
            app : Codes \cup {Nothing}, fly : Codes \cup {Nothing}, again : BOOLEAN]
Records == [st : Over \cup {"absent", "issued", "tomb", "redeeming"}, op : Ops \cup {Nothing},
            owed : BOOLEAN, by : Procs \cup {Nothing}]
Claims  == [st : {"free", "pending", "done"}, code : Codes \cup {Nothing}]

TypeOK == /\ partner \in [bal : Nat, issues : SUBSET (Ops \X Codes), refunds : SUBSET Codes,
                          applied : SUBSET Keys, code : Codes \cup {Nothing}]
          /\ coupon \in [Codes -> Records] /\ idem \in [Keys -> Claims] /\ proc \in [Procs -> Locals]
          /\ used \subseteq Ops /\ debited \subseteq Ops /\ credits \in [Ops -> Nat]
          /\ paid \in [Codes -> Nat] /\ freed \in [Codes -> Nat]
          /\ loose \in BOOLEAN /\ dropped \in BOOLEAN
          /\ left \in [{"ask", "admin", "fault"} -> Nat]

\* Operation o has drawn, or is inspected with, code c.
Pair(o, c) == \/ <<o, c>> \in partner.issues \/ coupon[c].op = o
              \/ \E p \in Procs : proc[p].op = o /\ proc[p].code = c

\* Every operation has one code, and its id was drawn.
Paired == \A o \in Ops, c \in Codes : Pair(o, c) => /\ o \in used
                                                    /\ \A d \in Codes : Pair(o, d) => c = d

\* The request that drew an operation and may still create its coupon.
Drawing(p) == proc[p].pc \in Booking \cup {"create"} /\ proc[p].key = IssueKey

Drawn(p) == Drawing(p) => /\ proc[p].op \in Ops /\ proc[p].code \in Codes
                          /\ \A c \in Codes : coupon[c].op = proc[p].op => Tomb(c)
                          /\ \A q \in Procs : Drawing(q) /\ proc[q].op = proc[p].op => q = p

\* The operation has no coupon and can get none.
Dead(o) == /\ \A c \in Codes : coupon[c].op = o => Tomb(c)
           /\ \A p \in Procs : Drawing(p) /\ proc[p].op = o => coupon[proc[p].code].st # "absent"

\* What a request with locals l relies on.
Fits(l) ==
    /\ l.pc \in {"idle", "find", "found"} => l.op = Nothing
    /\ l.pc \in {"create", "collided"} => l.key = IssueKey
    /\ l.pc = "settle" /\ l.key = IssueKey => l.op \in debited
    /\ l.pc \in Making \ {"uncollide"} => l.op \in debited /\ l.code \in Codes
    /\ l.pc = "confirm" => Ours(l.code, l.op)
    /\ l.pc \in {"collided", "unissue"} => Dead(l.op)
    /\ l.pc \in Booking /\ l.key[1] = "unissue" => l.key[2] \in debited /\ Dead(l.key[2])
    /\ l.pc \in Booking /\ l.key[1] = "refund" => coupon[l.key[2]].owed
    /\ l.pc \in Spending \cup {"lookup"} => l.code \in Codes
    /\ l.pc = "flip" => l.code \in partner.refunds \/ dropped \/ coupon[l.code].owed

\* A credit is remembered, and a live debit has its coupon or its breadcrumb.
Backed(o) ==
    /\ credits[o] <= 1
    /\ credits[o] > 0 => /\ o \in debited
                         /\ \/ <<"unissue", o>> \in partner.applied
                            \/ \E c \in Codes : <<"refund", c>> \in partner.applied /\ coupon[c].op = o
    /\ <<"unissue", o>> \in partner.applied => o \in debited /\ Dead(o)
    /\ o \in debited /\ credits[o] = 0 => \/ \E i \in partner.issues : i[1] = o
                                          \/ \E c \in Codes : Ours(c, o)

Pays(c) == {p \in Procs : At(p, "pay") /\ proc[p].code = c}

\* A coupon's debit, its refund, and its payments.
Kept(c) ==
    /\ coupon[c].st = "absent" => coupon[c].op = Nothing /\ ~coupon[c].owed
    /\ coupon[c].st # "absent" => coupon[c].op \in debited
    /\ coupon[c].owed => coupon[c].st = "void" /\ (freed[c] > 0 \/ (paid[c] = 0 /\ Pays(c) = {}))
    /\ paid[c] + Cardinality(Pays(c)) <= freed[c] + (IF coupon[c].st \in Over THEN 1 ELSE 0)
    /\ <<"refund", c>> \in partner.applied => coupon[c].owed
    /\ coupon[c].owed /\ credits[coupon[c].op] = 0 => c \in partner.refunds \/ dropped

\* The caller key is remembered as long as one of its operations is live.
Charged == \/ loose
           \/ /\ \A o \in Live : IssueKey \in partner.applied
              /\ \A o, q \in Live : o = q

IInv == /\ TypeOK /\ Paired /\ debited \subseteq used
        /\ \A i \in partner.issues : i[1] \in debited
        /\ \A p \in Procs : Drawn(p) /\ Fits(proc[p])
        /\ \A o \in Ops : Backed(o)
        /\ \A c \in Codes : Kept(c)
        /\ Charged

=============================================================================
