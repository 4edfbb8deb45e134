--------------------------- MODULE UpiFulfillment ---------------------------
(***************************************************************************)
(* Invoices paid on behalf of UPI customers (routes/upi-invoice.ts): the   *)
(* first protocol (verified-pay-in) and the second (verified-funding).     *)
(*                                                                         *)
(* One invoice, several orders that want it paid, another channel that may *)
(* hold its claim (invoice-claim.ts), and somebody outside who may pay it  *)
(* or change it.  Requests are retried and status polls confirm the order  *)
(* with the provider; every store access and every call is a step.  Time   *)
(* only decides that a record is stale, and it may do so at any moment.    *)
(***************************************************************************)
EXTENDS Naturals, FiniteSets

CONSTANTS V1, V2,      \* orders of the first and of the second protocol
          Procs,       \* concurrent requests and polls
          Prints,      \* fingerprints the live invoice may have
          MaxChanges,  \* bound: changes of the invoice by its issuer
          MaxPolls,    \* bound: status polls
          MaxFaults    \* bound: requests that die

Orders  == V1 \cup V2
Nothing == "nothing"
Other   == "other"     \* the crypto and the coupon channel
Outside == "outside"   \* a payer we know nothing of
Dead    == "dead"      \* the provider will never settle the invoice

VARIABLES rec,      \* rec[o]: the fulfilment record
          claim,    \* who holds the invoice's claim
          settled,  \* who settled the invoice at the provider
          print,    \* fingerprint of the live invoice
          proc,     \* proc[p]: next step and locals of a request
          spent,    \* who had the executor send money
          first,    \* first[o]: fingerprint first frozen for the order
          called,   \* called[o]: fingerprint the executor was called with
          presumed, \* <<o, w>>: o was failed on the word of w (a poll that had read
                    \* it queued, an answer that rejected its call) but may pay
          left      \* what is left of each bound

world   == <<settled, print, spent>>
history == <<first, called, presumed>>
vars    == <<rec, claim, proc, world, history, left>>

Absent == [st |-> "absent", phase |-> "not_started", print |-> Nothing]
Idle   == [pc |-> "idle", order |-> Nothing, print |-> Nothing, claimed |-> FALSE,
           snap |-> Absent, live |-> Nothing, pre |-> FALSE]

Init == /\ rec = [o \in Orders |-> Absent]
        /\ claim = Nothing /\ settled = Nothing /\ print \in Prints
        /\ proc = [p \in Procs |-> Idle]
        /\ spent = {}
        /\ first = [o \in Orders |-> Nothing] /\ called = [o \in Orders |-> Nothing]
        /\ presumed = {}
        /\ left = [change |-> MaxChanges, poll |-> MaxPolls, fault |-> MaxFaults]

At(p, l)  == proc[p].pc = l
Go(p, l)  == proc' = [proc EXCEPT ![p].pc = l]
Done(p)   == proc' = [proc EXCEPT ![p] = Idle]
Spend(b)  == left[b] > 0 /\ left' = [left EXCEPT ![b] = @ - 1]
Order(p)  == proc[p].order

Terminal(r) == r.st \in {"paid", "failed"}

\* transition: terminal states are sticky.
Transition(o, st) == rec' = [rec EXCEPT ![o].st = IF Terminal(rec[o]) THEN @ ELSE st]

(***************************************************************************)
(* verified-pay-in                                                         *)
(***************************************************************************)

\* Replay check, stop switch, quote and live invoice.  What the live invoice
\* says decides now whether the record will be failed once it is created.
Receive1(p, o) ==
    /\ At(p, "idle") /\ rec[o] = Absent
    /\ \E pre \in BOOLEAN :
         /\ settled # Nothing => pre
         /\ proc' = [proc EXCEPT ![p] = [Idle EXCEPT !.pc = "create", !.order = o, !.pre = pre]]
    /\ UNCHANGED <<rec, claim, world, history, left>>

\* The record is inserted; a concurrent duplicate is answered as a replay.
Create1(p) ==
    /\ At(p, "create")
    /\ IF rec[Order(p)] = Absent
         THEN /\ rec' = [rec EXCEPT ![Order(p)].st = "queued"]
              /\ Go(p, IF proc[p].pre THEN "fail" ELSE "claim1")
         ELSE Done(p) /\ UNCHANGED rec
    /\ UNCHANGED <<claim, world, history, left>>

Fail1(p) ==
    /\ At(p, "fail")
    /\ Transition(Order(p), "failed")
    /\ Done(p)
    /\ UNCHANGED <<claim, world, history, left>>

\* claimInvoiceKey: free, or already this order's.
Claimable(o) == claim \in {Nothing, o}

\* Faulty: a held claim is not a refusal.
FaultyClaim1(p) ==
    /\ At(p, "claim1")
    /\ claim' = Order(p) /\ Go(p, "start")
    /\ UNCHANGED <<rec, world, history, left>>

Claim1(p) ==
    /\ At(p, "claim1")
    /\ IF Claimable(Order(p)) THEN claim' = Order(p) /\ Go(p, "start")
                              ELSE Go(p, "fail") /\ UNCHANGED claim
    /\ UNCHANGED <<rec, world, history, left>>

Start1(p) ==
    /\ At(p, "start")
    /\ Transition(Order(p), "processing")
    /\ Go(p, "execute")
    /\ UNCHANGED <<claim, world, history, left>>

\* Stop switch, funder balance, lock binding or daily cap refuse, or the
\* executor is called.  It may send the money; it answers, or the answer is
\* lost.  A 4xx counts as a refusal, and money may be gone all the same.
Execute1(p) ==
    /\ At(p, "execute")
    /\ \/ Go(p, "fail") /\ UNCHANGED <<spent, presumed>>
       \/ \E sent \in BOOLEAN, a \in {"accepted", "ambiguous", "rejected"} :
            /\ a = "accepted" => sent
            /\ spent' = IF sent THEN spent \cup {Order(p)} ELSE spent
            /\ presumed' = IF sent /\ a = "rejected" THEN presumed \cup {<<Order(p), "answer">>} ELSE presumed
            /\ Go(p, CASE a = "rejected" -> "fail" [] OTHER -> a)
    /\ UNCHANGED <<rec, claim, settled, print, first, called, left>>

\* An accepted call is confirmed with the provider at once.
Answer1(p) ==
    /\ Order(p) \in V1
    /\ \/ At(p, "accepted") /\ Transition(Order(p), "processing") /\ Go(p, "confirm")
       \/ At(p, "ambiguous") /\ Transition(Order(p), "unknown") /\ Done(p)
    /\ UNCHANGED <<claim, world, history, left>>

(***************************************************************************)
(* confirmWithProvider                                                     *)
(***************************************************************************)

\* The record is read,
Load(p, o) ==
    /\ rec[o] # Absent /\ ~Terminal(rec[o])
    /\ \/ At(p, "idle") /\ Spend("poll")
       \/ At(p, "confirm") /\ Order(p) = o /\ UNCHANGED left
    /\ proc' = [proc EXCEPT ![p] = [Idle EXCEPT !.pc = "fetch", !.order = o, !.snap = rec[o]]]
    /\ UNCHANGED <<rec, claim, world, history>>

Skip(p) ==
    /\ At(p, "confirm") /\ Terminal(rec[Order(p)])
    /\ Done(p)
    /\ UNCHANGED <<rec, claim, world, history, left>>

\* then the provider, which may be out of reach,
Fetch(p) ==
    /\ At(p, "fetch")
    /\ \E live \in {settled, "unreachable"} :
         proc' = [proc EXCEPT ![p].pc = "apply", ![p].live = live]
    /\ UNCHANGED <<rec, claim, world, history, left>>

Success(p)   == proc[p].live \notin {Nothing, Dead, "unreachable"}
\* Another request is between creating the record and its executor's answer.
Executing(o) == \E q \in Procs : proc[q].order = o /\ proc[q].pc \in
                  {"claim1", "start", "execute", "accepted", "ambiguous", "fail"}

\* The order failed on evidence that does not rule its payment out.
Presumed(o) == \E w \in {"poll", "answer"} : <<o, w>> \in presumed

\* then the record that was read decides what is written.
Apply1(p) ==
    LET o == Order(p)
        s == proc[p].snap.st
        Write(st) == Transition(o, st) /\ UNCHANGED presumed
    IN /\ At(p, "apply") /\ o \in V1
       /\ \/ /\ proc[p].live = "unreachable" /\ UNCHANGED <<rec, presumed>>
          \/ /\ proc[p].live # "unreachable" /\ s = "queued"  \* paid_by_other_party, never_executed
             /\ Transition(o, "failed")
             /\ presumed' = IF Executing(o) \/ o \in spent THEN presumed \cup {<<o, "poll">>} ELSE presumed
          \/ /\ proc[p].live # "unreachable" /\ s # "queued"
             /\ \/ Success(p) /\ Write("paid")
                \/ proc[p].live = Dead /\ Write("failed")
                \/ proc[p].live = Nothing /\ s = "processing" /\ Write("unknown")  \* stale
          \/ /\ proc[p].live = Nothing \/ (s = "queued" /\ ~Success(p))  \* not stale
             /\ UNCHANGED <<rec, presumed>>
       /\ Done(p)
       /\ UNCHANGED <<claim, world, first, called, left>>

\* Faulty: a failure is written whatever the record has become.
FaultyApply2(p) ==
    LET o == Order(p)
        r == proc[p].snap
    IN /\ At(p, "apply") /\ o \in V2
       /\ IF r.phase = "not_started"
            THEN rec' = IF Success(p) THEN [rec EXCEPT ![o].st = "failed"] ELSE rec
            ELSE rec' = IF Success(p) /\ ~Terminal(rec[o])
                          THEN [rec EXCEPT ![o].st = "paid", ![o].phase = "terminal"] ELSE rec
       /\ Done(p)
       /\ UNCHANGED <<claim, world, history, left>>

\* A record that is still open, and only such a one, is refused.
Open(o) == rec[o].st = "queued" /\ rec[o].phase = "not_started"

\* confirmV2WithProvider: an order that has not started is refused when
\* somebody else paid; one that has is paid, or unknown and never called again.
Apply2(p) ==
    LET o == Order(p)
        r == proc[p].snap
        Live == ~Terminal(rec[o]) /\ rec[o].phase # "not_started"
    IN /\ At(p, "apply") /\ o \in V2
       /\ \/ /\ r.phase = "not_started" /\ Success(p) /\ Open(o)
             /\ rec' = [rec EXCEPT ![o].st = "failed"]
          \/ /\ r.phase # "not_started" /\ Success(p) /\ Live
             /\ rec' = [rec EXCEPT ![o].st = "paid", ![o].phase = "terminal"]
          \/ /\ r.phase # "not_started" /\ ~Success(p) /\ Live /\ rec[o] = r /\ r.st = "processing"
             /\ rec' = [rec EXCEPT ![o].st = "unknown"]
          \/ UNCHANGED rec
       /\ Done(p)
       /\ UNCHANGED <<claim, world, history, left>>

(***************************************************************************)
(* verified-funding: runV2                                                 *)
(***************************************************************************)

\* Create or load in one step; only an open record is run, and by as many
\* requests as the caller sends.
Receive2(p, o) ==
    /\ At(p, "idle") /\ (rec[o] = Absent \/ Open(o))
    /\ rec' = [rec EXCEPT ![o].st = "queued"]
    /\ proc' = [proc EXCEPT ![p] = [Idle EXCEPT !.pc = "gate1", !.order = o, !.print = rec[o].print]]
    /\ UNCHANGED <<claim, world, history, left>>

\* v2Gate.  Switches, limits, quote, approval: any may refuse; what is out of
\* reach leaves the record queued and the claim where it is.  ok needs an
\* unsettled invoice with the fingerprint that is already frozen, if one is.
Gate(p, l) ==
    \/ /\ settled = Nothing /\ proc[p].print \in {Nothing, print}
       /\ proc' = [proc EXCEPT ![p].pc = l, ![p].print = print]
    \/ Go(p, "refuse")
    \/ Done(p)

Gate1(p) == /\ At(p, "gate1") /\ Gate(p, "freeze")
            /\ UNCHANGED <<rec, claim, world, history, left>>

Freeze(p) ==
    /\ At(p, "freeze")
    /\ LET o == Order(p) IN
         IF ~Open(o) THEN Done(p) /\ UNCHANGED <<rec, first>>
         ELSE IF rec[o].print \notin {Nothing, proc[p].print} THEN Go(p, "refuse") /\ UNCHANGED <<rec, first>>
         ELSE /\ rec' = [rec EXCEPT ![o].print = proc[p].print]
              /\ first' = [first EXCEPT ![o] = IF @ = Nothing THEN proc[p].print ELSE @]
              /\ Go(p, "claim2")
    /\ UNCHANGED <<claim, world, called, presumed, left>>

Claim2(p) ==
    /\ At(p, "claim2")
    /\ LET o == Order(p) IN
         IF Claimable(o)
           THEN /\ claim' = o
                /\ proc' = [proc EXCEPT ![p].pc = "gate2", ![p].claimed = TRUE]
           ELSE Go(p, "refuse") /\ UNCHANGED claim
    /\ UNCHANGED <<rec, world, history, left>>

\* The gate again, then funder balance and stop switch.
Gate2(p) == /\ At(p, "gate2") /\ Gate(p, "acquire")
            /\ UNCHANGED <<rec, claim, world, history, left>>

\* The execution right, granted once and only to an open record.
Acquire(p) ==
    /\ At(p, "acquire")
    /\ IF Open(Order(p))
         THEN /\ rec' = [rec EXCEPT ![Order(p)].st = "processing", ![Order(p)].phase = "calling"]
              /\ Go(p, "call")
         ELSE Done(p) /\ UNCHANGED rec
    /\ UNCHANGED <<claim, world, history, left>>

\* The signer compares the fingerprint before it signs.
Call2(p) ==
    /\ At(p, "call")
    /\ called' = [called EXCEPT ![Order(p)] = proc[p].print]
    /\ \/ /\ print # proc[p].print /\ Go(p, "mismatch") /\ UNCHANGED spent
       \/ \E sent \in BOOLEAN, a \in {"accepted", "ambiguous"} :
            /\ a = "accepted" => sent
            /\ sent => print = proc[p].print
            /\ spent' = IF sent THEN spent \cup {Order(p)} ELSE spent
            /\ Go(p, a)
    /\ UNCHANGED <<rec, claim, settled, print, first, presumed, left>>

\* mark: only while the record is still calling.
Mark(o, st, phase) ==
    rec' = IF rec[o].phase = "calling" /\ ~Terminal(rec[o])
             THEN [rec EXCEPT ![o].st = st, ![o].phase = phase] ELSE rec

Answer2(p) ==
    /\ Order(p) \in V2
    /\ LET o == Order(p) IN
         \/ At(p, "accepted") /\ Mark(o, "processing", "accepted") /\ Go(p, "confirm")
         \/ At(p, "ambiguous") /\ Mark(o, "unknown", "calling") /\ Done(p)
         \/ At(p, "mismatch") /\ Mark(o, "failed", "terminal")
            /\ IF rec' # rec THEN Go(p, "release") ELSE Done(p)
    /\ UNCHANGED <<claim, world, history, left>>

\* v2Refuse, and the claim goes back if it was ours and the refusal applied.
Refuse(p) ==
    /\ At(p, "refuse")
    /\ LET o == Order(p) IN
         IF Open(o) THEN /\ rec' = [rec EXCEPT ![o].st = "failed"]
                         /\ IF proc[p].claimed THEN Go(p, "release") ELSE Done(p)
         ELSE Done(p) /\ UNCHANGED rec
    /\ UNCHANGED <<claim, world, history, left>>

\* releaseInvoiceClaim: only the holder's.
Release(p) ==
    /\ At(p, "release")
    /\ claim' = IF claim = Order(p) THEN Nothing ELSE claim
    /\ Done(p)
    /\ UNCHANGED <<rec, world, history, left>>

(***************************************************************************)
(* The rest of the world                                                   *)
(***************************************************************************)

\* A payment the executor sent, ours or the other channel's, reaches the
\* provider; or an outsider pays; or the invoice dies.
Settle ==
    /\ settled = Nothing
    /\ \E s \in spent \cup {Outside, Dead} : settled' = s
    /\ UNCHANGED <<rec, claim, proc, print, spent, history, left>>

Change ==
    /\ Spend("change")
    /\ print' \in Prints \ {print}
    /\ UNCHANGED <<rec, claim, proc, settled, spent, history>>

\* The other channel claims the invoice, then pays it or lets it go.
OtherChannel ==
    /\ \/ claim = Nothing /\ claim' = Other /\ UNCHANGED spent
       \/ claim = Other /\ Other \notin spent /\ spent' = spent \cup {Other} /\ UNCHANGED claim
       \/ claim = Other /\ Other \notin spent /\ claim' = Nothing /\ UNCHANGED spent
    /\ UNCHANGED <<rec, proc, settled, print, history, left>>

Die(p) ==
    /\ ~At(p, "idle") /\ Spend("fault")
    /\ Done(p)
    /\ UNCHANGED <<rec, claim, world, history>>

Step(p) ==
    \/ Create1(p) \/ Fail1(p) \/ Claim1(p) \/ Start1(p) \/ Execute1(p) \/ Answer1(p)
    \/ Skip(p) \/ Fetch(p) \/ Apply1(p) \/ Apply2(p)
    \/ Gate1(p) \/ Freeze(p) \/ Claim2(p) \/ Gate2(p) \/ Acquire(p) \/ Call2(p)
    \/ Answer2(p) \/ Refuse(p) \/ Release(p) \/ Die(p)

Next == \/ \E p \in Procs : \/ Step(p)
                            \/ \E o \in V1 : Receive1(p, o)
                            \/ \E o \in V2 : Receive2(p, o)
                            \/ \E o \in Orders : Load(p, o)
        \/ Settle \/ Change \/ OtherChannel

Spec == Init /\ [][Next]_vars

(***************************************************************************)
(* Properties                                                              *)
(***************************************************************************)

\* Money leaves for the invoice at most once, whichever orders and channels
\* want it paid and however often their requests are repeated.
PaidOnce == Cardinality(spent) <= 1

\* An order reported failed, which the caller gives back to its customer, did
\* not settle the invoice, and in the second protocol sent nothing at all; an
\* order reported paid holds the claim.  The first protocol has two exceptions:
\* a poll that read the record before its execution started, and an executor
\* that rejected a call after it had sent (the same file, line 1681: such an
\* answer "cannot rule out a spend").
ReportIsTrue == \A o \in Orders :
    /\ rec[o].st = "failed" => \/ o \notin spent
                               \/ o \in V1 /\ (settled # o \/ Presumed(o))
    /\ rec[o].st = "paid" => claim = o

\* The executor of the second protocol is only called with the fingerprint that
\* was frozen first: no sibling's view of a changed invoice replaces it.
CallsWhatWasFrozen == \A o \in V2 : called[o] \in {Nothing, first[o]}

(***************************************************************************)
(* The inductive invariant                                                 *)
(***************************************************************************)

Records == [st : {"absent", "queued", "processing", "unknown", "paid", "failed"},
            phase : {"not_started", "calling", "accepted", "terminal"},
            print : Prints \cup {Nothing}]
Firsts  == {"create", "fail", "claim1", "start", "execute"}
Seconds == {"gate1", "freeze", "claim2", "gate2", "acquire", "call", "mismatch", "refuse", "release"}
Eithers == {"accepted", "ambiguous", "confirm", "fetch", "apply"}
Payers  == Orders \cup {Other}
Steps   == Firsts \cup Seconds \cup Eithers \cup {"idle"}
Locals  == [pc : Steps, order : Orders \cup {Nothing},
            print : Prints \cup {Nothing}, claimed : BOOLEAN, snap : Records,
            live : Payers \cup {Nothing, Outside, Dead, "unreachable"}, pre : BOOLEAN]

TypeOK == /\ rec \in [Orders -> Records]
          /\ claim \in Payers \cup {Nothing}
          /\ settled \in Payers \cup {Nothing, Outside, Dead}
          /\ print \in Prints
          /\ proc \in [Procs -> Locals]
          /\ spent \subseteq Payers
          /\ first \in [Orders -> Prints \cup {Nothing}]
          /\ called \in [Orders -> Prints \cup {Nothing}]
          /\ presumed \subseteq Orders \X {"poll", "answer"}
          /\ left \in [{"change", "poll", "fault"} -> Nat]

\* A step belongs to one protocol, except those both have.
Serves(r) == /\ r.pc \in Firsts => r.order \in V1
             /\ r.pc \in Seconds => r.order \in V2
             /\ r.pc \in Eithers => r.order \in Orders

\* What a record says of the claim and of the money.
Row1(o) == /\ rec[o].st = "absent" => rec[o] = Absent /\ o \notin spent
           /\ rec[o].st \in {"processing", "unknown", "paid"} => claim = o
           /\ rec[o].st = "failed" => \/ Presumed(o)
                                      \/ settled \notin {Nothing, o}
                                      \/ o \notin spent /\ ~Executing(o)
Row2(o) == /\ rec[o].st = "absent" => rec[o] = Absent
           /\ rec[o].phase = "not_started" => o \notin spent
           /\ rec[o].phase # "not_started" /\ rec[o].st # "failed" => claim = o
           /\ rec[o].st = "failed" => o \notin spent
           /\ rec[o].st = "paid" => rec[o].phase # "not_started"

\* A request of the first protocol that is past its creation.
Req1(r) == LET o == r.order IN
    /\ r.pc \in {"fail", "claim1", "start", "execute", "accepted", "ambiguous"} => rec[o].st # "absent"
    /\ r.pc \in {"start", "execute", "accepted", "ambiguous", "confirm"} => claim = o
    /\ r.pc \in {"claim1", "start", "execute"} => o \notin spent
    /\ r.pc = "fail" => o \notin spent \/ Presumed(o)

\* A request of the second one: a claim it took is kept until the order failed,
\* the caller has the execution right, and what is given back was not spent.
Req2(r) == LET o == r.order IN
    /\ r.claimed /\ rec[o].st # "failed" => claim = o
    /\ r.pc \in {"gate2", "acquire"} => r.claimed
    /\ r.pc \in {"call", "mismatch", "accepted", "ambiguous"} => rec[o].phase # "not_started"
    /\ r.pc \in {"call", "mismatch"} => o \notin spent /\ rec[o].st # "failed"
    /\ r.pc = "release" => rec[o].st = "failed"

\* The fingerprint a request goes on with.
Seen(r) == /\ r.pc \in {"freeze", "claim2", "gate2", "acquire", "call"} => r.print \in Prints
           /\ r.pc \in {"claim2", "gate2", "acquire", "call"} => r.print = rec[r.order].print

\* What a poll read is still true.
Polled(r) == /\ r.pc \in {"fetch", "apply"} =>
                  /\ r.snap.st \in {"queued", "processing", "unknown"}
                  /\ r.order \in V1 /\ r.snap.st # "queued" => claim = r.order
             /\ r.pc = "apply" => r.live \in {Nothing, "unreachable", settled}

\* One request executes an order.
Runs(r) == \/ r.order \in V1 /\ r.pc \in {"fail", "claim1", "start", "execute", "accepted", "ambiguous"}
           \/ r.order \in V2 /\ r.pc \in {"call", "mismatch", "accepted", "ambiguous"}
OneRuns == \A p, q \in Procs :
    (Runs(proc[p]) /\ Runs(proc[q]) /\ proc[p].order = proc[q].order) => p = q

Frozen(o) == first[o] = rec[o].print /\ called[o] \in {Nothing, first[o]}

Fine(r) == /\ Serves(r)
           /\ r.order \in V1 => Req1(r)
           /\ r.order \in V2 => Req2(r)
           /\ Seen(r) /\ Polled(r)

IInv == /\ TypeOK
        /\ \A s \in spent : claim = s
        /\ \A o \in V1 : Row1(o)
        /\ \A o \in V2 : Row2(o)
        /\ \A p \in Procs : Fine(proc[p])
        /\ OneRuns
        /\ \A o \in Orders : Frozen(o)

=============================================================================
