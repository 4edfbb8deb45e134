---------------------------- MODULE InvoiceOrders ----------------------------
(***************************************************************************)
(* Which order a payer of one payment link is handed: create-invoice       *)
(* (routes/create-invoice.ts) with existing-order.ts and relink-guard.ts.  *)
(*                                                                         *)
(* The orders live upstream, one per slot of the link, and a slot once     *)
(* taken stays taken.  A Coinbase link has a base slot, re-order slots for *)
(* when earlier orders expired, and slots for contract-mode orders that    *)
(* supersede a classic one; a Stripe link has its base slot only.          *)
(* Requests read the slots, decide, and create, reuse or re-target an      *)
(* order, while payers pay what they were handed and orders expire.  Every *)
(* call upstream is a step, and its answer may be lost.                    *)
(***************************************************************************)
EXTENDS Naturals, Sequences, FiniteSets

CONSTANTS Procs,        \* concurrent requests
          Contracts,    \* contract-variant slots, in order
          Retries,      \* re-order slots, in order
          MaxRequests,  \* bound: requests
          MaxSwitches   \* bound: source switches of an order

Base  == "base"
First == <<Base>> \o Contracts
Slots == {First[i] : i \in DOMAIN First} \cup {Retries[i] : i \in DOMAIN Retries}
IsRetry(s)    == \E i \in DOMAIN Retries : Retries[i] = s
IsContract(s) == \E i \in DOMAIN Contracts : Contracts[i] = s

VARIABLES line,     \* provider of the link
          row,      \* row[s]: the order upstream
          proc,     \* proc[p]: next step and locals of a request
          handed,   \* orders handed out as payable
          doubled,  \* one was, although an order it stands for was funded before
          retired,  \* one was, with pay-in details its own request had retired
          left      \* requests left

upstream == <<row, handed>>
vars     == <<line, upstream, proc, doubled, retired, left>>

Absent == [st |-> "absent", open |-> FALSE, mode |-> "classic", ver |-> 0, sent |-> FALSE]
Idle   == [pc |-> "idle", intent |-> FALSE, view |-> [s \in {} |-> Absent], slot |-> Base,
           watch |-> {}, late |-> {}, super |-> FALSE, mine |-> 0]

Init == /\ line \in {"coinbase", "stripe"}
        /\ row = [s \in Slots |-> Absent]
        /\ proc = [p \in Procs |-> Idle]
        /\ handed = {} /\ doubled = FALSE /\ retired = FALSE
        /\ left = MaxRequests

At(p, l)  == proc[p].pc = l
Go(p, l)  == proc' = [proc EXCEPT ![p].pc = l]
Refuse(p) == proc' = [proc EXCEPT ![p] = Idle] /\ UNCHANGED <<handed, doubled, retired>>
Quiet     == UNCHANGED <<handed, doubled, retired>>

Found(r) == r.st # "absent"
\* isLive: not yet past its expiry, and not a custody order whose quote lapsed.
Live(r)  == Found(r) /\ r.open /\ r.st # "lapsed"
Unpaid(r)     == r.st = "unpaid"
InFlight(r)   == r.st = "funded"

\* The answer hands out slot s with the pay-in details of version ver.
HandOut(p, s, ver, excused) ==
    /\ handed' = handed \cup {s}
    /\ doubled' = (doubled \/ (proc[p].late # {} /\ ~excused))
    /\ retired' = (retired \/ ver < proc[p].mine)
    /\ proc' = [proc EXCEPT ![p] = Idle]

\* On the Stripe line nothing payable goes out in a mode the caller cannot pay,
\* nor before the lock record the settlement needs is written.
Seed(p, s, ver) ==
    \/ (proc[p].intent => row[s].mode = "contract") /\ HandOut(p, s, ver, FALSE)
    \/ Refuse(p)

Answer(p, s, ver) == IF line = "stripe" THEN Seed(p, s, ver) ELSE HandOut(p, s, ver, FALSE)

(***************************************************************************)
(* The request reads the slots and decides                                 *)
(***************************************************************************)

\* Validation, rate limit, quote, pricing: a request that fails one is not seen here.
Request(p) ==
    /\ At(p, "idle") /\ left > 0
    /\ left' = left - 1
    /\ \E i \in BOOLEAN : proc' = [proc EXCEPT ![p] = [Idle EXCEPT !.pc = "scan", !.intent = i]]
    /\ Quiet /\ UNCHANGED <<line, row>>

Read(p, S) == [s \in DOMAIN proc[p].view \cup S |-> IF s \in S THEN row[s] ELSE proc[p].view[s]]

\* Base and contract slots first; a slot that cannot be read ends the request.
ScanFirst(p) ==
    /\ line = "coinbase" /\ At(p, "scan")
    /\ \/ proc' = [proc EXCEPT ![p].view = Read(p, {First[i] : i \in DOMAIN First}),
                               ![p].pc = IF Found(row[Base]) /\ ~Live(row[Base]) THEN "rescan" ELSE "decide"]
       \/ proc' = [proc EXCEPT ![p] = Idle]
    /\ Quiet /\ UNCHANGED <<line, row, left>>

\* The re-order slots only when the base order is over.
ScanRetries(p) ==
    /\ At(p, "rescan")
    /\ proc' = [proc EXCEPT ![p].view = Read(p, {Retries[i] : i \in DOMAIN Retries}), ![p].pc = "decide"]
    /\ Quiet /\ UNCHANGED <<line, row, left>>

Rank(s) == IF s = Base THEN 0
           ELSE IF IsRetry(s) THEN CHOOSE i \in DOMAIN Retries : Retries[i] = s
           ELSE Len(Retries) + CHOOSE i \in DOMAIN Contracts : Contracts[i] = s
Newest(S) == CHOOSE s \in S : \A t \in S : Rank(t) <= Rank(s)

\* The first free slot of the sequence every caller shares.
Free(S) == CHOOSE s \in S : \A t \in S : Rank(s) <= Rank(t)

\* An order in flight blocks everyone.  A live order is reused, or superseded
\* by a contract order when one is asked for; else a fresh order is due.
Decide(p) ==
    LET v == proc[p].view
        S == DOMAIN v
        contract == {s \in S : Live(v[s]) /\ v[s].mode = "contract"}
        classic  == {s \in S : Live(v[s]) /\ v[s].mode = "classic" /\ ~IsContract(s)}
        over     == {s \in S : Found(v[s]) /\ ~Live(v[s])}
        free     == {s \in S : ~Found(v[s]) /\ (proc[p].intent \/ ~IsContract(s))}
        variants == {s \in S : ~Found(v[s]) /\ IsContract(s)}
        Take(s, l) == proc' = [proc EXCEPT ![p].pc = l, ![p].slot = s]
    IN /\ At(p, "decide")
       /\ IF \E s \in S : InFlight(v[s]) THEN Refuse(p)
          ELSE IF proc[p].intent /\ contract # {} THEN Take(Newest(contract), "reuse") /\ Quiet
          ELSE IF proc[p].intent /\ classic # {}
            THEN IF variants = {} THEN Refuse(p)
                 ELSE /\ proc' = [proc EXCEPT ![p].pc = "create", ![p].slot = Free(variants),
                                              ![p].super = TRUE, ![p].watch = {Newest(classic)}]
                      /\ Quiet
          ELSE IF classic # {} THEN Take(Newest(classic), "reuse") /\ Quiet
          ELSE IF contract # {} THEN Take(Newest(contract), "reuse") /\ Quiet
          ELSE IF free = {} THEN Refuse(p)
          ELSE /\ proc' = [proc EXCEPT ![p].pc = IF over = {} THEN "create" ELSE "guard",
                                       ![p].slot = Free(free), ![p].watch = over]
               /\ Quiet
       /\ UNCHANGED <<line, row, left>>

\* checkPreviousOrdersUnfunded: every earlier order was closed when it was read,
\* is closed still, and nothing is found on its addresses; or its quote lapsed.
Guard(p) ==
    /\ At(p, "guard")
    /\ \/ /\ \A s \in proc[p].watch : LET v == proc[p].view[s] IN
               v.st = "lapsed" \/ (v.st = "expired" /\ row[s].st = "expired" /\ ~row[s].sent)
          /\ Go(p, "create") /\ Quiet
       \/ Refuse(p)
    /\ UNCHANGED <<line, row, left>>

(***************************************************************************)
(* A fresh order                                                           *)
(***************************************************************************)

\* Orders this one stands for that are funded when it is created.
Late(p) == {s \in proc[p].watch : InFlight(row[s])}

\* Upstream takes the slot once; the answer may be lost.
Create(p) ==
    /\ line = "coinbase" /\ At(p, "create")
    /\ LET s == proc[p].slot IN
         \/ /\ ~Found(row[s])
            /\ row' = [row EXCEPT ![s] = [Absent EXCEPT !.st = "unpaid", !.open = TRUE,
                                            !.mode = IF proc[p].intent THEN "contract" ELSE "classic"]]
            /\ \/ proc' = [proc EXCEPT ![p].pc = "created", ![p].late = Late(p)]
               \/ proc' = [proc EXCEPT ![p] = Idle]
         \/ /\ Found(row[s]) /\ UNCHANGED row
            /\ proc' = [proc EXCEPT ![p].pc = "conflict", ![p].late = Late(p)]
    /\ Quiet /\ UNCHANGED <<line, left>>

\* The re-check of the orders a new one stands for.  Replaced ones must be
\* readable and over; the superseded one only must not be read as anything
\* but awaiting payment: if it cannot be read, the answer goes out.
StillOver(p)  == \A s \in proc[p].watch : row[s].st \in {"expired", "lapsed"}
Clear(p, unreadable) ==
    IF proc[p].super THEN unreadable \/ \A s \in proc[p].watch : row[s].st \in {"unpaid", "lapsed"}
    ELSE ~unreadable /\ StillOver(p)

\* Faulty: nothing is read again after the create.
FaultyCreated(p) ==
    /\ line = "coinbase" /\ At(p, "created")
    /\ HandOut(p, proc[p].slot, 0, FALSE)
    /\ UNCHANGED <<line, row, left>>

Created(p) ==
    /\ line = "coinbase" /\ At(p, "created")
    /\ \E unreadable \in BOOLEAN :
         IF Clear(p, unreadable) THEN HandOut(p, proc[p].slot, 0, unreadable) ELSE Refuse(p)
    /\ UNCHANGED <<line, row, left>>

\* The slot was lost to a concurrent request: its order is handed out when it
\* still can be paid, the same checks pass and its mode can be paid by the
\* caller.
Conflict(p) ==
    LET w == row[proc[p].slot] IN
    /\ At(p, "conflict")
    /\ \E unreadable \in BOOLEAN :
         IF /\ Live(w) /\ Unpaid(w) /\ Clear(p, unreadable)
            /\ proc[p].intent => w.mode = "contract"
         THEN HandOut(p, proc[p].slot, w.ver, unreadable) \/ Refuse(p)
         ELSE Refuse(p)
    /\ UNCHANGED <<line, row, left>>

(***************************************************************************)
(* An order that exists is reused, on the source the caller asks for       *)
(***************************************************************************)

\* The same source: as it was read.  Another source that is refused locally
\* (custody coins, lightning out, pay-in mode): the status is read again,
\* and what cannot be read is taken for unchanged.  Else upstream is asked.
Reuse(p) ==
    LET s == proc[p].slot IN
    /\ line = "coinbase" /\ At(p, "reuse")
    /\ \/ HandOut(p, s, proc[p].view[s].ver, FALSE)
       \/ Refuse(p)
       \/ Go(p, "switch") /\ Quiet
    /\ UNCHANGED <<line, row, left>>

\* /checkout: gated on the status upstream; money seen on the current address
\* refuses it.  It may commit and its answer be lost, or fail for its own reasons.
Switch(p) ==
    LET s == proc[p].slot
        Mark(l, v) == proc' = [proc EXCEPT ![p].pc = l, ![p].mine = v,
                                           ![p].late = {t \in {s} : InFlight(row[s])}]
    IN /\ At(p, "switch")
       /\ \/ /\ Unpaid(row[s]) /\ row[s].ver < MaxSwitches
             /\ row' = [row EXCEPT ![s].ver = @ + 1]
             /\ Mark("switched", row[s].ver + 1) \/ Mark("reread", row[s].ver + 1)
             /\ Quiet
          \/ Mark("reread", 0) /\ UNCHANGED row /\ Quiet
          \/ (InFlight(row[s]) \/ row[s].sent) /\ Refuse(p) /\ UNCHANGED row
       /\ UNCHANGED <<line, left>>

\* The rotated row came with the answer.
Switched(p) ==
    /\ At(p, "switched")
    /\ Answer(p, proc[p].slot, proc[p].mine)
    /\ UNCHANGED <<line, row, left>>

\* Faulty: after a failed switch the order as it was read before is handed out.
FaultyReread(p) ==
    /\ At(p, "reread")
    /\ IF Unpaid(row[proc[p].slot]) THEN HandOut(p, proc[p].slot, proc[p].view[proc[p].slot].ver, FALSE)
                                    ELSE Refuse(p)
    /\ UNCHANGED <<line, row, left>>

\* A failed switch may have landed: the order is read again, or nothing is handed out.
Reread(p) ==
    LET s == proc[p].slot IN
    /\ At(p, "reread")
    /\ \/ Unpaid(row[s]) /\ Answer(p, s, row[s].ver)
       \/ Refuse(p)
    /\ UNCHANGED <<line, row, left>>

(***************************************************************************)
(* The Stripe line: one order per invoice, never replaced                  *)
(***************************************************************************)

\* The Stripe line: a lookup that fails counts as no order, which is safe
\* because the slot can only be taken once.
LookupStripe(p) ==
    /\ line = "stripe" /\ At(p, "scan")
    /\ \/ Go(p, "create") /\ Quiet
       \/ /\ Unpaid(row[Base]) /\ row[Base].open
          /\ proc' = [proc EXCEPT ![p].pc = "reuse", ![p].view = Read(p, {Base})]
          /\ Quiet
       \/ /\ Found(row[Base]) /\ ~(Unpaid(row[Base]) /\ row[Base].open)
          /\ Refuse(p)
    /\ UNCHANGED <<line, row, left>>

StripeReuse(p) ==
    /\ line = "stripe" /\ At(p, "reuse")
    /\ \/ Answer(p, Base, proc[p].view[Base].ver)
       \/ Refuse(p)
       \/ Go(p, "switch") /\ Quiet
    /\ UNCHANGED <<line, row, left>>

\* A conflict is answered from the order that is there, or "come again".
StripeCreate(p) ==
    /\ line = "stripe" /\ At(p, "create")
    /\ \/ /\ ~Found(row[Base])
          /\ row' = [row EXCEPT ![Base] = [Absent EXCEPT !.st = "unpaid", !.open = TRUE,
                                             !.mode = IF proc[p].intent THEN "contract" ELSE "classic"]]
          /\ (Go(p, "created") /\ Quiet) \/ Refuse(p)
       \/ /\ Found(row[Base]) /\ UNCHANGED row /\ Refuse(p)
    /\ UNCHANGED <<line, left>>

StripeCreated(p) ==
    /\ line = "stripe" /\ At(p, "created")
    /\ Seed(p, Base, 0)
    /\ UNCHANGED <<line, row, left>>

(***************************************************************************)
(* Payers and the orders upstream                                          *)
(***************************************************************************)

Order(s) ==
    /\ \/ /\ s \in handed /\ row[s].st \in {"unpaid", "expired"} /\ ~row[s].sent  \* a payer pays, late perhaps
          /\ row' = [row EXCEPT ![s].sent = TRUE]
       \/ /\ row[s].sent /\ row[s].st \in {"unpaid", "expired"}                    \* the payment is credited
          /\ row' = [row EXCEPT ![s].st = "funded"]
       \/ /\ Unpaid(row[s]) /\ row[s].open                                         \* its time is up
          /\ row' = [row EXCEPT ![s].open = FALSE]
       \/ /\ Unpaid(row[s]) /\ ~row[s].open                                        \* it is closed
          /\ row' = [row EXCEPT ![s].st = "expired"]
       \/ /\ line = "coinbase" /\ Unpaid(row[s]) /\ row[s].open /\ ~row[s].sent    \* its quote lapses
          /\ row' = [row EXCEPT ![s].st = "lapsed"]
    /\ Quiet /\ UNCHANGED <<line, proc, left>>

Step(p) ==
    \/ Request(p) \/ ScanFirst(p) \/ ScanRetries(p) \/ Decide(p) \/ Guard(p)
    \/ Create(p) \/ Created(p) \/ Conflict(p)
    \/ Reuse(p) \/ Switch(p) \/ Switched(p) \/ Reread(p)
    \/ LookupStripe(p) \/ StripeReuse(p) \/ StripeCreate(p) \/ StripeCreated(p)

Next == (\E p \in Procs : Step(p)) \/ (\E s \in Slots : Order(s))

Spec == Init /\ [][Next]_vars

(***************************************************************************)
(* Properties                                                              *)
(***************************************************************************)

\* A link never has two live classic orders: however requests interleave, a
\* fresh one is only created when every earlier one is over.
OneLiveClassic == \A s, t \in Slots :
    Live(row[s]) /\ Live(row[t]) /\ Unpaid(row[s]) /\ Unpaid(row[t])
      /\ row[s].mode = "classic" /\ row[t].mode = "classic" => s = t

\* No order is handed out as payable when an order it replaces or supersedes
\* had been funded before it was created, nor a re-targeted one that had been
\* funded before the switch.  The exception is a superseded order whose status
\* cannot be read again.
NotPaidTwice == ~doubled

\* The pay-in details handed out are never older than those the request's own
\* switch put in force, also when the answer to that switch was lost.
HandedIsCurrent == ~retired

(***************************************************************************)
(* The inductive invariant                                                 *)
(***************************************************************************)

Steps == {"idle", "scan", "rescan", "decide", "guard", "create", "created", "conflict",
          "reuse", "switch", "switched", "reread"}
Rows  == [st : {"absent", "unpaid", "funded", "expired", "lapsed"}, open : BOOLEAN,
          mode : {"classic", "contract"}, ver : Nat, sent : BOOLEAN]
Views == UNION {[S -> Rows] : S \in SUBSET Slots}
Locals == [pc : Steps, intent : BOOLEAN, view : Views, slot : Slots, watch : SUBSET Slots,
           late : SUBSET Slots, super : BOOLEAN, mine : Nat]

TypeOK == /\ line \in {"coinbase", "stripe"} /\ row \in [Slots -> Rows] /\ proc \in [Procs -> Locals]
          /\ handed \subseteq Slots /\ doubled \in BOOLEAN /\ retired \in BOOLEAN /\ left \in Nat

\* An order that is over stays so.
Over(r) == Found(r) /\ ~Live(r)

\* Every earlier slot of the classic sequence was taken, and its order is over.
Behind(s) == \A t \in Slots : ~IsContract(t) /\ Rank(t) < Rank(s) => Over(row[t])

\* A classic order was created behind all earlier ones; a free slot was never re-targeted.
Lined(s) == /\ Found(row[s]) /\ row[s].mode = "classic" => ~IsContract(s) /\ Behind(s)
            /\ ~Found(row[s]) => row[s].ver = 0

Firsts == {First[i] : i \in DOMAIN First}

\* What a request read of the slots.
Viewed(r) ==
    /\ \A s \in DOMAIN r.view : Over(r.view[s]) => Over(row[s])
    /\ r.pc = "scan" => DOMAIN r.view = {}
    /\ r.pc = "rescan" => DOMAIN r.view = Firsts
    /\ r.pc = "decide" => \/ DOMAIN r.view = Firsts /\ ~Over(r.view[Base])
                          \/ DOMAIN r.view = Slots
    /\ r.pc = "reuse" => r.slot \in DOMAIN r.view

\* The slot a request is about to take.
Placed(r) == r.pc \in {"guard", "create"} /\ ~r.intent => ~IsContract(r.slot) /\ Behind(r.slot)

\* Orders that were funded when the request took its slot, or re-targeted its order.
Funded(r) ==
    /\ \A s \in r.late : InFlight(row[s])
    /\ r.pc \notin {"created", "conflict", "reread"} => r.late = {}
    /\ r.pc \in {"created", "conflict"} => r.late \subseteq r.watch
    /\ r.pc = "reread" => r.late \subseteq {r.slot}

\* The pay-in details the request put in force.
Current(r) == /\ r.pc \notin {"switched", "reread"} => r.mine = 0
              /\ r.pc = "reread" => r.mine <= row[r.slot].ver

\* The Stripe line has one slot.
Single(r) == line = "stripe" => /\ r.slot = Base /\ r.pc \notin {"rescan", "decide", "guard", "conflict"}
                                /\ r.pc = "created" => r.late = {}

IInv == /\ TypeOK /\ ~doubled /\ ~retired
        /\ \A s \in Slots : Lined(s)
        /\ \A p \in Procs : /\ Viewed(proc[p]) /\ Placed(proc[p]) /\ Funded(proc[p])
                            /\ Current(proc[p]) /\ Single(proc[p])
=============================================================================
