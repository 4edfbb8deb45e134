---------------------------- MODULE TempoSession ----------------------------
(***************************************************************************)
(* The router's session channels to Tempo merchants: the pre-flight before *)
(* a buyer is charged, the cumulative voucher (mpp/tempo-client.ts), its   *)
(* watermark in KV (mpp/channel-store.ts), read and rewritten without a    *)
(* lock, the operator's top-up, the move to a channel of a new router key  *)
(* (two KV slots, each Worker uses the one its key can sign) and the cron  *)
(* that reports a channel running low.                                     *)
(*                                                                         *)
(* One merchant, two channels, "old" and "new", named after the key that   *)
(* signs them.  Amounts are in units of one quote.                         *)
(***************************************************************************)
EXTENDS Integers, FiniteSets

CONSTANTS Calls,       \* buyers' calls
          Deposit,     \* Deposit[i]: deposit channel i is opened with
          TopUp,       \* what one top-up adds to the old channel
          Low,         \* headroom below which the watch reports
          MaxFaults,   \* bound: failed KV writes in one behaviour
          Nobody

Channels == {"old", "new"}
Slots    == {"primary", "alt"}
Factor   == 2                        \* headroom required, in quotes
Max2(a, b) == IF a > b THEN a ELSE b

\* A KV record of a channel; Nobody is an empty slot.
Record(i, cum, dep) == [id |-> i, cum |-> cum, dep |-> dep]
Empty == Record(Nobody, 0, 0)

Idle == [pc |-> "idle", key |-> "old", chan |-> Empty, slot |-> "primary", rec |-> Empty, raised |-> 0]

VARIABLES call,     \* call[c]: step, Worker's key, channel read, bump in flight, advance since pre-flight
          slot,     \* slot[s]: KV record
          deposit,  \* deposit[i] on chain, 0 when not open
          settled,  \* settled[i] on chain
          accepted, \* accepted[i]: largest voucher the merchant holds
          signed,   \* signed[i]: calls that signed a voucher on channel i
          key,      \* key of the Worker version that takes new requests
          closed,   \* the route is delisted
          op,       \* operator's script: step and the record it read
          watch,    \* the cron's sample to report, then commit
          health,   \* committed state of the watch
          told,     \* last state reported
          slips,    \* events the properties except
          faults

chain == <<deposit, settled, accepted>>
cron  == <<watch, health, told>>
vars  == <<call, slot, chain, signed, key, closed, op, cron, slips, faults>>

Init == /\ call = [c \in Calls |-> Idle]
        /\ slot = [s \in Slots |-> IF s = "primary" THEN Record("old", 0, Deposit["old"]) ELSE Empty]
        /\ deposit = [i \in Channels |-> IF i = "old" THEN Deposit[i] ELSE 0]
        /\ settled = [i \in Channels |-> 0] /\ accepted = [i \in Channels |-> 0]
        /\ signed = [i \in Channels |-> {}]
        /\ key = "old" /\ closed = FALSE
        /\ op = [pc |-> "idle", rec |-> Empty]
        /\ watch = "idle" /\ health = "ok" /\ told = "ok"
        /\ slips = {} /\ faults = 0

At(c, p)   == call[c].pc = p
Goto(c, p) == call' = [call EXCEPT ![c].pc = p]
End(c, p)  == call' = [call EXCEPT ![c] = [Idle EXCEPT !.pc = p]]
Fault(b)   == (b => faults < MaxFaults) /\ faults' = IF b THEN faults + 1 ELSE faults
Slip(S)    == slips' = slips \cup S

\* The slot whose channel the key can sign for, the primary one first.
Resolve(k) == {s \in Slots : slot[s].id = k /\ (s = "alt" => slot["primary"].id # k)}

\* getTempoChannel.
Installed(k) == Resolve(k) # {}
Current(k)   == slot[CHOOSE s \in Resolve(k) : TRUE]

Start(c) ==
    /\ At(c, "idle") /\ ~closed
    /\ call' = [call EXCEPT ![c].pc = "preflight", ![c].key = key]
    /\ UNCHANGED <<slot, chain, signed, key, closed, op, cron, slips, faults>>

\* evaluateSessionPreflight: the chain's deposit, the larger of watermark and
\* settled amount, room for two calls.
Headroom(k) == deposit[k] - Max2(Current(k).cum, settled[k])

\* selectSessionChallenge and checkSessionPreflight; nothing is charged yet.
Preflight(c) ==
    /\ At(c, "preflight")
    /\ IF Installed(call[c].key) /\ Headroom(call[c].key) >= Factor
       THEN \/ Goto(c, "read")
            \/ End(c, "refused")          \* another token, closing, chain unreadable
       ELSE End(c, "refused")
    /\ UNCHANGED <<slot, chain, signed, key, closed, op, cron, slips, faults>>

\* payMerchantSession, after the charge: the channel is read once more.
ReadChannel(c) ==
    /\ At(c, "read")
    /\ IF Installed(call[c].key)
       THEN call' = [call EXCEPT ![c].pc = "sign", ![c].chan = Current(call[c].key)]
       ELSE End(c, "failed")
    /\ UNCHANGED <<slot, chain, signed, key, closed, op, cron, slips, faults>>

\* nextSessionCumulative refuses a voucher above the deposit KV records.
Exceeds(ch) == ch.cum + 1 > ch.dep
Voucher(c)  == call[c].chan.cum + 1

\* onChallenge: another token, payee or amount than quoted is refused unsigned.
Sign(c) ==
    /\ At(c, "sign")
    /\ \/ End(c, "failed") /\ UNCHANGED <<signed, slips>>
       \/ /\ Exceeds(call[c].chan)
          /\ End(c, "exhausted")
          /\ Slip({k \in {"short"} : call[c].raised < Factor /\ call[c].chan.dep = deposit[call[c].key]})
          /\ UNCHANGED signed
       \/ /\ ~Exceeds(call[c].chan)
          /\ signed' = [signed EXCEPT ![call[c].chan.id] = @ \cup {c}]
          /\ Goto(c, "bump")
          /\ UNCHANGED slips
    /\ UNCHANGED <<slot, chain, key, closed, op, cron, faults>>

\* Faulty: adds the amount to whatever is stored by now.
FaultyNewRecord(c, s) == [slot[s] EXCEPT !.cum = @ + 1]

\* The whole record as read, with the larger cumulative.
NewRecord(c, s) == [slot[s] EXCEPT !.cum = Voucher(c)]

\* bumpCumulative reads the slot: no channel is an error, a voucher that is not
\* larger is dropped.  It runs when the voucher is signed, before the paid
\* request is sent, and again after a 2xx.
BumpRead(c, from, write, next) ==
    /\ At(c, from)
    /\ \/ /\ ~Installed(call[c].key)
          /\ End(c, IF from = "bump" THEN "failed" ELSE "served")
       \/ \E s \in Resolve(call[c].key) :
             IF NewRecord(c, s).cum <= slot[s].cum
             THEN IF next = "served" THEN End(c, next) ELSE Goto(c, next)
             ELSE call' = [call EXCEPT ![c].pc = write, ![c].slot = s, ![c].rec = NewRecord(c, s)]
    /\ UNCHANGED <<slot, chain, signed, key, closed, op, cron, slips, faults>>

\* A write of record rec to slot s undoes a larger watermark of the channel.
Undone(s, rec) ==
    {k \in {"rewound"} : slot[s].id = rec.id /\ slot[s].cum > rec.cum}

\* The put, to the slot it was read from; a failure fails the call it precedes.
BumpPut(c, from, next) ==
    LET s == call[c].slot  rec == call[c].rec IN
    /\ At(c, from)
    /\ \/ /\ slot' = [slot EXCEPT ![s] = rec]
          /\ Slip(Undone(s, rec))
          /\ call' = [d \in Calls |->
                IF d = c THEN IF next = "served" THEN [Idle EXCEPT !.pc = next]
                              ELSE [call[c] EXCEPT !.pc = next, !.rec = Empty, !.slot = "primary"]
                ELSE IF At(d, "read") /\ call[d].key = rec.id /\ rec.cum > slot[s].cum
                     THEN [call[d] EXCEPT !.raised = @ + (rec.cum - slot[s].cum)] ELSE call[d]]
          /\ UNCHANGED faults
       \/ Fault(TRUE) /\ End(c, IF next = "served" THEN next ELSE "failed") /\ UNCHANGED <<slot, slips>>
    /\ UNCHANGED <<chain, signed, key, closed, op, cron>>

OnUpdateRead(c) == BumpRead(c, "bump", "bumpPut", "send")
OnUpdatePut(c)  == BumpPut(c, "bumpPut", "send")
AfterRead(c)    == BumpRead(c, "after", "afterPut", "served")
AfterPut(c)     == BumpPut(c, "afterPut", "served")

\* The merchant takes a voucher larger than the one it holds, within the
\* deposit; then it serves or fails.  A refused or lost request fails.
Send(c) ==
    LET i == call[c].chan.id  v == Voucher(c) IN
    /\ At(c, "send")
    /\ \/ /\ v > accepted[i] /\ v <= deposit[i]
          /\ accepted' = [accepted EXCEPT ![i] = v]
          /\ Goto(c, "after") \/ End(c, "failed")
       \/ End(c, "failed") /\ UNCHANGED accepted
    /\ UNCHANGED <<slot, deposit, settled, signed, key, closed, op, cron, slips, faults>>

\* The merchant redeems what it holds.
Settle(i) ==
    /\ settled[i] < accepted[i]
    /\ settled' = [settled EXCEPT ![i] = accepted[i]]
    /\ UNCHANGED <<call, slot, deposit, accepted, signed, key, closed, op, cron, slips, faults>>

CallStep(c) == \/ Start(c) \/ Preflight(c) \/ ReadChannel(c) \/ Sign(c)
               \/ OnUpdateRead(c) \/ OnUpdatePut(c) \/ Send(c) \/ AfterRead(c) \/ AfterPut(c)
-----------------------------------------------------------------------------
OpAt(p)      == op.pc = p
OpGoto(p, r) == op' = [pc |-> p, rec |-> r]

\* topup-tempo-channel: the transaction, waited for on chain.
TopUpChain ==
    /\ OpAt("idle") /\ slot["primary"].id = "old"
    /\ deposit' = [deposit EXCEPT !["old"] = @ + TopUp]
    /\ OpGoto("topped", Empty)
    /\ UNCHANGED <<call, slot, settled, accepted, signed, key, closed, cron, slips, faults>>

\* KV is read again and only depositRaw changed, from the chain.
TopUpRead ==
    /\ OpAt("topped")
    /\ IF slot["primary"].id = "old"
       THEN OpGoto("put", [slot["primary"] EXCEPT !.dep = deposit["old"]])
       ELSE OpGoto("stopped", Empty)
    /\ UNCHANGED <<call, slot, chain, signed, key, closed, cron, slips, faults>>

TopUpPut ==
    /\ OpAt("put")
    /\ slot' = [slot EXCEPT !["primary"] = op.rec]
    /\ Slip(Undone("primary", op.rec))
    /\ OpGoto("idle2", Empty)
    /\ UNCHANGED <<call, chain, signed, key, closed, cron, faults>>

\* The routes are delisted; calls under way go on.
CloseRoute ==
    /\ OpAt("idle") \/ OpAt("idle2")
    /\ ~closed /\ closed' = TRUE
    /\ UNCHANGED <<call, slot, chain, signed, key, op, cron, slips, faults>>

\* open-tempo-channel: assertRoutesClosed, assertSlotsReady, then the new
\* channel is opened on chain.
OpenChannel ==
    /\ (OpAt("idle") \/ OpAt("idle2")) /\ closed
    /\ slot["alt"] = Empty /\ slot["primary"].id = "old"
    /\ deposit' = [deposit EXCEPT !["new"] = Deposit["new"]]
    /\ OpGoto("opened", Empty)
    /\ UNCHANGED <<call, slot, settled, accepted, signed, key, closed, cron, slips, faults>>

\* assertOpenedChannel: escrow, descriptor, deposit or close state are not what
\* was approved; nothing is installed.
RefuseOpened ==
    /\ OpAt("opened")
    /\ OpGoto("stopped", Empty)
    /\ UNCHANGED <<call, slot, chain, signed, key, closed, cron, slips, faults>>

\* installChannel checks the slots again and moves the old record.
MoveOld ==
    /\ OpAt("opened")
    /\ slot["alt"] = Empty /\ slot["primary"].id = "old"
    /\ slot' = [slot EXCEPT !["alt"] = slot["primary"]]
    /\ OpGoto("moved", slot["primary"])
    /\ UNCHANGED <<call, chain, signed, key, closed, cron, slips, faults>>

\* Faulty: does not look whether the old record changed during the move.
FaultyCheckIdle ==
    /\ OpAt("moved")
    /\ OpGoto("checked", slot["primary"])
    /\ UNCHANGED <<call, slot, chain, signed, key, closed, cron, slips, faults>>

\* A record that changed means the route is not idle: stop.
CheckIdle ==
    /\ OpAt("moved")
    /\ IF slot["primary"] = op.rec THEN OpGoto("checked", op.rec) ELSE OpGoto("stopped", Empty)
    /\ UNCHANGED <<call, slot, chain, signed, key, closed, cron, slips, faults>>

InstallNew ==
    /\ OpAt("checked")
    /\ slot' = [slot EXCEPT !["primary"] = Record("new", 0, deposit["new"])]
    /\ Slip({k \in {"late"} : \/ slot["primary"] # op.rec
                              \/ \E c \in Calls : call[c].pc \in {"bumpPut", "afterPut"}})
    /\ OpGoto("installed", Empty)
    /\ UNCHANGED <<call, chain, signed, key, closed, cron, faults>>

\* The new record is read back.
ReadBack ==
    /\ OpAt("installed")
    /\ OpGoto(IF slot["primary"].id = "new" THEN "done" ELSE "stopped", Empty)
    /\ UNCHANGED <<call, slot, chain, signed, key, closed, cron, slips, faults>>

\* The secret changes with a deployment of its own; then the routes reopen.
Rotate ==
    /\ key = "old" /\ OpAt("done")
    /\ key' = "new" /\ closed' = FALSE
    /\ UNCHANGED <<call, slot, chain, signed, op, cron, slips, faults>>

Operator == \/ TopUpChain \/ TopUpRead \/ TopUpPut \/ CloseRoute \/ OpenChannel \/ RefuseOpened \/ MoveOld
            \/ CheckIdle \/ InstallNew \/ ReadBack \/ Rotate
-----------------------------------------------------------------------------
\* checkTempoChannels: the chain's deposit, not KV's; a tick that cannot read,
\* or too soon after the last, says nothing.
Sample ==
    /\ watch = "idle" /\ Installed(key)
    /\ watch' = IF Headroom(key) < Low THEN "low" ELSE "ok"
    /\ watch' # health
    /\ UNCHANGED <<call, slot, chain, signed, key, closed, op, health, told, slips, faults>>

\* The alert is sent; the state is committed only after it was delivered.
Report ==
    /\ watch \in {"low", "ok"}
    /\ \/ told' = watch /\ watch' = "commit"
       \/ UNCHANGED told /\ watch' = "idle"
    /\ UNCHANGED <<call, slot, chain, signed, key, closed, op, health, slips, faults>>

Commit ==
    /\ watch = "commit" /\ watch' = "idle"
    /\ \/ /\ health' = IF health = "ok" THEN "low" ELSE "ok"
          /\ UNCHANGED <<slips, faults>>
       \/ Fault(TRUE) /\ Slip({"uncommitted"}) /\ UNCHANGED health
    /\ UNCHANGED <<call, slot, chain, signed, key, closed, op, told>>

Watch == Sample \/ Report \/ Commit

Next == \/ \E c \in Calls : CallStep(c)
        \/ \E i \in Channels : Settle(i)
        \/ Operator \/ Watch

Spec == Init /\ [][Next]_vars
-----------------------------------------------------------------------------
\* What the merchant can redeem from a channel is at most one quote for every
\* call that signed a voucher on it, however the bumps interleave.
PaidPerCall == \A i \in Channels : accepted[i] <= Cardinality(signed[i])

\* With no bump under way the record of a channel, whichever slot holds it, is
\* not below what the merchant holds: the next voucher is one it accepts.
\* Exceptions: a write that undid a larger watermark, and a bump that raced the
\* installation of the new channel.
WatermarkCovers ==
    \A i \in Channels :
        (\A c \in Calls : call[c].pc \notin {"bumpPut", "afterPut"})
            => \/ \E s \in Slots : slot[s].id = i /\ slot[s].cum >= accepted[i]
               \/ accepted[i] = 0
               \/ slips \cap {"rewound", "late"} # {}

\* A call that was charged is refused for want of deposit only when other calls
\* advanced the channel by two quotes after its pre-flight, or when KV's deposit
\* was behind the chain's (a top-up not recorded yet, or undone by a bump).  The
\* exceptions are those of the watermark, which the pre-flight relies on.
PreflightHolds == "short" \in slips => slips \cap {"rewound", "late"} # {}

\* Once the move has finished, the new channel is installed and the other slot
\* still covers what the merchant holds of the old one.  Exception: a bump of
\* the old channel under way, or written, after the script compared the record.
NewChannelStays ==
    op.pc = "done" /\ "late" \notin slips
        => /\ slot["primary"].id = "new"
           /\ slot["alt"].cum >= accepted["old"] \/ "rewound" \in slips

\* Between ticks the watch remembers the state it last reported, so a change is
\* announced once and never silently.  Exception: a report that was delivered
\* and could not be recorded.
RememberedWasTold == watch = "idle" /\ health # told => "uncommitted" \in slips

(***************************************************************************)
(* The inductive invariant                                                 *)
(***************************************************************************)

Unsigned == {"idle", "preflight", "read", "sign"}
Signing  == {"bump", "bumpPut", "send", "after", "afterPut"}
Steps    == Unsigned \cup Signing \cup {"refused", "failed", "exhausted", "served"}
Before   == {"idle", "topped", "put", "idle2", "opened"}
OpSteps  == Before \cup {"moved", "checked", "installed", "done", "stopped"}
Records  == [id : Channels \cup {Nobody}, cum : Nat, dep : Nat]
Locals   == [pc : Steps, key : Channels, chan : Records, slot : Slots, rec : Records, raised : Nat]

TypeOK == /\ call \in [Calls -> Locals] /\ slot \in [Slots -> Records]
          /\ deposit \in [Channels -> Nat] /\ settled \in [Channels -> Nat] /\ accepted \in [Channels -> Nat]
          /\ signed \in [Channels -> SUBSET Calls] /\ key \in Channels /\ closed \in BOOLEAN
          /\ op \in [pc : OpSteps, rec : Records]
          /\ watch \in {"idle", "low", "ok", "commit"} /\ health \in {"low", "ok"} /\ told \in {"low", "ok"}
          /\ slips \subseteq {"short", "rewound", "late", "uncommitted"} /\ faults \in Nat

\* No record, and no voucher, is above the number of calls that signed.
Bound(r)   == r.id \in Channels => r.cum <= Cardinality(signed[r.id])
Putting(c) == call[c].pc \in {"bumpPut", "afterPut"}

BoundedCall(c) ==
    /\ call[c].pc \in Unsigned => \A i \in Channels : c \notin signed[i]
    /\ call[c].pc \in Signing \cup {"sign"} => call[c].chan.id = call[c].key
    /\ call[c].pc = "sign" => Bound(call[c].chan)
    /\ call[c].pc \in Signing => Voucher(c) <= Cardinality(signed[call[c].key])
    /\ Putting(c) => call[c].rec.id = call[c].key /\ call[c].rec.cum = Voucher(c)

Bounded == /\ \A s \in Slots : Bound(slot[s])
           /\ Bound(op.rec)
           /\ \A i \in Channels : accepted[i] <= Cardinality(signed[i])
           /\ \A c \in Calls : BoundedCall(c)

\* The new key is used once the move is done.
Keyed == op.pc # "done" => /\ key = "old" /\ accepted["new"] = 0
                           /\ \A c \in Calls : call[c].key = "old"

\* Where the records are; a bump under way writes to the slot of its channel.
PlacedCall(c) == Putting(c) => /\ slot[call[c].slot].id = call[c].key
                               /\ call[c].slot = "alt" => op.pc \in {"installed", "done"}

Placed == /\ op.pc \in Before => slot["primary"].id = "old" /\ slot["alt"] = Empty
          /\ op.pc \in {"moved", "checked"} => slot["primary"].id = "old" /\ slot["alt"] = op.rec /\ op.rec.id = "old"
          /\ op.pc \in {"installed", "done"} => slot["primary"].id = "new" /\ slot["alt"].id = "old"
          /\ op.pc = "stopped" => slot["primary"].id = "old" /\ slot["alt"].id \in {"old", Nobody}
          /\ op.pc = "put" => op.rec.id = "old"
          /\ \A c \in Calls : PlacedCall(c)

\* A slot holds channel i with a watermark of at least x.
Covers(i, x) == \E s \in Slots : slot[s].id = i /\ slot[s].cum >= x

CoveredCall(c) == call[c].pc \in {"send", "after", "afterPut"} => Covers(call[c].key, Voucher(c))

Covered == /\ \A i \in Channels : accepted[i] = 0 \/ Covers(i, accepted[i])
           /\ \A c \in Calls : CoveredCall(c)

\* A charged call's channel has room for it but for what others used since.
Room(c, r) == r.cum + Factor <= deposit[call[c].key] + call[c].raised

RoomyCall(c) == /\ call[c].pc = "read" => \A s \in Resolve(call[c].key) : Room(c, slot[s])
                /\ call[c].pc = "sign" => Room(c, call[c].chan)

Roomy == /\ op.pc = "put" => op.rec.cum <= slot["primary"].cum
         /\ \A c \in Calls : RoomyCall(c)
         /\ "short" \notin slips

\* What is reported and not yet remembered.
Watched == /\ watch = "idle" => health = told
           /\ watch \in {"low", "ok"} => health = told /\ watch # health
           /\ watch = "commit" => health # told

\* No watermark was undone, and no bump raced the installation.
Fine == slips \cap {"rewound", "late"} = {}

IInv == /\ TypeOK /\ Bounded /\ Keyed
        /\ "late" \notin slips => Placed
        /\ Fine => Covered /\ Roomy
        /\ "uncommitted" \notin slips => Watched

=============================================================================
