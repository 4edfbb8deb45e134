----------------------------- MODULE X402Proofs -----------------------------
(***************************************************************************)
(* Proofs about X402Settlement, for any requests, calls and bounds: a      *)
(* payload buys one call, its stored result stays within reach, and the    *)
(* ledger says of a settlement what the chain says.                        *)
(***************************************************************************)
EXTENDS X402Settlement, FiniteSetTheorems, TLAPS

\* The steps of a request before it has the marker, once it has it and may still
\* give it back, before anything is signed, and once nothing more is signed.
Before  == {"idle", "reserve", "fresh", "replay"}
Buying  == {"verify", "pay", "release"}
Opening == {"record", "mark"}
Signing == {"attempt", "signed", "send", "poll", "result"}
Closing == {"final", "unmark", "remark", "cache"}
Closed  == {"served", "done"}
Steps   == Before \cup Buying \cup Opening \cup Signing \cup Closing \cup Closed

Locals == [pc : Steps, call : Calls \cup {Nobody}, retried : BOOLEAN, failedOnChain : BOOLEAN,
           outcome : Outcomes]
Fates  == {"unsigned", "signed", "sent", "applied", "rejected"}
Rows   == {"none", "pending"} \cup Outcomes
Slips  == ({"raced", "lost", "lapsed"} \X {Nobody}) \cup ({"unmarked", "unread"} \X Requests)

TypeOK == /\ proc \in [Requests -> Locals]
          /\ reserved \in BOOLEAN /\ cache \in [Calls -> Requests \cup {Nobody}]
          /\ row \in [Requests -> Rows]
          /\ open \in [Requests -> (SUBSET Envelopes) \cup {None}]
          /\ env \in [Envelopes -> Fates] /\ nonceUsed \in BOOLEAN
          /\ expired \in BOOLEAN /\ over \subseteq Requests /\ spent \subseteq Requests
          /\ slips \subseteq Slips /\ faults \in Nat

-----------------------------------------------------------------------------
(* The replay guard.                                                       *)

Lost == Slipped({"lost"})

\* A request that got past the guard and has not given the marker back, or left
\* a purchase or a stored result behind.
Holder(r) == \/ proc[r].pc \in Buying \cup Opening \cup Signing \cup Closing
             \/ r \in spent /\ ~Lost
             \/ \E c \in Calls : cache[c] = r

\* A request that has bought its call or is about to.
Buyer(r) == r \in spent \/ proc[r].pc = "pay"

\* While the marker has not lapsed and no two requests found it missing together,
\* one request holds it, and the marker stands for it.
SoleHolder == ~Slipped({"raced", "lapsed"}) =>
                 /\ \A r, q \in Requests : Holder(r) /\ Holder(q) => r = q
                 /\ \A r \in Requests : Holder(r) => reserved

\* When it lapses the authorization has run out: nobody new reaches the merchant.
SoleBuyer == ~Slipped({"raced", "lost"}) => \A r, q \in Requests : Buyer(r) /\ Buyer(q) => r = q

\* What was bought was bought past the guard, and by a request not at it any more.
Bought == /\ ~expired => ~Slipped({"lapsed"})
          /\ \A r \in Requests : /\ proc[r].pc \in Before \cup {"verify", "pay"} => r \notin spent
                                 /\ proc[r].pc = "release" /\ r \in spent => Lost
                                 /\ \A c \in Calls : cache[c] = r => proc[r].pc \in Closed

Guard == SoleHolder /\ SoleBuyer /\ Bought

-----------------------------------------------------------------------------
(* The settlement of one request.                                          *)

First(r)    == <<r, 1>>
Second(r)   == <<r, 2>>
Last(r)     == IF env[Second(r)] # "unsigned" THEN Second(r) ELSE First(r)
Unmarked(r) == <<"unmarked", r>> \in slips
Reached(e)  == env[e] \in {"sent", "applied", "rejected"}
Dead(r)     == env[First(r)] \in {"unsigned", "rejected"} /\ env[Second(r)] \in {"unsigned", "rejected"}

\* The envelopes in order, and what the step of the request says of the last one.
InOrder(r) == /\ env[Second(r)] # "unsigned" => env[First(r)] # "unsigned"
              /\ proc[r].pc \in Before \cup Buying \cup Opening => env[First(r)] = "unsigned"
              /\ proc[r].pc \in {"signed", "send"} => env[Last(r)] = "signed"
              /\ proc[r].pc = "poll" => env[First(r)] # "unsigned"
              /\ proc[r].pc = "attempt" => env[Second(r)] = "unsigned"
              /\ ~proc[r].retried => /\ proc[r].pc = "attempt" => env[First(r)] = "unsigned"
                                     /\ proc[r].pc \in {"signed", "send"} =>
                                          env[Second(r)] = "unsigned"
              /\ proc[r].failedOnChain => /\ env[Last(r)] = "rejected"
                                          /\ proc[r].pc \in {"result"} \cup Closing
              /\ r \in over => proc[r].pc \in Closed

\* The open marker lists what reached the network, also what is about to.
Listed(r) == /\ open[r] # None => open[r] \subseteq {First(r), Second(r)}
             /\ proc[r].pc = "send" => Last(r) \in open[r] \/ Unmarked(r)
             /\ \A e \in {First(r), Second(r)} :
                   /\ open[r] # None /\ Reached(e) => e \in open[r] \/ Unmarked(r)
                   /\ CanLand(e) => e \in open[r] \/ Unmarked(r)

\* The outcome of the request, and the row, agree with the chain and stay so.
Truth(r) == /\ proc[r].pc \in Closing /\ proc[r].outcome = "settled" => Landed(r)
            /\ proc[r].pc \in Closing /\ proc[r].outcome = "failed" => Dead(r)
            /\ proc[r].pc = "unmark" => proc[r].outcome # "unknown"
            /\ row[r] = "settled" => Landed(r)
            /\ row[r] = "failed" =>
                 \/ Unmarked(r)
                 \/ ~Landed(r) /\ (r \in over \/ Dead(r)) /\ proc[r].pc \in Closing \cup Closed

\* The chain takes the nonce with the first envelope it looks at.
Chain == \A e \in Envelopes : env[e] \in {"applied", "rejected"} => nonceUsed

Settled(r) == InOrder(r) /\ Listed(r) /\ Truth(r)

IInv == TypeOK /\ Guard /\ Chain /\ \A r \in Requests : Settled(r)

-----------------------------------------------------------------------------
(* Steps of one request.                                                   *)

\* Only request r moves.
Moved(r) == /\ proc' \in [Requests -> Locals]
            /\ \A q \in Requests \ {r} : proc'[q] = proc[q]

\* The steps and the outcomes the actions name.
LEMMA Named ==
    /\ Idle \in Locals /\ [Idle EXCEPT !.pc = "done"] \in Locals
    /\ [Idle EXCEPT !.pc = "served"] \in Locals
    /\ Before \subseteq Steps /\ Buying \subseteq Steps /\ Opening \subseteq Steps
    /\ Signing \subseteq Steps /\ Closing \subseteq Steps /\ Closed \subseteq Steps
BY DEF Idle, Locals, Steps, Before, Buying, Opening, Signing, Closing, Closed, Outcomes

\* A request goes on at l.
LEMMA GotoMoves ==
    ASSUME TypeOK, NEW r \in Requests, NEW l \in Steps, Goto(r, l)
    PROVE  /\ Moved(r) /\ proc'[r].pc = l /\ proc'[r].call = proc[r].call
           /\ proc'[r].retried = proc[r].retried
           /\ proc'[r].failedOnChain = proc[r].failedOnChain
           /\ proc'[r].outcome = proc[r].outcome
<1>1. proc[r] \in Locals
  BY DEF TypeOK
<1>. DEFINE h == [proc[r] EXCEPT !.pc = l]
<1>2. h \in Locals /\ h.pc = l /\ h.call = proc[r].call /\ h.retried = proc[r].retried
      /\ h.failedOnChain = proc[r].failedOnChain
      /\ h.outcome = proc[r].outcome
  BY <1>1 DEF Locals
<1>3. proc' = [proc EXCEPT ![r] = h]
  BY DEF Goto
<1>. HIDE DEF h
<1>. QED BY <1>2, <1>3 DEF TypeOK, Moved

\* A request ends.
LEMMA EndMoves ==
    ASSUME TypeOK, NEW r \in Requests, End(r)
    PROVE  Moved(r) /\ proc'[r].pc = "done" /\ ~proc'[r].failedOnChain
<1>1. proc' = [proc EXCEPT ![r] = [Idle EXCEPT !.pc = "done"]]
  BY DEF End
<1>2. Moved(r) /\ proc'[r] = [Idle EXCEPT !.pc = "done"]
  BY <1>1, Named DEF TypeOK, Moved
<1>. QED BY <1>2 DEF Idle

\* One event more in slips is seen in what is asked of slips.
LEMMA SlipAdds ==
    ASSUME slips \subseteq Slips, NEW b \in BOOLEAN, NEW s \in Slips, Slip(b, s)
    PROVE  /\ slips' \subseteq Slips /\ slips \subseteq slips'
           /\ slips' \subseteq slips \cup {s}
           /\ b => s \in slips'
BY DEF Slip

\* Events that concern one row only do not show among the others.
LEMMA SlippedKept ==
    ASSUME slips \subseteq slips', slips' \subseteq slips \cup ({"unmarked", "unread"} \X Requests),
           NEW S \in SUBSET {"raced", "lost", "lapsed"}
    PROVE  Slipped(S)' <=> Slipped(S)
BY DEF Slipped

-----------------------------------------------------------------------------
(* The replay guard is kept.                                               *)

Held == Buying \cup Opening \cup Signing \cup Closing

\* A request that neither comes to hold the marker nor gives it back.
LEMMA GuardKept ==
    ASSUME IInv, NEW r \in Requests, Moved(r), UNCHANGED <<cache, spent, expired, reserved>>,
           slips \subseteq slips', slips' \subseteq slips \cup ({"unmarked", "unread"} \X Requests),
           proc'[r].pc \in Held => proc[r].pc \in Held,
           proc'[r].pc = "pay" => proc[r].pc = "pay",
           proc'[r].pc \in Before \cup {"verify"} => proc[r].pc \in Before \cup {"verify"},
           proc'[r].pc = "release" => proc[r].pc \in {"verify", "release"},
           proc[r].pc \in Closed => proc'[r].pc \in Closed
    PROVE  Guard'
<1>1. \A S \in SUBSET {"raced", "lost", "lapsed"} : Slipped(S)' <=> Slipped(S)
  BY SlippedKept
<1>2. /\ Slipped({"raced", "lapsed"})' <=> Slipped({"raced", "lapsed"})
      /\ Slipped({"raced", "lost"})' <=> Slipped({"raced", "lost"})
      /\ Slipped({"lapsed"})' <=> Slipped({"lapsed"})
      /\ Lost' <=> Lost
  BY <1>1 DEF Lost
<1>3. \A q \in Requests : Holder(q)' => Holder(q)
  BY <1>2 DEF Holder, Held, Moved
<1>4. \A q \in Requests : Buyer(q)' => Buyer(q)
  BY DEF Buyer, Moved
<1>5. SoleHolder'
  BY <1>2, <1>3 DEF IInv, Guard, SoleHolder
<1>6. SoleBuyer'
  BY <1>2, <1>4 DEF IInv, Guard, SoleBuyer
<1>7. Bought'
  <2>1. ASSUME NEW q \in Requests \ {r}
        PROVE  /\ proc'[q].pc \in Before \cup {"verify", "pay"} => q \notin spent'
               /\ proc'[q].pc = "release" /\ q \in spent' => Lost'
               /\ \A c \in Calls : cache'[c] = q => proc'[q].pc \in Closed
    BY <1>2 DEF IInv, Guard, Bought, Moved
  <2>2. /\ proc'[r].pc \in Before \cup {"verify", "pay"} => r \notin spent'
        /\ proc'[r].pc = "release" /\ r \in spent' => Lost'
        /\ \A c \in Calls : cache'[c] = r => proc'[r].pc \in Closed
    BY <1>2 DEF IInv, Guard, Bought
  <2>. QED BY <1>2, <2>1, <2>2 DEF IInv, Guard, Bought
<1>. QED BY <1>5, <1>6, <1>7 DEF Guard

\* No request moves, and nothing the guard is about changes.
LEMMA GuardStill ==
    ASSUME IInv, UNCHANGED <<proc, cache, spent, expired, reserved>>,
           slips \subseteq slips', slips' \subseteq slips \cup ({"unmarked", "unread"} \X Requests)
    PROVE  Guard'
<1>1. \A S \in SUBSET {"raced", "lost", "lapsed"} : Slipped(S)' <=> Slipped(S)
  BY SlippedKept
<1>2. /\ Slipped({"raced", "lapsed"})' <=> Slipped({"raced", "lapsed"})
      /\ Slipped({"raced", "lost"})' <=> Slipped({"raced", "lost"})
      /\ Slipped({"lapsed"})' <=> Slipped({"lapsed"})
      /\ Lost' <=> Lost
  BY <1>1 DEF Lost
<1>3. SoleHolder' /\ SoleBuyer' /\ Bought'
  BY <1>2 DEF IInv, Guard, SoleHolder, SoleBuyer, Bought, Holder, Buyer
<1>. QED BY <1>3 DEF Guard

-----------------------------------------------------------------------------
(* The settlement of a request is kept.                                    *)

\* A step that does not touch request q, its row, its marker and its envelopes.
LEMMA SettledKept ==
    ASSUME NEW q \in Requests, Settled(q),
           proc'[q] = proc[q], row'[q] = row[q], open'[q] = open[q],
           env'[First(q)] = env[First(q)], env'[Second(q)] = env[Second(q)],
           q \in over' <=> q \in over, nonceUsed => nonceUsed', Unmarked(q) => Unmarked(q)'
    PROVE  Settled(q)'
<1>1. Last(q)' = Last(q) /\ First(q)' = First(q) /\ Second(q)' = Second(q)
  BY DEF Last, First, Second
<1>2. Landed(q)' <=> Landed(q)
  BY DEF Landed, First, Second
<1>3. Dead(q)' <=> Dead(q)
  BY <1>1 DEF Dead
<1>4. \A e \in {First(q), Second(q)} : /\ Reached(e)' <=> Reached(e)
                                       /\ CanLand(e)' => CanLand(e)
  BY DEF Reached, CanLand, First, Second
<1>5. env'[Last(q)] = env[Last(q)]
  BY DEF Last
<1>6. InOrder(q)'
  BY <1>1, <1>5 DEF Settled, InOrder
<1>7. Listed(q)'
  BY <1>1, <1>4 DEF Settled, Listed
<1>8. Truth(q)'
  BY <1>2, <1>3 DEF Settled, Truth
<1>. QED BY <1>6, <1>7, <1>8 DEF Settled

\* A step of request r alone, in which its own settlement is kept.
LEMMA OthersKept ==
    ASSUME IInv, NEW r \in Requests, Moved(r), Settled(r)',
           \A q \in Requests \ {r} : row'[q] = row[q] /\ open'[q] = open[q]
                                     /\ env'[First(q)] = env[First(q)]
                                     /\ env'[Second(q)] = env[Second(q)],
           over' = over, nonceUsed' = nonceUsed, slips \subseteq slips'
    PROVE  \A q \in Requests : Settled(q)'
<1>1. ASSUME NEW q \in Requests \ {r} PROVE Settled(q)'
  <2>1. Settled(q) /\ proc'[q] = proc[q] /\ (Unmarked(q) => Unmarked(q)')
    BY DEF IInv, Moved, Unmarked
  <2>. QED BY <2>1, SettledKept
<1>. QED BY <1>1

\* A request moves on, and its envelopes, its row and its marker stay.
LEMMA SettledQuiet ==
    ASSUME IInv, NEW r \in Requests, Moved(r), UNCHANGED <<env, nonceUsed, row, open, over>>,
           slips \subseteq slips',
           proc'[r].pc \in Before \cup Buying \cup Opening =>
               proc[r].pc \in Before \cup Buying \cup Opening,
           proc'[r].pc \notin {"attempt", "signed", "send", "poll", "unmark"},
           proc'[r].failedOnChain => /\ proc[r].failedOnChain
                                     /\ proc'[r].pc \in {"result"} \cup Closing,
           proc[r].pc \in Closed => proc'[r].pc \in Closed,
           proc[r].pc \in Closing => proc'[r].pc \in Closing \cup Closed,
           proc'[r].pc \in Closing => /\ proc[r].pc \in Closing
                                      /\ proc'[r].outcome = proc[r].outcome
    PROVE  \A q \in Requests : Settled(q)'
<1>1. Settled(r)
  BY DEF IInv
<1>2. Last(r)' = Last(r) /\ (Landed(r)' <=> Landed(r)) /\ (Dead(r)' <=> Dead(r))
      /\ (Unmarked(r) => Unmarked(r)')
  BY DEF Last, Landed, Dead, Unmarked, First, Second
<1>3. InOrder(r)'
  BY <1>1, <1>2 DEF Settled, InOrder, First, Second
<1>4. Listed(r)'
  <2>1. \A e \in {First(r), Second(r)} : (Reached(e)' <=> Reached(e)) /\ (CanLand(e)' <=> CanLand(e))
    BY DEF Reached, CanLand
  <2>. QED BY <1>1, <1>2, <2>1 DEF Settled, Listed, First, Second
<1>5. Truth(r)'
  BY <1>1, <1>2 DEF Settled, Truth
<1>6. Settled(r)'
  BY <1>3, <1>4, <1>5 DEF Settled
<1>. QED BY <1>6, OthersKept

-----------------------------------------------------------------------------
(* The request, up to the purchase.                                        *)

LEMMA PrepareStep ==
    ASSUME IInv, NEW r \in Requests, Prepare(r)
    PROVE  IInv'
<1>1. /\ UNCHANGED <<reserved, cache, row, open, env, nonceUsed, expired, over, spent, slips, faults>>
      /\ proc[r].pc = "idle"
  BY DEF Prepare, marks, chain, At
<1>2. /\ Moved(r) /\ proc'[r].pc \in {"reserve", "done"}
      /\ proc'[r].failedOnChain => proc[r].failedOnChain
  <2>1. CASE \E c \in Calls : Reject(r, c)
    BY <2>1, EndMoves DEF Reject, IInv
  <2>2. CASE \E c \in Calls : proc' = [proc EXCEPT ![r].call = c, ![r].pc = "reserve"]
    <3>1. PICK c \in Calls : proc' = [proc EXCEPT ![r].call = c, ![r].pc = "reserve"]
      BY <2>2
    <3>2. proc[r] \in Locals /\ proc \in [Requests -> Locals] /\ "reserve" \in Steps
      BY DEF IInv, TypeOK, Steps, Before
    <3>. DEFINE h == [proc[r] EXCEPT !.call = c, !.pc = "reserve"]
    <3>3. h \in Locals /\ h.pc = "reserve" /\ h.failedOnChain = proc[r].failedOnChain
      BY <3>2 DEF Locals
    <3>4. proc' = [proc EXCEPT ![r] = h]
      BY <3>1, <3>2
    <3>. HIDE DEF h
    <3>. QED BY <3>2, <3>3, <3>4 DEF Moved
  <2>. QED BY <2>1, <2>2 DEF Prepare
<1>3. ~proc[r].failedOnChain
  BY <1>1 DEF IInv, Settled, InOrder, Closing
<1>4. TypeOK'
  BY <1>1, <1>2 DEF IInv, TypeOK, Moved
<1>5. Guard'
  BY <1>1, <1>2, GuardKept DEF Before, Buying, Opening, Signing, Closing, Closed, Held
<1>6. \A q \in Requests : Settled(q)'
  BY <1>1, <1>2, <1>3, SettledQuiet DEF Before, Buying, Opening, Signing, Closing, Closed
<1>7. Chain'
  BY <1>1 DEF IInv, Chain
<1>. QED BY <1>4, <1>5, <1>6, <1>7 DEF IInv

LEMMA ReserveReadStep ==
    ASSUME IInv, NEW r \in Requests, ReserveRead(r)
    PROVE  IInv'
<1>1. /\ UNCHANGED <<reserved, cache, row, open, env, nonceUsed, expired, over, spent, slips, faults>>
      /\ proc[r].pc = "reserve"
  BY DEF ReserveRead, marks, chain, At
<1>2. /\ Moved(r) /\ proc'[r].pc \in {"replay", "fresh"}
      /\ proc'[r].failedOnChain = proc[r].failedOnChain
  BY GotoMoves, Named DEF ReserveRead, IInv, Before
<1>3. ~proc[r].failedOnChain
  BY <1>1 DEF IInv, Settled, InOrder, Closing
<1>4. TypeOK'
  BY <1>1, <1>2 DEF IInv, TypeOK, Moved
<1>5. Guard'
  BY <1>1, <1>2, GuardKept DEF Before, Buying, Opening, Signing, Closing, Closed, Held
<1>6. \A q \in Requests : Settled(q)'
  BY <1>1, <1>2, <1>3, SettledQuiet DEF Before, Buying, Opening, Signing, Closing, Closed
<1>7. Chain'
  BY <1>1 DEF IInv, Chain
<1>. QED BY <1>4, <1>5, <1>6, <1>7 DEF IInv

LEMMA ReplayStep ==
    ASSUME IInv, NEW r \in Requests, Replay(r)
    PROVE  IInv'
<1>1. /\ UNCHANGED <<reserved, cache, row, open, env, nonceUsed, expired, over, spent, slips, faults>>
      /\ proc[r].pc = "replay"
  BY DEF Replay, marks, chain, At
<1>2. Moved(r) /\ proc'[r].pc \in {"served", "done"} /\ ~proc'[r].failedOnChain
  <2>1. \E l \in {"served", "done"} : proc' = [proc EXCEPT ![r] = [Idle EXCEPT !.pc = l]]
    BY DEF Replay
  <2>2. PICK l \in {"served", "done"} : proc' = [proc EXCEPT ![r] = [Idle EXCEPT !.pc = l]]
    BY <2>1
  <2>3. [Idle EXCEPT !.pc = l] \in Locals /\ [Idle EXCEPT !.pc = l].pc = l
        /\ ~[Idle EXCEPT !.pc = l].failedOnChain
    BY Named DEF Idle
  <2>. QED BY <2>2, <2>3 DEF IInv, TypeOK, Moved
<1>4. TypeOK'
  BY <1>1, <1>2 DEF IInv, TypeOK, Moved
<1>5. Guard'
  BY <1>1, <1>2, GuardKept DEF Before, Buying, Opening, Signing, Closing, Closed, Held
<1>6. \A q \in Requests : Settled(q)'
  BY <1>1, <1>2, SettledQuiet DEF Before, Buying, Opening, Signing, Closing, Closed
<1>7. Chain'
  BY <1>1 DEF IInv, Chain
<1>. QED BY <1>4, <1>5, <1>6, <1>7 DEF IInv

\* The marker is written: by the only holder, or in a race.
LEMMA ReservePutStep ==
    ASSUME IInv, NEW r \in Requests, ReservePut(r)
    PROVE  IInv'
<1>1. /\ UNCHANGED <<cache, row, open, env, nonceUsed, expired, over, spent, faults>>
      /\ proc[r].pc = "fresh" /\ reserved' = TRUE
  BY DEF ReservePut, marks, chain, At
<1>2. /\ Moved(r) /\ proc'[r].pc = "verify"
      /\ proc'[r].failedOnChain = proc[r].failedOnChain
  BY GotoMoves, Named DEF ReservePut, IInv, Buying
<1>3. ~proc[r].failedOnChain
  BY <1>1 DEF IInv, Settled, InOrder, Closing
<1>4. /\ slips' \subseteq Slips /\ slips \subseteq slips'
      /\ slips' \subseteq slips \cup {<<"raced", Nobody>>}
      /\ reserved => <<"raced", Nobody>> \in slips'
  <2>1. <<"raced", Nobody>> \in Slips
    BY DEF Slips
  <2>. QED BY <2>1, SlipAdds DEF ReservePut, IInv, TypeOK
<1>5. TypeOK'
  BY <1>1, <1>2, <1>4 DEF IInv, TypeOK, Moved
<1>6. Guard'
  <2>1. /\ Lost' <=> Lost
        /\ Slipped({"lapsed"})' <=> Slipped({"lapsed"})
    BY <1>4 DEF Lost, Slipped
  <2>2. /\ Slipped({"raced", "lapsed"}) => Slipped({"raced", "lapsed"})'
        /\ Slipped({"raced", "lost"}) => Slipped({"raced", "lost"})'
    BY <1>4 DEF Slipped
  <2>3. reserved => Slipped({"raced", "lapsed"})'
    BY <1>4 DEF Slipped
  <2>4. \A q \in Requests \ {r} : Holder(q)' => Holder(q)
    BY <1>1, <1>2, <2>1 DEF Holder, Moved
  <2>5. SoleHolder'
    BY <1>1, <2>2, <2>3, <2>4 DEF IInv, Guard, SoleHolder
  <2>6. \A q \in Requests : Buyer(q)' => Buyer(q)
    BY <1>1, <1>2 DEF Buyer, Moved
  <2>7. SoleBuyer'
    BY <2>2, <2>6 DEF IInv, Guard, SoleBuyer
  <2>8. Bought'
    <3>1. r \notin spent /\ \A c \in Calls : cache[c] # r
      BY <1>1 DEF IInv, Guard, Bought, Before, Closed
    <3>2. ASSUME NEW q \in Requests \ {r}
          PROVE  /\ proc'[q].pc \in Before \cup {"verify", "pay"} => q \notin spent'
                 /\ proc'[q].pc = "release" /\ q \in spent' => Lost'
                 /\ \A c \in Calls : cache'[c] = q => proc'[q].pc \in Closed
      BY <1>1, <1>2, <2>1 DEF IInv, Guard, Bought, Moved
    <3>. QED BY <1>1, <1>2, <2>1, <3>1, <3>2 DEF IInv, Guard, Bought
  <2>. QED BY <2>5, <2>7, <2>8 DEF Guard
<1>7. \A q \in Requests : Settled(q)'
  BY <1>1, <1>2, <1>3, <1>4, SettledQuiet DEF Before, Buying, Opening, Signing, Closing, Closed
<1>8. Chain'
  BY <1>1 DEF IInv, Chain
<1>. QED BY <1>5, <1>6, <1>7, <1>8 DEF IInv

\* The way to the merchant is open while the authorization is, and then the
\* request is the only one past the guard.
LEMMA VerifyStep ==
    ASSUME IInv, NEW r \in Requests, Verify(r)
    PROVE  IInv'
<1>1. /\ UNCHANGED <<reserved, cache, row, open, env, nonceUsed, expired, over, spent, slips, faults>>
      /\ proc[r].pc = "verify"
  BY DEF Verify, marks, chain, At
<1>2. /\ Moved(r) /\ proc'[r].pc \in {"pay", "release"}
      /\ proc'[r].pc = "pay" => ~expired
      /\ proc'[r].failedOnChain = proc[r].failedOnChain
  BY GotoMoves, Named DEF Verify, IInv, Buying
<1>3. ~proc[r].failedOnChain
  BY <1>1 DEF IInv, Settled, InOrder, Closing
<1>4. TypeOK'
  BY <1>1, <1>2 DEF IInv, TypeOK, Moved
<1>5. Guard'
  <2>1. CASE proc'[r].pc = "release"
    BY <1>1, <1>2, <2>1, GuardKept DEF Before, Buying, Opening, Signing, Closing, Closed, Held
  <2>2. CASE proc'[r].pc = "pay"
    <3>1. \A S : Slipped(S)' <=> Slipped(S)
      BY <1>1 DEF Slipped
    <3>2. Lost' <=> Lost
      BY <3>1 DEF Lost
    <3>3. \A q \in Requests : Holder(q)' => Holder(q)
      BY <1>1, <1>2, <3>2 DEF Holder, Moved, Buying
    <3>4. SoleHolder'
      BY <1>1, <3>1, <3>3 DEF IInv, Guard, SoleHolder
    <3>5. ~Slipped({"lapsed"})
      BY <1>2, <2>2 DEF IInv, Guard, Bought
    <3>6. SoleBuyer'
      <4>. SUFFICES ASSUME ~Slipped({"raced", "lost"}), NEW a \in Requests, NEW b \in Requests,
                           Buyer(a)', Buyer(b)'
                    PROVE  a = b
        BY <3>1 DEF SoleBuyer
      <4>1. ~Slipped({"raced", "lapsed"}) /\ ~Lost
        BY <3>5 DEF Slipped, Lost
      <4>2. Holder(a) /\ Holder(b)
        BY <1>1, <1>2, <4>1 DEF Buyer, Holder, Moved, Buying
      <4>. QED BY <4>1, <4>2 DEF IInv, Guard, SoleHolder
    <3>7. Bought'
      BY <1>1, <1>2, <3>1, <3>2 DEF IInv, Guard, Bought, Moved, Before, Closed
    <3>. QED BY <3>4, <3>6, <3>7 DEF Guard
  <2>. QED BY <1>2, <2>1, <2>2
<1>6. \A q \in Requests : Settled(q)'
  BY <1>1, <1>2, <1>3, SettledQuiet DEF Before, Buying, Opening, Signing, Closing, Closed
<1>7. Chain'
  BY <1>1 DEF IInv, Chain
<1>. QED BY <1>4, <1>5, <1>6, <1>7 DEF IInv

\* The marker is given back by the only one it stood for, which bought nothing.
LEMMA ReleaseStep ==
    ASSUME IInv, NEW r \in Requests, Release(r)
    PROVE  IInv'
<1>1. /\ UNCHANGED <<cache, row, open, env, nonceUsed, expired, over, spent, slips>>
      /\ proc[r].pc = "release" /\ reserved' \in BOOLEAN /\ faults' \in Nat
  BY DEF Release, marks, chain, At, Fault, IInv, TypeOK
<1>2. Moved(r) /\ proc'[r].pc = "done" /\ ~proc'[r].failedOnChain
  BY EndMoves DEF Release, IInv
<1>3. TypeOK'
  BY <1>1, <1>2 DEF IInv, TypeOK, Moved
<1>4. Guard'
  <2>1. \A S : Slipped(S)' <=> Slipped(S)
    BY <1>1 DEF Slipped
  <2>2. Lost' <=> Lost
    BY <2>1 DEF Lost
  <2>3. \A q \in Requests : Holder(q)' => Holder(q) /\ q # r
    <3>1. ~Holder(r)'
      BY <1>1, <1>2, <2>2 DEF IInv, Guard, Bought, Holder, Buying, Opening, Signing, Closing, Closed
    <3>2. \A q \in Requests \ {r} : Holder(q)' => Holder(q)
      BY <1>1, <1>2, <2>2 DEF Holder, Moved
    <3>. QED BY <3>1, <3>2
  <2>4. Holder(r)
    BY <1>1 DEF Holder, Buying
  <2>5. SoleHolder'
    BY <2>1, <2>3, <2>4 DEF IInv, Guard, SoleHolder
  <2>6. SoleBuyer'
    BY <1>1, <1>2, <2>1 DEF IInv, Guard, SoleBuyer, Buyer, Moved
  <2>7. Bought'
    BY <1>1, <1>2, <2>1, <2>2 DEF IInv, Guard, Bought, Moved, Before, Closed
  <2>. QED BY <2>5, <2>6, <2>7 DEF Guard
<1>5. \A q \in Requests : Settled(q)'
  BY <1>1, <1>2, SettledQuiet DEF Before, Buying, Opening, Signing, Closing, Closed
<1>6. Chain'
  BY <1>1 DEF IInv, Chain
<1>. QED BY <1>3, <1>4, <1>5, <1>6 DEF IInv

\* The upstream was bought, or an error may have hidden that it was.
LEMMA PayMerchantStep ==
    ASSUME IInv, NEW r \in Requests, PayMerchant(r)
    PROVE  IInv'
<1>1. /\ UNCHANGED <<reserved, cache, row, open, env, nonceUsed, expired, over, faults>>
      /\ proc[r].pc = "pay"
  BY DEF PayMerchant, marks, chain, At
<1>2. /\ Moved(r) /\ proc'[r].pc \in {"record", "release"}
      /\ proc'[r].failedOnChain = proc[r].failedOnChain
  BY GotoMoves, Named DEF PayMerchant, Served, Unserved, IInv, Buying, Opening
<1>3. ~proc[r].failedOnChain
  BY <1>1 DEF IInv, Settled, InOrder, Closing
<1>4. /\ slips' \subseteq Slips /\ slips \subseteq slips'
      /\ slips' \subseteq slips \cup {<<"lost", Nobody>>}
      /\ spent' \in {spent, spent \cup {r}}
      /\ proc'[r].pc = "release" /\ r \in spent' => r \in spent \/ <<"lost", Nobody>> \in slips'
  <2>1. CASE Served(r)
    BY <2>1, GotoMoves, Named DEF Served, IInv, TypeOK, Opening
  <2>2. CASE Unserved(r)
    <3>1. PICK lost \in BOOLEAN : /\ spent' = IF lost THEN spent \cup {r} ELSE spent
                                  /\ Slip(lost, <<"lost", Nobody>>)
      BY <2>2 DEF Unserved
    <3>2. <<"lost", Nobody>> \in Slips
      BY DEF Slips
    <3>3. /\ slips' \subseteq Slips /\ slips \subseteq slips'
          /\ slips' \subseteq slips \cup {<<"lost", Nobody>>}
          /\ lost => <<"lost", Nobody>> \in slips'
      BY <3>1, <3>2, SlipAdds DEF IInv, TypeOK
    <3>. QED BY <3>1, <3>3
  <2>. QED BY <2>1, <2>2 DEF PayMerchant
<1>5. TypeOK'
  BY <1>1, <1>2, <1>4 DEF IInv, TypeOK, Moved
<1>6. Guard'
  <2>1. /\ Lost => Lost'
        /\ Slipped({"raced", "lapsed"})' <=> Slipped({"raced", "lapsed"})
        /\ Slipped({"lapsed"})' <=> Slipped({"lapsed"})
        /\ Slipped({"raced", "lost"}) => Slipped({"raced", "lost"})'
    BY <1>4 DEF Lost, Slipped
  <2>2. <<"lost", Nobody>> \in slips' => Lost'
    BY DEF Lost, Slipped
  <2>3. \A q \in Requests : Holder(q)' => Holder(q)
    <3>1. \A q \in Requests \ {r} : Holder(q)' => Holder(q)
      BY <1>1, <1>2, <1>4, <2>1 DEF Holder, Moved
    <3>. QED BY <1>1, <3>1 DEF Holder, Buying
  <2>4. \A q \in Requests : Buyer(q)' => Buyer(q)
    BY <1>1, <1>2, <1>4 DEF Buyer, Moved
  <2>5. SoleHolder' /\ SoleBuyer'
    BY <1>1, <2>1, <2>3, <2>4 DEF IInv, Guard, SoleHolder, SoleBuyer
  <2>6. Bought'
    <3>1. r \notin spent /\ \A c \in Calls : cache[c] # r
      BY <1>1 DEF IInv, Guard, Bought, Closed
    <3>2. ASSUME NEW q \in Requests \ {r}
          PROVE  /\ proc'[q].pc \in Before \cup {"verify", "pay"} => q \notin spent'
                 /\ proc'[q].pc = "release" /\ q \in spent' => Lost'
                 /\ \A c \in Calls : cache'[c] = q => proc'[q].pc \in Closed
      BY <1>1, <1>2, <1>4, <2>1 DEF IInv, Guard, Bought, Moved
    <3>3. /\ proc'[r].pc \notin Before \cup {"verify", "pay"}
          /\ proc'[r].pc = "release" /\ r \in spent' => Lost'
          /\ \A c \in Calls : cache'[c] # r
      BY <1>1, <1>2, <1>4, <2>2, <3>1 DEF Before
    <3>. QED BY <1>1, <2>1, <3>2, <3>3 DEF IInv, Guard, Bought
  <2>. QED BY <2>5, <2>6 DEF Guard
<1>7. \A q \in Requests : Settled(q)'
  BY <1>1, <1>2, <1>3, <1>4, SettledQuiet DEF Before, Buying, Opening, Signing, Closing, Closed
<1>8. Chain'
  BY <1>1 DEF IInv, Chain
<1>. QED BY <1>5, <1>6, <1>7, <1>8 DEF IInv

\* A result is stored by the one request that holds the marker.
LEMMA CacheResultStep ==
    ASSUME IInv, NEW r \in Requests, CacheResult(r)
    PROVE  IInv'
<1>1. /\ UNCHANGED <<reserved, row, open, env, nonceUsed, expired, over, spent, slips, faults>>
      /\ proc[r].pc = "cache"
  BY DEF CacheResult, marks, chain, At
<1>2. Moved(r) /\ proc'[r].pc = "done" /\ ~proc'[r].failedOnChain
  BY EndMoves DEF CacheResult, IInv
<1>3. cache' \in [Calls -> Requests \cup {Nobody}]
      /\ \A c \in Calls : cache'[c] \in {cache[c], r}
  BY DEF CacheResult, IInv, TypeOK
<1>4. TypeOK'
  BY <1>1, <1>2, <1>3 DEF IInv, TypeOK, Moved
<1>5. Guard'
  <2>1. \A S : Slipped(S)' <=> Slipped(S)
    BY <1>1 DEF Slipped
  <2>2. Lost' <=> Lost
    BY <2>1 DEF Lost
  <2>3. \A q \in Requests : Holder(q)' => Holder(q)
    <3>1. \A q \in Requests \ {r} : Holder(q)' => Holder(q)
      BY <1>1, <1>2, <1>3, <2>2 DEF Holder, Moved
    <3>. QED BY <1>1, <3>1 DEF Holder, Closing
  <2>4. SoleHolder'
    BY <1>1, <2>1, <2>3 DEF IInv, Guard, SoleHolder
  <2>5. SoleBuyer'
    BY <1>1, <1>2, <2>1 DEF IInv, Guard, SoleBuyer, Buyer, Moved
  <2>6. Bought'
    <3>1. ASSUME NEW q \in Requests \ {r}
          PROVE  /\ proc'[q].pc \in Before \cup {"verify", "pay"} => q \notin spent'
                 /\ proc'[q].pc = "release" /\ q \in spent' => Lost'
                 /\ \A c \in Calls : cache'[c] = q => proc'[q].pc \in Closed
      BY <1>1, <1>2, <1>3, <2>2 DEF IInv, Guard, Bought, Moved
    <3>. QED BY <1>1, <1>2, <2>1, <3>1 DEF IInv, Guard, Bought, Before, Closed
  <2>. QED BY <2>4, <2>5, <2>6 DEF Guard
<1>6. \A q \in Requests : Settled(q)'
  BY <1>1, <1>2, SettledQuiet DEF Before, Buying, Opening, Signing, Closing, Closed
<1>7. Chain'
  BY <1>1 DEF IInv, Chain
<1>. QED BY <1>4, <1>5, <1>6, <1>7 DEF IInv

LEMMA DieStep ==
    ASSUME IInv, NEW r \in Requests, Die(r)
    PROVE  IInv'
<1>1. /\ UNCHANGED <<reserved, cache, row, open, env, nonceUsed, expired, over, spent>>
      /\ faults' \in Nat
  BY DEF Die, marks, chain, Fault, IInv, TypeOK
<1>2. Moved(r) /\ proc'[r].pc = "done" /\ ~proc'[r].failedOnChain
  BY EndMoves DEF Die, IInv
<1>3. /\ slips' \subseteq Slips /\ slips \subseteq slips'
      /\ slips' \subseteq slips \cup {<<"unmarked", r>>}
  <2>1. <<"unmarked", r>> \in Slips
    BY DEF Slips
  <2>2. slips' \in {slips, slips \cup {<<"unmarked", r>>}}
    BY DEF Die, Slip
  <2>. QED BY <2>1, <2>2 DEF IInv, TypeOK
<1>4. TypeOK'
  BY <1>1, <1>2, <1>3 DEF IInv, TypeOK, Moved
<1>5. Guard'
  BY <1>1, <1>2, <1>3, GuardKept DEF Before, Buying, Opening, Signing, Closing, Closed, Held
<1>6. \A q \in Requests : Settled(q)'
  BY <1>1, <1>2, <1>3, SettledQuiet DEF Before, Buying, Opening, Signing, Closing, Closed
<1>7. Chain'
  BY <1>1 DEF IInv, Chain
<1>. QED BY <1>4, <1>5, <1>6, <1>7 DEF IInv

-----------------------------------------------------------------------------
(* The envelopes of a request.                                             *)

\* The hashes of a request, in the order they were signed.
LEMMA HashesAre ==
    ASSUME TypeOK, NEW r \in Requests, InOrder(r)
    PROVE  /\ Hashes(r) = {} <=> env[First(r)] = "unsigned"
           /\ env[First(r)] = "unsigned" => Cardinality(Hashes(r)) = 0
           /\ env[First(r)] # "unsigned" => /\ Cardinality(Hashes(r)) \in {1, 2}
                                            /\ Current(r) = Last(r)
                                            /\ Last(r) \in Hashes(r)
           /\ Cardinality(Hashes(r)) = 1 => /\ Last(r) = First(r)
                                            /\ env[Second(r)] = "unsigned"
           /\ Hashes(r) \subseteq {First(r), Second(r)}
           /\ \A e \in {First(r), Second(r)} : env[e] # "unsigned" => e \in Hashes(r)
<1>1. {r} \X {1, 2} = {First(r), Second(r)} /\ First(r) # Second(r)
  BY DEF First, Second
<1>2. Hashes(r) = {e \in {First(r), Second(r)} : env[e] # "unsigned"}
  BY <1>1 DEF Hashes
<1>3. CASE env[First(r)] = "unsigned"
  <2>1. Hashes(r) = {}
    BY <1>2, <1>3 DEF InOrder
  <2>. QED BY <1>3, <2>1, <1>2, FS_EmptySet
<1>4. CASE env[First(r)] # "unsigned" /\ env[Second(r)] = "unsigned"
  <2>1. Hashes(r) = {First(r)} /\ Last(r) = First(r)
    BY <1>2, <1>4 DEF Last
  <2>2. Cardinality(Hashes(r)) = 1
    BY <2>1, FS_Singleton
  <2>3. Current(r) = First(r)
    BY <2>2 DEF Current, First
  <2>. QED BY <1>2, <1>4, <2>1, <2>2, <2>3
<1>5. CASE env[First(r)] # "unsigned" /\ env[Second(r)] # "unsigned"
  <2>1. Hashes(r) = {First(r)} \cup {Second(r)} /\ Last(r) = Second(r)
    BY <1>2, <1>5 DEF Last
  <2>2. IsFiniteSet({First(r)}) /\ Cardinality({First(r)}) = 1 /\ Second(r) \notin {First(r)}
    BY <1>1, FS_Singleton
  <2>3. Cardinality(Hashes(r)) = 2
    BY <2>1, <2>2, FS_AddElement
  <2>4. Current(r) = Second(r)
    BY <2>3 DEF Current, Second
  <2>. QED BY <1>2, <1>5, <2>1, <2>3, <2>4
<1>. QED BY <1>3, <1>4, <1>5

\* The envelopes of different requests are different.
LEMMA EnvelopesAre ==
    ASSUME NEW r \in Requests
    PROVE  /\ First(r) \in Envelopes /\ Second(r) \in Envelopes
           /\ \A q \in Requests \ {r} :
                 {First(q), Second(q)} \cap {First(r), Second(r)} = {}
           /\ \A e \in Envelopes : e[1] = r <=> e \in {First(r), Second(r)}
           /\ Landed(r) <=> \E e \in {First(r), Second(r)} : env[e] = "applied"
           /\ First(r)[1] = r /\ Second(r)[1] = r
BY DEF Envelopes, First, Second, Landed

\* A marker is never mistaken for none.
LEMMA NoneIs == ASSUME NEW S, S \subseteq Envelopes PROVE S # None
BY X402Constants DEF Envelopes, None

\* The row of r takes a status, or is left.
LEMMA RecordIs ==
    ASSUME TypeOK, NEW r \in Requests, NEW s \in Rows, NEW ok \in BOOLEAN, RecordOrder(r, s, ok)
    PROVE  /\ row' \in [Requests -> Rows] /\ row'[r] \in {row[r], s}
           /\ \A q \in Requests \ {r} : row'[q] = row[q]
           /\ ok => row'[r] = s
BY DEF TypeOK, RecordOrder

LEMMA RecordRowStep ==
    ASSUME IInv, NEW r \in Requests, RecordRow(r)
    PROVE  IInv'
<1>1. /\ UNCHANGED <<reserved, cache, open, env, nonceUsed, expired, over, spent, slips>>
      /\ proc[r].pc = "record" /\ faults' \in Nat
  BY DEF RecordRow, chain, At, Fault, IInv, TypeOK
<1>2. /\ Moved(r) /\ proc'[r].pc = "mark"
      /\ proc'[r].failedOnChain = proc[r].failedOnChain
  BY GotoMoves, Named DEF RecordRow, IInv, Opening
<1>3. /\ row' \in [Requests -> Rows] /\ row'[r] \in {row[r], "pending"}
      /\ \A q \in Requests \ {r} : row'[q] = row[q]
  BY RecordIs DEF RecordRow, Rows, IInv
<1>4. TypeOK'
  BY <1>1, <1>2, <1>3 DEF IInv, TypeOK, Moved
<1>5. Guard'
  BY <1>1, <1>2, GuardKept DEF Before, Buying, Opening, Signing, Closing, Closed, Held
<1>6. \A q \in Requests : Settled(q)'
  <2>1. Settled(r)
    BY DEF IInv
  <2>2. /\ Last(r)' = Last(r) /\ (Landed(r)' <=> Landed(r)) /\ (Dead(r)' <=> Dead(r))
        /\ (Unmarked(r)' <=> Unmarked(r))
    BY <1>1 DEF Last, Landed, Dead, Unmarked, First, Second
  <2>3. InOrder(r)'
    BY <1>1, <1>2, <2>1, <2>2 DEF Settled, InOrder, First, Second, Before, Buying, Opening, Closing,
       Closed
  <2>4. Listed(r)'
    BY <1>1, <1>2, <2>1, <2>2 DEF Settled, Listed, Reached, CanLand, First, Second
  <2>5. Truth(r)'
    BY <1>1, <1>2, <1>3, <2>1, <2>2 DEF Settled, Truth, Closing, Closed
  <2>. QED BY <1>1, <1>2, <1>3, <2>3, <2>4, <2>5, OthersKept DEF Settled
<1>7. Chain'
  BY <1>1 DEF IInv, Chain
<1>. QED BY <1>4, <1>5, <1>6, <1>7 DEF IInv

\* What writing the marker of r does.
LEMMA WriteOpenIs ==
    ASSUME TypeOK, NEW r \in Requests, NEW S, S \subseteq Envelopes, WriteOpen(r, S)
    PROVE  /\ open' \in [Requests -> (SUBSET Envelopes) \cup {None}]
           /\ \A q \in Requests \ {r} : open'[q] = open[q]
           /\ slips \subseteq slips' /\ slips' \subseteq slips \cup {<<"unmarked", r>>}
           /\ slips' \subseteq Slips /\ faults' \in Nat
           /\ \/ open'[r] = S /\ slips' = slips
              \/ open'[r] = open[r] /\ Unmarked(r)'
<1>1. CASE open' = [open EXCEPT ![r] = S] /\ UNCHANGED <<slips, faults>>
  BY <1>1 DEF TypeOK
<1>2. CASE UNCHANGED open /\ Slip(TRUE, <<"unmarked", r>>) /\ Fault(TRUE)
  <2>1. <<"unmarked", r>> \in Slips
    BY DEF Slips
  <2>2. /\ slips' \subseteq Slips /\ slips \subseteq slips'
        /\ slips' \subseteq slips \cup {<<"unmarked", r>>} /\ <<"unmarked", r>> \in slips'
    BY <1>2, <2>1, SlipAdds DEF TypeOK
  <2>3. faults' \in Nat
    BY <1>2 DEF Fault, TypeOK
  <2>. QED BY <1>2, <2>2, <2>3 DEF TypeOK, Unmarked
<1>. QED BY <1>1, <1>2 DEF WriteOpen

\* The marker opens before anything is signed.
LEMMA MarkOpenStep ==
    ASSUME IInv, NEW r \in Requests, MarkOpen(r)
    PROVE  IInv'
<1>1. /\ UNCHANGED <<reserved, cache, row, env, nonceUsed, expired, over, spent>>
      /\ proc[r].pc = "mark"
  BY DEF MarkOpen, chain, At
<1>2. /\ Moved(r) /\ proc'[r].pc = "attempt"
      /\ proc'[r].failedOnChain = proc[r].failedOnChain
  BY GotoMoves, Named DEF MarkOpen, IInv, Signing
<1>3. /\ open' \in [Requests -> (SUBSET Envelopes) \cup {None}]
      /\ \A q \in Requests \ {r} : open'[q] = open[q]
      /\ slips \subseteq slips' /\ slips' \subseteq slips \cup {<<"unmarked", r>>}
      /\ slips' \subseteq Slips /\ faults' \in Nat
      /\ \/ open'[r] = {} /\ slips' = slips
         \/ open'[r] = open[r] /\ Unmarked(r)'
  <2>1. WriteOpen(r, {}) /\ {} \subseteq Envelopes /\ TypeOK
    BY DEF MarkOpen, IInv
  <2>. HIDE DEF TypeOK, WriteOpen
  <2>. QED BY <2>1, WriteOpenIs
<1>4. TypeOK'
  BY <1>1, <1>2, <1>3 DEF IInv, TypeOK, Moved
<1>5. Guard'
  BY <1>1, <1>2, <1>3, GuardKept DEF Before, Buying, Opening, Signing, Closing, Closed, Held
<1>6. \A q \in Requests : Settled(q)'
  <2>1. Settled(r)
    BY DEF IInv
  <2>2. /\ Last(r)' = Last(r) /\ (Landed(r)' <=> Landed(r)) /\ (Dead(r)' <=> Dead(r))
        /\ (Unmarked(r) => Unmarked(r)')
    BY <1>1, <1>3 DEF Last, Landed, Dead, Unmarked, First, Second
  <2>3. env[First(r)] = "unsigned" /\ env[Second(r)] = "unsigned"
    BY <1>1, <2>1 DEF Settled, InOrder, Opening
  <2>4. InOrder(r)'
    BY <1>1, <1>2, <2>1, <2>2, <2>3 DEF Settled, InOrder, First, Second, Before, Buying, Opening,
       Closing, Closed
  <2>5. Listed(r)'
    <3>1. \A e \in {First(r), Second(r)} : ~Reached(e)' /\ ~CanLand(e)'
      BY <1>1, <2>3 DEF Reached, CanLand, First, Second
    <3>2. open'[r] # None => open'[r] \subseteq {First(r), Second(r)}
      BY <1>3, <2>1 DEF Settled, Listed
    <3>. QED BY <1>2, <3>1, <3>2 DEF Listed, First, Second
  <2>6. Truth(r)'
    BY <1>1, <1>2, <2>1, <2>2 DEF Settled, Truth, Opening, Closing, Closed
  <2>. QED BY <1>1, <1>2, <1>3, <2>4, <2>5, <2>6, OthersKept DEF Settled
<1>7. Chain'
  BY <1>1 DEF IInv, Chain
<1>. QED BY <1>4, <1>5, <1>6, <1>7 DEF IInv

\* An attempt is given up: the one retry, or the end.
LEMMA NextAttemptIs ==
    ASSUME TypeOK, NEW r \in Requests, NextAttempt(r)
    PROVE  /\ Moved(r) /\ proc'[r].failedOnChain = proc[r].failedOnChain
           /\ \/ proc'[r].pc = "attempt" /\ ~proc[r].retried /\ proc'[r].retried
              \/ proc'[r].pc = "result"
<1>1. CASE Goto(r, "result")
  BY <1>1, GotoMoves, Named DEF Signing
<1>2. CASE ~proc[r].retried /\ proc' = [proc EXCEPT ![r].pc = "attempt", ![r].retried = TRUE]
  <2>1. proc[r] \in Locals /\ proc \in [Requests -> Locals] /\ "attempt" \in Steps
    BY Named DEF TypeOK, Signing
  <2>. DEFINE h == [proc[r] EXCEPT !.pc = "attempt", !.retried = TRUE]
  <2>2. h \in Locals /\ h.pc = "attempt" /\ h.retried /\ h.failedOnChain = proc[r].failedOnChain
    BY <2>1 DEF Locals
  <2>3. proc' = [proc EXCEPT ![r] = h]
    BY <1>2, <2>1
  <2>. HIDE DEF h
  <2>. QED BY <1>2, <2>1, <2>2, <2>3 DEF Moved
<1>. QED BY <1>1, <1>2 DEF NextAttempt

LEMMA AttemptFailsStep ==
    ASSUME IInv, NEW r \in Requests, AttemptFails(r)
    PROVE  IInv'
<1>1. /\ UNCHANGED <<reserved, cache, row, open, env, nonceUsed, expired, over, spent, slips, faults>>
      /\ proc[r].pc = "attempt"
  BY DEF AttemptFails, marks, chain, At
<1>2. /\ Moved(r) /\ proc'[r].failedOnChain = proc[r].failedOnChain
      /\ \/ proc'[r].pc = "attempt" /\ ~proc[r].retried /\ proc'[r].retried
         \/ proc'[r].pc = "result"
  BY NextAttemptIs DEF AttemptFails, IInv
<1>3. TypeOK'
  BY <1>1, <1>2 DEF IInv, TypeOK, Moved
<1>4. Guard'
  BY <1>1, <1>2, GuardKept DEF Before, Buying, Opening, Signing, Closing, Closed, Held
<1>5. \A q \in Requests : Settled(q)'
  <2>1. Settled(r)
    BY DEF IInv
  <2>2. /\ Last(r)' = Last(r) /\ (Landed(r)' <=> Landed(r)) /\ (Dead(r)' <=> Dead(r))
        /\ (Unmarked(r)' <=> Unmarked(r))
    BY <1>1 DEF Last, Landed, Dead, Unmarked, First, Second
  <2>3. ~proc[r].failedOnChain /\ r \notin over
    BY <1>1, <2>1 DEF Settled, InOrder, Closing, Closed
  <2>4. InOrder(r)'
    BY <1>1, <1>2, <2>1, <2>2, <2>3 DEF Settled, InOrder, First, Second, Before, Buying, Opening
  <2>5. Listed(r)'
    BY <1>1, <1>2, <2>1, <2>2 DEF Settled, Listed, Reached, CanLand, First, Second
  <2>6. Truth(r)'
    BY <1>1, <1>2, <2>1, <2>2 DEF Settled, Truth, Closing, Closed
  <2>. QED BY <1>1, <1>2, <2>4, <2>5, <2>6, OthersKept DEF Settled
<1>6. Chain'
  BY <1>1 DEF IInv, Chain
<1>. QED BY <1>3, <1>4, <1>5, <1>6 DEF IInv

\* The next envelope is signed and is the last one.
LEMMA SignStep ==
    ASSUME IInv, NEW r \in Requests, Sign(r)
    PROVE  IInv'
<1>1. /\ UNCHANGED <<reserved, cache, row, open, nonceUsed, expired, over, spent, slips, faults>>
      /\ proc[r].pc = "attempt"
      /\ env' = [env EXCEPT ![<<r, Cardinality(Hashes(r)) + 1>>] = "signed"]
  BY DEF Sign, marks, At
<1>2. /\ Moved(r) /\ proc'[r].pc = "signed" /\ proc'[r].retried = proc[r].retried
      /\ proc'[r].failedOnChain = proc[r].failedOnChain
  BY GotoMoves, Named DEF Sign, IInv, Signing
<1>3. Settled(r) /\ InOrder(r)
  BY DEF IInv, Settled
<1>4. env[Second(r)] = "unsigned"
  BY <1>1, <1>3 DEF InOrder
<1>5. \E e \in {First(r), Second(r)} :
         /\ env' = [env EXCEPT ![e] = "signed"] /\ env[e] = "unsigned"
         /\ e = Second(r) <=> env[First(r)] # "unsigned"
  <2>1. CASE env[First(r)] = "unsigned"
    <3>1. Cardinality(Hashes(r)) = 0
      BY <1>3, <2>1, HashesAre DEF IInv
    <3>2. First(r) # Second(r)
      BY DEF First, Second
    <3>. QED BY <1>1, <2>1, <3>1, <3>2 DEF First
  <2>2. CASE env[First(r)] # "unsigned"
    <3>1. Cardinality(Hashes(r)) \in {1, 2} /\ Current(r) = Last(r)
      BY <1>3, <2>2, HashesAre DEF IInv
    <3>2. Last(r) = First(r)
      BY <1>4 DEF Last
    <3>3. Cardinality(Hashes(r)) = 1
      BY <3>1, <3>2 DEF Current, First
    <3>. QED BY <1>1, <1>4, <2>2, <3>3 DEF Second
  <2>. QED BY <2>1, <2>2
<1>6. PICK e \in {First(r), Second(r)} :
         /\ env' = [env EXCEPT ![e] = "signed"] /\ env[e] = "unsigned"
         /\ e = Second(r) <=> env[First(r)] # "unsigned"
  BY <1>5
<1>7. /\ First(r) \in Envelopes /\ Second(r) \in Envelopes
      /\ \A q \in Requests \ {r} : {First(q), Second(q)} \cap {First(r), Second(r)} = {}
      /\ First(r) # Second(r)
  BY EnvelopesAre DEF First, Second
<1>8. /\ env' \in [Envelopes -> Fates] /\ env'[e] = "signed"
      /\ \A f \in Envelopes \ {e} : env'[f] = env[f]
  BY <1>6, <1>7 DEF IInv, TypeOK, Fates
<1>9. TypeOK'
  BY <1>1, <1>2, <1>8 DEF IInv, TypeOK, Moved
<1>10. Guard'
  BY <1>1, <1>2, GuardKept DEF Before, Buying, Opening, Signing, Closing, Closed, Held
<1>11. \A q \in Requests : Settled(q)'
  <2>1. Last(r)' = e /\ (Unmarked(r)' <=> Unmarked(r))
    BY <1>1, <1>4, <1>6, <1>7, <1>8 DEF Last, Unmarked
  <2>2. ~proc[r].failedOnChain /\ r \notin over
    BY <1>1, <1>3 DEF InOrder, Closing, Closed
  <2>3. InOrder(r)'
    <3>1. env'[Second(r)] # "unsigned" => env'[First(r)] # "unsigned"
      BY <1>4, <1>6, <1>7, <1>8
    <3>2. ~proc'[r].retried => env'[Second(r)] = "unsigned"
      BY <1>1, <1>2, <1>3, <1>4, <1>6, <1>7, <1>8 DEF InOrder
    <3>. QED BY <1>1, <1>2, <1>8, <2>1, <2>2, <3>1, <3>2 DEF InOrder, Before, Buying, Opening
  <2>4. Listed(r)'
    <3>1. \A f \in {First(r), Second(r)} : (Reached(f)' => Reached(f)) /\ (CanLand(f)' => CanLand(f))
      BY <1>1, <1>7, <1>8 DEF Reached, CanLand
    <3>. QED BY <1>1, <1>2, <1>3, <2>1, <3>1 DEF Settled, Listed, First, Second
  <2>5. Truth(r)'
    <3>1. row[r] # "failed" \/ Unmarked(r)
      BY <1>1, <1>3 DEF Settled, Truth, Closing, Closed
    <3>2. Landed(r) => Landed(r)'
      BY <1>6, <1>7, <1>8, EnvelopesAre DEF Landed, First, Second
    <3>. QED BY <1>1, <1>2, <1>3, <2>1, <3>1, <3>2 DEF Settled, Truth, Closing, Closed
  <2>6. \A q \in Requests \ {r} : /\ env'[First(q)] = env[First(q)]
                                  /\ env'[Second(q)] = env[Second(q)]
    BY <1>7, <1>8, EnvelopesAre
  <2>. QED BY <1>1, <1>2, <2>3, <2>4, <2>5, <2>6, OthersKept DEF Settled
<1>12. Chain'
  BY <1>1, <1>8 DEF IInv, Chain
<1>. QED BY <1>9, <1>10, <1>11, <1>12 DEF IInv

\* The hash is written before the envelope is on its way,
LEMMA OnSignedStep ==
    ASSUME IInv, NEW r \in Requests, OnSigned(r)
    PROVE  IInv'
<1>1. /\ UNCHANGED <<reserved, cache, row, env, nonceUsed, expired, over, spent>>
      /\ proc[r].pc = "signed"
  BY DEF OnSigned, chain, At
<1>2. /\ Moved(r) /\ proc'[r].pc = "send" /\ proc'[r].retried = proc[r].retried
      /\ proc'[r].failedOnChain = proc[r].failedOnChain
  BY GotoMoves, Named DEF OnSigned, IInv, Signing
<1>3. Settled(r) /\ InOrder(r) /\ Listed(r) /\ Truth(r)
  BY DEF IInv, Settled
<1>4. /\ Last(r) \in Hashes(r) /\ Hashes(r) \subseteq {First(r), Second(r)}
      /\ \A e \in {First(r), Second(r)} : env[e] # "unsigned" => e \in Hashes(r)
  <2>1. env[First(r)] # "unsigned"
    BY <1>1, <1>3 DEF InOrder, Last
  <2>. QED BY <1>3, <2>1, HashesAre DEF IInv
<1>5. /\ open' \in [Requests -> (SUBSET Envelopes) \cup {None}]
      /\ \A q \in Requests \ {r} : open'[q] = open[q]
      /\ slips \subseteq slips' /\ slips' \subseteq slips \cup {<<"unmarked", r>>}
      /\ slips' \subseteq Slips /\ faults' \in Nat
      /\ \/ open'[r] = Hashes(r) /\ slips' = slips
         \/ open'[r] = open[r] /\ Unmarked(r)'
  <2>1. WriteOpen(r, Hashes(r)) /\ Hashes(r) \subseteq Envelopes /\ TypeOK
    BY <1>4, EnvelopesAre DEF OnSigned, IInv
  <2>. QED BY <2>1, WriteOpenIs
<1>6. TypeOK'
  BY <1>1, <1>2, <1>5 DEF IInv, TypeOK, Moved
<1>7. Guard'
  BY <1>1, <1>2, <1>5, GuardKept DEF Before, Buying, Opening, Signing, Closing, Closed, Held
<1>8. \A q \in Requests : Settled(q)'
  <2>1. /\ Last(r)' = Last(r) /\ (Landed(r)' <=> Landed(r)) /\ (Dead(r)' <=> Dead(r))
        /\ (Unmarked(r) => Unmarked(r)')
    BY <1>1, <1>5 DEF Last, Landed, Dead, Unmarked, First, Second
  <2>2. InOrder(r)'
    BY <1>1, <1>2, <1>3, <2>1 DEF InOrder, First, Second, Before, Buying, Opening, Closing, Closed
  <2>3. Listed(r)'
    <3>1. \A e \in {First(r), Second(r)} :
            Reached(e)' \/ CanLand(e)' => e \in Hashes(r)
      BY <1>1, <1>4 DEF Reached, CanLand
    <3>2. CASE open'[r] = Hashes(r)
      BY <1>2, <1>4, <2>1, <3>1, <3>2 DEF Listed, First, Second
    <3>3. CASE open'[r] = open[r] /\ Unmarked(r)'
      BY <1>3, <3>3 DEF Listed, First, Second
    <3>. QED BY <1>5, <3>2, <3>3
  <2>4. Truth(r)'
    BY <1>1, <1>2, <1>3, <2>1 DEF Truth, Closing, Closed
  <2>. QED BY <1>1, <1>2, <1>5, <2>2, <2>3, <2>4, OthersKept DEF Settled
<1>9. Chain'
  BY <1>1 DEF IInv, Chain
<1>. QED BY <1>6, <1>7, <1>8, <1>9 DEF IInv

\* and again when the outcome is not known.
LEMMA RemarkStep ==
    ASSUME IInv, NEW r \in Requests, Remark(r)
    PROVE  IInv'
<1>1. /\ UNCHANGED <<reserved, cache, row, env, nonceUsed, expired, over, spent>>
      /\ proc[r].pc = "remark"
  BY DEF Remark, chain, At
<1>2. /\ Moved(r) /\ proc'[r].pc = "cache" /\ proc'[r].outcome = proc[r].outcome
      /\ proc'[r].failedOnChain = proc[r].failedOnChain
  BY GotoMoves, Named DEF Remark, IInv, Closing
<1>3. Settled(r) /\ InOrder(r) /\ Listed(r) /\ Truth(r)
  BY DEF IInv, Settled
<1>4. /\ Hashes(r) \subseteq {First(r), Second(r)}
      /\ \A e \in {First(r), Second(r)} : env[e] # "unsigned" => e \in Hashes(r)
  BY <1>3, HashesAre DEF IInv
<1>5. /\ open' \in [Requests -> (SUBSET Envelopes) \cup {None}]
      /\ \A q \in Requests \ {r} : open'[q] = open[q]
      /\ slips \subseteq slips' /\ slips' \subseteq slips \cup {<<"unmarked", r>>}
      /\ slips' \subseteq Slips /\ faults' \in Nat
      /\ \/ open'[r] = Hashes(r) /\ slips' = slips
         \/ open'[r] = open[r] /\ Unmarked(r)'
  <2>1. WriteOpen(r, Hashes(r)) /\ Hashes(r) \subseteq Envelopes /\ TypeOK
    BY <1>4, EnvelopesAre DEF Remark, IInv
  <2>. QED BY <2>1, WriteOpenIs
<1>6. TypeOK'
  BY <1>1, <1>2, <1>5 DEF IInv, TypeOK, Moved
<1>7. Guard'
  BY <1>1, <1>2, <1>5, GuardKept DEF Before, Buying, Opening, Signing, Closing, Closed, Held
<1>8. \A q \in Requests : Settled(q)'
  <2>1. /\ Last(r)' = Last(r) /\ (Landed(r)' <=> Landed(r)) /\ (Dead(r)' <=> Dead(r))
        /\ (Unmarked(r) => Unmarked(r)')
    BY <1>1, <1>5 DEF Last, Landed, Dead, Unmarked, First, Second
  <2>2. InOrder(r)'
    BY <1>1, <1>2, <1>3, <2>1 DEF InOrder, First, Second, Before, Buying, Opening, Closing, Closed
  <2>3. Listed(r)'
    <3>1. \A e \in {First(r), Second(r)} :
            Reached(e)' \/ CanLand(e)' => e \in Hashes(r)
      BY <1>1, <1>4 DEF Reached, CanLand
    <3>2. CASE open'[r] = Hashes(r)
      BY <1>2, <1>4, <2>1, <3>1, <3>2 DEF Listed, First, Second
    <3>3. CASE open'[r] = open[r] /\ Unmarked(r)'
      BY <1>3, <3>3 DEF Listed, First, Second
    <3>. QED BY <1>5, <3>2, <3>3
  <2>4. Truth(r)'
    BY <1>1, <1>2, <1>3, <2>1 DEF Truth, Closing, Closed
  <2>. QED BY <1>1, <1>2, <1>5, <2>2, <2>3, <2>4, OthersKept DEF Settled
<1>9. Chain'
  BY <1>1 DEF IInv, Chain
<1>. QED BY <1>6, <1>7, <1>8, <1>9 DEF IInv

\* The last envelope leaves, seen or not, and its request goes on without it.
LEMMA Sent ==
    ASSUME IInv, NEW r \in Requests, Moved(r), proc[r].pc \in {"attempt", "signed", "send", "poll"},
           env' = env \/ (proc[r].pc = "send" /\ env' = [env EXCEPT ![Current(r)] = "sent"]),
           UNCHANGED <<row, open, nonceUsed, over, slips>>, ~proc'[r].failedOnChain,
           \/ proc'[r].pc = "poll" /\ proc[r].pc = "send"
           \/ proc'[r].pc = "result"
           \/ proc'[r].pc = "attempt" /\ proc[r].pc = "send" /\ ~proc[r].retried /\ proc'[r].retried
           \/ proc'[r].pc = "final" /\ proc'[r].outcome = "unknown"
    PROVE  /\ env' \in [Envelopes -> Fates] /\ Chain'
           /\ \A q \in Requests : Settled(q)'
<1>1. Settled(r) /\ InOrder(r) /\ Listed(r) /\ Truth(r)
  BY DEF IInv, Settled
<1>2. proc[r].pc = "send" => /\ Current(r) = Last(r) /\ env[Last(r)] = "signed"
                             /\ env[First(r)] # "unsigned"
  <2>1. proc[r].pc = "send" => env[First(r)] # "unsigned" /\ env[Last(r)] = "signed"
    BY <1>1 DEF InOrder, Last
  <2>. QED BY <1>1, <2>1, HashesAre DEF IInv
<1>3. /\ First(r) \in Envelopes /\ Second(r) \in Envelopes /\ Last(r) \in {First(r), Second(r)}
      /\ \A q \in Requests \ {r} : {First(q), Second(q)} \cap {First(r), Second(r)} = {}
      /\ First(r) # Second(r)
  BY EnvelopesAre DEF First, Second, Last
<1>4. /\ env' \in [Envelopes -> Fates]
      /\ \A e \in Envelopes : \/ env'[e] = env[e]
                              \/ /\ env'[e] = "sent" /\ env[e] = "signed" /\ e = Last(r)
                                 /\ proc[r].pc = "send"
  BY <1>2, <1>3 DEF IInv, TypeOK, Fates
<1>5. Last(r)' = Last(r) /\ (Unmarked(r)' <=> Unmarked(r))
  BY <1>3, <1>4 DEF Last, Unmarked
<1>6. InOrder(r)'
  <2>1. r \notin over
    BY <1>1 DEF InOrder, Closed
  <2>2. /\ env'[First(r)] = "unsigned" <=> env[First(r)] = "unsigned"
        /\ env'[Second(r)] = "unsigned" <=> env[Second(r)] = "unsigned"
    BY <1>3, <1>4
  <2>. QED BY <1>1, <1>2, <2>1, <2>2 DEF InOrder, Before, Buying, Opening, Closing, Closed
<1>7. Listed(r)'
  <2>1. proc[r].pc = "send" => Last(r) \in open[r] \/ Unmarked(r)
    BY <1>1 DEF Listed
  <2>2. \A e \in {First(r), Second(r)} :
           /\ Reached(e)' => Reached(e) \/ e \in open[r] \/ Unmarked(r)
           /\ CanLand(e)' => CanLand(e) \/ e \in open[r] \/ Unmarked(r)
    BY <1>3, <1>4, <2>1 DEF Reached, CanLand
  <2>. QED BY <1>1, <1>5, <2>2 DEF Listed, First, Second
<1>8. Truth(r)'
  <2>1. row[r] # "failed" \/ Unmarked(r)
    BY <1>1 DEF Truth, Closing, Closed
  <2>2. Landed(r) => Landed(r)'
    BY <1>3, <1>4, EnvelopesAre DEF Landed, First, Second
  <2>. QED BY <1>1, <1>5, <2>1, <2>2 DEF Truth, Closing, Closed
<1>9. \A q \in Requests \ {r} : /\ env'[First(q)] = env[First(q)]
                                /\ env'[Second(q)] = env[Second(q)]
  BY <1>3, <1>4, EnvelopesAre
<1>10. Chain'
  BY <1>4 DEF IInv, Chain
<1>. QED BY <1>4, <1>6, <1>7, <1>8, <1>9, <1>10, OthersKept DEF Settled

LEMMA SendStep ==
    ASSUME IInv, NEW r \in Requests, Send(r)
    PROVE  IInv'
<1>1. /\ UNCHANGED <<reserved, cache, row, open, nonceUsed, expired, over, spent, slips, faults>>
      /\ proc[r].pc = "send"
      /\ env' = env \/ env' = [env EXCEPT ![Current(r)] = "sent"]
  BY DEF Send, marks, At
<1>2. /\ Moved(r) /\ proc'[r].failedOnChain = proc[r].failedOnChain
      /\ \/ proc'[r].pc = "attempt" /\ ~proc[r].retried /\ proc'[r].retried
         \/ proc'[r].pc \in {"result", "poll"}
  BY NextAttemptIs, GotoMoves, Named DEF Send, IInv, Signing
<1>3. ~proc[r].failedOnChain
  BY <1>1 DEF IInv, Settled, InOrder, Closing
<1>4. env' \in [Envelopes -> Fates] /\ Chain' /\ \A q \in Requests : Settled(q)'
  BY <1>1, <1>2, <1>3, Sent
<1>5. TypeOK'
  BY <1>1, <1>2, <1>4 DEF IInv, TypeOK, Moved
<1>6. Guard'
  BY <1>1, <1>2, GuardKept DEF Before, Buying, Opening, Signing, Closing, Closed, Held
<1>. QED BY <1>4, <1>5, <1>6 DEF IInv

\* A request with another step and outcome.
LEMMA OutcomeMoves ==
    ASSUME TypeOK, NEW r \in Requests, NEW o \in Outcomes,
           proc' = [proc EXCEPT ![r].pc = "final", ![r].outcome = o]
    PROVE  /\ Moved(r) /\ proc'[r].pc = "final" /\ proc'[r].outcome = o
           /\ proc'[r].failedOnChain = proc[r].failedOnChain
<1>1. proc[r] \in Locals /\ proc \in [Requests -> Locals] /\ "final" \in Steps
  BY Named DEF TypeOK, Closing
<1>. DEFINE h == [proc[r] EXCEPT !.pc = "final", !.outcome = o]
<1>2. h \in Locals /\ h.pc = "final" /\ h.outcome = o /\ h.failedOnChain = proc[r].failedOnChain
  BY <1>1 DEF Locals
<1>3. proc' = [proc EXCEPT ![r] = h]
  BY <1>1
<1>. HIDE DEF h
<1>. QED BY <1>1, <1>2, <1>3 DEF Moved

LEMMA DeadlineStep ==
    ASSUME IInv, NEW r \in Requests, Deadline(r)
    PROVE  IInv'
<1>1. /\ UNCHANGED <<reserved, cache, row, open, nonceUsed, expired, over, spent, slips, faults>>
      /\ proc[r].pc \in {"attempt", "signed", "send", "poll"}
      /\ env' = env \/ (proc[r].pc = "send" /\ env' = [env EXCEPT ![Current(r)] = "sent"])
  BY DEF Deadline, marks, At
<1>2. /\ Moved(r) /\ proc'[r].pc = "final" /\ proc'[r].outcome = "unknown"
      /\ proc'[r].failedOnChain = proc[r].failedOnChain
  BY OutcomeMoves DEF Deadline, IInv, Outcomes
<1>3. ~proc[r].failedOnChain
  BY <1>1 DEF IInv, Settled, InOrder, Closing
<1>4. env' \in [Envelopes -> Fates] /\ Chain' /\ \A q \in Requests : Settled(q)'
  BY <1>1, <1>2, <1>3, Sent
<1>5. TypeOK'
  BY <1>1, <1>2, <1>4 DEF IInv, TypeOK, Moved
<1>6. Guard'
  BY <1>1, <1>2, GuardKept DEF Before, Buying, Opening, Signing, Closing, Closed, Held
<1>. QED BY <1>4, <1>5, <1>6 DEF IInv

\* The poll believes the chain.
LEMMA PollStep ==
    ASSUME IInv, NEW r \in Requests, Poll(r)
    PROVE  IInv'
<1>1. /\ UNCHANGED <<reserved, cache, row, open, env, nonceUsed, expired, over, spent, slips, faults>>
      /\ proc[r].pc = "poll"
  BY DEF Poll, marks, chain, At
<1>2. Settled(r) /\ InOrder(r) /\ Listed(r) /\ Truth(r)
  BY DEF IInv, Settled
<1>3. Current(r) = Last(r) /\ ~proc[r].failedOnChain /\ r \notin over
  BY <1>1, <1>2, HashesAre DEF IInv, InOrder, Closing, Closed
<1>4. /\ Moved(r)
      /\ \/ /\ proc'[r].pc = "final" /\ proc'[r].outcome = "settled" /\ ~proc'[r].failedOnChain
            /\ env[Last(r)] = "applied"
         \/ proc'[r].pc = "result" /\ proc'[r].failedOnChain /\ env[Last(r)] = "rejected"
  <2>1. CASE /\ env[Current(r)] = "applied"
             /\ proc' = [proc EXCEPT ![r].pc = "final", ![r].outcome = "settled"]
    BY <1>3, <2>1, OutcomeMoves DEF IInv, Outcomes
  <2>2. CASE /\ env[Current(r)] = "rejected"
             /\ proc' = [proc EXCEPT ![r].pc = "result", ![r].failedOnChain = TRUE]
    <3>1. proc[r] \in Locals /\ proc \in [Requests -> Locals] /\ "result" \in Steps
      BY Named DEF IInv, TypeOK, Signing
    <3>. DEFINE h == [proc[r] EXCEPT !.pc = "result", !.failedOnChain = TRUE]
    <3>2. h \in Locals /\ h.pc = "result" /\ h.failedOnChain
      BY <3>1 DEF Locals
    <3>3. proc' = [proc EXCEPT ![r] = h]
      BY <2>2, <3>1
    <3>. HIDE DEF h
    <3>. QED BY <1>3, <2>2, <3>1, <3>2, <3>3 DEF Moved
  <2>. QED BY <2>1, <2>2 DEF Poll
<1>5. TypeOK'
  BY <1>1, <1>4 DEF IInv, TypeOK, Moved
<1>6. Guard'
  BY <1>1, <1>4, GuardKept DEF Before, Buying, Opening, Signing, Closing, Closed, Held
<1>7. \A q \in Requests : Settled(q)'
  <2>1. /\ Last(r)' = Last(r) /\ (Landed(r)' <=> Landed(r)) /\ (Dead(r)' <=> Dead(r))
        /\ (Unmarked(r)' <=> Unmarked(r))
    BY <1>1 DEF Last, Landed, Dead, Unmarked, First, Second
  <2>2. InOrder(r)'
    BY <1>1, <1>2, <1>3, <1>4, <2>1 DEF InOrder, First, Second, Before, Buying, Opening, Closing, Closed
  <2>3. Listed(r)'
    BY <1>1, <1>2, <1>4, <2>1 DEF Listed, Reached, CanLand, First, Second
  <2>4. Truth(r)'
    <3>1. env[Last(r)] = "applied" => Landed(r)
      BY DEF Last, Landed, First, Second
    <3>. QED BY <1>1, <1>2, <1>4, <2>1, <3>1 DEF Truth, Closing, Closed
  <2>. QED BY <1>1, <1>4, <2>2, <2>3, <2>4, OthersKept DEF Settled
<1>8. Chain'
  BY <1>1 DEF IInv, Chain
<1>. QED BY <1>5, <1>6, <1>7, <1>8 DEF IInv

\* A settlement is called failed only when none of its envelopes can land.
LEMMA ResultStep ==
    ASSUME IInv, NEW r \in Requests, Result(r)
    PROVE  IInv'
<1>1. /\ UNCHANGED <<reserved, cache, row, open, env, nonceUsed, expired, over, spent, slips, faults>>
      /\ proc[r].pc = "result"
  BY DEF Result, marks, chain, At
<1>2. Settled(r) /\ InOrder(r) /\ Listed(r) /\ Truth(r)
  BY DEF IInv, Settled
<1>3. /\ Moved(r) /\ proc'[r].pc = "final" /\ proc'[r].outcome \in {"failed", "unknown"}
      /\ proc'[r].failedOnChain = proc[r].failedOnChain
      /\ proc'[r].outcome = "failed" =>
           Hashes(r) = {} \/ (proc[r].failedOnChain /\ Cardinality(Hashes(r)) = 1)
  <2>1. CASE Hashes(r) = {} \/ (proc[r].failedOnChain /\ Cardinality(Hashes(r)) = 1)
    <3>1. proc' = [proc EXCEPT ![r].pc = "final", ![r].outcome = "failed"]
      BY <2>1 DEF Result
    <3>. QED BY <2>1, <3>1, OutcomeMoves DEF IInv, Outcomes
  <2>2. CASE ~(Hashes(r) = {} \/ (proc[r].failedOnChain /\ Cardinality(Hashes(r)) = 1))
    <3>1. proc' = [proc EXCEPT ![r].pc = "final", ![r].outcome = "unknown"]
      BY <2>2 DEF Result
    <3>. QED BY <2>2, <3>1, OutcomeMoves DEF IInv, Outcomes
  <2>. QED BY <2>1, <2>2
<1>4. proc'[r].outcome = "failed" => Dead(r)
  <2>1. Hashes(r) = {} => Dead(r)
    BY <1>2, HashesAre DEF IInv, InOrder, Dead
  <2>2. proc[r].failedOnChain /\ Cardinality(Hashes(r)) = 1 => Dead(r)
    BY <1>2, HashesAre DEF IInv, InOrder, Dead
  <2>. QED BY <1>3, <2>1, <2>2
<1>5. TypeOK'
  BY <1>1, <1>3 DEF IInv, TypeOK, Moved
<1>6. Guard'
  BY <1>1, <1>3, GuardKept DEF Before, Buying, Opening, Signing, Closing, Closed, Held
<1>7. \A q \in Requests : Settled(q)'
  <2>1. /\ Last(r)' = Last(r) /\ (Landed(r)' <=> Landed(r)) /\ (Dead(r)' <=> Dead(r))
        /\ (Unmarked(r)' <=> Unmarked(r))
    BY <1>1 DEF Last, Landed, Dead, Unmarked, First, Second
  <2>2. InOrder(r)'
    BY <1>1, <1>2, <1>3, <2>1 DEF InOrder, First, Second, Before, Buying, Opening, Closing, Closed
  <2>3. Listed(r)'
    BY <1>1, <1>2, <1>3, <2>1 DEF Listed, Reached, CanLand, First, Second
  <2>4. Truth(r)'
    BY <1>1, <1>2, <1>3, <1>4, <2>1 DEF Truth, Closing, Closed
  <2>. QED BY <1>1, <1>3, <2>2, <2>3, <2>4, OthersKept DEF Settled
<1>8. Chain'
  BY <1>1 DEF IInv, Chain
<1>. QED BY <1>5, <1>6, <1>7, <1>8 DEF IInv

LEMMA FinalRowStep ==
    ASSUME IInv, NEW r \in Requests, FinalRow(r)
    PROVE  IInv'
<1>1. /\ UNCHANGED <<reserved, cache, open, env, nonceUsed, expired, over, spent, slips>>
      /\ proc[r].pc = "final" /\ faults' \in Nat
  BY DEF FinalRow, chain, At, Fault, IInv, TypeOK
<1>2. Settled(r) /\ InOrder(r) /\ Listed(r) /\ Truth(r)
  BY DEF IInv, Settled
<1>3. PICK l \in {"remark", "unmark", "cache"} : /\ Goto(r, l)
                                                 /\ l = "unmark" => proc[r].outcome # "unknown"
  BY DEF FinalRow
<1>4. /\ Moved(r) /\ proc'[r].pc = l /\ proc'[r].outcome = proc[r].outcome
      /\ proc'[r].failedOnChain = proc[r].failedOnChain
  BY <1>3, GotoMoves, Named DEF IInv, Closing
<1>5. /\ row' \in [Requests -> Rows] /\ row'[r] \in {row[r], proc[r].outcome}
      /\ \A q \in Requests \ {r} : row'[q] = row[q]
  <2>1. proc[r].outcome \in Rows
    BY DEF IInv, TypeOK, Locals, Rows
  <2>. QED BY <2>1, RecordIs DEF FinalRow, IInv
<1>6. TypeOK'
  BY <1>1, <1>4, <1>5 DEF IInv, TypeOK, Moved
<1>7. Guard'
  BY <1>1, <1>3, <1>4, GuardKept DEF Before, Buying, Opening, Signing, Closing, Closed, Held
<1>8. \A q \in Requests : Settled(q)'
  <2>1. /\ Last(r)' = Last(r) /\ (Landed(r)' <=> Landed(r)) /\ (Dead(r)' <=> Dead(r))
        /\ (Unmarked(r)' <=> Unmarked(r))
    BY <1>1 DEF Last, Landed, Dead, Unmarked, First, Second
  <2>2. InOrder(r)'
    BY <1>1, <1>2, <1>3, <1>4, <2>1 DEF InOrder, First, Second, Before, Buying, Opening, Closing, Closed
  <2>3. Listed(r)'
    BY <1>1, <1>2, <1>3, <1>4, <2>1 DEF Listed, Reached, CanLand, First, Second
  <2>4. Truth(r)'
    <3>1. Dead(r) => ~Landed(r)
      BY DEF Dead, Landed, First, Second
    <3>. QED BY <1>1, <1>2, <1>3, <1>4, <1>5, <2>1, <3>1 DEF Truth, Closing, Closed
  <2>. QED BY <1>1, <1>4, <1>5, <2>2, <2>3, <2>4, OthersKept DEF Settled
<1>9. Chain'
  BY <1>1 DEF IInv, Chain
<1>. QED BY <1>6, <1>7, <1>8, <1>9 DEF IInv

\* What landed took the nonce, so nothing else lands.
LEMMA LandedTakes ==
    ASSUME IInv, NEW r \in Requests, Landed(r)
    PROVE  nonceUsed
BY EnvelopesAre DEF IInv, Chain

\* The marker goes only when nothing of the request can land any more.
LEMMA UnmarkStep ==
    ASSUME IInv, NEW r \in Requests, Unmark(r)
    PROVE  IInv'
<1>1. /\ UNCHANGED <<reserved, cache, row, env, nonceUsed, expired, over, spent, slips>>
      /\ proc[r].pc = "unmark" /\ faults' \in Nat
      /\ open' \in {open, [open EXCEPT ![r] = None]}
  BY DEF Unmark, chain, At, Fault, IInv, TypeOK
<1>2. Settled(r) /\ InOrder(r) /\ Listed(r) /\ Truth(r)
  BY DEF IInv, Settled
<1>3. /\ Moved(r) /\ proc'[r].pc = "cache" /\ proc'[r].outcome = proc[r].outcome
      /\ proc'[r].failedOnChain = proc[r].failedOnChain
  BY GotoMoves, Named DEF Unmark, IInv, Closing
<1>4. /\ open' \in [Requests -> (SUBSET Envelopes) \cup {None}] /\ open'[r] \in {open[r], None}
      /\ \A q \in Requests \ {r} : open'[q] = open[q]
  BY <1>1 DEF IInv, TypeOK
<1>5. \A e \in {First(r), Second(r)} : ~CanLand(e)
  <2>1. proc[r].outcome \in {"settled", "failed"}
    BY <1>1, <1>2 DEF IInv, TypeOK, Locals, Outcomes, Truth
  <2>2. CASE proc[r].outcome = "settled"
    BY <1>1, <1>2, <2>2, LandedTakes DEF Truth, Closing, CanLand
  <2>3. CASE proc[r].outcome = "failed"
    BY <1>1, <1>2, <2>3 DEF Truth, Closing, Dead, CanLand
  <2>. QED BY <2>1, <2>2, <2>3
<1>6. TypeOK'
  BY <1>1, <1>3, <1>4 DEF IInv, TypeOK, Moved
<1>7. Guard'
  BY <1>1, <1>3, GuardKept DEF Before, Buying, Opening, Signing, Closing, Closed, Held
<1>8. \A q \in Requests : Settled(q)'
  <2>1. /\ Last(r)' = Last(r) /\ (Landed(r)' <=> Landed(r)) /\ (Dead(r)' <=> Dead(r))
        /\ (Unmarked(r)' <=> Unmarked(r))
    BY <1>1 DEF Last, Landed, Dead, Unmarked, First, Second
  <2>2. InOrder(r)'
    BY <1>1, <1>2, <1>3, <2>1 DEF InOrder, First, Second, Before, Buying, Opening, Closing, Closed
  <2>3. Listed(r)'
    <3>1. \A e \in {First(r), Second(r)} : ~CanLand(e)' /\ (Reached(e)' <=> Reached(e))
      BY <1>1, <1>5 DEF CanLand, Reached
    <3>. QED BY <1>2, <1>3, <1>4, <2>1, <3>1 DEF Listed, First, Second
  <2>4. Truth(r)'
    BY <1>1, <1>2, <1>3, <2>1 DEF Truth, Closing, Closed
  <2>. QED BY <1>1, <1>3, <1>4, <2>2, <2>3, <2>4, OthersKept DEF Settled
<1>9. Chain'
  BY <1>1 DEF IInv, Chain
<1>. QED BY <1>6, <1>7, <1>8, <1>9 DEF IInv

-----------------------------------------------------------------------------
(* The chain, the clock and the cron.                                      *)

LEMMA ApplyStep ==
    ASSUME IInv, NEW e \in Envelopes, Apply(e)
    PROVE  IInv'
<1>1. /\ UNCHANGED <<proc, reserved, cache, row, open, expired, over, spent, slips, faults>>
      /\ env[e] = "sent" /\ e[1] \notin over /\ nonceUsed' = TRUE
  BY DEF Apply, marks
<1>2. /\ env' \in [Envelopes -> Fates] /\ env'[e] \in {"applied", "rejected"}
      /\ \A f \in Envelopes \ {e} : env'[f] = env[f]
  BY DEF Apply, IInv, TypeOK, Fates
<1>3. TypeOK'
  BY <1>1, <1>2 DEF IInv, TypeOK
<1>4. Guard'
  BY <1>1, GuardStill
<1>5. ASSUME NEW q \in Requests PROVE Settled(q)'
  <2>1. Settled(q) /\ InOrder(q) /\ Listed(q) /\ Truth(q)
    BY DEF IInv, Settled
  <2>2. First(q) \in Envelopes /\ Second(q) \in Envelopes /\ First(q) # Second(q)
        /\ (e \in {First(q), Second(q)} => e[1] = q)
    BY EnvelopesAre DEF First, Second
  <2>3. CASE e \notin {First(q), Second(q)}
    <3>1. env'[First(q)] = env[First(q)] /\ env'[Second(q)] = env[Second(q)]
      BY <1>2, <2>2, <2>3
    <3>2. Unmarked(q) => Unmarked(q)'
      BY <1>1 DEF Unmarked
    <3>. QED BY <1>1, <2>1, <3>1, <3>2, SettledKept
  <2>4. CASE e \in {First(q), Second(q)}
    <3>1. Last(q)' = Last(q) /\ (Unmarked(q)' <=> Unmarked(q))
      BY <1>1, <1>2, <2>2, <2>4 DEF Last, Unmarked
    <3>2. ~Dead(q) /\ q \notin over
      BY <1>1, <2>2, <2>4 DEF Dead
    <3>3. InOrder(q)'
      <4>1. /\ env'[First(q)] = "unsigned" <=> env[First(q)] = "unsigned"
            /\ env'[Second(q)] = "unsigned" <=> env[Second(q)] = "unsigned"
        BY <1>1, <1>2, <2>2, <2>4
      <4>2. env[Last(q)] \in {"signed", "rejected"} => env'[Last(q)] = env[Last(q)]
        BY <1>1, <1>2, <2>2 DEF Last
      <4>. QED BY <1>1, <2>1, <3>1, <4>1, <4>2 DEF InOrder, First, Second
    <3>4. Listed(q)'
      <4>1. \A f \in {First(q), Second(q)} : (Reached(f)' => Reached(f)) /\ ~CanLand(f)'
        BY <1>1, <1>2, <2>2 DEF Reached, CanLand
      <4>. QED BY <1>1, <2>1, <3>1, <4>1 DEF Listed, First, Second
    <3>5. Truth(q)'
      <4>1. Landed(q) => Landed(q)'
        BY <1>1, <1>2, <2>2, EnvelopesAre DEF Landed, First, Second
      <4>. QED BY <1>1, <2>1, <3>1, <3>2, <4>1 DEF Truth
    <3>. QED BY <3>3, <3>4, <3>5 DEF Settled
  <2>. QED BY <2>3, <2>4
<1>6. Chain'
  BY <1>1 DEF Chain
<1>. QED BY <1>3, <1>4, <1>5, <1>6 DEF IInv

LEMMA PassBoundStep ==
    ASSUME IInv, NEW r \in Requests, PassBound(r)
    PROVE  IInv'
<1>1. /\ UNCHANGED <<proc, reserved, cache, row, open, env, nonceUsed, expired, spent, slips, faults>>
      /\ over' = over \cup {r} /\ proc[r].pc \in Closed
  BY DEF PassBound, marks, chain, Ended, Closed
<1>2. TypeOK'
  BY <1>1 DEF IInv, TypeOK
<1>3. Guard'
  BY <1>1, GuardStill
<1>4. ASSUME NEW q \in Requests PROVE Settled(q)'
  <2>1. Settled(q) /\ InOrder(q) /\ Listed(q) /\ Truth(q)
    BY DEF IInv, Settled
  <2>2. /\ Last(q)' = Last(q) /\ (Landed(q)' <=> Landed(q)) /\ (Dead(q)' <=> Dead(q))
        /\ (Unmarked(q)' <=> Unmarked(q))
    BY <1>1 DEF Last, Landed, Dead, Unmarked, First, Second
  <2>3. InOrder(q)'
    BY <1>1, <2>1, <2>2 DEF InOrder, First, Second
  <2>4. Listed(q)'
    BY <1>1, <2>1, <2>2 DEF Listed, Reached, CanLand, First, Second
  <2>5. Truth(q)'
    BY <1>1, <2>1, <2>2 DEF Truth
  <2>. QED BY <2>3, <2>4, <2>5 DEF Settled
<1>5. Chain'
  BY <1>1 DEF IInv, Chain
<1>. QED BY <1>2, <1>3, <1>4, <1>5 DEF IInv

\* The marker lapses after the authorization: whoever passes the guard then does
\* not get to the merchant.
LEMMA NonceLapseStep ==
    ASSUME IInv, NonceLapse
    PROVE  IInv'
<1>1. /\ UNCHANGED <<proc, cache, row, open, env, nonceUsed, over, spent, faults>>
      /\ expired' = TRUE /\ reserved' = FALSE
      /\ slips' = slips \cup {<<"lapsed", Nobody>>}
  BY DEF NonceLapse, marks, chain, Slip
<1>2. TypeOK'
  <2>1. <<"lapsed", Nobody>> \in Slips
    BY DEF Slips
  <2>. QED BY <1>1, <2>1 DEF IInv, TypeOK
<1>3. Guard'
  <2>1. /\ Slipped({"raced", "lapsed"})'
        /\ Slipped({"raced", "lost"})' <=> Slipped({"raced", "lost"})
        /\ Lost' <=> Lost
    <3>1. /\ slips \subseteq slips' /\ slips' \subseteq slips \cup {<<"lapsed", Nobody>>}
          /\ <<"lapsed", Nobody>> \in slips'
      BY <1>1
    <3>2. <<"lapsed", Nobody>>[1] = "lapsed"
      OBVIOUS
    <3>3. Slipped({"raced", "lapsed"})'
      BY <3>1, <3>2 DEF Slipped
    <3>4. \A S \in SUBSET {"raced", "lost"} : Slipped(S)' <=> Slipped(S)
      BY <3>1, <3>2 DEF Slipped
    <3>. QED BY <3>3, <3>4 DEF Lost
  <2>. QED BY <1>1, <2>1 DEF IInv, Guard, SoleHolder, SoleBuyer, Bought, Buyer
<1>4. ASSUME NEW q \in Requests PROVE Settled(q)'
  BY <1>1, SettledKept DEF IInv, Unmarked
<1>5. Chain'
  BY <1>1 DEF IInv, Chain
<1>. QED BY <1>2, <1>3, <1>4, <1>5 DEF IInv

\* The cron says settled of what it found, and failed only once every listed
\* envelope was read and the bound has passed.
LEMMA ResolveStep ==
    ASSUME IInv, NEW r \in Requests, NEW errs, NEW ok \in BOOLEAN, Resolve(r, errs, ok)
    PROVE  IInv'
<1>1. /\ UNCHANGED <<proc, reserved, cache, env, nonceUsed, expired, over, spent>>
      /\ proc[r].pc \in Closed /\ faults' \in Nat
      /\ open[r] # None /\ errs \subseteq open[r] /\ Resolved(r, errs) # "open"
      /\ RecordOrder(r, Resolved(r, errs), ok)
      /\ open' \in {open, [open EXCEPT ![r] = None]}
  BY DEF Resolve, chain, Ended, Closed, Fault, IInv, TypeOK
<1>2. Settled(r) /\ InOrder(r) /\ Listed(r) /\ Truth(r)
  BY DEF IInv, Settled
<1>3. /\ slips' \subseteq Slips /\ slips \subseteq slips'
      /\ slips' \subseteq slips \cup {<<"unread", r>>}
  <2>1. <<"unread", r>> \in Slips
    BY DEF Slips
  <2>2. slips' \in {slips, slips \cup {<<"unread", r>>}}
    BY DEF Resolve, Slip
  <2>. QED BY <2>1, <2>2 DEF IInv, TypeOK
<1>4. /\ open' \in [Requests -> (SUBSET Envelopes) \cup {None}] /\ open'[r] \in {open[r], None}
      /\ \A q \in Requests \ {r} : open'[q] = open[q]
  BY <1>1 DEF IInv, TypeOK
<1>5. open[r] \subseteq {First(r), Second(r)}
  BY <1>1, <1>2 DEF Listed
<1>6. /\ Resolved(r, errs) \in Outcomes
      /\ Resolved(r, errs) = "settled" => Landed(r)
      /\ Resolved(r, errs) = "failed" => r \in over /\ (Unmarked(r) \/ ~Landed(r))
      /\ \A e \in {First(r), Second(r)} : ~CanLand(e)
  <2>1. Found(r, errs) => Landed(r)
    BY <1>5, EnvelopesAre DEF Found
  <2>2. Found(r, errs) => \A e \in {First(r), Second(r)} : ~CanLand(e)
    BY <2>1, LandedTakes DEF CanLand
  <2>3. r \in over => \A e \in {First(r), Second(r)} : ~CanLand(e)
    BY DEF CanLand, First, Second
  <2>4. ~Found(r, errs) /\ errs = {} => Unmarked(r) \/ ~Landed(r)
    <3>1. ASSUME ~Found(r, errs), errs = {}, Landed(r) PROVE Unmarked(r)
      <4>1. PICK e \in {First(r), Second(r)} : env[e] = "applied"
        BY <3>1, EnvelopesAre
      <4>2. e \notin open[r]
        BY <3>1, <4>1 DEF Found
      <4>. QED BY <1>1, <1>2, <4>1, <4>2 DEF Listed, Reached
    <3>. QED BY <3>1
  <2>. QED BY <1>1, <2>1, <2>2, <2>3, <2>4 DEF Resolved, Outcomes
<1>7. /\ row' \in [Requests -> Rows] /\ row'[r] \in {row[r], Resolved(r, errs)}
      /\ \A q \in Requests \ {r} : row'[q] = row[q]
  <2>1. Resolved(r, errs) \in Rows
    BY <1>6 DEF Rows
  <2>. QED BY <1>1, <2>1, RecordIs DEF IInv
<1>8. TypeOK'
  BY <1>1, <1>3, <1>4, <1>7 DEF IInv, TypeOK
<1>9. Guard'
  BY <1>1, <1>3, GuardStill
<1>10. \A q \in Requests : Settled(q)'
  <2>1. /\ Last(r)' = Last(r) /\ (Landed(r)' <=> Landed(r)) /\ (Dead(r)' <=> Dead(r))
        /\ (Unmarked(r) => Unmarked(r)')
    BY <1>1, <1>3 DEF Last, Landed, Dead, Unmarked, First, Second
  <2>2. InOrder(r)'
    BY <1>1, <1>2, <2>1 DEF InOrder, First, Second
  <2>3. Listed(r)'
    <3>1. \A e \in {First(r), Second(r)} : ~CanLand(e)' /\ (Reached(e)' <=> Reached(e))
      BY <1>1, <1>6 DEF CanLand, Reached
    <3>2. proc'[r].pc # "send"
      BY <1>1 DEF Closed
    <3>. QED BY <1>2, <1>4, <2>1, <3>1, <3>2 DEF Listed, First, Second
  <2>4. Truth(r)'
    BY <1>1, <1>2, <1>6, <1>7, <2>1 DEF Truth, Closing, Closed
  <2>5. Moved(r)
    BY <1>1 DEF IInv, TypeOK, Moved
  <2>. QED BY <1>1, <1>3, <1>4, <1>7, <2>2, <2>3, <2>4, <2>5, OthersKept DEF Settled
<1>11. Chain'
  BY <1>1 DEF IInv, Chain
<1>. QED BY <1>8, <1>9, <1>10, <1>11 DEF IInv

-----------------------------------------------------------------------------
(* The invariant and what follows from it.                                 *)

LEMMA InitIInv ==
    ASSUME Init
    PROVE  IInv
<1>1. TypeOK
  BY Named DEF Init, TypeOK, Rows, Fates, None
<1>2. Guard
  <2>1. \A S : ~Slipped(S)
    BY DEF Init, Slipped
  <2>2. \A r \in Requests : ~Holder(r) /\ ~Buyer(r)
    BY X402Constants DEF Init, Holder, Buyer, Idle, Buying, Opening, Signing, Closing
  <2>3. Bought
    BY <2>1, X402Constants DEF Init, Bought, Idle
  <2>. QED BY <2>2, <2>3 DEF Guard, SoleHolder, SoleBuyer
<1>3. ASSUME NEW r \in Requests PROVE Settled(r)
  <2>1. /\ env[First(r)] = "unsigned" /\ env[Second(r)] = "unsigned"
        /\ proc[r] = Idle /\ open[r] = None /\ row[r] = "none" /\ over = {}
    BY EnvelopesAre DEF Init
  <2>2. InOrder(r)
    BY <2>1 DEF InOrder, Idle
  <2>3. Listed(r)
    BY <2>1 DEF Listed, Idle, CanLand
  <2>4. Truth(r)
    BY <2>1 DEF Truth, Idle, Closing
  <2>. QED BY <2>2, <2>3, <2>4 DEF Settled
<1>4. Chain
  BY DEF Init, Chain
<1>. QED BY <1>1, <1>2, <1>3, <1>4 DEF IInv

LEMMA NextIInv ==
    ASSUME IInv, [Next]_vars
    PROVE  IInv'
<1>1. CASE UNCHANGED vars
  <2>1. UNCHANGED <<proc, reserved, cache, row, open, env, nonceUsed, expired, over, spent, slips,
                    faults>>
    BY <1>1 DEF vars, marks, chain
  <2>2. TypeOK' /\ Chain'
    BY <2>1 DEF IInv, TypeOK, Chain
  <2>3. Guard'
    BY <2>1, GuardStill
  <2>4. ASSUME NEW q \in Requests PROVE Settled(q)'
    BY <2>1, SettledKept DEF IInv, Unmarked
  <2>. QED BY <2>2, <2>3, <2>4 DEF IInv
<1>2. ASSUME NEW r \in Requests, Step(r) PROVE IInv'
  BY <1>2, PrepareStep, ReserveReadStep, ReservePutStep, ReplayStep, VerifyStep, ReleaseStep,
     PayMerchantStep, RecordRowStep, MarkOpenStep, AttemptFailsStep, SignStep, OnSignedStep,
     SendStep, PollStep, ResultStep, DeadlineStep, FinalRowStep, UnmarkStep, RemarkStep,
     CacheResultStep, DieStep, PassBoundStep DEF Step
<1>3. ASSUME NEW r \in Requests, NEW errs \in SUBSET Hashes(r), NEW ok \in BOOLEAN,
             Resolve(r, errs, ok)
      PROVE  IInv'
  BY <1>3, ResolveStep
<1>4. ASSUME NEW e \in Envelopes, Apply(e) PROVE IInv'
  BY <1>4, ApplyStep
<1>. QED BY <1>1, <1>2, <1>3, <1>4, NonceLapseStep DEF Next

\* The inductive invariant holds.
THEOREM Invariant == Spec => []IInv
<1>1. Init => IInv
  BY InitIInv
<1>2. IInv /\ [Next]_vars => IInv'
  BY NextIInv
<1>. QED BY <1>1, <1>2, PTL DEF Spec

\* Requests, rows, markers and envelopes keep their types.
THEOREM TypeCorrect == Spec => []TypeOK
<1>1. IInv => TypeOK
  BY DEF IInv
<1>. QED BY <1>1, Invariant, PTL

\* However many requests carry one payload, it buys one call unless two of them
\* found no marker or a failed call had cost the router its payment, and a result
\* it bought stays within reach while the marker has not lapsed.
THEOREM PayloadOnceHolds == Spec => []PayloadOnce
<1>1. IInv => PayloadOnce
  <2>. SUFFICES ASSUME IInv PROVE PayloadOnce
    OBVIOUS
  <2>1. OneCallPerPayload
    <3>. SUFFICES ASSUME ~Slipped({"raced", "lost"}) PROVE ~(Cardinality(spent) > 1)
      BY DEF OneCallPerPayload
    <3>1. \A r, q \in spent : r = q
      BY DEF IInv, TypeOK, Guard, SoleBuyer, Buyer
    <3>2. CASE spent = {}
      BY <3>2, FS_EmptySet
    <3>3. CASE spent # {}
      <4>1. PICK r \in spent : spent = {r}
        BY <3>1, <3>3
      <4>2. Cardinality(spent) = 1
        BY <4>1, FS_Singleton
      <4>. QED BY <4>2
    <3>. QED BY <3>2, <3>3
  <2>2. StoredIsReachable
    <3>. SUFFICES ASSUME NEW c \in Calls, Stored(c), ~Slipped({"raced", "lapsed"}) PROVE reserved
      BY DEF StoredIsReachable
    <3>1. cache[c] \in Requests
      BY DEF IInv, TypeOK, Stored
    <3>2. Holder(cache[c])
      BY <3>1 DEF Holder
    <3>. QED BY <3>1, <3>2 DEF IInv, Guard, SoleHolder
  <2>. QED BY <2>1, <2>2 DEF PayloadOnce
<1>. QED BY <1>1, Invariant, PTL

\* The ledger says settled only of what landed and failed only of what did not
\* and cannot; what may still land is in the open marker.
THEOREM SettlementToldHolds == Spec => []SettlementTold
<1>1. IInv => SettlementTold
  <2>. SUFFICES ASSUME IInv PROVE SettlementTold
    OBVIOUS
  <2>1. LedgerTruth
    <3>. SUFFICES ASSUME NEW r \in Requests
                  PROVE  /\ row[r] = "settled" => Landed(r)
                         /\ row[r] = "failed" => \/ ~Landed(r) /\ \A e \in {r} \X {1, 2} : ~CanLand(e)
                                                 \/ <<"unmarked", r>> \in slips
      BY DEF LedgerTruth
    <3>1. Truth(r)
      BY DEF IInv, Settled
    <3>2. {r} \X {1, 2} = {First(r), Second(r)}
      BY DEF First, Second
    <3>3. r \in over => \A e \in {r} \X {1, 2} : ~CanLand(e)
      BY DEF CanLand
    <3>4. Dead(r) => \A e \in {First(r), Second(r)} : ~CanLand(e)
      BY DEF Dead, CanLand
    <3>. QED BY <3>1, <3>2, <3>3, <3>4 DEF Truth, Unmarked
  <2>2. Findable
    <3>. SUFFICES ASSUME NEW e \in Envelopes, CanLand(e)
                  PROVE  e \in open[e[1]] \/ <<"unmarked", e[1]>> \in slips
      BY DEF Findable
    <3>1. e[1] \in Requests
      BY DEF Envelopes
    <3>2. e \in {First(e[1]), Second(e[1])}
      BY <3>1, EnvelopesAre
    <3>. QED BY <3>1, <3>2 DEF IInv, Settled, Listed, Unmarked
  <2>. QED BY <2>1, <2>2 DEF SettlementTold
<1>. QED BY <1>1, Invariant, PTL

=============================================================================
