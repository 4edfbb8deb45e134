----------------------------- MODULE MCVouchers -----------------------------
(***************************************************************************)
(* Instance for TLC of the channels the proxy is paid and pays with: a     *)
(* buyer's Stellar payment channel (ChannelDelivery), the session channels *)
(* of Tempo merchants (TempoSession) and the playground's payment channels *)
(* (PlaygroundChannel).  A behaviour is about one of the three.            *)
(***************************************************************************)
EXTENDS ChannelInvariant, FiniteSets, TLC

CONSTANTS Cron, Nobody,             \* the settlement pass, and an empty slot or lock
          PlayDeposit, Threshold,   \* units in a playground channel, and collected at once
          MaxCalls,                 \* bound: calls on a playground channel
          OldDeposit, NewDeposit,   \* quotes in a merchant's old and new channel
          TopUp, Low                \* quotes added to the old one; headroom to report

\* The cron is not a call.
ASSUME PlayConstants == /\ IsFiniteSet(Requests)
                        /\ Cron \notin Requests /\ Nobody \notin Requests \cup {Cron}
                        /\ PlayDeposit \in Nat /\ Threshold \in Nat /\ MaxCalls \in Nat

\* No channel is the mark of an empty slot.
ASSUME SessionConstants == /\ Nobody \notin {"old", "new"}
                           /\ OldDeposit \in Nat /\ NewDeposit \in Nat /\ TopUp \in Nat

VARIABLE side       \* the component this behaviour is about
VARIABLES tempoCall, tempoSlot, tempoDeposit, tempoSettled, tempoAccepted,
          tempoSigned, tempoKey, tempoClosed, tempoOp, tempoWatch,
          tempoHealth, tempoTold, tempoSlips, tempoFaults
tempoVars == <<tempoCall, tempoSlot, tempoDeposit, tempoSettled, tempoAccepted,
               tempoSigned, tempoKey, tempoClosed, tempoOp, tempoWatch,
               tempoHealth, tempoTold, tempoSlips, tempoFaults>>
VARIABLES playReg, playLock, playMark, playStored, playBlocked, playChain,
          playProc, playCron, playTold, playPaid, playCharged,
          playWrittenOff, playSlips, playLeft
playVars == <<playReg, playLock, playMark, playStored, playBlocked, playChain, playProc,
              playCron, playTold, playPaid, playCharged, playWrittenOff,
              playSlips, playLeft>>

Deposits == [i \in {"old", "new"} |-> IF i = "old" THEN OldDeposit ELSE NewDeposit]

Tempo == INSTANCE TempoSession WITH
            Calls <- Requests, Deposit <- Deposits, TopUp <- TopUp, Low <- Low,
            MaxFaults <- MaxFaults, Nobody <- Nobody, call <- tempoCall,
            slot <- tempoSlot, deposit <- tempoDeposit,
            settled <- tempoSettled, accepted <- tempoAccepted,
            signed <- tempoSigned, key <- tempoKey, closed <- tempoClosed,
            op <- tempoOp, watch <- tempoWatch, health <- tempoHealth,
            told <- tempoTold, slips <- tempoSlips, faults <- tempoFaults

Play == INSTANCE PlaygroundChannel WITH
            Calls <- Requests, Cron <- Cron, Nobody <- Nobody,
            Deposit <- PlayDeposit, Threshold <- Threshold,
            MaxCalls <- MaxCalls, reg <- playReg,
            lock <- playLock, mark <- playMark, stored <- playStored,
            blocked <- playBlocked, chain <- playChain, proc <- playProc,
            cron <- playCron, told <- playTold, paid <- playPaid,
            charged <- playCharged, writtenOff <- playWrittenOff,
            slips <- playSlips, left <- playLeft

\* The components a behaviour is not about are switched off.
tempoOff == /\ tempoCall = 0 /\ tempoSlot = 0 /\ tempoDeposit = 0
            /\ tempoSettled = 0 /\ tempoAccepted = 0 /\ tempoSigned = 0
            /\ tempoKey = 0 /\ tempoClosed = 0 /\ tempoOp = 0 /\ tempoWatch = 0
            /\ tempoHealth = 0 /\ tempoTold = 0 /\ tempoSlips = 0
            /\ tempoFaults = 0
playOff == /\ playReg = 0 /\ playLock = 0 /\ playMark = 0 /\ playStored = 0
           /\ playBlocked = 0 /\ playChain = 0 /\ playProc = 0 /\ playCron = 0
           /\ playTold = 0 /\ playPaid = 0 /\ playCharged = 0
           /\ playWrittenOff = 0 /\ playSlips = 0 /\ playLeft = 0

SideInit == /\ side \in {"channel", "tempo", "play"}
            /\ Init
            /\ IF side = "tempo" THEN Tempo!Init ELSE tempoOff
            /\ IF side = "play" THEN Play!Init ELSE playOff

SideNext == \/ side = "channel" /\ Next /\ UNCHANGED <<side, tempoVars, playVars>>
            \/ side = "tempo" /\ Tempo!Next /\ UNCHANGED <<side, vars, playVars>>
            \/ side = "play" /\ Play!Next /\ UNCHANGED <<side, vars, tempoVars>>

all == <<side, vars, tempoVars, playVars>>

SideSpec == SideInit /\ [][SideNext]_all

\* Requests, challenges and finishers are interchangeable.
Symmetry == UNION {Permutations(S) : S \in {Requests, Challenges, Finishers}}

-----------------------------------------------------------------------------
\* A Tempo merchant is owed at most a quote per call, the watermark is not below
\* what it holds, and a passed pre-flight means a voucher it can redeem, but for
\* the named races of a bump (tempo-client.ts, channel-store.ts).
SessionPays == side = "tempo" => (Tempo!PaidPerCall /\ Tempo!WatermarkCovers /\ Tempo!PreflightHolds)

\* The new channel outlives the calls that used the old one, and the state the
\* watch remembers is one it reported (tempo-channel-watch.ts).
SessionMoves == side = "tempo" => (Tempo!NewChannelStays /\ Tempo!RememberedWasTold)

\* What a playground caller was told it paid can be redeemed, and a close takes
\* all of it (playground-channel.ts, channel-settle.ts).
ChannelPays == side = "play" => (Play!ReportedIsRedeemable /\ Play!CloseTakesAll)

\* While a channel is not fenced all that was paid upstream is held against its
\* deposit, and a write-off is a loss, never money that was in fact collected
\* (playground-channel.ts, channel-settle.ts).
ChannelLoss == side = "play" => (Play!LossIsBounded /\ Play!WriteOffIsLoss)

\* A delivery stays paid for ("Roll back a voucher only when it is still the
\* latest accepted cumulative", stellar-channel-dispatch.ts).
DeliveredStays == \A r \in Requests : Kept(r) => voucher[r].amount <= watermark.amount
=============================================================================
