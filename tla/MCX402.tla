------------------------------- MODULE MCX402 -------------------------------
(***************************************************************************)
(* Instance for TLC, with fairness: x402 settlement and its resolver, and  *)
(* beside it the reaper of the playground ledger.  A behaviour is about    *)
(* one of the two.                                                         *)
(***************************************************************************)
EXTENDS X402Settlement, TLC

CONSTANTS c1, c2

VARIABLE side       \* the component this behaviour is about
VARIABLES playIntent, playConsumed, playOpenCount, playMinted, playDeposited,
          playBalance, playCredited, playCommitted, playOutstanding,
          playCall, playAlarm, playNow, playPaid, playClaim, playTokens,
          playCaller, playUpstream
playVars == <<playIntent, playConsumed, playOpenCount, playMinted, playDeposited,
              playBalance, playCredited, playCommitted, playOutstanding,
              playCall, playAlarm, playNow, playPaid, playClaim, playTokens,
              playCaller, playUpstream>>

\* What the two calls cost.
Quotes == [c \in Calls |-> IF c = c1 THEN 10 ELSE 20]

Pg == INSTANCE Playground WITH
            Accounts <- {"a1"}, Intents <- {"i1"}, CallIds <- {"c1", "c2"},
            Payments <- {"p1"}, Sessions <- {"s1"}, None <- "none",
            DayCap <- 2, GlobalCap <- 3, RatePerHour <- 2, MaxOpen <- 2,
            IntentTTL <- 1, Lease <- 2, SessionTTL <- 1, RenewalCap <- 2,
            HourLength <- 1, DayLength <- 2, MaxTime <- 3,
            Callers <- {"q1", "q2"}, Amounts <- {2}, Prices <- {1},
            HealthyCalls <- FALSE, intent <- playIntent,
            consumed <- playConsumed, openCount <- playOpenCount,
            minted <- playMinted, deposited <- playDeposited,
            balance <- playBalance, credited <- playCredited,
            committed <- playCommitted, outstanding <- playOutstanding,
            call <- playCall, alarm <- playAlarm, now <- playNow,
            paid <- playPaid, claim <- playClaim, tokens <- playTokens,
            caller <- playCaller, upstream <- playUpstream

SideInit == /\ side \in {"x402", "play"}
            /\ Init
            /\ Pg!Init
            /\ side # "play" => playCaller = [q \in {"q1", "q2"} |-> [pc |-> "idle", call |-> "c1", start |-> 0]]

SideNext == \/ side = "x402" /\ Next /\ UNCHANGED <<side, playVars>>
            \/ side = "play" /\ Pg!Next /\ UNCHANGED <<side, vars>>

all == <<side, vars, playVars>>

\* The fairness of the two specifications.
SideSpec == /\ SideInit /\ [][SideNext]_all
            /\ \A r \in Requests : /\ WF_vars(side = "x402" /\ Step(r))
                                   /\ WF_vars(side = "x402" /\ Resolve(r, {}, TRUE))
            /\ WF_playVars(side = "play" /\ Pg!AlarmStep)
            /\ WF_playVars(side = "play" /\ Pg!Tick)

-----------------------------------------------------------------------------
\* No hold of the playground ledger is kept for ever while its alarm is set
\* (playground-ledger-do.ts).  The two calls are interchangeable: one speaks for both.
HoldsEnd == (playCall["c1"].status = "reserved" /\ playAlarm) ~> playCall["c1"].status # "reserved"
=============================================================================
