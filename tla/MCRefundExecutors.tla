------------------------- MODULE MCRefundExecutors --------------------------
(***************************************************************************)
(* Instance of RefundPipeline for TLC, twice: the Durable Object signer    *)
(* alone, with operators who unpark and failing proxies, and the signer    *)
(* beside the executor script, with interleaved store accesses.  A         *)
(* behaviour is about one of the two.                                      *)
(***************************************************************************)
EXTENDS RefundInvariant, TLC

VARIABLE side       \* the component this behaviour is about
VARIABLES scriptNow, scriptAcctSeq, scriptSent, scriptChain, scriptRec,
          scriptOrder, scriptProxy, scriptUnparks, scriptReservation,
          scriptPc, scriptJobs, scriptJob, scriptLease, scriptEnv,
          scriptLastAccepted
scriptVars == <<scriptNow, scriptAcctSeq, scriptSent, scriptChain, scriptRec, scriptOrder,
                scriptProxy, scriptUnparks, scriptReservation, scriptPc,
                scriptJobs, scriptJob, scriptLease, scriptEnv,
                scriptLastAccepted>>

Script == INSTANCE RefundPipeline WITH
            Retention <- 3, FirstTime <- 2, MaxTime <- 6, MaxSeq <- 2,
            Executors <- {"script"}, MaxUnparks <- 0,
            FatalOnlyWhenAbsent <- FALSE, PromptStore <- TRUE,
            ProxyFaults <- FALSE, now <- scriptNow, acctSeq <- scriptAcctSeq,
            sent <- scriptSent, chain <- scriptChain, rec <- scriptRec,
            order <- scriptOrder, proxy <- scriptProxy,
            unparks <- scriptUnparks, reservation <- scriptReservation,
            pc <- scriptPc, jobs <- scriptJobs, job <- scriptJob,
            lease <- scriptLease, env <- scriptEnv,
            lastAccepted <- scriptLastAccepted

\* The components a behaviour is not about are switched off.
scriptOff == /\ scriptNow = 0 /\ scriptAcctSeq = 0 /\ scriptSent = 0
             /\ scriptChain = 0 /\ scriptRec = 0 /\ scriptOrder = 0
             /\ scriptProxy = 0 /\ scriptUnparks = 0 /\ scriptReservation = 0
             /\ scriptPc = 0 /\ scriptJobs = 0 /\ scriptJob = 0
             /\ scriptLease = 0 /\ scriptEnv = 0 /\ scriptLastAccepted = 0

SideInit == /\ side \in {"signer", "script"}
            /\ Init
            /\ IF side = "script" THEN Script!Init ELSE scriptOff

SideNext == \/ side = "signer" /\ Next /\ UNCHANGED <<side, scriptVars>>
            \/ side = "script" /\ Script!Next /\ UNCHANGED <<side, vars>>

all == <<side, vars, scriptVars>>

SideSpec == SideInit /\ [][SideNext]_all

\* The signer alone; and the signer under the cron's fairness.
SignerInit == side = "signer" /\ Init /\ scriptOff
SignerSpec == SignerInit /\ [][SideNext]_all
SignerFairSpec == SignerSpec /\ Fairness

\* Lease ids are interchangeable.
Symmetry == Permutations(LeaseIds)

-----------------------------------------------------------------------------
\* The same promises while the executor script runs beside the signer and both
\* lease, store and send (scripts/admin/refund-executor.ts): one refund per
\* payment, confirmed only if paid, every live envelope on its record.
ScriptSafe == side = "script" => (Script!NoDoubleRefund /\ Script!ReportedOnlyIfPaid /\ Script!LiveEnvelopeOnRecord)
=============================================================================
