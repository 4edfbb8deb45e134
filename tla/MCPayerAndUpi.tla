------------------------ MODULE MCPayerAndUpi ------------------------
(***************************************************************************)
(* Instance for TLC of the prepaid x402 payer (X402Payer), and beside it   *)
(* of UPI requests (UpiFulfillment).  A behaviour is about one of the two. *)
(***************************************************************************)
EXTENDS X402Payer, TLC

CONSTANTS onBase, onSolana,     \* a requirement on either network
          V1, V2, Prints,       \* UPI orders of either protocol, and fingerprints
          MaxChanges, MaxPolls  \* bounds of the UPI side

VARIABLE side       \* the component this behaviour is about
VARIABLES upiRec, upiClaim, upiSettled, upiPrint, upiProc, upiSpent,
          upiFirst, upiCalled, upiPresumed, upiLeft
upiVars == <<upiRec, upiClaim, upiSettled, upiPrint, upiProc, upiSpent, upiFirst,
             upiCalled, upiPresumed, upiLeft>>

\* An order belongs to one protocol, and nothing else goes by its name.
ASSUME UpiConstants ==
    /\ V1 \cap V2 = {}
    /\ (V1 \cup V2) \cap {"nothing", "other", "outside", "dead", "unreachable"} = {}
    /\ "nothing" \notin Prints
    /\ MaxChanges \in Nat /\ MaxPolls \in Nat /\ MaxFaults \in Nat

Networks == [h \in Hashes |-> IF h = onBase THEN "evm" ELSE "svm"]

Upi == INSTANCE UpiFulfillment WITH
            Procs <- Requests, rec <- upiRec,
            claim <- upiClaim, settled <- upiSettled, print <- upiPrint,
            proc <- upiProc, spent <- upiSpent, first <- upiFirst,
            called <- upiCalled, presumed <- upiPresumed, left <- upiLeft

\* In a behaviour about the payer the UPI orders are switched off; in one about
\* those the payer takes no step.
upiOff == /\ upiRec = 0 /\ upiClaim = 0 /\ upiSettled = 0 /\ upiPrint = 0
          /\ upiProc = 0 /\ upiSpent = 0 /\ upiFirst = 0 /\ upiCalled = 0
          /\ upiPresumed = 0 /\ upiLeft = 0

SideInit == /\ side \in {"agent", "upi"} /\ Init
            /\ IF side = "upi" THEN Upi!Init ELSE upiOff

SideNext == \/ side = "agent" /\ Next /\ UNCHANGED <<side, upiVars>>
            \/ side = "upi" /\ Upi!Next /\ UNCHANGED <<side, vars>>

all == <<side, vars, upiVars>>

SideSpec == SideInit /\ [][SideNext]_all

\* Requests for a signature are interchangeable, and so are fingerprints;
\* requests lend their names to those of the UPI side.
Symmetry == Permutations(Requests) \cup Permutations(Prints)

-----------------------------------------------------------------------------
\* Money leaves for a UPI invoice at most once, whichever orders and channels
\* want it paid (upi-invoice.ts).
UpiPaidOnce == side = "upi" => Upi!PaidOnce

\* A UPI order reported failed paid nothing, and what was called is what had
\* been frozen when the order was claimed.
UpiReports == side = "upi" => (Upi!ReportIsTrue /\ Upi!CallsWhatWasFrozen)

=============================================================================
