----------------------- MODULE MCInvoiceSettlement -----------------------
(***************************************************************************)
(* Instance for TLC of the settlement of Coinbase payment links            *)
(* (CoinbaseSettlement), and beside it of Stripe invoices                  *)
(* (StripeFulfillment).  A behaviour is about one of the two.              *)
(***************************************************************************)
EXTENDS CoinbaseSettlement, TLC

CONSTANTS StripeInvoices, StripeSiblings,   \* sessions of one amount: settled here, and elsewhere
          StripeHandlers,                         \* concurrent handlers of Stripe invoices
          DailyCap, MaxAutoRetries,         \* limits of the code
          GoneEscalate,
          MaxAdminRetries, MaxThrows        \* bounds: retries by hand, throws and deaths

\* Sessions are finitely many, each is settled in one place, "none" is no session.
ASSUME StripeConstants ==
    /\ IsFiniteSet(StripeInvoices) /\ StripeInvoices # {} /\ IsFiniteSet(StripeHandlers)
    /\ StripeInvoices \cap StripeSiblings = {}
    /\ "none" \notin StripeInvoices \cup StripeSiblings
    /\ GoneEscalate \in Nat

VARIABLE side       \* the component this behaviour is about
VARIABLES stripeRec, stripeSpent, stripeChannel, stripeProc, stripeReq,
          stripeSess, stripePermits, stripePulled, stripeTold, stripeFaults,
          stripeRushed, stripeSlips, stripeMisread
stripeVars == <<stripeRec, stripeSpent, stripeChannel, stripeProc, stripeReq, stripeSess,
                stripePermits, stripePulled, stripeTold, stripeFaults,
                stripeRushed, stripeSlips, stripeMisread>>

Stripe == INSTANCE StripeFulfillment WITH
            Invoices <- StripeInvoices, Siblings <- StripeSiblings,
            Procs <- StripeHandlers, MaxFaults <- MaxThrows, rec <- stripeRec,
            spent <- stripeSpent, channel <- stripeChannel,
            proc <- stripeProc, req <- stripeReq, sess <- stripeSess,
            permits <- stripePermits, pulled <- stripePulled,
            told <- stripeTold, faults <- stripeFaults,
            rushed <- stripeRushed, slips <- stripeSlips,
            misread <- stripeMisread

\* In a behaviour about Coinbase the Stripe session is switched off; in one about
\* that, Coinbase's orders take no step.
stripeOff == /\ stripeRec = 0 /\ stripeSpent = 0 /\ stripeChannel = 0
             /\ stripeProc = 0 /\ stripeReq = 0 /\ stripeSess = 0
             /\ stripePermits = 0 /\ stripePulled = 0 /\ stripeTold = 0
             /\ stripeFaults = 0 /\ stripeRushed = 0 /\ stripeSlips = 0
             /\ stripeMisread = 0

SideInit == /\ side \in {"coinbase", "stripe"} /\ Init
            /\ IF side = "stripe" THEN Stripe!Init ELSE stripeOff

SideNext == \/ side = "coinbase" /\ Next /\ UNCHANGED <<side, stripeVars>>
            \/ side = "stripe" /\ Stripe!Next /\ UNCHANGED <<side, vars>>

all == <<side, vars, stripeVars>>

SideSpec == SideInit /\ [][SideNext]_all

\* Orders are interchangeable, and so are handlers.
Symmetry == Permutations(Orders) \cup Permutations(Procs) \cup Permutations(StripeHandlers)

-----------------------------------------------------------------------------
\* A Stripe session gets one Permit (stripe-fulfillment.ts, pay-invoice).
StripePermit == side = "stripe" => Stripe!OnePermit

\* A Stripe record is closed as paid only if Stripe pulled its amount, and the
\* day's spend counts every Permit that can still be pulled (stripe-fulfillment.ts).
StripeBooks == side = "stripe" => (Stripe!PaidWasPulled /\ Stripe!SpendCounted)
=============================================================================
