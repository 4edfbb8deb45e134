------------------------ MODULE MCChargesAndCoupons ------------------------
(***************************************************************************)
(* Instance for TLC of the proxy's charges (ChargeDelivery), and beside it *)
(* of prepaid coupons (PartnerCoupons).  A behaviour is about one of the   *)
(* two.                                                                    *)
(***************************************************************************)
EXTENDS ChargeDelivery, TLC

CONSTANTS MaxCodes, MaxOps,      \* bounds: coupon codes and operation ids
          TopUp,                 \* units the operator credits a partner
          MaxAsks, MaxAdmin      \* bounds: void and redeem requests, resolutions

ASSUME CouponConstants == /\ IsFiniteSet(Requests) /\ Requests # {}
                          /\ MaxCodes \in Nat /\ MaxOps \in Nat /\ TopUp \in Nat
                          /\ MaxAsks \in Nat /\ MaxAdmin \in Nat /\ MaxFaults \in Nat

VARIABLE side       \* the component this behaviour is about
VARIABLES couponsPartner, couponsCoupon, couponsIdem, couponsProc,
          couponsUsed, couponsDebited, couponsCredits, couponsPaid,
          couponsFreed, couponsLoose, couponsDropped, couponsLeft
couponsVars == <<couponsPartner, couponsCoupon, couponsIdem, couponsProc, couponsUsed,
                 couponsDebited, couponsCredits, couponsPaid, couponsFreed,
                 couponsLoose, couponsDropped, couponsLeft>>

Coupons == INSTANCE PartnerCoupons WITH
            Procs <- Requests, MaxCodes <- MaxCodes, MaxOps <- MaxOps, TopUp <- TopUp,
            MaxAsks <- MaxAsks, MaxAdmin <- MaxAdmin, MaxFaults <- MaxFaults,
            partner <- couponsPartner,
            coupon <- couponsCoupon, idem <- couponsIdem,
            proc <- couponsProc, used <- couponsUsed,
            debited <- couponsDebited, credits <- couponsCredits,
            paid <- couponsPaid, freed <- couponsFreed,
            loose <- couponsLoose, dropped <- couponsDropped,
            left <- couponsLeft

\* In a behaviour about charges the coupons are switched off.
couponsOff == /\ couponsPartner = 0 /\ couponsCoupon = 0 /\ couponsIdem = 0
              /\ couponsProc = 0 /\ couponsUsed = 0 /\ couponsDebited = 0
              /\ couponsCredits = 0 /\ couponsPaid = 0 /\ couponsFreed = 0
              /\ couponsLoose = 0 /\ couponsDropped = 0 /\ couponsLeft = 0

\* In one about coupons no request is charged.
SideInit == /\ side \in {"charge", "coupons"} /\ Init
            /\ side = "coupons" => route = "relay"
            /\ IF side = "coupons" THEN Coupons!Init ELSE couponsOff

SideNext == \/ side = "charge" /\ Next /\ UNCHANGED <<side, couponsVars>>
            \/ side = "coupons" /\ Coupons!Next /\ UNCHANGED <<side, vars>>

all == <<side, vars, couponsVars>>

SideSpec == SideInit /\ [][SideNext]_all

\* Retries of a call are interchangeable, and lend their names to the requests
\* about coupons.
Symmetry == Permutations(Requests)

-----------------------------------------------------------------------------
\* No coupon is spendable that its partner was not debited for, and no debit is
\* kept for a coupon that can never be spent (partner-store.ts).
CouponsBacked == side = "coupons" => (Coupons!NoFreeCoupon /\ Coupons!NothingStranded)

\* An operation is charged once however often it is retried, and a coupon buys
\* one payment (partner-store.ts, coupon.ts).
CouponsOnce == side = "coupons" => (Coupons!ChargedOnce /\ Coupons!OnePayment)
=============================================================================
