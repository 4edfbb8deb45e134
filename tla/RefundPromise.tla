--------------------------- MODULE RefundPromise ---------------------------
(***************************************************************************)
(* What the refund machinery promises a payer (docs/spec/                  *)
(* receipts-and-refunds.md): money comes back only for a payment that is   *)
(* owed a refund, at most once, and the refund is reported as confirmed    *)
(* only after it was paid; a report is never withdrawn.                    *)
(***************************************************************************)
CONSTANT Payments

VARIABLES owed,      \* payments a refund was queued for
          paid,      \* transactions that returned money; .payment names what for
          reported   \* payments whose refund is reported as confirmed

vars == <<owed, paid, reported>>

Init == owed = {} /\ paid = {} /\ reported = {}

Owe(p) == owed' = owed \cup {p} /\ UNCHANGED <<paid, reported>>

Pay(tx) == /\ tx.payment \in owed
           /\ \A other \in paid : other.payment # tx.payment
           /\ paid' = paid \cup {tx}
           /\ UNCHANGED <<owed, reported>>

Report(p) == /\ \E tx \in paid : tx.payment = p
             /\ reported' = reported \cup {p}
             /\ UNCHANGED <<owed, paid>>

Next == \/ \E p \in Payments : Owe(p) \/ Report(p)
        \/ \E tx \in paid' : Pay(tx)

Spec == Init /\ [][Next]_vars
=============================================================================
