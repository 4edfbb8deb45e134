---------------------------- MODULE ChannelStore ----------------------------
(***************************************************************************)
(* The records of one inbound Stellar payment channel in the atomic store  *)
(* (mpp/stellar-channel-dispatch.ts): the delivery lock, the highest       *)
(* accepted voucher, and the challenges that were used.                    *)
(*                                                                         *)
(* A voucher is cumulative: it is worth its whole amount, so the latest    *)
(* accepted amount (the watermark) is what the payer owes.  No watermark   *)
(* record and amount 0 are the same to the code.  Of the lock's expiry     *)
(* only whether it has passed matters.                                     *)
(***************************************************************************)
EXTENDS Naturals

CONSTANTS Requests,      \* paid requests; each draws a fresh lock id, itself
          Challenges,    \* challenge ids
          Amounts,       \* amounts a payer may sign for
          NoOne

ASSUME ChannelStoreConstants == /\ NoOne \notin Requests
                                /\ Amounts \subseteq Nat \ {0}

VARIABLES lock,       \* refund:channel-lock:<contract>
          watermark,  \* stellar:channel:cumulative:<contract>
          used        \* stellar:channel:challenge:<id>

store == <<lock, watermark, used>>

NoLock == [id |-> NoOne, live |-> FALSE]

StoreTypeOK == /\ lock \in [id : Requests \cup {NoOne}, live : BOOLEAN]
               /\ watermark \in [amount : Nat, settling : BOOLEAN]
               /\ used \subseteq Challenges

StoreInit == /\ lock = NoLock
             /\ watermark = [amount |-> 0, settling |-> FALSE]
             /\ used = {}

-----------------------------------------------------------------------------
(* The delivery lock.                                                      *)

\* Faulty: a lock is taken over while it is live.
TakenRegardless(id) == lock' = [id |-> id, live |-> TRUE]

\* acquireChannelDeliveryLock: takes a free lock, or one that has expired.
AcquireLock(id) == /\ ~lock.live
                   /\ lock' = [id |-> id, live |-> TRUE]

\* releaseChannelDeliveryLock: deletes the lock only if it is the caller's own.
ReleaseLock(id) == lock' = IF lock.id = id THEN NoLock ELSE lock

ExpireLock == /\ lock.live
              /\ lock' = [lock EXCEPT !.live = FALSE]

-----------------------------------------------------------------------------
(* Vouchers.                                                               *)

\* A voucher is good if its challenge is new and it pays for the call on top of
\* what was accepted before; a channel that is being closed accepts nothing.
Acceptable(challenge, amount) == /\ challenge \notin used
                                 /\ amount > watermark.amount
                                 /\ ~watermark.settling

\* mppx accepts the voucher; a closing voucher stops the channel for good.
AcceptVoucher(challenge, amount, closes) ==
    /\ Acceptable(challenge, amount)
    /\ watermark' = [amount |-> amount, settling |-> closes]
    /\ used' = used \cup {challenge}

\* The first access of rollbackFailedChannelVoucher: restore the amount found
\* before the voucher, if the voucher's own amount is still the latest.
Latest(amount) == watermark.amount = amount /\ ~watermark.settling
RestoreWatermark(amount, previous) ==
    /\ Latest(amount)
    /\ watermark' = [amount |-> previous, settling |-> FALSE]
=============================================================================
