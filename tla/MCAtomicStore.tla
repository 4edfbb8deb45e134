--------------------------- MODULE MCAtomicStore ---------------------------
(***************************************************************************)
(* A channel's cumulative watermark (amounts 1 and 2) and a challenge key, *)
(* with the functions the Worker really uses on them: claim a challenge,   *)
(* raise the watermark (never lower it), roll a failed voucher back (which *)
(* deletes the watermark of a channel that had none).                      *)
(***************************************************************************)
EXTENDS AtomicStore, TLC

Set(v, r)    == [op |-> "set", value |-> v, result |-> r]
Delete(r)    == [op |-> "delete", value |-> NoValue, result |-> r]
Noop(r)      == [op |-> "noop", value |-> NoValue, result |-> r]
MCValues     == 1 .. 2
MCResults    == {"done", "refused"}
Current      == MCValues \cup {NoValue}

\* Replay protection: the first call claims, every other sees the claim.
Claim        == [v \in Current |-> IF v = NoValue THEN Set(1, "done") ELSE Noop("refused")]
\* Accept a voucher of cumulative amount 2.
Raise        == [v \in Current |-> IF v \in {NoValue, 1} THEN Set(2, "done") ELSE Noop("refused")]
\* rollbackFailedChannelVoucher of the first voucher, of amount 1.
Rollback     == [v \in Current |-> IF v = 1 THEN Delete("done") ELSE Noop("refused")]

MCFns        == {Claim, Raise, Rollback}
Symmetry     == Permutations(Calls)
=============================================================================
