--------------------------- MODULE ChannelProofs ---------------------------
(***************************************************************************)
(* Proofs about ChannelDelivery, for any number of requests, challenges,   *)
(* amounts, finishers and faults.  The invariant is IInv of                *)
(* ChannelInvariant: TypeOK and Busy hold whatever happens; as long as the *)
(* behaviour is regular, Sound holds as well.  It has one lemma per action *)
(* below, with one step for each part of Sound.                            *)
(*                                                                         *)
(* After it the other two sides of MCVouchers: the playground's payment    *)
(* channels (Play) and the session channels of Tempo merchants (Tempo),    *)
(* each from its own module's IInv and for any deposits and bounds.        *)
(***************************************************************************)
EXTENDS MCVouchers, FiniteSetTheorems, TLAPS

-----------------------------------------------------------------------------
(* Types, and the end a finisher has claimed.                              *)

\* Reading the watermark keeps the types.
LEMMA ReadPreviousTypes == ASSUME TypeOK, Busy, NEW r \in Requests, ReadPrevious(r) PROVE TypeOK'
<1>1. [NoVoucher EXCEPT !.previous = watermark.amount] \in Voucher
  BY DEF NoVoucher, Voucher, TypeOK, StoreTypeOK
<1>2. voucher' \in [Requests -> Voucher]
  BY <1>1 DEF ReadPrevious, TypeOK
<1>3. pc' \in [Procs -> RequestPC \cup RollbackPC \cup FinisherPC \cup {"release", "done"}]
  BY DEF ReadPrevious, Go, TypeOK, RequestPC
<1> QED
  BY <1>2, <1>3 DEF ReadPrevious, store, async, past, TypeOK, StoreTypeOK

\* The expiry of the lock keeps the types.
LEMMA ExpiryTypes == ASSUME TypeOK, Busy, LockExpires PROVE TypeOK' /\ Busy'
<1>1. /\ UNCHANGED <<watermark, used, pc, voucher, result, cached, jobs, terminal, finish,
                     charged, repeated>>
      /\ lock' \in [id : Requests \cup {NoOne}, live : BOOLEAN]
  BY DEF LockExpires, ExpireLock, request, async, TypeOK, StoreTypeOK
<1>2. faults' \in 0 .. MaxFaults
  BY ChannelConstants DEF LockExpires, Fault, TypeOK
<1>3. TypeOK'
  BY <1>1, <1>2 DEF TypeOK, StoreTypeOK
<1> QED
  BY <1>1, <1>3 DEF Busy

\* Every step keeps the types and Busy: only the claim of another job, or the same
\* end again, is written while a finisher acts.
LEMMA TypesKept == TypeOK /\ Busy /\ [Next]_vars => TypeOK' /\ Busy'
<1> SUFFICES ASSUME TypeOK, Busy, [Next]_vars PROVE TypeOK' /\ Busy'
  OBVIOUS
<1> USE ChannelStoreConstants, ChannelConstants DEF store, request, async, past, Go, End
<1>1. ASSUME NEW r \in Requests, Lock(r)
      PROVE  TypeOK' /\ Busy'
  <2>1. TypeOK'
    BY <1>1, SMTT(20) DEF Lock, AcquireLock, TypeOK, StoreTypeOK, Busy, Of, Procs,
         RequestPC, RollbackPC, FinisherPC, Ends, Results, Voucher, Terminal
  <2>2. Busy'
    BY <1>1, SMTT(20) DEF Lock, AcquireLock, TypeOK, Busy, Procs, RollbackPC, Terminal, Ends
  <2> QED
    BY <2>1, <2>2
<1>2. ASSUME NEW r \in Requests, LockBusy(r)
      PROVE  TypeOK' /\ Busy'
  <2>1. TypeOK'
    BY <1>2, SMTT(20) DEF LockBusy, TypeOK, StoreTypeOK, Busy, Of, Procs, RequestPC,
         RollbackPC, FinisherPC, Ends, Results, Voucher, Terminal
  <2>2. Busy'
    BY <1>2, SMTT(20) DEF LockBusy, TypeOK, Busy, Procs, RollbackPC, Terminal, Ends
  <2> QED
    BY <2>1, <2>2
<1>3. ASSUME NEW r \in Requests, ReadPrevious(r)
      PROVE  TypeOK' /\ Busy'
  <2>1. TypeOK'
    BY <1>3, ReadPreviousTypes
  <2>2. Busy'
    BY <1>3, SMTT(20) DEF ReadPrevious, NoVoucher, TypeOK, Busy, Procs, RollbackPC,
         Terminal, Ends
  <2> QED
    BY <2>1, <2>2
<1>4. ASSUME NEW r \in Requests, NEW c \in Challenges, NEW n \in Amounts,
         NEW close \in BOOLEAN, Verify(r, c, n, close)
      PROVE  TypeOK' /\ Busy'
  <2>1. TypeOK'
    BY <1>4, SMTT(20) DEF Verify, Accepted, AcceptVoucher, Acceptable, TypeOK, StoreTypeOK,
         Busy, Of, Procs, RequestPC, RollbackPC, FinisherPC, Ends, Results, Voucher,
         Terminal
  <2>2. Busy'
    BY <1>4, SMTT(20) DEF Verify, Accepted, AcceptVoucher, Acceptable, TypeOK, Busy, Procs,
         RollbackPC, Terminal, Ends
  <2> QED
    BY <2>1, <2>2
<1>5. ASSUME NEW r \in Requests, NEW c \in Challenges, NEW n \in Amounts,
         NEW close \in BOOLEAN, VerifyUncaptured(r, c, n, close)
      PROVE  TypeOK' /\ Busy'
  <2>1. TypeOK'
    BY <1>5, SMTT(20) DEF VerifyUncaptured, Accepted, AcceptVoucher, Acceptable, TypeOK,
         StoreTypeOK, Busy, Of, Procs, RequestPC, RollbackPC, FinisherPC, Ends, Results,
         Voucher, Terminal
  <2>2. Busy'
    BY <1>5, SMTT(20) DEF VerifyUncaptured, Accepted, AcceptVoucher, Acceptable, TypeOK,
         Busy, Procs, RollbackPC, Terminal, Ends
  <2> QED
    BY <2>1, <2>2
<1>6. ASSUME NEW r \in Requests, NEW c \in Challenges, NEW n \in Amounts,
         NEW close \in BOOLEAN, VerifyThrows(r, c, n, close)
      PROVE  TypeOK' /\ Busy'
  <2>1. TypeOK'
    BY <1>6, SMTT(20) DEF VerifyThrows, Accepted, AcceptVoucher, Acceptable, TypeOK,
         StoreTypeOK, Busy, Of, Procs, RequestPC, RollbackPC, FinisherPC, Ends, Results,
         Voucher, Terminal
  <2>2. Busy'
    BY <1>6, SMTT(20) DEF VerifyThrows, Accepted, AcceptVoucher, Acceptable, TypeOK, Busy,
         Procs, RollbackPC, Terminal, Ends
  <2> QED
    BY <2>1, <2>2
<1>7. ASSUME NEW r \in Requests, VerifyRefused(r)
      PROVE  TypeOK' /\ Busy'
  <2>1. TypeOK'
    BY <1>7, SMTT(20) DEF VerifyRefused, TypeOK, StoreTypeOK, Busy, Of, Procs, RequestPC,
         RollbackPC, FinisherPC, Ends, Results, Voucher, Terminal
  <2>2. Busy'
    BY <1>7, SMTT(20) DEF VerifyRefused, TypeOK, Busy, Procs, RollbackPC, Terminal, Ends
  <2> QED
    BY <2>1, <2>2
<1>8. ASSUME NEW r \in Requests, CacheHit(r)
      PROVE  TypeOK' /\ Busy'
  <2>1. TypeOK'
    BY <1>8, SMTT(20) DEF CacheHit, Answer, Answered, TypeOK, StoreTypeOK, Busy, Of, Procs,
         RequestPC, RollbackPC, FinisherPC, Ends, Results, Voucher, Terminal
  <2>2. Busy'
    BY <1>8, SMTT(20) DEF CacheHit, Answer, Answered, TypeOK, Busy, Procs, RollbackPC,
         Terminal, Ends
  <2> QED
    BY <2>1, <2>2
<1>9. ASSUME NEW r \in Requests, JobStored(r)
      PROVE  TypeOK' /\ Busy'
  <2>1. TypeOK'
    BY <1>9, SMTT(20) DEF JobStored, Answered, TypeOK, StoreTypeOK, Busy, Of, Procs,
         RequestPC, RollbackPC, FinisherPC, Ends, Results, Voucher, Terminal
  <2>2. Busy'
    BY <1>9, SMTT(20) DEF JobStored, Answered, TypeOK, Busy, Procs, RollbackPC, Terminal,
         Ends
  <2> QED
    BY <2>1, <2>2
<1>10. ASSUME NEW r \in Requests, JobUnbound(r)
      PROVE  TypeOK' /\ Busy'
  <2>1. TypeOK'
    BY <1>10, SMTT(20) DEF JobUnbound, Answer, Answered, TypeOK, StoreTypeOK, Busy, Of,
         Procs, RequestPC, RollbackPC, FinisherPC, Ends, Results, Voucher, Terminal
  <2>2. Busy'
    BY <1>10, SMTT(20) DEF JobUnbound, Answer, Answered, TypeOK, Busy, Procs, RollbackPC,
         Terminal, Ends
  <2> QED
    BY <2>1, <2>2
<1>11. ASSUME NEW r \in Requests, NEW b \in BOOLEAN, Delivered(r, b)
      PROVE  TypeOK' /\ Busy'
  <2>1. TypeOK'
    BY <1>11, SMTT(20) DEF Delivered, Answered, TypeOK, StoreTypeOK, Busy, Of, Procs,
         RequestPC, RollbackPC, FinisherPC, Ends, Results, Voucher, Terminal
  <2>2. Busy'
    BY <1>11, SMTT(20) DEF Delivered, Answered, TypeOK, Busy, Procs, RollbackPC, Terminal,
         Ends
  <2> QED
    BY <2>1, <2>2
<1>12. ASSUME NEW r \in Requests, NEW b \in BOOLEAN, JobUnstored(r, b)
      PROVE  TypeOK' /\ Busy'
  <2>1. TypeOK'
    BY <1>12, SMTT(20) DEF JobUnstored, Answered, Fault, TypeOK, StoreTypeOK, Busy, Of,
         Procs, RequestPC, RollbackPC, FinisherPC, Ends, Results, Voucher, Terminal
  <2>2. Busy'
    BY <1>12, SMTT(20) DEF JobUnstored, Answered, Fault, TypeOK, Busy, Procs, RollbackPC,
         Terminal, Ends
  <2> QED
    BY <2>1, <2>2
<1>13. ASSUME NEW r \in Requests, NEW what \in {"limited", "failed"}, FailedVoucher(r, what)
      PROVE  TypeOK' /\ Busy'
  <2>1. TypeOK'
    BY <1>13, SMTT(20) DEF FailedVoucher, Answer, Answered, TypeOK, StoreTypeOK, Busy, Of,
         Procs, RequestPC, RollbackPC, FinisherPC, Ends, Results, Voucher, Terminal
  <2>2. Busy'
    BY <1>13, SMTT(20) DEF FailedVoucher, Answer, Answered, TypeOK, Busy, Procs, RollbackPC,
         Terminal, Ends
  <2> QED
    BY <2>1, <2>2
<1>14. ASSUME NEW r \in Requests, FailedClose(r)
      PROVE  TypeOK' /\ Busy'
  <2>1. TypeOK'
    BY <1>14, SMTT(20) DEF FailedClose, Answer, Answered, TypeOK, StoreTypeOK, Busy, Of,
         Procs, RequestPC, RollbackPC, FinisherPC, Ends, Results, Voucher, Terminal
  <2>2. Busy'
    BY <1>14, SMTT(20) DEF FailedClose, Answer, Answered, TypeOK, Busy, Procs, RollbackPC,
         Terminal, Ends
  <2> QED
    BY <2>1, <2>2
<1>15. ASSUME NEW r \in Requests, NEW b \in BOOLEAN, RefundThrows(r, b)
      PROVE  TypeOK' /\ Busy'
  <2>1. TypeOK'
    BY <1>15, SMTT(20) DEF RefundThrows, Answer, Answered, TypeOK, StoreTypeOK, Busy, Of,
         Procs, RequestPC, RollbackPC, FinisherPC, Ends, Results, Voucher, Terminal
  <2>2. Busy'
    BY <1>15, SMTT(20) DEF RefundThrows, Answer, Answered, TypeOK, Busy, Procs, RollbackPC,
         Terminal, Ends
  <2> QED
    BY <2>1, <2>2
<1>16. ASSUME NEW r \in Requests, RollbackThrows(r)
      PROVE  TypeOK' /\ Busy'
  <2>1. TypeOK'
    BY <1>16, SMTT(20) DEF RollbackThrows, RollbackPC, Return, TypeOK, StoreTypeOK, Busy,
         Of, Procs, RequestPC, RollbackPC, FinisherPC, Ends, Results, Voucher, Terminal
  <2>2. Busy'
    BY <1>16, SMTT(20) DEF RollbackThrows, RollbackPC, Return, TypeOK, Busy, Procs,
         RollbackPC, Terminal, Ends
  <2> QED
    BY <2>1, <2>2
<1>17. ASSUME NEW f \in Finishers, NEW r \in Requests, NEW end \in Ends, SeeEnd(f, r, end)
      PROVE  TypeOK' /\ Busy'
  <2>1. TypeOK'
    BY <1>17, SMTT(20) DEF SeeEnd, TypeOK, StoreTypeOK, Busy, Of, Procs, RequestPC,
         RollbackPC, FinisherPC, Ends, Results, Voucher, Terminal
  <2>2. Busy'
    BY <1>17, SMTT(20) DEF SeeEnd, TypeOK, Busy, Procs, RollbackPC, Terminal, Ends
  <2> QED
    BY <2>1, <2>2
<1>18. ASSUME NEW f \in Finishers, Claim(f)
      PROVE  TypeOK' /\ Busy'
  <2>1. TypeOK'
    BY <1>18, SMTT(20) DEF Claim, AfterClaim, TypeOK, StoreTypeOK, Busy, Of, Procs,
         RequestPC, RollbackPC, FinisherPC, Ends, Results, Voucher, Terminal
  <2>2. Busy'
    BY <1>18, SMTT(20) DEF Claim, AfterClaim, TypeOK, Busy, Procs, RollbackPC, Terminal,
         Ends
  <2> QED
    BY <2>1, <2>2
<1>19. ASSUME NEW f \in Finishers, ClaimRefused(f)
      PROVE  TypeOK' /\ Busy'
  <2>1. TypeOK'
    BY <1>19, SMTT(20) DEF ClaimRefused, TypeOK, StoreTypeOK, Busy, Of, Procs, RequestPC,
         RollbackPC, FinisherPC, Ends, Results, Voucher, Terminal
  <2>2. Busy'
    BY <1>19, SMTT(20) DEF ClaimRefused, TypeOK, Busy, Procs, RollbackPC, Terminal, Ends
  <2> QED
    BY <2>1, <2>2
<1>20. ASSUME NEW f \in Finishers, ClaimRetry(f)
      PROVE  TypeOK' /\ Busy'
  <2>1. TypeOK'
    BY <1>20, SMTT(20) DEF ClaimRetry, AfterClaim, TypeOK, StoreTypeOK, Busy, Of, Procs,
         RequestPC, RollbackPC, FinisherPC, Ends, Results, Voucher, Terminal
  <2>2. Busy'
    BY <1>20, SMTT(20) DEF ClaimRetry, AfterClaim, TypeOK, Busy, Procs, RollbackPC,
         Terminal, Ends
  <2> QED
    BY <2>1, <2>2
<1>21. ASSUME NEW f \in Finishers, RefundJob(f)
      PROVE  TypeOK' /\ Busy'
  <2>1. TypeOK'
    BY <1>21, SMTT(20) DEF RefundJob, TypeOK, StoreTypeOK, Busy, Of, Procs, RequestPC,
         RollbackPC, FinisherPC, Ends, Results, Voucher, Terminal
  <2>2. Busy'
    BY <1>21, SMTT(20) DEF RefundJob, TypeOK, Busy, Procs, RollbackPC, Terminal, Ends
  <2> QED
    BY <2>1, <2>2
<1>22. ASSUME NEW f \in Finishers, MarkDone(f)
      PROVE  TypeOK' /\ Busy'
  <2>1. TypeOK'
    BY <1>22, SMTT(20) DEF MarkDone, TypeOK, StoreTypeOK, Busy, Of, Procs, RequestPC,
         RollbackPC, FinisherPC, Ends, Results, Voucher, Terminal
  <2>2. Busy'
    BY <1>22, SMTT(20) DEF MarkDone, TypeOK, Busy, Procs, RollbackPC, Terminal, Ends
  <2> QED
    BY <2>1, <2>2
<1>23. ASSUME NEW p \in Procs, Undo(p)
      PROVE  TypeOK' /\ Busy'
  <2>1. TypeOK'
    BY <1>23, SMTT(20) DEF Undo, RestoreWatermark, Latest, TypeOK, StoreTypeOK, Busy, Of,
         Procs, RequestPC, RollbackPC, FinisherPC, Ends, Results, Voucher, Terminal
  <2>2. Busy'
    BY <1>23, SMTT(20) DEF Undo, RestoreWatermark, Latest, TypeOK, Busy, Procs, RollbackPC,
         Terminal, Ends
  <2> QED
    BY <2>1, <2>2
<1>24. ASSUME NEW p \in Procs, UndoOvertaken(p)
      PROVE  TypeOK' /\ Busy'
  <2>1. TypeOK'
    BY <1>24, SMTT(20) DEF UndoOvertaken, Latest, TypeOK, StoreTypeOK, Busy, Of, Procs,
         RequestPC, RollbackPC, FinisherPC, Ends, Results, Voucher, Terminal
  <2>2. Busy'
    BY <1>24, SMTT(20) DEF UndoOvertaken, Latest, TypeOK, Busy, Procs, RollbackPC, Terminal,
         Ends
  <2> QED
    BY <2>1, <2>2
<1>25. ASSUME NEW p \in Procs, Erase(p)
      PROVE  TypeOK' /\ Busy'
  <2>1. TypeOK'
    BY <1>25, SMTT(20) DEF Erase, Return, TypeOK, StoreTypeOK, Busy, Of, Procs, RequestPC,
         RollbackPC, FinisherPC, Ends, Results, Voucher, Terminal
  <2>2. Busy'
    BY <1>25, SMTT(20) DEF Erase, Return, TypeOK, Busy, Procs, RollbackPC, Terminal, Ends
  <2> QED
    BY <2>1, <2>2
<1>26. ASSUME NEW p \in Procs, RereadWatermark(p)
      PROVE  TypeOK' /\ Busy'
  <2>1. TypeOK'
    BY <1>26, SMTT(20) DEF RereadWatermark, Reread, Return, TypeOK, StoreTypeOK, Results,
         RollbackPC, Procs
  <2>2. Busy'
    BY <1>26, SMTT(20) DEF RereadWatermark, Reread, Return, TypeOK, Busy, Procs, RollbackPC,
         Terminal, Ends
  <2> QED
    BY <2>1, <2>2
<1>27. ASSUME NEW p \in Procs, RereadChallenge(p)
      PROVE  TypeOK' /\ Busy'
  <2>1. TypeOK'
    BY <1>27, SMTT(20) DEF RereadChallenge, Reread, Return, TypeOK, StoreTypeOK, Results,
         RollbackPC, Procs
  <2>2. Busy'
    BY <1>27, SMTT(20) DEF RereadChallenge, Reread, Return, TypeOK, Busy, Procs, RollbackPC,
         Terminal, Ends
  <2> QED
    BY <2>1, <2>2
<1>28. ASSUME NEW p \in Procs, Release(p)
      PROVE  TypeOK' /\ Busy'
  <2>1. TypeOK'
    BY <1>28, SMTT(20) DEF Release, ReleaseLock, NoLock, TypeOK, StoreTypeOK, Busy, Of,
         Procs, RequestPC, RollbackPC, FinisherPC, Ends, Results, Voucher, Terminal
  <2>2. Busy'
    BY <1>28, SMTT(20) DEF Release, ReleaseLock, NoLock, TypeOK, Busy, Procs, RollbackPC,
         Terminal, Ends
  <2> QED
    BY <2>1, <2>2
<1>29. ASSUME NEW p \in Procs, Die(p)
      PROVE  TypeOK' /\ Busy'
  <2>1. TypeOK'
    BY <1>29, SMTT(20) DEF Die, TypeOK, StoreTypeOK, Busy, Of, Procs, RequestPC, RollbackPC,
         FinisherPC, Ends, Results, Voucher, Terminal
  <2>2. Busy'
    BY <1>29, SMTT(20) DEF Die, TypeOK, Busy, Procs, RollbackPC, Terminal, Ends
  <2> QED
    BY <2>1, <2>2
<1>30. LockExpires => TypeOK' /\ Busy'
  BY ExpiryTypes
<1>31. UNCHANGED vars => TypeOK' /\ Busy'
  BY DEF vars, TypeOK, StoreTypeOK, Busy
<1> QED
  BY <1>1, <1>2, <1>3, <1>4, <1>5, <1>6, <1>7, <1>8, <1>9, <1>10, <1>11, <1>12, <1>13,
       <1>14, <1>15, <1>16, <1>17, <1>18, <1>19, <1>20, <1>21, <1>22, <1>23, <1>24, <1>25,
       <1>26, <1>27, <1>28, <1>29, <1>30, <1>31 DEF Next, RequestStep, FinisherStep,
       Rollback

-----------------------------------------------------------------------------
(* Sound, action by action.                                                *)

\* A process that works, works alone, and no job is open.
LEMMA WorksAlone ==
  ASSUME Exclusion, NEW p \in Procs, Working(p)
  PROVE  /\ \A q \in Procs \ {p} : ~Working(q)
         /\ \A x \in Requests : ~JobOpen(x)
  BY DEF Exclusion

\* An accepted voucher is the latest one, on top of everything else charged.
LEMMA AcceptedOwes ==
  ASSUME TypeOK, Sound, NEW r \in Requests, NEW c \in Challenges, NEW n \in Amounts,
         NEW close \in BOOLEAN, Accepted(r, c, n, close)
  PROVE  /\ Owes(r)'
         /\ Exact'
         /\ \A q \in Procs \ {r} : ~Working(q)
         /\ \A x \in Requests : ~JobOpen(x)
<1>1. r \notin charged /\ voucher[r].previous = watermark.amount
  BY DEF Accepted, Sound, Fresh
<1>2. /\ voucher'[r].amount = n /\ voucher'[r].close = close
      /\ voucher'[r].previous = watermark.amount
      /\ \A s \in Requests \ {r} : voucher'[s] = voucher[s]
  BY <1>1 DEF Accepted, TypeOK, Voucher
<1>3. /\ watermark'.amount = n /\ watermark'.settling = close
      /\ n > watermark.amount /\ n \in Nat /\ watermark.amount \in Nat
      /\ charged' = charged \cup {r} /\ charged \subseteq Requests
  BY ChannelStoreConstants DEF Accepted, AcceptVoucher, Acceptable, TypeOK, StoreTypeOK
<1>4. \A s \in charged : s # r /\ voucher'[s].amount = voucher[s].amount
                             /\ voucher[s].amount \in Nat /\ voucher[s].amount <= watermark.amount
  BY <1>1, <1>2, <1>3 DEF Sound, Exact, TypeOK, Voucher
<1>5. watermark.amount # 0 => \E s \in charged : voucher[s].amount = watermark.amount
  BY DEF Sound, Exact
<1>6. Owes(r)'
  BY <1>1, <1>2, <1>3, <1>4, <1>5 DEF Owes
<1>7. Exact'
  BY <1>2, <1>3, <1>4 DEF Exact
<1>8. Working(r)
  BY DEF Accepted, Working
<1> QED
  BY <1>6, <1>7, <1>8, WorksAlone DEF Sound, Procs

\* A request takes the lock when nobody relies on it.
LEMMA LockKeeps ==
  ASSUME TypeOK, Sound, NEW r \in Requests, Lock(r)
  PROVE  Sound'
<1> USE DEF Lock, AcquireLock, store, request, async, Go, End, Sound, TypeOK, StoreTypeOK,
     Procs
<1>1. Exclusion'
  <2>1. \A x \in Requests : ~Locked(x)
    BY DEF Locked
  <2>2. /\ \A p \in Procs : ~Working(p)
        /\ \A x \in Requests : ~JobOpen(x)
    BY <2>1 DEF Exclusion
  <2>3. /\ \A p \in Procs \ {r} : ~Working(p)'
        /\ \A x \in Requests : ~JobOpen(x)'
    BY <2>2 DEF Working, JobOpen
  <2>4. Of(r)' = r /\ Locked(r)'
    BY DEF Of, Locked
  <2> QED
    BY <2>3, <2>4 DEF Exclusion
<1>2. Requested'
  BY SMTT(20) DEF Requested, Exclusion, Working, Of, JobOpen, Locked
<1>3. Finishing'
  BY ChannelConstants, SMTT(20) DEF Finishing, Acting
<1>4. Owing'
  BY SMTT(20) DEF Owing, Owes, JobOpen, Of
<1>5. Undoing'
  BY SMTT(20) DEF Undoing, Owing, Owes, Of
<1>6. Fresh'
  BY SMTT(20) DEF Fresh, Exclusion, Working, Of, JobOpen, Locked
<1>7. Exact'
  BY SMTT(20) DEF Exact
<1>8. Told'
  BY SMTT(20) DEF Told, Kept, GivenBack, Requested
<1>9. Sole'
  BY ChannelConstants, SMTT(20) DEF Sole, Acting
<1> QED
  BY <1>1, <1>2, <1>3, <1>4, <1>5, <1>6, <1>7, <1>8, <1>9

\* A request that is turned away changes nothing else.
LEMMA LockBusyKeeps ==
  ASSUME TypeOK, Sound, NEW r \in Requests, LockBusy(r)
  PROVE  Sound'
<1> USE DEF LockBusy, store, request, async, Go, End, Sound, TypeOK, StoreTypeOK, Procs
<1>1. Exclusion'
  BY SMTT(20) DEF Exclusion, Working, Of, JobOpen, Locked, Requested, Finishing, Acting
<1>2. Requested'
  BY SMTT(20) DEF Requested, Exclusion, Working, Of, JobOpen, Locked
<1>3. Finishing'
  BY SMTT(20) DEF Finishing, Acting, Requested, Undoing, Of
<1>4. Owing'
  BY SMTT(20) DEF Owing, Owes, JobOpen, Of
<1>5. Undoing'
  BY SMTT(20) DEF Undoing, Owing, Owes, Of
<1>6. Fresh'
  BY SMTT(20) DEF Fresh, Exclusion, Working, Of, JobOpen, Locked
<1>7. Exact'
  BY SMTT(20) DEF Exact
<1>8. Told'
  BY SMTT(20) DEF Told, Kept, GivenBack, Requested
<1>9. Sole'
  BY ChannelConstants, SMTT(20) DEF Sole, Acting
<1> QED
  BY <1>1, <1>2, <1>3, <1>4, <1>5, <1>6, <1>7, <1>8, <1>9

\* The watermark is read while nobody else can move it.
LEMMA ReadPreviousKeeps ==
  ASSUME TypeOK, Sound, NEW r \in Requests, ReadPrevious(r)
  PROVE  Sound'
<1> USE DEF ReadPrevious, NoVoucher, store, request, async, Go, End, Sound, TypeOK,
     StoreTypeOK, Procs
<1>a. /\ \A q \in Procs \ {r} : ~Working(q)
      /\ \A x \in Requests : ~JobOpen(x)
  BY WorksAlone DEF Working
<1>1. Exclusion'
  BY SMTT(20) DEF Exclusion, Working, Of, JobOpen, Locked, Requested, Finishing, Acting
<1>2. Requested'
  BY SMTT(20) DEF Requested, Exclusion, Working, Of, JobOpen, Locked
<1>3. Finishing'
  BY SMTT(20) DEF Finishing, Acting, Requested, Undoing, Of
<1>4. Owing'
  <2>1. /\ \A q \in Procs \ {r} : pc'[q] \notin {"accepted", "undo", "refund"}
        /\ \A x \in Requests : ~JobOpen(x)'
    BY <1>a DEF Working, JobOpen
  <2>2. Of(r)' = r
    BY DEF Of
  <2> QED
    BY <1>a, <2>1, <2>2 DEF Owing
<1>5. Undoing'
  BY <1>a DEF Undoing, Working
<1>6. Fresh'
  BY SMTT(20) DEF Fresh, Exclusion, Working, Of, JobOpen, Locked
<1>7. Exact'
  <2>1. \A s \in charged : s \in Requests /\ s # r /\ voucher'[s] = voucher[s]
    BY DEF Fresh
  <2> QED
    BY <2>1 DEF Exact
<1>8. Told'
  BY SMTT(20) DEF Told, Kept, GivenBack, Requested
<1>9. Sole'
  BY ChannelConstants, SMTT(20) DEF Sole, Acting
<1> QED
  BY <1>1, <1>2, <1>3, <1>4, <1>5, <1>6, <1>7, <1>8, <1>9

\* An accepted voucher is owed by its request alone.
LEMMA VerifyKeeps ==
  ASSUME TypeOK, Sound, NEW r \in Requests, NEW c \in Challenges, NEW n \in Amounts,
         NEW close \in BOOLEAN, Verify(r, c, n, close)
  PROVE  Sound'
<1> USE DEF Verify, Accepted, AcceptVoucher, Acceptable, store, request, async, Go, End,
     Sound, TypeOK, StoreTypeOK, Procs
<1>a. /\ Owes(r)' /\ Exact'
      /\ \A q \in Procs \ {r} : ~Working(q)
      /\ \A x \in Requests : ~JobOpen(x)
  BY AcceptedOwes
<1>1. Exclusion'
  BY SMTT(20) DEF Exclusion, Working, Of, JobOpen, Locked, Requested, Finishing, Acting
<1>2. Requested'
  BY SMTT(20) DEF Requested, Exclusion, Working, Of, JobOpen, Locked
<1>3. Finishing'
  BY SMTT(20) DEF Finishing, Acting, Requested, Undoing, Of
<1>4. Owing'
  <2>1. /\ \A q \in Procs \ {r} : pc'[q] \notin {"accepted", "undo", "refund"}
        /\ \A x \in Requests : ~JobOpen(x)'
    BY <1>a DEF Working, JobOpen
  <2>2. Of(r)' = r
    BY DEF Of
  <2> QED
    BY <1>a, <2>1, <2>2 DEF Owing
<1>5. Undoing'
  BY <1>a DEF Undoing, Working
<1>6. Fresh'
  BY SMTT(20) DEF Fresh, Exclusion, Working, Of, JobOpen, Locked
<1>7. Exact'
  BY <1>a
<1>8. Told'
  BY SMTT(20) DEF Told, Kept, GivenBack, Requested
<1>9. Sole'
  BY ChannelConstants, SMTT(20) DEF Sole, Acting
<1> QED
  BY <1>1, <1>2, <1>3, <1>4, <1>5, <1>6, <1>7, <1>8, <1>9

\* A voucher whose details are lost stays charged.
LEMMA VerifyUncapturedKeeps ==
  ASSUME TypeOK, Sound, NEW r \in Requests, NEW c \in Challenges, NEW n \in Amounts,
         NEW close \in BOOLEAN, VerifyUncaptured(r, c, n, close)
  PROVE  Sound'
<1> USE DEF VerifyUncaptured, Accepted, AcceptVoucher, Acceptable, store, request, async,
     Go, End, Sound, TypeOK, StoreTypeOK, Procs
<1>a. /\ Owes(r)' /\ Exact'
      /\ \A q \in Procs \ {r} : ~Working(q)
      /\ \A x \in Requests : ~JobOpen(x)
  BY AcceptedOwes
<1>1. Exclusion'
  BY SMTT(20) DEF Exclusion, Working, Of, JobOpen, Locked, Requested, Finishing, Acting
<1>2. Requested'
  BY SMTT(20) DEF Requested, Exclusion, Working, Of, JobOpen, Locked
<1>3. Finishing'
  BY SMTT(20) DEF Finishing, Acting, Requested, Undoing, Of
<1>4. Owing'
  <2>1. /\ \A q \in Procs \ {r} : pc'[q] \notin {"accepted", "undo", "refund"}
        /\ \A x \in Requests : ~JobOpen(x)'
    BY <1>a DEF Working, JobOpen
  <2>2. Of(r)' = r
    BY DEF Of
  <2> QED
    BY <1>a, <2>1, <2>2 DEF Owing
<1>5. Undoing'
  BY <1>a DEF Undoing, Working
<1>6. Fresh'
  BY SMTT(20) DEF Fresh, Exclusion, Working, Of, JobOpen, Locked
<1>7. Exact'
  BY <1>a
<1>8. Told'
  BY SMTT(20) DEF Told, Kept, GivenBack, Requested
<1>9. Sole'
  BY ChannelConstants, SMTT(20) DEF Sole, Acting
<1> QED
  BY <1>1, <1>2, <1>3, <1>4, <1>5, <1>6, <1>7, <1>8, <1>9

\* A voucher accepted behind an error stays charged.
LEMMA VerifyThrowsKeeps ==
  ASSUME TypeOK, Sound, NEW r \in Requests, NEW c \in Challenges, NEW n \in Amounts,
         NEW close \in BOOLEAN, VerifyThrows(r, c, n, close)
  PROVE  Sound'
<1> USE DEF VerifyThrows, Accepted, AcceptVoucher, Acceptable, store, request, async, Go,
     End, Sound, TypeOK, StoreTypeOK, Procs
<1>a. /\ Owes(r)' /\ Exact'
      /\ \A q \in Procs \ {r} : ~Working(q)
      /\ \A x \in Requests : ~JobOpen(x)
  BY AcceptedOwes
<1>1. Exclusion'
  BY SMTT(20) DEF Exclusion, Working, Of, JobOpen, Locked, Requested, Finishing, Acting
<1>2. Requested'
  BY SMTT(20) DEF Requested, Exclusion, Working, Of, JobOpen, Locked
<1>3. Finishing'
  BY SMTT(20) DEF Finishing, Acting, Requested, Undoing, Of
<1>4. Owing'
  <2>1. /\ \A q \in Procs \ {r} : pc'[q] \notin {"accepted", "undo", "refund"}
        /\ \A x \in Requests : ~JobOpen(x)'
    BY <1>a DEF Working, JobOpen
  <2>2. Of(r)' = r
    BY DEF Of
  <2> QED
    BY <1>a, <2>1, <2>2 DEF Owing
<1>5. Undoing'
  BY <1>a DEF Undoing, Working
<1>6. Fresh'
  BY SMTT(20) DEF Fresh, Exclusion, Working, Of, JobOpen, Locked
<1>7. Exact'
  BY <1>a
<1>8. Told'
  BY SMTT(20) DEF Told, Kept, GivenBack, Requested
<1>9. Sole'
  BY ChannelConstants, SMTT(20) DEF Sole, Acting
<1> QED
  BY <1>1, <1>2, <1>3, <1>4, <1>5, <1>6, <1>7, <1>8, <1>9

\* A refused voucher charges nothing.
LEMMA VerifyRefusedKeeps ==
  ASSUME TypeOK, Sound, NEW r \in Requests, VerifyRefused(r)
  PROVE  Sound'
<1> USE DEF VerifyRefused, store, request, async, Go, End, Sound, TypeOK, StoreTypeOK, Procs
<1>1. Exclusion'
  BY SMTT(20) DEF Exclusion, Working, Of, JobOpen, Locked, Requested, Finishing, Acting
<1>2. Requested'
  BY SMTT(20) DEF Requested, Exclusion, Working, Of, JobOpen, Locked
<1>3. Finishing'
  BY SMTT(20) DEF Finishing, Acting, Requested, Undoing, Of
<1>4. Owing'
  BY SMTT(20) DEF Owing, Owes, JobOpen, Of
<1>5. Undoing'
  BY SMTT(20) DEF Undoing, Owing, Owes, Of
<1>6. Fresh'
  BY SMTT(20) DEF Fresh, Exclusion, Working, Of, JobOpen, Locked
<1>7. Exact'
  BY SMTT(20) DEF Exact
<1>8. Told'
  BY SMTT(20) DEF Told, Kept, GivenBack, Requested
<1>9. Sole'
  BY ChannelConstants, SMTT(20) DEF Sole, Acting
<1> QED
  BY <1>1, <1>2, <1>3, <1>4, <1>5, <1>6, <1>7, <1>8, <1>9

\* A cached answer is paid for by the new voucher.
LEMMA CacheHitKeeps ==
  ASSUME TypeOK, Sound, NEW r \in Requests, CacheHit(r)
  PROVE  Sound'
<1> USE DEF CacheHit, Answer, Answered, store, request, async, Go, End, Sound, TypeOK,
     StoreTypeOK, Procs
<1>1. Exclusion'
  BY SMTT(20) DEF Exclusion, Working, Of, JobOpen, Locked, Requested, Finishing, Acting
<1>2. Requested'
  BY SMTT(20) DEF Requested, Exclusion, Working, Of, JobOpen, Locked
<1>3. Finishing'
  BY SMTT(20) DEF Finishing, Acting, Requested, Undoing, Of
<1>4. Owing'
  BY SMTT(20) DEF Owing, Owes, JobOpen, Of
<1>5. Undoing'
  BY SMTT(20) DEF Undoing, Owing, Owes, Of
<1>6. Fresh'
  BY SMTT(20) DEF Fresh, Exclusion, Working, Of, JobOpen, Locked
<1>7. Exact'
  BY SMTT(20) DEF Exact
<1>8. Told'
  BY SMTT(20) DEF Told, Kept, GivenBack, Requested, Owing, Owes, Of
<1>9. Sole'
  BY ChannelConstants, SMTT(20) DEF Sole, Acting
<1> QED
  BY <1>1, <1>2, <1>3, <1>4, <1>5, <1>6, <1>7, <1>8, <1>9

\* A job takes over the lock and the debt of its request.
LEMMA JobStoredKeeps ==
  ASSUME TypeOK, Sound, NEW r \in Requests, JobStored(r)
  PROVE  Sound'
<1> USE DEF JobStored, Answered, store, request, async, Go, End, Sound, TypeOK, StoreTypeOK,
     Procs
<1>1. Exclusion'
  BY SMTT(20) DEF Exclusion, Working, Of, JobOpen, Locked, Requested, Finishing, Acting
<1>2. Requested'
  BY SMTT(20) DEF Requested, Exclusion, Working, Of, JobOpen, Locked
<1>3. Finishing'
  BY SMTT(20) DEF Finishing, Acting, Requested, Undoing, Of
<1>4. Owing'
  BY SMTT(20) DEF Owing, Owes, JobOpen, Of
<1>5. Undoing'
  BY SMTT(20) DEF Undoing, Owing, Owes, Of
<1>6. Fresh'
  BY SMTT(20) DEF Fresh, Exclusion, Working, Of, JobOpen, Locked
<1>7. Exact'
  BY SMTT(20) DEF Exact
<1>8. Told'
  BY SMTT(20) DEF Told, Kept, GivenBack, Requested
<1>9. Sole'
  BY ChannelConstants, SMTT(20) DEF Sole, Acting
<1> QED
  BY <1>1, <1>2, <1>3, <1>4, <1>5, <1>6, <1>7, <1>8, <1>9

\* A job without an owner keeps its voucher charged.
LEMMA JobUnboundKeeps ==
  ASSUME TypeOK, Sound, NEW r \in Requests, JobUnbound(r)
  PROVE  Sound'
<1> USE DEF JobUnbound, Answer, Answered, store, request, async, Go, End, Sound, TypeOK,
     StoreTypeOK, Procs
<1>1. Exclusion'
  BY SMTT(20) DEF Exclusion, Working, Of, JobOpen, Locked, Requested, Finishing, Acting
<1>2. Requested'
  BY SMTT(20) DEF Requested, Exclusion, Working, Of, JobOpen, Locked
<1>3. Finishing'
  BY SMTT(20) DEF Finishing, Acting, Requested, Undoing, Of
<1>4. Owing'
  BY SMTT(20) DEF Owing, Owes, JobOpen, Of
<1>5. Undoing'
  BY SMTT(20) DEF Undoing, Owing, Owes, Of
<1>6. Fresh'
  BY SMTT(20) DEF Fresh, Exclusion, Working, Of, JobOpen, Locked
<1>7. Exact'
  BY SMTT(20) DEF Exact
<1>8. Told'
  BY SMTT(20) DEF Told, Kept, GivenBack, Requested
<1>9. Sole'
  BY ChannelConstants, SMTT(20) DEF Sole, Acting
<1> QED
  BY <1>1, <1>2, <1>3, <1>4, <1>5, <1>6, <1>7, <1>8, <1>9

\* A delivered request is charged.
LEMMA DeliveredKeeps ==
  ASSUME TypeOK, Sound, NEW r \in Requests, NEW b \in BOOLEAN, Delivered(r, b)
  PROVE  Sound'
<1> USE DEF Delivered, Answered, store, request, async, Go, End, Sound, TypeOK, StoreTypeOK,
     Procs
<1>1. Exclusion'
  BY SMTT(20) DEF Exclusion, Working, Of, JobOpen, Locked, Requested, Finishing, Acting
<1>2. Requested'
  BY SMTT(20) DEF Requested, Exclusion, Working, Of, JobOpen, Locked
<1>3. Finishing'
  BY SMTT(20) DEF Finishing, Acting, Requested, Undoing, Of
<1>4. Owing'
  BY SMTT(20) DEF Owing, Owes, JobOpen, Of
<1>5. Undoing'
  BY SMTT(20) DEF Undoing, Owing, Owes, Of
<1>6. Fresh'
  BY SMTT(20) DEF Fresh, Exclusion, Working, Of, JobOpen, Locked
<1>7. Exact'
  BY SMTT(20) DEF Exact
<1>8. Told'
  BY SMTT(20) DEF Told, Kept, GivenBack, Requested, Owing, Owes, Of
<1>9. Sole'
  BY ChannelConstants, SMTT(20) DEF Sole, Acting
<1> QED
  BY <1>1, <1>2, <1>3, <1>4, <1>5, <1>6, <1>7, <1>8, <1>9

\* A job that was not stored leaves the rollback to its request.
LEMMA JobUnstoredKeeps ==
  ASSUME TypeOK, Sound, NEW r \in Requests, NEW b \in BOOLEAN, JobUnstored(r, b), Regular,
         Regular'
  PROVE  Sound'
<1>a. /\ TypeOK /\ pc[r] = "accepted" /\ voucher[r].close = FALSE
      /\ pc' = [pc EXCEPT ![r] = "undo"] /\ result' = [result EXCEPT ![r] = "failed"]
      /\ UNCHANGED <<lock, watermark, used, voucher, jobs, terminal, finish, charged>>
  <2>1. b = FALSE
    BY DEF JobUnstored, Fault, Regular
  <2> QED
    BY <2>1 DEF JobUnstored, Answered, Go, End, store, TypeOK, Voucher
<1> USE DEF TypeOK, StoreTypeOK
<1>1. Exclusion'
  BY <1>a, SMTT(20) DEF Exclusion, Working, Of, JobOpen, Locked, Requested, Finishing,
       Acting, Sound, Procs
<1>2. Requested'
  BY <1>a, SMTT(20) DEF Requested, Exclusion, Working, Of, JobOpen, Locked, Sound, Procs
<1>3. Finishing'
  BY <1>a, SMTT(20) DEF Finishing, Acting, Requested, Undoing, Of, Sound, Procs
<1>4. Owing'
  BY <1>a, SMTT(20) DEF Owing, Owes, JobOpen, Of, Sound, Procs
<1>5. Undoing'
  BY <1>a, SMTT(20) DEF Undoing, Owing, Owes, Of, Sound, Procs
<1>6. Fresh'
  BY <1>a, SMTT(20) DEF Fresh, Exclusion, Working, Of, JobOpen, Locked, Sound, Procs
<1>7. Exact'
  BY <1>a, SMTT(20) DEF Exact, Sound, Procs
<1>8. Told'
  BY <1>a, SMTT(20) DEF Told, Kept, GivenBack, Requested, Sound, Procs
<1>9. Sole'
  BY <1>a, ChannelConstants, SMTT(20) DEF Sole, Acting, Sound, Procs
<1> QED
  BY <1>1, <1>2, <1>3, <1>4, <1>5, <1>6, <1>7, <1>8, <1>9 DEF Sound

\* A failed request rolls back its own voucher.
LEMMA FailedVoucherKeeps ==
  ASSUME TypeOK, Sound, NEW r \in Requests, NEW what \in {"limited", "failed"},
         FailedVoucher(r, what)
  PROVE  Sound'
<1> USE DEF FailedVoucher, Answer, Answered, store, request, async, Go, End, Sound, TypeOK,
     StoreTypeOK, Procs
<1>1. Exclusion'
  BY SMTT(20) DEF Exclusion, Working, Of, JobOpen, Locked, Requested, Finishing, Acting
<1>2. Requested'
  BY SMTT(20) DEF Requested, Exclusion, Working, Of, JobOpen, Locked
<1>3. Finishing'
  BY SMTT(20) DEF Finishing, Acting, Requested, Undoing, Of
<1>4. Owing'
  BY SMTT(20) DEF Owing, Owes, JobOpen, Of
<1>5. Undoing'
  BY SMTT(20) DEF Undoing, Owing, Owes, Of
<1>6. Fresh'
  BY SMTT(20) DEF Fresh, Exclusion, Working, Of, JobOpen, Locked
<1>7. Exact'
  BY SMTT(20) DEF Exact
<1>8. Told'
  BY SMTT(20) DEF Told, Kept, GivenBack, Requested
<1>9. Sole'
  BY ChannelConstants, SMTT(20) DEF Sole, Acting
<1> QED
  BY <1>1, <1>2, <1>3, <1>4, <1>5, <1>6, <1>7, <1>8, <1>9

\* A failed request that closed the channel keeps its voucher.
LEMMA FailedCloseKeeps ==
  ASSUME TypeOK, Sound, NEW r \in Requests, FailedClose(r)
  PROVE  Sound'
<1> USE DEF FailedClose, Answer, Answered, store, request, async, Go, End, Sound, TypeOK,
     StoreTypeOK, Procs
<1>1. Exclusion'
  BY SMTT(20) DEF Exclusion, Working, Of, JobOpen, Locked, Requested, Finishing, Acting
<1>2. Requested'
  BY SMTT(20) DEF Requested, Exclusion, Working, Of, JobOpen, Locked
<1>3. Finishing'
  BY SMTT(20) DEF Finishing, Acting, Requested, Undoing, Of
<1>4. Owing'
  BY SMTT(20) DEF Owing, Owes, JobOpen, Of
<1>5. Undoing'
  BY SMTT(20) DEF Undoing, Owing, Owes, Of
<1>6. Fresh'
  BY SMTT(20) DEF Fresh, Exclusion, Working, Of, JobOpen, Locked
<1>7. Exact'
  BY SMTT(20) DEF Exact
<1>8. Told'
  BY SMTT(20) DEF Told, Kept, GivenBack, Requested
<1>9. Sole'
  BY ChannelConstants, SMTT(20) DEF Sole, Acting
<1> QED
  BY <1>1, <1>2, <1>3, <1>4, <1>5, <1>6, <1>7, <1>8, <1>9

\* A refund that could not be queued leaves the voucher charged.
LEMMA RefundThrowsKeeps ==
  ASSUME TypeOK, Sound, NEW r \in Requests, NEW b \in BOOLEAN, RefundThrows(r, b)
  PROVE  Sound'
<1> USE DEF RefundThrows, Answer, Answered, store, request, async, Go, End, Sound, TypeOK,
     StoreTypeOK, Procs
<1>1. Exclusion'
  BY SMTT(20) DEF Exclusion, Working, Of, JobOpen, Locked, Requested, Finishing, Acting
<1>2. Requested'
  BY SMTT(20) DEF Requested, Exclusion, Working, Of, JobOpen, Locked
<1>3. Finishing'
  BY SMTT(20) DEF Finishing, Acting, Requested, Undoing, Of
<1>4. Owing'
  BY SMTT(20) DEF Owing, Owes, JobOpen, Of
<1>5. Undoing'
  BY SMTT(20) DEF Undoing, Owing, Owes, Of
<1>6. Fresh'
  BY SMTT(20) DEF Fresh, Exclusion, Working, Of, JobOpen, Locked
<1>7. Exact'
  BY SMTT(20) DEF Exact
<1>8. Told'
  BY SMTT(20) DEF Told, Kept, GivenBack, Requested
<1>9. Sole'
  BY ChannelConstants, SMTT(20) DEF Sole, Acting
<1> QED
  BY <1>1, <1>2, <1>3, <1>4, <1>5, <1>6, <1>7, <1>8, <1>9

\* A rollback that stops half way is reported as open.
LEMMA RollbackThrowsKeeps ==
  ASSUME TypeOK, Sound, NEW r \in Requests, RollbackThrows(r)
  PROVE  Sound'
<1> USE DEF RollbackThrows, RollbackPC, Return, store, request, async, Go, End, Sound,
     TypeOK, StoreTypeOK, Procs
<1>1. Exclusion'
  BY SMTT(20) DEF Exclusion, Working, Of, JobOpen, Locked, Requested, Finishing, Acting
<1>2. Requested'
  BY SMTT(20) DEF Requested, Exclusion, Working, Of, JobOpen, Locked
<1>3. Finishing'
  BY ChannelConstants, SMTT(20) DEF Finishing, Acting
<1>4. Owing'
  BY SMTT(20) DEF Owing, Owes, JobOpen, Of
<1>5. Undoing'
  BY SMTT(20) DEF Undoing, Owing, Owes, Of
<1>6. Fresh'
  BY SMTT(20) DEF Fresh, Exclusion, Working, Of, JobOpen, Locked
<1>7. Exact'
  BY SMTT(20) DEF Exact
<1>8. Told'
  BY SMTT(20) DEF Told, Kept, GivenBack, Requested
<1>9. Sole'
  BY ChannelConstants, SMTT(20) DEF Sole, Acting
<1> QED
  BY <1>1, <1>2, <1>3, <1>4, <1>5, <1>6, <1>7, <1>8, <1>9

\* A finisher that has read a job has no effect yet.
LEMMA SeeEndKeeps ==
  ASSUME TypeOK, Sound, NEW f \in Finishers, NEW r \in Requests, NEW end \in Ends, SeeEnd(f,
         r, end)
  PROVE  Sound'
<1> USE DEF SeeEnd, store, request, async, Go, End, Sound, TypeOK, StoreTypeOK, Procs
<1>1. Exclusion'
  BY SMTT(20) DEF Exclusion, Working, Of, JobOpen, Locked, Requested, Finishing, Acting
<1>2. Requested'
  BY ChannelConstants, SMTT(20) DEF Requested
<1>3. Finishing'
  BY SMTT(20) DEF Finishing, Acting, Requested, Undoing, Of
<1>4. Owing'
  BY SMTT(20) DEF Owing, Owes, JobOpen, Of
<1>5. Undoing'
  BY SMTT(20) DEF Undoing, Owing, Owes, Of
<1>6. Fresh'
  BY SMTT(20) DEF Fresh, Exclusion, Working, Of, JobOpen, Locked
<1>7. Exact'
  BY SMTT(20) DEF Exact
<1>8. Told'
  BY SMTT(20) DEF Told, Kept, GivenBack, Requested
<1>9. Sole'
  BY ChannelConstants, SMTT(20) DEF Sole, Acting
<1> QED
  BY <1>1, <1>2, <1>3, <1>4, <1>5, <1>6, <1>7, <1>8, <1>9

\* The first claim ends the job and hands its debt to the finisher.
LEMMA ClaimKeeps ==
  ASSUME TypeOK, Sound, NEW f \in Finishers, Claim(f)
  PROVE  Sound'
<1> DEFINE j == finish[f].job
<1>a. /\ j \in jobs /\ j \in Requests /\ f \notin Requests /\ f \in Procs
      /\ finish[f].end \in Ends /\ terminal[j].outcome = "none"
  BY ChannelConstants DEF Claim, Finishing, Sound, TypeOK, Procs
<1>b. /\ Owes(j) /\ Locked(j) /\ \A q \in Procs : ~Working(q)
      /\ \A x \in Requests \ {j} : ~JobOpen(x)
  BY <1>a DEF JobOpen, Locked, Exclusion, Owing, Sound
<1>c. /\ terminal'[j].outcome = finish[f].end /\ terminal'[j].done = FALSE
      /\ \A x \in Requests \ {j} : terminal'[x] = terminal[x]
  BY <1>a DEF Claim, TypeOK, Terminal
<1>d. /\ \A q \in Procs \ {f} : pc'[q] = pc[q]
      /\ \/ pc'[f] = "release" /\ finish[f].end = "delivered"
         \/ pc'[f] = "refund" /\ finish[f].end = "failed" /\ voucher[j].close = TRUE
         \/ pc'[f] = "undo" /\ finish[f].end = "failed" /\ voucher[j].close = FALSE
  BY <1>a DEF Claim, AfterClaim, Go, TypeOK, Voucher, Ends
<1>e. UNCHANGED <<lock, watermark, used, voucher, result, cached, jobs, finish, charged>>
  BY DEF Claim, store, request
<1>f. Owes(j)'
  BY <1>b, <1>e DEF Owes
<1>g. Of(f) = j /\ Of(f)' = j
  BY <1>a, <1>e DEF Of
<1>1. Exclusion'
  <2>1. \A q \in Procs \ {f} : ~Working(q)'
    BY <1>b, <1>d DEF Working
  <2>2. \A x \in Requests : ~JobOpen(x)'
    BY <1>a, <1>b, <1>c, <1>e DEF JobOpen, Ends
  <2>3. Locked(j)'
    BY <1>b, <1>e DEF Locked
  <2> QED
    BY <1>a, <1>e, <1>g, <2>1, <2>2, <2>3 DEF Exclusion, Locked
<1>2. Requested'
  BY <1>a, <1>c, <1>d, <1>e DEF Requested, Sound, Procs
<1>3. Finishing'
  <2>1. ASSUME NEW g \in Finishers \ {f}, pc[g] \in Acting
        PROVE  finish[g].job \in Requests \ {j}
    BY <1>a, <2>1 DEF Finishing, Acting, Sound, TypeOK, Ends
  <2> QED
    BY <1>a, <1>c, <1>d, <1>e, <2>1 DEF Finishing, Acting, Sound, Procs
<1>4. Owing'
  <2>1. \A q \in Procs \ {f} : pc'[q] \notin {"accepted", "undo", "refund"}
    BY <1>b, <1>d DEF Working
  <2>2. \A x \in Requests : ~JobOpen(x)'
    BY <1>a, <1>b, <1>c, <1>e DEF JobOpen, Ends
  <2>3. Owes(Of(f))'
    BY <1>e, <1>f, <1>g DEF Owes
  <2> QED
    BY <2>1, <2>2, <2>3 DEF Owing
<1>5. Undoing'
  <2>1. \A q \in Procs \ {f} : pc'[q] \notin {"undo", "erase", "recheck", "reamount", "rechallenge"}
    BY <1>b, <1>d DEF Working
  <2> QED
    BY <1>d, <1>e, <1>g, <2>1 DEF Undoing
<1>6. Fresh'
  BY <1>a, <1>d, <1>e DEF Fresh, Sound, Procs
<1>7. Exact'
  BY <1>e DEF Exact, Sound
<1>8. Told'
  BY <1>a, <1>b, <1>c, <1>e DEF Told, Kept, GivenBack, Owes, Sound
<1>9. Sole'
  <2>1. \A g \in Finishers \ {f} : pc'[g] \in Acting => finish[g].job # j
    BY <1>a, <1>d DEF Finishing, Acting, Sound, Procs, TypeOK, Ends
  <2> QED
    BY <1>d, <1>e, <2>1 DEF Sole, Sound, Procs
<1> QED
  BY <1>1, <1>2, <1>3, <1>4, <1>5, <1>6, <1>7, <1>8, <1>9 DEF Sound

\* A refused claim has no effect.
LEMMA ClaimRefusedKeeps ==
  ASSUME TypeOK, Sound, NEW f \in Finishers, ClaimRefused(f)
  PROVE  Sound'
<1> USE DEF ClaimRefused, store, request, async, Go, End, Sound, TypeOK, StoreTypeOK, Procs
<1>1. Exclusion'
  BY SMTT(20) DEF Exclusion, Working, Of, JobOpen, Locked, Requested, Finishing, Acting
<1>2. Requested'
  BY SMTT(20) DEF Requested, Exclusion, Working, Of, JobOpen, Locked
<1>3. Finishing'
  BY SMTT(20) DEF Finishing, Acting, Requested, Undoing, Of
<1>4. Owing'
  BY SMTT(20) DEF Owing, Owes, JobOpen, Of
<1>5. Undoing'
  BY SMTT(20) DEF Undoing, Owing, Owes, Of
<1>6. Fresh'
  BY SMTT(20) DEF Fresh, Exclusion, Working, Of, JobOpen, Locked
<1>7. Exact'
  BY SMTT(20) DEF Exact
<1>8. Told'
  BY SMTT(20) DEF Told, Kept, GivenBack, Requested
<1>9. Sole'
  BY ChannelConstants, SMTT(20) DEF Sole, Acting
<1> QED
  BY <1>1, <1>2, <1>3, <1>4, <1>5, <1>6, <1>7, <1>8, <1>9

\* A refunded job was paid by a closing voucher.
LEMMA RefundJobKeeps ==
  ASSUME TypeOK, Sound, NEW f \in Finishers, RefundJob(f)
  PROVE  Sound'
<1> USE DEF RefundJob, store, request, async, Go, End, Sound, TypeOK, StoreTypeOK, Procs
<1>1. Exclusion'
  BY SMTT(20) DEF Exclusion, Working, Of, JobOpen, Locked, Requested, Finishing, Acting
<1>2. Requested'
  BY SMTT(20) DEF Requested, Exclusion, Working, Of, JobOpen, Locked
<1>3. Finishing'
  BY SMTT(20) DEF Finishing, Acting, Requested, Undoing, Of
<1>4. Owing'
  BY SMTT(20) DEF Owing, Owes, JobOpen, Of
<1>5. Undoing'
  BY SMTT(20) DEF Undoing, Owing, Owes, Of
<1>6. Fresh'
  BY SMTT(20) DEF Fresh, Exclusion, Working, Of, JobOpen, Locked
<1>7. Exact'
  BY SMTT(20) DEF Exact
<1>8. Told'
  BY SMTT(20) DEF Told, Kept, GivenBack, Requested
<1>9. Sole'
  BY ChannelConstants, SMTT(20) DEF Sole, Acting
<1> QED
  BY <1>1, <1>2, <1>3, <1>4, <1>5, <1>6, <1>7, <1>8, <1>9

\* The done mark follows the work of its only finisher.
LEMMA MarkDoneKeeps ==
  ASSUME TypeOK, Sound, NEW f \in Finishers, MarkDone(f)
  PROVE  Sound'
<1> DEFINE j == finish[f].job
<1>a. /\ j \in jobs /\ j \in Requests /\ f \notin Requests /\ pc[f] = "mark" /\ pc[f] \in Acting
      /\ terminal[j].outcome = finish[f].end /\ finish[f].end \in Ends
  BY ChannelConstants DEF MarkDone, Finishing, Acting, Sound, TypeOK
<1>b. /\ terminal'[j].outcome = finish[f].end /\ terminal'[j].done = TRUE
      /\ \A x \in Requests \ {j} : terminal'[x] = terminal[x]
  BY <1>a DEF MarkDone, TypeOK
<1>c. /\ \A q \in Procs \ {f} : pc'[q] = pc[q]
      /\ f \in Procs /\ pc'[f] = "done"
  BY DEF MarkDone, Go, TypeOK, Procs
<1>d. UNCHANGED <<lock, watermark, used, voucher, result, cached, jobs, finish, charged>>
  BY DEF MarkDone, store, request
<1>e. \A x \in Requests : JobOpen(x)' <=> JobOpen(x)
  BY <1>a, <1>b, <1>d DEF JobOpen
<1>f. \A q \in Procs : Of(q)' = Of(q)
  BY <1>d DEF Of
<1>1. Exclusion'
  <2>1. \A q \in Procs : Working(q)' <=> Working(q)
    BY <1>a, <1>c DEF Working
  <2>2. \A x \in Requests : Locked(x)' <=> Locked(x)
    BY <1>d DEF Locked
  <2> QED
    BY <1>e, <1>f, <2>1, <2>2 DEF Exclusion, Sound
<1>2. Requested'
  BY <1>a, <1>b, <1>c, <1>d DEF Requested, Sound, Procs
<1>3. Finishing'
  <2>1. ASSUME NEW g \in Finishers \ {f}, pc[g] \in Acting
        PROVE  finish[g].job \in Requests \ {j}
    BY <1>a, <2>1 DEF Finishing, Acting, Sole, Sound, TypeOK
  <2> QED
    BY <1>a, <1>b, <1>c, <1>d, <2>1 DEF Finishing, Acting, Sound, Procs
<1>4. Owing'
  <2>1. \A x \in Requests : Owes(x)' <=> Owes(x)
    BY <1>d DEF Owes
  <2>2. \A q \in Procs : pc'[q] \in {"accepted", "undo", "refund"} => Owes(Of(q))'
    BY <1>c, <1>d, <1>f DEF Owing, Owes, Sound
  <2> QED
    BY <1>e, <2>1, <2>2 DEF Owing, Sound
<1>5. Undoing'
  BY <1>c, <1>d, <1>f DEF Undoing, Sound
<1>6. Fresh'
  BY <1>a, <1>c, <1>d DEF Fresh, Sound, Procs
<1>7. Exact'
  BY <1>d DEF Exact, Sound
<1>8. Told'
  <2>1. finish[f].end = "failed" => voucher[j].close = TRUE \/ j \notin charged
    BY <1>a DEF Finishing, Sound
  <2> QED
    BY <1>a, <1>b, <1>d, <2>1 DEF Told, Kept, GivenBack, Sound
<1>9. Sole'
  BY <1>c, <1>d DEF Sole, Acting, Sound, Procs
<1> QED
  BY <1>1, <1>2, <1>3, <1>4, <1>5, <1>6, <1>7, <1>8, <1>9 DEF Sound

\* The rollback restores the best of the other vouchers.
LEMMA UndoKeeps ==
  ASSUME TypeOK, Sound, NEW p \in Procs, Undo(p)
  PROVE  Sound'
<1> DEFINE j == Of(p)
<1>a. /\ pc[p] = "undo" /\ Working(p)
      /\ \A q \in Procs \ {p} : ~Working(q)
      /\ \A x \in Requests : ~JobOpen(x)
      /\ j \in Requests /\ Owes(j)
  BY WorksAlone DEF Undo, Working, Exclusion, Owing, Sound
<1>b. /\ \A q \in Procs \ {p} : pc'[q] = pc[q]
      /\ pc'[p] = "erase"
  BY DEF Undo, Go, TypeOK
<1>c. UNCHANGED <<lock, used, voucher, result, cached, jobs, terminal, finish>>
  BY DEF Undo, request, async
<1>d. /\ watermark'.amount = voucher[j].previous
      /\ charged' = charged \ {j} /\ charged \subseteq Requests
  BY DEF Undo, RestoreWatermark, TypeOK
<1>e. \A q \in Procs : Of(q)' = Of(q)
  BY <1>c DEF Of
<1>1. Exclusion'
  <2>1. \A q \in Procs : Working(q)' <=> Working(q)
    BY <1>a, <1>b DEF Working
  <2>2. \A x \in Requests : (Locked(x)' <=> Locked(x)) /\ (JobOpen(x)' <=> JobOpen(x))
    BY <1>c DEF Locked, JobOpen
  <2> QED
    BY <1>e, <2>1, <2>2 DEF Exclusion, Sound
<1>2. Requested'
  BY <1>a, <1>b, <1>c DEF Requested, Sound, Procs
<1>3. Finishing'
  BY <1>a, <1>b, <1>c, <1>d DEF Finishing, Acting, Sound, Procs
<1>4. Owing'
  <2>1. \A q \in Procs : pc'[q] \notin {"accepted", "undo", "refund"}
    BY <1>a, <1>b DEF Working
  <2>2. \A x \in Requests : ~JobOpen(x)'
    BY <1>a, <1>c DEF JobOpen
  <2> QED
    BY <2>1, <2>2 DEF Owing
<1>5. Undoing'
  BY <1>a, <1>b, <1>c, <1>d, <1>e DEF Undoing, Working, Sound
<1>6. Fresh'
  <2>1. \A x \in Requests : pc'[x] \in {"idle", "read", "verify"} =>
                              pc[x] = pc'[x] /\ pc'[x] = "idle"
    BY <1>a, <1>b DEF Working, Procs
  <2> QED
    BY <1>c, <1>d, <2>1 DEF Fresh, Sound
<1>7. Exact'
  BY <1>a, <1>c, <1>d DEF Exact, Owes
<1>8. Told'
  <2>1. ~Kept(j)
    <3>1. CASE p \in Requests
      BY <1>a, <3>1 DEF Kept, Requested, Of, Sound
    <3>2. CASE p \in Finishers /\ p \notin Requests
      BY <1>a, <3>2 DEF Kept, Requested, Finishing, Acting, Of, Sound
    <3> QED
      BY <3>1, <3>2 DEF Procs
  <2> QED
    BY <1>a, <1>c, <1>d, <2>1 DEF Told, Kept, GivenBack, Sound
<1>9. Sole'
  BY <1>a, <1>b, <1>c DEF Sole, Acting, Sound, Procs
<1> QED
  BY <1>1, <1>2, <1>3, <1>4, <1>5, <1>6, <1>7, <1>8, <1>9 DEF Sound

\* A rollback is never overtaken.
LEMMA UndoOvertakenKeeps ==
  ASSUME TypeOK, Sound, NEW p \in Procs, UndoOvertaken(p)
  PROVE  Sound'
BY DEF UndoOvertaken, Latest, Sound, Undoing, Owing, Owes

\* The payer is told only after the watermark was restored.
LEMMA EraseKeeps ==
  ASSUME TypeOK, Sound, NEW p \in Procs, Erase(p)
  PROVE  Sound'
<1> USE DEF Erase, Return, store, request, async, Go, End, Sound, TypeOK, StoreTypeOK, Procs
<1>1. Exclusion'
  BY SMTT(20) DEF Exclusion, Working, Of, JobOpen, Locked, Requested, Finishing, Acting
<1>2. Requested'
  BY SMTT(20) DEF Requested, Exclusion, Working, Of, JobOpen, Locked
<1>3. Finishing'
  BY ChannelConstants, SMTT(20) DEF Finishing, Acting, Requested, Undoing, Exclusion,
       Working, Of
<1>4. Owing'
  BY SMTT(20) DEF Owing, Owes, JobOpen, Of
<1>5. Undoing'
  BY SMTT(20) DEF Undoing, Owing, Owes, Of
<1>6. Fresh'
  BY SMTT(20) DEF Fresh, Exclusion, Working, Of, JobOpen, Locked
<1>7. Exact'
  BY SMTT(20) DEF Exact
<1>8. Told'
  BY SMTT(20) DEF Told, Kept, GivenBack, Requested, Undoing, Of
<1>9. Sole'
  BY ChannelConstants, SMTT(20) DEF Sole, Acting
<1> QED
  BY <1>1, <1>2, <1>3, <1>4, <1>5, <1>6, <1>7, <1>8, <1>9

\* A rollback is never overtaken, so nothing is read again.
LEMMA RereadWatermarkKeeps ==
  ASSUME TypeOK, Sound, NEW p \in Procs, RereadWatermark(p)
  PROVE  Sound'
BY DEF RereadWatermark, Reread, Sound, Undoing

\* A rollback is never overtaken, so nothing is read again.
LEMMA RereadChallengeKeeps ==
  ASSUME TypeOK, Sound, NEW p \in Procs, RereadChallenge(p)
  PROVE  Sound'
BY DEF RereadChallenge, Reread, Sound, Undoing

\* The lock is released when its work is done.
LEMMA ReleaseKeeps ==
  ASSUME TypeOK, Sound, NEW p \in Procs, Release(p)
  PROVE  Sound'
<1> USE DEF Release, ReleaseLock, NoLock, store, request, async, Go, End, Sound, TypeOK,
     StoreTypeOK, Procs
<1>1. Exclusion'
  BY SMTT(20) DEF Exclusion, Working, Of, JobOpen, Locked, Requested, Finishing, Acting
<1>2. Requested'
  BY SMTT(20) DEF Requested, Exclusion, Working, Of, JobOpen, Locked
<1>3. Finishing'
  BY SMTT(20) DEF Finishing, Acting, Requested, Undoing, Of
<1>4. Owing'
  BY SMTT(20) DEF Owing, Owes, JobOpen, Of
<1>5. Undoing'
  BY SMTT(20) DEF Undoing, Owing, Owes, Of
<1>6. Fresh'
  BY SMTT(20) DEF Fresh, Exclusion, Working, Of, JobOpen, Locked
<1>7. Exact'
  BY SMTT(20) DEF Exact
<1>8. Told'
  BY SMTT(20) DEF Told, Kept, GivenBack, Requested
<1>9. Sole'
  BY ChannelConstants, SMTT(20) DEF Sole, Acting
<1> QED
  BY <1>1, <1>2, <1>3, <1>4, <1>5, <1>6, <1>7, <1>8, <1>9

\* Death leaves lock, voucher and job as they are.
LEMMA DieKeeps ==
  ASSUME TypeOK, Sound, NEW p \in Procs, Die(p)
  PROVE  Sound'
<1> USE DEF Die, store, request, async, Go, End, Sound, TypeOK, StoreTypeOK, Procs
<1>1. Exclusion'
  BY SMTT(20) DEF Exclusion, Working, Of, JobOpen, Locked, Requested, Finishing, Acting
<1>2. Requested'
  BY SMTT(20) DEF Requested, Exclusion, Working, Of, JobOpen, Locked
<1>3. Finishing'
  BY SMTT(20) DEF Finishing, Acting, Requested, Undoing, Of
<1>4. Owing'
  BY SMTT(20) DEF Owing, Owes, JobOpen, Of
<1>5. Undoing'
  BY SMTT(20) DEF Undoing, Owing, Owes, Of
<1>6. Fresh'
  BY SMTT(20) DEF Fresh, Exclusion, Working, Of, JobOpen, Locked
<1>7. Exact'
  BY SMTT(20) DEF Exact
<1>8. Told'
  BY SMTT(20) DEF Told, Kept, GivenBack, Requested
<1>9. Sole'
  BY ChannelConstants, SMTT(20) DEF Sole, Acting
<1> QED
  BY <1>1, <1>2, <1>3, <1>4, <1>5, <1>6, <1>7, <1>8, <1>9

\* The lock expires under nobody as long as the behaviour is regular.
LEMMA ExpiryKeeps ==
  ASSUME TypeOK, Sound, LockExpires, Regular, Regular'
  PROVE  Sound'
<1>1. /\ UNCHANGED <<watermark, used, pc, voucher, result, cached, jobs, terminal, finish,
                     charged>>
      /\ ~Holding(lock.id)
  BY DEF LockExpires, Fault, Regular, request, async
<1>2. \A x \in Requests : Locked(x) => lock.id = x
  BY DEF Locked
<1>3. /\ \A p \in Procs : ~Working(p)
      /\ \A x \in Requests : ~JobOpen(x)
  BY <1>1, <1>2 DEF Holding, Exclusion, Sound
<1>4. Exclusion'
  BY <1>1, <1>3 DEF Exclusion, Working, JobOpen
<1>5. Requested' /\ Finishing' /\ Sole'
  BY <1>1 DEF Requested, Finishing, Sole, Sound
<1>6. Owing'
  BY <1>1 DEF Owing, Owes, Of, JobOpen, Sound
<1>7. Undoing' /\ Fresh' /\ Exact'
  BY <1>1 DEF Undoing, Fresh, Exact, Of, Sound
<1>8. Told'
  BY <1>1 DEF Told, Kept, GivenBack, Sound
<1> QED
  BY <1>4, <1>5, <1>6, <1>7, <1>8 DEF Sound

\* A stuttering step keeps everything.
LEMMA StutterKeeps ==
  ASSUME Sound, UNCHANGED vars PROVE Sound'
<1> USE DEF vars, store, request, async
<1>1. Exclusion'
  BY DEF Exclusion, Working, JobOpen, Locked, Of, Sound
<1>5. Requested' /\ Finishing' /\ Sole'
  BY DEF Requested, Finishing, Sole, Sound
<1>6. Owing'
  BY DEF Owing, Owes, Of, JobOpen, Sound
<1>7. Undoing' /\ Fresh' /\ Exact'
  BY DEF Undoing, Fresh, Exact, Of, Sound
<1>8. Told'
  BY DEF Told, Kept, GivenBack, Sound
<1> QED
  BY <1>1, <1>5, <1>6, <1>7, <1>8 DEF Sound

-----------------------------------------------------------------------------
(* The invariant and the theorems.                                         *)

\* What made a behaviour irregular is never forgotten.
LEMMA PastKept ==
  ASSUME TypeOK, [Next]_vars, Regular'
  PROVE  Regular
<1> USE DEF past
<1>1. ASSUME NEW r \in Requests, RequestStep(r)
      PROVE  UNCHANGED repeated /\ faults' \in {faults, faults + 1}
  BY <1>1 DEF RequestStep, Lock, LockBusy, ReadPrevious, VerifyRefused, Verify,
       VerifyUncaptured,
     VerifyThrows, Accepted, CacheHit, JobStored, JobUnbound, Answer, Answered, Delivered,
     JobUnstored, RefundThrows, FailedVoucher, FailedClose, RollbackThrows, Fault
<1>2. ASSUME NEW f \in Finishers, FinisherStep(f)
      PROVE  UNCHANGED faults /\ repeated' \in {repeated, TRUE}
  BY <1>2 DEF FinisherStep, SeeEnd, Claim, ClaimRefused, ClaimRetry, RefundJob, MarkDone
<1>3. ASSUME NEW p \in Procs, Rollback(p) \/ Release(p) \/ Die(p) PROVE UNCHANGED past
  BY <1>3 DEF Rollback, Undo, UndoOvertaken, Erase, RereadWatermark, RereadChallenge,
       Reread, Release, Die
<1>4. LockExpires => UNCHANGED repeated /\ faults' \in {faults, faults + 1}
  BY DEF LockExpires, Fault
<1>5. faults \in Nat
  BY ChannelConstants DEF TypeOK
<1>6. /\ faults' \in {faults, faults + 1}
      /\ repeated' \in {repeated, TRUE}
  BY <1>1, <1>2, <1>3, <1>4 DEF Next, vars
<1>7. faults = 0
  BY <1>5, <1>6 DEF Regular
<1>8. ~repeated
  BY <1>6, Zenon DEF Regular
<1> QED
  BY <1>7, <1>8 DEF Regular

\* The initial states satisfy the invariant.
LEMMA InitSound == Init => IInv
<1> SUFFICES ASSUME Init PROVE IInv
  OBVIOUS
<1> USE ChannelConstants DEF Init, StoreInit
<1>1. TypeOK
  <2>1. StoreTypeOK
    BY DEF StoreTypeOK, NoLock
  <2>2. pc \in [Procs -> RequestPC \cup RollbackPC \cup FinisherPC \cup {"release", "done"}]
    BY DEF RequestPC
  <2>3. voucher \in [Requests -> Voucher] /\ result \in [Requests -> Results]
    BY DEF NoVoucher, Voucher, Results
  <2>4. terminal \in [Requests -> Terminal]
    BY DEF Terminal
  <2>5. finish \in [Finishers -> [job : Requests \cup {NoOne}, end : Ends]]
    BY DEF Ends
  <2>6. cached \in BOOLEAN /\ repeated \in BOOLEAN
    BY Zenon
  <2>7. faults \in 0 .. MaxFaults
    OBVIOUS
  <2> QED
    BY <2>1, <2>2, <2>3, <2>4, <2>5, <2>6, <2>7 DEF TypeOK
<1>2. Busy
  BY DEF Busy, RollbackPC, Procs
<1>3. Exclusion /\ Requested /\ Finishing /\ Sole
  BY DEF Exclusion, Working, JobOpen, Requested, Finishing, Sole, Acting, Procs
<1>4. Owing /\ Undoing /\ Fresh /\ Exact
  BY DEF Owing, JobOpen, Undoing, Fresh, Exact, Procs
<1>5. Told
  BY DEF Told, Kept, GivenBack
<1> QED
  BY <1>1, <1>2, <1>3, <1>4, <1>5 DEF IInv, Sound

\* Every step keeps the invariant.
LEMMA Inductive == IInv /\ [Next]_vars => IInv'
<1> SUFFICES ASSUME IInv, [Next]_vars PROVE IInv'
  OBVIOUS
<1>1. TypeOK' /\ Busy'
  BY TypesKept DEF IInv
<1>2. ASSUME Regular' PROVE Sound'
  <2>1. TypeOK /\ Regular /\ Sound
    BY <1>2, PastKept DEF IInv
  <2>2. ASSUME NEW r \in Requests, RequestStep(r) PROVE Sound'
    BY <1>2, <2>1, <2>2, LockKeeps, LockBusyKeeps, ReadPreviousKeeps, VerifyKeeps,
         VerifyUncapturedKeeps, VerifyThrowsKeeps, VerifyRefusedKeeps, CacheHitKeeps,
         JobStoredKeeps, JobUnboundKeeps, DeliveredKeeps, JobUnstoredKeeps,
         FailedVoucherKeeps, FailedCloseKeeps, RefundThrowsKeeps, RollbackThrowsKeeps DEF
         RequestStep
  <2>3. ASSUME NEW f \in Finishers, FinisherStep(f) PROVE Sound'
    <3>1. ~ClaimRetry(f)
      BY <1>2 DEF ClaimRetry, Regular
    <3> QED
      BY <2>1, <2>3, <3>1, SeeEndKeeps, ClaimKeeps, ClaimRefusedKeeps, RefundJobKeeps,
           MarkDoneKeeps DEF FinisherStep
  <2>4. ASSUME NEW p \in Procs, Rollback(p) \/ Release(p) \/ Die(p) PROVE Sound'
    BY <2>1, <2>4, UndoKeeps, UndoOvertakenKeeps, EraseKeeps, RereadWatermarkKeeps,
         RereadChallengeKeeps, ReleaseKeeps, DieKeeps DEF Rollback
  <2> QED
    BY <1>2, <2>1, <2>2, <2>3, <2>4, ExpiryKeeps, StutterKeeps DEF Next
<1> QED
  BY <1>1, <1>2 DEF IInv

\* The invariant holds in every reachable state.
LEMMA Invariance == Spec => []IInv
  BY InitSound, Inductive, PTL DEF Spec

\* The channel's records keep their types: the watermark is a natural number even
\* after rollbacks that overlap, and a finisher always works on a real job.
THEOREM TypeCorrect == Spec => []TypeOK
<1>1. IInv => TypeOK
  BY DEF IInv
<1> QED
  BY <1>1, Invariance, PTL

\* Regular behaviours: the watermark is the highest voucher that was accepted and
\* not rolled back (proxy.ts, stellar-channel-dispatch.ts, job-status.ts).
THEOREM WatermarkExactHolds == Spec => []WatermarkExact
<1>1. IInv => WatermarkExact
  BY DEF IInv, Sound, Exact, WatermarkExact
<1> QED
  BY <1>1, Invariance, PTL

\* Regular behaviours: what was delivered is charged, and a voucher reported as not
\* consumed is not.
THEOREM TruthfulAnswersHolds == Spec => []TruthfulAnswers
<1>1. IInv => TruthfulAnswers
  BY DEF IInv, Sound, Told, TruthfulAnswers
<1> QED
  BY <1>1, Invariance, PTL

\* Only a first claim and its end write a terminal record.
LEMMA EndKept ==
  ASSUME TypeOK, Busy, [Next]_vars, NEW r \in Requests, terminal[r].outcome # "none"
  PROVE  /\ terminal'[r].outcome = terminal[r].outcome
         /\ terminal[r].done => terminal'[r].done
<1> USE DEF async
<1>1. ASSUME NEW x \in Requests, RequestStep(x) PROVE UNCHANGED terminal
  BY <1>1 DEF RequestStep, Lock, LockBusy, ReadPrevious, VerifyRefused, Verify,
       VerifyUncaptured,
     VerifyThrows, Accepted, CacheHit, JobStored, JobUnbound, Answer, Answered, Delivered,
     JobUnstored, RefundThrows, FailedVoucher, FailedClose, RollbackThrows
<1>2. ASSUME NEW f \in Finishers, FinisherStep(f)
      PROVE  UNCHANGED terminal \/ Claim(f) \/ MarkDone(f)
  BY <1>2 DEF FinisherStep, SeeEnd, ClaimRefused, ClaimRetry, RefundJob
<1>3. ASSUME NEW p \in Procs, Rollback(p) \/ Release(p) \/ Die(p) PROVE UNCHANGED terminal
  BY <1>3 DEF Rollback, Undo, UndoOvertaken, Erase, RereadWatermark, RereadChallenge,
       Reread, Release, Die
<1>4. LockExpires => UNCHANGED terminal
  BY DEF LockExpires
<1>5. ASSUME NEW f \in Finishers, Claim(f) PROVE terminal'[r] = terminal[r]
  BY <1>5 DEF Claim, TypeOK
<1>6. ASSUME NEW f \in Finishers, MarkDone(f)
      PROVE  /\ terminal'[r].outcome = terminal[r].outcome
             /\ terminal'[r] = terminal[r] \/ terminal'[r].done
  BY <1>6 DEF MarkDone, Busy, TypeOK
<1>7. CASE UNCHANGED terminal
  BY <1>7
<1>8. CASE \E f \in Finishers : Claim(f)
  BY <1>5, <1>8
<1>9. CASE \E f \in Finishers : MarkDone(f)
  BY <1>6, <1>9
<1> QED
  BY <1>1, <1>2, <1>3, <1>4, <1>7, <1>8, <1>9 DEF Next, vars

\* finishAsyncDelivery: the first end of a job stands, in every behaviour.
THEOREM OneEndHolds == Spec => OneEnd
<1>1. IInv /\ [Next]_vars =>
        [\A r \in Requests : terminal[r].outcome # "none" =>
           /\ terminal'[r].outcome = terminal[r].outcome
           /\ terminal[r].done => terminal'[r].done]_vars
  BY EndKept DEF IInv
<1> QED
  BY <1>1, Invariance, PTL DEF Spec, OneEnd

\* A live lock changes hands only through the release of its own holder.
LEMMA LateRelease ==
  ASSUME TypeOK, [Next]_vars, lock.live, lock'.id # lock.id
  PROVE  \E p \in Procs : pc[p] = "release" /\ pc'[p] # "release" /\ Of(p) = lock.id
<1> USE DEF store
<1>1. ASSUME NEW x \in Requests, RequestStep(x) PROVE UNCHANGED lock
  BY <1>1 DEF RequestStep, Lock, AcquireLock, LockBusy, ReadPrevious, VerifyRefused, Verify,
       VerifyUncaptured,
     VerifyThrows, Accepted, CacheHit, JobStored, JobUnbound, Answer, Answered, Delivered,
     JobUnstored, RefundThrows, FailedVoucher, FailedClose, RollbackThrows
<1>2. ASSUME NEW f \in Finishers, FinisherStep(f)
      PROVE  UNCHANGED lock
  BY <1>2 DEF FinisherStep, SeeEnd, Claim, ClaimRefused, ClaimRetry, RefundJob, MarkDone
<1>3. ASSUME NEW p \in Procs, Rollback(p) \/ Die(p) PROVE UNCHANGED lock
  BY <1>3 DEF Rollback, Undo, UndoOvertaken, Erase, RereadWatermark, RereadChallenge,
       Reread, Die
<1>4. LockExpires => lock'.id = lock.id
  BY DEF LockExpires, ExpireLock, TypeOK, StoreTypeOK
<1>5. \E p \in Procs : Release(p)
  BY <1>1, <1>2, <1>3, <1>4 DEF Next, vars
<1> QED
  BY <1>5 DEF Release, ReleaseLock, Go, TypeOK

\* releaseChannelDeliveryLock: a late release never deletes the lock of another.
THEOREM LateReleaseHarmlessHolds == Spec => LateReleaseHarmless
<1>1. IInv /\ [Next]_vars =>
        [lock.live /\ lock'.id # lock.id =>
           \E p \in Procs : pc[p] = "release" /\ pc'[p] # "release" /\ Of(p) = lock.id]_vars
  BY LateRelease DEF IInv
<1> QED
  BY <1>1, Invariance, PTL DEF Spec, LateReleaseHarmless

-----------------------------------------------------------------------------
(* The playground's payment channels.  Play is the component's instance;   *)
(* first the facts about finite sets, for the instance's own Cardinality.  *)

LEMMA PlayCardinality == \A S : Play!Cardinality(S) = Cardinality(S)
  BY DEF Play!Cardinality, Cardinality

LEMMA PlayCardinalityType ==
    ASSUME NEW S, IsFiniteSet(S) PROVE Play!Cardinality(S) \in Nat
  BY PlayCardinality, FS_CardinalityType

LEMMA PlayEmptySet ==
    /\ Play!Cardinality({}) = 0
    /\ \A S : IsFiniteSet(S) /\ Play!Cardinality(S) = 0 => S = {}
  BY PlayCardinality, FS_EmptySet

LEMMA PlaySubset ==
    ASSUME NEW S, IsFiniteSet(S), NEW T \in SUBSET S
    PROVE  IsFiniteSet(T) /\ Play!Cardinality(T) <= Play!Cardinality(S)
  BY PlayCardinality, FS_Subset

LEMMA PlayAddElement ==
    ASSUME NEW S, IsFiniteSet(S), NEW x, x \notin S
    PROVE  IsFiniteSet(S \cup {x}) /\ Play!Cardinality(S \cup {x}) = Play!Cardinality(S) + 1
  BY PlayCardinality, FS_AddElement

LEMMA PlayRemoveElement ==
    ASSUME NEW S, IsFiniteSet(S), NEW x \in S
    PROVE  IsFiniteSet(S \ {x}) /\ Play!Cardinality(S \ {x}) = Play!Cardinality(S) - 1
  BY PlayCardinality, FS_RemoveElement

LEMMA PlayBelowSmall ==
    ASSUME NEW S, IsFiniteSet(S), NEW T \in SUBSET S, NEW N, NEW M, \A c \in T : M[c] = N[c], NEW x
    PROVE  /\ Play!Cardinality(T) \in Nat /\ Play!Cardinality(S) \in Nat
              /\ Play!Cardinality(T) <= Play!Cardinality(S)
           /\ Play!Cardinality(Play!Below(T, M, x)) \in Nat
              /\ Play!Cardinality(Play!Below(S, N, x)) \in Nat
           /\ Play!Cardinality(Play!Below(T, M, x)) <= Play!Cardinality(Play!Below(S, N, x))
           /\ Play!Cardinality(Play!Below(S, N, x)) <= Play!Cardinality(S)
<1>1. Play!Below(T, M, x) \subseteq Play!Below(S, N, x) /\ Play!Below(S, N, x) \subseteq S
      /\ T \subseteq S
  BY DEF Play!Below
<1>2. IsFiniteSet(Play!Below(S, N, x)) /\ Play!Cardinality(Play!Below(S, N, x)) <= Play!Cardinality(S)
  BY <1>1, PlaySubset
<1>3. IsFiniteSet(Play!Below(T, M, x)) /\ Play!Cardinality(Play!Below(T, M, x))
      <= Play!Cardinality(Play!Below(S, N, x))
  BY <1>1, <1>2, PlaySubset
<1>4. IsFiniteSet(T) /\ Play!Cardinality(T) <= Play!Cardinality(S)
  BY PlaySubset
<1>. QED BY <1>2, <1>3, <1>4, PlayCardinalityType

LEMMA PlayOrderedShrinks ==
    ASSUME NEW R, NEW V, NEW N, NEW P, NEW m, NEW Q \in SUBSET R, NEW W \in SUBSET V, NEW M, NEW O,
           \A c \in Q : M[c] = N[c] /\ O[c] = P[c], \A v \in W : O[v] = P[v],
           Play!Ordered(R, V, N, P, m)
    PROVE  Play!Ordered(Q, W, M, O, m)
  BY DEF Play!Ordered

LEMMA PlayFloorShrinks ==
    ASSUME NEW S, NEW R, NEW V, NEW N, NEW P, NEW m \in Nat, NEW t \in Nat, NEW f \in Nat,
           NEW T \in SUBSET S, NEW Q \in SUBSET R, NEW W \in SUBSET V, NEW M, NEW O,
           IsFiniteSet(S), \A c \in T : M[c] = N[c],
           \A c \in Q : M[c] = N[c] /\ O[c] = P[c], \A v \in W : O[v] = P[v],
           \A c \in R : N[c] \in Nat /\ P[c] \in Nat, \A v \in V : P[v] \in Nat,
           Play!Floor(S, R, V, N, P, m, t, f)
    PROVE  Play!Floor(T, Q, W, M, O, m, t, f)
<1>1. \A x : /\ Play!Cardinality(Play!Below(T, M, x)) \in Nat
                /\ Play!Cardinality(Play!Below(S, N, x)) \in Nat
             /\ Play!Cardinality(Play!Below(T, M, x)) <= Play!Cardinality(Play!Below(S, N, x))
  BY PlayBelowSmall
<1>2. Play!Cardinality(T) \in Nat /\ Play!Cardinality(S) \in Nat
      /\ Play!Cardinality(T) <= Play!Cardinality(S)
  BY PlayBelowSmall
<1>3. f <= m /\ t + Play!Cardinality(T) <= m /\ t + Play!Cardinality(Play!Below(T, M, f)) <= f
  BY <1>1, <1>2 DEF Play!Floor
<1>4. \A v \in W : f <= O[v] /\ t + Play!Cardinality(T) <= O[v]
  BY <1>2 DEF Play!Floor
<1>5. ASSUME NEW r \in Q
      PROVE  /\ M[r] # f
             /\ M[r] > f => /\ f <= O[r] /\ t + Play!Cardinality(Play!Below(T, M, M[r])) <= O[r]
                            /\ t + Play!Cardinality(Play!Below(T, M, M[r])) < M[r]
  <2>1. r \in R /\ M[r] = N[r] /\ O[r] = P[r] /\ N[r] \in Nat /\ P[r] \in Nat
    BY <1>5
  <2>2. /\ N[r] # f
        /\ N[r] > f => /\ f <= P[r] /\ t + Play!Cardinality(Play!Below(S, N, N[r])) <= P[r]
                       /\ t + Play!Cardinality(Play!Below(S, N, N[r])) < N[r]
    BY <2>1 DEF Play!Floor
  <2>3. /\ Play!Cardinality(Play!Below(T, M, N[r])) \in Nat
           /\ Play!Cardinality(Play!Below(S, N, N[r])) \in Nat
        /\ Play!Cardinality(Play!Below(T, M, N[r])) <= Play!Cardinality(Play!Below(S, N, N[r]))
    BY <1>1
  <2>. QED BY <2>1, <2>2, <2>3
<1>. QED BY <1>3, <1>4, <1>5 DEF Play!Floor

\* A unit becomes final: call c leaves S and R, and its voucher raises f.
LEMMA PlayFloorTakes ==
    ASSUME NEW S, NEW R, NEW V, NEW N, NEW P, NEW m \in Nat, NEW t \in Nat, NEW f \in Nat,
           IsFiniteSet(S), S \subseteq R, NEW c \in S,
           \A d \in R : N[d] \in Nat /\ P[d] \in Nat, \A v \in V : P[v] \in Nat,
           Play!Ordered(R, V, N, P, m), Play!Floor(S, R, V, N, P, m, t, f)
    PROVE  Play!Floor(S \ {c}, R \ {c}, V, N, P, m, t + 1, IF N[c] > f THEN N[c] ELSE f)
<1>. DEFINE g == IF N[c] > f THEN N[c] ELSE f
<1>1. c \in R /\ N[c] \in Nat /\ P[c] \in Nat /\ N[c] <= m /\ N[c] # f
  BY DEF Play!Ordered, Play!Floor
<1>2. g \in Nat /\ g <= m /\ f <= g /\ N[c] <= g
  BY <1>1 DEF Play!Floor
<1>3. Play!Cardinality(S \ {c}) = Play!Cardinality(S) - 1 /\ Play!Cardinality(S) \in Nat
  BY PlayRemoveElement, PlayCardinalityType
<1>4. ASSUME NEW x \in Nat
      PROVE  /\ Play!Cardinality(Play!Below(S, N, x)) \in Nat
             /\ N[c] < x => /\ Play!Cardinality(Play!Below(S, N, x)) > 0
                            /\ Play!Cardinality(Play!Below(S \ {c}, N, x))
                               = Play!Cardinality(Play!Below(S, N, x)) - 1
             /\ ~(N[c] < x) => Play!Cardinality(Play!Below(S \ {c}, N, x))
                = Play!Cardinality(Play!Below(S, N, x))
  <2>1. IsFiniteSet(Play!Below(S, N, x))
    BY PlaySubset DEF Play!Below
  <2>2. CASE N[c] < x
    <3>1. c \in Play!Below(S, N, x) /\ Play!Below(S \ {c}, N, x) = Play!Below(S, N, x) \ {c}
      BY <2>2 DEF Play!Below
    <3>2. Play!Cardinality(Play!Below(S, N, x) \ {c}) = Play!Cardinality(Play!Below(S, N, x)) - 1
      BY <2>1, <3>1, PlayRemoveElement
    <3>3. Play!Cardinality(Play!Below(S, N, x)) # 0
      BY <2>1, <3>1, PlayEmptySet
    <3>4. Play!Cardinality(Play!Below(S, N, x)) \in Nat
      BY <2>1, PlayCardinalityType
    <3>5. Play!Cardinality(Play!Below(S \ {c}, N, x)) = Play!Cardinality(Play!Below(S, N, x)) - 1
      BY <3>1, <3>2
    <3>. QED BY <2>2, <3>3, <3>4, <3>5
  <2>3. CASE ~(N[c] < x)
    <3>1. Play!Below(S \ {c}, N, x) = Play!Below(S, N, x)
      BY <2>3 DEF Play!Below
    <3>. QED BY <2>1, <2>3, <3>1, PlayCardinalityType
  <2>. QED BY <2>2, <2>3
<1>5. t + Play!Cardinality(Play!Below(S, N, f)) <= f
  BY DEF Play!Floor
<1>6. t + 1 + Play!Cardinality(Play!Below(S \ {c}, N, g)) <= g
  <2>1. CASE N[c] > f
    <3>1. t + Play!Cardinality(Play!Below(S, N, N[c])) < N[c]
      BY <1>1, <2>1 DEF Play!Floor
    <3>2. /\ Play!Cardinality(Play!Below(S, N, N[c])) \in Nat
          /\ Play!Cardinality(Play!Below(S \ {c}, N, N[c])) = Play!Cardinality(Play!Below(S, N, N[c]))
      <4>1. N[c] \in Nat /\ ~(N[c] < N[c])
        BY <1>1
      <4>. QED BY <4>1, <1>4
    <3>3. g = N[c]
      BY <2>1
    <3>. HIDE DEF g
    <3>. QED BY <1>1, <3>1, <3>2, <3>3
  <2>2. CASE ~(N[c] > f)
    <3>1. N[c] < f /\ g = f
      BY <1>1, <2>2
    <3>2. /\ Play!Cardinality(Play!Below(S, N, f)) \in Nat
          /\ Play!Cardinality(Play!Below(S \ {c}, N, f)) = Play!Cardinality(Play!Below(S, N, f)) - 1
      BY <1>4, <3>1
    <3>. HIDE DEF g
    <3>. QED BY <1>5, <3>1, <3>2
  <2>. QED BY <2>1, <2>2
<1>7. t + 1 + Play!Cardinality(S \ {c}) <= m
  BY <1>3 DEF Play!Floor
<1>8. ASSUME NEW v \in V PROVE g <= P[v] /\ t + 1 + Play!Cardinality(S \ {c}) <= P[v]
  <2>1. f <= P[v] /\ t + Play!Cardinality(S) <= P[v] /\ N[c] <= P[v] /\ P[v] \in Nat
    BY <1>1, <1>8 DEF Play!Floor, Play!Ordered
  <2>. QED BY <1>3, <2>1
<1>9. ASSUME NEW r \in R \ {c}
      PROVE  /\ N[r] # g
             /\ N[r] > g => /\ g <= P[r] /\ t + 1 + Play!Cardinality(Play!Below(S \ {c}, N, N[r]))
                               <= P[r]
                            /\ t + 1 + Play!Cardinality(Play!Below(S \ {c}, N, N[r])) < N[r]
  <2>1. N[r] \in Nat /\ P[r] \in Nat /\ N[r] # N[c] /\ N[r] # f
    BY <1>1, <1>9 DEF Play!Ordered, Play!Floor
  <2>2. N[r] > f => /\ f <= P[r] /\ t + Play!Cardinality(Play!Below(S, N, N[r])) <= P[r]
                    /\ t + Play!Cardinality(Play!Below(S, N, N[r])) < N[r]
    BY <1>9 DEF Play!Floor
  <2>3. N[c] < N[r] => N[c] <= P[r]
    BY <1>1, <1>9 DEF Play!Ordered
  <2>4. /\ Play!Cardinality(Play!Below(S, N, N[r])) \in Nat
        /\ N[c] < N[r] => Play!Cardinality(Play!Below(S \ {c}, N, N[r]))
           = Play!Cardinality(Play!Below(S, N, N[r])) - 1
    BY <1>4, <2>1
  <2>. QED BY <1>1, <1>2, <2>1, <2>2, <2>3, <2>4
<1>. HIDE DEF g
<1>10. Play!Floor(S \ {c}, R \ {c}, V, N, P, m, t + 1, g)
  BY <1>2, <1>6, <1>7, <1>8, <1>9 DEF Play!Floor
<1>. QED BY <1>10 DEF g

\* A voucher is accepted: e joins R, and S if it may become final.
LEMMA PlayFloorAccepts ==
    ASSUME NEW S, NEW R, NEW V, NEW N, NEW P, NEW m \in Nat, NEW t \in Nat, NEW f \in Nat,
           IsFiniteSet(S), S \subseteq R, NEW e \in V, e \notin R, N[e] \in Nat, N[e] > m,
           \A d \in R : N[d] \in Nat /\ P[d] \in Nat, \A v \in V : P[v] \in Nat,
           Play!Ordered(R, V, N, P, m), Play!Floor(S, R, V, N, P, m, t, f)
    PROVE  /\ Play!Ordered(R \cup {e}, {}, N, P, N[e])
           /\ Play!Floor(S \cup {e}, R \cup {e}, {}, N, P, N[e], t, f)
<1>1. Play!Ordered(R \cup {e}, {}, N, P, N[e])
  <2>1. \A c \in R : 0 < N[c] /\ N[c] <= m /\ N[c] <= P[e] /\ N[c] \in Nat
    BY DEF Play!Ordered
  <2>2. \A c \in R : 0 < N[c] /\ N[c] < N[e] /\ N[c] <= P[e]
    BY <2>1
  <2>3. \A c, d \in R : /\ c # d => N[c] # N[d]
                        /\ N[c] < N[d] => N[c] <= P[d]
    BY DEF Play!Ordered
  <2>4. \A c, d \in R \cup {e} : c # d => N[c] # N[d]
    BY <2>2, <2>3
  <2>5. ASSUME NEW c \in R \cup {e}, NEW d \in R \cup {e}, N[c] < N[d] PROVE N[c] <= P[d]
    BY <2>2, <2>3, <2>5
  <2>6. \A c \in R \cup {e} : 0 < N[c] /\ N[c] <= N[e]
    BY <2>2
  <2>. QED BY <2>4, <2>5, <2>6 DEF Play!Ordered
<1>2. e \notin S /\ Play!Cardinality(S \cup {e}) = Play!Cardinality(S) + 1
      /\ Play!Cardinality(S) \in Nat
  BY PlayAddElement, PlayCardinalityType
<1>3. ASSUME NEW x \in Nat, x <= N[e]
      PROVE  Play!Below(S \cup {e}, N, x) = Play!Below(S, N, x)
  BY <1>3 DEF Play!Below
<1>4. /\ f <= m /\ t + Play!Cardinality(S) <= m /\ t + Play!Cardinality(Play!Below(S, N, f)) <= f
      /\ f <= P[e] /\ t + Play!Cardinality(S) <= P[e] /\ P[e] \in Nat
  BY DEF Play!Floor
<1>5. f <= N[e] /\ t + Play!Cardinality(S \cup {e}) <= N[e]
      /\ t + Play!Cardinality(Play!Below(S \cup {e}, N, f)) <= f
  BY <1>2, <1>3, <1>4
<1>6. ASSUME NEW r \in R \cup {e}
      PROVE  /\ N[r] # f
             /\ N[r] > f => /\ f <= P[r] /\ t + Play!Cardinality(Play!Below(S \cup {e}, N, N[r]))
                               <= P[r]
                            /\ t + Play!Cardinality(Play!Below(S \cup {e}, N, N[r])) < N[r]
  <2>1. CASE r = e
    <3>1. Play!Below(S \cup {e}, N, N[e]) = Play!Below(S, N, N[e])
      <4>1. N[e] \in Nat /\ N[e] <= N[e]
        OBVIOUS
      <4>. QED BY <4>1, <1>3
    <3>2. Play!Cardinality(Play!Below(S, N, N[e])) \in Nat
          /\ Play!Cardinality(Play!Below(S, N, N[e])) <= Play!Cardinality(S)
      BY PlayBelowSmall
    <3>. QED BY <1>2, <1>4, <2>1, <3>1, <3>2
  <2>2. CASE r \in R
    <3>1. N[r] \in Nat /\ N[r] <= m
      BY <2>2 DEF Play!Ordered
    <3>2. Play!Below(S \cup {e}, N, N[r]) = Play!Below(S, N, N[r])
      BY <1>3, <3>1
    <3>3. /\ N[r] # f
          /\ N[r] > f => /\ f <= P[r] /\ t + Play!Cardinality(Play!Below(S, N, N[r])) <= P[r]
                         /\ t + Play!Cardinality(Play!Below(S, N, N[r])) < N[r]
      BY <2>2 DEF Play!Floor
    <3>. QED BY <3>2, <3>3
  <2>. QED BY <1>6, <2>1, <2>2
<1>. QED BY <1>1, <1>5, <1>6 DEF Play!Floor

\* The newest voucher is taken back.
LEMMA PlayFloorRolls ==
    ASSUME NEW S, NEW R, NEW V, NEW N, NEW P, NEW m \in Nat, NEW t \in Nat, NEW f \in Nat,
           IsFiniteSet(S), S \subseteq R, NEW r \in R \ S, N[r] = m,
           \A d \in R : N[d] \in Nat /\ P[d] \in Nat, \A v \in V : P[v] \in Nat,
           Play!Ordered(R, V, N, P, m), Play!Floor(S, R, V, N, P, m, t, f)
    PROVE  /\ Play!Ordered(R \ {r}, V, N, P, P[r])
           /\ Play!Floor(S, R \ {r}, V, N, P, P[r], t, f)
<1>1. \A c \in R \ {r} : N[c] < N[r] /\ N[c] <= P[r]
  BY DEF Play!Ordered
<1>2. Play!Ordered(R \ {r}, V, N, P, P[r])
  BY <1>1 DEF Play!Ordered
<1>3. Play!Below(S, N, N[r]) = S
  BY <1>1 DEF Play!Below
<1>4. f < N[r] /\ f <= P[r] /\ t + Play!Cardinality(Play!Below(S, N, N[r])) <= P[r]
  BY DEF Play!Floor
<1>. QED BY <1>2, <1>3, <1>4 DEF Play!Floor

\* A watermark rises, or a call reads it.
LEMMA PlayFloorRaised ==
    ASSUME NEW S, NEW R, NEW V, NEW N, NEW P, NEW m \in Nat, NEW t \in Nat, NEW f \in Nat,
           IsFiniteSet(S), NEW k \in Nat, k >= m, \A d \in R : N[d] \in Nat,
           Play!Ordered(R, V, N, P, m), Play!Floor(S, R, V, N, P, m, t, f)
    PROVE  Play!Ordered(R, {}, N, P, k) /\ Play!Floor(S, R, {}, N, P, k, t, f)
<1>1. Play!Cardinality(S) \in Nat
  BY PlayCardinalityType
<1>2. Play!Ordered(R, {}, N, P, k)
  BY DEF Play!Ordered
<1>3. f <= k /\ t + Play!Cardinality(S) <= k
  BY <1>1 DEF Play!Floor
<1>. QED BY <1>2, <1>3 DEF Play!Floor

LEMMA PlayFloorRead ==
    ASSUME NEW S, NEW R, NEW V, NEW N, NEW P, NEW m \in Nat, NEW t \in Nat, NEW f \in Nat,
           NEW W, NEW O, \A d \in R : O[d] = P[d],
           \A v \in W : O[v] = m \/ (v \in V /\ O[v] = P[v]),
           Play!Ordered(R, V, N, P, m), Play!Floor(S, R, V, N, P, m, t, f)
    PROVE  Play!Ordered(R, W, N, O, m) /\ Play!Floor(S, R, W, N, O, m, t, f)
<1>1. Play!Ordered(R, W, N, O, m)
  BY DEF Play!Ordered
<1>2. Play!Floor(S, R, W, N, O, m, t, f)
  BY DEF Play!Floor
<1>. QED BY <1>1, <1>2

-----------------------------------------------------------------------------
(* What a step of a call leaves alone.                                     *)

LEMMA PlayTyped ==
    ASSUME Play!TypeOK, NEW c \in Requests
    PROVE  /\ playProc[c] \in Play!Locals /\ playProc[c].pc \in Play!Steps /\ playProc[c].n \in Nat
              /\ playProc[c].prev \in Nat
  BY DEF Play!TypeOK, Play!Locals

\* Only call c moves.
PlayMoved(c) == /\ playProc' \in [Requests -> Play!Locals]
                /\ \A d \in Requests \ {c} : playProc'[d] = playProc[d]

LEMMA PlayBecomesMoves ==
    ASSUME Play!TypeOK, NEW c \in Requests, NEW r \in Play!Locals,
           playProc' = [playProc EXCEPT ![c] = r]
    PROVE  PlayMoved(c) /\ playProc'[c] = r
  BY DEF Play!TypeOK, PlayMoved

LEMMA PlayIdleTyped == Play!Idle \in Play!Locals /\ Play!Idle.pc = "idle"
  BY DEF Play!Idle, Play!Locals, Play!Steps

LEMMA PlayEndMoves ==
    ASSUME Play!TypeOK, NEW c \in Requests, Play!End(c)
    PROVE  PlayMoved(c) /\ playProc'[c].pc = "idle"
<1>1. PlayMoved(c) /\ playProc'[c] = Play!Idle
  BY PlayIdleTyped, PlayBecomesMoves DEF Play!End
<1>. QED BY <1>1, PlayIdleTyped

LEMMA PlayGoMoves ==
    ASSUME Play!TypeOK, NEW c \in Requests, NEW l \in Play!Steps, Play!Go(c, l)
    PROVE  /\ PlayMoved(c) /\ playProc'[c].pc = l
           /\ playProc'[c].n = playProc[c].n /\ playProc'[c].prev = playProc[c].prev
<1>. DEFINE h == [playProc[c] EXCEPT !.pc = l]
<1>1. playProc[c] \in Play!Locals
  BY PlayTyped
<1>2. h \in Play!Locals /\ h.pc = l /\ h.n = playProc[c].n /\ h.prev = playProc[c].prev
  BY <1>1 DEF Play!Locals
<1>3. playProc' = [playProc EXCEPT ![c] = h]
  BY DEF Play!Go
<1>. HIDE DEF h
<1>. QED BY <1>2, <1>3, PlayBecomesMoves

\* The lock is taken when it is not live, and only its holder changes it
\* otherwise; only the holder at its store changes what is stored.
PlayCallEffect(c) ==
    /\ PlayMoved(c) /\ UNCHANGED <<playChain, playCron, playWrittenOff>>
    /\ playBlocked => playBlocked'
    /\ playSlips \subseteq playSlips'
    /\ playStored'.settled = playStored.settled /\ playStored'.cum >= playStored.cum
    /\ playStored' # playStored => playProc[c].pc = "persist"
    /\ playLock' # playLock => /\ playLock.id = c \/ ~playLock.live
                               /\ playLock'.id \in {c, Nobody}
                               /\ playLock'.id = c => playLock.id = c \/ playProc'[c].pc = "gate"
    /\ playProc'[c].pc = "persist" => playLock' = [id |-> c, live |-> TRUE]
    /\ playProc'[c].pc = "undo" => playBlocked'
    /\ playBlocked /\ playProc[c].pc \in Play!Outer => playProc'[c].pc \in Play!Outer

PlayShell == Play!Guarded /\ Play!Collected /\ Play!Recorded

LEMMA PlayCallShell ==
    ASSUME Play!TypeOK, Play!TypeOK', PlayShell, NEW c \in Requests, PlayCallEffect(c)
    PROVE  PlayShell'
<1>1. /\ Play!Guarded /\ Play!Collected /\ Play!Recorded
      /\ playCron' = playCron /\ playChain' = playChain /\ playWrittenOff' = playWrittenOff
      /\ Cron \notin Requests /\ Nobody \notin Requests /\ Nobody # Cron
  BY PlayConstants DEF PlayShell, PlayCallEffect
<1>2. \A d \in Requests \ {c} : playProc'[d] = playProc[d]
  BY DEF PlayCallEffect, PlayMoved
<1>3. ASSUME NEW d \in Requests
      PROVE  /\ playProc'[d].pc = "persist" => playLock' = [id |-> d, live |-> TRUE]
             /\ playProc'[d].pc = "undo" => playBlocked'
  <2>1. CASE d = c
    BY <2>1 DEF PlayCallEffect
  <2>2. CASE d # c
    BY <1>1, <1>2, <2>2 DEF PlayCallEffect, Play!Guarded, Play!At
  <2>. QED BY <2>1, <2>2
<1>4. playCron.pc = "mark" => playLock' = playLock /\ playLock = [id |-> Cron, live |-> TRUE]
  BY <1>1 DEF PlayCallEffect, Play!Guarded, Play!CronAt
<1>5. Play!Guarded'
  BY <1>1, <1>3, <1>4 DEF Play!Guarded, Play!At, Play!CronAt
<1>6. playLock.id # c => playStored' = playStored
  BY <1>1 DEF PlayCallEffect, Play!Guarded, Play!At
<1>7. playLock'.id = Cron => playLock.id = Cron /\ playStored' = playStored
  BY <1>1, <1>6 DEF PlayCallEffect
<1>8. Play!Sealed => Play!Sealed' /\ playStored' = playStored
  <2>1. SUFFICES ASSUME Play!Sealed PROVE Play!Sealed' /\ playStored' = playStored
    OBVIOUS
  <2>2. playBlocked /\ \A d \in Requests : playLock.id = d => playProc[d].pc \in Play!Outer
    BY <2>1 DEF Play!Sealed, Play!Own
  <2>3. playStored' = playStored
    BY <1>6, <2>2 DEF PlayCallEffect, Play!Outer
  <2>4. ASSUME NEW d \in Requests, playLock'.id = d PROVE playProc'[d].pc \in Play!Outer
    <3>1. CASE d = c
      BY <2>2, <2>4, <3>1 DEF PlayCallEffect, Play!Outer
    <3>2. CASE d # c
      BY <1>1, <1>2, <2>2, <2>4, <3>2 DEF PlayCallEffect
    <3>. QED BY <3>1, <3>2
  <2>. QED BY <2>2, <2>3, <2>4 DEF Play!Sealed, Play!Own, PlayCallEffect
<1>9. Play!Collected'
  BY <1>1, <1>4, <1>7, <1>8 DEF Play!Collected, Play!CronAt, Play!Own
<1>10. Play!Recorded'
  BY <1>1, <1>8 DEF Play!Recorded, Play!Collected, Play!CronAt, PlayCallEffect
<1>. QED BY <1>5, <1>9, <1>10 DEF PlayShell

-----------------------------------------------------------------------------
(* Play!Steps that count nothing and take nothing back.                         *)

LEMMA PlayFinite == /\ IsFiniteSet(Play!Charging) /\ IsFiniteSet(Play!Paying)
                    /\ Play!Charging \subseteq Play!Pending /\ Play!Paying \subseteq Play!Unpaid
                       /\ Play!Unpaid \subseteq Play!Pending
<1>1. Play!Charging \subseteq Requests /\ Play!Paying \subseteq Requests
  BY DEF Play!Charging, Play!Paying
<1>2. IsFiniteSet(Play!Charging) /\ IsFiniteSet(Play!Paying)
  BY <1>1, PlayConstants, PlaySubset
<1>. QED BY <1>2 DEF Play!Charging, Play!Paying, Play!Pending, Play!Unpaid, Play!ToCharge,
     Play!ToEnd, Play!ToPay, Play!ToReverse

LEMMA PlayNumbers ==
    ASSUME Play!TypeOK
    PROVE  /\ \A c \in Requests : Play!Asked[c] = playProc[c].n /\ Play!Read[c] = playProc[c].prev
           /\ \A c \in Requests : Play!Asked[c] \in Nat /\ Play!Read[c] \in Nat
           /\ Play!Charging \subseteq Requests /\ Play!Pending \subseteq Requests
              /\ Play!Paying \subseteq Requests
           /\ Play!Unpaid \subseteq Requests /\ Play!Verifying \subseteq Requests
  BY PlayTyped DEF Play!Asked, Play!Read, Play!Charging, Play!Pending, Play!Paying, Play!Unpaid,
       Play!Verifying

\* What was counted stays counted when the sets shrink.
LEMMA PlayCountShrinks ==
    ASSUME Play!TypeOK, Play!TypeOK', Play!Counted,
           Play!Pending' \subseteq Play!Pending, Play!Charging' \subseteq Play!Charging,
           Play!Paying' \subseteq Play!Paying,
           Play!Unpaid' \subseteq Play!Unpaid, Play!Verifying' \subseteq Play!Verifying,
           \A c \in Play!Pending' : playProc'[c].n = playProc[c].n
           /\ playProc'[c].prev = playProc[c].prev,
           \A c \in Play!Verifying' : playProc'[c].prev = playProc[c].prev,
           playMark' = playMark, playPaid' = playPaid, playCharged' = playCharged,
           playStored'.cum >= playStored.cum,
           playBlocked => playBlocked'
    PROVE  Play!Counted'
<1>1. /\ \A c \in Play!Pending' : Play!Asked'[c] = Play!Asked[c] /\ Play!Read'[c] = Play!Read[c]
      /\ \A c \in Play!Verifying' : Play!Read'[c] = Play!Read[c]
      /\ Play!Charging' \subseteq Play!Pending' /\ Play!Paying' \subseteq Play!Pending'
         /\ Play!Unpaid' \subseteq Play!Pending'
  <2>1. \A c \in Requests : Play!Asked'[c] = playProc'[c].n /\ Play!Read'[c] = playProc'[c].prev
    BY DEF Play!Asked, Play!Read
  <2>2. Play!Pending' \subseteq Requests /\ Play!Verifying' \subseteq Requests
    BY DEF Play!Pending, Play!Verifying
  <2>3. Play!Charging' \subseteq Play!Pending' /\ Play!Paying' \subseteq Play!Pending'
        /\ Play!Unpaid' \subseteq Play!Pending'
    BY DEF Play!Charging, Play!Pending, Play!Paying, Play!Unpaid, Play!ToCharge, Play!ToEnd,
         Play!ToPay, Play!ToReverse
  <2>. QED BY <2>1, <2>2, <2>3, PlayNumbers
<1>2. Play!Ordered(Play!Pending, Play!Verifying, Play!Asked, Play!Read, playMark)'
  BY <1>1, PlayOrderedShrinks DEF Play!Counted
<1>3. playMark \in Nat /\ playPaid \in Nat /\ playCharged \in Nat /\ playStored.cum \in Nat
      /\ playStored'.cum \in Nat
  BY DEF Play!TypeOK
<1>4. PICK f \in 0 .. playMark : f <= playStored.cum
                                 /\ Play!Floor(Play!Charging, Play!Pending, Play!Verifying, Play!Asked,
                                               Play!Read, playMark, playCharged, f)
  BY DEF Play!Counted
<1>5. Play!Floor(Play!Charging, Play!Pending, Play!Verifying, Play!Asked, Play!Read, playMark,
                 playCharged, f)'
  BY <1>1, <1>3, <1>4, PlayFinite, PlayNumbers, PlayFloorShrinks
<1>6. f \in 0 .. playMark' /\ f <= playStored'.cum
  BY <1>3, <1>4
<1>7. ASSUME ~playBlocked'
      PROVE  \E g \in 0 .. playMark' : Play!Floor(Play!Paying', Play!Unpaid', Play!Verifying',
                                                  Play!Asked', Play!Read', playMark', playPaid', g)
  <2>1. PICK g \in 0 .. playMark : Play!Floor(Play!Paying, Play!Unpaid, Play!Verifying, Play!Asked,
                                              Play!Read, playMark, playPaid, g)
    BY <1>7 DEF Play!Counted
  <2>2. Play!Floor(Play!Paying, Play!Unpaid, Play!Verifying, Play!Asked, Play!Read, playMark, playPaid,
                   g)'
    BY <1>1, <1>3, <2>1, PlayFinite, PlayNumbers, PlayFloorShrinks
  <2>. QED BY <2>1, <2>2
<1>. QED BY <1>2, <1>5, <1>6, <1>7 DEF Play!Counted

\* The same of a call that goes on.
PlayShrinks(c) ==
    /\ playMark' = playMark /\ playPaid' = playPaid /\ playCharged' = playCharged
    /\ \A L \in {Play!ToCharge, Play!ToEnd, Play!ToPay, Play!ToReverse,
                 {"verify"}} : playProc'[c].pc \in L => playProc[c].pc \in L
    /\ playProc'[c].pc \in Play!ToEnd \cup {"verify"} => /\ playProc'[c].n = playProc[c].n
                                                            /\ playProc'[c].prev = playProc[c].prev
                                                         /\ playLock'.id = c => playLock.id = c

LEMMA PlayCallShrinks ==
    ASSUME Play!TypeOK, Play!TypeOK', Play!Counted, NEW c \in Requests, PlayCallEffect(c),
           PlayShrinks(c)
    PROVE  Play!Counted'
<1>1. \A d \in Requests \ {c} : playProc'[d] = playProc[d] /\ (playLock'.id = d => playLock.id = d)
  BY PlayConstants DEF PlayCallEffect, PlayMoved
<1>2. /\ playProc'[c].pc \in Play!ToCharge => playProc[c].pc \in Play!ToCharge
      /\ playProc'[c].pc \in Play!ToEnd => playProc[c].pc \in Play!ToEnd
      /\ playProc'[c].pc \in Play!ToPay => playProc[c].pc \in Play!ToPay
      /\ playProc'[c].pc \in Play!ToReverse => playProc[c].pc \in Play!ToReverse
      /\ playProc'[c].pc = "verify" => playProc[c].pc = "verify"
         /\ (playLock'.id = c => playLock.id = c)
      /\ playProc'[c].pc \in Play!ToEnd \/ playProc'[c].pc = "verify"
            => playProc'[c].n = playProc[c].n /\ playProc'[c].prev = playProc[c].prev
  BY DEF PlayShrinks
<1>3. /\ Play!Pending' \subseteq Play!Pending /\ Play!Charging' \subseteq Play!Charging
         /\ Play!Paying' \subseteq Play!Paying
      /\ Play!Unpaid' \subseteq Play!Unpaid /\ Play!Verifying' \subseteq Play!Verifying
  BY <1>1, <1>2 DEF Play!Pending, Play!Charging, Play!Paying, Play!Unpaid, Play!Verifying
<1>4. /\ \A d \in Play!Pending' : playProc'[d].n = playProc[d].n /\ playProc'[d].prev = playProc[d].prev
      /\ \A d \in Play!Verifying' : playProc'[d].prev = playProc[d].prev
  BY <1>1, <1>2 DEF Play!Pending, Play!Verifying
<1>. QED BY <1>3, <1>4, PlayCountShrinks DEF PlayShrinks, PlayCallEffect
-----------------------------------------------------------------------------
(* The steps of a call.                                                    *)

LEMMA PlayCallTypes ==
    ASSUME Play!TypeOK, NEW c \in Requests, PlayMoved(c),
           UNCHANGED <<playReg, playChain, playCron, playTold, playWrittenOff>>,
           playLock' \in [id : Requests \cup {Cron, Nobody}, live : BOOLEAN],
           playMark' \in Nat, playStored' \in [cum : Nat, settled : Nat], playBlocked' \in BOOLEAN,
           playPaid' \in Nat, playCharged' \in Nat, playSlips' \subseteq {"overtaken", "unmarked"},
           playLeft' \in Nat
    PROVE  Play!TypeOK'
  BY DEF Play!TypeOK, PlayMoved

LEMMA PlayQuietTypes ==
    ASSUME Play!TypeOK, NEW c \in Requests, PlayMoved(c), Play!NoMoney, Play!Only,
           playLock' \in [id : Requests \cup {Cron, Nobody}, live : BOOLEAN]
    PROVE  Play!TypeOK'
  BY PlayCallTypes DEF Play!TypeOK, Play!NoMoney, Play!Only, Play!money, Play!past

LEMMA PlayLockTyped ==
    ASSUME Play!TypeOK, NEW c \in Requests \cup {Cron}
    PROVE  /\ Play!Acquire(c) \/ Play!Renew(c) \/ Play!Drop(c) \/ UNCHANGED playLock
                 => playLock' \in [id : Requests \cup {Cron, Nobody}, live : BOOLEAN]
           /\ Play!Renew(c) => IF playLock.id = c THEN playLock' = [id |-> c, live |-> TRUE]
              ELSE playLock' = playLock
           /\ Play!Drop(c) => IF playLock.id = c THEN playLock' = [id |-> Nobody, live |-> FALSE]
              ELSE playLock' = playLock
<1>. DEFINE T == [id : Requests \cup {Cron, Nobody}, live : BOOLEAN]
<1>1. playLock \in T /\ [id |-> c, live |-> TRUE] \in T /\ [id |-> Nobody, live |-> FALSE] \in T
  BY DEF Play!TypeOK
<1>. HIDE DEF T
<1>2. Play!Acquire(c) \/ Play!Renew(c) \/ Play!Drop(c) \/ UNCHANGED playLock => playLock' \in T
  BY <1>1 DEF Play!Acquire, Play!Renew, Play!Drop
<1>3. Play!Renew(c) => IF playLock.id = c THEN playLock' = [id |-> c, live |-> TRUE]
      ELSE playLock' = playLock
  BY DEF Play!Renew, Play!Own
<1>4. Play!Drop(c) => IF playLock.id = c THEN playLock' = [id |-> Nobody, live |-> FALSE]
      ELSE playLock' = playLock
  BY DEF Play!Drop, Play!Own
<1>. QED BY <1>2, <1>3, <1>4 DEF T

LEMMA PlayRequestStep ==
    ASSUME Play!TypeOK, NEW c \in Requests, Play!Request(c)
    PROVE  Play!TypeOK' /\ PlayCallEffect(c) /\ PlayShrinks(c)
<1>. DEFINE h == [Play!Idle EXCEPT !.pc = "lock", !.n = playMark + 1]
<1>1. playMark \in Nat /\ playLeft \in Nat
  BY DEF Play!TypeOK
<1>2. Play!Idle \in [pc : Play!Steps, n : Nat, prev : Nat] /\ playMark + 1 \in Nat
  BY <1>1, PlayIdleTyped DEF Play!Locals
<1>8. h \in Play!Locals /\ h.pc = "lock"
  BY <1>2 DEF Play!Locals, Play!Steps
<1>. HIDE DEF h
<1>3. playProc' = [playProc EXCEPT ![c] = h]
  BY DEF Play!Request, h
<1>4. PlayMoved(c) /\ playProc'[c].pc = "lock" /\ playProc[c].pc = "idle"
  BY <1>3, <1>8, PlayBecomesMoves DEF Play!Request, Play!At
<1>5. UNCHANGED <<playReg, playLock, playMark, playStored, playBlocked, playChain, playCron, playTold,
                  playWrittenOff, playPaid, playCharged, playSlips>>
      /\ playLeft' \in Nat
  BY <1>1 DEF Play!Request, Play!NoMoney, Play!money, Play!past
<1>6. Play!TypeOK'
  BY <1>4, <1>5, PlayCallTypes DEF Play!TypeOK
<1>7. playStored.cum \in Nat
  BY DEF Play!TypeOK
<1>. QED BY <1>4, <1>5, <1>6, <1>7 DEF PlayCallEffect, PlayShrinks, Play!Outer, Play!ToCharge,
     Play!ToEnd, Play!ToPay, Play!ToReverse

LEMMA PlayLockStep ==
    ASSUME Play!TypeOK, NEW c \in Requests, Play!Lock(c)
    PROVE  Play!TypeOK' /\ PlayCallEffect(c) /\ PlayShrinks(c)
<1>1. /\ playProc[c].pc = "lock" /\ playStored.cum \in Nat
      /\ UNCHANGED <<playMark, playStored, playBlocked, playPaid, playCharged, playSlips, playReg,
                     playChain, playCron, playTold, playWrittenOff, playLeft>>
  BY DEF Play!Lock, Play!At, Play!NoMoney, Play!Only, Play!money, Play!past, Play!TypeOK
<1>2. CASE Play!Acquire(c) /\ Play!Go(c, "gate")
  <2>1. PlayMoved(c) /\ playProc'[c].pc = "gate"
    BY <1>2, PlayGoMoves DEF Play!Steps
  <2>2. Play!TypeOK'
    BY <1>2, <2>1, PlayLockTyped, PlayQuietTypes DEF Play!Lock
  <2>. QED BY <1>1, <1>2, <2>1, <2>2 DEF Play!Acquire, PlayCallEffect, PlayShrinks, Play!Outer,
       Play!ToCharge, Play!ToEnd, Play!ToPay, Play!ToReverse
<1>3. CASE Play!End(c) /\ UNCHANGED playLock
  <2>1. PlayMoved(c) /\ playProc'[c].pc = "idle"
    BY <1>3, PlayEndMoves
  <2>2. Play!TypeOK'
    BY <1>3, <2>1, PlayLockTyped, PlayQuietTypes DEF Play!Lock
  <2>. QED BY <1>1, <1>3, <2>1, <2>2 DEF PlayCallEffect, PlayShrinks, Play!Outer, Play!ToCharge,
       Play!ToEnd, Play!ToPay, Play!ToReverse
<1>. QED BY <1>2, <1>3 DEF Play!Lock

LEMMA PlayGateStep ==
    ASSUME Play!TypeOK, NEW c \in Requests, Play!Gate(c)
    PROVE  Play!TypeOK' /\ PlayCallEffect(c) /\ PlayShrinks(c)
<1>1. /\ playProc[c].pc = "gate" /\ playStored.cum \in Nat /\ UNCHANGED playLock
      /\ UNCHANGED <<playMark, playStored, playBlocked, playPaid, playCharged, playSlips, playReg,
                     playChain, playCron, playTold, playWrittenOff, playLeft>>
  BY DEF Play!Gate, Play!At, Play!NoMoney, Play!Only, Play!money, Play!past, Play!TypeOK
<1>2. PICK l : l = IF playBlocked THEN "release" ELSE "guard"
  OBVIOUS
<1>3. l \in Play!Steps /\ Play!Go(c, l)
  BY <1>2 DEF Play!Steps, Play!Gate
<1>4. PlayMoved(c) /\ playProc'[c].pc = l
  BY <1>3, PlayGoMoves
<1>5. Play!TypeOK'
  BY <1>1, <1>4, PlayLockTyped, PlayQuietTypes DEF Play!Gate
<1>. QED BY <1>1, <1>2, <1>4, <1>5 DEF PlayCallEffect, PlayShrinks, Play!Outer, Play!ToCharge,
     Play!ToEnd, Play!ToPay, Play!ToReverse

LEMMA PlayRevalidateStep ==
    ASSUME Play!TypeOK, NEW c \in Requests, Play!Revalidate(c)
    PROVE  Play!TypeOK' /\ PlayCallEffect(c) /\ PlayShrinks(c)
<1>1. /\ playProc[c].pc = "accepted" /\ playStored.cum \in Nat
      /\ UNCHANGED <<playMark, playStored, playBlocked, playPaid, playCharged, playSlips, playReg,
                     playChain, playCron, playTold, playWrittenOff, playLeft>>
  BY DEF Play!Revalidate, Play!At, Play!NoMoney, Play!Only, Play!money, Play!past, Play!TypeOK
<1>2. PICK l : l = IF Play!Own(c) THEN "pay" ELSE "reverse"
  OBVIOUS
<1>3. l \in Play!Steps /\ Play!Go(c, l)
  BY <1>2 DEF Play!Steps, Play!Revalidate
<1>4. PlayMoved(c) /\ playProc'[c].pc = l /\ playProc'[c].n = playProc[c].n
      /\ playProc'[c].prev = playProc[c].prev
  BY <1>3, PlayGoMoves
<1>5. Play!Renew(c)
  BY DEF Play!Revalidate
<1>6. Play!TypeOK'
  BY <1>4, <1>5, PlayLockTyped, PlayQuietTypes DEF Play!Revalidate
<1>7. IF playLock.id = c THEN playLock' = [id |-> c, live |-> TRUE] ELSE playLock' = playLock
  BY <1>5, PlayLockTyped
<1>. QED BY <1>1, <1>2, <1>4, <1>6, <1>7 DEF PlayCallEffect, PlayShrinks, Play!Outer, Play!ToCharge,
     Play!ToEnd, Play!ToPay, Play!ToReverse

LEMMA PlayCommitStep ==
    ASSUME Play!TypeOK, NEW c \in Requests, Play!Commit(c)
    PROVE  Play!TypeOK' /\ PlayCallEffect(c) /\ PlayShrinks(c)
<1>1. /\ playProc[c].pc = "paid" /\ playStored.cum \in Nat
      /\ UNCHANGED <<playMark, playStored, playBlocked, playPaid, playCharged, playSlips, playReg,
                     playChain, playCron, playTold, playWrittenOff, playLeft>>
  BY DEF Play!Commit, Play!At, Play!NoMoney, Play!Only, Play!money, Play!past, Play!TypeOK
<1>2. PICK l : l = IF Play!Own(c) THEN "persist" ELSE "cover"
  OBVIOUS
<1>3. l \in Play!Steps /\ Play!Go(c, l)
  BY <1>2 DEF Play!Steps, Play!Commit
<1>4. PlayMoved(c) /\ playProc'[c].pc = l /\ playProc'[c].n = playProc[c].n
      /\ playProc'[c].prev = playProc[c].prev
  BY <1>3, PlayGoMoves
<1>5. Play!Renew(c)
  BY DEF Play!Commit
<1>6. Play!TypeOK'
  BY <1>4, <1>5, PlayLockTyped, PlayQuietTypes DEF Play!Commit
<1>7. IF playLock.id = c THEN playLock' = [id |-> c, live |-> TRUE] ELSE playLock' = playLock
  BY <1>5, PlayLockTyped
<1>8. playLock.id # c => l = "cover"
  BY <1>2 DEF Play!Own
<1>. QED BY <1>1, <1>2, <1>4, <1>6, <1>7, <1>8 DEF PlayCallEffect, PlayShrinks, Play!Outer,
     Play!ToCharge, Play!ToEnd, Play!ToPay, Play!ToReverse

LEMMA PlayReleaseStep ==
    ASSUME Play!TypeOK, NEW c \in Requests, Play!Release(c) \/ Play!Die(c)
    PROVE  Play!TypeOK' /\ PlayCallEffect(c) /\ PlayShrinks(c)
<1>1. /\ Play!End(c) /\ Play!NoMoney /\ Play!Only /\ playStored.cum \in Nat
      /\ UNCHANGED <<playMark, playStored, playBlocked, playPaid, playCharged, playSlips, playReg,
                     playChain, playCron, playTold, playWrittenOff, playLeft>>
  BY DEF Play!Release, Play!Die, Play!NoMoney, Play!Only, Play!money, Play!past, Play!TypeOK
<1>2. PlayMoved(c) /\ playProc'[c].pc = "idle"
  BY <1>1, PlayEndMoves
<1>3. Play!Drop(c) \/ UNCHANGED playLock
  BY DEF Play!Release, Play!Die
<1>4. Play!TypeOK'
  BY <1>1, <1>2, <1>3, PlayLockTyped, PlayQuietTypes
<1>5. playLock' = playLock \/ (playLock.id = c /\ playLock' = [id |-> Nobody, live |-> FALSE])
  BY <1>3, PlayLockTyped
<1>6. playLock'.id = c => playLock.id = c
  BY <1>5, PlayConstants
<1>. QED BY <1>1, <1>2, <1>4, <1>5, <1>6 DEF PlayCallEffect, PlayShrinks, Play!Outer, Play!ToCharge,
     Play!ToEnd, Play!ToPay, Play!ToReverse

LEMMA PlayCloseGuardStep ==
    ASSUME Play!TypeOK, NEW c \in Requests, Play!CloseGuard(c)
    PROVE  Play!TypeOK' /\ PlayCallEffect(c) /\ PlayShrinks(c)
<1>1. /\ playProc[c].pc = "guard" /\ playStored.cum \in Nat /\ playBlocked \in BOOLEAN
      /\ UNCHANGED <<playMark, playStored, playPaid, playCharged, playSlips, playReg, playChain,
                     playCron, playTold, playWrittenOff, playLeft, playLock>>
      /\ playBlocked' = playBlocked \/ playBlocked' = TRUE
  BY DEF Play!CloseGuard, Play!At, Play!NoMoney, Play!Only, Play!money, Play!past, Play!TypeOK
<1>2. PICK l \in {"read", "release"} : Play!Go(c, l)
  BY DEF Play!CloseGuard
<1>3. PlayMoved(c) /\ playProc'[c].pc = l
  BY <1>2, PlayGoMoves DEF Play!Steps
<1>4. Play!TypeOK'
  BY <1>1, <1>3, PlayCallTypes DEF Play!TypeOK
<1>. QED BY <1>1, <1>3, <1>4 DEF PlayCallEffect, PlayShrinks, Play!Outer, Play!ToCharge, Play!ToEnd,
     Play!ToPay, Play!ToReverse

LEMMA PlayAbsorbStep ==
    ASSUME Play!TypeOK, NEW c \in Requests, Play!Absorb(c)
    PROVE  Play!TypeOK' /\ PlayCallEffect(c) /\ PlayShrinks(c)
<1>1. /\ playProc[c].pc = "absorb" /\ playStored.cum \in Nat /\ playBlocked \in BOOLEAN
      /\ UNCHANGED <<playMark, playStored, playPaid, playCharged, playSlips, playReg, playChain,
                     playCron, playTold, playWrittenOff, playLeft, playLock>>
  BY DEF Play!Absorb, Play!At, Play!Only, Play!past, Play!TypeOK
<1>2. PICK l \in {"undo", "release"} : /\ Play!Go(c, l) /\ (l = "undo" => playBlocked' = TRUE)
                                       /\ playBlocked' = playBlocked \/ playBlocked' = TRUE
  BY DEF Play!Absorb
<1>3. /\ PlayMoved(c) /\ playProc'[c].pc = l
      /\ playProc'[c].n = playProc[c].n /\ playProc'[c].prev = playProc[c].prev
  BY <1>2, PlayGoMoves DEF Play!Steps
<1>4. Play!TypeOK'
  BY <1>1, <1>2, <1>3, PlayCallTypes DEF Play!TypeOK
<1>. QED BY <1>1, <1>2, <1>3, <1>4 DEF PlayCallEffect, PlayShrinks, Play!Outer, Play!ToCharge,
     Play!ToEnd, Play!ToPay, Play!ToReverse

LEMMA PlayFenceStep ==
    ASSUME Play!TypeOK, NEW c \in Requests, Play!Fence(c)
    PROVE  Play!TypeOK' /\ PlayCallEffect(c) /\ PlayShrinks(c)
<1>1. /\ playProc[c].pc = "fence" /\ playStored.cum \in Nat /\ playBlocked \in BOOLEAN
      /\ UNCHANGED <<playMark, playStored, playPaid, playCharged, playSlips, playReg, playChain,
                     playCron, playTold, playWrittenOff, playLeft, playLock>>
      /\ playBlocked' = playBlocked \/ playBlocked' = TRUE
  BY DEF Play!Fence, Play!At, Play!Only, Play!past, Play!TypeOK
<1>2. PlayMoved(c) /\ playProc'[c].pc = "release"
  BY PlayGoMoves DEF Play!Steps, Play!Fence
<1>3. Play!TypeOK'
  BY <1>1, <1>2, PlayCallTypes DEF Play!TypeOK
<1>. QED BY <1>1, <1>2, <1>3 DEF PlayCallEffect, PlayShrinks, Play!Outer, Play!ToCharge, Play!ToEnd,
     Play!ToPay, Play!ToReverse

LEMMA PlayReadStep ==
    ASSUME Play!TypeOK, NEW c \in Requests, Play!ReadPrevious(c)
    PROVE  /\ Play!TypeOK' /\ PlayCallEffect(c)
           /\ playProc[c].pc = "read" /\ playProc'[c].pc \in {"release", "verify"}
              /\ playProc'[c].prev = playMark
           /\ playProc'[c].n = playProc[c].n
           /\ UNCHANGED <<playMark, playStored, playBlocked, playPaid, playCharged, playSlips,
                          playLock>>
<1>. DEFINE h == [playProc[c] EXCEPT !.prev = playMark, !.pc = IF playMark + 1 > playReg.deposit
                  THEN "release" ELSE "verify"]
<1>1. playProc[c] \in [pc : Play!Steps, n : Nat, prev : Nat] /\ playMark \in Nat
  BY PlayTyped DEF Play!Locals, Play!TypeOK
<1>2. h \in Play!Locals /\ h.prev = playMark /\ h.n = playProc[c].n /\ h.pc \in {"release", "verify"}
  BY <1>1 DEF Play!Locals, Play!Steps
<1>3. playProc' = [playProc EXCEPT ![c] = h]
  BY DEF Play!ReadPrevious
<1>. HIDE DEF h
<1>4. PlayMoved(c) /\ playProc'[c] = h
  BY <1>2, <1>3, PlayBecomesMoves
<1>5. /\ playProc[c].pc = "read" /\ playStored.cum \in Nat
      /\ UNCHANGED <<playMark, playStored, playBlocked, playPaid, playCharged, playSlips, playReg,
                     playChain, playCron, playTold, playWrittenOff, playLeft, playLock>>
  BY DEF Play!ReadPrevious, Play!At, Play!NoMoney, Play!Only, Play!money, Play!past, Play!TypeOK
<1>6. Play!TypeOK'
  BY <1>4, <1>5, PlayCallTypes DEF Play!TypeOK
<1>. QED BY <1>2, <1>4, <1>5, <1>6 DEF PlayCallEffect, Play!Outer

\* The voucher of call c is accepted, and the call may go on.
PlayAccepted(c) ==
    /\ playProc[c].pc = "verify" /\ playProc[c].n > playMark /\ playMark' = playProc[c].n
    /\ playProc'[c].pc \in {"accepted", "release"}
    /\ playProc'[c].n = playProc[c].n /\ playProc'[c].prev = playProc[c].prev
    /\ playLock.id = c \/ "overtaken" \in playSlips'
    /\ UNCHANGED <<playStored, playBlocked, playPaid, playCharged, playLock>>

LEMMA PlayVerifyStep ==
    ASSUME Play!TypeOK, NEW c \in Requests, Play!Verify(c)
    PROVE  Play!TypeOK' /\ PlayCallEffect(c) /\ (PlayShrinks(c) \/ PlayAccepted(c))
<1>1. /\ playProc[c].pc = "verify" /\ playStored.cum \in Nat /\ playMark \in Nat
         /\ playProc[c].n \in Nat
      /\ UNCHANGED <<playReg, playChain, playCron, playTold, playWrittenOff, playLeft, playLock>>
      /\ playSlips \subseteq {"overtaken", "unmarked"}
  BY PlayTyped DEF Play!Verify, Play!At, Play!Only, Play!TypeOK
<1>2. CASE /\ playProc[c].n > playMark /\ playMark' = playProc[c].n
           /\ playSlips' = IF Play!Own(c) THEN playSlips ELSE playSlips \cup {"overtaken"}
           /\ Play!Go(c, "accepted") \/ Play!Go(c, "release")
           /\ UNCHANGED <<playStored, playBlocked, Play!past>>
  <2>1. PICK l \in {"accepted", "release"} : Play!Go(c, l)
    BY <1>2
  <2>2. /\ PlayMoved(c) /\ playProc'[c].pc = l
        /\ playProc'[c].n = playProc[c].n /\ playProc'[c].prev = playProc[c].prev
    BY <2>1, PlayGoMoves DEF Play!Steps
  <2>3. /\ playSlips \subseteq playSlips' /\ playSlips' \subseteq {"overtaken", "unmarked"}
        /\ playLock.id = c \/ "overtaken" \in playSlips'
        /\ playPaid' = playPaid /\ playCharged' = playCharged /\ playStored' = playStored
           /\ playBlocked' = playBlocked
    BY <1>1, <1>2 DEF Play!Own, Play!past
  <2>4. Play!TypeOK'
    BY <1>1, <1>2, <2>2, <2>3, PlayCallTypes DEF Play!TypeOK
  <2>. QED BY <1>1, <1>2, <2>2, <2>3, <2>4 DEF PlayCallEffect, PlayAccepted, Play!Outer
<1>3. CASE Play!Go(c, "release") /\ Play!NoMoney
  <2>1. PlayMoved(c) /\ playProc'[c].pc = "release"
    BY <1>3, PlayGoMoves DEF Play!Steps
  <2>2. UNCHANGED <<playMark, playStored, playBlocked, playPaid, playCharged, playSlips>>
    BY <1>3 DEF Play!NoMoney, Play!money, Play!past
  <2>3. Play!TypeOK'
    BY <1>1, <2>1, <2>2, PlayCallTypes DEF Play!TypeOK
  <2>. QED BY <1>1, <2>1, <2>2, <2>3 DEF PlayCallEffect, PlayShrinks, Play!Outer, Play!ToCharge,
       Play!ToEnd, Play!ToPay, Play!ToReverse
<1>. QED BY <1>2, <1>3 DEF Play!Verify

\* Call c paid upstream.
PlaySpent(c) ==
    /\ playProc[c].pc = "pay" /\ playProc'[c].pc = "paid" /\ playPaid' = playPaid + 1
    /\ playProc'[c].n = playProc[c].n /\ playProc'[c].prev = playProc[c].prev
    /\ UNCHANGED <<playMark, playStored, playBlocked, playCharged, playLock>>

LEMMA PlayPayStep ==
    ASSUME Play!TypeOK, NEW c \in Requests, Play!Pay(c)
    PROVE  Play!TypeOK' /\ PlayCallEffect(c) /\ (PlayShrinks(c) \/ PlaySpent(c))
<1>1. /\ playProc[c].pc = "pay" /\ playStored.cum \in Nat /\ playPaid \in Nat
      /\ UNCHANGED <<playMark, playStored, playBlocked, playCharged, playSlips, playReg, playChain,
                     playCron, playTold, playWrittenOff, playLeft, playLock>>
  BY DEF Play!Pay, Play!At, Play!Only, Play!money, Play!TypeOK
<1>2. PICK l \in {"paid", "reverse"} : Play!Go(c, l) /\ playPaid' = IF l = "paid"
                                                        THEN playPaid + 1 ELSE playPaid
  BY DEF Play!Pay
<1>3. /\ PlayMoved(c) /\ playProc'[c].pc = l
      /\ playProc'[c].n = playProc[c].n /\ playProc'[c].prev = playProc[c].prev
  BY <1>2, PlayGoMoves DEF Play!Steps
<1>4. Play!TypeOK'
  BY <1>1, <1>2, <1>3, PlayCallTypes DEF Play!TypeOK
<1>5. PlayCallEffect(c)
  BY <1>1, <1>3 DEF PlayCallEffect, Play!Outer
<1>6. PlayShrinks(c) \/ PlaySpent(c)
  BY <1>1, <1>2, <1>3 DEF PlayShrinks, PlaySpent, Play!ToCharge, Play!ToEnd, Play!ToPay,
       Play!ToReverse
<1>. QED BY <1>4, <1>5, <1>6

\* Call c is reported as charged, and a voucher that covers it is stored.
PlayCharged(c) ==
    /\ playProc[c].pc \in {"persist", "cover"} /\ playProc'[c].pc = "release"
       /\ playCharged' = playCharged + 1
    /\ playProc'[c].n = playProc[c].n /\ playProc'[c].prev = playProc[c].prev
    /\ playStored'.cum >= playProc[c].n /\ playStored'.cum >= playStored.cum
    /\ UNCHANGED <<playMark, playBlocked, playPaid, playLock>>

LEMMA PlayPersistStep ==
    ASSUME Play!TypeOK, NEW c \in Requests, Play!Persist(c)
    PROVE  Play!TypeOK' /\ PlayCallEffect(c) /\ (PlayShrinks(c) \/ PlayCharged(c))
<1>1. /\ playProc[c].pc = "persist" /\ playStored \in [cum : Nat, settled : Nat]
         /\ playCharged \in Nat /\ playProc[c].n \in Nat
      /\ UNCHANGED <<playMark, playPaid, playBlocked, playSlips, playReg, playChain, playCron,
                     playTold, playWrittenOff, playLeft, playLock>>
  BY PlayTyped DEF Play!Persist, Play!At, Play!Only, Play!TypeOK
<1>2. PICK l \in {"release", "cover"} :
          /\ Play!Go(c, l) /\ playCharged' = IF l = "release" THEN playCharged + 1 ELSE playCharged
          /\ \/ playStored' = [playStored EXCEPT !.cum = Play!Max2(@, playProc[c].n)]
             \/ l = "cover" /\ playStored' = playStored
  BY DEF Play!Persist, Play!Charge
<1>3. /\ PlayMoved(c) /\ playProc'[c].pc = l
      /\ playProc'[c].n = playProc[c].n /\ playProc'[c].prev = playProc[c].prev
  BY <1>2, PlayGoMoves DEF Play!Steps
<1>4. /\ playStored' \in [cum : Nat, settled : Nat]
      /\ playStored'.settled = playStored.settled /\ playStored'.cum >= playStored.cum
      /\ l = "release" => playStored'.cum >= playProc[c].n
  BY <1>1, <1>2 DEF Play!Max2
<1>5. Play!TypeOK'
  BY <1>1, <1>2, <1>3, <1>4, PlayCallTypes DEF Play!TypeOK
<1>6. PlayCallEffect(c)
  BY <1>1, <1>3, <1>4 DEF PlayCallEffect, Play!Outer
<1>7. PlayShrinks(c) \/ PlayCharged(c)
  BY <1>1, <1>2, <1>3, <1>4 DEF PlayShrinks, PlayCharged, Play!ToCharge, Play!ToEnd, Play!ToPay,
       Play!ToReverse
<1>. QED BY <1>5, <1>6, <1>7

LEMMA PlayCheckCoveredStep ==
    ASSUME Play!TypeOK, NEW c \in Requests, Play!CheckCovered(c)
    PROVE  Play!TypeOK' /\ PlayCallEffect(c) /\ (PlayShrinks(c) \/ PlayCharged(c))
<1>1. /\ playProc[c].pc = "cover" /\ playStored.cum \in Nat /\ playCharged \in Nat
      /\ UNCHANGED <<playMark, playStored, playPaid, playBlocked, playSlips, playReg, playChain,
                     playCron, playTold, playWrittenOff, playLeft, playLock>>
  BY DEF Play!CheckCovered, Play!At, Play!Only, Play!money, Play!TypeOK
<1>2. PICK l \in {"release", "absorb"} :
          /\ Play!Go(c, l) /\ playCharged' = IF l = "release" THEN playCharged + 1 ELSE playCharged
          /\ l = "release" => playStored.cum >= playProc[c].n
  BY DEF Play!CheckCovered, Play!Charge
<1>3. /\ PlayMoved(c) /\ playProc'[c].pc = l
      /\ playProc'[c].n = playProc[c].n /\ playProc'[c].prev = playProc[c].prev
  BY <1>2, PlayGoMoves DEF Play!Steps
<1>4. Play!TypeOK'
  BY <1>1, <1>2, <1>3, PlayCallTypes DEF Play!TypeOK
<1>5. PlayCallEffect(c)
  BY <1>1, <1>3 DEF PlayCallEffect, Play!Outer
<1>6. PlayShrinks(c) \/ PlayCharged(c)
  BY <1>1, <1>2, <1>3 DEF PlayShrinks, PlayCharged, Play!ToCharge, Play!ToEnd, Play!ToPay,
       Play!ToReverse
<1>. QED BY <1>4, <1>5, <1>6

\* The watermark goes back to what call c read.
PlayRolled(c) ==
    /\ playProc[c].pc \in {"undo", "reverse"} /\ playProc'[c].pc \in {"release", "fence"}
    /\ playProc'[c].n = playProc[c].n /\ playProc'[c].prev = playProc[c].prev
    /\ playMark = playProc[c].n /\ playMark' = playProc[c].prev
    /\ UNCHANGED <<playStored, playBlocked, playPaid, playCharged, playLock>>

LEMMA PlayRollStep ==
    ASSUME Play!TypeOK, NEW c \in Requests, Play!Undo(c) \/ Play!Reverse(c)
    PROVE  Play!TypeOK' /\ PlayCallEffect(c) /\ (PlayShrinks(c) \/ PlayRolled(c))
<1>1. /\ playProc[c].pc \in {"undo", "reverse"} /\ playStored.cum \in Nat /\ playMark \in Nat
         /\ playProc[c].prev \in Nat
      /\ UNCHANGED <<playStored, playBlocked, playPaid, playCharged, playSlips, playReg, playChain,
                     playCron, playTold, playWrittenOff, playLeft, playLock>>
      /\ playMark' = IF playMark = playProc[c].n THEN playProc[c].prev ELSE playMark
  BY PlayTyped DEF Play!Undo, Play!Reverse, Play!RolledBack, Play!At, Play!Only, Play!past,
       Play!TypeOK
<1>2. PICK l \in {"release", "fence"} : Play!Go(c, l)
  BY DEF Play!Undo, Play!Reverse
<1>3. /\ PlayMoved(c) /\ playProc'[c].pc = l
      /\ playProc'[c].n = playProc[c].n /\ playProc'[c].prev = playProc[c].prev
  BY <1>2, PlayGoMoves DEF Play!Steps
<1>4. Play!TypeOK'
  BY <1>1, <1>3, PlayCallTypes DEF Play!TypeOK
<1>5. PlayCallEffect(c)
  BY <1>1, <1>3 DEF PlayCallEffect, Play!Outer
<1>6. PlayShrinks(c) \/ PlayRolled(c)
  BY <1>1, <1>3 DEF PlayShrinks, PlayRolled, Play!ToCharge, Play!ToEnd, Play!ToPay, Play!ToReverse
<1>. QED BY <1>4, <1>5, <1>6

-----------------------------------------------------------------------------
(* Counting through a call.                                                *)

LEMMA PlaySameNumbers ==
    ASSUME NEW c \in Requests, PlayMoved(c), playProc'[c].n = playProc[c].n
    PROVE  Play!Asked' = Play!Asked /\ (playProc'[c].prev = playProc[c].prev => Play!Read' = Play!Read)
  BY DEF PlayMoved, Play!Asked, Play!Read

\* What holds of the counts, with the numbers typed.
LEMMA PlayCounts ==
    ASSUME Play!TypeOK, Play!Counted
    PROVE  /\ \A d \in Play!Pending : Play!Asked[d] \in Nat /\ Play!Read[d] \in Nat
           /\ \A d \in Play!Unpaid : Play!Asked[d] \in Nat /\ Play!Read[d] \in Nat
           /\ \A v \in Play!Verifying : Play!Asked[v] \in Nat /\ Play!Read[v] \in Nat
           /\ Play!Ordered(Play!Pending, Play!Verifying, Play!Asked, Play!Read, playMark)
           /\ Play!Ordered(Play!Unpaid, Play!Verifying, Play!Asked, Play!Read, playMark)
           /\ playMark \in Nat /\ playPaid \in Nat /\ playCharged \in Nat /\ playStored.cum \in Nat
<1>1. Play!Ordered(Play!Pending, Play!Verifying, Play!Asked, Play!Read, playMark)
      /\ Play!Unpaid \subseteq Play!Pending
  BY PlayFinite DEF Play!Counted
<1>2. Play!Ordered(Play!Unpaid, Play!Verifying, Play!Asked, Play!Read, playMark)
  BY <1>1, PlayOrderedShrinks
<1>. QED BY <1>1, <1>2, PlayNumbers DEF Play!TypeOK

LEMMA PlayReadCounts ==
    ASSUME Play!TypeOK, Play!TypeOK', Play!Counted, NEW c \in Requests, Play!ReadPrevious(c)
    PROVE  Play!Counted'
<1>1. /\ PlayMoved(c) /\ playProc[c].pc = "read" /\ playProc'[c].pc \in {"release", "verify"}
      /\ playProc'[c].prev = playMark /\ playProc'[c].n = playProc[c].n
      /\ UNCHANGED <<playMark, playStored, playBlocked, playPaid, playCharged, playSlips, playLock>>
  BY PlayReadStep DEF PlayCallEffect
<1>2. /\ Play!Pending' = Play!Pending /\ Play!Charging' = Play!Charging
         /\ Play!Paying' = Play!Paying /\ Play!Unpaid' = Play!Unpaid
      /\ \A d \in Play!Verifying' : d = c \/ d \in Play!Verifying
      /\ c \notin Play!Pending /\ c \notin Play!Unpaid
  BY <1>1 DEF PlayMoved, Play!Pending, Play!Charging, Play!Paying, Play!Unpaid, Play!Verifying,
       Play!ToCharge, Play!ToEnd, Play!ToPay, Play!ToReverse
<1>3. /\ Play!Asked' = Play!Asked
      /\ \A d \in Requests \ {c} : Play!Read'[d] = Play!Read[d]
      /\ Play!Read'[c] = playMark
  BY <1>1, PlaySameNumbers DEF PlayMoved, Play!Read
<1>4. /\ \A d \in Play!Pending : Play!Read'[d] = Play!Read[d]
      /\ \A d \in Play!Unpaid : Play!Read'[d] = Play!Read[d]
      /\ \A v \in Play!Verifying' : Play!Read'[v] = playMark
         \/ (v \in Play!Verifying /\ Play!Read'[v] = Play!Read[v])
  BY <1>2, <1>3, PlayNumbers DEF Play!Verifying
<1>5. PICK f \in 0 .. playMark : f <= playStored.cum
                                 /\ Play!Floor(Play!Charging, Play!Pending, Play!Verifying, Play!Asked,
                                               Play!Read, playMark, playCharged, f)
  BY DEF Play!Counted
<1>6. /\ Play!Ordered(Play!Pending, Play!Verifying', Play!Asked, Play!Read', playMark)
      /\ Play!Floor(Play!Charging, Play!Pending, Play!Verifying', Play!Asked, Play!Read', playMark,
                    playCharged, f)
  <2>1. f \in Nat
    BY <1>5, PlayCounts
  <2>. QED BY <1>4, <1>5, <2>1, PlayCounts, PlayFloorRead
<1>7. ASSUME ~playBlocked
      PROVE  \E g \in 0 .. playMark : Play!Floor(Play!Paying, Play!Unpaid, Play!Verifying', Play!Asked,
                                                 Play!Read', playMark, playPaid, g)
  <2>1. PICK g \in 0 .. playMark : Play!Floor(Play!Paying, Play!Unpaid, Play!Verifying, Play!Asked,
                                              Play!Read, playMark, playPaid, g)
    BY <1>7 DEF Play!Counted
  <2>2. g \in Nat
    BY <2>1, PlayCounts
  <2>3. Play!Floor(Play!Paying, Play!Unpaid, Play!Verifying', Play!Asked, Play!Read', playMark,
                   playPaid, g)
    BY <1>4, <2>1, <2>2, PlayCounts, PlayFloorRead
  <2>. QED BY <2>1, <2>3
<1>. QED BY <1>1, <1>2, <1>3, <1>5, <1>6, <1>7 DEF Play!Counted

LEMMA PlaySpentCounts ==
    ASSUME Play!TypeOK, Play!TypeOK', Play!Counted, NEW c \in Requests, PlayMoved(c), PlaySpent(c)
    PROVE  Play!Counted'
<1>1. /\ Play!Pending' = Play!Pending /\ Play!Charging' = Play!Charging
         /\ Play!Verifying' = Play!Verifying
      /\ Play!Paying' = Play!Paying \ {c} /\ Play!Unpaid' = Play!Unpaid \ {c} /\ c \in Play!Paying
  BY DEF PlayMoved, PlaySpent, Play!Pending, Play!Charging, Play!Paying, Play!Unpaid,
       Play!Verifying, Play!ToCharge, Play!ToEnd, Play!ToPay, Play!ToReverse
<1>2. Play!Asked' = Play!Asked /\ Play!Read' = Play!Read /\ playMark' = playMark
      /\ playStored' = playStored /\ playCharged' = playCharged
      /\ playBlocked' = playBlocked /\ playPaid' = playPaid + 1
  BY PlaySameNumbers DEF PlaySpent
<1>3. ASSUME ~playBlocked
      PROVE  \E g \in 0 .. playMark : Play!Floor(Play!Paying \ {c}, Play!Unpaid \ {c}, Play!Verifying,
                                                 Play!Asked, Play!Read, playMark, playPaid + 1, g)
  <2>1. PICK f \in 0 .. playMark : Play!Floor(Play!Paying, Play!Unpaid, Play!Verifying, Play!Asked,
                                              Play!Read, playMark, playPaid, f)
    BY <1>3 DEF Play!Counted
  <2>2. PICK g : g = IF Play!Asked[c] > f THEN Play!Asked[c] ELSE f
    OBVIOUS
  <2>3. Play!Asked[c] \in Nat /\ f \in Nat /\ g \in Nat
    BY <1>1, <2>1, <2>2, PlayCounts, PlayFinite
  <2>4. Play!Floor(Play!Paying \ {c}, Play!Unpaid \ {c}, Play!Verifying, Play!Asked, Play!Read,
                   playMark, playPaid + 1, g)
    BY <1>1, <2>1, <2>2, <2>3, PlayCounts, PlayFinite, PlayFloorTakes
  <2>5. g \in 0 .. playMark
    BY <2>3, <2>4, PlayCounts DEF Play!Floor
  <2>. QED BY <2>4, <2>5
<1>. QED BY <1>1, <1>2, <1>3 DEF Play!Counted

LEMMA PlayChargedCounts ==
    ASSUME Play!TypeOK, Play!TypeOK', Play!Counted, NEW c \in Requests, PlayMoved(c), PlayCharged(c)
    PROVE  Play!Counted'
<1>1. /\ Play!Paying' = Play!Paying /\ Play!Unpaid' = Play!Unpaid /\ Play!Verifying' = Play!Verifying
      /\ Play!Pending' = Play!Pending \ {c} /\ Play!Charging' = Play!Charging \ {c}
         /\ c \in Play!Charging
  BY DEF PlayMoved, PlayCharged, Play!Pending, Play!Charging, Play!Paying, Play!Unpaid,
       Play!Verifying, Play!ToCharge, Play!ToEnd, Play!ToPay, Play!ToReverse
<1>2. Play!Asked' = Play!Asked /\ Play!Read' = Play!Read /\ playMark' = playMark /\ playPaid' = playPaid
      /\ playBlocked' = playBlocked /\ playCharged' = playCharged + 1
  BY PlaySameNumbers DEF PlayCharged
<1>3. PICK f \in 0 .. playMark : f <= playStored.cum
                                 /\ Play!Floor(Play!Charging, Play!Pending, Play!Verifying, Play!Asked,
                                               Play!Read, playMark, playCharged, f)
  BY DEF Play!Counted
<1>4. PICK g : g = IF Play!Asked[c] > f THEN Play!Asked[c] ELSE f
  OBVIOUS
<1>5. Play!Asked[c] \in Nat /\ f \in Nat /\ g \in Nat /\ Play!Asked[c] = playProc[c].n
      /\ playStored'.cum \in Nat
  BY <1>1, <1>3, <1>4, PlayCounts, PlayFinite, PlayNumbers DEF Play!TypeOK
<1>6. Play!Floor(Play!Charging \ {c}, Play!Pending \ {c}, Play!Verifying, Play!Asked, Play!Read,
                 playMark, playCharged + 1, g)
  BY <1>1, <1>3, <1>4, <1>5, PlayCounts, PlayFinite, PlayFloorTakes
<1>7. g \in 0 .. playMark /\ g <= playStored'.cum
  BY <1>3, <1>4, <1>5, <1>6, PlayCounts DEF Play!Floor, PlayCharged
<1>8. Play!Ordered(Play!Pending \ {c}, Play!Verifying, Play!Asked, Play!Read, playMark)
  BY PlayCounts, PlayOrderedShrinks
<1>. QED BY <1>1, <1>2, <1>6, <1>7, <1>8 DEF Play!Counted

LEMMA PlayRolledCounts ==
    ASSUME Play!TypeOK, Play!TypeOK', Play!Counted, Play!Guarded, NEW c \in Requests, PlayMoved(c),
           PlayRolled(c)
    PROVE  Play!Counted'
<1>1. /\ Play!Paying' = Play!Paying /\ Play!Charging' = Play!Charging
         /\ Play!Verifying' = Play!Verifying
      /\ Play!Pending' = Play!Pending \ {c} /\ c \in Play!Pending \ Play!Charging
      /\ Play!Unpaid' = Play!Unpaid \ {c}
      /\ playBlocked \/ c \in Play!Unpaid \ Play!Paying
  BY DEF PlayMoved, PlayRolled, Play!Pending, Play!Charging, Play!Paying, Play!Unpaid,
       Play!Verifying, Play!ToCharge, Play!ToEnd, Play!ToPay, Play!ToReverse, Play!Guarded, Play!At
<1>2. /\ Play!Asked' = Play!Asked /\ Play!Read' = Play!Read /\ playPaid' = playPaid
         /\ playCharged' = playCharged
      /\ playBlocked' = playBlocked /\ playStored' = playStored
      /\ playMark = Play!Asked[c] /\ playMark' = Play!Read[c]
  BY PlaySameNumbers, PlayNumbers DEF PlayRolled
<1>3. PICK f \in 0 .. playMark : f <= playStored.cum
                                 /\ Play!Floor(Play!Charging, Play!Pending, Play!Verifying, Play!Asked,
                                               Play!Read, playMark, playCharged, f)
  BY DEF Play!Counted
<1>4. f \in Nat /\ Play!Read[c] \in Nat
  BY <1>1, <1>3, PlayCounts
<1>5. /\ Play!Ordered(Play!Pending \ {c}, Play!Verifying, Play!Asked, Play!Read, Play!Read[c])
      /\ Play!Floor(Play!Charging, Play!Pending \ {c}, Play!Verifying, Play!Asked, Play!Read,
                    Play!Read[c], playCharged, f)
  BY <1>1, <1>2, <1>3, <1>4, PlayCounts, PlayFinite, PlayFloorRolls
<1>6. f \in 0 .. Play!Read[c]
  BY <1>4, <1>5 DEF Play!Floor
<1>7. ASSUME ~playBlocked
      PROVE  \E g \in 0 .. Play!Read[c] : Play!Floor(Play!Paying, Play!Unpaid \ {c}, Play!Verifying,
                                                     Play!Asked, Play!Read, Play!Read[c], playPaid, g)
  <2>1. PICK g \in 0 .. playMark : Play!Floor(Play!Paying, Play!Unpaid, Play!Verifying, Play!Asked,
                                              Play!Read, playMark, playPaid, g)
    BY <1>7 DEF Play!Counted
  <2>2. g \in Nat
    BY <2>1, PlayCounts
  <2>3. Play!Floor(Play!Paying, Play!Unpaid \ {c}, Play!Verifying, Play!Asked, Play!Read, Play!Read[c],
                   playPaid, g)
    BY <1>1, <1>2, <1>7, <2>1, <2>2, PlayCounts, PlayFinite, PlayFloorRolls
  <2>4. g \in 0 .. Play!Read[c]
    BY <1>4, <2>2, <2>3 DEF Play!Floor
  <2>. QED BY <2>3, <2>4
<1>. QED BY <1>1, <1>2, <1>3, <1>5, <1>6, <1>7 DEF Play!Counted

LEMMA PlayAcceptedCounts ==
    ASSUME Play!TypeOK, Play!TypeOK', Play!Counted, NEW c \in Requests, PlayMoved(c),
           PlayAccepted(c), playLock.id = c
    PROVE  Play!Counted'
<1>1. c \in Play!Verifying /\ Play!Verifying' = {} /\ c \notin Play!Pending
  BY DEF PlayMoved, PlayAccepted, Play!Verifying, Play!Pending, Play!ToEnd, Play!ToCharge
<1>2. /\ Play!Asked' = Play!Asked /\ Play!Read' = Play!Read /\ playPaid' = playPaid
         /\ playCharged' = playCharged
      /\ playBlocked' = playBlocked /\ playStored' = playStored
      /\ Play!Asked[c] > playMark /\ playMark' = Play!Asked[c] /\ Play!Asked[c] \in Nat
  BY PlaySameNumbers, PlayNumbers DEF PlayAccepted
<1>3. PICK f \in 0 .. playMark : f <= playStored.cum
                                 /\ Play!Floor(Play!Charging, Play!Pending, Play!Verifying, Play!Asked,
                                               Play!Read, playMark, playCharged, f)
  BY DEF Play!Counted
<1>4. f \in Nat /\ f \in 0 .. Play!Asked[c]
  BY <1>2, <1>3, PlayCounts
<1>5. CASE playProc'[c].pc = "accepted"
  <2>1. /\ Play!Paying' = Play!Paying \cup {c} /\ Play!Charging' = Play!Charging \cup {c}
        /\ Play!Pending' = Play!Pending \cup {c} /\ Play!Unpaid' = Play!Unpaid \cup {c}
    BY <1>5 DEF PlayMoved, Play!Pending, Play!Charging, Play!Paying, Play!Unpaid, Play!ToCharge,
         Play!ToEnd, Play!ToPay, Play!ToReverse
  <2>2. /\ Play!Ordered(Play!Pending \cup {c}, {}, Play!Asked, Play!Read, Play!Asked[c])
        /\ Play!Floor(Play!Charging \cup {c}, Play!Pending \cup {c}, {}, Play!Asked, Play!Read,
                      Play!Asked[c], playCharged, f)
    BY <1>1, <1>2, <1>3, <1>4, PlayCounts, PlayFinite, PlayFloorAccepts
  <2>3. ASSUME ~playBlocked
        PROVE  \E g \in 0 .. Play!Asked[c] : Play!Floor(Play!Paying \cup {c}, Play!Unpaid \cup {c}, {},
                                                        Play!Asked, Play!Read, Play!Asked[c], playPaid,
                                                        g)
    <3>1. PICK g \in 0 .. playMark : Play!Floor(Play!Paying, Play!Unpaid, Play!Verifying, Play!Asked,
                                                Play!Read, playMark, playPaid, g)
      BY <2>3 DEF Play!Counted
    <3>2. g \in Nat /\ g \in 0 .. Play!Asked[c] /\ c \notin Play!Unpaid
      BY <1>1, <1>2, <3>1, PlayCounts, PlayFinite
    <3>3. Play!Floor(Play!Paying \cup {c}, Play!Unpaid \cup {c}, {}, Play!Asked, Play!Read,
                     Play!Asked[c], playPaid, g)
      BY <1>1, <1>2, <3>1, <3>2, PlayCounts, PlayFinite, PlayFloorAccepts
    <3>. QED BY <3>2, <3>3
  <2>. QED BY <1>1, <1>2, <1>3, <1>4, <2>1, <2>2, <2>3 DEF Play!Counted
<1>6. CASE playProc'[c].pc = "release"
  <2>1. Play!Paying' = Play!Paying /\ Play!Charging' = Play!Charging /\ Play!Pending' = Play!Pending
        /\ Play!Unpaid' = Play!Unpaid
    BY <1>6 DEF PlayMoved, PlayAccepted, Play!Pending, Play!Charging, Play!Paying, Play!Unpaid,
         Play!ToCharge, Play!ToEnd, Play!ToPay, Play!ToReverse
  <2>2. /\ Play!Ordered(Play!Pending, {}, Play!Asked, Play!Read, Play!Asked[c])
        /\ Play!Floor(Play!Charging, Play!Pending, {}, Play!Asked, Play!Read, Play!Asked[c],
                      playCharged, f)
    BY <1>2, <1>3, <1>4, PlayCounts, PlayFinite, PlayFloorRaised
  <2>3. ASSUME ~playBlocked
        PROVE  \E g \in 0 .. Play!Asked[c] : Play!Floor(Play!Paying, Play!Unpaid, {}, Play!Asked,
                                                        Play!Read, Play!Asked[c], playPaid, g)
    <3>1. PICK g \in 0 .. playMark : Play!Floor(Play!Paying, Play!Unpaid, Play!Verifying, Play!Asked,
                                                Play!Read, playMark, playPaid, g)
      BY <2>3 DEF Play!Counted
    <3>2. g \in Nat /\ g \in 0 .. Play!Asked[c]
      BY <1>2, <3>1, PlayCounts
    <3>3. Play!Floor(Play!Paying, Play!Unpaid, {}, Play!Asked, Play!Read, Play!Asked[c], playPaid, g)
      BY <1>2, <3>1, <3>2, PlayCounts, PlayFinite, PlayFloorRaised
    <3>. QED BY <3>2, <3>3
  <2>. QED BY <1>1, <1>2, <1>3, <1>4, <2>1, <2>2, <2>3 DEF Play!Counted
<1>. QED BY <1>5, <1>6 DEF PlayAccepted

LEMMA PlayCallKeeps ==
    ASSUME Play!IInv, NEW c \in Requests, Play!Call(c)
    PROVE  Play!IInv'
<1>1. Play!TypeOK /\ PlayShell /\ Play!Guarded /\ (Play!Regular => Play!Counted)
  BY DEF Play!IInv, PlayShell
<1>2. /\ Play!TypeOK' /\ PlayCallEffect(c)
      /\ \/ PlayShrinks(c) \/ Play!ReadPrevious(c) \/ PlayAccepted(c) \/ PlaySpent(c)
            \/ PlayCharged(c) \/ PlayRolled(c)
  BY <1>1, PlayRequestStep, PlayLockStep, PlayGateStep, PlayCloseGuardStep, PlayReadStep,
       PlayVerifyStep, PlayRevalidateStep, PlayPayStep, PlayCommitStep,
     PlayPersistStep, PlayCheckCoveredStep, PlayAbsorbStep, PlayRollStep, PlayFenceStep,
     PlayReleaseStep DEF Play!Call
<1>3. PlayShell'
  BY <1>1, <1>2, PlayCallShell
<1>4. ASSUME Play!Regular' PROVE Play!Counted'
  <2>1. Play!Regular /\ Play!Counted /\ PlayMoved(c) /\ "overtaken" \notin playSlips'
    BY <1>1, <1>2, <1>4 DEF Play!Regular, PlayCallEffect
  <2>2. CASE PlayShrinks(c)
    BY <1>1, <1>2, <2>1, <2>2, PlayCallShrinks
  <2>3. CASE Play!ReadPrevious(c)
    BY <1>1, <1>2, <2>1, <2>3, PlayReadCounts
  <2>4. CASE PlayAccepted(c)
    <3>1. playLock.id = c
      BY <2>1, <2>4 DEF PlayAccepted
    <3>. QED BY <1>1, <1>2, <2>1, <2>4, <3>1, PlayAcceptedCounts
  <2>5. CASE PlaySpent(c)
    BY <1>1, <1>2, <2>1, <2>5, PlaySpentCounts
  <2>6. CASE PlayCharged(c)
    BY <1>1, <1>2, <2>1, <2>6, PlayChargedCounts
  <2>7. CASE PlayRolled(c)
    BY <1>1, <1>2, <2>1, <2>7, PlayRolledCounts
  <2>. QED BY <1>2, <2>2, <2>3, <2>4, <2>5, <2>6, <2>7
<1>. QED BY <1>2, <1>3, <1>4 DEF Play!IInv, PlayShell

-----------------------------------------------------------------------------
(* The steps of the playCron, of the playLock's time and of the funder.            *)

\* No call moves and nothing is counted.
PlayRestEffect ==
    /\ UNCHANGED <<playProc, playMark, playPaid, playCharged>>
    /\ playStored'.cum = playStored.cum /\ playSlips \subseteq playSlips'
    /\ playBlocked => playBlocked'
    /\ \A c \in Requests : /\ playLock'.id = c => playLock.id = c
                           /\ playLock = [id |-> c, live |-> TRUE] /\ Play!At(c, "persist")
                              => playLock' = playLock

LEMMA PlayRestKeeps ==
    ASSUME Play!IInv, Play!TypeOK', PlayRestEffect,
           playCron'.pc = "mark" => playLock' = [id |-> Cron, live |-> TRUE], Play!Collected',
           Play!Recorded'
    PROVE  Play!IInv'
<1>1. Play!TypeOK /\ Play!Guarded /\ (Play!Regular => Play!Counted)
  BY DEF Play!IInv
<1>2. Play!Guarded'
  BY <1>1 DEF Play!Guarded, PlayRestEffect, Play!At, Play!CronAt
<1>3. ASSUME Play!Regular' PROVE Play!Counted'
  <2>1. Play!Counted
    BY <1>1, <1>3 DEF Play!Regular, PlayRestEffect
  <2>2. /\ Play!Pending' = Play!Pending /\ Play!Charging' = Play!Charging
           /\ Play!Paying' = Play!Paying /\ Play!Unpaid' = Play!Unpaid
        /\ Play!Verifying' \subseteq Play!Verifying
    BY DEF PlayRestEffect, Play!Pending, Play!Charging, Play!Paying, Play!Unpaid, Play!Verifying
  <2>3. playStored'.cum >= playStored.cum
    BY <1>1 DEF PlayRestEffect, Play!TypeOK
  <2>. QED BY <1>1, <2>1, <2>2, <2>3, PlayCountShrinks DEF PlayRestEffect
<1>. QED BY <1>2, <1>3 DEF Play!IInv

LEMMA PlaySealedStays ==
    ASSUME PlayRestEffect, Play!Sealed
    PROVE  Play!Sealed'
  BY DEF PlayRestEffect, Play!Sealed, Play!Own

LEMMA PlayCronTyped ==
    ASSUME Play!TypeOK, NEW l \in Play!CronSteps, Play!CronGo(l)
    PROVE  /\ playCron' \in Play!Passes /\ playCron'.pc = l
           /\ playCron'.cum = playCron.cum /\ playCron'.closing = playCron.closing
              /\ playCron'.empty = playCron.empty
  BY DEF Play!TypeOK, Play!Passes, Play!CronGo

LEMMA PlayCronTypes ==
    ASSUME Play!TypeOK,
           UNCHANGED <<playReg, playProc, playTold, playMark, playPaid, playCharged, playLeft>>,
           playCron' \in Play!Passes, playSlips' \subseteq {"overtaken", "unmarked"},
           playLock' \in [id : Requests \cup {Cron, Nobody}, live : BOOLEAN],
           playStored' \in [cum : Nat, settled : Nat], playBlocked' \in BOOLEAN,
           playChain' \in [st : Play!States, got : Nat], playWrittenOff' \in BOOLEAN
    PROVE  Play!TypeOK'
  BY DEF Play!TypeOK

\* What a step of the cron leaves alone.
LEMMA PlayCronLeaves ==
    ASSUME Play!OnlyCron
    PROVE  UNCHANGED <<playReg, playProc, playTold, playMark, playPaid, playCharged, playSlips,
                       playLeft>>
  BY DEF Play!OnlyCron, Play!past

LEMMA PlaySettleLockKeeps ==
    ASSUME Play!IInv, Play!SettleLock
    PROVE  Play!IInv'
<1>1. /\ Play!TypeOK /\ Play!Guarded /\ Play!Collected /\ Play!Recorded
      /\ UNCHANGED <<playReg, playProc, playTold, playMark, playPaid, playCharged, playSlips, playLeft,
                     playStored, playBlocked, playChain, playWrittenOff>>
      /\ playCron.pc = "idle" /\ playLock.live = FALSE /\ playLock' = [id |-> Cron, live |-> TRUE]
      /\ playStored.cum > 0 /\ (playStored.cum > playStored.settled \/ ~playBlocked)
  BY PlayCronLeaves DEF Play!IInv, Play!SettleLock, Play!CronAt, Play!Acquire, Play!ToSettle,
       Play!TypeOK
<1>2. /\ playCron' \in Play!Passes /\ playCron'.pc = "voucher" /\ playCron'.cum = playCron.cum
      /\ playCron'.closing = playCron.closing /\ playCron'.empty = playCron.empty
  BY <1>1, PlayCronTyped DEF Play!SettleLock, Play!CronSteps
<1>3. Play!TypeOK'
  BY <1>1, <1>2, PlayLockTyped, PlayCronTypes DEF Play!TypeOK, Play!SettleLock
<1>4. PlayRestEffect
  BY <1>1, PlayConstants DEF PlayRestEffect
<1>5. Play!Collected'
  BY <1>1, <1>2, <1>4, PlaySealedStays DEF Play!Collected, Play!CronAt
<1>6. playChain.st = "closed" => playBlocked
  BY <1>1 DEF Play!Collected, Play!Sealed
<1>7. Play!Recorded'
  BY <1>1, <1>2, <1>6 DEF Play!Recorded, Play!CronAt, Play!TypeOK
<1>. QED BY <1>2, <1>3, <1>4, <1>5, <1>7, PlayRestKeeps

LEMMA PlaySettleReadKeeps ==
    ASSUME Play!IInv, Play!SettleRead
    PROVE  Play!IInv'
<1>1. /\ Play!TypeOK /\ Play!Collected /\ Play!Recorded
      /\ UNCHANGED <<playReg, playProc, playTold, playMark, playPaid, playCharged, playSlips, playLeft,
                     playLock, playStored, playBlocked, playChain, playWrittenOff>>
      /\ playCron.pc = "voucher" /\ playStored.cum \in Nat /\ playCron \in Play!Passes
  BY PlayCronLeaves DEF Play!IInv, Play!SettleRead, Play!CronAt, Play!TypeOK
<1>2. /\ playCron' \in Play!Passes /\ playCron'.pc = "state" /\ playCron'.cum = playStored.cum
      /\ playCron'.closing = playCron.closing /\ playCron'.empty = playCron.empty
  BY <1>1 DEF Play!SettleRead, Play!CronSteps, Play!Passes
<1>3. Play!TypeOK'
  BY <1>1, <1>2, PlayCronTypes DEF Play!TypeOK
<1>4. PlayRestEffect
  BY <1>1 DEF PlayRestEffect
<1>5. Play!Collected'
  BY <1>1, <1>2, <1>4, PlaySealedStays DEF Play!Collected, Play!CronAt
<1>6. Play!Recorded'
  BY <1>1, <1>2 DEF Play!Recorded, Play!CronAt
<1>. QED BY <1>2, <1>3, <1>4, <1>5, <1>6, PlayRestKeeps

LEMMA PlaySettleStateKeeps ==
    ASSUME Play!IInv, Play!SettleState
    PROVE  Play!IInv'
<1>1. /\ Play!TypeOK /\ Play!Collected /\ Play!Recorded
      /\ UNCHANGED <<playReg, playProc, playTold, playMark, playPaid, playCharged, playSlips, playLeft,
                     playLock, playStored, playChain, playWrittenOff>>
      /\ playCron.pc = "state"
         /\ playCron \in [pc : Play!CronSteps, cum : Nat, closing : BOOLEAN, empty : BOOLEAN]
      /\ playBlocked \in BOOLEAN
  BY PlayCronLeaves DEF Play!IInv, Play!SettleState, Play!CronAt, Play!TypeOK, Play!Passes
<1>2. /\ playBlocked' = playBlocked \/ playBlocked' = TRUE
      /\ playCron' \in Play!Passes /\ playCron'.pc \in {"revalidate", "release"}
         /\ playCron'.cum = playCron.cum
      /\ playCron'.closing /\ playCron'.empty => playChain.st \in {"refunded", "closed"}
  <2>1. CASE Play!CronEnd /\ UNCHANGED playBlocked
    <3>1. Play!CronGo("release") /\ "release" \in Play!CronSteps
      BY <2>1 DEF Play!CronEnd, Play!CronSteps
    <3>2. /\ playCron' \in Play!Passes /\ playCron'.pc = "release" /\ playCron'.cum = playCron.cum
          /\ playCron'.closing = playCron.closing /\ playCron'.empty = playCron.empty
      BY <1>1, <3>1, PlayCronTyped
    <3>. QED BY <1>1, <2>1, <3>2 DEF Play!Recorded
  <2>2. CASE ~(Play!CronEnd /\ UNCHANGED playBlocked)
    <3>1. PICK b, l : /\ l \in {"revalidate", "release"} /\ b = (playChain.st # "open")
                      /\ playBlocked' \in {TRUE, playBlocked}
                      /\ playCron' = [playCron EXCEPT !.closing = b,
                                      !.empty = playChain.st \in {"refunded", "closed"}, !.pc = l]
      BY <2>2 DEF Play!SettleState
    <3>2. PICK e \in BOOLEAN : e = (playChain.st \in {"refunded", "closed"})
      <4>1. (playChain.st \in {"refunded", "closed"}) \in BOOLEAN
        OBVIOUS
      <4>. QED BY <4>1, Zenon
    <3>3. b \in BOOLEAN /\ l \in Play!CronSteps
      BY <3>1 DEF Play!CronSteps
    <3>4. playCron' = [playCron EXCEPT !.closing = b, !.empty = e, !.pc = l]
      BY <3>1, <3>2
    <3>5. playCron' \in Play!Passes /\ playCron'.pc = l /\ playCron'.cum = playCron.cum
          /\ playCron'.empty = e
      BY <1>1, <3>2, <3>3, <3>4 DEF Play!Passes
    <3>. QED BY <3>1, <3>2, <3>5
  <2>. QED BY <2>1, <2>2
<1>3. Play!TypeOK'
  BY <1>1, <1>2, PlayCronTypes DEF Play!TypeOK
<1>4. PlayRestEffect
  BY <1>1, <1>2 DEF PlayRestEffect
<1>5. Play!Collected'
  BY <1>1, <1>2, <1>4, PlaySealedStays DEF Play!Collected, Play!CronAt, Play!Own
<1>6. Play!Recorded'
  BY <1>1, <1>2 DEF Play!Recorded, Play!CronAt
<1>. QED BY <1>2, <1>3, <1>4, <1>5, <1>6, PlayRestKeeps

LEMMA PlaySettleRevalidateKeeps ==
    ASSUME Play!IInv, Play!SettleRevalidate
    PROVE  Play!IInv'
<1>1. /\ Play!TypeOK /\ Play!Collected /\ Play!Recorded
      /\ UNCHANGED <<playReg, playProc, playTold, playMark, playPaid, playCharged, playSlips, playLeft,
                     playStored, playBlocked, playChain, playWrittenOff>>
      /\ playCron.pc = "revalidate"
      /\ IF playLock.id = Cron THEN playLock' = [id |-> Cron, live |-> TRUE] ELSE playLock' = playLock
  BY PlayCronLeaves, PlayLockTyped DEF Play!IInv, Play!SettleRevalidate, Play!CronAt, Play!TypeOK
<1>2. PICK l \in Play!CronSteps : l = IF playLock.id = Cron THEN "mark" ELSE "release"
  BY DEF Play!CronSteps
<1>3. /\ playCron' \in Play!Passes /\ playCron'.pc = l /\ playCron'.cum = playCron.cum
      /\ playCron'.closing = playCron.closing /\ playCron'.empty = playCron.empty
  BY <1>1, <1>2, PlayCronTyped DEF Play!SettleRevalidate, Play!Own
<1>4. Play!TypeOK'
  BY <1>1, <1>3, PlayLockTyped, PlayCronTypes DEF Play!TypeOK, Play!SettleRevalidate
<1>5. PlayRestEffect
  BY <1>1, PlayConstants DEF PlayRestEffect
<1>6. Play!Collected'
  BY <1>1, <1>2, <1>3, <1>5, PlaySealedStays DEF Play!Collected, Play!CronAt, Play!Own
<1>7. Play!Recorded'
  BY <1>1, <1>2, <1>3 DEF Play!Recorded, Play!CronAt
<1>8. playCron'.pc = "mark" => playLock' = [id |-> Cron, live |-> TRUE]
  BY <1>1, <1>2, <1>3
<1>. QED BY <1>4, <1>5, <1>6, <1>7, <1>8, PlayRestKeeps

LEMMA PlaySettleMarkKeeps ==
    ASSUME Play!IInv, Play!SettleMark
    PROVE  Play!IInv'
<1>1. /\ Play!TypeOK /\ Play!Guarded /\ Play!Collected /\ Play!Recorded
      /\ UNCHANGED <<playReg, playProc, playTold, playMark, playPaid, playCharged, playSlips, playLeft,
                     playLock, playStored, playChain, playWrittenOff>>
      /\ playCron.pc = "mark" /\ playBlocked' = TRUE
  BY PlayCronLeaves DEF Play!IInv, Play!SettleMark, Play!CronAt
<1>2. PICK l \in Play!CronSteps : l = IF playCron.closing /\ playCron.empty THEN "writeoff" ELSE "close"
  BY DEF Play!CronSteps
<1>3. /\ playCron' \in Play!Passes /\ playCron'.pc = l /\ playCron'.cum = playCron.cum
      /\ playCron'.closing = playCron.closing /\ playCron'.empty = playCron.empty
  BY <1>1, <1>2, PlayCronTyped DEF Play!SettleMark
<1>4. Play!TypeOK'
  BY <1>1, <1>3, PlayCronTypes DEF Play!TypeOK
<1>5. PlayRestEffect
  BY <1>1 DEF PlayRestEffect
<1>6. Play!Sealed' /\ playCron.cum = playStored.cum
  <2>1. playLock' = [id |-> Cron, live |-> TRUE] /\ Cron \notin Requests
    BY <1>1, PlayConstants DEF Play!Guarded, Play!CronAt
  <2>. QED BY <1>1, <2>1 DEF Play!Sealed, Play!Own, Play!Collected, Play!CronAt
<1>7. Play!Collected'
  BY <1>1, <1>2, <1>3, <1>6 DEF Play!Collected, Play!CronAt
<1>8. Play!Recorded'
  BY <1>1, <1>2, <1>3 DEF Play!Recorded, Play!CronAt
<1>9. playCron'.pc # "mark"
  BY <1>2, <1>3
<1>. QED BY <1>4, <1>5, <1>7, <1>8, <1>9, PlayRestKeeps

LEMMA PlaySettleCloseKeeps ==
    ASSUME Play!IInv, Play!SettleClose
    PROVE  Play!IInv'
<1>1. /\ Play!TypeOK /\ Play!Collected /\ Play!Recorded
      /\ UNCHANGED <<playReg, playProc, playTold, playMark, playPaid, playCharged, playLeft, playLock,
                     playStored, playBlocked, playWrittenOff>>
      /\ playCron.pc = "close" /\ Play!Sealed /\ playCron.cum = playStored.cum /\ playStored.cum \in Nat
      /\ playSlips \subseteq {"overtaken", "unmarked"}
  BY DEF Play!IInv, Play!SettleClose, Play!CronAt, Play!Collected, Play!money, Play!past,
       Play!TypeOK
<1>2. PICK l \in {"settled", "release", "writeoff"} :
          /\ Play!CronGo(l)
          /\ \/ /\ playChain.st \in {"open", "closing"}
                   /\ playChain' = [st |-> "closed", got |-> playCron.cum]
                /\ \/ l = "settled" /\ playSlips' = playSlips
                   \/ l = "release" /\ playSlips' = playSlips \cup {"unmarked"}
             \/ l = "release" /\ playChain' = playChain /\ playSlips' = playSlips
             \/ l = "writeoff" /\ playChain.st \in {"refunded", "closed"} /\ playChain' = playChain
                /\ playSlips' = playSlips
  BY DEF Play!SettleClose, Play!CronEnd
<1>3. /\ playCron' \in Play!Passes /\ playCron'.pc = l /\ playCron'.cum = playCron.cum
      /\ playCron'.closing = playCron.closing /\ playCron'.empty = playCron.empty
  BY <1>1, <1>2, PlayCronTyped DEF Play!CronSteps
<1>4. /\ playChain' \in [st : Play!States, got : Nat] /\ playSlips \subseteq playSlips'
      /\ playSlips' \subseteq {"overtaken", "unmarked"}
  <2>1. playSlips \subseteq playSlips' /\ playSlips' \subseteq {"overtaken", "unmarked"}
    BY <1>1, <1>2
  <2>2. playChain \in [st : Play!States, got : Nat] /\ [st |-> "closed", got |-> playCron.cum]
        \in [st : Play!States, got : Nat]
    BY <1>1 DEF Play!TypeOK, Play!States
  <2>3. playChain' = playChain \/ playChain' = [st |-> "closed", got |-> playCron.cum]
    BY <1>2
  <2>. QED BY <2>1, <2>2, <2>3
<1>5. Play!TypeOK'
  BY <1>1, <1>3, <1>4, PlayCronTypes DEF Play!TypeOK
<1>6. PlayRestEffect
  BY <1>1, <1>4 DEF PlayRestEffect
<1>7. Play!Collected'
  BY <1>1, <1>2, <1>3, <1>6, PlaySealedStays DEF Play!Collected, Play!CronAt
<1>8. Play!Recorded'
  BY <1>1, <1>2, <1>3 DEF Play!Recorded, Play!CronAt
<1>9. playCron'.pc # "mark"
  BY <1>2, <1>3
<1>. QED BY <1>5, <1>6, <1>7, <1>8, <1>9, PlayRestKeeps

LEMMA PlaySettleWriteOffKeeps ==
    ASSUME Play!IInv, Play!SettleWriteOff
    PROVE  Play!IInv'
<1>1. /\ Play!TypeOK /\ Play!Collected /\ Play!Recorded
      /\ UNCHANGED <<playReg, playProc, playTold, playMark, playPaid, playCharged, playSlips, playLeft,
                     playLock, playStored, playBlocked, playChain>>
      /\ playCron.pc = "writeoff" /\ playWrittenOff' = TRUE
  BY PlayCronLeaves DEF Play!IInv, Play!SettleWriteOff, Play!CronAt
<1>2. /\ playCron' \in Play!Passes /\ playCron'.pc = "settled" /\ playCron'.cum = playCron.cum
      /\ playCron'.closing = playCron.closing /\ playCron'.empty = playCron.empty
  BY <1>1, PlayCronTyped DEF Play!SettleWriteOff, Play!CronSteps
<1>3. Play!TypeOK'
  BY <1>1, <1>2, PlayCronTypes DEF Play!TypeOK
<1>4. PlayRestEffect
  BY <1>1 DEF PlayRestEffect
<1>5. Play!Collected'
  BY <1>1, <1>2, <1>4, PlaySealedStays DEF Play!Collected, Play!CronAt
<1>6. Play!Recorded'
  BY <1>1, <1>2 DEF Play!Recorded, Play!CronAt
<1>. QED BY <1>2, <1>3, <1>4, <1>5, <1>6, PlayRestKeeps

LEMMA PlaySettleDoneKeeps ==
    ASSUME Play!IInv, Play!SettleDone
    PROVE  Play!IInv'
<1>1. /\ Play!TypeOK /\ Play!Collected /\ Play!Recorded
      /\ UNCHANGED <<playReg, playProc, playTold, playMark, playPaid, playCharged, playSlips, playLeft,
                     playLock, playBlocked, playChain, playWrittenOff>>
      /\ playCron.pc = "settled" /\ playCron.cum = playStored.cum /\ playCron.cum \in Nat
      /\ playStored \in [cum : Nat, settled : Nat]
  BY PlayCronLeaves DEF Play!IInv, Play!SettleDone, Play!CronAt, Play!Collected, Play!TypeOK,
       Play!Passes
<1>2. /\ playCron' \in Play!Passes /\ playCron'.pc = "release" /\ playCron'.cum = playCron.cum
      /\ playCron'.closing = playCron.closing /\ playCron'.empty = playCron.empty
  BY <1>1, PlayCronTyped DEF Play!SettleDone, Play!CronEnd, Play!CronSteps
<1>3. /\ playStored' \in [cum : Nat, settled : Nat] /\ playStored'.cum = playStored.cum
      /\ playStored'.settled >= playStored'.cum
  BY <1>1 DEF Play!SettleDone, Play!Max2
<1>4. Play!TypeOK'
  BY <1>1, <1>2, <1>3, PlayCronTypes DEF Play!TypeOK
<1>5. PlayRestEffect
  BY <1>1, <1>3 DEF PlayRestEffect
<1>6. Play!Collected'
  BY <1>1, <1>2, <1>3, <1>5, PlaySealedStays DEF Play!Collected, Play!CronAt
<1>7. Play!Recorded'
  BY <1>1, <1>2, <1>3 DEF Play!Recorded, Play!CronAt
<1>. QED BY <1>2, <1>4, <1>5, <1>6, <1>7, PlayRestKeeps

LEMMA PlayCronIdleTyped == /\ Play!CronIdle \in Play!Passes /\ Play!CronIdle.pc = "idle"
                           /\ Play!CronIdle.closing = FALSE /\ Play!CronIdle.empty = FALSE
  BY DEF Play!CronIdle, Play!Passes, Play!CronSteps

LEMMA PlaySettleReleaseKeeps ==
    ASSUME Play!IInv, Play!SettleRelease
    PROVE  Play!IInv'
<1>1. /\ Play!TypeOK /\ Play!Collected /\ Play!Recorded
      /\ UNCHANGED <<playReg, playProc, playTold, playMark, playPaid, playCharged, playSlips, playLeft,
                     playStored, playBlocked, playChain, playWrittenOff>>
      /\ playCron.pc = "release" /\ playCron' = Play!CronIdle
      /\ IF playLock.id = Cron THEN playLock' = [id |-> Nobody, live |-> FALSE]
         ELSE playLock' = playLock
  BY PlayCronLeaves, PlayLockTyped DEF Play!IInv, Play!SettleRelease, Play!CronAt
<1>2. Play!TypeOK'
  BY <1>1, PlayCronIdleTyped, PlayLockTyped, PlayCronTypes DEF Play!TypeOK, Play!SettleRelease
<1>3. PlayRestEffect
  BY <1>1, PlayConstants DEF PlayRestEffect
<1>4. Play!Collected'
  BY <1>1, <1>3, PlayCronIdleTyped, PlaySealedStays DEF Play!Collected, Play!CronAt
<1>5. Play!Recorded'
  BY <1>1, PlayCronIdleTyped DEF Play!Recorded, Play!CronAt
<1>6. playCron'.pc # "mark"
  BY <1>1, PlayCronIdleTyped
<1>. QED BY <1>2, <1>3, <1>4, <1>5, <1>6, PlayRestKeeps

LEMMA PlayCronDiesKeeps ==
    ASSUME Play!IInv, Play!CronDies
    PROVE  Play!IInv'
<1>1. /\ Play!TypeOK /\ Play!Collected /\ Play!Recorded
      /\ UNCHANGED <<playReg, playProc, playTold, playMark, playPaid, playCharged, playLeft, playLock,
                     playStored, playBlocked, playChain, playWrittenOff>>
      /\ playCron.pc \notin {"idle", "release"} /\ playCron' = Play!CronIdle
      /\ playSlips' = IF playCron.pc = "settled" THEN playSlips \cup {"unmarked"} ELSE playSlips
      /\ playSlips \subseteq {"overtaken", "unmarked"}
  BY DEF Play!IInv, Play!CronDies, Play!CronAt, Play!money, Play!past, Play!TypeOK
<1>2. playSlips \subseteq playSlips' /\ playSlips' \subseteq {"overtaken", "unmarked"}
  BY <1>1
<1>3. Play!TypeOK'
  BY <1>1, <1>2, PlayCronIdleTyped, PlayCronTypes DEF Play!TypeOK
<1>4. PlayRestEffect
  BY <1>1, <1>2 DEF PlayRestEffect
<1>5. Play!Collected'
  BY <1>1, <1>4, PlayCronIdleTyped, PlaySealedStays DEF Play!Collected, Play!CronAt
<1>6. Play!Recorded'
  BY <1>1, <1>2, PlayCronIdleTyped DEF Play!Recorded, Play!CronAt
<1>7. playCron'.pc # "mark"
  BY <1>1, PlayCronIdleTyped
<1>. QED BY <1>3, <1>4, <1>5, <1>6, <1>7, PlayRestKeeps

LEMMA PlayLockExpiresKeeps ==
    ASSUME Play!IInv, Play!LockExpires
    PROVE  Play!IInv'
<1>1. /\ Play!TypeOK /\ Play!Guarded /\ Play!Collected /\ Play!Recorded
      /\ UNCHANGED <<playReg, playProc, playTold, playMark, playPaid, playCharged, playSlips, playLeft,
                     playStored, playBlocked, playChain, playWrittenOff, playCron>>
      /\ playLock \in [id : Requests \cup {Cron, Nobody}, live : BOOLEAN]
      /\ playLock' = [playLock EXCEPT !.live = FALSE]
      /\ Cron \notin Requests
  BY PlayConstants DEF Play!IInv, Play!LockExpires, Play!money, Play!past, Play!TypeOK
<1>2. playLock' \in [id : Requests \cup {Cron, Nobody}, live : BOOLEAN] /\ playLock'.id = playLock.id
  BY <1>1
<1>3. ~(playLock.id = Cron /\ playCron.pc = "mark") /\ \A c
      \in Requests : ~(playLock.id = c /\ Play!At(c, "persist"))
  BY <1>1 DEF Play!LockExpires, Play!Renewed, Play!CronAt
<1>4. Play!TypeOK'
  BY <1>1, <1>2, PlayCronTypes DEF Play!TypeOK
<1>5. PlayRestEffect
  BY <1>1, <1>2, <1>3 DEF PlayRestEffect
<1>6. Play!Collected'
  BY <1>1, <1>2, <1>5, PlaySealedStays DEF Play!Collected, Play!CronAt, Play!Own
<1>7. Play!Recorded'
  BY <1>1 DEF Play!Recorded, Play!CronAt
<1>8. playCron'.pc # "mark"
  BY <1>1, <1>3 DEF Play!Guarded, Play!CronAt
<1>. QED BY <1>4, <1>5, <1>6, <1>7, <1>8, PlayRestKeeps

LEMMA PlayFunderKeeps ==
    ASSUME Play!IInv, Play!Funder
    PROVE  Play!IInv'
<1>1. /\ Play!TypeOK /\ Play!Guarded /\ Play!Collected /\ Play!Recorded
      /\ UNCHANGED <<playReg, playProc, playTold, playMark, playPaid, playCharged, playSlips, playLeft,
                     playLock, playStored, playBlocked, playWrittenOff, playCron>>
      /\ playChain \in [st : Play!States, got : Nat]
  BY DEF Play!IInv, Play!Funder, Play!money, Play!past, Play!TypeOK
<1>2. /\ playChain.st \in {"open", "closing"} /\ playChain'.st \in {"closing", "refunded"}
      /\ playChain' \in [st : Play!States, got : Nat]
  BY <1>1 DEF Play!Funder, Play!States
<1>3. Play!TypeOK'
  BY <1>1, <1>2, PlayCronTypes DEF Play!TypeOK
<1>4. PlayRestEffect
  BY <1>1 DEF PlayRestEffect
<1>5. Play!Collected'
  BY <1>1, <1>2, <1>4, PlaySealedStays DEF Play!Collected, Play!CronAt, Play!Own
<1>6. Play!Recorded'
  BY <1>1, <1>2 DEF Play!Recorded, Play!CronAt
<1>. QED BY <1>1, <1>3, <1>4, <1>5, <1>6, PlayRestKeeps DEF Play!Guarded, Play!CronAt

LEMMA PlayRegisterKeeps ==
    ASSUME Play!IInv, Play!Register \/ Play!Replay
    PROVE  Play!IInv'
<1>1. /\ Play!TypeOK /\ Play!Guarded /\ Play!Collected /\ Play!Recorded
      /\ UNCHANGED <<playProc, playMark, playPaid, playCharged, playSlips, playLeft, playLock,
                     playStored, playBlocked, playChain, playWrittenOff, playCron>>
      /\ playTold' \in BOOLEAN /\ playReg' \in [deposit : Nat, agent : BOOLEAN]
  <2>1. \A b \in BOOLEAN : [deposit |-> PlayDeposit, agent |-> b] \in [deposit : Nat, agent : BOOLEAN]
    BY PlayConstants
  <2>2. CASE Play!Register
    <3>1. PICK b \in BOOLEAN : playReg' = [deposit |-> PlayDeposit, agent |-> b] /\ playTold' = b
      BY <2>2 DEF Play!Register
    <3>. QED BY <2>1, <2>2, <3>1 DEF Play!IInv, Play!Register, Play!money, Play!past
  <2>3. CASE Play!Replay
    BY <2>3 DEF Play!IInv, Play!Replay, Play!money, Play!past, Play!TypeOK
  <2>. QED BY <2>2, <2>3
<1>2. Play!TypeOK'
  BY <1>1 DEF Play!TypeOK
<1>3. PlayRestEffect
  BY <1>1 DEF PlayRestEffect
<1>4. Play!Collected'
  BY <1>1, <1>3, PlaySealedStays DEF Play!Collected, Play!CronAt, Play!Own
<1>5. Play!Recorded'
  BY <1>1 DEF Play!Recorded, Play!CronAt
<1>. QED BY <1>1, <1>2, <1>3, <1>4, <1>5, PlayRestKeeps DEF Play!Guarded, Play!CronAt

LEMMA PlayStutterKeeps ==
    ASSUME Play!IInv, UNCHANGED Play!vars
    PROVE  Play!IInv'
<1>1. /\ Play!TypeOK /\ Play!Guarded /\ Play!Collected /\ Play!Recorded
      /\ UNCHANGED <<playReg, playTold, playProc, playMark, playPaid, playCharged, playSlips, playLeft,
                     playLock, playStored, playBlocked, playChain, playWrittenOff, playCron>>
  BY DEF Play!IInv, Play!vars, Play!money, Play!past
<1>2. Play!TypeOK'
  BY <1>1 DEF Play!TypeOK
<1>3. PlayRestEffect
  BY <1>1 DEF PlayRestEffect
<1>4. Play!Collected'
  BY <1>1, <1>3, PlaySealedStays DEF Play!Collected, Play!CronAt, Play!Own
<1>5. Play!Recorded'
  BY <1>1 DEF Play!Recorded, Play!CronAt
<1>. QED BY <1>1, <1>2, <1>3, <1>4, <1>5, PlayRestKeeps DEF Play!Guarded, Play!CronAt

LEMMA PlayInitKeeps == Play!Init => Play!IInv
<1>. SUFFICES ASSUME Play!Init PROVE Play!IInv
  OBVIOUS
<1>1. /\ playReg = [deposit |-> 0, agent |-> FALSE] /\ playLock = [id |-> Nobody, live |-> FALSE]
      /\ playMark = 0 /\ playStored = [cum |-> 0, settled |-> 0] /\ playBlocked = FALSE
      /\ playChain = [st |-> "open", got |-> 0]
      /\ playProc = [c \in Requests |-> Play!Idle] /\ playCron = Play!CronIdle
      /\ playTold = FALSE /\ playPaid = 0 /\ playCharged = 0 /\ playWrittenOff = FALSE
         /\ playSlips = {} /\ playLeft = MaxCalls
  BY DEF Play!Init
<1>2. playProc \in [Requests -> Play!Locals] /\ \A c \in Requests : playProc[c].pc = "idle"
  BY <1>1, PlayIdleTyped
<1>3. Play!TypeOK
  <2>1. playCron \in Play!Passes /\ playLeft \in Nat
    BY <1>1, PlayCronIdleTyped, PlayConstants
  <2>2. /\ playReg \in [deposit : Nat, agent : BOOLEAN]
           /\ playLock \in [id : Requests \cup {Cron, Nobody}, live : BOOLEAN]
        /\ playStored \in [cum : Nat, settled : Nat] /\ playChain \in [st : Play!States, got : Nat]
    BY <1>1 DEF Play!States
  <2>. QED BY <1>1, <1>2, <2>1, <2>2 DEF Play!TypeOK
<1>4. Play!Guarded /\ Play!Collected /\ Play!Recorded
  BY <1>1, <1>2, PlayCronIdleTyped DEF Play!Guarded, Play!Collected, Play!Recorded, Play!At,
       Play!CronAt
<1>5. Play!Pending = {} /\ Play!Charging = {} /\ Play!Paying = {} /\ Play!Unpaid = {}
      /\ Play!Verifying = {}
  BY <1>2 DEF Play!Pending, Play!Charging, Play!Paying, Play!Unpaid, Play!Verifying, Play!ToCharge,
       Play!ToEnd, Play!ToPay, Play!ToReverse
<1>6. Play!Ordered(Play!Pending, Play!Verifying, Play!Asked, Play!Read, playMark)
  BY <1>5 DEF Play!Ordered
<1>7. Play!Cardinality({}) = 0 /\ Play!Below({}, Play!Asked, 0) = {}
  BY PlayEmptySet DEF Play!Below
<1>8. 0 \in 0 .. playMark /\ 0 <= playStored.cum
  BY <1>1
<1>9. /\ Play!Floor(Play!Charging, Play!Pending, Play!Verifying, Play!Asked, Play!Read, playMark,
                    playCharged, 0)
      /\ Play!Floor(Play!Paying, Play!Unpaid, Play!Verifying, Play!Asked, Play!Read, playMark,
                    playPaid, 0)
  BY <1>1, <1>5, <1>7 DEF Play!Floor
<1>10. Play!Counted
  BY <1>6, <1>8, <1>9 DEF Play!Counted
<1>. QED BY <1>3, <1>4, <1>10 DEF Play!IInv

LEMMA PlayNextKeeps == Play!IInv /\ [Play!Next]_Play!vars => Play!IInv'
  BY PlayCallKeeps, PlaySettleLockKeeps, PlaySettleReadKeeps, PlaySettleStateKeeps,
       PlaySettleRevalidateKeeps, PlaySettleMarkKeeps,
     PlaySettleCloseKeeps, PlaySettleWriteOffKeeps, PlaySettleDoneKeeps, PlaySettleReleaseKeeps,
     PlayCronDiesKeeps, PlayLockExpiresKeeps,
     PlayFunderKeeps, PlayRegisterKeeps, PlayStutterKeeps DEF Play!Next, Play!Settlement

\* The invariant of the playground's channels, for any number of calls, deposit,
\* threshold and calls per channel: vouchers are taken in order, what was charged
\* is recorded below the mark, and what the collector took is what it read.
THEOREM PlayInvariant == Play!Spec => []Play!IInv
  BY PlayInitKeeps, PlayNextKeeps, PTL DEF Play!Spec

LEMMA PlayIInvSafe ==
    ASSUME Play!IInv
    PROVE  Play!ReportedIsRedeemable /\ Play!CloseTakesAll /\ Play!LossIsBounded /\ Play!WriteOffIsLoss
<1>1. /\ Play!TypeOK /\ Play!Collected /\ Play!Recorded /\ (Play!Regular => Play!Counted)
      /\ playCharged \in Nat /\ playPaid \in Nat /\ playMark \in Nat /\ playStored.cum \in Nat
  BY DEF Play!IInv, Play!TypeOK
<1>2. Play!Cardinality(Play!Paying) \in Nat
  BY PlayFinite, PlayCardinalityType
<1>3. ASSUME Play!Regular PROVE playCharged <= playStored.cum
  <2>1. PICK f \in 0 .. playMark : f <= playStored.cum
                                   /\ Play!Floor(Play!Charging, Play!Pending, Play!Verifying,
                                                 Play!Asked, Play!Read, playMark, playCharged, f)
    BY <1>1, <1>3 DEF Play!Counted
  <2>2. Play!Below(Play!Charging, Play!Asked, f) \subseteq Play!Charging
    BY DEF Play!Below
  <2>3. Play!Cardinality(Play!Below(Play!Charging, Play!Asked, f)) \in Nat
    BY <2>2, PlayFinite, PlaySubset, PlayCardinalityType
  <2>. QED BY <1>1, <2>1, <2>3 DEF Play!Floor
<1>4. ASSUME Play!Regular, ~playBlocked PROVE playPaid <= playMark
  <2>1. PICK f \in 0 .. playMark : Play!Floor(Play!Paying, Play!Unpaid, Play!Verifying, Play!Asked,
                                              Play!Read, playMark, playPaid, f)
    BY <1>1, <1>4 DEF Play!Counted
  <2>. QED BY <1>1, <1>2, <2>1 DEF Play!Floor
<1>. QED BY <1>1, <1>3, <1>4 DEF Play!ReportedIsRedeemable, Play!CloseTakesAll, Play!LossIsBounded,
     Play!WriteOffIsLoss, Play!Collected, Play!Recorded

\* The four properties of the playground's channels: what a caller was told it
\* paid can be redeemed, a close takes all of it, what was paid upstream is held
\* against the deposit, and a write-off is a loss.
THEOREM PlaySafe == Play!Spec
=> [](Play!ReportedIsRedeemable /\ Play!CloseTakesAll /\ Play!LossIsBounded /\ Play!WriteOffIsLoss)
  BY PlayInvariant, PlayIInvSafe, PTL

-----------------------------------------------------------------------------
\* The same of the behaviours TLC explores, where side picks the component.
PlaySideInv == side = "play" => Play!IInv

LEMMA PlaySideInvariant == SideSpec => []PlaySideInv
<1>1. SideInit => PlaySideInv
  BY PlayInitKeeps DEF SideInit, PlaySideInv
<1>2. PlaySideInv /\ [SideNext]_all => PlaySideInv'
  <2>1. SUFFICES ASSUME side = "play" => Play!IInv, [SideNext]_all, side' = "play" PROVE Play!IInv'
    BY DEF PlaySideInv
  <2>2. CASE side = "play" /\ Play!Next /\ side' = side
    BY <2>1, <2>2, PlayNextKeeps
  <2>3. CASE UNCHANGED <<side, playVars>>
    <3>1. side = "play" /\ UNCHANGED Play!vars
      BY <2>1, <2>3 DEF playVars, Play!vars, Play!money, Play!past
    <3>. QED BY <2>1, <3>1, PlayNextKeeps
  <2>. QED BY <2>1, <2>2, <2>3 DEF SideNext, all
<1>. QED BY <1>1, <1>2, PTL DEF SideSpec

\* The invariant of the run: what a playground caller was told it paid can be
\* redeemed, and the collector's close takes all of it.
THEOREM ChannelPaysHolds == SideSpec => []ChannelPays
<1>1. PlaySideInv => ChannelPays
  BY PlayIInvSafe DEF ChannelPays, PlaySideInv
<1>. QED BY <1>1, PlaySideInvariant, PTL

\* The invariant of the run: what was paid upstream is held against the deposit
\* as long as the channel is not fenced, and a write-off is a loss.
THEOREM ChannelLossHolds == SideSpec => []ChannelLoss
<1>1. PlaySideInv => ChannelLoss
  BY PlayIInvSafe DEF ChannelLoss, PlaySideInv
<1>. QED BY <1>1, PlaySideInvariant, PTL

-----------------------------------------------------------------------------
(* The session channels of Tempo merchants.  Tempo is the instance.        *)

LEMMA TempoConstants ==
    /\ IsFiniteSet(Requests) /\ Nobody \notin Tempo!Channels
    /\ Deposits \in [Tempo!Channels -> Nat] /\ TopUp \in Nat /\ MaxFaults \in Nat
  BY SessionConstants, PlayConstants, ChannelConstants DEF Deposits, Tempo!Channels

LEMMA TempoCardinality == \A S : Tempo!Cardinality(S) = Cardinality(S)
  BY DEF Tempo!Cardinality, Cardinality

LEMMA TempoCardinalityType ==
    ASSUME NEW S, IsFiniteSet(S) PROVE Tempo!Cardinality(S) \in Nat
  BY TempoCardinality, FS_CardinalityType

LEMMA TempoEmptySet == Tempo!Cardinality({}) = 0
  BY TempoCardinality, FS_EmptySet

LEMMA TempoSubset ==
    ASSUME NEW S, IsFiniteSet(S), NEW T \in SUBSET S
    PROVE  IsFiniteSet(T) /\ Tempo!Cardinality(T) <= Tempo!Cardinality(S)
  BY TempoCardinality, FS_Subset

LEMMA TempoAddElement ==
    ASSUME NEW S, IsFiniteSet(S), NEW x, x \notin S
    PROVE  IsFiniteSet(S \cup {x}) /\ Tempo!Cardinality(S \cup {x}) = Tempo!Cardinality(S) + 1
  BY TempoCardinality, FS_AddElement

-----------------------------------------------------------------------------
(* The session channels of Tempo merchants: types.                         *)

LEMMA TempoTyped ==
    ASSUME Tempo!TypeOK, NEW c \in Requests
    PROVE  /\ tempoCall[c] \in Tempo!Locals /\ tempoCall[c].pc \in Tempo!Steps
              /\ tempoCall[c].key \in Tempo!Channels
           /\ tempoCall[c].chan \in Tempo!Records /\ tempoCall[c].chan.cum \in Nat
              /\ tempoCall[c].chan.dep \in Nat
           /\ tempoCall[c].slot \in Tempo!Slots /\ tempoCall[c].rec \in Tempo!Records
              /\ tempoCall[c].rec.cum \in Nat
           /\ tempoCall[c].raised \in Nat
  BY DEF Tempo!TypeOK, Tempo!Locals, Tempo!Records

LEMMA TempoSlotTyped ==
    ASSUME Tempo!TypeOK, NEW s \in Tempo!Slots
    PROVE  tempoSlot[s] \in Tempo!Records /\ tempoSlot[s].cum \in Nat /\ tempoSlot[s].dep \in Nat
           /\ tempoSlot[s].id \in Tempo!Channels \cup {Nobody}
  BY DEF Tempo!TypeOK, Tempo!Records

LEMMA TempoEmptyTyped == Tempo!Empty \in Tempo!Records /\ Tempo!Empty.id = Nobody /\ Tempo!Empty.cum = 0
  BY DEF Tempo!Empty, Tempo!Record, Tempo!Records

LEMMA TempoIdleTyped == Tempo!Idle \in Tempo!Locals /\ Tempo!Idle.pc = "idle" /\ Tempo!Idle.key = "old"
  BY TempoEmptyTyped DEF Tempo!Idle, Tempo!Locals, Tempo!Steps, Tempo!Unsigned, Tempo!Channels,
       Tempo!Slots

LEMMA TempoCounting ==
    ASSUME Tempo!TypeOK, NEW i \in Tempo!Channels
    PROVE  tempoSigned[i] \subseteq Requests /\ IsFiniteSet(tempoSigned[i])
           /\ Tempo!Cardinality(tempoSigned[i]) \in Nat
<1>1. tempoSigned[i] \in SUBSET Requests
  BY DEF Tempo!TypeOK
<1>2. IsFiniteSet(tempoSigned[i])
  BY <1>1, TempoConstants, TempoSubset
<1>. QED BY <1>1, <1>2, TempoCardinalityType

\* Which slot a key resolves to.
LEMMA TempoResolved ==
    ASSUME NEW k
    PROVE  /\ \A s \in Tempo!Resolve(k) : s \in Tempo!Slots /\ tempoSlot[s].id = k
           /\ Tempo!Installed(k) => \E s \in Tempo!Resolve(k) : Tempo!Current(k) = tempoSlot[s]
<1>1. \A s \in Tempo!Resolve(k) : s \in Tempo!Slots /\ tempoSlot[s].id = k
  BY DEF Tempo!Resolve
<1>2. ASSUME Tempo!Installed(k) PROVE \E s \in Tempo!Resolve(k) : Tempo!Current(k) = tempoSlot[s]
  <2>1. (CHOOSE s \in Tempo!Resolve(k) : TRUE) \in Tempo!Resolve(k)
    BY <1>2 DEF Tempo!Installed
  <2>. QED BY <2>1 DEF Tempo!Current
<1>. QED BY <1>1, <1>2

\* Only call c moves.
TempoMoved(c) == /\ tempoCall' \in [Requests -> Tempo!Locals]
                 /\ \A d \in Requests \ {c} : tempoCall'[d] = tempoCall[d]

LEMMA TempoBecomesMoves ==
    ASSUME Tempo!TypeOK, NEW c \in Requests, NEW r \in Tempo!Locals,
           tempoCall' = [tempoCall EXCEPT ![c] = r]
    PROVE  TempoMoved(c) /\ tempoCall'[c] = r
  BY DEF Tempo!TypeOK, TempoMoved

LEMMA TempoGotoMoves ==
    ASSUME Tempo!TypeOK, NEW c \in Requests, NEW p \in Tempo!Steps, Tempo!Goto(c, p)
    PROVE  /\ TempoMoved(c) /\ tempoCall'[c].pc = p /\ tempoCall'[c].key = tempoCall[c].key
              /\ tempoCall'[c].chan = tempoCall[c].chan
           /\ tempoCall'[c].slot = tempoCall[c].slot /\ tempoCall'[c].rec = tempoCall[c].rec
              /\ tempoCall'[c].raised = tempoCall[c].raised
<1>. DEFINE h == [tempoCall[c] EXCEPT !.pc = p]
<1>1. tempoCall[c] \in Tempo!Locals
  BY TempoTyped
<1>2. /\ h \in Tempo!Locals /\ h.pc = p /\ h.key = tempoCall[c].key /\ h.chan = tempoCall[c].chan
      /\ h.slot = tempoCall[c].slot /\ h.rec = tempoCall[c].rec /\ h.raised = tempoCall[c].raised
  BY <1>1 DEF Tempo!Locals
<1>3. tempoCall' = [tempoCall EXCEPT ![c] = h]
  BY DEF Tempo!Goto
<1>. HIDE DEF h
<1>. QED BY <1>2, <1>3, TempoBecomesMoves

TempoFinals == {"refused", "failed", "exhausted", "served"}

\* A call that ends owes nothing to the invariant.
LEMMA TempoEndMoves ==
    ASSUME Tempo!TypeOK, NEW c \in Requests, NEW p \in TempoFinals, Tempo!End(c, p)
    PROVE  /\ TempoMoved(c) /\ tempoCall'[c].pc = p /\ tempoCall'[c].key = "old"
           /\ Tempo!BoundedCall(c)' /\ Tempo!PlacedCall(c)' /\ Tempo!CoveredCall(c)'
              /\ Tempo!RoomyCall(c)'
<1>. DEFINE h == [Tempo!Idle EXCEPT !.pc = p]
<1>1. h \in Tempo!Locals /\ h.pc = p /\ h.key = "old"
  BY TempoIdleTyped DEF Tempo!Locals, TempoFinals, Tempo!Steps
<1>2. tempoCall' = [tempoCall EXCEPT ![c] = h]
  BY DEF Tempo!End
<1>. HIDE DEF h
<1>3. TempoMoved(c) /\ tempoCall'[c].pc = p /\ tempoCall'[c].key = "old"
  BY <1>1, <1>2, TempoBecomesMoves
<1>. QED BY <1>3 DEF Tempo!BoundedCall, Tempo!PlacedCall, Tempo!CoveredCall, Tempo!RoomyCall,
     Tempo!Putting, TempoFinals, Tempo!Unsigned, Tempo!Signing

LEMMA TempoCallTypes ==
    ASSUME Tempo!TypeOK, tempoCall' \in [Requests -> Tempo!Locals],
           UNCHANGED <<tempoDeposit, tempoSettled, tempoKey, tempoClosed, tempoOp, tempoWatch,
                       tempoHealth, tempoTold>>,
           tempoSlot' \in [Tempo!Slots -> Tempo!Records],
           tempoAccepted' \in [Tempo!Channels -> Nat],
           tempoSigned' \in [Tempo!Channels -> SUBSET Requests],
           tempoSlips' \subseteq {"short", "rewound", "late", "uncommitted"}, tempoFaults' \in Nat
    PROVE  Tempo!TypeOK'
  BY DEF Tempo!TypeOK

-----------------------------------------------------------------------------
(* The steps of a tempoCall other than its writes.                              *)

TempoCallEffect(c) ==
    /\ TempoMoved(c)
       /\ UNCHANGED <<tempoSlot, tempoDeposit, tempoKey, tempoOp, tempoWatch, tempoHealth, tempoTold>>
    /\ \A i \in Tempo!Channels : tempoSigned[i] \subseteq tempoSigned'[i]
       /\ tempoSigned'[i] \subseteq tempoSigned[i] \cup {c}
    /\ tempoSlips \subseteq tempoSlips' /\ tempoSlips' \subseteq tempoSlips \cup {"short"}
    /\ \A i \in Tempo!Channels : \/ tempoAccepted'[i] = tempoAccepted[i]
                                 \/ /\ tempoAccepted'[i] <= Tempo!Cardinality(tempoSigned'[i])
                                    /\ tempoOp.pc # "done" => i # "new"
                                    /\ Tempo!Fine => Tempo!Covers(i, tempoAccepted'[i])
    /\ Tempo!BoundedCall(c)' /\ (tempoOp.pc # "done" => tempoCall'[c].key = "old")
    /\ "late" \notin tempoSlips => Tempo!PlacedCall(c)'
    /\ Tempo!Fine => Tempo!CoveredCall(c)' /\ Tempo!RoomyCall(c)' /\ "short" \notin tempoSlips'

LEMMA TempoCallKeeps ==
    ASSUME Tempo!IInv, Tempo!TypeOK', NEW c \in Requests, TempoCallEffect(c)
    PROVE  Tempo!IInv'
<1>1. /\ Tempo!TypeOK /\ Tempo!Bounded /\ Tempo!Keyed
      /\ "late" \notin tempoSlips => Tempo!Placed
      /\ Tempo!Fine => Tempo!Covered /\ Tempo!Roomy
      /\ "uncommitted" \notin tempoSlips => Tempo!Watched
  BY DEF Tempo!IInv
<1>2. /\ UNCHANGED <<tempoSlot, tempoDeposit, tempoKey, tempoOp, tempoWatch, tempoHealth, tempoTold>>
      /\ \A d \in Requests \ {c} : tempoCall'[d] = tempoCall[d]
      /\ Tempo!Fine' => Tempo!Fine /\ ("late" \notin tempoSlips' => "late" \notin tempoSlips)
      /\ "uncommitted" \notin tempoSlips' => "uncommitted" \notin tempoSlips
      /\ "late" \notin tempoSlips' => "late" \notin tempoSlips
  BY DEF TempoCallEffect, TempoMoved, Tempo!Fine
<1>3. ASSUME NEW i \in Tempo!Channels
      PROVE  /\ Tempo!Cardinality(tempoSigned[i]) \in Nat /\ Tempo!Cardinality(tempoSigned'[i]) \in Nat
             /\ Tempo!Cardinality(tempoSigned[i]) <= Tempo!Cardinality(tempoSigned'[i])
  <2>1. IsFiniteSet(tempoSigned'[i])
    <3>1. tempoSigned'[i] \in SUBSET Requests
      BY DEF Tempo!TypeOK
    <3>. QED BY <3>1, TempoConstants, TempoSubset
  <2>2. tempoSigned[i] \subseteq tempoSigned'[i]
    BY DEF TempoCallEffect
  <2>. QED BY <1>1, <2>1, <2>2, TempoCounting, TempoSubset, TempoCardinalityType
<1>4. \A r \in Tempo!Records : Tempo!Bound(r) => Tempo!Bound(r)'
  BY <1>3 DEF Tempo!Bound, Tempo!Records
<1>5. \A d \in Requests : Tempo!BoundedCall(d)'
  <2>1. SUFFICES ASSUME NEW d \in Requests \ {c} PROVE Tempo!BoundedCall(d)'
    BY DEF TempoCallEffect
  <2>2. Tempo!BoundedCall(d) /\ tempoCall'[d] = tempoCall[d] /\ tempoCall[d].chan \in Tempo!Records
        /\ tempoCall[d].key \in Tempo!Channels
        /\ tempoCall[d].chan.cum \in Nat
    BY <1>1, <1>2, TempoTyped DEF Tempo!Bounded
  <2>3. tempoCall[d].pc \in Tempo!Unsigned => \A i \in Tempo!Channels : d \notin tempoSigned'[i]
    BY <2>2 DEF Tempo!BoundedCall, TempoCallEffect
  <2>4. tempoCall[d].pc = "sign" => Tempo!Bound(tempoCall[d].chan)'
    BY <1>4, <2>2 DEF Tempo!BoundedCall, Tempo!Bound
  <2>5. tempoCall[d].pc \in Tempo!Signing => tempoCall[d].chan.cum + 1
        <= Tempo!Cardinality(tempoSigned'[tempoCall[d].key])
    BY <1>3, <2>2 DEF Tempo!BoundedCall, Tempo!Voucher
  <2>. QED BY <2>2, <2>3, <2>4, <2>5 DEF Tempo!BoundedCall, Tempo!Voucher, Tempo!Putting,
       Tempo!Bound
<1>6. Tempo!Bounded'
  <2>1. \A s \in Tempo!Slots : Tempo!Bound(tempoSlot[s])'
    BY <1>1, <1>2, <1>4, TempoSlotTyped DEF Tempo!Bounded, Tempo!Bound
  <2>2. Tempo!Bound(tempoOp.rec)'
    <3>1. tempoOp.rec \in Tempo!Records /\ Tempo!Bound(tempoOp.rec)
      BY <1>1 DEF Tempo!TypeOK, Tempo!Bounded
    <3>. QED BY <1>2, <1>4, <3>1 DEF Tempo!Bound
  <2>3. \A i \in Tempo!Channels : tempoAccepted'[i] <= Tempo!Cardinality(tempoSigned'[i])
    <3>1. \A i \in Tempo!Channels : tempoAccepted[i] <= Tempo!Cardinality(tempoSigned[i])
          /\ tempoAccepted[i] \in Nat
      BY <1>1 DEF Tempo!Bounded, Tempo!TypeOK
    <3>. QED BY <1>3, <3>1 DEF TempoCallEffect
  <2>. QED BY <1>2, <1>5, <2>1, <2>2, <2>3 DEF Tempo!Bounded
<1>7. Tempo!Keyed'
  BY <1>1, <1>2 DEF Tempo!Keyed, TempoCallEffect, Tempo!Channels
<1>8. ASSUME "late" \notin tempoSlips' PROVE Tempo!Placed'
  <2>1. Tempo!Placed
    BY <1>1, <1>2, <1>8
  <2>2. \A d \in Requests : Tempo!PlacedCall(d)'
    BY <1>2, <1>8, <2>1 DEF Tempo!Placed, Tempo!PlacedCall, Tempo!Putting, TempoCallEffect
  <2>. QED BY <1>2, <2>1, <2>2 DEF Tempo!Placed
<1>9. ASSUME Tempo!Fine' PROVE Tempo!Covered' /\ Tempo!Roomy'
  <2>1. Tempo!Fine /\ Tempo!Covered /\ Tempo!Roomy
    BY <1>1, <1>2, <1>9
  <2>2. \A i, x : Tempo!Covers(i, x)' <=> \E s \in Tempo!Slots : tempoSlot[s].id = i
        /\ tempoSlot[s].cum >= x
    BY <1>2 DEF Tempo!Covers
  <2>3. ASSUME NEW d \in Requests PROVE Tempo!CoveredCall(d)' /\ Tempo!RoomyCall(d)'
    <3>1. CASE d = c
      BY <2>1, <3>1 DEF TempoCallEffect
    <3>2. CASE d # c
      <4>1. Tempo!CoveredCall(d) /\ Tempo!RoomyCall(d) /\ tempoCall'[d] = tempoCall[d]
        BY <1>2, <2>1, <3>2 DEF Tempo!Covered, Tempo!Roomy
      <4>. QED BY <1>2, <4>1 DEF Tempo!CoveredCall, Tempo!RoomyCall, Tempo!Room, Tempo!Voucher,
           Tempo!Covers, Tempo!Resolve
    <3>. QED BY <3>1, <3>2
  <2>4. \A i \in Tempo!Channels : tempoAccepted'[i] = 0 \/ Tempo!Covers(i, tempoAccepted'[i])
    BY <2>1 DEF TempoCallEffect, Tempo!Covered
  <2>5. Tempo!Covered'
    BY <1>2, <2>3, <2>4 DEF Tempo!Covered, Tempo!Covers
  <2>6. Tempo!Roomy'
    BY <1>2, <2>1, <2>3 DEF Tempo!Roomy, TempoCallEffect
  <2>. QED BY <2>5, <2>6
<1>10. "uncommitted" \notin tempoSlips' => Tempo!Watched'
  BY <1>1, <1>2 DEF Tempo!Watched
<1>. QED BY <1>6, <1>7, <1>8, <1>9, <1>10 DEF Tempo!IInv

\* What the invariant says of one call.
LEMMA TempoKnown ==
    ASSUME Tempo!IInv, NEW c \in Requests
    PROVE  /\ Tempo!TypeOK /\ Tempo!BoundedCall(c)
              /\ (tempoOp.pc # "done" => tempoCall[c].key = "old" /\ tempoAccepted["new"] = 0
                  /\ tempoKey = "old")
           /\ \A s \in Tempo!Slots : Tempo!Bound(tempoSlot[s])
           /\ "late" \notin tempoSlips => Tempo!Placed /\ Tempo!PlacedCall(c)
           /\ Tempo!Fine => Tempo!Covered /\ Tempo!Roomy /\ Tempo!CoveredCall(c)
              /\ Tempo!RoomyCall(c) /\ "short" \notin tempoSlips /\ "late" \notin tempoSlips
  BY DEF Tempo!IInv, Tempo!Bounded, Tempo!Keyed, Tempo!Placed, Tempo!Covered, Tempo!Roomy,
       Tempo!Fine

LEMMA TempoEndEffect ==
    ASSUME Tempo!IInv, NEW c \in Requests, NEW p \in TempoFinals, Tempo!End(c, p),
           UNCHANGED <<tempoSlot, tempoDeposit, tempoSettled, tempoAccepted, tempoSigned, tempoKey,
                       tempoClosed, tempoOp, tempoWatch, tempoHealth, tempoTold, tempoSlips>>,
           tempoFaults' \in Nat
    PROVE  Tempo!TypeOK' /\ TempoCallEffect(c)
<1>1. Tempo!TypeOK /\ (Tempo!Fine => "short" \notin tempoSlips)
  BY TempoKnown
<1>2. /\ TempoMoved(c) /\ tempoCall'[c].key = "old"
      /\ Tempo!BoundedCall(c)' /\ Tempo!PlacedCall(c)' /\ Tempo!CoveredCall(c)' /\ Tempo!RoomyCall(c)'
  BY <1>1, TempoEndMoves
<1>3. Tempo!TypeOK'
  BY <1>1, <1>2, TempoCallTypes DEF Tempo!TypeOK, TempoMoved
<1>. QED BY <1>1, <1>2, <1>3 DEF TempoCallEffect

LEMMA TempoStartEffect ==
    ASSUME Tempo!IInv, NEW c \in Requests, Tempo!Start(c)
    PROVE  Tempo!TypeOK' /\ TempoCallEffect(c)
<1>. DEFINE h == [tempoCall[c] EXCEPT !.pc = "preflight", !.key = tempoKey]
<1>1. /\ Tempo!TypeOK /\ Tempo!BoundedCall(c) /\ (Tempo!Fine => "short" \notin tempoSlips)
         /\ tempoCall[c].pc = "idle" /\ tempoKey \in Tempo!Channels
      /\ tempoOp.pc # "done" => tempoKey = "old"
      /\ tempoCall[c] \in [pc : Tempo!Steps, key : Tempo!Channels, chan : Tempo!Records,
                           slot : Tempo!Slots, rec : Tempo!Records, raised : Nat]
  BY TempoKnown, TempoTyped DEF Tempo!Start, Tempo!At, Tempo!TypeOK, Tempo!Locals
<1>2. h \in Tempo!Locals /\ h.pc = "preflight" /\ h.key = tempoKey
  BY <1>1 DEF Tempo!Locals, Tempo!Steps, Tempo!Unsigned
<1>3. tempoCall' = [tempoCall EXCEPT ![c] = h]
  BY DEF Tempo!Start
<1>. HIDE DEF h
<1>4. TempoMoved(c) /\ tempoCall'[c].pc = "preflight" /\ tempoCall'[c].key = tempoKey
  BY <1>1, <1>2, <1>3, TempoBecomesMoves
<1>5. UNCHANGED <<tempoSlot, tempoDeposit, tempoSettled, tempoAccepted, tempoSigned, tempoKey,
                  tempoClosed, tempoOp, tempoWatch, tempoHealth, tempoTold, tempoSlips, tempoFaults>>
  BY DEF Tempo!Start, Tempo!chain, Tempo!cron
<1>6. Tempo!TypeOK'
  BY <1>1, <1>4, <1>5, TempoCallTypes DEF Tempo!TypeOK, TempoMoved
<1>7. Tempo!BoundedCall(c)' /\ Tempo!PlacedCall(c)' /\ Tempo!CoveredCall(c)' /\ Tempo!RoomyCall(c)'
  BY <1>1, <1>4, <1>5 DEF Tempo!BoundedCall, Tempo!PlacedCall, Tempo!CoveredCall, Tempo!RoomyCall,
       Tempo!Putting, Tempo!Unsigned, Tempo!Signing
<1>. QED BY <1>1, <1>4, <1>5, <1>6, <1>7 DEF TempoCallEffect

LEMMA TempoPreflightEffect ==
    ASSUME Tempo!IInv, NEW c \in Requests, Tempo!Preflight(c)
    PROVE  Tempo!TypeOK' /\ TempoCallEffect(c)
<1>1. UNCHANGED <<tempoSlot, tempoDeposit, tempoSettled, tempoAccepted, tempoSigned, tempoKey,
                  tempoClosed, tempoOp, tempoWatch, tempoHealth, tempoTold, tempoSlips, tempoFaults>>
  BY DEF Tempo!Preflight, Tempo!chain, Tempo!cron
<1>2. CASE Tempo!End(c, "refused")
  <2>1. "refused" \in TempoFinals /\ tempoFaults' \in Nat
    BY <1>1, TempoKnown DEF TempoFinals, Tempo!TypeOK
  <2>. QED BY <1>1, <1>2, <2>1, TempoEndEffect
<1>3. CASE Tempo!Goto(c, "read") /\ Tempo!Installed(tempoCall[c].key)
           /\ Tempo!Headroom(tempoCall[c].key) >= Tempo!Factor
  <2>1. /\ Tempo!TypeOK /\ Tempo!BoundedCall(c) /\ (Tempo!Fine => "short" \notin tempoSlips)
           /\ tempoCall[c].pc = "preflight"
        /\ tempoOp.pc # "done" => tempoCall[c].key = "old"
        /\ tempoCall[c].key \in Tempo!Channels /\ tempoCall[c].raised \in Nat
    BY TempoKnown, TempoTyped DEF Tempo!Preflight, Tempo!At
  <2>2. /\ TempoMoved(c) /\ tempoCall'[c].pc = "read" /\ tempoCall'[c].key = tempoCall[c].key
           /\ tempoCall'[c].raised = tempoCall[c].raised
    BY <1>3, <2>1, TempoGotoMoves DEF Tempo!Steps, Tempo!Unsigned
  <2>3. Tempo!TypeOK'
    BY <1>1, <2>1, <2>2, TempoCallTypes DEF Tempo!TypeOK, TempoMoved
  <2>4. Tempo!BoundedCall(c)' /\ Tempo!PlacedCall(c)' /\ Tempo!CoveredCall(c)'
    BY <1>1, <2>1, <2>2 DEF Tempo!BoundedCall, Tempo!PlacedCall, Tempo!CoveredCall, Tempo!Putting,
         Tempo!Unsigned, Tempo!Signing
  <2>5. ASSUME NEW s \in Tempo!Resolve(tempoCall[c].key)
               PROVE tempoSlot[s].cum + Tempo!Factor <= tempoDeposit[tempoCall[c].key]
                     + tempoCall[c].raised
    <3>1. PICK t \in Tempo!Resolve(tempoCall[c].key) : Tempo!Current(tempoCall[c].key) = tempoSlot[t]
      BY <1>3, TempoResolved
    <3>2. s = t /\ t \in Tempo!Slots
      BY <2>5, <3>1 DEF Tempo!Resolve, Tempo!Slots
    <3>3. tempoSlot[s].cum \in Nat /\ tempoDeposit[tempoCall[c].key] \in Nat
          /\ tempoSettled[tempoCall[c].key] \in Nat
      BY <2>1, <3>2, TempoSlotTyped DEF Tempo!TypeOK
    <3>4. tempoDeposit[tempoCall[c].key] - Tempo!Max2(tempoSlot[s].cum,
                                                      tempoSettled[tempoCall[c].key]) >= Tempo!Factor
      BY <1>3, <3>1, <3>2 DEF Tempo!Headroom
    <3>. QED BY <2>1, <3>3, <3>4 DEF Tempo!Max2, Tempo!Factor
  <2>6. Tempo!RoomyCall(c)'
    BY <1>1, <2>2, <2>5 DEF Tempo!RoomyCall, Tempo!Room, Tempo!Resolve
  <2>. QED BY <1>1, <2>1, <2>2, <2>3, <2>4, <2>6 DEF TempoCallEffect
<1>. QED BY <1>2, <1>3 DEF Tempo!Preflight

LEMMA TempoReadEffect ==
    ASSUME Tempo!IInv, NEW c \in Requests, Tempo!ReadChannel(c)
    PROVE  Tempo!TypeOK' /\ TempoCallEffect(c)
<1>1. UNCHANGED <<tempoSlot, tempoDeposit, tempoSettled, tempoAccepted, tempoSigned, tempoKey,
                  tempoClosed, tempoOp, tempoWatch, tempoHealth, tempoTold, tempoSlips, tempoFaults>>
  BY DEF Tempo!ReadChannel, Tempo!chain, Tempo!cron
<1>2. CASE Tempo!End(c, "failed")
  <2>1. "failed" \in TempoFinals /\ tempoFaults' \in Nat
    BY <1>1, TempoKnown DEF TempoFinals, Tempo!TypeOK
  <2>. QED BY <1>1, <1>2, <2>1, TempoEndEffect
<1>3. CASE Tempo!Installed(tempoCall[c].key) /\ tempoCall'
           = [tempoCall EXCEPT ![c].pc = "sign", ![c].chan = Tempo!Current(tempoCall[c].key)]
  <2>1. /\ Tempo!TypeOK /\ Tempo!BoundedCall(c) /\ (Tempo!Fine => "short" \notin tempoSlips)
           /\ tempoCall[c].pc = "read"
        /\ Tempo!Fine => Tempo!RoomyCall(c)
        /\ tempoOp.pc # "done" => tempoCall[c].key = "old"
        /\ tempoCall[c] \in [pc : Tempo!Steps, key : Tempo!Channels, chan : Tempo!Records,
                             slot : Tempo!Slots, rec : Tempo!Records, raised : Nat]
    BY TempoKnown, TempoTyped DEF Tempo!ReadChannel, Tempo!At, Tempo!Locals
  <2>2. PICK t \in Tempo!Resolve(tempoCall[c].key) : Tempo!Current(tempoCall[c].key) = tempoSlot[t]
    BY <1>3, TempoResolved
  <2>3. tempoSlot[t] \in Tempo!Records /\ tempoSlot[t].id = tempoCall[c].key
        /\ Tempo!Bound(tempoSlot[t])
    BY <2>1, <2>2, TempoResolved, TempoSlotTyped, TempoKnown
  <2>. DEFINE h == [tempoCall[c] EXCEPT !.pc = "sign", !.chan = tempoSlot[t]]
  <2>4. h \in Tempo!Locals /\ h.pc = "sign" /\ h.key = tempoCall[c].key /\ h.chan = tempoSlot[t]
        /\ h.raised = tempoCall[c].raised
    BY <2>1, <2>3 DEF Tempo!Locals, Tempo!Steps, Tempo!Unsigned
  <2>5. tempoCall' = [tempoCall EXCEPT ![c] = h]
    BY <1>3, <2>2
  <2>. HIDE DEF h
  <2>6. /\ TempoMoved(c) /\ tempoCall'[c].pc = "sign" /\ tempoCall'[c].key = tempoCall[c].key
           /\ tempoCall'[c].chan = tempoSlot[t]
        /\ tempoCall'[c].raised = tempoCall[c].raised
    BY <2>1, <2>4, <2>5, TempoBecomesMoves
  <2>7. Tempo!TypeOK'
    BY <1>1, <2>1, <2>6, TempoCallTypes DEF Tempo!TypeOK, TempoMoved
  <2>8. Tempo!BoundedCall(c)' /\ Tempo!PlacedCall(c)' /\ Tempo!CoveredCall(c)'
    BY <1>1, <2>1, <2>3, <2>6 DEF Tempo!BoundedCall, Tempo!PlacedCall, Tempo!CoveredCall,
         Tempo!Putting, Tempo!Unsigned, Tempo!Signing, Tempo!Bound
  <2>9. Tempo!Fine => Tempo!RoomyCall(c)'
    BY <1>1, <2>1, <2>2, <2>6 DEF Tempo!RoomyCall, Tempo!Room
  <2>. QED BY <1>1, <2>1, <2>6, <2>7, <2>8, <2>9 DEF TempoCallEffect
<1>. QED BY <1>2, <1>3 DEF Tempo!ReadChannel

LEMMA TempoSignEffect ==
    ASSUME Tempo!IInv, NEW c \in Requests, Tempo!Sign(c)
    PROVE  Tempo!TypeOK' /\ TempoCallEffect(c)
<1>1. UNCHANGED <<tempoSlot, tempoDeposit, tempoSettled, tempoAccepted, tempoKey, tempoClosed, tempoOp,
                  tempoWatch, tempoHealth, tempoTold, tempoFaults>>
  BY DEF Tempo!Sign, Tempo!chain, Tempo!cron
<1>2. CASE Tempo!End(c, "failed") /\ UNCHANGED <<tempoSigned, tempoSlips>>
  <2>1. "failed" \in TempoFinals /\ tempoFaults' \in Nat
    BY <1>1, TempoKnown DEF TempoFinals, Tempo!TypeOK
  <2>. QED BY <1>1, <1>2, <2>1, TempoEndEffect
<1>3. /\ Tempo!TypeOK /\ Tempo!BoundedCall(c) /\ tempoCall[c].pc = "sign"
         /\ tempoCall[c].chan.id = tempoCall[c].key
      /\ Tempo!Fine => Tempo!RoomyCall(c) /\ "short" \notin tempoSlips
      /\ tempoOp.pc # "done" => tempoCall[c].key = "old"
      /\ tempoCall[c].key \in Tempo!Channels /\ tempoCall[c].chan.cum \in Nat
         /\ tempoCall[c].chan.dep \in Nat /\ tempoCall[c].raised \in Nat
      /\ tempoDeposit[tempoCall[c].key] \in Nat
  BY TempoKnown, TempoTyped DEF Tempo!Sign, Tempo!At, Tempo!BoundedCall, Tempo!TypeOK
<1>4. CASE /\ Tempo!Exceeds(tempoCall[c].chan) /\ Tempo!End(c, "exhausted") /\ UNCHANGED tempoSigned
           /\ Tempo!Slip({k \in {"short"} : tempoCall[c].raised < Tempo!Factor
                          /\ tempoCall[c].chan.dep = tempoDeposit[tempoCall[c].key]})
  <2>1. /\ TempoMoved(c) /\ tempoCall'[c].key = "old"
        /\ Tempo!BoundedCall(c)' /\ Tempo!PlacedCall(c)' /\ Tempo!CoveredCall(c)' /\ Tempo!RoomyCall(c)'
    BY <1>3, <1>4, TempoEndMoves DEF TempoFinals
  <2>2. tempoSlips \subseteq tempoSlips' /\ tempoSlips' \subseteq tempoSlips \cup {"short"}
    BY <1>4 DEF Tempo!Slip
  <2>3. Tempo!Fine => "short" \notin tempoSlips'
    <3>1. SUFFICES ASSUME Tempo!Fine
                          PROVE ~(tempoCall[c].raised < Tempo!Factor
                                  /\ tempoCall[c].chan.dep = tempoDeposit[tempoCall[c].key])
      BY <1>3, <1>4 DEF Tempo!Slip
    <3>2. tempoCall[c].chan.cum + 2 <= tempoDeposit[tempoCall[c].key] + tempoCall[c].raised
      BY <1>3, <3>1 DEF Tempo!RoomyCall, Tempo!Room, Tempo!Factor
    <3>. QED BY <1>3, <1>4, <3>2 DEF Tempo!Exceeds, Tempo!Factor
  <2>4. Tempo!TypeOK'
    BY <1>1, <1>3, <1>4, <2>1, <2>2, TempoCallTypes DEF Tempo!TypeOK, TempoMoved
  <2>. QED BY <1>1, <1>4, <2>1, <2>2, <2>3, <2>4 DEF TempoCallEffect
<1>5. CASE /\ tempoSigned' = [tempoSigned EXCEPT ![tempoCall[c].chan.id] = @ \cup {c}]
              /\ Tempo!Goto(c, "bump") /\ UNCHANGED tempoSlips
  <2>1. /\ TempoMoved(c) /\ tempoCall'[c].pc = "bump" /\ tempoCall'[c].key = tempoCall[c].key
           /\ tempoCall'[c].chan = tempoCall[c].chan
    BY <1>3, <1>5, TempoGotoMoves DEF Tempo!Steps, Tempo!Signing
  <2>. DEFINE k == tempoCall[c].key
  <2>2. /\ tempoSigned' \in [Tempo!Channels -> SUBSET Requests]
           /\ tempoSigned'[k] = tempoSigned[k] \cup {c}
        /\ \A i \in Tempo!Channels : tempoSigned[i] \subseteq tempoSigned'[i]
           /\ tempoSigned'[i] \subseteq tempoSigned[i] \cup {c}
    BY <1>3, <1>5 DEF Tempo!TypeOK
  <2>3. Tempo!TypeOK'
    BY <1>1, <1>3, <1>5, <2>1, <2>2, TempoCallTypes DEF Tempo!TypeOK, TempoMoved
  <2>4. Tempo!Cardinality(tempoSigned'[k]) = Tempo!Cardinality(tempoSigned[k]) + 1
        /\ Tempo!Cardinality(tempoSigned[k]) \in Nat
    <3>1. c \notin tempoSigned[k] /\ IsFiniteSet(tempoSigned[k])
      BY <1>3, TempoCounting DEF Tempo!BoundedCall, Tempo!Unsigned
    <3>. QED BY <2>2, <3>1, TempoAddElement, TempoCardinalityType
  <2>5. tempoCall[c].chan.cum <= Tempo!Cardinality(tempoSigned[k])
    BY <1>3 DEF Tempo!BoundedCall, Tempo!Bound
  <2>6. Tempo!BoundedCall(c)'
    BY <1>3, <2>1, <2>4, <2>5 DEF Tempo!BoundedCall, Tempo!Unsigned, Tempo!Signing, Tempo!Putting,
         Tempo!Voucher
  <2>7. Tempo!PlacedCall(c)' /\ Tempo!CoveredCall(c)' /\ Tempo!RoomyCall(c)'
    BY <2>1 DEF Tempo!PlacedCall, Tempo!CoveredCall, Tempo!RoomyCall, Tempo!Putting
  <2>. QED BY <1>1, <1>3, <1>5, <2>1, <2>2, <2>3, <2>6, <2>7 DEF TempoCallEffect
<1>. QED BY <1>2, <1>4, <1>5 DEF Tempo!Sign

LEMMA TempoBumpReadEffect ==
    ASSUME Tempo!IInv, NEW c \in Requests, NEW from, NEW write, NEW next,
           Tempo!BumpRead(c, from, write, next),
           \/ from = "bump" /\ write = "bumpPut" /\ next = "send"
           \/ from = "after" /\ write = "afterPut" /\ next = "served"
    PROVE  Tempo!TypeOK' /\ TempoCallEffect(c)
<1>1. UNCHANGED <<tempoSlot, tempoDeposit, tempoSettled, tempoAccepted, tempoSigned, tempoKey,
                  tempoClosed, tempoOp, tempoWatch, tempoHealth, tempoTold, tempoSlips, tempoFaults>>
  BY DEF Tempo!BumpRead, Tempo!chain, Tempo!cron
<1>2. CASE \E p \in TempoFinals : Tempo!End(c, p)
  <2>1. tempoFaults' \in Nat
    BY <1>1, TempoKnown DEF Tempo!TypeOK
  <2>. QED BY <1>1, <1>2, <2>1, TempoEndEffect
<1>3. /\ Tempo!TypeOK /\ Tempo!BoundedCall(c) /\ tempoCall[c].pc = from
         /\ tempoCall[c].pc \in {"bump", "after"}
      /\ Tempo!Fine => "short" \notin tempoSlips /\ Tempo!CoveredCall(c)
      /\ "late" \notin tempoSlips => Tempo!Placed
      /\ tempoOp.pc # "done" => tempoCall[c].key = "old"
      /\ tempoCall[c] \in [pc : Tempo!Steps, key : Tempo!Channels, chan : Tempo!Records,
                           slot : Tempo!Slots, rec : Tempo!Records, raised : Nat]
      /\ tempoCall[c].chan.cum \in Nat
      /\ tempoCall[c].chan.id = tempoCall[c].key /\ Tempo!Voucher(c)
         <= Tempo!Cardinality(tempoSigned[tempoCall[c].key])
  BY TempoKnown, TempoTyped DEF Tempo!BumpRead, Tempo!At, Tempo!BoundedCall, Tempo!Locals,
       Tempo!Signing
<1>4. CASE \E s \in Tempo!Resolve(tempoCall[c].key) :
              \/ Tempo!NewRecord(c, s).cum <= tempoSlot[s].cum /\ from = "bump" /\ Tempo!Goto(c, "send")
              \/ tempoCall' = [tempoCall EXCEPT ![c].pc = write, ![c].slot = s,
                               ![c].rec = Tempo!NewRecord(c, s)]
  <2>1. PICK s \in Tempo!Resolve(tempoCall[c].key) :
              \/ Tempo!NewRecord(c, s).cum <= tempoSlot[s].cum /\ from = "bump" /\ Tempo!Goto(c, "send")
              \/ tempoCall' = [tempoCall EXCEPT ![c].pc = write, ![c].slot = s,
                               ![c].rec = Tempo!NewRecord(c, s)]
    BY <1>4
  <2>2. /\ s \in Tempo!Slots /\ tempoSlot[s].id = tempoCall[c].key
           /\ tempoSlot[s] \in [id : Tempo!Channels \cup {Nobody}, cum : Nat, dep : Nat]
        /\ s = "alt" => tempoSlot["primary"].id # tempoCall[c].key
    BY <1>3, TempoSlotTyped DEF Tempo!Resolve, Tempo!Records
  <2>3. /\ Tempo!NewRecord(c, s) \in Tempo!Records /\ Tempo!NewRecord(c, s).id = tempoCall[c].key
           /\ Tempo!NewRecord(c, s).cum = Tempo!Voucher(c)
    BY <1>3, <2>2 DEF Tempo!NewRecord, Tempo!Records, Tempo!Voucher
  <2>4. CASE Tempo!NewRecord(c, s).cum <= tempoSlot[s].cum /\ from = "bump" /\ Tempo!Goto(c, "send")
    <3>1. /\ TempoMoved(c) /\ tempoCall'[c].pc = "send" /\ tempoCall'[c].key = tempoCall[c].key
             /\ tempoCall'[c].chan = tempoCall[c].chan
      BY <1>3, <2>4, TempoGotoMoves DEF Tempo!Steps, Tempo!Signing
    <3>2. Tempo!TypeOK'
      BY <1>1, <1>3, <3>1, TempoCallTypes DEF Tempo!TypeOK, TempoMoved
    <3>3. Tempo!BoundedCall(c)'
      BY <1>1, <1>3, <3>1 DEF Tempo!BoundedCall, Tempo!Unsigned, Tempo!Signing, Tempo!Putting,
           Tempo!Voucher
    <3>4. Tempo!PlacedCall(c)' /\ Tempo!RoomyCall(c)'
      BY <3>1 DEF Tempo!PlacedCall, Tempo!RoomyCall, Tempo!Putting
    <3>5. Tempo!CoveredCall(c)'
      <4>1. tempoSlot'[s].id = tempoCall'[c].key /\ tempoSlot'[s].cum >= tempoCall'[c].chan.cum + 1
        BY <1>1, <1>3, <2>2, <2>3, <2>4, <3>1 DEF Tempo!Voucher
      <4>. QED BY <2>2, <4>1 DEF Tempo!CoveredCall, Tempo!Covers, Tempo!Voucher
    <3>. QED BY <1>1, <1>3, <3>1, <3>2, <3>3, <3>4, <3>5 DEF TempoCallEffect
  <2>5. CASE tempoCall' = [tempoCall EXCEPT ![c].pc = write, ![c].slot = s,
                           ![c].rec = Tempo!NewRecord(c, s)]
    <3>. DEFINE h == [tempoCall[c] EXCEPT !.pc = write, !.slot = s, !.rec = Tempo!NewRecord(c, s)]
    <3>1. write \in Tempo!Steps
      BY DEF Tempo!Steps, Tempo!Signing
    <3>2. /\ h \in Tempo!Locals /\ h.pc = write /\ h.key = tempoCall[c].key
             /\ h.chan = tempoCall[c].chan /\ h.slot = s
          /\ h.rec = Tempo!NewRecord(c, s)
      BY <1>3, <2>2, <2>3, <3>1 DEF Tempo!Locals
    <3>3. tempoCall' = [tempoCall EXCEPT ![c] = h]
      BY <2>5
    <3>. HIDE DEF h
    <3>4. /\ TempoMoved(c) /\ tempoCall'[c].pc = write /\ tempoCall'[c].key = tempoCall[c].key
             /\ tempoCall'[c].chan = tempoCall[c].chan
          /\ tempoCall'[c].slot = s /\ tempoCall'[c].rec = Tempo!NewRecord(c, s)
      BY <1>3, <3>2, <3>3, TempoBecomesMoves
    <3>5. Tempo!TypeOK'
      BY <1>1, <1>3, <3>4, TempoCallTypes DEF Tempo!TypeOK, TempoMoved
    <3>6. Tempo!BoundedCall(c)'
      BY <1>1, <1>3, <2>3, <3>4 DEF Tempo!BoundedCall, Tempo!Unsigned, Tempo!Signing, Tempo!Putting,
           Tempo!Voucher
    <3>7. "late" \notin tempoSlips => Tempo!PlacedCall(c)'
      <4>1. SUFFICES ASSUME "late" \notin tempoSlips,
      s = "alt" PROVE tempoOp.pc \in {"installed", "done"}
        BY <1>1, <2>2, <3>4 DEF Tempo!PlacedCall
      <4>2. Tempo!Placed /\ tempoOp.pc \in Tempo!OpSteps
        BY <1>3, <4>1 DEF Tempo!TypeOK
      <4>3. tempoSlot["alt"].id = tempoCall[c].key /\ tempoSlot["primary"].id # tempoCall[c].key
        BY <2>2, <4>1
      <4>4. Tempo!Empty.id = Nobody /\ Nobody \notin Tempo!Channels
            /\ tempoCall[c].key \in Tempo!Channels
        BY <1>3, TempoEmptyTyped, TempoConstants
      <4>. QED BY <4>2, <4>3, <4>4 DEF Tempo!Placed, Tempo!OpSteps, Tempo!Before
    <3>8. Tempo!RoomyCall(c)'
      BY <3>4 DEF Tempo!RoomyCall
    <3>9. Tempo!Fine => Tempo!CoveredCall(c)'
      BY <1>1, <1>3, <3>4 DEF Tempo!CoveredCall, Tempo!Covers, Tempo!Voucher
    <3>. QED BY <1>1, <1>3, <3>4, <3>5, <3>6, <3>7, <3>8, <3>9 DEF TempoCallEffect
  <2>. QED BY <2>1, <2>4, <2>5
<1>. QED BY <1>2, <1>4 DEF Tempo!BumpRead, TempoFinals

LEMMA TempoSendEffect ==
    ASSUME Tempo!IInv, NEW c \in Requests, Tempo!Send(c)
    PROVE  Tempo!TypeOK' /\ TempoCallEffect(c)
<1>1. UNCHANGED <<tempoSlot, tempoDeposit, tempoSettled, tempoSigned, tempoKey, tempoClosed, tempoOp,
                  tempoWatch, tempoHealth, tempoTold, tempoSlips, tempoFaults>>
  BY DEF Tempo!Send, Tempo!cron
<1>2. CASE Tempo!End(c, "failed") /\ UNCHANGED tempoAccepted
  <2>1. "failed" \in TempoFinals /\ tempoFaults' \in Nat
    BY <1>1, TempoKnown DEF TempoFinals, Tempo!TypeOK
  <2>. QED BY <1>1, <1>2, <2>1, TempoEndEffect
<1>3. CASE /\ tempoAccepted' = [tempoAccepted EXCEPT ![tempoCall[c].chan.id] = Tempo!Voucher(c)]
           /\ Tempo!Goto(c, "after") \/ Tempo!End(c, "failed")
  <2>1. /\ Tempo!TypeOK /\ Tempo!BoundedCall(c) /\ tempoCall[c].pc = "send"
        /\ Tempo!Fine => "short" \notin tempoSlips /\ Tempo!CoveredCall(c)
        /\ tempoOp.pc # "done" => tempoCall[c].key = "old"
        /\ tempoCall[c].key \in Tempo!Channels /\ tempoCall[c].chan.cum \in Nat
        /\ tempoCall[c].chan.id = tempoCall[c].key /\ Tempo!Voucher(c)
           <= Tempo!Cardinality(tempoSigned[tempoCall[c].key])
    BY TempoKnown, TempoTyped DEF Tempo!Send, Tempo!At, Tempo!BoundedCall, Tempo!Signing
  <2>2. Tempo!Voucher(c) \in Nat
    BY <2>1 DEF Tempo!Voucher
  <2>3. /\ tempoAccepted' \in [Tempo!Channels -> Nat]
           /\ tempoAccepted'[tempoCall[c].key] = Tempo!Voucher(c)
        /\ \A i \in Tempo!Channels : i # tempoCall[c].key => tempoAccepted'[i] = tempoAccepted[i]
    BY <1>3, <2>1, <2>2 DEF Tempo!TypeOK
  <2>4. \A i \in Tempo!Channels : \/ tempoAccepted'[i] = tempoAccepted[i]
                                  \/ /\ tempoAccepted'[i] <= Tempo!Cardinality(tempoSigned'[i])
                                     /\ tempoOp.pc # "done" => i # "new"
                                     /\ Tempo!Fine => Tempo!Covers(i, tempoAccepted'[i])
    BY <1>1, <2>1, <2>3 DEF Tempo!CoveredCall
  <2>5. CASE Tempo!End(c, "failed")
    <3>1. /\ TempoMoved(c) /\ tempoCall'[c].key = "old"
          /\ Tempo!BoundedCall(c)' /\ Tempo!PlacedCall(c)' /\ Tempo!CoveredCall(c)'
             /\ Tempo!RoomyCall(c)'
      BY <2>1, <2>5, TempoEndMoves DEF TempoFinals
    <3>2. Tempo!TypeOK'
      BY <1>1, <2>1, <2>3, <3>1, TempoCallTypes DEF Tempo!TypeOK, TempoMoved
    <3>. QED BY <1>1, <2>1, <2>4, <3>1, <3>2 DEF TempoCallEffect
  <2>6. CASE Tempo!Goto(c, "after")
    <3>1. /\ TempoMoved(c) /\ tempoCall'[c].pc = "after" /\ tempoCall'[c].key = tempoCall[c].key
             /\ tempoCall'[c].chan = tempoCall[c].chan
      BY <2>1, <2>6, TempoGotoMoves DEF Tempo!Steps, Tempo!Signing
    <3>2. Tempo!TypeOK'
      BY <1>1, <2>1, <2>3, <3>1, TempoCallTypes DEF Tempo!TypeOK, TempoMoved
    <3>3. Tempo!BoundedCall(c)'
      BY <1>1, <2>1, <3>1 DEF Tempo!BoundedCall, Tempo!Unsigned, Tempo!Signing, Tempo!Putting,
           Tempo!Voucher
    <3>4. Tempo!PlacedCall(c)' /\ Tempo!RoomyCall(c)'
      BY <3>1 DEF Tempo!PlacedCall, Tempo!RoomyCall, Tempo!Putting
    <3>5. Tempo!Fine => Tempo!CoveredCall(c)'
      BY <1>1, <2>1, <3>1 DEF Tempo!CoveredCall, Tempo!Covers, Tempo!Voucher
    <3>. QED BY <1>1, <2>1, <2>4, <3>1, <3>2, <3>3, <3>4, <3>5 DEF TempoCallEffect
  <2>. QED BY <1>3, <2>5, <2>6
<1>. QED BY <1>2, <1>3 DEF Tempo!Send

-----------------------------------------------------------------------------
(* The writes of a tempoCall.                                                   *)

\* A put that fails ends the call or its work.
LEMMA TempoPutFailsEffect ==
    ASSUME Tempo!IInv, NEW c \in Requests, NEW p \in TempoFinals, Tempo!Fault(TRUE),
           Tempo!End(c, p),
           UNCHANGED <<tempoSlot, tempoSlips, tempoDeposit, tempoSettled, tempoAccepted, tempoSigned,
                       tempoKey, tempoClosed, tempoOp, tempoWatch, tempoHealth, tempoTold>>
    PROVE  Tempo!TypeOK' /\ TempoCallEffect(c)
<1>1. tempoFaults' \in Nat
  BY TempoKnown DEF Tempo!Fault, Tempo!TypeOK
<1>. QED BY <1>1, TempoEndEffect

\* What a successful put does to the calls: c goes on, a call that was charged
\* and has not read the channel counts the advance.
TempoPutEffect(c, s, rec, next) ==
    /\ tempoCall' \in [Requests -> Tempo!Locals] /\ tempoCall'[c].pc = next
    /\ next = "send" => tempoCall'[c].key = tempoCall[c].key /\ tempoCall'[c].chan = tempoCall[c].chan
    /\ next = "served" => tempoCall'[c].key = "old"
    /\ \A d \in Requests \ {c} :
          /\ tempoCall'[d].pc = tempoCall[d].pc /\ tempoCall'[d].key = tempoCall[d].key
             /\ tempoCall'[d].chan = tempoCall[d].chan
          /\ tempoCall'[d].slot = tempoCall[d].slot /\ tempoCall'[d].rec = tempoCall[d].rec
          /\ tempoCall'[d].raised >= tempoCall[d].raised
          /\ tempoCall[d].pc = "read" /\ tempoCall[d].key = rec.id /\ rec.cum > tempoSlot[s].cum
                => tempoCall'[d].raised = tempoCall[d].raised + (rec.cum - tempoSlot[s].cum)

LEMMA TempoPutMoves ==
    ASSUME Tempo!TypeOK, NEW c \in Requests, NEW next \in {"send", "served"}, NEW s \in Tempo!Slots,
           NEW rec \in Tempo!Records,
           tempoCall' = [d \in Requests |->
                IF d = c THEN IF next = "served" THEN [Tempo!Idle EXCEPT !.pc = next]
                              ELSE [tempoCall[c] EXCEPT !.pc = next, !.rec = Tempo!Empty,
                                    !.slot = "primary"]
                ELSE IF Tempo!At(d, "read") /\ tempoCall[d].key = rec.id /\ rec.cum > tempoSlot[s].cum
                     THEN [tempoCall[d] EXCEPT !.raised = @ + (rec.cum - tempoSlot[s].cum)]
                     ELSE tempoCall[d]]
    PROVE  TempoPutEffect(c, s, rec, next)
<1>1. tempoSlot[s].cum \in Nat /\ rec.cum \in Nat
  BY TempoSlotTyped DEF Tempo!Records
<1>2. ASSUME NEW d \in Requests \ {c}
      PROVE  /\ tempoCall'[d] \in Tempo!Locals
             /\ tempoCall'[d].pc = tempoCall[d].pc /\ tempoCall'[d].key = tempoCall[d].key
                /\ tempoCall'[d].chan = tempoCall[d].chan
             /\ tempoCall'[d].slot = tempoCall[d].slot /\ tempoCall'[d].rec = tempoCall[d].rec
             /\ tempoCall'[d].raised >= tempoCall[d].raised
             /\ tempoCall[d].pc = "read" /\ tempoCall[d].key = rec.id /\ rec.cum > tempoSlot[s].cum
                   => tempoCall'[d].raised = tempoCall[d].raised + (rec.cum - tempoSlot[s].cum)
  <2>1. tempoCall[d] \in [pc : Tempo!Steps, key : Tempo!Channels, chan : Tempo!Records,
                          slot : Tempo!Slots, rec : Tempo!Records, raised : Nat]
    BY TempoTyped DEF Tempo!Locals
  <2>2. tempoCall'[d] = IF tempoCall[d].pc = "read" /\ tempoCall[d].key = rec.id
        /\ rec.cum > tempoSlot[s].cum
                        THEN [tempoCall[d] EXCEPT !.raised = @ + (rec.cum - tempoSlot[s].cum)]
                        ELSE tempoCall[d]
    BY DEF Tempo!At
  <2>3. CASE tempoCall[d].pc = "read" /\ tempoCall[d].key = rec.id /\ rec.cum > tempoSlot[s].cum
    <3>1. PICK x \in Nat : x = rec.cum - tempoSlot[s].cum
      BY <1>1, <2>3
    <3>2. tempoCall'[d] = [tempoCall[d] EXCEPT !.raised = @ + x]
      BY <2>2, <2>3, <3>1
    <3>. QED BY <2>1, <3>1, <3>2 DEF Tempo!Locals
  <2>4. CASE ~(tempoCall[d].pc = "read" /\ tempoCall[d].key = rec.id /\ rec.cum > tempoSlot[s].cum)
    BY <2>1, <2>2, <2>4 DEF Tempo!Locals
  <2>. QED BY <2>3, <2>4
<1>3. /\ tempoCall'[c] \in Tempo!Locals /\ tempoCall'[c].pc = next
      /\ next = "send" => tempoCall'[c].key = tempoCall[c].key /\ tempoCall'[c].chan = tempoCall[c].chan
      /\ next = "served" => tempoCall'[c].key = "old"
  <2>1. CASE next = "served"
    <3>1. tempoCall'[c] = [Tempo!Idle EXCEPT !.pc = next]
      BY <2>1
    <3>. QED BY <2>1, <3>1, TempoIdleTyped DEF Tempo!Locals, Tempo!Steps
  <2>2. CASE next = "send"
    <3>1. tempoCall'[c] = [tempoCall[c] EXCEPT !.pc = next, !.rec = Tempo!Empty, !.slot = "primary"]
      BY <2>2
    <3>2. tempoCall[c] \in [pc : Tempo!Steps, key : Tempo!Channels, chan : Tempo!Records,
                            slot : Tempo!Slots, rec : Tempo!Records, raised : Nat]
      BY TempoTyped DEF Tempo!Locals
    <3>3. next \in Tempo!Steps /\ "primary" \in Tempo!Slots
      BY <2>2 DEF Tempo!Steps, Tempo!Signing, Tempo!Slots
    <3>. QED BY <2>2, <3>1, <3>2, <3>3, TempoEmptyTyped DEF Tempo!Locals
  <2>. QED BY <2>1, <2>2
<1>4. tempoCall' \in [Requests -> Tempo!Locals]
  <2>1. \A d \in Requests : tempoCall'[d] \in Tempo!Locals
    BY <1>2, <1>3
  <2>2. tempoCall' = [d \in Requests |-> tempoCall'[d]]
    OBVIOUS
  <2>. QED BY <2>1, <2>2
<1>. QED BY <1>2, <1>3, <1>4 DEF TempoPutEffect

LEMMA TempoPutKeeps ==
    ASSUME Tempo!IInv, NEW c \in Requests, NEW from, NEW next, Tempo!BumpPut(c, from, next),
           \/ from = "bumpPut" /\ next = "send"
           \/ from = "afterPut" /\ next = "served"
    PROVE  Tempo!IInv'
<1>1. /\ Tempo!TypeOK /\ Tempo!Bounded /\ Tempo!Keyed
      /\ "late" \notin tempoSlips => Tempo!Placed
      /\ Tempo!Fine => Tempo!Covered /\ Tempo!Roomy
      /\ "uncommitted" \notin tempoSlips => Tempo!Watched
      /\ UNCHANGED <<tempoDeposit, tempoSettled, tempoAccepted, tempoSigned, tempoKey, tempoClosed,
                     tempoOp, tempoWatch, tempoHealth, tempoTold>>
  BY DEF Tempo!IInv, Tempo!BumpPut, Tempo!chain, Tempo!cron
<1>2. CASE Tempo!Fault(TRUE) /\ Tempo!End(c, IF next = "served" THEN next ELSE "failed")
           /\ UNCHANGED <<tempoSlot, tempoSlips>>
  <2>1. PICK p \in TempoFinals : Tempo!End(c, p)
    BY <1>2 DEF TempoFinals
  <2>. QED BY <1>1, <1>2, <2>1, TempoPutFailsEffect, TempoCallKeeps
<1>3. CASE ~(Tempo!Fault(TRUE) /\ Tempo!End(c, IF next = "served" THEN next ELSE "failed")
             /\ UNCHANGED <<tempoSlot, tempoSlips>>)
  <2>1. PICK s, rec : s = tempoCall[c].slot /\ rec = tempoCall[c].rec
    OBVIOUS
  <2>2. /\ tempoSlot' = [tempoSlot EXCEPT ![s] = rec]
           /\ tempoSlips' = tempoSlips \cup Tempo!Undone(s, rec) /\ tempoFaults' = tempoFaults
        /\ tempoCall[c].pc = from
        /\ tempoCall' = [d \in Requests |->
                IF d = c THEN IF next = "served" THEN [Tempo!Idle EXCEPT !.pc = next]
                              ELSE [tempoCall[c] EXCEPT !.pc = next, !.rec = Tempo!Empty,
                                    !.slot = "primary"]
                ELSE IF Tempo!At(d, "read") /\ tempoCall[d].key = rec.id /\ rec.cum > tempoSlot[s].cum
                     THEN [tempoCall[d] EXCEPT !.raised = @ + (rec.cum - tempoSlot[s].cum)]
                     ELSE tempoCall[d]]
    BY <1>3, <2>1 DEF Tempo!BumpPut, Tempo!Slip, Tempo!At
  <2>3. /\ s \in Tempo!Slots /\ rec \in Tempo!Records /\ rec.cum \in Nat /\ tempoSlot[s].cum \in Nat
        /\ tempoCall[c].key \in Tempo!Channels /\ tempoCall[c].chan.cum \in Nat
    BY <1>1, <2>1, TempoTyped, TempoSlotTyped
  <2>4. /\ rec.id = tempoCall[c].key /\ rec.cum = Tempo!Voucher(c)
           /\ Tempo!Voucher(c) <= Tempo!Cardinality(tempoSigned[tempoCall[c].key])
        /\ tempoCall[c].chan.id = tempoCall[c].key /\ Tempo!Putting(c)
    BY <1>1, <2>1, <2>2 DEF Tempo!Bounded, Tempo!BoundedCall, Tempo!Putting, Tempo!Signing
  <2>5. TempoPutEffect(c, s, rec, next)
    BY <1>1, <2>2, <2>3, TempoPutMoves
  <2>6. /\ tempoSlot' \in [Tempo!Slots -> Tempo!Records] /\ tempoSlot'[s] = rec
           /\ \A t \in Tempo!Slots \ {s} : tempoSlot'[t] = tempoSlot[t]
    BY <1>1, <2>2, <2>3 DEF Tempo!TypeOK
  <2>7. tempoSlips \subseteq tempoSlips' /\ tempoSlips' \subseteq tempoSlips \cup {"rewound"}
    BY <2>2 DEF Tempo!Undone
  <2>8. Tempo!TypeOK'
    BY <1>1, <2>2, <2>5, <2>6, <2>7, TempoCallTypes DEF Tempo!TypeOK, TempoPutEffect
  <2>9. ASSUME NEW d \in Requests PROVE Tempo!BoundedCall(d)'
               /\ (tempoOp.pc # "done" => tempoCall'[d].key = "old")
    <3>1. CASE d # c
      <4>1. Tempo!BoundedCall(d) /\ (tempoOp.pc # "done" => tempoCall[d].key = "old")
        BY <1>1 DEF Tempo!Bounded, Tempo!Keyed
      <4>. QED BY <1>1, <2>5, <3>1, <4>1 DEF TempoPutEffect, Tempo!BoundedCall, Tempo!Bound,
           Tempo!Voucher, Tempo!Putting
    <3>2. CASE d = c /\ next = "send"
      <4>1. tempoOp.pc # "done" => tempoCall[c].key = "old"
        BY <1>1 DEF Tempo!Keyed
      <4>. QED BY <1>1, <2>4, <2>5, <3>2, <4>1
               DEF TempoPutEffect, Tempo!BoundedCall, Tempo!Bound, Tempo!Voucher, Tempo!Putting,
                   Tempo!Unsigned, Tempo!Signing
    <3>3. CASE d = c /\ next = "served"
      BY <2>5, <3>3 DEF TempoPutEffect, Tempo!BoundedCall, Tempo!Putting, Tempo!Unsigned,
           Tempo!Signing
    <3>. QED BY <3>1, <3>2, <3>3
  <2>10. Tempo!Bounded' /\ Tempo!Keyed'
    <3>1. \A t \in Tempo!Slots : Tempo!Bound(tempoSlot[t])'
      BY <1>1, <2>4, <2>6 DEF Tempo!Bounded, Tempo!Bound
    <3>2. Tempo!Bound(tempoOp.rec)' /\ \A i \in Tempo!Channels : tempoAccepted'[i]
          <= Tempo!Cardinality(tempoSigned'[i])
      BY <1>1 DEF Tempo!Bounded, Tempo!Bound
    <3>3. Tempo!Bounded'
      BY <2>9, <3>1, <3>2 DEF Tempo!Bounded
    <3>4. Tempo!Keyed'
      BY <1>1, <2>9 DEF Tempo!Keyed
    <3>. QED BY <3>3, <3>4
  <2>11. ASSUME "late" \notin tempoSlips'
         PROVE  /\ Tempo!Placed' /\ tempoSlot[s].id = rec.id
                   /\ (s = "alt" => tempoOp.pc \in {"installed", "done"})
                /\ \A t \in Tempo!Slots : tempoSlot'[t].id = tempoSlot[t].id
    <3>1. Tempo!Placed /\ Tempo!PlacedCall(c)
      BY <1>1, <2>7, <2>11 DEF Tempo!Placed
    <3>2. tempoSlot[s].id = rec.id /\ (s = "alt" => tempoOp.pc \in {"installed", "done"})
      BY <2>1, <2>4, <3>1 DEF Tempo!PlacedCall
    <3>3. \A t \in Tempo!Slots : tempoSlot'[t].id = tempoSlot[t].id
      BY <2>6, <3>2
    <3>4. ASSUME NEW d \in Requests PROVE Tempo!PlacedCall(d)'
      <4>1. CASE d # c
        <5>1. Tempo!PlacedCall(d) /\ tempoCall[d].slot \in Tempo!Slots
          BY <1>1, <3>1, TempoTyped DEF Tempo!Placed
        <5>. QED BY <1>1, <2>5, <3>3, <4>1, <5>1 DEF TempoPutEffect, Tempo!PlacedCall, Tempo!Putting
      <4>2. CASE d = c
        BY <2>5, <4>2 DEF TempoPutEffect, Tempo!PlacedCall, Tempo!Putting
      <4>. QED BY <4>1, <4>2
    <3>5. /\ tempoOp.pc \in {"moved", "checked"} => tempoSlot'["alt"] = tempoSlot["alt"]
          /\ tempoOp.pc \in Tempo!Before => tempoSlot'["alt"] = tempoSlot["alt"]
      BY <2>6, <3>2 DEF Tempo!Slots, Tempo!Before
    <3>6. tempoSlot'["primary"].id = tempoSlot["primary"].id
          /\ tempoSlot'["alt"].id = tempoSlot["alt"].id
      BY <3>3 DEF Tempo!Slots
    <3>7. Tempo!Placed'
      BY <1>1, <3>1, <3>4, <3>5, <3>6 DEF Tempo!Placed
    <3>. QED BY <3>2, <3>3, <3>7
  <2>12. ASSUME Tempo!Fine' PROVE Tempo!Covered' /\ Tempo!Roomy'
    <3>1. Tempo!Fine /\ Tempo!Covered /\ Tempo!Roomy /\ "late" \notin tempoSlips'
          /\ "rewound" \notin tempoSlips'
      BY <1>1, <2>7, <2>12 DEF Tempo!Fine
    <3>2. tempoSlot[s].id = rec.id /\ \A t \in Tempo!Slots : tempoSlot'[t].id = tempoSlot[t].id
      BY <2>11, <3>1
    <3>3. tempoSlot[s].cum <= rec.cum
      BY <2>2, <2>3, <3>1, <3>2 DEF Tempo!Undone
    <3>4. \A t \in Tempo!Slots : tempoSlot'[t].cum >= tempoSlot[t].cum /\ tempoSlot'[t].cum \in Nat
          /\ tempoSlot[t].cum \in Nat
      <4>1. \A t \in Tempo!Slots : tempoSlot[t].cum \in Nat
        BY <1>1, TempoSlotTyped
      <4>. QED BY <2>3, <2>6, <3>3, <4>1
    <3>5. ASSUME NEW i, NEW x \in Nat, Tempo!Covers(i, x) PROVE Tempo!Covers(i, x)'
      <4>1. PICK t \in Tempo!Slots : tempoSlot[t].id = i /\ tempoSlot[t].cum >= x
        BY <3>5 DEF Tempo!Covers
      <4>2. tempoSlot'[t].id = i /\ tempoSlot'[t].cum >= x
        BY <3>2, <3>4, <4>1
      <4>. QED BY <4>2 DEF Tempo!Covers
    <3>6. \A i \in Tempo!Channels : tempoAccepted'[i] = 0 \/ Tempo!Covers(i, tempoAccepted[i])'
      BY <1>1, <3>1, <3>5 DEF Tempo!Covered, Tempo!TypeOK
    <3>7. ASSUME NEW d \in Requests PROVE Tempo!CoveredCall(d)'
      <4>1. CASE d # c
        <5>1. Tempo!CoveredCall(d) /\ tempoCall[d].chan.cum + 1 \in Nat
          BY <1>1, <3>1, TempoTyped DEF Tempo!Covered
        <5>2. PICK k, x : k = tempoCall[d].key /\ x = tempoCall[d].chan.cum + 1
          OBVIOUS
        <5>3. tempoCall[d].pc \in {"send", "after", "afterPut"} => Tempo!Covers(k, x)'
          BY <3>5, <5>1, <5>2 DEF Tempo!CoveredCall, Tempo!Voucher
        <5>4. tempoCall'[d].pc = tempoCall[d].pc /\ k = tempoCall'[d].key
              /\ x = tempoCall'[d].chan.cum + 1
          BY <2>5, <4>1, <5>2 DEF TempoPutEffect
        <5>. QED BY <5>3, <5>4 DEF Tempo!CoveredCall, Tempo!Covers, Tempo!Voucher
      <4>2. CASE d = c /\ next = "send"
        <5>1. tempoSlot'[s].id = tempoCall'[c].key /\ tempoSlot'[s].cum >= tempoCall'[c].chan.cum + 1
          BY <2>3, <2>4, <2>5, <2>6, <4>2 DEF TempoPutEffect, Tempo!Voucher
        <5>. QED BY <2>3, <4>2, <5>1 DEF Tempo!CoveredCall, Tempo!Covers, Tempo!Voucher
      <4>3. CASE d = c /\ next = "served"
        BY <2>5, <4>3 DEF TempoPutEffect, Tempo!CoveredCall
      <4>. QED BY <4>1, <4>2, <4>3
    <3>8. Tempo!Covered'
      BY <1>1, <3>6, <3>7 DEF Tempo!Covered, Tempo!Covers
    <3>9. ASSUME NEW d \in Requests PROVE Tempo!RoomyCall(d)'
      <4>1. CASE d = c
        BY <2>5, <4>1 DEF TempoPutEffect, Tempo!RoomyCall
      <4>2. CASE d # c
        <5>1. /\ Tempo!RoomyCall(d) /\ tempoCall[d].raised \in Nat /\ tempoCall'[d].raised \in Nat
                 /\ tempoCall[d].key \in Tempo!Channels
              /\ tempoDeposit[tempoCall[d].key] \in Nat /\ tempoCall[d].chan.cum \in Nat
          <6>1. tempoCall'[d] \in Tempo!Locals
            BY <2>5 DEF TempoPutEffect
          <6>. QED BY <1>1, <3>1, <6>1, TempoTyped DEF Tempo!Roomy, Tempo!TypeOK, Tempo!Locals
        <5>2. ASSUME tempoCall[d].pc = "read", NEW t \in Tempo!Slots,
        t \in Tempo!Resolve(tempoCall[d].key)
              PROVE  tempoSlot'[t].cum + 2 <= tempoDeposit[tempoCall[d].key] + tempoCall'[d].raised
          <6>1. tempoSlot[t].id = tempoCall[d].key /\ tempoSlot[t].cum + 2
                <= tempoDeposit[tempoCall[d].key] + tempoCall[d].raised
            BY <5>1, <5>2 DEF Tempo!RoomyCall, Tempo!Room, Tempo!Resolve, Tempo!Factor
          <6>2. tempoCall'[d].raised >= tempoCall[d].raised
            BY <2>5, <4>2 DEF TempoPutEffect
          <6>3. CASE t # s
            BY <2>6, <3>4, <5>1, <6>1, <6>2, <6>3
          <6>4. CASE t = s /\ rec.cum = tempoSlot[s].cum
            BY <2>6, <3>4, <5>1, <6>1, <6>2, <6>4
          <6>5. CASE t = s /\ rec.cum > tempoSlot[s].cum
            <7>1. tempoCall'[d].raised = tempoCall[d].raised + (rec.cum - tempoSlot[s].cum)
              BY <2>5, <3>2, <4>2, <5>2, <6>1, <6>5 DEF TempoPutEffect
            <7>. QED BY <2>3, <2>6, <5>1, <6>1, <6>5, <7>1
          <6>. QED BY <2>3, <3>3, <6>3, <6>4, <6>5
        <5>3. Tempo!Resolve(tempoCall[d].key)' = Tempo!Resolve(tempoCall'[d].key)
              /\ tempoCall'[d].key = tempoCall[d].key /\ tempoCall'[d].pc = tempoCall[d].pc
              /\ tempoCall'[d].chan = tempoCall[d].chan /\ tempoCall'[d].raised >= tempoCall[d].raised
          BY <2>5, <3>2, <4>2 DEF TempoPutEffect, Tempo!Resolve, Tempo!Slots
        <5>4. tempoCall'[d].pc = "sign" => Tempo!Room(d, tempoCall[d].chan)'
          BY <1>1, <5>1, <5>3 DEF Tempo!RoomyCall, Tempo!Room, Tempo!Factor
        <5>5. tempoCall'[d].pc = "read"
              => \A t \in Tempo!Resolve(tempoCall[d].key)' : Tempo!Room(d, tempoSlot[t])'
          BY <1>1, <5>2, <5>3 DEF Tempo!Room, Tempo!Resolve, Tempo!Factor
        <5>. QED BY <5>3, <5>4, <5>5 DEF Tempo!RoomyCall
      <4>. QED BY <4>1, <4>2
    <3>10. tempoOp.pc = "put" => tempoOp.rec.cum <= tempoSlot'["primary"].cum
      <4>1. tempoOp.rec.cum \in Nat
        BY <1>1 DEF Tempo!TypeOK, Tempo!Records
      <4>2. "primary" \in Tempo!Slots
        BY DEF Tempo!Slots
      <4>. QED BY <3>1, <3>4, <4>1, <4>2 DEF Tempo!Roomy
    <3>11. "short" \notin tempoSlips'
      BY <2>7, <3>1 DEF Tempo!Roomy
    <3>. QED BY <1>1, <3>8, <3>9, <3>10, <3>11 DEF Tempo!Roomy
  <2>13. "uncommitted" \notin tempoSlips' => Tempo!Watched'
    BY <1>1, <2>7 DEF Tempo!Watched
  <2>. QED BY <2>8, <2>10, <2>11, <2>12, <2>13 DEF Tempo!IInv
<1>. QED BY <1>2, <1>3

-----------------------------------------------------------------------------
(* The steps of the operator, the merchant and the tempoWatch.                  *)

TempoRestEffect ==
    /\ UNCHANGED <<tempoCall, tempoAccepted, tempoSigned>> /\ tempoSlips \subseteq tempoSlips'
    /\ \A s \in Tempo!Slots : Tempo!Bound(tempoSlot[s])'
    /\ Tempo!Bound(tempoOp.rec)' /\ Tempo!Keyed'
    /\ "late" \notin tempoSlips' => Tempo!Placed'
    /\ Tempo!Fine' => /\ \A s \in Tempo!Slots : tempoSlot[s].id \in Tempo!Channels =>
                            \E t \in Tempo!Slots : tempoSlot'[t].id = tempoSlot[s].id
                            /\ tempoSlot'[t].cum >= tempoSlot[s].cum
                      /\ Tempo!Roomy'
    /\ "uncommitted" \notin tempoSlips' => Tempo!Watched'

LEMMA TempoRestKeeps ==
    ASSUME Tempo!IInv, Tempo!TypeOK', TempoRestEffect
    PROVE  Tempo!IInv'
<1>1. /\ Tempo!TypeOK /\ Tempo!Bounded /\ (Tempo!Fine => Tempo!Covered)
      /\ UNCHANGED <<tempoCall, tempoAccepted, tempoSigned>> /\ tempoSlips \subseteq tempoSlips'
  BY DEF Tempo!IInv, TempoRestEffect
<1>2. Tempo!Bounded'
  <2>1. \A c \in Requests : Tempo!BoundedCall(c)'
    BY <1>1 DEF Tempo!Bounded, Tempo!BoundedCall, Tempo!Bound, Tempo!Voucher, Tempo!Putting
  <2>2. \A i \in Tempo!Channels : tempoAccepted'[i] <= Tempo!Cardinality(tempoSigned'[i])
    BY <1>1 DEF Tempo!Bounded
  <2>. QED BY <2>1, <2>2 DEF Tempo!Bounded, TempoRestEffect
<1>3. ASSUME Tempo!Fine' PROVE Tempo!Covered'
  <2>1. Tempo!Covered
    BY <1>1, <1>3 DEF Tempo!Fine
  <2>2. ASSUME NEW i \in Tempo!Channels, NEW x \in Nat, Tempo!Covers(i, x) PROVE Tempo!Covers(i, x)'
    <3>1. PICK s \in Tempo!Slots : tempoSlot[s].id = i /\ tempoSlot[s].cum >= x
      BY <2>2 DEF Tempo!Covers
    <3>2. PICK t \in Tempo!Slots : tempoSlot'[t].id = tempoSlot[s].id /\ tempoSlot'[t].cum >= tempoSlot[s].cum
      BY <1>3, <2>2, <3>1 DEF TempoRestEffect
    <3>3. tempoSlot[s].cum \in Nat /\ tempoSlot'[t].cum \in Nat
      BY <1>1, <3>1, <3>2, TempoSlotTyped DEF Tempo!TypeOK, Tempo!Records
    <3>. QED BY <3>1, <3>2, <3>3 DEF Tempo!Covers
  <2>3. \A i \in Tempo!Channels : tempoAccepted'[i] = 0 \/ Tempo!Covers(i, tempoAccepted[i])'
    BY <1>1, <2>1, <2>2 DEF Tempo!Covered, Tempo!TypeOK
  <2>4. ASSUME NEW d \in Requests PROVE Tempo!CoveredCall(d)'
    <3>1. Tempo!CoveredCall(d) /\ tempoCall[d].chan.cum + 1 \in Nat
          /\ tempoCall[d].key \in Tempo!Channels
      BY <1>1, <2>1, TempoTyped DEF Tempo!Covered
    <3>2. PICK k, x : k = tempoCall[d].key /\ x = tempoCall[d].chan.cum + 1
      OBVIOUS
    <3>3. tempoCall[d].pc \in {"send", "after", "afterPut"} => Tempo!Covers(k, x)'
      BY <2>2, <3>1, <3>2 DEF Tempo!CoveredCall, Tempo!Voucher
    <3>. QED BY <1>1, <3>2, <3>3 DEF Tempo!CoveredCall, Tempo!Covers, Tempo!Voucher
  <2>. QED BY <1>1, <2>3, <2>4 DEF Tempo!Covered, Tempo!Covers
<1>. QED BY <1>2, <1>3 DEF Tempo!IInv, TempoRestEffect

\* Steps that leave the slots: the records stay where they are, and calls have
\* the room they had.
LEMMA TempoSlotsStay ==
    ASSUME Tempo!IInv, Tempo!TypeOK',
           UNCHANGED <<tempoSlot, tempoCall>>, tempoSlips' \subseteq tempoSlips \cup {"uncommitted"},
           tempoSlips \subseteq tempoSlips',
           \A c \in Requests : tempoDeposit'[tempoCall[c].key] >= tempoDeposit[tempoCall[c].key]
    PROVE  /\ \A s \in Tempo!Slots : \E t \in Tempo!Slots : tempoSlot'[t].id = tempoSlot[s].id
              /\ tempoSlot'[t].cum >= tempoSlot[s].cum
           /\ Tempo!Fine' => (\A c \in Requests : Tempo!RoomyCall(c)') /\ "short" \notin tempoSlips'
           /\ "late" \notin tempoSlips' => Tempo!Placed
           /\ Tempo!Fine' => Tempo!Roomy
           /\ "uncommitted" \notin tempoSlips' => Tempo!Watched
<1>1. Tempo!TypeOK /\ (Tempo!Fine => Tempo!Roomy) /\ ("late" \notin tempoSlips => Tempo!Placed)
      /\ ("uncommitted" \notin tempoSlips => Tempo!Watched)
  BY DEF Tempo!IInv
<1>2. \A s \in Tempo!Slots : \E t \in Tempo!Slots : tempoSlot'[t].id = tempoSlot[s].id
      /\ tempoSlot'[t].cum >= tempoSlot[s].cum
  <2>1. \A s \in Tempo!Slots : tempoSlot[s].cum \in Nat
    BY <1>1, TempoSlotTyped
  <2>. QED BY <2>1
<1>3. ASSUME Tempo!Fine' PROVE Tempo!Roomy /\ (\A c \in Requests : Tempo!RoomyCall(c)')
             /\ "short" \notin tempoSlips'
  <2>1. Tempo!Fine /\ Tempo!Roomy
    BY <1>1, <1>3 DEF Tempo!Fine
  <2>2. ASSUME NEW c \in Requests PROVE Tempo!RoomyCall(c)'
    <3>1. /\ Tempo!RoomyCall(c) /\ tempoCall[c].key \in Tempo!Channels
             /\ tempoCall[c].raised \in Nat /\ tempoCall[c].chan.cum \in Nat
          /\ tempoDeposit[tempoCall[c].key] \in Nat /\ tempoDeposit'[tempoCall[c].key] \in Nat
          /\ tempoDeposit'[tempoCall[c].key] >= tempoDeposit[tempoCall[c].key]
      BY <1>1, <2>1, TempoTyped DEF Tempo!Roomy, Tempo!TypeOK
    <3>2. \A t \in Tempo!Slots : tempoSlot[t].cum \in Nat
      BY <1>1, TempoSlotTyped
    <3>3. Tempo!Resolve(tempoCall[c].key)' = Tempo!Resolve(tempoCall[c].key)
          /\ Tempo!Resolve(tempoCall[c].key) \subseteq Tempo!Slots
      BY DEF Tempo!Resolve
    <3>4. tempoCall[c].pc = "read" => \A t \in Tempo!Resolve(tempoCall[c].key) : tempoSlot[t].cum
          + 2 <= tempoDeposit'[tempoCall[c].key] + tempoCall[c].raised
      BY <3>1, <3>2, <3>3 DEF Tempo!RoomyCall, Tempo!Room, Tempo!Factor
    <3>5. tempoCall[c].pc = "sign" => tempoCall[c].chan.cum + 2 <= tempoDeposit'[tempoCall[c].key]
          + tempoCall[c].raised
      BY <3>1 DEF Tempo!RoomyCall, Tempo!Room, Tempo!Factor
    <3>. QED BY <3>3, <3>4, <3>5 DEF Tempo!RoomyCall, Tempo!Room, Tempo!Factor
  <2>. QED BY <2>1, <2>2 DEF Tempo!Roomy
<1>. QED BY <1>1, <1>2, <1>3

LEMMA TempoOpTyped ==
    ASSUME NEW p \in Tempo!OpSteps, NEW r \in Tempo!Records, Tempo!OpGoto(p, r)
    PROVE  tempoOp' \in [pc : Tempo!OpSteps, rec : Tempo!Records] /\ tempoOp'.pc = p /\ tempoOp'.rec = r
  BY DEF Tempo!OpGoto

LEMMA TempoOpTypes ==
    ASSUME Tempo!TypeOK,
           UNCHANGED <<tempoCall, tempoSettled, tempoAccepted, tempoSigned, tempoWatch, tempoHealth,
                       tempoTold, tempoFaults>>,
           tempoSlot' \in [Tempo!Slots -> Tempo!Records], tempoDeposit' \in [Tempo!Channels -> Nat],
           tempoKey' \in Tempo!Channels, tempoClosed' \in BOOLEAN,
           tempoOp' \in [pc : Tempo!OpSteps, rec : Tempo!Records],
           tempoSlips' \subseteq {"short", "rewound", "late", "uncommitted"}
    PROVE  Tempo!TypeOK'
  BY DEF Tempo!TypeOK

\* A step of the script from p to q that writes nothing to KV.
LEMMA TempoScriptStep ==
    ASSUME Tempo!IInv,
           UNCHANGED <<tempoCall, tempoSlot, tempoSettled, tempoAccepted, tempoSigned, tempoKey,
                       tempoClosed, tempoWatch, tempoHealth, tempoTold, tempoSlips, tempoFaults>>,
           tempoDeposit' \in [Tempo!Channels -> Nat],
           \A c \in Requests : tempoDeposit'[tempoCall[c].key] >= tempoDeposit[tempoCall[c].key],
           NEW q \in Tempo!OpSteps, NEW r \in Tempo!Records, Tempo!OpGoto(q, r), Tempo!Bound(r),
           tempoOp.pc = "done" => q = "done",
           "late" \notin tempoSlips /\ Tempo!Placed =>
               /\ q \in Tempo!Before => tempoSlot["primary"].id = "old"
                  /\ tempoSlot["alt"] = Tempo!Empty
               /\ q \in {"moved", "checked"} => tempoSlot["primary"].id = "old"
                  /\ tempoSlot["alt"] = r /\ r.id = "old"
               /\ q \in {"installed", "done"} => tempoSlot["primary"].id = "new"
                  /\ tempoSlot["alt"].id = "old"
               /\ q = "stopped" => tempoSlot["primary"].id = "old"
                  /\ tempoSlot["alt"].id \in {"old", Nobody}
               /\ q = "put" => r.id = "old" /\ r.cum <= tempoSlot["primary"].cum
               /\ tempoOp.pc \in {"installed", "done"} => q \in {"installed", "done"}
    PROVE  Tempo!IInv'
<1>1. Tempo!TypeOK /\ Tempo!Bounded /\ Tempo!Keyed
  BY DEF Tempo!IInv
<1>2. tempoOp' \in [pc : Tempo!OpSteps, rec : Tempo!Records] /\ tempoOp'.pc = q /\ tempoOp'.rec = r
  BY TempoOpTyped
<1>3. Tempo!TypeOK'
  BY <1>1, <1>2, TempoOpTypes DEF Tempo!TypeOK
<1>4. /\ \A s \in Tempo!Slots : \E t \in Tempo!Slots : tempoSlot'[t].id = tempoSlot[s].id
         /\ tempoSlot'[t].cum >= tempoSlot[s].cum
      /\ Tempo!Fine' => (\A c \in Requests : Tempo!RoomyCall(c)') /\ "short" \notin tempoSlips'
      /\ "late" \notin tempoSlips' => Tempo!Placed
      /\ "uncommitted" \notin tempoSlips' => Tempo!Watched
  BY <1>3, TempoSlotsStay
<1>5. (\A s \in Tempo!Slots : Tempo!Bound(tempoSlot[s])') /\ Tempo!Bound(tempoOp.rec)'
  BY <1>1, <1>2 DEF Tempo!Bounded, Tempo!Bound
<1>6. Tempo!Keyed'
  BY <1>1, <1>2 DEF Tempo!Keyed
<1>7. ASSUME "late" \notin tempoSlips' PROVE Tempo!Placed'
  <2>1. Tempo!Placed
    BY <1>4, <1>7
  <2>2. \A c \in Requests : Tempo!PlacedCall(c)'
    BY <1>2, <1>7, <2>1 DEF Tempo!Placed, Tempo!PlacedCall, Tempo!Putting
  <2>. QED BY <1>2, <1>7, <2>1, <2>2 DEF Tempo!Placed
<1>8. ASSUME Tempo!Fine' PROVE Tempo!Roomy'
  <2>1. Tempo!Placed /\ "late" \notin tempoSlips
    BY <1>4, <1>8 DEF Tempo!Fine
  <2>. QED BY <1>2, <1>4, <1>8, <2>1 DEF Tempo!Roomy
<1>9. "uncommitted" \notin tempoSlips' => Tempo!Watched'
  BY <1>4 DEF Tempo!Watched
<1>10. TempoRestEffect
  BY <1>4, <1>5, <1>6, <1>7, <1>8, <1>9 DEF TempoRestEffect
<1>. QED BY <1>3, <1>10, TempoRestKeeps

\* A step of the script that reads and holds no record afterwards.
LEMMA TempoScriptMoves ==
    ASSUME Tempo!IInv,
           UNCHANGED <<tempoCall, tempoSlot, tempoSettled, tempoAccepted, tempoSigned, tempoKey,
                       tempoClosed, tempoWatch, tempoHealth, tempoTold, tempoSlips, tempoFaults>>,
           tempoDeposit' \in [Tempo!Channels -> Nat],
           \A c \in Requests : tempoDeposit'[tempoCall[c].key] >= tempoDeposit[tempoCall[c].key],
           NEW q \in {"topped", "idle2", "opened", "stopped", "done"}, Tempo!OpGoto(q, Tempo!Empty),
           tempoOp.pc # "done",
           q \in {"topped", "idle2", "opened"} => tempoOp.pc \in Tempo!Before,
           q = "done" => tempoOp.pc = "installed",
           q = "stopped" => \/ tempoOp.pc \in {"opened", "moved"}
                            \/ tempoOp.pc = "topped" /\ tempoSlot["primary"].id # "old"
                            \/ tempoOp.pc = "installed" /\ tempoSlot["primary"].id # "new"
    PROVE  Tempo!IInv'
<1>1. Tempo!Empty \in Tempo!Records /\ Tempo!Bound(Tempo!Empty) /\ q \in Tempo!OpSteps
  BY TempoEmptyTyped, TempoConstants DEF Tempo!Bound, Tempo!OpSteps, Tempo!Before
<1>2. Tempo!Empty.id = Nobody /\ Nobody # "old" /\ Nobody # "new"
  BY TempoEmptyTyped, TempoConstants DEF Tempo!Channels
<1>3. ASSUME Tempo!Placed
      PROVE  /\ q \in Tempo!Before => tempoSlot["primary"].id = "old" /\ tempoSlot["alt"] = Tempo!Empty
             /\ q \in {"installed", "done"} => tempoSlot["primary"].id = "new"
                /\ tempoSlot["alt"].id = "old"
             /\ q = "stopped" => tempoSlot["primary"].id = "old"
                /\ tempoSlot["alt"].id \in {"old", Nobody}
             /\ tempoOp.pc \in {"installed", "done"} => q \in {"installed", "done"}
             /\ q \notin {"put", "moved", "checked"}
  BY <1>2, <1>3 DEF Tempo!Placed, Tempo!Before
<1>. QED BY <1>1, <1>3, TempoScriptStep

LEMMA TempoDepositStays ==
    ASSUME Tempo!TypeOK, UNCHANGED tempoDeposit
    PROVE  tempoDeposit' \in [Tempo!Channels -> Nat]
           /\ \A c \in Requests : tempoDeposit'[tempoCall[c].key] >= tempoDeposit[tempoCall[c].key]
  BY TempoTyped DEF Tempo!TypeOK

LEMMA TempoTopUpChainKeeps ==
    ASSUME Tempo!IInv, Tempo!TopUpChain
    PROVE  Tempo!IInv'
<1>1. Tempo!TypeOK /\ tempoOp.pc = "idle" /\ Tempo!OpGoto("topped", Tempo!Empty) /\ TopUp \in Nat
  BY TempoConstants DEF Tempo!IInv, Tempo!TopUpChain, Tempo!OpAt
<1>2. UNCHANGED <<tempoCall, tempoSlot, tempoSettled, tempoAccepted, tempoSigned, tempoKey,
                  tempoClosed, tempoWatch, tempoHealth, tempoTold, tempoSlips, tempoFaults>>
  BY DEF Tempo!TopUpChain, Tempo!cron
<1>3. tempoDeposit' \in [Tempo!Channels -> Nat] /\ \A i
      \in Tempo!Channels : tempoDeposit'[i] >= tempoDeposit[i]
  BY <1>1 DEF Tempo!TopUpChain, Tempo!TypeOK, Tempo!Channels
<1>4. \A c \in Requests : tempoDeposit'[tempoCall[c].key] >= tempoDeposit[tempoCall[c].key]
  BY <1>1, <1>3, TempoTyped
<1>. QED BY <1>1, <1>2, <1>3, <1>4, TempoScriptMoves DEF Tempo!Before

LEMMA TempoTopUpReadKeeps ==
    ASSUME Tempo!IInv, Tempo!TopUpRead
    PROVE  Tempo!IInv'
<1>1. /\ Tempo!TypeOK /\ tempoOp.pc = "topped" /\ Tempo!Bounded
      /\ UNCHANGED <<tempoCall, tempoSlot, tempoDeposit, tempoSettled, tempoAccepted, tempoSigned,
                     tempoKey, tempoClosed, tempoWatch, tempoHealth, tempoTold, tempoSlips,
                     tempoFaults>>
  BY DEF Tempo!IInv, Tempo!TopUpRead, Tempo!OpAt, Tempo!chain, Tempo!cron
<1>2. tempoDeposit' \in [Tempo!Channels -> Nat] /\ \A c
      \in Requests : tempoDeposit'[tempoCall[c].key] >= tempoDeposit[tempoCall[c].key]
  BY <1>1, TempoDepositStays
<1>3. CASE tempoSlot["primary"].id # "old"
  BY <1>1, <1>2, <1>3, TempoScriptMoves DEF Tempo!TopUpRead
<1>4. CASE tempoSlot["primary"].id = "old"
  <2>1. PICK r : r = [tempoSlot["primary"] EXCEPT !.dep = tempoDeposit["old"]]
    OBVIOUS
  <2>2. /\ "primary" \in Tempo!Slots /\ "old" \in Tempo!Channels /\ tempoDeposit["old"] \in Nat
    BY <1>1 DEF Tempo!Slots, Tempo!Channels, Tempo!TypeOK
  <2>3. tempoSlot["primary"] \in [id : Tempo!Channels \cup {Nobody}, cum : Nat, dep : Nat]
    BY <1>1, <2>2, TempoSlotTyped DEF Tempo!Records
  <2>4. r \in Tempo!Records /\ r.id = "old" /\ r.cum = tempoSlot["primary"].cum /\ r.cum \in Nat
    BY <1>4, <2>1, <2>2, <2>3 DEF Tempo!Records
  <2>5. Tempo!Bound(r)
    BY <1>1, <1>4, <2>2, <2>4 DEF Tempo!Bounded, Tempo!Bound
  <2>6. Tempo!OpGoto("put", r) /\ "put" \in Tempo!OpSteps
    BY <1>4, <2>1 DEF Tempo!TopUpRead, Tempo!OpSteps, Tempo!Before
  <2>7. ASSUME Tempo!Placed
        PROVE  /\ tempoSlot["primary"].id = "old" /\ tempoSlot["alt"] = Tempo!Empty
               /\ r.id = "old" /\ r.cum <= tempoSlot["primary"].cum
    BY <1>1, <2>4, <2>7 DEF Tempo!Placed, Tempo!Before
  <2>. QED BY <1>1, <1>2, <2>4, <2>5, <2>6, <2>7, TempoScriptStep
<1>. QED BY <1>3, <1>4

LEMMA TempoOpenChannelKeeps ==
    ASSUME Tempo!IInv, Tempo!OpenChannel
    PROVE  Tempo!IInv'
<1>1. Tempo!TypeOK /\ Tempo!Keyed /\ tempoOp.pc \in {"idle", "idle2"}
      /\ Tempo!OpGoto("opened", Tempo!Empty) /\ Deposits["new"] \in Nat
  BY TempoConstants DEF Tempo!IInv, Tempo!OpenChannel, Tempo!OpAt, Tempo!Channels
<1>2. UNCHANGED <<tempoCall, tempoSlot, tempoSettled, tempoAccepted, tempoSigned, tempoKey,
                  tempoClosed, tempoWatch, tempoHealth, tempoTold, tempoSlips, tempoFaults>>
  BY DEF Tempo!OpenChannel, Tempo!cron
<1>3. tempoDeposit' \in [Tempo!Channels -> Nat] /\ tempoDeposit'["old"] = tempoDeposit["old"]
      /\ tempoDeposit["old"] \in Nat
  BY <1>1 DEF Tempo!OpenChannel, Tempo!TypeOK, Tempo!Channels
<1>4. \A c \in Requests : tempoDeposit'[tempoCall[c].key] >= tempoDeposit[tempoCall[c].key]
  BY <1>1, <1>3 DEF Tempo!Keyed
<1>. QED BY <1>1, <1>2, <1>3, <1>4, TempoScriptMoves DEF Tempo!Before

LEMMA TempoRefuseOpenedKeeps ==
    ASSUME Tempo!IInv, Tempo!RefuseOpened
    PROVE  Tempo!IInv'
<1>1. /\ Tempo!TypeOK /\ tempoOp.pc = "opened" /\ Tempo!OpGoto("stopped", Tempo!Empty)
      /\ UNCHANGED <<tempoCall, tempoSlot, tempoDeposit, tempoSettled, tempoAccepted, tempoSigned,
                     tempoKey, tempoClosed, tempoWatch, tempoHealth, tempoTold, tempoSlips,
                     tempoFaults>>
  BY DEF Tempo!IInv, Tempo!RefuseOpened, Tempo!OpAt, Tempo!chain, Tempo!cron
<1>2. tempoDeposit' \in [Tempo!Channels -> Nat] /\ \A c
      \in Requests : tempoDeposit'[tempoCall[c].key] >= tempoDeposit[tempoCall[c].key]
  BY <1>1, TempoDepositStays
<1>. QED BY <1>1, <1>2, TempoScriptMoves

LEMMA TempoCheckIdleKeeps ==
    ASSUME Tempo!IInv, Tempo!CheckIdle
    PROVE  Tempo!IInv'
<1>1. /\ Tempo!TypeOK /\ tempoOp.pc = "moved" /\ Tempo!Bounded
      /\ UNCHANGED <<tempoCall, tempoSlot, tempoDeposit, tempoSettled, tempoAccepted, tempoSigned,
                     tempoKey, tempoClosed, tempoWatch, tempoHealth, tempoTold, tempoSlips,
                     tempoFaults>>
  BY DEF Tempo!IInv, Tempo!CheckIdle, Tempo!OpAt, Tempo!chain, Tempo!cron
<1>2. tempoDeposit' \in [Tempo!Channels -> Nat] /\ \A c
      \in Requests : tempoDeposit'[tempoCall[c].key] >= tempoDeposit[tempoCall[c].key]
  BY <1>1, TempoDepositStays
<1>3. CASE Tempo!OpGoto("stopped", Tempo!Empty)
  BY <1>1, <1>2, <1>3, TempoScriptMoves
<1>4. CASE Tempo!OpGoto("checked", tempoOp.rec)
  <2>1. PICK r : r = tempoOp.rec
    OBVIOUS
  <2>2. r \in Tempo!Records /\ Tempo!Bound(r) /\ Tempo!OpGoto("checked", r)
        /\ "checked" \in Tempo!OpSteps
    BY <1>1, <1>4, <2>1 DEF Tempo!TypeOK, Tempo!Bounded, Tempo!OpSteps
  <2>3. ASSUME Tempo!Placed
        PROVE  tempoSlot["primary"].id = "old" /\ tempoSlot["alt"] = r /\ r.id = "old"
    BY <1>1, <2>1, <2>3 DEF Tempo!Placed
  <2>. QED BY <1>1, <1>2, <2>2, <2>3, TempoScriptStep DEF Tempo!Before
<1>. QED BY <1>3, <1>4 DEF Tempo!CheckIdle

LEMMA TempoReadBackKeeps ==
    ASSUME Tempo!IInv, Tempo!ReadBack
    PROVE  Tempo!IInv'
<1>1. /\ Tempo!TypeOK /\ tempoOp.pc = "installed"
      /\ UNCHANGED <<tempoCall, tempoSlot, tempoDeposit, tempoSettled, tempoAccepted, tempoSigned,
                     tempoKey, tempoClosed, tempoWatch, tempoHealth, tempoTold, tempoSlips,
                     tempoFaults>>
  BY DEF Tempo!IInv, Tempo!ReadBack, Tempo!OpAt, Tempo!chain, Tempo!cron
<1>2. tempoDeposit' \in [Tempo!Channels -> Nat] /\ \A c
      \in Requests : tempoDeposit'[tempoCall[c].key] >= tempoDeposit[tempoCall[c].key]
  BY <1>1, TempoDepositStays
<1>3. CASE tempoSlot["primary"].id = "new"
  <2>1. Tempo!OpGoto("done", Tempo!Empty)
    BY <1>3 DEF Tempo!ReadBack
  <2>. QED BY <1>1, <1>2, <2>1, TempoScriptMoves
<1>4. CASE tempoSlot["primary"].id # "new"
  <2>1. Tempo!OpGoto("stopped", Tempo!Empty)
    BY <1>4 DEF Tempo!ReadBack
  <2>. QED BY <1>1, <1>2, <1>4, <2>1, TempoScriptMoves
<1>. QED BY <1>3, <1>4

\* A write that leaves every call's channel the watermark it had.
LEMMA TempoRoomStays ==
    ASSUME Tempo!IInv, Tempo!TypeOK',
           UNCHANGED <<tempoCall, tempoDeposit>>, Tempo!Fine', tempoSlips \subseteq tempoSlips',
           tempoSlips' \subseteq tempoSlips \cup {"rewound", "late"},
           \A c \in Requests, t \in Tempo!Slots : t \in Tempo!Resolve(tempoCall[c].key)'
               => \E u \in Tempo!Slots : u \in Tempo!Resolve(tempoCall[c].key)
               /\ tempoSlot'[t].cum = tempoSlot[u].cum
    PROVE  (\A c \in Requests : Tempo!RoomyCall(c)') /\ "short" \notin tempoSlips'
<1>1. Tempo!TypeOK /\ Tempo!Roomy
  BY DEF Tempo!IInv, Tempo!Fine
<1>2. ASSUME NEW c \in Requests PROVE Tempo!RoomyCall(c)'
  <2>1. Tempo!RoomyCall(c)
    BY <1>1 DEF Tempo!Roomy
  <2>2. tempoCall[c].pc = "read" => \A t \in Tempo!Slots : t \in Tempo!Resolve(tempoCall[c].key)'
                 => tempoSlot'[t].cum + Tempo!Factor <= tempoDeposit[tempoCall[c].key]
                 + tempoCall[c].raised
    BY <2>1 DEF Tempo!RoomyCall, Tempo!Room
  <2>3. \A t \in Tempo!Resolve(tempoCall[c].key)' : t \in Tempo!Slots
    BY DEF Tempo!Resolve
  <2>. QED BY <2>1, <2>2, <2>3 DEF Tempo!RoomyCall, Tempo!Room
<1>. QED BY <1>1, <1>2 DEF Tempo!Roomy

LEMMA TempoTopUpPutKeeps ==
    ASSUME Tempo!IInv, Tempo!TopUpPut
    PROVE  Tempo!IInv'
<1>1. /\ Tempo!TypeOK /\ Tempo!Bounded /\ Tempo!Keyed /\ tempoOp.pc = "put"
      /\ "late" \notin tempoSlips => Tempo!Placed
      /\ Tempo!Fine => Tempo!Roomy
      /\ "uncommitted" \notin tempoSlips => Tempo!Watched
      /\ UNCHANGED <<tempoCall, tempoDeposit, tempoSettled, tempoAccepted, tempoSigned, tempoKey,
                     tempoClosed, tempoWatch, tempoHealth, tempoTold, tempoFaults>>
      /\ tempoOp.rec \in Tempo!Records
  BY DEF Tempo!IInv, Tempo!TopUpPut, Tempo!OpAt, Tempo!chain, Tempo!cron, Tempo!TypeOK
<1>2. tempoOp' \in [pc : Tempo!OpSteps, rec : Tempo!Records] /\ tempoOp'.pc = "idle2"
      /\ tempoOp'.rec = Tempo!Empty
  BY TempoEmptyTyped, TempoOpTyped DEF Tempo!TopUpPut, Tempo!OpSteps, Tempo!Before
<1>3. tempoSlot' \in [Tempo!Slots -> Tempo!Records] /\ tempoSlot'["primary"] = tempoOp.rec
      /\ tempoSlot'["alt"] = tempoSlot["alt"]
  BY <1>1 DEF Tempo!TopUpPut, Tempo!TypeOK, Tempo!Slots
<1>4. tempoSlips' = tempoSlips \cup Tempo!Undone("primary", tempoOp.rec)
      /\ tempoSlips' \subseteq tempoSlips \cup {"rewound"}
  BY DEF Tempo!TopUpPut, Tempo!Slip, Tempo!Undone
<1>5. Tempo!TypeOK'
  BY <1>1, <1>2, <1>3, <1>4, TempoOpTypes DEF Tempo!TypeOK
<1>6. (\A s \in Tempo!Slots : Tempo!Bound(tempoSlot[s])') /\ Tempo!Bound(tempoOp.rec)'
  BY <1>1, <1>2, <1>3, TempoEmptyTyped, TempoConstants DEF Tempo!Bounded, Tempo!Bound, Tempo!Slots
<1>7. Tempo!Keyed'
  BY <1>1, <1>2 DEF Tempo!Keyed
<1>8. ASSUME "late" \notin tempoSlips'
      PROVE  Tempo!Placed' /\ tempoSlot["primary"].id = "old" /\ tempoOp.rec.id = "old"
             /\ tempoSlot["alt"].id = Nobody
  <2>1. Tempo!Placed /\ tempoSlot["primary"].id = "old" /\ tempoSlot["alt"] = Tempo!Empty
        /\ tempoOp.rec.id = "old"
    BY <1>1, <1>4, <1>8 DEF Tempo!Placed, Tempo!Before
  <2>2. ASSUME NEW c \in Requests,
  Tempo!Putting(c)' PROVE tempoSlot'[tempoCall'[c].slot].id = tempoCall'[c].key
  /\ tempoCall'[c].slot # "alt"
    <3>1. tempoSlot[tempoCall[c].slot].id = tempoCall[c].key /\ tempoCall[c].slot # "alt"
          /\ tempoCall[c].slot \in Tempo!Slots
      BY <1>1, <2>1, <2>2, TempoTyped DEF Tempo!Placed, Tempo!PlacedCall, Tempo!Putting
    <3>. QED BY <1>1, <1>3, <2>1, <3>1 DEF Tempo!Slots
  <2>3. \A c \in Requests : Tempo!PlacedCall(c)'
    BY <2>2 DEF Tempo!PlacedCall
  <2>. QED BY <1>2, <1>3, <2>1, <2>3, TempoEmptyTyped DEF Tempo!Placed
<1>9. ASSUME Tempo!Fine'
      PROVE  /\ \A s \in Tempo!Slots : tempoSlot[s].id \in Tempo!Channels =>
                   \E t \in Tempo!Slots : tempoSlot'[t].id = tempoSlot[s].id
                   /\ tempoSlot'[t].cum >= tempoSlot[s].cum
             /\ Tempo!Roomy'
  <2>1. Tempo!Fine /\ Tempo!Roomy /\ "late" \notin tempoSlips' /\ "rewound" \notin tempoSlips'
    BY <1>1, <1>4, <1>9 DEF Tempo!Fine
  <2>2. \A s \in Tempo!Slots : tempoSlot[s].cum \in Nat
    BY <1>1, TempoSlotTyped
  <2>3. "primary" \in Tempo!Slots /\ "alt" \in Tempo!Slots /\ tempoOp.rec.cum \in Nat
    BY <1>1 DEF Tempo!Slots, Tempo!Records
  <2>4. tempoSlot["primary"].cum <= tempoOp.rec.cum
    BY <1>4, <1>8, <2>1, <2>2, <2>3 DEF Tempo!Undone
  <2>5. tempoOp.rec.cum = tempoSlot["primary"].cum
    BY <1>1, <2>1, <2>2, <2>3, <2>4 DEF Tempo!Roomy
  <2>6. \A s \in Tempo!Slots : tempoSlot'[s].id = tempoSlot[s].id
        /\ tempoSlot'[s].cum = tempoSlot[s].cum
    BY <1>3, <1>8, <2>1, <2>5 DEF Tempo!Slots
  <2>7. ASSUME NEW c \in Requests, NEW t \in Tempo!Slots, t \in Tempo!Resolve(tempoCall[c].key)'
        PROVE  \E u \in Tempo!Slots : u \in Tempo!Resolve(tempoCall[c].key)
               /\ tempoSlot'[t].cum = tempoSlot[u].cum
    BY <1>1, <2>3, <2>6, <2>7 DEF Tempo!Resolve
  <2>8. (\A c \in Requests : Tempo!RoomyCall(c)') /\ "short" \notin tempoSlips'
    BY <1>1, <1>4, <1>5, <1>9, <2>7, TempoRoomStays
  <2>. QED BY <1>2, <2>2, <2>6, <2>8 DEF Tempo!Roomy
<1>10. "uncommitted" \notin tempoSlips' => Tempo!Watched'
  BY <1>1, <1>4 DEF Tempo!Watched
<1>11. TempoRestEffect
  BY <1>1, <1>4, <1>6, <1>7, <1>8, <1>9, <1>10 DEF TempoRestEffect
<1>. QED BY <1>5, <1>11, TempoRestKeeps

LEMMA TempoMoveOldKeeps ==
    ASSUME Tempo!IInv, Tempo!MoveOld
    PROVE  Tempo!IInv'
<1>1. /\ Tempo!TypeOK /\ Tempo!Bounded /\ Tempo!Keyed /\ tempoOp.pc = "opened"
      /\ "late" \notin tempoSlips => Tempo!Placed
      /\ Tempo!Fine => Tempo!Roomy
      /\ "uncommitted" \notin tempoSlips => Tempo!Watched
      /\ UNCHANGED <<tempoCall, tempoDeposit, tempoSettled, tempoAccepted, tempoSigned, tempoKey,
                     tempoClosed, tempoWatch, tempoHealth, tempoTold, tempoSlips, tempoFaults>>
      /\ tempoSlot["primary"].id = "old" /\ tempoSlot["alt"] = Tempo!Empty
  BY DEF Tempo!IInv, Tempo!MoveOld, Tempo!OpAt, Tempo!chain, Tempo!cron
<1>2. PICK r : r = tempoSlot["primary"]
  OBVIOUS
<1>3. r \in Tempo!Records /\ r.cum \in Nat /\ r.id = "old" /\ Nobody # "old" /\ Nobody # "new"
  BY <1>1, <1>2, TempoSlotTyped, TempoConstants DEF Tempo!Slots, Tempo!Channels
<1>4. tempoOp' \in [pc : Tempo!OpSteps, rec : Tempo!Records] /\ tempoOp'.pc = "moved"
      /\ tempoOp'.rec = r
  BY <1>2, <1>3, TempoOpTyped DEF Tempo!MoveOld, Tempo!OpSteps
<1>5. tempoSlot' \in [Tempo!Slots -> Tempo!Records] /\ tempoSlot'["primary"] = r
      /\ tempoSlot'["alt"] = r
  BY <1>1, <1>2, <1>3 DEF Tempo!MoveOld, Tempo!TypeOK, Tempo!Slots
<1>6. Tempo!TypeOK'
  BY <1>1, <1>4, <1>5, TempoOpTypes DEF Tempo!TypeOK
<1>7. (\A s \in Tempo!Slots : Tempo!Bound(tempoSlot[s])') /\ Tempo!Bound(tempoOp.rec)'
  BY <1>1, <1>2, <1>4, <1>5 DEF Tempo!Bounded, Tempo!Bound, Tempo!Slots
<1>8. Tempo!Keyed'
  BY <1>1, <1>4 DEF Tempo!Keyed
<1>9. ASSUME "late" \notin tempoSlips' PROVE Tempo!Placed'
  <2>1. Tempo!Placed
    BY <1>1, <1>9
  <2>2. ASSUME NEW c \in Requests,
  Tempo!Putting(c)' PROVE tempoSlot'[tempoCall'[c].slot].id = tempoCall'[c].key
  /\ tempoCall'[c].slot # "alt"
    <3>1. tempoSlot[tempoCall[c].slot].id = tempoCall[c].key /\ tempoCall[c].slot # "alt"
          /\ tempoCall[c].slot \in Tempo!Slots
      BY <1>1, <2>1, <2>2, TempoTyped DEF Tempo!Placed, Tempo!PlacedCall, Tempo!Putting
    <3>. QED BY <1>1, <1>2, <1>5, <3>1 DEF Tempo!Slots
  <2>3. \A c \in Requests : Tempo!PlacedCall(c)'
    BY <2>2 DEF Tempo!PlacedCall
  <2>. QED BY <1>3, <1>4, <1>5, <2>3 DEF Tempo!Placed, Tempo!Before
<1>10. ASSUME Tempo!Fine'
       PROVE  /\ \A s \in Tempo!Slots : tempoSlot[s].id \in Tempo!Channels =>
                    \E t \in Tempo!Slots : tempoSlot'[t].id = tempoSlot[s].id
                    /\ tempoSlot'[t].cum >= tempoSlot[s].cum
              /\ Tempo!Roomy'
  <2>1. ASSUME NEW s \in Tempo!Slots, tempoSlot[s].id \in Tempo!Channels
        PROVE  \E t \in Tempo!Slots : tempoSlot'[t].id = tempoSlot[s].id
               /\ tempoSlot'[t].cum >= tempoSlot[s].cum
    <3>1. tempoSlot[s] = r /\ tempoSlot'[s] = r
      BY <1>1, <1>2, <1>5, <2>1, TempoEmptyTyped, TempoConstants DEF Tempo!Slots
    <3>. QED BY <1>3, <3>1
  <2>2. ASSUME NEW c \in Requests, NEW t \in Tempo!Slots, t \in Tempo!Resolve(tempoCall[c].key)'
        PROVE  \E u \in Tempo!Slots : u \in Tempo!Resolve(tempoCall[c].key)
               /\ tempoSlot'[t].cum = tempoSlot[u].cum
    <3>1. tempoSlot'[t] = r /\ tempoCall[c].key = "old"
      BY <1>1, <1>5 DEF Tempo!Slots, Tempo!Keyed
    <3>2. "primary" \in Tempo!Slots /\ "primary" \in Tempo!Resolve("old")
      BY <1>1 DEF Tempo!Resolve, Tempo!Slots
    <3>. QED BY <1>2, <3>1, <3>2
  <2>3. (\A c \in Requests : Tempo!RoomyCall(c)') /\ "short" \notin tempoSlips'
    BY <1>1, <1>6, <1>10, <2>2, TempoRoomStays
  <2>. QED BY <1>4, <2>1, <2>3 DEF Tempo!Roomy
<1>11. "uncommitted" \notin tempoSlips' => Tempo!Watched'
  BY <1>1 DEF Tempo!Watched
<1>12. TempoRestEffect
  BY <1>1, <1>7, <1>8, <1>9, <1>10, <1>11 DEF TempoRestEffect
<1>. QED BY <1>6, <1>12, TempoRestKeeps

LEMMA TempoInstallNewKeeps ==
    ASSUME Tempo!IInv, Tempo!InstallNew
    PROVE  Tempo!IInv'
<1>1. /\ Tempo!TypeOK /\ Tempo!Bounded /\ Tempo!Keyed /\ tempoOp.pc = "checked"
      /\ "late" \notin tempoSlips => Tempo!Placed
      /\ Tempo!Fine => Tempo!Roomy
      /\ "uncommitted" \notin tempoSlips => Tempo!Watched
      /\ UNCHANGED <<tempoCall, tempoDeposit, tempoSettled, tempoAccepted, tempoSigned, tempoKey,
                     tempoClosed, tempoWatch, tempoHealth, tempoTold, tempoFaults>>
  BY DEF Tempo!IInv, Tempo!InstallNew, Tempo!OpAt, Tempo!chain, Tempo!cron
<1>2. PICK r : r = Tempo!Record("new", 0, tempoDeposit["new"])
  OBVIOUS
<1>3. r \in Tempo!Records /\ r.cum = 0 /\ r.id = "new"
  BY <1>1, <1>2 DEF Tempo!Record, Tempo!Records, Tempo!TypeOK, Tempo!Channels
<1>4. tempoOp' \in [pc : Tempo!OpSteps, rec : Tempo!Records] /\ tempoOp'.pc = "installed"
      /\ tempoOp'.rec = Tempo!Empty
  BY TempoEmptyTyped, TempoOpTyped DEF Tempo!InstallNew, Tempo!OpSteps
<1>5. tempoSlot' \in [Tempo!Slots -> Tempo!Records] /\ tempoSlot'["primary"] = r
      /\ tempoSlot'["alt"] = tempoSlot["alt"]
  BY <1>1, <1>2, <1>3 DEF Tempo!InstallNew, Tempo!TypeOK, Tempo!Slots
<1>6. /\ tempoSlips \subseteq tempoSlips' /\ tempoSlips' \subseteq tempoSlips \cup {"late"}
      /\ "late" \notin tempoSlips' => tempoSlot["primary"] = tempoOp.rec
         /\ \A c \in Requests : ~Tempo!Putting(c)
  BY DEF Tempo!InstallNew, Tempo!Slip, Tempo!Putting
<1>7. Tempo!TypeOK'
  BY <1>1, <1>4, <1>5, <1>6, TempoOpTypes DEF Tempo!TypeOK
<1>8. (\A s \in Tempo!Slots : Tempo!Bound(tempoSlot[s])') /\ Tempo!Bound(tempoOp.rec)'
  <2>1. Tempo!Bound(r)' /\ Tempo!Bound(Tempo!Empty)'
    BY <1>1, <1>3, TempoCounting, TempoEmptyTyped, TempoConstants DEF Tempo!Bound, Tempo!Channels
  <2>2. Tempo!Bound(tempoSlot["alt"])'
    BY <1>1, <1>5 DEF Tempo!Bounded, Tempo!Bound, Tempo!Slots
  <2>. QED BY <1>4, <1>5, <2>1, <2>2 DEF Tempo!Bound, Tempo!Slots
<1>9. Tempo!Keyed'
  BY <1>1, <1>4 DEF Tempo!Keyed
<1>10. ASSUME "late" \notin tempoSlips'
       PROVE  Tempo!Placed' /\ tempoSlot["primary"] = tempoSlot["alt"] /\ tempoSlot["alt"].id = "old"
  <2>1. Tempo!Placed /\ tempoSlot["primary"] = tempoSlot["alt"] /\ tempoSlot["alt"].id = "old"
    BY <1>1, <1>6, <1>10 DEF Tempo!Placed
  <2>2. \A c \in Requests : Tempo!PlacedCall(c)'
    BY <1>1, <1>6, <1>10 DEF Tempo!PlacedCall, Tempo!Putting
  <2>. QED BY <1>3, <1>4, <1>5, <2>1, <2>2 DEF Tempo!Placed, Tempo!Before
<1>11. ASSUME Tempo!Fine'
       PROVE  /\ \A s \in Tempo!Slots : tempoSlot[s].id \in Tempo!Channels =>
                    \E t \in Tempo!Slots : tempoSlot'[t].id = tempoSlot[s].id
                    /\ tempoSlot'[t].cum >= tempoSlot[s].cum
              /\ Tempo!Roomy'
  <2>1. "late" \notin tempoSlips' /\ "alt" \in Tempo!Slots /\ "primary" \in Tempo!Slots
    BY <1>11 DEF Tempo!Fine, Tempo!Slots
  <2>2. tempoSlot["alt"].cum \in Nat
    BY <1>1, <2>1, TempoSlotTyped
  <2>3. \A s \in Tempo!Slots : tempoSlot[s] = tempoSlot'["alt"]
    BY <1>5, <1>10, <2>1 DEF Tempo!Slots
  <2>4. \A s \in Tempo!Slots : \E t \in Tempo!Slots : tempoSlot'[t].id = tempoSlot[s].id
        /\ tempoSlot'[t].cum >= tempoSlot[s].cum
    BY <1>5, <2>1, <2>2, <2>3
  <2>5. ASSUME NEW c \in Requests, NEW t \in Tempo!Slots, t \in Tempo!Resolve(tempoCall[c].key)'
        PROVE  \E u \in Tempo!Slots : u \in Tempo!Resolve(tempoCall[c].key)
               /\ tempoSlot'[t].cum = tempoSlot[u].cum
    <3>1. tempoCall[c].key = "old" /\ tempoSlot'[t].id = "old"
      BY <1>1, <2>5 DEF Tempo!Keyed, Tempo!Resolve
    <3>2. t = "alt"
      BY <1>3, <1>5, <3>1 DEF Tempo!Slots
    <3>3. "primary" \in Tempo!Resolve("old")
      BY <1>10, <2>1 DEF Tempo!Resolve
    <3>. QED BY <2>1, <2>3, <3>1, <3>2, <3>3
  <2>6. (\A c \in Requests : Tempo!RoomyCall(c)') /\ "short" \notin tempoSlips'
    BY <1>1, <1>6, <1>7, <1>11, <2>5, TempoRoomStays
  <2>. QED BY <1>4, <2>4, <2>6 DEF Tempo!Roomy
<1>12. "uncommitted" \notin tempoSlips' => Tempo!Watched'
  BY <1>1, <1>6 DEF Tempo!Watched
<1>13. TempoRestEffect
  BY <1>1, <1>6, <1>8, <1>9, <1>10, <1>11, <1>12 DEF TempoRestEffect
<1>. QED BY <1>7, <1>13, TempoRestKeeps

\* A step that leaves calls, records and the script alone.
LEMMA TempoOtherStep ==
    ASSUME Tempo!IInv, Tempo!TypeOK',
           UNCHANGED <<tempoCall, tempoSlot, tempoDeposit, tempoAccepted, tempoSigned, tempoOp>>,
           tempoSlips \subseteq tempoSlips', tempoSlips' \subseteq tempoSlips \cup {"uncommitted"},
           tempoOp.pc # "done" => tempoKey' = tempoKey,
           "uncommitted" \notin tempoSlips' => Tempo!Watched'
    PROVE  Tempo!IInv'
<1>1. Tempo!TypeOK /\ Tempo!Bounded /\ Tempo!Keyed
  BY DEF Tempo!IInv
<1>2. \A c \in Requests : tempoDeposit'[tempoCall[c].key] >= tempoDeposit[tempoCall[c].key]
  BY <1>1, TempoDepositStays
<1>3. /\ \A s \in Tempo!Slots : \E t \in Tempo!Slots : tempoSlot'[t].id = tempoSlot[s].id
         /\ tempoSlot'[t].cum >= tempoSlot[s].cum
      /\ Tempo!Fine' => (\A c \in Requests : Tempo!RoomyCall(c)') /\ "short" \notin tempoSlips'
      /\ "late" \notin tempoSlips' => Tempo!Placed
      /\ Tempo!Fine' => Tempo!Roomy
  BY <1>2, TempoSlotsStay
<1>4. (\A s \in Tempo!Slots : Tempo!Bound(tempoSlot[s])') /\ Tempo!Bound(tempoOp.rec)'
  BY <1>1 DEF Tempo!Bounded, Tempo!Bound
<1>5. Tempo!Keyed'
  BY <1>1 DEF Tempo!Keyed
<1>6. "late" \notin tempoSlips' => Tempo!Placed'
  BY <1>3 DEF Tempo!Placed, Tempo!PlacedCall, Tempo!Putting
<1>7. Tempo!Fine' => Tempo!Roomy'
  BY <1>3 DEF Tempo!Roomy
<1>8. TempoRestEffect
  BY <1>3, <1>4, <1>5, <1>6, <1>7 DEF TempoRestEffect
<1>. QED BY <1>8, TempoRestKeeps

LEMMA TempoRouteKeeps ==
    ASSUME Tempo!IInv, Tempo!CloseRoute \/ Tempo!Rotate
    PROVE  Tempo!IInv'
<1>1. /\ Tempo!TypeOK /\ ("uncommitted" \notin tempoSlips => Tempo!Watched)
      /\ UNCHANGED <<tempoCall, tempoSlot, tempoDeposit, tempoSettled, tempoAccepted, tempoSigned,
                     tempoOp, tempoWatch, tempoHealth, tempoTold, tempoSlips, tempoFaults>>
      /\ tempoOp.pc # "done" => tempoKey' = tempoKey
      /\ tempoKey' \in Tempo!Channels /\ tempoClosed' \in BOOLEAN
  BY DEF Tempo!IInv, Tempo!CloseRoute, Tempo!Rotate, Tempo!OpAt, Tempo!chain, Tempo!cron,
       Tempo!TypeOK, Tempo!Channels
<1>2. Tempo!TypeOK' /\ ("uncommitted" \notin tempoSlips' => Tempo!Watched')
  BY <1>1 DEF Tempo!TypeOK, Tempo!Watched
<1>. QED BY <1>1, <1>2, TempoOtherStep

LEMMA TempoSettleKeeps ==
    ASSUME Tempo!IInv, NEW i \in Tempo!Channels, Tempo!Settle(i)
    PROVE  Tempo!IInv'
<1>1. /\ Tempo!TypeOK /\ ("uncommitted" \notin tempoSlips => Tempo!Watched)
      /\ UNCHANGED <<tempoCall, tempoSlot, tempoDeposit, tempoAccepted, tempoSigned, tempoKey,
                     tempoClosed, tempoOp, tempoWatch, tempoHealth, tempoTold, tempoSlips, tempoFaults>>
      /\ tempoSettled' \in [Tempo!Channels -> Nat]
  BY DEF Tempo!IInv, Tempo!Settle, Tempo!cron, Tempo!TypeOK
<1>2. Tempo!TypeOK' /\ ("uncommitted" \notin tempoSlips' => Tempo!Watched')
  BY <1>1 DEF Tempo!TypeOK, Tempo!Watched
<1>. QED BY <1>1, <1>2, TempoOtherStep

LEMMA TempoWatchKeeps ==
    ASSUME Tempo!IInv, Tempo!Watch
    PROVE  Tempo!IInv'
<1>1. /\ Tempo!TypeOK /\ ("uncommitted" \notin tempoSlips => Tempo!Watched)
      /\ UNCHANGED <<tempoCall, tempoSlot, tempoDeposit, tempoSettled, tempoAccepted, tempoSigned,
                     tempoKey, tempoClosed, tempoOp>>
  BY DEF Tempo!IInv, Tempo!Watch, Tempo!Sample, Tempo!Report, Tempo!Commit, Tempo!chain
<1>2. /\ tempoSlips \subseteq tempoSlips' /\ tempoSlips' \subseteq tempoSlips \cup {"uncommitted"}
      /\ tempoWatch' \in {"idle", "low", "ok", "commit"} /\ tempoHealth' \in {"low", "ok"}
         /\ tempoTold' \in {"low", "ok"}
      /\ tempoFaults' \in Nat
  BY <1>1 DEF Tempo!Watch, Tempo!Sample, Tempo!Report, Tempo!Commit, Tempo!TypeOK, Tempo!Fault,
       Tempo!Slip
<1>3. Tempo!TypeOK'
  BY <1>1, <1>2 DEF Tempo!TypeOK
<1>4. "uncommitted" \notin tempoSlips' => Tempo!Watched'
  <2>1. CASE Tempo!Sample
    BY <1>1, <2>1 DEF Tempo!Sample, Tempo!Watched
  <2>2. CASE Tempo!Report
    BY <1>1, <2>2 DEF Tempo!Report, Tempo!Watched
  <2>3. CASE Tempo!Commit
    <3>1. /\ tempoWatch = "commit" /\ tempoWatch' = "idle" /\ tempoTold' = tempoTold
          /\ \/ tempoHealth' = (IF tempoHealth = "ok" THEN "low" ELSE "ok") /\ tempoSlips' = tempoSlips
             \/ "uncommitted" \in tempoSlips'
      BY <2>3 DEF Tempo!Commit, Tempo!Slip
    <3>2. tempoHealth \in {"low", "ok"} /\ tempoTold \in {"low", "ok"}
      BY <1>1 DEF Tempo!TypeOK
    <3>. QED BY <1>1, <3>1, <3>2 DEF Tempo!Watched
  <2>. QED BY <2>1, <2>2, <2>3 DEF Tempo!Watch
<1>. QED BY <1>1, <1>2, <1>3, <1>4, TempoOtherStep
-----------------------------------------------------------------------------
(* The invariant of the session channels.                                 *)

LEMMA TempoInitKeeps == Tempo!Init => Tempo!IInv
<1>. SUFFICES ASSUME Tempo!Init PROVE Tempo!IInv
  OBVIOUS
<1>1. /\ \A c \in Requests : tempoCall[c] = Tempo!Idle
      /\ tempoSlot["primary"] = Tempo!Record("old", 0, Deposits["old"])
         /\ tempoSlot["alt"] = Tempo!Empty
      /\ tempoOp.pc = "idle" /\ tempoOp.rec = Tempo!Empty
      /\ \A i \in Tempo!Channels : tempoAccepted[i] = 0 /\ tempoSigned[i] = {}
      /\ tempoKey = "old" /\ tempoSlips = {}
  BY DEF Tempo!Init, Tempo!Slots
<1>2. /\ Tempo!Idle.pc = "idle" /\ Tempo!Idle.key = "old" /\ Tempo!Idle \in Tempo!Locals
         /\ Tempo!Empty \in Tempo!Records
      /\ Tempo!Record("old", 0, Deposits["old"]) \in Tempo!Records
      /\ Tempo!Empty.id = Nobody /\ Nobody # "old" /\ Nobody # "new"
      /\ Tempo!Record("old", 0, Deposits["old"]).id = "old"
         /\ Tempo!Record("old", 0, Deposits["old"]).cum = 0
  BY TempoIdleTyped, TempoEmptyTyped, TempoConstants DEF Tempo!Record, Tempo!Records, Tempo!Channels
<1>3. Tempo!TypeOK
  <2>1. tempoCall \in [Requests -> Tempo!Locals]
    BY <1>2 DEF Tempo!Init
  <2>2. tempoSlot \in [Tempo!Slots -> Tempo!Records]
    BY <1>2 DEF Tempo!Init, Tempo!Slots
  <2>3. tempoDeposit \in [Tempo!Channels -> Nat]
    BY TempoConstants DEF Tempo!Init
  <2>4. tempoOp \in [pc : Tempo!OpSteps, rec : Tempo!Records]
    BY <1>2 DEF Tempo!Init, Tempo!OpSteps, Tempo!Before
  <2>. QED BY <2>1, <2>2, <2>3, <2>4 DEF Tempo!Init, Tempo!TypeOK, Tempo!Channels
<1>4. Tempo!Cardinality({}) = 0
  BY TempoEmptySet
<1>5. Tempo!Bounded
  <2>1. \A c \in Requests : Tempo!BoundedCall(c)
    BY <1>1, <1>2 DEF Tempo!BoundedCall, Tempo!Putting, Tempo!Signing, Tempo!Unsigned
  <2>2. (\A s \in Tempo!Slots : Tempo!Bound(tempoSlot[s])) /\ Tempo!Bound(tempoOp.rec)
    BY <1>1, <1>2, <1>4 DEF Tempo!Bound, Tempo!Slots, Tempo!Channels
  <2>. QED BY <1>1, <1>4, <2>1, <2>2 DEF Tempo!Bounded
<1>6. Tempo!Keyed
  BY <1>1, <1>2 DEF Tempo!Keyed, Tempo!Channels
<1>7. Tempo!Placed
  <2>1. \A c \in Requests : Tempo!PlacedCall(c)
    BY <1>1, <1>2 DEF Tempo!PlacedCall, Tempo!Putting
  <2>. QED BY <1>1, <1>2, <2>1 DEF Tempo!Placed
<1>8. Tempo!Covered
  BY <1>1, <1>2 DEF Tempo!Covered, Tempo!CoveredCall
<1>9. Tempo!Roomy
  BY <1>1, <1>2 DEF Tempo!Roomy, Tempo!RoomyCall
<1>10. Tempo!Watched
  BY DEF Tempo!Init, Tempo!Watched
<1>. QED BY <1>3, <1>5, <1>6, <1>7, <1>8, <1>9, <1>10 DEF Tempo!IInv

LEMMA TempoCallStepKeeps ==
    ASSUME Tempo!IInv, NEW c \in Requests, Tempo!CallStep(c)
    PROVE  Tempo!IInv'
<1>1. CASE Tempo!Start(c) \/ Tempo!Preflight(c) \/ Tempo!ReadChannel(c) \/ Tempo!Sign(c)
           \/ Tempo!Send(c)
  BY <1>1, TempoStartEffect, TempoPreflightEffect, TempoReadEffect, TempoSignEffect,
       TempoSendEffect, TempoCallKeeps
<1>2. CASE Tempo!OnUpdateRead(c) \/ Tempo!AfterRead(c)
  <2>1. Tempo!TypeOK' /\ TempoCallEffect(c)
    BY <1>2, TempoBumpReadEffect DEF Tempo!OnUpdateRead, Tempo!AfterRead
  <2>. QED BY <2>1, TempoCallKeeps
<1>3. CASE Tempo!OnUpdatePut(c) \/ Tempo!AfterPut(c)
  BY <1>3, TempoPutKeeps DEF Tempo!OnUpdatePut, Tempo!AfterPut
<1>. QED BY <1>1, <1>2, <1>3 DEF Tempo!CallStep

LEMMA TempoNextKeeps == Tempo!IInv /\ [Tempo!Next]_Tempo!vars => Tempo!IInv'
<1>. SUFFICES ASSUME Tempo!IInv, [Tempo!Next]_Tempo!vars PROVE Tempo!IInv'
  OBVIOUS
<1>1. CASE \E c \in Requests : Tempo!CallStep(c)
  BY <1>1, TempoCallStepKeeps
<1>2. CASE \E i \in Tempo!Channels : Tempo!Settle(i)
  BY <1>2, TempoSettleKeeps
<1>3. CASE Tempo!Operator
  BY <1>3, TempoTopUpChainKeeps, TempoTopUpReadKeeps, TempoTopUpPutKeeps, TempoOpenChannelKeeps,
       TempoRefuseOpenedKeeps, TempoMoveOldKeeps,
     TempoCheckIdleKeeps, TempoInstallNewKeeps, TempoReadBackKeeps, TempoRouteKeeps
     DEF Tempo!Operator
<1>4. CASE Tempo!Watch
  BY <1>4, TempoWatchKeeps
<1>5. CASE UNCHANGED Tempo!vars
  <2>1. UNCHANGED <<tempoCall, tempoSlot, tempoDeposit, tempoSettled, tempoAccepted, tempoSigned,
                    tempoKey, tempoClosed, tempoOp, tempoWatch, tempoHealth, tempoTold, tempoSlips,
                    tempoFaults>>
    BY <1>5 DEF Tempo!vars, Tempo!chain, Tempo!cron
  <2>2. Tempo!TypeOK /\ ("uncommitted" \notin tempoSlips => Tempo!Watched)
    BY DEF Tempo!IInv
  <2>3. Tempo!TypeOK' /\ ("uncommitted" \notin tempoSlips' => Tempo!Watched')
    BY <2>1, <2>2 DEF Tempo!TypeOK, Tempo!Watched
  <2>. QED BY <2>1, <2>3, TempoOtherStep
<1>. QED BY <1>1, <1>2, <1>3, <1>4, <1>5 DEF Tempo!Next

\* The invariant of the session channels, for any number of calls, deposits,
\* top-up and failed writes: no voucher above the count of its signers, the
\* watermark above what the merchant holds, the records where the move put them.
THEOREM TempoInvariant == Tempo!Spec => []Tempo!IInv
<1>1. Tempo!Init => Tempo!IInv
  BY TempoInitKeeps
<1>2. Tempo!IInv /\ [Tempo!Next]_Tempo!vars => Tempo!IInv'
  BY TempoNextKeeps
<1>. QED BY <1>1, <1>2, PTL DEF Tempo!Spec

LEMMA TempoIInvSafe ==
    Tempo!IInv => /\ Tempo!PaidPerCall /\ Tempo!WatermarkCovers /\ Tempo!PreflightHolds
                  /\ Tempo!NewChannelStays /\ Tempo!RememberedWasTold
<1>. SUFFICES ASSUME Tempo!IInv
     PROVE  Tempo!PaidPerCall /\ Tempo!WatermarkCovers /\ Tempo!PreflightHolds
            /\ Tempo!NewChannelStays /\ Tempo!RememberedWasTold
  OBVIOUS
<1>1. /\ Tempo!TypeOK /\ Tempo!Bounded
      /\ "late" \notin tempoSlips => Tempo!Placed
      /\ Tempo!Fine => Tempo!Covered /\ Tempo!Roomy
      /\ "uncommitted" \notin tempoSlips => Tempo!Watched
  BY DEF Tempo!IInv
<1>2. Tempo!PaidPerCall
  BY <1>1 DEF Tempo!Bounded, Tempo!PaidPerCall
<1>3. Tempo!WatermarkCovers
  BY <1>1 DEF Tempo!WatermarkCovers, Tempo!Covered, Tempo!Covers, Tempo!Fine
<1>4. Tempo!PreflightHolds
  BY <1>1 DEF Tempo!PreflightHolds, Tempo!Roomy, Tempo!Fine
<1>5. Tempo!NewChannelStays
  <2>. SUFFICES ASSUME tempoOp.pc = "done", "late" \notin tempoSlips
       PROVE  tempoSlot["primary"].id = "new"
              /\ (tempoSlot["alt"].cum >= tempoAccepted["old"] \/ "rewound" \in tempoSlips)
    BY DEF Tempo!NewChannelStays
  <2>1. tempoSlot["primary"].id = "new"
    BY <1>1 DEF Tempo!Placed
  <2>2. ASSUME "rewound" \notin tempoSlips PROVE tempoSlot["alt"].cum >= tempoAccepted["old"]
    <3>1. tempoAccepted["old"] = 0 \/ Tempo!Covers("old", tempoAccepted["old"])
      BY <1>1, <2>2 DEF Tempo!Covered, Tempo!Fine, Tempo!Channels
    <3>2. tempoSlot["alt"].cum \in Nat
      BY <1>1, TempoSlotTyped DEF Tempo!Slots
    <3>. QED BY <2>1, <3>1, <3>2 DEF Tempo!Covers, Tempo!Slots
  <2>. QED BY <2>1, <2>2
<1>6. Tempo!RememberedWasTold
  BY <1>1 DEF Tempo!RememberedWasTold, Tempo!Watched
<1>. QED BY <1>2, <1>3, <1>4, <1>5, <1>6

\* The five properties of the session channels: the merchant redeems at most one
\* quote per signing call, the watermark covers it but for the named races, the
\* pre-flight's room holds, the move keeps both channels, and the watch
\* remembers what it told.
THEOREM TempoSafe == Tempo!Spec => [](/\ Tempo!PaidPerCall /\ Tempo!WatermarkCovers
                                         /\ Tempo!PreflightHolds
                                      /\ Tempo!NewChannelStays /\ Tempo!RememberedWasTold)
<1>1. Tempo!Spec => []Tempo!IInv
  BY TempoInvariant
<1>. QED BY <1>1, TempoIInvSafe, PTL

-----------------------------------------------------------------------------
\* Once more for the behaviours where side picks the component.
TempoSideInv == side = "tempo" => Tempo!IInv

LEMMA TempoSideInvariant == SideSpec => []TempoSideInv
<1>1. SideInit => TempoSideInv
  BY TempoInitKeeps DEF SideInit, TempoSideInv
<1>2. TempoSideInv /\ [SideNext]_all => TempoSideInv'
  <2>1. SUFFICES ASSUME side = "tempo" => Tempo!IInv, [SideNext]_all, side' = "tempo" PROVE Tempo!IInv'
    BY DEF TempoSideInv
  <2>2. CASE side = "tempo" /\ Tempo!Next /\ side' = side
    BY <2>1, <2>2, TempoNextKeeps
  <2>3. CASE UNCHANGED <<side, tempoVars>>
    <3>1. side = "tempo" /\ UNCHANGED Tempo!vars
      BY <2>1, <2>3 DEF tempoVars, Tempo!vars, Tempo!chain, Tempo!cron
    <3>. QED BY <2>1, <3>1, TempoNextKeeps
  <2>. QED BY <2>1, <2>2, <2>3 DEF SideNext, all
<1>. QED BY <1>1, <1>2, PTL DEF SideSpec

\* The invariant of the run: a Tempo merchant redeems at most a quote for every
\* call that signed, the watermark covers what it holds, and a charged call has
\* the room its pre-flight saw, but for the named races.
THEOREM SessionPaysHolds == SideSpec => []SessionPays
<1>1. TempoSideInv => SessionPays
  BY TempoIInvSafe DEF SessionPays, TempoSideInv
<1>. QED BY <1>1, TempoSideInvariant, PTL

\* The invariant of the run: a finished move leaves the new channel installed and
\* the old one covered, and the watch remembers what it reported.
THEOREM SessionMovesHolds == SideSpec => []SessionMoves
<1>1. TempoSideInv => SessionMoves
  BY TempoIInvSafe DEF SessionMoves, TempoSideInv
<1>. QED BY <1>1, TempoSideInvariant, PTL
=============================================================================
