------------------------ MODULE RefundPipelineProofs ------------------------
(***************************************************************************)
(* Proofs about RefundPipeline, for any number of payments and script      *)
(* copies, any lags, windows and bounds.  Shape (types, well-formed        *)
(* records, listings and actors) is inductive by itself; Safe, which       *)
(* carries the argument against double refunds, is inductive together with *)
(* Shape when the pipeline is used as SafeUse says.                        *)
(***************************************************************************)
EXTENDS RefundInvariant, TLAPS

\* The transitions of refund.ts produce records ...
LEMMA RecordTypes ==
  ASSUME NEW r \in Record
  PROVE  /\ \A h \in BOOLEAN : Enqueued(r, h) \in Record
         /\ \A l \in LeaseIds : Leased(r, l) \in Record
         /\ \A s \in States, e \in Envelope \cup {NoTx} : Completed(r, s, e) \in Record
         /\ Stripped(r) \in Record
         /\ [r EXCEPT !.live = FALSE] \in Record
BY DEF Record, States, Enqueued, NoRecord, Leased, Completed, Stripped

\* ... with these fields.
LEMMA RecordFields ==
  ASSUME NEW r \in Record
  PROVE  /\ \A h \in BOOLEAN :
              LET q == Enqueued(r, h)
              IN  IF r.state = "none"
                  THEN q.state = "pending" /\ q.lease = NoLease /\ q.tx = NoTx
                  ELSE q = r
         /\ \A l : LET q == Leased(r, l)
                   IN  q.state = "leased" /\ q.lease = l /\ q.tx = r.tx
         /\ \A s, e : LET q == Completed(r, s, e)
                      IN  q.state = s /\ q.lease = r.lease /\ q.tx = e
         /\ LET q == Stripped(r)
            IN  q.state = "pending" /\ q.lease = NoLease /\ q.tx = NoTx
         /\ LET q == [r EXCEPT !.live = FALSE]
            IN  q.state = r.state /\ q.lease = r.lease /\ q.tx = r.tx
BY DEF Record, States, Enqueued, NoRecord, Leased, Completed, Stripped

\* A record that holds an envelope holds one for its own payment.
LEMMA StoredEnvelope ==
  ASSUME Shape, NEW p \in Payments, rec[p].tx # NoTx
  PROVE  /\ rec[p].tx \in Envelope /\ rec[p].tx.payment = p
         /\ rec[p].state \in {"submitted", "confirmed", "manual_review"}
BY DEF Shape, TypeOK, Record, States, Records, WellFormed

\* An actor at a holding step holds an envelope for its job, and its job is a
\* payment.
LEMMA HeldEnvelope ==
  ASSUME Shape, NEW a \in Actors, pc[a] \in Holding
  PROVE  /\ env[a] \in Envelope /\ env[a].payment = job[a]
         /\ job[a] \in Payments /\ lease[a] # NoLease
BY DEF Shape, TypeOK, Holders

-----------------------------------------------------------------------------
(* Shape.                                                                  *)

LEMMA InitShape == Init => Shape
BY PipelineAssumption, LedgerAssumption
DEF Init, LedgerInit, Shape, TypeOK, LedgerTypeOK, Record, States, NoRecord, Steps,
    Records, WellFormed, Listings, Holders, Holding

LEMMA ShapeStep == Shape /\ [Next]_vars => Shape'
<1> SUFFICES ASSUME Shape, [Next]_vars PROVE Shape'
  OBVIOUS
<1> USE PipelineAssumption, LedgerAssumption
    DEF Shape, TypeOK, LedgerTypeOK, ledger, queue, local, WellFormed, Steps, Holding
<1>1. ASSUME Network PROVE Shape'
  <2>1. TypeOK'
    BY <1>1, RecordTypes DEF Network, Include, OtherTraffic, CloseLedger, States, Listings, Job
  <2>2. (Records /\ Listings /\ Holders)'
    BY <1>1, RecordFields DEF Network, Include, OtherTraffic, CloseLedger, Records, Listings, Holders, Job, Listed
  <2> QED
    BY <2>1, <2>2
<1>2. ASSUME NEW p \in Payments, NEW b \in BOOLEAN, RecordOrder(p, b) PROVE Shape'
  <2>1. TypeOK'
    BY <1>2, RecordTypes DEF RecordOrder, States, Listings, Job
  <2>2. (Records /\ Listings /\ Holders)'
    BY <1>2, RecordFields DEF RecordOrder, Records, Listings, Holders, Job, Listed
  <2> QED
    BY <2>1, <2>2
<1>3. ASSUME NEW p \in Payments, Enqueue(p) PROVE Shape'
  <2>1. PICK h \in BOOLEAN : rec' = [rec EXCEPT ![p] = Enqueued(@, h)]
    BY <1>3 DEF Enqueue
  <2>2. rec' \in [Payments -> Record]
    BY <2>1, RecordTypes
  <2>3. TypeOK'
    BY <1>3, <2>1, <2>2, RecordTypes DEF Enqueue, States, Listings, Job
  <2>4. (Records /\ Listings /\ Holders)'
    BY <1>3, <2>1, <2>2, RecordFields DEF Enqueue, Records, Listings, Holders, Job, Listed
  <2> QED
    BY <2>3, <2>4
<1>4. ASSUME NEW p \in Payments, PutPublicKey(p) PROVE Shape'
  <2>1. TypeOK'
    BY <1>4, RecordTypes DEF PutPublicKey, States, Listings, Job
  <2>2. (Records /\ Listings /\ Holders)'
    BY <1>4, RecordFields DEF PutPublicKey, Records, Listings, Holders, Job, Listed
  <2> QED
    BY <2>1, <2>2
<1>5. ASSUME NEW p \in Payments, EnqueueThrows(p) PROVE Shape'
  <2>1. TypeOK'
    BY <1>5, RecordTypes DEF EnqueueThrows, States, Listings, Job
  <2>2. (Records /\ Listings /\ Holders)'
    BY <1>5, RecordFields DEF EnqueueThrows, Records, Listings, Holders, Job, Listed
  <2> QED
    BY <2>1, <2>2
<1>6. ASSUME NEW p \in Payments, MarkUnknown(p) PROVE Shape'
  <2>1. TypeOK'
    BY <1>6, RecordTypes DEF MarkUnknown, States, Listings, Job
  <2>2. (Records /\ Listings /\ Holders)'
    BY <1>6, RecordFields DEF MarkUnknown, Records, Listings, Holders, Job, Listed
  <2> QED
    BY <2>1, <2>2
<1>7. ASSUME NEW p \in Payments, LeaseExpires(p) PROVE Shape'
  <2>1. TypeOK'
    BY <1>7, RecordTypes DEF LeaseExpires, States, Listings, Job
  <2>2. (Records /\ Listings /\ Holders)'
    BY <1>7, RecordFields DEF LeaseExpires, Records, Listings, Holders, Job, Listed
  <2> QED
    BY <2>1, <2>2
<1>8. ASSUME NEW p \in Payments, Unpark(p) PROVE Shape'
  <2>1. rec' \in [Payments -> Record]
    BY <1>8, RecordTypes DEF Unpark
  <2>2. unparks' \in 0 .. MaxUnparks
    BY <1>8 DEF Unpark
  <2>3. TypeOK'
    BY <1>8, <2>1, <2>2, RecordTypes DEF Unpark, UnparkWrites, States, Listings, Job
  <2>4. (Records /\ Listings /\ Holders)'
    BY <1>8, <2>1, <2>2, RecordFields DEF Unpark, UnparkWrites, Records, Listings, Holders, Job, Listed
  <2> QED
    BY <2>3, <2>4
<1>9. ASSUME NEW a \in Actors, List(a) PROVE Shape'
  <2>1. TypeOK'
    BY <1>9, RecordTypes DEF List, Listed, States, Listings, Job
  <2>2. (Records /\ Listings /\ Holders)'
    BY <1>9, RecordFields DEF List, Listed, Records, Listings, Holders, Job, Listed
  <2> QED
    BY <2>1, <2>2
<1>10. ASSUME NEW a \in Actors, NEW j \in jobs[a], Begin(a, j) PROVE Shape'
  <2>1. /\ j.payment \in Payments /\ j.record.lease \in LeaseIds \cup {NoLease}
        /\ j.record.tx \in Envelope \cup {NoTx}
    BY DEF Job, Record
  <2>2. TypeOK'
    BY <1>10, <2>1, RecordTypes DEF Begin, Listed, States, Listings, Job
  <2>3. (Records /\ Listings /\ Holders)'
    BY <1>10, <2>1, RecordFields DEF Begin, Listed, Records, Listings, Holders, Job, Listed
  <2> QED
    BY <2>2, <2>3
<1>11. ASSUME NEW a \in Actors, NEW j \in jobs[a], Skip(a, j) PROVE Shape'
  <2>1. TypeOK'
    BY <1>11, RecordTypes DEF Skip, States, Listings, Job
  <2>2. (Records /\ Listings /\ Holders)'
    BY <1>11, RecordFields DEF Skip, Records, Listings, Holders, Job, Listed
  <2> QED
    BY <2>1, <2>2
<1>12. ASSUME NEW a \in Actors, EndRun(a) PROVE Shape'
  <2>1. TypeOK'
    BY <1>12, RecordTypes DEF EndRun, States, Listings, Job
  <2>2. (Records /\ Listings /\ Holders)'
    BY <1>12, RecordFields DEF EndRun, Records, Listings, Holders, Job, Listed
  <2> QED
    BY <2>1, <2>2
<1>13. ASSUME NEW a \in Actors, JobFails(a) PROVE Shape'
  <2>1. TypeOK'
    BY <1>13, RecordTypes DEF JobFails, EndJob, States, Listings, Job
  <2>2. (Records /\ Listings /\ Holders)'
    BY <1>13, RecordFields DEF JobFails, EndJob, Records, Listings, Holders, Job, Listed
  <2> QED
    BY <2>1, <2>2
<1>14. ASSUME NEW a \in Actors, Crash(a) PROVE Shape'
  <2>1. TypeOK'
    BY <1>14, RecordTypes DEF Crash, States, Listings, Job
  <2>2. (Records /\ Listings /\ Holders)'
    BY <1>14, RecordFields DEF Crash, Records, Listings, Holders, Job, Listed
  <2> QED
    BY <2>1, <2>2
<1>15. ASSUME NEW a \in Actors, Lease(a) PROVE Shape'
  <2>1. PICK l \in LeaseIds : /\ rec' = [rec EXCEPT ![job[a]] = Leased(@, l)]
                               /\ lease' = [lease EXCEPT ![a] = l]
    BY <1>15 DEF Lease
  <2>2. TypeOK'
    BY <1>15, <2>1, RecordTypes DEF Lease, LeaseGranted, States, Listings, Job
  <2>3. (Records /\ Listings /\ Holders)'
    BY <1>15, <2>1, RecordFields DEF Lease, LeaseGranted, Records, Listings, Holders, Job, Listed
  <2> QED
    BY <2>2, <2>3
<1>16. ASSUME NEW a \in Actors, Build(a) PROVE Shape'
  <2>1. TypeOK'
    BY <1>16, RecordTypes DEF Build, Signed, AccountSeqs, Envelope, States, Listings, Job
  <2>2. (Records /\ Listings /\ Holders)'
    BY <1>16, RecordFields DEF Build, Signed, AccountSeqs, Envelope, Records, Listings, Holders, Job, Listed
  <2> QED
    BY <2>1, <2>2
<1>17. ASSUME NEW a \in Actors, Store(a) PROVE Shape'
  <2>1. env[a] \in Envelope /\ env[a].payment = job[a] /\ lease[a] # NoLease
    BY <1>17, HeldEnvelope DEF Store
  <2>2. TypeOK'
    BY <1>17, <2>1, RecordTypes DEF Store, States, Listings, Job
  <2>3. (Records /\ Listings /\ Holders)'
    BY <1>17, <2>1, RecordFields DEF Store, Records, Listings, Holders, Job, Listed
  <2> QED
    BY <2>2, <2>3
<1>18. ASSUME NEW a \in Actors, StoreCas(a) PROVE Shape'
  <2>1. env[a] \in Envelope /\ env[a].payment = job[a] /\ lease[a] # NoLease
    BY <1>18, HeldEnvelope DEF StoreCas
  <2>2. TypeOK'
    BY <1>18, <2>1, RecordTypes DEF StoreCas, CompleteWrites, States, Listings, Job
  <2>3. (Records /\ Listings /\ Holders)'
    BY <1>18, <2>1, RecordFields DEF StoreCas, CompleteWrites, Records, Listings, Holders, Job, Listed
  <2> QED
    BY <2>2, <2>3
<1>19. ASSUME NEW a \in Actors, SendAccepted(a) PROVE Shape'
  <2>1. env[a] \in Envelope /\ env[a].payment = job[a] /\ lease[a] # NoLease
    BY <1>19, HeldEnvelope DEF SendAccepted
  <2>2. env[a].seq \in Nat
    BY <2>1 DEF Envelope
  <2>3. TypeOK'
    BY <1>19, <2>1, <2>2, RecordTypes DEF SendAccepted, States, Listings, Job
  <2>4. (Records /\ Listings /\ Holders)'
    BY <1>19, <2>1, <2>2, RecordFields DEF SendAccepted, Records, Listings, Holders, Job, Listed
  <2> QED
    BY <2>3, <2>4
<1>20. ASSUME NEW a \in Actors, SendBackpressure(a) PROVE Shape'
  <2>1. env[a] \in Envelope /\ env[a].payment = job[a] /\ lease[a] # NoLease
    BY <1>20, HeldEnvelope DEF SendBackpressure
  <2>2. TypeOK'
    BY <1>20, <2>1, RecordTypes DEF SendBackpressure, States, Listings, Job
  <2>3. (Records /\ Listings /\ Holders)'
    BY <1>20, <2>1, RecordFields DEF SendBackpressure, Records, Listings, Holders, Job, Listed
  <2> QED
    BY <2>2, <2>3
<1>21. ASSUME NEW a \in Actors, SendLost(a) PROVE Shape'
  <2>1. env[a] \in Envelope /\ env[a].payment = job[a] /\ lease[a] # NoLease
    BY <1>21, HeldEnvelope DEF SendLost
  <2>2. TypeOK'
    BY <1>21, <2>1, RecordTypes DEF SendLost, EndJob, States, Listings, Job
  <2>3. (Records /\ Listings /\ Holders)'
    BY <1>21, <2>1, RecordFields DEF SendLost, EndJob, Records, Listings, Holders, Job, Listed
  <2> QED
    BY <2>2, <2>3
<1>22. ASSUME NEW a \in Actors, SendRejected(a) PROVE Shape'
  <2>1. env[a] \in Envelope /\ env[a].payment = job[a] /\ lease[a] # NoLease
    BY <1>22, HeldEnvelope DEF SendRejected
  <2>2. TypeOK'
    BY <1>22, <2>1, RecordTypes DEF SendRejected, States, Listings, Job
  <2>3. (Records /\ Listings /\ Holders)'
    BY <1>22, <2>1, RecordFields DEF SendRejected, Records, Listings, Holders, Job, Listed
  <2> QED
    BY <2>2, <2>3
<1>23. ASSUME NEW a \in Actors, Park(a) PROVE Shape'
  <2>1. env[a] \in Envelope /\ env[a].payment = job[a] /\ lease[a] # NoLease
    BY <1>23, HeldEnvelope DEF Park
  <2>2. TypeOK'
    BY <1>23, <2>1, RecordTypes DEF Park, EndJob, CompleteWrites, States, Listings, Job
  <2>3. (Records /\ Listings /\ Holders)'
    BY <1>23, <2>1, RecordFields DEF Park, EndJob, CompleteWrites, Records, Listings, Holders, Job, Listed
  <2> QED
    BY <2>2, <2>3
<1>24. ASSUME NEW a \in Actors, Wait(a) PROVE Shape'
  <2>1. env[a] \in Envelope /\ env[a].payment = job[a] /\ lease[a] # NoLease
    BY <1>24, HeldEnvelope DEF Wait
  <2>2. TypeOK'
    BY <1>24, <2>1, RecordTypes DEF Wait, States, Listings, Job
  <2>3. (Records /\ Listings /\ Holders)'
    BY <1>24, <2>1, RecordFields DEF Wait, Records, Listings, Holders, Job, Listed
  <2> QED
    BY <2>2, <2>3
<1>25. ASSUME NEW a \in Actors, Check(a) PROVE Shape'
  <2>1. env[a] \in Envelope /\ env[a].payment = job[a] /\ lease[a] # NoLease
    BY <1>25, HeldEnvelope DEF Check
  <2>2. TypeOK'
    BY <1>25, <2>1, RecordTypes DEF Check, States, Listings, Job
  <2>3. (Records /\ Listings /\ Holders)'
    BY <1>25, <2>1, RecordFields DEF Check, Records, Listings, Holders, Job, Listed
  <2> QED
    BY <2>2, <2>3
<1>26. ASSUME NEW a \in Actors, Requeue(a) PROVE Shape'
  <2>1. /\ rec[job[a]].tx \in Envelope /\ rec[job[a]].tx.payment = job[a]
        /\ lease[a] # NoLease
    BY <1>26, StoredEnvelope, HeldEnvelope DEF Requeue
  <2>2. TypeOK'
    BY <1>26, <2>1, RecordTypes DEF Requeue, States, Listings, Job
  <2>3. (Records /\ Listings /\ Holders)'
    BY <1>26, <2>1, RecordFields DEF Requeue, Records, Listings, Holders, Job, Listed
  <2> QED
    BY <2>2, <2>3
<1>27. ASSUME NEW a \in Actors, RequeueCas(a) PROVE Shape'
  <2>1. env[a] \in Envelope /\ env[a].payment = job[a] /\ lease[a] # NoLease
    BY <1>27, HeldEnvelope DEF RequeueCas
  <2>2. TypeOK'
    BY <1>27, <2>1, RecordTypes DEF RequeueCas, RequeueWrites, States, Listings, Job
  <2>3. (Records /\ Listings /\ Holders)'
    BY <1>27, <2>1, RecordFields DEF RequeueCas, RequeueWrites, Records, Listings, Holders, Job, Listed
  <2> QED
    BY <2>2, <2>3
<1>28. ASSUME NEW a \in Actors, NEW b \in BOOLEAN, Resend(a, b) PROVE Shape'
  <2>1. env[a] \in Envelope /\ env[a].payment = job[a] /\ lease[a] # NoLease
    BY <1>28, HeldEnvelope DEF Resend
  <2>2. TypeOK'
    BY <1>28, <2>1, RecordTypes DEF Resend, States, Listings, Job
  <2>3. (Records /\ Listings /\ Holders)'
    BY <1>28, <2>1, RecordFields DEF Resend, Records, Listings, Holders, Job, Listed
  <2> QED
    BY <2>2, <2>3
<1>29. ASSUME NEW a \in Actors, NEW b \in BOOLEAN, Reconcile(a, b) PROVE Shape'
  <2>1. env[a] \in Envelope /\ env[a].payment = job[a] /\ lease[a] # NoLease
    BY <1>29, HeldEnvelope DEF Reconcile
  <2>2. TypeOK'
    BY <1>29, <2>1, RecordTypes DEF Reconcile, States, Listings, Job
  <2>3. (Records /\ Listings /\ Holders)'
    BY <1>29, <2>1, RecordFields DEF Reconcile, Records, Listings, Holders, Job, Listed
  <2> QED
    BY <2>2, <2>3
<1>30. ASSUME NEW a \in Actors, Confirm(a) PROVE Shape'
  <2>1. /\ rec[job[a]].tx \in Envelope /\ rec[job[a]].tx.payment = job[a]
        /\ lease[a] # NoLease
    BY <1>30, StoredEnvelope, HeldEnvelope DEF Confirm
  <2>2. TypeOK'
    BY <1>30, <2>1, RecordTypes DEF Confirm, States, Listings, Job
  <2>3. (Records /\ Listings /\ Holders)'
    BY <1>30, <2>1, RecordFields DEF Confirm, Records, Listings, Holders, Job, Listed
  <2> QED
    BY <2>2, <2>3
<1>31. ASSUME NEW a \in Actors, ConfirmCas(a) PROVE Shape'
  <2>1. env[a] \in Envelope /\ env[a].payment = job[a] /\ lease[a] # NoLease
    BY <1>31, HeldEnvelope DEF ConfirmCas
  <2>2. TypeOK'
    BY <1>31, <2>1, RecordTypes DEF ConfirmCas, CompleteWrites, States, Listings, Job
  <2>3. (Records /\ Listings /\ Holders)'
    BY <1>31, <2>1, RecordFields DEF ConfirmCas, CompleteWrites, Records, Listings, Holders, Job, Listed
  <2> QED
    BY <2>2, <2>3
<1>32. ASSUME NEW a \in Actors, NEW b \in BOOLEAN, OrderRefunded(a, b) PROVE Shape'
  <2>1. env[a] \in Envelope /\ env[a].payment = job[a] /\ lease[a] # NoLease
    BY <1>32, HeldEnvelope DEF OrderRefunded
  <2>2. TypeOK'
    BY <1>32, <2>1, RecordTypes DEF OrderRefunded, States, Listings, Job
  <2>3. (Records /\ Listings /\ Holders)'
    BY <1>32, <2>1, RecordFields DEF OrderRefunded, Records, Listings, Holders, Job, Listed
  <2> QED
    BY <2>2, <2>3
<1>33. ASSUME NEW a \in Actors, Mark(a) PROVE Shape'
  <2>1. TypeOK'
    BY <1>33, RecordTypes DEF Mark, EndJob, States, Listings, Job
  <2>2. (Records /\ Listings /\ Holders)'
    BY <1>33, RecordFields DEF Mark, EndJob, Records, Listings, Holders, Job, Listed
  <2> QED
    BY <2>1, <2>2
<1>34. CASE UNCHANGED vars
  BY <1>34 DEF vars, Records, Listings, Holders
<1> QED
  BY <1>1, <1>2, <1>3, <1>4, <1>5, <1>6, <1>7, <1>8, <1>9, <1>10, <1>11, <1>12, <1>13, <1>14, <1>15, <1>16, <1>17, <1>18, <1>19, <1>20, <1>21, <1>22, <1>23, <1>24, <1>25, <1>26, <1>27, <1>28, <1>29, <1>30, <1>31, <1>32, <1>33, <1>34
  DEF Next, RunStep, PendingPath, SubmittedPath, ConfirmPath, ProxyStep

-----------------------------------------------------------------------------
(* Safe.                                                                   *)

LEMMA InitSafe == Init => Safe
<1> SUFFICES ASSUME Init PROVE Safe
  OBVIOUS
<1> USE DEF Init, LedgerInit, Actors
<1>1. Inclusions /\ Bound
  BY DEF Inclusions, Bound, Loose, MaySend
<1>2. Learnt /\ Vouched
  BY DEF Learnt, Vouched
<1>3. ReportedOnlyIfPaid /\ Alone /\ OneJobEach /\ ParkedNeverSent
  BY DEF ReportedOnlyIfPaid, Alone, OneJobEach, ParkedNeverSent, NoRecord
<1> QED
  BY <1>1, <1>2, <1>3 DEF Safe

\* The argument of isProvablyDeadEnvelope: a node that does not know an
\* envelope, whose history reaches back to the envelope's window and whose last
\* ledger closed after it, shows that the envelope was not and will never be
\* included.
LEMMA DeadIsExpired ==
  ASSUME Shape, Inclusions, NEW e \in Envelope, NEW t \in Views,
         NotFound(e, t), ProvablyDead(e, t)
  PROVE  Expired(e)
<1>1. now \in Nat /\ t \in Int /\ t <= now
  BY LedgerAssumption DEF Shape, TypeOK, LedgerTypeOK, Views
<1>2. e.maxTime \in Int /\ e.minTime \in Int
  BY DEF Envelope
<1>3. e.maxTime # 0 /\ e.maxTime < now
  BY <1>1, <1>2 DEF ProvablyDead
<1>4. ASSUME NEW c \in chain, c.env = e PROVE c.ok # TRUE
  <2>1. c.at \in Nat /\ c.ok \in BOOLEAN
    BY DEF Shape, TypeOK, LedgerTypeOK
  <2>2. e.minTime <= c.at /\ c.at <= e.maxTime
    BY <1>3, <1>4 DEF Inclusions, InWindow
  <2>3. Oldest(t) \in Int
    BY <1>1, LedgerAssumption DEF Oldest
  <2>4. Sees(t, c)
    BY <1>1, <1>2, <2>1, <2>2, <2>3 DEF ProvablyDead, Sees
  <2> QED
    BY <1>4, <2>1, <2>4 DEF NotFound, Found
<1> QED
  BY <1>3, <1>4 DEF Expired, Succeeded

\* An envelope that paid is the one on its refund's record.
LEMMA PaidIsOnRecord ==
  ASSUME Shape, Inclusions, Bound, NEW e \in Envelope, Succeeded(e)
  PROVE  e \in sent /\ rec[e.payment].tx = e
BY DEF Inclusions, Bound, Loose, Expired, Succeeded

\* A parked refund is out of the hands of a signer that is alone.
LEMMA ParkedIsUntouched ==
  ASSUME IInv, Executors = {}, FatalOnlyWhenAbsent,
         NEW p \in Payments, rec[p].state = "manual_review"
  PROVE  ~Loose(rec[p].tx)
<1>1. rec[p].tx \in Envelope /\ rec[p].tx.payment = p
  BY DEF IInv, Shape, Records, WellFormed
<1>2. rec[p].tx \notin sent
  BY DEF IInv, Safe, ParkedNeverSent
<1>3. ASSUME NEW j \in jobs[Signer], j.record.state = "submitted" PROVE j.record.tx # rec[p].tx
  <2>1. j.record.tx.payment = j.payment
    BY <1>3 DEF IInv, Shape, Listings, WellFormed, Actors
  <2> QED
    BY <1>1, <2>1 DEF IInv, Safe, ParkedNeverSent
<1>4. pc[Signer] \in {"check", "resend", "send"} => env[Signer] # rec[p].tx
  BY <1>1 DEF IInv, Shape, Holders, Holding, Steps, Safe, ParkedNeverSent, Actors
<1> QED
  BY <1>2, <1>3, <1>4 DEF Loose, MaySend, Actors


\* The proxy's bookkeeping does not touch what Safe is about.
LEMMA ProxyKeepsSafe ==
  ASSUME IInv, Shape', NEW p \in Payments,
         \/ \E b \in BOOLEAN : RecordOrder(p, b)
         \/ PutPublicKey(p) \/ EnqueueThrows(p) \/ MarkUnknown(p)
  PROVE  Safe'
<1> USE PipelineAssumption
    DEF IInv, Shape, Safe, TypeOK, LedgerTypeOK, ledger, queue, local, WellFormed, Steps,
        Holding, Actors
<1>1. ASSUME NEW b \in BOOLEAN, RecordOrder(p, b) PROVE Safe'
  <2>1. (Inclusions /\ Bound /\ Learnt /\ ReportedOnlyIfPaid)'
    BY <1>1 DEF RecordOrder, Inclusions, InWindow, Bound, Loose, MaySend, Learnt, ReportedOnlyIfPaid, Expired, Succeeded,
           Paid, Records, Listings, Holders
  <2>2. (Vouched /\ Alone /\ OneJobEach /\ ParkedNeverSent)'
    BY <1>1 DEF RecordOrder, Vouched, Alone, OneJobEach, ParkedNeverSent, Records, Listings, Holders, Listed
  <2> QED
    BY <2>1, <2>2
<1>2. ASSUME PutPublicKey(p) PROVE Safe'
  <2>1. (Inclusions /\ Bound /\ Learnt /\ ReportedOnlyIfPaid)'
    BY <1>2 DEF PutPublicKey, Inclusions, InWindow, Bound, Loose, MaySend, Learnt, ReportedOnlyIfPaid, Expired, Succeeded,
           Paid, Records, Listings, Holders
  <2>2. (Vouched /\ Alone /\ OneJobEach /\ ParkedNeverSent)'
    BY <1>2 DEF PutPublicKey, Vouched, Alone, OneJobEach, ParkedNeverSent, Records, Listings, Holders, Listed
  <2> QED
    BY <2>1, <2>2
<1>3. ASSUME EnqueueThrows(p) PROVE Safe'
  <2>1. (Inclusions /\ Bound /\ Learnt /\ ReportedOnlyIfPaid)'
    BY <1>3 DEF EnqueueThrows, Inclusions, InWindow, Bound, Loose, MaySend, Learnt, ReportedOnlyIfPaid, Expired, Succeeded,
           Paid, Records, Listings, Holders
  <2>2. (Vouched /\ Alone /\ OneJobEach /\ ParkedNeverSent)'
    BY <1>3 DEF EnqueueThrows, Vouched, Alone, OneJobEach, ParkedNeverSent, Records, Listings, Holders, Listed
  <2> QED
    BY <2>1, <2>2
<1>4. ASSUME MarkUnknown(p) PROVE Safe'
  <2>1. (Inclusions /\ Bound /\ Learnt /\ ReportedOnlyIfPaid)'
    BY <1>4 DEF MarkUnknown, Inclusions, InWindow, Bound, Loose, MaySend, Learnt, ReportedOnlyIfPaid, Expired, Succeeded,
           Paid, Records, Listings, Holders
  <2>2. (Vouched /\ Alone /\ OneJobEach /\ ParkedNeverSent)'
    BY <1>4 DEF MarkUnknown, Vouched, Alone, OneJobEach, ParkedNeverSent, Records, Listings, Holders, Listed
  <2> QED
    BY <2>1, <2>2
<1> QED
  BY <1>1, <1>2, <1>3, <1>4

\* Starting, skipping and ending jobs: an envelope in a listing is the one on
\* the record it was read from.
LEMMA RunKeepsSafe ==
  ASSUME IInv, Shape', NEW a \in Actors,
         \/ List(a) \/ EndRun(a) \/ JobFails(a) \/ Crash(a)
         \/ \E j \in jobs[a] : Skip(a, j)
  PROVE  Safe'
<1> USE PipelineAssumption
    DEF IInv, Shape, Safe, TypeOK, LedgerTypeOK, ledger, queue, local, WellFormed, Steps,
        Holding, Actors
<1>1. ASSUME List(a) PROVE Safe'
  <2>1. (Inclusions /\ Bound /\ Learnt /\ ReportedOnlyIfPaid)'
    BY <1>1 DEF List, Listed, Inclusions, InWindow, Bound, Loose, MaySend, Learnt, ReportedOnlyIfPaid, Expired, Succeeded,
           Paid, Records, Listings, Holders
  <2>2. (Vouched /\ Alone /\ OneJobEach /\ ParkedNeverSent)'
    BY <1>1 DEF List, Listed, Vouched, Alone, OneJobEach, ParkedNeverSent, Records, Listings, Holders, Listed
  <2> QED
    BY <2>1, <2>2
<1>2. ASSUME NEW j \in jobs[a], Skip(a, j) PROVE Safe'
  <2>1. (Inclusions /\ Bound /\ Learnt /\ ReportedOnlyIfPaid)'
    BY <1>2 DEF Skip, Inclusions, InWindow, Bound, Loose, MaySend, Learnt, ReportedOnlyIfPaid, Expired, Succeeded,
           Paid, Records, Listings, Holders
  <2>2. (Vouched /\ Alone /\ OneJobEach /\ ParkedNeverSent)'
    BY <1>2 DEF Skip, Vouched, Alone, OneJobEach, ParkedNeverSent, Records, Listings, Holders, Listed
  <2> QED
    BY <2>1, <2>2
<1>3. ASSUME EndRun(a) PROVE Safe'
  <2>1. (Inclusions /\ Bound /\ Learnt /\ ReportedOnlyIfPaid)'
    BY <1>3 DEF EndRun, Inclusions, InWindow, Bound, Loose, MaySend, Learnt, ReportedOnlyIfPaid, Expired, Succeeded,
           Paid, Records, Listings, Holders
  <2>2. (Vouched /\ Alone /\ OneJobEach /\ ParkedNeverSent)'
    BY <1>3 DEF EndRun, Vouched, Alone, OneJobEach, ParkedNeverSent, Records, Listings, Holders, Listed
  <2> QED
    BY <2>1, <2>2
<1>4. ASSUME JobFails(a) PROVE Safe'
  <2>1. (Inclusions /\ Bound /\ Learnt /\ ReportedOnlyIfPaid)'
    BY <1>4 DEF JobFails, EndJob, Inclusions, InWindow, Bound, Loose, MaySend, Learnt, ReportedOnlyIfPaid, Expired, Succeeded,
           Paid, Records, Listings, Holders
  <2>2. (Vouched /\ Alone /\ OneJobEach /\ ParkedNeverSent)'
    BY <1>4 DEF JobFails, EndJob, Vouched, Alone, OneJobEach, ParkedNeverSent, Records, Listings, Holders, Listed
  <2> QED
    BY <2>1, <2>2
<1>5. ASSUME Crash(a) PROVE Safe'
  <2>1. (Inclusions /\ Bound /\ Learnt /\ ReportedOnlyIfPaid)'
    BY <1>5 DEF Crash, Inclusions, InWindow, Bound, Loose, MaySend, Learnt, ReportedOnlyIfPaid, Expired, Succeeded,
           Paid, Records, Listings, Holders
  <2>2. (Vouched /\ Alone /\ OneJobEach /\ ParkedNeverSent)'
    BY <1>5 DEF Crash, Vouched, Alone, OneJobEach, ParkedNeverSent, Records, Listings, Holders, Listed
  <2> QED
    BY <2>1, <2>2
<1> QED
  BY <1>1, <1>2, <1>3, <1>4, <1>5

\* Signing and sending: what is sent was already bound to the record.
LEMMA SendKeepsSafe ==
  ASSUME IInv, Shape', NEW a \in Actors,
         \/ Build(a) \/ Store(a) \/ SendAccepted(a) \/ SendBackpressure(a)
         \/ SendLost(a) \/ SendRejected(a) \/ Wait(a)
  PROVE  Safe'
<1> USE PipelineAssumption
    DEF IInv, Shape, Safe, TypeOK, LedgerTypeOK, ledger, queue, local, WellFormed, Steps,
        Holding, Actors
<1>1. ASSUME Build(a) PROVE Safe'
  <2>1. (Inclusions /\ Bound /\ Learnt /\ ReportedOnlyIfPaid)'
    BY <1>1 DEF Build, Signed, AccountSeqs, Envelope, Inclusions, InWindow, Bound, Loose, MaySend, Learnt, ReportedOnlyIfPaid, Expired, Succeeded,
           Paid, Records, Listings, Holders
  <2>2. (Vouched /\ Alone /\ OneJobEach /\ ParkedNeverSent)'
    BY <1>1 DEF Build, Signed, AccountSeqs, Envelope, Vouched, Alone, OneJobEach, ParkedNeverSent, Records, Listings, Holders, Listed
  <2> QED
    BY <2>1, <2>2
<1>2. ASSUME Store(a) PROVE Safe'
  <2>1. (Inclusions /\ Bound /\ Learnt /\ ReportedOnlyIfPaid)'
    BY <1>2 DEF Store, Inclusions, InWindow, Bound, Loose, MaySend, Learnt, ReportedOnlyIfPaid, Expired, Succeeded,
           Paid, Records, Listings, Holders
  <2>2. (Vouched /\ Alone /\ OneJobEach /\ ParkedNeverSent)'
    BY <1>2 DEF Store, Vouched, Alone, OneJobEach, ParkedNeverSent, Records, Listings, Holders, Listed
  <2> QED
    BY <2>1, <2>2
<1>3. ASSUME SendAccepted(a) PROVE Safe'
  <2>1. (Inclusions /\ Bound /\ Learnt /\ ReportedOnlyIfPaid)'
    BY <1>3 DEF SendAccepted, Inclusions, InWindow, Bound, Loose, MaySend, Learnt, ReportedOnlyIfPaid, Expired, Succeeded,
           Paid, Records, Listings, Holders
  <2>2. (Vouched /\ Alone /\ OneJobEach /\ ParkedNeverSent)'
    BY <1>3 DEF SendAccepted, Vouched, Alone, OneJobEach, ParkedNeverSent, Records, Listings, Holders, Listed
  <2> QED
    BY <2>1, <2>2
<1>4. ASSUME SendBackpressure(a) PROVE Safe'
  <2>1. (Inclusions /\ Bound /\ Learnt /\ ReportedOnlyIfPaid)'
    BY <1>4 DEF SendBackpressure, Inclusions, InWindow, Bound, Loose, MaySend, Learnt, ReportedOnlyIfPaid, Expired, Succeeded,
           Paid, Records, Listings, Holders
  <2>2. (Vouched /\ Alone /\ OneJobEach /\ ParkedNeverSent)'
    BY <1>4 DEF SendBackpressure, Vouched, Alone, OneJobEach, ParkedNeverSent, Records, Listings, Holders, Listed
  <2> QED
    BY <2>1, <2>2
<1>5. ASSUME SendLost(a) PROVE Safe'
  <2>1. (Inclusions /\ Bound /\ Learnt /\ ReportedOnlyIfPaid)'
    BY <1>5 DEF SendLost, EndJob, Inclusions, InWindow, Bound, Loose, MaySend, Learnt, ReportedOnlyIfPaid, Expired, Succeeded,
           Paid, Records, Listings, Holders
  <2>2. (Vouched /\ Alone /\ OneJobEach /\ ParkedNeverSent)'
    BY <1>5 DEF SendLost, EndJob, Vouched, Alone, OneJobEach, ParkedNeverSent, Records, Listings, Holders, Listed
  <2> QED
    BY <2>1, <2>2
<1>6. ASSUME SendRejected(a) PROVE Safe'
  <2>1. (Inclusions /\ Bound /\ Learnt /\ ReportedOnlyIfPaid)'
    BY <1>6 DEF SendRejected, Inclusions, InWindow, Bound, Loose, MaySend, Learnt, ReportedOnlyIfPaid, Expired, Succeeded,
           Paid, Records, Listings, Holders
  <2>2. (Vouched /\ Alone /\ OneJobEach /\ ParkedNeverSent)'
    BY <1>6 DEF SendRejected, Vouched, Alone, OneJobEach, ParkedNeverSent, Records, Listings, Holders, Listed
  <2> QED
    BY <2>1, <2>2
<1>7. ASSUME Wait(a) PROVE Safe'
  <2>1. (Inclusions /\ Bound /\ Learnt /\ ReportedOnlyIfPaid)'
    BY <1>7 DEF Wait, Inclusions, InWindow, Bound, Loose, MaySend, Learnt, ReportedOnlyIfPaid, Expired, Succeeded,
           Paid, Records, Listings, Holders
  <2>2. (Vouched /\ Alone /\ OneJobEach /\ ParkedNeverSent)'
    BY <1>7 DEF Wait, Vouched, Alone, OneJobEach, ParkedNeverSent, Records, Listings, Holders, Listed
  <2> QED
    BY <2>1, <2>2
<1> QED
  BY <1>1, <1>2, <1>3, <1>4, <1>5, <1>6, <1>7

\* The script's resending, and the bookkeeping after a confirmation.
LEMMA ScriptKeepsSafe ==
  ASSUME IInv, Shape', NEW a \in Actors, NEW b \in BOOLEAN,
         Resend(a, b) \/ Reconcile(a, b) \/ OrderRefunded(a, b) \/ Mark(a)
  PROVE  Safe'
<1> USE PipelineAssumption
    DEF IInv, Shape, Safe, TypeOK, LedgerTypeOK, ledger, queue, local, WellFormed, Steps,
        Holding, Actors
<1>1. ASSUME Resend(a, b) PROVE Safe'
  <2>1. (Inclusions /\ Bound /\ Learnt /\ ReportedOnlyIfPaid)'
    BY <1>1 DEF Resend, Inclusions, InWindow, Bound, Loose, MaySend, Learnt, ReportedOnlyIfPaid, Expired, Succeeded,
           Paid, Records, Listings, Holders
  <2>2. (Vouched /\ Alone /\ OneJobEach /\ ParkedNeverSent)'
    BY <1>1 DEF Resend, Vouched, Alone, OneJobEach, ParkedNeverSent, Records, Listings, Holders, Listed
  <2> QED
    BY <2>1, <2>2
<1>2. ASSUME Reconcile(a, b) PROVE Safe'
  <2>1. (Inclusions /\ Bound /\ Learnt /\ ReportedOnlyIfPaid)'
    BY <1>2 DEF Reconcile, Inclusions, InWindow, Bound, Loose, MaySend, Learnt, ReportedOnlyIfPaid, Expired, Succeeded,
           Paid, Records, Listings, Holders
  <2>2. (Vouched /\ Alone /\ OneJobEach /\ ParkedNeverSent)'
    BY <1>2 DEF Reconcile, Vouched, Alone, OneJobEach, ParkedNeverSent, Records, Listings, Holders, Listed
  <2> QED
    BY <2>1, <2>2
<1>3. ASSUME OrderRefunded(a, b) PROVE Safe'
  <2>1. (Inclusions /\ Bound /\ Learnt /\ ReportedOnlyIfPaid)'
    BY <1>3 DEF OrderRefunded, Inclusions, InWindow, Bound, Loose, MaySend, Learnt, ReportedOnlyIfPaid, Expired, Succeeded,
           Paid, Records, Listings, Holders
  <2>2. (Vouched /\ Alone /\ OneJobEach /\ ParkedNeverSent)'
    BY <1>3 DEF OrderRefunded, Vouched, Alone, OneJobEach, ParkedNeverSent, Records, Listings, Holders, Listed
  <2> QED
    BY <2>1, <2>2
<1>4. ASSUME Mark(a) PROVE Safe'
  <2>1. (Inclusions /\ Bound /\ Learnt /\ ReportedOnlyIfPaid)'
    BY <1>4 DEF Mark, EndJob, Inclusions, InWindow, Bound, Loose, MaySend, Learnt, ReportedOnlyIfPaid, Expired, Succeeded,
           Paid, Records, Listings, Holders
  <2>2. (Vouched /\ Alone /\ OneJobEach /\ ParkedNeverSent)'
    BY <1>4 DEF Mark, EndJob, Vouched, Alone, OneJobEach, ParkedNeverSent, Records, Listings, Holders, Listed
  <2> QED
    BY <2>1, <2>2
<1> QED
  BY <1>1, <1>2, <1>3, <1>4

\* Inclusion takes no expired envelope: the network enforces the window.
LEMMA NetworkKeepsSafe ==
  ASSUME IInv, Shape', Network
  PROVE  Safe'
<1> USE DEF IInv, Shape, Safe, TypeOK, LedgerTypeOK, Network, queue, local
<1>1. now \in Nat /\ now' \in Nat /\ now <= now' /\ sent' = sent /\ chain \subseteq chain'
  BY DEF Include, OtherTraffic, CloseLedger
<1>2. ASSUME NEW e \in Envelope, Expired(e) PROVE Expired(e)'
  <2>1. e.maxTime \in Int
    BY DEF Envelope
  <2>2. e.maxTime # 0 /\ e.maxTime < now'
    BY <1>1, <1>2, <2>1 DEF Expired
  <2>3. \A c \in chain' : c \in chain \/ c.env # e
    BY <1>1, <1>2, <2>1 DEF Include, OtherTraffic, CloseLedger, InWindow, Expired
  <2> QED
    BY <1>2, <2>2, <2>3 DEF Expired, Succeeded
<1>3. \A e : Succeeded(e) => Succeeded(e)'
  BY <1>1 DEF Succeeded
<1>4. \A p : Paid(p) => Paid(p)'
  BY <1>1 DEF Paid
<1>5. Inclusions'
  <2>1. SUFFICES ASSUME NEW c \in chain'
                 PROVE  c.env \in sent /\ InWindow(c.env, c.at) /\ c.at <= now'
    BY <1>1 DEF Inclusions, InWindow
  <2>2. CASE c \in chain
    BY <1>1, <2>2 DEF Inclusions
  <2>3. CASE c \notin chain
    BY <1>1, <2>3 DEF Include, OtherTraffic, CloseLedger
  <2> QED
    BY <2>2, <2>3
<1>6. Bound'
  BY <1>1, <1>2 DEF Bound, Loose, MaySend
<1>7. Learnt'
  BY <1>2, <1>3, <1>4 DEF Learnt, Holders, Holding, Steps
<1>8. ReportedOnlyIfPaid'
  BY <1>3, <1>4 DEF ReportedOnlyIfPaid, Paid
<1>9. (Vouched /\ Alone /\ OneJobEach /\ ParkedNeverSent)'
  BY <1>1 DEF Vouched, Alone, OneJobEach, ParkedNeverSent
<1> QED
  BY <1>5, <1>6, <1>7, <1>8, <1>9

\* Queueing a refund, and the passing of a lease deadline, leave envelope and
\* lease of every record alone.
LEMMA QueueKeepsSafe ==
  ASSUME IInv, Shape', NEW p \in Payments, Enqueue(p) \/ LeaseExpires(p)
  PROVE  Safe'
<1> USE DEF IInv, Shape, Safe, TypeOK, ledger, queue, local
<1>1. /\ UNCHANGED <<now, acctSeq, sent, chain, order, reservation, local>>
      /\ \A q \in Payments : q # p => rec'[q] = rec[q]
  BY DEF Enqueue, LeaseExpires
<1>2. /\ rec'[p].tx = rec[p].tx /\ rec'[p].lease = rec[p].lease
      /\ rec'[p].state = rec[p].state \/ (rec[p].state = "none" /\ rec'[p].state = "pending")
  <2>1. CASE Enqueue(p)
    <3>1. PICK h \in BOOLEAN : rec' = [rec EXCEPT ![p] = Enqueued(@, h)]
      BY <2>1 DEF Enqueue
    <3> QED
      BY <3>1, RecordFields DEF Records, WellFormed
  <2>2. CASE LeaseExpires(p)
    BY <2>2, RecordFields DEF LeaseExpires
  <2> QED
    BY <2>1, <2>2
<1>3. Inclusions' /\ Bound' /\ Learnt'
  BY <1>1, <1>2 DEF Inclusions, InWindow, Bound, Loose, MaySend, Learnt, Expired, Succeeded, Paid,
                    Envelope
<1>4. ReportedOnlyIfPaid'
  BY <1>1, <1>2 DEF ReportedOnlyIfPaid, Succeeded
<1>5. Vouched'
  BY <1>1, <1>2 DEF Vouched, Job
<1>6. (Alone /\ OneJobEach /\ ParkedNeverSent)'
  BY <1>1, <1>2 DEF Alone, OneJobEach, ParkedNeverSent, Actors
<1> QED
  BY <1>3, <1>4, <1>5, <1>6

\* Unpark takes an envelope off a record; nobody can send that envelope.
LEMMA UnparkKeepsSafe ==
  ASSUME SafeUse, IInv, Shape', NEW p \in Payments, Unpark(p)
  PROVE  Safe'
<1> USE DEF IInv, Shape, Safe, TypeOK, ledger, queue, local, Unpark
<1>1. Executors = {} /\ FatalOnlyWhenAbsent /\ rec[p].state = "manual_review"
  BY DEF SafeUse, UnparkWrites
<1>2. ~Loose(rec[p].tx)
  BY <1>1, ParkedIsUntouched
<1>3. /\ rec'[p].state = "pending" /\ rec'[p].lease = NoLease
      /\ \A q \in Payments : q # p => rec'[q] = rec[q]
  BY RecordFields
<1>4. Bound'
  <2>1. \A e \in Envelope : Loose(e)' <=> Loose(e)
    BY DEF Loose, MaySend
  <2>2. \A e \in Envelope : Expired(e)' <=> Expired(e)
    BY DEF Expired, Succeeded
  <2> QED
    BY <1>2, <1>3, <2>1, <2>2 DEF Bound, Envelope
<1>5. (Inclusions /\ Learnt /\ ReportedOnlyIfPaid)'
  BY <1>3 DEF Inclusions, InWindow, Learnt, ReportedOnlyIfPaid, Expired, Succeeded, Paid
<1>6. Vouched'
  BY <1>3 DEF Vouched, Holders, Holding, Steps, Listings, WellFormed, Job
<1>7. (Alone /\ OneJobEach /\ ParkedNeverSent)'
  BY <1>1, <1>3 DEF Alone, OneJobEach, ParkedNeverSent, Actors
<1> QED
  BY <1>4, <1>5, <1>6, <1>7

\* Taking up a job hands its envelope and lease from the listing to the actor.
LEMMA BeginKeepsSafe ==
  ASSUME IInv, Shape', NEW a \in Actors, NEW j \in jobs[a], Begin(a, j)
  PROVE  Safe'
<1> USE DEF IInv, Shape, Safe, TypeOK, ledger, queue, local, Begin, Actors
<1>1. WellFormed(j.payment, j.record) /\ Listed(j.record) /\ j.payment \in Payments
  BY DEF Listings, Job
<1>2. pc'[a] \in {"check", "resend", "lease"} /\ job'[a] = j.payment
  OBVIOUS
<1>3. pc'[a] # "lease" =>
        j.record.state = "submitted" /\ env'[a] = j.record.tx /\ lease'[a] = j.record.lease
  OBVIOUS
<1>4. \A b \in Actors : jobs'[b] \subseteq jobs[b]
                        /\ (b # a => UNCHANGED <<pc[b], job[b], lease[b], env[b]>>)
  OBVIOUS
<1>5. Bound'
  BY <1>2, <1>3, <1>4 DEF Bound, Loose, MaySend, Expired, Succeeded
<1>6. Vouched'
  BY <1>2, <1>3, <1>4 DEF Vouched
<1>7. (Inclusions /\ Learnt /\ ReportedOnlyIfPaid)'
  BY <1>2, <1>4 DEF Inclusions, InWindow, Learnt, ReportedOnlyIfPaid, Expired, Succeeded, Paid
<1>8. (Alone /\ OneJobEach /\ ParkedNeverSent)'
  BY <1>1, <1>2 DEF Alone, OneJobEach, ParkedNeverSent, WellFormed
<1> QED
  BY <1>5, <1>6, <1>7, <1>8

\* A lease goes to a record without an envelope, under an id nobody knows.
LEMMA LeaseKeepsSafe ==
  ASSUME IInv, Shape', NEW a \in Actors, Lease(a)
  PROVE  Safe'
<1> USE DEF IInv, Shape, Safe, TypeOK, ledger, queue, local, Lease
<1>1. PICK l \in LeaseIds : /\ FreshLease(l)
                            /\ rec' = [rec EXCEPT ![job[a]] = Leased(@, l)]
  OBVIOUS
<1>2. /\ rec'[job[a]].state = "leased" /\ rec'[job[a]].lease = l
      /\ rec'[job[a]].tx = rec[job[a]].tx
      /\ \A q \in Payments : q # job[a] => rec'[q] = rec[q]
  BY <1>1, RecordFields
<1>3. Bound'
  BY <1>2 DEF Bound, Loose, MaySend, Expired, Succeeded, Envelope
<1>4. Vouched'
  BY <1>1, <1>2 DEF Vouched, FreshLease, Job
<1>5. (Inclusions /\ Learnt /\ ReportedOnlyIfPaid)'
  BY <1>2 DEF Inclusions, InWindow, Learnt, ReportedOnlyIfPaid, Expired, Succeeded, Paid
<1>6. (Alone /\ OneJobEach /\ ParkedNeverSent)'
  BY <1>2 DEF Alone, OneJobEach, ParkedNeverSent, Actors
<1> QED
  BY <1>3, <1>4, <1>5, <1>6

\* Storing an envelope: the record had none, so no other envelope for the
\* payment is alive; from here on this one may be sent.
LEMMA StoreKeepsSafe ==
  ASSUME SafeUse, IInv, Shape', NEW a \in Actors, StoreCas(a)
  PROVE  Safe'
<1> DEFINE p == job[a]
<1> USE DEF IInv, Shape, Safe, TypeOK, ledger, queue, local
<1>1. p \in Payments /\ env[a] \in Envelope /\ env[a].payment = p
  BY HeldEnvelope DEF StoreCas, Holding, Steps
<1>2. rec'[p].tx = env[a] /\ \A q \in Payments : q # p => rec'[q] = rec[q]
  <2>1. CASE CompleteWrites(rec[p], lease[a], "submitted", env[a])
    BY <1>1, <2>1, RecordFields DEF StoreCas
  <2>2. CASE ~CompleteWrites(rec[p], lease[a], "submitted", env[a])
    <3>1. rec' = rec /\ CompleteAccepted(rec[p], lease[a], "submitted", env[a])
      BY <2>2 DEF StoreCas
    <3>2. rec[p].state # "confirmed"
      BY DEF StoreCas, SafeUse, Alone, Actors
    <3> QED
      BY <1>1, <2>2, <3>1, <3>2 DEF CompleteAccepted
  <2> QED
    BY <2>1, <2>2
<1>3. /\ rec'[p].lease = rec[p].lease
      /\ \/ rec' = rec
         \/ rec[p].state = "leased" /\ rec[p].tx = NoTx /\ rec'[p].state = "submitted"
  BY <1>1, RecordFields DEF StoreCas, CompleteWrites, Records, WellFormed
<1>4. Bound'
  BY <1>1, <1>2, <1>3, PipelineAssumption
     DEF StoreCas, Bound, Loose, MaySend, Expired, Succeeded, Envelope
<1>5. Vouched'
  <2>1. ASSUME NEW b \in Actors, pc'[b] \in {"check", "resend", "send", "park"},
               rec'[job'[b]].lease = lease'[b]
        PROVE  rec'[job'[b]].tx = env'[b]
    BY <1>1, <1>2, <1>3, <2>1, PipelineAssumption
       DEF StoreCas, Vouched, Holders, Holding, Steps
  <2>2. ASSUME NEW b \in Actors, NEW j \in jobs'[b], j.record.state = "submitted",
               rec'[j.payment].lease = j.record.lease
        PROVE  rec'[j.payment].tx = j.record.tx
    BY <1>1, <1>2, <1>3, <2>2, PipelineAssumption
       DEF StoreCas, Vouched, Listings, WellFormed, Job
  <2> QED
    BY <2>1, <2>2 DEF Vouched
<1>6. (Inclusions /\ Learnt /\ ReportedOnlyIfPaid)'
  BY <1>1, <1>2, <1>3 DEF StoreCas, Inclusions, InWindow, Learnt, ReportedOnlyIfPaid, Expired,
                          Succeeded, Paid
<1>7. (Alone /\ OneJobEach /\ ParkedNeverSent)'
  BY <1>1, <1>2, <1>3 DEF StoreCas, Alone, OneJobEach, ParkedNeverSent, Actors
<1> QED
  BY <1>4, <1>5, <1>6, <1>7

\* Parking keeps the envelope on the record.
LEMMA ParkKeepsSafe ==
  ASSUME IInv, Shape', NEW a \in Actors, Park(a)
  PROVE  Safe'
<1> DEFINE p == job[a]
<1> USE DEF IInv, Shape, Safe, TypeOK, ledger, queue, local
<1>1. /\ p \in Payments /\ env[a] \in Envelope /\ env[a].payment = p
      /\ rec[p].tx = env[a]
  BY HeldEnvelope DEF Park, Holding, Steps, Vouched
<1>2. /\ rec'[p].tx = rec[p].tx /\ rec'[p].lease = rec[p].lease
      /\ \A q \in Payments : q # p => rec'[q] = rec[q]
  BY <1>1, RecordFields DEF Park, CompleteWrites
<1>3. rec' = rec \/ (rec[p].state # "confirmed" /\ rec'[p].state = "manual_review")
  BY <1>1, RecordFields DEF Park, CompleteWrites
<1>4. pc'[a] = "next" /\ env'[a] = NoTx /\ UNCHANGED <<ledger, order, reservation, jobs, job>>
      /\ \A b \in Actors : b # a => UNCHANGED <<pc[b], lease[b], env[b]>>
  BY DEF Park, EndJob
<1>5. Bound'
  BY <1>2, <1>4 DEF Bound, Loose, MaySend, Expired, Succeeded, Envelope
<1>6. Vouched'
  BY <1>2, <1>4 DEF Vouched, Job
<1>7. (Inclusions /\ Learnt /\ ReportedOnlyIfPaid)'
  BY <1>2, <1>3, <1>4 DEF Inclusions, InWindow, Learnt, ReportedOnlyIfPaid, Expired, Succeeded,
                          Paid
<1>8. (Alone /\ OneJobEach)'
  BY <1>2, <1>3, <1>4 DEF Alone, OneJobEach, Actors
<1>9. ParkedNeverSent'
  BY <1>1, <1>2, <1>3, <1>4 DEF Park, ParkedNeverSent, OneJobEach, Actors
<1> QED
  BY <1>5, <1>6, <1>7, <1>8, <1>9

\* Looking at the network before deciding: an envelope to be sent was already
\* bound, one to be replaced is expired once its death is proved.
LEMMA AskKeepsSafe ==
  ASSUME IInv, Shape', NEW a \in Actors, Check(a) \/ Requeue(a) \/ Confirm(a)
  PROVE  Safe'
<1> USE DEF IInv, Shape, Safe, TypeOK, ledger, queue, local
<1>1. /\ UNCHANGED <<now, acctSeq, sent, chain, rec, order, reservation, jobs, job, lease>>
      /\ \A b \in Actors : b # a => UNCHANGED <<pc[b], env[b]>>
  BY DEF Check, Requeue, Confirm
<1>2. \/ pc[a] = "check" /\ pc'[a] \in {"confirm", "requeue", "send"} /\ env'[a] = env[a]
      \/ pc[a] = "requeue" /\ pc'[a] = "requeueCas"
      \/ pc[a] = "confirm" /\ pc'[a] = "confirmCas"
  BY DEF Check, Requeue, Confirm
<1>3. Bound'
  BY <1>1, <1>2 DEF Bound, Loose, MaySend, Expired, Succeeded
<1>4. Vouched'
  BY <1>1, <1>2 DEF Vouched
<1>5. Learnt'
  <2>1. CASE Check(a)
    BY <1>1, <1>2, <2>1 DEF Check, Learnt, Expired, Succeeded, Paid
  <2>2. CASE Requeue(a)
    <3>1. rec[job[a]].tx \in Envelope /\ env'[a] = rec[job[a]].tx /\ pc'[a] = "requeueCas"
      BY <2>2, StoredEnvelope DEF Requeue
    <3>2. Expired(env'[a])
      BY <2>2, <3>1, DeadIsExpired DEF Requeue
    <3> QED
      BY <1>1, <3>1, <3>2 DEF Learnt, Expired, Succeeded, Paid
  <2>3. CASE Confirm(a)
    <3>1. Succeeded(env'[a]) /\ pc'[a] = "confirmCas"
      BY <2>3 DEF Confirm, Found, Succeeded
    <3> QED
      BY <1>1, <3>1 DEF Learnt, Expired, Succeeded, Paid
  <2> QED
    BY <2>1, <2>2, <2>3
<1>6. (Inclusions /\ ReportedOnlyIfPaid)'
  BY <1>1 DEF Inclusions, InWindow, ReportedOnlyIfPaid, Succeeded
<1>7. (Alone /\ OneJobEach /\ ParkedNeverSent)'
  BY <1>1, <1>2 DEF Alone, OneJobEach, ParkedNeverSent, Actors
<1> QED
  BY <1>3, <1>4, <1>5, <1>6, <1>7

\* A requeue takes an envelope off a record; that envelope is expired.
LEMMA RequeueKeepsSafe ==
  ASSUME IInv, Shape', NEW a \in Actors, RequeueCas(a)
  PROVE  Safe'
<1> DEFINE p == job[a]
<1> USE DEF IInv, Shape, Safe, TypeOK, ledger, queue, local
<1>1. p \in Payments /\ rec[p].state = "submitted" /\ rec[p].tx = env[a] /\ Expired(env[a])
  BY DEF RequeueCas, RequeueWrites, Learnt
<1>2. /\ rec'[p].state = "pending" /\ rec'[p].lease = NoLease
      /\ \A q \in Payments : q # p => rec'[q] = rec[q]
  BY <1>1, RecordFields DEF RequeueCas
<1>3. /\ pc'[a] \in {"lease", "next"} /\ UNCHANGED <<ledger, order, reservation, jobs, job>>
      /\ \A b \in Actors : b # a => UNCHANGED <<pc[b], lease[b], env[b]>>
  BY DEF RequeueCas
<1>4. Bound'
  BY <1>1, <1>2, <1>3 DEF Bound, Loose, MaySend, Expired, Succeeded, Envelope
<1>5. Vouched'
  <2>1. ASSUME NEW b \in Actors, pc'[b] \in {"check", "resend", "send", "park"},
               rec'[job'[b]].lease = lease'[b]
        PROVE  rec'[job'[b]].tx = env'[b]
    <3>1. b # a /\ lease[b] # NoLease
      BY <1>3, <2>1 DEF Holders, Holding, Steps
    <3> QED
      BY <1>2, <1>3, <2>1, <3>1 DEF Vouched
  <2>2. ASSUME NEW b \in Actors, NEW j \in jobs'[b], j.record.state = "submitted",
               rec'[j.payment].lease = j.record.lease
        PROVE  rec'[j.payment].tx = j.record.tx
    <3>1. j.record.lease # NoLease /\ j.payment \in Payments
      BY <1>3, <2>2 DEF Listings, WellFormed, Job
    <3> QED
      BY <1>2, <1>3, <2>2, <3>1 DEF Vouched
  <2> QED
    BY <2>1, <2>2 DEF Vouched
<1>6. (Inclusions /\ Learnt /\ ReportedOnlyIfPaid)'
  <2>1. Inclusions' /\ ReportedOnlyIfPaid'
    BY <1>2, <1>3 DEF Inclusions, InWindow, ReportedOnlyIfPaid, Succeeded
  <2>2. Learnt'
    BY <1>3 DEF Learnt, Expired, Succeeded, Paid
  <2> QED
    BY <2>1, <2>2
<1>7. (Alone /\ OneJobEach /\ ParkedNeverSent)'
  BY <1>1, <1>2, <1>3 DEF RequeueCas, Alone, OneJobEach, ParkedNeverSent, Actors
<1> QED
  BY <1>4, <1>5, <1>6, <1>7

\* A confirmation stores the envelope that paid, which the record already has.
LEMMA ConfirmKeepsSafe ==
  ASSUME IInv, Shape', NEW a \in Actors, ConfirmCas(a)
  PROVE  Safe'
<1> DEFINE p == job[a]
<1> USE DEF IInv, Shape, Safe, TypeOK, ledger, queue, local
<1>1. /\ p \in Payments /\ env[a] \in Envelope /\ env[a].payment = p
      /\ Succeeded(env[a])
  BY HeldEnvelope DEF ConfirmCas, Holding, Steps, Learnt
<1>2. rec[p].tx = env[a]
  BY <1>1, PaidIsOnRecord
<1>3. Paid(p)
  BY <1>1 DEF Paid, Succeeded
<1>4. /\ rec'[p].tx = rec[p].tx /\ rec'[p].lease = rec[p].lease
      /\ \A q \in Payments : q # p => rec'[q] = rec[q]
  BY <1>1, <1>2, RecordFields DEF ConfirmCas, CompleteWrites
<1>5. rec' = rec \/ (rec[p].state = "submitted" /\ rec'[p].state = "confirmed")
  BY <1>1, RecordFields DEF ConfirmCas, CompleteWrites
<1>6. /\ pc[a] = "confirmCas" /\ pc'[a] \in {"order", "mark"}
      /\ UNCHANGED <<ledger, order, reservation, jobs, job, lease, env>>
      /\ \A b \in Actors : b # a => UNCHANGED pc[b]
  BY DEF ConfirmCas
<1>7. Bound'
  BY <1>4, <1>6 DEF Bound, Loose, MaySend, Expired, Succeeded, Envelope
<1>8. Vouched'
  BY <1>4, <1>6 DEF Vouched, Job
<1>9. (Inclusions /\ Learnt)'
  BY <1>3, <1>6 DEF Inclusions, InWindow, Learnt, Expired, Succeeded, Paid
<1>10. ReportedOnlyIfPaid'
  BY <1>1, <1>2, <1>4, <1>5, <1>6 DEF ReportedOnlyIfPaid, Succeeded
<1>11. (Alone /\ OneJobEach /\ ParkedNeverSent)'
  BY <1>1, <1>5, <1>4, <1>6 DEF Alone, OneJobEach, ParkedNeverSent, Actors
<1> QED
  BY <1>7, <1>8, <1>9, <1>10, <1>11

-----------------------------------------------------------------------------
(* The theorems.                                                           *)

\* Every step of a safely used pipeline keeps the inductive invariant.
LEMMA SafeStep == SafeUse /\ IInv /\ [Next]_vars => IInv'
<1> SUFFICES ASSUME SafeUse, IInv, [Next]_vars PROVE IInv'
  OBVIOUS
<1>1. Shape'
  BY ShapeStep DEF IInv
<1>2. ASSUME NEW p \in Payments, ProxyStep(p) \/ LeaseExpires(p) \/ Unpark(p) PROVE Safe'
  BY <1>1, <1>2, ProxyKeepsSafe, QueueKeepsSafe, UnparkKeepsSafe DEF ProxyStep
<1>3. ASSUME NEW a \in Actors, RunStep(a) PROVE Safe'
  BY <1>1, <1>3, RunKeepsSafe, BeginKeepsSafe DEF RunStep
<1>4. ASSUME NEW a \in Actors, PendingPath(a) PROVE Safe'
  BY <1>1, <1>4, LeaseKeepsSafe, StoreKeepsSafe, SendKeepsSafe, ParkKeepsSafe DEF PendingPath
<1>5. ASSUME NEW a \in Actors, SubmittedPath(a) PROVE Safe'
  BY <1>1, <1>5, AskKeepsSafe, RequeueKeepsSafe, ScriptKeepsSafe DEF SubmittedPath
<1>6. ASSUME NEW a \in Actors, ConfirmPath(a) PROVE Safe'
  BY <1>1, <1>6, AskKeepsSafe, ConfirmKeepsSafe, ScriptKeepsSafe DEF ConfirmPath
<1>7. CASE UNCHANGED vars
  <2> USE <1>7 DEF vars, IInv, Safe
  <2>1. (Inclusions /\ Bound /\ Learnt)'
    BY DEF Inclusions, InWindow, Bound, Loose, MaySend, Learnt, Expired, Succeeded, Paid
  <2>2. (ReportedOnlyIfPaid /\ Vouched)'
    BY DEF ReportedOnlyIfPaid, Succeeded, Vouched
  <2>3. (Alone /\ OneJobEach /\ ParkedNeverSent)'
    BY DEF Alone, OneJobEach, ParkedNeverSent
  <2> QED
    BY <1>1, <2>1, <2>2, <2>3
<1> QED
  BY <1>1, <1>2, <1>3, <1>4, <1>5, <1>6, <1>7, NetworkKeepsSafe DEF Next, IInv

\* Type correctness, however the pipeline is used: in particular only signed
\* envelopes, never an empty one, reach the network.
THEOREM TypeCorrect == Spec => []TypeOK
<1>1. Spec => []Shape
  BY InitShape, ShapeStep, PTL DEF Spec
<1>2. Shape => TypeOK
  BY DEF Shape
<1> QED
  BY <1>1, <1>2, PTL

\* The invariant IInv holds throughout a safely used pipeline.
LEMMA IInvHolds == ASSUME SafeUse PROVE Spec => []IInv
<1>1. Init => IInv
  BY InitShape, InitSafe DEF IInv
<1>2. IInv /\ [Next]_vars => IInv'
  BY SafeStep
<1> QED
  BY <1>1, <1>2, PTL DEF Spec

\* No payment is refunded twice: both successful envelopes are not expired, so
\* both are the one on the record.
THEOREM NoDoubleRefundHolds == ASSUME SafeUse PROVE Spec => []NoDoubleRefund
<1>1. IInv => NoDoubleRefund
  <2> SUFFICES ASSUME IInv, NEW c \in chain, NEW d \in chain, c.ok, d.ok,
                      c.env.payment = d.env.payment
               PROVE  c.env = d.env
    BY DEF NoDoubleRefund
  <2>1. c.env \in Envelope /\ d.env \in Envelope
    BY DEF IInv, Shape, TypeOK, LedgerTypeOK
  <2>2. Succeeded(c.env) /\ Succeeded(d.env)
    BY DEF Succeeded
  <2> QED
    BY <2>1, <2>2, PaidIsOnRecord DEF IInv, Safe
<1> QED
  BY <1>1, IInvHolds, PTL

\* Every envelope on the network that paid or still can is on its refund's
\* record.
THEOREM LiveEnvelopeOnRecordHolds == ASSUME SafeUse PROVE Spec => []LiveEnvelopeOnRecord
<1>1. IInv => LiveEnvelopeOnRecord
  BY DEF IInv, Shape, TypeOK, LedgerTypeOK, Safe, Bound, Loose, LiveEnvelopeOnRecord
<1> QED
  BY <1>1, IInvHolds, PTL

\* A refund is reported as returned only if its transaction succeeded.
THEOREM ReportedOnlyIfPaidHolds == ASSUME SafeUse PROVE Spec => []ReportedOnlyIfPaid
<1>1. IInv => ReportedOnlyIfPaid
  BY DEF IInv, Safe
<1> QED
  BY <1>1, IInvHolds, PTL

\* What a step may do to the states of records, and which steps move the
\* promise's variables.
Silent == /\ chain' = chain
          /\ \A p \in Payments : /\ rec'[p].state = "none" <=> rec[p].state = "none"
                                 /\ rec'[p].state = "confirmed" <=> rec[p].state = "confirmed"

LEMMA RecordStep ==
  ASSUME Shape, [Next]_vars
  PROVE  /\ \A p \in Payments : rec[p].state = "confirmed" => rec'[p] = rec[p]
         /\ \/ Network \/ (\E p \in Payments : Enqueue(p)) \/ (\E a \in Actors : ConfirmCas(a))
            \/ Silent
<1> DEFINE Kept == \A p \in Payments : rec[p].state = "confirmed" => rec'[p] = rec[p]
<1> USE DEF Shape, TypeOK, ledger, queue, local, Silent
<1>1. CASE Network
  BY <1>1 DEF Network
<1>2. ASSUME NEW p \in Payments, Enqueue(p) PROVE Kept
  BY <1>2, RecordFields DEF Enqueue, Enqueued
<1>3. ASSUME NEW p \in Payments,
             \/ \E b \in BOOLEAN : RecordOrder(p, b)
             \/ PutPublicKey(p) \/ EnqueueThrows(p) \/ MarkUnknown(p)
      PROVE  Kept /\ Silent
  BY <1>3 DEF RecordOrder, PutPublicKey, EnqueueThrows, MarkUnknown
<1>4. ASSUME NEW p \in Payments, LeaseExpires(p) \/ Unpark(p) PROVE Kept /\ Silent
  <2>1. CASE LeaseExpires(p)
    <3>1. rec'[p].state = "leased" /\ \A q \in Payments : q # p => rec'[q] = rec[q]
      BY <2>1, RecordFields DEF LeaseExpires
    <3> QED
      BY <2>1, <3>1 DEF LeaseExpires
  <2>2. CASE Unpark(p)
    BY <2>2, RecordFields DEF Unpark, UnparkWrites
  <2> QED
    BY <1>4, <2>1, <2>2
<1>5. ASSUME NEW a \in Actors, RunStep(a) PROVE Kept /\ Silent
  BY <1>5 DEF RunStep, List, Begin, Skip, EndRun, JobFails, Crash, EndJob
<1>6. ASSUME NEW a \in Actors, Lease(a) PROVE Kept /\ Silent
  <2>1. PICK l \in LeaseIds : rec' = [rec EXCEPT ![job[a]] = Leased(@, l)]
    BY <1>6 DEF Lease
  <2> QED
    BY <1>6, <2>1, RecordFields DEF Lease, LeaseGranted
<1>7. ASSUME NEW a \in Actors, StoreCas(a) \/ Park(a) PROVE Kept /\ Silent
  BY <1>7, RecordFields DEF StoreCas, Park, CompleteWrites
<1>8. ASSUME NEW a \in Actors,
             \/ Build(a) \/ Store(a) \/ Wait(a) \/ Check(a) \/ Requeue(a) \/ Confirm(a) \/ Mark(a)
             \/ SendAccepted(a) \/ SendBackpressure(a) \/ SendLost(a) \/ SendRejected(a)
             \/ \E b \in BOOLEAN : Resend(a, b) \/ Reconcile(a, b) \/ OrderRefunded(a, b)
      PROVE  Kept /\ Silent
  BY <1>8 DEF Build, Store, Wait, Check, Requeue, Confirm, Mark, SendAccepted, SendBackpressure,
              SendLost, SendRejected, Resend, Reconcile, OrderRefunded
<1>9. ASSUME NEW a \in Actors, RequeueCas(a) PROVE Kept /\ Silent
  BY <1>9, RecordFields DEF RequeueCas, RequeueWrites
<1>10. ASSUME NEW a \in Actors, ConfirmCas(a) PROVE Kept
  BY <1>10, RecordFields DEF ConfirmCas, CompleteWrites
<1>11. CASE UNCHANGED vars
  BY <1>11 DEF vars
<1> QED
  BY <1>1, <1>2, <1>3, <1>4, <1>5, <1>6, <1>7, <1>8, <1>9, <1>10, <1>11
  DEF Next, ProxyStep, PendingPath, SubmittedPath, ConfirmPath

\* A confirmed record is final, however the pipeline is used: no overlapping
\* run, late request or operator action changes it.
THEOREM ConfirmedIsFinalHolds == Spec => ConfirmedIsFinal
<1>1. Spec => []Shape
  BY InitShape, ShapeStep, PTL DEF Spec
<1>2. Shape /\ [Next]_vars =>
        [\A p \in Payments : rec[p].state = "confirmed" => rec'[p] = rec[p]]_vars
  BY RecordStep
<1> QED
  BY <1>1, <1>2, PTL DEF Spec, ConfirmedIsFinal

\* The refund pipeline implements the promise made to payers.
LEMMA PromiseInit == Init => Promise!Init
BY DEF Init, LedgerInit, NoRecord, Promise!Init

LEMMA PromiseStep ==
  ASSUME SafeUse, IInv, [Next]_vars
  PROVE  [Promise!Next]_(Promise!vars)
<1> DEFINE owed == {p \in Payments : rec[p].state # "none"}
           paid == {e \in sent : Succeeded(e)}
           reported == {p \in Payments : rec[p].state = "confirmed"}
<1> USE DEF IInv, Shape, Safe, TypeOK, LedgerTypeOK, ledger, queue, local
<1>1. \A e : (e \in paid <=> Succeeded(e)) /\ (e \in paid' <=> Succeeded(e)')
  BY SafeStep DEF Inclusions, Succeeded
<1>2. CASE Network
  <2>1. owed' = owed /\ reported' = reported /\ sent' = sent
    BY <1>2 DEF Network, Include, OtherTraffic, CloseLedger
  <2>2. CASE chain' = chain
    BY <2>1, <2>2 DEF Succeeded, Promise!vars
  <2>3. CASE chain' # chain
    <3>1. PICK e \in sent, ok \in BOOLEAN : Include(e, ok)
      BY <1>2, <2>3 DEF Network, OtherTraffic, CloseLedger
    <3>2. e \in Envelope /\ e.payment \in Payments
      BY DEF Envelope
    <3>3. ~Expired(e)
      BY <3>1, <3>2 DEF Include, InWindow, Expired, Envelope
    <3>4. rec[e.payment].tx = e
      BY <3>2, <3>3 DEF Bound, Loose
    <3>5. e.payment \in owed
      BY <3>2, <3>4, StoredEnvelope, PipelineAssumption
    <3>6. \A f \in paid : f.payment = e.payment => f = e
      BY <1>1, <3>4, PaidIsOnRecord
    <3>7. \A f : Succeeded(f)' <=> Succeeded(f) \/ (f = e /\ ok)
      <4>1. PICK d : d = [env |-> e, ok |-> ok, at |-> now]
        OBVIOUS
      <4>2. d.env = e /\ d.ok = ok
        BY <4>1, Zenon
      <4>3. chain' = chain \cup {d}
        BY <3>1, <4>1, Zenon DEF Include
      <4> QED
        BY <4>2, <4>3 DEF Succeeded
    <3>8. CASE e \in paid \/ ~ok
      BY <1>1, <2>1, <3>7, <3>8 DEF Promise!vars
    <3>9. CASE e \notin paid /\ ok
      <4>1. paid' = paid \cup {e}
        BY <1>1, <2>1, <3>7, <3>9
      <4>2. Promise!Pay(e)
        BY <2>1, <3>5, <3>6, <3>9, <4>1 DEF Promise!Pay
      <4> QED
        BY <4>1, <4>2 DEF Promise!Next
    <3> QED
      BY <3>1, <3>8, <3>9
  <2> QED
    BY <2>2, <2>3
<1>3. ASSUME NEW p \in Payments, Enqueue(p) PROVE [Promise!Next]_(Promise!vars)
  <2>1. PICK h \in BOOLEAN : rec' = [rec EXCEPT ![p] = Enqueued(@, h)]
    BY <1>3 DEF Enqueue
  <2>2. paid' = paid
    BY <1>3 DEF Enqueue, Succeeded
  <2>3. CASE rec[p].state = "none"
    <3>1. owed' = owed \cup {p} /\ reported' = reported
      BY <2>1, <2>3, RecordFields
    <3>2. Promise!Owe(p)
      BY <2>2, <3>1 DEF Promise!Owe
    <3> QED
      BY <3>2 DEF Promise!Next
  <2>4. CASE rec[p].state # "none"
    <3>1. owed' = owed /\ reported' = reported
      BY <2>1, <2>4, RecordFields
    <3> QED
      BY <2>2, <3>1 DEF Promise!vars
  <2> QED
    BY <2>3, <2>4
<1>4. ASSUME NEW a \in Actors, ConfirmCas(a) PROVE [Promise!Next]_(Promise!vars)
  <2>1. paid' = paid
    BY <1>4 DEF ConfirmCas, Succeeded
  <2>2. CASE rec' = rec
    BY <2>1, <2>2 DEF Promise!vars
  <2>3. CASE rec' # rec
    <3>1. /\ job[a] \in Payments /\ env[a].payment = job[a] /\ env[a] \in paid
      BY <1>1, <1>4, HeldEnvelope DEF ConfirmCas, Holding, Steps, Learnt
    <3>2. owed' = owed /\ reported' = reported \cup {job[a]}
      BY <1>4, <2>3, <3>1, RecordFields DEF ConfirmCas, CompleteWrites
    <3>3. PICK p \in Payments : p = job[a]
      BY <3>1
    <3>4. Promise!Report(p)
      BY <2>1, <3>1, <3>2, <3>3 DEF Promise!Report
    <3> QED
      BY <3>4 DEF Promise!Next
  <2> QED
    BY <2>2, <2>3
<1>5. CASE Silent
  <2>1. paid' = paid
    BY <1>1, <1>5 DEF Silent, Succeeded
  <2>2. owed' = owed /\ reported' = reported
    BY <1>5 DEF Silent
  <2> QED
    BY <2>1, <2>2 DEF Promise!vars
<1> QED
  BY <1>2, <1>3, <1>4, <1>5, RecordStep

\* Refunds are paid only for queued refunds, at most once each, and are
\* reported as confirmed only after they were paid.
THEOREM PipelineKeepsPromise == ASSUME SafeUse PROVE Spec => KeepsPromise
<1>1. Spec => []IInv
  BY IInvHolds
<1>2. IInv /\ [Next]_vars => [Promise!Next]_(Promise!vars)
  BY PromiseStep
<1> QED
  BY <1>1, <1>2, PromiseInit, PTL DEF Spec, KeepsPromise, Promise!Spec

=============================================================================
