----------------------------- MODULE PayerProofs -----------------------------
(***************************************************************************)
(* Proofs about X402Payer, for any requests, keys, requirements, top-ups   *)
(* and bounds: the Base funder covers every balance, every Base credential *)
(* and what the Solana wallet advanced, a key has one credential, and what *)
(* counts as reported was reported.  The                                   *)
(* second part is about UpiFulfillment as MCPayerAndUpi instantiates it,   *)
(* for any orders, requests, fingerprints and bounds: money leaves for the *)
(* invoice once, and what an order reports is what happened.  After it     *)
(* proofs about both sides of MCInvoicesAndProviders, the orders of a      *)
(* link (InvoiceOrders) and the provider registry (ProviderRegistry), for  *)
(* any requests, slots, payloads and bounds.                               *)
(***************************************************************************)
EXTENDS MCPayerAndUpi, MCInvoicesAndProviders, FiniteSetTheorems, NaturalsInduction,
        WellFoundedInduction, TLAPS

Working == {"evm", "svm", "shadow", "remote", "commit"}
Steps   == Working \cup {"idle", "done"}
States  == {"none", "signed", "would_sign", "settled", "checked", "expired"}

Locals   == [pc : Steps, key : Keys \cup {Nobody}, hash : Hashes \cup {Nobody},
             mode : Modes \cup {"none"}, nonce : Nat]
Payments == [hash : Hashes \cup {Nobody}, nonce : Nat, mode : Modes \cup {"none"}, state : States]
Tries    == [hash : Hashes \cup {Nobody}, nonce : Nat]
Orders   == [pc : {"idle", "ordered", "shown", "refused"}, bound : BOOLEAN, paid : BOOLEAN,
             state : {"open", "credited", "reversed", "closed"}, heard : BOOLEAN]
Passes   == [pc : {"idle", "report"}, reads : SUBSET [key : Keys, used : BOOLEAN],
             told : SUBSET TopUps]
Ages     == {"undrawn", "fresh", "short", "past", "final"}

TypeOK == /\ req \in [Requests -> Locals]
          /\ mode \in Modes /\ flips \in Nat
          /\ bal \in Nat /\ pay \in [Keys -> Payments]
          /\ cache \in [Keys -> Tries] /\ age \in [Nonces -> Ages]
          /\ sent \subseteq [by : Requests, key : Keys, nonce : Nonces]
          /\ used \subseteq Nonces /\ funds \in Nat /\ solana \in Nat /\ drained \in Nat
          /\ top \in [TopUps -> Orders] /\ ops \in Passes /\ slot \in BOOLEAN
          /\ recon \in [short : BOOLEAN, heard : BOOLEAN] /\ faults \in Nat

\* A request past its first half has its arguments, and once past the signature
\* a nonce; a cached attempt has one too.
Asked == /\ \A r \in Requests :
              /\ req[r].pc \in Working => /\ req[r].key \in Keys /\ req[r].hash \in Hashes
                                          /\ req[r].mode \in {"on", "shadow"}
              /\ req[r].pc \in {"remote", "commit"} => req[r].nonce \in Nonces
         /\ \A k \in Keys : cache[k].hash \in Hashes => cache[k].nonce \in Nonces

\* The nonce of k's row can no longer be executed, and was not.
Unusable(k) == age[pay[k].nonce] = "final" /\ pay[k].nonce \notin used

\* A row belongs to one nonce and one mode.  What was checked or given back is
\* unusable: the answer came from a block no execution can precede any more.
RowSound(k) == \/ pay[k] = NoPay
               \/ /\ pay[k].nonce \in Nonces /\ pay[k].mode \in {"on", "shadow"}
                  /\ pay[k].state # "none"
                  /\ pay[k].state # "would_sign" <=> pay[k].mode = "on"
                  /\ pay[k].state \in {"checked", "expired"} => Unusable(k)

\* What the cron read is still so when it is reported.
Read(x) == /\ pay[x.key] # NoPay /\ pay[x.key].state # "would_sign"
           /\ age[pay[x.key].nonce] = "final"
           /\ ~x.used => pay[x.key].nonce \notin used

Handed(c) == pay[c.key].nonce = c.nonce /\ pay[c.key].mode = "on"

Rows == /\ \A k \in Keys : RowSound(k)
        /\ \A x \in ops.reads : Read(x)
        /\ \A c \in sent : Handed(c)

\* Nothing is credited that was not paid, and what the cron told, or closed, was
\* a reversal it told.
OrdersSound ==
    /\ \A t \in TopUps : /\ top[t].pc # "shown" => ~top[t].paid
                         /\ ~top[t].paid => top[t].state = "open"
                         /\ top[t].state = "closed" => top[t].heard
    /\ \A t \in ops.told : top[t].heard /\ top[t].state = "reversed"
    /\ recon.short => recon.heard

\* Deposits that reached the funder and are not credited yet.
Uncredited == {t \in TopUps : top[t].paid /\ top[t].state = "open"}

\* Backed, with the deposits that are still to be credited.
Cover == bal + Cardinality(Live) + Credit * Cardinality(Uncredited)
             <= funds + drained + Credit * Cardinality(Reversed)

IInv == TypeOK /\ Asked /\ Rows /\ OrdersSound /\ Cover

-----------------------------------------------------------------------------
(* Steps of one request, and the nonce it draws.                           *)

\* There is a first nonce among those not drawn yet.
LEMMA NextNonce ==
    ASSUME TypeOK, Undrawn # {}
    PROVE  Next1 \in Nonces /\ age[Next1] = "undrawn"
<1>. DEFINE Upto(n) == {m \in Undrawn : m <= n}
            Sets    == {Upto(n) : n \in Undrawn}
<1>1. Undrawn \subseteq Nonces /\ \A n \in Nonces : n \in Int
  BY DEF Undrawn, Nonces
<1>2. IsWellFoundedOn(StrictSubsetOrdering(Nonces), SUBSET Nonces)
  <2>1. IsFiniteSet(Nonces)
    BY FS_Interval, PayerConstants DEF Nonces
  <2>. QED BY <2>1, FS_StrictSubsetOrderingWellFounded, FS_FiniteSubsetsOfFinite
<1>3. Sets \subseteq SUBSET Nonces /\ Sets # {}
  BY <1>1
<1>4. PICK B \in Sets : \A C \in Sets : <<C, B>> \notin StrictSubsetOrdering(Nonces)
  <2>. HIDE DEF Sets
  <2>. QED BY <1>2, <1>3, WFMin
<1>5. PICK n \in Undrawn : B = Upto(n)
  BY <1>4
<1>6. ASSUME NEW m \in Undrawn PROVE n <= m
  <2>1. SUFFICES ASSUME m < n PROVE FALSE
    BY <1>1
  <2>2. Upto(m) \subseteq Upto(n) /\ n \in Upto(n) /\ n \notin Upto(m)
    BY <1>1, <2>1
  <2>3. Upto(m) \in Sets /\ Upto(m) \in SUBSET Nonces /\ Upto(n) \in SUBSET Nonces
    BY <1>1
  <2>4. <<Upto(m), Upto(n)>> \notin StrictSubsetOrdering(Nonces)
    BY <1>4, <1>5, <2>3
  <2>. HIDE DEF Upto
  <2>. QED BY <2>2, <2>3, <2>4 DEF StrictSubsetOrdering
<1>7. Next1 \in Undrawn
  BY <1>6 DEF Next1
<1>. QED BY <1>7 DEF Undrawn

\* Only request r moves.
Moved(r) == /\ req' \in [Requests -> Locals]
            /\ \A q \in Requests \ {r} : req'[q] = req[q]

\* A request ends.
LEMMA EndMoves ==
    ASSUME TypeOK, NEW r \in Requests, End(r)
    PROVE  Moved(r) /\ req'[r].pc = "done"
<1>1. [Idle EXCEPT !.pc = "done"] \in Locals
  BY DEF Idle, Locals, Steps, Working
<1>2. Moved(r) /\ req'[r] = [Idle EXCEPT !.pc = "done"]
  BY <1>1 DEF TypeOK, Moved, End
<1>. QED BY <1>2 DEF Idle

\* A request goes on with the nonce n.
LEMMA NonceMoves ==
    ASSUME TypeOK, NEW r \in Requests, NEW l \in Steps, NEW n \in Nat,
           req' = [req EXCEPT ![r].pc = l, ![r].nonce = n]
    PROVE  /\ Moved(r) /\ req'[r].pc = l /\ req'[r].nonce = n
           /\ req'[r].key = req[r].key /\ req'[r].hash = req[r].hash
           /\ req'[r].mode = req[r].mode
<1>1. req \in [Requests -> Locals] /\ req[r] \in Locals
  BY DEF TypeOK
<1>. DEFINE h == [req[r] EXCEPT !.pc = l, !.nonce = n]
<1>2. h \in Locals /\ h.pc = l /\ h.nonce = n /\ h.key = req[r].key /\ h.hash = req[r].hash
      /\ h.mode = req[r].mode
  BY <1>1 DEF Locals
<1>3. req' = [req EXCEPT ![r] = h]
  BY <1>1
<1>. HIDE DEF h
<1>. QED BY <1>1, <1>2, <1>3 DEF Moved

\* A request draws its nonce.
LEMMA DrawnMoves ==
    ASSUME TypeOK, NEW r \in Requests, Drawn(r)
    PROVE  /\ Moved(r) /\ req'[r].pc \in {"remote", "commit"}
           /\ req'[r].nonce = Next1 /\ req'[r].key = req[r].key
           /\ req'[r].hash = req[r].hash /\ req'[r].mode = req[r].mode
           /\ Next1 \in Nonces /\ age[Next1] = "undrawn"
           /\ age' = [age EXCEPT ![Next1] = "fresh"]
<1>1. Next1 \in Nonces /\ age[Next1] = "undrawn" /\ Next1 \in Nat
  BY NextNonce, PayerConstants DEF Drawn, Nonces
<1>. DEFINE l == IF req[r].pc = "evm" THEN "remote" ELSE "commit"
<1>2. l \in {"remote", "commit"} /\ l \in Steps
  BY DEF Steps, Working
<1>3. req' = [req EXCEPT ![r].pc = l, ![r].nonce = Next1]
  <2>1. req \in [Requests -> Locals] /\ req[r] \in Locals
    BY DEF TypeOK
  <2>. QED BY <2>1 DEF Drawn, Locals
<1>4. age' = [age EXCEPT ![Next1] = "fresh"]
  BY DEF Drawn
<1>. HIDE DEF l
<1>. QED BY <1>1, <1>2, <1>3, <1>4, NonceMoves

-----------------------------------------------------------------------------
(* The requests up to the commit, and time.                                *)

\* An authorization is drawn or ages; one that is final stays so.
Ageing == /\ age' \in [Nonces -> Ages]
          /\ \A n \in Nonces : age[n] = "final" => age'[n] = "final"

\* A request moves on, and its arguments are in order.
LEMMA AskedMoves ==
    ASSUME TypeOK, Asked, NEW r \in Requests, Moved(r), UNCHANGED cache,
           req'[r].pc \in Working => /\ req'[r].key \in Keys /\ req'[r].hash \in Hashes
                                     /\ req'[r].mode \in {"on", "shadow"},
           req'[r].pc \in {"remote", "commit"} => req'[r].nonce \in Nonces
    PROVE  Asked'
BY DEF Moved, Asked

\* A stored answer is the credential on the key's row.
LEMMA StoredHands ==
    ASSUME TypeOK, Rows, NEW r \in Requests, NEW k \in Keys, pay[k] # NoPay, Stored(r, k, pay[k])
    PROVE  /\ sent' \subseteq [by : Requests, key : Keys, nonce : Nonces]
           /\ \A c \in sent' : Handed(c)
<1>1. RowSound(k)
  BY DEF Rows
<1>2. CASE IsRefunded(pay[k]) \/ pay[k].mode = "shadow"
  BY <1>2 DEF Stored, TypeOK, Rows
<1>3. CASE ~(IsRefunded(pay[k]) \/ pay[k].mode = "shadow")
  <2>1. pay[k].nonce \in Nonces /\ pay[k].mode = "on"
    BY <1>1, <1>3 DEF RowSound
  <2>. DEFINE c == [by |-> r, key |-> k, nonce |-> pay[k].nonce]
  <2>2. c \in [by : Requests, key : Keys, nonce : Nonces] /\ Handed(c)
    BY <2>1 DEF Handed
  <2>3. sent' = sent \cup {c}
    BY <1>3 DEF Stored
  <2>. HIDE DEF c
  <2>. QED BY <2>2, <2>3 DEF TypeOK, Rows
<1>. QED BY <1>2, <1>3

Asking(r) == \/ Refuse(r) \/ Attempt(r) \/ RemoteSign(r) \/ SolanaSign(r) \/ ShadowDraw(r)
             \/ \E k \in Keys, h \in Hashes : SignRead(r, k, h)

\* What such a step leaves behind.
AskingEffect(r) ==
    /\ UNCHANGED <<mode, flips, bal, pay, used, funds, solana, drained, top, ops, slot, recon, faults>>
    /\ Moved(r) /\ cache' \in [Keys -> Tries] /\ Ageing /\ Asked'
    /\ sent' \subseteq [by : Requests, key : Keys, nonce : Nonces]
    /\ \A c \in sent' : Handed(c)

LEMMA AgeStays == ASSUME TypeOK, UNCHANGED age PROVE Ageing
BY DEF TypeOK, Ageing

LEMMA AgeDrawn ==
    ASSUME TypeOK, NEW n \in Nonces, age[n] = "undrawn", age' = [age EXCEPT ![n] = "fresh"]
    PROVE  Ageing
BY DEF TypeOK, Ageing, Ages

\* A request ends and nothing else happens.
LEMMA EndEffect ==
    ASSUME TypeOK, Asked, Rows, NEW r \in Requests, End(r),
           UNCHANGED <<mode, flips, ledger, cache, age, sent, chain, jobs, faults>>
    PROVE  AskingEffect(r)
<1>1. Moved(r) /\ req'[r].pc = "done"
  BY EndMoves
<1>2. Asked'
  BY <1>1, AskedMoves DEF Working
<1>3. Ageing
  BY AgeStays
<1>. QED BY <1>1, <1>2, <1>3 DEF AskingEffect, TypeOK, Rows, ledger, chain, jobs

LEMMA SignReadEffect ==
    ASSUME TypeOK, Asked, Rows, NEW r \in Requests, NEW k \in Keys, NEW h \in Hashes,
           SignRead(r, k, h)
    PROVE  AskingEffect(r)
<1>1. UNCHANGED <<mode, flips, ledger, cache, age, chain, jobs, faults>>
  BY DEF SignRead
<1>2. CASE End(r) /\ UNCHANGED sent
  BY <1>1, <1>2, EndEffect
<1>3. CASE /\ mode # "off" /\ pay[k] # NoPay /\ End(r)
           /\ IF mode = "on" THEN Stored(r, k, pay[k]) ELSE UNCHANGED sent
  <2>1. Moved(r) /\ req'[r].pc = "done"
    BY <1>3, EndMoves
  <2>2. Asked' /\ Ageing
    BY <1>1, <2>1, AskedMoves, AgeStays DEF Working
  <2>3. /\ sent' \subseteq [by : Requests, key : Keys, nonce : Nonces]
        /\ \A c \in sent' : Handed(c)
    BY <1>3, StoredHands DEF TypeOK, Rows
  <2>. QED BY <1>1, <2>1, <2>2, <2>3 DEF AskingEffect, TypeOK, ledger, chain, jobs
<1>. DEFINE h1 == [pc |-> IF mode = "shadow" THEN "shadow" ELSE Network[h],
                   key |-> k, hash |-> h, mode |-> mode, nonce |-> 0]
<1>4. CASE mode # "off" /\ req' = [req EXCEPT ![r] = h1] /\ UNCHANGED sent
  <2>1. mode \in {"on", "shadow"} /\ Network[h] \in {"evm", "svm"}
    BY <1>4, PayerConstants DEF TypeOK, Modes
  <2>2. h1 \in Locals /\ h1.pc \in {"shadow", "evm", "svm"} /\ h1.key = k /\ h1.hash = h
        /\ h1.mode = mode
    BY <2>1 DEF Locals, Steps, Working, Modes
  <2>. HIDE DEF h1
  <2>3. Moved(r) /\ req'[r] = h1
    BY <1>4, <2>2 DEF TypeOK, Moved
  <2>4. Asked' /\ Ageing
    BY <1>1, <2>1, <2>2, <2>3, AskedMoves, AgeStays
  <2>. QED BY <1>1, <1>4, <2>3, <2>4 DEF AskingEffect, TypeOK, Rows, ledger, chain, jobs
<1>. HIDE DEF h1
<1>. QED BY <1>2, <1>3, <1>4 DEF SignRead, h1

\* A nonce is drawn, by a signer or for a shadow row.
LEMMA DrawEffect ==
    ASSUME TypeOK, Asked, Rows, NEW r \in Requests, req[r].pc \in Working, Drawn(r),
           UNCHANGED <<mode, flips, ledger, cache, sent, chain, jobs, faults>>
    PROVE  AskingEffect(r)
<1>1. /\ Moved(r) /\ req'[r].pc \in {"remote", "commit"}
      /\ req'[r].nonce \in Nonces /\ req'[r].key = req[r].key
      /\ req'[r].hash = req[r].hash /\ req'[r].mode = req[r].mode
      /\ Ageing
  BY DrawnMoves, AgeDrawn
<1>2. req[r].key \in Keys /\ req[r].hash \in Hashes /\ req[r].mode \in {"on", "shadow"}
  BY DEF Asked
<1>3. Asked'
  BY <1>1, <1>2, AskedMoves
<1>. QED BY <1>1, <1>3 DEF AskingEffect, TypeOK, Rows, ledger, chain, jobs

LEMMA AttemptEffect ==
    ASSUME TypeOK, Asked, Rows, NEW r \in Requests, Attempt(r)
    PROVE  AskingEffect(r)
<1>. DEFINE k == req[r].key
<1>1. /\ UNCHANGED <<mode, flips, ledger, sent, chain, jobs, faults>>
      /\ req[r].pc = "evm"
  BY DEF Attempt, At
<1>2. k \in Keys /\ req[r].hash \in Hashes /\ req[r].mode \in {"on", "shadow"}
  BY <1>1 DEF Asked, Working
<1>3. CASE /\ SameTerms(cache[k], req[r].hash)
           /\ req' = [req EXCEPT ![r].pc = "remote", ![r].nonce = cache[k].nonce]
           /\ UNCHANGED <<cache, age>>
  <2>1. cache[k].nonce \in Nonces /\ cache[k].nonce \in Nat
    BY <1>2, <1>3 DEF SameTerms, Asked, TypeOK, Tries
  <2>2. /\ Moved(r) /\ req'[r].pc = "remote" /\ req'[r].nonce = cache[k].nonce
        /\ req'[r].key = k /\ req'[r].hash = req[r].hash /\ req'[r].mode = req[r].mode
    BY <1>3, <2>1, NonceMoves DEF Steps, Working
  <2>3. Asked' /\ Ageing
    BY <1>2, <1>3, <2>1, <2>2, AskedMoves, AgeStays
  <2>. QED BY <1>1, <1>3, <2>2, <2>3 DEF AskingEffect, TypeOK, Rows, ledger, chain, jobs
<1>4. CASE /\ Drawn(r)
           /\ cache' = [cache EXCEPT ![k] = [hash |-> req[r].hash, nonce |-> Next1]]
  <2>1. /\ Moved(r) /\ req'[r].pc \in {"remote", "commit"}
        /\ req'[r].nonce \in Nonces /\ req'[r].key = k
        /\ req'[r].hash = req[r].hash /\ req'[r].mode = req[r].mode
        /\ Ageing /\ Next1 \in Nonces
    BY <1>4, DrawnMoves, AgeDrawn
  <2>. DEFINE x == [hash |-> req[r].hash, nonce |-> Next1]
  <2>2. x \in Tries /\ x.nonce \in Nonces
    BY <1>2, <2>1, PayerConstants DEF Tries, Nonces
  <2>3. cache' = [cache EXCEPT ![k] = x]
    BY <1>4
  <2>. HIDE DEF x, k
  <2>4. cache' \in [Keys -> Tries] /\ \A j \in Keys : cache'[j].hash \in Hashes => cache'[j].nonce \in Nonces
    BY <1>2, <2>2, <2>3 DEF TypeOK, Asked
  <2>5. Asked'
    BY <1>2, <2>1, <2>4 DEF Asked, Moved
  <2>. QED BY <1>1, <2>1, <2>4, <2>5 DEF AskingEffect, TypeOK, Rows, ledger, chain, jobs
<1>. HIDE DEF k
<1>. QED BY <1>3, <1>4 DEF Attempt, k

LEMMA RemoteSignEffect ==
    ASSUME TypeOK, Asked, Rows, NEW r \in Requests, RemoteSign(r)
    PROVE  AskingEffect(r)
<1>1. UNCHANGED <<mode, flips, ledger, cache, age, sent, chain, jobs, faults>>
  BY DEF RemoteSign
<1>2. CASE RemoteFails(r)
  BY <1>1, <1>2, EndEffect DEF RemoteFails
<1>3. CASE RemoteSigns(r)
  <2>1. req \in [Requests -> Locals] /\ req[r] \in Locals /\ req[r].pc = "remote"
        /\ req' = [req EXCEPT ![r].pc = "commit"]
    BY <1>3 DEF TypeOK, RemoteSigns, At
  <2>2. req[r].nonce \in Nonces /\ req[r].key \in Keys /\ req[r].hash \in Hashes
        /\ req[r].mode \in {"on", "shadow"}
    BY <2>1 DEF Asked, Working
  <2>3. Moved(r) /\ req'[r].key = req[r].key /\ req'[r].hash = req[r].hash
        /\ req'[r].mode = req[r].mode /\ req'[r].nonce = req[r].nonce
    BY <2>1 DEF Moved, Locals, Steps, Working
  <2>4. Asked' /\ Ageing
    BY <1>1, <2>2, <2>3, AskedMoves, AgeStays
  <2>. QED BY <1>1, <2>3, <2>4 DEF AskingEffect, TypeOK, Rows, ledger, chain, jobs
<1>. QED BY <1>2, <1>3 DEF RemoteSign

LEMMA AskingSteps ==
    ASSUME TypeOK, Asked, Rows, NEW r \in Requests, Asking(r)
    PROVE  AskingEffect(r)
<1>1. CASE Refuse(r)
  BY <1>1, EndEffect DEF Refuse
<1>2. CASE SolanaSign(r)
  <2>1. CASE End(r) /\ UNCHANGED age
    BY <1>2, <2>1, EndEffect DEF SolanaSign
  <2>2. CASE Drawn(r)
    BY <1>2, <2>2, DrawEffect DEF SolanaSign, At, Working
  <2>. QED BY <1>2, <2>1, <2>2 DEF SolanaSign
<1>3. CASE ShadowDraw(r)
  BY <1>3, DrawEffect DEF ShadowDraw, At, Working
<1>. QED BY <1>1, <1>2, <1>3, AttemptEffect, RemoteSignEffect, SignReadEffect DEF Asking

-----------------------------------------------------------------------------
(* What is owed, counted.                                                  *)

LEMMA Counts ==
    /\ \A T \in SUBSET Keys : IsFiniteSet(T) /\ Cardinality(T) \in Nat
    /\ \A T \in SUBSET TopUps : IsFiniteSet(T) /\ Cardinality(T) \in Nat
BY FS_Subset, FS_CardinalityType, PayerConstants

LEMMA OneMore ==
    ASSUME NEW S \in SUBSET TopUps, NEW t \in TopUps, t \notin S
    PROVE  Credit * Cardinality(S \cup {t}) = Credit * Cardinality(S) + Credit
<1>1. Cardinality(S \cup {t}) = Cardinality(S) + 1 /\ Cardinality(S) \in Nat
  BY Counts, FS_AddElement
<1>2. \A c, n \in Nat : c * (n + 1) = c * n + c
  OBVIOUS
<1>. QED BY <1>1, <1>2, PayerConstants

LEMMA Sizes ==
    /\ Live \in SUBSET Keys /\ Live' \in SUBSET Keys
    /\ Uncredited \in SUBSET TopUps /\ Uncredited' \in SUBSET TopUps
    /\ Reversed \in SUBSET TopUps /\ Reversed' \in SUBSET TopUps
    /\ Cardinality(Live) \in Nat /\ Cardinality(Live') \in Nat
    /\ Credit * Cardinality(Uncredited) \in Nat
    /\ Credit * Cardinality(Reversed) \in Nat
<1>1. /\ Live \in SUBSET Keys /\ Live' \in SUBSET Keys
      /\ Uncredited \in SUBSET TopUps /\ Uncredited' \in SUBSET TopUps
      /\ Reversed \in SUBSET TopUps /\ Reversed' \in SUBSET TopUps
  BY DEF Live, OnBase, Uncredited, Reversed
<1>2. \A c, n \in Nat : c * n \in Nat
  OBVIOUS
<1>. QED BY <1>1, <1>2, Counts, PayerConstants

\* No more is owed, and no money is gone.
LEMMA CoverKept ==
    ASSUME TypeOK, Cover, Live' \subseteq Live,
           Uncredited' = Uncredited, Reversed' = Reversed, UNCHANGED <<bal, funds, drained>>
    PROVE  Cover'
<1>1. Cardinality(Live') <= Cardinality(Live)
  BY Sizes, Counts, FS_Subset
<1>2. bal \in Nat /\ funds \in Nat /\ drained \in Nat
  BY DEF TypeOK
<1>. DEFINE u == Credit * Cardinality(Uncredited)
            v == Credit * Cardinality(Reversed)
<1>3. bal + Cardinality(Live) + u <= funds + drained + v /\ u \in Nat /\ v \in Nat
  BY Sizes DEF Cover
<1>4. Cover' <=> bal + Cardinality(Live') + u <= funds + drained + v
  BY DEF Cover
<1>5. Cardinality(Live) \in Nat /\ Cardinality(Live') \in Nat
  BY Sizes
<1>. HIDE DEF u, v
<1>6. bal + Cardinality(Live') + u <= funds + drained + v
  BY <1>1, <1>2, <1>3, <1>5
<1>. QED BY <1>4, <1>6

\* Rows stay as they are while authorizations age.
LEMMA RowsKept ==
    ASSUME TypeOK, Rows, Ageing, UNCHANGED <<pay, used>>, ops'.reads \subseteq ops.reads,
           \A c \in sent' : Handed(c)
    PROVE  Rows'
<1>1. ASSUME NEW k \in Keys PROVE RowSound(k)'
  <2>1. RowSound(k)
    BY DEF Rows
  <2>. QED BY <2>1 DEF RowSound, Unusable, Ageing
<1>2. ASSUME NEW x \in ops.reads PROVE Read(x)'
  <2>1. Read(x) /\ x.key \in Keys
    BY DEF Rows, TypeOK, Passes
  <2>2. RowSound(x.key)
    BY <2>1 DEF Rows
  <2>. QED BY <2>1, <2>2 DEF Read, RowSound, Ageing
<1>3. \A c \in sent' : Handed(c)'
  BY DEF Handed
<1>. QED BY <1>1, <1>2, <1>3 DEF Rows

LEMMA AskingKeeps ==
    ASSUME IInv, NEW r \in Requests, AskingEffect(r)
    PROVE  IInv'
<1>1. TypeOK'
  BY DEF IInv, TypeOK, AskingEffect, Moved, Ageing
<1>2. Rows'
  BY RowsKept DEF IInv, AskingEffect
<1>3. OrdersSound'
  BY DEF IInv, OrdersSound, AskingEffect
<1>4. Cover'
  <2>1. Live' = Live /\ Uncredited' = Uncredited /\ Reversed' = Reversed
    BY DEF Live, OnBase, Uncredited, Reversed, AskingEffect
  <2>. QED BY <1>1, <2>1, CoverKept DEF IInv, AskingEffect
<1>. QED BY <1>1, <1>2, <1>3, <1>4 DEF IInv, AskingEffect

-----------------------------------------------------------------------------
(* The commit.                                                             *)

LEMMA CreatedKeeps ==
    ASSUME IInv, NEW r \in Requests, req[r].pc = "commit", End(r),
           mode # "off", Created(r), Stored(r, req[r].key, Row(r)) \/ UNCHANGED sent,
           faults' \in Nat, UNCHANGED <<mode, flips, cache, age, chain, jobs>>
    PROVE  IInv'
<1>0. /\ req[r].key \in Keys /\ req[r].hash \in Hashes /\ req[r].nonce \in Nonces
      /\ req[r].nonce \in Nat
  BY DEF IInv, Asked, Working, TypeOK, Locals
<1>. PICK k \in Keys, n \in Nonces : k = req[r].key /\ n = req[r].nonce
  BY <1>0
<1>1. n \in Nat /\ mode \in {"on", "shadow"}
  BY <1>0 DEF IInv, TypeOK, Modes
<1>2. /\ pay[k] = NoPay /\ pay' = [pay EXCEPT ![k] = Row(r)] /\ bal >= 1
      /\ bal' = IF mode = "on" THEN bal - 1 ELSE bal
  BY DEF Created, Free
<1>3. /\ Row(r) \in Payments /\ Row(r).nonce = n /\ Row(r).mode = mode /\ Row(r) # NoPay
      /\ Row(r).state = IF mode = "on" THEN "signed" ELSE "would_sign"
  BY <1>0, <1>1 DEF Row, Payments, Modes, States, NoPay
<1>4. /\ pay' \in [Keys -> Payments] /\ pay'[k] = Row(r)
      /\ \A j \in Keys \ {k} : pay'[j] = pay[j]
  BY <1>1, <1>2, <1>3 DEF IInv, TypeOK
<1>5. UNCHANGED <<used, funds, solana, drained, top, ops, slot, recon>>
  BY DEF chain, jobs
<1>6. Moved(r) /\ req'[r].pc = "done"
  BY EndMoves DEF IInv
<1>7. Asked'
  BY <1>6, AskedMoves DEF IInv, Working
<1>8. /\ sent' \subseteq [by : Requests, key : Keys, nonce : Nonces]
      /\ \A c \in sent' : Handed(c)'
  <2>1. ASSUME NEW c \in sent PROVE Handed(c)'
    <3>1. Handed(c) /\ c.key \in Keys
      BY DEF IInv, Rows, TypeOK
    <3>2. c.key # k
      BY <1>2, <3>1 DEF Handed, NoPay
    <3>. QED BY <1>4, <3>1, <3>2 DEF Handed
  <2>2. CASE UNCHANGED sent
    BY <2>1, <2>2 DEF IInv, TypeOK
  <2>3. CASE Stored(r, k, Row(r))
    <3>. DEFINE c == [by |-> r, key |-> k, nonce |-> n]
    <3>1. c \in [by : Requests, key : Keys, nonce : Nonces] /\ c.key = k /\ c.nonce = n
      BY <1>1
    <3>2. sent' = IF mode = "shadow" THEN sent ELSE sent \cup {c}
      BY <1>1, <1>3, <2>3 DEF Stored, IsRefunded
    <3>3. mode = "on" => Handed(c)'
      BY <1>3, <1>4, <3>1 DEF Handed
    <3>. HIDE DEF c
    <3>. QED BY <1>1, <2>1, <3>1, <3>2, <3>3 DEF IInv, TypeOK
  <2>. QED BY <2>2, <2>3
<1>9. TypeOK'
  BY <1>2, <1>4, <1>5, <1>6, <1>8 DEF IInv, TypeOK, Moved
<1>10. Rows'
  <2>1. ASSUME NEW j \in Keys PROVE RowSound(j)'
    <3>1. CASE j = k
      BY <1>1, <1>3, <1>4, <3>1 DEF RowSound
    <3>2. CASE j # k
      BY <1>4, <1>5, <3>2 DEF IInv, Rows, RowSound, Unusable
    <3>. QED BY <3>1, <3>2
  <2>2. ASSUME NEW x \in ops.reads PROVE Read(x)'
    <3>1. Read(x) /\ x.key \in Keys
      BY DEF IInv, Rows, TypeOK, Passes
    <3>2. x.key # k
      BY <1>2, <3>1 DEF Read
    <3>. QED BY <1>4, <1>5, <3>1, <3>2 DEF Read
  <2>. QED BY <1>5, <1>8, <2>1, <2>2 DEF Rows
<1>11. OrdersSound'
  BY <1>5 DEF IInv, OrdersSound
<1>12. Cover'
  <2>1. Uncredited' = Uncredited /\ Reversed' = Reversed
    BY <1>5 DEF Uncredited, Reversed
  <2>2. CASE mode = "on"
    <3>1. Live' \subseteq Live \cup {k}
      BY <1>4, <1>5 DEF Live, OnBase
    <3>2. Cardinality(Live') <= Cardinality(Live) + 1
      <4>0. IsFiniteSet(Live) /\ Cardinality(Live) \in Nat
        BY Sizes, Counts
      <4>1. IsFiniteSet(Live \cup {k}) /\ Cardinality(Live \cup {k}) <= Cardinality(Live) + 1
        <5>1. /\ IsFiniteSet(Live \cup {k})
              /\ Cardinality(Live \cup {k}) = IF k \in Live THEN Cardinality(Live) ELSE Cardinality(Live) + 1
          BY <4>0, FS_AddElement
        <5>. QED BY <4>0, <5>1
      <4>2. Cardinality(Live \cup {k}) \in Nat
        BY <4>1, FS_CardinalityType
      <4>. QED BY <3>1, <4>1, <4>2, Sizes, FS_Subset
    <3>. DEFINE u == Credit * Cardinality(Uncredited)
                v == Credit * Cardinality(Reversed)
    <3>3. bal + Cardinality(Live) + u <= funds + drained + v /\ u \in Nat /\ v \in Nat
          /\ bal \in Nat /\ funds \in Nat /\ drained \in Nat
      BY Sizes DEF IInv, Cover, TypeOK
    <3>4. Cover' <=> bal - 1 + Cardinality(Live') + u <= funds + drained + v
      BY <1>2, <1>5, <2>1, <2>2 DEF Cover
    <3>. HIDE DEF u, v
    <3>5. bal - 1 + Cardinality(Live') + u <= funds + drained + v
      BY <3>2, <3>3, Sizes
    <3>. QED BY <3>4, <3>5
  <2>3. CASE mode = "shadow"
    <3>1. Live' \subseteq Live
      BY <1>3, <1>4, <1>5, <2>3 DEF Live, OnBase
    <3>. QED BY <1>2, <1>5, <1>9, <2>1, <2>3, <3>1, CoverKept DEF IInv
  <2>. QED BY <1>1, <2>2, <2>3
<1>. QED BY <1>7, <1>9, <1>10, <1>11, <1>12 DEF IInv

LEMMA CommitKeeps ==
    ASSUME IInv, NEW r \in Requests, Commit(r)
    PROVE  IInv'
<1>. DEFINE k == req[r].key
<1>1. /\ req[r].pc = "commit" /\ End(r) /\ UNCHANGED <<mode, flips, cache, age, chain, jobs>>
  BY DEF Commit, At
<1>2. CASE UNCHANGED <<ledger, sent, faults>>
  <2>1. AskingEffect(r)
    BY <1>1, <1>2, EndEffect DEF IInv
  <2>. QED BY <2>1, AskingKeeps
<1>3. CASE mode # "off" /\ Created(r) /\ Stored(r, k, Row(r)) /\ UNCHANGED faults
  BY <1>1, <1>3, CreatedKeeps DEF IInv, TypeOK
<1>4. CASE Replayed(r) /\ Stored(r, k, pay[k]) /\ UNCHANGED <<ledger, faults>>
  <2>1. k \in Keys /\ pay[k] # NoPay
    BY <1>1, <1>4, PayerConstants DEF IInv, Asked, Working, Replayed, SameTerms, NoPay
  <2>2. /\ sent' \subseteq [by : Requests, key : Keys, nonce : Nonces]
        /\ \A c \in sent' : Handed(c)
    BY <1>4, <2>1, StoredHands DEF IInv
  <2>3. Moved(r) /\ req'[r].pc = "done"
    BY <1>1, EndMoves DEF IInv
  <2>4. Asked' /\ Ageing
    BY <1>1, <2>3, AskedMoves, AgeStays DEF IInv, Working
  <2>5. AskingEffect(r)
    BY <1>1, <1>4, <2>2, <2>3, <2>4 DEF IInv, TypeOK, AskingEffect, ledger, chain, jobs
  <2>. QED BY <2>5, AskingKeeps
<1>5. CASE mode # "off" /\ Created(r) /\ Fault /\ UNCHANGED sent
  BY <1>1, <1>5, CreatedKeeps DEF IInv, TypeOK, Fault
<1>. QED BY <1>2, <1>3, <1>4, <1>5 DEF Commit

-----------------------------------------------------------------------------
(* Time, the chain, the switch.                                            *)

\* Nothing the ledger or the chain holds changes.
LEMMA QuietKeeps ==
    ASSUME IInv, TypeOK', Ageing,
           UNCHANGED <<req, cache, sent, bal, pay, used, funds, solana, drained, top, ops>>,
           recon'.short => recon'.heard
    PROVE  IInv'
<1>1. Asked'
  BY DEF IInv, Asked
<1>2. Rows'
  BY RowsKept DEF IInv, Rows
<1>3. OrdersSound'
  BY DEF IInv, OrdersSound
<1>4. Cover'
  <2>1. Live' = Live /\ Uncredited' = Uncredited /\ Reversed' = Reversed
    BY DEF Live, OnBase, Uncredited, Reversed
  <2>. QED BY <2>1, CoverKept DEF IInv
<1>. QED BY <1>1, <1>2, <1>3, <1>4 DEF IInv

LEMMA AgeKeeps ==
    ASSUME IInv, NEW n \in Nonces, Age(n)
    PROVE  IInv'
<1>1. UNCHANGED <<req, mode, flips, bal, pay, cache, sent, used, funds, solana, drained, top, ops, slot,
                  recon, faults>>
  BY DEF Age, ledger, chain, jobs
<1>2. Ageing
  BY DEF Age, Ageing, IInv, TypeOK, Older, Ages
<1>. QED BY <1>1, <1>2, QuietKeeps DEF IInv, TypeOK, Ageing, OrdersSound

LEMMA FlipKeeps ==
    ASSUME IInv, NEW m \in Modes, Flip(m)
    PROVE  IInv'
<1>1. UNCHANGED <<req, bal, pay, cache, age, sent, used, funds, solana, drained, top, ops, slot, recon, faults>>
      /\ mode' = m /\ flips' = flips + 1
  BY DEF Flip, ledger, chain, jobs
<1>. QED BY <1>1, QuietKeeps, AgeStays DEF IInv, TypeOK, OrdersSound

LEMMA SlotKeeps ==
    ASSUME IInv, NextSlot
    PROVE  IInv'
<1>1. UNCHANGED <<req, mode, flips, bal, pay, cache, age, sent, used, funds, solana, drained, top, ops, recon, faults>>
      /\ slot' = FALSE
  BY DEF NextSlot, ledger, chain
<1>. QED BY <1>1, QuietKeeps, AgeStays DEF IInv, TypeOK, OrdersSound

LEMMA ReconcileKeeps ==
    ASSUME IInv, Reconcile
    PROVE  IInv'
<1>1. UNCHANGED <<req, mode, flips, bal, pay, cache, age, sent, used, funds, solana, drained, top, ops, slot, faults>>
  BY DEF Reconcile, ledger, chain
<1>2. recon' \in [short : BOOLEAN, heard : BOOLEAN] /\ (recon'.short => recon'.heard)
  <2>1. recon \in [short : BOOLEAN, heard : BOOLEAN] /\ (recon.short => recon.heard)
    BY DEF IInv, TypeOK, OrdersSound
  <2>2. CASE Liability > funds
    <3>1. PICK d \in BOOLEAN : recon' = [short |-> recon.short \/ OnRecord(d), heard |-> recon.heard \/ d]
      BY <2>2 DEF Reconcile
    <3>. QED BY <2>1, <3>1 DEF OnRecord
  <2>3. CASE ~(Liability > funds)
    <3>1. recon' = [short |-> FALSE, heard |-> FALSE]
      BY <2>3 DEF Reconcile
    <3>. QED BY <3>1
  <2>. QED BY <2>2, <2>3
<1>3. TypeOK'
  BY <1>1, <1>2 DEF IInv, TypeOK
<1>. QED BY <1>1, <1>2, <1>3, QuietKeeps, AgeStays DEF IInv

LEMMA DrainKeeps ==
    ASSUME IInv, Drain
    PROVE  IInv'
<1>1. /\ UNCHANGED <<req, mode, flips, bal, pay, cache, age, sent, used, solana, top, ops, slot, recon>>
      /\ funds >= 1 /\ funds' = funds - 1 /\ drained' = drained + 1 /\ faults' = faults + 1
  BY DEF Drain, Fault, ledger, jobs
<1>2. TypeOK'
  BY <1>1 DEF IInv, TypeOK
<1>3. Asked' /\ OrdersSound'
  BY <1>1 DEF IInv, Asked, OrdersSound
<1>4. Rows'
  BY <1>1, RowsKept, AgeStays DEF IInv, Rows
<1>5. Cover'
  <2>1. Live' = Live /\ Uncredited' = Uncredited /\ Reversed' = Reversed
    BY <1>1 DEF Live, OnBase, Uncredited, Reversed
  <2>. DEFINE w == bal + Cardinality(Live) + Credit * Cardinality(Uncredited)
              v == Credit * Cardinality(Reversed)
  <2>2. w <= funds + drained + v /\ v \in Nat /\ funds \in Nat /\ drained \in Nat
    BY Sizes DEF IInv, Cover, TypeOK
  <2>3. Cover' <=> w <= (funds - 1) + (drained + 1) + v
    BY <1>1, <2>1 DEF Cover
  <2>4. (funds - 1) + (drained + 1) = funds + drained
    BY <2>2
  <2>. HIDE DEF w, v
  <2>. QED BY <2>2, <2>3, <2>4
<1>. QED BY <1>2, <1>3, <1>4, <1>5 DEF IInv

\* A credential is executed: its row is live until then, and its money goes.
LEMMA ExecuteKeeps ==
    ASSUME IInv, NEW n \in Nonces, Execute(n)
    PROVE  IInv'
<1>1. /\ UNCHANGED <<req, mode, flips, bal, pay, cache, age, sent, drained, top, ops, slot, recon, faults>>
      /\ age[n] # "final" /\ n \notin used /\ used' = used \cup {n}
  BY DEF Execute, ledger, jobs
<1>0. PICK c \in sent :
          /\ c.nonce = n
          /\ \/ OnBase(c.key) /\ funds >= 1 /\ funds' = funds - 1 /\ UNCHANGED solana
             \/ ~OnBase(c.key) /\ solana >= 1 /\ solana' = solana - 1 /\ UNCHANGED funds
  BY DEF Execute
<1>2. TypeOK'
  <2>1. funds' \in Nat /\ solana' \in Nat
    BY <1>0 DEF IInv, TypeOK
  <2>. QED BY <1>1, <2>1 DEF IInv, TypeOK
<1>3. Asked' /\ OrdersSound'
  BY <1>1 DEF IInv, Asked, OrdersSound
<1>4. Rows'
  <2>1. ASSUME NEW j \in Keys PROVE RowSound(j)'
    BY <1>1 DEF IInv, Rows, RowSound, Unusable
  <2>2. ASSUME NEW x \in ops.reads PROVE Read(x)'
    BY <1>1 DEF IInv, Rows, Read
  <2>3. ASSUME NEW h \in sent PROVE Handed(h)'
    BY <1>1 DEF IInv, Rows, Handed
  <2>. QED BY <1>1, <2>1, <2>2, <2>3 DEF Rows
<1>5. PICK k \in Keys : k = c.key /\ k \in Live /\ pay[k].nonce = n
  <2>2. c.key \in Keys /\ Handed(c) /\ RowSound(c.key)
    BY DEF IInv, Rows, TypeOK
  <2>3. pay[c.key].nonce = n /\ pay[c.key].mode = "on" /\ pay[c.key].state # "expired"
    BY <1>0, <1>1, <2>2 DEF Handed, RowSound, Unusable, NoPay
  <2>. QED BY <1>1, <2>2, <2>3 DEF Live
<1>6. CASE ~OnBase(k) /\ UNCHANGED funds
  <2>1. Uncredited' = Uncredited /\ Reversed' = Reversed
    BY <1>1 DEF Uncredited, Reversed
  <2>2. Live' \subseteq Live
    BY <1>1 DEF Live, OnBase
  <2>3. Cover'
    BY <1>1, <1>6, <2>1, <2>2, CoverKept DEF IInv
  <2>. QED BY <1>2, <1>3, <1>4, <2>3 DEF IInv
<1>7. CASE OnBase(k) /\ funds >= 1 /\ funds' = funds - 1
  <2>1. Uncredited' = Uncredited /\ Reversed' = Reversed
    BY <1>1 DEF Uncredited, Reversed
  <2>2. Live' \subseteq Live \ {k}
    BY <1>1, <1>5, <1>7 DEF Live, OnBase
  <2>3. IsFiniteSet(Live) /\ Cardinality(Live) \in Nat /\ Cardinality(Live') \in Nat
    BY Sizes, Counts
  <2>4. Cardinality(Live') + 1 <= Cardinality(Live)
    <3>1. IsFiniteSet(Live \ {k}) /\ Cardinality(Live \ {k}) = Cardinality(Live) - 1
      BY <1>5, <2>3, FS_RemoveElement
    <3>2. Cardinality(Live') <= Cardinality(Live \ {k})
      BY <2>2, <3>1, FS_Subset
    <3>. QED BY <2>3, <3>1, <3>2
  <2>. DEFINE u == Credit * Cardinality(Uncredited)
              v == Credit * Cardinality(Reversed)
  <2>5. /\ bal + Cardinality(Live) + u <= funds + drained + v /\ u \in Nat /\ v \in Nat
        /\ bal \in Nat /\ funds \in Nat /\ drained \in Nat
    BY Sizes DEF IInv, Cover, TypeOK
  <2>6. Cover' <=> bal + Cardinality(Live') + u <= (funds - 1) + drained + v
    BY <1>1, <1>7, <2>1 DEF Cover
  <2>. HIDE DEF u, v
  <2>7. bal + Cardinality(Live') + u <= (funds - 1) + drained + v
    BY <2>3, <2>4, <2>5
  <2>. QED BY <1>2, <1>3, <1>4, <2>6, <2>7 DEF IInv
<1>. QED BY <1>0, <1>5, <1>6, <1>7

-----------------------------------------------------------------------------
(* Top-ups.                                                                *)

\* Order t becomes x, in order and not one that was told.
LEMMA OrderMoves ==
    ASSUME IInv, NEW t \in TopUps, NEW x \in Orders, top' = [top EXCEPT ![t] = x],
           UNCHANGED <<ops, recon>>, top[t].state # "reversed",
           x.pc # "shown" => ~x.paid, ~x.paid => x.state = "open", x.state # "closed"
    PROVE  /\ OrdersSound' /\ top' \in [TopUps -> Orders] /\ top'[t] = x
           /\ \A s \in TopUps \ {t} : top'[s] = top[s]
<1>1. /\ top' \in [TopUps -> Orders] /\ top'[t] = x
      /\ \A s \in TopUps \ {t} : top'[s] = top[s]
  BY DEF IInv, TypeOK
<1>2. \A s \in TopUps : /\ top'[s].pc # "shown" => ~top'[s].paid
                        /\ ~top'[s].paid => top'[s].state = "open"
                        /\ top'[s].state = "closed" => top'[s].heard
  BY <1>1 DEF IInv, OrdersSound
<1>3. ops.told \subseteq TopUps /\ t \notin ops.told
  BY DEF IInv, OrdersSound, TypeOK, Passes
<1>. QED BY <1>1, <1>2, <1>3 DEF IInv, OrdersSound

\* An order that nothing was paid for yet.
LEMMA OrderKeeps ==
    ASSUME IInv, NEW t \in TopUps, NEW x \in Orders, Top(t, x),
           ~top[t].paid, ~x.paid, x.state = "open", faults' \in Nat,
           UNCHANGED <<req, mode, flips, ledger, cache, age, sent, chain, ops, slot, recon>>
    PROVE  IInv'
<1>1. UNCHANGED <<bal, pay, used, funds, solana, drained>>
  BY DEF ledger, chain
<1>2. top[t].state = "open"
  BY DEF IInv, OrdersSound
<1>3. /\ OrdersSound' /\ top' \in [TopUps -> Orders] /\ top'[t] = x
      /\ \A s \in TopUps \ {t} : top'[s] = top[s]
  BY <1>2, OrderMoves DEF Top
<1>4. TypeOK'
  BY <1>1, <1>3 DEF IInv, TypeOK
<1>5. Asked'
  BY DEF IInv, Asked
<1>6. Rows'
  BY <1>1, RowsKept, AgeStays DEF IInv, Rows
<1>7. Cover'
  <2>1. Live' = Live
    BY <1>1 DEF Live, OnBase
  <2>2. Uncredited' = Uncredited /\ Reversed' = Reversed
    BY <1>2, <1>3 DEF Uncredited, Reversed
  <2>. QED BY <1>1, <2>1, <2>2, CoverKept DEF IInv
<1>. QED BY <1>3, <1>4, <1>5, <1>6, <1>7 DEF IInv

LEMMA TopupOrderKeeps ==
    ASSUME IInv, NEW t \in TopUps, TopupOrder(t)
    PROVE  IInv'
<1>. DEFINE a == [NoTop EXCEPT !.pc = "refused"]
            b == [NoTop EXCEPT !.pc = "ordered"]
<1>1. a \in Orders /\ ~a.paid /\ a.state = "open" /\ b \in Orders /\ ~b.paid /\ b.state = "open"
  BY DEF NoTop, Orders
<1>2. ~top[t].paid
  BY DEF TopupOrder, IInv, OrdersSound
<1>3. Top(t, a) \/ Top(t, b)
  BY DEF TopupOrder, TopupRefuse, SourceRefuse, Refused
<1>4. faults' \in Nat /\ UNCHANGED <<req, mode, flips, ledger, cache, age, sent, chain, ops, slot, recon>>
  BY DEF TopupOrder, IInv, TypeOK
<1>. HIDE DEF a, b
<1>. QED BY <1>1, <1>2, <1>3, <1>4, OrderKeeps

LEMMA TopupRegisterKeeps ==
    ASSUME IInv, NEW t \in TopUps, TopupRegister(t)
    PROVE  IInv'
<1>1. /\ ~top[t].paid /\ top[t].state = "open" /\ top[t] \in Orders
      /\ UNCHANGED <<req, mode, flips, ledger, cache, age, sent, chain, ops, slot, recon>>
  BY DEF TopupRegister, IInv, OrdersSound, TypeOK
<1>2. PICK b \in BOOLEAN, l \in {"shown", "refused"} :
         Top(t, [top[t] EXCEPT !.bound = b, !.pc = l]) /\ faults' \in Nat
  <2>1. faults' \in Nat
    <3>1. faults' = faults \/ faults' = faults + 1
      BY Zenon DEF TopupRegister, Fault
    <3>. QED BY <3>1 DEF IInv, TypeOK
  <2>2. CASE Top(t, [top[t] EXCEPT !.bound = TRUE, !.pc = "refused"])
    BY <2>1, <2>2
  <2>3. CASE \E b \in BOOLEAN :
                Top(t, [top[t] EXCEPT !.bound = b, !.pc = IF Shown(b) THEN "shown" ELSE "refused"])
    <3>1. PICK b \in BOOLEAN :
             Top(t, [top[t] EXCEPT !.bound = b, !.pc = IF Shown(b) THEN "shown" ELSE "refused"])
      BY <2>3
    <3>2. CASE Shown(b)
      BY <2>1, <3>1, <3>2
    <3>3. CASE ~Shown(b)
      BY <2>1, <3>1, <3>3
    <3>. QED BY <3>2, <3>3
  <2>. QED BY <2>2, <2>3 DEF TopupRegister
<1>. DEFINE x == [top[t] EXCEPT !.bound = b, !.pc = l]
<1>3. x \in Orders /\ ~x.paid /\ x.state = "open"
  BY <1>1 DEF Orders
<1>. HIDE DEF x
<1>4. Top(t, x)
  BY <1>2 DEF x
<1>. QED BY <1>1, <1>2, <1>3, <1>4, OrderKeeps

LEMMA DepositKeeps ==
    ASSUME IInv, NEW t \in TopUps, Deposit(t)
    PROVE  IInv'
<1>1. /\ UNCHANGED <<req, mode, flips, bal, pay, cache, age, sent, used, solana, drained, ops, slot, recon,
                     faults>>
      /\ top[t].pc = "shown" /\ ~top[t].paid /\ funds' = funds + Credit
      /\ top' = [top EXCEPT ![t] = [top[t] EXCEPT !.paid = TRUE]]
  BY DEF Deposit, Top, ledger
<1>2. top[t] \in Orders /\ top[t].state = "open"
  BY <1>1 DEF IInv, TypeOK, OrdersSound
<1>. DEFINE x == [top[t] EXCEPT !.paid = TRUE]
<1>3. x \in Orders /\ x.paid /\ x.state = "open" /\ x.pc = "shown"
  BY <1>1, <1>2 DEF Orders
<1>. HIDE DEF x
<1>4. /\ OrdersSound' /\ top' \in [TopUps -> Orders] /\ top'[t] = x
      /\ \A s \in TopUps \ {t} : top'[s] = top[s]
  <2>1. top' = [top EXCEPT ![t] = x]
    BY <1>1 DEF x
  <2>. QED BY <1>1, <1>2, <1>3, <2>1, OrderMoves
<1>5. TypeOK'
  BY <1>1, <1>4, PayerConstants DEF IInv, TypeOK
<1>6. Asked'
  BY <1>1 DEF IInv, Asked
<1>7. Rows'
  BY <1>1, RowsKept, AgeStays DEF IInv, Rows
<1>8. Cover'
  <2>1. Live' = Live
    BY <1>1 DEF Live, OnBase
  <2>2. Reversed' = Reversed
    BY <1>2, <1>3, <1>4 DEF Reversed
  <2>3. Uncredited' = Uncredited \cup {t} /\ t \notin Uncredited
    BY <1>1, <1>2, <1>3, <1>4 DEF Uncredited
  <2>. DEFINE w == bal + Cardinality(Live)
              u == Credit * Cardinality(Uncredited)
              v == Credit * Cardinality(Reversed)
  <2>4. Credit * Cardinality(Uncredited') = u + Credit
    BY <2>3, OneMore, Sizes
  <2>5. /\ w + u <= funds + drained + v /\ u \in Nat /\ v \in Nat /\ w \in Nat
        /\ funds \in Nat /\ drained \in Nat /\ Credit \in Nat
    BY Sizes, PayerConstants DEF IInv, Cover, TypeOK
  <2>6. Cover' <=> w + (u + Credit) <= (funds + Credit) + drained + v
    BY <1>1, <2>1, <2>2, <2>4 DEF Cover
  <2>. HIDE DEF w, u, v
  <2>7. w + (u + Credit) <= (funds + Credit) + drained + v
    BY <2>5
  <2>. QED BY <2>6, <2>7
<1>. QED BY <1>4, <1>5, <1>6, <1>7, <1>8 DEF IInv

LEMMA CreditTopupKeeps ==
    ASSUME IInv, NEW t \in TopUps, CreditTopup(t)
    PROVE  IInv'
<1>1. /\ UNCHANGED <<req, mode, flips, pay, cache, age, sent, used, funds, solana, drained, ops, slot, recon, faults>>
      /\ top[t].paid /\ top[t].state = "open" /\ bal' = bal + Credit
      /\ top' = [top EXCEPT ![t] = [top[t] EXCEPT !.state = "credited"]]
  BY DEF CreditTopup, Top, chain
<1>2. top[t] \in Orders /\ top[t].pc = "shown"
  BY <1>1 DEF IInv, TypeOK, OrdersSound
<1>. DEFINE x == [top[t] EXCEPT !.state = "credited"]
<1>3. x \in Orders /\ x.paid /\ x.state = "credited" /\ x.pc = "shown"
  BY <1>1, <1>2 DEF Orders
<1>. HIDE DEF x
<1>4. /\ OrdersSound' /\ top' \in [TopUps -> Orders] /\ top'[t] = x
      /\ \A s \in TopUps \ {t} : top'[s] = top[s]
  <2>1. top' = [top EXCEPT ![t] = x]
    BY <1>1 DEF x
  <2>. QED BY <1>1, <1>2, <1>3, <2>1, OrderMoves
<1>5. TypeOK'
  BY <1>1, <1>4, PayerConstants DEF IInv, TypeOK
<1>6. Asked'
  BY <1>1 DEF IInv, Asked
<1>7. Rows'
  BY <1>1, RowsKept, AgeStays DEF IInv, Rows
<1>8. Cover'
  <2>1. Live' = Live
    BY <1>1 DEF Live, OnBase
  <2>2. Reversed' = Reversed
    BY <1>1, <1>3, <1>4 DEF Reversed
  <2>3. Uncredited = Uncredited' \cup {t} /\ t \notin Uncredited'
    BY <1>1, <1>2, <1>3, <1>4 DEF Uncredited
  <2>. DEFINE l == Cardinality(Live)
              u == Credit * Cardinality(Uncredited')
              v == Credit * Cardinality(Reversed)
  <2>4. Credit * Cardinality(Uncredited) = u + Credit
    BY <2>3, OneMore, Sizes
  <2>5. u \in Nat
    <3>1. Cardinality(Uncredited') \in Nat /\ Credit \in Nat
      BY Sizes, Counts, PayerConstants
    <3>2. \A c, n \in Nat : c * n \in Nat
      OBVIOUS
    <3>. QED BY <3>1, <3>2
  <2>6. /\ bal + l + (u + Credit) <= funds + drained + v /\ v \in Nat /\ l \in Nat
        /\ bal \in Nat /\ funds \in Nat /\ drained \in Nat /\ Credit \in Nat
    BY <2>4, Sizes, PayerConstants DEF IInv, Cover, TypeOK
  <2>7. Cover' <=> (bal + Credit) + l + u <= funds + drained + v
    BY <1>1, <2>1, <2>2 DEF Cover
  <2>. HIDE DEF l, u, v
  <2>8. (bal + Credit) + l + u <= funds + drained + v
    BY <2>5, <2>6
  <2>. QED BY <2>7, <2>8
<1>. QED BY <1>4, <1>5, <1>6, <1>7, <1>8 DEF IInv

LEMMA ReverseKeeps ==
    ASSUME IInv, NEW t \in TopUps, Reverse(t)
    PROVE  IInv'
<1>1. /\ UNCHANGED <<req, mode, flips, bal, pay, cache, age, sent, used, solana, drained, ops, slot, recon,
                     faults>>
      /\ top[t].state = "credited" /\ funds >= Credit /\ funds' = funds - Credit
      /\ top' = [top EXCEPT ![t] = [top[t] EXCEPT !.state = "reversed"]]
  BY DEF Reverse, Top, ledger
<1>2. top[t] \in Orders /\ top[t].paid /\ top[t].pc = "shown"
  BY <1>1 DEF IInv, TypeOK, OrdersSound
<1>. DEFINE x == [top[t] EXCEPT !.state = "reversed"]
<1>3. x \in Orders /\ x.paid /\ x.state = "reversed" /\ x.pc = "shown"
  BY <1>1, <1>2 DEF Orders
<1>. HIDE DEF x
<1>4. /\ OrdersSound' /\ top' \in [TopUps -> Orders] /\ top'[t] = x
      /\ \A s \in TopUps \ {t} : top'[s] = top[s]
  <2>1. top' = [top EXCEPT ![t] = x]
    BY <1>1 DEF x
  <2>. QED BY <1>1, <1>2, <1>3, <2>1, OrderMoves
<1>5. TypeOK'
  BY <1>1, <1>4, PayerConstants DEF IInv, TypeOK
<1>6. Asked'
  BY <1>1 DEF IInv, Asked
<1>7. Rows'
  BY <1>1, RowsKept, AgeStays DEF IInv, Rows
<1>8. Cover'
  <2>1. Live' = Live
    BY <1>1 DEF Live, OnBase
  <2>2. Uncredited' = Uncredited
    BY <1>1, <1>3, <1>4 DEF Uncredited
  <2>3. Reversed' = Reversed \cup {t} /\ t \notin Reversed
    BY <1>1, <1>3, <1>4 DEF Reversed
  <2>. DEFINE w == bal + Cardinality(Live) + Credit * Cardinality(Uncredited)
              v == Credit * Cardinality(Reversed)
  <2>4. Credit * Cardinality(Reversed') = v + Credit
    BY <2>3, OneMore, Sizes
  <2>5. /\ w <= funds + drained + v /\ v \in Nat /\ w \in Nat
        /\ funds \in Nat /\ drained \in Nat /\ Credit \in Nat
    BY Sizes, PayerConstants DEF IInv, Cover, TypeOK
  <2>6. Cover' <=> w <= (funds - Credit) + drained + (v + Credit)
    BY <1>1, <2>1, <2>2, <2>4 DEF Cover
  <2>. HIDE DEF w, v
  <2>7. w <= (funds - Credit) + drained + (v + Credit)
    BY <2>5
  <2>. QED BY <2>6, <2>7
<1>. QED BY <1>4, <1>5, <1>6, <1>7, <1>8 DEF IInv

-----------------------------------------------------------------------------
(* The cron pass, and what the ledger gives back.                          *)

LEMMA OpsRunKeeps ==
    ASSUME IInv, OpsRun
    PROVE  IInv'
<1>1. /\ UNCHANGED <<req, mode, flips, bal, pay, cache, age, sent, used, funds, solana, drained, recon>>
      /\ slot' = TRUE
  BY DEF OpsRun, ledger, chain
<1>2. CASE Fault /\ UNCHANGED <<ops, top>>
  <2>1. TypeOK'
    BY <1>1, <1>2 DEF IInv, TypeOK, Fault
  <2>. QED BY <1>1, <1>2, <2>1, QuietKeeps, AgeStays DEF IInv, OrdersSound
<1>3. ASSUME NEW R \in SUBSET {k \in Checks : Readable(k)},
             NEW A \in SUBSET {t \in TopUps : top[t].state = "reversed"},
             ops' = [pc |-> "report", told |-> A,
                     reads |-> {[key |-> k, used |-> pay[k].nonce \in used] : k \in R}],
             top' = [t \in TopUps |-> [top[t] EXCEPT !.heard = @ \/ t \in A]],
             UNCHANGED faults
      PROVE  IInv'
  <2>1. ASSUME NEW t \in TopUps
        PROVE  /\ top'[t] \in Orders /\ top'[t].pc = top[t].pc /\ top'[t].paid = top[t].paid
               /\ top'[t].state = top[t].state
               /\ top[t].heard => top'[t].heard
               /\ t \in A => top'[t].heard
    <3>1. top[t] \in Orders /\ top'[t] = [top[t] EXCEPT !.heard = top[t].heard \/ t \in A]
      BY <1>3 DEF IInv, TypeOK
    <3>. QED BY <3>1 DEF Orders
  <2>2. top' \in [TopUps -> Orders]
    <3>1. DOMAIN top' = TopUps /\ top' = [t \in TopUps |-> top'[t]]
      BY <1>3
    <3>. QED BY <2>1, <3>1
  <2>3. \A k \in R : k \in Keys /\ pay[k].state = "signed" /\ age[pay[k].nonce] = "final"
    BY <1>3 DEF Checks, Readable
  <2>4. ASSUME NEW x \in ops'.reads
        PROVE  \E k \in R, b \in BOOLEAN : x = [key |-> k, used |-> b] /\ (b <=> pay[k].nonce \in used)
    <3>1. PICK k \in R : x = [key |-> k, used |-> pay[k].nonce \in used]
      BY <1>3, <2>4
    <3>. DEFINE b == pay[k].nonce \in used
    <3>2. b \in BOOLEAN /\ x = [key |-> k, used |-> b] /\ (b <=> pay[k].nonce \in used)
      BY <3>1
    <3>. HIDE DEF b
    <3>. QED BY <3>2
  <2>5. ops' \in Passes
    <3>1. ops'.reads \subseteq [key : Keys, used : BOOLEAN]
      BY <2>3, <2>4
    <3>2. A \subseteq TopUps
      OBVIOUS
    <3>. QED BY <1>3, <3>1, <3>2 DEF Passes
  <2>6. TypeOK'
    BY <1>1, <1>3, <2>2, <2>5 DEF IInv, TypeOK
  <2>7. Asked'
    BY <1>1 DEF IInv, Asked
  <2>8. Rows'
    <3>1. ASSUME NEW x \in ops'.reads PROVE Read(x)'
      <4>1. PICK k \in R, b \in BOOLEAN : x = [key |-> k, used |-> b] /\ (b <=> pay[k].nonce \in used)
        BY <2>4
      <4>2. x.key = k /\ (~x.used => pay[k].nonce \notin used) /\ pay[k] # NoPay
        BY <2>3, <4>1 DEF NoPay
      <4>. QED BY <1>1, <2>3, <4>2 DEF Read
    <3>2. \A k \in Keys : RowSound(k)'
      BY <1>1 DEF IInv, Rows, RowSound, Unusable
    <3>3. \A c \in sent' : Handed(c)'
      BY <1>1 DEF IInv, Rows, Handed
    <3>. QED BY <3>1, <3>2, <3>3 DEF Rows
  <2>9. OrdersSound'
    <3>1. \A t \in TopUps : /\ top'[t].pc # "shown" => ~top'[t].paid
                            /\ ~top'[t].paid => top'[t].state = "open"
                            /\ top'[t].state = "closed" => top'[t].heard
      BY <2>1 DEF IInv, OrdersSound
    <3>2. ops'.told = A
      BY <1>3
    <3>3. \A t \in A : t \in TopUps /\ top'[t].heard /\ top'[t].state = "reversed"
      BY <2>1
    <3>. QED BY <1>1, <3>1, <3>2, <3>3 DEF IInv, OrdersSound
  <2>10. Cover'
    <3>1. Live' = Live
      BY <1>1 DEF Live, OnBase
    <3>2. Uncredited' = Uncredited /\ Reversed' = Reversed
      BY <2>1 DEF Uncredited, Reversed
    <3>. QED BY <1>1, <3>1, <3>2, CoverKept DEF IInv
  <2>. QED BY <2>6, <2>7, <2>8, <2>9, <2>10 DEF IInv
<1>. QED BY <1>2, <1>3 DEF OpsRun

\* What a report makes of one row: only a live one, and only its state.
LEMMA ReportedRow ==
    ASSUME IInv, OpsReport, ~UNCHANGED pay, NEW k \in Keys
    PROVE  /\ pay'[k] \in Payments /\ pay'[k].nonce = pay[k].nonce /\ pay'[k].mode = pay[k].mode
           /\ pay'[k].hash = pay[k].hash
           /\ \/ pay'[k] = pay[k]
              \/ /\ pay[k].state = "signed" /\ pay'[k].state \in {"settled", "checked"}
                 /\ pay'[k].state = "checked" => Unusable(k)
<1>1. pay[k] \in Payments
  BY DEF IInv, TypeOK
<1>. DEFINE e == IF [key |-> k, used |-> TRUE] \in ops.reads THEN "settled" ELSE "checked"
<1>2. pay'[k] = IF \E x \in ops.reads : x.key = k /\ pay[k].state = "signed"
                THEN [pay[k] EXCEPT !.state = e] ELSE pay[k]
  BY DEF OpsReport
<1>3. e \in {"settled", "checked"}
  OBVIOUS
<1>4. CASE \E x \in ops.reads : x.key = k /\ pay[k].state = "signed"
  <2>1. PICK x \in ops.reads : x.key = k /\ pay[k].state = "signed"
    BY <1>4
  <2>2. x \in [key : Keys, used : BOOLEAN] /\ Read(x)
    BY DEF IInv, Rows, TypeOK, Passes
  <2>3. x.used => x = [key |-> k, used |-> TRUE]
    BY <2>1, <2>2
  <2>4. e = "checked" => Unusable(k)
    BY <2>1, <2>2, <2>3 DEF Read, Unusable
  <2>. HIDE DEF e
  <2>5. pay'[k] = [pay[k] EXCEPT !.state = e]
    BY <1>2, <1>4
  <2>6. pay'[k] \in Payments /\ pay'[k].nonce = pay[k].nonce /\ pay'[k].mode = pay[k].mode
        /\ pay'[k].state = e /\ pay'[k].hash = pay[k].hash
    BY <1>1, <1>3, <2>5 DEF Payments, States
  <2>. QED BY <1>3, <2>1, <2>4, <2>6
<1>5. CASE ~\E x \in ops.reads : x.key = k /\ pay[k].state = "signed"
  <2>. HIDE DEF e
  <2>. QED BY <1>1, <1>2, <1>5
<1>. QED BY <1>4, <1>5

LEMMA OpsReportKeeps ==
    ASSUME IInv, OpsReport
    PROVE  IInv'
<1>1. /\ UNCHANGED <<req, mode, flips, bal, cache, age, sent, used, funds, solana, drained, slot, recon>>
      /\ ops' = NoPass /\ faults' \in Nat
  BY DEF OpsReport, chain, Fault, IInv, TypeOK
<1>2. ops' \in Passes /\ ops'.reads = {} /\ ops'.told = {}
  BY <1>1 DEF Passes, NoPass
<1>3. ASSUME NEW k \in Keys
      PROVE  /\ pay'[k] \in Payments /\ pay'[k].nonce = pay[k].nonce /\ pay'[k].mode = pay[k].mode
             /\ pay'[k].hash = pay[k].hash
             /\ \/ pay'[k] = pay[k]
                \/ /\ pay[k].state = "signed" /\ pay'[k].state \in {"settled", "checked"}
                   /\ pay'[k].state = "checked" => Unusable(k)
  <2>1. CASE UNCHANGED pay
    BY <2>1 DEF IInv, TypeOK
  <2>2. CASE ~UNCHANGED pay
    BY <2>2, ReportedRow
  <2>. QED BY <2>1, <2>2
<1>4. pay' \in [Keys -> Payments]
  <2>1. pay' = [k \in Keys |-> pay'[k]]
    BY DEF OpsReport, IInv, TypeOK
  <2>. QED BY <1>3, <2>1
<1>5. ASSUME NEW t \in TopUps
      PROVE  /\ top'[t] \in Orders /\ top'[t].pc = top[t].pc /\ top'[t].paid = top[t].paid
             /\ top'[t].heard = top[t].heard
             /\ \/ top'[t] = top[t]
                \/ top[t].state = "reversed" /\ top[t].heard /\ top'[t].state = "closed"
  <2>1. top[t] \in Orders
    BY DEF IInv, TypeOK
  <2>2. top'[t] = top[t] \/ (t \in ops.told /\ top'[t] = [top[t] EXCEPT !.state = "closed"])
    BY DEF OpsReport, Acked
  <2>3. t \in ops.told => top[t].state = "reversed" /\ top[t].heard
    BY DEF IInv, OrdersSound
  <2>. QED BY <2>1, <2>2, <2>3 DEF Orders
<1>6. top' \in [TopUps -> Orders]
  <2>1. top' = [t \in TopUps |-> top'[t]]
    BY DEF OpsReport, IInv, TypeOK
  <2>. QED BY <1>5, <2>1
<1>7. TypeOK'
  BY <1>1, <1>2, <1>4, <1>6 DEF IInv, TypeOK
<1>8. Asked'
  BY <1>1 DEF IInv, Asked
<1>9. Rows'
  <2>1. ASSUME NEW k \in Keys PROVE RowSound(k)'
    <3>1. RowSound(k)
      BY DEF IInv, Rows
    <3>2. Unusable(k)' <=> Unusable(k)
      BY <1>1, <1>3 DEF Unusable
    <3>3. CASE pay'[k] = pay[k]
      BY <3>1, <3>2, <3>3 DEF RowSound
    <3>4. CASE /\ pay[k].state = "signed" /\ pay'[k].state \in {"settled", "checked"}
               /\ pay'[k].state = "checked" => Unusable(k)
      BY <1>3, <3>1, <3>2, <3>4 DEF RowSound, NoPay
    <3>. QED BY <1>3, <3>3, <3>4
  <2>2. ASSUME NEW c \in sent PROVE Handed(c)'
    <3>1. Handed(c) /\ c.key \in Keys
      BY DEF IInv, Rows, TypeOK
    <3>. QED BY <1>3, <3>1 DEF Handed
  <2>. QED BY <1>1, <1>2, <2>1, <2>2 DEF Rows
<1>10. OrdersSound'
  <2>1. \A t \in TopUps : /\ top'[t].pc # "shown" => ~top'[t].paid
                          /\ ~top'[t].paid => top'[t].state = "open"
                          /\ top'[t].state = "closed" => top'[t].heard
    BY <1>5 DEF IInv, OrdersSound
  <2>. QED BY <1>1, <1>2, <2>1 DEF IInv, OrdersSound
<1>11. Cover'
  <2>1. Live' \subseteq Live
    BY <1>1, <1>3 DEF Live, OnBase
  <2>2. Uncredited' = Uncredited /\ Reversed' = Reversed
    BY <1>5 DEF Uncredited, Reversed
  <2>. QED BY <1>1, <2>1, <2>2, CoverKept DEF IInv
<1>. QED BY <1>7, <1>8, <1>9, <1>10, <1>11 DEF IInv

\* A row that was checked is live and unused until it is given back.
LEMMA RefundKeeps ==
    ASSUME IInv, NEW k \in Keys, Refund(k)
    PROVE  IInv'
<1>1. /\ UNCHANGED <<req, mode, flips, cache, age, sent, used, funds, solana, drained, top, ops, slot, recon, faults>>
      /\ pay[k].state = "checked" /\ bal' = bal + 1
      /\ pay' = [pay EXCEPT ![k] = [pay[k] EXCEPT !.state = "expired"]]
  BY DEF Refund, chain, jobs, IInv, TypeOK
<1>2. pay[k] \in Payments /\ RowSound(k)
  BY DEF IInv, TypeOK, Rows
<1>3. pay[k] # NoPay /\ pay[k].mode = "on" /\ Unusable(k) /\ pay[k].nonce \in Nonces
  BY <1>1, <1>2 DEF RowSound, NoPay
<1>. DEFINE x == [pay[k] EXCEPT !.state = "expired"]
<1>4. x \in Payments /\ x.nonce = pay[k].nonce /\ x.mode = pay[k].mode /\ x.state = "expired"
  BY <1>2 DEF Payments, States
<1>. HIDE DEF x
<1>5. /\ pay' \in [Keys -> Payments] /\ pay'[k] = x
      /\ \A j \in Keys \ {k} : pay'[j] = pay[j]
  <2>1. pay' = [pay EXCEPT ![k] = x]
    BY <1>1 DEF x
  <2>. QED BY <1>4, <2>1 DEF IInv, TypeOK
<1>6. TypeOK'
  BY <1>1, <1>5 DEF IInv, TypeOK
<1>7. Asked' /\ OrdersSound'
  BY <1>1 DEF IInv, Asked, OrdersSound
<1>8. Rows'
  <2>1. ASSUME NEW j \in Keys PROVE RowSound(j)'
    <3>1. CASE j = k
      BY <1>1, <1>3, <1>4, <1>5, <3>1 DEF RowSound, Unusable
    <3>2. CASE j # k
      BY <1>1, <1>5, <3>2 DEF IInv, Rows, RowSound, Unusable
    <3>. QED BY <3>1, <3>2
  <2>2. ASSUME NEW y \in ops.reads PROVE Read(y)'
    <3>1. Read(y) /\ y.key \in Keys
      BY DEF IInv, Rows, TypeOK, Passes
    <3>2. CASE y.key = k
      BY <1>1, <1>3, <1>4, <1>5, <3>1, <3>2 DEF Read, NoPay
    <3>3. CASE y.key # k
      BY <1>1, <1>5, <3>1, <3>3 DEF Read
    <3>. QED BY <3>2, <3>3
  <2>3. ASSUME NEW c \in sent PROVE Handed(c)'
    <3>1. Handed(c) /\ c.key \in Keys
      BY DEF IInv, Rows, TypeOK
    <3>. QED BY <1>4, <1>5, <3>1 DEF Handed
  <2>. QED BY <1>1, <2>1, <2>2, <2>3 DEF Rows
<1>9. Cover'
  <2>1. Uncredited' = Uncredited /\ Reversed' = Reversed
    BY <1>1 DEF Uncredited, Reversed
  <2>2. k \in Live /\ Live' \subseteq Live \ {k}
    BY <1>1, <1>3, <1>4, <1>5 DEF Live, OnBase, Unusable
  <2>3. IsFiniteSet(Live) /\ Cardinality(Live) \in Nat /\ Cardinality(Live') \in Nat
    BY Sizes, Counts
  <2>4. Cardinality(Live') + 1 <= Cardinality(Live)
    <3>1. IsFiniteSet(Live \ {k}) /\ Cardinality(Live \ {k}) = Cardinality(Live) - 1
      BY <2>2, <2>3, FS_RemoveElement
    <3>2. Cardinality(Live') <= Cardinality(Live \ {k})
      BY <2>2, <3>1, FS_Subset
    <3>. QED BY <2>3, <3>1, <3>2
  <2>. DEFINE u == Credit * Cardinality(Uncredited)
              v == Credit * Cardinality(Reversed)
  <2>5. /\ bal + Cardinality(Live) + u <= funds + drained + v /\ u \in Nat /\ v \in Nat
        /\ bal \in Nat /\ funds \in Nat /\ drained \in Nat
    BY Sizes DEF IInv, Cover, TypeOK
  <2>6. Cover' <=> (bal + 1) + Cardinality(Live') + u <= funds + drained + v
    BY <1>1, <2>1 DEF Cover
  <2>. HIDE DEF u, v
  <2>7. (bal + 1) + Cardinality(Live') + u <= funds + drained + v
    BY <2>3, <2>4, <2>5
  <2>. QED BY <2>6, <2>7
<1>. QED BY <1>6, <1>7, <1>8, <1>9 DEF IInv

-----------------------------------------------------------------------------
(* The theorems.                                                           *)

LEMMA InitSound == ASSUME Init PROVE IInv
<1>1. /\ Idle \in Locals /\ NoPay \in Payments /\ NoTry \in Tries /\ NoTop \in Orders
      /\ NoPass \in Passes
  BY DEF Idle, NoPay, NoTry, NoTop, NoPass, Locals, Payments, Tries, Orders, Passes, Steps, States
<1>2. TypeOK
  BY <1>1, PayerConstants DEF Init, TypeOK, Modes, Ages
<1>3. Asked
  BY PayerConstants DEF Init, Asked, Idle, Working, NoTry
<1>4. Rows
  BY DEF Init, Rows, RowSound, NoPass
<1>5. OrdersSound
  BY DEF Init, OrdersSound, NoTop, NoPass
<1>6. Cover
  <2>1. Live = {} /\ Uncredited = {} /\ Reversed = {}
    BY DEF Init, Live, OnBase, Uncredited, Reversed, NoPay, NoTop
  <2>2. Cardinality({}) = 0 /\ Credit * 0 = 0
    BY FS_EmptySet, PayerConstants
  <2>. QED BY <2>1, <2>2, PayerConstants DEF Init, Cover
<1>. QED BY <1>2, <1>3, <1>4, <1>5, <1>6 DEF IInv

LEMMA StepSound == ASSUME IInv, [Next]_vars PROVE IInv'
<1>1. CASE UNCHANGED vars
  BY <1>1, QuietKeeps, AgeStays DEF vars, ledger, chain, jobs, IInv, TypeOK, OrdersSound
<1>2. ASSUME NEW r \in Requests, Asking(r) PROVE IInv'
  BY <1>2, AskingSteps, AskingKeeps DEF IInv
<1>3. ASSUME NEW r \in Requests, Commit(r) PROVE IInv'
  BY <1>3, CommitKeeps
<1>4. ASSUME NEW n \in Nonces, Age(n) \/ Execute(n) PROVE IInv'
  BY <1>4, AgeKeeps, ExecuteKeeps
<1>5. CASE Drain \/ NextSlot \/ OpsRun \/ OpsReport \/ Reconcile
  BY <1>5, DrainKeeps, SlotKeeps, OpsRunKeeps, OpsReportKeeps, ReconcileKeeps
<1>6. ASSUME NEW m \in Modes, Flip(m) PROVE IInv'
  BY <1>6, FlipKeeps
<1>7. ASSUME NEW t \in TopUps, \/ TopupOrder(t) \/ TopupRegister(t) \/ Deposit(t)
                               \/ CreditTopup(t) \/ Reverse(t)
      PROVE  IInv'
  BY <1>7, TopupOrderKeeps, TopupRegisterKeeps, DepositKeeps, CreditTopupKeeps, ReverseKeeps
<1>8. ASSUME NEW k \in Keys, Refund(k) PROVE IInv'
  BY <1>8, RefundKeeps
<1>. QED BY <1>1, <1>2, <1>3, <1>4, <1>5, <1>6, <1>7, <1>8 DEF Next, Asking

\* Every reachable state of the payer has rows, credentials, orders and money in
\* order: the invariant the theorems below rest on (routes.ts, reconcile.ts).
THEOREM Invariant == Spec => []IInv
<1>1. Init => IInv
  BY InitSound
<1>2. IInv /\ [Next]_vars => IInv'
  BY StepSound
<1>. QED BY <1>1, <1>2, PTL DEF Spec

\* Every variable of the payer keeps its type.
THEOREM TypeCorrect == Spec => []TypeOK
<1>1. IInv => TypeOK
  BY DEF IInv
<1>. QED BY <1>1, Invariant, PTL

LEMMA SoundFromInvariant == ASSUME IInv PROVE PayerSound
<1>1. Backed
  <2>. DEFINE u == Credit * Cardinality(Uncredited)
              v == Credit * Cardinality(Reversed)
              l == Cardinality(Live)
  <2>1. /\ bal + l + u <= funds + drained + v /\ u \in Nat /\ v \in Nat /\ l \in Nat
        /\ bal \in Nat /\ funds \in Nat /\ drained \in Nat
    BY Sizes DEF IInv, Cover, TypeOK
  <2>2. Backed <=> bal + l <= funds + drained + v
    BY DEF Backed
  <2>. HIDE DEF u, v, l
  <2>3. bal + l <= funds + drained + v
    BY <2>1
  <2>. QED BY <2>2, <2>3
<1>2. OneCredential
  <2>1. ASSUME NEW c \in sent
        PROVE  /\ pay[c.key].nonce = c.nonce /\ pay[c.key].mode = "on"
               /\ pay[c.key].state = "expired" => c.nonce \notin used
    <3>1. c.key \in Keys /\ Handed(c) /\ RowSound(c.key)
      BY DEF IInv, Rows, TypeOK
    <3>. QED BY <3>1 DEF Handed, RowSound, Unusable, NoPay
  <2>. QED BY <2>1 DEF OneCredential
<1>3. AlertsHeard
  BY DEF IInv, OrdersSound, AlertsHeard
<1>. QED BY <1>1, <1>2, <1>3 DEF PayerSound

\* The Base funder covers every balance, every live Base credential and every
\* Solana debit whatever calls, retries, lost answers, expiries and refunds interleave; a key has one
\* credential, given back only if it was never executed; and what the cron
\* counts as reported was heard (routes.ts sign and topup, reconcile.ts).
THEOREM PayerSoundHolds == Spec => []PayerSound
<1>1. IInv => PayerSound
  BY SoundFromInvariant
<1>. QED BY <1>1, Invariant, PTL

LEMMA SentOnlyWhenOn == ASSUME TypeOK, [Next]_vars, sent' # sent PROVE mode = "on"
<1>1. ASSUME NEW r \in Requests, NEW k \in Keys, NEW h \in Hashes, SignRead(r, k, h)
      PROVE  mode = "on"
  BY <1>1 DEF SignRead
<1>2. ASSUME NEW r \in Requests, Commit(r) PROVE mode = "on"
  <2>1. CASE mode # "off" /\ Created(r) /\ Stored(r, req[r].key, Row(r))
    BY <2>1 DEF Stored, Row, TypeOK, Modes
  <2>2. CASE Replayed(r)
    BY <2>2 DEF Replayed
  <2>. QED BY <1>2, <2>1, <2>2 DEF Commit
<1>3. ASSUME NEW r \in Requests, \/ Refuse(r) \/ Attempt(r) \/ RemoteSign(r) \/ SolanaSign(r)
                                 \/ ShadowDraw(r)
      PROVE  FALSE
  BY <1>3 DEF Refuse, Attempt, RemoteSign, SolanaSign, ShadowDraw
<1>4. ASSUME NEW n \in Nonces, Age(n) \/ Execute(n) PROVE FALSE
  BY <1>4 DEF Age, Execute
<1>5. CASE Drain \/ NextSlot \/ OpsRun \/ OpsReport \/ Reconcile
  BY <1>5 DEF Drain, NextSlot, OpsRun, OpsReport, Reconcile
<1>6. ASSUME NEW m \in Modes, Flip(m) PROVE FALSE
  BY <1>6 DEF Flip
<1>7. ASSUME NEW t \in TopUps, \/ TopupOrder(t) \/ TopupRegister(t) \/ Deposit(t)
                               \/ CreditTopup(t) \/ Reverse(t)
      PROVE  FALSE
  BY <1>7 DEF TopupOrder, TopupRegister, Deposit, CreditTopup, Reverse
<1>8. ASSUME NEW k \in Keys, Refund(k) PROVE FALSE
  BY <1>8 DEF Refund
<1>9. CASE UNCHANGED vars
  BY <1>9 DEF vars
<1>. QED BY <1>1, <1>2, <1>3, <1>4, <1>5, <1>6, <1>7, <1>8, <1>9 DEF Next

\* The switch holds: whatever was read before it moved, a credential only leaves
\* in a step that finds it on (routes.ts sign).
THEOREM SwitchHoldsAlways == Spec => SwitchHolds
<1>1. TypeOK /\ [Next]_vars => [sent' # sent => mode = "on"]_vars
  BY SentOnlyWhenOn
<1>. QED BY <1>1, TypeCorrect, PTL DEF Spec, SwitchHolds

(***************************************************************************)
(* UPI                                                                     *)
(***************************************************************************)

LEMMA UpiNames == /\ Upi!Nothing \notin Prints
                  /\ \A o \in Upi!Orders : o \notin {Upi!Nothing, Upi!Other, Upi!Outside, Upi!Dead, "unreachable"}
                  /\ \A o \in V1 : o \notin V2
  BY UpiConstants DEF Upi!Orders, Upi!Nothing, Upi!Other, Upi!Outside, Upi!Dead

\* Only request p moves.
\* Orders, and what they can have been failed on.
UpiWords == Upi!Orders \X {"poll", "answer"}

UpiMoved(p) == /\ upiProc' \in [Requests -> Upi!Locals]
               /\ \A q \in Requests \ {p} : upiProc'[q] = upiProc[q]

LEMMA UpiTyped ==
    ASSUME Upi!TypeOK, NEW p \in Requests
    PROVE  /\ upiProc[p] \in Upi!Locals /\ upiProc[p].pc \in Upi!Steps /\ upiProc[p].order \in Upi!Orders \cup {Upi!Nothing}
           /\ upiProc[p].print \in Prints \cup {Upi!Nothing} /\ upiProc[p].claimed \in BOOLEAN
           /\ upiProc[p].snap \in Upi!Records /\ upiProc[p].pre \in BOOLEAN
           /\ upiProc[p].live \in Upi!Payers \cup {Upi!Nothing, Upi!Outside, Upi!Dead, "unreachable"}
  BY DEF Upi!TypeOK, Upi!Locals

LEMMA UpiAbsentTyped == Upi!Absent \in Upi!Records
  BY DEF Upi!Absent, Upi!Records

LEMMA UpiIdleTyped == /\ Upi!Idle \in Upi!Locals /\ Upi!Idle.pc = "idle" /\ Upi!Idle.order = Upi!Nothing
                      /\ Upi!Idle.claimed = FALSE
  BY UpiAbsentTyped DEF Upi!Idle, Upi!Locals, Upi!Steps

\* A request becomes r.
LEMMA UpiBecomesMoves ==
    ASSUME Upi!TypeOK, NEW p \in Requests, NEW r \in Upi!Locals,
           upiProc' = [upiProc EXCEPT ![p] = r]
    PROVE  UpiMoved(p) /\ upiProc'[p] = r
  BY DEF Upi!TypeOK, UpiMoved

LEMMA UpiDoneMoves ==
    ASSUME Upi!TypeOK, NEW p \in Requests, Upi!Done(p)
    PROVE  UpiMoved(p) /\ upiProc'[p] = Upi!Idle
  BY UpiIdleTyped, UpiBecomesMoves DEF Upi!Done

\* The fields of a request that goes on.
UpiSame(r, s) == /\ r.order = s.order /\ r.snap = s.snap /\ r.pre = s.pre

LEMMA UpiGoMoves ==
    ASSUME Upi!TypeOK, NEW p \in Requests, NEW l \in Upi!Steps, Upi!Go(p, l)
    PROVE  /\ UpiMoved(p) /\ UpiSame(upiProc'[p], upiProc[p]) /\ upiProc'[p].pc = l
           /\ upiProc'[p].print = upiProc[p].print /\ upiProc'[p].claimed = upiProc[p].claimed
           /\ upiProc'[p].live = upiProc[p].live
<1>. DEFINE h == [upiProc[p] EXCEPT !.pc = l]
<1>1. upiProc[p] \in Upi!Locals
  BY UpiTyped
<1>2. h \in Upi!Locals
  BY <1>1 DEF Upi!Locals
<1>3. /\ UpiSame(h, upiProc[p]) /\ h.pc = l /\ h.print = upiProc[p].print
      /\ h.claimed = upiProc[p].claimed /\ h.live = upiProc[p].live
  BY <1>1 DEF Upi!Locals, UpiSame
<1>4. upiProc' = [upiProc EXCEPT ![p] = h]
  BY DEF Upi!Go
<1>. HIDE DEF h
<1>5. UpiMoved(p) /\ upiProc'[p] = h
  BY <1>2, <1>4, UpiBecomesMoves
<1>. QED BY <1>3, <1>5

LEMMA UpiPrintMoves ==
    ASSUME Upi!TypeOK, NEW p \in Requests, NEW l \in Upi!Steps, NEW v \in Prints,
           upiProc' = [upiProc EXCEPT ![p].pc = l, ![p].print = v]
    PROVE  /\ UpiMoved(p) /\ UpiSame(upiProc'[p], upiProc[p]) /\ upiProc'[p].pc = l
           /\ upiProc'[p].print = v /\ upiProc'[p].claimed = upiProc[p].claimed
           /\ upiProc'[p].live = upiProc[p].live
<1>. DEFINE h == [upiProc[p] EXCEPT !.pc = l, !.print = v]
<1>1. upiProc[p] \in Upi!Locals
  BY UpiTyped
<1>2. h \in Upi!Locals
  BY <1>1 DEF Upi!Locals
<1>3. /\ UpiSame(h, upiProc[p]) /\ h.pc = l /\ h.print = v
      /\ h.claimed = upiProc[p].claimed /\ h.live = upiProc[p].live
  BY <1>1 DEF Upi!Locals, UpiSame
<1>4. upiProc' = [upiProc EXCEPT ![p] = h]
  BY DEF Upi!TypeOK
<1>. HIDE DEF h
<1>5. UpiMoved(p) /\ upiProc'[p] = h
  BY <1>2, <1>4, UpiBecomesMoves
<1>. QED BY <1>3, <1>5

LEMMA UpiClaimMoves ==
    ASSUME Upi!TypeOK, NEW p \in Requests,
           upiProc' = [upiProc EXCEPT ![p].pc = "gate2", ![p].claimed = TRUE]
    PROVE  /\ UpiMoved(p) /\ UpiSame(upiProc'[p], upiProc[p]) /\ upiProc'[p].pc = "gate2"
           /\ upiProc'[p].print = upiProc[p].print /\ upiProc'[p].claimed
           /\ upiProc'[p].live = upiProc[p].live
<1>. DEFINE h == [upiProc[p] EXCEPT !.pc = "gate2", !.claimed = TRUE]
<1>1. upiProc[p] \in Upi!Locals
  BY UpiTyped
<1>2. h \in Upi!Locals
  BY <1>1 DEF Upi!Locals, Upi!Steps, Upi!Seconds
<1>3. /\ UpiSame(h, upiProc[p]) /\ h.pc = "gate2" /\ h.print = upiProc[p].print
      /\ h.claimed /\ h.live = upiProc[p].live
  BY <1>1 DEF Upi!Locals, UpiSame
<1>4. upiProc' = [upiProc EXCEPT ![p] = h]
  BY DEF Upi!TypeOK
<1>. HIDE DEF h
<1>5. UpiMoved(p) /\ upiProc'[p] = h
  BY <1>2, <1>4, UpiBecomesMoves
<1>. QED BY <1>3, <1>5

LEMMA UpiFetchMoves ==
    ASSUME Upi!TypeOK, NEW p \in Requests,
           NEW v \in Upi!Payers \cup {Upi!Nothing, Upi!Outside, Upi!Dead, "unreachable"},
           upiProc' = [upiProc EXCEPT ![p].pc = "apply", ![p].live = v]
    PROVE  /\ UpiMoved(p) /\ UpiSame(upiProc'[p], upiProc[p]) /\ upiProc'[p].pc = "apply"
           /\ upiProc'[p].print = upiProc[p].print /\ upiProc'[p].claimed = upiProc[p].claimed
           /\ upiProc'[p].live = v
<1>. DEFINE h == [upiProc[p] EXCEPT !.pc = "apply", !.live = v]
<1>1. upiProc[p] \in Upi!Locals
  BY UpiTyped
<1>2. h \in Upi!Locals
  BY <1>1 DEF Upi!Locals, Upi!Steps, Upi!Eithers
<1>3. /\ UpiSame(h, upiProc[p]) /\ h.pc = "apply" /\ h.print = upiProc[p].print
      /\ h.claimed = upiProc[p].claimed /\ h.live = v
  BY <1>1 DEF Upi!Locals, UpiSame
<1>4. upiProc' = [upiProc EXCEPT ![p] = h]
  BY DEF Upi!TypeOK
<1>. HIDE DEF h
<1>5. UpiMoved(p) /\ upiProc'[p] = h
  BY <1>2, <1>4, UpiBecomesMoves
<1>. QED BY <1>3, <1>5

-----------------------------------------------------------------------------
\* What no step takes back.
UpiStable ==
    /\ \A o \in Upi!Orders : /\ upiRec[o].st # "absent" => upiRec'[o].st # "absent"
                             /\ upiRec[o].phase # "not_started" => upiRec'[o].phase # "not_started"
                             /\ upiRec[o].print \in Prints => upiRec'[o].print = upiRec[o].print
    /\ \A o \in V1 : upiClaim = o => upiClaim' = o
    /\ \A o \in V2 : /\ upiRec[o].st = "failed" => upiRec'[o].st = "failed"
                     /\ upiClaim = o /\ upiRec'[o].st # "failed" => upiClaim' = o
    /\ upiSettled # Upi!Nothing => upiSettled' = upiSettled

\* The order of a running request is not spent and not failed by others.
UpiSpared(r) == /\ r.order \in Upi!Orders /\ Upi!Runs(r) /\ r.order \in upiSpent' => r.order \in upiSpent
                /\ r.order \in V2 /\ Upi!Runs(r) /\ upiRec'[r.order].st = "failed" => upiRec[r.order].st = "failed"

LEMMA UpiIdleFine == Upi!Fine(Upi!Idle) /\ Upi!Fine(Upi!Idle)' /\ ~Upi!Runs(Upi!Idle)
<1>1. Upi!Idle.order \notin V1 /\ Upi!Idle.order \notin V2
  BY UpiIdleTyped, UpiNames DEF Upi!Orders
<1>. QED BY <1>1, UpiIdleTyped DEF Upi!Fine, Upi!Serves, Upi!Seen, Upi!Polled, Upi!Runs,
     Upi!Firsts, Upi!Seconds, Upi!Eithers

\* Requests that do not move stay fine.
LEMMA UpiOthersFine ==
    ASSUME Upi!IInv, UpiStable, NEW q \in Requests, upiProc'[q] = upiProc[q], UpiSpared(upiProc[q]),
           upiPresumed \subseteq upiPresumed'
    PROVE  Upi!Fine(upiProc[q])'
<1>. DEFINE r == upiProc[q]
<1>1. Upi!Fine(r) /\ r \in Upi!Locals
  BY UpiTyped DEF Upi!IInv
<1>2. Upi!Serves(upiProc[q])'
  BY <1>1 DEF Upi!Fine, Upi!Serves
<1>3. ASSUME r.order \in V1 PROVE Upi!Req1(upiProc[q])'
  <2>1. Upi!Req1(r) /\ r.order \in Upi!Orders /\ (upiClaim = r.order => upiClaim' = r.order)
    BY <1>1, <1>3 DEF Upi!Fine, UpiStable, Upi!Orders
  <2>2. upiRec[r.order].st # "absent" => upiRec'[r.order].st # "absent"
    BY <1>3 DEF UpiStable, Upi!Orders
  <2>3. r.pc \in {"claim1", "start", "execute"} => r.order \notin upiSpent'
    BY <2>1, <1>3 DEF Upi!Req1, UpiSpared, Upi!Runs, Upi!Orders
  <2>4. r.pc = "fail" => r.order \notin upiSpent' \/ Upi!Presumed(r.order)'
    BY <2>1, <1>3 DEF Upi!Req1, UpiSpared, Upi!Runs, Upi!Orders, Upi!Presumed
  <2>. QED BY <1>1, <1>3, <2>1, <2>2, <2>3, <2>4 DEF Upi!Req1, Upi!Fine, UpiStable
<1>4. ASSUME r.order \in V2 PROVE Upi!Req2(upiProc[q])'
  <2>1. Upi!Req2(r) /\ r.order \in Upi!Orders
    BY <1>1, <1>4 DEF Upi!Fine, Upi!Orders
  <2>2. /\ upiRec[r.order].phase # "not_started" => upiRec'[r.order].phase # "not_started"
        /\ upiRec[r.order].st = "failed" => upiRec'[r.order].st = "failed"
        /\ upiClaim = r.order /\ upiRec'[r.order].st # "failed" => upiClaim' = r.order
    BY <1>4, <2>1 DEF UpiStable
  <2>3. r.pc \in {"call", "mismatch"} => r.order \notin upiSpent' /\ upiRec'[r.order].st # "failed"
    BY <2>1, <1>4 DEF Upi!Req2, UpiSpared, Upi!Runs
  <2>. QED BY <2>1, <2>2, <2>3 DEF Upi!Req2
<1>5. Upi!Seen(upiProc[q])'
  BY <1>1 DEF Upi!Fine, Upi!Seen, UpiStable, Upi!Serves, Upi!Orders, Upi!Seconds
<1>6. Upi!Polled(upiProc[q])'
  BY <1>1 DEF Upi!Fine, Upi!Polled, UpiStable
<1>. QED BY <1>2, <1>3, <1>4, <1>5, <1>6 DEF Upi!Fine

\* The records of other orders.
LEMMA UpiRowOther1 ==
    ASSUME Upi!IInv, UpiStable, NEW o \in V1, upiRec'[o] = upiRec[o],
           o \in upiSpent' => o \in upiSpent,
           upiPresumed \subseteq upiPresumed', Upi!Executing(o)' => Upi!Executing(o)
    PROVE  Upi!Row1(o)'
<1>1. Upi!Row1(o) /\ (upiClaim = o => upiClaim' = o)
  BY DEF Upi!IInv, UpiStable
<1>2. upiSettled \notin {Upi!Nothing, o} => upiSettled' \notin {Upi!Nothing, o}
  BY DEF UpiStable
<1>. HIDE DEF Upi!Executing
<1>. QED BY <1>1, <1>2 DEF Upi!Row1, Upi!Presumed

LEMMA UpiRowOther2 ==
    ASSUME Upi!IInv, UpiStable, NEW o \in V2, upiRec'[o] = upiRec[o],
           o \in upiSpent' => o \in upiSpent
    PROVE  Upi!Row2(o)'
<1>1. Upi!Row2(o) /\ (upiClaim = o /\ upiRec'[o].st # "failed" => upiClaim' = o)
  BY DEF Upi!IInv, UpiStable
<1>. QED BY <1>1 DEF Upi!Row2

LEMMA UpiExecutingRuns ==
    ASSUME NEW o \in V1
    PROVE  /\ Upi!Executing(o) <=> \E q \in Requests : Upi!Runs(upiProc[q]) /\ upiProc[q].order = o
           /\ Upi!Executing(o)' <=> \E q \in Requests : Upi!Runs(upiProc'[q]) /\ upiProc'[q].order = o
  BY UpiNames DEF Upi!Executing, Upi!Runs

\* Nobody starts to run an order: either p does not run it or it already did.
UpiContinues(p) == Upi!Runs(upiProc'[p]) => Upi!Runs(upiProc[p]) /\ upiProc'[p].order = upiProc[p].order

LEMMA UpiNoNewRunner ==
    ASSUME NEW p \in Requests, UpiMoved(p), UpiContinues(p), NEW o \in V1
    PROVE  Upi!Executing(o)' => Upi!Executing(o)
<1>1. ASSUME NEW q \in Requests, Upi!Runs(upiProc'[q]), upiProc'[q].order = o
      PROVE  Upi!Runs(upiProc[q]) /\ upiProc[q].order = o
  BY <1>1 DEF UpiMoved, UpiContinues
<1>. HIDE DEF Upi!Executing, Upi!Runs
<1>. QED BY <1>1, UpiExecutingRuns

LEMMA UpiOneRunsKept ==
    ASSUME Upi!IInv, NEW p \in Requests, UpiMoved(p), UpiContinues(p)
    PROVE  Upi!OneRuns'
<1>1. \A q \in Requests : Upi!Runs(upiProc'[q]) => Upi!Runs(upiProc[q]) /\ upiProc'[q].order = upiProc[q].order
  BY DEF UpiMoved, UpiContinues
<1>. HIDE DEF Upi!Runs
<1>2. Upi!OneRuns
  BY DEF Upi!IInv
<1>. QED BY <1>1, <1>2 DEF Upi!OneRuns

\* A step of request p that leaves records, claim and money alone.
LEMMA UpiQuietStep ==
    ASSUME Upi!IInv, NEW p \in Requests, UpiMoved(p), UNCHANGED <<upiRec, upiClaim, Upi!world,
           Upi!history>>,
           upiLeft' \in [{"change", "poll", "fault"} -> Nat],
           UpiContinues(p), Upi!Fine(upiProc[p])'
    PROVE  Upi!IInv'
<1>1. Upi!TypeOK'
  BY DEF Upi!IInv, Upi!TypeOK, UpiMoved, Upi!world, Upi!history
<1>2. UpiStable
  BY DEF UpiStable, Upi!world
<1>3. ASSUME NEW q \in Requests PROVE Upi!Fine(upiProc[q])'
  <2>1. CASE q = p
    BY <2>1
  <2>2. CASE q # p
    <3>1. upiProc'[q] = upiProc[q] /\ UpiSpared(upiProc[q]) /\ upiPresumed' = upiPresumed
      BY <2>2 DEF UpiMoved, UpiSpared, Upi!world, Upi!history
    <3>. QED BY <3>1, <1>2, UpiOthersFine
  <2>. QED BY <2>1, <2>2
<1>4. ASSUME NEW o \in V1 PROVE Upi!Row1(o)'
  <2>1. Upi!Executing(o)' => Upi!Executing(o)
    BY UpiNoNewRunner
  <2>. HIDE DEF Upi!Executing
  <2>. QED BY <2>1, <1>2, UpiRowOther1 DEF Upi!world, Upi!history
<1>5. ASSUME NEW o \in V2 PROVE Upi!Row2(o)'
  BY <1>2, UpiRowOther2 DEF Upi!world
<1>6. Upi!OneRuns'
  BY UpiOneRunsKept
<1>7. \A s \in upiSpent' : upiClaim' = s
  BY DEF Upi!IInv, Upi!world
<1>8. \A o \in Upi!Orders : Upi!Frozen(o)'
  BY DEF Upi!IInv, Upi!Frozen, Upi!history
<1>. QED BY <1>1, <1>3, <1>4, <1>5, <1>6, <1>7, <1>8 DEF Upi!IInv

\* A step of request p that may change the record of o, the claim and the money.
LEMMA UpiStepOn ==
    ASSUME Upi!IInv, NEW p \in Requests, NEW o \in Upi!Orders, UpiMoved(p), Upi!TypeOK', UpiStable,
           Upi!Fine(upiProc[p])',
           \A x \in Upi!Orders \ {o} : upiRec'[x] = upiRec[x],
           upiSpent' \subseteq upiSpent \cup {o}, upiPresumed \subseteq upiPresumed',
           \A q \in Requests \ {p} : UpiSpared(upiProc[q]),
           \A x \in V1 \ {o} : Upi!Executing(x)' => Upi!Executing(x),
           Upi!OneRuns', o \in V1 => Upi!Row1(o)', o \in V2 => Upi!Row2(o)',
           \A s \in upiSpent' : upiClaim' = s, \A x \in Upi!Orders : Upi!Frozen(x)'
    PROVE  Upi!IInv'
<1>1. ASSUME NEW q \in Requests PROVE Upi!Fine(upiProc[q])'
  <2>1. CASE q = p
    BY <2>1
  <2>2. CASE q # p
    <3>1. upiProc'[q] = upiProc[q] /\ UpiSpared(upiProc[q])
      BY <2>2 DEF UpiMoved
    <3>. QED BY <3>1, UpiOthersFine
  <2>. QED BY <2>1, <2>2
<1>2. ASSUME NEW x \in V1 PROVE Upi!Row1(x)'
  <2>1. CASE x = o
    BY <2>1
  <2>2. CASE x # o
    <3>1. upiRec'[x] = upiRec[x] /\ (x \in upiSpent' => x \in upiSpent) /\ (Upi!Executing(x)' => Upi!Executing(x))
      BY <2>2 DEF Upi!Orders
    <3>. HIDE DEF Upi!Executing
    <3>. QED BY <3>1, UpiRowOther1
  <2>. QED BY <2>1, <2>2
<1>3. ASSUME NEW x \in V2 PROVE Upi!Row2(x)'
  <2>1. CASE x = o
    BY <2>1
  <2>2. CASE x # o
    <3>1. upiRec'[x] = upiRec[x] /\ (x \in upiSpent' => x \in upiSpent)
      BY <2>2 DEF Upi!Orders
    <3>. QED BY <3>1, UpiRowOther2
  <2>. QED BY <2>1, <2>2
<1>. QED BY <1>1, <1>2, <1>3 DEF Upi!IInv

-----------------------------------------------------------------------------
\* Requests that only go on.
LEMMA UpiDoneQuiet ==
    ASSUME Upi!IInv, NEW p \in Requests, Upi!Done(p), UNCHANGED <<upiRec, upiClaim, Upi!world,
           Upi!history>>,
           upiLeft' \in [{"change", "poll", "fault"} -> Nat]
    PROVE  Upi!IInv'
<1>1. UpiMoved(p) /\ upiProc'[p] = Upi!Idle
  BY UpiDoneMoves DEF Upi!IInv
<1>2. Upi!Fine(upiProc[p])' /\ UpiContinues(p)
  BY <1>1, UpiIdleFine DEF UpiContinues
<1>. QED BY <1>1, <1>2, UpiQuietStep

LEMMA UpiLeftTyped == ASSUME Upi!IInv PROVE upiLeft \in [{"change", "poll", "fault"} -> Nat]
  BY DEF Upi!IInv, Upi!TypeOK

LEMMA UpiSpendTyped ==
    ASSUME Upi!IInv, NEW b \in {"change", "poll", "fault"}, Upi!Spend(b)
    PROVE  upiLeft' \in [{"change", "poll", "fault"} -> Nat]
  BY UpiLeftTyped DEF Upi!Spend

LEMMA UpiReceive1Step == ASSUME Upi!IInv, NEW p \in Requests, NEW o \in V1, Upi!Receive1(p,
o) PROVE Upi!IInv'
<1>1. PICK pre \in BOOLEAN :
        upiProc' = [upiProc EXCEPT ![p] = [Upi!Idle EXCEPT !.pc = "create", !.order = o, !.pre = pre]]
  BY DEF Upi!Receive1
<1>. DEFINE r == [Upi!Idle EXCEPT !.pc = "create", !.order = o, !.pre = pre]
<1>2. r \in Upi!Locals
  BY UpiIdleTyped DEF Upi!Locals, Upi!Orders, Upi!Steps, Upi!Firsts
<1>3. r.pc = "create" /\ r.order = o
  BY DEF Upi!Idle
<1>. HIDE DEF r
<1>4. UpiMoved(p) /\ upiProc'[p] = r
  BY <1>1, <1>2, UpiBecomesMoves DEF Upi!IInv, r
<1>5. Upi!Fine(upiProc[p])' /\ UpiContinues(p)
  BY <1>3, <1>4, UpiNames
     DEF Upi!Fine, Upi!Serves, Upi!Req1, Upi!Seen, Upi!Polled, UpiContinues, Upi!Runs, Upi!Firsts,
         Upi!Seconds, Upi!Eithers
<1>. QED BY <1>4, <1>5, UpiQuietStep, UpiLeftTyped DEF Upi!Receive1

LEMMA UpiSkipStep == ASSUME Upi!IInv, NEW p \in Requests, Upi!Skip(p) PROVE Upi!IInv'
  BY UpiDoneQuiet, UpiLeftTyped DEF Upi!Skip

LEMMA UpiDieStep == ASSUME Upi!IInv, NEW p \in Requests, Upi!Die(p) PROVE Upi!IInv'
  BY UpiDoneQuiet, UpiSpendTyped DEF Upi!Die

LEMMA UpiLoadStep == ASSUME Upi!IInv, NEW p \in Requests, NEW o \in Upi!Orders, Upi!Load(p,
o) PROVE Upi!IInv'
<1>. DEFINE r == [Upi!Idle EXCEPT !.pc = "fetch", !.order = o, !.snap = upiRec[o]]
<1>1. upiRec[o] \in Upi!Records
  BY DEF Upi!IInv, Upi!TypeOK
<1>2. r \in Upi!Locals
  BY UpiIdleTyped, <1>1 DEF Upi!Locals, Upi!Steps, Upi!Eithers
<1>3. r.pc = "fetch" /\ r.order = o /\ r.snap = upiRec[o] /\ r.claimed = FALSE
  BY DEF Upi!Idle
<1>4. upiProc' = [upiProc EXCEPT ![p] = r]
  BY DEF Upi!Load
<1>. HIDE DEF r
<1>5. UpiMoved(p) /\ upiProc'[p] = r
  BY <1>2, <1>4, UpiBecomesMoves DEF Upi!IInv
<1>6. upiLeft' \in [{"change", "poll", "fault"} -> Nat]
  BY UpiSpendTyped, UpiLeftTyped DEF Upi!Load
<1>7. upiRec[o].st \in {"queued", "processing", "unknown"}
  <2>1. upiRec[o].st = "absent" => upiRec[o] = Upi!Absent
    BY DEF Upi!IInv, Upi!Row1, Upi!Presumed, Upi!Row2, Upi!Orders
  <2>. QED BY <2>1, <1>1 DEF Upi!Load, Upi!Terminal, Upi!Records
<1>8. o \in V1 /\ upiRec[o].st # "queued" => upiClaim = o
  BY <1>7 DEF Upi!IInv, Upi!Row1, Upi!Presumed
<1>9. UpiContinues(p)
  BY <1>5, <1>3 DEF UpiContinues, Upi!Runs
<1>10. UNCHANGED <<upiRec, upiClaim, Upi!world, Upi!history>>
  BY DEF Upi!Load
<1>11. Upi!Fine(upiProc[p])'
  BY <1>3, <1>5, <1>7, <1>8, <1>10, UpiNames
     DEF Upi!Fine, Upi!Serves, Upi!Req1, Upi!Req2, Upi!Seen, Upi!Polled, Upi!Firsts, Upi!Seconds,
         Upi!Eithers
<1>. QED BY <1>5, <1>6, <1>9, <1>10, <1>11, UpiQuietStep

LEMMA UpiFetchStep == ASSUME Upi!IInv, NEW p \in Requests, Upi!Fetch(p) PROVE Upi!IInv'
<1>1. PICK v \in {upiSettled, "unreachable"} :
        upiProc' = [upiProc EXCEPT ![p].pc = "apply", ![p].live = v]
  BY DEF Upi!Fetch
<1>2. v \in Upi!Payers \cup {Upi!Nothing, Upi!Outside, Upi!Dead, "unreachable"}
  BY DEF Upi!IInv, Upi!TypeOK
<1>3. /\ UpiMoved(p) /\ UpiSame(upiProc'[p], upiProc[p]) /\ upiProc'[p].pc = "apply"
      /\ upiProc'[p].claimed = upiProc[p].claimed /\ upiProc'[p].live = v
  BY <1>1, <1>2, UpiFetchMoves DEF Upi!IInv
<1>4. UNCHANGED <<upiRec, upiClaim, Upi!world, Upi!history, upiLeft>> /\ upiProc[p].pc = "fetch"
  BY DEF Upi!Fetch, Upi!At
<1>5. Upi!Fine(upiProc[p])
  BY DEF Upi!IInv
<1>6. upiSettled' = upiSettled
  BY <1>4 DEF Upi!world
<1>7. Upi!Fine(upiProc[p])' /\ UpiContinues(p)
  BY <1>3, <1>4, <1>5, <1>6
     DEF Upi!Fine, Upi!Serves, Upi!Req1, Upi!Req2, Upi!Seen, Upi!Polled, UpiContinues, Upi!Runs,
         UpiSame, Upi!Firsts, Upi!Seconds, Upi!Eithers
<1>. QED BY <1>3, <1>4, <1>7, UpiQuietStep, UpiLeftTyped

\* A request that goes on at l in the second protocol, where nothing is asked of it
\* that was not asked before.
LEMMA UpiGateStep == ASSUME Upi!IInv, NEW p \in Requests,
Upi!Gate1(p) \/ Upi!Gate2(p) PROVE Upi!IInv'
<1>1. PICK l \in {"freeze", "acquire"} :
        /\ Upi!Gate(p, l) /\ (l = "freeze" => upiProc[p].pc = "gate1")
        /\ (l = "acquire" => upiProc[p].pc = "gate2")
        /\ UNCHANGED <<upiRec, upiClaim, Upi!world, Upi!history, upiLeft>>
  BY DEF Upi!Gate1, Upi!Gate2, Upi!At
<1>2. Upi!Fine(upiProc[p]) /\ Upi!TypeOK /\ upiProc[p] \in Upi!Locals
  BY UpiTyped DEF Upi!IInv
<1>3. upiProc[p].order \in V2 /\ upiProc[p].order \in Upi!Orders
  BY <1>1, <1>2 DEF Upi!Fine, Upi!Serves, Upi!Seconds, Upi!Orders
<1>4. CASE /\ upiSettled = Upi!Nothing /\ upiProc[p].print \in {Upi!Nothing, upiPrint}
           /\ upiProc' = [upiProc EXCEPT ![p].pc = l, ![p].print = upiPrint]
  <2>1. upiPrint \in Prints /\ l \in Upi!Steps
    BY <1>2 DEF Upi!TypeOK, Upi!Steps, Upi!Seconds
  <2>2. /\ UpiMoved(p) /\ UpiSame(upiProc'[p], upiProc[p]) /\ upiProc'[p].pc = l
        /\ upiProc'[p].print = upiPrint /\ upiProc'[p].claimed = upiProc[p].claimed
    <3>1. PICK v \in Prints : v = upiPrint
      BY <2>1
    <3>2. upiProc' = [upiProc EXCEPT ![p].pc = l, ![p].print = v]
      BY <1>4, <3>1
    <3>3. /\ UpiMoved(p) /\ UpiSame(upiProc'[p], upiProc[p]) /\ upiProc'[p].pc = l
          /\ upiProc'[p].print = v /\ upiProc'[p].claimed = upiProc[p].claimed
      BY <1>2, <2>1, <3>2, UpiPrintMoves
    <3>. QED BY <3>1, <3>3
  <2>3. l = "acquire" => upiProc'[p].print = upiRec[upiProc[p].order].print
    BY <1>1, <1>2, <1>4, <2>2, UpiNames DEF Upi!Fine, Upi!Seen
  <2>4. Upi!Fine(upiProc[p])' /\ UpiContinues(p)
    BY <1>1, <1>2, <1>3, <2>1, <2>2, <2>3, UpiNames
       DEF Upi!Fine, Upi!Serves, Upi!Req1, Upi!Req2, Upi!Seen, Upi!Polled, UpiContinues, Upi!Runs,
           UpiSame, Upi!Firsts, Upi!Seconds, Upi!Eithers
  <2>. QED BY <1>1, <2>2, <2>4, UpiQuietStep, UpiLeftTyped
<1>5. CASE Upi!Go(p, "refuse")
  <2>1. "refuse" \in Upi!Steps
    BY DEF Upi!Steps, Upi!Seconds
  <2>2. /\ UpiMoved(p) /\ UpiSame(upiProc'[p], upiProc[p]) /\ upiProc'[p].pc = "refuse"
        /\ upiProc'[p].claimed = upiProc[p].claimed
    BY <1>2, <1>5, <2>1, UpiGoMoves
  <2>3. Upi!Fine(upiProc[p])' /\ UpiContinues(p)
    BY <1>1, <1>2, <1>3, <2>2, UpiNames
       DEF Upi!Fine, Upi!Serves, Upi!Req1, Upi!Req2, Upi!Seen, Upi!Polled, UpiContinues, Upi!Runs,
           UpiSame, Upi!Firsts, Upi!Seconds, Upi!Eithers
  <2>. QED BY <1>1, <2>2, <2>3, UpiQuietStep, UpiLeftTyped
<1>6. CASE Upi!Done(p)
  BY <1>1, <1>6, UpiDoneQuiet, UpiLeftTyped
<1>. QED BY <1>1, <1>4, <1>5, <1>6 DEF Upi!Gate

-----------------------------------------------------------------------------
\* The first protocol.
LEMMA UpiTransitionRec ==
    ASSUME Upi!TypeOK, NEW o \in Upi!Orders,
           NEW st \in {"queued", "processing", "unknown", "paid", "failed"}, Upi!Transition(o, st)
    PROVE  /\ upiRec' \in [Upi!Orders -> Upi!Records]
           /\ \A x \in Upi!Orders \ {o} : upiRec'[x] = upiRec[x]
           /\ upiRec'[o].st = IF Upi!Terminal(upiRec[o]) THEN upiRec[o].st ELSE st
           /\ upiRec'[o].phase = upiRec[o].phase /\ upiRec'[o].print = upiRec[o].print
<1>. DEFINE h == [upiRec[o] EXCEPT !.st = IF Upi!Terminal(upiRec[o]) THEN upiRec[o].st ELSE st]
<1>1. upiRec \in [Upi!Orders -> Upi!Records] /\ upiRec[o] \in Upi!Records
  BY DEF Upi!TypeOK
<1>2. h \in Upi!Records
  BY <1>1 DEF Upi!Records
<1>3. /\ h.st = IF Upi!Terminal(upiRec[o]) THEN upiRec[o].st ELSE st
      /\ h.phase = upiRec[o].phase /\ h.print = upiRec[o].print
  BY <1>1 DEF Upi!Records
<1>4. upiRec' = [upiRec EXCEPT ![o] = h]
  BY <1>1 DEF Upi!Transition
<1>. HIDE DEF h
<1>5. upiRec'[o] = h /\ upiRec' \in [Upi!Orders -> Upi!Records] /\ \A x \in Upi!Orders \ {o} : upiRec'[x] = upiRec[x]
  BY <1>1, <1>2, <1>4
<1>. QED BY <1>3, <1>5

\* A transition of an order of the first protocol by a request that does not
\* start to run one.
LEMMA UpiTransition1 ==
    ASSUME Upi!IInv, NEW p \in Requests, NEW o \in V1, UpiMoved(p), UpiContinues(p),
           Upi!Fine(upiProc[p])',
           NEW st \in {"queued", "processing", "unknown", "paid", "failed"}, Upi!Transition(o, st),
           UNCHANGED <<upiClaim, Upi!world, upiFirst, upiCalled, upiLeft>>,
           upiPresumed \subseteq upiPresumed', upiPresumed' \subseteq UpiWords, Upi!Row1(o)'
    PROVE  Upi!IInv'
<1>1. o \in Upi!Orders /\ o \notin V2 /\ Upi!TypeOK
  BY UpiNames DEF Upi!Orders, Upi!IInv
<1>2. /\ upiRec' \in [Upi!Orders -> Upi!Records]
      /\ \A x \in Upi!Orders \ {o} : upiRec'[x] = upiRec[x]
      /\ upiRec'[o].st = IF Upi!Terminal(upiRec[o]) THEN upiRec[o].st ELSE st
      /\ upiRec'[o].phase = upiRec[o].phase /\ upiRec'[o].print = upiRec[o].print
  BY <1>1, UpiTransitionRec
<1>3. Upi!TypeOK'
  BY <1>1, <1>2 DEF Upi!TypeOK, UpiWords, UpiMoved, Upi!world
<1>4. UpiStable
  BY <1>1, <1>2 DEF UpiStable, Upi!Orders, Upi!world
<1>5. \A q \in Requests \ {p} : UpiSpared(upiProc[q])
  BY <1>1, <1>2 DEF UpiSpared, Upi!Orders, Upi!world
<1>6. \A x \in V1 \ {o} : Upi!Executing(x)' => Upi!Executing(x)
  BY UpiNoNewRunner
<1>7. Upi!OneRuns'
  BY UpiOneRunsKept
<1>8. \A x \in Upi!Orders : Upi!Frozen(x)'
  BY <1>1, <1>2 DEF Upi!IInv, Upi!Frozen
<1>9. upiSpent' = upiSpent /\ \A s \in upiSpent' : upiClaim' = s
  BY DEF Upi!IInv, Upi!world
<1>. HIDE DEF Upi!Executing
<1>. QED BY <1>1, <1>2, <1>3, <1>4, <1>5, <1>6, <1>7, <1>8, <1>9, UpiStepOn

\* The record goes to a state in which the claim is the order's.
LEMMA UpiRowClaimed ==
    ASSUME Upi!IInv, NEW p \in Requests, NEW o \in V1, UpiMoved(p), UpiContinues(p),
           NEW st \in {"processing", "unknown", "paid"}, Upi!Transition(o, st),
           UNCHANGED <<upiClaim, Upi!world>>, upiPresumed \subseteq upiPresumed', upiClaim = o
    PROVE  Upi!Row1(o)'
<1>1. o \in Upi!Orders /\ Upi!TypeOK /\ Upi!Row1(o)
  BY DEF Upi!IInv, Upi!Orders
<1>2. upiRec'[o].st = IF Upi!Terminal(upiRec[o]) THEN upiRec[o].st ELSE st
  BY <1>1, UpiTransitionRec
<1>3. Upi!Executing(o)' => Upi!Executing(o)
  BY UpiNoNewRunner
<1>4. upiRec'[o].st # "absent" /\ (upiRec'[o].st = "failed" => upiRec[o].st = "failed")
  BY <1>2 DEF Upi!Terminal
<1>. HIDE DEF Upi!Executing
<1>. QED BY <1>1, <1>3, <1>4 DEF Upi!Row1, Upi!Presumed, Upi!world

LEMMA UpiCreate1Step == ASSUME Upi!IInv, NEW p \in Requests, Upi!Create1(p) PROVE Upi!IInv'
<1>0. PICK o : o = Upi!Order(p)
  OBVIOUS
<1>1. /\ upiProc[p].pc = "create" /\ Upi!TypeOK /\ Upi!Fine(upiProc[p]) /\ upiProc[p] \in Upi!Locals
      /\ UNCHANGED <<upiClaim, Upi!world, Upi!history, upiLeft>>
  BY UpiTyped DEF Upi!Create1, Upi!At, Upi!IInv
<1>2. o \in V1 /\ o \in Upi!Orders /\ o \notin V2 /\ o = upiProc[p].order
  BY <1>0, <1>1, UpiNames DEF Upi!Fine, Upi!Serves, Upi!Firsts, Upi!Orders, Upi!Order
<1>3. CASE upiRec[o] = Upi!Absent
  <2>. DEFINE l == IF upiProc[p].pre THEN "fail" ELSE "claim1"
              h == [upiRec[o] EXCEPT !.st = "queued"]
  <2>1. upiRec' = [upiRec EXCEPT ![o] = h] /\ Upi!Go(p, l) /\ l \in Upi!Steps /\ l \in {"fail", "claim1"}
    BY <1>0, <1>3 DEF Upi!Create1, Upi!Steps, Upi!Firsts
  <2>2. h \in Upi!Records /\ h.st = "queued" /\ h.phase = upiRec[o].phase /\ h.print = upiRec[o].print
    BY <1>1, <1>2 DEF Upi!TypeOK, Upi!Records
  <2>. HIDE DEF l, h
  <2>3. /\ upiRec' \in [Upi!Orders -> Upi!Records] /\ upiRec'[o] = h
        /\ \A x \in Upi!Orders \ {o} : upiRec'[x] = upiRec[x]
    BY <1>1, <1>2, <2>1, <2>2 DEF Upi!TypeOK
  <2>4. /\ UpiMoved(p) /\ UpiSame(upiProc'[p], upiProc[p]) /\ upiProc'[p].pc = l
        /\ upiProc'[p].claimed = upiProc[p].claimed
    BY <1>1, <2>1, UpiGoMoves
  <2>5. Upi!TypeOK'
    BY <1>1, <2>3, <2>4 DEF Upi!TypeOK, UpiMoved, Upi!world, Upi!history
  <2>6. upiRec[o].st = "absent" /\ o \notin upiSpent
    <3>1. upiRec[o].st = "absent" /\ Upi!Row1(o)
      BY <1>2, <1>3 DEF Upi!Absent, Upi!IInv
    <3>. QED BY <3>1 DEF Upi!Row1, Upi!Presumed
  <2>7. UpiStable
    BY <1>1, <1>2, <2>2, <2>3, <2>6 DEF UpiStable, Upi!world, Upi!Orders
  <2>8. Upi!Fine(upiProc[p])'
    BY <1>1, <1>2, <2>1, <2>2, <2>3, <2>4, <2>6
       DEF Upi!Fine, Upi!Serves, Upi!Req1, Upi!Seen, Upi!Polled, UpiSame, Upi!Firsts, Upi!Seconds,
           Upi!Eithers, Upi!world
  <2>9. \A q \in Requests \ {p} : UpiSpared(upiProc[q])
    BY <1>1, <1>2, <2>3 DEF UpiSpared, Upi!world, Upi!Orders
  <2>10. \A q \in Requests : ~(Upi!Runs(upiProc[q]) /\ upiProc[q].order = o)
    <3>1. SUFFICES ASSUME NEW q \in Requests, Upi!Runs(upiProc[q]), upiProc[q].order = o PROVE FALSE
      OBVIOUS
    <3>2. Upi!Fine(upiProc[q])
      BY DEF Upi!IInv
    <3>. QED BY <3>1, <3>2, <1>2, <2>6 DEF Upi!Fine, Upi!Req1, Upi!Runs
  <2>11. \A q \in Requests : Upi!Runs(upiProc'[q]) => q = p \/ (Upi!Runs(upiProc[q]) /\ upiProc'[q].order = upiProc[q].order)
    BY <2>4 DEF UpiMoved
  <2>12. Upi!OneRuns' /\ \A x \in V1 \ {o} : Upi!Executing(x)' => Upi!Executing(x)
    <3>1. upiProc'[p].order = o
      BY <2>4, <1>2 DEF UpiSame
    <3>2. Upi!OneRuns
      BY DEF Upi!IInv
    <3>3. \A q \in Requests \ {p} : upiProc'[q] = upiProc[q]
      BY <2>4 DEF UpiMoved
    <3>. HIDE DEF Upi!Runs, Upi!Executing
    <3>4. Upi!OneRuns'
      BY <3>1, <3>2, <3>3, <2>10, <2>11 DEF Upi!OneRuns
    <3>5. \A x \in V1 \ {o} : Upi!Executing(x)' => Upi!Executing(x)
      BY <3>1, <3>3, <2>11, UpiExecutingRuns
    <3>. QED BY <3>4, <3>5
  <2>13. Upi!Row1(o)'
    BY <2>2, <2>3 DEF Upi!Row1, Upi!Presumed
  <2>14. upiSpent' = upiSpent /\ upiPresumed' = upiPresumed /\ \A s \in upiSpent' : upiClaim' = s
    BY <1>1 DEF Upi!IInv, Upi!world, Upi!history
  <2>15. \A x \in Upi!Orders : Upi!Frozen(x)'
    BY <1>1, <2>2, <2>3 DEF Upi!IInv, Upi!Frozen, Upi!history
  <2>. HIDE DEF Upi!Executing
  <2>. QED BY <1>2, <2>3, <2>4, <2>5, <2>7, <2>8, <2>9, <2>12, <2>13, <2>14, <2>15, UpiStepOn
<1>4. CASE upiRec[o] # Upi!Absent
  <2>1. Upi!Done(p) /\ UNCHANGED upiRec
    BY <1>0, <1>4 DEF Upi!Create1
  <2>. QED BY <1>1, <2>1, UpiDoneQuiet, UpiLeftTyped
<1>. QED BY <1>3, <1>4

LEMMA UpiFail1Step == ASSUME Upi!IInv, NEW p \in Requests, Upi!Fail1(p) PROVE Upi!IInv'
<1>0. PICK o : o = Upi!Order(p)
  OBVIOUS
<1>1. /\ upiProc[p].pc = "fail" /\ Upi!TypeOK /\ Upi!Fine(upiProc[p]) /\ upiProc[p] \in Upi!Locals
      /\ UNCHANGED <<upiClaim, Upi!world, Upi!history, upiLeft>> /\ Upi!Transition(o, "failed")
  BY <1>0, UpiTyped DEF Upi!Fail1, Upi!At, Upi!IInv
<1>2. o \in V1 /\ o \in Upi!Orders /\ o = upiProc[p].order
  BY <1>0, <1>1 DEF Upi!Fine, Upi!Serves, Upi!Firsts, Upi!Orders, Upi!Order
<1>3. UpiMoved(p) /\ upiProc'[p] = Upi!Idle
  BY <1>1, UpiDoneMoves DEF Upi!Fail1
<1>4. Upi!Fine(upiProc[p])' /\ UpiContinues(p) /\ ~Upi!Runs(upiProc'[p])
  BY <1>3, UpiIdleFine DEF UpiContinues
<1>5. upiRec'[o].st = IF Upi!Terminal(upiRec[o]) THEN upiRec[o].st ELSE "failed"
  BY <1>1, <1>2, UpiTransitionRec
<1>6. (o \notin upiSpent \/ Upi!Presumed(o)) /\ Upi!Runs(upiProc[p])
  BY <1>1, <1>2 DEF Upi!Fine, Upi!Req1, Upi!Runs
<1>7. ~Upi!Executing(o)'
  <2>1. ASSUME NEW q \in Requests, Upi!Runs(upiProc'[q]), upiProc'[q].order = o PROVE FALSE
    <3>1. q # p
      BY <1>4, <2>1
    <3>2. upiProc'[q] = upiProc[q]
      BY <3>1, <1>3 DEF UpiMoved
    <3>. QED BY <3>1, <3>2, <2>1, <1>2, <1>6 DEF Upi!IInv, Upi!OneRuns
  <2>. HIDE DEF Upi!Runs, Upi!Executing
  <2>. QED BY <2>1, <1>2, UpiExecutingRuns
<1>8. Upi!Row1(o)'
  <2>1. Upi!Row1(o) /\ upiSpent' = upiSpent /\ upiClaim' = upiClaim /\ upiPresumed' = upiPresumed
    BY <1>1, <1>2 DEF Upi!IInv, Upi!world, Upi!history
  <2>. HIDE DEF Upi!Executing
  <2>. QED BY <2>1, <1>5, <1>6, <1>7 DEF Upi!Row1, Upi!Presumed, Upi!Terminal
<1>9. upiPresumed' = upiPresumed /\ upiPresumed \subseteq UpiWords /\ UNCHANGED <<upiFirst, upiCalled>>
  BY <1>1 DEF Upi!history, Upi!TypeOK, UpiWords
<1>. QED BY <1>1, <1>2, <1>3, <1>4, <1>8, <1>9, UpiTransition1

LEMMA UpiStart1Step == ASSUME Upi!IInv, NEW p \in Requests, Upi!Start1(p) PROVE Upi!IInv'
<1>0. PICK o : o = Upi!Order(p)
  OBVIOUS
<1>1. /\ upiProc[p].pc = "start" /\ Upi!TypeOK /\ Upi!Fine(upiProc[p]) /\ upiProc[p] \in Upi!Locals
      /\ UNCHANGED <<upiClaim, Upi!world, Upi!history, upiLeft>> /\ Upi!Transition(o, "processing")
      /\ Upi!Go(p, "execute")
  BY <1>0, UpiTyped DEF Upi!Start1, Upi!At, Upi!IInv
<1>2. o \in V1 /\ o \in Upi!Orders /\ o \notin V2 /\ o = upiProc[p].order
  BY <1>0, <1>1, UpiNames DEF Upi!Fine, Upi!Serves, Upi!Firsts, Upi!Orders, Upi!Order
<1>3. "execute" \in Upi!Steps
  BY DEF Upi!Steps, Upi!Firsts
<1>4. UpiMoved(p) /\ UpiSame(upiProc'[p], upiProc[p]) /\ upiProc'[p].pc = "execute"
  BY <1>1, <1>3, UpiGoMoves
<1>5. upiRec'[o].st = IF Upi!Terminal(upiRec[o]) THEN upiRec[o].st ELSE "processing"
  BY <1>1, <1>2, UpiTransitionRec
<1>6. upiClaim = o /\ o \notin upiSpent /\ upiRec[o].st # "absent"
  BY <1>1, <1>2 DEF Upi!Fine, Upi!Req1
<1>7. Upi!Fine(upiProc[p])' /\ UpiContinues(p)
  BY <1>1, <1>2, <1>4, <1>5, <1>6
     DEF Upi!Fine, Upi!Serves, Upi!Req1, Upi!Seen, Upi!Polled, UpiContinues, Upi!Runs, UpiSame,
         Upi!Firsts, Upi!Seconds, Upi!Eithers, Upi!world
<1>8. upiPresumed' = upiPresumed /\ upiPresumed \subseteq UpiWords /\ UNCHANGED <<upiFirst, upiCalled>>
  BY <1>1 DEF Upi!history, Upi!TypeOK, UpiWords
<1>9. Upi!Row1(o)'
  BY <1>1, <1>2, <1>4, <1>6, <1>7, <1>8, UpiRowClaimed
<1>. QED BY <1>1, <1>2, <1>4, <1>7, <1>8, <1>9, UpiTransition1

\* Taking a claim that is free, or held already, takes it from nobody.
LEMMA UpiClaimTaken ==
    ASSUME Upi!IInv, NEW o \in Upi!Orders, Upi!Claimable(o), upiClaim' = o, UNCHANGED <<upiRec,
           Upi!world>>
    PROVE  UpiStable /\ \A s \in upiSpent' : upiClaim' = s
<1>1. upiClaim \in {Upi!Nothing, o} /\ upiSpent' = upiSpent /\ upiSettled' = upiSettled
  BY DEF Upi!Claimable, Upi!world
<1>2. \A x \in Upi!Orders : upiClaim = x => upiClaim' = x
  BY <1>1, UpiNames
<1>3. ASSUME NEW s \in upiSpent PROVE upiClaim' = s
  <2>1. s \in Upi!Payers /\ upiClaim = s
    BY <1>3 DEF Upi!IInv, Upi!TypeOK
  <2>2. s # Upi!Nothing
    BY <2>1, UpiNames DEF Upi!Payers, Upi!Other, Upi!Nothing
  <2>. QED BY <1>1, <2>1, <2>2
<1>. QED BY <1>1, <1>2, <1>3 DEF UpiStable, Upi!Orders

LEMMA UpiClaim1Step == ASSUME Upi!IInv, NEW p \in Requests, Upi!Claim1(p) PROVE Upi!IInv'
<1>0. PICK o : o = Upi!Order(p)
  OBVIOUS
<1>1. /\ upiProc[p].pc = "claim1" /\ Upi!TypeOK /\ Upi!Fine(upiProc[p]) /\ upiProc[p] \in Upi!Locals
      /\ UNCHANGED <<upiRec, Upi!world, Upi!history, upiLeft>>
  BY UpiTyped DEF Upi!Claim1, Upi!At, Upi!IInv
<1>2. o \in V1 /\ o \in Upi!Orders /\ o \notin V2 /\ o = upiProc[p].order
  BY <1>0, <1>1, UpiNames DEF Upi!Fine, Upi!Serves, Upi!Firsts, Upi!Orders, Upi!Order
<1>3. o \notin upiSpent /\ upiRec[o].st # "absent"
  BY <1>1, <1>2 DEF Upi!Fine, Upi!Req1
<1>4. CASE Upi!Claimable(o)
  <2>1. upiClaim' = o /\ Upi!Go(p, "start") /\ "start" \in Upi!Steps
    BY <1>0, <1>4 DEF Upi!Claim1, Upi!Steps, Upi!Firsts
  <2>2. UpiMoved(p) /\ UpiSame(upiProc'[p], upiProc[p]) /\ upiProc'[p].pc = "start"
    BY <1>1, <2>1, UpiGoMoves
  <2>3. Upi!Fine(upiProc[p])' /\ UpiContinues(p)
    BY <1>1, <1>2, <1>3, <2>1, <2>2
       DEF Upi!Fine, Upi!Serves, Upi!Req1, Upi!Seen, Upi!Polled, UpiContinues, Upi!Runs, UpiSame,
           Upi!Firsts, Upi!Seconds, Upi!Eithers, Upi!world
  <2>4. UpiStable /\ \A s \in upiSpent' : upiClaim' = s
    BY <1>1, <1>2, <1>4, <2>1, UpiClaimTaken
  <2>5. Upi!TypeOK'
    BY <1>1, <1>2, <2>1, <2>2 DEF Upi!TypeOK, UpiMoved, Upi!world, Upi!history, Upi!Payers
  <2>6. \A q \in Requests \ {p} : UpiSpared(upiProc[q])
    BY <1>1 DEF UpiSpared, Upi!world
  <2>7. \A x \in V1 : Upi!Executing(x)' => Upi!Executing(x)
    BY <2>2, <2>3, UpiNoNewRunner
  <2>8. Upi!OneRuns'
    BY <2>2, <2>3, UpiOneRunsKept
  <2>9. upiSpent' = upiSpent /\ upiPresumed' = upiPresumed /\ \A x \in Upi!Orders : Upi!Frozen(x)'
    BY <1>1 DEF Upi!IInv, Upi!Frozen, Upi!world, Upi!history
  <2>. HIDE DEF Upi!Executing
  <2>10. Upi!Row1(o)'
    BY <1>1, <1>2, <2>4, <2>7, <2>9, UpiRowOther1
  <2>. QED BY <1>1, <1>2, <2>2, <2>3, <2>4, <2>5, <2>6, <2>7, <2>8, <2>9, <2>10, UpiStepOn
<1>5. CASE ~Upi!Claimable(o)
  <2>1. Upi!Go(p, "fail") /\ UNCHANGED upiClaim /\ "fail" \in Upi!Steps
    BY <1>0, <1>5 DEF Upi!Claim1, Upi!Steps, Upi!Firsts
  <2>2. UpiMoved(p) /\ UpiSame(upiProc'[p], upiProc[p]) /\ upiProc'[p].pc = "fail"
    BY <1>1, <2>1, UpiGoMoves
  <2>3. Upi!Fine(upiProc[p])' /\ UpiContinues(p)
    BY <1>1, <1>2, <1>3, <2>1, <2>2
       DEF Upi!Fine, Upi!Serves, Upi!Req1, Upi!Seen, Upi!Polled, UpiContinues, Upi!Runs, UpiSame,
           Upi!Firsts, Upi!Seconds, Upi!Eithers, Upi!world
  <2>. QED BY <1>1, <2>1, <2>2, <2>3, UpiQuietStep, UpiLeftTyped
<1>. QED BY <1>4, <1>5

\* Others run other orders.
LEMMA UpiOtherOrders ==
    ASSUME Upi!IInv, NEW p \in Requests, Upi!Runs(upiProc[p]), NEW q \in Requests \ {p},
           Upi!Runs(upiProc[q])
    PROVE  upiProc[q].order # upiProc[p].order
  BY DEF Upi!IInv, Upi!OneRuns

LEMMA UpiExecute1Step == ASSUME Upi!IInv, NEW p \in Requests, Upi!Execute1(p) PROVE Upi!IInv'
<1>0. PICK o : o = Upi!Order(p)
  OBVIOUS
<1>1. /\ upiProc[p].pc = "execute" /\ Upi!TypeOK /\ Upi!Fine(upiProc[p]) /\ upiProc[p] \in Upi!Locals
      /\ UNCHANGED <<upiRec, upiClaim, upiSettled, upiPrint, upiFirst, upiCalled, upiLeft>>
  BY UpiTyped DEF Upi!Execute1, Upi!At, Upi!IInv, Upi!history
<1>2. o \in V1 /\ o \in Upi!Orders /\ o \notin V2 /\ o = upiProc[p].order
  BY <1>0, <1>1, UpiNames DEF Upi!Fine, Upi!Serves, Upi!Firsts, Upi!Orders, Upi!Order
<1>3. o \notin upiSpent /\ upiRec[o].st # "absent" /\ upiClaim = o /\ Upi!Runs(upiProc[p])
  BY <1>1, <1>2 DEF Upi!Fine, Upi!Req1, Upi!Runs
<1>4. PICK l \in {"fail", "accepted", "ambiguous"} :
        /\ Upi!Go(p, l) /\ upiSpent' \in {upiSpent, upiSpent \cup {o}}
        /\ upiPresumed' \in {upiPresumed, upiPresumed \cup {<<o, "answer">>}}
        /\ l = "fail" => upiSpent' = upiSpent \/ <<o, "answer">> \in upiPresumed'
  BY <1>0 DEF Upi!Execute1
<1>18. /\ upiPresumed \subseteq upiPresumed'
       /\ upiPresumed' \subseteq Upi!Orders \X {"poll", "answer"}
       /\ l = "fail" => o \notin upiSpent' \/ Upi!Presumed(o)'
  BY <1>1, <1>2, <1>3, <1>4 DEF Upi!TypeOK, Upi!Presumed
<1>5. l \in Upi!Steps
  BY <1>4 DEF Upi!Steps, Upi!Firsts, Upi!Eithers
<1>6. UpiMoved(p) /\ UpiSame(upiProc'[p], upiProc[p]) /\ upiProc'[p].pc = l
  BY <1>1, <1>4, <1>5, UpiGoMoves
<1>7. Upi!Fine(upiProc[p])' /\ UpiContinues(p)
  BY <1>1, <1>2, <1>3, <1>4, <1>6, <1>18
     DEF Upi!Fine, Upi!Serves, Upi!Req1, Upi!Seen, Upi!Polled, UpiContinues, Upi!Runs, UpiSame,
         Upi!Firsts, Upi!Seconds, Upi!Eithers
<1>8. \A s \in upiSpent' : upiClaim' = s
  BY <1>1, <1>3, <1>4 DEF Upi!IInv
<1>9. Upi!TypeOK'
  BY <1>1, <1>2, <1>4, <1>6, <1>18 DEF Upi!TypeOK, UpiMoved, Upi!Payers
<1>10. UpiStable
  BY <1>1 DEF UpiStable
<1>11. \A q \in Requests \ {p} : UpiSpared(upiProc[q])
  BY <1>1, <1>2, <1>3, <1>4, UpiOtherOrders DEF UpiSpared
<1>12. \A x \in V1 : Upi!Executing(x)' => Upi!Executing(x)
  BY <1>6, <1>7, UpiNoNewRunner
<1>13. Upi!OneRuns'
  BY <1>6, <1>7, UpiOneRunsKept
<1>14. \A x \in Upi!Orders : Upi!Frozen(x)'
  BY <1>1 DEF Upi!IInv, Upi!Frozen
<1>15. Upi!Executing(o)
  BY <1>2, <1>3, UpiExecutingRuns
<1>. HIDE DEF Upi!Executing
<1>16. Upi!Row1(o)'
  <2>1. Upi!Row1(o)
    BY <1>2 DEF Upi!IInv
  <2>. QED BY <2>1, <1>1, <1>3, <1>15, <1>18 DEF Upi!Row1, Upi!Presumed
<1>17. upiSpent' \subseteq upiSpent \cup {o}
  BY <1>4
<1>. QED BY <1>1, <1>2, <1>6, <1>7, <1>8, <1>9, <1>10, <1>11, <1>12, <1>13, <1>14, <1>16, <1>17,
     <1>18, UpiStepOn

LEMMA UpiAnswer1Step == ASSUME Upi!IInv, NEW p \in Requests, Upi!Answer1(p) PROVE Upi!IInv'
<1>0. PICK o : o = Upi!Order(p)
  OBVIOUS
<1>1. /\ upiProc[p].pc \in {"accepted", "ambiguous"} /\ Upi!TypeOK /\ Upi!Fine(upiProc[p]) /\ upiProc[p] \in Upi!Locals
      /\ UNCHANGED <<upiClaim, Upi!world, Upi!history, upiLeft>>
  BY UpiTyped DEF Upi!Answer1, Upi!At, Upi!IInv
<1>2. o \in V1 /\ o \in Upi!Orders /\ o \notin V2 /\ o = upiProc[p].order
  BY <1>0, <1>1, UpiNames DEF Upi!Answer1, Upi!Orders, Upi!Order
<1>3. upiRec[o].st # "absent" /\ upiClaim = o
  BY <1>1, <1>2 DEF Upi!Fine, Upi!Req1
<1>4. upiPresumed' = upiPresumed /\ upiPresumed \subseteq UpiWords /\ UNCHANGED <<upiFirst, upiCalled>>
  BY <1>1 DEF Upi!history, Upi!TypeOK, UpiWords
<1>5. CASE Upi!Transition(o, "processing") /\ Upi!Go(p, "confirm")
  <2>1. "confirm" \in Upi!Steps
    BY DEF Upi!Steps, Upi!Eithers
  <2>2. UpiMoved(p) /\ UpiSame(upiProc'[p], upiProc[p]) /\ upiProc'[p].pc = "confirm"
    BY <1>1, <1>5, <2>1, UpiGoMoves
  <2>3. Upi!Fine(upiProc[p])' /\ UpiContinues(p)
    BY <1>1, <1>2, <1>3, <2>2
       DEF Upi!Fine, Upi!Serves, Upi!Req1, Upi!Seen, Upi!Polled, UpiContinues, Upi!Runs, UpiSame,
           Upi!Firsts, Upi!Seconds, Upi!Eithers
  <2>4. Upi!Row1(o)'
    BY <1>1, <1>2, <1>3, <1>4, <1>5, <2>2, <2>3, UpiRowClaimed
  <2>. QED BY <1>1, <1>2, <1>4, <1>5, <2>2, <2>3, <2>4, UpiTransition1
<1>6. CASE Upi!Transition(o, "unknown") /\ Upi!Done(p)
  <2>1. UpiMoved(p) /\ upiProc'[p] = Upi!Idle
    BY <1>1, <1>6, UpiDoneMoves
  <2>2. Upi!Fine(upiProc[p])' /\ UpiContinues(p)
    BY <2>1, UpiIdleFine DEF UpiContinues
  <2>3. Upi!Row1(o)'
    BY <1>1, <1>2, <1>3, <1>4, <1>6, <2>1, <2>2, UpiRowClaimed
  <2>. QED BY <1>1, <1>2, <1>4, <1>6, <2>1, <2>2, <2>3, UpiTransition1
<1>. QED BY <1>0, <1>5, <1>6 DEF Upi!Answer1

LEMMA UpiApply1Step == ASSUME Upi!IInv, NEW p \in Requests, Upi!Apply1(p) PROVE Upi!IInv'
<1>0. PICK o : o = Upi!Order(p)
  OBVIOUS
<1>1. /\ upiProc[p].pc = "apply" /\ Upi!TypeOK /\ Upi!Fine(upiProc[p]) /\ upiProc[p] \in Upi!Locals
      /\ UNCHANGED <<upiClaim, Upi!world, upiFirst, upiCalled, upiLeft>> /\ Upi!Done(p) /\ o \in V1
  BY <1>0, UpiTyped DEF Upi!Apply1, Upi!At, Upi!IInv
<1>2. o \in Upi!Orders /\ o \notin V2 /\ o = upiProc[p].order
  BY <1>0, <1>1, UpiNames DEF Upi!Orders, Upi!Order
<1>3. UpiMoved(p) /\ upiProc'[p] = Upi!Idle
  BY <1>1, UpiDoneMoves
<1>4. Upi!Fine(upiProc[p])' /\ UpiContinues(p)
  BY <1>3, UpiIdleFine DEF UpiContinues
<1>5. /\ upiProc[p].snap.st # "queued" => upiClaim = o
      /\ upiProc[p].live = Upi!Dead => upiSettled = Upi!Dead
  BY <1>1, <1>2 DEF Upi!Fine, Upi!Polled, Upi!Dead, Upi!Nothing
<1>6. CASE UNCHANGED <<upiRec, upiPresumed>>
  BY <1>1, <1>6, UpiDoneQuiet, UpiLeftTyped DEF Upi!history
<1>7. CASE /\ Upi!Transition(o, "failed")
           /\ upiPresumed' = IF Upi!Executing(o) \/ o \in upiSpent THEN upiPresumed \cup {<<o, "poll">>} ELSE upiPresumed
  <2>1. upiRec'[o].st = IF Upi!Terminal(upiRec[o]) THEN upiRec[o].st ELSE "failed"
    BY <1>1, <1>2, <1>7, UpiTransitionRec
  <2>2. upiPresumed \subseteq upiPresumed' /\ upiPresumed' \subseteq UpiWords
    BY <1>1, <1>2, <1>7 DEF Upi!TypeOK, UpiWords
  <2>3. Upi!Executing(o)' => Upi!Executing(o)
    BY <1>1, <1>3, <1>4, UpiNoNewRunner
  <2>4. Upi!Row1(o) /\ upiSpent' = upiSpent
    BY <1>1 DEF Upi!IInv, Upi!world
  <2>. HIDE DEF Upi!Executing
  <2>5. Upi!Row1(o)'
    BY <1>1, <1>7, <2>1, <2>2, <2>3, <2>4 DEF Upi!Row1, Upi!Presumed, Upi!Terminal, Upi!world
  <2>. QED BY <1>1, <1>3, <1>4, <1>7, <2>2, <2>5, UpiTransition1
<1>8. CASE /\ UNCHANGED upiPresumed /\ upiClaim = o
           /\ Upi!Transition(o, "paid") \/ Upi!Transition(o, "unknown")
  <2>1. upiPresumed' = upiPresumed /\ upiPresumed \subseteq UpiWords
    BY <1>1, <1>8 DEF Upi!TypeOK, UpiWords
  <2>2. PICK st \in {"paid", "unknown"} : Upi!Transition(o, st)
    BY <1>8
  <2>3. Upi!Row1(o)'
    BY <1>1, <1>3, <1>4, <1>8, <2>1, <2>2, UpiRowClaimed
  <2>. QED BY <1>1, <1>3, <1>4, <2>1, <2>2, <2>3, UpiTransition1
<1>9. CASE UNCHANGED upiPresumed /\ upiSettled = Upi!Dead /\ Upi!Transition(o, "failed")
  <2>1. upiPresumed' = upiPresumed /\ upiPresumed \subseteq UpiWords
    BY <1>1, <1>9 DEF Upi!TypeOK, UpiWords
  <2>2. upiRec'[o].st = IF Upi!Terminal(upiRec[o]) THEN upiRec[o].st ELSE "failed"
    BY <1>1, <1>2, <1>9, UpiTransitionRec
  <2>3. upiSettled' \notin {Upi!Nothing, o}
    BY <1>1, <1>2, <1>9, UpiNames DEF Upi!world, Upi!Dead, Upi!Nothing
  <2>4. Upi!Row1(o)
    BY <1>1 DEF Upi!IInv
  <2>. HIDE DEF Upi!Executing
  <2>5. Upi!Row1(o)'
    BY <1>1, <2>2, <2>3, <2>4 DEF Upi!Row1, Upi!Presumed, Upi!Terminal
  <2>. QED BY <1>1, <1>3, <1>4, <1>9, <2>1, <2>5, UpiTransition1
<1>. HIDE DEF Upi!Executing
<1>. QED BY <1>0, <1>5, <1>6, <1>7, <1>8, <1>9 DEF Upi!Apply1

-----------------------------------------------------------------------------
\* The second protocol.
LEMMA UpiStepOn2 ==
    ASSUME Upi!IInv, NEW p \in Requests, NEW o \in V2, UpiMoved(p), Upi!TypeOK', UpiStable,
           Upi!Fine(upiProc[p])',
           upiProc'[p].order \notin V1,
           \A x \in Upi!Orders \ {o} : upiRec'[x] = upiRec[x],
           upiSpent' \subseteq upiSpent \cup {o}, upiPresumed' = upiPresumed,
           \A q \in Requests \ {p} : UpiSpared(upiProc[q]),
           Upi!OneRuns', Upi!Row2(o)', \A s \in upiSpent' : upiClaim' = s,
           \A x \in Upi!Orders : Upi!Frozen(x)'
    PROVE  Upi!IInv'
<1>1. o \in Upi!Orders /\ o \notin V1
  BY UpiNames DEF Upi!Orders
<1>2. ASSUME NEW x \in V1 PROVE Upi!Executing(x)' => Upi!Executing(x)
  <2>1. ASSUME NEW q \in Requests, upiProc'[q].order = x PROVE upiProc'[q] = upiProc[q]
    BY <2>1 DEF UpiMoved
  <2>. HIDE DEF Upi!Runs, Upi!Executing
  <2>. QED BY <2>1, UpiExecutingRuns
<1>. HIDE DEF Upi!Executing
<1>. QED BY <1>1, <1>2, UpiStepOn

\* A record becomes h.
LEMMA UpiRecBecomes ==
    ASSUME Upi!TypeOK, NEW o \in Upi!Orders, NEW h \in Upi!Records,
           upiRec' = [upiRec EXCEPT ![o] = h]
    PROVE  /\ upiRec' \in [Upi!Orders -> Upi!Records] /\ upiRec'[o] = h
           /\ \A x \in Upi!Orders \ {o} : upiRec'[x] = upiRec[x]
  BY DEF Upi!TypeOK

LEMMA UpiRecMoves ==
    ASSUME Upi!TypeOK, NEW o \in Upi!Orders,
           NEW a \in {"queued", "processing", "unknown", "paid", "failed"},
           NEW b \in {"not_started", "calling", "accepted", "terminal"},
           upiRec' = [upiRec EXCEPT ![o].st = a, ![o].phase = b]
    PROVE  /\ upiRec' \in [Upi!Orders -> Upi!Records]
           /\ upiRec'[o].st = a /\ upiRec'[o].phase = b /\ upiRec'[o].print = upiRec[o].print
           /\ \A x \in Upi!Orders \ {o} : upiRec'[x] = upiRec[x]
<1>. DEFINE h == [upiRec[o] EXCEPT !.st = a, !.phase = b]
<1>1. upiRec[o] \in Upi!Records
  BY DEF Upi!TypeOK
<1>2. h \in Upi!Records /\ h.st = a /\ h.phase = b /\ h.print = upiRec[o].print
  BY <1>1 DEF Upi!Records
<1>3. upiRec' = [upiRec EXCEPT ![o] = h]
  BY DEF Upi!TypeOK
<1>. HIDE DEF h
<1>. QED BY <1>2, <1>3, UpiRecBecomes

LEMMA UpiStMoves ==
    ASSUME Upi!TypeOK, NEW o \in Upi!Orders,
           NEW a \in {"queued", "processing", "unknown", "paid", "failed"},
           upiRec' = [upiRec EXCEPT ![o].st = a]
    PROVE  /\ upiRec' \in [Upi!Orders -> Upi!Records]
           /\ upiRec'[o].st = a /\ upiRec'[o].phase = upiRec[o].phase /\ upiRec'[o].print = upiRec[o].print
           /\ \A x \in Upi!Orders \ {o} : upiRec'[x] = upiRec[x]
<1>. DEFINE h == [upiRec[o] EXCEPT !.st = a]
<1>1. upiRec[o] \in Upi!Records
  BY DEF Upi!TypeOK
<1>2. h \in Upi!Records /\ h.st = a /\ h.phase = upiRec[o].phase /\ h.print = upiRec[o].print
  BY <1>1 DEF Upi!Records
<1>3. upiRec' = [upiRec EXCEPT ![o] = h]
  OBVIOUS
<1>. HIDE DEF h
<1>. QED BY <1>2, <1>3, UpiRecBecomes

\* Who runs an order of the second protocol has the execution right.
LEMMA UpiRunnerHasRight ==
    ASSUME Upi!IInv, NEW o \in V2, upiRec[o].phase = "not_started", NEW q \in Requests,
           upiProc[q].order = o
    PROVE  ~Upi!Runs(upiProc[q])
<1>1. Upi!Fine(upiProc[q]) /\ o \notin V1
  BY UpiNames DEF Upi!IInv, Upi!Orders
<1>. QED BY <1>1 DEF Upi!Fine, Upi!Req2, Upi!Runs

\* A record of the second protocol that moves on, by a request that does not
\* start to run it, and by which nobody else is disturbed.
LEMMA UpiRecord2 ==
    ASSUME Upi!IInv, NEW p \in Requests, NEW o \in V2, UpiMoved(p), UpiContinues(p),
           Upi!Fine(upiProc[p])',
           upiProc'[p].order \notin V1,
           upiRec' \in [Upi!Orders -> Upi!Records],
           \A x \in Upi!Orders \ {o} : upiRec'[x] = upiRec[x],
           UNCHANGED <<upiClaim, Upi!world, Upi!history, upiLeft>>,
           upiRec'[o].st # "absent", upiRec'[o].print = upiRec[o].print,
           upiRec[o].phase # "not_started" => upiRec'[o].phase # "not_started",
           upiRec[o].st = "failed" => upiRec'[o].st = "failed",
           upiRec'[o].st = "failed" /\ upiRec[o].st # "failed" =>
                  o \notin upiSpent /\ \A q \in Requests \ {p} : ~(Upi!Runs(upiProc[q]) /\ upiProc[q].order = o),
           Upi!Row2(o)'
    PROVE  Upi!IInv'
<1>1. o \in Upi!Orders /\ o \notin V1
  BY UpiNames DEF Upi!Orders
<1>2. Upi!TypeOK'
  BY DEF Upi!IInv, Upi!TypeOK, UpiMoved, Upi!world, Upi!history
<1>3. UpiStable
  BY <1>1 DEF UpiStable, Upi!world, Upi!Orders
<1>4. \A q \in Requests \ {p} : UpiSpared(upiProc[q])
  BY <1>1 DEF UpiSpared, Upi!world, Upi!Orders
<1>5. Upi!OneRuns'
  BY UpiOneRunsKept
<1>6. upiSpent' = upiSpent /\ upiPresumed' = upiPresumed /\ \A s \in upiSpent' : upiClaim' = s
  BY DEF Upi!IInv, Upi!world, Upi!history
<1>7. \A x \in Upi!Orders : Upi!Frozen(x)'
  BY <1>1 DEF Upi!IInv, Upi!Frozen, Upi!history
<1>. QED BY <1>2, <1>3, <1>4, <1>5, <1>6, <1>7, UpiStepOn2

LEMMA UpiReceive2Step == ASSUME Upi!IInv, NEW p \in Requests, NEW o \in V2, Upi!Receive2(p,
o) PROVE Upi!IInv'
<1>1. o \in Upi!Orders /\ o \notin V1 /\ Upi!TypeOK /\ upiRec[o] \in Upi!Records /\ Upi!Row2(o)
  BY UpiNames DEF Upi!Orders, Upi!IInv, Upi!TypeOK
<1>2. /\ upiRec' \in [Upi!Orders -> Upi!Records]
      /\ upiRec'[o].st = "queued" /\ upiRec'[o].phase = upiRec[o].phase /\ upiRec'[o].print = upiRec[o].print
      /\ \A x \in Upi!Orders \ {o} : upiRec'[x] = upiRec[x]
  BY <1>1, UpiStMoves DEF Upi!Receive2
<1>3. upiRec[o].phase = "not_started" /\ upiRec[o].st # "failed"
  BY DEF Upi!Receive2, Upi!Open, Upi!Absent
<1>. DEFINE r == [Upi!Idle EXCEPT !.pc = "gate1", !.order = o, !.print = upiRec[o].print]
<1>4. r \in Upi!Locals
  BY UpiIdleTyped, <1>1 DEF Upi!Locals, Upi!Steps, Upi!Seconds, Upi!Records
<1>5. r.pc = "gate1" /\ r.order = o /\ r.claimed = FALSE
  BY DEF Upi!Idle
<1>6. upiProc' = [upiProc EXCEPT ![p] = r]
  BY DEF Upi!Receive2
<1>. HIDE DEF r
<1>7. UpiMoved(p) /\ upiProc'[p] = r
  BY <1>1, <1>4, <1>6, UpiBecomesMoves
<1>8. Upi!Fine(upiProc[p])' /\ UpiContinues(p)
  BY <1>1, <1>5, <1>7
     DEF Upi!Fine, Upi!Serves, Upi!Req2, Upi!Seen, Upi!Polled, UpiContinues, Upi!Runs, Upi!Firsts,
         Upi!Seconds, Upi!Eithers
<1>9. UNCHANGED <<upiClaim, Upi!world, Upi!history, upiLeft>>
  BY DEF Upi!Receive2
<1>10. Upi!Row2(o)'
  BY <1>1, <1>2, <1>3, <1>9 DEF Upi!Row2, Upi!world
<1>. QED BY <1>1, <1>2, <1>3, <1>5, <1>7, <1>8, <1>9, <1>10, UpiRecord2

LEMMA UpiFreezeStep == ASSUME Upi!IInv, NEW p \in Requests, Upi!Freeze(p) PROVE Upi!IInv'
<1>0. PICK o : o = Upi!Order(p)
  OBVIOUS
<1>1. /\ upiProc[p].pc = "freeze" /\ Upi!TypeOK /\ Upi!Fine(upiProc[p]) /\ upiProc[p] \in Upi!Locals
      /\ UNCHANGED <<upiClaim, Upi!world, upiCalled, upiPresumed, upiLeft>>
  BY UpiTyped DEF Upi!Freeze, Upi!At, Upi!IInv
<1>2. o \in V2 /\ o \in Upi!Orders /\ o \notin V1 /\ o = upiProc[p].order
  BY <1>0, <1>1, UpiNames DEF Upi!Fine, Upi!Serves, Upi!Seconds, Upi!Orders, Upi!Order
<1>3. CASE ~Upi!Open(o)
  <2>1. Upi!Done(p) /\ UNCHANGED <<upiRec, upiFirst>>
    BY <1>0, <1>3 DEF Upi!Freeze
  <2>. QED BY <1>1, <2>1, UpiDoneQuiet, UpiLeftTyped DEF Upi!history
<1>4. CASE Upi!Open(o) /\ upiRec[o].print \notin {Upi!Nothing, upiProc[p].print}
  <2>1. Upi!Go(p, "refuse") /\ UNCHANGED <<upiRec, upiFirst>> /\ "refuse" \in Upi!Steps
    BY <1>0, <1>4 DEF Upi!Freeze, Upi!Steps, Upi!Seconds
  <2>2. /\ UpiMoved(p) /\ UpiSame(upiProc'[p], upiProc[p]) /\ upiProc'[p].pc = "refuse"
        /\ upiProc'[p].claimed = upiProc[p].claimed
    BY <1>1, <2>1, UpiGoMoves
  <2>3. Upi!Fine(upiProc[p])' /\ UpiContinues(p)
    BY <1>1, <1>2, <2>1, <2>2
       DEF Upi!Fine, Upi!Serves, Upi!Req2, Upi!Seen, Upi!Polled, UpiContinues, Upi!Runs, UpiSame,
           Upi!Firsts, Upi!Seconds, Upi!Eithers
  <2>. QED BY <1>1, <2>1, <2>2, <2>3, UpiQuietStep, UpiLeftTyped DEF Upi!history
<1>5. CASE Upi!Open(o) /\ upiRec[o].print \in {Upi!Nothing, upiProc[p].print}
  <2>1. PICK v \in Prints : v = upiProc[p].print
    BY <1>1 DEF Upi!Fine, Upi!Seen
  <2>2. /\ upiRec' = [upiRec EXCEPT ![o].print = v] /\ Upi!Go(p, "claim2") /\ "claim2" \in Upi!Steps
        /\ upiFirst' = [upiFirst EXCEPT ![o] = IF @ = Upi!Nothing THEN v ELSE @]
    BY <1>0, <1>5, <2>1 DEF Upi!Freeze, Upi!Steps, Upi!Seconds
  <2>. DEFINE h == [upiRec[o] EXCEPT !.print = v]
  <2>3. upiRec[o] \in Upi!Records /\ upiFirst \in [Upi!Orders -> Prints \cup {Upi!Nothing}]
    BY <1>1, <1>2 DEF Upi!TypeOK
  <2>4. h \in Upi!Records /\ h.print = v /\ h.st = upiRec[o].st /\ h.phase = upiRec[o].phase
    BY <2>3 DEF Upi!Records
  <2>5. upiRec' = [upiRec EXCEPT ![o] = h]
    BY <2>2
  <2>. HIDE DEF h
  <2>6. /\ upiRec' \in [Upi!Orders -> Upi!Records] /\ upiRec'[o] = h
        /\ \A x \in Upi!Orders \ {o} : upiRec'[x] = upiRec[x]
    BY <1>1, <1>2, <2>4, <2>5, UpiRecBecomes
  <2>7. /\ upiFirst' \in [Upi!Orders -> Prints \cup {Upi!Nothing}]
        /\ upiFirst'[o] = v /\ \A x \in Upi!Orders \ {o} : upiFirst'[x] = upiFirst[x]
    <3>1. upiFirst[o] = upiRec[o].print
      BY <1>2 DEF Upi!IInv, Upi!Frozen
    <3>. QED BY <1>2, <1>5, <2>1, <2>2, <2>3, <3>1
  <2>8. /\ UpiMoved(p) /\ UpiSame(upiProc'[p], upiProc[p]) /\ upiProc'[p].pc = "claim2"
        /\ upiProc'[p].claimed = upiProc[p].claimed /\ upiProc'[p].print = v
    BY <1>1, <2>1, <2>2, UpiGoMoves
  <2>9. Upi!TypeOK'
    BY <1>1, <2>6, <2>7, <2>8 DEF Upi!TypeOK, UpiMoved, Upi!world
  <2>10. UpiStable
    BY <1>1, <1>2, <1>5, <2>1, <2>4, <2>6, UpiNames DEF UpiStable, Upi!world, Upi!Orders
  <2>11. Upi!Fine(upiProc[p])' /\ UpiContinues(p)
    BY <1>1, <1>2, <2>1, <2>4, <2>6, <2>8
       DEF Upi!Fine, Upi!Serves, Upi!Req2, Upi!Seen, Upi!Polled, UpiContinues, Upi!Runs, UpiSame,
           Upi!Firsts, Upi!Seconds, Upi!Eithers
  <2>12. \A q \in Requests \ {p} : UpiSpared(upiProc[q])
    BY <1>1, <1>2, <2>4, <2>6 DEF UpiSpared, Upi!world, Upi!Orders
  <2>13. Upi!OneRuns'
    BY <2>8, <2>11, UpiOneRunsKept
  <2>14. Upi!Row2(o)'
    <3>1. Upi!Row2(o) /\ upiRec[o].st = "queued" /\ upiRec[o].phase = "not_started"
      BY <1>2, <1>5 DEF Upi!IInv, Upi!Open
    <3>. QED BY <1>1, <2>4, <2>6, <3>1 DEF Upi!Row2, Upi!world
  <2>15. upiSpent' = upiSpent /\ \A s \in upiSpent' : upiClaim' = s
    BY <1>1 DEF Upi!IInv, Upi!world
  <2>16. \A x \in Upi!Orders : Upi!Frozen(x)'
    <3>1. \A x \in Upi!Orders : Upi!Frozen(x)
      BY DEF Upi!IInv
    <3>2. upiCalled[o] \in {Upi!Nothing, v}
      <4>1. upiFirst[o] = upiRec[o].print /\ upiCalled[o] \in {Upi!Nothing, upiFirst[o]}
        BY <1>2, <3>1 DEF Upi!Frozen
      <4>. QED BY <4>1, <1>5, <2>1
    <3>3. Upi!Frozen(o)'
      BY <1>1, <1>2, <2>4, <2>6, <2>7, <3>2 DEF Upi!Frozen
    <3>4. \A x \in Upi!Orders \ {o} : Upi!Frozen(x)'
      BY <1>1, <2>6, <2>7, <3>1 DEF Upi!Frozen
    <3>. QED BY <3>3, <3>4
  <2>17. upiProc'[p].order \notin V1
    BY <1>2, <2>8 DEF UpiSame
  <2>. QED BY <1>1, <1>2, <2>6, <2>8, <2>9, <2>10, <2>11, <2>12, <2>13, <2>14, <2>15, <2>16, <2>17,
              UpiStepOn2
<1>. QED BY <1>3, <1>4, <1>5

LEMMA UpiClaim2Step == ASSUME Upi!IInv, NEW p \in Requests, Upi!Claim2(p) PROVE Upi!IInv'
<1>0. PICK o : o = Upi!Order(p)
  OBVIOUS
<1>1. /\ upiProc[p].pc = "claim2" /\ Upi!TypeOK /\ Upi!Fine(upiProc[p]) /\ upiProc[p] \in Upi!Locals
      /\ UNCHANGED <<upiRec, Upi!world, Upi!history, upiLeft>>
  BY UpiTyped DEF Upi!Claim2, Upi!At, Upi!IInv
<1>2. o \in V2 /\ o \in Upi!Orders /\ o \notin V1 /\ o = upiProc[p].order
  BY <1>0, <1>1, UpiNames DEF Upi!Fine, Upi!Serves, Upi!Seconds, Upi!Orders, Upi!Order
<1>3. CASE Upi!Claimable(o)
  <2>1. upiClaim' = o /\ upiProc' = [upiProc EXCEPT ![p].pc = "gate2", ![p].claimed = TRUE]
    BY <1>0, <1>3 DEF Upi!Claim2
  <2>2. /\ UpiMoved(p) /\ UpiSame(upiProc'[p], upiProc[p]) /\ upiProc'[p].pc = "gate2"
        /\ upiProc'[p].print = upiProc[p].print /\ upiProc'[p].claimed
    BY <1>1, <2>1, UpiClaimMoves
  <2>3. Upi!Fine(upiProc[p])' /\ UpiContinues(p)
    BY <1>1, <1>2, <2>1, <2>2
       DEF Upi!Fine, Upi!Serves, Upi!Req2, Upi!Seen, Upi!Polled, UpiContinues, Upi!Runs, UpiSame,
           Upi!Firsts, Upi!Seconds, Upi!Eithers
  <2>4. UpiStable /\ \A s \in upiSpent' : upiClaim' = s
    BY <1>1, <1>2, <1>3, <2>1, UpiClaimTaken
  <2>5. Upi!TypeOK'
    BY <1>1, <1>2, <2>1, <2>2 DEF Upi!TypeOK, UpiMoved, Upi!world, Upi!history, Upi!Payers
  <2>6. \A q \in Requests \ {p} : UpiSpared(upiProc[q])
    BY <1>1 DEF UpiSpared, Upi!world
  <2>7. Upi!OneRuns'
    BY <2>2, <2>3, UpiOneRunsKept
  <2>8. upiSpent' = upiSpent /\ upiPresumed' = upiPresumed /\ \A x \in Upi!Orders : Upi!Frozen(x)'
    BY <1>1 DEF Upi!IInv, Upi!Frozen, Upi!world, Upi!history
  <2>9. Upi!Row2(o)'
    BY <1>1, <1>2, <2>4, <2>8, UpiRowOther2
  <2>10. upiProc'[p].order \notin V1
    BY <1>2, <2>2 DEF UpiSame
  <2>. QED BY <1>1, <1>2, <2>2, <2>3, <2>4, <2>5, <2>6, <2>7, <2>8, <2>9, <2>10, UpiStepOn2
<1>4. CASE ~Upi!Claimable(o)
  <2>1. Upi!Go(p, "refuse") /\ UNCHANGED upiClaim /\ "refuse" \in Upi!Steps
    BY <1>0, <1>4 DEF Upi!Claim2, Upi!Steps, Upi!Seconds
  <2>2. /\ UpiMoved(p) /\ UpiSame(upiProc'[p], upiProc[p]) /\ upiProc'[p].pc = "refuse"
        /\ upiProc'[p].claimed = upiProc[p].claimed
    BY <1>1, <2>1, UpiGoMoves
  <2>3. Upi!Fine(upiProc[p])' /\ UpiContinues(p)
    BY <1>1, <1>2, <2>1, <2>2
       DEF Upi!Fine, Upi!Serves, Upi!Req2, Upi!Seen, Upi!Polled, UpiContinues, Upi!Runs, UpiSame,
           Upi!Firsts, Upi!Seconds, Upi!Eithers
  <2>. QED BY <1>1, <2>1, <2>2, <2>3, UpiQuietStep, UpiLeftTyped
<1>. QED BY <1>3, <1>4

LEMMA UpiAcquireStep == ASSUME Upi!IInv, NEW p \in Requests, Upi!Acquire(p) PROVE Upi!IInv'
<1>0. PICK o : o = Upi!Order(p)
  OBVIOUS
<1>1. /\ upiProc[p].pc = "acquire" /\ Upi!TypeOK /\ Upi!Fine(upiProc[p]) /\ upiProc[p] \in Upi!Locals
      /\ UNCHANGED <<upiClaim, Upi!world, Upi!history, upiLeft>>
  BY UpiTyped DEF Upi!Acquire, Upi!At, Upi!IInv
<1>2. o \in V2 /\ o \in Upi!Orders /\ o \notin V1 /\ o = upiProc[p].order
  BY <1>0, <1>1, UpiNames DEF Upi!Fine, Upi!Serves, Upi!Seconds, Upi!Orders, Upi!Order
<1>3. CASE Upi!Open(o)
  <2>1. /\ upiRec' = [upiRec EXCEPT ![o].st = "processing", ![o].phase = "calling"]
        /\ Upi!Go(p, "call") /\ "call" \in Upi!Steps
    BY <1>0, <1>3 DEF Upi!Acquire, Upi!Steps, Upi!Seconds
  <2>2. /\ upiRec' \in [Upi!Orders -> Upi!Records]
        /\ upiRec'[o].st = "processing" /\ upiRec'[o].phase = "calling" /\ upiRec'[o].print = upiRec[o].print
        /\ \A x \in Upi!Orders \ {o} : upiRec'[x] = upiRec[x]
    BY <1>1, <1>2, <2>1, UpiRecMoves
  <2>3. /\ UpiMoved(p) /\ UpiSame(upiProc'[p], upiProc[p]) /\ upiProc'[p].pc = "call"
        /\ upiProc'[p].print = upiProc[p].print /\ upiProc'[p].claimed = upiProc[p].claimed
    BY <1>1, <2>1, UpiGoMoves
  <2>4. upiClaim = o /\ o \notin upiSpent /\ upiRec[o].st = "queued" /\ upiRec[o].phase = "not_started"
    <3>1. Upi!Row2(o) /\ Upi!Req2(upiProc[p])
      BY <1>1, <1>2 DEF Upi!IInv, Upi!Fine
    <3>. QED BY <1>1, <1>2, <1>3, <3>1 DEF Upi!Row2, Upi!Req2, Upi!Open
  <2>5. Upi!TypeOK'
    BY <1>1, <2>2, <2>3 DEF Upi!TypeOK, UpiMoved, Upi!world, Upi!history
  <2>6. UpiStable
    BY <1>1, <1>2, <2>2, <2>4 DEF UpiStable, Upi!world, Upi!Orders
  <2>7. Upi!Fine(upiProc[p])'
    BY <1>1, <1>2, <2>2, <2>3, <2>4
       DEF Upi!Fine, Upi!Serves, Upi!Req2, Upi!Seen, Upi!Polled, UpiSame, Upi!Firsts, Upi!Seconds,
           Upi!Eithers, Upi!world
  <2>8. \A q \in Requests : ~(Upi!Runs(upiProc[q]) /\ upiProc[q].order = o)
    BY <1>2, <2>4, UpiRunnerHasRight
  <2>9. \A q \in Requests \ {p} : UpiSpared(upiProc[q])
    BY <1>1, <1>2, <2>2 DEF UpiSpared, Upi!world, Upi!Orders
  <2>10. Upi!OneRuns'
    <3>1. upiProc'[p].order = o /\ Upi!OneRuns /\ \A q \in Requests \ {p} : upiProc'[q] = upiProc[q]
      BY <1>2, <2>3 DEF UpiSame, Upi!IInv, UpiMoved
    <3>. HIDE DEF Upi!Runs
    <3>. QED BY <3>1, <2>8 DEF Upi!OneRuns
  <2>11. Upi!Row2(o)'
    BY <1>1, <2>2, <2>4 DEF Upi!Row2, Upi!world
  <2>12. upiSpent' = upiSpent /\ upiPresumed' = upiPresumed /\ \A s \in upiSpent' : upiClaim' = s
    BY <1>1 DEF Upi!IInv, Upi!world, Upi!history
  <2>13. \A x \in Upi!Orders : Upi!Frozen(x)'
    BY <1>1, <2>2 DEF Upi!IInv, Upi!Frozen, Upi!history
  <2>14. upiProc'[p].order \notin V1
    BY <1>2, <2>3 DEF UpiSame
  <2>. QED BY <1>2, <2>2, <2>3, <2>5, <2>6, <2>7, <2>9, <2>10, <2>11, <2>12, <2>13, <2>14,
       UpiStepOn2
<1>4. CASE ~Upi!Open(o)
  <2>1. Upi!Done(p) /\ UNCHANGED upiRec
    BY <1>0, <1>4 DEF Upi!Acquire
  <2>. QED BY <1>1, <2>1, UpiDoneQuiet, UpiLeftTyped
<1>. QED BY <1>3, <1>4

LEMMA UpiCall2Step == ASSUME Upi!IInv, NEW p \in Requests, Upi!Call2(p) PROVE Upi!IInv'
<1>0. PICK o : o = Upi!Order(p)
  OBVIOUS
<1>1. /\ upiProc[p].pc = "call" /\ Upi!TypeOK /\ Upi!Fine(upiProc[p]) /\ upiProc[p] \in Upi!Locals
      /\ UNCHANGED <<upiRec, upiClaim, upiSettled, upiPrint, upiFirst, upiPresumed, upiLeft>>
      /\ upiCalled' = [upiCalled EXCEPT ![o] = upiProc[p].print]
  BY <1>0, UpiTyped DEF Upi!Call2, Upi!At, Upi!IInv
<1>2. o \in V2 /\ o \in Upi!Orders /\ o \notin V1 /\ o = upiProc[p].order
  BY <1>0, <1>1, UpiNames DEF Upi!Fine, Upi!Serves, Upi!Seconds, Upi!Orders, Upi!Order
<1>3. PICK l \in {"mismatch", "accepted", "ambiguous"} :
        Upi!Go(p, l) /\ upiSpent' \in {upiSpent, upiSpent \cup {o}} /\ (l = "mismatch" => upiSpent' = upiSpent)
  BY <1>0 DEF Upi!Call2
<1>4. /\ UpiMoved(p) /\ UpiSame(upiProc'[p], upiProc[p]) /\ upiProc'[p].pc = l
      /\ upiProc'[p].claimed = upiProc[p].claimed
  <2>1. l \in Upi!Steps
    BY <1>3 DEF Upi!Steps, Upi!Seconds, Upi!Eithers
  <2>. QED BY <1>1, <1>3, <2>1, UpiGoMoves
<1>5. Upi!Row2(o) /\ Upi!Req2(upiProc[p]) /\ Upi!Runs(upiProc[p])
  BY <1>1, <1>2 DEF Upi!IInv, Upi!Fine, Upi!Runs
<1>6. upiClaim = o /\ o \notin upiSpent /\ upiRec[o].phase # "not_started" /\ upiRec[o].st # "failed"
  BY <1>1, <1>2, <1>5 DEF Upi!Row2, Upi!Req2
<1>7. upiProc[p].print \in Prints /\ upiProc[p].print = upiRec[o].print /\ upiFirst[o] = upiRec[o].print
  BY <1>1, <1>2 DEF Upi!Fine, Upi!Seen, Upi!IInv, Upi!Frozen
<1>8. Upi!TypeOK'
  BY <1>1, <1>2, <1>3, <1>4, <1>7 DEF Upi!TypeOK, UpiMoved, Upi!Payers
<1>9. UpiStable
  BY <1>1 DEF UpiStable
<1>10. Upi!Fine(upiProc[p])' /\ UpiContinues(p)
  BY <1>1, <1>2, <1>3, <1>4, <1>5, <1>6
     DEF Upi!Fine, Upi!Serves, Upi!Req2, Upi!Seen, Upi!Polled, UpiContinues, Upi!Runs, UpiSame,
         Upi!Firsts, Upi!Seconds, Upi!Eithers
<1>11. \A q \in Requests \ {p} : UpiSpared(upiProc[q])
  BY <1>1, <1>2, <1>3, <1>5, UpiOtherOrders DEF UpiSpared
<1>12. Upi!OneRuns'
  BY <1>4, <1>10, UpiOneRunsKept
<1>13. Upi!Row2(o)'
  BY <1>1, <1>5, <1>6 DEF Upi!Row2
<1>14. upiSpent' \subseteq upiSpent \cup {o} /\ \A s \in upiSpent' : upiClaim' = s
  BY <1>1, <1>3, <1>6 DEF Upi!IInv
<1>15. \A x \in Upi!Orders : Upi!Frozen(x)'
  <2>1. upiCalled'[o] = upiFirst[o] /\ \A x \in Upi!Orders \ {o} : upiCalled'[x] = upiCalled[x]
    BY <1>1, <1>2, <1>7 DEF Upi!TypeOK
  <2>2. \A x \in Upi!Orders : Upi!Frozen(x)
    BY DEF Upi!IInv
  <2>. QED BY <1>1, <2>1, <2>2 DEF Upi!Frozen
<1>16. upiProc'[p].order \notin V1
  BY <1>2, <1>4 DEF UpiSame
<1>. QED BY <1>1, <1>2, <1>4, <1>8, <1>9, <1>10, <1>11, <1>12, <1>13, <1>14, <1>15, <1>16,
     UpiStepOn2

LEMMA UpiAnswer2Step == ASSUME Upi!IInv, NEW p \in Requests, Upi!Answer2(p) PROVE Upi!IInv'
<1>0. PICK o : o = Upi!Order(p)
  OBVIOUS
<1>1. /\ upiProc[p].pc \in {"accepted", "ambiguous", "mismatch"}
      /\ Upi!TypeOK /\ Upi!Fine(upiProc[p]) /\ upiProc[p] \in Upi!Locals
      /\ UNCHANGED <<upiClaim, Upi!world, Upi!history, upiLeft>>
  BY UpiTyped DEF Upi!Answer2, Upi!At, Upi!IInv
<1>2. o \in V2 /\ o \in Upi!Orders /\ o \notin V1 /\ o = upiProc[p].order
  BY <1>0, <1>1, UpiNames DEF Upi!Answer2, Upi!Orders, Upi!Order
<1>3. Upi!Row2(o) /\ Upi!Req2(upiProc[p]) /\ Upi!Runs(upiProc[p]) /\ upiRec[o].phase # "not_started"
  BY <1>1, <1>2 DEF Upi!IInv, Upi!Fine, Upi!Runs, Upi!Req2
<1>4. \A q \in Requests \ {p} : ~(Upi!Runs(upiProc[q]) /\ upiProc[q].order = o)
  BY <1>2, <1>3, UpiOtherOrders
<1>5. ASSUME NEW a \in {"processing", "unknown", "failed"},
             NEW b \in {"calling", "accepted", "terminal"}, Upi!Mark(o, a, b), upiRec' # upiRec
      PROVE  /\ upiRec' \in [Upi!Orders -> Upi!Records] /\ ~Upi!Terminal(upiRec[o])
             /\ upiRec'[o].st = a /\ upiRec'[o].phase = b /\ upiRec'[o].print = upiRec[o].print
             /\ \A x \in Upi!Orders \ {o} : upiRec'[x] = upiRec[x]
  <2>1. upiRec' = [upiRec EXCEPT ![o].st = a, ![o].phase = b] /\ ~Upi!Terminal(upiRec[o])
    BY <1>5 DEF Upi!Mark
  <2>2. /\ a \in {"queued", "processing", "unknown", "paid", "failed"}
        /\ b \in {"not_started", "calling", "accepted", "terminal"}
    BY <1>5
  <2>. HIDE DEF Upi!Terminal
  <2>3. /\ upiRec' \in [Upi!Orders -> Upi!Records]
        /\ upiRec'[o].st = a /\ upiRec'[o].phase = b /\ upiRec'[o].print = upiRec[o].print
        /\ \A x \in Upi!Orders \ {o} : upiRec'[x] = upiRec[x]
    <3>1. Upi!TypeOK /\ o \in Upi!Orders
      BY <1>1, <1>2
    <3>2. upiRec' = [upiRec EXCEPT ![o].st = a, ![o].phase = b]
      BY <2>1
    <3>. QED BY <2>2, <3>1, <3>2, UpiRecMoves, Zenon
  <2>. QED BY <2>1, <2>3
<1>6. CASE /\ upiProc[p].pc = "accepted" /\ Upi!Mark(o, "processing", "accepted") /\ Upi!Go(p, "confirm")
  <2>1. "confirm" \in Upi!Steps
    BY DEF Upi!Steps, Upi!Eithers
  <2>2. /\ UpiMoved(p) /\ UpiSame(upiProc'[p], upiProc[p]) /\ upiProc'[p].pc = "confirm"
        /\ upiProc'[p].claimed = upiProc[p].claimed
    BY <1>1, <1>6, <2>1, UpiGoMoves
  <2>3. upiRec'[o].st # "failed" => upiRec[o].st # "failed"
    BY <1>5, <1>6 DEF Upi!Terminal
  <2>4. Upi!Fine(upiProc[p])' /\ UpiContinues(p) /\ upiProc'[p].order \notin V1
    BY <1>1, <1>2, <1>3, <2>2, <2>3
       DEF Upi!Fine, Upi!Serves, Upi!Req2, Upi!Seen, Upi!Polled, UpiContinues, Upi!Runs, UpiSame,
           Upi!Firsts, Upi!Seconds, Upi!Eithers
  <2>5. CASE upiRec' = upiRec
    BY <1>1, <2>2, <2>4, <2>5, UpiQuietStep, UpiLeftTyped
  <2>6. CASE upiRec' # upiRec
    <3>1. /\ upiRec' \in [Upi!Orders -> Upi!Records] /\ ~Upi!Terminal(upiRec[o])
          /\ upiRec'[o].st = "processing" /\ upiRec'[o].phase = "accepted" /\ upiRec'[o].print = upiRec[o].print
          /\ \A x \in Upi!Orders \ {o} : upiRec'[x] = upiRec[x]
      BY <1>5, <1>6, <2>6
    <3>2. Upi!Row2(o)'
      BY <1>1, <1>3, <3>1 DEF Upi!Row2, Upi!Terminal
    <3>. QED BY <1>1, <1>2, <2>2, <2>4, <3>1, <3>2, UpiRecord2 DEF Upi!Terminal
  <2>. QED BY <2>5, <2>6
<1>7. CASE /\ upiProc[p].pc = "ambiguous" /\ Upi!Mark(o, "unknown", "calling") /\ Upi!Done(p)
  <2>1. UpiMoved(p) /\ upiProc'[p] = Upi!Idle
    BY <1>1, <1>7, UpiDoneMoves
  <2>2. Upi!Fine(upiProc[p])' /\ UpiContinues(p) /\ upiProc'[p].order \notin V1
    BY <2>1, UpiIdleFine, UpiIdleTyped, UpiNames DEF UpiContinues, Upi!Orders
  <2>3. CASE upiRec' = upiRec
    BY <1>1, <2>1, <2>2, <2>3, UpiQuietStep, UpiLeftTyped
  <2>4. CASE upiRec' # upiRec
    <3>1. /\ upiRec' \in [Upi!Orders -> Upi!Records] /\ ~Upi!Terminal(upiRec[o])
          /\ upiRec'[o].st = "unknown" /\ upiRec'[o].phase = "calling" /\ upiRec'[o].print = upiRec[o].print
          /\ \A x \in Upi!Orders \ {o} : upiRec'[x] = upiRec[x]
      BY <1>5, <1>7, <2>4
    <3>2. Upi!Row2(o)'
      BY <1>1, <1>3, <3>1 DEF Upi!Row2, Upi!Terminal
    <3>. QED BY <1>1, <1>2, <2>1, <2>2, <3>1, <3>2, UpiRecord2 DEF Upi!Terminal
  <2>. QED BY <2>3, <2>4
<1>8. CASE /\ upiProc[p].pc = "mismatch" /\ Upi!Mark(o, "failed", "terminal")
           /\ IF upiRec' # upiRec THEN Upi!Go(p, "release") ELSE Upi!Done(p)
  <2>1. CASE upiRec' = upiRec
    BY <1>1, <1>8, <2>1, UpiDoneQuiet, UpiLeftTyped
  <2>2. CASE upiRec' # upiRec
    <3>1. /\ upiRec' \in [Upi!Orders -> Upi!Records] /\ ~Upi!Terminal(upiRec[o])
          /\ upiRec'[o].st = "failed" /\ upiRec'[o].phase = "terminal" /\ upiRec'[o].print = upiRec[o].print
          /\ \A x \in Upi!Orders \ {o} : upiRec'[x] = upiRec[x]
      BY <1>5, <1>8, <2>2
    <3>2. "release" \in Upi!Steps
      BY DEF Upi!Steps, Upi!Seconds
    <3>3. /\ UpiMoved(p) /\ UpiSame(upiProc'[p], upiProc[p]) /\ upiProc'[p].pc = "release"
          /\ upiProc'[p].claimed = upiProc[p].claimed
      BY <1>1, <1>8, <2>2, <3>2, UpiGoMoves
    <3>4. o \notin upiSpent
      BY <1>2, <1>3, <1>8 DEF Upi!Req2
    <3>5. Upi!Fine(upiProc[p])' /\ UpiContinues(p) /\ upiProc'[p].order \notin V1
      BY <1>1, <1>2, <3>1, <3>3
         DEF Upi!Fine, Upi!Serves, Upi!Req2, Upi!Seen, Upi!Polled, UpiContinues, Upi!Runs, UpiSame,
             Upi!Firsts, Upi!Seconds, Upi!Eithers
    <3>6. Upi!Row2(o)'
      BY <1>1, <3>1, <3>4 DEF Upi!Row2, Upi!world
    <3>. QED BY <1>1, <1>2, <1>4, <3>1, <3>3, <3>4, <3>5, <3>6, UpiRecord2
  <2>. QED BY <2>1, <2>2
<1>. QED BY <1>0, <1>6, <1>7, <1>8 DEF Upi!Answer2, Upi!At

LEMMA UpiRefuseStep == ASSUME Upi!IInv, NEW p \in Requests, Upi!Refuse(p) PROVE Upi!IInv'
<1>0. PICK o : o = Upi!Order(p)
  OBVIOUS
<1>1. /\ upiProc[p].pc = "refuse" /\ Upi!TypeOK /\ Upi!Fine(upiProc[p]) /\ upiProc[p] \in Upi!Locals
      /\ UNCHANGED <<upiClaim, Upi!world, Upi!history, upiLeft>>
  BY UpiTyped DEF Upi!Refuse, Upi!At, Upi!IInv
<1>2. o \in V2 /\ o \in Upi!Orders /\ o \notin V1 /\ o = upiProc[p].order
  BY <1>0, <1>1, UpiNames DEF Upi!Fine, Upi!Serves, Upi!Seconds, Upi!Orders, Upi!Order
<1>3. CASE ~Upi!Open(o)
  <2>1. Upi!Done(p) /\ UNCHANGED upiRec
    BY <1>0, <1>3 DEF Upi!Refuse
  <2>. QED BY <1>1, <2>1, UpiDoneQuiet, UpiLeftTyped
<1>4. CASE Upi!Open(o)
  <2>1. /\ upiRec' = [upiRec EXCEPT ![o].st = "failed"]
        /\ Upi!Go(p, "release") \/ Upi!Done(p)
    BY <1>0, <1>4 DEF Upi!Refuse
  <2>2. /\ upiRec' \in [Upi!Orders -> Upi!Records]
        /\ upiRec'[o].st = "failed" /\ upiRec'[o].phase = upiRec[o].phase /\ upiRec'[o].print = upiRec[o].print
        /\ \A x \in Upi!Orders \ {o} : upiRec'[x] = upiRec[x]
    BY <1>1, <1>2, <2>1, UpiStMoves
  <2>3. Upi!Row2(o) /\ upiRec[o].phase = "not_started" /\ o \notin upiSpent
    BY <1>2, <1>4 DEF Upi!IInv, Upi!Row2, Upi!Open
  <2>4. \A q \in Requests : ~(Upi!Runs(upiProc[q]) /\ upiProc[q].order = o)
    BY <1>2, <2>3, UpiRunnerHasRight
  <2>5. Upi!Row2(o)'
    BY <1>1, <2>2, <2>3 DEF Upi!Row2, Upi!world
  <2>6. UpiMoved(p) /\ Upi!Fine(upiProc[p])' /\ UpiContinues(p) /\ upiProc'[p].order \notin V1
    <3>1. CASE Upi!Go(p, "release")
      <4>1. "release" \in Upi!Steps
        BY DEF Upi!Steps, Upi!Seconds
      <4>2. /\ UpiMoved(p) /\ UpiSame(upiProc'[p], upiProc[p]) /\ upiProc'[p].pc = "release"
            /\ upiProc'[p].claimed = upiProc[p].claimed
        BY <1>1, <3>1, <4>1, UpiGoMoves
      <4>. QED BY <1>1, <1>2, <2>2, <4>2
               DEF Upi!Fine, Upi!Serves, Upi!Req2, Upi!Seen, Upi!Polled, UpiContinues, Upi!Runs,
                   UpiSame, Upi!Firsts, Upi!Seconds, Upi!Eithers
    <3>2. CASE Upi!Done(p)
      <4>1. UpiMoved(p) /\ upiProc'[p] = Upi!Idle
        BY <1>1, <3>2, UpiDoneMoves
      <4>. QED BY <4>1, UpiIdleFine, UpiIdleTyped, UpiNames DEF UpiContinues, Upi!Orders
    <3>. QED BY <2>1, <3>1, <3>2
  <2>. QED BY <1>1, <1>2, <2>2, <2>3, <2>4, <2>5, <2>6, UpiRecord2
<1>. QED BY <1>3, <1>4

LEMMA UpiReleaseStep == ASSUME Upi!IInv, NEW p \in Requests, Upi!Release(p) PROVE Upi!IInv'
<1>0. PICK o : o = Upi!Order(p)
  OBVIOUS
<1>1. /\ upiProc[p].pc = "release" /\ Upi!TypeOK /\ Upi!Fine(upiProc[p]) /\ upiProc[p] \in Upi!Locals
      /\ UNCHANGED <<upiRec, Upi!world, Upi!history, upiLeft>> /\ Upi!Done(p)
      /\ upiClaim' = IF upiClaim = o THEN Upi!Nothing ELSE upiClaim
  BY <1>0, UpiTyped DEF Upi!Release, Upi!At, Upi!IInv
<1>2. o \in V2 /\ o \in Upi!Orders /\ o \notin V1 /\ o = upiProc[p].order
  BY <1>0, <1>1, UpiNames DEF Upi!Fine, Upi!Serves, Upi!Seconds, Upi!Orders, Upi!Order
<1>3. upiRec[o].st = "failed" /\ o \notin upiSpent
  <2>1. Upi!Row2(o) /\ Upi!Req2(upiProc[p])
    BY <1>1, <1>2 DEF Upi!IInv, Upi!Fine
  <2>. QED BY <1>1, <1>2, <2>1 DEF Upi!Row2, Upi!Req2
<1>4. UpiMoved(p) /\ upiProc'[p] = Upi!Idle
  BY <1>1, UpiDoneMoves
<1>5. Upi!Fine(upiProc[p])' /\ UpiContinues(p) /\ upiProc'[p].order \notin V1
  BY <1>4, UpiIdleFine, UpiIdleTyped, UpiNames DEF UpiContinues, Upi!Orders
<1>6. Upi!TypeOK'
  BY <1>1, <1>4 DEF Upi!TypeOK, UpiMoved, Upi!world, Upi!history
<1>7. UpiStable
  BY <1>1, <1>2, <1>3 DEF UpiStable, Upi!world
<1>8. \A q \in Requests \ {p} : UpiSpared(upiProc[q])
  BY <1>1 DEF UpiSpared, Upi!world
<1>9. Upi!OneRuns'
  BY <1>4, <1>5, UpiOneRunsKept
<1>10. upiSpent' = upiSpent /\ upiPresumed' = upiPresumed /\ \A x \in Upi!Orders : Upi!Frozen(x)'
  BY <1>1 DEF Upi!IInv, Upi!Frozen, Upi!world, Upi!history
<1>11. \A s \in upiSpent' : upiClaim' = s
  BY <1>1, <1>3, <1>10 DEF Upi!IInv
<1>12. Upi!Row2(o)'
  BY <1>1, <1>2, <1>7, <1>10, UpiRowOther2
<1>. QED BY <1>1, <1>2, <1>4, <1>5, <1>6, <1>7, <1>8, <1>9, <1>10, <1>11, <1>12, UpiStepOn2

LEMMA UpiApply2Step == ASSUME Upi!IInv, NEW p \in Requests, Upi!Apply2(p) PROVE Upi!IInv'
<1>0. PICK o : o = Upi!Order(p)
  OBVIOUS
<1>1. /\ upiProc[p].pc = "apply" /\ Upi!TypeOK /\ o \in V2 /\ Upi!Done(p)
      /\ UNCHANGED <<upiClaim, Upi!world, Upi!history, upiLeft>>
  BY <1>0 DEF Upi!Apply2, Upi!At, Upi!IInv
<1>2. o \in Upi!Orders /\ o \notin V1 /\ o = upiProc[p].order /\ Upi!Row2(o)
  BY <1>0, <1>1, UpiNames DEF Upi!Orders, Upi!Order, Upi!IInv
<1>3. UpiMoved(p) /\ upiProc'[p] = Upi!Idle
  BY <1>1, UpiDoneMoves
<1>4. Upi!Fine(upiProc[p])' /\ UpiContinues(p) /\ upiProc'[p].order \notin V1
  BY <1>3, UpiIdleFine, UpiIdleTyped, UpiNames DEF UpiContinues, Upi!Orders
<1>5. CASE UNCHANGED upiRec
  BY <1>1, <1>3, <1>4, <1>5, UpiQuietStep, UpiLeftTyped
<1>6. CASE Upi!Open(o) /\ upiRec' = [upiRec EXCEPT ![o].st = "failed"]
  <2>1. /\ upiRec' \in [Upi!Orders -> Upi!Records]
        /\ upiRec'[o].st = "failed" /\ upiRec'[o].phase = upiRec[o].phase /\ upiRec'[o].print = upiRec[o].print
        /\ \A x \in Upi!Orders \ {o} : upiRec'[x] = upiRec[x]
    BY <1>1, <1>2, <1>6, UpiStMoves
  <2>2. upiRec[o].phase = "not_started" /\ o \notin upiSpent
    BY <1>2, <1>6 DEF Upi!Row2, Upi!Open
  <2>3. \A q \in Requests : ~(Upi!Runs(upiProc[q]) /\ upiProc[q].order = o)
    BY <1>1, <2>2, UpiRunnerHasRight
  <2>4. Upi!Row2(o)'
    BY <1>1, <2>1, <2>2 DEF Upi!Row2, Upi!world
  <2>. QED BY <1>1, <1>3, <1>4, <2>1, <2>2, <2>3, <2>4, UpiRecord2
<1>7. CASE /\ ~Upi!Terminal(upiRec[o]) /\ upiRec[o].phase # "not_started"
           /\ upiRec' = [upiRec EXCEPT ![o].st = "paid", ![o].phase = "terminal"]
  <2>1. /\ upiRec' \in [Upi!Orders -> Upi!Records]
        /\ upiRec'[o].st = "paid" /\ upiRec'[o].phase = "terminal" /\ upiRec'[o].print = upiRec[o].print
        /\ \A x \in Upi!Orders \ {o} : upiRec'[x] = upiRec[x]
    BY <1>1, <1>2, <1>7, UpiRecMoves
  <2>2. Upi!Row2(o)'
    BY <1>1, <1>2, <1>7, <2>1 DEF Upi!Row2, Upi!Terminal
  <2>. QED BY <1>1, <1>3, <1>4, <1>7, <2>1, <2>2, UpiRecord2 DEF Upi!Terminal
<1>8. CASE /\ ~Upi!Terminal(upiRec[o]) /\ upiRec[o].phase # "not_started"
           /\ upiRec' = [upiRec EXCEPT ![o].st = "unknown"]
  <2>1. /\ upiRec' \in [Upi!Orders -> Upi!Records]
        /\ upiRec'[o].st = "unknown" /\ upiRec'[o].phase = upiRec[o].phase /\ upiRec'[o].print = upiRec[o].print
        /\ \A x \in Upi!Orders \ {o} : upiRec'[x] = upiRec[x]
    BY <1>1, <1>2, <1>8, UpiStMoves
  <2>2. Upi!Row2(o)'
    BY <1>1, <1>2, <1>8, <2>1 DEF Upi!Row2, Upi!Terminal
  <2>. QED BY <1>1, <1>3, <1>4, <1>8, <2>1, <2>2, UpiRecord2 DEF Upi!Terminal
<1>. QED BY <1>0, <1>5, <1>6, <1>7, <1>8 DEF Upi!Apply2

-----------------------------------------------------------------------------
\* Steps of the world: no request moves and no record changes.
LEMMA UpiWorldStep ==
    ASSUME Upi!IInv, Upi!TypeOK', UNCHANGED <<upiRec, upiProc, Upi!history>>,
           upiSettled # Upi!Nothing => upiSettled' = upiSettled,
           \A o \in Upi!Orders : upiClaim = o => upiClaim' = o,
           \A o \in Upi!Orders : o \in upiSpent' => o \in upiSpent,
           \A s \in upiSpent' : upiClaim' = s
    PROVE  Upi!IInv'
<1>1. UpiStable
  BY DEF UpiStable, Upi!Orders
<1>2. ASSUME NEW q \in Requests PROVE Upi!Fine(upiProc[q])'
  <2>1. upiProc'[q] = upiProc[q] /\ UpiSpared(upiProc[q]) /\ upiPresumed' = upiPresumed
    BY DEF UpiSpared, Upi!Orders, Upi!history
  <2>. QED BY <1>1, <2>1, UpiOthersFine
<1>3. ASSUME NEW o \in V1 PROVE Upi!Row1(o)'
  <2>1. Upi!Executing(o)' => Upi!Executing(o)
    BY DEF Upi!Executing
  <2>2. upiRec'[o] = upiRec[o] /\ (o \in upiSpent' => o \in upiSpent) /\ upiPresumed \subseteq upiPresumed'
    BY DEF Upi!Orders, Upi!history
  <2>. HIDE DEF Upi!Executing
  <2>. QED BY <1>1, <2>1, <2>2, UpiRowOther1
<1>4. ASSUME NEW o \in V2 PROVE Upi!Row2(o)'
  <2>1. upiRec'[o] = upiRec[o] /\ (o \in upiSpent' => o \in upiSpent)
    BY DEF Upi!Orders
  <2>. QED BY <1>1, <2>1, UpiRowOther2
<1>5. Upi!OneRuns'
  BY DEF Upi!IInv, Upi!OneRuns, Upi!Runs
<1>6. \A o \in Upi!Orders : Upi!Frozen(o)'
  BY DEF Upi!IInv, Upi!Frozen, Upi!history
<1>. QED BY <1>2, <1>3, <1>4, <1>5, <1>6 DEF Upi!IInv

LEMMA UpiSettleStep == ASSUME Upi!IInv, Upi!Settle PROVE Upi!IInv'
<1>1. /\ Upi!TypeOK /\ upiSettled = Upi!Nothing /\ upiSettled' \in upiSpent \cup {Upi!Outside, Upi!Dead}
      /\ UNCHANGED <<upiRec, upiClaim, upiProc, upiPrint, upiSpent, Upi!history, upiLeft>>
  BY DEF Upi!Settle, Upi!IInv
<1>2. Upi!TypeOK'
  BY <1>1 DEF Upi!TypeOK, Upi!history
<1>3. \A s \in upiSpent' : upiClaim' = s
  BY <1>1 DEF Upi!IInv
<1>. QED BY <1>1, <1>2, <1>3, UpiWorldStep

LEMMA UpiChangeStep == ASSUME Upi!IInv, Upi!Change PROVE Upi!IInv'
<1>1. /\ Upi!TypeOK /\ Upi!Spend("change") /\ upiPrint' \in Prints
      /\ UNCHANGED <<upiRec, upiClaim, upiProc, upiSettled, upiSpent, Upi!history>>
  BY DEF Upi!Change, Upi!IInv
<1>2. upiLeft' \in [{"change", "poll", "fault"} -> Nat]
  BY <1>1, UpiSpendTyped
<1>3. Upi!TypeOK'
  BY <1>1, <1>2 DEF Upi!TypeOK, Upi!history
<1>4. \A s \in upiSpent' : upiClaim' = s
  BY <1>1 DEF Upi!IInv
<1>. QED BY <1>1, <1>3, <1>4, UpiWorldStep

LEMMA UpiOtherChannelStep == ASSUME Upi!IInv, Upi!OtherChannel PROVE Upi!IInv'
<1>1. /\ Upi!TypeOK /\ upiClaim \in {Upi!Nothing, Upi!Other} /\ upiClaim' \in {Upi!Nothing, Upi!Other}
      /\ UNCHANGED <<upiRec, upiProc, upiSettled, upiPrint, Upi!history, upiLeft>>
      /\ upiSpent' \subseteq upiSpent \cup {Upi!Other}
  BY DEF Upi!OtherChannel, Upi!IInv
<1>2. \A s \in upiSpent : s = upiClaim
  BY DEF Upi!IInv
<1>3. \A s \in upiSpent' : upiClaim' = s
  <2>1. CASE upiClaim = Upi!Nothing /\ upiClaim' = Upi!Other /\ UNCHANGED upiSpent
    BY <1>1, <1>2, <2>1, UpiNames DEF Upi!TypeOK, Upi!Payers, Upi!Nothing, Upi!Other
  <2>2. CASE upiClaim = Upi!Other /\ upiSpent' = upiSpent \cup {Upi!Other} /\ UNCHANGED upiClaim
    BY <1>2, <2>2
  <2>3. CASE upiClaim = Upi!Other /\ Upi!Other \notin upiSpent /\ upiClaim' = Upi!Nothing /\ UNCHANGED upiSpent
    BY <1>2, <2>3
  <2>. QED BY <2>1, <2>2, <2>3 DEF Upi!OtherChannel
<1>4. Upi!TypeOK'
  BY <1>1 DEF Upi!TypeOK, Upi!history, Upi!Payers
<1>5. \A o \in Upi!Orders : o # upiClaim /\ (o \in upiSpent' => o \in upiSpent)
  BY <1>1, UpiNames
<1>. QED BY <1>1, <1>3, <1>4, <1>5, UpiWorldStep

-----------------------------------------------------------------------------
LEMMA UpiInitHolds == ASSUME Upi!Init PROVE Upi!IInv
<1>1. \A o \in Upi!Orders : upiRec[o] = Upi!Absent /\ upiFirst[o] = Upi!Nothing /\ upiCalled[o] = Upi!Nothing
  BY DEF Upi!Init
<1>2. \A p \in Requests : upiProc[p] = Upi!Idle
  BY DEF Upi!Init
<1>3. upiLeft \in [{"change", "poll", "fault"} -> Nat]
  BY UpiConstants DEF Upi!Init
<1>4. /\ upiRec \in [Upi!Orders -> Upi!Records] /\ upiProc \in [Requests -> Upi!Locals]
      /\ upiFirst \in [Upi!Orders -> Prints \cup {Upi!Nothing}] /\ upiCalled \in [Upi!Orders -> Prints \cup {Upi!Nothing}]
  BY UpiAbsentTyped, UpiIdleTyped DEF Upi!Init
<1>5. Upi!TypeOK
  BY <1>3, <1>4 DEF Upi!Init, Upi!TypeOK
<1>6. \A p \in Requests : Upi!Fine(upiProc[p]) /\ ~Upi!Runs(upiProc[p])
  BY <1>2, UpiIdleFine
<1>7. Upi!OneRuns
  BY <1>6 DEF Upi!OneRuns
<1>8. Upi!Absent.st = "absent" /\ Upi!Absent.phase = "not_started" /\ Upi!Absent.print = Upi!Nothing
  BY DEF Upi!Absent
<1>9. \A o \in V1 : Upi!Row1(o)
  BY <1>1, <1>8 DEF Upi!Init, Upi!Row1, Upi!Presumed, Upi!Orders
<1>10. \A o \in V2 : Upi!Row2(o)
  BY <1>1, <1>8 DEF Upi!Init, Upi!Row2, Upi!Orders
<1>11. \A o \in Upi!Orders : Upi!Frozen(o)
  BY <1>1, <1>8 DEF Upi!Frozen
<1>. QED BY <1>5, <1>6, <1>7, <1>9, <1>10, <1>11 DEF Upi!Init, Upi!IInv

LEMMA UpiNextHolds == ASSUME Upi!IInv, [Upi!Next]_Upi!vars PROVE Upi!IInv'
<1>1. ASSUME NEW p \in Requests, Upi!Step(p) PROVE Upi!IInv'
  BY <1>1, UpiCreate1Step, UpiFail1Step, UpiClaim1Step, UpiStart1Step, UpiExecute1Step,
       UpiAnswer1Step, UpiSkipStep,
     UpiFetchStep, UpiApply1Step, UpiApply2Step, UpiGateStep, UpiFreezeStep, UpiClaim2Step,
     UpiAcquireStep, UpiCall2Step,
     UpiAnswer2Step, UpiRefuseStep, UpiReleaseStep, UpiDieStep DEF Upi!Step
<1>2. CASE Upi!Next
  BY <1>1, <1>2, UpiReceive1Step, UpiReceive2Step, UpiLoadStep, UpiSettleStep, UpiChangeStep,
       UpiOtherChannelStep
     DEF Upi!Next
<1>3. CASE UNCHANGED Upi!vars
  <2>1. Upi!TypeOK' /\ UNCHANGED <<upiRec, upiProc, Upi!history, upiClaim, upiSpent, upiSettled>>
    BY <1>3 DEF Upi!vars, Upi!world, Upi!history, Upi!IInv, Upi!TypeOK
  <2>. QED BY <2>1, UpiWorldStep DEF Upi!IInv
<1>. QED BY <1>2, <1>3

\* The records, the claim and the requests agree: who has spent holds the claim,
\* an order has one request that executes it, and that request has its claim.
THEOREM UpiInvariant == Upi!Spec => []Upi!IInv
<1>1. Upi!Init => Upi!IInv
  BY UpiInitHolds
<1>2. Upi!IInv /\ [Upi!Next]_Upi!vars => Upi!IInv'
  BY UpiNextHolds
<1>. QED BY <1>1, <1>2, PTL DEF Upi!Spec

\* The instance's own copy of Cardinality.
LEMMA UpiCount == ASSUME NEW S PROVE Upi!Cardinality(S) = Cardinality(S)
  BY DEF Upi!Cardinality, Cardinality

LEMMA UpiInvariantPaysOnce == Upi!IInv => Upi!PaidOnce
<1>1. SUFFICES ASSUME Upi!IInv PROVE Cardinality(upiSpent) <= 1
  BY UpiCount DEF Upi!PaidOnce
<1>2. upiSpent \subseteq {upiClaim}
  BY <1>1 DEF Upi!IInv
<1>3. IsFiniteSet({upiClaim}) /\ Cardinality({upiClaim}) = 1
  BY FS_Singleton
<1>. QED BY <1>2, <1>3, FS_Subset

LEMMA UpiInvariantReports == Upi!IInv => Upi!ReportIsTrue /\ Upi!CallsWhatWasFrozen
<1>1. SUFFICES ASSUME Upi!IInv PROVE Upi!ReportIsTrue /\ Upi!CallsWhatWasFrozen
  OBVIOUS
<1>2. ASSUME NEW o \in V1
      PROVE  /\ upiRec[o].st = "failed" => o \notin upiSpent \/ upiSettled # o \/ Upi!Presumed(o)
             /\ upiRec[o].st = "paid" => upiClaim = o
  <2>1. Upi!Row1(o)
    BY <1>1 DEF Upi!IInv
  <2>. HIDE DEF Upi!Executing
  <2>. QED BY <2>1 DEF Upi!Row1, Upi!Presumed
<1>3. ASSUME NEW o \in V2
      PROVE  /\ upiRec[o].st = "failed" => o \notin upiSpent
             /\ upiRec[o].st = "paid" => upiClaim = o
  <2>1. Upi!Row2(o)
    BY <1>1 DEF Upi!IInv
  <2>. QED BY <2>1 DEF Upi!Row2
<1>4. Upi!ReportIsTrue
  BY <1>2, <1>3 DEF Upi!ReportIsTrue, Upi!Orders
<1>5. Upi!CallsWhatWasFrozen
  BY <1>1 DEF Upi!IInv, Upi!Frozen, Upi!CallsWhatWasFrozen, Upi!Orders
<1>. QED BY <1>4, <1>5

\* Money leaves for the invoice at most once; an order reported failed did not
\* settle it, unless that was presumed, one reported paid holds the claim; and the executor is called with
\* the fingerprint that was frozen first (upi-invoice.ts).
THEOREM UpiSafe == Upi!Spec => [](Upi!PaidOnce /\ Upi!ReportIsTrue /\ Upi!CallsWhatWasFrozen)
  BY UpiInvariant, UpiInvariantPaysOnce, UpiInvariantReports, PTL

-----------------------------------------------------------------------------
\* The same of the behaviours TLC explores, where side picks the component.
UpiSideInv == side = "upi" => Upi!IInv

LEMMA UpiSideInvariant == SideSpec => []UpiSideInv
<1>1. SideInit => UpiSideInv
  BY UpiInitHolds DEF SideInit, UpiSideInv
<1>2. UpiSideInv /\ [SideNext]_all => UpiSideInv'
  <2>1. SUFFICES ASSUME side = "upi" => Upi!IInv, [SideNext]_all, side' = "upi" PROVE Upi!IInv'
    BY DEF UpiSideInv
  <2>2. CASE side = "upi" /\ Upi!Next /\ side' = side
    BY <2>1, <2>2, UpiNextHolds
  <2>3. CASE UNCHANGED <<side, upiVars>>
    <3>1. side = "upi" /\ UNCHANGED Upi!vars
      BY <2>1, <2>3 DEF upiVars, Upi!vars, Upi!world, Upi!history
    <3>. QED BY <2>1, <3>1, UpiNextHolds
  <2>. QED BY <2>1, <2>2, <2>3 DEF SideNext, all
<1>. QED BY <1>1, <1>2, PTL DEF SideSpec

\* The invariant of the run: money leaves for a UPI invoice at most once.
THEOREM UpiPaidOnceHolds == SideSpec => []UpiPaidOnce
<1>1. UpiSideInv => UpiPaidOnce
  BY UpiInvariantPaysOnce DEF UpiPaidOnce, UpiSideInv
<1>. QED BY <1>1, UpiSideInvariant, PTL

\* The invariant of the run: a UPI order reported failed paid nothing, unless that
\* was presumed from a refusal or a stale poll, and what was called is what had
\* been frozen.
THEOREM UpiReportsHolds == SideSpec => []UpiReports
<1>1. UpiSideInv => UpiReports
  BY UpiInvariantReports DEF UpiReports, UpiSideInv
<1>. QED BY <1>1, UpiSideInvariant, PTL

-----------------------------------------------------------------------------
(* The orders of a link: slots and their order.                            *)

\* The slots of a link, and their ranks.
LEMMA OrdersSlotFacts ==
    /\ Ord!Base \in Ord!Slots /\ Ord!Rank(Ord!Base) = 0 /\ ~Ord!IsContract(Ord!Base)
       /\ ~Ord!IsRetry(Ord!Base)
    /\ Ord!Base \in Ord!Firsts /\ Ord!Firsts \subseteq Ord!Slots
    /\ \A s \in Ord!Slots : s = Ord!Base \/ Ord!IsRetry(s) \/ Ord!IsContract(s)
    /\ \A s \in Ord!Slots \ Ord!Firsts : Ord!IsRetry(s)
    /\ Ord!Slots = Ord!Firsts \cup {Retries[i] : i \in DOMAIN Retries}
<1>1. Contracts \in Seq(STRING) /\ Retries \in Seq(STRING) /\ Len(Contracts) \in Nat
      /\ Len(Retries) \in Nat
  BY OrderConstants
<1>2. /\ DOMAIN Ord!First = 1 .. (1 + Len(Contracts)) /\ Ord!First[1] = "base"
      /\ \A i \in 2 .. (1 + Len(Contracts)) : Ord!First[i] = Contracts[i - 1]
      /\ DOMAIN Contracts = 1 .. Len(Contracts)
  BY <1>1 DEF Ord!First, Ord!Base
<1>3. Ord!Base \in Ord!Firsts
  BY <1>1, <1>2 DEF Ord!Firsts, Ord!Base
<1>4. \A s \in Ord!Firsts : s = Ord!Base \/ Ord!IsContract(s)
  <2>1. SUFFICES ASSUME NEW i \in DOMAIN Ord!First PROVE Ord!First[i] = Ord!Base
                        \/ Ord!IsContract(Ord!First[i])
    BY DEF Ord!Firsts
  <2>2. CASE i = 1
    BY <1>2, <2>2 DEF Ord!Base
  <2>3. CASE i # 1
    <3>1. i - 1 \in DOMAIN Contracts /\ Ord!First[i] = Contracts[i - 1]
      BY <1>1, <1>2, <2>3
    <3>. QED BY <3>1 DEF Ord!IsContract
  <2>. QED BY <2>2, <2>3
<1>5. ~Ord!IsContract(Ord!Base) /\ ~Ord!IsRetry(Ord!Base)
  BY OrderConstants DEF Ord!IsContract, Ord!IsRetry, Ord!Base
<1>. QED BY <1>3, <1>4, <1>5 DEF Ord!Slots, Ord!Firsts, Ord!IsRetry, Ord!Rank

\* Ranks are different numbers, and the ranks of retries follow that of the base.
LEMMA OrdersRankFacts ==
    /\ \A s \in Ord!Slots : Ord!Rank(s) \in Nat
    /\ \A s \in Ord!Slots : Ord!Rank(s) = 0 => s = Ord!Base
    /\ \A s, t \in Ord!Slots : Ord!Rank(s) = Ord!Rank(t) => s = t
<1>. DEFINE R(s) == CHOOSE i \in DOMAIN Retries : Retries[i] = s
            C(s) == CHOOSE i \in DOMAIN Contracts : Contracts[i] = s
            n    == Len(Retries)
<1>1. n \in Nat /\ DOMAIN Retries = 1 .. n /\ \A i \in DOMAIN Contracts : i \in Nat /\ i >= 1
  BY OrderConstants
<1>2. ASSUME NEW s, Ord!IsRetry(s) PROVE R(s) \in DOMAIN Retries /\ Retries[R(s)] = s
  BY <1>2 DEF Ord!IsRetry
<1>3. ASSUME NEW s, Ord!IsContract(s) PROVE C(s) \in DOMAIN Contracts /\ Contracts[C(s)] = s
  BY <1>3 DEF Ord!IsContract
<1>4. \A s : Ord!IsRetry(s) => s # Ord!Base /\ ~Ord!IsContract(s)
  BY OrderConstants DEF Ord!IsRetry, Ord!IsContract, Ord!Base
<1>5. \A s \in Ord!Slots : \/ s = Ord!Base /\ Ord!Rank(s) = 0
                           \/ Ord!IsRetry(s) /\ s # Ord!Base /\ Ord!Rank(s) = R(s)
                           \/ Ord!IsContract(s) /\ s # Ord!Base /\ ~Ord!IsRetry(s)
                              /\ Ord!Rank(s) = n + C(s)
  BY <1>4, OrdersSlotFacts DEF Ord!Rank
<1>. HIDE DEF R, C, n
<1>6. \A s \in Ord!Slots : \/ s = Ord!Base /\ Ord!Rank(s) = 0
                           \/ Ord!IsRetry(s) /\ Ord!Rank(s) = R(s) /\ R(s) \in 1 .. n
                              /\ Retries[R(s)] = s
                           \/ Ord!IsContract(s) /\ Ord!Rank(s) = n + C(s) /\ C(s) \in Nat
                              /\ C(s) >= 1 /\ Contracts[C(s)] = s
  BY <1>1, <1>2, <1>3, <1>5
<1>. QED BY <1>1, <1>6

LEMMA OrdersSlotsFinite == IsFiniteSet(Ord!Slots)
<1>1. Len(Ord!First) \in Nat /\ Len(Retries) \in Nat /\ DOMAIN Ord!First = 1 .. Len(Ord!First)
      /\ DOMAIN Retries = 1 .. Len(Retries)
  BY OrderConstants DEF Ord!First, Ord!Base
<1>2. IsFiniteSet(DOMAIN Ord!First) /\ IsFiniteSet(DOMAIN Retries)
  BY <1>1, FS_Interval
<1>3. IsFiniteSet({Ord!First[i] : i \in DOMAIN Ord!First})
  <2>. DEFINE f == [i \in DOMAIN Ord!First |-> Ord!First[i]]
              T == {Ord!First[i] : i \in DOMAIN Ord!First}
  <2>1. f \in Surjection(DOMAIN Ord!First, T)
    BY DEF Surjection
  <2>. QED BY <1>2, <2>1, FS_Surjection
<1>4. IsFiniteSet({Retries[i] : i \in DOMAIN Retries})
  <2>. DEFINE f == [i \in DOMAIN Retries |-> Retries[i]]
              T == {Retries[i] : i \in DOMAIN Retries}
  <2>1. f \in Surjection(DOMAIN Retries, T)
    BY DEF Surjection
  <2>. QED BY <1>2, <2>1, FS_Surjection
<1>. QED BY <1>3, <1>4, FS_Union DEF Ord!Slots

\* A finite set has a member with a least value.
LEMMA OrdersLeast ==
    ASSUME NEW S, IsFiniteSet(S), S # {}, NEW f, \A s \in S : f[s] \in Int
    PROVE  \E x \in S : \A y \in S : f[x] <= f[y]
<1>. DEFINE Upto(x) == {y \in S : f[y] <= f[x]}
            Sets    == {Upto(x) : x \in S}
<1>1. IsWellFoundedOn(StrictSubsetOrdering(S), SUBSET S)
  BY FS_StrictSubsetOrderingWellFounded, FS_FiniteSubsetsOfFinite
<1>2. Sets \subseteq SUBSET S /\ Sets # {}
  OBVIOUS
<1>3. PICK B \in Sets : \A C \in Sets : <<C, B>> \notin StrictSubsetOrdering(S)
  <2>. HIDE DEF Sets
  <2>. QED BY <1>1, <1>2, WFMin
<1>4. PICK x \in S : B = Upto(x)
  BY <1>3
<1>5. ASSUME NEW y \in S PROVE f[x] <= f[y]
  <2>1. SUFFICES ASSUME f[y] < f[x] PROVE FALSE
    OBVIOUS
  <2>2. Upto(y) \subseteq Upto(x) /\ x \in Upto(x) /\ x \notin Upto(y)
    BY <2>1
  <2>3. Upto(y) \in Sets /\ Upto(y) \in SUBSET S /\ Upto(x) \in SUBSET S
    OBVIOUS
  <2>. HIDE DEF Sets, Upto
  <2>. QED BY <1>3, <1>4, <2>2, <2>3 DEF StrictSubsetOrdering
<1>. QED BY <1>5

LEMMA OrdersNewestIn ==
    ASSUME NEW S \in SUBSET Ord!Slots, S # {} PROVE Ord!Newest(S) \in S
<1>. DEFINE f == [s \in Ord!Slots |-> 0 - Ord!Rank(s)]
<1>1. IsFiniteSet(S) /\ \A s \in S : f[s] \in Int
  BY OrdersSlotsFinite, FS_Subset, OrdersRankFacts
<1>2. PICK x \in S : \A y \in S : f[x] <= f[y]
  <2>. HIDE DEF f
  <2>. QED BY <1>1, OrdersLeast
<1>3. \A y \in S : f[y] = 0 - Ord!Rank(y) /\ Ord!Rank(y) \in Nat
  BY OrdersRankFacts
<1>4. \A y \in S : Ord!Rank(y) <= Ord!Rank(x)
  <2>. HIDE DEF f
  <2>. QED BY <1>2, <1>3
<1>. QED BY <1>4 DEF Ord!Newest

LEMMA OrdersFreeIn ==
    ASSUME NEW S \in SUBSET Ord!Slots,
           S # {} PROVE Ord!Free(S) \in S /\ \A t \in S : Ord!Rank(Ord!Free(S)) <= Ord!Rank(t)
<1>. DEFINE f == [s \in Ord!Slots |-> Ord!Rank(s)]
<1>1. IsFiniteSet(S) /\ \A s \in S : f[s] \in Int
  BY OrdersSlotsFinite, FS_Subset, OrdersRankFacts
<1>2. PICK x \in S : \A y \in S : f[x] <= f[y]
  <2>. HIDE DEF f
  <2>. QED BY <1>1, OrdersLeast
<1>3. \A y \in S : Ord!Rank(x) <= Ord!Rank(y)
  BY <1>2, OrdersRankFacts
<1>. QED BY <1>3 DEF Ord!Free

-----------------------------------------------------------------------------
(* What a step keeps.                                                      *)

OrdersGood(r) == Ord!Viewed(r) /\ Ord!Placed(r) /\ Ord!Funded(r) /\ Ord!Current(r) /\ Ord!Single(r)

\* Orders that are over stay over, funded ones stay funded, versions only grow.
OrdersRises == /\ ordRow' \in [Ord!Slots -> Ord!Rows]
               /\ \A s \in Ord!Slots : /\ Ord!Over(ordRow[s]) => Ord!Over(ordRow'[s])
                                       /\ Ord!InFlight(ordRow[s]) => Ord!InFlight(ordRow'[s])
                                       /\ ordRow[s].ver <= ordRow'[s].ver

LEMMA OrdersKnown ==
    ASSUME Ord!IInv
    PROVE  /\ Ord!TypeOK /\ ordDoubled = FALSE /\ ordRetired = FALSE
           /\ \A s \in Ord!Slots : Ord!Lined(s)
           /\ \A p \in Askers : OrdersGood(ordProc[p])
           /\ ordRow \in [Ord!Slots -> Ord!Rows] /\ ordProc \in [Askers -> Ord!Locals]
           /\ ordHanded \subseteq Ord!Slots /\ ordLeft \in Nat /\ ordLine \in {"coinbase", "stripe"}
BY DEF Ord!IInv, OrdersGood, Ord!TypeOK

LEMMA OrdersLocalFacts ==
    ASSUME NEW r \in Ord!Locals
    PROVE  /\ r.pc \in Ord!Steps /\ r.intent \in BOOLEAN /\ r.slot \in Ord!Slots
              /\ r.watch \subseteq Ord!Slots
           /\ r.late \subseteq Ord!Slots /\ r.super \in BOOLEAN /\ r.mine \in Nat
              /\ r.view \in Ord!Views
           /\ DOMAIN r.view \subseteq Ord!Slots /\ r.view \in [DOMAIN r.view -> Ord!Rows]
<1>1. r.pc \in Ord!Steps /\ r.intent \in BOOLEAN /\ r.slot \in Ord!Slots /\ r.watch \subseteq Ord!Slots
      /\ r.late \subseteq Ord!Slots /\ r.super \in BOOLEAN /\ r.mine \in Nat /\ r.view \in Ord!Views
  BY DEF Ord!Locals
<1>2. PICK S \in SUBSET Ord!Slots : r.view \in [S -> Ord!Rows]
  BY <1>1 DEF Ord!Views
<1>. QED BY <1>1, <1>2

LEMMA OrdersRowFacts ==
    ASSUME NEW r \in Ord!Rows
    PROVE  r.st \in {"absent", "unpaid", "funded", "expired", "lapsed"} /\ r.open \in BOOLEAN
           /\ r.mode \in {"classic", "contract"} /\ r.ver \in Nat /\ r.sent \in BOOLEAN
BY DEF Ord!Rows

LEMMA OrdersBehindKept ==
    ASSUME OrdersRises, NEW s, Ord!Behind(s) PROVE Ord!Behind(s)'
BY DEF OrdersRises, Ord!Behind

LEMMA OrdersGoodKept ==
    ASSUME Ord!IInv, OrdersRises, ordLine' = ordLine, NEW r \in Ord!Locals, OrdersGood(r)
    PROVE  OrdersGood(r)'
<1>1. DOMAIN r.view \subseteq Ord!Slots /\ r.slot \in Ord!Slots /\ r.late \subseteq Ord!Slots
      /\ r.mine \in Nat
  BY OrdersLocalFacts
<1>2. Ord!Viewed(r)'
  BY <1>1 DEF OrdersGood, Ord!Viewed, OrdersRises
<1>3. Ord!Placed(r)'
  BY OrdersBehindKept DEF OrdersGood, Ord!Placed
<1>4. Ord!Funded(r)'
  BY <1>1 DEF OrdersGood, Ord!Funded, OrdersRises
<1>5. Ord!Current(r)'
  <2>1. ordRow[r.slot].ver \in Nat /\ ordRow'[r.slot].ver \in Nat
    BY <1>1, OrdersKnown, OrdersRowFacts DEF OrdersRises
  <2>. QED BY <1>1, <2>1 DEF OrdersGood, Ord!Current, OrdersRises
<1>6. Ord!Single(r)'
  BY DEF OrdersGood, Ord!Single
<1>. QED BY <1>2, <1>3, <1>4, <1>5, <1>6 DEF OrdersGood

LEMMA OrdersSame ==
    ASSUME Ord!IInv, ordRow' = ordRow PROVE OrdersRises /\ \A s \in Ord!Slots : Ord!Lined(s)'
<1>1. OrdersRises
  BY OrdersKnown, OrdersRowFacts DEF OrdersRises
<1>2. \A s \in Ord!Slots : Ord!Lined(s)'
  <2>. SUFFICES ASSUME NEW s \in Ord!Slots PROVE Ord!Lined(s)'
    OBVIOUS
  <2>1. Ord!Lined(s) /\ (Ord!Behind(s) => Ord!Behind(s)')
    BY <1>1, OrdersKnown, OrdersBehindKept
  <2>. QED BY <2>1 DEF Ord!Lined
<1>. QED BY <1>1, <1>2

LEMMA OrdersStepKeeps ==
    ASSUME Ord!IInv, NEW p \in Askers, NEW r \in Ord!Locals, ordProc' = [ordProc EXCEPT ![p] = r],
           OrdersGood(r)', OrdersRises,
           ordLine' = ordLine,
           \A s \in Ord!Slots : Ord!Lined(s)', ordHanded' \subseteq Ord!Slots, ~ordDoubled',
           ~ordRetired',
           ordDoubled' \in BOOLEAN, ordRetired' \in BOOLEAN, ordLeft' \in Nat
    PROVE  Ord!IInv'
<1>1. Ord!TypeOK'
  BY OrdersKnown DEF Ord!TypeOK, OrdersRises
<1>2. ASSUME NEW q \in Askers PROVE OrdersGood(ordProc[q])'
  <2>1. CASE q = p
    <3>1. ordProc'[q] = r
      BY <2>1, OrdersKnown
    <3>. QED BY <3>1 DEF OrdersGood, Ord!Viewed, Ord!Placed, Ord!Funded, Ord!Current, Ord!Single
  <2>2. CASE q # p
    <3>1. ordProc'[q] = ordProc[q]
      BY <2>2, OrdersKnown
    <3>2. PICK h \in Ord!Locals : h = ordProc[q] /\ OrdersGood(h)
      BY OrdersKnown
    <3>3. OrdersGood(h)'
      BY <3>2, OrdersGoodKept
    <3>. QED BY <3>1, <3>2, <3>3 DEF OrdersGood, Ord!Viewed, Ord!Placed, Ord!Funded, Ord!Current,
         Ord!Single
  <2>. QED BY <2>1, <2>2
<1>. QED BY <1>1, <1>2 DEF Ord!IInv, OrdersGood

LEMMA OrdersIdleGood == Ord!Idle \in Ord!Locals /\ Ord!Idle.pc = "idle" /\ OrdersGood(Ord!Idle)'
<1>1. Ord!Idle.view \in Ord!Views /\ DOMAIN Ord!Idle.view = {}
  <2>1. [s \in {} |-> Ord!Absent] \in [{} -> Ord!Rows]
    OBVIOUS
  <2>. QED BY <2>1 DEF Ord!Views, Ord!Idle
<1>2. Ord!Idle \in Ord!Locals /\ Ord!Idle.pc = "idle"
  BY <1>1, OrdersSlotFacts DEF Ord!Idle, Ord!Locals, Ord!Steps
<1>3. Ord!Idle.late = {} /\ Ord!Idle.mine = 0 /\ Ord!Idle.slot = Ord!Base
  BY DEF Ord!Idle
<1>. HIDE DEF Ord!Idle
<1>. QED BY <1>1, <1>2, <1>3 DEF OrdersGood, Ord!Viewed, Ord!Placed, Ord!Funded, Ord!Current,
     Ord!Single

LEMMA OrdersRefuseKeeps ==
    ASSUME Ord!IInv, NEW p \in Askers, Ord!Refuse(p),
           UNCHANGED <<ordLine, ordRow, ordLeft>> PROVE Ord!IInv'
BY OrdersIdleGood, OrdersSame, OrdersStepKeeps, OrdersKnown DEF Ord!Refuse

LEMMA OrdersHandOutKeeps ==
    ASSUME Ord!IInv, NEW p \in Askers, NEW s \in Ord!Slots, NEW ver, NEW excused \in BOOLEAN,
           Ord!HandOut(p, s, ver, excused),
           UNCHANGED <<ordLine, ordRow, ordLeft>>, ordProc[p].late = {} \/ excused,
           ~(ver < ordProc[p].mine)
    PROVE  Ord!IInv'
<1>1. ~ordDoubled' /\ ~ordRetired' /\ ordDoubled' \in BOOLEAN /\ ordRetired' \in BOOLEAN
      /\ ordHanded' \subseteq Ord!Slots
  BY OrdersKnown DEF Ord!HandOut
<1>2. ordProc' = [ordProc EXCEPT ![p] = Ord!Idle]
  BY DEF Ord!HandOut
<1>. QED BY <1>1, <1>2, OrdersIdleGood, OrdersSame, OrdersStepKeeps, OrdersKnown

\* A request goes on with r, and nothing is handed out.
LEMMA OrdersQuietKeeps ==
    ASSUME Ord!IInv, NEW p \in Askers, NEW r \in Ord!Locals, ordProc' = [ordProc EXCEPT ![p] = r],
           OrdersGood(r)', Ord!Quiet, ordLeft' \in Nat,
           UNCHANGED <<ordLine, ordRow>>
    PROVE  Ord!IInv'
BY OrdersSame, OrdersStepKeeps, OrdersKnown DEF Ord!Quiet

-----------------------------------------------------------------------------
(* The steps of a request.                                                 *)

\* A request goes to another step and keeps what it knows.
LEMMA OrdersGoFacts ==
    ASSUME Ord!IInv, NEW p \in Askers, NEW l \in Ord!Steps
    PROVE  LET h == ordProc[p]
               r == [ordProc[p] EXCEPT !.pc = l]
           IN /\ [ordProc EXCEPT ![p].pc = l] = [ordProc EXCEPT ![p] = r]
              /\ r \in Ord!Locals /\ r.pc = l /\ r.intent = h.intent /\ r.view = h.view
                 /\ r.slot = h.slot
              /\ r.watch = h.watch /\ r.late = h.late /\ r.super = h.super /\ r.mine = h.mine
<1>1. ordProc[p] \in Ord!Locals /\ ordProc \in [Askers -> Ord!Locals]
  BY OrdersKnown
<1>. QED BY <1>1 DEF Ord!Locals

LEMMA OrdersRequestKeeps == ASSUME Ord!IInv, NEW p \in Askers, Ord!Request(p) PROVE Ord!IInv'
<1>1. PICK i \in BOOLEAN : ordProc'
           = [ordProc EXCEPT ![p] = [Ord!Idle EXCEPT !.pc = "scan", !.intent = i]]
  BY DEF Ord!Request
<1>. DEFINE r == [Ord!Idle EXCEPT !.pc = "scan", !.intent = i]
<1>2. r \in Ord!Locals /\ r.pc = "scan" /\ r.view = Ord!Idle.view /\ r.late = {} /\ r.mine = 0
      /\ r.slot = Ord!Base
  <2>1. Ord!Idle \in Ord!Locals
    BY OrdersIdleGood
  <2>. QED BY <2>1 DEF Ord!Idle, Ord!Locals, Ord!Steps
<1>3. DOMAIN r.view = {}
  BY <1>2 DEF Ord!Idle
<1>. HIDE DEF r
<1>4. OrdersGood(r)'
  BY <1>2, <1>3 DEF OrdersGood, Ord!Viewed, Ord!Placed, Ord!Funded, Ord!Current, Ord!Single
<1>5. ordLeft' \in Nat /\ Ord!Quiet /\ UNCHANGED <<ordLine, ordRow>>
  BY OrdersKnown DEF Ord!Request
<1>6. ordProc' = [ordProc EXCEPT ![p] = r]
  BY <1>1 DEF r
<1>. QED BY <1>2, <1>4, <1>5, <1>6, OrdersQuietKeeps

\* What a request read of the slots S joins what it knew.
LEMMA OrdersReadFacts ==
    ASSUME Ord!IInv, NEW p \in Askers, NEW S \in SUBSET Ord!Slots
    PROVE  LET v == Ord!Read(p, S) IN
           /\ v \in Ord!Views /\ DOMAIN v = DOMAIN ordProc[p].view \cup S
           /\ \A s \in DOMAIN v : Ord!Over(v[s]) => Ord!Over(ordRow[s])
           /\ \A s \in S : v[s] = ordRow[s]
<1>1. /\ DOMAIN ordProc[p].view \subseteq Ord!Slots
         /\ ordProc[p].view \in [DOMAIN ordProc[p].view -> Ord!Rows]
      /\ Ord!Viewed(ordProc[p]) /\ ordRow \in [Ord!Slots -> Ord!Rows]
  BY OrdersKnown, OrdersLocalFacts DEF OrdersGood
<1>2. \A s \in DOMAIN ordProc[p].view : Ord!Over(ordProc[p].view[s]) => Ord!Over(ordRow[s])
  BY <1>1 DEF Ord!Viewed
<1>. DEFINE D == DOMAIN ordProc[p].view \cup S
<1>3. Ord!Read(p, S) \in [D -> Ord!Rows] /\ D \in SUBSET Ord!Slots
  BY <1>1 DEF Ord!Read
<1>4. Ord!Read(p, S) \in Ord!Views
  BY <1>3 DEF Ord!Views
<1>5. \A s \in D : Ord!Read(p, S)[s] = IF s \in S THEN ordRow[s] ELSE ordProc[p].view[s]
  BY DEF Ord!Read
<1>. QED BY <1>1, <1>2, <1>3, <1>4, <1>5

LEMMA OrdersScanFirstKeeps == ASSUME Ord!IInv, NEW p \in Askers, Ord!ScanFirst(p) PROVE Ord!IInv'
<1>1. CASE ordProc' = [ordProc EXCEPT ![p] = Ord!Idle]
  BY <1>1, OrdersIdleGood, OrdersQuietKeeps, OrdersKnown DEF Ord!ScanFirst
<1>2. CASE ordProc' = [ordProc EXCEPT ![p].view = Ord!Read(p, Ord!Firsts),
                                      ![p].pc = IF Ord!Found(ordRow[Ord!Base])
                                      /\ ~Ord!Live(ordRow[Ord!Base]) THEN "rescan" ELSE "decide"]
  <2>1. PICK v \in Ord!Views : v = Ord!Read(p, Ord!Firsts)
    BY OrdersReadFacts, OrdersSlotFacts
  <2>2. PICK l \in {"rescan", "decide"} : l = IF Ord!Over(ordRow[Ord!Base]) THEN "rescan" ELSE "decide"
    OBVIOUS
  <2>3. ordProc[p] \in Ord!Locals /\ ordProc \in [Askers -> Ord!Locals] /\ OrdersGood(ordProc[p])
        /\ Ord!At(p, "scan") /\ ordLine = "coinbase"
    BY OrdersKnown DEF Ord!ScanFirst
  <2>4. PICK r \in Ord!Locals : r = [ordProc[p] EXCEPT !.view = v, !.pc = l]
    BY <2>3 DEF Ord!Locals, Ord!Steps
  <2>5. r.pc = l /\ r.view = v /\ r.late = ordProc[p].late /\ r.mine = ordProc[p].mine
        /\ r.slot = ordProc[p].slot /\ r.watch = ordProc[p].watch /\ r.intent = ordProc[p].intent
    BY <2>3, <2>4 DEF Ord!Locals
  <2>6. ordProc' = [ordProc EXCEPT ![p] = r]
    BY <1>2, <2>1, <2>2, <2>3, <2>4 DEF Ord!Over
  <2>7. /\ DOMAIN v = Ord!Firsts /\ v[Ord!Base] = ordRow[Ord!Base]
        /\ \A s \in DOMAIN v : Ord!Over(v[s]) => Ord!Over(ordRow[s])
    <3>1. DOMAIN ordProc[p].view = {}
      BY <2>3 DEF OrdersGood, Ord!Viewed, Ord!At
    <3>2. Ord!Firsts \in SUBSET Ord!Slots /\ Ord!Base \in Ord!Firsts
      BY OrdersSlotFacts
    <3>3. /\ DOMAIN v = DOMAIN ordProc[p].view \cup Ord!Firsts /\ \A s \in Ord!Firsts : v[s] = ordRow[s]
          /\ \A s \in DOMAIN v : Ord!Over(v[s]) => Ord!Over(ordRow[s])
      BY <2>1, <3>2, OrdersReadFacts
    <3>. QED BY <3>1, <3>2, <3>3
  <2>8. OrdersGood(r)'
    <3>1. ordRow' = ordRow /\ ordLine' = ordLine
      BY DEF Ord!ScanFirst
    <3>2. ordProc[p].late = {} /\ ordProc[p].mine = 0
      BY <2>3 DEF OrdersGood, Ord!Funded, Ord!Current, Ord!At
    <3>. QED BY <2>2, <2>3, <2>5, <2>7, <3>1, <3>2 DEF OrdersGood, Ord!Viewed, Ord!Placed,
         Ord!Funded, Ord!Current, Ord!Single
  <2>. QED BY <2>6, <2>8, OrdersQuietKeeps, OrdersKnown DEF Ord!ScanFirst
<1>. QED BY <1>1, <1>2 DEF Ord!ScanFirst, Ord!Firsts

LEMMA OrdersScanRetriesKeeps == ASSUME Ord!IInv, NEW p \in Askers,
Ord!ScanRetries(p) PROVE Ord!IInv'
<1>. DEFINE R == {Retries[i] : i \in DOMAIN Retries}
<1>1. R \in SUBSET Ord!Slots
  BY OrdersSlotFacts
<1>2. PICK v \in Ord!Views : v = Ord!Read(p, R)
  BY <1>1, OrdersReadFacts
<1>3. ordProc[p] \in Ord!Locals /\ ordProc \in [Askers -> Ord!Locals] /\ OrdersGood(ordProc[p])
      /\ Ord!At(p, "rescan")
  BY OrdersKnown DEF Ord!ScanRetries
<1>4. PICK r \in Ord!Locals : r = [ordProc[p] EXCEPT !.view = v, !.pc = "decide"]
  BY <1>3 DEF Ord!Locals, Ord!Steps
<1>5. r.pc = "decide" /\ r.view = v /\ r.late = ordProc[p].late /\ r.mine = ordProc[p].mine
      /\ r.slot = ordProc[p].slot
  BY <1>3, <1>4 DEF Ord!Locals
<1>6. ordProc' = [ordProc EXCEPT ![p] = r]
  BY <1>2, <1>3, <1>4 DEF Ord!ScanRetries
<1>7. DOMAIN v = Ord!Slots /\ \A s \in DOMAIN v : Ord!Over(v[s]) => Ord!Over(ordRow[s])
  <2>1. DOMAIN v = DOMAIN ordProc[p].view \cup R /\ \A s \in DOMAIN v : Ord!Over(v[s])
        => Ord!Over(ordRow[s])
    BY <1>1, <1>2, OrdersReadFacts
  <2>2. DOMAIN ordProc[p].view = Ord!Firsts
    BY <1>3 DEF OrdersGood, Ord!Viewed, Ord!At
  <2>. QED BY <2>1, <2>2, OrdersSlotFacts
<1>8. OrdersGood(r)'
  <2>1. ordRow' = ordRow /\ ordLine' = ordLine
    BY DEF Ord!ScanRetries
  <2>2. ordProc[p].late = {} /\ ordProc[p].mine = 0 /\ ordLine # "stripe"
    BY <1>3 DEF OrdersGood, Ord!Funded, Ord!Current, Ord!Single, Ord!At
  <2>. QED BY <1>5, <1>7, <2>1, <2>2 DEF OrdersGood, Ord!Viewed, Ord!Placed, Ord!Funded,
       Ord!Current, Ord!Single
<1>. QED BY <1>6, <1>8, OrdersQuietKeeps, OrdersKnown DEF Ord!ScanRetries

\* A request that decided goes on at l with slot s, and watches the orders of w.
LEMMA OrdersDecided ==
    ASSUME Ord!IInv, NEW p \in Askers, Ord!At(p, "decide"), NEW r \in Ord!Locals,
           r.pc \in {"reuse", "guard", "create"},
           ordProc' = [ordProc EXCEPT ![p] = r], Ord!Quiet, UNCHANGED <<ordLine, ordRow, ordLeft>>,
           r.view = ordProc[p].view, r.late = ordProc[p].late, r.mine = ordProc[p].mine,
           r.slot \in DOMAIN ordProc[p].view,
           r.pc # "reuse" => r.intent \/ (~Ord!IsContract(r.slot) /\ Ord!Behind(r.slot))
    PROVE  Ord!IInv'
<1>1. OrdersGood(ordProc[p]) /\ ordProc[p].pc = "decide"
  BY OrdersKnown DEF Ord!At
<1>2. ordProc[p].late = {} /\ ordProc[p].mine = 0 /\ ordLine # "stripe"
  BY <1>1 DEF OrdersGood, Ord!Funded, Ord!Current, Ord!Single
<1>3. OrdersGood(r)
  BY <1>1, <1>2 DEF OrdersGood, Ord!Viewed, Ord!Placed, Ord!Funded, Ord!Current, Ord!Single
<1>4. OrdersGood(r)'
  BY <1>3, OrdersSame, OrdersGoodKept
<1>. QED BY <1>4, OrdersQuietKeeps, OrdersKnown

\* The first free slot a request without an intent sees is behind all others.
LEMMA OrdersFirstFree ==
    ASSUME Ord!IInv, NEW p \in Askers, Ord!At(p, "decide"), NEW s \in DOMAIN ordProc[p].view,
           ~Ord!IsContract(s),
           \A t \in DOMAIN ordProc[p].view : Ord!Found(ordProc[p].view[t]) /\ ~Ord!IsContract(t)
           => ~Ord!Live(ordProc[p].view[t]),
           \A t \in DOMAIN ordProc[p].view : ~Ord!Found(ordProc[p].view[t]) /\ ~Ord!IsContract(t)
           => Ord!Rank(s) <= Ord!Rank(t)
    PROVE  Ord!Behind(s)
<1>1. Ord!Viewed(ordProc[p]) /\ ordProc[p].pc = "decide" /\ DOMAIN ordProc[p].view \subseteq Ord!Slots
  BY OrdersKnown, OrdersLocalFacts DEF Ord!At, OrdersGood
<1>2. SUFFICES ASSUME NEW t \in Ord!Slots, ~Ord!IsContract(t),
Ord!Rank(t) < Ord!Rank(s) PROVE Ord!Over(ordRow[t])
  BY DEF Ord!Behind
<1>3. Ord!Rank(s) \in Nat /\ Ord!Rank(t) \in Nat /\ s \in Ord!Slots
  BY <1>1, OrdersRankFacts
<1>4. CASE t \in DOMAIN ordProc[p].view
  <2>1. Ord!Over(ordProc[p].view[t])
    BY <1>2, <1>3, <1>4 DEF Ord!Over
  <2>. QED BY <1>1, <1>4, <2>1 DEF Ord!Viewed
<1>5. CASE t \notin DOMAIN ordProc[p].view
  <2>1. DOMAIN ordProc[p].view = Ord!Firsts /\ ~Ord!Over(ordProc[p].view[Ord!Base])
    BY <1>1, <1>2, <1>5 DEF Ord!Viewed
  <2>2. Ord!Base \in DOMAIN ordProc[p].view /\ ~Ord!IsContract(Ord!Base) /\ Ord!Rank(Ord!Base) = 0
    BY <2>1, OrdersSlotFacts
  <2>3. ~Ord!Found(ordProc[p].view[Ord!Base])
    BY <2>1, <2>2 DEF Ord!Over
  <2>4. Ord!Rank(s) <= 0
    BY <2>2, <2>3
  <2>. QED BY <1>2, <1>3, <2>4
<1>. QED BY <1>4, <1>5

LEMMA OrdersDecideKeeps == ASSUME Ord!IInv, NEW p \in Askers, Ord!Decide(p) PROVE Ord!IInv'
<1>. DEFINE v == ordProc[p].view
            S == DOMAIN v
            contract == {s \in S : Ord!Live(v[s]) /\ v[s].mode = "contract"}
            classic  == {s \in S : Ord!Live(v[s]) /\ v[s].mode = "classic" /\ ~Ord!IsContract(s)}
            over     == {s \in S : Ord!Found(v[s]) /\ ~Ord!Live(v[s])}
            free     == {s \in S : ~Ord!Found(v[s]) /\ (ordProc[p].intent \/ ~Ord!IsContract(s))}
            variants == {s \in S : ~Ord!Found(v[s]) /\ Ord!IsContract(s)}
<1>1. /\ ordProc[p] \in Ord!Locals /\ ordProc \in [Askers -> Ord!Locals] /\ Ord!At(p, "decide")
         /\ UNCHANGED <<ordLine, ordRow, ordLeft>>
      /\ S \in SUBSET Ord!Slots /\ v \in [S -> Ord!Rows]
  BY OrdersKnown, OrdersLocalFacts DEF Ord!Decide
<1>2. CASE Ord!Refuse(p)
  BY <1>1, <1>2, OrdersRefuseKeeps
<1>3. ASSUME NEW s \in S, ordProc' = [ordProc EXCEPT ![p].pc = "reuse", ![p].slot = s], Ord!Quiet
      PROVE  Ord!IInv'
  <2>1. PICK r \in Ord!Locals : r = [ordProc[p] EXCEPT !.pc = "reuse", !.slot = s]
    BY <1>1 DEF Ord!Locals, Ord!Steps
  <2>2. r.pc = "reuse" /\ r.slot = s /\ r.view = v /\ r.late = ordProc[p].late
        /\ r.mine = ordProc[p].mine
    BY <1>1, <2>1 DEF Ord!Locals
  <2>3. ordProc' = [ordProc EXCEPT ![p] = r]
    BY <1>1, <1>3, <2>1
  <2>. QED BY <1>1, <1>3, <2>2, <2>3, OrdersDecided
<1>4. ASSUME contract # {} PROVE Ord!Newest(contract) \in S
  BY <1>1, <1>4, OrdersNewestIn
<1>5. ASSUME classic # {} PROVE Ord!Newest(classic) \in S
  BY <1>1, <1>5, OrdersNewestIn
<1>6. CASE /\ ordProc[p].intent /\ classic # {} /\ variants # {} /\ Ord!Quiet
           /\ ordProc' = [ordProc EXCEPT ![p].pc = "create", ![p].slot = Ord!Free(variants),
                                         ![p].super = TRUE, ![p].watch = {Ord!Newest(classic)}]
  <2>1. Ord!Free(variants) \in S /\ {Ord!Newest(classic)} \in SUBSET Ord!Slots
    BY <1>1, <1>5, <1>6, OrdersFreeIn
  <2>2. PICK s \in S : s = Ord!Free(variants)
    BY <2>1
  <2>3. PICK w \in SUBSET Ord!Slots : w = {Ord!Newest(classic)}
    BY <2>1
  <2>4. PICK r \in Ord!Locals : r = [ordProc[p] EXCEPT !.pc = "create", !.slot = s, !.super = TRUE,
                                     !.watch = w]
    BY <1>1 DEF Ord!Locals, Ord!Steps
  <2>5. r.pc = "create" /\ r.slot = s /\ r.view = v /\ r.late = ordProc[p].late
        /\ r.mine = ordProc[p].mine
        /\ r.intent = ordProc[p].intent
    BY <1>1, <2>4 DEF Ord!Locals
  <2>6. ordProc' = [ordProc EXCEPT ![p] = r]
    <3>. HIDE DEF v, S, contract, classic, over, free, variants
    <3>. QED BY <1>1, <1>6, <2>2, <2>3, <2>4
  <2>7. r.slot \in DOMAIN ordProc[p].view /\ r.intent /\ r.view = ordProc[p].view
    BY <1>6, <2>2, <2>5
  <2>8. r.pc \in {"reuse", "guard", "create"} /\ r.view = ordProc[p].view
        /\ r.late = ordProc[p].late /\ r.mine = ordProc[p].mine
    BY <2>5
  <2>9. Ord!At(p, "decide") /\ Ord!Quiet /\ UNCHANGED <<ordLine, ordRow, ordLeft>>
    BY <1>1, <1>6
  <2>. QED BY <2>6, <2>7, <2>8, <2>9, OrdersDecided, Zenon
<1>7. CASE /\ free # {} /\ Ord!Quiet /\ (~ordProc[p].intent => classic = {} /\ contract = {})
           /\ ordProc' = [ordProc EXCEPT ![p].pc = IF over = {} THEN "create" ELSE "guard",
                                         ![p].slot = Ord!Free(free), ![p].watch = over]
  <2>1. PICK s \in free : s = Ord!Free(free) /\ \A t \in free : Ord!Rank(s) <= Ord!Rank(t)
    BY <1>1, <1>7, OrdersFreeIn
  <2>2. PICK w \in SUBSET Ord!Slots : w = over
    BY <1>1
  <2>3. PICK l \in {"create", "guard"} : l = IF over = {} THEN "create" ELSE "guard"
    OBVIOUS
  <2>4. PICK r \in Ord!Locals : r = [ordProc[p] EXCEPT !.pc = l, !.slot = s, !.watch = w]
    BY <1>1 DEF Ord!Locals, Ord!Steps
  <2>5. r.pc = l /\ r.slot = s /\ r.view = v /\ r.late = ordProc[p].late /\ r.mine = ordProc[p].mine
        /\ r.intent = ordProc[p].intent /\ r.intent \in BOOLEAN
    BY <1>1, <2>4 DEF Ord!Locals
  <2>6. ordProc' = [ordProc EXCEPT ![p] = r]
    <3>. HIDE DEF v, S, contract, classic, over, free, variants
    <3>. QED BY <1>1, <1>7, <2>1, <2>2, <2>3, <2>4
  <2>7. ASSUME ~r.intent PROVE ~Ord!IsContract(s) /\ Ord!Behind(s)
    <3>1. ~Ord!IsContract(s) /\ s \in S
      BY <2>1, <2>5, <2>7
    <3>2. \A t \in S : Ord!Found(v[t]) /\ ~Ord!IsContract(t) => ~Ord!Live(v[t])
      <4>1. SUFFICES ASSUME NEW t \in S, Ord!Found(v[t]), ~Ord!IsContract(t),
      Ord!Live(v[t]) PROVE FALSE
        OBVIOUS
      <4>2. v[t] \in Ord!Rows
        BY <1>1
      <4>3. v[t].mode \in {"classic", "contract"}
        BY <4>2, OrdersRowFacts
      <4>4. classic = {} /\ contract = {}
        BY <1>7, <2>5, <2>7
      <4>. QED BY <4>1, <4>3, <4>4
    <3>3. \A t \in S : ~Ord!Found(v[t]) /\ ~Ord!IsContract(t) => Ord!Rank(s) <= Ord!Rank(t)
      BY <2>1
    <3>. QED BY <1>1, <3>1, <3>2, <3>3, OrdersFirstFree
  <2>8. r.slot \in DOMAIN ordProc[p].view /\ r.view = ordProc[p].view
    BY <2>1, <2>5
  <2>9. r.intent \/ (~Ord!IsContract(r.slot) /\ Ord!Behind(r.slot))
    BY <2>5, <2>7
  <2>10. r.pc \in {"reuse", "guard", "create"} /\ r.view = ordProc[p].view
         /\ r.late = ordProc[p].late /\ r.mine = ordProc[p].mine
    BY <2>5
  <2>11. Ord!At(p, "decide") /\ Ord!Quiet /\ UNCHANGED <<ordLine, ordRow, ordLeft>>
    BY <1>1, <1>7
  <2>. QED BY <2>6, <2>8, <2>9, <2>10, <2>11, OrdersDecided, Zenon
<1>8. \/ Ord!Refuse(p)
      \/ contract # {} /\ Ord!Quiet
         /\ ordProc' = [ordProc EXCEPT ![p].pc = "reuse", ![p].slot = Ord!Newest(contract)]
      \/ classic # {} /\ Ord!Quiet
         /\ ordProc' = [ordProc EXCEPT ![p].pc = "reuse", ![p].slot = Ord!Newest(classic)]
      \/ /\ ordProc[p].intent /\ classic # {} /\ variants # {} /\ Ord!Quiet
         /\ ordProc' = [ordProc EXCEPT ![p].pc = "create", ![p].slot = Ord!Free(variants),
                                         ![p].super = TRUE, ![p].watch = {Ord!Newest(classic)}]
      \/ /\ free # {} /\ Ord!Quiet /\ (~ordProc[p].intent => classic = {} /\ contract = {})
         /\ ordProc' = [ordProc EXCEPT ![p].pc = IF over = {} THEN "create" ELSE "guard",
                                         ![p].slot = Ord!Free(free), ![p].watch = over]
  BY Zenon DEF Ord!Decide
<1>. HIDE DEF v, S, contract, classic, over, free, variants
<1>. QED BY <1>2, <1>3, <1>4, <1>5, <1>6, <1>7, <1>8

LEMMA OrdersGuardKeeps == ASSUME Ord!IInv, NEW p \in Askers, Ord!Guard(p) PROVE Ord!IInv'
<1>1. CASE Ord!Refuse(p)
  BY <1>1, OrdersRefuseKeeps DEF Ord!Guard
<1>2. CASE Ord!Go(p, "create") /\ Ord!Quiet
  <2>1. PICK r \in Ord!Locals :
           ordProc' = [ordProc EXCEPT ![p] = r] /\ r.pc = "create" /\ r.intent = ordProc[p].intent
            /\ r.view = ordProc[p].view /\ r.slot = ordProc[p].slot /\ r.late = ordProc[p].late
               /\ r.mine = ordProc[p].mine
    BY <1>2, OrdersGoFacts DEF Ord!Go, Ord!Steps
  <2>2. OrdersGood(ordProc[p]) /\ ordProc[p].pc = "guard"
    BY OrdersKnown DEF Ord!Guard, Ord!At
  <2>3. OrdersGood(r)
    BY <2>1, <2>2 DEF OrdersGood, Ord!Viewed, Ord!Placed, Ord!Funded, Ord!Current, Ord!Single
  <2>4. OrdersGood(r)'
    BY <2>3, OrdersSame, OrdersGoodKept DEF Ord!Guard
  <2>. QED BY <1>2, <2>1, <2>4, OrdersQuietKeeps, OrdersKnown DEF Ord!Guard
<1>. QED BY <1>1, <1>2 DEF Ord!Guard

-----------------------------------------------------------------------------
(* A fresh order.                                                          *)

\* The order upstream creates for a request with intent i.
LEMMA OrdersFreshRow ==
    ASSUME NEW i \in BOOLEAN
    PROVE  LET m == IF i THEN "contract" ELSE "classic"
               n == [Ord!Absent EXCEPT !.st = "unpaid", !.open = TRUE, !.mode = m]
           IN /\ n \in Ord!Rows /\ n.st = "unpaid" /\ n.ver = 0 /\ n.mode = m
<1>1. PICK m \in {"classic", "contract"} : m = IF i THEN "contract" ELSE "classic"
  OBVIOUS
<1>. DEFINE n == [Ord!Absent EXCEPT !.st = "unpaid", !.open = TRUE, !.mode = m]
<1>2. n \in Ord!Rows /\ n.st = "unpaid" /\ n.ver = 0 /\ n.mode = m
  BY DEF Ord!Absent, Ord!Rows
<1>. QED BY <1>1, <1>2

\* Upstream takes a free slot s.
LEMMA OrdersTakeKeeps ==
    ASSUME Ord!IInv, NEW s \in Ord!Slots, ~Ord!Found(ordRow[s]), NEW n \in Ord!Rows,
           n.st = "unpaid", n.ver = 0,
           ordRow' = [ordRow EXCEPT ![s] = n],
           n.mode = "classic" => ~Ord!IsContract(s) /\ Ord!Behind(s)
    PROVE  OrdersRises /\ \A t \in Ord!Slots : Ord!Lined(t)'
<1>1. ordRow \in [Ord!Slots -> Ord!Rows] /\ \A t \in Ord!Slots : Ord!Lined(t) /\ ordRow[t] \in Ord!Rows
  BY OrdersKnown
<1>4. ordRow'[s] = n /\ (\A t \in Ord!Slots : t # s => ordRow'[t] = ordRow[t])
      /\ ordRow' \in [Ord!Slots -> Ord!Rows]
  BY <1>1
<1>5. ordRow[s].ver = 0 /\ ~Ord!Over(ordRow[s]) /\ ~Ord!InFlight(ordRow[s])
  BY <1>1 DEF Ord!Lined, Ord!Over, Ord!Found, Ord!InFlight
<1>6. OrdersRises
  <2>1. \A t \in Ord!Slots : ordRow[t].ver \in Nat
    BY <1>1, OrdersRowFacts
  <2>. QED BY <1>4, <1>5, <2>1 DEF OrdersRises
<1>7. ASSUME NEW t \in Ord!Slots PROVE Ord!Lined(t)'
  <2>1. Ord!Behind(t) => Ord!Behind(t)'
    BY <1>6, OrdersBehindKept
  <2>2. CASE t = s
    BY <1>4, <2>1, <2>2 DEF Ord!Lined, Ord!Found
  <2>3. CASE t # s
    BY <1>1, <1>4, <2>1, <2>3 DEF Ord!Lined
  <2>. QED BY <2>2, <2>3
<1>. QED BY <1>6, <1>7

LEMMA OrdersCreateKeeps == ASSUME Ord!IInv, NEW p \in Askers, Ord!Create(p) PROVE Ord!IInv'
<1>1. /\ ordProc[p] \in Ord!Locals /\ OrdersGood(ordProc[p]) /\ ordProc[p].pc = "create"
         /\ Ord!Quiet /\ UNCHANGED <<ordLine, ordLeft>>
      /\ ordProc[p].intent \in BOOLEAN /\ ordProc[p].slot \in Ord!Slots /\ ordLine = "coinbase"
         /\ ordProc \in [Askers -> Ord!Locals]
  BY OrdersKnown, OrdersLocalFacts DEF Ord!Create, Ord!At
<1>2. Ord!Late(p) \subseteq ordProc[p].watch /\ Ord!Late(p) \in SUBSET Ord!Slots
      /\ \A s \in Ord!Late(p) : Ord!InFlight(ordRow[s])
  BY <1>1, OrdersLocalFacts DEF Ord!Late
<1>3. ASSUME ~Ord!Found(ordRow[ordProc[p].slot]),
             ordRow'
             = [ordRow EXCEPT ![ordProc[p].slot] = [Ord!Absent EXCEPT !.st = "unpaid", !.open = TRUE,
                                                !.mode = IF ordProc[p].intent THEN "contract"
                                                ELSE "classic"]]
      PROVE  OrdersRises /\ \A t \in Ord!Slots : Ord!Lined(t)'
  <2>1. PICK n \in Ord!Rows :
           /\ ordRow' = [ordRow EXCEPT ![ordProc[p].slot] = n] /\ n.st = "unpaid" /\ n.ver = 0
                              /\ n.mode = IF ordProc[p].intent THEN "contract" ELSE "classic"
    BY <1>1, <1>3, OrdersFreshRow
  <2>2. n.mode = "classic" => ~Ord!IsContract(ordProc[p].slot) /\ Ord!Behind(ordProc[p].slot)
    BY <1>1, <2>1 DEF OrdersGood, Ord!Placed
  <2>. QED BY <1>1, <1>3, <2>1, <2>2, OrdersTakeKeeps
<1>4. OrdersRises /\ \A t \in Ord!Slots : Ord!Lined(t)'
  <2>1. CASE ordRow' = ordRow
    BY <2>1, OrdersSame
  <2>. QED BY <1>3, <2>1, Zenon DEF Ord!Create
<1>5. ASSUME NEW l \in {"created", "conflict"},
ordProc' = [ordProc EXCEPT ![p].pc = l, ![p].late = Ord!Late(p)] PROVE Ord!IInv'
  <2>1. PICK L \in SUBSET Ord!Slots : L = Ord!Late(p)
    BY <1>2
  <2>2. PICK r \in Ord!Locals : r = [ordProc[p] EXCEPT !.pc = l, !.late = L]
    BY <1>1 DEF Ord!Locals, Ord!Steps
  <2>3. r.pc = l /\ r.late = L /\ r.view = ordProc[p].view /\ r.slot = ordProc[p].slot
        /\ r.mine = ordProc[p].mine
        /\ r.watch = ordProc[p].watch
    BY <1>1, <2>2 DEF Ord!Locals
  <2>4. ordProc' = [ordProc EXCEPT ![p] = r]
    BY <1>1, <1>5, <2>1, <2>2
  <2>5. OrdersGood(r)
    BY <1>1, <1>2, <2>1, <2>3 DEF OrdersGood, Ord!Viewed, Ord!Placed, Ord!Funded, Ord!Current,
         Ord!Single
  <2>6. OrdersGood(r)'
    BY <1>1, <1>4, <2>5, OrdersGoodKept
  <2>. QED BY <1>1, <1>4, <2>4, <2>6, OrdersStepKeeps, OrdersKnown DEF Ord!Quiet
<1>6. CASE ordProc' = [ordProc EXCEPT ![p] = Ord!Idle]
  BY <1>1, <1>4, <1>6, OrdersIdleGood, OrdersStepKeeps, OrdersKnown DEF Ord!Quiet
<1>. QED BY <1>5, <1>6 DEF Ord!Create

\* A re-check that passes finds none of the orders funded before the slot was taken.
LEMMA OrdersClearFacts ==
    ASSUME Ord!IInv, NEW p \in Askers, ordProc[p].pc \in {"created", "conflict"}, NEW u \in BOOLEAN,
           Ord!Clear(p, u)
    PROVE  ordProc[p].late = {} \/ u
<1>1. ordProc[p].late \subseteq ordProc[p].watch /\ \A s \in ordProc[p].late : Ord!InFlight(ordRow[s])
  BY OrdersKnown DEF OrdersGood, Ord!Funded
<1>2. u \/ \A s \in ordProc[p].watch : ordRow[s].st # "funded"
  BY DEF Ord!Clear, Ord!StillOver
<1>. QED BY <1>1, <1>2 DEF Ord!InFlight

LEMMA OrdersCreatedKeeps == ASSUME Ord!IInv, NEW p \in Askers, Ord!Created(p) PROVE Ord!IInv'
<1>1. /\ ordProc[p].pc = "created" /\ UNCHANGED <<ordLine, ordRow, ordLeft>>
         /\ ordProc[p].slot \in Ord!Slots
      /\ ordProc[p].mine = 0
  BY OrdersKnown, OrdersLocalFacts DEF Ord!Created, Ord!At, OrdersGood, Ord!Current
<1>2. PICK u \in BOOLEAN : IF Ord!Clear(p, u) THEN Ord!HandOut(p, ordProc[p].slot, 0, u)
           ELSE Ord!Refuse(p)
  BY DEF Ord!Created
<1>3. CASE Ord!Refuse(p)
  BY <1>1, <1>3, OrdersRefuseKeeps
<1>4. CASE Ord!Clear(p, u) /\ Ord!HandOut(p, ordProc[p].slot, 0, u)
  <2>1. ordProc[p].late = {} \/ u
    BY <1>1, <1>4, OrdersClearFacts
  <2>2. ~(0 < ordProc[p].mine)
    BY <1>1
  <2>. QED BY <1>1, <1>4, <2>1, <2>2, OrdersHandOutKeeps
<1>. QED BY <1>2, <1>3, <1>4

LEMMA OrdersConflictKeeps == ASSUME Ord!IInv, NEW p \in Askers, Ord!Conflict(p) PROVE Ord!IInv'
<1>1. /\ ordProc[p].pc = "conflict" /\ UNCHANGED <<ordLine, ordRow, ordLeft>>
         /\ ordProc[p].slot \in Ord!Slots
      /\ ordProc[p].mine = 0 /\ ordRow[ordProc[p].slot].ver \in Nat
  BY OrdersKnown, OrdersLocalFacts, OrdersRowFacts DEF Ord!Conflict, Ord!At, OrdersGood, Ord!Current
<1>2. PICK u \in BOOLEAN :
          Ord!Refuse(p)
          \/ (Ord!Clear(p, u) /\ Ord!HandOut(p, ordProc[p].slot, ordRow[ordProc[p].slot].ver, u))
  BY DEF Ord!Conflict
<1>3. CASE Ord!Refuse(p)
  BY <1>1, <1>3, OrdersRefuseKeeps
<1>4. CASE Ord!Clear(p, u) /\ Ord!HandOut(p, ordProc[p].slot, ordRow[ordProc[p].slot].ver, u)
  <2>1. ordProc[p].late = {} \/ u
    BY <1>1, <1>4, OrdersClearFacts
  <2>2. ~(ordRow[ordProc[p].slot].ver < ordProc[p].mine)
    BY <1>1
  <2>. QED BY <1>1, <1>4, <2>1, <2>2, OrdersHandOutKeeps
<1>. QED BY <1>2, <1>3, <1>4

-----------------------------------------------------------------------------
(* An order that exists.                                                   *)

\* A request goes on to the switch.
LEMMA OrdersGoSwitch ==
    ASSUME Ord!IInv, NEW p \in Askers, ordProc[p].pc = "reuse", Ord!Go(p, "switch"), Ord!Quiet,
           UNCHANGED <<ordLine, ordRow, ordLeft>>
    PROVE  Ord!IInv'
<1>1. PICK r \in Ord!Locals :
         ordProc' = [ordProc EXCEPT ![p] = r] /\ r.pc = "switch" /\ r.intent = ordProc[p].intent
          /\ r.view = ordProc[p].view /\ r.slot = ordProc[p].slot /\ r.late = ordProc[p].late
             /\ r.mine = ordProc[p].mine
  BY OrdersGoFacts DEF Ord!Go, Ord!Steps
<1>2. OrdersGood(ordProc[p])
  BY OrdersKnown
<1>3. OrdersGood(r)
  BY <1>1, <1>2 DEF OrdersGood, Ord!Viewed, Ord!Placed, Ord!Funded, Ord!Current, Ord!Single
<1>4. OrdersGood(r)'
  BY <1>3, OrdersSame, OrdersGoodKept
<1>. QED BY <1>1, <1>4, OrdersQuietKeeps, OrdersKnown

\* What a request that reuses an order knows of it.
LEMMA OrdersReuseFacts ==
    ASSUME Ord!IInv, NEW p \in Askers, ordProc[p].pc = "reuse"
    PROVE  /\ ordProc[p].slot \in Ord!Slots /\ ordProc[p].late = {} /\ ordProc[p].mine = 0
           /\ ordProc[p].view[ordProc[p].slot].ver \in Nat
           /\ ordLine = "stripe" => ordProc[p].slot = Ord!Base
<1>1. OrdersGood(ordProc[p]) /\ ordProc[p].view \in [DOMAIN ordProc[p].view -> Ord!Rows]
      /\ ordProc[p].slot \in Ord!Slots
  BY OrdersKnown, OrdersLocalFacts
<1>2. ordProc[p].slot \in DOMAIN ordProc[p].view
  BY <1>1 DEF OrdersGood, Ord!Viewed
<1>3. ordProc[p].view[ordProc[p].slot].ver \in Nat
  BY <1>1, <1>2, OrdersRowFacts
<1>. QED BY <1>1, <1>3 DEF OrdersGood, Ord!Funded, Ord!Current, Ord!Single

LEMMA OrdersAnswerKeeps ==
    ASSUME Ord!IInv, NEW p \in Askers, NEW s \in Ord!Slots, NEW ver,
           Ord!Answer(p, s, ver) \/ Ord!Seed(p, s, ver) \/ Ord!HandOut(p, s, ver, FALSE),
           UNCHANGED <<ordLine, ordRow, ordLeft>>, ordProc[p].late = {}, ~(ver < ordProc[p].mine)
    PROVE  Ord!IInv'
<1>1. Ord!HandOut(p, s, ver, FALSE) \/ Ord!Refuse(p)
  BY DEF Ord!Answer, Ord!Seed
<1>. QED BY <1>1, OrdersHandOutKeeps, OrdersRefuseKeeps

LEMMA OrdersReuseKeeps == ASSUME Ord!IInv, NEW p \in Askers, Ord!Reuse(p) PROVE Ord!IInv'
<1>1. ordProc[p].pc = "reuse" /\ UNCHANGED <<ordLine, ordRow, ordLeft>>
  BY DEF Ord!Reuse, Ord!At
<1>2. ordProc[p].slot \in Ord!Slots /\ ordProc[p].late = {} /\ ordProc[p].mine = 0
      /\ ordProc[p].view[ordProc[p].slot].ver \in Nat
  BY <1>1, OrdersReuseFacts
<1>3. ~(ordProc[p].view[ordProc[p].slot].ver < ordProc[p].mine)
  BY <1>2
<1>4. \/ Ord!HandOut(p, ordProc[p].slot, ordProc[p].view[ordProc[p].slot].ver, FALSE)
      \/ Ord!Refuse(p) \/ (Ord!Go(p, "switch") /\ Ord!Quiet)
  BY DEF Ord!Reuse
<1>. QED BY <1>1, <1>2, <1>3, <1>4, OrdersAnswerKeeps, OrdersRefuseKeeps, OrdersGoSwitch

\* An order is re-targeted.
LEMMA OrdersSwitchRises ==
    ASSUME Ord!IInv, NEW s \in Ord!Slots, Ord!Unpaid(ordRow[s]),
           ordRow' = [ordRow EXCEPT ![s].ver = @ + 1]
    PROVE  OrdersRises /\ (\A t \in Ord!Slots : Ord!Lined(t)') /\ ordRow'[s].ver = ordRow[s].ver + 1
           /\ ordRow[s].ver \in Nat
<1>1. ordRow \in [Ord!Slots -> Ord!Rows] /\ \A t \in Ord!Slots : Ord!Lined(t)
      /\ ordRow[t] \in Ord!Rows /\ ordRow[t].ver \in Nat
  BY OrdersKnown, OrdersRowFacts
<1>2. PICK n \in Ord!Rows : n = [ordRow[s] EXCEPT !.ver = @ + 1]
  BY <1>1 DEF Ord!Rows
<1>3. n.st = ordRow[s].st /\ n.open = ordRow[s].open /\ n.mode = ordRow[s].mode
      /\ n.ver = ordRow[s].ver + 1
  BY <1>1, <1>2 DEF Ord!Rows
<1>4. ordRow' = [ordRow EXCEPT ![s] = n]
  BY <1>1, <1>2
<1>5. ordRow'[s] = n /\ (\A t \in Ord!Slots : t # s => ordRow'[t] = ordRow[t])
      /\ ordRow' \in [Ord!Slots -> Ord!Rows]
  BY <1>1, <1>4
<1>6. OrdersRises
  BY <1>1, <1>3, <1>5 DEF OrdersRises, Ord!Over, Ord!InFlight, Ord!Found, Ord!Live
<1>7. ASSUME NEW t \in Ord!Slots PROVE Ord!Lined(t)'
  <2>1. Ord!Behind(t) => Ord!Behind(t)'
    BY <1>6, OrdersBehindKept
  <2>2. CASE t = s
    BY <1>1, <1>3, <1>5, <2>1, <2>2 DEF Ord!Lined, Ord!Found, Ord!Unpaid
  <2>3. CASE t # s
    BY <1>1, <1>5, <2>1, <2>3 DEF Ord!Lined
  <2>. QED BY <2>2, <2>3
<1>. QED BY <1>1, <1>3, <1>5, <1>6, <1>7

LEMMA OrdersSwitchKeeps == ASSUME Ord!IInv, NEW p \in Askers, Ord!Switch(p) PROVE Ord!IInv'
<1>1. /\ ordProc[p] \in Ord!Locals /\ ordProc \in [Askers -> Ord!Locals] /\ OrdersGood(ordProc[p])
         /\ ordProc[p].pc = "switch"
      /\ ordProc[p].slot \in Ord!Slots /\ UNCHANGED <<ordLine, ordLeft>>
         /\ ordRow[ordProc[p].slot].ver \in Nat
  BY OrdersKnown, OrdersLocalFacts, OrdersRowFacts DEF Ord!Switch, Ord!At
<1>2. PICK s \in Ord!Slots : s = ordProc[p].slot
  BY <1>1
<1>3. ASSUME NEW l \in {"switched", "reread"}, NEW m \in Nat, OrdersRises,
\A t \in Ord!Slots : Ord!Lined(t)', Ord!Quiet,
             l = "reread" => m <= ordRow'[s].ver, l = "switched" => Ord!Unpaid(ordRow[s]),
             ordProc' = [ordProc EXCEPT ![p].pc = l, ![p].mine = m,
                         ![p].late = {t \in {s} : Ord!InFlight(ordRow[s])}]
      PROVE  Ord!IInv'
  <2>1. PICK L \in SUBSET Ord!Slots : L = {t \in {s} : Ord!InFlight(ordRow[s])}
    OBVIOUS
  <2>2. PICK r \in Ord!Locals : r = [ordProc[p] EXCEPT !.pc = l, !.mine = m, !.late = L]
    BY <1>1 DEF Ord!Locals, Ord!Steps
  <2>3. r.pc = l /\ r.mine = m /\ r.late = L /\ r.view = ordProc[p].view /\ r.slot = s
    BY <1>1, <1>2, <2>2 DEF Ord!Locals
  <2>4. ordProc' = [ordProc EXCEPT ![p] = r]
    BY <1>1, <1>3, <2>1, <2>2
  <2>5. OrdersGood(r)'
    <3>1. \A t \in L : Ord!InFlight(ordRow'[t])
      BY <1>3, <2>1 DEF OrdersRises
    <3>2. l = "switched" => L = {}
      BY <1>3, <2>1 DEF Ord!Unpaid, Ord!InFlight
    <3>3. L \subseteq {s}
      BY <2>1
    <3>4. DOMAIN ordProc[p].view \subseteq Ord!Slots
      BY <1>1, OrdersLocalFacts
    <3>5. \A t \in DOMAIN ordProc[p].view : Ord!Over(ordProc[p].view[t]) => Ord!Over(ordRow'[t])
      BY <1>1, <1>3, <3>4 DEF OrdersGood, Ord!Viewed, OrdersRises
    <3>6. ordLine' = "stripe" => s = Ord!Base
      BY <1>1, <1>2 DEF OrdersGood, Ord!Single
    <3>7. Ord!Funded(r)'
      BY <1>3, <2>3, <3>1, <3>2, <3>3 DEF Ord!Funded
    <3>8. Ord!Viewed(r)'
      BY <1>3, <2>3, <3>5 DEF Ord!Viewed
    <3>9. Ord!Current(r)'
      BY <1>3, <2>3 DEF Ord!Current
    <3>10. Ord!Placed(r)' /\ Ord!Single(r)'
      BY <1>3, <2>3, <3>6 DEF Ord!Placed, Ord!Single
    <3>. QED BY <3>7, <3>8, <3>9, <3>10 DEF OrdersGood
  <2>. QED BY <1>1, <1>3, <2>4, <2>5, OrdersStepKeeps, OrdersKnown DEF Ord!Quiet
<1>4. CASE Ord!Refuse(p) /\ UNCHANGED ordRow
  BY <1>1, <1>4, OrdersRefuseKeeps
<1>5. CASE /\ ordProc' = [ordProc EXCEPT ![p].pc = "reread", ![p].mine = 0,
                          ![p].late = {t \in {s} : Ord!InFlight(ordRow[s])}]
           /\ UNCHANGED ordRow /\ Ord!Quiet
  <2>1. 0 <= ordRow'[s].ver
    BY <1>1, <1>2, <1>5
  <2>. QED BY <1>3, <1>5, <2>1, OrdersSame
<1>6. ASSUME NEW l \in {"switched", "reread"}, Ord!Quiet, Ord!Unpaid(ordRow[s]),
ordRow' = [ordRow EXCEPT ![s].ver = @ + 1],
             ordProc' = [ordProc EXCEPT ![p].pc = l, ![p].mine = ordRow[s].ver + 1,
                         ![p].late = {t \in {s} : Ord!InFlight(ordRow[s])}]
      PROVE  Ord!IInv'
  <2>1. OrdersRises /\ (\A t \in Ord!Slots : Ord!Lined(t)') /\ ordRow'[s].ver = ordRow[s].ver + 1
        /\ ordRow[s].ver \in Nat
    BY <1>6, OrdersSwitchRises
  <2>2. PICK m \in Nat : m = ordRow[s].ver + 1
    BY <2>1
  <2>3. ordProc' = [ordProc EXCEPT ![p].pc = l, ![p].mine = m,
                    ![p].late = {t \in {s} : Ord!InFlight(ordRow[s])}]
    BY <1>6, <2>2
  <2>4. m <= ordRow'[s].ver
    BY <2>1, <2>2
  <2>. QED BY <1>3, <1>6, <2>1, <2>3, <2>4
<1>7. \/ Ord!Refuse(p) /\ UNCHANGED ordRow
      \/ /\ ordProc' = [ordProc EXCEPT ![p].pc = "reread", ![p].mine = 0,
                        ![p].late = {t \in {s} : Ord!InFlight(ordRow[s])}]
         /\ UNCHANGED ordRow /\ Ord!Quiet
      \/ \E l \in {"switched", "reread"} :
           /\ Ord!Unpaid(ordRow[s]) /\ ordRow' = [ordRow EXCEPT ![s].ver = @ + 1] /\ Ord!Quiet
           /\ ordProc' = [ordProc EXCEPT ![p].pc = l, ![p].mine = ordRow[s].ver + 1,
                          ![p].late = {t \in {s} : Ord!InFlight(ordRow[s])}]
  BY <1>2 DEF Ord!Switch
<1>. QED BY <1>4, <1>5, <1>6, <1>7

LEMMA OrdersSwitchedKeeps == ASSUME Ord!IInv, NEW p \in Askers, Ord!Switched(p) PROVE Ord!IInv'
<1>1. /\ OrdersGood(ordProc[p]) /\ ordProc[p].pc = "switched" /\ ordProc[p].slot \in Ord!Slots
         /\ UNCHANGED <<ordLine, ordRow, ordLeft>>
      /\ ordProc[p].mine \in Nat
  BY OrdersKnown, OrdersLocalFacts DEF Ord!Switched, Ord!At
<1>2. ordProc[p].late = {} /\ ~(ordProc[p].mine < ordProc[p].mine)
  BY <1>1 DEF OrdersGood, Ord!Funded
<1>. QED BY <1>1, <1>2, OrdersAnswerKeeps DEF Ord!Switched

LEMMA OrdersRereadKeeps == ASSUME Ord!IInv, NEW p \in Askers, Ord!Reread(p) PROVE Ord!IInv'
<1>1. /\ OrdersGood(ordProc[p]) /\ ordProc[p].pc = "reread" /\ ordProc[p].slot \in Ord!Slots
         /\ UNCHANGED <<ordLine, ordRow, ordLeft>>
      /\ ordProc[p].mine \in Nat /\ ordRow[ordProc[p].slot].ver \in Nat
  BY OrdersKnown, OrdersLocalFacts, OrdersRowFacts DEF Ord!Reread, Ord!At
<1>2. CASE Ord!Refuse(p)
  BY <1>1, <1>2, OrdersRefuseKeeps
<1>3. CASE Ord!Unpaid(ordRow[ordProc[p].slot])
           /\ Ord!Answer(p, ordProc[p].slot, ordRow[ordProc[p].slot].ver)
  <2>1. ordProc[p].late = {}
    BY <1>1, <1>3 DEF OrdersGood, Ord!Funded, Ord!Unpaid, Ord!InFlight
  <2>2. ~(ordRow[ordProc[p].slot].ver < ordProc[p].mine)
    BY <1>1 DEF OrdersGood, Ord!Current
  <2>. QED BY <1>1, <1>3, <2>1, <2>2, OrdersAnswerKeeps
<1>. QED BY <1>2, <1>3 DEF Ord!Reread

-----------------------------------------------------------------------------
(* The Stripe ordLine.                                                        *)

\* Nothing precedes the base slot.
LEMMA OrdersBaseFirst == ~Ord!IsContract(Ord!Base) /\ Ord!Behind(Ord!Base)
BY OrdersSlotFacts, OrdersRankFacts DEF Ord!Behind

LEMMA OrdersLookupStripeKeeps == ASSUME Ord!IInv, NEW p \in Askers,
Ord!LookupStripe(p) PROVE Ord!IInv'
<1>1. /\ ordProc[p] \in Ord!Locals /\ ordProc \in [Askers -> Ord!Locals] /\ OrdersGood(ordProc[p])
         /\ ordProc[p].pc = "scan"
      /\ ordLine = "stripe" /\ UNCHANGED <<ordLine, ordRow, ordLeft>>
  BY OrdersKnown DEF Ord!LookupStripe, Ord!At
<1>2. CASE Ord!Refuse(p)
  BY <1>1, <1>2, OrdersRefuseKeeps
<1>3. CASE Ord!Go(p, "create") /\ Ord!Quiet
  <2>1. PICK r \in Ord!Locals :
           ordProc' = [ordProc EXCEPT ![p] = r] /\ r.pc = "create" /\ r.intent = ordProc[p].intent
            /\ r.view = ordProc[p].view /\ r.slot = ordProc[p].slot /\ r.late = ordProc[p].late
               /\ r.mine = ordProc[p].mine
    BY <1>3, OrdersGoFacts DEF Ord!Go, Ord!Steps
  <2>2. OrdersGood(r)
    BY <1>1, <2>1, OrdersBaseFirst DEF OrdersGood, Ord!Viewed, Ord!Placed, Ord!Funded, Ord!Current,
         Ord!Single
  <2>3. OrdersGood(r)'
    BY <1>1, <2>2, OrdersSame, OrdersGoodKept
  <2>. QED BY <1>1, <1>3, <2>1, <2>3, OrdersQuietKeeps, OrdersKnown
<1>4. CASE ordProc' = [ordProc EXCEPT ![p].pc = "reuse", ![p].view = Ord!Read(p, {Ord!Base})]
           /\ Ord!Quiet
  <2>1. {Ord!Base} \in SUBSET Ord!Slots
    BY OrdersSlotFacts
  <2>2. PICK v \in Ord!Views : /\ v = Ord!Read(p, {Ord!Base}) /\ Ord!Base \in DOMAIN v
                               /\ \A s \in DOMAIN v : Ord!Over(v[s]) => Ord!Over(ordRow[s])
    BY <2>1, OrdersReadFacts
  <2>3. PICK r \in Ord!Locals : r = [ordProc[p] EXCEPT !.pc = "reuse", !.view = v]
    BY <1>1 DEF Ord!Locals, Ord!Steps
  <2>4. r.pc = "reuse" /\ r.view = v /\ r.slot = ordProc[p].slot /\ r.late = ordProc[p].late
        /\ r.mine = ordProc[p].mine
    BY <1>1, <2>3 DEF Ord!Locals
  <2>5. ordProc' = [ordProc EXCEPT ![p] = r]
    BY <1>1, <1>4, <2>2, <2>3
  <2>6. OrdersGood(r)
    BY <1>1, <2>2, <2>4 DEF OrdersGood, Ord!Viewed, Ord!Placed, Ord!Funded, Ord!Current, Ord!Single
  <2>7. OrdersGood(r)'
    BY <1>1, <2>6, OrdersSame, OrdersGoodKept
  <2>. QED BY <1>1, <1>4, <2>5, <2>7, OrdersQuietKeeps, OrdersKnown
<1>. QED BY <1>2, <1>3, <1>4 DEF Ord!LookupStripe

LEMMA OrdersStripeReuseKeeps == ASSUME Ord!IInv, NEW p \in Askers,
Ord!StripeReuse(p) PROVE Ord!IInv'
<1>1. ordProc[p].pc = "reuse" /\ UNCHANGED <<ordLine, ordRow, ordLeft>> /\ ordLine = "stripe"
  BY DEF Ord!StripeReuse, Ord!At
<1>2. ordProc[p].slot = Ord!Base /\ Ord!Base \in Ord!Slots /\ ordProc[p].late = {}
      /\ ~(ordProc[p].view[Ord!Base].ver < ordProc[p].mine)
  BY <1>1, OrdersReuseFacts
<1>3. Ord!Answer(p, Ord!Base, ordProc[p].view[Ord!Base].ver) \/ Ord!Refuse(p)
      \/ (Ord!Go(p, "switch") /\ Ord!Quiet)
  BY DEF Ord!StripeReuse
<1>. QED BY <1>1, <1>2, <1>3, OrdersAnswerKeeps, OrdersRefuseKeeps, OrdersGoSwitch

LEMMA OrdersStripeCreateKeeps == ASSUME Ord!IInv, NEW p \in Askers,
Ord!StripeCreate(p) PROVE Ord!IInv'
<1>1. /\ ordProc[p] \in Ord!Locals /\ OrdersGood(ordProc[p]) /\ ordProc[p].pc = "create"
         /\ UNCHANGED <<ordLine, ordLeft>>
      /\ ordLine = "stripe" /\ ordProc[p].intent \in BOOLEAN
  BY OrdersKnown, OrdersLocalFacts DEF Ord!StripeCreate, Ord!At
<1>2. CASE Ord!Found(ordRow[Ord!Base]) /\ UNCHANGED ordRow /\ Ord!Refuse(p)
  BY <1>1, <1>2, OrdersRefuseKeeps
<1>3. CASE /\ ~Ord!Found(ordRow[Ord!Base])
           /\ ordRow' = [ordRow EXCEPT ![Ord!Base] = [Ord!Absent EXCEPT !.st = "unpaid", !.open = TRUE,
                                              !.mode = IF ordProc[p].intent THEN "contract"
                                              ELSE "classic"]]
           /\ (Ord!Go(p, "created") /\ Ord!Quiet) \/ Ord!Refuse(p)
  <2>1. PICK n \in Ord!Rows : ordRow' = [ordRow EXCEPT ![Ord!Base] = n] /\ n.st = "unpaid" /\ n.ver = 0
    BY <1>1, <1>3, OrdersFreshRow
  <2>2. OrdersRises /\ \A t \in Ord!Slots : Ord!Lined(t)'
    BY <1>3, <2>1, OrdersTakeKeeps, OrdersBaseFirst, OrdersSlotFacts
  <2>3. CASE Ord!Refuse(p)
    BY <1>1, <2>2, <2>3, OrdersIdleGood, OrdersStepKeeps, OrdersKnown DEF Ord!Refuse
  <2>4. CASE Ord!Go(p, "created") /\ Ord!Quiet
    <3>1. PICK r \in Ord!Locals :
             ordProc' = [ordProc EXCEPT ![p] = r] /\ r.pc = "created" /\ r.intent = ordProc[p].intent
              /\ r.view = ordProc[p].view /\ r.slot = ordProc[p].slot /\ r.late = ordProc[p].late
                 /\ r.mine = ordProc[p].mine
      BY <2>4, OrdersGoFacts DEF Ord!Go, Ord!Steps
    <3>2. OrdersGood(r)
      BY <1>1, <3>1 DEF OrdersGood, Ord!Viewed, Ord!Placed, Ord!Funded, Ord!Current, Ord!Single
    <3>3. OrdersGood(r)'
      BY <1>1, <2>2, <3>2, OrdersGoodKept
    <3>. QED BY <1>1, <2>2, <2>4, <3>1, <3>3, OrdersStepKeeps, OrdersKnown DEF Ord!Quiet
  <2>. QED BY <1>3, <2>3, <2>4
<1>. QED BY <1>2, <1>3 DEF Ord!StripeCreate

LEMMA OrdersStripeCreatedKeeps == ASSUME Ord!IInv, NEW p \in Askers,
Ord!StripeCreated(p) PROVE Ord!IInv'
<1>1. OrdersGood(ordProc[p]) /\ ordProc[p].pc = "created" /\ UNCHANGED <<ordLine, ordRow, ordLeft>>
      /\ ordLine = "stripe" /\ Ord!Base \in Ord!Slots
  BY OrdersKnown, OrdersSlotFacts DEF Ord!StripeCreated, Ord!At
<1>2. ordProc[p].late = {} /\ ~(0 < ordProc[p].mine)
  BY <1>1 DEF OrdersGood, Ord!Single, Ord!Current
<1>. QED BY <1>1, <1>2, OrdersAnswerKeeps DEF Ord!StripeCreated

-----------------------------------------------------------------------------
(* Payers and the orders Ord!upstream.                                         *)

LEMMA OrdersOrderKeeps == ASSUME Ord!IInv, NEW s \in Ord!Slots, Ord!Order(s) PROVE Ord!IInv'
<1>1. ordRow \in [Ord!Slots -> Ord!Rows] /\ \A t \in Ord!Slots : Ord!Lined(t)
      /\ ordRow[t] \in Ord!Rows /\ ordRow[t].ver \in Nat
  BY OrdersKnown, OrdersRowFacts
<1>2. PICK n \in Ord!Rows :
         ordRow' = [ordRow EXCEPT ![s] = n] /\ n.mode = ordRow[s].mode /\ n.ver = ordRow[s].ver
          /\ Ord!Found(ordRow[s]) /\ Ord!Found(n) /\ (Ord!InFlight(ordRow[s]) => Ord!InFlight(n))
             /\ (Ord!Over(ordRow[s]) => Ord!Over(n))
  <2>1. CASE ordRow[s].st \in {"unpaid", "expired"} /\ ordRow' = [ordRow EXCEPT ![s].sent = TRUE]
    <3>. DEFINE n == [ordRow[s] EXCEPT !.sent = TRUE]
    <3>1. n \in Ord!Rows /\ n.st = ordRow[s].st /\ n.open = ordRow[s].open
          /\ n.mode = ordRow[s].mode /\ n.ver = ordRow[s].ver
      BY <1>1 DEF Ord!Rows
    <3>. QED BY <1>1, <2>1, <3>1 DEF Ord!Found, Ord!InFlight, Ord!Over, Ord!Live
  <2>2. CASE ordRow[s].st \in {"unpaid", "expired"} /\ ordRow' = [ordRow EXCEPT ![s].st = "funded"]
    <3>. DEFINE n == [ordRow[s] EXCEPT !.st = "funded"]
    <3>1. n \in Ord!Rows /\ n.st = "funded" /\ n.open = ordRow[s].open /\ n.mode = ordRow[s].mode
          /\ n.ver = ordRow[s].ver
      BY <1>1 DEF Ord!Rows
    <3>. QED BY <1>1, <2>2, <3>1 DEF Ord!Found, Ord!InFlight, Ord!Over, Ord!Live
  <2>3. CASE Ord!Unpaid(ordRow[s]) /\ ordRow' = [ordRow EXCEPT ![s].open = FALSE]
    <3>. DEFINE n == [ordRow[s] EXCEPT !.open = FALSE]
    <3>1. n \in Ord!Rows /\ n.st = ordRow[s].st /\ n.open = FALSE /\ n.mode = ordRow[s].mode
          /\ n.ver = ordRow[s].ver
      BY <1>1 DEF Ord!Rows
    <3>. QED BY <1>1, <2>3, <3>1 DEF Ord!Found, Ord!InFlight, Ord!Over, Ord!Live, Ord!Unpaid
  <2>4. CASE Ord!Unpaid(ordRow[s]) /\ ~ordRow[s].open /\ ordRow' = [ordRow EXCEPT ![s].st = "expired"]
    <3>. DEFINE n == [ordRow[s] EXCEPT !.st = "expired"]
    <3>1. n \in Ord!Rows /\ n.st = "expired" /\ n.open = ordRow[s].open /\ n.mode = ordRow[s].mode
          /\ n.ver = ordRow[s].ver
      BY <1>1 DEF Ord!Rows
    <3>. QED BY <1>1, <2>4, <3>1 DEF Ord!Found, Ord!InFlight, Ord!Over, Ord!Live, Ord!Unpaid
  <2>5. CASE Ord!Unpaid(ordRow[s]) /\ ordRow' = [ordRow EXCEPT ![s].st = "lapsed"]
    <3>. DEFINE n == [ordRow[s] EXCEPT !.st = "lapsed"]
    <3>1. n \in Ord!Rows /\ n.st = "lapsed" /\ n.open = ordRow[s].open /\ n.mode = ordRow[s].mode
          /\ n.ver = ordRow[s].ver
      BY <1>1 DEF Ord!Rows
    <3>. QED BY <1>1, <2>5, <3>1 DEF Ord!Found, Ord!InFlight, Ord!Over, Ord!Live, Ord!Unpaid
  <2>. QED BY <2>1, <2>2, <2>3, <2>4, <2>5 DEF Ord!Order
<1>3. ordRow'[s] = n /\ (\A t \in Ord!Slots : t # s => ordRow'[t] = ordRow[t])
      /\ ordRow' \in [Ord!Slots -> Ord!Rows]
  BY <1>1, <1>2
<1>4. OrdersRises
  BY <1>1, <1>2, <1>3 DEF OrdersRises
<1>5. ASSUME NEW t \in Ord!Slots PROVE Ord!Lined(t)'
  <2>1. Ord!Behind(t) => Ord!Behind(t)'
    BY <1>4, OrdersBehindKept
  <2>2. CASE t = s
    BY <1>1, <1>2, <1>3, <2>1, <2>2 DEF Ord!Lined
  <2>3. CASE t # s
    BY <1>1, <1>3, <2>1, <2>3 DEF Ord!Lined
  <2>. QED BY <2>2, <2>3
<1>6. UNCHANGED <<ordLine, ordProc, ordLeft, ordHanded, ordDoubled, ordRetired>>
  BY DEF Ord!Order, Ord!Quiet
<1>7. Ord!TypeOK'
  BY <1>4, <1>6, OrdersKnown DEF Ord!TypeOK, OrdersRises
<1>8. ASSUME NEW q \in Askers PROVE OrdersGood(ordProc[q])'
  <2>1. PICK h \in Ord!Locals : h = ordProc[q] /\ OrdersGood(h)
    BY OrdersKnown
  <2>2. OrdersGood(h)' /\ ordProc'[q] = h
    BY <1>4, <1>6, <2>1, OrdersGoodKept
  <2>. QED BY <2>2 DEF OrdersGood, Ord!Viewed, Ord!Placed, Ord!Funded, Ord!Current, Ord!Single
<1>. QED BY <1>5, <1>6, <1>7, <1>8, OrdersKnown DEF Ord!IInv, OrdersGood

-----------------------------------------------------------------------------
(* The theorems.                                                           *)

LEMMA OrdersInitInv == Ord!Init => Ord!IInv
<1>. SUFFICES ASSUME Ord!Init PROVE Ord!IInv
  OBVIOUS
<1>1. Ord!Absent \in Ord!Rows /\ ~Ord!Found(Ord!Absent) /\ Ord!Absent.ver = 0
  BY DEF Ord!Absent, Ord!Rows, Ord!Found
<1>2. \A s \in Ord!Slots : ordRow[s] = Ord!Absent
  BY DEF Ord!Init
<1>3. \A s \in Ord!Slots : Ord!Lined(s)
  BY <1>1, <1>2 DEF Ord!Lined
<1>4. Ord!Idle \in Ord!Locals /\ Ord!Idle.pc = "idle" /\ DOMAIN Ord!Idle.view = {}
  BY OrdersIdleGood DEF Ord!Idle
<1>5. Ord!Idle.late = {} /\ Ord!Idle.mine = 0 /\ Ord!Idle.slot = Ord!Base
  BY DEF Ord!Idle
<1>6. Ord!TypeOK
  <2>1. MaxRequests \in Nat
    BY OrderConstants
  <2>. HIDE DEF Ord!Idle, Ord!Absent, Ord!Locals, Ord!Rows
  <2>. QED BY <1>1, <1>4, <2>1 DEF Ord!Init, Ord!TypeOK
<1>7. \A p \in Askers : ordProc[p] = Ord!Idle
  BY DEF Ord!Init
<1>8. Ord!Viewed(Ord!Idle) /\ Ord!Placed(Ord!Idle) /\ Ord!Funded(Ord!Idle) /\ Ord!Current(Ord!Idle)
      /\ Ord!Single(Ord!Idle)
  <2>. HIDE DEF Ord!Idle
  <2>. QED BY <1>4, <1>5 DEF Ord!Viewed, Ord!Placed, Ord!Funded, Ord!Current, Ord!Single
<1>9. ~ordDoubled /\ ~ordRetired
  BY DEF Ord!Init
<1>. QED BY <1>3, <1>6, <1>7, <1>8, <1>9 DEF Ord!IInv

LEMMA OrdersStutterKeeps == ASSUME Ord!IInv, UNCHANGED Ord!vars PROVE Ord!IInv'
<1>1. UNCHANGED <<ordLine, ordRow, ordHanded, ordProc, ordDoubled, ordRetired, ordLeft>>
  BY DEF Ord!vars, Ord!upstream
<1>. QED BY <1>1 DEF Ord!IInv, Ord!TypeOK, Ord!Lined, Ord!Behind, Ord!Viewed, Ord!Placed,
     Ord!Funded, Ord!Current, Ord!Single

LEMMA OrdersNextKeeps == Ord!IInv /\ [Ord!Next]_Ord!vars => Ord!IInv'
<1>. SUFFICES ASSUME Ord!IInv, [Ord!Next]_Ord!vars PROVE Ord!IInv'
  OBVIOUS
<1>1. CASE UNCHANGED Ord!vars
  BY <1>1, OrdersStutterKeeps
<1>2. ASSUME NEW s \in Ord!Slots, Ord!Order(s) PROVE Ord!IInv'
  BY <1>2, OrdersOrderKeeps
<1>3. ASSUME NEW p \in Askers, Ord!Step(p) PROVE Ord!IInv'
  BY <1>3, OrdersRequestKeeps, OrdersScanFirstKeeps, OrdersScanRetriesKeeps, OrdersDecideKeeps,
       OrdersGuardKeeps, OrdersCreateKeeps, OrdersCreatedKeeps,
     OrdersConflictKeeps, OrdersReuseKeeps, OrdersSwitchKeeps, OrdersSwitchedKeeps,
     OrdersRereadKeeps, OrdersLookupStripeKeeps, OrdersStripeReuseKeeps,
     OrdersStripeCreateKeeps, OrdersStripeCreatedKeeps DEF Ord!Step
<1>. QED BY <1>1, <1>2, <1>3 DEF Ord!Next

\* Every reachable state of the orders of a link is one the invariant describes.
THEOREM OrdersInvariant == Ord!Spec => []Ord!IInv
BY OrdersInitInv, OrdersNextKeeps, PTL DEF Ord!Spec

LEMMA OrdersOneLive == Ord!IInv => Ord!OneLiveClassic
<1>. SUFFICES ASSUME Ord!IInv, NEW s \in Ord!Slots, NEW t \in Ord!Slots, Ord!Live(ordRow[s]),
Ord!Live(ordRow[t]),
                     ordRow[s].mode = "classic", ordRow[t].mode = "classic", s # t
              PROVE  FALSE
  BY DEF Ord!OneLiveClassic
<1>1. Ord!Lined(s) /\ Ord!Lined(t) /\ Ord!Found(ordRow[s]) /\ Ord!Found(ordRow[t])
  BY OrdersKnown DEF Ord!Live
<1>2. Ord!Behind(s) /\ Ord!Behind(t) /\ ~Ord!IsContract(s) /\ ~Ord!IsContract(t)
  BY <1>1 DEF Ord!Lined
<1>3. Ord!Rank(s) \in Nat /\ Ord!Rank(t) \in Nat /\ Ord!Rank(s) # Ord!Rank(t)
  BY OrdersRankFacts
<1>4. Ord!Over(ordRow[s]) \/ Ord!Over(ordRow[t])
  BY <1>2, <1>3 DEF Ord!Behind
<1>. QED BY <1>4 DEF Ord!Over

LEMMA OrdersKeptSafe == Ord!IInv => Ord!OneLiveClassic /\ Ord!NotPaidTwice /\ Ord!HandedIsCurrent
BY OrdersOneLive DEF Ord!IInv, Ord!NotPaidTwice, Ord!HandedIsCurrent

\* One live classic order per link, none handed out that could pay twice or with
\* retired details.
THEOREM OrdersSafe == Ord!Spec => [](Ord!OneLiveClassic /\ Ord!NotPaidTwice /\ Ord!HandedIsCurrent)
BY OrdersKeptSafe, OrdersInvariant, PTL

-----------------------------------------------------------------------------
(* The registry: what the invariant gives a step, what a step keeps of it. *)

RegistryGood(r) == Reg!Copy(r) /\ Reg!Vouched(r)

LEMMA RegistryKnown ==
    ASSUME Reg!IInv
    PROVE  /\ Reg!TypeOK /\ regW \in [Reg!Workers -> Reg!Locals] /\ regRec \in Reg!Recs
           /\ regClaim \in [Reg!Digests -> Reg!Claims] /\ regPaid \in [Reg!Digests -> Nat]
              /\ regServed \subseteq Payloads
           /\ \A x \in Reg!Workers : regW[x] \in Reg!Locals /\ RegistryGood(regW[x]) /\ Reg!Alone(x)
           /\ \A d \in Reg!Digests : Reg!Booked(d) /\ regClaim[d] \in Reg!Claims /\ regPaid[d] \in Nat
           /\ Reg!Named(regRec) /\ Reg!PublishedWasPaid /\ Reg!LastWordStands /\ Reg!Listed
BY DEF Reg!IInv, RegistryGood, Reg!TypeOK

LEMMA RegistryLocalFacts ==
    ASSUME NEW r \in Reg!Locals
    PROVE  /\ r.pc \in Reg!Steps /\ r.row \in Reg!Recs /\ r.seen \in BOOLEAN /\ r.pay \in Reg!Names
              /\ r.proof \in Reg!Kinds
           /\ r.had \in BOOLEAN /\ r.result \in {"none", "failed", "unsigned", "ok", "uncertain"}
BY DEF Reg!Locals

LEMMA RegistryRecFacts ==
    ASSUME NEW r \in Reg!Recs
    PROVE  /\ r.status \in {"none", "pending", "published", "suspended"} /\ r.pay \in Reg!Names
           /\ r.proof \in Reg!Kinds /\ r.domain \in BOOLEAN
BY DEF Reg!Recs

LEMMA RegistryIdleFacts ==
    /\ Reg!None \in Reg!Recs /\ Reg!None.status = "none" /\ Reg!Idle \in Reg!Locals
       /\ Reg!Idle.pc = "idle" /\ Reg!Idle.seen = TRUE
    /\ Reg!Idle.result = "none" /\ Reg!Idle.row = Reg!None
    /\ \A l \in Reg!Steps : LET r == [Reg!Idle EXCEPT !.pc = l] IN r \in Reg!Locals /\ r.pc = l
BY DEF Reg!None, Reg!Idle, Reg!Recs, Reg!Locals, Reg!Names, Reg!Kinds, Reg!Steps

\* The version a worker is about has a claim of its own.
LEMMA RegistryEpochIn ==
    ASSUME Reg!IInv, NEW x \in Reg!Workers,
           regW[x].pc \notin {"idle", "done", "recheck", "write", "index"}
    PROVE  regW[x].pay \in Payloads /\ Reg!Epoch(x) \in Reg!Digests
<1>1. regW[x].pay \in Payloads
  BY RegistryKnown DEF RegistryGood, Reg!Vouched
<1>. QED BY <1>1 DEF Reg!Epoch, Reg!Digests

\* The record stays, and served payloads and slips only grow.
RegistryCalm == regRec' = regRec /\ regServed \subseteq regServed' /\ regSlips \subseteq regSlips'

LEMMA RegistryVouchedKept ==
    ASSUME regServed \subseteq regServed', regSlips \subseteq regSlips', NEW r, Reg!Vouched(r)
    PROVE  Reg!Vouched(r)'
BY DEF Reg!Vouched, Reg!Served, Reg!Named

LEMMA RegistryGoodKept ==
    ASSUME RegistryCalm, NEW r, RegistryGood(r) PROVE RegistryGood(r)'
<1>1. Reg!Vouched(r)'
  BY RegistryVouchedKept DEF RegistryCalm, RegistryGood
<1>2. Reg!Copy(r)'
  BY DEF RegistryCalm, RegistryGood, Reg!Copy
<1>. QED BY <1>1, <1>2 DEF RegistryGood

\* No worker starts to pay, and the books stay as they are.
LEMMA RegistryAloneSame ==
    ASSUME Reg!IInv, regClaim' = regClaim, regPaid' = regPaid,
           \A y \in Reg!Workers : regW'[y].pc \in {"pay", "record"} =>
               regW'[y].pc = regW[y].pc /\ regW'[y].pay = regW[y].pay
               /\ regW'[y].result = regW[y].result
    PROVE  (\A y \in Reg!Workers : Reg!Alone(y)') /\ \A d \in Reg!Digests : Reg!Booked(d)'
<1>1. \A d \in Reg!Digests : Reg!Booked(d)'
  BY RegistryKnown DEF Reg!Booked
<1>2. ASSUME NEW y \in Reg!Workers, Reg!Paying(y)'
      PROVE  Reg!Paying(y) /\ Reg!Epoch(y)' = Reg!Epoch(y) /\ regW'[y].pc = regW[y].pc
             /\ regW'[y].result = regW[y].result
  BY <1>2 DEF Reg!Paying, Reg!Epoch
<1>3. ASSUME NEW y \in Reg!Workers, Reg!Paying(y)'
      PROVE  /\ y \in Verifs /\ regClaim'[Reg!Epoch(y)'].state = "running"
             /\ (Reg!At(y, "record"))' => regW'[y].result \in {"unsigned", "ok", "uncertain"}
             /\ (Reg!At(y, "pay"))' \/ regW'[y].result = "unsigned" => regPaid'[Reg!Epoch(y)'] = 0
  BY <1>2, <1>3, RegistryKnown DEF Reg!Alone, Reg!At
<1>4. ASSUME NEW y \in Reg!Workers, Reg!Paying(y)', NEW z \in Reg!Workers, Reg!Paying(z)',
Reg!Epoch(z)' = Reg!Epoch(y)' PROVE z = y
  BY <1>2, <1>4, RegistryKnown DEF Reg!Alone
<1>. QED BY <1>1, <1>3, <1>4 DEF Reg!Alone

\* One worker goes on with r: what it pays for nobody else pays for, and the
\* claims other workers are at stay as they are.
LEMMA RegistryAloneKept ==
    ASSUME Reg!IInv, NEW x \in Reg!Workers, NEW r \in Reg!Locals, regW' = [regW EXCEPT ![x] = r],
           r.pc \in {"pay", "record"} =>
               /\ x \in Verifs /\ regClaim'[Digest[r.pay]].state = "running"
               /\ \A y \in Reg!Workers \ {x} : Reg!Paying(y) => Reg!Epoch(y) # Digest[r.pay]
               /\ r.pc = "record" => r.result \in {"unsigned", "ok", "uncertain"}
               /\ r.pc = "pay" \/ r.result = "unsigned" => regPaid'[Digest[r.pay]] = 0,
           \A y \in Reg!Workers \ {x} : Reg!Paying(y)
           => regClaim'[Reg!Epoch(y)] = regClaim[Reg!Epoch(y)]
           /\ regPaid'[Reg!Epoch(y)] = regPaid[Reg!Epoch(y)]
    PROVE  \A y \in Reg!Workers : Reg!Alone(y)'
<1>1. regW'[x] = r /\ \A y \in Reg!Workers \ {x} : regW'[y] = regW[y]
  BY RegistryKnown
<1>2. ASSUME NEW y \in Reg!Workers \ {x} PROVE Reg!Alone(y) /\ (Reg!Paying(y)' <=> Reg!Paying(y))
             /\ Reg!Epoch(y)' = Reg!Epoch(y)
  BY <1>1, RegistryKnown DEF Reg!Paying, Reg!Epoch
<1>3. Reg!Epoch(x)' = Digest[r.pay] /\ (Reg!Paying(x)' <=> r.pc \in {"pay", "record"})
  BY <1>1 DEF Reg!Epoch, Reg!Paying
<1>4. ASSUME NEW y \in Reg!Workers, Reg!Paying(y)', NEW z \in Reg!Workers, Reg!Paying(z)',
Reg!Epoch(z)' = Reg!Epoch(y)' PROVE z = y
  <2>1. CASE y = x /\ z # x
    BY <1>2, <1>3, <1>4, <2>1
  <2>2. CASE z = x /\ y # x
    BY <1>2, <1>3, <1>4, <2>2
  <2>3. CASE y # x /\ z # x
    BY <1>2, <1>4, <2>3 DEF Reg!Alone
  <2>. QED BY <2>1, <2>2, <2>3
<1>5. ASSUME NEW y \in Reg!Workers, Reg!Paying(y)'
      PROVE  /\ y \in Verifs /\ regClaim'[Reg!Epoch(y)'].state = "running"
             /\ (Reg!At(y, "record"))' => regW'[y].result \in {"unsigned", "ok", "uncertain"}
             /\ (Reg!At(y, "pay"))' \/ regW'[y].result = "unsigned" => regPaid'[Reg!Epoch(y)'] = 0
  <2>1. CASE y = x
    BY <1>1, <1>3, <1>5, <2>1 DEF Reg!At
  <2>2. CASE y # x
    BY <1>1, <1>2, <1>5, <2>2 DEF Reg!At, Reg!Alone
  <2>. QED BY <2>1, <2>2
<1>. QED BY <1>4, <1>5 DEF Reg!Alone

\* A worker goes on with r; record, index and last word stay.
LEMMA RegistryGoesOn ==
    ASSUME Reg!IInv, NEW x \in Reg!Workers, NEW r \in Reg!Locals, regW' = [regW EXCEPT ![x] = r],
           regW[x].pc # "index",
           RegistryCalm,
           UNCHANGED <<regIndex, regIntent, regSigned>>, Reg!TypeOK', RegistryGood(r)',
           \A y \in Reg!Workers : Reg!Alone(y)', \A d \in Reg!Digests : Reg!Booked(d)'
    PROVE  Reg!IInv'
<1>1. regW'[x] = r /\ \A y \in Reg!Workers \ {x} : regW'[y] = regW[y]
  BY RegistryKnown
<1>2. ASSUME NEW y \in Reg!Workers PROVE Reg!Copy(regW[y])' /\ Reg!Vouched(regW[y])'
  <2>1. CASE y = x
    BY <1>1, <2>1 DEF RegistryGood, Reg!Copy, Reg!Vouched, Reg!Served
  <2>2. CASE y # x
    <3>1. regW'[y] = regW[y]
      BY <1>1, <2>2
    <3>2. PICK h : h = regW[y] /\ RegistryGood(h)
      BY RegistryKnown
    <3>3. RegistryGood(h)'
      BY <3>2, RegistryGoodKept
    <3>. QED BY <3>1, <3>2, <3>3 DEF RegistryGood, Reg!Copy, Reg!Vouched, Reg!Served
  <2>. QED BY <2>1, <2>2
<1>3. Reg!Named(regRec)' /\ Reg!PublishedWasPaid' /\ Reg!LastWordStands'
  BY RegistryKnown DEF RegistryCalm, Reg!Named, Reg!PublishedWasPaid, Reg!LastWordStands
<1>4. Reg!Listed'
  <2>1. CASE regIndex = Reg!Splice(regRec) \/ "spliced" \in regSlips
    BY <2>1 DEF Reg!Listed, RegistryCalm, Reg!Splice
  <2>2. CASE \E y \in Reg!Workers : Reg!At(y, "index") /\ regW[y].row = regRec
    BY <1>1, <2>2 DEF Reg!Listed, Reg!At, RegistryCalm
  <2>. QED BY <2>1, <2>2, RegistryKnown DEF Reg!Listed
<1>. QED BY <1>2, <1>3, <1>4 DEF Reg!IInv

\* The same for a step that touches no claim and pays nothing.
LEMMA RegistryWalks ==
    ASSUME Reg!IInv, NEW x \in Reg!Workers, NEW r \in Reg!Locals, regW' = [regW EXCEPT ![x] = r],
           regW[x].pc # "index",
           r.pc \notin {"pay", "record"}, RegistryCalm,
           UNCHANGED <<regIndex, regIntent, regSigned, regClaim, regPaid>>, Reg!TypeOK',
           RegistryGood(r)'
    PROVE  Reg!IInv'
<1>1. \A y \in Reg!Workers : regW'[y].pc \in {"pay", "record"} =>
               regW'[y].pc = regW[y].pc /\ regW'[y].pay = regW[y].pay
               /\ regW'[y].result = regW[y].result
  BY RegistryKnown
<1>2. (\A y \in Reg!Workers : Reg!Alone(y)') /\ \A d \in Reg!Digests : Reg!Booked(d)'
  BY <1>1, RegistryAloneSame
<1>. QED BY <1>2, RegistryGoesOn

LEMMA RegistryEndGood == LET r == [Reg!Idle EXCEPT !.pc = "done"] IN r \in Reg!Locals
/\ r.pc = "done" /\ RegistryGood(r)'
<1>1. PICK r \in Reg!Locals : r = [Reg!Idle EXCEPT !.pc = "done"] /\ r.pc = "done"
  BY RegistryIdleFacts DEF Reg!Steps
<1>2. RegistryGood(r)'
  BY <1>1 DEF RegistryGood, Reg!Copy, Reg!Vouched, Reg!Reading
<1>. QED BY <1>1, <1>2

\* A worker goes to another step with what it has.
RegistryMoved(x, r, l) ==
    /\ regW' = [regW EXCEPT ![x] = r] /\ r.pc = l
    /\ r.row = regW[x].row /\ r.seen = regW[x].seen /\ r.pay = regW[x].pay /\ r.proof = regW[x].proof
    /\ r.had = regW[x].had /\ r.result = regW[x].result

LEMMA RegistryGotoFacts ==
    ASSUME Reg!IInv, NEW x \in Reg!Workers, NEW l \in Reg!Steps, Reg!Goto(x, l)
    PROVE  \E r \in Reg!Locals : RegistryMoved(x, r, l)
<1>. DEFINE r == [regW[x] EXCEPT !.pc = l]
<1>1. regW[x] \in Reg!Locals /\ regW \in [Reg!Workers -> Reg!Locals]
  BY RegistryKnown
<1>2. /\ r \in Reg!Locals /\ r.pc = l /\ r.row = regW[x].row /\ r.seen = regW[x].seen
         /\ r.pay = regW[x].pay
      /\ r.proof = regW[x].proof /\ r.had = regW[x].had /\ r.result = regW[x].result
  BY <1>1 DEF Reg!Locals
<1>3. regW' = [regW EXCEPT ![x] = r]
  BY <1>1 DEF Reg!Goto
<1>. HIDE DEF r
<1>. QED BY <1>2, <1>3 DEF RegistryMoved

LEMMA RegistryTypeKept ==
    ASSUME Reg!IInv, regW' \in [Reg!Workers -> Reg!Locals], regRec' \in Reg!Recs,
           regServed' \subseteq Payloads, regSlips' \subseteq {"raced", "reused", "recycled", "spliced"},
           regClaim' \in [Reg!Digests -> Reg!Claims], regPaid' \in [Reg!Digests -> Nat],
           regSigned' \in BOOLEAN,
           regIntent' \in [pay : Reg!Names, suspended : BOOLEAN], regIndex' \in Reg!Names,
           regSnapshot' \in Reg!Names,
           regIdClaim' \in BOOLEAN, regToken' \in BOOLEAN, regEvidence' \in BOOLEAN,
           regFaults' \in Nat
    PROVE  Reg!TypeOK'
BY DEF Reg!TypeOK

LEMMA RegistryWalkType ==
    ASSUME Reg!IInv, NEW x \in Reg!Workers, NEW r \in Reg!Locals, regW' = [regW EXCEPT ![x] = r],
           UNCHANGED <<regRec, regIndex, regSnapshot, Reg!proofs, Reg!money, regIntent, regSigned,
                       regSlips, regFaults>>
    PROVE  Reg!TypeOK' /\ RegistryCalm
           /\ UNCHANGED <<regIndex, regIntent, regSigned, regClaim, regPaid>>
<1>1. regW' \in [Reg!Workers -> Reg!Locals]
  BY RegistryKnown
<1>. QED BY <1>1, RegistryKnown DEF Reg!TypeOK, Reg!proofs, Reg!money, RegistryCalm

\* A worker goes on with r and changes nothing else.
LEMMA RegistryOnlyWalks ==
    ASSUME Reg!IInv, NEW x \in Reg!Workers, NEW r \in Reg!Locals, regW' = [regW EXCEPT ![x] = r],
           regW[x].pc # "index",
           r.pc \notin {"pay", "record"}, RegistryGood(r)',
           UNCHANGED <<regRec, regIndex, regSnapshot, Reg!proofs, Reg!money, regIntent, regSigned,
                       regSlips, regFaults>>
    PROVE  Reg!IInv'
BY RegistryWalkType, RegistryWalks

LEMMA RegistryOnlyEnds ==
    ASSUME Reg!IInv, NEW x \in Reg!Workers, Reg!End(x), regW[x].pc # "index",
           UNCHANGED <<regRec, regIndex, regSnapshot, Reg!proofs, Reg!money, regIntent, regSigned,
                       regSlips, regFaults>>
    PROVE  Reg!IInv'
<1>1. PICK r \in Reg!Locals : regW' = [regW EXCEPT ![x] = r] /\ r.pc = "done" /\ RegistryGood(r)'
  BY RegistryEndGood DEF Reg!End
<1>. QED BY <1>1, RegistryOnlyWalks

-----------------------------------------------------------------------------
(* Writes of the record and of the regIndex.                                  *)

\* A worker whose copy is out of date.
LEMMA RegistryStaleFacts ==
    ASSUME NEW h \in Reg!Locals
    PROVE  LET r == [h EXCEPT !.seen = FALSE] IN
           /\ r \in Reg!Locals /\ r.seen = FALSE /\ r.pc = h.pc /\ r.row = h.row /\ r.pay = h.pay
           /\ r.proof = h.proof /\ r.had = h.had /\ r.result = h.result
BY DEF Reg!Locals

LEMMA RegistryStaleGood ==
    ASSUME NEW h \in Reg!Locals, Reg!Vouched(h), regServed \subseteq regServed',
           regSlips \subseteq regSlips'
    PROVE  LET r == [h EXCEPT !.seen = FALSE] IN RegistryGood(r)'
<1>1. PICK r \in Reg!Locals :
         /\ r = [h EXCEPT !.seen = FALSE] /\ r.seen = FALSE /\ r.pc = h.pc /\ r.row = h.row
                         /\ r.pay = h.pay /\ r.proof = h.proof /\ r.result = h.result
  BY RegistryStaleFacts
<1>2. Reg!Vouched(r)
  BY <1>1 DEF Reg!Vouched
<1>3. Reg!Vouched(r)'
  BY <1>2, RegistryVouchedKept
<1>4. Reg!Copy(r)'
  BY <1>1 DEF Reg!Copy
<1>. QED BY <1>1, <1>3, <1>4 DEF RegistryGood

LEMMA RegistryPutRecordKeeps ==
    ASSUME Reg!IInv, NEW x \in Reg!Workers, NEW row \in Reg!Recs, Reg!PutRecord(x, row),
           regW[x].pc \notin {"pay", "record"}, Reg!Named(row),
           row.status = "published" => Reg!Served(row.pay), Reg!LastWordStands',
           UNCHANGED <<regIndex, regSnapshot, Reg!proofs, Reg!money, regFaults>>,
           regIntent' \in [pay : Reg!Names, suspended : BOOLEAN], regSigned' \in BOOLEAN
    PROVE  Reg!IInv'
<1>1. regRec' = row /\ regSlips \subseteq regSlips'
      /\ regSlips' \subseteq {"raced", "reused", "recycled", "spliced"}
  BY RegistryKnown DEF Reg!PutRecord, Reg!Slip, Reg!TypeOK
<1>2. PICK r \in Reg!Locals : /\ r = [regW[x] EXCEPT !.pc = "index", !.row = row]
                         /\ r.pc = "index" /\ r.row = row /\ r.seen = regW[x].seen
  <2>. DEFINE g == [regW[x] EXCEPT !.pc = "index", !.row = row]
  <2>1. regW[x] \in Reg!Locals
    BY RegistryKnown
  <2>2. g \in Reg!Locals /\ g.pc = "index" /\ g.row = row /\ g.seen = regW[x].seen
    BY <2>1 DEF Reg!Locals, Reg!Steps
  <2>. QED BY <2>2, Zenon
<1>3. /\ regW'[x] = r /\ \A y \in Reg!Workers \ {x} : regW'[y] = [regW[y] EXCEPT !.seen = FALSE]
      /\ regW' = [y \in Reg!Workers |-> IF y = x THEN r ELSE [regW[y] EXCEPT !.seen = FALSE]]
  BY <1>2 DEF Reg!PutRecord
<1>4. regW' \in [Reg!Workers -> Reg!Locals]
  BY <1>3, RegistryKnown, RegistryStaleFacts
<1>5. Reg!TypeOK'
  BY <1>1, <1>4, RegistryTypeKept, RegistryKnown DEF Reg!TypeOK, Reg!money, Reg!proofs
<1>6. regClaim' = regClaim /\ regPaid' = regPaid /\ regServed' = regServed
  BY DEF Reg!money
<1>7. \A y \in Reg!Workers : regW'[y].pc \in {"pay", "record"} =>
               regW'[y].pc = regW[y].pc /\ regW'[y].pay = regW[y].pay
               /\ regW'[y].result = regW[y].result
  BY <1>2, <1>3, RegistryKnown, RegistryStaleFacts
<1>8. (\A y \in Reg!Workers : Reg!Alone(y)') /\ \A d \in Reg!Digests : Reg!Booked(d)'
  BY <1>6, <1>7, RegistryAloneSame
<1>9. ASSUME NEW y \in Reg!Workers PROVE Reg!Copy(regW[y])' /\ Reg!Vouched(regW[y])'
  <2>1. CASE y = x
    <3>1. RegistryGood(r)'
      BY <1>1, <1>2 DEF RegistryGood, Reg!Copy, Reg!Vouched, Reg!Reading
    <3>. QED BY <1>3, <2>1, <3>1 DEF RegistryGood, Reg!Copy, Reg!Vouched, Reg!Served
  <2>2. CASE y # x
    <3>1. PICK h \in Reg!Locals : h = regW[y] /\ Reg!Vouched(h)
      BY RegistryKnown DEF RegistryGood
    <3>2. PICK g : g = [h EXCEPT !.seen = FALSE] /\ RegistryGood(g)'
      BY <1>1, <1>6, <3>1, RegistryStaleGood
    <3>3. regW'[y] = g
      BY <1>3, <2>2, <3>1, <3>2
    <3>. QED BY <3>2, <3>3 DEF RegistryGood, Reg!Copy, Reg!Vouched, Reg!Served
  <2>. QED BY <2>1, <2>2
<1>10. Reg!Named(regRec)'
  BY <1>1 DEF Reg!Named
<1>11. Reg!PublishedWasPaid'
  BY <1>1, <1>6 DEF Reg!PublishedWasPaid, Reg!Served
<1>12. Reg!Listed'
  BY <1>1, <1>2, <1>3 DEF Reg!Listed, Reg!At
<1>. QED BY <1>5, <1>8, <1>9, <1>10, <1>11, <1>12 DEF Reg!IInv

LEMMA RegistryPutIndexKeeps == ASSUME Reg!IInv, NEW x \in Reg!Workers,
Reg!PutIndex(x) PROVE Reg!IInv'
<1>1. /\ regW[x].pc = "index" /\ regIndex' = Reg!Splice(regW[x].row)
         /\ UNCHANGED <<regRec, regSnapshot, Reg!proofs, Reg!money, regIntent, regSigned, regFaults>>
      /\ regSlips' = regSlips \cup {k \in {"spliced"} : ~regW[x].seen} /\ regW[x] \in Reg!Locals
         /\ RegistryGood(regW[x])
  BY RegistryKnown DEF Reg!PutIndex, Reg!At, Reg!Slip
<1>2. PICK r \in Reg!Locals : regW' = [regW EXCEPT ![x] = r] /\ r.pc = "done" /\ RegistryGood(r)'
  BY RegistryEndGood DEF Reg!PutIndex, Reg!End
<1>3. regW' \in [Reg!Workers -> Reg!Locals] /\ regW'[x] = r
      /\ \A y \in Reg!Workers \ {x} : regW'[y] = regW[y]
  BY <1>2, RegistryKnown
<1>4. regIndex' \in Reg!Names
  BY <1>1, RegistryLocalFacts, RegistryRecFacts DEF Reg!Splice, Reg!Names
<1>5. RegistryCalm /\ UNCHANGED <<regClaim, regPaid, regServed>>
  BY <1>1 DEF RegistryCalm, Reg!money
<1>6. Reg!TypeOK'
  BY <1>1, <1>3, <1>4, <1>5, RegistryTypeKept, RegistryKnown DEF Reg!TypeOK, Reg!proofs
<1>7. \A y \in Reg!Workers : regW'[y].pc \in {"pay", "record"} =>
               regW'[y].pc = regW[y].pc /\ regW'[y].pay = regW[y].pay
               /\ regW'[y].result = regW[y].result
  BY <1>2, <1>3
<1>8. (\A y \in Reg!Workers : Reg!Alone(y)') /\ \A d \in Reg!Digests : Reg!Booked(d)'
  BY <1>5, <1>7, RegistryAloneSame
<1>9. ASSUME NEW y \in Reg!Workers PROVE Reg!Copy(regW[y])' /\ Reg!Vouched(regW[y])'
  <2>1. PICK h : h = regW'[y] /\ RegistryGood(h)'
    <3>1. CASE y = x
      BY <1>2, <1>3, <3>1
    <3>2. CASE y # x
      <4>1. PICK h : h = regW[y] /\ RegistryGood(h)
        BY RegistryKnown
      <4>2. RegistryGood(h)'
        BY <1>5, <4>1, RegistryGoodKept
      <4>. QED BY <1>3, <3>2, <4>1, <4>2
    <3>. QED BY <3>1, <3>2
  <2>. QED BY <2>1 DEF RegistryGood, Reg!Copy, Reg!Vouched, Reg!Served
<1>10. Reg!Named(regRec)' /\ Reg!PublishedWasPaid' /\ Reg!LastWordStands'
  BY <1>1, <1>5, RegistryKnown DEF RegistryCalm, Reg!Named, Reg!PublishedWasPaid, Reg!LastWordStands
<1>11. Reg!Listed'
  <2>1. CASE regW[x].seen
    <3>1. regW[x].row = regRec
      BY <1>1, <2>1 DEF RegistryGood, Reg!Copy
    <3>. QED BY <1>1, <3>1 DEF Reg!Listed, Reg!Splice
  <2>2. CASE ~regW[x].seen
    BY <1>1, <2>2 DEF Reg!Listed
  <2>. QED BY <2>1, <2>2
<1>. QED BY <1>6, <1>8, <1>9, <1>10, <1>11 DEF Reg!IInv

-----------------------------------------------------------------------------
(* Reg!Steps of no worker.                                                     *)

LEMMA RegistryNobodyMoves ==
    ASSUME Reg!IInv, regW' = regW, RegistryCalm,
           UNCHANGED <<regIntent, regSigned>>, Reg!TypeOK', regIndex' = regIndex
           \/ "spliced" \in regSlips',
           \A y \in Reg!Workers : Reg!Alone(y)', \A d \in Reg!Digests : Reg!Booked(d)'
    PROVE  Reg!IInv'
<1>1. ASSUME NEW y \in Reg!Workers PROVE Reg!Copy(regW[y])' /\ Reg!Vouched(regW[y])'
  <2>1. PICK h : h = regW[y] /\ RegistryGood(h)
    BY RegistryKnown
  <2>2. RegistryGood(h)'
    BY <2>1, RegistryGoodKept
  <2>. QED BY <2>1, <2>2 DEF RegistryGood, Reg!Copy, Reg!Vouched, Reg!Served
<1>2. Reg!Named(regRec)' /\ Reg!PublishedWasPaid' /\ Reg!LastWordStands'
  BY RegistryKnown DEF RegistryCalm, Reg!Named, Reg!PublishedWasPaid, Reg!LastWordStands
<1>3. Reg!Listed'
  <2>1. CASE regIndex = Reg!Splice(regRec) \/ "spliced" \in regSlips
    BY <2>1 DEF Reg!Listed, RegistryCalm, Reg!Splice
  <2>2. CASE \E y \in Reg!Workers : Reg!At(y, "index") /\ regW[y].row = regRec
    BY <2>2 DEF Reg!Listed, Reg!At, RegistryCalm
  <2>. QED BY <2>1, <2>2, RegistryKnown DEF Reg!Listed
<1>. QED BY <1>1, <1>2, <1>3 DEF Reg!IInv

\* No money moves.
LEMMA RegistryNoMoney ==
    ASSUME Reg!IInv, regW' = regW, regRec' = regRec, regSlips \subseteq regSlips',
           UNCHANGED <<Reg!money, regIntent, regSigned>>, Reg!TypeOK',
           regIndex' = regIndex \/ "spliced" \in regSlips'
    PROVE  Reg!IInv'
<1>1. regClaim' = regClaim /\ regPaid' = regPaid /\ RegistryCalm
  BY DEF Reg!money, RegistryCalm
<1>2. (\A y \in Reg!Workers : Reg!Alone(y)') /\ \A d \in Reg!Digests : Reg!Booked(d)'
  BY <1>1, RegistryAloneSame
<1>. QED BY <1>1, <1>2, RegistryNobodyMoves

LEMMA RegistryIssueTokenKeeps == ASSUME Reg!IInv, Reg!IssueToken PROVE Reg!IInv'
<1>1. Reg!TypeOK'
  BY RegistryKnown DEF Reg!IssueToken, Reg!TypeOK, Reg!money
<1>. QED BY <1>1, RegistryNoMoney DEF Reg!IssueToken

LEMMA RegistryExpireTokenKeeps == ASSUME Reg!IInv, Reg!ExpireToken PROVE Reg!IInv'
<1>1. Reg!TypeOK'
  BY RegistryKnown DEF Reg!ExpireToken, Reg!TypeOK, Reg!money
<1>. QED BY <1>1, RegistryNoMoney DEF Reg!ExpireToken

LEMMA RegistryDomainVerifyKeeps == ASSUME Reg!IInv, Reg!DomainVerify PROVE Reg!IInv'
<1>1. Reg!TypeOK'
  BY RegistryKnown DEF Reg!DomainVerify, Reg!Consume, Reg!TypeOK, Reg!money
<1>. QED BY <1>1, RegistryNoMoney DEF Reg!DomainVerify

LEMMA RegistryOtherReadsKeeps == ASSUME Reg!IInv, Reg!OtherReads PROVE Reg!IInv'
<1>1. Reg!TypeOK'
  BY RegistryKnown DEF Reg!OtherReads, Reg!TypeOK, Reg!money, Reg!proofs
<1>. QED BY <1>1, RegistryNoMoney DEF Reg!OtherReads

LEMMA RegistryOtherWritesKeeps == ASSUME Reg!IInv, Reg!OtherWrites PROVE Reg!IInv'
<1>1. Reg!TypeOK'
  BY RegistryKnown DEF Reg!OtherWrites, Reg!TypeOK, Reg!money, Reg!proofs, Reg!Slip
<1>. QED BY <1>1, RegistryNoMoney DEF Reg!OtherWrites, Reg!Slip

LEMMA RegistrySuspendKeeps == ASSUME Reg!IInv, Reg!Suspend PROVE Reg!IInv'
<1>1. /\ regRec' = [regRec EXCEPT !.status = "suspended"] /\ regIndex' = NoPayload
         /\ regRec \in Reg!Recs /\ Reg!Named(regRec)
      /\ regRec.status \in {"pending", "published"}
         /\ regIntent' = [regIntent EXCEPT !.suspended = TRUE]
      /\ regW' = [x \in Reg!Workers |-> [regW[x] EXCEPT !.seen = FALSE]]
      /\ UNCHANGED <<regSnapshot, Reg!proofs, Reg!money, regSigned, regSlips, regFaults>>
      /\ regIntent \in [pay : Reg!Names, suspended : BOOLEAN]
  BY RegistryKnown DEF Reg!Suspend, Reg!TypeOK
<1>2. /\ regRec' \in Reg!Recs /\ regRec'.status = "suspended" /\ regRec'.pay = regRec.pay
         /\ regRec'.proof = regRec.proof
      /\ regIntent' \in [pay : Reg!Names, suspended : BOOLEAN] /\ regIntent'.pay = regIntent.pay
  BY <1>1 DEF Reg!Recs
<1>3. regW' \in [Reg!Workers -> Reg!Locals]
      /\ \A y \in Reg!Workers : regW'[y] = [regW[y] EXCEPT !.seen = FALSE]
  BY <1>1, RegistryKnown, RegistryStaleFacts
<1>4. Reg!TypeOK'
  BY <1>1, <1>2, <1>3, RegistryTypeKept, RegistryKnown DEF Reg!TypeOK, Reg!proofs, Reg!money,
       Reg!Names
<1>5. \A y \in Reg!Workers : regW'[y].pc \in {"pay", "record"} =>
               regW'[y].pc = regW[y].pc /\ regW'[y].pay = regW[y].pay
               /\ regW'[y].result = regW[y].result
  BY <1>3, RegistryKnown, RegistryStaleFacts
<1>6. (\A y \in Reg!Workers : Reg!Alone(y)') /\ \A d \in Reg!Digests : Reg!Booked(d)'
  BY <1>1, <1>5, RegistryAloneSame DEF Reg!money
<1>7. ASSUME NEW y \in Reg!Workers PROVE Reg!Copy(regW[y])' /\ Reg!Vouched(regW[y])'
  <2>1. PICK h \in Reg!Locals : h = regW[y] /\ Reg!Vouched(h)
    BY RegistryKnown DEF RegistryGood
  <2>2. regServed \subseteq regServed' /\ regSlips \subseteq regSlips'
    BY <1>1 DEF Reg!money
  <2>3. PICK g : g = [h EXCEPT !.seen = FALSE] /\ RegistryGood(g)'
    BY <2>1, <2>2, RegistryStaleGood
  <2>4. regW'[y] = g
    BY <1>3, <2>1, <2>3
  <2>. QED BY <2>3, <2>4 DEF RegistryGood, Reg!Copy, Reg!Vouched, Reg!Served
<1>8. Reg!Named(regRec)' /\ Reg!PublishedWasPaid' /\ Reg!Listed'
  BY <1>1, <1>2 DEF Reg!Named, Reg!PublishedWasPaid, Reg!Listed, Reg!Splice
<1>9. Reg!LastWordStands'
  BY <1>1, <1>2, RegistryKnown DEF Reg!LastWordStands
<1>. QED BY <1>4, <1>6, <1>7, <1>8, <1>9 DEF Reg!IInv

-----------------------------------------------------------------------------
(* Registrations.                                                          *)

LEMMA RegistryRegReadKeeps ==
    ASSUME Reg!IInv, NEW x \in Reg!Workers, NEW p \in Payloads,
           NEW k \in {"signature", "file", "live402"}, Reg!RegRead(x, p, k)
    PROVE  Reg!IInv'
<1>1. regW[x].pc # "index"
      /\ UNCHANGED <<regRec, regIndex, regSnapshot, Reg!proofs, Reg!money, regIntent, regSigned,
                     regSlips, regFaults>>
  BY DEF Reg!RegRead, Reg!Start, Reg!At
<1>2. CASE Reg!End(x)
  BY <1>1, <1>2, RegistryOnlyEnds
<1>3. CASE regW' = [regW EXCEPT ![x] = [Reg!Idle EXCEPT !.pc = "proof", !.row = regRec, !.pay = p,
                                        !.proof = k, !.had = (regRec # Reg!None)]]
  <2>1. PICK b \in BOOLEAN : b = (regRec # Reg!None)
    OBVIOUS
  <2>2. PICK r \in Reg!Locals : /\ r = [Reg!Idle EXCEPT !.pc = "proof", !.row = regRec, !.pay = p,
                                        !.proof = k, !.had = b]
                           /\ r.pc = "proof" /\ r.row = regRec /\ r.pay = p
    <3>. DEFINE g == [Reg!Idle EXCEPT !.pc = "proof", !.row = regRec, !.pay = p, !.proof = k, !.had = b]
    <3>1. regRec \in Reg!Recs /\ Reg!Idle \in Reg!Locals /\ p \in Reg!Names /\ k \in Reg!Kinds
      BY RegistryIdleFacts, RegistryKnown DEF Reg!Names, Reg!Kinds
    <3>2. g \in Reg!Locals /\ g.pc = "proof" /\ g.row = regRec /\ g.pay = p
      BY <3>1 DEF Reg!Locals, Reg!Steps
    <3>. QED BY <3>2, Zenon
  <2>3. regW' = [regW EXCEPT ![x] = r]
    BY <1>3, <2>1, <2>2
  <2>4. RegistryGood(r)'
    BY <1>1, <2>2 DEF RegistryGood, Reg!Copy, Reg!Vouched, Reg!Reading
  <2>. QED BY <1>1, <2>2, <2>3, <2>4, RegistryOnlyWalks
<1>. QED BY <1>1, <1>2, <1>3 DEF Reg!RegRead

LEMMA RegistryRegProofKeeps == ASSUME Reg!IInv, NEW x \in Reg!Workers,
Reg!RegProof(x) PROVE Reg!IInv'
<1>1. regW[x].pc = "proof"
      /\ UNCHANGED <<regRec, regIndex, regSnapshot, Reg!money, regIntent, regSigned, regSlips,
                     regFaults>> /\ RegistryGood(regW[x])
  BY RegistryKnown DEF Reg!RegProof, Reg!At
<1>2. CASE Reg!End(x) /\ UNCHANGED Reg!proofs
  BY <1>1, <1>2, RegistryOnlyEnds
<1>3. CASE /\ Reg!SignatureProof(x) \/ Reg!FileProof(x) \/ Reg!LiveProof(x)
           /\ Reg!NoDowngrade(x) /\ UNCHANGED regIdClaim
           /\ Reg!Goto(x, IF regW[x].had THEN "hosting" ELSE "claimId")
  <2>1. PICK l \in {"hosting", "claimId"} : l = IF regW[x].had THEN "hosting" ELSE "claimId"
    OBVIOUS
  <2>2. PICK r \in Reg!Locals : RegistryMoved(x, r, l)
    <3>1. l \in Reg!Steps /\ Reg!Goto(x, l)
      BY <1>3, <2>1 DEF Reg!Steps
    <3>. QED BY <3>1, RegistryGotoFacts
  <2>3. RegistryGood(r) /\ regW' = [regW EXCEPT ![x] = r] /\ r.pc = l
    BY <1>1, <1>3, <2>2 DEF RegistryMoved, RegistryGood, Reg!Copy, Reg!Vouched, Reg!Reading,
         Reg!NoDowngrade
  <2>4. RegistryCalm /\ UNCHANGED <<regIndex, regIntent, regSigned, regClaim, regPaid>>
    BY <1>1 DEF RegistryCalm, Reg!money
  <2>5. RegistryGood(r)'
    BY <2>3, <2>4, RegistryGoodKept
  <2>6. regToken' \in BOOLEAN /\ regEvidence' \in BOOLEAN /\ regIdClaim' \in BOOLEAN
    BY <1>3, RegistryKnown DEF Reg!SignatureProof, Reg!FileProof, Reg!LiveProof, Reg!Consume,
         Reg!TypeOK
  <2>7. regW' \in [Reg!Workers -> Reg!Locals]
    BY <2>3, RegistryKnown
  <2>8. Reg!TypeOK'
    BY <1>1, <2>6, <2>7, RegistryTypeKept, RegistryKnown DEF Reg!TypeOK, Reg!money
  <2>. QED BY <1>1, <2>3, <2>4, <2>5, <2>8, RegistryWalks
<1>. QED BY <1>2, <1>3 DEF Reg!RegProof

LEMMA RegistryClaimIdKeeps == ASSUME Reg!IInv, NEW x \in Reg!Workers, Reg!ClaimId(x) PROVE Reg!IInv'
<1>1. /\ regW[x].pc = "claimId"
         /\ UNCHANGED <<regRec, regIndex, regSnapshot, regToken, regEvidence, Reg!money, regIntent,
                        regSigned, regSlips, regFaults>>
      /\ RegistryGood(regW[x])
  BY RegistryKnown DEF Reg!ClaimId, Reg!At
<1>2. CASE Reg!End(x) /\ UNCHANGED regIdClaim
  BY <1>1, <1>2, RegistryOnlyEnds DEF Reg!proofs
<1>3. CASE regIdClaim' = TRUE /\ Reg!Goto(x, "hosting")
  <2>1. PICK r \in Reg!Locals : RegistryMoved(x, r, "hosting")
    BY <1>3, RegistryGotoFacts DEF Reg!Steps
  <2>2. RegistryGood(r) /\ regW' = [regW EXCEPT ![x] = r] /\ r.pc = "hosting"
    BY <1>1, <2>1 DEF RegistryMoved, RegistryGood, Reg!Copy, Reg!Vouched, Reg!Reading
  <2>3. RegistryCalm /\ UNCHANGED <<regIndex, regIntent, regSigned, regClaim, regPaid>>
    BY <1>1 DEF RegistryCalm, Reg!money
  <2>4. RegistryGood(r)'
    BY <2>2, <2>3, RegistryGoodKept
  <2>5. regW' \in [Reg!Workers -> Reg!Locals]
    BY <2>2, RegistryKnown
  <2>6. Reg!TypeOK'
    BY <1>1, <1>3, <2>5, RegistryTypeKept, RegistryKnown DEF Reg!TypeOK, Reg!money
  <2>. QED BY <1>1, <2>2, <2>3, <2>4, <2>6, RegistryWalks
<1>. QED BY <1>2, <1>3 DEF Reg!ClaimId

LEMMA RegistryHostingKeeps == ASSUME Reg!IInv, NEW x \in Reg!Workers, Reg!Hosting(x) PROVE Reg!IInv'
<1>1. /\ regW[x].pc = "hosting"
         /\ UNCHANGED <<regRec, regIndex, regSnapshot, Reg!proofs, Reg!money, regIntent, regSigned,
                        regSlips, regFaults>>
      /\ RegistryGood(regW[x])
  BY RegistryKnown DEF Reg!Hosting, Reg!At
<1>2. CASE Reg!End(x)
  BY <1>1, <1>2, RegistryOnlyEnds
<1>3. CASE Reg!Goto(x, "put")
  <2>1. PICK r \in Reg!Locals : RegistryMoved(x, r, "put")
    BY <1>3, RegistryGotoFacts DEF Reg!Steps
  <2>2. RegistryGood(r) /\ regW' = [regW EXCEPT ![x] = r] /\ r.pc = "put"
    BY <1>1, <2>1 DEF RegistryMoved, RegistryGood, Reg!Copy, Reg!Vouched, Reg!Reading
  <2>3. RegistryGood(r)'
    BY <1>1, <2>2, RegistryGoodKept DEF RegistryCalm, Reg!money
  <2>. QED BY <1>1, <2>2, <2>3, RegistryOnlyWalks
<1>. QED BY <1>2, <1>3 DEF Reg!Hosting

LEMMA RegistryRegPutKeeps == ASSUME Reg!IInv, NEW x \in Reg!Workers, Reg!RegPut(x) PROVE Reg!IInv'
<1>. DEFINE row == [status |-> "pending", pay |-> regW[x].pay, proof |-> Reg!OwnerProof(x),
                    domain |-> regW[x].proof # "signature" \/ regEvidence]
<1>1. /\ regW[x].pc = "put" /\ Reg!PutRecord(x, row)
         /\ UNCHANGED <<regIndex, regSnapshot, Reg!proofs, Reg!money, regFaults>>
      /\ regIntent' = [pay |-> regW[x].pay, suspended |-> FALSE]
         /\ regSigned' = (regSigned \/ regW[x].proof = "signature")
      /\ regW[x] \in Reg!Locals /\ RegistryGood(regW[x]) /\ Reg!LastWordStands
  BY RegistryKnown DEF Reg!RegPut, Reg!At
<1>2. regW[x].pay \in Payloads /\ regW[x].pay \in Reg!Names
  BY <1>1 DEF RegistryGood, Reg!Vouched, Reg!Names
<1>3. Reg!OwnerProof(x) \in Reg!Kinds
  BY <1>1, RegistryLocalFacts, RegistryRecFacts DEF Reg!OwnerProof
<1>4. row \in Reg!Recs /\ row.status = "pending" /\ row.pay = regW[x].pay
      /\ row.proof = Reg!OwnerProof(x)
  BY <1>2, <1>3 DEF Reg!Recs
<1>. HIDE DEF row
<1>5. regIntent' \in [pay : Reg!Names, suspended : BOOLEAN] /\ regSigned' \in BOOLEAN
  BY <1>1, <1>2
<1>6. Reg!LastWordStands'
  <2>1. regRec' = row /\ regSlips' = regSlips \cup {k \in {"raced"} : ~regW[x].seen}
    BY <1>1 DEF Reg!PutRecord, Reg!Slip
  <2>2. SUFFICES ASSUME "raced" \notin regSlips' PROVE Reg!LastWordStands'
    BY DEF Reg!LastWordStands
  <2>3. regW[x].seen /\ "raced" \notin regSlips
    BY <2>1, <2>2
  <2>4. regW[x].row = regRec
    BY <1>1, <2>3 DEF RegistryGood, Reg!Copy
  <2>5. regSigned => regRec.proof = "signature"
    BY <1>1, <2>3 DEF Reg!LastWordStands
  <2>6. regSigned => regW[x].proof = "signature"
    BY <1>1, <2>4, <2>5 DEF RegistryGood, Reg!Vouched
  <2>7. regSigned' => Reg!OwnerProof(x) = "signature"
    BY <1>1, <2>6 DEF Reg!OwnerProof
  <2>. QED BY <1>1, <1>4, <2>1, <2>7 DEF Reg!LastWordStands
<1>7. Reg!Named(row) /\ (row.status = "published" => Reg!Served(row.pay))
      /\ regW[x].pc \notin {"pay", "record"}
  BY <1>1, <1>2, <1>4 DEF Reg!Named
<1>. QED BY <1>1, <1>4, <1>5, <1>6, <1>7, RegistryPutRecordKeeps

-----------------------------------------------------------------------------
(* Verifications.                                                          *)

\* NoPayload pays for a version whose claim is not running, or is stalled.
LEMMA RegistryUnclaimed ==
    ASSUME Reg!IInv, NEW d, regClaim[d].state # "running" \/ Reg!Stalled(d), NEW y \in Reg!Workers,
           Reg!Paying(y)
    PROVE  Reg!Epoch(y) # d
BY RegistryKnown DEF Reg!Alone, Reg!Stalled, Reg!Paying

LEMMA RegistryClaimFacts ==
    ASSUME Reg!IInv, NEW d \in Reg!Digests
    PROVE  /\ Reg!NoClaim \in Reg!Claims /\ Reg!NoClaim.state = "none"
           /\ \A s \in {"none", "running", "uncertain", "completed"} :
                /\ [Reg!NoClaim EXCEPT !.state = s] \in Reg!Claims
                   /\ [Reg!NoClaim EXCEPT !.state = s].state = s
                /\ [regClaim[d] EXCEPT !.state = s] \in Reg!Claims
                   /\ [regClaim[d] EXCEPT !.state = s].state = s
           /\ \A h \in {"none", "unknown", "ledger"}, b \in BOOLEAN :
                LET c == [regClaim[d] EXCEPT !.hash = h, !.served = b] IN c \in Reg!Claims
                /\ c.state = regClaim[d].state
<1>1. regClaim[d] \in Reg!Claims
  BY RegistryKnown
<1>2. Reg!NoClaim \in Reg!Claims /\ Reg!NoClaim.state = "none"
  BY DEF Reg!NoClaim, Reg!Claims
<1>. QED BY <1>1, <1>2 DEF Reg!Claims

\* The claim of version d becomes c.
LEMMA RegistryClaimType ==
    ASSUME Reg!IInv, NEW d \in Reg!Digests, NEW c \in Reg!Claims,
           regClaim' = [regClaim EXCEPT ![d] = c], regW' \in [Reg!Workers -> Reg!Locals],
           UNCHANGED <<regRec, regIndex, regSnapshot, Reg!proofs, regIntent, regSigned>>,
           regPaid' \in [Reg!Digests -> Nat],
           regServed' \subseteq Payloads, regSlips' \subseteq {"raced", "reused", "recycled", "spliced"},
           regFaults' \in Nat
    PROVE  Reg!TypeOK' /\ regClaim'[d] = c /\ \A e \in Reg!Digests \ {d} : regClaim'[e] = regClaim[e]
<1>1. regClaim' \in [Reg!Digests -> Reg!Claims] /\ regClaim'[d] = c
      /\ \A e \in Reg!Digests \ {d} : regClaim'[e] = regClaim[e]
  BY RegistryKnown
<1>2. Reg!TypeOK'
  BY <1>1, RegistryTypeKept, RegistryKnown DEF Reg!TypeOK, Reg!proofs
<1>. QED BY <1>1, <1>2

\* A worker x goes on with r, and the claim of a version nobody pays for becomes c.
LEMMA RegistrySettles ==
    ASSUME Reg!IInv, NEW x \in Reg!Workers, NEW r \in Reg!Locals, regW' = [regW EXCEPT ![x] = r],
           regW[x].pc # "index",
           r.pc \notin {"pay", "record"}, RegistryGood(r)',
           NEW d \in Reg!Digests, NEW c \in Reg!Claims, regClaim' = [regClaim EXCEPT ![d] = c],
           \A y \in Reg!Workers \ {x} : Reg!Paying(y) => Reg!Epoch(y) # d, c.state = "none"
           => regPaid[d] = 0,
           UNCHANGED <<regRec, regIndex, regSnapshot, Reg!proofs, regPaid, regServed, regIntent,
                       regSigned, regSlips, regFaults>>
    PROVE  Reg!IInv'
<1>1. regW' \in [Reg!Workers -> Reg!Locals]
  BY RegistryKnown
<1>2. Reg!TypeOK' /\ regClaim'[d] = c /\ \A e \in Reg!Digests \ {d} : regClaim'[e] = regClaim[e]
  BY <1>1, RegistryClaimType, RegistryKnown DEF Reg!TypeOK
<1>3. \A e \in Reg!Digests : Reg!Booked(e)'
  BY <1>2, RegistryKnown DEF Reg!Booked
<1>4. ASSUME NEW y \in Reg!Workers \ {x},
Reg!Paying(y) PROVE regClaim'[Reg!Epoch(y)] = regClaim[Reg!Epoch(y)]
  <2>1. Reg!Epoch(y) \in Reg!Digests
    BY <1>4, RegistryEpochIn DEF Reg!Paying
  <2>. QED BY <1>2, <1>4, <2>1
<1>5. \A y \in Reg!Workers : Reg!Alone(y)'
  BY <1>4, RegistryAloneKept
<1>6. RegistryCalm
  BY DEF RegistryCalm
<1>. QED BY <1>2, <1>3, <1>5, <1>6, RegistryGoesOn

LEMMA RegistryVerifyReadKeeps == ASSUME Reg!IInv, NEW x \in Reg!Workers,
Reg!VerifyRead(x) PROVE Reg!IInv'
<1>1. /\ regW[x].pc # "index"
         /\ UNCHANGED <<regRec, regIndex, regSnapshot, Reg!proofs, Reg!money, regIntent, regSigned,
                        regSlips, regFaults>>
      /\ regRec.status = "pending" /\ regRec \in Reg!Recs /\ Reg!Named(regRec)
  BY RegistryKnown DEF Reg!VerifyRead, Reg!Start, Reg!At
<1>2. CASE Reg!End(x)
  BY <1>1, <1>2, RegistryOnlyEnds
<1>3. CASE regW' = [regW EXCEPT ![x] = [Reg!Idle EXCEPT !.pc = "settle", !.row = regRec,
                                        !.pay = regRec.pay]]
  <2>1. regRec.pay \in Payloads /\ regRec.pay \in Reg!Names
    BY <1>1 DEF Reg!Named, Reg!Names
  <2>2. PICK r \in Reg!Locals : /\ r = [Reg!Idle EXCEPT !.pc = "settle", !.row = regRec,
                                        !.pay = regRec.pay]
                           /\ r.pc = "settle" /\ r.row = regRec /\ r.pay = regRec.pay
    <3>. DEFINE g == [Reg!Idle EXCEPT !.pc = "settle", !.row = regRec, !.pay = regRec.pay]
    <3>1. Reg!Idle \in Reg!Locals
      BY RegistryIdleFacts
    <3>2. g \in Reg!Locals /\ g.pc = "settle" /\ g.row = regRec /\ g.pay = regRec.pay
      BY <1>1, <2>1, <3>1 DEF Reg!Locals, Reg!Steps
    <3>. QED BY <3>2, Zenon
  <2>3. RegistryGood(r)
    BY <1>1, <2>1, <2>2 DEF RegistryGood, Reg!Copy, Reg!Vouched, Reg!Reading
  <2>4. RegistryGood(r)'
    BY <1>1, <2>3, RegistryGoodKept DEF RegistryCalm, Reg!money
  <2>5. regW' = [regW EXCEPT ![x] = r]
    BY <1>3, <2>2
  <2>. QED BY <1>1, <2>2, <2>4, <2>5, RegistryOnlyWalks
<1>. QED BY <1>1, <1>2, <1>3 DEF Reg!VerifyRead

LEMMA RegistrySettleClaimKeeps == ASSUME Reg!IInv, NEW x \in Reg!Workers,
Reg!SettleClaim(x) PROVE Reg!IInv'
<1>1. /\ regW[x].pc = "settle"
         /\ UNCHANGED <<regRec, regIndex, regSnapshot, Reg!proofs, regPaid, regServed, regIntent,
                        regSigned, regSlips, regFaults>>
      /\ RegistryGood(regW[x])
  BY RegistryKnown DEF Reg!SettleClaim, Reg!At
<1>2. PICK d \in Reg!Digests : d = Reg!Epoch(x)
  BY <1>1, RegistryEpochIn
<1>3. ASSUME Reg!Goto(x, "probe")
      PROVE  \E r \in Reg!Locals : regW' = [regW EXCEPT ![x] = r] /\ r.pc = "probe" /\ RegistryGood(r)'
  <2>1. PICK r \in Reg!Locals : RegistryMoved(x, r, "probe")
    BY <1>3, RegistryGotoFacts DEF Reg!Steps
  <2>2. RegistryGood(r) /\ regW' = [regW EXCEPT ![x] = r] /\ r.pc = "probe"
    BY <1>1, <2>1 DEF RegistryMoved, RegistryGood, Reg!Copy, Reg!Vouched, Reg!Reading
  <2>3. RegistryGood(r)'
    BY <1>1, <2>2, RegistryGoodKept DEF RegistryCalm
  <2>. QED BY <2>2, <2>3
<1>4. ASSUME Reg!End(x)
      PROVE  \E r \in Reg!Locals : regW' = [regW EXCEPT ![x] = r] /\ r.pc = "done" /\ RegistryGood(r)'
  BY <1>4, RegistryEndGood DEF Reg!End
<1>5. CASE UNCHANGED regClaim /\ (Reg!Goto(x, "probe") \/ Reg!End(x))
  <2>1. PICK r \in Reg!Locals :
           regW' = [regW EXCEPT ![x] = r] /\ r.pc \in {"probe", "done"} /\ RegistryGood(r)'
    BY <1>3, <1>4, <1>5
  <2>. QED BY <1>1, <1>5, <2>1, RegistryOnlyWalks DEF Reg!money
<1>6. CASE /\ Reg!Stalled(d)
              /\ regClaim' = [regClaim EXCEPT ![d] = [Reg!NoClaim EXCEPT !.state = "uncertain"]]
                 /\ Reg!End(x)
  <2>1. PICK r \in Reg!Locals : regW' = [regW EXCEPT ![x] = r] /\ r.pc = "done" /\ RegistryGood(r)'
    BY <1>4, <1>6
  <2>2. PICK c \in Reg!Claims : c = [Reg!NoClaim EXCEPT !.state = "uncertain"] /\ c.state = "uncertain"
    BY RegistryClaimFacts
  <2>3. \A y \in Reg!Workers \ {x} : Reg!Paying(y) => Reg!Epoch(y) # d
    BY <1>6, RegistryUnclaimed
  <2>. QED BY <1>1, <1>6, <2>1, <2>2, <2>3, RegistrySettles
<1>7. CASE /\ regClaim[d].state = "uncertain"
              /\ regClaim' = [regClaim EXCEPT ![d].state = "completed"] /\ Reg!Goto(x, "probe")
  <2>1. PICK r \in Reg!Locals : regW' = [regW EXCEPT ![x] = r] /\ r.pc = "probe" /\ RegistryGood(r)'
    BY <1>3, <1>7
  <2>2. PICK c \in Reg!Claims : c = [regClaim[d] EXCEPT !.state = "completed"] /\ c.state = "completed"
    BY RegistryClaimFacts
  <2>3. regClaim' = [regClaim EXCEPT ![d] = c]
    BY <1>7, <2>2, RegistryKnown
  <2>4. \A y \in Reg!Workers \ {x} : Reg!Paying(y) => Reg!Epoch(y) # d
    BY <1>7, RegistryUnclaimed
  <2>. QED BY <1>1, <2>1, <2>2, <2>3, <2>4, RegistrySettles
<1>8. CASE /\ regClaim[d].state = "uncertain" /\ Reg!Unpaid(d)
              /\ regClaim' = [regClaim EXCEPT ![d] = Reg!NoClaim] /\ Reg!Goto(x, "probe")
  <2>1. PICK r \in Reg!Locals : regW' = [regW EXCEPT ![x] = r] /\ r.pc = "probe" /\ RegistryGood(r)'
    BY <1>3, <1>8
  <2>2. Reg!NoClaim \in Reg!Claims /\ regPaid[d] = 0
    BY <1>8, RegistryClaimFacts DEF Reg!Unpaid
  <2>3. \A y \in Reg!Workers \ {x} : Reg!Paying(y) => Reg!Epoch(y) # d
    BY <1>8, RegistryUnclaimed
  <2>. QED BY <1>1, <1>8, <2>1, <2>2, <2>3, RegistrySettles
<1>. QED BY <1>2, <1>5, <1>6, <1>7, <1>8 DEF Reg!SettleClaim

LEMMA RegistryStatusPageKeeps == ASSUME Reg!IInv, NEW d \in Reg!Digests,
Reg!StatusPage(d) PROVE Reg!IInv'
<1>1. regW' = regW
      /\ UNCHANGED <<regRec, regIndex, regSnapshot, Reg!proofs, regPaid, regServed, regIntent,
                     regSigned, regSlips, regFaults>>
  BY DEF Reg!StatusPage
<1>2. PICK c \in Reg!Claims : regClaim' = [regClaim EXCEPT ![d] = c] /\ c.state # "none"
  <2>1. CASE regClaim' = [regClaim EXCEPT ![d] = [Reg!NoClaim EXCEPT !.state = "uncertain"]]
    BY <2>1, RegistryClaimFacts
  <2>2. CASE regClaim' = [regClaim EXCEPT ![d].state = "completed"]
    <3>1. regClaim' = [regClaim EXCEPT ![d] = [regClaim[d] EXCEPT !.state = "completed"]]
      BY <2>2, RegistryKnown
    <3>. QED BY <3>1, RegistryClaimFacts
  <2>. QED BY <2>1, <2>2 DEF Reg!StatusPage
<1>3. regClaim[d].state # "running" \/ Reg!Stalled(d)
  BY DEF Reg!StatusPage
<1>4. Reg!TypeOK' /\ regClaim'[d] = c /\ \A e \in Reg!Digests \ {d} : regClaim'[e] = regClaim[e]
  BY <1>1, <1>2, RegistryClaimType, RegistryKnown DEF Reg!TypeOK
<1>5. \A e \in Reg!Digests : Reg!Booked(e)'
  BY <1>1, <1>2, <1>4, RegistryKnown DEF Reg!Booked
<1>6. ASSUME NEW y \in Reg!Workers PROVE Reg!Alone(y)'
  <2>1. Reg!Paying(y) => Reg!Epoch(y) # d /\ Reg!Epoch(y) \in Reg!Digests
    BY <1>3, RegistryUnclaimed, RegistryEpochIn DEF Reg!Paying
  <2>2. Reg!Paying(y) => regClaim'[Reg!Epoch(y)] = regClaim[Reg!Epoch(y)]
    BY <1>4, <2>1
  <2>. QED BY <1>1, <2>2, RegistryKnown DEF Reg!Alone, Reg!Paying, Reg!Epoch, Reg!At
<1>. QED BY <1>1, <1>4, <1>5, <1>6, RegistryNobodyMoves DEF RegistryCalm

LEMMA RegistryProbeKeeps == ASSUME Reg!IInv, NEW x \in Reg!Workers, Reg!Probe(x) PROVE Reg!IInv'
<1>1. /\ regW[x].pc = "probe"
         /\ UNCHANGED <<regRec, regIndex, regSnapshot, Reg!proofs, Reg!money, regIntent, regSigned,
                        regSlips, regFaults>>
      /\ RegistryGood(regW[x]) /\ regW[x] \in Reg!Locals /\ regW \in [Reg!Workers -> Reg!Locals]
  BY RegistryKnown DEF Reg!Probe, Reg!At
<1>2. CASE Reg!Goto(x, "acquire")
  <2>1. PICK r \in Reg!Locals : RegistryMoved(x, r, "acquire")
    BY <1>2, RegistryGotoFacts DEF Reg!Steps
  <2>2. RegistryGood(r) /\ regW' = [regW EXCEPT ![x] = r] /\ r.pc = "acquire"
    BY <1>1, <2>1 DEF RegistryMoved, RegistryGood, Reg!Copy, Reg!Vouched, Reg!Reading
  <2>3. RegistryGood(r)'
    BY <1>1, <2>2, RegistryGoodKept DEF RegistryCalm, Reg!money
  <2>. QED BY <1>1, <2>2, <2>3, RegistryOnlyWalks
<1>3. CASE regW' = [regW EXCEPT ![x].pc = "recheck", ![x].result = "failed"]
  <2>1. PICK r \in Reg!Locals :
           /\ r.pc = "recheck" /\ r.result = "failed" /\ r.row = regW[x].row /\ r.seen = regW[x].seen
                           /\ r.pay = regW[x].pay /\ regW' = [regW EXCEPT ![x] = r]
    <3>. DEFINE g == [regW[x] EXCEPT !.pc = "recheck", !.result = "failed"]
    <3>1. /\ g \in Reg!Locals /\ g.pc = "recheck" /\ g.result = "failed" /\ g.row = regW[x].row
             /\ g.seen = regW[x].seen
          /\ g.pay = regW[x].pay /\ regW' = [regW EXCEPT ![x] = g]
      BY <1>1, <1>3 DEF Reg!Locals, Reg!Steps
    <3>. QED BY <3>1, Zenon
  <2>2. RegistryGood(r)
    BY <1>1, <2>1 DEF RegistryGood, Reg!Copy, Reg!Vouched, Reg!Reading
  <2>3. RegistryGood(r)'
    BY <1>1, <2>2, RegistryGoodKept DEF RegistryCalm, Reg!money
  <2>. QED BY <1>1, <2>1, <2>3, RegistryOnlyWalks
<1>. QED BY <1>2, <1>3 DEF Reg!Probe

LEMMA RegistryAcquireKeeps == ASSUME Reg!IInv, NEW x \in Verifs, Reg!Acquire(x) PROVE Reg!IInv'
<1>1. /\ regW[x].pc = "acquire"
         /\ UNCHANGED <<regRec, regIndex, regSnapshot, Reg!proofs, regPaid, regServed, regIntent,
                        regSigned, regFaults>>
      /\ x \in Reg!Workers /\ RegistryGood(regW[x]) /\ regW[x] \in Reg!Locals
         /\ regW \in [Reg!Workers -> Reg!Locals]
  BY RegistryKnown DEF Reg!Acquire, Reg!At, Reg!Workers
<1>2. PICK d \in Reg!Digests : d = Reg!Epoch(x)
  BY <1>1, RegistryEpochIn
<1>3. CASE /\ regClaim[d].state = "none" /\ Reg!Goto(x, "pay")
           /\ regClaim' = [regClaim EXCEPT ![d].state = "running"] /\ UNCHANGED regSlips
  <2>1. PICK r \in Reg!Locals : RegistryMoved(x, r, "pay")
    BY <1>1, <1>3, RegistryGotoFacts DEF Reg!Steps
  <2>2. RegistryGood(r) /\ regW' = [regW EXCEPT ![x] = r] /\ r.pc = "pay" /\ r.pay = regW[x].pay
        /\ regW' \in [Reg!Workers -> Reg!Locals]
    BY <1>1, <2>1 DEF RegistryMoved, RegistryGood, Reg!Copy, Reg!Vouched, Reg!Reading
  <2>3. RegistryGood(r)' /\ RegistryCalm
    BY <1>1, <1>3, <2>2, RegistryGoodKept DEF RegistryCalm
  <2>4. PICK c \in Reg!Claims : c = [regClaim[d] EXCEPT !.state = "running"] /\ c.state = "running"
    BY RegistryClaimFacts
  <2>5. regClaim' = [regClaim EXCEPT ![d] = c]
    BY <1>3, <2>4, RegistryKnown
  <2>6. Reg!TypeOK' /\ regClaim'[d] = c /\ \A e \in Reg!Digests \ {d} : regClaim'[e] = regClaim[e]
    BY <1>1, <1>3, <2>2, <2>5, RegistryClaimType, RegistryKnown DEF Reg!TypeOK
  <2>7. \A e \in Reg!Digests : Reg!Booked(e)'
    BY <1>1, <2>4, <2>6, RegistryKnown DEF Reg!Booked
  <2>8. ASSUME NEW y \in Reg!Workers \ {x}, Reg!Paying(y)
        PROVE  Reg!Epoch(y) # d /\ regClaim'[Reg!Epoch(y)] = regClaim[Reg!Epoch(y)]
    <3>1. Reg!Epoch(y) # d /\ Reg!Epoch(y) \in Reg!Digests
      BY <1>3, <2>8, RegistryUnclaimed, RegistryEpochIn DEF Reg!Paying
    <3>. QED BY <2>6, <3>1
  <2>9. Digest[r.pay] = d /\ regPaid[d] = 0 /\ regClaim'[d].state = "running"
    BY <1>2, <1>3, <2>2, <2>4, <2>6, RegistryKnown DEF Reg!Epoch, Reg!Booked
  <2>10. \A y \in Reg!Workers : Reg!Alone(y)'
    BY <1>1, <2>2, <2>8, <2>9, RegistryAloneKept
  <2>. QED BY <1>1, <2>2, <2>3, <2>6, <2>7, <2>10, RegistryGoesOn
<1>4. CASE /\ UNCHANGED regClaim /\ regW' = [regW EXCEPT ![x].pc = "recheck", ![x].result = "ok"]
           /\ Reg!Slip({k \in {"reused"} : regW[x].pay \notin regServed})
  <2>1. PICK r \in Reg!Locals : /\ r.pc = "recheck" /\ r.row = regW[x].row /\ r.seen = regW[x].seen
                           /\ r.pay = regW[x].pay /\ regW' = [regW EXCEPT ![x] = r]
    <3>. DEFINE g == [regW[x] EXCEPT !.pc = "recheck", !.result = "ok"]
    <3>1. /\ g \in Reg!Locals /\ g.pc = "recheck" /\ g.row = regW[x].row /\ g.seen = regW[x].seen
          /\ g.pay = regW[x].pay /\ regW' = [regW EXCEPT ![x] = g]
      BY <1>1, <1>4 DEF Reg!Locals, Reg!Steps
    <3>. QED BY <3>1, Zenon
  <2>2. /\ regSlips' = regSlips \cup {k \in {"reused"} : regW[x].pay \notin regServed} /\ RegistryCalm
        /\ regSlips' \subseteq {"raced", "reused", "recycled", "spliced"}
    BY <1>1, <1>4, RegistryKnown DEF Reg!Slip, RegistryCalm, Reg!TypeOK
  <2>3. Reg!Copy(r)'
    BY <1>1, <2>1 DEF RegistryGood, Reg!Copy, Reg!Reading
  <2>4. Reg!Vouched(r)'
    BY <1>1, <2>1, <2>2 DEF Reg!Vouched, Reg!Served
  <2>5. regW' \in [Reg!Workers -> Reg!Locals]
    BY <1>1, <2>1
  <2>6. Reg!TypeOK'
    BY <1>1, <1>4, <2>2, <2>5, RegistryTypeKept, RegistryKnown DEF Reg!TypeOK, Reg!proofs
  <2>. QED BY <1>1, <1>4, <2>1, <2>2, <2>3, <2>4, <2>6, RegistryWalks DEF RegistryGood
<1>5. CASE Reg!End(x) /\ UNCHANGED <<regClaim, regSlips>>
  BY <1>1, <1>5, RegistryOnlyEnds DEF Reg!money
<1>. QED BY <1>2, <1>3, <1>4, <1>5 DEF Reg!Acquire

\* What the worker that pays for version d knows.
LEMMA RegistryPayerFacts ==
    ASSUME Reg!IInv, NEW x \in Reg!Workers, Reg!Paying(x)
    PROVE  /\ Reg!Epoch(x) \in Reg!Digests /\ regW[x].pay \in Payloads /\ x \in Verifs
              /\ regClaim[Reg!Epoch(x)].state = "running"
           /\ \A y \in Reg!Workers \ {x} : Reg!Paying(y) => Reg!Epoch(y) # Reg!Epoch(x)
           /\ regW[x].pc = "record" => regW[x].result \in {"unsigned", "ok", "uncertain"}
           /\ regW[x].pc = "pay" \/ regW[x].result = "unsigned" => regPaid[Reg!Epoch(x)] = 0
<1>1. Reg!Epoch(x) \in Reg!Digests /\ regW[x].pay \in Payloads
  BY RegistryEpochIn DEF Reg!Paying
<1>. QED BY <1>1, RegistryKnown DEF Reg!Alone, Reg!At

LEMMA RegistryUnsignedKeeps == ASSUME Reg!IInv, NEW x \in Reg!Workers,
Reg!Unsigned(x) PROVE Reg!IInv'
<1>1. /\ regW[x].pc = "pay"
         /\ UNCHANGED <<regRec, regIndex, regSnapshot, Reg!proofs, Reg!money, regIntent, regSigned,
                        regSlips, regFaults>>
      /\ RegistryGood(regW[x]) /\ regW[x] \in Reg!Locals /\ regW \in [Reg!Workers -> Reg!Locals]
  BY RegistryKnown DEF Reg!Unsigned, Reg!At
<1>2. PICK r \in Reg!Locals :
         /\ r.pc = "record" /\ r.result = "unsigned" /\ r.row = regW[x].row /\ r.seen = regW[x].seen
                         /\ r.pay = regW[x].pay /\ regW' = [regW EXCEPT ![x] = r]
  <2>. DEFINE g == [regW[x] EXCEPT !.pc = "record", !.result = "unsigned"]
  <2>1. /\ g \in Reg!Locals /\ g.pc = "record" /\ g.result = "unsigned" /\ g.row = regW[x].row
           /\ g.seen = regW[x].seen
        /\ g.pay = regW[x].pay /\ regW' = [regW EXCEPT ![x] = g]
    BY <1>1 DEF Reg!Locals, Reg!Steps, Reg!Unsigned
  <2>. QED BY <2>1, Zenon
<1>3. RegistryGood(r)
  BY <1>1, <1>2 DEF RegistryGood, Reg!Copy, Reg!Vouched, Reg!Reading
<1>4. Reg!TypeOK' /\ RegistryCalm /\ UNCHANGED <<regIndex, regIntent, regSigned, regClaim, regPaid>>
  BY <1>1, <1>2, RegistryWalkType
<1>5. RegistryGood(r)'
  BY <1>3, <1>4, RegistryGoodKept
<1>6. PICK d :
         /\ d = Reg!Epoch(x) /\ d = Digest[r.pay] /\ regClaim[d].state = "running" /\ regPaid[d] = 0
         /\ x \in Verifs
               /\ \A y \in Reg!Workers \ {x} : Reg!Paying(y) => Reg!Epoch(y) # d
  BY <1>1, <1>2, RegistryPayerFacts DEF Reg!Epoch, Reg!Paying
<1>7. \A y \in Reg!Workers : Reg!Alone(y)'
  BY <1>2, <1>4, <1>6, RegistryAloneKept
<1>8. \A d1 \in Reg!Digests : Reg!Booked(d1)'
  BY <1>4, RegistryKnown DEF Reg!Booked
<1>. QED BY <1>1, <1>2, <1>4, <1>5, <1>7, <1>8, RegistryGoesOn

LEMMA RegistryPayKeeps == ASSUME Reg!IInv, NEW x \in Reg!Workers, Reg!Pay(x) PROVE Reg!IInv'
<1>1. /\ regW[x].pc = "pay"
         /\ UNCHANGED <<regRec, regIndex, regSnapshot, Reg!proofs, regIntent, regSigned, regFaults>>
      /\ RegistryGood(regW[x]) /\ regW[x] \in Reg!Locals /\ regW \in [Reg!Workers -> Reg!Locals]
         /\ Reg!Paying(x)
  BY RegistryKnown DEF Reg!Pay, Reg!At, Reg!Paying
<1>2. PICK p \in BOOLEAN, ok \in BOOLEAN :
          \E hash \in Reg!Receipts(p), result \in {"ok", "uncertain"} :
          /\ result = "ok" => ok /\ hash = "ledger"
          /\ Reg!Spend(Reg!Epoch(x), p)
          /\ regServed' = IF ok /\ p THEN regServed \cup {regW[x].pay} ELSE regServed
          /\ regW' = [regW EXCEPT ![x].pc = "record", ![x].result = result]
          /\ regClaim' = [regClaim EXCEPT ![Reg!Epoch(x)].hash = hash, ![Reg!Epoch(x)].served = ok]
          /\ Reg!Slip({k \in {"recycled"} : hash = "ledger" /\ ~p})
  BY Zenon DEF Reg!Pay
<1>3. PICK hash \in Reg!Receipts(p), result \in {"ok", "uncertain"} :
          /\ result = "ok" => ok /\ hash = "ledger"
          /\ Reg!Spend(Reg!Epoch(x), p)
          /\ regServed' = IF ok /\ p THEN regServed \cup {regW[x].pay} ELSE regServed
          /\ regW' = [regW EXCEPT ![x].pc = "record", ![x].result = result]
          /\ regClaim' = [regClaim EXCEPT ![Reg!Epoch(x)].hash = hash, ![Reg!Epoch(x)].served = ok]
          /\ Reg!Slip({k \in {"recycled"} : hash = "ledger" /\ ~p})
  BY <1>2
<1>4. PICK d \in Reg!Digests :
         /\ d = Reg!Epoch(x) /\ regClaim[d].state = "running" /\ regPaid[d] = 0 /\ x \in Verifs
                               /\ regW[x].pay \in Payloads
                               /\ \A y \in Reg!Workers \ {x} : Reg!Paying(y) => Reg!Epoch(y) # d
  BY <1>1, RegistryPayerFacts
<1>5. /\ hash \in {"none", "unknown", "ledger"} /\ regSlips \subseteq regSlips'
      /\ regSlips' \subseteq {"raced", "reused", "recycled", "spliced"}
      /\ result = "ok" => ok /\ (p \/ "recycled" \in regSlips')
  <2>1. hash \in {"none", "unknown", "ledger"}
    BY <1>3 DEF Reg!Receipts
  <2>2. regSlips' = regSlips \cup {k \in {"recycled"} : hash = "ledger" /\ ~p}
    BY <1>3 DEF Reg!Slip
  <2>3. regSlips \subseteq {"raced", "reused", "recycled", "spliced"}
    BY RegistryKnown DEF Reg!TypeOK
  <2>. QED BY <1>3, <2>1, <2>2, <2>3
<1>6. PICK r \in Reg!Locals :
         /\ r.pc = "record" /\ r.result = result /\ r.row = regW[x].row /\ r.seen = regW[x].seen
                         /\ r.pay = regW[x].pay /\ regW' = [regW EXCEPT ![x] = r]
  <2>. DEFINE g == [regW[x] EXCEPT !.pc = "record", !.result = result]
  <2>1. /\ g \in Reg!Locals /\ g.pc = "record" /\ g.result = result /\ g.row = regW[x].row
           /\ g.seen = regW[x].seen
        /\ g.pay = regW[x].pay /\ regW' = [regW EXCEPT ![x] = g]
    BY <1>1, <1>3 DEF Reg!Locals, Reg!Steps
  <2>. QED BY <2>1, Zenon
<1>7. PICK c \in Reg!Claims : regClaim' = [regClaim EXCEPT ![d] = c] /\ c.state = "running"
  <2>. DEFINE g == [regClaim[d] EXCEPT !.hash = hash, !.served = ok]
  <2>1. g \in Reg!Claims /\ g.state = regClaim[d].state
    BY <1>5, RegistryClaimFacts
  <2>2. regClaim' = [regClaim EXCEPT ![d] = g]
    BY <1>3, <1>4, RegistryKnown
  <2>. QED BY <1>4, <2>1, <2>2, Zenon
<1>8. /\ regPaid' \in [Reg!Digests -> Nat] /\ regPaid'[d] <= 1
         /\ \A e \in Reg!Digests \ {d} : regPaid'[e] = regPaid[e]
  BY <1>3, <1>4, RegistryKnown DEF Reg!Spend
<1>9. regServed' \subseteq Payloads /\ regServed \subseteq regServed'
      /\ regW' \in [Reg!Workers -> Reg!Locals]
  BY <1>1, <1>3, <1>4, <1>6, RegistryKnown
<1>10. Reg!TypeOK' /\ regClaim'[d] = c /\ \A e \in Reg!Digests \ {d} : regClaim'[e] = regClaim[e]
  BY <1>1, <1>5, <1>7, <1>8, <1>9, RegistryClaimType, RegistryKnown DEF Reg!TypeOK
<1>11. RegistryCalm
  BY <1>1, <1>5, <1>9 DEF RegistryCalm
<1>12. RegistryGood(r)'
  <2>1. Reg!Copy(r)'
    BY <1>1, <1>6 DEF RegistryGood, Reg!Copy, Reg!Reading
  <2>2. r.result = "ok" => r.pay \in regServed' \/ "recycled" \in regSlips'
    BY <1>3, <1>5, <1>6
  <2>3. Reg!Vouched(r)'
    BY <1>4, <1>6, <2>2 DEF Reg!Vouched, Reg!Served
  <2>. QED BY <2>1, <2>3 DEF RegistryGood
<1>13. \A e \in Reg!Digests : Reg!Booked(e)'
  BY <1>7, <1>8, <1>10, RegistryKnown DEF Reg!Booked
<1>14. ASSUME NEW y \in Reg!Workers \ {x}, Reg!Paying(y)
       PROVE  /\ Reg!Epoch(y) # d /\ regClaim'[Reg!Epoch(y)] = regClaim[Reg!Epoch(y)]
                 /\ regPaid'[Reg!Epoch(y)] = regPaid[Reg!Epoch(y)]
  <2>1. Reg!Epoch(y) # d /\ Reg!Epoch(y) \in Reg!Digests
    BY <1>4, <1>14, RegistryPayerFacts
  <2>. QED BY <1>8, <1>10, <2>1
<1>15. Digest[r.pay] = d /\ regClaim'[d].state = "running" /\ r.result \in {"ok", "uncertain"}
  BY <1>4, <1>6, <1>7, <1>10 DEF Reg!Epoch
<1>16. \A y \in Reg!Workers : Reg!Alone(y)'
  BY <1>4, <1>6, <1>14, <1>15, RegistryAloneKept
<1>. QED BY <1>1, <1>6, <1>10, <1>11, <1>12, <1>13, <1>16, RegistryGoesOn

LEMMA RegistryRecordResultKeeps == ASSUME Reg!IInv, NEW x \in Reg!Workers,
Reg!RecordResult(x) PROVE Reg!IInv'
<1>1. /\ regW[x].pc = "record"
         /\ UNCHANGED <<regRec, regIndex, regSnapshot, Reg!proofs, regPaid, regServed, regIntent,
                        regSigned, regSlips, regFaults>>
      /\ RegistryGood(regW[x]) /\ Reg!Paying(x)
  BY RegistryKnown DEF Reg!RecordResult, Reg!At, Reg!Paying
<1>2. PICK d \in Reg!Digests : /\ d = Reg!Epoch(x) /\ regW[x].result \in {"unsigned", "ok", "uncertain"}
                               /\ regW[x].result = "unsigned" => regPaid[d] = 0
                               /\ \A y \in Reg!Workers \ {x} : Reg!Paying(y) => Reg!Epoch(y) # d
  BY <1>1, RegistryPayerFacts
<1>3. PICK r \in Reg!Locals : RegistryMoved(x, r, "recheck")
  BY RegistryGotoFacts DEF Reg!Steps, Reg!RecordResult
<1>4. RegistryGood(r) /\ regW' = [regW EXCEPT ![x] = r] /\ r.pc = "recheck"
  BY <1>1, <1>3 DEF RegistryMoved, RegistryGood, Reg!Copy, Reg!Vouched, Reg!Reading
<1>5. RegistryGood(r)'
  BY <1>1, <1>4, RegistryGoodKept DEF RegistryCalm
<1>6. PICK c \in Reg!Claims :
         regClaim' = [regClaim EXCEPT ![d] = c] /\ (c.state = "none" => regPaid[d] = 0)
  <2>1. regClaim' = [regClaim EXCEPT ![d] = CASE regW[x].result = "unsigned"  -> Reg!NoClaim
                                       [] regW[x].result
                                       = "ok"        -> [regClaim[d] EXCEPT !.state = "completed"]
                                       [] regW[x].result
                                       = "uncertain" -> [regClaim[d] EXCEPT !.state = "uncertain"]]
    BY <1>2, RegistryKnown DEF Reg!RecordResult
  <2>2. CASE regW[x].result = "unsigned"
    BY <1>2, <2>1, <2>2, RegistryClaimFacts
  <2>3. CASE regW[x].result = "ok"
    BY <2>1, <2>3, RegistryClaimFacts
  <2>4. CASE regW[x].result = "uncertain"
    BY <2>1, <2>4, RegistryClaimFacts
  <2>. QED BY <1>2, <2>2, <2>3, <2>4
<1>. QED BY <1>1, <1>2, <1>4, <1>5, <1>6, RegistrySettles

LEMMA RegistryRecheckKeeps == ASSUME Reg!IInv, NEW x \in Reg!Workers, Reg!Recheck(x) PROVE Reg!IInv'
<1>1. /\ regW[x].pc = "recheck"
         /\ UNCHANGED <<regRec, regIndex, regSnapshot, Reg!proofs, Reg!money, regIntent, regSigned,
                        regSlips, regFaults>>
      /\ RegistryGood(regW[x]) /\ regW[x] \in Reg!Locals /\ regW \in [Reg!Workers -> Reg!Locals]
         /\ regRec \in Reg!Recs /\ Reg!Named(regRec) /\ Reg!PublishedWasPaid
  BY RegistryKnown DEF Reg!Recheck, Reg!At
<1>2. CASE Reg!End(x)
  BY <1>1, <1>2, RegistryOnlyEnds
<1>3. CASE /\ Reg!Unchanged(x)
           /\ regW' = [regW EXCEPT ![x].pc = "write", ![x].seen = TRUE,
                        ![x].row = IF regW[x].result = "ok"
                        THEN [regRec EXCEPT !.status = "published"] ELSE regRec]
  <2>1. regW[x].seen = TRUE
    BY <1>1, <1>3 DEF Reg!Unchanged
  <2>2. PICK row \in Reg!Recs : /\ row = (IF regW[x].result = "ok"
                                          THEN [regRec EXCEPT !.status = "published"] ELSE regRec)
                           /\ row.pay = regRec.pay /\ row.proof = regRec.proof
                           /\ (regW[x].result # "ok" => row = regRec)
    <3>1. CASE regW[x].result = "ok"
      <4>. DEFINE g == [regRec EXCEPT !.status = "published"]
      <4>1. g \in Reg!Recs /\ g.pay = regRec.pay /\ g.proof = regRec.proof
        BY <1>1 DEF Reg!Recs
      <4>. QED BY <3>1, <4>1, Zenon
    <3>2. CASE regW[x].result # "ok"
      BY <1>1, <3>2
    <3>. QED BY <3>1, <3>2
  <2>3. PICK r \in Reg!Locals :
           /\ r.pc = "write" /\ r.row = row /\ r.seen = TRUE /\ regW' = [regW EXCEPT ![x] = r]
    <3>. DEFINE g == [regW[x] EXCEPT !.pc = "write", !.seen = TRUE, !.row = row]
    <3>1. g \in Reg!Locals /\ g.pc = "write" /\ g.row = row /\ g.seen = TRUE
          /\ regW' = [regW EXCEPT ![x] = g]
      <4>1. regW' = [regW EXCEPT ![x].pc = "write", ![x].seen = TRUE, ![x].row = row]
        BY <1>3, <2>2
      <4>. QED BY <1>1, <4>1 DEF Reg!Locals, Reg!Steps
    <3>. QED BY <3>1, Zenon
  <2>4. regRec.status \in {"pending", "published"} /\ regW[x].pay = regRec.pay
    BY <1>1, <2>1 DEF RegistryGood, Reg!Copy, Reg!Reading
  <2>5. Reg!Copy(r)
    BY <2>2, <2>3, <2>4 DEF Reg!Copy, Reg!Reading
  <2>6. Reg!Named(row)
    BY <1>1, <2>2, <2>4 DEF Reg!Named
  <2>7. row.status = "published" => Reg!Served(row.pay)
    BY <1>1, <2>2, <2>4 DEF RegistryGood, Reg!Vouched, Reg!PublishedWasPaid, Reg!Served
  <2>8. RegistryGood(r)
    BY <2>3, <2>5, <2>6, <2>7 DEF RegistryGood, Reg!Vouched
  <2>9. RegistryGood(r)'
    BY <1>1, <2>8, RegistryGoodKept DEF RegistryCalm, Reg!money
  <2>. QED BY <1>1, <2>3, <2>9, RegistryOnlyWalks
<1>. QED BY <1>2, <1>3 DEF Reg!Recheck

LEMMA RegistryWriteKeeps == ASSUME Reg!IInv, NEW x \in Reg!Workers, Reg!Write(x) PROVE Reg!IInv'
<1>1. /\ regW[x].pc = "write" /\ Reg!PutRecord(x, regW[x].row)
         /\ UNCHANGED <<regIndex, regSnapshot, Reg!proofs, Reg!money, regIntent, regSigned, regFaults>>
      /\ regW[x] \in Reg!Locals /\ RegistryGood(regW[x]) /\ Reg!LastWordStands /\ Reg!TypeOK
  BY RegistryKnown DEF Reg!Write, Reg!At
<1>2. PICK row \in Reg!Recs : row = regW[x].row
  BY <1>1, RegistryLocalFacts
<1>3. Reg!Named(row) /\ (row.status = "published" => Reg!Served(row.pay))
  BY <1>1, <1>2 DEF RegistryGood, Reg!Vouched
<1>4. Reg!LastWordStands'
  <2>1. regRec' = row /\ regSlips' = regSlips \cup {k \in {"raced"} : ~regW[x].seen}
    BY <1>1, <1>2 DEF Reg!PutRecord, Reg!Slip
  <2>2. SUFFICES ASSUME "raced" \notin regSlips' PROVE Reg!LastWordStands'
    BY DEF Reg!LastWordStands
  <2>3. regW[x].seen /\ "raced" \notin regSlips
    BY <2>1, <2>2
  <2>4. regRec.status \in {"pending", "published"} /\ row.pay = regRec.pay /\ row.proof = regRec.proof
    BY <1>1, <1>2, <2>3 DEF RegistryGood, Reg!Copy
  <2>. QED BY <1>1, <2>1, <2>3, <2>4 DEF Reg!LastWordStands
<1>5. regIntent' \in [pay : Reg!Names, suspended : BOOLEAN] /\ regSigned' \in BOOLEAN
  BY <1>1 DEF Reg!TypeOK
<1>6. Reg!PutRecord(x, row) /\ regW[x].pc \notin {"pay", "record"}
  BY <1>1, <1>2
<1>. QED BY <1>1, <1>3, <1>4, <1>5, <1>6, RegistryPutRecordKeeps

LEMMA RegistryStopKeeps == ASSUME Reg!IInv, NEW x \in Reg!Workers, Reg!Stop(x) PROVE Reg!IInv'
<1>1. /\ Reg!Paying(x)
         /\ UNCHANGED <<regRec, regIndex, regSnapshot, Reg!proofs, regServed, regIntent, regSigned,
                        regSlips>> /\ Reg!End(x)
      /\ regFaults' = regFaults + 1
         /\ regClaim' = [regClaim EXCEPT ![Reg!Epoch(x)] = [Reg!NoClaim EXCEPT !.state = "running"]]
      /\ UNCHANGED regPaid
         \/ (regW[x].pc = "pay" /\ regPaid' = [regPaid EXCEPT ![Reg!Epoch(x)] = @ + 1])
  BY DEF Reg!Stop, Reg!Paying, Reg!At
<1>2. PICK d \in Reg!Digests :
         /\ d = Reg!Epoch(x) /\ regClaim[d].state = "running" /\ (regW[x].pc = "pay" => regPaid[d] = 0)
                               /\ \A y \in Reg!Workers \ {x} : Reg!Paying(y) => Reg!Epoch(y) # d
  BY <1>1, RegistryPayerFacts
<1>3. PICK r \in Reg!Locals : regW' = [regW EXCEPT ![x] = r] /\ r.pc = "done" /\ RegistryGood(r)'
  BY <1>1, RegistryEndGood DEF Reg!End
<1>4. PICK c \in Reg!Claims : regClaim' = [regClaim EXCEPT ![d] = c] /\ c.state = "running"
  BY <1>1, <1>2, RegistryClaimFacts
<1>5. /\ regPaid' \in [Reg!Digests -> Nat] /\ regPaid'[d] <= 1
         /\ \A e \in Reg!Digests \ {d} : regPaid'[e] = regPaid[e]
  BY <1>1, <1>2, RegistryKnown DEF Reg!Booked
<1>6. regW' \in [Reg!Workers -> Reg!Locals] /\ regFaults' \in Nat /\ regServed' \subseteq Payloads
      /\ regSlips' \subseteq {"raced", "reused", "recycled", "spliced"}
  BY <1>1, <1>3, RegistryKnown DEF Reg!TypeOK
<1>7. Reg!TypeOK' /\ regClaim'[d] = c /\ \A e \in Reg!Digests \ {d} : regClaim'[e] = regClaim[e]
  BY <1>1, <1>4, <1>5, <1>6, RegistryClaimType
<1>8. \A e \in Reg!Digests : Reg!Booked(e)'
  BY <1>4, <1>5, <1>7, RegistryKnown DEF Reg!Booked
<1>9. ASSUME NEW y \in Reg!Workers \ {x}, Reg!Paying(y)
      PROVE  regClaim'[Reg!Epoch(y)] = regClaim[Reg!Epoch(y)]
             /\ regPaid'[Reg!Epoch(y)] = regPaid[Reg!Epoch(y)]
  <2>1. Reg!Epoch(y) # d /\ Reg!Epoch(y) \in Reg!Digests
    BY <1>2, <1>9, RegistryPayerFacts
  <2>. QED BY <1>5, <1>7, <2>1
<1>10. \A y \in Reg!Workers : Reg!Alone(y)'
  BY <1>3, <1>9, RegistryAloneKept
<1>11. RegistryCalm /\ regW[x].pc # "index"
  BY <1>1 DEF RegistryCalm, Reg!Paying
<1>. QED BY <1>1, <1>3, <1>7, <1>8, <1>10, <1>11, RegistryGoesOn

-----------------------------------------------------------------------------
(* Cron passes.                                                            *)

LEMMA RegistryKeeperReadKeeps == ASSUME Reg!IInv, NEW x \in Reg!Workers,
Reg!KeeperRead(x) PROVE Reg!IInv'
<1>1. /\ regW[x].pc # "index"
         /\ UNCHANGED <<regRec, regIndex, regSnapshot, Reg!proofs, Reg!money, regIntent, regSigned,
                        regSlips, regFaults>>
      /\ regRec.status = "published" /\ regRec \in Reg!Recs
      /\ regW' = [regW EXCEPT ![x] = [Reg!Idle EXCEPT !.pc = "recheck", !.row = regRec,
                                      !.pay = regRec.pay]]
  BY RegistryKnown DEF Reg!KeeperRead, Reg!Start, Reg!At
<1>2. PICK r \in Reg!Locals : /\ r = [Reg!Idle EXCEPT !.pc = "recheck", !.row = regRec,
                                      !.pay = regRec.pay]
                         /\ r.pc = "recheck" /\ r.row = regRec /\ r.pay = regRec.pay
                            /\ r.result = "none"
  <2>. DEFINE g == [Reg!Idle EXCEPT !.pc = "recheck", !.row = regRec, !.pay = regRec.pay]
  <2>1. Reg!Idle \in Reg!Locals /\ regRec.pay \in Reg!Names /\ Reg!Idle.result = "none"
    BY <1>1, RegistryIdleFacts, RegistryRecFacts
  <2>2. g \in Reg!Locals /\ g.pc = "recheck" /\ g.row = regRec /\ g.pay = regRec.pay
        /\ g.result = "none"
    BY <1>1, <2>1 DEF Reg!Locals, Reg!Steps
  <2>. QED BY <2>2, Zenon
<1>3. RegistryGood(r)
  BY <1>1, <1>2 DEF RegistryGood, Reg!Copy, Reg!Vouched, Reg!Reading
<1>4. RegistryGood(r)'
  BY <1>1, <1>3, RegistryGoodKept DEF RegistryCalm, Reg!money
<1>5. regW' = [regW EXCEPT ![x] = r]
  BY <1>1, <1>2
<1>. QED BY <1>1, <1>2, <1>4, <1>5, RegistryOnlyWalks

-----------------------------------------------------------------------------
(* The theorems.                                                           *)

LEMMA RegistryInitInv == ASSUME Reg!Init PROVE Reg!IInv
<1>1. PICK p \in {NoPayload, FirstPayload} :
              LET pub == p # NoPayload IN
              /\ regRec = IF pub
                 THEN [status |-> "published", pay |-> p, proof |-> "live402", domain |-> TRUE]
                          ELSE Reg!None
              /\ regIndex = p /\ regSnapshot = p /\ regIdClaim = pub /\ regServed = {p} \ {NoPayload}
              /\ regClaim = [d \in Reg!Digests |-> IF pub /\ d = Digest[FirstPayload]
                             THEN [state |-> "completed", hash |-> "ledger", served |-> TRUE]
                             ELSE Reg!NoClaim]
              /\ regPaid = [d \in Reg!Digests |-> IF pub /\ d = Digest[FirstPayload] THEN 1 ELSE 0]
              /\ regIntent = [pay |-> p, suspended |-> FALSE]
  BY DEF Reg!Init
<1>2. /\ regW = [x \in Reg!Workers |-> Reg!Idle] /\ regToken = FALSE /\ regEvidence = FALSE
         /\ regSigned = FALSE /\ regSlips = {} /\ regFaults = 0
  BY DEF Reg!Init
<1>3. p \in Reg!Names /\ (p # NoPayload => p \in Payloads)
  BY RegistryConstants DEF Reg!Names
<1>4. Reg!NoClaim \in Reg!Claims /\ Reg!NoClaim.state = "none"
      /\ [state |-> "completed", hash |-> "ledger", served |-> TRUE] \in Reg!Claims
  BY DEF Reg!NoClaim, Reg!Claims
<1>5. regClaim \in [Reg!Digests -> Reg!Claims] /\ regPaid \in [Reg!Digests -> Nat]
      /\ \A d \in Reg!Digests : Reg!Booked(d)
  BY <1>1, <1>4 DEF Reg!Booked
<1>6. regRec \in Reg!Recs /\ regRec.pay = p /\ (p # NoPayload => regRec.status = "published")
      /\ (p = NoPayload => regRec.status = "none")
  BY <1>1, <1>3 DEF Reg!None, Reg!Recs, Reg!Kinds, Reg!Names
<1>7. \A x \in Reg!Workers : regW[x] = Reg!Idle
  BY <1>2
<1>8. Reg!Idle \in Reg!Locals /\ Reg!Idle.pc = "idle"
  BY RegistryIdleFacts
<1>. HIDE DEF Reg!Idle
<1>9. \A x \in Reg!Workers : Reg!Copy(regW[x]) /\ Reg!Vouched(regW[x]) /\ Reg!Alone(x)
  BY <1>7, <1>8 DEF Reg!Copy, Reg!Vouched, Reg!Alone, Reg!Paying, Reg!Reading
<1>10. regIndex \in Reg!Names /\ regSnapshot \in Reg!Names /\ regIdClaim \in BOOLEAN
       /\ regIntent \in [pay : Reg!Names, suspended : BOOLEAN]
  BY <1>1, <1>3
<1>11. regServed \subseteq Payloads
  BY <1>1, <1>3
<1>12. regW \in [Reg!Workers -> Reg!Locals]
  BY <1>2, <1>8
<1>13. Reg!TypeOK
  BY <1>2, <1>5, <1>6, <1>10, <1>11, <1>12 DEF Reg!TypeOK
<1>14. Reg!Named(regRec) /\ Reg!PublishedWasPaid
  BY <1>1, <1>3, <1>6 DEF Reg!Named, Reg!PublishedWasPaid
<1>15. Reg!LastWordStands
  BY <1>1, <1>2, <1>6 DEF Reg!LastWordStands
<1>16. Reg!Listed
  BY <1>1, <1>6 DEF Reg!Listed, Reg!Splice
<1>. QED BY <1>5, <1>9, <1>13, <1>14, <1>15, <1>16 DEF Reg!IInv

LEMMA RegistryStutterKeeps == ASSUME Reg!IInv, UNCHANGED Reg!vars PROVE Reg!IInv'
<1>1. /\ regW' = regW /\ regRec' = regRec /\ regIndex' = regIndex
         /\ UNCHANGED <<Reg!money, regIntent, regSigned, regSlips>>
      /\ UNCHANGED <<regSnapshot, Reg!proofs, regFaults>>
  BY DEF Reg!vars
<1>2. Reg!TypeOK'
  BY <1>1, RegistryKnown DEF Reg!TypeOK, Reg!money, Reg!proofs
<1>. QED BY <1>1, <1>2, RegistryNoMoney

LEMMA RegistryNextKeeps == Reg!IInv /\ [Reg!Next]_Reg!vars => Reg!IInv'
<1>. SUFFICES ASSUME Reg!IInv, [Reg!Next]_Reg!vars PROVE Reg!IInv'
  OBVIOUS
<1>1. CASE UNCHANGED Reg!vars
  BY <1>1, RegistryStutterKeeps
<1>2. ASSUME NEW x \in Askers, Reg!Register(x) PROVE Reg!IInv'
  <2>1. x \in Reg!Workers
    BY DEF Reg!Workers
  <2>. QED BY <1>2, <2>1, RegistryRegReadKeeps, RegistryRegProofKeeps, RegistryClaimIdKeeps,
       RegistryHostingKeeps, RegistryRegPutKeeps, RegistryPutIndexKeeps DEF Reg!Register
<1>3. ASSUME NEW x \in Verifs, Reg!Verify(x) PROVE Reg!IInv'
  <2>1. x \in Reg!Workers
    BY DEF Reg!Workers
  <2>. QED BY <1>3, <2>1, RegistryVerifyReadKeeps, RegistrySettleClaimKeeps, RegistryProbeKeeps,
       RegistryAcquireKeeps, RegistryUnsignedKeeps, RegistryPayKeeps,
              RegistryRecordResultKeeps, RegistryRecheckKeeps, RegistryWriteKeeps,
              RegistryPutIndexKeeps, RegistryStopKeeps DEF Reg!Verify
<1>4. ASSUME NEW x \in Keepers, Reg!Keep(x) PROVE Reg!IInv'
  <2>1. x \in Reg!Workers
    BY DEF Reg!Workers
  <2>. QED BY <1>4, <2>1, RegistryKeeperReadKeeps, RegistryRecheckKeeps, RegistryWriteKeeps,
       RegistryPutIndexKeeps DEF Reg!Keep
<1>5. ASSUME NEW d \in Reg!Digests, Reg!StatusPage(d) PROVE Reg!IInv'
  BY <1>5, RegistryStatusPageKeeps
<1>. QED BY <1>1, <1>2, <1>3, <1>4, <1>5, RegistryIssueTokenKeeps, RegistryExpireTokenKeeps,
     RegistryDomainVerifyKeeps, RegistryOtherReadsKeeps,
            RegistryOtherWritesKeeps, RegistrySuspendKeeps DEF Reg!Next

\* Every reachable state of the registry is one the invariant describes.
THEOREM RegistryInvariant == Reg!Spec => []Reg!IInv
BY RegistryInitInv, RegistryNextKeeps, PTL DEF Reg!Spec

LEMMA RegistryKeptSafe == Reg!IInv => Reg!PaidOncePerVersion /\ Reg!PublishedWasPaid
/\ Reg!LastWordStands /\ Reg!ListedIsPublished
<1>. SUFFICES ASSUME Reg!IInv PROVE Reg!PaidOncePerVersion /\ Reg!PublishedWasPaid
                     /\ Reg!LastWordStands /\ Reg!ListedIsPublished
  OBVIOUS
<1>1. Reg!PaidOncePerVersion
  BY RegistryKnown DEF Reg!Booked, Reg!PaidOncePerVersion
<1>2. Reg!ListedIsPublished
  BY RegistryKnown DEF Reg!Listed, Reg!ListedIsPublished, Reg!Splice, Reg!At
<1>. QED BY <1>1, <1>2, RegistryKnown

\* A version is paid for once, what is published was paid for, the last word
\* stands and the catalogue lists it, but for what the properties name.
THEOREM RegistrySafe == Reg!Spec
=> [](Reg!PaidOncePerVersion /\ Reg!PublishedWasPaid /\ Reg!LastWordStands /\ Reg!ListedIsPublished)
BY RegistryKeptSafe, RegistryInvariant, PTL

-----------------------------------------------------------------------------
(* Once more for the behaviours where topic picks the component.           *)

OrdersTopicInv   == topic = "orders" => Ord!IInv
RegistryTopicInv == topic = "registry" => Reg!IInv

LEMMA OrdersTopicInvariant == TopicSpec => []OrdersTopicInv
<1>1. TopicInit => OrdersTopicInv
  BY OrdersInitInv DEF TopicInit, OrdersTopicInv
<1>2. OrdersTopicInv /\ [TopicNext]_topicVars => OrdersTopicInv'
  <2>1. SUFFICES ASSUME topic = "orders" => Ord!IInv, [TopicNext]_topicVars, topic' = "orders"
                 PROVE  Ord!IInv'
    BY DEF OrdersTopicInv
  <2>2. CASE topic = "orders" /\ Ord!Next /\ topic' = topic
    BY <2>1, <2>2, OrdersNextKeeps
  <2>3. CASE UNCHANGED <<topic, ordVars>>
    <3>1. topic = "orders" /\ UNCHANGED Ord!vars
      BY <2>1, <2>3 DEF ordVars, Ord!vars, Ord!upstream
    <3>. QED BY <2>1, <3>1, OrdersNextKeeps
  <2>. QED BY <2>1, <2>2, <2>3 DEF TopicNext, topicVars
<1>. QED BY <1>1, <1>2, PTL DEF TopicSpec

LEMMA RegistryTopicInvariant == TopicSpec => []RegistryTopicInv
<1>1. TopicInit => RegistryTopicInv
  BY RegistryInitInv DEF TopicInit, RegistryTopicInv
<1>2. RegistryTopicInv /\ [TopicNext]_topicVars => RegistryTopicInv'
  <2>1. SUFFICES ASSUME topic = "registry" => Reg!IInv, [TopicNext]_topicVars, topic' = "registry"
                 PROVE  Reg!IInv'
    BY DEF RegistryTopicInv
  <2>2. CASE topic = "registry" /\ Reg!Next /\ topic' = topic
    BY <2>1, <2>2, RegistryNextKeeps
  <2>3. CASE UNCHANGED <<topic, regVars>>
    <3>1. topic = "registry" /\ UNCHANGED Reg!vars
      BY <2>1, <2>3 DEF regVars, Reg!vars, Reg!money, Reg!proofs
    <3>. QED BY <2>1, <3>1, RegistryNextKeeps
  <2>. QED BY <2>1, <2>2, <2>3 DEF TopicNext, topicVars
<1>. QED BY <1>1, <1>2, PTL DEF TopicSpec

\* The invariant of the run: a link has one live classic order, and no answer
\* hands out pay-in details its own request had retired.
THEOREM OrdersHandedHolds == TopicSpec => []OrdersHanded
<1>1. OrdersTopicInv => OrdersHanded
  BY OrdersKeptSafe DEF OrdersHanded, OrdersTopicInv
<1>. QED BY <1>1, OrdersTopicInvariant, PTL

\* The invariant of the run: no order goes out as payable when an order it
\* stands for had been funded, unless that order could not be read again.
THEOREM OrdersPaidOnceHolds == TopicSpec => []OrdersPaidOnce
<1>1. OrdersTopicInv => OrdersPaidOnce
  BY OrdersKeptSafe DEF OrdersPaidOnce, OrdersTopicInv
<1>. QED BY <1>1, OrdersTopicInvariant, PTL

\* The invariant of the run: the wallet pays once for a version, however often it
\* is verified, and what is published was served a paid call, unless the version or
\* the receipt of an earlier one was taken for it.
THEOREM VerifiedOnceHolds == TopicSpec => []VerifiedOnce
<1>1. RegistryTopicInv => VerifiedOnce
  BY RegistryKeptSafe DEF VerifiedOnce, RegistryTopicInv
<1>. QED BY <1>1, RegistryTopicInvariant, PTL

\* The invariant of the run: nothing brings back what the last registration or a
\* suspension replaced, and the catalogue follows the record.
THEOREM CatalogueTrueHolds == TopicSpec => []CatalogueTrue
<1>1. RegistryTopicInv => CatalogueTrue
  BY RegistryKeptSafe DEF CatalogueTrue, RegistryTopicInv
<1>. QED BY <1>1, RegistryTopicInvariant, PTL
=============================================================================
