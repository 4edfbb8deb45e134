------------------------- MODULE AtomicStoreProofs -------------------------
(***************************************************************************)
(* Proofs about AtomicStore: type correctness, the invariant that a        *)
(* version pins a value, and that the store implements AtomicRegister, for *)
(* any keys, calls, functions and retry bound, whatever keys are seeded    *)
(* and deleted: the calls that a restarted version leaves behind are those *)
(* in stale, and no others.                                                *)
(***************************************************************************)
EXTENDS AtomicStore, TLAPS

\* What a message is, by its type.
LEMMA MessageCases ==
  ASSUME NEW m \in Message
  PROVE  /\ m.type \in {"none", "read", "readReply", "conflict", "commit", "ok"}
         /\ m.type = "none" <=> m = Idle
         /\ m.type = "read" <=> m = ReadRequest
         /\ m.type \in {"readReply", "conflict"} =>
                m.value \in Values \cup {NoValue} /\ m.version \in Nat
         /\ m.type = "commit" => m.expectedVersion \in Nat /\ m.change \in Change
         /\ m.type = "ok" => m.change \in Change
BY DEF Message, Idle, ReadRequest

\* What a change is, by its operation.
LEMMA ChangeCases ==
  ASSUME NEW ch \in Change
  PROVE  /\ ch.op \in {"set", "delete", "noop"}
         /\ ch.result \in Results
         /\ ch.value \in Values \cup {NoValue}
         /\ ch.op = "set" <=> ch.value \in Values
         /\ ch.op = "set" <=> ch.value # NoValue
BY ConstantsAssumption DEF Change

\* A call's function maps every current value to a change.
LEMMA FnChange ==
  ASSUME NEW f \in Fns, NEW v \in Values \cup {NoValue}
  PROVE  f[v] \in Change
BY ConstantsAssumption

\* The constructors build messages.
LEMMA MessageTypes ==
  /\ Idle \in Message
  /\ ReadRequest \in Message
  /\ \A v \in Values \cup {NoValue}, n \in Nat : /\ ReadReply(v, n) \in Message
                                                /\ Conflict(v, n) \in Message
  /\ \A n \in Nat, ch \in Change : /\ CommitRequest(n, ch) \in Message
                                   /\ CommitOk(ch) \in Message
BY DEF Message, Idle, ReadRequest, ReadReply, Conflict, CommitRequest, CommitOk

-----------------------------------------------------------------------------

LEMMA InitIInv == Init => IInv
<1> SUFFICES ASSUME Init PROVE IInv
  OBVIOUS
<1>1. TypeOK
  BY ConstantsAssumption, MessageTypes DEF Init, TypeOK, Kinds
<1>2. \A c \in Calls : wire[c].type = "none"
  BY DEF Init, Idle
<1>3. VersionPinsValue
  BY <1>2 DEF VersionPinsValue
<1>4. ASSUME NEW c \in Calls PROVE Protocol(c)
  BY <1>2 DEF Protocol, Init
<1> QED
  BY <1>1, <1>3, <1>4 DEF IInv

\* Every step keeps the types.
LEMMA TypeStep == TypeOK /\ [Next]_vars => TypeOK'
<1> SUFFICES ASSUME TypeOK, [Next]_vars PROVE TypeOK'
  OBVIOUS
<1> USE DEF TypeOK, store, call
<1>1. ASSUME NEW c \in Calls, HandleRead(c) PROVE TypeOK'
  <2>1. ReadReply(value[target[c]], version[target[c]]) \in Message
    BY MessageTypes
  <2> QED
    BY <1>1, <2>1 DEF HandleRead
<1>2. ASSUME NEW c \in Calls, HandleCommitMatch(c) PROVE TypeOK'
  <2>1. /\ wire[c].expectedVersion \in Nat
        /\ wire[c].change \in Change
        /\ wire[c].change.value \in Values \cup {NoValue}
    BY <1>2, MessageCases, ChangeCases DEF HandleCommitMatch
  <2>2. CommitOk(wire[c].change) \in Message
    BY <2>1, MessageTypes
  <2> QED
    BY <1>2, <2>1, <2>2 DEF HandleCommitMatch
<1>3. ASSUME NEW c \in Calls, HandleCommitConflict(c) PROVE TypeOK'
  <2>1. Conflict(value[target[c]], version[target[c]]) \in Message
    BY MessageTypes
  <2> QED
    BY <1>3, <2>1 DEF HandleCommitConflict
<1>4. ASSUME NEW c \in Calls, Begin(c) PROVE TypeOK'
  BY <1>4, MessageTypes DEF Begin
<1>5. ASSUME NEW c \in Calls, ReturnNoop(c) PROVE TypeOK'
  <2>1. wire[c].value \in Values \cup {NoValue}
    BY <1>5, MessageCases DEF ReturnNoop, Fresh
  <2>2. fn[c][wire[c].value].result \in Results
    BY <2>1, FnChange, ChangeCases
  <2> QED
    BY <1>5, <2>2 DEF ReturnNoop
<1>6. ASSUME NEW c \in Calls, SendCommit(c) PROVE TypeOK'
  <2>1. wire[c].value \in Values \cup {NoValue} /\ wire[c].version \in Nat
    BY <1>6, MessageCases DEF SendCommit, Fresh
  <2>2. CommitRequest(wire[c].version, fn[c][wire[c].value]) \in Message
    BY <2>1, FnChange, MessageTypes
  <2>3. attempt[c] + 1 \in 0 .. MaxRetries
    BY <1>6, ConstantsAssumption DEF SendCommit
  <2> QED
    BY <1>6, <2>2, <2>3 DEF SendCommit
<1>7. ASSUME NEW c \in Calls, ReadAgain(c) PROVE TypeOK'
  BY <1>7, MessageTypes DEF ReadAgain
<1>8. ASSUME NEW c \in Calls, ReturnCommitted(c) PROVE TypeOK'
  <2>1. wire[c].change.result \in Results
    BY <1>8, MessageCases, ChangeCases DEF ReturnCommitted
  <2> QED
    BY <1>8, <2>1 DEF ReturnCommitted
<1>9. ASSUME NEW c \in Calls, ThrowExhausted(c) \/ Fail(c) PROVE TypeOK'
  BY <1>9 DEF ThrowExhausted, Fail
<1>10. ASSUME NEW k \in SeedKeys, NEW v \in Values, HandleSeed(k, v) PROVE TypeOK'
  BY <1>10, ConstantsAssumption DEF HandleSeed
<1>11. CASE UNCHANGED vars
  BY <1>11 DEF vars
<1> QED
  BY <1>1, <1>2, <1>3, <1>4, <1>5, <1>6, <1>7, <1>8, <1>9, <1>10, <1>11 DEF Next

\* Type correctness of the store and its clients, for every instance.
THEOREM TypeCorrect == Spec => []TypeOK
<1>1. Init => TypeOK
  BY InitIInv DEF IInv
<1> QED
  BY <1>1, TypeStep, PTL DEF Spec

-----------------------------------------------------------------------------
(* The inductive step.  OneCall restates the part of IInv about one call,  *)
(* for the calls an action leaves alone while it moves the store forward.  *)

HandleStep(c) == HandleRead(c) \/ HandleCommitMatch(c) \/ HandleCommitConflict(c)
ClientStep(c) == \/ Begin(c) \/ ReturnNoop(c) \/ SendCommit(c) \/ ReadAgain(c)
                 \/ ReturnCommitted(c) \/ ThrowExhausted(c) \/ Fail(c)

OneCall(c) ==
    /\ Protocol(c)
    /\ c \notin stale =>
          /\ wire[c].type \in {"readReply", "conflict"} =>
                /\ wire[c].version <= version[target[c]]
                /\ wire[c].version = version[target[c]] => wire[c].value = value[target[c]]
          /\ wire[c].type = "commit" =>
                /\ wire[c].expectedVersion <= version[target[c]]
                /\ wire[c].expectedVersion = version[target[c]] =>
                      wire[c].change = fn[c][value[target[c]]]

LEMMA IInvByCall ==
  IInv <=> TypeOK /\ \A c \in Calls : OneCall(c)
BY DEF IInv, VersionPinsValue, OneCall

\* A call whose own state does not change keeps its part of the invariant when
\* the version of its key stays with its value, or grows, or the call is
\* counted among the stale ones.
LEMMA OtherCall ==
  ASSUME TypeOK, TypeOK', NEW c \in Calls, OneCall(c),
         UNCHANGED <<fn, kind, target>>,
         status'[c] = status[c], wire'[c] = wire[c], attempt'[c] = attempt[c],
         c \in stale => c \in stale',
         \/ ~HoldsPair(c)
         \/ c \in stale'
         \/ version'[target[c]] = version[target[c]] /\ value'[target[c]] = value[target[c]]
         \/ version'[target[c]] > version[target[c]]
  PROVE  OneCall(c)'
<1> DEFINE k == target[c]
<1>1. k \in Keys /\ version[k] \in Nat /\ version'[k] \in Nat
  BY DEF TypeOK
<1>2. wire[c] \in Message /\ attempt[c] \in Nat
  BY DEF TypeOK
<1>3. Protocol(c)'
  BY <1>1, <1>2 DEF OneCall, Protocol, Fresh
<1>4. CASE ~HoldsPair(c)
  BY <1>3, <1>4 DEF OneCall, HoldsPair
<1>5. CASE c \in stale'
  BY <1>3, <1>5 DEF OneCall
<1>6. CASE c \notin stale' /\ HoldsPair(c)
  <2>1. version'[k] >= version[k] /\ (version'[k] = version[k] => value'[k] = value[k])
    BY <1>1, <1>6
  <2>2. wire[c].type \in {"readReply", "conflict"} => wire[c].version \in Nat
    BY <1>2, MessageCases
  <2>3. wire[c].type = "commit" => wire[c].expectedVersion \in Nat
    BY <1>2, MessageCases
  <2> QED
    BY <1>1, <1>3, <1>6, <2>1, <2>2, <2>3 DEF OneCall
<1> QED
  BY <1>4, <1>5, <1>6

\* The whole invariant is kept by every step.
LEMMA IInvStep == IInv /\ [Next]_vars => IInv'
<1> SUFFICES ASSUME IInv, [Next]_vars PROVE IInv'
  OBVIOUS
<1>1. TypeOK /\ TypeOK' /\ \A c \in Calls : OneCall(c)
  BY IInvByCall, TypeStep
<1> SUFFICES \A d \in Calls : OneCall(d)'
  BY <1>1 DEF IInv, VersionPinsValue, OneCall
<1>2. ASSUME NEW c \in Calls, HandleRead(c) PROVE \A d \in Calls : OneCall(d)'
  <2> DEFINE k == target[c]
  <2>1. UNCHANGED <<value, version, fn, kind, target, status, attempt, answer>>
    BY <1>2 DEF HandleRead, store, call
  <2>2. k \in Keys /\ wire'[c] = ReadReply(value[k], version[k]) /\ wire[c].type = "read"
    BY <1>1, <1>2 DEF HandleRead, TypeOK, ReadRequest
  <2>3. version[k] \in Nat /\ attempt[c] \in Nat
    BY <1>1, <2>2 DEF TypeOK
  <2>4. OneCall(c)'
    BY <1>1, <2>1, <2>2, <2>3 DEF OneCall, Protocol, ReadReply, Fresh
  <2>5. \A d \in Calls : d # c => wire'[d] = wire[d] /\ (d \in stale => d \in stale')
    BY <1>1, <1>2 DEF HandleRead, TypeOK
  <2> QED
    BY <1>1, <2>1, <2>4, <2>5, OtherCall
<1>3. ASSUME NEW c \in Calls, HandleCommitMatch(c) PROVE \A d \in Calls : OneCall(d)'
  <2> DEFINE k == target[c]
             m == wire[c]
  <2>1. UNCHANGED <<fn, kind, target, status, attempt, answer, stale>>
    BY <1>3 DEF HandleCommitMatch, call
  <2>2. /\ k \in Keys
        /\ m.type = "commit"
        /\ m \in Message
        /\ version[k] = m.expectedVersion
        /\ value' = [value EXCEPT ![k] = m.change.value]
        /\ version' = [version EXCEPT ![k] = m.expectedVersion + 1]
        /\ wire'[c] = CommitOk(m.change)
        /\ \A d \in Calls : d # c => wire'[d] = wire[d]
    BY <1>1, <1>3 DEF HandleCommitMatch, TypeOK
  <2>3. version[k] \in Nat /\ m.change \in Change /\ attempt[c] \in Nat
    BY <1>1, <2>2, MessageCases DEF TypeOK
  <2>4. \A j \in Keys : \/ version'[j] = version[j] /\ value'[j] = value[j]
                        \/ version'[j] > version[j]
    BY <1>1, <2>2, <2>3 DEF TypeOK
  <2>5. OneCall(c)'
    BY <1>1, <2>1, <2>2, <2>3 DEF OneCall, Protocol, CommitOk, Fresh
  <2>6. \A d \in Calls : target[d] \in Keys
    BY <1>1 DEF TypeOK
  <2> QED
    BY <1>1, <2>1, <2>2, <2>4, <2>5, <2>6, OtherCall
<1>4. ASSUME NEW c \in Calls, HandleCommitConflict(c) PROVE \A d \in Calls : OneCall(d)'
  <2> DEFINE k == target[c]
             m == wire[c]
  <2>1. UNCHANGED <<value, version, fn, kind, target, status, attempt, answer>>
    BY <1>4 DEF HandleCommitConflict, store, call
  <2>2. /\ k \in Keys
        /\ m.type = "commit"
        /\ wire'[c] = Conflict(value[k], version[k])
        /\ \A d \in Calls : d # c => wire'[d] = wire[d] /\ (d \in stale => d \in stale')
    BY <1>1, <1>4 DEF HandleCommitConflict, TypeOK
  <2>3. version[k] \in Nat
    BY <1>1, <2>2 DEF TypeOK
  <2>4. status[c] \notin {"new", "returned"}
    BY <1>1, <2>2 DEF OneCall, Protocol, Fresh
  <2>5. OneCall(c)'
    BY <1>1, <2>1, <2>2, <2>3, <2>4 DEF OneCall, Protocol, Conflict, Fresh
  <2> QED
    BY <1>1, <2>1, <2>2, <2>5, OtherCall
<1>5. ASSUME NEW c \in Calls, HandleStep(c) PROVE \A d \in Calls : OneCall(d)'
  BY <1>2, <1>3, <1>4, <1>5 DEF HandleStep
<1>6. ASSUME NEW c \in Calls, ClientStep(c) PROVE \A d \in Calls : OneCall(d)'
  <2>1. UNCHANGED <<value, version, fn, kind, target, stale>>
    BY <1>6 DEF ClientStep, Begin, ReturnNoop, SendCommit, ReadAgain, ReturnCommitted,
                ThrowExhausted, Fail, store, call
  <2>2. \A d \in Calls : d # c => /\ wire'[d] = wire[d]
                                  /\ status'[d] = status[d]
                                  /\ attempt'[d] = attempt[d]
    BY <1>1, <1>6 DEF ClientStep, Begin, ReturnNoop, SendCommit, ReadAgain, ReturnCommitted,
                      ThrowExhausted, Fail, TypeOK
  <2>3. \A d \in Calls : d # c => OneCall(d)'
    BY <1>1, <2>1, <2>2, OtherCall
  <2>4. /\ wire[c] \in Message
        /\ target[c] \in Keys
        /\ version[target[c]] \in Nat
        /\ attempt[c] \in Nat
    BY <1>1 DEF TypeOK
  <2> SUFFICES OneCall(c)'
    BY <2>3
  <2>5. CASE Begin(c)
    BY <1>1, <2>1, <2>4, <2>5 DEF Begin, OneCall, Protocol, Fresh, TypeOK, ReadRequest
  <2>6. CASE ReturnNoop(c)
    BY <1>1, <2>1, <2>4, <2>6 DEF ReturnNoop, OneCall, Protocol, Fresh, TypeOK
  <2>7. CASE SendCommit(c)
    <3> DEFINE ch == fn[c][wire[c].value]
    <3>1. /\ wire[c].type \in {"readReply", "conflict"}
          /\ wire[c].value \in Values \cup {NoValue}
          /\ wire[c].version \in Nat
      BY <2>4, <2>7, MessageCases DEF SendCommit, Fresh
    <3>2. /\ wire'[c] = CommitRequest(wire[c].version, ch)
          /\ status'[c] = "called"
          /\ ch.op # "noop"
      BY <1>1, <2>7 DEF SendCommit, TypeOK
    <3>3. c \notin stale =>
             /\ wire[c].version <= version[target[c]]
             /\ wire[c].version = version[target[c]] => wire[c].value = value[target[c]]
      BY <1>1, <3>1 DEF OneCall
    <3>4. Protocol(c)'
      BY <2>1, <3>1, <3>2 DEF Protocol, CommitRequest, Fresh
    <3> QED
      BY <2>1, <3>1, <3>2, <3>3, <3>4 DEF OneCall, CommitRequest
  <2>8. CASE ReadAgain(c)
    BY <1>1, <2>1, <2>4, <2>8 DEF ReadAgain, OneCall, Protocol, Fresh, TypeOK, ReadRequest
  <2>9. CASE ReturnCommitted(c) \/ ThrowExhausted(c) \/ Fail(c)
    BY <1>1, <2>1, <2>4, <2>9
       DEF ReturnCommitted, ThrowExhausted, Fail, OneCall, Protocol, Fresh, TypeOK
  <2> QED
    BY <1>6, <2>5, <2>6, <2>7, <2>8, <2>9 DEF ClientStep
<1>7. ASSUME NEW k \in SeedKeys, NEW v \in Values, HandleSeed(k, v)
      PROVE  \A d \in Calls : OneCall(d)'
  <2>1. k \in Keys /\ version[k] \in Nat
    BY <1>1, ConstantsAssumption DEF TypeOK
  <2>2. /\ UNCHANGED <<fn, kind, target, status, wire, attempt>>
        /\ value' = [value EXCEPT ![k] = v]
        /\ version' = [version EXCEPT ![k] = 1]
        /\ stale' = stale \cup {c \in Calls : target[c] = k /\ version[k] > 0 /\ HoldsPair(c)}
    BY <1>7 DEF HandleSeed, call
  <2>3. ASSUME NEW d \in Calls PROVE OneCall(d)'
    <3>1. \/ ~HoldsPair(d)
          \/ d \in stale'
          \/ version'[target[d]] = version[target[d]] /\ value'[target[d]] = value[target[d]]
          \/ version'[target[d]] > version[target[d]]
      BY <1>1, <2>1, <2>2 DEF TypeOK
    <3> QED
      BY <1>1, <2>2, <3>1, OtherCall
  <2> QED
    BY <2>3
<1>8. CASE UNCHANGED vars
  BY <1>1, <1>8, OtherCall DEF vars
<1> QED
  BY <1>5, <1>6, <1>7, <1>8 DEF Next, HandleStep, ClientStep

LEMMA IInvInvariant == Spec => []IInv
BY InitIInv, IInvStep, PTL DEF Spec

\* A call that holds the object's current version holds its current value, so
\* the version compare-and-set of /commit never overwrites a value the
\* caller's function has not seen, unless /seed restarted the version of its
\* key while the call was under way.
THEOREM VersionPinsValueHolds == Spec => []VersionPinsValue
<1>1. IInv => VersionPinsValue
  BY DEF IInv
<1> QED
  BY <1>1, IInvInvariant, PTL

-----------------------------------------------------------------------------
(* Refinement.                                                             *)

\* What a call has done so far is a result or nothing, and depends only on
\* its own message, its function and its kind.
LEMMA EffectLocal ==
  ASSUME TypeOK, TypeOK', UNCHANGED <<fn, kind>>, NEW d \in Calls, wire'[d] = wire[d]
  PROVE  Effect(d)' = Effect(d)
BY DEF Effect, Fresh

\* The refinement map moves at one call only.
LEMMA EffectUpdate ==
  ASSUME TypeOK, TypeOK', UNCHANGED <<fn, kind>>, NEW c \in Calls,
         \A d \in Calls : d # c => wire'[d] = wire[d]
  PROVE  [d \in Calls |-> Effect(d)]' = [[d \in Calls |-> Effect(d)] EXCEPT ![c] = Effect(c)']
<1>1. \A d \in Calls : d # c => Effect(d)' = Effect(d)
  BY EffectLocal
<1> QED
  BY <1>1

LEMMA EffectUnchanged ==
  ASSUME TypeOK, TypeOK', UNCHANGED <<fn, kind>>, NEW c \in Calls,
         \A d \in Calls : d # c => wire'[d] = wire[d],
         Effect(c)' = Effect(c)
  PROVE  [d \in Calls |-> Effect(d)]' = [d \in Calls |-> Effect(d)]
<1>1. \A d \in Calls : Effect(d)' = Effect(d)
  BY EffectLocal
<1> QED
  BY <1>1

LEMMA RefinesInit == Init => Abs!Init
<1> SUFFICES ASSUME Init PROVE Abs!Init
  OBVIOUS
<1>1. ASSUME NEW c \in Calls PROVE Effect(c) = NoResult
  BY DEF Init, Effect, Fresh, Idle
<1> QED
  BY <1>1 DEF Init, Abs!Init

LEMMA RefinesStep ==
  ASSUME IInv, IInv', [Next]_vars
  PROVE  [Abs!Next]_(Abs!vars)
<1>1. TypeOK /\ TypeOK' /\ \A c \in Calls : OneCall(c)
  BY IInvByCall DEF IInv
<1> DEFINE eff    == [d \in Calls |-> Effect(d)]
           behind == {d \in stale : Effect(d) = NoResult}
<1>2. ASSUME NEW c \in Calls, HandleRead(c) \/ HandleCommitConflict(c)
      PROVE  [Abs!Next]_(Abs!vars)
  <2> DEFINE k  == target[c]
             ch == fn[c][value[k]]
  <2>1. /\ UNCHANGED <<value, fn, kind, target, status>>
        /\ \A d \in Calls : d # c => wire'[d] = wire[d]
        /\ wire[c].type \in {"read", "commit"}
        /\ wire'[c] \in {ReadReply(value[k], version[k]), Conflict(value[k], version[k])}
        /\ stale' = stale \ {c}
    BY <1>1, <1>2 DEF HandleRead, HandleCommitConflict, store, call, TypeOK, ReadRequest
  <2>2. Effect(c) = NoResult /\ status[c] \in {"called", "threw"}
    BY <1>1, <2>1 DEF Effect, Fresh, OneCall, Protocol, TypeOK
  <2>3. k \in Keys /\ value[k] \in Values \cup {NoValue} /\ ch \in Change
    BY <1>1, FnChange DEF TypeOK
  <2>4. wire'[c].value = value[k] /\ wire'[c].type # "ok"
    BY <2>1 DEF ReadReply, Conflict
  <2>5. behind' = behind \ {c}
    <3>1. \A d \in Calls : d # c => Effect(d)' = Effect(d)
      BY <1>1, <2>1, EffectLocal
    <3> QED
      BY <1>1, <2>1, <3>1 DEF TypeOK
  <2>6. CASE Effect(c)' = NoResult
    <3>1. eff' = eff
      BY <1>1, <2>1, <2>2, <2>6, EffectUnchanged
    <3>2. CASE c \in stale
      <4>1. Abs!Refresh(c)
        BY <2>1, <2>2, <2>5, <3>1, <3>2 DEF Abs!Refresh
      <4> QED
        BY <4>1 DEF Abs!Next
    <3>3. CASE c \notin stale
      BY <2>1, <2>5, <3>1, <3>3 DEF Abs!vars
    <3> QED
      BY <3>2, <3>3
  <2>7. CASE Effect(c)' # NoResult
    <3>1. ch.op = "noop" /\ Effect(c)' = ch.result
      BY <2>1, <2>4, <2>7 DEF Effect
    <3>2. value = [value EXCEPT ![k] = value[k]]
      BY <1>1 DEF TypeOK
    <3>3. eff' = [eff EXCEPT ![c] = ch.result]
      BY <1>1, <2>1, <3>1, EffectUpdate
    <3>4. Abs!Written(ch, value[k]) = value[k]
      BY <3>1 DEF Abs!Written
    <3>5. Abs!Apply(c)
      BY <2>1, <2>2, <2>5, <3>2, <3>3, <3>4 DEF Abs!Apply, Abs!TakesEffect, Abs!UnderWay
    <3> QED
      BY <3>5 DEF Abs!Next
  <2> QED
    BY <2>6, <2>7
<1>3. ASSUME NEW c \in Calls, HandleCommitMatch(c)
      PROVE  [Abs!Next]_(Abs!vars)
  <2> DEFINE k  == target[c]
             ch == wire[c].change
  <2>1. /\ UNCHANGED <<fn, kind, target, status, stale>>
        /\ \A d \in Calls : d # c => wire'[d] = wire[d]
        /\ wire[c].type = "commit"
        /\ wire'[c] = CommitOk(ch)
        /\ value' = [value EXCEPT ![k] = ch.value]
        /\ version[k] = wire[c].expectedVersion
    BY <1>1, <1>3 DEF HandleCommitMatch, call, TypeOK
  <2>2. Effect(c) = NoResult /\ status[c] \in {"called", "threw"}
    BY <1>1, <2>1 DEF Effect, Fresh, OneCall, Protocol, TypeOK
  <2>3. /\ ch.op # "noop"
        /\ c \notin stale => ch = fn[c][value[k]]
        /\ \E v \in Values \cup {NoValue} : ch = fn[c][v]
    BY <1>1, <2>1 DEF OneCall, Protocol
  <2>4. ch \in Change
    BY <1>1, <2>1, MessageCases DEF TypeOK
  <2>5. Effect(c)' = ch.result /\ ch.result # NoResult
    BY <2>1, <2>4, ChangeCases, ConstantsAssumption DEF Effect, CommitOk
  <2>6. eff' = [eff EXCEPT ![c] = ch.result]
    BY <1>1, <2>1, <2>5, EffectUpdate
  <2>7. Abs!Written(ch, value[k]) = ch.value
    BY <2>3, <2>4, ChangeCases DEF Abs!Written
  <2>8. behind' = behind \ {c}
    <3>1. \A d \in Calls : d # c => Effect(d)' = Effect(d)
      BY <1>1, <2>1, EffectLocal
    <3> QED
      BY <1>1, <2>1, <2>5, <3>1 DEF TypeOK
  <2>9. ASSUME NEW v \in Values \cup {NoValue}, ch = fn[c][v]
        PROVE  Abs!TakesEffect(c, v)
    BY <2>1, <2>2, <2>6, <2>7, <2>8, <2>9 DEF Abs!TakesEffect, Abs!UnderWay
  <2>10. CASE c \in stale
    <3>1. c \in behind
      BY <2>2, <2>10
    <3>2. Abs!ApplyStale(c)
      BY <2>3, <2>9, <3>1 DEF Abs!ApplyStale
    <3> QED
      BY <3>2 DEF Abs!Next
  <2>11. CASE c \notin stale
    <3>1. value[k] \in Values \cup {NoValue}
      BY <1>1 DEF TypeOK
    <3>2. Abs!Apply(c)
      BY <2>3, <2>9, <2>11, <3>1 DEF Abs!Apply
    <3> QED
      BY <3>2 DEF Abs!Next
  <2> QED
    BY <2>10, <2>11
<1>4. ASSUME NEW c \in Calls, SendCommit(c) \/ ReadAgain(c) \/ Begin(c)
      PROVE  [Abs!Next]_(Abs!vars)
  <2>1. /\ UNCHANGED <<value, fn, kind, target, stale>>
        /\ \A d \in Calls : d # c => wire'[d] = wire[d]
        /\ wire'[c].type \in {"read", "commit"}
    BY <1>1, <1>4 DEF SendCommit, ReadAgain, Begin, store, call, TypeOK, ReadRequest, CommitRequest
  <2>2. Effect(c)' = NoResult
    BY <2>1 DEF Effect, Fresh
  <2>3. Effect(c) = NoResult
    BY <1>1, <1>4 DEF SendCommit, ReadAgain, Begin, Effect, Fresh, OneCall, Protocol
  <2>4. eff' = eff
    BY <1>1, <2>1, <2>2, <2>3, EffectUnchanged
  <2>5. behind' = behind
    <3>1. \A d \in Calls : Effect(d)' = Effect(d)
      BY <1>1, <2>1, <2>2, <2>3, EffectLocal
    <3> QED
      BY <1>1, <2>1, <3>1 DEF TypeOK
  <2>6. CASE Begin(c)
    <3>1. Abs!Call(c)
      BY <2>1, <2>4, <2>5, <2>6 DEF Begin, Abs!Call
    <3> QED
      BY <3>1 DEF Abs!Next
  <2>7. CASE SendCommit(c) \/ ReadAgain(c)
    BY <2>1, <2>4, <2>5, <2>7 DEF SendCommit, ReadAgain, Abs!vars
  <2> QED
    BY <1>4, <2>6, <2>7
<1>5. ASSUME NEW c \in Calls,
             ReturnNoop(c) \/ ReturnCommitted(c) \/ ThrowExhausted(c) \/ Fail(c)
      PROVE  [Abs!Next]_(Abs!vars)
  <2>1. UNCHANGED <<value, fn, kind, target, wire, stale>>
    BY <1>5 DEF ReturnNoop, ReturnCommitted, ThrowExhausted, Fail, store, call
  <2>2. eff' = eff /\ behind' = behind
    <3>1. \A d \in Calls : Effect(d)' = Effect(d)
      BY <1>1, <2>1, EffectLocal
    <3> QED
      BY <1>1, <2>1, <3>1 DEF TypeOK
  <2>3. CASE ReturnNoop(c) \/ ReturnCommitted(c)
    <3>1. CASE ReturnNoop(c)
      <4>1. wire[c].type # "ok" /\ Fresh(c) /\ fn[c][wire[c].value].op = "noop"
        BY <3>1 DEF ReturnNoop, Fresh
      <4>2. wire[c].value \in Values \cup {NoValue}
        BY <1>1, <4>1, MessageCases DEF Fresh, TypeOK
      <4>3. fn[c][wire[c].value].result \in Results
        BY <1>1, <4>2, FnChange, ChangeCases DEF TypeOK
      <4>4. Effect(c) # NoResult
        BY <4>1, <4>3, ConstantsAssumption DEF Effect
      <4>5. Abs!Return(c)
        BY <2>1, <2>2, <3>1, <4>4 DEF ReturnNoop, Abs!Return
      <4> QED
        BY <4>5 DEF Abs!Next
    <3>2. CASE ReturnCommitted(c)
      <4>1. wire[c].change.result \in Results
        BY <1>1, <3>2, MessageCases, ChangeCases DEF ReturnCommitted, TypeOK
      <4>2. Effect(c) # NoResult
        BY <3>2, <4>1, ConstantsAssumption DEF Effect, ReturnCommitted
      <4>3. Abs!Return(c)
        BY <2>1, <2>2, <3>2, <4>2 DEF ReturnCommitted, Abs!Return
      <4> QED
        BY <4>3 DEF Abs!Next
    <3> QED
      BY <2>3, <3>1, <3>2
  <2>4. CASE ThrowExhausted(c) \/ Fail(c)
    <3>1. Abs!Throw(c)
      BY <2>1, <2>2, <2>4 DEF ThrowExhausted, Fail, Abs!Throw
    <3> QED
      BY <3>1 DEF Abs!Next
  <2> QED
    BY <1>5, <2>3, <2>4
<1>6. ASSUME NEW k \in SeedKeys, NEW v \in Values, HandleSeed(k, v)
      PROVE  [Abs!Next]_(Abs!vars)
  <2>1. /\ UNCHANGED <<fn, kind, target, status, wire>>
        /\ stale' = stale \cup {c \in Calls : target[c] = k /\ version[k] > 0 /\ HoldsPair(c)}
    BY <1>6 DEF HandleSeed, call
  <2>2. \A d \in Calls : Effect(d)' = Effect(d)
    BY <1>1, <2>1, EffectLocal
  <2>3. behind \subseteq behind'
    BY <1>1, <2>1, <2>2 DEF TypeOK
  <2>4. ASSUME NEW c \in behind' \ behind
        PROVE  /\ c \in Calls
               /\ target[c] = k
               /\ Effect(c) = NoResult
               /\ status[c] \in {"called", "threw"}
    <3>1. c \in Calls /\ Effect(c)' = NoResult
      BY <1>1, <2>4 DEF TypeOK
    <3>2. Effect(c) = NoResult /\ c \notin stale
      BY <2>2, <2>4, <3>1
    <3>3. target[c] = k /\ HoldsPair(c)
      BY <2>1, <2>4, <3>1, <3>2
    <3>4. status[c] # "new"
      BY <1>1, <3>1, <3>3 DEF OneCall, Protocol, HoldsPair
    <3>5. status[c] # "returned"
      <4>1. SUFFICES ASSUME status[c] = "returned" PROVE FALSE
        OBVIOUS
      <4>2. wire[c].type # "ok" /\ Fresh(c) /\ fn[c][wire[c].value].op = "noop"
        BY <1>1, <3>1, <3>3, <4>1 DEF OneCall, Protocol, HoldsPair
      <4>3. wire[c].value \in Values \cup {NoValue}
        BY <1>1, <3>1, <4>2, MessageCases DEF Fresh, TypeOK
      <4>4. fn[c][wire[c].value].result \in Results
        BY <1>1, <3>1, <4>3, FnChange, ChangeCases DEF TypeOK
      <4> QED
        BY <3>2, <4>2, <4>4, ConstantsAssumption DEF Effect
    <3> QED
      BY <1>1, <3>1, <3>2, <3>3, <3>4, <3>5 DEF TypeOK
  <2>5. eff' = eff
    BY <2>2
  <2>6. Abs!Seed(k, v)
    BY <1>6, <2>1, <2>3, <2>4, <2>5 DEF HandleSeed, Abs!Seed, Abs!UnderWay
  <2> QED
    BY <2>6 DEF Abs!Next
<1>7. CASE UNCHANGED vars
  <2>1. UNCHANGED <<fn, kind, target, status, wire, value, stale>>
    BY <1>7 DEF vars
  <2>2. \A d \in Calls : Effect(d)' = Effect(d)
    BY <1>1, <2>1, EffectLocal
  <2>3. eff' = eff /\ behind' = behind
    BY <1>1, <2>1, <2>2 DEF TypeOK
  <2> QED
    BY <2>1, <2>3 DEF Abs!vars
<1> QED
  BY <1>2, <1>3, <1>4, <1>5, <1>6, <1>7 DEF Next

\* The compare-and-set store is linearizable but for the calls that /seed of a
\* deleted key leaves behind: every other call takes effect at most once, in
\* one step of a plain register per key, whatever the interleaving, the lost
\* responses and the number of retries, and whatever is seeded and deleted.
THEOREM StoreLinearizable == Spec => LinearizableUnlessReseeded
<1>1. IInv /\ IInv' /\ [Next]_vars => [Abs!Next]_(Abs!vars)
  BY RefinesStep
<1> QED
  BY <1>1, RefinesInit, IInvInvariant, PTL DEF Spec, LinearizableUnlessReseeded, Abs!Spec
-----------------------------------------------------------------------------
(* The answer of a call: one that has returned has nothing under way, so   *)
(* nothing can change its effect.                                          *)

Answered(c) == status[c] = "returned" => /\ wire[c].type \notin {"none", "read", "commit"}
                                         /\ answer[c] = Effect(c)

LEMMA AnsweredStep ==
  ASSUME TypeOK, TypeOK', [Next]_vars, \A c \in Calls : Answered(c)
  PROVE  \A c \in Calls : Answered(c)'
<1>1. ASSUME NEW c \in Calls, HandleStep(c) PROVE \A d \in Calls : Answered(d)'
  <2>1. /\ UNCHANGED <<fn, kind, status, answer>>
        /\ \A d \in Calls : d # c => wire'[d] = wire[d]
        /\ wire[c].type \in {"read", "commit"}
    BY <1>1 DEF HandleStep, HandleRead, HandleCommitMatch, HandleCommitConflict, store, call,
                ReadRequest, TypeOK
  <2>2. \A d \in Calls : d # c => Effect(d)' = Effect(d)
    BY <2>1, EffectLocal
  <2>3. status'[c] # "returned"
    BY <2>1 DEF Answered
  <2> QED
    BY <2>1, <2>2, <2>3 DEF Answered
<1>2. ASSUME NEW c \in Calls, ClientStep(c) PROVE \A d \in Calls : Answered(d)'
  <2>1. /\ UNCHANGED <<fn, kind>>
        /\ \A d \in Calls : d # c => /\ wire'[d] = wire[d] /\ status'[d] = status[d]
                                     /\ answer'[d] = answer[d]
    BY <1>2 DEF ClientStep, Begin, ReturnNoop, SendCommit, ReadAgain, ReturnCommitted,
                ThrowExhausted, Fail, store, call, TypeOK
  <2>2. \A d \in Calls : d # c => Effect(d)' = Effect(d)
    BY <2>1, EffectLocal
  <2>3. \A d \in Calls : d # c => Answered(d)'
    BY <2>1, <2>2 DEF Answered
  <2>4. CASE ReturnNoop(c) \/ ReturnCommitted(c)
    <3>1. wire' = wire /\ wire[c].type \notin {"none", "read", "commit"}
      BY <2>4 DEF ReturnNoop, ReturnCommitted, Fresh
    <3>2. answer'[c] = Effect(c)
      BY <2>4 DEF ReturnNoop, ReturnCommitted, Fresh, Effect, TypeOK
    <3>3. Effect(c)' = Effect(c)
      BY <2>1, <3>1, EffectLocal
    <3> QED
      BY <2>3, <3>1, <3>2, <3>3 DEF Answered
  <2>5. CASE ~(ReturnNoop(c) \/ ReturnCommitted(c))
    <3>1. status'[c] # "returned"
      BY <1>2, <2>5 DEF ClientStep, Begin, SendCommit, ReadAgain, ThrowExhausted, Fail, TypeOK
    <3> QED
      BY <2>3, <3>1 DEF Answered
  <2> QED
    BY <2>4, <2>5
<1>3. ASSUME NEW k \in SeedKeys, NEW v \in Values, HandleSeed(k, v)
      PROVE  \A d \in Calls : Answered(d)'
  BY <1>3, EffectLocal DEF HandleSeed, call, Answered
<1>4. CASE UNCHANGED vars
  BY <1>4, EffectLocal DEF vars, Answered
<1> QED
  BY <1>1, <1>2, <1>3, <1>4 DEF Next, HandleStep, ClientStep

\* What a call returns is the result of the step at which it took effect: an
\* answer computed in an attempt that lost its commit is never handed out
\* (update() and casUpdate(), which retry with another value).
THEOREM AnswerIsEffectHolds == Spec => []AnswerIsEffect
<1> DEFINE Inv == TypeOK /\ \A c \in Calls : Answered(c)
<1>1. Init => Inv
  BY InitIInv DEF IInv, Init, Answered
<1>2. Inv /\ [Next]_vars => Inv'
  BY TypeStep, AnsweredStep
<1>3. Inv => AnswerIsEffect
  BY DEF AnswerIsEffect, Answered
<1> QED
  BY <1>1, <1>2, <1>3, PTL DEF Spec
=============================================================================
