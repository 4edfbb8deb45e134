---------------------------- MODULE AtomicStore ----------------------------
(***************************************************************************)
(* The AtomicStoreDO durable object (mpp/atomic-store-do.ts) and the       *)
(* compare-and-set clients in front of it: doAtomicParams of               *)
(* mpp/kv-atomic-store.ts and casUpdate of routes/stripe-atomic.ts.        *)
(*                                                                         *)
(* The object runs one handler at a time, so a handler is one step.  A     *)
(* call runs in a Worker that talks to the object over RPC: request,       *)
(* handler and response are separate steps, calls interleave freely        *)
(* between them, and a Worker may die (or its RPC fail) at any point while *)
(* its request is still on the way or already executed.                    *)
(*                                                                         *)
(* A call is a kind, a key and a function from the current value to a      *)
(* change.  "update" is update() of kv-atomic-store.ts, which retries with *)
(* the value the conflict response carries; "reread" are put(), delete()   *)
(* and casUpdate(), which read again before every attempt.                 *)
(***************************************************************************)
EXTENDS Naturals

CONSTANTS Keys,        \* store keys
          Calls,       \* store calls; each is made at most once
          Values,      \* what a key can hold
          NoValue,     \* the value of an absent key (null)
          Results,     \* what a change can report to its caller
          NoResult,
          Fns,         \* the functions calls are made with
          SeedKeys,    \* keys an operator hands to POST /admin/seed-atomic-store
          MaxRetries   \* MAX_UPDATE_RETRIES, MAX_CAS_RETRIES

Kinds == {"update", "reread"}

Change == [op : {"set"}, value : Values, result : Results]
            \cup [op : {"delete", "noop"}, value : {NoValue}, result : Results]

ASSUME ConstantsAssumption == /\ NoValue \notin Values
                              /\ NoResult \notin Results
                              /\ Fns \subseteq [Values \cup {NoValue} -> Change]
                              /\ SeedKeys \subseteq Keys
                              /\ MaxRetries \in Nat \ {0}

VARIABLES value,    \* v:<key> in the object's storage
          version,  \* n:<key>
          fn, kind, target,   \* what call c was made with
          status,   \* "new", "called", "returned" or "threw"
          wire,     \* the RPC message of call c that is on the way or was last received
          attempt,  \* loop counter of call c
          answer,   \* what call c returned
          stale     \* history: calls whose pair was read before /seed restarted the version

store == <<value, version>>
call  == <<fn, kind, target>>
vars  == <<value, version, fn, kind, target, status, wire, attempt, answer, stale>>

Idle             == [type |-> "none"]
ReadRequest      == [type |-> "read"]
ReadReply(v, n)  == [type |-> "readReply", value |-> v, version |-> n]
CommitRequest(n, ch) == [type |-> "commit", expectedVersion |-> n, change |-> ch]
CommitOk(ch)     == [type |-> "ok", change |-> ch]
Conflict(v, n)   == [type |-> "conflict", value |-> v, version |-> n]

Message == {Idle, ReadRequest}
             \cup [type : {"readReply", "conflict"}, value : Values \cup {NoValue}, version : Nat]
             \cup [type : {"commit"}, expectedVersion : Nat, change : Change]
             \cup [type : {"ok"}, change : Change]

Init == /\ value = [k \in Keys |-> NoValue]
        /\ version = [k \in Keys |-> 0]
        /\ fn \in [Calls -> Fns]
        /\ kind \in [Calls -> Kinds]
        /\ target \in [Calls -> Keys]
        /\ status = [c \in Calls |-> "new"]
        /\ wire = [c \in Calls |-> Idle]
        /\ attempt = [c \in Calls |-> 0]
        /\ answer = [c \in Calls |-> NoResult]
        /\ stale = {}

\* Call c works from a pair that /read or a conflict gave it.
HoldsPair(c) == wire[c].type \in {"readReply", "conflict", "commit"}

-----------------------------------------------------------------------------
(* The durable object.                                                     *)

\* /read: value and version of the key, in one handler.
HandleRead(c) ==
    /\ wire[c] = ReadRequest
    /\ wire' = [wire EXCEPT ![c] = ReadReply(value[target[c]], version[target[c]])]
    /\ stale' = stale \ {c}
    /\ UNCHANGED <<store, call, status, attempt, answer>>

\* Faulty: no version check on commit.
CommitBlindly(c) ==
    LET k == target[c]
    IN  /\ wire[c].type = "commit"
        /\ value' = [value EXCEPT ![k] = wire[c].change.value]
        /\ version' = [version EXCEPT ![k] = wire[c].expectedVersion + 1]
        /\ wire' = [wire EXCEPT ![c] = CommitOk(wire[c].change)]
        /\ UNCHANGED <<call, status, attempt, answer, stale>>

\* Faulty: deleting a key deletes its version too.
CommitDropsVersion(c) ==
    LET k == target[c]
    IN  /\ wire[c].type = "commit"
        /\ version[k] = wire[c].expectedVersion
        /\ value' = [value EXCEPT ![k] = wire[c].change.value]
        /\ version' = [version EXCEPT ![k] = IF wire[c].change.op = "delete" THEN 0 ELSE @ + 1]
        /\ wire' = [wire EXCEPT ![c] = CommitOk(wire[c].change)]
        /\ UNCHANGED <<call, status, attempt, answer, stale>>

\* /commit with the version the object holds: the write and the version bump
\* are one storage transaction.  Deleting keeps (and bumps) the version.
HandleCommitMatch(c) ==
    LET k == target[c]
    IN  /\ wire[c].type = "commit"
        /\ version[k] = wire[c].expectedVersion
        /\ value' = [value EXCEPT ![k] = wire[c].change.value]
        /\ version' = [version EXCEPT ![k] = wire[c].expectedVersion + 1]
        /\ wire' = [wire EXCEPT ![c] = CommitOk(wire[c].change)]
        /\ UNCHANGED <<call, status, attempt, answer, stale>>

\* /commit with a stale version writes nothing and returns the fresh pair.
HandleCommitConflict(c) ==
    LET k == target[c]
    IN  /\ wire[c].type = "commit"
        /\ version[k] # wire[c].expectedVersion
        /\ wire' = [wire EXCEPT ![c] = Conflict(value[k], version[k])]
        /\ stale' = stale \ {c}
        /\ UNCHANGED <<store, call, status, attempt, answer>>

\* /seed: writes an absent key and starts its version at 1, also when the key
\* was deleted and its version had gone on from there.
HandleSeed(k, v) ==
    /\ value[k] = NoValue
    /\ value' = [value EXCEPT ![k] = v]
    /\ version' = [version EXCEPT ![k] = 1]
    /\ stale' = stale \cup {c \in Calls : target[c] = k /\ version[k] > 0 /\ HoldsPair(c)}
    /\ UNCHANGED <<call, status, wire, attempt, answer>>

-----------------------------------------------------------------------------
(* The clients.                                                            *)

\* Every kind of call starts with a /read.
Begin(c) == /\ status[c] = "new"
            /\ status' = [status EXCEPT ![c] = "called"]
            /\ wire' = [wire EXCEPT ![c] = ReadRequest]
            /\ UNCHANGED <<store, call, attempt, answer, stale>>

\* The pair the next attempt works from: a fresh /read, or, in update() only,
\* the pair a conflict response carried.
Fresh(c) == \/ wire[c].type = "readReply"
            \/ wire[c].type = "conflict" /\ kind[c] = "update"

\* Run fn; a noop returns at once.
ReturnNoop(c) == /\ status[c] = "called"
                 /\ Fresh(c)
                 /\ attempt[c] < MaxRetries
                 /\ fn[c][wire[c].value].op = "noop"
                 /\ status' = [status EXCEPT ![c] = "returned"]
                 /\ answer' = [answer EXCEPT ![c] = fn[c][wire[c].value].result]
                 /\ UNCHANGED <<store, call, wire, attempt, stale>>

\* Run fn; a set or delete is sent to /commit with the version it was computed from.
SendCommit(c) == LET ch == fn[c][wire[c].value]
                 IN  /\ status[c] = "called"
                     /\ Fresh(c)
                     /\ attempt[c] < MaxRetries
                     /\ ch.op # "noop"
                     /\ wire' = [wire EXCEPT ![c] = CommitRequest(wire[c].version, ch)]
                     /\ attempt' = [attempt EXCEPT ![c] = @ + 1]
                     /\ UNCHANGED <<store, call, status, answer, stale>>

\* put(), delete() and casUpdate() read again after a conflict.
ReadAgain(c) == /\ status[c] = "called"
                /\ wire[c].type = "conflict"
                /\ kind[c] = "reread"
                /\ attempt[c] < MaxRetries
                /\ wire' = [wire EXCEPT ![c] = ReadRequest]
                /\ UNCHANGED <<store, call, status, attempt, answer, stale>>

\* Faulty: the result is computed anew instead of kept with the commit.
ReturnRecomputed(c) == /\ status[c] = "called"
                       /\ wire[c].type = "ok"
                       /\ status' = [status EXCEPT ![c] = "returned"]
                       /\ answer' = [answer EXCEPT ![c] = fn[c][value[target[c]]].result]
                       /\ UNCHANGED <<store, call, wire, attempt, stale>>

ReturnCommitted(c) == /\ status[c] = "called"
                      /\ wire[c].type = "ok"
                      /\ status' = [status EXCEPT ![c] = "returned"]
                      /\ answer' = [answer EXCEPT ![c] = wire[c].change.result]
                      /\ UNCHANGED <<store, call, wire, attempt, stale>>

\* The loop ran out of attempts.
ThrowExhausted(c) == /\ status[c] = "called"
                     /\ wire[c].type = "conflict"
                     /\ attempt[c] = MaxRetries
                     /\ status' = [status EXCEPT ![c] = "threw"]
                     /\ UNCHANGED <<store, call, wire, attempt, answer, stale>>

\* The Worker dies, or an RPC fails: whatever is on the way stays on the way.
Fail(c) == /\ status[c] = "called"
           /\ status' = [status EXCEPT ![c] = "threw"]
           /\ UNCHANGED <<store, call, wire, attempt, answer, stale>>

Next == \/ \E c \in Calls : \/ HandleRead(c) \/ HandleCommitMatch(c) \/ HandleCommitConflict(c)
                            \/ Begin(c) \/ ReturnNoop(c) \/ SendCommit(c) \/ ReadAgain(c)
                            \/ ReturnCommitted(c) \/ ThrowExhausted(c) \/ Fail(c)
        \/ \E k \in SeedKeys, v \in Values : HandleSeed(k, v)

Spec == Init /\ [][Next]_vars

-----------------------------------------------------------------------------
(* Properties.                                                             *)

TypeOK == /\ value \in [Keys -> Values \cup {NoValue}]
          /\ version \in [Keys -> Nat]
          /\ fn \in [Calls -> Fns]
          /\ kind \in [Calls -> Kinds]
          /\ target \in [Calls -> Keys]
          /\ status \in [Calls -> {"new", "called", "returned", "threw"}]
          /\ wire \in [Calls -> Message]
          /\ attempt \in [Calls -> 0 .. MaxRetries]
          /\ answer \in [Calls -> Results \cup {NoResult}]
          /\ stale \subseteq Calls

\* A version a call holds is never ahead of the object's, and a call that
\* holds the object's current version also holds its current value: the
\* compare-and-set on the version is one on the value (handleCommit).  Only a
\* call that was under way when /seed filled a deleted key is not covered.
VersionPinsValue ==
    \A c \in Calls \ stale :
        LET k == target[c]
        IN  /\ wire[c].type \in {"readReply", "conflict"} =>
                 /\ wire[c].version <= version[k]
                 /\ wire[c].version = version[k] => wire[c].value = value[k]
            /\ wire[c].type = "commit" =>
                 /\ wire[c].expectedVersion <= version[k]
                 /\ wire[c].expectedVersion = version[k] => wire[c].change = fn[c][value[k]]

\* The invariant is not inductive without the rest of the protocol's state: a
\* commit carries a write that the call's function asked for, and a call has a
\* message under way from Begin on and its outcome once it has returned.
Protocol(c) ==
    /\ status[c] = "new" <=> wire[c].type = "none"
    /\ status[c] = "returned" => \/ wire[c].type = "ok"
                                 \/ Fresh(c) /\ fn[c][wire[c].value].op = "noop"
    /\ wire[c].type = "commit" =>
          /\ wire[c].change.op # "noop"
          /\ \E v \in Values \cup {NoValue} : wire[c].change = fn[c][v]

IInv == /\ TypeOK
        /\ VersionPinsValue
        /\ \A c \in Calls : Protocol(c)

\* The step at which a call takes effect: its commit is applied, or it is
\* handed a value that its function leaves alone.
Effect(c) == IF wire[c].type = "ok" THEN wire[c].change.result
             ELSE IF Fresh(c) /\ fn[c][wire[c].value].op = "noop"
                  THEN fn[c][wire[c].value].result
                  ELSE NoResult

\* The register as the store keeps it; `stale` are the calls a seed left behind.
Abs    == INSTANCE AtomicRegister
            WITH effect <- [c \in Calls |-> Effect(c)],
                 stale  <- {c \in stale : Effect(c) = NoResult}

\* Whatever keys are seeded and deleted, every call takes effect in one
\* indivisible step of a plain register, which works on the value the key has
\* then; only a call that was under way while /seed filled its deleted key may
\* work on an older one (handleSeed against handleCommit and update()).  "Durable
\* Object providing linearizable CAS" (atomic-store-do.ts:2) knows no such call.
LinearizableUnlessReseeded == Abs!Spec

\* What a call returns is the result of the step at which it took effect.
AnswerIsEffect == \A c \in Calls : status[c] = "returned" => answer[c] = Effect(c)
=============================================================================
