--------------------------- MODULE AtomicRegister ---------------------------
(***************************************************************************)
(* What mppx (and every other caller of the store) is promised: a register *)
(* per key, and calls that each take effect at most once, in one           *)
(* indivisible step that reads the current value and writes what the       *)
(* call's function makes of it.  A call that returns has taken effect and  *)
(* returns that function's result; a call that throws may or may not take  *)
(* effect, even after it threw (its request may still be on the way).      *)
(*                                                                         *)
(* stale holds the calls the register excuses: those under way when the    *)
(* migration helper filled their key, which may work on an older value.    *)
(* With stale = {} throughout, nothing is excused: a linearizable register.*)
(***************************************************************************)
CONSTANTS Keys, Calls, Fns, Values, NoValue, NoResult, SeedKeys

VARIABLES value,    \* value[k]: the current value, NoValue when absent
          fn,       \* fn[c]: the function call c was made with
          target,   \* target[c]: the key call c works on
          status,   \* "new", "called", "returned" or "threw"
          effect,   \* effect[c]: the result of the step c took, or NoResult
          stale     \* calls under way that may work on an older value

vars == <<value, fn, target, status, effect, stale>>

Init == /\ value = [k \in Keys |-> NoValue]
        /\ fn \in [Calls -> Fns]
        /\ target \in [Calls -> Keys]
        /\ status = [c \in Calls |-> "new"]
        /\ effect = [c \in Calls |-> NoResult]
        /\ stale = {}

Call(c) == /\ status[c] = "new"
           /\ status' = [status EXCEPT ![c] = "called"]
           /\ UNCHANGED <<value, fn, target, effect, stale>>

\* The register's value after change ch.
Written(ch, current) == CASE ch.op = "set"    -> ch.value
                          [] ch.op = "delete" -> NoValue
                          [] OTHER            -> current

UnderWay(c) == status[c] \in {"called", "threw"} /\ effect[c] = NoResult

\* Call c happens: its function sees value v.
TakesEffect(c, v) == LET k  == target[c]
                         ch == fn[c][v]
                     IN  /\ UnderWay(c)
                         /\ value' = [value EXCEPT ![k] = Written(ch, value[k])]
                         /\ effect' = [effect EXCEPT ![c] = ch.result]
                         /\ stale' = stale \ {c}
                         /\ UNCHANGED <<fn, target, status>>

\* The single step at which call c happens.
Apply(c) == TakesEffect(c, value[target[c]])

\* The same for an excused call.
ApplyStale(c) == /\ c \in stale
                 /\ \E v \in Values \cup {NoValue} : TakesEffect(c, v)

\* An excused call looks again and is excused no longer.
Refresh(c) == /\ c \in stale
              /\ stale' = stale \ {c}
              /\ UNCHANGED <<value, fn, target, status, effect>>

Return(c) == /\ status[c] = "called"
             /\ effect[c] # NoResult
             /\ status' = [status EXCEPT ![c] = "returned"]
             /\ UNCHANGED <<value, fn, target, effect, stale>>

Throw(c) == /\ status[c] = "called"
            /\ status' = [status EXCEPT ![c] = "threw"]
            /\ UNCHANGED <<value, fn, target, effect, stale>>

\* The migration helper fills a key that is absent, and may leave calls of
\* that key that are under way behind.
Seed(k, v) == /\ value[k] = NoValue
              /\ value' = [value EXCEPT ![k] = v]
              /\ stale \subseteq stale'
              /\ \A c \in stale' \ stale : target[c] = k /\ UnderWay(c)
              /\ UNCHANGED <<fn, target, status, effect>>

Next == \/ \E c \in Calls : \/ Call(c) \/ Apply(c) \/ ApplyStale(c) \/ Refresh(c)
                            \/ Return(c) \/ Throw(c)
        \/ \E k \in SeedKeys, v \in Values : Seed(k, v)

Spec == Init /\ [][Next]_vars
=============================================================================
