---------------------------- MODULE MCPlayground ----------------------------
(* Instances of Playground for TLC.                                        *)
EXTENDS PlaygroundInvariant, TLC

Symmetry == Permutations(Payments) \cup Permutations(Sessions) \cup Permutations(Callers)
              \cup Permutations(Intents)
=============================================================================
