------------------------------ MODULE MCBridge ------------------------------
(* The bridge for TLC: any answer may be addressed to any run.             *)
EXTENDS BridgeProps, TLC

AnyAnswer == [r \in Run |-> Answer]

Symmetry == Permutations(Task) \cup Permutations(Handler)
=============================================================================
