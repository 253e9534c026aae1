------------------------------ MODULE MCOrders ------------------------------
(* Instances of OrderExecution for TLC.                                    *)
EXTENDS OrderPlacement, TLC

\* Callers and bets are only compared for equality.
Symmetry == Permutations(Callers) \union Permutations(Bets)
=============================================================================
