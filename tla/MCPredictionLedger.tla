------------------------- MODULE MCPredictionLedger -------------------------
(* Instances of PredictionLedger for TLC.                                  *)
EXTENDS PredictionLedger, TLC

CONSTANTS p, q

\* A match, a rematch two instants later, and a match of another pair.
MatchDays == {[teams |-> p, start |-> 1], [teams |-> p, start |-> 3],
              [teams |-> q, start |-> 3]}
MCFixtures ==
    {f \in UNION {[1..n -> MatchDays] : n \in {1, 2}} :
        \A i, j \in DOMAIN f : f[i] = f[j] => i = j}

Symmetry == Permutations(Callers)
=============================================================================
