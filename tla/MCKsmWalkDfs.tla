---------------------------- MODULE MCKsmWalkDfs ----------------------------
(* An instance of KsmWalk for TLC: two L3 tables that may share the L2     *)
(* table, or name it twice; an L1 table and a data frame.                  *)
EXTENDS KsmWalk, TLC

CONSTANTS r, a, b, x, z, d

MCLevelOf ==
  [p \in Pages |-> CASE p = r -> PG_L4 [] p \in {a, b} -> PG_L3
                     [] p = x -> PG_L2 [] p = z -> PG_L1
                     [] OTHER -> PG_UNUSED]
Symmetry == Permutations({a, b})
=============================================================================
