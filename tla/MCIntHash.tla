----------------------------- MODULE MCIntHash ------------------------------
(***************************************************************************)
(* Small instances of IntHash: a table of 4 slots that 5 keys fill and     *)
(* double once.  The homes 2 and 3 of the small table, and 3, 6 and 7 of   *)
(* the doubled one, make chains that collide, merge and wrap around.       *)
(***************************************************************************)
EXTENDS IntHash, TLC

CONSTANTS k1, k2, k3, k4, k5

MCKeys == {k1, k2, k3, k4, k5}
MCValues == {0, 1}
MCNotFound == -1
MCHashFuncs == {f \in [MCKeys \cup {NoKey} -> {3, 6, 7}] : f[NoKey] = 3}
(* For liveness: no symmetry, so fewer hash functions and one value. *)
MCTwoHashFuncs ==
  {[k \in MCKeys \cup {NoKey} |-> 3],
   [k \in MCKeys \cup {NoKey} |-> IF k \in {k1, k4} THEN 6 ELSE 7]}
MCOneValue == {0}
MCSymmetry == Permutations(MCKeys)
=============================================================================
