---------------------------- MODULE MCOrderLines ----------------------------
(***************************************************************************)
(* OrderLines on small instances.  A bag is two units, so a line of three  *)
(* units can be short by less than a bag and by a whole one.               *)
(***************************************************************************)
EXTENDS OrderLines, TLC

CONSTANTS o1, l1, l2, d1, d2, d3, r1, r2

OneOrder == [l \in Lines |-> o1]

AllOps    == OperationNames
ReturnOps == {"save", "create", "return"}

RowsAlike  == Permutations({d1, d2, d3})
LinesAlike == Permutations({l1, l2}) \cup Permutations({d1, d2, d3})
=============================================================================
