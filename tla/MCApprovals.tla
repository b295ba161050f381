----------------------------- MODULE MCApprovals -----------------------------
(***************************************************************************)
(* Approvals with two requests, three dispatches and two users over two    *)
(* days, so that a request can repeat a dispatch or another request.       *)
(***************************************************************************)
EXTENDS Approvals, TLC

CONSTANTS a1, a2, d1, d2, d3, u1, u2, none

AllOps    == OperationNames
DecideOps == {"submit", "approve", "reject"}

AllAlike ==
  Permutations({a1, a2}) \cup Permutations({d1, d2, d3}) \cup Permutations({u1, u2})
=============================================================================
