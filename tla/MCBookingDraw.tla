---------------------------- MODULE MCBookingDraw ----------------------------
(***************************************************************************)
(* BookingDraw with a booking of up to three units and draws of up to      *)
(* three, so that two draws can fit, fill it, or go past it.               *)
(***************************************************************************)
EXTENDS BookingDraw, TLC

CONSTANTS d1, d2, d3, r1, r2, nobody

SequentialOps == OperationNames
ConvertOps    == {"convert", "ship", "cancelOrder", "removeOrder", "preclose", "cancel"}

DrawsAlike       == Permutations({d1, d2, d3})
RequestsAlike    == Permutations({r1, r2})
Interchangeable  == DrawsAlike \cup RequestsAlike
=============================================================================
