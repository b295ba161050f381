-------------------------- MODULE MCProcessMemory --------------------------
(***************************************************************************)
(* What the API keeps in the memory of its one process and loses with it:  *)
(* the queue of booking draws, the line locks and the pending pool's       *)
(* cache.  They share nothing, so an execution is one of any of them       *)
(* while the others rest; the fair actions of one at rest are disabled.    *)
(*                                                                         *)
(* Three draws that must be serialized and a save that draws on nothing;   *)
(* two users and two lines of one party; two lines to be dispatched, two   *)
(* requests that read them and two that write.  No symmetry: liveness is   *)
(* checked.                                                                *)
(***************************************************************************)
EXTENDS DrawQueue, LineLocks, PendingPool, TLC

CONSTANTS
  x1, x2, x3, free,
  u1, u2, l1, l2, c1,
  m1, m2, k1, k2, w1, w2

VARIABLE part

Draws    == {x1, x2, x3}
AllCalls == Draws \cup {free}
OneParty == [l \in Lines |-> c1]

MemoryInit ==
  /\ Init /\ LockInit /\ PoolInit
  /\ part \in {"queue", "locks", "pool"}
  /\ part # "pool" => pending = {}

MemoryNext ==
  /\ \/ part = "queue" /\ Next     /\ UNCHANGED <<lockVars, poolVars>>
     \/ part = "locks" /\ LockNext /\ UNCHANGED <<vars, poolVars>>
     \/ part = "pool"  /\ PoolNext /\ UNCHANGED <<vars, lockVars>>
  /\ UNCHANGED part

MemorySpec ==
  /\ MemoryInit /\ [][MemoryNext]_<<part, vars, lockVars, poolVars>>
  /\ Fairness /\ LockFairness /\ PoolFairness

(* The types of what the line locks and the pool keep (DrawQueue has its own). *)
LocksAndPoolTypeOK == LockTypeOK /\ PoolTypeOK
=============================================================================
