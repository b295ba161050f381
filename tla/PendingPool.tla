----------------------------- MODULE PendingPool -----------------------------
(***************************************************************************)
(* The pool of order lines still to be dispatched and its cache:           *)
(* computePendingLines of apps/api/src/dispatch/dispatch.service.ts.       *)
(*                                                                         *)
(* A request answers from the cache while it is fresh (10 s), and else     *)
(* reads the lines, then the codes of their bookings, and fills the cache. *)
(* A dispatch write commits, finishes its other awaits (booking roll-up,   *)
(* code), and clears the cache.  Order edits do not clear it.              *)
(***************************************************************************)
EXTENDS Integers, FiniteSets

CONSTANTS
  Items,      (* order lines                                               *)
  Readers,    (* requests that need the pool                               *)
  Writers,    (* requests that write dispatches or priorities              *)
  MaxEdits    (* order edits (a bound for TLC)                             *)

ASSUME PoolAssumption == MaxEdits \in Nat

VARIABLES
  pending,    (* the lines still to be dispatched, in the database         *)
  cache,      (* the cached pool                                           *)
  read,       (* reader: nothing, or the lines it has read                 *)
  write,      (* writer: idle, or what it has still to do                  *)
  edits       (* order edits so far                                        *)

poolVars == <<pending, cache, read, write, edits>>

Empty == [fresh |-> FALSE]
Unread == [fresh |-> FALSE]
Pool(ls) == [fresh |-> TRUE, lines |-> ls]

PoolInit ==
  /\ pending \in SUBSET Items
  /\ cache = Empty
  /\ read = [k \in Readers |-> Unread]
  /\ write = [w \in Writers |-> "idle"]
  /\ edits = 0

(* What a request is answered with. *)
Offered == IF cache.fresh THEN cache.lines ELSE pending

-----------------------------------------------------------------------------
(* computePendingLines *)

ReadLines(k) ==
  /\ read[k] = Unread
  /\ ~cache.fresh
  /\ read' = [read EXCEPT ![k] = Pool(pending)]
  /\ UNCHANGED <<pending, cache, write, edits>>

(* Mutant: the cache gets the time of the read and not the lines. *)
CachesTheTimeOnly(k) ==
  /\ read[k] # Unread
  /\ cache' = [fresh |-> TRUE]
  /\ read' = [read EXCEPT ![k] = Unread]
  /\ UNCHANGED <<pending, write, edits>>

(* Whatever happened since the lines were read. *)
FillCache(k) ==
  /\ read[k] # Unread
  /\ cache' = read[k]
  /\ read' = [read EXCEPT ![k] = Unread]
  /\ UNCHANGED <<pending, write, edits>>

(* Mutant: an answer from the cache keeps it fresh for ever. *)
NeverExpires ==
  /\ cache.fresh
  /\ Offered = {}
  /\ cache' = Empty
  /\ UNCHANGED <<pending, read, write, edits>>

(* The cache is used for 10 s. *)
Expire ==
  /\ cache.fresh
  /\ cache' = Empty
  /\ UNCHANGED <<pending, read, write, edits>>

-----------------------------------------------------------------------------
(* create, dispatchOrderFully, update and remove: the write, ... *)

Dispatch(w, l) ==
  /\ write[w] = "idle" /\ l \in pending
  /\ pending' = pending \ {l}
  /\ write' = [write EXCEPT ![w] = "committed"]
  /\ UNCHANGED <<cache, read, edits>>

GiveBack(w, l) ==
  /\ write[w] = "idle" /\ l \notin pending
  /\ pending' = pending \cup {l}
  /\ write' = [write EXCEPT ![w] = "committed"]
  /\ UNCHANGED <<cache, read, edits>>

(* ... and, some awaits later, invalidatePendingCache. *)
Invalidate(w) ==
  /\ write[w] = "committed"
  /\ cache' = Empty
  /\ write' = [write EXCEPT ![w] = "idle"]
  /\ UNCHANGED <<pending, read, edits>>

(* bulkSetPendingPriority: the picked lines that the pool still has, then  *)
(* the write, which changes no line's membership. *)
PickFromPool(w) ==
  /\ write[w] = "idle"
  /\ Offered # {}
  /\ write' = [write EXCEPT ![w] = "committed"]
  /\ UNCHANGED <<pending, cache, read, edits>>

(* An order is saved, cancelled or taken: the cache stays. *)
EditOrders ==
  /\ edits < MaxEdits
  /\ \E ls \in SUBSET Items : pending' = ls
  /\ edits' = edits + 1
  /\ UNCHANGED <<cache, read, write>>

PoolNext ==
  \/ \E k \in Readers : ReadLines(k) \/ FillCache(k)
  \/ \E w \in Writers, l \in Items : Dispatch(w, l) \/ GiveBack(w, l)
  \/ \E w \in Writers : Invalidate(w) \/ PickFromPool(w)
  \/ Expire \/ EditOrders

(* The database answers, and time passes. *)
PoolFairness ==
  /\ WF_poolVars(Expire)
  /\ \A k \in Readers : WF_poolVars(FillCache(k))

PoolSpec == PoolInit /\ [][PoolNext]_poolVars /\ PoolFairness

-----------------------------------------------------------------------------
PoolTypeOK ==
  /\ pending \subseteq Items
  /\ cache \in {Empty} \cup {Pool(ls) : ls \in SUBSET Items}
  /\ read \in [Readers -> {Unread} \cup {Pool(ls) : ls \in SUBSET Items}]
  /\ write \in [Writers -> {"idle", "committed"}]
  /\ edits \in 0..MaxEdits

(* However reads and writes race, a line that is done for good leaves the  *)
(* screen for good, and one that is to be dispatched comes to it.          *)
OffersWhatIsPending ==
  \A l \in Items :
    /\ <>[](l \in pending) => <>[](l \in Offered)
    /\ <>[](l \notin pending) => <>[](l \notin Offered)
=============================================================================
