------------------------------- MODULE DrawQueue -------------------------------
(***************************************************************************)
(* The queue of booking draws: apps/api/src/bookings/booking-draw-lock.ts. *)
(*                                                                         *)
(* serializeBookingDraw chains every call behind the promise of the one    *)
(* before it (bookingDrawQueue.then(run, run)) and makes its own promise,  *)
(* with a rejection swallowed, the new end of the chain.  A call is one    *)
(* element of Callers; calls with needed = FALSE run at once.              *)
(***************************************************************************)
EXTENDS Naturals, Sequences, FiniteSets

CONSTANTS Callers, Needed

ASSUME NeededAssumption == Needed \subseteq Callers

VARIABLES
  tail,     (* how many promises have been chained: the last is the queue  *)
  place,    (* call: the position of its promise in the chain, 0 for none  *)
  state     (* call: uncalled, chained, running, fulfilled or rejected     *)

vars == <<tail, place, state>>

Settled(c) == state[c] \in {"fulfilled", "rejected"}

Init ==
  /\ tail  = 0
  /\ place = [c \in Callers |-> 0]
  /\ state = [c \in Callers |-> "uncalled"]

(* Mutant: the new promise does not become the end of the chain. *)
ForgetsTheTail(c) ==
  /\ c \in Needed
  /\ state[c] = "uncalled"
  /\ place' = [place EXCEPT ![c] = tail + 1]
  /\ state' = [state EXCEPT ![c] = "chained"]
  /\ UNCHANGED tail

(* The call itself is synchronous: no other call can come between reading  *)
(* the queue and replacing it.                                             *)
Chain(c) ==
  /\ c \in Needed
  /\ state[c] = "uncalled"
  /\ tail' = tail + 1
  /\ place' = [place EXCEPT ![c] = tail + 1]
  /\ state' = [state EXCEPT ![c] = "chained"]

RunAtOnce(c) ==
  /\ c \notin Needed
  /\ state[c] = "uncalled"
  /\ state' = [state EXCEPT ![c] = "running"]
  /\ UNCHANGED <<tail, place>>

(* Mutant: then(run) alone, a rejection would not call run. *)
ReadyAfterSuccess(c) ==
  \A b \in Callers : place[b] + 1 = place[c] /\ place[b] # 0 => state[b] = "fulfilled"

(* Mutant: a plain lock, whoever finds it free takes it. *)
ReadyWhenFree(c) ==
  \A b \in Needed : state[b] # "running"

(* then(run, run): run is called once the promise before it is settled. *)
Ready(c) ==
  \A b \in Callers : place[b] + 1 = place[c] /\ place[b] # 0 => Settled(b)

(* Mutant: run is called without waiting for the promise before it. *)
StartEagerly(c) ==
  /\ state[c] = "chained"
  /\ state' = [state EXCEPT ![c] = "running"]
  /\ UNCHANGED <<tail, place>>

Start(c) ==
  /\ state[c] = "chained"
  /\ Ready(c)
  /\ state' = [state EXCEPT ![c] = "running"]
  /\ UNCHANGED <<tail, place>>

(* The run finishes; that it does is what its caller is trusted with. *)
Settle(c) ==
  /\ state[c] = "running"
  /\ \E outcome \in {"fulfilled", "rejected"} :
       state' = [state EXCEPT ![c] = outcome]
  /\ UNCHANGED <<tail, place>>

Next ==
  \E c \in Callers : Chain(c) \/ RunAtOnce(c) \/ Start(c) \/ Settle(c)

(* The event loop calls every run that is ready, and every run finishes: a *)
(* run is a fixed sequence of database calls, each of which answers or     *)
(* fails, and never calls the queue itself.  Nobody is forced to call.     *)
Fairness == \A c \in Callers : WF_vars(Start(c)) /\ WF_vars(Settle(c))

Spec == Init /\ [][Next]_vars /\ Fairness

-----------------------------------------------------------------------------
(* Every call is uncalled, chained at a position of its own, or running    *)
(* without one because it needs none; positions up to the tail are taken.  *)
TypeOK ==
  /\ tail \in Nat
  /\ place \in [Callers -> 0..tail]
  /\ state \in [Callers -> {"uncalled", "chained", "running", "fulfilled", "rejected"}]

(* Two draws that must be serialized never run at the same time: capacity  *)
(* check and write of one are over before those of the next begin.         *)
OneAtATime ==
  \A b, c \in Needed : state[b] = "running" /\ state[c] = "running" => b = c

(* Whoever called is served, also behind a draw that failed. *)
EveryCallSettles ==
  \A c \in Callers : state[c] = "chained" ~> Settled(c)

(* The chain of promises, from the first that is not settled, is the line  *)
(* of DrawMutex: calls are served in calling order, whatever fails.        *)
Served == Cardinality({c \in Needed : Settled(c)})
Mutex == INSTANCE DrawMutex WITH
  Callers <- Needed,
  line    <- [i \in 1..(tail - Served) |-> CHOOSE c \in Needed : place[c] = Served + i],
  inside  <- \E c \in Needed : state[c] = "running",
  settled <- {c \in Needed : Settled(c)}

ServesInOrder == Mutex!Spec
=============================================================================
