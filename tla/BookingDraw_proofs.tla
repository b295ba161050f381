--------------------------- MODULE BookingDraw_proofs ---------------------------
(***************************************************************************)
(* Theorems about BookingDraw, for any number of draws, any quantities and *)
(* any requests: types whatever runs beside what; no conversion past what  *)
(* is booked, however conversions interleave; and, where operations run    *)
(* one at a time, caches, status and write-off that follow what was drawn. *)
(***************************************************************************)
EXTENDS BookingDraw, Sums, TLAPS

(* What has been drawn, as the sum of a function over all draws. *)
Counted == [d \in Draws |-> IF draw[d].state = "live" THEN draw[d].qty ELSE 0]
Total   == SumOf(Counted, Draws)

Drawing == draw \in [Draws -> DrawStates]

(* A draw counts for its quantity while it is live. *)
LEMMA CountedIsNat ==
  ASSUME Drawing
  PROVE  \A d \in Draws : Counted[d] \in Nat
BY BookingAssumption DEF Drawing, DrawStates, Counted

(* The sum that the code takes over live draws is this function's. *)
LEMMA LiveIsSum ==
  ASSUME Drawing, IsFiniteSet(Draws), NEW S \in SUBSET LiveDraws
  PROVE  Sum(S) = SumOf(Counted, S)
<1>1. \A d \in S : Counted[d] = draw[d].qty
  BY DEF Counted, LiveDraws
<1> DEFINE f == Counted
           Terms(g) == [t \in SUBSET S |-> IF t = {} THEN 0
                                           ELSE draw[Pick(t)].qty + g[t \ {Pick(t)}]]
           h == CHOOSE g : g = Terms(g)
<1>2. \A t \in SUBSET S : t # {} => f[Pick(t)] = draw[Pick(t)].qty
  BY <1>1, PickIn
<1>3. Summable(f, S)
  BY CountedIsNat, FS_Subset DEF Summable, LiveDraws
<1>4. Sum(S) = h[S]
  BY DEF Sum, MapThenSumSet, MapThenFoldSet, Pick
<1> HIDE DEF f
<1>5. \A g : g = Terms(g) <=> Adds(g, f, S)
  BY <1>2 DEF Adds
<1> HIDE DEF Terms
<1>6. Adds(h, f, S)
  BY <1>3, <1>5, Solvable
<1>7. SumOf(f, S) = h[S]
  BY <1>3, <1>6, SumBy
<1> QED  BY <1>4, <1>7 DEF f

(* What all draws add up to, and what they add up to without one of them. *)
LEMMA DrawnIs ==
  ASSUME Drawing, IsFiniteSet(Draws)
  PROVE  /\ Total \in Nat
         /\ Drawn = Total
         /\ \A d \in Draws : /\ Counted[d] \in Nat /\ Counted[d] <= Total
                             /\ Sum(LiveDraws \ {d}) = Total - Counted[d]
         /\ Total = 0 <=> LiveDraws = {}
<1>1. \A d \in Draws : Counted[d] \in Nat
  BY CountedIsNat
<1>2. ASSUME NEW S \in SUBSET Draws
      PROVE  Sum(LiveDraws \cap S) = SumOf(Counted, S) /\ SumOf(Counted, S) \in Nat
  <2>1. IsFiniteSet(S)
    BY FS_Subset
  <2>2. \A d \in S \ (LiveDraws \cap S) : Counted[d] = 0
    BY DEF Counted, LiveDraws
  <2>3. SumOf(Counted, S) = SumOf(Counted, LiveDraws \cap S)
    BY <1>1, <2>1, <2>2, SumOfPart
  <2> QED  BY <1>1, <2>1, <2>3, LiveIsSum, SumNatural
<1>3. Drawn = Total /\ Total \in Nat
  BY <1>2 DEF Drawn, Total, LiveDraws
<1>4. ASSUME NEW d \in Draws
      PROVE  Counted[d] <= Total /\ Sum(LiveDraws \ {d}) = Total - Counted[d]
  <2>1. LiveDraws \ {d} = LiveDraws \cap (Draws \ {d})
    BY DEF LiveDraws
  <2>2. Total = Counted[d] + SumOf(Counted, Draws \ {d})
    BY <1>1, SumOne DEF Summable, Total
  <2>3. SumOf(Counted, Draws \ {d}) \in Nat
    BY <1>2
  <2>4. Sum(LiveDraws \ {d}) = SumOf(Counted, Draws \ {d})
    BY <1>2, <2>1
  <2> QED  BY <1>1, <2>2, <2>3, <2>4
<1>5. LiveDraws # {} => Total > 0
  <2>1. \A d \in LiveDraws : Counted[d] > 0 /\ d \in Draws
    BY BookingAssumption DEF Drawing, DrawStates, Counted, LiveDraws
  <2>2. \A d \in Draws : Counted[d] <= Total
    BY <1>4
  <2> QED  BY <1>1, <1>3, <2>1, <2>2
<1>6. LiveDraws = {} => Total = 0
  <2>1. LiveDraws = {} => \A d \in Draws \ {} : Counted[d] = 0
    BY DEF Counted, LiveDraws
  <2>2. LiveDraws = {} => Total = SumOf(Counted, {})
    BY <2>1, SumOfPart DEF Total
  <2> QED  BY <2>2, SumOne, FS_EmptySet DEF Summable
<1> QED  BY <1>1, <1>3, <1>4, <1>5, <1>6

(* Where one draw changes, the total changes by what it counts for. *)
LEMMA TotalMoves ==
  ASSUME Drawing, Drawing', IsFiniteSet(Draws), NEW d \in Draws,
         \A e \in Draws \ {d} : draw'[e] = draw[e]
  PROVE  /\ Total' = Total - Counted[d] + Counted'[d]
         /\ \A e \in Draws \ {d} : Counted'[e] = Counted[e]
<1>1. \A e \in Draws : Counted[e] \in Int /\ Counted'[e] \in Int
  BY BookingAssumption DEF Drawing, DrawStates, Counted
<1>2. \A e \in Draws \ {d} : Counted'[e] = Counted[e]
  BY DEF Counted
<1>3. Summable(Counted, Draws) /\ Summable(Counted', Draws)
  BY <1>1 DEF Summable
<1>4. PICK f, h : f = Counted /\ h = Counted'
  OBVIOUS
<1>5. /\ Summable(f, Draws) /\ h[d] \in Int
      /\ \A e \in Draws \ {d} : h[e] = f[e]
  BY <1>1, <1>2, <1>3, <1>4
<1>6. SumOf(h, Draws) = SumOf(f, Draws) - f[d] + h[d]
  BY <1>5, SumChanged
<1> QED  BY <1>2, <1>4, <1>6 DEF Total

-----------------------------------------------------------------------------
(* Shapes *)

BookingStates == Drawable \cup Closed \cup {"CONVERTED", "DELETED"}
Recomputing   == {"recompute", "summing", "summed", "itemWritten"}

(* What a request remembers, place by place. *)
RequestStates ==
  [at: {"idle", "recompute", "cancel", "remove"}]
    \cup [at: {"queued", "drawing"}, op: {"convert", "ship", "order", "restore"},
          d: Draws, q: 1..MaxQty]
    \cup [at: {"link"}, d: Draws]
    \cup [at: {"resync"}, d: Draws, q: 1..MaxQty]
    \cup [at: {"summing"}, was: BookingStates, of: 1..MaxQty, had: Nat]
    \cup [at: {"summed", "itemWritten"}, was: BookingStates, of: 1..MaxQty, had: Nat,
          drawn: Nat]
    \cup [at: {"edit"}, n: 1..MaxQty]
    \cup [at: {"preclose"}, rest: 0..MaxQty]

Figures ==
  /\ bstat \in BookingStates
  /\ booked \in 1..MaxQty /\ writtenOff \in 0..MaxQty
  /\ header \in Nat /\ item \in Nat

Requested == req \in [Requests -> RequestStates]

(* Who draws has the queue, and who has it draws or recomputes. *)
QueueHeld ==
  /\ holder \in Requests \cup {Nobody}
  /\ \A r \in Requests : req[r].at = "drawing" => holder = r
  /\ \A r \in Requests : holder = r => req[r].at \in {"drawing"} \cup Recomputing

Shaped == Figures /\ Drawing /\ Requested /\ QueueHeld

(* What a request remembers where it is. *)
LEMMA Remembers ==
  ASSUME Requested, NEW r \in Requests
  PROVE  /\ req[r].at \in Places
         /\ req[r].at \in {"queued", "drawing"} =>
              /\ req[r].op \in {"convert", "ship", "order", "restore"}
              /\ req[r].d \in Draws /\ req[r].q \in 1..MaxQty
         /\ req[r].at = "link" => req[r].d \in Draws
         /\ req[r].at = "resync" => req[r].d \in Draws /\ req[r].q \in 1..MaxQty
         /\ req[r].at \in {"summing", "summed", "itemWritten"} =>
              /\ req[r].was \in BookingStates /\ req[r].of \in 1..MaxQty
              /\ req[r].had \in Nat
         /\ req[r].at \in {"summed", "itemWritten"} => req[r].drawn \in Nat
         /\ req[r].at = "edit" => req[r].n \in 1..MaxQty
         /\ req[r].at = "preclose" => req[r].rest \in 0..MaxQty
BY DEF Requested, RequestStates, Places

(* A request that goes on into a state there is. *)
LEMMA GoesOn ==
  ASSUME Requested, NEW r \in Requests, NEW state \in RequestStates,
         req' = [req EXCEPT ![r] = state]
  PROVE  /\ Requested'
         /\ req'[r] = state /\ \A s \in Requests \ {r} : req'[s] = req[s]
BY DEF Requested

(* A request that has written the item remembers what it did before. *)
LEMMA WritesItem ==
  ASSUME Requested, NEW r \in Requests, req[r].at = "summed",
         req' = [req EXCEPT ![r].at = "itemWritten"]
  PROVE  /\ Requested'
         /\ req'[r] = [at |-> "itemWritten", was |-> req[r].was, of |-> req[r].of,
                       had |-> req[r].had, drawn |-> req[r].drawn]
         /\ \A s \in Requests \ {r} : req'[s] = req[s]
BY DEF Requested, RequestStates

(* A draw that is given a state there is. *)
LEMMA DrawChanges ==
  ASSUME Drawing, NEW d \in Draws, NEW state \in DrawStates,
         draw' = [draw EXCEPT ![d] = state]
  PROVE  Drawing' /\ draw'[d] = state /\ \A e \in Draws \ {d} : draw'[e] = draw[e]
BY DEF Drawing

(* A step that leaves the queue alone keeps it well, unless the request    *)
(* that has it stops drawing and recomputing. *)
LEMMA QueueUntouched ==
  ASSUME QueueHeld, Requested', NEW r \in Requests, holder' = holder,
         \A s \in Requests \ {r} : req'[s] = req[s],
         req'[r].at # "drawing",
         holder = r => req'[r].at \in Recomputing
  PROVE  QueueHeld'
BY DEF QueueHeld

(* A request that is not drawing and not recomputing does not have it. *)
LEMMA NotAtTheQueue ==
  ASSUME QueueHeld, NEW r \in Requests, req[r].at \notin {"drawing"} \cup Recomputing
  PROVE  holder # r
BY DEF QueueHeld

(* Steps that change what a request remembers and nothing else. *)
LEMMA ReadsShaped ==
  ASSUME Shaped, NEW r \in Requests, NEW state \in RequestStates, Begin(r, state),
         state.at # "drawing", UNCHANGED <<booking, draw, holder>>
  PROVE  Shaped'
<1>1. Requested' /\ req'[r] = state /\ \A s \in Requests \ {r} : req'[s] = req[s]
  BY GoesOn DEF Shaped, Begin
<1>2. holder # r
  BY NotAtTheQueue DEF Shaped, Begin, Idle, Recomputing
<1>3. QueueHeld'
  BY <1>1, <1>2, QueueUntouched DEF Shaped
<1> QED  BY <1>1, <1>3 DEF Shaped, Figures, Drawing, booking

(* A request that turns to recompute the booking keeps the queue. *)
LEMMA RecomputesShaped ==
  ASSUME Shaped, NEW r \in Requests, Recompute(r), Figures', Drawing', holder' = holder
  PROVE  Shaped'
<1>1. /\ Requested' /\ req'[r] = [at |-> "recompute"]
      /\ \A s \in Requests \ {r} : req'[s] = req[s]
  <2>1. [at |-> "recompute"] \in RequestStates
    BY DEF RequestStates
  <2> QED  BY <2>1, GoesOn DEF Shaped, Recompute
<1>2. QueueHeld'
  BY <1>1, QueueUntouched DEF Shaped, Recomputing
<1> QED  BY <1>1, <1>2 DEF Shaped

(* A request that ends lets the queue move on. *)
LEMMA FinishesShaped ==
  ASSUME Shaped, NEW r \in Requests, Finish(r), Figures', Drawing',
         holder' = IF holder = r THEN Nobody ELSE holder
  PROVE  Shaped'
<1>1. /\ Requested' /\ req'[r] = Idle
      /\ \A s \in Requests \ {r} : req'[s] = req[s]
  <2>1. Idle \in RequestStates
    BY DEF RequestStates, Idle
  <2> QED  BY <2>1, GoesOn DEF Shaped, Finish
<1>2. QueueHeld'
  BY <1>1, BookingAssumption DEF Shaped, QueueHeld, Idle
<1> QED  BY <1>1, <1>2 DEF Shaped

(* Every step of a draw keeps the shapes. *)
LEMMA DrawStepShaped ==
  ASSUME Shaped, IsFiniteSet(Draws), NEW r \in Requests, DrawStep(r)
  PROVE  Shaped'
<1> USE DEF Resume
<1>0. /\ Figures /\ Drawing /\ Requested /\ QueueHeld
  BY DEF Shaped
<1>1. ASSUME NEW d \in Draws, NEW q \in 1..MaxQty, CallConvert(r, d, q)
      PROVE  Shaped'
  <2>1. [at |-> "queued", op |-> "convert", d |-> d, q |-> q] \in RequestStates
    BY DEF RequestStates
  <2> QED  BY <1>1, <2>1, ReadsShaped DEF CallConvert
<1>2. ASSUME NEW d \in Draws, NEW q \in 1..MaxQty, CallShip(r, d, q)
      PROVE  Shaped'
  <2>1. [at |-> "queued", op |-> "ship", d |-> d, q |-> q] \in RequestStates
    BY DEF RequestStates
  <2> QED  BY <1>2, <2>1, ReadsShaped DEF CallShip
<1>3. ASSUME NEW d \in Draws, NEW q \in 1..MaxQty, CallOrder(r, d, q)
      PROVE  Shaped'
  <2>1. [at |-> "queued", op |-> "order", d |-> d, q |-> q] \in RequestStates
    BY DEF RequestStates
  <2> QED  BY <1>3, <2>1, ReadsShaped DEF CallOrder
<1>4. ASSUME NEW d \in Draws, CallRestore(r, d)
      PROVE  Shaped'
  <2>1. draw[d].qty \in 1..MaxQty
    BY <1>0, <1>4 DEF CallRestore, Drawing, DrawStates
  <2>2. [at |-> "queued", op |-> "restore", d |-> d, q |-> draw[d].qty] \in RequestStates
    BY <2>1 DEF RequestStates
  <2> QED  BY <1>4, <2>2, ReadsShaped DEF CallRestore
<1>5. ASSUME NEW d \in Draws, ReadLink(r, d)
      PROVE  Shaped'
  <2>1. [at |-> "link", d |-> d] \in RequestStates
    BY DEF RequestStates
  <2> QED  BY <1>5, <2>1, ReadsShaped DEF ReadLink
<1>6. ASSUME NEW d \in Draws, NEW q \in 1..MaxQty, ReadResync(r, d, q)
      PROVE  Shaped'
  <2>1. [at |-> "resync", d |-> d, q |-> q] \in RequestStates
    BY DEF RequestStates
  <2> QED  BY <1>6, <2>1, ReadsShaped DEF ReadResync
<1>7. CASE EnterDraw(r)
  <2>1. /\ Requested' /\ req'[r].at = "drawing"
        /\ \A s \in Requests \ {r} : req'[s] = req[s]
    BY <1>0, <1>7 DEF EnterDraw, Requested, RequestStates
  <2>2. QueueHeld'
    BY <1>0, <1>7, <2>1, BookingAssumption DEF EnterDraw, QueueHeld
  <2> QED  BY <1>0, <1>7, <2>1, <2>2 DEF EnterDraw, Shaped, Figures, Drawing, booking
<1>8. CASE WriteDraw(r)
  <2>1. req[r].d \in Draws /\ req[r].q \in 1..MaxQty
    BY <1>0, <1>8, Remembers DEF WriteDraw
  <2>2. [state |-> "live", kind |-> "line", qty |-> req[r].q] \in DrawStates
    BY <2>1 DEF DrawStates
  <2>3. Drawing'
    BY <1>0, <1>8, <2>1, <2>2, DrawChanges DEF WriteDraw
  <2>4. Figures'
    BY <1>0, <1>8 DEF WriteDraw, Figures, booking
  <2>5. /\ Requested' /\ req'[r] = [at |-> "recompute"]
        /\ \A s \in Requests \ {r} : req'[s] = req[s]
    <3>1. [at |-> "recompute"] \in RequestStates
      BY DEF RequestStates
    <3> QED  BY <1>0, <1>8, <3>1, GoesOn DEF WriteDraw, Recompute
  <2>6. QueueHeld'
    BY <1>0, <1>8, <2>5, BookingAssumption DEF WriteDraw, QueueHeld, Recomputing
  <2> QED  BY <2>3, <2>4, <2>5, <2>6 DEF Shaped
<1>9. ASSUME NEW d \in Draws, CancelOrder(r, d)
      PROVE  Shaped'
  <2>1. Drawing'
    BY <1>0, <1>9 DEF CancelOrder, Drawing, DrawStates
  <2> QED  BY <1>0, <1>9, <2>1, RecomputesShaped DEF CancelOrder, Figures, booking
<1>10. ASSUME NEW d \in Draws, RemoveOrder(r, d)
       PROVE  Shaped'
  <2>1. Drawing'
    BY <1>0, <1>10 DEF RemoveOrder, Drawing, DrawStates
  <2> QED  BY <1>0, <1>10, <2>1, RecomputesShaped DEF RemoveOrder, Figures, booking
<1>11. ASSUME NEW d \in Draws, NEW q \in 1..MaxQty, DrawOverage(r, d, q)
       PROVE  Shaped'
  <2>1. Drawing'
    BY <1>0, <1>11 DEF DrawOverage, Drawing, DrawStates
  <2> QED  BY <1>0, <1>11, <2>1, RecomputesShaped DEF DrawOverage, Figures, booking
<1>12. ASSUME NEW d \in Draws, ReleaseOverage(r, d)
       PROVE  Shaped'
  <2>1. Drawing'
    BY <1>0, <1>12 DEF ReleaseOverage, Drawing, DrawStates
  <2> QED  BY <1>0, <1>12, <2>1, RecomputesShaped DEF ReleaseOverage, Figures, booking
<1>13. CASE WriteLink(r)
  <2>1. req[r].d \in Draws
    BY <1>0, <1>13, Remembers DEF WriteLink
  <2>2. Drawing'
    BY <1>0, <1>13, <2>1 DEF WriteLink, Drawing, DrawStates
  <2> QED  BY <1>0, <1>13, <2>2, RecomputesShaped DEF WriteLink, Figures, booking
<1>14. CASE WriteResync(r)
  <2>1. req[r].d \in Draws /\ req[r].q \in 1..MaxQty
    BY <1>0, <1>14, Remembers DEF WriteResync
  <2>2. Drawing'
    BY <1>0, <1>14, <2>1 DEF WriteResync, Drawing, DrawStates
  <2> QED  BY <1>0, <1>14, <2>2, RecomputesShaped DEF WriteResync, Figures, booking
<1>15. CASE ReadBooking(r)
  <2>1. [at |-> "summing", was |-> bstat, of |-> booked, had |-> item] \in RequestStates
    BY <1>0 DEF RequestStates, Figures
  <2>2. /\ Requested' /\ req'[r].at = "summing"
        /\ \A s \in Requests \ {r} : req'[s] = req[s]
    BY <1>0, <1>15, <2>1 DEF ReadBooking, Requested
  <2>3. QueueHeld'
    BY <1>0, <1>15, <2>2, QueueUntouched DEF ReadBooking, Recomputing
  <2> QED  BY <1>0, <1>15, <2>2, <2>3 DEF ReadBooking, Shaped, Figures, Drawing, booking
<1>16. CASE ReadDraws(r)
  <2>1. [at |-> "summed", was |-> req[r].was, of |-> req[r].of, had |-> req[r].had,
         drawn |-> Drawn] \in RequestStates
    BY <1>0, <1>16, Remembers, DrawnIs DEF ReadDraws, RequestStates
  <2>2. /\ Requested' /\ req'[r].at = "summed"
        /\ \A s \in Requests \ {r} : req'[s] = req[s]
    BY <1>0, <1>16, <2>1 DEF ReadDraws, Requested
  <2>3. QueueHeld'
    BY <1>0, <1>16, <2>2, QueueUntouched DEF ReadDraws, Recomputing
  <2> QED  BY <1>0, <1>16, <2>2, <2>3 DEF ReadDraws, Shaped, Figures, Drawing, booking
<1>17. CASE WriteItem(r)
  <2>1. /\ Requested' /\ req'[r].at = "itemWritten"
        /\ \A s \in Requests \ {r} : req'[s] = req[s]
    BY <1>0, <1>17 DEF WriteItem, Requested, RequestStates
  <2>2. QueueHeld'
    BY <1>0, <1>17, <2>1, QueueUntouched DEF WriteItem, Recomputing
  <2>3. Figures'
    BY <1>0, <1>17, Remembers DEF WriteItem, Figures
  <2> QED  BY <1>0, <1>17, <2>1, <2>2, <2>3 DEF WriteItem, Shaped, Drawing
<1>18. CASE WriteBooking(r)
  <2>1. Figures'
    BY <1>0, <1>18, Remembers
       DEF WriteBooking, Figures, BookingStates, StatusFor, Drawable
  <2>2. Drawing'
    BY <1>0, <1>18 DEF WriteBooking, Drawing
  <2> QED  BY <1>18, <2>1, <2>2, FinishesShaped DEF WriteBooking
<1> QED
  BY <1>1, <1>2, <1>3, <1>4, <1>5, <1>6, <1>7, <1>8, <1>9, <1>10, <1>11, <1>12, <1>13,
     <1>14, <1>15, <1>16, <1>17, <1>18, Zenon DEF DrawStep

(* So does every step of the booking itself. *)
LEMMA BookingStepShaped ==
  ASSUME Shaped, NEW r \in Requests, BookingStep(r)
  PROVE  Shaped'
<1> USE DEF Resume
<1>0. /\ Figures /\ Drawing /\ Requested /\ QueueHeld
  BY DEF Shaped
<1>1. ASSUME NEW n \in 1..MaxQty, ReadEdit(r, n)
      PROVE  Shaped'
  <2>1. [at |-> "edit", n |-> n] \in RequestStates
    BY DEF RequestStates
  <2> QED  BY <1>1, <2>1, ReadsShaped DEF ReadEdit
<1>2. CASE ReadCancel(r)
  <2>1. [at |-> "cancel"] \in RequestStates
    BY DEF RequestStates
  <2> QED  BY <1>2, <2>1, ReadsShaped DEF ReadCancel
<1>3. CASE ReadPreclose(r)
  <2>1. booked - header \in Int /\ booked - header <= MaxQty /\ MaxQty \in Nat
    BY <1>0, BookingAssumption DEF Figures
  <2>2. Max({0, booked - header}) \in 0..MaxQty
    BY <2>1, AtLeastZero
  <2>3. [at |-> "preclose", rest |-> Max({0, booked - header})] \in RequestStates
    BY <2>2 DEF RequestStates
  <2> QED  BY <1>3, <2>3, ReadsShaped DEF ReadPreclose
<1>4. CASE ReadRemove(r)
  <2>1. [at |-> "remove"] \in RequestStates
    BY DEF RequestStates
  <2> QED  BY <1>4, <2>1, ReadsShaped DEF ReadRemove
<1>5. CASE WriteEdit(r)
  <2>1. Figures' /\ Drawing'
    BY <1>0, <1>5, Remembers DEF WriteEdit, Figures, Drawing
  <2> QED  BY <1>5, <2>1, RecomputesShaped DEF WriteEdit
<1>6. CASE WriteCancel(r)
  <2>1. Figures' /\ Drawing'
    BY <1>0, <1>6 DEF WriteCancel, Figures, Drawing, BookingStates, Closed
  <2>2. holder # r
    BY <1>0, <1>6, NotAtTheQueue DEF WriteCancel, Recomputing
  <2> QED  BY <1>6, <2>1, <2>2, FinishesShaped DEF WriteCancel
<1>7. CASE WritePreclose(r)
  <2>1. Figures' /\ Drawing'
    BY <1>0, <1>7, Remembers DEF WritePreclose, Figures, Drawing, BookingStates, Closed
  <2>2. holder # r
    BY <1>0, <1>7, NotAtTheQueue DEF WritePreclose, Recomputing
  <2> QED  BY <1>7, <2>1, <2>2, FinishesShaped DEF WritePreclose
<1>8. CASE WriteRemove(r)
  <2>1. Figures' /\ Drawing'
    BY <1>0, <1>8 DEF WriteRemove, Figures, Drawing, BookingStates
  <2>2. holder # r
    BY <1>0, <1>8, NotAtTheQueue DEF WriteRemove, Recomputing
  <2> QED  BY <1>8, <2>1, <2>2, FinishesShaped DEF WriteRemove
<1> QED
  BY <1>1, <1>2, <1>3, <1>4, <1>5, <1>6, <1>7, <1>8, Zenon DEF BookingStep

(* The inductive invariant of the types. *)
LEMMA ShapedKept ==
  ASSUME IsFiniteSet(Draws)
  PROVE  Shaped /\ [Next]_vars => Shaped'
<1>1. ASSUME Shaped, NEW r \in Requests, Drop(r)
      PROVE  Shaped'
  <2>1. Figures' /\ Drawing'
    BY <1>1 DEF Drop, Shaped, Figures, Drawing, booking
  <2> QED  BY <1>1, <2>1, FinishesShaped DEF Drop
<1>2. ASSUME Shaped, NEW d \in Draws, NEW q \in 1..MaxQty, OrderLooseLine(d, q)
      PROVE  Shaped'
  <2>1. Drawing'
    BY <1>2 DEF OrderLooseLine, Shaped, Drawing, DrawStates
  <2> QED  BY <1>2, <2>1 DEF OrderLooseLine, Shaped, Figures, Requested, QueueHeld, booking
<1>3. ASSUME Shaped, UNCHANGED vars
      PROVE  Shaped'
  BY <1>3 DEF vars, Shaped, Figures, Drawing, Requested, QueueHeld
<1> QED  BY <1>1, <1>2, <1>3, DrawStepShaped, BookingStepShaped, Zenon DEF Next

(* A new booking has nothing drawn. *)
LEMMA InitShaped ==
  Init => Shaped
BY BookingAssumption
   DEF Init, Shaped, Figures, Drawing, DrawStates, Requested, RequestStates, QueueHeld,
       BookingStates, Drawable, Idle

(* For any number of draws and requests, whichever of them are under way   *)
(* at once, booking, draws and caches keep their shape, and the queue is   *)
(* held by a request that draws or recomputes. *)
THEOREM TypeCorrect ==
  ASSUME IsFiniteSet(Draws)
  PROVE  Spec => []TypeOK
<1>1. Shaped => TypeOK
  BY Remembers
     DEF Shaped, TypeOK, Figures, Drawing, QueueHeld, BookingStates, Recomputing
<1> QED  BY <1>1, InitShaped, ShapedKept, PTL DEF Spec

-----------------------------------------------------------------------------
(* Conversions *)

(* Nothing but conversions draws, and the booking is not edited: an order  *)
(* form checks no quantity, a link and an overage go by the caches, and an *)
(* edit may lower what is booked while a conversion is under way. *)
ConversionsOnly ==
  Operations \cap {"order", "restore", "link", "overage", "editBooking"} = {}

(* What a request is about to draw fits what is booked. *)
Room(r) ==
  /\ req[r].at \notin {"link", "resync", "edit"}
  /\ req[r].at \in {"queued", "drawing"} => Converts(r)
  /\ req[r].at = "drawing" => req[r].q + (Total - Counted[req[r].d]) <= booked

ConversionInv == Shaped /\ Total <= booked /\ \A r \in Requests : Room(r)

(* A step that draws nothing leaves room. *)
LEMMA NothingDrawn ==
  ASSUME ConversionInv, Shaped', NEW r \in Requests, draw' = draw, booked' = booked,
         \A s \in Requests \ {r} : req'[s] = req[s], Room(r)'
  PROVE  ConversionInv'
<1>1. Total' = Total /\ Counted' = Counted
  BY DEF Total, Counted
<1>2. \A s \in Requests \ {r} : Room(s)'
  BY <1>1 DEF ConversionInv, Room, Converts
<1> QED  BY <1>1, <1>2 DEF ConversionInv

(* Neither does a step that draws nothing by a request that has drawn. *)
LEMMA NothingToDraw ==
  ASSUME ConversionInv, Shaped', NEW r \in Requests, draw' = draw, booked' = booked,
         \A s \in Requests \ {r} : req'[s] = req[s],
         req'[r].at \notin {"link", "resync", "edit", "queued", "drawing"}
  PROVE  ConversionInv'
BY NothingDrawn DEF Room

(* Steps of a conversion leave room. *)
LEMMA ConversionDraws ==
  ASSUME ConversionsOnly, IsFiniteSet(Draws), ConversionInv, Shaped',
         NEW r \in Requests, DrawStep(r)
  PROVE  ConversionInv'
<1> USE DEF Resume
<1>0. Figures /\ Drawing /\ Requested /\ QueueHeld /\ Drawing' /\ Requested' /\ Room(r)
  BY DEF Shaped, ConversionInv
<1>1. ASSUME NEW d \in Draws, NEW q \in 1..MaxQty, CallConvert(r, d, q)
      PROVE  ConversionInv'
  <2>1. Room(r)' /\ \A s \in Requests \ {r} : req'[s] = req[s]
    BY <1>0, <1>1 DEF CallConvert, Begin, Requested, Room, Converts
  <2> QED  BY <1>1, <2>1, NothingDrawn DEF CallConvert, booking
<1>2. ASSUME NEW d \in Draws, NEW q \in 1..MaxQty, CallShip(r, d, q)
      PROVE  ConversionInv'
  <2>1. Room(r)' /\ \A s \in Requests \ {r} : req'[s] = req[s]
    BY <1>0, <1>2 DEF CallShip, Begin, Requested, Room, Converts
  <2> QED  BY <1>2, <2>1, NothingDrawn DEF CallShip, booking
<1>3. CASE EnterDraw(r)
  <2>1. req[r].d \in Draws /\ req[r].q \in 1..MaxQty
    BY <1>0, <1>3, Remembers DEF EnterDraw
  <2>2. req[r].q <= booked - writtenOff - Sum(LiveDraws \ {req[r].d})
    BY <1>0, <1>3 DEF EnterDraw, MayDraw, Room
  <2>3. Sum(LiveDraws \ {req[r].d}) = Total - Counted[req[r].d]
        /\ Total \in Nat /\ Counted[req[r].d] \in Nat
    BY <1>0, <2>1, DrawnIs
  <2>4. req[r].q + (Total - Counted[req[r].d]) <= booked
    BY <1>0, <2>1, <2>2, <2>3 DEF Figures
  <2>5. Total' = Total /\ Counted' = Counted
    BY <1>3 DEF EnterDraw, Total, Counted
  <2>6. /\ req'[r].at = "drawing" /\ req'[r].op = req[r].op
        /\ req'[r].d = req[r].d /\ req'[r].q = req[r].q
        /\ \A s \in Requests \ {r} : req'[s] = req[s]
    BY <1>0, <1>3 DEF EnterDraw, Requested, RequestStates
  <2>7. Room(r)'
    BY <1>0, <1>3, <2>4, <2>5, <2>6 DEF EnterDraw, Room, Converts, booking
  <2> QED  BY <1>3, <2>6, <2>7, NothingDrawn DEF EnterDraw, booking
<1>4. CASE WriteDraw(r)
  <2> DEFINE d == req[r].d
  <2>1. d \in Draws /\ req[r].q \in 1..MaxQty
    BY <1>0, <1>4, Remembers DEF WriteDraw
  <2>2. Counted'[d] = req[r].q /\ \A e \in Draws \ {d} : draw'[e] = draw[e]
    BY <1>0, <1>4, <2>1 DEF WriteDraw, Counted, Drawing
  <2>3. Total' = Total - Counted[d] + Counted'[d]
    BY <1>0, <2>1, <2>2, TotalMoves
  <2>4. req[r].q + (Total - Counted[d]) <= booked
    BY <1>0, <1>4 DEF WriteDraw, Room
  <2>5. Total \in Nat /\ Counted[d] \in Nat
    BY <1>0, <2>1, DrawnIs
  <2>6. Total' <= booked' /\ booked' = booked
    BY <1>0, <1>4, <2>1, <2>2, <2>3, <2>4, <2>5 DEF WriteDraw, booking, Figures
  <2>7. req'[r].at = "recompute" /\ \A s \in Requests \ {r} : req'[s] = req[s]
    BY <1>0, <1>4 DEF WriteDraw, Recompute, Requested
  <2>8. \A s \in Requests \ {r} : req[s].at # "drawing"
    BY <1>0, <1>4 DEF WriteDraw, QueueHeld
  <2>9. \A s \in Requests : Room(s)'
    BY <2>7, <2>8 DEF ConversionInv, Room, Converts
  <2> QED  BY <2>6, <2>9 DEF ConversionInv
<1>5. ASSUME NEW d \in Draws, CancelOrder(r, d) \/ RemoveOrder(r, d)
      PROVE  ConversionInv'
  <2>1. Counted'[d] = 0 /\ \A e \in Draws \ {d} : draw'[e] = draw[e]
    BY <1>0, <1>5 DEF CancelOrder, RemoveOrder, Counted, Drawing, DrawStates
  <2>2. /\ Total' = Total - Counted[d] + Counted'[d]
        /\ \A e \in Draws \ {d} : Counted'[e] = Counted[e]
    BY <1>0, <2>1, TotalMoves
  <2>3. Total \in Nat /\ \A e \in Draws : Counted[e] \in Nat
    BY <1>0, DrawnIs
  <2>4. req'[r].at = "recompute" /\ \A s \in Requests \ {r} : req'[s] = req[s]
    BY <1>0, <1>5 DEF CancelOrder, RemoveOrder, Recompute, Requested
  <2>5. Total' <= booked' /\ booked' = booked
    <3>1. Total' \in Int /\ Total' <= Total
      BY <2>1, <2>2, <2>3
    <3>2. booked' = booked
      BY <1>5 DEF CancelOrder, RemoveOrder, booking
    <3>3. Total <= booked /\ booked \in Int
      BY <1>0 DEF ConversionInv, Figures
    <3> QED  BY <2>3, <3>1, <3>2, <3>3
  <2>6. ASSUME NEW s \in Requests \ {r}
        PROVE  Room(s)'
    <3>1. Room(s) /\ req'[s] = req[s]
      BY <2>4 DEF ConversionInv
    <3>2. req[s].at = "drawing" => req[s].d \in Draws /\ req[s].q \in Nat
      BY <1>0, Remembers
    <3>3. \A e \in Draws : Total' - Counted'[e] <= Total - Counted[e]
      BY <2>1, <2>2, <2>3
    <3>4. \A e \in Draws : Total' - Counted'[e] \in Int /\ Total - Counted[e] \in Int
      BY <2>1, <2>2, <2>3
    <3>5. req[s].at = "drawing" => req[s].q + (Total' - Counted'[req[s].d]) <= booked
      BY <1>0, <3>1, <3>2, <3>3, <3>4 DEF Room, Figures
    <3> QED  BY <2>5, <3>1, <3>5 DEF Room, Converts
  <2>7. Room(r)'
    BY <2>4 DEF Room
  <2> QED  BY <2>5, <2>6, <2>7 DEF ConversionInv
<1>6. CASE ReadBooking(r) \/ ReadDraws(r) \/ WriteItem(r) \/ WriteBooking(r)
  <2>1. /\ req'[r].at \in {"summing", "summed", "itemWritten", "idle"}
        /\ \A s \in Requests \ {r} : req'[s] = req[s]
    <3>1. CASE ReadBooking(r)
      BY <1>0, <3>1 DEF ReadBooking, Requested
    <3>2. CASE ReadDraws(r)
      BY <1>0, <3>2 DEF ReadDraws, Requested
    <3>3. CASE WriteItem(r)
      BY <1>0, <3>3 DEF WriteItem, Requested, RequestStates
    <3>4. CASE WriteBooking(r)
      BY <1>0, <3>4 DEF WriteBooking, Finish, Idle, Requested
    <3> QED  BY <1>6, <3>1, <3>2, <3>3, <3>4
  <2>2. draw' = draw /\ booked' = booked
    BY <1>6 DEF ReadBooking, ReadDraws, WriteItem, WriteBooking, booking
  <2> QED  BY <2>1, <2>2, NothingToDraw
<1>7. ASSUME NEW d \in Draws, NEW q \in 1..MaxQty
      PROVE  /\ ~CallOrder(r, d, q) /\ ~CallRestore(r, d) /\ ~ReadLink(r, d)
             /\ ~DrawOverage(r, d, q) /\ ~ReadResync(r, d, q) /\ ~ReleaseOverage(r, d)
  BY DEF ConversionsOnly, CallOrder, CallRestore, ReadLink, DrawOverage, ReadResync,
         ReleaseOverage
<1>8. ~WriteLink(r) /\ ~WriteResync(r)
  BY <1>0 DEF WriteLink, WriteResync, Room
<1>9. 1 \in 1..MaxQty
  BY BookingAssumption
<1> QED
  BY <1>1, <1>2, <1>3, <1>4, <1>5, <1>6, <1>7, <1>8, <1>9, Zenon DEF DrawStep

(* So do the steps of the booking itself, and whatever ends. *)
LEMMA ConversionKept ==
  ASSUME ConversionsOnly, IsFiniteSet(Draws)
  PROVE  ConversionInv /\ [Next]_vars => ConversionInv'
<1> USE DEF Resume
<1>1. ASSUME ConversionInv, [Next]_vars
      PROVE  Shaped' /\ Shaped /\ Requested /\ \A r \in Requests : Room(r)
  BY <1>1, ShapedKept DEF ConversionInv, Shaped
<1>2. ASSUME ConversionInv, Next, NEW r \in Requests, BookingStep(r)
      PROVE  ConversionInv'
  <2>1. Shaped' /\ Requested /\ Room(r)
    BY <1>1, <1>2
  <2>2. /\ ~WriteEdit(r) /\ \A n \in 1..MaxQty : ~ReadEdit(r, n)
    BY <2>1 DEF WriteEdit, ReadEdit, Room, ConversionsOnly
  <2>3. CASE ReadCancel(r) \/ ReadPreclose(r) \/ ReadRemove(r)
    <3>1. /\ req'[r].at \in {"cancel", "preclose", "remove"}
          /\ \A s \in Requests \ {r} : req'[s] = req[s]
      BY <2>1, <2>3 DEF ReadCancel, ReadPreclose, ReadRemove, Begin, Requested
    <3> QED
      BY <1>2, <2>1, <2>3, <3>1, NothingToDraw
         DEF ReadCancel, ReadPreclose, ReadRemove, booking
  <2>4. CASE WriteCancel(r) \/ WritePreclose(r) \/ WriteRemove(r)
    <3>1. req'[r].at = "idle" /\ \A s \in Requests \ {r} : req'[s] = req[s]
      BY <2>1, <2>4 DEF WriteCancel, WritePreclose, WriteRemove, Finish, Idle, Requested
    <3> QED
      BY <1>2, <2>1, <2>4, <3>1, NothingToDraw DEF WriteCancel, WritePreclose, WriteRemove
  <2> QED  BY <1>2, <2>2, <2>3, <2>4, Zenon DEF BookingStep
<1>3. ASSUME ConversionInv, Next, NEW r \in Requests, Drop(r)
      PROVE  ConversionInv'
  <2>1. Shaped' /\ Requested
    BY <1>1, <1>3
  <2>2. req'[r].at = "idle" /\ \A s \in Requests \ {r} : req'[s] = req[s]
    BY <1>3, <2>1 DEF Drop, Finish, Idle, Requested
  <2> QED  BY <1>3, <2>1, <2>2, NothingToDraw DEF Drop, booking
<1>4. ASSUME ConversionInv, UNCHANGED vars
      PROVE  ConversionInv'
  <2>1. Shaped'
    BY <1>1, <1>4
  <2> QED  BY <1>4, <2>1 DEF vars, ConversionInv, Room, Converts, Total, Counted
<1>5. \A d \in Draws, q \in 1..MaxQty : ~OrderLooseLine(d, q)
  BY DEF OrderLooseLine, ConversionsOnly
<1>6. ASSUME ConversionInv, Next, NEW r \in Requests, DrawStep(r)
      PROVE  ConversionInv'
  BY <1>1, <1>6, ConversionDraws
<1> QED  BY <1>2, <1>3, <1>4, <1>5, <1>6, Zenon DEF Next

(* A new booking has nothing drawn. *)
LEMMA NothingDrawnYet ==
  ASSUME IsFiniteSet(Draws)
  PROVE  Init => Shaped /\ Total = 0
<1>1. SUFFICES ASSUME Init PROVE Shaped /\ Total = 0
  OBVIOUS
<1>2. Shaped /\ Drawing
  BY <1>1, InitShaped DEF Shaped
<1>3. \A d \in Draws : draw[d].state # "live"
  BY <1>1 DEF Init
<1>4. LiveDraws = {}
  BY <1>3 DEF LiveDraws
<1>5. Total = 0
  BY <1>2, <1>4, DrawnIs
<1> QED  BY <1>2, <1>5

(* For any number of conversions under way at once, together they never    *)
(* draw more than was booked, however they interleave with cancelled and   *)
(* deleted orders and with a booking that is cancelled, preclosed or       *)
(* deleted meanwhile (serializeBookingDraw). *)
THEOREM ConversionsFit ==
  ASSUME ConversionsOnly, IsFiniteSet(Draws)
  PROVE  Spec => []DrawnWithinBooked
<1>1. Init => ConversionInv
  <2>1. Init => Shaped /\ Total = 0
    BY NothingDrawnYet
  <2>2. Init => Total <= booked /\ \A r \in Requests : Room(r)
    BY <2>1 DEF Init, Room, Idle
  <2> QED  BY <2>1, <2>2 DEF ConversionInv
<1>2. ConversionInv => DrawnWithinBooked
  BY DrawnIs DEF ConversionInv, Shaped, DrawnWithinBooked
<1> QED  BY <1>1, <1>2, ConversionKept, PTL DEF Spec

-----------------------------------------------------------------------------
(* One request at a time *)

(* Every operation runs to its end before the next one starts. *)
OneByOne == Requests # {} /\ \A r, s \in Requests : r = s

(* Both caches are what was drawn, and an open status follows from it. *)
Agrees ==
  /\ header = Total /\ item = Total
  /\ bstat \notin Closed => bstat = StatusFor(booked, Total)

(* What a request relies on where it is. *)
Fits(r) ==
  /\ req[r].at \notin Recomputing /\ Exists => Agrees
  /\ req[r].at \notin {"idle", "queued", "recompute"} => Exists
  /\ req[r].at \in {"summing", "summed", "itemWritten"} =>
       req[r].was = bstat /\ req[r].of = booked
  /\ req[r].at \in {"summing", "summed"} => req[r].had = item
  /\ req[r].at \in {"summed", "itemWritten"} => req[r].drawn = Total
  /\ req[r].at = "itemWritten" => item = Total
  /\ req[r].at = "cancel" => bstat \notin Closed
  /\ req[r].at = "preclose" =>
       bstat = "PARTIALLY_CONVERTED" /\ req[r].rest = Max({0, booked - Total})
  /\ req[r].at = "remove" => Total = 0
  /\ req[r].at = "resync" =>
       IsOverage(req[r].d) /\ Total - Counted[req[r].d] + req[r].q <= booked

OneByOneInv ==
  /\ Shaped
  /\ \A r \in Requests : Fits(r)
  /\ bstat = "DELETED" => Total = 0

(* What does not depend on what requests remember. *)
LEMMA Unmoved ==
  ASSUME UNCHANGED <<booking, draw>>
  PROVE  /\ Total' = Total /\ Counted' = Counted
         /\ Agrees' <=> Agrees
         /\ Exists' <=> Exists
         /\ bstat' = bstat /\ booked' = booked /\ item' = item /\ header' = header
BY DEF booking, Total, Counted, Agrees, Exists

(* Steps that only read. *)
LEMMA ReadsFit ==
  ASSUME OneByOne, OneByOneInv, Shaped', NEW r \in Requests, UNCHANGED <<booking, draw>>,
         Fits(r)'
  PROVE  OneByOneInv'
BY Unmoved DEF OneByOne, OneByOneInv

(* Reads that start an operation and remember nothing to rely on. *)
LEMMA CallsFit ==
  ASSUME OneByOne, OneByOneInv, Shaped', NEW r \in Requests, UNCHANGED <<booking, draw>>,
         req[r].at \notin Recomputing, Exists \/ req'[r].at \in {"idle", "queued"},
         req'[r].at \in {"idle", "queued", "drawing", "link", "edit"}
  PROVE  OneByOneInv'
<1>1. Fits(r)
  BY DEF OneByOneInv
<1>2. Fits(r)'
  BY <1>1, Unmoved DEF Fits, Recomputing
<1> QED  BY <1>2, ReadsFit

(* Steps of a request that turns to recompute a booking that exists. *)
LEMMA RecomputesFits ==
  ASSUME OneByOne, Shaped', NEW r \in Requests, req'[r].at = "recompute",
         bstat' = "DELETED" => Total' = 0
  PROVE  OneByOneInv'
BY DEF OneByOne, OneByOneInv, Fits, Recomputing

(* A step that takes a draw out of the count leaves nothing drawn that was *)
(* not drawn before. *)
LEMMA TakenBack ==
  ASSUME Drawing, Drawing', IsFiniteSet(Draws), NEW d \in Draws, Counted'[d] = 0,
         \A e \in Draws \ {d} : draw'[e] = draw[e]
  PROVE  Total' = Total - Counted[d] /\ (Total = 0 => Total' = 0)
<1>1. Total' = Total - Counted[d] + Counted'[d]
  BY TotalMoves
<1>2. Total \in Nat /\ Counted[d] \in Nat /\ Counted[d] <= Total
  BY DrawnIs
<1> QED  BY <1>1, <1>2

(* Every step of a draw. *)
LEMMA DrawStepFits ==
  ASSUME OneByOne, IsFiniteSet(Draws), OneByOneInv, Shaped', NEW r \in Requests, DrawStep(r)
  PROVE  OneByOneInv'
<1> USE DEF Resume
<1>0. /\ Figures /\ Drawing /\ Requested /\ Drawing' /\ Requested' /\ Fits(r)
      /\ bstat = "DELETED" => Total = 0
      /\ Total \in Nat
  BY DrawnIs DEF Shaped, OneByOneInv
<1>1. ASSUME NEW d \in Draws, NEW q \in 1..MaxQty,
             CallConvert(r, d, q) \/ CallShip(r, d, q) \/ CallOrder(r, d, q)
      PROVE  OneByOneInv'
  <2>1. req[r].at = "idle" /\ req'[r].at = "queued"
    <3>1. CASE CallConvert(r, d, q)
      BY <1>0, <3>1 DEF CallConvert, Begin, Idle, Requested
    <3>2. CASE CallShip(r, d, q)
      BY <1>0, <3>2 DEF CallShip, Begin, Idle, Requested
    <3>3. CASE CallOrder(r, d, q)
      BY <1>0, <3>3 DEF CallOrder, Begin, Idle, Requested
    <3> QED  BY <1>1, <3>1, <3>2, <3>3
  <2> QED  BY <1>1, <2>1, CallsFit DEF CallConvert, CallShip, CallOrder, Recomputing
<1>2. ASSUME NEW d \in Draws, CallRestore(r, d) \/ ReadLink(r, d)
      PROVE  OneByOneInv'
  <2>1. /\ req[r].at = "idle" /\ req'[r].at \in {"queued", "link"}
        /\ Exists \/ req'[r].at = "queued"
    BY <1>0, <1>2 DEF CallRestore, ReadLink, Begin, Idle, Requested
  <2> QED  BY <1>2, <2>1, CallsFit DEF CallRestore, ReadLink, Recomputing
<1>3. ASSUME NEW d \in Draws, NEW q \in 1..MaxQty, ReadResync(r, d, q)
      PROVE  OneByOneInv'
  <2>1. /\ req[r].at = "idle" /\ Exists /\ IsOverage(d) /\ q <= FreeForOverage(d)
        /\ req'[r] = [at |-> "resync", d |-> d, q |-> q]
    BY <1>0, <1>3 DEF ReadResync, Begin, Idle, Requested, Exists, Drawable
  <2>2. Agrees
    BY <1>0, <2>1 DEF Fits, Recomputing
  <2>3. Counted[d] \in Nat /\ FreeForOverage(d) = booked - Total + Counted[d]
    BY <1>0, <2>1, <2>2, DrawnIs DEF FreeForOverage, Agrees, Counted, IsOverage
  <2>4. Total - Counted[d] + q <= booked
    BY <1>0, <2>1, <2>3 DEF Figures
  <2>5. Fits(r)'
    BY <1>3, <2>1, <2>2, <2>4, Unmoved DEF ReadResync, Fits, IsOverage
  <2> QED  BY <1>3, <2>5, ReadsFit DEF ReadResync
<1>4. CASE EnterDraw(r)
  <2>1. req[r].at = "queued" /\ Exists /\ req'[r].at = "drawing"
    BY <1>0, <1>4 DEF EnterDraw, MayDraw, Requested, RequestStates
  <2> QED  BY <1>4, <2>1, CallsFit DEF EnterDraw, Recomputing
<1>5. CASE WriteDraw(r) \/ WriteLink(r) \/ WriteResync(r)
  <2>1. Exists /\ bstat' = bstat /\ req'[r].at = "recompute"
    BY <1>0, <1>5
       DEF WriteDraw, WriteLink, WriteResync, Recompute, Requested, Fits, booking
  <2> QED  BY <2>1, RecomputesFits DEF Exists
<1>6. ASSUME NEW d \in Draws, CancelOrder(r, d) \/ RemoveOrder(r, d) \/ ReleaseOverage(r, d)
      PROVE  OneByOneInv'
  <2>1. Counted'[d] = 0 /\ \A e \in Draws \ {d} : draw'[e] = draw[e]
    BY <1>0, <1>6
       DEF CancelOrder, RemoveOrder, ReleaseOverage, Counted, Drawing, DrawStates
  <2>2. Total = 0 => Total' = 0
    BY <1>0, <2>1, TakenBack
  <2>3. bstat' = bstat /\ req'[r].at = "recompute"
    BY <1>0, <1>6
       DEF CancelOrder, RemoveOrder, ReleaseOverage, Recompute, Requested, booking
  <2> QED  BY <1>0, <2>2, <2>3, RecomputesFits
<1>7. ASSUME NEW d \in Draws, NEW q \in 1..MaxQty, DrawOverage(r, d, q)
      PROVE  OneByOneInv'
  <2>1. bstat' # "DELETED" /\ req'[r].at = "recompute"
    BY <1>0, <1>7 DEF DrawOverage, Recompute, Requested, booking, Drawable
  <2> QED  BY <2>1, RecomputesFits
<1>8. CASE ReadBooking(r)
  <2>1. req'[r] = [at |-> "summing", was |-> bstat, of |-> booked, had |-> item] /\ Exists
    BY <1>0, <1>8 DEF ReadBooking, Requested
  <2>2. Fits(r)'
    BY <1>8, <2>1, Unmoved DEF ReadBooking, Fits, Recomputing
  <2> QED  BY <1>8, <2>2, ReadsFit DEF ReadBooking
<1>9. CASE ReadDraws(r)
  <2>1. req'[r] = [at |-> "summed", was |-> req[r].was, of |-> req[r].of,
                   had |-> req[r].had, drawn |-> Drawn]
    BY <1>0, <1>9 DEF ReadDraws, Requested
  <2>2. Drawn = Total
    BY <1>0, DrawnIs
  <2>3. Fits(r)'
    BY <1>0, <1>9, <2>1, <2>2, Unmoved DEF ReadDraws, Fits, Recomputing
  <2> QED  BY <1>9, <2>3, ReadsFit DEF ReadDraws
<1>10. CASE WriteItem(r)
  <2>1. req'[r] = [at |-> "itemWritten", was |-> req[r].was, of |-> req[r].of,
                   had |-> req[r].had, drawn |-> req[r].drawn]
    BY <1>0, <1>10, WritesItem DEF WriteItem
  <2>2. /\ Total' = Total /\ bstat' = bstat /\ booked' = booked
        /\ item' = Total
    BY <1>0, <1>10 DEF WriteItem, Total, Counted, Fits
  <2>3. Fits(r)'
    BY <1>0, <1>10, <2>1, <2>2 DEF WriteItem, Fits, Recomputing, Exists
  <2> QED  BY <1>0, <2>2, <2>3 DEF OneByOne, OneByOneInv
<1>11. CASE WriteBooking(r)
  <2>1. req'[r].at = "idle"
    BY <1>0, <1>11 DEF WriteBooking, Finish, Idle, Requested
  <2>2. /\ Total' = Total /\ booked' = booked
        /\ header' = Total /\ item' = Total
        /\ bstat' = IF bstat \in Closed THEN bstat ELSE StatusFor(booked, Total)
        /\ bstat # "DELETED"
    BY <1>0, <1>11 DEF WriteBooking, Total, Counted, Fits, Exists
  <2>3. Agrees' /\ bstat' # "DELETED"
    BY <2>2 DEF Agrees, StatusFor, Closed
  <2>4. Fits(r)'
    BY <2>1, <2>3 DEF Fits
  <2> QED  BY <2>3, <2>4 DEF OneByOne, OneByOneInv
<1>12. 1 \in 1..MaxQty
  BY BookingAssumption
<1> QED
  BY <1>1, <1>2, <1>3, <1>4, <1>5, <1>6, <1>7, <1>8, <1>9, <1>10, <1>11, <1>12, Zenon
     DEF DrawStep

(* Every step of the booking itself. *)
LEMMA BookingStepFits ==
  ASSUME OneByOne, IsFiniteSet(Draws), OneByOneInv, Shaped', NEW r \in Requests,
         BookingStep(r)
  PROVE  OneByOneInv'
<1> USE DEF Resume
<1>0. /\ Figures /\ Drawing /\ Requested /\ Requested' /\ Fits(r)
      /\ bstat = "DELETED" => Total = 0
      /\ Total \in Nat
  BY DrawnIs DEF Shaped, OneByOneInv
<1>1. ASSUME NEW n \in 1..MaxQty, ReadEdit(r, n)
      PROVE  OneByOneInv'
  <2>1. req[r].at = "idle" /\ Exists /\ req'[r].at = "edit"
    BY <1>0, <1>1 DEF ReadEdit, Begin, Idle, Requested
  <2> QED  BY <1>1, <2>1, CallsFit DEF ReadEdit, Recomputing
<1>2. CASE WriteEdit(r)
  <2>1. bstat' # "DELETED" /\ req'[r].at = "recompute"
    BY <1>0, <1>2 DEF WriteEdit, Recompute, Requested, Exists
  <2> QED  BY <2>1, RecomputesFits
<1>3. CASE ReadCancel(r) \/ ReadPreclose(r) \/ ReadRemove(r)
  <2>1. req[r].at = "idle" /\ Exists
    BY <1>3 DEF ReadCancel, ReadPreclose, ReadRemove, Begin, Idle, Exists
  <2>2. Agrees
    BY <1>0, <2>1 DEF Fits, Recomputing
  <2>3. UNCHANGED <<booking, draw>>
    BY <1>3 DEF ReadCancel, ReadPreclose, ReadRemove
  <2>4. CASE ReadCancel(r)
    <3>1. req'[r] = [at |-> "cancel"] /\ bstat \notin Closed
      BY <1>0, <2>4 DEF ReadCancel, Begin, Requested
    <3>2. Fits(r)'
      BY <2>1, <2>2, <2>3, <3>1, Unmoved DEF Fits
    <3> QED  BY <2>3, <3>2, ReadsFit
  <2>5. CASE ReadPreclose(r)
    <3>1. /\ req'[r] = [at |-> "preclose", rest |-> Max({0, booked - header})]
          /\ bstat = "PARTIALLY_CONVERTED"
      BY <1>0, <2>5 DEF ReadPreclose, Begin, Requested
    <3>2. req'[r].rest = Max({0, booked - Total}) /\ req'[r].at = "preclose"
      BY <2>2, <3>1 DEF Agrees
    <3>3. Fits(r)'
      BY <2>1, <2>2, <2>3, <3>1, <3>2, Unmoved DEF Fits
    <3> QED  BY <2>3, <3>3, ReadsFit
  <2>6. CASE ReadRemove(r)
    <3>1. req'[r] = [at |-> "remove"] /\ Total = 0
      BY <1>0, <2>2, <2>6 DEF ReadRemove, Begin, Requested, Agrees
    <3>2. Fits(r)'
      BY <2>1, <2>2, <2>3, <3>1, Unmoved DEF Fits
    <3> QED  BY <2>3, <3>2, ReadsFit
  <2> QED  BY <1>3, <2>4, <2>5, <2>6
<1>4. CASE WriteCancel(r) \/ WritePreclose(r)
  <2>1. /\ req'[r].at = "idle" /\ bstat' \in Closed /\ bstat' # "DELETED"
        /\ header' = header /\ item' = item /\ Total' = Total
    BY <1>0, <1>4
       DEF WriteCancel, WritePreclose, Finish, Idle, Requested, Total, Counted, Closed
  <2>2. Agrees
    BY <1>0, <1>4 DEF WriteCancel, WritePreclose, Fits, Recomputing
  <2>3. Fits(r)'
    BY <2>1, <2>2 DEF Fits, Agrees
  <2> QED  BY <2>1, <2>3 DEF OneByOne, OneByOneInv
<1>5. CASE WriteRemove(r)
  <2>1. req'[r].at = "idle" /\ bstat' = "DELETED" /\ Total' = 0
    BY <1>0, <1>5 DEF WriteRemove, Finish, Idle, Requested, Total, Counted, Fits
  <2>2. Fits(r)'
    BY <2>1 DEF Fits, Exists
  <2> QED  BY <2>1, <2>2 DEF OneByOne, OneByOneInv
<1> QED  BY <1>1, <1>2, <1>3, <1>4, <1>5, Zenon DEF BookingStep

(* A new booking, and every step from there. *)
LEMMA InitFits ==
  ASSUME IsFiniteSet(Draws)
  PROVE  Init => OneByOneInv
<1>1. SUFFICES ASSUME Init PROVE OneByOneInv
  OBVIOUS
<1>2. Shaped /\ Total = 0
  BY <1>1, NothingDrawnYet
<1>3. Agrees
  BY <1>1, <1>2 DEF Init, Agrees, StatusFor
<1>4. \A r \in Requests : req[r].at = "idle"
  BY <1>1 DEF Init, Idle
<1> QED  BY <1>2, <1>3, <1>4 DEF OneByOneInv, Fits

(* Every step keeps the inductive invariant of one request at a time. *)
LEMMA OneByOneKept ==
  ASSUME OneByOne, IsFiniteSet(Draws)
  PROVE  OneByOneInv /\ [Next]_vars => OneByOneInv'
<1>1. ASSUME OneByOneInv, [Next]_vars
      PROVE  /\ Shaped' /\ Shaped /\ Drawing /\ Drawing' /\ Requested
             /\ \A r \in Requests : Fits(r)
  BY <1>1, ShapedKept DEF OneByOneInv, Shaped
<1>2. ASSUME OneByOneInv, Next, NEW r \in Requests, Drop(r)
      PROVE  OneByOneInv'
  <2>1. Shaped' /\ Requested /\ Fits(r)
    BY <1>1, <1>2
  <2>2. req'[r] = Idle /\ UNCHANGED <<booking, draw>>
    BY <1>2, <2>1 DEF Drop, Finish, Requested
  <2>3. Exists => Agrees
    BY <1>2, <2>1 DEF Drop, Resume, Fits, Recomputing
  <2>4. Fits(r)'
    BY <2>2, <2>3, Unmoved DEF Fits, Idle
  <2> QED  BY <1>2, <2>1, <2>2, <2>4, ReadsFit
<1>3. ASSUME OneByOneInv, Next, NEW d \in Draws, NEW q \in 1..MaxQty, OrderLooseLine(d, q)
      PROVE  OneByOneInv'
  <2>1. PICK r \in Requests : req[r] = Idle
    BY <1>3 DEF OrderLooseLine
  <2>2. Shaped' /\ Drawing /\ Drawing' /\ Fits(r)
    BY <1>1, <1>3
  <2>3. /\ Counted[d] = 0 /\ Counted'[d] = 0
        /\ \A e \in Draws \ {d} : draw'[e] = draw[e]
    BY <1>3, <2>2 DEF OrderLooseLine, Unused, Counted, Drawing
  <2>4. Total' = Total
    BY <2>2, <2>3, TakenBack, DrawnIs
  <2>5. bstat = "DELETED" => Total = 0
    BY <1>3 DEF OneByOneInv
  <2>6. req' = req /\ UNCHANGED booking
    BY <1>3 DEF OrderLooseLine
  <2>7. Fits(r)'
    BY <2>1, <2>2, <2>4, <2>6 DEF Fits, Agrees, Exists, booking, Idle
  <2>8. OneByOneInv'
    BY <2>2, <2>4, <2>5, <2>6, <2>7 DEF OneByOne, OneByOneInv, booking
  <2> QED  BY <2>8
<1>4. ASSUME OneByOneInv, UNCHANGED vars
      PROVE  OneByOneInv'
  <2>1. Shaped'
    BY <1>1, <1>4
  <2> QED
    BY <1>4, <2>1, Unmoved DEF vars, OneByOneInv, Fits, booking, IsOverage
<1>5. ASSUME OneByOneInv, Next, NEW r \in Requests, DrawStep(r) \/ BookingStep(r)
      PROVE  OneByOneInv'
  BY <1>1, <1>5, DrawStepFits, BookingStepFits
<1> QED  BY <1>2, <1>3, <1>4, <1>5, Zenon DEF Next

(* When operations run one at a time, whichever are mixed, both caches are *)
(* what the live draws add up to, and the status of an open booking        *)
(* follows from it, after each of them (recompute). *)
THEOREM CachesFollowDraws ==
  ASSUME OneByOne, IsFiniteSet(Draws)
  PROVE  Spec => []CachesAgree
<1>1. OneByOneInv => CachesAgree
  <2>1. SUFFICES ASSUME OneByOneInv, Quiet, Exists
                 PROVE  /\ header = Drawn /\ item = Drawn
                        /\ bstat \notin Closed => bstat = StatusFor(booked, Drawn)
    BY DEF CachesAgree
  <2>2. PICK r \in Requests : Fits(r) /\ req[r].at = "idle"
    BY <2>1 DEF OneByOne, OneByOneInv, Quiet, Idle
  <2>3. Agrees
    BY <2>1, <2>2 DEF Fits, Recomputing
  <2>4. Drawn = Total
    BY <2>1, DrawnIs DEF OneByOneInv, Shaped
  <2> QED  BY <2>3, <2>4 DEF Agrees
<1> QED  BY <1>1, InitFits, OneByOneKept, PTL DEF Spec

(* When operations run one at a time, a deleted booking leaves no live     *)
(* draw behind: the cache that remove goes by is what was drawn, and       *)
(* nothing draws from it later. *)
THEOREM DeletedHasNoDraws ==
  ASSUME OneByOne, IsFiniteSet(Draws)
  PROVE  Spec => []DeletedIsUndrawn
<1>1. OneByOneInv => DeletedIsUndrawn
  <2>1. OneByOneInv => Drawing /\ (bstat = "DELETED" => Total = 0)
    BY DEF OneByOneInv, Shaped
  <2> QED  BY <2>1, DrawnIs DEF DeletedIsUndrawn
<1> QED  BY <1>1, InitFits, OneByOneKept, PTL DEF Spec

-----------------------------------------------------------------------------
(* What a step may do to the status, to what is written off, and to an     *)
(* overage. *)

(* What any step of a request may do to the status: a status that was set  *)
(* by hand stays or the booking goes, and what is left is written off. *)
LEMMA StatusSteps ==
  ASSUME OneByOneInv, NEW r \in Requests, BookingStep(r) \/ Drop(r) \/ DrawStep(r)
  PROVE  /\ bstat \in Closed => bstat' = bstat \/ bstat' = "DELETED"
         /\ bstat # "PRECLOSED" /\ bstat' = "PRECLOSED" =>
              writtenOff' = Max({0, booked - Total})
<1> USE DEF Resume
<1>0. Fits(r)
  BY DEF OneByOneInv
<1>1. CASE WriteBooking(r)
  BY <1>0, <1>1 DEF WriteBooking, Fits, StatusFor, Closed
<1>2. CASE WriteCancel(r)
  BY <1>0, <1>2 DEF WriteCancel, Fits
<1>3. CASE WritePreclose(r)
  BY <1>0, <1>3 DEF WritePreclose, Fits, Closed
<1>4. CASE WriteRemove(r)
  BY <1>4 DEF WriteRemove
<1>5. CASE UNCHANGED bstat
  BY <1>5
<1>6. CASE BookingStep(r) \/ Drop(r)
  <2>1. CASE \E n \in 1..MaxQty : ReadEdit(r, n)
    BY <1>5, <2>1 DEF ReadEdit, booking
  <2>2. CASE WriteEdit(r) \/ ReadCancel(r) \/ ReadPreclose(r) \/ ReadRemove(r) \/ Drop(r)
    BY <1>5, <2>2 DEF WriteEdit, ReadCancel, ReadPreclose, ReadRemove, Drop, booking
  <2> QED  BY <1>2, <1>3, <1>4, <1>6, <2>1, <2>2, Zenon DEF BookingStep
<1>7. CASE DrawStep(r)
  <2>1. CASE \E d \in Draws, q \in 1..MaxQty :
               CallConvert(r, d, q) \/ CallShip(r, d, q) \/ CallOrder(r, d, q)
                 \/ DrawOverage(r, d, q) \/ ReadResync(r, d, q)
    BY <1>5, <2>1
       DEF CallConvert, CallShip, CallOrder, DrawOverage, ReadResync, booking
  <2>2. CASE \E d \in Draws :
               CallRestore(r, d) \/ CancelOrder(r, d) \/ RemoveOrder(r, d)
                 \/ ReadLink(r, d) \/ ReleaseOverage(r, d)
    BY <1>5, <2>2
       DEF CallRestore, CancelOrder, RemoveOrder, ReadLink, ReleaseOverage, booking
  <2>3. CASE \/ EnterDraw(r) \/ WriteDraw(r) \/ WriteLink(r) \/ WriteResync(r)
             \/ ReadBooking(r) \/ ReadDraws(r) \/ WriteItem(r)
    BY <1>5, <2>3
       DEF EnterDraw, WriteDraw, WriteLink, WriteResync, ReadBooking, ReadDraws, WriteItem,
           booking
  <2> QED  BY <1>1, <1>7, <2>1, <2>2, <2>3, Zenon DEF DrawStep
<1> QED  BY <1>6, <1>7

(* When operations run one at a time, a booking that was cancelled or      *)
(* preclosed by hand is never promoted back: whatever its orders do later, *)
(* it stays or is deleted (recompute). *)
THEOREM ClosedIsForGood ==
  ASSUME OneByOne, IsFiniteSet(Draws)
  PROVE  Spec => ClosedStaysClosed
<1>1. OneByOneInv /\ [Next]_vars =>
        [(bstat \in Closed) => bstat' = bstat \/ bstat' = "DELETED"]_vars
  <2>1. SUFFICES ASSUME OneByOneInv, Next, bstat \in Closed
                 PROVE  bstat' = bstat \/ bstat' = "DELETED"
    OBVIOUS
  <2>2. CASE \E r \in Requests : DrawStep(r) \/ BookingStep(r) \/ Drop(r)
    BY <2>1, <2>2, StatusSteps
  <2>3. CASE \E d \in Draws, q \in 1..MaxQty : OrderLooseLine(d, q)
    BY <2>3 DEF OrderLooseLine, booking
  <2> QED  BY <2>1, <2>2, <2>3 DEF Next
<1> QED  BY <1>1, InitFits, OneByOneKept, PTL DEF Spec, ClosedStaysClosed

(* When operations run one at a time, preclosing writes off exactly what   *)
(* is still pending of the booking, judged by its cache (preclose). *)
THEOREM PrecloseWritesOffTheRest ==
  ASSUME OneByOne, IsFiniteSet(Draws)
  PROVE  Spec => WritesOffWhatIsLeft
<1>1. OneByOneInv /\ [Next]_vars =>
        [bstat # "PRECLOSED" /\ bstat' = "PRECLOSED" =>
           writtenOff' = Max({0, booked - Drawn})]_vars
  <2>1. SUFFICES ASSUME OneByOneInv, Next, bstat # "PRECLOSED", bstat' = "PRECLOSED"
                 PROVE  writtenOff' = Max({0, booked - Drawn})
    OBVIOUS
  <2>2. Drawn = Total
    BY <2>1, DrawnIs DEF OneByOneInv, Shaped
  <2>3. CASE \E r \in Requests : DrawStep(r) \/ BookingStep(r) \/ Drop(r)
    BY <2>1, <2>2, <2>3, StatusSteps
  <2>4. CASE \E d \in Draws, q \in 1..MaxQty : OrderLooseLine(d, q)
    BY <2>1, <2>4 DEF OrderLooseLine, booking
  <2> QED  BY <2>1, <2>3, <2>4 DEF Next
<1> QED  BY <1>1, InitFits, OneByOneKept, PTL DEF Spec, WritesOffWhatIsLeft

(* A draw that a step makes an overage or changes as one leaves the total  *)
(* within what is booked. *)
LEMMA OverageSteps ==
  ASSUME OneByOneInv, Drawing', IsFiniteSet(Draws), NEW r \in Requests, DrawStep(r),
         NEW d \in Draws, draw'[d] # draw[d], IsOverage(d)'
  PROVE  Total' <= booked
<1> USE DEF Resume
<1>0. Drawing /\ Requested /\ Figures /\ Fits(r) /\ Total \in Nat
  BY DrawnIs DEF OneByOneInv, Shaped
<1>1. ASSUME NEW e \in Draws, NEW q \in 1..MaxQty, DrawOverage(r, e, q)
      PROVE  Total' <= booked
  <2>1. /\ Counted[e] = 0 /\ Counted'[e] = q
        /\ \A x \in Draws \ {e} : draw'[x] = draw[x]
    BY <1>0, <1>1 DEF DrawOverage, Unused, Counted, Drawing
  <2>2. Total' = Total + q
    BY <1>0, <2>1, TotalMoves
  <2>3. Agrees
    BY <1>0, <1>1 DEF DrawOverage, Fits, Idle, Recomputing, Exists, Drawable
  <2>4. q <= booked - Total
    BY <1>0, <1>1, <2>3 DEF DrawOverage, FreeForOverage, IsOverage, Unused, Agrees, Figures
  <2> QED  BY <1>0, <2>2, <2>4 DEF Figures
<1>2. CASE WriteResync(r)
  <2> DEFINE e == req[r].d
  <2>1. e \in Draws /\ req[r].q \in 1..MaxQty
    BY <1>0, <1>2, Remembers DEF WriteResync
  <2>2. /\ Counted'[e] = req[r].q
        /\ \A x \in Draws \ {e} : draw'[x] = draw[x]
    BY <1>0, <1>2, <2>1 DEF WriteResync, Counted, Drawing
  <2>3. Total' = Total - Counted[e] + req[r].q
    BY <1>0, <2>1, <2>2, TotalMoves
  <2>4. Total - Counted[e] + req[r].q <= booked
    BY <1>0, <1>2 DEF WriteResync, Fits
  <2> QED  BY <2>3, <2>4
<1>3. CASE UNCHANGED draw
  BY <1>3
<1>4. CASE \E e \in Draws, q \in 1..MaxQty :
             CallConvert(r, e, q) \/ CallShip(r, e, q) \/ CallOrder(r, e, q)
               \/ DrawOverage(r, e, q) \/ ReadResync(r, e, q)
  BY <1>1, <1>3, <1>4 DEF CallConvert, CallShip, CallOrder, ReadResync
<1>5. CASE \E e \in Draws :
             CallRestore(r, e) \/ CancelOrder(r, e) \/ RemoveOrder(r, e)
               \/ ReadLink(r, e) \/ ReleaseOverage(r, e)
  <2>1. PICK e \in Draws :
             CallRestore(r, e) \/ CancelOrder(r, e) \/ RemoveOrder(r, e)
               \/ ReadLink(r, e) \/ ReleaseOverage(r, e)
    BY <1>5
  <2>2. CASE CallRestore(r, e) \/ ReadLink(r, e)
    BY <1>3, <2>2 DEF CallRestore, ReadLink
  <2>3. CASE CancelOrder(r, e) \/ RemoveOrder(r, e) \/ ReleaseOverage(r, e)
    <3>1. draw'[e].state # "live" /\ \A x \in Draws \ {e} : draw'[x] = draw[x]
      BY <1>0, <2>3 DEF CancelOrder, RemoveOrder, ReleaseOverage, Drawing, DrawStates
    <3> QED  BY <3>1 DEF IsOverage
  <2> QED  BY <2>1, <2>2, <2>3
<1>6. CASE WriteDraw(r)
  <2>1. req[r].d \in Draws
    BY <1>0, <1>6, Remembers DEF WriteDraw
  <2>2. draw'[req[r].d].kind = "line" /\ \A x \in Draws \ {req[r].d} : draw'[x] = draw[x]
    BY <1>0, <1>6, <2>1 DEF WriteDraw, Drawing
  <2> QED  BY <2>2 DEF IsOverage
<1>7. CASE WriteLink(r)
  <2>1. req[r].d \in Draws
    BY <1>0, <1>7, Remembers DEF WriteLink
  <2>2. \/ UNCHANGED draw
        \/ /\ draw'[req[r].d].kind = "line"
           /\ \A x \in Draws \ {req[r].d} : draw'[x] = draw[x]
    BY <1>0, <1>7, <2>1 DEF WriteLink, Drawing, DrawStates
  <2> QED  BY <1>3, <2>2 DEF IsOverage
<1>8. CASE EnterDraw(r) \/ ReadBooking(r) \/ ReadDraws(r) \/ WriteItem(r) \/ WriteBooking(r)
  BY <1>3, <1>8 DEF EnterDraw, ReadBooking, ReadDraws, WriteItem, WriteBooking
<1> QED  BY <1>2, <1>4, <1>5, <1>6, <1>7, <1>8, Zenon DEF DrawStep

(* What is drawn is the total, also after a step. *)
LEMMA DrawnNext ==
  ASSUME IsFiniteSet(Draws)
  PROVE  (Drawing => Drawn = Total)'
<1>1. Drawing => Drawn = Total
  BY DrawnIs
<1> QED  BY <1>1, PTL

(* When operations run one at a time, an overage never takes what was      *)
(* drawn past what is booked, whether it is new or a dispatch that was     *)
(* edited changes it (drawOverage, resyncOverageDraw). *)
THEOREM OveragesFit ==
  ASSUME OneByOne, IsFiniteSet(Draws)
  PROVE  Spec => OverageStaysWithinBooked
<1>1. OneByOneInv /\ [Next]_vars =>
        [\A d \in Draws : draw[d]' # draw[d] /\ (IsOverage(d))' => Drawn' <= booked]_vars
  <2>1. SUFFICES ASSUME OneByOneInv, Next, NEW d \in Draws,
                        draw'[d] # draw[d], IsOverage(d)'
                 PROVE  Drawn' <= booked
    BY DEF vars
  <2>2. Shaped'
    BY <2>1, ShapedKept DEF OneByOneInv
  <2>3. Drawing' /\ Total' = Drawn'
    BY <2>2, DrawnNext DEF Shaped
  <2>4. CASE \E r \in Requests : DrawStep(r)
    BY <2>1, <2>3, <2>4, OverageSteps
  <2>5. CASE \E r \in Requests : BookingStep(r) \/ Drop(r)
    <3>1. UNCHANGED draw
      BY <2>5 DEF BookingStep, Drop, ReadEdit, WriteEdit, ReadCancel, WriteCancel,
                  ReadPreclose, WritePreclose, ReadRemove, WriteRemove
    <3> QED  BY <2>1, <3>1
  <2>6. CASE \E e \in Draws, q \in 1..MaxQty : OrderLooseLine(e, q)
    <3>1. PICK e \in Draws : /\ draw'[e].state # "live"
                             /\ \A x \in Draws \ {e} : draw'[x] = draw[x]
      BY <2>1, <2>6 DEF OrderLooseLine, OneByOneInv, Shaped, Drawing
    <3> QED  BY <2>1, <3>1 DEF IsOverage
  <2> QED  BY <2>1, <2>4, <2>5, <2>6, Zenon DEF Next
<1> QED  BY <1>1, InitFits, OneByOneKept, PTL DEF Spec, OverageStaysWithinBooked
=============================================================================
