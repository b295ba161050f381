------------------------------ MODULE BookingDraw ------------------------------
(***************************************************************************)
(* One bag booking and everything that draws it down:                      *)
(* apps/api/src/bookings/bookings.service.ts, with the order saves of      *)
(* orders.service.ts and the dispatch overages of dispatch.service.ts.     *)
(*                                                                         *)
(* What has been drawn is the sum over the order lines and overages that   *)
(* carry the booking.  The booking caches that sum, and the status that    *)
(* follows from it, in its header and in its item; recompute refreshes     *)
(* both after every change.  Conversions, order saves and restored orders  *)
(* check and write inside the queue of DrawQueue, which is the lock holder *)
(* here; everything else runs beside it.                                   *)
(*                                                                         *)
(* One unit stands for bags and kgs, and the booking has one item: the     *)
(* totals and the per-category limits are the same check.                  *)
(***************************************************************************)
EXTENDS Integers, FiniteSetsExt

CONSTANTS
  Draws,        (* ids of order lines and of dispatches with an overage    *)
  Requests, Nobody,
  MaxQty,       (* the largest booking and the largest draw                *)
  Operations    (* the operations in use, see OperationNames               *)

OperationNames ==
  {"convert", "ship", "order", "restore", "cancelOrder", "removeOrder", "link",
   "overage", "editBooking", "cancel", "preclose", "remove"}

ASSUME BookingAssumption ==
  /\ MaxQty \in Nat \ {0}
  /\ Operations \subseteq OperationNames
  /\ Nobody \notin Requests

VARIABLES
  bstat,      (* status of the booking                                     *)
  booked,     (* quantity booked                                           *)
  writtenOff, (* quantity written off when it was preclosed                *)
  header,     (* booking.converted: the drawn quantity, cached             *)
  item,       (* bookingItem.converted: the same, cached a second time     *)
  draw,       (* order lines and overages                                  *)
  holder,     (* the request whose run has the queue                       *)
  req         (* request: what it has read and where it is                 *)

vars == <<bstat, booked, writtenOff, header, item, draw, holder, req>>
booking == <<bstat, booked, writtenOff, header, item>>

-----------------------------------------------------------------------------
Drawable == {"OPEN", "PARTIALLY_CONVERTED"}
Closed   == {"CANCELLED", "PRECLOSED"}

(* A draw counts while live.  A loose line is on no booking; an order that *)
(* is cancelled keeps its line, which counts again once it is restored.    *)
DrawStates ==
  [state: {"unborn", "gone"}]
    \cup [state: {"live"}, kind: {"line", "overage"}, qty: 1..MaxQty]
    \cup [state: {"loose", "cancelled"}, kind: {"line"}, qty: 1..MaxQty]

LiveDraws   == {d \in Draws : draw[d].state = "live"}
Sum(ds)     == MapThenSumSet(LAMBDA d : draw[d].qty, ds)
Drawn       == Sum(LiveDraws)
IsOverage(d) == draw[d].state = "live" /\ draw[d].kind = "overage"

(* statusFor *)
StatusFor(b, drawn) ==
  IF drawn <= 0 THEN "OPEN" ELSE IF drawn >= b THEN "CONVERTED" ELSE "PARTIALLY_CONVERTED"

Idle == [at |-> "idle"]
Begin(r, state)  == req[r] = Idle /\ req' = [req EXCEPT ![r] = state]
Resume(r, place) == req[r] # Idle /\ req[r].at = place
Recompute(r)     == req' = [req EXCEPT ![r] = [at |-> "recompute"]]
Finish(r)        == req' = [req EXCEPT ![r] = Idle]
Exists           == bstat # "DELETED"
Unused(d)        == /\ draw[d].state = "unborn"
                    /\ \A r \in Requests : "d" \in DOMAIN req[r] => req[r].d # d

Init ==
  /\ bstat = "OPEN"
  /\ booked \in 1..MaxQty
  /\ writtenOff = 0 /\ header = 0 /\ item = 0
  /\ draw = [d \in Draws |-> [state |-> "unborn"]]
  /\ holder = Nobody
  /\ req = [r \in Requests |-> Idle]

-----------------------------------------------------------------------------
(* Draws inside the queue *)

(* assertDrawable, on what the lines themselves add up to: over = TRUE     *)
(* limits no quantity; own is the draw being saved again.                  *)
MayDraw(own, q, over) ==
  /\ Exists
  /\ \/ bstat \in Drawable
     \/ over /\ bstat = "CONVERTED" /\ draw[own].state \in {"live", "cancelled"}
  /\ over \/ q <= booked - writtenOff - Sum(LiveDraws \ {own})

(* convert calls the queue with the lines of a new draw.                   *)
CallConvert(r, d, q) ==
  /\ "convert" \in Operations
  /\ Unused(d)
  /\ Begin(r, [at |-> "queued", op |-> "convert", d |-> d, q |-> q])
  /\ UNCHANGED <<booking, draw, holder>>

(* dispatchFromBooking: what went out is judged without a limit, then      *)
(* converted.                                                              *)
CallShip(r, d, q) ==
  /\ "ship" \in Operations
  /\ Unused(d)
  /\ MayDraw(d, q, TRUE)
  /\ Begin(r, [at |-> "queued", op |-> "ship", d |-> d, q |-> q])
  /\ UNCHANGED <<booking, draw, holder>>

(* The order form saves a line drawn from the booking, new or changed.     *)
CallOrder(r, d, q) ==
  /\ "order" \in Operations
  /\ Unused(d) \/ (draw[d].state = "live" /\ draw[d].kind = "line")
  /\ Begin(r, [at |-> "queued", op |-> "order", d |-> d, q |-> q])
  /\ UNCHANGED <<booking, draw, holder>>

(* updateStatus restores a cancelled order and claims its draw back.       *)
CallRestore(r, d) ==
  /\ "restore" \in Operations
  /\ draw[d].state = "cancelled"
  /\ Begin(r, [at |-> "queued", op |-> "restore", d |-> d, q |-> draw[d].qty])
  /\ UNCHANGED <<booking, draw, holder>>

Converts(r) == req[r].op \in {"convert", "ship"}

(* Mutant: the capacity is checked without waiting for the queue. *)
EnterBesideOthers(r) ==
  /\ Resume(r, "queued")
  /\ MayDraw(req[r].d, req[r].q, ~Converts(r))
  /\ holder' = r
  /\ req' = [req EXCEPT ![r].at = "drawing"]
  /\ UNCHANGED <<booking, draw>>

(* The queue lets the run in: the check, with the limit for conversions    *)
(* and without it for orders (assertBookingCapacity) ...                   *)
EnterDraw(r) ==
  /\ Resume(r, "queued")
  /\ holder = Nobody
  /\ MayDraw(req[r].d, req[r].q, ~Converts(r))
  /\ holder' = r
  /\ req' = [req EXCEPT ![r].at = "drawing"]
  /\ UNCHANGED <<booking, draw>>

(* ... and the write.  A conversion keeps the queue until it has           *)
(* recomputed the booking; an order leaves it first.                       *)
WriteDraw(r) ==
  /\ Resume(r, "drawing")
  /\ draw[req[r].d].state # "gone"
  /\ draw' = [draw EXCEPT ![req[r].d] =
                [state |-> "live", kind |-> "line", qty |-> req[r].q]]
  /\ holder' = IF Converts(r) THEN r ELSE Nobody
  /\ Recompute(r)
  /\ UNCHANGED booking

-----------------------------------------------------------------------------
(* Draws beside the queue *)

(* An order without a booking: its line can be assigned later. *)
OrderLooseLine(d, q) ==
  /\ "link" \in Operations
  /\ \E r \in Requests : req[r] = Idle
  /\ Unused(d)
  /\ draw' = [draw EXCEPT ![d] = [state |-> "loose", kind |-> "line", qty |-> q]]
  /\ UNCHANGED <<booking, holder, req>>

(* The order of a line is cancelled, ... *)
CancelOrder(r, d) ==
  /\ "cancelOrder" \in Operations
  /\ draw[d].state = "live" /\ draw[d].kind = "line"
  /\ req[r] = Idle
  /\ draw' = [draw EXCEPT ![d].state = "cancelled"]
  /\ Recompute(r)
  /\ UNCHANGED <<booking, holder>>

(* ... or deleted (OrdersService.remove, rollbackConvertedItems). *)
RemoveOrder(r, d) ==
  /\ "removeOrder" \in Operations
  /\ draw[d].state = "cancelled" \/ (draw[d].state = "live" /\ draw[d].kind = "line")
  /\ req[r] = Idle
  /\ draw' = [draw EXCEPT ![d] = [state |-> "gone"]]
  /\ Recompute(r)
  /\ UNCHANGED <<booking, holder>>

(* linkItems: judged by the header's cache, outside the queue. *)
ReadLink(r, d) ==
  /\ "link" \in Operations
  /\ Exists /\ bstat \notin Closed
  /\ draw[d].state = "loose"
  /\ draw[d].qty <= booked - header
  /\ Begin(r, [at |-> "link", d |-> d])
  /\ UNCHANGED <<booking, draw, holder>>

WriteLink(r) ==
  /\ Resume(r, "link")
  /\ draw' = IF draw[req[r].d].state = "loose"
             THEN [draw EXCEPT ![req[r].d].state = "live"] ELSE draw
  /\ Recompute(r)
  /\ UNCHANGED <<booking, holder>>

(* Mutant: an overage saved again adds to its own earlier draw. *)
FreeForOverageAndMore(d) == booked

(* drawOverage: what the item's cache leaves, this draw's own share aside. *)
FreeForOverage(d) == booked - item + IF IsOverage(d) THEN draw[d].qty ELSE 0

(* A dispatch ships more than its line had left and the extra is drawn:    *)
(* check and write are part of the transaction that records the dispatch.  *)
DrawOverage(r, d, q) ==
  /\ "overage" \in Operations
  /\ Unused(d)
  /\ bstat \in Drawable
  /\ q <= FreeForOverage(d)
  /\ req[r] = Idle
  /\ draw' = [draw EXCEPT ![d] = [state |-> "live", kind |-> "overage", qty |-> q]]
  /\ Recompute(r)
  /\ UNCHANGED <<booking, holder>>

(* resyncOverageDraw, once that dispatch was edited: the same check ...    *)
ReadResync(r, d, q) ==
  /\ "overage" \in Operations
  /\ IsOverage(d)
  /\ bstat \in Drawable
  /\ q <= FreeForOverage(d)
  /\ Begin(r, [at |-> "resync", d |-> d, q |-> q])
  /\ UNCHANGED <<booking, draw, holder>>

(* ... and upsert, which revives a draw that was released meanwhile.       *)
WriteResync(r) ==
  /\ Resume(r, "resync")
  /\ draw' = [draw EXCEPT ![req[r].d] =
                [state |-> "live", kind |-> "overage", qty |-> req[r].q]]
  /\ Recompute(r)
  /\ UNCHANGED <<booking, holder>>

(* releaseOverageDraw: the dispatch was deleted or cut back to its line. *)
ReleaseOverage(r, d) ==
  /\ "overage" \in Operations
  /\ IsOverage(d)
  /\ req[r] = Idle
  /\ draw' = [draw EXCEPT ![d] = [state |-> "gone"]]
  /\ Recompute(r)
  /\ UNCHANGED <<booking, holder>>

-----------------------------------------------------------------------------
(* recompute: the booking, then the draws, then both caches. *)

ReadBooking(r) ==
  /\ Resume(r, "recompute")
  /\ Exists
  /\ req' = [req EXCEPT ![r] =
       [at |-> "summing", was |-> bstat, of |-> booked, had |-> item]]
  /\ UNCHANGED <<booking, draw, holder>>

(* Mutant: the lines of cancelled orders are still counted. *)
CountCancelledToo(r) ==
  /\ Resume(r, "summing")
  /\ req' = [req EXCEPT ![r] =
       [at |-> "summed", was |-> req[r].was, of |-> req[r].of, had |-> req[r].had,
        drawn |-> Sum({d \in Draws : draw[d].state \in {"live", "cancelled"}})]]
  /\ UNCHANGED <<booking, draw, holder>>

ReadDraws(r) ==
  /\ Resume(r, "summing")
  /\ req' = [req EXCEPT ![r] =
       [at |-> "summed", was |-> req[r].was, of |-> req[r].of, had |-> req[r].had,
        drawn |-> Drawn]]
  /\ UNCHANGED <<booking, draw, holder>>

(* The item is written only when it differs from what was read of it.      *)
WriteItem(r) ==
  /\ Resume(r, "summed")
  /\ item' = IF req[r].drawn = req[r].had THEN item ELSE req[r].drawn
  /\ req' = [req EXCEPT ![r].at = "itemWritten"]
  /\ UNCHANGED <<bstat, booked, writtenOff, header, draw, holder>>

(* Mutant: the status always follows the quantities. *)
PromoteClosed(r) ==
  /\ Resume(r, "itemWritten")
  /\ Exists
  /\ header' = req[r].drawn
  /\ bstat' = StatusFor(req[r].of, req[r].drawn)
  /\ holder' = IF holder = r THEN Nobody ELSE holder
  /\ Finish(r)
  /\ UNCHANGED <<booked, writtenOff, item, draw>>

(* Mutant: a conversion ends without letting the queue move on. *)
KeepsTheQueue(r) ==
  /\ Resume(r, "itemWritten")
  /\ Exists
  /\ header' = req[r].drawn
  /\ bstat' = IF req[r].was \in Closed THEN req[r].was
              ELSE StatusFor(req[r].of, req[r].drawn)
  /\ Finish(r)
  /\ UNCHANGED <<booked, writtenOff, item, draw, holder>>

(* A status that was set by hand is written back as it was read.           *)
WriteBooking(r) ==
  /\ Resume(r, "itemWritten")
  /\ Exists
  /\ header' = req[r].drawn
  /\ bstat' = IF req[r].was \in Closed THEN req[r].was
              ELSE StatusFor(req[r].of, req[r].drawn)
  /\ holder' = IF holder = r THEN Nobody ELSE holder
  /\ Finish(r)
  /\ UNCHANGED <<booked, writtenOff, item, draw>>

-----------------------------------------------------------------------------
(* The booking itself: every operation reads it first and writes later. *)

ReadEdit(r, n) ==
  /\ "editBooking" \in Operations
  /\ Exists /\ bstat # "CANCELLED"
  /\ n >= item
  /\ Begin(r, [at |-> "edit", n |-> n])
  /\ UNCHANGED <<booking, draw, holder>>

(* The items are deleted and made anew, with nothing drawn. *)
WriteEdit(r) ==
  /\ Resume(r, "edit")
  /\ Exists
  /\ booked' = req[r].n
  /\ item' = 0
  /\ Recompute(r)
  /\ UNCHANGED <<bstat, writtenOff, header, draw, holder>>

ReadCancel(r) ==
  /\ "cancel" \in Operations
  /\ Exists /\ bstat \notin Closed
  /\ header > 0
  /\ Begin(r, [at |-> "cancel"])
  /\ UNCHANGED <<booking, draw, holder>>

WriteCancel(r) ==
  /\ Resume(r, "cancel")
  /\ Exists
  /\ bstat' = "CANCELLED"
  /\ Finish(r)
  /\ UNCHANGED <<booked, writtenOff, header, item, draw, holder>>

ReadPreclose(r) ==
  /\ "preclose" \in Operations
  /\ bstat = "PARTIALLY_CONVERTED"
  /\ Begin(r, [at |-> "preclose", rest |-> Max({0, booked - header})])
  /\ UNCHANGED <<booking, draw, holder>>

(* Mutant: the whole booking is written off, not what is left of it. *)
WriteOffAll(r) ==
  /\ Resume(r, "preclose")
  /\ bstat' = "PRECLOSED"
  /\ writtenOff' = booked
  /\ Finish(r)
  /\ UNCHANGED <<booked, header, item, draw, holder>>

WritePreclose(r) ==
  /\ Resume(r, "preclose")
  /\ Exists
  /\ bstat' = "PRECLOSED"
  /\ writtenOff' = req[r].rest
  /\ Finish(r)
  /\ UNCHANGED <<booked, header, item, draw, holder>>

(* Mutant: a booking may be deleted whatever was drawn from it. *)
ReadRemoveDrawn(r) ==
  /\ "remove" \in Operations
  /\ Exists
  /\ Begin(r, [at |-> "remove"])
  /\ UNCHANGED <<booking, draw, holder>>

ReadRemove(r) ==
  /\ "remove" \in Operations
  /\ Exists
  /\ header = 0
  /\ Begin(r, [at |-> "remove"])
  /\ UNCHANGED <<booking, draw, holder>>

WriteRemove(r) ==
  /\ Resume(r, "remove")
  /\ Exists
  /\ bstat' = "DELETED"
  /\ Finish(r)
  /\ UNCHANGED <<booked, writtenOff, header, item, draw, holder>>

(* A check refuses, or the booking is gone: the request ends, the queue    *)
(* moves on, and nothing more is written.                                  *)
Drop(r) ==
  /\ \/ /\ Resume(r, "queued") /\ holder = Nobody
        /\ ~MayDraw(req[r].d, req[r].q, ~Converts(r))
     \/ /\ Resume(r, "drawing") /\ draw[req[r].d].state = "gone"
     \/ /\ req[r] # Idle /\ ~Exists
        /\ req[r].at \in {"recompute", "itemWritten", "edit", "cancel", "preclose", "remove"}
  /\ holder' = IF holder = r THEN Nobody ELSE holder
  /\ Finish(r)
  /\ UNCHANGED <<booking, draw>>

DrawStep(r) ==
  \/ \E d \in Draws, q \in 1..MaxQty :
       CallConvert(r, d, q) \/ CallShip(r, d, q) \/ CallOrder(r, d, q)
         \/ DrawOverage(r, d, q) \/ ReadResync(r, d, q)
  \/ \E d \in Draws :
       CallRestore(r, d) \/ CancelOrder(r, d) \/ RemoveOrder(r, d)
         \/ ReadLink(r, d) \/ ReleaseOverage(r, d)
  \/ EnterDraw(r) \/ WriteDraw(r) \/ WriteLink(r) \/ WriteResync(r)
  \/ ReadBooking(r) \/ ReadDraws(r) \/ WriteItem(r) \/ WriteBooking(r)

BookingStep(r) ==
  \/ \E n \in 1..MaxQty : ReadEdit(r, n)
  \/ WriteEdit(r)
  \/ ReadCancel(r) \/ WriteCancel(r)
  \/ ReadPreclose(r) \/ WritePreclose(r)
  \/ ReadRemove(r) \/ WriteRemove(r)

Next ==
  \/ \E r \in Requests : DrawStep(r) \/ BookingStep(r) \/ Drop(r)
  \/ \E d \in Draws, q \in 1..MaxQty : OrderLooseLine(d, q)

Spec == Init /\ [][Next]_vars

-----------------------------------------------------------------------------
Places ==
  {"idle", "queued", "drawing", "link", "resync", "recompute", "summing",
   "summed", "itemWritten", "edit", "cancel", "preclose", "remove"}

(* Booking, draws and caches keep their shape, and the queue is held by a  *)
(* request that is drawing or recomputing.                                 *)
TypeOK ==
  /\ bstat \in Drawable \cup Closed \cup {"CONVERTED", "DELETED"}
  /\ booked \in 1..MaxQty /\ writtenOff \in 0..MaxQty
  /\ header \in Nat /\ item \in Nat
  /\ draw \in [Draws -> DrawStates]
  /\ \A r \in Requests : req[r].at \in Places
  /\ holder # Nobody =>
       req[holder].at \in {"drawing", "recompute", "summing", "summed", "itemWritten"}

Quiet == \A r \in Requests : req[r] = Idle

(* When nothing is in flight, both caches are the sum of the live draws    *)
(* and the status of an open booking follows from it (recompute: one       *)
(* source of truth for every path).                                        *)
CachesAgree ==
  Quiet /\ Exists =>
    /\ header = Drawn /\ item = Drawn
    /\ bstat \notin Closed => bstat = StatusFor(booked, Drawn)

(* A booking cancelled or preclosed by hand is never promoted back by the  *)
(* quantities of the orders tied to it (recompute).                        *)
ClosedStaysClosed ==
  [][(bstat \in Closed) => bstat' = bstat \/ bstat' = "DELETED"]_vars

(* An overage is never drawn past what is booked: a booking cannot go      *)
(* below zero (drawOverage).                                               *)
OverageStaysWithinBooked ==
  [][\A d \in Draws :
       draw[d]' # draw[d] /\ (IsOverage(d))' => Drawn' <= booked]_vars

(* Preclosing writes off exactly what is still pending (preclose).         *)
WritesOffWhatIsLeft ==
  [][bstat # "PRECLOSED" /\ bstat' = "PRECLOSED" =>
       writtenOff' = Max({0, booked - Drawn})]_vars

(* A deleted booking leaves no live draw behind (remove: only while        *)
(* nothing has been converted).                                            *)
DeletedIsUndrawn == bstat = "DELETED" => LiveDraws = {}

(* Conversions together never draw more than was booked, whichever of them *)
(* were under way at the same time (serializeBookingDraw).                 *)
DrawnWithinBooked == Drawn <= booked
=============================================================================
