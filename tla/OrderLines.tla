------------------------------ MODULE OrderLines ------------------------------
(***************************************************************************)
(* Orders, their lines, and the dispatch rows that ship them.              *)
(*                                                                         *)
(* apps/api/src/orders/orders.service.ts saves, cancels, restores and      *)
(* deletes orders; apps/api/src/dispatch/dispatch.service.ts ships their   *)
(* lines, one row at a time or all at once, and corrects and deletes rows; *)
(* apps/api/src/notes/notes.service.ts books returned goods as rows of     *)
(* negative quantity.  What a line still owes is nowhere stored: it is     *)
(* ordered minus the sum of its rows, and a row marked FULLY DISPATCH      *)
(* closes the line whatever the sum says.                                  *)
(*                                                                         *)
(* One unit stands for bags, pcs, kgs and box.  One party owns the orders. *)
(* A request is idle or between two awaits; with a single request the      *)
(* operations run one after the other, with two they interleave.           *)
(***************************************************************************)
EXTENDS Integers, FiniteSetsExt

CONSTANTS
  Orders, Lines, OrderOf,   (* every line belongs to one order            *)
  Rows,                     (* ids of dispatch rows, handed out once      *)
  Requests,
  MaxQty,                   (* the largest quantity that is typed in       *)
  Bag,                      (* units in one whole bag                     *)
  Operations                (* the operations in use, see OperationNames  *)

OperationNames ==
  {"save", "cancel", "restore", "removeOrder", "create", "closeShort",
   "fully", "edit", "removeRow", "return", "hold"}

ASSUME OrderLinesAssumption ==
  /\ OrderOf \in [Lines -> Orders]
  /\ MaxQty \in Nat \ {0} /\ Bag \in Nat \ {0}
  /\ Operations \subseteq OperationNames

VARIABLES
  status,   (* order: UNUSED until saved first, then its status           *)
  line,     (* order line: its state and ordered quantity                 *)
  row,      (* dispatch row: its kind and, while present, line and qty    *)
  held,     (* the party is on dispatch hold                              *)
  req       (* request: what it has read and where it is                  *)

vars == <<status, line, row, held, req>>

-----------------------------------------------------------------------------
Entries == [state: {"open", "cancelled", "gone"}, ordered: 0..MaxQty]
Absent  == [state |-> "gone", ordered |-> 0]
LinesOf(o) == {l \in Lines : OrderOf[l] = o}

(* What an order form may send: each line kept, changed, added or left out. *)
Plans(o) ==
  {plan \in [Lines -> Entries] :
     \A l \in Lines :
       IF l \in LinesOf(o) THEN (plan[l].state = "gone") <=> (plan[l].ordered = 0)
       ELSE plan[l] = Absent}

(* What is typed is at most MaxQty.  What a line owes, and a FULL row      *)
(* ships, may be more: returns add to it and nothing bounds them.          *)
Quantities == Nat \ {0}

OutwardKinds == {"PARTIAL", "FULL"}
RowStates ==
  [kind: {"unborn", "gone"}]
    \cup [kind: OutwardKinds, line: Lines, qty: Quantities]
    \cup [kind: {"RETURNED"}, line: Lines, qty: (-MaxQty)..(-1), src: Rows]

Outward(d) == row[d].kind \in OutwardKinds
RowsOn(ls) == {d \in Rows : row[d].kind \notin {"unborn", "gone"} /\ row[d].line \in ls}
Returns(d) == {e \in Rows : row[e].kind = "RETURNED" /\ row[e].src = d}
Sent(ds)   == MapThenSumSet(LAMBDA d : row[d].qty, ds)
Remaining(l, ds) == Max({0, line[l].ordered - Sent(ds)})
Owed(l)    == Remaining(l, RowsOn({l}))
Closed(l)  == \E d \in RowsOn({l}) : row[d].kind = "FULL"

(* validateQty: closing a line with a whole bag owed needs an approver, and *)
(* sending everything that is left has to close it.                        *)
ValidQty(rem, q, kind, closeShort) ==
  /\ kind = "FULL" /\ rem - q >= Bag => closeShort
  /\ q > 0
  /\ rem - q <= 0 => kind = "FULL"

(* computePendingLines: the lines offered for dispatch. *)
Offered(l) ==
  /\ status[OrderOf[l]] = "CONFIRMED" /\ line[l].state = "open"
  /\ Closed(l) => \E d \in RowsOn({l}) : row[d].kind = "RETURNED"
  /\ Owed(l) > 0

Statuses == {"UNUSED", "DRAFT", "CONFIRMED", "CANCELLED", "DELETED"}

Idle == [at |-> "idle"]
Forms ==         (* an order form, and its save after the guards *)
  [at: {"form", "checked"}, o: Orders, plan: [Lines -> Entries], st: Statuses,
   seen: SUBSET Lines, new: BOOLEAN]
StatusWrites ==  (* updateStatus after its checks *)
  [at: {"status"}, o: Orders, to: {"CONFIRMED", "CANCELLED"}]
FullReads ==     (* dispatchOrderFully: what it will ship, 0 of other lines *)
  [at: {"fully"}, ship: [Lines -> Nat]]
RowEdits ==      (* DispatchService.update, between its awaits *)
  [at: {"edit", "editChecked"}, d: Rows, old: RowStates, q: Quantities,
   kind: OutwardKinds]
RequestStates == {Idle} \cup Forms \cup StatusWrites \cup FullReads \cup RowEdits

Begin(r, state)  == req[r] = Idle /\ req' = [req EXCEPT ![r] = state]
Resume(r, place) == req[r] # Idle /\ req[r].at = place
Finish(r)        == req' = [req EXCEPT ![r] = Idle]
OneStep          == \E r \in Requests : req[r] = Idle  (* room for a request *)

Exists(o) == status[o] \notin {"UNUSED", "DELETED"}

Init ==
  /\ status = [o \in Orders |-> "UNUSED"]
  /\ line   = [l \in Lines |-> Absent]
  /\ row    = [d \in Rows |-> [kind |-> "unborn"]]
  /\ held   = FALSE
  /\ req    = [r \in Requests |-> Idle]

-----------------------------------------------------------------------------
(* Orders *)

(* The order form: a new order is saved as DRAFT or CONFIRMED, an order is *)
(* saved with the status it was loaded with, a draft may be confirmed.     *)
LoadForm(r, o, plan, st) ==
  /\ "save" \in Operations
  /\ status[o] # "DELETED"
  /\ \/ status[o] \in {"UNUSED", "DRAFT"} /\ st \in {"DRAFT", "CONFIRMED"}
     \/ status[o] = st
  /\ plan \in Plans(o)
  /\ Begin(r, [at |-> "form", o |-> o, plan |-> plan, st |-> st,
               seen |-> {}, new |-> status[o] = "UNUSED"])
  /\ UNCHANGED <<status, line, row, held>>

(* addsToOrder: a new line, a cancelled one brought back, or more of one. *)
AddsToOrder(o, plan) ==
  \E l \in LinesOf(o) :
    /\ plan[l].state # "gone"
    /\ \/ line[l].state = "gone"
       \/ /\ plan[l].state = "open"
          /\ line[l].state = "cancelled" \/ plan[l].ordered > line[l].ordered

(* Mutant: the check that a shipped line is not removed is forgotten. *)
RemovesShippedLines(l, entry) ==
  RowsOn({l}) # {} /\ entry.state # "gone" /\ entry.ordered # line[l].ordered =>
    ~Closed(l) /\ entry.ordered >= Sent(RowsOn({l}))

(* The guards on a line that has shipped. *)
RespectsRows(l, entry) ==
  RowsOn({l}) # {} =>
    /\ entry.state # "gone"
    /\ entry.ordered # line[l].ordered =>
         /\ ~Closed(l)
         /\ entry.ordered >= Sent(RowsOn({l})) \/ entry.ordered >= line[l].ordered

(* OrdersService.create / update up to the write: every guard reads the    *)
(* database outside the transaction.                                       *)
CheckSave(r) ==
  /\ Resume(r, "form")
  /\ LET o    == req[r].o
         plan == req[r].plan
         here == {l \in LinesOf(o) : line[l].state # "gone"}
     IN /\ IF req[r].new
           THEN status[o] = "UNUSED" /\ ~held
           ELSE /\ Exists(o)
                /\ held => status[o] # "DRAFT" /\ ~AddsToOrder(o, plan)
                /\ \A l \in here : RespectsRows(l, plan[l])
        /\ req' = [req EXCEPT ![r].at = "checked", ![r].seen = here]
  /\ UNCHANGED <<status, line, row, held>>

(* The nested write: lines seen and left out are deleted with their rows   *)
(* (onDelete: Cascade), lines seen and kept are updated, the rest is       *)
(* created.  Updating a line that is gone fails the whole write.           *)
WriteSave(r) ==
  /\ Resume(r, "checked")
  /\ LET o    == req[r].o
         plan == req[r].plan
         seen == req[r].seen
         kept == {l \in LinesOf(o) : plan[l].state # "gone"}
         cut  == {l \in seen : plan[l].state = "gone"}
     IN /\ IF req[r].new THEN status[o] = "UNUSED" ELSE Exists(o)
        /\ \A l \in kept : l \in seen <=> line[l].state # "gone"
        /\ status' = [status EXCEPT ![o] = req[r].st]
        /\ line' = [l \in Lines |-> IF l \in kept \cup cut THEN plan[l] ELSE line[l]]
        /\ row' = [d \in Rows |-> IF d \in RowsOn(cut) THEN [kind |-> "gone"] ELSE row[d]]
  /\ Finish(r)
  /\ UNCHANGED held

(* Mutant: only a fully dispatched line keeps its order from being cancelled. *)
CancelsPartShipped(r, o) ==
  /\ "cancel" \in Operations
  /\ status[o] \in {"DRAFT", "CONFIRMED"}
  /\ \A l \in LinesOf(o) : ~Closed(l)
  /\ Begin(r, [at |-> "status", o |-> o, to |-> "CANCELLED"])
  /\ UNCHANGED <<status, line, row, held>>

(* OrdersService.updateStatus: the checks ... *)
ReadCancel(r, o) ==
  /\ "cancel" \in Operations
  /\ status[o] \in {"DRAFT", "CONFIRMED"}
  /\ RowsOn(LinesOf(o)) = {}
  /\ Begin(r, [at |-> "status", o |-> o, to |-> "CANCELLED"])
  /\ UNCHANGED <<status, line, row, held>>

ReadRestore(r, o) ==
  /\ "restore" \in Operations
  /\ status[o] = "CANCELLED"
  /\ ~held
  /\ Begin(r, [at |-> "status", o |-> o, to |-> "CONFIRMED"])
  /\ UNCHANGED <<status, line, row, held>>

(* ... and the write. *)
WriteStatus(r) ==
  /\ Resume(r, "status")
  /\ Exists(req[r].o)
  /\ status' = [status EXCEPT ![req[r].o] = req[r].to]
  /\ Finish(r)
  /\ UNCHANGED <<line, row, held>>

(* Mutant: the rows of a deleted order do not cascade. *)
LeavesOrphanRows(o) ==
  /\ "removeOrder" \in Operations /\ OneStep
  /\ Exists(o)
  /\ status' = [status EXCEPT ![o] = "DELETED"]
  /\ line' = [l \in Lines |-> IF l \in LinesOf(o) THEN Absent ELSE line[l]]
  /\ UNCHANGED <<row, held, req>>

(* OrdersService.remove: no check at all; lines and rows cascade. *)
RemoveOrder(o) ==
  /\ "removeOrder" \in Operations /\ OneStep
  /\ Exists(o)
  /\ status' = [status EXCEPT ![o] = "DELETED"]
  /\ line' = [l \in Lines |-> IF l \in LinesOf(o) THEN Absent ELSE line[l]]
  /\ row' = [d \in Rows |-> IF d \in RowsOn(LinesOf(o)) THEN [kind |-> "gone"] ELSE row[d]]
  /\ UNCHANGED <<held, req>>

(* CustomersService: the dispatch hold of the party. *)
SetHold(value) ==
  /\ "hold" \in Operations /\ OneStep
  /\ held' = value
  /\ UNCHANGED <<status, line, row, req>>

-----------------------------------------------------------------------------
(* Dispatch rows *)

Shippable(l) ==
  /\ status[OrderOf[l]] = "CONFIRMED"
  /\ line[l].state = "open"
  /\ ~Closed(l)

(* Mutant: the hold is not checked again inside the transaction. *)
AcceptsForHeldParty(l, q, kind, closeShort) ==
  Shippable(l) /\ ValidQty(Owed(l), q, kind, closeShort)

(* What the transaction of DispatchService.create accepts. *)
Accepts(l, q, kind, closeShort) ==
  /\ Shippable(l)
  /\ ~held
  /\ ValidQty(Owed(l), q, kind, closeShort)

(* DispatchService.create: read, checks and insert in one transaction. *)
CreateDispatch(d, l, q, kind, closeShort) ==
  /\ "create" \in Operations /\ OneStep
  /\ closeShort => "closeShort" \in Operations
  /\ row[d].kind = "unborn"
  /\ Accepts(l, q, kind, closeShort)
  /\ row' = [row EXCEPT ![d] = [kind |-> kind, line |-> l, qty |-> q]]
  /\ UNCHANGED <<status, line, held, req>>

(* Mutant: the ordered quantity is shipped, whatever went out before. *)
ShipsWhatWasOrdered(r, o) ==
  /\ "fully" \in Operations
  /\ ~held
  /\ LET eligible == {l \in LinesOf(o) : Shippable(l) /\ Owed(l) > 0}
     IN /\ eligible # {}
        /\ Begin(r, [at |-> "fully", ship |->
             [l \in Lines |-> IF l \in eligible THEN line[l].ordered ELSE 0]])
  /\ UNCHANGED <<status, line, row, held>>

(* dispatchOrderFully: the order is read and judged outside the            *)
(* transaction ...                                                         *)
ReadFully(r, o) ==
  /\ "fully" \in Operations
  /\ ~held
  /\ LET eligible == {l \in LinesOf(o) : Shippable(l) /\ Owed(l) > 0}
     IN /\ eligible # {}
        /\ Begin(r, [at |-> "fully", ship |->
             [l \in Lines |-> IF l \in eligible THEN Owed(l) ELSE 0]])
  /\ UNCHANGED <<status, line, row, held>>

Shipment(s) == {l \in Lines : s.ship[l] > 0}

(* ... which inserts one FULLY DISPATCH row per line as it was read. *)
WriteFully(r, place) ==
  /\ Resume(r, "fully")
  /\ DOMAIN place = Shipment(req[r])
  /\ \A l \in DOMAIN place : line[l].state # "gone" /\ row[place[l]].kind = "unborn"
  /\ \A l, m \in DOMAIN place : place[l] = place[m] => l = m
  /\ row' = [d \in Rows |->
       IF \E l \in DOMAIN place : place[l] = d
       THEN LET l == CHOOSE m \in DOMAIN place : place[m] = d
            IN [kind |-> "FULL", line |-> l, qty |-> req[r].ship[l]]
       ELSE row[d]]
  /\ Finish(r)
  /\ UNCHANGED <<status, line, held>>

(* Goods that came back were billed: only the kind of their row may still  *)
(* be corrected (assertNotBilled; DispatchBilling models the billing).     *)
Billed(d) == Returns(d) # {}

(* The quantity of a row, which its form shows and may send back. *)
KeptQuantity(d) == IF Outward(d) THEN {row[d].qty} ELSE {}

(* DispatchService.update: the row is read, ... *)
ReadEdit(r, d, q, kind) ==
  /\ "edit" \in Operations
  /\ Outward(d)
  /\ Billed(d) => q = row[d].qty
  /\ Begin(r, [at |-> "edit", d |-> d, old |-> row[d], q |-> q, kind |-> kind])
  /\ UNCHANGED <<status, line, row, held>>

(* ... judged against the other rows of its line (a FULL row that keeps    *)
(* its quantity is not judged again), ...                                  *)
CheckEdit(r) ==
  /\ Resume(r, "edit")
  /\ LET l == req[r].old.line
     IN /\ line[l].state # "gone"
        /\ ValidQty(Remaining(l, RowsOn({l}) \ {req[r].d}), req[r].q, req[r].kind,
                    \/ "closeShort" \in Operations
                    \/ req[r].old.kind = "FULL" /\ req[r].old.qty = req[r].q)
  /\ req' = [req EXCEPT ![r].at = "editChecked"]
  /\ UNCHANGED <<status, line, row, held>>

(* ... and written, unless it was deleted meanwhile. *)
WriteEdit(r) ==
  /\ Resume(r, "editChecked")
  /\ Outward(req[r].d)
  /\ row' = [row EXCEPT ![req[r].d].qty = req[r].q, ![req[r].d].kind = req[r].kind]
  /\ Finish(r)
  /\ UNCHANGED <<status, line, held>>

(* DispatchService.remove *)
RemoveRow(d) ==
  /\ "removeRow" \in Operations /\ OneStep
  /\ Outward(d) /\ ~Billed(d)
  /\ row' = [row EXCEPT ![d] = [kind |-> "gone"]]
  /\ UNCHANGED <<status, line, held, req>>

(* applyUndispatch: a credit note puts n units of row src back.  How many  *)
(* the row had sent, and what came back of it before, is not looked at.    *)
ReturnGoods(d, src, n) ==
  /\ "return" \in Operations /\ OneStep
  /\ row[d].kind = "unborn"
  /\ Outward(src)
  /\ row' = [row EXCEPT ![d] = [kind |-> "RETURNED", line |-> row[src].line,
                                qty |-> -n, src |-> src]]
  /\ UNCHANGED <<status, line, held, req>>

(* clearUndispatch: the note is deleted or saved again. *)
ClearReturn(d) ==
  /\ "return" \in Operations /\ OneStep
  /\ row[d].kind = "RETURNED"
  /\ row' = [row EXCEPT ![d] = [kind |-> "gone"]]
  /\ UNCHANGED <<status, line, held, req>>

(* A check refuses or the process stops: nothing was written. *)
Drop(r) ==
  /\ req[r] # Idle
  /\ Finish(r)
  /\ UNCHANGED <<status, line, row, held>>

OrderStep ==
  \/ \E r \in Requests, o \in Orders :
       \E plan \in Plans(o), st \in {"DRAFT", "CONFIRMED", "CANCELLED"} :
         LoadForm(r, o, plan, st)
  \/ \E r \in Requests : CheckSave(r)
  \/ \E r \in Requests : WriteSave(r)
  \/ \E r \in Requests, o \in Orders : ReadCancel(r, o)
  \/ \E r \in Requests, o \in Orders : ReadRestore(r, o)
  \/ \E r \in Requests : WriteStatus(r)
  \/ \E o \in Orders : RemoveOrder(o)
  \/ \E value \in BOOLEAN : SetHold(value)

RowStep ==
  \/ \E d \in Rows, l \in Lines, q \in 1..MaxQty, kind \in OutwardKinds,
        closeShort \in BOOLEAN : CreateDispatch(d, l, q, kind, closeShort)
  \/ \E r \in Requests, o \in Orders : ReadFully(r, o)
  \/ \E r \in Requests : \E ls \in SUBSET Lines : \E place \in [ls -> Rows] :
       WriteFully(r, place)
  \/ \E r \in Requests, d \in Rows, kind \in OutwardKinds :
       \E q \in 1..MaxQty \cup KeptQuantity(d) : ReadEdit(r, d, q, kind)
  \/ \E r \in Requests : CheckEdit(r)
  \/ \E r \in Requests : WriteEdit(r)
  \/ \E d \in Rows : RemoveRow(d)
  \/ \E d, src \in Rows, n \in 1..MaxQty : ReturnGoods(d, src, n)
  \/ \E d \in Rows : ClearReturn(d)

Next == OrderStep \/ RowStep \/ \E r \in Requests : Drop(r)

Spec == Init /\ [][Next]_vars

-----------------------------------------------------------------------------
(* Orders, lines, rows and what requests remember keep their shape; in     *)
(* particular a row that is present belongs to a line that exists.         *)
TypeOK ==
  /\ status \in [Orders -> Statuses]
  /\ line \in [Lines -> Entries]
  /\ row \in [Rows -> RowStates]
  /\ held \in BOOLEAN
  /\ req \in [Requests -> RequestStates]
  /\ \A d \in RowsOn(Lines) : line[row[d].line].state # "gone"

(* A cancelled order has never shipped anything (updateStatus: cancelling  *)
(* is only allowed while the order is untouched).                          *)
CancelledIsUntouched ==
  \A o \in Orders : status[o] = "CANCELLED" => RowsOn(LinesOf(o)) = {}

(* Saving an order form destroys no shipment and pulls no line below what  *)
(* went out on it (OrdersService.update, the guards on dispatched lines).  *)
SaveRespectsShipments ==
  [][\A r \in Requests : WriteSave(r) =>
       /\ row' = row
       /\ \A l \in Lines : line'[l].ordered < line[l].ordered
            => Sent(RowsOn({l})) <= line'[l].ordered]_vars

(* Shipping an order fully sends of each line what it owes at that moment, *)
(* and nothing of a line that is closed, cancelled or on a cancelled order *)
(* (dispatchOrderFully).                                                   *)
FullyShipsWhatIsOwed ==
  [][\A r \in Requests, d \in Rows :
       Resume(r, "fully") /\ req'[r] = Idle /\ row'[d] # row[d] =>
         Shippable(row'[d].line) /\ row'[d].qty = Owed(row'[d].line)]_vars

(* No goods leave for a party on hold, whether one line is shipped or the  *)
(* whole order (assertNotOnHold, checked where a dispatch is inserted).    *)
HeldPartyGetsNothing ==
  [][held => \A d \in Rows : row'[d].kind \in OutwardKinds => Outward(d)]_vars

(* What the pending pool offers can be shipped in full.                    *)
(* (dispatch.service.ts computePendingLines and create.)                   *)
OfferedCanShip ==
  \A l \in Lines : Offered(l) /\ ~held => Accepts(l, Owed(l), "FULL", FALSE)
=============================================================================
