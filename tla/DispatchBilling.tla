--------------------------- MODULE DispatchBilling ---------------------------
(***************************************************************************)
(* Dispatch rows and the challans (sales invoices) that bill them.         *)
(*                                                                         *)
(* apps/api/src/dispatch/dispatch.service.ts edits and deletes the rows;   *)
(* apps/api/src/challans/challans.service.ts bills them.  The two services *)
(* share nothing but the database: every prisma.$transaction is one step   *)
(* here (SQLite runs one write transaction at a time) and every await      *)
(* outside a transaction ends a step, so requests interleave exactly where *)
(* the Node event loop lets them.                                          *)
(*                                                                         *)
(* A quantity stands for the bags/pcs/kgs/box figures of a row: the checks *)
(* modelled here only compare them for equality.  Zero, which no row has,  *)
(* marks a dispatch a challan does not carry.                              *)
(***************************************************************************)
EXTENDS Integers

CONSTANTS
  Dispatches,   (* ids of dispatch rows, handed out once each             *)
  Challans,     (* ids of challans, handed out once each                  *)
  Quantities,   (* the quantities a row may carry                         *)
  Requests,     (* screens and the API requests they have in flight       *)
  Operations    (* the operations the screens use, see OperationNames     *)

OperationNames ==
  {"create", "update", "cancel", "reinstate", "reconfirm", "remove",
   "edit", "delete"}

ASSUME QuantitiesAssumption == Quantities \subseteq Int \ {0}
ASSUME OperationsAssumption == Operations \subseteq OperationNames

VARIABLES
  life,     (* dispatch row: not inserted yet, present, or deleted        *)
  qty,      (* dispatch row: its quantity                                 *)
  status,   (* challan: UNUSED until inserted, then its status            *)
  items,    (* challan: the quantity billed per dispatch, 0 for none      *)
  req       (* request: what it has read and where it is                  *)

vars == <<life, qty, status, items, req>>

-----------------------------------------------------------------------------
(* What a request remembers between two awaits. *)

Lines == [Dispatches -> Quantities \cup {0}]

Idle == [at |-> "idle"]

Drafts ==        (* create form: the lines picked from the pending pool *)
  [at: {"drafted"}, lines: Lines]
OpenChallans ==  (* edit form: the challan, its new lines and new status *)
  [at: {"opened"}, c: Challans, lines: Lines, to: {"CONFIRMED", "CANCELLED"}]
StatusReads ==   (* updateStatus after findOne *)
  [at: {"statusRead"}, c: Challans, lines: Lines,
   was: {"CONFIRMED", "CANCELLED"}, to: {"CONFIRMED", "CANCELLED"}]
RowEdits ==      (* DispatchService.update, between its awaits *)
  [at: {"editRead", "editChecked", "editReady"},
   d: Dispatches, saw: Quantities, want: Quantities]
RowDeletes ==    (* DispatchService.remove, between its awaits *)
  [at: {"deleteRead", "deleteChecked"}, d: Dispatches]

RequestStates ==
  {Idle} \cup Drafts \cup OpenChallans \cup StatusReads \cup RowEdits
         \cup RowDeletes

Live(c)      == status[c] = "CONFIRMED"
Exists(c)    == status[c] \in {"CONFIRMED", "CANCELLED"}
Billed(d)    == \E c \in Challans : Live(c) /\ items[c][d] # 0
Pending      == {d \in Dispatches : life[d] = "live" /\ ~Billed(d)}

(* assertDispatchesUnbilled: none of the lines is on a live challan other  *)
(* than the excluded ones.                                                 *)
Unbilled(lines, excluded) ==
  \A d \in Dispatches, c \in Challans \ excluded :
    lines[d] # 0 /\ Live(c) => items[c][d] = 0

(* A status request is named by the status it read and the one it sets. *)
StatusOperation(was, to) ==
  IF to = "CANCELLED" THEN "cancel"
  ELSE IF was = "CANCELLED" THEN "reinstate" ELSE "reconfirm"

Init ==
  /\ life   = [d \in Dispatches |-> "unborn"]
  /\ qty    \in [Dispatches -> Quantities]
  /\ status = [c \in Challans |-> "UNUSED"]
  /\ items  = [c \in Challans |-> [d \in Dispatches |-> 0]]
  /\ req    = [r \in Requests |-> Idle]

Begin(r, state)  == req[r] = Idle /\ req' = [req EXCEPT ![r] = state]
Resume(r, place) == req[r] # Idle /\ req[r].at = place
Continue(r, place) == req' = [req EXCEPT ![r].at = place]
Finish(r)        == req' = [req EXCEPT ![r] = Idle]

-----------------------------------------------------------------------------
(* Dispatch rows *)

(* DispatchService.create: the transaction that inserts the row. *)
InsertDispatch(d) ==
  /\ life[d] = "unborn"
  /\ life' = [life EXCEPT ![d] = "live"]
  /\ UNCHANGED <<qty, status, items, req>>

(* DispatchService.update: findUnique of the row; a quantity edit ... *)
StartEdit(r, d, want) ==
  /\ "edit" \in Operations
  /\ life[d] = "live"
  /\ Begin(r, [at |-> "editRead", d |-> d, saw |-> qty[d], want |-> want])
  /\ UNCHANGED <<life, qty, status, items>>

(* ... and a status-only edit, which rewrites the quantity it read and     *)
(* skips assertNotBilled.                                                  *)
StartStatusEdit(r, d) ==
  /\ "edit" \in Operations
  /\ life[d] = "live"
  /\ Begin(r, [at |-> "editChecked", d |-> d, saw |-> qty[d], want |-> qty[d]])
  /\ UNCHANGED <<life, qty, status, items>>

(* assertNotBilled of an edit *)
CheckEdit(r) ==
  /\ Resume(r, "editRead")
  /\ ~Billed(req[r].d)
  /\ Continue(r, "editChecked")
  /\ UNCHANGED <<life, qty, status, items>>

(* Mutant: a figure the request does not send is taken for zero. *)
ZeroesWhatIsBilled(r) ==
  /\ Resume(r, "editChecked")
  /\ req' = [req EXCEPT
       ![r].at   = "editReady",
       ![r].want = IF Billed(req[r].d) THEN 0 ELSE @]
  /\ UNCHANGED <<life, qty, status, items>>

(* isBilledDispatch: the quantity stays what was read if the row is billed. *)
SettleEdit(r) ==
  /\ Resume(r, "editChecked")
  /\ req' = [req EXCEPT
       ![r].at   = "editReady",
       ![r].want = IF Billed(req[r].d) THEN req[r].saw ELSE @]
  /\ UNCHANGED <<life, qty, status, items>>

(* dispatch.update; it fails on a row deleted meanwhile. *)
WriteEdit(r) ==
  /\ Resume(r, "editReady")
  /\ life[req[r].d] = "live"
  /\ qty' = [qty EXCEPT ![req[r].d] = req[r].want]
  /\ Finish(r)
  /\ UNCHANGED <<life, status, items>>

(* DispatchService.remove: findUnique, assertNotBilled, delete. *)
StartDelete(r, d) ==
  /\ "delete" \in Operations
  /\ life[d] = "live"
  /\ Begin(r, [at |-> "deleteRead", d |-> d])
  /\ UNCHANGED <<life, qty, status, items>>

(* Mutant: a row is deleted whether it is billed or not. *)
DeletesBilledRows(r) ==
  /\ Resume(r, "deleteRead")
  /\ Continue(r, "deleteChecked")
  /\ UNCHANGED <<life, qty, status, items>>

CheckDelete(r) ==
  /\ Resume(r, "deleteRead")
  /\ ~Billed(req[r].d)
  /\ Continue(r, "deleteChecked")
  /\ UNCHANGED <<life, qty, status, items>>

DeleteRow(r) ==
  /\ Resume(r, "deleteChecked")
  /\ life[req[r].d] = "live"
  /\ life' = [life EXCEPT ![req[r].d] = "deleted"]
  /\ Finish(r)
  /\ UNCHANGED <<qty, status, items>>

-----------------------------------------------------------------------------
(* Challans *)

(* The Pending Challan screen: picked lines carry the quantities shown,    *)
(* and the draft keeps them until it is saved.                             *)
DraftChallan(r, picked) ==
  /\ "create" \in Operations
  /\ picked # {} /\ picked \subseteq Pending
  /\ Begin(r, [at |-> "drafted",
               lines |-> [d \in Dispatches |-> IF d \in picked THEN qty[d] ELSE 0]])
  /\ UNCHANGED <<life, qty, status, items>>

(* Mutant: the lines picked are not checked again when they are billed. *)
BillsStalePicks(r, c, to) ==
  /\ Resume(r, "drafted")
  /\ status[c] = "UNUSED"
  /\ status' = [status EXCEPT ![c] = to]
  /\ items'  = [items EXCEPT ![c] = req[r].lines]
  /\ Finish(r)
  /\ UNCHANGED <<life, qty>>

(* ChallansService.create: checks and insert in one transaction. *)
CreateChallan(r, c, to) ==
  /\ Resume(r, "drafted")
  /\ status[c] = "UNUSED"
  /\ Unbilled(req[r].lines, {})
  /\ status' = [status EXCEPT ![c] = to]
  /\ items'  = [items EXCEPT ![c] = req[r].lines]
  /\ Finish(r)
  /\ UNCHANGED <<life, qty>>

(* The edit form loads a challan; lines may be dropped or picked anew, and *)
(* the status sent may differ from the one loaded.                         *)
OpenChallan(r, c, kept, picked, to) ==
  /\ "update" \in Operations
  /\ Exists(c)
  /\ status[c] = "CANCELLED" /\ to = "CONFIRMED" => "reinstate" \in Operations
  /\ kept \subseteq {d \in Dispatches : items[c][d] # 0}
  /\ picked \subseteq Pending \ kept
  /\ kept \cup picked # {}
  /\ Begin(r, [at |-> "opened", c |-> c, to |-> to,
               lines |-> [d \in Dispatches |->
                            IF d \in kept THEN items[c][d]
                            ELSE IF d \in picked THEN qty[d] ELSE 0]])
  /\ UNCHANGED <<life, qty, status, items>>

(* ChallansService.update: the transaction. *)
SaveChallan(r) ==
  /\ Resume(r, "opened")
  /\ Exists(req[r].c)
  /\ req[r].to # "CANCELLED" => Unbilled(req[r].lines, {req[r].c})
  /\ status' = [status EXCEPT ![req[r].c] = req[r].to]
  /\ items'  = [items EXCEPT ![req[r].c] = req[r].lines]
  /\ Finish(r)
  /\ UNCHANGED <<life, qty>>

(* ChallansService.updateStatus: findOne, outside the transaction ... *)
ReadStatus(r, c, to) ==
  /\ Exists(c)
  /\ StatusOperation(status[c], to) \in Operations
  /\ Begin(r, [at |-> "statusRead", c |-> c, lines |-> items[c],
               was |-> status[c], to |-> to])
  /\ UNCHANGED <<life, qty, status, items>>

(* ... and the transaction: only a change away from CANCELLED, judged by   *)
(* the status read before, checks that the lines read before are unbilled. *)
WriteStatus(r) ==
  /\ Resume(r, "statusRead")
  /\ Exists(req[r].c)
  /\ req[r].was = "CANCELLED" /\ req[r].to # "CANCELLED"
       => Unbilled(req[r].lines, {req[r].c})
  /\ status' = [status EXCEPT ![req[r].c] = req[r].to]
  /\ Finish(r)
  /\ UNCHANGED <<life, qty, items>>

(* ChallansService.remove: the delete; the items cascade. *)
RemoveChallan(c) ==
  /\ "remove" \in Operations
  /\ Exists(c)
  /\ status' = [status EXCEPT ![c] = "DELETED"]
  /\ items'  = [items EXCEPT ![c] = [d \in Dispatches |-> 0]]
  /\ UNCHANGED <<life, qty, req>>

(* A check refuses, the screen is closed or the process stops: whatever    *)
(* was only remembered is gone and nothing was written.                    *)
Drop(r) ==
  /\ req[r] # Idle
  /\ Finish(r)
  /\ UNCHANGED <<life, qty, status, items>>

RowStep ==
  \/ \E d \in Dispatches : InsertDispatch(d)
  \/ \E r \in Requests, d \in Dispatches, want \in Quantities : StartEdit(r, d, want)
  \/ \E r \in Requests, d \in Dispatches : StartStatusEdit(r, d)
  \/ \E r \in Requests : CheckEdit(r)
  \/ \E r \in Requests : SettleEdit(r)
  \/ \E r \in Requests : WriteEdit(r)
  \/ \E r \in Requests, d \in Dispatches : StartDelete(r, d)
  \/ \E r \in Requests : CheckDelete(r)
  \/ \E r \in Requests : DeleteRow(r)

ChallanStep ==
  \/ \E r \in Requests, picked \in SUBSET Dispatches : DraftChallan(r, picked)
  \/ \E r \in Requests, c \in Challans, to \in {"CONFIRMED", "CANCELLED"} :
       CreateChallan(r, c, to)
  \/ \E r \in Requests, c \in Challans, kept, picked \in SUBSET Dispatches,
        to \in {"CONFIRMED", "CANCELLED"} : OpenChallan(r, c, kept, picked, to)
  \/ \E r \in Requests : SaveChallan(r)
  \/ \E r \in Requests, c \in Challans, to \in {"CONFIRMED", "CANCELLED"} :
       ReadStatus(r, c, to)
  \/ \E r \in Requests : WriteStatus(r)
  \/ \E c \in Challans : RemoveChallan(c)

Next == RowStep \/ ChallanStep \/ \E r \in Requests : Drop(r)

Spec == Init /\ [][Next]_vars

-----------------------------------------------------------------------------
(* Every variable, and what a request remembers, has the declared shape:   *)
(* in particular no challan ever bills a quantity no row can carry.        *)
TypeOK ==
  /\ life   \in [Dispatches -> {"unborn", "live", "deleted"}]
  /\ qty    \in [Dispatches -> Quantities]
  /\ status \in [Challans -> {"UNUSED", "CONFIRMED", "CANCELLED", "DELETED"}]
  /\ items  \in [Challans -> Lines]
  /\ req    \in [Requests -> RequestStates]

(* The goods of one dispatch are on at most one live challan, however      *)
(* create, update, updateStatus and remove interleave                      *)
(* (challans.service.ts assertDispatchesUnbilled and its callers).         *)
NoDoubleBilling ==
  \A c1, c2 \in Challans, d \in Dispatches :
    Live(c1) /\ Live(c2) /\ items[c1][d] # 0 /\ items[c2][d] # 0 => c1 = c2

(* A live challan bills goods whose dispatch row still exists and still    *)
(* carries the billed quantity (dispatch.service.ts assertNotBilled: the   *)
(* row must not change underneath the invoice).                            *)
BilledAsShipped ==
  \A c \in Challans, d \in Dispatches :
    Live(c) /\ items[c][d] # 0 => life[d] = "live" /\ qty[d] = items[c][d]
=============================================================================
