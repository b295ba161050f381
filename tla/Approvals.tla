------------------------------- MODULE Approvals -------------------------------
(***************************************************************************)
(* The approvals inbox (apps/api/src/approvals/approvals.service.ts) with  *)
(* the two actions it holds back (dispatch/dispatch.service.ts): a         *)
(* back-dated dispatch, and moving a dispatch to another day.              *)
(*                                                                         *)
(* Approving replays the held-back action first and marks the request      *)
(* afterwards; the two are not one transaction.  The dispatches are those  *)
(* of one order line and all of one quantity, so that two of them are      *)
(* exact duplicates when they are on the same day.  Nobody confirms a      *)
(* duplicate knowingly.                                                    *)
(***************************************************************************)
EXTENDS Naturals, FiniteSets

CONSTANTS
  Approvals,    (* ids of approval requests                                *)
  Dispatches,   (* ids of dispatches of the line                           *)
  Days,         (* days a dispatch can be dated                            *)
  Users,        (* users with something under way                          *)
  None,
  Operations    (* the operations in use, see OperationNames               *)

OperationNames ==
  {"submit", "askMove", "create", "move", "delete", "approve", "reject",
   "discard", "restart"}

ASSUME ApprovalsAssumption ==
  /\ Operations \subseteq OperationNames
  /\ None \notin Approvals \cup Dispatches

VARIABLES
  inbox,     (* approval request: status, held-back action and result      *)
  dispatch,  (* dispatch: its day, and the request it was created from     *)
  at         (* user: what is under way                                    *)

vars == <<inbox, dispatch, at>>

-----------------------------------------------------------------------------
Unused == [status |-> "UNUSED"]
Entry(type, d, on) ==
  [status |-> "PENDING", type |-> type, dispatch |-> d, day |-> on, result |-> None]
Asked ==
  [status: {"PENDING", "APPROVED", "REJECTED", "DELETED"},
   type: {"BACKDATE", "DATE_CHANGE"}, dispatch: Dispatches \cup {None},
   day: Days, result: Dispatches \cup {None}]

LiveRows == [state: {"live"}, day: Days, from: Approvals \cup {None}]

Idle     == [step |-> "idle"]
Deciding == [step: {"replay", "redate", "write", "reject"}, entry: Approvals]
Marking  == [step: {"mark"}, entry: Approvals, result: Dispatches]
Moving   == [step: {"move"}, dispatch: Dispatches, day: Days]

Begin(u, task)   == at[u] = Idle /\ at' = [at EXCEPT ![u] = task]
Resume(u, step)  == at[u].step = step
Go(u, task)      == at' = [at EXCEPT ![u] = task]
Held(u)          == inbox[at[u].entry]
Pending(a)       == inbox[a].status = "PENDING"
Shipped          == {d \in Dispatches : dispatch[d].state = "live"}
Redate(d, on)    == dispatch' = [dispatch EXCEPT ![d].day = on]

(* assertNoDuplicateDispatch against the line's other dispatches. *)
NoTwin(others, on) == \A d \in others : dispatch[d].day # on

Init ==
  /\ inbox = [a \in Approvals |-> Unused]
  /\ dispatch = [d \in Dispatches |-> [state |-> "unborn"]]
  /\ at = [u \in Users |-> Idle]

-----------------------------------------------------------------------------
(* submit: a back-dated dispatch by a user without the right to approve is *)
(* parked, without a duplicate check.                                      *)
Submit(a, on) ==
  /\ "submit" \in Operations
  /\ inbox[a] = Unused
  /\ inbox' = [inbox EXCEPT ![a] = Entry("BACKDATE", None, on)]
  /\ UNCHANGED <<dispatch, at>>

(* updateAsUser: so is moving a dispatch to another day. *)
AskMove(a, d, on) ==
  /\ "askMove" \in Operations
  /\ inbox[a] = Unused
  /\ d \in Shipped /\ dispatch[d].day # on
  /\ inbox' = [inbox EXCEPT ![a] = Entry("DATE_CHANGE", d, on)]
  /\ UNCHANGED <<dispatch, at>>

(* create, one transaction: the row is recorded unless it repeats another. *)
Record(d, on, from) ==
  /\ dispatch[d].state = "unborn"
  /\ NoTwin(Shipped, on)
  /\ dispatch' = [dispatch EXCEPT ![d] = [state |-> "live", day |-> on, from |-> from]]

Create(d, on) ==
  /\ "create" \in Operations
  /\ Record(d, on, None)
  /\ UNCHANGED <<inbox, at>>

(* update by a user who may move it: check ... *)
ReadMove(u, d, on) ==
  /\ "move" \in Operations
  /\ d \in Shipped /\ dispatch[d].day # on
  /\ NoTwin(Shipped \ {d}, on)
  /\ Begin(u, [step |-> "move", dispatch |-> d, day |-> on])
  /\ UNCHANGED <<inbox, dispatch>>

(* ... and write. *)
WriteMove(u) ==
  /\ Resume(u, "move")
  /\ at[u].dispatch \in Shipped
  /\ Redate(at[u].dispatch, at[u].day)
  /\ Go(u, Idle)
  /\ UNCHANGED inbox

Delete(d) ==
  /\ "delete" \in Operations
  /\ d \in Shipped
  /\ dispatch' = [dispatch EXCEPT ![d] = [state |-> "gone"]]
  /\ UNCHANGED <<inbox, at>>

-----------------------------------------------------------------------------
(* Mutant: the request is marked before its handler has run. *)
MarksFirst(u, a) ==
  /\ "approve" \in Operations
  /\ Pending(a)
  /\ Begin(u, [step |-> IF inbox[a].type = "BACKDATE" THEN "replay" ELSE "redate",
               entry |-> a])
  /\ inbox' = [inbox EXCEPT ![a].status = "APPROVED"]
  /\ UNCHANGED dispatch

(* approve: a pending request is read, ... *)
ReadApprove(u, a) ==
  /\ "approve" \in Operations
  /\ Pending(a)
  /\ Begin(u, [step |-> IF inbox[a].type = "BACKDATE" THEN "replay" ELSE "redate",
               entry |-> a])
  /\ UNCHANGED <<inbox, dispatch>>

(* Mutant: the handler does not return what it created. *)
ReplayNamesNothing(u, d) ==
  /\ Resume(u, "replay")
  /\ Record(d, Held(u).day, at[u].entry)
  /\ Go(u, [step |-> "mark", entry |-> at[u].entry, result |-> None])
  /\ UNCHANGED inbox

(* ... its handler creates the dispatch ...                                *)
ReplayBackdate(u, d) ==
  /\ Resume(u, "replay")
  /\ Record(d, Held(u).day, at[u].entry)
  /\ Go(u, [step |-> "mark", entry |-> at[u].entry, result |-> d])
  /\ UNCHANGED inbox

(* ... or moves it, check and write apart ...                              *)
CheckDateChange(u) ==
  LET d == Held(u).dispatch IN
  /\ Resume(u, "redate")
  /\ d \in Shipped
  /\ NoTwin(Shipped \ {d}, Held(u).day)
  /\ Go(u, [step |-> "write", entry |-> at[u].entry])
  /\ UNCHANGED <<inbox, dispatch>>

WriteDateChange(u) ==
  /\ Resume(u, "write")
  /\ Held(u).dispatch \in Shipped
  /\ Redate(Held(u).dispatch, Held(u).day)
  /\ Go(u, [step |-> "mark", entry |-> at[u].entry, result |-> Held(u).dispatch])
  /\ UNCHANGED inbox

(* ... and the request is marked, whatever became of it since it was read. *)
MarkApproved(u) ==
  /\ Resume(u, "mark")
  /\ Held(u).status # "DELETED"
  /\ inbox' = [inbox EXCEPT ![at[u].entry].status = "APPROVED",
                            ![at[u].entry].result = at[u].result]
  /\ Go(u, Idle)
  /\ UNCHANGED dispatch

(* reject *)
ReadReject(u, a) ==
  /\ "reject" \in Operations
  /\ Pending(a)
  /\ Begin(u, [step |-> "reject", entry |-> a])
  /\ UNCHANGED <<inbox, dispatch>>

WriteReject(u) ==
  /\ Resume(u, "reject")
  /\ Held(u).status # "DELETED"
  /\ inbox' = [inbox EXCEPT ![at[u].entry].status = "REJECTED"]
  /\ Go(u, Idle)
  /\ UNCHANGED dispatch

(* remove, in any status. *)
Discard(a) ==
  /\ "discard" \in Operations
  /\ inbox[a].status \notin {"UNUSED", "DELETED"}
  /\ inbox' = [inbox EXCEPT ![a].status = "DELETED"]
  /\ UNCHANGED <<dispatch, at>>

(* A handler refuses, or the row to be written is gone: the request keeps  *)
(* the status it has.                                                      *)
Refuse(u) ==
  /\ \/ Resume(u, "move") /\ at[u].dispatch \notin Shipped
     \/ Resume(u, "replay") /\ ~NoTwin(Shipped, Held(u).day)
     \/ /\ Resume(u, "redate")
        /\ \/ Held(u).dispatch \notin Shipped
           \/ ~NoTwin(Shipped \ {Held(u).dispatch}, Held(u).day)
     \/ Resume(u, "write") /\ Held(u).dispatch \notin Shipped
     \/ Resume(u, "mark") /\ Held(u).status = "DELETED"
     \/ Resume(u, "reject") /\ Held(u).status = "DELETED"
  /\ Go(u, Idle)
  /\ UNCHANGED <<inbox, dispatch>>

(* The server restarts: whatever was under way is lost where it stood. *)
Restart ==
  /\ "restart" \in Operations
  /\ \E u \in Users : at[u] # Idle
  /\ at' = [u \in Users |-> Idle]
  /\ UNCHANGED <<inbox, dispatch>>

DispatchStep ==
  \/ \E d \in Dispatches, on \in Days : Create(d, on)
  \/ \E d \in Dispatches : Delete(d)
  \/ \E u \in Users, d \in Dispatches, on \in Days : ReadMove(u, d, on)
  \/ \E u \in Users : WriteMove(u)

InboxStep ==
  \/ \E a \in Approvals, on \in Days : Submit(a, on)
  \/ \E a \in Approvals, d \in Dispatches, on \in Days : AskMove(a, d, on)
  \/ \E a \in Approvals : Discard(a)
  \/ \E u \in Users, a \in Approvals : ReadApprove(u, a) \/ ReadReject(u, a)
  \/ \E u \in Users, d \in Dispatches : ReplayBackdate(u, d)
  \/ \E u \in Users : CheckDateChange(u) \/ WriteDateChange(u)
                        \/ MarkApproved(u) \/ WriteReject(u)

Next ==
  \/ DispatchStep
  \/ InboxStep
  \/ \E u \in Users : Refuse(u)
  \/ Restart

Spec == Init /\ [][Next]_vars

-----------------------------------------------------------------------------
(* Requests, dispatches and what is under way keep their shape. *)
TypeOK ==
  /\ inbox \in [Approvals -> {Unused} \cup Asked]
  /\ dispatch \in [Dispatches -> [state: {"unborn", "gone"}] \cup LiveRows]
  /\ at \in [Users -> {Idle} \cup Deciding \cup Marking \cup Moving]

(* No day of the line holds the same dispatch twice, however often a       *)
(* request is approved or a server restarts between a replay and its mark  *)
(* (assertNoDuplicateDispatch).  Proved where nothing is moved to another  *)
(* day: a move's check and its write are apart.                            *)
NoDoubleEntry ==
  \A d, e \in Shipped : d # e => dispatch[d].day # dispatch[e].day

(* A request marked approved names the dispatch its handler produced: it   *)
(* is never done with nothing to show for it (approve).                    *)
ApprovedWasApplied ==
  \A a \in Approvals :
    inbox[a].status = "APPROVED" =>
      /\ inbox[a].result # None
      /\ dispatch[inbox[a].result].state # "unborn"
      /\ inbox[a].type = "BACKDATE" /\ inbox[a].result \in Shipped
           => dispatch[inbox[a].result].from = a

(* One request produces one dispatch at most, however often approving it   *)
(* is tried (approve replays through create, whose duplicate check is what *)
(* stops the second).  Proved where nothing is moved to another day.       *)
AppliedOnce ==
  \A d, e \in Shipped :
    d # e /\ dispatch[d].from # None => dispatch[d].from # dispatch[e].from

(* A rejected back-dated dispatch never existed (reject). *)
RejectedNeverExisted ==
  \A a \in Approvals :
    inbox[a].status = "REJECTED" => \A d \in Shipped : dispatch[d].from # a
=============================================================================
