----------------------------- MODULE Bills_proofs -----------------------------
(***************************************************************************)
(* Theorems about the bills of a party: DispatchBilling, for any rows,     *)
(* challans and requests, and the money that settles the bills.            *)
(***************************************************************************)
EXTENDS MCBills, Sums, TLAPS

(* The shape of every variable is kept by every operation of the dispatch  *)
(* and challan services, ...                                               *)
LEMMA GoodsTyped ==
  /\ Init => TypeOK
  /\ TypeOK /\ [Next]_vars => TypeOK'
<1> USE QuantitiesAssumption
<1>1. Init => TypeOK
  BY DEF Init, TypeOK, Lines, Idle, RequestStates
<1>2. TypeOK /\ [Next]_vars => TypeOK'
  <2> SUFFICES ASSUME TypeOK, [Next]_vars
               PROVE  TypeOK'
    OBVIOUS
  <2> USE DEF TypeOK, Begin, Resume, Continue, Finish
  <2>1. ASSUME NEW d \in Dispatches, InsertDispatch(d)
        PROVE  TypeOK'
    BY <2>1 DEF InsertDispatch
  <2>2. ASSUME NEW r \in Requests, NEW d \in Dispatches, NEW want \in Quantities,
               StartEdit(r, d, want)
        PROVE  TypeOK'
    BY <2>2 DEF StartEdit, RequestStates, RowEdits
  <2>3. ASSUME NEW r \in Requests, NEW d \in Dispatches, StartStatusEdit(r, d)
        PROVE  TypeOK'
    BY <2>3 DEF StartStatusEdit, RequestStates, RowEdits
  <2>4. ASSUME NEW r \in Requests, CheckEdit(r)
        PROVE  TypeOK'
    <3>1. req[r] \in RowEdits
      BY <2>4 DEF CheckEdit, RequestStates, Drafts, OpenChallans, StatusReads,
                  RowEdits, RowDeletes
    <3> QED  BY <2>4, <3>1 DEF CheckEdit, RequestStates, RowEdits
  <2>5. ASSUME NEW r \in Requests, SettleEdit(r)
        PROVE  TypeOK'
    <3>1. req[r] \in RowEdits
      BY <2>5 DEF SettleEdit, RequestStates, Drafts, OpenChallans, StatusReads,
                  RowEdits, RowDeletes
    <3> QED  BY <2>5, <3>1 DEF SettleEdit, RequestStates, RowEdits
  <2>6. ASSUME NEW r \in Requests, WriteEdit(r)
        PROVE  TypeOK'
    <3>1. req[r] \in RowEdits
      BY <2>6 DEF WriteEdit, RequestStates, Drafts, OpenChallans, StatusReads,
                  RowEdits, RowDeletes
    <3> QED  BY <2>6, <3>1 DEF WriteEdit, RequestStates, RowEdits
  <2>7. ASSUME NEW r \in Requests, NEW d \in Dispatches, StartDelete(r, d)
        PROVE  TypeOK'
    BY <2>7 DEF StartDelete, RequestStates, RowDeletes
  <2>8. ASSUME NEW r \in Requests, CheckDelete(r)
        PROVE  TypeOK'
    <3>1. req[r] \in RowDeletes
      BY <2>8 DEF CheckDelete, RequestStates, Drafts, OpenChallans, StatusReads,
                  RowEdits, RowDeletes
    <3> QED  BY <2>8, <3>1 DEF CheckDelete, RequestStates, RowDeletes
  <2>9. ASSUME NEW r \in Requests, DeleteRow(r)
        PROVE  TypeOK'
    <3>1. req[r] \in RowDeletes
      BY <2>9 DEF DeleteRow, RequestStates, Drafts, OpenChallans, StatusReads,
                  RowEdits, RowDeletes
    <3> QED  BY <2>9, <3>1 DEF DeleteRow, RequestStates, RowDeletes
  <2>10. ASSUME NEW r \in Requests, NEW picked \in SUBSET Dispatches,
                DraftChallan(r, picked)
         PROVE  TypeOK'
    BY <2>10 DEF DraftChallan, RequestStates, Drafts, Lines
  <2>11. ASSUME NEW r \in Requests, NEW c \in Challans,
                NEW to \in {"CONFIRMED", "CANCELLED"}, CreateChallan(r, c, to)
         PROVE  TypeOK'
    <3>1. req[r] \in Drafts
      BY <2>11 DEF CreateChallan, RequestStates, Drafts, OpenChallans,
                   StatusReads, RowEdits, RowDeletes
    <3> QED  BY <2>11, <3>1 DEF CreateChallan, RequestStates, Drafts
  <2>12. ASSUME NEW r \in Requests, NEW c \in Challans,
                NEW kept \in SUBSET Dispatches, NEW picked \in SUBSET Dispatches,
                NEW to \in {"CONFIRMED", "CANCELLED"},
                OpenChallan(r, c, kept, picked, to)
         PROVE  TypeOK'
    BY <2>12 DEF OpenChallan, RequestStates, OpenChallans, Lines
  <2>13. ASSUME NEW r \in Requests, SaveChallan(r)
         PROVE  TypeOK'
    <3>1. req[r] \in OpenChallans
      BY <2>13 DEF SaveChallan, RequestStates, Drafts, OpenChallans,
                   StatusReads, RowEdits, RowDeletes
    <3> QED  BY <2>13, <3>1 DEF SaveChallan, RequestStates, OpenChallans
  <2>14. ASSUME NEW r \in Requests, NEW c \in Challans,
                NEW to \in {"CONFIRMED", "CANCELLED"}, ReadStatus(r, c, to)
         PROVE  TypeOK'
    BY <2>14 DEF ReadStatus, Exists, RequestStates, StatusReads
  <2>15. ASSUME NEW r \in Requests, WriteStatus(r)
         PROVE  TypeOK'
    <3>1. req[r] \in StatusReads
      BY <2>15 DEF WriteStatus, RequestStates, Drafts, OpenChallans,
                   StatusReads, RowEdits, RowDeletes
    <3> QED  BY <2>15, <3>1 DEF WriteStatus, RequestStates, StatusReads
  <2>16. ASSUME NEW c \in Challans, RemoveChallan(c)
         PROVE  TypeOK'
    BY <2>16 DEF RemoveChallan, Lines
  <2>17. ASSUME NEW r \in Requests, Drop(r)
         PROVE  TypeOK'
    BY <2>17 DEF Drop, RequestStates
  <2>18. CASE UNCHANGED vars
    BY <2>18 DEF vars
  <2> HIDE DEF TypeOK, Begin, Resume, Continue, Finish
  <2>19. CASE RowStep
    BY <2>19, <2>1, <2>2, <2>3, <2>4, <2>5, <2>6, <2>7, <2>8, <2>9 DEF RowStep
  <2>20. CASE ChallanStep
    BY <2>20, <2>10, <2>11, <2>12, <2>13, <2>14, <2>15, <2>16, Zenon DEF ChallanStep
  <2> QED
    BY <2>17, <2>18, <2>19, <2>20 DEF Next
<1> QED  BY <1>1, <1>2

(* ... so it is so in every execution. *)
THEOREM GoodsTypeCorrect == Spec => []TypeOK
BY GoodsTyped, PTL DEF Spec

-----------------------------------------------------------------------------
(* The status switch is safe when nobody confirms what is already          *)
(* confirmed, and cancelled challans are not edited where they may also be *)
(* reinstated: a switch judges by the status and the lines it read before  *)
(* its transaction, and either would make them stale.                      *)
StatusIsSafe ==
  /\ "reconfirm" \notin Operations
  /\ "reinstate" \in Operations => "update" \notin Operations

(* A pending reinstatement still knows the lines of its challan: they are  *)
(* what its transaction checks.  Ids are not handed out twice, so a challan *)
(* that was read is never an unused one.                                   *)
ReinstatesCurrentLines ==
  \A r \in Requests :
    /\ req[r].at = "opened" => "update" \in Operations
    /\ req[r].at = "statusRead" => status[req[r].c] # "UNUSED"
    /\ req[r].at = "statusRead" /\ req[r].to = "CONFIRMED" =>
         /\ req[r].was = "CANCELLED"
         /\ "reinstate" \in Operations
         /\ Exists(req[r].c) => items[req[r].c] = req[r].lines

BilledInv == NoDoubleBilling /\ ReinstatesCurrentLines

(* However creating, editing, cancelling, reinstating and removing         *)
(* challans interleave with edits of the rows, the goods of one dispatch   *)
(* are billed once (ChallansService.assertDispatchesUnbilled), for any     *)
(* number of rows, challans and screens.                                   *)
THEOREM GoodsBilledOnce == StatusIsSafe => (Spec => []NoDoubleBilling)
<1> SUFFICES ASSUME StatusIsSafe
             PROVE  Spec => []NoDoubleBilling
  OBVIOUS
<1> USE QuantitiesAssumption
<1>1. Init => BilledInv
  BY DEF Init, BilledInv, NoDoubleBilling, ReinstatesCurrentLines, Idle, Live
<1>2. TypeOK /\ BilledInv /\ [Next]_vars => BilledInv'
  <2> SUFFICES ASSUME TypeOK, BilledInv, [Next]_vars
               PROVE  BilledInv'
    OBVIOUS
  <2>0. /\ status \in [Challans -> {"UNUSED", "CONFIRMED", "CANCELLED", "DELETED"}]
        /\ items \in [Challans -> Lines]
        /\ req \in [Requests -> RequestStates]
    BY DEF TypeOK
  (* Steps that write no challan and whose request, if any, is neither *)
  (* a challan form nor a status switch.                               *)
  <2>1. ASSUME UNCHANGED <<status, items>>,
               NEW r \in Requests,
               \/ UNCHANGED req
               \/ /\ \A s \in Requests \ {r} : req'[s] = req[s]
                  /\ req'[r].at \notin {"opened", "statusRead"}
        PROVE  BilledInv'
    BY <2>0, <2>1 DEF BilledInv, NoDoubleBilling, ReinstatesCurrentLines, Live, Exists
  <2>2. ASSUME NEW r \in Requests, NEW c \in Challans,
               NEW to \in {"CONFIRMED", "CANCELLED"}, CreateChallan(r, c, to)
        PROVE  BilledInv'
    <3>1. /\ status' = [status EXCEPT ![c] = to]
          /\ items' = [items EXCEPT ![c] = req[r].lines]
          /\ req' = [req EXCEPT ![r] = Idle]
          /\ status[c] = "UNUSED"
          /\ Unbilled(req[r].lines, {})
      BY <2>2 DEF CreateChallan, Finish
    <3>2. NoDoubleBilling'
      BY <2>0, <3>1 DEF BilledInv, NoDoubleBilling, Live, Unbilled
    <3>3. ReinstatesCurrentLines'
      BY <2>0, <3>1 DEF BilledInv, ReinstatesCurrentLines, Exists, Idle
    <3> QED  BY <3>2, <3>3 DEF BilledInv
  <2>3. ASSUME NEW r \in Requests, SaveChallan(r)
        PROVE  BilledInv'
    <3>1. /\ req[r].c \in Challans
          /\ req[r].at = "opened"
          /\ req[r].to \in {"CONFIRMED", "CANCELLED"}
      BY <2>0, <2>3 DEF SaveChallan, Resume, RequestStates, Drafts, OpenChallans,
                        StatusReads, RowEdits, RowDeletes, Idle
    <3>2. /\ status' = [status EXCEPT ![req[r].c] = req[r].to]
          /\ items' = [items EXCEPT ![req[r].c] = req[r].lines]
          /\ req' = [req EXCEPT ![r] = Idle]
          /\ req[r].to # "CANCELLED" => Unbilled(req[r].lines, {req[r].c})
      BY <2>3 DEF SaveChallan, Finish
    <3>3. NoDoubleBilling'
      BY <2>0, <3>1, <3>2 DEF BilledInv, NoDoubleBilling, Live, Unbilled
    <3>4. "reinstate" \notin Operations
      BY <3>1 DEF BilledInv, ReinstatesCurrentLines, StatusIsSafe
    <3>5. ReinstatesCurrentLines'
      BY <2>0, <3>1, <3>2, <3>4 DEF BilledInv, ReinstatesCurrentLines, Idle
    <3> QED  BY <3>3, <3>5 DEF BilledInv
  <2>4. ASSUME NEW r \in Requests, NEW c \in Challans,
               NEW kept \in SUBSET Dispatches, NEW picked \in SUBSET Dispatches,
               NEW to \in {"CONFIRMED", "CANCELLED"},
               OpenChallan(r, c, kept, picked, to)
        PROVE  BilledInv'
    <3>1. /\ UNCHANGED <<status, items>>
          /\ "update" \in Operations
          /\ req'[r].at = "opened"
          /\ \A s \in Requests \ {r} : req'[s] = req[s]
      BY <2>0, <2>4 DEF OpenChallan, Begin
    <3> QED  BY <2>0, <3>1 DEF BilledInv, NoDoubleBilling, ReinstatesCurrentLines,
                               Live, Exists
  <2>5. ASSUME NEW r \in Requests, NEW c \in Challans,
               NEW to \in {"CONFIRMED", "CANCELLED"}, ReadStatus(r, c, to)
        PROVE  BilledInv'
    <3>1. /\ UNCHANGED <<status, items>>
          /\ \A s \in Requests \ {r} : req'[s] = req[s]
          /\ req'[r] = [at |-> "statusRead", c |-> c, lines |-> items[c],
                        was |-> status[c], to |-> to]
      BY <2>0, <2>5 DEF ReadStatus, Begin
    <3>2. /\ status[c] # "UNUSED"
          /\ to = "CONFIRMED" => status[c] = "CANCELLED" /\ "reinstate" \in Operations
      BY <2>5 DEF ReadStatus, StatusOperation, StatusIsSafe, Exists
    <3>3. NoDoubleBilling'
      BY <3>1 DEF BilledInv, NoDoubleBilling, Live
    <3>4. ReinstatesCurrentLines'
      BY <2>0, <3>1, <3>2 DEF BilledInv, ReinstatesCurrentLines, Exists
    <3> QED  BY <3>3, <3>4 DEF BilledInv
  <2>6. ASSUME NEW r \in Requests, WriteStatus(r)
        PROVE  BilledInv'
    <3>1. /\ req[r].c \in Challans
          /\ req[r].at = "statusRead"
          /\ req[r].to \in {"CONFIRMED", "CANCELLED"}
      BY <2>0, <2>6 DEF WriteStatus, Resume, RequestStates, Drafts, OpenChallans,
                        StatusReads, RowEdits, RowDeletes, Idle
    <3>2. /\ status' = [status EXCEPT ![req[r].c] = req[r].to]
          /\ req' = [req EXCEPT ![r] = Idle]
          /\ UNCHANGED items
          /\ Exists(req[r].c)
          /\ req[r].was = "CANCELLED" /\ req[r].to # "CANCELLED"
               => Unbilled(req[r].lines, {req[r].c})
      BY <2>6 DEF WriteStatus, Finish
    <3>3. req[r].to = "CONFIRMED" => Unbilled(items[req[r].c], {req[r].c})
      BY <3>1, <3>2 DEF BilledInv, ReinstatesCurrentLines
    <3>4. NoDoubleBilling'
      BY <2>0, <3>1, <3>2, <3>3 DEF BilledInv, NoDoubleBilling, Live, Unbilled
    <3>5. ReinstatesCurrentLines'
      BY <2>0, <3>1, <3>2 DEF BilledInv, ReinstatesCurrentLines, Exists, Idle
    <3> QED  BY <3>4, <3>5 DEF BilledInv
  <2>7. ASSUME NEW c \in Challans, RemoveChallan(c)
        PROVE  BilledInv'
    <3>1. /\ status' = [status EXCEPT ![c] = "DELETED"]
          /\ items' = [items EXCEPT ![c] = [d \in Dispatches |-> 0]]
          /\ UNCHANGED req
      BY <2>7 DEF RemoveChallan
    <3> QED  BY <2>0, <3>1 DEF BilledInv, NoDoubleBilling, ReinstatesCurrentLines,
                               Live, Exists
  <2>8. CASE RowStep
    <3>1. ASSUME NEW r \in Requests, CheckEdit(r) \/ SettleEdit(r)
          PROVE  BilledInv'
      <4>1. req[r] \in RowEdits
        BY <2>0, <3>1 DEF CheckEdit, SettleEdit, Resume, RequestStates, Drafts,
                          OpenChallans, StatusReads, RowEdits, RowDeletes, Idle
      <4> QED  BY <2>0, <2>1, <3>1, <4>1 DEF CheckEdit, SettleEdit, Continue, RowEdits
    <3>2. ASSUME NEW r \in Requests, CheckDelete(r)
          PROVE  BilledInv'
      <4>1. req[r] \in RowDeletes
        BY <2>0, <3>2 DEF CheckDelete, Resume, RequestStates, Drafts,
                          OpenChallans, StatusReads, RowEdits, RowDeletes, Idle
      <4> QED  BY <2>0, <2>1, <3>2, <4>1 DEF CheckDelete, Continue, RowDeletes
    <3>3. ASSUME NEW r \in Requests, WriteEdit(r) \/ DeleteRow(r)
          PROVE  BilledInv'
      BY <2>0, <2>1, <3>3 DEF WriteEdit, DeleteRow, Finish, Idle
    <3>4. ASSUME NEW r \in Requests, NEW d \in Dispatches,
                 \/ \E want \in Quantities : StartEdit(r, d, want)
                 \/ StartStatusEdit(r, d)
                 \/ StartDelete(r, d)
          PROVE  BilledInv'
      BY <2>0, <2>1, <3>4 DEF StartEdit, StartStatusEdit, StartDelete, Begin
    <3>5. ASSUME NEW d \in Dispatches, InsertDispatch(d)
          PROVE  BilledInv'
      BY <2>0, <3>5 DEF InsertDispatch, BilledInv, NoDoubleBilling,
                        ReinstatesCurrentLines, Live, Exists
    <3> QED  BY <2>8, <3>1, <3>2, <3>3, <3>4, <3>5, Zenon DEF RowStep
  <2>9. ASSUME NEW r \in Requests, NEW picked \in SUBSET Dispatches,
               DraftChallan(r, picked)
        PROVE  BilledInv'
    BY <2>0, <2>1, <2>9 DEF DraftChallan, Begin
  <2>10. ASSUME NEW r \in Requests, Drop(r)
         PROVE  BilledInv'
    BY <2>0, <2>1, <2>10 DEF Drop, Finish, Idle
  <2>11. CASE UNCHANGED vars
    BY <2>11 DEF vars, BilledInv, NoDoubleBilling, ReinstatesCurrentLines, Live, Exists
  <2>12. CASE ChallanStep
    BY <2>12, <2>2, <2>3, <2>4, <2>5, <2>6, <2>7, <2>9, Zenon DEF ChallanStep
  <2> QED  BY <2>8, <2>10, <2>11, <2>12 DEF Next
<1>3. BilledInv => NoDoubleBilling
  BY DEF BilledInv
<1> QED
  BY <1>1, <1>2, <1>3, GoodsTypeCorrect, PTL DEF Spec

-----------------------------------------------------------------------------
(* One screen at work.  What it has read is still so when it writes.       *)

AsShipped(lines) ==
  \A d \in Dispatches : lines[d] # 0 => life[d] = "live" /\ qty[d] = lines[d]

(* What a request remembers agrees with the rows and challans there are:   *)
(* what it is about to bill was shipped, and what it is about to change or *)
(* delete is not billed.                                                   *)
AsRead(s) ==
  /\ s.at = "drafted" => AsShipped(s.lines)
  /\ s.at = "opened" /\ s.to = "CONFIRMED" => AsShipped(s.lines)
  /\ s.at = "statusRead" /\ s.to = "CONFIRMED" => status[s.c] # "CANCELLED"
  /\ s.at \in {"editRead", "editChecked"} => s.saw = qty[s.d]
  /\ s.at \in {"editChecked", "editReady"} => s.want = qty[s.d] \/ ~Billed(s.d)
  /\ s.at = "deleteChecked" => ~Billed(s.d)

OneBusy == \A r, s \in Requests : req[r] # Idle /\ req[s] # Idle => r = s

ScreenInv == BilledAsShipped /\ OneBusy /\ \A r \in Requests : AsRead(req[r])

(* One request starts, goes on or ends, and the others rest. *)
LEMMA OneMoves ==
  ASSUME TypeOK, ScreenInv, NEW r \in Requests, NEW s, req' = [req EXCEPT ![r] = s],
         req[r] # Idle \/ Busy = {},
         AsRead(s)', BilledAsShipped'
  PROVE  ScreenInv'
<1>1. req'[r] = s /\ \A q \in Requests \ {r} : req'[q] = req[q]
  BY DEF TypeOK
<1>2. \A q \in Requests \ {r} : req[q] = Idle
  BY DEF ScreenInv, OneBusy, Busy
<1>3. OneBusy'
  BY <1>1, <1>2 DEF OneBusy
<1>4. AsRead(Idle)'
  BY DEF AsRead, Idle
<1>5. \A q \in Requests : AsRead(req[q])'
  BY <1>1, <1>2, <1>4
<1> QED  BY <1>3, <1>5 DEF ScreenInv

(* A step that writes neither rows nor challans leaves what is billed and  *)
(* what has been read as they are. *)
LEMMA ReadsStand ==
  ASSUME BilledAsShipped, UNCHANGED <<life, qty, status, items>>
  PROVE  BilledAsShipped' /\ \A s : AsRead(s)' <=> AsRead(s)
BY DEF BilledAsShipped, AsRead, AsShipped, Billed, Live

(* The screen starts something. *)
LEMMA ScreenStarts ==
  ASSUME TypeOK, ScreenInv, NEW r \in Requests, NEW s, s.at # "idle", Begin(r, s), AsRead(s),
         Started # {} => Busy = {}, UNCHANGED <<life, qty, status, items>>
  PROVE  ScreenInv'
<1>1. s # Idle /\ req[r] = Idle /\ req' = [req EXCEPT ![r] = s]
  BY DEF Idle, Begin
<1>2. r \in Started
  BY <1>1 DEF Started, TypeOK
<1>3. AsRead(s)' /\ BilledAsShipped'
  BY ReadsStand DEF ScreenInv
<1> QED  BY <1>1, <1>2, <1>3, OneMoves

(* What an edit of a row remembers, and what a deletion does. *)
LEMMA RowRequests ==
  ASSUME TypeOK, NEW r \in Requests
  PROVE  /\ req[r].at \in {"editRead", "editChecked", "editReady"} =>
              req[r] \in RowEdits /\ req[r] # Idle /\ req[r].d \in Dispatches
         /\ req[r].at \in {"deleteRead", "deleteChecked"} =>
              req[r] \in RowDeletes /\ req[r] # Idle /\ req[r].d \in Dispatches
<1>1. req[r] \in RequestStates
  BY DEF TypeOK
<1> QED  BY <1>1 DEF RequestStates, Idle, Drafts, OpenChallans, StatusReads, RowEdits, RowDeletes

(* What a challan form remembers, and what a status switch does. *)
LEMMA ChallanRequests ==
  ASSUME TypeOK, NEW r \in Requests
  PROVE  /\ req[r].at = "drafted" => req[r] # Idle /\ req[r].lines \in Lines
         /\ req[r].at = "opened" =>
              /\ req[r] # Idle /\ req[r].c \in Challans /\ req[r].lines \in Lines
              /\ req[r].to \in {"CONFIRMED", "CANCELLED"}
         /\ req[r].at = "statusRead" =>
              /\ req[r] # Idle /\ req[r].c \in Challans
              /\ req[r].to \in {"CONFIRMED", "CANCELLED"}
<1>1. req[r] \in RequestStates
  BY DEF TypeOK
<1> QED  BY <1>1 DEF RequestStates, Idle, Drafts, OpenChallans, StatusReads, RowEdits, RowDeletes

(* Idle remembers nothing. *)
LEMMA IdleRead == AsRead(Idle) /\ AsRead(Idle)'
BY DEF AsRead, Idle

(* One screen at work on the rows. *)
LEMMA ScreenOnRows ==
  ASSUME TypeOK, ScreenInv, RowStep, Started # {} => Busy = {}
  PROVE  ScreenInv'
<1>0. /\ life \in [Dispatches -> {"unborn", "live", "deleted"}]
      /\ qty \in [Dispatches -> Quantities]
      /\ req \in [Requests -> RequestStates]
      /\ BilledAsShipped /\ \A r \in Requests : AsRead(req[r])
  BY DEF TypeOK, ScreenInv
<1>1. ASSUME NEW d \in Dispatches, InsertDispatch(d)
      PROVE  ScreenInv'
  <2>1. BilledAsShipped' /\ \A s : AsRead(s) => AsRead(s)'
    BY <1>0, <1>1 DEF InsertDispatch, BilledAsShipped, AsRead, AsShipped, Billed, Live
  <2> QED  BY <1>1, <2>1 DEF InsertDispatch, ScreenInv, OneBusy
<1>2. ASSUME NEW r \in Requests, NEW d \in Dispatches, NEW want \in Quantities,
             StartEdit(r, d, want)
      PROVE  ScreenInv'
  <2> DEFINE s == [at |-> "editRead", d |-> d, saw |-> qty[d], want |-> want]
  <2>1. s.at # "idle" /\ AsRead(s)
    BY DEF AsRead
  <2>2. Begin(r, s) /\ UNCHANGED <<life, qty, status, items>>
    BY <1>2 DEF StartEdit
  <2> HIDE DEF s
  <2> QED  BY <2>1, <2>2, ScreenStarts
<1>3. ASSUME NEW r \in Requests, NEW d \in Dispatches, StartStatusEdit(r, d)
      PROVE  ScreenInv'
  <2> DEFINE s == [at |-> "editChecked", d |-> d, saw |-> qty[d], want |-> qty[d]]
  <2>1. s.at # "idle" /\ AsRead(s)
    BY DEF AsRead
  <2>2. Begin(r, s) /\ UNCHANGED <<life, qty, status, items>>
    BY <1>3 DEF StartStatusEdit
  <2> HIDE DEF s
  <2> QED  BY <2>1, <2>2, ScreenStarts
<1>4. ASSUME NEW r \in Requests, CheckEdit(r)
      PROVE  ScreenInv'
  <2> DEFINE s == [req[r] EXCEPT !.at = "editChecked"]
  <2>1. req[r].at = "editRead" /\ req[r] \in RowEdits /\ req[r] # Idle /\ ~Billed(req[r].d)
    BY <1>4, RowRequests DEF CheckEdit, Resume
  <2>2. s.at = "editChecked" /\ s.d = req[r].d /\ s.saw = req[r].saw
    BY <2>1 DEF RowEdits
  <2>3. req' = [req EXCEPT ![r] = s] /\ UNCHANGED <<life, qty, status, items>>
    BY <1>0, <1>4 DEF CheckEdit, Continue
  <2> HIDE DEF s
  <2>4. AsRead(s)
    BY <1>0, <2>1, <2>2 DEF AsRead
  <2> QED  BY <1>0, <2>1, <2>3, <2>4, ReadsStand, OneMoves
<1>5. ASSUME NEW r \in Requests, SettleEdit(r)
      PROVE  ScreenInv'
  <2> DEFINE s == [req[r] EXCEPT !.at = "editReady",
                                 !.want = IF Billed(req[r].d) THEN req[r].saw ELSE @]
  <2>1. req[r].at = "editChecked" /\ req[r] \in RowEdits /\ req[r] # Idle
    BY <1>5, RowRequests DEF SettleEdit, Resume
  <2>2. /\ s.at = "editReady" /\ s.d = req[r].d
        /\ s.want = IF Billed(req[r].d) THEN req[r].saw ELSE req[r].want
    BY <2>1 DEF RowEdits
  <2>3. req' = [req EXCEPT ![r] = s] /\ UNCHANGED <<life, qty, status, items>>
    BY <1>0, <1>5 DEF SettleEdit
  <2> HIDE DEF s
  <2>4. AsRead(s)
    BY <1>0, <2>1, <2>2 DEF AsRead
  <2> QED  BY <1>0, <2>1, <2>3, <2>4, ReadsStand, OneMoves
<1>6. ASSUME NEW r \in Requests, WriteEdit(r)
      PROVE  ScreenInv'
  <2>1. /\ req[r].at = "editReady" /\ req[r] # Idle /\ req[r].d \in Dispatches
        /\ req[r].want = qty[req[r].d] \/ ~Billed(req[r].d)
    BY <1>0, <1>6, RowRequests DEF WriteEdit, Resume, AsRead
  <2>2. /\ qty' = [qty EXCEPT ![req[r].d] = req[r].want]
        /\ req' = [req EXCEPT ![r] = Idle] /\ UNCHANGED <<life, status, items>>
    BY <1>6 DEF WriteEdit, Finish
  <2>3. BilledAsShipped'
    BY <1>0, <2>1, <2>2 DEF BilledAsShipped, Billed, Live
  <2> QED  BY <2>1, <2>2, <2>3, IdleRead, OneMoves
<1>7. ASSUME NEW r \in Requests, NEW d \in Dispatches, StartDelete(r, d)
      PROVE  ScreenInv'
  <2> DEFINE s == [at |-> "deleteRead", d |-> d]
  <2>1. s.at # "idle" /\ AsRead(s)
    BY DEF AsRead
  <2>2. Begin(r, s) /\ UNCHANGED <<life, qty, status, items>>
    BY <1>7 DEF StartDelete
  <2> HIDE DEF s
  <2> QED  BY <2>1, <2>2, ScreenStarts
<1>8. ASSUME NEW r \in Requests, CheckDelete(r)
      PROVE  ScreenInv'
  <2> DEFINE s == [req[r] EXCEPT !.at = "deleteChecked"]
  <2>1. req[r].at = "deleteRead" /\ req[r] \in RowDeletes /\ req[r] # Idle /\ ~Billed(req[r].d)
    BY <1>8, RowRequests DEF CheckDelete, Resume
  <2>2. s.at = "deleteChecked" /\ s.d = req[r].d
    BY <2>1 DEF RowDeletes
  <2>3. req' = [req EXCEPT ![r] = s] /\ UNCHANGED <<life, qty, status, items>>
    BY <1>0, <1>8 DEF CheckDelete, Continue
  <2> HIDE DEF s
  <2>4. AsRead(s)
    BY <2>1, <2>2 DEF AsRead
  <2> QED  BY <1>0, <2>1, <2>3, <2>4, ReadsStand, OneMoves
<1>9. ASSUME NEW r \in Requests, DeleteRow(r)
      PROVE  ScreenInv'
  <2>1. req[r].at = "deleteChecked" /\ req[r] # Idle /\ req[r].d \in Dispatches
    BY <1>9, RowRequests DEF DeleteRow, Resume
  <2>2. ~Billed(req[r].d)
    BY <1>0, <2>1 DEF AsRead
  <2>3. /\ life' = [life EXCEPT ![req[r].d] = "deleted"]
        /\ req' = [req EXCEPT ![r] = Idle] /\ UNCHANGED <<qty, status, items>>
    BY <1>9 DEF DeleteRow, Finish
  <2>4. BilledAsShipped'
    BY <1>0, <2>1, <2>2, <2>3 DEF BilledAsShipped, Billed, Live
  <2> QED  BY <2>1, <2>3, <2>4, IdleRead, OneMoves
<1> QED  BY <1>1, <1>2, <1>3, <1>4, <1>5, <1>6, <1>7, <1>8, <1>9 DEF RowStep

(* One screen at work on the challans, reinstating none. *)
LEMMA ScreenOnChallans ==
  ASSUME TypeOK, ScreenInv, ChallanStep, Started # {} => Busy = {}, Reviving = {}
  PROVE  ScreenInv'
<1>0. /\ life \in [Dispatches -> {"unborn", "live", "deleted"}]
      /\ qty \in [Dispatches -> Quantities]
      /\ status \in [Challans -> {"UNUSED", "CONFIRMED", "CANCELLED", "DELETED"}]
      /\ items \in [Challans -> Lines]
      /\ req \in [Requests -> RequestStates]
      /\ BilledAsShipped /\ \A r \in Requests : AsRead(req[r])
  BY DEF TypeOK, ScreenInv
<1>1. ASSUME NEW r \in Requests, NEW picked \in SUBSET Dispatches, DraftChallan(r, picked)
      PROVE  ScreenInv'
  <2> DEFINE s == [at |-> "drafted",
                   lines |-> [d \in Dispatches |-> IF d \in picked THEN qty[d] ELSE 0]]
  <2>1. s.at # "idle" /\ AsRead(s)
    BY <1>1 DEF AsRead, AsShipped, DraftChallan, Pending
  <2>2. Begin(r, s) /\ UNCHANGED <<life, qty, status, items>>
    BY <1>1 DEF DraftChallan
  <2> HIDE DEF s
  <2> QED  BY <2>1, <2>2, ScreenStarts
<1>2. ASSUME NEW r \in Requests, NEW c \in Challans, NEW to \in {"CONFIRMED", "CANCELLED"},
             CreateChallan(r, c, to)
      PROVE  ScreenInv'
  <2>1. /\ req[r] # Idle /\ req[r].lines \in Lines /\ AsShipped(req[r].lines)
    BY <1>0, <1>2, ChallanRequests DEF CreateChallan, Resume, AsRead
  <2>2. /\ status' = [status EXCEPT ![c] = to] /\ items' = [items EXCEPT ![c] = req[r].lines]
        /\ req' = [req EXCEPT ![r] = Idle] /\ UNCHANGED <<life, qty>>
    BY <1>2 DEF CreateChallan, Finish
  <2>3. BilledAsShipped'
    BY <1>0, <2>1, <2>2 DEF BilledAsShipped, AsShipped, Live
  <2> QED  BY <2>1, <2>2, <2>3, IdleRead, OneMoves
<1>3. ASSUME NEW r \in Requests, NEW c \in Challans, NEW kept \in SUBSET Dispatches,
             NEW picked \in SUBSET Dispatches, NEW to \in {"CONFIRMED", "CANCELLED"},
             OpenChallan(r, c, kept, picked, to)
      PROVE  ScreenInv'
  <2> DEFINE lines == [d \in Dispatches |-> IF d \in kept THEN items[c][d]
                                            ELSE IF d \in picked THEN qty[d] ELSE 0]
             s == [at |-> "opened", c |-> c, to |-> to, lines |-> lines]
  <2>1. Begin(r, s) /\ UNCHANGED <<life, qty, status, items>> /\ Exists(c) /\ picked \subseteq Pending
    BY <1>3 DEF OpenChallan
  <2>2. r \in Started /\ req'[r] = s
    BY <1>0, <2>1 DEF Started, Begin, Idle
  <2>3. to = "CONFIRMED" => Live(c)
    <3>1. r \notin Reviving
      OBVIOUS
    <3> QED  BY <2>1, <2>2, <3>1 DEF Reviving, Exists, Live
  <2>4. to = "CONFIRMED" => AsShipped(lines)
    BY <1>0, <2>1, <2>3 DEF AsShipped, BilledAsShipped, Pending
  <2> HIDE DEF lines
  <2>5. s.at # "idle" /\ AsRead(s)
    BY <2>4 DEF AsRead
  <2> HIDE DEF s
  <2> QED  BY <2>1, <2>5, ScreenStarts
<1>4. ASSUME NEW r \in Requests, SaveChallan(r)
      PROVE  ScreenInv'
  <2>1. /\ req[r] # Idle /\ req[r].c \in Challans /\ req[r].lines \in Lines
        /\ req[r].to \in {"CONFIRMED", "CANCELLED"}
        /\ req[r].to = "CONFIRMED" => AsShipped(req[r].lines)
    BY <1>0, <1>4, ChallanRequests DEF SaveChallan, Resume, AsRead
  <2>2. /\ status' = [status EXCEPT ![req[r].c] = req[r].to]
        /\ items' = [items EXCEPT ![req[r].c] = req[r].lines]
        /\ req' = [req EXCEPT ![r] = Idle] /\ UNCHANGED <<life, qty>>
    BY <1>4 DEF SaveChallan, Finish
  <2>3. BilledAsShipped'
    BY <1>0, <2>1, <2>2 DEF BilledAsShipped, AsShipped, Live
  <2> QED  BY <2>1, <2>2, <2>3, IdleRead, OneMoves
<1>5. ASSUME NEW r \in Requests, NEW c \in Challans, NEW to \in {"CONFIRMED", "CANCELLED"},
             ReadStatus(r, c, to)
      PROVE  ScreenInv'
  <2> DEFINE s == [at |-> "statusRead", c |-> c, lines |-> items[c],
                   was |-> status[c], to |-> to]
  <2>1. Begin(r, s) /\ UNCHANGED <<life, qty, status, items>> /\ Exists(c)
    BY <1>5 DEF ReadStatus
  <2>2. r \in Started /\ req'[r] = s
    BY <1>0, <2>1 DEF Started, Begin, Idle
  <2>3. to = "CONFIRMED" => status[c] # "CANCELLED"
    <3>1. r \notin Reviving
      OBVIOUS
    <3> QED  BY <2>2, <3>1 DEF Reviving
  <2>4. s.at # "idle" /\ AsRead(s)
    BY <2>3 DEF AsRead
  <2> HIDE DEF s
  <2> QED  BY <2>1, <2>4, ScreenStarts
<1>6. ASSUME NEW r \in Requests, WriteStatus(r)
      PROVE  ScreenInv'
  <2>1. /\ req[r] # Idle /\ req[r].c \in Challans /\ req[r].to \in {"CONFIRMED", "CANCELLED"}
        /\ req[r].to = "CONFIRMED" => status[req[r].c] # "CANCELLED"
    BY <1>0, <1>6, ChallanRequests DEF WriteStatus, Resume, AsRead
  <2>2. /\ status' = [status EXCEPT ![req[r].c] = req[r].to] /\ Exists(req[r].c)
        /\ req' = [req EXCEPT ![r] = Idle] /\ UNCHANGED <<life, qty, items>>
    BY <1>6 DEF WriteStatus, Finish
  <2>3. BilledAsShipped'
    BY <1>0, <2>1, <2>2 DEF BilledAsShipped, Live, Exists
  <2> QED  BY <2>1, <2>2, <2>3, IdleRead, OneMoves
<1>7. ASSUME NEW c \in Challans, RemoveChallan(c)
      PROVE  ScreenInv'
  <2>1. /\ status' = [status EXCEPT ![c] = "DELETED"]
        /\ items' = [items EXCEPT ![c] = [d \in Dispatches |-> 0]]
        /\ UNCHANGED <<life, qty, req>>
    BY <1>7 DEF RemoveChallan
  <2>2. \A d : Billed(d)' => Billed(d)
    BY <1>0, <2>1 DEF Billed, Live
  <2>3. BilledAsShipped'
    BY <1>0, <2>1 DEF BilledAsShipped, Live
  <2>4. ASSUME NEW r \in Requests PROVE AsRead(req[r])'
    <3>1. req[r].at = "statusRead" => req[r].c \in Challans
      BY ChallanRequests
    <3>2. req'[r] = req[r] /\ AsRead(req[r])
      BY <1>0, <2>1
    <3> QED  BY <1>0, <2>1, <2>2, <3>1, <3>2 DEF AsRead, AsShipped
  <2> QED  BY <2>1, <2>3, <2>4 DEF ScreenInv, OneBusy
<1> QED  BY <1>1, <1>2, <1>3, <1>4, <1>5, <1>6, <1>7, Zenon DEF ChallanStep

(* Who may not reinstate starts no form and no switch that would. *)
LEMMA NothingRevived ==
  ASSUME TypeOK, ChallanStep, "reinstate" \notin Operations
  PROVE  Reviving = {}
<1>0. req \in [Requests -> RequestStates]
  BY DEF TypeOK
<1>1. SUFFICES ASSUME NEW r \in Reviving PROVE FALSE
  OBVIOUS
<1>2. /\ r \in Requests /\ req[r] = Idle /\ req'[r] # Idle
      /\ req'[r].at \in {"opened", "statusRead"}
      /\ status[req'[r].c] = "CANCELLED" /\ req'[r].to = "CONFIRMED"
  BY <1>1 DEF Reviving, Started
<1>3. ASSUME NEW q \in Requests, NEW picked \in SUBSET Dispatches, DraftChallan(q, picked)
      PROVE  FALSE
  BY <1>0, <1>2, <1>3 DEF DraftChallan, Begin
<1>4. ASSUME NEW q \in Requests, NEW c \in Challans, NEW kept \in SUBSET Dispatches,
             NEW picked \in SUBSET Dispatches, NEW to \in {"CONFIRMED", "CANCELLED"},
             OpenChallan(q, c, kept, picked, to)
      PROVE  FALSE
  <2> DEFINE lines == [d \in Dispatches |-> IF d \in kept THEN items[c][d]
                                            ELSE IF d \in picked THEN qty[d] ELSE 0]
             s == [at |-> "opened", c |-> c, to |-> to, lines |-> lines]
  <2>1. Begin(q, s) /\ ~(status[c] = "CANCELLED" /\ to = "CONFIRMED")
    BY <1>4 DEF OpenChallan
  <2>2. s.c = c /\ s.to = to
    OBVIOUS
  <2> HIDE DEF s
  <2> QED  BY <1>0, <1>2, <2>1, <2>2 DEF Begin
<1>5. ASSUME NEW q \in Requests, NEW c \in Challans, NEW to \in {"CONFIRMED", "CANCELLED"},
             ReadStatus(q, c, to)
      PROVE  FALSE
  <2> DEFINE s == [at |-> "statusRead", c |-> c, lines |-> items[c],
                   was |-> status[c], to |-> to]
  <2>1. Begin(q, s) /\ ~(status[c] = "CANCELLED" /\ to = "CONFIRMED")
    BY <1>5 DEF ReadStatus, StatusOperation
  <2>2. s.c = c /\ s.to = to
    OBVIOUS
  <2> HIDE DEF s
  <2> QED  BY <1>0, <1>2, <2>1, <2>2 DEF Begin
<1>6. ASSUME NEW q \in Requests,
             \/ SaveChallan(q) \/ WriteStatus(q)
             \/ \E c \in Challans, to \in {"CONFIRMED", "CANCELLED"} : CreateChallan(q, c, to)
      PROVE  FALSE
  BY <1>0, <1>2, <1>6 DEF SaveChallan, WriteStatus, CreateChallan, Finish
<1>7. ASSUME NEW c \in Challans, RemoveChallan(c) PROVE FALSE
  BY <1>0, <1>2, <1>7 DEF RemoveChallan
<1> QED  BY <1>3, <1>4, <1>5, <1>6, <1>7, Zenon DEF ChallanStep

(* Where one screen is at work and no cancelled challan is confirmed       *)
(* again, a live challan bills goods whose row still exists and still      *)
(* carries what is billed (assertNotBilled), for any number of rows and    *)
(* challans; the party's money meanwhile does what it likes.               *)
THEOREM OneScreenIsSafe == BillsSpec => []OneScreenBillsAsShipped
<1> DEFINE Inv == TypeOK /\ (part = "screen" => ScreenInv)
<1>1. BillsInit => Inv
  <2>1. Init => ScreenInv
    BY DEF Init, ScreenInv, BilledAsShipped, Live, OneBusy, AsRead, Idle
  <2> QED  BY <2>1, GoodsTyped DEF BillsInit
<1>2. Inv /\ [BillsNext]_billsVars => Inv'
  <2> SUFFICES ASSUME Inv, [BillsNext]_billsVars PROVE Inv'
    OBVIOUS
  <2>1. CASE Next /\ (Screen \/ Screens) /\ UNCHANGED part
    <3>1. TypeOK'
      BY <2>1, GoodsTyped
    <3>2. ASSUME part = "screen" PROVE ScreenInv'
      <4>1. Started # {} => Busy = {}
        BY <2>1, <3>2 DEF Screen, Screens
      <4>2. Reviving = {}
        BY <2>1, <3>2 DEF Screen, Screens
      <4>3. TypeOK /\ ScreenInv
        BY <3>2
      <4>4. ASSUME NEW r \in Requests, Drop(r) PROVE ScreenInv'
        BY <4>3, <4>4, ReadsStand, IdleRead, OneMoves DEF Drop, Finish, ScreenInv
      <4> QED  BY <2>1, <4>1, <4>2, <4>3, <4>4, ScreenOnRows, ScreenOnChallans DEF Next
    <3> QED  BY <2>1, <3>1, <3>2
  <2>2. CASE UNCHANGED <<vars, part>>
    BY <2>2 DEF vars, TypeOK, ScreenInv, BilledAsShipped, Live, OneBusy, AsRead, AsShipped, Billed
  <2>3. (Next /\ (Screen \/ Screens) /\ UNCHANGED part) \/ UNCHANGED <<vars, part>>
    BY DEF BillsNext, billsVars
  <2> QED  BY <2>1, <2>2, <2>3
<1>3. Inv => OneScreenBillsAsShipped
  BY DEF ScreenInv, OneScreenBillsAsShipped
<1> QED  BY <1>1, <1>2, <1>3, PTL DEF BillsSpec

(* The same of the services alone: what a live challan bills was shipped,  *)
(* where one request is at work at a time and no cancelled challan is      *)
(* confirmed again.  Two requests break it between assertNotBilled and the *)
(* write that follows it, a reinstatement by checking no row.              *)
THEOREM OneByOneBillsAsShipped ==
  ASSUME \A r, s \in Requests : r = s, "reinstate" \notin Operations
  PROVE  Spec => []BilledAsShipped
<1>1. Init => ScreenInv
  BY DEF Init, ScreenInv, BilledAsShipped, Live, OneBusy, AsRead, Idle
<1>2. TypeOK /\ ScreenInv /\ [Next]_vars => ScreenInv'
  <2> SUFFICES ASSUME TypeOK, ScreenInv, [Next]_vars PROVE ScreenInv'
    OBVIOUS
  <2>1. Started # {} => Busy = {}
    BY DEF Started, Busy
  <2>2. CASE RowStep
    BY <2>1, <2>2, ScreenOnRows
  <2>3. CASE ChallanStep
    <3>1. Reviving = {}
      BY <2>3, NothingRevived
    <3> QED  BY <2>1, <2>3, <3>1, ScreenOnChallans
  <2>4. ASSUME NEW r \in Requests, Drop(r) PROVE ScreenInv'
    BY <2>4, ReadsStand, IdleRead, OneMoves DEF Drop, Finish, ScreenInv
  <2>5. CASE UNCHANGED vars
    BY <2>5 DEF vars, ScreenInv, BilledAsShipped, Live, OneBusy, AsRead, AsShipped, Billed
  <2> QED  BY <2>2, <2>3, <2>4, <2>5 DEF Next
<1>3. ScreenInv => BilledAsShipped
  BY DEF ScreenInv
<1> QED  BY <1>1, <1>2, <1>3, GoodsTypeCorrect, PTL DEF Spec

-----------------------------------------------------------------------------
(* Challans alone, over rows nobody touches: what is billed, what any      *)
(* form holds, and even what a cancelled challan would bill again.         *)
RowsStand ==
  /\ \A c \in Challans : AsShipped(items[c])
  /\ \A r \in Requests :
       /\ req[r].at \in {"idle", "drafted", "opened", "statusRead"}
       /\ req[r].at \in {"drafted", "opened"} => AsShipped(req[r].lines)

(* Where rows are neither edited nor deleted, whatever number of screens   *)
(* create, edit, cancel, reinstate and remove challans at once, a live     *)
(* challan bills what was shipped.  So it is DispatchService.update and    *)
(* remove, not the challan service's own races, that part a bill from its  *)
(* row.                                                                    *)
THEOREM UntouchedRowsAreBilledAsShipped ==
  ASSUME "edit" \notin Operations, "delete" \notin Operations
  PROVE  Spec => []BilledAsShipped
<1>1. Init => RowsStand
  BY DEF Init, RowsStand, AsShipped, Idle
<1>2. TypeOK /\ RowsStand /\ [Next]_vars => RowsStand'
  <2> SUFFICES ASSUME TypeOK, RowsStand, [Next]_vars PROVE RowsStand'
    OBVIOUS
  <2>0. /\ life \in [Dispatches -> {"unborn", "live", "deleted"}]
        /\ items \in [Challans -> Lines]
        /\ req \in [Requests -> RequestStates]
    BY DEF TypeOK
  (* A request that writes nothing holds what was shipped. *)
  <2>1. ASSUME NEW r \in Requests, NEW s, UNCHANGED <<life, qty, items>>,
               req' = [req EXCEPT ![r] = s],
               s.at \in {"idle", "drafted", "opened", "statusRead"},
               s.at \in {"drafted", "opened"} => AsShipped(s.lines)
        PROVE  RowsStand'
    BY <2>0, <2>1 DEF RowsStand, AsShipped
  (* A challan is written with what its request held. *)
  <2>2. ASSUME NEW r \in Requests, NEW c \in Challans, UNCHANGED <<life, qty>>,
               req[r].at \in {"drafted", "opened"}, Finish(r),
               items' = [items EXCEPT ![c] = req[r].lines]
        PROVE  RowsStand'
    <3>1. /\ \A b \in Challans : AsShipped(items[b])
          /\ AsShipped(req[r].lines)
          /\ \A q \in Requests : /\ req[q].at \in {"idle", "drafted", "opened", "statusRead"}
                                /\ req[q].at \in {"drafted", "opened"} => AsShipped(req[q].lines)
      BY <2>2 DEF RowsStand
    <3>2. \A b \in Challans : AsShipped(items[b])'
      BY <2>0, <2>2, <3>1 DEF AsShipped
    <3>3. \A q \in Requests : req'[q] = Idle \/ req'[q] = req[q]
      BY <2>0, <2>2 DEF Finish
    <3> QED  BY <2>2, <3>1, <3>2, <3>3 DEF RowsStand, AsShipped, Idle
  <2>3. ASSUME NEW d \in Dispatches, InsertDispatch(d) PROVE RowsStand'
    BY <2>0, <2>3 DEF InsertDispatch, RowsStand, AsShipped
  <2>4. CASE RowStep
    BY <2>3, <2>4 DEF RowStep, StartEdit, StartStatusEdit, CheckEdit, SettleEdit, WriteEdit,
                      StartDelete, CheckDelete, DeleteRow, Resume, RowsStand
  <2>5. ASSUME NEW r \in Requests, NEW picked \in SUBSET Dispatches, DraftChallan(r, picked)
        PROVE  RowsStand'
    <3> DEFINE s == [at |-> "drafted",
                     lines |-> [d \in Dispatches |-> IF d \in picked THEN qty[d] ELSE 0]]
    <3>1. s.at = "drafted" /\ AsShipped(s.lines)
      BY <2>5 DEF AsShipped, DraftChallan, Pending
    <3>2. req' = [req EXCEPT ![r] = s] /\ UNCHANGED <<life, qty, items>>
      BY <2>5 DEF DraftChallan, Begin
    <3> HIDE DEF s
    <3> QED  BY <2>1, <3>1, <3>2
  <2>6. ASSUME NEW r \in Requests, NEW c \in Challans, NEW to \in {"CONFIRMED", "CANCELLED"},
               CreateChallan(r, c, to)
        PROVE  RowsStand'
    BY <2>2, <2>6 DEF CreateChallan, Resume
  <2>7. ASSUME NEW r \in Requests, NEW c \in Challans, NEW kept \in SUBSET Dispatches,
               NEW picked \in SUBSET Dispatches, NEW to \in {"CONFIRMED", "CANCELLED"},
               OpenChallan(r, c, kept, picked, to)
        PROVE  RowsStand'
    <3> DEFINE lines == [d \in Dispatches |-> IF d \in kept THEN items[c][d]
                                              ELSE IF d \in picked THEN qty[d] ELSE 0]
               s == [at |-> "opened", c |-> c, to |-> to, lines |-> lines]
    <3>1. AsShipped(lines)
      BY <2>7 DEF AsShipped, OpenChallan, Pending, RowsStand
    <3> HIDE DEF lines
    <3>2. s.at = "opened" /\ AsShipped(s.lines)
      BY <3>1
    <3>3. req' = [req EXCEPT ![r] = s] /\ UNCHANGED <<life, qty, items>>
      BY <2>7 DEF OpenChallan, Begin, lines
    <3> HIDE DEF s
    <3> QED  BY <2>1, <3>2, <3>3
  <2>8. ASSUME NEW r \in Requests, SaveChallan(r) PROVE RowsStand'
    <3>1. req[r].at = "opened" /\ req[r].c \in Challans
      BY <2>8, ChallanRequests DEF SaveChallan, Resume
    <3> QED  BY <2>2, <2>8, <3>1 DEF SaveChallan
  <2>9. ASSUME NEW r \in Requests, NEW c \in Challans, NEW to \in {"CONFIRMED", "CANCELLED"},
               ReadStatus(r, c, to)
        PROVE  RowsStand'
    <3> DEFINE s == [at |-> "statusRead", c |-> c, lines |-> items[c],
                     was |-> status[c], to |-> to]
    <3>1. s.at = "statusRead"
      OBVIOUS
    <3>2. req' = [req EXCEPT ![r] = s] /\ UNCHANGED <<life, qty, items>>
      BY <2>9 DEF ReadStatus, Begin
    <3> HIDE DEF s
    <3> QED  BY <2>1, <3>1, <3>2
  <2>10. ASSUME NEW r \in Requests, WriteStatus(r) \/ Drop(r) PROVE RowsStand'
    BY <2>1, <2>10 DEF WriteStatus, Drop, Finish, Idle
  <2>11. ASSUME NEW c \in Challans, RemoveChallan(c) PROVE RowsStand'
    BY <2>0, <2>11 DEF RemoveChallan, RowsStand, AsShipped
  <2>12. CASE ChallanStep
    BY <2>12, <2>5, <2>6, <2>7, <2>8, <2>9, <2>10, <2>11, Zenon DEF ChallanStep
  <2>13. CASE UNCHANGED vars
    BY <2>13 DEF vars, RowsStand, AsShipped
  <2> QED  BY <2>4, <2>10, <2>12, <2>13 DEF Next
<1>3. RowsStand => BilledAsShipped
  BY DEF RowsStand, BilledAsShipped, AsShipped
<1> QED  BY <1>1, <1>2, <1>3, GoodsTypeCorrect, PTL DEF Spec

(***************************************************************************)
(* The money.  Receipts and Notes are functions of the books, built from   *)
(* folds over rows, pots and receipts; what follows says of each what it   *)
(* may change, in the order they are built, up to the operations.          *)
(***************************************************************************)
(***************************************************************************)
(* Sequences and the folds over them.                                      *)
(***************************************************************************)
(* What Among keeps of a sequence: the elements of it that are in S, and   *)
(* if no element comes twice there, none does here.                        *)
LEMMA AmongOf ==
  ASSUME NEW T, NEW s \in Seq(T), NEW S
  PROVE  /\ Among(s, S) \in Seq(T)
         /\ \A i \in DOMAIN Among(s, S) : Among(s, S)[i] \in S /\ \E j \in DOMAIN s : s[j] = Among(s, S)[i]
         /\ \A j \in DOMAIN s : s[j] \in S => \E i \in DOMAIN Among(s, S) : Among(s, S)[i] = s[j]
         /\ IsInjective(s) => IsInjective(Among(s, S))
<1> DEFINE N == Len(s)
           A == Seq(T)
           base == <<>>
           op(t, x) == IF x \in S THEN Append(t, x) ELSE t
           Solves(g) == g = [p \in SUBSET (1..N) |->
                               IF p = {} THEN base ELSE op(g[p \ {Max(p)}], s[Max(p)])]
           h == CHOOSE g : Solves(g)
           Fits(n, t) ==
             /\ \A i \in DOMAIN t : t[i] \in S /\ \E j \in 1..n : s[j] = t[i]
             /\ \A j \in 1..n : s[j] \in S => \E i \in DOMAIN t : t[i] = s[j]
             /\ IsInjective(s) => IsInjective(t)
           I == [n \in 0..N |-> {t \in A : Fits(n, t)}]
<1>0. /\ N \in Nat /\ DOMAIN s = 1..N /\ base \in A
      /\ \A n \in 1..N : s[n] \in T /\ \A t \in A : op(t, s[n]) \in A
  OBVIOUS
<1>1. Among(s, S) = h[1..N]
  BY <1>0 DEF Among, FoldLeft, MapThenFoldSet
<1>2. Solves(h)
  <2> DEFINE F == [n \in 1..N |-> [t \in A |-> op(t, s[n])]]
  <2> HIDE DEF N, A, base, op, h
  <2>1. F \in [1..N -> [A -> A]]
    BY <1>0
  <2> HIDE DEF F
  <2>2. PICK g \in [SUBSET (1..N) -> A] : Folding(g, F, base, N)
    BY <1>0, <2>1, FoldSolves, Zenon
  <2>3. Solves(g)
    BY <1>0, <2>2, PlacesLeft DEF F, Folding
  <2> QED  BY <2>3 DEF h
<1>3. h[1..0] \in I[0]
  <2>1. h[1..0] = base
    <3>1. 1..0 = {} /\ {} \in SUBSET (1..N)
      OBVIOUS
    <3> QED  BY <1>2, <3>1
  <2> HIDE DEF h
  <2>2. Fits(0, base)
    BY DEF IsInjective
  <2> QED  BY <1>0, <2>1, <2>2
<1>4. ASSUME NEW n \in 1..N, h[1..(n - 1)] \in I[n - 1]
      PROVE  h[1..n] \in I[n]
  <2> DEFINE t == h[1..(n - 1)]
  <2>1. h[1..n] = op(t, s[n])
    <3>1. Max(1..n) = n /\ (1..n) \ {n} = 1..(n - 1) /\ 1..n # {} /\ 1..n \in SUBSET (1..N)
      BY <1>0, LastPlace
    <3> QED  BY <1>2, <3>1
  <2> HIDE DEF h
  <2>2. t \in A /\ Fits(n - 1, t)
    BY <1>0, <1>4
  <2> HIDE DEF t
  <2>3. Fits(n, op(t, s[n]))
    <3> DEFINE u == Append(t, s[n])
    <3>1. CASE s[n] \in S
      <4>1. /\ DOMAIN t = 1..Len(t) /\ Len(t) \in Nat /\ DOMAIN u = 1..(Len(t) + 1)
            /\ u[Len(t) + 1] = s[n] /\ \A i \in DOMAIN t : u[i] = t[i]
        BY <1>0, <2>2
      <4> HIDE DEF u
      <4>2. \A i \in DOMAIN u : u[i] \in S /\ \E j \in 1..n : s[j] = u[i]
        BY <1>0, <2>2, <3>1, <4>1
      <4>3. ASSUME IsInjective(s)  PROVE  IsInjective(u)
        <5>1. \A i \in DOMAIN t : \E j \in 1..(n - 1) : s[j] = t[i]
          BY <2>2
        <5>2. \A j \in 1..(n - 1) : s[j] # s[n]
          <6>1. \A i, j \in 1..N : s[i] = s[j] => i = j
            BY <1>0, <4>3, Zenon DEF IsInjective
          <6> HIDE DEF N
          <6> QED  BY <1>0, <6>1
        <5>3. \A i \in DOMAIN t : u[i] # s[n]
          BY <4>1, <5>1, <5>2
        <5>4. IsInjective(t)
          BY <2>2, <4>3
        <5> QED  BY <4>1, <5>3, <5>4 DEF IsInjective
      <4>4. \A j \in 1..n : s[j] \in S => \E i \in DOMAIN u : u[i] = s[j]
        <5> SUFFICES ASSUME NEW j \in 1..n, s[j] \in S  PROVE \E i \in DOMAIN u : u[i] = s[j]
          OBVIOUS
        <5>1. CASE j = n
          BY <4>1, <5>1
        <5>2. CASE j # n
          <6>1. j \in 1..(n - 1)
            BY <5>2
          <6>2. PICK i \in DOMAIN t : t[i] = s[j]
            BY <2>2, <6>1
          <6> QED  BY <4>1, <6>2
        <5> QED  BY <5>1, <5>2
      <4> QED  BY <3>1, <4>2, <4>3, <4>4 DEF u
    <3>2. CASE s[n] \notin S
      <4>1. op(t, s[n]) = t
        BY <3>2
      <4>2. \A j \in 1..n : s[j] \in S => j \in 1..(n - 1)
        BY <1>0, <3>2
      <4>3. \A i \in DOMAIN t : t[i] \in S /\ \E j \in 1..n : s[j] = t[i]
        BY <1>0, <2>2
      <4> QED  BY <2>2, <4>1, <4>2, <4>3
    <3> QED  BY <3>1, <3>2
  <2>4. n \in 0..N /\ op(t, s[n]) \in A
    BY <1>0, <2>2
  <2> HIDE DEF A, Fits, op
  <2> QED  BY <2>1, <2>3, <2>4 DEF t
<1>5. h[1..N] \in I[N]
  <2> HIDE DEF h, I
  <2> QED  BY <1>0, <1>3, <1>4, FoldKeeps
<1> HIDE DEF h
<1> QED  BY <1>0, <1>1, <1>5

(***************************************************************************)
(* Purses: the bags of rupees of which paid is one.                        *)
(***************************************************************************)
Item  == [bill : Bills, by : Int, fund : Int]
Purse == {p \in UNION {[D -> Nat \ {0}] : D \in SUBSET Item} : IsFiniteSet(DOMAIN p)}

(* What is in a purse for a bill. *)
Items(p, b)  == {e \in DOMAIN p : e.bill = b}
OnBill(p, b) == SumOf(p, Items(p, b))

(* A purse, spelled out. *)
LEMMA PurseIs ==
  ASSUME NEW p
  PROVE  p \in Purse <=> /\ p = [e \in DOMAIN p |-> p[e]]
                         /\ DOMAIN p \subseteq Item /\ IsFiniteSet(DOMAIN p)
                         /\ \A e \in DOMAIN p : p[e] \in Nat \ {0}
BY DEF Purse

(* Sums over a purse are sums of naturals. *)
LEMMA PurseSums ==
  ASSUME NEW p \in Purse, NEW S \in SUBSET DOMAIN p
  PROVE  Summable(p, S) /\ SumOf(p, S) \in Nat
<1>1. IsFiniteSet(S) /\ \A e \in S : p[e] \in Nat
  BY PurseIs, FS_Subset
<1> QED  BY <1>1, SumNatural DEF Summable

(* What is in a purse for a bill is a natural number. *)
LEMMA OnBillNatural ==
  ASSUME NEW p \in Purse, NEW b
  PROVE  OnBill(p, b) \in Nat
BY PurseSums DEF OnBill, Items

(* An empty purse is one. *)
LEMMA NoRupees == EmptyBag \in Purse /\ DOMAIN EmptyBag = {} /\ \A b \in Bills : OnBill(EmptyBag, b) = 0
<1>1. DOMAIN EmptyBag = {} /\ EmptyBag = [e \in {} |-> EmptyBag[e]]
  BY DEF EmptyBag, SetToBag
<1>2. EmptyBag \in Purse
  BY <1>1, PurseIs, FS_EmptySet
<1>3. ASSUME NEW b \in Bills  PROVE OnBill(EmptyBag, b) = 0
  <2>1. Items(EmptyBag, b) = {} /\ Summable(EmptyBag, {})
    BY <1>1, FS_EmptySet DEF Items, Summable
  <2> QED  BY <2>1, SumOne DEF OnBill
<1> QED  BY <1>1, <1>2, <1>3

(* Rupees for one bill. *)
LEMMA RupeesAre ==
  ASSUME NEW bill \in Bills, NEW by \in Int, NEW fund \in Int, NEW n \in Int
  PROVE  /\ Rupees(bill, by, fund, n) \in Purse
         /\ \A e \in DOMAIN Rupees(bill, by, fund, n) : n > 0 /\ e.bill = bill /\ e.fund = fund
         /\ \A b \in Bills : OnBill(Rupees(bill, by, fund, n), b) = IF b = bill /\ n > 0 THEN n ELSE 0
<1> DEFINE e == [bill |-> bill, by |-> by, fund |-> fund]
           p == Rupees(bill, by, fund, n)
<1>1. CASE n > 0
  <2>1. p = [x \in {e} |-> n]
    BY <1>1 DEF Rupees
  <2>2. DOMAIN p = {e} /\ p[e] = n /\ e \in Item
    BY <2>1 DEF Item
  <2>3. p \in Purse
    <3>1. IsFiniteSet(DOMAIN p) /\ DOMAIN p \subseteq Item
      BY <2>2, FS_Singleton
    <3>2. p = [x \in DOMAIN p |-> p[x]] /\ \A x \in DOMAIN p : p[x] \in Nat \ {0}
      BY <1>1, <2>1, <2>2
    <3> HIDE DEF p
    <3> QED  BY <3>1, <3>2, PurseIs
  <2>4. ASSUME NEW b \in Bills PROVE OnBill(p, b) = IF b = bill THEN n ELSE 0
    <3>1. Summable(p, {e}) /\ {e} \ {e} = {}
      BY <2>2, FS_Singleton DEF Summable
    <3>2. SumOf(p, {e}) = p[e] + SumOf(p, {}) /\ SumOf(p, {}) = 0
      BY <3>1, SumOne
    <3>3. Items(p, b) = IF b = bill THEN {e} ELSE {}
      BY <2>2 DEF Items
    <3> QED  BY <2>2, <3>2, <3>3 DEF OnBill
  <2> QED  BY <1>1, <2>2, <2>3, <2>4
<1>2. CASE ~(n > 0)
  BY <1>2, NoRupees DEF Rupees
<1> QED  BY <1>1, <1>2

(* Two purses together. *)
LEMMA PursesTogether ==
  ASSUME NEW p \in Purse, NEW q \in Purse
  PROVE  /\ p (+) q \in Purse
         /\ DOMAIN (p (+) q) = DOMAIN p \cup DOMAIN q
         /\ \A b \in Bills : OnBill(p (+) q, b) = OnBill(p, b) + OnBill(q, b)
<1> DEFINE D == DOMAIN p \cup DOMAIN q
           f == [e \in D |-> IF e \in DOMAIN p THEN p[e] ELSE 0]
           g == [e \in D |-> IF e \in DOMAIN q THEN q[e] ELSE 0]
           r == p (+) q
<1>1. r = [e \in D |-> f[e] + g[e]] /\ DOMAIN r = D
  BY DEF (+)
<1>2. IsFiniteSet(D) /\ D \subseteq Item
  BY PurseIs, FS_Union
<1>3. \A e \in D : f[e] \in Nat /\ g[e] \in Nat /\ f[e] + g[e] \in Nat \ {0}
  BY PurseIs
<1>6. \A e \in D : /\ f[e] = IF e \in DOMAIN p THEN p[e] ELSE 0
                  /\ g[e] = IF e \in DOMAIN q THEN q[e] ELSE 0
  OBVIOUS
<1>4. r \in Purse
  <2> HIDE DEF f, g, r, D
  <2>1. \A e \in D : r[e] = f[e] + g[e]
    BY <1>1
  <2>2. r = [e \in DOMAIN r |-> r[e]]
    BY <1>1
  <2> QED  BY <1>1, <1>2, <1>3, <2>1, <2>2, PurseIs
<1>5. ASSUME NEW b \in Bills  PROVE OnBill(r, b) = OnBill(p, b) + OnBill(q, b)
  <2> DEFINE E == {e \in D : e.bill = b}
  <2>1. IsFiniteSet(E) /\ Items(r, b) = E /\ Items(p, b) \in SUBSET E /\ Items(q, b) \in SUBSET E
    BY <1>1, <1>2, FS_Subset DEF Items
  <2>2. /\ \A e \in Items(p, b) : f[e] \in Int /\ p[e] = f[e]
        /\ \A e \in E \ Items(p, b) : f[e] = 0
    <3>1. \A e \in Items(p, b) : e \in D /\ e \in DOMAIN p
      BY DEF Items
    <3>2. \A e \in E \ Items(p, b) : e \in D /\ e \notin DOMAIN p
      BY DEF Items
    <3> HIDE DEF f, g, r, D, E
    <3> QED  BY <1>3, <1>6, <3>1, <3>2
  <2>6. /\ \A e \in Items(q, b) : g[e] \in Int /\ q[e] = g[e]
        /\ \A e \in E \ Items(q, b) : g[e] = 0
    <3>1. \A e \in Items(q, b) : e \in D /\ e \in DOMAIN q
      BY DEF Items
    <3>2. \A e \in E \ Items(q, b) : e \in D /\ e \notin DOMAIN q
      BY DEF Items
    <3> HIDE DEF f, g, r, D, E
    <3> QED  BY <1>3, <1>6, <3>1, <3>2
  <2>3. Summable(f, E) /\ Summable(g, E) /\ \A e \in E : r[e] = f[e] + g[e]
    <3>1. \A e \in E : e \in D
      OBVIOUS
    <3>2. \A e \in E : r[e] = f[e] + g[e]
      BY <1>1, <3>1
    <3> HIDE DEF f, g, r, D, E
    <3> QED  BY <1>3, <2>1, <3>1, <3>2 DEF Summable
  <2> HIDE DEF f, g, r, D, E
  <2>4. SumOf(f, E) = SumOf(p, Items(p, b)) /\ SumOf(g, E) = SumOf(q, Items(q, b))
    BY <2>1, <2>2, <2>6, SumOfPart
  <2>5. SumOf(r, E) = SumOf(f, E) + SumOf(g, E)
    BY <2>3, SumOfBoth
  <2> QED  BY <2>1, <2>4, <2>5 DEF OnBill
<1> QED  BY <1>1, <1>4, <1>5

(* Part of a purse. *)
LEMMA PursePart ==
  ASSUME NEW p \in Purse, NEW D \in SUBSET DOMAIN p
  PROVE  /\ [e \in D |-> p[e]] \in Purse
         /\ \A b \in Bills : OnBill([e \in D |-> p[e]], b) <= OnBill(p, b)
         /\ \A b \in Bills : (\A e \in D : e.bill # b) => OnBill([e \in D |-> p[e]], b) = 0
<1> DEFINE q == [e \in D |-> p[e]]
<1>1. DOMAIN q = D /\ (\A e \in D : q[e] = p[e]) /\ q = [e \in DOMAIN q |-> q[e]]
  OBVIOUS
<1> HIDE DEF q
<1>2. q \in Purse
  BY <1>1, PurseIs, FS_Subset
<1>3. ASSUME NEW b \in Bills
      PROVE  /\ OnBill(q, b) <= OnBill(p, b)
             /\ (\A e \in D : e.bill # b) => OnBill(q, b) = 0
  <2> DEFINE Q == Items(q, b)
             P == Items(p, b)
  <2>1. Q \in SUBSET P /\ P \in SUBSET DOMAIN p /\ Q \in SUBSET DOMAIN q /\ \A e \in Q : q[e] = p[e]
    BY <1>1 DEF Items
  <2>2. (\A e \in D : e.bill # b) => Q = {}
    BY <1>1 DEF Items
  <2> HIDE DEF P, Q
  <2>3. Summable(q, Q) /\ SumOf(q, Q) \in Nat
    BY <1>2, <2>1, PurseSums
  <2>4. Q = {} => SumOf(q, Q) = 0
    BY <2>3, SumOne
  <2>5. SumOf(q, Q) <= SumOf(p, P)
    <3>1. /\ Summable(p, P) /\ SumOf(p, P) \in Nat
          /\ SumOf(p, Q) \in Nat /\ SumOf(p, P \ Q) \in Nat
      BY <2>1, PurseSums
    <3>2. SumOf(p, Q) = SumOf(q, Q)
      BY <2>1, <2>3, SumAgrees DEF Summable
    <3>3. Q \cup (P \ Q) = P /\ Q \cap (P \ Q) = {} /\ P \ Q \in SUBSET P
      BY <2>1
    <3>4. SumOf(p, P) = SumOf(p, Q) + SumOf(p, P \ Q)
      BY <2>1, <3>1, <3>3, SumApart
    <3> QED  BY <3>1, <3>2, <3>4
  <2> QED  BY <2>2, <2>4, <2>5 DEF P, Q, OnBill
<1> QED  BY <1>2, <1>3 DEF q

(* Two sequences in a row. *)
LEMMA InARow ==
  ASSUME NEW T, NEW t \in Seq(T), NEW a \in Seq(T)
  PROVE  /\ t \o a \in Seq(T)
         /\ \A i \in DOMAIN (t \o a) : \/ \E j \in DOMAIN t : (t \o a)[i] = t[j]
                                    \/ \E j \in DOMAIN a : (t \o a)[i] = a[j]
         /\ /\ IsInjective(t) /\ IsInjective(a)
            /\ \A i \in DOMAIN t, j \in DOMAIN a : t[i] # a[j]
            => IsInjective(t \o a)
<1> DEFINE u == t \o a
           m == Len(t)
           n == Len(a)
<1>1. /\ m \in Nat /\ n \in Nat /\ DOMAIN t = 1..m /\ DOMAIN a = 1..n /\ u \in Seq(T)
      /\ DOMAIN u = 1..(m + n)
      /\ \A i \in 1..(m + n) : u[i] = IF i <= m THEN t[i] ELSE a[i - m]
  OBVIOUS
<1> HIDE DEF u, m, n
<1> DEFINE First(i)  == i \in Int /\ i \in DOMAIN t /\ u[i] = t[i]
           Second(i) == i \in Int /\ i - m \in DOMAIN a /\ u[i] = a[i - m]
<1>2. \A i \in DOMAIN u : First(i) \/ Second(i)
  BY <1>1
<1>3. ASSUME IsInjective(t), IsInjective(a), \A i \in DOMAIN t, j \in DOMAIN a : t[i] # a[j],
             NEW i \in DOMAIN u, NEW j \in DOMAIN u, u[i] = u[j]
      PROVE  i = j
  <2>1. CASE First(i) /\ First(j)
    BY <1>3, <2>1, Zenon DEF IsInjective
  <2>2. CASE Second(i) /\ Second(j)
    <3>1. i - m = j - m
      BY <1>3, <2>2, Zenon DEF IsInjective
    <3> QED  BY <1>1, <2>2, <3>1
  <2>3. CASE First(i) /\ Second(j)
    BY <1>3, <2>3, Zenon
  <2>4. CASE Second(i) /\ First(j)
    BY <1>3, <2>4, Zenon
  <2> HIDE DEF First, Second
  <2> QED  BY <1>2, <2>1, <2>2, <2>3, <2>4
<1>4. \A i \in DOMAIN u : \/ \E j \in DOMAIN t : u[i] = t[j]
                         \/ \E j \in DOMAIN a : u[i] = a[j]
  BY <1>2, Zenon
<1> QED  BY <1>1, <1>3, <1>4 DEF u, IsInjective

(* Nothing is lost when two sequences are put in a row. *)
LEMMA InARowAll ==
  ASSUME NEW T, NEW t \in Seq(T), NEW a \in Seq(T)
  PROVE  /\ \A j \in DOMAIN t : \E i \in DOMAIN (t \o a) : (t \o a)[i] = t[j]
         /\ \A j \in DOMAIN a : \E i \in DOMAIN (t \o a) : (t \o a)[i] = a[j]
<1> DEFINE u == t \o a
           m == Len(t)
<1>1. \A j \in DOMAIN t : j \in DOMAIN u /\ u[j] = t[j]
  OBVIOUS
<1>2. \A j \in DOMAIN a : m + j \in DOMAIN u /\ u[m + j] = a[j]
  OBVIOUS
<1> QED  BY <1>1, <1>2

(* What Sorted makes of a sequence: the elements of it that are in a       *)
(* bucket; none comes twice if none did and no two buckets have one in     *)
(* common.                                                                 *)
LEMMA SortedOf ==
  ASSUME NEW T, NEW s \in Seq(T), NEW N \in Nat, NEW B, DOMAIN B = 1..N
  PROVE  /\ Sorted(s, B) \in Seq(T)
         /\ \A i \in DOMAIN Sorted(s, B) :
              /\ \E n \in 1..N : Sorted(s, B)[i] \in B[n]
              /\ \E j \in DOMAIN s : s[j] = Sorted(s, B)[i]
         /\ \A n \in 1..N, j \in DOMAIN s : s[j] \in B[n] =>
              \E i \in DOMAIN Sorted(s, B) : Sorted(s, B)[i] = s[j]
         /\ IsInjective(s) /\ (\A m, n \in 1..N : m # n => B[m] \cap B[n] = {})
            => IsInjective(Sorted(s, B))
<1> DEFINE A == Seq(T)
           base == <<>>
           op(t, S) == t \o Among(s, S)
           Solves(g) == g = [p \in SUBSET (1..N) |->
                               IF p = {} THEN base ELSE op(g[p \ {Max(p)}], B[Max(p)])]
           h == CHOOSE g : Solves(g)
           Apart == IsInjective(s) /\ \A m, n \in 1..N : m # n => B[m] \cap B[n] = {}
           Fits(n, t) ==
             /\ \A i \in DOMAIN t : (\E m \in 1..n : t[i] \in B[m]) /\ \E j \in DOMAIN s : s[j] = t[i]
             /\ \A m \in 1..n, j \in DOMAIN s : s[j] \in B[m] => \E i \in DOMAIN t : t[i] = s[j]
             /\ Apart => IsInjective(t)
           I == [n \in 0..N |-> {t \in A : Fits(n, t)}]
<1>0. /\ base \in A
      /\ \A n \in 1..N : Among(s, B[n]) \in A /\ \A t \in A : op(t, B[n]) \in A
  BY AmongOf
<1>1. Sorted(s, B) = h[1..N]
  BY DEF Sorted, FoldLeft, MapThenFoldSet
<1>2. Solves(h)
  <2> DEFINE F == [n \in 1..N |-> [t \in A |-> op(t, B[n])]]
  <2> HIDE DEF A, base, op, h
  <2>1. F \in [1..N -> [A -> A]]
    BY <1>0
  <2> HIDE DEF F
  <2>2. PICK g \in [SUBSET (1..N) -> A] : Folding(g, F, base, N)
    BY <1>0, <2>1, FoldSolves, Zenon
  <2>3. Solves(g)
    BY <1>0, <2>2, PlacesLeft DEF F, Folding
  <2> QED  BY <2>3 DEF h
<1>3. h[1..0] \in I[0]
  <2>1. h[1..0] = base
    <3>1. 1..0 = {} /\ {} \in SUBSET (1..N)
      OBVIOUS
    <3> QED  BY <1>2, <3>1
  <2> HIDE DEF h
  <2>2. Fits(0, base)
    BY DEF IsInjective
  <2> QED  BY <1>0, <2>1, <2>2
<1>4. ASSUME NEW n \in 1..N, h[1..(n - 1)] \in I[n - 1]
      PROVE  h[1..n] \in I[n]
  <2> DEFINE t == h[1..(n - 1)]
             a == Among(s, B[n])
             u == t \o a
  <2>1. h[1..n] = op(t, B[n])
    <3>1. Max(1..n) = n /\ (1..n) \ {n} = 1..(n - 1) /\ 1..n # {} /\ 1..n \in SUBSET (1..N)
      BY LastPlace
    <3> QED  BY <1>2, <3>1
  <2> HIDE DEF h
  <2>2. t \in A /\ Fits(n - 1, t)
    <3>1. n - 1 \in 0..N
      OBVIOUS
    <3> HIDE DEF t, Fits, A
    <3> QED  BY <1>4, <3>1 DEF t
  <2> HIDE DEF t
  <2>3. /\ a \in Seq(T) /\ (IsInjective(s) => IsInjective(a))
        /\ \A i \in DOMAIN a : a[i] \in B[n] /\ \E j \in DOMAIN s : s[j] = a[i]
        /\ \A j \in DOMAIN s : s[j] \in B[n] => \E i \in DOMAIN a : a[i] = s[j]
    BY AmongOf
  <2> HIDE DEF a
  <2>4. /\ u \in Seq(T)
        /\ \A i \in DOMAIN u : \/ \E j \in DOMAIN t : u[i] = t[j]
                               \/ \E j \in DOMAIN a : u[i] = a[j]
        /\ /\ IsInjective(t) /\ IsInjective(a)
           /\ \A i \in DOMAIN t, j \in DOMAIN a : t[i] # a[j]
           => IsInjective(u)
    BY <2>2, <2>3, InARow
  <2>a. /\ \A j \in DOMAIN t : \E i \in DOMAIN u : u[i] = t[j]
        /\ \A j \in DOMAIN a : \E i \in DOMAIN u : u[i] = a[j]
    <3>1. t \in Seq(T) /\ a \in Seq(T)
      BY <2>2, <2>3
    <3>2. \A j \in DOMAIN t : \E i \in DOMAIN u : u[i] = t[j]
      BY <3>1, InARowAll
    <3>3. \A j \in DOMAIN a : \E i \in DOMAIN u : u[i] = a[j]
      BY <3>1, InARowAll
    <3> QED  BY <3>2, <3>3
  <2> HIDE DEF u
  <2>5. \A i \in DOMAIN t : (\E m \in 1..n : t[i] \in B[m]) /\ \E j \in DOMAIN s : s[j] = t[i]
    BY <2>2
  <2>6. \A i \in DOMAIN u : (\E m \in 1..n : u[i] \in B[m]) /\ \E j \in DOMAIN s : s[j] = u[i]
    <3>1. n \in 1..n
      OBVIOUS
    <3> SUFFICES ASSUME NEW i \in DOMAIN u
                 PROVE  (\E m \in 1..n : u[i] \in B[m]) /\ \E j \in DOMAIN s : s[j] = u[i]
      OBVIOUS
    <3>2. CASE \E j \in DOMAIN t : u[i] = t[j]
      BY <2>5, <3>2
    <3>3. CASE \E j \in DOMAIN a : u[i] = a[j]
      <4>1. u[i] \in B[n] /\ \E j \in DOMAIN s : s[j] = u[i]
        BY <2>3, <3>3
      <4> QED  BY <3>1, <4>1
    <3> QED  BY <2>4, <3>2, <3>3
  <2>7. ASSUME Apart  PROVE IsInjective(u)
    <3>1. ASSUME NEW i \in DOMAIN t, NEW j \in DOMAIN a  PROVE t[i] # a[j]
      <4>1. PICK m \in 1..(n - 1) : t[i] \in B[m]
        BY <2>2
      <4>2. B[m] \cap B[n] = {}
        BY <2>7
      <4> QED  BY <2>3, <4>1, <4>2
    <3>2. IsInjective(t) /\ IsInjective(a)
      BY <2>2, <2>3, <2>7
    <3> QED  BY <2>4, <3>1, <3>2
  <2>10. ASSUME NEW m \in 1..n, NEW j \in DOMAIN s, s[j] \in B[m]
         PROVE  \E i \in DOMAIN u : u[i] = s[j]
    <3>1. CASE m = n
      BY <2>3, <2>a, <2>10, <3>1
    <3>2. CASE m # n
      <4>1. m \in 1..(n - 1)
        BY <3>2
      <4>2. \E i \in DOMAIN t : t[i] = s[j]
        BY <2>2, <2>10, <4>1
      <4> QED  BY <2>a, <4>2
    <3> QED  BY <3>1, <3>2
  <2>8. Fits(n, u)
    <3> HIDE DEF Apart
    <3> QED  BY <2>6, <2>7, <2>10
  <2>9. u \in I[n]
    <3> HIDE DEF Fits
    <3> QED  BY <2>4, <2>8
  <2> QED  BY <2>1, <2>9 DEF u, a
<1>5. h[1..N] \in I[N]
  <2> HIDE DEF h, I
  <2> QED  BY <1>3, <1>4, FoldKeeps
<1> HIDE DEF h
<1> QED  BY <1>1, <1>5

(***************************************************************************)
(* The books.                                                              *)
(***************************************************************************)
(* What the entries of the books may be. *)
Voucher ==
  [no : Nat, date : Nat, amt : Nat, how : Modes \cup {Note},
   ticked : {t \in Seq(Bills) : IsInjective(t)}, adv : Nat, parked : Nat, cleared : Nat]

Bill == [on : BOOLEAN, date : Nat, amt : Nat, kept : BOOLEAN, debit : BOOLEAN]

Books ==
  [vouchers : Seq(Voucher), paid : Purse, bills : [Bills -> Bill],
   opening : Int, lastNo : Nat, elsewhere : Nat]

(* The balance of a bill, by what the purse holds for it. *)
LEMMA BalanceIs ==
  ASSUME NEW k \in Books, NEW b \in Bills
  PROVE  /\ Total(k, LAMBDA e : e.bill = b) = OnBill(k.paid, b)
         /\ Balance(k, b) = NotNegative(k.bills[b].amt - OnBill(k.paid, b))
         /\ OnBill(k.paid, b) \in Nat /\ k.bills[b].amt \in Nat /\ Balance(k, b) \in Nat
<1>1. OnBill(k.paid, b) \in Nat /\ k.bills[b].amt \in Nat
  BY OnBillNatural DEF Books, Bill
<1>2. Total(k, LAMBDA e : e.bill = b) = OnBill(k.paid, b)
  BY Zenon DEF Total, OnBill, Items, SumOf
<1>3. Balance(k, b) = NotNegative(k.bills[b].amt - OnBill(k.paid, b))
  BY Zenon DEF Total, OnBill, Items, SumOf, Balance
<1> QED  BY <1>1, <1>2, <1>3 DEF NotNegative, Highest

(* What is due, each bill once. *)
LEMMA DueBills ==
  ASSUME NEW k \in Books, NEW upTo \in Nat
  PROVE  /\ InvoicePending(k, upTo) \in Seq(Bills)
         /\ IsInjective(InvoicePending(k, upTo))
         /\ \A i \in DOMAIN InvoicePending(k, upTo) :
              k.bills[InvoicePending(k, upTo)[i]].on /\ Balance(k, InvoicePending(k, upTo)[i]) > 0
<1> DEFINE s == [b \in Bills |-> b]
           Open(d) == {b \in Bills : k.bills[b].on /\ k.bills[b].date = d /\ Balance(k, b) > 0}
           B == [d \in 1..upTo |-> Open(d)]
<1>1. s \in Seq(Bills) /\ IsInjective(s)
  BY ReceiptsAssumption DEF Bills, IsInjective
<1>2. DOMAIN B = 1..upTo /\ \A d \in 1..upTo : B[d] = Open(d)
  OBVIOUS
<1>3. InvoicePending(k, upTo) = Sorted(s, B)
  BY DEF InvoicePending
<1>4. \A m, n \in 1..upTo : m # n => B[m] \cap B[n] = {}
  BY <1>2
<1> HIDE DEF s, B
<1>5. /\ Sorted(s, B) \in Seq(Bills) /\ IsInjective(Sorted(s, B))
      /\ \A i \in DOMAIN Sorted(s, B) : \E n \in 1..upTo : Sorted(s, B)[i] \in B[n]
  BY <1>1, <1>2, <1>4, SortedOf
<1> QED  BY <1>2, <1>3, <1>5

(* The receipts of a sequence, by arrival. *)
LEMMA ArrivalOf ==
  ASSUME NEW T, NEW rs \in Seq(T)
  PROVE  /\ Arrival(rs) \in Seq(T)
         /\ \A i \in DOMAIN Arrival(rs) : \E j \in DOMAIN rs : rs[j] = Arrival(rs)[i]
<1> DEFINE B == [d \in Days |-> {r \in ToSet(rs) : r.date = d}]
<1>1. DOMAIN B = 1..MaxDay /\ MaxDay \in Nat
  BY ReceiptsAssumption DEF Days
<1>2. Arrival(rs) = Sorted(rs, B)
  BY DEF Arrival
<1> HIDE DEF B
<1> QED  BY <1>1, <1>2, SortedOf

(* A new ADV- number is a natural number, and an advance has an owner. *)
LEMMA NumbersOf ==
  ASSUME NEW k \in Books
  PROVE  /\ NextAdvance(k) \in Nat
         /\ \A r \in Parked(k) : r \in Voucher /\ OwnerOf(k, r.adv) \in Nat
<1>1. k.vouchers \in Seq(Voucher) /\ k.elsewhere \in Nat
  BY DEF Books
<1>2. /\ \A i \in DOMAIN k.vouchers : k.vouchers[i] \in Voucher
      /\ IsFiniteSet(DOMAIN k.vouchers) /\ DOMAIN k.vouchers \subseteq Nat
  <2>1. DOMAIN k.vouchers = 1..Len(k.vouchers) /\ Len(k.vouchers) \in Nat
    BY <1>1
  <2>2. IsFiniteSet(1..Len(k.vouchers))
    BY <2>1, FS_Interval
  <2> QED  BY <1>1, <2>1, <2>2
<1>3. NextAdvance(k) \in Nat
  <2> DEFINE P == {i \in DOMAIN k.vouchers : k.vouchers[i].parked > 0}
             T == {k.elsewhere} \cup {r.adv : r \in Parked(k)}
             A == {k.vouchers[i].adv : i \in P}
  <2>1. {r.adv : r \in Parked(k)} = A
    BY DEF Parked, ToSet
  <2>2. IsFiniteSet(A)
    <3>1. IsFiniteSet(P)
      BY <1>2, FS_Subset
    <3> DEFINE f == [i \in P |-> k.vouchers[i].adv]
    <3>2. A = {f[i] : i \in P}
      OBVIOUS
    <3> HIDE DEF P, f, A
    <3> QED  BY <3>1, <3>2, ImageOf
  <2>3. IsFiniteSet(T) /\ T \subseteq Nat /\ T # {}
    <3>1. A \subseteq Nat
      BY <1>2 DEF Voucher
    <3> HIDE DEF A
    <3>2. T = A \cup {k.elsewhere}
      BY <2>1
    <3> HIDE DEF T
    <3> QED  BY <1>1, <2>2, <3>1, <3>2, FS_AddElement
  <2>4. Max(T) \in Nat
    <3> HIDE DEF T
    <3> QED  BY <2>3, GreatestOf
  <2> QED  BY <2>4 DEF NextAdvance
<1>4. ASSUME NEW r \in Parked(k)
      PROVE  r \in Voucher /\ OwnerOf(k, r.adv) \in Nat
  <2> DEFINE rows == {i \in DOMAIN k.vouchers : k.vouchers[i].parked > 0 /\ k.vouchers[i].adv = r.adv}
  <2>1. PICK i \in DOMAIN k.vouchers : r = k.vouchers[i] /\ r.parked > 0
    BY DEF Parked, ToSet
  <2>2. IsFiniteSet(rows) /\ rows \subseteq Nat /\ rows # {}
    BY <1>2, <2>1, FS_Subset
  <2> HIDE DEF rows
  <2>3. Max(rows) \in rows
    BY <2>2, GreatestOf
  <2>4. Max(rows) \in DOMAIN k.vouchers
    BY <2>3 DEF rows
  <2> QED  BY <1>2, <2>1, <2>4 DEF rows, OwnerOf, Voucher
<1> QED  BY <1>3, <1>4

(***************************************************************************)
(* Money on account.                                                       *)
(***************************************************************************)
PotSet == [fund : Int, by : Int, left : Nat]

(* What is on account comes in pots. *)
LEMMA PotsAre ==
  ASSUME NEW k \in Books, NEW upTo \in Nat
  PROVE  AdvancePending(k, upTo) \in Seq(PotSet)
<1>1. ASSUME NEW fund \in Int, NEW by \in Int, NEW amt \in Nat
      PROVE  Pot(k, fund, by, amt) \in PotSet
  <2> DEFINE E == {e \in DOMAIN k.paid : e.fund = fund}
  <2>1. SumOf(k.paid, E) \in Nat
    BY PurseSums DEF Books
  <2>2. Total(k, LAMBDA e : e.fund = fund) = SumOf(k.paid, E)
    BY Zenon DEF Total, SumOf
  <2> HIDE DEF E
  <2>3. Pot(k, fund, by, amt) = [fund |-> fund, by |-> by, left |-> NotNegative(amt - SumOf(k.paid, E))]
    BY Zenon DEF Pot, Total, SumOf, E
  <2> QED  BY <2>1, <2>3 DEF PotSet, NotNegative, Highest
<1> DEFINE N == NextAdvance(k)
           B == [n \in 1..N |-> {r \in Parked(k) : r.adv = n /\ r.date <= upTo}]
           s == Arrival(ByNumber(k, upTo))
<1>2. /\ ByNumber(k, upTo) \in Seq(Voucher)
      /\ \A i \in DOMAIN ByNumber(k, upTo) : ByNumber(k, upTo)[i] \in Parked(k)
  <2>1. k.vouchers \in Seq(Voucher) /\ N \in Nat
    BY NumbersOf DEF Books
  <2>2. DOMAIN B = 1..N /\ \A n \in 1..N : B[n] \subseteq Parked(k)
    OBVIOUS
  <2>3. ByNumber(k, upTo) = Sorted(k.vouchers, B)
    BY DEF ByNumber
  <2> HIDE DEF N, B
  <2>4. /\ Sorted(k.vouchers, B) \in Seq(Voucher)
        /\ \A i \in DOMAIN Sorted(k.vouchers, B) : \E n \in 1..N : Sorted(k.vouchers, B)[i] \in B[n]
    BY <2>1, <2>2, SortedOf
  <2> QED  BY <2>2, <2>3, <2>4
<1>3. s \in Seq(Voucher) /\ \A i \in DOMAIN s : s[i] \in Parked(k)
  BY <1>2, ArrivalOf
<1> HIDE DEF s
<1>4. Each(s, LAMBDA r : Pot(k, r.adv, OwnerOf(k, r.adv), r.parked)) \in Seq(PotSet)
  <2>1. \A i \in DOMAIN s : Pot(k, s[i].adv, OwnerOf(k, s[i].adv), s[i].parked) \in PotSet
    <3> SUFFICES ASSUME NEW i \in DOMAIN s
                 PROVE  Pot(k, s[i].adv, OwnerOf(k, s[i].adv), s[i].parked) \in PotSet
      OBVIOUS
    <3>1. s[i] \in Voucher /\ OwnerOf(k, s[i].adv) \in Nat
      BY <1>3, NumbersOf
    <3>2. s[i].adv \in Nat /\ s[i].parked \in Nat
      BY <3>1 DEF Voucher
    <3> QED  BY <1>1, <3>1, <3>2
  <2>2. DOMAIN s = 1..Len(s) /\ Len(s) \in Nat
    BY <1>3
  <2> DEFINE t == [i \in DOMAIN s |-> Pot(k, s[i].adv, OwnerOf(k, s[i].adv), s[i].parked)]
  <2>3. t \in Seq(PotSet)
    <3>1. t \in [1..Len(s) -> PotSet]
      BY <2>1, <2>2
    <3> HIDE DEF t
    <3> QED  BY <2>2, <3>1
  <2> QED  BY <2>3 DEF Each
<1>5. Pot(k, Credit, NoVoucher, NotNegative(-k.opening)) \in PotSet
  <2>1. NotNegative(-k.opening) \in Nat
    BY DEF Books, NotNegative, Highest
  <2> QED  BY <1>1, <2>1 DEF Credit, NoVoucher
<1>6. Pots(k, upTo) \in Seq(PotSet)
  <2> DEFINE p == Pot(k, Credit, NoVoucher, NotNegative(-k.opening))
             t == Each(s, LAMBDA r : Pot(k, r.adv, OwnerOf(k, r.adv), r.parked))
  <2>1. Pots(k, upTo) = <<p>> \o t
    BY DEF Pots, s
  <2>2. p \in PotSet /\ t \in Seq(PotSet)
    BY <1>4, <1>5
  <2> HIDE DEF p, t
  <2> QED  BY <2>1, <2>2
<1> QED  BY <1>6, AmongOf DEF AdvancePending

(* What the first pots hold. *)
LEMMA UptoIs ==
  ASSUME NEW pots \in Seq(PotSet)
  PROVE  /\ Upto(pots, 0) = 0
         /\ \A i \in 0..Len(pots) : Upto(pots, i) \in Nat
         /\ \A i \in 1..Len(pots) : Upto(pots, i) = Upto(pots, i - 1) + pots[i].left
         /\ Left(pots) \in Nat
<1> DEFINE N == Len(pots)
           f == [n \in 1..N |-> pots[n].left]
<1>1. N \in Nat /\ \A n \in 1..N : f[n] = pots[n].left /\ f[n] \in Nat
  <2>1. N \in Nat /\ \A n \in 1..N : pots[n] \in PotSet
    OBVIOUS
  <2>2. \A n \in 1..N : pots[n].left \in Nat
    BY <2>1 DEF PotSet
  <2> QED  BY <2>1, <2>2
<1> HIDE DEF f
<1>2. ASSUME NEW i \in 0..N  PROVE Summable(f, 1..i) /\ Upto(pots, i) = SumOf(f, 1..i) /\ Upto(pots, i) \in Nat
  <2> DEFINE S == 1..i
             Terms(g) == [t \in SUBSET S |-> IF t = {} THEN 0 ELSE pots[Pick(t)].left + g[t \ {Pick(t)}]]
             h == CHOOSE g : g = Terms(g)
  <2>1. \A t \in SUBSET S : t # {} => f[Pick(t)] = pots[Pick(t)].left
    BY <1>1, PickIn
  <2>2. IsFiniteSet(S) /\ \A n \in S : f[n] \in Nat
    BY <1>1, FS_Interval
  <2>3. Upto(pots, i) = h[S]
    BY DEF Upto, MapThenSumSet, MapThenFoldSet, Pick
  <2> HIDE DEF S
  <2>4. Summable(f, S) /\ SumOf(f, S) \in Nat
    BY <2>2, SumNatural DEF Summable
  <2>5. \A g : g = Terms(g) <=> Adds(g, f, S)
    BY <2>1 DEF Adds
  <2> HIDE DEF Terms
  <2>6. Adds(h, f, S)
    BY <2>4, <2>5, Solvable
  <2>7. SumOf(f, S) = h[S]
    BY <2>4, <2>6, SumBy
  <2> QED  BY <2>3, <2>4, <2>7 DEF S
<1>3. Upto(pots, 0) = 0
  <2>1. 1..0 = {} /\ 0 \in 0..N
    BY <1>1
  <2> QED  BY <1>2, <2>1, SumOne
<1>4. ASSUME NEW i \in 1..N  PROVE Upto(pots, i) = Upto(pots, i - 1) + pots[i].left
  <2>1. i \in 0..N /\ i - 1 \in 0..N /\ i \in 1..i /\ (1..i) \ {i} = 1..(i - 1)
    BY <1>1
  <2>2. SumOf(f, 1..i) = f[i] + SumOf(f, 1..(i - 1))
    BY <1>2, <2>1, SumOne
  <2>3. f[i] = pots[i].left /\ f[i] \in Nat
    BY <1>1
  <2>4. Upto(pots, i) = SumOf(f, 1..i) /\ Upto(pots, i - 1) = SumOf(f, 1..(i - 1)) /\ Upto(pots, i - 1) \in Nat
    BY <1>2, <2>1
  <2> QED  BY <2>2, <2>3, <2>4
<1>5. Left(pots) \in Nat
  BY <1>1, <1>2 DEF Left
<1> QED  BY <1>2, <1>3, <1>4, <1>5

(* What is drawn from pots for a bill: rupees for that bill, no more than  *)
(* is asked for, and none where nothing is.                                *)
LEMMA DrawnFromPots ==
  ASSUME NEW pots \in Seq(PotSet), NEW drawn \in Nat, NEW bill \in Bills, NEW amt \in Nat
  PROVE  /\ FromPots(pots, drawn, bill, amt) \in Purse
         /\ \A e \in DOMAIN FromPots(pots, drawn, bill, amt) : e.bill = bill /\ amt > 0
         /\ OnBill(FromPots(pots, drawn, bill, amt), bill) <= amt
         /\ \A b \in Bills \ {bill} : OnBill(FromPots(pots, drawn, bill, amt), b) = 0
<1> DEFINE N == Len(pots)
           A == Purse
           base == EmptyBag
           s == [i \in DOMAIN pots |-> i]
           Taken(i) == NotNegative(Lowest(Upto(pots, i), drawn + amt) - Highest(Upto(pots, i - 1), drawn))
           op(p, i) == p (+) Rupees(bill, pots[i].by, pots[i].fund, Taken(i))
           Solves(g) == g = [p \in SUBSET (1..N) |->
                               IF p = {} THEN base ELSE op(g[p \ {Max(p)}], s[Max(p)])]
           h == CHOOSE g : Solves(g)
           Clip(n) == NotNegative(Lowest(Upto(pots, n), drawn + amt) - drawn)
           Fits(n, p) ==
             /\ \A e \in DOMAIN p : e.bill = bill /\ amt > 0
             /\ OnBill(p, bill) <= Clip(n)
             /\ \A b \in Bills \ {bill} : OnBill(p, b) = 0
           I == [n \in 0..N |-> {p \in A : Fits(n, p)}]
<1>a. N \in Nat /\ DOMAIN pots = 1..N /\ DOMAIN s = 1..N /\ \A n \in 1..N : s[n] = n /\ pots[n] \in PotSet
  OBVIOUS
<1>b. ASSUME NEW n \in 1..N
      PROVE  /\ Taken(n) \in Nat /\ Clip(n) \in Nat /\ Clip(n - 1) \in Nat
             /\ Clip(n - 1) + Taken(n) <= Clip(n)
             /\ Taken(n) > 0 => amt > 0
  <2>1. /\ n \in 0..N /\ n - 1 \in 0..N /\ pots[n].left \in Nat
    BY <1>a DEF PotSet
  <2>2. /\ Upto(pots, n) \in Nat /\ Upto(pots, n - 1) \in Nat
        /\ Upto(pots, n) = Upto(pots, n - 1) + pots[n].left
    BY <2>1, UptoIs
  <2> DEFINE u == Upto(pots, n)
             v == Upto(pots, n - 1)
             t == drawn + amt
             Put(x) == IF (IF x < t THEN x ELSE t) - drawn > 0 THEN (IF x < t THEN x ELSE t) - drawn ELSE 0
             Take == IF (IF u < t THEN u ELSE t) - (IF v > drawn THEN v ELSE drawn) > 0
                       THEN (IF u < t THEN u ELSE t) - (IF v > drawn THEN v ELSE drawn) ELSE 0
  <2>3. Clip(n) = Put(u) /\ Clip(n - 1) = Put(v) /\ Taken(n) = Take
    BY DEF NotNegative, Highest, Lowest
  <2>4. u \in Nat /\ v \in Nat /\ v <= u /\ t \in Nat /\ t = drawn + amt
    BY <2>1, <2>2
  <2> HIDE DEF u, v, t
  <2>5. Put(u) \in Nat /\ Put(v) \in Nat /\ Take \in Nat
    BY <2>4
  <2>6. Put(v) + Take <= Put(u)
    BY <2>4
  <2>7. Take > 0 => amt > 0
    BY <2>4
  <2> HIDE DEF Put, Take, Clip, Taken
  <2> QED  BY <2>3, <2>5, <2>6, <2>7
<1>c. ASSUME NEW n \in 1..N
      PROVE  LET r == Rupees(bill, pots[n].by, pots[n].fund, Taken(n))
             IN  /\ r \in Purse
                 /\ \A e \in DOMAIN r : e.bill = bill /\ amt > 0
                 /\ OnBill(r, bill) = Taken(n)
                 /\ \A b \in Bills \ {bill} : OnBill(r, b) = 0
  <2>1. pots[n].by \in Int /\ pots[n].fund \in Int
    BY <1>a DEF PotSet
  <2> HIDE DEF Taken
  <2> QED  BY <1>b, <2>1, RupeesAre
<1> HIDE DEF Taken, Clip
<1>0. base \in A /\ \A n \in 1..N : \A p \in A : op(p, s[n]) \in A
  BY <1>a, <1>c, NoRupees, PursesTogether
<1>1. FromPots(pots, drawn, bill, amt) = h[1..N]
  BY <1>a DEF FromPots, FoldLeft, MapThenFoldSet, Taken
<1>2. Solves(h)
  <2> DEFINE F == [n \in 1..N |-> [p \in A |-> op(p, s[n])]]
  <2> HIDE DEF N, A, base, op, h, s
  <2>1. F \in [1..N -> [A -> A]]
    BY <1>0
  <2> HIDE DEF F
  <2>2. PICK g \in [SUBSET (1..N) -> A] : Folding(g, F, base, N)
    BY <1>a, <1>0, <2>1, FoldSolves, Zenon
  <2>3. Solves(g)
    BY <1>a, <1>0, <2>2, PlacesLeft DEF F, Folding
  <2> QED  BY <2>3 DEF h
<1>3. h[1..0] \in I[0]
  <2>1. h[1..0] = base
    <3>1. 1..0 = {} /\ {} \in SUBSET (1..N)
      OBVIOUS
    <3> QED  BY <1>2, <3>1
  <2> HIDE DEF h
  <2>2. Clip(0) = 0
    BY UptoIs DEF Clip, NotNegative, Highest, Lowest
  <2>3. Fits(0, base)
    BY <2>2, NoRupees
  <2> QED  BY <1>a, <1>0, <2>1, <2>3
<1>4. ASSUME NEW n \in 1..N, h[1..(n - 1)] \in I[n - 1]
      PROVE  h[1..n] \in I[n]
  <2> DEFINE p == h[1..(n - 1)]
             r == Rupees(bill, pots[n].by, pots[n].fund, Taken(n))
  <2>1. h[1..n] = op(p, s[n])
    <3>1. Max(1..n) = n /\ (1..n) \ {n} = 1..(n - 1) /\ 1..n # {} /\ 1..n \in SUBSET (1..N)
      BY <1>a, LastPlace
    <3> QED  BY <1>2, <3>1
  <2> HIDE DEF h
  <2>2. p \in A /\ Fits(n - 1, p)
    <3>1. n - 1 \in 0..N
      BY <1>a
    <3> HIDE DEF p, Fits, A
    <3> QED  BY <1>4, <3>1 DEF p
  <2> HIDE DEF p
  <2>3. /\ r \in Purse
        /\ \A e \in DOMAIN r : e.bill = bill /\ amt > 0
        /\ OnBill(r, bill) = Taken(n)
        /\ \A b \in Bills \ {bill} : OnBill(r, b) = 0
    BY <1>c
  <2> HIDE DEF r
  <2>4. /\ p (+) r \in Purse
        /\ DOMAIN (p (+) r) = DOMAIN p \cup DOMAIN r
        /\ \A b \in Bills : OnBill(p (+) r, b) = OnBill(p, b) + OnBill(r, b)
    BY <2>2, <2>3, PursesTogether
  <2>5. Fits(n, p (+) r)
    <3>1. OnBill(p (+) r, bill) <= Clip(n)
      <4>1. OnBill(p, bill) \in Nat /\ OnBill(p, bill) <= Clip(n - 1)
        BY <2>2, OnBillNatural
      <4>2. OnBill(p (+) r, bill) = OnBill(p, bill) + Taken(n)
        BY <2>3, <2>4
      <4> QED  BY <1>b, <4>1, <4>2
    <3> QED  BY <2>2, <2>3, <2>4, <3>1
  <2>6. p (+) r \in I[n]
    <3> HIDE DEF Fits
    <3> QED  BY <2>4, <2>5
  <2>7. op(p, s[n]) = p (+) r
    BY <1>a DEF r
  <2> QED  BY <2>1, <2>6, <2>7 DEF p
<1>5. h[1..N] \in I[N]
  <2> HIDE DEF h, I
  <2> QED  BY <1>a, <1>3, <1>4, FoldKeeps
<1>6. Clip(N) <= amt /\ Clip(N) \in Nat
  <2>1. Upto(pots, N) \in Nat
    BY <1>a, UptoIs
  <2> QED  BY <2>1 DEF Clip, NotNegative, Highest, Lowest
<1>7. h[1..N] \in Purse /\ Fits(N, h[1..N])
  <2>1. N \in 0..N
    BY <1>a
  <2> HIDE DEF h, Fits
  <2> QED  BY <1>5, <2>1
<1> HIDE DEF h
<1>8. OnBill(h[1..N], bill) <= amt
  BY <1>6, <1>7, OnBillNatural
<1> QED  BY <1>1, <1>7, <1>8

(***************************************************************************)
(* What is good about books, and what keeps it.                            *)
(***************************************************************************)
Due(k, b) == IF k.bills[b].on THEN k.bills[b].amt ELSE 0

KeptSafe(k)    == \A e \in DOMAIN k.paid : k.bills[e.bill].kept => e.fund = Cash
PaidSafe(k)    == \A b \in Bills : OnBill(k.paid, b) <= Due(k, b)
OpeningSafe(k) == Cleared(k) <= NotNegative(k.opening)
NoNotes(k)     == \A i \in DOMAIN k.vouchers : k.vouchers[i].how # Note

(* Books that fare no worse than others with the same bills. *)
Fares(k, l) ==
  /\ l \in Books /\ l.bills = k.bills /\ l.opening = k.opening
  /\ KeptSafe(k) => KeptSafe(l)
  /\ PaidSafe(k) => PaidSafe(l)
  /\ OpeningSafe(k) => OpeningSafe(l)

(* Books on which no note is entered. *)
Alone(k, l) == NoNotes(k) => NoNotes(l)

(* A purse that pays no more of a bill than is owed, or than was paid, and *)
(* no bill kept off the advance from it.                                   *)
Pays(k, p) ==
  /\ p \in Purse
  /\ \A e \in DOMAIN p : e \in DOMAIN k.paid \/ e.fund = Cash \/ ~k.bills[e.bill].kept
  /\ \A b \in Bills : OnBill(p, b) <= OnBill(k.paid, b) \/ OnBill(p, b) <= Due(k, b)

(* What each voucher has cleared of the opening balance. *)
Dues == [v \in Voucher |-> v.cleared]

(* What the vouchers have cleared is a sum of naturals. *)
LEMMA ClearedIs ==
  ASSUME NEW k \in Books
  PROVE  /\ IsFiniteSet(ToSet(k.vouchers)) /\ ToSet(k.vouchers) \subseteq Voucher
         /\ Summable(Dues, ToSet(k.vouchers))
         /\ Cleared(k) = SumOf(Dues, ToSet(k.vouchers)) /\ Cleared(k) \in Nat
<1> DEFINE s == k.vouchers
           S == ToSet(s)
           Terms(g) == [t \in SUBSET S |-> IF t = {} THEN 0 ELSE Pick(t).cleared + g[t \ {Pick(t)}]]
           h == CHOOSE g : g = Terms(g)
<1>1. s \in Seq(Voucher) /\ S = {s[i] : i \in 1..Len(s)} /\ Len(s) \in Nat
  BY DEF Books, ToSet
<1>2. IsFiniteSet(S) /\ S \subseteq Voucher
  <2>1. IsFiniteSet(1..Len(s))
    BY <1>1, FS_Interval
  <2> HIDE DEF S, s
  <2>2. IsFiniteSet({s[i] : i \in 1..Len(s)})
    BY <2>1, ImageOf
  <2> QED  BY <1>1, <2>2
<1>3. Cleared(k) = h[S]
  BY DEF Cleared, MapThenSumSet, MapThenFoldSet, Pick
<1> HIDE DEF S
<1>4. \A v \in S : Dues[v] = v.cleared /\ Dues[v] \in Nat
  BY <1>2 DEF Dues, Voucher
<1>5. \A t \in SUBSET S : t # {} => Dues[Pick(t)] = Pick(t).cleared
  BY <1>4, PickIn
<1>6. Summable(Dues, S) /\ SumOf(Dues, S) \in Nat
  BY <1>2, <1>4, SumNatural DEF Summable
<1>7. \A g : g = Terms(g) <=> Adds(g, Dues, S)
  BY <1>5 DEF Adds
<1> HIDE DEF Terms
<1>8. Adds(h, Dues, S)
  BY <1>6, <1>7, Solvable
<1>9. SumOf(Dues, S) = h[S]
  BY <1>6, <1>8, SumBy
<1> QED  BY <1>2, <1>3, <1>6, <1>9 DEF S

(* Vouchers taken out clear no more; one entered clears what it says, at   *)
(* most.                                                                   *)
LEMMA ClearedBy ==
  ASSUME NEW k \in Books, NEW l \in Books
  PROVE  /\ ToSet(l.vouchers) \subseteq ToSet(k.vouchers) => Cleared(l) <= Cleared(k)
         /\ \A row \in Voucher : ToSet(l.vouchers) = ToSet(k.vouchers) \cup {row}
                                   => Cleared(l) <= Cleared(k) + row.cleared
<1> DEFINE S == ToSet(k.vouchers)
           T == ToSet(l.vouchers)
<1>1. /\ IsFiniteSet(S) /\ S \subseteq Voucher /\ Summable(Dues, S)
      /\ Cleared(k) = SumOf(Dues, S) /\ Cleared(k) \in Nat
      /\ Cleared(l) = SumOf(Dues, T) /\ Cleared(l) \in Nat
  BY ClearedIs
<1>2. \A v \in Voucher : Dues[v] = v.cleared /\ Dues[v] \in Nat
  BY DEF Dues, Voucher
<1> HIDE DEF S, T
<1>3. ASSUME T \subseteq S  PROVE SumOf(Dues, T) <= SumOf(Dues, S)
  <2>1. T \in SUBSET S /\ S \ T \in SUBSET S /\ T \cup (S \ T) = S /\ T \cap (S \ T) = {}
    BY <1>3
  <2>2. SumOf(Dues, S) = SumOf(Dues, T) + SumOf(Dues, S \ T)
    BY <1>1, <2>1, SumApart
  <2>3. IsFiniteSet(S \ T) /\ IsFiniteSet(T) /\ \A v \in S : Dues[v] \in Nat
    BY <1>1, <1>2, <2>1, FS_Subset
  <2>4. SumOf(Dues, S \ T) \in Nat /\ SumOf(Dues, T) \in Nat
    BY <2>1, <2>3, SumNatural
  <2> QED  BY <2>2, <2>4
<1>4. ASSUME NEW row \in Voucher, T = S \cup {row}
      PROVE  SumOf(Dues, T) <= SumOf(Dues, S) + row.cleared
  <2>1. CASE row \in S
    <3>1. T = S
      BY <1>4, <2>1
    <3>2. row.cleared \in Nat
      BY DEF Voucher
    <3> QED  BY <1>1, <3>1, <3>2
  <2>2. CASE row \notin S
    <3>1. Dues[row] = row.cleared /\ Dues[row] \in Int
      BY <1>2
    <3>2. SumOf(Dues, S \cup {row}) = SumOf(Dues, S) + Dues[row]
      <4>1. Summable(Dues, S \cup {row}) /\ row \in S \cup {row} /\ (S \cup {row}) \ {row} = S
        BY <1>1, <2>2, <3>1, FS_AddElement DEF Summable
      <4>2. SumOf(Dues, S \cup {row}) = Dues[row] + SumOf(Dues, S)
        BY <4>1, SumOne
      <4> QED  BY <1>1, <3>1, <4>2, SumOne
    <3> QED  BY <1>1, <1>4, <3>1, <3>2
  <2> QED  BY <2>1, <2>2
<1> QED  BY <1>1, <1>3, <1>4 DEF S, T

(* What is open of the opening balance. *)
LEMMA OpeningPendingIs ==
  ASSUME NEW k \in Books
  PROVE  /\ OpeningPending(k) \in Nat
         /\ Cleared(k) \in Nat /\ NotNegative(k.opening) \in Nat
         /\ Cleared(k) <= NotNegative(k.opening) =>
              Cleared(k) + OpeningPending(k) = NotNegative(k.opening)
<1>1. Cleared(k) \in Nat /\ k.opening \in Int
  BY ClearedIs DEF Books
<1> QED  BY <1>1 DEF OpeningPending, NotNegative, Highest

(* Books whose purse and vouchers change so fare no worse. *)
LEMMA FaresBy ==
  ASSUME NEW k \in Books, NEW l, NEW p, Pays(k, p), NEW s \in Seq(Voucher),
         l = [k EXCEPT !.vouchers = s, !.paid = p],
         NEW row \in Voucher, row.cleared <= OpeningPending(k),
         \A i \in DOMAIN s : s[i] = row \/ s[i] \in ToSet(k.vouchers),
         (\A v \in ToSet(k.vouchers) : v \in ToSet(s)) \/ \A i \in DOMAIN s : s[i] \in ToSet(k.vouchers)
  PROVE  Fares(k, l) /\ (row.how # Note => Alone(k, l))
<1>1. /\ l.vouchers = s /\ l.paid = p /\ l.bills = k.bills /\ l.opening = k.opening
      /\ l \in Books
  BY DEF Books, Pays
<1>2. KeptSafe(k) => KeptSafe(l)
  BY <1>1, Zenon DEF KeptSafe, Pays
<1>3. PaidSafe(k) => PaidSafe(l)
  <2> SUFFICES ASSUME PaidSafe(k), NEW b \in Bills  PROVE OnBill(p, b) <= Due(k, b)
    BY <1>1 DEF PaidSafe, Due
  <2>1. OnBill(k.paid, b) <= Due(k, b)
    BY DEF PaidSafe
  <2>2. OnBill(p, b) <= OnBill(k.paid, b) \/ OnBill(p, b) <= Due(k, b)
    BY DEF Pays
  <2>3. OnBill(p, b) \in Nat /\ OnBill(k.paid, b) \in Nat
    BY OnBillNatural DEF Pays, Books
  <2>4. Due(k, b) \in Nat
    BY DEF Due, Books, Bill
  <2> QED  BY <2>1, <2>2, <2>3, <2>4
<1>4. OpeningSafe(k) => OpeningSafe(l)
  <2> DEFINE S == ToSet(k.vouchers)
             T == ToSet(l.vouchers)
  <2>1. \A v \in T : v = row \/ v \in S
    BY <1>1 DEF ToSet
  <2>2. T \subseteq S \/ T = S \cup {row}
    <3>1. (\A i \in DOMAIN s : s[i] \in S) => T \subseteq S
      BY <1>1 DEF ToSet
    <3>2. (\A v \in S : v \in ToSet(s)) => S \subseteq T
      BY <1>1
    <3> HIDE DEF S, T
    <3> QED  BY <2>1, <3>1, <3>2 DEF S
  <2>3. Cleared(l) <= Cleared(k) \/ Cleared(l) <= Cleared(k) + row.cleared
    BY <1>1, <2>2, ClearedBy
  <2>4. Cleared(l) \in Nat /\ row.cleared \in Nat
    BY <1>1, ClearedIs DEF Voucher
  <2> HIDE DEF S, T
  <2> QED  BY <1>1, <2>3, <2>4, OpeningPendingIs DEF OpeningSafe
<1>5. row.how # Note => Alone(k, l)
  BY <1>1 DEF Alone, NoNotes, ToSet
<1> QED  BY <1>1, <1>2, <1>3, <1>4, <1>5 DEF Fares

(* One change of the books after the other. *)
LEMMA FaresOn ==
  ASSUME NEW k, NEW l, NEW m, Fares(k, l), Fares(l, m)
  PROVE  Fares(k, m) /\ (Alone(k, l) /\ Alone(l, m) => Alone(k, m))
BY DEF Fares, Alone

(* A sequence of elements of a set is a sequence over it. *)
LEMMA Narrow ==
  ASSUME NEW T, NEW s \in Seq(T), NEW U, \A i \in DOMAIN s : s[i] \in U
  PROVE  s \in Seq(U)
<1>1. Len(s) \in Nat /\ s \in [1..Len(s) -> U]
  OBVIOUS
<1> QED  BY <1>1

(* The receipts on the books. *)
Money == {v \in Voucher : v.how # Note}

(* Receipts are the vouchers that are no notes. *)
LEMMA ReceiptsOf ==
  ASSUME NEW k \in Books
  PROVE  /\ Receipts(k) \in Seq(Money)
         /\ \A i \in DOMAIN Receipts(k) : Receipts(k)[i] \in ToSet(k.vouchers)
<1> DEFINE S == {v \in ToSet(k.vouchers) : v.how # Note}
           rs == Receipts(k)
<1>1. k.vouchers \in Seq(Voucher) /\ rs = Among(k.vouchers, S)
  BY DEF Books, Receipts
<1>2. rs \in Seq(Voucher) /\ \A i \in DOMAIN rs : rs[i] \in S
  BY <1>1, AmongOf
<1>3. \A i \in DOMAIN rs : rs[i] \in Voucher
  BY <1>2
<1>4. \A i \in DOMAIN rs : rs[i] \in Money
  BY <1>2, <1>3 DEF Money
<1> QED  BY <1>2, <1>4, Narrow

(* Where no note is entered, every voucher is a receipt. *)
LEMMA ReceiptsAll ==
  ASSUME NEW k \in Books, NoNotes(k)
  PROVE  \A i \in DOMAIN k.vouchers : \E j \in DOMAIN Receipts(k) : k.vouchers[i] = Receipts(k)[j]
<1> DEFINE S == {v \in ToSet(k.vouchers) : v.how # Note}
<1>1. k.vouchers \in Seq(Voucher) /\ Receipts(k) = Among(k.vouchers, S)
  BY DEF Books, Receipts
<1>2. \A i \in DOMAIN k.vouchers : k.vouchers[i] \in S
  BY DEF NoNotes, ToSet
<1> HIDE DEF S
<1> QED  BY <1>1, <1>2, AmongOf

(***************************************************************************)
(* Holds.                                                                  *)
(***************************************************************************)
(* An amount names places in the sequence of open bills. *)
LEMMA ExactPlaces ==
  ASSUME NEW T, NEW open \in Seq(T), NEW bal, NEW amt
  PROVE  FindExact(open, bal, amt) \in SUBSET (1..Len(open)) /\ IsFiniteSet(FindExact(open, bal, amt))
<1> DEFINE Near(n) == n - amt \in -Tolerance..Tolerance
           N == Len(open)
           Pairs == (1..N) \X (1..N)
           Runs  == {ij \in Pairs : ij[1] <= ij[2] /\ Near(MapThenSumSet(LAMBDA i : bal[open[i]], ij[1]..ij[2]))}
           Twos  == {ij \in Pairs : ij[1] + 2 <= ij[2] /\ Near(bal[open[ij[1]]] + bal[open[ij[2]]])}
           First(S) == CHOOSE p \in S : \A q \in S : p[1] < q[1] \/ (p[1] = q[1] /\ p[2] <= q[2])
           hit == FindExact(open, bal, amt)
<1>1. N \in Nat
  OBVIOUS
<1>2. ASSUME NEW S, S \subseteq Pairs, S # {}
      PROVE  First(S)[1] \in 1..N /\ First(S)[2] \in 1..N
  <2> DEFINE X == {q[1] : q \in S}
  <2>1. X \subseteq Nat /\ X # {}
    BY <1>1, <1>2
  <2>2. PICK x \in X : \A y \in X : x <= y
    BY <2>1, LeastOf
  <2> DEFINE Y == {q[2] : q \in {p \in S : p[1] = x}}
  <2>3. Y \subseteq Nat /\ Y # {}
    BY <1>1, <1>2, <2>2
  <2>4. PICK z \in Y : \A y \in Y : z <= y
    BY <2>3, LeastOf
  <2>5. PICK p \in S : p[1] = x /\ p[2] = z
    BY <2>4
  <2>6. \A q \in S : p[1] < q[1] \/ (p[1] = q[1] /\ p[2] <= q[2])
    <3> SUFFICES ASSUME NEW q \in S, ~(p[1] < q[1])  PROVE p[1] = q[1] /\ p[2] <= q[2]
      OBVIOUS
    <3>1. q[1] \in Nat /\ x \in Nat /\ x <= q[1]
      BY <2>1, <2>2
    <3>2. q[1] = x
      BY <2>5, <3>1
    <3>3. q[2] \in Y
      BY <3>2
    <3> QED  BY <2>4, <2>5, <3>2, <3>3
  <2>7. First(S) \in S
    BY <2>6
  <2> HIDE DEF First
  <2> QED  BY <1>2, <2>7
<1>3. \/ hit = {}
      \/ Runs # {} /\ hit = First(Runs)[1]..First(Runs)[2]
      \/ Twos # {} /\ hit = {First(Twos)[1], First(Twos)[2]}
  BY Zenon DEF FindExact
<1>4. Runs \subseteq Pairs /\ Twos \subseteq Pairs
  OBVIOUS
<1> HIDE DEF First, Runs, Twos, Pairs
<1>5. hit \in SUBSET (1..N)
  BY <1>1, <1>2, <1>3, <1>4
<1>6. IsFiniteSet(1..N)
  BY <1>1, FS_Interval
<1> QED  BY <1>5, <1>6, FS_Subset

(* What a receipt may hold. *)
Claim  == [no : Nat, bill : Bills, amt : Nat]
Claims == {C \in SUBSET Claim : IsFiniteSet(C)}

Amounts == [c \in Claim |-> c.amt]

(* What is held of a bill is a natural. *)
LEMMA HeldIs ==
  ASSUME NEW C \in Claims, NEW b
  PROVE  Held(C, b) \in Nat
<1> DEFINE S == {c \in C : c.bill = b}
           Terms(g) == [t \in SUBSET S |-> IF t = {} THEN 0 ELSE Pick(t).amt + g[t \ {Pick(t)}]]
           h == CHOOSE g : g = Terms(g)
<1>1. IsFiniteSet(S) /\ S \subseteq Claim
  BY FS_Subset DEF Claims
<1>2. Held(C, b) = h[S]
  BY DEF Held, MapThenSumSet, MapThenFoldSet, Pick
<1> HIDE DEF S
<1>3. \A c \in S : Amounts[c] = c.amt /\ Amounts[c] \in Nat
  BY <1>1 DEF Amounts, Claim
<1>4. \A t \in SUBSET S : t # {} => Amounts[Pick(t)] = Pick(t).amt
  BY <1>3, PickIn
<1>5. Summable(Amounts, S) /\ SumOf(Amounts, S) \in Nat
  BY <1>1, <1>3, SumNatural DEF Summable
<1>6. \A g : g = Terms(g) <=> Adds(g, Amounts, S)
  BY <1>4 DEF Adds
<1> HIDE DEF Terms
<1>7. Adds(h, Amounts, S)
  BY <1>5, <1>6, Solvable
<1>8. SumOf(Amounts, S) = h[S]
  BY <1>5, <1>7, SumBy
<1> QED  BY <1>2, <1>5, <1>8

(* What is not held of a bill: no more than its balance; all of it where   *)
(* nothing is held.                                                        *)
LEMMA UnheldIs ==
  ASSUME NEW k \in Books, NEW C \in Claims, NEW b \in Bills
  PROVE  Unheld(k, C)[b] \in Int /\ Unheld(k, C)[b] <= Balance(k, b)
<1>1. Held(C, b) \in Nat /\ Balance(k, b) \in Nat
  BY HeldIs, BalanceIs
<1> QED  BY <1>1 DEF Unheld

(* Where nothing is held, a bill is open for its balance. *)
LEMMA NothingHeld == {} \in Claims /\ \A k \in Books, b \in Bills : Unheld(k, {})[b] = Balance(k, b)
<1>1. {} \in Claims
  BY FS_EmptySet DEF Claims
<1>2. ASSUME NEW b  PROVE Held({}, b) = 0
  <2>1. {c \in {} : c.bill = b} = {}
    OBVIOUS
  <2>2. Summable(Amounts, {})
    BY FS_EmptySet DEF Summable
  <2> DEFINE Terms(g) == [t \in SUBSET {} |-> IF t = {} THEN 0 ELSE Pick(t).amt + g[t \ {Pick(t)}]]
             h == CHOOSE g : g = Terms(g)
  <2>3. Held({}, b) = h[{}]
    BY <2>1 DEF Held, MapThenSumSet, MapThenFoldSet, Pick
  <2>4. \E g : g = Terms(g)
    <3>1. [t \in SUBSET {} |-> 0] = Terms([t \in SUBSET {} |-> 0])
      OBVIOUS
    <3> QED  BY <3>1
  <2>5. h = Terms(h)
    BY <2>4
  <2> HIDE DEF h
  <2> QED  BY <2>3, <2>5
<1>3. ASSUME NEW k \in Books, NEW b \in Bills  PROVE Unheld(k, {})[b] = Balance(k, b)
  <2>1. Balance(k, b) \in Nat
    BY BalanceIs
  <2> QED  BY <1>2, <2>1 DEF Unheld
<1> QED  BY <1>1, <1>3

(* The open bills a receipt may look at. *)
LEMMA OpenInIs ==
  ASSUME NEW k \in Books, NEW r \in Voucher, NEW bal
  PROVE  /\ OpenIn(k, r, bal) \in Seq(Bills) /\ IsInjective(OpenIn(k, r, bal))
         /\ \A i \in DOMAIN OpenIn(k, r, bal) :
              LET b == OpenIn(k, r, bal)[i] IN k.bills[b].on /\ Balance(k, b) > 0 /\ bal[b] > 0
<1> DEFINE s == InvoicePending(k, r.date)
           S == {b \in Bills : bal[b] > 0}
           t == OpenIn(k, r, bal)
<1>1. r.date \in Nat
  BY DEF Voucher
<1>2. s \in Seq(Bills) /\ IsInjective(s) /\ \A i \in DOMAIN s : k.bills[s[i]].on /\ Balance(k, s[i]) > 0
  BY <1>1, DueBills
<1>3. t = Among(s, S)
  BY DEF OpenIn
<1>4. /\ t \in Seq(Bills) /\ IsInjective(t)
      /\ \A i \in DOMAIN t : t[i] \in S /\ \E j \in DOMAIN s : s[j] = t[i]
  <2>1. s \in Seq(Bills) /\ IsInjective(s)
    BY <1>2
  <2> HIDE DEF s, t, S
  <2> QED  BY <1>3, <2>1, AmongOf
<1> HIDE DEF s, t
<1>5. \A i \in DOMAIN t : k.bills[t[i]].on /\ Balance(k, t[i]) > 0 /\ bal[t[i]] > 0
  BY <1>2, <1>4
<1>6. t = OpenIn(k, r, bal)
  BY DEF t
<1> QED  BY <1>4, <1>5, <1>6, Zenon

(* What a receipt holds by its amount are claims. *)
LEMMA HoldsAreClaims ==
  ASSUME NEW r \in Voucher, NEW open \in Seq(Bills), NEW bal, NEW intent,
         \A i \in DOMAIN open : bal[open[i]] \in Nat
  PROVE  HoldsByAmount(r, open, bal, intent) \in Claims
<1> DEFINE hit == FindExact(open, bal, r.amt)
           C == {[no |-> r.no, bill |-> open[i], amt |-> bal[open[i]]] : i \in hit}
           f == [i \in hit |-> [no |-> r.no, bill |-> open[i], amt |-> bal[open[i]]]]
<1>1. hit \in SUBSET (1..Len(open)) /\ IsFiniteSet(hit)
  BY ExactPlaces
<1>2. HoldsByAmount(r, open, bal, intent) \in {{}, C}
  BY DEF HoldsByAmount
<1> HIDE DEF hit
<1>3. C = {f[i] : i \in hit}
  OBVIOUS
<1>4. IsFiniteSet({f[i] : i \in hit})
  <2> HIDE DEF f
  <2> QED  BY <1>1, ImageOf
<1>5. C \subseteq Claim
  <2>1. r.no \in Nat /\ \A i \in hit : open[i] \in Bills /\ bal[open[i]] \in Nat
    BY <1>1 DEF Voucher
  <2> QED  BY <2>1 DEF Claim
<1> HIDE DEF C, f
<1>6. C \in Claims
  BY <1>3, <1>4, <1>5 DEF Claims
<1> QED  BY <1>2, <1>6, NothingHeld

(* Claims of two kinds together are claims, *)
LEMMA ClaimsTogether ==
  ASSUME NEW C \in Claims, NEW D \in Claims
  PROVE  C \cup D \in Claims
BY FS_Union DEF Claims

(* and so are some of them. *)
LEMMA ClaimsPart ==
  ASSUME NEW C \in Claims, NEW D, D \subseteq C
  PROVE  D \in Claims
BY FS_Subset DEF Claims

(* What the named receipts among some hold. *)
LEMMA ClaimsOfIs ==
  ASSUME NEW k \in Books, NEW rs \in Seq(Voucher)
  PROVE  ClaimsOf(k, rs) \in Claims
<1> DEFINE R == {s \in ToSet(rs) : s.how = Against}
           Part(r, b) == {e \in DOMAIN k.paid : e.by = r.no /\ e.bill = b}
           P == R \X Bills
           f == [q \in P |-> [no |-> q[1].no, bill |-> q[2], amt |-> SumOf(k.paid, Part(q[1], q[2]))]]
           C == {f[q] : q \in P}
<1>1. IsFiniteSet(R) /\ R \subseteq Voucher
  <2>1. IsFiniteSet(1..Len(rs)) /\ ToSet(rs) = {rs[i] : i \in 1..Len(rs)} /\ ToSet(rs) \subseteq Voucher
    <3>1. Len(rs) \in Nat /\ DOMAIN rs = 1..Len(rs) /\ \A i \in 1..Len(rs) : rs[i] \in Voucher
      OBVIOUS
    <3>2. IsFiniteSet(1..Len(rs))
      BY <3>1, FS_Interval
    <3> QED  BY <3>1, <3>2 DEF ToSet
  <2>2. IsFiniteSet({rs[i] : i \in 1..Len(rs)})
    BY <2>1, ImageOf
  <2> QED  BY <2>1, <2>2, FS_Subset
<1>2. IsFiniteSet(Bills)
  BY FS_Interval, ReceiptsAssumption DEF Bills
<1>3. IsFiniteSet(P)
  BY <1>1, <1>2, FS_Product
<1>4. IsFiniteSet(C)
  <2> HIDE DEF f, P
  <2> QED  BY <1>3, ImageOf
<1>5. \A r, b : Total(k, LAMBDA e : e.by = r.no /\ e.bill = b) = SumOf(k.paid, Part(r, b))
  BY Zenon DEF Total, SumOf
<1>6. \A r, b : SumOf(k.paid, Part(r, b)) \in Nat
  BY PurseSums DEF Books
<1>7. ClaimsOf(k, rs)
        = {c \in {[no |-> r.no, bill |-> b, amt |-> SumOf(k.paid, Part(r, b))] : r \in R, b \in Bills} : c.amt > 0}
  BY DEF ClaimsOf, Total, SumOf
<1> HIDE DEF R, Part
<1>8. \A q \in P : f[q] \in Claim
  <2>1. \A r \in R : r.no \in Nat
    BY <1>1 DEF Voucher
  <2> QED  BY <1>6, <2>1 DEF Claim
<1>9. {[no |-> r.no, bill |-> b, amt |-> SumOf(k.paid, Part(r, b))] : r \in R, b \in Bills} \subseteq C
  <2> SUFFICES ASSUME NEW r \in R, NEW b \in Bills
               PROVE  [no |-> r.no, bill |-> b, amt |-> SumOf(k.paid, Part(r, b))] \in C
    <3> HIDE DEF C
    <3> QED  OBVIOUS
  <2>1. <<r, b>> \in P /\ f[<<r, b>>] = [no |-> r.no, bill |-> b, amt |-> SumOf(k.paid, Part(r, b))]
    OBVIOUS
  <2> HIDE DEF f, P
  <2> QED  BY <2>1
<1> HIDE DEF f, P
<1>10. C \in Claims
  BY <1>4, <1>8 DEF Claims
<1> QED  BY <1>7, <1>9, <1>10, ClaimsPart

(* The claims with those that receipts make by their amount. *)
LEMMA ClaimExactIs ==
  ASSUME NEW k \in Books, NEW rs \in Seq(Voucher), NEW claims \in Claims, NEW intent
  PROVE  ClaimExact(k, rs, claims, intent) \in Claims
<1> DEFINE s == Among(rs, {r \in ToSet(rs) : r.how = "AUTOMATIC"})
           N == Len(s)
           A == Claims
           base == claims
           op(held, r) == held \cup HoldsByAmount(r, OpenIn(k, r, Unheld(k, held)), Unheld(k, held), intent)
           Solves(g) == g = [p \in SUBSET (1..N) |->
                               IF p = {} THEN base ELSE op(g[p \ {Max(p)}], s[Max(p)])]
           h == CHOOSE g : Solves(g)
           I == [n \in 0..N |-> A]
<1>a. s \in Seq(Voucher)
  BY AmongOf
<1>c. ClaimExact(k, rs, claims, intent) = FoldLeft(op, base, s)
  BY DEF ClaimExact
<1> HIDE DEF s
<1>1. ClaimExact(k, rs, claims, intent) = h[1..N]
  <2>1. DOMAIN s = 1..N
    BY <1>a
  <2> HIDE DEF N
  <2> QED  BY <1>c, <2>1 DEF FoldLeft, MapThenFoldSet
<1>b. N \in Nat /\ DOMAIN s = 1..N /\ \A n \in 1..N : s[n] \in Voucher
  BY <1>a
<1>0. base \in A /\ \A n \in 1..N : \A held \in A : op(held, s[n]) \in A
  <2> SUFFICES ASSUME NEW n \in 1..N, NEW held \in Claims
               PROVE  op(held, s[n]) \in Claims
    OBVIOUS
  <2> DEFINE bal == Unheld(k, held)
             open == OpenIn(k, s[n], bal)
  <2>1. s[n] \in Voucher
    BY <1>b
  <2>2. open \in Seq(Bills) /\ \A i \in DOMAIN open : bal[open[i]] > 0 /\ open[i] \in Bills
    <3> HIDE DEF bal
    <3> QED  BY <2>1, OpenInIs
  <2>3. \A i \in DOMAIN open : bal[open[i]] \in Nat
    <3>1. \A b \in Bills : bal[b] \in Int
      BY UnheldIs
    <3> HIDE DEF bal, open
    <3> QED  BY <2>2, <3>1
  <2>4. op(held, s[n]) = held \cup HoldsByAmount(s[n], open, bal, intent)
    OBVIOUS
  <2> HIDE DEF bal, open, op
  <2>5. HoldsByAmount(s[n], open, bal, intent) \in Claims
    BY <2>1, <2>2, <2>3, HoldsAreClaims
  <2> QED  BY <2>4, <2>5, ClaimsTogether
<1>2. Solves(h)
  <2> DEFINE F == [n \in 1..N |-> [t \in A |-> op(t, s[n])]]
  <2> HIDE DEF N, A, base, op, h
  <2>1. F \in [1..N -> [A -> A]]
    BY <1>0
  <2> HIDE DEF F
  <2>2. PICK g \in [SUBSET (1..N) -> A] : Folding(g, F, base, N)
    BY <1>b, <1>0, <2>1, FoldSolves, Zenon
  <2>3. Solves(g)
    BY <1>b, <1>0, <2>2, PlacesLeft DEF F, Folding
  <2> QED  BY <2>3 DEF h
<1>3. h[1..0] \in I[0]
  <2>1. h[1..0] = base
    <3>1. 1..0 = {} /\ {} \in SUBSET (1..N)
      OBVIOUS
    <3> QED  BY <1>2, <3>1
  <2> HIDE DEF h
  <2> QED  BY <1>b, <1>0, <2>1
<1>4. ASSUME NEW n \in 1..N, h[1..(n - 1)] \in I[n - 1]
      PROVE  h[1..n] \in I[n]
  <2>1. h[1..n] = op(h[1..(n - 1)], s[n])
    <3>1. Max(1..n) = n /\ (1..n) \ {n} = 1..(n - 1) /\ 1..n # {} /\ 1..n \in SUBSET (1..N)
      BY <1>b, LastPlace
    <3> HIDE DEF op
    <3> QED  BY <1>2, <3>1
  <2> HIDE DEF h, op, A
  <2>2. n - 1 \in 0..N /\ n \in 0..N
    BY <1>b
  <2> QED  BY <1>0, <1>4, <2>1, <2>2
<1>5. h[1..N] \in I[N]
  <2> HIDE DEF h, I
  <2> QED  BY <1>b, <1>3, <1>4, FoldKeeps
<1> HIDE DEF h
<1> QED  BY <1>1, <1>5, <1>b

(***************************************************************************)
(* Settling one receipt.                                                   *)
(***************************************************************************)
(* The rows a receipt pays: bills that are due, each once, with what it    *)
(* may pay of them.                                                        *)
LEMMA RowsAre ==
  ASSUME NEW k \in Books, NEW r \in Money, NEW own, NEW C \in Claims,
         r.how = Against => C = {}
  PROVE  LET t == RowsFor(k, r, own, Unheld(k, C))
         IN  /\ t \in Seq(Bills) /\ IsInjective(t)
             /\ \A i \in DOMAIN t : /\ k.bills[t[i]].on /\ Balance(k, t[i]) > 0
                                    /\ Unheld(k, C)[t[i]] \in Nat
                                    /\ Unheld(k, C)[t[i]] <= Balance(k, t[i])
<1> DEFINE bal == Unheld(k, C)
           t == RowsFor(k, r, own, bal)
           Good(u) ==
             /\ u \in Seq(Bills) /\ IsInjective(u)
             /\ \A i \in DOMAIN u : /\ k.bills[u[i]].on /\ Balance(k, u[i]) > 0
                                    /\ bal[u[i]] \in Nat /\ bal[u[i]] <= Balance(k, u[i])
<1>1. r \in Voucher /\ r.how \in Modes /\ r.date \in Nat /\ r.ticked \in Seq(Bills) /\ IsInjective(r.ticked)
  BY DEF Money, Voucher
<1>6. Against # "ADVANCE" /\ Against # "AUTOMATIC"
  BY Zenon DEF Against
<1>2. \A b \in Bills : bal[b] \in Int /\ bal[b] <= Balance(k, b) /\ Balance(k, b) \in Nat
  BY UnheldIs, BalanceIs
<1>3. CASE r.how = "ADVANCE"
  <2>1. t = <<>>
    BY <1>3, <1>6 DEF RowsFor
  <2> HIDE DEF t, bal
  <2>2. Good(<<>>)
    <3>1. DOMAIN <<>> = {} /\ <<>> \in Seq(Bills)
      OBVIOUS
    <3>2. IsInjective(<<>>)
      BY <3>1, Zenon DEF IsInjective
    <3> QED  BY <3>1, <3>2, Zenon
  <2> HIDE DEF Good
  <2>3. Good(t)
    BY <2>1, <2>2
  <2> QED  BY <2>3 DEF t, bal, Good
<1>4. CASE r.how = Against
  <2> DEFINE s == InvoicePending(k, r.date)
  <2>1. t = Among(r.ticked, ToSet(s))
    BY <1>4, <1>6 DEF RowsFor, TickedOpen
  <2>2. s \in Seq(Bills) /\ \A i \in DOMAIN s : k.bills[s[i]].on /\ Balance(k, s[i]) > 0
    BY <1>1, DueBills
  <2>3. \A b \in Bills : bal[b] = Balance(k, b)
    BY <1>4, NothingHeld
  <2> HIDE DEF s, t, bal
  <2>4. /\ t \in Seq(Bills) /\ IsInjective(t)
        /\ \A i \in DOMAIN t : t[i] \in ToSet(s)
    BY <1>1, <2>1, AmongOf
  <2>9. \A i \in DOMAIN t : \E j \in DOMAIN s : t[i] = s[j]
    BY <2>4, Zenon DEF ToSet
  <2>8. \A i \in DOMAIN t : t[i] \in Bills
    BY <2>4
  <2>5. \A i \in DOMAIN t : t[i] \in Bills /\ k.bills[t[i]].on /\ Balance(k, t[i]) > 0
    BY <2>2, <2>8, <2>9, Zenon
  <2>6. \A i \in DOMAIN t : bal[t[i]] \in Nat /\ bal[t[i]] <= Balance(k, t[i])
    BY <1>2, <2>3, <2>5
  <2>7. Good(t)
    BY <2>4, <2>5, <2>6
  <2> HIDE DEF Good
  <2> QED  BY <2>7 DEF t, bal, Good
<1>5. CASE r.how = "AUTOMATIC"
  <2> DEFINE open == OpenIn(k, r, bal)
             named == {c.bill : c \in own}
             x == Among(open, named)
             y == Among(open, Bills \ named)
  <2>1. t = x \o y
    BY <1>5, <1>6 DEF RowsFor
  <2>2. /\ open \in Seq(Bills) /\ IsInjective(open)
        /\ \A i \in DOMAIN open : k.bills[open[i]].on /\ Balance(k, open[i]) > 0 /\ bal[open[i]] > 0
    <3> HIDE DEF bal
    <3> QED  BY <1>1, OpenInIs
  <2> HIDE DEF open, named, t, bal
  <2>c. open \in Seq(Bills) /\ IsInjective(open)
    BY <2>2, Zenon
  <2>d. \A i \in DOMAIN open : open[i] \in Bills
    BY <2>c
  <2>e. \A b \in Bills : bal[b] > 0 => bal[b] \in Nat
    BY <1>2
  <2>3. \A i \in DOMAIN open : open[i] \in Bills /\ bal[open[i]] \in Nat /\ bal[open[i]] <= Balance(k, open[i])
    BY <1>2, <2>2, <2>d, <2>e, Zenon
  <2>4. /\ x \in Seq(Bills) /\ IsInjective(x)
        /\ \A i \in DOMAIN x : x[i] \in named /\ \E j \in DOMAIN open : open[j] = x[i]
    BY <2>c, AmongOf
  <2> DEFINE others == Bills \ named
  <2> HIDE DEF others
  <2>5. /\ y \in Seq(Bills) /\ IsInjective(y)
        /\ \A i \in DOMAIN y : y[i] \in others /\ \E j \in DOMAIN open : open[j] = y[i]
    <3>1. y = Among(open, others)
      BY DEF others
    <3> HIDE DEF y
    <3> QED  BY <2>c, <3>1, AmongOf
  <2> HIDE DEF x, y
  <2>6. /\ x \o y \in Seq(Bills)
        /\ \A i \in DOMAIN (x \o y) :
             \/ \E j \in DOMAIN x : (x \o y)[i] = x[j]
             \/ \E j \in DOMAIN y : (x \o y)[i] = y[j]
        /\ (\A i \in DOMAIN x, j \in DOMAIN y : x[i] # y[j]) => IsInjective(x \o y)
    <3>1. x \in Seq(Bills) /\ y \in Seq(Bills) /\ IsInjective(x) /\ IsInjective(y)
      BY <2>4, <2>5
    <3> QED  BY <3>1, InARow
  <2>7. \A i \in DOMAIN x, j \in DOMAIN y : x[i] # y[j]
    BY <2>4, <2>5 DEF others
  <2>8. t \in Seq(Bills) /\ IsInjective(t) /\ \A i \in DOMAIN t : \E j \in DOMAIN open : open[j] = t[i]
    <3>1. \A i \in DOMAIN t : \E j \in DOMAIN open : open[j] = t[i]
      <4>1. \A i \in DOMAIN x : \E j \in DOMAIN open : open[j] = x[i]
        BY <2>4
      <4>2. \A i \in DOMAIN y : \E j \in DOMAIN open : open[j] = y[i]
        BY <2>5
      <4> QED  BY <2>1, <2>6, <4>1, <4>2
    <3> QED  BY <2>1, <2>6, <2>7, <3>1
  <2>9. Good(t)
    BY <2>2, <2>3, <2>8
  <2> HIDE DEF Good
  <2> QED  BY <2>9 DEF t, bal, Good
<1> QED  BY <1>1, <1>3, <1>4, <1>5 DEF Modes

(* What is left of a receipt and of the money, what is drawn and paid.     *)
Acc == {a \in [left : Nat, size : Nat, drawn : Nat, paid : Purse] : a.left <= a.size}

(* One row: what it may pay of the bill, at most, the receipt's own cash   *)
(* alone where the bill is kept off the advance.                           *)
LEMMA PayRowPays ==
  ASSUME NEW k \in Books, NEW r \in Voucher, NEW bal, NEW pots \in Seq(PotSet), NEW acc \in Acc,
         NEW b \in Bills, bal[b] \in Nat
  PROVE  LET n == PayRow(k, r, bal, pots, acc, b)
         IN  /\ n \in Acc /\ n.left <= acc.left
             /\ OnBill(n.paid, b) <= OnBill(acc.paid, b) + bal[b]
             /\ \A c \in Bills \ {b} : OnBill(n.paid, c) = OnBill(acc.paid, c)
             /\ \A e \in DOMAIN n.paid : \/ e \in DOMAIN acc.paid
                                         \/ e.fund = Cash
                                         \/ ~k.bills[e.bill].kept
<1> DEFINE kept == k.bills[b].kept
           need == Lowest(bal[b], IF k.bills[b].kept THEN acc.left ELSE acc.size)
           cash == Lowest(need, acc.left)
           p == acc.paid
           q == Rupees(b, r.no, Cash, cash)
           s == FromPots(pots, acc.drawn, b, need - cash)
           n == [left |-> acc.left - cash, size |-> acc.size - need, drawn |-> acc.drawn + need - cash,
                 paid |-> p (+) q (+) s]
<1>1. n = PayRow(k, r, bal, pots, acc, b)
  BY DEF PayRow
<1>2. /\ acc.left \in Nat /\ acc.size \in Nat /\ acc.drawn \in Nat /\ p \in Purse /\ acc.left <= acc.size
      /\ r.no \in Nat
  BY DEF Acc, Voucher
<1>3. /\ need \in Nat /\ cash \in Nat /\ need - cash \in Nat
      /\ need <= bal[b] /\ cash <= acc.left /\ need <= acc.size
      /\ acc.left - cash <= acc.size - need
      /\ kept => need - cash = 0
  BY <1>2 DEF Lowest
<1> HIDE DEF need, cash
<1>4. /\ q \in Purse
      /\ \A e \in DOMAIN q : e.fund = Cash
      /\ \A c \in Bills : OnBill(q, c) = IF c = b /\ cash > 0 THEN cash ELSE 0
  <2>1. r.no \in Int /\ Cash \in Int /\ cash \in Int
    BY <1>2, <1>3 DEF Cash
  <2> HIDE DEF n, s, p, kept
  <2>2. /\ q \in Purse
        /\ \A e \in DOMAIN q : cash > 0 /\ e.bill = b /\ e.fund = Cash
        /\ \A c \in Bills : OnBill(q, c) = IF c = b /\ cash > 0 THEN cash ELSE 0
    BY <2>1, RupeesAre
  <2> QED  BY <2>2
<1>5. /\ s \in Purse
      /\ \A e \in DOMAIN s : e.bill = b /\ need - cash > 0
      /\ OnBill(s, b) <= need - cash
      /\ \A c \in Bills \ {b} : OnBill(s, c) = 0
  BY <1>2, <1>3, DrawnFromPots
<1> HIDE DEF p, q, s
<1>6. /\ p (+) q \in Purse
      /\ DOMAIN (p (+) q) = DOMAIN p \cup DOMAIN q
      /\ \A c \in Bills : OnBill(p (+) q, c) = OnBill(p, c) + OnBill(q, c)
  BY <1>2, <1>4, PursesTogether
<1>7. /\ p (+) q (+) s \in Purse
      /\ DOMAIN (p (+) q (+) s) = DOMAIN (p (+) q) \cup DOMAIN s
      /\ \A c \in Bills : OnBill(p (+) q (+) s, c) = OnBill(p (+) q, c) + OnBill(s, c)
  BY <1>5, <1>6, PursesTogether
<1> DEFINE m == p (+) q (+) s
<1> HIDE DEF m
<1>8. OnBill(m, b) <= OnBill(p, b) + bal[b]
  <2>1. OnBill(m, b) = OnBill(p, b) + OnBill(q, b) + OnBill(s, b)
    BY <1>6, <1>7 DEF m
  <2>2. OnBill(p, b) \in Nat /\ OnBill(q, b) = cash /\ OnBill(s, b) \in Nat /\ OnBill(s, b) <= need - cash
    <3>1. OnBill(q, b) = cash
      BY <1>3, <1>4
    <3> QED  BY <1>2, <1>5, <3>1, OnBillNatural
  <2> QED  BY <1>3, <2>1, <2>2
<1>9. \A c \in Bills \ {b} : OnBill(m, c) = OnBill(p, c)
  <2> SUFFICES ASSUME NEW c \in Bills \ {b}  PROVE OnBill(m, c) = OnBill(p, c)
    OBVIOUS
  <2>1. OnBill(m, c) = OnBill(p, c) + OnBill(q, c) + OnBill(s, c)
    BY <1>6, <1>7 DEF m
  <2>2. OnBill(p, c) \in Nat /\ OnBill(q, c) = 0 /\ OnBill(s, c) = 0
    BY <1>2, <1>4, <1>5, OnBillNatural
  <2> QED  BY <2>1, <2>2
<1>10. \A e \in DOMAIN m : e \in DOMAIN p \/ e.fund = Cash \/ ~k.bills[e.bill].kept
  BY <1>3, <1>4, <1>5, <1>6, <1>7 DEF m
<1>11. n.paid = m /\ n.left = acc.left - cash /\ n.size = acc.size - need /\ n.drawn = acc.drawn + need - cash
  BY DEF m
<1>12. n \in Acc /\ n.left <= acc.left
  <2>1. /\ acc.left - cash \in Nat /\ acc.size - need \in Nat /\ acc.drawn + need - cash \in Nat /\ m \in Purse
        /\ acc.left - cash <= acc.left
    BY <1>2, <1>3, <1>7 DEF m
  <2>2. n = [left |-> acc.left - cash, size |-> acc.size - need, drawn |-> acc.drawn + need - cash, paid |-> m]
    BY DEF m
  <2> HIDE DEF n
  <2> QED  BY <1>3, <2>1, <2>2 DEF Acc
<1> HIDE DEF n
<1> QED  BY <1>1, <1>8, <1>9, <1>10, <1>11, <1>12 DEF p

(* What was paid is such a purse. *)
LEMMA PaysWhatItDid ==
  ASSUME NEW k \in Books
  PROVE  Pays(k, k.paid)
<1>1. k.paid \in Purse
  BY DEF Books
<1>2. \A b \in Bills : OnBill(k.paid, b) <= OnBill(k.paid, b)
  <2>1. \A b \in Bills : OnBill(k.paid, b) \in Nat
    BY <1>1, OnBillNatural
  <2> QED  BY <2>1
<1> QED  BY <1>1, <1>2, Zenon DEF Pays

(* A bill that is due, paid no more than its balance, is not overpaid. *)
LEMMA WithinDue ==
  ASSUME NEW k \in Books, NEW b \in Bills, k.bills[b].on, Balance(k, b) > 0,
         NEW p \in Purse, OnBill(p, b) <= OnBill(k.paid, b) + Balance(k, b)
  PROVE  OnBill(p, b) <= Due(k, b)
<1>1. /\ Balance(k, b) = NotNegative(k.bills[b].amt - OnBill(k.paid, b))
      /\ OnBill(k.paid, b) \in Nat /\ k.bills[b].amt \in Nat
  BY BalanceIs
<1>2. OnBill(p, b) \in Nat
  BY OnBillNatural
<1>3. Due(k, b) = k.bills[b].amt
  BY Zenon DEF Due
<1>4. Balance(k, b) = k.bills[b].amt - OnBill(k.paid, b)
  BY <1>1 DEF NotNegative, Highest
<1> QED  BY <1>1, <1>2, <1>3, <1>4

(* All rows of a receipt. *)
AllRows(k, r, bal, pots, start, t) ==
  FoldLeft(LAMBDA acc, b : PayRow(k, r, bal, pots, acc, b), start, t)

(* What they pay. *)
LEMMA PaidRows ==
  ASSUME NEW k \in Books, NEW r \in Voucher, NEW bal, NEW pots \in Seq(PotSet),
         NEW start \in Acc, start.paid = k.paid, NEW t \in Seq(Bills), IsInjective(t),
         \A i \in DOMAIN t : /\ k.bills[t[i]].on /\ Balance(k, t[i]) > 0
                             /\ bal[t[i]] \in Nat /\ bal[t[i]] <= Balance(k, t[i])
  PROVE  LET end == AllRows(k, r, bal, pots, start, t)
         IN  end \in Acc /\ Pays(k, end.paid)
<1> DEFINE N == Len(t)
           A == Acc
           base == start
           op(acc, b) == PayRow(k, r, bal, pots, acc, b)
           Solves(g) == g = [p \in SUBSET (1..N) |->
                               IF p = {} THEN base ELSE op(g[p \ {Max(p)}], t[Max(p)])]
           h == CHOOSE g : Solves(g)
           Fits(n, acc) ==
             /\ Pays(k, acc.paid)
             /\ \A j \in (n + 1)..N : OnBill(acc.paid, t[j]) = OnBill(k.paid, t[j])
           I == [n \in 0..N |-> {acc \in A : Fits(n, acc)}]
<1>a. /\ N \in Nat /\ DOMAIN t = 1..N /\ \A n \in 1..N : t[n] \in Bills
  OBVIOUS
<1>b. \A n \in 1..N : bal[t[n]] \in Nat
  BY <1>a
<1>1. AllRows(k, r, bal, pots, start, t) = h[1..N]
  BY <1>a DEF AllRows, FoldLeft, MapThenFoldSet
<1>c. \A n \in 1..N : \A acc \in A :
        LET m == op(acc, t[n])
        IN  /\ m \in Acc
            /\ OnBill(m.paid, t[n]) <= OnBill(acc.paid, t[n]) + bal[t[n]]
            /\ \A c \in Bills \ {t[n]} : OnBill(m.paid, c) = OnBill(acc.paid, c)
            /\ \A e \in DOMAIN m.paid : \/ e \in DOMAIN acc.paid
                                        \/ e.fund = Cash
                                        \/ ~k.bills[e.bill].kept
  BY <1>a, <1>b, PayRowPays
<1>0. base \in A /\ \A n \in 1..N : \A acc \in A : op(acc, t[n]) \in A
  BY <1>c, Zenon
<1>2. Solves(h)
  <2> DEFINE F == [n \in 1..N |-> [acc \in A |-> op(acc, t[n])]]
  <2> HIDE DEF N, A, base, op, h
  <2>1. F \in [1..N -> [A -> A]]
    BY <1>0
  <2> HIDE DEF F
  <2>2. PICK g \in [SUBSET (1..N) -> A] : Folding(g, F, base, N)
    BY <1>a, <1>0, <2>1, FoldSolves, Zenon
  <2>3. Solves(g)
    BY <1>a, <1>0, <2>2, PlacesLeft DEF F, Folding
  <2> QED  BY <2>3 DEF h
<1>3. h[1..0] \in I[0]
  <2>1. h[1..0] = base
    <3>1. 1..0 = {} /\ {} \in SUBSET (1..N)
      OBVIOUS
    <3> QED  BY <1>2, <3>1
  <2> HIDE DEF h
  <2>2. Pays(k, k.paid)
    BY PaysWhatItDid
  <2>3. Fits(0, base)
    BY <2>2
  <2> HIDE DEF Fits
  <2> QED  BY <1>a, <1>0, <2>1, <2>3
<1>4. ASSUME NEW n \in 1..N, h[1..(n - 1)] \in I[n - 1]
      PROVE  h[1..n] \in I[n]
  <2> DEFINE acc == h[1..(n - 1)]
             b == t[n]
             m == op(acc, b)
  <2>1. h[1..n] = m
    <3>1. Max(1..n) = n /\ (1..n) \ {n} = 1..(n - 1) /\ 1..n # {} /\ 1..n \in SUBSET (1..N)
      BY <1>a, LastPlace
    <3> HIDE DEF op
    <3> QED  BY <1>2, <3>1
  <2> HIDE DEF h
  <2>2. acc \in A /\ Fits(n - 1, acc)
    <3>1. n - 1 \in 0..N
      BY <1>a
    <3> HIDE DEF acc, Fits, A
    <3> QED  BY <1>4, <3>1 DEF acc
  <2> HIDE DEF acc
  <2>3. /\ m \in Acc
        /\ OnBill(m.paid, b) <= OnBill(acc.paid, b) + bal[b]
        /\ \A c \in Bills \ {b} : OnBill(m.paid, c) = OnBill(acc.paid, c)
        /\ \A e \in DOMAIN m.paid : \/ e \in DOMAIN acc.paid
                                    \/ e.fund = Cash
                                    \/ ~k.bills[e.bill].kept
    BY <1>c, <2>2, Zenon
  <2> HIDE DEF m, op
  <2>4. b \in Bills /\ k.bills[b].on /\ Balance(k, b) > 0 /\ bal[b] \in Nat /\ bal[b] <= Balance(k, b)
    BY <1>a
  <2>5. OnBill(acc.paid, b) = OnBill(k.paid, b)
    <3>1. n \in ((n - 1) + 1)..N
      BY <1>a
    <3> QED  BY <2>2, <3>1
  <2> HIDE DEF b
  <2>6. OnBill(m.paid, b) <= Due(k, b)
    <3>1. m.paid \in Purse
      BY <2>3 DEF Acc
    <3>2. OnBill(m.paid, b) <= OnBill(k.paid, b) + Balance(k, b)
      <4>1. OnBill(m.paid, b) \in Nat /\ OnBill(k.paid, b) \in Nat /\ Balance(k, b) \in Nat
        BY <2>4, <3>1, OnBillNatural, BalanceIs
      <4> QED  BY <2>3, <2>4, <2>5, <4>1
    <3> QED  BY <2>4, <3>1, <3>2, WithinDue
  <2>7. Pays(k, m.paid)
    <3>1. m.paid \in Purse
      BY <2>3 DEF Acc
    <3>2. \A e \in DOMAIN m.paid : e \in DOMAIN k.paid \/ e.fund = Cash \/ ~k.bills[e.bill].kept
      BY <2>2, <2>3, Zenon DEF Pays
    <3>3. \A c \in Bills : OnBill(m.paid, c) <= OnBill(k.paid, c) \/ OnBill(m.paid, c) <= Due(k, c)
      <4> SUFFICES ASSUME NEW c \in Bills
                   PROVE  OnBill(m.paid, c) <= OnBill(k.paid, c) \/ OnBill(m.paid, c) <= Due(k, c)
        OBVIOUS
      <4>1. CASE c = b
        BY <2>6, <4>1
      <4>2. CASE c # b
        <5>1. OnBill(m.paid, c) = OnBill(acc.paid, c)
          BY <2>3, <4>2
        <5> QED  BY <2>2, <5>1 DEF Pays
      <4> QED  BY <4>1, <4>2
    <3> QED  BY <3>1, <3>2, <3>3 DEF Pays
  <2>8. ASSUME NEW j \in (n + 1)..N
        PROVE  OnBill(m.paid, t[j]) = OnBill(k.paid, t[j])
    <3>1. j \in 1..N /\ j # n /\ j \in ((n - 1) + 1)..N
      BY <1>a, <2>8
    <3>2. t[j] # b /\ t[j] \in Bills
      BY <1>a, <3>1 DEF IsInjective, b
    <3>3. OnBill(acc.paid, t[j]) = OnBill(k.paid, t[j])
      BY <2>2, <3>1
    <3> QED  BY <2>3, <3>2, <3>3
  <2>9. Fits(n, m)
    BY <2>7, <2>8
  <2> HIDE DEF Fits
  <2>10. n \in 0..N
    BY <1>a
  <2> QED  BY <2>1, <2>3, <2>9, <2>10
<1>5. h[1..N] \in I[N]
  <2> HIDE DEF h, I
  <2> QED  BY <1>a, <1>3, <1>4, FoldKeeps
<1>6. h[1..N] \in Acc /\ Fits(N, h[1..N])
  <2>1. N \in 0..N
    BY <1>a
  <2> HIDE DEF h, Fits
  <2> QED  BY <1>5, <2>1
<1> HIDE DEF h
<1> QED  BY <1>1, <1>6

(* A voucher entered with what it cleared, paid and left. *)
LEMMA EnterFares ==
  ASSUME NEW k \in Books, NEW r \in Voucher, NEW cleared \in Nat, cleared <= OpeningPending(k),
         NEW end, end.left \in Nat, Pays(k, end.paid)
  PROVE  LET l == Enter(k, r, cleared, end)
         IN  Fares(k, l) /\ (r.how # Note => Alone(k, l))
<1> DEFINE row == [r EXCEPT !.cleared = cleared, !.parked = end.left,
                            !.adv = IF end.left > 0 /\ @ = 0 THEN NextAdvance(k) ELSE @]
           s == Append(k.vouchers, row)
           l == Enter(k, r, cleared, end)
<1>1. l = [k EXCEPT !.vouchers = s, !.paid = end.paid]
  BY DEF Enter
<1>2. row \in Voucher /\ row.how = r.how /\ row.cleared = cleared
  <2>1. NextAdvance(k) \in Nat
    BY NumbersOf
  <2> QED  BY <2>1 DEF Voucher
<1> HIDE DEF l, row
<1>3. k.vouchers \in Seq(Voucher)
  BY DEF Books
<1>4. /\ s \in Seq(Voucher) /\ Len(k.vouchers) \in Nat
      /\ DOMAIN s = 1..(Len(k.vouchers) + 1) /\ s[Len(k.vouchers) + 1] = row
      /\ DOMAIN k.vouchers = 1..Len(k.vouchers)
      /\ \A i \in DOMAIN k.vouchers : s[i] = k.vouchers[i]
  BY <1>2, <1>3
<1> HIDE DEF s
<1>5. \A i \in DOMAIN s : s[i] = row \/ s[i] \in ToSet(k.vouchers)
  <2> SUFFICES ASSUME NEW i \in DOMAIN s, i # Len(k.vouchers) + 1  PROVE s[i] \in ToSet(k.vouchers)
    BY <1>4
  <2>1. i \in DOMAIN k.vouchers
    BY <1>4
  <2> QED  BY <1>4, <2>1 DEF ToSet
<1>6. \A v \in ToSet(k.vouchers) : v \in ToSet(s)
  <2> SUFFICES ASSUME NEW i \in DOMAIN k.vouchers  PROVE k.vouchers[i] \in ToSet(s)
    BY DEF ToSet
  <2>1. i \in DOMAIN s
    BY <1>4
  <2> QED  BY <1>4, <2>1 DEF ToSet
<1>7. Fares(k, l) /\ (row.how # Note => Alone(k, l))
  BY <1>1, <1>2, <1>4, <1>5, <1>6, FaresBy
<1> QED  BY <1>2, <1>7 DEF l

(* A receipt settles: the books fare no worse. *)
LEMMA SettleFares ==
  ASSUME NEW k \in Books, NEW r \in Money, NEW reserved \in Claims, NEW own
  PROVE  Fares(k, Settle(k, r, reserved, own)) /\ Alone(k, Settle(k, r, reserved, own))
<1> DEFINE C == IF r.how = Against THEN {} ELSE reserved
           bal == Unheld(k, C)
           all == AdvancePending(k, r.date)
           pots == Each(all, LAMBDA p : [p EXCEPT !.by = r.no])
           start == AfterOpening(k, r, own)
           first == [left |-> start, size |-> start + Left(pots), drawn |-> 0, paid |-> k.paid]
           t == IF start = 0 THEN <<>> ELSE RowsFor(k, r, own, bal)
           end == AllRows(k, r, bal, pots, first, t)
           l == Enter(k, r, r.amt - start, end)
<1>1. Settle(k, r, reserved, own) = l
  BY DEF Settle, PayRows, AllRows
<1>2. /\ r \in Voucher /\ r.how # Note /\ r.amt \in Nat /\ r.date \in Nat /\ r.no \in Nat
      /\ k.paid \in Purse
  BY DEF Money, Voucher, Books
<1>3. C \in Claims /\ (r.how = Against => C = {})
  BY NothingHeld
<1>4. pots \in Seq(PotSet)
  <2>1. all \in Seq(PotSet)
    BY <1>2, PotsAre
  <2> HIDE DEF all
  <2> DEFINE s == [i \in DOMAIN all |-> [all[i] EXCEPT !.by = r.no]]
  <2>2. pots = s
    BY DEF Each
  <2>3. DOMAIN all = 1..Len(all) /\ Len(all) \in Nat /\ \A i \in 1..Len(all) : all[i] \in PotSet
    BY <2>1
  <2>4. s \in [1..Len(all) -> PotSet]
    BY <1>2, <2>3 DEF PotSet
  <2> HIDE DEF s, pots
  <2> QED  BY <2>2, <2>3, <2>4
<1> HIDE DEF pots, C
<1>5. start \in Nat /\ start <= r.amt /\ r.amt - start \in Nat /\ r.amt - start <= OpeningPending(k)
  <2>1. OpeningPending(k) \in Nat
    BY OpeningPendingIs
  <2> QED  BY <1>2, <2>1 DEF AfterOpening, Lowest
<1> HIDE DEF start
<1>6. first \in Acc /\ first.paid = k.paid
  <2>1. Left(pots) \in Nat
    BY <1>4, UptoIs
  <2> QED  BY <1>2, <1>5, <2>1 DEF Acc
<1> HIDE DEF first, bal
<1>7. /\ t \in Seq(Bills) /\ IsInjective(t)
      /\ \A i \in DOMAIN t : /\ k.bills[t[i]].on /\ Balance(k, t[i]) > 0
                             /\ bal[t[i]] \in Nat /\ bal[t[i]] <= Balance(k, t[i])
  <2>1. CASE start = 0
    <3>1. t = <<>>
      BY <2>1
    <3> HIDE DEF t
    <3>2. DOMAIN <<>> = {} /\ <<>> \in Seq(Bills)
      OBVIOUS
    <3> QED  BY <3>1, <3>2, Zenon DEF IsInjective
  <2>2. CASE start # 0
    <3>1. t = RowsFor(k, r, own, Unheld(k, C))
      BY <2>2 DEF bal
    <3> HIDE DEF t
    <3> QED  BY <1>3, <3>1, RowsAre, Zenon DEF bal
  <2> QED  BY <2>1, <2>2
<1> HIDE DEF t
<1>8. end \in Acc /\ Pays(k, end.paid)
  BY <1>2, <1>4, <1>6, <1>7, PaidRows
<1> HIDE DEF end
<1>9. end.left \in Nat
  BY <1>8 DEF Acc
<1>10. Fares(k, l) /\ (r.how # Note => Alone(k, l))
  <2>1. r \in Voucher /\ r.amt - start \in Nat /\ r.amt - start <= OpeningPending(k)
    BY <1>2, <1>5
  <2> QED  BY <1>8, <1>9, <2>1, EnterFares
<1> QED  BY <1>1, <1>2, <1>10

(***************************************************************************)
(* Rows paid from money on account alone.                                  *)
(***************************************************************************)
Spend == [size : Nat, drawn : Nat, paid : Purse]

SpendOn(k, pots, acc, b) ==
  LET need == Lowest(Balance(k, b), acc.size)
  IN  [size |-> acc.size - need, drawn |-> acc.drawn + need,
       paid |-> acc.paid (+) FromPots(pots, acc.drawn, b, need)]

Spent(k, pots, start, rows) == FoldLeft(LAMBDA acc, b : SpendOn(k, pots, acc, b), start, rows)

(* One row: no more than its balance. *)
LEMMA SpendOnPays ==
  ASSUME NEW k \in Books, NEW pots \in Seq(PotSet), NEW acc \in Spend, NEW b \in Bills
  PROVE  LET m == SpendOn(k, pots, acc, b)
         IN  /\ m \in Spend
             /\ OnBill(m.paid, b) <= OnBill(acc.paid, b) + Balance(k, b)
             /\ \A c \in Bills \ {b} : OnBill(m.paid, c) = OnBill(acc.paid, c)
             /\ \A e \in DOMAIN m.paid : e \in DOMAIN acc.paid \/ e.bill = b
<1> DEFINE need == Lowest(Balance(k, b), acc.size)
           p == acc.paid
           s == FromPots(pots, acc.drawn, b, need)
           m == [size |-> acc.size - need, drawn |-> acc.drawn + need, paid |-> p (+) s]
<1>1. m = SpendOn(k, pots, acc, b)
  BY DEF SpendOn
<1>2. acc.size \in Nat /\ acc.drawn \in Nat /\ p \in Purse
  BY DEF Spend
<1>3. need \in Nat /\ need <= acc.size /\ need <= Balance(k, b) /\ Balance(k, b) \in Nat
  <2>1. Balance(k, b) \in Nat
    BY BalanceIs
  <2> QED  BY <1>2, <2>1 DEF Lowest
<1> HIDE DEF need
<1>4. /\ s \in Purse
      /\ \A e \in DOMAIN s : e.bill = b
      /\ OnBill(s, b) <= need
      /\ \A c \in Bills \ {b} : OnBill(s, c) = 0
  BY <1>2, <1>3, DrawnFromPots
<1> HIDE DEF p, s
<1>5. /\ p (+) s \in Purse
      /\ DOMAIN (p (+) s) = DOMAIN p \cup DOMAIN s
      /\ \A c \in Bills : OnBill(p (+) s, c) = OnBill(p, c) + OnBill(s, c)
  BY <1>2, <1>4, PursesTogether
<1> DEFINE q == p (+) s
<1> HIDE DEF q
<1>6. OnBill(q, b) <= OnBill(p, b) + Balance(k, b)
  <2>1. OnBill(q, b) = OnBill(p, b) + OnBill(s, b)
    BY <1>5 DEF q
  <2>2. OnBill(p, b) \in Nat /\ OnBill(s, b) \in Nat
    BY <1>2, <1>4, OnBillNatural
  <2> QED  BY <1>3, <1>4, <2>1, <2>2
<1>7. \A c \in Bills \ {b} : OnBill(q, c) = OnBill(p, c)
  <2> SUFFICES ASSUME NEW c \in Bills \ {b}  PROVE OnBill(q, c) = OnBill(p, c)
    OBVIOUS
  <2>1. OnBill(q, c) = OnBill(p, c) + OnBill(s, c)
    BY <1>5 DEF q
  <2>2. OnBill(p, c) \in Nat /\ OnBill(s, c) = 0
    BY <1>2, <1>4, OnBillNatural
  <2> QED  BY <2>1, <2>2
<1>8. \A e \in DOMAIN q : e \in DOMAIN p \/ e.bill = b
  BY <1>4, <1>5 DEF q
<1>9. m.paid = q /\ m \in Spend
  <2>1. acc.size - need \in Nat /\ acc.drawn + need \in Nat /\ q \in Purse
    BY <1>2, <1>3, <1>5 DEF q
  <2>2. m = [size |-> acc.size - need, drawn |-> acc.drawn + need, paid |-> q]
    BY DEF q
  <2> HIDE DEF m
  <2> QED  BY <2>1, <2>2 DEF Spend
<1> HIDE DEF m
<1> QED  BY <1>1, <1>6, <1>7, <1>8, <1>9 DEF p

(* All rows. *)
LEMMA SpentPays ==
  ASSUME NEW k \in Books, NEW pots \in Seq(PotSet),
         NEW start \in Spend, start.paid = k.paid, NEW t \in Seq(Bills), IsInjective(t),
         \A i \in DOMAIN t : k.bills[t[i]].on /\ Balance(k, t[i]) > 0 /\ ~k.bills[t[i]].kept
  PROVE  Pays(k, Spent(k, pots, start, t).paid)
<1> DEFINE N == Len(t)
           A == Spend
           base == start
           op(acc, b) == SpendOn(k, pots, acc, b)
           Solves(g) == g = [p \in SUBSET (1..N) |->
                               IF p = {} THEN base ELSE op(g[p \ {Max(p)}], t[Max(p)])]
           h == CHOOSE g : Solves(g)
           Fits(n, acc) ==
             /\ Pays(k, acc.paid)
             /\ \A j \in (n + 1)..N : OnBill(acc.paid, t[j]) = OnBill(k.paid, t[j])
           I == [n \in 0..N |-> {acc \in A : Fits(n, acc)}]
<1>a. /\ N \in Nat /\ DOMAIN t = 1..N /\ \A n \in 1..N : t[n] \in Bills
  OBVIOUS
<1>1. Spent(k, pots, start, t) = h[1..N]
  BY <1>a DEF Spent, FoldLeft, MapThenFoldSet
<1>c. \A n \in 1..N : \A acc \in A :
        LET m == op(acc, t[n])
        IN  /\ m \in Spend
            /\ OnBill(m.paid, t[n]) <= OnBill(acc.paid, t[n]) + Balance(k, t[n])
            /\ \A c \in Bills \ {t[n]} : OnBill(m.paid, c) = OnBill(acc.paid, c)
            /\ \A e \in DOMAIN m.paid : e \in DOMAIN acc.paid \/ e.bill = t[n]
  BY <1>a, SpendOnPays
<1>0. base \in A /\ \A n \in 1..N : \A acc \in A : op(acc, t[n]) \in A
  BY <1>c, Zenon
<1>2. Solves(h)
  <2> DEFINE F == [n \in 1..N |-> [acc \in A |-> op(acc, t[n])]]
  <2> HIDE DEF N, A, base, op, h
  <2>1. F \in [1..N -> [A -> A]]
    BY <1>0
  <2> HIDE DEF F
  <2>2. PICK g \in [SUBSET (1..N) -> A] : Folding(g, F, base, N)
    BY <1>a, <1>0, <2>1, FoldSolves, Zenon
  <2>3. Solves(g)
    BY <1>a, <1>0, <2>2, PlacesLeft DEF F, Folding
  <2> QED  BY <2>3 DEF h
<1>3. h[1..0] \in I[0]
  <2>1. h[1..0] = base
    <3>1. 1..0 = {} /\ {} \in SUBSET (1..N)
      OBVIOUS
    <3> QED  BY <1>2, <3>1
  <2> HIDE DEF h
  <2>2. Pays(k, k.paid)
    BY PaysWhatItDid
  <2>3. Fits(0, base)
    BY <2>2
  <2> HIDE DEF Fits
  <2> QED  BY <1>a, <1>0, <2>1, <2>3
<1>4. ASSUME NEW n \in 1..N, h[1..(n - 1)] \in I[n - 1]
      PROVE  h[1..n] \in I[n]
  <2> DEFINE acc == h[1..(n - 1)]
             b == t[n]
             m == op(acc, b)
  <2>1. h[1..n] = m
    <3>1. Max(1..n) = n /\ (1..n) \ {n} = 1..(n - 1) /\ 1..n # {} /\ 1..n \in SUBSET (1..N)
      BY <1>a, LastPlace
    <3> HIDE DEF op
    <3> QED  BY <1>2, <3>1
  <2> HIDE DEF h
  <2>2. acc \in A /\ Fits(n - 1, acc)
    <3>1. n - 1 \in 0..N
      BY <1>a
    <3> HIDE DEF acc, Fits, A
    <3> QED  BY <1>4, <3>1 DEF acc
  <2> HIDE DEF acc
  <2>3. /\ m \in Spend
        /\ OnBill(m.paid, b) <= OnBill(acc.paid, b) + Balance(k, b)
        /\ \A c \in Bills \ {b} : OnBill(m.paid, c) = OnBill(acc.paid, c)
        /\ \A e \in DOMAIN m.paid : e \in DOMAIN acc.paid \/ e.bill = b
    BY <1>c, <2>2, Zenon
  <2> HIDE DEF m, op
  <2>4. b \in Bills /\ k.bills[b].on /\ Balance(k, b) > 0 /\ ~k.bills[b].kept
    BY <1>a
  <2>5. OnBill(acc.paid, b) = OnBill(k.paid, b)
    <3>1. n \in ((n - 1) + 1)..N
      BY <1>a
    <3> QED  BY <2>2, <3>1
  <2> HIDE DEF b
  <2>6. OnBill(m.paid, b) <= Due(k, b)
    <3>1. m.paid \in Purse
      BY <2>3 DEF Spend
    <3> QED  BY <2>3, <2>4, <2>5, <3>1, WithinDue
  <2>7. Pays(k, m.paid)
    <3>1. m.paid \in Purse
      BY <2>3 DEF Spend
    <3>2. \A e \in DOMAIN m.paid : e \in DOMAIN k.paid \/ e.fund = Cash \/ ~k.bills[e.bill].kept
      BY <2>2, <2>3, <2>4, Zenon DEF Pays
    <3>3. \A c \in Bills : OnBill(m.paid, c) <= OnBill(k.paid, c) \/ OnBill(m.paid, c) <= Due(k, c)
      BY <2>2, <2>3, <2>6, Zenon DEF Pays
    <3> QED  BY <3>1, <3>2, <3>3 DEF Pays
  <2>8. ASSUME NEW j \in (n + 1)..N
        PROVE  OnBill(m.paid, t[j]) = OnBill(k.paid, t[j])
    <3>1. j \in 1..N /\ j # n /\ j \in ((n - 1) + 1)..N
      BY <1>a, <2>8
    <3>2. t[j] # b /\ t[j] \in Bills
      BY <1>a, <3>1 DEF IsInjective, b
    <3>3. OnBill(acc.paid, t[j]) = OnBill(k.paid, t[j])
      BY <2>2, <3>1
    <3> QED  BY <2>3, <3>2, <3>3
  <2>9. Fits(n, m)
    BY <2>7, <2>8
  <2> HIDE DEF Fits
  <2>10. n \in 0..N
    BY <1>a
  <2> QED  BY <2>1, <2>3, <2>9, <2>10
<1>5. h[1..N] \in I[N]
  <2> HIDE DEF h, I
  <2> QED  BY <1>a, <1>3, <1>4, FoldKeeps
<1>6. h[1..N] \in Spend /\ Fits(N, h[1..N])
  <2>1. N \in 0..N
    BY <1>a
  <2> HIDE DEF h, Fits
  <2> QED  BY <1>5, <2>1
<1> HIDE DEF h
<1> QED  BY <1>1, <1>6

(* Vouchers taken out, whatever of the purse is changed well. *)
LEMMA FaresTakenOut ==
  ASSUME NEW k \in Books, NEW p, Pays(k, p), NEW s \in Seq(Voucher),
         \A i \in DOMAIN s : s[i] \in ToSet(k.vouchers)
  PROVE  LET l == [k EXCEPT !.vouchers = s, !.paid = p] IN Fares(k, l) /\ Alone(k, l)
<1> DEFINE row == [no |-> 0, date |-> 0, amt |-> 0, how |-> "ADVANCE", ticked |-> <<>>,
                   adv |-> 0, parked |-> 0, cleared |-> 0]
           l == [k EXCEPT !.vouchers = s, !.paid = p]
<1>1. row.how # Note
  BY Zenon DEF Note
<1>2. row \in Voucher
  <2>1. <<>> \in {t \in Seq(Bills) : IsInjective(t)}
    <3>1. <<>> \in Seq(Bills) /\ DOMAIN <<>> = {}
      OBVIOUS
    <3> QED  BY <3>1, Zenon DEF IsInjective
  <2>2. "ADVANCE" \in Modes
    BY Zenon DEF Modes
  <2> QED  BY <2>1, <2>2 DEF Voucher
<1>3. row.cleared <= OpeningPending(k)
  BY OpeningPendingIs
<1> HIDE DEF row
<1>4. l = [k EXCEPT !.vouchers = s, !.paid = p]
  OBVIOUS
<1> HIDE DEF l
<1>5. Fares(k, l) /\ (row.how # Note => Alone(k, l))
  BY <1>2, <1>3, <1>4, FaresBy
<1> QED  BY <1>1, <1>5 DEF l

(* The purse alone changed well. *)
LEMMA FaresPaid ==
  ASSUME NEW k \in Books, NEW p, Pays(k, p)
  PROVE  LET l == [k EXCEPT !.paid = p] IN Fares(k, l) /\ Alone(k, l)
<1>1. k.vouchers \in Seq(Voucher) /\ \A i \in DOMAIN k.vouchers : k.vouchers[i] \in ToSet(k.vouchers)
  BY DEF Books, ToSet
<1> DEFINE m == [k EXCEPT !.vouchers = k.vouchers, !.paid = p]
<1>2. Fares(k, m) /\ Alone(k, m)
  BY <1>1, FaresTakenOut
<1>3. m = [k EXCEPT !.paid = p]
  BY DEF Books
<1> HIDE DEF m
<1> QED  BY <1>2, <1>3

(* Part of what was paid. *)
LEMMA PaysPart ==
  ASSUME NEW k \in Books, NEW D \in SUBSET DOMAIN k.paid
  PROVE  Pays(k, [e \in D |-> k.paid[e]])
<1> DEFINE p == [e \in D |-> k.paid[e]]
<1>1. k.paid \in Purse
  BY DEF Books
<1>2. p \in Purse /\ \A b \in Bills : OnBill(p, b) <= OnBill(k.paid, b)
  BY <1>1, PursePart
<1>3. DOMAIN p = D
  OBVIOUS
<1> HIDE DEF p
<1>4. \A e \in DOMAIN p : e \in DOMAIN k.paid
  BY <1>3
<1>5. Pays(k, p)
  BY <1>2, <1>4, Zenon DEF Pays
<1> QED  BY <1>5 DEF p

(* What is on account is spent on the bills that are not kept off it. *)
LEMMA ApplyFares ==
  ASSUME NEW k \in Books
  PROVE  Fares(k, ApplyOnAccount(k)) /\ Alone(k, ApplyOnAccount(k))
<1> DEFINE pots == AdvancePending(k, MaxDay)
           s == InvoicePending(k, MaxDay)
           S == {b \in Bills : ~k.bills[b].kept}
           t == Among(s, S)
           start == [size |-> Left(pots), drawn |-> 0, paid |-> k.paid]
           p == Spent(k, pots, start, t).paid
<1>1. ApplyOnAccount(k) = [k EXCEPT !.paid = p]
  BY DEF ApplyOnAccount, PayFrom, Spent, SpendOn
<1>2. MaxDay \in Nat
  BY ReceiptsAssumption
<1>3. pots \in Seq(PotSet)
  BY <1>2, PotsAre
<1>4. s \in Seq(Bills) /\ IsInjective(s) /\ \A i \in DOMAIN s : k.bills[s[i]].on /\ Balance(k, s[i]) > 0
  BY <1>2, DueBills
<1> HIDE DEF pots, s
<1>5. /\ t \in Seq(Bills) /\ IsInjective(t)
      /\ \A i \in DOMAIN t : t[i] \in S /\ \E j \in DOMAIN s : s[j] = t[i]
  <2>1. s \in Seq(Bills) /\ IsInjective(s)
    BY <1>4
  <2> HIDE DEF S
  <2> QED  BY <2>1, AmongOf
<1> HIDE DEF t
<1>6. \A i \in DOMAIN t : k.bills[t[i]].on /\ Balance(k, t[i]) > 0 /\ ~k.bills[t[i]].kept
  BY <1>4, <1>5, Zenon
<1>7. start \in Spend /\ start.paid = k.paid
  <2>1. Left(pots) \in Nat /\ k.paid \in Purse
    BY <1>3, UptoIs DEF Books
  <2> QED  BY <2>1 DEF Spend
<1> HIDE DEF start
<1>8. Pays(k, p)
  BY <1>3, <1>5, <1>6, <1>7, SpentPays
<1> HIDE DEF p
<1> QED  BY <1>1, <1>8, FaresPaid

(* Receipts taken out with all that was paid from what they had parked. *)
LEMMA ReverseFares ==
  ASSUME NEW k \in Books, NEW rs
  PROVE  /\ Fares(k, ReverseChain(k, rs)) /\ Alone(k, ReverseChain(k, rs))
         /\ DOMAIN ReverseChain(k, rs).paid \subseteq DOMAIN k.paid
         /\ \A i \in DOMAIN ReverseChain(k, rs).vouchers :
              /\ ReverseChain(k, rs).vouchers[i] \in ToSet(k.vouchers)
              /\ \A j \in DOMAIN rs : ReverseChain(k, rs).vouchers[i].no # rs[j].no
<1> DEFINE nos == {r.no : r \in ToSet(rs)}
           advs == {r.adv : r \in ToSet(rs)} \ {0}
           D == {e \in DOMAIN k.paid : ~(e.by \in nos \/ e.fund \in advs)}
           p == [e \in D |-> k.paid[e]]
           S == {r \in ToSet(k.vouchers) : r.no \notin nos}
           s == Among(k.vouchers, S)
<1>1. ReverseChain(k, rs) = [k EXCEPT !.vouchers = s, !.paid = p]
  <2> DEFINE w == [k EXCEPT !.paid = p]
  <2>1. ReverseChain(k, rs) = [w EXCEPT !.vouchers = Among(w.vouchers, {r \in ToSet(w.vouchers) : r.no \notin nos})]
    BY DEF ReverseChain, Without
  <2>2. w.vouchers = k.vouchers
    BY DEF Books
  <2>3. ReverseChain(k, rs) = [w EXCEPT !.vouchers = s]
    <3> HIDE DEF w
    <3> QED  BY <2>1, <2>2
  <2> HIDE DEF p, s
  <2> QED  BY <2>3 DEF Books
<1>2. D \in SUBSET DOMAIN k.paid
  OBVIOUS
<1>9. \A v \in S : \A j \in DOMAIN rs : v.no # rs[j].no
  BY DEF ToSet
<1>10. DOMAIN p = D
  OBVIOUS
<1> HIDE DEF nos, advs, D
<1>3. Pays(k, p)
  BY <1>2, PaysPart
<1>4. k.vouchers \in Seq(Voucher)
  BY DEF Books
<1>5. s \in Seq(Voucher) /\ \A i \in DOMAIN s : s[i] \in S
  BY <1>4, AmongOf
<1>6. \A i \in DOMAIN s : s[i] \in ToSet(k.vouchers) /\ \A j \in DOMAIN rs : s[i].no # rs[j].no
  BY <1>5, <1>9
<1> HIDE DEF p, s
<1>7. s \in Seq(Voucher)
  BY <1>5
<1> DEFINE l == [k EXCEPT !.vouchers = s, !.paid = p]
<1>8. Fares(k, l) /\ Alone(k, l)
  BY <1>3, <1>6, <1>7, FaresTakenOut
<1>11. l.vouchers = s /\ l.paid = p
  BY DEF Books
<1> HIDE DEF l
<1>12. ReverseChain(k, rs) = l
  BY <1>1 DEF l
<1> QED  BY <1>2, <1>6, <1>8, <1>10, <1>11, <1>12

(***************************************************************************)
(* Settling receipts again.                                                *)
(***************************************************************************)
(* One receipt, giving up its hold. *)
ReplayOne(acc, r) ==
  LET hold == HoldsOf(acc.claims, r.no)
  IN  [k      |-> Settle(acc.k, r, acc.claims \ hold, IF r.how = "AUTOMATIC" THEN hold ELSE {}),
       claims |-> acc.claims \ hold]

(* One after the other. *)
LEMMA ReplayFares ==
  ASSUME NEW k \in Books, NEW rs \in Seq(Money), NEW claims \in Claims
  PROVE  Fares(k, ReplayInOrder(k, rs, claims)) /\ Alone(k, ReplayInOrder(k, rs, claims))
<1> DEFINE N == Len(rs)
           K == {l \in Books : Fares(k, l) /\ Alone(k, l)}
           A == [k : K, claims : Claims]
           base == [k |-> k, claims |-> claims]
           op(acc, r) == ReplayOne(acc, r)
           Solves(g) == g = [p \in SUBSET (1..N) |->
                               IF p = {} THEN base ELSE op(g[p \ {Max(p)}], rs[Max(p)])]
           h == CHOOSE g : Solves(g)
           I == [n \in 0..N |-> A]
<1>a. N \in Nat /\ DOMAIN rs = 1..N /\ \A n \in 1..N : rs[n] \in Money
  OBVIOUS
<1>b. ReplayInOrder(k, rs, claims) = FoldLeft(op, base, rs).k
  BY DEF ReplayInOrder, ReplayOne
<1>1. FoldLeft(op, base, rs) = h[1..N]
  BY <1>a DEF FoldLeft, MapThenFoldSet
<1>0. base \in A /\ \A n \in 1..N : \A acc \in A : op(acc, rs[n]) \in A
  <2>1. k \in K
    BY DEF Fares, Alone
  <2>2. base \in A
    <3> HIDE DEF K
    <3> QED  BY <2>1
  <2>3. ASSUME NEW n \in 1..N, NEW acc \in A
        PROVE  op(acc, rs[n]) \in A
    <3> DEFINE r == rs[n]
               hold == HoldsOf(acc.claims, r.no)
               C == acc.claims \ hold
               own == IF r.how = "AUTOMATIC" THEN hold ELSE {}
               l == Settle(acc.k, r, C, own)
    <3>1. acc.k \in Books /\ Fares(k, acc.k) /\ Alone(k, acc.k) /\ acc.claims \in Claims
      OBVIOUS
    <3>2. r \in Money
      BY <1>a
    <3>3. op(acc, r) = [k |-> l, claims |-> C]
      BY DEF ReplayOne
    <3> HIDE DEF hold, r, own, A, K
    <3>4. C \in Claims
      BY <3>1, ClaimsPart
    <3> HIDE DEF C
    <3>5. Fares(acc.k, l) /\ Alone(acc.k, l)
      BY <3>1, <3>2, <3>4, SettleFares
    <3> HIDE DEF l
    <3>6. Fares(k, l) /\ Alone(k, l) /\ l \in Books
      <4>1. l \in Books
        BY <3>5 DEF Fares
      <4> QED  BY <3>1, <3>5, <4>1, FaresOn
    <3>7. l \in K
      BY <3>6 DEF K
    <3> HIDE DEF op
    <3> QED  BY <3>3, <3>4, <3>7 DEF A, r
  <2> HIDE DEF A, op, base
  <2> QED  BY <2>2, <2>3
<1>2. Solves(h)
  <2> DEFINE F == [n \in 1..N |-> [acc \in A |-> op(acc, rs[n])]]
  <2> HIDE DEF N, A, base, op, h
  <2>1. F \in [1..N -> [A -> A]]
    BY <1>0
  <2> HIDE DEF F
  <2>2. PICK g \in [SUBSET (1..N) -> A] : Folding(g, F, base, N)
    BY <1>a, <1>0, <2>1, FoldSolves, Zenon
  <2>3. Solves(g)
    BY <1>a, <1>0, <2>2, PlacesLeft DEF F, Folding
  <2> QED  BY <2>3 DEF h
<1>3. h[1..0] \in I[0]
  <2>1. h[1..0] = base
    <3>1. 1..0 = {} /\ {} \in SUBSET (1..N)
      OBVIOUS
    <3> QED  BY <1>2, <3>1
  <2> HIDE DEF h, A, base
  <2> QED  BY <1>a, <1>0, <2>1
<1>4. ASSUME NEW n \in 1..N, h[1..(n - 1)] \in I[n - 1]
      PROVE  h[1..n] \in I[n]
  <2>1. h[1..n] = op(h[1..(n - 1)], rs[n])
    <3>1. Max(1..n) = n /\ (1..n) \ {n} = 1..(n - 1) /\ 1..n # {} /\ 1..n \in SUBSET (1..N)
      BY <1>a, LastPlace
    <3> HIDE DEF op
    <3> QED  BY <1>2, <3>1
  <2> HIDE DEF h, op, A
  <2>2. n - 1 \in 0..N /\ n \in 0..N
    BY <1>a
  <2> QED  BY <1>0, <1>4, <2>1, <2>2
<1>5. h[1..N] \in I[N]
  <2> HIDE DEF h, I
  <2> QED  BY <1>a, <1>3, <1>4, FoldKeeps
<1>6. h[1..N] \in A
  <2>1. N \in 0..N
    BY <1>a
  <2> HIDE DEF h, A
  <2> QED  BY <1>5, <2>1
<1>7. h[1..N].k \in K
  <2> HIDE DEF h, K
  <2> QED  BY <1>6
<1> HIDE DEF h, op, base
<1> QED  BY <1>b, <1>1, <1>7

(* What comes out settles again. *)
LEMMA SettleAgainFares ==
  ASSUME NEW k \in Books, NEW rest \in Books, NEW back \in Seq(Money), NEW intent
  PROVE  LET l == SettleAgain(k, rest, back, intent) IN Fares(rest, l) /\ Alone(rest, l)
<1> DEFINE C == ClaimExact(rest, back, ClaimsOf(k, back), intent)
<1>1. back \in Seq(Voucher)
  <2>1. \A i \in DOMAIN back : back[i] \in Voucher
    BY DEF Money
  <2> QED  BY <2>1, Narrow
<1>2. C \in Claims
  BY <1>1, ClaimsOfIs, ClaimExactIs
<1>3. SettleAgain(k, rest, back, intent) = ReplayInOrder(rest, back, C)
  BY DEF SettleAgain
<1> HIDE DEF C
<1> QED  BY <1>2, <1>3, ReplayFares

(* Some receipts come out, some settle, and what is on account is spent:   *)
(* the books fare no worse.                                                *)
LEMMA ResettleFares ==
  ASSUME NEW k \in Books, NEW out, NEW back \in Seq(Money), NEW intent
  PROVE  LET l == Resettle(k, out, back, intent) IN Fares(k, l) /\ Alone(k, l)
<1> DEFINE rest == ReverseChain(k, out)
           m == SettleAgain(k, rest, back, intent)
           l == ApplyOnAccount(m)
<1>1. Fares(k, rest) /\ Alone(k, rest)
  BY ReverseFares, Zenon
<1>2. rest \in Books
  BY <1>1, Zenon DEF Fares
<1> HIDE DEF rest
<1>3. Fares(rest, m) /\ Alone(rest, m)
  BY <1>2, SettleAgainFares
<1>4. m \in Books
  BY <1>3, Zenon DEF Fares
<1> HIDE DEF m
<1>5. Fares(m, l) /\ Alone(m, l)
  BY <1>4, ApplyFares
<1> HIDE DEF l
<1>6. Fares(k, l) /\ Alone(k, l)
  <2>1. Fares(k, m) /\ Alone(k, m)
    BY <1>1, <1>3, FaresOn
  <2> QED  BY <1>5, <2>1, FaresOn
<1>7. Resettle(k, out, back, intent) = l
  BY DEF Resettle, rest, m, l
<1> QED  BY <1>6, <1>7

(***************************************************************************)
(* The receipts that operations take out and settle again.                 *)
(***************************************************************************)
(* Those that settle after a day. *)
LEMMA ChainAfterIs ==
  ASSUME NEW k \in Books, NEW day
  PROVE  ChainAfter(k, day) \in Seq(Money)
<1> DEFINE S == {r \in ToSet(k.vouchers) : r.date > day}
           s == Among(Receipts(k), S)
<1>1. Receipts(k) \in Seq(Money)
  BY ReceiptsOf
<1>2. s \in Seq(Money)
  <2> HIDE DEF S
  <2> QED  BY <1>1, AmongOf
<1>3. ChainAfter(k, day) = Arrival(s)
  BY DEF ChainAfter
<1> HIDE DEF s
<1> QED  BY <1>2, <1>3, ArrivalOf

(* The end of a sequence. *)
LEMMA TailOf ==
  ASSUME NEW T, NEW s \in Seq(T), NEW m \in 1..Len(s)
  PROVE  SubSeq(s, m, Len(s)) \in Seq(T)
OBVIOUS

(* Those from the earliest holder of what an amount names. *)
LEMMA HoldersIs ==
  ASSUME NEW k \in Books, NEW day, NEW amt
  PROVE  HoldersOfExact(k, day, amt) \in Seq(Money)
<1> DEFINE S == {r \in ToSet(k.vouchers) : r.date <= day}
           s == Among(Receipts(k), S)
           upTo == Arrival(s)
<1>1. Receipts(k) \in Seq(Money)
  BY ReceiptsOf
<1>2. s \in Seq(Money)
  <2> HIDE DEF S
  <2> QED  BY <1>1, AmongOf
<1>3. upTo \in Seq(Money)
  <2> HIDE DEF s
  <2> QED  BY <1>2, ArrivalOf
<1> DEFINE autos == {r.no : r \in {v \in ToSet(upTo) : v.how = "AUTOMATIC"}}
           bare  == Without(k, LAMBDA e : e.by \in autos)
           open  == InvoicePending(bare, day)
           hit   == FindExact(open, [b \in Bills |-> Balance(bare, b)], amt)
           owners == {e.by : e \in {x \in DOMAIN k.paid : \E i \in hit : x.bill = open[i]}}
           both  == autos \cap owners
           P     == {i \in 1..Len(upTo) : upTo[i].no \in both}
           first == IF P # {} THEN Min(P) ELSE 0
           chain == IF OldestInARow(hit) \/ first = 0 THEN <<>> ELSE SubSeq(upTo, first, Len(upTo))
<1>4. HoldersOfExact(k, day, amt) = chain
  <2> HIDE DEF S
  <2> QED  BY DEF HoldersOfExact, SelectInSeq, S
<1> HIDE DEF upTo, autos, hit, both
<1>5. first = 0 \/ first \in 1..Len(upTo)
  <2>1. P \subseteq Nat /\ P \subseteq 1..Len(upTo)
    OBVIOUS
  <2> HIDE DEF P
  <2>2. ASSUME P # {}  PROVE Min(P) \in P
    <3>1. \E m \in P : \A n \in P : m <= n
      BY <2>1, <2>2, LeastOf
    <3> QED  BY <3>1 DEF Min
  <2> QED  BY <2>1, <2>2
<1> HIDE DEF first
<1>6. chain \in Seq(Money)
  BY <1>3, <1>5, TailOf
<1> QED  BY <1>4, <1>6

(* The receipt at a place and those after it. *)
LEMMA ReplayChainIs ==
  ASSUME NEW k \in Books, NEW i, NEW newDay
  PROVE  ReplayChain(k, i, newDay) \in Seq(Money)
<1> DEFINE rs == Receipts(k)
           anchor == Lowest(rs[i].date, newDay)
           D == DOMAIN rs
           s == [j \in D |-> j]
           S == {j \in D : j = i \/ rs[j].date > anchor \/ (rs[j].date = anchor /\ j > i)}
           places == Among(s, S)
           chain == [n \in DOMAIN places |-> rs[places[n]]]
<1>1. rs \in Seq(Money)
  BY ReceiptsOf
<1>2. ReplayChain(k, i, newDay) = chain
  BY DEF ReplayChain
<1> HIDE DEF rs, S
<1>3. s \in Seq(D)
  BY <1>1
<1> HIDE DEF s
<1>4. places \in Seq(D)
  BY <1>3, AmongOf
<1> HIDE DEF places
<1>5. DOMAIN places = 1..Len(places) /\ Len(places) \in Nat /\ \A n \in DOMAIN places : rs[places[n]] \in Money
  BY <1>1, <1>4
<1>6. chain \in [1..Len(places) -> Money]
  BY <1>5
<1> HIDE DEF chain
<1>7. chain \in Seq(Money)
  BY <1>5, <1>6
<1> QED  BY <1>2, <1>7

(* Other parties park money: the books are what they were. *)
LEMMA CommitFares ==
  ASSUME NEW k \in Books, Commit(k)
  PROVE  Fares(k, books') /\ Alone(k, books')
<1> DEFINE A == {r.adv : r \in ToSet(k.vouchers)}
           T == {k.elsewhere} \cup A
           other == IF OthersPark THEN Max(T) ELSE k.elsewhere
           l == [k EXCEPT !.elsewhere = other]
<1>1. books' = l
  BY DEF Commit
<1>2. other \in Nat
  <2>1. k.elsewhere \in Nat /\ IsFiniteSet(ToSet(k.vouchers)) /\ ToSet(k.vouchers) \subseteq Voucher
    BY ClearedIs DEF Books
  <2>2. IsFiniteSet(A) /\ A \subseteq Nat
    <3> DEFINE f == [r \in ToSet(k.vouchers) |-> r.adv]
    <3>1. A = {f[r] : r \in ToSet(k.vouchers)}
      OBVIOUS
    <3>2. A \subseteq Nat
      BY <2>1 DEF Voucher
    <3> HIDE DEF A, f
    <3> QED  BY <2>1, <3>1, <3>2, ImageOf
  <2> HIDE DEF A
  <2>3. IsFiniteSet(T) /\ T \subseteq Nat /\ T # {}
    <3>1. T = A \cup {k.elsewhere}
      OBVIOUS
    <3> HIDE DEF T
    <3> QED  BY <2>1, <2>2, <3>1, FS_AddElement
  <2> HIDE DEF T
  <2> QED  BY <2>1, <2>3, GreatestOf
<1> HIDE DEF other
<1>3. /\ l \in Books /\ l.bills = k.bills /\ l.opening = k.opening
      /\ l.paid = k.paid /\ l.vouchers = k.vouchers
  BY <1>2 DEF Books
<1> HIDE DEF l
<1>4. Cleared(l) = Cleared(k)
  BY <1>3 DEF Cleared
<1>5. Fares(k, l) /\ Alone(k, l)
  BY <1>3, <1>4 DEF Fares, Alone, KeptSafe, PaidSafe, OpeningSafe, NoNotes, Due
<1> QED  BY <1>1, <1>5

(***************************************************************************)
(* Operations on receipts.                                                 *)
(***************************************************************************)
(* What the operations on receipts share: some receipts taken out, some    *)
(* settled, what is on account spent.                                      *)
LEMMA ResettledFares ==
  ASSUME NEW k \in Books, NEW out, NEW back \in Seq(Money), NEW intent,
         Commit(Resettle(k, out, back, intent))
  PROVE  Fares(k, books') /\ Alone(k, books')
<1> DEFINE l == Resettle(k, out, back, intent)
<1>1. Fares(k, l) /\ Alone(k, l) /\ Commit(l)
  BY ResettleFares
<1> HIDE DEF l
<1>2. l \in Books
  BY <1>1, Zenon DEF Fares
<1>3. Fares(l, books') /\ Alone(l, books')
  BY <1>1, <1>2, CommitFares
<1> QED  BY <1>1, <1>3, FaresOn

(* Entering a receipt. *)
LEMMA SaveFares ==
  ASSUME books \in Books, NEW day \in Days, NEW amt \in ReceiptAmounts, NEW how \in Modes,
         NEW ticked \in Seq(Bills), IsInjective(ticked), Save(day, amt, how, ticked)
  PROVE  Fares(books, books') /\ Alone(books, books')
<1> DEFINE fresh   == Receipt(books.lastNo + 1, day, amt, how, ticked)
           later   == ChainAfter(books, day)
           earlier == IF how = "AUTOMATIC" THEN HoldersOfExact(books, day, amt) ELSE <<>>
           intent  == IF earlier = <<>> THEN NoVoucher ELSE fresh.no
           k == [books EXCEPT !.lastNo = fresh.no]
           back == earlier \o <<fresh>> \o later
<1>1. Commit(Resettle(k, earlier \o later, back, intent))
  BY DEF Save
<1>2. fresh \in Money /\ fresh.no \in Nat
  <2>1. books.lastNo \in Nat /\ day \in Nat /\ amt \in Nat
    BY ReceiptsAssumption DEF Books, Days
  <2>2. Note \notin Modes
    BY Zenon DEF Modes, Note, Against
  <2> QED  BY <2>1, <2>2 DEF Receipt, Money, Voucher
<1>3. later \in Seq(Money)
  BY ChainAfterIs
<1>4. earlier \in Seq(Money)
  BY HoldersIs
<1>5. k \in Books /\ k.bills = books.bills /\ k.opening = books.opening
      /\ k.paid = books.paid /\ k.vouchers = books.vouchers
  BY <1>2 DEF Books
<1> HIDE DEF fresh, later, earlier, intent, k
<1>6. back \in Seq(Money)
  BY <1>2, <1>3, <1>4
<1> DEFINE out == earlier \o later
<1> HIDE DEF back, out
<1>7. Fares(k, books') /\ Alone(k, books')
  BY <1>1, <1>5, <1>6, ResettledFares DEF out
<1>8. Fares(books, k) /\ Alone(books, k)
  <2>1. Cleared(k) = Cleared(books)
    BY <1>5 DEF Cleared
  <2> QED  BY <1>5, <2>1 DEF Fares, Alone, KeptSafe, PaidSafe, OpeningSafe, NoNotes, Due
<1> QED  BY <1>7, <1>8, FaresOn

(* Correcting one. *)
LEMMA EditFares ==
  ASSUME books \in Books, NEW i, NEW day \in Days, NEW amt \in ReceiptAmounts, EditReceipt(i, day, amt)
  PROVE  Fares(books, books') /\ Alone(books, books')
<1> DEFINE chain == ReplayChain(books, i, day)
           no == Receipts(books)[i].no
           Corrected(r) == IF r.no = no THEN [r EXCEPT !.date = day, !.amt = amt] ELSE r
           s == [n \in DOMAIN chain |-> Corrected(chain[n])]
<1>1. Commit(Resettle(books, chain, Arrival(s), NoVoucher))
  BY DEF EditReceipt
<1>2. chain \in Seq(Money)
  BY ReplayChainIs
<1> HIDE DEF chain, no
<1>3. s \in Seq(Money)
  <2>1. day \in Nat /\ amt \in Nat
    BY ReceiptsAssumption DEF Days
  <2>2. DOMAIN chain = 1..Len(chain) /\ Len(chain) \in Nat /\ \A n \in DOMAIN chain : chain[n] \in Money
    BY <1>2
  <2>3. \A r \in Money : Corrected(r) \in Money
    BY <2>1 DEF Money, Voucher
  <2> HIDE DEF Corrected
  <2>4. s \in [1..Len(chain) -> Money]
    BY <2>2, <2>3
  <2> HIDE DEF s
  <2> QED  BY <2>2, <2>4
<1> HIDE DEF s
<1>4. Arrival(s) \in Seq(Money)
  BY <1>3, ArrivalOf
<1> QED  BY <1>1, <1>4, ResettledFares

(* Deleting some. *)
LEMMA DeleteFares ==
  ASSUME books \in Books, NEW is, DeleteReceipts(is)
  PROVE  Fares(books, books') /\ Alone(books, books')
<1> DEFINE rs == Receipts(books)
           earliest == CHOOSE i \in is : \A j \in is : rs[i].date < rs[j].date \/ (rs[i].date = rs[j].date /\ i <= j)
           chain == ReplayChain(books, earliest, rs[earliest].date)
           gone  == {rs[i].no : i \in is}
           S == {r \in ToSet(chain) : r.no \notin gone}
           s == Among(chain, S)
<1>1. Commit(Resettle(books, chain, Arrival(s), NoVoucher))
  BY DEF DeleteReceipts
<1> HIDE DEF earliest
<1>2. chain \in Seq(Money)
  BY ReplayChainIs
<1> HIDE DEF chain, S
<1>3. s \in Seq(Money)
  BY <1>2, AmongOf
<1> HIDE DEF s
<1>4. Arrival(s) \in Seq(Money)
  BY <1>3, ArrivalOf
<1> QED  BY <1>1, <1>4, ResettledFares

(***************************************************************************)
(* Operations on what is owed.                                             *)
(***************************************************************************)
(* An opening balance is changed: all receipts settle again, and where no  *)
(* note has cleared any of it, no more is cleared than there is.           *)
LEMMA OpeningFares ==
  ASSUME books \in Books, NEW amt \in Int, SaveOpening(amt)
  PROVE  /\ books' \in Books /\ books'.bills = books.bills /\ books'.opening = amt /\ Alone(books, books')
         /\ KeptSafe(books) => KeptSafe(books')
         /\ PaidSafe(books) => PaidSafe(books')
         /\ NoNotes(books) => OpeningSafe(books')
<1> DEFINE k == [books EXCEPT !.opening = amt]
           D == {e \in DOMAIN k.paid : ~(e.fund = Credit)}
           p == [e \in D |-> k.paid[e]]
           w == Without(k, LAMBDA e : e.fund = Credit)
           rest == ReverseChain(w, Receipts(k))
           back == Arrival(Receipts(k))
           m == SettleAgain(w, rest, back, NoVoucher)
           l == ApplyOnAccount(m)
<1>1. Commit(l)
  BY DEF SaveOpening, ResettleParty, Resettle
<1>2. k \in Books /\ k.bills = books.bills /\ k.paid = books.paid /\ k.vouchers = books.vouchers /\ k.opening = amt
  BY DEF Books
<1> HIDE DEF k
<1>3. Fares(k, w) /\ Alone(k, w) /\ w.vouchers = k.vouchers
  <2>1. w = [k EXCEPT !.paid = p]
    BY DEF Without
  <2>2. D \in SUBSET DOMAIN k.paid
    OBVIOUS
  <2> HIDE DEF D, w
  <2>3. Pays(k, p)
    BY <1>2, <2>2, PaysPart
  <2> HIDE DEF p
  <2> DEFINE v == [k EXCEPT !.paid = p]
  <2>4. Fares(k, v) /\ Alone(k, v)
    BY <1>2, <2>3, FaresPaid
  <2>5. v.vouchers = k.vouchers
    BY <1>2 DEF Books
  <2> HIDE DEF v
  <2> QED  BY <2>1, <2>4, <2>5 DEF v
<1>4. w \in Books
  BY <1>3, Zenon DEF Fares
<1> HIDE DEF w
<1>5. Fares(w, rest) /\ Alone(w, rest)
  BY <1>4, ReverseFares
<1>6. rest \in Books
  BY <1>5, Zenon DEF Fares
<1>7. NoNotes(k) => OpeningSafe(rest)
  <2> SUFFICES ASSUME NoNotes(k)  PROVE OpeningSafe(rest)
    OBVIOUS
  <2> DEFINE rs == Receipts(k)
  <2>1. \A i \in DOMAIN k.vouchers : \E j \in DOMAIN rs : k.vouchers[i] = rs[j]
    BY <1>2, ReceiptsAll
  <2>2. \A i \in DOMAIN rest.vouchers : /\ rest.vouchers[i] \in ToSet(w.vouchers)
                                        /\ \A j \in DOMAIN rs : rest.vouchers[i].no # rs[j].no
    BY <1>4, ReverseFares
  <2> HIDE DEF rs, rest
  <2>3. DOMAIN rest.vouchers = {}
    <3> SUFFICES ASSUME NEW i \in DOMAIN rest.vouchers  PROVE FALSE
      OBVIOUS
    <3>1. PICK n \in DOMAIN k.vouchers : rest.vouchers[i] = k.vouchers[n]
      BY <1>3, <2>2 DEF ToSet
    <3> QED  BY <2>1, <2>2, <3>1
  <2>4. ToSet(rest.vouchers) = {}
    BY <2>3 DEF ToSet
  <2>5. Cleared(rest) = 0
    <3>1. Summable(Dues, {}) /\ Cleared(rest) = SumOf(Dues, {})
      BY <1>6, <2>4, ClearedIs
    <3> QED  BY <3>1, SumOne
  <2>6. NotNegative(rest.opening) \in Nat
    BY <1>6, OpeningPendingIs
  <2> QED  BY <2>5, <2>6 DEF OpeningSafe
<1>8. back \in Seq(Money)
  <2>1. Receipts(k) \in Seq(Money)
    BY <1>2, ReceiptsOf
  <2> QED  BY <2>1, ArrivalOf
<1> HIDE DEF rest, back
<1>9. Fares(rest, m) /\ Alone(rest, m)
  BY <1>4, <1>6, <1>8, SettleAgainFares
<1>10. m \in Books
  BY <1>9, Zenon DEF Fares
<1> HIDE DEF m
<1>11. Fares(m, l) /\ Alone(m, l)
  BY <1>10, ApplyFares
<1>12. l \in Books
  BY <1>11, Zenon DEF Fares
<1> HIDE DEF l
<1>13. Fares(l, books') /\ Alone(l, books')
  BY <1>1, <1>12, CommitFares
<1>14. Fares(rest, books') /\ Alone(rest, books')
  <2>1. Fares(rest, l) /\ Alone(rest, l)
    BY <1>9, <1>11, FaresOn
  <2> QED  BY <1>13, <2>1, FaresOn
<1>15. Fares(k, books') /\ Alone(k, books')
  <2>1. Fares(k, rest) /\ Alone(k, rest)
    BY <1>3, <1>5, FaresOn
  <2> QED  BY <1>14, <2>1, FaresOn
<1>16. (KeptSafe(books) => KeptSafe(k)) /\ (PaidSafe(books) => PaidSafe(k)) /\ (NoNotes(books) <=> NoNotes(k))
  BY <1>2 DEF KeptSafe, PaidSafe, NoNotes, Due
<1>17. (KeptSafe(k) => KeptSafe(books')) /\ (PaidSafe(k) => PaidSafe(books')) /\ (OpeningSafe(rest) => OpeningSafe(books'))
       /\ books' \in Books /\ books'.bills = k.bills /\ books'.opening = k.opening
  BY <1>14, <1>15, Zenon DEF Fares
<1>18. Alone(books, books')
  BY <1>15, <1>16 DEF Alone
<1> QED  BY <1>2, <1>7, <1>16, <1>17, <1>18

(* A bill written, with part of what was paid.                             *)
LEMMA BillFares ==
  ASSUME NEW k \in Books, NEW b \in Bills, NEW new \in Bill, NEW D \in SUBSET DOMAIN k.paid
  PROVE  LET l == [k EXCEPT !.paid = [e \in D |-> k.paid[e]], !.bills[b] = new]
         IN  /\ l \in Books /\ Alone(k, l)
             /\ OpeningSafe(k) => OpeningSafe(l)
             /\ KeptSafe(k) /\ (new.kept => k.bills[b].kept \/ \A e \in D : e.bill = b => e.fund = Cash)
                  => KeptSafe(l)
             /\ PaidSafe(k) /\ \/ \A e \in D : e.bill # b
                               \/ new.on = k.bills[b].on /\ new.amt = k.bills[b].amt
                  => PaidSafe(l)
<1> DEFINE p == [e \in D |-> k.paid[e]]
           l == [k EXCEPT !.paid = p, !.bills[b] = new]
<1>1. k.paid \in Purse /\ k.bills \in [Bills -> Bill]
  BY DEF Books
<1>2. /\ p \in Purse /\ DOMAIN p = D
      /\ \A c \in Bills : OnBill(p, c) <= OnBill(k.paid, c)
      /\ \A c \in Bills : (\A e \in D : e.bill # c) => OnBill(p, c) = 0
  BY <1>1, PursePart
<1> HIDE DEF p
<1>3. /\ l \in Books /\ l.paid = p /\ l.vouchers = k.vouchers /\ l.opening = k.opening
      /\ l.bills[b] = new /\ \A c \in Bills \ {b} : l.bills[c] = k.bills[c]
  BY <1>1, <1>2 DEF Books
<1> HIDE DEF l
<1>4. Cleared(l) = Cleared(k)
  BY <1>3 DEF Cleared
<1>5. Alone(k, l) /\ (OpeningSafe(k) => OpeningSafe(l))
  BY <1>3, <1>4 DEF Alone, NoNotes, OpeningSafe
<1>6. ASSUME KeptSafe(k), new.kept => k.bills[b].kept \/ \A e \in D : e.bill = b => e.fund = Cash
      PROVE  KeptSafe(l)
  <2> SUFFICES ASSUME NEW e \in D, l.bills[e.bill].kept  PROVE e.fund = Cash
    BY <1>2, <1>3 DEF KeptSafe
  <2>1. e \in DOMAIN k.paid /\ e.bill \in Bills /\ (k.bills[e.bill].kept => e.fund = Cash)
    <3>1. e \in DOMAIN k.paid /\ e \in Item
      BY <1>1, PurseIs
    <3> QED  BY <1>6, <3>1 DEF KeptSafe, Item
  <2>2. CASE e.bill = b
    BY <1>3, <1>6, <2>1, <2>2
  <2>3. CASE e.bill # b
    BY <1>3, <2>1, <2>3
  <2> QED  BY <2>2, <2>3
<1>7. ASSUME PaidSafe(k), \/ \A e \in D : e.bill # b
                          \/ new.on = k.bills[b].on /\ new.amt = k.bills[b].amt
      PROVE  PaidSafe(l)
  <2> SUFFICES ASSUME NEW c \in Bills  PROVE OnBill(p, c) <= Due(l, c)
    BY <1>3 DEF PaidSafe
  <2>1. /\ OnBill(p, c) <= OnBill(k.paid, c) /\ OnBill(p, c) \in Nat /\ OnBill(k.paid, c) \in Nat
        /\ OnBill(k.paid, c) <= Due(k, c)
    BY <1>1, <1>2, <1>7, OnBillNatural DEF PaidSafe
  <2>2. Due(k, c) \in Nat /\ Due(l, c) \in Nat
    BY <1>1, <1>3 DEF Due, Bill, Books
  <2>3. CASE Due(l, c) = Due(k, c)
    BY <2>1, <2>2, <2>3
  <2>4. CASE c = b /\ \A e \in D : e.bill # b
    BY <1>2, <2>2, <2>4
  <2>5. CASE c = b /\ new.on = k.bills[b].on /\ new.amt = k.bills[b].amt
    <3>1. Due(l, c) = Due(k, c)
      BY <1>3, <2>5 DEF Due
    <3> QED  BY <2>3, <3>1
  <2>6. CASE c # b
    <3>1. Due(l, c) = Due(k, c)
      BY <1>3, <2>6 DEF Due
    <3> QED  BY <2>3, <3>1
  <2> QED  BY <1>7, <2>4, <2>5, <2>6
<1>8. l = [k EXCEPT !.paid = [e \in D |-> k.paid[e]], !.bills[b] = new]
  BY DEF l, p
<1> QED  BY <1>3, <1>5, <1>6, <1>7, <1>8

(* Books of which no bill and no opening balance fares worse. *)
Sound(k, l) ==
  /\ l \in Books
  /\ KeptSafe(k) => KeptSafe(l)
  /\ PaidSafe(k) => PaidSafe(l)
  /\ OpeningSafe(k) => OpeningSafe(l)

(* Books that fare no worse are sound, and so is one change after another. *)
LEMMA SoundOn ==
  /\ \A k, l : Fares(k, l) => Sound(k, l)
  /\ \A k, l, m : Sound(k, l) /\ Sound(l, m) => Sound(k, m)
  /\ \A k, l, m : Alone(k, l) /\ Alone(l, m) => Alone(k, m)
BY Zenon DEF Fares, Sound, Alone

(* What was paid on a bill from money on account is lifted off it. *)
LEMMA LiftIs ==
  ASSUME NEW k \in Books, NEW b
  PROVE  LET D == {e \in DOMAIN k.paid : ~(e.bill = b /\ e.fund # Cash)}
         IN  LiftOnAccount(k, b) = [k EXCEPT !.paid = [e \in D |-> k.paid[e]]]
BY DEF LiftOnAccount, Without

(* Saving a bill: it changes only when no cash has paid it, and the advance *)
(* is off it by then.                                                       *)
LEMMA SaveBillSound ==
  ASSUME books \in Books, NEW b \in Bills, NEW day \in Days, NEW amt \in BillAmounts,
         NEW answer \in Answers, SaveBill(b, day, amt, answer)
  PROVE  Sound(books, books') /\ Alone(books, books')
<1> DEFINE old == books.bills[b]
           new == [old EXCEPT !.on = TRUE, !.date = day, !.amt = amt, !.kept = Keeps(old, answer)]
           touches == [new EXCEPT !.kept = old.kept] # old
           lifts == touches \/ answer = "keep"
           off == {e \in DOMAIN books.paid : ~(e.bill = b /\ e.fund # Cash)}
           D == IF lifts THEN off ELSE DOMAIN books.paid
           p == [e \in D |-> books.paid[e]]
           l == [books EXCEPT !.paid = p, !.bills[b] = new]
           m == IF answer = "keep" THEN l ELSE ApplyOnAccount(l)
<1>1. books.paid = [e \in DOMAIN books.paid |-> books.paid[e]] /\ books.paid \in Purse
  BY PurseIs DEF Books
<1>2. [(IF lifts THEN LiftOnAccount(books, b) ELSE books) EXCEPT !.bills[b] = new] = l
  <2>1. (IF lifts THEN LiftOnAccount(books, b) ELSE books) = [books EXCEPT !.paid = p]
    <3>1. CASE lifts
      <4>1. LiftOnAccount(books, b) = [books EXCEPT !.paid = [e \in off |-> books.paid[e]]]
        BY LiftIs
      <4> HIDE DEF lifts, off
      <4> QED  BY <3>1, <4>1
    <3>2. CASE ~lifts
      <4>1. p = books.paid
        BY <1>1, <3>2
      <4> HIDE DEF p, lifts
      <4>2. [books EXCEPT !.paid = p] = books
        BY <4>1 DEF Books
      <4> QED  BY <3>2, <4>2
    <3> QED  BY <3>1, <3>2
  <2> HIDE DEF lifts, p, new
  <2> QED  BY <2>1 DEF Books
<1>3. (touches => ~Pinned(books, b)) /\ Commit(m)
  <2> HIDE DEF l
  <2> QED  BY <1>2 DEF SaveBill
<1>4. old \in Bill /\ new \in Bill /\ new.kept = Keeps(old, answer)
  <2>1. old \in Bill /\ day \in Nat /\ amt \in Nat
    BY ReceiptsAssumption DEF Books, Days
  <2>2. Keeps(old, answer) \in BOOLEAN
    BY <2>1 DEF Keeps, Bill
  <2> HIDE DEF old
  <2> QED  BY <2>1, <2>2 DEF Bill
<1>5. D \in SUBSET DOMAIN books.paid
  OBVIOUS
<1>6. new.kept => old.kept \/ \A e \in D : e.bill = b => e.fund = Cash
  <2>1. CASE answer = "keep"
    BY <2>1
  <2>2. CASE answer # "keep"
    <3> HIDE DEF D, old, new
    <3> QED  BY <1>4, <2>2 DEF Keeps
  <2> QED  BY <2>1, <2>2
<1>7. (\A e \in D : e.bill # b) \/ (new.on = old.on /\ new.amt = old.amt)
  <2>1. CASE touches
    <3>1. \A e \in DOMAIN books.paid : e.bill = b => e.fund # Cash
      BY <1>3, <2>1 DEF Pinned
    <3>2. D = off
      BY <2>1
    <3> HIDE DEF D
    <3> QED  BY <3>1, <3>2
  <2>2. CASE ~touches
    <3>1. [new EXCEPT !.kept = old.kept] = old
      BY <2>2
    <3> HIDE DEF new, old
    <3> QED  BY <1>4, <3>1 DEF Bill
  <2> QED  BY <2>1, <2>2
<1> HIDE DEF D, new
<1>8. Sound(books, l) /\ Alone(books, l)
  <2> DEFINE q == [books EXCEPT !.paid = [e \in D |-> books.paid[e]], !.bills[b] = new]
  <2>1. /\ q \in Books /\ Alone(books, q)
        /\ OpeningSafe(books) => OpeningSafe(q)
        /\ KeptSafe(books) /\ (new.kept => books.bills[b].kept \/ \A e \in D : e.bill = b => e.fund = Cash)
             => KeptSafe(q)
        /\ PaidSafe(books) /\ \/ \A e \in D : e.bill # b
                              \/ new.on = books.bills[b].on /\ new.amt = books.bills[b].amt
             => PaidSafe(q)
    BY <1>4, <1>5, BillFares
  <2>2. q = l
    OBVIOUS
  <2> HIDE DEF q, l
  <2> QED  BY <1>6, <1>7, <2>1, <2>2 DEF Sound
<1> HIDE DEF l
<1>9. l \in Books
  BY <1>8 DEF Sound
<1>10. Sound(l, m) /\ Alone(l, m)
  <2>1. CASE answer = "keep"
    BY <1>9, <2>1 DEF Sound, Alone
  <2>2. CASE answer # "keep"
    <3>1. Fares(l, m) /\ Alone(l, m)
      BY <1>9, <2>2, ApplyFares
    <3> QED  BY <3>1, SoundOn
  <2> QED  BY <2>1, <2>2
<1> HIDE DEF m
<1>11. m \in Books
  BY <1>10 DEF Sound
<1>12. Sound(m, books') /\ Alone(m, books')
  BY <1>3, <1>11, CommitFares, SoundOn
<1> QED  BY <1>8, <1>10, <1>12, SoundOn

(* Dropping one: no cash has paid it, and nothing else is left on it. *)
LEMMA DropBillSound ==
  ASSUME books \in Books, NEW b \in Bills,
         NEW after \in {NoBill, [books.bills[b] EXCEPT !.on = FALSE]}, DropBill(b, after)
  PROVE  Sound(books, books') /\ Alone(books, books')
<1> DEFINE D == {e \in DOMAIN books.paid : ~(e.bill = b /\ e.fund # Cash)}
           p == [e \in D |-> books.paid[e]]
           lifted == LiftOnAccount(books, b)
           l == [lifted EXCEPT !.bills[b] = after]
           q == [books EXCEPT !.paid = p, !.bills[b] = after]
           m == ApplyOnAccount(l)
<1>1. \A e \in DOMAIN books.paid : e.bill = b => e.fund # Cash
  BY DEF DropBill, Pinned
<1>2. Commit(m)
  BY DEF DropBill
<1>3. l = q
  <2>1. lifted = [books EXCEPT !.paid = p]
    BY LiftIs
  <2> HIDE DEF p, lifted
  <2> QED  BY <2>1 DEF Books
<1>4. after \in Bill
  <2>1. books.bills[b] \in Bill
    BY DEF Books
  <2>2. NoBill \in Bill
    BY DEF NoBill, Bill
  <2>3. \A old \in Bill : [old EXCEPT !.on = FALSE] \in Bill
    BY DEF Bill
  <2> QED  BY <2>1, <2>2, <2>3
<1>5. D \in SUBSET DOMAIN books.paid
  OBVIOUS
<1>6. \A e \in D : e.bill # b
  BY <1>1
<1> HIDE DEF D
<1>7. Sound(books, q) /\ Alone(books, q)
  BY <1>4, <1>5, <1>6, BillFares DEF Sound
<1> HIDE DEF l, q
<1>8. l \in Books /\ Sound(books, l) /\ Alone(books, l)
  BY <1>3, <1>7 DEF Sound
<1>9. Fares(l, m) /\ Alone(l, m)
  BY <1>8, ApplyFares
<1> HIDE DEF m
<1>10. m \in Books
  BY <1>9, Zenon DEF Fares
<1>11. Fares(m, books') /\ Alone(m, books')
  BY <1>2, <1>10, CommitFares
<1> QED  BY <1>8, <1>9, <1>11, SoundOn

(***************************************************************************)
(* Credit notes.                                                           *)
(***************************************************************************)
NoteAcc == [left : Nat, paid : Purse]

(* A note pays a bill. *)
NotePay(k, no, acc, b) ==
  LET use == Lowest(acc.left, Balance(k, b))
  IN  [left |-> acc.left - use, paid |-> acc.paid (+) Rupees(b, no, Cash, use)]

NotePaid(k, no, start, t) == FoldLeft(LAMBDA acc, b : NotePay(k, no, acc, b), start, t)

(* One bill: no more than its balance. *)
LEMMA NotePayPays ==
  ASSUME NEW k \in Books, NEW no \in Nat, NEW acc \in NoteAcc, NEW b \in Bills
  PROVE  LET m == NotePay(k, no, acc, b)
         IN  /\ m \in NoteAcc
             /\ OnBill(m.paid, b) <= OnBill(acc.paid, b) + Balance(k, b)
             /\ \A c \in Bills \ {b} : OnBill(m.paid, c) = OnBill(acc.paid, c)
             /\ \A e \in DOMAIN m.paid : e \in DOMAIN acc.paid \/ e.fund = Cash
<1> DEFINE use == Lowest(acc.left, Balance(k, b))
           p == acc.paid
           s == Rupees(b, no, Cash, use)
           m == [left |-> acc.left - use, paid |-> p (+) s]
<1>1. m = NotePay(k, no, acc, b)
  BY DEF NotePay
<1>2. acc.left \in Nat /\ p \in Purse
  BY DEF NoteAcc
<1>3. use \in Nat /\ use <= acc.left /\ use <= Balance(k, b) /\ Balance(k, b) \in Nat
  <2>1. Balance(k, b) \in Nat
    BY BalanceIs
  <2> QED  BY <1>2, <2>1 DEF Lowest
<1> HIDE DEF use
<1>4. /\ s \in Purse
      /\ \A e \in DOMAIN s : e.fund = Cash
      /\ OnBill(s, b) <= use
      /\ \A c \in Bills \ {b} : OnBill(s, c) = 0
  <2>1. use \in Int /\ no \in Int /\ Cash \in Int
    BY <1>3 DEF Cash
  <2>2. /\ s \in Purse
        /\ \A e \in DOMAIN s : use > 0 /\ e.bill = b /\ e.fund = Cash
        /\ \A c \in Bills : OnBill(s, c) = IF c = b /\ use > 0 THEN use ELSE 0
    BY <2>1, RupeesAre
  <2> HIDE DEF s
  <2> QED  BY <1>3, <2>2
<1> HIDE DEF p, s
<1>5. /\ p (+) s \in Purse
      /\ DOMAIN (p (+) s) = DOMAIN p \cup DOMAIN s
      /\ \A c \in Bills : OnBill(p (+) s, c) = OnBill(p, c) + OnBill(s, c)
  BY <1>2, <1>4, PursesTogether
<1> DEFINE q == p (+) s
<1> HIDE DEF q
<1>6. OnBill(q, b) <= OnBill(p, b) + Balance(k, b)
  <2>1. OnBill(q, b) = OnBill(p, b) + OnBill(s, b)
    BY <1>5 DEF q
  <2>2. OnBill(p, b) \in Nat /\ OnBill(s, b) \in Nat
    BY <1>2, <1>4, OnBillNatural
  <2> QED  BY <1>3, <1>4, <2>1, <2>2
<1>7. \A c \in Bills \ {b} : OnBill(q, c) = OnBill(p, c)
  <2> SUFFICES ASSUME NEW c \in Bills \ {b}  PROVE OnBill(q, c) = OnBill(p, c)
    OBVIOUS
  <2>1. OnBill(q, c) = OnBill(p, c) + OnBill(s, c)
    BY <1>5 DEF q
  <2>2. OnBill(p, c) \in Nat /\ OnBill(s, c) = 0
    BY <1>2, <1>4, OnBillNatural
  <2> QED  BY <2>1, <2>2
<1>8. \A e \in DOMAIN q : e \in DOMAIN p \/ e.fund = Cash
  BY <1>4, <1>5 DEF q
<1>9. m.paid = q /\ m \in NoteAcc
  <2>1. acc.left - use \in Nat /\ q \in Purse
    BY <1>2, <1>3, <1>5 DEF q
  <2>2. m = [left |-> acc.left - use, paid |-> q]
    BY DEF q
  <2> HIDE DEF m
  <2> QED  BY <2>1, <2>2 DEF NoteAcc
<1> HIDE DEF m
<1> QED  BY <1>1, <1>6, <1>7, <1>8, <1>9 DEF p

(* All its bills, none of which it has paid yet.                           *)
LEMMA NotePaidPays ==
  ASSUME NEW k \in Books, NEW no \in Nat, NEW start \in NoteAcc, Pays(k, start.paid),
         NEW t \in Seq(Bills), IsInjective(t),
         \A i \in DOMAIN t : /\ k.bills[t[i]].on /\ Balance(k, t[i]) > 0
                             /\ OnBill(start.paid, t[i]) = OnBill(k.paid, t[i])
  PROVE  /\ NotePaid(k, no, start, t) \in NoteAcc /\ Pays(k, NotePaid(k, no, start, t).paid)
         /\ \A c \in Bills : (\A i \in DOMAIN t : t[i] # c)
                               => OnBill(NotePaid(k, no, start, t).paid, c) = OnBill(start.paid, c)
<1> DEFINE N == Len(t)
           A == NoteAcc
           base == start
           op(acc, b) == NotePay(k, no, acc, b)
           Solves(g) == g = [p \in SUBSET (1..N) |->
                               IF p = {} THEN base ELSE op(g[p \ {Max(p)}], t[Max(p)])]
           h == CHOOSE g : Solves(g)
           Fits(n, acc) ==
             /\ Pays(k, acc.paid)
             /\ \A c \in Bills : (\A j \in 1..n : t[j] # c) => OnBill(acc.paid, c) = OnBill(start.paid, c)
           I == [n \in 0..N |-> {acc \in A : Fits(n, acc)}]
<1>a. /\ N \in Nat /\ DOMAIN t = 1..N /\ \A n \in 1..N : t[n] \in Bills
  OBVIOUS
<1>1. NotePaid(k, no, start, t) = h[1..N]
  BY <1>a DEF NotePaid, FoldLeft, MapThenFoldSet
<1>c. \A n \in 1..N : \A acc \in A :
        LET m == op(acc, t[n])
        IN  /\ m \in NoteAcc
            /\ OnBill(m.paid, t[n]) <= OnBill(acc.paid, t[n]) + Balance(k, t[n])
            /\ \A c \in Bills \ {t[n]} : OnBill(m.paid, c) = OnBill(acc.paid, c)
            /\ \A e \in DOMAIN m.paid : e \in DOMAIN acc.paid \/ e.fund = Cash
  BY <1>a, NotePayPays
<1>0. base \in A /\ \A n \in 1..N : \A acc \in A : op(acc, t[n]) \in A
  BY <1>c, Zenon
<1>2. Solves(h)
  <2> DEFINE F == [n \in 1..N |-> [acc \in A |-> op(acc, t[n])]]
  <2> HIDE DEF N, A, base, op, h
  <2>1. F \in [1..N -> [A -> A]]
    BY <1>0
  <2> HIDE DEF F
  <2>2. PICK g \in [SUBSET (1..N) -> A] : Folding(g, F, base, N)
    BY <1>a, <1>0, <2>1, FoldSolves, Zenon
  <2>3. Solves(g)
    BY <1>a, <1>0, <2>2, PlacesLeft DEF F, Folding
  <2> QED  BY <2>3 DEF h
<1>3. h[1..0] \in I[0]
  <2>1. h[1..0] = base
    <3>1. 1..0 = {} /\ {} \in SUBSET (1..N)
      OBVIOUS
    <3> QED  BY <1>2, <3>1
  <2> HIDE DEF h
  <2>3. Fits(0, base)
    OBVIOUS
  <2> HIDE DEF Fits
  <2> QED  BY <1>a, <1>0, <2>1, <2>3
<1>4. ASSUME NEW n \in 1..N, h[1..(n - 1)] \in I[n - 1]
      PROVE  h[1..n] \in I[n]
  <2> DEFINE acc == h[1..(n - 1)]
             b == t[n]
             m == op(acc, b)
  <2>1. h[1..n] = m
    <3>1. Max(1..n) = n /\ (1..n) \ {n} = 1..(n - 1) /\ 1..n # {} /\ 1..n \in SUBSET (1..N)
      BY <1>a, LastPlace
    <3> HIDE DEF op
    <3> QED  BY <1>2, <3>1
  <2> HIDE DEF h
  <2>2. acc \in A /\ Fits(n - 1, acc)
    <3>1. n - 1 \in 0..N
      BY <1>a
    <3> HIDE DEF acc, Fits, A
    <3> QED  BY <1>4, <3>1 DEF acc
  <2> HIDE DEF acc
  <2>3. /\ m \in NoteAcc
        /\ OnBill(m.paid, b) <= OnBill(acc.paid, b) + Balance(k, b)
        /\ \A c \in Bills \ {b} : OnBill(m.paid, c) = OnBill(acc.paid, c)
        /\ \A e \in DOMAIN m.paid : e \in DOMAIN acc.paid \/ e.fund = Cash
    BY <1>c, <2>2, Zenon
  <2> HIDE DEF m, op
  <2>4. /\ b \in Bills /\ k.bills[b].on /\ Balance(k, b) > 0
        /\ OnBill(start.paid, b) = OnBill(k.paid, b)
    BY <1>a
  <2>5. OnBill(acc.paid, b) = OnBill(k.paid, b)
    <3>1. \A j \in 1..(n - 1) : t[j] # b
      <4>1. \A i, j \in 1..N : t[i] = t[j] => i = j
        BY <1>a, Zenon DEF IsInjective
      <4> HIDE DEF N
      <4> QED  BY <1>a, <4>1
    <3> HIDE DEF b
    <3>2. OnBill(acc.paid, b) = OnBill(start.paid, b)
      BY <2>2, <2>4, <3>1
    <3> QED  BY <2>4, <3>2
  <2>6. OnBill(m.paid, b) <= Due(k, b)
    <3> HIDE DEF b
    <3>1. m.paid \in Purse
      BY <2>3 DEF NoteAcc
    <3> QED  BY <2>3, <2>4, <2>5, <3>1, WithinDue
  <2>7. Pays(k, m.paid)
    <3> HIDE DEF b
    <3>1. m.paid \in Purse
      BY <2>3 DEF NoteAcc
    <3>2. \A e \in DOMAIN m.paid : e \in DOMAIN k.paid \/ e.fund = Cash \/ ~k.bills[e.bill].kept
      BY <2>2, <2>3, Zenon DEF Pays
    <3>3. \A c \in Bills : OnBill(m.paid, c) <= OnBill(k.paid, c) \/ OnBill(m.paid, c) <= Due(k, c)
      BY <2>2, <2>3, <2>6, Zenon DEF Pays
    <3> QED  BY <3>1, <3>2, <3>3 DEF Pays
  <2>8. ASSUME NEW c \in Bills, \A j \in 1..n : t[j] # c
        PROVE  OnBill(m.paid, c) = OnBill(start.paid, c)
    <3>1. (\A j \in 1..(n - 1) : t[j] # c) /\ c # b
      BY <1>a, <2>8
    <3> HIDE DEF b
    <3>2. OnBill(acc.paid, c) = OnBill(start.paid, c)
      BY <2>2, <3>1
    <3> QED  BY <2>3, <3>1, <3>2
  <2>9. Fits(n, m)
    BY <2>7, <2>8
  <2> HIDE DEF Fits
  <2>10. n \in 0..N
    BY <1>a
  <2> QED  BY <2>1, <2>3, <2>9, <2>10
<1>5. h[1..N] \in I[N]
  <2> HIDE DEF h, I
  <2> QED  BY <1>a, <1>3, <1>4, FoldKeeps
<1>6. h[1..N] \in NoteAcc /\ Fits(N, h[1..N])
  <2>1. N \in 0..N
    BY <1>a
  <2> HIDE DEF h, Fits
  <2> QED  BY <1>5, <2>1
<1> HIDE DEF h
<1> QED  BY <1>1, <1>6, <1>a

(* A note is posted: the bill it refers to, the opening balance, the rest. *)
LEMMA PostFares ==
  ASSUME NEW k \in Books, NEW note \in Voucher
  PROVE  Fares(k, Post(k, note))
<1> DEFINE open == InvoicePending(k, note.date)
           refd == ToSet(note.ticked)
           rest == Bills \ refd
           s == Among(open, refd)
           t == Among(open, rest)
           start == [left |-> note.amt, paid |-> k.paid]
           aimed == NotePaid(k, note.no, start, s)
           cleared == Lowest(OpeningPending(k), aimed.left)
           after == [aimed EXCEPT !.left = @ - cleared]
           end == NotePaid(k, note.no, after, t)
<1>1. Post(k, note) = Enter(k, note, cleared, end)
  BY DEF Post, NotePaid, NotePay
<1>2. note.date \in Nat /\ note.no \in Nat /\ note.amt \in Nat
  BY DEF Voucher
<1>3. /\ open \in Seq(Bills) /\ IsInjective(open)
      /\ \A i \in DOMAIN open : k.bills[open[i]].on /\ Balance(k, open[i]) > 0
  BY <1>2, DueBills
<1> HIDE DEF open, refd
<1>4. ASSUME NEW S
      PROVE  LET u == Among(open, S)
             IN  /\ u \in Seq(Bills) /\ IsInjective(u)
                 /\ \A i \in DOMAIN u : u[i] \in S /\ k.bills[u[i]].on /\ Balance(k, u[i]) > 0
  <2> DEFINE u == Among(open, S)
  <2>1. open \in Seq(Bills) /\ IsInjective(open)
    BY <1>3
  <2>2. /\ u \in Seq(Bills) /\ IsInjective(u)
        /\ \A i \in DOMAIN u : u[i] \in S /\ \E j \in DOMAIN open : open[j] = u[i]
    BY <2>1, AmongOf
  <2> HIDE DEF u
  <2>3. \A i \in DOMAIN u : k.bills[u[i]].on /\ Balance(k, u[i]) > 0
    BY <1>3, <2>2, Zenon
  <2> QED  BY <2>2, <2>3 DEF u
<1>5. /\ s \in Seq(Bills) /\ IsInjective(s)
      /\ \A i \in DOMAIN s : s[i] \in refd /\ k.bills[s[i]].on /\ Balance(k, s[i]) > 0
  BY <1>4
<1>6. /\ t \in Seq(Bills) /\ IsInjective(t)
      /\ \A i \in DOMAIN t : t[i] \in rest /\ k.bills[t[i]].on /\ Balance(k, t[i]) > 0
  <2> HIDE DEF rest
  <2> QED  BY <1>4
<1> HIDE DEF s, t
<1>7. start \in NoteAcc /\ start.paid = k.paid /\ Pays(k, k.paid)
  <2>1. k.paid \in Purse
    BY DEF Books
  <2> QED  BY <1>2, <2>1, PaysWhatItDid DEF NoteAcc
<1> HIDE DEF start
<1>8. /\ aimed \in NoteAcc /\ Pays(k, aimed.paid)
      /\ \A c \in Bills : (\A i \in DOMAIN s : s[i] # c) => OnBill(aimed.paid, c) = OnBill(start.paid, c)
  <2>1. /\ Pays(k, start.paid)
        /\ \A i \in DOMAIN s : /\ k.bills[s[i]].on /\ Balance(k, s[i]) > 0
                               /\ OnBill(start.paid, s[i]) = OnBill(k.paid, s[i])
    BY <1>5, <1>7
  <2>2. s \in Seq(Bills) /\ IsInjective(s) /\ start \in NoteAcc /\ note.no \in Nat
    BY <1>2, <1>5, <1>7
  <2> QED  BY <2>1, <2>2, NotePaidPays
<1> HIDE DEF aimed
<1>9. OpeningPending(k) \in Nat /\ aimed.left \in Nat
  BY <1>8, OpeningPendingIs DEF NoteAcc
<1>10. cleared \in Nat /\ cleared <= OpeningPending(k) /\ aimed.left - cleared \in Nat
  BY <1>9 DEF Lowest
<1> HIDE DEF cleared
<1>11. after \in NoteAcc /\ after.paid = aimed.paid
  BY <1>8, <1>10 DEF NoteAcc
<1> HIDE DEF after
<1>12. end \in NoteAcc /\ Pays(k, end.paid)
  <2>1. ASSUME NEW i \in DOMAIN t  PROVE OnBill(after.paid, t[i]) = OnBill(k.paid, t[i])
    <3>1. t[i] \in rest /\ t[i] \in Bills
      BY <1>6
    <3>2. \A j \in DOMAIN s : s[j] # t[i]
      BY <1>5, <3>1
    <3> HIDE DEF rest
    <3> QED  BY <1>7, <1>8, <1>11, <3>1, <3>2
  <2>2. /\ Pays(k, after.paid)
        /\ \A i \in DOMAIN t : /\ k.bills[t[i]].on /\ Balance(k, t[i]) > 0
                               /\ OnBill(after.paid, t[i]) = OnBill(k.paid, t[i])
    BY <1>6, <1>8, <1>11, <2>1
  <2>3. t \in Seq(Bills) /\ IsInjective(t) /\ after \in NoteAcc /\ note.no \in Nat
    BY <1>2, <1>6, <1>11
  <2> HIDE DEF rest
  <2> QED  BY <2>2, <2>3, NotePaidPays
<1> HIDE DEF end
<1>13. end.left \in Nat
  BY <1>12 DEF NoteAcc
<1> QED  BY <1>1, <1>10, <1>12, <1>13, EnterFares

(* The receipts settle again after a note is written, and what is on       *)
(* account is spent: the books fare no worse than with the note written.   *)
LEMMA InPlaceFares ==
  ASSUME NEW k \in Books, NEW chain \in Seq(Money), NEW written \in Books,
         Commit(InPlace(k, chain, written))
  PROVE  Fares(written, books')
<1> DEFINE m == SettleAgain(k, written, chain, NoVoucher)
           l == ApplyOnAccount(m)
<1>1. Commit(l)
  BY DEF InPlace
<1>2. Fares(written, m)
  BY SettleAgainFares
<1>3. m \in Books
  BY <1>2, Zenon DEF Fares
<1> HIDE DEF m
<1>4. Fares(m, l)
  BY <1>3, ApplyFares
<1>5. l \in Books
  BY <1>4, Zenon DEF Fares
<1> HIDE DEF l
<1>6. Fares(l, books')
  BY <1>1, <1>5, CommitFares
<1> QED  BY <1>2, <1>4, <1>6, FaresOn

(* A credit note is saved, the first time or again.                        *)
LEMMA SaveNoteFares ==
  ASSUME books \in Books, NEW no \in Nat, NEW day \in Days, NEW amt \in NoteAmounts,
         NEW ref \in {<<>>} \cup {<<b>> : b \in Bills}, SaveCreditNote(no, day, amt, ref)
  PROVE  Fares(books, books')
<1> DEFINE k == [books EXCEPT !.lastNo = Highest(@, no)]
           old == Among(books.vouchers, {v \in ToSet(books.vouchers) : v.no = no})
           chain == FromDay(books, Min({day} \cup {v.date : v \in ToSet(old)}))
           out == ReverseChain(k, chain)
           bare == Unpost(out, old)
           note == Receipt(no, day, amt, Note, ref)
           written == Post(bare, note)
<1>1. Commit(InPlace(books, chain, written))
  BY DEF SaveCreditNote
<1>2. chain \in Seq(Money)
  BY ChainAfterIs DEF FromDay
<1> HIDE DEF chain, old
<1>3. k \in Books /\ Fares(books, k)
  <2>1. Highest(books.lastNo, no) \in Nat
    BY DEF Highest, Books
  <2>2. /\ k \in Books /\ k.bills = books.bills /\ k.opening = books.opening
        /\ k.paid = books.paid /\ k.vouchers = books.vouchers
    BY <2>1 DEF Books
  <2> HIDE DEF k
  <2>3. Cleared(k) = Cleared(books)
    BY <2>2 DEF Cleared
  <2> QED  BY <2>2, <2>3 DEF Fares, KeptSafe, PaidSafe, OpeningSafe, Due
<1> HIDE DEF k
<1>4. Fares(k, out)
  BY <1>3, ReverseFares
<1>5. out \in Books
  BY <1>4, Zenon DEF Fares
<1> HIDE DEF out
<1>6. Fares(out, bare)
  BY <1>5, ReverseFares DEF Unpost
<1>7. bare \in Books
  BY <1>6, Zenon DEF Fares
<1> HIDE DEF bare
<1>8. note \in Voucher
  <2>1. day \in Nat /\ amt \in Nat
    BY NotesAssumption DEF Days
  <2>2. ref \in {t \in Seq(Bills) : IsInjective(t)}
    <3>1. CASE ref = <<>>
      <4>1. <<>> \in Seq(Bills) /\ DOMAIN <<>> = {}
        OBVIOUS
      <4> QED  BY <3>1, <4>1, Zenon DEF IsInjective
    <3>2. ASSUME NEW b \in Bills, ref = <<b>>
          PROVE  ref \in {t \in Seq(Bills) : IsInjective(t)}
      <4>1. <<b>> \in Seq(Bills) /\ DOMAIN <<b>> = {1}
        OBVIOUS
      <4> QED  BY <3>2, <4>1 DEF IsInjective
    <3> QED  BY <3>1, <3>2
  <2> HIDE DEF note
  <2>3. note = [no |-> no, date |-> day, amt |-> amt, how |-> Note, ticked |-> ref,
                adv |-> 0, parked |-> 0, cleared |-> 0]
    BY DEF note, Receipt
  <2> QED  BY <2>1, <2>2, <2>3 DEF Voucher
<1> HIDE DEF note
<1>9. Fares(bare, written)
  BY <1>7, <1>8, PostFares
<1>10. written \in Books
  BY <1>9, Zenon DEF Fares
<1> HIDE DEF written
<1>11. Fares(written, books')
  BY <1>1, <1>2, <1>10, InPlaceFares
<1>12. Fares(books, bare)
  <2>1. Fares(books, out)
    BY <1>3, <1>4, FaresOn
  <2> QED  BY <1>6, <2>1, FaresOn
<1> QED
  <2>1. Fares(books, written)
    BY <1>9, <1>12, FaresOn
  <2> QED  BY <1>11, <2>1, FaresOn

(* One is removed. *)
LEMMA RemoveNoteFares ==
  ASSUME books \in Books, NEW note, RemoveCreditNote(note)
  PROVE  Fares(books, books')
<1> DEFINE chain == FromDay(books, note.date)
           out == ReverseChain(books, chain)
           written == Unpost(out, <<note>>)
<1>1. Commit(InPlace(books, chain, written))
  BY DEF RemoveCreditNote
<1>2. chain \in Seq(Money)
  BY ChainAfterIs DEF FromDay
<1> HIDE DEF chain
<1>3. Fares(books, out)
  BY ReverseFares
<1>4. out \in Books
  BY <1>3, Zenon DEF Fares
<1> HIDE DEF out
<1>5. Fares(out, written)
  BY <1>4, ReverseFares DEF Unpost
<1>6. written \in Books
  BY <1>5, Zenon DEF Fares
<1> HIDE DEF written
<1>7. Fares(written, books')
  BY <1>1, <1>2, <1>6, InPlaceFares
<1> QED
  <2>1. Fares(books, written)
    BY <1>3, <1>5, FaresOn
  <2> QED  BY <1>7, <2>1, FaresOn

(***************************************************************************)
(* Debit notes: what they do to the bills kept off the advance.            *)
(***************************************************************************)
(* A debit note is squared off from what was parked, unless it is kept off *)
(* the advance.                                                            *)
LEMMA SquareOffKept ==
  ASSUME NEW k \in Books, NEW b \in Bills,
         \A e \in DOMAIN k.paid : e.bill # b /\ k.bills[e.bill].kept => e.fund = Cash
  PROVE  SquareOff(k, b) \in Books /\ KeptSafe(SquareOff(k, b))
<1> DEFINE D == {e \in DOMAIN k.paid : ~(e.bill = b /\ e.fund # Cash)}
           p == [e \in D |-> k.paid[e]]
           bare == LiftOnAccount(k, b)
           all  == AdvancePending(bare, MaxDay)
           few  == Among(all, {q \in ToSet(all) : q.fund # Credit})
           pots == Each(few, LAMBDA q : [q EXCEPT !.by = NoVoucher])
           use  == Lowest(k.bills[b].amt, Left(pots))
           s == FromPots(pots, 0, b, use)
           l == [bare EXCEPT !.paid = @ (+) s]
<1>1. SquareOff(k, b) = IF k.bills[b].kept THEN bare ELSE l
  BY DEF SquareOff
<1>2. /\ bare \in Books /\ bare.bills = k.bills
      /\ DOMAIN bare.paid = D
  <2>1. bare = [k EXCEPT !.paid = p]
    BY LiftIs
  <2>2. p \in Purse /\ DOMAIN p = D
    BY PursePart DEF Books
  <2> HIDE DEF p, bare, D
  <2> QED  BY <2>1, <2>2 DEF Books
<1>3. \A e \in D : k.bills[e.bill].kept => e.fund = Cash
  OBVIOUS
<1>4. KeptSafe(bare)
  <2> HIDE DEF D, bare
  <2> QED  BY <1>2, <1>3 DEF KeptSafe
<1> HIDE DEF bare, D
<1>5. pots \in Seq(PotSet)
  <2>1. MaxDay \in Nat
    BY ReceiptsAssumption
  <2>2. all \in Seq(PotSet)
    BY <1>2, <2>1, PotsAre
  <2> HIDE DEF all
  <2>3. few \in Seq(PotSet)
    BY <2>2, AmongOf
  <2> HIDE DEF few
  <2>4. Len(few) \in Nat /\ DOMAIN few = 1..Len(few) /\ \A i \in DOMAIN few : few[i] \in PotSet
    BY <2>3
  <2>5. \A q \in PotSet : [q EXCEPT !.by = NoVoucher] \in PotSet
    BY DEF PotSet, NoVoucher
  <2>6. pots = [i \in DOMAIN few |-> [few[i] EXCEPT !.by = NoVoucher]]
    BY DEF Each
  <2> HIDE DEF pots
  <2>7. pots \in [1..Len(few) -> PotSet]
    BY <2>4, <2>5, <2>6
  <2> QED  BY <2>4, <2>7
<1> HIDE DEF pots
<1>6. use \in Nat
  <2>1. k.bills[b].amt \in Nat /\ Left(pots) \in Nat
    BY <1>5, UptoIs DEF Books, Bill
  <2> QED  BY <2>1 DEF Lowest
<1> HIDE DEF use
<1>7. s \in Purse /\ \A e \in DOMAIN s : e.bill = b
  BY <1>5, <1>6, DrawnFromPots
<1> HIDE DEF s
<1>8. bare.paid (+) s \in Purse /\ DOMAIN (bare.paid (+) s) = DOMAIN bare.paid \cup DOMAIN s
  BY <1>2, <1>7, PursesTogether DEF Books
<1> DEFINE q == bare.paid (+) s
<1> HIDE DEF q
<1>9. l \in Books /\ l.paid = q /\ l.bills = k.bills
  BY <1>2, <1>8 DEF Books, q
<1> HIDE DEF l
<1>10. ASSUME ~k.bills[b].kept  PROVE KeptSafe(l)
  <2> SUFFICES ASSUME NEW e \in DOMAIN q, k.bills[e.bill].kept  PROVE e.fund = Cash
    BY <1>9 DEF KeptSafe
  <2>1. e \in DOMAIN bare.paid \/ e.bill = b
    BY <1>7, <1>8 DEF q
  <2> QED  BY <1>2, <1>4, <1>10, <2>1 DEF KeptSafe
<1> QED  BY <1>1, <1>2, <1>4, <1>9, <1>10

(* A debit note is saved, the first time or again.                         *)
LEMMA SaveDebitKept ==
  ASSUME books \in Books, KeptSafe(books), NEW b \in Bills, NEW day \in Days, NEW amt \in NoteAmounts,
         NEW answer \in Answers, SaveDebitNote(b, day, amt, answer)
  PROVE  books' \in Books /\ KeptSafe(books')
<1> DEFINE old == books.bills[b]
           new == [on |-> TRUE, date |-> day, amt |-> amt, kept |-> Keeps(old, answer), debit |-> TRUE]
           saved == [books EXCEPT !.bills[b] = new]
           chain == FromDay(books, IF old = NoBill THEN day ELSE Lowest(old.date, day))
           out == ReverseChain(saved, chain)
           written == SquareOff(out, b)
<1>1. Commit(InPlace(books, chain, written))
  BY DEF SaveDebitNote
<1>2. chain \in Seq(Money)
  BY ChainAfterIs DEF FromDay
<1> HIDE DEF chain
<1>3. new \in Bill
  <2>1. old \in Bill /\ day \in Nat /\ amt \in Nat
    BY NotesAssumption DEF Books, Days
  <2>2. Keeps(old, answer) \in BOOLEAN
    BY <2>1 DEF Keeps, Bill
  <2> HIDE DEF old
  <2> QED  BY <2>1, <2>2 DEF Bill
<1> HIDE DEF new
<1>4. /\ saved \in Books /\ saved.paid = books.paid
      /\ \A c \in Bills \ {b} : saved.bills[c] = books.bills[c]
  BY <1>3 DEF Books
<1> HIDE DEF saved
<1>5. Fares(saved, out) /\ DOMAIN out.paid \subseteq DOMAIN saved.paid
  BY <1>4, ReverseFares
<1>6. out \in Books /\ out.bills = saved.bills
  BY <1>5, Zenon DEF Fares
<1> HIDE DEF out
<1>7. ASSUME NEW e \in DOMAIN out.paid, e.bill # b, out.bills[e.bill].kept  PROVE e.fund = Cash
  <2>1. e \in DOMAIN books.paid
    BY <1>4, <1>5
  <2>2. e.bill \in Bills
    <3>1. books.paid \in Purse
      BY DEF Books
    <3>2. e \in Item
      BY <2>1, <3>1, PurseIs
    <3> QED  BY <3>2 DEF Item
  <2>3. books.bills[e.bill].kept
    BY <1>4, <1>6, <1>7, <2>2
  <2> QED  BY <2>1, <2>3 DEF KeptSafe
<1>8. written \in Books /\ KeptSafe(written)
  BY <1>6, <1>7, SquareOffKept
<1> HIDE DEF written
<1>9. Fares(written, books')
  BY <1>1, <1>2, <1>8, InPlaceFares
<1> QED  BY <1>8, <1>9, Zenon DEF Fares

(* One is removed. *)
LEMMA RemoveDebitKept ==
  ASSUME books \in Books, KeptSafe(books), NEW b \in Bills, RemoveDebitNote(b)
  PROVE  books' \in Books /\ KeptSafe(books')
<1> DEFINE chain == FromDay(books, books.bills[b].date)
           out == ReverseChain(books, chain)
           D == {e \in DOMAIN out.paid : ~(e.bill = b /\ e.fund # Cash)}
           lifted == LiftOnAccount(out, b)
           written == [lifted EXCEPT !.bills[b] = NoBill]
           q == [out EXCEPT !.paid = [e \in D |-> out.paid[e]], !.bills[b] = NoBill]
<1>1. Commit(InPlace(books, chain, written))
  BY DEF RemoveDebitNote
<1>2. chain \in Seq(Money)
  BY ChainAfterIs DEF FromDay
<1> HIDE DEF chain
<1>3. Fares(books, out)
  BY ReverseFares
<1>4. out \in Books /\ KeptSafe(out)
  BY <1>3, Zenon DEF Fares
<1> HIDE DEF out
<1>5. written = q
  <2>1. lifted = [out EXCEPT !.paid = [e \in D |-> out.paid[e]]]
    BY <1>4, LiftIs
  <2> HIDE DEF D, lifted
  <2> QED  BY <1>4, <2>1 DEF Books
<1>6. q \in Books /\ KeptSafe(q)
  <2>1. NoBill \in Bill /\ ~NoBill.kept
    BY DEF NoBill, Bill
  <2>2. D \in SUBSET DOMAIN out.paid
    OBVIOUS
  <2> HIDE DEF D
  <2>3. /\ q \in Books
        /\ KeptSafe(out) /\ (NoBill.kept => out.bills[b].kept \/ \A e \in D : e.bill = b => e.fund = Cash)
             => KeptSafe(q)
    BY <1>4, <2>1, <2>2, BillFares
  <2> QED  BY <1>4, <2>1, <2>3
<1> HIDE DEF q, written
<1>7. written \in Books /\ KeptSafe(written)
  BY <1>5, <1>6
<1>8. Fares(written, books')
  BY <1>1, <1>2, <1>7, InPlaceFares
<1> QED  BY <1>7, <1>8, Zenon DEF Fares

(***************************************************************************)
(* All operations.                                                         *)
(***************************************************************************)
(* An opening balance changes only while no note is entered. *)
OpeningStays == books'.opening # books.opening => NoNotes(books)

(* What every operation on receipts, and on what is owed, keeps.           *)
LEMMA ReceiptsKeep ==
  ASSUME books \in Books, ReceiptsNext
  PROVE  /\ books' \in Books /\ Alone(books, books')
         /\ KeptSafe(books) => KeptSafe(books')
         /\ PaidSafe(books) => PaidSafe(books')
         /\ OpeningSafe(books) /\ OpeningStays => OpeningSafe(books')
<1> DEFINE Goal == /\ books' \in Books /\ Alone(books, books')
                   /\ KeptSafe(books) => KeptSafe(books')
                   /\ PaidSafe(books) => PaidSafe(books')
                   /\ OpeningSafe(books) /\ OpeningStays => OpeningSafe(books')
<1> SUFFICES Goal
  OBVIOUS
<1>1. Sound(books, books') /\ Alone(books, books') => Goal
  BY DEF Sound
<1>2. Fares(books, books') /\ Alone(books, books') => Goal
  BY <1>1, SoundOn
<1> HIDE DEF Goal
<1>3. CASE TypeReceipt
  <2>1. PICK day \in Days, amt \in ReceiptAmounts, how \in {"AUTOMATIC", "ADVANCE"} : Save(day, amt, how, <<>>)
    BY <1>3 DEF TypeReceipt
  <2>2. how \in Modes
    BY <2>1, Zenon DEF Modes
  <2>3. <<>> \in Seq(Bills) /\ IsInjective(<<>>)
    <3>1. <<>> \in Seq(Bills) /\ DOMAIN <<>> = {}
      OBVIOUS
    <3> QED  BY <3>1, Zenon DEF IsInjective
  <2> QED  BY <1>2, <2>1, <2>2, <2>3, SaveFares
<1>4. CASE NameBills
  <2>1. PICK day \in Days, amt \in ReceiptAmounts, ticked \in {t \in Ticks : IsInjective(t)} :
               Save(day, amt, Against, ticked)
    BY <1>4 DEF NameBills
  <2>2. Against \in Modes
    BY Zenon DEF Modes
  <2>3. ticked \in Seq(Bills)
    <3>1. PICK n \in 1..NBills : ticked \in [1..n -> Bills]
      BY DEF Ticks
    <3>2. n \in Nat
      BY ReceiptsAssumption
    <3> QED  BY <3>1, <3>2
  <2> QED  BY <1>2, <2>1, <2>2, <2>3, SaveFares
<1>5. CASE CorrectReceipts
  <2>1. CASE \E i \in DOMAIN Receipts(books), day \in Days, amt \in ReceiptAmounts : EditReceipt(i, day, amt)
    BY <1>2, <2>1, EditFares
  <2>2. CASE \E is \in SUBSET DOMAIN Receipts(books) \ {{}} : DeleteReceipts(is)
    BY <1>2, <2>2, DeleteFares
  <2> QED  BY <1>5, <2>1, <2>2 DEF CorrectReceipts
<1>6. CASE ChangeWhatIsOwed
  <2>1. ASSUME NEW amt \in Openings, SaveOpening(amt)  PROVE Goal
    <3>1. amt \in Int /\ amt # books.opening
      BY <2>1, ReceiptsAssumption DEF SaveOpening
    <3>2. /\ books' \in Books /\ books'.opening = amt /\ Alone(books, books')
          /\ KeptSafe(books) => KeptSafe(books')
          /\ PaidSafe(books) => PaidSafe(books')
          /\ NoNotes(books) => OpeningSafe(books')
      BY <2>1, <3>1, OpeningFares
    <3> QED  BY <3>1, <3>2 DEF OpeningStays, Goal
  <2>2. ASSUME NEW b \in Bills, NEW day \in Days, NEW amt \in BillAmounts, NEW answer \in Answers,
               SaveBill(b, day, amt, answer)
        PROVE  Goal
    BY <1>1, <2>2, SaveBillSound
  <2>3. ASSUME NEW b \in Bills, NEW after \in {NoBill, [books.bills[b] EXCEPT !.on = FALSE]}, DropBill(b, after)
        PROVE  Goal
    BY <1>1, <2>3, DropBillSound
  <2> QED  BY <1>6, <2>1, <2>2, <2>3, Zenon DEF ChangeWhatIsOwed
<1> QED  BY <1>3, <1>4, <1>5, <1>6 DEF ReceiptsNext

(* What every operation on credit notes keeps.                             *)
LEMMA CreditKeeps ==
  ASSUME books \in Books, CreditNext
  PROVE  Fares(books, books')
<1>1. ASSUME NEW day \in Days, NEW amt \in NoteAmounts, NEW ref \in {<<>>} \cup {<<b>> : b \in Bills},
             SaveCreditNote(books.lastNo + 1, day, amt, ref)
      PROVE  Fares(books, books')
  <2>1. books.lastNo + 1 \in Nat
    BY DEF Books
  <2> QED  BY <1>1, <2>1, SaveNoteFares
<1>2. ASSUME NEW day \in Days, NEW amt \in NoteAmounts, NEW ref \in {<<>>} \cup {<<b>> : b \in Bills},
             NEW note \in CreditNotes(books), SaveCreditNote(note.no, day, amt, ref)
      PROVE  Fares(books, books')
  <2>1. note \in Voucher
    BY ClearedIs DEF CreditNotes
  <2>2. note.no \in Nat
    BY <2>1 DEF Voucher
  <2> QED  BY <1>2, <2>2, SaveNoteFares
<1>3. ASSUME NEW note \in CreditNotes(books), RemoveCreditNote(note)
      PROVE  Fares(books, books')
  BY <1>3, RemoveNoteFares
<1> QED  BY <1>1, <1>2, <1>3, Zenon DEF CreditNext

(* Books on which nothing is entered yet but bills and an opening balance. *)
Unpaid == books \in Books /\ books.vouchers = <<>> /\ books.paid = EmptyBag

(* The program starts from such books, and all is well on them. *)
LEMMA UnpaidIsSafe ==
  /\ ReceiptsInit => Unpaid
  /\ Unpaid => KeptSafe(books) /\ PaidSafe(books) /\ OpeningSafe(books) /\ NoNotes(books)
<1>1. ReceiptsInit => Unpaid
  <2>1. EmptyBag \in Purse /\ NoBill \in Bill
    BY NoRupees DEF NoBill, Bill
  <2>2. EmptyBooks \in Books
    BY <2>1 DEF EmptyBooks, Books
  <2> QED  BY <2>2 DEF ReceiptsInit, Unpaid, EmptyBooks
<1>2. ASSUME Unpaid
      PROVE  KeptSafe(books) /\ PaidSafe(books) /\ OpeningSafe(books) /\ NoNotes(books)
  <2>1. books \in Books /\ books.vouchers = <<>> /\ books.paid = EmptyBag /\ DOMAIN <<>> = {}
    BY <1>2 DEF Unpaid
  <2>2. KeptSafe(books) /\ NoNotes(books)
    BY <2>1, NoRupees DEF KeptSafe, NoNotes
  <2>3. PaidSafe(books)
    <3>1. \A b \in Bills : Due(books, b) \in Nat
      BY <2>1 DEF Due, Books, Bill
    <3> QED  BY <2>1, <3>1, NoRupees DEF PaidSafe
  <2>4. OpeningSafe(books)
    <3>1. ToSet(books.vouchers) = {}
      BY <2>1 DEF ToSet
    <3>2. Summable(Dues, {}) /\ Cleared(books) = SumOf(Dues, {})
      BY <2>1, <3>1, ClearedIs
    <3>3. Cleared(books) = 0
      BY <3>2, SumOne
    <3> QED  BY <2>1, <3>3, OpeningPendingIs DEF OpeningSafe
  <2> QED  BY <2>2, <2>3, <2>4
<1> QED  BY <1>1, <1>2

(* What is safe, in the words of the properties.                           *)
LEMMA SafeSays ==
  ASSUME books \in Books
  PROVE  /\ KeptOffAdvance <=> KeptSafe(books)
         /\ NoBillOverpaid <=> PaidSafe(books) /\ OpeningSafe(books)
<1>1. \A b \in Bills : Total(books, LAMBDA e : e.bill = b) = OnBill(books.paid, b)
  BY BalanceIs
<1>2. KeptOffAdvance <=> KeptSafe(books)
  BY DEF KeptOffAdvance, KeptSafe
<1>3. NoBillOverpaid <=> PaidSafe(books) /\ OpeningSafe(books)
  BY <1>1, Zenon DEF NoBillOverpaid, PaidSafe, OpeningSafe, Due
<1> QED  BY <1>2, <1>3

(* A bill kept off the advance is never paid from it (useAdvance), whatever *)
(* receipts, bills, opening balances, credit and debit notes are entered,   *)
(* changed and removed, over whatever bills and opening balance it starts   *)
(* from: neither by a receipt that draws older money on account             *)
(* (runWaterfall), nor when money on account is spent (applyOnAccount), nor *)
(* when a debit note is squared off (insertDebitNoteLedger).                *)
THEOREM KeptOffForGood ==
  Unpaid /\ [][ReceiptsNext \/ NoteNext]_books => []KeptOffAdvance
<1> DEFINE Inv == books \in Books /\ KeptSafe(books)
<1>1. Unpaid => Inv
  BY UnpaidIsSafe DEF Unpaid
<1>2. Inv /\ [ReceiptsNext \/ NoteNext]_books => Inv'
  <2> SUFFICES ASSUME books \in Books, KeptSafe(books), [ReceiptsNext \/ NoteNext]_books
               PROVE  books' \in Books /\ KeptSafe(books')
    OBVIOUS
  <2>1. CASE ReceiptsNext
    BY <2>1, ReceiptsKeep
  <2>2. CASE CreditNext
    BY <2>2, CreditKeeps, Zenon DEF Fares
  <2>3. CASE DebitNext
    <3>1. ASSUME NEW b \in Bills, NEW day \in Days, NEW amt \in NoteAmounts, NEW answer \in Answers,
                 SaveDebitNote(b, day, amt, answer)
          PROVE  books' \in Books /\ KeptSafe(books')
      BY <3>1, SaveDebitKept
    <3>2. ASSUME NEW b \in Bills, RemoveDebitNote(b)
          PROVE  books' \in Books /\ KeptSafe(books')
      BY <3>2, RemoveDebitKept
    <3> QED  BY <2>3, <3>1, <3>2, Zenon DEF DebitNext
  <2>4. CASE UNCHANGED books
    BY <2>4
  <2> QED  BY <2>1, <2>2, <2>3, <2>4 DEF NoteNext
<1>3. Inv => KeptOffAdvance
  BY SafeSays
<1> QED  BY <1>1, <1>2, <1>3, PTL

(* With receipts and credit notes, no bill is paid beyond its amount, none *)
(* that is gone is paid at all, and no more of an opening balance is       *)
(* cleared than there is, as long as it changes only while no note is      *)
(* entered (runWaterfall, applyCreditNote, applyOnAccount): each row of an  *)
(* allocation pays at most the balance its bill had when the allocation     *)
(* began, and no bill has two rows in it.                                   *)
THEOREM NothingIsOverpaid ==
  Unpaid /\ [][(ReceiptsNext \/ CreditNext) /\ OpeningStays]_books => []NoBillOverpaid
<1> DEFINE Inv == books \in Books /\ PaidSafe(books) /\ OpeningSafe(books)
<1>1. Unpaid => Inv
  BY UnpaidIsSafe DEF Unpaid
<1>2. Inv /\ [(ReceiptsNext \/ CreditNext) /\ OpeningStays]_books => Inv'
  <2> SUFFICES ASSUME books \in Books, PaidSafe(books), OpeningSafe(books),
                      [(ReceiptsNext \/ CreditNext) /\ OpeningStays]_books
               PROVE  books' \in Books /\ PaidSafe(books') /\ OpeningSafe(books')
    OBVIOUS
  <2>1. CASE ReceiptsNext /\ OpeningStays
    BY <2>1, ReceiptsKeep
  <2>2. CASE CreditNext
    BY <2>2, CreditKeeps, Zenon DEF Fares
  <2>3. CASE UNCHANGED books
    BY <2>3
  <2> QED  BY <2>1, <2>2, <2>3
<1>3. Inv => NoBillOverpaid
  BY SafeSays
<1> QED  BY <1>1, <1>2, <1>3, PTL

(* With receipts alone the opening balance may change as it will: every     *)
(* receipt settles again (resettleParty), and none clears more than is left *)
(* of it.                                                                   *)
THEOREM ReceiptsOverpayNothing == ReceiptsSpec => []NoBillOverpaid
<1> DEFINE Inv == books \in Books /\ PaidSafe(books) /\ OpeningSafe(books) /\ NoNotes(books)
<1>1. ReceiptsInit => Inv
  BY UnpaidIsSafe DEF Unpaid
<1>2. Inv /\ [ReceiptsNext]_books => Inv'
  <2> SUFFICES ASSUME books \in Books, PaidSafe(books), OpeningSafe(books), NoNotes(books), [ReceiptsNext]_books
               PROVE  books' \in Books /\ PaidSafe(books') /\ OpeningSafe(books') /\ NoNotes(books')
    OBVIOUS
  <2>1. CASE ReceiptsNext
    BY <2>1, ReceiptsKeep DEF OpeningStays, Alone
  <2>2. CASE UNCHANGED books
    BY <2>2
  <2> QED  BY <2>1, <2>2
<1>3. Inv => NoBillOverpaid
  BY SafeSays
<1> QED  BY <1>1, <1>2, <1>3, PTL DEF ReceiptsSpec

(* A bill is paid no more than it is for, and nothing on one that is gone   *)
(* (assertNotPinned, liftOnAccount), whatever becomes of the opening        *)
(* balance meanwhile.                                                       *)
THEOREM BillsAreNotOverpaid ==
  Unpaid /\ [][ReceiptsNext \/ CreditNext]_books
    => [](\A b \in Bills : Total(books, LAMBDA e : e.bill = b) <= Due(books, b))
<1> DEFINE Inv == books \in Books /\ PaidSafe(books)
           NotOverpaid == \A b \in Bills : Total(books, LAMBDA e : e.bill = b) <= Due(books, b)
<1>1. Unpaid => Inv
  BY UnpaidIsSafe DEF Unpaid
<1>2. Inv /\ [ReceiptsNext \/ CreditNext]_books => Inv'
  <2> SUFFICES ASSUME books \in Books, PaidSafe(books), [ReceiptsNext \/ CreditNext]_books
               PROVE  books' \in Books /\ PaidSafe(books')
    OBVIOUS
  <2>1. CASE ReceiptsNext
    BY <2>1, ReceiptsKeep
  <2>2. CASE CreditNext
    BY <2>2, CreditKeeps, Zenon DEF Fares
  <2>3. CASE UNCHANGED books
    BY <2>3
  <2> QED  BY <2>1, <2>2, <2>3
<1>3. Inv => NotOverpaid
  <2> SUFFICES ASSUME books \in Books, PaidSafe(books)  PROVE NotOverpaid
    OBVIOUS
  <2>1. \A b \in Bills : Total(books, LAMBDA e : e.bill = b) = OnBill(books.paid, b)
    BY BalanceIs
  <2> QED  BY <2>1, Zenon DEF PaidSafe
<1> QED  BY <1>1, <1>2, <1>3, PTL

(***************************************************************************)
(* Money by where it comes from.                                           *)
(***************************************************************************)
(* What is in a purse of some items. *)
In(p, S) == SumOf(p, {e \in DOMAIN p : e \in S})

(* The cash of a voucher, and what comes from a fund. *)
CashBy(no) == {e \in Item : e.fund = Cash /\ e.by = no}
From(fund) == {e \in Item : e.fund = fund}

(* It is a natural number, and 0 where there are none. *)
LEMMA InNatural ==
  ASSUME NEW p \in Purse, NEW S
  PROVE  /\ In(p, S) \in Nat
         /\ (\A e \in DOMAIN p : e \notin S) => In(p, S) = 0
<1> DEFINE E == {e \in DOMAIN p : e \in S}
<1>1. Summable(p, E) /\ SumOf(p, E) \in Nat
  BY PurseSums
<1>2. Summable(p, {})
  BY FS_EmptySet DEF Summable
<1>3. (\A e \in DOMAIN p : e \notin S) => E = {}
  OBVIOUS
<1> HIDE DEF E
<1>4. SumOf(p, {}) = 0
  BY <1>2, SumOne
<1> QED  BY <1>1, <1>3, <1>4 DEF In, E

(* Of rupees, all or nothing. *)
LEMMA InRupees ==
  ASSUME NEW bill \in Bills, NEW by \in Int, NEW fund \in Int, NEW n \in Nat, NEW S
  PROVE  LET e == [bill |-> bill, by |-> by, fund |-> fund]
             q == Rupees(bill, by, fund, n)
         IN  /\ q \in Purse
             /\ \A x \in DOMAIN q : x = e /\ n > 0
             /\ In(q, S) = IF e \in S THEN n ELSE 0
<1> DEFINE e == [bill |-> bill, by |-> by, fund |-> fund]
           q == Rupees(bill, by, fund, n)
<1>1. q \in Purse
  BY RupeesAre
<1>2. CASE n > 0
  <2>1. q = [x \in {e} |-> n]
    BY <1>2 DEF Rupees
  <2>2. DOMAIN q = {e} /\ q[e] = n
    BY <2>1
  <2> HIDE DEF q, e
  <2>3. Summable(q, {e}) /\ {e} \ {e} = {}
    <3>1. IsFiniteSet({e})
      BY FS_Singleton, Zenon
    <3>2. \A x \in {e} : q[x] \in Int
      BY <2>2
    <3> QED  BY <3>1, <3>2, Zenon DEF Summable
  <2>4. SumOf(q, {e}) = q[e] + SumOf(q, {}) /\ SumOf(q, {}) = 0
    BY <2>3, SumOne
  <2>5. In(q, S) = IF e \in S THEN n ELSE 0
    <3>1. CASE e \in S
      <4>1. {x \in DOMAIN q : x \in S} = {e}
        BY <2>2, <3>1
      <4> QED  BY <2>2, <2>4, <3>1, <4>1 DEF In
    <3>2. CASE e \notin S
      <4>1. {x \in DOMAIN q : x \in S} = {}
        BY <2>2, <3>2
      <4> QED  BY <2>4, <3>2, <4>1 DEF In
    <3> QED  BY <3>1, <3>2
  <2> QED  BY <1>1, <1>2, <2>2, <2>5 DEF q, e
<1>3. CASE ~(n > 0)
  <2>1. q = EmptyBag /\ n = 0
    BY <1>3 DEF Rupees
  <2>2. DOMAIN q = {}
    BY <2>1, NoRupees
  <2> HIDE DEF q, e
  <2>3. In(q, S) = 0
    BY <1>1, <2>2, InNatural
  <2> QED  BY <1>1, <2>1, <2>2, <2>3 DEF q, e
<1> QED  BY <1>2, <1>3

(* Two purses together hold what each holds. *)
LEMMA InBoth ==
  ASSUME NEW p \in Purse, NEW q \in Purse, NEW S
  PROVE  In(p (+) q, S) = In(p, S) + In(q, S)
<1> DEFINE D == DOMAIN p \cup DOMAIN q
           f == [e \in D |-> IF e \in DOMAIN p THEN p[e] ELSE 0]
           g == [e \in D |-> IF e \in DOMAIN q THEN q[e] ELSE 0]
           r == p (+) q
           P == {e \in DOMAIN p : e \in S}
           Q == {e \in DOMAIN q : e \in S}
           E == {e \in D : e \in S}
<1>1. r = [e \in D |-> f[e] + g[e]] /\ DOMAIN r = D
  BY DEF (+)
<1>2. IsFiniteSet(D)
  BY PurseIs, FS_Union
<1>3. \A e \in D : /\ f[e] \in Nat /\ g[e] \in Nat
                   /\ f[e] = IF e \in DOMAIN p THEN p[e] ELSE 0
                   /\ g[e] = IF e \in DOMAIN q THEN q[e] ELSE 0
  BY PurseIs
<1>4. \A e \in D : r[e] = f[e] + g[e]
  BY <1>1
<1> HIDE DEF f, g, r
<1>5. IsFiniteSet(E) /\ P \in SUBSET E /\ Q \in SUBSET E /\ \A e \in E : e \in D
  BY <1>2, FS_Subset
<1>6. /\ \A e \in P : f[e] \in Int /\ p[e] = f[e]
      /\ \A e \in E \ P : f[e] = 0
      /\ \A e \in Q : g[e] \in Int /\ q[e] = g[e]
      /\ \A e \in E \ Q : g[e] = 0
  BY <1>3
<1>7. Summable(f, E) /\ Summable(g, E) /\ \A e \in E : r[e] = f[e] + g[e]
  BY <1>3, <1>4, <1>5 DEF Summable
<1>8. In(r, S) = SumOf(r, E)
  BY <1>1 DEF In
<1> HIDE DEF P, Q, E, D
<1>9. SumOf(f, E) = SumOf(p, P) /\ SumOf(g, E) = SumOf(q, Q)
  BY <1>5, <1>6, SumOfPart
<1>10. SumOf(r, E) = SumOf(f, E) + SumOf(g, E)
  BY <1>7, SumOfBoth
<1> QED  BY <1>8, <1>9, <1>10 DEF In, P, Q, r

(* Part of a purse holds no more, and as much if what is gone is of others. *)
LEMMA InPart ==
  ASSUME NEW p \in Purse, NEW D \in SUBSET DOMAIN p, NEW S
  PROVE  /\ In([e \in D |-> p[e]], S) <= In(p, S)
         /\ (\A e \in DOMAIN p \ D : e \notin S) => In([e \in D |-> p[e]], S) = In(p, S)
<1> DEFINE q == [e \in D |-> p[e]]
           P == {e \in DOMAIN p : e \in S}
           Q == {e \in D : e \in S}
<1>1. DOMAIN q = D /\ \A e \in D : q[e] = p[e]
  OBVIOUS
<1>2. q \in Purse
  BY PursePart
<1> HIDE DEF q
<1>3. /\ Q \in SUBSET P /\ P \in SUBSET DOMAIN p /\ Q \in SUBSET DOMAIN q
      /\ \A e \in Q : q[e] = p[e]
      /\ (\A e \in DOMAIN p \ D : e \notin S) => Q = P
  BY <1>1
<1>4. In(p, S) = SumOf(p, P) /\ In(q, S) = SumOf(q, Q)
  BY <1>1 DEF In
<1> HIDE DEF P, Q
<1>5. /\ Summable(p, P) /\ SumOf(p, P) \in Nat /\ Summable(q, Q)
      /\ SumOf(p, Q) \in Nat /\ SumOf(p, P \ Q) \in Nat
  BY <1>2, <1>3, PurseSums
<1>6. SumOf(p, Q) = SumOf(q, Q)
  BY <1>3, <1>5, SumAgrees DEF Summable
<1>7. Q \cup (P \ Q) = P /\ Q \cap (P \ Q) = {} /\ P \ Q \in SUBSET P
  BY <1>3
<1>8. SumOf(p, P) = SumOf(p, Q) + SumOf(p, P \ Q)
  BY <1>3, <1>5, <1>7, SumApart
<1> QED  BY <1>3, <1>4, <1>5, <1>6, <1>8 DEF q

(***************************************************************************)
(* What is drawn from pots, fund by fund.                                  *)
(***************************************************************************)
(* Pots of different funds, none of which is cash. *)
Apart(pots) ==
  /\ \A i \in DOMAIN pots : pots[i].fund # Cash
  /\ \A i, j \in DOMAIN pots : pots[i].fund = pots[j].fund => i = j

(* What is gone of the i-th pot when drawn rupees of them all are. *)
Gone(pots, i, drawn) == NotNegative(Lowest(Upto(pots, i), drawn) - Upto(pots, i - 1))

(* It is no more than was in it. *)
LEMMA GoneIs ==
  ASSUME NEW pots \in Seq(PotSet), NEW i \in DOMAIN pots, NEW drawn \in Nat, NEW amt \in Nat
  PROVE  /\ Gone(pots, i, drawn) \in Nat /\ Gone(pots, i, drawn) <= pots[i].left
         /\ NotNegative(Lowest(Upto(pots, i), drawn + amt) - Highest(Upto(pots, i - 1), drawn))
              = Gone(pots, i, drawn + amt) - Gone(pots, i, drawn)
         /\ Gone(pots, i, 0) = 0
<1>1. i \in 1..Len(pots) /\ i \in 0..Len(pots) /\ i - 1 \in 0..Len(pots) /\ pots[i] \in PotSet
  OBVIOUS
<1>2. /\ Upto(pots, i) \in Nat /\ Upto(pots, i - 1) \in Nat /\ pots[i].left \in Nat
      /\ Upto(pots, i) = Upto(pots, i - 1) + pots[i].left
  BY <1>1, UptoIs DEF PotSet
<1> DEFINE u == Upto(pots, i)
           v == Upto(pots, i - 1)
<1>3. u \in Nat /\ v \in Nat /\ v <= u /\ u - v = pots[i].left
  BY <1>2
<1> HIDE DEF u, v
<1>4. /\ NotNegative(Lowest(u, drawn) - v) \in Nat
      /\ NotNegative(Lowest(u, drawn) - v) <= u - v
      /\ NotNegative(Lowest(u, 0) - v) = 0
  BY <1>3 DEF NotNegative, Highest, Lowest
<1>5. NotNegative(Lowest(u, drawn + amt) - Highest(v, drawn))
        = NotNegative(Lowest(u, drawn + amt) - v) - NotNegative(Lowest(u, drawn) - v)
  BY <1>3 DEF NotNegative, Highest, Lowest
<1> QED  BY <1>3, <1>4, <1>5 DEF Gone, u, v

(* What is drawn for a bill comes from pots, and from each as much as is   *)
(* then gone of it.                                                        *)
LEMMA DrawnByFund ==
  ASSUME NEW pots \in Seq(PotSet), Apart(pots), NEW drawn \in Nat, NEW bill \in Bills, NEW amt \in Nat
  PROVE  LET q == FromPots(pots, drawn, bill, amt)
         IN  /\ \A e \in DOMAIN q : \E i \in DOMAIN pots : e.fund = pots[i].fund
             /\ \A i \in DOMAIN pots :
                  In(q, From(pots[i].fund)) = Gone(pots, i, drawn + amt) - Gone(pots, i, drawn)
<1> DEFINE N == Len(pots)
           A == Purse
           base == EmptyBag
           s == [i \in DOMAIN pots |-> i]
           Taken(i) == NotNegative(Lowest(Upto(pots, i), drawn + amt) - Highest(Upto(pots, i - 1), drawn))
           op(p, i) == p (+) Rupees(bill, pots[i].by, pots[i].fund, Taken(i))
           Solves(g) == g = [p \in SUBSET (1..N) |->
                               IF p = {} THEN base ELSE op(g[p \ {Max(p)}], s[Max(p)])]
           h == CHOOSE g : Solves(g)
           Fits(n, p) ==
             /\ \A e \in DOMAIN p : \E i \in 1..N : e.fund = pots[i].fund
             /\ \A i \in 1..N : In(p, From(pots[i].fund)) = IF i <= n THEN Taken(i) ELSE 0
           I == [n \in 0..N |-> {p \in A : Fits(n, p)}]
<1>a. N \in Nat /\ DOMAIN pots = 1..N /\ DOMAIN s = 1..N /\ \A n \in 1..N : s[n] = n /\ pots[n] \in PotSet
  OBVIOUS
<1>b. \A n \in 1..N : Taken(n) \in Nat /\ Taken(n) = Gone(pots, n, drawn + amt) - Gone(pots, n, drawn)
  <2> SUFFICES ASSUME NEW n \in 1..N
               PROVE  Taken(n) \in Nat /\ Taken(n) = Gone(pots, n, drawn + amt) - Gone(pots, n, drawn)
    OBVIOUS
  <2>1. n \in DOMAIN pots
    BY <1>a
  <2>2. /\ Taken(n) = Gone(pots, n, drawn + amt) - Gone(pots, n, drawn)
        /\ Gone(pots, n, drawn + amt) \in Nat /\ Gone(pots, n, drawn) \in Nat
    <3>1. Taken(n) = Gone(pots, n, drawn + amt) - Gone(pots, n, drawn)
      BY <2>1, GoneIs
    <3>2. drawn + amt \in Nat /\ 0 \in Nat
      OBVIOUS
    <3> QED  BY <2>1, <3>1, <3>2, GoneIs
  <2> DEFINE x == Lowest(Upto(pots, n), drawn + amt) - Highest(Upto(pots, n - 1), drawn)
  <2>3. Taken(n) >= 0
    <3>1. Taken(n) = NotNegative(x)
      OBVIOUS
    <3>2. Taken(n) \in Int /\ x \in Int
      <4>1. Upto(pots, n) \in Nat /\ Upto(pots, n - 1) \in Nat
        BY <1>a, UptoIs
      <4> QED  BY <2>2, <4>1 DEF Lowest, Highest
    <3> HIDE DEF x, Taken
    <3> QED  BY <3>1, <3>2 DEF NotNegative, Highest
  <2> HIDE DEF Taken
  <2> QED  BY <2>2, <2>3
<1>c. ASSUME NEW n \in 1..N
      PROVE  LET r == Rupees(bill, pots[n].by, pots[n].fund, Taken(n))
             IN  /\ r \in Purse
                 /\ \A e \in DOMAIN r : e.fund = pots[n].fund
                 /\ \A i \in 1..N : In(r, From(pots[i].fund)) = IF i = n THEN Taken(n) ELSE 0
  <2>1. pots[n].by \in Int /\ pots[n].fund \in Int
    BY <1>a DEF PotSet
  <2> HIDE DEF Taken
  <2> DEFINE e == [bill |-> bill, by |-> pots[n].by, fund |-> pots[n].fund]
             r == Rupees(bill, pots[n].by, pots[n].fund, Taken(n))
  <2>2. \A S : /\ r \in Purse
               /\ \A x \in DOMAIN r : x = e
               /\ In(r, S) = IF e \in S THEN Taken(n) ELSE 0
    <3>1. Taken(n) \in Nat
      BY <1>b
    <3> QED  BY <2>1, <3>1, InRupees
  <2>3. \A i \in 1..N : e \in From(pots[i].fund) <=> i = n
    <3>1. e \in Item /\ e.fund = pots[n].fund
      BY <2>1 DEF Item
    <3> HIDE DEF e
    <3>2. \A i \in 1..N : pots[i].fund = pots[n].fund => i = n
      BY <1>a, Zenon DEF Apart
    <3> QED  BY <3>1, <3>2 DEF From
  <2>4. e.fund = pots[n].fund
    OBVIOUS
  <2> HIDE DEF e, r
  <2>5. r \in Purse /\ \A x \in DOMAIN r : x.fund = pots[n].fund
    BY <2>2, <2>4
  <2>6. \A i \in 1..N : In(r, From(pots[i].fund)) = IF i = n THEN Taken(n) ELSE 0
    BY <2>2, <2>3
  <2> QED  BY <2>5, <2>6 DEF r
<1> HIDE DEF Taken
<1>0. base \in A /\ \A n \in 1..N : \A p \in A : op(p, s[n]) \in A
  BY <1>a, <1>c, NoRupees, PursesTogether
<1>1. FromPots(pots, drawn, bill, amt) = h[1..N]
  BY <1>a DEF FromPots, FoldLeft, MapThenFoldSet, Taken
<1>2. Solves(h)
  <2> DEFINE F == [n \in 1..N |-> [p \in A |-> op(p, s[n])]]
  <2> HIDE DEF N, A, base, op, h, s
  <2>1. F \in [1..N -> [A -> A]]
    BY <1>0
  <2> HIDE DEF F
  <2>2. PICK g \in [SUBSET (1..N) -> A] : Folding(g, F, base, N)
    BY <1>a, <1>0, <2>1, FoldSolves, Zenon
  <2>3. Solves(g)
    BY <1>a, <1>0, <2>2, PlacesLeft DEF F, Folding
  <2> QED  BY <2>3 DEF h
<1>3. h[1..0] \in I[0]
  <2>1. h[1..0] = base
    <3>1. 1..0 = {} /\ {} \in SUBSET (1..N)
      OBVIOUS
    <3> QED  BY <1>2, <3>1
  <2> HIDE DEF h
  <2>2. base \in Purse /\ DOMAIN base = {}
    BY NoRupees
  <2>3. Fits(0, base)
    <3> HIDE DEF base
    <3>1. \A i \in 1..N : In(base, From(pots[i].fund)) = 0
      BY <2>2, InNatural
    <3> QED  BY <2>2, <3>1
  <2> HIDE DEF Fits
  <2> QED  BY <1>a, <1>0, <2>1, <2>3
<1>4. ASSUME NEW n \in 1..N, h[1..(n - 1)] \in I[n - 1]
      PROVE  h[1..n] \in I[n]
  <2> DEFINE p == h[1..(n - 1)]
             r == Rupees(bill, pots[n].by, pots[n].fund, Taken(n))
  <2>1. h[1..n] = op(p, s[n])
    <3>1. Max(1..n) = n /\ (1..n) \ {n} = 1..(n - 1) /\ 1..n # {} /\ 1..n \in SUBSET (1..N)
      BY <1>a, LastPlace
    <3> QED  BY <1>2, <3>1
  <2> HIDE DEF h
  <2>2. p \in A /\ Fits(n - 1, p)
    <3>1. n - 1 \in 0..N
      BY <1>a
    <3> HIDE DEF p, Fits, A
    <3> QED  BY <1>4, <3>1 DEF p
  <2> HIDE DEF p
  <2>3. /\ r \in Purse
        /\ \A e \in DOMAIN r : e.fund = pots[n].fund
        /\ \A i \in 1..N : In(r, From(pots[i].fund)) = IF i = n THEN Taken(n) ELSE 0
    BY <1>c
  <2> HIDE DEF r
  <2>4. p (+) r \in Purse /\ DOMAIN (p (+) r) = DOMAIN p \cup DOMAIN r
    BY <2>2, <2>3, PursesTogether
  <2>5. \A i \in 1..N : In(p (+) r, From(pots[i].fund)) = IF i <= n THEN Taken(i) ELSE 0
    <3> SUFFICES ASSUME NEW i \in 1..N
                 PROVE  In(p (+) r, From(pots[i].fund)) = IF i <= n THEN Taken(i) ELSE 0
      OBVIOUS
    <3>1. In(p (+) r, From(pots[i].fund)) = In(p, From(pots[i].fund)) + In(r, From(pots[i].fund))
      BY <2>2, <2>3, InBoth
    <3>2. /\ In(p, From(pots[i].fund)) = IF i <= n - 1 THEN Taken(i) ELSE 0
          /\ In(r, From(pots[i].fund)) = IF i = n THEN Taken(n) ELSE 0
          /\ Taken(i) \in Nat
      BY <1>b, <2>2, <2>3
    <3> QED  BY <1>a, <3>1, <3>2
  <2>6. Fits(n, p (+) r)
    BY <2>2, <2>3, <2>4, <2>5
  <2>7. p (+) r \in I[n]
    <3>1. n \in 0..N
      BY <1>a
    <3> HIDE DEF Fits
    <3> QED  BY <2>4, <2>6, <3>1
  <2>8. op(p, s[n]) = p (+) r
    BY <1>a DEF r
  <2> QED  BY <2>1, <2>7, <2>8 DEF p
<1>5. h[1..N] \in I[N]
  <2> HIDE DEF h, I
  <2> QED  BY <1>a, <1>3, <1>4, FoldKeeps
<1>6. h[1..N] \in Purse /\ Fits(N, h[1..N])
  <2>1. N \in 0..N
    BY <1>a
  <2> HIDE DEF h, Fits
  <2> QED  BY <1>5, <2>1
<1> HIDE DEF h
<1> QED  BY <1>1, <1>6, <1>a, <1>b

(***************************************************************************)
(* A purse with c rupees more of the cash of a voucher, when d rupees of   *)
(* the pots are drawn.                                                     *)
(***************************************************************************)
Draws(pots, no, p, q, d, c) ==
  /\ q \in Purse
  /\ \A n \in Nat : In(q, CashBy(n)) = In(p, CashBy(n)) + (IF n = no THEN c ELSE 0)
  /\ \A i \in DOMAIN pots : In(q, From(pots[i].fund)) <= In(p, From(pots[i].fund)) + Gone(pots, i, d)
  /\ \A e \in DOMAIN q : \/ e \in DOMAIN p
                         \/ e.fund = Cash /\ e.by = no /\ c # 0
                         \/ \E i \in DOMAIN pots : e.fund = pots[i].fund
  /\ \A f \in Int \ {Cash} : (\A i \in DOMAIN pots : pots[i].fund # f) => In(q, From(f)) = In(p, From(f))

(* Nothing drawn. *)
LEMMA DrawsNothing ==
  ASSUME NEW pots \in Seq(PotSet), NEW no \in Nat, NEW p \in Purse
  PROVE  Draws(pots, no, p, p, 0, 0)
<1>1. \A n \in Nat : In(p, CashBy(n)) \in Nat
  BY InNatural
<1>2. \A i \in DOMAIN pots : In(p, From(pots[i].fund)) \in Nat /\ Gone(pots, i, 0) = 0
  BY InNatural, GoneIs
<1> QED  BY <1>1, <1>2 DEF Draws

(* Cash of the voucher. *)
LEMMA DrawsCash ==
  ASSUME NEW pots \in Seq(PotSet), Apart(pots), NEW no \in Nat, NEW p \in Purse, NEW q, NEW d \in Nat,
         NEW c \in Nat, Draws(pots, no, p, q, d, c), NEW bill \in Bills, NEW x \in Nat
  PROVE  Draws(pots, no, p, q (+) Rupees(bill, no, Cash, x), d, c + x)
<1> DEFINE e == [bill |-> bill, by |-> no, fund |-> Cash]
           r == Rupees(bill, no, Cash, x)
           m == q (+) r
<1>1. q \in Purse /\ no \in Int /\ Cash \in Int
  BY DEF Draws, Cash
<1>2. \A S : /\ r \in Purse
             /\ \A y \in DOMAIN r : y = e /\ x > 0
             /\ In(r, S) = IF e \in S THEN x ELSE 0
  BY <1>1, InRupees
<1>3. e.fund = Cash /\ e.by = no /\ e \in Item
  BY <1>1 DEF Item
<1> HIDE DEF e, r
<1>4. m \in Purse /\ DOMAIN m = DOMAIN q \cup DOMAIN r
  BY <1>1, <1>2, PursesTogether
<1>5. \A S : In(m, S) = In(q, S) + (IF e \in S THEN x ELSE 0) /\ In(q, S) \in Nat
  BY <1>1, <1>2, InBoth, InNatural
<1> HIDE DEF m
<1>6. /\ \A n \in Nat : e \in CashBy(n) <=> n = no
      /\ \A f \in Int \ {Cash} : e \notin From(f)
  BY <1>3 DEF CashBy, From
<1>7. \A n \in Nat : In(m, CashBy(n)) = In(p, CashBy(n)) + (IF n = no THEN c + x ELSE 0)
  <2> SUFFICES ASSUME NEW n \in Nat
               PROVE  In(m, CashBy(n)) = In(p, CashBy(n)) + (IF n = no THEN c + x ELSE 0)
    OBVIOUS
  <2>1. In(q, CashBy(n)) = In(p, CashBy(n)) + (IF n = no THEN c ELSE 0)
    BY DEF Draws
  <2>2. In(m, CashBy(n)) = In(q, CashBy(n)) + (IF n = no THEN x ELSE 0) /\ In(p, CashBy(n)) \in Nat
    BY <1>5, <1>6, InNatural
  <2> QED  BY <2>1, <2>2
<1>8. \A i \in DOMAIN pots : In(m, From(pots[i].fund)) <= In(p, From(pots[i].fund)) + Gone(pots, i, d)
  <2> SUFFICES ASSUME NEW i \in DOMAIN pots
               PROVE  In(m, From(pots[i].fund)) <= In(p, From(pots[i].fund)) + Gone(pots, i, d)
    OBVIOUS
  <2>1. pots[i].fund \in Int \ {Cash}
    <3>1. pots[i] \in PotSet
      OBVIOUS
    <3> QED  BY <3>1 DEF Apart, PotSet
  <2>2. In(m, From(pots[i].fund)) = In(q, From(pots[i].fund)) /\ In(q, From(pots[i].fund)) \in Nat
    BY <1>5, <1>6, <2>1
  <2> QED  BY <2>2 DEF Draws
<1>9. \A f \in Int \ {Cash} : (\A i \in DOMAIN pots : pots[i].fund # f) => In(m, From(f)) = In(p, From(f))
  <2>1. \A f \in Int \ {Cash} : In(m, From(f)) = In(q, From(f))
    BY <1>5, <1>6
  <2> QED  BY <2>1 DEF Draws
<1>10. \A y \in DOMAIN m : \/ y \in DOMAIN p
                           \/ y.fund = Cash /\ y.by = no /\ c + x # 0
                           \/ \E i \in DOMAIN pots : y.fund = pots[i].fund
  <2> SUFFICES ASSUME NEW y \in DOMAIN m
               PROVE  \/ y \in DOMAIN p
                      \/ y.fund = Cash /\ y.by = no /\ c + x # 0
                      \/ \E i \in DOMAIN pots : y.fund = pots[i].fund
    OBVIOUS
  <2>1. CASE y \in DOMAIN r
    BY <1>2, <1>3, <2>1
  <2>2. CASE y \in DOMAIN q
    <3>1. c # 0 => c + x # 0
      OBVIOUS
    <3> QED  BY <2>2, <3>1, Zenon DEF Draws
  <2> QED  BY <1>4, <2>1, <2>2
<1> QED  BY <1>4, <1>7, <1>8, <1>9, <1>10 DEF Draws, m, r

(* Money out of the pots. *)
LEMMA DrawsPots ==
  ASSUME NEW pots \in Seq(PotSet), Apart(pots), NEW no \in Nat, NEW p \in Purse, NEW q, NEW d \in Nat,
         NEW c \in Nat, Draws(pots, no, p, q, d, c), NEW bill \in Bills, NEW x \in Nat
  PROVE  Draws(pots, no, p, q (+) FromPots(pots, d, bill, x), d + x, c)
<1> DEFINE r == FromPots(pots, d, bill, x)
           m == q (+) r
<1>1. q \in Purse
  BY DEF Draws
<1>2. /\ r \in Purse
      /\ \A e \in DOMAIN r : \E i \in DOMAIN pots : e.fund = pots[i].fund
      /\ \A i \in DOMAIN pots : In(r, From(pots[i].fund)) = Gone(pots, i, d + x) - Gone(pots, i, d)
  BY DrawnByFund, DrawnFromPots
<1> HIDE DEF r
<1>4. m \in Purse /\ DOMAIN m = DOMAIN q \cup DOMAIN r
  BY <1>1, <1>2, PursesTogether
<1>5. \A S : In(m, S) = In(q, S) + In(r, S) /\ In(q, S) \in Nat
  BY <1>1, <1>2, InBoth, InNatural
<1> HIDE DEF m
<1>6. /\ \A n \in Nat : In(r, CashBy(n)) = 0
      /\ \A f : (\A i \in DOMAIN pots : pots[i].fund # f) => In(r, From(f)) = 0
  <2>1. \A n \in Nat : \A e \in DOMAIN r : e \notin CashBy(n)
    BY <1>2 DEF CashBy, Apart
  <2>2. \A f : (\A i \in DOMAIN pots : pots[i].fund # f) => \A e \in DOMAIN r : e \notin From(f)
    BY <1>2 DEF From
  <2> QED  BY <1>2, <2>1, <2>2, InNatural
<1>7. \A n \in Nat : In(m, CashBy(n)) = In(p, CashBy(n)) + (IF n = no THEN c ELSE 0)
  <2>1. \A n \in Nat : In(m, CashBy(n)) = In(q, CashBy(n))
    BY <1>5, <1>6
  <2> QED  BY <2>1 DEF Draws
<1>8. \A i \in DOMAIN pots : In(m, From(pots[i].fund)) <= In(p, From(pots[i].fund)) + Gone(pots, i, d + x)
  <2> SUFFICES ASSUME NEW i \in DOMAIN pots
               PROVE  In(m, From(pots[i].fund)) <= In(p, From(pots[i].fund)) + Gone(pots, i, d + x)
    OBVIOUS
  <2>1. In(q, From(pots[i].fund)) <= In(p, From(pots[i].fund)) + Gone(pots, i, d)
    BY DEF Draws
  <2>2. /\ In(m, From(pots[i].fund)) = In(q, From(pots[i].fund)) + (Gone(pots, i, d + x) - Gone(pots, i, d))
        /\ In(q, From(pots[i].fund)) \in Nat
    BY <1>2, <1>5
  <2>3. Gone(pots, i, d + x) \in Nat /\ Gone(pots, i, d) \in Nat /\ In(p, From(pots[i].fund)) \in Nat
    <3>1. d + x \in Nat
      OBVIOUS
    <3> QED  BY <3>1, GoneIs, InNatural
  <2> QED  BY <2>1, <2>2, <2>3
<1>9. \A f \in Int \ {Cash} : (\A i \in DOMAIN pots : pots[i].fund # f) => In(m, From(f)) = In(p, From(f))
  <2>1. \A f \in Int \ {Cash} : (\A i \in DOMAIN pots : pots[i].fund # f) => In(m, From(f)) = In(q, From(f))
    BY <1>5, <1>6
  <2> QED  BY <2>1 DEF Draws
<1>10. \A y \in DOMAIN m : \/ y \in DOMAIN p
                           \/ y.fund = Cash /\ y.by = no /\ c # 0
                           \/ \E i \in DOMAIN pots : y.fund = pots[i].fund
  BY <1>2, <1>4 DEF Draws
<1> QED  BY <1>4, <1>7, <1>8, <1>9, <1>10 DEF Draws, m, r

(***************************************************************************)
(* The vouchers and their pots.                                            *)
(***************************************************************************)
(* No two vouchers share a number, nor two advances an ADV- number; one of *)
(* which nothing is parked has a number that is another party's by now.    *)
Numbered(k) ==
  /\ IsInjective(k.vouchers)
  /\ \A v, w \in ToSet(k.vouchers) : v.no = w.no \/ (v.adv # 0 /\ v.adv = w.adv) => v = w
  /\ \A v \in ToSet(k.vouchers) : /\ v.date \in Days /\ v.no <= k.lastNo
                                  /\ v.adv <= k.elsewhere \/ v.parked > 0
                                  /\ v.parked > 0 => v.adv > 0

(* What is in the purse from a fund, in the words of the model. *)
LEMMA FromIs ==
  ASSUME NEW k \in Books, NEW fund
  PROVE  /\ Total(k, LAMBDA e : e.fund = fund) = In(k.paid, From(fund))
         /\ In(k.paid, From(fund)) \in Nat
<1>1. k.paid \in Purse
  BY DEF Books
<1>2. {e \in DOMAIN k.paid : e \in From(fund)} = {e \in DOMAIN k.paid : e.fund = fund}
  BY <1>1, PurseIs DEF From
<1>3. Total(k, LAMBDA e : e.fund = fund) = SumOf(k.paid, {e \in DOMAIN k.paid : e.fund = fund})
  BY Zenon DEF Total, SumOf
<1> QED  BY <1>1, <1>2, <1>3, InNatural DEF In

(* What is left in a pot. *)
LEMMA PotIs ==
  ASSUME NEW k \in Books, NEW fund, NEW by, NEW amt \in Nat
  PROVE  LET pot == Pot(k, fund, by, amt)
         IN  /\ pot.fund = fund /\ pot.by = by
             /\ pot.left = NotNegative(amt - In(k.paid, From(fund))) /\ pot.left \in Nat
<1>1. Pot(k, fund, by, amt)
        = [fund |-> fund, by |-> by, left |-> NotNegative(amt - Total(k, LAMBDA e : e.fund = fund))]
  BY Zenon DEF Pot
<1>2. Total(k, LAMBDA e : e.fund = fund) = In(k.paid, From(fund)) /\ In(k.paid, From(fund)) \in Nat
  BY FromIs
<1>3. Pot(k, fund, by, amt)
        = [fund |-> fund, by |-> by, left |-> NotNegative(amt - In(k.paid, From(fund)))]
  BY <1>1, <1>2
<1>4. NotNegative(amt - In(k.paid, From(fund))) \in Nat
  BY <1>2 DEF NotNegative, Highest
<1> HIDE DEF Pot
<1> QED  BY <1>3, <1>4

(* A new ADV- number is above those in use. *)
LEMMA NextIsNew ==
  ASSUME NEW k \in Books
  PROVE  /\ NextAdvance(k) \in Nat /\ NextAdvance(k) > k.elsewhere
         /\ \A r \in Parked(k) : NextAdvance(k) > r.adv
<1> DEFINE T == {k.elsewhere} \cup {r.adv : r \in Parked(k)}
           A == {r.adv : r \in Parked(k)}
<1>1. IsFiniteSet(ToSet(k.vouchers)) /\ ToSet(k.vouchers) \subseteq Voucher /\ k.elsewhere \in Nat
  BY ClearedIs DEF Books
<1>2. IsFiniteSet(Parked(k)) /\ Parked(k) \subseteq Voucher
  BY <1>1, FS_Subset DEF Parked
<1>3. IsFiniteSet(A) /\ A \subseteq Nat
  <2> DEFINE f == [r \in Parked(k) |-> r.adv]
  <2>1. A = {f[r] : r \in Parked(k)}
    OBVIOUS
  <2>2. A \subseteq Nat
    BY <1>2 DEF Voucher
  <2> HIDE DEF f, A
  <2> QED  BY <1>2, <2>1, <2>2, ImageOf
<1>4. \A r \in Parked(k) : r.adv \in T
  OBVIOUS
<1>5. T = A \cup {k.elsewhere}
  OBVIOUS
<1> HIDE DEF A, T
<1>6. IsFiniteSet(T) /\ T \subseteq Nat /\ k.elsewhere \in T
  BY <1>1, <1>3, <1>5, FS_AddElement
<1>7. Max(T) \in T /\ \A n \in T : n <= Max(T)
  <2>1. T # {}
    BY <1>6
  <2> QED  BY <1>6, <2>1, GreatestOf
<1>8. NextAdvance(k) = 1 + Max(T)
  BY DEF NextAdvance, T
<1>9. Max(T) \in Nat /\ k.elsewhere <= Max(T) /\ \A r \in Parked(k) : r.adv \in Nat /\ r.adv <= Max(T)
  BY <1>4, <1>6, <1>7
<1> HIDE DEF Parked
<1> QED  BY <1>1, <1>8, <1>9

(* The receipts of a sequence, by arrival: each that has a day, once. *)
LEMMA ArrivalAll ==
  ASSUME NEW T, NEW rs \in Seq(T)
  PROVE  /\ IsInjective(rs) => IsInjective(Arrival(rs))
         /\ \A j \in DOMAIN rs : rs[j].date \in Days => \E i \in DOMAIN Arrival(rs) : Arrival(rs)[i] = rs[j]
<1> DEFINE B == [d \in Days |-> {r \in ToSet(rs) : r.date = d}]
<1>1. DOMAIN B = 1..MaxDay /\ MaxDay \in Nat
  BY ReceiptsAssumption DEF Days
<1>2. Arrival(rs) = Sorted(rs, B)
  BY DEF Arrival
<1>3. \A m, n \in 1..MaxDay : m # n => B[m] \cap B[n] = {}
  BY DEF Days
<1>4. \A j \in DOMAIN rs : rs[j].date \in Days => rs[j].date \in 1..MaxDay /\ rs[j] \in B[rs[j].date]
  BY DEF ToSet, Days
<1> HIDE DEF B
<1>5. /\ \A n \in 1..MaxDay, j \in DOMAIN rs : rs[j] \in B[n] =>
           \E i \in DOMAIN Sorted(rs, B) : Sorted(rs, B)[i] = rs[j]
      /\ IsInjective(rs) /\ (\A m, n \in 1..MaxDay : m # n => B[m] \cap B[n] = {})
             => IsInjective(Sorted(rs, B))
  BY <1>1, SortedOf
<1> QED  BY <1>2, <1>3, <1>4, <1>5

(* The pot of a voucher, and of a CREDIT opening. *)
VoucherPot(k, v) == Pot(k, v.adv, OwnerOf(k, v.adv), v.parked)
CreditPot(k) == Pot(k, Credit, NoVoucher, NotNegative(-k.opening))

(* The advances up to a day, by day and number: each once. *)
LEMMA AdvancesAre ==
  ASSUME NEW k \in Books, Numbered(k), NEW upTo \in Nat
  PROVE  LET s == Arrival(ByNumber(k, upTo))
         IN  /\ s \in Seq(Voucher) /\ IsInjective(s)
             /\ \A i \in DOMAIN s : s[i] \in ToSet(k.vouchers) /\ s[i].parked > 0
             /\ \A v \in ToSet(k.vouchers) : v.parked > 0 /\ v.date <= upTo => \E i \in DOMAIN s : s[i] = v
<1> DEFINE N == NextAdvance(k)
           B == [n \in 1..N |-> {r \in Parked(k) : r.adv = n /\ r.date <= upTo}]
           t == ByNumber(k, upTo)
           s == Arrival(t)
<1>1. k.vouchers \in Seq(Voucher) /\ N \in Nat /\ IsInjective(k.vouchers)
  BY NumbersOf DEF Books, Numbered
<1>2. /\ DOMAIN B = 1..N /\ \A n \in 1..N : B[n] \subseteq Parked(k)
      /\ \A m, n \in 1..N : m # n => B[m] \cap B[n] = {}
  OBVIOUS
<1>3. ASSUME NEW v \in ToSet(k.vouchers), v.parked > 0, v.date <= upTo
      PROVE  v.adv \in 1..N /\ v \in B[v.adv]
  <2>1. v \in Parked(k)
    BY <1>3 DEF Parked
  <2>2. v.adv < N /\ v.adv > 0 /\ v.adv \in Nat
    <3>1. v \in Voucher
      BY <1>1 DEF ToSet
    <3> QED  BY <1>3, <2>1, <3>1, NextIsNew DEF Numbered, Voucher
  <2>3. v.adv \in 1..N
    <3> HIDE DEF N
    <3> QED  BY <1>1, <2>2
  <2> QED  BY <1>3, <2>1, <2>3
<1>4. t = Sorted(k.vouchers, B)
  BY DEF ByNumber
<1> HIDE DEF N, B
<1>5. /\ t \in Seq(Voucher) /\ IsInjective(t)
      /\ \A i \in DOMAIN t : \E n \in 1..N : t[i] \in B[n]
      /\ \A n \in 1..N, j \in DOMAIN k.vouchers : k.vouchers[j] \in B[n] =>
           \E i \in DOMAIN t : t[i] = k.vouchers[j]
  <2> HIDE DEF t
  <2> QED  BY <1>1, <1>2, <1>4, SortedOf
<1> HIDE DEF t
<1>6. \A i \in DOMAIN t : t[i] \in Parked(k)
  BY <1>2, <1>5
<1>7. \A v \in ToSet(k.vouchers) : v.parked > 0 /\ v.date <= upTo => \E i \in DOMAIN t : t[i] = v
  BY <1>3, <1>5 DEF ToSet
<1>8. /\ s \in Seq(Voucher) /\ IsInjective(s)
      /\ \A i \in DOMAIN s : \E j \in DOMAIN t : t[j] = s[i]
      /\ \A j \in DOMAIN t : t[j].date \in Days => \E i \in DOMAIN s : s[i] = t[j]
  BY <1>5, ArrivalOf, ArrivalAll
<1> HIDE DEF s
<1>9. \A i \in DOMAIN s : s[i] \in ToSet(k.vouchers) /\ s[i].parked > 0
  BY <1>6, <1>8 DEF Parked
<1>10. \A v \in ToSet(k.vouchers) : v.parked > 0 /\ v.date <= upTo => \E i \in DOMAIN s : s[i] = v
  BY <1>7, <1>8 DEF Numbered
<1> QED  BY <1>8, <1>9, <1>10 DEF s, t

(* The pots, what is left of each, and all there are. *)
LEMMA PotsOf ==
  ASSUME NEW k \in Books, Numbered(k), NEW upTo \in Nat
  PROVE  LET pots == AdvancePending(k, upTo)
         IN  /\ pots \in Seq(PotSet) /\ Apart(pots)
             /\ \A i \in DOMAIN pots :
                  \/ pots[i] = CreditPot(k)
                  \/ \E v \in ToSet(k.vouchers) : v.parked > 0 /\ pots[i] = VoucherPot(k, v)
             /\ CreditPot(k).left > 0 => \E i \in DOMAIN pots : pots[i] = CreditPot(k)
             /\ \A v \in ToSet(k.vouchers) :
                  v.parked > 0 /\ v.date <= upTo /\ VoucherPot(k, v).left > 0
                    => \E i \in DOMAIN pots : pots[i] = VoucherPot(k, v)
<1> DEFINE s == Arrival(ByNumber(k, upTo))
           c == CreditPot(k)
           t == [i \in DOMAIN s |-> VoucherPot(k, s[i])]
           all == Pots(k, upTo)
           S == {p \in ToSet(all) : p.left > 0}
           pots == AdvancePending(k, upTo)
<1>1. /\ s \in Seq(Voucher) /\ IsInjective(s)
      /\ \A i \in DOMAIN s : s[i] \in ToSet(k.vouchers) /\ s[i].parked > 0
      /\ \A v \in ToSet(k.vouchers) : v.parked > 0 /\ v.date <= upTo => \E i \in DOMAIN s : s[i] = v
  BY AdvancesAre
<1>2. all = <<c>> \o t
  BY Zenon DEF Pots, Each, CreditPot, VoucherPot
<1> HIDE DEF s, all
<1>3. \A i \in DOMAIN s : s[i] \in Voucher /\ s[i].adv \in Nat /\ s[i].parked \in Nat
  <2>1. \A i \in DOMAIN s : s[i] \in Voucher
    BY <1>1
  <2> QED  BY <2>1 DEF Voucher
<1>4. /\ DOMAIN t = DOMAIN s
      /\ \A i \in DOMAIN t : t[i] = VoucherPot(k, s[i]) /\ t[i].fund = s[i].adv
  <2>1. \A i \in DOMAIN s : VoucherPot(k, s[i]).fund = s[i].adv
    BY <1>3, PotIs DEF VoucherPot
  <2> QED  BY <2>1
<1>5. c.fund = Credit /\ c.left \in Nat
  <2>1. NotNegative(-k.opening) \in Nat
    BY DEF Books, NotNegative, Highest
  <2> QED  BY <2>1, PotIs DEF CreditPot
<1>6. DOMAIN s = 1..Len(s) /\ Len(s) \in Nat
  BY <1>1
<1> HIDE DEF c, t
<1>7. /\ DOMAIN all = 1..(Len(s) + 1)
      /\ all[1] = c /\ \A i \in 2..(Len(s) + 1) : i - 1 \in DOMAIN s /\ all[i] = t[i - 1]
      /\ \A i \in DOMAIN s : i + 1 \in DOMAIN all /\ all[i + 1] = t[i]
  <2>1. Len(t) = Len(s) /\ t = [i \in 1..Len(s) |-> t[i]]
    BY <1>6 DEF t
  <2>2. t \in Seq({t[i] : i \in DOMAIN t})
    BY <1>4, <1>6, <2>1
  <2>3. DOMAIN t = 1..Len(s)
    BY <1>4, <1>6
  <2>4. <<c>> \in Seq({c}) /\ Len(<<c>>) = 1 /\ <<c>>[1] = c
    OBVIOUS
  <2>5. all = [i \in 1..(1 + Len(s)) |-> IF i <= 1 THEN <<c>>[i] ELSE t[i - 1]]
    BY <1>2, <2>1, <2>2, <2>4
  <2> QED  BY <1>6, <2>3, <2>4, <2>5
<1>8. \A i \in DOMAIN all : all[i].fund = IF i = 1 THEN Credit ELSE s[i - 1].adv
  BY <1>4, <1>5, <1>6, <1>7
<1>9. \A i \in DOMAIN s : s[i].adv > 0
  BY <1>1 DEF Numbered
<1>10. \A i, j \in DOMAIN s : s[i].adv = s[j].adv => i = j
  <2> SUFFICES ASSUME NEW i \in DOMAIN s, NEW j \in DOMAIN s, s[i].adv = s[j].adv  PROVE i = j
    OBVIOUS
  <2>1. s[i] = s[j]
    BY <1>1, <1>3, <1>9 DEF Numbered
  <2> QED  BY <1>1, <2>1 DEF IsInjective
<1>11. \A i, j \in DOMAIN all : all[i].fund = all[j].fund => i = j
  <2> SUFFICES ASSUME NEW i \in DOMAIN all, NEW j \in DOMAIN all, all[i].fund = all[j].fund  PROVE i = j
    OBVIOUS
  <2>1. i \in 1..(Len(s) + 1) /\ j \in 1..(Len(s) + 1)
    BY <1>7
  <2>2. CASE i = 1 \/ j = 1
    <3>1. \A n \in DOMAIN s : s[n].adv # Credit
      BY <1>3 DEF Credit
    <3>2. \A n \in 2..(Len(s) + 1) : n - 1 \in DOMAIN s
      BY <1>7
    <3> QED  BY <1>6, <1>8, <2>1, <2>2, <3>1, <3>2
  <2>3. CASE i # 1 /\ j # 1
    <3>1. i - 1 \in DOMAIN s /\ j - 1 \in DOMAIN s
      BY <1>6, <1>7, <2>1, <2>3
    <3>2. s[i - 1].adv = s[j - 1].adv
      BY <1>8, <2>3
    <3>3. i - 1 = j - 1
      BY <1>10, <3>1, <3>2
    <3> QED  BY <1>6, <2>1, <3>3
  <2> QED  BY <2>2, <2>3
<1>12. \A i \in DOMAIN all : all[i] = c \/ \E v \in ToSet(k.vouchers) : v.parked > 0 /\ all[i] = VoucherPot(k, v)
  <2> SUFFICES ASSUME NEW i \in DOMAIN all
               PROVE  all[i] = c \/ \E v \in ToSet(k.vouchers) : v.parked > 0 /\ all[i] = VoucherPot(k, v)
    OBVIOUS
  <2>1. i = 1 \/ i \in 2..(Len(s) + 1)
    BY <1>6, <1>7
  <2>2. CASE i \in 2..(Len(s) + 1)
    <3>1. i - 1 \in DOMAIN s /\ all[i] = VoucherPot(k, s[i - 1])
      BY <1>4, <1>7, <2>2
    <3> QED  BY <1>1, <3>1
  <2> QED  BY <1>7, <2>1, <2>2
<1>13. all \in Seq({all[i] : i \in DOMAIN all})
  <2>1. all = [i \in 1..(Len(s) + 1) |-> all[i]]
    <3>1. c \in {c} \cup {t[i] : i \in DOMAIN t} /\ \A i \in DOMAIN t : t[i] \in {c} \cup {t[n] : n \in DOMAIN t}
      OBVIOUS
    <3>2. t \in Seq({c} \cup {t[i] : i \in DOMAIN t})
      BY <1>4, <1>6 DEF t
    <3>3. all \in Seq({c} \cup {t[i] : i \in DOMAIN t})
      BY <1>2, <3>1, <3>2
    <3> QED  BY <1>7, <3>3
  <2> QED  BY <1>6, <1>7, <2>1
<1> DEFINE T == {all[i] : i \in DOMAIN all}
<1>14. IsInjective(all)
  BY <1>11 DEF IsInjective
<1>15. pots = Among(all, S)
  BY DEF AdvancePending, all
<1>16. /\ \A i \in DOMAIN pots : pots[i] \in S /\ \E j \in DOMAIN all : all[j] = pots[i]
       /\ \A j \in DOMAIN all : all[j] \in S => \E i \in DOMAIN pots : pots[i] = all[j]
       /\ IsInjective(pots)
  <2> HIDE DEF T, S, pots
  <2>1. all \in Seq(T)
    BY <1>13 DEF T
  <2> QED  BY <1>14, <1>15, <2>1, AmongOf
<1>17. pots \in Seq(PotSet)
  BY PotsAre
<1>18. \A i \in DOMAIN all : all[i].left > 0 => \E j \in DOMAIN pots : pots[j] = all[i]
  BY <1>16 DEF ToSet
<1> HIDE DEF pots, S, T
<1>19. Apart(pots)
  <2>1. \A i \in DOMAIN all : all[i].fund # Cash
    <3> SUFFICES ASSUME NEW i \in DOMAIN all  PROVE all[i].fund # Cash
      OBVIOUS
    <3>1. i = 1 \/ i \in 2..(Len(s) + 1)
      BY <1>6, <1>7
    <3>2. CASE i = 1
      BY <1>8, <3>2 DEF Cash, Credit
    <3>3. CASE i \in 2..(Len(s) + 1)
      <4>1. i - 1 \in DOMAIN s /\ i # 1
        BY <1>6, <1>7, <3>3
      <4>2. s[i - 1].adv > 0 /\ s[i - 1].adv \in Nat
        BY <1>3, <1>9, <4>1
      <4>3. all[i].fund = s[i - 1].adv
        BY <1>8, <4>1
      <4> QED  BY <4>2, <4>3 DEF Cash
    <3> QED  BY <3>1, <3>2, <3>3
  <2>2. \A i \in DOMAIN pots : pots[i].fund # Cash
    BY <1>16, <2>1
  <2>3. ASSUME NEW i \in DOMAIN pots, NEW j \in DOMAIN pots, pots[i].fund = pots[j].fund
        PROVE  i = j
    <3>1. PICK m \in DOMAIN all : all[m] = pots[i]
      BY <1>16
    <3>2. PICK n \in DOMAIN all : all[n] = pots[j]
      BY <1>16
    <3>3. m = n
      BY <1>11, <2>3, <3>1, <3>2
    <3> QED  BY <1>16, <3>1, <3>2, <3>3 DEF IsInjective
  <2> QED  BY <2>2, <2>3 DEF Apart
<1>20. \A i \in DOMAIN pots :
         \/ pots[i] = c
         \/ \E v \in ToSet(k.vouchers) : v.parked > 0 /\ pots[i] = VoucherPot(k, v)
  BY <1>12, <1>16
<1>21. c.left > 0 => \E i \in DOMAIN pots : pots[i] = c
  <2>1. 1 \in DOMAIN all
    BY <1>6, <1>7
  <2> QED  BY <1>7, <1>18, <2>1
<1>22. ASSUME NEW v \in ToSet(k.vouchers), v.parked > 0, v.date <= upTo, VoucherPot(k, v).left > 0
       PROVE  \E i \in DOMAIN pots : pots[i] = VoucherPot(k, v)
  <2>1. PICK i \in DOMAIN s : s[i] = v
    BY <1>1, <1>22
  <2>2. i + 1 \in DOMAIN all /\ all[i + 1] = VoucherPot(k, v)
    BY <1>4, <1>7, <2>1
  <2> QED  BY <1>18, <1>22, <2>2
<1> QED  BY <1>17, <1>19, <1>20, <1>21, <1>22 DEF pots, c

(* The rows of a receipt draw what it spends of its own, and pots. *)
LEMMA RowsDraw ==
  ASSUME NEW k \in Books, NEW r \in Voucher, NEW bal, NEW pots \in Seq(PotSet), Apart(pots),
         NEW start \in Acc, start.paid = k.paid, start.drawn = 0,
         NEW t \in Seq(Bills), \A i \in DOMAIN t : bal[t[i]] \in Nat
  PROVE  LET end == AllRows(k, r, bal, pots, start, t)
         IN  /\ end \in Acc /\ end.left <= start.left
             /\ Draws(pots, r.no, k.paid, end.paid, end.drawn, start.left - end.left)
<1> DEFINE N == Len(t)
           A == {acc \in Acc : /\ acc.left <= start.left
                               /\ Draws(pots, r.no, k.paid, acc.paid, acc.drawn, start.left - acc.left)}
           base == start
           op(acc, b) == PayRow(k, r, bal, pots, acc, b)
           Solves(g) == g = [p \in SUBSET (1..N) |->
                               IF p = {} THEN base ELSE op(g[p \ {Max(p)}], t[Max(p)])]
           h == CHOOSE g : Solves(g)
           I == [n \in 0..N |-> A]
<1>a. /\ N \in Nat /\ DOMAIN t = 1..N /\ \A n \in 1..N : t[n] \in Bills
  OBVIOUS
<1>b. \A n \in 1..N : bal[t[n]] \in Nat
  BY <1>a
<1>k. k.paid \in Purse /\ r.no \in Nat /\ start.left \in Nat
  BY DEF Books, Voucher, Acc
<1>1. AllRows(k, r, bal, pots, start, t) = h[1..N]
  BY <1>a DEF AllRows, FoldLeft, MapThenFoldSet
<1>0. base \in A /\ \A n \in 1..N : \A acc \in A : op(acc, t[n]) \in A
  <2>1. base \in A
    <3>1. start.left - start.left = 0 /\ start.left <= start.left
      BY <1>k
    <3>2. Draws(pots, r.no, k.paid, k.paid, 0, 0)
      BY <1>k, DrawsNothing
    <3> QED  BY <3>1, <3>2
  <2>2. ASSUME NEW n \in 1..N, NEW acc \in A
        PROVE  op(acc, t[n]) \in A
    <3> DEFINE b == t[n]
               m == op(acc, b)
               need == Lowest(bal[b], IF k.bills[b].kept THEN acc.left ELSE acc.size)
               cash == Lowest(need, acc.left)
               q == acc.paid (+) Rupees(b, r.no, Cash, cash)
    <3>1. acc \in Acc /\ acc.left <= start.left
          /\ Draws(pots, r.no, k.paid, acc.paid, acc.drawn, start.left - acc.left)
      OBVIOUS
    <3>2. b \in Bills /\ bal[b] \in Nat
      BY <1>a, <1>b
    <3> HIDE DEF b
    <3>3. acc.left \in Nat /\ acc.size \in Nat /\ acc.drawn \in Nat /\ acc.left <= acc.size
      BY <3>1 DEF Acc
    <3>4. need \in Nat /\ cash \in Nat /\ need - cash \in Nat /\ cash <= acc.left
      BY <3>2, <3>3 DEF Lowest
    <3>5. /\ m.left = acc.left - cash /\ m.drawn = acc.drawn + need - cash
          /\ m.paid = q (+) FromPots(pots, acc.drawn, b, need - cash)
      BY DEF PayRow
    <3>6. m \in Acc
      BY <3>1, <3>2, PayRowPays
    <3> HIDE DEF need, cash, m
    <3>7. start.left - acc.left \in Nat
      BY <1>k, <3>1, <3>3
    <3>8. Draws(pots, r.no, k.paid, q, acc.drawn, start.left - acc.left + cash)
      BY <1>k, <3>1, <3>2, <3>3, <3>4, <3>7, DrawsCash
    <3> HIDE DEF q
    <3>9. start.left - acc.left + cash \in Nat
      BY <3>4, <3>7
    <3>10. Draws(pots, r.no, k.paid, m.paid, acc.drawn + (need - cash), start.left - acc.left + cash)
      <4> DEFINE x == need - cash
                 c == start.left - acc.left + cash
      <4>1. x \in Nat /\ c \in Nat /\ Draws(pots, r.no, k.paid, q, acc.drawn, c)
        BY <3>4, <3>8, <3>9
      <4>2. m.paid = q (+) FromPots(pots, acc.drawn, b, x)
        BY <3>5
      <4> HIDE DEF x, c
      <4>3. Draws(pots, r.no, k.paid, q (+) FromPots(pots, acc.drawn, b, x), acc.drawn + x, c)
        BY <1>k, <3>2, <3>3, <4>1, DrawsPots
      <4> QED  BY <4>2, <4>3 DEF x, c
    <3>11. /\ acc.drawn + (need - cash) = m.drawn
           /\ start.left - acc.left + cash = start.left - m.left
           /\ m.left <= start.left
      BY <1>k, <3>1, <3>3, <3>4, <3>5
    <3> QED  BY <3>6, <3>10, <3>11 DEF m, b
  <2> HIDE DEF A, op, base
  <2> QED  BY <2>1, <2>2
<1>2. Solves(h)
  <2> DEFINE F == [n \in 1..N |-> [acc \in A |-> op(acc, t[n])]]
  <2> HIDE DEF N, A, base, op, h
  <2>1. F \in [1..N -> [A -> A]]
    BY <1>0
  <2> HIDE DEF F
  <2>2. PICK g \in [SUBSET (1..N) -> A] : Folding(g, F, base, N)
    BY <1>a, <1>0, <2>1, FoldSolves, Zenon
  <2>3. Solves(g)
    BY <1>a, <1>0, <2>2, PlacesLeft DEF F, Folding
  <2> QED  BY <2>3 DEF h
<1>3. h[1..0] \in I[0]
  <2>1. h[1..0] = base
    <3>1. 1..0 = {} /\ {} \in SUBSET (1..N)
      OBVIOUS
    <3> QED  BY <1>2, <3>1
  <2> HIDE DEF h, A, base
  <2> QED  BY <1>a, <1>0, <2>1
<1>4. ASSUME NEW n \in 1..N, h[1..(n - 1)] \in I[n - 1]
      PROVE  h[1..n] \in I[n]
  <2>1. h[1..n] = op(h[1..(n - 1)], t[n])
    <3>1. Max(1..n) = n /\ (1..n) \ {n} = 1..(n - 1) /\ 1..n # {} /\ 1..n \in SUBSET (1..N)
      BY <1>a, LastPlace
    <3> HIDE DEF op
    <3> QED  BY <1>2, <3>1
  <2> HIDE DEF h, op, A
  <2>2. n - 1 \in 0..N /\ n \in 0..N
    BY <1>a
  <2> QED  BY <1>0, <1>4, <2>1, <2>2
<1>5. h[1..N] \in I[N]
  <2> HIDE DEF h, I
  <2> QED  BY <1>a, <1>3, <1>4, FoldKeeps
<1>6. h[1..N] \in A
  <2>1. N \in 0..N
    BY <1>a
  <2> HIDE DEF h, A
  <2> QED  BY <1>5, <2>1
<1> HIDE DEF h
<1> QED  BY <1>1, <1>6

(* Rows paid from money on account alone draw pots. *)
LEMMA SpentDraws ==
  ASSUME NEW k \in Books, NEW pots \in Seq(PotSet), Apart(pots),
         NEW start \in Spend, start.paid = k.paid, start.drawn = 0, NEW t \in Seq(Bills)
  PROVE  LET end == Spent(k, pots, start, t)
         IN  end \in Spend /\ Draws(pots, NoVoucher, k.paid, end.paid, end.drawn, 0)
<1> DEFINE N == Len(t)
           A == {acc \in Spend : Draws(pots, NoVoucher, k.paid, acc.paid, acc.drawn, 0)}
           base == start
           op(acc, b) == SpendOn(k, pots, acc, b)
           Solves(g) == g = [p \in SUBSET (1..N) |->
                               IF p = {} THEN base ELSE op(g[p \ {Max(p)}], t[Max(p)])]
           h == CHOOSE g : Solves(g)
           I == [n \in 0..N |-> A]
<1>a. /\ N \in Nat /\ DOMAIN t = 1..N /\ \A n \in 1..N : t[n] \in Bills
  OBVIOUS
<1>k. k.paid \in Purse /\ NoVoucher \in Nat
  BY DEF Books, NoVoucher
<1>1. Spent(k, pots, start, t) = h[1..N]
  BY <1>a DEF Spent, FoldLeft, MapThenFoldSet
<1>0. base \in A /\ \A n \in 1..N : \A acc \in A : op(acc, t[n]) \in A
  <2>1. base \in A
    BY <1>k, DrawsNothing
  <2>2. ASSUME NEW n \in 1..N, NEW acc \in A
        PROVE  op(acc, t[n]) \in A
    <3> DEFINE b == t[n]
               m == op(acc, b)
               need == Lowest(Balance(k, b), acc.size)
    <3>1. acc \in Spend /\ Draws(pots, NoVoucher, k.paid, acc.paid, acc.drawn, 0)
      OBVIOUS
    <3>2. b \in Bills
      BY <1>a
    <3> HIDE DEF b
    <3>3. acc.size \in Nat /\ acc.drawn \in Nat
      BY <3>1 DEF Spend
    <3>4. need \in Nat
      <4>1. Balance(k, b) \in Nat
        BY <3>2, BalanceIs
      <4> QED  BY <3>3, <4>1 DEF Lowest
    <3>5. m.drawn = acc.drawn + need /\ m.paid = acc.paid (+) FromPots(pots, acc.drawn, b, need)
      BY DEF SpendOn
    <3>6. m \in Spend
      BY <3>1, <3>2, SpendOnPays
    <3> HIDE DEF need, m
    <3>7. Draws(pots, NoVoucher, k.paid, m.paid, acc.drawn + need, 0)
      <4>1. 0 \in Nat
        OBVIOUS
      <4> QED  BY <1>k, <3>1, <3>2, <3>3, <3>4, <3>5, <4>1, DrawsPots
    <3> QED  BY <3>5, <3>6, <3>7 DEF m, b
  <2> HIDE DEF A, op, base
  <2> QED  BY <2>1, <2>2
<1>2. Solves(h)
  <2> DEFINE F == [n \in 1..N |-> [acc \in A |-> op(acc, t[n])]]
  <2> HIDE DEF N, A, base, op, h
  <2>1. F \in [1..N -> [A -> A]]
    BY <1>0
  <2> HIDE DEF F
  <2>2. PICK g \in [SUBSET (1..N) -> A] : Folding(g, F, base, N)
    BY <1>a, <1>0, <2>1, FoldSolves, Zenon
  <2>3. Solves(g)
    BY <1>a, <1>0, <2>2, PlacesLeft DEF F, Folding
  <2> QED  BY <2>3 DEF h
<1>3. h[1..0] \in I[0]
  <2>1. h[1..0] = base
    <3>1. 1..0 = {} /\ {} \in SUBSET (1..N)
      OBVIOUS
    <3> QED  BY <1>2, <3>1
  <2> HIDE DEF h, A, base
  <2> QED  BY <1>a, <1>0, <2>1
<1>4. ASSUME NEW n \in 1..N, h[1..(n - 1)] \in I[n - 1]
      PROVE  h[1..n] \in I[n]
  <2>1. h[1..n] = op(h[1..(n - 1)], t[n])
    <3>1. Max(1..n) = n /\ (1..n) \ {n} = 1..(n - 1) /\ 1..n # {} /\ 1..n \in SUBSET (1..N)
      BY <1>a, LastPlace
    <3> HIDE DEF op
    <3> QED  BY <1>2, <3>1
  <2> HIDE DEF h, op, A
  <2>2. n - 1 \in 0..N /\ n \in 0..N
    BY <1>a
  <2> QED  BY <1>0, <1>4, <2>1, <2>2
<1>5. h[1..N] \in I[N]
  <2> HIDE DEF h, I
  <2> QED  BY <1>a, <1>3, <1>4, FoldKeeps
<1>6. h[1..N] \in A
  <2>1. N \in 0..N
    BY <1>a
  <2> HIDE DEF h, A
  <2> QED  BY <1>5, <2>1
<1> HIDE DEF h
<1> QED  BY <1>1, <1>6

(* A note pays its bills of its own, and draws no pot. *)
LEMMA NoteDraws ==
  ASSUME NEW k \in Books, NEW no \in Nat, NEW start \in NoteAcc, NEW p \in Purse, NEW c \in Nat,
         Draws(<<>>, no, p, start.paid, 0, c), NEW t \in Seq(Bills)
  PROVE  LET end == NotePaid(k, no, start, t)
         IN  /\ end \in NoteAcc /\ end.left <= start.left
             /\ Draws(<<>>, no, p, end.paid, 0, c + (start.left - end.left))
<1> DEFINE N == Len(t)
           A == {acc \in NoteAcc : /\ acc.left <= start.left
                                   /\ Draws(<<>>, no, p, acc.paid, 0, c + (start.left - acc.left))}
           base == start
           op(acc, b) == NotePay(k, no, acc, b)
           Solves(g) == g = [s \in SUBSET (1..N) |->
                               IF s = {} THEN base ELSE op(g[s \ {Max(s)}], t[Max(s)])]
           h == CHOOSE g : Solves(g)
           I == [n \in 0..N |-> A]
<1>a. /\ N \in Nat /\ DOMAIN t = 1..N /\ \A n \in 1..N : t[n] \in Bills
  OBVIOUS
<1>k. start.left \in Nat
  BY DEF NoteAcc
<1>p. <<>> \in Seq(PotSet) /\ Apart(<<>>)
  BY DEF Apart
<1>1. NotePaid(k, no, start, t) = h[1..N]
  BY <1>a DEF NotePaid, FoldLeft, MapThenFoldSet
<1>0. base \in A /\ \A n \in 1..N : \A acc \in A : op(acc, t[n]) \in A
  <2>1. base \in A
    <3>1. c + (start.left - start.left) = c /\ start.left <= start.left
      BY <1>k
    <3> QED  BY <3>1
  <2>2. ASSUME NEW n \in 1..N, NEW acc \in A
        PROVE  op(acc, t[n]) \in A
    <3> DEFINE b == t[n]
               m == op(acc, b)
               use == Lowest(acc.left, Balance(k, b))
               e == c + (start.left - acc.left)
    <3>1. acc \in NoteAcc /\ acc.left <= start.left /\ Draws(<<>>, no, p, acc.paid, 0, e)
      OBVIOUS
    <3>2. b \in Bills
      BY <1>a
    <3> HIDE DEF b
    <3>3. acc.left \in Nat
      BY <3>1 DEF NoteAcc
    <3>4. use \in Nat /\ use <= acc.left
      <4>1. Balance(k, b) \in Nat
        BY <3>2, BalanceIs
      <4> QED  BY <3>3, <4>1 DEF Lowest
    <3>5. m.left = acc.left - use /\ m.paid = acc.paid (+) Rupees(b, no, Cash, use)
      BY DEF NotePay
    <3>6. m \in NoteAcc
      BY <3>1, <3>2, NotePayPays
    <3> HIDE DEF use, m
    <3>7. e \in Nat /\ e + use = c + (start.left - m.left) /\ m.left <= start.left
      BY <1>k, <3>1, <3>3, <3>4, <3>5
    <3> HIDE DEF e
    <3>8. Draws(<<>>, no, p, m.paid, 0, e + use)
      <4>1. 0 \in Nat
        OBVIOUS
      <4> QED  BY <1>p, <3>1, <3>2, <3>4, <3>5, <3>7, <4>1, DrawsCash
    <3> QED  BY <3>6, <3>7, <3>8 DEF m, b
  <2> HIDE DEF A, op, base
  <2> QED  BY <2>1, <2>2
<1>2. Solves(h)
  <2> DEFINE F == [n \in 1..N |-> [acc \in A |-> op(acc, t[n])]]
  <2> HIDE DEF N, A, base, op, h
  <2>1. F \in [1..N -> [A -> A]]
    BY <1>0
  <2> HIDE DEF F
  <2>2. PICK g \in [SUBSET (1..N) -> A] : Folding(g, F, base, N)
    BY <1>a, <1>0, <2>1, FoldSolves, Zenon
  <2>3. Solves(g)
    BY <1>a, <1>0, <2>2, PlacesLeft DEF F, Folding
  <2> QED  BY <2>3 DEF h
<1>3. h[1..0] \in I[0]
  <2>1. h[1..0] = base
    <3>1. 1..0 = {} /\ {} \in SUBSET (1..N)
      OBVIOUS
    <3> QED  BY <1>2, <3>1
  <2> HIDE DEF h, A, base
  <2> QED  BY <1>a, <1>0, <2>1
<1>4. ASSUME NEW n \in 1..N, h[1..(n - 1)] \in I[n - 1]
      PROVE  h[1..n] \in I[n]
  <2>1. h[1..n] = op(h[1..(n - 1)], t[n])
    <3>1. Max(1..n) = n /\ (1..n) \ {n} = 1..(n - 1) /\ 1..n # {} /\ 1..n \in SUBSET (1..N)
      BY <1>a, LastPlace
    <3> HIDE DEF op
    <3> QED  BY <1>2, <3>1
  <2> HIDE DEF h, op, A
  <2>2. n - 1 \in 0..N /\ n \in 0..N
    BY <1>a
  <2> QED  BY <1>0, <1>4, <2>1, <2>2
<1>5. h[1..N] \in I[N]
  <2> HIDE DEF h, I
  <2> QED  BY <1>a, <1>3, <1>4, FoldKeeps
<1>6. h[1..N] \in A
  <2>1. N \in 0..N
    BY <1>a
  <2> HIDE DEF h, A
  <2> QED  BY <1>5, <2>1
<1> HIDE DEF h
<1> QED  BY <1>1, <1>6

(***************************************************************************)
(* Books on which all money is accounted for.                              *)
(***************************************************************************)
(* Who a rupee comes from is on the books: a voucher that paid it in cash, *)
(* the CREDIT opening, or an advance there is.                             *)
Owned(k, e) ==
  \/ e.fund = Cash /\ \E v \in ToSet(k.vouchers) : v.no = e.by
  \/ e.fund = Credit
  \/ \E v \in ToSet(k.vouchers) : v.parked > 0 /\ v.adv = e.fund

(* Each voucher is what it cleared, paid and parked, and neither it nor the *)
(* CREDIT opening pays more than there was of it.                          *)
Backed(k) ==
  /\ \A v \in ToSet(k.vouchers) : v.amt = v.cleared + In(k.paid, CashBy(v.no)) + v.parked
  /\ \A v \in ToSet(k.vouchers) : v.parked > 0 => In(k.paid, From(v.adv)) <= v.parked
  /\ In(k.paid, From(Credit)) <= NotNegative(-k.opening)
  /\ \A e \in DOMAIN k.paid : Owned(k, e)

Accounted(k) == Numbered(k) /\ Backed(k)

(* Pots of what is on account. *)
Draining(k, pots) ==
  /\ pots \in Seq(PotSet) /\ Apart(pots)
  /\ \A i \in DOMAIN pots :
       \/ pots[i].fund = Credit /\ pots[i].left = CreditPot(k).left
       \/ \E v \in ToSet(k.vouchers) :
            v.parked > 0 /\ pots[i].fund = v.adv /\ pots[i].left = VoucherPot(k, v).left

(* The vouchers of the books, typed. *)
LEMMA VouchersAre ==
  ASSUME NEW k \in Books
  PROVE  \A v \in ToSet(k.vouchers) :
           /\ v \in Voucher
           /\ v.no \in Nat /\ v.date \in Nat /\ v.amt \in Nat /\ v.adv \in Nat
           /\ v.parked \in Nat /\ v.cleared \in Nat
<1>1. \A v \in ToSet(k.vouchers) : v \in Voucher
  BY ClearedIs
<1> QED  BY <1>1 DEF Voucher

(* Of no fund is more drawn than there was in it. *)
LEMMA DrawsLimits ==
  ASSUME NEW k \in Books, Accounted(k), NEW pots, Draining(k, pots), NEW no \in Nat, NEW d \in Nat,
         NEW c \in Nat, NEW q, Draws(pots, no, k.paid, q, d, c)
  PROVE  /\ \A v \in ToSet(k.vouchers) : v.parked > 0 => In(q, From(v.adv)) <= v.parked
         /\ In(q, From(Credit)) <= NotNegative(-k.opening)
         /\ \A e \in DOMAIN q : Owned(k, e) \/ (e.fund = Cash /\ e.by = no /\ c # 0)
<1>1. pots \in Seq(PotSet) /\ Apart(pots) /\ k.paid \in Purse
  BY DEF Draining, Books
<1>2. ASSUME NEW f \in Int \ {Cash}, NEW amt \in Nat, In(k.paid, From(f)) <= amt,
             \A i \in DOMAIN pots : pots[i].fund = f => pots[i].left = NotNegative(amt - In(k.paid, From(f)))
      PROVE  In(q, From(f)) <= amt
  <2>1. In(k.paid, From(f)) \in Nat
    BY <1>1, InNatural
  <2>2. CASE \A i \in DOMAIN pots : pots[i].fund # f
    <3>1. In(q, From(f)) = In(k.paid, From(f))
      BY <2>2 DEF Draws
    <3> QED  BY <1>2, <3>1
  <2>3. CASE \E i \in DOMAIN pots : pots[i].fund = f
    <3>1. PICK i \in DOMAIN pots : pots[i].fund = f
      BY <2>3
    <3>2. Gone(pots, i, d) \in Nat /\ Gone(pots, i, d) <= pots[i].left
      BY <1>1, GoneIs
    <3>3. pots[i].left = amt - In(k.paid, From(f))
      <4>1. pots[i].left = NotNegative(amt - In(k.paid, From(f)))
        BY <1>2, <3>1
      <4> QED  BY <1>2, <2>1, <4>1 DEF NotNegative, Highest
    <3>4. In(q, From(f)) <= In(k.paid, From(f)) + Gone(pots, i, d)
      BY <3>1 DEF Draws
    <3>5. In(q, From(f)) \in Nat
      <4>1. q \in Purse
        BY DEF Draws
      <4> QED  BY <4>1, InNatural
    <3> QED  BY <2>1, <3>2, <3>3, <3>4, <3>5
  <2> QED  BY <2>2, <2>3
<1>3. NotNegative(-k.opening) \in Nat
  BY DEF Books, NotNegative, Highest
<1>4. ASSUME NEW v \in ToSet(k.vouchers), v.parked > 0
      PROVE  In(q, From(v.adv)) <= v.parked
  <2>1. v.adv \in Nat /\ v.parked \in Nat /\ v.adv > 0 /\ In(k.paid, From(v.adv)) <= v.parked
    BY <1>4, VouchersAre DEF Accounted, Numbered, Backed
  <2>2. v.adv \in Int \ {Cash} /\ v.adv # Credit
    BY <2>1 DEF Cash, Credit
  <2>3. ASSUME NEW i \in DOMAIN pots, pots[i].fund = v.adv
        PROVE  pots[i].left = NotNegative(v.parked - In(k.paid, From(v.adv)))
    <3>1. PICK w \in ToSet(k.vouchers) : pots[i].fund = w.adv /\ pots[i].left = VoucherPot(k, w).left
      BY <2>2, <2>3 DEF Draining
    <3>2. w = v
      <4>1. w.adv # 0 /\ w.adv = v.adv
        BY <2>1, <2>3, <3>1
      <4> QED  BY <4>1, Zenon DEF Accounted, Numbered
    <3>3. VoucherPot(k, v).left = NotNegative(v.parked - In(k.paid, From(v.adv)))
      BY <2>1, PotIs DEF VoucherPot
    <3> QED  BY <3>1, <3>2, <3>3
  <2> QED  BY <1>2, <2>1, <2>2, <2>3
<1>5. In(q, From(Credit)) <= NotNegative(-k.opening)
  <2>1. Credit \in Int \ {Cash} /\ In(k.paid, From(Credit)) <= NotNegative(-k.opening)
    BY DEF Accounted, Backed, Credit, Cash
  <2>2. ASSUME NEW i \in DOMAIN pots, pots[i].fund = Credit
        PROVE  pots[i].left = NotNegative(NotNegative(-k.opening) - In(k.paid, From(Credit)))
    <3>1. \A v \in ToSet(k.vouchers) : v.adv # Credit
      BY VouchersAre DEF Credit
    <3>2. pots[i].left = CreditPot(k).left
      BY <2>2, <3>1 DEF Draining
    <3>3. CreditPot(k).left = NotNegative(NotNegative(-k.opening) - In(k.paid, From(Credit)))
      BY <1>3, PotIs DEF CreditPot
    <3> QED  BY <3>2, <3>3
  <2> QED  BY <1>2, <1>3, <2>1, <2>2
<1>6. ASSUME NEW e \in DOMAIN q
      PROVE  Owned(k, e) \/ (e.fund = Cash /\ e.by = no /\ c # 0)
  <2>1. e \in DOMAIN k.paid => Owned(k, e)
    BY DEF Accounted, Backed
  <2>2. (\E i \in DOMAIN pots : e.fund = pots[i].fund) => Owned(k, e)
    BY DEF Draining, Owned
  <2> QED  BY <2>1, <2>2 DEF Draws
<1> QED  BY <1>4, <1>5, <1>6

(* There is no cash of a voucher that is not on the books, and nothing      *)
(* from an advance that is not.                                            *)
LEMMA NothingOf ==
  ASSUME NEW k \in Books, Numbered(k), NEW q \in Purse, NEW no \in Nat,
         \A e \in DOMAIN q : Owned(k, e) \/ (e.fund = Cash /\ e.by = no)
  PROVE  /\ \A n \in Nat \ {no} : (\A v \in ToSet(k.vouchers) : v.no # n) => In(q, CashBy(n)) = 0
         /\ (\A v \in ToSet(k.vouchers) : v.no # no) /\ (\A e \in DOMAIN q : Owned(k, e))
              => In(q, CashBy(no)) = 0
         /\ \A f \in Nat \ {0} : (\A v \in ToSet(k.vouchers) : v.parked > 0 => v.adv # f)
              => In(q, From(f)) = 0
<1>1. \A v \in ToSet(k.vouchers) : v.parked > 0 => v.adv \in Nat /\ v.adv # Cash
  BY VouchersAre DEF Numbered, Cash
<1>2. ASSUME NEW n \in Nat, \A v \in ToSet(k.vouchers) : v.no # n, NEW e \in DOMAIN q, Owned(k, e)
      PROVE  e \notin CashBy(n)
  BY <1>1, <1>2 DEF Owned, CashBy, Cash, Credit
<1>3. ASSUME NEW n \in Nat \ {no}, \A v \in ToSet(k.vouchers) : v.no # n
      PROVE  In(q, CashBy(n)) = 0
  <2>1. \A e \in DOMAIN q : e \notin CashBy(n)
    <3> SUFFICES ASSUME NEW e \in DOMAIN q  PROVE e \notin CashBy(n)
      OBVIOUS
    <3>1. CASE Owned(k, e)
      BY <1>2, <1>3, <3>1
    <3>2. CASE e.fund = Cash /\ e.by = no
      BY <1>3, <3>2 DEF CashBy
    <3> QED  BY <3>1, <3>2
  <2> QED  BY <2>1, InNatural
<1>4. ASSUME \A v \in ToSet(k.vouchers) : v.no # no, \A e \in DOMAIN q : Owned(k, e)
      PROVE  In(q, CashBy(no)) = 0
  <2>1. \A e \in DOMAIN q : e \notin CashBy(no)
    BY <1>2, <1>4
  <2> QED  BY <2>1, InNatural
<1>5. ASSUME NEW f \in Nat \ {0}, \A v \in ToSet(k.vouchers) : v.parked > 0 => v.adv # f
      PROVE  In(q, From(f)) = 0
  <2>1. \A e \in DOMAIN q : e.fund # f
    <3>1. f # Cash /\ f # Credit
      BY DEF Cash, Credit
    <3> QED  BY <1>5, <3>1 DEF Owned
  <2>2. \A e \in DOMAIN q : e \notin From(f)
    BY <2>1 DEF From
  <2> QED  BY <2>2, InNatural
<1> QED  BY <1>3, <1>4, <1>5

(* Money drawn from pots alone leaves it all accounted for. *)
LEMMA DrawnIsAccounted ==
  ASSUME NEW k \in Books, Accounted(k), NEW pots, Draining(k, pots), NEW no \in Nat, NEW d \in Nat,
         NEW q, Draws(pots, no, k.paid, q, d, 0)
  PROVE  LET l == [k EXCEPT !.paid = q]
         IN  Accounted(l) /\ l.vouchers = k.vouchers /\ l.elsewhere = k.elsewhere /\ l.lastNo = k.lastNo
<1> DEFINE l == [k EXCEPT !.paid = q]
<1>1. /\ l.vouchers = k.vouchers /\ l.elsewhere = k.elsewhere /\ l.lastNo = k.lastNo
      /\ l.opening = k.opening /\ l.paid = q
  BY DEF Books
<1> HIDE DEF l
<1>2. 0 \in Nat
  OBVIOUS
<1>3. /\ \A v \in ToSet(k.vouchers) : v.parked > 0 => In(q, From(v.adv)) <= v.parked
      /\ In(q, From(Credit)) <= NotNegative(-k.opening)
      /\ \A e \in DOMAIN q : Owned(k, e) \/ (e.fund = Cash /\ e.by = no /\ 0 # 0)
  BY <1>2, DrawsLimits
<1>4. \A v \in ToSet(k.vouchers) : In(q, CashBy(v.no)) = In(k.paid, CashBy(v.no))
  <2> SUFFICES ASSUME NEW v \in ToSet(k.vouchers)  PROVE In(q, CashBy(v.no)) = In(k.paid, CashBy(v.no))
    OBVIOUS
  <2>1. v.no \in Nat /\ k.paid \in Purse
    BY VouchersAre DEF Books
  <2>2. In(k.paid, CashBy(v.no)) \in Nat
    BY <2>1, InNatural
  <2>3. In(q, CashBy(v.no)) = In(k.paid, CashBy(v.no)) + (IF v.no = no THEN 0 ELSE 0)
    BY <2>1 DEF Draws
  <2> QED  BY <2>2, <2>3
<1>5. Numbered(l)
  BY <1>1 DEF Numbered, Accounted
<1>6. Backed(l)
  <2>1. \A v \in ToSet(k.vouchers) : v.amt = v.cleared + In(q, CashBy(v.no)) + v.parked
    BY <1>4 DEF Accounted, Backed
  <2>2. \A e \in DOMAIN q : Owned(l, e)
    BY <1>1, <1>3 DEF Owned
  <2> QED  BY <1>1, <1>3, <2>1, <2>2 DEF Backed
<1> QED  BY <1>1, <1>5, <1>6 DEF Accounted, l

(* A voucher that is not on the books and may be entered. *)
Waiting(k, r) ==
  /\ r \in Voucher /\ r.date \in Days /\ r.no <= k.lastNo /\ r.adv <= k.elsewhere
  /\ \A v \in ToSet(k.vouchers) : v.no # r.no /\ (r.adv # 0 => v.adv # r.adv)

(* Two vouchers that may be entered one after the other. *)
Differ(r, s) == r.no # s.no /\ (r.adv # 0 => r.adv # s.adv)

(* What is entered is accounted for: what it cleared, paid and left.       *)
LEMMA EnterAccounted ==
  ASSUME NEW k \in Books, Accounted(k), NEW r, Waiting(k, r), NEW pots, Draining(k, pots),
         NEW d \in Nat, NEW c \in Nat, NEW cleared \in Nat, NEW end, end.left \in Nat,
         Draws(pots, r.no, k.paid, end.paid, d, c), r.amt = cleared + c + end.left
  PROVE  LET l == Enter(k, r, cleared, end)
         IN  /\ Accounted(l) /\ l.elsewhere = k.elsewhere /\ l.lastNo = k.lastNo
             /\ \A s : Waiting(k, s) /\ Differ(s, r) => Waiting(l, s)
<1> DEFINE row == [r EXCEPT !.cleared = cleared, !.parked = end.left,
                            !.adv = IF end.left > 0 /\ @ = 0 THEN NextAdvance(k) ELSE @]
           q == end.paid
           V == ToSet(k.vouchers)
           t == Append(k.vouchers, row)
           l == Enter(k, r, cleared, end)
<1>1. l = [k EXCEPT !.vouchers = t, !.paid = q]
  BY DEF Enter
<1>2. /\ r \in Voucher /\ r.no \in Nat /\ r.adv \in Nat /\ r.date \in Days /\ r.no <= k.lastNo
      /\ r.adv <= k.elsewhere /\ k.elsewhere \in Nat /\ k.paid \in Purse /\ q \in Purse
  BY DEF Waiting, Voucher, Books, Draws
<1>3. /\ row \in Voucher /\ row.no = r.no /\ row.date = r.date /\ row.amt = r.amt
      /\ row.cleared = cleared /\ row.parked = end.left
      /\ row.adv = IF end.left > 0 /\ r.adv = 0 THEN NextAdvance(k) ELSE r.adv
  <2>1. NextAdvance(k) \in Nat
    BY NumbersOf
  <2> QED  BY <1>2, <2>1 DEF Voucher
<1>4. /\ l.vouchers = t /\ l.paid = q /\ l.elsewhere = k.elsewhere /\ l.lastNo = k.lastNo
      /\ l.opening = k.opening
  BY <1>1 DEF Books
<1> HIDE DEF l, row
<1>5. k.vouchers \in Seq(Voucher)
  BY DEF Books
<1>6. ToSet(t) = V \cup {row} /\ (IsInjective(k.vouchers) /\ row \notin V => IsInjective(t))
  <2>1. /\ Len(k.vouchers) \in Nat
        /\ DOMAIN t = 1..(Len(k.vouchers) + 1) /\ t[Len(k.vouchers) + 1] = row
        /\ DOMAIN k.vouchers = 1..Len(k.vouchers)
        /\ \A i \in DOMAIN k.vouchers : t[i] = k.vouchers[i]
    BY <1>3, <1>5
  <2> HIDE DEF t
  <2>2. DOMAIN t = DOMAIN k.vouchers \cup {Len(k.vouchers) + 1}
    BY <2>1
  <2>3. ToSet(t) = V \cup {row}
    <3>1. ToSet(t) \subseteq V \cup {row}
      BY <2>1, <2>2 DEF ToSet
    <3>2. \A i \in DOMAIN k.vouchers : \E j \in DOMAIN t : t[j] = k.vouchers[i]
      BY <2>1, <2>2
    <3>3. Len(k.vouchers) + 1 \in DOMAIN t
      BY <2>2
    <3>4. V \cup {row} \subseteq ToSet(t)
      BY <2>1, <3>2, <3>3 DEF ToSet
    <3> QED  BY <3>1, <3>4
  <2>4. ASSUME IsInjective(k.vouchers), row \notin V
        PROVE  IsInjective(t)
    <3>1. \A i \in DOMAIN k.vouchers : k.vouchers[i] # row
      BY <2>4 DEF ToSet
    <3> QED  BY <2>1, <2>2, <2>4, <3>1, Zenon DEF IsInjective
  <2> QED  BY <2>3, <2>4
<1> HIDE DEF t
<1>7. \A v \in V : /\ v.no # row.no /\ (row.adv # 0 => v.adv # row.adv)
                   /\ (v.adv # 0 => v.adv # row.adv)
  <2> SUFFICES ASSUME NEW v \in V
               PROVE  v.no # row.no /\ v.adv \in Nat /\ (v.adv # 0 => v.adv # row.adv)
    OBVIOUS
  <2>1. v.no # r.no /\ (r.adv # 0 => v.adv # r.adv) /\ v.adv \in Nat
    BY VouchersAre DEF Waiting
  <2>2. v.adv < NextAdvance(k) /\ NextAdvance(k) \in Nat
    <3>1. NextAdvance(k) \in Nat /\ NextAdvance(k) > k.elsewhere
      BY NextIsNew
    <3>2. v.parked > 0 => NextAdvance(k) > v.adv
      BY NextIsNew DEF Parked
    <3>3. v.adv <= k.elsewhere \/ v.parked > 0
      BY DEF Accounted, Numbered
    <3> QED  BY <1>2, <2>1, <3>1, <3>2, <3>3
  <2> QED  BY <1>2, <1>3, <2>1, <2>2
<1>8. row.adv \in Nat /\ (row.adv <= k.elsewhere \/ row.parked > 0) /\ (row.parked > 0 => row.adv > 0)
  <2>1. NextAdvance(k) \in Nat /\ NextAdvance(k) > 0
    <3>1. NextAdvance(k) \in Nat /\ NextAdvance(k) > k.elsewhere
      BY NextIsNew
    <3> QED  BY <1>2, <3>1
  <2> QED  BY <1>2, <1>3, <2>1
<1>9. Numbered(l)
  <2>1. IsInjective(t)
    <3>1. row \notin V
      BY <1>7
    <3> QED  BY <1>6, <3>1 DEF Accounted, Numbered
  <2>2. ASSUME NEW v \in V \cup {row}, NEW w \in V \cup {row},
               v.no = w.no \/ (v.adv # 0 /\ v.adv = w.adv)
        PROVE  v = w
    BY <1>7, <2>2 DEF Accounted, Numbered
  <2>3. \A v \in V \cup {row} : /\ v.date \in Days /\ v.no <= k.lastNo
                                /\ v.adv <= k.elsewhere \/ v.parked > 0
                                /\ v.parked > 0 => v.adv > 0
    BY <1>2, <1>3, <1>8 DEF Accounted, Numbered
  <2> QED  BY <1>4, <1>6, <2>1, <2>2, <2>3 DEF Numbered
<1>10. /\ \A v \in V : v.parked > 0 => In(q, From(v.adv)) <= v.parked
       /\ In(q, From(Credit)) <= NotNegative(-k.opening)
       /\ \A e \in DOMAIN q : Owned(k, e) \/ (e.fund = Cash /\ e.by = r.no /\ c # 0)
  BY <1>2, DrawsLimits
<1>11. \A v \in V \cup {row} : v.amt = v.cleared + In(q, CashBy(v.no)) + v.parked
  <2>1. ASSUME NEW v \in V
        PROVE  v.amt = v.cleared + In(q, CashBy(v.no)) + v.parked
    <3>1. v.no # r.no /\ v.no \in Nat
      BY VouchersAre DEF Waiting
    <3>2. In(q, CashBy(v.no)) = In(k.paid, CashBy(v.no)) + 0
      BY <3>1 DEF Draws
    <3>3. In(k.paid, CashBy(v.no)) \in Nat
      BY <1>2, InNatural
    <3> QED  BY <3>2, <3>3 DEF Accounted, Backed
  <2>2. In(q, CashBy(r.no)) = c
    <3>1. In(k.paid, CashBy(r.no)) = 0
      <4>1. \A e \in DOMAIN k.paid : Owned(k, e)
        BY DEF Accounted, Backed
      <4>2. \A v \in V : v.no # r.no
        BY DEF Waiting
      <4>3. Numbered(k)
        BY DEF Accounted
      <4>4. \A e \in DOMAIN k.paid : Owned(k, e) \/ (e.fund = Cash /\ e.by = r.no)
        BY <4>1
      <4> QED  BY <1>2, <4>1, <4>2, <4>3, <4>4, NothingOf
    <3>2. In(q, CashBy(r.no)) = In(k.paid, CashBy(r.no)) + c
      BY <1>2 DEF Draws
    <3> QED  BY <3>1, <3>2
  <2>3. row.amt = row.cleared + In(q, CashBy(row.no)) + row.parked
    BY <1>3, <2>2
  <2> QED  BY <2>1, <2>3
<1>12. row.parked > 0 => In(q, From(row.adv)) <= row.parked
  <2> SUFFICES ASSUME row.parked > 0  PROVE In(q, From(row.adv)) <= row.parked
    OBVIOUS
  <2>1. row.adv \in Nat \ {0} /\ \A v \in V : v.parked > 0 => v.adv # row.adv
    BY <1>7, <1>8
  <2>2. Numbered(k) /\ \A e \in DOMAIN q : Owned(k, e) \/ (e.fund = Cash /\ e.by = r.no)
    BY <1>10 DEF Accounted
  <2>3. In(q, From(row.adv)) = 0
    BY <1>2, <2>1, <2>2, NothingOf
  <2> QED  BY <1>3, <2>3
<1>13. \A e \in DOMAIN q : Owned(l, e)
  BY <1>3, <1>4, <1>6, <1>10 DEF Owned
<1>14. Backed(l)
  BY <1>4, <1>6, <1>10, <1>11, <1>12, <1>13 DEF Backed
<1>15. ASSUME NEW s, Waiting(k, s), Differ(s, r)
       PROVE  Waiting(l, s)
  <2>1. s.adv \in Nat /\ s.adv <= k.elsewhere
    BY <1>15 DEF Waiting, Voucher
  <2>2. NextAdvance(k) \in Nat /\ NextAdvance(k) > s.adv
    <3>1. NextAdvance(k) \in Nat /\ NextAdvance(k) > k.elsewhere
      BY NextIsNew
    <3> QED  BY <1>2, <2>1, <3>1
  <2>3. row.no # s.no /\ (s.adv # 0 => row.adv # s.adv)
    BY <1>3, <1>15, <2>1, <2>2 DEF Differ
  <2> QED  BY <1>4, <1>6, <1>15, <2>3 DEF Waiting
<1> QED  BY <1>4, <1>9, <1>14, <1>15 DEF Accounted, l

(* Between operations, other parties' numbers are above all in use here.   *)
AtRest(k) == Accounted(k) /\ \A v \in ToSet(k.vouchers) : v.adv <= k.elsewhere

(* Money on account taken back off bills leaves it all accounted for; so    *)
(* does a change of the CREDIT opening that pays nothing.                  *)
LEMMA PartIsAccounted ==
  ASSUME NEW k \in Books, Accounted(k), NEW D \in SUBSET DOMAIN k.paid,
         \A e \in DOMAIN k.paid \ D : e.fund # Cash,
         NEW l \in Books, l.vouchers = k.vouchers, l.paid = [e \in D |-> k.paid[e]],
         l.elsewhere = k.elsewhere, l.lastNo >= k.lastNo,
         l.opening = k.opening \/ \A e \in D : e.fund # Credit
  PROVE  Accounted(l) /\ (AtRest(k) => AtRest(l))
<1>1. k.paid \in Purse /\ l.paid \in Purse /\ DOMAIN l.paid = D
  BY DEF Books
<1>2. \A S : In(l.paid, S) <= In(k.paid, S) /\ In(l.paid, S) \in Nat /\ In(k.paid, S) \in Nat
  BY <1>1, InPart, InNatural
<1>3. \A n : In(l.paid, CashBy(n)) = In(k.paid, CashBy(n))
  <2>1. \A n : \A e \in DOMAIN k.paid \ D : e \notin CashBy(n)
    BY DEF CashBy
  <2> QED  BY <1>1, <2>1, InPart
<1>4. \A v \in ToSet(k.vouchers) : v.no \in Nat /\ v.parked \in Nat
  BY VouchersAre
<1>5. Numbered(l)
  <2>1. k.lastNo \in Nat /\ l.lastNo \in Nat
    BY DEF Books
  <2>2. \A v \in ToSet(k.vouchers) : v.no <= l.lastNo
    BY <1>4, <2>1 DEF Accounted, Numbered
  <2> QED  BY <2>2 DEF Accounted, Numbered
<1>6. Backed(l)
  <2>1. \A v \in ToSet(k.vouchers) : v.amt = v.cleared + In(l.paid, CashBy(v.no)) + v.parked
    BY <1>3 DEF Accounted, Backed
  <2>2. \A v \in ToSet(k.vouchers) : v.parked > 0 => In(l.paid, From(v.adv)) <= v.parked
    <3> SUFFICES ASSUME NEW v \in ToSet(k.vouchers), v.parked > 0  PROVE In(l.paid, From(v.adv)) <= v.parked
      OBVIOUS
    <3>1. In(k.paid, From(v.adv)) <= v.parked
      BY DEF Accounted, Backed
    <3>2. In(l.paid, From(v.adv)) <= In(k.paid, From(v.adv)) /\ In(l.paid, From(v.adv)) \in Nat
          /\ In(k.paid, From(v.adv)) \in Nat
      BY <1>2
    <3> QED  BY <1>4, <3>1, <3>2
  <2>3. In(l.paid, From(Credit)) <= NotNegative(-l.opening)
    <3>1. NotNegative(-l.opening) \in Nat
      BY DEF Books, NotNegative, Highest
    <3>2. CASE l.opening = k.opening
      <4>1. In(k.paid, From(Credit)) <= NotNegative(-l.opening)
        BY <3>2 DEF Accounted, Backed
      <4>2. In(l.paid, From(Credit)) <= In(k.paid, From(Credit)) /\ In(l.paid, From(Credit)) \in Nat
            /\ In(k.paid, From(Credit)) \in Nat
        BY <1>2
      <4> QED  BY <3>1, <4>1, <4>2
    <3>3. CASE \A e \in D : e.fund # Credit
      <4>1. \A e \in DOMAIN l.paid : e \notin From(Credit)
        BY <1>1, <3>3 DEF From
      <4>2. In(l.paid, From(Credit)) = 0
        BY <1>1, <4>1, InNatural
      <4> QED  BY <3>1, <4>2
    <3> QED  BY <3>2, <3>3
  <2>4. \A e \in DOMAIN l.paid : Owned(l, e)
    BY <1>1 DEF Accounted, Backed, Owned
  <2> QED  BY <2>1, <2>2, <2>3, <2>4 DEF Backed
<1> QED  BY <1>5, <1>6 DEF Accounted, AtRest

(* What may be entered may be entered where fewer vouchers are. *)
LEMMA StillWaiting ==
  ASSUME NEW k, NEW l, ToSet(l.vouchers) \subseteq ToSet(k.vouchers), l.elsewhere = k.elsewhere,
         l.lastNo = k.lastNo, NEW r, Waiting(k, r)
  PROVE  Waiting(l, r)
BY DEF Waiting

(* Vouchers taken out leave the others accounted for, and wait.            *)
LEMMA ReversedIsAccounted ==
  ASSUME NEW k \in Books, Accounted(k), NEW T, NEW rs \in Seq(T), \A j \in DOMAIN rs : rs[j] \in ToSet(k.vouchers)
  PROVE  LET l == ReverseChain(k, rs)
         IN  /\ l \in Books /\ Accounted(l) /\ (AtRest(k) => AtRest(l))
             /\ l.elsewhere = k.elsewhere /\ l.lastNo = k.lastNo
             /\ ToSet(l.vouchers) \subseteq ToSet(k.vouchers)
             /\ AtRest(k) => \A j \in DOMAIN rs : Waiting(l, rs[j])
<1> DEFINE nos == {r.no : r \in ToSet(rs)}
           advs == {r.adv : r \in ToSet(rs)} \ {0}
           V == ToSet(k.vouchers)
           D == {e \in DOMAIN k.paid : ~(e.by \in nos \/ e.fund \in advs)}
           p == [e \in D |-> k.paid[e]]
           S == {r \in V : r.no \notin nos}
           s == Among(k.vouchers, S)
           l == ReverseChain(k, rs)
<1>1. l = [k EXCEPT !.vouchers = s, !.paid = p]
  <2> DEFINE w == [k EXCEPT !.paid = p]
  <2>1. l = [w EXCEPT !.vouchers = Among(w.vouchers, {r \in ToSet(w.vouchers) : r.no \notin nos})]
    BY DEF ReverseChain, Without
  <2>2. w.vouchers = k.vouchers
    BY DEF Books
  <2>3. l = [w EXCEPT !.vouchers = s]
    <3> HIDE DEF w, l
    <3> QED  BY <2>1, <2>2
  <2> HIDE DEF p, s, l
  <2> QED  BY <2>3 DEF Books
<1>2. l \in Books
  <2>1. Fares(k, l)
    BY ReverseFares
  <2> QED  BY <2>1 DEF Fares
<1>3. /\ l.vouchers = s /\ l.paid = p /\ l.elsewhere = k.elsewhere /\ l.lastNo = k.lastNo
      /\ l.opening = k.opening
  <2> HIDE DEF p, s, l
  <2> QED  BY <1>1 DEF Books
<1> HIDE DEF l
<1>4. k.vouchers \in Seq(Voucher) /\ k.paid \in Purse /\ IsInjective(k.vouchers)
  BY DEF Books, Accounted, Numbered
<1>5. \A e \in DOMAIN k.paid : e \in D <=> e.by \notin nos /\ e.fund \notin advs
  OBVIOUS
<1>6. \A v \in V : v.no \in nos <=> \E j \in DOMAIN rs : v = rs[j]
  <2>1. \A v \in V, j \in DOMAIN rs : v.no = rs[j].no => v = rs[j]
    BY DEF Accounted, Numbered
  <2> QED  BY <2>1 DEF ToSet
<1>7. \A j \in DOMAIN rs : rs[j].no \in nos /\ (rs[j].adv # 0 => rs[j].adv \in advs)
  BY DEF ToSet
<1>8. \A f \in advs : f # 0 /\ \E j \in DOMAIN rs : f = rs[j].adv
  BY DEF ToSet
<1>9. \A v \in V : v \in S <=> v.no \notin nos
  OBVIOUS
<1> HIDE DEF nos, advs, D, S
<1>10. S \in SUBSET V /\ D \in SUBSET DOMAIN k.paid
  BY DEF S, D
<1>11. /\ \A i \in DOMAIN s : s[i] \in S
       /\ \A j \in DOMAIN k.vouchers : k.vouchers[j] \in S => \E i \in DOMAIN s : s[i] = k.vouchers[j]
       /\ IsInjective(s)
  <2>1. k.vouchers \in Seq(Voucher) /\ IsInjective(k.vouchers)
    BY <1>4
  <2>2. /\ \A i \in DOMAIN s : s[i] \in S
        /\ \A j \in DOMAIN k.vouchers : k.vouchers[j] \in S => \E i \in DOMAIN s : s[i] = k.vouchers[j]
    BY <2>1, AmongOf
  <2>3. IsInjective(s)
    BY <2>1, AmongOf
  <2> QED  BY <2>2, <2>3
<1> HIDE DEF s
<1>12. ToSet(s) = S
  <2>1. ToSet(s) \subseteq S
    BY <1>11 DEF ToSet
  <2>2. S \subseteq ToSet(s)
    <3> SUFFICES ASSUME NEW v \in S  PROVE v \in ToSet(s)
      OBVIOUS
    <3>1. PICK j \in DOMAIN k.vouchers : k.vouchers[j] = v
      BY <1>10 DEF ToSet
    <3> QED  BY <1>11, <3>1 DEF ToSet
  <2> QED  BY <2>1, <2>2
<1>13. Numbered(l)
  BY <1>3, <1>10, <1>11, <1>12 DEF Accounted, Numbered
<1>14. p \in Purse /\ DOMAIN p = D
  BY <1>4, <1>10, PursePart
<1>15. \A X : In(p, X) <= In(k.paid, X) /\ In(p, X) \in Nat /\ In(k.paid, X) \in Nat
  BY <1>4, <1>10, <1>14, InPart, InNatural
<1>16. \A v \in S : In(p, CashBy(v.no)) = In(k.paid, CashBy(v.no))
  <2> SUFFICES ASSUME NEW v \in S  PROVE In(p, CashBy(v.no)) = In(k.paid, CashBy(v.no))
    OBVIOUS
  <2>1. \A e \in DOMAIN k.paid \ D : e \notin CashBy(v.no)
    <3> SUFFICES ASSUME NEW e \in DOMAIN k.paid, e.fund = Cash, e.by = v.no  PROVE e \in D
      BY DEF CashBy
    <3>1. v.no \notin nos
      BY <1>9, <1>10
    <3>2. Cash \notin advs
      BY <1>8 DEF Cash
    <3> QED  BY <1>5, <3>1, <3>2
  <2> QED  BY <1>4, <1>10, <2>1, InPart
<1> HIDE DEF p
<1>17. Backed(l)
  <2>1. \A v \in S : v.amt = v.cleared + In(p, CashBy(v.no)) + v.parked
    BY <1>10, <1>16 DEF Accounted, Backed
  <2>2. \A v \in S : v.parked > 0 => In(p, From(v.adv)) <= v.parked
    <3> SUFFICES ASSUME NEW v \in S, v.parked > 0  PROVE In(p, From(v.adv)) <= v.parked
      OBVIOUS
    <3>1. In(k.paid, From(v.adv)) <= v.parked /\ v.parked \in Nat
      BY <1>10, VouchersAre DEF Accounted, Backed
    <3>2. In(p, From(v.adv)) <= In(k.paid, From(v.adv)) /\ In(p, From(v.adv)) \in Nat
          /\ In(k.paid, From(v.adv)) \in Nat
      BY <1>15
    <3> QED  BY <3>1, <3>2
  <2>3. In(p, From(Credit)) <= NotNegative(-l.opening)
    <3>1. NotNegative(-l.opening) \in Nat
      BY <1>2 DEF Books, NotNegative, Highest
    <3>2. In(k.paid, From(Credit)) <= NotNegative(-l.opening)
      BY <1>3 DEF Accounted, Backed
    <3>3. In(p, From(Credit)) <= In(k.paid, From(Credit)) /\ In(p, From(Credit)) \in Nat
          /\ In(k.paid, From(Credit)) \in Nat
      BY <1>15
    <3> QED  BY <3>1, <3>2, <3>3
  <2>4. ASSUME NEW e \in DOMAIN p
        PROVE  Owned(l, e)
    <3>1. e \in DOMAIN k.paid /\ e.by \notin nos /\ e.fund \notin advs
      BY <1>5, <1>10, <1>14, <2>4
    <3>2. Owned(k, e)
      BY <3>1 DEF Accounted, Backed
    <3>3. CASE e.fund = Cash /\ \E v \in V : v.no = e.by
      BY <1>3, <1>9, <1>12, <3>1, <3>3 DEF Owned
    <3>4. CASE e.fund = Credit
      BY <3>4 DEF Owned
    <3>5. CASE \E v \in V : v.parked > 0 /\ v.adv = e.fund
      <4>1. PICK v \in V : v.parked > 0 /\ v.adv = e.fund
        BY <3>5
      <4>2. v.adv # 0
        <5>1. v.adv > 0
          BY <4>1 DEF Accounted, Numbered
        <5> QED  BY <5>1
      <4>3. v \in S
        <5>1. v.no \notin nos
          BY <1>6, <1>7, <3>1, <4>1, <4>2
        <5> QED  BY <1>9, <5>1
      <4> QED  BY <1>3, <1>12, <4>1, <4>3 DEF Owned
    <3> QED  BY <3>2, <3>3, <3>4, <3>5 DEF Owned
  <2> QED  BY <1>3, <1>12, <2>1, <2>2, <2>3, <2>4 DEF Backed
<1>18. ASSUME AtRest(k), NEW j \in DOMAIN rs
       PROVE  Waiting(l, rs[j])
  <2>1. rs[j] \in V
    OBVIOUS
  <2>2. /\ rs[j] \in Voucher /\ rs[j].date \in Days /\ rs[j].no <= k.lastNo /\ rs[j].adv <= k.elsewhere
    BY <1>18, <2>1, VouchersAre DEF AtRest, Accounted, Numbered
  <2>3. \A v \in S : v # rs[j]
    BY <1>6, <1>9, <1>10
  <2>4. \A v \in S : v.no # rs[j].no /\ (rs[j].adv # 0 => v.adv # rs[j].adv)
    BY <1>10, <2>1, <2>3 DEF Accounted, Numbered
  <2> QED  BY <1>3, <1>12, <2>2, <2>4 DEF Waiting
<1>19. AtRest(k) => AtRest(l)
  BY <1>3, <1>10, <1>12, <1>13, <1>17 DEF AtRest, Accounted
<1> QED  BY <1>2, <1>3, <1>10, <1>12, <1>13, <1>17, <1>18, <1>19 DEF Accounted, l

(* The pots there are, some of them, and in another name.                  *)
LEMMA DrainingPots ==
  ASSUME NEW k \in Books, Numbered(k)
  PROVE  /\ \A upTo \in Nat : Draining(k, AdvancePending(k, upTo))
         /\ \A pots, S : Draining(k, pots) => Draining(k, Among(pots, S))
         /\ \A pots : \A by \in Int : Draining(k, pots) =>
              Draining(k, [i \in DOMAIN pots |-> [pots[i] EXCEPT !.by = by]])
         /\ Draining(k, <<>>)
<1>1. ASSUME NEW upTo \in Nat
      PROVE  Draining(k, AdvancePending(k, upTo))
  <2> DEFINE pots == AdvancePending(k, upTo)
  <2>1. /\ pots \in Seq(PotSet) /\ Apart(pots)
        /\ \A i \in DOMAIN pots :
             \/ pots[i] = CreditPot(k)
             \/ \E v \in ToSet(k.vouchers) : v.parked > 0 /\ pots[i] = VoucherPot(k, v)
    BY PotsOf
  <2> HIDE DEF pots
  <2>2. CreditPot(k).fund = Credit
    <3>1. NotNegative(-k.opening) \in Nat
      BY DEF Books, NotNegative, Highest
    <3> QED  BY <3>1, PotIs DEF CreditPot
  <2>3. \A v \in ToSet(k.vouchers) : VoucherPot(k, v).fund = v.adv
    BY VouchersAre, PotIs DEF VoucherPot
  <2>4. \A i \in DOMAIN pots :
          \/ pots[i].fund = Credit /\ pots[i].left = CreditPot(k).left
          \/ \E v \in ToSet(k.vouchers) :
               v.parked > 0 /\ pots[i].fund = v.adv /\ pots[i].left = VoucherPot(k, v).left
    BY <2>1, <2>2, <2>3
  <2> QED  BY <2>1, <2>4 DEF Draining, pots
<1>2. ASSUME NEW pots, NEW S, Draining(k, pots)
      PROVE  Draining(k, Among(pots, S))
  <2> DEFINE few == Among(pots, S)
  <2>1. pots \in Seq(PotSet) /\ Apart(pots)
    BY <1>2 DEF Draining
  <2>2. IsInjective(pots)
    BY <2>1, Zenon DEF Apart, IsInjective
  <2>3. /\ few \in Seq(PotSet) /\ IsInjective(few)
        /\ \A i \in DOMAIN few : \E j \in DOMAIN pots : pots[j] = few[i]
    <3>1. few \in Seq(PotSet) /\ (IsInjective(pots) => IsInjective(few))
      BY <2>1, AmongOf
    <3>2. \A i \in DOMAIN few : few[i] \in S /\ \E j \in DOMAIN pots : pots[j] = few[i]
      BY <2>1, AmongOf
    <3> QED  BY <2>2, <3>1, <3>2
  <2> HIDE DEF few
  <2>4. Apart(few)
    <3>1. ASSUME NEW i \in DOMAIN few, NEW j \in DOMAIN few, few[i].fund = few[j].fund
          PROVE  i = j
      <4>1. PICK m \in DOMAIN pots : pots[m] = few[i]
        BY <2>3
      <4>2. PICK n \in DOMAIN pots : pots[n] = few[j]
        BY <2>3
      <4>3. m = n
        BY <2>1, <3>1, <4>1, <4>2 DEF Apart
      <4> QED  BY <2>3, <4>1, <4>2, <4>3 DEF IsInjective
    <3>2. \A i \in DOMAIN few : few[i].fund # Cash
      BY <2>1, <2>3 DEF Apart
    <3> QED  BY <3>1, <3>2 DEF Apart
  <2>5. \A i \in DOMAIN few :
          \/ few[i].fund = Credit /\ few[i].left = CreditPot(k).left
          \/ \E v \in ToSet(k.vouchers) :
               v.parked > 0 /\ few[i].fund = v.adv /\ few[i].left = VoucherPot(k, v).left
    BY <1>2, <2>3 DEF Draining
  <2> QED  BY <2>3, <2>4, <2>5 DEF Draining, few
<1>3. ASSUME NEW pots, NEW by \in Int, Draining(k, pots)
      PROVE  Draining(k, [i \in DOMAIN pots |-> [pots[i] EXCEPT !.by = by]])
  <2> DEFINE t == [i \in DOMAIN pots |-> [pots[i] EXCEPT !.by = by]]
  <2>1. pots \in Seq(PotSet) /\ Apart(pots)
    BY <1>3 DEF Draining
  <2>2. DOMAIN pots = 1..Len(pots) /\ Len(pots) \in Nat /\ \A i \in DOMAIN pots : pots[i] \in PotSet
    BY <2>1
  <2>3. \A i \in DOMAIN pots :
          [pots[i] EXCEPT !.by = by] \in PotSet /\ [pots[i] EXCEPT !.by = by].fund = pots[i].fund
          /\ [pots[i] EXCEPT !.by = by].left = pots[i].left
    BY <2>2 DEF PotSet
  <2>4. DOMAIN t = DOMAIN pots /\ \A i \in DOMAIN t : t[i].fund = pots[i].fund /\ t[i].left = pots[i].left
    BY <2>3
  <2>5. t \in Seq(PotSet)
    <3>1. t \in [1..Len(pots) -> PotSet]
      BY <2>2, <2>3
    <3> HIDE DEF t
    <3> QED  BY <2>2, <3>1
  <2> HIDE DEF t
  <2>6. Apart(t)
    BY <2>1, <2>4 DEF Apart
  <2>7. \A i \in DOMAIN t :
          \/ t[i].fund = Credit /\ t[i].left = CreditPot(k).left
          \/ \E v \in ToSet(k.vouchers) :
               v.parked > 0 /\ t[i].fund = v.adv /\ t[i].left = VoucherPot(k, v).left
    BY <1>3, <2>4 DEF Draining
  <2> QED  BY <2>5, <2>6, <2>7 DEF Draining, t
<1>4. Draining(k, <<>>)
  BY DEF Draining, Apart
<1> QED  BY <1>1, <1>2, <1>3, <1>4

(* A receipt settles: it is accounted for. *)
LEMMA SettledIsAccounted ==
  ASSUME NEW k \in Books, Accounted(k), NEW r \in Money, Waiting(k, r), NEW reserved \in Claims, NEW own
  PROVE  LET l == Settle(k, r, reserved, own)
         IN  /\ Accounted(l) /\ l.elsewhere = k.elsewhere /\ l.lastNo = k.lastNo
             /\ \A s : Waiting(k, s) /\ Differ(s, r) => Waiting(l, s)
<1> DEFINE C == IF r.how = Against THEN {} ELSE reserved
           bal == Unheld(k, C)
           all == AdvancePending(k, r.date)
           pots == Each(all, LAMBDA p : [p EXCEPT !.by = r.no])
           start == AfterOpening(k, r, own)
           first == [left |-> start, size |-> start + Left(pots), drawn |-> 0, paid |-> k.paid]
           t == IF start = 0 THEN <<>> ELSE RowsFor(k, r, own, bal)
           end == AllRows(k, r, bal, pots, first, t)
           l == Enter(k, r, r.amt - start, end)
<1>1. Settle(k, r, reserved, own) = l
  BY DEF Settle, PayRows, AllRows
<1>2. /\ r \in Voucher /\ r.how # Note /\ r.amt \in Nat /\ r.date \in Nat /\ r.no \in Nat
      /\ k.paid \in Purse /\ Numbered(k)
  BY DEF Money, Voucher, Books, Accounted
<1>3. C \in Claims /\ (r.how = Against => C = {})
  BY NothingHeld
<1>4. Draining(k, pots)
  <2>1. Draining(k, all)
    BY <1>2, DrainingPots
  <2> HIDE DEF all
  <2>2. pots = [i \in DOMAIN all |-> [all[i] EXCEPT !.by = r.no]]
    BY DEF Each
  <2>3. r.no \in Int
    BY <1>2
  <2> HIDE DEF pots
  <2> QED  BY <1>2, <2>1, <2>2, <2>3, DrainingPots
<1> HIDE DEF pots, C
<1>a. pots \in Seq(PotSet) /\ Apart(pots)
  BY <1>4 DEF Draining
<1>5. start \in Nat /\ start <= r.amt /\ r.amt - start \in Nat
  <2>1. OpeningPending(k) \in Nat
    BY OpeningPendingIs
  <2> QED  BY <1>2, <2>1 DEF AfterOpening, Lowest
<1> HIDE DEF start
<1>6. first \in Acc /\ first.paid = k.paid /\ first.drawn = 0 /\ first.left = start
  <2>1. Left(pots) \in Nat
    BY <1>a, UptoIs
  <2> QED  BY <1>2, <1>5, <2>1 DEF Acc
<1> HIDE DEF first, bal
<1>7. t \in Seq(Bills) /\ \A i \in DOMAIN t : bal[t[i]] \in Nat
  <2>1. CASE start = 0
    <3>1. t = <<>>
      BY <2>1
    <3> HIDE DEF t
    <3>2. DOMAIN <<>> = {} /\ <<>> \in Seq(Bills)
      OBVIOUS
    <3> QED  BY <3>1, <3>2, Zenon
  <2>2. CASE start # 0
    <3>1. t = RowsFor(k, r, own, Unheld(k, C))
      BY <2>2 DEF bal
    <3> HIDE DEF t
    <3> QED  BY <1>3, <3>1, RowsAre, Zenon DEF bal
  <2> QED  BY <2>1, <2>2
<1> HIDE DEF t
<1>8. /\ end \in Acc /\ end.left <= start
      /\ Draws(pots, r.no, k.paid, end.paid, end.drawn, start - end.left)
  BY <1>2, <1>a, <1>6, <1>7, RowsDraw
<1> HIDE DEF end
<1>9. end.left \in Nat /\ end.drawn \in Nat
  BY <1>8 DEF Acc
<1>10. start - end.left \in Nat /\ r.amt = (r.amt - start) + (start - end.left) + end.left
  BY <1>2, <1>5, <1>8, <1>9
<1>11. /\ Accounted(l) /\ l.elsewhere = k.elsewhere /\ l.lastNo = k.lastNo
       /\ \A s : Waiting(k, s) /\ Differ(s, r) => Waiting(l, s)
  <2> DEFINE c == start - end.left
             cleared == r.amt - start
  <2>1. /\ c \in Nat /\ cleared \in Nat /\ r.amt = cleared + c + end.left
        /\ Draws(pots, r.no, k.paid, end.paid, end.drawn, c)
        /\ l = Enter(k, r, cleared, end)
    BY <1>5, <1>8, <1>10
  <2> HIDE DEF c, cleared, l
  <2> QED  BY <1>4, <1>9, <2>1, EnterAccounted
<1> QED  BY <1>1, <1>11

(* A credit note is posted: it is accounted for. *)
LEMMA PostedIsAccounted ==
  ASSUME NEW k \in Books, Accounted(k), NEW note, Waiting(k, note)
  PROVE  LET l == Post(k, note)
         IN  /\ Accounted(l) /\ l.elsewhere = k.elsewhere /\ l.lastNo = k.lastNo
             /\ \A s : Waiting(k, s) /\ Differ(s, note) => Waiting(l, s)
<1> DEFINE open == InvoicePending(k, note.date)
           refd == ToSet(note.ticked)
           s == Among(open, refd)
           t == Among(open, Bills \ refd)
           start == [left |-> note.amt, paid |-> k.paid]
           aimed == NotePaid(k, note.no, start, s)
           cleared == Lowest(OpeningPending(k), aimed.left)
           after == [aimed EXCEPT !.left = @ - cleared]
           end == NotePaid(k, note.no, after, t)
           l == Enter(k, note, cleared, end)
<1>1. Post(k, note) = l
  BY DEF Post, NotePaid, NotePay
<1>2. note.date \in Nat /\ note.no \in Nat /\ note.amt \in Nat /\ k.paid \in Purse /\ Numbered(k)
  BY DEF Waiting, Voucher, Books, Accounted
<1>3. s \in Seq(Bills) /\ t \in Seq(Bills)
  <2>1. open \in Seq(Bills)
    BY <1>2, DueBills
  <2> HIDE DEF open
  <2> QED  BY <2>1, AmongOf
<1> HIDE DEF s, t
<1>4. start \in NoteAcc /\ start.paid = k.paid /\ start.left = note.amt
  BY <1>2 DEF NoteAcc
<1> HIDE DEF start
<1>5. Draws(<<>>, note.no, k.paid, start.paid, 0, 0)
  <2>1. <<>> \in Seq(PotSet)
    OBVIOUS
  <2> QED  BY <1>2, <1>4, <2>1, DrawsNothing
<1>6. /\ aimed \in NoteAcc /\ aimed.left <= note.amt
      /\ Draws(<<>>, note.no, k.paid, aimed.paid, 0, 0 + (note.amt - aimed.left))
  <2>1. 0 \in Nat
    OBVIOUS
  <2> QED  BY <1>2, <1>3, <1>4, <1>5, <2>1, NoteDraws
<1> HIDE DEF aimed
<1>7. OpeningPending(k) \in Nat /\ aimed.left \in Nat
  BY <1>6, OpeningPendingIs DEF NoteAcc
<1>8. cleared \in Nat /\ aimed.left - cleared \in Nat
  BY <1>7 DEF Lowest
<1> HIDE DEF cleared
<1>9. after \in NoteAcc /\ after.paid = aimed.paid /\ after.left = aimed.left - cleared
  BY <1>6, <1>8 DEF NoteAcc
<1> HIDE DEF after
<1> DEFINE c == 0 + (note.amt - aimed.left)
           e == c + (after.left - end.left)
<1>10. c \in Nat /\ c = note.amt - aimed.left /\ Draws(<<>>, note.no, k.paid, after.paid, 0, c)
  BY <1>2, <1>6, <1>7, <1>9
<1> HIDE DEF c
<1>11. /\ end \in NoteAcc /\ end.left <= after.left
       /\ Draws(<<>>, note.no, k.paid, end.paid, 0, e)
  BY <1>2, <1>3, <1>9, <1>10, NoteDraws
<1> HIDE DEF end
<1>12. end.left \in Nat /\ after.left \in Nat
  BY <1>9, <1>11 DEF NoteAcc
<1>13. e \in Nat /\ note.amt = cleared + e + end.left
  <2> DEFINE x == end.left
             y == after.left
             z == aimed.left
             a == note.amt
  <2>1. x \in Nat /\ y \in Nat /\ z \in Nat /\ a \in Nat /\ x <= y /\ z <= a
    BY <1>2, <1>6, <1>7, <1>11, <1>12
  <2>2. y = z - cleared /\ c = a - z /\ e = c + (y - x) /\ cleared \in Nat
    BY <1>8, <1>9, <1>10
  <2> HIDE DEF x, y, z, a, e
  <2>3. e \in Nat /\ a = cleared + e + x
    BY <2>1, <2>2
  <2> QED  BY <2>3 DEF a, x
<1> HIDE DEF e
<1>14. Draining(k, <<>>)
  BY <1>2, DrainingPots
<1>15. /\ Accounted(l) /\ l.elsewhere = k.elsewhere /\ l.lastNo = k.lastNo
       /\ \A w : Waiting(k, w) /\ Differ(w, note) => Waiting(l, w)
  <2>1. 0 \in Nat
    OBVIOUS
  <2> QED  BY <1>8, <1>11, <1>12, <1>13, <1>14, <2>1, EnterAccounted
<1> QED  BY <1>1, <1>15

(* What is on account is spent: it is accounted for. *)
LEMMA AppliedIsAccounted ==
  ASSUME NEW k \in Books, Accounted(k)
  PROVE  LET l == ApplyOnAccount(k)
         IN  Accounted(l) /\ l.vouchers = k.vouchers /\ l.elsewhere = k.elsewhere /\ l.lastNo = k.lastNo
<1> DEFINE pots == AdvancePending(k, MaxDay)
           s == InvoicePending(k, MaxDay)
           t == Among(s, {b \in Bills : ~k.bills[b].kept})
           start == [size |-> Left(pots), drawn |-> 0, paid |-> k.paid]
           end == Spent(k, pots, start, t)
<1>1. ApplyOnAccount(k) = [k EXCEPT !.paid = end.paid]
  BY DEF ApplyOnAccount, PayFrom, Spent, SpendOn
<1>2. MaxDay \in Nat /\ Numbered(k) /\ k.paid \in Purse
  BY ReceiptsAssumption DEF Accounted, Books
<1>3. Draining(k, pots) /\ pots \in Seq(PotSet) /\ Apart(pots)
  BY <1>2, DrainingPots DEF Draining
<1>4. t \in Seq(Bills)
  <2>1. s \in Seq(Bills)
    BY <1>2, DueBills
  <2> HIDE DEF s
  <2> QED  BY <2>1, AmongOf
<1> HIDE DEF pots, t
<1>5. start \in Spend /\ start.paid = k.paid /\ start.drawn = 0
  <2>1. Left(pots) \in Nat
    BY <1>3, UptoIs
  <2> QED  BY <1>2, <2>1 DEF Spend
<1> HIDE DEF start
<1>6. end \in Spend /\ Draws(pots, NoVoucher, k.paid, end.paid, end.drawn, 0)
  BY <1>3, <1>4, <1>5, SpentDraws
<1> HIDE DEF end
<1>7. end.drawn \in Nat /\ NoVoucher \in Nat
  <2>1. end \in Spend
    BY <1>6
  <2>2. end.drawn \in Nat
    BY <2>1 DEF Spend
  <2>3. NoVoucher \in Nat
    BY DEF NoVoucher
  <2> QED  BY <2>2, <2>3
<1> DEFINE d == end.drawn
           q == end.paid
           m == [k EXCEPT !.paid = q]
<1>8. d \in Nat /\ Draws(pots, NoVoucher, k.paid, q, d, 0)
  BY <1>6, <1>7
<1> HIDE DEF d, q
<1>9. Accounted(m) /\ m.vouchers = k.vouchers /\ m.elsewhere = k.elsewhere /\ m.lastNo = k.lastNo
  BY <1>3, <1>7, <1>8, DrawnIsAccounted
<1> QED  BY <1>1, <1>9 DEF q

(* A debit note is squared off: it is all accounted for. *)
LEMMA SquaredIsAccounted ==
  ASSUME NEW k \in Books, Accounted(k), NEW b \in Bills
  PROVE  LET l == SquareOff(k, b)
         IN  l \in Books /\ Accounted(l) /\ l.vouchers = k.vouchers /\ l.elsewhere = k.elsewhere /\ l.lastNo = k.lastNo
<1> DEFINE D == {e \in DOMAIN k.paid : ~(e.bill = b /\ e.fund # Cash)}
           p == [e \in D |-> k.paid[e]]
           bare == LiftOnAccount(k, b)
           all  == AdvancePending(bare, MaxDay)
           few  == Among(all, {q \in ToSet(all) : q.fund # Credit})
           pots == Each(few, LAMBDA q : [q EXCEPT !.by = NoVoucher])
           use  == Lowest(k.bills[b].amt, Left(pots))
           s == FromPots(pots, 0, b, use)
           l == [bare EXCEPT !.paid = @ (+) s]
<1>1. SquareOff(k, b) = IF k.bills[b].kept THEN bare ELSE l
  BY DEF SquareOff
<1>2. /\ bare \in Books /\ bare.vouchers = k.vouchers /\ bare.elsewhere = k.elsewhere
      /\ bare.lastNo = k.lastNo /\ bare.opening = k.opening /\ bare.paid = p
  <2>1. bare = [k EXCEPT !.paid = p]
    BY LiftIs
  <2>2. p \in Purse
    BY PursePart DEF Books
  <2> HIDE DEF p, bare
  <2> QED  BY <2>1, <2>2 DEF Books
<1>3. D \in SUBSET DOMAIN k.paid /\ \A e \in DOMAIN k.paid \ D : e.fund # Cash
  OBVIOUS
<1> HIDE DEF bare, D
<1>4. Accounted(bare)
  <2>1. k.lastNo \in Nat
    BY DEF Books
  <2>2. bare.lastNo >= k.lastNo
    BY <1>2, <2>1
  <2> QED  BY <1>2, <1>3, <2>2, PartIsAccounted
<1>5. Draining(bare, pots)
  <2>1. MaxDay \in Nat /\ Numbered(bare) /\ NoVoucher \in Int
    BY <1>4, ReceiptsAssumption DEF Accounted, NoVoucher
  <2>2. Draining(bare, all)
    BY <1>2, <2>1, DrainingPots
  <2>3. Draining(bare, few)
    <3> HIDE DEF all
    <3> QED  BY <1>2, <2>1, <2>2, DrainingPots
  <2> HIDE DEF few
  <2>4. pots = [i \in DOMAIN few |-> [few[i] EXCEPT !.by = NoVoucher]]
    BY DEF Each
  <2> HIDE DEF pots
  <2> QED  BY <1>2, <2>1, <2>3, <2>4, DrainingPots
<1> HIDE DEF pots
<1>6. pots \in Seq(PotSet) /\ Apart(pots) /\ bare.paid \in Purse
  BY <1>2, <1>5 DEF Draining, Books
<1>7. use \in Nat
  <2>1. k.bills[b].amt \in Nat /\ Left(pots) \in Nat
    BY <1>6, UptoIs DEF Books, Bill
  <2> QED  BY <2>1 DEF Lowest
<1> HIDE DEF use, p
<1>8. Draws(pots, NoVoucher, bare.paid, bare.paid (+) s, 0 + use, 0)
  <2>1. 0 \in Nat /\ NoVoucher \in Nat
    BY DEF NoVoucher
  <2>2. Draws(pots, NoVoucher, bare.paid, bare.paid, 0, 0)
    BY <1>6, <2>1, DrawsNothing
  <2> QED  BY <1>6, <1>7, <2>1, <2>2, DrawsPots
<1>b. l \in Books
  <2> DEFINE q == bare.paid (+) s
  <2>1. q \in Purse
    BY <1>8 DEF Draws
  <2> HIDE DEF q
  <2>2. [bare EXCEPT !.paid = q] \in Books
    BY <1>2, <2>1 DEF Books
  <2> QED  BY <2>2 DEF q
<1>9. /\ Accounted(l) /\ l.vouchers = bare.vouchers /\ l.elsewhere = bare.elsewhere
      /\ l.lastNo = bare.lastNo
  <2>1. 0 + use \in Nat /\ NoVoucher \in Nat
    BY <1>7 DEF NoVoucher
  <2> QED  BY <1>2, <1>4, <1>5, <1>8, <2>1, DrawnIsAccounted
<1> HIDE DEF l
<1> QED  BY <1>1, <1>2, <1>4, <1>b, <1>9

(* Receipts that wait, none like another, settle one after the other. *)
LEMMA ReplayAccounted ==
  ASSUME NEW k \in Books, Accounted(k), NEW rs \in Seq(Money), NEW claims \in Claims,
         \A i \in DOMAIN rs : Waiting(k, rs[i]),
         \A i, j \in DOMAIN rs : i # j => Differ(rs[i], rs[j])
  PROVE  LET l == ReplayInOrder(k, rs, claims)
         IN  Accounted(l) /\ l.elsewhere = k.elsewhere /\ l.lastNo = k.lastNo
<1> DEFINE N == Len(rs)
           A == [k : Books, claims : Claims]
           base == [k |-> k, claims |-> claims]
           op(acc, r) == ReplayOne(acc, r)
           Solves(g) == g = [p \in SUBSET (1..N) |->
                               IF p = {} THEN base ELSE op(g[p \ {Max(p)}], rs[Max(p)])]
           h == CHOOSE g : Solves(g)
           Fits(n, acc) == /\ Accounted(acc.k) /\ acc.k.elsewhere = k.elsewhere /\ acc.k.lastNo = k.lastNo
                           /\ \A j \in 1..N : j > n => Waiting(acc.k, rs[j])
           I == [n \in 0..N |-> {acc \in A : Fits(n, acc)}]
<1>a. N \in Nat /\ DOMAIN rs = 1..N /\ \A n \in 1..N : rs[n] \in Money
  OBVIOUS
<1>b. ReplayInOrder(k, rs, claims) = FoldLeft(op, base, rs).k
  BY DEF ReplayInOrder, ReplayOne
<1>1. FoldLeft(op, base, rs) = h[1..N]
  BY <1>a DEF FoldLeft, MapThenFoldSet
<1>0. ASSUME NEW n \in 1..N, NEW acc \in A
      PROVE  op(acc, rs[n]) \in A /\ (Fits(n - 1, acc) => Fits(n, op(acc, rs[n])))
  <2> DEFINE r == rs[n]
             m == acc.k
             hold == HoldsOf(acc.claims, r.no)
             C == acc.claims \ hold
             own == IF r.how = "AUTOMATIC" THEN hold ELSE {}
             l == Settle(m, r, C, own)
  <2>1. m \in Books /\ acc.claims \in Claims
    OBVIOUS
  <2>2. r \in Money
    BY <1>a
  <2>3. op(acc, r) = [k |-> l, claims |-> C]
    BY DEF ReplayOne
  <2>a. Fits(n - 1, acc) => /\ Accounted(m) /\ m.elsewhere = k.elsewhere /\ m.lastNo = k.lastNo
                            /\ \A j \in 1..N : j > n - 1 => Waiting(m, rs[j])
    BY DEF Fits
  <2> HIDE DEF hold, own, A, Fits, m
  <2>4. C \in Claims
    BY <2>1, ClaimsPart
  <2> HIDE DEF C
  <2>5. l \in Books
    BY <2>1, <2>2, <2>4, SettleFares DEF Fares
  <2>6. op(acc, r) \in A
    <3> HIDE DEF l, op, r
    <3> QED  BY <2>3, <2>4, <2>5 DEF A
  <2>7. ASSUME Fits(n - 1, acc)
        PROVE  Fits(n, op(acc, r))
    <3>1. n > n - 1
      BY <1>a
    <3>2. Waiting(m, r)
      BY <2>7, <2>a, <3>1
    <3>3. /\ Accounted(l) /\ l.elsewhere = m.elsewhere /\ l.lastNo = m.lastNo
          /\ \A s : Waiting(m, s) /\ Differ(s, r) => Waiting(l, s)
      <4> HIDE DEF r
      <4> QED  BY <2>1, <2>2, <2>4, <2>7, <2>a, <3>2, SettledIsAccounted
    <3>4. \A j \in 1..N : j > n => Waiting(l, rs[j])
      <4>1. ASSUME NEW j \in 1..N, j > n
            PROVE  Waiting(l, rs[j])
        <5>1. j > n - 1 /\ j # n
          BY <1>a, <4>1
        <5>2. Waiting(m, rs[j])
          BY <2>7, <2>a, <5>1
        <5>3. Differ(rs[j], r)
          BY <1>a, <5>1
        <5> HIDE DEF l, r
        <5> QED  BY <3>3, <5>2, <5>3
      <4> HIDE DEF l
      <4> QED  BY <4>1
    <3>5. op(acc, r).k = l
      <4> HIDE DEF l, op
      <4> QED  BY <2>3
    <3> HIDE DEF l, op, r
    <3>6. Accounted(l) /\ l.elsewhere = k.elsewhere /\ l.lastNo = k.lastNo
      BY <2>7, <2>a, <3>3
    <3> QED  BY <3>4, <3>5, <3>6 DEF Fits
  <2> QED  BY <2>6, <2>7
<1>c. base \in A /\ Fits(0, base)
  <2> HIDE DEF A, Fits
  <2>1. base \in A
    BY DEF A
  <2>2. base.k = k
    OBVIOUS
  <2> HIDE DEF base
  <2> QED  BY <1>a, <2>1, <2>2 DEF Fits
<1> HIDE DEF Fits
<1>2. Solves(h)
  <2> DEFINE F == [n \in 1..N |-> [acc \in A |-> op(acc, rs[n])]]
  <2> HIDE DEF N, A, base, op, h
  <2>1. F \in [1..N -> [A -> A]]
    BY <1>0
  <2> HIDE DEF F
  <2>2. PICK g \in [SUBSET (1..N) -> A] : Folding(g, F, base, N)
    BY <1>a, <1>c, <2>1, FoldSolves, Zenon
  <2>3. Solves(g)
    BY <1>a, <1>c, <1>0, <2>2, PlacesLeft DEF F, Folding
  <2> QED  BY <2>3 DEF h
<1>3. h[1..0] \in I[0]
  <2>1. h[1..0] = base
    <3>1. 1..0 = {} /\ {} \in SUBSET (1..N)
      OBVIOUS
    <3> QED  BY <1>2, <3>1
  <2> HIDE DEF h, A, base
  <2> QED  BY <1>a, <1>c, <2>1
<1>4. ASSUME NEW n \in 1..N, h[1..(n - 1)] \in I[n - 1]
      PROVE  h[1..n] \in I[n]
  <2>1. h[1..n] = op(h[1..(n - 1)], rs[n])
    <3>1. Max(1..n) = n /\ (1..n) \ {n} = 1..(n - 1) /\ 1..n # {} /\ 1..n \in SUBSET (1..N)
      BY <1>a, LastPlace
    <3> HIDE DEF op
    <3> QED  BY <1>2, <3>1
  <2> HIDE DEF h, op, A
  <2>2. n - 1 \in 0..N /\ n \in 0..N
    BY <1>a
  <2> QED  BY <1>0, <1>4, <2>1, <2>2
<1>5. h[1..N] \in I[N]
  <2> HIDE DEF h, I
  <2> QED  BY <1>a, <1>3, <1>4, FoldKeeps
<1>6. Fits(N, h[1..N])
  <2>1. N \in 0..N
    BY <1>a
  <2> HIDE DEF h, A
  <2> QED  BY <1>5, <2>1
<1> HIDE DEF h, op, base
<1> QED  BY <1>b, <1>1, <1>6 DEF Fits

(* Receipts that wait to settle, all different. *)
Ready(k, rs) ==
  /\ rs \in Seq(Money)
  /\ \A i \in DOMAIN rs : Waiting(k, rs[i])
  /\ \A i, j \in DOMAIN rs : i # j => Differ(rs[i], rs[j])

(* What came out settles again. *)
LEMMA SettledAgain ==
  ASSUME NEW k \in Books, NEW rest \in Books, Accounted(rest), NEW back, Ready(rest, back), NEW intent
  PROVE  LET l == ApplyOnAccount(SettleAgain(k, rest, back, intent))
         IN  l \in Books /\ Accounted(l)
<1> DEFINE C == ClaimExact(rest, back, ClaimsOf(k, back), intent)
           m == SettleAgain(k, rest, back, intent)
<1>0. back \in Seq(Money)
  BY DEF Ready
<1>1. back \in Seq(Voucher)
  <2>1. \A i \in DOMAIN back : back[i] \in Voucher
    BY <1>0 DEF Money
  <2> QED  BY <1>0, <2>1, Narrow
<1>2. C \in Claims
  BY <1>1, ClaimsOfIs, ClaimExactIs
<1>3. m = ReplayInOrder(rest, back, C)
  BY DEF SettleAgain
<1> HIDE DEF C
<1>4. Accounted(ReplayInOrder(rest, back, C))
  BY <1>0, <1>2, ReplayAccounted DEF Ready
<1>5. m \in Books
  BY <1>0, SettleAgainFares DEF Fares
<1> HIDE DEF m
<1>6. Accounted(ApplyOnAccount(m))
  BY <1>3, <1>4, <1>5, AppliedIsAccounted
<1>7. ApplyOnAccount(m) \in Books
  BY <1>5, ApplyFares DEF Fares
<1> QED  BY <1>6, <1>7 DEF m

(* The transaction commits: other parties have parked money. *)
LEMMA CommitAccounted ==
  ASSUME OthersPark, NEW k \in Books, Accounted(k), Commit(k)
  PROVE  AtRest(books')
<1> DEFINE A == {r.adv : r \in ToSet(k.vouchers)}
           E == {k.elsewhere} \cup A
           l == [k EXCEPT !.elsewhere = Max(E)]
<1>1. books' = l
  BY DEF Commit
<1>2. IsFiniteSet(E) /\ E \subseteq Nat /\ k.elsewhere \in E
  <2>1. IsFiniteSet(ToSet(k.vouchers)) /\ ToSet(k.vouchers) \subseteq Voucher
    BY ClearedIs
  <2>2. IsFiniteSet(A)
    <3> DEFINE f == [r \in ToSet(k.vouchers) |-> r.adv]
    <3>1. A = {f[r] : r \in ToSet(k.vouchers)}
      OBVIOUS
    <3> HIDE DEF f, A
    <3> QED  BY <2>1, <3>1, ImageOf
  <2>3. A \subseteq Nat
    BY <2>1 DEF Voucher
  <2>4. k.elsewhere \in Nat
    BY DEF Books
  <2>5. IsFiniteSet({k.elsewhere})
    BY FS_Singleton
  <2> HIDE DEF A
  <2> QED  BY <2>2, <2>3, <2>4, <2>5, FS_Union
<1>3. Max(E) \in E /\ \A n \in E : Max(E) >= n
  <2> HIDE DEF E
  <2>1. E # {}
    BY <1>2
  <2> QED  BY <1>2, <2>1, GreatestOf
<1> DEFINE e == Max(E)
<1>4. e \in Nat /\ e >= k.elsewhere /\ \A r \in ToSet(k.vouchers) : r.adv <= e
  <2>1. \A r \in ToSet(k.vouchers) : r.adv \in E
    OBVIOUS
  <2> HIDE DEF E
  <2>2. \A n \in E : n \in Nat /\ n <= Max(E)
    BY <1>2, <1>3
  <2> QED  BY <1>2, <1>3, <2>1, <2>2
<1> HIDE DEF e
<1>5. l = [k EXCEPT !.elsewhere = e]
  BY DEF e
<1> HIDE DEF E, l
<1>6. /\ l.vouchers = k.vouchers /\ l.paid = k.paid /\ l.opening = k.opening /\ l.lastNo = k.lastNo
      /\ l.elsewhere = e
  BY <1>5 DEF Books
<1>7. Numbered(l)
  <2>1. \A v \in ToSet(k.vouchers) : v.adv <= l.elsewhere
    BY <1>4, <1>6
  <2> QED  BY <1>6, <2>1 DEF Accounted, Numbered
<1>8. Backed(l)
  BY <1>6 DEF Accounted, Backed, Owned
<1> QED  BY <1>1, <1>4, <1>6, <1>7, <1>8 DEF AtRest, Accounted

(* Receipts on the books, none twice. *)
Booked(k, rs) ==
  /\ rs \in Seq(Money) /\ IsInjective(rs)
  /\ \A i \in DOMAIN rs : rs[i] \in ToSet(k.vouchers)

(* Some of them, by arrival. *)
LEMMA BookedStay ==
  ASSUME NEW k \in Books, Numbered(k), NEW rs, Booked(k, rs), NEW S
  PROVE  /\ Booked(k, Among(rs, S)) /\ \A i \in DOMAIN Among(rs, S) : Among(rs, S)[i] \in S
         /\ Booked(k, Arrival(rs))
         /\ \A i \in DOMAIN Among(rs, S) : \E j \in DOMAIN rs : rs[j] = Among(rs, S)[i]
         /\ \A i \in DOMAIN Arrival(rs) : \E j \in DOMAIN rs : rs[j] = Arrival(rs)[i]
<1> DEFINE few == Among(rs, S)
           all == Arrival(rs)
<1>1. rs \in Seq(Money) /\ IsInjective(rs)
  BY DEF Booked
<1>2. few \in Seq(Money) /\ \A i \in DOMAIN few : few[i] \in S /\ \E j \in DOMAIN rs : rs[j] = few[i]
  BY <1>1, AmongOf
<1>3. IsInjective(few)
  BY <1>1, AmongOf
<1>4. all \in Seq(Money) /\ \A i \in DOMAIN all : \E j \in DOMAIN rs : rs[j] = all[i]
  BY <1>1, ArrivalOf
<1>5. IsInjective(all)
  BY <1>1, ArrivalAll
<1> HIDE DEF few, all
<1>6. \A i \in DOMAIN few : few[i] \in ToSet(k.vouchers)
  BY <1>2 DEF Booked
<1>7. \A i \in DOMAIN all : all[i] \in ToSet(k.vouchers)
  BY <1>4 DEF Booked
<1> QED  BY <1>2, <1>3, <1>4, <1>5, <1>6, <1>7 DEF Booked, few, all

(* The receipts themselves. *)
LEMMA ReceiptsBooked ==
  ASSUME NEW k \in Books, Numbered(k)
  PROVE  Booked(k, Receipts(k))
<1> DEFINE S == {v \in ToSet(k.vouchers) : v.how # Note}
           rs == Receipts(k)
<1>1. rs \in Seq(Money) /\ \A i \in DOMAIN rs : rs[i] \in ToSet(k.vouchers)
  BY ReceiptsOf
<1>2. k.vouchers \in Seq(Voucher) /\ IsInjective(k.vouchers)
  BY DEF Books, Numbered
<1>3. rs = Among(k.vouchers, S)
  BY DEF Receipts
<1> HIDE DEF S
<1>4. IsInjective(Among(k.vouchers, S))
  BY <1>2, AmongOf
<1> HIDE DEF rs
<1> QED  BY <1>1, <1>3, <1>4 DEF Booked, rs

(* Those that settle after a day, *)
LEMMA ChainBooked ==
  ASSUME NEW k \in Books, Numbered(k), NEW day
  PROVE  LET rs == ChainAfter(k, day)
         IN  Booked(k, rs) /\ \A i \in DOMAIN rs : rs[i].date > day
<1> DEFINE S == {r \in ToSet(k.vouchers) : r.date > day}
           s == Among(Receipts(k), S)
           rs == Arrival(s)
<1>1. ChainAfter(k, day) = rs
  BY DEF ChainAfter
<1>2. Booked(k, Receipts(k))
  BY ReceiptsBooked
<1>0. \A r \in S : r.date > day
  OBVIOUS
<1> HIDE DEF S
<1>3. Booked(k, s) /\ \A i \in DOMAIN s : s[i] \in S
  BY <1>2, BookedStay
<1> HIDE DEF s
<1>4. Booked(k, rs) /\ \A i \in DOMAIN rs : \E j \in DOMAIN s : s[j] = rs[i]
  BY <1>3, BookedStay
<1> HIDE DEF rs
<1>5. \A i \in DOMAIN rs : rs[i].date > day
  BY <1>0, <1>3, <1>4
<1> QED  BY <1>1, <1>4, <1>5

(* those from the earliest holder of what an amount names, *)
LEMMA HoldersBooked ==
  ASSUME NEW k \in Books, Numbered(k), NEW day, NEW amt
  PROVE  LET rs == HoldersOfExact(k, day, amt)
         IN  Booked(k, rs) /\ \A i \in DOMAIN rs : rs[i].date <= day
<1> DEFINE S == {r \in ToSet(k.vouchers) : r.date <= day}
           s == Among(Receipts(k), S)
           upTo == Arrival(s)
<1>1. Booked(k, Receipts(k))
  BY ReceiptsBooked
<1>0. \A r \in S : r.date <= day
  OBVIOUS
<1>2. Booked(k, s) /\ \A i \in DOMAIN s : s[i] \in S
  <2> HIDE DEF S
  <2> QED  BY <1>1, BookedStay
<1>3. Booked(k, upTo) /\ \A i \in DOMAIN upTo : \E j \in DOMAIN s : s[j] = upTo[i]
  <2> HIDE DEF s
  <2> QED  BY <1>2, BookedStay
<1>a. \A i \in DOMAIN upTo : upTo[i].date <= day
  <2> HIDE DEF S, s, upTo
  <2> QED  BY <1>0, <1>2, <1>3
<1> DEFINE autos == {r.no : r \in {v \in ToSet(upTo) : v.how = "AUTOMATIC"}}
           bare  == Without(k, LAMBDA e : e.by \in autos)
           open  == InvoicePending(bare, day)
           hit   == FindExact(open, [b \in Bills |-> Balance(bare, b)], amt)
           owners == {e.by : e \in {x \in DOMAIN k.paid : \E i \in hit : x.bill = open[i]}}
           both  == autos \cap owners
           P     == {i \in 1..Len(upTo) : upTo[i].no \in both}
           first == IF P # {} THEN Min(P) ELSE 0
           rest  == SubSeq(upTo, first, Len(upTo))
           chain == IF OldestInARow(hit) \/ first = 0 THEN <<>> ELSE rest
<1>4. HoldersOfExact(k, day, amt) = chain
  <2> HIDE DEF S
  <2> QED  BY DEF HoldersOfExact, SelectInSeq, S
<1> HIDE DEF s, upTo, autos, hit, both
<1>5. first = 0 \/ first \in 1..Len(upTo)
  <2>1. P \subseteq Nat /\ P \subseteq 1..Len(upTo)
    OBVIOUS
  <2> HIDE DEF P
  <2>2. ASSUME P # {}  PROVE Min(P) \in P
    <3>1. \E m \in P : \A n \in P : m <= n
      BY <2>1, <2>2, LeastOf
    <3> QED  BY <3>1 DEF Min
  <2> QED  BY <2>1, <2>2
<1> HIDE DEF first
<1>6. Booked(k, chain) /\ \A i \in DOMAIN chain : chain[i].date <= day
  <2>1. CASE OldestInARow(hit) \/ first = 0
    <3>1. chain = <<>>
      BY <2>1
    <3> HIDE DEF chain
    <3>2. <<>> \in Seq(Money) /\ DOMAIN <<>> = {}
      OBVIOUS
    <3> QED  BY <3>1, <3>2 DEF Booked, IsInjective
  <2>2. CASE ~(OldestInARow(hit) \/ first = 0)
    <3>1. first \in 1..Len(upTo) /\ chain = rest
      BY <1>5, <2>2
    <3>2. upTo \in Seq(Money)
      BY <1>3 DEF Booked
    <3>3. rest \in Seq(Money)
      BY <3>1, <3>2
    <3>4. \A i \in DOMAIN rest : first + i - 1 \in DOMAIN upTo /\ rest[i] = upTo[first + i - 1] /\ i \in Nat
      BY <3>1, <3>2
    <3> HIDE DEF rest, chain
    <3>5. IsInjective(rest)
      <4>1. ASSUME NEW i \in DOMAIN rest, NEW j \in DOMAIN rest, rest[i] = rest[j]
            PROVE  i = j
        <5>1. first + i - 1 = first + j - 1
          <6> DEFINE m == first + i - 1
                     n == first + j - 1
          <6>1. m \in DOMAIN upTo /\ n \in DOMAIN upTo /\ upTo[m] = upTo[n]
            BY <3>4, <4>1
          <6> HIDE DEF m, n
          <6>2. m = n
            BY <1>3, <6>1, Zenon DEF Booked, IsInjective
          <6> QED  BY <6>2 DEF m, n
        <5> QED  BY <3>1, <3>4, <5>1
      <4> QED  BY <4>1 DEF IsInjective
    <3>6. \A i \in DOMAIN rest : rest[i] \in ToSet(k.vouchers) /\ rest[i].date <= day
      BY <1>3, <1>a, <3>4 DEF Booked
    <3> QED  BY <3>1, <3>3, <3>5, <3>6 DEF Booked
  <2> QED  BY <2>1, <2>2
<1> HIDE DEF chain
<1> QED  BY <1>4, <1>6

(* and those from a place on. *)
LEMMA ReplayBooked ==
  ASSUME NEW k \in Books, Numbered(k), NEW i, NEW newDay
  PROVE  Booked(k, ReplayChain(k, i, newDay))
<1> DEFINE rs == Receipts(k)
           anchor == Lowest(rs[i].date, newDay)
           D == DOMAIN rs
           s == [j \in D |-> j]
           S == {j \in D : j = i \/ rs[j].date > anchor \/ (rs[j].date = anchor /\ j > i)}
           places == Among(s, S)
           chain == [n \in DOMAIN places |-> rs[places[n]]]
<1>1. Booked(k, rs)
  BY ReceiptsBooked
<1>2. ReplayChain(k, i, newDay) = chain
  BY DEF ReplayChain
<1>3. chain \in Seq(Money)
  BY <1>2, ReplayChainIs
<1> HIDE DEF rs, S
<1>a. rs \in Seq(Money)
  BY <1>1 DEF Booked
<1>4. s \in Seq(D) /\ IsInjective(s)
  BY <1>a DEF IsInjective
<1> HIDE DEF s
<1>5. places \in Seq(D)
  BY <1>4, AmongOf
<1>6. IsInjective(places)
  BY <1>4, AmongOf
<1> HIDE DEF places
<1>7. DOMAIN chain = DOMAIN places /\ \A n \in DOMAIN chain : places[n] \in D /\ chain[n] = rs[places[n]]
  BY <1>5
<1> HIDE DEF chain
<1>8. IsInjective(chain)
  <2>1. ASSUME NEW m \in DOMAIN chain, NEW n \in DOMAIN chain, chain[m] = chain[n]
        PROVE  m = n
    <3>1. places[m] = places[n]
      BY <1>1, <1>7, <2>1, Zenon DEF Booked, IsInjective
    <3> QED  BY <1>6, <1>7, <3>1, Zenon DEF IsInjective
  <2> QED  BY <2>1 DEF IsInjective
<1>9. \A n \in DOMAIN chain : chain[n] \in ToSet(k.vouchers)
  BY <1>1, <1>7 DEF Booked
<1> QED  BY <1>2, <1>3, <1>8, <1>9 DEF Booked

(* Receipts taken out are ready to settle again, in any order. *)
LEMMA BookedReady ==
  ASSUME NEW k \in Books, AtRest(k), NEW out, Booked(k, out), NEW back, Booked(k, back),
         \A i \in DOMAIN back : \E j \in DOMAIN out : back[i] = out[j]
  PROVE  Ready(ReverseChain(k, out), back)
<1> DEFINE l == ReverseChain(k, out)
<1>1. out \in Seq(Money) /\ (\A j \in DOMAIN out : out[j] \in ToSet(k.vouchers)) /\ Accounted(k)
  BY DEF Booked, AtRest
<1>2. \A j \in DOMAIN out : Waiting(l, out[j])
  BY <1>1, ReversedIsAccounted
<1> HIDE DEF l
<1>3. \A i \in DOMAIN back : Waiting(l, back[i])
  BY <1>2
<1>4. ASSUME NEW i \in DOMAIN back, NEW j \in DOMAIN back, i # j
      PROVE  Differ(back[i], back[j])
  <2>1. back[i] # back[j]
    BY <1>4, Zenon DEF Booked, IsInjective
  <2>2. back[i] \in ToSet(k.vouchers) /\ back[j] \in ToSet(k.vouchers)
    BY DEF Booked
  <2> QED  BY <1>1, <2>1, <2>2 DEF Accounted, Numbered, Differ
<1> QED  BY <1>3, <1>4 DEF Ready, Booked, l

(* What a transaction leaves. *)
LEMMA LeavesAtRest ==
  ASSUME OthersPark, NEW k \in Books, Accounted(k), Commit(k)
  PROVE  books' \in Books /\ AtRest(books')
<1>1. AtRest(books')
  BY CommitAccounted
<1>2. Fares(k, books')
  BY CommitFares
<1> QED  BY <1>1, <1>2 DEF Fares

(* Some receipts come out, some settle. *)
LEMMA ResettledAtRest ==
  ASSUME OthersPark, NEW k \in Books, Accounted(k), NEW out \in Seq(Money),
         \A j \in DOMAIN out : out[j] \in ToSet(k.vouchers),
         NEW back, Ready(ReverseChain(k, out), back), NEW intent,
         Commit(Resettle(k, out, back, intent))
  PROVE  books' \in Books /\ AtRest(books')
<1> DEFINE rest == ReverseChain(k, out)
           l == ApplyOnAccount(SettleAgain(k, rest, back, intent))
<1>1. Commit(l)
  BY DEF Resettle
<1>2. rest \in Books /\ Accounted(rest)
  BY ReversedIsAccounted
<1> HIDE DEF rest
<1>3. l \in Books /\ Accounted(l)
  <2>1. Ready(rest, back)
    BY DEF rest
  <2> QED  BY <1>2, <2>1, SettledAgain
<1> HIDE DEF l
<1> QED  BY <1>1, <1>3, LeavesAtRest

(* What is in two sequences in a row is in one of them. *)
LEMMA InOne ==
  ASSUME NEW T, NEW t \in Seq(T), NEW a \in Seq(T), NEW i \in DOMAIN (t \o a)
  PROVE  (\E j \in DOMAIN t : (t \o a)[i] = t[j]) \/ (\E j \in DOMAIN a : (t \o a)[i] = a[j])
<1>1. CASE i <= Len(t)
  <2>1. i \in DOMAIN t /\ (t \o a)[i] = t[i]
    BY <1>1
  <2> QED  BY <2>1
<1>2. CASE i > Len(t)
  <2>1. i - Len(t) \in DOMAIN a /\ (t \o a)[i] = a[i - Len(t)]
    BY <1>2
  <2> QED  BY <2>1
<1>3. i \in Int /\ Len(t) \in Int
  OBVIOUS
<1> QED  BY <1>1, <1>2, <1>3

(* Entering a receipt. *)
LEMMA SaveAccounted ==
  ASSUME OthersPark, books \in Books, AtRest(books),
         NEW day \in Days, NEW amt \in ReceiptAmounts, NEW how \in Modes,
         NEW ticked \in Seq(Bills), IsInjective(ticked), Save(day, amt, how, ticked)
  PROVE  books' \in Books /\ AtRest(books')
<1> DEFINE fresh   == Receipt(books.lastNo + 1, day, amt, how, ticked)
           later   == ChainAfter(books, day)
           earlier == IF how = "AUTOMATIC" THEN HoldersOfExact(books, day, amt) ELSE <<>>
           intent  == IF earlier = <<>> THEN NoVoucher ELSE fresh.no
           k == [books EXCEPT !.lastNo = fresh.no]
           out == earlier \o later
           back == earlier \o <<fresh>> \o later
           rest == ReverseChain(k, out)
<1>1. Commit(Resettle(k, out, back, intent))
  BY DEF Save
<1>2. /\ fresh \in Money /\ fresh.no = books.lastNo + 1 /\ fresh.no \in Nat /\ fresh.date = day /\ fresh.adv = 0
      /\ books.lastNo \in Nat /\ day \in Nat
  <2>1. books.lastNo \in Nat /\ day \in Nat /\ amt \in Nat
    BY ReceiptsAssumption DEF Books, Days
  <2>2. Note \notin Modes
    BY Zenon DEF Modes, Note, Against
  <2> QED  BY <2>1, <2>2 DEF Receipt, Money, Voucher
<1>3. Numbered(books)
  BY DEF AtRest, Accounted
<1>4. Booked(books, later) /\ \A i \in DOMAIN later : later[i].date > day
  BY <1>3, ChainBooked
<1>5. Booked(books, earlier) /\ \A i \in DOMAIN earlier : earlier[i].date <= day
  <2>1. CASE how = "AUTOMATIC"
    <3>1. earlier = HoldersOfExact(books, day, amt)
      BY <2>1
    <3> HIDE DEF earlier
    <3> QED  BY <1>3, <3>1, HoldersBooked
  <2>2. CASE how # "AUTOMATIC"
    <3>1. earlier = <<>>
      BY <2>2
    <3> HIDE DEF earlier
    <3>2. <<>> \in Seq(Money) /\ DOMAIN <<>> = {}
      OBVIOUS
    <3> QED  BY <3>1, <3>2 DEF Booked, IsInjective
  <2> QED  BY <2>1, <2>2
<1>6. /\ k \in Books /\ k.paid = books.paid /\ k.vouchers = books.vouchers /\ k.opening = books.opening
      /\ k.elsewhere = books.elsewhere /\ k.lastNo = fresh.no
  BY <1>2 DEF Books
<1> HIDE DEF fresh, later, earlier, intent, k
<1>7. AtRest(k)
  <2> DEFINE D == DOMAIN books.paid
  <2>1. books.paid = [e \in D |-> books.paid[e]]
    BY PurseIs DEF Books
  <2>2. D \in SUBSET DOMAIN books.paid /\ \A e \in DOMAIN books.paid \ D : e.fund # Cash
    OBVIOUS
  <2>3. k.lastNo >= books.lastNo /\ k.paid = [e \in D |-> books.paid[e]]
    BY <1>2, <1>6, <2>1
  <2>4. Accounted(books)
    BY DEF AtRest
  <2> HIDE DEF D
  <2> QED  BY <1>6, <2>2, <2>3, <2>4, PartIsAccounted
<1>8. Booked(k, later) /\ Booked(k, earlier)
  BY <1>4, <1>5, <1>6 DEF Booked
<1>9. /\ \A i \in DOMAIN earlier, j \in DOMAIN later : earlier[i] # later[j]
      /\ \A i \in DOMAIN earlier, j \in DOMAIN later : earlier[i].date <= day /\ later[j].date > day
  <2>1. ASSUME NEW i \in DOMAIN earlier, NEW j \in DOMAIN later
        PROVE  earlier[i] # later[j]
    <3>1. earlier[i].date <= day /\ later[j].date > day
      BY <1>4, <1>5
    <3>2. earlier[i] \in Voucher
      <4>1. earlier \in Seq(Money)
        BY <1>8 DEF Booked
      <4> QED  BY <4>1 DEF Money
    <3>3. earlier[i].date \in Nat
      BY <3>2 DEF Voucher
    <3> QED  BY <1>2, <3>1, <3>3
  <2> QED  BY <1>4, <1>5, <2>1
<1>a. earlier \in Seq(Money) /\ later \in Seq(Money) /\ IsInjective(earlier) /\ IsInjective(later)
  BY <1>8 DEF Booked
<1>10. /\ Booked(k, out)
       /\ \A i \in DOMAIN earlier : \E j \in DOMAIN out : out[j] = earlier[i]
       /\ \A i \in DOMAIN later : \E j \in DOMAIN out : out[j] = later[i]
  <2>1. /\ out \in Seq(Money)
        /\ \A i \in DOMAIN out : \/ \E j \in DOMAIN earlier : out[i] = earlier[j]
                                 \/ \E j \in DOMAIN later : out[i] = later[j]
        /\ \A j \in DOMAIN earlier : \E i \in DOMAIN out : out[i] = earlier[j]
        /\ \A j \in DOMAIN later : \E i \in DOMAIN out : out[i] = later[j]
    <3>1. out \in Seq(Money)
      BY <1>a, InARow
    <3>2. ASSUME NEW i \in DOMAIN out
          PROVE  (\E j \in DOMAIN earlier : out[i] = earlier[j]) \/ (\E j \in DOMAIN later : out[i] = later[j])
      <4>1. \/ \E j \in DOMAIN earlier : (earlier \o later)[i] = earlier[j]
            \/ \E j \in DOMAIN later : (earlier \o later)[i] = later[j]
        <5>1. earlier \in Seq(Money) /\ later \in Seq(Money) /\ i \in DOMAIN (earlier \o later)
          BY <1>a, <3>2
        <5> QED  BY <5>1, InOne
      <4> QED  BY <4>1
    <3>3. \A j \in DOMAIN earlier : \E i \in DOMAIN out : out[i] = earlier[j]
      BY <1>a, InARowAll
    <3>4. \A j \in DOMAIN later : \E i \in DOMAIN out : out[i] = later[j]
      BY <1>a, InARowAll
    <3> QED  BY <3>1, <3>2, <3>3, <3>4
  <2>2. IsInjective(out)
    BY <1>9, <1>a, InARow
  <2> HIDE DEF out
  <2>3. \A i \in DOMAIN out : out[i] \in ToSet(k.vouchers)
    BY <1>8, <2>1 DEF Booked
  <2> QED  BY <2>1, <2>2, <2>3 DEF Booked
<1> DEFINE one == <<fresh>>
           front == earlier \o one
<1>11. \A v \in ToSet(k.vouchers) : v.no < fresh.no
  <2>1. \A v \in ToSet(books.vouchers) : v.no <= books.lastNo /\ v.no \in Nat
    BY <1>3, VouchersAre DEF Numbered
  <2> QED  BY <1>2, <1>6, <2>1
<1>12. one \in Seq(Money) /\ DOMAIN one = {1} /\ one[1] = fresh /\ IsInjective(one)
  BY <1>2 DEF IsInjective
<1> HIDE DEF one
<1>13. fresh \notin ToSet(k.vouchers)
  BY <1>2, <1>11
<1>14. /\ front \in Seq(Money) /\ IsInjective(front)
       /\ \A i \in DOMAIN front : front[i] = fresh \/ \E j \in DOMAIN earlier : front[i] = earlier[j]
  <2>1. \A i \in DOMAIN earlier, j \in DOMAIN one : earlier[i] # one[j]
    BY <1>8, <1>12, <1>13 DEF Booked
  <2>2. /\ front \in Seq(Money)
        /\ \A i \in DOMAIN front : \/ \E j \in DOMAIN earlier : front[i] = earlier[j]
                                   \/ \E j \in DOMAIN one : front[i] = one[j]
    <3>1. front \in Seq(Money)
      BY <1>a, <1>12, InARow
    <3>2. ASSUME NEW i \in DOMAIN front
          PROVE  (\E j \in DOMAIN earlier : front[i] = earlier[j]) \/ (\E j \in DOMAIN one : front[i] = one[j])
      <4>1. \/ \E j \in DOMAIN earlier : (earlier \o one)[i] = earlier[j]
            \/ \E j \in DOMAIN one : (earlier \o one)[i] = one[j]
        <5>1. earlier \in Seq(Money) /\ one \in Seq(Money) /\ i \in DOMAIN (earlier \o one)
          BY <1>a, <1>12, <3>2
        <5> QED  BY <5>1, InOne
      <4> QED  BY <4>1
    <3> QED  BY <3>1, <3>2
  <2>3. IsInjective(front)
    BY <1>a, <1>12, <2>1, InARow
  <2> HIDE DEF front
  <2> QED  BY <1>12, <2>2, <2>3
<1>b. back = front \o later
  BY DEF one
<1> HIDE DEF front, back
<1>15. /\ back \in Seq(Money) /\ IsInjective(back)
       /\ \A i \in DOMAIN back : back[i] = fresh \/ \E j \in DOMAIN out : back[i] = out[j]
  <2> DEFINE b == front \o later
  <2>1. \A i \in DOMAIN front, j \in DOMAIN later : front[i] # later[j]
    BY <1>8, <1>9, <1>13, <1>14 DEF Booked
  <2>2. /\ b \in Seq(Money)
        /\ \A i \in DOMAIN b : \/ \E j \in DOMAIN front : b[i] = front[j]
                               \/ \E j \in DOMAIN later : b[i] = later[j]
    <3>1. b \in Seq(Money)
      BY <1>a, <1>14, InARow
    <3>2. ASSUME NEW i \in DOMAIN b
          PROVE  (\E j \in DOMAIN front : b[i] = front[j]) \/ (\E j \in DOMAIN later : b[i] = later[j])
      <4>1. \/ \E j \in DOMAIN front : (front \o later)[i] = front[j]
            \/ \E j \in DOMAIN later : (front \o later)[i] = later[j]
        <5>1. front \in Seq(Money) /\ later \in Seq(Money) /\ i \in DOMAIN (front \o later)
          BY <1>a, <1>14, <3>2
        <5> QED  BY <5>1, InOne
      <4> QED  BY <4>1
    <3> QED  BY <3>1, <3>2
  <2>3. IsInjective(b)
    BY <1>a, <1>14, <2>1, InARow
  <2> HIDE DEF b, out
  <2>4. b = back
    BY <1>b DEF b
  <2> QED  BY <1>10, <1>14, <2>2, <2>3, <2>4
<1> HIDE DEF out
<1>16. /\ Accounted(k) /\ out \in Seq(Money) /\ (\A j \in DOMAIN out : out[j] \in ToSet(k.vouchers))
  BY <1>7, <1>10 DEF AtRest, Booked
<1>17. /\ rest.elsewhere = k.elsewhere /\ rest.lastNo = k.lastNo
       /\ ToSet(rest.vouchers) \subseteq ToSet(k.vouchers)
       /\ \A j \in DOMAIN out : Waiting(rest, out[j])
  BY <1>6, <1>7, <1>16, ReversedIsAccounted
<1> HIDE DEF rest
<1>18. Waiting(rest, fresh)
  <2>1. fresh \in Voucher /\ k.elsewhere \in Nat
    BY <1>2, <1>6 DEF Money, Books
  <2>2. \A v \in ToSet(rest.vouchers) : v.no # fresh.no
    <3>1. \A v \in ToSet(k.vouchers) : v.no # fresh.no
      BY <1>2, <1>11
    <3> QED  BY <1>17, <3>1
  <2>3. fresh.date \in Days /\ fresh.no <= rest.lastNo /\ fresh.adv <= rest.elsewhere
    BY <1>2, <1>6, <1>17, <2>1
  <2> QED  BY <1>2, <2>1, <2>2, <2>3 DEF Waiting
<1>19. ASSUME NEW i \in DOMAIN back, NEW j \in DOMAIN back, i # j
       PROVE  Differ(back[i], back[j])
  <2>1. back[i] # back[j]
    BY <1>15, <1>19, Zenon DEF IsInjective
  <2>2. \A n \in DOMAIN back : back[n] = fresh \/ back[n] \in ToSet(k.vouchers)
    BY <1>15, <1>16
  <2>3. \A v \in ToSet(k.vouchers) : Differ(v, fresh) /\ Differ(fresh, v)
    <3>1. \A v \in ToSet(k.vouchers) : v.no # fresh.no
      BY <1>2, <1>11
    <3> QED  BY <1>2, <3>1 DEF Differ
  <2>4. \A v, w \in ToSet(k.vouchers) : v # w => Differ(v, w)
    BY <1>16 DEF Accounted, Numbered, Differ
  <2> QED  BY <2>1, <2>2, <2>3, <2>4
<1>20. Ready(rest, back)
  BY <1>15, <1>17, <1>18, <1>19 DEF Ready
<1> QED  BY <1>1, <1>6, <1>16, <1>20, ResettledAtRest DEF rest

(* Correcting one. *)
LEMMA EditAccounted ==
  ASSUME OthersPark, books \in Books, AtRest(books),
         NEW i, NEW day \in Days, NEW amt \in ReceiptAmounts, EditReceipt(i, day, amt)
  PROVE  books' \in Books /\ AtRest(books')
<1> DEFINE chain == ReplayChain(books, i, day)
           no == Receipts(books)[i].no
           Corrected(r) == IF r.no = no THEN [r EXCEPT !.date = day, !.amt = amt] ELSE r
           s == [n \in DOMAIN chain |-> Corrected(chain[n])]
           back == Arrival(s)
           rest == ReverseChain(books, chain)
<1>1. Commit(Resettle(books, chain, back, NoVoucher))
  BY DEF EditReceipt
<1>2. Accounted(books) /\ Numbered(books)
  BY DEF AtRest, Accounted
<1>3. Booked(books, chain)
  BY <1>2, ReplayBooked
<1> HIDE DEF chain, no
<1>4. chain \in Seq(Money) /\ IsInjective(chain) /\ \A n \in DOMAIN chain : chain[n] \in ToSet(books.vouchers)
  BY <1>3 DEF Booked
<1>5. \A n \in DOMAIN chain : Waiting(rest, chain[n])
  BY <1>2, <1>4, ReversedIsAccounted
<1>6. day \in Nat /\ amt \in Nat
  BY ReceiptsAssumption DEF Days
<1>7. ASSUME NEW r \in Money
      PROVE  /\ Corrected(r) \in Money /\ Corrected(r).no = r.no /\ Corrected(r).adv = r.adv
             /\ Corrected(r).date = r.date \/ Corrected(r).date = day
  BY <1>6 DEF Money, Voucher
<1>8. DOMAIN chain = 1..Len(chain) /\ Len(chain) \in Nat /\ \A n \in DOMAIN chain : chain[n] \in Money
  BY <1>4
<1> HIDE DEF Corrected
<1>9. /\ DOMAIN s = DOMAIN chain
      /\ \A n \in DOMAIN s : /\ s[n] \in Money /\ s[n].no = chain[n].no /\ s[n].adv = chain[n].adv
                             /\ s[n].date = chain[n].date \/ s[n].date = day
  BY <1>7, <1>8
<1>10. s \in Seq(Money)
  <2>1. s \in [1..Len(chain) -> Money]
    BY <1>7, <1>8
  <2> HIDE DEF s
  <2> QED  BY <1>8, <2>1
<1> HIDE DEF s, rest
<1>11. \A m, n \in DOMAIN s : m # n => Differ(s[m], s[n])
  <2>1. ASSUME NEW m \in DOMAIN s, NEW n \in DOMAIN s, m # n
        PROVE  Differ(s[m], s[n])
    <3>1. chain[m] # chain[n]
      BY <1>4, <1>9, <2>1, Zenon DEF IsInjective
    <3>2. chain[m] \in ToSet(books.vouchers) /\ chain[n] \in ToSet(books.vouchers)
      BY <1>4, <1>9
    <3>3. Differ(chain[m], chain[n])
      BY <1>2, <3>1, <3>2 DEF Numbered, Differ
    <3> QED  BY <1>9, <3>3 DEF Differ
  <2> QED  BY <2>1
<1>12. IsInjective(s)
  BY <1>11 DEF IsInjective, Differ
<1>13. \A n \in DOMAIN s : Waiting(rest, s[n])
  <2>1. ASSUME NEW n \in DOMAIN s
        PROVE  Waiting(rest, s[n])
    <3>1. Waiting(rest, chain[n])
      BY <1>5, <1>9
    <3>2. s[n] \in Voucher /\ s[n].no = chain[n].no /\ s[n].adv = chain[n].adv /\ s[n].date \in Days
      BY <1>9, <3>1 DEF Money, Waiting
    <3> QED  BY <3>1, <3>2 DEF Waiting
  <2> QED  BY <2>1
<1>14. back \in Seq(Money) /\ \A m \in DOMAIN back : \E n \in DOMAIN s : s[n] = back[m]
  BY <1>10, ArrivalOf
<1>15. IsInjective(back)
  BY <1>10, <1>12, ArrivalAll
<1> HIDE DEF back
<1>16. Ready(rest, back)
  <2>1. \A m \in DOMAIN back : Waiting(rest, back[m])
    BY <1>13, <1>14
  <2>2. ASSUME NEW m \in DOMAIN back, NEW n \in DOMAIN back, m # n
        PROVE  Differ(back[m], back[n])
    <3>1. back[m] # back[n]
      BY <1>15, <2>2, Zenon DEF IsInjective
    <3>2. PICK p \in DOMAIN s : s[p] = back[m]
      BY <1>14
    <3>3. PICK q \in DOMAIN s : s[q] = back[n]
      BY <1>14
    <3> QED  BY <1>11, <3>1, <3>2, <3>3
  <2> QED  BY <1>14, <2>1, <2>2 DEF Ready
<1> QED  BY <1>1, <1>2, <1>4, <1>16, ResettledAtRest DEF rest

(* Deleting some. *)
LEMMA DeleteAccounted ==
  ASSUME OthersPark, books \in Books, AtRest(books), NEW is, DeleteReceipts(is)
  PROVE  books' \in Books /\ AtRest(books')
<1> DEFINE rs == Receipts(books)
           earliest == CHOOSE i \in is : \A j \in is : rs[i].date < rs[j].date \/ (rs[i].date = rs[j].date /\ i <= j)
           chain == ReplayChain(books, earliest, rs[earliest].date)
           gone  == {rs[i].no : i \in is}
           S == {r \in ToSet(chain) : r.no \notin gone}
           s == Among(chain, S)
           back == Arrival(s)
<1>1. Commit(Resettle(books, chain, back, NoVoucher))
  BY DEF DeleteReceipts
<1>2. Accounted(books) /\ Numbered(books)
  BY DEF AtRest, Accounted
<1> HIDE DEF earliest
<1>3. Booked(books, chain)
  BY <1>2, ReplayBooked
<1> HIDE DEF chain, S
<1>4. Booked(books, s) /\ \A i \in DOMAIN s : \E j \in DOMAIN chain : chain[j] = s[i]
  BY <1>2, <1>3, BookedStay
<1> HIDE DEF s
<1>5. Booked(books, back) /\ \A i \in DOMAIN back : \E j \in DOMAIN s : s[j] = back[i]
  BY <1>2, <1>4, BookedStay
<1> HIDE DEF back
<1>6. \A i \in DOMAIN back : \E j \in DOMAIN chain : back[i] = chain[j]
  BY <1>4, <1>5
<1>7. Ready(ReverseChain(books, chain), back)
  BY <1>3, <1>5, <1>6, BookedReady
<1>8. chain \in Seq(Money) /\ \A n \in DOMAIN chain : chain[n] \in ToSet(books.vouchers)
  BY <1>3 DEF Booked
<1> QED  BY <1>1, <1>2, <1>7, <1>8, ResettledAtRest

(* An opening balance is changed. *)
LEMMA OpeningAccounted ==
  ASSUME OthersPark, books \in Books, AtRest(books), NEW amt \in Int, SaveOpening(amt)
  PROVE  books' \in Books /\ AtRest(books')
<1> DEFINE k == [books EXCEPT !.opening = amt]
           D == {e \in DOMAIN k.paid : ~(e.fund = Credit)}
           p == [e \in D |-> k.paid[e]]
           w == Without(k, LAMBDA e : e.fund = Credit)
           rs == Receipts(k)
           back == Arrival(rs)
<1>1. Commit(Resettle(w, rs, back, NoVoucher))
  BY DEF SaveOpening, ResettleParty
<1>2. /\ k \in Books /\ k.paid = books.paid /\ k.vouchers = books.vouchers /\ k.elsewhere = books.elsewhere
      /\ k.lastNo = books.lastNo
  BY DEF Books
<1>3. w = [k EXCEPT !.paid = p]
  BY DEF Without
<1> HIDE DEF k, w
<1>4. /\ D \in SUBSET DOMAIN books.paid
      /\ \A e \in DOMAIN books.paid \ D : e.fund # Cash
      /\ \A e \in D : e.fund # Credit
  BY <1>2 DEF Cash, Credit
<1>5. p \in Purse
  <2>1. k.paid \in Purse /\ D \in SUBSET DOMAIN k.paid
    BY <1>2, <1>4 DEF Books
  <2> HIDE DEF D
  <2> QED  BY <2>1, PursePart
<1>a. p = [e \in D |-> books.paid[e]]
  BY <1>2
<1> HIDE DEF D, p
<1>6. /\ w \in Books /\ w.vouchers = books.vouchers /\ w.paid = [e \in D |-> books.paid[e]]
      /\ w.elsewhere = books.elsewhere /\ w.lastNo = books.lastNo
  BY <1>2, <1>3, <1>5, <1>a DEF Books
<1>7. AtRest(w)
  <2>1. w.lastNo >= books.lastNo
    BY <1>6 DEF Books
  <2>2. Accounted(books)
    BY DEF AtRest
  <2> QED  BY <1>4, <1>6, <2>1, <2>2, PartIsAccounted
<1>8. rs = Receipts(w)
  BY <1>2, <1>6 DEF Receipts
<1> HIDE DEF rs
<1>9. Accounted(w) /\ Numbered(w)
  BY <1>7 DEF AtRest, Accounted
<1>10. Booked(w, rs)
  BY <1>6, <1>8, <1>9, ReceiptsBooked
<1>11. Booked(w, back) /\ \A i \in DOMAIN back : \E j \in DOMAIN rs : rs[j] = back[i]
  BY <1>6, <1>9, <1>10, BookedStay
<1> HIDE DEF back
<1>12. Ready(ReverseChain(w, rs), back)
  BY <1>6, <1>7, <1>10, <1>11, BookedReady
<1>13. rs \in Seq(Money) /\ \A n \in DOMAIN rs : rs[n] \in ToSet(w.vouchers)
  BY <1>10 DEF Booked
<1> QED  BY <1>1, <1>6, <1>9, <1>12, <1>13, ResettledAtRest

(* A bill written, with part of what was paid, of which no cash is left out. *)
LEMMA BillAccounted ==
  ASSUME NEW k \in Books, AtRest(k), NEW b \in Bills, NEW new \in Bill, NEW D \in SUBSET DOMAIN k.paid,
         \A e \in DOMAIN k.paid \ D : e.fund # Cash
  PROVE  LET l == [k EXCEPT !.paid = [e \in D |-> k.paid[e]], !.bills[b] = new]
         IN  l \in Books /\ AtRest(l) /\ ApplyOnAccount(l) \in Books /\ Accounted(ApplyOnAccount(l))
<1> DEFINE p == [e \in D |-> k.paid[e]]
           l == [k EXCEPT !.paid = p, !.bills[b] = new]
<1>1. l \in Books
  BY BillFares
<1>2. /\ l.vouchers = k.vouchers /\ l.paid = p /\ l.elsewhere = k.elsewhere /\ l.lastNo = k.lastNo
      /\ l.opening = k.opening
  <2> HIDE DEF p
  <2> QED  BY DEF Books
<1> HIDE DEF l
<1>3. AtRest(l)
  <2>1. l.lastNo >= k.lastNo
    BY <1>2 DEF Books
  <2>2. Accounted(k)
    BY DEF AtRest
  <2> QED  BY <1>1, <1>2, <2>1, <2>2, PartIsAccounted
<1>4. Accounted(ApplyOnAccount(l))
  BY <1>1, <1>3, AppliedIsAccounted DEF AtRest
<1>5. ApplyOnAccount(l) \in Books
  BY <1>1, ApplyFares DEF Fares
<1> QED  BY <1>1, <1>3, <1>4, <1>5 DEF l

(* Saving a bill. *)
LEMMA SaveBillAccounted ==
  ASSUME OthersPark, books \in Books, AtRest(books), NEW b \in Bills, NEW day \in Days,
         NEW amt \in BillAmounts, NEW answer \in Answers, SaveBill(b, day, amt, answer)
  PROVE  books' \in Books /\ AtRest(books')
<1> DEFINE old == books.bills[b]
           new == [old EXCEPT !.on = TRUE, !.date = day, !.amt = amt, !.kept = Keeps(old, answer)]
           touches == [new EXCEPT !.kept = old.kept] # old
           lifts == touches \/ answer = "keep"
           off == {e \in DOMAIN books.paid : ~(e.bill = b /\ e.fund # Cash)}
           D == IF lifts THEN off ELSE DOMAIN books.paid
           p == [e \in D |-> books.paid[e]]
           l == [books EXCEPT !.paid = p, !.bills[b] = new]
           m == IF answer = "keep" THEN l ELSE ApplyOnAccount(l)
<1>1. books.paid = [e \in DOMAIN books.paid |-> books.paid[e]] /\ books.paid \in Purse
  BY PurseIs DEF Books
<1>2. [(IF lifts THEN LiftOnAccount(books, b) ELSE books) EXCEPT !.bills[b] = new] = l
  <2>1. (IF lifts THEN LiftOnAccount(books, b) ELSE books) = [books EXCEPT !.paid = p]
    <3>1. CASE lifts
      <4>1. LiftOnAccount(books, b) = [books EXCEPT !.paid = [e \in off |-> books.paid[e]]]
        BY LiftIs
      <4> HIDE DEF lifts, off
      <4> QED  BY <3>1, <4>1
    <3>2. CASE ~lifts
      <4>1. p = books.paid
        BY <1>1, <3>2
      <4> HIDE DEF p, lifts
      <4>2. [books EXCEPT !.paid = p] = books
        BY <4>1 DEF Books
      <4> QED  BY <3>2, <4>2
    <3> QED  BY <3>1, <3>2
  <2> HIDE DEF lifts, p, new
  <2> QED  BY <2>1 DEF Books
<1>3. Commit(m)
  <2> HIDE DEF l
  <2> QED  BY <1>2 DEF SaveBill
<1>4. new \in Bill
  <2>1. old \in Bill /\ day \in Nat /\ amt \in Nat
    BY ReceiptsAssumption DEF Books, Days
  <2>2. Keeps(old, answer) \in BOOLEAN
    BY <2>1 DEF Keeps, Bill
  <2> HIDE DEF old
  <2> QED  BY <2>1, <2>2 DEF Bill
<1>5. D \in SUBSET DOMAIN books.paid /\ \A e \in DOMAIN books.paid \ D : e.fund # Cash
  OBVIOUS
<1> HIDE DEF D, new
<1>6. l \in Books /\ AtRest(l) /\ ApplyOnAccount(l) \in Books /\ Accounted(ApplyOnAccount(l))
  BY <1>4, <1>5, BillAccounted
<1> HIDE DEF l
<1>7. m \in Books /\ Accounted(m)
  BY <1>6 DEF AtRest
<1> HIDE DEF m
<1> QED  BY <1>3, <1>7, LeavesAtRest

(* Dropping one. *)
LEMMA DropBillAccounted ==
  ASSUME OthersPark, books \in Books, AtRest(books), NEW b \in Bills,
         NEW after \in {NoBill, [books.bills[b] EXCEPT !.on = FALSE]}, DropBill(b, after)
  PROVE  books' \in Books /\ AtRest(books')
<1> DEFINE D == {e \in DOMAIN books.paid : ~(e.bill = b /\ e.fund # Cash)}
           p == [e \in D |-> books.paid[e]]
           l == [books EXCEPT !.paid = p, !.bills[b] = after]
<1>1. [LiftOnAccount(books, b) EXCEPT !.bills[b] = after] = l
  <2>1. LiftOnAccount(books, b) = [books EXCEPT !.paid = p]
    BY LiftIs
  <2> HIDE DEF p
  <2> QED  BY <2>1 DEF Books
<1>2. Commit(ApplyOnAccount(l))
  <2> HIDE DEF l
  <2> QED  BY <1>1 DEF DropBill
<1>3. after \in Bill
  <2>1. books.bills[b] \in Bill /\ NoBill \in Bill
    BY DEF Books, NoBill, Bill
  <2> QED  BY <2>1 DEF Bill
<1>4. D \in SUBSET DOMAIN books.paid /\ \A e \in DOMAIN books.paid \ D : e.fund # Cash
  OBVIOUS
<1> HIDE DEF D
<1>5. ApplyOnAccount(l) \in Books /\ Accounted(ApplyOnAccount(l))
  BY <1>3, <1>4, BillAccounted
<1> HIDE DEF l
<1> QED  BY <1>2, <1>5, LeavesAtRest

(* Receipts settle again after a note is written. *)
LEMMA InPlaceAtRest ==
  ASSUME OthersPark, NEW k \in Books, NEW written \in Books, Accounted(written),
         NEW chain, Ready(written, chain), Commit(InPlace(k, chain, written))
  PROVE  books' \in Books /\ AtRest(books')
<1> DEFINE l == ApplyOnAccount(SettleAgain(k, written, chain, NoVoucher))
<1>1. Commit(l)
  BY DEF InPlace
<1>2. l \in Books /\ Accounted(l)
  BY SettledAgain
<1> HIDE DEF l
<1> QED  BY <1>1, <1>2, LeavesAtRest

(* What is not taken out stays. *)
LEMMA OthersStay ==
  ASSUME NEW k \in Books, NEW rs, NEW v \in ToSet(k.vouchers), \A j \in DOMAIN rs : rs[j].no # v.no
  PROVE  v \in ToSet(ReverseChain(k, rs).vouchers)
<1> DEFINE nos  == {r.no : r \in ToSet(rs)}
           advs == {r.adv : r \in ToSet(rs)} \ {0}
           w == Without(k, LAMBDA e : e.by \in nos \/ e.fund \in advs)
           S == {r \in ToSet(k.vouchers) : r.no \notin nos}
<1>1. ReverseChain(k, rs) = [w EXCEPT !.vouchers = Among(w.vouchers, {r \in ToSet(w.vouchers) : r.no \notin nos})]
  BY DEF ReverseChain
<1>2. w.vouchers = k.vouchers /\ [w EXCEPT !.vouchers = Among(k.vouchers, S)].vouchers = Among(k.vouchers, S)
  BY DEF Without, Books
<1>3. v \in S
  BY DEF ToSet
<1> HIDE DEF w
<1>4. ReverseChain(k, rs).vouchers = Among(k.vouchers, S)
  BY <1>1, <1>2
<1> HIDE DEF S
<1>5. k.vouchers \in Seq(Voucher)
  BY DEF Books
<1>6. PICK j \in DOMAIN k.vouchers : k.vouchers[j] = v
  BY DEF ToSet
<1>7. \E i \in DOMAIN Among(k.vouchers, S) : Among(k.vouchers, S)[i] = v
  BY <1>3, <1>5, <1>6, AmongOf
<1> QED  BY <1>4, <1>7 DEF ToSet

(* Among leaves out nothing that is in the set. *)
LEMMA AmongAll ==
  ASSUME NEW T, NEW s \in Seq(T), NEW S, NEW v \in S, NEW j \in DOMAIN s, s[j] = v
  PROVE  \E i \in DOMAIN Among(s, S) : Among(s, S)[i] = v
BY AmongOf

(* A credit note is saved, the first time or again. *)
LEMMA SaveNoteAccounted ==
  ASSUME OthersPark, books \in Books, AtRest(books), NEW no \in Nat, NEW day \in Days, NEW amt \in NoteAmounts,
         NEW ref \in {<<>>} \cup {<<b>> : b \in Bills}, SaveCreditNote(no, day, amt, ref),
         no = books.lastNo + 1 \/ \E v \in CreditNotes(books) : v.no = no
  PROVE  books' \in Books /\ AtRest(books')
<1> DEFINE k == [books EXCEPT !.lastNo = Highest(@, no)]
           S == {v \in ToSet(books.vouchers) : v.no = no}
           old == Among(books.vouchers, S)
           chain == FromDay(books, Min({day} \cup {v.date : v \in ToSet(old)}))
           out == ReverseChain(k, chain)
           bare == Unpost(out, old)
           note == Receipt(no, day, amt, Note, ref)
           written == Post(bare, note)
<1>1. Commit(InPlace(books, chain, written))
  BY DEF SaveCreditNote
<1>2. Numbered(books) /\ Accounted(books)
  BY DEF AtRest, Accounted
<1>3. Booked(books, chain)
  BY <1>2, ChainBooked DEF FromDay
<1>a. \A v \in ToSet(books.vouchers) : v \in S <=> v.no = no
  OBVIOUS
<1>4. /\ \A j \in DOMAIN old : old[j] \in S
      /\ \A v \in S : \E j \in DOMAIN old : old[j] = v
      /\ old \in Seq(Voucher)
  <2>1. books.vouchers \in Seq(Voucher)
    BY DEF Books
  <2>2. S \subseteq ToSet(books.vouchers)
    OBVIOUS
  <2> HIDE DEF S
  <2>3. old \in Seq(Voucher) /\ \A j \in DOMAIN old : old[j] \in S
    BY <2>1, AmongOf
  <2>4. ASSUME NEW v \in S
        PROVE  \E j \in DOMAIN old : old[j] = v
    <3>1. PICK j \in DOMAIN books.vouchers : books.vouchers[j] = v
      BY <2>2 DEF ToSet
    <3>2. \E i \in DOMAIN Among(books.vouchers, S) : Among(books.vouchers, S)[i] = v
      BY <2>1, <2>4, <3>1, AmongAll
    <3> QED  BY <3>2
  <2> QED  BY <2>3, <2>4
<1>5. /\ k \in Books /\ k.paid = books.paid /\ k.vouchers = books.vouchers /\ k.opening = books.opening
      /\ k.elsewhere = books.elsewhere /\ k.lastNo >= books.lastNo /\ k.lastNo >= no
  <2>1. /\ Highest(books.lastNo, no) \in Nat
        /\ Highest(books.lastNo, no) >= books.lastNo /\ Highest(books.lastNo, no) >= no
    BY DEF Highest, Books
  <2> QED  BY <2>1 DEF Books
<1>b. \A j \in DOMAIN old : old[j] \in ToSet(books.vouchers) /\ old[j].no = no
  BY <1>4
<1> HIDE DEF chain, old, S, k
<1>6. AtRest(k)
  <2> DEFINE D == DOMAIN books.paid
  <2>1. books.paid = [e \in D |-> books.paid[e]]
    BY PurseIs DEF Books
  <2>2. D \in SUBSET DOMAIN books.paid /\ \A e \in DOMAIN books.paid \ D : e.fund # Cash
    OBVIOUS
  <2>3. k.paid = [e \in D |-> books.paid[e]]
    BY <1>5, <2>1
  <2> HIDE DEF D
  <2> QED  BY <1>2, <1>5, <2>2, <2>3, PartIsAccounted
<1>7. Booked(k, chain) /\ chain \in Seq(Money) /\ \A j \in DOMAIN chain : chain[j] \in ToSet(k.vouchers)
  BY <1>3, <1>5 DEF Booked
<1>8. Ready(out, chain)
  BY <1>5, <1>6, <1>7, BookedReady
<1>9. \A j \in DOMAIN chain : chain[j].no # no
  <2>1. ASSUME NEW j \in DOMAIN chain, chain[j].no = no
        PROVE  FALSE
    <3>1. chain[j] \in ToSet(books.vouchers) /\ chain[j].how # Note
      BY <1>5, <1>7 DEF Money
    <3>2. CASE no = books.lastNo + 1
      <4>1. chain[j].no <= books.lastNo /\ books.lastNo \in Nat
        BY <1>2, <3>1 DEF Numbered, Books
      <4> QED  BY <2>1, <3>2, <4>1
    <3>3. ASSUME NEW v \in CreditNotes(books), v.no = no
          PROVE  FALSE
      <4>1. v \in ToSet(books.vouchers) /\ v.how = Note
        BY DEF CreditNotes
      <4>2. chain[j] = v
        BY <1>2, <2>1, <3>1, <3>3, <4>1 DEF Numbered
      <4> QED  BY <3>1, <4>1, <4>2
    <3> QED  BY <3>2, <3>3
  <2> QED  BY <2>1
<1>10. /\ out \in Books /\ Accounted(out) /\ out.elsewhere = k.elsewhere /\ out.lastNo = k.lastNo
       /\ ToSet(out.vouchers) \subseteq ToSet(k.vouchers)
  BY <1>5, <1>6, <1>7, ReversedIsAccounted DEF AtRest
<1>11. \A j \in DOMAIN old : old[j] \in ToSet(out.vouchers)
  <2>1. ASSUME NEW j \in DOMAIN old
        PROVE  old[j] \in ToSet(out.vouchers)
    <3>1. old[j] \in ToSet(k.vouchers) /\ old[j].no = no
      BY <1>5, <1>b
    <3>2. \A i \in DOMAIN chain : chain[i].no # old[j].no
      BY <1>9, <3>1
    <3> QED  BY <1>5, <3>1, <3>2, OthersStay
  <2> QED  BY <2>1
<1> HIDE DEF out
<1>12. /\ bare \in Books /\ Accounted(bare) /\ bare.elsewhere = out.elsewhere /\ bare.lastNo = out.lastNo
       /\ ToSet(bare.vouchers) \subseteq ToSet(out.vouchers)
  BY <1>4, <1>10, <1>11, ReversedIsAccounted DEF Unpost
<1>13. \A v \in ToSet(bare.vouchers) : v.no # no
  <2>1. ASSUME NEW v \in ToSet(bare.vouchers), v.no = no
        PROVE  FALSE
    <3>1. v \in ToSet(books.vouchers)
      BY <1>5, <1>10, <1>12
    <3>2. PICK j \in DOMAIN old : old[j] = v
      BY <1>a, <1>4, <2>1, <3>1
    <3>3. \A i \in DOMAIN bare.vouchers : \A n \in DOMAIN old : bare.vouchers[i].no # old[n].no
      BY <1>10, ReverseFares DEF Unpost
    <3>4. PICK i \in DOMAIN bare.vouchers : bare.vouchers[i] = v
      BY DEF ToSet
    <3> QED  BY <3>2, <3>3, <3>4
  <2> QED  BY <2>1
<1> HIDE DEF bare
<1>14. note \in Voucher /\ note.no = no /\ note.date = day /\ note.adv = 0
  <2>1. day \in Nat /\ amt \in Nat
    BY NotesAssumption DEF Days
  <2>2. ref \in {t \in Seq(Bills) : IsInjective(t)}
    <3>1. CASE ref = <<>>
      <4>1. <<>> \in Seq(Bills) /\ DOMAIN <<>> = {}
        OBVIOUS
      <4> QED  BY <3>1, <4>1, Zenon DEF IsInjective
    <3>2. ASSUME NEW b \in Bills, ref = <<b>>
          PROVE  ref \in {t \in Seq(Bills) : IsInjective(t)}
      <4>1. <<b>> \in Seq(Bills) /\ DOMAIN <<b>> = {1}
        OBVIOUS
      <4> QED  BY <3>2, <4>1 DEF IsInjective
    <3> QED  BY <3>1, <3>2
  <2> HIDE DEF note
  <2>3. note = [no |-> no, date |-> day, amt |-> amt, how |-> Note, ticked |-> ref,
                adv |-> 0, parked |-> 0, cleared |-> 0]
    BY DEF note, Receipt
  <2> QED  BY <2>1, <2>2, <2>3 DEF Voucher
<1> HIDE DEF note
<1>15. Waiting(bare, note)
  <2>1. bare.elsewhere \in Nat /\ bare.lastNo >= no
    BY <1>5, <1>10, <1>12 DEF Books
  <2>2. note.adv <= bare.elsewhere /\ note.no <= bare.lastNo
    BY <1>5, <1>10, <1>12, <1>14, <2>1
  <2> QED  BY <1>13, <1>14, <2>2 DEF Waiting
<1>16. /\ Accounted(written) /\ written.elsewhere = bare.elsewhere /\ written.lastNo = bare.lastNo
       /\ \A s : Waiting(bare, s) /\ Differ(s, note) => Waiting(written, s)
  BY <1>12, <1>15, PostedIsAccounted
<1>17. written \in Books
  BY <1>12, <1>14, PostFares DEF Fares
<1> HIDE DEF written
<1>18. Ready(written, chain)
  <2>1. ASSUME NEW j \in DOMAIN chain
        PROVE  Waiting(written, chain[j])
    <3>1. Waiting(out, chain[j])
      BY <1>8 DEF Ready
    <3>2. Waiting(bare, chain[j])
      BY <1>12, <3>1, StillWaiting
    <3>3. Differ(chain[j], note)
      BY <1>9, <1>14 DEF Differ
    <3> QED  BY <1>16, <3>2, <3>3
  <2> QED  BY <1>8, <2>1 DEF Ready
<1> QED  BY <1>1, <1>16, <1>17, <1>18, InPlaceAtRest

(* One is removed. *)
LEMMA RemoveNoteAccounted ==
  ASSUME OthersPark, books \in Books, AtRest(books), NEW note \in CreditNotes(books), RemoveCreditNote(note)
  PROVE  books' \in Books /\ AtRest(books')
<1> DEFINE chain == FromDay(books, note.date)
           out == ReverseChain(books, chain)
           one == <<note>>
           written == Unpost(out, one)
<1>1. Commit(InPlace(books, chain, written))
  BY DEF RemoveCreditNote
<1>2. Numbered(books) /\ Accounted(books)
  BY DEF AtRest, Accounted
<1>3. Booked(books, chain)
  BY <1>2, ChainBooked DEF FromDay
<1> HIDE DEF chain
<1>4. chain \in Seq(Money) /\ \A j \in DOMAIN chain : chain[j] \in ToSet(books.vouchers)
  BY <1>3 DEF Booked
<1>5. Ready(out, chain)
  BY <1>3, BookedReady
<1>6. note \in ToSet(books.vouchers) /\ note.how = Note
  BY DEF CreditNotes
<1>7. \A j \in DOMAIN chain : chain[j].no # note.no
  BY <1>2, <1>4, <1>6 DEF Numbered, Money
<1>8. out \in Books /\ Accounted(out) /\ out.elsewhere = books.elsewhere /\ out.lastNo = books.lastNo
  BY <1>2, <1>4, ReversedIsAccounted
<1>9. note \in ToSet(out.vouchers)
  BY <1>6, <1>7, OthersStay
<1> HIDE DEF out
<1>10. one \in Seq(ToSet(out.vouchers)) /\ \A j \in DOMAIN one : one[j] \in ToSet(out.vouchers)
  BY <1>9
<1> HIDE DEF one
<1>11. /\ written \in Books /\ Accounted(written) /\ written.elsewhere = out.elsewhere /\ written.lastNo = out.lastNo
       /\ ToSet(written.vouchers) \subseteq ToSet(out.vouchers)
  BY <1>8, <1>10, ReversedIsAccounted DEF Unpost
<1> HIDE DEF written
<1>12. Ready(written, chain)
  <2>1. \A j \in DOMAIN chain : Waiting(written, chain[j])
    BY <1>5, <1>11, StillWaiting DEF Ready
  <2> QED  BY <1>5, <2>1 DEF Ready
<1> QED  BY <1>1, <1>11, <1>12, InPlaceAtRest

(* A debit note is saved, the first time or again. *)
LEMMA SaveDebitAccounted ==
  ASSUME OthersPark, books \in Books, AtRest(books), NEW b \in Bills, NEW day \in Days, NEW amt \in NoteAmounts,
         NEW answer \in Answers, SaveDebitNote(b, day, amt, answer)
  PROVE  books' \in Books /\ AtRest(books')
<1> DEFINE old == books.bills[b]
           new == [on |-> TRUE, date |-> day, amt |-> amt, kept |-> Keeps(old, answer), debit |-> TRUE]
           saved == [books EXCEPT !.bills[b] = new]
           chain == FromDay(books, IF old = NoBill THEN day ELSE Lowest(old.date, day))
           out == ReverseChain(saved, chain)
           written == SquareOff(out, b)
<1>1. Commit(InPlace(books, chain, written))
  BY DEF SaveDebitNote
<1>2. Numbered(books) /\ Accounted(books)
  BY DEF AtRest, Accounted
<1>3. Booked(books, chain)
  BY <1>2, ChainBooked DEF FromDay
<1> HIDE DEF chain
<1>4. new \in Bill
  <2>1. old \in Bill /\ day \in Nat /\ amt \in Nat
    BY NotesAssumption DEF Books, Days
  <2>2. Keeps(old, answer) \in BOOLEAN
    BY <2>1 DEF Keeps, Bill
  <2> HIDE DEF old
  <2> QED  BY <2>1, <2>2 DEF Bill
<1> HIDE DEF new
<1>5. /\ saved \in Books /\ saved.paid = books.paid /\ saved.vouchers = books.vouchers
      /\ saved.opening = books.opening /\ saved.elsewhere = books.elsewhere /\ saved.lastNo = books.lastNo
  BY <1>4 DEF Books
<1> HIDE DEF saved
<1>6. AtRest(saved)
  <2> DEFINE D == DOMAIN books.paid
  <2>1. books.paid = [e \in D |-> books.paid[e]]
    BY PurseIs DEF Books
  <2>2. D \in SUBSET DOMAIN books.paid /\ \A e \in DOMAIN books.paid \ D : e.fund # Cash
    OBVIOUS
  <2>3. saved.paid = [e \in D |-> books.paid[e]] /\ saved.lastNo >= books.lastNo
    BY <1>5, <2>1 DEF Books
  <2> HIDE DEF D
  <2> QED  BY <1>2, <1>5, <2>2, <2>3, PartIsAccounted
<1>7. Booked(saved, chain) /\ chain \in Seq(Money) /\ \A j \in DOMAIN chain : chain[j] \in ToSet(saved.vouchers)
  BY <1>3, <1>5 DEF Booked
<1>8. Ready(out, chain)
  BY <1>5, <1>6, <1>7, BookedReady
<1>9. out \in Books /\ Accounted(out)
  BY <1>5, <1>6, <1>7, ReversedIsAccounted DEF AtRest
<1> HIDE DEF out
<1>10. /\ written \in Books /\ Accounted(written) /\ written.vouchers = out.vouchers
       /\ written.elsewhere = out.elsewhere /\ written.lastNo = out.lastNo
  BY <1>9, SquaredIsAccounted
<1> HIDE DEF written
<1>11. Ready(written, chain)
  <2>1. \A j \in DOMAIN chain : Waiting(written, chain[j])
    BY <1>8, <1>10, StillWaiting DEF Ready
  <2> QED  BY <1>8, <2>1 DEF Ready
<1> QED  BY <1>1, <1>10, <1>11, InPlaceAtRest

(* One is removed. *)
LEMMA RemoveDebitAccounted ==
  ASSUME OthersPark, books \in Books, AtRest(books), NEW b \in Bills, RemoveDebitNote(b)
  PROVE  books' \in Books /\ AtRest(books')
<1> DEFINE chain == FromDay(books, books.bills[b].date)
           out == ReverseChain(books, chain)
           D == {e \in DOMAIN out.paid : ~(e.bill = b /\ e.fund # Cash)}
           lifted == LiftOnAccount(out, b)
           written == [lifted EXCEPT !.bills[b] = NoBill]
           q == [out EXCEPT !.paid = [e \in D |-> out.paid[e]], !.bills[b] = NoBill]
<1>1. Commit(InPlace(books, chain, written))
  BY DEF RemoveDebitNote
<1>2. Numbered(books) /\ Accounted(books)
  BY DEF AtRest, Accounted
<1>3. Booked(books, chain)
  BY <1>2, ChainBooked DEF FromDay
<1> HIDE DEF chain
<1>4. chain \in Seq(Money) /\ \A j \in DOMAIN chain : chain[j] \in ToSet(books.vouchers)
  BY <1>3 DEF Booked
<1>5. Ready(out, chain)
  BY <1>3, BookedReady
<1>6. out \in Books /\ AtRest(out)
  BY <1>2, <1>4, ReversedIsAccounted
<1> HIDE DEF out
<1>7. written = q
  <2>1. lifted = [out EXCEPT !.paid = [e \in D |-> out.paid[e]]]
    BY <1>6, LiftIs
  <2> HIDE DEF D, lifted
  <2> QED  BY <1>6, <2>1 DEF Books
<1>8. q \in Books /\ AtRest(q)
  <2>1. NoBill \in Bill
    BY DEF NoBill, Bill
  <2>2. D \in SUBSET DOMAIN out.paid /\ \A e \in DOMAIN out.paid \ D : e.fund # Cash
    OBVIOUS
  <2> HIDE DEF D
  <2> QED  BY <1>6, <2>1, <2>2, BillAccounted
<1>9. q.vouchers = out.vouchers /\ q.elsewhere = out.elsewhere /\ q.lastNo = out.lastNo
  <2> DEFINE p == [e \in D |-> out.paid[e]]
  <2>1. q = [out EXCEPT !.paid = p, !.bills[b] = NoBill]
    OBVIOUS
  <2> HIDE DEF p, q
  <2> QED  BY <1>6, <2>1 DEF Books
<1> HIDE DEF q, written
<1>10. written \in Books /\ Accounted(written)
  BY <1>7, <1>8 DEF AtRest
<1>11. Ready(written, chain)
  <2>1. \A j \in DOMAIN chain : Waiting(written, chain[j])
    BY <1>5, <1>7, <1>9, StillWaiting DEF Ready
  <2> QED  BY <1>5, <2>1 DEF Ready
<1> QED  BY <1>1, <1>10, <1>11, InPlaceAtRest

(***************************************************************************)
(* Where the money is.                                                     *)
(***************************************************************************)
(* What is in a number of pots is a sum. *)
LEMMA LeftIs ==
  ASSUME NEW pots \in Seq(PotSet), NEW f, \A i \in DOMAIN pots : f[i] = pots[i].left
  PROVE  Summable(f, DOMAIN pots) /\ Left(pots) = SumOf(f, DOMAIN pots)
<1> DEFINE S == 1..Len(pots)
           Terms(g) == [t \in SUBSET S |-> IF t = {} THEN 0 ELSE pots[Pick(t)].left + g[t \ {Pick(t)}]]
           h == CHOOSE g : g = Terms(g)
<1>1. Len(pots) \in Nat /\ DOMAIN pots = S /\ \A i \in S : pots[i] \in PotSet
  OBVIOUS
<1>2. IsFiniteSet(S) /\ \A i \in S : f[i] = pots[i].left /\ f[i] \in Nat
  <2>1. 0 \in Nat /\ 1 \in Int /\ Len(pots) \in Int
    BY <1>1
  <2>2. IsFiniteSet(S)
    BY <2>1, FS_Interval
  <2>3. \A i \in S : pots[i].left \in Nat
    BY <1>1 DEF PotSet
  <2> QED  BY <1>1, <2>2, <2>3
<1>3. Left(pots) = h[S]
  BY DEF Left, Upto, MapThenSumSet, MapThenFoldSet, Pick
<1> HIDE DEF S
<1>4. \A t \in SUBSET S : t # {} => f[Pick(t)] = pots[Pick(t)].left
  BY <1>2, PickIn
<1>5. Summable(f, S)
  BY <1>2 DEF Summable
<1>6. \A g : g = Terms(g) <=> Adds(g, f, S)
  BY <1>4 DEF Adds
<1> HIDE DEF Terms
<1>7. Adds(h, f, S)
  BY <1>5, <1>6, Solvable
<1>8. SumOf(f, S) = h[S]
  BY <1>5, <1>7, SumBy
<1> QED  BY <1>1, <1>3, <1>5, <1>8

(* What each voucher is for. *)
VoucherAmounts == [v \in Voucher |-> v.amt]

(* What the vouchers come to is a sum. *)
LEMMA AmountsAre ==
  ASSUME NEW k \in Books
  PROVE  /\ Summable(VoucherAmounts, ToSet(k.vouchers))
         /\ MapThenSumSet(LAMBDA r : r.amt, ToSet(k.vouchers)) = SumOf(VoucherAmounts, ToSet(k.vouchers))
<1> DEFINE S == ToSet(k.vouchers)
           Terms(g) == [t \in SUBSET S |-> IF t = {} THEN 0 ELSE Pick(t).amt + g[t \ {Pick(t)}]]
           h == CHOOSE g : g = Terms(g)
           total == MapThenSumSet(LAMBDA r : r.amt, S)
<1>1. IsFiniteSet(S) /\ S \subseteq Voucher
  BY ClearedIs
<1>2. total = h[S]
  BY DEF MapThenSumSet, MapThenFoldSet, Pick
<1> HIDE DEF S, total
<1>3. \A v \in S : VoucherAmounts[v] = v.amt /\ VoucherAmounts[v] \in Nat
  BY <1>1 DEF VoucherAmounts, Voucher
<1>4. \A t \in SUBSET S : t # {} => VoucherAmounts[Pick(t)] = Pick(t).amt
  BY <1>3, PickIn
<1>5. Summable(VoucherAmounts, S)
  BY <1>1, <1>3 DEF Summable
<1>6. \A g : g = Terms(g) <=> Adds(g, VoucherAmounts, S)
  BY <1>4 DEF Adds
<1> HIDE DEF Terms
<1>7. Adds(h, VoucherAmounts, S)
  BY <1>5, <1>6, Solvable
<1>8. total = SumOf(VoucherAmounts, S)
  BY <1>2, <1>5, <1>7, SumBy
<1> QED  BY <1>5, <1>8 DEF S, total

(* A sum over one element. *)
LEMMA SumSingle ==
  ASSUME NEW f, NEW x, f[x] \in Int
  PROVE  SumOf(f, {x}) = f[x] /\ SumOf(f, {}) = 0
<1>1. Summable(f, {x}) /\ {x} \ {x} = {}
  BY FS_Singleton DEF Summable
<1>2. SumOf(f, {x}) = f[x] + SumOf(f, {}) /\ SumOf(f, {}) = 0
  BY <1>1, SumOne
<1> QED  BY <1>2

(* The cash in the purse, voucher by voucher. *)
LEMMA CashSums ==
  ASSUME NEW k \in Books, Accounted(k)
  PROVE  LET h == [v \in ToSet(k.vouchers) |-> In(k.paid, CashBy(v.no))]
         IN  Summable(h, ToSet(k.vouchers)) /\ In(k.paid, From(Cash)) = SumOf(h, ToSet(k.vouchers))
<1> DEFINE p == k.paid
           V == ToSet(k.vouchers)
           F == [v \in V |-> {e \in DOMAIN p : e \in CashBy(v.no)}]
           h == [v \in V |-> In(p, CashBy(v.no))]
           S == {e \in DOMAIN p : e \in From(Cash)}
<1>1. p \in Purse /\ IsFiniteSet(V)
  BY ClearedIs DEF Books
<1>2. \A v \in V : v.no \in Nat /\ v.parked \in Nat /\ v.adv \in Nat
  BY VouchersAre
<1>3. \A v \in V : F[v] \in SUBSET DOMAIN p /\ h[v] = SumOf(p, F[v])
  BY DEF In
<1>4. \A v, w \in V : v # w => F[v] \cap F[w] = {}
  <2>1. \A v, w \in V : v # w => v.no # w.no
    BY DEF Accounted, Numbered
  <2> QED  BY <2>1 DEF CashBy
<1>5. Summable(p, DOMAIN p)
  BY <1>1, PurseSums
<1>6. S = UNION {F[v] : v \in V}
  <2>1. ASSUME NEW e \in S  PROVE \E v \in V : e \in F[v]
    <3>1. e \in DOMAIN p /\ e \in Item /\ e.fund = Cash
      BY DEF From
    <3>2. Owned(k, e)
      BY <3>1 DEF Accounted, Backed
    <3>3. \A v \in V : v.parked > 0 => v.adv # Cash
      BY <1>2 DEF Accounted, Numbered, Cash
    <3>4. PICK v \in V : v.no = e.by
      BY <3>1, <3>2, <3>3 DEF Owned, Cash, Credit
    <3> QED  BY <3>1, <3>4 DEF CashBy
  <2>2. ASSUME NEW v \in V, NEW e \in F[v]  PROVE e \in S
    BY DEF CashBy, From
  <2> HIDE DEF S, F
  <2> QED  BY <2>1, <2>2
<1> HIDE DEF F, h, S, p, V
<1>7. Summable(h, V) /\ SumOf(p, UNION {F[v] : v \in V}) = SumOf(h, V)
  BY <1>1, <1>3, <1>4, <1>5, SumByParts
<1>8. In(p, From(Cash)) = SumOf(p, S)
  BY DEF In, S
<1> QED  BY <1>6, <1>7, <1>8 DEF h, p, V

(* What a voucher's advance has paid. *)
SpentFrom(k, v) == IF v.parked > 0 THEN In(k.paid, From(v.adv)) ELSE 0

(* What has been paid from advances, voucher by voucher. *)
LEMMA FundSums ==
  ASSUME NEW k \in Books, Accounted(k)
  PROVE  LET h == [v \in ToSet(k.vouchers) |-> SpentFrom(k, v)]
         IN  /\ Summable(h, ToSet(k.vouchers))
             /\ SumOf(k.paid, {e \in DOMAIN k.paid : e.fund # Cash /\ e.fund # Credit})
                  = SumOf(h, ToSet(k.vouchers))
<1> DEFINE p == k.paid
           V == ToSet(k.vouchers)
           F == [v \in V |-> {e \in DOMAIN p : v.parked > 0 /\ e \in From(v.adv)}]
           h == [v \in V |-> SpentFrom(k, v)]
           S == {e \in DOMAIN p : e.fund # Cash /\ e.fund # Credit}
<1>1. p \in Purse /\ IsFiniteSet(V)
  BY ClearedIs DEF Books
<1>2. \A v \in V : v.adv \in Nat /\ v.parked \in Nat /\ (v.parked > 0 => v.adv > 0)
  BY VouchersAre DEF Accounted, Numbered
<1>3. ASSUME NEW v \in V  PROVE F[v] \in SUBSET DOMAIN p /\ h[v] = SumOf(p, F[v])
  <2>1. CASE v.parked > 0
    <3>1. F[v] = {e \in DOMAIN p : e \in From(v.adv)}
      BY <2>1
    <3>2. h[v] = In(p, From(v.adv))
      BY <2>1 DEF SpentFrom
    <3> QED  BY <3>1, <3>2 DEF In
  <2>2. CASE ~(v.parked > 0)
    <3>1. F[v] = {}
      BY <2>2
    <3>2. h[v] = 0
      BY <2>2 DEF SpentFrom
    <3>3. Summable(p, {})
      BY FS_EmptySet DEF Summable
    <3>4. SumOf(p, {}) = 0
      BY <3>3, SumOne
    <3> HIDE DEF h, F
    <3> QED  BY <3>1, <3>2, <3>4
  <2> QED  BY <2>1, <2>2
<1>4. \A v, w \in V : v # w => F[v] \cap F[w] = {}
  <2>1. \A v, w \in V : v # w /\ v.parked > 0 => v.adv # w.adv
    BY <1>2 DEF Accounted, Numbered
  <2> QED  BY <2>1 DEF From
<1>5. Summable(p, DOMAIN p)
  BY <1>1, PurseSums
<1>6. S = UNION {F[v] : v \in V}
  <2>1. ASSUME NEW e \in S  PROVE \E v \in V : e \in F[v]
    <3>1. e \in DOMAIN p /\ e \in Item /\ e.fund # Cash /\ e.fund # Credit
      BY <1>1, PurseIs
    <3>2. Owned(k, e)
      BY <3>1 DEF Accounted, Backed
    <3>3. PICK v \in V : v.parked > 0 /\ v.adv = e.fund
      BY <3>1, <3>2 DEF Owned
    <3> QED  BY <3>1, <3>3 DEF From
  <2>2. ASSUME NEW v \in V, NEW e \in F[v]  PROVE e \in S
    <3>1. e.fund = v.adv /\ v.adv > 0 /\ v.adv \in Nat /\ e \in DOMAIN p
      BY <1>2 DEF From
    <3> QED  BY <3>1 DEF Cash, Credit
  <2> HIDE DEF S, F
  <2> QED  BY <2>1, <2>2
<1> HIDE DEF F, h, p, V
<1>7. Summable(h, V) /\ SumOf(p, UNION {F[v] : v \in V}) = SumOf(h, V)
  BY <1>1, <1>3, <1>4, <1>5, SumByParts
<1>8. SumOf(p, S) = SumOf(h, V)
  <2> HIDE DEF S
  <2> QED  BY <1>6, <1>7
<1> QED  BY <1>7, <1>8 DEF h, p, V
(* What is left of a voucher's advance. *)
LeftOf(k, v) == IF v.parked > 0 THEN v.parked - In(k.paid, From(v.adv)) ELSE 0

(* What is on account is what is left of the CREDIT opening and of the     *)
(* vouchers' advances. *)
LEMMA LeftSums ==
  ASSUME NEW k \in Books, Accounted(k)
  PROVE  LET h == [v \in ToSet(k.vouchers) |-> LeftOf(k, v)]
         IN  /\ Summable(h, ToSet(k.vouchers))
             /\ OnAccount(k) = NotNegative(-k.opening) - In(k.paid, From(Credit)) + SumOf(h, ToSet(k.vouchers))
<1> DEFINE V == ToSet(k.vouchers)
           pots == AdvancePending(k, MaxDay)
           D == DOMAIN pots
           f == [i \in D |-> pots[i].left]
           G == {i \in D : pots[i].fund = Credit}
           F == [v \in V |-> {i \in D : v.parked > 0 /\ pots[i].fund = v.adv}]
           h == [v \in V |-> LeftOf(k, v)]
           rest == NotNegative(-k.opening)
<1>1. k.paid \in Purse /\ IsFiniteSet(V) /\ k.opening \in Int /\ MaxDay \in Nat
  BY ClearedIs, ReceiptsAssumption DEF Books
<1>2. \A v \in V : /\ v.adv \in Nat /\ v.parked \in Nat /\ v.date \in Nat
                   /\ v.parked > 0 => v.adv > 0
                   /\ v.date <= MaxDay
  BY <1>1, VouchersAre DEF Accounted, Numbered, Days
<1>3. \A v, w \in V : v # w /\ v.parked > 0 => v.adv # w.adv
  BY <1>2 DEF Accounted, Numbered
<1>4. /\ pots \in Seq(PotSet) /\ Apart(pots)
      /\ \A i \in D : \/ pots[i] = CreditPot(k)
                      \/ \E v \in V : v.parked > 0 /\ pots[i] = VoucherPot(k, v)
      /\ CreditPot(k).left > 0 => \E i \in D : pots[i] = CreditPot(k)
      /\ \A v \in V : v.parked > 0 /\ v.date <= MaxDay /\ VoucherPot(k, v).left > 0
                        => \E i \in D : pots[i] = VoucherPot(k, v)
  <2> HIDE DEF AdvancePending
  <2> QED  BY <1>1, PotsOf DEF Accounted
<1>5. rest \in Nat
  BY <1>1 DEF NotNegative, Highest
<1>6. \A fund : In(k.paid, From(fund)) \in Nat
  BY <1>1, InNatural
<1>7. CreditPot(k).fund = Credit /\ CreditPot(k).left = rest - In(k.paid, From(Credit))
  <2>1. CreditPot(k).fund = Credit /\ CreditPot(k).left = NotNegative(rest - In(k.paid, From(Credit)))
    <3> HIDE DEF rest
    <3>1. LET pot == Pot(k, Credit, NoVoucher, rest)
          IN  pot.fund = Credit /\ pot.left = NotNegative(rest - In(k.paid, From(Credit)))
      BY <1>5, PotIs
    <3> QED  BY <3>1 DEF CreditPot, rest
  <2>2. In(k.paid, From(Credit)) <= rest
    BY DEF Accounted, Backed
  <2> HIDE DEF rest
  <2> QED  BY <1>5, <1>6, <2>1, <2>2 DEF NotNegative, Highest
<1>8. ASSUME NEW v \in V, v.parked > 0
      PROVE  VoucherPot(k, v).fund = v.adv /\ VoucherPot(k, v).left = v.parked - In(k.paid, From(v.adv))
  <2> DEFINE n == v.parked
             a == v.adv
             o == OwnerOf(k, a)
  <2>1. n \in Nat /\ In(k.paid, From(a)) \in Nat /\ In(k.paid, From(a)) <= n
    BY <1>2, <1>6, <1>8 DEF Accounted, Backed
  <2>2. VoucherPot(k, v) = Pot(k, a, o, n)
    BY DEF VoucherPot
  <2> HIDE DEF n, a, o
  <2>3. VoucherPot(k, v).fund = a /\ VoucherPot(k, v).left = NotNegative(n - In(k.paid, From(a)))
    BY <2>1, <2>2, PotIs
  <2>4. VoucherPot(k, v).fund = a /\ VoucherPot(k, v).left = n - In(k.paid, From(a))
    BY <2>1, <2>3 DEF NotNegative, Highest
  <2> QED  BY <2>4 DEF n, a
<1> HIDE DEF rest, pots
<1>9. \A i \in D : f[i] = pots[i].left /\ f[i] \in Int /\ pots[i].fund \in Int
  <2>1. \A i \in D : pots[i] \in PotSet
    BY <1>4
  <2> QED  BY <2>1 DEF PotSet
<1>10. Summable(f, D) /\ OnAccount(k) = SumOf(f, D)
  <2>1. \A i \in DOMAIN pots : f[i] = pots[i].left
    OBVIOUS
  <2>2. Left(pots) = OnAccount(k)
    BY DEF OnAccount, pots
  <2> HIDE DEF f
  <2> QED  BY <1>4, <2>1, <2>2, LeftIs
<1>11. \A i, j \in D : pots[i].fund = pots[j].fund => i = j
  BY <1>4 DEF Apart
<1>12. SumOf(f, {}) = 0 /\ \A i \in D : SumOf(f, {i}) = f[i]
  <2>1. \A i \in D : SumOf(f, {i}) = f[i]
    <3> HIDE DEF f
    <3> QED  BY <1>9, SumSingle
  <2>2. Summable(f, {})
    BY FS_EmptySet DEF Summable
  <2>3. SumOf(f, {}) = 0
    BY <2>2, SumOne
  <2> QED  BY <2>1, <2>3
<1>13. SumOf(f, G) = rest - In(k.paid, From(Credit))
  <2>1. CASE \E i \in D : pots[i].fund = Credit
    <3>1. PICK i \in D : pots[i].fund = Credit
      BY <2>1
    <3>2. G = {i}
      BY <1>11, <3>1
    <3>3. pots[i] = CreditPot(k)
      <4>1. \A v \in V : v.parked > 0 => VoucherPot(k, v).fund # Credit
        BY <1>2, <1>8 DEF Credit
      <4> QED  BY <1>4, <3>1, <4>1
    <3>4. f[i] = rest - In(k.paid, From(Credit))
      BY <1>7, <1>9, <3>3
    <3> HIDE DEF f, G
    <3> QED  BY <1>12, <3>2, <3>4
  <2>2. CASE \A i \in D : pots[i].fund # Credit
    <3>1. G = {}
      BY <2>2
    <3>2. ~(CreditPot(k).left > 0)
      BY <1>4, <1>7, <2>2
    <3>3. In(k.paid, From(Credit)) <= rest
      BY DEF Accounted, Backed, rest
    <3>4. rest - In(k.paid, From(Credit)) = 0
      BY <1>5, <1>6, <1>7, <3>2, <3>3
    <3> HIDE DEF f, G
    <3> QED  BY <1>12, <3>1, <3>4
  <2> QED  BY <2>1, <2>2
<1>14. ASSUME NEW v \in V  PROVE F[v] \in SUBSET D /\ h[v] = SumOf(f, F[v])
  <2>1. CASE ~(v.parked > 0)
    <3>1. F[v] = {} /\ h[v] = 0
      BY <2>1 DEF LeftOf
    <3> HIDE DEF f, F, h
    <3> QED  BY <1>12, <3>1
  <2>2. CASE v.parked > 0 /\ \E i \in D : pots[i].fund = v.adv
    <3>1. PICK i \in D : pots[i].fund = v.adv
      BY <2>2
    <3>2. F[v] = {i}
      BY <1>11, <2>2, <3>1
    <3>3. pots[i] = VoucherPot(k, v)
      <4>1. CreditPot(k).fund # v.adv
        BY <1>2, <1>7 DEF Credit
      <4>2. \A w \in V : w.parked > 0 /\ VoucherPot(k, w).fund = v.adv => w = v
        BY <1>3, <1>8
      <4> QED  BY <1>4, <3>1, <4>1, <4>2
    <3>4. f[i] = v.parked - In(k.paid, From(v.adv))
      BY <1>8, <1>9, <2>2, <3>3
    <3>5. h[v] = v.parked - In(k.paid, From(v.adv))
      BY <2>2 DEF LeftOf
    <3> HIDE DEF f, F, h
    <3> QED  BY <1>12, <3>2, <3>4, <3>5
  <2>3. CASE v.parked > 0 /\ \A i \in D : pots[i].fund # v.adv
    <3>1. F[v] = {}
      BY <2>3
    <3>2. ~(VoucherPot(k, v).left > 0)
      BY <1>2, <1>4, <1>8, <2>3
    <3>3. In(k.paid, From(v.adv)) <= v.parked
      BY <2>3 DEF Accounted, Backed
    <3>4. v.parked - In(k.paid, From(v.adv)) = 0
      BY <1>2, <1>6, <1>8, <2>3, <3>2, <3>3
    <3>5. h[v] = 0
      BY <2>3, <3>4 DEF LeftOf
    <3> HIDE DEF f, F, h
    <3> QED  BY <1>12, <3>1, <3>5
  <2> QED  BY <2>1, <2>2, <2>3
<1>15. \A v, w \in V : v # w => F[v] \cap F[w] = {}
  BY <1>3
<1>16. UNION {F[v] : v \in V} = D \ G
  <2>1. ASSUME NEW i \in D \ G  PROVE \E v \in V : i \in F[v]
    <3>1. PICK v \in V : v.parked > 0 /\ pots[i] = VoucherPot(k, v)
      BY <1>4, <1>7
    <3> QED  BY <1>8, <3>1
  <2>2. ASSUME NEW v \in V, NEW i \in F[v]  PROVE i \in D \ G
    BY <1>2 DEF Credit
  <2> HIDE DEF F, G
  <2> QED  BY <2>1, <2>2
<1>17. G \in SUBSET D /\ D \ G \in SUBSET D /\ G \cap (D \ G) = {} /\ G \cup (D \ G) = D
  OBVIOUS
<1> HIDE DEF f, F, G, h, D, V
<1>18. Summable(h, V) /\ SumOf(f, D \ G) = SumOf(h, V)
  BY <1>1, <1>10, <1>14, <1>15, <1>16, SumByParts
<1>19. SumOf(f, D) = SumOf(f, G) + SumOf(f, D \ G)
  BY <1>10, <1>17, SumApart
<1>20. OnAccount(k) = rest - In(k.paid, From(Credit)) + SumOf(h, V)
  BY <1>10, <1>13, <1>18, <1>19
<1> QED  BY <1>18, <1>20 DEF h, V, rest

(* What is accounted for, in the words of the property. *)
LEMMA AccountedSays ==
  ASSUME NEW k \in Books, Accounted(k)
  PROVE  MapThenSumSet(LAMBDA r : r.amt, ToSet(k.vouchers)) + NotNegative(-k.opening)
           = Cleared(k) + Total(k, LAMBDA e : TRUE) + OnAccount(k)
<1> DEFINE V == ToSet(k.vouchers)
           p == k.paid
           D == DOMAIN p
           cash == [v \in V |-> In(p, CashBy(v.no))]
           spent == [v \in V |-> SpentFrom(k, v)]
           idle == [v \in V |-> LeftOf(k, v)]
           paid == [v \in V |-> cash[v] + spent[v]]
           gone == [v \in V |-> Dues[v] + paid[v]]
           there == [v \in V |-> gone[v] + idle[v]]
           C == {e \in D : e.fund = Cash}
           O == {e \in D : e.fund = Credit}
           A == {e \in D : e.fund # Cash /\ e.fund # Credit}
<1>1. p \in Purse /\ IsFiniteSet(V) /\ V \subseteq Voucher /\ k.opening \in Int
  BY ClearedIs DEF Books
<1>2. Summable(p, D) /\ SumOf(p, D) \in Int
  BY <1>1, PurseSums
<1>3. Summable(VoucherAmounts, V) /\ MapThenSumSet(LAMBDA r : r.amt, V) = SumOf(VoucherAmounts, V)
  BY AmountsAre
<1>4. Summable(Dues, V) /\ Cleared(k) = SumOf(Dues, V)
  BY ClearedIs
<1>5. Summable(cash, V) /\ In(p, From(Cash)) = SumOf(cash, V)
  BY CashSums
<1>6. Summable(spent, V) /\ SumOf(p, A) = SumOf(spent, V)
  BY FundSums
<1>7. Summable(idle, V) /\ OnAccount(k) = NotNegative(-k.opening) - In(p, From(Credit)) + SumOf(idle, V)
  BY LeftSums
<1>8. Total(k, LAMBDA e : TRUE) = SumOf(p, D)
  <2>1. Total(k, LAMBDA e : TRUE) = SumOf(p, {e \in D : TRUE})
    BY Zenon DEF Total, SumOf
  <2>2. {e \in D : TRUE} = D
    OBVIOUS
  <2> QED  BY <2>1, <2>2
<1>9. In(p, From(Cash)) = SumOf(p, C) /\ In(p, From(Credit)) = SumOf(p, O)
  <2>1. {e \in D : e \in From(Cash)} = C /\ {e \in D : e \in From(Credit)} = O
    BY <1>1, PurseIs DEF From
  <2> HIDE DEF C, O, D
  <2> QED  BY <2>1 DEF In, D
<1>10. SumOf(p, D) = SumOf(p, C) + (SumOf(p, O) + SumOf(p, A))
  <2>1. /\ C \in SUBSET D /\ O \in SUBSET D /\ A \in SUBSET D /\ O \cup A \in SUBSET D
        /\ O \cap A = {} /\ C \cap (O \cup A) = {} /\ C \cup (O \cup A) = D
    BY DEF Cash, Credit
  <2> HIDE DEF C, O, A, D, p
  <2>2. SumOf(p, O \cup A) = SumOf(p, O) + SumOf(p, A)
    BY <1>2, <2>1, SumApart
  <2>3. SumOf(p, C \cup (O \cup A)) = SumOf(p, C) + SumOf(p, O \cup A)
    BY <1>2, <2>1, SumApart
  <2> QED  BY <2>1, <2>2, <2>3
<1>11. /\ \A v \in V : paid[v] = cash[v] + spent[v]
       /\ \A v \in V : gone[v] = Dues[v] + paid[v]
       /\ \A v \in V : there[v] = gone[v] + idle[v]
  OBVIOUS
<1>12. ASSUME NEW v \in V  PROVE there[v] = VoucherAmounts[v]
  <2>1. VoucherAmounts[v] = v.amt /\ Dues[v] = v.cleared
    BY <1>1 DEF VoucherAmounts, Dues
  <2>2. v.amt \in Nat /\ v.cleared \in Nat /\ v.parked \in Nat
    BY VouchersAre
  <2>3. cash[v] \in Nat /\ In(p, From(v.adv)) \in Nat
    BY <1>1, InNatural
  <2>4. v.amt = v.cleared + cash[v] + v.parked
    BY DEF Accounted, Backed
  <2>5. spent[v] = (IF v.parked > 0 THEN In(p, From(v.adv)) ELSE 0)
        /\ idle[v] = (IF v.parked > 0 THEN v.parked - In(p, From(v.adv)) ELSE 0)
    BY DEF SpentFrom, LeftOf
  <2>6. there[v] = (Dues[v] + (cash[v] + spent[v])) + idle[v]
    BY <1>11
  <2> HIDE DEF there, cash, spent, idle, p
  <2> QED  BY <2>1, <2>2, <2>3, <2>4, <2>5, <2>6
<1> HIDE DEF cash, spent, idle, paid, gone, there, C, O, A, D, p, V
<1>13. Summable(paid, V) /\ SumOf(paid, V) = SumOf(cash, V) + SumOf(spent, V)
  <2>1. Summable(paid, V)
    BY <1>5, <1>6, <1>11 DEF Summable
  <2> QED  BY <1>5, <1>6, <1>11, <2>1, SumOfBoth
<1>14. Summable(gone, V) /\ SumOf(gone, V) = SumOf(Dues, V) + SumOf(paid, V)
  <2>1. Summable(gone, V)
    BY <1>4, <1>11, <1>13 DEF Summable
  <2> QED  BY <1>4, <1>11, <1>13, <2>1, SumOfBoth
<1>15. SumOf(there, V) = SumOf(gone, V) + SumOf(idle, V)
  BY <1>7, <1>11, <1>14, SumOfBoth
<1>16. SumOf(VoucherAmounts, V) = SumOf(there, V)
  <2>1. \A v \in V : VoucherAmounts[v] \in Int
    BY <1>3 DEF Summable
  <2> QED  BY <1>1, <1>12, <2>1, SumAgrees
<1>17. /\ SumOf(VoucherAmounts, V) \in Int /\ SumOf(Dues, V) \in Int /\ SumOf(cash, V) \in Int
       /\ SumOf(spent, V) \in Int /\ SumOf(idle, V) \in Int
  BY <1>3, <1>4, <1>5, <1>6, <1>7, SumOne
<1>18. SumOf(VoucherAmounts, V) = SumOf(Dues, V) + (SumOf(cash, V) + SumOf(spent, V)) + SumOf(idle, V)
  BY <1>13, <1>14, <1>15, <1>16
<1>19. In(p, From(Credit)) \in Int /\ NotNegative(-k.opening) \in Int
  BY <1>1, InNatural DEF NotNegative, Highest
<1>20. SumOf(p, D) = SumOf(cash, V) + (In(p, From(Credit)) + SumOf(spent, V))
  BY <1>5, <1>6, <1>9, <1>10
<1> DEFINE all == MapThenSumSet(LAMBDA r : r.amt, V)
           total == Total(k, LAMBDA e : TRUE)
           credit == NotNegative(-k.opening)
<1>21. all = SumOf(VoucherAmounts, V) /\ total = SumOf(p, D)
  BY <1>3, <1>8
<1> HIDE DEF all, total, credit
<1>22. OnAccount(k) = credit - In(p, From(Credit)) + SumOf(idle, V) /\ credit \in Int
  BY <1>7, <1>19 DEF credit
<1>23. all + credit = Cleared(k) + total + OnAccount(k)
  BY <1>4, <1>17, <1>18, <1>19, <1>20, <1>21, <1>22
<1> QED  BY <1>23 DEF all, total, credit, V

(* Where nothing is entered yet, all is. *)
LEMMA UnpaidIsAccounted ==
  ASSUME Unpaid
  PROVE  books \in Books /\ AtRest(books)
<1>1. books \in Books /\ books.vouchers = <<>> /\ books.paid = EmptyBag /\ DOMAIN <<>> = {}
  BY DEF Unpaid
<1>2. ToSet(books.vouchers) = {} /\ IsInjective(books.vouchers)
  BY <1>1 DEF ToSet, IsInjective
<1>3. In(books.paid, From(Credit)) = 0 /\ DOMAIN books.paid = {}
  <2>1. EmptyBag \in Purse /\ DOMAIN EmptyBag = {}
    BY NoRupees
  <2>2. In(EmptyBag, From(Credit)) = 0
    BY <2>1, InNatural
  <2> QED  BY <1>1, <2>1, <2>2
<1>4. 0 <= NotNegative(-books.opening)
  <2>1. books.opening \in Int
    BY <1>1 DEF Books
  <2> QED  BY <2>1 DEF NotNegative, Highest
<1> QED  BY <1>1, <1>2, <1>3, <1>4 DEF AtRest, Accounted, Numbered, Backed

(* Receipts, bills and opening balances leave all money accounted for. *)
LEMMA ReceiptsAccounted ==
  ASSUME OthersPark, books \in Books, AtRest(books), ReceiptsNext
  PROVE  books' \in Books /\ AtRest(books')
<1> DEFINE Goal == books' \in Books /\ AtRest(books')
<1> SUFFICES Goal
  OBVIOUS
<1>1. CASE TypeReceipt
  <2>1. PICK day \in Days, amt \in ReceiptAmounts, how \in {"AUTOMATIC", "ADVANCE"} : Save(day, amt, how, <<>>)
    BY <1>1 DEF TypeReceipt
  <2>2. how \in Modes
    BY <2>1, Zenon DEF Modes
  <2>3. <<>> \in Seq(Bills) /\ IsInjective(<<>>)
    <3>1. <<>> \in Seq(Bills) /\ DOMAIN <<>> = {}
      OBVIOUS
    <3> QED  BY <3>1, Zenon DEF IsInjective
  <2> QED  BY <2>1, <2>2, <2>3, SaveAccounted
<1>2. CASE NameBills
  <2>1. PICK day \in Days, amt \in ReceiptAmounts, ticked \in {t \in Ticks : IsInjective(t)} :
               Save(day, amt, Against, ticked)
    BY <1>2 DEF NameBills
  <2>2. Against \in Modes
    BY Zenon DEF Modes
  <2>3. ticked \in Seq(Bills)
    <3>1. PICK n \in 1..NBills : ticked \in [1..n -> Bills]
      BY DEF Ticks
    <3>2. n \in Nat
      BY ReceiptsAssumption
    <3> QED  BY <3>1, <3>2
  <2> QED  BY <2>1, <2>2, <2>3, SaveAccounted
<1>3. CASE CorrectReceipts
  <2>1. CASE \E i \in DOMAIN Receipts(books), day \in Days, amt \in ReceiptAmounts : EditReceipt(i, day, amt)
    BY <2>1, EditAccounted
  <2>2. CASE \E is \in SUBSET DOMAIN Receipts(books) \ {{}} : DeleteReceipts(is)
    BY <2>2, DeleteAccounted
  <2> QED  BY <1>3, <2>1, <2>2 DEF CorrectReceipts
<1>4. CASE ChangeWhatIsOwed
  <2>1. ASSUME NEW amt \in Openings, SaveOpening(amt)  PROVE Goal
    <3>1. amt \in Int
      BY ReceiptsAssumption
    <3> QED  BY <2>1, <3>1, OpeningAccounted
  <2>2. ASSUME NEW b \in Bills, NEW day \in Days, NEW amt \in BillAmounts, NEW answer \in Answers,
               SaveBill(b, day, amt, answer)
        PROVE  Goal
    BY <2>2, SaveBillAccounted
  <2>3. ASSUME NEW b \in Bills, NEW after \in {NoBill, [books.bills[b] EXCEPT !.on = FALSE]}, DropBill(b, after)
        PROVE  Goal
    BY <2>3, DropBillAccounted
  <2> HIDE DEF Goal
  <2> QED  BY <1>4, <2>1, <2>2, <2>3, Zenon DEF ChangeWhatIsOwed
<1> QED  BY <1>1, <1>2, <1>3, <1>4 DEF ReceiptsNext

(* So do credit and debit notes. *)
LEMMA NotesAccounted ==
  ASSUME OthersPark, books \in Books, AtRest(books), NoteNext
  PROVE  books' \in Books /\ AtRest(books')
<1> DEFINE Goal == books' \in Books /\ AtRest(books')
<1> SUFFICES Goal
  OBVIOUS
<1>1. ASSUME NEW day \in Days, NEW amt \in NoteAmounts, NEW ref \in {<<>>} \cup {<<b>> : b \in Bills},
             SaveCreditNote(books.lastNo + 1, day, amt, ref)
      PROVE  Goal
  <2> DEFINE no == books.lastNo + 1
  <2>1. no \in Nat /\ no = books.lastNo + 1 /\ SaveCreditNote(no, day, amt, ref)
    BY <1>1 DEF Books
  <2> HIDE DEF no
  <2> QED  BY <2>1, SaveNoteAccounted
<1>2. ASSUME NEW day \in Days, NEW amt \in NoteAmounts, NEW ref \in {<<>>} \cup {<<b>> : b \in Bills},
             NEW note \in CreditNotes(books), SaveCreditNote(note.no, day, amt, ref)
      PROVE  Goal
  <2> DEFINE no == note.no
  <2>1. note \in Voucher
    BY ClearedIs DEF CreditNotes
  <2>2. no \in Nat /\ SaveCreditNote(no, day, amt, ref) /\ \E v \in CreditNotes(books) : v.no = no
    BY <1>2, <2>1 DEF Voucher
  <2> HIDE DEF no
  <2> QED  BY <2>2, SaveNoteAccounted
<1>3. ASSUME NEW note \in CreditNotes(books), RemoveCreditNote(note)
      PROVE  Goal
  BY <1>3, RemoveNoteAccounted
<1>4. ASSUME NEW b \in Bills, NEW day \in Days, NEW amt \in NoteAmounts, NEW answer \in Answers,
             SaveDebitNote(b, day, amt, answer)
      PROVE  Goal
  BY <1>4, SaveDebitAccounted
<1>5. ASSUME NEW b \in Bills, RemoveDebitNote(b)
      PROVE  Goal
  BY <1>5, RemoveDebitAccounted
<1> HIDE DEF Goal
<1>6. CASE CreditNext
  BY <1>1, <1>2, <1>3, <1>6, Zenon DEF CreditNext
<1>7. CASE DebitNext
  BY <1>4, <1>5, <1>7, Zenon DEF DebitNext
<1> QED  BY <1>6, <1>7 DEF NoteNext

(* Every rupee received, and every rupee a CREDIT opening stands for, has   *)
(* cleared the opening balance, has paid a bill or is on account, whatever  *)
(* receipts, bills, opening balances, credit and debit notes are entered,   *)
(* changed and removed, over whatever bills and opening balance it starts   *)
(* from: taking a chain of receipts out and settling it again              *)
(* (reverseChain, replayInOrder) neither loses money nor spends it twice.   *)
(* It is assumed that other parties keep parking money, so that a number    *)
(* given to an advance (nextRefId) is never given again once it is free.    *)
THEOREM NoMoneyIsLost ==
  ASSUME OthersPark
  PROVE  Unpaid /\ [][ReceiptsNext \/ NoteNext]_books => []MoneyIsAccountedFor
<1> DEFINE Inv == books \in Books /\ AtRest(books)
<1>1. Unpaid => Inv
  BY UnpaidIsAccounted
<1>2. Inv /\ [ReceiptsNext \/ NoteNext]_books => Inv'
  <2> SUFFICES ASSUME books \in Books, AtRest(books), [ReceiptsNext \/ NoteNext]_books
               PROVE  books' \in Books /\ AtRest(books')
    OBVIOUS
  <2>1. CASE ReceiptsNext
    BY <2>1, ReceiptsAccounted
  <2>2. CASE NoteNext
    BY <2>2, NotesAccounted
  <2>3. CASE UNCHANGED books
    BY <2>3
  <2> QED  BY <2>1, <2>2, <2>3
<1>3. Inv => MoneyIsAccountedFor
  <2> SUFFICES ASSUME Inv PROVE MoneyIsAccountedFor
    OBVIOUS
  <2>1. Accounted(books)
    BY DEF AtRest
  <2> QED  BY <2>1, AccountedSays DEF MoneyIsAccountedFor
<1> QED  BY <1>1, <1>2, <1>3, PTL
=============================================================================
