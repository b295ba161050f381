-------------------------- MODULE Settlement_proofs --------------------------
(***************************************************************************)
(* Theorems about Settlement, for any invoices, settlements, cheques and   *)
(* requests, where the duties that must not run beside each other are on   *)
(* one desk.                                                               *)
(***************************************************************************)
EXTENDS Settlement, Sums, TLAPS

Drafted == [status: {"DRAFT", "PAID", "CANCELLED"}, paidAt: BOOLEAN, share: Shares,
            qty: [Invoices -> 0..MaxQty], covers: SUBSET Covers,
            bounces: SUBSET Cheques]

OnSettlement == {"figures", "settled", "shares", "bounces", "payout", "cancel"}
OnCheque == {"bounce", "mark", "unbounce", "deposit", "clear", "return", "remove"}

(* What a request has read, by the place where it is.  What it has read of *)
(* the settled shares is a sum, which RequestStates below bounds. *)
ReadsFit(r) ==
  LET at == req[r].at
  IN
  req[r] # NoRequest =>
    /\ at \in {"draft", "cover", "recover", "rebuild", "erase", "write"}
              \cup OnSettlement \cup OnCheque
    /\ at = "draft" => req[r].draft \in Drafts
    /\ at \in OnSettlement => req[r].s \in Settlements
    /\ at \in {"cover", "recover"} => req[r].c \in Covers
    /\ at \in OnCheque => req[r].k \in Cheques
    /\ at \in {"rebuild", "erase", "write"} => req[r].i \in Invoices
    /\ at \in {"erase", "write"} => req[r].q \in 0..MaxQty

Shapes ==
  /\ qty \in [Invoices -> 0..MaxQty]
  /\ accrual \in [Invoices -> 0..MaxQty]
  /\ collected \in [Invoices -> 0..Parts]
  /\ settlement \in [Settlements -> {Unused} \cup Drafted]
  /\ cover \in [Covers -> {"none", "OPEN", "RECOVERED"}]
  /\ cheque \in [Cheques -> {"PENDING", "DEPOSITED", "CLEARED", "BOUNCED", "DELETED"}]
  /\ bounce \in [Cheques -> {"none", "new", "recorded", "deleted"}]
  /\ DOMAIN req = Requests
  /\ \A r \in Requests : ReadsFit(r)

(* A request that pays or cancels works on a settlement that was drafted. *)
DraftedFirst ==
  \A r \in Requests :
    req[r] # NoRequest /\ req[r].at \in OnSettlement => settlement[req[r].s] \in Drafted

Shaped == Shapes /\ DraftedFirst

-----------------------------------------------------------------------------
(* What the steps of each kind do; every step of a request changes no      *)
(* other request. *)

Others(r) == DOMAIN req' = Requests /\ \A q \in Requests \ {r} : req'[q] = req[q]

(* One request goes on, ends or stays. *)
LEMMA GoIs ==
  ASSUME Shapes, NEW r \in Requests, NEW state, Go(r, state)
  PROVE  Others(r) /\ req'[r] = state
BY DEF Shapes, Go, Others

(* Where the settlements stay as they are, it is enough to look at what    *)
(* the request that steps has read. *)
LEMMA GoFits ==
  ASSUME Shaped, NEW r \in Requests, Others(r), settlement' = settlement,
         ReadsFit(r)',
         req'[r] # NoRequest /\ req'[r].at \in OnSettlement
           => settlement[req'[r].s] \in Drafted
  PROVE  /\ DOMAIN req' = Requests /\ \A q \in Requests : ReadsFit(q)'
         /\ DraftedFirst'
BY DEF Shaped, Shapes, Others, ReadsFit, DraftedFirst

(* The same where settlements that were drafted stay drafted. *)
LEMMA FinishFits ==
  ASSUME Shaped, NEW r \in Requests, Finish(r),
         \A s \in Settlements : settlement[s] \in Drafted => settlement'[s] \in Drafted
  PROVE  /\ DOMAIN req' = Requests /\ \A q \in Requests : ReadsFit(q)'
         /\ DraftedFirst'
<1>1. Others(r) /\ req'[r] = NoRequest
  BY GoIs DEF Shaped, Finish
<1> QED  BY <1>1 DEF Shaped, Shapes, Others, ReadsFit, DraftedFirst

(* A settlement with a status is a draft, or was one. *)
LEMMA StatusOf ==
  ASSUME Shaped, NEW s \in Settlements
  PROVE  /\ settlement[s] \in {Unused} \cup Drafted
         /\ settlement[s].status # "UNUSED" <=> settlement[s] \in Drafted
BY DEF Shaped, Shapes, Unused, Drafted

(* Steps that only read for a settlement. *)
LEMMA ReadsForSettlement ==
  ASSUME Shaped, NEW r \in Requests,
         \/ \E s \in Settlements : StartPay(r, s) \/ ReadCancel(r, s)
         \/ CheckFigures(r) \/ ReadSettled(r) \/ CheckShares(r) \/ CheckBounces(r)
  PROVE  /\ UNCHANGED <<bills, settlement, cover, cheques>>
         /\ Others(r) /\ req'[r] # NoRequest /\ req'[r].at \in OnSettlement
         /\ req'[r].s \in Settlements /\ settlement[req'[r].s] \in Drafted
         /\ Shaped'
<1>0. Shapes /\ DraftedFirst /\ ReadsFit(r)
  BY DEF Shaped, Shapes
<1>1. UNCHANGED <<bills, settlement, cover, cheques>>
  BY DEF StartPay, ReadCancel, CheckFigures, ReadSettled, CheckShares, CheckBounces
<1>2. ASSUME NEW s \in Settlements, StartPay(r, s) \/ ReadCancel(r, s)
      PROVE  /\ Others(r) /\ req'[r] # NoRequest /\ req'[r].at \in OnSettlement
             /\ req'[r].s \in Settlements /\ settlement[req'[r].s] \in Drafted
  <2>1. settlement[s] \in Drafted
    BY <1>2, StatusOf DEF StartPay, ReadCancel, Is
  <2>2. PICK at \in {"figures", "cancel"} : Go(r, [at |-> at, s |-> s])
    BY <1>2 DEF StartPay, ReadCancel
  <2> QED  BY <1>0, <2>1, <2>2, GoIs DEF NoRequest, OnSettlement
<1>3. ASSUME CheckFigures(r) \/ ReadSettled(r) \/ CheckShares(r) \/ CheckBounces(r)
      PROVE  /\ Others(r) /\ req'[r] # NoRequest /\ req'[r].at \in OnSettlement
             /\ req'[r].s \in Settlements /\ settlement[req'[r].s] \in Drafted
  <2>1. req[r] # NoRequest /\ req[r].at \in OnSettlement
    BY <1>3 DEF CheckFigures, ReadSettled, CheckShares, CheckBounces, Resume, OnSettlement
  <2>2. req[r].s \in Settlements /\ settlement[req[r].s] \in Drafted
    BY <1>0, <2>1 DEF ReadsFit, DraftedFirst
  <2>3. \/ \E at \in {"settled", "bounces", "payout"} : Go(r, [at |-> at, s |-> req[r].s])
        \/ Go(r, [at |-> "shares", s |-> req[r].s,
                  done |-> [i \in Invoices |-> Settled(i)]])
    BY <1>3, Zenon DEF CheckFigures, ReadSettled, CheckShares, CheckBounces
  <2> QED  BY <1>0, <2>2, <2>3, GoIs DEF NoRequest, OnSettlement
<1>4. /\ Others(r) /\ req'[r] # NoRequest /\ req'[r].at \in OnSettlement
      /\ req'[r].s \in Settlements /\ settlement[req'[r].s] \in Drafted
  BY <1>2, <1>3
<1>5. ReadsFit(r)'
  BY <1>1, <1>4 DEF ReadsFit, OnSettlement, OnCheque
<1>6. DOMAIN req' = Requests /\ (\A q \in Requests : ReadsFit(q)') /\ DraftedFirst'
  BY <1>1, <1>4, <1>5, GoFits
<1> QED  BY <1>0, <1>1, <1>4, <1>6 DEF Shaped, Shapes, bills, cheques

(* Making, paying and cancelling a draft. *)
LEMMA SettlementShapes ==
  ASSUME Shaped, NEW r \in Requests, SettlementStep(r)
  PROVE  Shaped'
<1>0. Shapes /\ DraftedFirst /\ ReadsFit(r)
  BY DEF Shaped, Shapes
<1>1. ASSUME NEW share \in Shares, NEW cs \in SUBSET Covers, NEW ks \in SUBSET Cheques,
             VerifyDraft(r, share, cs, ks)
      PROVE  Shaped'
  <2> DEFINE state == [at |-> "draft",
                       draft |-> [share |-> share, qty |-> accrual, covers |-> cs,
                                  bounces |-> ks]]
  <2>1. UNCHANGED <<settlement, cover, bills, cheques>> /\ Go(r, state)
    BY <1>1 DEF VerifyDraft
  <2>2. Others(r) /\ req'[r] = state
    BY <1>0, <2>1, GoIs
  <2>3. state.draft \in Drafts
    BY <1>0 DEF Drafts, Shapes
  <2>4. ReadsFit(r)'
    BY <2>2, <2>3 DEF ReadsFit, OnSettlement, OnCheque
  <2>5. DOMAIN req' = Requests /\ (\A q \in Requests : ReadsFit(q)') /\ DraftedFirst'
    BY <2>1, <2>2, <2>4, GoFits DEF OnSettlement
  <2> QED  BY <1>0, <2>1, <2>5 DEF Shaped, Shapes, bills, cheques
<1>2. ASSUME NEW s \in Settlements, SaveDraft(r, s)
      PROVE  Shaped'
  <2> DEFINE d == req[r].draft
             new == [status |-> "DRAFT", paidAt |-> FALSE, share |-> d.share,
                     qty |-> d.qty, covers |-> d.covers, bounces |-> d.bounces]
  <2>1. /\ req[r] # NoRequest /\ req[r].at = "draft" /\ Finish(r)
        /\ settlement' = [settlement EXCEPT ![s] = new]
        /\ UNCHANGED <<bills, cover, cheques>>
    BY <1>2 DEF SaveDraft, Resume
  <2>2. d \in Drafts
    BY <1>0, <2>1 DEF ReadsFit
  <2>3. new \in Drafted
    BY <2>2 DEF Drafts, Drafted
  <2>4. /\ settlement' \in [Settlements -> {Unused} \cup Drafted]
        /\ \A t \in Settlements : settlement[t] \in Drafted => settlement'[t] \in Drafted
    BY <1>0, <2>1, <2>3 DEF Shapes
  <2> QED  BY <1>0, <2>1, <2>4, FinishFits DEF Shaped, Shapes, bills, cheques
<1>3. CASE PayOut(r) \/ WriteCancel(r)
  <2> DEFINE s == req[r].s
  <2>1. /\ req[r] # NoRequest /\ req[r].at \in OnSettlement /\ Finish(r)
        /\ UNCHANGED <<bills, cheques>>
    BY <1>3 DEF PayOut, WriteCancel, Resume, OnSettlement
  <2>2. s \in Settlements /\ settlement[s] \in Drafted
    BY <1>0, <2>1 DEF ReadsFit, DraftedFirst
  <2>3. PICK new \in Drafted : settlement' = [settlement EXCEPT ![s] = new]
    <3>1. CASE PayOut(r)
      <4>1. settlement' = [settlement EXCEPT
                             ![s] = [settlement[s] EXCEPT !.status = "PAID", !.paidAt = TRUE]]
        BY <3>1 DEF PayOut
      <4>2. [settlement[s] EXCEPT !.status = "PAID", !.paidAt = TRUE] \in Drafted
        BY <2>2 DEF Drafted
      <4> QED  BY <4>1, <4>2
    <3>2. CASE WriteCancel(r)
      <4>1. settlement' = [settlement EXCEPT
                             ![s] = [settlement[s] EXCEPT !.status = "CANCELLED"]]
        BY <3>2 DEF WriteCancel
      <4>2. [settlement[s] EXCEPT !.status = "CANCELLED"] \in Drafted
        BY <2>2 DEF Drafted
      <4> QED  BY <4>1, <4>2
    <3> QED  BY <1>3, <3>1, <3>2
  <2>4. /\ settlement' \in [Settlements -> {Unused} \cup Drafted]
        /\ \A t \in Settlements : settlement[t] \in Drafted => settlement'[t] \in Drafted
    BY <1>0, <2>2, <2>3 DEF Shapes
  <2>5. cover' \in [Covers -> {"none", "OPEN", "RECOVERED"}]
    BY <1>0, <1>3 DEF PayOut, WriteCancel, Shapes
  <2> QED  BY <1>0, <2>1, <2>4, <2>5, FinishFits DEF Shaped, Shapes, bills, cheques
<1> QED  BY <1>1, <1>2, <1>3, ReadsForSettlement, Zenon DEF SettlementStep

(* A step that leaves the settlements alone. *)
LEMMA AsideFits ==
  ASSUME Shaped, NEW r \in Requests, NEW state, Go(r, state), settlement' = settlement,
         state # NoRequest => state.at \notin OnSettlement,
         ReadsFit(r)'
  PROVE  /\ DOMAIN req' = Requests /\ \A q \in Requests : ReadsFit(q)'
         /\ DraftedFirst'
<1>1. Others(r) /\ req'[r] = state
  BY GoIs DEF Shaped
<1> QED  BY <1>1, GoFits

(* Covers and cheques. *)
LEMMA DeductionShapes ==
  ASSUME Shaped, NEW r \in Requests, DeductionStep(r)
  PROVE  Shaped'
<1>0. Shapes /\ DraftedFirst /\ ReadsFit(r)
  BY DEF Shaped, Shapes
<1>1. ASSUME NEW c \in Covers, ReadCover(r, c) \/ ReadRecover(r, c)
      PROVE  Shaped'
  <2>1. PICK at \in {"cover", "recover"} : Go(r, [at |-> at, c |-> c])
    BY <1>1 DEF ReadCover, ReadRecover
  <2>2. UNCHANGED <<bills, settlement, cover, cheques>>
    BY <1>1 DEF ReadCover, ReadRecover
  <2>3. ReadsFit(r)'
    BY <1>0, <2>1, GoIs DEF ReadsFit, OnSettlement, OnCheque
  <2> QED  BY <1>0, <2>1, <2>2, <2>3, AsideFits
              DEF Shaped, Shapes, bills, cheques, OnSettlement
<1>2. CASE WriteCover(r) \/ WriteRecover(r)
  <2>1. Finish(r) /\ UNCHANGED <<bills, settlement, cheques>>
    BY <1>2 DEF WriteCover, WriteRecover
  <2>2. cover' \in [Covers -> {"none", "OPEN", "RECOVERED"}]
    BY <1>0, <1>2 DEF WriteCover, WriteRecover, Shapes
  <2> QED  BY <1>0, <2>1, <2>2, FinishFits DEF Shaped, Shapes, bills, cheques
<1>3. ASSUME NEW k \in Cheques,
             \/ ReadBounce(r, k) \/ ReadUnbounce(r, k)
             \/ \E to \in DOMAIN ChequeStatus : ReadCheque(r, k, to)
      PROVE  Shaped'
  <2>1. PICK at \in OnCheque : Go(r, [at |-> at, k |-> k])
    BY <1>3 DEF ReadBounce, ReadUnbounce, ReadCheque, OnCheque, ChequeStatus
  <2>2. UNCHANGED <<bills, settlement, cover, cheques>>
    BY <1>3 DEF ReadBounce, ReadUnbounce, ReadCheque
  <2>3. ReadsFit(r)'
    BY <1>0, <2>1, GoIs DEF ReadsFit, OnSettlement, OnCheque
  <2> QED  BY <1>0, <2>1, <2>2, <2>3, AsideFits
              DEF Shaped, Shapes, bills, cheques, OnSettlement, OnCheque
<1>4. CASE WriteCheque(r) \/ MarkBounced(r) \/ DeleteBounce(r)
  <2>1. Finish(r) /\ UNCHANGED <<bills, settlement, cover>>
    BY <1>4 DEF WriteCheque, MarkBounced, DeleteBounce
  <2>2. /\ cheque' \in [Cheques -> {"PENDING", "DEPOSITED", "CLEARED", "BOUNCED", "DELETED"}]
        /\ bounce' \in [Cheques -> {"none", "new", "recorded", "deleted"}]
    BY <1>0, <1>4 DEF WriteCheque, MarkBounced, DeleteBounce, ChequeStatus, Shapes
  <2> QED  BY <1>0, <2>1, <2>2, FinishFits DEF Shaped, Shapes, bills
<1>5. CASE WriteBounce(r)
  <2>1. /\ req[r] # NoRequest /\ req[r].at = "bounce"
        /\ Go(r, [at |-> "mark", k |-> req[r].k])
        /\ bounce' = [bounce EXCEPT ![req[r].k] = "new"]
        /\ UNCHANGED <<bills, settlement, cover, cheque>>
    BY <1>5 DEF WriteBounce, Resume
  <2>2. req[r].k \in Cheques
    BY <1>0, <2>1 DEF ReadsFit, OnCheque
  <2>3. ReadsFit(r)'
    BY <1>0, <2>1, <2>2, GoIs DEF ReadsFit, OnSettlement, OnCheque
  <2>4. bounce' \in [Cheques -> {"none", "new", "recorded", "deleted"}]
    BY <1>0, <2>1 DEF Shapes
  <2> QED  BY <1>0, <2>1, <2>3, <2>4, AsideFits DEF Shaped, Shapes, bills, OnSettlement
<1> QED  BY <1>1, <1>2, <1>3, <1>4, <1>5, Zenon DEF DeductionStep

(* Invoices and receipts. *)
LEMMA InvoiceShapes ==
  ASSUME Shaped, NEW r \in Requests, InvoiceStep(r)
  PROVE  Shaped'
<1>0. Shapes /\ DraftedFirst /\ ReadsFit(r)
  BY DEF Shaped, Shapes
<1>1. ASSUME NEW i \in Invoices, NEW n \in 0..Parts, Receive(r, i, n)
      PROVE  Shaped'
  BY <1>0, <1>1 DEF Receive, Shaped, Shapes, cheques, DraftedFirst, ReadsFit
<1>2. ASSUME NEW i \in Invoices, NEW q \in 0..MaxQty, NEW n \in 0..Parts,
             ChangeInvoice(r, i, q, n)
      PROVE  Shaped'
  <2>1. /\ Go(r, [at |-> "rebuild", i |-> i])
        /\ qty' \in [Invoices -> 0..MaxQty] /\ collected' \in [Invoices -> 0..Parts]
        /\ UNCHANGED <<accrual, settlement, cover, cheques>>
    BY <1>0, <1>2 DEF ChangeInvoice, Shapes
  <2>2. ReadsFit(r)'
    BY <1>0, <2>1, GoIs DEF ReadsFit, OnSettlement, OnCheque
  <2> QED  BY <1>0, <2>1, <2>2, AsideFits DEF Shaped, Shapes, cheques, OnSettlement
<1>3. CASE ReadInvoice(r)
  <2> DEFINE q == qty[req[r].i]
  <2>1. /\ req[r] # NoRequest /\ req[r].at = "rebuild"
        /\ Go(r, [at |-> "erase", i |-> req[r].i, q |-> q])
        /\ UNCHANGED <<bills, settlement, cover, cheques>>
    BY <1>3 DEF ReadInvoice, Resume
  <2>2. req[r].i \in Invoices /\ q \in 0..MaxQty
    BY <1>0, <2>1 DEF ReadsFit, Shapes
  <2>3. ReadsFit(r)'
    BY <1>0, <2>1, <2>2, GoIs DEF ReadsFit, OnSettlement, OnCheque
  <2> QED  BY <1>0, <2>1, <2>3, AsideFits DEF Shaped, Shapes, bills, cheques, OnSettlement
<1>4. CASE EraseAccrual(r)
  <2>1. /\ req[r] # NoRequest /\ req[r].at = "erase"
        /\ accrual' = [accrual EXCEPT ![req[r].i] = 0]
        /\ \/ Go(r, NoRequest)
           \/ Go(r, [at |-> "write", i |-> req[r].i, q |-> req[r].q])
        /\ UNCHANGED <<qty, collected, settlement, cover, cheques>>
    BY <1>4, Zenon DEF EraseAccrual, Resume, Finish
  <2>2. req[r].i \in Invoices /\ req[r].q \in 0..MaxQty
    BY <1>0, <2>1 DEF ReadsFit
  <2>3. ReadsFit(r)'
    BY <1>0, <2>1, <2>2, GoIs DEF ReadsFit, OnSettlement, OnCheque
  <2>4. accrual' \in [Invoices -> 0..MaxQty]
    <3>1. 0 \in 0..MaxQty
      BY SettlementAssumption
    <3> QED  BY <1>0, <2>1, <3>1 DEF Shapes
  <2>5. DOMAIN req' = Requests /\ (\A q \in Requests : ReadsFit(q)') /\ DraftedFirst'
    BY <2>1, <2>3, AsideFits DEF OnSettlement
  <2> QED  BY <1>0, <2>1, <2>4, <2>5 DEF Shaped, Shapes, cheques
<1>5. CASE WriteAccrual(r)
  <2>1. /\ req[r] # NoRequest /\ req[r].at = "write" /\ Finish(r)
        /\ accrual' = [accrual EXCEPT ![req[r].i] = req[r].q]
        /\ UNCHANGED <<qty, collected, settlement, cover, cheques>>
    BY <1>5 DEF WriteAccrual, Resume
  <2>2. accrual' \in [Invoices -> 0..MaxQty]
    BY <1>0, <2>1 DEF ReadsFit, Shapes
  <2> QED  BY <1>0, <2>1, <2>2, FinishFits DEF Shaped, Shapes, cheques
<1> QED  BY <1>1, <1>2, <1>3, <1>4, <1>5, Zenon DEF InvoiceStep

(* Every step keeps the shapes. *)
LEMMA ShapesKept ==
  ASSUME Shaped, [AgentNext]_agentVars
  PROVE  Shaped'
<1>1. ASSUME NEW r \in Requests, Drop(r)
      PROVE  Shaped'
  BY <1>1, FinishFits DEF Drop, Shaped, Shapes, bills, cheques
<1>2. CASE UNCHANGED agentVars
  BY <1>2 DEF agentVars, Shaped, Shapes, DraftedFirst, ReadsFit
<1> QED  BY <1>1, <1>2, SettlementShapes, DeductionShapes, InvoiceShapes DEF AgentNext

(* Invoices, settlements, covers and cheques keep their shape, and whoever *)
(* pays or cancels a settlement works on one that was drafted.             *)
(* AgentTypeCorrect below adds what was read of the settled shares. *)
THEOREM AgentShapes == AgentSpec => []Shaped
<1>1. AgentInit => Shaped
  BY SettlementAssumption
     DEF AgentInit, Shaped, Shapes, DraftedFirst, ReadsFit, Unused
<1>2. Shaped /\ [AgentNext]_agentVars => Shaped'
  BY ShapesKept
<1> QED  BY <1>1, <1>2, PTL DEF AgentSpec
-----------------------------------------------------------------------------
(* Where a step leaves the request that takes it, and what it leaves alone. *)

Goes(r, places) ==
  Others(r) /\ (req'[r] = req[r] \/ req'[r] = NoRequest \/ req'[r].at \in places)

(* Drafting, paying and cancelling leave cheques alone. *)
LEMMA SettlementPlaces ==
  ASSUME Shaped, NEW r \in Requests, SettlementStep(r)
  PROVE  Goes(r, {"draft"} \cup OnSettlement) /\ UNCHANGED cheques
<1>1. ASSUME NEW share \in Shares, NEW cs \in SUBSET Covers, NEW ks \in SUBSET Cheques,
             VerifyDraft(r, share, cs, ks)
      PROVE  Goes(r, {"draft"} \cup OnSettlement) /\ UNCHANGED cheques
  BY <1>1, GoIs DEF VerifyDraft, Goes, Shaped
<1>2. ASSUME \/ \E s \in Settlements : SaveDraft(r, s)
             \/ PayOut(r) \/ WriteCancel(r)
      PROVE  Goes(r, {"draft"} \cup OnSettlement) /\ UNCHANGED cheques
  <2>1. Finish(r) /\ UNCHANGED cheques
    BY <1>2 DEF SaveDraft, PayOut, WriteCancel
  <2> QED  BY <2>1, GoIs DEF Finish, Goes, Shaped
<1>3. ASSUME \/ \E s \in Settlements : StartPay(r, s) \/ ReadCancel(r, s)
             \/ CheckFigures(r) \/ ReadSettled(r) \/ CheckShares(r) \/ CheckBounces(r)
      PROVE  Goes(r, {"draft"} \cup OnSettlement) /\ UNCHANGED cheques
  BY <1>3, ReadsForSettlement DEF Goes
<1> QED  BY <1>1, <1>2, <1>3, Zenon DEF SettlementStep

(* Covers and cheques leave settlements alone; covers leave cheques alone. *)
LEMMA DeductionPlaces ==
  ASSUME Shaped, NEW r \in Requests, DeductionStep(r)
  PROVE  Goes(r, {"cover", "recover"} \cup OnCheque) /\ UNCHANGED settlement
<1>1. ASSUME NEW c \in Covers, ReadCover(r, c) \/ ReadRecover(r, c)
      PROVE  Goes(r, {"cover", "recover"} \cup OnCheque) /\ UNCHANGED settlement
  <2>1. PICK at \in {"cover", "recover"} : Go(r, [at |-> at, c |-> c])
    BY <1>1 DEF ReadCover, ReadRecover
  <2>2. UNCHANGED settlement
    BY <1>1 DEF ReadCover, ReadRecover
  <2> QED  BY <2>1, <2>2, GoIs DEF Goes, Shaped
<1>2. ASSUME NEW k \in Cheques,
             \/ ReadBounce(r, k) \/ ReadUnbounce(r, k)
             \/ \E to \in DOMAIN ChequeStatus : ReadCheque(r, k, to)
      PROVE  Goes(r, {"cover", "recover"} \cup OnCheque) /\ UNCHANGED settlement
  <2>1. PICK at \in OnCheque : Go(r, [at |-> at, k |-> k])
    BY <1>2 DEF ReadBounce, ReadUnbounce, ReadCheque, OnCheque, ChequeStatus
  <2>2. UNCHANGED settlement
    BY <1>2 DEF ReadBounce, ReadUnbounce, ReadCheque
  <2> QED  BY <2>1, <2>2, GoIs DEF Goes, Shaped
<1>3. CASE WriteBounce(r)
  BY <1>3, GoIs DEF WriteBounce, Goes, OnCheque, Shaped
<1>4. CASE \/ WriteCover(r) \/ WriteRecover(r)
           \/ WriteCheque(r) \/ MarkBounced(r) \/ DeleteBounce(r)
  <2>1. Finish(r) /\ UNCHANGED settlement
    BY <1>4 DEF WriteCover, WriteRecover, WriteCheque, MarkBounced, DeleteBounce
  <2> QED  BY <2>1, GoIs DEF Finish, Goes, Shaped
<1> QED  BY <1>1, <1>2, <1>3, <1>4, Zenon DEF DeductionStep

(* Invoices and receipts leave settlements and cheques alone. *)
LEMMA InvoicePlaces ==
  ASSUME Shaped, NEW r \in Requests, InvoiceStep(r)
  PROVE  Goes(r, {"rebuild", "erase", "write"}) /\ UNCHANGED <<settlement, cheques>>
<1>1. CASE \E i \in Invoices, n \in 0..Parts : Receive(r, i, n)
  BY <1>1 DEF Receive, Goes, Others, Shaped, Shapes
<1>2. ASSUME NEW i \in Invoices, NEW q \in 0..MaxQty, NEW n \in 0..Parts,
             ChangeInvoice(r, i, q, n)
      PROVE  Goes(r, {"rebuild", "erase", "write"}) /\ UNCHANGED <<settlement, cheques>>
  BY <1>2, GoIs DEF ChangeInvoice, Goes, Shaped
<1>3. CASE ReadInvoice(r)
  BY <1>3, GoIs DEF ReadInvoice, Goes, Shaped
<1>4. CASE EraseAccrual(r) \/ WriteAccrual(r)
  <2>1. UNCHANGED <<settlement, cheques>>
    BY <1>4 DEF EraseAccrual, WriteAccrual
  <2>2. \/ Go(r, NoRequest)
        \/ Go(r, [at |-> "write", i |-> req[r].i, q |-> req[r].q])
    BY <1>4, Zenon DEF EraseAccrual, WriteAccrual, Finish
  <2> QED  BY <2>1, <2>2, GoIs DEF Goes, Shaped
<1> QED  BY <1>1, <1>2, <1>3, <1>4, Zenon DEF InvoiceStep

(* A request that ends without a write. *)
LEMMA DropPlaces ==
  ASSUME Shaped, NEW r \in Requests, Drop(r)
  PROVE  Goes(r, {}) /\ UNCHANGED <<settlement, cheques>>
BY GoIs DEF Drop, Finish, Goes, Shaped

-----------------------------------------------------------------------------
(* One cashier: paying and cancelling are the duties of one request. *)

OneCashier ==
  \A r, q \in Requests :
    Duties[r] \cap {"pay", "cancel"} # {} /\ Duties[q] \cap {"pay", "cancel"} # {} => r = q

(* Whoever is paying or cancelling may, what is paid out is still paid, a  *)
(* settlement about to be cancelled is not paid, and of a settlement about *)
(* to be paid no bounce was taken by another. *)
AtTheCashier(r) ==
  req[r] # NoRequest /\ req[r].at \in OnSettlement =>
    /\ Duties[r] \cap {"pay", "cancel"} # {}
    /\ req[r].at = "cancel" => ~Is(req[r].s, "PAID")
    /\ req[r].at = "payout" => \A k \in settlement[req[r].s].bounces : ~Taken(k)

PaidStaysPaid == \A s \in PaidOut : Is(s, "PAID")

CashierInv ==
  /\ Shaped /\ BounceTakenOnce /\ PaidStaysPaid
  /\ \A r \in Requests : AtTheCashier(r)

(* A step that leaves the settlements alone: only the request that takes   *)
(* it has to be looked at. *)
LEMMA CashierAside ==
  ASSUME CashierInv, Shaped', NEW r \in Requests, Others(r), settlement' = settlement,
         AtTheCashier(r)'
  PROVE  CashierInv'
<1>1. BounceTakenOnce' /\ PaidStaysPaid'
  BY DEF CashierInv, BounceTakenOnce, PaidStaysPaid, PaidOut, Is
<1>2. \A k : Taken(k)' = Taken(k)
  BY DEF Taken, PaidOnes, Is
<1>3. \A q \in Requests : AtTheCashier(q)'
  BY <1>2 DEF CashierInv, AtTheCashier, Others, Is
<1> QED  BY <1>1, <1>3 DEF CashierInv

(* Who goes where no settlement is paid or cancelled keeps the cashier's   *)
(* facts. *)
LEMMA CashierUntouched ==
  ASSUME CashierInv, Shaped', NEW r \in Requests, settlement' = settlement,
         NEW places, Goes(r, places), places \cap OnSettlement = {}
  PROVE  CashierInv'
<1>1. \A k : Taken(k)' = Taken(k)
  BY DEF Taken, PaidOnes, Is
<1>2. AtTheCashier(r)'
  BY <1>1 DEF CashierInv, AtTheCashier, Goes, Is
<1> QED  BY <1>2, CashierAside DEF Goes

(* The reads of paying and cancelling, the bounces at the end of them. *)
LEMMA CashierReads ==
  ASSUME CashierInv, Shaped', NEW r \in Requests,
         \/ \E s \in Settlements : StartPay(r, s) \/ ReadCancel(r, s)
         \/ CheckFigures(r) \/ ReadSettled(r) \/ CheckShares(r) \/ CheckBounces(r)
  PROVE  CashierInv'
<1>1. settlement' = settlement /\ Others(r)
  BY ReadsForSettlement DEF CashierInv
<1>2. \A k : Taken(k)' = Taken(k)
  BY <1>1 DEF Taken, PaidOnes, Is
<1>3. ASSUME NEW s \in Settlements, StartPay(r, s) \/ ReadCancel(r, s)
      PROVE  AtTheCashier(r)'
  <2>1. /\ Duties[r] \cap {"pay", "cancel"} # {}
        /\ \/ Go(r, [at |-> "figures", s |-> s])
           \/ ~Is(s, "PAID") /\ Go(r, [at |-> "cancel", s |-> s])
    BY <1>3 DEF StartPay, ReadCancel, May
  <2> QED  BY <1>1, <2>1, GoIs DEF CashierInv, Shaped, AtTheCashier, Is
<1>4. ASSUME CheckFigures(r) \/ ReadSettled(r) \/ CheckShares(r) \/ CheckBounces(r)
      PROVE  AtTheCashier(r)'
  <2>1. req[r] # NoRequest /\ req[r].at \in OnSettlement
    BY <1>4 DEF CheckFigures, ReadSettled, CheckShares, CheckBounces, Resume, OnSettlement
  <2>2. Duties[r] \cap {"pay", "cancel"} # {}
    BY <2>1 DEF CashierInv, AtTheCashier
  <2>3. \/ \E at \in {"settled", "bounces"} : Go(r, [at |-> at, s |-> req[r].s])
        \/ Go(r, [at |-> "shares", s |-> req[r].s,
                  done |-> [i \in Invoices |-> Settled(i)]])
        \/ /\ \A k \in settlement[req[r].s].bounces : ~Taken(k)
           /\ Go(r, [at |-> "payout", s |-> req[r].s])
    BY <1>4, Zenon DEF CheckFigures, ReadSettled, CheckShares, CheckBounces
  <2> QED  BY <1>1, <1>2, <2>2, <2>3, GoIs DEF CashierInv, Shaped, AtTheCashier
<1> QED  BY <1>1, <1>3, <1>4, CashierAside

(* A new draft is of a settlement that nobody works on. *)
LEMMA CashierDrafts ==
  ASSUME CashierInv, Shaped', NEW r \in Requests, NEW s \in Settlements, SaveDraft(r, s)
  PROVE  CashierInv'
<1>1. /\ settlement[s] = Unused /\ Finish(r)
      /\ settlement'[s].status = "DRAFT" /\ settlement'[s].paidAt = FALSE
      /\ settlement'[s] # Unused
      /\ \A t \in Settlements \ {s} : settlement'[t] = settlement[t]
  BY DEF SaveDraft, CashierInv, Shaped, Shapes, Unused
<1>2. Others(r) /\ req'[r] = NoRequest
  BY <1>1, GoIs DEF Finish, CashierInv, Shaped
<1>3. PaidOut' = PaidOut /\ s \notin PaidOut
  BY <1>1 DEF PaidOut
<1>4. BounceTakenOnce' /\ PaidStaysPaid'
  BY <1>1, <1>3 DEF BounceTakenOnce, PaidStaysPaid, Is, CashierInv, PaidOut
<1>5. \A k : Taken(k)' => Taken(k)
  BY <1>1 DEF Taken, PaidOnes, Is
<1>6. Unused \notin Drafted
  BY DEF Unused, Drafted
<1>7. ASSUME NEW q \in Requests
      PROVE  AtTheCashier(q)'
  <2>1. CASE q = r
    BY <1>2, <2>1 DEF AtTheCashier
  <2>2. CASE q # r /\ req[q] # NoRequest /\ req[q].at \in OnSettlement
    <3>1. req'[q] = req[q] /\ req[q].s \in Settlements /\ req[q].s # s
      BY <1>1, <1>2, <1>6, <2>2 DEF Others, CashierInv, Shaped, Shapes, DraftedFirst, ReadsFit
    <3>2. settlement'[req[q].s] = settlement[req[q].s]
      BY <1>1, <3>1
    <3> QED  BY <1>5, <2>2, <3>1, <3>2 DEF CashierInv, AtTheCashier, Is
  <2>3. CASE q # r /\ ~(req[q] # NoRequest /\ req[q].at \in OnSettlement)
    BY <1>2, <2>3 DEF Others, AtTheCashier
  <2> QED  BY <2>1, <2>2, <2>3
<1> QED  BY <1>4, <1>7 DEF CashierInv

(* Nobody else is at the cashier's while one pays or cancels; what is paid *)
(* shares no bounce with what was paid before, and nothing paid is         *)
(* cancelled. *)
LEMMA CashierWrites ==
  ASSUME OneCashier, CashierInv, Shaped', NEW r \in Requests, PayOut(r) \/ WriteCancel(r)
  PROVE  CashierInv'
<1> DEFINE s == req[r].s
<1>1. /\ req[r] # NoRequest /\ req[r].at \in OnSettlement /\ Finish(r)
      /\ req[r].at = (IF PayOut(r) THEN "payout" ELSE "cancel")
  BY DEF PayOut, WriteCancel, Resume, OnSettlement
<1>2. s \in Settlements /\ settlement[s] \in Drafted
  BY <1>1 DEF CashierInv, Shaped, Shapes, DraftedFirst, ReadsFit
<1>3. Others(r) /\ req'[r] = NoRequest
  BY <1>1, GoIs DEF Finish, CashierInv, Shaped
<1>4. \A q \in Requests : AtTheCashier(q)'
  BY <1>1, <1>3 DEF OneCashier, CashierInv, AtTheCashier, Others
<1>5. \A t \in Settlements \ {s} : settlement'[t] = settlement[t]
  BY DEF PayOut, WriteCancel, CashierInv, Shaped, Shapes
<1>6. settlement'[s].bounces = settlement[s].bounces
  BY <1>2 DEF PayOut, WriteCancel, CashierInv, Shaped, Shapes, Drafted
<1>7. CASE PayOut(r)
  <2>1. settlement'[s].status = "PAID"
    BY <1>2, <1>7 DEF PayOut, CashierInv, Shaped, Shapes, Drafted
  <2>2. \A k \in settlement[s].bounces : ~Taken(k)
    BY <1>1, <1>7 DEF CashierInv, AtTheCashier, PayOut, Resume
  <2>3. PaidOut' \subseteq PaidOut \cup {s}
    BY <1>5 DEF PaidOut
  <2>4. PaidStaysPaid'
    BY <1>5, <2>1, <2>3 DEF PaidStaysPaid, PaidOut, Is, CashierInv
  <2>5. \A t \in PaidOut : t # s => settlement[t].bounces \cap settlement[s].bounces = {}
    BY <2>2 DEF CashierInv, PaidStaysPaid, Taken, PaidOnes, PaidOut
  <2>6. BounceTakenOnce'
    <3>1. SUFFICES ASSUME NEW t \in PaidOut', NEW u \in PaidOut', t # u
                   PROVE  settlement'[t].bounces \cap settlement'[u].bounces = {}
      BY DEF BounceTakenOnce
    <3>2. t \in Settlements /\ u \in Settlements
      BY DEF PaidOut
    <3>3. settlement'[t].bounces = settlement[t].bounces
          /\ settlement'[u].bounces = settlement[u].bounces
      BY <1>5, <1>6, <3>2
    <3> QED  BY <2>3, <2>5, <3>1, <3>3 DEF CashierInv, BounceTakenOnce
  <2> QED  BY <1>4, <2>4, <2>6 DEF CashierInv
<1>8. CASE WriteCancel(r)
  <2>1. req[r].at = "cancel"
    BY <1>8 DEF WriteCancel, Resume
  <2>2. s \notin PaidOut
    BY <1>1, <2>1 DEF CashierInv, AtTheCashier, PaidStaysPaid
  <2>3. settlement'[s].paidAt = settlement[s].paidAt /\ settlement[s] # Unused
    <3>1. settlement' = [settlement EXCEPT
                           ![s] = [settlement[s] EXCEPT !.status = "CANCELLED"]]
      BY <1>8 DEF WriteCancel
    <3>2. settlement'[s] = [settlement[s] EXCEPT !.status = "CANCELLED"]
      BY <1>2, <3>1 DEF CashierInv, Shaped, Shapes
    <3> QED  BY <1>2, <3>2 DEF Drafted, Unused
  <2>4. s \notin PaidOut'
    BY <1>2, <2>2, <2>3 DEF PaidOut
  <2>5. PaidOut' \subseteq PaidOut
    BY <1>5, <2>4 DEF PaidOut
  <2> QED  BY <1>4, <1>5, <2>4, <2>5
              DEF CashierInv, BounceTakenOnce, PaidStaysPaid, PaidOut, Is
<1> QED  BY <1>7, <1>8

(* Every step keeps the cashier's facts. *)
LEMMA CashierKept ==
  ASSUME OneCashier, CashierInv, [AgentNext]_agentVars
  PROVE  CashierInv'
<1>0. Shaped /\ Shaped'
  BY ShapesKept DEF CashierInv
<1>1. ASSUME NEW r \in Requests, SettlementStep(r)
      PROVE  CashierInv'
  <2>1. ASSUME NEW share \in Shares, NEW cs \in SUBSET Covers, NEW ks \in SUBSET Cheques,
               VerifyDraft(r, share, cs, ks)
        PROVE  CashierInv'
    <3>1. settlement' = settlement /\ Goes(r, {"draft"})
      BY <1>0, <2>1, GoIs DEF VerifyDraft, Goes, Shaped
    <3> QED  BY <1>0, <3>1, CashierUntouched DEF OnSettlement
  <2> QED  BY <1>0, <1>1, <2>1, CashierReads, CashierDrafts, CashierWrites, Zenon
              DEF SettlementStep
<1>2. ASSUME NEW r \in Requests, DeductionStep(r)
      PROVE  CashierInv'
  BY <1>0, <1>2, DeductionPlaces, CashierUntouched DEF OnSettlement, OnCheque
<1>3. ASSUME NEW r \in Requests, InvoiceStep(r)
      PROVE  CashierInv'
  BY <1>0, <1>3, InvoicePlaces, CashierUntouched DEF OnSettlement
<1>4. ASSUME NEW r \in Requests, Drop(r)
      PROVE  CashierInv'
  BY <1>0, <1>4, DropPlaces, CashierUntouched
<1>5. CASE UNCHANGED agentVars
  BY <1>0, <1>5 DEF agentVars, CashierInv, BounceTakenOnce, PaidStaysPaid, PaidOut,
                    AtTheCashier, Taken, PaidOnes, Is
<1> QED  BY <1>1, <1>2, <1>3, <1>4, <1>5, Zenon DEF AgentNext

(* With one cashier no bounce is deducted from the agent on two paid       *)
(* settlements, however drafts overlap (paySettlement reads the bounces    *)
(* that are taken before the transaction that pays). *)
THEOREM BounceOnOneSettlement ==
  ASSUME OneCashier
  PROVE  AgentSpec => []BounceTakenOnce
<1>1. AgentInit => CashierInv
  BY SettlementAssumption
     DEF AgentInit, CashierInv, Shaped, Shapes, DraftedFirst, ReadsFit, AtTheCashier,
         BounceTakenOnce, PaidStaysPaid, PaidOut, Unused
<1>2. CashierInv /\ [AgentNext]_agentVars => CashierInv'
  BY CashierKept
<1>3. CashierInv => BounceTakenOnce
  BY DEF CashierInv
<1> QED  BY <1>1, <1>2, <1>3, PTL DEF AgentSpec

-----------------------------------------------------------------------------
(* One cheque desk: the same of cheques and their bounces. *)

OneChequeDesk ==
  \A r, q \in Requests :
    Duties[r] \cap {"bounce", "cheque"} # {} /\ Duties[q] \cap {"bounce", "cheque"} # {} => r = q

(* A cheque about to be deposited or cleared has not bounced. *)
AtTheChequeDesk(r) ==
  req[r] # NoRequest /\ req[r].at \in OnCheque =>
    /\ Duties[r] \cap {"bounce", "cheque"} # {}
    /\ req[r].at \in {"deposit", "clear"} => cheque[req[r].k] # "BOUNCED"

RecordedIsMarked == \A k \in Cheques : bounce[k] = "recorded" => cheque[k] = "BOUNCED"

ChequeInv ==
  /\ Shaped /\ RecordedIsMarked
  /\ \A r \in Requests : AtTheChequeDesk(r)
(* Who goes where no cheque or bounce is written keeps the facts of the    *)
(* desk. *)
LEMMA ChequesUntouched ==
  ASSUME ChequeInv, Shaped', NEW r \in Requests, UNCHANGED cheques,
         NEW places, Goes(r, places), places \cap OnCheque = {}
  PROVE  ChequeInv'
<1>1. RecordedIsMarked'
  BY DEF ChequeInv, RecordedIsMarked, cheques
<1>2. \A q \in Requests : AtTheChequeDesk(q)'
  BY DEF ChequeInv, AtTheChequeDesk, Goes, Others, cheques
<1> QED  BY <1>1, <1>2 DEF ChequeInv

(* What is read of a cheque or a bounce before it is written. *)
LEMMA ChequeReads ==
  ASSUME ChequeInv, Shaped', NEW r \in Requests, NEW k \in Cheques,
         \/ ReadBounce(r, k) \/ ReadUnbounce(r, k)
         \/ \E to \in DOMAIN ChequeStatus : ReadCheque(r, k, to)
  PROVE  ChequeInv'
<1>1. PICK at \in OnCheque :
        /\ Go(r, [at |-> at, k |-> k])
        /\ at \in {"deposit", "clear"} => cheque[k] # "BOUNCED"
  BY DEF ReadBounce, ReadUnbounce, ReadCheque, OnCheque, ChequeStatus
<1>2. Duties[r] \cap {"bounce", "cheque"} # {} /\ UNCHANGED cheques
  BY DEF ReadBounce, ReadUnbounce, ReadCheque, May
<1>3. Others(r) /\ req'[r] = [at |-> at, k |-> k]
  BY <1>1, GoIs DEF ChequeInv, Shaped
<1>4. RecordedIsMarked'
  BY <1>2 DEF ChequeInv, RecordedIsMarked, cheques
<1>5. \A q \in Requests : AtTheChequeDesk(q)'
  BY <1>1, <1>2, <1>3 DEF ChequeInv, AtTheChequeDesk, Others, cheques
<1> QED  BY <1>4, <1>5 DEF ChequeInv

(* Nobody else is at the desk while one writes. *)
LEMMA ChequeWrites ==
  ASSUME OneChequeDesk, ChequeInv, Shaped', NEW r \in Requests,
         WriteCheque(r) \/ WriteBounce(r) \/ MarkBounced(r) \/ DeleteBounce(r)
  PROVE  ChequeInv'
<1> DEFINE k == req[r].k
<1>1. req[r] # NoRequest /\ req[r].at \in OnCheque
  BY DEF WriteCheque, WriteBounce, MarkBounced, DeleteBounce, Resume, OnCheque, ChequeStatus
<1>2. k \in Cheques /\ Duties[r] \cap {"bounce", "cheque"} # {}
  BY <1>1 DEF ChequeInv, Shaped, Shapes, ReadsFit, AtTheChequeDesk
<1>3. Others(r) /\ (req'[r] = NoRequest \/ req'[r] = [at |-> "mark", k |-> k])
  <2>1. Go(r, NoRequest) \/ Go(r, [at |-> "mark", k |-> k])
    BY DEF WriteCheque, WriteBounce, MarkBounced, DeleteBounce, Finish
  <2> QED  BY <2>1, GoIs DEF ChequeInv, Shaped
<1>4. \A q \in Requests : AtTheChequeDesk(q)'
  BY <1>2, <1>3 DEF OneChequeDesk, ChequeInv, AtTheChequeDesk, Others
<1>5. RecordedIsMarked'
  <2>0. Shapes /\ RecordedIsMarked
    BY DEF ChequeInv, Shaped
  <2>1. CASE WriteCheque(r)
    <3>1. req[r].at \in {"deposit", "clear", "return", "remove"}
      BY <2>1 DEF WriteCheque, ChequeStatus
    <3>2. req[r].at \in {"deposit", "clear"} => bounce[k] # "recorded"
      BY <1>1, <1>2, <2>0 DEF ChequeInv, AtTheChequeDesk, RecordedIsMarked
    <3>3. CASE req[r].at = "remove"
      <4>1. bounce'[k] # "recorded" /\ \A j \in Cheques \ {k} : bounce'[j] = bounce[j]
        BY <1>2, <2>0, <2>1, <3>3 DEF WriteCheque, Shapes, Bounced
      <4>2. \A j \in Cheques \ {k} : cheque'[j] = cheque[j]
        BY <1>2, <2>0, <2>1 DEF WriteCheque, Shapes
      <4> QED  BY <2>0, <4>1, <4>2 DEF RecordedIsMarked
    <3>4. CASE req[r].at = "return"
      BY <1>2, <2>0, <2>1, <3>4 DEF WriteCheque, ChequeStatus, Shapes, RecordedIsMarked
    <3>5. CASE req[r].at \in {"deposit", "clear"}
      BY <1>2, <2>0, <2>1, <3>2, <3>5 DEF WriteCheque, Shapes, RecordedIsMarked
    <3> QED  BY <3>1, <3>3, <3>4, <3>5
  <2>2. CASE WriteBounce(r) \/ DeleteBounce(r)
    BY <1>2, <2>0, <2>2 DEF WriteBounce, DeleteBounce, Shapes, RecordedIsMarked
  <2>3. CASE MarkBounced(r)
    BY <1>2, <2>0, <2>3 DEF MarkBounced, Shapes, RecordedIsMarked
  <2> QED  BY <2>1, <2>2, <2>3
<1> QED  BY <1>4, <1>5 DEF ChequeInv

(* Every step keeps the facts of the cheque desk. *)
LEMMA ChequesKept ==
  ASSUME OneChequeDesk, ChequeInv, [AgentNext]_agentVars
  PROVE  ChequeInv'
<1>0. Shaped /\ Shaped'
  BY ShapesKept DEF ChequeInv
<1>1. ASSUME NEW r \in Requests, SettlementStep(r)
      PROVE  ChequeInv'
  BY <1>0, <1>1, SettlementPlaces, ChequesUntouched DEF OnSettlement, OnCheque
<1>2. ASSUME NEW r \in Requests, DeductionStep(r)
      PROVE  ChequeInv'
  <2>1. ASSUME NEW c \in Covers, ReadCover(r, c) \/ ReadRecover(r, c)
        PROVE  ChequeInv'
    <3>1. UNCHANGED cheques
      BY <2>1 DEF ReadCover, ReadRecover
    <3>2. PICK at \in {"cover", "recover"} : Go(r, [at |-> at, c |-> c])
      BY <2>1 DEF ReadCover, ReadRecover
    <3>3. Goes(r, {"cover", "recover"})
      BY <1>0, <3>2, GoIs DEF Goes, Shaped
    <3> QED  BY <1>0, <3>1, <3>3, ChequesUntouched DEF OnCheque
  <2>2. ASSUME WriteCover(r) \/ WriteRecover(r)
        PROVE  ChequeInv'
    <3>1. UNCHANGED cheques /\ Finish(r)
      BY <2>2 DEF WriteCover, WriteRecover
    <3>2. Goes(r, {})
      BY <1>0, <3>1, GoIs DEF Finish, Goes, Shaped
    <3> QED  BY <1>0, <3>1, <3>2, ChequesUntouched
  <2> QED  BY <1>0, <1>2, <2>1, <2>2, ChequeReads, ChequeWrites, Zenon DEF DeductionStep
<1>3. ASSUME NEW r \in Requests, InvoiceStep(r)
      PROVE  ChequeInv'
  BY <1>0, <1>3, InvoicePlaces, ChequesUntouched DEF OnCheque
<1>4. ASSUME NEW r \in Requests, Drop(r)
      PROVE  ChequeInv'
  BY <1>0, <1>4, DropPlaces, ChequesUntouched
<1>5. CASE UNCHANGED agentVars
  BY <1>0, <1>5 DEF agentVars, ChequeInv, RecordedIsMarked, AtTheChequeDesk
<1> QED  BY <1>1, <1>2, <1>3, <1>4, <1>5, Zenon DEF AgentNext

(* With one cheque desk no cheque is CLEARED over a bounce that was        *)
(* recorded to its end: what createBounce refuses for a cleared cheque,    *)
(* settle refuses for a bounced one. *)
THEOREM ClearedOrBounced ==
  ASSUME OneChequeDesk
  PROVE  AgentSpec => []ClearedHasNotBounced
<1>1. AgentInit => ChequeInv
  BY SettlementAssumption
     DEF AgentInit, ChequeInv, Shaped, Shapes, DraftedFirst, ReadsFit, AtTheChequeDesk,
         RecordedIsMarked, Unused
<1>2. ChequeInv /\ [AgentNext]_agentVars => ChequeInv'
  BY ChequesKept
<1>3. ChequeInv => ClearedHasNotBounced
  BY DEF ChequeInv, RecordedIsMarked, ClearedHasNotBounced
<1> QED  BY <1>1, <1>2, <1>3, PTL DEF AgentSpec
-----------------------------------------------------------------------------
(* What paid settlements claim of an invoice, as the sum of a function. *)

ShareOf(i) == [s \in Settlements |-> IF settlement[s] \in Drafted THEN settlement[s].share[i] ELSE 0]
Paid(i)    == SumOf(ShareOf(i), PaidOnes)

(* A share of a settlement is a number of parts. *)
LEMMA ShareIsNat ==
  ASSUME Shapes, NEW i \in Invoices
  PROVE  ShareOf(i) \in [Settlements -> 0..Parts]
BY SettlementAssumption DEF ShareOf, Shapes, Drafted, Shares

(* What is paid was drafted. *)
LEMMA PaidAreDrafted ==
  ASSUME Shapes
  PROVE  \A s \in PaidOnes : s \in Settlements /\ settlement[s] \in Drafted
BY DEF Shapes, PaidOnes, Is, Unused

(* The sum that the code takes over some paid settlements is the sum of    *)
(* this function. *)
LEMMA PaidIsSum ==
  ASSUME Shapes, IsFiniteSet(Settlements), NEW i \in Invoices, NEW S \in SUBSET PaidOnes
  PROVE  MapThenSumSet(LAMBDA s : settlement[s].share[i], S) = SumOf(ShareOf(i), S)
<1>1. \A s \in S : ShareOf(i)[s] = settlement[s].share[i]
  BY PaidAreDrafted DEF ShareOf
<1> DEFINE f == ShareOf(i)
           Terms(g) == [t \in SUBSET S |-> IF t = {} THEN 0
                                           ELSE settlement[Pick(t)].share[i] + g[t \ {Pick(t)}]]
           h == CHOOSE g : g = Terms(g)
<1>2. \A t \in SUBSET S : t # {} => f[Pick(t)] = settlement[Pick(t)].share[i]
  BY <1>1, PickIn
<1>3. Summable(f, S)
  BY ShareIsNat, PaidAreDrafted, FS_Subset DEF Summable
<1>4. MapThenSumSet(LAMBDA s : settlement[s].share[i], S) = h[S]
  BY DEF MapThenSumSet, MapThenFoldSet, Pick
<1> HIDE DEF f
<1>5. \A g : g = Terms(g) <=> Adds(g, f, S)
  BY <1>2 DEF Adds
<1> HIDE DEF Terms
<1>6. Adds(h, f, S)
  BY <1>3, <1>5, Solvable
<1>7. SumOf(f, S) = h[S]
  BY <1>3, <1>6, SumBy
<1> QED  BY <1>4, <1>7 DEF f

(* settledState: the sum, the whole of the invoice at most. *)
LEMMA SettledIs ==
  ASSUME Shapes, IsFiniteSet(Settlements), NEW i \in Invoices
  PROVE  /\ Paid(i) \in Nat
         /\ Settled(i) = (IF Parts <= Paid(i) THEN Parts ELSE Paid(i))
         /\ Settled(i) \in 0..Parts
<1>1. IsFiniteSet(PaidOnes) /\ \A s \in PaidOnes : ShareOf(i)[s] \in Nat
  BY FS_Subset, ShareIsNat, SettlementAssumption DEF PaidOnes
<1>2. Paid(i) \in Nat
  BY <1>1, SumNatural DEF Paid
<1>3. Settled(i) = Min({Parts, Paid(i)})
  BY PaidIsSum DEF Settled, Paid
<1> QED  BY <1>2, <1>3, OfTwo, SettlementAssumption

-----------------------------------------------------------------------------
(* The states of requests, with what they have read of the sum. *)

Records == req \in [Requests -> RequestStates]

(* A request that goes on into a state there is. *)
LEMMA GoesOn ==
  ASSUME Records, NEW r \in Requests, NEW state \in RequestStates, Go(r, state)
  PROVE  Records'
BY DEF Records, Go

(* An idle request is in a state there is. *)
LEMMA FinishesIdle ==
  ASSUME Records, NEW r \in Requests, Finish(r)
  PROVE  Records'
BY DEF Records, Finish, Go, RequestStates

(* Every step leaves its request in a state there is. *)
LEMMA RecordsKept ==
  ASSUME IsFiniteSet(Settlements), Shaped, Records, [AgentNext]_agentVars
  PROVE  Records'
<1>0. Shapes /\ \A r \in Requests : ReadsFit(r)
  BY DEF Shaped, Shapes
<1>1. ASSUME NEW r \in Requests, SettlementStep(r)
      PROVE  Records'
  <2>1. ASSUME NEW share \in Shares, NEW cs \in SUBSET Covers, NEW ks \in SUBSET Cheques,
               VerifyDraft(r, share, cs, ks)
        PROVE  Records'
    <3> DEFINE d == [share |-> share, qty |-> accrual, covers |-> cs, bounces |-> ks]
    <3>1. d \in Drafts
      BY <1>0 DEF Drafts, Shapes
    <3>2. Go(r, [at |-> "draft", draft |-> d])
      BY <2>1 DEF VerifyDraft
    <3> HIDE DEF d
    <3>3. [at |-> "draft", draft |-> d] \in RequestStates
      BY <3>1 DEF RequestStates
    <3> QED  BY <3>2, <3>3, GoesOn
  <2>2. ASSUME NEW s \in Settlements, StartPay(r, s) \/ ReadCancel(r, s)
        PROVE  Records'
    <3>1. PICK at \in {"figures", "cancel"} : Go(r, [at |-> at, s |-> s])
      BY <2>2 DEF StartPay, ReadCancel
    <3>2. [at |-> at, s |-> s] \in RequestStates
      BY DEF RequestStates
    <3> QED  BY <3>1, <3>2, GoesOn
  <2>3. ASSUME CheckFigures(r) \/ CheckShares(r) \/ CheckBounces(r)
        PROVE  Records'
    <3>1. req[r] # NoRequest /\ req[r].at \in OnSettlement
      BY <2>3 DEF CheckFigures, CheckShares, CheckBounces, Resume, OnSettlement
    <3>2. PICK at \in {"settled", "bounces", "payout"} : Go(r, [at |-> at, s |-> req[r].s])
      BY <2>3 DEF CheckFigures, CheckShares, CheckBounces
    <3>3. [at |-> at, s |-> req[r].s] \in RequestStates
      BY <1>0, <3>1 DEF ReadsFit, RequestStates
    <3> QED  BY <3>2, <3>3, GoesOn
  <2>4. CASE ReadSettled(r)
    <3> DEFINE done == [i \in Invoices |-> Settled(i)]
    <3>1. done \in Shares
      BY <1>0, SettledIs DEF Shares
    <3>2. req[r].s \in Settlements
      BY <1>0, <2>4 DEF ReadSettled, Resume, ReadsFit, OnSettlement
    <3>3. Go(r, [at |-> "shares", s |-> req[r].s, done |-> done])
      BY <2>4 DEF ReadSettled
    <3> HIDE DEF done
    <3>4. [at |-> "shares", s |-> req[r].s, done |-> done] \in RequestStates
      BY <3>1, <3>2 DEF RequestStates
    <3> QED  BY <3>3, <3>4, GoesOn
  <2>5. ASSUME \/ \E s \in Settlements : SaveDraft(r, s)
               \/ PayOut(r) \/ WriteCancel(r)
        PROVE  Records'
    BY <2>5, FinishesIdle DEF SaveDraft, PayOut, WriteCancel
  <2> QED  BY <1>1, <2>1, <2>2, <2>3, <2>4, <2>5, Zenon DEF SettlementStep
<1>2. ASSUME NEW r \in Requests, DeductionStep(r)
      PROVE  Records'
  <2>1. ASSUME NEW c \in Covers, ReadCover(r, c) \/ ReadRecover(r, c)
        PROVE  Records'
    <3>1. PICK at \in {"cover", "recover"} : Go(r, [at |-> at, c |-> c])
      BY <2>1 DEF ReadCover, ReadRecover
    <3>2. [at |-> at, c |-> c] \in RequestStates
      BY DEF RequestStates
    <3> QED  BY <3>1, <3>2, GoesOn
  <2>2. ASSUME NEW k \in Cheques, NEW at \in OnCheque, Go(r, [at |-> at, k |-> k])
        PROVE  Records'
    <3>1. [at |-> at, k |-> k] \in RequestStates
      BY DEF RequestStates, OnCheque
    <3> QED  BY <2>2, <3>1, GoesOn
  <2>3. ASSUME NEW k \in Cheques,
               \/ ReadBounce(r, k) \/ ReadUnbounce(r, k)
               \/ \E to \in DOMAIN ChequeStatus : ReadCheque(r, k, to)
        PROVE  Records'
    <3>1. PICK at \in OnCheque : Go(r, [at |-> at, k |-> k])
      BY <2>3 DEF ReadBounce, ReadUnbounce, ReadCheque, OnCheque, ChequeStatus
    <3> QED  BY <2>2, <3>1
  <2>4. CASE WriteBounce(r)
    <3>1. req[r].k \in Cheques /\ Go(r, [at |-> "mark", k |-> req[r].k])
      BY <1>0, <2>4 DEF WriteBounce, Resume, ReadsFit, OnCheque
    <3> QED  BY <2>2, <3>1 DEF OnCheque
  <2>5. CASE \/ WriteCover(r) \/ WriteRecover(r)
             \/ WriteCheque(r) \/ MarkBounced(r) \/ DeleteBounce(r)
    <3>1. Finish(r)
      BY <2>5 DEF WriteCover, WriteRecover, WriteCheque, MarkBounced, DeleteBounce
    <3> QED  BY <3>1, FinishesIdle
  <2> QED  BY <1>2, <2>1, <2>3, <2>4, <2>5, Zenon DEF DeductionStep
<1>3. ASSUME NEW r \in Requests, InvoiceStep(r)
      PROVE  Records'
  <2>1. ASSUME NEW i \in Invoices, NEW q \in 0..MaxQty, NEW n \in 0..Parts,
               ChangeInvoice(r, i, q, n)
        PROVE  Records'
    <3>1. Go(r, [at |-> "rebuild", i |-> i])
      BY <2>1 DEF ChangeInvoice
    <3>2. [at |-> "rebuild", i |-> i] \in RequestStates
      BY DEF RequestStates
    <3> QED  BY <3>1, <3>2, GoesOn
  <2>2. ASSUME NEW i \in Invoices, NEW q \in 0..MaxQty, NEW at \in {"erase", "write"},
               Go(r, [at |-> at, i |-> i, q |-> q])
        PROVE  Records'
    <3>1. [at |-> at, i |-> i, q |-> q] \in RequestStates
      BY DEF RequestStates
    <3> QED  BY <2>2, <3>1, GoesOn
  <2>3. CASE ReadInvoice(r)
    <3>1. req[r].i \in Invoices /\ qty[req[r].i] \in 0..MaxQty
      BY <1>0, <2>3 DEF ReadInvoice, Resume, ReadsFit, Shapes
    <3> QED  BY <2>2, <2>3, <3>1 DEF ReadInvoice
  <2>4. CASE EraseAccrual(r) \/ WriteAccrual(r)
    <3>1. req[r].i \in Invoices /\ req[r].q \in 0..MaxQty
      BY <1>0, <2>4, Zenon DEF EraseAccrual, WriteAccrual, Resume, ReadsFit
    <3>2. Finish(r) \/ Go(r, [at |-> "write", i |-> req[r].i, q |-> req[r].q])
      BY <2>4, Zenon DEF EraseAccrual, WriteAccrual
    <3> QED  BY <2>2, <3>1, <3>2, FinishesIdle
  <2>5. CASE \E i \in Invoices, n \in 0..Parts : Receive(r, i, n)
    BY <2>5 DEF Receive, Records
  <2> QED  BY <1>3, <2>1, <2>3, <2>4, <2>5, Zenon DEF InvoiceStep
<1>4. ASSUME NEW r \in Requests, Drop(r)
      PROVE  Records'
  BY <1>4, FinishesIdle DEF Drop
<1>5. CASE UNCHANGED agentVars
  BY <1>5 DEF agentVars, Records
<1> QED  BY <1>1, <1>2, <1>3, <1>4, <1>5, Zenon DEF AgentNext

(* Everything of the agent keeps its shape, what a request has read of the *)
(* settled shares included. *)
THEOREM AgentTypeCorrect ==
  ASSUME IsFiniteSet(Settlements)
  PROVE  AgentSpec => []AgentTypeOK
<1>1. AgentInit => Shaped /\ Records
  BY SettlementAssumption
     DEF AgentInit, Shaped, Shapes, DraftedFirst, ReadsFit, Unused, Records, RequestStates
<1>2. Shaped /\ Records /\ [AgentNext]_agentVars => (Shaped /\ Records)'
  BY ShapesKept, RecordsKept
<1>3. Shaped /\ Records => AgentTypeOK
  BY DEF Shaped, Shapes, Records, AgentTypeOK, Unused, Drafted
<1> QED  BY <1>1, <1>2, <1>3, PTL DEF AgentSpec
-----------------------------------------------------------------------------
(* With one cashier, what a payment has read of the sum stays so until it  *)
(* pays; what it then pays fits into what is left of the invoice. *)

HasRoom(r) ==
  req[r] # NoRequest =>
    /\ req[r].at = "shares" => \A i \in Invoices : req[r].done[i] = Paid(i)
    /\ req[r].at \in {"bounces", "payout"} =>
         \A i \in Invoices : settlement[req[r].s].share[i] + Paid(i) <= Parts

PaidIsOut == PaidOnes \subseteq PaidOut
PaidOnce  == \A i \in Invoices : Paid(i) <= Parts

ShareInv ==
  /\ CashierInv /\ PaidIsOut /\ PaidOnce
  /\ \A r \in Requests : HasRoom(r)
(* Where nothing paid changes, what is paid of an invoice stays. *)
LEMMA PaidStays ==
  ASSUME Shapes, Shapes', IsFiniteSet(Settlements), NEW i \in Invoices,
         PaidOnes' = PaidOnes, \A s \in PaidOnes : settlement'[s].share = settlement[s].share
  PROVE  Paid(i)' = Paid(i)
<1> DEFINE f == ShareOf(i)
           h == ShareOf(i)'
<1>1. IsFiniteSet(PaidOnes)
  BY FS_Subset DEF PaidOnes
<1>2. \A s \in PaidOnes : f[s] \in Int /\ s \in Settlements
  BY ShareIsNat, SettlementAssumption DEF PaidOnes
<1>3. \A s \in PaidOnes : settlement[s] \in Drafted /\ settlement'[s] \in Drafted
  <2>1. \A s \in PaidOnes' : s \in Settlements /\ settlement'[s] \in Drafted
    BY DEF Shapes, PaidOnes, Is, Unused
  <2> QED  BY <2>1, PaidAreDrafted
<1>4. \A s \in PaidOnes : h[s] = f[s]
  BY <1>2, <1>3 DEF ShareOf
<1>5. Paid(i) = SumOf(f, PaidOnes) /\ Paid(i)' = SumOf(h, PaidOnes)
  BY DEF Paid
<1> HIDE DEF f, h
<1> QED  BY <1>1, <1>2, <1>4, <1>5, SumAgrees

(* A step that leaves the settlements alone: only the request that takes   *)
(* it has to be looked at. *)
LEMMA ShareAside ==
  ASSUME IsFiniteSet(Settlements), ShareInv, CashierInv', NEW r \in Requests, Others(r),
         settlement' = settlement, HasRoom(r)'
  PROVE  ShareInv'
<1>1. Shapes /\ Shapes' /\ PaidOnes' = PaidOnes
  BY DEF ShareInv, CashierInv, Shaped, PaidOnes, Is
<1>2. \A i \in Invoices : Paid(i)' = Paid(i)
  BY <1>1, PaidStays
<1>3. PaidIsOut' /\ PaidOnce'
  BY <1>1, <1>2 DEF ShareInv, PaidIsOut, PaidOnce, PaidOut
<1>4. ASSUME NEW q \in Requests \ {r}
      PROVE  HasRoom(q)'
  BY <1>2 DEF ShareInv, HasRoom, Others
<1> QED  BY <1>3, <1>4 DEF ShareInv

(* Who goes where no settlement is paid keeps the facts of shares. *)
LEMMA ShareUntouched ==
  ASSUME IsFiniteSet(Settlements), ShareInv, CashierInv', NEW r \in Requests,
         settlement' = settlement,
         NEW places, Goes(r, places), places \cap {"shares", "bounces", "payout"} = {}
  PROVE  ShareInv'
<1>1. Shapes /\ Shapes' /\ PaidOnes' = PaidOnes
  BY DEF ShareInv, CashierInv, Shaped, PaidOnes, Is
<1>2. \A i \in Invoices : Paid(i)' = Paid(i)
  BY <1>1, PaidStays
<1>3. HasRoom(r)'
  BY <1>2 DEF ShareInv, HasRoom, Goes
<1> QED  BY <1>3, ShareAside DEF Goes

(* Reading the sum and judging the shares by it. *)
LEMMA ShareReads ==
  ASSUME IsFiniteSet(Settlements), ShareInv, CashierInv', NEW r \in Requests,
         ReadSettled(r) \/ CheckShares(r) \/ CheckBounces(r)
  PROVE  ShareInv'
<1>1. /\ Shapes /\ Shapes' /\ Shaped /\ DraftedFirst /\ ReadsFit(r)
      /\ settlement' = settlement /\ PaidOnes' = PaidOnes
  BY DEF ShareInv, CashierInv, Shaped, Shapes, PaidOnes, Is, ReadSettled, CheckShares,
         CheckBounces
<1>2. \A i \in Invoices : Paid(i)' = Paid(i)
  BY <1>1, PaidStays
<1>3. \A i \in Invoices : Paid(i) \in Nat /\ Paid(i) <= Parts /\ Settled(i) = Paid(i)
  BY <1>1, SettledIs, SettlementAssumption DEF ShareInv, PaidOnce
<1>4. CASE ReadSettled(r)
  <2> DEFINE done == [i \in Invoices |-> Settled(i)]
  <2>1. \A i \in Invoices : done[i] = Paid(i)
    BY <1>3
  <2>2. Go(r, [at |-> "shares", s |-> req[r].s, done |-> done])
    BY <1>4 DEF ReadSettled
  <2> HIDE DEF done
  <2>3. Others(r) /\ req'[r] = [at |-> "shares", s |-> req[r].s, done |-> done]
    BY <1>1, <2>2, GoIs
  <2>4. HasRoom(r)'
    BY <1>2, <2>1, <2>3 DEF HasRoom
  <2> QED  BY <1>1, <2>3, <2>4, ShareAside
<1>5. CASE CheckShares(r)
  <2> DEFINE d == settlement[req[r].s]
  <2>1. req[r] # NoRequest /\ req[r].at = "shares"
    BY <1>5 DEF CheckShares, Resume
  <2>2. d \in Drafted
    BY <1>1, <2>1 DEF DraftedFirst, OnSettlement
  <2>3. ASSUME NEW i \in Invoices
        PROVE  d.share[i] + Paid(i) <= Parts
    <3>1. req[r].done[i] = Paid(i)
      BY <2>1 DEF ShareInv, HasRoom
    <3>2. d.share[i] <= Max({0, collected[i] - Paid(i)})
      BY <1>5, <3>1 DEF CheckShares, Room
    <3>3. d.share[i] \in 0..Parts /\ collected[i] \in 0..Parts
      BY <1>1, <2>2 DEF Drafted, Shares, Shapes
    <3> HIDE DEF d
    <3>4. collected[i] - Paid(i) \in Int
      BY <1>3, <3>3, SettlementAssumption
    <3>5. Max({0, collected[i] - Paid(i)})
          = (IF collected[i] - Paid(i) >= 0 THEN collected[i] - Paid(i) ELSE 0)
      BY <3>4, AtLeastZero, Zenon
    <3> QED  BY <1>3, <3>2, <3>3, <3>5, SettlementAssumption
  <2>4. Others(r) /\ req'[r] = [at |-> "bounces", s |-> req[r].s]
    BY <1>1, <1>5, GoIs DEF CheckShares
  <2>5. HasRoom(r)'
    BY <1>1, <1>2, <2>3, <2>4 DEF HasRoom
  <2> QED  BY <1>1, <2>4, <2>5, ShareAside
<1>6. CASE CheckBounces(r)
  <2>1. req[r] # NoRequest /\ req[r].at = "bounces"
    BY <1>6 DEF CheckBounces, Resume
  <2>2. Others(r) /\ req'[r] = [at |-> "payout", s |-> req[r].s]
    BY <1>1, <1>6, GoIs DEF CheckBounces
  <2>3. HasRoom(r)'
    BY <1>1, <1>2, <2>1, <2>2 DEF ShareInv, HasRoom
  <2> QED  BY <1>1, <2>2, <2>3, ShareAside
<1> QED  BY <1>4, <1>5, <1>6

(* A new draft is not paid, and nobody works on it. *)
LEMMA ShareDrafts ==
  ASSUME IsFiniteSet(Settlements), ShareInv, CashierInv', NEW r \in Requests,
         NEW s \in Settlements, SaveDraft(r, s)
  PROVE  ShareInv'
<1>0. Shaped /\ Shapes /\ Shapes'
  BY DEF ShareInv, CashierInv, Shaped
<1>1. /\ settlement[s] = Unused /\ Finish(r)
      /\ settlement'[s].status = "DRAFT"
      /\ \A t \in Settlements \ {s} : settlement'[t] = settlement[t]
  BY <1>0 DEF SaveDraft, Shapes
<1>2. Others(r) /\ req'[r] = NoRequest
  BY <1>0, <1>1, GoIs DEF Finish
<1>3. PaidOnes' = PaidOnes /\ s \notin PaidOnes
  BY <1>1 DEF PaidOnes, Is, Unused
<1>4. \A i \in Invoices : Paid(i)' = Paid(i)
  BY <1>0, <1>1, <1>3, PaidStays DEF PaidOnes
<1>5. PaidIsOut' /\ PaidOnce'
  BY <1>1, <1>3, <1>4 DEF ShareInv, PaidIsOut, PaidOnce, PaidOnes, PaidOut
<1>6. ASSUME NEW q \in Requests
      PROVE  HasRoom(q)'
  <2>1. CASE q = r
    BY <1>2, <2>1 DEF HasRoom
  <2>2. CASE q # r /\ req[q] # NoRequest /\ req[q].at \in OnSettlement
    <3>1. Unused \notin Drafted
      BY DEF Unused, Drafted
    <3>2. req'[q] = req[q] /\ req[q].s \in Settlements /\ req[q].s # s
      BY <1>0, <1>1, <1>2, <2>2, <3>1 DEF Others, Shaped, Shapes, DraftedFirst, ReadsFit
    <3>3. settlement'[req[q].s] = settlement[req[q].s]
      BY <1>1, <3>2
    <3> QED  BY <1>4, <2>2, <3>2, <3>3 DEF ShareInv, HasRoom
  <2>3. CASE q # r /\ ~(req[q] # NoRequest /\ req[q].at \in OnSettlement)
    BY <1>2, <2>3 DEF Others, HasRoom, OnSettlement
  <2> QED  BY <2>1, <2>2, <2>3
<1> QED  BY <1>5, <1>6 DEF ShareInv

(* Paying adds the shares for which there is room; cancelling changes      *)
(* nothing that is paid; nobody else is at the cashier's. *)
LEMMA ShareWrites ==
  ASSUME OneCashier, IsFiniteSet(Settlements), ShareInv, CashierInv', NEW r \in Requests,
         PayOut(r) \/ WriteCancel(r)
  PROVE  ShareInv'
<1> DEFINE s == req[r].s
<1>0. Shaped /\ Shapes /\ Shapes' /\ CashierInv
  BY DEF ShareInv, CashierInv, Shaped
<1>1. req[r] # NoRequest /\ req[r].at \in OnSettlement /\ Finish(r)
  BY DEF PayOut, WriteCancel, Resume, OnSettlement
<1>2. s \in Settlements /\ settlement[s] \in Drafted
  BY <1>0, <1>1 DEF Shaped, Shapes, DraftedFirst, ReadsFit
<1>3. Others(r) /\ req'[r] = NoRequest
  BY <1>0, <1>1, GoIs DEF Finish
<1>4. ASSUME NEW q \in Requests
      PROVE  HasRoom(q)'
  <2>1. q # r => ~(req'[q] # NoRequest /\ req'[q].at \in OnSettlement)
    BY <1>0, <1>1, <1>3 DEF OneCashier, CashierInv, AtTheCashier, Others
  <2> QED  BY <1>3, <2>1 DEF HasRoom, OnSettlement
<1>5. \A t \in Settlements \ {s} : settlement'[t] = settlement[t]
  BY <1>0 DEF PayOut, WriteCancel, Shapes
<1>6. settlement'[s].share = settlement[s].share /\ settlement'[s] # Unused
  <2>1. settlement'[s].share = settlement[s].share
    BY <1>0, <1>2 DEF PayOut, WriteCancel, Shapes, Drafted
  <2>2. settlement'[s].status \in {"PAID", "CANCELLED"}
    BY <1>0, <1>2 DEF PayOut, WriteCancel, Shapes, Drafted
  <2> QED  BY <2>1, <2>2 DEF Unused
<1>7. CASE PayOut(r)
  <2>1. settlement'[s].status = "PAID" /\ settlement'[s].paidAt = TRUE
    BY <1>0, <1>2, <1>7 DEF PayOut, Shapes, Drafted
  <2>2. s \notin PaidOnes /\ req[r].at = "payout"
    BY <1>7 DEF PayOut, Resume, PaidOnes, Is
  <2>3. PaidOnes' = PaidOnes \cup {s}
    BY <1>2, <1>5, <2>1 DEF PaidOnes, Is
  <2>4. PaidIsOut'
    BY <1>2, <1>5, <1>6, <2>1, <2>3 DEF ShareInv, PaidIsOut, PaidOut, PaidOnes
  <2>5. ASSUME NEW i \in Invoices
        PROVE  Paid(i)' <= Parts
    <3> DEFINE f == ShareOf(i)
               h == ShareOf(i)'
    <3>1. Summable(f, PaidOnes)
      BY <1>0, ShareIsNat, FS_Subset, SettlementAssumption DEF Summable, PaidOnes
    <3>2. settlement'[s] \in Drafted
      BY <1>0, <1>2, <1>6 DEF Shapes
    <3>3. h[s] = settlement[s].share[i] /\ h[s] \in Int
      BY <1>0, <1>2, <1>6, <3>2, SettlementAssumption DEF ShareOf, Drafted, Shares
    <3>4. \A t \in PaidOnes : h[t] = f[t]
      BY <1>5, <2>2 DEF ShareOf, PaidOnes
    <3>5. Paid(i) = SumOf(f, PaidOnes) /\ Paid(i)' = SumOf(h, PaidOnes \cup {s})
      BY <2>3 DEF Paid
    <3>6. settlement[s].share[i] + Paid(i) <= Parts
      BY <1>1, <2>2 DEF ShareInv, HasRoom
    <3>7. Paid(i) \in Nat
      BY <1>0, SettledIs
    <3> HIDE DEF f, h, s
    <3>8. SumOf(h, PaidOnes \cup {s}) = SumOf(f, PaidOnes) + h[s]
      <4>1. s \notin PaidOnes
        BY <2>2
      <4>2. h[s] \in Int
        BY <3>3
      <4>3. \A y \in PaidOnes : h[y] = f[y]
        BY <3>4
      <4> QED  BY <3>1, <4>1, <4>2, <4>3, SumWith
    <3>9. Paid(i)' = Paid(i) + settlement[s].share[i]
      BY <3>3, <3>5, <3>8
    <3> QED  BY <3>3, <3>6, <3>7, <3>9
  <2> QED  BY <1>4, <2>4, <2>5 DEF ShareInv, PaidOnce
<1>8. CASE WriteCancel(r)
  <2>1. settlement'[s].status = "CANCELLED"
    BY <1>0, <1>2, <1>8 DEF WriteCancel, Shapes, Drafted
  <2>2. s \notin PaidOnes
    BY <1>0, <1>1, <1>8 DEF WriteCancel, Resume, CashierInv, AtTheCashier, PaidOnes
  <2>3. PaidOnes' = PaidOnes
    BY <1>5, <2>1, <2>2 DEF PaidOnes, Is
  <2>4. \A i \in Invoices : Paid(i)' = Paid(i)
    BY <1>0, <1>5, <1>6, <2>3, PaidStays DEF PaidOnes
  <2>5. PaidIsOut' /\ PaidOnce'
    BY <1>5, <2>2, <2>3, <2>4 DEF ShareInv, PaidIsOut, PaidOnce, PaidOut, PaidOnes
  <2> QED  BY <1>4, <2>5 DEF ShareInv
<1> QED  BY <1>7, <1>8

(* Every step keeps the facts of shares. *)
LEMMA ShareKept ==
  ASSUME OneCashier, IsFiniteSet(Settlements), ShareInv, [AgentNext]_agentVars
  PROVE  ShareInv'
<1>0. Shaped /\ CashierInv'
  BY CashierKept DEF ShareInv, CashierInv
<1>1. ASSUME NEW r \in Requests, SettlementStep(r)
      PROVE  ShareInv'
  <2>1. ASSUME NEW share \in Shares, NEW cs \in SUBSET Covers, NEW ks \in SUBSET Cheques,
               VerifyDraft(r, share, cs, ks)
        PROVE  ShareInv'
    <3>1. settlement' = settlement /\ Goes(r, {"draft"})
      BY <1>0, <2>1, GoIs DEF VerifyDraft, Goes, Shaped
    <3> QED  BY <1>0, <3>1, ShareUntouched
  <2>2. ASSUME NEW t \in Settlements, StartPay(r, t) \/ ReadCancel(r, t)
        PROVE  ShareInv'
    <3>1. settlement' = settlement /\ Goes(r, {"figures", "cancel"})
      BY <1>0, <2>2, GoIs DEF StartPay, ReadCancel, Goes, Shaped
    <3> QED  BY <1>0, <3>1, ShareUntouched
  <2>3. CASE CheckFigures(r)
    <3>1. settlement' = settlement /\ Goes(r, {"settled"})
      BY <1>0, <2>3, GoIs DEF CheckFigures, Goes, Shaped
    <3> QED  BY <1>0, <3>1, ShareUntouched
  <2> QED  BY <1>0, <1>1, <2>1, <2>2, <2>3, ShareReads, ShareDrafts, ShareWrites, Zenon
              DEF SettlementStep
<1>2. ASSUME NEW r \in Requests, DeductionStep(r)
      PROVE  ShareInv'
  BY <1>0, <1>2, DeductionPlaces, ShareUntouched DEF OnCheque
<1>3. ASSUME NEW r \in Requests, InvoiceStep(r)
      PROVE  ShareInv'
  BY <1>0, <1>3, InvoicePlaces, ShareUntouched
<1>4. ASSUME NEW r \in Requests, Drop(r)
      PROVE  ShareInv'
  BY <1>0, <1>4, DropPlaces, ShareUntouched
<1>5. CASE UNCHANGED agentVars
  <2>1. Shapes /\ Shapes' /\ PaidOnes' = PaidOnes /\ settlement' = settlement /\ req' = req
    BY <1>0, <1>5 DEF agentVars, CashierInv, Shaped, PaidOnes, Is
  <2>2. \A i \in Invoices : Paid(i)' = Paid(i)
    BY <2>1, PaidStays
  <2> QED  BY <1>0, <2>1, <2>2 DEF ShareInv, PaidIsOut, PaidOnce, HasRoom, PaidOut
<1> QED  BY <1>1, <1>2, <1>3, <1>4, <1>5, Zenon DEF AgentNext

(* With one cashier no more is paid out of an invoice than the whole of    *)
(* it, however many drafts were made over it and whatever was received or  *)
(* edited since (paySettlement: "what must never happen is the total       *)
(* claimed exceeding what the party has actually paid"). *)
THEOREM ShareIsPaidOnce ==
  ASSUME OneCashier, IsFiniteSet(Settlements)
  PROVE  AgentSpec => []ShareOnce
<1>1. AgentInit => ShareInv
  <2>1. SUFFICES ASSUME AgentInit PROVE ShareInv
    OBVIOUS
  <2>2. CashierInv /\ \A r \in Requests : HasRoom(r)
    BY <2>1, SettlementAssumption
       DEF AgentInit, CashierInv, Shaped, Shapes, DraftedFirst, ReadsFit, AtTheCashier,
           BounceTakenOnce, PaidStaysPaid, PaidOut, Unused, HasRoom
  <2>3. PaidOnes = {}
    BY <2>1 DEF AgentInit, PaidOnes, Is, Unused
  <2>4. \A i \in Invoices : Paid(i) = 0
    BY <2>3, FS_EmptySet, SumOne DEF Paid, Summable
  <2> QED  BY <2>2, <2>3, <2>4, SettlementAssumption DEF ShareInv, PaidIsOut, PaidOnce
<1>2. ShareInv /\ [AgentNext]_agentVars => ShareInv'
  BY ShareKept
<1>3. ShareInv => ShareOnce
  <2>1. SUFFICES ASSUME ShareInv, NEW i \in Invoices
                 PROVE  MapThenSumSet(LAMBDA s : settlement[s].share[i], PaidOut) <= Parts
    BY DEF ShareOnce
  <2>2. PaidOut = PaidOnes /\ Shapes
    BY <2>1 DEF ShareInv, CashierInv, Shaped, PaidIsOut, PaidStaysPaid, PaidOnes, PaidOut
  <2>3. MapThenSumSet(LAMBDA s : settlement[s].share[i], PaidOut) = Paid(i)
    BY <2>2, PaidIsSum DEF Paid
  <2> QED  BY <2>1, <2>3 DEF ShareInv, PaidOnce
<1> QED  BY <1>1, <1>2, <1>3, PTL DEF AgentSpec
=============================================================================
