----------------------------- MODULE Settlement -----------------------------
(***************************************************************************)
(* Commission of one agent: what his invoices earn, the settlements that   *)
(* pay it out, and what they deduct, in                                    *)
(* apps/api/src/agent-commission/agent-commission.service.ts; with it the  *)
(* cheques whose bounces are deducted (cheques/cheques.service.ts).        *)
(*                                                                         *)
(* An agent earns on an invoice in proportion to what the party has paid.  *)
(* Shares of an invoice are counted in parts; Parts is the whole.  A draft *)
(* is a snapshot and reserves nothing: paying it checks everything again,  *)
(* read by read, and only then claims the draft in a transaction.          *)
(***************************************************************************)
EXTENDS Integers, FiniteSetsExt

CONSTANTS
  Invoices,     (* the agent's invoices, each with one category            *)
  Settlements,  (* ids of settlements, handed out once each                *)
  Covers,       (* ids of covers: the agent paid one part for the party    *)
  Covered,      (* the invoice of each cover                               *)
  Cheques,      (* cheques the agent brought, each bouncing once at most   *)
  Requests,
  Parts,        (* the parts of an invoice                                 *)
  MaxQty,       (* the largest quantity of an invoice                      *)
  Duties        (* the operations of each request, see OperationNames      *)

OperationNames ==
  {"draft", "pay", "cancel", "cover", "recover", "bounce", "cheque",
   "invoice", "receipt"}

ASSUME SettlementAssumption ==
  /\ Parts \in Nat \ {0} /\ MaxQty \in Nat \ {0}
  /\ Covered \in [Covers -> Invoices]
  /\ Duties \in [Requests -> SUBSET OperationNames]

VARIABLES
  qty,         (* invoice: its quantity, 0 while it is cancelled           *)
  accrual,     (* invoice: the quantity that earns commission, 0 for none  *)
  collected,   (* invoice: the parts that the party has paid               *)
  settlement,  (* settlement: its lines, deductions and status             *)
  cover,       (* cover: not given yet, OPEN or RECOVERED                  *)
  cheque,      (* cheque: its status                                       *)
  bounce,      (* cheque: whether a bounce is recorded for it, "new" until *)
               (* the bounce has marked its cheque                         *)
  req          (* request: what it has read and where it is                *)

agentVars == <<qty, accrual, collected, settlement, cover, cheque, bounce, req>>
bills   == <<qty, accrual, collected>>
cheques == <<cheque, bounce>>

-----------------------------------------------------------------------------
Shares == [Invoices -> 0..Parts]
Drafts == [share: Shares, qty: [Invoices -> 0..MaxQty],
           covers: SUBSET Covers, bounces: SUBSET Cheques]
Unused == [status |-> "UNUSED"]

NoRequest == [at |-> "idle"]
RequestStates ==
  {NoRequest}
  \cup [at: {"draft"}, draft: Drafts]
  \cup [at: {"figures", "settled", "bounces", "payout", "cancel"}, s: Settlements]
  \cup [at: {"shares"}, s: Settlements, done: Shares]
  \cup [at: {"cover", "recover"}, c: Covers]
  \cup [at: {"bounce", "mark", "unbounce", "deposit", "clear", "return", "remove"},
        k: Cheques]
  \cup [at: {"rebuild"}, i: Invoices]
  \cup [at: {"erase", "write"}, i: Invoices, q: 0..MaxQty]

May(r, op)       == req[r] = NoRequest /\ op \in Duties[r]
Resume(r, place) == req[r] # NoRequest /\ req[r].at = place
Go(r, state)     == req' = [req EXCEPT ![r] = state]
Finish(r)        == Go(r, NoRequest)

Is(s, st)        == settlement[s].status = st
PaidOnes         == {s \in Settlements : Is(s, "PAID")}
(* settledState: what paid settlements have claimed of an invoice. *)
Settled(i)       == Min({Parts, MapThenSumSet(LAMBDA s : settlement[s].share[i], PaidOnes)})
(* claimableRatio *)
Room(had, done)  == Max({0, had - done})
Taken(k)         == \E s \in PaidOnes : k \in settlement[s].bounces
Bounced(k)       == bounce[k] \in {"new", "recorded"}
OpenCovers(i)    == {c \in Covers : Covered[c] = i /\ cover[c] = "OPEN"}

AgentInit ==
  /\ qty = [i \in Invoices |-> 1]
  /\ accrual = qty
  /\ collected = [i \in Invoices |-> 0]
  /\ settlement = [s \in Settlements |-> Unused]
  /\ cover = [c \in Covers |-> "none"]
  /\ cheque = [k \in Cheques |-> "PENDING"]
  /\ bounce = [k \in Cheques |-> "none"]
  /\ req = [r \in Requests |-> NoRequest]

-----------------------------------------------------------------------------
(* createSettlement: verifyLines and verifyDeductions, then the draft.     *)
(* The reads are one step here: paying repeats those that matter.          *)

VerifyDraft(r, share, cs, ks) ==
  /\ May(r, "draft")
  /\ \E i \in Invoices : share[i] > 0
  /\ \A i \in Invoices : share[i] > 0 =>
       accrual[i] > 0 /\ share[i] <= Room(collected[i], Settled(i))
  /\ \A c \in cs : cover[c] = "OPEN"
  /\ \A k \in ks : Bounced(k) /\ ~Taken(k)
  /\ Go(r, [at |-> "draft",
            draft |-> [share |-> share, qty |-> accrual, covers |-> cs, bounces |-> ks]])
  /\ UNCHANGED <<bills, settlement, cover, cheques>>

SaveDraft(r, s) ==
  /\ Resume(r, "draft")
  /\ settlement[s] = Unused
  /\ settlement' = [settlement EXCEPT ![s] =
       [status |-> "DRAFT", paidAt |-> FALSE, share |-> req[r].draft.share,
        qty |-> req[r].draft.qty, covers |-> req[r].draft.covers,
        bounces |-> req[r].draft.bounces]]
  /\ Finish(r)
  /\ UNCHANGED <<bills, cover, cheques>>

-----------------------------------------------------------------------------
(* paySettlement *)

StartPay(r, s) ==
  /\ May(r, "pay")
  /\ Is(s, "DRAFT")
  /\ Go(r, [at |-> "figures", s |-> s])
  /\ UNCHANGED <<bills, settlement, cover, cheques>>

CheckFigures(r) ==
  LET d == settlement[req[r].s]
  IN
  /\ Resume(r, "figures")
  /\ \A i \in Invoices : d.share[i] > 0 => accrual[i] > 0 /\ accrual[i] = d.qty[i]
  /\ Go(r, [at |-> "settled", s |-> req[r].s])
  /\ UNCHANGED <<bills, settlement, cover, cheques>>

ReadSettled(r) ==
  /\ Resume(r, "settled")
  /\ Go(r, [at |-> "shares", s |-> req[r].s,
            done |-> [i \in Invoices |-> Settled(i)]])
  /\ UNCHANGED <<bills, settlement, cover, cheques>>

(* Mutant: the draft is compared with what the party paid, not with what   *)
(* is left of it. *)
ChecksCollectedOnly(r) ==
  LET d == settlement[req[r].s]
  IN
  /\ Resume(r, "shares")
  /\ \A i \in Invoices : d.share[i] <= collected[i]
  /\ Go(r, [at |-> "bounces", s |-> req[r].s])
  /\ UNCHANGED <<bills, settlement, cover, cheques>>

CheckShares(r) ==
  LET d == settlement[req[r].s]
  IN
  /\ Resume(r, "shares")
  /\ \A i \in Invoices : d.share[i] <= Room(collected[i], req[r].done[i])
  /\ Go(r, [at |-> "bounces", s |-> req[r].s])
  /\ UNCHANGED <<bills, settlement, cover, cheques>>

(* Mutant: bounces are checked when the draft is made, and then no more. *)
TrustsTheDraft(r) ==
  /\ Resume(r, "bounces")
  /\ Go(r, [at |-> "payout", s |-> req[r].s])
  /\ UNCHANGED <<bills, settlement, cover, cheques>>

CheckBounces(r) ==
  /\ Resume(r, "bounces")
  /\ \A k \in settlement[req[r].s].bounces : ~Taken(k)
  /\ Go(r, [at |-> "payout", s |-> req[r].s])
  /\ UNCHANGED <<bills, settlement, cover, cheques>>

(* The transaction: claim the draft, close its covers that are open. *)
PayOut(r) ==
  LET s == req[r].s
  IN
  /\ Resume(r, "payout")
  /\ Is(s, "DRAFT")
  /\ settlement' = [settlement EXCEPT ![s].status = "PAID", ![s].paidAt = TRUE]
  /\ cover' = [c \in Covers |->
       IF c \in settlement[s].covers THEN "RECOVERED" ELSE cover[c]]
  /\ Finish(r)
  /\ UNCHANGED <<bills, cheques>>

(* cancelSettlement *)
ReadCancel(r, s) ==
  /\ May(r, "cancel")
  /\ ~Is(s, "UNUSED") /\ ~Is(s, "PAID")
  /\ Go(r, [at |-> "cancel", s |-> s])
  /\ UNCHANGED <<bills, settlement, cover, cheques>>

WriteCancel(r) ==
  /\ Resume(r, "cancel")
  /\ settlement' = [settlement EXCEPT ![req[r].s].status = "CANCELLED"]
  /\ Finish(r)
  /\ UNCHANGED <<bills, cover, cheques>>

-----------------------------------------------------------------------------
(* createCover and recoverCover *)

ReadCover(r, c) ==
  /\ May(r, "cover")
  /\ cover[c] = "none"
  /\ Cardinality(OpenCovers(Covered[c])) < Parts - collected[Covered[c]]
  /\ Go(r, [at |-> "cover", c |-> c])
  /\ UNCHANGED <<bills, settlement, cover, cheques>>

WriteCover(r) ==
  /\ Resume(r, "cover")
  /\ cover' = [cover EXCEPT ![req[r].c] = "OPEN"]
  /\ Finish(r)
  /\ UNCHANGED <<bills, settlement, cheques>>

ReadRecover(r, c) ==
  /\ May(r, "recover")
  /\ cover[c] = "OPEN"
  /\ Go(r, [at |-> "recover", c |-> c])
  /\ UNCHANGED <<bills, settlement, cover, cheques>>

WriteRecover(r) ==
  /\ Resume(r, "recover")
  /\ cover' = [cover EXCEPT ![req[r].c] = "RECOVERED"]
  /\ Finish(r)
  /\ UNCHANGED <<bills, settlement, cheques>>

-----------------------------------------------------------------------------
(* Cheques: deposit, settle, remove; createBounce and deleteBounce. *)

(* Mutant: any cheque that is not deleted can be settled. *)
SettlesAnyCheque(r, k, to) ==
  /\ May(r, "cheque")
  /\ \/ to = "deposit" /\ cheque[k] = "PENDING"
     \/ to # "deposit" /\ cheque[k] # "DELETED"
  /\ Go(r, [at |-> to, k |-> k])
  /\ UNCHANGED <<bills, settlement, cover, cheques>>

(* deposit, settle and remove: the check, ... *)
ReadCheque(r, k, to) ==
  /\ May(r, "cheque")
  /\ \/ to = "deposit" /\ cheque[k] = "PENDING"
     \/ to \in {"clear", "return"} /\ cheque[k] = "DEPOSITED"
     \/ to = "remove" /\ cheque[k] # "DELETED"
  /\ Go(r, [at |-> to, k |-> k])
  /\ UNCHANGED <<bills, settlement, cover, cheques>>

ChequeStatus ==
  [deposit |-> "DEPOSITED", clear |-> "CLEARED", return |-> "BOUNCED", remove |-> "DELETED"]

(* ... and the write.  Deleting a cheque deletes its bounce. *)
WriteCheque(r) ==
  /\ req[r] # NoRequest /\ req[r].at \in DOMAIN ChequeStatus
  /\ cheque[req[r].k] # "DELETED"
  /\ cheque' = [cheque EXCEPT ![req[r].k] = ChequeStatus[req[r].at]]
  /\ bounce' = IF req[r].at = "remove" /\ Bounced(req[r].k)
               THEN [bounce EXCEPT ![req[r].k] = "deleted"] ELSE bounce
  /\ Finish(r)
  /\ UNCHANGED <<bills, settlement, cover>>

ReadBounce(r, k) ==
  /\ May(r, "bounce")
  /\ cheque[k] \notin {"CLEARED", "DELETED"} /\ bounce[k] = "none"
  /\ Go(r, [at |-> "bounce", k |-> k])
  /\ UNCHANGED <<bills, settlement, cover, cheques>>

(* The bounce, ... *)
WriteBounce(r) ==
  /\ Resume(r, "bounce")
  /\ cheque[req[r].k] # "DELETED"
  /\ bounce' = [bounce EXCEPT ![req[r].k] = "new"]
  /\ Go(r, [at |-> "mark", k |-> req[r].k])
  /\ UNCHANGED <<bills, settlement, cover, cheque>>

(* ... then the status of its cheque. *)
MarkBounced(r) ==
  /\ Resume(r, "mark")
  /\ cheque[req[r].k] # "DELETED"
  /\ cheque' = [cheque EXCEPT ![req[r].k] = "BOUNCED"]
  /\ bounce' = IF bounce[req[r].k] = "new"
               THEN [bounce EXCEPT ![req[r].k] = "recorded"] ELSE bounce
  /\ Finish(r)
  /\ UNCHANGED <<bills, settlement, cover>>

ReadUnbounce(r, k) ==
  /\ May(r, "bounce")
  /\ Bounced(k) /\ ~Taken(k)
  /\ Go(r, [at |-> "unbounce", k |-> k])
  /\ UNCHANGED <<bills, settlement, cover, cheques>>

DeleteBounce(r) ==
  /\ Resume(r, "unbounce")
  /\ Bounced(req[r].k)
  /\ bounce' = [bounce EXCEPT ![req[r].k] = "deleted"]
  /\ Finish(r)
  /\ UNCHANGED <<bills, settlement, cover, cheque>>

-----------------------------------------------------------------------------
(* Invoices and receipts *)

(* Mutant: a receipt above the invoice is not cut to the whole of it. *)
ReceiveUncapped(r, i, n) ==
  /\ May(r, "receipt")
  /\ collected[i] # n
  /\ collected' = [collected EXCEPT ![i] = @ + n]
  /\ UNCHANGED <<qty, accrual, settlement, cover, cheques, req>>

(* Receipts change what the party has paid. *)
Receive(r, i, n) ==
  /\ May(r, "receipt")
  /\ collected[i] # n
  /\ collected' = [collected EXCEPT ![i] = n]
  /\ UNCHANGED <<qty, accrual, settlement, cover, cheques, req>>

(* A challan is edited, cancelled or reinstated, and with it the parts     *)
(* that are paid of it, ... *)
ChangeInvoice(r, i, q, n) ==
  /\ May(r, "invoice")
  /\ q # qty[i]
  /\ qty' = [qty EXCEPT ![i] = q]
  /\ collected' = [collected EXCEPT ![i] = n]
  /\ Go(r, [at |-> "rebuild", i |-> i])
  /\ UNCHANGED <<accrual, settlement, cover, cheques>>

(* ... and rebuildForChallan reads it, deletes its commission and creates  *)
(* it anew. *)
ReadInvoice(r) ==
  /\ Resume(r, "rebuild")
  /\ Go(r, [at |-> "erase", i |-> req[r].i, q |-> qty[req[r].i]])
  /\ UNCHANGED <<bills, settlement, cover, cheques>>

EraseAccrual(r) ==
  /\ Resume(r, "erase")
  /\ accrual' = [accrual EXCEPT ![req[r].i] = 0]
  /\ IF req[r].q = 0 THEN Finish(r)
     ELSE Go(r, [at |-> "write", i |-> req[r].i, q |-> req[r].q])
  /\ UNCHANGED <<qty, collected, settlement, cover, cheques>>

WriteAccrual(r) ==
  /\ Resume(r, "write")
  /\ accrual[req[r].i] = 0         (* the unique key of an accrual *)
  /\ accrual' = [accrual EXCEPT ![req[r].i] = req[r].q]
  /\ Finish(r)
  /\ UNCHANGED <<qty, collected, settlement, cover, cheques>>

(* A check or a write is refused: the request ends.  A failed rebuild is   *)
(* swallowed. *)
Drop(r) ==
  /\ req[r] # NoRequest
  /\ Finish(r)
  /\ UNCHANGED <<bills, settlement, cover, cheques>>

SettlementStep(r) ==
  \/ \E share \in Shares, cs \in SUBSET Covers, ks \in SUBSET Cheques :
       VerifyDraft(r, share, cs, ks)
  \/ \E s \in Settlements : SaveDraft(r, s) \/ StartPay(r, s) \/ ReadCancel(r, s)
  \/ CheckFigures(r) \/ ReadSettled(r) \/ CheckShares(r) \/ CheckBounces(r)
  \/ PayOut(r) \/ WriteCancel(r)

DeductionStep(r) ==
  \/ \E c \in Covers : ReadCover(r, c) \/ ReadRecover(r, c)
  \/ WriteCover(r) \/ WriteRecover(r)
  \/ \E k \in Cheques : ReadBounce(r, k) \/ ReadUnbounce(r, k)
  \/ \E k \in Cheques, to \in DOMAIN ChequeStatus : ReadCheque(r, k, to)
  \/ WriteCheque(r) \/ WriteBounce(r) \/ MarkBounced(r) \/ DeleteBounce(r)

InvoiceStep(r) ==
  \/ \E i \in Invoices, n \in 0..Parts : Receive(r, i, n)
  \/ \E i \in Invoices, q \in 0..MaxQty, n \in 0..Parts : ChangeInvoice(r, i, q, n)
  \/ ReadInvoice(r) \/ EraseAccrual(r) \/ WriteAccrual(r)

AgentNext ==
  \E r \in Requests : SettlementStep(r) \/ DeductionStep(r) \/ InvoiceStep(r) \/ Drop(r)

AgentSpec == AgentInit /\ [][AgentNext]_agentVars

-----------------------------------------------------------------------------
(* Properties *)

AgentTypeOK ==
  /\ qty \in [Invoices -> 0..MaxQty]
  /\ accrual \in [Invoices -> 0..MaxQty]
  /\ collected \in [Invoices -> 0..Parts]
  /\ \A s \in Settlements :
       settlement[s] # Unused =>
         /\ settlement[s].status \in {"DRAFT", "PAID", "CANCELLED"}
         /\ settlement[s].share \in Shares
         /\ settlement[s].covers \subseteq Covers
         /\ settlement[s].bounces \subseteq Cheques
  /\ cover \in [Covers -> {"none", "OPEN", "RECOVERED"}]
  /\ cheque \in [Cheques -> {"PENDING", "DEPOSITED", "CLEARED", "BOUNCED", "DELETED"}]
  /\ bounce \in [Cheques -> {"none", "new", "recorded", "deleted"}]
  /\ req \in [Requests -> RequestStates]

PaidOut == {s \in Settlements : settlement[s] # Unused /\ settlement[s].paidAt}

(* Of an invoice no more is ever paid out than the whole of it, however    *)
(* many drafts were made over it and whatever changed since they were      *)
(* (paySettlement: "what must never happen is the total claimed            *)
(* exceeding what the party has actually paid").                           *)
ShareOnce ==
  \A i \in Invoices :
    MapThenSumSet(LAMBDA s : settlement[s].share[i], PaidOut) <= Parts

(* A bounce is deducted from the agent on one paid settlement at most.     *)
BounceTakenOnce ==
  \A s, t \in PaidOut : s # t => settlement[s].bounces \cap settlement[t].bounces = {}

(* "A cheque that cleared cannot also have bounced" (createBounce): no      *)
(* cheque is CLEARED over a bounce, unless recording the bounce stopped    *)
(* before its second write.                                                *)
ClearedHasNotBounced ==
  \A k \in Cheques : cheque[k] = "CLEARED" => bounce[k] # "recorded"

(* "Close every cover this settlement recouped, so it can't be taken       *)
(* twice" (paySettlement).                                                 *)
CoverTakenOnce ==
  \A s, t \in PaidOut : s # t => settlement[s].covers \cap settlement[t].covers = {}
=============================================================================
