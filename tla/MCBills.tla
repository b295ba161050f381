------------------------------ MODULE MCBills ------------------------------
(***************************************************************************)
(* The bills of one party: the goods they bill, and the receipts and notes *)
(* that settle them.  Nothing in DispatchBilling looks at a receipt and    *)
(* nothing in Receipts and Notes at a line, so an execution is one of      *)
(* them, with the other at rest, and each is split once more:              *)
(*   screen   one screen at work on rows and challans, nothing reinstated  *)
(*   screens  three of them, creating, cancelling, reinstating and         *)
(*            deleting challans and deleting rows                          *)
(*   typing   receipts for no bill in particular, typed in any order over  *)
(*            bills that stay as they are                                  *)
(*   naming   receipts of every kind over the same bills                   *)
(*   bills    a bill and the opening balance changed under receipts        *)
(*   credit   credit notes and receipts over bills that stay as they are   *)
(*   debit    a debit note under receipts                                  *)
(***************************************************************************)
EXTENDS DispatchBilling, Notes, TLC

CONSTANTS d1, d2, c1, c2, r1, r2, r3

VARIABLE part

AllOperations  == OperationNames
ReinstatingOps == {"create", "cancel", "reinstate", "delete"}

(* Rows, challans and requests are interchangeable. *)
Interchangeable ==
  Permutations({d1, d2}) \cup Permutations({c1, c2}) \cup Permutations({r1, r2, r3})

(***************************************************************************)
(* The goods.                                                              *)
(***************************************************************************)
Started  == {r \in Requests : req[r] = Idle /\ req'[r] # Idle}
Busy     == {r \in Requests : req[r] # Idle}
Reviving == {r \in Started : /\ req'[r].at \in {"opened", "statusRead"}
                             /\ status[req'[r].c] = "CANCELLED" /\ req'[r].to = "CONFIRMED"}

Screen == part = "screen" /\ (Started # {} => Busy = {}) /\ Reviving = {}

(* A confirmed challan is not confirmed again, and none is edited. *)
Screens ==
  /\ part = "screens"
  /\ \A r \in Started :
       \/ req'[r].at \in {"drafted", "deleteRead"}
       \/ req'[r].at = "statusRead" /\ (req'[r].to = "CONFIRMED" => r \in Reviving)

(***************************************************************************)
(* The receipts.                                                           *)
(***************************************************************************)
Owed == {0, 2, -2}

MoneyParts == {"typing", "naming", "bills", "credit", "debit"}

Sale(day, amt) == [on |-> TRUE, date |-> day, amt |-> amt, kept |-> FALSE, debit |-> FALSE]

(* A bill on each day; even amounts name no bills. *)
TwoBills == <<Sale(1, 3), Sale(2, 5)>>
OneSale  == <<Sale(1, 3), NoBill>>

Entered == ToSet(books'.vouchers)

Typing == part = "typing" /\ \A r \in Entered : r.how = "AUTOMATIC" /\ r.amt % RoundFigure = 0

Naming == part = "naming" /\ books'.lastNo <= 2 /\ \A r \in Entered : r.amt > 2

Changing ==
  /\ part = "bills" /\ books'.bills[1] = books.bills[1] /\ books'.lastNo <= 2
  /\ \A r \in Entered : r.amt = 4

Crediting ==
  /\ part = "credit" /\ books'.elsewhere <= 2
  /\ books'.lastNo <= 2 \/ Cardinality(CreditNotes(books')) <= 1
  /\ \A r \in Entered : <<r.how, r.amt>> \in {<<"AUTOMATIC", 5>>, <<Note, 4>>}

Debiting ==
  /\ part = "debit" /\ books'.lastNo <= 2
  /\ \A r \in Entered : r.how # Note /\ r.amt = 4

(* What each part does; the operations on receipts are in all of them. *)
MoneyStep ==
  \/ TypeReceipt \/ CorrectReceipts
  \/ part = "naming" /\ NameBills
  \/ part = "bills" /\ ChangeWhatIsOwed
  \/ part \in {"credit", "debit"} /\ NoteNext

Within == Typing \/ Naming \/ Changing \/ Crediting \/ Debiting

BillsInit ==
  /\ Init
  /\ part \in {"screen", "screens"} \cup MoneyParts
  /\ part # "screen" => \A d \in Dispatches : qty[d] = 1
  /\ books = [EmptyBooks EXCEPT
       !.bills   = IF part = "debit" THEN OneSale ELSE IF part \in MoneyParts THEN TwoBills ELSE @,
       !.opening = IF part \in {"typing", "credit"} THEN 2 ELSE 0]

BillsNext ==
  /\ \/ part \notin MoneyParts /\ Next /\ (Screen \/ Screens) /\ UNCHANGED books
     \/ part \in MoneyParts /\ MoneyStep /\ Within /\ UNCHANGED vars
  /\ UNCHANGED part

billsVars == <<part, vars, books>>

BillsSpec == BillsInit /\ [][BillsNext]_billsVars

(* One screen at work, and nothing reinstated: what is billed was shipped. *)
OneScreenBillsAsShipped == part = "screen" => BilledAsShipped

(* Whatever order receipts for no bill in particular are typed in. *)
TypedInAnyOrder == part = "typing" => OldestFirst

(* The goods alone, with the operations of the constant. *)
GoodsSpec ==
  /\ Init /\ ReceiptsInit /\ part = "goods"
  /\ [][Next /\ UNCHANGED <<part, books>>]_billsVars

(* A party that starts with nothing on its books; the goods rest. *)
OnePartySpec ==
  /\ Init /\ (\A d \in Dispatches : qty[d] = 1) /\ ReceiptsInit /\ part = "party"
  /\ [][ReceiptsNext /\ UNCHANGED <<part, vars>>]_billsVars
=============================================================================
