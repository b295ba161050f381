------------------------------- MODULE Notes -------------------------------
(***************************************************************************)
(* Credit and debit notes of the party of module Receipts                  *)
(* (notes.service.ts, and settleInPlace of payments.service.ts).           *)
(*                                                                         *)
(* A credit note (or a purchase, which posts alike) is money for the       *)
(* party: it pays the bill it refers to, then the opening balance, then    *)
(* the other bills, and parks the rest.  A debit note is one more bill, in *)
(* the table of the bills, that the party's advances pay when it is saved. *)
(* Either takes its date's place among the receipts: those from its day on *)
(* come out before it is written, and settle again after it.               *)
(*                                                                         *)
(* Saving a note is one step here: its header, and after it what it does   *)
(* to the money, are two transactions, between which nobody else comes.    *)
(* The goods a credit note takes back are rows of module OrderLines.  A    *)
(* note stays with its party.                                              *)
(***************************************************************************)
EXTENDS Receipts

CONSTANT NoteAmounts

ASSUME NotesAssumption == NoteAmounts \subseteq Nat \ {0}

CreditNotes(k) == {v \in ToSet(k.vouchers) : v.how = Note}

(* Mutant: the receipts of the note's own day are left where they are. *)
FromTheNextDay(k, day) == ChainAfter(k, day)

(* The receipts that make room for a note of a day. *)
FromDay(k, day) == ChainAfter(k, day - 1)

(* settleInPlace: the note is written on the books without the chain, which *)
(* settles again after it; what is on account is spent last.                *)
InPlace(k, chain, written) == ApplyOnAccount(SettleAgain(k, written, chain, NoVoucher))

(***************************************************************************)
(* Credit notes.  ticked holds the bill all lines refer to; it is empty if *)
(* they refer to none or to several.                                       *)
(***************************************************************************)
(* applyCreditNote: bills kept off the advance are paid as well, and an     *)
(* advance takes a new number each time one is parked.                      *)
Post(k, note) ==
  LET open    == InvoicePending(k, note.date)
      refd    == ToSet(note.ticked)
      PayBill(acc, b, use) ==
        [left |-> acc.left - use, paid |-> acc.paid (+) Rupees(b, note.no, Cash, use)]
      PayAll(from, bills) ==
        FoldLeft(LAMBDA acc, b : PayBill(acc, b, Lowest(acc.left, Balance(k, b))), from, bills)
      aimed   == PayAll([left |-> note.amt, paid |-> k.paid], Among(open, refd))
      cleared == Lowest(OpeningPending(k), aimed.left)
  IN  Enter(k, note, cleared,
            PayAll([aimed EXCEPT !.left = @ - cleared], Among(open, Bills \ refd)))

(* reverseCreditNote: the posting goes, with what its advance has paid. *)
Unpost(k, notes) == ReverseChain(k, notes)

(* save of a credit note: the first time, or again with other figures.  The *)
(* chain starts at the earlier of its dates.                                *)
SaveCreditNote(no, day, amt, ref) ==
  LET old   == Among(books.vouchers, {v \in ToSet(books.vouchers) : v.no = no})
      chain == FromDay(books, Min({day} \cup {v.date : v \in ToSet(old)}))
      bare  == Unpost(ReverseChain([books EXCEPT !.lastNo = Highest(@, no)], chain), old)
  IN  Commit(InPlace(books, chain, Post(bare, Receipt(no, day, amt, Note, ref))))

(* remove of a credit note *)
RemoveCreditNote(note) ==
  LET chain == FromDay(books, note.date)
  IN  Commit(InPlace(books, chain, Unpost(ReverseChain(books, chain), <<note>>)))

(***************************************************************************)
(* Debit notes.                                                            *)
(***************************************************************************)
(* insertDebitNoteLedger: what an advance paid of the note is taken off; its *)
(* whole amount is then squared off from what was parked, whatever its date, *)
(* unless the operator keeps the advance.                                    *)
SquareOff(k, b) ==
  LET bare == LiftOnAccount(k, b)
      all  == AdvancePending(bare, MaxDay)
      pots == Each(Among(all, {p \in ToSet(all) : p.fund # Credit}), LAMBDA p : [p EXCEPT !.by = NoVoucher])
      use  == Lowest(k.bills[b].amt, Left(pots))
  IN  IF k.bills[b].kept THEN bare
      ELSE [bare EXCEPT !.paid = @ (+) FromPots(pots, 0, b, use)]

(* save of a debit note.  Saved again, its row is a new one, after all bills. *)
SaveDebitNote(b, day, amt, answer) ==
  LET old   == books.bills[b]
      saved == [books EXCEPT !.bills[b] = [on |-> TRUE, date |-> day, amt |-> amt,
                                           kept |-> Keeps(old, answer), debit |-> TRUE]]
      chain == FromDay(books, IF old = NoBill THEN day ELSE Lowest(old.date, day))
  IN  /\ old = NoBill \/ old.debit
      /\ IsNewest(b)
      /\ Commit(InPlace(books, chain, SquareOff(ReverseChain(saved, chain), b)))

(* remove of a debit note *)
RemoveDebitNote(b) ==
  LET chain == FromDay(books, books.bills[b].date)
  IN  /\ books.bills[b].debit
      /\ Commit(InPlace(books, chain,
                  [LiftOnAccount(ReverseChain(books, chain), b) EXCEPT !.bills[b] = NoBill]))

CreditNext ==
  \/ \E day \in Days, amt \in NoteAmounts, ref \in {<<>>} \cup {<<b>> : b \in Bills} :
        \/ books.lastNo < MaxReceipts /\ SaveCreditNote(books.lastNo + 1, day, amt, ref)
        \/ \E note \in CreditNotes(books) : SaveCreditNote(note.no, day, amt, ref)
  \/ \E note \in CreditNotes(books) : RemoveCreditNote(note)

DebitNext ==
  \/ \E b \in Bills, day \in Days, amt \in NoteAmounts, answer \in Answers : SaveDebitNote(b, day, amt, answer)
  \/ \E b \in Bills : RemoveDebitNote(b)

NoteNext == CreditNext \/ DebitNext

(***************************************************************************)
(* Properties.                                                             *)
(***************************************************************************)
(* A credit note comes before the receipts of its day and of later days,   *)
(* whenever it is saved: none of their money pays the bill it refers to    *)
(* unless all of the note went there first.                                *)
NoteComesFirst ==
  [][\A note \in CreditNotes(books') \ CreditNotes(books), b \in Bills :
       LET aimed == Total(books', LAMBDA e : e.bill = b /\ e.by = note.no /\ e.fund = Cash)
           later == {r.no : r \in {s \in ToSet(Receipts(books')) : s.date >= note.date}}
       IN  /\ note.ticked = <<b>> /\ aimed < note.amt
           /\ books'.bills[b].date <= note.date
           => \A e \in DOMAIN books'.paid : e.bill = b => e.by \notin later]_books
=============================================================================
