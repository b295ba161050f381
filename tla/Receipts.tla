------------------------------ MODULE Receipts ------------------------------
(***************************************************************************)
(* The receipts of one party and the bills they settle                     *)
(* (payments.service.ts; the bill side is in challans.service.ts, the      *)
(* opening balance in opening-balances.service.ts).                        *)
(*                                                                         *)
(* A receipt clears the party's opening balance, then its bills, and       *)
(* parks what is left on account, from where it pays bills that come       *)
(* later.  Receipts settle in the order the money arrived, whatever order  *)
(* they are typed in: saving, editing or deleting one takes out every      *)
(* receipt that settles after it and settles them again.  Each of those    *)
(* operations is one database transaction, and one step here.  Saving a    *)
(* bill takes three (is it pinned, save, settle on account); they are one  *)
(* step too: nobody else saves in between, and settling does not fail.     *)
(*                                                                         *)
(* One party that pays for itself and one of its two money buckets; the    *)
(* two are kept apart throughout the code and go through the same steps.   *)
(* Amounts are whole rupees.                                               *)
(***************************************************************************)
EXTENDS Integers, Sequences, Bags, FiniteSets, FiniteSetsExt, SequencesExt

CONSTANTS
  NBills,        \* bills are numbered in the order they were first saved
  MaxDay,        \* days, on which bills and receipts are dated
  MaxReceipts,   \* how many receipts and notes are ever entered
  BillAmounts, ReceiptAmounts,
  Openings,      \* opening balances: what the party owes, negative when it is owed
  Tolerance,     \* how far an amount may be off the bills it names
  RoundFigure,   \* multiples of it name no bills
  OthersPark     \* other parties keep parking money under newer ADV- numbers

ASSUME ReceiptsAssumption ==
  /\ NBills \in Nat /\ MaxDay \in Nat /\ MaxReceipts \in Nat
  /\ BillAmounts \subseteq Nat \ {0} /\ ReceiptAmounts \subseteq Nat \ {0}
  /\ Openings \subseteq Int
  /\ Tolerance \in Nat /\ RoundFigure \in Nat \ {0} /\ OthersPark \in BOOLEAN

VARIABLE books

Bills == 1..NBills
Days  == 1..MaxDay
(* How a receipt settles: by itself, against the bills ticked, or not. *)
Against == "AGST REF"
Modes   == {"AUTOMATIC", Against, "ADVANCE"}

(* Who paid: the cash of the receipt that wrote the row, a CREDIT opening, *)
(* or the advance parked under an ADV- number.                             *)
Cash      == 0
Credit    == -1
NoVoucher == 0

(***************************************************************************)
(* The books.  vouchers are the receipts and the credit notes (module      *)
(* Notes), in the order of the rows' ids: settling a receipt again writes  *)
(* a new row.  adv is the ADV- number a receipt was given when it first    *)
(* parked money, and keeps.  paid is a bag with one element per rupee: the *)
(* bill it pays, the voucher that wrote it, and where the rupee comes      *)
(* from.  Debit notes are bills too.  elsewhere is the highest ADV- number *)
(* of the other parties.                                                   *)
(***************************************************************************)
Note == "CREDIT NOTE"

Receipt(no, date, amt, how, ticked) ==
  [no |-> no, date |-> date, amt |-> amt, how |-> how, ticked |-> ticked,
   adv |-> 0, parked |-> 0, cleared |-> 0]

NoBill == [on |-> FALSE, date |-> 1, amt |-> 0, kept |-> FALSE, debit |-> FALSE]

EmptyBooks ==
  [vouchers |-> <<>>, paid |-> EmptyBag, bills |-> [b \in Bills |-> NoBill],
   opening |-> 0, lastNo |-> 0, elsewhere |-> 0]

ReceiptsInit == books = EmptyBooks

(* The elements of a sequence that are in S, and its elements bucket by     *)
(* bucket.                                                                  *)
Among(s, S) == FoldLeft(LAMBDA t, x : IF x \in S THEN Append(t, x) ELSE t, <<>>, s)
Sorted(s, buckets) == FoldLeft(LAMBDA t, S : t \o Among(s, S), <<>>, buckets)
Each(s, F(_)) == [i \in DOMAIN s |-> F(s[i])]

Receipts(k) == Among(k.vouchers, {v \in ToSet(k.vouchers) : v.how # Note})

Highest(m, n) == IF m > n THEN m ELSE n
Lowest(m, n)  == IF m < n THEN m ELSE n
NotNegative(n) == Highest(n, 0)

Total(k, Test(_)) == MapThenSumSet(LAMBDA e : k.paid[e], {e \in DOMAIN k.paid : Test(e)})
Rupees(bill, by, fund, n) ==
  IF n > 0 THEN [e \in {[bill |-> bill, by |-> by, fund |-> fund]} |-> n] ELSE EmptyBag

(* byArrival: by day, and by row id within the day. *)
Arrival(rs) == Sorted(rs, [d \in Days |-> {r \in ToSet(rs) : r.date = d}])

(***************************************************************************)
(* What is open.                                                           *)
(***************************************************************************)
Balance(k, b) == NotNegative(k.bills[b].amt - Total(k, LAMBDA e : e.bill = b))

(* invoicePending: confirmed bills with a balance dated up to a day, oldest first. *)
InvoicePending(k, upTo) ==
  LET Open(d) == {b \in Bills : k.bills[b].on /\ k.bills[b].date = d /\ Balance(k, b) > 0}
  IN  Sorted([b \in Bills |-> b], [d \in 1..upTo |-> Open(d)])

(* openingPending *)
Cleared(k) == MapThenSumSet(LAMBDA r : r.cleared, ToSet(k.vouchers))

OpeningPending(k) == NotNegative(NotNegative(k.opening) - Cleared(k))

(* ownerOf is keyed by the ADV- number: the last row with it counts. *)
OwnerOf(k, adv) ==
  LET rows == {i \in DOMAIN k.vouchers : k.vouchers[i].parked > 0 /\ k.vouchers[i].adv = adv}
  IN  k.vouchers[Max(rows)].no

Pot(k, fund, by, amt) ==
  [fund |-> fund, by |-> by, left |-> NotNegative(amt - Total(k, LAMBDA e : e.fund = fund))]

(* nextRefId: one more than the highest number among the advances there are. *)
Parked(k) == {r \in ToSet(k.vouchers) : r.parked > 0}

NextAdvance(k) == 1 + Max({k.elsewhere} \cup {r.adv : r \in Parked(k)})

(* advancePending: a CREDIT opening first, then what receipts parked, by    *)
(* day and ADV- number; what is left of each is judged by that number.      *)
ByNumber(k, upTo) ==
  Sorted(k.vouchers,
         [n \in 1..NextAdvance(k) |-> {r \in Parked(k) : r.adv = n /\ r.date <= upTo}])

Pots(k, upTo) ==
  <<Pot(k, Credit, NoVoucher, NotNegative(-k.opening))>>
    \o Each(Arrival(ByNumber(k, upTo)), LAMBDA r : Pot(k, r.adv, OwnerOf(k, r.adv), r.parked))

AdvancePending(k, upTo) ==
  LET pots == Pots(k, upTo) IN Among(pots, {p \in ToSet(pots) : p.left > 0})

Upto(pots, i) == MapThenSumSet(LAMBDA n : pots[n].left, 1..i)
Left(pots) == Upto(pots, Len(pots))

OnAccount(k) == Left(AdvancePending(k, MaxDay))

(* Pay a bill amt out of the pots, of which the first drawn rupees are gone. *)
FromPots(pots, drawn, bill, amt) ==
  LET Taken(i) == NotNegative(Lowest(Upto(pots, i), drawn + amt) - Highest(Upto(pots, i - 1), drawn))
  IN  FoldLeft(LAMBDA bag, i : bag (+) Rupees(bill, pots[i].by, pots[i].fund, Taken(i)),
               EmptyBag, [i \in DOMAIN pots |-> i])

(***************************************************************************)
(* Holds.  While receipts settle again, a bill may be set aside for the    *)
(* receipt that names it, by its ticks or by its exact amount.             *)
(***************************************************************************)
Held(claims, b) == MapThenSumSet(LAMBDA c : c.amt, {c \in claims : c.bill = b})
HoldsOf(claims, no) == {c \in claims : c.no = no}

(* claimsOf: what the named receipts among rs hold now. *)
ClaimsOf(k, rs) ==
  {c \in {[no |-> r.no, bill |-> b,
           amt |-> Total(k, LAMBDA e : e.by = r.no /\ e.bill = b)] :
            r \in {s \in ToSet(rs) : s.how = Against}, b \in Bills} : c.amt > 0}

(* findExact: the places in open of the bills an amount names, none if it   *)
(* names none: the first run of bills, or else the first two bills, that    *)
(* add up to it.                                                            *)
FindExact(open, bal, amt) ==
  LET Near(n) == n - amt \in -Tolerance..Tolerance
      Pairs == (1..Len(open)) \X (1..Len(open))
      Runs  == {ij \in Pairs : ij[1] <= ij[2] /\ Near(MapThenSumSet(LAMBDA i : bal[open[i]], ij[1]..ij[2]))}
      Twos  == {ij \in Pairs : ij[1] + 2 <= ij[2] /\ Near(bal[open[ij[1]]] + bal[open[ij[2]]])}
      First(S) == CHOOSE p \in S : \A q \in S : p[1] < q[1] \/ (p[1] = q[1] /\ p[2] <= q[2])
  IN  IF amt % RoundFigure = 0 THEN {}
      ELSE IF Runs # {} THEN First(Runs)[1]..First(Runs)[2]
      ELSE IF Twos # {} THEN {First(Twos)[1], First(Twos)[2]}
      ELSE {}

(* The oldest bills in a row say nothing about intent. *)
OldestInARow(places) == places = 1..Cardinality(places)

(* What a receipt holds by its amount: the bills it names among the open    *)
(* ones, not if they say nothing about intent, unless its amount counts     *)
(* even for the oldest.                                                     *)
HoldsByAmount(r, open, bal, intent) ==
  LET hit == FindExact(open, bal, r.amt)
  IN  IF OldestInARow(hit) /\ r.no # intent THEN {}
      ELSE {[no |-> r.no, bill |-> open[i], amt |-> bal[open[i]]] : i \in hit}

Unheld(k, claims) == [b \in Bills |-> Balance(k, b) - Held(claims, b)]

OpenIn(k, r, bal) == Among(InvoicePending(k, r.date), {b \in Bills : bal[b] > 0})

(* claimExact: add the bills that the AUTOMATIC ones among rs name by their *)
(* amount; intent is the receipt whose amount counts even for the oldest.   *)
ClaimExact(k, rs, claims, intent) ==
  LET Claim(held, r, bal) == held \cup HoldsByAmount(r, OpenIn(k, r, bal), bal, intent)
  IN  FoldLeft(LAMBDA held, r : Claim(held, r, Unheld(k, held)), claims,
               Among(rs, {r \in ToSet(rs) : r.how = "AUTOMATIC"}))

(***************************************************************************)
(* Settling one receipt (runWaterfall): the opening balance unless its     *)
(* amount names bills; then the bills, each from the receipt first and     *)
(* from older money on account for what it falls short; the rest is        *)
(* parked.                                                                 *)
(***************************************************************************)
TickedOpen(k, r) == Among(r.ticked, ToSet(InvoicePending(k, r.date)))

AfterOpening(k, r, own) == r.amt - (IF own = {} THEN Lowest(OpeningPending(k), r.amt) ELSE 0)

(* The bills a receipt may pay, the ones it holds first. *)
RowsFor(k, r, own, bal) ==
  LET named == {c.bill : c \in own}
  IN  CASE r.how = "ADVANCE"   -> <<>>
        [] r.how = Against  -> TickedOpen(k, r)
        [] r.how = "AUTOMATIC" -> LET open == OpenIn(k, r, bal)
                                  IN  Among(open, named) \o Among(open, Bills \ named)

(* acc: what is left of the receipt, of it and the older money together,    *)
(* how much of that older money is drawn, and what is paid so far.          *)
PayRow(k, r, bal, pots, acc, b) ==
  LET need == Lowest(bal[b], IF k.bills[b].kept THEN acc.left ELSE acc.size)
      cash == Lowest(need, acc.left)
  IN  [left  |-> acc.left - cash,
       size  |-> acc.size - need,
       drawn |-> acc.drawn + need - cash,
       paid  |-> acc.paid (+) Rupees(b, r.no, Cash, cash) (+) FromPots(pots, acc.drawn, b, need - cash)]

(* The voucher's row, with what is left of it parked. *)
Enter(k, r, cleared, end) ==
  LET row == [r EXCEPT !.cleared = cleared, !.parked = end.left,
                       !.adv = IF end.left > 0 /\ @ = 0 THEN NextAdvance(k) ELSE @]
  IN  [k EXCEPT !.vouchers = Append(@, row), !.paid = end.paid]

PayRows(k, r, own, start, bal, pots) ==
  Enter(k, r, r.amt - start,
        FoldLeft(LAMBDA acc, b : PayRow(k, r, bal, pots, acc, b),
                 [left |-> start, size |-> start + Left(pots), drawn |-> 0, paid |-> k.paid],
                 IF start = 0 THEN <<>> ELSE RowsFor(k, r, own, bal)))

Settle(k, r, reserved, own) ==
  PayRows(k, r, own, AfterOpening(k, r, own),
          Unheld(k, IF r.how = Against THEN {} ELSE reserved),
          Each(AdvancePending(k, r.date), LAMBDA p : [p EXCEPT !.by = r.no]))

(* Rows paid from pots alone. *)
PayFrom(k, pots, rows) ==
  LET Pay(acc, b, need) == [size  |-> acc.size - need,
                            drawn |-> acc.drawn + need,
                            paid  |-> acc.paid (+) FromPots(pots, acc.drawn, b, need)]
  IN  [k EXCEPT !.paid = FoldLeft(LAMBDA acc, b : Pay(acc, b, Lowest(Balance(k, b), acc.size)),
                                  [size |-> Left(pots), drawn |-> 0, paid |-> @], rows).paid]

(* Mutant: the bills kept off the advance are paid like the others. *)
SpendsOnEveryBill(k) == PayFrom(k, AdvancePending(k, MaxDay), InvoicePending(k, MaxDay))

(* applyOnAccount: the oldest open bills from the oldest money on account,  *)
(* without the bills kept off it.                                           *)
ApplyOnAccount(k) ==
  PayFrom(k, AdvancePending(k, MaxDay),
          Among(InvoicePending(k, MaxDay), {b \in Bills : ~k.bills[b].kept}))

(***************************************************************************)
(* Settling receipts again.                                                *)
(***************************************************************************)
Without(k, Test(_)) == [k EXCEPT !.paid = [e \in {x \in DOMAIN @ : ~Test(x)} |-> @[e]]]

(* Mutant: what was paid from the money they had parked stays. *)
LeavesTheSpends(k, rs) ==
  LET nos == {r.no : r \in ToSet(rs)}
  IN  [Without(k, LAMBDA e : e.by \in nos /\ e.fund = Cash) EXCEPT
         !.vouchers = Among(@, {r \in ToSet(@) : r.no \notin nos})]

(* reverseChain: the rows, all they wrote, and all that was paid from what  *)
(* they had parked.                                                         *)
ReverseChain(k, rs) ==
  LET nos  == {r.no : r \in ToSet(rs)}
      advs == {r.adv : r \in ToSet(rs)} \ {0}
  IN  [Without(k, LAMBDA e : e.by \in nos \/ e.fund \in advs) EXCEPT
         !.vouchers = Among(@, {r \in ToSet(@) : r.no \notin nos})]

(* replayInOrder: each gives up its own hold just before it settles. *)
ReplayInOrder(k, rs, claims) ==
  LET Replay(acc, r, hold) ==
        [k      |-> Settle(acc.k, r, acc.claims \ hold, IF r.how = "AUTOMATIC" THEN hold ELSE {}),
         claims |-> acc.claims \ hold]
  IN  FoldLeft(LAMBDA acc, r : Replay(acc, r, HoldsOf(acc.claims, r.no)),
               [k |-> k, claims |-> claims], rs).k

(* What comes out of the books k, leaving rest, settles again in an order   *)
(* given; each holds what it paid in k.                                     *)
SettleAgain(k, rest, back, intent) ==
  ReplayInOrder(rest, back, ClaimExact(rest, back, ClaimsOf(k, back), intent))

(* Mutant: money on account waits for the next bill. *)
LeavesMoneyIdle(k, out, back, intent) == SettleAgain(k, ReverseChain(k, out), back, intent)

(* What save, editReceipt, deleteReceipts and resettleParty share: take     *)
(* out some receipts, settle some in the order given, and spend what is on  *)
(* account.                                                                 *)
Resettle(k, out, back, intent) == ApplyOnAccount(SettleAgain(k, ReverseChain(k, out), back, intent))

(* resettleParty: everything, after what a CREDIT opening paid was taken off. *)
ResettleParty(k) ==
  Resettle(Without(k, LAMBDA e : e.fund = Credit), Receipts(k), Arrival(Receipts(k)), NoVoucher)

(***************************************************************************)
(* Operations.                                                             *)
(***************************************************************************)
(* Other parties park money meanwhile, under numbers above those in use. *)
Commit(k) ==
  books' = [k EXCEPT !.elsewhere =
              IF OthersPark THEN Max({@} \cup {r.adv : r \in ToSet(k.vouchers)}) ELSE @]

(* Mutant: a back-dated receipt settles what is left. *)
TakesNothingOut(k, day) == <<>>

(* chainAfter *)
ChainAfter(k, day) == Arrival(Among(Receipts(k), {r \in ToSet(k.vouchers) : r.date > day}))

(* holdersOfExact: the receipts up to a day, from the earliest AUTOMATIC one *)
(* that holds a bill this amount would name if none of them had settled.     *)
HoldersOfExact(k, day, amt) ==
  LET upTo  == Arrival(Among(Receipts(k), {r \in ToSet(k.vouchers) : r.date <= day}))
      autos == {r.no : r \in {s \in ToSet(upTo) : s.how = "AUTOMATIC"}}
      bare  == Without(k, LAMBDA e : e.by \in autos)
      open  == InvoicePending(bare, day)
      hit   == FindExact(open, [b \in Bills |-> Balance(bare, b)], amt)
      owners == {e.by : e \in {x \in DOMAIN k.paid : \E i \in hit : x.bill = open[i]}}
      first == SelectInSeq(upTo, LAMBDA r : r.no \in autos \cap owners)
  IN  IF OldestInARow(hit) \/ first = 0 THEN <<>> ELSE SubSeq(upTo, first, Len(upTo))

(* save: the later receipts come out, this one settles first, and they go   *)
(* back after it; so do earlier ones that hold what its amount names.  One  *)
(* typed in for ticked bills is refused when none of them is open.          *)
Save(day, amt, how, ticked) ==
  LET fresh   == Receipt(books.lastNo + 1, day, amt, how, ticked)
      later   == ChainAfter(books, day)
      earlier == IF how = "AUTOMATIC" THEN HoldersOfExact(books, day, amt) ELSE <<>>
      reversed == ReverseChain(books, later)
      intent  == IF earlier = <<>> THEN NoVoucher ELSE fresh.no
  IN  /\ books.lastNo < MaxReceipts
      /\ how = Against => /\ ticked # <<>>
                             /\ AfterOpening(reversed, fresh, {}) > 0 => TickedOpen(reversed, fresh) # <<>>
      /\ Commit(Resettle([books EXCEPT !.lastNo = fresh.no],
                         earlier \o later, earlier \o <<fresh>> \o later, intent))

(* loadReplayChain: a receipt and all that settle after it, from its day or  *)
(* the day it moves to if that is earlier.  Those of that day entered before *)
(* it stay.                                                                  *)
ReplayChain(k, i, newDay) ==
  LET rs     == Receipts(k)
      anchor == Lowest(rs[i].date, newDay)
      places == Among([j \in DOMAIN rs |-> j],
                      {j \in DOMAIN rs : j = i \/ rs[j].date > anchor \/ (rs[j].date = anchor /\ j > i)})
  IN  [n \in DOMAIN places |-> rs[places[n]]]

(* editReceipt *)
EditReceipt(i, day, amt) ==
  LET chain == ReplayChain(books, i, day)
      Corrected(r) == IF r.no = Receipts(books)[i].no THEN [r EXCEPT !.date = day, !.amt = amt] ELSE r
  IN  Commit(Resettle(books, chain, Arrival([n \in DOMAIN chain |-> Corrected(chain[n])]), NoVoucher))

(* deleteReceipt, deleteReceipts: the chain of the earliest, put back      *)
(* without the deleted ones.                                               *)
DeleteReceipts(is) ==
  LET rs == Receipts(books)
      earliest == CHOOSE i \in is : \A j \in is : rs[i].date < rs[j].date \/ (rs[i].date = rs[j].date /\ i <= j)
      chain == ReplayChain(books, earliest, rs[earliest].date)
      gone  == {rs[i].no : i \in is}
  IN  Commit(Resettle(books, chain, Arrival(Among(chain, {r \in ToSet(chain) : r.no \notin gone})), NoVoucher))

(* create, update and remove of an opening balance. *)
SaveOpening(amt) ==
  /\ amt # books.opening
  /\ Commit(ResettleParty([books EXCEPT !.opening = amt]))

(* assertNotPinned: what a receipt paid in cash pins a bill. *)
Pinned(k, b) == \E e \in DOMAIN k.paid : e.bill = b /\ e.fund = Cash

(* Mutant: a bill goes with what was paid on it from money on account. *)
LiftsNothing(k, b) == k

(* liftOnAccount: what was paid from money on account is taken off a bill   *)
(* before it changes.                                                       *)
LiftOnAccount(k, b) == Without(k, LAMBDA e : e.bill = b /\ e.fund # Cash)

(* A bill that is created takes a number after those in use. *)
IsNewest(b) == \A c \in Bills : c > b => books.bills[c] = NoBill

(* What the operator says to paying a bill from the advance, when asked; an *)
(* earlier "keep" stays otherwise.                                          *)
Answers == {"use", "keep", "unasked"}

Keeps(old, answer) == IF answer = "unasked" THEN old.kept ELSE answer = "keep"

(* create and update of a challan, and its reinstating.  Keeping the       *)
(* advance takes what it paid of the bill back off, and settles nothing.    *)
SaveBill(b, day, amt, answer) ==
  LET old     == books.bills[b]
      new     == [old EXCEPT !.on = TRUE, !.date = day, !.amt = amt, !.kept = Keeps(old, answer)]
      touches == [new EXCEPT !.kept = old.kept] # old
      lifted  == IF touches \/ answer = "keep" THEN LiftOnAccount(books, b) ELSE books
      saved   == [lifted EXCEPT !.bills[b] = new]
  IN  /\ ~old.debit
      /\ old = NoBill => IsNewest(b)
      /\ touches => ~Pinned(books, b)
      /\ Commit(IF answer = "keep" THEN saved ELSE ApplyOnAccount(saved))

(* Cancelling a challan (updateStatus) keeps its figures; remove deletes it. *)
DropBill(b, after) ==
  /\ books.bills[b].on /\ ~books.bills[b].debit /\ ~Pinned(books, b)
  /\ Commit(ApplyOnAccount([LiftOnAccount(books, b) EXCEPT !.bills[b] = after]))

Ticks == UNION {[1..n -> Bills] : n \in 1..NBills}

TypeReceipt ==
  \E day \in Days, amt \in ReceiptAmounts, how \in {"AUTOMATIC", "ADVANCE"} : Save(day, amt, how, <<>>)

NameBills ==
  \E day \in Days, amt \in ReceiptAmounts, ticked \in {t \in Ticks : IsInjective(t)} :
     Save(day, amt, Against, ticked)

CorrectReceipts ==
  \/ \E i \in DOMAIN Receipts(books), day \in Days, amt \in ReceiptAmounts : EditReceipt(i, day, amt)
  \/ \E is \in SUBSET DOMAIN Receipts(books) \ {{}} : DeleteReceipts(is)

ChangeWhatIsOwed ==
  \/ \E amt \in Openings : SaveOpening(amt)
  \/ \E b \in Bills, day \in Days, amt \in BillAmounts, answer \in Answers :
        SaveBill(b, day, amt, answer)
  \/ \E b \in Bills : \E after \in {NoBill, [books.bills[b] EXCEPT !.on = FALSE]} : DropBill(b, after)

ReceiptsNext == TypeReceipt \/ NameBills \/ CorrectReceipts \/ ChangeWhatIsOwed

ReceiptsSpec == ReceiptsInit /\ [][ReceiptsNext]_books

(***************************************************************************)
(* Properties.                                                             *)
(***************************************************************************)
(* Every rupee received, and every rupee a CREDIT opening stands for, has   *)
(* cleared the opening balance, has paid a bill, or is on account where the *)
(* next bill finds it: however often receipts were taken out and settled    *)
(* again, none was lost and none was spent twice.                           *)
MoneyIsAccountedFor ==
  MapThenSumSet(LAMBDA r : r.amt, ToSet(books.vouchers)) + NotNegative(-books.opening)
    = Cleared(books) + Total(books, LAMBDA e : TRUE) + OnAccount(books)

(* Nothing is paid beyond its amount, and nothing is paid that is not owed: *)
(* a bill that was deleted or cancelled, an opening balance taken back.     *)
NoBillOverpaid ==
  /\ Cleared(books) <= NotNegative(books.opening)
  /\ \A b \in Bills : Total(books, LAMBDA e : e.bill = b)
                            <= (IF books.bills[b].on THEN books.bills[b].amt ELSE 0)

(* A bill kept off the advance is never paid from it, neither when it is    *)
(* saved nor when receipts settle again long after.                         *)
KeptOffAdvance ==
  \A e \in DOMAIN books.paid : books.bills[e.bill].kept => e.fund = Cash

(* Whenever a receipt is entered, corrected or deleted, no bill is left due *)
(* that the party has money on account for.                                 *)
SpendsIdleMoney ==
  [][Receipts(books') # Receipts(books) /\ OnAccount(books') > 0 =>
       \A b \in ToSet(InvoicePending(books', MaxDay)) : books'.bills[b].kept]_books

(* The money that arrived first pays the oldest bill first, whatever order  *)
(* the receipts were typed in.  This is what receipts for no bill in        *)
(* particular do to bills that stay as they are.                            *)
OldestFirst ==
  LET arrival == Arrival(Receipts(books))
      Older(b, c) == \/ books.bills[b].date < books.bills[c].date
                     \/ books.bills[b].date = books.bills[c].date /\ b < c
      By(n, e) == e.fund = Cash /\ e.by = arrival[n].no
  IN  /\ \A b \in Bills, e \in DOMAIN books.paid :
           books.bills[b].on /\ Older(b, e.bill) => Balance(books, b) = 0
      /\ \A m, n \in DOMAIN arrival : m < n =>
            \A e, f \in DOMAIN books.paid : By(m, e) /\ By(n, f) => ~Older(f.bill, e.bill)
=============================================================================
