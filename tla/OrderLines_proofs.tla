--------------------------- MODULE OrderLines_proofs ---------------------------
(***************************************************************************)
(* Theorems about OrderLines, for any orders, lines, rows and quantities   *)
(* and any choice of operations, where one operation runs at a time.       *)
(* What fails when two interleave is in section 4 of the README.           *)
(***************************************************************************)
EXTENDS OrderLines, Sums, TLAPS

(* The operations run one after the other. *)
OneRequest == \A r, s \in Requests : r = s

Rowed == row \in [Rows -> RowStates]

Present(d) == row[d].kind \notin {"unborn", "gone"}

(* What a row counts for, as a function over all rows. *)
Counted == [d \in Rows |-> IF Present(d) THEN row[d].qty ELSE 0]

(* What has gone out on a line and not come back. *)
Out(l) == SumOf(Counted, RowsOn({l}))

(* What a line owes. *)
Due(l) == IF line[l].ordered - Out(l) >= 0 THEN line[l].ordered - Out(l) ELSE 0

(* What a row may be. *)
LEMMA RowIs ==
  ASSUME Rowed, NEW d \in Rows
  PROVE  /\ Present(d) => /\ row[d].line \in Lines /\ row[d].qty \in Int
                          /\ Outward(d) \/ row[d].kind = "RETURNED"
         /\ Outward(d) => row[d].qty \in Quantities /\ row[d].line \in Lines /\ Present(d)
         /\ row[d].kind = "RETURNED" =>
              /\ row[d].qty \in (-MaxQty)..(-1) /\ row[d].line \in Lines
              /\ row[d].src \in Rows /\ Present(d) /\ ~Outward(d)
         /\ Counted[d] \in Int
BY OrderLinesAssumption
   DEF Rowed, RowStates, Quantities, Present, Outward, OutwardKinds, Counted

(* Sums over rows exist. *)
LEMMA RowsSummable ==
  ASSUME Rowed, IsFiniteSet(Rows), NEW ds \in SUBSET Rows
  PROVE  Summable(Counted, ds) /\ IsFiniteSet(ds) /\ SumOf(Counted, ds) \in Int
<1>1. Summable(Counted, ds) /\ IsFiniteSet(ds)
  BY RowIs, FS_Subset DEF Summable
<1> QED  BY <1>1, SumOne

(* The sum that the code takes over rows is this function's. *)
LEMMA SentIs ==
  ASSUME Rowed, IsFiniteSet(Rows), NEW ds \in SUBSET Rows, \A d \in ds : Present(d)
  PROVE  Sent(ds) = SumOf(Counted, ds)
<1>1. \A d \in ds : Counted[d] = row[d].qty
  BY DEF Counted
<1> DEFINE f == Counted
           Terms(g) == [t \in SUBSET ds |-> IF t = {} THEN 0
                                            ELSE row[Pick(t)].qty + g[t \ {Pick(t)}]]
           h == CHOOSE g : g = Terms(g)
<1>2. \A t \in SUBSET ds : t # {} => f[Pick(t)] = row[Pick(t)].qty
  BY <1>1, PickIn
<1>3. Summable(f, ds)
  BY RowsSummable
<1>4. Sent(ds) = h[ds]
  BY DEF Sent, MapThenSumSet, MapThenFoldSet, Pick
<1> HIDE DEF f
<1>5. \A g : g = Terms(g) <=> Adds(g, f, ds)
  BY <1>2 DEF Adds
<1> HIDE DEF Terms
<1>6. Adds(h, f, ds)
  BY <1>3, <1>5, Solvable
<1>7. SumOf(f, ds) = h[ds]
  BY <1>3, <1>6, SumBy
<1> QED  BY <1>4, <1>7 DEF f

(* What has gone out on a line, and what it owes. *)
LEMMA OwedIs ==
  ASSUME Rowed, IsFiniteSet(Rows), line \in [Lines -> Entries], NEW l \in Lines
  PROVE  /\ Out(l) \in Int /\ Sent(RowsOn({l})) = Out(l)
         /\ Owed(l) = Due(l) /\ Due(l) \in Nat
<1>1. Sent(RowsOn({l})) = Out(l) /\ Out(l) \in Int
  BY SentIs, RowsSummable DEF Out, RowsOn, Present
<1>2. line[l].ordered \in Nat
  BY OrderLinesAssumption DEF Entries
<1>3. Owed(l) = Max({0, line[l].ordered - Out(l)})
  BY <1>1 DEF Owed, Remaining
<1>4. line[l].ordered - Out(l) \in Int
  BY <1>1, <1>2
<1>5. Owed(l) = Due(l)
  BY <1>3, <1>4, AtLeastZero DEF Due
<1> QED  BY <1>1, <1>2, <1>4, <1>5 DEF Due

-----------------------------------------------------------------------------
(* Rows and what came back of them *)

(* What came back belongs to a row that went out on the same line. *)
ReturnsFit ==
  \A e \in Rows : row[e].kind = "RETURNED" =>
    Outward(row[e].src) /\ row[e].line = row[row[e].src].line

RowInv == Rowed /\ ReturnsFit

(* Rows are removed, and with a row everything that came back of it. *)
LEMMA RowsGo ==
  ASSUME RowInv, IsFiniteSet(Rows), NEW G \in SUBSET Rows,
         row' = [d \in Rows |-> IF d \in G THEN [kind |-> "gone"] ELSE row[d]],
         \A d \in G : Outward(d) => Returns(d) \subseteq G
  PROVE  /\ RowInv'
         /\ \A ls \in SUBSET Lines : RowsOn(ls)' = RowsOn(ls) \ G
         /\ \A d \in Rows \ G : row'[d] = row[d]
<1>0. Rowed /\ ReturnsFit
  BY DEF RowInv
<1>1. /\ \A d \in G : row'[d] = [kind |-> "gone"]
      /\ \A d \in Rows \ G : row'[d] = row[d]
  OBVIOUS
<1>2. Rowed'
  BY <1>0, <1>1 DEF Rowed, RowStates
<1>3. /\ \A d \in Rows : Outward(d)' <=> Outward(d) /\ d \notin G
      /\ \A d \in Rows : Present(d)' <=> Present(d) /\ d \notin G
      /\ \A d \in Rows : row'[d].kind = "RETURNED" <=> row[d].kind = "RETURNED" /\ d \notin G
  BY <1>1 DEF Outward, OutwardKinds, Present
<1>4. ReturnsFit'
  BY <1>0, <1>1, <1>3, RowIs DEF ReturnsFit, Returns
<1>5. \A ls \in SUBSET Lines : RowsOn(ls)' = RowsOn(ls) \ G
  BY <1>1, <1>3 DEF RowsOn, Present
<1> QED  BY <1>1, <1>2, <1>4, <1>5 DEF RowInv

(* Rows are inserted that send something out. *)
LEMMA RowsBorn ==
  ASSUME RowInv, IsFiniteSet(Rows), NEW N \in SUBSET Rows,
         \A d \in N : row[d].kind = "unborn",
         row' \in [Rows -> RowStates],
         \A d \in N : Outward(d)',
         \A d \in Rows \ N : row'[d] = row[d]
  PROVE  /\ RowInv'
         /\ \A ls \in SUBSET Lines :
              RowsOn(ls)' = RowsOn(ls) \cup {d \in N : row'[d].line \in ls}
<1>0. Rowed /\ ReturnsFit /\ Rowed'
  BY DEF RowInv, Rowed
<1>1. /\ \A d \in Rows : Outward(d)' <=> Outward(d) \/ d \in N
      /\ \A d \in Rows : Present(d)' <=> Present(d) \/ d \in N
      /\ \A d \in N : ~Outward(d) /\ ~Present(d) /\ row'[d].kind # "RETURNED"
      /\ \A d \in Rows : row'[d].kind = "RETURNED" <=> row[d].kind = "RETURNED"
  BY DEF Outward, OutwardKinds, Present
<1>2. ReturnsFit'
  BY <1>0, <1>1, RowIs DEF ReturnsFit
<1>3. \A ls \in SUBSET Lines :
        RowsOn(ls)' = RowsOn(ls) \cup {d \in N : row'[d].line \in ls}
  BY <1>1 DEF RowsOn, Present
<1> QED  BY <1>0, <1>2, <1>3 DEF RowInv

(* A row is corrected. *)
LEMMA RowCorrected ==
  ASSUME RowInv, IsFiniteSet(Rows), NEW d \in Rows, Outward(d),
         row' \in [Rows -> RowStates],
         Outward(d)', row'[d].line = row[d].line,
         \A e \in Rows \ {d} : row'[e] = row[e]
  PROVE  /\ RowInv'
         /\ \A ls \in SUBSET Lines : RowsOn(ls)' = RowsOn(ls)
         /\ \A e \in Rows : Outward(e)' <=> Outward(e)
<1>0. Rowed /\ ReturnsFit /\ Rowed'
  BY DEF RowInv, Rowed
<1>1. /\ \A e \in Rows : Outward(e)' <=> Outward(e)
      /\ \A e \in Rows : Present(e)' <=> Present(e)
      /\ \A e \in Rows : row'[e].kind = "RETURNED" <=> row[e].kind = "RETURNED"
      /\ \A e \in Rows : row[e].kind = "RETURNED" => row'[e] = row[e]
  BY DEF Outward, OutwardKinds, Present
<1>2. ReturnsFit'
  BY <1>0, <1>1, RowIs DEF ReturnsFit
<1>3. \A ls \in SUBSET Lines : RowsOn(ls)' = RowsOn(ls)
  BY <1>1 DEF RowsOn, Present
<1> QED  BY <1>0, <1>1, <1>2, <1>3 DEF RowInv

(* Goods come back. *)
LEMMA RowReturned ==
  ASSUME RowInv, IsFiniteSet(Rows), NEW d \in Rows, NEW src \in Rows, NEW n \in 1..MaxQty,
         row[d].kind = "unborn", Outward(src),
         row' \in [Rows -> RowStates],
         row'[d] = [kind |-> "RETURNED", line |-> row[src].line, qty |-> -n, src |-> src],
         \A e \in Rows \ {d} : row'[e] = row[e]
  PROVE  /\ RowInv'
         /\ \A ls \in SUBSET Lines :
              RowsOn(ls)' = RowsOn(ls) \cup {e \in {d} : row[src].line \in ls}
<1>0. Rowed /\ ReturnsFit /\ Rowed'
  BY DEF RowInv, Rowed
<1>1. row[src].line \in Lines /\ src # d /\ n \in Nat
  BY <1>0, RowIs, OrderLinesAssumption DEF Outward, OutwardKinds
<1>2. /\ row'[d].kind = "RETURNED" /\ row'[d].src = src
      /\ row'[d].line = row[src].line /\ row'[d].qty = -n
  OBVIOUS
<1>3. /\ \A e \in Rows : Outward(e)' <=> Outward(e)
      /\ ~Present(d) /\ Present(d)' /\ ~Outward(d)
      /\ \A e \in Rows \ {d} : Present(e)' <=> Present(e)
      /\ \A e \in Rows : row'[e].kind = "RETURNED" <=> row[e].kind = "RETURNED" \/ e = d
  BY <1>2 DEF Outward, OutwardKinds, Present
<1>4. ReturnsFit'
  BY <1>0, <1>1, <1>2, <1>3, RowIs DEF ReturnsFit
<1>5. \A ls \in SUBSET Lines :
        RowsOn(ls)' = RowsOn(ls) \cup {e \in {d} : row[src].line \in ls}
  BY <1>1, <1>2, <1>3 DEF RowsOn, Present
<1> QED  BY <1>0, <1>4, <1>5 DEF RowInv

-----------------------------------------------------------------------------
(* The invariant *)

OrderShapes ==
  status \in [Orders -> Statuses] /\ line \in [Lines -> Entries] /\ held \in BOOLEAN

(* A row that is present belongs to a line that exists. *)
RowsOnLines == \A d \in RowsOn(Lines) : line[row[d].line].state # "gone"

(* An order that has never been saved has no lines. *)
NoEarlyLines == \A l \in Lines : status[OrderOf[l]] = "UNUSED" => line[l].state = "gone"

DataInv == OrderShapes /\ RowInv /\ RowsOnLines /\ NoEarlyLines /\ CancelledIsUntouched

Requested == req \in [Requests -> RequestStates]

Here(o) == {l \in LinesOf(o) : line[l].state # "gone"}

(* What the guards on a line that has shipped leave of it. *)
Respected(l, entry) ==
  RowsOn({l}) # {} =>
    entry.state # "gone" /\ (entry.ordered < line[l].ordered => Out(l) <= entry.ordered)

(* With one request, what it has read is still so when it writes. *)
FormFits(s) ==
  /\ s.plan \in Plans(s.o) /\ s.st # "UNUSED"
  /\ s.new => status[s.o] = "UNUSED"
  /\ s.st = "CANCELLED" => status[s.o] = "CANCELLED"
CheckFits(s)  == s.seen = Here(s.o) /\ (s.new \/ \A l \in Here(s.o) : Respected(l, s.plan[l]))
StatusFits(s) == s.to = "CANCELLED" => RowsOn(LinesOf(s.o)) = {}
FullyFits(s)  == ~held /\ \A l \in Shipment(s) : Shippable(l) /\ s.ship[l] = Due(l)
EditFits(s)   == Outward(s.d) /\ s.old = row[s.d]

Fits(s) ==
  /\ s.at \in {"form", "checked"} => FormFits(s)
  /\ s.at = "checked" => CheckFits(s)
  /\ s.at = "status" => StatusFits(s)
  /\ s.at = "fully" => FullyFits(s)
  /\ s.at \in {"edit", "editChecked"} => EditFits(s)

IInv == DataInv /\ Requested /\ \A r \in Requests : Fits(req[r])

(* What a request remembers where it is. *)
LEMMA Remembers ==
  ASSUME Requested, NEW r \in Requests
  PROVE  /\ req[r] # Idle => req[r].at # "idle"
         /\ req[r].at \in {"form", "checked"} =>
              /\ req[r] \in Forms /\ req[r].o \in Orders /\ req[r].plan \in [Lines -> Entries]
              /\ req[r].st \in Statuses /\ req[r].new \in BOOLEAN /\ req[r].seen \in SUBSET Lines
         /\ req[r].at = "status" =>
              req[r].o \in Orders /\ req[r].to \in {"CONFIRMED", "CANCELLED"}
         /\ req[r].at = "fully" =>
              \A l \in Shipment(req[r]) : l \in Lines /\ req[r].ship[l] \in Quantities
         /\ req[r].at \in {"edit", "editChecked"} =>
              /\ req[r] \in RowEdits /\ req[r].d \in Rows
              /\ req[r].q \in Quantities /\ req[r].kind \in OutwardKinds
<1>1. req[r] \in RequestStates
  BY DEF Requested
<1>2. CASE req[r] = Idle
  BY <1>2 DEF Idle
<1>3. CASE req[r] \in Forms
  BY <1>3 DEF Forms, Idle
<1>4. CASE req[r] \in StatusWrites
  BY <1>4 DEF StatusWrites, Idle
<1>5. CASE req[r] \in FullReads
  BY <1>5 DEF FullReads, Idle, Shipment, Quantities
<1>6. CASE req[r] \in RowEdits
  BY <1>6 DEF RowEdits, Idle
<1> QED  BY <1>1, <1>2, <1>3, <1>4, <1>5, <1>6 DEF RequestStates

(* A step that writes nothing leaves the data as they are, ... *)
LEMMA DataKept ==
  ASSUME DataInv, UNCHANGED <<status, line, row, held>>
  PROVE  DataInv'
BY DEF DataInv, OrderShapes, RowInv, Rowed, ReturnsFit, RowsOnLines,
       NoEarlyLines, CancelledIsUntouched, RowsOn, Outward, Returns, Counted, Present

(* ... and what the one request now remembers is so. *)
LEMMA Reads ==
  ASSUME OneRequest, IInv, NEW r \in Requests, NEW s \in RequestStates, Fits(s),
         req' = [req EXCEPT ![r] = s], UNCHANGED <<status, line, row, held>>
  PROVE  IInv'
<1>1. Requested' /\ req'[r] = s /\ \A q \in Requests : q = r
  BY DEF IInv, Requested, OneRequest
<1>2. /\ FormFits(s)' <=> FormFits(s)
      /\ StatusFits(s)' <=> StatusFits(s)
      /\ EditFits(s)' <=> EditFits(s)
  BY DEF FormFits, StatusFits, EditFits, RowsOn, Outward
<1>3. /\ \A l : Out(l)' = Out(l) /\ Due(l)' = Due(l)
      /\ \A l : RowsOn({l})' = RowsOn({l})
      /\ \A l : Shippable(l)' <=> Shippable(l)
  BY DEF Out, Due, RowsOn, Shippable, Closed, Counted, Present
<1>4. FullyFits(s)' <=> FullyFits(s)
  BY <1>3 DEF FullyFits, Shipment
<1>5. CheckFits(s)' <=> CheckFits(s)
  BY <1>3 DEF CheckFits, Here, LinesOf, Respected
<1>6. Fits(s)'
  BY <1>2, <1>4, <1>5 DEF Fits
<1>7. DataInv'
  BY DataKept DEF IInv
<1> QED  BY <1>1, <1>6, <1>7 DEF IInv

(* A step after which no request is under way. *)
LEMMA Rests ==
  ASSUME OneRequest, IInv, DataInv',
         (\E r \in Requests : Finish(r)) \/ (OneStep /\ req' = req)
  PROVE  IInv'
<1>1. Idle \in RequestStates /\ Fits(Idle)'
  BY DEF RequestStates, Idle, Fits
<1>2. PICK r \in Requests : req'[r] = Idle
  BY DEF Finish, OneStep, IInv, Requested
<1>3. Requested'
  BY <1>1 DEF IInv, Requested, Finish
<1>4. \A q \in Requests : q = r
  BY DEF OneRequest
<1> QED  BY <1>1, <1>2, <1>3, <1>4 DEF IInv

-----------------------------------------------------------------------------
(* The steps that only read *)

(* An order form is loaded. *)
LEMMA FormIsLoaded ==
  ASSUME OneRequest, IInv, NEW r \in Requests, NEW o \in Orders, NEW plan \in Plans(o),
         NEW st \in {"DRAFT", "CONFIRMED", "CANCELLED"}, LoadForm(r, o, plan, st)
  PROVE  IInv'
<1> DEFINE s == [at |-> "form", o |-> o, plan |-> plan, st |-> st,
                 seen |-> {}, new |-> status[o] = "UNUSED"]
<1>1. s \in RequestStates
  BY DEF RequestStates, Forms, Statuses, Plans
<1>2. Fits(s)
  BY DEF Fits, FormFits, LoadForm
<1>3. req' = [req EXCEPT ![r] = s] /\ UNCHANGED <<status, line, row, held>>
  BY DEF LoadForm, Begin
<1> HIDE DEF s
<1> QED  BY <1>1, <1>2, <1>3, Reads

(* The guards of a save leave to a shipped line what went out on it. *)
LEMMA GuardsRespect ==
  ASSUME IInv, IsFiniteSet(Rows), NEW l \in Lines, NEW entry \in Entries,
         RespectsRows(l, entry)
  PROVE  Respected(l, entry)
<1>1. Sent(RowsOn({l})) = Out(l) /\ Out(l) \in Int
  BY OwedIs DEF IInv, DataInv, OrderShapes, RowInv
<1>2. entry.ordered \in Int /\ line[l].ordered \in Int
  BY OrderLinesAssumption DEF IInv, DataInv, OrderShapes, Entries
<1> QED  BY <1>1, <1>2 DEF RespectsRows, Respected

(* A save passes its guards. *)
LEMMA SaveIsChecked ==
  ASSUME OneRequest, IInv, IsFiniteSet(Rows), NEW r \in Requests, CheckSave(r)
  PROVE  IInv'
<1> DEFINE s == [req[r] EXCEPT !.at = "checked", !.seen = Here(req[r].o)]
<1>0. req[r].at = "form" /\ Requested /\ Fits(req[r])
  BY DEF CheckSave, Resume, IInv
<1>1. /\ req[r] \in Forms /\ req[r].o \in Orders /\ req[r].plan \in [Lines -> Entries]
      /\ req[r].new \in BOOLEAN
  BY <1>0, Remembers
<1>2. Here(req[r].o) \in SUBSET Lines
  BY DEF Here, LinesOf
<1>3. s \in Forms
  BY <1>1, <1>2 DEF Forms
<1>4. /\ s.at = "checked" /\ s.seen = Here(req[r].o) /\ s.o = req[r].o
      /\ s.plan = req[r].plan /\ s.st = req[r].st /\ s.new = req[r].new
  BY <1>1 DEF Forms
<1>5. req' = [req EXCEPT ![r] = s] /\ UNCHANGED <<status, line, row, held>>
  BY <1>0 DEF CheckSave, Requested, Here
<1>6. req[r].new \/ \A l \in Here(req[r].o) : Respected(l, req[r].plan[l])
  BY <1>1, <1>2, GuardsRespect DEF CheckSave, Here
<1>7. FormFits(req[r])
  BY <1>0 DEF Fits
<1> HIDE DEF s
<1>8. Fits(s)
  BY <1>4, <1>6, <1>7 DEF Fits, FormFits, CheckFits
<1> QED  BY <1>3, <1>5, <1>8, Reads DEF RequestStates

(* An order is about to be cancelled or restored. *)
LEMMA StatusIsRead ==
  ASSUME OneRequest, IInv, NEW r \in Requests, NEW o \in Orders,
         ReadCancel(r, o) \/ ReadRestore(r, o)
  PROVE  IInv'
<1>1. PICK to \in {"CONFIRMED", "CANCELLED"} :
        /\ Begin(r, [at |-> "status", o |-> o, to |-> to])
        /\ to = "CANCELLED" => RowsOn(LinesOf(o)) = {}
  BY DEF ReadCancel, ReadRestore
<1> DEFINE s == [at |-> "status", o |-> o, to |-> to]
<1>2. s \in RequestStates
  BY DEF RequestStates, StatusWrites
<1>3. Fits(s)
  BY <1>1 DEF Fits, StatusFits
<1>4. req' = [req EXCEPT ![r] = s] /\ UNCHANGED <<status, line, row, held>>
  BY <1>1 DEF ReadCancel, ReadRestore, Begin
<1> HIDE DEF s
<1> QED  BY <1>2, <1>3, <1>4, Reads

(* What an order owes is read. *)
LEMMA OwedIsRead ==
  ASSUME OneRequest, IInv, IsFiniteSet(Rows), NEW r \in Requests, NEW o \in Orders,
         ReadFully(r, o)
  PROVE  IInv'
<1> DEFINE E == {l \in LinesOf(o) : Shippable(l) /\ Owed(l) > 0}
           s == [at |-> "fully", ship |-> [l \in Lines |-> IF l \in E THEN Owed(l) ELSE 0]]
<1>1. req' = [req EXCEPT ![r] = s] /\ UNCHANGED <<status, line, row, held>> /\ ~held
  BY DEF ReadFully, Begin
<1>2. \A l \in E : l \in Lines /\ Shippable(l) /\ Owed(l) = Due(l) /\ Owed(l) \in Quantities
  <2>1. SUFFICES ASSUME NEW l \in E
                 PROVE  l \in Lines /\ Owed(l) = Due(l) /\ Owed(l) \in Quantities
    OBVIOUS
  <2>2. l \in Lines /\ Owed(l) > 0
    BY DEF LinesOf
  <2>3. Rowed /\ line \in [Lines -> Entries]
    BY DEF IInv, DataInv, OrderShapes, RowInv
  <2>4. Owed(l) = Due(l) /\ Due(l) \in Nat
    BY <2>2, <2>3, OwedIs
  <2> QED  BY <2>2, <2>4 DEF Quantities
<1> HIDE DEF E
<1>3. s \in FullReads
  BY <1>2 DEF FullReads, Quantities
<1>4. Shipment(s) \subseteq E /\ \A l \in E : s.ship[l] = Owed(l)
  BY <1>2 DEF Shipment
<1>5. s.at = "fully"
  OBVIOUS
<1> HIDE DEF s
<1>6. Fits(s)
  BY <1>1, <1>2, <1>4, <1>5 DEF Fits, FullyFits
<1> QED  BY <1>1, <1>3, <1>6, Reads DEF RequestStates

(* A row that is to be corrected is read, ... *)
LEMMA RowIsRead ==
  ASSUME OneRequest, IInv, NEW r \in Requests, NEW d \in Rows,
         NEW q \in 1..MaxQty \cup KeptQuantity(d), NEW kind \in OutwardKinds,
         ReadEdit(r, d, q, kind)
  PROVE  IInv'
<1> DEFINE s == [at |-> "edit", d |-> d, old |-> row[d], q |-> q, kind |-> kind]
<1>1. row[d] \in RowStates
  BY DEF IInv, DataInv, RowInv, Rowed
<1>2. s \in RowEdits
  <2>1. q \in Quantities
    <3>1. Outward(d) => row[d].qty \in Quantities
      BY RowIs DEF IInv, DataInv, RowInv
    <3> QED  BY <3>1, OrderLinesAssumption DEF KeptQuantity, Quantities
  <2> QED  BY <1>1, <2>1 DEF RowEdits
<1>3. Fits(s)
  BY DEF Fits, EditFits, ReadEdit
<1>4. req' = [req EXCEPT ![r] = s] /\ UNCHANGED <<status, line, row, held>>
  BY DEF ReadEdit, Begin
<1> HIDE DEF s
<1> QED  BY <1>2, <1>3, <1>4, Reads DEF RequestStates

(* ... and its correction judged. *)
LEMMA EditIsChecked ==
  ASSUME OneRequest, IInv, NEW r \in Requests, CheckEdit(r)
  PROVE  IInv'
<1> DEFINE s == [req[r] EXCEPT !.at = "editChecked"]
<1>0. req[r].at = "edit" /\ Requested /\ Fits(req[r])
  BY DEF CheckEdit, Resume, IInv
<1>1. req[r] \in RowEdits
  BY <1>0, Remembers
<1>2. s \in RowEdits
  BY <1>1 DEF RowEdits
<1>3. /\ s.at = "editChecked" /\ s.d = req[r].d /\ s.old = req[r].old /\ s.q = req[r].q
  BY <1>1 DEF RowEdits
<1>4. req' = [req EXCEPT ![r] = s] /\ UNCHANGED <<status, line, row, held>>
  BY <1>0 DEF CheckEdit, Requested
<1> HIDE DEF s
<1>5. Fits(s)
  BY <1>0, <1>3 DEF Fits, EditFits
<1> QED  BY <1>2, <1>4, <1>5, Reads DEF RequestStates

(* A request ends without having written. *)
LEMMA RequestIsDropped ==
  ASSUME OneRequest, IInv, NEW r \in Requests, Drop(r)
  PROVE  IInv'
<1>1. DataInv'
  BY DataKept DEF IInv, Drop
<1> QED  BY <1>1, Rests DEF Drop

-----------------------------------------------------------------------------
(* The steps that write *)

(* No row is on a line that does not exist. *)
LEMMA NoRowsOnGone ==
  ASSUME DataInv, NEW l \in Lines, line[l].state = "gone"
  PROVE  RowsOn({l}) = {}
BY DEF DataInv, RowsOnLines, RowsOn

(* A save writes the lines of one order that it has judged, and no row. *)
LEMMA SaveWrites ==
  ASSUME IInv, IsFiniteSet(Rows), NEW r \in Requests, WriteSave(r)
  PROVE  /\ row' = row
         /\ \A l \in Lines : RowsOn({l}) # {} => line'[l].state # "gone"
         /\ \A l \in Lines : line'[l].ordered < line[l].ordered => Out(l) <= line'[l].ordered
<1> DEFINE o    == req[r].o
           plan == req[r].plan
           kept == {l \in LinesOf(o) : plan[l].state # "gone"}
           cut  == {l \in req[r].seen : plan[l].state = "gone"}
<1>0. req[r].at = "checked" /\ DataInv /\ FormFits(req[r]) /\ CheckFits(req[r]) /\ Requested
  BY DEF WriteSave, Resume, IInv, Fits
<1>1. /\ o \in Orders /\ plan \in [Lines -> Entries] /\ req[r].seen = Here(o)
      /\ req[r].new \in BOOLEAN
  BY <1>0, Remembers DEF CheckFits
<1>2. /\ line' = [l \in Lines |-> IF l \in kept \cup cut THEN plan[l] ELSE line[l]]
      /\ row' = [d \in Rows |-> IF d \in RowsOn(cut) THEN [kind |-> "gone"] ELSE row[d]]
  BY DEF WriteSave
<1>3. \A l \in Here(o) : l \in Lines /\ Respected(l, plan[l])
  BY <1>0, <1>1 DEF CheckFits, FormFits, DataInv, NoEarlyLines, Here, LinesOf
<1>4. \A l \in cut : RowsOn({l}) = {}
  BY <1>1, <1>3 DEF Respected
<1>5. RowsOn(cut) = {}
  BY <1>4 DEF RowsOn
<1>6. row' = row
  BY <1>0, <1>2, <1>5 DEF DataInv, RowInv, Rowed
<1>7. \A l \in Lines : RowsOn({l}) # {} => line'[l].state # "gone"
  <2>1. \A l \in Lines : RowsOn({l}) # {} => line[l].state # "gone"
    BY <1>0, NoRowsOnGone
  <2> QED  BY <1>2, <1>4, <2>1
<1>8. ASSUME NEW l \in Lines, line'[l].ordered < line[l].ordered
      PROVE  Out(l) <= line'[l].ordered
  <2>1. l \in kept \cup cut /\ line'[l] = plan[l]
    BY <1>0, <1>2, <1>8 DEF DataInv, OrderShapes, Entries
  <2>2. plan[l].ordered \in Nat
    BY <1>1, OrderLinesAssumption DEF Entries
  <2>3. CASE RowsOn({l}) = {}
    <3>1. Out(l) = 0
      <4>1. Summable(Counted, {})
        BY <1>0, RowsSummable DEF DataInv, RowInv
      <4> QED  BY <2>3, <4>1, SumOne DEF Out
    <3> QED  BY <2>1, <2>2, <3>1
  <2>4. CASE RowsOn({l}) # {}
    <3>1. l \in Here(o)
      BY <1>0, <1>1, <2>1, <2>4, NoRowsOnGone DEF Here
    <3> QED  BY <1>3, <1>8, <2>1, <2>4, <3>1 DEF Respected
  <2> QED  BY <2>3, <2>4
<1> QED  BY <1>6, <1>7, <1>8

(* Shipments and sums are the same where no row has changed. *)
LEMMA SameRows ==
  ASSUME RowInv, row' = row
  PROVE  RowInv' /\ \A ls : RowsOn(ls)' = RowsOn(ls)
BY DEF RowInv, Rowed, ReturnsFit, RowsOn, Outward, Returns, Counted, Present

(* A form is saved. *)
LEMMA FormIsSaved ==
  ASSUME OneRequest, IInv, IsFiniteSet(Rows), NEW r \in Requests, WriteSave(r)
  PROVE  IInv'
<1> DEFINE o    == req[r].o
           plan == req[r].plan
           kept == {l \in LinesOf(o) : plan[l].state # "gone"}
           cut  == {l \in req[r].seen : plan[l].state = "gone"}
<1>0. req[r].at = "checked" /\ DataInv /\ FormFits(req[r]) /\ CheckFits(req[r]) /\ Requested
  BY DEF WriteSave, Resume, IInv, Fits
<1>1. /\ o \in Orders /\ plan \in [Lines -> Entries] /\ req[r].seen = Here(o)
      /\ req[r].st \in Statuses
  BY <1>0, Remembers DEF CheckFits
<1>2. /\ status' = [status EXCEPT ![o] = req[r].st]
      /\ line' = [l \in Lines |-> IF l \in kept \cup cut THEN plan[l] ELSE line[l]]
      /\ held' = held
  BY DEF WriteSave
<1>3. OrderShapes'
  BY <1>0, <1>1, <1>2 DEF DataInv, OrderShapes
<1>4. RowInv' /\ row' = row /\ \A ls : RowsOn(ls)' = RowsOn(ls)
  BY <1>0, SaveWrites, SameRows DEF DataInv
<1>5. RowsOnLines'
  <2>1. \A d \in RowsOn(Lines) : row[d].line \in Lines /\ d \in RowsOn({row[d].line})
    BY DEF RowsOn
  <2> QED  BY <1>4, <2>1, SaveWrites DEF RowsOnLines
<1>6. NoEarlyLines'
  <2>1. \A l \in Lines : OrderOf[l] \in Orders
    BY OrderLinesAssumption
  <2>2. \A l \in Lines : OrderOf[l] # o => l \notin kept \cup cut
    BY <1>1 DEF Here, LinesOf
  <2> QED  BY <1>0, <1>1, <1>2, <2>1, <2>2
           DEF DataInv, OrderShapes, NoEarlyLines, FormFits
<1>7. CancelledIsUntouched'
  <2>1. \A p \in Orders : status'[p] = "CANCELLED" => status[p] = "CANCELLED"
    BY <1>0, <1>1, <1>2 DEF DataInv, OrderShapes, FormFits
  <2>2. \A p \in Orders : RowsOn(LinesOf(p))' = RowsOn(LinesOf(p))
    BY <1>4 DEF LinesOf
  <2> QED  BY <1>0, <2>1, <2>2 DEF DataInv, CancelledIsUntouched
<1>8. DataInv'
  BY <1>3, <1>4, <1>5, <1>6, <1>7 DEF DataInv
<1> QED  BY <1>8, Rests DEF WriteSave

(* An order is cancelled, or restored. *)
LEMMA StatusIsWritten ==
  ASSUME OneRequest, IInv, NEW r \in Requests, WriteStatus(r)
  PROVE  IInv'
<1>0. /\ req[r].at = "status" /\ DataInv /\ Requested
      /\ req[r].to = "CANCELLED" => RowsOn(LinesOf(req[r].o)) = {}
  BY DEF WriteStatus, Resume, IInv, Fits, StatusFits
<1>1. req[r].o \in Orders /\ req[r].to \in {"CONFIRMED", "CANCELLED"}
  BY <1>0, Remembers
<1>2. /\ status' = [status EXCEPT ![req[r].o] = req[r].to]
      /\ UNCHANGED <<line, row, held>> /\ Exists(req[r].o)
  BY DEF WriteStatus
<1>3. RowInv' /\ \A ls : RowsOn(ls)' = RowsOn(ls)
  BY <1>0, <1>2, SameRows DEF DataInv
<1>4. OrderShapes'
  BY <1>0, <1>1, <1>2 DEF DataInv, OrderShapes, Statuses
<1>5. RowsOnLines'
  BY <1>0, <1>2, <1>3 DEF DataInv, RowsOnLines
<1>6. NoEarlyLines'
  BY <1>0, <1>1, <1>2, OrderLinesAssumption DEF DataInv, OrderShapes, NoEarlyLines
<1>7. CancelledIsUntouched'
  <2>1. \A p \in Orders : RowsOn(LinesOf(p))' = RowsOn(LinesOf(p))
    BY <1>3 DEF LinesOf
  <2> QED  BY <1>0, <1>1, <1>2, <2>1 DEF DataInv, OrderShapes, CancelledIsUntouched
<1>8. DataInv'
  BY <1>3, <1>4, <1>5, <1>6, <1>7 DEF DataInv
<1> QED  BY <1>8, Rests DEF WriteStatus

(* An order is deleted, with its lines and their rows. *)
LEMMA OrderIsRemoved ==
  ASSUME OneRequest, IInv, IsFiniteSet(Rows), NEW o \in Orders, RemoveOrder(o)
  PROVE  IInv'
<1> DEFINE G == RowsOn(LinesOf(o))
<1>0. DataInv /\ RowInv
  BY DEF IInv, DataInv
<1>1. /\ status' = [status EXCEPT ![o] = "DELETED"]
      /\ line' = [l \in Lines |-> IF l \in LinesOf(o) THEN Absent ELSE line[l]]
      /\ row' = [d \in Rows |-> IF d \in G THEN [kind |-> "gone"] ELSE row[d]]
      /\ held' = held
  BY DEF RemoveOrder
<1>2. \A d \in G : Outward(d) => Returns(d) \subseteq G
  BY <1>0 DEF RowInv, ReturnsFit, Returns, RowsOn
<1>3. G \in SUBSET Rows
  BY DEF RowsOn
<1>4. /\ RowInv'
      /\ \A ls \in SUBSET Lines : RowsOn(ls)' = RowsOn(ls) \ G
      /\ \A d \in Rows \ G : row'[d] = row[d]
  <2> HIDE DEF G
  <2> QED  BY <1>0, <1>1, <1>2, <1>3, RowsGo
<1>5. OrderShapes'
  BY <1>0, <1>1, OrderLinesAssumption DEF DataInv, OrderShapes, Statuses, Entries, Absent
<1>6. RowsOnLines'
  <2>1. ASSUME NEW d \in RowsOn(Lines)'
        PROVE  line'[row'[d].line].state # "gone"
    <3>1. d \in RowsOn(Lines) /\ d \notin G /\ row'[d] = row[d]
      <4>1. RowsOn(Lines)' = RowsOn(Lines) \ G
        BY <1>4
      <4>2. d \in Rows \ G
        BY <4>1 DEF RowsOn
      <4> QED  BY <1>4, <4>1, <4>2
    <3>2. row[d].line \in Lines /\ row[d].line \notin LinesOf(o)
      BY <3>1 DEF RowsOn
    <3> QED  BY <1>0, <1>1, <3>1, <3>2 DEF DataInv, RowsOnLines
  <2> QED  BY <2>1 DEF RowsOnLines
<1>7. NoEarlyLines'
  BY <1>0, <1>1, OrderLinesAssumption DEF DataInv, OrderShapes, NoEarlyLines, Absent
<1>8. CancelledIsUntouched'
  <2>1. \A p \in Orders : LinesOf(p) \in SUBSET Lines /\ RowsOn(LinesOf(p))' = RowsOn(LinesOf(p)) \ G
    <3>1. \A p \in Orders : LinesOf(p) \in SUBSET Lines /\ LinesOf(p)' = LinesOf(p)
      BY DEF LinesOf
    <3>2. \A p \in Orders : RowsOn(LinesOf(p))' = RowsOn(LinesOf(p)) \ G
      BY <1>4, <3>1
    <3> QED  BY <3>1, <3>2
  <2> HIDE DEF G
  <2> QED  BY <1>0, <1>1, <2>1 DEF DataInv, OrderShapes, CancelledIsUntouched
<1>9. DataInv'
  BY <1>4, <1>5, <1>6, <1>7, <1>8 DEF DataInv
<1> QED  BY <1>9, Rests DEF RemoveOrder

(* The party is put on hold, or taken off it. *)
LEMMA HoldIsSet ==
  ASSUME OneRequest, IInv, NEW value \in BOOLEAN, SetHold(value)
  PROVE  IInv'
<1>1. RowInv' /\ \A ls : RowsOn(ls)' = RowsOn(ls)
  BY SameRows DEF IInv, DataInv, SetHold
<1>2. OrderShapes' /\ NoEarlyLines'
  BY DEF IInv, DataInv, OrderShapes, NoEarlyLines, SetHold
<1>3. RowsOnLines'
  BY <1>1 DEF IInv, DataInv, RowsOnLines, SetHold
<1>4. CancelledIsUntouched'
  BY <1>1 DEF IInv, DataInv, CancelledIsUntouched, LinesOf, SetHold
<1>5. DataInv'
  BY <1>1, <1>2, <1>3, <1>4 DEF DataInv
<1> QED  BY <1>5, Rests DEF SetHold

(* Only rows change, and where a row is now there was one, or it is on a   *)
(* line that may ship.                                                     *)
LEMMA RowsChange ==
  ASSUME DataInv, UNCHANGED <<status, line, held>>, RowInv',
         \A d \in RowsOn(Lines)' :
           \/ d \in RowsOn(Lines) /\ row'[d].line = row[d].line
           \/ \E e \in RowsOn(Lines) : row'[d].line = row[e].line
           \/ /\ line[row'[d].line].state # "gone"
              /\ status[OrderOf[row'[d].line]] # "CANCELLED"
  PROVE  DataInv'
<1>1. ASSUME NEW d \in RowsOn(Lines)'
      PROVE  \/ \E e \in RowsOn(Lines) : row'[d].line = row[e].line
             \/ /\ line[row'[d].line].state # "gone"
                /\ status[OrderOf[row'[d].line]] # "CANCELLED"
  OBVIOUS
<1>2. RowsOnLines'
  BY <1>1 DEF DataInv, RowsOnLines
<1>3. CancelledIsUntouched'
  <2>1. SUFFICES ASSUME NEW o \in Orders, status[o] = "CANCELLED",
                        NEW d \in RowsOn(LinesOf(o))'
                 PROVE  FALSE
    BY DEF CancelledIsUntouched, LinesOf
  <2>2. d \in RowsOn(Lines)' /\ row'[d].line \in Lines /\ OrderOf[row'[d].line] = o
    BY DEF RowsOn, LinesOf
  <2>3. PICK e \in RowsOn(Lines) : row'[d].line = row[e].line
    BY <1>1, <2>1, <2>2
  <2>4. e \in RowsOn(LinesOf(o))
    BY <2>2, <2>3 DEF RowsOn, LinesOf
  <2> QED  BY <2>1, <2>4 DEF DataInv, CancelledIsUntouched
<1>4. OrderShapes' /\ NoEarlyLines'
  BY DEF DataInv, OrderShapes, NoEarlyLines
<1> QED  BY <1>2, <1>3, <1>4 DEF DataInv

(* A line is dispatched. *)
LEMMA LineIsDispatched ==
  ASSUME OneRequest, IInv, IsFiniteSet(Rows), NEW d \in Rows, NEW l \in Lines,
         NEW q \in 1..MaxQty, NEW kind \in OutwardKinds, NEW closeShort \in BOOLEAN,
         CreateDispatch(d, l, q, kind, closeShort)
  PROVE  IInv'
<1>0. DataInv /\ RowInv /\ Rowed
  BY DEF IInv, DataInv, RowInv
<1>1. /\ row[d].kind = "unborn" /\ Shippable(l)
      /\ row' = [row EXCEPT ![d] = [kind |-> kind, line |-> l, qty |-> q]]
      /\ UNCHANGED <<status, line, held>>
  BY DEF CreateDispatch, Accepts
<1>2. /\ row' \in [Rows -> RowStates]
      /\ row'[d].kind = kind /\ row'[d].line = l
      /\ \A e \in Rows \ {d} : row'[e] = row[e]
  BY <1>0, <1>1, OrderLinesAssumption DEF Rowed, RowStates, Quantities
<1>3. \A e \in {d} : row[e].kind = "unborn" /\ Outward(e)'
  BY <1>1, <1>2 DEF Outward
<1>4. RowInv'
  <2> DEFINE N == {d}
  <2>1. N \in SUBSET Rows
    OBVIOUS
  <2>2. \A e \in Rows \ N : row'[e] = row[e]
    BY <1>2
  <2>3. \A e \in N : row[e].kind = "unborn"
    BY <1>3
  <2>4. \A e \in N : Outward(e)'
    BY <1>3
  <2> HIDE DEF N
  <2> QED  BY <1>0, <1>2, <2>1, <2>2, <2>3, <2>4, RowsBorn
<1>5. \A e \in RowsOn(Lines)' :
        \/ e \in RowsOn(Lines) /\ row'[e].line = row[e].line
        \/ /\ line[row'[e].line].state # "gone"
           /\ status[OrderOf[row'[e].line]] # "CANCELLED"
  BY <1>1, <1>2 DEF RowsOn, Shippable
<1>6. DataInv'
  BY <1>0, <1>1, <1>4, <1>5, RowsChange
<1> QED  BY <1>6, Rests DEF CreateDispatch

(* What a whole order owes is dispatched. *)
LEMMA OrderIsDispatched ==
  ASSUME OneRequest, IInv, IsFiniteSet(Rows), NEW r \in Requests,
         NEW ls \in SUBSET Lines, NEW place \in [ls -> Rows], WriteFully(r, place)
  PROVE  /\ \A l \in ls : Shippable(l) /\ req[r].ship[l] = Due(l)
         /\ \A d \in Rows : row'[d] = row[d] \/ \E l \in ls :
              place[l] = d /\ row'[d] = [kind |-> "FULL", line |-> l, qty |-> req[r].ship[l]]
         /\ ~held
         /\ IInv'
<1> DEFINE N == {d \in Rows : \E l \in ls : place[l] = d}
<1>0. DataInv /\ RowInv /\ Rowed /\ Requested /\ req[r].at = "fully" /\ FullyFits(req[r])
  BY DEF IInv, DataInv, RowInv, WriteFully, Resume, Fits
<1>1. /\ Shipment(req[r]) = ls
      /\ \A l \in ls : line[l].state # "gone" /\ row[place[l]].kind = "unborn"
      /\ UNCHANGED <<status, line, held>>
  BY DEF WriteFully
<1>2. \A l \in ls : Shippable(l) /\ req[r].ship[l] = Due(l) /\ req[r].ship[l] \in Quantities
  BY <1>0, <1>1, Remembers DEF FullyFits
<1>3. /\ \A d \in N : \E l \in ls :
           place[l] = d /\ row'[d] = [kind |-> "FULL", line |-> l, qty |-> req[r].ship[l]]
      /\ \A d \in Rows \ N : row'[d] = row[d]
      /\ row' = [d \in Rows |-> row'[d]]
  BY DEF WriteFully
<1>4. row' \in [Rows -> RowStates]
  <2>1. \A d \in Rows : row'[d] \in RowStates
    <3>1. \A d \in N : row'[d] \in RowStates
      BY <1>2, <1>3 DEF RowStates, OutwardKinds
    <3>2. \A d \in Rows \ N : row'[d] \in RowStates
      BY <1>0, <1>3 DEF Rowed
    <3> QED  BY <3>1, <3>2
  <2> QED  BY <1>3, <2>1
<1>5. \A d \in N : row[d].kind = "unborn" /\ Outward(d)'
  BY <1>1, <1>3 DEF Outward, OutwardKinds
<1>6. RowInv'
  <2>1. N \in SUBSET Rows
    OBVIOUS
  <2> HIDE DEF N
  <2> QED  BY <1>0, <1>3, <1>4, <1>5, <2>1, RowsBorn
<1>7. \A d \in RowsOn(Lines)' :
        \/ d \in RowsOn(Lines) /\ row'[d].line = row[d].line
        \/ /\ line[row'[d].line].state # "gone"
           /\ status[OrderOf[row'[d].line]] # "CANCELLED"
  <2>1. \A d \in N : /\ line[row'[d].line].state # "gone"
                     /\ status[OrderOf[row'[d].line]] # "CANCELLED"
    BY <1>1, <1>2, <1>3 DEF Shippable
  <2> HIDE DEF N
  <2> QED  BY <1>3, <2>1 DEF RowsOn
<1>8. DataInv'
  BY <1>0, <1>1, <1>6, <1>7, RowsChange
<1>9. IInv'
  BY <1>8, Rests DEF WriteFully
<1>10. ~held
  BY <1>0 DEF FullyFits
<1> QED  BY <1>2, <1>3, <1>9, <1>10

(* The correction of a row is written. *)
LEMMA EditIsWritten ==
  ASSUME OneRequest, IInv, IsFiniteSet(Rows), NEW r \in Requests, WriteEdit(r)
  PROVE  IInv' /\ \A e \in Rows : Outward(e)' <=> Outward(e)
<1>0. /\ DataInv /\ RowInv /\ Rowed /\ Requested
      /\ req[r].at = "editChecked" /\ EditFits(req[r])
  BY DEF IInv, DataInv, RowInv, WriteEdit, Resume, Fits
<1>1. PICK d \in Rows, q \in Quantities, kind \in OutwardKinds :
        req[r].d = d /\ req[r].q = q /\ req[r].kind = kind
  BY <1>0, Remembers
<1>2. /\ row' = [row EXCEPT ![d].qty = q, ![d].kind = kind]
      /\ UNCHANGED <<status, line, held>>
  BY <1>1 DEF WriteEdit
<1>3. Outward(d)
  BY <1>0, <1>1 DEF EditFits
<1>4. row[d] \in [kind: OutwardKinds, line: Lines, qty: Quantities]
  BY <1>0, <1>1, <1>3 DEF Rowed, RowStates, Outward, OutwardKinds
<1>5. /\ row'[d] \in [kind: OutwardKinds, line: Lines, qty: Quantities]
      /\ row'[d].kind = kind /\ row'[d].line = row[d].line /\ row'[d].qty = q
      /\ \A e \in Rows \ {d} : row'[e] = row[e]
      /\ row' = [e \in Rows |-> row'[e]]
  BY <1>0, <1>1, <1>2, <1>4 DEF Rowed
<1>6. row' \in [Rows -> RowStates]
  <2>1. \A e \in Rows : row'[e] \in RowStates
    BY <1>0, <1>5 DEF Rowed, RowStates
  <2> QED  BY <1>5, <2>1
<1>7. Outward(d)'
  BY <1>1, <1>3, <1>5 DEF Outward
<1>8. /\ RowInv'
      /\ \A e \in Rows : Outward(e)' <=> Outward(e)
      /\ RowsOn(Lines)' = RowsOn(Lines)
  BY <1>0, <1>1, <1>3, <1>5, <1>6, <1>7, RowCorrected
<1>9. \A e \in RowsOn(Lines)' : e \in RowsOn(Lines) /\ row'[e].line = row[e].line
  BY <1>5, <1>8 DEF RowsOn
<1>10. DataInv'
  BY <1>0, <1>2, <1>8, <1>9, RowsChange
<1> QED  BY <1>8, <1>10, Rests DEF WriteEdit

(* A row is deleted that no goods came back of, or goods are counted as    *)
(* gone again.                                                             *)
LEMMA RowIsRemoved ==
  ASSUME OneRequest, IInv, IsFiniteSet(Rows), NEW d \in Rows, RemoveRow(d) \/ ClearReturn(d)
  PROVE  IInv' /\ \A e \in Rows : Outward(e)' => Outward(e)
<1>0. DataInv /\ RowInv /\ Rowed
  BY DEF IInv, DataInv, RowInv
<1>1. /\ row' = [row EXCEPT ![d] = [kind |-> "gone"]]
      /\ UNCHANGED <<status, line, held, req>> /\ OneStep
  BY DEF RemoveRow, ClearReturn
<1>2. row' = [e \in Rows |-> IF e \in {d} THEN [kind |-> "gone"] ELSE row[e]]
  BY <1>0, <1>1 DEF Rowed
<1>3. \A e \in {d} : Outward(e) => Returns(e) \subseteq {d}
  BY DEF RemoveRow, ClearReturn, Billed, Outward, OutwardKinds
<1>4. /\ RowInv' /\ RowsOn(Lines)' = RowsOn(Lines) \ {d}
      /\ \A e \in Rows \ {d} : row'[e] = row[e]
  BY <1>0, <1>2, <1>3, RowsGo
<1>5. \A e \in RowsOn(Lines)' : e \in RowsOn(Lines) /\ row'[e].line = row[e].line
  BY <1>4 DEF RowsOn
<1>6. DataInv'
  BY <1>0, <1>1, <1>4, <1>5, RowsChange
<1>7. \A e \in Rows : Outward(e)' => Outward(e)
  BY <1>2 DEF Outward, OutwardKinds
<1> QED  BY <1>1, <1>6, <1>7, Rests

(* A credit note puts goods back. *)
LEMMA GoodsAreReturned ==
  ASSUME OneRequest, IInv, IsFiniteSet(Rows), NEW d \in Rows, NEW src \in Rows,
         NEW n \in 1..MaxQty, ReturnGoods(d, src, n)
  PROVE  IInv' /\ \A e \in Rows : Outward(e)' => Outward(e)
<1>0. DataInv /\ RowInv /\ Rowed
  BY DEF IInv, DataInv, RowInv
<1>1. /\ row[d].kind = "unborn" /\ Outward(src)
      /\ row' = [row EXCEPT ![d] = [kind |-> "RETURNED", line |-> row[src].line,
                                    qty |-> -n, src |-> src]]
      /\ UNCHANGED <<status, line, held>>
  BY DEF ReturnGoods
<1>2. row[src].line \in Lines /\ src # d
  BY <1>0, <1>1, RowIs DEF Outward, OutwardKinds
<1>3. /\ row' \in [Rows -> RowStates]
      /\ row'[d] = [kind |-> "RETURNED", line |-> row[src].line, qty |-> -n, src |-> src]
      /\ \A e \in Rows \ {d} : row'[e] = row[e]
  BY <1>0, <1>1, <1>2, OrderLinesAssumption DEF Rowed, RowStates
<1>4. RowInv' /\ RowsOn(Lines)' = RowsOn(Lines) \cup {e \in {d} : row[src].line \in Lines}
  BY <1>0, <1>1, <1>3, RowReturned
<1>5. src \in RowsOn(Lines)
  BY <1>0, <1>1, <1>2, RowIs DEF RowsOn, Present
<1>6. row'[d].kind = "RETURNED" /\ row'[d].line = row[src].line
  BY <1>3
<1>7. \A e \in RowsOn(Lines)' :
        \/ e \in RowsOn(Lines) /\ row'[e].line = row[e].line
        \/ \E x \in RowsOn(Lines) : row'[e].line = row[x].line
  <2>1. \A e \in RowsOn(Lines) : e \in Rows \ {d}
    BY <1>1 DEF RowsOn
  <2> QED  BY <1>3, <1>4, <1>5, <1>6, <2>1
<1>8. DataInv'
  BY <1>0, <1>1, <1>4, <1>7, RowsChange
<1>9. \A e \in Rows : Outward(e)' => Outward(e)
  BY <1>3, <1>6 DEF Outward, OutwardKinds
<1> QED  BY <1>8, <1>9, Rests DEF ReturnGoods

-----------------------------------------------------------------------------
(* The theorems *)

(* Nothing is ordered, nothing has shipped. *)
LEMMA StartsFit ==
  ASSUME IsFiniteSet(Rows)
  PROVE  Init => IInv
<1>1. SUFFICES ASSUME Init PROVE IInv
  OBVIOUS
<1>2. OrderShapes /\ NoEarlyLines
  <2>1. Absent \in Entries /\ Absent.state = "gone"
    BY OrderLinesAssumption DEF Absent, Entries
  <2> QED  BY <1>1, <2>1 DEF Init, OrderShapes, NoEarlyLines, Statuses
<1>3. \A d \in Rows : row[d].kind = "unborn"
  BY <1>1 DEF Init
<1>4. RowInv
  BY <1>1, <1>3
     DEF Init, RowInv, Rowed, RowStates, ReturnsFit, Outward, OutwardKinds
<1>5. RowsOnLines /\ CancelledIsUntouched
  BY <1>3 DEF RowsOnLines, CancelledIsUntouched, RowsOn
<1>6. Requested /\ \A r \in Requests : Fits(req[r])
  BY <1>1 DEF Init, Requested, RequestStates, Idle, Fits
<1> QED  BY <1>2, <1>4, <1>5, <1>6 DEF IInv, DataInv

(* Where one operation runs at a time, every step keeps the invariant. *)
LEMMA StepsFit ==
  ASSUME OneRequest, IsFiniteSet(Rows), IInv, [Next]_vars
  PROVE  IInv'
<1>1. ASSUME NEW r \in Requests, NEW o \in Orders, NEW plan \in Plans(o),
             NEW st \in {"DRAFT", "CONFIRMED", "CANCELLED"}, LoadForm(r, o, plan, st)
      PROVE  IInv'
  BY <1>1, FormIsLoaded
<1>2. ASSUME NEW r \in Requests, CheckSave(r) PROVE IInv'
  BY <1>2, SaveIsChecked
<1>3. ASSUME NEW r \in Requests, WriteSave(r) PROVE IInv'
  BY <1>3, FormIsSaved
<1>4. ASSUME NEW r \in Requests, NEW o \in Orders, ReadCancel(r, o) \/ ReadRestore(r, o)
      PROVE  IInv'
  BY <1>4, StatusIsRead
<1>5. ASSUME NEW r \in Requests, WriteStatus(r) PROVE IInv'
  BY <1>5, StatusIsWritten
<1>6. ASSUME NEW o \in Orders, RemoveOrder(o) PROVE IInv'
  BY <1>6, OrderIsRemoved
<1>7. ASSUME NEW value \in BOOLEAN, SetHold(value) PROVE IInv'
  BY <1>7, HoldIsSet
<1>8. ASSUME OrderStep PROVE IInv'
  BY <1>1, <1>2, <1>3, <1>4, <1>5, <1>6, <1>7, <1>8 DEF OrderStep
<1>9. ASSUME NEW d \in Rows, NEW l \in Lines, NEW q \in 1..MaxQty, NEW kind \in OutwardKinds,
             NEW closeShort \in BOOLEAN, CreateDispatch(d, l, q, kind, closeShort)
      PROVE  IInv'
  BY <1>9, LineIsDispatched
<1>10. ASSUME NEW r \in Requests, NEW o \in Orders, ReadFully(r, o) PROVE IInv'
  BY <1>10, OwedIsRead
<1>11. ASSUME NEW r \in Requests, NEW ls \in SUBSET Lines, NEW place \in [ls -> Rows],
              WriteFully(r, place)
       PROVE  IInv'
  BY <1>11, OrderIsDispatched
<1>12. ASSUME NEW r \in Requests, NEW d \in Rows, NEW kind \in OutwardKinds,
              NEW q \in 1..MaxQty \cup KeptQuantity(d), ReadEdit(r, d, q, kind)
       PROVE  IInv'
  BY <1>12, RowIsRead
<1>13. ASSUME NEW r \in Requests, CheckEdit(r) PROVE IInv'
  BY <1>13, EditIsChecked
<1>14. ASSUME NEW r \in Requests, WriteEdit(r) PROVE IInv'
  BY <1>14, EditIsWritten
<1>15. ASSUME NEW d \in Rows, RemoveRow(d) \/ ClearReturn(d) PROVE IInv'
  BY <1>15, RowIsRemoved
<1>16. ASSUME NEW d \in Rows, NEW src \in Rows, NEW n \in 1..MaxQty, ReturnGoods(d, src, n)
       PROVE  IInv'
  BY <1>16, GoodsAreReturned
<1>17. ASSUME RowStep PROVE IInv'
  BY <1>9, <1>10, <1>11, <1>12, <1>13, <1>14, <1>15, <1>16, <1>17 DEF RowStep
<1>18. ASSUME NEW r \in Requests, Drop(r) PROVE IInv'
  BY <1>18, RequestIsDropped
<1>19. ASSUME UNCHANGED vars PROVE IInv'
  <2>1. CASE Requests = {}
    BY <1>19, <2>1, DataKept DEF vars, IInv, Requested
  <2>2. ASSUME NEW r \in Requests PROVE IInv'
    <3>1. req[r] \in RequestStates /\ Fits(req[r])
      BY DEF IInv, Requested
    <3>2. req' = [req EXCEPT ![r] = req[r]]
      BY <1>19 DEF vars, IInv, Requested
    <3> QED  BY <1>19, <3>1, <3>2, Reads DEF vars
  <2> QED  BY <2>1, <2>2
<1> QED  BY <1>8, <1>17, <1>18, <1>19 DEF Next

(* Where one operation runs at a time, what a request has read is still so *)
(* when it writes: the lines and shipments a save was judged by, what a    *)
(* whole order owes, the row that is corrected.  Rows are on lines that    *)
(* exist, and goods that came back are on the line their row went out on   *)
(* (update, updateStatus, dispatchOrderFully, applyUndispatch).            *)
THEOREM OneByOne ==
  ASSUME OneRequest, IsFiniteSet(Rows)
  PROVE  Spec => []IInv
<1>1. Init => IInv
  BY StartsFit
<1>2. IInv /\ [Next]_vars => IInv'
  BY StepsFit
<1> QED  BY <1>1, <1>2, PTL DEF Spec

(* Orders, lines, rows and what requests remember keep their shape, and no *)
(* row outlives its line.                                                  *)
THEOREM LinesTypeCorrect ==
  ASSUME OneRequest, IsFiniteSet(Rows)
  PROVE  Spec => []TypeOK
<1>1. IInv => TypeOK
  BY DEF IInv, DataInv, OrderShapes, RowInv, Rowed, RowsOnLines, Requested, TypeOK
<1> QED  BY <1>1, OneByOne, PTL

(* A cancelled order has never shipped anything (updateStatus). *)
THEOREM CancelledStaysUntouched ==
  ASSUME OneRequest, IsFiniteSet(Rows)
  PROVE  Spec => []CancelledIsUntouched
<1>1. IInv => CancelledIsUntouched
  BY DEF IInv, DataInv
<1> QED  BY <1>1, OneByOne, PTL

(* Saving an order form destroys no shipment and pulls no line below what  *)
(* went out on it (OrdersService.update).                                  *)
THEOREM SavesRespectShipments ==
  ASSUME OneRequest, IsFiniteSet(Rows)
  PROVE  Spec => SaveRespectsShipments
<1>1. ASSUME IInv, NEW r \in Requests, WriteSave(r)
      PROVE  /\ row' = row
             /\ \A l \in Lines : line'[l].ordered < line[l].ordered
                  => Sent(RowsOn({l})) <= line'[l].ordered
  <2>1. \A l \in Lines : Sent(RowsOn({l})) = Out(l)
    BY <1>1, OwedIs DEF IInv, DataInv, RowInv, OrderShapes
  <2> QED  BY <1>1, <2>1, SaveWrites
<1>2. IInv => \A r \in Requests : WriteSave(r) =>
        /\ row' = row
        /\ \A l \in Lines : line'[l].ordered < line[l].ordered
             => Sent(RowsOn({l})) <= line'[l].ordered
  BY <1>1
<1> QED  BY <1>2, OneByOne, PTL DEF SaveRespectsShipments

(* Only WriteFully writes rows for a request that has read what is owed. *)
LEMMA OnlyFullyWrites ==
  ASSUME OneRequest, NEW r \in Requests, req[r].at = "fully", Next
  PROVE  \/ row' = row
         \/ \E ls \in SUBSET Lines : \E place \in [ls -> Rows] : WriteFully(r, place)
<1>1. \A q \in Requests : q = r
  BY DEF OneRequest
<1>2. ~OneStep
  BY <1>1 DEF OneStep, Idle
<1>3. CASE OrderStep
  BY <1>1, <1>2, <1>3
     DEF OrderStep, LoadForm, CheckSave, WriteSave, ReadCancel, ReadRestore, WriteStatus,
         RemoveOrder, SetHold, Resume
<1>4. CASE RowStep
  BY <1>1, <1>2, <1>4, Zenon
     DEF RowStep, CreateDispatch, ReadFully, ReadEdit, CheckEdit, WriteEdit,
         RemoveRow, ReturnGoods, ClearReturn, Resume
<1>5. CASE \E q \in Requests : Drop(q)
  BY <1>5 DEF Drop
<1> QED  BY <1>3, <1>4, <1>5 DEF Next

(* Shipping an order fully sends of each line what it owes at that moment, *)
(* and nothing of a line that is closed, cancelled or on a cancelled order *)
(* (dispatchOrderFully).                                                   *)
THEOREM FullyShipsWhatWasOwed ==
  ASSUME OneRequest, IsFiniteSet(Rows)
  PROVE  Spec => FullyShipsWhatIsOwed
<1>1. ASSUME IInv, [Next]_vars, NEW r \in Requests, NEW d \in Rows,
             Resume(r, "fully"), row'[d] # row[d]
      PROVE  Shippable(row'[d].line) /\ row'[d].qty = Owed(row'[d].line)
  <2>1. Next /\ req[r].at = "fully" /\ row' # row
    BY <1>1 DEF vars, Resume
  <2>2. PICK ls \in SUBSET Lines : \E place \in [ls -> Rows] : WriteFully(r, place)
    BY <2>1, OnlyFullyWrites
  <2>5. PICK place \in [ls -> Rows] : WriteFully(r, place)
    BY <2>2
  <2>3. PICK l \in ls : /\ row'[d].line = l /\ row'[d].qty = req[r].ship[l]
                        /\ Shippable(l) /\ req[r].ship[l] = Due(l)
    <3>1. /\ \A l \in ls : Shippable(l) /\ req[r].ship[l] = Due(l)
          /\ \E l \in ls : row'[d] = [kind |-> "FULL", line |-> l, qty |-> req[r].ship[l]]
      BY <1>1, <2>5, OrderIsDispatched
    <3> QED  BY <3>1
  <2>4. Owed(l) = Due(l)
    BY <1>1, OwedIs DEF IInv, DataInv, RowInv, OrderShapes
  <2> QED  BY <2>3, <2>4
<1>2. IInv /\ [Next]_vars =>
        \A r \in Requests, d \in Rows :
          Resume(r, "fully") /\ req'[r] = Idle /\ row'[d] # row[d] =>
            Shippable(row'[d].line) /\ row'[d].qty = Owed(row'[d].line)
  BY <1>1
<1> QED  BY <1>2, OneByOne, PTL DEF Spec, FullyShipsWhatIsOwed

(* No goods leave for a party on hold (assertNotOnHold). *)
THEOREM NothingForHeldParty ==
  ASSUME OneRequest, IsFiniteSet(Rows)
  PROVE  Spec => HeldPartyGetsNothing
<1>1. ASSUME IInv, held, [Next]_vars, NEW d \in Rows, row'[d].kind \in OutwardKinds
      PROVE  Outward(d)
  <2>0. Outward(d)'
    BY <1>1 DEF Outward
  <2>1. CASE row' = row
    BY <1>1, <2>1 DEF Outward
  <2>2. ASSUME NEW r \in Requests, WriteSave(r) PROVE Outward(d)
    BY <1>1, <2>1, <2>2, SaveWrites
  <2>3. ASSUME NEW o \in Orders, RemoveOrder(o) PROVE Outward(d)
    BY <1>1, <2>3 DEF RemoveOrder, Outward, OutwardKinds
  <2>4. CASE OrderStep
    BY <2>1, <2>2, <2>3, <2>4, Zenon
       DEF OrderStep, LoadForm, CheckSave, ReadCancel, ReadRestore, WriteStatus, SetHold
  <2>5. ASSUME NEW e \in Rows, NEW l \in Lines, NEW q \in 1..MaxQty, NEW kind \in OutwardKinds,
               NEW closeShort \in BOOLEAN, CreateDispatch(e, l, q, kind, closeShort)
        PROVE  Outward(d)
    BY <1>1, <2>5 DEF CreateDispatch, Accepts
  <2>6. ASSUME NEW r \in Requests, NEW ls \in SUBSET Lines, NEW place \in [ls -> Rows],
               WriteFully(r, place)
        PROVE  Outward(d)
    BY <1>1, <2>6, OrderIsDispatched
  <2>7. ASSUME NEW r \in Requests, WriteEdit(r) PROVE Outward(d)
    BY <1>1, <2>0, <2>7, EditIsWritten
  <2>8. ASSUME NEW e \in Rows, RemoveRow(e) \/ ClearReturn(e) PROVE Outward(d)
    BY <1>1, <2>0, <2>8, RowIsRemoved
  <2>9. ASSUME NEW e \in Rows, NEW src \in Rows, NEW n \in 1..MaxQty, ReturnGoods(e, src, n)
        PROVE  Outward(d)
    BY <1>1, <2>0, <2>9, GoodsAreReturned
  <2>10. CASE RowStep
    BY <2>1, <2>5, <2>6, <2>7, <2>8, <2>9, <2>10, Zenon
       DEF RowStep, ReadFully, ReadEdit, CheckEdit
  <2>11. CASE \E r \in Requests : Drop(r)
    BY <2>1, <2>11 DEF Drop
  <2>12. CASE UNCHANGED vars
    BY <2>1, <2>12 DEF vars
  <2> QED  BY <1>1, <2>4, <2>10, <2>11, <2>12 DEF Next
<1>2. IInv /\ [Next]_vars =>
        (held => \A d \in Rows : row'[d].kind \in OutwardKinds => Outward(d))
  BY <1>1
<1> QED  BY <1>2, OneByOne, PTL DEF Spec, HeldPartyGetsNothing

(* Where no goods come back, no row is a return. *)
NoReturns == \A d \in Rows : row[d].kind # "RETURNED"

(* What the pending pool offers can be shipped in full where no goods come *)
(* back (computePendingLines and create); with returned goods it cannot.   *)
THEOREM PoolOffersWhatShips ==
  ASSUME OneRequest, IsFiniteSet(Rows), "return" \notin Operations
  PROVE  Spec => []OfferedCanShip
<1>1. Init => NoReturns
  BY DEF Init, NoReturns
<1>2. ASSUME IInv, NoReturns, [Next]_vars PROVE NoReturns'
  <2>1. CASE row' = row
    BY <1>2, <2>1 DEF NoReturns
  <2>2. ASSUME NEW r \in Requests, WriteSave(r) PROVE NoReturns'
    BY <1>2, <2>1, <2>2, SaveWrites
  <2>3. ASSUME NEW o \in Orders, RemoveOrder(o) PROVE NoReturns'
    BY <1>2, <2>3 DEF RemoveOrder, NoReturns
  <2>4. CASE OrderStep
    BY <2>1, <2>2, <2>3, <2>4, Zenon
       DEF OrderStep, LoadForm, CheckSave, ReadCancel, ReadRestore, WriteStatus, SetHold
  <2>5. ASSUME NEW d \in Rows, NEW l \in Lines, NEW q \in 1..MaxQty, NEW kind \in OutwardKinds,
               NEW closeShort \in BOOLEAN, CreateDispatch(d, l, q, kind, closeShort)
        PROVE  NoReturns'
    <3>1. row \in [Rows -> RowStates]
      BY <1>2 DEF IInv, DataInv, RowInv, Rowed
    <3> QED  BY <1>2, <2>5, <3>1 DEF CreateDispatch, NoReturns, OutwardKinds
  <2>6. ASSUME NEW r \in Requests, NEW ls \in SUBSET Lines, NEW place \in [ls -> Rows],
               WriteFully(r, place)
        PROVE  NoReturns'
    <3>1. ASSUME NEW d \in Rows PROVE row'[d].kind # "RETURNED"
      <4>1. row'[d] = row[d] \/ \E l \in ls :
              place[l] = d /\ row'[d] = [kind |-> "FULL", line |-> l, qty |-> req[r].ship[l]]
        BY <1>2, <2>6, OrderIsDispatched
      <4>2. row'[d] = row[d] \/ row'[d].kind = "FULL"
        <5>1. \A l, q : [kind |-> "FULL", line |-> l, qty |-> q].kind = "FULL"
          OBVIOUS
        <5> QED  BY <4>1, <5>1, Zenon
      <4> QED  BY <1>2, <4>2 DEF NoReturns
    <3> QED  BY <3>1 DEF NoReturns
  <2>7. ASSUME NEW r \in Requests, WriteEdit(r) PROVE NoReturns'
    <3>1. req[r].d \in Rows /\ req[r].kind \in OutwardKinds /\ Rowed
      BY <1>2, <2>7, Remembers DEF WriteEdit, Resume, IInv, DataInv, RowInv
    <3> QED  BY <1>2, <2>7, <3>1 DEF WriteEdit, NoReturns, OutwardKinds, Rowed, RowStates, Outward
  <2>8. ASSUME NEW d \in Rows, RemoveRow(d) \/ ClearReturn(d) PROVE NoReturns'
    <3>1. Rowed
      BY <1>2 DEF IInv, DataInv, RowInv
    <3> QED  BY <1>2, <2>8, <3>1 DEF RemoveRow, ClearReturn, NoReturns, Rowed
  <2>9. CASE RowStep
    BY <2>1, <2>5, <2>6, <2>7, <2>8, <2>9, Zenon
       DEF RowStep, ReadFully, ReadEdit, CheckEdit, ReturnGoods
  <2>10. CASE \E r \in Requests : Drop(r)
    BY <2>1, <2>10 DEF Drop
  <2>11. CASE UNCHANGED vars
    BY <2>1, <2>11 DEF vars
  <2> QED  BY <1>2, <2>4, <2>9, <2>10, <2>11 DEF Next
<1>3. IInv /\ NoReturns => OfferedCanShip
  <2>1. SUFFICES ASSUME IInv, NoReturns, NEW l \in Lines, Offered(l), ~held
                 PROVE  Accepts(l, Owed(l), "FULL", FALSE)
    BY DEF OfferedCanShip
  <2>2. Shippable(l)
    BY <2>1 DEF Offered, Shippable, NoReturns, RowsOn
  <2>3. Owed(l) \in Nat /\ Owed(l) > 0
    BY <2>1, OwedIs DEF IInv, DataInv, RowInv, OrderShapes, Offered
  <2>4. ValidQty(Owed(l), Owed(l), "FULL", FALSE)
    BY <2>3, OrderLinesAssumption DEF ValidQty
  <2> QED  BY <2>1, <2>2, <2>4 DEF Accepts
<1>4. IInv /\ NoReturns /\ [Next]_vars => NoReturns'
  BY <1>2
<1> QED  BY <1>1, <1>3, <1>4, OneByOne, PTL DEF Spec
=============================================================================
