------------------------- MODULE TallyPosting_proofs -------------------------
(***************************************************************************)
(* Theorems about TallyPosting, for any number of bills and any requests.  *)
(***************************************************************************)
EXTENDS TallyPosting, SequenceTheorems, TLAPS

Places == BeforeClaim \cup Sending \cup Answered \cup Outcomes

(* A poster that works is a record of its kind, with its bill. *)
LEMMA PostOf ==
  ASSUME TypeOK, NEW p \in Posters, post[p] # Idle
  PROVE  /\ post[p] \in [at: Places, b: Bills, hadRow: BOOLEAN]
         /\ post[p].b \in Bills
BY DEF TypeOK, Posts, Places

(* A poster that moves on keeps its bill, and nobody else moves. *)
LEMMA MoveKeepsBill ==
  ASSUME TypeOK, NEW p \in Posters, NEW place \in Places,
         post[p] # Idle, MoveTo(p, place)
  PROVE  /\ post' \in [Posters -> Posts]
         /\ post'[p] # Idle /\ post'[p].at = place /\ post'[p].b = post[p].b
         /\ \A r \in Posters \ {p} : post'[r] = post[r]
<1>1. post[p] \in [at: Places, b: Bills, hadRow: BOOLEAN]
  BY PostOf
<1>2. [post[p] EXCEPT !.at = place] \in [at: Places, b: Bills, hadRow: BOOLEAN]
  BY <1>1
<1>3. post' = [post EXCEPT ![p] = [post[p] EXCEPT !.at = place]]
  BY DEF MoveTo
<1>4. place # "idle"
  BY DEF Places, BeforeClaim, Sending, Answered, Outcomes
<1>5. post \in [Posters -> Posts]
  BY DEF TypeOK
<1>6. [post[p] EXCEPT !.at = place].at = place /\ [post[p] EXCEPT !.at = place].b = post[p].b
  BY <1>1
<1> QED  BY <1>2, <1>3, <1>4, <1>5, <1>6 DEF Posts, Places, Idle

(* The same for a checker. *)
LEMMA CheckOf ==
  ASSUME TypeOK, NEW q \in Checkers, check[q] # Idle
  PROVE  /\ check[q] \in [at: {"unknown"} \cup Looked, b: Bills, old: BOOLEAN]
         /\ check[q].b \in Bills
BY DEF TypeOK, Checks

(* The same for a sweeper. *)
LEMMA SweepOf ==
  ASSUME TypeOK, NEW s \in Sweepers, sweep[s] # Idle
  PROVE  /\ sweep[s].top \in Nat
         /\ sweep[s].at \in {"vouchers", "rows"}
         /\ sweep[s].at = "rows" =>
              sweep[s] \in [at: {"rows"}, top: Nat, saw: [Bills -> Statuses]]
BY DEF TypeOK, Sweeps

(* At the start some bills may have been typed into Tally by hand. *)
LEMMA TypeInit ==
  ASSUME Init
  PROVE  TypeOK /\ NumbersPair
<1>1. PICK typed \in 0..MaxBill : tally = [n \in 1..typed |-> n]
  BY DEF Init
<1>2. tally \in Seq(Bills)
  BY <1>1, MaxBillAssumption DEF Bills
<1>3. TypeOK
  BY <1>2 DEF Init, TypeOK, Statuses, Ages, Posts, Checks, Sweeps
<1> QED  BY <1>1, <1>3 DEF NumbersPair

(* No step of the posting service, the sweep or Tally breaks the types. *)
LEMMA TypeStep ==
  ASSUME TypeOK, [Next]_vars
  PROVE  TypeOK'
<1> USE MaxBillAssumption
<1>0. ExpireStale => /\ row' \in [Bills -> Statuses]
                     /\ age' \in [Bills -> Ages]
  BY DEF TypeOK, ExpireStale, Expired, Statuses, Ages
<1>1. ASSUME NEW p \in Posters, NEW b \in Bills, StartPost(p, b)
      PROVE  TypeOK'
  BY <1>0, <1>1 DEF StartPost, TypeOK, Posts, BeforeClaim
<1>2. ASSUME NEW p \in Posters,
             \/ LookInTally(p) \/ LookForPrevious(p) \/ Send(p)
             \/ TallyDoesNotSave(p) \/ ReadBack(p)
      PROVE  TypeOK'
  <2>1. \E place \in Places : MoveTo(p, place) /\ post[p] # Idle
    BY <1>2, Zenon DEF LookInTally, LookForPrevious, Send, TallyDoesNotSave,
                       ReadBack, Working, Places, BeforeClaim, Sending,
                       Answered, Outcomes
  <2>2. UNCHANGED <<row, age, tally, late, check, sweep>>
    BY <1>2 DEF LookInTally, LookForPrevious, Send, TallyDoesNotSave, ReadBack
  <2> QED  BY <2>1, <2>2, MoveKeepsBill DEF TypeOK
<1>3. ASSUME NEW p \in Posters, GiveUp(p)
      PROVE  TypeOK'
  BY <1>3 DEF GiveUp, EndPost, TypeOK, Posts
<1>4. ASSUME NEW p \in Posters, Claim(p)
      PROVE  TypeOK'
  BY <1>4, PostOf, MoveKeepsBill DEF Claim, Working, WriteRow, TypeOK, Statuses,
                                     Ages, Places, Sending
<1>5. ASSUME NEW p \in Posters, TallySaves(p)
      PROVE  TypeOK'
  BY <1>5, PostOf, MoveKeepsBill DEF TallySaves, Working, TypeOK, Places, Answered
<1>6. ASSUME NEW p \in Posters, TimeOut(p)
      PROVE  TypeOK'
  <2>1. post[p] # Idle /\ MoveTo(p, "unclear")
    BY <1>6 DEF TimeOut, Working
  <2>2. UNCHANGED <<row, age, tally, check, sweep>>
    BY <1>6 DEF TimeOut
  <2>3. late' \in [Bills -> Nat]
    BY <1>6, <2>1, PostOf DEF TimeOut, TypeOK
  <2> QED  BY <2>1, <2>2, <2>3, MoveKeepsBill DEF TypeOK, Places, Outcomes
<1>7. ASSUME NEW p \in Posters, Conclude(p)
      PROVE  TypeOK'
  <2>1. StatusFor[post[p].at] \in Statuses /\ post[p].b \in Bills
    BY <1>7, PostOf DEF Conclude, Working, Outcomes, StatusFor, Statuses
  <2> QED  BY <1>7, <2>1 DEF Conclude, WriteRow, EndPost, TypeOK, Posts, Ages
<1>8. ASSUME NEW q \in Checkers, NEW b \in Bills, StartCheck(q, b)
      PROVE  TypeOK'
  BY <1>0, <1>8 DEF StartCheck, TypeOK, Checks
<1>9. ASSUME NEW q \in Checkers, LookAgain(q) \/ NotReachable(q) \/ SettleUnknown(q)
      PROVE  TypeOK'
  <2>1. check[q] \in [at: {"unknown"} \cup Looked, b: Bills, old: BOOLEAN]
    BY <1>9, CheckOf DEF LookAgain, NotReachable, SettleUnknown, Checking
  <2>2. CASE LookAgain(q)
    BY <2>1, <2>2 DEF LookAgain, TypeOK, Checks, Looked
  <2>3. CASE NotReachable(q)
    BY <2>3 DEF NotReachable, EndCheck, TypeOK, Checks
  <2>4. CASE SettleUnknown(q)
    <3>1. row' \in [Bills -> Statuses] /\ age' \in [Bills -> Ages]
      BY <2>1, <2>4 DEF SettleUnknown, WriteRow, TypeOK, Statuses, Ages
    <3> QED  BY <2>4, <3>1 DEF SettleUnknown, EndCheck, TypeOK, Checks
  <2> QED  BY <1>9, <2>2, <2>3, <2>4
<1>10. CASE ListQueue
  BY <1>0, <1>10 DEF ListQueue, TypeOK
<1>11. ASSUME NEW s \in Sweepers, SweepVouchers(s) \/ SweepRows(s)
       PROVE  TypeOK'
  <2>1. Len(tally) \in Nat
    BY DEF TypeOK
  <2>2. CASE SweepVouchers(s)
    BY <2>1, <2>2 DEF SweepVouchers, TypeOK, Sweeps
  <2>3. CASE SweepRows(s)
    BY <2>3, SweepOf DEF SweepRows, TypeOK, Sweeps
  <2> QED  BY <1>11, <2>2, <2>3
<1>12. ASSUME NEW s \in Sweepers, SweepWrite(s)
       PROVE  TypeOK'
  BY <1>12, SweepOf DEF SweepWrite, SweptStatus, TypeOK, Sweeps, Statuses, Ages
<1>13. ASSUME NEW b \in Bills, TallySavesLate(b) \/ Grow(b)
       PROVE  TypeOK'
  <2>1. CASE TallySavesLate(b)
    <3>1. late' \in [Bills -> Nat]
      BY <2>1 DEF TallySavesLate, TypeOK
    <3>2. tally' \in Seq(Bills)
      BY <2>1 DEF TallySavesLate, TypeOK
    <3> QED  BY <2>1, <3>1, <3>2 DEF TallySavesLate, TypeOK
  <2>2. CASE Grow(b)
    <3>1. check' \in [Checkers -> Checks]
      <4>1. ASSUME NEW q \in Checkers, check[q] # Idle
            PROVE  [check[q] EXCEPT !.old = TRUE] \in Checks
        BY <4>1, CheckOf DEF Checks
      <4> QED  BY <2>2, <4>1 DEF Grow, TypeOK
    <3> QED  BY <2>2, <3>1 DEF Grow, TypeOK, Ages
  <2> QED  BY <1>13, <2>1, <2>2
<1>14. CASE Restart
  BY <1>14 DEF Restart, TypeOK, Posts, Checks, Sweeps
<1>15. CASE UNCHANGED vars
  BY <1>15 DEF vars, TypeOK
<1>16. ASSUME NEW p \in Posters,
              \/ \E b \in Bills : StartPost(p, b)
              \/ LookInTally(p) \/ LookForPrevious(p) \/ GiveUp(p) \/ Claim(p)
              \/ Send(p) \/ TallySaves(p) \/ TallyDoesNotSave(p) \/ TimeOut(p)
              \/ ReadBack(p) \/ Conclude(p)
       PROVE  TypeOK'
  BY <1>1, <1>2, <1>3, <1>4, <1>5, <1>6, <1>7, <1>16, Zenon
<1> QED
  BY <1>8, <1>9, <1>10, <1>11, <1>12, <1>13, <1>14, <1>15, <1>16, Zenon DEF Next

(* Link rows, vouchers and the requests under way keep their shape through *)
(* every operation of the posting service and of the sweep.                *)
THEOREM TypeCorrect == Spec => []TypeOK
<1> USE MaxBillAssumption
<1>1. Init => TypeOK
  BY TypeInit
<1>2. TypeOK /\ [Next]_vars => TypeOK'
  BY TypeStep
<1> QED  BY <1>1, <1>2, PTL DEF Spec
-----------------------------------------------------------------------------
(* The inductive invariant                                                 *)

(* A post holds the claim on its bill from Claim to Conclude. *)
HasClaim == Sending \cup Answered \cup {"failed", "unclear"}
Postable == {"NONE", "NOT_POSTED", "FAILED"}

(* One abandoned import at most, only of the bill whose number is next and *)
(* only while its row says that nobody knows. *)
LateFits(b) ==
  /\ late[b] \in {0, 1}
  /\ late[b] = 1 => /\ row[b] \in {"POSTING", "UNKNOWN"} /\ age[b] = "fresh"
                    /\ Len(tally) = b - 1

RowFits(b) == row[b] = "POSTED" => InTally(b)

(* Where a post is tells what is in Tally and what its row says. *)
PostFits(p) ==
  LET b == post[p].b
  IN
  /\ Working(p, {"absent", "clear"}) /\ row[b] \in Postable => ~InTally(b)
  /\ Working(p, {"clear"}) => b - 1 <= Len(tally)
  /\ Working(p, Sending) => /\ row[b] = "POSTING" /\ age[b] = "fresh"
                            /\ late[b] = 0 /\ Len(tally) = b - 1
  /\ Working(p, {"found", "created"}) => InTally(b)
  /\ Working(p, {"refused", "odd", "failed"}) =>
       row[b] = "POSTING" /\ ~InTally(b) /\ late[b] = 0
  /\ Working(p, HasClaim) => row[b] \in {"POSTING", "POSTED"} /\ ~Interrupted(b)

OneClaim ==
  \A p, r \in Posters :
    Working(p, HasClaim) /\ Working(r, HasClaim) /\ post[p].b = post[r].b => p = r

(* A bill that is checked stays UNKNOWN and nobody posts it: FAILED may be *)
(* written over a bill that Tally has saved meanwhile, but no request that *)
(* looked before is left to send it again. *)
CheckFits(q) ==
  LET b == check[q].b
  IN
  check[q] # Idle =>
    /\ row[b] = "UNKNOWN"
    /\ \A p \in Posters : post[p] # Idle => post[p].b # b
    /\ check[q].old => late[b] = 0
    /\ check[q].at = "found" => InTally(b)

(* A sweep is alone, and what it has read is still true. *)
SweepFits(s) ==
  sweep[s] # Idle =>
    /\ \A p \in Posters : post[p] = Idle
    /\ \A q \in Checkers : check[q] = Idle
    /\ sweep[s].top <= Len(tally)
    /\ sweep[s].at = "rows" => \A b \in Bills :
         late[b] = 1 => sweep[s].saw[b] \in {"POSTING", "UNKNOWN"}

IInv ==
  /\ TypeOK
  /\ NumbersPair
  /\ \A b \in Bills : LateFits(b) /\ RowFits(b)
  /\ \A p \in Posters : PostFits(p)
  /\ OneClaim
  /\ \A q \in Checkers : CheckFits(q)
  /\ \A s \in Sweepers : SweepFits(s)

AtMostOneChecker == \A q, r \in Checkers : q = r

-----------------------------------------------------------------------------
(* A poster that moves on changes nothing else: it is enough to look at    *)
(* what its own new place says. *)
LEMMA MovePreserves ==
  ASSUME IInv, TypeOK', NEW p \in Posters, NEW place \in Places,
         post[p] # Idle, MoveTo(p, place),
         UNCHANGED <<row, age, tally, late, check, sweep>>,
         PostFits(p)',
         place \in HasClaim => Working(p, HasClaim)
  PROVE  IInv'
<1>1. /\ post'[p] # Idle /\ post'[p].at = place /\ post'[p].b = post[p].b
      /\ \A r \in Posters \ {p} : post'[r] = post[r]
  BY MoveKeepsBill DEF IInv
<1>2. NumbersPair' /\ \A b \in Bills : (LateFits(b) /\ RowFits(b))'
  BY DEF IInv, NumbersPair, LateFits, RowFits, InTally
<1>3. \A r \in Posters : PostFits(r)'
  BY <1>1 DEF IInv, PostFits, Working, InTally, Interrupted
<1>4. OneClaim'
  BY <1>1 DEF IInv, OneClaim, Working
<1>5. \A q \in Checkers : CheckFits(q)'
  BY <1>1 DEF IInv, CheckFits, InTally
<1>6. \A s \in Sweepers : SweepFits(s)'
  BY DEF IInv, SweepFits, InTally
<1> QED  BY <1>2, <1>3, <1>4, <1>5, <1>6 DEF IInv

(* Expiring interrupted rows keeps the invariant: nobody works on one, and *)
(* nothing sent for it is on its way. *)
LEMMA ExpirePreserves ==
  ASSUME IInv, ExpireStale, UNCHANGED <<tally, late>>
  PROVE  /\ NumbersPair'
         /\ \A b \in Bills : (LateFits(b) /\ RowFits(b))'
         /\ \A p \in Posters : post'[p] = post[p] => PostFits(p)'
         /\ \A q \in Checkers :
              /\ check'[q] = check[q]
              /\ \A p \in Posters : post'[p] = post[p] \/ post'[p].b # check[q].b
              => CheckFits(q)'
<1>1. \A b \in Bills :
        \/ row'[b] = row[b] /\ age'[b] = age[b]
        \/ /\ row[b] = "POSTING" /\ age[b] = "stale" /\ late[b] = 0
           /\ row'[b] = "UNKNOWN" /\ age'[b] = "fresh"
  BY DEF IInv, TypeOK, ExpireStale, Expired, Interrupted, LateFits
<1>2. NumbersPair'
  BY DEF IInv, NumbersPair
<1>3. \A b \in Bills : (LateFits(b) /\ RowFits(b))'
  BY <1>1 DEF IInv, LateFits, RowFits, InTally
<1>4. ASSUME NEW p \in Posters, post'[p] = post[p]
      PROVE  PostFits(p)'
  <2>1. CASE post[p] = Idle
    BY <1>4, <2>1 DEF PostFits, Working
  <2>2. CASE post[p] # Idle
    <3>1. post[p].b \in Bills /\ PostFits(p)
      BY <2>2, PostOf DEF IInv
    <3> QED  BY <1>1, <1>4, <3>1 DEF PostFits, Working, InTally, Interrupted, Sending,
                                     HasClaim, Answered, Postable
  <2> QED  BY <2>1, <2>2
<1>5. ASSUME NEW q \in Checkers, check'[q] = check[q],
             \A p \in Posters : post'[p] = post[p] \/ post'[p].b # check[q].b
      PROVE  CheckFits(q)'
  <2>1. CASE check[q] = Idle
    BY <1>5, <2>1 DEF CheckFits
  <2>2. CASE check[q] # Idle
    <3>1. check[q].b \in Bills /\ CheckFits(q)
      BY <2>2, CheckOf DEF IInv
    <3> QED  BY <1>1, <1>5, <3>1 DEF CheckFits, InTally
  <2> QED  BY <2>1, <2>2
<1> QED  BY <1>2, <1>3, <1>4, <1>5

(* While somebody posts or checks, nobody sweeps. *)
LEMMA SweepExcluded ==
  ASSUME IInv, \/ \E p \in Posters : post[p] # Idle
               \/ \E q \in Checkers : check[q] # Idle
  PROVE  \A s \in Sweepers : sweep[s] = Idle
BY DEF IInv, SweepFits

(* The voucher with the next number is saved; it is the bill's own, and no *)
(* other bill or request counts on it. *)
LEMMA SavePreserves ==
  ASSUME IInv, NEW b \in Bills, Len(tally) = b - 1, row[b] \in {"POSTING", "UNKNOWN"},
         tally' = Append(tally, b)
  PROVE  /\ Len(tally') = b /\ Len(tally') \in Nat
         /\ NumbersPair'
         /\ \A c \in Bills : InTally(c) => InTally(c)'
         /\ \A c \in Bills \ {b} : InTally(c)' => InTally(c)
<1>1. tally \in Seq(Bills)
  BY DEF IInv, TypeOK
<1>2. /\ Len(tally') = b
      /\ \A n \in 1..Len(tally) : tally'[n] = tally[n]
      /\ tally'[b] = b
      /\ DOMAIN tally' = 1..b
  BY <1>1, AppendProperties, LenProperties DEF Bills
<1>3. NumbersPair'
  BY <1>1, <1>2, LenProperties DEF IInv, NumbersPair, Bills
<1> QED  BY <1>1, <1>2, <1>3, MaxBillAssumption DEF InTally, Bills

(* Every step keeps the inductive invariant: as long as sweeps run alone   *)
(* and one person checks, and none that is being posted, bills and Tally's *)
(* vouchers stay paired. *)
LEMMA StepPreserves ==
  ASSUME SweepsAlone, ChecksAlone, AtMostOneChecker, IInv, [Next]_vars
  PROVE  IInv'
<1>0. TypeOK /\ TypeOK'
  BY TypeStep DEF IInv
(* StartPost: the bill is read, nothing is known of it yet. *)
<1>1. ASSUME NEW p \in Posters, NEW b \in Bills, StartPost(p, b)
      PROVE  IInv'
  <2>1. /\ ExpireStale /\ UNCHANGED <<tally, late, check, sweep>>
        /\ \A s \in Sweepers : sweep[s] = Idle
        /\ post'[p].at = "read" /\ post'[p].b = b
        /\ \A r \in Posters \ {p} : post'[r] = post[r]
        /\ row[b] # "UNKNOWN"
    BY <1>0, <1>1 DEF StartPost, NoSweep, TypeOK, Expired, Interrupted
  <2>2. \A r \in Posters : PostFits(r)'
    <3>1. PostFits(p)'
      BY <2>1 DEF PostFits, Working, Sending, HasClaim, Answered
    <3> QED  BY <2>1, <3>1, ExpirePreserves
  <2>3. OneClaim'
    BY <2>1 DEF IInv, OneClaim, Working, HasClaim, Sending, Answered
  <2>4. \A s \in Sweepers : SweepFits(s)'
    BY <2>1 DEF SweepFits
  <2>5. ASSUME NEW q \in Checkers
        PROVE  CheckFits(q)'
    <3>1. CASE check[q] = Idle
      BY <2>1, <3>1 DEF CheckFits
    <3>2. CASE check[q] # Idle
      <4>1. check[q].b # b
        BY <2>1, <3>2 DEF IInv, CheckFits
      <4> QED  BY <2>1, <4>1, ExpirePreserves
    <3> QED  BY <3>1, <3>2
  <2> QED  BY <1>0, <2>1, <2>2, <2>3, <2>4, <2>5, ExpirePreserves DEF IInv
(* The moves of a poster before the claim, and while Tally does nothing. *)
<1>2. ASSUME NEW p \in Posters, LookInTally(p)
      PROVE  IInv'
  <2> DEFINE place == IF InTally(post[p].b) THEN "found" ELSE "absent"
  <2>1. post[p] # Idle /\ MoveTo(p, place)
        /\ UNCHANGED <<row, age, tally, late, check, sweep>>
    BY <1>2 DEF LookInTally, Working
  <2>2. place \in Places /\ place \notin HasClaim
    BY DEF Places, Outcomes, BeforeClaim, HasClaim, Sending, Answered
  <2>3. post'[p].at = place /\ post'[p].b = post[p].b
    BY <1>0, <2>1, <2>2, MoveKeepsBill
  <2>4. PostFits(p)'
    BY <2>1, <2>3 DEF PostFits, Working, InTally, Sending, HasClaim, Answered
  <2> QED  BY <1>0, <2>1, <2>2, <2>4, MovePreserves
<1>3. ASSUME NEW p \in Posters, LookForPrevious(p)
      PROVE  IInv'
  <2>1. post[p] # Idle /\ MoveTo(p, "clear")
        /\ UNCHANGED <<row, age, tally, late, check, sweep>>
    BY <1>3 DEF LookForPrevious, Working
  <2>2. "clear" \in Places /\ "clear" \notin HasClaim
    BY DEF Places, BeforeClaim, HasClaim, Sending, Answered
  <2>3. post'[p].at = "clear" /\ post'[p].b = post[p].b
    BY <1>0, <2>1, <2>2, MoveKeepsBill
  <2>4. post[p].b \in 1..MaxBill /\ Len(tally) \in Nat /\ PostFits(p)
    BY <1>0, <2>1, PostOf DEF Bills, TypeOK, IInv
  <2>5. PostFits(p)'
    BY <1>3, <2>1, <2>3, <2>4, MaxBillAssumption
       DEF LookForPrevious, PostFits, Working, InTally, Sending, HasClaim, Answered
  <2> QED  BY <1>0, <2>1, <2>2, <2>5, MovePreserves
(* Claim: the bill before is in Tally and the bill is not, so its number   *)
(* is next; nobody else has a claim on it. *)
<1>4. ASSUME NEW p \in Posters, Claim(p)
      PROVE  IInv'
  <2> DEFINE b == post[p].b
  <2>1. /\ post[p] # Idle /\ post[p].at = "clear" /\ MoveTo(p, "claimed")
        /\ row[b] \in Postable
        /\ row' = [row EXCEPT ![b] = "POSTING"] /\ age' = [age EXCEPT ![b] = "fresh"]
        /\ UNCHANGED <<tally, late, check, sweep>>
    BY <1>4 DEF Claim, Working, Claimable, WriteRow, Postable
  <2>2. b \in Bills /\ PostFits(p)
    BY <1>0, <2>1, PostOf DEF IInv
  <2>3. /\ post'[p] # Idle /\ post'[p].at = "claimed" /\ post'[p].b = b
        /\ \A r \in Posters \ {p} : post'[r] = post[r]
    BY <1>0, <2>1, MoveKeepsBill DEF Places, Sending
  <2>4. /\ row'[b] = "POSTING" /\ age'[b] = "fresh"
        /\ \A c \in Bills \ {b} : row'[c] = row[c] /\ age'[c] = age[c]
    BY <1>0, <2>1, <2>2 DEF TypeOK
  <2>5. Len(tally) = b - 1 /\ late[b] = 0
    <3>1. Len(tally) \in Nat
      BY <1>0 DEF TypeOK
    <3>2. ~InTally(b) /\ b - 1 <= Len(tally)
      BY <2>1, <2>2 DEF PostFits, Working
    <3>3. LateFits(b)
      BY <2>2 DEF IInv
    <3> QED  BY <2>1, <2>2, <3>1, <3>2, <3>3 DEF InTally, Bills, LateFits, Postable
  <2>6. \A r \in Posters : ~(Working(r, HasClaim) /\ post[r].b = b)
    BY <2>1 DEF IInv, PostFits, Postable
  <2>7. NumbersPair' /\ \A c \in Bills : (LateFits(c) /\ RowFits(c))'
    BY <2>1, <2>4, <2>5 DEF IInv, NumbersPair, LateFits, RowFits, InTally
  <2>8. ASSUME NEW r \in Posters
        PROVE  PostFits(r)'
    <3>1. CASE r = p
      BY <2>1, <2>3, <2>4, <2>5, <3>1 DEF PostFits, Working, Sending, HasClaim, Answered,
                                          Interrupted
    <3>2. CASE r # p /\ post[r] = Idle
      BY <2>3, <3>2 DEF PostFits, Working
    <3>3. CASE r # p /\ post[r] # Idle
      <4>1. PostFits(r) /\ post'[r] = post[r] /\ post[r].b \in Bills
        BY <1>0, <2>3, <3>3, PostOf DEF IInv
      <4> QED  BY <2>1, <2>4, <2>6, <4>1 DEF PostFits, Working, InTally, Interrupted,
                                             Sending, HasClaim, Answered, Postable
    <3> QED  BY <3>1, <3>2, <3>3
  <2>9. OneClaim'
    BY <2>3, <2>6 DEF IInv, OneClaim, Working
  <2>10. ASSUME NEW q \in Checkers
         PROVE  CheckFits(q)'
    <3>1. check[q] # Idle => check[q].b \in Bills /\ check[q].b # b
      BY <1>0, <2>1, CheckOf DEF IInv, CheckFits
    <3> QED  BY <2>1, <2>3, <2>4, <3>1 DEF IInv, CheckFits, InTally
  <2>11. \A s \in Sweepers : SweepFits(s)'
    BY <2>1, SweepExcluded DEF SweepFits
  <2> QED  BY <1>0, <2>7, <2>8, <2>9, <2>10, <2>11 DEF IInv
(* The answer of Tally.  Between the claim and the answer the number is    *)
(* still next; what it has saved takes that number. *)
<1>5. ASSUME NEW p \in Posters, Send(p) \/ TallyDoesNotSave(p)
      PROVE  IInv'
  <2>1. PICK place \in {"sent", "refused", "odd"} :
          /\ post[p] # Idle /\ post[p].at \in Sending /\ MoveTo(p, place)
          /\ UNCHANGED <<row, age, tally, late, check, sweep>>
    BY <1>5, Zenon DEF Send, TallyDoesNotSave, Working, Sending
  <2>2. place \in Places /\ Working(p, HasClaim)
    BY <2>1 DEF Places, Sending, Answered, HasClaim, Working
  <2>3. post'[p] # Idle /\ post'[p].at = place /\ post'[p].b = post[p].b
    BY <1>0, <2>1, <2>2, MoveKeepsBill
  <2>4. post[p].b \in 1..MaxBill /\ Len(tally) \in Nat /\ PostFits(p)
    BY <1>0, <2>1, PostOf DEF Bills, TypeOK, IInv
  <2>5. PostFits(p)'
    BY <2>1, <2>2, <2>3, <2>4
       DEF PostFits, Working, InTally, Interrupted, Sending, HasClaim, Answered
  <2> QED  BY <1>0, <2>1, <2>2, <2>5, MovePreserves
<1>6. ASSUME NEW p \in Posters, TallySaves(p)
      PROVE  IInv'
  <2> DEFINE b == post[p].b
  <2>1. /\ post[p] # Idle /\ post[p].at = "sent" /\ MoveTo(p, "created")
        /\ tally' = Append(tally, b)
        /\ UNCHANGED <<row, age, late, check, sweep>>
    BY <1>6 DEF TallySaves, Working
  <2>2. b \in Bills /\ PostFits(p) /\ Len(tally) \in Nat
    BY <1>0, <2>1, PostOf DEF IInv, TypeOK
  <2>3. /\ post'[p] # Idle /\ post'[p].at = "created" /\ post'[p].b = b
        /\ \A r \in Posters \ {p} : post'[r] = post[r]
    BY <1>0, <2>1, MoveKeepsBill DEF Places, Answered
  <2>4. row[b] = "POSTING" /\ late[b] = 0 /\ Len(tally) = b - 1 /\ ~Interrupted(b)
    BY <2>1, <2>2 DEF PostFits, Working, Sending, HasClaim
  <2>5. /\ Len(tally') = b
        /\ NumbersPair'
        /\ \A c \in Bills : InTally(c) => InTally(c)'
        /\ \A c \in Bills \ {b} : InTally(c)' => InTally(c)
    BY <2>1, <2>2, <2>4, SavePreserves
  <2>6. \A c \in Bills : (LateFits(c) /\ RowFits(c))'
    BY <2>1, <2>2, <2>4, <2>5 DEF IInv, LateFits, RowFits, Bills
  <2>7. ASSUME NEW r \in Posters
        PROVE  PostFits(r)'
    <3>1. CASE r = p
      BY <2>1, <2>2, <2>3, <2>4, <2>5, <3>1
         DEF PostFits, Working, Sending, HasClaim, Answered, Interrupted, InTally, Bills
    <3>2. CASE r # p /\ post[r] = Idle
      BY <2>3, <3>2 DEF PostFits, Working
    <3>3. CASE r # p /\ post[r] # Idle
      <4>1. PostFits(r) /\ post'[r] = post[r] /\ post[r].b \in Bills
        BY <1>0, <2>3, <3>3, PostOf DEF IInv
      <4>2. Working(r, HasClaim) => post[r].b # b
        BY <2>1, <3>3 DEF IInv, OneClaim, Working, HasClaim, Sending
      <4> QED  BY <2>1, <2>2, <2>4, <2>5, <4>1, <4>2
                  DEF PostFits, Working, Interrupted, Sending, HasClaim, Answered,
                      Postable, Bills
    <3> QED  BY <3>1, <3>2, <3>3
  <2>8. OneClaim'
    BY <2>1, <2>3 DEF IInv, OneClaim, Working, HasClaim, Sending
  <2>9. ASSUME NEW q \in Checkers
        PROVE  CheckFits(q)'
    <3>1. check[q] # Idle => check[q].b \in Bills /\ CheckFits(q)
      BY <1>0, CheckOf DEF IInv
    <3> QED  BY <2>1, <2>3, <2>5, <3>1 DEF CheckFits
  <2>10. \A s \in Sweepers : SweepFits(s)'
    BY <2>1, SweepExcluded DEF SweepFits
  <2> QED  BY <1>0, <2>5, <2>6, <2>7, <2>8, <2>9, <2>10 DEF IInv
(* No answer: what was sent is now a late import.  An answer that could    *)
(* not be read leaves none. *)
<1>7. ASSUME NEW p \in Posters, TimeOut(p)
      PROVE  IInv'
  <2> DEFINE b == post[p].b
  <2>1. /\ post[p] # Idle /\ post[p].at \in {"sent"} \cup Answered
        /\ MoveTo(p, "unclear")
        /\ \/ post[p].at = "sent" /\ late' = [late EXCEPT ![b] = @ + 1]
           \/ late' = late
        /\ UNCHANGED <<row, age, tally, check, sweep>>
    BY <1>7 DEF TimeOut, Working, Answered
  <2>2. b \in Bills /\ PostFits(p) /\ Working(p, HasClaim)
    BY <1>0, <2>1, PostOf DEF IInv, Working, HasClaim, Sending, Answered
  <2>3. /\ post'[p] # Idle /\ post'[p].at = "unclear" /\ post'[p].b = b
        /\ \A r \in Posters \ {p} : post'[r] = post[r]
    BY <1>0, <2>1, MoveKeepsBill DEF Places, Outcomes
  <2>4. /\ \A c \in Bills \ {b} : late'[c] = late[c]
        /\ \/ late'[b] = late[b]
           \/ /\ late'[b] = 1 /\ row[b] = "POSTING" /\ age[b] = "fresh"
              /\ Len(tally) = b - 1
    BY <1>0, <2>1, <2>2 DEF PostFits, Working, Sending, TypeOK
  <2>5. \A c \in Bills : (LateFits(c) /\ RowFits(c))'
    BY <2>1, <2>4 DEF IInv, LateFits, RowFits, InTally
  <2>6. ASSUME NEW r \in Posters
        PROVE  PostFits(r)'
    <3>1. CASE r = p
      BY <2>1, <2>2, <2>3, <3>1
         DEF PostFits, Working, Sending, HasClaim, Answered, Interrupted
    <3>2. CASE r # p /\ post[r] = Idle
      BY <2>3, <3>2 DEF PostFits, Working
    <3>3. CASE r # p /\ post[r] # Idle
      <4>1. PostFits(r) /\ post'[r] = post[r] /\ post[r].b \in Bills
        BY <1>0, <2>3, <3>3, PostOf DEF IInv
      <4>2. Working(r, HasClaim) => post[r].b # b
        BY <2>2, <3>3 DEF IInv, OneClaim
      <4> QED  BY <2>1, <2>4, <4>1, <4>2
                  DEF PostFits, Working, InTally, Interrupted, Sending, HasClaim, Answered
    <3> QED  BY <3>1, <3>2, <3>3
  <2>7. OneClaim'
    BY <2>2, <2>3 DEF IInv, OneClaim, Working
  <2>8. ASSUME NEW q \in Checkers
        PROVE  CheckFits(q)'
    <3>1. check[q] # Idle => check[q].b \in Bills /\ check[q].b # b /\ CheckFits(q)
      BY <1>0, <2>1, CheckOf DEF IInv, CheckFits
    <3> QED  BY <2>1, <2>3, <2>4, <3>1 DEF CheckFits, InTally
  <2>9. \A s \in Sweepers : SweepFits(s)'
    BY <2>1, SweepExcluded DEF SweepFits
  <2>10. NumbersPair'
    BY <2>1 DEF IInv, NumbersPair
  <2> QED  BY <1>0, <2>5, <2>6, <2>7, <2>8, <2>9, <2>10 DEF IInv
<1>8. ASSUME NEW p \in Posters, ReadBack(p)
      PROVE  IInv'
  <2>1. PICK place \in {"found", "failed", "unclear"} :
          /\ post[p] # Idle /\ post[p].at \in Answered /\ MoveTo(p, place)
          /\ place = "found" => InTally(post[p].b) \/ post[p].at = "created"
          /\ place = "failed" => post[p].at = "refused"
          /\ UNCHANGED <<row, age, tally, late, check, sweep>>
    BY <1>8, Zenon DEF ReadBack, Working
  <2>2. place \in Places /\ Working(p, HasClaim) /\ PostFits(p)
    BY <2>1 DEF Places, Outcomes, HasClaim, Working, IInv
  <2>3. post'[p] # Idle /\ post'[p].at = place /\ post'[p].b = post[p].b
    BY <1>0, <2>1, <2>2, MoveKeepsBill
  <2>4. PostFits(p)'
    BY <2>1, <2>2, <2>3
       DEF PostFits, Working, InTally, Interrupted, Sending, HasClaim, Answered
  <2> QED  BY <1>0, <2>1, <2>2, <2>4, MovePreserves
<1>9. ASSUME NEW p \in Posters, GiveUp(p)
      PROVE  IInv'
  <2>1. /\ post'[p] = Idle /\ \A r \in Posters \ {p} : post'[r] = post[r]
        /\ post[p] # Idle
        /\ UNCHANGED <<row, age, tally, late, check, sweep>>
    BY <1>0, <1>9 DEF GiveUp, EndPost, Working, TypeOK
  <2>2. \A b \in Bills : (LateFits(b) /\ RowFits(b))'
    BY <2>1 DEF IInv, LateFits, RowFits, InTally
  <2>3. \A r \in Posters : PostFits(r)'
    BY <2>1 DEF IInv, PostFits, Working, InTally, Interrupted
  <2>4. OneClaim' /\ NumbersPair'
    BY <2>1 DEF IInv, OneClaim, Working, NumbersPair
  <2>5. \A q \in Checkers : CheckFits(q)'
    BY <2>1 DEF IInv, CheckFits, InTally
  <2>6. \A s \in Sweepers : SweepFits(s)'
    BY <2>1, SweepExcluded DEF SweepFits
  <2> QED  BY <1>0, <2>2, <2>3, <2>4, <2>5, <2>6 DEF IInv
(* Conclude: POSTED and FAILED say what is so; nobody else has the claim,  *)
(* and a bill that is not in Tally is not being checked. *)
<1>10. ASSUME NEW p \in Posters, Conclude(p)
       PROVE  IInv'
  <2> DEFINE b == post[p].b
             status == StatusFor[post[p].at]
  <2>1. /\ post[p] # Idle
        /\ \/ post[p].at = "found" /\ status = "POSTED"
           \/ post[p].at = "failed" /\ status = "FAILED"
           \/ post[p].at = "unclear" /\ status = "UNKNOWN"
        /\ row' = [row EXCEPT ![b] = status] /\ age' = [age EXCEPT ![b] = "fresh"]
        /\ post'[p] = Idle /\ \A r \in Posters \ {p} : post'[r] = post[r]
        /\ UNCHANGED <<tally, late, check, sweep>>
    BY <1>0, <1>10 DEF Conclude, Working, Outcomes, WriteRow, EndPost, StatusFor, TypeOK
  <2>2. b \in Bills /\ PostFits(p) /\ LateFits(b) /\ RowFits(b)
    BY <1>0, <2>1, PostOf DEF IInv
  <2>3. /\ row'[b] = status /\ age'[b] = "fresh"
        /\ \A c \in Bills \ {b} : row'[c] = row[c] /\ age'[c] = age[c]
    BY <1>0, <2>1, <2>2 DEF TypeOK
  <2>4. /\ status = "POSTED" => InTally(b)
        /\ status = "FAILED" => ~InTally(b) /\ late[b] = 0 /\ row[b] = "POSTING"
        /\ status = "UNKNOWN" => row[b] \in {"POSTING", "POSTED"}
    BY <2>1, <2>2 DEF PostFits, Working, HasClaim
  <2>5. \A r \in Posters \ {p} :
          status # "POSTED" => ~(Working(r, HasClaim) /\ post[r].b = b)
    BY <2>1 DEF IInv, OneClaim, Working, HasClaim
  <2> HIDE DEF status
  <2>6. \A c \in Bills : (LateFits(c) /\ RowFits(c))'
    <3>1. late[b] = 1 => Len(tally) = b - 1 /\ status # "POSTED"
      BY <1>0, <2>2, <2>4 DEF LateFits, InTally, Bills, TypeOK
    <3> QED  BY <2>1, <2>2, <2>3, <2>4, <3>1 DEF IInv, LateFits, RowFits, InTally
  <2>7. ASSUME NEW r \in Posters
        PROVE  PostFits(r)'
    <3>1. CASE post'[r] = Idle
      BY <3>1 DEF PostFits, Working
    <3>2. CASE post'[r] # Idle
      <4>1. /\ r # p /\ post[r] # Idle /\ PostFits(r)
            /\ post'[r] = post[r] /\ post[r].b \in Bills
        BY <1>0, <2>1, <3>2, PostOf DEF IInv
      <4>2. CASE post[r].b # b
        BY <2>1, <2>3, <4>1, <4>2 DEF PostFits, Working, InTally, Interrupted
      <4>3. CASE post[r].b = b
        <5>1. row'[post'[r].b] = status /\ age'[post'[r].b] = "fresh"
          BY <2>3, <4>1, <4>3
        <5>2. Working(r, HasClaim) => status = "POSTED"
          BY <2>1, <2>5, <4>1, <4>3
        <5>3. ~Working(r, Sending)
          <6>1. Working(r, Sending) => Len(tally) = b - 1 /\ Working(r, HasClaim)
            BY <4>1, <4>3 DEF PostFits, Working, HasClaim
          <6> QED  BY <1>0, <2>2, <2>4, <5>2, <6>1 DEF InTally, Bills, TypeOK
        <5>4. ~Working(r, {"refused", "odd", "failed"})
          BY <2>4, <4>1, <4>3, <5>2 DEF PostFits, Working, HasClaim, Answered
        <5>5. /\ Working(r, {"found", "created"}) => InTally(b)
              /\ Working(r, {"clear"}) => b - 1 <= Len(tally)
          BY <4>1, <4>3 DEF PostFits
        <5>6. status \in Postable => ~InTally(b)
          BY <2>1, <2>4 DEF Postable
        <5> HIDE DEF b
        <5> QED  BY <2>1, <4>1, <4>3, <5>1, <5>2, <5>3, <5>4, <5>5, <5>6
                    DEF PostFits, Working, InTally, Interrupted
      <4> QED  BY <4>2, <4>3
    <3> QED  BY <3>1, <3>2
  <2>8. OneClaim'
    BY <2>1 DEF IInv, OneClaim, Working
  <2>9. ASSUME NEW q \in Checkers
        PROVE  CheckFits(q)'
    <3>1. check[q] # Idle => check[q].b \in Bills /\ check[q].b # b /\ CheckFits(q)
      BY <1>0, <2>1, CheckOf DEF IInv, CheckFits
    <3> QED  BY <2>1, <2>3, <3>1 DEF CheckFits, InTally
  <2>10. \A s \in Sweepers : SweepFits(s)'
    BY <2>1, SweepExcluded DEF SweepFits
  <2>11. NumbersPair'
    BY <2>1 DEF IInv, NumbersPair
  <2> QED  BY <1>0, <2>6, <2>7, <2>8, <2>9, <2>10, <2>11 DEF IInv
(* The checks and the list of bills. *)
<1>11. ASSUME NEW q \in Checkers, NEW b \in Bills, StartCheck(q, b)
       PROVE  IInv'
  <2>1. /\ ExpireStale /\ UNCHANGED <<tally, late, post, sweep>>
        /\ \A s \in Sweepers : sweep[s] = Idle
        /\ Expired[b] = "UNKNOWN"
        /\ check'[q].at = "unknown" /\ check'[q].b = b
        /\ check'[q].old = (~Interrupted(b) /\ age[b] # "fresh")
        /\ \A r \in Checkers \ {q} : check'[r] = check[r]
        /\ \A p \in Posters : post[p] # Idle => post[p].b # b
    BY <1>0, <1>11 DEF StartCheck, NoSweep, TypeOK
  <2>2. row'[b] = "UNKNOWN" /\ (age[b] # "fresh" => late[b] = 0)
    BY <1>0, <2>1 DEF ExpireStale, TypeOK, IInv, LateFits
  <2>3. \A r \in Checkers : CheckFits(r)'
    <3>1. CheckFits(q)'
      BY <2>1, <2>2 DEF CheckFits
    <3> QED  BY <2>1, <3>1, ExpirePreserves
  <2>4. OneClaim' /\ \A s \in Sweepers : SweepFits(s)'
    BY <2>1 DEF IInv, OneClaim, Working, SweepFits
  <2> QED  BY <1>0, <2>1, <2>3, <2>4, ExpirePreserves DEF IInv
(* The answer of Tally to a check; what is found stays there. *)
<1>11a. ASSUME NEW q \in Checkers, LookAgain(q) \/ NotReachable(q)
       PROVE  IInv'
  <2>1. /\ check[q] # Idle
        /\ \A r \in Checkers \ {q} : check'[r] = check[r]
        /\ UNCHANGED <<row, age, tally, late, post, sweep>>
    BY <1>0, <1>11a DEF LookAgain, NotReachable, EndCheck, Checking, TypeOK
  <2>2. NumbersPair' /\ OneClaim' /\ \A b \in Bills : (LateFits(b) /\ RowFits(b))'
    BY <2>1 DEF IInv, NumbersPair, OneClaim, Working, LateFits, RowFits, InTally
  <2>3. \A p \in Posters : PostFits(p)'
    BY <2>1 DEF IInv, PostFits, Working, InTally, Interrupted
  <2>4. \A s \in Sweepers : SweepFits(s)'
    BY <2>1, SweepExcluded DEF SweepFits
  <2>5. CheckFits(q)'
    <3>1. CASE LookAgain(q)
      <4>1. check[q] \in [at: {"unknown"} \cup Looked, b: Bills, old: BOOLEAN]
        BY <1>0, <2>1, CheckOf
      <4>2. /\ check'[q].b = check[q].b /\ check'[q].old = check[q].old
            /\ check'[q].at = "found" => InTally(check[q].b)
        BY <1>0, <3>1, <4>1 DEF LookAgain, TypeOK
      <4> QED  BY <2>1, <4>2 DEF IInv, CheckFits, InTally
    <3>2. CASE NotReachable(q)
      BY <1>0, <3>2 DEF NotReachable, EndCheck, TypeOK, CheckFits
    <3> QED  BY <1>11a, <3>1, <3>2
  <2>6. \A r \in Checkers : CheckFits(r)'
    BY <2>1, <2>5 DEF AtMostOneChecker
  <2> QED  BY <1>0, <2>2, <2>3, <2>4, <2>6 DEF IInv
(* FAILED is written only when no import is late and nobody posts the      *)
(* bill; POSTED only of what was found. *)
<1>12. ASSUME NEW q \in Checkers, SettleUnknown(q)
       PROVE  IInv'
  <2> DEFINE b == check[q].b
  <2>1. /\ check[q] # Idle /\ check'[q] = Idle
        /\ \A r \in Checkers \ {q} : check'[r] = check[r]
        /\ UNCHANGED <<tally, late, post, sweep>>
        /\ \/ check[q].at = "found" /\ WriteRow(b, "POSTED")
           \/ ~TooEarly(q) /\ WriteRow(b, "FAILED")
           \/ UNCHANGED <<row, age>>
    BY <1>0, <1>12 DEF SettleUnknown, Checking, EndCheck, TypeOK
  <2>2. b \in Bills /\ CheckFits(q) /\ LateFits(b) /\ RowFits(b)
    BY <1>0, <2>1, CheckOf DEF IInv
  <2>3. /\ check[q].at = "found" => InTally(b)
        /\ ~TooEarly(q) => late[b] = 0
        /\ \A p \in Posters : post[p] # Idle => post[p].b # b
    BY <2>1, <2>2 DEF CheckFits, TooEarly
  <2>4. \A r \in Checkers : check'[r] = Idle
    BY <2>1 DEF AtMostOneChecker
  <2>5. \A s \in Sweepers : SweepFits(s)'
    BY <2>1, SweepExcluded DEF SweepFits
  <2>6. NumbersPair' /\ OneClaim' /\ \A r \in Checkers : CheckFits(r)'
    BY <2>1, <2>4 DEF IInv, NumbersPair, OneClaim, Working, CheckFits
  <2>7. CASE UNCHANGED <<row, age>>
    <3>1. \A c \in Bills : (LateFits(c) /\ RowFits(c))'
      BY <2>1, <2>7 DEF IInv, LateFits, RowFits, InTally
    <3>2. \A r \in Posters : PostFits(r)'
      BY <2>1, <2>7 DEF IInv, PostFits, Working, InTally, Interrupted
    <3> QED  BY <1>0, <2>5, <2>6, <3>1, <3>2 DEF IInv
  <2>8. ASSUME NEW to \in {"POSTED", "FAILED"}, WriteRow(b, to),
               to = "POSTED" => InTally(b),
               to = "FAILED" => late[b] = 0
        PROVE  IInv'
    <3>1. /\ row'[b] = to /\ age'[b] = "fresh"
          /\ \A c \in Bills \ {b} : row'[c] = row[c] /\ age'[c] = age[c]
      BY <1>0, <2>2, <2>8 DEF WriteRow, TypeOK
    <3>2. late[b] = 0
      <4>1. to = "POSTED" => late[b] # 1
        BY <1>0, <2>2, <2>8 DEF LateFits, InTally, Bills, TypeOK
      <4> QED  BY <2>2, <2>8, <4>1 DEF LateFits
    <3>3. \A c \in Bills : (LateFits(c) /\ RowFits(c))'
      BY <2>1, <2>8, <3>1, <3>2 DEF IInv, LateFits, RowFits, InTally
    <3>4. ASSUME NEW r \in Posters
          PROVE  PostFits(r)'
      <4>1. CASE post[r] = Idle
        BY <2>1, <4>1 DEF PostFits, Working
      <4>2. CASE post[r] # Idle
        <5>1. PostFits(r) /\ post'[r] = post[r] /\ post[r].b \in Bills
          BY <1>0, <2>1, <4>2, PostOf DEF IInv
        <5>2. post[r].b # b
          BY <2>3, <4>2
        <5> QED  BY <2>1, <3>1, <5>1, <5>2 DEF PostFits, Working, InTally, Interrupted
      <4> QED  BY <4>1, <4>2
    <3> QED  BY <1>0, <2>5, <2>6, <3>3, <3>4 DEF IInv
  <2> QED  BY <2>1, <2>3, <2>7, <2>8
<1>13. CASE ListQueue
  <2>1. ExpireStale /\ UNCHANGED <<tally, late, post, check, sweep>>
    BY <1>13 DEF ListQueue
  <2>2. OneClaim' /\ \A s \in Sweepers : SweepFits(s)'
    BY <2>1 DEF IInv, OneClaim, Working, SweepFits, InTally
  <2> QED  BY <1>0, <2>1, <2>2, ExpirePreserves DEF IInv
(* The sweep: nobody posts or checks beside it. *)
<1>14. ASSUME NEW s \in Sweepers, SweepVouchers(s) \/ SweepRows(s)
       PROVE  IInv'
  <2>1. UNCHANGED <<row, age, tally, late, post, check>>
    BY <1>14 DEF SweepVouchers, SweepRows
  <2>2. NumbersPair' /\ OneClaim' /\ \A b \in Bills : (LateFits(b) /\ RowFits(b))'
    BY <2>1 DEF IInv, NumbersPair, OneClaim, Working, LateFits, RowFits, InTally
  <2>3. \A p \in Posters : PostFits(p)'
    BY <2>1 DEF IInv, PostFits, Working, InTally, Interrupted
  <2>4. \A q \in Checkers : CheckFits(q)'
    BY <2>1 DEF IInv, CheckFits, InTally
  <2>5. \A t \in Sweepers \ {s} : sweep'[t] = sweep[t]
    BY <1>0, <1>14 DEF SweepVouchers, SweepRows, TypeOK
  <2>6. SweepFits(s)'
    <3>1. CASE SweepVouchers(s)
      <4>1. sweep'[s] = [at |-> "vouchers", top |-> Len(tally)] /\ Len(tally) \in Nat
        BY <1>0, <3>1 DEF SweepVouchers, TypeOK
      <4> QED  BY <2>1, <3>1, <4>1 DEF SweepVouchers, NoPost, SweepFits
    <3>2. CASE SweepRows(s)
      <4>1. /\ sweep[s] # Idle
            /\ sweep'[s] = [at |-> "rows", top |-> sweep[s].top, saw |-> row]
        BY <1>0, <3>2 DEF SweepRows, TypeOK
      <4> QED  BY <2>1, <4>1 DEF IInv, SweepFits, LateFits, RowFits, InTally
    <3> QED  BY <1>14, <3>1, <3>2
  <2>7. \A t \in Sweepers : SweepFits(t)'
    BY <2>1, <2>5, <2>6 DEF IInv, SweepFits, InTally
  <2> QED  BY <1>0, <2>2, <2>3, <2>4, <2>7 DEF IInv
<1>15. ASSUME NEW s \in Sweepers, SweepWrite(s)
       PROVE  IInv'
  <2> DEFINE seen == sweep[s]
  <2>1. /\ seen # Idle /\ seen.at = "rows" /\ sweep'[s] = Idle
        /\ \A t \in Sweepers \ {s} : sweep'[t] = sweep[t]
        /\ \A b \in Bills : row'[b] = SweptStatus(seen, b) /\ age'[b] = "fresh"
        /\ UNCHANGED <<tally, late, post, check>>
    BY <1>0, <1>15 DEF SweepWrite, TypeOK
  <2>2. /\ \A p \in Posters : post[p] = Idle
        /\ \A q \in Checkers : check[q] = Idle
        /\ seen.top <= Len(tally) /\ seen.top \in Nat /\ Len(tally) \in Nat
        /\ \A b \in Bills : late[b] = 1 => seen.saw[b] \in {"POSTING", "UNKNOWN"}
    BY <1>0, <2>1, SweepOf DEF IInv, SweepFits, TypeOK
  <2>3. ASSUME NEW b \in Bills
        PROVE  (LateFits(b) /\ RowFits(b))'
    <3>1. b \in Nat /\ LateFits(b)
      BY DEF IInv, Bills
    <3> QED  BY <2>1, <2>2, <3>1 DEF SweptStatus, InFlight, LateFits, RowFits, InTally
  <2>4. /\ NumbersPair' /\ OneClaim' /\ \A p \in Posters : PostFits(p)'
        /\ \A q \in Checkers : CheckFits(q)'
    BY <2>1, <2>2 DEF IInv, NumbersPair, OneClaim, PostFits, Working, CheckFits
  <2>5. \A t \in Sweepers : SweepFits(t)'
    BY <2>1 DEF IInv, SweepFits, InTally
  <2> QED  BY <1>0, <2>3, <2>4, <2>5 DEF IInv
(* A late import takes the number that was kept for it. *)
<1>16. ASSUME NEW b \in Bills, TallySavesLate(b)
       PROVE  IInv'
  <2>1. /\ late[b] = 1 /\ late'[b] = 0 /\ \A c \in Bills \ {b} : late'[c] = late[c]
        /\ tally' = Append(tally, b)
        /\ UNCHANGED <<row, age, post, check, sweep>>
    BY <1>0, <1>16 DEF TallySavesLate, IInv, LateFits, TypeOK
  <2>2. row[b] \in {"POSTING", "UNKNOWN"} /\ Len(tally) = b - 1
    BY <2>1 DEF IInv, LateFits
  <2>3. /\ Len(tally') = b /\ Len(tally) \in Nat
        /\ NumbersPair'
        /\ \A c \in Bills : InTally(c) => InTally(c)'
        /\ \A c \in Bills \ {b} : InTally(c)' => InTally(c)
    BY <1>0, <2>1, <2>2, SavePreserves DEF TypeOK
  <2>4. \A c \in Bills : (LateFits(c) /\ RowFits(c))'
    BY <2>1, <2>2, <2>3 DEF IInv, LateFits, RowFits, Bills
  <2>5. ASSUME NEW r \in Posters
        PROVE  PostFits(r)'
    <3>1. CASE post[r] = Idle
      BY <2>1, <3>1 DEF PostFits, Working
    <3>2. CASE post[r] # Idle
      <4>1. PostFits(r) /\ post'[r] = post[r] /\ post[r].b \in Bills
        BY <1>0, <2>1, <3>2, PostOf DEF IInv
      <4>2. ~Working(r, Sending)
        BY <2>1, <2>2, <4>1 DEF PostFits, Bills
      <4>3. Working(r, {"refused", "odd", "failed"}) => post[r].b # b
        BY <2>1, <4>1 DEF PostFits
      <4> QED  BY <2>1, <2>2, <2>3, <4>1, <4>2, <4>3
                  DEF PostFits, Working, Interrupted, Postable, Bills
    <3> QED  BY <3>1, <3>2
  <2>6. OneClaim'
    BY <2>1 DEF IInv, OneClaim, Working
  <2>7. ASSUME NEW q \in Checkers
        PROVE  CheckFits(q)'
    <3>1. check[q] # Idle => check[q].b \in Bills /\ CheckFits(q)
      BY <1>0, CheckOf DEF IInv
    <3> QED  BY <2>1, <2>3, <3>1 DEF CheckFits
  <2>8. ASSUME NEW s \in Sweepers
        PROVE  SweepFits(s)'
    <3>1. CASE sweep[s] = Idle
      BY <2>1, <3>1 DEF SweepFits
    <3>2. CASE sweep[s] # Idle
      <4>1. SweepFits(s) /\ sweep'[s] = sweep[s] /\ sweep[s].top \in Nat
        BY <1>0, <2>1, <3>2, SweepOf DEF IInv
      <4> QED  BY <2>1, <2>2, <2>3, <4>1 DEF SweepFits, Bills
    <3> QED  BY <3>1, <3>2
  <2> QED  BY <1>0, <2>3, <2>4, <2>5, <2>6, <2>7, <2>8 DEF IInv
(* Time passes only for a row that nobody is sending. *)
<1>17. ASSUME NEW b \in Bills, Grow(b)
       PROVE  IInv'
  <2>1. /\ late'[b] = 0 /\ age'[b] = IF age[b] = "fresh" THEN "settled" ELSE "stale"
        /\ \A c \in Bills \ {b} : late'[c] = late[c] /\ age'[c] = age[c]
        /\ MayAge(b)
        /\ UNCHANGED <<row, tally, post, sweep>>
    BY <1>0, <1>17 DEF Grow, TypeOK
  <2>2. \A c \in Bills : (LateFits(c) /\ RowFits(c))'
    BY <2>1 DEF IInv, LateFits, RowFits, InTally
  <2>3. ASSUME NEW r \in Posters
        PROVE  PostFits(r)'
    <3>1. CASE post[r] = Idle
      BY <2>1, <3>1 DEF PostFits, Working
    <3>2. CASE post[r] # Idle
      <4>1. PostFits(r) /\ post'[r] = post[r] /\ post[r].b \in Bills
        BY <1>0, <2>1, <3>2, PostOf DEF IInv
      <4>2. CASE post[r].b # b
        BY <2>1, <4>1, <4>2 DEF PostFits, Working, InTally, Interrupted
      <4>3. CASE post[r].b = b
        <5>1. Working(r, HasClaim) => age'[b] = "settled" /\ ~Working(r, Sending)
          BY <2>1, <4>3 DEF MayAge, Working, HasClaim, Sending, Answered, Outcomes
        <5>2. Working(r, Sending) => Working(r, HasClaim)
          BY DEF Working, HasClaim
        <5> QED  BY <2>1, <4>1, <4>3, <5>1, <5>2
                    DEF PostFits, Working, InTally, Interrupted
      <4> QED  BY <4>2, <4>3
    <3> QED  BY <3>1, <3>2
  <2>4. NumbersPair' /\ OneClaim'
    BY <2>1 DEF IInv, NumbersPair, OneClaim, Working
  <2>5. ASSUME NEW q \in Checkers
        PROVE  CheckFits(q)'
    <3>1. CASE check[q] = Idle
      BY <1>17, <3>1 DEF Grow, CheckFits
    <3>2. CASE check[q] # Idle
      <4>1. /\ check[q] \in [at: {"unknown"} \cup Looked, b: Bills, old: BOOLEAN]
            /\ check[q].b \in Bills /\ CheckFits(q)
        BY <1>0, <3>2, CheckOf DEF IInv
      <4>2. /\ check'[q].at = check[q].at /\ check'[q].b = check[q].b
            /\ check[q].b # b => check'[q].old = check[q].old
        BY <1>17, <3>2, <4>1 DEF Grow
      <4> QED  BY <2>1, <3>2, <4>1, <4>2 DEF CheckFits, InTally
    <3> QED  BY <3>1, <3>2
  <2>6. \A s \in Sweepers : SweepFits(s)'
    <3>1. \A r \in Checkers : check[r] = Idle => check'[r] = Idle
      BY <1>17 DEF Grow
    <3> QED  BY <2>1, <3>1 DEF IInv, SweepFits, InTally
  <2> QED  BY <1>0, <2>2, <2>3, <2>4, <2>5, <2>6 DEF IInv
(* A restart: what was sent may come late, and no two were sent. *)
<1>18. CASE Restart
  <2>1. /\ UNCHANGED <<row, age, tally>>
        /\ \A p \in Posters : post'[p] = Idle
        /\ \A q \in Checkers : check'[q] = Idle
        /\ \A s \in Sweepers : sweep'[s] = Idle
    BY <1>18 DEF Restart
  <2>2. ASSUME NEW b \in Bills
        PROVE  \/ late'[b] = late[b]
               \/ /\ late'[b] = 1 /\ row[b] = "POSTING" /\ age[b] = "fresh"
                  /\ Len(tally) = b - 1
    <3>1. CASE \E p \in Posters : Working(p, {"sent"}) /\ post[p].b = b
      <4>1. late[b] = 0 /\ row[b] = "POSTING" /\ age[b] = "fresh" /\ Len(tally) = b - 1
        BY <3>1 DEF IInv, PostFits, Working, Sending
      <4> QED  BY <1>18, <3>1, <4>1 DEF Restart
    <3>2. CASE ~ \E p \in Posters : Working(p, {"sent"}) /\ post[p].b = b
      BY <1>18, <3>2 DEF Restart
    <3> QED  BY <3>1, <3>2
  <2>3. \A b \in Bills : (LateFits(b) /\ RowFits(b))'
    BY <2>1, <2>2 DEF IInv, LateFits, RowFits, InTally
  <2> QED  BY <1>0, <2>1, <2>3 DEF IInv, NumbersPair, PostFits, Working, OneClaim,
                                   CheckFits, SweepFits
<1>19. CASE UNCHANGED vars
  BY <1>0, <1>19 DEF vars, IInv, NumbersPair, LateFits, RowFits, PostFits, Working,
                     OneClaim, CheckFits, SweepFits, InTally, Interrupted
<1>20. ASSUME NEW p \in Posters,
              \/ \E b \in Bills : StartPost(p, b)
              \/ LookInTally(p) \/ LookForPrevious(p) \/ GiveUp(p) \/ Claim(p)
              \/ Send(p) \/ TallySaves(p) \/ TallyDoesNotSave(p) \/ TimeOut(p)
              \/ ReadBack(p) \/ Conclude(p)
       PROVE  IInv'
  BY <1>1, <1>2, <1>3, <1>4, <1>5, <1>6, <1>7, <1>8, <1>9, <1>10, <1>20, Zenon
<1> QED
  BY <1>11, <1>12, <1>13, <1>14, <1>15, <1>16, <1>17, <1>18, <1>19, <1>20, <1>11a, Zenon
     DEF Next

-----------------------------------------------------------------------------
(* The invariant holds for any number of bills and posters, where nobody   *)
(* posts or checks beside a sweep and there is one check at a time, of a   *)
(* bill that nobody posts. *)
LEMMA Safe ==
  ASSUME SweepsAlone, ChecksAlone, AtMostOneChecker
  PROVE  Spec => []IInv
<1>1. Init => IInv
  BY TypeInit DEF Init, IInv, LateFits, RowFits, PostFits, Working, OneClaim,
                  CheckFits, SweepFits
<1>2. IInv /\ [Next]_vars => IInv'
  BY StepPreserves
<1> QED  BY <1>1, <1>2, PTL DEF Spec

(* The voucher with a bill's number is that bill and no other, whatever    *)
(* answers are lost and wherever the server stops: post looks before it    *)
(* claims, and claims before it sends. *)
THEOREM EachBillItsNumber ==
  ASSUME SweepsAlone, ChecksAlone, AtMostOneChecker
  PROVE  Spec => []NumbersPair
<1>1. IInv => NumbersPair
  BY DEF IInv
<1> QED  BY <1>1, Safe, PTL

(* POSTED is said only of a bill that is in Tally, and FAILED only of one  *)
(* that nothing under way can put there any more. *)
THEOREM RowsSayWhatIsSo ==
  ASSUME SweepsAlone, ChecksAlone, AtMostOneChecker
  PROVE  Spec => []SaysWhatIsSo
<1>1. IInv => SaysWhatIsSo
  <2> SUFFICES ASSUME IInv, NEW b \in Bills
               PROVE  /\ row[b] = "POSTED" => \E n \in DOMAIN tally : tally[n] = b
                      /\ row[b] = "FAILED" =>
                           late[b] = 0 /\ \A p \in Posters :
                                            Working(p, Sending) => post[p].b # b
    BY DEF SaysWhatIsSo
  <2>1. Len(tally) \in Nat /\ DOMAIN tally = 1..Len(tally)
    BY LenProperties DEF IInv, TypeOK
  <2>2. InTally(b) <=> \E n \in DOMAIN tally : tally[n] = b
    BY <2>1, MaxBillAssumption DEF IInv, NumbersPair, InTally, Bills
  <2> QED  BY <2>2 DEF IInv, RowFits, LateFits, PostFits
<1> QED  BY <1>1, Safe, PTL

-----------------------------------------------------------------------------
(* Posting implements PostOnce                                             *)

AtMostOneSweeper == \A s, t \in Sweepers : s = t

(* What a sweep has read of POSTED rows covers all that are POSTED, and    *)
(* rows change under it only by expiring. *)
SweepKnows(s) ==
  sweep[s] # Idle =>
    \A b \in Bills :
      /\ row[b] = "POSTED" => b <= sweep[s].top
      /\ sweep[s].at = "rows" =>
           \/ row[b] = sweep[s].saw[b]
           \/ row[b] = "UNKNOWN" /\ sweep[s].saw[b] = "POSTING"

Known == IInv /\ \A s \in Sweepers : SweepKnows(s)

(* What a step may make of the row of a bill. *)
Justified(b) ==
  \/ row'[b] = row[b]
  \/ row'[b] = "POSTED" /\ InTally(b)
  \/ row'[b] \in {"POSTING", "UNKNOWN"}
  \/ row'[b] \in Postable /\ row[b] # "POSTED"

(* Rows change only with a reason, and never in the step that adds a       *)
(* voucher. *)
LEMMA RowsJustified ==
  ASSUME Known, [Next]_vars
  PROVE  \/ tally' = tally /\ \A b \in Bills : Justified(b)
         \/ /\ row' = row
            /\ \E b \in Bills : /\ tally' = Append(tally, b) /\ Len(tally) = b - 1
                                /\ row[b] \in {"POSTING", "UNKNOWN"}
<1> DEFINE Goal == \/ tally' = tally /\ \A b \in Bills : Justified(b)
                   \/ /\ row' = row
                      /\ \E b \in Bills : /\ tally' = Append(tally, b)
                                          /\ Len(tally) = b - 1
                                          /\ row[b] \in {"POSTING", "UNKNOWN"}
<1>0. TypeOK /\ IInv
  BY DEF Known, IInv
<1>1. ExpireStale => \A b \in Bills : Justified(b)
  BY <1>0 DEF ExpireStale, Expired, Justified, TypeOK
<1>2. ASSUME NEW p \in Posters, NEW b \in Bills, StartPost(p, b)
      PROVE  Goal
  BY <1>1, <1>2 DEF StartPost
<1>3. ASSUME NEW p \in Posters,
             \/ LookInTally(p) \/ LookForPrevious(p) \/ GiveUp(p) \/ Send(p)
             \/ TallyDoesNotSave(p) \/ TimeOut(p) \/ ReadBack(p)
      PROVE  Goal
  BY <1>3 DEF LookInTally, LookForPrevious, GiveUp, Send, TallyDoesNotSave, TimeOut,
              ReadBack, Justified
<1>4. ASSUME NEW p \in Posters, Claim(p)
      PROVE  Goal
  BY <1>0, <1>4 DEF Claim, WriteRow, Justified, TypeOK
<1>5. ASSUME NEW p \in Posters, TallySaves(p)
      PROVE  Goal
  <2>1. post[p] # Idle /\ post[p].b \in Bills /\ PostFits(p)
    BY <1>0, <1>5, PostOf DEF TallySaves, Working, IInv
  <2> QED  BY <1>5, <2>1 DEF TallySaves, PostFits, Working, Sending
<1>6. ASSUME NEW p \in Posters, Conclude(p)
      PROVE  Goal
  <2>1. post[p] # Idle /\ post[p].b \in Bills /\ PostFits(p)
    BY <1>0, <1>6, PostOf DEF Conclude, Working, IInv
  <2>2. /\ row' = [row EXCEPT ![post[p].b] = StatusFor[post[p].at]]
        /\ tally' = tally /\ post[p].at \in Outcomes
    BY <1>6 DEF Conclude, Working, WriteRow
  <2>3. \/ post[p].at = "found" /\ StatusFor[post[p].at] = "POSTED"
        \/ post[p].at = "failed" /\ StatusFor[post[p].at] = "FAILED"
        \/ post[p].at = "unclear" /\ StatusFor[post[p].at] = "UNKNOWN"
    BY <2>2 DEF Outcomes, StatusFor
  <2> QED  BY <1>0, <2>1, <2>2, <2>3 DEF PostFits, Working, Justified, Postable,
                                         TypeOK
<1>7. ASSUME NEW q \in Checkers, NEW b \in Bills, StartCheck(q, b)
      PROVE  Goal
  BY <1>1, <1>7 DEF StartCheck
<1>8. ASSUME NEW q \in Checkers, LookAgain(q) \/ NotReachable(q) \/ SettleUnknown(q)
      PROVE  Goal
  <2>1. CASE LookAgain(q) \/ NotReachable(q)
    BY <2>1 DEF LookAgain, NotReachable, EndCheck, Justified
  <2>2. CASE SettleUnknown(q)
    <3>1. check[q] # Idle /\ check[q].b \in Bills /\ CheckFits(q)
      BY <1>0, <2>2, CheckOf DEF SettleUnknown, Checking, IInv
    <3> QED  BY <1>0, <2>2, <3>1 DEF SettleUnknown, EndCheck, WriteRow, CheckFits,
                                    Justified, Postable, TypeOK
  <2> QED  BY <1>8, <2>1, <2>2
<1>9. CASE ListQueue
  BY <1>1, <1>9 DEF ListQueue
<1>10. ASSUME NEW s \in Sweepers, SweepVouchers(s) \/ SweepRows(s)
       PROVE  Goal
  BY <1>10 DEF SweepVouchers, SweepRows, Justified
<1>11. ASSUME NEW s \in Sweepers, SweepWrite(s)
       PROVE  Goal
  <2> DEFINE seen == sweep[s]
  <2>1. /\ seen # Idle /\ seen.at = "rows" /\ tally' = tally
        /\ \A b \in Bills : row'[b] = SweptStatus(seen, b)
    BY <1>11 DEF SweepWrite
  <2>2. /\ SweepFits(s) /\ SweepKnows(s) /\ seen.top \in Nat /\ Len(tally) \in Nat
        /\ seen.saw \in [Bills -> Statuses]
    BY <1>0, <2>1, SweepOf DEF IInv, Known, TypeOK
  <2>3. ASSUME NEW b \in Bills
        PROVE  Justified(b)
    <3>1. b \in Nat
      BY DEF Bills
    <3>2. seen.saw[b] \in Statuses
      BY <2>2
    <3> QED  BY <2>1, <2>2, <3>1, <3>2 DEF SweepFits, SweepKnows, SweptStatus, InFlight,
                                     Justified, Postable, InTally, Statuses
  <2> QED  BY <2>1, <2>3
<1>12. ASSUME NEW b \in Bills, TallySavesLate(b)
       PROVE  Goal
  BY <1>0, <1>12 DEF TallySavesLate, IInv, LateFits
<1>13. ASSUME NEW b \in Bills, Grow(b)
       PROVE  Goal
  BY <1>13 DEF Grow, Justified
<1>14. CASE Restart \/ UNCHANGED vars
  BY <1>14 DEF Restart, vars, Justified
<1>15. ASSUME NEW p \in Posters,
              \/ \E b \in Bills : StartPost(p, b)
              \/ LookInTally(p) \/ LookForPrevious(p) \/ GiveUp(p) \/ Claim(p)
              \/ Send(p) \/ TallySaves(p) \/ TallyDoesNotSave(p) \/ TimeOut(p)
              \/ ReadBack(p) \/ Conclude(p)
       PROVE  Goal
  BY <1>2, <1>3, <1>4, <1>5, <1>6, <1>15, Zenon
<1> QED
  BY <1>7, <1>8, <1>9, <1>10, <1>11, <1>12, <1>13, <1>14, <1>15, Zenon DEF Next

(* Every step keeps what posters and sweepers know of Tally true. *)
LEMMA KnownPreserved ==
  ASSUME SweepsAlone, ChecksAlone, AtMostOneChecker, AtMostOneSweeper,
         Known, [Next]_vars
  PROVE  Known'
<1>1. TypeOK /\ IInv /\ IInv'
  BY StepPreserves DEF Known, IInv
<1>2. ASSUME NEW s \in Sweepers, sweep'[s] # Idle
      PROVE  SweepKnows(s)'
  <2>1. ASSUME NEW t \in Sweepers, SweepVouchers(t)
        PROVE  SweepKnows(s)'
    <3>1. /\ sweep'[s] = [at |-> "vouchers", top |-> Len(tally)]
          /\ row' = row
      BY <1>1, <2>1 DEF SweepVouchers, TypeOK, AtMostOneSweeper
    <3> QED  BY <1>1, <3>1 DEF SweepKnows, IInv, RowFits, InTally
  <2>2. ASSUME NEW t \in Sweepers, SweepRows(t)
        PROVE  SweepKnows(s)'
    <3>1. /\ sweep[s] # Idle /\ row' = row
          /\ sweep'[s] = [at |-> "rows", top |-> sweep[s].top, saw |-> row]
      BY <1>1, <2>2 DEF SweepRows, TypeOK, AtMostOneSweeper
    <3> QED  BY <3>1 DEF SweepKnows, Known
  <2>3. ASSUME NEW t \in Sweepers, SweepWrite(t)
        PROVE  SweepKnows(s)'
    BY <1>1, <1>2, <2>3 DEF SweepWrite, TypeOK, AtMostOneSweeper
  <2>4. ASSUME sweep'[s] = sweep[s], sweep[s] # Idle,
               \/ row' = row
               \/ \A b \in Bills : \/ row'[b] = row[b]
                                   \/ row[b] = "POSTING" /\ row'[b] = "UNKNOWN"
        PROVE  SweepKnows(s)'
    BY <2>4 DEF SweepKnows, Known
  <2>5. CASE ListQueue
    <3>1. sweep' = sweep /\ ExpireStale
      BY <2>5 DEF ListQueue
    <3>2. \A b \in Bills : \/ row'[b] = row[b]
                           \/ row[b] = "POSTING" /\ row'[b] = "UNKNOWN"
      BY <3>1 DEF ExpireStale, Expired, Interrupted
    <3> QED  BY <1>2, <2>4, <3>1, <3>2
  <2>6. ASSUME NEW b \in Bills, TallySavesLate(b) \/ Grow(b)
        PROVE  SweepKnows(s)'
    BY <1>2, <2>4, <2>6 DEF TallySavesLate, Grow
  <2>7. CASE Restart
    BY <1>2, <2>7 DEF Restart
  <2>8. CASE UNCHANGED vars
    BY <1>2, <2>4, <2>8 DEF vars
  (* Nobody starts, posts or checks while s sweeps. *)
  <2>9. ASSUME NEW p \in Posters,
               \/ \E b \in Bills : StartPost(p, b)
               \/ LookInTally(p) \/ LookForPrevious(p) \/ GiveUp(p) \/ Claim(p)
               \/ Send(p) \/ TallySaves(p) \/ TallyDoesNotSave(p) \/ TimeOut(p)
               \/ ReadBack(p) \/ Conclude(p)
        PROVE  FALSE
    <3>1. sweep' = sweep /\ (post[p] # Idle \/ NoSweep)
      BY <2>9 DEF StartPost, LookInTally, LookForPrevious, GiveUp, Claim, Send,
                  TallySaves, TallyDoesNotSave, TimeOut, ReadBack, Conclude, Working
    <3> QED  BY <1>1, <1>2, <3>1 DEF IInv, SweepFits, NoSweep
  <2>10. ASSUME NEW q \in Checkers,
                \/ \E b \in Bills : StartCheck(q, b)
                \/ LookAgain(q) \/ NotReachable(q) \/ SettleUnknown(q)
         PROVE  FALSE
    <3>1. sweep' = sweep /\ (check[q] # Idle \/ NoSweep)
      BY <2>10 DEF StartCheck, LookAgain, NotReachable, SettleUnknown, EndCheck, Checking
    <3> QED  BY <1>1, <1>2, <3>1 DEF IInv, SweepFits, NoSweep
  <2> QED
    BY <2>1, <2>2, <2>3, <2>5, <2>6, <2>7, <2>8, <2>9, <2>10, Zenon DEF Next
<1>3. ASSUME NEW s \in Sweepers, sweep'[s] = Idle
      PROVE  SweepKnows(s)'
  BY <1>3 DEF SweepKnows
<1> QED  BY <1>1, <1>2, <1>3 DEF Known

Speaks(say, status) ==
  /\ say \in {"no", "unsure", "yes"}
  /\ say = "yes" <=> status = "POSTED"
  /\ say = "unsure" <=> status \in {"POSTING", "UNKNOWN"}
  /\ say = "no" <=> status \in Postable

(* The word of a bill, read off its row, before and after a step. *)
LEMMA WordOf ==
  ASSUME TypeOK, TypeOK', NEW b \in Bills
  PROVE  Speaks(Word[b], row[b]) /\ Speaks(Word'[b], row'[b])
BY DEF Word, TypeOK, Statuses, Postable, Speaks

(* The books are the vouchers with the bills' numbers. *)
LEMMA EnteredIsInTally ==
  ASSUME IInv, NEW b \in Bills
  PROVE  Abstract!Entered(b) <=> InTally(b)
<1>1. Len(tally) \in Nat /\ DOMAIN tally = 1..Len(tally)
  BY LenProperties DEF IInv, TypeOK
<1> QED  BY <1>1, MaxBillAssumption DEF IInv, NumbersPair, InTally, Bills,
                                        Abstract!Entered

(* Posting implements PostOnce: every step speaks of bills as PostOnce     *)
(* allows, or enters one that nobody knows to be there or not. *)
THEOREM PostingPostsOnce ==
  ASSUME SweepsAlone, ChecksAlone, AtMostOneChecker, AtMostOneSweeper
  PROVE  Spec => PostsOnce
<1>1. Init => Known
  BY TypeInit DEF Init, Known, IInv, LateFits, RowFits, PostFits, Working, OneClaim,
                  CheckFits, SweepFits, SweepKnows
<1>2. Known /\ [Next]_vars => Known'
  BY KnownPreserved
<1>3. Init => Abstract!Init
  <2> SUFFICES ASSUME Init
               PROVE  Abstract!Init
    OBVIOUS
  <2>1. TypeOK /\ NumbersPair
    BY TypeInit
  <2>2. Word = [b \in Bills |-> "no"]
    BY DEF Init, Word
  <2> QED  BY <2>1, <2>2 DEF Abstract!Init, TypeOK, NumbersPair
<1>4. Known /\ Known' /\ [Next]_vars => [Abstract!Next]_(Abstract!vars)
  <2> SUFFICES ASSUME Known, Known', [Next]_vars
               PROVE  Abstract!Next
    OBVIOUS
  <2>1. TypeOK /\ TypeOK' /\ IInv
    BY DEF Known, IInv
  <2>2. CASE tally' = tally /\ \A b \in Bills : Justified(b)
    <3>1. Word' \in [Bills -> {"no", "unsure", "yes"}]
      <4>1. \A b \in Bills : Word'[b] \in {"no", "unsure", "yes"}
        BY <2>1, WordOf DEF Speaks
      <4> QED  BY <4>1 DEF Word
    <3>2. ASSUME NEW b \in Bills, Word'[b] # Word[b]
          PROVE  /\ Word'[b] = "yes" => Abstract!Entered(b)
                 /\ Word'[b] = "no" => Word[b] = "unsure"
      BY <2>1, <2>2, <3>2, WordOf, EnteredIsInTally DEF Justified, Speaks, Postable
    <3>3. Abstract!Speak
      BY <2>2, <3>1, <3>2 DEF Abstract!Speak
    <3> QED  BY <3>3 DEF Abstract!Next
  <2>3. CASE row' = row /\ \E b \in Bills : /\ tally' = Append(tally, b)
                                            /\ Len(tally) = b - 1
                                            /\ row[b] \in {"POSTING", "UNKNOWN"}
    <3>1. PICK b \in Bills : /\ tally' = Append(tally, b) /\ Len(tally) = b - 1
                             /\ row[b] \in {"POSTING", "UNKNOWN"}
      BY <2>3
    <3>2. Word[b] = "unsure" /\ Word' = Word
      BY <2>1, <2>3, <3>1, WordOf DEF Word, Speaks
    <3>3. ~Abstract!Entered(b)
      BY <2>1, <3>1, EnteredIsInTally DEF InTally, Bills
    <3>4. Abstract!Enter(b)
      BY <3>1, <3>2, <3>3 DEF Abstract!Enter
    <3> QED  BY <3>4 DEF Abstract!Next
  <2> QED  BY <2>2, <2>3, RowsJustified
<1> QED  BY <1>1, <1>2, <1>3, <1>4, PTL DEF Spec, PostsOnce, Abstract!Spec
=============================================================================
