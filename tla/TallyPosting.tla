---------------------------- MODULE TallyPosting ----------------------------
(***************************************************************************)
(* Posting confirmed bills to Tally, an external program behind a network  *)
(* call that may never answer.                                             *)
(*                                                                         *)
(* apps/api/src/tally/tally-posting.service.ts posts one bill: it looks in *)
(* Tally, claims the bill's link row, sends, reads back, and writes what   *)
(* came of it.  Without a clear answer the row is UNKNOWN until "Check     *)
(* again" (resolve) has looked in Tally.  tally-bills.service.ts sweeps    *)
(* all bills and rewrites the link rows.  Every await ends a step.         *)
(*                                                                         *)
(* The bills are 1, 2, ... in the order of their numbers.  Tally numbers   *)
(* its vouchers itself, so the voucher with number n is the n-th element   *)
(* of tally; its value is the bill it was made from.                       *)
(*                                                                         *)
(* Time is the age of a link row: fresh, older than SETTLE_MS (60 s), or   *)
(* older than STALE_MS (120 s).  MayAge holds what the timeouts say.       *)
(***************************************************************************)
EXTENDS Integers, Sequences

CONSTANTS
  MaxBill,    (* the number of bills                        *)
  Posters,    (* requests that post a bill                  *)
  Checkers,   (* requests that check an UNKNOWN bill again  *)
  Sweepers,   (* requests that run the bill check (sweep)   *)
  SweepsAlone, (* nobody posts or checks while a sweep runs *)
  ChecksAlone  (* nobody checks a bill while a request to   *)
               (* post it is under way                      *)

ASSUME MaxBillAssumption == MaxBill \in Nat \ {0}
ASSUME AloneAssumption == SweepsAlone \in BOOLEAN /\ ChecksAlone \in BOOLEAN

Bills == 1..MaxBill

VARIABLES
  row,      (* link row of a bill: NONE, or its status                    *)
  age,      (* link row: time since it was written                        *)
  tally,    (* the vouchers in Tally, by number                           *)
  late,     (* bill: abandoned imports that Tally may still save          *)
  post,     (* poster: the bill it posts and how far it is                *)
  check,    (* checker: the bill it checks and what it read               *)
  sweep     (* sweeper: the vouchers and statuses it has read             *)

vars == <<row, age, tally, late, post, check, sweep>>

Statuses == {"NONE", "NOT_POSTED", "POSTING", "POSTED", "UNKNOWN", "FAILED"}
Ages     == {"fresh", "settled", "stale"}
InFlight == {"POSTING", "UNKNOWN", "FAILED"}

Idle == [at |-> "idle"]

(* A poster between two awaits of post(); hadRow: a link row existed when  *)
(* it read the bill.                                                       *)
BeforeClaim == {"read", "absent", "clear"}
Sending     == {"claimed", "sent"}
Answered    == {"created", "refused", "odd"}
Outcomes    == {"found", "failed", "unclear"}
Posts == {Idle} \cup [at: BeforeClaim \cup Sending \cup Answered \cup Outcomes,
                      b: Bills, hadRow: BOOLEAN]
(* A check between two awaits of resolve(); old: the row it read is older  *)
(* than SETTLE_MS by now.                                                  *)
Looked == {"found", "absent"}
Checks == {Idle} \cup [at: {"unknown"} \cup Looked, b: Bills, old: BOOLEAN]
Sweeps == {Idle} \cup [at: {"vouchers"}, top: Nat]
                 \cup [at: {"rows"}, top: Nat, saw: [Bills -> Statuses]]

(* The voucher with the bill's number, if Tally has one. *)
InTally(b) == b <= Len(tally)

Working(p, places) == post[p] # Idle /\ post[p].at \in places
Checking(q, places) == check[q] # Idle /\ check[q].at \in places
MoveTo(p, place)   == post' = [post EXCEPT ![p].at = place]
EndPost(p)         == post' = [post EXCEPT ![p] = Idle]

NoSweep == SweepsAlone => \A s \in Sweepers : sweep[s] = Idle
NoPost  == SweepsAlone => /\ \A p \in Posters : post[p] = Idle
                          /\ \A q \in Checkers : check[q] = Idle

Init ==
  /\ row = [b \in Bills |-> "NONE"]
  /\ age = [b \in Bills |-> "fresh"]
  /\ \E typed \in 0..MaxBill : tally = [n \in 1..typed |-> n]
  /\ late = [b \in Bills |-> 0]
  /\ post = [p \in Posters |-> Idle]
  /\ check = [q \in Checkers |-> Idle]
  /\ sweep = [s \in Sweepers |-> Idle]

WriteRow(b, status) ==
  /\ row' = [row EXCEPT ![b] = status]
  /\ age' = [age EXCEPT ![b] = "fresh"]

Interrupted(b) == row[b] = "POSTING" /\ age[b] = "stale"

(* expireStale: an interrupted POSTING becomes UNKNOWN. *)
Expired == [b \in Bills |-> IF Interrupted(b) THEN "UNKNOWN" ELSE row[b]]
ExpireStale ==
  /\ row' = Expired
  /\ age' = [b \in Bills |-> IF Interrupted(b) THEN "fresh" ELSE age[b]]

-----------------------------------------------------------------------------
(* TallyPostingService.post *)

StartPost(p, b) ==
  /\ post[p] = Idle /\ NoSweep
  /\ Expired[b] \in {"NONE", "NOT_POSTED", "FAILED"}
  /\ ExpireStale
  /\ post' = [post EXCEPT ![p] = [at |-> "read", b |-> b,
                                  hadRow |-> Expired[b] # "NONE"]]
  /\ UNCHANGED <<tally, late, check, sweep>>

(* Mutant: a bill declared safe to post again is not looked for. *)
TrustsTheCheck(p) ==
  /\ Working(p, {"read"})
  /\ MoveTo(p, IF row[post[p].b] # "FAILED" /\ InTally(post[p].b) THEN "found" ELSE "absent")
  /\ UNCHANGED <<row, age, tally, late, check, sweep>>

(* findInTally: a voucher that is there already is linked, never sent. *)
LookInTally(p) ==
  /\ Working(p, {"read"})
  /\ MoveTo(p, IF InTally(post[p].b) THEN "found" ELSE "absent")
  /\ UNCHANGED <<row, age, tally, late, check, sweep>>

(* The bill before it must be in Tally, or the numbers no longer pair. *)
LookForPrevious(p) ==
  /\ Working(p, {"absent"})
  /\ post[p].b > 1 => InTally(post[p].b - 1)
  /\ MoveTo(p, "clear")
  /\ UNCHANGED <<row, age, tally, late, check, sweep>>

(* The request stops: a refusal before the claim, or Tally not reachable. *)
GiveUp(p) ==
  /\ Working(p, BeforeClaim)
  /\ EndPost(p)
  /\ UNCHANGED <<row, age, tally, late, check, sweep>>

(* Mutant: the claim only asks whether the bill is posted. *)
UnlessPosted(p) ==
  IF post[p].hadRow THEN row[post[p].b] # "POSTED" ELSE row[post[p].b] = "NONE"

(* The claim: updateMany on the statuses, or create under a unique key. *)
Claimable(p) ==
  IF post[p].hadRow THEN row[post[p].b] \in {"NOT_POSTED", "FAILED"}
                    ELSE row[post[p].b] = "NONE"
Claim(p) ==
  /\ Working(p, {"clear"})
  /\ Claimable(p)
  /\ WriteRow(post[p].b, "POSTING")
  /\ MoveTo(p, "claimed")
  /\ UNCHANGED <<tally, late, check, sweep>>

Send(p) ==
  /\ Working(p, {"claimed"})
  /\ MoveTo(p, "sent")
  /\ UNCHANGED <<row, age, tally, late, check, sweep>>

(* Tally answers: it saved the voucher, refused it, or did nothing and     *)
(* reported no error either.                                               *)
TallySaves(p) ==
  /\ Working(p, {"sent"})
  /\ tally' = Append(tally, post[p].b)
  /\ MoveTo(p, "created")
  /\ UNCHANGED <<row, age, late, check, sweep>>

TallyDoesNotSave(p) ==
  /\ Working(p, {"sent"})
  /\ \E answer \in {"refused", "odd"} : MoveTo(p, answer)
  /\ UNCHANGED <<row, age, tally, late, check, sweep>>

(* No answer within the timeout: Tally may save what it was sent later on, *)
(* or has done so and only the answer was lost.                            *)
TimeOut(p) ==
  /\ \/ /\ Working(p, {"sent"})
        /\ late' = [late EXCEPT ![post[p].b] = @ + 1]
     \/ /\ Working(p, {"created", "refused", "odd"})
        /\ UNCHANGED late
  /\ MoveTo(p, "unclear")
  /\ UNCHANGED <<row, age, tally, check, sweep>>

(* Read back by number, or by the id that Tally reported.  Both reads may  *)
(* fail, which counts as not found.                                        *)
ReadBack(p) ==
  /\ Working(p, Answered)
  /\ \/ /\ InTally(post[p].b) \/ post[p].at = "created"
        /\ MoveTo(p, "found")
     \/ MoveTo(p, IF post[p].at = "refused" THEN "failed" ELSE "unclear")
  /\ UNCHANGED <<row, age, tally, late, check, sweep>>

StatusFor == [found |-> "POSTED", failed |-> "FAILED", unclear |-> "UNKNOWN"]

(* Mutant: the outcome for the log is written as the status. *)
WritesTheOutcome(p) ==
  /\ Working(p, Outcomes)
  /\ WriteRow(post[p].b, post[p].at)
  /\ EndPost(p)
  /\ UNCHANGED <<tally, late, check, sweep>>

(* Write what came of it: link, or the status alone. *)
Conclude(p) ==
  /\ Working(p, Outcomes)
  /\ WriteRow(post[p].b, StatusFor[post[p].at])
  /\ EndPost(p)
  /\ UNCHANGED <<tally, late, check, sweep>>

-----------------------------------------------------------------------------
(* TallyPostingService.resolve and queue *)

StartCheck(q, b) ==
  /\ check[q] = Idle /\ NoSweep
  /\ ChecksAlone => \A p \in Posters : post[p] # Idle => post[p].b # b
  /\ Expired[b] = "UNKNOWN"
  /\ ExpireStale
  /\ check' = [check EXCEPT ![q] = [at |-> "unknown", b |-> b,
                 old |-> ~Interrupted(b) /\ age[b] # "fresh"]]
  /\ UNCHANGED <<tally, late, post, sweep>>

(* findInTally: Tally looks, or is not reachable and the row stays as it   *)
(* is.  Its answer may be on the way while Tally saves the bill.           *)
LookAgain(q) ==
  /\ Checking(q, {"unknown"})
  /\ check' = [check EXCEPT ![q].at = IF InTally(check[q].b) THEN "found" ELSE "absent"]
  /\ UNCHANGED <<row, age, tally, late, post, sweep>>

EndCheck(q) ==
  /\ check' = [check EXCEPT ![q] = Idle]
  /\ UNCHANGED <<tally, late, post, sweep>>

NotReachable(q) ==
  /\ Checking(q, {"unknown"})
  /\ UNCHANGED <<row, age>>
  /\ EndCheck(q)

(* Mutant: what was not in Tally counts as not saved, however soon. *)
SettlesAtOnce(q) ==
  /\ Checking(q, Looked)
  /\ WriteRow(check[q].b, IF check[q].at = "found" THEN "POSTED" ELSE "FAILED")
  /\ EndCheck(q)

(* The row that was read is younger than SETTLE_MS.  Of a row written anew *)
(* meanwhile, the age of what was read is not known.                       *)
TooEarly(q) == row[check[q].b] = "UNKNOWN" /\ ~check[q].old

(* What the answer leads to.  The age is asked for now, after the answer.  *)
SettleUnknown(q) ==
  /\ Checking(q, Looked)
  /\ \/ check[q].at = "found"  /\ WriteRow(check[q].b, "POSTED")
     \/ check[q].at = "absent" /\ ~TooEarly(q) /\ WriteRow(check[q].b, "FAILED")
     \/ check[q].at = "absent" /\ ~check[q].old /\ UNCHANGED <<row, age>>
  /\ EndCheck(q)

(* queue: the list of bills to post. *)
ListQueue ==
  /\ \E b \in Bills : Interrupted(b)
  /\ ExpireStale
  /\ UNCHANGED <<tally, late, post, check, sweep>>

-----------------------------------------------------------------------------
(* TallyBillsService.run, the sweep *)

SweepVouchers(s) ==
  /\ sweep[s] = Idle /\ NoSweep /\ NoPost
  /\ sweep' = [sweep EXCEPT ![s] = [at |-> "vouchers", top |-> Len(tally)]]
  /\ UNCHANGED <<row, age, tally, late, post, check>>

SweepRows(s) ==
  /\ sweep[s] # Idle /\ sweep[s].at = "vouchers"
  /\ sweep' = [sweep EXCEPT ![s] =
                 [at |-> "rows", top |-> sweep[s].top, saw |-> row]]
  /\ UNCHANGED <<row, age, tally, late, post, check>>

(* The status the sweep writes, from what it has read. *)
SweptStatus(seen, b) ==
  IF b <= seen.top THEN "POSTED"
  ELSE IF seen.saw[b] \in InFlight THEN seen.saw[b] ELSE "NOT_POSTED"

SweepWrite(s) ==
  /\ sweep[s] # Idle /\ sweep[s].at = "rows"
  /\ row' = [b \in Bills |-> SweptStatus(sweep[s], b)]
  /\ age' = [b \in Bills |-> "fresh"]
  /\ sweep' = [sweep EXCEPT ![s] = Idle]
  /\ UNCHANGED <<tally, late, post, check>>

-----------------------------------------------------------------------------
(* The surroundings *)

(* An import that OMS gave up on is saved after all. *)
TallySavesLate(b) ==
  /\ late[b] > 0
  /\ late' = [late EXCEPT ![b] = @ - 1]
  /\ tally' = Append(tally, b)
  /\ UNCHANGED <<row, age, post, check, sweep>>

(* Time passes for a row.  An import ends within its 30 s, well before     *)
(* SETTLE_MS; a post ends within 100 s of its claim (import 30 s, two      *)
(* reads of at most 35 s), before STALE_MS.  SETTLE_MS itself rests on an  *)
(* assumption about Tally: what it has not saved by then it never saves.   *)
MayAge(b) ==
  \A p \in Posters :
    Working(p, Sending \cup Answered \cup Outcomes) /\ post[p].b = b =>
      /\ age[b] = "fresh"
      /\ post[p].at \in Answered \cup {"found", "failed"}
Grow(b) ==
  /\ row[b] \in {"POSTING", "UNKNOWN"}
  /\ age[b] # "stale"
  /\ MayAge(b)
  /\ age' = [age EXCEPT ![b] = IF @ = "fresh" THEN "settled" ELSE "stale"]
  /\ late' = [late EXCEPT ![b] = 0]
  /\ check' = [q \in Checkers |-> IF check[q] # Idle /\ check[q].b = b
                                  THEN [check[q] EXCEPT !.old = TRUE] ELSE check[q]]
  /\ UNCHANGED <<row, tally, post, sweep>>

(* The server stops; what it had sent may still be saved. *)
Restart ==
  /\ \E p \in Posters : post[p] # Idle
  /\ late' = [b \in Bills |->
       IF \E p \in Posters : Working(p, {"sent"}) /\ post[p].b = b
       THEN late[b] + 1 ELSE late[b]]
  /\ post' = [p \in Posters |-> Idle]
  /\ check' = [q \in Checkers |-> Idle]
  /\ sweep' = [s \in Sweepers |-> Idle]
  /\ UNCHANGED <<row, age, tally>>

Next ==
  \/ \E p \in Posters :
       \/ \E b \in Bills : StartPost(p, b)
       \/ LookInTally(p) \/ LookForPrevious(p) \/ GiveUp(p) \/ Claim(p)
       \/ Send(p) \/ TallySaves(p) \/ TallyDoesNotSave(p) \/ TimeOut(p)
       \/ ReadBack(p) \/ Conclude(p)
  \/ \E q \in Checkers :
       \/ \E b \in Bills : StartCheck(q, b)
       \/ LookAgain(q) \/ NotReachable(q) \/ SettleUnknown(q)
  \/ ListQueue
  \/ \E s \in Sweepers : SweepVouchers(s) \/ SweepRows(s) \/ SweepWrite(s)
  \/ \E b \in Bills : TallySavesLate(b) \/ Grow(b)
  \/ Restart

Spec == Init /\ [][Next]_vars

-----------------------------------------------------------------------------
(* Properties *)

(* Types. *)
TypeOK ==
  /\ row \in [Bills -> Statuses]
  /\ age \in [Bills -> Ages]
  /\ tally \in Seq(Bills)
  /\ late \in [Bills -> Nat]
  /\ post \in [Posters -> Posts]
  /\ check \in [Checkers -> Checks]
  /\ sweep \in [Sweepers -> Sweeps]

(* The voucher with a bill's number is that bill and no other: nothing is  *)
(* saved twice and no bill takes the number of another, whatever answers   *)
(* are lost and wherever the server stops (post: "The order is the         *)
(* safety").                                                               *)
NumbersPair == \A n \in DOMAIN tally : tally[n] = n

(* A bill said to be in Tally is there, and while one is said to be safe   *)
(* to post again (resolve: "Tally did not save it (checked). Safe to post  *)
(* again.") nothing is under way any more that could put it there: neither *)
(* a request that sends it nor an import given up on.  Whether it is there *)
(* already the row does not say: Tally may have saved it while resolve     *)
(* waited for the answer, and the next post looks again.                   *)
SaysWhatIsSo ==
  \A b \in Bills :
    /\ row[b] = "POSTED" => \E n \in DOMAIN tally : tally[n] = b
    /\ row[b] = "FAILED" =>
         late[b] = 0 /\ \A p \in Posters : Working(p, Sending) => post[p].b # b

(* Posting implements PostOnce: OMS is unsure while a row is POSTING or    *)
(* UNKNOWN.                                                                *)
Word == [b \in Bills |->
           CASE row[b] = "POSTED" -> "yes"
             [] row[b] \in {"POSTING", "UNKNOWN"} -> "unsure"
             [] OTHER -> "no"]
Abstract == INSTANCE PostOnce WITH books <- tally, word <- Word
PostsOnce == Abstract!Spec
=============================================================================
