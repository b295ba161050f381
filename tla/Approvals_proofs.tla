--------------------------- MODULE Approvals_proofs ---------------------------
(***************************************************************************)
(* Theorems about Approvals, for any requests, dispatches, days and users. *)
(***************************************************************************)
EXTENDS Approvals, TLAPS

(* Dispatch d can be what the replay of request a produced. *)
Fits(a, d) ==
  /\ dispatch[d].state # "unborn"
  /\ inbox[a].type = "BACKDATE" /\ d \in Shipped => dispatch[d].from = a

(* What is under way belongs to a request that was raised, of the type     *)
(* whose handler runs.                                                     *)
TaskFits(u) ==
  /\ at[u] \in Deciding \cup Marking => Held(u).status # "UNUSED"
  /\ at[u].step = "replay" => Held(u).type = "BACKDATE"
  /\ at[u].step \in {"redate", "write"} => Held(u).type = "DATE_CHANGE"
  /\ at[u].step = "mark" => Fits(at[u].entry, at[u].result)

ResultFits(a) ==
  inbox[a].status = "APPROVED" => inbox[a].result # None /\ Fits(a, inbox[a].result)

Consistent ==
  /\ TypeOK
  /\ \A u \in Users : TaskFits(u)
  /\ \A a \in Approvals : ResultFits(a)

-----------------------------------------------------------------------------
(* The step of a task tells its fields. *)
LEMMA TaskOf ==
  ASSUME TypeOK, NEW u \in Users
  PROVE  /\ at[u].step \in {"replay", "redate", "write", "reject"} => at[u] \in Deciding
         /\ at[u].step = "mark" => at[u] \in Marking
         /\ at[u].step = "move" => at[u] \in Moving
<1>1. at[u] \in {Idle} \cup Deciding \cup Marking \cup Moving
  BY DEF TypeOK
<1> QED  BY <1>1 DEF Idle, Deciding, Marking, Moving

(* A request that was raised has an action, a day and a result. *)
LEMMA EntryOf ==
  ASSUME TypeOK, NEW a \in Approvals
  PROVE  /\ inbox[a].status # "UNUSED" => inbox[a] \in Asked
         /\ inbox[a] # Unused => inbox[a] \in Asked
         /\ inbox[a] \in Asked => inbox[a].status # "UNUSED"
<1>1. inbox[a] \in {Unused} \cup Asked
  BY DEF TypeOK
<1> QED  BY <1>1 DEF Unused, Asked

(* A dispatch that is there has a day and an origin. *)
LEMMA RowOf ==
  ASSUME TypeOK, NEW d \in Shipped
  PROVE  dispatch[d] \in LiveRows /\ d \in Dispatches
<1>1. d \in Dispatches /\ dispatch[d].state = "live"
  BY DEF Shipped
<1>2. dispatch[d] \in [state: {"unborn", "gone"}] \cup LiveRows
  BY <1>1 DEF TypeOK
<1> QED  BY <1>1, <1>2

-----------------------------------------------------------------------------
(* What a step of the services may do to requests and dispatches: no       *)
(* request is forgotten or changes its type, and no dispatch is unmade or  *)
(* changes its origin.                                                     *)
History ==
  /\ \A a \in Approvals :
       inbox[a].status # "UNUSED" =>
         inbox'[a].status # "UNUSED" /\ inbox'[a].type = inbox[a].type
  /\ \A d \in Dispatches :
       dispatch[d].state # "unborn" =>
         /\ dispatch'[d].state # "unborn"
         /\ d \in Shipped' => d \in Shipped /\ dispatch'[d].from = dispatch[d].from

(* A step that keeps shapes and history keeps Consistent, given that what  *)
(* it starts or decides fits.                                              *)
LEMMA StepKeeps ==
  ASSUME Consistent, TypeOK', History,
         \A u \in Users : at'[u] = at[u] \/ TaskFits(u)',
         \A a \in Approvals :
           \/ ResultFits(a)'
           \/ inbox'[a].status = inbox[a].status /\ inbox'[a].result = inbox[a].result
           \/ inbox'[a].status # "APPROVED"
  PROVE  Consistent'
<1>0. TypeOK
  BY DEF Consistent
<1>1. ASSUME NEW u \in Users, at'[u] = at[u]
      PROVE  TaskFits(u)'
  <2> DEFINE a == at[u].entry  d == at[u].result
  <2>1. TaskFits(u)
    BY DEF Consistent
  <2>2. at[u].step \in {"replay", "redate", "write", "reject", "mark"}
          => at[u] \in Deciding \cup Marking
    BY <1>0, TaskOf
  <2>3. at[u] \in Deciding \cup Marking => a \in Approvals
    BY DEF Deciding, Marking
  <2>4. at[u].step = "mark" => d \in Dispatches
    BY <1>0, TaskOf DEF Marking
  <2>5. at[u].step = "mark" => Fits(at[u].entry, at[u].result)'
    <3> SUFFICES ASSUME at[u].step = "mark"
                 PROVE  Fits(a, d)'
      BY <1>1
    <3>1. Fits(a, d) /\ inbox[a].status # "UNUSED"
      BY <2>1, <2>2 DEF TaskFits, Held
    <3>2. inbox'[a].type = inbox[a].type
      BY <2>2, <2>3, <3>1 DEF History
    <3>3. /\ dispatch'[d].state # "unborn"
          /\ d \in Shipped' => d \in Shipped /\ dispatch'[d].from = dispatch[d].from
      BY <2>4, <3>1 DEF History, Fits
    <3> QED  BY <3>1, <3>2, <3>3, <1>1 DEF Fits
  <2> QED  BY <2>1, <2>2, <2>3, <2>5, <1>1 DEF TaskFits, Held, History
<1>2. ASSUME NEW a \in Approvals,
             inbox'[a].status = inbox[a].status, inbox'[a].result = inbox[a].result
      PROVE  ResultFits(a)'
  <2> DEFINE d == inbox[a].result
  <2> SUFFICES ASSUME inbox'[a].status = "APPROVED"
               PROVE  inbox'[a].result # None /\ Fits(a, d)'
    BY <1>2 DEF ResultFits, Fits
  <2>1. inbox[a].status = "APPROVED" /\ d # None /\ Fits(a, d)
    BY <1>2 DEF Consistent, ResultFits
  <2>2. d \in Dispatches
    BY <1>0, <2>1, EntryOf DEF Asked
  <2>3. inbox'[a].type = inbox[a].type
    BY <2>1 DEF History
  <2>4. /\ dispatch'[d].state # "unborn"
        /\ d \in Shipped' => d \in Shipped /\ dispatch'[d].from = dispatch[d].from
    BY <2>1, <2>2 DEF History, Fits
  <2> QED  BY <1>2, <2>1, <2>3, <2>4 DEF Fits
<1>3. \A a \in Approvals : inbox'[a].status # "APPROVED" => ResultFits(a)'
  BY DEF ResultFits
<1> QED  BY <1>1, <1>2, <1>3 DEF Consistent

(* What a user is about to write always belongs to the request it was read *)
(* from, and what a decided request names was produced for it, through     *)
(* every interleaving of approve, reject, remove and a restart.            *)
THEOREM ConsistentInv == Spec => []Consistent
<1> USE ApprovalsAssumption
<1>1. Init => Consistent
  BY DEF Init, Consistent, TypeOK, Unused, Asked, Idle, Deciding, Marking, Moving,
         TaskFits, ResultFits
<1>2. Consistent /\ [Next]_vars => Consistent'
  <2> SUFFICES ASSUME Consistent, [Next]_vars
               PROVE  Consistent'
    OBVIOUS
  <2>0. TypeOK
    BY DEF Consistent
  <2>1. ASSUME UNCHANGED vars
        PROVE  Consistent'
    BY <2>1 DEF vars, Consistent, TypeOK, TaskFits, ResultFits, Fits, Held, Shipped
  <2>2. ASSUME NEW a \in Approvals, NEW on \in Days, Submit(a, on)
        PROVE  Consistent'
    <3>1. TypeOK' /\ History
      BY <2>0, <2>2, EntryOf DEF Submit, TypeOK, Entry, Asked, Unused, History, Shipped
    <3>2. at' = at /\ \A b \in Approvals : b # a => inbox'[b] = inbox[b]
      BY <2>0, <2>2 DEF Submit, TypeOK
    <3>3. inbox'[a].status # "APPROVED"
      BY <2>0, <2>2 DEF Submit, TypeOK, Entry
    <3> QED  BY <3>1, <3>2, <3>3, StepKeeps
  <2>3. ASSUME NEW a \in Approvals, NEW d \in Dispatches, NEW on \in Days,
               AskMove(a, d, on)
        PROVE  Consistent'
    <3>1. TypeOK' /\ History
      BY <2>0, <2>3, EntryOf DEF AskMove, TypeOK, Entry, Asked, Unused, History, Shipped
    <3>2. at' = at /\ \A b \in Approvals : b # a => inbox'[b] = inbox[b]
      BY <2>0, <2>3 DEF AskMove, TypeOK
    <3>3. inbox'[a].status # "APPROVED"
      BY <2>0, <2>3 DEF AskMove, TypeOK, Entry
    <3> QED  BY <3>1, <3>2, <3>3, StepKeeps
  <2>4. ASSUME NEW d \in Dispatches, NEW on \in Days, Create(d, on)
        PROVE  Consistent'
    <3>1. TypeOK' /\ History
      BY <2>0, <2>4 DEF Create, Record, TypeOK, LiveRows, History, Shipped
    <3>2. at' = at /\ inbox' = inbox
      BY <2>4 DEF Create
    <3> QED  BY <3>1, <3>2, StepKeeps
  <2>5. ASSUME NEW d \in Dispatches, Delete(d)
        PROVE  Consistent'
    <3>1. TypeOK' /\ History
      BY <2>0, <2>5 DEF Delete, TypeOK, History, Shipped
    <3>2. at' = at /\ inbox' = inbox
      BY <2>5 DEF Delete
    <3> QED  BY <3>1, <3>2, StepKeeps
  <2>6. ASSUME NEW u \in Users, NEW d \in Dispatches, NEW on \in Days,
               ReadMove(u, d, on)
        PROVE  Consistent'
    <3>1. TypeOK' /\ History
      BY <2>0, <2>6 DEF ReadMove, Begin, TypeOK, Moving, History, Shipped
    <3>2. inbox' = inbox /\ \A v \in Users : v # u => at'[v] = at[v]
      BY <2>0, <2>6 DEF ReadMove, Begin, TypeOK
    <3>3. TaskFits(u)'
      BY <2>0, <2>6 DEF ReadMove, Begin, TypeOK, TaskFits, Deciding, Marking
    <3> QED  BY <3>1, <3>2, <3>3, StepKeeps
  <2>7. ASSUME NEW u \in Users, WriteMove(u)
        PROVE  Consistent'
    <3>0. at[u] \in Moving /\ dispatch[at[u].dispatch] \in LiveRows
      BY <2>0, <2>7, TaskOf, RowOf DEF WriteMove, Resume
    <3>1. TypeOK' /\ History
      BY <2>0, <2>7, <3>0
         DEF WriteMove, Redate, Go, TypeOK, Moving, LiveRows, History, Shipped
    <3>2. inbox' = inbox /\ \A v \in Users : v # u => at'[v] = at[v]
      BY <2>0, <2>7 DEF WriteMove, Go, TypeOK
    <3>3. TaskFits(u)'
      BY <2>0, <2>7 DEF WriteMove, Go, TypeOK, TaskFits, Idle, Deciding, Marking
    <3> QED  BY <3>1, <3>2, <3>3, StepKeeps
  <2>8. ASSUME NEW u \in Users, NEW a \in Approvals, ReadApprove(u, a)
        PROVE  Consistent'
    <3>0. inbox[a] \in Asked
      BY <2>0, <2>8, EntryOf DEF ReadApprove, Pending
    <3>1. TypeOK' /\ History
      BY <2>0, <2>8 DEF ReadApprove, Begin, TypeOK, Deciding, History, Shipped
    <3>2. inbox' = inbox /\ \A v \in Users : v # u => at'[v] = at[v]
      BY <2>0, <2>8 DEF ReadApprove, Begin, TypeOK
    <3>3. TaskFits(u)'
      BY <2>0, <2>8, <3>0
         DEF ReadApprove, Begin, Pending, TypeOK, TaskFits, Held, Asked
    <3> QED  BY <3>1, <3>2, <3>3, StepKeeps
  <2>9. ASSUME NEW u \in Users, NEW a \in Approvals, ReadReject(u, a)
        PROVE  Consistent'
    <3>1. TypeOK' /\ History
      BY <2>0, <2>9 DEF ReadReject, Begin, TypeOK, Deciding, History, Shipped
    <3>2. inbox' = inbox /\ \A v \in Users : v # u => at'[v] = at[v]
      BY <2>0, <2>9 DEF ReadReject, Begin, TypeOK
    <3>3. TaskFits(u)'
      BY <2>0, <2>9 DEF ReadReject, Begin, Pending, TypeOK, TaskFits, Held
    <3> QED  BY <3>1, <3>2, <3>3, StepKeeps
  <2>10. ASSUME NEW u \in Users, NEW d \in Dispatches, ReplayBackdate(u, d)
         PROVE  Consistent'
    <3>0. /\ at[u] \in Deciding /\ at[u].entry \in Approvals
          /\ Held(u) \in Asked /\ Held(u).type = "BACKDATE"
      <4>1. at[u] \in Deciding
        BY <2>0, <2>10, TaskOf DEF ReplayBackdate, Resume
      <4> QED  BY <2>0, <2>10, <4>1, EntryOf
               DEF ReplayBackdate, Resume, Consistent, TaskFits, Held, Deciding
    <3>1. TypeOK' /\ History
      BY <2>0, <2>10, <3>0
         DEF ReplayBackdate, Record, Go, TypeOK, Marking, LiveRows, Asked, History, Shipped
    <3>2. inbox' = inbox /\ \A v \in Users : v # u => at'[v] = at[v]
      BY <2>0, <2>10 DEF ReplayBackdate, Go, TypeOK
    <3>3. TaskFits(u)'
      BY <2>0, <2>10, <3>0, EntryOf
         DEF ReplayBackdate, Record, Go, TypeOK, TaskFits, Held, Fits
    <3> QED  BY <3>1, <3>2, <3>3, StepKeeps
  <2>11. ASSUME NEW u \in Users, CheckDateChange(u)
         PROVE  Consistent'
    <3>0. /\ at[u] \in Deciding /\ at[u].entry \in Approvals
          /\ Held(u).status # "UNUSED" /\ Held(u).type = "DATE_CHANGE"
      <4>1. at[u] \in Deciding
        BY <2>0, <2>11, TaskOf DEF CheckDateChange, Resume
      <4> QED  BY <2>11, <4>1
               DEF CheckDateChange, Resume, Consistent, TaskFits, Deciding
    <3>1. TypeOK' /\ History
      BY <2>0, <2>11, <3>0 DEF CheckDateChange, Go, TypeOK, Deciding, History, Shipped
    <3>2. inbox' = inbox /\ \A v \in Users : v # u => at'[v] = at[v]
      BY <2>0, <2>11 DEF CheckDateChange, Go, TypeOK
    <3>3. TaskFits(u)'
      BY <2>0, <2>11, <3>0 DEF CheckDateChange, Go, TypeOK, TaskFits, Held
    <3> QED  BY <3>1, <3>2, <3>3, StepKeeps
  <2>12. ASSUME NEW u \in Users, WriteDateChange(u)
         PROVE  Consistent'
    <3>0. /\ at[u] \in Deciding /\ at[u].entry \in Approvals
          /\ Held(u) \in Asked /\ Held(u).type = "DATE_CHANGE"
      <4>1. at[u] \in Deciding
        BY <2>0, <2>12, TaskOf DEF WriteDateChange, Resume
      <4> QED  BY <2>0, <2>12, <4>1, EntryOf
               DEF WriteDateChange, Resume, Consistent, TaskFits, Held, Deciding
    <3>a. Held(u).dispatch \in Dispatches /\ dispatch[Held(u).dispatch] \in LiveRows
      BY <2>0, <2>12, RowOf DEF WriteDateChange
    <3>1. TypeOK' /\ History
      BY <2>0, <2>12, <3>0, <3>a
         DEF WriteDateChange, Redate, Go, TypeOK, Marking, LiveRows, Asked, History, Shipped
    <3>2. inbox' = inbox /\ \A v \in Users : v # u => at'[v] = at[v]
      BY <2>0, <2>12 DEF WriteDateChange, Go, TypeOK
    <3>3. TaskFits(u)'
      BY <2>0, <2>12, <3>0, <3>a, EntryOf
         DEF WriteDateChange, Redate, Go, TypeOK, TaskFits, Held, Fits, LiveRows
    <3> QED  BY <3>1, <3>2, <3>3, StepKeeps
  <2>13. ASSUME NEW u \in Users, MarkApproved(u)
         PROVE  Consistent'
    <3> DEFINE a == at[u].entry  d == at[u].result
    <3>0. at[u] \in Marking /\ a \in Approvals /\ d \in Dispatches
      BY <2>0, <2>13, TaskOf DEF MarkApproved, Resume, Marking
    <3>a. inbox[a] \in Asked /\ Fits(a, d)
      BY <2>0, <2>13, <3>0, EntryOf DEF MarkApproved, Resume, Consistent, TaskFits, Held
    <3>b. inbox' = [inbox EXCEPT ![a].status = "APPROVED", ![a].result = d]
      BY <2>13 DEF MarkApproved
    <3>c. dispatch' = dispatch /\ at' = [at EXCEPT ![u] = Idle]
      BY <2>13 DEF MarkApproved, Go
    <3>1. TypeOK' /\ History
      BY <2>0, <3>0, <3>a, <3>b, <3>c DEF TypeOK, Asked, History, Shipped
    <3>2. TaskFits(u)' /\ \A v \in Users : v # u => at'[v] = at[v]
      BY <2>0, <3>c DEF TypeOK, TaskFits, Idle, Deciding, Marking
    <3>3. \A b \in Approvals : b # a => inbox'[b] = inbox[b]
      BY <2>0, <3>b DEF TypeOK
    <3>4. /\ inbox'[a].status = "APPROVED" /\ inbox'[a].result = d
          /\ inbox'[a].type = inbox[a].type
      BY <2>0, <3>0, <3>a, <3>b DEF TypeOK, Asked
    <3>5. \A b \in Approvals : b = a => ResultFits(b)'
      BY <3>0, <3>a, <3>c, <3>4 DEF ResultFits, Fits, Shipped
    <3> QED  BY <3>1, <3>2, <3>3, <3>5, StepKeeps
  <2>14. ASSUME NEW u \in Users, WriteReject(u)
         PROVE  Consistent'
    <3> DEFINE a == at[u].entry
    <3>0. at[u] \in Deciding /\ a \in Approvals
      BY <2>0, <2>14, TaskOf DEF WriteReject, Resume, Deciding
    <3>a. inbox[a] \in Asked
      BY <2>0, <2>14, <3>0, EntryOf DEF Consistent, TaskFits, Held
    <3>b. inbox' = [inbox EXCEPT ![a].status = "REJECTED"]
      BY <2>14 DEF WriteReject
    <3>c. dispatch' = dispatch /\ at' = [at EXCEPT ![u] = Idle]
      BY <2>14 DEF WriteReject, Go
    <3>1. TypeOK' /\ History
      BY <2>0, <3>0, <3>a, <3>b, <3>c DEF TypeOK, Asked, History, Shipped
    <3>2. TaskFits(u)' /\ \A v \in Users : v # u => at'[v] = at[v]
      BY <2>0, <3>c DEF TypeOK, TaskFits, Idle, Deciding, Marking
    <3>3. \A b \in Approvals : b # a => inbox'[b] = inbox[b]
      BY <2>0, <3>b DEF TypeOK
    <3>4. inbox'[a].status # "APPROVED"
      BY <2>0, <3>0, <3>a, <3>b DEF TypeOK, Asked
    <3> QED  BY <3>1, <3>2, <3>3, <3>4, StepKeeps
  <2>15. ASSUME NEW a \in Approvals, Discard(a)
         PROVE  Consistent'
    <3>a. inbox[a] \in Asked
      BY <2>0, <2>15, EntryOf DEF Discard
    <3>1. TypeOK' /\ History
      BY <2>0, <2>15, <3>a DEF Discard, TypeOK, Asked, History, Shipped
    <3>2. at' = at /\ \A b \in Approvals : b # a => inbox'[b] = inbox[b]
      BY <2>0, <2>15 DEF Discard, TypeOK
    <3>3. inbox'[a].status # "APPROVED"
      BY <2>0, <2>15, <3>a DEF Discard, TypeOK, Asked
    <3> QED  BY <3>1, <3>2, <3>3, StepKeeps
  <2>16. ASSUME NEW u \in Users, Refuse(u)
         PROVE  Consistent'
    <3>1. TypeOK' /\ History
      BY <2>0, <2>16 DEF Refuse, Go, TypeOK, History, Shipped
    <3>2. inbox' = inbox /\ \A v \in Users : v # u => at'[v] = at[v]
      BY <2>0, <2>16 DEF Refuse, Go, TypeOK
    <3>3. TaskFits(u)'
      BY <2>0, <2>16 DEF Refuse, Go, TypeOK, TaskFits, Idle, Deciding, Marking
    <3> QED  BY <3>1, <3>2, <3>3, StepKeeps
  <2>17. ASSUME Restart
         PROVE  Consistent'
    <3>1. TypeOK' /\ History
      BY <2>0, <2>17 DEF Restart, TypeOK, History, Shipped
    <3>2. inbox' = inbox /\ \A v \in Users : TaskFits(v)'
      BY <2>17 DEF Restart, TaskFits, Idle, Deciding, Marking
    <3> QED  BY <3>1, <3>2, StepKeeps
  <2>a. CASE DispatchStep
    BY <2>a, <2>4, <2>5, <2>6, <2>7, Zenon DEF DispatchStep
  <2>b. CASE InboxStep
    BY <2>b, <2>2, <2>3, <2>8, <2>9, <2>10, <2>11, <2>12, <2>13, <2>14, <2>15, Zenon
       DEF InboxStep
  <2> QED  BY <2>a, <2>b, <2>16, <2>17, <2>1, Zenon DEF Next
<1> QED  BY <1>1, <1>2, PTL DEF Spec

(* Requests, dispatches and what is under way keep their shape through     *)
(* every step of the approvals and dispatch services.                      *)
THEOREM TypeCorrect == Spec => []TypeOK
<1>1. Consistent => TypeOK
  BY DEF Consistent
<1> QED  BY <1>1, ConsistentInv, PTL

(* An approved request names the dispatch its handler produced, although   *)
(* replay and mark are apart, approvers race, requests are deleted and     *)
(* servers restart (ApprovalsService.approve).                             *)
THEOREM ApprovedHasResult == Spec => []ApprovedWasApplied
<1>1. Consistent => ApprovedWasApplied
  BY DEF Consistent, ResultFits, Fits, ApprovedWasApplied
<1> QED  BY <1>1, ConsistentInv, PTL

-----------------------------------------------------------------------------
NothingMoves == "askMove" \notin Operations /\ "move" \notin Operations

(* While nothing moves, a replayed dispatch stays on the day of its        *)
(* request, and there is nothing else to approve.                          *)
DayKept ==
  /\ \A a \in Approvals : inbox[a].status # "UNUSED" => inbox[a].type = "BACKDATE"
  /\ \A u \in Users : at[u].step # "move"
  /\ \A d \in Shipped :
       dispatch[d].from # None =>
         /\ inbox[dispatch[d].from].status # "UNUSED"
         /\ dispatch[d].day = inbox[dispatch[d].from].day

Unrepeated == NoDoubleEntry /\ DayKept

(* Where nothing is moved to another day, no dispatch is entered twice and *)
(* a request produces at most one dispatch, however many users approve it  *)
(* at once or again after a restart (create's duplicate check).            *)
THEOREM NothingEnteredTwice ==
  NothingMoves => (Spec => [](NoDoubleEntry /\ AppliedOnce))
<1> SUFFICES ASSUME NothingMoves
             PROVE  Spec => [](NoDoubleEntry /\ AppliedOnce)
  OBVIOUS
<1> USE ApprovalsAssumption
<1>1. Init => Unrepeated
  BY DEF Init, Unrepeated, NoDoubleEntry, DayKept, Unused, Idle, Shipped
<1>2. Consistent /\ Unrepeated /\ [Next]_vars => Unrepeated'
  <2> SUFFICES ASSUME Consistent, Unrepeated, [Next]_vars
               PROVE  Unrepeated'
    OBVIOUS
  <2>0. TypeOK
    BY DEF Consistent
  <2>t. ASSUME NEW u \in Users, at[u].step \in {"redate", "write"}
        PROVE  FALSE
    <3>1. at[u] \in Deciding /\ at[u].entry \in Approvals
      BY <2>0, <2>t, TaskOf DEF Deciding
    <3>2. Held(u).status # "UNUSED" /\ Held(u).type = "DATE_CHANGE"
      BY <2>t, <3>1 DEF Consistent, TaskFits
    <3> QED  BY <3>1, <3>2 DEF Unrepeated, DayKept, Held
  (* A step of the inbox: it raises a request, or keeps type and day.      *)
  <2>1. ASSUME dispatch' = dispatch,
               \A u \in Users : at'[u].step # "move",
               \A a \in Approvals :
                 /\ inbox'[a].status # "UNUSED" => inbox'[a].type = "BACKDATE"
                 /\ inbox[a].status # "UNUSED" =>
                      inbox'[a].status # "UNUSED" /\ inbox'[a].day = inbox[a].day
        PROVE  Unrepeated'
    <3>1. \A d \in Shipped : dispatch[d].from \in Approvals \cup {None}
      BY <2>0, RowOf DEF LiveRows
    <3> QED  BY <2>1, <3>1 DEF Unrepeated, NoDoubleEntry, DayKept, Shipped
  (* A step that records a dispatch, or none. *)
  <2>2. ASSUME NEW d \in Dispatches, NEW on, NEW from \in Approvals \cup {None},
               Record(d, on, from), inbox' = inbox,
               from # None => inbox[from].status # "UNUSED" /\ on = inbox[from].day,
               \A u \in Users : at'[u].step # "move"
        PROVE  Unrepeated'
    <3>1. /\ dispatch'[d] = [state |-> "live", day |-> on, from |-> from]
          /\ \A e \in Dispatches : e # d => dispatch'[e] = dispatch[e]
      BY <2>0, <2>2 DEF Record, TypeOK
    <3>2. Shipped' = Shipped \cup {d} /\ d \notin Shipped
      BY <2>2, <3>1 DEF Record, Shipped
    <3>3. \A e \in Shipped : dispatch[e].day # on /\ dispatch'[e] = dispatch[e]
      BY <2>2, <3>1, <3>2 DEF Record, NoTwin, Shipped
    <3> QED  BY <2>2, <3>1, <3>2, <3>3 DEF Unrepeated, NoDoubleEntry, DayKept
  <2>3. CASE UNCHANGED vars
    BY <2>3 DEF vars, Unrepeated, NoDoubleEntry, DayKept, Shipped
  <2>4. ASSUME NEW a \in Approvals, NEW on \in Days, Submit(a, on)
        PROVE  Unrepeated'
    BY <2>0, <2>1, <2>4
       DEF Submit, Entry, Unused, TypeOK, Unrepeated, DayKept
  <2>5. ASSUME NEW a \in Approvals, Discard(a)
        PROVE  Unrepeated'
    <3>1. inbox[a] \in Asked
      BY <2>0, <2>5, EntryOf DEF Discard
    <3>2. /\ inbox'[a].type = inbox[a].type /\ inbox'[a].day = inbox[a].day
          /\ inbox'[a].status = "DELETED"
          /\ \A b \in Approvals : b # a => inbox'[b] = inbox[b]
      BY <2>0, <2>5, <3>1 DEF Discard, TypeOK, Asked
    <3> QED  BY <2>1, <2>5, <3>2 DEF Discard, Unrepeated, DayKept
  <2>6. ASSUME NEW u \in Users, MarkApproved(u)
        PROVE  Unrepeated'
    <3> DEFINE a == at[u].entry
    <3>1. a \in Approvals
      BY <2>0, <2>6, TaskOf DEF MarkApproved, Resume, Marking
    <3>2. inbox[a] \in Asked
      BY <2>0, <2>6, <3>1, TaskOf, EntryOf
         DEF MarkApproved, Resume, Consistent, TaskFits, Held
    <3>3. /\ inbox' = [inbox EXCEPT ![a].status = "APPROVED", ![a].result = at[u].result]
          /\ dispatch' = dispatch /\ at' = [at EXCEPT ![u] = Idle]
      BY <2>6 DEF MarkApproved, Go
    <3>4. /\ inbox'[a].type = inbox[a].type /\ inbox'[a].day = inbox[a].day
          /\ inbox'[a].status = "APPROVED"
          /\ \A b \in Approvals : b # a => inbox'[b] = inbox[b]
      BY <2>0, <3>1, <3>2, <3>3 DEF TypeOK, Asked
    <3>5. \A v \in Users : at'[v].step # "move"
      BY <2>0, <3>3 DEF TypeOK, Idle, Unrepeated, DayKept
    <3>6. inbox[a].status # "UNUSED" /\ inbox[a].type = "BACKDATE"
      BY <3>1, <3>2, EntryOf, <2>0 DEF Unrepeated, DayKept
    <3>7. \A b \in Approvals :
            /\ inbox'[b].status # "UNUSED" => inbox'[b].type = "BACKDATE"
            /\ inbox[b].status # "UNUSED" =>
                 inbox'[b].status # "UNUSED" /\ inbox'[b].day = inbox[b].day
      BY <3>4, <3>6 DEF Unrepeated, DayKept
    <3> QED  BY <2>1, <3>3, <3>5, <3>7
  <2>7. ASSUME NEW u \in Users, WriteReject(u)
        PROVE  Unrepeated'
    <3> DEFINE a == at[u].entry
    <3>1. at[u] \in Deciding /\ a \in Approvals
      BY <2>0, <2>7, TaskOf DEF WriteReject, Resume, Deciding
    <3>2. inbox[a] \in Asked
      BY <2>0, <3>1, EntryOf DEF Consistent, TaskFits, Held
    <3>3. /\ inbox' = [inbox EXCEPT ![a].status = "REJECTED"]
          /\ dispatch' = dispatch /\ at' = [at EXCEPT ![u] = Idle]
      BY <2>7 DEF WriteReject, Go
    <3>4. /\ inbox'[a].type = inbox[a].type /\ inbox'[a].day = inbox[a].day
          /\ inbox'[a].status = "REJECTED"
          /\ \A b \in Approvals : b # a => inbox'[b] = inbox[b]
      BY <2>0, <3>1, <3>2, <3>3 DEF TypeOK, Asked
    <3>5. \A v \in Users : at'[v].step # "move"
      BY <2>0, <3>3 DEF TypeOK, Idle, Unrepeated, DayKept
    <3>6. inbox[a].status # "UNUSED" /\ inbox[a].type = "BACKDATE"
      BY <3>1, <3>2, EntryOf, <2>0 DEF Unrepeated, DayKept
    <3>7. \A b \in Approvals :
            /\ inbox'[b].status # "UNUSED" => inbox'[b].type = "BACKDATE"
            /\ inbox[b].status # "UNUSED" =>
                 inbox'[b].status # "UNUSED" /\ inbox'[b].day = inbox[b].day
      BY <3>4, <3>6 DEF Unrepeated, DayKept
    <3> QED  BY <2>1, <3>3, <3>5, <3>7
  <2>8. ASSUME NEW u \in Users, NEW a \in Approvals,
               ReadApprove(u, a) \/ ReadReject(u, a)
        PROVE  Unrepeated'
    <3>1. UNCHANGED <<inbox, dispatch>> /\ \A v \in Users : at'[v].step # "move"
      BY <2>0, <2>8 DEF ReadApprove, ReadReject, Begin, TypeOK, Unrepeated, DayKept
    <3> QED  BY <2>1, <3>1 DEF Unrepeated, DayKept
  <2>9. ASSUME NEW u \in Users, Refuse(u)
        PROVE  Unrepeated'
    <3>1. UNCHANGED <<inbox, dispatch>> /\ \A v \in Users : at'[v].step # "move"
      BY <2>0, <2>9 DEF Refuse, Go, Idle, TypeOK, Unrepeated, DayKept
    <3> QED  BY <2>1, <3>1 DEF Unrepeated, DayKept
  <2>10. ASSUME Restart
         PROVE  Unrepeated'
    BY <2>1, <2>10 DEF Restart, Idle, Unrepeated, DayKept
  <2>11. ASSUME NEW d \in Dispatches, NEW on \in Days, Create(d, on)
         PROVE  Unrepeated'
    BY <2>2, <2>11 DEF Create, Unrepeated, DayKept
  <2>12. ASSUME NEW u \in Users, NEW d \in Dispatches, ReplayBackdate(u, d)
         PROVE  Unrepeated'
    <3>1. at[u] \in Deciding /\ at[u].entry \in Approvals
      BY <2>0, <2>12, TaskOf DEF ReplayBackdate, Resume, Deciding
    <3>2. Held(u).status # "UNUSED"
      BY <3>1 DEF Consistent, TaskFits
    <3>3. \A v \in Users : at'[v].step # "move"
      BY <2>0, <2>12 DEF ReplayBackdate, Go, TypeOK, Unrepeated, DayKept
    <3>4. Record(d, Held(u).day, at[u].entry) /\ inbox' = inbox
      BY <2>12 DEF ReplayBackdate
    <3> QED  BY <2>2, <3>1, <3>2, <3>3, <3>4 DEF Held
  <2>13. ASSUME NEW d \in Dispatches, Delete(d)
         PROVE  Unrepeated'
    <3>1. /\ \A e \in Shipped' : e \in Shipped /\ dispatch'[e] = dispatch[e]
          /\ inbox' = inbox /\ at' = at
      BY <2>0, <2>13 DEF Delete, Shipped, TypeOK
    <3> QED  BY <3>1 DEF Unrepeated, NoDoubleEntry, DayKept
  (* The steps that move a dispatch cannot be taken. *)
  <2>14. ASSUME NEW u \in Users,
                \/ CheckDateChange(u) \/ WriteDateChange(u) \/ WriteMove(u)
                \/ \E d \in Dispatches, on \in Days : ReadMove(u, d, on)
         PROVE  FALSE
    BY <2>14, <2>t DEF CheckDateChange, WriteDateChange, WriteMove, ReadMove, Resume, NothingMoves, Unrepeated, DayKept
  <2>15. ASSUME NEW a \in Approvals, NEW d \in Dispatches, NEW on \in Days,
                AskMove(a, d, on)
         PROVE  FALSE
    BY <2>15 DEF AskMove, NothingMoves
  <2>16. CASE DispatchStep
    BY <2>16, <2>11, <2>13, <2>14, Zenon DEF DispatchStep
  <2>17. CASE InboxStep
    BY <2>17, <2>4, <2>5, <2>6, <2>7, <2>8, <2>12, <2>14, <2>15, Zenon DEF InboxStep
  <2> QED  BY <2>3, <2>9, <2>10, <2>16, <2>17, Zenon DEF Next
<1>3. Consistent /\ Unrepeated => NoDoubleEntry /\ AppliedOnce
  <2> SUFFICES ASSUME Consistent, Unrepeated
               PROVE  AppliedOnce
    BY DEF Unrepeated
  <2>1. ASSUME NEW d \in Shipped, NEW e \in Shipped, d # e,
               dispatch[d].from # None, dispatch[d].from = dispatch[e].from
        PROVE  FALSE
    BY <2>1 DEF Unrepeated, NoDoubleEntry, DayKept
  <2> QED  BY <2>1 DEF AppliedOnce
<1> QED  BY <1>1, <1>2, <1>3, ConsistentInv, PTL DEF Spec

-----------------------------------------------------------------------------
(* One user who decides at a time, and is never interrupted.               *)

(* What is being decided is pending, or deleted meanwhile; and what was    *)
(* made for a request was made by its approval, which marks it next if it  *)
(* has not yet. *)
Unmade ==
  /\ \A u \in Users :
       at[u].step \in {"replay", "redate", "write", "mark", "reject"} =>
         Held(u).status \in {"PENDING", "DELETED"}
  /\ \A d \in Shipped, a \in Approvals :
       dispatch[d].from = a =>
         \/ inbox[a].status \in {"APPROVED", "DELETED"}
         \/ /\ inbox[a].status = "PENDING"
            /\ \E u \in Users : at[u].step = "mark" /\ at[u].entry = a

(* A task that goes on, where requests stay as they are. *)
LEMMA TaskKeepsUnmade ==
  ASSUME Unmade, NEW u \in Users, \A v \in Users : v = u, inbox' = inbox,
         at'[u].step \in {"replay", "redate", "write", "mark", "reject"} =>
           inbox[at'[u].entry].status \in {"PENDING", "DELETED"},
         at[u].step = "mark" => Held(u).status = "DELETED",
         \A d \in Shipped' :
           \/ d \in Shipped /\ dispatch'[d].from = dispatch[d].from
           \/ dispatch'[d].from \notin Approvals
           \/ at'[u].step = "mark" /\ dispatch'[d].from = at'[u].entry
  PROVE  Unmade'
<1>1. \A v \in Users :
        at'[v].step \in {"replay", "redate", "write", "mark", "reject"} =>
          Held(v)'.status \in {"PENDING", "DELETED"}
  BY DEF Held
<1>2. ASSUME NEW d \in Shipped', NEW a \in Approvals, dispatch'[d].from = a
      PROVE  \/ inbox[a].status \in {"APPROVED", "DELETED"}
             \/ inbox[a].status = "PENDING" /\ at'[u].step = "mark" /\ at'[u].entry = a
  <2>1. CASE d \in Shipped /\ dispatch'[d].from = dispatch[d].from
    BY <1>2, <2>1 DEF Unmade, Held
  <2>2. CASE at'[u].step = "mark" /\ dispatch'[d].from = at'[u].entry
    BY <1>2, <2>2
  <2> QED  BY <1>2, <2>1, <2>2
<1> QED  BY <1>1, <1>2 DEF Unmade

(* A request that is raised, decided or deleted, where nobody works on a   *)
(* dispatch. *)
LEMMA InboxKeepsUnmade ==
  ASSUME TypeOK, Unmade, NEW a \in Approvals, dispatch' = dispatch,
         \A b \in Approvals \ {a} : inbox'[b] = inbox[b],
         inbox'[a].status \in {"PENDING", "DELETED", "APPROVED"} \/
           (inbox[a].status = "PENDING" /\ \A v \in Users : at[v].step # "mark"),
         inbox'[a].status = "PENDING" => inbox[a].status = "UNUSED",
         \A v \in Users :
           \/ at'[v] = Idle /\ (at[v].step = "mark" => at[v].entry = a)
           \/ at'[v] = at[v] /\ inbox'[a].status \in {"PENDING", "DELETED"}
  PROVE  Unmade'
<1>1. ASSUME NEW v \in Users,
             at'[v].step \in {"replay", "redate", "write", "mark", "reject"}
      PROVE  Held(v)'.status \in {"PENDING", "DELETED"}
  <2>1. at'[v] = at[v] /\ inbox'[a].status \in {"PENDING", "DELETED"}
    BY <1>1 DEF Idle
  <2>2. at[v].entry \in Approvals
    BY <1>1, <2>1, TaskOf DEF Deciding, Marking
  <2>3. inbox[at[v].entry].status \in {"PENDING", "DELETED"}
    BY <1>1, <2>1 DEF Unmade, Held
  <2> QED  BY <2>1, <2>2, <2>3 DEF Held
<1>2. ASSUME NEW d \in Shipped, NEW b \in Approvals, dispatch[d].from = b
      PROVE  \/ inbox'[b].status \in {"APPROVED", "DELETED"}
             \/ /\ inbox'[b].status = "PENDING"
                /\ \E v \in Users : at'[v].step = "mark" /\ at'[v].entry = b
  <2>1. \/ inbox[b].status \in {"APPROVED", "DELETED"}
        \/ /\ inbox[b].status = "PENDING"
           /\ \E v \in Users : at[v].step = "mark" /\ at[v].entry = b
    BY <1>2 DEF Unmade
  <2> QED  BY <2>1
<1> QED  BY <1>1, <1>2 DEF Unmade, Shipped

(* Where one user decides at a time and the server does not restart in     *)
(* between, no dispatch is made for a request that ends up rejected.  The  *)
(* run ApprovalsReject shows that two users who decide at once break it;   *)
(* a restart between replay and mark leaves the request pending, to be     *)
(* rejected later. *)
THEOREM RejectedIsUnmade ==
  ASSUME \A u, v \in Users : u = v, "restart" \notin Operations
  PROVE  Spec => []RejectedNeverExisted
<1> USE ApprovalsAssumption
<1>1. Init => Unmade
  BY DEF Init, Unmade, Idle, Shipped
<1>2. Consistent /\ Unmade /\ [Next]_vars => Unmade'
  <2> SUFFICES ASSUME Consistent, Unmade, [Next]_vars
               PROVE  Unmade'
    OBVIOUS
  <2>0. TypeOK
    BY DEF Consistent
  <2>1. CASE UNCHANGED vars
    BY <2>1 DEF vars, Unmade, Held, Shipped
  <2>2. ASSUME NEW a \in Approvals, NEW on \in Days,
               Submit(a, on) \/ \E d \in Dispatches : AskMove(a, d, on)
        PROVE  Unmade'
    <3>1. /\ dispatch' = dispatch /\ at' = at /\ inbox[a].status = "UNUSED"
          /\ \A b \in Approvals \ {a} : inbox'[b] = inbox[b]
          /\ inbox'[a].status = "PENDING"
      BY <2>0, <2>2 DEF Submit, AskMove, TypeOK, Entry, Unused
    <3> QED  BY <2>0, <3>1, InboxKeepsUnmade
  <2>3. ASSUME NEW a \in Approvals, Discard(a)
        PROVE  Unmade'
    <3>1. inbox[a] \in Asked
      BY <2>0, <2>3, EntryOf DEF Discard
    <3>2. /\ dispatch' = dispatch /\ at' = at
          /\ \A b \in Approvals \ {a} : inbox'[b] = inbox[b]
          /\ inbox'[a].status = "DELETED"
      BY <2>0, <2>3, <3>1 DEF Discard, TypeOK, Asked
    <3> QED  BY <2>0, <3>2, InboxKeepsUnmade
  <2>4. ASSUME NEW d \in Dispatches, Delete(d) \/ \E on \in Days : Create(d, on)
        PROVE  Unmade'
    <3>1. /\ at' = at /\ inbox' = inbox
          /\ \A e \in Shipped' : \/ e \in Shipped /\ dispatch'[e].from = dispatch[e].from
                                 \/ dispatch'[e].from = None
      <4>1. CASE Delete(d)
        BY <2>0, <4>1 DEF Delete, TypeOK, Shipped
      <4>2. ASSUME NEW on \in Days, Create(d, on)
            PROVE  /\ at' = at /\ inbox' = inbox
                   /\ dispatch'[d].from = None
                   /\ \A e \in Dispatches \ {d} : dispatch'[e] = dispatch[e]
        BY <2>0, <4>2 DEF Create, Record, TypeOK
      <4> QED  BY <2>4, <4>1, <4>2 DEF Shipped
    <3> QED  BY <3>1 DEF Unmade, Held
  <2>5. ASSUME NEW u \in Users, NEW d \in Dispatches, NEW on \in Days, ReadMove(u, d, on)
        PROVE  Unmade'
    <3>1. /\ inbox' = inbox /\ dispatch' = dispatch
          /\ at[u].step = "idle" /\ at'[u].step = "move"
      BY <2>0, <2>5 DEF ReadMove, Begin, TypeOK, Idle
    <3> QED  BY <3>1, TaskKeepsUnmade DEF Shipped
  <2>6. ASSUME NEW u \in Users, WriteMove(u) \/ Refuse(u)
        PROVE  Unmade'
    <3>1. at[u].step = "mark" => Refuse(u) /\ Held(u).status = "DELETED"
      BY <2>6 DEF WriteMove, Refuse, Resume
    <3>2. inbox' = inbox /\ at'[u] = Idle
      BY <2>0, <2>6 DEF WriteMove, Refuse, Go, TypeOK
    <3>3. \A d \in Shipped' : d \in Shipped /\ dispatch'[d].from = dispatch[d].from
      <4>1. CASE WriteMove(u)
        <5>1. dispatch[at[u].dispatch] \in LiveRows
          BY <2>0, <4>1, RowOf DEF WriteMove
        <5> QED  BY <2>0, <4>1, <5>1 DEF WriteMove, Redate, TypeOK, Shipped, LiveRows
      <4>2. CASE Refuse(u)
        BY <4>2 DEF Refuse, Shipped
      <4> QED  BY <2>6, <4>1, <4>2
    <3> QED  BY <3>1, <3>2, <3>3, TaskKeepsUnmade DEF Idle
  <2>7. ASSUME NEW u \in Users, NEW a \in Approvals, ReadApprove(u, a) \/ ReadReject(u, a)
        PROVE  Unmade'
    <3>1. /\ inbox' = inbox /\ dispatch' = dispatch /\ Pending(a)
          /\ at[u].step = "idle" /\ at'[u].entry = a
      BY <2>0, <2>7 DEF ReadApprove, ReadReject, Begin, TypeOK, Idle
    <3> QED  BY <3>1, TaskKeepsUnmade DEF Shipped, Pending
  <2>8. ASSUME NEW u \in Users, NEW d \in Dispatches, ReplayBackdate(u, d)
        PROVE  Unmade'
    <3>1. /\ inbox' = inbox /\ at[u].step = "replay"
          /\ at'[u].step = "mark" /\ at'[u].entry = at[u].entry
      BY <2>0, <2>8 DEF ReplayBackdate, Resume, Go, TypeOK
    <3>2. \A e \in Shipped' : \/ e \in Shipped /\ dispatch'[e].from = dispatch[e].from
                             \/ dispatch'[e].from = at[u].entry
      BY <2>0, <2>8 DEF ReplayBackdate, Record, TypeOK, Shipped
    <3>3. Held(u).status \in {"PENDING", "DELETED"}
      BY <3>1 DEF Unmade
    <3> QED  BY <3>1, <3>2, <3>3, TaskKeepsUnmade DEF Held
  <2>9. ASSUME NEW u \in Users, CheckDateChange(u) \/ WriteDateChange(u)
        PROVE  Unmade'
    <3>1. /\ inbox' = inbox /\ at[u].step \in {"redate", "write"}
          /\ at'[u].entry = at[u].entry
      BY <2>0, <2>9 DEF CheckDateChange, WriteDateChange, Resume, Go, TypeOK
    <3>2. \A d \in Shipped' : d \in Shipped /\ dispatch'[d].from = dispatch[d].from
      <4>1. CASE CheckDateChange(u)
        BY <4>1 DEF CheckDateChange, Shipped
      <4>2. CASE WriteDateChange(u)
        <5>1. dispatch[Held(u).dispatch] \in LiveRows
          BY <2>0, <4>2, RowOf DEF WriteDateChange
        <5> QED  BY <2>0, <4>2, <5>1 DEF WriteDateChange, Redate, TypeOK, Shipped, LiveRows
      <4> QED  BY <2>9, <4>1, <4>2
    <3>3. Held(u).status \in {"PENDING", "DELETED"}
      BY <3>1 DEF Unmade
    <3> QED  BY <3>1, <3>2, <3>3, TaskKeepsUnmade DEF Held
  <2>10. ASSUME NEW u \in Users, MarkApproved(u) \/ WriteReject(u)
         PROVE  Unmade'
    <3> DEFINE a == at[u].entry
    <3>1. /\ at[u].step \in {"mark", "reject"} /\ dispatch' = dispatch
          /\ at' = [at EXCEPT ![u] = Idle] /\ inbox[a].status # "DELETED"
      BY <2>10 DEF MarkApproved, WriteReject, Resume, Go, Held
    <3>2. a \in Approvals /\ inbox[a] \in Asked
      <4>1. at[u] \in Deciding \cup Marking
        BY <2>0, <3>1, TaskOf
      <4> QED  BY <2>0, <4>1, EntryOf DEF Consistent, TaskFits, Held, Deciding, Marking
    <3>3. /\ inbox'[a].status = (IF at[u].step = "mark" THEN "APPROVED" ELSE "REJECTED")
          /\ \A b \in Approvals \ {a} : inbox'[b] = inbox[b]
      BY <2>0, <2>10, <3>2 DEF MarkApproved, WriteReject, Resume, TypeOK, Asked
    <3>4. inbox[a].status = "PENDING"
      BY <3>1 DEF Unmade, Held
    <3>5. \A v \in Users : v = u /\ at'[v] = Idle
      BY <2>0, <3>1 DEF TypeOK
    <3> QED  BY <2>0, <3>1, <3>2, <3>3, <3>4, <3>5, InboxKeepsUnmade
  <2>a. CASE DispatchStep
    BY <2>a, <2>4, <2>5, <2>6, Zenon DEF DispatchStep
  <2>b. CASE InboxStep
    BY <2>b, <2>2, <2>3, <2>7, <2>8, <2>9, <2>10, Zenon DEF InboxStep
  <2>c. ~Restart
    BY DEF Restart
  <2> QED  BY <2>a, <2>b, <2>c, <2>6, <2>1, Zenon DEF Next
<1>3. Unmade => RejectedNeverExisted
  BY DEF Unmade, RejectedNeverExisted
<1> QED  BY <1>1, <1>2, <1>3, ConsistentInv, PTL DEF Spec
=============================================================================
