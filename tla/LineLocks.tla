------------------------------ MODULE LineLocks ------------------------------
(***************************************************************************)
(* Who has an order line open for dispatch: the leases of                  *)
(* apps/api/src/dispatch/dispatch.service.ts, the sheets of the web client *)
(* that claim and renew them (use-dispatch.ts), and the challan that is    *)
(* refused while somebody dispatches for its party (challans.service.ts).  *)
(*                                                                         *)
(* A sheet claims its line when it opens, renews the claim every 30 s, and *)
(* releases it when it closes.  Calls are served in the order in which one *)
(* browser sends them; any of them, and any answer, can be lost.  A tick   *)
(* of the clock is 30 s.                                                   *)
(***************************************************************************)
EXTENDS Integers, Sequences

CONSTANTS
  Users, Lines, Parties,
  PartyOf,     (* the party that ordered a line                            *)
  Ttl,         (* LOCK_TTL_MS in ticks: 3                                  *)
  MaxCalls     (* calls one browser has under way (a bound for TLC)        *)

ASSUME LocksAssumption ==
  /\ PartyOf \in [Lines -> Parties]
  /\ Ttl \in Nat /\ Ttl >= 2
  /\ MaxCalls \in Nat \ {0}

VARIABLES
  lock,    (* line: nothing, or the user and the age of the claim          *)
  sheet,   (* user: nothing, or the line on the screen                     *)
  calls,   (* user: the calls on their way to the server                   *)
  bill     (* nothing, or who bills which party, once the check has passed *)

lockVars == <<lock, sheet, calls, bill>>

Free == [age |-> Ttl]
Shut == [at |-> "shut"]
NoBill == [by |-> {}]

(* A sheet is away once it no longer renews its claim every 30 s. *)
Locks  == {Free} \cup [user: Users, age: 0..Ttl]
Sheets == {Shut} \cup [at: {"opening", "open", "away"}, line: Lines]
Calls  == [op: {"acquire", "abandoned", "release"}, line: Lines]
Bills  == {NoBill} \cup [by: {{u} : u \in Users}, for: Parties]

Held(l)     == lock[l] # Free
HeldBy(u, l) == Held(l) /\ lock[l].user = u
IsLive(l)   == lock[l].age < Ttl
OnLine(u, l) == sheet[u] # Shut /\ sheet[u].line = l
OpenOn(u, l) == OnLine(u, l) /\ sheet[u].at = "open"

LockInit ==
  /\ lock = [l \in Lines |-> Free]
  /\ sheet = [u \in Users |-> Shut]
  /\ calls = [u \in Users |-> <<>>]
  /\ bill = NoBill

-----------------------------------------------------------------------------
(* The browser: useLineLock *)

Send(u, op, l) ==
  /\ Len(calls[u]) < MaxCalls
  /\ calls' = [calls EXCEPT ![u] = Append(@, [op |-> op, line |-> l])]

OpenSheet(u, l) ==
  /\ sheet[u] = Shut
  /\ sheet' = [sheet EXCEPT ![u] = [at |-> "opening", line |-> l]]
  /\ Send(u, "acquire", l)
  /\ UNCHANGED <<lock, bill>>

(* Every 30 s while the sheet is open. *)
Heartbeat(u) ==
  /\ sheet[u] # Shut /\ sheet[u].at \in {"open", "away"}
  /\ calls[u] = <<>>
  /\ Send(u, "acquire", sheet[u].line)
  /\ UNCHANGED <<lock, sheet, bill>>

(* Answers to a sheet that is gone are ignored. *)
Abandoned(cs) ==
  [i \in DOMAIN cs |->
     IF cs[i].op = "acquire" THEN [cs[i] EXCEPT !.op = "abandoned"] ELSE cs[i]]

CloseSheet(u) ==
  /\ sheet[u] # Shut
  /\ Len(calls[u]) < MaxCalls
  /\ sheet' = [sheet EXCEPT ![u] = Shut]
  /\ calls' = [calls EXCEPT ![u] =
       Append(Abandoned(@), [op |-> "release", line |-> sheet[u].line])]
  /\ UNCHANGED <<lock, bill>>

(* The tab is closed, or the browser stops: nothing is released. *)
Vanish(u) ==
  /\ sheet[u] # Shut
  /\ sheet' = [sheet EXCEPT ![u] = Shut]
  /\ calls' = [calls EXCEPT ![u] = Abandoned(@)]
  /\ UNCHANGED <<lock, bill>>

(* The phone sleeps or has no signal. *)
GoAway(u) ==
  /\ sheet[u] # Shut /\ sheet[u].at = "open"
  /\ sheet' = [sheet EXCEPT ![u].at = "away"]
  /\ UNCHANGED <<lock, calls, bill>>

(* The first acquire fails: the sheet closes, which sends a release. *)
Denied(u, rest) ==
  IF sheet[u] # Shut /\ sheet[u].at = "opening" /\ Head(calls[u]).op = "acquire"
  THEN /\ sheet' = [sheet EXCEPT ![u] = Shut]
       /\ calls' = [calls EXCEPT ![u] =
            Append(Abandoned(rest), [op |-> "release", line |-> sheet[u].line])]
  ELSE /\ calls' = [calls EXCEPT ![u] = rest]
       /\ UNCHANGED sheet

LoseCall(u) ==
  /\ calls[u] # <<>>
  /\ IF OpenOn(u, Head(calls[u]).line) /\ Head(calls[u]).op = "acquire"
     THEN /\ sheet' = [sheet EXCEPT ![u].at = "away"]
          /\ calls' = [calls EXCEPT ![u] = Tail(@)]
     ELSE Denied(u, Tail(calls[u]))
  /\ UNCHANGED <<lock, bill>>

-----------------------------------------------------------------------------
(* The server: acquireLock and releaseLock run without an await. *)

(* Mutant: an older claim that is still live gives way. *)
RefusedWhenFresh(u, l) == Held(l) /\ ~HeldBy(u, l) /\ lock[l].age = 0
Refused(u, l) == Held(l) /\ ~HeldBy(u, l) /\ IsLive(l)

(* The claim; every other line of the same user is let go. *)
Claimed(u, l) ==
  [m \in Lines |->
     IF m = l THEN [user |-> u, age |-> 0]
     ELSE IF HeldBy(u, m) THEN Free ELSE lock[m]]

(* The answer may be lost on its way back. *)
Acquire(u) ==
  LET l == Head(calls[u]).line
  IN
  /\ calls[u] # <<>> /\ Head(calls[u]).op # "release"
  /\ ~Refused(u, l)
  /\ lock' = Claimed(u, l)
  /\ \/ /\ calls' = [calls EXCEPT ![u] = Tail(@)]
        /\ sheet' = IF Head(calls[u]).op = "acquire" /\ sheet[u].at = "opening"
                    THEN [sheet EXCEPT ![u].at = "open"] ELSE sheet
     \/ Denied(u, Tail(calls[u]))
  /\ UNCHANGED bill

(* Mutant: a refused call renews the claim it was refused for. *)
RefusalRenews(u) ==
  LET l == Head(calls[u]).line
  IN
  /\ calls[u] # <<>> /\ Head(calls[u]).op # "release"
  /\ Refused(u, l)
  /\ lock' = [lock EXCEPT ![l].age = 0]
  /\ Denied(u, Tail(calls[u]))
  /\ UNCHANGED bill

Refuse(u) ==
  /\ calls[u] # <<>> /\ Head(calls[u]).op # "release"
  /\ Refused(u, Head(calls[u]).line)
  /\ Denied(u, Tail(calls[u]))
  /\ UNCHANGED <<lock, bill>>

(* Only one's own claim is released. *)
Release(u) ==
  LET l == Head(calls[u]).line
  IN
  /\ calls[u] # <<>> /\ Head(calls[u]).op = "release"
  /\ lock' = IF HeldBy(u, l) THEN [lock EXCEPT ![l] = Free] ELSE lock
  /\ calls' = [calls EXCEPT ![u] = Tail(@)]
  /\ UNCHANGED <<sheet, bill>>

(* Mutant: an expired claim goes on ageing. *)
TicksOn ==
  /\ lock' = [l \in Lines |->
       IF Held(l) THEN [lock[l] EXCEPT !.age = @ + 1] ELSE lock[l]]
  /\ UNCHANGED <<sheet, calls, bill>>

(* 30 s pass.  A sheet that does not sleep renews its claim every 30 s, a  *)
(* hidden tab at least once a minute: always before it expires.            *)
Tick ==
  /\ \A u \in Users, l \in Lines :
       OpenOn(u, l) /\ HeldBy(u, l) => lock[l].age + 1 < Ttl
  /\ \E l \in Lines : Held(l) /\ IsLive(l)
  /\ lock' = [l \in Lines |->
       IF Held(l) /\ IsLive(l) THEN [lock[l] EXCEPT !.age = @ + 1] ELSE lock[l]]
  /\ UNCHANGED <<sheet, calls, bill>>

-----------------------------------------------------------------------------
(* ChallansService.create, the check before the transaction: of the live   *)
(* claims on lines of the party the first one counts, here any of them;    *)
(* its holder may bill.                                                    *)

LiveFor(c) == {l \in Lines : Held(l) /\ IsLive(l) /\ PartyOf[l] = c}

(* Mutant: a claim that was not renewed for a minute no longer counts. *)
MayBillAfterAMinute(u, c) ==
  \A l \in LiveFor(c) : lock[l].age = 0 => HeldBy(u, l)
MayBill(u, c) == LiveFor(c) = {} \/ \E l \in LiveFor(c) : HeldBy(u, l)

CheckHolder(u, c) ==
  /\ bill = NoBill
  /\ MayBill(u, c)
  /\ bill' = [by |-> {u}, for |-> c]
  /\ UNCHANGED <<lock, sheet, calls>>

(* askAboutAdvance and the transaction, see DispatchBilling. *)
SaveBill ==
  /\ bill # NoBill
  /\ bill' = NoBill
  /\ UNCHANGED <<lock, sheet, calls>>

LockNext ==
  \/ \E u \in Users :
       \/ \E l \in Lines : OpenSheet(u, l)
       \/ Heartbeat(u) \/ CloseSheet(u) \/ Vanish(u) \/ GoAway(u) \/ LoseCall(u)
       \/ Acquire(u) \/ Refuse(u) \/ Release(u)
       \/ \E c \in Parties : CheckHolder(u, c)
  \/ SaveBill \/ Tick

(* Time passes, open sheets renew, and calls are served or lost. *)
LockFairness ==
  /\ WF_lockVars(Tick)
  /\ \A u \in Users : WF_lockVars(Heartbeat(u))
  /\ \A u \in Users : WF_lockVars(Acquire(u) \/ Refuse(u) \/ Release(u) \/ LoseCall(u))

LockSpec == LockInit /\ [][LockNext]_lockVars /\ LockFairness

-----------------------------------------------------------------------------
(* Properties *)

LockTypeOK ==
  /\ lock \in [Lines -> Locks]
  /\ sheet \in [Users -> Sheets]
  /\ calls \in [Users -> Seq(Calls)]
  /\ bill \in Bills

(* A line is on the open sheet of one user at a time; only a sheet that    *)
(* was away longer than its lease can be beside another (acquireLock: it   *)
(* fails when someone else holds a still-live lock).                       *)
OneSheetPerLine ==
  \A u, v \in Users, l \in Lines : OpenOn(u, l) /\ OpenOn(v, l) => u = v

Dispatches(u, c) == \E l \in LiveFor(c) : HeldBy(u, l)

(* A challan of somebody who is not dispatching for the party himself is   *)
(* never let through while another one has a line of it open.              *)
BillsWhenQuiet ==
  [][\A u, v \in Users, l \in Lines :
       CheckHolder(u, PartyOf[l]) /\ u # v /\ OpenOn(v, l)
         => Dispatches(u, PartyOf[l])]_lockVars

(* "a crashed tab/lost connection can't leave a line permanently stuck":   *)
(* a claim without a sheet ends.                                           *)
NoLineStuck ==
  \A u \in Users, l \in Lines :
    HeldBy(u, l) /\ IsLive(l) /\ ~OnLine(u, l)
      ~> OnLine(u, l) \/ ~(HeldBy(u, l) /\ IsLive(l))
=============================================================================
