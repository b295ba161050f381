------------------------------ MODULE MCMoney ------------------------------
(***************************************************************************)
(* Money that goes to the books and money that goes out: posting bills to  *)
(* Tally, and settling an agent.  The two share nothing, so an execution   *)
(* is one of them, with the other at rest, and settling is split once more *)
(*   shares      an agent's share of an invoice that is edited while it is *)
(*               settled                                                   *)
(*   deductions  covers and bounces, over an invoice that stays as it is   *)
(*                                                                         *)
(* Two bills, two posts, one check and one sweep; two settlements over an  *)
(* invoice, a cover and a cheque.                                          *)
(***************************************************************************)
EXTENDS TallyPosting, Settlement, TLC

CONSTANTS p1, p2, q1, w1, i1, s1, s2, c1, k1, r1, r2

VARIABLE part

TwoPosters == {p1, p2}
OneChecker == {q1}
OneSweeper == {w1}
OneBill    == c1 :> i1

(* One person pays; the other drafts and does the rest. *)
Cashier  == {"pay", "cancel", "bounce", "cheque"}
TwoDesks == (r1 :> Cashier) @@ (r2 :> OperationNames \ Cashier)
OneDesk  == r1 :> OperationNames

Deducting == {"cover", "recover", "bounce", "unbounce"} \cup DOMAIN ChequeStatus
Editing   == {"rebuild"}

Starts(places) ==
  \E r \in Requests : req[r] = NoRequest /\ req'[r] # NoRequest /\ req'[r].at \in places

MoneyInit ==
  /\ Init /\ AgentInit
  /\ part \in {"posting", "shares", "deductions"}
  /\ part # "posting" => tally = <<>>

MoneyNext ==
  /\ \/ part = "posting"    /\ Next      /\ UNCHANGED agentVars
     \/ part = "shares"     /\ AgentNext /\ ~Starts(Deducting) /\ UNCHANGED vars
     \/ part = "deductions" /\ AgentNext /\ ~Starts(Editing)   /\ UNCHANGED vars
  /\ UNCHANGED part

moneyVars == <<part, vars, agentVars>>

MoneySpec == MoneyInit /\ [][MoneyNext]_moneyVars

(* One person at the desk, over everything. *)
OneDeskSpec ==
  /\ Init /\ AgentInit /\ part = "agent" /\ tally = <<>>
  /\ [][AgentNext /\ UNCHANGED <<part, vars>>]_moneyVars

SettlementsAlike == Permutations({s1, s2})
=============================================================================
