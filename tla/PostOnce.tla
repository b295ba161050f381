------------------------------ MODULE PostOnce ------------------------------
(***************************************************************************)
(* What posting bills to Tally promises: the books get every bill at most  *)
(* once, only while OMS says that it does not know; OMS says that a bill   *)
(* is there only when it is, and takes back that it does not know only by  *)
(* a word after which the bill does not come in any more.  A "no" may be   *)
(* said of a bill that came in while OMS looked for it.                    *)
(***************************************************************************)
EXTENDS Sequences

CONSTANT Bills

VARIABLES
  books,    (* the bills in Tally, in the order they were entered *)
  word      (* what OMS says of a bill: "no", "unsure" or "yes"   *)

vars == <<books, word>>

Entered(b) == \E n \in DOMAIN books : books[n] = b

Init ==
  /\ books \in Seq(Bills)
  /\ \A m, n \in DOMAIN books : books[m] = books[n] => m = n
  /\ word = [b \in Bills |-> "no"]

Enter(b) ==
  /\ word[b] = "unsure"
  /\ ~Entered(b)
  /\ books' = Append(books, b)
  /\ UNCHANGED word

(* Speak of any number of bills: "yes" only when it is so, "no" only after *)
(* being unsure.  A "yes" may become "unsure" again when the answer of a   *)
(* second request for the bill is lost.                                    *)
Speak ==
  /\ word' \in [Bills -> {"no", "unsure", "yes"}]
  /\ \A b \in Bills : word'[b] # word[b] =>
       /\ word'[b] = "yes" => Entered(b)
       /\ word'[b] = "no"  => word[b] = "unsure"
  /\ UNCHANGED books

Next == Speak \/ \E b \in Bills : Enter(b)

Spec == Init /\ [][Next]_vars
=============================================================================
