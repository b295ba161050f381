------------------------------- MODULE DrawMutex -------------------------------
(***************************************************************************)
(* What serializeBookingDraw promises its callers: they run one at a time, *)
(* in the order in which they called, and a call that fails lets the next  *)
(* one in just as well as a call that succeeds.                            *)
(***************************************************************************)
EXTENDS Naturals, Sequences

CONSTANT Callers

VARIABLES
  line,      (* those that called and have not settled, in calling order   *)
  inside,    (* the head of the line has been let in                       *)
  settled    (* the callers whose run is over                              *)

vars == <<line, inside, settled>>

Init == line = <<>> /\ inside = FALSE /\ settled = {}

Join(c) ==
  /\ c \notin settled /\ \A i \in 1..Len(line) : line[i] # c
  /\ line' = Append(line, c)
  /\ UNCHANGED <<inside, settled>>

Enter ==
  /\ line # <<>> /\ ~inside
  /\ inside' = TRUE
  /\ UNCHANGED <<line, settled>>

Leave ==
  /\ inside
  /\ line' = Tail(line)
  /\ settled' = settled \cup {Head(line)}
  /\ inside' = FALSE

Next == Enter \/ Leave \/ \E c \in Callers : Join(c)

Spec == Init /\ [][Next]_vars /\ WF_vars(Enter) /\ WF_vars(Leave)
=============================================================================
