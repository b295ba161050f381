-------------------------- MODULE ProcessMemory_proofs --------------------------
(***************************************************************************)
(* Theorems about what the API keeps in the memory of its process: the     *)
(* queue of booking draws for any number of calls; the line locks for any  *)
(* users, lines and parties, any lease of two ticks or more and any number *)
(* of calls under way; the pending pool for any lines and requests.        *)
(***************************************************************************)
EXTENDS MCProcessMemory, FiniteSetTheorems, SequenceTheorems, TLAPS

-----------------------------------------------------------------------------
(* The queue of booking draws *)

(* Calls keep the shape of a chain of promises. *)
THEOREM QueueTypeCorrect == Spec => []TypeOK
<1>1. Init => TypeOK
  BY DEF Init, TypeOK
<1>2. TypeOK /\ [Next]_vars => TypeOK'
  <2> SUFFICES ASSUME TypeOK, [Next]_vars
               PROVE  TypeOK'
    OBVIOUS
  <2> USE DEF TypeOK
  <2>1. ASSUME NEW c \in Callers, Chain(c)
        PROVE  TypeOK'
    BY <2>1 DEF Chain
  <2>2. ASSUME NEW c \in Callers, RunAtOnce(c) \/ Start(c) \/ Settle(c)
        PROVE  TypeOK'
    BY <2>2 DEF RunAtOnce, Start, Settle
  <2>3. CASE UNCHANGED vars
    BY <2>3 DEF vars
  <2> QED  BY <2>1, <2>2, <2>3 DEF Next
<1> QED  BY <1>1, <1>2, PTL DEF Spec

-----------------------------------------------------------------------------
(* The chain has no gap and no fork: exactly the calls that had to be      *)
(* queued and were made have a position, no two the same, and every        *)
(* position up to the tail is somebody's.                                  *)
Chained ==
  /\ \A c \in Needed : state[c] = "uncalled" <=> place[c] = 0
  /\ \A c \in Callers \ Needed : place[c] = 0 /\ state[c] # "chained"
  /\ \A b, c \in Callers : place[b] = place[c] /\ place[b] # 0 => b = c
  /\ \A i \in 1..tail : \E c \in Needed : place[c] = i

(* Whoever runs or has run comes after settled calls only. *)
SettledBefore ==
  \A b, c \in Needed :
    place[b] # 0 /\ place[b] < place[c] /\ (state[c] = "running" \/ Settled(c))
      => Settled(b)

QueueInv == Chained /\ SettledBefore

(* A call that starts has only settled calls before it. *)
LEMMA PredecessorsSettled ==
  ASSUME TypeOK, QueueInv, NEW b \in Needed, NEW c \in Needed, Ready(c),
         place[b] # 0, place[b] < place[c]
  PROVE  Settled(b)
<1> USE NeededAssumption
<1>1. PICK p \in Needed : place[p] = place[c] - 1
  <2>1. place[c] - 1 \in 1..tail
    BY DEF TypeOK
  <2> QED  BY <2>1 DEF QueueInv, Chained
<1>2. Settled(p)
  BY <1>1 DEF Ready, TypeOK
<1>3. CASE place[b] = place[p]
  BY <1>1, <1>2, <1>3 DEF QueueInv, Chained, TypeOK
<1>4. CASE place[b] < place[p]
  BY <1>2, <1>4 DEF QueueInv, SettledBefore
<1> QED  BY <1>1, <1>3, <1>4 DEF TypeOK

(* The chain of bookingDrawQueue never forks, and whoever runs in it comes *)
(* after calls that are over.                                              *)
THEOREM ChainInOrder == Spec => []QueueInv
<1> USE NeededAssumption
<1>1. Init => QueueInv
  BY DEF Init, QueueInv, Chained, SettledBefore
<1>2. TypeOK /\ QueueInv /\ [Next]_vars => QueueInv'
  <2> SUFFICES ASSUME TypeOK, QueueInv, [Next]_vars
               PROVE  QueueInv'
    OBVIOUS
  <2>1. ASSUME NEW c \in Callers, Chain(c)
        PROVE  QueueInv'
    <3>1. /\ c \in Needed /\ place[c] = 0
          /\ tail' = tail + 1
          /\ place' = [place EXCEPT ![c] = tail + 1]
          /\ state' = [state EXCEPT ![c] = "chained"]
          /\ \A b \in Callers : place[b] \in 0..tail
      BY <2>1 DEF Chain, QueueInv, Chained, TypeOK
    <3>2. Chained'
      <4>1. \A i \in 1..(tail + 1) : \E b \in Needed : place'[b] = i
        <5> SUFFICES ASSUME NEW i \in 1..(tail + 1)
                     PROVE  \E b \in Needed : place'[b] = i
          OBVIOUS
        <5>1. CASE i = tail + 1
          BY <3>1, <5>1 DEF TypeOK
        <5>2. CASE i \in 1..tail
          BY <3>1, <5>2 DEF QueueInv, Chained, TypeOK
        <5> QED  BY <5>1, <5>2 DEF TypeOK
      <4>2. /\ \A b \in Needed : state'[b] = "uncalled" <=> place'[b] = 0
            /\ \A b \in Callers \ Needed : place'[b] = 0 /\ state'[b] # "chained"
        BY <3>1 DEF QueueInv, Chained, TypeOK
      <4>3. \A a, b \in Callers : place'[a] = place'[b] /\ place'[a] # 0 => a = b
        BY <3>1 DEF QueueInv, Chained, TypeOK
      <4> QED  BY <3>1, <4>1, <4>2, <4>3 DEF Chained
    <3>3. SettledBefore'
      BY <3>1 DEF QueueInv, Chained, SettledBefore, Settled, TypeOK
    <3> QED  BY <3>2, <3>3 DEF QueueInv
  <2>2. ASSUME NEW c \in Callers, RunAtOnce(c)
        PROVE  QueueInv'
    BY <2>2 DEF RunAtOnce, QueueInv, Chained, SettledBefore, Settled, TypeOK
  <2>3. ASSUME NEW c \in Callers, Start(c)
        PROVE  QueueInv'
    <3>1. /\ state[c] = "chained" /\ Ready(c)
          /\ state' = [state EXCEPT ![c] = "running"]
          /\ UNCHANGED <<tail, place>>
      BY <2>3 DEF Start
    <3>2. Chained'
      BY <3>1 DEF QueueInv, Chained, TypeOK
    <3>3. SettledBefore'
      BY <3>1, PredecessorsSettled DEF QueueInv, SettledBefore, Settled, TypeOK
    <3> QED  BY <3>2, <3>3 DEF QueueInv
  <2>4. ASSUME NEW c \in Callers, Settle(c)
        PROVE  QueueInv'
    <3>1. /\ state[c] = "running"
          /\ UNCHANGED <<tail, place>>
      BY <2>4 DEF Settle
    <3>2. PICK outcome \in {"fulfilled", "rejected"} :
            state' = [state EXCEPT ![c] = outcome]
      BY <2>4 DEF Settle
    <3>3. Chained'
      BY <3>1, <3>2 DEF QueueInv, Chained, TypeOK
    <3>4. SettledBefore'
      BY <3>1, <3>2 DEF QueueInv, SettledBefore, Settled, TypeOK
    <3> QED  BY <3>3, <3>4 DEF QueueInv
  <2>5. CASE UNCHANGED vars
    BY <2>5 DEF vars, QueueInv, Chained, SettledBefore, Settled
  <2> QED  BY <2>1, <2>2, <2>3, <2>4, <2>5 DEF Next
<1> QED  BY <1>1, <1>2, QueueTypeCorrect, PTL DEF Spec

(* Nobody runs beside another. *)
LEMMA RunsAlone ==
  ASSUME TypeOK, QueueInv
  PROVE  OneAtATime
BY NeededAssumption DEF TypeOK, QueueInv, Chained, SettledBefore, OneAtATime, Settled

(* serializeBookingDraw lets one draw at a time check capacity and write,  *)
(* however many calls are made and whichever of them fail.                 *)
THEOREM DrawsAreSerialized == Spec => []OneAtATime
BY RunsAlone, ChainInOrder, QueueTypeCorrect, PTL

-----------------------------------------------------------------------------
(* The calls that are over are the first of the chain, as many as are over. *)
SettledFirst ==
  /\ IsFiniteSet({c \in Needed : Settled(c)})
  /\ \A c \in Needed : Settled(c) <=> place[c] \in 1..Served

ServedInv == TypeOK /\ QueueInv /\ SettledFirst

(* Served counts the calls that are over; a call that settles is the next. *)
LEMMA ServedCounts ==
  ASSUME ServedInv
  PROVE  Served \in Nat /\ Served <= tail
<1>1. Served \in Nat
  BY FS_CardinalityType DEF ServedInv, SettledFirst, Served
<1>2. Served <= tail
  <2>1. SUFFICES ASSUME Served > tail PROVE FALSE
    BY <1>1 DEF ServedInv, TypeOK
  <2> DEFINE S == {c \in Needed : Settled(c)}
  <2>2. place \in [Callers -> 0..tail] /\ tail \in Nat /\ S \subseteq Callers
    BY NeededAssumption DEF ServedInv, TypeOK
  <2> DEFINE f == [c \in S |-> place[c]]
  <2>3. f \in Injection(S, 1..tail)
    <3>1. \A c \in S : f[c] \in 1..tail
      BY <2>2 DEF ServedInv, SettledFirst
    <3>2. \A b, c \in S : f[b] = f[c] => b = c
      BY <2>2, <3>1 DEF ServedInv, QueueInv, Chained
    <3> QED  BY <3>1, <3>2 DEF Injection, IsInjective
  <2>4. Cardinality(S) <= Cardinality(1..tail)
    BY <2>2, <2>3, FS_Injection, FS_Interval
  <2>5. Served = Cardinality(S)
    BY DEF Served
  <2>6. Cardinality(1..tail) = tail
    <3>1. 0 \in Int /\ 1 \in Int /\ tail \in Int
      BY <2>2
    <3>2. Cardinality(1..tail) = IF 1 > tail THEN 0 ELSE tail - 1 + 1
      BY <3>1, FS_Interval
    <3> QED  BY <2>2, <3>2
  <2> QED  BY <1>1, <2>1, <2>2, <2>4, <2>5, <2>6
<1> QED  BY <1>1, <1>2

(* The call that runs in the chain is the first that is not over. *)
LEMMA RunnerIsNext ==
  ASSUME ServedInv, NEW c \in Needed,
         \/ state[c] = "running"
         \/ state[c] = "chained" /\ Ready(c)
  PROVE  place[c] = Served + 1
<1> USE NeededAssumption
<1>1. /\ place[c] \in 1..tail /\ ~Settled(c) /\ tail \in Nat
      /\ Served \in Nat /\ Served <= tail /\ place[c] > Served
  BY ServedCounts DEF ServedInv, SettledFirst, QueueInv, Chained, Settled, TypeOK
<1>2. SUFFICES ASSUME place[c] > Served + 1 PROVE FALSE
  BY <1>1
<1>3. PICK b \in Needed : place[b] = Served + 1
  <2>1. Served + 1 \in 1..tail
    BY <1>1, <1>2
  <2> QED  BY <2>1 DEF ServedInv, QueueInv, Chained
<1>4. place[b] # 0 /\ place[b] < place[c] /\ ~Settled(b)
  BY <1>1, <1>2, <1>3 DEF ServedInv, SettledFirst
<1> QED  BY <1>4, PredecessorsSettled DEF ServedInv, QueueInv, SettledBefore

(* Calls of the chain settle in the order of the chain. *)
THEOREM SettlesInOrder == Spec => []ServedInv
<1> USE NeededAssumption
<1> DEFINE S == {c \in Needed : Settled(c)}
<1>1. Init => SettledFirst
  <2>1. Init => S = {}
    BY DEF Init, Settled
  <2> QED  BY <2>1, FS_EmptySet DEF Init, SettledFirst, Served, Settled
<1>2. ServedInv /\ TypeOK' /\ QueueInv' /\ [Next]_vars => SettledFirst'
  <2> SUFFICES ASSUME ServedInv, TypeOK', QueueInv', [Next]_vars
               PROVE  SettledFirst'
    OBVIOUS
  <2>0. /\ Served \in Nat /\ Served <= tail /\ tail \in Nat
        /\ place \in [Callers -> 0..tail]
        /\ IsFiniteSet(S) /\ Served = Cardinality(S)
        /\ \A c \in Needed : Settled(c) <=> place[c] \in 1..Served
    BY ServedCounts DEF ServedInv, SettledFirst, Served, TypeOK
  <2>1. ASSUME S' = S, \A c \in Needed : place'[c] \in 1..Served <=> place[c] \in 1..Served
        PROVE  SettledFirst'
    BY <2>0, <2>1 DEF SettledFirst, Served
  <2>2. ASSUME NEW c \in Callers, Chain(c)
        PROVE  SettledFirst'
    <3>1. S' = S
      BY <2>2 DEF Chain, Settled, ServedInv, TypeOK
    <3>2. \A b \in Needed : place'[b] \in 1..Served <=> place[b] \in 1..Served
      BY <2>0, <2>2 DEF Chain, ServedInv, QueueInv, Chained
    <3> QED  BY <2>1, <3>1, <3>2
  <2>3. ASSUME NEW c \in Callers, RunAtOnce(c) \/ Start(c)
        PROVE  SettledFirst'
    <3>1. S' = S /\ place' = place
      BY <2>3 DEF RunAtOnce, Start, Settled, ServedInv, TypeOK
    <3> QED  BY <2>1, <3>1
  <2>4. ASSUME NEW c \in Callers, Settle(c)
        PROVE  SettledFirst'
    <3>1. /\ place' = place /\ state[c] = "running"
          /\ \E outcome \in {"fulfilled", "rejected"} : state' = [state EXCEPT ![c] = outcome]
      BY <2>4 DEF Settle
    <3>2. CASE c \notin Needed
      <4>1. S' = S
        BY <3>1, <3>2 DEF Settled, ServedInv, TypeOK
      <4> QED  BY <2>1, <3>1, <4>1
    <3>3. CASE c \in Needed
      <4>1. S' = S \cup {c} /\ c \notin S
        BY <3>1, <3>3 DEF Settled, ServedInv, TypeOK
      <4>2. IsFiniteSet(S') /\ Served' = Served + 1
        BY <2>0, <4>1, FS_AddElement DEF Served
      <4>3. place[c] = Served + 1
        <5>1. state[c] = "running"
          BY <3>1
        <5> QED  BY <3>3, <5>1, RunnerIsNext
      <4>4. \A b \in Needed : b # c => place[b] # place[c]
        BY <2>0, <3>3, <4>3 DEF ServedInv, QueueInv, Chained
      <4>5. \A b \in Needed : Settled(b)' <=> b = c \/ Settled(b)
        BY <4>1
      <4>6. \A b \in Needed : Settled(b)' <=> place[b] \in 1..(Served + 1)
        BY <2>0, <4>3, <4>4, <4>5
      <4> QED  BY <3>1, <4>2, <4>6 DEF SettledFirst
    <3> QED  BY <3>2, <3>3
  <2>5. CASE UNCHANGED vars
    <3>1. S' = S /\ place' = place
      BY <2>5 DEF vars, Settled
    <3> QED  BY <2>1, <3>1
  <2> QED  BY <2>2, <2>3, <2>4, <2>5 DEF Next
<1>3. Init /\ TypeOK /\ QueueInv => ServedInv
  BY <1>1 DEF ServedInv
<1>4. ServedInv /\ TypeOK' /\ QueueInv' /\ [Next]_vars => ServedInv'
  BY <1>2 DEF ServedInv
<1> QED  BY <1>3, <1>4, ChainInOrder, QueueTypeCorrect, PTL DEF Spec

(* The line that the chain is for a caller: its calls that are not over, *)
(* the first of them at its head.                                          *)
Waiting == [i \in 1..(tail - Served) |-> CHOOSE c \in Needed : place[c] = Served + i]

(* Every place of the line is that of one call, which is not over. *)
InLine ==
  /\ Waiting \in Seq(Needed)
  /\ Len(Waiting) = tail - Served /\ tail - Served \in Nat
  /\ \A i \in 1..(tail - Served), c \in Needed :
       Waiting[i] = c <=> place[c] = Served + i
  /\ \A i \in 1..(tail - Served) : ~Settled(Waiting[i])

(* The line has its shape wherever calls settle in the order of the chain. *)
LEMMA WaitingIs ==
  ASSUME ServedInv
  PROVE  InLine
<1> USE NeededAssumption
<1>1. Served \in Nat /\ tail \in Nat /\ Served <= tail /\ tail - Served \in Nat
  BY ServedCounts DEF ServedInv, TypeOK
<1>2. ASSUME NEW i \in 1..(tail - Served)
      PROVE  /\ Waiting[i] \in Needed /\ place[Waiting[i]] = Served + i
             /\ ~Settled(Waiting[i])
             /\ \A c \in Needed : place[c] = Served + i => c = Waiting[i]
  <2>1. Served + i \in 1..tail /\ Served + i \notin 1..Served /\ Served + i # 0
    BY <1>1
  <2>2. PICK c \in Needed : place[c] = Served + i
    BY <2>1 DEF ServedInv, QueueInv, Chained
  <2>3. Waiting[i] = CHOOSE b \in Needed : place[b] = Served + i
    BY DEF Waiting
  <2>4. Waiting[i] \in Needed /\ place[Waiting[i]] = Served + i
    BY <2>2, <2>3
  <2>5. ~Settled(Waiting[i])
    BY <2>1, <2>4 DEF ServedInv, SettledFirst
  <2>6. \A b \in Needed : place[b] = Served + i => b = Waiting[i]
    BY <2>1, <2>4 DEF ServedInv, QueueInv, Chained
  <2> QED  BY <2>4, <2>5, <2>6
<1>3. DOMAIN Waiting = 1..(tail - Served)
  BY DEF Waiting
<1>4. Waiting \in [1..(tail - Served) -> Needed]
  BY <1>2 DEF Waiting
<1>5. Waiting \in Seq(Needed) /\ Len(Waiting) = tail - Served
  BY <1>1, <1>3, <1>4, SeqDef, LenProperties
<1> QED  BY <1>1, <1>2, <1>3, <1>5 DEF InLine

(* The same after a step. *)
LEMMA WaitingIsNext == ServedInv' => InLine'
BY WaitingIs, PTL

(* Somebody is inside, and these are over (DrawQueue!Mutex). *)
Inside == \E c \in Needed : state[c] = "running"
Over   == {c \in Needed : Settled(c)}

(* Served is their number, before a step and after it. *)
LEMMA ServedIsOver ==
  Served = Cardinality(Over) /\ (Served = Cardinality(Over))'
<1>1. Served = Cardinality(Over)
  BY DEF Served, Over
<1> QED  BY <1>1, PTL

(* A step that moves neither the chain nor what is over leaves the line.   *)
LEMMA WaitingStays ==
  ASSUME tail' = tail, place' = place, Over' = Over
  PROVE  Waiting' = Waiting /\ Served' = Served
<1>1. Served' = Served
  BY ServedIsOver
<1> QED  BY <1>1 DEF Waiting

(* Who is called in serves the head of the line. *)
LEMMA HeadRuns ==
  ASSUME ServedInv, NEW c \in Needed,
         \/ state[c] = "running"
         \/ state[c] = "chained" /\ Ready(c)
  PROVE  Waiting # <<>> /\ Head(Waiting) = c
<1>1. /\ place[c] = Served + 1 /\ place[c] \in 0..tail
      /\ Served \in Nat /\ tail \in Nat
  BY RunnerIsNext, ServedCounts, NeededAssumption DEF ServedInv, TypeOK
<1>2. 1 \in 1..(tail - Served) /\ Len(Waiting) # 0 /\ Waiting[1] = c
  BY <1>1, WaitingIs DEF InLine
<1>3. Waiting # <<>>
  BY <1>2, EmptySeq
<1> QED  BY <1>2, <1>3, WaitingIs, HeadTailProperties DEF InLine

(* For any number of calls, the queue of promises is the line of DrawMutex *)
(* (ServesInOrder without its fairness): a call joins at the end of the    *)
(* line, its head alone is let in, and leaves it whether it fails or not.  *)
THEOREM ServesAsALine == Spec => Mutex!Init /\ [][Mutex!Next]_(Mutex!vars)
<1> USE NeededAssumption
<1>1. Init => Mutex!Init
  <2> SUFFICES ASSUME Init PROVE Mutex!Init
    OBVIOUS
  <2>1. Over = {} /\ ~Inside
    BY DEF Init, Over, Inside, Settled
  <2>2. Served = 0 /\ tail = 0
    BY <2>1, FS_EmptySet DEF Init, Served, Over
  <2>3. Waiting = <<>>
    BY <2>2 DEF Waiting
  <2> QED  BY <2>1, <2>3 DEF Mutex!Init, Waiting, Over, Inside
<1>2. ServedInv /\ ServedInv' /\ [Next]_vars => [Mutex!Next]_(Mutex!vars)
  <2> SUFFICES ASSUME ServedInv, ServedInv', [Next]_vars
               PROVE  [Mutex!Next]_<<Waiting, Inside, Over>>
    BY DEF Mutex!vars, Waiting, Inside, Over
  <2>0. TypeOK /\ QueueInv /\ OneAtATime /\ OneAtATime'
    <3>1. (TypeOK /\ QueueInv => OneAtATime)'
      BY RunsAlone, PTL
    <3> QED  BY <3>1, RunsAlone DEF ServedInv
  <2>1. ASSUME NEW c \in Callers, Chain(c)
        PROVE  c \in Needed /\ Mutex!Join(c)
    <3>1. /\ c \in Needed /\ place[c] = 0 /\ tail' = tail + 1
          /\ place' = [place EXCEPT ![c] = tail + 1]
          /\ state' = [state EXCEPT ![c] = "chained"] /\ state[c] = "uncalled"
      BY <2>0, <2>1 DEF Chain, QueueInv, Chained
    <3>2. Over' = Over /\ Inside' = Inside /\ c \notin Over
      BY <2>0, <3>1 DEF Over, Inside, Settled, TypeOK
    <3>3. Served' = Served /\ Served \in Nat /\ tail \in Nat /\ Served <= tail
      <4>1. Served' = Served
        BY <3>2, ServedIsOver
      <4> QED  BY <2>0, <4>1, ServedCounts DEF TypeOK
    <3> DEFINE n == tail - Served
    <3>4. n \in Nat /\ tail' - Served' = n + 1
      BY <3>1, <3>3
    <3>5. \A i \in 1..n : Waiting[i] # c
      BY <3>1, <3>3, WaitingIs DEF InLine
    <3>6. Waiting' = Append(Waiting, c)
      <4>1. /\ Waiting \in Seq(Needed) /\ Len(Waiting) = n
            /\ \A i \in 1..n, b \in Needed : Waiting[i] = b <=> place[b] = Served + i
        BY WaitingIs DEF InLine
      <4>2. /\ Waiting' \in Seq(Needed) /\ Len(Waiting') = n + 1
            /\ \A i \in 1..(n + 1), b \in Needed :
                 Waiting'[i] = b <=> place'[b] = Served + i
        <5>1. InLine'
          BY WaitingIsNext
        <5> QED  BY <3>3, <3>4, <5>1 DEF InLine
      <4>3. /\ Append(Waiting, c) \in Seq(Needed) /\ Len(Append(Waiting, c)) = n + 1
            /\ \A i \in 1..n : Append(Waiting, c)[i] = Waiting[i]
            /\ Append(Waiting, c)[n + 1] = c
        BY <3>1, <4>1, AppendProperties
      <4>4. ASSUME NEW i \in 1..(n + 1)
            PROVE  Waiting'[i] = Append(Waiting, c)[i]
        <5>1. CASE i = n + 1
          <6>1. place'[c] = Served + i
            BY <2>0, <2>1, <3>1, <3>3, <5>1 DEF TypeOK
          <6>2. n + 1 \in 1..(n + 1) /\ Waiting'[i] = c
            BY <3>1, <3>4, <4>2, <5>1, <6>1
          <6> QED  BY <4>3, <5>1, <6>2
        <5>2. CASE i \in 1..n
          <6>1. Waiting[i] \in Needed /\ Waiting[i] # c
            BY <3>5, <4>1, <5>2, ElementOfSeq
          <6>2. place[Waiting[i]] = Served + i
            BY <4>1, <5>2, <6>1
          <6>3. place'[Waiting[i]] = Served + i
            BY <2>0, <3>1, <6>1, <6>2 DEF TypeOK
          <6> QED  BY <4>2, <4>3, <5>2, <6>1, <6>3
        <5>3. \A m \in Nat : i \in 1..(m + 1) => i = m + 1 \/ i \in 1..m
          OBVIOUS
        <5>4. i = n + 1 \/ i \in 1..n
          BY <3>4, <5>3
        <5> QED  BY <5>1, <5>2, <5>4
      <4> QED  BY <4>2, <4>3, <4>4, SeqEqual
    <3>7. Len(Waiting) = n
      BY WaitingIs DEF InLine
    <3> QED  BY <3>1, <3>2, <3>5, <3>6, <3>7 DEF Mutex!Join, Waiting, Inside, Over
  <2>2. ASSUME NEW c \in Callers, RunAtOnce(c)
        PROVE  UNCHANGED <<Waiting, Inside, Over>>
    <3>1. Over' = Over /\ Inside' = Inside /\ tail' = tail /\ place' = place
      BY <2>0, <2>2 DEF RunAtOnce, Over, Inside, Settled, TypeOK
    <3> QED  BY <3>1, WaitingStays
  <2>3. ASSUME NEW c \in Callers, Start(c)
        PROVE  Mutex!Enter
    <3>1. /\ state[c] = "chained" /\ Ready(c)
          /\ state' = [state EXCEPT ![c] = "running"]
          /\ UNCHANGED <<tail, place>>
      BY <2>3 DEF Start
    <3>2. c \in Needed
      BY <2>0, <3>1 DEF QueueInv, Chained
    <3>3. Over' = Over /\ Inside' /\ UNCHANGED <<Waiting, Over>>
      <4>1. Over' = Over /\ Inside'
        BY <2>0, <3>1, <3>2 DEF Over, Inside, Settled, TypeOK
      <4> QED  BY <3>1, <4>1, WaitingStays
    <3>4. ~Inside
      BY <2>0, <3>1, <3>2 DEF Inside, OneAtATime, TypeOK
    <3>5. Waiting # <<>>
      BY <3>1, <3>2, HeadRuns
    <3> QED  BY <3>3, <3>4, <3>5 DEF Mutex!Enter, Waiting, Inside, Over
  <2>4. ASSUME NEW c \in Callers, Settle(c)
        PROVE  Mutex!Leave \/ UNCHANGED <<Waiting, Inside, Over>>
    <3>1. /\ state[c] = "running" /\ UNCHANGED <<tail, place>>
          /\ \E outcome \in {"fulfilled", "rejected"} :
               state' = [state EXCEPT ![c] = outcome]
      BY <2>4 DEF Settle
    <3>2. CASE c \notin Needed
      <4>1. Over' = Over /\ Inside' = Inside
        BY <2>0, <3>1, <3>2 DEF Over, Inside, Settled, TypeOK
      <4> QED  BY <3>1, <4>1, WaitingStays
    <3>3. CASE c \in Needed
      <4>1. /\ Over' = Over \cup {c} /\ c \notin Over /\ Inside /\ ~Inside'
        BY <2>0, <3>1, <3>3 DEF Over, Inside, Settled, OneAtATime, TypeOK
      <4>2. Waiting # <<>> /\ Head(Waiting) = c
        BY <3>1, <3>3, HeadRuns
      <4>3. Served' = Served + 1 /\ Served \in Nat /\ tail \in Nat
        <5>1. IsFiniteSet(Over)
          BY DEF ServedInv, SettledFirst, Over
        <5> QED  BY <2>0, <4>1, <5>1, FS_AddElement, ServedIsOver, ServedCounts DEF TypeOK
      <4>4. Waiting' = Tail(Waiting)
        <5> DEFINE n == tail - Served
        <5>1. /\ Waiting \in Seq(Needed) /\ Len(Waiting) = n /\ n \in Nat
              /\ \A i \in 1..n, b \in Needed : Waiting[i] = b <=> place[b] = Served + i
          BY WaitingIs DEF InLine
        <5>2. /\ Waiting' \in Seq(Needed) /\ Len(Waiting') = n - 1
              /\ \A i \in 1..(n - 1), b \in Needed :
                   Waiting'[i] = b <=> place[b] = Served + 1 + i
          <6>1. InLine'
            BY WaitingIsNext
          <6> QED  BY <3>1, <4>3, <6>1 DEF InLine
        <5>3. /\ Tail(Waiting) \in Seq(Needed) /\ Len(Tail(Waiting)) = n - 1
              /\ \A i \in 1..(n - 1) : Tail(Waiting)[i] = Waiting[i + 1]
          BY <4>2, <5>1, HeadTailProperties
        <5>4. ASSUME NEW i \in 1..(n - 1)
              PROVE  Waiting'[i] = Tail(Waiting)[i]
          <6>1. i + 1 \in 1..n /\ Served + (i + 1) = Served + 1 + i
            BY <4>3, <5>1
          <6>2. Waiting[i + 1] \in Needed
            BY <5>1, <6>1, ElementOfSeq
          <6>3. place[Waiting[i + 1]] = Served + 1 + i
            BY <5>1, <6>1, <6>2
          <6> QED  BY <5>2, <5>3, <6>2, <6>3
        <5> QED  BY <5>2, <5>3, <5>4, SeqEqual
      <4> QED  BY <4>1, <4>2, <4>4 DEF Mutex!Leave, Waiting, Inside, Over
    <3> QED  BY <3>2, <3>3
  <2>5. CASE UNCHANGED vars
    <3>1. Over' = Over /\ Inside' = Inside /\ tail' = tail /\ place' = place
      BY <2>5 DEF vars, Over, Inside, Settled
    <3> QED  BY <3>1, WaitingStays
  <2> QED  BY <2>1, <2>2, <2>3, <2>4, <2>5, Zenon DEF Next, Mutex!Next
<1> QED  BY <1>1, <1>2, SettlesInOrder, PTL DEF Spec

-----------------------------------------------------------------------------
(* The line locks *)

(* The sheet of a user fits the calls of his browser: only his line is     *)
(* claimed for the sheet; while it opens, its claim is the last call; once *)
(* it is open, nothing older is under way that could let the line go.      *)
Fits(sh, cs) ==
  /\ \A i \in 1..Len(cs) :
       cs[i].op = "acquire" => sh # Shut /\ cs[i].line = sh.line
  /\ sh # Shut /\ sh.at = "opening" =>
       /\ Len(cs) > 0 /\ cs[Len(cs)].op = "acquire"
       /\ \A i \in 1..Len(cs) : i < Len(cs) => cs[i].op # "acquire"
  /\ sh # Shut /\ sh.at \in {"open", "away"} =>
       Len(cs) <= 1 /\ \A i \in 1..Len(cs) : cs[i].op = "acquire"

CallsFit == \A u \in Users : Fits(sheet[u], calls[u])

(* Whoever has a line on an open sheet holds a live claim on it. *)
OpenHolds == \A u \in Users, l \in Lines : OpenOn(u, l) => HeldBy(u, l) /\ IsLive(l)

LocksInv == LockTypeOK /\ CallsFit /\ OpenHolds

-----------------------------------------------------------------------------
(* Sequences of calls                                                      *)

(* A positive number that is not above one is one. *)
LEMMA OneIsLeft == \A n \in Nat : n > 0 /\ ~(1 < n) => n = 1
OBVIOUS

(* A call made last leaves the earlier ones where they are. *)
LEMMA AppendCall ==
  ASSUME NEW cs \in Seq(Calls), NEW c \in Calls
  PROVE  /\ Append(cs, c) \in Seq(Calls)
         /\ Len(cs) \in Nat /\ Len(Append(cs, c)) = Len(cs) + 1
         /\ \A i \in 1..Len(cs) : Append(cs, c)[i] = cs[i]
         /\ Append(cs, c)[Len(cs) + 1] = c
BY AppendProperties, LenProperties

(* A call that ends lets the others move up. *)
LEMMA TailCalls ==
  ASSUME NEW cs \in Seq(Calls), cs # <<>>
  PROVE  /\ Head(cs) = cs[1] /\ Head(cs) \in Calls
         /\ Tail(cs) \in Seq(Calls)
         /\ Len(cs) \in Nat /\ Len(cs) > 0 /\ Len(Tail(cs)) = Len(cs) - 1
         /\ \A i \in 1..Len(cs) - 1 : Tail(cs)[i] = cs[i + 1]
         /\ Len(cs) = 1 => Tail(cs) = <<>>
<1>1. /\ Head(cs) = cs[1] /\ Head(cs) \in Calls
      /\ Tail(cs) \in Seq(Calls)
      /\ Len(cs) \in Nat /\ Len(cs) > 0 /\ Len(Tail(cs)) = Len(cs) - 1
      /\ \A i \in 1..Len(cs) - 1 : Tail(cs)[i] = cs[i + 1]
  BY HeadTailProperties, LenProperties, EmptySeq
<1>2. Tail(cs) # <<>> => Len(Tail(cs)) \in Nat \ {0}
  BY <1>1, EmptySeq
<1> QED  BY <1>1, <1>2

(* Abandoned calls are as many as before, and none claims for a sheet. *)
LEMMA AbandonedCalls ==
  ASSUME NEW cs \in Seq(Calls)
  PROVE  /\ Abandoned(cs) \in Seq(Calls)
         /\ Len(Abandoned(cs)) = Len(cs)
         /\ \A i \in 1..Len(cs) : Abandoned(cs)[i].op # "acquire"
<1>1. Len(cs) \in Nat /\ DOMAIN cs = 1..Len(cs) /\ \A i \in 1..Len(cs) : cs[i] \in Calls
  BY LenProperties, ElementOfSeq
<1>2. ASSUME NEW i \in 1..Len(cs)
      PROVE  Abandoned(cs)[i] \in Calls /\ Abandoned(cs)[i].op # "acquire"
  <2>1. cs[i] \in Calls
    BY <1>1
  <2>2. Abandoned(cs)[i] =
          IF cs[i].op = "acquire" THEN [cs[i] EXCEPT !.op = "abandoned"] ELSE cs[i]
    BY <1>1 DEF Abandoned
  <2>3. [cs[i] EXCEPT !.op = "abandoned"] \in Calls
        /\ [cs[i] EXCEPT !.op = "abandoned"].op = "abandoned"
    BY <2>1 DEF Calls
  <2> QED  BY <2>1, <2>2, <2>3
<1>3. Abandoned(cs) \in [1..Len(cs) -> Calls]
  BY <1>1, <1>2 DEF Abandoned
<1>4. Abandoned(cs) \in Seq(Calls)
  BY <1>1, <1>3
<1>5. Len(Abandoned(cs)) = Len(cs)
  BY <1>1, <1>3, <1>4, LenProperties
<1> QED  BY <1>2, <1>4, <1>5

-----------------------------------------------------------------------------
(* Fits, step by step                                                      *)

(* A sheet that closes leaves calls that claim for no sheet. *)
LEMMA ShutFits ==
  ASSUME NEW cs \in Seq(Calls), NEW l \in Lines
  PROVE  /\ Fits(Shut, Abandoned(cs))
         /\ Append(Abandoned(cs), [op |-> "release", line |-> l]) \in Seq(Calls)
         /\ Fits(Shut, Append(Abandoned(cs), [op |-> "release", line |-> l]))
<1>1. [op |-> "release", line |-> l] \in Calls
  BY DEF Calls
<1> QED  BY <1>1, AbandonedCalls, AppendCall DEF Fits

(* A sheet opens: its claim is the last of the calls. *)
LEMMA OpeningFits ==
  ASSUME NEW cs \in Seq(Calls), NEW l \in Lines, Fits(Shut, cs)
  PROVE  /\ Append(cs, [op |-> "acquire", line |-> l]) \in Seq(Calls)
         /\ Fits([at |-> "opening", line |-> l],
                 Append(cs, [op |-> "acquire", line |-> l]))
<1> DEFINE c == [op |-> "acquire", line |-> l]
<1>1. c \in Calls
  BY DEF Calls
<1>2. [at |-> "opening", line |-> l] # Shut
  BY DEF Shut
<1>3. \A i \in 1..Len(cs) : cs[i].op # "acquire"
  BY DEF Fits
<1> QED  BY <1>1, <1>2, <1>3, AppendCall DEF Fits

(* The head of the calls is served and the sheet does not open or close. *)
LEMMA ServedFits ==
  ASSUME NEW sh \in Sheets, NEW cs \in Seq(Calls), cs # <<>>, Fits(sh, cs),
         ~(sh # Shut /\ sh.at = "opening" /\ Head(cs).op = "acquire")
  PROVE  Fits(sh, Tail(cs))
<1>1. CASE sh # Shut /\ sh.at = "opening"
  <2>1. Len(cs) > 1
    BY <1>1, TailCalls DEF Fits
  <2> QED  BY <1>1, <2>1, TailCalls DEF Fits
<1>2. CASE ~(sh # Shut /\ sh.at = "opening")
  BY <1>2, TailCalls DEF Fits
<1> QED  BY <1>1, <1>2

(* A sheet that is open needs no calls. *)
LEMMA NoCallsFit ==
  ASSUME NEW sh, NEW cs, cs = <<>>, sh # Shut, sh.at = "open"
  PROVE  Fits(sh, cs)
<1>1. Len(cs) = 0
  BY EmptySeq
<1>2. 1..Len(cs) = {}
  BY <1>1
<1> QED  BY <1>1, <1>2 DEF Fits

(* The claim of a sheet that opens is the only call. *)
LEMMA OpeningIsAlone ==
  ASSUME NEW sh \in Sheets, NEW cs \in Seq(Calls), cs # <<>>, Fits(sh, cs),
         sh # Shut, sh.at = "opening", Head(cs).op = "acquire"
  PROVE  Len(cs) = 1 /\ Tail(cs) = <<>>
<1>1. Len(cs) \in Nat /\ Len(cs) > 0 /\ cs[1].op = "acquire"
  BY TailCalls
<1>2. 1 \in 1..Len(cs)
  BY <1>1
<1>3. \A i \in 1..Len(cs) : i < Len(cs) => cs[i].op # "acquire"
  BY DEF Fits
<1>4. Len(cs) = 1
  BY <1>1, <1>2, <1>3, OneIsLeft, Zenon
<1> QED  BY <1>4, TailCalls, Zenon

-----------------------------------------------------------------------------
(* The steps                                                               *)

(* A call is denied: the sheet that was opening shuts, or the call is      *)
(* dropped. *)
LEMMA DeniedFits ==
  ASSUME LockTypeOK, NEW u \in Users, calls[u] # <<>>, Fits(sheet[u], calls[u]),
         Denied(u, Tail(calls[u]))
  PROVE  /\ sheet' \in [Users -> Sheets] /\ calls' \in [Users -> Seq(Calls)]
         /\ Fits(sheet'[u], calls'[u])
         /\ sheet'[u] \in {sheet[u], Shut}
         /\ \A v \in Users \ {u} : sheet'[v] = sheet[v] /\ calls'[v] = calls[v]
<1> DEFINE closes == sheet[u] # Shut /\ sheet[u].at = "opening"
                       /\ Head(calls[u]).op = "acquire"
<1>1. /\ sheet \in [Users -> Sheets] /\ calls \in [Users -> Seq(Calls)]
      /\ sheet[u] \in Sheets /\ calls[u] \in Seq(Calls) /\ Tail(calls[u]) \in Seq(Calls)
  BY TailCalls DEF LockTypeOK
<1>2. CASE closes
  <2>1. sheet[u].line \in Lines
    BY <1>1, <1>2 DEF Sheets
  <2> DEFINE cs == Append(Abandoned(Tail(calls[u])),
                          [op |-> "release", line |-> sheet[u].line])
  <2>2. cs \in Seq(Calls) /\ Fits(Shut, cs) /\ Shut \in Sheets
    BY <1>1, <2>1, ShutFits DEF Sheets
  <2>3. sheet' = [sheet EXCEPT ![u] = Shut] /\ calls' = [calls EXCEPT ![u] = cs]
    BY <1>2 DEF Denied
  <2> QED  BY <1>1, <2>2, <2>3
<1>3. CASE ~closes
  <2>1. sheet' = sheet /\ calls' = [calls EXCEPT ![u] = Tail(calls[u])]
    BY <1>3 DEF Denied
  <2>2. Fits(sheet[u], Tail(calls[u]))
    BY <1>1, <1>3, ServedFits
  <2> QED  BY <1>1, <2>1, <2>2
<1> QED  BY <1>2, <1>3

(* Claims that stay, for sheets that do not open, keep the invariant. *)
LEMMA KeepsHolding ==
  ASSUME OpenHolds, NEW u \in Users, lock' = lock,
         sheet'[u] # Shut => sheet'[u].at # "open" \/ sheet'[u] = sheet[u],
         \A v \in Users \ {u} : sheet'[v] = sheet[v]
  PROVE  OpenHolds'
BY DEF OpenHolds, OpenOn, OnLine, HeldBy, Held, IsLive

(* No step of a browser, the server or the clock takes a line off an open  *)
(* sheet. *)
LEMMA LockStepPreserves ==
  ASSUME LocksInv, [LockNext]_lockVars
  PROVE  LocksInv'
<1> USE LocksAssumption
<1>0. /\ lock \in [Lines -> Locks] /\ sheet \in [Users -> Sheets]
      /\ calls \in [Users -> Seq(Calls)] /\ bill \in Bills
      /\ CallsFit /\ OpenHolds /\ LockTypeOK
  BY DEF LocksInv, LockTypeOK
<1>1. ASSUME NEW u \in Users, NEW l \in Lines, OpenSheet(u, l)
      PROVE  LocksInv'
  <2> DEFINE sh == [at |-> "opening", line |-> l]
             cs == Append(calls[u], [op |-> "acquire", line |-> l])
  <2>1. /\ sheet[u] = Shut /\ UNCHANGED <<lock, bill>>
        /\ sheet' = [sheet EXCEPT ![u] = sh] /\ calls' = [calls EXCEPT ![u] = cs]
    BY <1>1 DEF OpenSheet, Send
  <2>2. sh \in Sheets /\ sh # Shut /\ cs \in Seq(Calls) /\ Fits(sh, cs)
    BY <1>0, <2>1, OpeningFits DEF CallsFit, Sheets, Shut
  <2>3. LockTypeOK' /\ CallsFit'
    BY <1>0, <2>1, <2>2 DEF LockTypeOK, CallsFit
  <2>4. OpenHolds'
    BY <1>0, <2>1, KeepsHolding
  <2> QED  BY <2>3, <2>4 DEF LocksInv
<1>2. ASSUME NEW u \in Users, Heartbeat(u)
      PROVE  LocksInv'
  <2> DEFINE cs == Append(calls[u], [op |-> "acquire", line |-> sheet[u].line])
  <2>1. /\ sheet[u] # Shut /\ sheet[u].at \in {"open", "away"} /\ calls[u] = <<>>
        /\ calls' = [calls EXCEPT ![u] = cs] /\ UNCHANGED <<lock, sheet, bill>>
    BY <1>2 DEF Heartbeat, Send
  <2>2. [op |-> "acquire", line |-> sheet[u].line] \in Calls
    BY <1>0, <2>1 DEF Sheets, Calls
  <2>3. cs \in Seq(Calls) /\ Len(cs) = 1 /\ cs[1] = [op |-> "acquire", line |-> sheet[u].line]
    BY <1>0, <2>1, <2>2, AppendCall, EmptySeq
  <2>4. Fits(sheet[u], cs)
    BY <2>1, <2>3 DEF Fits
  <2>5. LockTypeOK' /\ CallsFit'
    BY <1>0, <2>1, <2>3, <2>4 DEF LockTypeOK, CallsFit
  <2>6. OpenHolds'
    BY <1>0, <2>1, KeepsHolding
  <2> QED  BY <2>5, <2>6 DEF LocksInv
<1>3. ASSUME NEW u \in Users, CloseSheet(u) \/ Vanish(u)
      PROVE  LocksInv'
  <2>1. PICK cs \in Seq(Calls) :
          /\ calls' = [calls EXCEPT ![u] = cs] /\ Fits(Shut, cs)
          /\ sheet' = [sheet EXCEPT ![u] = Shut] /\ UNCHANGED <<lock, bill>>
    <3>1. calls[u] \in Seq(Calls) /\ sheet[u] \in Sheets /\ Shut \in Sheets
      BY <1>0 DEF Sheets
    <3>2. CASE CloseSheet(u)
      <4>1. sheet[u].line \in Lines
        BY <3>1, <3>2 DEF CloseSheet, Sheets
      <4> QED  BY <3>1, <3>2, <4>1, ShutFits DEF CloseSheet
    <3>3. CASE Vanish(u)
      <4>1. sheet[u].line \in Lines
        BY <3>1, <3>3 DEF Vanish, Sheets
      <4> QED  BY <3>1, <3>3, <4>1, AbandonedCalls, ShutFits DEF Vanish
    <3> QED  BY <1>3, <3>2, <3>3
  <2>2. LockTypeOK' /\ CallsFit'
    BY <1>0, <2>1 DEF LockTypeOK, CallsFit, Sheets
  <2>3. OpenHolds'
    BY <1>0, <2>1, KeepsHolding
  <2> QED  BY <2>2, <2>3 DEF LocksInv
<1>4. ASSUME NEW u \in Users, GoAway(u)
      PROVE  LocksInv'
  <2> DEFINE sh == [sheet[u] EXCEPT !.at = "away"]
  <2>1. /\ sheet[u] # Shut /\ sheet[u].at = "open"
        /\ sheet' = [sheet EXCEPT ![u] = sh] /\ UNCHANGED <<lock, calls, bill>>
    BY <1>4 DEF GoAway
  <2>2. sh \in Sheets /\ sh # Shut /\ sh.at = "away" /\ sh.line = sheet[u].line
    BY <1>0, <2>1 DEF Sheets, Shut
  <2>3. Fits(sh, calls[u])
    BY <1>0, <2>1, <2>2 DEF CallsFit, Fits
  <2>4. LockTypeOK' /\ CallsFit'
    BY <1>0, <2>1, <2>2, <2>3 DEF LockTypeOK, CallsFit
  <2>5. OpenHolds'
    BY <1>0, <2>1, <2>2, KeepsHolding
  <2> QED  BY <2>4, <2>5 DEF LocksInv
(* An opening sheet whose claim is lost shuts; an open one is away. *)
<1>5. ASSUME NEW u \in Users, LoseCall(u)
      PROVE  LocksInv'
  <2>1. calls[u] # <<>> /\ UNCHANGED <<lock, bill>> /\ Fits(sheet[u], calls[u])
    BY <1>0, <1>5 DEF LoseCall, CallsFit
  <2>2. CASE OpenOn(u, Head(calls[u]).line) /\ Head(calls[u]).op = "acquire"
    <3> DEFINE sh == [sheet[u] EXCEPT !.at = "away"]
    <3>1. /\ sheet[u] # Shut /\ sheet[u].at = "open"
          /\ sheet' = [sheet EXCEPT ![u] = sh]
          /\ calls' = [calls EXCEPT ![u] = Tail(calls[u])]
      BY <1>5, <2>2 DEF LoseCall, OpenOn, OnLine
    <3>2. sh \in Sheets /\ sh # Shut /\ sh.at = "away" /\ sh.line = sheet[u].line
      BY <1>0, <3>1 DEF Sheets, Shut
    <3>3. Fits(sheet[u], Tail(calls[u])) /\ Tail(calls[u]) \in Seq(Calls)
      BY <1>0, <2>1, <3>1, ServedFits, TailCalls
    <3>4. Fits(sh, Tail(calls[u]))
      BY <3>1, <3>2, <3>3 DEF Fits
    <3>5. LockTypeOK' /\ CallsFit'
      BY <1>0, <2>1, <3>1, <3>2, <3>3, <3>4 DEF LockTypeOK, CallsFit
    <3>6. OpenHolds'
      BY <1>0, <2>1, <3>1, <3>2, KeepsHolding
    <3> QED  BY <3>5, <3>6 DEF LocksInv
  <2>3. CASE ~(OpenOn(u, Head(calls[u]).line) /\ Head(calls[u]).op = "acquire")
    <3>1. Denied(u, Tail(calls[u]))
      BY <1>5, <2>3 DEF LoseCall
    <3>2. LockTypeOK' /\ CallsFit' /\ OpenHolds'
      BY <1>0, <2>1, <3>1, DeniedFits, KeepsHolding DEF LockTypeOK, CallsFit
    <3> QED  BY <3>2 DEF LocksInv
  <2> QED  BY <2>2, <2>3
(* The claim of a user frees his other lines and nobody else's. *)
<1>6. ASSUME NEW u \in Users, Acquire(u)
      PROVE  LocksInv'
  <2> DEFINE l == Head(calls[u]).line
             opens == Head(calls[u]).op = "acquire" /\ sheet[u].at = "opening"
  <2>1. /\ calls[u] # <<>> /\ Head(calls[u]).op # "release" /\ ~Refused(u, l)
        /\ lock' = Claimed(u, l) /\ bill' = bill
        /\ \/ /\ calls' = [calls EXCEPT ![u] = Tail(calls[u])]
              /\ sheet' = IF opens THEN [sheet EXCEPT ![u].at = "open"] ELSE sheet
           \/ Denied(u, Tail(calls[u]))
    BY <1>6 DEF Acquire
  <2>2. /\ l \in Lines /\ sheet[u] \in Sheets /\ calls[u] \in Seq(Calls)
        /\ Fits(sheet[u], calls[u]) /\ Head(calls[u]) = calls[u][1]
        /\ Len(calls[u]) \in Nat /\ Len(calls[u]) > 0 /\ Tail(calls[u]) \in Seq(Calls)
    BY <1>0, <2>1, TailCalls DEF CallsFit, Calls
  <2>3. /\ lock' \in [Lines -> Locks]
        /\ lock'[l] = [user |-> u, age |-> 0]
        /\ \A m \in Lines \ {l} : ~HeldBy(u, m) => lock'[m] = lock[m]
    BY <1>0, <2>1, <2>2 DEF Claimed, Locks, Free
  <2>4. /\ sheet' \in [Users -> Sheets] /\ calls' \in [Users -> Seq(Calls)]
        /\ Fits(sheet'[u], calls'[u])
        /\ \A v \in Users \ {u} : sheet'[v] = sheet[v] /\ calls'[v] = calls[v]
        /\ \/ sheet'[u] \in {sheet[u], Shut}
           \/ sheet'[u].line = l
    <3>1. CASE Denied(u, Tail(calls[u]))
      BY <1>0, <2>1, <2>2, <3>1, DeniedFits
    <3>2. CASE /\ calls' = [calls EXCEPT ![u] = Tail(calls[u])]
               /\ sheet' = IF opens THEN [sheet EXCEPT ![u].at = "open"] ELSE sheet
      <4>1. CASE opens
        <5> DEFINE sh == [sheet[u] EXCEPT !.at = "open"]
        <5>1. sheet[u] # Shut
          BY <4>1 DEF Shut
        <5>2. /\ sh \in Sheets /\ sh # Shut /\ sh.at = "open"
              /\ sh.line = sheet[u].line
          BY <2>2, <4>1, <5>1 DEF Sheets, Shut
        <5>3. Fits(sh, Tail(calls[u]))
          <6>1. Fits(sheet[u], calls[u]) /\ sheet[u].at = "opening"
            BY <2>2, <4>1
          <6>2. Tail(calls[u]) = <<>>
            BY <2>1, <2>2, <4>1, <5>1, <6>1, OpeningIsAlone
          <6> QED  BY <5>2, <6>2, NoCallsFit
        <5>4. sheet[u].line = l
          BY <2>2, <4>1 DEF Fits
        <5>5. sheet' = [sheet EXCEPT ![u] = sh]
          BY <3>2, <4>1
        <5> QED  BY <1>0, <2>2, <3>2, <5>2, <5>3, <5>4, <5>5
      <4>2. CASE ~opens
        <5>1. Fits(sheet[u], Tail(calls[u]))
          BY <2>1, <2>2, <4>2, ServedFits
        <5> QED  BY <1>0, <2>2, <3>2, <4>2, <5>1
      <4> QED  BY <4>1, <4>2
    <3> QED  BY <2>1, <3>1, <3>2
  <2>5. LockTypeOK' /\ CallsFit'
    BY <1>0, <2>1, <2>3, <2>4 DEF LockTypeOK, CallsFit
  <2>6. ASSUME NEW v \in Users, NEW m \in Lines, OpenOn(v, m)'
        PROVE  (HeldBy(v, m) /\ IsLive(m))'
    <3>1. CASE v = u
      <4>1. m = l
        <5>1. CASE sheet'[u] = sheet[u]
          <6>1. sheet[u] # Shut /\ sheet[u].at = "open" /\ sheet[u].line = m
            BY <2>6, <3>1, <5>1 DEF OpenOn, OnLine
          <6>2. calls[u][1].op = "acquire" /\ calls[u][1].line = m
            BY <2>2, <6>1 DEF Fits
          <6> QED  BY <2>2, <6>2
        <5>2. CASE sheet'[u] # sheet[u]
          BY <2>4, <2>6, <3>1, <5>2 DEF OpenOn, OnLine
        <5> QED  BY <5>1, <5>2
      <4> QED  BY <2>3, <3>1, <4>1 DEF HeldBy, Held, IsLive, Free
    <3>2. CASE v # u
      <4>1. OpenOn(v, m) /\ HeldBy(v, m) /\ IsLive(m) /\ ~HeldBy(u, m)
        BY <1>0, <2>4, <2>6, <3>2 DEF OpenHolds, OpenOn, OnLine, HeldBy
      <4>2. m # l
        BY <2>1, <4>1 DEF Refused, HeldBy
      <4> QED  BY <2>3, <4>1, <4>2 DEF HeldBy, Held, IsLive
    <3> QED  BY <3>1, <3>2
  <2> QED  BY <2>5, <2>6 DEF LocksInv, OpenHolds
<1>7. ASSUME NEW u \in Users, Refuse(u)
      PROVE  LocksInv'
  <2>1. /\ calls[u] # <<>> /\ UNCHANGED <<lock, bill>> /\ Fits(sheet[u], calls[u])
        /\ Denied(u, Tail(calls[u]))
    BY <1>0, <1>7 DEF Refuse, CallsFit
  <2>2. LockTypeOK' /\ CallsFit' /\ OpenHolds'
    BY <1>0, <2>1, DeniedFits, KeepsHolding DEF LockTypeOK, CallsFit
  <2> QED  BY <2>2 DEF LocksInv
(* A release is never under way while its sheet is open. *)
<1>8. ASSUME NEW u \in Users, Release(u)
      PROVE  LocksInv'
  <2> DEFINE l == Head(calls[u]).line
  <2>1. /\ calls[u] # <<>> /\ Head(calls[u]).op = "release"
        /\ lock' = IF HeldBy(u, l) THEN [lock EXCEPT ![l] = Free] ELSE lock
        /\ calls' = [calls EXCEPT ![u] = Tail(calls[u])] /\ UNCHANGED <<sheet, bill>>
    BY <1>8 DEF Release
  <2>2. /\ l \in Lines /\ sheet[u] \in Sheets /\ calls[u] \in Seq(Calls)
        /\ Fits(sheet[u], calls[u]) /\ Head(calls[u]) = calls[u][1]
        /\ Len(calls[u]) \in Nat /\ Len(calls[u]) > 0 /\ Tail(calls[u]) \in Seq(Calls)
    BY <1>0, <2>1, TailCalls DEF CallsFit, Calls
  <2>3. Fits(sheet[u], Tail(calls[u]))
    BY <2>1, <2>2, ServedFits
  <2>4. LockTypeOK' /\ CallsFit'
    BY <1>0, <2>1, <2>2, <2>3 DEF LockTypeOK, CallsFit, Locks
  <2>5. ~(sheet[u] # Shut /\ sheet[u].at = "open")
    BY <2>1, <2>2 DEF Fits
  <2>6. ASSUME NEW v \in Users, NEW m \in Lines, OpenOn(v, m)'
        PROVE  (HeldBy(v, m) /\ IsLive(m))'
    <3>1. v # u /\ HeldBy(v, m) /\ IsLive(m)
      BY <1>0, <2>1, <2>5, <2>6 DEF OpenHolds, OpenOn, OnLine
    <3>2. lock'[m] = lock[m]
      BY <1>0, <2>1, <2>2, <3>1 DEF HeldBy
    <3> QED  BY <3>1, <3>2 DEF HeldBy, Held, IsLive
  <2> QED  BY <2>4, <2>6 DEF LocksInv, OpenHolds
<1>9. CASE \/ \E u \in Users, c \in Parties : CheckHolder(u, c)
           \/ SaveBill
           \/ UNCHANGED lockVars
  <2>1. UNCHANGED <<lock, sheet, calls>> /\ bill' \in Bills
    BY <1>0, <1>9 DEF CheckHolder, SaveBill, lockVars, Bills, NoBill
  <2> QED  BY <1>0, <2>1 DEF LocksInv, LockTypeOK, CallsFit, OpenHolds, OpenOn, OnLine,
                             HeldBy, Held, IsLive
(* The clock waits for sheets that renew in time. *)
<1>10. CASE Tick
  <2>1. /\ \A u \in Users, l \in Lines : OpenOn(u, l) /\ HeldBy(u, l) => lock[l].age + 1 < Ttl
        /\ lock' = [l \in Lines |->
             IF Held(l) /\ IsLive(l) THEN [lock[l] EXCEPT !.age = lock[l].age + 1] ELSE lock[l]]
        /\ UNCHANGED <<sheet, calls, bill>>
    BY <1>10 DEF Tick
  <2>2. ASSUME NEW l \in Lines, Held(l), IsLive(l)
        PROVE  /\ lock'[l] \in [user: Users, age: 0..Ttl]
               /\ lock'[l].user = lock[l].user /\ lock'[l].age = lock[l].age + 1
    <3>1. lock[l] \in [user: Users, age: 0..Ttl] /\ lock[l].age + 1 \in 0..Ttl
      BY <1>0, <2>2 DEF Held, IsLive, Locks
    <3> QED  BY <2>1, <2>2, <3>1
  <2>3. lock' \in [Lines -> Locks]
    BY <1>0, <2>1, <2>2 DEF Locks
  <2>4. LockTypeOK' /\ CallsFit'
    BY <1>0, <2>1, <2>3 DEF LockTypeOK, CallsFit
  <2>5. ASSUME NEW v \in Users, NEW m \in Lines, OpenOn(v, m)'
        PROVE  (HeldBy(v, m) /\ IsLive(m))'
    <3>1. OpenOn(v, m) /\ HeldBy(v, m) /\ IsLive(m) /\ lock[m].age + 1 < Ttl
      BY <1>0, <2>1, <2>5 DEF OpenHolds, OpenOn, OnLine
    <3>2. lock'[m].user = v /\ lock'[m].age = lock[m].age + 1
      BY <2>2, <3>1 DEF HeldBy
    <3> QED  BY <3>1, <3>2 DEF HeldBy, Held, IsLive, Free
  <2> QED  BY <2>4, <2>5 DEF LocksInv, OpenHolds
<1>11. ASSUME NEW u \in Users,
              \/ \E l \in Lines : OpenSheet(u, l)
              \/ Heartbeat(u) \/ CloseSheet(u) \/ Vanish(u) \/ GoAway(u) \/ LoseCall(u)
              \/ Acquire(u) \/ Refuse(u) \/ Release(u)
       PROVE  LocksInv'
  BY <1>1, <1>2, <1>3, <1>4, <1>5, <1>6, <1>7, <1>8, <1>11, Zenon
<1> QED  BY <1>9, <1>10, <1>11, Zenon DEF LockNext

-----------------------------------------------------------------------------
(* Locks, sheets, calls and the challan under way keep their shape, and    *)
(* the line of an open sheet stays claimed and live for its user. *)
THEOREM OpenSheetsHold == LockSpec => []LocksInv
<1>1. LockInit => LocksInv
  BY LocksAssumption, EmptySeq DEF LockInit, LocksInv, LockTypeOK, CallsFit, Fits, OpenHolds,
     OpenOn, OnLine, Locks, Free, Sheets, Bills
<1>2. LocksInv /\ [LockNext]_lockVars => LocksInv'
  BY LockStepPreserves
<1> QED  BY <1>1, <1>2, PTL DEF LockSpec

(* The types of what dispatch.service.ts and the sheets keep. *)
THEOREM LocksTypeCorrect == LockSpec => []LockTypeOK
<1>1. LocksInv => LockTypeOK
  BY DEF LocksInv
<1> QED  BY <1>1, OpenSheetsHold, PTL

(* However calls and answers are lost and tabs vanish, two sheets that     *)
(* renew their claims never have one line open (acquireLock). *)
THEOREM OneOpenSheet == LockSpec => []OneSheetPerLine
<1>1. LocksInv => OneSheetPerLine
  BY DEF LocksInv, OpenHolds, OneSheetPerLine, HeldBy
<1> QED  BY <1>1, OpenSheetsHold, PTL

(* No challan passes the check in ChallansService.create beside an open    *)
(* sheet of another user, unless its maker dispatches for the party too. *)
THEOREM QuietBilling == LockSpec => BillsWhenQuiet
<1>1. LocksInv /\ [LockNext]_lockVars =>
        [\A u, v \in Users, l \in Lines :
           CheckHolder(u, PartyOf[l]) /\ u # v /\ OpenOn(v, l)
             => Dispatches(u, PartyOf[l])]_lockVars
  <2> SUFFICES ASSUME LocksInv, NEW u \in Users, NEW v \in Users, NEW l \in Lines,
                      CheckHolder(u, PartyOf[l]), OpenOn(v, l)
               PROVE  Dispatches(u, PartyOf[l])
    OBVIOUS
  <2>1. l \in LiveFor(PartyOf[l])
    BY DEF LocksInv, OpenHolds, HeldBy, LiveFor
  <2> QED  BY <2>1 DEF CheckHolder, MayBill, Dispatches
<1> QED  BY <1>1, OpenSheetsHold, PTL DEF LockSpec, BillsWhenQuiet

-----------------------------------------------------------------------------
(* The pending pool *)

(* What computePendingLines keeps and what its requests remember is a pool *)
(* of order lines, or nothing.                                             *)
THEOREM PoolTypeCorrect == PoolSpec => []PoolTypeOK
<1> USE PoolAssumption
<1>1. PoolInit => PoolTypeOK
  BY DEF PoolInit, PoolTypeOK
<1>2. PoolTypeOK /\ [PoolNext]_poolVars => PoolTypeOK'
  <2> SUFFICES ASSUME PoolTypeOK, [PoolNext]_poolVars
               PROVE  PoolTypeOK'
    OBVIOUS
  <2> USE DEF PoolTypeOK
  <2>1. ASSUME NEW k \in Readers, ReadLines(k) \/ FillCache(k)
        PROVE  PoolTypeOK'
    BY <2>1 DEF ReadLines, FillCache
  <2>2. ASSUME NEW w \in Writers, NEW l \in Items, Dispatch(w, l) \/ GiveBack(w, l)
        PROVE  PoolTypeOK'
    BY <2>2 DEF Dispatch, GiveBack
  <2>3. ASSUME NEW w \in Writers, Invalidate(w) \/ PickFromPool(w)
        PROVE  PoolTypeOK'
    BY <2>3 DEF Invalidate, PickFromPool
  <2>4. CASE Expire \/ EditOrders
    BY <2>4 DEF Expire, EditOrders
  <2>5. CASE UNCHANGED poolVars
    BY <2>5 DEF poolVars
  <2> QED  BY <2>1, <2>2, <2>3, <2>4, <2>5 DEF PoolNext
<1> QED  BY <1>1, <1>2, PTL DEF PoolSpec

-----------------------------------------------------------------------------
(* The process *)

(* The three share nothing: what is true of each of them on its own is     *)
(* true of it in the process.                                              *)
THEOREM PartsOfTheProcess == MemorySpec => Spec /\ LockSpec /\ PoolSpec
<1>1. MemoryInit => Init /\ LockInit /\ PoolInit
  BY DEF MemoryInit
<1>2. [MemoryNext]_<<part, vars, lockVars, poolVars>> =>
        [Next]_vars /\ [LockNext]_lockVars /\ [PoolNext]_poolVars
  BY DEF MemoryNext
<1> QED  BY <1>1, <1>2, PTL DEF MemorySpec, Spec, LockSpec, PoolSpec

(* Locks, sheets, calls, and the pool and its cache keep their types. *)
THEOREM LocksAndPoolTypeCorrect == MemorySpec => []LocksAndPoolTypeOK
<1>1. LockTypeOK /\ PoolTypeOK => LocksAndPoolTypeOK
  BY DEF LocksAndPoolTypeOK
<1> QED  BY <1>1, PartsOfTheProcess, LocksTypeCorrect, PoolTypeCorrect, PTL
=============================================================================
