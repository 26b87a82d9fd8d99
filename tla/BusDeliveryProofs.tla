--------------------------- MODULE BusDeliveryProofs ---------------------------
(***************************************************************************)
(* Proofs about BusDelivery: type correctness, order, and no loss within    *)
(* the capacity of the channel, for any receivers, events and capacity.     *)
(***************************************************************************)
EXTENDS BusDelivery, TLAPS

(* What NoLossWithinCapacity needs to be inductive: a receiver's cursor is  *)
(* never before its start, and nothing it was handed lies after its cursor. *)
CursorOK ==
  \A r \in Receivers :
    Attached(r) =>
      /\ start[r] <= cursor[r]
      /\ \A k \in 1..Len(received[r]) : received[r][k] <= cursor[r]

IInv == TypeOK /\ CursorOK /\ InOrder /\ NoLossWithinCapacity

(* Where a receiver that lost nothing looks next: `receive` hands out the   *)
(* position right after the cursor when that one is still retained.         *)
LEMMA NextIsAdjacent ==
  ASSUME log \in Seq(Events), cursor \in [Receivers -> Nat \cup {Detached}],
         NEW r \in Receivers, NEW i \in 1..Len(log),
         IsNext(r, i, 1..Len(log)), Len(log) <= cursor[r] + Capacity
  PROVE  i = cursor[r] + 1
<1>1. cursor[r] \in Nat /\ Len(log) \in Nat /\ i \in Nat /\ Capacity \in Nat
  BY CapacityAssumption DEF IsNext, Attached, Detached
<1>2. cursor[r] < i
  BY DEF IsNext, Pending
<1>3. cursor[r] + 1 \in Pending(r) \cap (1..Len(log))
  BY <1>1, <1>2 DEF Pending, Overwritten
<1>4. i <= cursor[r] + 1
  BY <1>3 DEF IsNext
<1> QED BY <1>1, <1>2, <1>4

LEMMA InitIInv == Init => IInv
  BY DEF Init, IInv, TypeOK, BusTypeOK, BusInit, CursorOK, InOrder,
         NoLossWithinCapacity, Attached, Detached

LEMMA CloneKeepsIInv ==
  ASSUME IInv, NEW r \in Receivers, Clone(r)
  PROVE  IInv'
<1> USE DEF Clone, Subscribe, IInv, TypeOK, BusTypeOK
<1>1. Len(log) \in Nat /\ log' = log
  OBVIOUS
<1>2. TypeOK'
  BY <1>1 DEF Detached
<1>3. CursorOK'
  BY <1>1 DEF CursorOK, Attached, Detached
<1>4. InOrder'
  BY <1>1 DEF InOrder
<1>5. NoLossWithinCapacity'
  BY <1>1 DEF NoLossWithinCapacity, Attached, Detached
<1> QED BY <1>2, <1>3, <1>4, <1>5

LEMMA SendKeepsIInv ==
  ASSUME IInv, NEW e \in Events, Send(e)
  PROVE  IInv'
<1>1. /\ log' \in Seq(Events) /\ Len(log') = Len(log) + 1 /\ Len(log) \in Nat
      /\ UNCHANGED <<cursor, start, received>>
  BY DEF Send, Publish, IInv, TypeOK, BusTypeOK
<1>2. TypeOK'
  <2>1. \A r \in Receivers : cursor[r] \in Nat \cup {Detached} /\ cursor[r] <= Len(log)
    BY DEF IInv, TypeOK, BusTypeOK
  <2>2. \A r \in Receivers : cursor[r] <= Len(log')
    BY <1>1, <2>1 DEF Detached
  <2> QED BY <1>1, <2>2 DEF IInv, TypeOK, BusTypeOK
<1>3. CursorOK'
  BY <1>1 DEF IInv, CursorOK, Attached
<1>4. InOrder'
  BY <1>1 DEF IInv, InOrder
<1>5. NoLossWithinCapacity'
  <2> SUFFICES ASSUME NEW r \in Receivers, Attached(r), Len(log') <= start[r] + Capacity
               PROVE  /\ Len(received[r]) = cursor[r] - start[r]
                      /\ \A i \in 1..Len(received[r]) : received[r][i] = start[r] + i
    BY <1>1 DEF NoLossWithinCapacity, Attached
  <2>1. start[r] \in Nat /\ Capacity \in Nat
    BY CapacityAssumption DEF IInv, TypeOK
  <2>2. Len(log) <= start[r] + Capacity
    BY <1>1, <2>1
  <2> QED BY <2>2 DEF IInv, NoLossWithinCapacity
<1> QED BY <1>2, <1>3, <1>4, <1>5 DEF IInv

LEMMA ReceiveKeepsIInv ==
  ASSUME IInv, NEW r \in Receivers, Receive(r)
  PROVE  IInv'
<1>1. PICK i \in 1..Len(log) :
        /\ IsNext(r, i, 1..Len(log))
        /\ cursor' = [cursor EXCEPT ![r] = i]
        /\ received' = [received EXCEPT ![r] = Append(@, i)]
  BY DEF Receive, MoveTo
<1>2. UNCHANGED <<log, start>>
  BY DEF Receive
<1>3. /\ log \in Seq(Events) /\ Len(log) \in Nat
      /\ cursor \in [Receivers -> Nat \cup {Detached}]
      /\ start \in [Receivers -> Nat]
      /\ received \in [Receivers -> Seq(Nat \ {0})]
  BY DEF IInv, TypeOK, BusTypeOK
<1>4. i \in Nat \ {0} /\ i <= Len(log)
  BY <1>3
<1>5. Attached(r) /\ cursor[r] \in Nat /\ cursor[r] < i /\ start[r] <= cursor[r]
  BY <1>1, <1>3 DEF IsNext, Pending, Attached, Detached, IInv, CursorOK
<1>6. /\ Len(received'[r]) = Len(received[r]) + 1
      /\ Len(received[r]) \in Nat
      /\ received'[r][Len(received[r]) + 1] = i
      /\ \A k \in 1..Len(received[r]) : received'[r][k] = received[r][k]
      /\ received'[r] \in Seq(Nat \ {0})
  BY <1>1, <1>3, <1>4
<1>6a. \A k \in 1..Len(received'[r]) :
         \/ k \in 1..Len(received[r]) /\ received'[r][k] = received[r][k]
         \/ k = Len(received[r]) + 1 /\ received'[r][k] = i
  BY <1>6
<1>7. \A s \in Receivers \ {r} : received'[s] = received[s] /\ cursor'[s] = cursor[s]
  BY <1>1, <1>3
<1>8. cursor'[r] = i
  BY <1>1, <1>3
<1>9. TypeOK'
  <2>1. cursor' \in [Receivers -> Nat \cup {Detached}] /\ \A s \in Receivers : cursor'[s] <= Len(log)
    BY <1>1, <1>3, <1>4, <1>7, <1>8 DEF IInv, TypeOK, BusTypeOK
  <2>2. received' \in [Receivers -> Seq(Nat \ {0})]
    BY <1>1, <1>3, <1>6, <1>7
  <2> QED BY <1>2, <1>3, <2>1, <2>2 DEF TypeOK, BusTypeOK
<1>10. CursorOK'
  <2> SUFFICES ASSUME NEW s \in Receivers, Attached(s)'
               PROVE  /\ start[s] <= cursor'[s]
                      /\ \A k \in 1..Len(received'[s]) : received'[s][k] <= cursor'[s]
    BY <1>2 DEF CursorOK
  <2>1. CASE s = r
    <3>1. \A k \in 1..Len(received[r]) : received[r][k] \in Nat /\ received[r][k] <= cursor[r]
      BY <1>3, <1>5 DEF IInv, CursorOK
    <3>2. \A k \in 1..Len(received'[r]) : received'[r][k] <= i
      BY <3>1, <1>4, <1>5, <1>6a
    <3> QED BY <2>1, <3>2, <1>3, <1>4, <1>5, <1>8
  <2>2. CASE s # r
    BY <2>2, <1>7 DEF IInv, CursorOK, Attached
  <2> QED BY <2>1, <2>2
<1>11. InOrder'
  <2> SUFFICES ASSUME NEW s \in Receivers
               PROVE  /\ \A j, k \in 1..Len(received'[s]) :
                           j < k => received'[s][j] < received'[s][k]
                      /\ \A k \in 1..Len(received'[s]) : start[s] < received'[s][k]
    BY <1>2 DEF InOrder
  <2>1. CASE s = r
    <3>1. \A k \in 1..Len(received[r]) :
            received[r][k] \in Nat /\ received[r][k] < i /\ start[r] < received[r][k]
      BY <1>3, <1>4, <1>5 DEF IInv, CursorOK, InOrder
    <3>2. \A j, k \in 1..Len(received[r]) : j < k => received[r][j] < received[r][k]
      BY DEF IInv, InOrder
    <3>3. \A k \in 1..Len(received'[r]) : start[r] < received'[r][k]
      <4> TAKE k \in 1..Len(received'[r])
      <4>1. start[r] \in Nat /\ start[r] < i
        BY <1>3, <1>4, <1>5
      <4> QED BY <4>1, <3>1, <1>6a
    <3>4. \A j, k \in 1..Len(received'[r]) : j < k => received'[r][j] < received'[r][k]
      <4> TAKE j, k \in 1..Len(received'[r])
      <4> HAVE j < k
      <4>1. j \in 1..Len(received[r])
        BY <1>6, <1>6a
      <4>2. received'[r][j] = received[r][j]
        BY <4>1, <1>6
      <4>3. CASE k \in 1..Len(received[r])
        BY <4>1, <4>2, <4>3, <3>2, <1>6
      <4>4. CASE k = Len(received[r]) + 1
        BY <4>1, <4>2, <4>4, <3>1, <1>6
      <4> QED BY <4>3, <4>4, <1>6a
    <3> QED BY <2>1, <3>3, <3>4
  <2>2. CASE s # r
    BY <2>2, <1>7 DEF IInv, InOrder
  <2> QED BY <2>1, <2>2
<1>12. NoLossWithinCapacity'
  <2> SUFFICES ASSUME NEW s \in Receivers, Attached(s)', Len(log) <= start[s] + Capacity
               PROVE  /\ Len(received'[s]) = cursor'[s] - start[s]
                      /\ \A k \in 1..Len(received'[s]) : received'[s][k] = start[s] + k
    BY <1>2 DEF NoLossWithinCapacity
  <2>1. CASE s = r
    <3>1. i = cursor[r] + 1
      BY <2>1, <1>1, <1>3, <1>5, CapacityAssumption, NextIsAdjacent
    <3>2. /\ Len(received[r]) = cursor[r] - start[r]
          /\ \A k \in 1..Len(received[r]) : received[r][k] = start[r] + k
      BY <2>1, <1>5 DEF IInv, NoLossWithinCapacity
    <3>3. start[r] \in Nat
      BY <1>3
    <3>4. Len(received'[r]) = cursor'[r] - start[r]
      BY <3>1, <3>2, <3>3, <1>5, <1>6, <1>8
    <3>5. \A k \in 1..Len(received'[r]) : received'[r][k] = start[r] + k
      <4> TAKE k \in 1..Len(received'[r])
      <4>1. CASE k \in 1..Len(received[r]) /\ received'[r][k] = received[r][k]
        BY <4>1, <3>2
      <4>2. CASE k = Len(received[r]) + 1 /\ received'[r][k] = i
        BY <4>2, <3>1, <3>2, <3>3, <1>5
      <4> QED BY <4>1, <4>2, <1>6a
    <3> QED BY <2>1, <3>4, <3>5
  <2>2. CASE s # r
    BY <2>2, <1>7 DEF IInv, NoLossWithinCapacity, Attached
  <2> QED BY <2>1, <2>2
<1> QED BY <1>9, <1>10, <1>11, <1>12 DEF IInv

LEMMA ReleaseKeepsIInv ==
  ASSUME IInv, NEW r \in Receivers, Release(r)
  PROVE  IInv'
<1> USE DEF Release, Drop, IInv, TypeOK, BusTypeOK
<1>1. TypeOK'
  BY DEF Detached
<1>2. CursorOK'
  BY DEF CursorOK, Attached, Detached
<1>3. InOrder'
  BY DEF InOrder
<1>4. NoLossWithinCapacity'
  BY DEF NoLossWithinCapacity, Attached, Detached
<1> QED BY <1>1, <1>2, <1>3, <1>4

(* Every reachable state satisfies the inductive invariant.                 *)
THEOREM Invariance == Spec => []IInv
<1>1. IInv /\ [Next]_vars => IInv'
  <2> SUFFICES ASSUME IInv, [Next]_vars PROVE IInv'
    OBVIOUS
  <2>1. ASSUME NEW e \in Events, Send(e) PROVE IInv'
    BY <2>1, SendKeepsIInv
  <2>2. ASSUME NEW r \in Receivers, Clone(r) PROVE IInv'
    BY <2>2, CloneKeepsIInv
  <2>3. ASSUME NEW r \in Receivers, Receive(r) PROVE IInv'
    BY <2>3, ReceiveKeepsIInv
  <2>4. ASSUME NEW r \in Receivers, Release(r) PROVE IInv'
    BY <2>4, ReleaseKeepsIInv
  <2>5. CASE UNCHANGED vars
    BY <2>5 DEF vars, IInv, TypeOK, BusTypeOK, CursorOK, InOrder,
                NoLossWithinCapacity, Attached, Detached
  <2> QED BY <2>1, <2>2, <2>3, <2>4, <2>5 DEF Next
<1> QED BY InitIInv, <1>1, PTL DEF Spec

(* The bus is well typed: no cursor runs past the log.                      *)
THEOREM TypeCorrect == Spec => []TypeOK
<1>1. IInv => TypeOK
  BY DEF IInv
<1> QED BY Invariance, <1>1, PTL

(* A receiver gets events in publication order, each at most once, and only *)
(* those published after it was cloned.                                     *)
THEOREM Ordered == Spec => []InOrder
<1>1. IInv => InOrder
  BY DEF IInv
<1> QED BY Invariance, <1>1, PTL

(* A receiver misses nothing before more than Capacity events have been     *)
(* published since it was cloned.                                           *)
THEOREM NoLoss == Spec => []NoLossWithinCapacity
<1>1. IInv => NoLossWithinCapacity
  BY DEF IInv
<1> QED BY Invariance, <1>1, PTL
===============================================================================
