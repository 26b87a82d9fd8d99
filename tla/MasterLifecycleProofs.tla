------------------------- MODULE MasterLifecycleProofs -------------------------
(***************************************************************************)
(* Proofs about MasterLifecycle: type correctness, and that the return of   *)
(* main cuts off no request, for any workers and requests.                  *)
(***************************************************************************)
EXTENDS MasterLifecycle, WellFoundedInduction, TLAPS

(* Whoever waits for a worker, or was answered, has one.                    *)
TargetOK ==
  \A c \in Calls : pc[c] \in Waiting \cup {"delivered"} => target[c] \in Addrs

(* There are requests in flight only while the HTTP server is serving or    *)
(* draining, and main leaves the server behind when it does neither.        *)
ServedOK ==
  /\ http \in {"none", "done", "bindFailed"} => \A r \in Requests : pc[r] \notin InFlight
  /\ main \in {"signal", "returned"} => http \in {"done", "bindFailed"}

TypeIInv == TypeOK /\ TargetOK

IInv == TypeIInv /\ ServedOK /\ NothingAborted

-------------------------------------------------------------------------------
Less == {p \in Nat \X Nat : p[1] < p[2]}

(* A non-empty set of addresses has a first one.                            *)
LEMMA MinIsMember ==
  ASSUME NEW S, S \subseteq Nat, S # {}
  PROVE  Min(S) \in S
<1>1. IsWellFoundedOn(Less, Nat)
  BY NatLessThanWellFounded DEF OpToRel, Less
<1>2. PICK m \in S : \A b \in S : ~ (<<b, m>> \in Less)
  BY <1>1, WFMin, Zenon
<1>3. \A b \in S : m <= b
  <2> SUFFICES ASSUME NEW b \in S, b < m PROVE FALSE
    OBVIOUS
  <2>1. <<b, m>> \in Nat \X Nat /\ <<b, m>>[1] = b /\ <<b, m>>[2] = m
    OBVIOUS
  <2>2. <<b, m>> \in Less
    BY <2>1, Zenon DEF Less
  <2> QED BY <1>2, <2>2
<1> QED BY <1>3 DEF Min

LEMMA InitIInv == Init => IInv
  BY LifecycleAssumption
  DEF Init, IInv, TypeIInv, TypeOK, TargetOK, ServedOK, NothingAborted, Waiting, InFlight, Calls

LEMMA TypeStep ==
  ASSUME TypeIInv, [Next]_vars
  PROVE  TypeIInv'
<1> USE LifecycleAssumption
    DEF TypeIInv, TypeOK, TargetOK, Waiting, InFlight, Calls,
        mainVars, serverVars, callVars, workerVars
<1>0. CASE MainReturns
  BY <1>0 DEF MainReturns
<1>1. CASE MainLeavesSelect \/ MainJoinsTcp \/ MainJoinsHttp \/ CtrlC
  BY <1>1 DEF MainLeavesSelect, MainJoinsTcp, MainJoinsHttp, CtrlC
<1>2. CASE RunTcp \/ ListenerBinds \/ AcceptFails \/ ListenerStops
  BY <1>2 DEF RunTcp, ListenerBinds, AcceptFails, ListenerStops
<1>3. CASE HttpBinds \/ HttpDrains \/ HttpDone
  BY <1>3 DEF HttpBinds, HttpDrains, HttpDone
<1>4. CASE WatcherRegisters
  BY <1>4 DEF WatcherRegisters, Moves
<1>5. ASSUME NEW a \in Addrs,
             \/ Accepts(a) \/ SocketWritten(a) \/ SocketGetsStuck(a) \/ SocketStops(a)
             \/ WorkerDies(a) \/ WatcherLoads(a) \/ WatcherUnregisters(a)
      PROVE  TypeIInv'
  <2>1. CASE Accepts(a) \/ SocketGetsStuck(a)
    BY <2>1 DEF Accepts, SocketGetsStuck
  <2>2. CASE WatcherLoads(a)
    BY <2>2 DEF WatcherLoads, Moves
  <2>3. CASE WatcherUnregisters(a)
    BY <2>3 DEF WatcherUnregisters
  <2>4. CASE SocketWritten(a)
    BY <2>4 DEF SocketWritten
  <2>5. CASE SocketStops(a)
    BY <2>5 DEF SocketStops, Ends
  <2>6. CASE WorkerDies(a)
    BY <2>6 DEF WorkerDies
  <2> QED BY <1>5, <2>1, <2>2, <2>3, <2>4, <2>5, <2>6
<1>6. ASSUME NEW r \in Requests, RequestArrives(r) \/ HangsUp(r) \/ Picks(r) \/ Returns(r)
      PROVE  TypeIInv'
  <2>1. CASE RequestArrives(r)
    BY <2>1 DEF RequestArrives
  <2>2. CASE HangsUp(r)
    BY <2>2 DEF HangsUp
  <2>3. CASE Picks(r)
    <3>1. workers # {} => Min(workers) \in Addrs
      BY MinIsMember
    <3> QED BY <2>3, <3>1 DEF Picks, Moves
  <2>4. CASE Returns(r)
    BY <2>4 DEF Returns, Moves
  <2> QED BY <1>6, <2>1, <2>2, <2>3, <2>4
<1>7. ASSUME NEW c \in Calls, SocketWrites(c) \/ Answers(c) \/ SocketReads(c)
      PROVE  TypeIInv'
  <2>1. CASE SocketWrites(c)
    BY <2>1 DEF SocketWrites
  <2>2. CASE Answers(c)
    BY <2>2 DEF Answers, Moves
  <2>3. CASE SocketReads(c)
    BY <2>3 DEF SocketReads, Moves
  <2> QED BY <1>7, <2>1, <2>2, <2>3
<1>8. CASE UNCHANGED vars
  BY <1>8 DEF vars
<1> QED BY <1>0, <1>1, <1>2, <1>3, <1>4, <1>5, <1>6, <1>7, <1>8 DEF Next

(* A step that moves a call that is in flight, or takes a call out of the   *)
(* flight, and leaves main and the server alone, keeps ServedOK.            *)
LEMMA MoveKeepsServed ==
  ASSUME IInv, NEW c \in Calls, NEW to, pc' = [pc EXCEPT ![c] = to],
         pc[c] \in InFlight \/ to \notin InFlight,
         to # "aborted", UNCHANGED <<main, http>>
  PROVE  ServedOK' /\ NothingAborted'
  BY DEF IInv, TypeIInv, TypeOK, ServedOK, NothingAborted, Calls

LEMMA IInvStep ==
  ASSUME IInv, [Next]_vars
  PROVE  IInv'
<1>0. TypeIInv /\ TypeIInv' /\ ServedOK /\ NothingAborted
  BY TypeStep DEF IInv
<1> SUFFICES ServedOK' /\ NothingAborted'
  BY <1>0 DEF IInv
<1> USE DEF mainVars, serverVars, callVars, workerVars
<1>1. CASE MainLeavesSelect \/ MainJoinsTcp \/ MainJoinsHttp \/ CtrlC
  BY <1>0, <1>1 DEF ServedOK, NothingAborted, MainLeavesSelect, MainJoinsTcp, MainJoinsHttp, CtrlC
<1>2. CASE MainReturns
  <2>1. \A r \in Requests : pc[r] \notin InFlight
    BY <1>0, <1>2 DEF MainReturns, ServedOK
  <2>2. \A r \in Requests : pc'[r] = pc[r]
    BY <1>2, <2>1 DEF MainReturns, Calls
  <2> QED BY <1>0, <1>2, <2>1, <2>2 DEF MainReturns, ServedOK, NothingAborted
<1>3. CASE RunTcp \/ ListenerBinds \/ AcceptFails \/ ListenerStops
  BY <1>0, <1>3 DEF ServedOK, NothingAborted, RunTcp, ListenerBinds, AcceptFails, ListenerStops
<1>4. CASE HttpBinds \/ HttpDrains \/ HttpDone
  BY <1>0, <1>4 DEF ServedOK, NothingAborted, HttpBinds, HttpDrains, HttpDone, HttpPolled
<1>5. CASE WatcherRegisters
  BY <1>5, MoveKeepsServed DEF WatcherRegisters, Moves, InFlight, Calls
<1>6. ASSUME NEW a \in Addrs,
             \/ Accepts(a) \/ SocketWritten(a) \/ SocketGetsStuck(a) \/ SocketStops(a)
             \/ WorkerDies(a) \/ WatcherLoads(a) \/ WatcherUnregisters(a)
      PROVE  ServedOK' /\ NothingAborted'
  <2>1. CASE WatcherLoads(a)
    <3>1. \A r \in Requests : pc'[r] = pc[r]
      BY <1>0, <2>1, LifecycleAssumption DEF WatcherLoads, Moves, TypeIInv, TypeOK, Calls
    <3> QED BY <1>0, <2>1, <3>1 DEF WatcherLoads, ServedOK, NothingAborted
  <2>2. CASE \/ Accepts(a) \/ SocketGetsStuck(a) \/ SocketStops(a)
             \/ WorkerDies(a) \/ WatcherUnregisters(a)
    BY <1>0, <2>2
    DEF ServedOK, NothingAborted, Accepts, SocketGetsStuck, SocketStops, Ends, WorkerDies,
        WatcherUnregisters
  <2>3. CASE SocketWritten(a)
    BY <1>0, <2>3
    DEF SocketWritten, ServedOK, NothingAborted, TypeIInv, TypeOK, Calls, Waiting, InFlight
  <2> QED BY <1>6, <2>1, <2>2, <2>3
<1>7. ASSUME NEW r \in Requests, RequestArrives(r) \/ HangsUp(r) \/ Picks(r) \/ Returns(r)
      PROVE  ServedOK' /\ NothingAborted'
  <2>1. CASE RequestArrives(r)
    BY <1>0, <2>1
    DEF RequestArrives, HttpPolled, ServedOK, NothingAborted, TypeIInv, TypeOK, Calls
  <2>2. CASE HangsUp(r)
    BY <1>0, <2>2, MoveKeepsServed DEF HangsUp, TypeIInv, TypeOK, Calls
  <2>3. CASE Picks(r)
    BY <2>3, MoveKeepsServed DEF Picks, Moves, InFlight, Calls
  <2>4. CASE Returns(r)
    BY <2>4, MoveKeepsServed DEF Returns, Moves, InFlight, Calls
  <2> QED BY <1>7, <2>1, <2>2, <2>3, <2>4
<1>8. ASSUME NEW c \in Calls, SocketWrites(c) \/ Answers(c) \/ SocketReads(c)
      PROVE  ServedOK' /\ NothingAborted'
  <2>1. CASE SocketWrites(c)
    <3>1. pc[c] \in InFlight \/ (IF pc[c] = "published" THEN "writing" ELSE "dropped") \notin InFlight
      BY <2>1 DEF SocketWrites, InFlight, Waiting
    <3> QED BY <1>0, <2>1, <3>1, MoveKeepsServed DEF SocketWrites, TypeIInv, TypeOK, Calls
  <2>2. CASE Answers(c) \/ SocketReads(c)
    BY <2>2, MoveKeepsServed DEF Answers, SocketReads, Moves, InFlight, Waiting
  <2> QED BY <1>8, <2>1, <2>2
<1>9. CASE UNCHANGED vars
  BY <1>0, <1>9 DEF vars, ServedOK, NothingAborted
<1> QED BY <1>1, <1>2, <1>3, <1>4, <1>5, <1>6, <1>7, <1>8, <1>9 DEF Next

-------------------------------------------------------------------------------
(* Every variable has its type, and a call that waits for a worker has one. *)
THEOREM TypeCorrect == Spec => []TypeOK
<1>1. Init => TypeIInv
  BY InitIInv DEF IInv
<1>2. TypeIInv /\ [Next]_vars => TypeIInv'
  BY TypeStep
<1>3. TypeIInv => TypeOK
  BY DEF TypeIInv
<1> QED BY <1>1, <1>2, <1>3, PTL DEF Spec

(* Whatever ends the master, no request is cut off by the return of main:   *)
(* the order in which main awaits its futures (main.rs:60-73) makes it wait *)
(* for the server to drain, and nothing is in flight after that.            *)
THEOREM EndCutsNothingOff == Spec => []NothingAborted
<1>1. Init => IInv
  BY InitIInv
<1>2. IInv /\ [Next]_vars => IInv'
  BY IInvStep
<1>3. IInv => NothingAborted
  BY DEF IInv
<1> QED BY <1>1, <1>2, <1>3, PTL DEF Spec
===============================================================================
