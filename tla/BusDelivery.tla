----------------------------- MODULE BusDelivery ------------------------------
(***************************************************************************)
(* What one clone of RLPGEventBus promises the task that owns it: any       *)
(* number of tasks publish, subscribe, receive and drop in any order.  Two  *)
(* history variables record, for each receiver, where it subscribed and     *)
(* which positions of the log it was handed.                                *)
(***************************************************************************)
EXTENDS EventBus, FiniteSets

CONSTANTS
  Events,      \* the values that are published
  MaxEvents    \* bound on the length of the log

ASSUME CapacityAssumption == Capacity \in Nat \ {0}
ASSUME MaxEventsAssumption == MaxEvents \in Nat

VARIABLES
  start,       \* start[r]: length of the log when r subscribed
  received     \* received[r]: the positions handed to r, in order

vars == <<log, cursor, start, received>>

TypeOK ==
  /\ BusTypeOK(Events)
  /\ start \in [Receivers -> Nat]
  /\ received \in [Receivers -> Seq(Nat \ {0})]

Init ==
  /\ BusInit
  /\ start = [r \in Receivers |-> 0]
  /\ received = [r \in Receivers |-> <<>>]

Clone(r) ==
  /\ ~Attached(r)
  /\ Subscribe(r)
  /\ start' = [start EXCEPT ![r] = Len(log)]
  /\ received' = [received EXCEPT ![r] = <<>>]
  /\ UNCHANGED log

Send(e) ==
  /\ Len(log) < MaxEvents
  /\ Publish(e)
  /\ UNCHANGED <<cursor, start, received>>

Receive(r) ==
  /\ \E i \in 1..Len(log) :
       /\ IsNext(r, i, 1..Len(log))
       /\ MoveTo(r, i)
       /\ received' = [received EXCEPT ![r] = Append(@, i)]
  /\ UNCHANGED <<log, start>>

Release(r) ==
  /\ Attached(r)
  /\ Drop({r})
  /\ UNCHANGED <<log, start, received>>

Next ==
  \/ \E e \in Events : Send(e)
  \/ \E r \in Receivers : Clone(r) \/ Receive(r) \/ Release(r)

Spec == Init /\ [][Next]_vars

FairSpec == Spec /\ \A r \in Receivers : WF_vars(Receive(r))

-------------------------------------------------------------------------------
(* A receiver is handed events in publication order, each at most once,     *)
(* and only events published after it subscribed (tcp.rs, `receive`).       *)
InOrder ==
  \A r \in Receivers :
    /\ \A i, j \in 1..Len(received[r]) : i < j => received[r][i] < received[r][j]
    /\ \A i \in 1..Len(received[r]) : start[r] < received[r][i]

(* A receiver cannot have missed anything before the channel has published  *)
(* more than Capacity events since it subscribed: until then it was handed  *)
(* every event up to its cursor.  This bounds the burst that the tasks of   *)
(* master and worker survive, since `receive` hides a lag from them.        *)
NoLossWithinCapacity ==
  \A r \in Receivers :
    Attached(r) /\ Len(log) <= start[r] + Capacity =>
      /\ Len(received[r]) = cursor[r] - start[r]
      /\ \A i \in 1..Len(received[r]) : received[r][i] = start[r] + i

(* A receiver that stays attached is handed, or has skipped, every event.   *)
CaughtUp ==
  \A r \in Receivers : \A i \in 1..MaxEvents :
    (Attached(r) /\ cursor[r] < i /\ i <= Len(log)) ~> (~Attached(r) \/ cursor[r] >= i)
===============================================================================
