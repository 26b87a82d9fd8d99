------------------------------- MODULE EventBus -------------------------------
(***************************************************************************)
(* RLPGEventBus (rlpg/src/tcp.rs): a thin wrapper around a tokio broadcast  *)
(* channel.  Every clone of the bus publishes to the same channel and owns  *)
(* a receiver of its own.                                                   *)
(*                                                                          *)
(* The channel is an append-only log of events and one cursor per receiver: *)
(* the number of events the receiver has gone past.  A fresh receiver       *)
(* starts at the tail, so it sees only what is published after it was made. *)
(* The channel retains the last Capacity events; a receiver that is further *)
(* behind than that resumes at the oldest retained event.                   *)
(*                                                                          *)
(* The module has operators only.  The modules that use the bus instantiate *)
(* it and combine its operators with their own steps.                       *)
(***************************************************************************)
EXTENDS Integers, Sequences

CONSTANTS
  Receivers,   \* the receivers that may ever exist
  Capacity     \* number of events the broadcast channel retains

VARIABLES
  log,         \* every event published so far, oldest first
  cursor       \* cursor[r]: events that r has gone past, or Detached

(* A receiver that does not exist (not created yet, or dropped).           *)
Detached == -1

BusTypeOK(Event) ==
  /\ log \in Seq(Event)
  /\ cursor \in [Receivers -> Nat \cup {Detached}]
  /\ \A r \in Receivers : cursor[r] <= Len(log)

BusInit ==
  /\ log = <<>>
  /\ cursor = [r \in Receivers |-> Detached]

Attached(r) == cursor[r] # Detached

(* `recv` on a receiver that lags answers RecvError::Lagged and moves it to *)
(* the oldest retained event; `receive` loops over the error, so its caller *)
(* never learns of the events in between.                                   *)
OverwrittenEarly(i) == i <= Len(log) - Capacity + 1 \* mutant: one slot too few
Overwritten(i) == i <= Len(log) - Capacity

PendingAgain(r) == {i \in 1..Len(log) : cursor[r] <= i /\ ~Overwritten(i)} \* mutant
PendingLate(r) == {i \in 1..Len(log) : cursor[r] + 1 < i /\ ~Overwritten(i)} \* mutant
Pending(r) == {i \in 1..Len(log) : cursor[r] < i /\ ~Overwritten(i)}

(* `receive` in a loop that ignores the events outside S: the loop's next   *)
(* event is at position i.  The events it skips on the way are gone for r.  *)
IsNext(r, i, S) ==
  /\ Attached(r)
  /\ i \in Pending(r) \cap S
  /\ \A j \in Pending(r) \cap S : i <= j

Publish(e) == log' = Append(log, e)

(* `clone` subscribes: the new receiver starts behind the newest event.     *)
Subscribe(r) == cursor' = [cursor EXCEPT ![r] = Len(log)]

MovePast(r, i) == cursor' = [cursor EXCEPT ![r] = i + 1] \* mutant
MoveTo(r, i) == cursor' = [cursor EXCEPT ![r] = i]

Drop(R) == cursor' = [r \in Receivers |-> IF r \in R THEN Detached ELSE cursor[r]]
===============================================================================
