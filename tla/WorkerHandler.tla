---------------------------- MODULE WorkerHandler -----------------------------
(***************************************************************************)
(* The worker process (worker/src/main.rs, handler/mod.rs): a pipeline of   *)
(* tasks between its socket and its model.                                  *)
(*                                                                          *)
(*   socket -> bus -> handle_read -> itx/irx -> handle_packet               *)
(*      -> one blocking task per command (handle_load, handle_generate)     *)
(*      -> otx/orx -> handle_write -> bus -> socket                         *)
(*                                                                          *)
(* Both directions share one bus.  The model is behind a mutex that         *)
(* commands only try to lock (guard.rs).  A command is handled once; the    *)
(* set it belongs to says what kind of packet it is.                        *)
(***************************************************************************)
EXTENDS Integers, Sequences, FiniteSets

CONSTANTS
  Loads,       \* LoadCommands
  Generates,   \* GenerateCommands
  Empties,     \* packets that decode, but carry no message
  Undecodables, \* payloads that do not decode to a packet
  InCap,       \* capacity of the channel itx/irx (32 in main.rs)
  OutCap,      \* capacity of the channel otx/orx (32 in main.rs)
  Threads,     \* threads of the pool for blocking tasks (512 in tokio)
  Capacity,    \* events retained by the bus
  None         \* no command, no outcome

Commands == Loads \cup Generates \cup Empties \cup Undecodables

LoadOutcomes     == {"Ok", "ModelBusy", "ModelAlreadyLoaded", "LoadingError"}
GenerateOutcomes == {"Ok", "ModelBusy", "ModelNotLoaded", "GenerationError"}
Outcomes == LoadOutcomes \cup GenerateOutcomes

ASSUME HandlerAssumption ==
  /\ {InCap, OutCap, Threads, Capacity} \subseteq Nat \ {0}
  /\ Loads \cap Generates = {}
  /\ (Loads \cup Generates) \cap (Empties \cup Undecodables) = {}
  /\ None \notin Commands \cup Outcomes

VARIABLES
  log, cursor, \* the event bus
  reader,      \* the packet handle_read awaits to forward, or None
  early,       \* commands that came before handle_read had cloned the bus
  inq,         \* the channel itx/irx
  dispatcher,  \* handle_packet: "running", or "panicked" at unreachable!
  task,        \* task[c]: where the blocking task of c is
  answer,      \* answer[c]: the outcome that task will send or has sent
  holder,      \* the command whose task holds the model's lock, or None
  model,       \* the LoadCommand whose model is in the guard, or None
  outq,        \* the channel otx/orx
  wire         \* the answers written to the socket, oldest first

busVars  == <<log, cursor>>
lockVars == <<holder, model>>
vars == <<busVars, reader, early, inq, dispatcher, task, answer, lockVars, outq, wire>>

ReadRx == "handle_read"
SockRx == "run_on_socket"
Receivers == {ReadRx, SockRx}

Bus == INSTANCE EventBus

Answer == [cmd : Loads \cup Generates, outcome : Outcomes]
Event  == [type : {"NewPacketReceived"}, cmd : Commands]
            \cup [type : {"SendNewPacket"}, packet : Answer]

TypeOK ==
  /\ Bus!BusTypeOK(Event)
  /\ reader \in Commands \cup {None}
  /\ early \subseteq Commands
  /\ inq \in Seq(Commands) /\ Len(inq) <= InCap
  /\ dispatcher \in {"running", "panicked"}
  /\ task \in [Commands -> {"none", "spawned", "working", "answering", "returning", "done",
                         "panicked"}]
  /\ answer \in [Commands -> Outcomes \cup {None}]
  /\ holder \in Commands \cup {None}
  /\ model \in Loads \cup {None}
  /\ outq \in Seq(Answer) /\ Len(outq) <= OutCap
  /\ wire \in Seq(Answer)

(* main has cloned the bus for the socket task, not yet for handle_read.    *)
Init ==
  /\ log = <<>>
  /\ cursor = [rx \in Receivers |-> IF rx = SockRx THEN 0 ELSE Bus!Detached]
  /\ reader = None /\ early = {}
  /\ inq = <<>> /\ dispatcher = "running"
  /\ task = [c \in Commands |-> "none"] /\ answer = [c \in Commands |-> None]
  /\ holder = None /\ model = None
  /\ outq = <<>> /\ wire = <<>>

OfType(type) == {i \in DOMAIN log : log[i].type = type}

Arrivals(c) == {i \in OfType("NewPacketReceived") : log[i].cmd = c}

-------------------------------------------------------------------------------
(* run_on_socket: a frame from the master is published; an answer that is   *)
(* published is written.                                                    *)
SocketReads(c) ==
  /\ Arrivals(c) = {}
  /\ Bus!Publish([type |-> "NewPacketReceived", cmd |-> c])
  /\ early' = IF Bus!Attached(ReadRx) THEN early ELSE early \cup {c}
  /\ UNCHANGED <<cursor, reader, inq, dispatcher, task, answer, lockVars, outq, wire>>

SocketWrites ==
  /\ \E i \in OfType("SendNewPacket") :
       /\ Bus!IsNext(SockRx, i, OfType("SendNewPacket"))
       /\ Bus!MoveTo(SockRx, i)
       /\ wire' = Append(wire, log[i].packet)
  /\ UNCHANGED <<log, reader, early, inq, dispatcher, task, answer, lockVars, outq>>

(* main clones the bus for handle_read and spawns it.                       *)
ReaderStarts ==
  /\ ~Bus!Attached(ReadRx)
  /\ Bus!Subscribe(ReadRx)
  /\ UNCHANGED <<log, reader, early, inq, dispatcher, task, answer, lockVars, outq, wire>>

(* A payload that does not decode is logged and forgotten.                  *)
ReaderReceives ==
  /\ reader = None
  /\ \E i \in OfType("NewPacketReceived") :
       /\ Bus!IsNext(ReadRx, i, OfType("NewPacketReceived"))
       /\ Bus!MoveTo(ReadRx, i)
       /\ reader' = IF log[i].cmd \in Undecodables THEN None ELSE log[i].cmd
  /\ UNCHANGED <<log, early, inq, dispatcher, task, answer, lockVars, outq, wire>>

(* Mutants: the channel has no bound; try_send drops what does not fit.     *)
ReaderForwardsUnbounded ==
  /\ reader # None
  /\ inq' = Append(inq, reader)
  /\ reader' = None
  /\ UNCHANGED <<busVars, early, dispatcher, task, answer, lockVars, outq, wire>>
ReaderTriesToForward ==
  /\ reader # None
  /\ inq' = IF dispatcher = "running" /\ Len(inq) < InCap THEN Append(inq, reader) ELSE inq
  /\ reader' = None
  /\ UNCHANGED <<busVars, early, dispatcher, task, answer, lockVars, outq, wire>>

(* itx.send waits for room; once irx is gone it fails, which is logged.     *)
ReaderForwards ==
  /\ reader # None
  /\ \/ dispatcher = "running" /\ Len(inq) < InCap /\ inq' = Append(inq, reader)
     \/ dispatcher = "panicked" /\ UNCHANGED inq
  /\ reader' = None
  /\ UNCHANGED <<busVars, early, dispatcher, task, answer, lockVars, outq, wire>>

(* handle_packet spawns a blocking task, or panics and takes irx with it.   *)
Dispatch ==
  /\ inq # <<>>
  /\ IF Head(inq) \in Empties
       THEN dispatcher' = "panicked" /\ inq' = <<>> /\ UNCHANGED task
       ELSE /\ task' = [task EXCEPT ![Head(inq)] = "spawned"]
            /\ inq' = Tail(inq)
            /\ UNCHANGED dispatcher
  /\ UNCHANGED <<busVars, reader, early, answer, lockVars, outq, wire>>

-------------------------------------------------------------------------------
Concluded(c) == task[c] \in {"answering", "returning", "done"}

(* Give c its outcome; its task goes on to blocking_send.                   *)
Conclude(c, outcome) ==
  /\ task' = [task EXCEPT ![c] = "answering"]
  /\ answer' = [answer EXCEPT ![c] = outcome]

(* A blocking task waits for a thread, and keeps it until it returns.       *)
ThreadFree ==
  Cardinality({c \in Commands : task[c] \in {"working", "answering", "returning"}}) < Threads

(* Mutant: a command that finds the model busy is dropped.                  *)
LeavesBusy(c) ==
  /\ task[c] = "spawned" /\ holder # None
  /\ task' = [task EXCEPT ![c] = "done"]
  /\ UNCHANGED <<busVars, reader, early, inq, dispatcher, answer, lockVars, outq, wire>>

(* lock_now fails.                                                          *)
FindsBusy(c) ==
  /\ task[c] = "spawned" /\ ThreadFree /\ holder # None
  /\ Conclude(c, "ModelBusy")
  /\ UNCHANGED <<busVars, reader, early, inq, dispatcher, lockVars, outq, wire>>

(* lock_now succeeds: until it gives the lock back, c finds the model alone. *)
Locks(c) ==
  /\ task[c] = "spawned" /\ ThreadFree /\ holder = None
  /\ task' = [task EXCEPT ![c] = "working"]
  /\ holder' = c
  /\ UNCHANGED <<busVars, reader, early, inq, dispatcher, answer, model, outq, wire>>

(* Mutants: the lock is given back before the answer is sent; handle_load   *)
(* does not look whether a model is there.                                  *)
FinishLoadUnlocked(c) ==
  /\ c \in Loads /\ task[c] = "working"
  /\ \/ model = None /\ Conclude(c, "Ok") /\ model' = c
     \/ model = None /\ Conclude(c, "LoadingError") /\ UNCHANGED model
     \/ model # None /\ Conclude(c, "ModelAlreadyLoaded") /\ UNCHANGED model
  /\ holder' = None
  /\ UNCHANGED <<busVars, reader, early, inq, dispatcher, outq, wire>>
FinishLoadBlindly(c) ==
  /\ c \in Loads /\ task[c] = "working"
  /\ \/ Conclude(c, "Ok") /\ model' = c
     \/ Conclude(c, "LoadingError") /\ UNCHANGED model
  /\ UNCHANGED <<busVars, reader, early, inq, dispatcher, holder, outq, wire>>

(* A model is there, or LLama::new returns.  handle_load keeps the lock     *)
(* while it sends its answer, whichever it is.                              *)
FinishLoad(c) ==
  /\ c \in Loads /\ task[c] = "working"
  /\ \/ model = None /\ Conclude(c, "Ok") /\ model' = c
     \/ model = None /\ Conclude(c, "LoadingError") /\ UNCHANGED model
     \/ model # None /\ Conclude(c, "ModelAlreadyLoaded") /\ UNCHANGED model
  /\ UNCHANGED <<busVars, reader, early, inq, dispatcher, holder, outq, wire>>

(* There is no model, or generate returns; the lock goes with the scope of  *)
(* its guard, before the answer is sent.                                    *)
FinishGenerate(c) ==
  /\ c \in Generates /\ task[c] = "working"
  /\ \E outcome \in IF model = None THEN {"ModelNotLoaded"} ELSE {"Ok", "GenerationError"} :
       Conclude(c, outcome)
  /\ holder' = None
  /\ UNCHANGED <<busVars, reader, early, inq, dispatcher, model, outq, wire>>

(* Mutant: a lock that is poisoned by the panic of its holder.              *)
PanicsLocked(c) ==
  /\ task[c] = "working" /\ (c \in Loads <=> model = None)
  /\ task' = [task EXCEPT ![c] = "panicked"]
  /\ UNCHANGED <<busVars, reader, early, inq, dispatcher, answer, lockVars, outq, wire>>

(* The model's code, which runs if a load finds no model or a generation    *)
(* finds one, panics.  The runtime catches it, nobody awaits the task, and  *)
(* nothing is sent; the guard's drop gives the lock back.                   *)
Panics(c) ==
  /\ task[c] = "working" /\ (c \in Loads <=> model = None)
  /\ task' = [task EXCEPT ![c] = "panicked"]
  /\ holder' = None
  /\ UNCHANGED <<busVars, reader, early, inq, dispatcher, answer, model, outq, wire>>

(* What is left to do once the answer is sent: handle_load has its guard.   *)
AfterSend(c) == IF holder = c THEN "returning" ELSE "done"

(* blocking_send waits for room.                                            *)
BlockingSend(c) ==
  /\ task[c] = "answering" /\ Len(outq) < OutCap
  /\ outq' = Append(outq, [cmd |-> c, outcome |-> answer[c]])
  /\ task' = [task EXCEPT ![c] = AfterSend(c)]
  /\ UNCHANGED <<busVars, reader, early, inq, dispatcher, answer, lockVars, wire>>

(* handle_load returns, and the lock goes with its guard.  Its answer may   *)
(* have reached the master by then, and the master's next command the       *)
(* worker.                                                                  *)
Returns(c) ==
  /\ task[c] = "returning"
  /\ task' = [task EXCEPT ![c] = "done"]
  /\ holder' = None
  /\ UNCHANGED <<busVars, reader, early, inq, dispatcher, answer, model, outq, wire>>

(* handle_write                                                             *)
WriterForwards ==
  /\ outq # <<>>
  /\ Bus!Publish([type |-> "SendNewPacket", packet |-> Head(outq)])
  /\ outq' = Tail(outq)
  /\ UNCHANGED <<cursor, reader, early, inq, dispatcher, task, answer, lockVars, wire>>

TaskStep(c) ==
  \/ FindsBusy(c) \/ Locks(c)
  \/ FinishLoad(c) \/ FinishGenerate(c) \/ Panics(c)
  \/ BlockingSend(c) \/ Returns(c)

Next ==
  \/ \E c \in Commands : SocketReads(c) \/ TaskStep(c)
  \/ SocketWrites \/ WriterForwards
  \/ ReaderStarts \/ ReaderReceives \/ ReaderForwards \/ Dispatch

Spec == Init /\ [][Next]_vars

-------------------------------------------------------------------------------
Answers(c) == {i \in OfType("SendNewPacket") : log[i].packet.cmd = c}

InSeq(x, s) == \E i \in DOMAIN s : s[i] = x

(* The places a command, and then its answer, can be in.                    *)
Places(c) ==
  {p \in {"bus", "reader", "inq", "task", "outq", "answered"} :
     \/ p = "bus"      /\ \E i \in Arrivals(c) : cursor[ReadRx] < i /\ ~Bus!Overwritten(i)
     \/ p = "reader"   /\ reader = c
     \/ p = "inq"      /\ InSeq(c, inq)
     \/ p = "task"     /\ task[c] \in {"spawned", "working", "answering"}
     \/ p = "outq"     /\ \E i \in DOMAIN outq : outq[i].cmd = c
     \/ p = "answered" /\ Answers(c) # {}}

(* A command that handle_read was there for is in exactly one place of the  *)
(* pipeline, up to its answer on the bus: none is dropped or handled twice, *)
(* unless the bus overwrote it, or handle_packet or its own task panicked.  *)
NothingLostOrDoubled ==
  \A c \in Loads \cup Generates :
    /\ Cardinality(Places(c)) <= 1 /\ Cardinality(Answers(c)) <= 1
    /\ Arrivals(c) # {} /\ Places(c) = {} =>
         \/ c \in early
         \/ "panicked" \in {dispatcher, task[c]}
         \/ \E i \in Arrivals(c) : Bus!Overwritten(i)

(* The text of a GenerateCommand never overtakes the answer that the model  *)
(* was loaded: handle_load holds the lock until its answer is queued.       *)
LoadAnsweredFirst ==
  \A i \in DOMAIN wire :
    wire[i].cmd \in Generates /\ wire[i].outcome = "Ok" =>
      \/ \E j \in 1..(i - 1) : wire[j].cmd = model /\ wire[j].outcome = "Ok"
      \/ \E j \in Answers(model) : Bus!Overwritten(j)

(* The model is loaded once: what is in the guard is never replaced, and at *)
(* most one LoadCommand is told that it loaded the model.                   *)
LoadedOnce ==
  \A c, d \in Loads :
    Concluded(c) /\ answer[c] = "Ok" /\ Concluded(d) /\ answer[d] = "Ok" => c = d /\ model = c
===============================================================================
