----------------------------- MODULE WorkerShutdown ----------------------------
(***************************************************************************)
(* The worker of WorkerHandler, and how it ends: main waits for ctrl-c and  *)
(* for nothing else (worker/main.rs).  When it returns, the runtime drops   *)
(* the asynchronous tasks one by one, and what they own with them, among it *)
(* the receiving ends of both channels.  It drops the blocking tasks that   *)
(* no thread has begun, and waits for all others: the process ends when     *)
(* they do.                                                                 *)
(***************************************************************************)
EXTENDS WorkerHandler

VARIABLES
  stopping,    \* main has returned
  ended        \* the asynchronous tasks that are no more

shutdownVars == <<stopping, ended>>
allVars == <<vars, shutdownVars>>

PacketTask == "handle_packet"
WriteTask  == "handle_write"
AsyncTasks == {SockRx, ReadRx, PacketTask, WriteTask}

ShutdownInit == Init /\ stopping = FALSE /\ ended = {}

-------------------------------------------------------------------------------
AsyncStep(t) ==
  /\ t \notin ended
  /\ \/ t = SockRx /\ SocketWrites
     \/ t = SockRx /\ \E c \in Commands : SocketReads(c)
     \/ t = ReadRx /\ (ReaderReceives \/ ReaderForwards)
     \/ t = PacketTask /\ Dispatch
     \/ t = WriteTask /\ WriterForwards
  /\ UNCHANGED shutdownVars

MainStarts == ~stopping /\ ReaderStarts /\ UNCHANGED shutdownVars

(* main listens for ctrl-c once it has spawned its tasks.                   *)
CtrlC ==
  /\ ~stopping /\ Bus!Attached(ReadRx)
  /\ stopping' = TRUE
  /\ UNCHANGED <<vars, ended>>

(* The connection is over, and run_on_socket with it.  Nobody is told: the  *)
(* other tasks, and main, go on.                                            *)
ConnectionEnds ==
  /\ SockRx \notin ended
  /\ ended' = ended \cup {SockRx}
  /\ UNCHANGED <<vars, stopping>>

(* The runtime drops task t.  irx goes with handle_packet, as it does when  *)
(* that panics, and orx with handle_write.                                  *)
Drops(t) ==
  /\ stopping /\ t \notin ended
  /\ ended' = ended \cup {t}
  /\ reader' = IF t = ReadRx THEN None ELSE reader
  /\ inq' = IF t = PacketTask THEN <<>> ELSE inq
  /\ dispatcher' = IF t = PacketTask THEN "panicked" ELSE dispatcher
  /\ outq' = IF t = WriteTask THEN <<>> ELSE outq
  /\ UNCHANGED <<busVars, early, task, answer, lockVars, wire, stopping>>

-------------------------------------------------------------------------------
(* lock_now is the first thing a blocking task does on its thread.          *)
Begins(c) == (FindsBusy(c) \/ Locks(c)) /\ UNCHANGED shutdownVars

Works(c) ==
  (FinishLoad(c) \/ FinishGenerate(c) \/ Panics(c) \/ Returns(c)) /\ UNCHANGED shutdownVars

Sends(c) == WriteTask \notin ended /\ BlockingSend(c) /\ UNCHANGED shutdownVars

(* Mutant: the channel outlives its receiver, and a full one stays full.    *)
SendsToNobody(c) ==
  /\ WriteTask \in ended /\ task[c] = "answering" /\ Len(outq) < OutCap
  /\ task' = [task EXCEPT ![c] = AfterSend(c)]
  /\ outq' = Append(outq, [cmd |-> c, outcome |-> answer[c]])
  /\ UNCHANGED <<busVars, reader, early, inq, dispatcher, answer, lockVars, wire, shutdownVars>>

(* blocking_send fails, at once or while it waits, when orx is dropped.     *)
SendFails(c) ==
  /\ WriteTask \in ended /\ task[c] = "answering"
  /\ task' = [task EXCEPT ![c] = AfterSend(c)]
  /\ UNCHANGED <<busVars, reader, early, inq, dispatcher, answer, lockVars, outq, wire, shutdownVars>>

(* No thread had begun the blocking task of c.                              *)
NeverRuns(c) ==
  /\ stopping /\ task[c] = "spawned"
  /\ task' = [task EXCEPT ![c] = "none"]
  /\ UNCHANGED <<busVars, reader, early, inq, dispatcher, answer, lockVars, outq, wire, shutdownVars>>

BlockingStep(c) == Begins(c) \/ Works(c) \/ Sends(c) \/ SendFails(c) \/ NeverRuns(c)

ShutdownNext ==
  \/ MainStarts \/ CtrlC \/ ConnectionEnds
  \/ \E t \in AsyncTasks : AsyncStep(t) \/ Drops(t)
  \/ \E c \in Commands : BlockingStep(c)

ShutdownSpec == ShutdownInit /\ [][ShutdownNext]_allVars

(* Tasks that can run are run, and dropped when the runtime is; loading and *)
(* generating end or panic; a sender that waits for room gets its turn      *)
(* (tokio's channels queue their senders), and so does a task that waits    *)
(* for a thread.  Frames and ctrl-c come or do not, and the connection      *)
(* lasts or does not.                                                       *)
Fairness ==
  /\ WF_allVars(MainStarts)
  /\ WF_allVars(SockRx \notin ended /\ SocketWrites /\ UNCHANGED shutdownVars)
  /\ \A t \in AsyncTasks \ {SockRx} : WF_allVars(AsyncStep(t))
  /\ WF_allVars(\E t \in AsyncTasks : Drops(t))
  /\ \A c \in Loads \cup Generates :
       /\ SF_allVars(Begins(c) \/ NeverRuns(c))
       /\ WF_allVars(Works(c))
       /\ SF_allVars(Sends(c) \/ SendFails(c))

FairSpec == ShutdownSpec /\ Fairness

-------------------------------------------------------------------------------
(* Until ctrl-c no command is lost or handled twice, although the bus may   *)
(* lag, handle_packet may panic and the connection may end.                 *)
NothingLostWhileUp == stopping \/ NothingLostOrDoubled

(* Every command that reaches handle_read is answered on the bus, however   *)
(* small the channels and the pool of threads are: what is full delays, and *)
(* never deadlocks.  Only ctrl-c, or a panic of handle_packet or of the     *)
(* command's own task, leaves it without an answer; the end of the          *)
(* connection does not.                                                     *)
EveryCommandAnswered ==
  \A c \in Loads \cup Generates :
    reader = c ~> (Answers(c) # {} \/ stopping \/ "panicked" \in {dispatcher, task[c]})

(* Nobody keeps the model: not a load that waits, with the lock, for room   *)
(* in the channel of answers or for a receiver that is gone, and not a task *)
(* that panics with it.                                                     *)
LockComesFree == \A c \in Loads \cup Generates : holder = c ~> holder # c

Gone ==
  /\ stopping /\ ended = AsyncTasks
  /\ \A c \in Commands : task[c] \notin {"spawned", "working", "answering", "returning"}

(* ctrl-c ends the process: none of the tasks the runtime waits for waits   *)
(* itself for one that was dropped, such as for room in a channel that      *)
(* nobody empties any more.                                                 *)
WorkerStops == stopping ~> Gone
===============================================================================
