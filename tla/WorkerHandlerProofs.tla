-------------------------- MODULE WorkerHandlerProofs --------------------------
(***************************************************************************)
(* Proofs about WorkerHandler, WorkerShutdown and WorkerRefinement: type    *)
(* correctness; that the worker loses and doubles no command, with and      *)
(* without a shutdown; that what is generated follows the answer to the     *)
(* load; and that the pipeline implements WorkerService.  They hold for any *)
(* commands and any capacities of the channels and of the bus.              *)
(***************************************************************************)
EXTENDS WorkerRefinement, WorkerShutdown, FiniteSetTheorems, TLAPS

Served == Loads \cup Generates

(* What has no message never becomes a task, and a task that concluded has  *)
(* an outcome.                                                              *)
StageOK ==
  /\ reader \notin Undecodables
  /\ \A k \in DOMAIN inq : inq[k] \notin Undecodables
  /\ \A c \in Commands : task[c] # "none" => c \in Served
  /\ \A c \in Commands : task[c] \in {"answering", "returning", "done"} => answer[c] \in Outcomes

TypeIInv == TypeOK /\ StageOK

(* handle_read has gone past the frame of c.                                *)
WasRead(c) == \E i \in Arrivals(c) : i <= cursor[ReadRx]

(* On its way to its task a command is in one place, and there once.        *)
OnceOK ==
  /\ \A i, j \in OfType("NewPacketReceived") : log[i].cmd = log[j].cmd => i = j
  /\ reader # None =>
       /\ WasRead(reader) /\ task[reader] = "none"
       /\ \A k \in DOMAIN inq : inq[k] # reader
  /\ \A k \in DOMAIN inq :
       /\ WasRead(inq[k]) /\ task[inq[k]] = "none"
       /\ \A m \in DOMAIN inq : inq[m] = inq[k] => m = k
  /\ \A c \in Commands : task[c] # "none" => WasRead(c)

(* Who works on the model, or returns from that, holds its lock.            *)
LockOK ==
  /\ \A c \in Commands : task[c] \in {"working", "returning"} => holder = c
  /\ holder # None => task[holder] \in {"working", "answering", "returning"}

(* The answer of c has been sent to the channel.                            *)
Sent(c) == task[c] \in {"returning", "done"}

IsAnswer(packet) == Sent(packet.cmd) /\ answer[packet.cmd] = packet.outcome

(* On its way from its task an answer is in one place, and there once.      *)
AnswersOK ==
  /\ \A k \in DOMAIN outq :
       /\ IsAnswer(outq[k])
       /\ \A m \in DOMAIN outq : outq[m].cmd = outq[k].cmd => m = k
       /\ \A i \in OfType("SendNewPacket") : log[i].packet.cmd # outq[k].cmd
  /\ \A i \in OfType("SendNewPacket") :
       /\ IsAnswer(log[i].packet)
       /\ \A j \in OfType("SendNewPacket") : log[j].packet.cmd = log[i].packet.cmd => j = i
  /\ \A k \in DOMAIN wire :
       \E i \in OfType("SendNewPacket") : i <= cursor[SockRx] /\ log[i].packet = wire[k]

IInv == TypeIInv /\ OnceOK /\ LockOK /\ AnswersOK

-------------------------------------------------------------------------------
(* The bus: every step appends at most one event, and moves cursors within  *)
(* the log.                                                                 *)
LEMMA BusStep ==
  ASSUME Bus!BusTypeOK(Event),
         log' = log \/ \E e \in Event : log' = Append(log, e),
         cursor' = cursor
           \/ \E rx \in Receivers, n \in 0..Len(log) : cursor' = [cursor EXCEPT ![rx] = n]
  PROVE  Bus!BusTypeOK(Event)'
<1>1. log \in Seq(Event) /\ Len(log) \in Nat
  BY DEF Bus!BusTypeOK
<1>2. log' \in Seq(Event) /\ Len(log) <= Len(log') /\ Len(log') \in Nat
  BY <1>1
<1>3. cursor' \in [Receivers -> Nat \cup {Bus!Detached}]
  BY <1>1 DEF Bus!BusTypeOK
<1>4. \A rx \in Receivers : cursor'[rx] <= Len(log)
  BY <1>1 DEF Bus!BusTypeOK, Bus!Detached
<1>5. \A rx \in Receivers : cursor'[rx] <= Len(log')
  BY <1>1, <1>2, <1>3, <1>4 DEF Bus!Detached
<1> QED BY <1>2, <1>3, <1>5 DEF Bus!BusTypeOK

LEMMA EventsAreTyped ==
  /\ \A c \in Commands : [type |-> "NewPacketReceived", cmd |-> c] \in Event
  /\ \A packet \in Answer : [type |-> "SendNewPacket", packet |-> packet] \in Event
  BY DEF Event

LEMMA EventFields ==
  ASSUME NEW e \in Event
  PROVE  /\ e.type = "NewPacketReceived" => e.cmd \in Commands
         /\ e.type = "SendNewPacket" => e.packet \in Answer
  BY DEF Event

LEMMA ServedAreCommands == Served \subseteq Commands /\ None \notin Commands
  BY HandlerAssumption DEF Served, Commands

LEMMA UnservedAreNotServed ==
  \A c \in Commands : c \notin Empties /\ c \notin Undecodables => c \in Served
  BY DEF Served, Commands

LEMMA TypeInit == Init => TypeIInv
<1> SUFFICES ASSUME Init PROVE TypeIInv
  OBVIOUS
<1>1. Bus!BusTypeOK(Event)
  BY DEF Init, Bus!BusTypeOK, Bus!Detached
<1>2. Len(inq) <= InCap /\ Len(outq) <= OutCap
  BY HandlerAssumption DEF Init
<1> QED BY <1>1, <1>2, ServedAreCommands, HandlerAssumption
         DEF Init, TypeIInv, TypeOK, StageOK, Commands

LEMMA SocketReadsTypes == ASSUME TypeIInv, NEW c \in Commands, SocketReads(c) PROVE TypeIInv'
<1>1. Bus!BusTypeOK(Event)'
  BY BusStep, EventsAreTyped DEF TypeIInv, TypeOK, SocketReads, Bus!Publish
<1> QED BY <1>1 DEF TypeIInv, TypeOK, StageOK, SocketReads, lockVars

LEMMA SocketWritesTypes == ASSUME TypeIInv, SocketWrites PROVE TypeIInv'
<1>1. PICK i \in OfType("SendNewPacket") :
        Bus!MoveTo(SockRx, i) /\ wire' = Append(wire, log[i].packet)
  BY DEF SocketWrites
<1>2. log \in Seq(Event) /\ i \in 1..Len(log) /\ Len(log) \in Nat
  BY DEF TypeIInv, TypeOK, Bus!BusTypeOK, OfType
<1>3. log[i].packet \in Answer
  BY <1>2, EventFields DEF OfType
<1>4. Bus!BusTypeOK(Event)'
  <2>1. cursor' = [cursor EXCEPT ![SockRx] = i]
    BY <1>1 DEF Bus!MoveTo
  <2>2. i \in 0..Len(log)
    BY <1>2
  <2>3. log' = log
    BY DEF SocketWrites
  <2> QED BY <2>1, <2>2, <2>3, BusStep DEF TypeIInv, TypeOK, Receivers
<1> QED BY <1>1, <1>3, <1>4 DEF TypeIInv, TypeOK, StageOK, SocketWrites, lockVars

LEMMA ReaderStartsTypes == ASSUME TypeIInv, ReaderStarts PROVE TypeIInv'
<1>1. log \in Seq(Event) /\ Len(log) \in 0..Len(log)
  BY DEF TypeIInv, TypeOK, Bus!BusTypeOK
<1>2. Bus!BusTypeOK(Event)'
  BY <1>1, BusStep DEF TypeIInv, TypeOK, ReaderStarts, Bus!Subscribe, Receivers
<1> QED BY <1>2 DEF TypeIInv, TypeOK, StageOK, ReaderStarts, lockVars

LEMMA ReaderReceivesTypes == ASSUME TypeIInv, ReaderReceives PROVE TypeIInv'
<1>1. PICK i \in OfType("NewPacketReceived") :
        /\ Bus!MoveTo(ReadRx, i)
        /\ reader' = IF log[i].cmd \in Undecodables THEN None ELSE log[i].cmd
  BY DEF ReaderReceives
<1>2. log \in Seq(Event) /\ i \in 1..Len(log) /\ Len(log) \in Nat
  BY DEF TypeIInv, TypeOK, Bus!BusTypeOK, OfType
<1>3. log[i].cmd \in Commands
  BY <1>2, EventFields DEF OfType
<1>4. Bus!BusTypeOK(Event)'
  <2>1. cursor' = [cursor EXCEPT ![ReadRx] = i]
    BY <1>1 DEF Bus!MoveTo
  <2>2. i \in 0..Len(log)
    BY <1>2
  <2>3. log' = log
    BY DEF ReaderReceives
  <2> QED BY <2>1, <2>2, <2>3, BusStep DEF TypeIInv, TypeOK, Receivers
<1>5. reader' \in Commands \cup {None} /\ reader' \notin Undecodables
  BY <1>1, <1>3, ServedAreCommands DEF Commands
<1> QED BY <1>4, <1>5 DEF TypeIInv, TypeOK, StageOK, ReaderReceives, lockVars

LEMMA BusStays == ASSUME TypeIInv, UNCHANGED busVars PROVE Bus!BusTypeOK(Event)'
  BY BusStep DEF TypeIInv, TypeOK, busVars

LEMMA ReaderForwardsTypes == ASSUME TypeIInv, ReaderForwards PROVE TypeIInv'
<1>1. reader \in Commands /\ reader' = None /\ None \notin Undecodables
  BY ServedAreCommands DEF TypeIInv, TypeOK, ReaderForwards, Commands
<1>2. inq \in Seq(Commands) /\ Len(inq) \in Nat /\ InCap \in Nat /\ Len(inq) <= InCap
  BY HandlerAssumption DEF TypeIInv, TypeOK
<1>3. inq' \in Seq(Commands) /\ Len(inq') <= InCap
  BY <1>1, <1>2 DEF ReaderForwards
<1>4. \A k \in DOMAIN inq' : inq'[k] \notin Undecodables
  BY <1>1, <1>2 DEF ReaderForwards, TypeIInv, StageOK
<1>5. Bus!BusTypeOK(Event)'
  BY BusStays DEF ReaderForwards
<1> QED BY <1>1, <1>3, <1>4, <1>5 DEF TypeIInv, TypeOK, StageOK, ReaderForwards, lockVars

LEMMA HeadIsFirst ==
  ASSUME NEW S, NEW s \in Seq(S), s # <<>>
  PROVE  /\ 1 \in DOMAIN s /\ Head(s) = s[1] /\ Head(s) \in S
         /\ Tail(s) \in Seq(S) /\ Len(Tail(s)) < Len(s)
         /\ \A k \in DOMAIN Tail(s) : k + 1 \in DOMAIN s /\ Tail(s)[k] = s[k + 1] /\ k + 1 # 1
  OBVIOUS

LEMMA DispatchTypes == ASSUME TypeIInv, Dispatch PROVE TypeIInv'
<1>1. inq \in Seq(Commands) /\ inq # <<>> /\ Len(inq) \in Nat /\ Len(inq) <= InCap /\ InCap \in Nat
  BY HandlerAssumption DEF TypeIInv, TypeOK, Dispatch
<1>2. Head(inq) \in Commands /\ Head(inq) \notin Undecodables
  BY <1>1, HeadIsFirst DEF TypeIInv, StageOK
<1>3. Bus!BusTypeOK(Event)'
  BY BusStays DEF Dispatch
<1>4. CASE Head(inq) \in Empties
  <2>1. inq' = <<>> /\ dispatcher' = "panicked" /\ UNCHANGED task
    BY <1>4 DEF Dispatch
  <2>2. inq' \in Seq(Commands) /\ Len(inq') <= InCap /\ DOMAIN inq' = {}
    BY <1>1, <2>1
  <2> QED BY <1>3, <2>1, <2>2 DEF TypeIInv, TypeOK, StageOK, Dispatch, lockVars
<1>5. CASE Head(inq) \notin Empties
  <2>1. /\ task' = [task EXCEPT ![Head(inq)] = "spawned"] /\ inq' = Tail(inq)
        /\ UNCHANGED dispatcher
    BY <1>5 DEF Dispatch
  <2>2. inq' \in Seq(Commands) /\ Len(inq') <= InCap
    BY <1>1, <2>1, HeadIsFirst
  <2>3. \A k \in DOMAIN inq' : inq'[k] \notin Undecodables
    BY <1>1, <2>1, HeadIsFirst DEF TypeIInv, StageOK
  <2>4. Head(inq) \in Served
    BY <1>2, <1>5, UnservedAreNotServed
  <2> QED BY <1>2, <1>3, <2>1, <2>2, <2>3, <2>4
           DEF TypeIInv, TypeOK, StageOK, Dispatch, lockVars
<1> QED BY <1>4, <1>5

LEMMA ConcludeTypes ==
  ASSUME TypeIInv, NEW c \in Commands, task[c] # "none", NEW outcome \in Outcomes,
         Conclude(c, outcome)
  PROVE  /\ task' \in [Commands -> {"none", "spawned", "working", "answering", "returning", "done",
                            "panicked"}]
         /\ answer' \in [Commands -> Outcomes \cup {None}]
         /\ \A d \in Commands : task'[d] # "none" => d \in Served
         /\ \A d \in Commands : task'[d] \in {"answering", "returning", "done"} => answer'[d] \in Outcomes
  BY DEF TypeIInv, TypeOK, StageOK, Conclude

LEMMA WorkTypes ==
  ASSUME TypeIInv, NEW c \in Commands, task[c] # "none",
         task' = [task EXCEPT ![c] = "working"], UNCHANGED answer
  PROVE  /\ task' \in [Commands -> {"none", "spawned", "working", "answering", "returning", "done",
                            "panicked"}]
         /\ answer' \in [Commands -> Outcomes \cup {None}]
         /\ \A d \in Commands : task'[d] # "none" => d \in Served
         /\ \A d \in Commands : task'[d] \in {"answering", "returning", "done"} => answer'[d] \in Outcomes
  BY DEF TypeIInv, TypeOK, StageOK

LEMMA OutcomeNames ==
  {"Ok", "ModelBusy", "ModelAlreadyLoaded", "LoadingError", "ModelNotLoaded", "GenerationError"}
    \subseteq Outcomes
  BY DEF Outcomes, LoadOutcomes, GenerateOutcomes

LEMMA FindsBusyTypes == ASSUME TypeIInv, NEW c \in Commands, FindsBusy(c) PROVE TypeIInv'
<1>1. Bus!BusTypeOK(Event)'
  BY BusStays DEF FindsBusy
<1>2. task[c] # "none" /\ Conclude(c, "ModelBusy") /\ "ModelBusy" \in Outcomes
  BY OutcomeNames DEF FindsBusy
<1> QED BY <1>1, <1>2, ConcludeTypes DEF TypeIInv, TypeOK, StageOK, FindsBusy, lockVars

LEMMA LocksTypes == ASSUME TypeIInv, NEW c \in Commands, Locks(c) PROVE TypeIInv'
<1>1. Bus!BusTypeOK(Event)'
  BY BusStays DEF Locks
<1>2. task[c] # "none"
  BY DEF Locks
<1>3. holder' \in Commands \cup {None}
  BY DEF Locks, TypeIInv, TypeOK
<1>4. task' = [task EXCEPT ![c] = "working"] /\ UNCHANGED answer
  BY DEF Locks
<1>5. /\ task' \in [Commands -> {"none", "spawned", "working", "answering", "returning", "done",
                            "panicked"}]
      /\ answer' \in [Commands -> Outcomes \cup {None}]
      /\ \A d \in Commands : task'[d] # "none" => d \in Served
      /\ \A d \in Commands : task'[d] \in {"answering", "returning", "done"} => answer'[d] \in Outcomes
  BY <1>2, <1>4, WorkTypes
<1> QED BY <1>1, <1>3, <1>5 DEF TypeIInv, TypeOK, StageOK, Locks

LEMMA FinishLoadTypes == ASSUME TypeIInv, NEW c \in Commands, FinishLoad(c) PROVE TypeIInv'
<1>1. Bus!BusTypeOK(Event)'
  BY BusStays DEF FinishLoad
<1>2. task[c] # "none" /\ \E outcome \in Outcomes : Conclude(c, outcome)
  BY OutcomeNames DEF FinishLoad
<1>3. model' \in Loads \cup {None}
  BY DEF FinishLoad, TypeIInv, TypeOK
<1> QED BY <1>1, <1>2, <1>3, ConcludeTypes DEF TypeIInv, TypeOK, StageOK, FinishLoad

LEMMA FinishGenerateTypes == ASSUME TypeIInv, NEW c \in Commands, FinishGenerate(c) PROVE TypeIInv'
<1>1. Bus!BusTypeOK(Event)'
  BY BusStays DEF FinishGenerate
<1>2. task[c] # "none" /\ \E outcome \in Outcomes : Conclude(c, outcome)
  BY OutcomeNames DEF FinishGenerate
<1>3. holder' \in Commands \cup {None}
  BY DEF FinishGenerate
<1> QED BY <1>1, <1>2, <1>3, ConcludeTypes DEF TypeIInv, TypeOK, StageOK, FinishGenerate

LEMMA PanicsTypes == ASSUME TypeIInv, NEW c \in Commands, Panics(c) PROVE TypeIInv'
<1>1. Bus!BusTypeOK(Event)'
  BY BusStays DEF Panics
<1> QED BY <1>1 DEF TypeIInv, TypeOK, StageOK, Panics

LEMMA BlockingSendTypes == ASSUME TypeIInv, NEW c \in Commands, BlockingSend(c) PROVE TypeIInv'
<1>1. Bus!BusTypeOK(Event)'
  BY BusStays DEF BlockingSend
<1>2. c \in Served /\ answer[c] \in Outcomes
  BY DEF BlockingSend, TypeIInv, StageOK
<1>3. [cmd |-> c, outcome |-> answer[c]] \in Answer
  BY <1>2 DEF Answer, Served
<1>4. outq \in Seq(Answer) /\ Len(outq) \in Nat /\ OutCap \in Nat /\ Len(outq) < OutCap
  BY HandlerAssumption DEF TypeIInv, TypeOK, BlockingSend
<1>5. outq' \in Seq(Answer) /\ Len(outq') <= OutCap
  BY <1>3, <1>4 DEF BlockingSend
<1>6. /\ task' \in [Commands -> {"none", "spawned", "working", "answering", "returning", "done",
                            "panicked"}]
      /\ \A d \in Commands : task'[d] # "none" => d \in Served
      /\ \A d \in Commands : task'[d] \in {"answering", "returning", "done"} => answer[d] \in Outcomes
  BY <1>2 DEF BlockingSend, AfterSend, TypeIInv, TypeOK, StageOK
<1>7. UNCHANGED <<answer, lockVars>>
  BY DEF BlockingSend
<1> QED BY <1>1, <1>5, <1>6, <1>7 DEF TypeIInv, TypeOK, StageOK, BlockingSend, lockVars

LEMMA ReturnsTypes == ASSUME TypeIInv, NEW c \in Commands, Returns(c) PROVE TypeIInv'
<1>1. Bus!BusTypeOK(Event)'
  BY BusStays DEF Returns
<1> QED BY <1>1 DEF TypeIInv, TypeOK, StageOK, Returns

LEMMA WriterForwardsTypes == ASSUME TypeIInv, WriterForwards PROVE TypeIInv'
<1>1. outq \in Seq(Answer) /\ outq # <<>> /\ Len(outq) \in Nat /\ Len(outq) <= OutCap /\ OutCap \in Nat
  BY HandlerAssumption DEF TypeIInv, TypeOK, WriterForwards
<1>2. Head(outq) \in Answer /\ Tail(outq) \in Seq(Answer) /\ Len(Tail(outq)) <= OutCap
  BY <1>1, HeadIsFirst
<1>3. Bus!BusTypeOK(Event)'
  BY <1>2, BusStep, EventsAreTyped DEF TypeIInv, TypeOK, WriterForwards, Bus!Publish
<1> QED BY <1>2, <1>3 DEF TypeIInv, TypeOK, StageOK, WriterForwards, lockVars

LEMMA NextTypes == TypeIInv /\ [Next]_vars => TypeIInv'
<1> SUFFICES ASSUME TypeIInv, [Next]_vars PROVE TypeIInv'
  OBVIOUS
<1>1. CASE \E c \in Commands : SocketReads(c)
  BY <1>1, SocketReadsTypes
<1>2. CASE \E c \in Commands : TaskStep(c)
  BY <1>2, FindsBusyTypes, LocksTypes, FinishLoadTypes, FinishGenerateTypes, PanicsTypes,
     BlockingSendTypes, ReturnsTypes
  DEF TaskStep
<1>3. CASE SocketWrites \/ WriterForwards
  BY <1>3, SocketWritesTypes, WriterForwardsTypes
<1>4. CASE ReaderStarts \/ ReaderReceives \/ ReaderForwards \/ Dispatch
  BY <1>4, ReaderStartsTypes, ReaderReceivesTypes, ReaderForwardsTypes, DispatchTypes
<1>5. CASE UNCHANGED vars
  <2>1. Bus!BusTypeOK(Event)'
    BY <1>5, BusStays DEF vars
  <2> QED BY <1>5, <2>1 DEF vars, lockVars, TypeIInv, TypeOK, StageOK
<1> QED BY <1>1, <1>2, <1>3, <1>4, <1>5 DEF Next

-------------------------------------------------------------------------------
(* What is on the bus stays there, and cursors never go back.               *)
LogGrows ==
  /\ DOMAIN log \subseteq DOMAIN log'
  /\ \A i \in DOMAIN log : log'[i] = log[i]

LEMMA LogSteps ==
  ASSUME TypeIInv, log' = log \/ \E e \in Event : log' = Append(log, e)
  PROVE  LogGrows
<1>1. log \in Seq(Event)
  BY DEF TypeIInv, TypeOK, Bus!BusTypeOK
<1>2. CASE \E e \in Event : log' = Append(log, e)
  BY <1>1, <1>2 DEF LogGrows
<1>3. CASE log' = log
  BY <1>3 DEF LogGrows
<1> QED BY <1>2, <1>3

LEMMA AppendedEvent ==
  ASSUME TypeIInv, NEW e \in Event, log' = Append(log, e)
  PROVE  /\ Len(log) \in Nat /\ Len(log) + 1 \notin DOMAIN log
         /\ DOMAIN log' = DOMAIN log \cup {Len(log) + 1}
         /\ log'[Len(log) + 1] = e
         /\ \A i \in DOMAIN log : log'[i] = log[i]
  BY DEF TypeIInv, TypeOK, Bus!BusTypeOK

LEMMA CursorsAreNumbers ==
  ASSUME TypeIInv
  PROVE  \A rx \in Receivers : cursor[rx] \in Int /\ (cursor[rx] <= Len(log)) /\ cursor[rx] >= -1
  BY DEF TypeIInv, TypeOK, Bus!BusTypeOK, Bus!Detached

LEMMA WasReadStays ==
  ASSUME TypeIInv, LogGrows, cursor'[ReadRx] \in Int, cursor[ReadRx] <= cursor'[ReadRx]
  PROVE  \A c \in Commands : WasRead(c) => WasRead(c)'
<1>1. cursor[ReadRx] \in Int /\ DOMAIN log \subseteq Int
  BY CursorsAreNumbers DEF Receivers, TypeIInv, TypeOK, Bus!BusTypeOK
<1> QED BY <1>1 DEF WasRead, Arrivals, OfType, LogGrows

(* Steps that neither publish a frame nor move a command towards its task.  *)
LEMMA OnceStays ==
  ASSUME TypeIInv, OnceOK, LogGrows, UNCHANGED <<reader, inq>>,
         OfType("NewPacketReceived")' = OfType("NewPacketReceived"),
         cursor'[ReadRx] \in Int, cursor[ReadRx] <= cursor'[ReadRx],
         \A c \in Commands : task'[c] = "none" <=> task[c] = "none"
  PROVE  OnceOK'
<1>1. \A c \in Commands : WasRead(c) => WasRead(c)'
  BY WasReadStays
<1>2. \A i, j \in OfType("NewPacketReceived")' : log'[i].cmd = log'[j].cmd => i = j
  BY DEF OnceOK, OfType, LogGrows
<1>3. /\ reader \in Commands \cup {None} /\ inq \in Seq(Commands)
      /\ \A k \in DOMAIN inq : inq[k] \in Commands
  BY DEF TypeIInv, TypeOK
<1> QED BY <1>1, <1>2, <1>3 DEF OnceOK

(* The steps of the tasks and of handle_write leave the way to the tasks    *)
(* alone.                                                                   *)
LEMMA TasksAloneOnce ==
  ASSUME TypeIInv, OnceOK, UNCHANGED <<busVars, reader, inq>>,
         \A c \in Commands : task'[c] = "none" <=> task[c] = "none"
  PROVE  OnceOK'
<1>1. LogGrows /\ OfType("NewPacketReceived")' = OfType("NewPacketReceived")
  BY DEF LogGrows, busVars, OfType
<1>2. cursor'[ReadRx] \in Int /\ cursor[ReadRx] <= cursor'[ReadRx]
  BY CursorsAreNumbers DEF busVars, Receivers
<1> QED BY <1>1, <1>2, OnceStays

LEMMA ConcludedTask ==
  ASSUME TypeIInv, NEW c \in Commands, NEW outcome, Conclude(c, outcome)
  PROVE  /\ task'[c] = "answering" /\ answer'[c] = outcome
         /\ \A d \in Commands \ {c} : task'[d] = task[d] /\ answer'[d] = answer[d]
  BY DEF TypeIInv, TypeOK, Conclude

LEMMA TaskStepOnce ==
  ASSUME TypeIInv, OnceOK, NEW c \in Commands, TaskStep(c)
  PROVE  OnceOK'
<1>1. UNCHANGED <<busVars, reader, inq>>
  BY DEF TaskStep, FindsBusy, Locks, FinishLoad, FinishGenerate, Panics, BlockingSend, Returns
<1>2. task \in [Commands -> {"none", "spawned", "working", "answering", "returning", "done",
                            "panicked"}]
  BY DEF TypeIInv, TypeOK
<1>3. task[c] # "none"
  BY DEF TaskStep, FindsBusy, Locks, FinishLoad, FinishGenerate, Panics, BlockingSend, Returns
<1>4. \/ \E outcome \in Outcomes : Conclude(c, outcome)
      \/ \E stage \in {"working", "returning", "done", "panicked"} :
           task' = [task EXCEPT ![c] = stage]
  BY OutcomeNames
  DEF TaskStep, FindsBusy, Locks, FinishLoad, FinishGenerate, Panics, BlockingSend, AfterSend, Returns
<1>5. \A d \in Commands : task'[d] = "none" <=> task[d] = "none"
  BY <1>2, <1>3, <1>4, ConcludedTask
<1> QED BY <1>1, <1>5, TasksAloneOnce

LEMMA SocketReadsOnce ==
  ASSUME TypeIInv, OnceOK, NEW c \in Commands, SocketReads(c)
  PROVE  OnceOK'
<1> DEFINE e == [type |-> "NewPacketReceived", cmd |-> c]
<1>1. e \in Event /\ log' = Append(log, e)
  BY EventsAreTyped DEF SocketReads, Bus!Publish
<1>2. /\ DOMAIN log' = DOMAIN log \cup {Len(log) + 1} /\ log'[Len(log) + 1] = e
      /\ \A i \in DOMAIN log : log'[i] = log[i]
  BY <1>1, AppendedEvent, Zenon
<1>3. LogGrows
  BY <1>2 DEF LogGrows
<1>4. UNCHANGED <<cursor, reader, inq, task>> /\ cursor[ReadRx] \in Int
  BY CursorsAreNumbers DEF SocketReads, Receivers
<1>5. \A d \in Commands : WasRead(d) => WasRead(d)'
  BY <1>3, <1>4, WasReadStays
<1>6. ASSUME NEW i \in OfType("NewPacketReceived")', NEW j \in OfType("NewPacketReceived")',
             log'[i].cmd = log'[j].cmd
      PROVE  i = j
  <2>1. \A k \in OfType("NewPacketReceived") : log[k].cmd # c
    BY DEF SocketReads, Arrivals
  <2>2. \A k \in OfType("NewPacketReceived")' :
          k = Len(log) + 1 \/ k \in OfType("NewPacketReceived")
    BY <1>2 DEF OfType
  <2>3. \A k \in OfType("NewPacketReceived") : log'[k] = log[k]
    BY <1>2 DEF OfType
  <2>4. log'[Len(log) + 1].cmd = c
    BY <1>2
  <2> QED BY <1>6, <2>1, <2>2, <2>3, <2>4 DEF OnceOK
<1>7. /\ reader \in Commands \cup {None} /\ \A k \in DOMAIN inq : inq[k] \in Commands
  BY DEF TypeIInv, TypeOK
<1> QED BY <1>4, <1>5, <1>6, <1>7 DEF OnceOK

LEMMA SocketWritesOnce ==
  ASSUME TypeIInv, OnceOK, SocketWrites
  PROVE  OnceOK'
<1>1. PICK i \in OfType("SendNewPacket") : Bus!MoveTo(SockRx, i)
  BY DEF SocketWrites
<1>2. cursor \in [Receivers -> Nat \cup {Bus!Detached}] /\ ReadRx \in Receivers /\ ReadRx # SockRx
  BY DEF TypeIInv, TypeOK, Bus!BusTypeOK, Receivers, ReadRx, SockRx
<1>3. cursor'[ReadRx] = cursor[ReadRx] /\ cursor[ReadRx] \in Int
  BY <1>1, <1>2, CursorsAreNumbers DEF Bus!MoveTo
<1>4. UNCHANGED <<log, reader, inq, task>>
  BY DEF SocketWrites
<1>5. LogGrows /\ OfType("NewPacketReceived")' = OfType("NewPacketReceived")
  BY <1>4 DEF LogGrows, OfType
<1> QED BY <1>3, <1>4, <1>5, OnceStays

LEMMA ReaderStartsOnce ==
  ASSUME TypeIInv, OnceOK, ReaderStarts
  PROVE  OnceOK'
<1>1. /\ cursor \in [Receivers -> Nat \cup {Bus!Detached}] /\ ReadRx \in Receivers
      /\ Len(log) \in Nat
  BY DEF TypeIInv, TypeOK, Bus!BusTypeOK, Receivers
<1>2. cursor'[ReadRx] \in Int /\ cursor[ReadRx] <= cursor'[ReadRx]
  BY <1>1, CursorsAreNumbers DEF ReaderStarts, Bus!Subscribe
<1>3. UNCHANGED <<log, reader, inq, task>>
  BY DEF ReaderStarts
<1>4. LogGrows /\ OfType("NewPacketReceived")' = OfType("NewPacketReceived")
  BY <1>3 DEF LogGrows, OfType
<1> QED BY <1>2, <1>3, <1>4, OnceStays

LEMMA ReaderReceivesOnce ==
  ASSUME TypeIInv, OnceOK, ReaderReceives
  PROVE  OnceOK'
<1>1. PICK i \in OfType("NewPacketReceived") :
        /\ Bus!IsNext(ReadRx, i, OfType("NewPacketReceived"))
        /\ Bus!MoveTo(ReadRx, i)
        /\ reader' = IF log[i].cmd \in Undecodables THEN None ELSE log[i].cmd
  BY DEF ReaderReceives
<1>2. cursor[ReadRx] \in Int /\ i \in Nat /\ cursor[ReadRx] < i
  <2>1. cursor[ReadRx] < i
    BY <1>1 DEF Bus!IsNext, Bus!Pending
  <2>2. i \in Nat
    BY DEF OfType, TypeIInv, TypeOK, Bus!BusTypeOK
  <2> QED BY <2>1, <2>2, CursorsAreNumbers DEF Receivers
<1>3. cursor'[ReadRx] = i
  BY <1>1 DEF Bus!MoveTo, TypeIInv, TypeOK, Bus!BusTypeOK, Receivers
<1>4. UNCHANGED <<log, inq, task>>
  BY DEF ReaderReceives
<1>5. LogGrows
  BY <1>4 DEF LogGrows
<1>6. \A c \in Commands : WasRead(c) => WasRead(c)'
  BY <1>2, <1>3, <1>5, WasReadStays
<1>7. ~ WasRead(log[i].cmd)
  <2> SUFFICES ASSUME NEW j \in Arrivals(log[i].cmd), j <= cursor[ReadRx] PROVE FALSE
    BY DEF WasRead
  <2>1. j \in OfType("NewPacketReceived") /\ log[j].cmd = log[i].cmd
    BY DEF Arrivals
  <2>2. j = i
    BY <2>1 DEF OnceOK
  <2> QED BY <1>2, <2>2
<1>8. WasRead(log[i].cmd)'
  BY <1>2, <1>3, <1>4 DEF WasRead, Arrivals, OfType
<1>9. log[i].cmd \in Commands
  BY EventFields DEF OfType, TypeIInv, TypeOK, Bus!BusTypeOK
<1>10. \A k \in DOMAIN inq : inq[k] \in Commands
  BY DEF TypeIInv, TypeOK
<1>11. reader' # None =>
         /\ WasRead(reader)' /\ task'[reader'] = "none"
         /\ \A k \in DOMAIN inq' : inq'[k] # reader'
  <2> SUFFICES ASSUME reader' # None PROVE reader' = log[i].cmd
    BY <1>4, <1>7, <1>8, <1>9 DEF OnceOK, WasRead, Arrivals, OfType
  <2> QED BY <1>1
<1>12. OfType("NewPacketReceived")' = OfType("NewPacketReceived")
  BY <1>4 DEF OfType
<1> QED BY <1>4, <1>6, <1>10, <1>11, <1>12 DEF OnceOK

LEMMA ReaderForwardsOnce ==
  ASSUME TypeIInv, OnceOK, ReaderForwards
  PROVE  OnceOK'
<1>1. UNCHANGED <<log, cursor, task>> /\ reader' = None /\ reader # None
  BY DEF ReaderForwards, busVars
<1>2. \A c : WasRead(c)' = WasRead(c)
  BY <1>1 DEF WasRead, Arrivals, OfType
<1>3. OfType("NewPacketReceived")' = OfType("NewPacketReceived")
  BY <1>1 DEF OfType
<1>4. inq \in Seq(Commands) /\ reader \in Commands
  BY <1>1 DEF TypeIInv, TypeOK
<1>5. CASE inq' = Append(inq, reader)
  <2>1. /\ Len(inq) \in Nat /\ DOMAIN inq' = DOMAIN inq \cup {Len(inq) + 1}
        /\ Len(inq) + 1 \notin DOMAIN inq
        /\ inq'[Len(inq) + 1] = reader /\ \A k \in DOMAIN inq : inq'[k] = inq[k]
    BY <1>4, <1>5
  <2>2. WasRead(reader) /\ task[reader] = "none" /\ \A k \in DOMAIN inq : inq[k] # reader
    BY <1>1 DEF OnceOK
  <2>3. ASSUME NEW k \in DOMAIN inq'
        PROVE  /\ WasRead(inq'[k]) /\ task[inq'[k]] = "none"
               /\ \A m \in DOMAIN inq' : inq'[m] = inq'[k] => m = k
    BY <2>1, <2>2 DEF OnceOK
  <2> QED BY <1>1, <1>2, <1>3, <2>3 DEF OnceOK
<1>6. CASE UNCHANGED inq
  BY <1>1, <1>2, <1>3, <1>6 DEF OnceOK
<1> QED BY <1>5, <1>6 DEF ReaderForwards

LEMMA DispatchOnce ==
  ASSUME TypeIInv, OnceOK, Dispatch
  PROVE  OnceOK'
<1>1. UNCHANGED <<log, cursor, reader>> /\ inq # <<>>
  BY DEF Dispatch, busVars
<1>2. \A c : WasRead(c)' = WasRead(c)
  BY <1>1 DEF WasRead, Arrivals, OfType
<1>3. OfType("NewPacketReceived")' = OfType("NewPacketReceived")
  BY <1>1 DEF OfType
<1>4. inq \in Seq(Commands) /\ DOMAIN task = Commands /\ task = [c \in Commands |-> task[c]]
  BY DEF TypeIInv, TypeOK
<1>5. CASE inq' = <<>> /\ UNCHANGED task
  <2>1. DOMAIN inq' = {}
    BY <1>5
  <2> QED BY <1>1, <1>2, <1>3, <1>5, <2>1 DEF OnceOK
<1>6. CASE inq' = Tail(inq) /\ task' = [task EXCEPT ![Head(inq)] = "spawned"]
  <2>1. /\ 1 \in DOMAIN inq /\ Head(inq) = inq[1] /\ Head(inq) \in Commands
        /\ \A k \in DOMAIN inq' : k + 1 \in DOMAIN inq /\ inq'[k] = inq[k + 1] /\ k + 1 # 1
        /\ DOMAIN inq' \subseteq Nat /\ \A k \in DOMAIN inq : inq[k] \in Commands
    BY <1>1, <1>4, <1>6, HeadIsFirst
  <2>2. WasRead(Head(inq)) /\ \A k \in DOMAIN inq : inq[k] = Head(inq) => k = 1
    BY <2>1 DEF OnceOK
  <2>3. \A c \in Commands : c # Head(inq) => task'[c] = task[c]
    BY <1>4, <1>6
  <2>4. ASSUME NEW k \in DOMAIN inq'
        PROVE  /\ WasRead(inq'[k]) /\ task'[inq'[k]] = "none"
               /\ \A m \in DOMAIN inq' : inq'[m] = inq'[k] => m = k
    <3>1. WasRead(inq[k + 1]) /\ task[inq[k + 1]] = "none" /\ inq[k + 1] # Head(inq)
      BY <2>1, <2>2 DEF OnceOK
    <3>2. ASSUME NEW m \in DOMAIN inq', inq'[m] = inq'[k] PROVE m = k
      <4>1. m + 1 = k + 1
        BY <2>1, <3>2 DEF OnceOK
      <4> QED BY <2>1, <4>1
    <3> QED BY <2>1, <2>3, <3>1, <3>2
  <2>5. reader # None =>
          /\ WasRead(reader) /\ task'[reader] = "none" /\ \A k \in DOMAIN inq' : inq'[k] # reader
    <3>1. reader \in Commands \cup {None}
      BY DEF TypeIInv, TypeOK
    <3> QED BY <2>1, <2>3, <3>1 DEF OnceOK
  <2>6. \A c \in Commands : task'[c] # "none" => WasRead(c)
    BY <2>2, <2>3 DEF OnceOK
  <2> QED BY <1>1, <1>2, <1>3, <2>4, <2>5, <2>6 DEF OnceOK
<1> QED BY <1>5, <1>6 DEF Dispatch

LEMMA WriterForwardsOnce ==
  ASSUME TypeIInv, OnceOK, WriterForwards
  PROVE  OnceOK'
<1>1. outq \in Seq(Answer) /\ outq # <<>>
  BY DEF TypeIInv, TypeOK, WriterForwards
<1>2. PICK e \in Event : log' = Append(log, e) /\ e.type = "SendNewPacket"
  BY <1>1, HeadIsFirst, EventsAreTyped DEF WriterForwards, Bus!Publish
<1>3. /\ DOMAIN log' = DOMAIN log \cup {Len(log) + 1} /\ log'[Len(log) + 1] = e
      /\ \A i \in DOMAIN log : log'[i] = log[i]
  BY <1>2, AppendedEvent, Zenon
<1>4. LogGrows
  BY <1>3 DEF LogGrows
<1>5. OfType("NewPacketReceived")' = OfType("NewPacketReceived")
  BY <1>2, <1>3 DEF OfType
<1>6. UNCHANGED <<cursor, reader, inq, task>> /\ cursor[ReadRx] \in Int
  BY CursorsAreNumbers DEF WriterForwards, Receivers
<1> QED BY <1>4, <1>5, <1>6, OnceStays

LEMMA NextOnce ==
  ASSUME TypeIInv, OnceOK, [Next]_vars
  PROVE  OnceOK'
<1>1. CASE \E c \in Commands : SocketReads(c) \/ TaskStep(c)
  BY <1>1, SocketReadsOnce, TaskStepOnce
<1>2. CASE SocketWrites \/ WriterForwards
  BY <1>2, SocketWritesOnce, WriterForwardsOnce
<1>3. CASE ReaderStarts \/ ReaderReceives \/ ReaderForwards \/ Dispatch
  BY <1>3, ReaderStartsOnce, ReaderReceivesOnce, ReaderForwardsOnce, DispatchOnce
<1>4. CASE UNCHANGED vars
  BY <1>4, TasksAloneOnce DEF vars
<1> QED BY <1>1, <1>2, <1>3, <1>4 DEF Next

-------------------------------------------------------------------------------
(* Steps that leave the lock, the model and those who work on it alone.     *)
LEMMA LockStays ==
  ASSUME TypeIInv, LockOK, UNCHANGED lockVars,
         \A c \in Commands :
           /\ task'[c] = "working" <=> task[c] = "working"
           /\ task'[c] = "returning" <=> task[c] = "returning"
           /\ task[c] = "answering" => task'[c] = "answering"
  PROVE  LockOK'
<1>1. holder \in Commands \cup {None} /\ Loads \subseteq Commands /\ Generates \subseteq Commands
  BY ServedAreCommands DEF TypeIInv, TypeOK, Served
<1> QED BY <1>1 DEF LockOK, lockVars

LEMMA DispatchLock == ASSUME TypeIInv, OnceOK, LockOK, Dispatch PROVE LockOK'
<1>1. UNCHANGED lockVars /\ inq # <<>> /\ inq \in Seq(Commands)
  BY DEF Dispatch, TypeIInv, TypeOK
<1>2. Head(inq) \in Commands /\ task[Head(inq)] = "none"
  BY <1>1, HeadIsFirst DEF OnceOK
<1>3. \A c \in Commands :
        /\ task'[c] = "working" <=> task[c] = "working"
        /\ task'[c] = "returning" <=> task[c] = "returning"
        /\ task[c] = "answering" => task'[c] = "answering"
  BY <1>2 DEF Dispatch, TypeIInv, TypeOK
<1> QED BY <1>1, <1>3, LockStays

LEMMA FindsBusyLock ==
  ASSUME TypeIInv, LockOK, NEW c \in Commands, FindsBusy(c) PROVE LockOK'
<1>1. Conclude(c, "ModelBusy") /\ task[c] = "spawned" /\ UNCHANGED lockVars
  BY DEF FindsBusy
<1>2. \A d \in Commands :
        /\ task'[d] = "working" <=> task[d] = "working"
        /\ task'[d] = "returning" <=> task[d] = "returning"
        /\ task[d] = "answering" => task'[d] = "answering"
  BY <1>1, ConcludedTask
<1> QED BY <1>1, <1>2, LockStays

LEMMA LocksLock ==
  ASSUME TypeIInv, LockOK, NEW c \in Commands, Locks(c) PROVE LockOK'
<1>1. holder = None /\ holder' = c /\ \A d \in Commands : task[d] \notin {"working", "returning"}
  BY ServedAreCommands DEF Locks, LockOK
<1>2. task'[c] = "working" /\ \A d \in Commands \ {c} : task'[d] \notin {"working", "returning"}
  BY <1>1 DEF Locks, TypeIInv, TypeOK
<1> QED BY <1>1, <1>2 DEF LockOK

(* The lock is held by one command.                                         *)
LEMMA HolderIsAlone ==
  ASSUME LockOK, NEW c \in Commands, task[c] \in {"working", "returning"}
  PROVE  /\ holder = c
         /\ \A d \in Commands \ {c} : task[d] \notin {"working", "returning"}
  BY DEF LockOK

LEMMA FinishLock ==
  ASSUME TypeIInv, LockOK, NEW c \in Commands, FinishLoad(c) \/ FinishGenerate(c)
  PROVE  LockOK'
<1>1. task[c] = "working" /\ holder' \in {c, None}
  BY HolderIsAlone DEF FinishLoad, FinishGenerate
<1>2. task'[c] = "answering" /\ \A d \in Commands \ {c} : task'[d] = task[d]
  BY ConcludedTask DEF FinishLoad, FinishGenerate
<1> QED BY <1>1, <1>2, HolderIsAlone DEF LockOK

LEMMA PanicsLock ==
  ASSUME TypeIInv, LockOK, NEW c \in Commands, Panics(c) PROVE LockOK'
<1>1. task[c] = "working" /\ holder' = None
  BY DEF Panics
<1>2. task'[c] = "panicked" /\ \A d \in Commands \ {c} : task'[d] = task[d]
  BY DEF Panics, TypeIInv, TypeOK
<1> QED BY <1>1, <1>2, HolderIsAlone DEF LockOK

LEMMA BlockingSendLock ==
  ASSUME TypeIInv, LockOK, NEW c \in Commands, BlockingSend(c) PROVE LockOK'
<1>1. task[c] = "answering" /\ UNCHANGED holder
  BY DEF BlockingSend, lockVars
<1>2. task'[c] = AfterSend(c) /\ \A d \in Commands \ {c} : task'[d] = task[d]
  BY DEF BlockingSend, TypeIInv, TypeOK
<1>3. None \notin Commands /\ holder \in Commands \cup {None}
  BY ServedAreCommands DEF TypeIInv, TypeOK
<1> QED BY <1>1, <1>2, <1>3 DEF LockOK, AfterSend

LEMMA ReturnsLock ==
  ASSUME TypeIInv, LockOK, NEW c \in Commands, Returns(c) PROVE LockOK'
<1>1. task[c] = "returning" /\ holder' = None
  BY DEF Returns
<1>2. task'[c] = "done" /\ \A d \in Commands \ {c} : task'[d] = task[d]
  BY DEF Returns, TypeIInv, TypeOK
<1> QED BY <1>1, <1>2, HolderIsAlone DEF LockOK

LEMMA NextLock ==
  ASSUME TypeIInv, OnceOK, LockOK, [Next]_vars
  PROVE  LockOK'
<1>1. CASE \E c \in Commands : TaskStep(c)
  BY <1>1, FindsBusyLock, LocksLock, FinishLock, PanicsLock, BlockingSendLock, ReturnsLock
  DEF TaskStep
<1>2. CASE Dispatch
  BY <1>2, DispatchLock
<1>3. CASE UNCHANGED <<task, lockVars>>
  BY <1>3, LockStays
<1>4. ASSUME \/ \E c \in Commands : SocketReads(c)
             \/ SocketWrites \/ WriterForwards
             \/ ReaderStarts \/ ReaderReceives \/ ReaderForwards \/ UNCHANGED vars
      PROVE  UNCHANGED <<task, lockVars>>
  BY <1>4 DEF SocketReads, SocketWrites, WriterForwards, ReaderStarts, ReaderReceives,
              ReaderForwards, vars, lockVars
<1> QED BY <1>1, <1>2, <1>3, <1>4 DEF Next

-------------------------------------------------------------------------------
LEMMA AnswerFields ==
  ASSUME TypeIInv
  PROVE  /\ \A k \in DOMAIN outq : outq[k] \in Answer
         /\ \A i \in OfType("SendNewPacket") : log[i].packet \in Answer
         /\ \A packet \in Answer : packet.cmd \in Served /\ packet.cmd \in Commands
<1>1. outq \in Seq(Answer) /\ log \in Seq(Event)
  BY DEF TypeIInv, TypeOK, Bus!BusTypeOK
<1>2. \A packet \in Answer : packet.cmd \in Served /\ packet.cmd \in Commands
  BY ServedAreCommands DEF Answer, Served
<1>3. \A i \in OfType("SendNewPacket") : log[i].packet \in Answer
  BY <1>1, EventFields DEF OfType
<1> QED BY <1>1, <1>2, <1>3

(* Steps that take no answer any further.                                   *)
LEMMA AnswersStay ==
  ASSUME TypeIInv, AnswersOK, LogGrows, UNCHANGED <<outq, wire>>,
         OfType("SendNewPacket")' = OfType("SendNewPacket"),
         cursor'[SockRx] = cursor[SockRx],
         \A c \in Commands : Sent(c) => Sent(c)' /\ answer'[c] = answer[c]
  PROVE  AnswersOK'
<1>1. \A i \in OfType("SendNewPacket") : log'[i] = log[i]
  BY DEF LogGrows, OfType
<1>2. \A packet \in Answer : IsAnswer(packet) => IsAnswer(packet)'
  BY AnswerFields DEF IsAnswer
<1>3. \A k \in DOMAIN outq :
        /\ IsAnswer(outq[k])'
        /\ \A m \in DOMAIN outq : outq[m].cmd = outq[k].cmd => m = k
        /\ \A i \in OfType("SendNewPacket") : log'[i].packet.cmd # outq[k].cmd
  BY <1>1, <1>2, AnswerFields DEF AnswersOK
<1>4. ASSUME NEW i \in OfType("SendNewPacket")
      PROVE  /\ IsAnswer(log[i].packet)'
             /\ \A j \in OfType("SendNewPacket") :
                  log'[j].packet.cmd = log'[i].packet.cmd => j = i
  <2>1. ASSUME NEW packet, packet = log[i].packet PROVE IsAnswer(packet)'
    BY <1>2, <2>1, AnswerFields DEF AnswersOK
  <2>2. IsAnswer(log[i].packet)'
    BY <1>1, <2>1 DEF IsAnswer, Sent
  <2>3. \A j \in OfType("SendNewPacket") : log[j].packet.cmd = log[i].packet.cmd => j = i
    BY DEF AnswersOK
  <2> QED BY <1>1, <2>2, <2>3
<1>5. \A k \in DOMAIN wire :
        \E i \in OfType("SendNewPacket") : i <= cursor'[SockRx] /\ log'[i].packet = wire[k]
  BY <1>1 DEF AnswersOK
<1> QED BY <1>3, <1>4, <1>5 DEF AnswersOK

LEMMA SocketReadsAnswers ==
  ASSUME TypeIInv, AnswersOK, NEW c \in Commands, SocketReads(c)
  PROVE  AnswersOK'
<1> DEFINE e == [type |-> "NewPacketReceived", cmd |-> c]
<1>1. e \in Event /\ log' = Append(log, e)
  BY EventsAreTyped DEF SocketReads, Bus!Publish
<1>2. /\ DOMAIN log' = DOMAIN log \cup {Len(log) + 1} /\ log'[Len(log) + 1] = e
      /\ \A i \in DOMAIN log : log'[i] = log[i]
  BY <1>1, AppendedEvent, Zenon
<1>3. LogGrows
  BY <1>2 DEF LogGrows
<1>4. OfType("SendNewPacket")' = OfType("SendNewPacket")
  BY <1>2 DEF OfType
<1>5. UNCHANGED <<cursor, task, answer, outq, wire>>
  BY DEF SocketReads
<1> QED BY <1>3, <1>4, <1>5, AnswersStay DEF Sent

LEMMA ReaderAnswers ==
  ASSUME TypeIInv, OnceOK, AnswersOK, ReaderStarts \/ ReaderReceives \/ ReaderForwards \/ Dispatch
  PROVE  AnswersOK'
<1>1. UNCHANGED <<log, answer, outq, wire>>
  BY DEF ReaderStarts, ReaderReceives, ReaderForwards, Dispatch, busVars
<1>2. /\ cursor \in [Receivers -> Nat \cup {Bus!Detached}]
      /\ SockRx \in Receivers /\ ReadRx # SockRx
  BY DEF TypeIInv, TypeOK, Bus!BusTypeOK, Receivers, ReadRx, SockRx
<1>3. cursor'[SockRx] = cursor[SockRx]
  BY <1>2 DEF ReaderStarts, ReaderReceives, ReaderForwards, Dispatch, busVars,
              Bus!Subscribe, Bus!MoveTo
<1>4. \A c \in Commands : Sent(c) => Sent(c)'
  <2>1. CASE ReaderStarts \/ ReaderReceives \/ ReaderForwards
    BY <2>1 DEF ReaderStarts, ReaderReceives, ReaderForwards, Sent
  <2>2. CASE Dispatch
    <3>1. inq # <<>> /\ inq \in Seq(Commands)
      BY <2>2 DEF Dispatch, TypeIInv, TypeOK
    <3>2. Head(inq) \in Commands /\ task[Head(inq)] = "none"
      BY <3>1, HeadIsFirst DEF OnceOK
    <3> QED BY <2>2, <3>2 DEF Dispatch, TypeIInv, TypeOK, Sent
  <2> QED BY <2>1, <2>2
<1>5. LogGrows /\ OfType("SendNewPacket")' = OfType("SendNewPacket")
  BY <1>1 DEF LogGrows, OfType
<1> QED BY <1>1, <1>3, <1>4, <1>5, AnswersStay

LEMMA WorkAnswers ==
  ASSUME TypeIInv, AnswersOK, NEW c \in Commands,
         FindsBusy(c) \/ Locks(c) \/ FinishLoad(c) \/ FinishGenerate(c) \/ Panics(c) \/ Returns(c)
  PROVE  AnswersOK'
<1>1. UNCHANGED <<log, cursor, outq, wire>>
  BY DEF FindsBusy, Locks, FinishLoad, FinishGenerate, Panics, Returns, busVars
<1>2. \/ \E outcome \in Outcomes : Conclude(c, outcome)
      \/ \E stage \in {"working", "done", "panicked"} :
           task' = [task EXCEPT ![c] = stage] /\ UNCHANGED answer
  BY OutcomeNames DEF FindsBusy, Locks, FinishLoad, FinishGenerate, Panics, Returns
<1>3. ~Sent(c) \/ (task[c] = "returning" /\ task'[c] = "done" /\ UNCHANGED answer)
  BY DEF FindsBusy, Locks, FinishLoad, FinishGenerate, Panics, Returns, Sent, TypeIInv, TypeOK
<1>4. \A d \in Commands : Sent(d) => Sent(d)' /\ answer'[d] = answer[d]
  BY <1>2, <1>3, ConcludedTask DEF TypeIInv, TypeOK, Sent
<1>5. LogGrows /\ OfType("SendNewPacket")' = OfType("SendNewPacket")
  BY <1>1 DEF LogGrows, OfType
<1> QED BY <1>1, <1>4, <1>5, AnswersStay

LEMMA BlockingSendAnswers ==
  ASSUME TypeIInv, AnswersOK, NEW c \in Commands, BlockingSend(c)
  PROVE  AnswersOK'
<1> DEFINE a == [cmd |-> c, outcome |-> answer[c]]
<1>1. UNCHANGED <<log, cursor, answer, wire>> /\ task[c] = "answering"
  BY DEF BlockingSend, busVars
<1>2. Sent(c)' /\ ~Sent(c) /\ \A d \in Commands \ {c} : task'[d] = task[d]
  BY DEF BlockingSend, AfterSend, TypeIInv, TypeOK, Sent
<1>3. /\ DOMAIN outq' = DOMAIN outq \cup {Len(outq) + 1} /\ outq'[Len(outq) + 1] = a
      /\ \A k \in DOMAIN outq : outq'[k] = outq[k]
  BY DEF BlockingSend, TypeIInv, TypeOK
<1>4. \A packet \in Answer : IsAnswer(packet) => packet.cmd # c /\ IsAnswer(packet)'
  BY <1>1, <1>2, AnswerFields DEF IsAnswer, Sent
<1>5. /\ \A k \in DOMAIN outq : outq[k].cmd # c /\ IsAnswer(outq[k])
      /\ \A i \in OfType("SendNewPacket") : log[i].packet.cmd # c /\ IsAnswer(log[i].packet)
  BY <1>4, AnswerFields DEF AnswersOK
<1>6. ASSUME NEW k \in DOMAIN outq'
      PROVE  /\ IsAnswer(outq[k])'
             /\ \A m \in DOMAIN outq' : outq'[m].cmd = outq'[k].cmd => m = k
             /\ \A i \in OfType("SendNewPacket") : log[i].packet.cmd # outq'[k].cmd
  <2>1. CASE k = Len(outq) + 1
    <3>1. IsAnswer(outq[k])'
      BY <1>1, <1>2, <1>3, <2>1 DEF IsAnswer, Sent
    <3> QED BY <1>3, <1>5, <2>1, <3>1
  <2>2. CASE k \in DOMAIN outq
    <3>1. ASSUME NEW packet, packet = outq[k] PROVE IsAnswer(packet)'
      BY <1>4, <1>5, <2>2, <3>1, AnswerFields
    <3>2. IsAnswer(outq[k])'
      BY <1>3, <2>2, <3>1 DEF IsAnswer, Sent
    <3>3. \A m \in DOMAIN outq' : outq'[m].cmd = outq'[k].cmd => m = k
      BY <1>3, <1>5, <2>2 DEF AnswersOK
    <3>4. \A i \in OfType("SendNewPacket") : log[i].packet.cmd # outq'[k].cmd
      BY <1>3, <2>2 DEF AnswersOK
    <3> QED BY <3>2, <3>3, <3>4
  <2> QED BY <1>3, <2>1, <2>2
<1>7. OfType("SendNewPacket")' = OfType("SendNewPacket")
  BY <1>1 DEF OfType
<1>8. ASSUME NEW i \in OfType("SendNewPacket") PROVE IsAnswer(log[i].packet)'
  <2>1. ASSUME NEW packet, packet = log[i].packet PROVE IsAnswer(packet)'
    BY <1>4, <1>5, <2>1, AnswerFields
  <2> QED BY <1>1, <2>1 DEF IsAnswer, Sent
<1> QED BY <1>1, <1>6, <1>7, <1>8 DEF AnswersOK

LEMMA WriterForwardsAnswers ==
  ASSUME TypeIInv, AnswersOK, WriterForwards
  PROVE  AnswersOK'
<1> DEFINE n == Len(log) + 1
<1>1. outq \in Seq(Answer) /\ outq # <<>> /\ outq' = Tail(outq)
  BY DEF WriterForwards, TypeIInv, TypeOK
<1>2. /\ 1 \in DOMAIN outq /\ Head(outq) = outq[1] /\ Head(outq) \in Answer
      /\ \A k \in DOMAIN outq' : k + 1 \in DOMAIN outq /\ outq'[k] = outq[k + 1] /\ k + 1 # 1
      /\ DOMAIN outq' \subseteq Nat
  BY <1>1, HeadIsFirst
<1>3. PICK e \in Event : /\ log' = Append(log, e)
                         /\ e.type = "SendNewPacket" /\ e.packet = Head(outq)
  BY <1>2, EventsAreTyped DEF WriterForwards, Bus!Publish
<1>4. /\ n \notin DOMAIN log /\ DOMAIN log' = DOMAIN log \cup {n} /\ log'[n] = e
      /\ \A i \in DOMAIN log : log'[i] = log[i]
  BY <1>3, AppendedEvent, Zenon
<1>5. /\ OfType("SendNewPacket")' = OfType("SendNewPacket") \cup {n}
      /\ \A i \in OfType("SendNewPacket") : i # n /\ log'[i] = log[i]
  BY <1>3, <1>4 DEF OfType
<1>6. UNCHANGED <<cursor, task, answer, wire>>
  BY DEF WriterForwards
<1>7. ASSUME NEW packet PROVE IsAnswer(packet) => IsAnswer(packet)'
  BY <1>6 DEF IsAnswer, Sent
<1>8. ASSUME NEW k \in DOMAIN outq'
      PROVE  /\ IsAnswer(outq[k])'
             /\ \A m \in DOMAIN outq' : outq'[m].cmd = outq'[k].cmd => m = k
             /\ \A i \in OfType("SendNewPacket")' : log'[i].packet.cmd # outq'[k].cmd
  <2>1. ASSUME NEW packet, packet = outq[k + 1] PROVE IsAnswer(packet)'
    BY <1>2, <1>7, <2>1 DEF AnswersOK
  <2>2. IsAnswer(outq[k])'
    BY <1>2, <2>1 DEF IsAnswer, Sent
  <2>3. ASSUME NEW m \in DOMAIN outq', outq'[m].cmd = outq'[k].cmd PROVE m = k
    <3>1. m + 1 = k + 1
      BY <1>2, <2>3 DEF AnswersOK
    <3> QED BY <1>2, <3>1
  <2>4. \A i \in OfType("SendNewPacket") : log'[i].packet.cmd # outq'[k].cmd
    BY <1>2, <1>5 DEF AnswersOK
  <2>5. log'[n].packet.cmd # outq'[k].cmd
    BY <1>2, <1>3, <1>4 DEF AnswersOK
  <2> QED BY <1>5, <2>2, <2>3, <2>4, <2>5
<1>9. ASSUME NEW i \in OfType("SendNewPacket")'
      PROVE  /\ IsAnswer(log[i].packet)'
             /\ \A j \in OfType("SendNewPacket")' :
                  log'[j].packet.cmd = log'[i].packet.cmd => j = i
  <2>1. \A j \in OfType("SendNewPacket") : log'[j].packet.cmd # log'[n].packet.cmd
    <3>1. \A j \in OfType("SendNewPacket") : log[j].packet.cmd # outq[1].cmd
      BY <1>2 DEF AnswersOK
    <3>2. log'[n].packet = outq[1]
      BY <1>2, <1>3, <1>4
    <3> QED BY <1>5, <3>1, <3>2
  <2>2. CASE i = n
    <3>1. ASSUME NEW packet, packet = Head(outq) PROVE IsAnswer(packet)'
      BY <1>2, <1>7, <3>1 DEF AnswersOK
    <3>2. IsAnswer(log[i].packet)'
      BY <1>3, <1>4, <2>2, <3>1 DEF IsAnswer, Sent
    <3> QED BY <1>5, <2>1, <2>2, <3>2
  <2>3. CASE i \in OfType("SendNewPacket")
    <3>1. ASSUME NEW packet, packet = log[i].packet PROVE IsAnswer(packet)'
      BY <1>7, <2>3, <3>1 DEF AnswersOK
    <3>2. IsAnswer(log[i].packet)'
      BY <1>5, <2>3, <3>1 DEF IsAnswer, Sent
    <3>3. \A j \in OfType("SendNewPacket") : log'[j].packet.cmd = log'[i].packet.cmd => j = i
      BY <1>5, <2>3 DEF AnswersOK
    <3> QED BY <1>5, <2>1, <2>3, <3>2, <3>3
  <2> QED BY <1>5, <2>2, <2>3
<1>10. \A k \in DOMAIN wire' :
         \E i \in OfType("SendNewPacket")' : i <= cursor'[SockRx] /\ log'[i].packet = wire'[k]
  BY <1>5, <1>6 DEF AnswersOK
<1> QED BY <1>8, <1>9, <1>10 DEF AnswersOK

LEMMA SocketWritesAnswers ==
  ASSUME TypeIInv, AnswersOK, SocketWrites
  PROVE  AnswersOK'
<1>1. PICK i \in OfType("SendNewPacket") :
        /\ Bus!IsNext(SockRx, i, OfType("SendNewPacket"))
        /\ Bus!MoveTo(SockRx, i) /\ wire' = Append(wire, log[i].packet)
  BY DEF SocketWrites
<1>2. cursor'[SockRx] = i /\ i \in Nat /\ cursor[SockRx] < i /\ cursor[SockRx] \in Int
  <2>1. cursor[SockRx] < i
    BY <1>1 DEF Bus!IsNext, Bus!Pending
  <2>2. i \in Nat /\ cursor'[SockRx] = i
    BY <1>1 DEF OfType, TypeIInv, TypeOK, Bus!BusTypeOK, Bus!MoveTo, Receivers
  <2> QED BY <2>1, <2>2, CursorsAreNumbers DEF Receivers
<1>3. UNCHANGED <<log, task, answer, outq>>
  BY DEF SocketWrites
<1>4. OfType("SendNewPacket")' = OfType("SendNewPacket") /\ \A p : IsAnswer(p)' = IsAnswer(p)
  BY <1>3 DEF OfType, IsAnswer, Sent
<1>5. \A k \in DOMAIN wire' : wire'[k] = log[i].packet \/ (k \in DOMAIN wire /\ wire'[k] = wire[k])
  BY <1>1 DEF TypeIInv, TypeOK
<1>6. \A k \in DOMAIN wire' :
        \E j \in OfType("SendNewPacket") : j <= cursor'[SockRx] /\ log[j].packet = wire'[k]
  <2> SUFFICES ASSUME NEW k \in DOMAIN wire, wire'[k] = wire[k]
               PROVE  \E j \in OfType("SendNewPacket") :
                        j <= cursor'[SockRx] /\ log[j].packet = wire'[k]
    BY <1>2, <1>5
  <2>1. PICK j \in OfType("SendNewPacket") : j <= cursor[SockRx] /\ log[j].packet = wire[k]
    BY DEF AnswersOK
  <2>2. j \in Nat
    BY DEF OfType, TypeIInv, TypeOK, Bus!BusTypeOK
  <2> QED BY <1>2, <2>1, <2>2
<1> QED BY <1>3, <1>4, <1>6 DEF AnswersOK, IsAnswer, Sent

LEMMA NextAnswers ==
  ASSUME TypeIInv, OnceOK, AnswersOK, [Next]_vars
  PROVE  AnswersOK'
<1>1. CASE \E c \in Commands : SocketReads(c) \/ TaskStep(c)
  BY <1>1, SocketReadsAnswers, WorkAnswers, BlockingSendAnswers DEF TaskStep
<1>2. CASE SocketWrites \/ WriterForwards
  BY <1>2, SocketWritesAnswers, WriterForwardsAnswers
<1>3. CASE ReaderStarts \/ ReaderReceives \/ ReaderForwards \/ Dispatch
  BY <1>3, ReaderAnswers
<1>4. CASE UNCHANGED vars
  <2>1. LogGrows /\ OfType("SendNewPacket")' = OfType("SendNewPacket")
    BY <1>4 DEF vars, busVars, LogGrows, OfType
  <2> QED BY <1>4, <2>1, AnswersStay DEF vars, busVars, Sent
<1> QED BY <1>1, <1>2, <1>3, <1>4 DEF Next

LEMMA InitIInv == Init => IInv
<1> SUFFICES ASSUME Init PROVE IInv
  OBVIOUS
<1>1. \A type : OfType(type) = {}
  BY DEF Init, OfType
<1>2. OnceOK /\ LockOK /\ AnswersOK
  BY <1>1, ServedAreCommands DEF Init, OnceOK, LockOK, AnswersOK, Served
<1> QED BY <1>2, TypeInit DEF IInv

LEMMA StepIInv == IInv /\ [Next]_vars => IInv'
  BY NextTypes, NextOnce, NextLock, NextAnswers DEF IInv

(* The types, places, lock and answers of the pipeline (worker_handler.rs), *)
(* which the theorems below rest on, hold in every state.                   *)
THEOREM Invariance == Spec => []IInv
  BY InitIInv, StepIInv, PTL DEF Spec

(* Whatever the commands and the capacities, every variable of the worker   *)
(* keeps its type: the channels stay within their bounds, and the bus       *)
(* carries nothing but frames and answers of commands that have a message.  *)
THEOREM TypeCorrect == Spec => []TypeOK
<1>1. IInv => TypeOK
  BY DEF IInv, TypeIInv
<1> QED BY <1>1, Invariance, PTL

-------------------------------------------------------------------------------
(* A LoadCommand that succeeded is the one whose model is there.            *)
LoadsOK ==
  \A c \in Loads : task[c] \in {"answering", "returning", "done"} /\ answer[c] = "Ok" => model = c

LEMMA LoadsStay ==
  ASSUME LoadsOK, UNCHANGED model,
         \A c \in Loads : task'[c] \in {"answering", "returning", "done"} /\ answer'[c] = "Ok" =>
                             task[c] \in {"answering", "returning", "done"} /\ answer[c] = "Ok"
  PROVE  LoadsOK'
  BY DEF LoadsOK

LEMMA NextLoads ==
  ASSUME IInv, LoadsOK, [Next]_vars
  PROVE  LoadsOK'
<1>1. Loads \subseteq Commands /\ None \notin Loads
  BY ServedAreCommands DEF Served
<1>2. CASE UNCHANGED <<task, answer, model>>
  BY <1>2, LoadsStay
<1>3. CASE Dispatch
  <2>1. inq # <<>> /\ inq \in Seq(Commands) /\ UNCHANGED <<answer, model>>
    BY <1>3 DEF Dispatch, lockVars, IInv, TypeIInv, TypeOK
  <2>2. \A c \in Commands : task'[c] \in {"answering", "returning", "done"} => task'[c] = task[c]
    BY <1>3, <2>1, HeadIsFirst DEF Dispatch, IInv, TypeIInv, TypeOK
  <2> QED BY <1>1, <2>1, <2>2, LoadsStay
<1>4. ASSUME NEW c \in Commands, FindsBusy(c) \/ Locks(c) \/ FinishGenerate(c) PROVE LoadsOK'
  <2>1. UNCHANGED model
    BY <1>4 DEF FindsBusy, Locks, FinishGenerate, lockVars
  <2>2. \/ \E outcome : Conclude(c, outcome) /\ (c \in Loads => outcome # "Ok")
        \/ task' = [task EXCEPT ![c] = "working"] /\ UNCHANGED answer
    BY <1>4, HandlerAssumption DEF FindsBusy, Locks, FinishGenerate
  <2>3. \A d \in Loads : task'[d] \in {"answering", "returning", "done"} /\ answer'[d] = "Ok" =>
                             task[d] \in {"answering", "returning", "done"} /\ answer[d] = "Ok"
    BY <1>1, <2>2 DEF Conclude, IInv, TypeIInv, TypeOK
  <2> QED BY <2>1, <2>3, LoadsStay
<1>5. ASSUME NEW c \in Commands, FinishLoad(c) PROVE LoadsOK'
  <2>1. c \in Loads
    BY <1>5 DEF FinishLoad
  <2>2. \A d \in Loads \ {c} : task'[d] = task[d] /\ answer'[d] = answer[d]
    BY <1>1, <1>5 DEF FinishLoad, Conclude, IInv, TypeIInv, TypeOK
  <2>3. /\ answer'[c] = "Ok" => model = None /\ model' = c
        /\ model # None => UNCHANGED model
    BY <1>5 DEF FinishLoad, Conclude, IInv, TypeIInv, TypeOK
  <2> QED BY <1>1, <2>2, <2>3 DEF LoadsOK
<1>6. ASSUME NEW c \in Commands, BlockingSend(c) \/ Panics(c) \/ Returns(c) PROVE LoadsOK'
  <2>1. UNCHANGED <<answer, model>>
    BY <1>6 DEF BlockingSend, Panics, Returns, lockVars
  <2>2. \A d \in Loads : task'[d] \in {"answering", "returning", "done"} =>
                            task[d] \in {"answering", "returning", "done"}
    BY <1>1, <1>6 DEF BlockingSend, Panics, Returns, IInv, TypeIInv, TypeOK
  <2> QED BY <2>1, <2>2, LoadsStay
<1>7. CASE \E c \in Commands : TaskStep(c)
  BY <1>4, <1>5, <1>6, <1>7 DEF TaskStep
<1>8. CASE \/ \E c \in Commands : SocketReads(c)
           \/ SocketWrites \/ WriterForwards
           \/ ReaderStarts \/ ReaderReceives \/ ReaderForwards
           \/ UNCHANGED vars
  BY <1>2, <1>8 DEF SocketReads, SocketWrites, WriterForwards, ReaderStarts,
                    ReaderReceives, ReaderForwards, vars, lockVars
<1> QED BY <1>3, <1>7, <1>8 DEF Next

(* Whatever other commands run beside it, at most one LoadCommand is told   *)
(* that it loaded the model, and the model that is there is its own: the    *)
(* test of the guard and its assignment are not separated (handle_load).    *)
THEOREM LoadsOnce == Spec => []LoadedOnce
<1>1. Init => LoadsOK
  BY ServedAreCommands DEF Init, LoadsOK, Served
<1>2. IInv /\ LoadsOK /\ [Next]_vars => LoadsOK'
  BY NextLoads
<1>3. LoadsOK => LoadedOnce
  BY DEF LoadsOK, LoadedOnce, Concluded
<1> QED BY <1>1, <1>2, <1>3, Invariance, PTL DEF Spec

-------------------------------------------------------------------------------
(***************************************************************************)
(* Nothing is lost or doubled.  What handle_read went past is in the        *)
(* pipeline, and what left its task is queued or answered.                  *)
(***************************************************************************)
Queued(c) == \E k \in DOMAIN outq : outq[k].cmd = c

Excused(c) ==
  \/ c \in early
  \/ "panicked" \in {dispatcher, task[c]}
  \/ \E i \in Arrivals(c) : Bus!Overwritten(i)

ArrivedOK ==
  /\ \A c \in Served : ~Bus!Attached(ReadRx) /\ Arrivals(c) # {} => c \in early
  /\ \A c \in Served : WasRead(c) =>
       Excused(c) \/ reader = c \/ InSeq(c, inq) \/ task[c] # "none"
  /\ \A c \in Served : Sent(c) => Queued(c) \/ Answers(c) # {}

LEMMA SmallSets ==
  ASSUME NEW S, \A x, y \in S : x = y
  PROVE  Cardinality(S) <= 1
<1>1. CASE S = {}
  BY <1>1, FS_EmptySet
<1>2. CASE S # {}
  <2>1. PICK x : S = {x}
    BY <1>2
  <2> QED BY <2>1, FS_Singleton
<1> QED BY <1>1, <1>2

(* No two places hold the same command: before its task it has no task, in  *)
(* its task it is not done, and after it, it is either queued or answered.  *)
LEMMA OnePlace ==
  ASSUME IInv, NEW c \in Served
  PROVE  Cardinality(Places(c)) <= 1 /\ Cardinality(Answers(c)) <= 1
<1>1. c \in Commands /\ c # None
  BY ServedAreCommands
<1>2. (\E i \in Arrivals(c) : cursor[ReadRx] < i) => ~WasRead(c)
  <2>1. \A i, j \in Arrivals(c) : i = j
    BY DEF IInv, OnceOK, Arrivals, OfType
  <2>2. cursor[ReadRx] \in Int /\ \A i \in Arrivals(c) : i \in Int
    BY CursorsAreNumbers DEF IInv, TypeIInv, TypeOK, Bus!BusTypeOK, Receivers, Arrivals, OfType
  <2> QED BY <2>1, <2>2 DEF WasRead
<1>3. reader = c => WasRead(c) /\ task[c] = "none" /\ ~InSeq(c, inq)
  BY <1>1 DEF IInv, OnceOK, InSeq
<1>4. InSeq(c, inq) => WasRead(c) /\ task[c] = "none"
  BY DEF IInv, OnceOK, InSeq
<1>5. task[c] # "none" => WasRead(c)
  BY <1>1 DEF IInv, OnceOK
<1>6. Queued(c) => Sent(c) /\ Answers(c) = {}
  BY DEF IInv, AnswersOK, IsAnswer, Queued, Answers, OfType
<1>7. Answers(c) # {} => Sent(c)
  BY DEF IInv, AnswersOK, IsAnswer, Answers
<1>8. \A p, q \in Places(c) : p = q
  BY <1>2, <1>3, <1>4, <1>5, <1>6, <1>7 DEF Places, Queued, Sent
<1>9. \A i, j \in Answers(c) : i = j
  BY DEF IInv, AnswersOK, Answers
<1> QED BY <1>8, <1>9, SmallSets

(* A command that arrived is in one of the places, or excused.              *)
LEMMA SomePlace ==
  ASSUME IInv, ArrivedOK, NEW c \in Served, Arrivals(c) # {}, Places(c) = {}
  PROVE  Excused(c)
<1> SUFFICES ASSUME ~Excused(c) PROVE FALSE
  OBVIOUS
<1>1. \A p \in {"bus", "reader", "inq", "task", "outq", "answered"} : p \notin Places(c)
  OBVIOUS
<1>2. /\ \A i \in Arrivals(c) : cursor[ReadRx] < i => Bus!Overwritten(i)
      /\ reader # c /\ ~InSeq(c, inq)
      /\ task[c] \notin {"spawned", "working", "answering"}
      /\ ~Queued(c) /\ Answers(c) = {}
  BY <1>1 DEF Places, Queued
<1>3. WasRead(c)
  <2>1. cursor[ReadRx] \in Int /\ \A i \in Arrivals(c) : i \in Int
    BY CursorsAreNumbers DEF IInv, TypeIInv, TypeOK, Bus!BusTypeOK, Receivers, Arrivals, OfType
  <2> QED BY <1>2, <2>1 DEF WasRead, Excused
<1>4. task[c] # "none"
  BY <1>2, <1>3 DEF ArrivedOK
<1>5. Sent(c) \/ task[c] = "panicked"
  BY <1>2, <1>4, ServedAreCommands DEF IInv, TypeIInv, TypeOK, Sent
<1> QED BY <1>2, <1>5 DEF ArrivedOK, Excused

LEMMA NothingLost == IInv /\ ArrivedOK => NothingLostOrDoubled
<1> SUFFICES ASSUME IInv, ArrivedOK, NEW c \in Loads \cup Generates
             PROVE  /\ Cardinality(Places(c)) <= 1 /\ Cardinality(Answers(c)) <= 1
                    /\ Arrivals(c) # {} /\ Places(c) = {} => Excused(c)
  BY DEF NothingLostOrDoubled, Excused
<1> QED BY OnePlace, SomePlace DEF Served

(* What excuses a command goes on excusing it.                              *)
LEMMA ExcuseStays ==
  ASSUME TypeIInv, LogGrows, Len(log) <= Len(log'), Len(log') \in Nat, early \subseteq early',
         dispatcher = "panicked" => dispatcher' = "panicked", NEW c,
         task[c] = "panicked" => task'[c] = "panicked", Excused(c)
  PROVE  Excused(c)'
<1>1. CASE \E i \in Arrivals(c) : Bus!Overwritten(i)
  <2>1. PICK i \in Arrivals(c) : Bus!Overwritten(i)
    BY <1>1
  <2>2. i \in Arrivals(c)'
    BY <2>1 DEF Arrivals, OfType, LogGrows
  <2>3. i \in Int /\ Len(log) \in Nat /\ Capacity \in Nat
    BY <2>1, HandlerAssumption DEF Arrivals, OfType, TypeIInv, TypeOK, Bus!BusTypeOK
  <2>4. Bus!Overwritten(i)'
    BY <2>1, <2>3 DEF Bus!Overwritten
  <2> QED BY <2>2, <2>4 DEF Excused
<1>2. CASE ~\E i \in Arrivals(c) : Bus!Overwritten(i)
  BY <1>2 DEF Excused
<1> QED BY <1>1, <1>2

LEMMA AnswersAreKept ==
  ASSUME LogGrows PROVE \A c : Answers(c) \subseteq Answers(c)'
  BY DEF Answers, OfType, LogGrows

LogLengths == LogGrows /\ Len(log) <= Len(log') /\ Len(log') \in Nat

LEMMA LogLengthens ==
  ASSUME TypeIInv, log' = log \/ \E e \in Event : log' = Append(log, e)
  PROVE  LogLengths
<1>1. log \in Seq(Event)
  BY DEF TypeIInv, TypeOK, Bus!BusTypeOK
<1> QED BY <1>1, LogSteps DEF LogLengths

(* A step that takes no command from where it is, but further.              *)
LEMMA ArrivedStays ==
  ASSUME IInv, ArrivedOK, LogLengths,
         \A c \in Served : Arrivals(c)' = Arrivals(c),
         cursor'[ReadRx] = cursor[ReadRx], UNCHANGED early,
         dispatcher = "panicked" => dispatcher' = "panicked",
         \A c \in Served :
           /\ task[c] = "panicked" => task'[c] = "panicked"
           /\ reader = c \/ InSeq(c, inq) \/ task[c] # "none" =>
                \/ dispatcher' = "panicked"
                \/ reader' = c \/ InSeq(c, inq') \/ task'[c] # "none"
           /\ Sent(c)' => Queued(c)' \/ Answers(c)' # {}
  PROVE  ArrivedOK'
<1>1. \A c \in Served : WasRead(c)' <=> WasRead(c)
  BY DEF WasRead
<1>2. ASSUME NEW c \in Served, WasRead(c)
      PROVE  Excused(c)' \/ reader' = c \/ InSeq(c, inq') \/ task'[c] # "none"
  <2>1. CASE Excused(c)
    BY <2>1, ExcuseStays DEF LogLengths, IInv
  <2>2. CASE dispatcher' = "panicked"
    BY <2>2 DEF Excused
  <2>3. CASE reader' = c \/ InSeq(c, inq') \/ task'[c] # "none"
    BY <2>3
  <2> QED BY <1>2, <2>1, <2>2, <2>3 DEF ArrivedOK
<1>3. \A c \in Served : ~(cursor'[ReadRx] # Bus!Detached) /\ Arrivals(c)' # {} => c \in early'
  BY DEF ArrivedOK, Bus!Attached
<1> QED BY <1>1, <1>2, <1>3 DEF ArrivedOK, Bus!Attached, InSeq

LEMMA SocketReadsArrived ==
  ASSUME IInv, ArrivedOK, NEW c \in Commands, SocketReads(c) PROVE ArrivedOK'
<1>1. PICK e \in Event : e = [type |-> "NewPacketReceived", cmd |-> c] /\ log' = Append(log, e)
  BY EventsAreTyped DEF SocketReads, Bus!Publish
<1>2. TypeIInv /\ LogLengths
  BY <1>1, LogLengthens DEF IInv
<1>3. /\ UNCHANGED <<cursor, reader, inq, dispatcher, task>> /\ early \subseteq early'
      /\ ~Bus!Attached(ReadRx) => early' = early \cup {c}
  BY DEF SocketReads
<1>4. /\ DOMAIN log' = DOMAIN log \cup {Len(log) + 1} /\ log'[Len(log) + 1] = e
      /\ Len(log) \in Nat
  BY <1>1, <1>2, AppendedEvent
<1>5. \A d : \A i \in Arrivals(d)' :
        i \in Arrivals(d) \/ (i = Len(log) + 1 /\ d = c)
  BY <1>1, <1>2, <1>4 DEF Arrivals, OfType, LogLengths, LogGrows
<1>6. ASSUME NEW d \in Served, ~Bus!Attached(ReadRx), Arrivals(d)' # {} PROVE d \in early'
  BY <1>3, <1>5, <1>6 DEF ArrivedOK
<1>7. ASSUME NEW d \in Served, WasRead(d)'
      PROVE  Excused(d)' \/ reader = d \/ InSeq(d, inq) \/ task[d] # "none"
  <2>1. cursor[ReadRx] <= Len(log) /\ cursor[ReadRx] \in Int
    BY <1>2, CursorsAreNumbers DEF Receivers
  <2>2. WasRead(d)
    BY <1>3, <1>4, <1>5, <1>7, <2>1 DEF WasRead
  <2>3. Excused(d) => Excused(d)'
    BY <1>2, <1>3, ExcuseStays DEF LogLengths
  <2> QED BY <2>2, <2>3 DEF ArrivedOK
<1>8. \A d \in Served : Sent(d)' => Queued(d)' \/ Answers(d)' # {}
  <2>1. UNCHANGED outq
    BY DEF SocketReads
  <2> QED BY <1>2, <1>3, <2>1, AnswersAreKept DEF ArrivedOK, Queued, Sent, LogLengths
<1> QED BY <1>3, <1>6, <1>7, <1>8 DEF ArrivedOK, Bus!Attached, InSeq

LEMMA SocketWritesArrived == ASSUME IInv, ArrivedOK, SocketWrites PROVE ArrivedOK'
<1>1. UNCHANGED <<log, reader, early, inq, dispatcher, task, outq>>
  BY DEF SocketWrites
<1>2. PICK i : Bus!MoveTo(SockRx, i)
  BY DEF SocketWrites
<1>3. cursor'[ReadRx] = cursor[ReadRx]
  <2>1. cursor \in [Receivers -> Nat \cup {Bus!Detached}] /\ ReadRx \in Receivers /\ ReadRx # SockRx
    BY DEF IInv, TypeIInv, TypeOK, Bus!BusTypeOK, Receivers, ReadRx, SockRx
  <2> QED BY <1>2, <2>1 DEF Bus!MoveTo
<1>4. LogLengths /\ \A c : Arrivals(c)' = Arrivals(c) /\ Answers(c)' = Answers(c)
  BY <1>1, LogLengthens DEF IInv, Arrivals, Answers, OfType
<1>5. \A c \in Served : Sent(c)' => Queued(c)' \/ Answers(c)' # {}
  BY <1>1, <1>4 DEF ArrivedOK, Queued, Sent
<1> QED BY <1>1, <1>3, <1>4, <1>5, ArrivedStays

LEMMA ReaderStartsArrived == ASSUME IInv, ArrivedOK, ReaderStarts PROVE ArrivedOK'
<1>1. /\ UNCHANGED <<log, reader, early, inq, dispatcher, task, outq>>
      /\ ~Bus!Attached(ReadRx) /\ Bus!Subscribe(ReadRx)
  BY DEF ReaderStarts
<1>2. cursor'[ReadRx] = Len(log) /\ Len(log) \in Nat
  BY <1>1 DEF IInv, TypeIInv, TypeOK, Bus!BusTypeOK, Receivers, Bus!Subscribe
<1>3. \A c : Arrivals(c)' = Arrivals(c) /\ Answers(c)' = Answers(c)
  BY <1>1 DEF Arrivals, Answers, OfType
<1>4. \A c \in Served : WasRead(c)' => Excused(c)'
  <2>1. \A c \in Served : WasRead(c)' => c \in early
    BY <1>1, <1>3 DEF WasRead, ArrivedOK
  <2> QED BY <1>1, <2>1 DEF Excused
<1>5. \A c \in Served : Sent(c)' => Queued(c)' \/ Answers(c)' # {}
  BY <1>1, <1>3 DEF ArrivedOK, Queued, Sent
<1> QED BY <1>2, <1>4, <1>5 DEF ArrivedOK, Bus!Attached, Bus!Detached

(* handle_read takes the next frame; those it skips were overwritten.       *)
LEMMA ReaderReceivesArrived == ASSUME IInv, ArrivedOK, ReaderReceives PROVE ArrivedOK'
<1>1. PICK i \in OfType("NewPacketReceived") :
        /\ Bus!IsNext(ReadRx, i, OfType("NewPacketReceived"))
        /\ Bus!MoveTo(ReadRx, i)
        /\ reader' = IF log[i].cmd \in Undecodables THEN None ELSE log[i].cmd
  BY DEF ReaderReceives
<1>2. /\ UNCHANGED <<log, early, inq, dispatcher, task, outq>>
      /\ reader = None
  BY DEF ReaderReceives
<1>3. /\ cursor'[ReadRx] = i /\ i \in Nat /\ cursor[ReadRx] \in Int /\ Bus!Attached(ReadRx)
      /\ DOMAIN log = 1..Len(log)
  <2>1. i \in Nat /\ DOMAIN log = 1..Len(log)
    BY DEF OfType, IInv, TypeIInv, TypeOK, Bus!BusTypeOK
  <2> QED BY <1>1, <2>1, CursorsAreNumbers
          DEF Bus!MoveTo, Bus!IsNext, IInv, TypeIInv, TypeOK, Bus!BusTypeOK, Receivers
<1>4. \A c : Arrivals(c)' = Arrivals(c) /\ Answers(c)' = Answers(c)
  BY <1>2 DEF Arrivals, Answers, OfType
<1>5. \A c : Excused(c)' <=> Excused(c)
  BY <1>2 DEF Excused, Arrivals, OfType, Bus!Overwritten
<1>6. ASSUME NEW c \in Served, WasRead(c)'
      PROVE  Excused(c) \/ reader' = c \/ InSeq(c, inq) \/ task[c] # "none"
  <2>1. c # None /\ c \notin Undecodables
    BY ServedAreCommands, HandlerAssumption DEF Served
  <2>2. PICK j \in Arrivals(c) : j <= i
    BY <1>3, <1>4, <1>6 DEF WasRead
  <2>3. j \in OfType("NewPacketReceived") /\ log[j].cmd = c /\ j \in 1..Len(log)
    BY <1>3 DEF Arrivals, OfType
  <2>4. CASE j <= cursor[ReadRx]
    <3>1. WasRead(c)
      BY <2>4 DEF WasRead
    <3> QED BY <1>2, <2>1, <3>1 DEF ArrivedOK
  <2>5. CASE j = i
    BY <1>1, <2>1, <2>3, <2>5
  <2>6. CASE cursor[ReadRx] < j /\ j < i
    <3>1. j \notin Bus!Pending(ReadRx)
      BY <1>1, <1>3, <2>3, <2>6 DEF Bus!IsNext
    <3>2. Bus!Overwritten(j)
      BY <2>3, <2>6, <3>1 DEF Bus!Pending
    <3> QED BY <3>2 DEF Excused
  <2> QED BY <1>3, <2>2, <2>3, <2>4, <2>5, <2>6
<1>7. \A c \in Served : Sent(c)' => Queued(c)' \/ Answers(c)' # {}
  BY <1>2, <1>4 DEF ArrivedOK, Queued, Sent
<1>8. cursor'[ReadRx] # Bus!Detached
  BY <1>3 DEF Bus!Detached
<1> QED BY <1>2, <1>5, <1>6, <1>7, <1>8 DEF ArrivedOK, Bus!Attached, InSeq

LEMMA ReaderForwardsArrived == ASSUME IInv, ArrivedOK, ReaderForwards PROVE ArrivedOK'
<1>1. /\ UNCHANGED <<log, cursor, early, dispatcher, task, outq>>
      /\ \/ inq' = Append(inq, reader)
         \/ dispatcher = "panicked"
      /\ reader # None
  BY DEF ReaderForwards, busVars
<1>2. LogLengths /\ \A c : Arrivals(c)' = Arrivals(c) /\ Answers(c)' = Answers(c)
  BY <1>1, LogLengthens DEF IInv, Arrivals, Answers, OfType
<1>3. ASSUME NEW c \in Served, reader = c \/ InSeq(c, inq), dispatcher # "panicked"
      PROVE  InSeq(c, inq')
  <2>1. inq \in Seq(Commands) /\ reader \in Commands /\ inq' = Append(inq, reader)
    BY <1>1, <1>3 DEF IInv, TypeIInv, TypeOK
  <2>2. /\ DOMAIN inq' = DOMAIN inq \cup {Len(inq) + 1} /\ inq'[Len(inq) + 1] = reader
        /\ \A k \in DOMAIN inq : inq'[k] = inq[k]
    BY <2>1
  <2> QED BY <1>3, <2>2 DEF InSeq
<1>4. \A c \in Served : Sent(c)' => Queued(c)' \/ Answers(c)' # {}
  BY <1>1, <1>2 DEF ArrivedOK, Queued, Sent
<1> QED BY <1>1, <1>2, <1>3, <1>4, ArrivedStays

LEMMA DispatchArrived == ASSUME IInv, ArrivedOK, Dispatch PROVE ArrivedOK'
<1>1. UNCHANGED <<log, cursor, early, reader, outq>> /\ inq # <<>>
  BY DEF Dispatch, busVars
<1>2. LogLengths /\ \A c : Arrivals(c)' = Arrivals(c) /\ Answers(c)' = Answers(c)
  BY <1>1, LogLengthens DEF IInv, Arrivals, Answers, OfType
<1>3. /\ inq \in Seq(Commands) /\ Head(inq) \in Commands /\ task[Head(inq)] = "none"
      /\ Head(inq) = inq[1] /\ 1 \in DOMAIN inq
  BY <1>1, HeadIsFirst DEF IInv, OnceOK, TypeIInv, TypeOK
<1>4. CASE dispatcher' = "panicked" /\ UNCHANGED task
  <2>1. \A c \in Served : Sent(c)' => Queued(c)' \/ Answers(c)' # {}
    BY <1>1, <1>2, <1>4 DEF ArrivedOK, Queued, Sent
  <2> QED BY <1>1, <1>2, <1>4, <2>1, ArrivedStays
<1>5. CASE /\ task' = [task EXCEPT ![Head(inq)] = "spawned"]
           /\ inq' = Tail(inq) /\ UNCHANGED dispatcher
  <2>1. /\ task'[Head(inq)] = "spawned"
        /\ \A c \in Commands : c # Head(inq) => task'[c] = task[c]
    BY <1>3, <1>5 DEF IInv, TypeIInv, TypeOK
  <2>2. ASSUME NEW c \in Served, InSeq(c, inq)
        PROVE  InSeq(c, inq') \/ task'[c] # "none"
    <3>1. PICK k \in DOMAIN inq : inq[k] = c
      BY <2>2 DEF InSeq
    <3>2. CASE k = 1
      BY <1>3, <2>1, <3>1, <3>2
    <3>3. CASE k # 1
      <4>1. k - 1 \in DOMAIN inq' /\ inq'[k - 1] = c
        BY <1>1, <1>3, <1>5, <3>1, <3>3
      <4> QED BY <4>1 DEF InSeq
    <3> QED BY <3>2, <3>3
  <2>3. \A c \in Served : Sent(c)' => Sent(c)
    BY <2>1, ServedAreCommands DEF Sent
  <2>4. \A c \in Served : Sent(c)' => Queued(c)' \/ Answers(c)' # {}
    BY <1>1, <1>2, <2>3 DEF ArrivedOK, Queued, Sent
  <2>5. \A c \in Served : /\ task[c] = "panicked" => task'[c] = "panicked"
                          /\ task[c] # "none" => task'[c] # "none"
    BY <1>3, <2>1, ServedAreCommands
  <2> QED BY <1>1, <1>2, <1>5, <2>2, <2>4, <2>5, ArrivedStays
<1> QED BY <1>4, <1>5 DEF Dispatch

LEMMA TaskStepArrived ==
  ASSUME IInv, ArrivedOK, NEW c \in Commands, TaskStep(c) PROVE ArrivedOK'
<1>1. /\ UNCHANGED <<log, cursor, early, reader, inq, dispatcher>>
      /\ task[c] \in {"spawned", "working", "answering", "returning"}
  BY DEF TaskStep, FindsBusy, Locks, FinishLoad, FinishGenerate, Panics, BlockingSend, Returns,
         busVars
<1>2. LogLengths /\ \A d : Arrivals(d)' = Arrivals(d) /\ Answers(d)' = Answers(d)
  BY <1>1, LogLengthens DEF IInv, Arrivals, Answers, OfType
<1>3. CASE BlockingSend(c)
  <2>1. Sent(c)' /\ \A d \in Commands \ {c} : task'[d] = task[d]
    BY <1>3 DEF BlockingSend, AfterSend, Sent, IInv, TypeIInv, TypeOK
  <2>2. PICK a : a.cmd = c /\ outq' = Append(outq, a)
    BY <1>3 DEF BlockingSend
  <2>3. /\ DOMAIN outq' = DOMAIN outq \cup {Len(outq) + 1} /\ outq'[Len(outq) + 1] = a
        /\ \A k \in DOMAIN outq : outq'[k] = outq[k]
    BY <2>2 DEF IInv, TypeIInv, TypeOK
  <2>4. Queued(c)' /\ \A d : Queued(d) => Queued(d)'
    BY <2>2, <2>3 DEF Queued
  <2>5. \A d \in Served : Sent(d)' => Queued(d)' \/ Answers(d)' # {}
    BY <1>2, <2>1, <2>4, ServedAreCommands DEF ArrivedOK, Sent
  <2>6. task'[c] # "none"
    BY <2>1 DEF Sent
  <2> QED BY <1>1, <1>2, <2>1, <2>5, <2>6, ServedAreCommands, ArrivedStays
<1>4. CASE ~BlockingSend(c)
  <2>1. UNCHANGED outq
    BY <1>4 DEF TaskStep, FindsBusy, Locks, FinishLoad, FinishGenerate, Panics, Returns
  <2>2. /\ task'[c] \in {"working", "answering", "panicked"} \/ (task'[c] = "done" /\ Sent(c))
        /\ \A d \in Commands \ {c} : task'[d] = task[d]
    <3>1. TypeIInv
      BY DEF IInv
    <3>2. \/ \E outcome \in Outcomes : Conclude(c, outcome)
          \/ \E stage \in {"working", "panicked"} : task' = [task EXCEPT ![c] = stage]
          \/ Returns(c)
      BY <1>4, OutcomeNames DEF TaskStep, FindsBusy, Locks, FinishLoad, FinishGenerate, Panics
    <3> QED BY <3>1, <3>2, ConcludedTask DEF TypeIInv, TypeOK, Returns, Sent
  <2>3. \A d \in Served : Sent(d)' => Queued(d)' \/ Answers(d)' # {}
    BY <1>2, <2>1, <2>2, ServedAreCommands DEF ArrivedOK, Queued, Sent
  <2> QED BY <1>1, <1>2, <2>2, <2>3, ServedAreCommands, ArrivedStays
<1> QED BY <1>3, <1>4

(* An answer leaves the channel for the bus.                                *)
LEMMA WriterForwardsArrived == ASSUME IInv, ArrivedOK, WriterForwards PROVE ArrivedOK'
<1>1. /\ UNCHANGED <<cursor, early, reader, inq, dispatcher, task>>
      /\ outq \in Seq(Answer) /\ outq # <<>> /\ outq' = Tail(outq)
  BY DEF WriterForwards, IInv, TypeIInv, TypeOK
<1>2. /\ 1 \in DOMAIN outq /\ Head(outq) = outq[1] /\ Head(outq) \in Answer
  BY <1>1, HeadIsFirst
<1>3. PICK e \in Event : /\ log' = Append(log, e)
                         /\ e.type = "SendNewPacket" /\ e.packet = Head(outq)
  BY <1>2, EventsAreTyped DEF WriterForwards, Bus!Publish
<1>4. TypeIInv /\ LogLengths
  BY <1>3, LogLengthens DEF IInv
<1>5. DOMAIN log' = DOMAIN log \cup {Len(log) + 1} /\ log'[Len(log) + 1] = e
  BY <1>3, <1>4, AppendedEvent
<1>6. \A c : Arrivals(c)' = Arrivals(c)
  BY <1>3, <1>4, <1>5 DEF Arrivals, OfType, LogLengths, LogGrows
<1>7. ASSUME NEW c, Queued(c) PROVE Queued(c)' \/ Answers(c)' # {}
  <2>1. PICK k \in DOMAIN outq : outq[k].cmd = c
    BY <1>7 DEF Queued
  <2>2. CASE k = 1
    <3>1. PICK n : n = Len(log) + 1
      OBVIOUS
    <3>2. n \in Answers(c)'
      BY <1>2, <1>3, <1>5, <2>1, <2>2, <3>1 DEF Answers, OfType
    <3> QED BY <3>2
  <2>3. CASE k # 1
    <3>1. k - 1 \in DOMAIN outq' /\ outq'[k - 1] = outq[k]
      BY <1>1, <2>1, <2>3
    <3> QED BY <2>1, <3>1 DEF Queued
  <2> QED BY <2>2, <2>3
<1>8. \A c \in Served : Sent(c)' => Queued(c)' \/ Answers(c)' # {}
  BY <1>1, <1>4, <1>7, AnswersAreKept DEF ArrivedOK, Sent, LogLengths
<1> QED BY <1>1, <1>4, <1>6, <1>8, ArrivedStays

LEMMA InitArrived == Init => ArrivedOK
<1> SUFFICES ASSUME Init PROVE ArrivedOK
  OBVIOUS
<1>1. \A c : Arrivals(c) = {}
  BY DEF Init, Arrivals, OfType
<1> QED BY <1>1, ServedAreCommands DEF Init, ArrivedOK, WasRead, Sent

LEMMA NextArrived == ASSUME IInv, ArrivedOK, [Next]_vars PROVE ArrivedOK'
<1>1. CASE \E c \in Commands : SocketReads(c) \/ TaskStep(c)
  BY <1>1, SocketReadsArrived, TaskStepArrived
<1>2. CASE SocketWrites \/ WriterForwards
  BY <1>2, SocketWritesArrived, WriterForwardsArrived
<1>3. CASE ReaderStarts \/ ReaderReceives \/ ReaderForwards \/ Dispatch
  BY <1>3, ReaderStartsArrived, ReaderReceivesArrived, ReaderForwardsArrived, DispatchArrived
<1>4. CASE UNCHANGED vars
  BY <1>4 DEF vars, busVars, ArrivedOK, Excused, WasRead, Arrivals, Answers, Queued, InSeq, Sent,
              OfType, Bus!Attached, Bus!Overwritten
<1> QED BY <1>1, <1>2, <1>3, <1>4 DEF Next

(* A command that handle_read was there for is in exactly one place of the  *)
(* pipeline, up to its answer on the bus, unless the bus overwrote it, or   *)
(* handle_packet or its own task panicked.                                  *)
THEOREM CommandsAreKept == Spec => []NothingLostOrDoubled
<1>1. IInv /\ ArrivedOK /\ [Next]_vars => ArrivedOK'
  BY NextArrived
<1> QED BY <1>1, InitArrived, NothingLost, Invariance, PTL DEF Spec

(* Before ctrl-c the worker does what WorkerHandler says, whether its       *)
(* connection has ended or not.                                             *)
UpIInv == stopping \/ (IInv /\ ArrivedOK /\ ended \subseteq {SockRx})

LEMMA NextUp == UpIInv /\ [ShutdownNext]_allVars => UpIInv'
<1> SUFFICES ASSUME UpIInv, [ShutdownNext]_allVars, ~stopping' PROVE UpIInv'
  BY DEF UpIInv
<1>1. ~stopping /\ IInv /\ ArrivedOK /\ ended \subseteq {SockRx}
  BY DEF UpIInv, ShutdownNext, MainStarts, CtrlC, ConnectionEnds, AsyncStep, Drops, BlockingStep,
         Begins, Works, Sends, SendFails, NeverRuns, allVars, shutdownVars
<1>2. WriteTask \notin ended
  BY <1>1 DEF WriteTask, SockRx
<1>3. [Next]_vars /\ ended' \subseteq {SockRx}
  <2>1. CASE MainStarts \/ CtrlC \/ ConnectionEnds
    BY <1>1, <2>1 DEF MainStarts, CtrlC, ConnectionEnds, Next, shutdownVars
  <2>2. ASSUME NEW t \in AsyncTasks, AsyncStep(t) \/ Drops(t)
        PROVE  [Next]_vars /\ ended' \subseteq {SockRx}
    BY <1>1, <2>2 DEF AsyncStep, Drops, Next, shutdownVars
  <2>3. ASSUME NEW c \in Commands, BlockingStep(c)
        PROVE  [Next]_vars /\ ended' \subseteq {SockRx}
    BY <1>1, <1>2, <2>3 DEF BlockingStep, Begins, Works, Sends, SendFails, NeverRuns,
                            TaskStep, Next, shutdownVars
  <2>4. CASE UNCHANGED allVars
    BY <1>1, <2>4 DEF allVars, shutdownVars
  <2> QED BY <2>1, <2>2, <2>3, <2>4 DEF ShutdownNext
<1> QED BY <1>1, <1>3, StepIInv, NextArrived DEF UpIInv

(* Until ctrl-c no command is lost or handled twice, although the bus may   *)
(* lag, handle_packet may panic and the connection may end.                 *)
THEOREM CommandsAreKeptWhileUp == ShutdownSpec => []NothingLostWhileUp
<1>1. ShutdownInit => UpIInv
  BY InitIInv, InitArrived DEF ShutdownInit, UpIInv
<1>2. UpIInv => NothingLostWhileUp
  BY NothingLost DEF UpIInv, NothingLostWhileUp
<1> QED BY <1>1, <1>2, NextUp, PTL DEF ShutdownSpec

-------------------------------------------------------------------------------
(***************************************************************************)
(* The answer that the model was loaded comes before any text.  What is in  *)
(* the guard was put there by a load that succeeded and keeps the lock      *)
(* until its answer is queued; a generation starts after that.              *)
(***************************************************************************)
IsText(packet) == packet.cmd \in Generates /\ packet.outcome = "Ok"

Texting(c) == Concluded(c) /\ answer[c] = "Ok"

ModelOK ==
  /\ model # None => Concluded(model) /\ answer[model] = "Ok"
  /\ \A c \in Loads : task[c] = "answering" /\ answer[c] = "Ok" => holder = c
  /\ \A c \in Generates : Texting(c) => model # None /\ Sent(model)

QueueOK ==
  /\ \A k \in DOMAIN outq : IsText(outq[k]) =>
       Answers(model) # {} \/ \E m \in DOMAIN outq : m < k /\ outq[m].cmd = model
  /\ \A i \in OfType("SendNewPacket") : IsText(log[i].packet) =>
       \E j \in Answers(model) : j < i

(* What the socket task went past it has written, or it was overwritten.    *)
WrittenOK ==
  \A j \in OfType("SendNewPacket") :
    j <= cursor[SockRx] => Bus!Overwritten(j) \/ \E n \in DOMAIN wire : wire[n] = log[j].packet

TextOK == ModelOK /\ QueueOK /\ WrittenOK /\ LoadAnsweredFirst

(* Of a text that left its task there is a model, and its load is done.     *)
LEMMA TextsHaveModel ==
  ASSUME IInv, ModelOK
  PROVE  /\ \A k \in DOMAIN outq : IsText(outq[k]) => model # None /\ Sent(model)
         /\ \A i \in OfType("SendNewPacket") : IsText(log[i].packet) =>
              model # None /\ Sent(model)
         /\ \A n \in DOMAIN wire : IsText(wire[n]) => model # None /\ Sent(model)
<1>1. \A packet : IsAnswer(packet) /\ IsText(packet) => model # None /\ Sent(model)
  BY DEF ModelOK, IsAnswer, IsText, Texting, Concluded, Sent
<1>2. \A i \in OfType("SendNewPacket") : IsText(log[i].packet) =>
        model # None /\ Sent(model)
  BY <1>1 DEF IInv, AnswersOK
<1>3. \A n \in DOMAIN wire : \E i \in OfType("SendNewPacket") : log[i].packet = wire[n]
  BY DEF IInv, AnswersOK
<1> QED BY <1>1, <1>2, <1>3 DEF IInv, AnswersOK

(* The lock and the model.                                                  *)
LEMMA DispatchModel == ASSUME IInv, ModelOK, Dispatch PROVE ModelOK'
<1>1. UNCHANGED <<answer, holder, model>> /\ inq # <<>> /\ inq \in Seq(Commands)
  BY DEF Dispatch, lockVars, IInv, TypeIInv, TypeOK
<1>2. Head(inq) \in Commands /\ task[Head(inq)] = "none"
  BY <1>1, HeadIsFirst DEF IInv, OnceOK
<1>3. \A c \in Commands : task'[c] = task[c] \/ (task[c] = "none" /\ task'[c] = "spawned")
  BY <1>2 DEF Dispatch, IInv, TypeIInv, TypeOK
<1>4. Loads \subseteq Commands /\ Generates \subseteq Commands /\ model \in Commands \cup {None}
  BY ServedAreCommands DEF Served, IInv, TypeIInv, TypeOK
<1> QED BY <1>1, <1>3, <1>4 DEF ModelOK, Texting, Concluded, Sent

LEMMA ModelTypes ==
  ASSUME IInv
  PROVE  /\ Loads \subseteq Commands /\ Generates \subseteq Commands /\ None \notin Commands
         /\ Loads \cap Generates = {}
         /\ model \in Loads \cup {None} /\ None \notin Outcomes
         /\ task \in [Commands -> {"none", "spawned", "working", "answering", "returning", "done",
                            "panicked"}]
         /\ answer \in [Commands -> Outcomes \cup {None}]
  BY ServedAreCommands, HandlerAssumption DEF Served, IInv, TypeIInv, TypeOK

LEMMA FindsBusyModel ==
  ASSUME IInv, ModelOK, NEW c \in Commands, FindsBusy(c) PROVE ModelOK'
<1>1. task[c] = "spawned" /\ Conclude(c, "ModelBusy") /\ UNCHANGED <<holder, model>>
  BY DEF FindsBusy, lockVars
<1>2. task'[c] = "answering" /\ answer'[c] = "ModelBusy"
      /\ \A d \in Commands \ {c} : task'[d] = task[d] /\ answer'[d] = answer[d]
  BY <1>1, ConcludedTask DEF IInv
<1> QED BY <1>1, <1>2, ModelTypes DEF ModelOK, Texting, Concluded, Sent

LEMMA LocksModel ==
  ASSUME IInv, ModelOK, NEW c \in Commands, Locks(c) PROVE ModelOK'
<1>1. task[c] = "spawned" /\ holder = None /\ UNCHANGED <<answer, model>>
  BY DEF Locks
<1>2. task'[c] = "working" /\ \A d \in Commands \ {c} : task'[d] = task[d]
  BY ModelTypes DEF Locks
<1>3. \A d \in Loads : ~(task[d] = "answering" /\ answer[d] = "Ok")
  BY <1>1, ModelTypes DEF ModelOK
<1> QED BY <1>1, <1>2, <1>3, ModelTypes DEF ModelOK, Texting, Concluded, Sent

LEMMA FinishLoadModel ==
  ASSUME IInv, ModelOK, NEW c \in Commands, FinishLoad(c) PROVE ModelOK'
<1>1. c \in Loads /\ task[c] = "working" /\ UNCHANGED holder /\ holder = c
  BY HolderIsAlone DEF FinishLoad, IInv
<1>2. PICK outcome : /\ Conclude(c, outcome)
                     /\ IF outcome = "Ok" THEN model = None /\ model' = c ELSE UNCHANGED model
  BY DEF FinishLoad
<1>3. task'[c] = "answering" /\ answer'[c] = outcome
      /\ \A d \in Commands \ {c} : task'[d] = task[d] /\ answer'[d] = answer[d]
  BY <1>2, ConcludedTask DEF IInv
<1>4. model # c /\ \A d \in Generates : d # c
  BY <1>1, ModelTypes DEF ModelOK, Concluded
<1>5. CASE outcome = "Ok"
  BY <1>1, <1>2, <1>3, <1>4, <1>5, ModelTypes DEF ModelOK, Texting, Concluded, Sent
<1>6. CASE outcome # "Ok"
  BY <1>1, <1>2, <1>3, <1>4, <1>6, ModelTypes DEF ModelOK, Texting, Concluded, Sent
<1> QED BY <1>5, <1>6

(* A generation that finds the model finds it after the answer of its load. *)
LEMMA FinishGenerateModel ==
  ASSUME IInv, ModelOK, NEW c \in Commands, FinishGenerate(c) PROVE ModelOK'
<1>1. c \in Generates /\ task[c] = "working" /\ holder' = None /\ UNCHANGED model /\ holder = c
  BY HolderIsAlone DEF FinishGenerate, IInv
<1>2. \A d \in Loads : d # c /\ ~(task[d] = "answering" /\ answer[d] = "Ok")
  BY <1>1, ModelTypes DEF ModelOK
<1>3. model # None => Sent(model) /\ model # c
  BY <1>2, ModelTypes DEF ModelOK, Concluded, Sent
<1>4. PICK outcome : Conclude(c, outcome) /\ (outcome = "Ok" => model # None)
  BY DEF FinishGenerate
<1>5. task'[c] = "answering" /\ answer'[c] = outcome
      /\ \A d \in Commands \ {c} : task'[d] = task[d] /\ answer'[d] = answer[d]
  BY <1>4, ConcludedTask DEF IInv
<1> QED BY <1>1, <1>2, <1>3, <1>4, <1>5, ModelTypes DEF ModelOK, Texting, Concluded, Sent

LEMMA EndsModel ==
  ASSUME IInv, ModelOK, NEW c \in Commands, Panics(c) \/ BlockingSend(c) \/ Returns(c)
  PROVE  ModelOK'
<1>1. UNCHANGED <<answer, model>>
  BY DEF Panics, BlockingSend, Returns, lockVars
<1>2. \A d \in Commands \ {c} : task'[d] = task[d]
  BY ModelTypes DEF Panics, BlockingSend, Returns
<1>3. CASE Panics(c) \/ Returns(c)
  <2>1. task[c] \in {"working", "returning"} /\ holder = c
    BY <1>3, HolderIsAlone DEF Panics, Returns, IInv
  <2>2. \A d \in Loads : ~(task[d] = "answering" /\ answer[d] = "Ok")
    BY <2>1, ModelTypes DEF ModelOK
  <2>3. \/ task[c] = "working" /\ task'[c] = "panicked"
        \/ task[c] = "returning" /\ task'[c] = "done"
    BY <1>3, ModelTypes DEF Panics, Returns
  <2> QED BY <1>1, <1>2, <2>2, <2>3, ModelTypes DEF ModelOK, Texting, Concluded, Sent
<1>4. CASE BlockingSend(c)
  <2>1. task[c] = "answering" /\ task'[c] \in {"returning", "done"} /\ UNCHANGED holder
    BY <1>4, ModelTypes DEF BlockingSend, AfterSend, lockVars
  <2> QED BY <1>1, <1>2, <2>1, ModelTypes DEF ModelOK, Texting, Concluded, Sent
<1> QED BY <1>3, <1>4

LEMMA NextModel == ASSUME IInv, ModelOK, [Next]_vars PROVE ModelOK'
<1>1. CASE \E c \in Commands : TaskStep(c)
  BY <1>1, FindsBusyModel, LocksModel, FinishLoadModel, FinishGenerateModel, EndsModel
  DEF TaskStep
<1>2. CASE Dispatch
  BY <1>2, DispatchModel
<1>3. CASE UNCHANGED <<task, answer, lockVars>>
  BY <1>3 DEF ModelOK, Texting, Concluded, Sent, lockVars
<1>4. ASSUME \/ \E c \in Commands : SocketReads(c)
             \/ SocketWrites \/ WriterForwards
             \/ ReaderStarts \/ ReaderReceives \/ ReaderForwards \/ UNCHANGED vars
      PROVE  UNCHANGED <<task, answer, lockVars>>
  BY <1>4 DEF SocketReads, SocketWrites, WriterForwards, ReaderStarts, ReaderReceives,
              ReaderForwards, vars, lockVars
<1> QED BY <1>1, <1>2, <1>3, <1>4 DEF Next

(* The queue of answers and the bus.                                        *)
LEMMA ModelStays == ASSUME [Next]_vars, IInv PROVE model' = model \/ model = None
<1>1. ASSUME NEW c \in Commands, TaskStep(c) PROVE model' = model \/ model = None
  BY <1>1 DEF TaskStep, FindsBusy, Locks, FinishLoad, FinishGenerate, Panics, BlockingSend, Returns,
              lockVars
<1> QED BY <1>1 DEF Next, SocketReads, SocketWrites, WriterForwards, ReaderStarts,
                ReaderReceives, ReaderForwards, Dispatch, vars, lockVars

LEMMA QueueStays ==
  ASSUME IInv, ModelOK, QueueOK, LogGrows, UNCHANGED outq, model' = model \/ model = None,
         OfType("SendNewPacket")' = OfType("SendNewPacket")
  PROVE  QueueOK'
<1>1. \A i \in OfType("SendNewPacket") : log'[i] = log[i]
  BY DEF LogGrows, OfType
<1>2. \A c : Answers(c)' = Answers(c)
  BY <1>1 DEF Answers
<1>3. CASE model = None
  <2>1. /\ \A k \in DOMAIN outq : ~IsText(outq[k])
        /\ \A i \in OfType("SendNewPacket") : ~IsText(log[i].packet)
    BY <1>3, TextsHaveModel
  <2> QED BY <1>1, <2>1 DEF QueueOK, IsText
<1>4. CASE model' = model
  <2>1. Answers(model)' = Answers(model)
    BY <1>1, <1>4 DEF Answers
  <2> QED BY <1>1, <1>4, <2>1 DEF QueueOK, IsText
<1> QED BY <1>3, <1>4

LEMMA BlockingSendQueue ==
  ASSUME IInv, ArrivedOK, ModelOK, QueueOK, NEW c \in Commands, BlockingSend(c)
  PROVE  QueueOK'
<1>1. /\ UNCHANGED <<log, model>> /\ task[c] = "answering"
      /\ outq' = Append(outq, [cmd |-> c, outcome |-> answer[c]])
  BY DEF BlockingSend, busVars, lockVars
<1>2. PICK a : a = [cmd |-> c, outcome |-> answer[c]]
  OBVIOUS
<1>3. /\ DOMAIN outq' = DOMAIN outq \cup {Len(outq) + 1} /\ outq'[Len(outq) + 1] = a
      /\ DOMAIN outq = 1..Len(outq) /\ Len(outq) \in Nat
      /\ \A k \in DOMAIN outq : outq'[k] = outq[k]
  BY <1>1, <1>2 DEF IInv, TypeIInv, TypeOK
<1>4. Answers(model)' = Answers(model) /\ OfType("SendNewPacket")' = OfType("SendNewPacket")
  BY <1>1 DEF Answers, OfType
<1>5. IsText(a) => Answers(model) # {} \/ \E m \in DOMAIN outq : outq[m].cmd = model
  <2> SUFFICES ASSUME IsText(a) PROVE Answers(model) # {} \/ Queued(model)
    BY DEF Queued
  <2>1. c \in Generates /\ Texting(c)
    BY <1>1, <1>2 DEF IsText, Texting, Concluded
  <2>2. model \in Served /\ Sent(model)
    BY <2>1, ModelTypes DEF ModelOK, Served
  <2> QED BY <2>2 DEF ArrivedOK
<1>6. ASSUME NEW k \in DOMAIN outq', IsText(outq'[k])
      PROVE  Answers(model) # {} \/ \E m \in DOMAIN outq' : m < k /\ outq'[m].cmd = model
  <2>1. CASE k \in DOMAIN outq
    BY <1>3, <1>6, <2>1 DEF QueueOK
  <2>2. CASE k = Len(outq) + 1
    BY <1>3, <1>5, <1>6, <2>2
  <2> QED BY <1>3, <2>1, <2>2
<1>7. \A i \in OfType("SendNewPacket") : IsText(log[i].packet) => \E j \in Answers(model) : j < i
  BY DEF QueueOK
<1> QED BY <1>1, <1>4, <1>6, <1>7 DEF QueueOK, IsText

LEMMA WriterForwardsQueue ==
  ASSUME IInv, ModelOK, QueueOK, WriterForwards
  PROVE  QueueOK'
<1>1. /\ UNCHANGED model
      /\ outq \in Seq(Answer) /\ outq # <<>> /\ outq' = Tail(outq)
  BY DEF WriterForwards, lockVars, IInv, TypeIInv, TypeOK
<1>2. 1 \in DOMAIN outq /\ Head(outq) = outq[1] /\ Head(outq) \in Answer /\ DOMAIN outq \subseteq Nat \ {0}
      /\ \A k \in DOMAIN outq' : k + 1 \in DOMAIN outq /\ outq'[k] = outq[k + 1] /\ k \in Nat
  BY <1>1, HeadIsFirst
<1>3. PICK e \in Event : /\ log' = Append(log, e)
                         /\ e.type = "SendNewPacket" /\ e.packet = Head(outq)
  BY <1>2, EventsAreTyped DEF WriterForwards, Bus!Publish
<1>4. PICK n : n = Len(log) + 1
  OBVIOUS
<1>5. /\ TypeIInv /\ LogGrows /\ DOMAIN log' = DOMAIN log \cup {n} /\ log'[n] = e
      /\ \A i \in DOMAIN log : i \in Nat /\ i < n
  <2>1. TypeIInv /\ LogGrows
    BY <1>3, LogSteps DEF IInv
  <2> QED BY <1>3, <1>4, <2>1, AppendedEvent DEF TypeIInv, TypeOK, Bus!BusTypeOK
<1>6. \A i \in OfType("SendNewPacket")' :
        i = n \/ (i \in OfType("SendNewPacket") /\ log'[i] = log[i])
  BY <1>5 DEF OfType, LogGrows
<1>7. /\ Answers(model) \subseteq Answers(model)' /\ Answers(model) \subseteq DOMAIN log
      /\ outq[1].cmd = model => n \in Answers(model)'
  BY <1>1, <1>2, <1>3, <1>5 DEF Answers, OfType, LogGrows
<1>8. ASSUME NEW k \in DOMAIN outq', IsText(outq'[k])
      PROVE  Answers(model)' # {} \/ \E m \in DOMAIN outq' : m < k /\ outq'[m].cmd = model
  <2>1. CASE Answers(model) # {}
    BY <1>7, <2>1
  <2>2. CASE \E m \in DOMAIN outq : m < k + 1 /\ outq[m].cmd = model
    <3>1. PICK m \in DOMAIN outq : m < k + 1 /\ outq[m].cmd = model
      BY <2>2
    <3>2. CASE m = 1
      BY <1>7, <3>1, <3>2
    <3>3. CASE m # 1
      <4>1. m - 1 \in DOMAIN outq' /\ outq'[m - 1] = outq[m] /\ m - 1 < k
        BY <1>1, <1>2, <3>1, <3>3
      <4> QED BY <3>1, <4>1
    <3> QED BY <3>2, <3>3
  <2> QED BY <1>2, <1>8, <2>1, <2>2 DEF QueueOK
<1>9. ASSUME NEW i \in OfType("SendNewPacket")', IsText(log'[i].packet)
      PROVE  \E j \in Answers(model)' : j < i
  <2>1. CASE i = n
    <3>1. IsText(outq[1])
      BY <1>2, <1>3, <1>5, <1>9, <2>1
    <3>2. Answers(model) # {}
      <4>1. ~\E m \in DOMAIN outq : m < 1
        BY <1>2
      <4> QED BY <1>2, <3>1, <4>1 DEF QueueOK
    <3> QED BY <1>5, <1>7, <2>1, <3>2
  <2>2. CASE i \in OfType("SendNewPacket") /\ log'[i] = log[i]
    BY <1>7, <1>9, <2>2 DEF QueueOK
  <2> QED BY <1>6, <2>1, <2>2
<1> QED BY <1>1, <1>8, <1>9 DEF QueueOK, IsText

LEMMA SendsStay ==
  ASSUME IInv, [Next]_vars, ~WriterForwards
  PROVE  OfType("SendNewPacket")' = OfType("SendNewPacket") /\ LogLengths
<1>1. ASSUME NEW c \in Commands, SocketReads(c)
      PROVE  OfType("SendNewPacket")' = OfType("SendNewPacket") /\ LogLengths
  <2>1. PICK e \in Event : e = [type |-> "NewPacketReceived", cmd |-> c] /\ log' = Append(log, e)
    BY <1>1, EventsAreTyped DEF SocketReads, Bus!Publish
  <2>2. TypeIInv /\ LogLengths
    BY <2>1, LogLengthens DEF IInv
  <2> QED BY <2>1, <2>2, AppendedEvent DEF OfType
<1>2. CASE UNCHANGED log
  BY <1>2, LogLengthens DEF OfType, IInv
<1>3. ASSUME NEW c \in Commands, TaskStep(c) PROVE UNCHANGED log
  BY <1>3 DEF TaskStep, FindsBusy, Locks, FinishLoad, FinishGenerate, Panics, BlockingSend, Returns, busVars
<1>4. CASE \/ SocketWrites \/ ReaderStarts \/ ReaderReceives \/ ReaderForwards \/ Dispatch
           \/ UNCHANGED vars
  BY <1>2, <1>4 DEF SocketWrites, ReaderStarts, ReaderReceives, ReaderForwards, Dispatch,
                    busVars, vars
<1> QED BY <1>1, <1>2, <1>3, <1>4 DEF Next

LEMMA NextQueue == ASSUME IInv, ArrivedOK, ModelOK, QueueOK, [Next]_vars PROVE QueueOK'
<1>1. CASE WriterForwards
  BY <1>1, WriterForwardsQueue
<1>2. CASE \E c \in Commands : BlockingSend(c)
  BY <1>2, BlockingSendQueue
<1>3. CASE ~WriterForwards /\ ~\E c \in Commands : BlockingSend(c)
  <2>1. UNCHANGED outq
    BY <1>3 DEF Next, TaskStep, FindsBusy, Locks, FinishLoad, FinishGenerate, Panics, Returns, SocketReads,
                SocketWrites, ReaderStarts, ReaderReceives, ReaderForwards, Dispatch, vars
  <2> QED BY <1>3, <2>1, SendsStay, ModelStays, QueueStays DEF LogLengths
<1> QED BY <1>1, <1>2, <1>3

LEMMA LagLasts ==
  ASSUME IInv, LogLengths
  PROVE  \A i \in DOMAIN log : Bus!Overwritten(i) => Bus!Overwritten(i)'
<1>1. DOMAIN log \subseteq Int /\ Len(log) \in Nat /\ Capacity \in Nat
  BY HandlerAssumption DEF IInv, TypeIInv, TypeOK, Bus!BusTypeOK
<1> QED BY <1>1 DEF LogLengths, Bus!Overwritten

LEMMA AnswersAreSends ==
  \A c : \A i \in Answers(c) : i \in OfType("SendNewPacket") /\ i \in DOMAIN log
  BY DEF Answers, OfType

(* The steps that write nothing to the socket.                              *)
LEMMA WireStays ==
  ASSUME IInv, ModelOK, WrittenOK, LoadAnsweredFirst, LogLengths, UNCHANGED wire,
         model' = model \/ model = None, cursor'[SockRx] = cursor[SockRx],
         \A i \in DOMAIN log' : i \in DOMAIN log \/ i > Len(log)
  PROVE  WrittenOK' /\ LoadAnsweredFirst'
<1>1. cursor[SockRx] \in Int /\ cursor[SockRx] <= Len(log) /\ Len(log) \in Nat
      /\ DOMAIN log' \subseteq Int
  BY CursorsAreNumbers DEF IInv, TypeIInv, TypeOK, Bus!BusTypeOK, Receivers, LogLengths, LogGrows
<1>2. ASSUME NEW j \in OfType("SendNewPacket")', j <= cursor'[SockRx]
      PROVE  Bus!Overwritten(j)' \/ \E n \in DOMAIN wire : wire[n] = log'[j].packet
  <2>1. j \in DOMAIN log /\ log'[j] = log[j] /\ j \in OfType("SendNewPacket")
    BY <1>1, <1>2 DEF OfType, LogLengths, LogGrows
  <2> QED BY <1>2, <2>1, LagLasts DEF WrittenOK
<1>3. ASSUME NEW i \in DOMAIN wire, IsText(wire[i])
      PROVE  \/ \E j \in 1..(i - 1) : wire[j].cmd = model' /\ wire[j].outcome = "Ok"
             \/ \E j \in Answers(model)' : Bus!Overwritten(j)'
  <2>1. model' = model
    BY <1>3, TextsHaveModel
  <2>2. Answers(model) \subseteq Answers(model)'
    BY <2>1 DEF LogLengths, LogGrows, Answers, OfType
  <2> QED BY <1>3, <2>1, <2>2, LagLasts, AnswersAreSends DEF LoadAnsweredFirst, IsText
<1>4. WrittenOK'
  BY <1>2 DEF WrittenOK
<1>5. LoadAnsweredFirst'
  BY <1>3 DEF LoadAnsweredFirst, IsText
<1> QED BY <1>4, <1>5

(* A text is written after the answer of the load, unless that one was      *)
(* overwritten before the socket task came to it.                           *)
LEMMA SocketWritesWire ==
  ASSUME IInv, ModelOK, QueueOK, WrittenOK, LoadAnsweredFirst, SocketWrites
  PROVE  WrittenOK' /\ LoadAnsweredFirst'
<1>1. PICK i \in OfType("SendNewPacket") :
        /\ Bus!IsNext(SockRx, i, OfType("SendNewPacket"))
        /\ Bus!MoveTo(SockRx, i) /\ wire' = Append(wire, log[i].packet)
  BY DEF SocketWrites
<1>2. /\ cursor'[SockRx] = i /\ i \in Nat /\ cursor[SockRx] \in Int
      /\ DOMAIN log = 1..Len(log) /\ Len(log) \in Nat
  <2>1. i \in Nat /\ DOMAIN log = 1..Len(log) /\ Len(log) \in Nat
    BY DEF OfType, IInv, TypeIInv, TypeOK, Bus!BusTypeOK
  <2> QED BY <1>1, <2>1, CursorsAreNumbers
          DEF Bus!MoveTo, IInv, TypeIInv, TypeOK, Bus!BusTypeOK, Receivers
<1>3. UNCHANGED <<log, model>>
  BY DEF SocketWrites, lockVars
<1>4. /\ DOMAIN wire' = DOMAIN wire \cup {Len(wire) + 1} /\ Len(wire) \in Nat
      /\ DOMAIN wire = 1..Len(wire)
      /\ wire'[Len(wire) + 1] = log[i].packet /\ \A n \in DOMAIN wire : wire'[n] = wire[n]
  BY <1>1 DEF IInv, TypeIInv, TypeOK
<1>5. \A j \in OfType("SendNewPacket") : j <= i =>
        j = i \/ Bus!Overwritten(j) \/ \E n \in DOMAIN wire : wire[n] = log[j].packet
  <2> SUFFICES ASSUME NEW j \in OfType("SendNewPacket"), j < i, ~Bus!Overwritten(j)
               PROVE  \E n \in DOMAIN wire : wire[n] = log[j].packet
    BY <1>2 DEF OfType
  <2>1. j \in 1..Len(log)
    BY <1>2 DEF OfType
  <2>2. j <= cursor[SockRx]
    BY <1>1, <1>2, <2>1 DEF Bus!IsNext, Bus!Pending
  <2> QED BY <2>2 DEF WrittenOK
<1>6. WrittenOK'
  <2>1. OfType("SendNewPacket")' = OfType("SendNewPacket")
        /\ \A j : Bus!Overwritten(j)' <=> Bus!Overwritten(j)
    BY <1>3 DEF OfType, Bus!Overwritten
  <2> QED BY <1>2, <1>3, <1>4, <1>5, <2>1 DEF WrittenOK
<1>7. ASSUME NEW k \in DOMAIN wire', IsText(wire'[k])
      PROVE  \/ \E j \in 1..(k - 1) : wire'[j].cmd = model /\ wire'[j].outcome = "Ok"
             \/ \E j \in Answers(model) : Bus!Overwritten(j)
  <2>1. CASE k \in DOMAIN wire
    <3>1. 1..(k - 1) \subseteq DOMAIN wire
      BY <1>4, <2>1
    <3> QED BY <1>4, <1>7, <2>1, <3>1 DEF LoadAnsweredFirst, IsText
  <2>2. CASE k = Len(wire) + 1
    <3>1. IsText(log[i].packet)
      BY <1>4, <1>7, <2>2
    <3>2. PICK j \in Answers(model) : j < i
      BY <3>1 DEF QueueOK
    <3>3. j \in OfType("SendNewPacket") /\ log[j].packet.cmd = model /\ j \in Nat
      BY <1>2 DEF Answers, OfType
    <3>4. Bus!Overwritten(j) \/ \E n \in DOMAIN wire : wire[n] = log[j].packet
      BY <1>2, <1>5, <3>2, <3>3
    <3>5. log[j].packet.outcome = "Ok"
      <4>1. IsAnswer(log[j].packet)
        BY <3>3 DEF IInv, AnswersOK
      <4>2. model # None
        BY <3>1, TextsHaveModel
      <4> QED BY <3>3, <4>1, <4>2 DEF IsAnswer, ModelOK
    <3>6. CASE \E n \in DOMAIN wire : wire[n] = log[j].packet
      <4>1. PICK n \in DOMAIN wire : wire[n] = log[j].packet
        BY <3>6
      <4>2. n \in 1..(k - 1) /\ wire'[n] = log[j].packet
        BY <1>4, <2>2, <4>1
      <4> QED BY <3>3, <3>5, <4>2
    <3> QED BY <3>4, <3>6
  <2> QED BY <1>4, <2>1, <2>2
<1>8. LoadAnsweredFirst'
  <2>1. Answers(model)' = Answers(model) /\ \A j : Bus!Overwritten(j)' <=> Bus!Overwritten(j)
    BY <1>3 DEF Answers, OfType, Bus!Overwritten
  <2> QED BY <1>3, <1>7, <2>1 DEF LoadAnsweredFirst, IsText
<1> QED BY <1>6, <1>8

LEMMA NextText == ASSUME IInv, ArrivedOK, TextOK, [Next]_vars PROVE TextOK'
<1>1. ModelOK' /\ QueueOK'
  BY NextModel, NextQueue DEF TextOK
<1>2. CASE SocketWrites
  BY <1>1, <1>2, SocketWritesWire DEF TextOK
<1>3. CASE ~SocketWrites
  <2>1. UNCHANGED wire
    BY <1>3 DEF Next, TaskStep, FindsBusy, Locks, FinishLoad, FinishGenerate, Panics, BlockingSend, Returns,
                SocketReads, WriterForwards, ReaderStarts, ReaderReceives, ReaderForwards, Dispatch,
                vars
  <2>2. log' = log \/ \E e \in Event : log' = Append(log, e)
    <3>1. CASE WriterForwards
      <4>1. Head(outq) \in Answer
        BY <3>1, HeadIsFirst DEF WriterForwards, IInv, TypeIInv, TypeOK
      <4> QED BY <3>1, <4>1, EventsAreTyped DEF WriterForwards, Bus!Publish
    <3>2. ASSUME NEW c \in Commands, SocketReads(c) PROVE \E e \in Event : log' = Append(log, e)
      BY <3>2, EventsAreTyped DEF SocketReads, Bus!Publish
    <3>3. ASSUME NEW c \in Commands, TaskStep(c) PROVE log' = log
      BY <3>3 DEF TaskStep, FindsBusy, Locks, FinishLoad, FinishGenerate, Panics, BlockingSend, Returns,
                  busVars
    <3> QED BY <3>1, <3>2, <3>3
            DEF Next, SocketWrites, ReaderStarts, ReaderReceives, ReaderForwards, Dispatch,
                vars, busVars
  <2>3. LogLengths /\ \A i \in DOMAIN log' : i \in DOMAIN log \/ i > Len(log)
    <3>1. log \in Seq(Event) /\ TypeIInv
      BY DEF IInv, TypeIInv, TypeOK, Bus!BusTypeOK
    <3> QED BY <2>2, <3>1, LogLengthens
  <2>4. cursor'[SockRx] = cursor[SockRx]
    <3>1. /\ cursor \in [Receivers -> Nat \cup {Bus!Detached}]
          /\ SockRx \in Receivers /\ ReadRx # SockRx
      BY DEF IInv, TypeIInv, TypeOK, Bus!BusTypeOK, Receivers, ReadRx, SockRx
    <3>2. ASSUME NEW c \in Commands, TaskStep(c) \/ SocketReads(c) PROVE cursor' = cursor
      BY <3>2 DEF TaskStep, FindsBusy, Locks, FinishLoad, FinishGenerate, Panics, BlockingSend, Returns,
                  SocketReads, busVars
    <3>3. \/ cursor' = cursor
          \/ Bus!Subscribe(ReadRx) \/ \E i : Bus!MoveTo(ReadRx, i)
      BY <1>3, <3>2 DEF Next, WriterForwards, ReaderStarts, ReaderReceives, ReaderForwards,
                        Dispatch, vars, busVars
    <3> QED BY <3>1, <3>3 DEF Bus!Subscribe, Bus!MoveTo
  <2> QED BY <1>1, <2>1, <2>3, <2>4, ModelStays, WireStays DEF TextOK
<1> QED BY <1>2, <1>3

LEMMA InitText == Init => TextOK
<1> SUFFICES ASSUME Init PROVE TextOK
  OBVIOUS
<1>1. \A type : OfType(type) = {}
  BY DEF Init, OfType
<1> QED BY <1>1, ServedAreCommands
        DEF Init, TextOK, ModelOK, QueueOK, WrittenOK, LoadAnsweredFirst, Texting, Concluded, Served

(* No text overtakes the answer that the model was loaded: a master that    *)
(* reads a text has read that answer, or the bus overwrote it.              *)
THEOREM LoadIsAnsweredFirst == Spec => []LoadAnsweredFirst
<1>1. IInv /\ ArrivedOK /\ TextOK /\ [Next]_vars => (ArrivedOK /\ TextOK)'
  BY NextArrived, NextText
<1>2. Init => ArrivedOK /\ TextOK
  BY InitArrived, InitText
<1>3. TextOK => LoadAnsweredFirst
  BY DEF TextOK
<1> QED BY <1>1, <1>2, <1>3, Invariance, PTL DEF Spec

--------------------------------------------------------------------------------
(***************************************************************************)
(* WorkerHandler implements WorkerService: its initial state is one of the  *)
(* service, and each of its steps is a step of the service or changes       *)
(* nothing that the service shows.                                          *)
(***************************************************************************)

(* What the service shows does not change.                                  *)
Hidden == UNCHANGED <<Accepted, Decided, model, Keeper, wire>>

LEMMA AcceptedStays ==
  ASSUME OfType("NewPacketReceived")' = OfType("NewPacketReceived"),
         \A i \in OfType("NewPacketReceived") : log'[i] = log[i]
  PROVE  Accepted' = Accepted
  BY DEF Accepted, Arrivals

LEMMA AcceptedWithLog == ASSUME UNCHANGED log PROVE Accepted' = Accepted
  BY DEF Accepted, Arrivals, OfType

LEMMA DecidedWithTask == ASSUME UNCHANGED <<task, answer>> PROVE Decided' = Decided
  BY DEF Decided, Concluded

LEMMA KeeperWithTask == ASSUME UNCHANGED <<task, holder>> PROVE Keeper' = Keeper
  BY DEF Keeper, Concluded

(* No load keeps the model when a command gets it.                          *)
LEMMA NoKeeper ==
  ASSUME IInv, NEW c \in Commands, task[c] = "working"
  PROVE  holder = c /\ Keeper = None
  BY HolderIsAlone DEF IInv, Keeper, Concluded

(* The load that keeps the model goes on to keep it.                        *)
LEMMA KeeperStays ==
  ASSUME IInv, UNCHANGED holder,
         holder # None => (Concluded(holder)' <=> Concluded(holder))
  PROVE  Keeper' = Keeper
  BY DEF Keeper, Concluded

LEMMA StagesAreAccepted ==
  ASSUME IInv, NEW c \in Commands, task[c] # "none"
  PROVE  c \in Served /\ c \in Accepted
<1>1. c \in Served
  BY DEF IInv, TypeIInv, StageOK
<1>2. Arrivals(c) # {}
  BY DEF IInv, OnceOK, WasRead
<1> QED BY <1>1, <1>2 DEF Accepted, Served

LEMMA HolderIsCommand == ASSUME IInv, holder # None PROVE holder \in Commands
  BY DEF IInv, TypeIInv, TypeOK

(* A task that concludes gives its command its outcome.                     *)
LEMMA ConcludeDecides ==
  ASSUME IInv, NEW c \in Commands, task[c] \in {"spawned", "working"},
         NEW outcome, Conclude(c, outcome), UNCHANGED <<log, wire>>
  PROVE  Service!Decides(c, outcome)
<1>1. c \in Served /\ c \in Accepted
  BY StagesAreAccepted
<1>2. /\ task'[c] = "answering" /\ answer'[c] = outcome
      /\ \A d \in Commands \ {c} : task'[d] = task[d] /\ answer'[d] = answer[d]
  BY DEF Conclude, IInv, TypeIInv, TypeOK
<1>3. Decided[c] = None
  BY <1>1 DEF Decided, Concluded, Served
<1>4. Decided' = [Decided EXCEPT ![c] = outcome]
  <2>1. \A d \in Served : d \in Commands
    BY ServedAreCommands
  <2> QED BY <1>1, <1>2, <2>1 DEF Decided, Concluded, Served
<1>5. Accepted' = Accepted
  BY AcceptedWithLog
<1> QED BY <1>1, <1>3, <1>4, <1>5 DEF Service!Decides

(* A task that goes on without an outcome shows nothing.                    *)
LEMMA TaskHides ==
  ASSUME IInv, NEW c \in Commands, UNCHANGED <<log, answer, model, wire>>,
         NEW stage, task' = [task EXCEPT ![c] = stage],
         Concluded(c) <=> stage \in {"answering", "returning", "done"}
  PROVE  /\ UNCHANGED <<Accepted, Decided, model, wire>>
         /\ \A d \in Commands : Concluded(d)' <=> Concluded(d)
<1>1. \A d \in Commands : Concluded(d)' <=> Concluded(d)
  BY DEF Concluded, IInv, TypeIInv, TypeOK
<1>2. Decided' = Decided
  <2>1. \A d \in Served : d \in Commands
    BY ServedAreCommands
  <2> QED BY <1>1, <2>1 DEF Decided, Served
<1> QED BY <1>1, <1>2, AcceptedWithLog

-------------------------------------------------------------------------------
LEMMA ServiceInit == Init => Service!Init
<1> SUFFICES ASSUME Init PROVE Service!Init
  OBVIOUS
<1>1. Accepted = {}
  BY DEF Init, Accepted, Arrivals, OfType
<1>2. Decided = [c \in Loads \cup Generates |-> None]
  <2>1. \A c \in Loads \cup Generates : task[c] = "none"
    BY DEF Init, Commands
  <2> QED BY <2>1 DEF Decided, Concluded
<1>3. Keeper = None
  BY DEF Init, Keeper
<1> QED BY <1>1, <1>2, <1>3 DEF Init, Service!Init

LEMMA ReadsAccept ==
  ASSUME IInv, NEW c \in Commands, SocketReads(c)
  PROVE  Hidden \/ (c \in Served /\ Service!Accept(c))
<1>1. UNCHANGED <<task, answer, holder, model, wire>> /\ Arrivals(c) = {}
  BY DEF SocketReads, lockVars
<1>2. PICK e \in Event : log' = Append(log, e) /\ e.type = "NewPacketReceived" /\ e.cmd = c
  BY EventsAreTyped DEF SocketReads, Bus!Publish
<1>3. /\ Len(log) + 1 \notin DOMAIN log /\ DOMAIN log' = DOMAIN log \cup {Len(log) + 1}
      /\ log'[Len(log) + 1] = e /\ \A i \in DOMAIN log : log'[i] = log[i]
  BY <1>2, AppendedEvent, Zenon DEF IInv
<1>4. \A d : Arrivals(d)' = Arrivals(d) \cup (IF d = c THEN {Len(log) + 1} ELSE {})
  BY <1>2, <1>3 DEF Arrivals, OfType
<1>5. Decided' = Decided /\ Keeper' = Keeper
  BY <1>1, DecidedWithTask, KeeperWithTask
<1>6. CASE c \in Served
  <2>1. Accepted' = Accepted \cup {c} /\ c \notin Accepted
    BY <1>1, <1>4, <1>6 DEF Accepted, Served
  <2> QED BY <1>1, <1>5, <1>6, <2>1 DEF Service!Accept
<1>7. CASE c \notin Served
  <2>1. Accepted' = Accepted
    BY <1>4, <1>7 DEF Accepted, Served
  <2> QED BY <1>1, <1>5, <2>1 DEF Hidden
<1> QED BY <1>6, <1>7

LEMMA WritesReply ==
  ASSUME IInv, SocketWrites
  PROVE  \E c \in Served : Service!Reply(c)
<1>1. PICK i \in OfType("SendNewPacket") :
        /\ Bus!IsNext(SockRx, i, OfType("SendNewPacket"))
        /\ wire' = Append(wire, log[i].packet)
  BY DEF SocketWrites
<1> DEFINE c == log[i].packet.cmd
<1>2. UNCHANGED <<log, task, answer, holder, model>>
  BY DEF SocketWrites, lockVars
<1>3. log[i].packet \in Answer
  BY EventFields DEF IInv, TypeIInv, TypeOK, Bus!BusTypeOK, OfType
<1>4. c \in Served /\ log[i].packet.outcome \in Outcomes
  BY <1>3 DEF Answer, Served
<1>5. Concluded(c) /\ answer[c] = log[i].packet.outcome
  BY DEF IInv, AnswersOK, IsAnswer, Sent, Concluded
<1>6. Decided[c] = log[i].packet.outcome /\ Decided[c] # None
  BY <1>4, <1>5, HandlerAssumption DEF Decided, Served
<1>7. ~Service!Replied(c)
  <2> SUFFICES ASSUME NEW k \in DOMAIN wire, wire[k].cmd = c PROVE FALSE
    BY DEF Service!Replied
  <2>1. PICK j \in OfType("SendNewPacket") : j <= cursor[SockRx] /\ log[j].packet = wire[k]
    BY DEF IInv, AnswersOK
  <2>2. j = i
    BY <2>1 DEF IInv, AnswersOK
  <2>3. cursor[SockRx] < i
    BY <1>1 DEF Bus!IsNext, Bus!Pending
  <2>4. cursor[SockRx] \in Int /\ i \in Nat
    BY CursorsAreNumbers DEF IInv, TypeIInv, TypeOK, Bus!BusTypeOK, OfType, Receivers
  <2> QED BY <2>1, <2>2, <2>3, <2>4
<1>8. log[i].packet = [cmd |-> c, outcome |-> Decided[c]]
  BY <1>3, <1>6 DEF Answer
<1>9. Accepted' = Accepted /\ Decided' = Decided /\ Keeper' = Keeper
  BY <1>2, AcceptedWithLog, DecidedWithTask, KeeperWithTask
<1>10. Service!Reply(c)
  BY <1>1, <1>2, <1>6, <1>7, <1>8, <1>9 DEF Service!Reply
<1> QED BY <1>4, <1>10

LEMMA WriterHides ==
  ASSUME IInv, WriterForwards
  PROVE  Hidden
<1>1. UNCHANGED <<task, answer, holder, model, wire>>
  BY DEF WriterForwards, lockVars
<1>2. Head(outq) \in Answer
  BY HeadIsFirst DEF WriterForwards, IInv, TypeIInv, TypeOK
<1>3. PICK e \in Event : log' = Append(log, e) /\ e.type = "SendNewPacket"
  BY <1>2, EventsAreTyped DEF WriterForwards, Bus!Publish
<1>4. /\ Len(log) + 1 \notin DOMAIN log /\ DOMAIN log' = DOMAIN log \cup {Len(log) + 1}
      /\ log'[Len(log) + 1] = e /\ \A i \in DOMAIN log : log'[i] = log[i]
  BY <1>3, AppendedEvent, Zenon DEF IInv
<1>5. Accepted' = Accepted
  BY <1>3, <1>4, AcceptedStays DEF OfType
<1> QED BY <1>1, <1>5, DecidedWithTask, KeeperWithTask DEF Hidden

LEMMA ReaderHides ==
  ASSUME IInv, ReaderStarts \/ ReaderReceives \/ ReaderForwards
  PROVE  Hidden
<1>1. UNCHANGED <<log, task, answer, holder, model, wire>>
  BY DEF ReaderStarts, ReaderReceives, ReaderForwards, busVars, lockVars
<1> QED BY <1>1, AcceptedWithLog, DecidedWithTask, KeeperWithTask DEF Hidden

LEMMA DispatchHides ==
  ASSUME IInv, Dispatch
  PROVE  Hidden
<1>1. UNCHANGED <<log, answer, holder, model, wire>>
  BY DEF Dispatch, busVars, lockVars
<1>2. CASE UNCHANGED task
  BY <1>1, <1>2, AcceptedWithLog, DecidedWithTask, KeeperWithTask DEF Hidden
<1>3. CASE task' = [task EXCEPT ![Head(inq)] = "spawned"]
  <2>1. inq # <<>> /\ inq \in Seq(Commands)
    BY DEF Dispatch, IInv, TypeIInv, TypeOK
  <2>2. Head(inq) \in Commands /\ task[Head(inq)] = "none"
    BY <2>1, HeadIsFirst DEF IInv, OnceOK
  <2>3. ~Concluded(Head(inq))
    BY <2>2 DEF Concluded
  <2>4. /\ UNCHANGED <<Accepted, Decided, model, wire>>
        /\ \A d \in Commands : Concluded(d)' <=> Concluded(d)
    BY <1>1, <1>3, <2>2, <2>3, TaskHides
  <2> QED BY <1>1, <2>4, KeeperStays, HolderIsCommand DEF Hidden
<1> QED BY <1>2, <1>3 DEF Dispatch

LEMMA BusyIsBusy ==
  ASSUME IInv, NEW c \in Commands, FindsBusy(c)
  PROVE  c \in Served /\ Service!Busy(c)
<1>1. task[c] = "spawned" /\ holder # None /\ holder \in Commands /\ UNCHANGED <<holder, model>>
  BY DEF FindsBusy, IInv, TypeIInv, TypeOK, lockVars
<1>2. task[holder] \in {"working", "answering", "returning"} /\ holder # c
  BY <1>1 DEF IInv, LockOK
<1>3. Keeper # None \/ \E d \in Accepted \ {c} : Decided[d] = None
  <2>1. CASE task[holder] = "working"
    BY <1>1, <1>2, <2>1, StagesAreAccepted DEF Decided, Concluded, Served
  <2>2. CASE task[holder] # "working"
    BY <1>1, <1>2, <2>2 DEF Keeper, Concluded
  <2> QED BY <2>1, <2>2
<1>4. Service!Decides(c, "ModelBusy")
  BY <1>1, ConcludeDecides DEF FindsBusy, busVars
<1>5. Keeper' = Keeper
  <2>1. task'[holder] = task[holder]
    BY <1>1, <1>2, ConcludedTask DEF FindsBusy, IInv
  <2> QED BY <1>1, <2>1, KeeperStays DEF Concluded
<1> QED BY <1>1, <1>3, <1>4, <1>5, StagesAreAccepted DEF Service!Busy

LEMMA LocksHides ==
  ASSUME IInv, NEW c \in Commands, Locks(c)
  PROVE  Hidden
<1>1. /\ task[c] = "spawned" /\ task' = [task EXCEPT ![c] = "working"]
      /\ holder = None /\ holder' = c /\ UNCHANGED <<log, answer, model, wire>>
  BY DEF Locks, busVars
<1>2. ~Concluded(c)
  BY <1>1 DEF Concluded
<1>3. /\ UNCHANGED <<Accepted, Decided, model, wire>>
      /\ \A d \in Commands : Concluded(d)' <=> Concluded(d)
  BY <1>1, <1>2, TaskHides
<1>4. Keeper' = None /\ Keeper = None
  BY <1>1, <1>2, <1>3 DEF Keeper
<1> QED BY <1>3, <1>4 DEF Hidden

LEMMA FinishLoadServes ==
  ASSUME IInv, NEW c \in Commands, FinishLoad(c)
  PROVE  c \in Loads /\ Service!Load(c)
<1>1. c \in Loads /\ task[c] = "working" /\ UNCHANGED <<log, wire, holder>>
  BY DEF FinishLoad, busVars
<1>2. holder = c /\ Keeper = None
  BY <1>1, NoKeeper
<1>3. Keeper' = c
  <2>1. task'[c] = "answering"
    BY ConcludedTask DEF FinishLoad, IInv
  <2>2. c # None
    BY ServedAreCommands
  <2> QED BY <1>1, <1>2, <2>1, <2>2 DEF Keeper, Concluded
<1>4. CASE model = None /\ Conclude(c, "Ok") /\ model' = c
  BY <1>1, <1>2, <1>3, <1>4, ConcludeDecides DEF Service!Load
<1>5. CASE model = None /\ Conclude(c, "LoadingError") /\ UNCHANGED model
  BY <1>1, <1>2, <1>3, <1>5, ConcludeDecides DEF Service!Load
<1>6. CASE model # None /\ Conclude(c, "ModelAlreadyLoaded") /\ UNCHANGED model
  BY <1>1, <1>2, <1>3, <1>6, ConcludeDecides DEF Service!Load
<1> QED BY <1>1, <1>4, <1>5, <1>6 DEF FinishLoad

LEMMA FinishGenerateServes ==
  ASSUME IInv, NEW c \in Commands, FinishGenerate(c)
  PROVE  c \in Generates /\ Service!Generate(c)
<1>1. c \in Generates /\ task[c] = "working" /\ holder' = None /\ UNCHANGED <<log, model, wire>>
  BY DEF FinishGenerate, busVars
<1>2. Keeper = None /\ Keeper' = None
  BY <1>1, NoKeeper DEF Keeper
<1>3. \/ model = None /\ Conclude(c, "ModelNotLoaded")
      \/ model # None /\ Conclude(c, "Ok")
      \/ model # None /\ Conclude(c, "GenerationError")
  BY DEF FinishGenerate
<1> QED BY <1>1, <1>2, <1>3, ConcludeDecides DEF Service!Generate

LEMMA PanicsHides ==
  ASSUME IInv, NEW c \in Commands, Panics(c)
  PROVE  Hidden
<1>1. /\ task[c] = "working" /\ task' = [task EXCEPT ![c] = "panicked"]
      /\ holder' = None /\ UNCHANGED <<log, answer, model, wire>>
  BY DEF Panics, busVars
<1>2. ~Concluded(c)
  BY <1>1 DEF Concluded
<1>3. UNCHANGED <<Accepted, Decided, model, wire>>
  BY <1>1, <1>2, TaskHides
<1>4. Keeper = None /\ Keeper' = None
  BY <1>1, NoKeeper DEF Keeper
<1> QED BY <1>3, <1>4 DEF Hidden

LEMMA BlockingSendHides ==
  ASSUME IInv, NEW c \in Commands, BlockingSend(c)
  PROVE  Hidden
<1>1. /\ task[c] = "answering" /\ task' = [task EXCEPT ![c] = AfterSend(c)]
      /\ UNCHANGED <<log, answer, holder, model, wire>>
  BY DEF BlockingSend, busVars, lockVars
<1>2. Concluded(c) /\ AfterSend(c) \in {"answering", "returning", "done"}
  BY <1>1 DEF Concluded, AfterSend
<1>3. /\ UNCHANGED <<Accepted, Decided, model, wire>>
      /\ \A d \in Commands : Concluded(d)' <=> Concluded(d)
  BY <1>1, <1>2, TaskHides
<1> QED BY <1>1, <1>3, KeeperStays, HolderIsCommand DEF Hidden

(* A load gives the model back, long after its answer.                      *)
LEMMA ReturnsLetsGo ==
  ASSUME IInv, NEW c \in Commands, Returns(c)
  PROVE  Service!LetsGo
<1>1. /\ task[c] = "returning" /\ task' = [task EXCEPT ![c] = "done"]
      /\ holder' = None /\ UNCHANGED <<log, answer, model, wire>>
  BY DEF Returns, busVars
<1>2. Concluded(c)
  BY <1>1 DEF Concluded
<1>3. UNCHANGED <<Accepted, Decided, model, wire>>
  BY <1>1, <1>2, TaskHides
<1>4. holder = c /\ c # None
  BY <1>1, HolderIsAlone, ServedAreCommands DEF IInv
<1>5. Keeper # None /\ Keeper' = None
  BY <1>1, <1>2, <1>4 DEF Keeper
<1> QED BY <1>3, <1>5 DEF Service!LetsGo

LEMMA ServiceStep == IInv /\ [Next]_vars => [Service!Next]_Service!vars
<1> SUFFICES ASSUME IInv, [Next]_vars PROVE Service!Next \/ Hidden
  BY DEF Hidden, Service!vars
<1>1. CASE \E c \in Commands : SocketReads(c)
  BY <1>1, ReadsAccept DEF Service!Next, Served
<1>2. ASSUME NEW c \in Commands, TaskStep(c) PROVE Service!Next \/ Hidden
  <2>1. CASE FindsBusy(c)
    BY <2>1, BusyIsBusy DEF Service!Next, Served
  <2>2. CASE Locks(c)
    BY <2>2, LocksHides
  <2>3. CASE FinishLoad(c) \/ FinishGenerate(c)
    BY <2>3, FinishLoadServes, FinishGenerateServes DEF Service!Next
  <2>4. CASE Panics(c) \/ BlockingSend(c)
    BY <2>4, PanicsHides, BlockingSendHides
  <2>5. CASE Returns(c)
    BY <2>5, ReturnsLetsGo DEF Service!Next
  <2> QED BY <1>2, <2>1, <2>2, <2>3, <2>4, <2>5 DEF TaskStep
<1>3. CASE SocketWrites
  BY <1>3, WritesReply DEF Service!Next, Served
<1>4. CASE WriterForwards \/ ReaderStarts \/ ReaderReceives \/ ReaderForwards \/ Dispatch
  BY <1>4, WriterHides, ReaderHides, DispatchHides
<1>5. CASE UNCHANGED vars
  BY <1>5, AcceptedWithLog, DecidedWithTask, KeeperWithTask DEF vars, busVars, lockVars, Hidden
<1> QED BY <1>1, <1>2, <1>3, <1>4, <1>5 DEF Next

(* However the tasks interleave, and however small the channels and the bus *)
(* are, the worker shows its master loads and generations that happen at    *)
(* one instant: one model, loaded once; no generation without it; no answer *)
(* given twice; and ModelBusy only while another command has not taken      *)
(* effect, or a load that has still keeps the model.                        *)
THEOREM Implements == Spec => ServiceSpec
  BY Invariance, ServiceInit, ServiceStep, PTL DEF Spec, ServiceSpec, Service!Spec
===============================================================================
