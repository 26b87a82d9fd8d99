-------------------------- MODULE WorkerGatewayProofs --------------------------
(***************************************************************************)
(* Proofs about WorkerGateway: type correctness; a request is never answered *)
(* with the text of another prompt unless their ids collide; a worker loads *)
(* its model before it gets a prompt; and no call waits in vain.  Then, with  *)
(* the history of WorkerAnnouncements: the set of registered workers is     *)
(* right but for the workers of which an announcement was missed.  All for  *)
(* any workers, requests and ids, and any capacity of the bus.              *)
(***************************************************************************)
EXTENDS WorkerAnnouncements, WellFoundedInduction, TLAPS

(* A call has what its next step needs.                                     *)
PhaseOK ==
  /\ watcher.pc = "load" => watcher.addr \in Addrs
  /\ \A c \in Calls :
       /\ pc[c] \in {"subscribed", "picked", "waiting"} => reqId[c] \in Ids
       /\ pc[c] \in {"picked", "waiting"} => target[c] \in Addrs
  /\ pc[Loader] \in {"idle", "picked", "waiting", "done"}

Sent(r) == pc[r] \in {"waiting", "done", "dropped"}

(* A "Generate" message to or from worker a goes back to a request that was *)
(* sent to a with that very id: nobody draws an id for a request again.     *)
Source(a, kind, id, r) ==
  kind = "Generate" => r \in Requests /\ Sent(r) /\ reqId[r] = id /\ target[r] = a

EventSourced(e) ==
  /\ e.type = "SendNewPacket" =>
       Source(e.addr, e.packet.kind, e.packet.id, e.packet.prompt)
  /\ e.type = "NewPacketReceived" =>
       Source(e.addr, e.packet.kind, e.packet.id, e.packet.content)

SourcesOK ==
  /\ \A i \in DOMAIN log : EventSourced(log[i])
  /\ \A a \in Addrs : \A cmd \in inbox[a] : Source(a, cmd.kind, cmd.id, cmd.prompt)
  /\ \A a \in Addrs : \A i \in DOMAIN outbox[a] :
       Source(a, outbox[a][i].kind, outbox[a][i].id, outbox[a][i].content)

(* The text a request returned answers a request with the same id that was  *)
(* sent to the same worker.                                                 *)
ResultsOK ==
  \A r \in Requests :
    result[r].tag = "Ok" =>
      /\ pc[r] = "done"
      /\ Source(target[r], "Generate", reqId[r], result[r].content)

IInv == TypeOK /\ PhaseOK /\ SourcesOK /\ ResultsOK

-------------------------------------------------------------------------------
LEMMA EventFields ==
  ASSUME NEW e \in Event
  PROVE  /\ e.addr \in Addrs
         /\ e.type = "SendNewPacket" => e.packet \in Command
         /\ e.type = "NewPacketReceived" => e.packet \in Answer
  BY DEF Event

LEMMA EventsAreTyped ==
  /\ \A a \in Addrs : Connected(a) \in Event /\ Disconnected(a) \in Event
  /\ \A a \in Addrs, cmd \in Command : Send(a, cmd) \in Event
  /\ \A a \in Addrs, ans \in Answer : Received(a, ans) \in Event
  BY DEF Event, Connected, Disconnected, Send, Received

LEMMA ReceiversExist ==
  /\ \A a \in Addrs : SockRx(a) \in Receivers
  /\ \A c \in Calls : CallRx(c) \in Receivers
  /\ ConnRx \in Receivers /\ DiscRx \in Receivers
  BY DEF Receivers

(* Every step appends at most one event, and moves cursors within the log.  *)
LEMMA BusStep ==
  ASSUME Bus!BusTypeOK(Event),
         log' = log \/ \E e \in Event : log' = Append(log, e),
         cursor' \in [Receivers -> Nat \cup {Bus!Detached}],
         \A rx \in Receivers : cursor'[rx] <= Len(log)
  PROVE  Bus!BusTypeOK(Event)'
<1>1. log \in Seq(Event) /\ Len(log) \in Nat
  BY DEF Bus!BusTypeOK
<1>2. log' \in Seq(Event) /\ Len(log) <= Len(log') /\ Len(log') \in Nat
  BY <1>1
<1>3. \A rx \in Receivers : cursor'[rx] <= Len(log')
  BY <1>1, <1>2 DEF Bus!Detached
<1> QED BY <1>2, <1>3 DEF Bus!BusTypeOK

LEMMA SubscribeStep ==
  ASSUME Bus!BusTypeOK(Event), NEW rx \in Receivers, Bus!Subscribe(rx)
  PROVE  /\ cursor' \in [Receivers -> Nat \cup {Bus!Detached}]
         /\ \A s \in Receivers : cursor'[s] <= Len(log)
  BY DEF Bus!BusTypeOK, Bus!Subscribe, Bus!Detached

LEMMA DropStep ==
  ASSUME Bus!BusTypeOK(Event), NEW R, Bus!Drop(R)
  PROVE  /\ cursor' \in [Receivers -> Nat \cup {Bus!Detached}]
         /\ \A s \in Receivers : cursor'[s] <= Len(log)
<1>1. Len(log) \in Nat
  BY DEF Bus!BusTypeOK
<1> QED BY <1>1 DEF Bus!BusTypeOK, Bus!Drop, Bus!Detached

LEMMA MoveStep ==
  ASSUME Bus!BusTypeOK(Event), NEW rx \in Receivers, NEW i \in DOMAIN log, Bus!MoveTo(rx, i)
  PROVE  /\ cursor' \in [Receivers -> Nat \cup {Bus!Detached}]
         /\ \A s \in Receivers : cursor'[s] <= Len(log)
  BY DEF Bus!BusTypeOK, Bus!MoveTo, Bus!Detached

LEMMA StayStep ==
  ASSUME Bus!BusTypeOK(Event), UNCHANGED cursor
  PROVE  /\ cursor' \in [Receivers -> Nat \cup {Bus!Detached}]
         /\ \A s \in Receivers : cursor'[s] <= Len(log)
  BY DEF Bus!BusTypeOK

LEMMA TypeInit == Init => TypeOK /\ PhaseOK
  BY GatewayAssumption
  DEF Init, TypeOK, PhaseOK, Bus!BusInit, Bus!BusTypeOK, Bus!Detached, Result, Nothing, Calls

LEMMA AnswersAreTyped ==
  \A cmd \in Command, a \in Addrs : \A outcome \in Outcomes(a) : AnswerTo(cmd, outcome) \in Answer
  BY DEF Command, Answer, AnswerTo, Outcomes

LEMMA OutcomesAreTyped == \A ans \in Answer : Outcome(ans) \in Result
  BY DEF Answer, Outcome, Result, Ok, WorkerError, DecodeError

Less == {pair \in Nat \X Nat : pair[1] < pair[2]}

LEMMA FirstIsMember ==
  ASSUME NEW S, S \subseteq Nat, S # {}
  PROVE  First(S) \in S
<1>1. IsWellFoundedOn(Less, Nat)
  BY NatLessThanWellFounded DEF OpToRel, Less
<1>2. PICK m \in S : \A b \in S : ~ (<<b, m>> \in Less)
  BY <1>1, WFMin, Zenon
<1>3. \A b \in S : m <= b
  <2> SUFFICES ASSUME NEW b \in S, b < m PROVE FALSE
    OBVIOUS
  <2>1. <<b, m>> \in Nat \X Nat /\ <<b, m>>[1] = b /\ <<b, m>>[2] = m
    OBVIOUS
  <2>2. <<b, m>> \in Less
    BY <2>1, Zenon DEF Less
  <2> QED BY <1>2, <2>2
<1> QED BY <1>3 DEF First

-------------------------------------------------------------------------------
(***************************************************************************)
(* Types.  Each lemma is one action: the bus by the lemmas above, the rest  *)
(* by the assignments of the action.                                        *)
(***************************************************************************)
TypeIInv == TypeOK /\ PhaseOK

LEMMA ConnectTypes == ASSUME TypeIInv, NEW a \in Addrs, Connect(a) PROVE TypeIInv'
<1>1. Bus!BusTypeOK(Event)'
  BY SubscribeStep, BusStep, ReceiversExist, EventsAreTyped
  DEF TypeIInv, TypeOK, Connect, Bus!Publish
<1> QED BY <1>1 DEF TypeIInv, TypeOK, PhaseOK, Connect, callVars

LEMMA SocketReadsTypes == ASSUME TypeIInv, NEW a \in Addrs, SocketReads(a) PROVE TypeIInv'
<1>1. Head(outbox[a]) \in Answer /\ Tail(outbox[a]) \in Seq(Answer)
  BY DEF TypeIInv, TypeOK, SocketReads
<1>2. Bus!BusTypeOK(Event)'
  BY <1>1, StayStep, BusStep, EventsAreTyped
  DEF TypeIInv, TypeOK, SocketReads, Bus!Publish
<1> QED BY <1>1, <1>2 DEF TypeIInv, TypeOK, PhaseOK, SocketReads, callVars

LEMMA SocketReadErrorTypes ==
  ASSUME TypeIInv, NEW a \in Addrs, SocketReadError(a) PROVE TypeIInv'
<1>1. Bus!BusTypeOK(Event)'
  BY DropStep, BusStep, EventsAreTyped
  DEF TypeIInv, TypeOK, SocketReadError, Bus!Publish
<1> QED BY <1>1 DEF TypeIInv, TypeOK, PhaseOK, SocketReadError, callVars

LEMMA SocketWritesTypes == ASSUME TypeIInv, NEW a \in Addrs, SocketWrites(a) PROVE TypeIInv'
<1>1. PICK i \in OfType("SendNewPacket", a) :
        /\ \/ Bus!MoveTo(SockRx(a), i)
           \/ Bus!Drop({SockRx(a)})
        /\ \/ inbox' = [inbox EXCEPT ![a] = @ \cup {log[i].packet}]
           \/ inbox' = inbox
        /\ \/ UNCHANGED <<sock, outbox>>
           \/ /\ sock' = [sock EXCEPT ![a] = "closed"]
              /\ outbox' = [outbox EXCEPT ![a] = <<>>]
  BY DEF SocketWrites
<1>2. i \in DOMAIN log /\ log[i].packet \in Command
  BY EventFields DEF OfType, TypeIInv, TypeOK, Bus!BusTypeOK
<1>3. Bus!BusTypeOK(Event)'
  BY <1>1, <1>2, MoveStep, DropStep, BusStep, ReceiversExist
  DEF TypeIInv, TypeOK, SocketWrites
<1>4. /\ inbox \in [Addrs -> SUBSET Command]
      /\ sock \in [Addrs -> {"absent", "open", "closed"}]
      /\ outbox \in [Addrs -> Seq(Answer)]
  BY DEF TypeIInv, TypeOK
<1>5. inbox' \in [Addrs -> SUBSET Command]
  <2>1. inbox[a] \cup {log[i].packet} \in SUBSET Command
    BY <1>2, <1>4
  <2> QED BY <1>1, <1>4, <2>1
<1>6. /\ sock' \in [Addrs -> {"absent", "open", "closed"}]
      /\ outbox' \in [Addrs -> Seq(Answer)]
  <2>1. <<>> \in Seq(Answer)
    OBVIOUS
  <2> QED BY <1>1, <1>4, <2>1
<1>7. UNCHANGED <<workers, watcher, callVars, up>>
  BY DEF SocketWrites
<1> QED BY <1>3, <1>5, <1>6, <1>7 DEF TypeIInv, TypeOK, PhaseOK, callVars

LEMMA WorkerAnswersTypes == ASSUME TypeIInv, NEW a \in Addrs, WorkerAnswers(a) PROVE TypeIInv'
<1>1. Bus!BusTypeOK(Event)'
  BY StayStep, BusStep DEF TypeIInv, TypeOK, WorkerAnswers, busVars
<1> QED BY <1>1, AnswersAreTyped
        DEF TypeIInv, TypeOK, PhaseOK, WorkerAnswers, callVars, busVars

LEMMA WorkerDiesTypes == ASSUME TypeIInv, NEW a \in Addrs, WorkerDies(a) PROVE TypeIInv'
<1>1. Bus!BusTypeOK(Event)'
  BY StayStep, BusStep DEF TypeIInv, TypeOK, WorkerDies, busVars
<1> QED BY <1>1 DEF TypeIInv, TypeOK, PhaseOK, WorkerDies, callVars, busVars

LEMMA GenerateStartTypes ==
  ASSUME TypeIInv, NEW r \in Requests, GenerateStart(r) PROVE TypeIInv'
<1>1. r \in Calls /\ r # Loader
  BY GatewayAssumption DEF Calls
<1>2. Bus!BusTypeOK(Event)'
  BY <1>1, SubscribeStep, BusStep, ReceiversExist
  DEF TypeIInv, TypeOK, GenerateStart, Begin
<1> QED BY <1>1, <1>2 DEF TypeIInv, TypeOK, PhaseOK, GenerateStart, Begin, workerVars

LEMMA GeneratePickTypes ==
  ASSUME TypeIInv, NEW r \in Requests, GeneratePick(r) PROVE TypeIInv'
<1>1. r \in Calls /\ r # Loader
  BY GatewayAssumption DEF Calls
<1>2. Bus!BusTypeOK(Event)'
  BY DropStep, StayStep, BusStep DEF TypeIInv, TypeOK, GeneratePick
<1>3. workers # {} => First(workers) \in Addrs
  BY FirstIsMember, GatewayAssumption DEF TypeIInv, TypeOK
<1>4. NoAvailableWorkers \in Result
  BY DEF Result
<1>5. UNCHANGED <<workers, watcher, reqId, sock, up, inbox, outbox>>
  BY DEF GeneratePick, workerVars
<1>6. CASE workers = {}
  <2>1. /\ pc' = [pc EXCEPT ![r] = "done"]
        /\ result' = [result EXCEPT ![r] = NoAvailableWorkers]
        /\ target' = target
    BY <1>6 DEF GeneratePick
  <2> QED BY <1>1, <1>2, <1>4, <1>5, <2>1 DEF TypeIInv, TypeOK, PhaseOK
<1>7. CASE workers # {}
  <2>1. /\ pc' = [pc EXCEPT ![r] = "picked"]
        /\ target' = [target EXCEPT ![r] = First(workers)]
        /\ result' = result
        /\ pc[r] = "subscribed"
    BY <1>7 DEF GeneratePick
  <2> QED BY <1>1, <1>2, <1>3, <1>5, <1>7, <2>1 DEF TypeIInv, TypeOK, PhaseOK
<1> QED BY <1>6, <1>7

LEMMA LoadStartTypes == ASSUME TypeIInv, LoadStart PROVE TypeIInv'
<1>1. Loader \in Calls
  BY DEF Calls
<1>2. Bus!BusTypeOK(Event)'
  BY <1>1, SubscribeStep, BusStep, ReceiversExist
  DEF TypeIInv, TypeOK, LoadStart, Begin
<1> QED BY <1>1, <1>2 DEF TypeIInv, TypeOK, PhaseOK, LoadStart, Begin, workerVars

LEMMA SendCommandTypes == ASSUME TypeIInv, NEW c \in Calls, SendCommand(c) PROVE TypeIInv'
<1>1. target[c] \in Addrs /\ CommandOf(c) \in Command
  BY DEF TypeIInv, PhaseOK, SendCommand, CommandOf, Command, Kind
<1>2. Bus!BusTypeOK(Event)'
  BY <1>1, StayStep, BusStep, EventsAreTyped
  DEF TypeIInv, TypeOK, SendCommand, Bus!Publish
<1> QED BY <1>1, <1>2 DEF TypeIInv, TypeOK, PhaseOK, SendCommand, workerVars

LEMMA ReceiveAnswerTypes == ASSUME TypeIInv, NEW c \in Calls, ReceiveAnswer(c) PROVE TypeIInv'
<1>1. PICK i \in Endings(c) : result' = [result EXCEPT ![c] = Outcome(log[i].packet)]
  BY DEF ReceiveAnswer
<1>2. log[i].packet \in Answer
  BY EventFields DEF Endings, OfType, TypeIInv, TypeOK, Bus!BusTypeOK
<1>3. Bus!BusTypeOK(Event)'
  BY DropStep, BusStep DEF TypeIInv, TypeOK, ReceiveAnswer
<1> QED BY <1>1, <1>2, <1>3, OutcomesAreTyped
        DEF TypeIInv, TypeOK, PhaseOK, ReceiveAnswer, workerVars

LEMMA ClientHangsUpTypes ==
  ASSUME TypeIInv, NEW r \in Requests, ClientHangsUp(r) PROVE TypeIInv'
<1>1. r \in Calls /\ r # Loader
  BY GatewayAssumption DEF Calls
<1>2. Bus!BusTypeOK(Event)'
  BY DropStep, BusStep DEF TypeIInv, TypeOK, ClientHangsUp
<1> QED BY <1>1, <1>2 DEF TypeIInv, TypeOK, PhaseOK, ClientHangsUp, workerVars

LEMMA WatcherTypes ==
  ASSUME TypeIInv,
         \/ \E rx \in {ConnRx, DiscRx} : WatcherSubscribes(rx) \/ WatcherSkips(rx)
         \/ WatcherSeesConnect \/ WatcherSeesDisconnect \/ WatcherRegisters
  PROVE  TypeIInv'
<1>1. CASE \E rx \in {ConnRx, DiscRx} : WatcherSubscribes(rx)
  <2>1. Bus!BusTypeOK(Event)'
    BY <1>1, SubscribeStep, BusStep, ReceiversExist DEF TypeIInv, TypeOK, WatcherSubscribes
  <2> QED BY <1>1, <2>1 DEF TypeIInv, TypeOK, PhaseOK, WatcherSubscribes, callVars, workerVars
<1>2. CASE \E rx \in {ConnRx, DiscRx} : WatcherSkips(rx)
  <2>1. Bus!BusTypeOK(Event)'
    BY <1>2, DropStep, BusStep DEF TypeIInv, TypeOK, WatcherSkips
  <2> QED BY <1>2, <2>1 DEF TypeIInv, TypeOK, PhaseOK, WatcherSkips, callVars, workerVars
<1>3. CASE WatcherSeesConnect
  <2>a. Bus!Pending(ConnRx) \subseteq DOMAIN log
    BY DEF Bus!Pending, TypeIInv, TypeOK, Bus!BusTypeOK
  <2>1. PICK i \in DOMAIN log : watcher' = [pc |-> "load", addr |-> log[i].addr]
    BY <1>3, <2>a DEF WatcherSeesConnect
  <2>2. log[i].addr \in Addrs
    BY EventFields DEF TypeIInv, TypeOK, Bus!BusTypeOK
  <2>3. Bus!BusTypeOK(Event)'
    BY <1>3, DropStep, BusStep DEF TypeIInv, TypeOK, WatcherSeesConnect
  <2> QED BY <1>3, <2>1, <2>2, <2>3
          DEF TypeIInv, TypeOK, PhaseOK, WatcherSeesConnect, callVars, workerVars
<1>4. CASE WatcherSeesDisconnect
  <2>1. Bus!BusTypeOK(Event)'
    BY <1>4, DropStep, BusStep DEF TypeIInv, TypeOK, WatcherSeesDisconnect
  <2>2. workers' \subseteq Addrs
    BY <1>4 DEF TypeIInv, TypeOK, WatcherSeesDisconnect
  <2> QED BY <1>4, <2>1, <2>2
          DEF TypeIInv, TypeOK, PhaseOK, WatcherSeesDisconnect, callVars, workerVars
<1>5. CASE WatcherRegisters
  <2>1. Bus!BusTypeOK(Event)'
    BY <1>5, StayStep, BusStep DEF TypeIInv, TypeOK, WatcherRegisters, busVars
  <2> QED BY <1>5, <2>1, GatewayAssumption
          DEF TypeIInv, TypeOK, PhaseOK, WatcherRegisters, workerVars, busVars, Calls
<1> QED BY <1>1, <1>2, <1>3, <1>4, <1>5

LEMMA NextTypes == TypeIInv /\ [Next]_vars => TypeIInv'
<1> SUFFICES ASSUME TypeIInv, [Next]_vars PROVE TypeIInv'
  OBVIOUS
<1>1. ASSUME NEW a \in Addrs, Connect(a) PROVE TypeIInv'
  BY <1>1, ConnectTypes
<1>2. ASSUME NEW a \in Addrs, SocketStep(a) PROVE TypeIInv'
  BY <1>2, SocketReadsTypes, SocketReadErrorTypes, SocketWritesTypes DEF SocketStep
<1>3. ASSUME NEW a \in Addrs, WorkerAnswers(a) \/ WorkerDies(a) PROVE TypeIInv'
  BY <1>3, WorkerAnswersTypes, WorkerDiesTypes
<1>4. ASSUME NEW r \in Requests, GenerateStart(r) \/ ClientHangsUp(r) PROVE TypeIInv'
  BY <1>4, GenerateStartTypes, ClientHangsUpTypes
<1>5. ASSUME NEW r \in Requests, CallStep(r) PROVE TypeIInv'
  BY <1>5, GeneratePickTypes, SendCommandTypes, ReceiveAnswerTypes DEF CallStep, Calls
<1>6. CASE WatcherStep
  BY <1>6, WatcherTypes, LoadStartTypes, SendCommandTypes, ReceiveAnswerTypes
  DEF WatcherStep, Calls
<1>7. CASE UNCHANGED vars
  BY <1>7 DEF vars, busVars, callVars, workerVars, TypeIInv, TypeOK, PhaseOK, Bus!BusTypeOK
<1> QED BY <1>1, <1>2, <1>3, <1>4, <1>5, <1>6, <1>7 DEF Next

-------------------------------------------------------------------------------
(***************************************************************************)
(* Sources.  A request that was sent keeps its id and its worker, so what   *)
(* holds of a message goes on holding; a new message copies the id, and     *)
(* stays with the worker, of one that is there.                             *)
(***************************************************************************)
SentStays ==
  \A r \in Requests :
    Sent(r) => Sent(r)' /\ reqId'[r] = reqId[r] /\ target'[r] = target[r]

LEMMA SourceStays ==
  ASSUME SentStays
  PROVE  \A a, kind, id, r : Source(a, kind, id, r) => Source(a, kind, id, r)'
  BY DEF SentStays, Source, Sent

LEMMA EventSourceStays ==
  ASSUME SentStays
  PROVE  \A e : EventSourced(e) => EventSourced(e)'
  BY DEF SentStays, EventSourced, Source, Sent

LEMMA LogSources ==
  ASSUME TypeOK, SourcesOK, SentStays,
         log' = log \/ \E e \in Event : log' = Append(log, e) /\ EventSourced(e)'
  PROVE  (\A i \in DOMAIN log : EventSourced(log[i]))'
<1>1. log \in Seq(Event)
  BY DEF TypeOK, Bus!BusTypeOK
<1>2. ASSUME NEW e, NEW i \in DOMAIN log, e = log[i] PROVE EventSourced(e)'
  <2>1. EventSourced(e)
    BY <1>2 DEF SourcesOK
  <2> QED BY <2>1, EventSourceStays
<1>3. ASSUME NEW i \in DOMAIN log', NEW e, e = log'[i] PROVE EventSourced(e)'
  <2>1. (i \in DOMAIN log /\ e = log[i]) \/ EventSourced(e)'
    BY <1>1, <1>3
  <2> QED BY <2>1, <1>2
<1> QED BY <1>3 DEF EventSourced, Source, Sent

(* Messages outside the log: a worker's inbox and outbox.                   *)
LEMMA WorkerSources ==
  ASSUME SourcesOK, SentStays,
         \A a \in Addrs : \A cmd \in inbox'[a] :
           cmd \in inbox[a] \/ Source(a, cmd.kind, cmd.id, cmd.prompt),
         \A a \in Addrs : \A i \in DOMAIN outbox'[a] : \E ans :
           /\ outbox'[a][i] = ans
           /\ \/ \E j \in DOMAIN outbox[a] : ans = outbox[a][j]
              \/ Source(a, ans.kind, ans.id, ans.content)
  PROVE  /\ (\A a \in Addrs : \A cmd \in inbox[a] : Source(a, cmd.kind, cmd.id, cmd.prompt))'
         /\ (\A a \in Addrs : \A i \in DOMAIN outbox[a] :
               Source(a, outbox[a][i].kind, outbox[a][i].id, outbox[a][i].content))'
<1>1. ASSUME NEW a \in Addrs, NEW cmd \in inbox'[a]
      PROVE  Source(a, cmd.kind, cmd.id, cmd.prompt)'
  <2>1. Source(a, cmd.kind, cmd.id, cmd.prompt)
    BY <1>1 DEF SourcesOK
  <2> QED BY <2>1, SourceStays
<1>2. ASSUME NEW a \in Addrs, NEW i \in DOMAIN outbox'[a], NEW ans, ans = outbox'[a][i]
      PROVE  Source(a, ans.kind, ans.id, ans.content)'
  <2>1. Source(a, ans.kind, ans.id, ans.content)
    BY <1>2 DEF SourcesOK
  <2> QED BY <2>1, SourceStays
<1>3. (\A a \in Addrs : \A cmd \in inbox[a] : Source(a, cmd.kind, cmd.id, cmd.prompt))'
  BY <1>1
<1>4. (\A a \in Addrs : \A i \in DOMAIN outbox[a] :
        Source(a, outbox[a][i].kind, outbox[a][i].id, outbox[a][i].content))'
  BY <1>2 DEF Source, Sent
<1> QED BY <1>3, <1>4

LEMMA AnnouncementsAreSourced ==
  \A a \in Addrs : EventSourced(Connected(a)) /\ EventSourced(Disconnected(a))
  BY DEF EventSourced, Connected, Disconnected

LEMMA ReceivedIsSourced ==
  ASSUME NEW a, NEW ans, Source(a, ans.kind, ans.id, ans.content)
  PROVE  EventSourced(Received(a, ans))
  BY DEF EventSourced, Received

(* The steps of sockets, workers and the watcher, which leave calls alone.  *)
LEMMA CallsAloneStep ==
  ASSUME SourcesOK, ResultsOK, UNCHANGED callVars
  PROVE  SentStays /\ ResultsOK'
  BY DEF callVars, SentStays, ResultsOK, Source, Sent

LEMMA ConnectSources ==
  ASSUME IInv, NEW a \in Addrs, Connect(a) PROVE SourcesOK' /\ ResultsOK'
<1>1. SentStays /\ ResultsOK'
  BY CallsAloneStep DEF Connect, IInv
<1>2. \E e \in Event : log' = Append(log, e) /\ EventSourced(e)'
  BY <1>1, AnnouncementsAreSourced, EventSourceStays, EventsAreTyped DEF Connect, Bus!Publish
<1>3. UNCHANGED <<inbox, outbox>>
  BY DEF Connect
<1> QED BY <1>1, <1>2, <1>3, LogSources, WorkerSources DEF IInv, SourcesOK

LEMMA SocketReadsSources ==
  ASSUME IInv, NEW a \in Addrs, SocketReads(a) PROVE SourcesOK' /\ ResultsOK'
<1>1. SentStays /\ ResultsOK'
  BY CallsAloneStep DEF SocketReads, IInv
<1>2. outbox[a] \in Seq(Answer) /\ outbox[a] # <<>> /\ outbox \in [Addrs -> Seq(Answer)]
  BY DEF SocketReads, IInv, TypeOK
<1>3. PICK ans \in Answer : ans = Head(outbox[a]) /\ 1 \in DOMAIN outbox[a] /\ ans = outbox[a][1]
  BY <1>2
<1>4. EventSourced(Received(a, ans))
  BY <1>3, ReceivedIsSourced DEF IInv, SourcesOK
<1>5. \E e \in Event : log' = Append(log, e) /\ EventSourced(e)'
  BY <1>1, <1>3, <1>4, EventSourceStays, EventsAreTyped DEF SocketReads, Bus!Publish
<1>6. \A b \in Addrs : \A i \in DOMAIN outbox'[b] : \E j \in DOMAIN outbox[b] :
        outbox'[b][i] = outbox[b][j]
  <2> TAKE b \in Addrs
  <2> TAKE i \in DOMAIN outbox'[b]
  <2>1. CASE b = a
    <3>1. outbox'[a] = Tail(outbox[a])
      BY <1>2 DEF SocketReads
    <3>2. i + 1 \in DOMAIN outbox[a] /\ outbox'[a][i] = outbox[a][i + 1]
      BY <1>2, <2>1, <3>1
    <3> QED BY <2>1, <3>2
  <2>2. CASE b # a
    BY <1>2, <2>2 DEF SocketReads
  <2> QED BY <2>1, <2>2
<1>7. UNCHANGED inbox
  BY DEF SocketReads
<1> QED BY <1>1, <1>5, <1>6, <1>7, LogSources, WorkerSources DEF IInv, SourcesOK

LEMMA SocketReadErrorSources ==
  ASSUME IInv, NEW a \in Addrs, SocketReadError(a) PROVE SourcesOK' /\ ResultsOK'
<1>1. SentStays /\ ResultsOK'
  BY CallsAloneStep DEF SocketReadError, IInv
<1>2. \E e \in Event : log' = Append(log, e) /\ EventSourced(e)'
  BY <1>1, AnnouncementsAreSourced, EventSourceStays, EventsAreTyped
  DEF SocketReadError, Bus!Publish
<1>3. \A b \in Addrs : outbox'[b] = outbox[b] \/ outbox'[b] = <<>>
  BY DEF SocketReadError, IInv, TypeOK
<1>4. UNCHANGED inbox
  BY DEF SocketReadError
<1> QED BY <1>1, <1>2, <1>3, <1>4, LogSources, WorkerSources DEF IInv, SourcesOK

LEMMA SocketWritesSources ==
  ASSUME IInv, NEW a \in Addrs, SocketWrites(a) PROVE SourcesOK' /\ ResultsOK'
<1>1. SentStays /\ ResultsOK'
  BY CallsAloneStep DEF SocketWrites, IInv
<1>2. PICK i \in OfType("SendNewPacket", a) :
        /\ \/ inbox' = [inbox EXCEPT ![a] = @ \cup {log[i].packet}]
           \/ inbox' = inbox
        /\ \/ UNCHANGED outbox
           \/ outbox' = [outbox EXCEPT ![a] = <<>>]
  BY DEF SocketWrites
<1>3. inbox \in [Addrs -> SUBSET Command] /\ outbox \in [Addrs -> Seq(Answer)]
  BY DEF IInv, TypeOK
<1>4. EventSourced(log[i]) /\ log[i].type = "SendNewPacket" /\ log[i].addr = a
  BY DEF IInv, SourcesOK, OfType
<1>5. \A b \in Addrs : \A cmd \in inbox'[b] :
        cmd \in inbox[b] \/ Source(b, cmd.kind, cmd.id, cmd.prompt)
  <2>1. \A b \in Addrs : \A cmd \in inbox'[b] : cmd \in inbox[b] \/ (b = a /\ cmd = log[i].packet)
    BY <1>2, <1>3
  <2> QED BY <1>4, <2>1 DEF EventSourced
<1>6. \A b \in Addrs : outbox'[b] = outbox[b] \/ outbox'[b] = <<>>
  BY <1>2, <1>3
<1>7. log' = log
  BY DEF SocketWrites
<1> QED BY <1>1, <1>5, <1>6, <1>7, LogSources, WorkerSources DEF IInv, SourcesOK

LEMMA WorkerAnswersSources ==
  ASSUME IInv, NEW a \in Addrs, WorkerAnswers(a) PROVE SourcesOK' /\ ResultsOK'
<1>1. SentStays /\ ResultsOK'
  BY CallsAloneStep DEF WorkerAnswers, IInv
<1>2. PICK cmd \in inbox[a], outcome \in Outcomes(a) :
        /\ inbox' = [inbox EXCEPT ![a] = @ \ {cmd}]
        /\ outbox' = [outbox EXCEPT ![a] = Append(@, AnswerTo(cmd, outcome))]
  BY DEF WorkerAnswers
<1>3. inbox \in [Addrs -> SUBSET Command] /\ outbox \in [Addrs -> Seq(Answer)]
  BY DEF IInv, TypeOK
<1>4. PICK ans : ans = AnswerTo(cmd, outcome)
  OBVIOUS
<1>5. Source(a, ans.kind, ans.id, ans.content)
  <2>1. Source(a, cmd.kind, cmd.id, cmd.prompt)
    BY DEF IInv, SourcesOK
  <2>2. /\ ans.kind = "Undecodable" \/ ans.kind = cmd.kind
        /\ ans.id = cmd.id /\ ans.content = cmd.prompt
    BY <1>4 DEF AnswerTo
  <2> QED BY <2>1, <2>2 DEF Source
<1>6. ans \in Answer
  BY <1>3, <1>4, AnswersAreTyped
<1>7. \A b \in Addrs : \A i \in DOMAIN outbox'[b] :
        (i \in DOMAIN outbox[b] /\ outbox'[b][i] = outbox[b][i]) \/ (b = a /\ outbox'[b][i] = ans)
  BY <1>2, <1>3, <1>4, <1>6
<1>8. \A b \in Addrs : \A c \in inbox'[b] : c \in inbox[b]
  BY <1>2, <1>3
<1>9. log' = log
  BY DEF WorkerAnswers, busVars
<1> QED BY <1>1, <1>5, <1>7, <1>8, <1>9, LogSources, WorkerSources DEF IInv, SourcesOK

LEMMA WorkerDiesSources ==
  ASSUME IInv, NEW a \in Addrs, WorkerDies(a) PROVE SourcesOK' /\ ResultsOK'
<1>1. SentStays /\ ResultsOK'
  BY CallsAloneStep DEF WorkerDies, IInv
<1>2. \A b \in Addrs : inbox'[b] = inbox[b] \/ inbox'[b] = {}
  BY DEF WorkerDies, IInv, TypeOK
<1>3. UNCHANGED <<log, outbox>>
  BY DEF WorkerDies, busVars
<1> QED BY <1>1, <1>2, <1>3, LogSources, WorkerSources DEF IInv, SourcesOK

(* The steps of calls: no message moves, except the command that is sent.   *)
LEMMA MessagesAloneStep ==
  ASSUME IInv, SentStays, UNCHANGED <<log, inbox, outbox>>
  PROVE  SourcesOK'
  BY LogSources, WorkerSources DEF IInv, SourcesOK

LEMMA CallTypes ==
  ASSUME TypeOK
  PROVE  /\ pc \in [Calls -> {"idle", "subscribed", "picked", "waiting", "done", "dropped"}]
         /\ reqId \in [Calls -> Ids \cup {None}]
         /\ target \in [Calls -> Addrs \cup {None}]
         /\ result \in [Calls -> Result]
         /\ Requests \subseteq Calls /\ Loader \in Calls /\ Loader \notin Requests
  BY GatewayAssumption DEF TypeOK, Calls

(* A step that gives no request a result keeps the results right.           *)
LEMMA ResultsStay ==
  ASSUME ResultsOK, SentStays,
         \A r \in Requests : result'[r].tag = "Ok" => result'[r] = result[r] /\ pc'[r] = pc[r]
  PROVE  ResultsOK'
  BY DEF ResultsOK, SentStays, Source, Sent

LEMMA GenerateStartSources ==
  ASSUME IInv, NEW r \in Requests, GenerateStart(r) PROVE SourcesOK' /\ ResultsOK'
<1>1. PICK id : reqId' = [reqId EXCEPT ![r] = id]
  BY DEF GenerateStart, Begin
<1>2. SentStays
  BY <1>1, CallTypes DEF GenerateStart, SentStays, Sent, IInv
<1>3. ResultsOK'
  BY <1>2, ResultsStay, CallTypes DEF GenerateStart, IInv, ResultsOK
<1> QED BY <1>2, <1>3, MessagesAloneStep DEF GenerateStart, workerVars

LEMMA GeneratePickSources ==
  ASSUME IInv, NEW r \in Requests, GeneratePick(r) PROVE SourcesOK' /\ ResultsOK'
<1>1. pc[r] = "subscribed" /\ UNCHANGED <<log, reqId, inbox, outbox>>
  BY DEF GeneratePick, workerVars
<1>2. /\ \A s \in Requests \ {r} : pc'[s] = pc[s] /\ target'[s] = target[s] /\ result'[s] = result[s]
      /\ result'[r] = result[r] \/ result'[r] = NoAvailableWorkers
  BY CallTypes DEF GeneratePick, IInv
<1>3. SentStays
  BY <1>1, <1>2 DEF SentStays, Sent
<1>4. result[r].tag # "Ok" /\ NoAvailableWorkers.tag # "Ok"
  BY <1>1 DEF IInv, ResultsOK, NoAvailableWorkers
<1>5. ResultsOK'
  BY <1>2, <1>3, <1>4, ResultsStay DEF IInv
<1> QED BY <1>1, <1>3, <1>5, MessagesAloneStep

LEMMA ClientHangsUpSources ==
  ASSUME IInv, NEW r \in Requests, ClientHangsUp(r) PROVE SourcesOK' /\ ResultsOK'
<1>1. SentStays
  BY CallTypes DEF ClientHangsUp, SentStays, Sent, IInv
<1>2. ResultsOK'
  BY <1>1, ResultsStay, CallTypes DEF ClientHangsUp, IInv, ResultsOK
<1> QED BY <1>1, <1>2, MessagesAloneStep DEF ClientHangsUp, workerVars

LEMMA LoadStartSources == ASSUME IInv, LoadStart PROVE SourcesOK' /\ ResultsOK'
<1>1. PICK id : reqId' = [reqId EXCEPT ![Loader] = id]
  BY DEF LoadStart, Begin
<1>2. SentStays
  BY <1>1, CallTypes DEF LoadStart, SentStays, Sent, IInv
<1>3. ResultsOK'
  BY <1>2, ResultsStay, CallTypes DEF LoadStart, IInv, ResultsOK
<1> QED BY <1>2, <1>3, MessagesAloneStep DEF LoadStart, workerVars

LEMMA SendCommandSources ==
  ASSUME IInv, NEW c \in Calls, SendCommand(c) PROVE SourcesOK' /\ ResultsOK'
<1>1. /\ pc[c] = "picked" /\ pc' = [pc EXCEPT ![c] = "waiting"]
      /\ UNCHANGED <<reqId, target, result, inbox, outbox>>
  BY DEF SendCommand, workerVars
<1>2. SentStays
  BY <1>1, CallTypes DEF SentStays, Sent, IInv
<1>3. ResultsOK'
  BY <1>1, <1>2, ResultsStay, CallTypes DEF IInv, ResultsOK
<1>4. target[c] \in Addrs /\ CommandOf(c) \in Command
  BY <1>1 DEF IInv, PhaseOK, CommandOf, Command, Kind
<1>5. PICK e \in Event : e = Send(target[c], CommandOf(c)) /\ log' = Append(log, e)
  BY <1>4, EventsAreTyped DEF SendCommand, Bus!Publish
<1>6. EventSourced(e)'
  <2>1. /\ e.type = "SendNewPacket" /\ e.addr = target[c]
        /\ e.packet.kind = Kind(c) /\ e.packet.id = reqId[c] /\ e.packet.prompt = c
    BY <1>5 DEF Send, CommandOf
  <2>2. Kind(c) = "Generate" => c \in Requests
    BY DEF Kind, Calls
  <2>3. pc'[c] = "waiting" /\ reqId'[c] = reqId[c] /\ target'[c] = target[c]
    BY <1>1, CallTypes DEF IInv
  <2> QED BY <2>1, <2>2, <2>3 DEF EventSourced, Source, Sent
<1> QED BY <1>1, <1>2, <1>3, <1>5, <1>6, LogSources, WorkerSources DEF IInv, SourcesOK

(* The step the property is about: a success is accepted only for its id.   *)
LEMMA ReceiveAnswerSources ==
  ASSUME IInv, NEW c \in Calls, ReceiveAnswer(c) PROVE SourcesOK' /\ ResultsOK'
<1>1. /\ pc[c] = "waiting" /\ pc' = [pc EXCEPT ![c] = "done"]
      /\ UNCHANGED <<log, reqId, target, inbox, outbox>>
  BY DEF ReceiveAnswer, workerVars
<1>2. PICK i \in Endings(c) : result' = [result EXCEPT ![c] = Outcome(log[i].packet)]
  BY DEF ReceiveAnswer
<1>3. SentStays
  BY <1>1, CallTypes DEF SentStays, Sent, IInv
<1>4. ASSUME c \in Requests, result'[c].tag = "Ok"
      PROVE  Source(target[c], "Generate", reqId[c], result'[c].content)
  <2>1. result'[c] = Outcome(log[i].packet)
    BY <1>2, CallTypes DEF IInv
  <2>2. /\ log[i].packet.kind # "Undecodable" /\ log[i].packet.ok
        /\ result'[c].content = log[i].packet.content
    BY <2>1, <1>4 DEF Outcome, DecodeError, WorkerError, Ok
  <2>3. log[i].packet.kind = "Generate" /\ log[i].packet.id = reqId[c]
    BY <1>4, <2>2, GatewayAssumption DEF Endings, Ends, Kind
  <2>4. i \in DOMAIN log /\ log[i].type = "NewPacketReceived" /\ log[i].addr = target[c]
    BY DEF Endings, OfType
  <2> QED BY <2>2, <2>3, <2>4 DEF IInv, SourcesOK, EventSourced
<1>5. ASSUME NEW r \in Requests, result'[r].tag = "Ok", NEW other, other = result'[r].content
      PROVE  /\ pc'[r] = "done"
             /\ other \in Requests /\ pc'[other] \in {"waiting", "done", "dropped"}
             /\ reqId'[other] = reqId'[r] /\ target'[other] = target'[r]
  <2>1. CASE r = c
    <3>1. pc'[c] = "done"
      BY <1>1, CallTypes DEF IInv
    <3> QED BY <2>1, <3>1, <1>1, <1>3, <1>4, <1>5 DEF Source, SentStays, Sent
  <2>2. CASE r # c
    <3>1. result'[r] = result[r] /\ pc'[r] = pc[r]
      BY <2>2, <1>1, <1>2, CallTypes DEF IInv
    <3> QED BY <3>1, <1>1, <1>3, <1>5 DEF IInv, ResultsOK, Source, SentStays, Sent
  <2> QED BY <2>1, <2>2
<1>6. ResultsOK'
  BY <1>5 DEF ResultsOK, Source, Sent
<1> QED BY <1>1, <1>3, <1>6, MessagesAloneStep

LEMMA WatcherSources ==
  ASSUME IInv,
         \/ \E rx \in {ConnRx, DiscRx} : WatcherSubscribes(rx) \/ WatcherSkips(rx)
         \/ WatcherSeesConnect \/ WatcherSeesDisconnect \/ WatcherRegisters
  PROVE  SourcesOK' /\ ResultsOK'
<1>1. /\ UNCHANGED <<log, reqId, target, result, inbox, outbox>>
      /\ pc' = pc \/ pc' = [pc EXCEPT ![Loader] = "idle"]
  BY DEF WatcherSubscribes, WatcherSkips, WatcherSeesConnect, WatcherSeesDisconnect,
         WatcherRegisters, callVars, busVars, workerVars
<1>2. \A r \in Requests : pc'[r] = pc[r]
  BY <1>1, CallTypes DEF IInv
<1>3. SentStays
  BY <1>1, <1>2 DEF SentStays, Sent
<1>4. ResultsOK'
  BY <1>1, <1>2, <1>3, ResultsStay DEF IInv
<1> QED BY <1>1, <1>3, <1>4, MessagesAloneStep

-------------------------------------------------------------------------------
LEMMA InitIInv == Init => IInv
<1>1. Init => SourcesOK /\ ResultsOK
  BY GatewayAssumption
  DEF Init, SourcesOK, ResultsOK, Bus!BusInit, EventSourced, Nothing, Calls
<1> QED BY <1>1, TypeInit DEF IInv

LEMMA NextIInv == IInv /\ [Next]_vars => IInv'
<1> SUFFICES ASSUME IInv, [Next]_vars PROVE SourcesOK' /\ ResultsOK'
  BY NextTypes DEF IInv, TypeIInv
<1>1. ASSUME NEW a \in Addrs, Connect(a) \/ SocketStep(a) \/ WorkerAnswers(a) \/ WorkerDies(a)
      PROVE  SourcesOK' /\ ResultsOK'
  BY <1>1, ConnectSources, SocketReadsSources, SocketReadErrorSources, SocketWritesSources,
     WorkerAnswersSources, WorkerDiesSources DEF SocketStep
<1>2. ASSUME NEW r \in Requests, GenerateStart(r) \/ CallStep(r) \/ ClientHangsUp(r)
      PROVE  SourcesOK' /\ ResultsOK'
  BY <1>2, GenerateStartSources, GeneratePickSources, SendCommandSources,
     ReceiveAnswerSources, ClientHangsUpSources DEF CallStep, Calls
<1>3. CASE WatcherStep
  BY <1>3, WatcherSources, LoadStartSources, SendCommandSources, ReceiveAnswerSources
  DEF WatcherStep, Calls
<1>4. CASE UNCHANGED vars
  BY <1>4 DEF vars, busVars, callVars, workerVars, IInv, SourcesOK, ResultsOK,
              EventSourced, Source, Sent
<1> QED BY <1>1, <1>2, <1>3, <1>4 DEF Next

(* What the master knows of its calls, and where every command, answer and *)
(* text comes from (worker_gateway.rs), holds in every state.              *)
THEOREM Invariance == Spec => []IInv
  BY InitIInv, NextIInv, PTL DEF Spec

(* The master's state keeps its types: what it publishes, reads, picks and  *)
(* returns.                                                                 *)
THEOREM TypeCorrect == Spec => []TypeOK
<1>1. IInv => TypeOK
  BY DEF IInv
<1> QED BY Invariance, <1>1, PTL

(* generate_response never returns the text of another prompt, unless two   *)
(* requests to the same worker drew the same id.                            *)
THEOREM AnswersMatchTheirRequests == Spec => []AnswersMatch
<1>1. IInv => AnswersMatch
  BY DEF IInv, ResultsOK, AnswersMatch, Source
<1> QED BY Invariance, <1>1, PTL

-------------------------------------------------------------------------------
(***************************************************************************)
(* The order of things: whoever is sent a packet is connected, or was; a    *)
(* worker is registered after its load command, and gets only one.          *)
(***************************************************************************)
Known(a) == sock[a] # "absent"

IsConnect(i) == log[i].type = "ClientConnected"
IsLoad(i)    == log[i].type = "SendNewPacket" /\ log[i].packet.kind = "Load"
LoadSent(a)  == \E i \in DOMAIN log : IsLoad(i) /\ log[i].addr = a

KnownOK ==
  /\ \A i \in DOMAIN log : Known(log[i].addr)
  /\ watcher.pc = "load" => Known(watcher.addr)
  /\ \A a \in workers : Known(a)
  /\ \A c \in Calls : pc[c] \in {"picked", "waiting"} => Known(target[c])

LoaderOK ==
  /\ watcher.pc = "select" => pc[Loader] = "idle"
  /\ pc[Loader] # "idle" => target[Loader] = watcher.addr
  /\ pc[Loader] \in {"waiting", "done"} => LoadSent(target[Loader])
  /\ \A a \in workers : LoadSent(a)
  /\ \A r \in Requests : pc[r] = "picked" => LoadSent(target[r])

(* The worker is the one being loaded, or was.                              *)
Greeted(a) == LoadSent(a) \/ (watcher.pc = "load" /\ watcher.addr = a)

(* A worker is announced once, and is greeted once: the watcher never sees  *)
(* again what it acted on.                                                  *)
GreetedOK ==
  /\ \A i, j \in DOMAIN log :
       IsConnect(i) /\ IsConnect(j) /\ log[i].addr = log[j].addr => i = j
  /\ \A i, j \in DOMAIN log : IsLoad(i) /\ IsLoad(j) /\ log[i].addr = log[j].addr => i = j
  /\ watcher.pc = "load" /\ pc[Loader] \in {"idle", "picked"} => ~LoadSent(watcher.addr)
  /\ \A i \in DOMAIN log :
       IsConnect(i) /\ Greeted(log[i].addr) => ~Bus!Attached(ConnRx) \/ i <= cursor[ConnRx]

OrderOK == KnownOK /\ LoaderOK /\ GreetedOK /\ LoadBeforeGenerate

LogGrows ==
  /\ DOMAIN log \subseteq DOMAIN log'
  /\ \A i \in DOMAIN log : log'[i] = log[i]

LEMMA AppendedEvent ==
  ASSUME TypeOK, NEW e \in Event, log' = Append(log, e)
  PROVE  /\ LogGrows /\ Len(log) \in Nat /\ Len(log) + 1 \notin DOMAIN log
         /\ DOMAIN log = 1..Len(log) /\ DOMAIN log' = 1..(Len(log) + 1)
         /\ DOMAIN log' = DOMAIN log \cup {Len(log) + 1}
         /\ log'[Len(log) + 1] = e
  BY DEF TypeOK, Bus!BusTypeOK, LogGrows

LEMMA ReceiversDiffer ==
  /\ \A a \in Addrs : SockRx(a) # ConnRx /\ SockRx(a) # DiscRx
  /\ \A c \in Calls : CallRx(c) # ConnRx /\ CallRx(c) # DiscRx
  /\ \A a \in Addrs, c \in Calls : SockRx(a) # CallRx(c)
  /\ \A a, b \in Addrs : SockRx(a) = SockRx(b) => a = b
  /\ \A c, d \in Calls : CallRx(c) = CallRx(d) => c = d
  /\ ConnRx # DiscRx
<1>1. \A x, y, u, v : <<x, y>> = <<u, v>> => x = u /\ y = v
  OBVIOUS
<1>2. "socket" # "call" /\ "socket" # "watcher" /\ "call" # "watcher" /\ "connected" # "disconnected"
  OBVIOUS
<1> QED BY <1>1, <1>2 DEF SockRx, CallRx, ConnRx, DiscRx

(* Operations on one receiver leave all others where they are.              *)
LEMMA OtherCursors ==
  ASSUME TypeOK, NEW rx \in Receivers,
         \/ Bus!Subscribe(rx) \/ Bus!Drop({rx}) \/ UNCHANGED cursor
         \/ \E i \in DOMAIN log : Bus!MoveTo(rx, i)
  PROVE  \A s \in Receivers : s # rx => cursor'[s] = cursor[s]
  BY DEF TypeOK, Bus!BusTypeOK, Bus!Subscribe, Bus!Drop, Bus!MoveTo

(* What the log held it holds, and a quiet step adds neither a connect nor  *)
(* a command.                                                               *)
LEMMA LogKeeps ==
  ASSUME LogGrows
  PROVE  /\ \A a : LoadSent(a) => LoadSent(a)'
         /\ \A i \in DOMAIN log : (IsConnect(i)' <=> IsConnect(i)) /\ (IsLoad(i)' <=> IsLoad(i))
  BY DEF LogGrows, LoadSent, IsLoad, IsConnect

QuietLog ==
  \/ log' = log
  \/ \E e \in Event :
       /\ log' = Append(log, e)
       /\ e.type \notin {"ClientConnected", "SendNewPacket"} /\ Known(e.addr)

LEMMA QuietLogAdds ==
  ASSUME TypeOK, QuietLog
  PROVE  /\ LogGrows
         /\ \A i \in DOMAIN log' :
              \/ i \in DOMAIN log /\ log'[i] = log[i]
              \/ log'[i].type \notin {"ClientConnected", "SendNewPacket"} /\ Known(log'[i].addr)
<1>1. CASE log' = log
  BY <1>1 DEF LogGrows
<1>2. CASE log' # log
  <2>1. PICK e \in Event :
          /\ log' = Append(log, e)
          /\ e.type \notin {"ClientConnected", "SendNewPacket"} /\ Known(e.addr)
    BY <1>2 DEF QuietLog
  <2> QED BY <2>1, AppendedEvent DEF LogGrows
<1> QED BY <1>1, <1>2

LEMMA QuietLogLoads ==
  ASSUME TypeOK, QuietLog
  PROVE  /\ \A a : LoadSent(a)' <=> LoadSent(a)
         /\ \A i \in DOMAIN log' : IsLoad(i)' \/ IsConnect(i)' => i \in DOMAIN log
         /\ \A i \in DOMAIN log' : log'[i].type = "SendNewPacket" => i \in DOMAIN log
<1>1. \A i \in DOMAIN log' : IsLoad(i)' \/ IsConnect(i)' => i \in DOMAIN log
  BY QuietLogAdds DEF IsLoad, IsConnect
<1>2. LogGrows
  BY QuietLogAdds
<1>3. \A a : LoadSent(a)' => LoadSent(a)
  BY <1>1, <1>2 DEF LoadSent, LogGrows, IsLoad
<1>4. \A i \in DOMAIN log' : log'[i].type = "SendNewPacket" => i \in DOMAIN log
  BY QuietLogAdds
<1> QED BY <1>1, <1>2, <1>3, <1>4, LogKeeps

(* A step that sends no command and announces no worker leaves the order    *)
(* right if the watcher stays where it is and a request only picks workers  *)
(* that are registered.                                                     *)
KnownStays == \A a \in Addrs : Known(a) => Known(a)'

LEMMA QuietStep ==
  ASSUME IInv, OrderOK, QuietLog, KnownStays,
         watcher' = watcher, workers' \subseteq workers,
         \/ cursor'[ConnRx] = cursor[ConnRx]
         \/ cursor'[ConnRx] = Bus!Detached
         \/ cursor'[ConnRx] = Len(log),
         pc'[Loader] = pc[Loader], target'[Loader] = target[Loader],
         \A r \in Requests :
           \/ pc'[r] = pc[r] /\ target'[r] = target[r]
           \/ pc'[r] \notin {"picked", "waiting"}
           \/ pc'[r] = "picked" /\ target'[r] \in workers
  PROVE  OrderOK'
<1>1. /\ TypeOK /\ LogGrows
      /\ \A a : LoadSent(a)' <=> LoadSent(a)
      /\ \A i \in DOMAIN log' : IsLoad(i)' \/ IsConnect(i)' => i \in DOMAIN log
      /\ \A i \in DOMAIN log' : log'[i].type = "SendNewPacket" => i \in DOMAIN log
  BY QuietLogAdds, QuietLogLoads DEF IInv
<1>2. KnownOK'
  <2>1. (\A i \in DOMAIN log : Known(log[i].addr))'
    <3>1. \A i \in DOMAIN log' : sock[log'[i].addr] # "absent"
      BY <1>1, QuietLogAdds DEF OrderOK, KnownOK, Known
    <3>2. log' \in Seq(Event)
      <4>1. log \in Seq(Event)
        BY <1>1 DEF TypeOK, Bus!BusTypeOK
      <4>2. log' = log \/ \E e \in Event : log' = Append(log, e)
        BY DEF QuietLog
      <4> QED BY <4>1, <4>2
    <3>3. \A i \in DOMAIN log' : log'[i].addr \in Addrs
      BY <3>2, EventFields
    <3> QED BY <3>1, <3>3 DEF KnownStays, Known
  <2>2. (watcher.pc = "load" => Known(watcher.addr))'
    BY DEF OrderOK, KnownOK, KnownStays, IInv, PhaseOK
  <2>3. (\A a \in workers : Known(a))'
    BY DEF OrderOK, KnownOK, KnownStays, IInv, TypeOK
  <2>4. (\A c \in Calls : pc[c] \in {"picked", "waiting"} => Known(target[c]))'
    <3> SUFFICES ASSUME NEW c \in Calls, pc'[c] \in {"picked", "waiting"}
                 PROVE  Known(target[c])'
      OBVIOUS
    <3>1. \/ pc'[c] = pc[c] /\ target'[c] = target[c]
          \/ target'[c] \in workers
      BY DEF Calls
    <3>2. target'[c] \in Addrs /\ sock[target'[c]] # "absent"
      <4>1. CASE pc'[c] = pc[c] /\ target'[c] = target[c]
        BY <4>1 DEF OrderOK, KnownOK, IInv, PhaseOK, Known
      <4>2. CASE target'[c] \in workers
        BY <4>2, <1>1 DEF OrderOK, KnownOK, TypeOK, Known
      <4> QED BY <3>1, <4>1, <4>2
    <3> QED BY <3>2 DEF KnownStays, Known
  <2> QED BY <2>1, <2>2, <2>3, <2>4 DEF KnownOK
<1>3. LoaderOK'
  <2>1. (\A r \in Requests : pc[r] = "picked" => LoadSent(target[r]))'
    <3> SUFFICES ASSUME NEW r \in Requests, pc'[r] = "picked", NEW a, a = target'[r]
                 PROVE  LoadSent(a)'
      BY DEF LoadSent, IsLoad
    <3>1. LoadSent(a)
      BY <1>1 DEF OrderOK, LoaderOK
    <3> QED BY <1>1, <3>1
  <2> QED BY <1>1, <2>1 DEF OrderOK, LoaderOK
<1>4. GreetedOK'
  <2>1. (\A i, j \in DOMAIN log :
           IsConnect(i) /\ IsConnect(j) /\ log[i].addr = log[j].addr => i = j)'
    BY <1>1, LogKeeps DEF OrderOK, GreetedOK, LogGrows
  <2>2. (\A i, j \in DOMAIN log : IsLoad(i) /\ IsLoad(j) /\ log[i].addr = log[j].addr => i = j)'
    BY <1>1, LogKeeps DEF OrderOK, GreetedOK, LogGrows
  <2>3. (watcher.pc = "load" /\ pc[Loader] \in {"idle", "picked"} => ~LoadSent(watcher.addr))'
    BY <1>1 DEF OrderOK, GreetedOK
  <2>4. (\A i \in DOMAIN log :
          IsConnect(i) /\ Greeted(log[i].addr) => ~Bus!Attached(ConnRx) \/ i <= cursor[ConnRx])'
    <3> SUFFICES ASSUME NEW i \in DOMAIN log', IsConnect(i)', Greeted(log[i].addr)'
                 PROVE  cursor'[ConnRx] = Bus!Detached \/ i <= cursor'[ConnRx]
      BY DEF Bus!Attached
    <3>1. i \in DOMAIN log /\ IsConnect(i) /\ log'[i] = log[i]
      BY <1>1, LogKeeps DEF LogGrows
    <3>2. Greeted(log[i].addr)
      <4>1. PICK a : a = log[i].addr /\ a = log'[i].addr
        BY <3>1
      <4>2. LoadSent(a)' \/ (watcher'.pc = "load" /\ watcher'.addr = a)
        BY <4>1 DEF Greeted, LoadSent, IsLoad
      <4> QED BY <1>1, <4>1, <4>2 DEF Greeted
    <3>3. i <= Len(log)
      BY <1>1, <3>1 DEF TypeOK, Bus!BusTypeOK
    <3> QED BY <3>1, <3>2, <3>3 DEF OrderOK, GreetedOK, Bus!Attached
  <2> QED BY <2>1, <2>2, <2>3, <2>4 DEF GreetedOK
<1>5. LoadBeforeGenerate'
  <2> SUFFICES ASSUME NEW i \in DOMAIN log',
                      log'[i].type = "SendNewPacket", log'[i].packet.kind = "Generate"
               PROVE  \E j \in 1..(i - 1) :
                        /\ log'[j].type = "SendNewPacket" /\ log'[j].packet.kind = "Load"
                        /\ log'[j].addr = log'[i].addr
    BY DEF LoadBeforeGenerate
  <2>1. i \in DOMAIN log /\ log'[i] = log[i]
    BY <1>1 DEF LogGrows
  <2>2. PICK j \in 1..(i - 1) :
          /\ log[j].type = "SendNewPacket" /\ log[j].packet.kind = "Load"
          /\ log[j].addr = log[i].addr
    BY <2>1 DEF OrderOK, LoadBeforeGenerate
  <2>3. j \in DOMAIN log
    BY <2>1, <1>1 DEF TypeOK, Bus!BusTypeOK
  <2> QED BY <2>1, <2>2, <2>3, <1>1 DEF LogGrows
<1> QED BY <1>2, <1>3, <1>4, <1>5 DEF OrderOK

(* The steps of sockets, workers and requests, other than a connect or a    *)
(* command that is sent, and those of the watcher that start no load.       *)
LEMMA QuietSocketOrder ==
  ASSUME IInv, OrderOK, NEW a \in Addrs,
         SocketStep(a) \/ WorkerAnswers(a) \/ WorkerDies(a)
  PROVE  OrderOK'
<1>1. TypeOK /\ UNCHANGED <<workers, watcher, pc, target>>
  BY DEF IInv, SocketStep, SocketReads, SocketReadError, SocketWrites, WorkerAnswers, WorkerDies,
         callVars
<1>2. sock' = sock \/ sock' = [sock EXCEPT ![a] = "closed"]
  BY DEF SocketStep, SocketReads, SocketReadError, SocketWrites, WorkerAnswers, WorkerDies
<1>3. KnownStays
  BY <1>1, <1>2 DEF KnownStays, Known, TypeOK
<1>4. QuietLog
  <2>1. CASE SocketReads(a)
    <3>1. Head(outbox[a]) \in Answer
      BY <1>1, <2>1 DEF TypeOK, SocketReads
    <3>2. Received(a, Head(outbox[a])) \in Event /\ log' = Append(log, Received(a, Head(outbox[a])))
      BY <2>1, <3>1, EventsAreTyped DEF SocketReads, Bus!Publish
    <3> QED BY <2>1, <3>2 DEF QuietLog, Received, SocketReads, Known
  <2>2. CASE SocketReadError(a)
    <3>1. Disconnected(a) \in Event /\ log' = Append(log, Disconnected(a))
      BY <2>2, EventsAreTyped DEF SocketReadError, Bus!Publish
    <3> QED BY <2>2, <3>1 DEF QuietLog, Disconnected, SocketReadError, Known
  <2>3. CASE SocketWrites(a) \/ WorkerAnswers(a) \/ WorkerDies(a)
    BY <2>3 DEF QuietLog, SocketWrites, WorkerAnswers, WorkerDies, busVars
  <2> QED BY <2>1, <2>2, <2>3 DEF SocketStep
<1>5. cursor'[ConnRx] = cursor[ConnRx]
  <2>1. \/ UNCHANGED cursor \/ Bus!Drop({SockRx(a)})
        \/ \E i \in DOMAIN log : Bus!MoveTo(SockRx(a), i)
    BY DEF SocketStep, SocketReads, SocketReadError, SocketWrites, WorkerAnswers, WorkerDies,
           busVars, OfType
  <2>2. SockRx(a) \in Receivers /\ ConnRx \in Receivers /\ SockRx(a) # ConnRx
    BY ReceiversExist, ReceiversDiffer
  <2> QED BY <1>1, <2>1, <2>2, OtherCursors
<1> QED BY <1>1, <1>3, <1>4, <1>5, QuietStep

LEMMA QuietRequestOrder ==
  ASSUME IInv, OrderOK, NEW r \in Requests,
         GenerateStart(r) \/ GeneratePick(r) \/ ReceiveAnswer(r) \/ ClientHangsUp(r)
  PROVE  OrderOK'
<1>1. TypeOK /\ UNCHANGED <<log, workers, watcher, sock>> /\ r \in Calls /\ r # Loader
  BY GatewayAssumption
  DEF IInv, GenerateStart, GeneratePick, ReceiveAnswer, ClientHangsUp, Calls
<1>2. QuietLog /\ KnownStays
  BY <1>1 DEF QuietLog, KnownStays, Known
<1>3. cursor'[ConnRx] = cursor[ConnRx]
  <2>1. UNCHANGED cursor \/ Bus!Drop({CallRx(r)}) \/ Bus!Subscribe(CallRx(r))
    BY DEF GenerateStart, GeneratePick, ReceiveAnswer, ClientHangsUp, Begin
  <2>2. CallRx(r) \in Receivers /\ ConnRx \in Receivers /\ CallRx(r) # ConnRx
    BY <1>1, ReceiversExist, ReceiversDiffer
  <2> QED BY <1>1, <2>1, <2>2, OtherCursors
<1>4. \A c \in Calls \ {r} : pc'[c] = pc[c] /\ target'[c] = target[c]
  BY <1>1 DEF TypeOK, GenerateStart, GeneratePick, ReceiveAnswer, ClientHangsUp
<1>5. pc'[r] \notin {"picked", "waiting"} \/ (pc'[r] = "picked" /\ target'[r] \in workers)
  <2>1. CASE GeneratePick(r) /\ workers # {}
    <3>1. First(workers) \in workers
      BY <1>1, <2>1, FirstIsMember, GatewayAssumption DEF TypeOK
    <3>2. pc' = [pc EXCEPT ![r] = "picked"] /\ target' = [target EXCEPT ![r] = First(workers)]
      BY <2>1 DEF GeneratePick
    <3> QED BY <1>1, <3>1, <3>2 DEF TypeOK
  <2>2. CASE ~(GeneratePick(r) /\ workers # {})
    BY <1>1, <2>2 DEF TypeOK, GenerateStart, GeneratePick, ReceiveAnswer, ClientHangsUp
  <2> QED BY <2>1, <2>2
<1>6. Loader \in Calls \ {r} /\ Requests \subseteq Calls
  BY <1>1 DEF Calls
<1> QED BY <1>1, <1>2, <1>3, <1>4, <1>5, <1>6, QuietStep

LEMMA QuietWatcherOrder ==
  ASSUME IInv, OrderOK,
         \/ \E rx \in {ConnRx, DiscRx} : WatcherSubscribes(rx) \/ WatcherSkips(rx)
         \/ WatcherSeesDisconnect
  PROVE  OrderOK'
<1>1. TypeOK /\ UNCHANGED <<log, watcher, sock, pc, target>>
  BY DEF IInv, WatcherSubscribes, WatcherSkips, WatcherSeesDisconnect, callVars
<1>2. workers' \subseteq workers
  BY DEF WatcherSubscribes, WatcherSkips, WatcherSeesDisconnect
<1>3. QuietLog /\ KnownStays
  BY <1>1 DEF QuietLog, KnownStays, Known
<1>4. cursor'[ConnRx] \in {cursor[ConnRx], Bus!Detached, Len(log)}
  <2>1. \E rx \in {ConnRx, DiscRx} :
          Bus!Subscribe(rx) \/ Bus!Drop({rx}) \/ Bus!Drop({ConnRx, DiscRx})
    BY DEF WatcherSubscribes, WatcherSkips, WatcherSeesDisconnect
  <2> QED BY <1>1, <2>1, ReceiversExist
          DEF Bus!Subscribe, Bus!Drop, TypeOK, Bus!BusTypeOK
<1> QED BY <1>1, <1>2, <1>3, <1>4, QuietStep

(* The steps of the watcher that publish nothing.                           *)
LEMMA SilentStep ==
  ASSUME OrderOK, UNCHANGED <<log, sock>>
  PROVE  /\ LoadBeforeGenerate'
         /\ (\A i, j \in DOMAIN log :
              IsConnect(i) /\ IsConnect(j) /\ log[i].addr = log[j].addr => i = j)'
         /\ (\A i, j \in DOMAIN log :
              IsLoad(i) /\ IsLoad(j) /\ log[i].addr = log[j].addr => i = j)'
         /\ \A a : (LoadSent(a)' <=> LoadSent(a)) /\ (Known(a)' <=> Known(a))
         /\ \A i : IsConnect(i)' <=> IsConnect(i)
         /\ (\A i \in DOMAIN log : Known(log[i].addr))'
<1>1. LoadBeforeGenerate'
  BY DEF OrderOK, LoadBeforeGenerate
<1>2. /\ (\A i, j \in DOMAIN log :
           IsConnect(i) /\ IsConnect(j) /\ log[i].addr = log[j].addr => i = j)'
      /\ (\A i, j \in DOMAIN log :
           IsLoad(i) /\ IsLoad(j) /\ log[i].addr = log[j].addr => i = j)'
  BY DEF OrderOK, GreetedOK, IsConnect, IsLoad
<1>3. /\ \A a : (LoadSent(a)' <=> LoadSent(a)) /\ (Known(a)' <=> Known(a))
      /\ \A i : IsConnect(i)' <=> IsConnect(i)
  BY DEF LoadSent, IsLoad, Known, IsConnect
<1>4. (\A i \in DOMAIN log : Known(log[i].addr))'
  BY DEF OrderOK, KnownOK, Known
<1> QED BY <1>1, <1>2, <1>3, <1>4

LEMMA LoadStartOrder == ASSUME IInv, OrderOK, LoadStart PROVE OrderOK'
<1>1. /\ TypeOK /\ UNCHANGED <<log, workers, watcher, sock>> /\ watcher.pc = "load"
      /\ pc[Loader] = "idle" /\ pc' = [pc EXCEPT ![Loader] = "picked"]
      /\ target' = [target EXCEPT ![Loader] = watcher.addr]
  BY DEF IInv, LoadStart
<1>2. /\ pc'[Loader] = "picked" /\ target'[Loader] = watcher.addr
      /\ \A c \in Calls \ {Loader} : pc'[c] = pc[c] /\ target'[c] = target[c]
      /\ Requests \subseteq Calls \ {Loader} /\ Loader \in Calls
  BY <1>1, CallTypes
<1>3. cursor'[ConnRx] = cursor[ConnRx]
  <2>1. CallRx(Loader) \in Receivers /\ ConnRx \in Receivers /\ CallRx(Loader) # ConnRx
    BY <1>2, ReceiversExist, ReceiversDiffer
  <2> QED BY <1>1, <2>1, OtherCursors DEF LoadStart, Begin
<1>4. KnownOK'
  BY <1>1, <1>2, SilentStep DEF OrderOK, KnownOK, Known
<1>5. LoaderOK'
  BY <1>1, <1>2, SilentStep DEF OrderOK, LoaderOK, LoadSent, IsLoad
<1>6. GreetedOK'
  BY <1>1, <1>2, <1>3, SilentStep
  DEF OrderOK, GreetedOK, Greeted, IsConnect, IsLoad, LoadSent, Bus!Attached
<1> QED BY <1>1, <1>4, <1>5, <1>6, SilentStep DEF OrderOK

LEMMA LoadReturnsOrder == ASSUME IInv, OrderOK, ReceiveAnswer(Loader) PROVE OrderOK'
<1>1. /\ TypeOK /\ UNCHANGED <<log, workers, watcher, target, sock>>
      /\ pc[Loader] = "waiting" /\ pc' = [pc EXCEPT ![Loader] = "done"]
  BY DEF IInv, ReceiveAnswer
<1>2. /\ pc'[Loader] = "done"
      /\ \A c \in Calls \ {Loader} : pc'[c] = pc[c]
      /\ Requests \subseteq Calls \ {Loader} /\ Loader \in Calls
  BY <1>1, CallTypes
<1>3. cursor'[ConnRx] = cursor[ConnRx]
  <2>1. CallRx(Loader) \in Receivers /\ ConnRx \in Receivers /\ CallRx(Loader) # ConnRx
    BY <1>2, ReceiversExist, ReceiversDiffer
  <2> QED BY <1>1, <2>1, OtherCursors DEF ReceiveAnswer
<1>4. KnownOK'
  BY <1>1, <1>2, SilentStep DEF OrderOK, KnownOK, Known
<1>5. LoaderOK'
  BY <1>1, <1>2, SilentStep DEF OrderOK, LoaderOK, LoadSent, IsLoad
<1>6. GreetedOK'
  BY <1>1, <1>2, <1>3, SilentStep
  DEF OrderOK, GreetedOK, Greeted, IsConnect, IsLoad, LoadSent, Bus!Attached
<1> QED BY <1>1, <1>4, <1>5, <1>6, SilentStep DEF OrderOK

(* The watcher acts on a connect it has not passed yet: the worker was not  *)
(* greeted.                                                                 *)
LEMMA SeesConnectOrder == ASSUME IInv, OrderOK, WatcherSeesConnect PROVE OrderOK'
<1>1. /\ TypeOK /\ UNCHANGED <<log, workers, pc, target, sock>>
      /\ watcher.pc = "select" /\ Bus!Attached(ConnRx)
      /\ Bus!Drop({ConnRx, DiscRx})
  BY DEF IInv, WatcherSeesConnect, callVars
<1>2. PICK i \in DOMAIN log :
        /\ IsConnect(i) /\ cursor[ConnRx] < i
        /\ watcher' = [pc |-> "load", addr |-> log[i].addr]
  BY <1>1 DEF WatcherSeesConnect, Bus!Pending, IsConnect, TypeOK, Bus!BusTypeOK
<1>3. cursor'[ConnRx] = Bus!Detached
  BY <1>1, ReceiversExist DEF Bus!Drop
<1>4. ~Greeted(log[i].addr)
  <2>1. cursor[ConnRx] \in Int /\ i \in Int
    BY <1>1, ReceiversExist DEF TypeOK, Bus!BusTypeOK, Bus!Detached
  <2> QED BY <1>1, <1>2, <2>1 DEF OrderOK, GreetedOK
<1>5. KnownOK'
  BY <1>1, <1>2, SilentStep DEF OrderOK, KnownOK, Known
<1>6. LoaderOK'
  BY <1>1, <1>2, SilentStep DEF OrderOK, LoaderOK, LoadSent, IsLoad
<1>7. GreetedOK'
  BY <1>1, <1>2, <1>3, <1>4, SilentStep
  DEF OrderOK, GreetedOK, Greeted, IsConnect, IsLoad, LoadSent, Bus!Attached
<1> QED BY <1>1, <1>5, <1>6, <1>7, SilentStep DEF OrderOK

LEMMA RegistersOrder == ASSUME IInv, OrderOK, WatcherRegisters PROVE OrderOK'
<1>1. /\ TypeOK /\ UNCHANGED <<log, cursor, target, sock>>
      /\ watcher.pc = "load" /\ pc[Loader] = "done"
      /\ workers' = workers \cup {watcher.addr}
      /\ watcher' = [pc |-> "select", addr |-> None]
      /\ pc' = [pc EXCEPT ![Loader] = "idle"]
  BY DEF IInv, WatcherRegisters, busVars
<1>2. /\ pc'[Loader] = "idle"
      /\ \A c \in Calls \ {Loader} : pc'[c] = pc[c]
      /\ Requests \subseteq Calls \ {Loader} /\ Loader \in Calls
  BY <1>1, CallTypes
<1>3. LoadSent(watcher.addr) /\ Known(watcher.addr)
  BY <1>1 DEF OrderOK, LoaderOK, KnownOK
<1>4. KnownOK'
  BY <1>1, <1>2, <1>3, SilentStep DEF OrderOK, KnownOK, Known
<1>5. LoaderOK'
  BY <1>1, <1>2, <1>3, SilentStep DEF OrderOK, LoaderOK, LoadSent, IsLoad
<1>6. GreetedOK'
  BY <1>1, <1>2, <1>3, SilentStep
  DEF OrderOK, GreetedOK, Greeted, IsConnect, IsLoad, LoadSent, Bus!Attached
<1> QED BY <1>1, <1>4, <1>5, <1>6, SilentStep DEF OrderOK

(* Connect announces a worker that nobody has heard of.                     *)
LEMMA ConnectOrder == ASSUME IInv, OrderOK, NEW a \in Addrs, Connect(a) PROVE OrderOK'
<1>1. /\ TypeOK /\ UNCHANGED <<workers, watcher, pc, target>>
      /\ ~Known(a) /\ sock' = [sock EXCEPT ![a] = "open"]
      /\ Bus!Subscribe(SockRx(a))
  BY DEF IInv, Connect, callVars, Known
<1>2. PICK e \in Event : e = Connected(a) /\ log' = Append(log, e)
  BY EventsAreTyped DEF Connect, Bus!Publish
<1>3. e.type = "ClientConnected" /\ e.addr = a
  BY <1>2 DEF Connected
<1>4. /\ LogGrows /\ Len(log) \in Nat
      /\ DOMAIN log = 1..Len(log) /\ DOMAIN log' = DOMAIN log \cup {Len(log) + 1}
      /\ Len(log) + 1 \notin DOMAIN log /\ log'[Len(log) + 1] = e
  BY <1>1, <1>2, AppendedEvent
<1>5. cursor'[ConnRx] = cursor[ConnRx]
  <2>1. SockRx(a) \in Receivers /\ ConnRx \in Receivers /\ SockRx(a) # ConnRx
    BY ReceiversExist, ReceiversDiffer
  <2> QED BY <1>1, <2>1, OtherCursors
<1>6. /\ \A b \in Addrs : Known(b) => Known(b)'
      /\ Known(a)'
  BY <1>1 DEF Known, TypeOK
<1>7. \A b : LoadSent(b)' <=> LoadSent(b)
  BY <1>3, <1>4, LogKeeps DEF LoadSent, IsLoad, LogGrows
<1>8. ~LoadSent(a) /\ ~Greeted(a)
  BY <1>1, <1>4 DEF OrderOK, KnownOK, LoadSent, Greeted
<1>9. \A i \in DOMAIN log : log[i].addr # a /\ log[i].addr \in Addrs
  BY <1>1, EventFields DEF OrderOK, KnownOK, TypeOK, Bus!BusTypeOK
<1>10. KnownOK'
  <2>1. (\A i \in DOMAIN log : Known(log[i].addr))'
    BY <1>3, <1>4, <1>6, <1>9 DEF OrderOK, KnownOK, Known, LogGrows
  <2>2. (watcher.pc = "load" => Known(watcher.addr))'
    BY <1>1, <1>6 DEF OrderOK, KnownOK, IInv, PhaseOK, Known
  <2>3. (\A b \in workers : Known(b))'
    BY <1>1, <1>6 DEF OrderOK, KnownOK, TypeOK, Known
  <2>4. (\A c \in Calls : pc[c] \in {"picked", "waiting"} => Known(target[c]))'
    BY <1>1, <1>6 DEF OrderOK, KnownOK, IInv, PhaseOK, Known
  <2> QED BY <2>1, <2>2, <2>3, <2>4 DEF KnownOK
<1>11. LoaderOK'
  <2>1. /\ \A b \in workers : LoadSent(b)'
        /\ \A r \in Requests : \A b : pc[r] = "picked" /\ b = target[r] => LoadSent(b)'
        /\ \A b : pc[Loader] \in {"waiting", "done"} /\ b = target[Loader] => LoadSent(b)'
    BY <1>7 DEF OrderOK, LoaderOK
  <2> QED BY <1>1, <2>1 DEF OrderOK, LoaderOK, LoadSent, IsLoad
<1>12. GreetedOK'
  <2>1. (\A i, j \in DOMAIN log :
           IsConnect(i) /\ IsConnect(j) /\ log[i].addr = log[j].addr => i = j)'
    BY <1>3, <1>4, <1>9, LogKeeps DEF OrderOK, GreetedOK, LogGrows
  <2>2. (\A i, j \in DOMAIN log : IsLoad(i) /\ IsLoad(j) /\ log[i].addr = log[j].addr => i = j)'
    BY <1>3, <1>4, <1>9, LogKeeps DEF OrderOK, GreetedOK, LogGrows, IsLoad
  <2>3. (watcher.pc = "load" /\ pc[Loader] \in {"idle", "picked"} => ~LoadSent(watcher.addr))'
    BY <1>1, <1>7 DEF OrderOK, GreetedOK, LoadSent, IsLoad
  <2>4. (\A i \in DOMAIN log :
          IsConnect(i) /\ Greeted(log[i].addr) => ~Bus!Attached(ConnRx) \/ i <= cursor[ConnRx])'
    <3> SUFFICES ASSUME NEW i \in DOMAIN log', IsConnect(i)', NEW b, b = log'[i].addr, Greeted(b)'
                 PROVE  cursor'[ConnRx] = Bus!Detached \/ i <= cursor'[ConnRx]
      BY DEF Bus!Attached, Greeted, LoadSent, IsLoad
    <3>1. Greeted(b)
      BY <1>1, <1>7 DEF Greeted
    <3>2. b # a /\ i \in DOMAIN log /\ log'[i] = log[i]
      BY <1>3, <1>4, <1>8, <3>1 DEF LogGrows
    <3> QED BY <1>5, <3>1, <3>2 DEF OrderOK, GreetedOK, Bus!Attached, IsConnect
  <2> QED BY <2>1, <2>2, <2>3, <2>4 DEF GreetedOK
<1>13. LoadBeforeGenerate'
  <2> SUFFICES ASSUME NEW i \in DOMAIN log',
                      log'[i].type = "SendNewPacket", log'[i].packet.kind = "Generate"
               PROVE  \E j \in 1..(i - 1) :
                        /\ log'[j].type = "SendNewPacket" /\ log'[j].packet.kind = "Load"
                        /\ log'[j].addr = log'[i].addr
    BY DEF LoadBeforeGenerate
  <2>1. i \in DOMAIN log /\ log'[i] = log[i]
    BY <1>3, <1>4 DEF LogGrows
  <2>2. PICK j \in 1..(i - 1) :
          /\ log[j].type = "SendNewPacket" /\ log[j].packet.kind = "Load"
          /\ log[j].addr = log[i].addr
    BY <2>1 DEF OrderOK, LoadBeforeGenerate
  <2>3. j \in DOMAIN log
    BY <1>4, <2>1
  <2> QED BY <1>4, <2>1, <2>2, <2>3 DEF LogGrows
<1> QED BY <1>10, <1>11, <1>12, <1>13 DEF OrderOK

(* A command goes to a worker that is known; a LoadCommand, to one that got *)
(* none yet; a GenerateCommand, to one that got one.                        *)
LEMMA SendCommandOrder == ASSUME IInv, OrderOK, NEW c \in Calls, SendCommand(c) PROVE OrderOK'
<1>1. /\ TypeOK /\ UNCHANGED <<cursor, workers, watcher, reqId, target, sock>>
      /\ pc[c] = "picked" /\ pc' = [pc EXCEPT ![c] = "waiting"]
  BY DEF IInv, SendCommand
<1>2. target[c] \in Addrs /\ CommandOf(c) \in Command
  BY <1>1 DEF IInv, PhaseOK, CommandOf, Command, Kind
<1>3. PICK e \in Event : e = Send(target[c], CommandOf(c)) /\ log' = Append(log, e)
  BY <1>2, EventsAreTyped DEF SendCommand, Bus!Publish
<1>4. e.type = "SendNewPacket" /\ e.addr = target[c] /\ e.packet.kind = Kind(c)
  BY <1>3 DEF Send, CommandOf
<1>5. /\ LogGrows /\ Len(log) \in Nat
      /\ DOMAIN log = 1..Len(log) /\ DOMAIN log' = DOMAIN log \cup {Len(log) + 1}
      /\ Len(log) + 1 \notin DOMAIN log /\ log'[Len(log) + 1] = e
  BY <1>1, <1>3, AppendedEvent
<1>6. /\ pc'[c] = "waiting"
      /\ \A d \in Calls \ {c} : pc'[d] = pc[d]
      /\ Requests \subseteq Calls /\ Loader \in Calls /\ Loader \notin Requests
  BY <1>1, CallTypes
<1>7. Known(target[c])
  BY <1>1 DEF OrderOK, KnownOK
<1>8. /\ \A a : LoadSent(a) => LoadSent(a)'
      /\ \A a : LoadSent(a)' => LoadSent(a) \/ (c = Loader /\ a = target[c])
      /\ c = Loader => LoadSent(target[c])'
  <2>1. PICK n : n = Len(log) + 1
    OBVIOUS
  <2>2. n \in DOMAIN log' /\ log'[n] = e /\ (c = Loader <=> IsLoad(n)')
    BY <1>4, <1>5, <2>1 DEF IsLoad, Kind
  <2>3. \A a : LoadSent(a)' => LoadSent(a) \/ (c = Loader /\ a = target[c])
    <3> SUFFICES ASSUME NEW a, LoadSent(a)', ~LoadSent(a) PROVE c = Loader /\ a = target[c]
      OBVIOUS
    <3>1. PICK i \in DOMAIN log' : IsLoad(i)' /\ log'[i].addr = a
      BY DEF LoadSent
    <3>2. i \notin DOMAIN log
      BY <1>5, <3>1, LogKeeps DEF LoadSent, LogGrows
    <3>3. i = n
      BY <1>5, <2>1, <3>1, <3>2
    <3> QED BY <1>4, <2>2, <3>1, <3>3
  <2>4. ASSUME c = Loader, NEW a, a = target[c] PROVE LoadSent(a)'
    BY <1>4, <2>2, <2>4 DEF LoadSent
  <2>5. c = Loader => LoadSent(target[c])'
    BY <1>1, <2>4 DEF LoadSent, IsLoad
  <2> QED BY <1>5, <2>3, <2>5, LogKeeps
<1>9. c = Loader => ~LoadSent(target[c]) /\ watcher.pc = "load" /\ target[c] = watcher.addr
  BY <1>1 DEF OrderOK, GreetedOK, LoaderOK, IInv, TypeOK
<1>10. c # Loader => LoadSent(target[c])
  BY <1>1 DEF OrderOK, LoaderOK, Calls
<1>11. KnownOK'
  BY <1>1, <1>4, <1>5, <1>6, <1>7 DEF OrderOK, KnownOK, Known, LogGrows
<1>12. LoaderOK'
  <2>1. (watcher.pc = "select" => pc[Loader] = "idle")'
    BY <1>1, <1>6, <1>9 DEF OrderOK, LoaderOK, IInv, TypeOK
  <2>2. (pc[Loader] # "idle" => target[Loader] = watcher.addr)'
    BY <1>1, <1>6 DEF OrderOK, LoaderOK
  <2>3. (pc[Loader] \in {"waiting", "done"} => LoadSent(target[Loader]))'
    BY <1>1, <1>6, <1>8 DEF OrderOK, LoaderOK, LoadSent, IsLoad
  <2>4. (\A a \in workers : LoadSent(a))'
    BY <1>1, <1>8 DEF OrderOK, LoaderOK, LoadSent, IsLoad
  <2>5. (\A r \in Requests : pc[r] = "picked" => LoadSent(target[r]))'
    BY <1>1, <1>6, <1>8 DEF OrderOK, LoaderOK, LoadSent, IsLoad
  <2> QED BY <2>1, <2>2, <2>3, <2>4, <2>5 DEF LoaderOK
<1>13. GreetedOK'
  <2>1. (\A i, j \in DOMAIN log :
           IsConnect(i) /\ IsConnect(j) /\ log[i].addr = log[j].addr => i = j)'
    BY <1>4, <1>5, LogKeeps DEF OrderOK, GreetedOK, LogGrows, IsConnect
  <2>2. (\A i, j \in DOMAIN log : IsLoad(i) /\ IsLoad(j) /\ log[i].addr = log[j].addr => i = j)'
    <3> SUFFICES ASSUME NEW i \in DOMAIN log', NEW j \in DOMAIN log', i # j, IsLoad(i)', IsLoad(j)',
                        log'[i].addr = log'[j].addr
                 PROVE  FALSE
      OBVIOUS
    <3>1. CASE i \in DOMAIN log /\ j \in DOMAIN log
      BY <1>5, <3>1, LogKeeps DEF OrderOK, GreetedOK, LogGrows
    <3>2. ASSUME NEW k \in DOMAIN log, NEW n, n = Len(log) + 1,
                 IsLoad(k)', log'[k].addr = e.addr, IsLoad(n)'
          PROVE  FALSE
      <4>1. c = Loader
        BY <1>4, <1>5, <3>2 DEF IsLoad, Kind
      <4>2. LoadSent(target[c])
        BY <1>4, <1>5, <3>2, LogKeeps DEF LogGrows, LoadSent
      <4> QED BY <1>9, <4>1, <4>2
    <3> QED BY <1>5, <3>1, <3>2
  <2>3. (watcher.pc = "load" /\ pc[Loader] \in {"idle", "picked"} => ~LoadSent(watcher.addr))'
    <3> SUFFICES ASSUME watcher.pc = "load", pc'[Loader] \in {"idle", "picked"},
                        LoadSent(watcher.addr)'
                 PROVE  FALSE
      BY <1>1 DEF LoadSent, IsLoad
    <3>1. c # Loader /\ pc'[Loader] = pc[Loader]
      BY <1>6
    <3>2. LoadSent(watcher.addr)
      <4>1. PICK a : a = watcher.addr /\ a = watcher'.addr
        BY <1>1
      <4>2. LoadSent(a)'
        BY <4>1 DEF LoadSent, IsLoad
      <4> QED BY <1>8, <3>1, <4>1, <4>2
    <3> QED BY <3>1, <3>2 DEF OrderOK, GreetedOK
  <2>4. (\A i \in DOMAIN log :
          IsConnect(i) /\ Greeted(log[i].addr) => ~Bus!Attached(ConnRx) \/ i <= cursor[ConnRx])'
    <3> SUFFICES ASSUME NEW i \in DOMAIN log', IsConnect(i)', NEW b, b = log'[i].addr, Greeted(b)'
                 PROVE  cursor'[ConnRx] = Bus!Detached \/ i <= cursor'[ConnRx]
      BY DEF Bus!Attached, Greeted, LoadSent, IsLoad
    <3>1. Greeted(b)
      BY <1>1, <1>8, <1>9 DEF Greeted
    <3>2. i \in DOMAIN log /\ log'[i] = log[i]
      BY <1>4, <1>5 DEF LogGrows, IsConnect
    <3> QED BY <1>1, <3>1, <3>2 DEF OrderOK, GreetedOK, Bus!Attached, IsConnect
  <2> QED BY <2>1, <2>2, <2>3, <2>4 DEF GreetedOK
<1>14. LoadBeforeGenerate'
  <2> SUFFICES ASSUME NEW i \in DOMAIN log',
                      log'[i].type = "SendNewPacket", log'[i].packet.kind = "Generate"
               PROVE  \E j \in 1..(i - 1) :
                        /\ log'[j].type = "SendNewPacket" /\ log'[j].packet.kind = "Load"
                        /\ log'[j].addr = log'[i].addr
    BY DEF LoadBeforeGenerate
  <2>1. CASE i \in DOMAIN log
    <3>1. PICK j \in 1..(i - 1) :
            /\ log[j].type = "SendNewPacket" /\ log[j].packet.kind = "Load"
            /\ log[j].addr = log[i].addr
      BY <1>5, <2>1 DEF OrderOK, LoadBeforeGenerate, LogGrows
    <3> QED BY <1>5, <2>1, <3>1 DEF LogGrows
  <2>2. CASE i = Len(log) + 1
    <3>1. c # Loader
      BY <1>4, <1>5, <2>2 DEF Kind
    <3>2. PICK j \in DOMAIN log : IsLoad(j) /\ log[j].addr = target[c]
      BY <1>10, <3>1 DEF LoadSent
    <3> QED BY <1>4, <1>5, <2>2, <3>2 DEF LogGrows, IsLoad
  <2> QED BY <1>5, <2>1, <2>2
<1> QED BY <1>11, <1>12, <1>13, <1>14 DEF OrderOK

LEMMA InitOrder == Init => OrderOK
  BY GatewayAssumption
  DEF Init, OrderOK, KnownOK, LoaderOK, GreetedOK, LoadBeforeGenerate, Bus!BusInit, Calls

LEMMA NextOrder == IInv /\ OrderOK /\ [Next]_vars => OrderOK'
<1> SUFFICES ASSUME IInv, OrderOK, [Next]_vars PROVE OrderOK'
  OBVIOUS
<1>1. ASSUME NEW a \in Addrs, Connect(a) \/ SocketStep(a) \/ WorkerAnswers(a) \/ WorkerDies(a)
      PROVE  OrderOK'
  BY <1>1, ConnectOrder, QuietSocketOrder
<1>2. ASSUME NEW r \in Requests, GenerateStart(r) \/ CallStep(r) \/ ClientHangsUp(r)
      PROVE  OrderOK'
  BY <1>2, QuietRequestOrder, SendCommandOrder DEF CallStep, Calls
<1>3. CASE WatcherStep
  BY <1>3, QuietWatcherOrder, SeesConnectOrder, LoadStartOrder, SendCommandOrder,
     LoadReturnsOrder, RegistersOrder DEF WatcherStep, Calls
<1>4. CASE UNCHANGED vars
  BY <1>4 DEF vars, busVars, callVars, workerVars, OrderOK, KnownOK, LoaderOK, GreetedOK,
              LoadBeforeGenerate, Known, LoadSent, IsLoad, IsConnect, Greeted, Bus!Attached
<1> QED BY <1>1, <1>2, <1>3, <1>4 DEF Next

-------------------------------------------------------------------------------
(***************************************************************************)
(* The wait.  AwaitedReply is inductive once its workers are known to have  *)
(* connected: a step moves the command, or the answer, from one of the      *)
(* places it can be in to the next.                                         *)
(***************************************************************************)
UnderWay(c) ==
  CommandQueued(c) \/ CommandAtWorker(c) \/ AnswerOnWire(c) \/ AnswerQueued(c) \/ Lagged(c)

(* The call still waits for the same command.                               *)
Waits(c) ==
  /\ pc[c] = "waiting"
  /\ LogGrows /\ reqId'[c] = reqId[c] /\ target'[c] = target[c]

LEMMA LogMembers ==
  ASSUME TypeOK, log' = log \/ \E e \in Event : log' = Append(log, e)
  PROVE  /\ LogGrows /\ Len(log) \in Nat /\ Len(log') \in Nat /\ Len(log) <= Len(log')
         /\ DOMAIN log = 1..Len(log) /\ DOMAIN log' = 1..Len(log')
<1>1. log \in Seq(Event)
  BY DEF TypeOK, Bus!BusTypeOK
<1>2. CASE log' = log
  BY <1>1, <1>2 DEF LogGrows
<1>3. CASE \E e \in Event : log' = Append(log, e)
  BY <1>1, <1>3 DEF LogGrows
<1> QED BY <1>2, <1>3

LEMMA CommandStays ==
  ASSUME NEW c \in Calls, Waits(c)
  PROVE  /\ \A i : IsCommandOf(c, i) => IsCommandOf(c, i)'
         /\ \A i : i \in Endings(c) => i \in Endings(c)'
         /\ CommandOf(c)' = CommandOf(c)
         /\ \A ans : Ends(c, ans)' <=> Ends(c, ans)
<1>1. CommandOf(c)' = CommandOf(c) /\ \A ans : Ends(c, ans)' <=> Ends(c, ans)
  BY DEF Waits, CommandOf, Ends
<1>2. \A i : IsCommandOf(c, i) => IsCommandOf(c, i)'
  BY <1>1 DEF IsCommandOf, OfType, Waits, LogGrows
<1>3. \A i : i \in Endings(c) => i \in Endings(c)'
  <2> SUFFICES ASSUME NEW i, i \in Endings(c) PROVE i \in Endings(c)'
    OBVIOUS
  <2>1. i \in DOMAIN log /\ log[i].type = "NewPacketReceived" /\ log[i].addr = target[c]
        /\ Ends(c, log[i].packet)
    BY DEF Endings, OfType
  <2>2. log'[i] = log[i] /\ i \in DOMAIN log'
    BY <2>1 DEF Waits, LogGrows
  <2>3. PICK ans : ans = log[i].packet
    OBVIOUS
  <2>4. Ends(c, ans)'
    BY <1>1, <2>1, <2>3
  <2> QED BY <2>1, <2>2, <2>3, <2>4 DEF Endings, OfType, Ends, Waits
<1> QED BY <1>1, <1>2, <1>3

LEMMA LagStays ==
  ASSUME TypeOK, NEW c \in Calls, Waits(c), Lagged(c),
         log' = log \/ \E e \in Event : log' = Append(log, e)
  PROVE  Lagged(c)'
<1>1. PICK i \in DOMAIN log : Bus!Overwritten(i) /\ (IsCommandOf(c, i) \/ i \in Endings(c))
  BY DEF Lagged
<1>2. i \in DOMAIN log' /\ Bus!Overwritten(i)'
  BY <1>1, LogMembers, GatewayAssumption DEF Bus!Overwritten, LogGrows
<1> QED BY <1>1, <1>2, CommandStays DEF Lagged

LEMMA QueuedStays ==
  ASSUME NEW c \in Calls, Waits(c), CommandQueued(c),
         cursor'[SockRx(target[c])] = cursor[SockRx(target[c])]
  PROVE  CommandQueued(c)'
<1>1. PICK i \in DOMAIN log : IsCommandOf(c, i) /\ cursor[SockRx(target[c])] < i
  BY DEF CommandQueued
<1> QED BY <1>1, CommandStays DEF CommandQueued, Waits, LogGrows, SockRx

LEMMA AnswerQueuedStays ==
  ASSUME NEW c \in Calls, Waits(c), AnswerQueued(c),
         cursor'[CallRx(c)] = cursor[CallRx(c)]
  PROVE  AnswerQueued(c)'
  BY CommandStays DEF AnswerQueued

LEMMA AtWorkerStays ==
  ASSUME NEW c \in Calls, Waits(c), CommandOf(c) \in inbox'[target[c]]
  PROVE  CommandAtWorker(c)'
  BY CommandStays DEF CommandAtWorker, Waits

LEMMA OnWireStays ==
  ASSUME NEW c \in Calls, Waits(c),
         \E i \in DOMAIN outbox'[target[c]] : Ends(c, outbox'[target[c]][i])
  PROVE  AnswerOnWire(c)'
<1>1. PICK t, i, ans : t = target[c] /\ i \in DOMAIN outbox'[t] /\ ans = outbox'[t][i] /\ Ends(c, ans)
  OBVIOUS
<1>2. Ends(c, ans)' /\ target'[c] = t
  BY <1>1, CommandStays DEF Waits
<1> QED BY <1>1, <1>2 DEF AnswerOnWire, Ends

(* A step that leaves the receivers, the inbox and the outbox of a call     *)
(* alone.                                                                   *)
LEMMA UnderWayStays ==
  ASSUME TypeOK, NEW c \in Calls, Waits(c), UnderWay(c),
         log' = log \/ \E e \in Event : log' = Append(log, e),
         cursor'[SockRx(target[c])] = cursor[SockRx(target[c])],
         cursor'[CallRx(c)] = cursor[CallRx(c)],
         inbox'[target[c]] = inbox[target[c]],
         outbox'[target[c]] = outbox[target[c]]
  PROVE  UnderWay(c)'
<1>1. CASE CommandQueued(c)
  BY <1>1, QueuedStays DEF UnderWay
<1>2. CASE CommandAtWorker(c)
  BY <1>2, AtWorkerStays DEF UnderWay, CommandAtWorker
<1>3. CASE AnswerOnWire(c)
  BY <1>3, OnWireStays DEF UnderWay, AnswerOnWire
<1>4. CASE AnswerQueued(c)
  BY <1>4, AnswerQueuedStays DEF UnderWay
<1>5. CASE Lagged(c)
  BY <1>5, LagStays DEF UnderWay
<1> QED BY <1>1, <1>2, <1>3, <1>4, <1>5 DEF UnderWay

(* The steps that change neither a connection nor a message in it.          *)
LEMMA IdleStepAwaits ==
  ASSUME IInv, AwaitedReply, UNCHANGED <<log, sock, up, inbox, outbox>>,
         \A a \in Addrs : cursor'[SockRx(a)] = cursor[SockRx(a)],
         \A c \in Calls : pc'[c] = "waiting" =>
           /\ pc[c] = "waiting" /\ reqId'[c] = reqId[c] /\ target'[c] = target[c]
           /\ cursor'[CallRx(c)] = cursor[CallRx(c)]
  PROVE  AwaitedReply'
<1> SUFFICES ASSUME NEW c \in Calls, pc'[c] = "waiting", Connection(target[c])'
             PROVE  UnderWay(c)'
  BY DEF AwaitedReply, UnderWay
<1>1. Waits(c) /\ target[c] \in Addrs
  BY DEF Waits, LogGrows, IInv, PhaseOK
<1>2. UnderWay(c)
  BY <1>1 DEF AwaitedReply, UnderWay, Connection, Waits
<1> QED BY <1>1, <1>2, UnderWayStays DEF IInv

LEMMA RequestAwaits ==
  ASSUME IInv, AwaitedReply, NEW d \in Calls,
         \/ d \in Requests /\ (GenerateStart(d) \/ GeneratePick(d) \/ ClientHangsUp(d))
         \/ d = Loader /\ LoadStart
         \/ ReceiveAnswer(d)
  PROVE  AwaitedReply'
<1>1. TypeOK /\ UNCHANGED <<log, sock, up, inbox, outbox>>
  BY DEF IInv, GenerateStart, GeneratePick, ClientHangsUp, LoadStart, ReceiveAnswer, workerVars
<1>2. /\ \A c \in Calls \ {d} : /\ pc'[c] = pc[c] /\ reqId'[c] = reqId[c]
                                 /\ target'[c] = target[c]
      /\ pc'[d] # "waiting"
  BY <1>1, CallTypes
  DEF GenerateStart, GeneratePick, ClientHangsUp, LoadStart, ReceiveAnswer, Begin
<1>3. \A s \in Receivers : s # CallRx(d) => cursor'[s] = cursor[s]
  <2>1. Bus!Subscribe(CallRx(d)) \/ Bus!Drop({CallRx(d)}) \/ UNCHANGED cursor
    BY DEF GenerateStart, GeneratePick, ClientHangsUp, LoadStart, ReceiveAnswer, Begin
  <2> QED BY <1>1, <2>1, ReceiversExist, OtherCursors
<1>4. /\ \A a \in Addrs : cursor'[SockRx(a)] = cursor[SockRx(a)]
      /\ \A c \in Calls \ {d} : cursor'[CallRx(c)] = cursor[CallRx(c)]
  BY <1>3, ReceiversExist, ReceiversDiffer
<1> QED BY <1>1, <1>2, <1>4, IdleStepAwaits

LEMMA WatcherAwaits ==
  ASSUME IInv, AwaitedReply,
         \/ \E rx \in {ConnRx, DiscRx} : WatcherSubscribes(rx) \/ WatcherSkips(rx)
         \/ WatcherSeesConnect \/ WatcherSeesDisconnect \/ WatcherRegisters
  PROVE  AwaitedReply'
<1>1. TypeOK /\ UNCHANGED <<log, sock, up, inbox, outbox, reqId, target>>
  BY DEF IInv, WatcherSubscribes, WatcherSkips, WatcherSeesConnect, WatcherSeesDisconnect,
         WatcherRegisters, workerVars, busVars, callVars
<1>2. \A c \in Calls : pc'[c] = "waiting" => pc[c] = "waiting"
  BY <1>1, CallTypes
  DEF WatcherSubscribes, WatcherSkips, WatcherSeesConnect, WatcherSeesDisconnect,
      WatcherRegisters, callVars
<1>3. \A s \in Receivers : s \notin {ConnRx, DiscRx} => cursor'[s] = cursor[s]
  <2>1. \/ \E rx \in {ConnRx, DiscRx} : Bus!Subscribe(rx) \/ Bus!Drop({rx})
        \/ Bus!Drop({ConnRx, DiscRx}) \/ UNCHANGED cursor
    BY DEF WatcherSubscribes, WatcherSkips, WatcherSeesConnect, WatcherSeesDisconnect,
           WatcherRegisters, busVars
  <2> QED BY <1>1, <2>1, ReceiversExist DEF Bus!Subscribe, Bus!Drop, TypeOK, Bus!BusTypeOK
<1>4. /\ \A a \in Addrs : cursor'[SockRx(a)] = cursor[SockRx(a)]
      /\ \A c \in Calls : cursor'[CallRx(c)] = cursor[CallRx(c)]
  BY <1>3, ReceiversExist, ReceiversDiffer
<1> QED BY <1>1, <1>2, <1>4, IdleStepAwaits

(* A command that was just published is behind no receiver.                 *)
LEMMA SendCommandAwaits ==
  ASSUME IInv, AwaitedReply, NEW d \in Calls, SendCommand(d) PROVE AwaitedReply'
<1>1. /\ TypeOK /\ UNCHANGED <<cursor, reqId, target, sock, up, inbox, outbox>>
      /\ pc[d] = "picked" /\ pc' = [pc EXCEPT ![d] = "waiting"]
  BY DEF IInv, SendCommand, workerVars
<1>2. target[d] \in Addrs /\ CommandOf(d) \in Command
  BY <1>1 DEF IInv, PhaseOK, CommandOf, Command, Kind
<1>3. PICK e \in Event : e = Send(target[d], CommandOf(d)) /\ log' = Append(log, e)
  BY <1>2, EventsAreTyped DEF SendCommand, Bus!Publish
<1>4. /\ LogGrows /\ Len(log) \in Nat
      /\ DOMAIN log = 1..Len(log) /\ DOMAIN log' = DOMAIN log \cup {Len(log) + 1}
      /\ log'[Len(log) + 1] = e
  BY <1>1, <1>3, AppendedEvent
<1> SUFFICES ASSUME NEW c \in Calls, pc'[c] = "waiting", Connection(target[c])'
             PROVE  UnderWay(c)'
  BY DEF AwaitedReply, UnderWay
<1>5. CASE c = d
  <2>1. PICK n : n = Len(log) + 1
    OBVIOUS
  <2>2. n \in DOMAIN log' /\ log'[n] = e
    BY <1>4, <2>1
  <2>3. e.type = "SendNewPacket" /\ e.addr = target[d] /\ e.packet = CommandOf(d)
    BY <1>3 DEF Send
  <2>4. IsCommandOf(d, n)'
    BY <1>1, <2>2, <2>3 DEF IsCommandOf, OfType, CommandOf
  <2>5. cursor[SockRx(target[d])] < n
    <3>1. SockRx(target[d]) \in Receivers
      BY <1>2, ReceiversExist
    <3> QED BY <1>1, <1>4, <2>1, <3>1 DEF TypeOK, Bus!BusTypeOK, Bus!Detached
  <2> QED BY <1>1, <1>5, <2>2, <2>4, <2>5 DEF UnderWay, CommandQueued, SockRx
<1>6. CASE c # d
  <2>1. Waits(c) /\ target[c] \in Addrs
    BY <1>1, <1>4, <1>6, CallTypes DEF Waits, IInv, PhaseOK
  <2>2. UnderWay(c)
    BY <1>1, <2>1 DEF AwaitedReply, UnderWay, Connection, Waits
  <2> QED BY <1>1, <1>3, <2>1, <2>2, UnderWayStays
<1> QED BY <1>5, <1>6

(* The steps of connection a: the calls keep waiting, and those that wait   *)
(* for another worker are not concerned.                                    *)
LEMMA SocketStepWaits ==
  ASSUME IInv, OrderOK, AwaitedReply, NEW a \in Addrs,
         Connect(a) \/ SocketStep(a) \/ WorkerAnswers(a) \/ WorkerDies(a)
  PROVE  /\ TypeOK /\ UNCHANGED <<pc, reqId, target>>
         /\ log' = log \/ \E e \in Event : log' = Append(log, e)
         /\ \A s \in Receivers : s # SockRx(a) => cursor'[s] = cursor[s]
         /\ \A c \in Calls : cursor'[CallRx(c)] = cursor[CallRx(c)]
         /\ \A c \in Calls : pc[c] = "waiting" => Waits(c) /\ target[c] \in Addrs
         /\ \A c \in Calls :
              pc[c] = "waiting" /\ target[c] # a /\ Connection(target[c])' => UnderWay(c)'
<1>1. TypeOK /\ UNCHANGED <<pc, reqId, target>>
  BY DEF IInv, Connect, SocketStep, SocketReads, SocketReadError, SocketWrites, WorkerAnswers,
         WorkerDies, callVars
<1>2. log' = log \/ \E e \in Event : log' = Append(log, e)
  <2>1. CASE SocketReads(a)
    <3>1. Head(outbox[a]) \in Answer
      BY <1>1, <2>1 DEF TypeOK, SocketReads
    <3> QED BY <2>1, <3>1, EventsAreTyped DEF SocketReads, Bus!Publish
  <2>2. CASE Connect(a) \/ SocketReadError(a)
    BY <2>2, EventsAreTyped DEF Connect, SocketReadError, Bus!Publish
  <2>3. CASE SocketWrites(a) \/ WorkerAnswers(a) \/ WorkerDies(a)
    BY <2>3 DEF SocketWrites, WorkerAnswers, WorkerDies, busVars
  <2> QED BY <2>1, <2>2, <2>3 DEF SocketStep
<1>3. \A s \in Receivers : s # SockRx(a) => cursor'[s] = cursor[s]
  <2>1. \/ UNCHANGED cursor \/ Bus!Subscribe(SockRx(a)) \/ Bus!Drop({SockRx(a)})
        \/ \E i \in DOMAIN log : Bus!MoveTo(SockRx(a), i)
    BY DEF Connect, SocketStep, SocketReads, SocketReadError, SocketWrites, WorkerAnswers,
           WorkerDies, busVars, OfType
  <2> QED BY <1>1, <2>1, ReceiversExist, OtherCursors
<1>4. \A c \in Calls : cursor'[CallRx(c)] = cursor[CallRx(c)]
  BY <1>3, ReceiversExist, ReceiversDiffer
<1>5. \A c \in Calls : pc[c] = "waiting" => Waits(c) /\ target[c] \in Addrs
  BY <1>1, <1>2, LogMembers DEF Waits, IInv, PhaseOK
<1>6. ASSUME NEW c \in Calls, pc[c] = "waiting", target[c] # a, Connection(target[c])'
      PROVE  UnderWay(c)'
  <2>1. Waits(c) /\ target[c] \in Addrs
    BY <1>5, <1>6
  <2>2. Connection(target[c])
    <3>1. up' = up \/ up' = up \cup {a} \/ up' = up \ {a}
      BY DEF Connect, SocketStep, SocketReads, SocketReadError, SocketWrites, WorkerAnswers,
             WorkerDies
    <3>2. \A b \in Addrs \ {a} : sock'[b] = sock[b]
      BY <1>1 DEF Connect, SocketStep, SocketReads, SocketReadError, SocketWrites, WorkerAnswers,
                  WorkerDies, TypeOK
    <3> QED BY <1>1, <1>6, <2>1, <3>1, <3>2 DEF Connection
  <2>3. UnderWay(c)
    BY <1>6, <2>2 DEF AwaitedReply, UnderWay
  <2>4. cursor'[SockRx(target[c])] = cursor[SockRx(target[c])]
    BY <1>3, <1>6, <2>1, ReceiversExist, ReceiversDiffer
  <2>5. \A b \in Addrs \ {a} : inbox'[b] = inbox[b] /\ outbox'[b] = outbox[b]
    BY <1>1 DEF Connect, SocketStep, SocketReads, SocketReadError, SocketWrites, WorkerAnswers,
                WorkerDies, TypeOK
  <2> QED BY <1>1, <1>2, <1>4, <1>6, <2>1, <2>3, <2>4, <2>5, UnderWayStays
<1> QED BY <1>1, <1>2, <1>3, <1>4, <1>5, <1>6

(* A connection that opens, fails or dies serves no call of its own.        *)
LEMMA ConnectionAwaits ==
  ASSUME IInv, OrderOK, AwaitedReply, NEW a \in Addrs,
         Connect(a) \/ SocketReadError(a) \/ WorkerDies(a)
  PROVE  AwaitedReply'
<1> SUFFICES ASSUME NEW c \in Calls, pc'[c] = "waiting", Connection(target[c])'
             PROVE  UnderWay(c)'
  BY DEF AwaitedReply, UnderWay
<1>1. TypeOK /\ pc[c] = "waiting" /\ target'[c] = target[c]
  BY SocketStepWaits DEF SocketStep
<1>2. target[c] # a
  <2>1. CASE Connect(a)
    BY <1>1, <2>1 DEF OrderOK, KnownOK, Known, Connect
  <2>2. CASE SocketReadError(a)
    BY <1>1, <2>2 DEF SocketReadError, Connection, TypeOK
  <2>3. CASE WorkerDies(a)
    BY <1>1, <2>3 DEF WorkerDies, Connection
  <2> QED BY <2>1, <2>2, <2>3
<1> QED BY <1>1, <1>2, SocketStepWaits DEF SocketStep

(* The packet read next ends the call, or leaves the one that does in the   *)
(* outbox.                                                                  *)
LEMMA SocketReadsAwaits ==
  ASSUME IInv, OrderOK, AwaitedReply, NEW a \in Addrs, SocketReads(a) PROVE AwaitedReply'
<1> SUFFICES ASSUME NEW c \in Calls, pc'[c] = "waiting", Connection(target[c])', target'[c] = a
             PROVE  UnderWay(c)'
  BY SocketStepWaits DEF AwaitedReply, UnderWay, SocketStep
<1>1. /\ TypeOK /\ pc[c] = "waiting" /\ target[c] = a /\ Waits(c)
      /\ log' = log \/ \E e \in Event : log' = Append(log, e)
      /\ cursor'[CallRx(c)] = cursor[CallRx(c)]
  BY SocketStepWaits DEF SocketStep
<1>2. UNCHANGED <<cursor, sock, up, inbox>> /\ outbox' = [outbox EXCEPT ![a] = Tail(@)]
  BY DEF SocketReads
<1>3. UnderWay(c)
  BY <1>1, <1>2 DEF AwaitedReply, UnderWay, Connection
<1>4. CASE AnswerOnWire(c)
  <2>1. outbox[a] \in Seq(Answer) /\ outbox[a] # <<>> /\ outbox'[a] = Tail(outbox[a])
    BY <1>1, <1>2 DEF TypeOK, SocketReads
  <2>2. PICK k \in DOMAIN outbox[a] : Ends(c, outbox[a][k])
    BY <1>1, <1>4 DEF AnswerOnWire
  <2>3. CASE k = 1
    <3>1. PICK ans \in Answer : ans = outbox[a][1] /\ ans = Head(outbox[a]) /\ Ends(c, ans)
      BY <2>1, <2>2, <2>3
    <3>2. PICK e \in Event : e = Received(a, ans) /\ log' = Append(log, e)
      BY <3>1, EventsAreTyped DEF SocketReads, Bus!Publish
    <3>3. PICK n : n = Len(log) + 1
      OBVIOUS
    <3>4. n \in DOMAIN log' /\ log'[n] = e /\ n \in Nat /\ Len(log) < n
      BY <1>1, <3>2, <3>3, AppendedEvent
    <3>5. e.type = "NewPacketReceived" /\ e.addr = a /\ e.packet = ans
      BY <3>2 DEF Received
    <3>6. Ends(c, ans)' /\ target'[c] = a
      BY <1>1, <3>1, CommandStays DEF Waits
    <3>7. n \in Endings(c)'
      BY <3>4, <3>5, <3>6 DEF Endings, OfType, Ends
    <3>8. cursor'[CallRx(c)] < n
      <4>1. CallRx(c) \in Receivers /\ Len(log) \in Nat
        BY <1>1, ReceiversExist DEF TypeOK, Bus!BusTypeOK
      <4>2. cursor[CallRx(c)] <= Len(log) /\ cursor[CallRx(c)] \in Int
        BY <1>1, <4>1 DEF TypeOK, Bus!BusTypeOK, Bus!Detached
      <4> QED BY <1>1, <3>4, <4>1, <4>2
    <3> QED BY <3>7, <3>8 DEF UnderWay, AnswerQueued
  <2>4. CASE k # 1
    <3>1. k - 1 \in DOMAIN outbox'[a] /\ outbox'[a][k - 1] = outbox[a][k]
      BY <2>1, <2>2, <2>4
    <3>2. \E i \in DOMAIN outbox'[target[c]] : Ends(c, outbox'[target[c]][i])
      BY <1>1, <2>2, <3>1
    <3> QED BY <1>1, <3>2, OnWireStays DEF UnderWay
  <2> QED BY <2>3, <2>4
<1>5. CASE CommandQueued(c)
  BY <1>1, <1>2, <1>5, QueuedStays DEF UnderWay
<1>6. CASE CommandAtWorker(c)
  BY <1>1, <1>2, <1>6, AtWorkerStays DEF UnderWay, CommandAtWorker
<1>7. CASE AnswerQueued(c)
  BY <1>1, <1>7, AnswerQueuedStays DEF UnderWay
<1>8. CASE Lagged(c)
  BY <1>1, <1>8, LagStays DEF UnderWay
<1> QED BY <1>3, <1>4, <1>5, <1>6, <1>7, <1>8 DEF UnderWay

(* The socket task goes to the next command of its worker: it writes that   *)
(* one, keeps those behind it, and passes only what the bus has overwritten. *)
LEMMA SocketWritesAwaits ==
  ASSUME IInv, OrderOK, AwaitedReply, NEW a \in Addrs, SocketWrites(a) PROVE AwaitedReply'
<1> SUFFICES ASSUME NEW c \in Calls, pc'[c] = "waiting", Connection(target[c])', target'[c] = a
             PROVE  UnderWay(c)'
  BY SocketStepWaits DEF AwaitedReply, UnderWay, SocketStep
<1>1. /\ TypeOK /\ pc[c] = "waiting" /\ target[c] = a /\ Waits(c)
      /\ cursor'[CallRx(c)] = cursor[CallRx(c)]
      /\ log' = log /\ up' = up /\ sock[a] = "open"
  BY SocketStepWaits DEF SocketStep, SocketWrites
<1>2. a \in up
  BY <1>1 DEF Connection
<1>3. PICK i \in OfType("SendNewPacket", a) :
        /\ Bus!IsNext(SockRx(a), i, OfType("SendNewPacket", a))
        /\ Bus!MoveTo(SockRx(a), i)
        /\ inbox' = [inbox EXCEPT ![a] = @ \cup {log[i].packet}]
        /\ outbox' = outbox
  BY <1>2 DEF SocketWrites
<1>4. inbox'[a] = inbox[a] \cup {log[i].packet} /\ cursor'[SockRx(a)] = i
  <2>1. SockRx(a) \in Receivers
    BY ReceiversExist
  <2> QED BY <1>1, <1>3, <2>1 DEF TypeOK, Bus!BusTypeOK, Bus!MoveTo
<1>5. UnderWay(c)
  BY <1>1, <1>2 DEF AwaitedReply, UnderWay, Connection
<1>6. CASE CommandQueued(c)
  <2>1. PICK k \in DOMAIN log : IsCommandOf(c, k) /\ cursor[SockRx(a)] < k
    BY <1>1, <1>6 DEF CommandQueued
  <2>2. k \in OfType("SendNewPacket", a) /\ k \in 1..Len(log) /\ i \in 1..Len(log)
    BY <1>1, <2>1 DEF IsCommandOf, OfType, TypeOK, Bus!BusTypeOK
  <2>3. CASE Bus!Overwritten(k)
    BY <1>1, <2>1, <2>3, LagStays DEF UnderWay, Lagged
  <2>4. CASE k = i
    <3>1. CommandOf(c) \in inbox'[a]
      BY <1>4, <2>1, <2>4 DEF IsCommandOf
    <3> QED BY <1>1, <3>1, AtWorkerStays DEF UnderWay
  <2>5. CASE ~Bus!Overwritten(k) /\ k # i
    <3>1. i < k
      BY <1>3, <2>1, <2>2, <2>5 DEF Bus!IsNext, Bus!Pending
    <3>2. IsCommandOf(c, k)' /\ k \in DOMAIN log'
      BY <1>1, <2>1, CommandStays
    <3> QED BY <1>1, <1>4, <3>1, <3>2 DEF UnderWay, CommandQueued, SockRx, Waits
  <2> QED BY <2>3, <2>4, <2>5
<1>7. CASE CommandAtWorker(c)
  BY <1>1, <1>4, <1>7, AtWorkerStays DEF UnderWay, CommandAtWorker
<1>8. CASE AnswerOnWire(c)
  BY <1>1, <1>3, <1>8, OnWireStays DEF UnderWay, AnswerOnWire
<1>9. CASE AnswerQueued(c)
  BY <1>1, <1>9, AnswerQueuedStays DEF UnderWay
<1>10. CASE Lagged(c)
  BY <1>1, <1>10, LagStays DEF UnderWay
<1> QED BY <1>5, <1>6, <1>7, <1>8, <1>9, <1>10 DEF UnderWay

(* Whatever a worker answers to the command of a call ends that call.       *)
LEMMA AnswerEnds ==
  ASSUME NEW c \in Calls, NEW a \in Addrs, NEW outcome \in Outcomes(a)
  PROVE  Ends(c, AnswerTo(CommandOf(c), outcome))
  BY DEF Ends, AnswerTo, CommandOf, Outcomes

LEMMA WorkerAnswersAwaits ==
  ASSUME IInv, OrderOK, AwaitedReply, NEW a \in Addrs, WorkerAnswers(a) PROVE AwaitedReply'
<1> SUFFICES ASSUME NEW c \in Calls, pc'[c] = "waiting", Connection(target[c])', target'[c] = a
             PROVE  UnderWay(c)'
  BY SocketStepWaits DEF AwaitedReply, UnderWay, SocketStep
<1>1. /\ TypeOK /\ pc[c] = "waiting" /\ target[c] = a /\ Waits(c)
      /\ UNCHANGED <<log, cursor, sock, up>>
  BY SocketStepWaits DEF WorkerAnswers, busVars
<1>2. PICK cmd \in inbox[a], outcome \in Outcomes(a) :
        /\ inbox' = [inbox EXCEPT ![a] = @ \ {cmd}]
        /\ outbox' = [outbox EXCEPT ![a] = Append(@, AnswerTo(cmd, outcome))]
  BY DEF WorkerAnswers
<1>3. PICK ans : ans = AnswerTo(cmd, outcome)
  OBVIOUS
<1>4. /\ inbox'[a] = inbox[a] \ {cmd}
      /\ outbox[a] \in Seq(Answer) /\ ans \in Answer /\ outbox'[a] = Append(outbox[a], ans)
  BY <1>1, <1>2, <1>3, AnswersAreTyped DEF TypeOK
<1>5. UnderWay(c)
  BY <1>1 DEF AwaitedReply, UnderWay, Connection
<1>6. CASE CommandAtWorker(c)
  <2>1. CASE cmd = CommandOf(c)
    <3>1. Ends(c, ans)
      BY <1>3, <2>1, AnswerEnds
    <3>2. Len(outbox[a]) + 1 \in DOMAIN outbox'[a] /\ outbox'[a][Len(outbox[a]) + 1] = ans
      BY <1>4
    <3> QED BY <1>1, <3>1, <3>2, OnWireStays DEF UnderWay
  <2>2. CASE cmd # CommandOf(c)
    BY <1>1, <1>4, <1>6, <2>2, AtWorkerStays DEF UnderWay, CommandAtWorker
  <2> QED BY <2>1, <2>2
<1>7. CASE AnswerOnWire(c)
  <2>1. PICK k \in DOMAIN outbox[a] : Ends(c, outbox[a][k])
    BY <1>1, <1>7 DEF AnswerOnWire
  <2>2. k \in DOMAIN outbox'[a] /\ outbox'[a][k] = outbox[a][k]
    BY <1>4
  <2> QED BY <1>1, <2>1, <2>2, OnWireStays DEF UnderWay
<1>8. CASE CommandQueued(c)
  BY <1>1, <1>8, QueuedStays DEF UnderWay
<1>9. CASE AnswerQueued(c)
  BY <1>1, <1>9, AnswerQueuedStays DEF UnderWay
<1>10. CASE Lagged(c)
  BY <1>1, <1>10, LagStays DEF UnderWay
<1> QED BY <1>5, <1>6, <1>7, <1>8, <1>9, <1>10 DEF UnderWay

LEMMA NextAwaits == IInv /\ OrderOK /\ AwaitedReply /\ [Next]_vars => AwaitedReply'
<1> SUFFICES ASSUME IInv, OrderOK, AwaitedReply, [Next]_vars PROVE AwaitedReply'
  OBVIOUS
<1>1. ASSUME NEW a \in Addrs, Connect(a) \/ SocketStep(a) \/ WorkerAnswers(a) \/ WorkerDies(a)
      PROVE  AwaitedReply'
  BY <1>1, ConnectionAwaits, SocketReadsAwaits, SocketWritesAwaits, WorkerAnswersAwaits
  DEF SocketStep
<1>2. ASSUME NEW r \in Requests, GenerateStart(r) \/ CallStep(r) \/ ClientHangsUp(r)
      PROVE  AwaitedReply'
  BY <1>2, RequestAwaits, SendCommandAwaits DEF CallStep, Calls
<1>3. CASE WatcherStep
  BY <1>3, WatcherAwaits, RequestAwaits, SendCommandAwaits DEF WatcherStep, Calls
<1>4. CASE UNCHANGED vars
  <2>1. \A c \in Calls : pc'[c] = "waiting" => pc[c] = "waiting"
    BY <1>4 DEF vars, callVars
  <2> QED BY <1>4, <2>1, IdleStepAwaits DEF vars, busVars, callVars, workerVars
<1> QED BY <1>1, <1>2, <1>3, <1>4 DEF Next

(* The order of commands and the wait, together with what they rest on.     *)
GatewayIInv == IInv /\ OrderOK /\ AwaitedReply

(* The master's invariant: whoever waits, loads or serves, in any order.    *)
THEOREM OrderInvariance == Spec => []GatewayIInv
<1>1. Init => GatewayIInv
  BY InitIInv, InitOrder DEF GatewayIInv, AwaitedReply, Init
<1>2. GatewayIInv /\ [Next]_vars => GatewayIInv'
  BY NextIInv, NextOrder, NextAwaits DEF GatewayIInv
<1> QED BY <1>1, <1>2, PTL DEF Spec

(* No worker serves a prompt before the watcher had it load the model: the  *)
(* LoadCommand of a worker is published before every GenerateCommand.       *)
THEOREM LoadsComeFirst == Spec => []LoadBeforeGenerate
<1>1. GatewayIInv => LoadBeforeGenerate
  BY DEF GatewayIInv, OrderOK
<1> QED BY OrderInvariance, <1>1, PTL

(* A call that waits on a healthy connection has its command, or a packet   *)
(* that ends it, under way, unless the bus overwrote one of them.           *)
THEOREM NobodyWaitsInVain == Spec => []AwaitedReply
<1>1. GatewayIInv => AwaitedReply
  BY DEF GatewayIInv
<1> QED BY OrderInvariance, <1>1, PTL

-------------------------------------------------------------------------------
(***************************************************************************)
(* The set of registered workers, from here on: WorkerAnnouncements.        *)
(***************************************************************************)
Connects(a)    == OfType("ClientConnected", a)
Disconnects(a) == OfType("ClientDisconnected", a)
Loading(a)     == watcher.pc = "load" /\ watcher.addr = a

(* Nobody is loaded or registered who was not announced.                    *)
ConnectedOK == \A a \in Addrs : a \in workers \/ Loading(a) => Connects(a) # {}

(* The watcher is going to see that a connected, or it has a to show for    *)
(* it, or it has seen that a is gone.                                       *)
SeenOK(a) ==
  \/ Connects(a) \subseteq Coming
  \/ a \in workers \/ Loading(a)
  \/ ~(Disconnects(a) \subseteq Coming)

(* The watcher is going to see that a is gone, or a is not registered and   *)
(* never will be.                                                           *)
GoneOK(a) ==
  \/ Disconnects(a) \subseteq Coming
  \/ a \notin workers /\ ~Loading(a) /\ Connects(a) \cap Coming = {}

NoticedOK == \A a \in Addrs \ missed : SeenOK(a) /\ GoneOK(a)

HistoryIInv == IInv /\ OrderOK /\ ConnectedOK /\ NoticedOK

historyVars == <<vars, missed>>

-------------------------------------------------------------------------------
(***************************************************************************)
(* Announcements in the log and their receivers.                            *)
(***************************************************************************)
LEMMA OldAnnouncements ==
  ASSUME LogGrows
  PROVE  /\ \A i \in DOMAIN log : i \in Announcements' <=> i \in Announcements
         /\ \A i \in DOMAIN log : Awaiter(i)' = Awaiter(i) /\ log'[i] = log[i]
         /\ \A a : \A i \in DOMAIN log : i \in Connects(a)' <=> i \in Connects(a)
         /\ \A a : \A i \in DOMAIN log : i \in Disconnects(a)' <=> i \in Disconnects(a)
  BY DEF LogGrows, Announcements, Awaiter, Connects, Disconnects, OfType

(* The announcements of one worker.                                         *)
LEMMA AnnouncementsOfOne ==
  /\ \A a : \A i \in Connects(a) :
       /\ i \in DOMAIN log /\ i \in Announcements /\ log[i].addr = a
       /\ log[i].type = "ClientConnected" /\ Awaiter(i) = ConnRx
  /\ \A a : \A i \in Disconnects(a) :
       /\ i \in DOMAIN log /\ i \in Announcements /\ log[i].addr = a
       /\ log[i].type = "ClientDisconnected" /\ Awaiter(i) = DiscRx
  BY DEF Connects, Disconnects, OfType, Announcements, Awaiter

LEMMA AwaitersExist ==
  ASSUME TypeOK
  PROVE  \A i : /\ Awaiter(i) \in {ConnRx, DiscRx} /\ Awaiter(i) \in Receivers
                /\ cursor[Awaiter(i)] \in Int /\ cursor[Awaiter(i)] <= Len(log)
<1>1. \A rx \in {ConnRx, DiscRx} : rx \in Receivers /\ cursor[rx] \in Int /\ cursor[rx] <= Len(log)
  BY ReceiversExist DEF TypeOK, Bus!BusTypeOK, Bus!Detached
<1> QED BY <1>1 DEF Awaiter

(* What nobody waits for any more, nobody will.                             *)
LEMMA StaleStays ==
  ASSUME TypeOK, LogGrows, DOMAIN log = 1..Len(log),
         Len(log) \in Nat, Len(log') \in Nat, Len(log) <= Len(log'),
         \A rx \in {ConnRx, DiscRx} : cursor'[rx] \in {cursor[rx], Bus!Detached, Len(log)}
  PROVE  \A i \in DOMAIN log : i \notin Coming => i \notin Coming'
<1> SUFFICES ASSUME NEW i \in DOMAIN log, i \in Coming' PROVE i \in Coming
  OBVIOUS
<1>1. PICK rx \in {ConnRx, DiscRx} : rx = Awaiter(i)
  BY AwaitersExist
<1>2. /\ i \in Announcements /\ Awaiter(i)' = rx
      /\ cursor'[rx] # Bus!Detached /\ cursor'[rx] < i
  BY <1>1, OldAnnouncements DEF Coming, Bus!Attached, Bus!Pending
<1>3. cursor'[rx] = cursor[rx]
  BY <1>2
<1>4. i \in 1..Len(log) /\ ~(i <= Len(log) - Capacity)
  <2>1. i \in DOMAIN log /\ Capacity \in Nat
    BY GatewayAssumption
  <2>2. ~(i <= Len(log') - Capacity)
    BY DEF Coming, Bus!Pending, Bus!Overwritten
  <2> QED BY <2>1, <2>2
<1> QED BY <1>1, <1>2, <1>3, <1>4 DEF Coming, Bus!Attached, Bus!Pending, Bus!Overwritten

(* Only a step that drops its receiver takes an announcement.               *)
LEMMA NotTaken ==
  ASSUME NEW i \in Coming, cursor'[Awaiter(i)] = cursor[Awaiter(i)]
  PROVE  ~Taken(i)
  BY DEF Coming, Taken, Bus!Attached

(* An announcement of a worker that is not missed was not lost.             *)
LEMMA NotLost ==
  ASSUME HistoryNext, NEW a, a \notin missed', NEW i, log'[i].addr = a,
         i \in Coming \/ (i \in Announcements' /\ i \notin Announcements)
  PROVE  i \in Coming' \/ Taken(i)
  BY DEF HistoryNext, Lost

LEMMA OneIsNext ==
  ASSUME TypeOK, NEW rx, NEW k, NEW i,
         Bus!IsNext(rx, k, DOMAIN log), Bus!IsNext(rx, i, DOMAIN log)
  PROVE  k = i
<1>1. k \in Int /\ i \in Int
  BY DEF TypeOK, Bus!BusTypeOK, Bus!IsNext, Bus!Pending
<1>2. k <= i /\ i <= k
  BY DEF Bus!IsNext
<1> QED BY <1>1, <1>2

-------------------------------------------------------------------------------
(***************************************************************************)
(* The steps that leave the watcher and the workers alone.                  *)
(***************************************************************************)
LEMMA UnmovedNoticed ==
  ASSUME TypeOK, OrderOK, HistoryNext, LogGrows, UNCHANGED <<workers, watcher>>,
         NEW a \in Addrs, a \notin missed', SeenOK(a), GoneOK(a),
         \A i \in DOMAIN log : i \notin Coming => i \notin Coming',
         \A i \in Coming : ~Taken(i),
         \A i \in Connects(a)' : i \in DOMAIN log \/ ~Known(a)
  PROVE  SeenOK(a)' /\ GoneOK(a)'
<1>1. ASSUME NEW i \in Connects(a)' \cup Disconnects(a)', i \notin DOMAIN log \/ i \in Coming
      PROVE  i \in Coming'
  <2>1. i \in Announcements' /\ log'[i].addr = a
    BY <1>1 DEF Connects, Disconnects, OfType, Announcements
  <2>2. i \notin DOMAIN log => i \notin Announcements /\ i \notin Coming
    BY DEF Announcements, Coming
  <2>3. i \in Coming' \/ Taken(i)
    BY <1>1, <2>1, <2>2, NotLost
  <2> QED BY <1>1, <2>2, <2>3 DEF Taken
<1>2. Connects(a) \subseteq Coming => Connects(a)' \subseteq Coming'
  BY <1>1, OldAnnouncements
<1>3. Disconnects(a) \subseteq Coming => Disconnects(a)' \subseteq Coming'
  BY <1>1, OldAnnouncements
<1>4. ~(Disconnects(a) \subseteq Coming) => ~(Disconnects(a)' \subseteq Coming')
  BY OldAnnouncements, AnnouncementsOfOne DEF LogGrows
<1>5. ~(Disconnects(a) \subseteq Coming) => Known(a)
  BY AnnouncementsOfOne DEF OrderOK, KnownOK
<1>6. Known(a) /\ Connects(a) \cap Coming = {} => Connects(a)' \cap Coming' = {}
  BY OldAnnouncements
<1>7. SeenOK(a)'
  BY <1>2, <1>4 DEF SeenOK, Loading
<1>8. GoneOK(a)'
  BY <1>3, <1>5, <1>6 DEF GoneOK, Loading
<1> QED BY <1>7, <1>8

(* The receivers of the watcher stay where they are.                        *)
LEMMA AsideNoticed ==
  ASSUME HistoryIInv, HistoryNext, UNCHANGED <<workers, watcher>>,
         \A rx \in {ConnRx, DiscRx} : cursor'[rx] = cursor[rx],
         \/ log' = log
         \/ \E e \in Event : log' = Append(log, e) /\ (e.type = "ClientConnected" => ~Known(e.addr))
  PROVE  ConnectedOK' /\ NoticedOK'
<1>1. TypeOK /\ OrderOK /\ missed \subseteq missed'
  BY DEF HistoryIInv, IInv, HistoryNext
<1>2. LogGrows /\ Len(log) \in Nat /\ Len(log') \in Nat /\ Len(log) <= Len(log')
      /\ DOMAIN log = 1..Len(log)
  BY <1>1, LogMembers
<1>3. ConnectedOK'
  BY <1>2, OldAnnouncements, AnnouncementsOfOne DEF HistoryIInv, ConnectedOK, Loading
<1>4. \A i \in Coming : ~Taken(i)
  BY <1>1, NotTaken, AwaitersExist
<1>5. \A i \in DOMAIN log : i \notin Coming => i \notin Coming'
  BY <1>1, <1>2, StaleStays
<1>6. ASSUME NEW a, NEW i \in Connects(a)', i \notin DOMAIN log PROVE ~Known(a)
  <2>1. i \in DOMAIN log' /\ log'[i].type = "ClientConnected" /\ log'[i].addr = a
    BY <1>6 DEF Connects, OfType
  <2>2. PICK e \in Event : log' = Append(log, e) /\ (e.type = "ClientConnected" => ~Known(e.addr))
    BY <1>6, <2>1
  <2> QED BY <1>1, <1>6, <2>1, <2>2, AppendedEvent
<1>7. NoticedOK'
  <2> SUFFICES ASSUME NEW a \in Addrs, a \notin missed'
               PROVE  SeenOK(a)' /\ GoneOK(a)'
    BY DEF NoticedOK
  <2>1. SeenOK(a) /\ GoneOK(a)
    BY <1>1 DEF HistoryIInv, NoticedOK
  <2> QED BY <1>1, <1>2, <1>4, <1>5, <1>6, <2>1, UnmovedNoticed
<1> QED BY <1>3, <1>7

LEMMA SubscribesNoticed ==
  ASSUME HistoryIInv, HistoryNext, NEW rx \in {ConnRx, DiscRx}, WatcherSubscribes(rx)
  PROVE  ConnectedOK' /\ NoticedOK'
<1>1. /\ TypeOK /\ OrderOK /\ missed \subseteq missed' /\ UNCHANGED <<log, workers, watcher>>
      /\ LogGrows /\ cursor[rx] = Bus!Detached /\ rx \in Receivers
  BY ReceiversExist
  DEF HistoryIInv, IInv, HistoryNext, WatcherSubscribes, Bus!Attached, LogGrows
<1>2. Len(log) \in Nat /\ DOMAIN log = 1..Len(log)
  BY <1>1 DEF TypeOK, Bus!BusTypeOK
<1>3. \A s \in Receivers : s # rx => cursor'[s] = cursor[s]
  BY <1>1, OtherCursors DEF WatcherSubscribes
<1>4. cursor'[rx] = Len(log)
  BY <1>1 DEF WatcherSubscribes, Bus!Subscribe, TypeOK, Bus!BusTypeOK
<1>5. \A i \in DOMAIN log : i \notin Coming => i \notin Coming'
  BY <1>1, <1>2, <1>3, <1>4, StaleStays, ReceiversExist
<1>6. ASSUME NEW i \in Coming PROVE ~Taken(i)
  <2>1. Awaiter(i) # rx /\ Awaiter(i) \in Receivers
    BY <1>1, AwaitersExist DEF Coming, Bus!Attached
  <2> QED BY <1>3, <2>1, NotTaken
<1>7. ConnectedOK'
  BY <1>1 DEF HistoryIInv, ConnectedOK, Connects, OfType, Loading
<1>8. NoticedOK'
  <2> SUFFICES ASSUME NEW a \in Addrs, a \notin missed'
               PROVE  SeenOK(a)' /\ GoneOK(a)'
    BY DEF NoticedOK
  <2>1. SeenOK(a) /\ GoneOK(a)
    BY <1>1 DEF HistoryIInv, NoticedOK
  <2>2. \A i \in Connects(a)' : i \in DOMAIN log
    BY <1>1 DEF Connects, OfType
  <2> QED BY <1>1, <1>5, <1>6, <2>1, <2>2, UnmovedNoticed
<1> QED BY <1>7, <1>8

(* A branch of select! that skips an event gives up what waits behind it.   *)
LEMMA SkipsNoticed ==
  ASSUME HistoryIInv, HistoryNext, NEW rx \in {ConnRx, DiscRx}, WatcherSkips(rx)
  PROVE  ConnectedOK' /\ NoticedOK'
<1>1. /\ TypeOK /\ OrderOK /\ missed \subseteq missed' /\ UNCHANGED <<log, workers, watcher>>
      /\ LogGrows /\ rx \in Receivers /\ watcher.pc = "select" /\ Bus!Drop({rx})
  BY ReceiversExist DEF HistoryIInv, IInv, HistoryNext, WatcherSkips, LogGrows
<1>2. Len(log) \in Nat /\ DOMAIN log = 1..Len(log)
  BY <1>1 DEF TypeOK, Bus!BusTypeOK
<1>3. \A s \in Receivers : s # rx => cursor'[s] = cursor[s]
  BY <1>1, OtherCursors
<1>4. cursor'[rx] = Bus!Detached
  BY <1>1 DEF Bus!Drop
<1>5. \A i \in DOMAIN log : i \notin Coming => i \notin Coming'
  BY <1>1, <1>2, <1>3, <1>4, StaleStays, ReceiversExist
<1>6. PICK k \in Bus!Pending(rx) : Bus!IsNext(rx, k, DOMAIN log) /\ ~Awaits(log[k].type, rx)
  BY DEF WatcherSkips
<1>7. ASSUME NEW i \in Coming, Taken(i) PROVE FALSE
  <2>1. Bus!IsNext(Awaiter(i), i, DOMAIN log) /\ i \in Announcements
    BY <1>7 DEF Taken, Coming
  <2>2. log[i].type = "ClientDisconnected" /\ Awaiter(i) = DiscRx
    BY <1>1, <1>7, <2>1 DEF Taken, Announcements, Awaiter
  <2>3. CASE rx = DiscRx
    <3>1. k = i
      BY <1>1, <1>6, <2>1, <2>2, <2>3, OneIsNext
    <3> QED BY <1>6, <2>2, <2>3, <3>1 DEF Awaits
  <2>4. CASE rx # DiscRx
    BY <1>3, <1>7, <2>2, <2>4, NotTaken, ReceiversExist
  <2> QED BY <2>3, <2>4
<1>8. ConnectedOK'
  BY <1>1 DEF HistoryIInv, ConnectedOK, Connects, OfType, Loading
<1>9. NoticedOK'
  <2> SUFFICES ASSUME NEW a \in Addrs, a \notin missed'
               PROVE  SeenOK(a)' /\ GoneOK(a)'
    BY DEF NoticedOK
  <2>1. SeenOK(a) /\ GoneOK(a)
    BY <1>1 DEF HistoryIInv, NoticedOK
  <2>2. \A i \in Connects(a)' : i \in DOMAIN log
    BY <1>1 DEF Connects, OfType
  <2> QED BY <1>1, <1>5, <1>7, <2>1, <2>2, UnmovedNoticed
<1> QED BY <1>8, <1>9

-------------------------------------------------------------------------------
(***************************************************************************)
(* The steps of the watcher that act on an announcement.                    *)
(***************************************************************************)
(* Both branches of select! are given up: nothing is coming.                *)
LEMMA BothDropped ==
  ASSUME TypeOK, Bus!Drop({ConnRx, DiscRx}), UNCHANGED log
  PROVE  /\ Coming' = {}
         /\ \A a : Connects(a)' = Connects(a) /\ Disconnects(a)' = Disconnects(a)
<1>1. cursor'[ConnRx] = Bus!Detached /\ cursor'[DiscRx] = Bus!Detached
  BY ReceiversExist DEF Bus!Drop
<1>2. \A i : i \notin Coming'
  BY <1>1 DEF Coming, Bus!Attached, Awaiter
<1> QED BY <1>2 DEF Connects, Disconnects, OfType

LEMMA SeesConnectNoticed ==
  ASSUME HistoryIInv, HistoryNext, WatcherSeesConnect
  PROVE  ConnectedOK' /\ NoticedOK'
<1>1. /\ TypeOK /\ missed \subseteq missed' /\ UNCHANGED <<log, workers>>
      /\ watcher.pc = "select" /\ Bus!Attached(ConnRx) /\ Bus!Drop({ConnRx, DiscRx})
      /\ ConnRx \in Receivers
  BY ReceiversExist DEF HistoryIInv, IInv, HistoryNext, WatcherSeesConnect
<1>2. PICK k \in Bus!Pending(ConnRx) :
        /\ Bus!IsNext(ConnRx, k, DOMAIN log)
        /\ log[k].type = "ClientConnected"
        /\ watcher' = [pc |-> "load", addr |-> log[k].addr]
  BY DEF WatcherSeesConnect
<1>3. k \in DOMAIN log /\ k \in Connects(log[k].addr) /\ k \in Coming
  BY <1>1, <1>2 DEF Bus!IsNext, Bus!Pending, Connects, OfType, Coming, Announcements, Awaiter
<1>4. /\ Coming' = {}
      /\ \A a : Connects(a)' = Connects(a) /\ Disconnects(a)' = Disconnects(a)
  BY <1>1, BothDropped
<1>5. watcher'.pc = "load" /\ watcher'.addr = log[k].addr
  BY <1>2
<1>6. ConnectedOK'
  BY <1>1, <1>3, <1>4, <1>5 DEF HistoryIInv, ConnectedOK, Loading
<1>7. NoticedOK'
  <2> SUFFICES ASSUME NEW a \in Addrs, a \notin missed'
               PROVE  SeenOK(a)' /\ GoneOK(a)'
    BY DEF NoticedOK
  <2>1. SeenOK(a) /\ GoneOK(a)
    BY <1>1 DEF HistoryIInv, NoticedOK
  <2>2. ASSUME NEW i \in Connects(a) \cup Disconnects(a), i \in Coming PROVE i = k
    <3>1. Taken(i) /\ i \in DOMAIN log /\ i \in Announcements
      BY <1>1, <1>4, <2>2, AnnouncementsOfOne, NotLost
    <3>2. Awaiter(i) = ConnRx
      BY <1>5, <3>1 DEF Taken, Awaiter
    <3> QED BY <1>1, <1>2, <3>1, <3>2, OneIsNext DEF Taken
  <2>3. ~(Disconnects(a) \subseteq Coming) \/ Disconnects(a) = {}
    BY <1>2, <2>2, AnnouncementsOfOne
  <2>4. Connects(a) \subseteq Coming => Connects(a) = {} \/ a = log[k].addr
    BY <2>2, AnnouncementsOfOne
  <2>5. a = log[k].addr => ~(Connects(a) \cap Coming = {})
    BY <1>3
  <2>6. SeenOK(a)'
    BY <1>1, <1>4, <1>5, <2>1, <2>3, <2>4 DEF SeenOK, Loading
  <2>7. GoneOK(a)'
    BY <1>1, <1>4, <1>5, <2>1, <2>3, <2>5 DEF GoneOK, Loading
  <2> QED BY <2>6, <2>7
<1> QED BY <1>6, <1>7

LEMMA SeesDisconnectNoticed ==
  ASSUME HistoryIInv, HistoryNext, WatcherSeesDisconnect
  PROVE  ConnectedOK' /\ NoticedOK'
<1>1. /\ TypeOK /\ missed \subseteq missed' /\ UNCHANGED <<log, watcher>>
      /\ watcher.pc = "select" /\ Bus!Attached(DiscRx) /\ Bus!Drop({ConnRx, DiscRx})
      /\ DiscRx \in Receivers
  BY ReceiversExist DEF HistoryIInv, IInv, HistoryNext, WatcherSeesDisconnect
<1>2. PICK k \in Bus!Pending(DiscRx) :
        /\ Bus!IsNext(DiscRx, k, DOMAIN log)
        /\ log[k].type = "ClientDisconnected"
        /\ workers' = workers \ {log[k].addr}
  BY DEF WatcherSeesDisconnect
<1>3. k \in DOMAIN log /\ k \in Disconnects(log[k].addr)
  BY <1>2 DEF Bus!IsNext, Bus!Pending, Disconnects, OfType
<1>4. /\ Coming' = {}
      /\ \A a : Connects(a)' = Connects(a) /\ Disconnects(a)' = Disconnects(a)
  BY <1>1, BothDropped
<1>5. ConnectedOK'
  BY <1>1, <1>2, <1>4 DEF HistoryIInv, ConnectedOK, Loading
<1>6. NoticedOK'
  <2> SUFFICES ASSUME NEW a \in Addrs, a \notin missed'
               PROVE  SeenOK(a)' /\ GoneOK(a)'
    BY DEF NoticedOK
  <2>1. SeenOK(a) /\ GoneOK(a)
    BY <1>1 DEF HistoryIInv, NoticedOK
  <2>2. ASSUME NEW i \in Connects(a) \cup Disconnects(a), i \in Coming PROVE i = k
    <3>1. Taken(i) /\ i \in DOMAIN log /\ i \in Announcements
      BY <1>1, <1>4, <2>2, AnnouncementsOfOne, NotLost
    <3>2. Awaiter(i) = DiscRx
      BY <1>1, <3>1 DEF Taken, Awaiter
    <3> QED BY <1>1, <1>2, <3>1, <3>2, OneIsNext DEF Taken
  <2>3. ~(Connects(a) \subseteq Coming) \/ Connects(a) = {}
    BY <1>2, <2>2, AnnouncementsOfOne
  <2>4. Disconnects(a) \subseteq Coming => Disconnects(a) = {} \/ a = log[k].addr
    BY <2>2, AnnouncementsOfOne
  <2>5. a = log[k].addr => Disconnects(a) # {}
    BY <1>3
  <2>6. SeenOK(a)'
    BY <1>1, <1>2, <1>4, <2>1, <2>3, <2>5 DEF SeenOK, Loading
  <2>7. GoneOK(a)'
    BY <1>1, <1>2, <1>4, <2>1, <2>4 DEF GoneOK, Loading
  <2> QED BY <2>6, <2>7
<1> QED BY <1>5, <1>6

LEMMA RegistersNoticed ==
  ASSUME HistoryIInv, HistoryNext, WatcherRegisters
  PROVE  ConnectedOK' /\ NoticedOK'
<1>1. /\ missed \subseteq missed' /\ UNCHANGED <<log, cursor>>
      /\ watcher.pc = "load" /\ watcher'.pc = "select"
      /\ workers' = workers \cup {watcher.addr}
  BY DEF HistoryNext, WatcherRegisters, busVars
<1>2. /\ Coming' = Coming
      /\ \A a : Connects(a)' = Connects(a) /\ Disconnects(a)' = Disconnects(a)
  BY <1>1 DEF Coming, Announcements, Awaiter, Bus!Attached, Bus!Pending, Bus!Overwritten, Connects,
              Disconnects, OfType
<1>3. ConnectedOK'
  BY <1>1, <1>2 DEF HistoryIInv, ConnectedOK, Loading
<1>4. NoticedOK'
  <2> SUFFICES ASSUME NEW a \in Addrs, a \notin missed'
               PROVE  SeenOK(a)' /\ GoneOK(a)'
    BY DEF NoticedOK
  <2>1. SeenOK(a) /\ GoneOK(a)
    BY <1>1 DEF HistoryIInv, NoticedOK
  <2> QED BY <1>1, <1>2, <2>1 DEF SeenOK, GoneOK, Loading
<1> QED BY <1>3, <1>4

-------------------------------------------------------------------------------
(***************************************************************************)
(* All other steps.                                                         *)
(***************************************************************************)
LEMMA OtherReceiver ==
  ASSUME TypeOK, NEW s \in Receivers, s # ConnRx, s # DiscRx,
         \/ Bus!Subscribe(s) \/ Bus!Drop({s}) \/ UNCHANGED cursor
         \/ \E i \in DOMAIN log : Bus!MoveTo(s, i)
  PROVE  \A rx \in {ConnRx, DiscRx} : cursor'[rx] = cursor[rx]
  BY OtherCursors, ReceiversExist

LEMMA ConnectionsNoticed ==
  ASSUME HistoryIInv, HistoryNext, NEW a \in Addrs,
         Connect(a) \/ SocketStep(a) \/ WorkerAnswers(a) \/ WorkerDies(a)
  PROVE  ConnectedOK' /\ NoticedOK'
<1>1. TypeOK /\ UNCHANGED <<workers, watcher>>
  BY DEF HistoryIInv, IInv, Connect, SocketStep, SocketReads, SocketReadError, SocketWrites,
         WorkerAnswers, WorkerDies
<1>2. /\ SockRx(a) \in Receivers /\ SockRx(a) # ConnRx /\ SockRx(a) # DiscRx
      /\ Connected(a) \in Event /\ Disconnected(a) \in Event
      /\ Connected(a).addr = a /\ Disconnected(a).type = "ClientDisconnected"
  BY ReceiversExist, ReceiversDiffer, EventsAreTyped DEF Connected, Disconnected
<1>3. CASE Connect(a)
  <2>1. \A rx \in {ConnRx, DiscRx} : cursor'[rx] = cursor[rx]
    BY <1>1, <1>2, <1>3, OtherReceiver DEF Connect
  <2>2. log' = Append(log, Connected(a)) /\ ~Known(a)
    BY <1>3 DEF Connect, Bus!Publish, Known
  <2> QED BY <1>1, <1>2, <2>1, <2>2, AsideNoticed
<1>4. CASE SocketReads(a)
  <2>1. Head(outbox[a]) \in Answer
    BY <1>1, <1>4 DEF SocketReads, TypeOK
  <2>2. PICK e \in Event : e = Received(a, Head(outbox[a])) /\ log' = Append(log, e)
    BY <1>4, <2>1, EventsAreTyped DEF SocketReads, Bus!Publish
  <2>3. e.type # "ClientConnected"
    BY <2>2 DEF Received
  <2>4. UNCHANGED cursor
    BY <1>4 DEF SocketReads
  <2> QED BY <1>1, <2>2, <2>3, <2>4, AsideNoticed
<1>5. CASE SocketReadError(a)
  <2>1. \A rx \in {ConnRx, DiscRx} : cursor'[rx] = cursor[rx]
    BY <1>1, <1>2, <1>5, OtherReceiver DEF SocketReadError
  <2>2. log' = Append(log, Disconnected(a))
    BY <1>5 DEF SocketReadError, Bus!Publish
  <2> QED BY <1>1, <1>2, <2>1, <2>2, AsideNoticed
<1>6. CASE SocketWrites(a)
  <2>1. log' = log /\ (Bus!Drop({SockRx(a)}) \/ \E i \in DOMAIN log : Bus!MoveTo(SockRx(a), i))
    BY <1>6 DEF SocketWrites, OfType
  <2>2. \A rx \in {ConnRx, DiscRx} : cursor'[rx] = cursor[rx]
    BY <1>1, <1>2, <2>1, OtherReceiver
  <2> QED BY <1>1, <2>1, <2>2, AsideNoticed
<1>7. CASE WorkerAnswers(a) \/ WorkerDies(a)
  <2>1. UNCHANGED <<log, cursor>>
    BY <1>7 DEF WorkerAnswers, WorkerDies, busVars
  <2> QED BY <1>1, <2>1, AsideNoticed
<1> QED BY <1>3, <1>4, <1>5, <1>6, <1>7 DEF SocketStep

LEMMA CallsNoticed ==
  ASSUME HistoryIInv, HistoryNext, NEW c \in Calls,
         \/ c \in Requests /\ (GenerateStart(c) \/ GeneratePick(c) \/ ClientHangsUp(c))
         \/ c = Loader /\ LoadStart
         \/ ReceiveAnswer(c) \/ SendCommand(c)
  PROVE  ConnectedOK' /\ NoticedOK'
<1>1. TypeOK /\ UNCHANGED <<workers, watcher>>
  BY DEF HistoryIInv, IInv, GenerateStart, GeneratePick, ClientHangsUp, LoadStart, ReceiveAnswer,
         SendCommand
<1>2. CallRx(c) \in Receivers /\ CallRx(c) # ConnRx /\ CallRx(c) # DiscRx
  BY ReceiversExist, ReceiversDiffer
<1>3. CASE ~SendCommand(c)
  <2>1. log' = log /\ (Bus!Subscribe(CallRx(c)) \/ Bus!Drop({CallRx(c)}) \/ UNCHANGED cursor)
    BY <1>3 DEF GenerateStart, Begin, GeneratePick, ClientHangsUp, LoadStart, ReceiveAnswer
  <2>2. \A rx \in {ConnRx, DiscRx} : cursor'[rx] = cursor[rx]
    BY <1>1, <1>2, <2>1, OtherReceiver
  <2> QED BY <1>1, <2>1, <2>2, AsideNoticed
<1>4. CASE SendCommand(c)
  <2>1. target[c] \in Addrs /\ CommandOf(c) \in Command
    BY <1>4 DEF SendCommand, HistoryIInv, IInv, PhaseOK, CommandOf, Command, Kind
  <2>2. PICK e \in Event : e = Send(target[c], CommandOf(c)) /\ log' = Append(log, e)
    BY <1>4, <2>1, EventsAreTyped DEF SendCommand, Bus!Publish
  <2>3. e.type # "ClientConnected"
    BY <2>2 DEF Send
  <2>4. UNCHANGED cursor
    BY <1>4 DEF SendCommand
  <2> QED BY <1>1, <2>2, <2>3, <2>4, AsideNoticed
<1> QED BY <1>3, <1>4

LEMMA InitHistory == HistoryInit => HistoryIInv
<1> SUFFICES ASSUME HistoryInit PROVE HistoryIInv
  OBVIOUS
<1>1. IInv /\ OrderOK
  BY InitIInv, InitOrder DEF HistoryInit
<1>2. log = <<>> /\ workers = {} /\ watcher.pc = "select"
  BY DEF HistoryInit, Init, Bus!BusInit
<1>3. \A a : Connects(a) = {} /\ Disconnects(a) = {}
  BY <1>2 DEF Connects, Disconnects, OfType
<1> QED BY <1>1, <1>2, <1>3 DEF HistoryIInv, ConnectedOK, NoticedOK, SeenOK, GoneOK, Loading

LEMMA StepHistory == HistoryIInv /\ [HistoryNext]_historyVars => HistoryIInv'
<1> SUFFICES ASSUME HistoryIInv, [HistoryNext]_historyVars PROVE HistoryIInv'
  OBVIOUS
<1>1. [Next]_vars
  BY DEF HistoryNext, historyVars
<1>2. IInv' /\ OrderOK'
  BY <1>1, NextIInv, NextOrder DEF HistoryIInv
<1>3. CASE HistoryNext
  <2>1. Next
    BY <1>3 DEF HistoryNext
  <2>2. ASSUME NEW r \in Requests, GenerateStart(r) \/ CallStep(r) \/ ClientHangsUp(r)
        PROVE  ConnectedOK' /\ NoticedOK'
    BY <1>3, <2>2, CallsNoticed DEF CallStep, Calls
  <2>3. ASSUME WatcherStep PROVE ConnectedOK' /\ NoticedOK'
    BY <1>3, <2>3, SubscribesNoticed, SkipsNoticed, SeesConnectNoticed, SeesDisconnectNoticed,
       RegistersNoticed, CallsNoticed DEF WatcherStep, Calls
  <2>4. ConnectedOK' /\ NoticedOK'
    BY <1>3, <2>1, <2>2, <2>3, ConnectionsNoticed DEF Next
  <2> QED BY <1>2, <2>4 DEF HistoryIInv
<1>4. CASE UNCHANGED historyVars
  <2>1. ConnectedOK' /\ NoticedOK'
    BY <1>4 DEF historyVars, vars, busVars, HistoryIInv, ConnectedOK, NoticedOK, SeenOK, GoneOK,
                Loading, Connects, Disconnects, OfType, Coming, Announcements, Awaiter, Bus!Attached,
                Bus!Pending, Bus!Overwritten
  <2> QED BY <1>2, <2>1 DEF HistoryIInv
<1> QED BY <1>3, <1>4

(* The invariant of the watcher and of what it has missed.                  *)
THEOREM HistoryInvariance == HistorySpec => []HistoryIInv
<1>1. HistoryInit /\ [][HistoryNext]_historyVars => []HistoryIInv
  BY InitHistory, StepHistory, PTL
<1> QED BY <1>1, PTL DEF HistorySpec, historyVars

(* With the watcher at its select! and nothing waiting for it, a worker is  *)
(* registered if and only if it connected and did not disconnect, unless    *)
(* run_workers_watcher missed an announcement of it.                        *)
THEOREM RegistersTheAnnounced == HistorySpec => []RegisteredIsAnnounced
<1>1. HistoryIInv => RegisteredIsAnnounced
  <2> SUFFICES ASSUME HistoryIInv, watcher.pc = "select", Coming = {},
                      NEW a \in Addrs \ missed
               PROVE  a \in workers <=> Connects(a) # {} /\ Disconnects(a) = {}
    BY DEF RegisteredIsAnnounced, Connects, Disconnects
  <2>1. SeenOK(a) /\ GoneOK(a) /\ (a \in workers => Connects(a) # {})
    BY DEF HistoryIInv, NoticedOK, ConnectedOK
  <2> QED BY <2>1 DEF SeenOK, GoneOK, Loading
<1> QED BY HistoryInvariance, <1>1, PTL
===============================================================================
