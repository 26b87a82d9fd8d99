----------------------------- MODULE ClusterProofs -----------------------------
(***************************************************************************)
(* Proofs about Cluster: the program of worker/ is one of the workers that  *)
(* WorkerGateway allows for; and which of its errors the master can provoke *)
(* there, and when.  They hold for any workers, requests and ids, and any   *)
(* capacity of the bus.                                                     *)
(***************************************************************************)
EXTENDS Cluster, WorkerGatewayProofs

Response == [cmd : Commands, outcome : Verdicts]

ServiceTypeOK ==
  /\ accepted \in [Addrs -> SUBSET Commands]
  /\ decided \in [Addrs -> [Commands -> Verdicts \cup {None}]]
  /\ model \in [Addrs -> LoadCommands \cup {None}]
  /\ keeper \in [Addrs -> LoadCommands \cup {None}]
  /\ replies \in [Addrs -> Seq(Response)]

(* No connection is lost, and no socket task ends.                          *)
ConnectionsOK == \A a \in Addrs : sock[a] # "absent" => sock[a] = "open" /\ a \in up

SentTo(a) == OfType("SendNewPacket", a)

Delivered(a, cmd) == \E i \in SentTo(a) : log[i].packet = cmd /\ i <= cursor[SockRx(a)]

HasReplied(a, cmd) == \E k \in DOMAIN replies[a] : replies[a][k].cmd = cmd

(* A command is sent once, and a worker that got it answers it once.        *)
SentOnceOK ==
  /\ \A a \in Addrs : \A i \in SentTo(a) : log[i].packet \in Commands
  /\ \A a \in Addrs : \A i, j \in SentTo(a) : log[i].packet = log[j].packet => i = j

DeliveredOK == \A a \in Addrs : \A cmd \in accepted[a] : Delivered(a, cmd)

AnsweredOnceOK ==
  /\ \A a \in Addrs : \A cmd \in inbox[a] : cmd \in accepted[a] /\ ~HasReplied(a, cmd)
  /\ \A a \in Addrs : \A cmd \in Commands : decided[a][cmd] # None => cmd \in accepted[a]
  /\ \A a \in Addrs : \A cmd \in accepted[a] : decided[a][cmd] = None => cmd \in inbox[a]
  /\ \A a \in Addrs : \A k \in DOMAIN replies[a] : decided[a][replies[a][k].cmd] # None

(* Worker a has answered its load.                                          *)
LoadReplied(a) == \E load \in LoadCommands : HasReplied(a, load)

AnswerFollows(a, ans) == ans.kind # "Undecodable" /\ (ans.kind = "Load" => LoadReplied(a))

EventFollows(e) ==
  /\ e.type = "NewPacketReceived" => AnswerFollows(e.addr, e.packet)
  /\ e.type = "SendNewPacket" => (e.packet.kind = "Generate" => LoadReplied(e.addr))

(* The watcher waits for that answer, and everybody else for the watcher:   *)
(* nothing but a load comes to a worker before.                             *)
MessagesFollow ==
  /\ \A a \in Addrs : \A k \in DOMAIN outbox[a] : AnswerFollows(a, outbox[a][k])
  /\ \A i \in DOMAIN log : EventFollows(log[i])

CallsFollow ==
  /\ pc[Loader] = "done" => LoadReplied(target[Loader])
  /\ \A a \in workers : LoadReplied(a)
  /\ \A r \in Requests : pc[r] = "picked" => LoadReplied(target[r])

(* The model a worker has is the one its load loaded.                       *)
ModelOK ==
  \A a \in Addrs :
    /\ model[a] # None => decided[a][model[a]] = "Ok"
    /\ \A load \in LoadCommands : decided[a][load] = "Ok" => model[a] # None

(* The load that keeps the model has taken effect.                          *)
KeeperOK ==
  \A a \in Addrs : keeper[a] # None =>
    keeper[a] \in LoadCommands /\ decided[a][keeper[a]] # None

DeliveryOK == SentOnceOK /\ DeliveredOK /\ AnsweredOnceOK

ServiceIInv ==
  /\ ServiceTypeOK /\ ConnectionsOK /\ DeliveryOK /\ MessagesFollow /\ CallsFollow
  /\ ModelOK /\ KeeperOK /\ RefusedForAReason

ClusterIInv == GatewayIInv /\ ServiceIInv

-------------------------------------------------------------------------------
(***************************************************************************)
(* Every step of Cluster is one of WorkerGateway, or none.                  *)
(***************************************************************************)
LEMMA RepliesIsAnswer == ASSUME NEW a \in Addrs, Replies(a) PROVE WorkerAnswers(a)
<1>1. PICK cmd \in inbox[a] :
        /\ inbox' = [inbox EXCEPT ![a] = @ \ {cmd}]
        /\ outbox' = [outbox EXCEPT ![a] =
             Append(@, AnswerTo(cmd, IF decided[a][cmd] = "Ok" THEN "ok" ELSE "error"))]
  BY DEF Replies
<1>2. (IF decided[a][cmd] = "Ok" THEN "ok" ELSE "error") \in Outcomes(a)
  BY DEF Outcomes
<1> QED BY <1>1, <1>2 DEF Replies, WorkerAnswers

LEMMA ClusterStep == [ClusterNext]_clusterVars => [Next]_vars
<1> SUFFICES ASSUME [ClusterNext]_clusterVars PROVE Next \/ UNCHANGED vars
  OBVIOUS
<1>1. CASE MasterStep
  BY <1>1 DEF MasterStep, Next, SocketStep
<1>2. ASSUME NEW a \in Addrs, Delivers(a) PROVE Next
  BY <1>2 DEF Delivers, Next, SocketStep
<1>3. ASSUME NEW a \in Addrs, Decides(a) \/ LetsGo(a) PROVE UNCHANGED vars
  BY <1>3 DEF Decides, LetsGo
<1>4. ASSUME NEW a \in Addrs, Replies(a) PROVE Next
  BY <1>4, RepliesIsAnswer DEF Next
<1>5. CASE UNCHANGED clusterVars
  BY <1>5 DEF clusterVars
<1> QED BY <1>1, <1>2, <1>3, <1>4, <1>5 DEF ClusterNext

(* The workers of worker/ are among those that WorkerGateway allows for:    *)
(* whatever holds there of the master holds with them.                      *)
THEOREM ImplementsGateway == ClusterSpec => Spec
<1>1. ClusterInit => Init
  BY DEF ClusterInit
<1> QED BY <1>1, ClusterStep, PTL DEF ClusterSpec, Spec

(* With these workers generate_response returns no text of another prompt,  *)
(* unless the ids of the two collide, and no call waits in vain.            *)
THEOREM MasterStaysRight == ClusterSpec => [](AnswersMatch /\ AwaitedReply)
<1>1. GatewayIInv => AnswersMatch /\ AwaitedReply
  BY DEF GatewayIInv, IInv, ResultsOK, AnswersMatch, Source
<1> QED BY ImplementsGateway, OrderInvariance, <1>1, PTL

-------------------------------------------------------------------------------
(***************************************************************************)
(* The steps, by what they touch of the connections.                        *)
(***************************************************************************)
Quiet ==
  /\ UNCHANGED <<log, sock, up, inbox, outbox>>
  /\ \A a \in Addrs : cursor'[SockRx(a)] = cursor[SockRx(a)]

LEMMA QuietRequests ==
  ASSUME TypeOK, NEW r \in Requests,
         GenerateStart(r) \/ GeneratePick(r) \/ ClientHangsUp(r)
  PROVE  Quiet
<1>1. r \in Calls /\ CallRx(r) \in Receivers
  BY ReceiversExist DEF Calls
<1>2. Bus!Subscribe(CallRx(r)) \/ Bus!Drop({CallRx(r)}) \/ UNCHANGED cursor
  BY DEF GenerateStart, Begin, GeneratePick, ClientHangsUp
<1>3. \A a \in Addrs : cursor'[SockRx(a)] = cursor[SockRx(a)]
  BY <1>1, <1>2, OtherCursors, ReceiversExist, ReceiversDiffer
<1> QED BY <1>3 DEF Quiet, GenerateStart, GeneratePick, ClientHangsUp, workerVars

LEMMA QuietAnswers == ASSUME TypeOK, NEW c \in Calls, ReceiveAnswer(c) PROVE Quiet
<1>1. \A a \in Addrs : cursor'[SockRx(a)] = cursor[SockRx(a)]
  BY OtherCursors, ReceiversExist, ReceiversDiffer DEF ReceiveAnswer
<1> QED BY <1>1 DEF Quiet, ReceiveAnswer, workerVars

LEMMA QuietWatcher ==
  ASSUME TypeOK,
         \/ \E rx \in {ConnRx, DiscRx} : WatcherSubscribes(rx) \/ WatcherSkips(rx)
         \/ WatcherSeesConnect \/ WatcherSeesDisconnect \/ LoadStart \/ WatcherRegisters
  PROVE  Quiet
<1>1. CASE \E rx \in {ConnRx, DiscRx} : WatcherSubscribes(rx) \/ WatcherSkips(rx)
  <2>1. PICK rx \in {ConnRx, DiscRx} : WatcherSubscribes(rx) \/ WatcherSkips(rx)
    BY <1>1
  <2>2. rx \in Receivers /\ (Bus!Subscribe(rx) \/ Bus!Drop({rx}))
    BY <2>1, ReceiversExist DEF WatcherSubscribes, WatcherSkips
  <2>3. \A a \in Addrs : cursor'[SockRx(a)] = cursor[SockRx(a)]
    BY <2>1, <2>2, OtherCursors, ReceiversExist, ReceiversDiffer
  <2> QED BY <2>1, <2>3 DEF Quiet, WatcherSubscribes, WatcherSkips, workerVars
<1>2. CASE WatcherSeesConnect \/ WatcherSeesDisconnect
  <2>1. Bus!Drop({ConnRx, DiscRx})
    BY <1>2 DEF WatcherSeesConnect, WatcherSeesDisconnect
  <2>2. \A a \in Addrs : cursor'[SockRx(a)] = cursor[SockRx(a)]
    BY <2>1, ReceiversExist, ReceiversDiffer DEF Bus!Drop
  <2> QED BY <1>2, <2>2 DEF Quiet, WatcherSeesConnect, WatcherSeesDisconnect, workerVars
<1>3. CASE LoadStart
  <2>1. Bus!Subscribe(CallRx(Loader)) /\ Loader \in Calls
    BY <1>3 DEF LoadStart, Begin, Calls
  <2>2. CallRx(Loader) \in Receivers /\ \A a \in Addrs : SockRx(a) # CallRx(Loader)
    BY <2>1, ReceiversExist, ReceiversDiffer
  <2>3. \A a \in Addrs : cursor'[SockRx(a)] = cursor[SockRx(a)]
    BY <2>1, <2>2, OtherCursors, ReceiversExist
  <2> QED BY <1>3, <2>3 DEF Quiet, LoadStart, workerVars
<1>4. CASE WatcherRegisters
  BY <1>4 DEF Quiet, WatcherRegisters, workerVars, busVars
<1> QED BY <1>1, <1>2, <1>3, <1>4

LEMMA MasterSteps ==
  ASSUME TypeOK, MasterStep
  PROVE  \/ Quiet
         \/ \E a \in Addrs : Connect(a) \/ SocketReads(a)
         \/ \E c \in Calls : SendCommand(c)
  BY QuietRequests, QuietAnswers, QuietWatcher DEF MasterStep, CallStep, WatcherStep, Calls

(* The service variables: types.                                            *)
LEMMA InboxIsAccepted ==
  ASSUME ServiceIInv, NEW a \in Addrs, NEW cmd \in inbox[a]
  PROVE  cmd \in accepted[a] /\ cmd \in Commands
  BY DEF ServiceIInv, DeliveryOK, AnsweredOnceOK, ServiceTypeOK

LEMMA DeliversTypes ==
  ASSUME ServiceIInv, NEW a \in Addrs, Delivers(a),
         inbox'[a] \subseteq Commands
  PROVE  ServiceTypeOK'
  BY DEF Delivers, ServiceIInv, ServiceTypeOK

(* What cmd meets at a, and what it changes there.                          *)
MeetsBusy(a, cmd) ==
  /\ keeper[a] # None \/ \E d \in accepted[a] : d # cmd /\ decided[a][d] = None
  /\ model'[a] = model[a] /\ keeper'[a] = keeper[a]

MeetsLoad(a, cmd, outcome) ==
  /\ cmd \in LoadCommands
  /\ \/ model[a] = None /\ outcome = "Ok" /\ model'[a] = cmd
     \/ model[a] = None /\ outcome = "LoadingError" /\ model'[a] = model[a]
     \/ model[a] # None /\ outcome = "ModelAlreadyLoaded" /\ model'[a] = model[a]
  /\ keeper'[a] = cmd

MeetsGenerate(a, cmd, outcome) ==
  /\ cmd \in GenerateCommands
  /\ \/ model[a] = None /\ outcome = "ModelNotLoaded"
     \/ model[a] # None /\ outcome \in {"Ok", "GenerationError"}
  /\ model'[a] = model[a] /\ keeper'[a] = keeper[a]

TakesEffect(a, cmd, outcome) ==
  /\ cmd \in inbox[a] /\ decided[a][cmd] = None
  /\ decided' = [decided EXCEPT ![a][cmd] = outcome]
  /\ DOMAIN model' = Addrs /\ DOMAIN keeper' = Addrs
  /\ model' = [model EXCEPT ![a] = model'[a]]
  /\ keeper' = [keeper EXCEPT ![a] = keeper'[a]]
  /\ UNCHANGED <<accepted, replies, inbox>>
  /\ \/ outcome = "ModelBusy" /\ MeetsBusy(a, cmd)
     \/ MeetsLoad(a, cmd, outcome)
     \/ MeetsGenerate(a, cmd, outcome)

LEMMA DecidesOnce ==
  ASSUME ServiceIInv, NEW a \in Addrs, Decides(a)
  PROVE  \E cmd \in Commands : \E outcome \in Verdicts : TakesEffect(a, cmd, outcome)
<1>1. PICK cmd \in inbox[a], outcome \in Verdicts :
        /\ decided[a][cmd] = None
        /\ decided' = [decided EXCEPT ![a][cmd] = outcome]
        /\ \E m \in {model[a], cmd}, k \in {keeper[a], cmd} :
             model' = [model EXCEPT ![a] = m] /\ keeper' = [keeper EXCEPT ![a] = k]
        /\ UNCHANGED <<accepted, replies>>
        /\ \/ Service(a)!Busy(cmd)
           \/ cmd \in LoadCommands /\ Service(a)!Load(cmd)
           \/ cmd \in GenerateCommands /\ Service(a)!Generate(cmd)
  BY DEF Decides
<1>2. UNCHANGED inbox
  BY DEF Decides, vars, workerVars
<1>3. PICK m \in {model[a], cmd}, k \in {keeper[a], cmd} :
        model' = [model EXCEPT ![a] = m] /\ keeper' = [keeper EXCEPT ![a] = k]
  BY <1>1
<1>4. cmd \in Commands
  BY InboxIsAccepted
<1>5. /\ decided[a] \in [Commands -> Verdicts \cup {None}] /\ decided'[a][cmd] = outcome
      /\ DOMAIN model = Addrs /\ DOMAIN keeper = Addrs
  BY <1>1, <1>4 DEF ServiceIInv, ServiceTypeOK
<1>6. ASSUME NEW o, Service(a)!Decides(cmd, o) PROVE o = outcome
  <2>1. decided'[a] = [decided[a] EXCEPT ![cmd] = o]
    BY <1>6 DEF Service!Decides
  <2> QED BY <1>4, <1>5, <2>1
<1>7. /\ DOMAIN model' = Addrs /\ DOMAIN keeper' = Addrs
      /\ model' = [model EXCEPT ![a] = model'[a]]
      /\ keeper' = [keeper EXCEPT ![a] = keeper'[a]]
  BY <1>3, <1>5
<1>8. CASE Service(a)!Busy(cmd)
  <2>1. outcome = "ModelBusy"
    BY <1>6, <1>8 DEF Service!Busy
  <2>2. MeetsBusy(a, cmd)
    BY <1>8 DEF Service!Busy, MeetsBusy
  <2> QED BY <1>1, <1>2, <1>4, <1>7, <2>1, <2>2 DEF TakesEffect
<1>9. CASE cmd \in LoadCommands /\ Service(a)!Load(cmd)
  <2>1. MeetsLoad(a, cmd, outcome)
    BY <1>6, <1>9 DEF Service!Load, MeetsLoad
  <2> QED BY <1>1, <1>2, <1>4, <1>7, <2>1 DEF TakesEffect
<1>10. CASE cmd \in GenerateCommands /\ Service(a)!Generate(cmd)
  <2>1. MeetsGenerate(a, cmd, outcome)
    BY <1>6, <1>10 DEF Service!Generate, MeetsGenerate
  <2> QED BY <1>1, <1>2, <1>4, <1>7, <2>1 DEF TakesEffect
<1> QED BY <1>1, <1>8, <1>9, <1>10

LEMMA DecidesTypes ==
  ASSUME ServiceIInv, NEW a \in Addrs, Decides(a) PROVE ServiceTypeOK'
<1>1. PICK cmd \in Commands : \E outcome \in Verdicts : TakesEffect(a, cmd, outcome)
  BY DecidesOnce
<1>2. PICK outcome \in Verdicts : TakesEffect(a, cmd, outcome)
  BY <1>1
<1>3. decided' \in [Addrs -> [Commands -> Verdicts \cup {None}]]
  BY <1>2 DEF TakesEffect, ServiceIInv, ServiceTypeOK
<1>4. model'[a] \in LoadCommands \cup {None} /\ keeper'[a] \in LoadCommands \cup {None}
  BY <1>2 DEF TakesEffect, MeetsBusy, MeetsLoad, MeetsGenerate, ServiceIInv, ServiceTypeOK
<1>5. /\ model' \in [Addrs -> LoadCommands \cup {None}]
      /\ keeper' \in [Addrs -> LoadCommands \cup {None}]
  BY <1>2, <1>4 DEF TakesEffect, ServiceIInv, ServiceTypeOK
<1> QED BY <1>2, <1>3, <1>5 DEF TakesEffect, ServiceIInv, ServiceTypeOK

LEMMA LetsGoTypes ==
  ASSUME ServiceIInv, NEW a \in Addrs, LetsGo(a) PROVE ServiceTypeOK'
  BY DEF LetsGo, ServiceIInv, ServiceTypeOK

LEMMA RepliesTypes ==
  ASSUME ServiceIInv, NEW a \in Addrs, Replies(a) PROVE ServiceTypeOK'
<1>1. PICK cmd \in inbox[a] :
        /\ decided[a][cmd] # None
        /\ replies' = [replies EXCEPT ![a] =
             Append(@, [cmd |-> cmd, outcome |-> decided[a][cmd]])]
  BY DEF Replies
<1>2. cmd \in Commands
  BY InboxIsAccepted
<1>3. [cmd |-> cmd, outcome |-> decided[a][cmd]] \in Response
  BY <1>1, <1>2 DEF ServiceIInv, ServiceTypeOK, Response
<1>4. replies' \in [Addrs -> Seq(Response)]
  BY <1>1, <1>3 DEF ServiceIInv, ServiceTypeOK
<1> QED BY <1>4 DEF Replies, ServiceIInv, ServiceTypeOK

(* The socket of a live worker: the packet goes to its inbox.               *)
LEMMA DeliversPacket ==
  ASSUME IInv, ServiceIInv, NEW a \in Addrs, Delivers(a)
  PROVE  \E i \in SentTo(a) :
           /\ cursor[SockRx(a)] < i
           /\ Bus!MoveTo(SockRx(a), i)
           /\ inbox' = [inbox EXCEPT ![a] = @ \cup {log[i].packet}]
           /\ log[i].packet \in Commands
           /\ UNCHANGED <<log, sock, up, outbox>>
<1>1. a \in up
  BY DEF Delivers, SocketWrites, ServiceIInv, ConnectionsOK
<1>2. PICK i \in SentTo(a) :
        /\ Bus!IsNext(SockRx(a), i, SentTo(a)) /\ Bus!MoveTo(SockRx(a), i)
        /\ inbox' = [inbox EXCEPT ![a] = @ \cup {log[i].packet}]
        /\ UNCHANGED <<log, sock, up, outbox>>
  BY <1>1 DEF Delivers, SocketWrites, SentTo
<1>3. cursor[SockRx(a)] < i
  BY <1>2 DEF Bus!IsNext, Bus!Pending
<1>4. log[i].packet \in Commands
  BY DEF ServiceIInv, DeliveryOK, SentOnceOK
<1> QED BY <1>2, <1>3, <1>4

LEMMA InboxIsCommands ==
  ASSUME IInv, ServiceIInv, NEW a \in Addrs, Delivers(a)
  PROVE  inbox'[a] \subseteq Commands
<1>1. PICK i \in SentTo(a) :
        /\ inbox' = [inbox EXCEPT ![a] = @ \cup {log[i].packet}] /\ log[i].packet \in Commands
  BY DeliversPacket
<1>2. inbox'[a] = inbox[a] \cup {log[i].packet}
  BY <1>1 DEF IInv, TypeOK
<1> QED BY <1>1, <1>2, InboxIsAccepted

(* Connections.                                                             *)
LEMMA StepConnections ==
  ASSUME IInv, ServiceIInv, [ClusterNext]_clusterVars PROVE ConnectionsOK'
<1>1. ASSUME NEW a \in Addrs, Connect(a) PROVE ConnectionsOK'
  BY <1>1 DEF Connect, IInv, TypeOK, ServiceIInv, ConnectionsOK
<1>2. ASSUME UNCHANGED <<sock, up>> PROVE ConnectionsOK'
  BY <1>2 DEF ServiceIInv, ConnectionsOK
<1>3. ASSUME NEW a \in Addrs, SocketReads(a) PROVE UNCHANGED <<sock, up>>
  BY <1>3 DEF SocketReads
<1>4. ASSUME NEW c \in Calls, SendCommand(c) PROVE UNCHANGED <<sock, up>>
  BY <1>4 DEF SendCommand, workerVars
<1>5. CASE Quiet
  BY <1>2, <1>5 DEF Quiet
<1>6. ASSUME NEW a \in Addrs, Delivers(a) PROVE UNCHANGED <<sock, up>>
  BY <1>6, DeliversPacket
<1>7. ASSUME NEW a \in Addrs, Decides(a) \/ LetsGo(a) \/ Replies(a) PROVE UNCHANGED <<sock, up>>
  BY <1>7 DEF Decides, LetsGo, Replies, vars, workerVars
<1>8. CASE MasterStep
  BY <1>1, <1>2, <1>3, <1>4, <1>5, <1>8, MasterSteps DEF IInv
<1>9. CASE UNCHANGED clusterVars
  BY <1>2, <1>9 DEF clusterVars, vars, workerVars
<1> QED BY <1>2, <1>6, <1>7, <1>8, <1>9 DEF ClusterNext

-------------------------------------------------------------------------------
(***************************************************************************)
(* Deliveries.                                                              *)
(***************************************************************************)
LEMMA SendsStay ==
  ASSUME LogGrows
  PROVE  \A a : \A i \in SentTo(a) : i \in SentTo(a)' /\ log'[i] = log[i]
  BY DEF LogGrows, SentTo, OfType

LEMMA NoSends ==
  ASSUME TypeOK,
         \/ log' = log
         \/ \E e \in Event : log' = Append(log, e) /\ e.type # "SendNewPacket"
  PROVE  LogGrows /\ \A a : SentTo(a)' = SentTo(a)
<1>1. LogGrows
  BY LogMembers
<1>2. \A i \in DOMAIN log' : i \in DOMAIN log \/ log'[i].type # "SendNewPacket"
  BY AppendedEvent DEF TypeOK, Bus!BusTypeOK
<1>3. ASSUME NEW a PROVE SentTo(a)' = SentTo(a)
  BY <1>1, <1>2 DEF LogGrows, SentTo, OfType
<1> QED BY <1>1, <1>3

LEMMA SentOnceStays ==
  ASSUME ServiceIInv, LogGrows, \A a : SentTo(a)' = SentTo(a) PROVE SentOnceOK'
<1>1. ASSUME NEW a \in Addrs, NEW i \in SentTo(a)'
      PROVE  i \in SentTo(a) /\ log'[i] = log[i]
  BY <1>1, SendsStay
<1> QED BY <1>1 DEF ServiceIInv, DeliveryOK, SentOnceOK

LEMMA DeliveredStays ==
  ASSUME TypeOK, NEW a \in Addrs, NEW cmd, Delivered(a, cmd), LogGrows,
         cursor'[SockRx(a)] \in Int, cursor[SockRx(a)] <= cursor'[SockRx(a)]
  PROVE  Delivered(a, cmd)'
<1>1. PICK i \in SentTo(a) : log[i].packet = cmd /\ i <= cursor[SockRx(a)]
  BY DEF Delivered
<1>2. i \in Int /\ cursor[SockRx(a)] \in Int
  BY ReceiversExist DEF SentTo, OfType, TypeOK, Bus!BusTypeOK, Bus!Detached
<1>3. i <= cursor'[SockRx(a)]
  BY <1>1, <1>2
<1> QED BY <1>1, <1>3, SendsStay DEF Delivered

LEMMA DeliveredOKStays ==
  ASSUME TypeOK, DeliveredOK, LogGrows, UNCHANGED accepted,
         \A a \in Addrs : cursor'[SockRx(a)] = cursor[SockRx(a)]
  PROVE  DeliveredOK'
<1> SUFFICES ASSUME NEW a \in Addrs, NEW cmd \in accepted[a] PROVE Delivered(a, cmd)'
  BY DEF DeliveredOK
<1>1. cursor[SockRx(a)] \in Int
  BY ReceiversExist DEF TypeOK, Bus!BusTypeOK, Bus!Detached
<1> QED BY <1>1, DeliveredStays DEF DeliveredOK

LEMMA QuietDelivery ==
  ASSUME IInv, ServiceIInv, UNCHANGED serviceVars, Quiet PROVE DeliveryOK'
<1>1. TypeOK /\ log' = log
  BY DEF IInv, Quiet
<1>2. SentOnceOK'
  BY <1>1, NoSends, SentOnceStays
<1>3. DeliveredOK'
  BY <1>1, NoSends, DeliveredOKStays DEF Quiet, serviceVars, ServiceIInv, DeliveryOK
<1>4. AnsweredOnceOK'
  BY DEF Quiet, serviceVars, ServiceIInv, DeliveryOK, AnsweredOnceOK, HasReplied
<1> QED BY <1>2, <1>3, <1>4 DEF DeliveryOK

LEMMA SocketReadsDelivery ==
  ASSUME IInv, ServiceIInv, UNCHANGED serviceVars, NEW a \in Addrs, SocketReads(a) PROVE DeliveryOK'
<1>1. TypeOK /\ UNCHANGED <<cursor, inbox>>
  BY DEF IInv, SocketReads
<1>2. Head(outbox[a]) \in Answer
  BY DEF SocketReads, IInv, TypeOK
<1>3. PICK e \in Event : e = Received(a, Head(outbox[a])) /\ log' = Append(log, e)
  BY <1>2, EventsAreTyped DEF SocketReads, Bus!Publish
<1>4. e.type # "SendNewPacket"
  BY <1>3 DEF Received
<1>5. SentOnceOK'
  BY <1>1, <1>3, <1>4, NoSends, SentOnceStays
<1>6. DeliveredOK'
  BY <1>1, <1>3, <1>4, NoSends, DeliveredOKStays DEF serviceVars, ServiceIInv, DeliveryOK
<1>7. AnsweredOnceOK'
  BY <1>1 DEF serviceVars, ServiceIInv, DeliveryOK, AnsweredOnceOK, HasReplied
<1> QED BY <1>5, <1>6, <1>7 DEF DeliveryOK

(* Nothing was sent to a worker before it connected.                        *)
LEMMA ConnectDelivery ==
  ASSUME IInv, OrderOK, ServiceIInv, UNCHANGED serviceVars, NEW a \in Addrs, Connect(a)
  PROVE  DeliveryOK'
<1>1. TypeOK /\ UNCHANGED inbox
  BY DEF IInv, Connect
<1>2. PICK e \in Event : e = Connected(a) /\ log' = Append(log, e)
  BY EventsAreTyped DEF Connect, Bus!Publish
<1>3. e.type # "SendNewPacket"
  BY <1>2 DEF Connected
<1>4. SentOnceOK'
  BY <1>1, <1>2, <1>3, NoSends, SentOnceStays
<1>5. DeliveredOK'
  <2> SUFFICES ASSUME NEW b \in Addrs, NEW cmd \in accepted[b] PROVE Delivered(b, cmd)'
    BY DEF DeliveredOK, serviceVars
  <2>1. Delivered(b, cmd)
    BY DEF ServiceIInv, DeliveryOK, DeliveredOK
  <2>2. Known(b)
    BY <2>1 DEF Delivered, SentTo, OfType, OrderOK, KnownOK
  <2>3. SockRx(b) # SockRx(a) /\ SockRx(a) \in Receivers /\ SockRx(b) \in Receivers
    BY <2>2, ReceiversDiffer, ReceiversExist DEF Connect, Known
  <2>4. cursor'[SockRx(b)] = cursor[SockRx(b)]
    BY <1>1, <2>3, OtherCursors DEF Connect
  <2>5. cursor[SockRx(b)] \in Int
    BY <1>1, <2>3 DEF TypeOK, Bus!BusTypeOK, Bus!Detached
  <2> QED BY <1>1, <1>2, <1>3, <2>1, <2>4, <2>5, NoSends, DeliveredStays
<1>6. AnsweredOnceOK'
  BY <1>1 DEF serviceVars, ServiceIInv, DeliveryOK, AnsweredOnceOK, HasReplied
<1> QED BY <1>4, <1>5, <1>6 DEF DeliveryOK

(* The load of a worker is sent once, and so is the prompt of a request.    *)
LEMMA CommandIsNew ==
  ASSUME IInv, OrderOK, NEW c \in Calls, SendCommand(c), NEW i \in SentTo(target[c])
  PROVE  log[i].packet # CommandOf(c)
<1>1. pc[c] = "picked" /\ i \in DOMAIN log /\ log[i].type = "SendNewPacket" /\ log[i].addr = target[c]
  BY DEF SendCommand, SentTo, OfType
<1>2. CASE c = Loader
  <2>1. watcher.pc = "load" /\ target[c] = watcher.addr
    BY <1>1, <1>2 DEF OrderOK, LoaderOK, IInv, TypeOK
  <2>2. ~LoadSent(watcher.addr)
    BY <1>1, <1>2, <2>1 DEF OrderOK, GreetedOK
  <2> QED BY <1>1, <1>2, <2>1, <2>2 DEF LoadSent, IsLoad, CommandOf, Kind
<1>3. CASE c # Loader
  <2>1. EventSourced(log[i]) /\ CommandOf(c).kind = "Generate" /\ CommandOf(c).prompt = c
    BY <1>1, <1>3 DEF IInv, SourcesOK, CommandOf, Kind
  <2>2. log[i].packet = CommandOf(c) => Sent(c)
    BY <1>1, <2>1 DEF EventSourced, Source
  <2> QED BY <1>1, <2>2 DEF Sent
<1> QED BY <1>2, <1>3

LEMMA SendCommandDelivery ==
  ASSUME IInv, OrderOK, ServiceIInv, UNCHANGED serviceVars, NEW c \in Calls, SendCommand(c)
  PROVE  DeliveryOK'
<1>1. TypeOK /\ UNCHANGED <<cursor, inbox>> /\ pc[c] = "picked"
  BY DEF IInv, SendCommand, workerVars
<1>2. target[c] \in Addrs /\ CommandOf(c) \in Command /\ CommandOf(c) \in Commands
  BY <1>1 DEF IInv, PhaseOK, CommandOf, Command, Kind, Calls, Commands, LoadCommands, GenerateCommands
<1>3. PICK e \in Event : e = Send(target[c], CommandOf(c)) /\ log' = Append(log, e)
  BY <1>2, EventsAreTyped DEF SendCommand, Bus!Publish
<1>4. e.addr = target[c] /\ e.packet = CommandOf(c)
  BY <1>3 DEF Send
<1>5. LogGrows
  BY <1>1, <1>3, AppendedEvent
<1>6. ASSUME NEW a \in Addrs, NEW i \in SentTo(a)', i \notin SentTo(a)
      PROVE  i = Len(log) + 1 /\ log'[i] = e /\ a = target[c]
  <2>1. i \in DOMAIN log' /\ log'[i].type = "SendNewPacket" /\ log'[i].addr = a
    BY <1>6 DEF SentTo, OfType
  <2>2. i \notin DOMAIN log
    BY <1>5, <1>6, <2>1 DEF LogGrows, SentTo, OfType
  <2> QED BY <1>1, <1>3, <1>4, <2>1, <2>2, AppendedEvent
<1>7. ASSUME NEW a \in Addrs, NEW i \in SentTo(a)', i \in SentTo(a)
      PROVE  log'[i] = log[i] /\ (a = target[c] => log[i].packet # e.packet)
  BY <1>4, <1>5, <1>7, SendsStay, CommandIsNew
<1>8. SentOnceOK'
  <2>1. ASSUME NEW a \in Addrs, NEW i \in SentTo(a)' PROVE log'[i].packet \in Commands
    BY <1>2, <1>4, <1>6, <1>7, <2>1 DEF ServiceIInv, DeliveryOK, SentOnceOK
  <2>2. ASSUME NEW a \in Addrs, NEW i \in SentTo(a)', NEW j \in SentTo(a)',
               log'[i].packet = log'[j].packet
        PROVE  i = j
    BY <1>6, <1>7, <2>2 DEF ServiceIInv, DeliveryOK, SentOnceOK
  <2> QED BY <2>1, <2>2 DEF SentOnceOK
<1>9. DeliveredOK'
  BY <1>1, <1>5, DeliveredOKStays DEF serviceVars, ServiceIInv, DeliveryOK
<1>10. AnsweredOnceOK'
  BY <1>1 DEF serviceVars, ServiceIInv, DeliveryOK, AnsweredOnceOK, HasReplied
<1> QED BY <1>8, <1>9, <1>10 DEF DeliveryOK

LEMMA DeliversDelivery ==
  ASSUME IInv, ServiceIInv, NEW a \in Addrs, Delivers(a) PROVE DeliveryOK'
<1>1. PICK i \in SentTo(a) :
        /\ cursor[SockRx(a)] < i /\ Bus!MoveTo(SockRx(a), i)
        /\ inbox' = [inbox EXCEPT ![a] = @ \cup {log[i].packet}]
        /\ log[i].packet \in Commands /\ UNCHANGED log
  BY DeliversPacket
<1>2. /\ inbox'[a] = inbox[a] \cup {log[i].packet}
      /\ accepted'[a] = accepted[a] \cup inbox'[a]
      /\ \A b \in Addrs : b # a => inbox'[b] = inbox[b] /\ accepted'[b] = accepted[b]
      /\ UNCHANGED <<decided, replies>>
  BY <1>1 DEF IInv, TypeOK, ServiceIInv, ServiceTypeOK, Delivers
<1>3. /\ TypeOK /\ LogGrows /\ i \in Int
      /\ cursor'[SockRx(a)] = i /\ cursor[SockRx(a)] \in Int
  BY <1>1, NoSends, ReceiversExist
  DEF IInv, TypeOK, Bus!BusTypeOK, Bus!Detached, Bus!MoveTo, SentTo, OfType
<1>4. SentOnceOK'
  BY <1>1, <1>3, NoSends, SentOnceStays
<1>5. ASSUME NEW b \in Addrs, NEW cmd, Delivered(b, cmd) PROVE Delivered(b, cmd)'
  <2>1. CASE b = a
    BY <1>1, <1>3, <1>5, <2>1, DeliveredStays
  <2>2. CASE b # a
    <3>1. cursor'[SockRx(b)] = cursor[SockRx(b)] /\ cursor[SockRx(b)] \in Int
      BY <1>1, <1>3, <2>2, ReceiversExist, ReceiversDiffer
      DEF TypeOK, Bus!BusTypeOK, Bus!Detached, Bus!MoveTo
    <3> QED BY <1>3, <1>5, <3>1, DeliveredStays
  <2> QED BY <2>1, <2>2
<1>6. ASSUME NEW cmd, cmd = log[i].packet PROVE Delivered(a, cmd)'
  BY <1>1, <1>3, <1>6 DEF Delivered, SentTo, OfType
<1>7. DeliveredOK'
  <2> SUFFICES ASSUME NEW b \in Addrs, NEW cmd \in accepted'[b] PROVE Delivered(b, cmd)'
    BY DEF DeliveredOK
  <2>1. cmd \in accepted[b] \/ (b = a /\ cmd = log[i].packet)
    BY <1>2, InboxIsAccepted
  <2> QED BY <1>5, <1>6, <2>1 DEF ServiceIInv, DeliveryOK, DeliveredOK
<1>8. ~HasReplied(a, log[i].packet)
  <2> SUFFICES ASSUME HasReplied(a, log[i].packet) PROVE FALSE
    OBVIOUS
  <2>1. decided[a][log[i].packet] # None
    BY DEF HasReplied, ServiceIInv, DeliveryOK, AnsweredOnceOK
  <2>2. Delivered(a, log[i].packet)
    BY <1>1, <2>1 DEF ServiceIInv, DeliveryOK, AnsweredOnceOK, DeliveredOK
  <2>3. PICK j \in SentTo(a) : log[j].packet = log[i].packet /\ j <= cursor[SockRx(a)]
    BY <2>2 DEF Delivered
  <2>4. j = i
    BY <2>3 DEF ServiceIInv, DeliveryOK, SentOnceOK
  <2> QED BY <1>1, <1>3, <2>3, <2>4
<1>9. AnsweredOnceOK'
  BY <1>2, <1>8 DEF ServiceIInv, DeliveryOK, AnsweredOnceOK, HasReplied
<1> QED BY <1>4, <1>7, <1>9 DEF DeliveryOK

(* The steps of a worker leave the bus alone.                               *)
LEMMA WorkerSends ==
  ASSUME TypeOK, ServiceIInv, UNCHANGED <<log, cursor, accepted>>
  PROVE  SentOnceOK' /\ DeliveredOK'
<1>1. LogGrows /\ \A a : SentTo(a)' = SentTo(a)
  BY NoSends
<1>2. DeliveredOK'
  BY <1>1, DeliveredOKStays DEF ServiceIInv, DeliveryOK
<1> QED BY <1>1, <1>2, SentOnceStays

LEMMA DecidesDelivery ==
  ASSUME IInv, ServiceIInv, NEW a \in Addrs, Decides(a) PROVE DeliveryOK'
<1>1. UNCHANGED <<log, cursor, accepted>> /\ TypeOK
  BY DEF Decides, vars, busVars, IInv
<1>2. PICK cmd \in Commands : \E outcome \in Verdicts : TakesEffect(a, cmd, outcome)
  BY DecidesOnce
<1>3. PICK outcome \in Verdicts : TakesEffect(a, cmd, outcome)
  BY <1>2
<1>4. outcome # None
  BY ClusterAssumption DEF Verdicts
<1>5. \A b \in Addrs, d \in Commands :
        decided'[b][d] = IF b = a /\ d = cmd THEN outcome ELSE decided[b][d]
  BY <1>3 DEF TakesEffect, ServiceIInv, ServiceTypeOK
<1>6. \A b \in Addrs : \A k \in DOMAIN replies[b] : replies[b][k].cmd \in Commands
  <2> SUFFICES ASSUME NEW b \in Addrs, NEW k \in DOMAIN replies[b]
               PROVE  replies[b][k].cmd \in Commands
    OBVIOUS
  <2>1. replies[b] \in Seq(Response)
    BY DEF ServiceIInv, ServiceTypeOK
  <2>2. replies[b][k] \in Response
    BY <2>1
  <2> QED BY <2>2 DEF Response
<1>7. AnsweredOnceOK'
  BY <1>3, <1>4, <1>5, <1>6, InboxIsAccepted
  DEF TakesEffect, ServiceIInv, ServiceTypeOK, DeliveryOK, AnsweredOnceOK, HasReplied
<1> QED BY <1>1, <1>7, WorkerSends DEF DeliveryOK

LEMMA LetsGoDelivery ==
  ASSUME IInv, ServiceIInv, NEW a \in Addrs, LetsGo(a) PROVE DeliveryOK'
<1>1. UNCHANGED <<log, cursor, inbox, accepted, decided, replies>> /\ TypeOK
  BY DEF LetsGo, vars, busVars, workerVars, IInv
<1>2. AnsweredOnceOK'
  BY <1>1 DEF ServiceIInv, DeliveryOK, AnsweredOnceOK, HasReplied
<1> QED BY <1>1, <1>2, WorkerSends DEF DeliveryOK

LEMMA RepliesKeep ==
  ASSUME ServiceIInv, NEW a \in Addrs, NEW cmd \in inbox[a], decided[a][cmd] # None,
         replies' = [replies EXCEPT ![a] =
           Append(@, [cmd |-> cmd, outcome |-> decided[a][cmd]])]
  PROVE  /\ HasReplied(a, cmd)'
         /\ \A d : \A b \in Addrs : HasReplied(b, d) => HasReplied(b, d)'
         /\ \A d : \A b \in Addrs : HasReplied(b, d)' => HasReplied(b, d) \/ (b = a /\ d = cmd)
<1>1. /\ replies \in [Addrs -> Seq(Response)]
      /\ cmd \in Commands /\ decided[a][cmd] \in Verdicts
  BY InboxIsAccepted DEF ServiceIInv, ServiceTypeOK
<1>2. PICK reply \in Response : reply = [cmd |-> cmd, outcome |-> decided[a][cmd]]
  BY <1>1 DEF Response
<1>3. replies[a] \in Seq(Response) /\ replies'[a] = Append(replies[a], reply) /\ reply.cmd = cmd
  BY <1>1, <1>2
<1>4. /\ DOMAIN replies'[a] = DOMAIN replies[a] \cup {Len(replies[a]) + 1}
      /\ \A k \in DOMAIN replies[a] : replies'[a][k] = replies[a][k]
      /\ replies'[a][Len(replies[a]) + 1] = reply
  BY <1>3
<1>5. \A b \in Addrs : b # a => replies'[b] = replies[b]
  BY <1>1
<1>6. HasReplied(a, cmd)'
  BY <1>3, <1>4 DEF HasReplied
<1>7. \A d : \A b \in Addrs : HasReplied(b, d) => HasReplied(b, d)'
  BY <1>4, <1>5 DEF HasReplied
<1>8. \A d : \A b \in Addrs : HasReplied(b, d)' => HasReplied(b, d) \/ (b = a /\ d = cmd)
  BY <1>3, <1>4, <1>5 DEF HasReplied
<1> QED BY <1>6, <1>7, <1>8

LEMMA RepliesDelivery ==
  ASSUME IInv, ServiceIInv, NEW a \in Addrs, Replies(a) PROVE DeliveryOK'
<1>1. UNCHANGED <<log, cursor, accepted, decided>> /\ TypeOK
  BY DEF Replies, busVars, IInv
<1>2. PICK cmd \in inbox[a] :
        /\ decided[a][cmd] # None
        /\ inbox' = [inbox EXCEPT ![a] = @ \ {cmd}]
        /\ replies' = [replies EXCEPT ![a] =
             Append(@, [cmd |-> cmd, outcome |-> decided[a][cmd]])]
  BY DEF Replies
<1>3. \A b \in Addrs : \A d \in inbox'[b] : d \in inbox[b] /\ ~(b = a /\ d = cmd)
  BY <1>2 DEF IInv, TypeOK
<1>4. ASSUME NEW b \in Addrs, NEW d \in inbox'[b] PROVE d \in accepted'[b] /\ ~HasReplied(b, d)'
  <2>1. d \in accepted[b] /\ ~HasReplied(b, d) /\ ~(b = a /\ d = cmd)
    BY <1>3, <1>4 DEF ServiceIInv, DeliveryOK, AnsweredOnceOK
  <2> QED BY <1>1, <1>2, <2>1, RepliesKeep
<1>5. \A d : \A b \in Addrs : HasReplied(b, d)' => decided'[b][d] # None
  BY <1>1, <1>2, RepliesKeep DEF ServiceIInv, DeliveryOK, AnsweredOnceOK, HasReplied
<1>6. ASSUME NEW b \in Addrs, NEW d \in accepted'[b], decided'[b][d] = None PROVE d \in inbox'[b]
  BY <1>1, <1>2, <1>6 DEF IInv, TypeOK, ServiceIInv, DeliveryOK, AnsweredOnceOK
<1>7. AnsweredOnceOK'
  BY <1>1, <1>4, <1>5, <1>6 DEF ServiceIInv, DeliveryOK, AnsweredOnceOK, HasReplied
<1> QED BY <1>1, <1>7, WorkerSends DEF DeliveryOK

LEMMA StepDelivery ==
  ASSUME IInv, OrderOK, ServiceIInv, [ClusterNext]_clusterVars PROVE DeliveryOK'
<1>1. CASE MasterStep /\ UNCHANGED serviceVars
  BY <1>1, MasterSteps, QuietDelivery, SocketReadsDelivery, ConnectDelivery, SendCommandDelivery
  DEF IInv
<1>2. CASE UNCHANGED clusterVars
  <2>1. Quiet /\ UNCHANGED serviceVars
    BY <1>2 DEF Quiet, clusterVars, vars, busVars, workerVars
  <2> QED BY <2>1, QuietDelivery
<1> QED BY <1>1, <1>2, DeliversDelivery, DecidesDelivery, LetsGoDelivery, RepliesDelivery DEF ClusterNext

-------------------------------------------------------------------------------
(***************************************************************************)
(* What follows the answer to a load.                                       *)
(***************************************************************************)
FollowsStay == \A a \in Addrs : LoadReplied(a) => LoadReplied(a)'

LEMMA RepliesFollow == ASSUME ServiceIInv, [ClusterNext]_clusterVars PROVE FollowsStay
<1>1. CASE UNCHANGED replies
  BY <1>1 DEF FollowsStay, LoadReplied, HasReplied
<1>2. ASSUME NEW a \in Addrs, Replies(a) PROVE FollowsStay
  <2>1. \A d : \A b \in Addrs : HasReplied(b, d) => HasReplied(b, d)'
    BY <1>2, RepliesKeep DEF Replies
  <2> QED BY <2>1 DEF FollowsStay, LoadReplied
<1> QED BY <1>1, <1>2 DEF ClusterNext, Delivers, Decides, LetsGo, serviceVars, clusterVars

LEMMA MessagesStay ==
  ASSUME TypeOK, MessagesFollow, FollowsStay,
         \/ log' = log
         \/ \E e \in Event : log' = Append(log, e) /\ EventFollows(e)',
         \A a \in Addrs : \A k \in DOMAIN outbox'[a] : \E ans :
           /\ outbox'[a][k] = ans
           /\ (\E j \in DOMAIN outbox[a] : ans = outbox[a][j]) \/ AnswerFollows(a, ans)'
  PROVE  MessagesFollow'
<1>1. \A ans : \A a \in Addrs : AnswerFollows(a, ans) => AnswerFollows(a, ans)'
  BY DEF AnswerFollows, FollowsStay
<1>2. \A e \in Event : EventFollows(e) => EventFollows(e)'
  BY <1>1, EventFields DEF EventFollows, FollowsStay
<1>3. ASSUME NEW a \in Addrs, NEW k \in DOMAIN outbox'[a], NEW ans, ans = outbox'[a][k]
      PROVE  AnswerFollows(a, ans)'
  BY <1>1, <1>3 DEF MessagesFollow
<1>4. ASSUME NEW i \in DOMAIN log', NEW e, e = log'[i] PROVE EventFollows(e)'
  <2>1. (i \in DOMAIN log /\ e = log[i]) \/ EventFollows(e)'
    BY <1>4, AppendedEvent DEF LogGrows
  <2>2. i \in DOMAIN log => log[i] \in Event
    BY DEF TypeOK, Bus!BusTypeOK
  <2> QED BY <1>2, <2>1, <2>2 DEF MessagesFollow
<1>5. (\A a \in Addrs : \A k \in DOMAIN outbox[a] : AnswerFollows(a, outbox[a][k]))'
  BY <1>3 DEF AnswerFollows, LoadReplied, HasReplied
<1>6. (\A i \in DOMAIN log : EventFollows(log[i]))'
  BY <1>4 DEF EventFollows, AnswerFollows, LoadReplied, HasReplied
<1> QED BY <1>5, <1>6 DEF MessagesFollow

LEMMA SocketReadsMessages ==
  ASSUME IInv, ServiceIInv, FollowsStay, NEW a \in Addrs, SocketReads(a) PROVE MessagesFollow'
<1>1. outbox \in [Addrs -> Seq(Answer)] /\ outbox[a] \in Seq(Answer) /\ outbox[a] # <<>>
  BY DEF SocketReads, IInv, TypeOK
<1>2. PICK ans \in Answer : ans = Head(outbox[a]) /\ 1 \in DOMAIN outbox[a] /\ ans = outbox[a][1]
  BY <1>1
<1>3. PICK e \in Event : e = Received(a, ans) /\ log' = Append(log, e)
  BY <1>2, EventsAreTyped DEF SocketReads, Bus!Publish
<1>4. EventFollows(e)'
  <2>1. AnswerFollows(a, ans)
    BY <1>2 DEF ServiceIInv, MessagesFollow
  <2> QED BY <1>3, <2>1 DEF FollowsStay, AnswerFollows, EventFollows, Received
<1>5. \A b \in Addrs : \A k \in DOMAIN outbox'[b] : \E j \in DOMAIN outbox[b] :
        outbox'[b][k] = outbox[b][j]
  <2> TAKE b \in Addrs
  <2> TAKE k \in DOMAIN outbox'[b]
  <2>1. CASE b = a
    <3>1. outbox'[a] = Tail(outbox[a])
      BY <1>1 DEF SocketReads
    <3>2. k + 1 \in DOMAIN outbox[a] /\ outbox'[a][k] = outbox[a][k + 1]
      BY <1>1, <2>1, <3>1
    <3> QED BY <2>1, <3>2
  <2>2. CASE b # a
    BY <1>1, <2>2 DEF SocketReads
  <2> QED BY <2>1, <2>2
<1> QED BY <1>3, <1>4, <1>5, MessagesStay DEF IInv, ServiceIInv

LEMMA RepliesMessages ==
  ASSUME IInv, ServiceIInv, FollowsStay, NEW a \in Addrs, Replies(a) PROVE MessagesFollow'
<1>1. PICK cmd \in inbox[a] :
        /\ decided[a][cmd] # None
        /\ outbox' = [outbox EXCEPT ![a] =
             Append(@, AnswerTo(cmd, IF decided[a][cmd] = "Ok" THEN "ok" ELSE "error"))]
        /\ replies' = [replies EXCEPT ![a] =
             Append(@, [cmd |-> cmd, outcome |-> decided[a][cmd]])]
  BY DEF Replies
<1>2. PICK outcome \in {"ok", "error"} :
        outbox' = [outbox EXCEPT ![a] = Append(@, AnswerTo(cmd, outcome))]
  BY <1>1
<1>3. cmd \in Command /\ cmd \in Commands
  BY InboxIsAccepted DEF IInv, TypeOK
<1>4. PICK ans \in Answer : ans = AnswerTo(cmd, outcome)
  BY <1>3, AnswersAreTyped DEF Outcomes
<1>5. AnswerFollows(a, ans)'
  <2>1. ans.kind = cmd.kind /\ cmd.kind \in {"Load", "Generate"}
    BY <1>2, <1>3, <1>4 DEF AnswerTo, Command
  <2>2. cmd.kind = "Load" => cmd \in LoadCommands
    BY <1>3 DEF Commands, LoadCommands, GenerateCommands
  <2>3. HasReplied(a, cmd)'
    BY <1>1, RepliesKeep
  <2> QED BY <2>1, <2>2, <2>3 DEF AnswerFollows, LoadReplied
<1>6. outbox \in [Addrs -> Seq(Answer)]
  BY DEF IInv, TypeOK
<1>7. \A b \in Addrs : \A k \in DOMAIN outbox'[b] :
        (k \in DOMAIN outbox[b] /\ outbox'[b][k] = outbox[b][k]) \/ (b = a /\ outbox'[b][k] = ans)
  BY <1>2, <1>4, <1>6
<1>8. log' = log
  BY DEF Replies, busVars
<1> QED BY <1>5, <1>7, <1>8, MessagesStay DEF IInv, ServiceIInv

LEMMA SendCommandMessages ==
  ASSUME IInv, ServiceIInv, FollowsStay, NEW c \in Calls, SendCommand(c) PROVE MessagesFollow'
<1>1. pc[c] = "picked" /\ UNCHANGED outbox
  BY DEF SendCommand, workerVars
<1>2. target[c] \in Addrs /\ CommandOf(c) \in Command
  BY <1>1 DEF IInv, PhaseOK, CommandOf, Command, Kind
<1>3. PICK e \in Event : e = Send(target[c], CommandOf(c)) /\ log' = Append(log, e)
  BY <1>2, EventsAreTyped DEF SendCommand, Bus!Publish
<1>4. e.type = "SendNewPacket" /\ e.addr = target[c] /\ e.packet.kind = Kind(c)
  BY <1>3 DEF Send, CommandOf
<1>5. Kind(c) = "Generate" => LoadReplied(target[c])
  BY <1>1 DEF Kind, Calls, ServiceIInv, CallsFollow
<1>6. EventFollows(e)'
  BY <1>2, <1>4, <1>5 DEF EventFollows, FollowsStay
<1> QED BY <1>1, <1>3, <1>6, MessagesStay DEF IInv, ServiceIInv

LEMMA StepMessages ==
  ASSUME IInv, ServiceIInv, FollowsStay, [ClusterNext]_clusterVars PROVE MessagesFollow'
<1>1. ASSUME UNCHANGED <<log, outbox>> PROVE MessagesFollow'
  BY <1>1, MessagesStay DEF IInv, ServiceIInv
<1>2. ASSUME NEW a \in Addrs, Connect(a) PROVE MessagesFollow'
  <2>1. PICK e \in Event : e = Connected(a) /\ log' = Append(log, e)
    BY <1>2, EventsAreTyped DEF Connect, Bus!Publish
  <2>2. EventFollows(e)'
    BY <2>1 DEF Connected, EventFollows
  <2>3. UNCHANGED outbox
    BY <1>2 DEF Connect
  <2> QED BY <2>1, <2>2, <2>3, MessagesStay DEF IInv, ServiceIInv
<1>3. CASE MasterStep
  BY <1>1, <1>2, <1>3, MasterSteps, SocketReadsMessages, SendCommandMessages DEF IInv, Quiet
<1>4. ASSUME NEW a \in Addrs, Delivers(a) \/ Decides(a) \/ LetsGo(a) PROVE MessagesFollow'
  <2>1. UNCHANGED <<log, outbox>>
    BY <1>4, DeliversPacket DEF Decides, LetsGo, vars, busVars, workerVars
  <2> QED BY <1>1, <2>1
<1>5. CASE UNCHANGED clusterVars
  BY <1>1, <1>5 DEF clusterVars, vars, busVars, workerVars
<1> QED BY <1>3, <1>4, <1>5, RepliesMessages DEF ClusterNext

(* The calls: only the loader's answer and its return to the watcher add    *)
(* somebody that a worker's answer has to precede.                          *)
LEMMA CallsStay ==
  ASSUME IInv, OrderOK, CallsFollow, FollowsStay,
         pc'[Loader] = "done" => pc[Loader] = "done" /\ target'[Loader] = target[Loader],
         workers' \subseteq workers,
         \A r \in Requests : pc'[r] = "picked" =>
           \/ pc[r] = "picked" /\ target'[r] = target[r]
           \/ target'[r] \in workers
  PROVE  CallsFollow'
<1>1. pc[Loader] = "done" => target[Loader] \in Addrs
  BY DEF IInv, TypeOK, PhaseOK, OrderOK, LoaderOK
<1>2. \A r \in Requests : pc[r] = "picked" => target[r] \in Addrs
  BY DEF IInv, PhaseOK, Calls
<1>3. workers \subseteq Addrs
  BY DEF IInv, TypeOK
<1>4. ASSUME NEW a, a = target'[Loader], pc'[Loader] = "done" PROVE LoadReplied(a)'
  BY <1>1, <1>4 DEF CallsFollow, FollowsStay
<1>5. ASSUME NEW a \in workers' PROVE LoadReplied(a)'
  BY <1>3, <1>5 DEF CallsFollow, FollowsStay
<1>6. ASSUME NEW r \in Requests, NEW a, a = target'[r], pc'[r] = "picked" PROVE LoadReplied(a)'
  BY <1>2, <1>3, <1>6 DEF CallsFollow, FollowsStay
<1> QED BY <1>4, <1>5, <1>6 DEF CallsFollow, LoadReplied, HasReplied

LEMMA RequestCalls ==
  ASSUME IInv, OrderOK, CallsFollow, FollowsStay, NEW r \in Requests,
         GenerateStart(r) \/ CallStep(r) \/ ClientHangsUp(r)
  PROVE  CallsFollow'
<1>1. /\ pc \in [Calls -> {"idle", "subscribed", "picked", "waiting", "done", "dropped"}]
      /\ target \in [Calls -> Addrs \cup {None}]
      /\ r \in Calls /\ Loader \in Calls /\ r # Loader /\ Requests \subseteq Calls
      /\ workers' = workers
  BY CallTypes DEF IInv, GenerateStart, CallStep, GeneratePick, SendCommand, ReceiveAnswer,
                   ClientHangsUp
<1>2. CASE GenerateStart(r)
  BY <1>1, <1>2, CallsStay DEF GenerateStart
<1>3. CASE GeneratePick(r)
  <2>1. CASE workers = {}
    BY <1>1, <1>3, <2>1, CallsStay DEF GeneratePick
  <2>2. CASE workers # {}
    <3>1. First(workers) \in workers
      BY <2>2, FirstIsMember, GatewayAssumption DEF IInv, TypeOK
    <3> QED BY <1>1, <1>3, <2>2, <3>1, CallsStay DEF GeneratePick
  <2> QED BY <2>1, <2>2
<1>4. CASE SendCommand(r) \/ ReceiveAnswer(r) \/ ClientHangsUp(r)
  BY <1>1, <1>4, CallsStay DEF SendCommand, ReceiveAnswer, ClientHangsUp
<1> QED BY <1>2, <1>3, <1>4 DEF CallStep

(* load_model returns on the answer to its load.                            *)
LEMMA LoaderReturns ==
  ASSUME IInv, OrderOK, ServiceIInv, ReceiveAnswer(Loader)
  PROVE  LoadReplied(target[Loader]) /\ target[Loader] \in Addrs
<1>1. PICK i \in Endings(Loader) : TRUE
  BY DEF ReceiveAnswer
<1>2. /\ i \in DOMAIN log /\ log[i].type = "NewPacketReceived" /\ log[i].addr = target[Loader]
      /\ Ends(Loader, log[i].packet)
  BY DEF Endings, OfType
<1>3. EventFollows(log[i])
  BY <1>2 DEF ServiceIInv, MessagesFollow
<1>4. AnswerFollows(target[Loader], log[i].packet)
  BY <1>2, <1>3 DEF EventFollows
<1>5. target[Loader] \in Addrs
  BY DEF ReceiveAnswer, IInv, PhaseOK, Calls
<1> QED BY <1>2, <1>4, <1>5 DEF AnswerFollows, Ends, Kind

LEMMA WatcherCalls ==
  ASSUME IInv, OrderOK, ServiceIInv, FollowsStay, WatcherStep PROVE CallsFollow'
<1>1. /\ pc \in [Calls -> {"idle", "subscribed", "picked", "waiting", "done", "dropped"}]
      /\ target \in [Calls -> Addrs \cup {None}]
      /\ Loader \in Calls /\ Requests \subseteq Calls /\ Loader \notin Requests
      /\ CallsFollow
  BY CallTypes DEF IInv, ServiceIInv
<1>2. CASE \/ \E rx \in {ConnRx, DiscRx} : WatcherSubscribes(rx) \/ WatcherSkips(rx)
           \/ WatcherSeesConnect \/ WatcherSeesDisconnect
  <2>1. UNCHANGED <<pc, target>> /\ workers' \subseteq workers
    BY <1>2 DEF WatcherSubscribes, WatcherSkips, WatcherSeesConnect, WatcherSeesDisconnect, callVars
  <2> QED BY <1>1, <2>1, CallsStay
<1>3. CASE LoadStart
  BY <1>1, <1>3, CallsStay DEF LoadStart
<1>4. CASE SendCommand(Loader)
  BY <1>1, <1>4, CallsStay DEF SendCommand
<1>5. CASE ReceiveAnswer(Loader)
  <2>1. UNCHANGED <<target, workers>> /\ \A r \in Requests : pc'[r] = pc[r]
    BY <1>1, <1>5 DEF ReceiveAnswer
  <2>2. ASSUME NEW a, a = target[Loader] PROVE LoadReplied(a)'
    BY <1>5, <2>2, LoaderReturns DEF FollowsStay
  <2>3. ASSUME NEW a \in workers PROVE LoadReplied(a)'
    BY <1>1, <2>3 DEF CallsFollow, FollowsStay, IInv, TypeOK
  <2>4. ASSUME NEW r \in Requests, NEW a, a = target[r], pc[r] = "picked" PROVE LoadReplied(a)'
    BY <1>1, <2>4 DEF CallsFollow, FollowsStay, IInv, PhaseOK
  <2> QED BY <2>1, <2>2, <2>3, <2>4 DEF CallsFollow, LoadReplied, HasReplied
<1>6. CASE WatcherRegisters
  <2>1. /\ workers' = workers \cup {watcher.addr} /\ UNCHANGED target
        /\ pc'[Loader] = "idle" /\ \A r \in Requests : pc'[r] = pc[r]
    BY <1>1, <1>6 DEF WatcherRegisters
  <2>2. LoadReplied(watcher.addr) /\ watcher.addr \in Addrs
    BY <1>1, <1>6 DEF WatcherRegisters, CallsFollow, OrderOK, LoaderOK, IInv, PhaseOK
  <2>3. ASSUME NEW a \in workers' PROVE LoadReplied(a)'
    BY <1>1, <2>1, <2>2, <2>3 DEF CallsFollow, FollowsStay, IInv, TypeOK
  <2>4. ASSUME NEW r \in Requests, NEW a, a = target[r], pc[r] = "picked" PROVE LoadReplied(a)'
    BY <1>1, <2>4 DEF CallsFollow, FollowsStay, IInv, PhaseOK
  <2> QED BY <2>1, <2>3, <2>4 DEF CallsFollow, LoadReplied, HasReplied
<1> QED BY <1>2, <1>3, <1>4, <1>5, <1>6 DEF WatcherStep

LEMMA StepCalls ==
  ASSUME IInv, OrderOK, ServiceIInv, FollowsStay, [ClusterNext]_clusterVars PROVE CallsFollow'
<1>1. ASSUME UNCHANGED <<workers, callVars>> PROVE CallsFollow'
  BY <1>1, CallsStay DEF callVars, ServiceIInv
<1>2. ASSUME NEW a \in Addrs,
             \/ Connect(a) \/ SocketReads(a) \/ SocketWrites(a)
             \/ Decides(a) \/ LetsGo(a) \/ Replies(a)
      PROVE  UNCHANGED <<workers, callVars>>
  BY <1>2 DEF Connect, SocketReads, SocketWrites, Decides, LetsGo, Replies, vars, callVars
<1>3. CASE UNCHANGED clusterVars
  BY <1>1, <1>3 DEF clusterVars, vars
<1> QED BY <1>1, <1>2, <1>3, RequestCalls, WatcherCalls
        DEF ClusterNext, MasterStep, Delivers, ServiceIInv

-------------------------------------------------------------------------------
(***************************************************************************)
(* What the commands meet.                                                  *)
(***************************************************************************)
(* A worker gets one load, and has it alone.                                *)
LEMMA OneLoad ==
  ASSUME OrderOK, ServiceIInv, NEW a \in Addrs,
         NEW l \in LoadCommands, NEW m \in LoadCommands, l \in accepted[a], m \in accepted[a]
  PROVE  l = m
<1>1. PICK i \in SentTo(a) : log[i].packet = l
  BY DEF ServiceIInv, DeliveryOK, DeliveredOK, Delivered
<1>2. PICK j \in SentTo(a) : log[j].packet = m
  BY DEF ServiceIInv, DeliveryOK, DeliveredOK, Delivered
<1>3. i \in DOMAIN log /\ j \in DOMAIN log /\ log[i].addr = a /\ log[j].addr = a
  BY DEF SentTo, OfType
<1>4. IsLoad(i) /\ IsLoad(j)
  BY <1>1, <1>2 DEF IsLoad, SentTo, OfType, LoadCommands
<1> QED BY <1>1, <1>2, <1>3, <1>4 DEF OrderOK, GreetedOK

LEMMA PromptsFollow ==
  ASSUME ServiceIInv, NEW a \in Addrs, NEW cmd \in inbox[a], cmd.kind = "Generate"
  PROVE  \E load \in LoadCommands :
           HasReplied(a, load) /\ load \in accepted[a] /\ decided[a][load] # None
<1>1. Delivered(a, cmd)
  BY InboxIsAccepted DEF ServiceIInv, DeliveryOK, DeliveredOK
<1>2. PICK i \in SentTo(a) : log[i].packet = cmd
  BY <1>1 DEF Delivered
<1>3. EventFollows(log[i]) /\ log[i].type = "SendNewPacket" /\ log[i].addr = a
  BY DEF SentTo, OfType, ServiceIInv, MessagesFollow
<1>4. PICK load \in LoadCommands : HasReplied(a, load)
  BY <1>2, <1>3 DEF EventFollows, LoadReplied
<1>5. decided[a][load] # None /\ load \in Commands
  BY <1>4 DEF HasReplied, ServiceIInv, DeliveryOK, AnsweredOnceOK, Commands
<1> QED BY <1>4, <1>5 DEF ServiceIInv, DeliveryOK, AnsweredOnceOK

LEMMA DecidedIsAccepted ==
  ASSUME ServiceIInv, NEW a \in Addrs, NEW load \in LoadCommands, decided[a][load] # None
  PROVE  load \in accepted[a]
  BY DEF ServiceIInv, DeliveryOK, AnsweredOnceOK, Commands

LEMMA LoadIsAlone ==
  ASSUME OrderOK, ServiceIInv, NEW a \in Addrs, NEW load \in inbox[a], load.kind = "Load"
  PROVE  /\ load \in LoadCommands
         /\ inbox[a] = {load}
         /\ decided[a][load] = None => model[a] = None /\ keeper[a] = None
<1>1. load \in LoadCommands /\ load \in accepted[a] /\ ~HasReplied(a, load)
  BY InboxIsAccepted
  DEF Commands, LoadCommands, GenerateCommands, ServiceIInv, DeliveryOK, AnsweredOnceOK
<1>2. ASSUME NEW cmd \in inbox[a] PROVE cmd = load
  <2>1. cmd \in accepted[a] /\ cmd \in Commands
    BY InboxIsAccepted
  <2>2. CASE cmd \in LoadCommands
    BY <1>1, <2>1, <2>2, OneLoad
  <2>3. CASE cmd \in GenerateCommands
    <3>1. PICK l \in LoadCommands : HasReplied(a, l) /\ l \in accepted[a]
      BY <2>3, PromptsFollow DEF GenerateCommands
    <3> QED BY <1>1, <3>1, OneLoad
  <2> QED BY <2>1, <2>2, <2>3 DEF Commands
<1>3. ASSUME NEW l \in LoadCommands, decided[a][l] # None PROVE l = load
  BY <1>1, <1>3, DecidedIsAccepted, OneLoad
<1>4. ASSUME model[a] # None PROVE decided[a][load] # None
  <2>1. model[a] \in LoadCommands /\ decided[a][model[a]] # None
    BY <1>4, ClusterAssumption DEF ServiceIInv, ServiceTypeOK, ModelOK, Verdicts
  <2> QED BY <1>3, <2>1
<1>5. ASSUME keeper[a] # None PROVE decided[a][load] # None
  <2>1. keeper[a] \in LoadCommands /\ decided[a][keeper[a]] # None
    BY <1>5 DEF ServiceIInv, KeeperOK
  <2> QED BY <1>3, <2>1
<1> QED BY <1>1, <1>2, <1>4, <1>5

(* What an undecided command does not meet.                                 *)
LEMMA LoadVerdict ==
  ASSUME OrderOK, ServiceIInv, NEW a \in Addrs, NEW load \in LoadCommands,
         NEW outcome \in Verdicts, TakesEffect(a, load, outcome)
  PROVE  outcome \in {"Ok", "LoadingError"}
<1>1. load.kind = "Load" /\ load \in inbox[a] /\ decided[a][load] = None
  BY DEF LoadCommands, TakesEffect
<1>2. inbox[a] = {load} /\ model[a] = None /\ keeper[a] = None
  BY <1>1, LoadIsAlone
<1>3. ASSUME NEW d \in accepted[a], decided[a][d] = None PROVE d = load
  BY <1>2, <1>3 DEF ServiceIInv, DeliveryOK, AnsweredOnceOK
<1>4. load \notin GenerateCommands
  BY <1>1 DEF GenerateCommands
<1> QED BY <1>2, <1>3, <1>4 DEF TakesEffect, MeetsBusy, MeetsLoad, MeetsGenerate

LEMMA PromptVerdict ==
  ASSUME ServiceIInv, NEW a \in Addrs, NEW cmd \in GenerateCommands,
         TakesEffect(a, cmd, "ModelNotLoaded")
  PROVE  \E load \in LoadOf(a) : decided[a][load] = "LoadingError"
<1>1. model[a] = None /\ cmd \in inbox[a] /\ cmd.kind = "Generate"
  BY DEF TakesEffect, MeetsLoad, MeetsGenerate, GenerateCommands
<1>2. PICK load \in LoadCommands : decided[a][load] # None
  BY <1>1, PromptsFollow
<1>3. decided[a][load] \in {"Ok", "LoadingError"}
  BY <1>2 DEF LoadOf, ServiceIInv, RefusedForAReason
<1> QED BY <1>1, <1>2, <1>3 DEF LoadOf, ServiceIInv, ModelOK

LEMMA BusyVerdict ==
  ASSUME OrderOK, ServiceIInv, NEW a \in Addrs, NEW cmd \in Commands,
         TakesEffect(a, cmd, "ModelBusy")
  PROVE  cmd \in GenerateCommands /\ Occupied(a, cmd)
<1>1. cmd \in inbox[a] /\ decided[a][cmd] = None
  BY DEF TakesEffect
<1>2. cmd \notin LoadCommands
  <2>1. "ModelBusy" \in Verdicts
    BY DEF Verdicts
  <2> QED BY <2>1, LoadVerdict
<1>3. cmd \in GenerateCommands /\ cmd.kind = "Generate"
  BY <1>2 DEF Commands, GenerateCommands
<1>4. MeetsBusy(a, cmd)
  BY DEF TakesEffect, MeetsLoad, MeetsGenerate
<1>5. CASE keeper[a] # None
  <2>1. keeper[a] \in LoadCommands /\ keeper[a] \in accepted[a]
    BY <1>5, DecidedIsAccepted DEF ServiceIInv, KeeperOK
  <2>2. PICK load \in LoadCommands : HasReplied(a, load) /\ load \in accepted[a]
    BY <1>1, <1>3, PromptsFollow
  <2>3. load = keeper[a]
    BY <2>1, <2>2, OneLoad
  <2> QED BY <1>3, <2>2, <2>3 DEF HasReplied, Occupied
<1>6. CASE keeper[a] = None
  <2>1. PICK d \in accepted[a] : d # cmd /\ decided[a][d] = None
    BY <1>4, <1>6 DEF MeetsBusy
  <2>2. d \in inbox[a]
    BY <2>1 DEF ServiceIInv, DeliveryOK, AnsweredOnceOK
  <2>3. d \in Commands
    BY <2>2, InboxIsAccepted
  <2>4. d \notin LoadCommands
    BY <1>1, <2>1, <2>2, LoadIsAlone DEF LoadCommands
  <2> QED BY <1>3, <2>1, <2>2, <2>3, <2>4 DEF Commands, Occupied
<1> QED BY <1>5, <1>6

LEMMA DecidesVerdicts ==
  ASSUME OrderOK, ServiceIInv, NEW a \in Addrs, Decides(a)
  PROVE  ModelOK' /\ KeeperOK' /\ RefusedForAReason'
<1>1. PICK cmd \in Commands : \E outcome \in Verdicts : TakesEffect(a, cmd, outcome)
  BY DecidesOnce
<1>2. PICK outcome \in Verdicts : TakesEffect(a, cmd, outcome)
  BY <1>1
<1>3. /\ decided[a][cmd] = None
      /\ \A b \in Addrs, d \in Commands :
           decided'[b][d] = IF b = a /\ d = cmd THEN outcome ELSE decided[b][d]
      /\ \A b \in Addrs : b # a => model'[b] = model[b] /\ keeper'[b] = keeper[b]
  BY <1>2 DEF TakesEffect, ServiceIInv, ServiceTypeOK
<1>4. /\ model'[a] = IF cmd \in LoadCommands /\ outcome = "Ok" THEN cmd ELSE model[a]
      /\ keeper'[a] # keeper[a] => cmd \in LoadCommands /\ keeper'[a] = cmd
  BY <1>2 DEF TakesEffect, MeetsBusy, MeetsLoad, MeetsGenerate, LoadCommands, GenerateCommands
<1>5. /\ LoadCommands \subseteq Commands /\ GenerateCommands \subseteq Commands
      /\ None \notin Commands /\ None \notin Verdicts /\ "Ok" # None
  BY ClusterAssumption DEF Commands, Verdicts
<1>6. ModelOK'
  <2> SUFFICES ASSUME NEW b \in Addrs
               PROVE  /\ model'[b] # None => decided'[b][model'[b]] = "Ok"
                      /\ \A load \in LoadCommands : decided'[b][load] = "Ok" => model'[b] # None
    BY DEF ModelOK
  <2>1. model[b] # None => model[b] \in Commands /\ decided[b][model[b]] = "Ok"
    BY <1>5 DEF ServiceIInv, ServiceTypeOK, ModelOK
  <2>2. model'[b] # None => decided'[b][model'[b]] = "Ok"
    BY <1>3, <1>4, <1>5, <2>1
  <2>3. ASSUME NEW load \in LoadCommands, decided'[b][load] = "Ok" PROVE model'[b] # None
    BY <1>3, <1>4, <1>5, <2>3 DEF ServiceIInv, ModelOK
  <2> QED BY <2>2, <2>3
<1>7. KeeperOK'
  <2> SUFFICES ASSUME NEW b \in Addrs, keeper'[b] # None
               PROVE  keeper'[b] \in LoadCommands /\ decided'[b][keeper'[b]] # None
    BY DEF KeeperOK
  <2>1. CASE keeper'[b] = keeper[b]
    BY <1>3, <1>5, <2>1 DEF ServiceIInv, KeeperOK
  <2>2. CASE keeper'[b] # keeper[b]
    BY <1>3, <1>4, <1>5, <2>2
  <2> QED BY <2>1, <2>2
<1>8. RefusedForAReason'
  <2>1. ASSUME NEW b \in Addrs, NEW load \in LoadCommands, decided'[b][load] # None
        PROVE  decided'[b][load] \in {"Ok", "LoadingError"}
    BY <1>2, <1>3, <1>5, <2>1, LoadVerdict DEF ServiceIInv, RefusedForAReason, LoadOf
  <2>2. ASSUME NEW b \in Addrs, NEW load \in LoadOf(b), decided[b][load] = "LoadingError"
        PROVE  load \in LoadOf(b)' /\ decided'[b][load] = "LoadingError"
    BY <1>3, <1>5, <2>2 DEF LoadOf
  <2>3. ASSUME NEW b \in Addrs, NEW d \in GenerateCommands, decided'[b][d] = "ModelNotLoaded"
        PROVE  \E load \in LoadOf(b) : decided[b][load] = "LoadingError"
    BY <1>2, <1>3, <1>5, <2>3, PromptVerdict DEF ServiceIInv, RefusedForAReason
  <2> QED BY <2>1, <2>2, <2>3 DEF RefusedForAReason, LoadOf
<1> QED BY <1>6, <1>7, <1>8

LEMMA StepVerdicts ==
  ASSUME OrderOK, ServiceIInv, [ClusterNext]_clusterVars
  PROVE  ModelOK' /\ KeeperOK' /\ RefusedForAReason'
<1>1. ASSUME UNCHANGED <<decided, model>> PROVE ModelOK' /\ RefusedForAReason'
  BY <1>1 DEF ServiceIInv, ModelOK, RefusedForAReason, LoadOf
<1>2. ASSUME UNCHANGED <<decided, keeper>> PROVE KeeperOK'
  BY <1>2 DEF ServiceIInv, KeeperOK
<1>3. ASSUME NEW a \in Addrs, LetsGo(a) PROVE UNCHANGED <<decided, model>> /\ KeeperOK'
  BY <1>3 DEF LetsGo, ServiceIInv, ServiceTypeOK, KeeperOK
<1> QED BY <1>1, <1>2, <1>3, DecidesVerdicts DEF ClusterNext, Delivers, Replies, serviceVars, clusterVars

-------------------------------------------------------------------------------
LEMMA StepTypes ==
  ASSUME IInv, ServiceIInv, [ClusterNext]_clusterVars PROVE ServiceTypeOK'
<1>1. CASE UNCHANGED serviceVars
  BY <1>1 DEF serviceVars, ServiceIInv, ServiceTypeOK
<1> QED BY <1>1, InboxIsCommands, DeliversTypes, DecidesTypes, LetsGoTypes, RepliesTypes
        DEF ClusterNext, clusterVars

LEMMA InitService == ClusterInit => ClusterIInv
<1> SUFFICES ASSUME ClusterInit PROVE ClusterIInv
  OBVIOUS
<1>1. Init
  BY DEF ClusterInit
<1>2. GatewayIInv
  BY <1>1, InitIInv, InitOrder DEF GatewayIInv, Init, AwaitedReply
<1>3. /\ log = <<>> /\ workers = {} /\ pc = [c \in Calls |-> "idle"]
      /\ sock = [a \in Addrs |-> "absent"]
      /\ inbox = [a \in Addrs |-> {}] /\ outbox = [a \in Addrs |-> <<>>]
      /\ accepted = [a \in Addrs |-> {}] /\ model = [a \in Addrs |-> None]
      /\ keeper = [a \in Addrs |-> None]
      /\ decided = [a \in Addrs |-> [cmd \in Commands |-> None]]
      /\ replies = [a \in Addrs |-> <<>>]
  BY <1>1 DEF ClusterInit, Init, Bus!BusInit
<1>4. ServiceTypeOK
  BY <1>3 DEF ServiceTypeOK
<1>5. ConnectionsOK /\ DeliveryOK
  BY <1>3 DEF ConnectionsOK, DeliveryOK, SentOnceOK, DeliveredOK, AnsweredOnceOK, SentTo, OfType,
              Commands
<1>6. MessagesFollow /\ CallsFollow
  BY <1>3, CallTypes, <1>2 DEF GatewayIInv, IInv, MessagesFollow, CallsFollow
<1>7. ModelOK /\ KeeperOK /\ RefusedForAReason
  BY <1>3, ClusterAssumption DEF ModelOK, KeeperOK, RefusedForAReason, LoadOf, Commands, Verdicts
<1> QED BY <1>2, <1>4, <1>5, <1>6, <1>7 DEF ClusterIInv, ServiceIInv

LEMMA StepService == ClusterIInv /\ [ClusterNext]_clusterVars => ClusterIInv'
<1> SUFFICES ASSUME ClusterIInv, [ClusterNext]_clusterVars PROVE ClusterIInv'
  OBVIOUS
<1>1. IInv /\ OrderOK /\ AwaitedReply /\ ServiceIInv
  BY DEF ClusterIInv, GatewayIInv
<1>2. GatewayIInv'
  BY <1>1, ClusterStep, NextIInv, NextOrder, NextAwaits DEF GatewayIInv
<1>3. FollowsStay
  BY <1>1, RepliesFollow
<1>4. ServiceTypeOK' /\ ConnectionsOK' /\ DeliveryOK'
  BY <1>1, StepTypes, StepConnections, StepDelivery
<1>5. MessagesFollow' /\ CallsFollow'
  BY <1>1, <1>3, StepMessages, StepCalls
<1>6. ModelOK' /\ KeeperOK' /\ RefusedForAReason'
  BY <1>1, StepVerdicts
<1> QED BY <1>2, <1>4, <1>5, <1>6 DEF ClusterIInv, ServiceIInv

(* The invariant of the master and its workers.                             *)
THEOREM ClusterInvariance == ClusterSpec => []ClusterIInv
  BY InitService, StepService, PTL DEF ClusterSpec

(* A load is never refused, and a prompt finds no model only if the load    *)
(* was tried and failed (worker_gateway.rs:220 ignores that it did).        *)
THEOREM RefusalsHaveReasons == ClusterSpec => []RefusedForAReason
<1>1. ClusterIInv => RefusedForAReason
  BY DEF ClusterIInv, ServiceIInv
<1> QED BY ClusterInvariance, <1>1, PTL

LEMMA StepBusy ==
  ASSUME ClusterIInv, [ClusterNext]_clusterVars,
         NEW a \in Addrs, NEW cmd \in Commands,
         decided[a][cmd] # "ModelBusy", decided'[a][cmd] = "ModelBusy"
  PROVE  cmd \in GenerateCommands /\ Occupied(a, cmd)
<1>1. OrderOK /\ ServiceIInv
  BY DEF ClusterIInv, GatewayIInv
<1>2. PICK b \in Addrs : Decides(b)
  BY DEF ClusterNext, Delivers, LetsGo, Replies, serviceVars, clusterVars
<1>3. PICK d \in Commands : \E outcome \in Verdicts : TakesEffect(b, d, outcome)
  BY <1>1, <1>2, DecidesOnce
<1>4. PICK outcome \in Verdicts : TakesEffect(b, d, outcome)
  BY <1>3
<1>5. b = a /\ d = cmd /\ outcome = "ModelBusy"
  BY <1>1, <1>4 DEF TakesEffect, ServiceIInv, ServiceTypeOK
<1> QED BY <1>1, <1>4, <1>5, BusyVerdict

(* A command is told that the model is busy only if it is a prompt, and     *)
(* either another prompt is undecided at the same worker, or the load that  *)
(* still keeps the model there has already been answered.                   *)
THEOREM BusyHasReasons == ClusterSpec => BusyForAReason
<1>1. ClusterIInv /\ [ClusterNext]_clusterVars
        => [\A a \in Addrs, cmd \in Commands :
              decided[a][cmd] # "ModelBusy" /\ decided'[a][cmd] = "ModelBusy" =>
                cmd \in GenerateCommands /\ Occupied(a, cmd)]_clusterVars
  BY StepBusy
<1> QED BY <1>1, ClusterInvariance, PTL DEF ClusterSpec, BusyForAReason
===============================================================================
