---------------------------- MODULE WorkerGateway -----------------------------
(***************************************************************************)
(* The master (master/src/worker_gateway.rs) with the connections it        *)
(* serves (rlpg/src/tcp.rs), all of them tasks around one event bus:        *)
(*                                                                          *)
(*   - the listener accepts a worker and starts the task of its socket;     *)
(*   - the socket task turns packets into events and events into packets;   *)
(*   - the watcher loads the model on a worker that connected, registers    *)
(*     the worker, and unregisters a worker that disconnected;              *)
(*   - one task per HTTP request runs generate_response: it picks the first *)
(*     registered worker, sends it a command, and waits on the bus for the  *)
(*     answer.                                                              *)
(*                                                                          *)
(* load_model and generate_response wait for their answers in the same way; *)
(* both are "calls" here, the watcher's being the call Loader.              *)
(* Workers are an environment: a worker answers the commands it was sent in *)
(* any order, with success or with an error, and may die at any moment.     *)
(* Cancellation is outside this module: the token is never cancelled.       *)
(***************************************************************************)
EXTENDS Integers, Sequences, FiniteSets

CONSTANTS
  Addrs,       \* socket addresses of workers; the order is SocketAddr's
  Requests,    \* the HTTP requests, each also standing for its prompt
  Impatient,   \* the requests whose client may hang up
  Loader,      \* the load_model call of the watcher
  Ids,         \* the values of a request id (u32), drawn at random
  Capacity,    \* events retained by the bus
  Faulty,      \* the workers that may die or send what does not decode
  None         \* no address, no id, no content

ASSUME GatewayAssumption ==
  /\ Addrs \subseteq Nat
  /\ Loader \notin Requests
  /\ Capacity \in Nat \ {0}
  /\ Impatient \subseteq Requests
  /\ Faulty \subseteq Addrs
  /\ None \notin Addrs \cup Ids \cup Requests \cup {Loader}

VARIABLES
  log, cursor, \* the event bus
  workers,     \* WorkerGateway.workers: the registered workers
  watcher,     \* [pc, addr]: run_workers_watcher at its select!, or loading addr
  pc,          \* pc[c]: where call c is
  reqId,       \* reqId[c]: the request_id of call c
  target,      \* target[c]: the worker call c was sent to
  result,      \* result[c]: what call c returned
  sock,        \* sock[a]: the state of the socket task of a
  up,          \* the workers that are connected and alive
  inbox,       \* inbox[a]: commands written to a's socket and not answered
  outbox       \* outbox[a]: answers sent by a, not read by the master yet

busVars    == <<log, cursor>>
callVars   == <<pc, reqId, target, result>>
workerVars == <<up, inbox, outbox>>
vars == <<busVars, workers, watcher, callVars, sock, workerVars>>

Calls == Requests \cup {Loader}

(* The receivers: one per socket task, one per call, and the two that the   *)
(* branches of the watcher's select! create.                                *)
SockRx(a) == <<"socket", a>>
CallRx(c) == <<"call", c>>
ConnRx    == <<"watcher", "connected">>
DiscRx    == <<"watcher", "disconnected">>
Receivers == {SockRx(a) : a \in Addrs} \cup {CallRx(c) : c \in Calls} \cup {ConnRx, DiscRx}

Bus == INSTANCE EventBus

(***************************************************************************)
(* Messages and events.  An answer carries the id of its command; a         *)
(* success to a GenerateCommand carries the text generated for its prompt.   *)
(* An Undecodable answer is a frame whose body is no worker packet; its     *)
(* other fields are read by nobody.                                         *)
(***************************************************************************)
Command == [kind : {"Load", "Generate"}, id : Ids, prompt : Calls]
Answer  == [kind : {"Load", "Generate", "Undecodable"}, ok : BOOLEAN, id : Ids, content : Calls]

Event ==
  [type : {"ClientConnected", "ClientDisconnected"}, addr : Addrs]
    \cup [type : {"SendNewPacket"}, addr : Addrs, packet : Command]
    \cup [type : {"NewPacketReceived"}, addr : Addrs, packet : Answer]

(* SendNewPacketToParticularClient, shortened.                              *)
Send(a, cmd)     == [type |-> "SendNewPacket", addr |-> a, packet |-> cmd]
Received(a, ans) == [type |-> "NewPacketReceived", addr |-> a, packet |-> ans]
Connected(a)     == [type |-> "ClientConnected", addr |-> a]
Disconnected(a)  == [type |-> "ClientDisconnected", addr |-> a]

Kind(c) == IF c = Loader THEN "Load" ELSE "Generate"
CommandOf(c) == [kind |-> Kind(c), id |-> reqId[c], prompt |-> c]

(* What a call has returned.                                                *)
Nothing     == [tag |-> "none", id |-> None, content |-> None]
Ok(ans)     == [tag |-> "Ok", id |-> ans.id, content |-> ans.content]
WorkerError(ans) == [tag |-> "WorkerError", id |-> ans.id, content |-> None]
DecodeError == [tag |-> "DecodeError", id |-> None, content |-> None]
NoAvailableWorkers == [tag |-> "NoAvailableWorkers", id |-> None, content |-> None]

Result ==
  {Nothing, NoAvailableWorkers, DecodeError}
    \cup [tag : {"Ok"}, id : Ids, content : Calls]
    \cup [tag : {"WorkerError"}, id : Ids, content : {None}]

TypeOK ==
  /\ Bus!BusTypeOK(Event)
  /\ workers \subseteq Addrs
  /\ watcher \in [pc : {"select", "load"}, addr : Addrs \cup {None}]
  /\ pc \in [Calls -> {"idle", "subscribed", "picked", "waiting", "done", "dropped"}]
  /\ reqId \in [Calls -> Ids \cup {None}]
  /\ target \in [Calls -> Addrs \cup {None}]
  /\ result \in [Calls -> Result]
  /\ sock \in [Addrs -> {"absent", "open", "closed"}]
  /\ up \subseteq Addrs
  /\ inbox \in [Addrs -> SUBSET Command]
  /\ outbox \in [Addrs -> Seq(Answer)]

Init ==
  /\ Bus!BusInit
  /\ workers = {}
  /\ watcher = [pc |-> "select", addr |-> None]
  /\ pc = [c \in Calls |-> "idle"]
  /\ reqId = [c \in Calls |-> None]
  /\ target = [c \in Calls |-> None]
  /\ result = [c \in Calls |-> Nothing]
  /\ sock = [a \in Addrs |-> "absent"]
  /\ up = {}
  /\ inbox = [a \in Addrs |-> {}]
  /\ outbox = [a \in Addrs |-> <<>>]

-------------------------------------------------------------------------------
(***************************************************************************)
(* rlpg/src/tcp.rs: the listener and the socket tasks.                      *)
(***************************************************************************)
OfType(type, a) == {i \in DOMAIN log : log[i].type = type /\ log[i].addr = a}

(* The listener clones the bus for the socket, then announces the worker.   *)
Connect(a) ==
  /\ sock[a] = "absent"
  /\ Bus!Subscribe(SockRx(a))
  /\ Bus!Publish(Connected(a))
  /\ sock' = [sock EXCEPT ![a] = "open"]
  /\ up' = up \cup {a}
  /\ UNCHANGED <<workers, watcher, callVars, inbox, outbox>>

(* Mutant: what else the socket had delivered is lost with the old parser.  *)
SocketReadsDropsRest(a) ==
  /\ sock[a] = "open" /\ outbox[a] # <<>>
  /\ Bus!Publish(Received(a, Head(outbox[a])))
  /\ outbox' = [outbox EXCEPT ![a] = <<>>]
  /\ UNCHANGED <<cursor, workers, watcher, callVars, sock, up, inbox>>

(* The socket task reads a frame and publishes its payload.                 *)
SocketReads(a) ==
  /\ sock[a] = "open" /\ outbox[a] # <<>>
  /\ Bus!Publish(Received(a, Head(outbox[a])))
  /\ outbox' = [outbox EXCEPT ![a] = Tail(@)]
  /\ UNCHANGED <<cursor, workers, watcher, callVars, sock, up, inbox>>

(* read_u8 fails: the end of the stream, or a reset, which discards what    *)
(* was still to be read.                                                    *)
SocketReadError(a) ==
  /\ sock[a] = "open" /\ a \notin up
  /\ Bus!Publish(Disconnected(a))
  /\ Bus!Drop({SockRx(a)})
  /\ sock' = [sock EXCEPT ![a] = "closed"]
  /\ outbox' = [outbox EXCEPT ![a] = <<>>]
  /\ UNCHANGED <<workers, watcher, callVars, up, inbox>>

(* The socket task writes the next packet addressed to it.  On a connection *)
(* whose peer is gone the kernel may still take the bytes, or the write     *)
(* fails: then `?` ends the task, and no event tells anyone.                *)
SocketWrites(a) ==
  /\ sock[a] = "open"
  /\ \E i \in OfType("SendNewPacket", a) :
       /\ Bus!IsNext(SockRx(a), i, OfType("SendNewPacket", a))
       /\ \/ /\ Bus!MoveTo(SockRx(a), i)
             /\ inbox' = IF a \in up THEN [inbox EXCEPT ![a] = @ \cup {log[i].packet}]
                                     ELSE inbox
             /\ UNCHANGED <<sock, outbox>>
          \/ /\ a \notin up
             /\ Bus!Drop({SockRx(a)})
             /\ sock' = [sock EXCEPT ![a] = "closed"]
             /\ outbox' = [outbox EXCEPT ![a] = <<>>]
             /\ UNCHANGED inbox
  /\ UNCHANGED <<log, workers, watcher, callVars, up>>

(***************************************************************************)
(* The worker process, as far as the master can tell.                       *)
(***************************************************************************)
Outcomes(a) == {"ok", "error"} \cup IF a \in Faulty THEN {"undecodable"} ELSE {}

AnswerTo(cmd, outcome) ==
  [kind    |-> IF outcome = "undecodable" THEN "Undecodable" ELSE cmd.kind,
   ok      |-> outcome = "ok",
   id      |-> cmd.id,
   content |-> cmd.prompt]

WorkerAnswers(a) ==
  /\ a \in up
  /\ \E cmd \in inbox[a], outcome \in Outcomes(a) :
       /\ inbox' = [inbox EXCEPT ![a] = @ \ {cmd}]
       /\ outbox' = [outbox EXCEPT ![a] = Append(@, AnswerTo(cmd, outcome))]
  /\ UNCHANGED <<busVars, workers, watcher, callVars, sock, up>>

WorkerDies(a) ==
  /\ a \in up \cap Faulty
  /\ up' = up \ {a}
  /\ inbox' = [inbox EXCEPT ![a] = {}]
  /\ UNCHANGED <<busVars, workers, watcher, callVars, sock, outbox>>

-------------------------------------------------------------------------------
(***************************************************************************)
(* load_model and generate_response.                                        *)
(***************************************************************************)
(* The order of BTreeSet::first.                                            *)
First(S) == CHOOSE a \in S : \A b \in S : a <= b

(* Mutants: the id of a success is not compared; errors are skipped.        *)
EndsAnyId(c, ans) == ans.kind = "Undecodable" \/ ans.kind = Kind(c)
EndsOnSuccess(c, ans) == ans.kind = Kind(c) /\ ans.ok /\ ans.id = reqId[c]

(* The packets that end the wait of call c: one that does not decode, and   *)
(* of its own kind an error, WHATEVER its id, or a success with its id.     *)
Ends(c, ans) ==
  \/ ans.kind = "Undecodable"
  \/ ans.kind = Kind(c) /\ (ans.ok => ans.id = reqId[c])

Endings(c) == {i \in OfType("NewPacketReceived", target[c]) : Ends(c, log[i].packet)}

Outcome(ans) ==
  IF ans.kind = "Undecodable" THEN DecodeError
  ELSE IF ans.ok THEN Ok(ans) ELSE WorkerError(ans)

(* Both calls draw an id and clone the bus before anything else.            *)
Begin(c, id) ==
  /\ reqId' = [reqId EXCEPT ![c] = id]
  /\ Bus!Subscribe(CallRx(c))

GenerateStart(r) ==
  /\ pc[r] = "idle"
  /\ \E id \in Ids : Begin(r, id)
  /\ pc' = [pc EXCEPT ![r] = "subscribed"]
  /\ UNCHANGED <<log, workers, watcher, target, result, sock, workerVars>>

(* workers.read().await, then the first worker or an early return.          *)
GeneratePick(r) ==
  /\ pc[r] = "subscribed"
  /\ IF workers = {}
       THEN /\ pc' = [pc EXCEPT ![r] = "done"]
            /\ result' = [result EXCEPT ![r] = NoAvailableWorkers]
            /\ Bus!Drop({CallRx(r)})
            /\ UNCHANGED target
       ELSE /\ pc' = [pc EXCEPT ![r] = "picked"]
            /\ target' = [target EXCEPT ![r] = First(workers)]
            /\ UNCHANGED <<cursor, result>>
  /\ UNCHANGED <<log, workers, watcher, reqId, sock, workerVars>>

LoadStart ==
  /\ watcher.pc = "load" /\ pc[Loader] = "idle"
  /\ \E id \in Ids : Begin(Loader, id)
  /\ pc' = [pc EXCEPT ![Loader] = "picked"]
  /\ target' = [target EXCEPT ![Loader] = watcher.addr]
  /\ UNCHANGED <<log, workers, watcher, result, sock, workerVars>>

(* The worker may have been unregistered since it was picked.               *)
SendCommand(c) ==
  /\ pc[c] = "picked"
  /\ Bus!Publish(Send(target[c], CommandOf(c)))
  /\ pc' = [pc EXCEPT ![c] = "waiting"]
  /\ UNCHANGED <<cursor, workers, watcher, reqId, target, result, sock, workerVars>>

ReceiveAnswer(c) ==
  /\ pc[c] = "waiting"
  /\ \E i \in Endings(c) :
       /\ Bus!IsNext(CallRx(c), i, Endings(c))
       /\ result' = [result EXCEPT ![c] = Outcome(log[i].packet)]
  /\ Bus!Drop({CallRx(c)})
  /\ pc' = [pc EXCEPT ![c] = "done"]
  /\ UNCHANGED <<log, workers, watcher, reqId, target, sock, workerVars>>

(* The HTTP client goes away: the handler's future is dropped where it      *)
(* awaits.  The master cannot call the command back.                        *)
ClientHangsUp(r) ==
  /\ r \in Impatient
  /\ pc[r] \in {"subscribed", "waiting"}
  /\ pc' = [pc EXCEPT ![r] = "dropped"]
  /\ Bus!Drop({CallRx(r)})
  /\ UNCHANGED <<log, workers, watcher, reqId, target, result, sock, workerVars>>

-------------------------------------------------------------------------------
(***************************************************************************)
(* run_workers_watcher.  Each branch of its select! loops over a FRESH      *)
(* clone of the bus: an event that is not the branch's own ends the clone,  *)
(* and what is published before the next one is made is never seen.         *)
(***************************************************************************)
Awaits(type, rx) == \* the branches: worker_connected, worker_disconnected
  \/ type = "ClientConnected" /\ rx = ConnRx
  \/ type = "ClientDisconnected" /\ rx = DiscRx

WatcherSubscribes(rx) ==
  /\ watcher.pc = "select" /\ ~Bus!Attached(rx)
  /\ Bus!Subscribe(rx)
  /\ UNCHANGED <<log, workers, watcher, callVars, sock, workerVars>>

WatcherSkips(rx) ==
  /\ watcher.pc = "select"
  /\ Bus!Attached(rx)
  /\ \E i \in Bus!Pending(rx) :
       /\ Bus!IsNext(rx, i, DOMAIN log)
       /\ ~Awaits(log[i].type, rx)
  /\ Bus!Drop({rx})
  /\ UNCHANGED <<log, workers, watcher, callVars, sock, workerVars>>

(* Mutant: the worker is registered before its model is loaded.             *)
WatcherRegistersFirst ==
  /\ watcher.pc = "select"
  /\ Bus!Attached(ConnRx)
  /\ \E i \in Bus!Pending(ConnRx) :
       /\ Bus!IsNext(ConnRx, i, DOMAIN log)
       /\ log[i].type = "ClientConnected"
       /\ watcher' = [pc |-> "load", addr |-> log[i].addr]
       /\ workers' = workers \cup {log[i].addr}
  /\ Bus!Drop({ConnRx, DiscRx})
  /\ UNCHANGED <<log, callVars, sock, workerVars>>

WatcherSeesConnect ==
  /\ watcher.pc = "select"
  /\ Bus!Attached(ConnRx)
  /\ \E i \in Bus!Pending(ConnRx) :
       /\ Bus!IsNext(ConnRx, i, DOMAIN log)
       /\ log[i].type = "ClientConnected"
       /\ watcher' = [pc |-> "load", addr |-> log[i].addr]
  /\ Bus!Drop({ConnRx, DiscRx})
  /\ UNCHANGED <<log, workers, callVars, sock, workerVars>>

WatcherSeesDisconnect ==
  /\ watcher.pc = "select"
  /\ Bus!Attached(DiscRx)
  /\ \E i \in Bus!Pending(DiscRx) :
       /\ Bus!IsNext(DiscRx, i, DOMAIN log)
       /\ log[i].type = "ClientDisconnected"
       /\ workers' = workers \ {log[i].addr}
  /\ Bus!Drop({ConnRx, DiscRx})
  /\ UNCHANGED <<log, watcher, callVars, sock, workerVars>>

(* Mutants: a worker whose load failed is left out; addr is reset too soon. *)
WatcherRegistersLoaded ==
  /\ watcher.pc = "load" /\ pc[Loader] = "done"
  /\ workers' = IF result[Loader].tag = "Ok" THEN workers \cup {watcher.addr} ELSE workers
  /\ watcher' = [pc |-> "select", addr |-> None]
  /\ pc' = [pc EXCEPT ![Loader] = "idle"]
  /\ UNCHANGED <<busVars, reqId, target, result, sock, workerVars>>
WatcherRegistersNobody ==
  /\ watcher.pc = "load" /\ pc[Loader] = "done"
  /\ watcher' = [pc |-> "select", addr |-> None]
  /\ workers' = workers \cup {watcher'.addr}
  /\ pc' = [pc EXCEPT ![Loader] = "idle"]
  /\ UNCHANGED <<busVars, reqId, target, result, sock, workerVars>>

(* load_model has returned; `let _` ignores what.                           *)
WatcherRegisters ==
  /\ watcher.pc = "load" /\ pc[Loader] = "done"
  /\ workers' = workers \cup {watcher.addr}
  /\ watcher' = [pc |-> "select", addr |-> None]
  /\ pc' = [pc EXCEPT ![Loader] = "idle"]
  /\ UNCHANGED <<busVars, reqId, target, result, sock, workerVars>>

-------------------------------------------------------------------------------
SocketStep(a) == SocketReads(a) \/ SocketReadError(a) \/ SocketWrites(a)

CallStep(r) == GeneratePick(r) \/ SendCommand(r) \/ ReceiveAnswer(r)

WatcherStep ==
  \/ \E rx \in {ConnRx, DiscRx} : WatcherSubscribes(rx) \/ WatcherSkips(rx)
  \/ WatcherSeesConnect \/ WatcherSeesDisconnect
  \/ LoadStart \/ SendCommand(Loader) \/ ReceiveAnswer(Loader)
  \/ WatcherRegisters

Next ==
  \/ \E a \in Addrs : Connect(a) \/ SocketStep(a) \/ WorkerAnswers(a) \/ WorkerDies(a)
  \/ \E r \in Requests : GenerateStart(r) \/ CallStep(r) \/ ClientHangsUp(r)
  \/ WatcherStep

Spec == Init /\ [][Next]_vars

(* tokio polls every task that can run.  Connections, requests, hang-ups,   *)
(* deaths and answers come when they like: a worker need not answer, for it *)
(* may lose a command while it starts, in a lag of its own bus or in a panic *)
(* (WorkerShutdown), and stay connected.                                    *)
Fairness ==
  /\ \A a \in Addrs : WF_vars(SocketReads(a)) /\ WF_vars(SocketReadError(a) \/ SocketWrites(a))
  /\ \A r \in Requests : WF_vars(CallStep(r))
  /\ WF_vars(WatcherStep)

FairSpec == Spec /\ Fairness

-------------------------------------------------------------------------------
(* generate_response never returns the text of another prompt, unless two   *)
(* requests drew the same random id for the same worker.                    *)
AnswersMatch ==
  \A r \in Requests :
    result[r].tag = "Ok" =>
      LET other == result[r].content
      IN  other = r \/ (reqId[other] = reqId[r] /\ target[other] = target[r])

(* Where a command that was sent, or its answer, can be.                    *)
IsCommandOf(c, i) ==
  i \in OfType("SendNewPacket", target[c]) /\ log[i].packet = CommandOf(c)

CommandQueued(c) ==
  \E i \in DOMAIN log : IsCommandOf(c, i) /\ cursor[SockRx(target[c])] < i

CommandAtWorker(c) == CommandOf(c) \in inbox[target[c]]

AnswerOnWire(c) == \E i \in DOMAIN outbox[target[c]] : Ends(c, outbox[target[c]][i])

AnswerQueued(c) == \E i \in Endings(c) : cursor[CallRx(c)] < i

Lagged(c) ==
  \E i \in DOMAIN log : Bus!Overwritten(i) /\ (IsCommandOf(c, i) \/ i \in Endings(c))

Connection(a) == a \in up /\ sock[a] = "open"

(* While the connection to its worker is healthy, a call never waits in     *)
(* vain: its command, or a packet that ends the call, is still under way,   *)
(* unless the bus has overwritten one of them.  Nothing else in the master  *)
(* than a lag or a lost connection strands load_model and generate_response, *)
(* which have no timeout; what a worker does not answer strands them too.   *)
AwaitedReply ==
  \A c \in Calls :
    pc[c] = "waiting" /\ Connection(target[c]) =>
      \/ CommandQueued(c)
      \/ CommandAtWorker(c)
      \/ AnswerOnWire(c)
      \/ AnswerQueued(c)
      \/ Lagged(c)

(* A worker is registered only after a load_model call for it has returned, *)
(* and it never serves a prompt before: a GenerateCommand goes to a worker  *)
(* after its LoadCommand, in the order of the bus.                          *)
LoadBeforeGenerate ==
  \A i \in DOMAIN log :
    log[i].type = "SendNewPacket" /\ log[i].packet.kind = "Generate" =>
      \E j \in 1..(i - 1) :
        /\ log[j].type = "SendNewPacket" /\ log[j].packet.kind = "Load"
        /\ log[j].addr = log[i].addr

(* What load_model and generate_response, which have no timeout and do not  *)
(* look at ClientDisconnected, wait for in vain: a worker that is lost or   *)
(* does not answer, and an event that the bus has overwritten.              *)
Forsaken(c) ==
  pc[c] = "waiting" /\ (~Connection(target[c]) \/ CommandAtWorker(c) \/ Lagged(c))

(* A request that was sent returns, unless it is forsaken or its client     *)
(* hangs up: its command gets to a worker that is there, and what the       *)
(* worker answers gets back, whatever else is on the bus.                   *)
RequestsReturn ==
  \A r \in Requests :
    pc[r] = "waiting" /\ ~Forsaken(r) ~> pc[r] # "waiting" \/ Forsaken(r)

(* The watcher returns from load_model to its select!, unless its load is   *)
(* forsaken.  Then it stays there for good, and no worker is registered or  *)
(* unregistered any more.                                                   *)
WatcherReturns ==
  watcher.pc = "load" /\ ~Forsaken(Loader) ~> watcher.pc = "select" \/ Forsaken(Loader)

-------------------------------------------------------------------------------
(* What the protocol asks of its messages: rlpg/README.md:26, "If you want  *)
(* to include the info about the request or response, you should include it *)
(* in the protobuf message itself."  Errors do carry the id of their        *)
(* command, so a request should fail with its own error only.               *)
ErrorsMatchRequests ==
  \A r \in Requests : result[r].tag = "WorkerError" => result[r].id = reqId[r]

(* Both branches of the watcher's select! wait for the next event.          *)
Listening ==
  /\ watcher.pc = "select"
  /\ cursor[ConnRx] = Len(log) /\ cursor[DiscRx] = Len(log)

(* worker_gateway.rs:169, "no available workers currently": with the        *)
(* watcher at rest, a request that is told so finds no worker connected.    *)
NoWorkersErrorIsTrue ==
  [][\A r \in Requests :
       Listening /\ result[r] # NoAvailableWorkers /\ result'[r] = NoAvailableWorkers
         => \A a \in Addrs : ~Connection(a)]_vars
===============================================================================
