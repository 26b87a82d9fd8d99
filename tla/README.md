# Geirmund in TLA+

Geirmund runs a language model on worker machines.  A **master** accepts HTTP
requests (`POST /generate`) and TCP connections of **workers**; a worker loads the
model when the master tells it to and generates text for prompts.  Both processes
speak RLPG, a length-prefixed framing of protobuf packets, and both are built as a
handful of tokio tasks around one broadcast channel, the *event bus*.

The code is small, and what is hard about it is not in any one function: it is in
what the tasks see of each other through the bus, and in how they end.  The modules
here model the bus, the master's tasks, the worker's tasks, the connection between
them byte by byte, the frame parser, the loop that generates a text, and the life of both processes;
TLC checks small instances and TLAPS proves theorems for all of them.

## Inventory

| component | code | state it keeps | operations |
|---|---|---|---|
| event bus | `rlpg/src/tcp.rs` `RLPGEventBus` | the broadcast channel (capacity 100, which tokio rounds up to 128), a receiver per clone | `new`, `clone` (subscribes), `send`, `receive` (loops over lag), drop |
| RLPG parser | `rlpg/src/lib.rs` `RLPGParser` | buffer, index, length, state | `add_to_buffer`, `add_char_to_buffer`, `parse` |
| socket task, listener | `rlpg/src/tcp.rs` `run_on_socket`, `RLPGTcpListener` | socket, parser, clone of the bus | accept, read a byte, write a packet, disconnect, cancel |
| worker gateway | `master/src/worker_gateway.rs` | the set of registered workers | `load_model`, `generate_response`, `worker_connected`, `worker_disconnected`, `run_workers_watcher`, `run_tcp` |
| client gateway | `master/src/client_gateway.rs` | none of its own | `start` (bind, serve, drain), `generate` |
| master lifecycle | `master/src/main.rs` | the cancellation token, four shared futures | start, select, cancel, await |
| worker handler | `worker/src/handler/mod.rs`, `inference/guard.rs`, `main.rs` | two channels of 32, the model behind a mutex | `handle_read`, `handle_packet`, `handle_load`, `handle_generate`, `handle_write`, `lock_now`, and the end by ctrl-c |
| text model | `worker/src/inference/` | weights, random numbers, a key-value cache that is switched off | `new`, `generate` |
| packets | `proto/src/` | none | constructors, conversions |
| optimus, command lines, tracing | `optimus/`, `cli.rs` | none | a dump of an ONNX file, argument parsing |

How they interact:

```
 HTTP client -> generate_response --SendNewPacketToParticularClient--> [bus] -> socket task
                     ^                                                   |          | frames
                     +-------------------NewPacketReceived---------------+          v
 run_workers_watcher <---ClientConnected / ClientDisconnected--- [bus]          worker
                                                                                    |
   worker: socket -> [bus] -> handle_read -> channel -> handle_packet -> blocking tasks
                  <- [bus] <- handle_write <- channel <--------------------- lock, answer
```

Behaviours that are hard to test, and the properties that make each part correct:

* **A receiver joins and lags.**  A clone of the bus sees only what is published
  after it was made, and `receive` hides that the channel has overwritten events.
  Right: order, no duplicates, no loss within the capacity.
* **Calls without a timeout.**  `load_model` and `generate_response` wait on the bus
  for the answer of a worker that also serves other calls, may fail, and may vanish.
  Right: an answer goes to its own call; as long as the connection lives, what a call
  waits for is under way.
* **The watcher subscribes anew for each event** and does not listen while it loads.
  Right: the registered workers are those that are connected.
* **A pipeline with bounded channels and one lock** in the worker.  Right: each command
  is answered once; nothing deadlocks; the model is loaded once and announced before
  it is used; and it is busy for a reason.
* **Frames arrive in arbitrary pieces.**  Right: however a stream is cut, the parser
  finds exactly the frames of the grammar.
* **One socket task reads and writes.**  While it writes it neither reads nor looks at its
  token.  Right: packets arrive whole and in order; an end of one side, at any byte,
  ends the other; nothing waits forever but two tasks that write to each other.
* **Ends of processes.**  The master's `main` selects over four futures, cancels, and awaits
  them in an order of its own; the worker's waits for ctrl-c only.  Right: a request is
  not cut off; errors are reported; the process ends.
* **A loop with three ends.**  `generate` goes on until an end token, of which there may be none, one or
  several, or until the limit; it may fail anywhere, and the next prompt finds the model as it was left.
  Right: what is returned is the whole text, of this prompt.

`PROJECT.json` lists each hazard at its line, with the properties that cover it.

## Modules

| module | models | checked or proved in |
|---|---|---|
| `EventBus` | the operations of the bus, as operators | its users |
| `BusDelivery` | tasks that clone, send, receive and drop in any order | `MCBus`, `BusDeliveryProofs` |
| `WorkerGateway` | the master: listener, socket tasks, watcher, calls; workers as its environment | `MCGateway`, `MCAnnouncements`, `MCCluster`, `WorkerGatewayProofs` |
| `WorkerAnnouncements` | the same with a history variable: what the watcher missed | `MCAnnouncements`, `WorkerGatewayProofs` |
| `WorkerHandler` | the worker: socket, `handle_*`, channels, lock, pool of threads | `MCWorker`, `WorkerHandlerProofs` |
| `WorkerShutdown` | the same with its connection's end, ctrl-c and the runtime's | `MCShutdown`, `WorkerHandlerProofs` |
| `WorkerService` | what a worker promises: commands that take effect at one instant | `WorkerRefinement`, `Cluster` |
| `WorkerRefinement` | the mapping under which `WorkerHandler` implements `WorkerService` | `MCWorker`, `WorkerHandlerProofs` |
| `Cluster` | `WorkerGateway` composed with a `WorkerService` for each worker | `MCCluster`, `ClusterProofs` |
| `MasterLifecycle` | the master's process: `main`, the servers, cancellation, the end | `MCLifecycle`, `MasterLifecycleProofs` |
| `TextModel` | the loop of `generate` over the tokens, prompt after prompt | `MCTextModel`, `TextModelProofs` |
| `RLPGDecoder` | the functions of the parser, as operators | its users, `RLPGParserProofs`, `ConnectionProofs` |
| `RLPGParser` | the parser's two ways of use | `MCParser`, `RLPGParserProofs` |
| `PacketLink` | what rlpg promises to the programs at both ends | `Connection`, `ConnectionProofs` |
| `Connection` | the two socket tasks of a connection and the bytes between them | `MCConnection`, `ConnectionProofs` |

**EventBus.**  The channel is the log of all events ever published, and a cursor per
receiver: the number of events it has gone past.  Retention is a matter of what a
receiver may still be handed (`Overwritten`), so the log can stay whole and
properties can speak about events that were lost.  `IsNext(r, i, S)` is one turn of a
loop that calls `receive` until an event in `S` comes: events outside `S` change
nothing but the cursor, so the loop is one step.  That is how every loop of the code
over the bus is modelled, except the watcher's, which makes a new clone in each turn.

**WorkerGateway.**  `load_model` and `generate_response` wait in the same way; both
are *calls*, the watcher's being the call `Loader`.  A call is `idle`, `subscribed`
(it has drawn its id and cloned the bus), `picked` (it knows its worker), `waiting`
(its command is on the bus), `done`, or `dropped` (the HTTP client hung up, and the
handler's future was dropped at one of its awaits, which the clients of `Impatient` may do).  The steps are the stretches
between two points where another task can act: each clone, publication, lock and
receive is a step of its own.  `Ends` says which packets end a call: of its own kind
a success with its id, or **any** error, and every packet that does not decode, as
the code has it.  `run_workers_watcher` is a
record: at its `select!`, where its two branches own the receivers `ConnRx` and
`DiscRx`, or loading a worker, without receivers.  A worker takes commands from
`inbox` in any order and answers with success or error; a worker in `Faulty` may also
send what does not decode, and may die, after which the socket task finds out by
reading, or by a write that fails.  Each address connects once: a worker that
reconnects has another port, so another address.

**WorkerHandler.**  One action per step of the pipeline in the diagram above.
`Locks`, `FindsBusy`, `FinishLoad`, `FinishGenerate`, `Panics` and `BlockingSend`, with `Returns`, are the blocking
task of a command; the model's lock is `holder`, and a task begins only when one of the pool's
`Threads` is free (512 in tokio).  What a task does between taking the lock and giving it back others can meet, so `Locks` only takes it,
whether there is a model or not.  `handle_load` keeps the lock while it sends its answer, and gives it back
when it returns, a step of its own (`Returns`): by then its answer may be with the master.
`handle_generate` gives it back before it sends (`FinishGenerate`), and a panic of the model gives it back without an answer.  A packet
without a message panics `handle_packet` (`unreachable!`), which closes its channel.
`early` records the commands that came before `main` had cloned the bus for
`handle_read`.

**WorkerShutdown.**  Adds to that what ends: the task of the socket with its connection,
which nobody is told of; and, after ctrl-c, every task.  The runtime drops the asynchronous ones
in some order and what they own with them, so that a blocking task's `blocking_send` may find
its channel closed (`SendFails`), drops the blocking ones that no thread has begun
(`NeverRuns`), and waits for the others.

**WorkerService, WorkerRefinement.**  The abstract worker has no channels, no tasks and no lock:
a command is accepted, takes effect in one step (`Busy`, `Load` or `Generate`), and is
answered at most once with the outcome of that step.  A load that took effect is the `keeper` of the model
for a while, until `LetsGo`, which may come long after its answer.  `ModelBusy` may be the outcome only
while there is a keeper, or another command is accepted that has not taken effect.  Under the mapping a command is
accepted when its frame was read, takes effect when its task concludes, and is answered
when its answer is written to the socket; a load lets go when its task returns; all else is a stutter.  A command may never be answered:
the service promises nothing that a lagging bus or the panic of `handle_packet` would break.

**Cluster.**  In `WorkerGateway` a worker answers anything.  Here each of them decides as
`WorkerService` does, which is what the worker's pipeline is proved to implement.
Its steps are those of an instance of `WorkerService` per worker, between the inbox and the outbox of the
gateway; what the module is about is which of the worker's errors the master can provoke.
`RefusedForAReason` and `BusyForAReason` say which, and that `BusyForAReason` has to name the load shows the
one that surprises: the watcher registers a worker when the answer to its load is there, the worker may still hold the
lock then, and the first prompt is told `ModelBusy` although nobody else asked for anything.  No document of the
repository says otherwise.
Connections do not fail in this module.

**MasterLifecycle.**  `main` is at its `select!`, at one of the futures it awaits then
(the workers' server, the HTTP server, the signal), or returned.  `ClientGateway::start`
is polled by `main` only, a request has a task of its own.  A call is followed by where it, its
command or its answer is; how the bus carries them is left to `WorkerGateway`.  A socket task is at its `select!`
(`open`), where it sees the token, or inside `write_all` (`writing`), where it does not; the write
ends, or it never does (`stuck`), when the worker is itself in a write that waits for this task, as in `Connection`.  axum's graceful
shutdown is external: no new request, and an end when none is in flight.

**TextModel.**  One call of `generate` after the other, each in the steps between two `?`.
candle is external: the next token is any token.  Its key-value cache is switched off
(`LlamaInternals::new`), each pass is given the whole text, and the cache is no part of the model.

**RLPGDecoder, RLPGParser.**  One operator per function of the parser; `Parse` is the loop.  The
payload of a state is a field of the record.  `RLPGParser` has two drivers: `run_on_socket` adds a byte,
parses, and replaces the parser after a packet; the library's user adds batches until the
first result.  The grammar of frames is written separately, from the comments at the
top of `rlpg/src/lib.rs`, as the reference definition to compare with.  Assertions and
panics of the parser cannot be reached under these two uses.

**Connection, PacketLink.**  Both ends of a connection run `run_on_socket`, each with its own version
of rlpg.  A task is at its `select!` (a byte, an event of its bus, the token) or inside `write_all`.
The kernel holds `Window` bytes per direction; the end of a task lets its peer read what was
written, unless the kernel resets the connection and cuts it.  `PacketLink` is what the programs are promised: whole packets,
in order, at most once; an end is announced for a reason; a silent end (a failed write) only
when the other side is gone and a packet is lost.  `LinkSpec` is the refinement, model-checked in `MCConnection` and proved.

## Runs

| run | properties | instance |
|---|---|---|
| `MCBus` | `TypeOK InOrder NoLossWithinCapacity CaughtUp` | 2 receivers, capacity 2, 4 events |
| `MCAnnouncements` | `TypeOK LoadBeforeGenerate RegisteredIsAnnounced RequestsReturn WatcherReturns` | 2 workers, one of them faulty, one of them registered at the beginning, 1 request, a bus of 3, fairness |
| `MCGateway_errors` | `ErrorsMatchRequests` is violated | 1 worker, 2 requests, 2 ids |
| `MCGateway_noworkers` | `NoWorkersErrorIsTrue` is violated | 1 worker, 1 request |
| `MCWorker_safety` | `TypeOK NothingLostOrDoubled LoadAnsweredFirst LoadedOnce ServiceSpec` | 2 load commands, 1 generate command, 1 undecodable packet, channels of 1, 2 threads |
| `MCShutdown` | `NothingLostWhileUp EveryCommandAnswered LockComesFree WorkerStops` | 1 load command, 1 generate command, 1 packet without a message, channels of 1, bus of 2, 2 threads, fairness |
| `MCCluster` | `AnswersMatch AwaitedReply RefusedForAReason BusyForAReason` | 1 real worker, 2 requests, 2 ids, no hang-ups |
| `MCLifecycle` | `TypeOK NothingAborted ShutdownEnds CancelledClosesAll HttpFailureReported` | 2 workers, one of them may die, 2 requests, fairness |
| `MCLifecycle_listener` | `TcpFailureReported` is violated | 1 worker, 1 request, fairness |
| `MCTextModel` | `TypeOK TextIsComplete` | 2 prompts, 2 end tokens, a limit of 3 |
| `MCParser` | `TypeOK PacketsAreFrames GrammarDecides FirstFrameAndRest` | streams of 10 bytes, batches of up to 4, 2 packets |
| `MCConnection` | `TypeOK LinkSpec PacketsArrive EndsSpread CancelEnds` | 2 packets one way and 1 the other, 4 bytes in flight, 2 versions, cancellation, disconnect, deaths, fairness |

Why the bounds are enough:

* *Bus.*  Receivers do not interact, so two show every case (one lags, one keeps up).
  Four events are twice the capacity: the channel wraps around.
* *Gateway.*  Calls interact through the events of one worker and through ids.  With
  two requests, the loader and two ids, ids collide and do not; a call is overtaken by
  another call's answer.  Two workers suffice for `first` to change, both ways.  In `MCAnnouncements` a bus of three lags behind the
  announcements, commands and answers of two workers, so that the watcher, the sockets and the calls miss events.
  Under fairness the whole life of two workers is too large for TLC, so this instance begins
  where one of them (the healthy or the faulty one) was just registered, a state that `HistorySpec` reaches;
  the theorems have no such restriction, and in `MCCluster` the master begins at its `Init`.
  In the other instances a bus of 20 never lags, and `AwaitedReply` names a lag as an exception.  No log grows without a new call, worker
  or answer, so the instances are finite without a state constraint.
* *Worker.*  Channels of one are full as soon as one command waits, so backpressure
  happens in every order; with 32 it would need 34 commands.  Two loads compete for the
  lock while a generate command finds it busy; with two threads the third task has to wait for one.
  In `MCShutdown` a bus of two lags behind a channel of one.
* *Cluster.*  The requests interact through one worker, and the load with them: the watcher loads one
  worker at a time, and a call knows one.  No client hangs up there: a request that an error of another
  one has ended leaves the same unanswered command behind, and hang-ups are in `MCAnnouncements`.  Two workers are in `MCAnnouncements`.
* *Master's life.*  Two workers and two requests: one request may be answered while the other one
  waits for a worker that is gone or whose socket hangs, and one worker may be accepted late.
* *Text model.*  Two end tokens tell `Single` from `Multiple`; three tokens are enough to end
  at the first, in the middle and at the limit; nothing bounds the number of prompts, because
  the state does not grow with it.
* *Parser.*  Base 2 with lengths up to 2, a header of two bytes, and a byte that is
  neither digit nor newline: ten bytes hold a whole frame with a body and the start of
  a second one, and leave room for lengths with leading zeros and above the limit.
* *Connection.*  Every frame is longer than the four bytes in flight, so each `write_all` may
  block, and both may at once.  One body begins like a frame and one is empty.  The
  versions differ in the first byte, so an error comes in the middle of a frame.

`CHECK_DEADLOCK FALSE` in a configuration means that its instance comes to rest when all
its commands, requests or bytes are used up.

What the violated properties show: `ErrorsMatchRequests`, that an error response ends
every call at that worker, whatever command it answers (`worker_gateway.rs:98`), so
one busy answer fails a request whose text is being generated.
`NoWorkersErrorIsTrue`, that a worker which connects while the watcher has no receiver
in place (before it runs, between two clones, or while it loads another worker) is never
registered, and requests are refused for want of workers.  `TcpFailureReported`, that
`run_tcp` drops the result of the listener's task (`worker_gateway.rs:206`): a master
whose workers' port cannot be bound goes on, and nobody is told.

Exceptions that hold properties name, since the code does behave so: a request that waits for a worker
whose socket is closed holds up the master's end for as long as its client waits (`Stuck` in
`ShutdownEnds`; a second ctrl-c changes nothing, as tokio's handler stays installed), and so does one whose socket
hangs in `write_all`, which the cancellation does not close either (`stuck` in `ShutdownEnds` and `CancelledClosesAll`); two
socket tasks that write to each other with full windows never go on (`Gridlock` in
`PacketsArrive` and `CancelEnds`); a call waits forever for a worker that is lost or does not answer, or if the bus
overwrote its command or its answer (`Forsaken` in `RequestsReturn` and `WatcherReturns`), and the watcher, waiting
so, registers nobody any more; a panic leaves its command without an answer, and the master's
call for it waits forever.

### Fairness

tokio polls every task that can run, so each task's steps are weakly fair.
In `WorkerGateway` no worker is assumed to answer: one that reads its first command before `handle_read` has
cloned the bus (`early` in `WorkerHandler`), whose own bus lags, or whose model panics stays connected and says nothing.
In `WorkerShutdown` loading and generating end, or panic.
In `MasterLifecycle` neither workers nor a socket's `write_all` are assumed to get anywhere: a write ends or hangs for good.
In `WorkerShutdown`
the senders of a full channel and the tasks that wait for a thread are strongly fair: tokio queues
both in order, so none is passed over forever; and a runtime that is being dropped goes on
dropping.  In `Connection` the `select!` picks a ready branch at random, so a branch that stays ready is taken
some day; weak fairness of reading is written out with the operator `Readable`, because TLC would run the parser
twice to evaluate its `ENABLED`.  Nothing is assumed of connections, requests, hang-ups, deaths,
cancellations and ctrl-c: they happen or not.

## Proofs

TLAPS proves, for every value of the constants that satisfies the modules' named assumptions:

* `BusDeliveryProofs`: `TypeCorrect`, `Ordered` (`InOrder`) and `NoLoss`
  (`NoLossWithinCapacity`) of `BusDelivery`, from the assumption that the capacity is
  positive.  `InOrder` is not inductive: the invariant adds that what a receiver was
  handed lies between where it subscribed and its cursor, and that as long as nothing it
  may see was overwritten it was handed exactly the positions from one to the other.
  The step that matters is `Receive`; `NextIsAdjacent` shows that the next event within
  the capacity is the one behind the cursor.
* `WorkerGatewayProofs`: `TypeCorrect`, `AnswersMatchTheirRequests` (`AnswersMatch`), `LoadsComeFirst`
  (`LoadBeforeGenerate`) and `NobodyWaitsInVain` (`AwaitedReply`)
  of `WorkerGateway`, for any number of workers, requests and ids, whether the bus lags
  or not.  The inductive invariant `IInv` has four parts: types; what a call has in each of its
  phases (`PhaseOK`); every `Generate` command and answer anywhere, on the
  bus, in an inbox or in an outbox, comes from a request that was sent to that worker
  with that id (`SourcesOK`); and so does every text that was returned (`ResultsOK`).
  `SourcesOK` is what carries a text from the worker to the call, and `PhaseOK` is needed
  because a call's id and target must not change once it was sent.
  `OrderOK` adds what the order of loads and generations rests on: a worker that a call may pick was loaded
  (`KnownOK`), the watcher's load is the only one and the watcher's own (`LoaderOK`), and no worker is greeted
  twice (`GreetedOK`).
  `AwaitedReply` follows the command of a waiting call from the bus through the inbox to the
  answer; it is inductive together with `IInv` and `OrderOK`.
  The bus is used through lemmas about its operators (`BusStep` and the ones after it).
  With the history of `WorkerAnnouncements`, `RegistersTheAnnounced` (`RegisteredIsAnnounced`) follows the same way, however many
  events there were: what the bus overwrote is among what was missed.  `ConnectedOK` says where each announcement of a connection is: in front of the watcher,
  with it, registered, or missed; `NoticedOK` says the same of disconnections.
* `WorkerHandlerProofs`: of `WorkerHandler` `TypeCorrect`, `LoadsOnce` (`LoadedOnce`), `CommandsAreKept`
  (`NothingLostOrDoubled`), `LoadIsAnsweredFirst` (`LoadAnsweredFirst`) and `Implements`; of `WorkerShutdown`
  `CommandsAreKeptWhileUp` (`NothingLostWhileUp`).  All rest on
  `HandlerAssumption` (positive capacities, a number of threads, kinds of commands that do not overlap, and a
  `None` that is neither a command nor an outcome).  The invariant `IInv` has four parts:
  types, with what each stage of a task implies (`StageOK`); a command is in one place on
  its way to its task, and the socket gave it once (`OnceOK`); who works on the model or
  returns from that holds its lock, and a holder has not finished (`LockOK`); an answer is in one place on
  its way back, and its task has sent it (`AnswersOK`).  The parts are proved in this order,
  each step using the earlier ones.  `LoadsOnce` adds `LoadsOK`: a load that succeeded is
  the one whose model is there, which `FinishLoad` preserves because it looks for a model under the lock.
  `OnceOK` and `AnswersOK` say that a command is in at most one place; `ArrivedOK`, that it is in at least one.  In a worker
  that ends, `UpIInv` adds that nothing of `main` is dropped before ctrl-c.
  `TextOK` follows a text back to the load it needed: who generates saw a model (`ModelOK`), and the answer of its load is in the
  channel before any text (`QueueOK`, which holds because `handle_load` keeps the lock until then), so it is on the bus
  and on the wire before it (`WrittenOK`).
  `Implements` is `Spec => ServiceSpec`.  One lemma per action
  says which step of the service it is, or that it is hidden.  `LockOK` makes loads and generations atomic, and
  says what a task that finds the model busy has met: a holder that has not taken effect, or a load that has and
  keeps the model (`BusyIsBusy`);
  `OnceOK` says that a task's command was accepted; `AnswersOK` that an answer on the wire is that of
  a task that has sent it, and that it is the only one.
* `ClusterProofs`: `ImplementsGateway`, that each step of `Cluster` is one that `WorkerGateway` allows the master and its
  environment, so that `MasterStaysRight` (`AnswersMatch`, `AwaitedReply`) needs no new argument;
  `RefusalsHaveReasons` (`RefusedForAReason`) and `BusyHasReasons`
  (`BusyForAReason`).  Beside the gateway's invariant they need `ServiceIInv`: that a command is sent once
  and answered once (`DeliveryOK`), that nothing but its load comes to a worker before the load was answered
  (`MessagesFollow`, `CallsFollow`), that its model is the one the load loaded (`ModelOK`), and that the load
  that keeps it has taken effect (`KeeperOK`).  `ClusterAssumption` says that `None` is no command and no outcome.
* `MasterLifecycleProofs`: `TypeCorrect` and `EndCutsNothingOff` (`NothingAborted`) of
  `MasterLifecycle`, for any workers and requests.  `ServedOK` is what makes it inductive: requests are in flight
  only while the server serves or drains, and `main` is past the server only when it does
  neither.  `TypeOK` needs `TargetOK`, that a call which was answered still has its worker.
* `TextModelProofs`: `TypeCorrect` and
  `ReturnsWholeText` (`TextIsComplete`) of `TextModel`, for any vocabulary, prompts, end tokens and limit.
  The invariant says what the text is in each stage: it begins with the prompt (`PromptOK`),
  `idx` counts the tokens after it and none of them ends the text (`LoopOK`), until one does or the limit is there (`StopOK`).
* `RLPGParserProofs`: `TypeCorrect`, `PublishesFrames` (`PacketsAreFrames`), `FollowsGrammar` (`GrammarDecides`), `ReturnsFirstFrame`
  (`FirstFrameAndRest`) and `IndexStaysInBuffer` of `RLPGParser`: for any version, base, width of
  the lengths, stream, and cut of it into batches.
  Grammar and parser see the same bytes differently, the one as splits of the whole stream, the other as a state, an index and what is left of the buffer.
  The first part of the proofs turns the grammar into positions: where
  the digits end and what must follow (`SplitsAt`), where it goes wrong (`WrongAt`).  The invariant
  `ParserOK` then says what each state of the parser knows of the bytes it was fed (`AtHeader`, `AtLength`, `AtNewline`,
  `AtBody`), and each function of the parser moves from one of these to the next; `Parse` composes them.
  That the value of a numeral is a number is an induction over the numeral; it is done by a least
  counterexample (`LeastIsThere`, from the well-founded induction of the library).
* `ConnectionProofs`: `TypeCorrect` and `ImplementsLink` (`LinkSpec`) of `Connection`: for any bodies, versions, window and
  base, and whoever cancels, leaves or dies.  Beside types, the invariant `IInv` has one part per direction, `Intact(s)`,
  which lays everything along one sequence of bytes, the `Flow`: the frames of all the bodies that the peer has begun to send.
  `Handed` says that what `s` has published is the first of these bodies; `Decoding`, that its parser holds the next bytes of
  the flow, in the state that they lead to (`FrameStage`); `OnTheWay`, that the bytes in the stream and those that `write_all`
  has left are the ones after that, up to the end of the flow, unless one of the ends is over and they were cut.  Under two different versions nothing is ever
  handed over (`InHeader`): the parser does not leave the header that the other side never sends.
  The proofs come in this order: numerals (`Value` of `Numeral[n]` is `n` again, a value does not fall
  when a digit is added, and both functions are what their recursive definitions say, `DefinedUpTo`); pieces of sequences; the flow; what one byte
  does to the parser in each of its states (`HeaderByte` to `FrameByte`), so that only a frame's last byte makes it publish;
  each action on one direction (`DirectionTakes`, `DirectionReads`, `DirectionWrites`, `DirectionCut`); and the steps.
  `ConnectionAssumption` says two things of the code.  No version's header is a proper prefix of another one's: `STARTING_PAYLOAD`
  is `RLPG/`, a version, and the only newline in it, at its end.  A body is no longer than `usize::MAX`: it is a `Vec`.
  `TypeOK` needs `ParsersOK`, the parsers' own types.  `Connection` runs a parser for each side, so its theorems rest
  on the functions of `RLPGDecoder` and not on those of `RLPGParser`, which has one parser and any stream; what both need of the
  values of numerals is proved in each.

Only model-checked: every liveness property.
Liveness under fairness and `ENABLED` are out of the prover's reach.  The library's induction theorems
take an operator as a parameter and cannot be cited, which is why the inductions over numerals and flows go by a least counterexample.  No module uses `RECURSIVE`.

## Not modelled

* A host that vanishes without closing its connections: the code has no heartbeat, and nothing in it
  notices.  What the kernel and axum do is assumed, as the modules that use it say.
* The numbers: weights, penalties and sampling are candle's; the configuration is `main`'s default.
* Protobuf's encoding, HTTP and JSON: libraries.
* A response whose result has no variant: it decodes, and only a foreign worker sends it.
* `optimus` (one file of it is generated), command lines, tracing: no state, pure I/O.

## Plan

Done: bus, gateway, worker, parser and the worker's service; the connection, the master's life,
the worker's shutdown, the composition of master and worker, and the text model; proofs of every safety property
that a run checks.  What is left:

1. To read the proofs of `RLPGParser` and `Connection` for what they share: `ReturnsFirstFrame` and `FrameByte` meet in the frames of
   one version, and the lemmas on numerals could be stated once.
2. What more can be said without fairness of the properties that stay with TLC: that a rest state of the pipeline or of a
   connection has nothing left to do is a safety property behind `EveryCommandAnswered` and `PacketsArrive`.
