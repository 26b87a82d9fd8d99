---------------------------- MODULE MasterLifecycle ----------------------------
(***************************************************************************)
(* The life of the master's process (master/src/main.rs): main selects over *)
(* the workers' server, the watcher, the HTTP server and ctrl-c; the first  *)
(* to finish makes it cancel the token, and then it awaits the servers and  *)
(* the signal.                                                              *)
(*                                                                          *)
(*   - run_tcp spawns the listener, waits for the token and returns Ok; what *)
(*     becomes of the listener is nobody's business;                        *)
(*   - ClientGateway::start binds its port, serves, and when the token is   *)
(*     cancelled stops accepting and waits for the requests in flight;      *)
(*   - the watcher is polled by the select only, not after it.              *)
(*                                                                          *)
(* A call is followed from its command to its answer by where it is; what   *)
(* calls do to each other is the subject of WorkerGateway, how a socket     *)
(* carries a packet that of Connection.                                     *)
(***************************************************************************)
EXTENDS Integers, FiniteSets, FiniteSetsExt

CONSTANTS
  Addrs,       \* socket addresses of workers; the order is SocketAddr's
  Requests,    \* the HTTP requests
  Loader,      \* the load_model call of the watcher
  Faulty,      \* the workers that may die
  None         \* no address

Calls == Requests \cup {Loader}

ASSUME LifecycleAssumption ==
  /\ Addrs \subseteq Nat /\ None \notin Addrs
  /\ Loader \notin Requests /\ Faulty \subseteq Addrs

VARIABLES
  main,        \* where main is: at its select!, or awaiting one of its futures
  cancelled,   \* the token
  signal,      \* ctrl-c was pressed
  reported,    \* the servers whose errors main has printed
  listener,    \* the task of RLPGTcpListener::run
  http,        \* ClientGateway::start
  pc,          \* pc[c]: where call c, its command or its answer is
  target,      \* target[c]: the worker call c was sent to
  workers,     \* the registered workers
  greeted,     \* the workers whose ClientConnected the watcher has seen
  sock,        \* sock[a]: the socket task of a
  up           \* the workers that are connected and alive

mainVars   == <<main, cancelled, signal, reported>>
serverVars == <<listener, http>>
callVars   == <<pc, target>>
workerVars == <<sock, up>>
vars == <<mainVars, serverVars, callVars, workers, greeted, workerVars>>

(* The command is on the bus, in write_all, with the worker; the answer is  *)
(* in the socket, on the bus.  The command of an orphaned call is on the    *)
(* bus, but its client has gone.                                            *)
Waiting  == {"published", "writing", "written", "answered"}
InFlight == {"called", "delivered"} \cup Waiting

TypeOK ==
  /\ main \in {"select", "tcp", "http", "signal", "returned"}
  /\ cancelled \in BOOLEAN /\ signal \in BOOLEAN
  /\ reported \subseteq {"tcp", "http"}
  /\ listener \in {"none", "starting", "accepting", "bindFailed", "acceptFailed", "stopped"}
  /\ http \in {"none", "serving", "draining", "done", "bindFailed"}
  /\ pc \in [Calls -> {"idle", "done", "refused", "orphaned", "dropped", "aborted"} \cup InFlight]
  /\ target \in [Calls -> Addrs \cup {None}]
  /\ workers \subseteq Addrs /\ greeted \subseteq Addrs
  /\ sock \in [Addrs -> {"absent", "open", "writing", "stuck", "closed"}] /\ up \subseteq Addrs
  /\ \A c \in Calls : pc[c] \in Waiting => target[c] \in Addrs

Init ==
  /\ main = "select" /\ cancelled = FALSE /\ signal = FALSE /\ reported = {}
  /\ listener = "none" /\ http = "none"
  /\ pc = [c \in Calls |-> "idle"] /\ target = [c \in Calls |-> None]
  /\ workers = {} /\ greeted = {}
  /\ sock = [a \in Addrs |-> "absent"] /\ up = {}

(* main has returned, and with it the runtime and all tasks are gone.       *)
Alive == main # "returned"

-------------------------------------------------------------------------------
(***************************************************************************)
(* main.                                                                    *)
(***************************************************************************)
CtrlC ==
  /\ Alive /\ ~signal
  /\ signal' = TRUE
  /\ UNCHANGED <<main, cancelled, reported, serverVars, callVars, workers, greeted, workerVars>>

(* Of the four futures, run_tcp and the watcher end only after the          *)
(* cancellation, which is this step.  Mutant: the token is forgotten.       *)
MainLeavesSelectUncancelled ==
  /\ main = "select" /\ (signal \/ http = "bindFailed")
  /\ main' = "tcp"
  /\ UNCHANGED <<cancelled, signal, reported, serverVars, callVars, workers, greeted, workerVars>>

MainLeavesSelect ==
  /\ main = "select" /\ (signal \/ http = "bindFailed")
  /\ main' = "tcp" /\ cancelled' = TRUE
  /\ UNCHANGED <<signal, reported, serverVars, callVars, workers, greeted, workerVars>>

(* run_tcp, which has spawned the listener when it was first polled, is Ok. *)
MainJoinsTcp ==
  /\ main = "tcp" /\ cancelled
  /\ main' = "http"
  /\ listener' = IF listener = "none" THEN "starting" ELSE listener
  /\ UNCHANGED <<cancelled, signal, reported, http, callVars, workers, greeted, workerVars>>

(* Mutant: main does not wait for the server to drain.                      *)
MainJoinsHttpAtOnce ==
  /\ main = "http"
  /\ main' = "signal"
  /\ reported' = IF http = "bindFailed" THEN reported \cup {"http"} ELSE reported
  /\ UNCHANGED <<cancelled, signal, serverVars, callVars, workers, greeted, workerVars>>

(* Mutant: the error is dropped.                                            *)
MainJoinsHttpSilently ==
  /\ main = "http" /\ http \in {"done", "bindFailed"}
  /\ main' = "signal"
  /\ UNCHANGED <<cancelled, signal, reported, serverVars, callVars, workers, greeted, workerVars>>

MainJoinsHttp ==
  /\ main = "http" /\ http \in {"done", "bindFailed"}
  /\ main' = "signal"
  /\ reported' = IF http = "bindFailed" THEN reported \cup {"http"} ELSE reported
  /\ UNCHANGED <<cancelled, signal, serverVars, callVars, workers, greeted, workerVars>>

(* run_until_cancelled; then main returns, and the runtime drops its tasks. *)
MainReturns ==
  /\ main = "signal" /\ (signal \/ cancelled)
  /\ main' = "returned"
  /\ pc' = [c \in Calls |-> IF pc[c] \in InFlight THEN "aborted" ELSE pc[c]]
  /\ sock' = [a \in Addrs |-> IF sock[a] = "absent" THEN "absent" ELSE "closed"]
  /\ UNCHANGED <<cancelled, signal, reported, serverVars, target, workers, greeted, up>>

-------------------------------------------------------------------------------
(***************************************************************************)
(* run_tcp, RLPGTcpListener::run and the tasks of the sockets.              *)
(***************************************************************************)
RunTcp ==
  /\ main = "select" /\ listener = "none"
  /\ listener' = "starting"
  /\ UNCHANGED <<mainVars, http, callVars, workers, greeted, workerVars>>

ListenerBinds ==
  /\ Alive /\ listener = "starting"
  /\ listener' \in {"accepting", "bindFailed"}
  /\ UNCHANGED <<mainVars, http, callVars, workers, greeted, workerVars>>

(* The select! picks any branch that is ready: also after the cancellation  *)
(* a worker may be accepted.                                                *)
Accepts(a) ==
  /\ Alive /\ listener = "accepting" /\ sock[a] = "absent"
  /\ sock' = [sock EXCEPT ![a] = "open"] /\ up' = up \cup {a}
  /\ UNCHANGED <<mainVars, serverVars, callVars, workers, greeted>>

AcceptFails ==
  /\ Alive /\ listener = "accepting"
  /\ listener' = "acceptFailed"
  /\ UNCHANGED <<mainVars, http, callVars, workers, greeted, workerVars>>

ListenerStops ==
  /\ Alive /\ listener = "accepting" /\ cancelled
  /\ listener' = "stopped"
  /\ UNCHANGED <<mainVars, http, callVars, workers, greeted, workerVars>>

(* The task takes the next packet for its worker from the bus and is in     *)
(* write_all until the kernel has all of it.  No token is looked at there.  *)
SocketWrites(c) ==
  /\ Alive /\ pc[c] \in {"published", "orphaned"}
  /\ sock[target[c]] = "open"
  /\ sock' = [sock EXCEPT ![target[c]] = "writing"]
  /\ pc' = [pc EXCEPT ![c] = IF @ = "published" THEN "writing" ELSE "dropped"]
  /\ UNCHANGED <<mainVars, serverVars, target, workers, greeted, up>>

SocketWritten(a) ==
  /\ Alive /\ sock[a] = "writing"
  /\ sock' = [sock EXCEPT ![a] = "open"]
  /\ pc' = [c \in Calls |-> IF pc[c] = "writing" /\ target[c] = a THEN "written" ELSE pc[c]]
  /\ UNCHANGED <<mainVars, serverVars, target, workers, greeted, up>>

(* The worker does not read any more, being itself in a write_all to the    *)
(* master that waits for this one (Gridlock of Connection).                 *)
SocketGetsStuck(a) ==
  /\ Alive /\ sock[a] = "writing"
  /\ sock' = [sock EXCEPT ![a] = "stuck"]
  /\ UNCHANGED <<mainVars, serverVars, callVars, workers, greeted, up>>

Ends(a) ==
  /\ sock' = [sock EXCEPT ![a] = "closed"]
  /\ UNCHANGED <<mainVars, serverVars, callVars, workers, greeted, up>>

(* Mutant: the task is given a token of its own, which nobody cancels.      *)
SocketStopsUntold(a) ==
  /\ Alive
  /\ sock[a] \in {"open", "writing", "stuck"} /\ a \notin up
  /\ Ends(a)

(* The socket task ends for the token, when it is at its select!, or for a  *)
(* lost connection.                                                         *)
SocketStops(a) ==
  /\ Alive
  /\ \/ sock[a] = "open" /\ cancelled
     \/ sock[a] \in {"open", "writing", "stuck"} /\ a \notin up
  /\ Ends(a)

WorkerDies(a) ==
  /\ a \in up \cap Faulty
  /\ up' = up \ {a}
  /\ UNCHANGED <<mainVars, serverVars, callVars, workers, greeted, sock>>

-------------------------------------------------------------------------------
(***************************************************************************)
(* ClientGateway::start and axum underneath: polled by main, at its select! *)
(* or when it awaits the server; a request has a task of its own.           *)
(***************************************************************************)
HttpPolled == main \in {"select", "http"}

HttpBinds ==
  /\ HttpPolled /\ http = "none"
  /\ http' \in {"serving", "bindFailed"}
  /\ UNCHANGED <<mainVars, listener, callVars, workers, greeted, workerVars>>

RequestArrives(r) ==
  /\ HttpPolled /\ http = "serving" /\ pc[r] = "idle"
  /\ pc' = [pc EXCEPT ![r] = "called"]
  /\ UNCHANGED <<mainVars, serverVars, target, workers, greeted, workerVars>>

HttpDrains ==
  /\ HttpPolled /\ http = "serving" /\ cancelled
  /\ http' = "draining"
  /\ UNCHANGED <<mainVars, listener, callVars, workers, greeted, workerVars>>

HttpDone ==
  /\ HttpPolled /\ http = "draining" /\ \A r \in Requests : pc[r] \notin InFlight
  /\ http' = "done"
  /\ UNCHANGED <<mainVars, listener, callVars, workers, greeted, workerVars>>

(* A client closes its connection: the task of its request is dropped, a    *)
(* command that is on the bus stays there.                                  *)
HangsUp(r) ==
  /\ Alive /\ pc[r] \in InFlight
  /\ pc' = [pc EXCEPT ![r] = IF @ = "published" THEN "orphaned" ELSE "dropped"]
  /\ UNCHANGED <<mainVars, serverVars, target, workers, greeted, workerVars>>

-------------------------------------------------------------------------------
(***************************************************************************)
(* The calls.                                                               *)
(***************************************************************************)
Moves(c, from, to) ==
  /\ Alive /\ pc[c] = from
  /\ pc' = [pc EXCEPT ![c] = to]

(* Mutant: that there is a worker is taken for granted.                     *)
PicksBlindly(r) ==
  /\ Moves(r, "called", "published")
  /\ target' = [target EXCEPT ![r] = IF workers = {} THEN @ ELSE Min(workers)]
  /\ UNCHANGED <<mainVars, serverVars, workers, greeted, workerVars>>

Picks(r) ==
  /\ IF workers = {}
       THEN Moves(r, "called", "refused") /\ UNCHANGED target
       ELSE Moves(r, "called", "published") /\ target' = [target EXCEPT ![r] = Min(workers)]
  /\ UNCHANGED <<mainVars, serverVars, workers, greeted, workerVars>>

Answers(c) ==
  /\ Moves(c, "written", "answered") /\ target[c] \in up
  /\ UNCHANGED <<mainVars, serverVars, target, workers, greeted, workerVars>>

SocketReads(c) ==
  /\ Moves(c, "answered", "delivered") /\ sock[target[c]] = "open"
  /\ UNCHANGED <<mainVars, serverVars, target, workers, greeted, workerVars>>

Returns(r) ==
  /\ Moves(r, "delivered", "done")
  /\ UNCHANGED <<mainVars, serverVars, target, workers, greeted, workerVars>>

(* The watcher, while main is at its select!.                               *)
WatcherLoads(a) ==
  /\ main = "select" /\ sock[a] # "absent" /\ a \notin greeted
  /\ Moves(Loader, "idle", "published")
  /\ target' = [target EXCEPT ![Loader] = a]
  /\ greeted' = greeted \cup {a}
  /\ UNCHANGED <<mainVars, serverVars, workers, workerVars>>

WatcherRegisters ==
  /\ main = "select"
  /\ Moves(Loader, "delivered", "idle")
  /\ workers' = workers \cup {target[Loader]}
  /\ UNCHANGED <<mainVars, serverVars, target, greeted, workerVars>>

WatcherUnregisters(a) ==
  /\ main = "select" /\ pc[Loader] = "idle"
  /\ a \in workers /\ sock[a] = "closed"
  /\ workers' = workers \ {a}
  /\ UNCHANGED <<mainVars, serverVars, callVars, greeted, workerVars>>

-------------------------------------------------------------------------------
Main == MainLeavesSelect \/ MainJoinsTcp \/ MainJoinsHttp \/ MainReturns

Next ==
  \/ MainLeavesSelect \/ MainJoinsTcp \/ MainJoinsHttp \/ MainReturns \/ CtrlC
  \/ RunTcp \/ ListenerBinds \/ AcceptFails \/ ListenerStops
  \/ HttpBinds \/ HttpDrains \/ HttpDone \/ WatcherRegisters
  \/ \E a \in Addrs :
       \/ Accepts(a) \/ SocketWritten(a) \/ SocketGetsStuck(a) \/ SocketStops(a)
       \/ WorkerDies(a) \/ WatcherLoads(a) \/ WatcherUnregisters(a)
  \/ \E r \in Requests : RequestArrives(r) \/ HangsUp(r) \/ Picks(r) \/ Returns(r)
  \/ \E c \in Calls : SocketWrites(c) \/ Answers(c) \/ SocketReads(c)

(* tokio polls what can go on.  Nothing makes a worker connect, read, answer *)
(* or die, a socket pick a packet rather than the token, a client ask or    *)
(* hang up, the watcher's receivers see an announcement, or anybody press   *)
(* ctrl-c.                                                                  *)
Fairness ==
  /\ WF_vars(Main) /\ WF_vars(RunTcp) /\ WF_vars(ListenerBinds) /\ WF_vars(ListenerStops)
  /\ WF_vars(HttpBinds) /\ WF_vars(HttpDrains) /\ WF_vars(HttpDone) /\ WF_vars(WatcherRegisters)
  /\ \A a \in Addrs : WF_vars(SocketStops(a)) /\ WF_vars(SocketWritten(a) \/ SocketGetsStuck(a))
  /\ \A r \in Requests : WF_vars(Picks(r)) /\ WF_vars(Returns(r))

Spec == Init /\ [][Next]_vars

FairSpec == Spec /\ Fairness

-------------------------------------------------------------------------------
(* The orderly end is orderly: no request is cut off by the return of main, *)
(* whatever came first, the signal, the failure of a server or an answer    *)
(* (main.rs:60-73, client_gateway.rs:70).                                   *)
NothingAborted == \A r \in Requests : pc[r] # "aborted"

(* The request waits for a worker that main.rs:60 disconnected, or that was *)
(* lost before, or whose socket task hangs in write_all: nothing but its    *)
(* client, or the loss of such a worker, can change that.                   *)
Stuck(r) == pc[r] \in Waiting /\ sock[target[r]] \in {"closed", "stuck"}

(* After ctrl-c, or when the clients' port cannot be bound, main returns,   *)
(* unless there is a request that waits forever for a worker whose socket   *)
(* is closed or hangs in write_all (main.rs:67): nothing else can hold up   *)
(* the end, not a late request, not a slow worker and not the listener.     *)
ShutdownEnds ==
  \/ [](~signal /\ http # "bindFailed")
  \/ <>(main = "returned")
  \/ \E r \in Requests : <>[]Stuck(r)

(* After the cancellation no socket of a worker stays open, except one that *)
(* hangs in write_all, where it never looks at the token: neither those     *)
(* that the listener accepts late, nor those of requests that hold up the   *)
(* end (tcp.rs:79-80, tcp.rs:105, tcp.rs:166-187).                          *)
CancelledClosesAll ==
  cancelled ~> [](\A a \in Addrs : sock[a] \in {"absent", "stuck", "closed"})

(* A failure to bind the clients' port ends the master and is reported.     *)
HttpFailureReported == http = "bindFailed" ~> main = "returned" /\ "http" \in reported

(* main.rs:62-64, "Error occurred within tcp server: {e}": so is the error  *)
(* that ends the workers' server, when it fails to bind or to accept.       *)
TcpFailureReported ==
  main = "select" /\ listener \in {"bindFailed", "acceptFailed"} ~> "tcp" \in reported
===============================================================================
