--------------------------------- MODULE Cluster --------------------------------
(***************************************************************************)
(* The master of WorkerGateway with workers that are the program of         *)
(* worker/, and not anybody who speaks the protocol: each of them is a      *)
(* WorkerService between the inbox and the outbox of its connection.  Which *)
(* of the worker's errors the master can provoke is visible only here.      *)
(*                                                                          *)
(* Connections do not fail here, and no worker sends what does not decode:  *)
(* in WorkerGateway they do.                                                *)
(***************************************************************************)
EXTENDS WorkerGateway

VARIABLES
  accepted,    \* accepted[a] and so on: the variables of WorkerService for a
  decided,
  model,
  keeper,
  replies

serviceVars == <<accepted, decided, model, keeper, replies>>
clusterVars == <<vars, serviceVars>>

LoadCommands     == [kind : {"Load"}, id : Ids, prompt : {Loader}]
GenerateCommands == [kind : {"Generate"}, id : Ids, prompt : Requests]
Commands         == LoadCommands \cup GenerateCommands

Verdicts ==
  {"Ok", "LoadingError", "ModelAlreadyLoaded", "ModelNotLoaded",
   "GenerationError", "ModelBusy"}

ASSUME ClusterAssumption == None \notin Commands \cup Verdicts

Service(a) == INSTANCE WorkerService WITH
  Loads     <- LoadCommands,
  Generates <- GenerateCommands,
  accepted  <- accepted[a],
  decided   <- decided[a],
  model     <- model[a],
  keeper    <- keeper[a],
  replies   <- replies[a]

ClusterInit ==
  /\ Init
  /\ accepted = [a \in Addrs |-> {}]
  /\ decided = [a \in Addrs |-> [cmd \in Commands |-> None]]
  /\ model = [a \in Addrs |-> None]
  /\ keeper = [a \in Addrs |-> None]
  /\ replies = [a \in Addrs |-> <<>>]

-------------------------------------------------------------------------------
(* What is written to the socket of a live worker is accepted by it.        *)
Delivers(a) ==
  /\ SocketWrites(a)
  /\ accepted' = [accepted EXCEPT ![a] = @ \cup inbox'[a]]
  /\ UNCHANGED <<decided, model, keeper, replies>>

(* A command takes effect at a, as the service has it.                      *)
Decides(a) ==
  /\ a \in up
  /\ \E cmd \in {c \in inbox[a] : decided[a][c] = None}, outcome \in Verdicts :
       /\ decided' = [decided EXCEPT ![a][cmd] = outcome]
       /\ \E m \in {model[a], cmd}, k \in {keeper[a], cmd} :
            /\ model' = [model EXCEPT ![a] = m]
            /\ keeper' = [keeper EXCEPT ![a] = k]
       /\ UNCHANGED <<accepted, replies>>
       /\ \/ Service(a)!Busy(cmd)
          \/ cmd \in LoadCommands /\ Service(a)!Load(cmd)
          \/ cmd \in GenerateCommands /\ Service(a)!Generate(cmd)
  /\ UNCHANGED vars

(* The load that keeps the model lets go of it.                             *)
LetsGo(a) ==
  /\ a \in up
  /\ keeper' = [keeper EXCEPT ![a] = None]
  /\ UNCHANGED <<vars, accepted, decided, model, replies>>
  /\ Service(a)!LetsGo

Replies(a) ==
  /\ a \in up
  /\ \E cmd \in inbox[a] :
       /\ decided[a][cmd] # None
       /\ inbox' = [inbox EXCEPT ![a] = @ \ {cmd}]
       /\ outbox' = [outbox EXCEPT ![a] =
            Append(@, AnswerTo(cmd, IF decided[a][cmd] = "Ok" THEN "ok" ELSE "error"))]
       /\ replies' = [replies EXCEPT ![a] =
            Append(@, [cmd |-> cmd, outcome |-> decided[a][cmd]])]
  /\ UNCHANGED <<busVars, workers, watcher, callVars, sock, up>>
  /\ UNCHANGED <<accepted, decided, model, keeper>>

MasterStep ==
  \/ \E a \in Addrs : Connect(a) \/ SocketReads(a)
  \/ \E r \in Requests : GenerateStart(r) \/ CallStep(r) \/ ClientHangsUp(r)
  \/ WatcherStep

ClusterNext ==
  \/ MasterStep /\ UNCHANGED serviceVars
  \/ \E a \in Addrs : Delivers(a) \/ Decides(a) \/ LetsGo(a) \/ Replies(a)

ClusterSpec == ClusterInit /\ [][ClusterNext]_clusterVars

-------------------------------------------------------------------------------
(* The command by which the watcher had the model of a loaded.              *)
LoadOf(a) == {cmd \in LoadCommands : decided[a][cmd] # None}

(* A load is never refused: it finds neither the model busy nor loaded, for *)
(* each worker gets one, before anything else.  And a prompt meets a worker *)
(* without a model only if the load was tried and failed, which load_model  *)
(* reports and run_workers_watcher ignores (worker_gateway.rs:220).         *)
RefusedForAReason ==
  \A a \in Addrs :
    /\ \A cmd \in LoadOf(a) : decided[a][cmd] \in {"Ok", "LoadingError"}
    /\ \A cmd \in GenerateCommands :
         decided[a][cmd] = "ModelNotLoaded" =>
           \E load \in LoadOf(a) : decided[a][load] = "LoadingError"

(* What a prompt can be told busy for: another one that is at the worker    *)
(* and has met nothing yet, or the load, which keeps the model for a moment *)
(* after its answer is out (handle_load, worker/src/handler/mod.rs:122).    *)
Occupied(a, cmd) ==
  \/ \E other \in inbox[a] \cap GenerateCommands :
       other # cmd /\ decided[a][other] = None
  \/ \E k \in DOMAIN replies[a] : replies[a][k].cmd = keeper[a]

(* No command is told ModelBusy without such a reason at that moment; in     *)
(* particular the load of a worker is not, and does not make a prompt busy  *)
(* before the master could know that it is over.                            *)
BusyForAReason ==
  [][\A a \in Addrs, cmd \in Commands :
       decided[a][cmd] # "ModelBusy" /\ decided'[a][cmd] = "ModelBusy" =>
         cmd \in GenerateCommands /\ Occupied(a, cmd)]_clusterVars
===============================================================================
