----------------------------- MODULE WorkerService -----------------------------
(***************************************************************************)
(* What a worker promises its master, whatever goes on inside of it: every  *)
(* command takes effect at one instant, between its arrival and its answer, *)
(* and is answered at most once with what it met at that instant.  Nothing  *)
(* is promised about when, or whether, a command is answered.               *)
(*                                                                          *)
(* WorkerRefinement shows that the pipeline of WorkerHandler implements it. *)
(***************************************************************************)
EXTENDS Sequences

CONSTANTS
  Loads,       \* LoadCommands
  Generates,   \* GenerateCommands
  None         \* no command, no outcome

VARIABLES
  accepted,    \* the commands that have arrived
  decided,     \* decided[c]: the outcome of c once it took effect, or None
  model,       \* the LoadCommand that loaded the model, or None
  keeper,      \* the LoadCommand that took effect and keeps the model, or None
  replies      \* the answers given, oldest first

vars == <<accepted, decided, model, keeper, replies>>

Init ==
  /\ accepted = {}
  /\ decided = [c \in Loads \cup Generates |-> None]
  /\ model = None /\ keeper = None
  /\ replies = <<>>

Accept(c) ==
  /\ c \notin accepted
  /\ accepted' = accepted \cup {c}
  /\ UNCHANGED <<decided, model, keeper, replies>>

Replied(c) == \E i \in DOMAIN replies : replies[i].cmd = c

Decides(c, outcome) ==
  /\ c \in accepted /\ decided[c] = None
  /\ decided' = [decided EXCEPT ![c] = outcome]
  /\ UNCHANGED <<accepted, replies>>

(* The model is being used for another command, or a load keeps it, whose   *)
(* answer may have been given long ago.                                     *)
Busy(c) ==
  /\ keeper # None \/ \E d \in accepted \ {c} : decided[d] = None
  /\ Decides(c, "ModelBusy")
  /\ UNCHANGED <<model, keeper>>

(* The first LoadCommand that succeeds loads the model, no other ever does. *)
(* Successful or not, it keeps the model for a while.                       *)
Load(c) ==
  /\ keeper = None
  /\ \/ model = None /\ Decides(c, "Ok") /\ model' = c
     \/ model = None /\ Decides(c, "LoadingError") /\ UNCHANGED model
     \/ model # None /\ Decides(c, "ModelAlreadyLoaded") /\ UNCHANGED model
  /\ keeper' = c

LetsGo ==
  /\ keeper # None
  /\ keeper' = None
  /\ UNCHANGED <<accepted, decided, model, replies>>

Generate(c) ==
  /\ keeper = None
  /\ \/ model = None /\ Decides(c, "ModelNotLoaded")
     \/ model # None /\ Decides(c, "Ok")
     \/ model # None /\ Decides(c, "GenerationError")
  /\ UNCHANGED <<model, keeper>>

Reply(c) ==
  /\ decided[c] # None /\ ~Replied(c)
  /\ replies' = Append(replies, [cmd |-> c, outcome |-> decided[c]])
  /\ UNCHANGED <<accepted, decided, model, keeper>>

Next ==
  \/ \E c \in Loads \cup Generates : Accept(c) \/ Busy(c) \/ Reply(c)
  \/ \E c \in Loads : Load(c)
  \/ \E c \in Generates : Generate(c)
  \/ LetsGo

Spec == Init /\ [][Next]_vars
===============================================================================
