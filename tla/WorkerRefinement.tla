--------------------------- MODULE WorkerRefinement ----------------------------
(***************************************************************************)
(* WorkerHandler implements WorkerService.  A command is accepted when its  *)
(* frame was read from the socket, takes effect when its task concludes     *)
(* (FindsBusy, FinishLoad or FinishGenerate), and is answered when its     *)
(* answer is written to the socket.  A load keeps the model until its task  *)
(* returns.  Every other step of the pipeline is a stutter.                 *)
(***************************************************************************)
EXTENDS WorkerHandler

Accepted == {c \in Loads \cup Generates : Arrivals(c) # {}}

Decided ==
  [c \in Loads \cup Generates |->
     IF Concluded(c) THEN answer[c] ELSE None]

Keeper == IF holder # None /\ Concluded(holder) THEN holder ELSE None

Service == INSTANCE WorkerService
  WITH accepted <- Accepted, decided <- Decided, keeper <- Keeper, replies <- wire

(* The worker is that service: seen from its socket, loads and generations  *)
(* are atomic, the model is loaded once, no command is answered twice, and  *)
(* ModelBusy is told only while another command has not taken effect, or a  *)
(* load that has still keeps the model.                                     *)
ServiceSpec == Service!Spec
===============================================================================
