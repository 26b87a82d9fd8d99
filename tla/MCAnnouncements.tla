---------------------------- MODULE MCAnnouncements ----------------------------
(***************************************************************************)
(* The instance of WorkerAnnouncements for TLC.  The history variable adds  *)
(* no behaviour, so WorkerGateway is checked along with it.                 *)
(*                                                                          *)
(* The whole life of two workers is too large for TLC under fairness.  The  *)
(* instance begins, in a state that HistoryNext reaches, when one healthy   *)
(* worker is loaded and registered, and shows all that can happen from then *)
(* on: the other workers come, are loaded and go, and requests are served.  *)
(***************************************************************************)
EXTENDS WorkerAnnouncements

OneRegistered(a, load) ==
  /\ log = <<Connected(a), Send(a, load), Received(a, AnswerTo(load, "ok"))>>
  /\ cursor = [r \in Receivers |-> IF r = SockRx(a) THEN 2 ELSE Bus!Detached]
  /\ workers = {a}
  /\ watcher = [pc |-> "select", addr |-> None]
  /\ pc = [c \in Calls |-> "idle"]
  /\ reqId = [c \in Calls |-> IF c = Loader THEN load.id ELSE None]
  /\ target = [c \in Calls |-> IF c = Loader THEN a ELSE None]
  /\ result = [c \in Calls |-> IF c = Loader THEN Ok(AnswerTo(load, "ok")) ELSE Nothing]
  /\ sock = [b \in Addrs |-> IF b = a THEN "open" ELSE "absent"]
  /\ up = {a}
  /\ inbox = [b \in Addrs |-> {}]
  /\ outbox = [b \in Addrs |-> <<>>]
  /\ missed = {}

OneRegisteredSpec ==
  /\ \E a \in Addrs, id \in Ids :
       OneRegistered(a, [kind |-> "Load", id |-> id, prompt |-> Loader])
  /\ [][HistoryNext]_<<vars, missed>>
  /\ Fairness
===============================================================================
