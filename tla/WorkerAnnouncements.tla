-------------------------- MODULE WorkerAnnouncements --------------------------
(***************************************************************************)
(* WorkerGateway with a history variable: the workers of which the watcher  *)
(* has missed an announcement, because it had no receiver in place, or gave *)
(* up the one that the announcement was waiting for, or was so slow that    *)
(* the bus overwrote it.  For all others the set of registered workers has  *)
(* to be right.                                                             *)
(***************************************************************************)
EXTENDS WorkerGateway

VARIABLE missed  \* workers with an announcement that nobody has acted on

Announcements == {i \in DOMAIN log : log[i].type \in {"ClientConnected", "ClientDisconnected"}}

Awaiter(i) == IF log[i].type = "ClientConnected" THEN ConnRx ELSE DiscRx

(* The announcements that the watcher is going to see, as things stand.     *)
Coming ==
  {i \in Announcements : Bus!Attached(Awaiter(i)) /\ i \in Bus!Pending(Awaiter(i))}

(* The step is the one of select! that acts on announcement i: both         *)
(* receivers are dropped at once, and a connect starts a load.              *)
Taken(i) ==
  /\ i \in Coming /\ Bus!IsNext(Awaiter(i), i, DOMAIN log)
  /\ cursor'[Awaiter(i)] = Bus!Detached
  /\ log[i].type = "ClientConnected" <=> watcher'.pc = "load"

(* The announcements that this step loses.                                  *)
Lost ==
  {i \in (Coming \cup (Announcements' \ Announcements)) \ Coming' : ~Taken(i)}

HistoryInit == Init /\ missed = {}

HistoryNext == Next /\ missed' = missed \cup {log'[i].addr : i \in Lost}

HistorySpec == HistoryInit /\ [][HistoryNext]_<<vars, missed>>

-------------------------------------------------------------------------------
(* run_workers_watcher keeps the set of workers right: when it is at its    *)
(* select! and no announcement is waiting for it, a worker is registered if *)
(* and only if it was announced and not taken back, whether its model could *)
(* be loaded or not.  Excepted are the workers of which it missed an        *)
(* announcement.                                                            *)
RegisteredIsAnnounced ==
  watcher.pc = "select" /\ Coming = {} =>
    \A a \in Addrs \ missed :
      a \in workers <=> /\ OfType("ClientConnected", a) # {}
                        /\ OfType("ClientDisconnected", a) = {}
===============================================================================
