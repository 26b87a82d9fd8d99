------------------------------ MODULE PacketLink -------------------------------
(***************************************************************************)
(* What rlpg promises to the two programs at the ends of a connection, seen *)
(* from their event buses: packets arrive whole, in order, each at most     *)
(* once and none that was not sent.  An end is announced to its program     *)
(* (ClientDisconnected) only if the program asked for it, if the other end  *)
(* is gone, or if the two ends do not speak the same version.  Without an   *)
(* announcement a connection ends because its own program stops, or for a   *)
(* packet that the other end has not received and, being gone, never will.  *)
(***************************************************************************)
EXTENDS Sequences, Naturals

CONSTANTS Side, Peer(_), Body

VARIABLES
  sent,        \* sent[s]: the packets s has started to send
  received,    \* received[s]: the packets s was handed
  link,        \* link[s]: "open", "announced", "stopped" or "failed"
  asked,       \* the ends whose program wants to disconnect
  compatible   \* both ends speak the same version

vars == <<sent, received, link, asked, compatible>>

Init ==
  /\ sent = [s \in Side |-> <<>>]
  /\ received = [s \in Side |-> <<>>]
  /\ link = [s \in Side |-> "open"]
  /\ asked = {}
  /\ compatible \in BOOLEAN

Undelivered(s) == Len(received[Peer(s)]) < Len(sent[s])

Send(s, body) ==
  /\ link[s] = "open"
  /\ sent' = [sent EXCEPT ![s] = Append(@, body)]
  /\ UNCHANGED <<received, link, asked, compatible>>

Receive(s) ==
  /\ link[s] = "open" /\ compatible /\ Undelivered(Peer(s))
  /\ received' = [received EXCEPT ![s] = Append(@, sent[Peer(s)][Len(@) + 1])]
  /\ UNCHANGED <<sent, link, asked, compatible>>

Ask(s) ==
  /\ asked' = asked \cup {s}
  /\ UNCHANGED <<sent, received, link, compatible>>

Ends(s, how) ==
  /\ link[s] = "open"
  /\ link' = [link EXCEPT ![s] = how]
  /\ UNCHANGED <<sent, received, asked, compatible>>

Announce(s) ==
  /\ s \in asked \/ link[Peer(s)] # "open" \/ ~compatible
  /\ Ends(s, "announced")

Stop(s) == Ends(s, "stopped")

Fail(s) ==
  /\ link[Peer(s)] # "open" /\ Undelivered(s)
  /\ Ends(s, "failed")

Next ==
  \E s \in Side :
    \/ \E body \in Body : Send(s, body)
    \/ Receive(s) \/ Ask(s) \/ Announce(s) \/ Stop(s) \/ Fail(s)

Spec == Init /\ [][Next]_vars
===============================================================================
