------------------------------ MODULE Connection -------------------------------
(***************************************************************************)
(* The two ends of one connection (rlpg/src/tcp.rs): run_on_socket in the   *)
(* master and run_on_socket in the worker, with the bytes between them.     *)
(*                                                                          *)
(* A task is at its select!, where it reads one byte, takes one event from  *)
(* its bus, or sees the cancellation; or it is inside write_all, where it   *)
(* does nothing but write until the frame is out.  The kernel holds Window  *)
(* bytes in each direction.  Events for other sockets change nothing and    *)
(* are left out; how the bus delivers is the subject of BusDelivery.        *)
(***************************************************************************)
EXTENDS RLPGDecoder

CONSTANTS
  Headers,     \* STARTING_PAYLOAD in the versions of rlpg that are deployed
  Bodies,      \* Bodies[s]: what the program of s sends, one after the other
  Window,      \* bytes that one direction holds
  Cancellable, \* the sides whose program cancels the token
  Leaving,     \* the sides whose program may publish DisconnectTheClient
  Mortal       \* the sides whose process may end

Side == {"master", "worker"}
Peer(s) == CHOOSE t \in Side : t # s

ASSUME ConnectionAssumption ==
  /\ \A h \in Headers : h \in Seq(Byte) /\ h # <<>>
  /\ \A g, h \in Headers : IsPrefix(g, h) => g = h  \* each ends with a newline
  /\ \A s \in Side : Bodies[s] \in Seq({body \in Seq(Byte) : Len(body) <= UsizeMax})
  /\ Window \in Nat \ {0}
  /\ Cancellable \cup Leaving \cup Mortal \subseteq Side

VARIABLES
  header,      \* header[s]: the version of s
  taken,       \* taken[s]: how many packets the task of s has begun to write
  output,      \* output[s]: what write_all has left to write, if it runs
  stream,      \* stream[s]: bytes written by s and not read by its peer
  parser,      \* parser[s]: the RLPGParser of the task of s
  received,    \* received[s]: the bodies of NewPacketReceived at s
  end,         \* end[s]: how the task of s ended, "none" while it runs
  cancelled,   \* the sides whose token is cancelled
  asked        \* the sides whose bus holds a DisconnectTheClient

vars == <<header, taken, output, stream, parser, received, end, cancelled, asked>>

Announced == {"readError", "disconnected", "invalidByte"}
Silent    == {"cancelled", "killed", "writeFailed"}

TypeOK ==
  /\ header \in [Side -> Headers]
  /\ taken \in [Side -> Nat]
  /\ output \in [Side -> Seq(Byte)]
  /\ stream \in [Side -> Seq(Byte)] /\ \A s \in Side : Len(stream[s]) <= Window
  /\ \A s \in Side : parser[s].out = "None"
  /\ received \in [Side -> Seq(Seq(Byte))]
  /\ end \in [Side -> Announced \cup Silent \cup {"none"}]
  /\ cancelled \subseteq Side /\ asked \subseteq Side

Init ==
  /\ header \in [Side -> Headers]
  /\ taken = [s \in Side |-> 0]
  /\ output = [s \in Side |-> <<>>]
  /\ stream = [s \in Side |-> <<>>]
  /\ parser = [s \in Side |-> NewParser]
  /\ received = [s \in Side |-> <<>>]
  /\ end = [s \in Side |-> "none"]
  /\ cancelled = {} /\ asked = {}

Running(s)   == end[s] = "none"
Writing(s)   == Running(s) /\ output[s] # <<>>
Selecting(s) == Running(s) /\ output[s] = <<>>

(* format!("RLPG/{VERSION}\n{content_length}\n\n"), then the content.       *)
Numeral[n \in Nat] ==
  IF n < Radix THEN <<n>> ELSE Append(Numeral[n \div Radix], n % Radix)
Frame(h, body) == h \o Numeral[Len(body)] \o <<LF, LF>> \o body

-------------------------------------------------------------------------------
(***************************************************************************)
(* The end of a task drops its TcpStream.  The peer can still read what was *)
(* written, unless the socket is reset, which happens when the kernel held  *)
(* bytes nobody will read: then only a prefix arrives.                      *)
(***************************************************************************)
Close(s, how, unread) ==
  /\ end' = [end EXCEPT ![s] = how]
  /\ output' = [output EXCEPT ![s] = <<>>]
  /\ \E rest \in IF unread = <<>> THEN {stream[s]} ELSE Prefixes(stream[s]) :
       stream' = [stream EXCEPT ![s] = rest, ![Peer(s)] = <<>>]

(* The select! and its branches.                                            *)
Arrives(s) == stream[Peer(s)] # <<>>

(* Mutant: the token is looked at when a byte has been read.                *)
CancelTaskAtByte(s) ==
  /\ Selecting(s) /\ s \in cancelled /\ Arrives(s)
  /\ Close(s, "cancelled", stream[Peer(s)])
  /\ UNCHANGED <<header, taken, parser, received, cancelled, asked>>

CancelTask(s) ==
  /\ Selecting(s) /\ s \in cancelled
  /\ Close(s, "cancelled", stream[Peer(s)])
  /\ UNCHANGED <<header, taken, parser, received, cancelled, asked>>

Disconnects(s) ==
  /\ Selecting(s) /\ s \in asked
  /\ Close(s, "disconnected", stream[Peer(s)])
  /\ UNCHANGED <<header, taken, parser, received, cancelled, asked>>

(* Mutant: a packet is taken while another one is being written.            *)
TakesWhileWriting(s) ==
  /\ Running(s) /\ taken[s] < Len(Bodies[s])
  /\ taken' = [taken EXCEPT ![s] = @ + 1]
  /\ output' = [output EXCEPT ![s] = Frame(header[s], Bodies[s][taken[s] + 1])]
  /\ UNCHANGED <<header, stream, parser, received, end, cancelled, asked>>

Takes(s) ==
  /\ Selecting(s) /\ taken[s] < Len(Bodies[s])
  /\ taken' = [taken EXCEPT ![s] = @ + 1]
  /\ output' = [output EXCEPT ![s] = Frame(header[s], Bodies[s][taken[s] + 1])]
  /\ UNCHANGED <<header, stream, parser, received, end, cancelled, asked>>

(* What read_u8 waits for: a byte, or the end of the stream.  Mutant: an    *)
(* end inside a frame is no end.                                            *)
ReadableBetweenFrames(s) ==
  Selecting(s) /\ (Arrives(s) \/ (~Running(Peer(s)) /\ parser[s].buffer = <<>>))
Readable(s) == Selecting(s) /\ (Arrives(s) \/ ~Running(Peer(s)))

Parsed(s) == Parse(header[s], AddToBuffer(parser[s], <<Head(stream[Peer(s)])>>))

(* read_u8 yields a byte, and parse a packet or nothing yet.  Mutant: the   *)
(* parser of one packet is used for the next one.                           *)
PublishesKeepsParser(s, p) ==
  /\ received' = [received EXCEPT ![s] = Append(@, p.body)]
  /\ parser' = [parser EXCEPT ![s] = [p EXCEPT !.out = "None"]]
Publishes(s, p) ==
  /\ received' = [received EXCEPT ![s] = Append(@, p.body)]
  /\ parser' = [parser EXCEPT ![s] = NewParser]

Continues(s, p) ==
  /\ parser' = [parser EXCEPT ![s] = p]
  /\ UNCHANGED received

(* Mutant: errors of parse are passed over.                                 *)
ReadByteLenient(s) ==
  /\ Readable(s) /\ Arrives(s)
  /\ LET p == Parsed(s)
     IN  IF p.out = "Some" THEN Publishes(s, p) ELSE Continues(s, p)
  /\ stream' = [stream EXCEPT ![Peer(s)] = Tail(@)]
  /\ UNCHANGED <<header, taken, output, end, cancelled, asked>>

ReadByte(s) ==
  /\ Readable(s) /\ Arrives(s)
  /\ LET p == Parsed(s)
     IN  \/ p.out = "Some" /\ Publishes(s, p)
         \/ p.out = "None" /\ Continues(s, p)
  /\ stream' = [stream EXCEPT ![Peer(s)] = Tail(@)]
  /\ UNCHANGED <<header, taken, output, end, cancelled, asked>>

ReadInvalidByte(s) ==
  /\ Readable(s) /\ Arrives(s) /\ Parsed(s).out = "Err"
  /\ Close(s, "invalidByte", Tail(stream[Peer(s)]))
  /\ UNCHANGED <<header, taken, parser, received, cancelled, asked>>

(* read_u8 finds the end of the stream, or the reset.                       *)
ReadFails(s) ==
  /\ Readable(s) /\ ~Arrives(s)
  /\ Close(s, "readError", stream[Peer(s)])
  /\ UNCHANGED <<header, taken, parser, received, cancelled, asked>>

(* write_all.  A socket whose peer is gone takes bytes until it hears so by *)
(* a reset, which also cuts what was to be read from it; then writes fail.  *)
WriteByte(s) ==
  /\ Writing(s) /\ Running(Peer(s)) /\ Len(stream[s]) < Window
  /\ output' = [output EXCEPT ![s] = Tail(@)]
  /\ stream' = [stream EXCEPT ![s] = Append(@, Head(output[s]))]
  /\ UNCHANGED <<header, taken, parser, received, end, cancelled, asked>>

WriteDiscarded(s) ==
  /\ Writing(s) /\ ~Running(Peer(s))
  /\ output' = [output EXCEPT ![s] = Tail(@)]
  /\ \E rest \in Prefixes(stream[Peer(s)]) : stream' = [stream EXCEPT ![Peer(s)] = rest]
  /\ UNCHANGED <<header, taken, parser, received, end, cancelled, asked>>

WriteFails(s) ==
  /\ Writing(s) /\ ~Running(Peer(s))
  /\ Close(s, "writeFailed", stream[Peer(s)])
  /\ UNCHANGED <<header, taken, parser, received, cancelled, asked>>

(* The programs around the tasks.                                           *)
Cancel(s) ==
  /\ s \in Cancellable \ cancelled
  /\ cancelled' = cancelled \cup {s}
  /\ UNCHANGED <<header, taken, output, stream, parser, received, end, asked>>

Ask(s) ==
  /\ s \in Leaving \ asked
  /\ asked' = asked \cup {s}
  /\ UNCHANGED <<header, taken, output, stream, parser, received, end, cancelled>>

Dies(s) ==
  /\ s \in Mortal /\ Running(s)
  /\ Close(s, "killed", stream[Peer(s)])
  /\ UNCHANGED <<header, taken, parser, received, cancelled, asked>>

Reads(s)  == ReadByte(s) \/ ReadInvalidByte(s) \/ ReadFails(s)
Writes(s) == WriteByte(s) \/ WriteDiscarded(s) \/ WriteFails(s)

Next ==
  \E s \in Side :
    \/ CancelTask(s) \/ Disconnects(s) \/ Takes(s)
    \/ ReadByte(s) \/ ReadInvalidByte(s) \/ ReadFails(s)
    \/ WriteByte(s) \/ WriteDiscarded(s) \/ WriteFails(s)
    \/ Cancel(s) \/ Ask(s) \/ Dies(s)

(* The runtime polls every task that can go on, and the kernel carries      *)
(* bytes and the end of a stream.  Nothing makes a program send, cancel,    *)
(* ask or end.  The select! picks among its branches at random, so that no  *)
(* branch that stays ready is passed over forever.  The first conjunct is   *)
(* WF_vars(Reads(s)), with Readable(s) for ENABLED <<Reads(s)>>_vars.       *)
Fairness ==
  \A s \in Side :
    /\ []<>~Readable(s) \/ []<><<Reads(s)>>_vars
    /\ WF_vars(Writes(s)) /\ WF_vars(CancelTask(s)) /\ WF_vars(Disconnects(s))

Spec == Init /\ [][Next]_vars /\ Fairness

-------------------------------------------------------------------------------
(* Seen from the two buses the tasks implement PacketLink: whole packets in *)
(* order, ends announced for a reason, silent ends only as they must be     *)
(* (run_on_socket with its parser and the framing of                        *)
(* send_new_packet_on_event).                                               *)
Link == INSTANCE PacketLink WITH
  Body       <- UNION {ToSet(Bodies[s]) : s \in Side},
  sent       <- [s \in Side |-> SubSeq(Bodies[s], 1, taken[s])],
  link       <- [s \in Side |-> CASE end[s] = "none" -> "open"
                                  [] end[s] \in Announced -> "announced"
                                  [] end[s] = "writeFailed" -> "failed"
                                  [] OTHER -> "stopped"],
  compatible <- header["master"] = header["worker"]

LinkSpec == Link!Spec

(* Both tasks are inside write_all, and neither reads what the other one    *)
(* waits to be rid of.                                                      *)
Gridlock == \A s \in Side : Writing(s) /\ Len(stream[s]) = Window

(* A packet that was taken from the bus reaches the other bus, unless one   *)
(* of the ends is gone or both wait for each other (tcp.rs:86).             *)
PacketsArrive ==
  \A s \in Side : \A n \in 1..Len(Bodies[s]) :
    taken[s] = n ~>
      \/ Len(received[Peer(s)]) >= n
      \/ ~Running(s) \/ ~Running(Peer(s)) \/ Gridlock

(* No end outlives the other one for good, however it ended and whatever it *)
(* had left to write: the task of the socket that is left ends too          *)
(* (tcp.rs:109, tcp.rs:124).                                                *)
EndsSpread == \A s \in Side : ~Running(s) ~> ~Running(Peer(s))

(* A cancelled task ends, unless it is stuck with its peer in write_all,    *)
(* where the token is not looked at (tcp.rs:105).                           *)
CancelEnds == \A s \in Side : s \in cancelled ~> ~Running(s) \/ Gridlock
===============================================================================
