------------------------------ MODULE RLPGParser -------------------------------
(***************************************************************************)
(* The decoder of RLPG frames in its two ways of use: run_on_socket         *)
(* (tcp.rs) adds one byte, parses, and replaces the parser after each       *)
(* frame; the crate's tests add batches until the first frame.  It is       *)
(* compared with the grammar of frames.                                     *)
(***************************************************************************)
EXTENDS RLPGDecoder

CONSTANTS
  Header,      \* the version
  MaxBytes,    \* bound: bytes that arrive
  MaxBatch,    \* bound: bytes in a batch
  MaxPackets   \* bound: packets on one connection

ASSUME ParserAssumption ==
  /\ Header \in Seq(Byte) /\ Header # <<>>
  /\ {MaxBytes, MaxBatch, MaxPackets} \subseteq Nat

VARIABLES
  usage,       \* who drives the parser: "socket" or "library"
  parser,      \* the RLPGParser; its field out is what parse has returned
  fed,         \* the bytes added to this parser so far
  packets,     \* the bodies published by run_on_socket
  frames       \* frames[i]: the bytes that were read for packets[i]

vars == <<usage, parser, fed, packets, frames>>

TypeOK ==
  /\ usage \in {"socket", "library"}
  /\ parser.state \in {"HeaderStart", "ContentLength", "Newline", "Body"}
  /\ parser.buffer \in Seq(Byte)
  /\ parser.current_index \in Nat
  /\ parser.body_length \in 0..UsizeMax
  /\ parser.content \in Seq(Digits)
  /\ parser.occured_times \in 0..2
  /\ parser.out \in {"None", "Some", "Err"}
  /\ fed \in Seq(Byte)

Init ==
  /\ usage \in {"socket", "library"}
  /\ parser = NewParser /\ fed = <<>>
  /\ packets = <<>> /\ frames = <<>>

-------------------------------------------------------------------------------
(* run_on_socket: the parser is replaced after each packet, and the         *)
(* connection is closed after an error.                                     *)
ReadByte(b) ==
  /\ usage = "socket"
  /\ parser.out = "None" /\ Len(fed) < MaxBytes /\ Len(packets) < MaxPackets
  /\ LET p == Parse(Header, AddToBuffer(parser, <<b>>))
     IN  IF p.out = "Some"
           THEN /\ packets' = Append(packets, p.body)
                /\ frames' = Append(frames, Append(fed, b))
                /\ parser' = NewParser /\ fed' = <<>>
           ELSE /\ parser' = p /\ fed' = Append(fed, b)
                /\ UNCHANGED <<packets, frames>>
  /\ UNCHANGED usage

(* The library on its own: add_to_buffer, then parse, up to a first result. *)
ReadBatch(bytes) ==
  /\ usage = "library"
  /\ parser.out = "None" /\ Len(fed) + Len(bytes) <= MaxBytes
  /\ parser' = Parse(Header, AddToBuffer(parser, bytes))
  /\ fed' = fed \o bytes
  /\ UNCHANGED <<usage, packets, frames>>

Next ==
  \/ \E b \in Byte : ReadByte(b)
  \/ \E n \in 0..MaxBatch : \E bytes \in [1..n -> Byte] : ReadBatch(bytes)

Spec == Init /\ [][Next]_vars

-------------------------------------------------------------------------------
(***************************************************************************)
(* The grammar of frames, to compare the parser with: where the length of s *)
(* ends, and what has to follow.                                            *)
(***************************************************************************)
IsDigits(s) == \A i \in DOMAIN s : s[i] \in Digits

Suffix(s, n) == SubSeq(s, n + 1, Len(s))

(* s is a header, a numeral, two newlines and more.                         *)
Splits(s, numeral, rest) ==
  s = Header \o numeral \o <<LF, LF>> \o rest

(* The splits of s, as pairs.                                               *)
SplitsOf(s) ==
  {split \in {<<SubSeq(s, Len(Header) + 1, k), Suffix(s, k + 2)>> : k \in Len(Header)..Len(s)} :
     IsDigits(split[1]) /\ Parses(split[1]) /\ Splits(s, split[1], split[2])}

IsFrame(s, body) ==
  \E split \in SplitsOf(s) : split[2] = body /\ Len(body) = Value(split[1])

(* s can be extended to a frame.                                            *)
Viable(s) ==
  \/ IsPrefix(s, Header)
  \/ /\ IsPrefix(Header, s)
     /\ LET t == Suffix(s, Len(Header))
            n == IF t[Len(t)] = LF THEN Len(t) - 1 ELSE Len(t)
        IN  /\ t # <<>> /\ IsDigits(SubSeq(t, 1, n)) /\ Value(SubSeq(t, 1, n)) <= UsizeMax
            /\ n < Len(t) => n > 0
  \/ \E split \in SplitsOf(s) : Len(split[2]) <= Value(split[1])

(* The length is over UsizeMax, and not ended yet.                          *)
TooLong(s) ==
  /\ IsPrefix(Header, s)
  /\ IsDigits(Suffix(s, Len(Header))) /\ Value(Suffix(s, Len(Header))) > UsizeMax

(* run_on_socket publishes the body of every frame of the stream and        *)
(* nothing else: what it read for each packet is one frame with that body.  *)
PacketsAreFrames == \A i \in DOMAIN packets : IsFrame(frames[i], packets[i])

(* Between packets the parser has neither passed over the end of a frame,   *)
(* nor gone on with what no frame starts with; it closes the connection     *)
(* only for bytes that no frame starts with.                                *)
GrammarDecides ==
  /\ parser.out # "Some" =>
       \A n \in 0..Len(fed) : ~ \E split \in SplitsOf(SubSeq(fed, 1, n)) :
         Len(split[2]) = Value(split[1])
  /\ parser.out = "None" => Viable(fed) \/ TooLong(fed)
  /\ parser.out = "Err" => \E n \in 0..Len(fed) : ~Viable(SubSeq(fed, 1, n))

(* However the bytes are cut into batches, parse returns the body of the    *)
(* first frame, and the buffer holds exactly the bytes after it.            *)
FirstFrameAndRest ==
  parser.out = "Some" =>
    /\ Len(parser.buffer) <= Len(fed)
    /\ LET n == Len(fed) - Len(parser.buffer)
       IN  /\ IsFrame(SubSeq(fed, 1, n), parser.body)
           /\ parser.buffer = Suffix(fed, n)
===============================================================================
