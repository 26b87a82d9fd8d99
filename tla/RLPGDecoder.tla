------------------------------ MODULE RLPGDecoder ------------------------------
(***************************************************************************)
(* RLPGParser (rlpg/src/lib.rs), the incremental decoder of RLPG frames     *)
(*                                                                          *)
(*    RLPG/<version> LF  <decimal length> LF LF  <length bytes>             *)
(*                                                                          *)
(* as operators on a parser's state: RLPGParser drives one parser over all  *)
(* inputs, Connection has one in each of two socket tasks.  A version h is  *)
(* its STARTING_PAYLOAD, a sequence of bytes.                               *)
(*                                                                          *)
(* Bytes are numbers.  A digit byte is its own value, in base Radix.        *)
(***************************************************************************)
EXTENDS Integers, SequencesExt

CONSTANTS
  Radix,       \* 10 in the code
  LF,          \* the newline byte
  Byte,        \* every byte that may arrive
  UsizeMax     \* usize::MAX

Digits == 0..(Radix - 1)

ASSUME DecoderAssumption ==
  /\ Radix \in Nat \ {0, 1} /\ UsizeMax \in Nat
  /\ Byte \subseteq Nat /\ Digits \subseteq Byte
  /\ LF \in Byte \ Digits

(* The payloads of the variants of RLPGParserState are fields of their own: *)
(* content, occured_times, and the body that is returned.                   *)
NewParser ==
  [state |-> "HeaderStart", buffer |-> <<>>, current_index |-> 0, body_length |-> 0,
   content |-> <<>>, occured_times |-> 0, body |-> <<>>, out |-> "None"]

AddToBuffer(p, bytes) == [p EXCEPT !.buffer = @ \o bytes]

Err(p) == [p EXCEPT !.out = "Err"]

(* String::parse::<usize>                                                   *)
Value(ds) ==
  LET v[n \in 0..Len(ds)] == IF n = 0 THEN 0 ELSE Radix * v[n - 1] + ds[n]
  IN  v[Len(ds)]
ParsesAny(ds) == ds # <<>> \* mutant: the value may exceed usize
Parses(ds) == ds # <<>> /\ Value(ds) <= UsizeMax

(* The positions of the buffer after current_index, up to n.                *)
Ahead(p, n) == (p.current_index + 1)..n

-------------------------------------------------------------------------------
ParseHeaderStart(h, p) ==
  LET n == Min({Len(p.buffer), Len(h)})
  IN  IF \E i \in Ahead(p, n) : p.buffer[i] # h[i]
        THEN Err(p)
        ELSE [p EXCEPT !.current_index = n,
                       !.state = IF n = Len(h) THEN "ContentLength" ELSE @]

(* Digits are collected up to the first byte that is none.  A newline there *)
(* is left for the next state.                                              *)
ParseContentLengthInHeader(p) ==
  LET stops == {i \in Ahead(p, Len(p.buffer)) : p.buffer[i] \notin Digits}
      stop  == Min(stops \cup {Len(p.buffer) + 1})
      ds    == p.content \o SubSeq(p.buffer, p.current_index + 1, stop - 1)
      q     == [p EXCEPT !.content = ds, !.current_index = stop - 1]
  IN  IF stops = {} THEN q
      ELSE IF p.buffer[stop] = LF /\ Parses(ds)
        THEN [q EXCEPT !.body_length = Value(ds), !.state = "Newline"]
        ELSE Err(q)

(* Mutant: the newline behind the length is taken for the empty line.       *)
ParseOneNewline(p) ==
  LET n == Min({1 - p.occured_times, Len(p.buffer) - p.current_index})
  IN  IF \E i \in Ahead(p, p.current_index + n) : p.buffer[i] # LF
        THEN Err(p)
        ELSE [p EXCEPT !.current_index = @ + n, !.occured_times = @ + n,
                       !.state = IF p.occured_times + n = 1 THEN "Body" ELSE @]

ParseNewlineBetweenHeaderAndBody(p) ==
  LET n == Min({2 - p.occured_times, Len(p.buffer) - p.current_index})
  IN  IF \E i \in Ahead(p, p.current_index + n) : p.buffer[i] # LF
        THEN Err(p)
        ELSE [p EXCEPT !.current_index = @ + n, !.occured_times = @ + n,
                       !.state = IF p.occured_times + n = 2 THEN "Body" ELSE @]

(* Mutants: one byte more is awaited; the buffer is cut at the wrong place. *)
ParseBodyLate(p) ==
  LET end == p.current_index + p.body_length
  IN  IF Len(p.buffer) - p.current_index > p.body_length
        THEN [p EXCEPT !.body = SubSeq(p.buffer, p.current_index + 1, end),
                       !.current_index = end,
                       !.buffer = SubSeq(@, end + 1, Len(@)),
                       !.out = "Some"]
        ELSE p
ParseBodyCutShort(p) ==
  LET end == p.current_index + p.body_length
  IN  IF Len(p.buffer) - p.current_index >= p.body_length
        THEN [p EXCEPT !.body = SubSeq(p.buffer, p.current_index + 1, end),
                       !.current_index = end,
                       !.buffer = SubSeq(@, p.body_length + 1, Len(@)),
                       !.out = "Some"]
        ELSE p

(* The buffer is cut behind the body; current_index is not reset.           *)
ParseBody(p) ==
  LET end == p.current_index + p.body_length
  IN  IF Len(p.buffer) - p.current_index >= p.body_length
        THEN [p EXCEPT !.body = SubSeq(p.buffer, p.current_index + 1, end),
                       !.current_index = end,
                       !.buffer = SubSeq(@, end + 1, Len(@)),
                       !.out = "Some"]
        ELSE p

(* The loop of parse: a state that is complete is left for the next one.    *)
Parse(h, p0) ==
  LET p1 == IF p0.state = "HeaderStart" THEN ParseHeaderStart(h, p0) ELSE p0
      p2 == IF p1.state = "ContentLength" THEN ParseContentLengthInHeader(p1) ELSE p1
      p3 == IF p2.state = "Newline" /\ p2.out = "None"
              THEN ParseNewlineBetweenHeaderAndBody(p2) ELSE p2
  IN  IF p3.state = "Body" /\ p3.out = "None" THEN ParseBody(p3) ELSE p3
===============================================================================
