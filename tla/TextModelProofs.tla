---------------------------- MODULE TextModelProofs ----------------------------
(***************************************************************************)
(* Proofs about TextModel: types, and what generate returns, for any        *)
(* vocabulary, prompts, end tokens and limit.                               *)
(***************************************************************************)
EXTENDS TextModel, TLAPS

InCall == {"looping", "decoding", "returned"}

(* The text begins with the prompt.                                         *)
PromptOK ==
  stage \in InCall =>
    /\ Len(prompt) <= Len(tokens)
    /\ \A i \in 1..Len(prompt) : tokens[i] = prompt[i]

(* While the loop runs, idx counts the tokens after the prompt, and none of *)
(* them ends the text.                                                      *)
LoopOK ==
  stage = "looping" =>
    /\ Len(tokens) = Len(prompt) + idx
    /\ \A i \in (Len(prompt) + 1)..Len(tokens) : tokens[i] \notin Eos

(* After it, one may, and it is the last one; fewer than the limit need it. *)
StopOK ==
  stage \in {"decoding", "returned"} =>
    /\ Len(tokens) <= Len(prompt) + MaxTokens
    /\ \A i \in (Len(prompt) + 1)..(Len(tokens) - 1) : tokens[i] \notin Eos
    /\ Len(tokens) < Len(prompt) + MaxTokens =>
         Len(prompt) < Len(tokens) /\ tokens[Len(tokens)] \in Eos

TextOK == PromptOK /\ LoopOK /\ StopOK

IInv == TypeOK /\ TextOK

-------------------------------------------------------------------------------
LEMMA InitIInv == Init => IInv
  BY TextModelAssumption
  DEF Init, IInv, TypeOK, TextOK, PromptOK, LoopOK, StopOK, Idle, InCall

LEMMA TypeStep ==
  ASSUME TypeOK, [Next]_vars
  PROVE  TypeOK'
<1> USE TextModelAssumption DEF TypeOK, Idle
<1>1. CASE New
  BY <1>1 DEF New
<1>2. CASE LoopEnds \/ Decode \/ Fails
  BY <1>2 DEF LoopEnds, Decode, Fails
<1>3. ASSUME NEW p \in Prompts, Encode(p) PROVE TypeOK'
  BY <1>3 DEF Encode
<1>4. ASSUME NEW t \in Token, Forward(t) PROVE TypeOK'
  <2>1. idx + 1 \in 0..MaxTokens /\ Append(tokens, t) \in Seq(Token)
    BY <1>4 DEF Forward
  <2> QED BY <1>4, <2>1 DEF Forward, RoundEnds
<1>5. CASE UNCHANGED vars
  BY <1>5 DEF vars
<1> QED BY <1>1, <1>2, <1>3, <1>4, <1>5 DEF Next

(* The token that is added is the last one, and the others stay.            *)
LEMMA ForwardKeepsText ==
  ASSUME TypeOK, TextOK, NEW t \in Token, Forward(t)
  PROVE  TextOK'
<1>1. /\ stage = "looping" /\ prompt' = prompt /\ tokens' = Append(tokens, t)
      /\ idx < MaxTokens /\ Len(tokens) = Len(prompt) + idx
  BY DEF Forward, RoundEnds, TextOK, LoopOK
<1>2. /\ Len(tokens') = Len(tokens) + 1 /\ tokens'[Len(tokens) + 1] = t
      /\ \A i \in 1..Len(tokens) : tokens'[i] = tokens[i]
      /\ Len(tokens) \in Nat /\ Len(prompt) \in Nat /\ MaxTokens \in Nat /\ idx \in Nat
  BY <1>1, TextModelAssumption DEF TypeOK
<1>3. PromptOK'
  BY <1>1, <1>2 DEF TextOK, PromptOK, InCall
<1>4. \A i \in (Len(prompt) + 1)..Len(tokens) : tokens'[i] \notin Eos
  BY <1>1, <1>2 DEF TextOK, LoopOK
<1>5. CASE t \in Eos
  <2>1. stage' = "decoding"
    BY <1>5 DEF Forward, RoundEnds
  <2> QED BY <1>1, <1>2, <1>3, <1>4, <1>5, <2>1 DEF TextOK, LoopOK, StopOK
<1>6. CASE t \notin Eos
  <2>1. stage' = "looping" /\ idx' = idx + 1
    BY <1>6 DEF Forward, RoundEnds
  <2>2. \A i \in (Len(prompt) + 1)..Len(tokens') : tokens'[i] \notin Eos
    BY <1>2, <1>4, <1>6
  <2>3. Len(tokens') = Len(prompt') + idx'
    BY <1>1, <1>2, <2>1
  <2> QED BY <1>1, <1>3, <2>1, <2>2, <2>3 DEF TextOK, LoopOK, StopOK
<1> QED BY <1>5, <1>6

LEMMA TextStep ==
  ASSUME TypeOK, TextOK, [Next]_vars
  PROVE  TextOK'
<1> USE DEF TextOK
<1>1. CASE New
  BY <1>1 DEF New, PromptOK, LoopOK, StopOK, InCall
<1>2. CASE LoopEnds
  BY <1>2, TextModelAssumption DEF LoopEnds, TypeOK, PromptOK, LoopOK, StopOK, InCall
<1>3. CASE Decode \/ Fails
  BY <1>3 DEF Decode, Fails, PromptOK, LoopOK, StopOK, InCall
<1>4. ASSUME NEW p \in Prompts, Encode(p) PROVE TextOK'
  BY <1>4, TextModelAssumption DEF Encode, PromptOK, LoopOK, StopOK, InCall
<1>5. ASSUME NEW t \in Token, Forward(t) PROVE TextOK'
  BY <1>5, ForwardKeepsText
<1>6. CASE UNCHANGED vars
  BY <1>6 DEF vars, PromptOK, LoopOK, StopOK
<1> QED BY <1>1, <1>2, <1>3, <1>4, <1>5, <1>6 DEF Next

(* From the positions to the sequences of TextIsComplete.                   *)
LEMMA TextIsWhole ==
  ASSUME TypeOK, TextOK
  PROVE  TextIsComplete
<1> SUFFICES ASSUME stage = "returned" PROVE TextIsComplete
  BY DEF TextIsComplete
<1> DEFINE new == SubSeq(tokens, Len(prompt) + 1, Len(tokens))
<1>0. /\ tokens \in Seq(Token) /\ prompt \in Seq(Token) /\ Len(prompt) <= Len(tokens)
      /\ Len(tokens) \in Nat /\ Len(prompt) \in Nat /\ MaxTokens \in Nat
  BY TextModelAssumption DEF TypeOK, TextOK, PromptOK, InCall
<1>1. new \in Seq(Token) /\ Len(new) = Len(tokens) - Len(prompt)
  BY <1>0
<1>2. \A i \in 1..Len(new) : new[i] = tokens[Len(prompt) + i]
  BY <1>0, <1>1
<1>3. tokens = prompt \o new
  <2>1. prompt \o new \in Seq(Token) /\ Len(prompt \o new) = Len(tokens)
    BY <1>0, <1>1
  <2>2. \A i \in 1..Len(tokens) : (prompt \o new)[i] = tokens[i]
    <3> SUFFICES ASSUME NEW i \in 1..Len(tokens) PROVE (prompt \o new)[i] = tokens[i]
      OBVIOUS
    <3>1. CASE i <= Len(prompt)
      <4>1. (prompt \o new)[i] = prompt[i]
        BY <1>0, <1>1, <3>1
      <4> QED BY <1>0, <3>1, <4>1 DEF TextOK, PromptOK, InCall
    <3>2. CASE i > Len(prompt)
      <4>1. (prompt \o new)[i] = new[i - Len(prompt)]
        BY <1>0, <1>1, <3>2
      <4>2. i - Len(prompt) \in 1..Len(new)
        BY <1>0, <1>1, <3>2
      <4> QED BY <1>0, <1>2, <4>1, <4>2
    <3> QED BY <1>0, <3>1, <3>2
  <2> QED BY <1>0, <2>1, <2>2
<1>4. \A i \in 1..(Len(new) - 1) : new[i] \notin Eos
  BY <1>0, <1>1, <1>2 DEF TextOK, StopOK
<1>5. Len(new) <= MaxTokens
  BY <1>0, <1>1 DEF TextOK, StopOK
<1>6. ASSUME Len(new) < MaxTokens PROVE new # <<>> /\ Last(new) \in Eos
  <2>1. Len(prompt) < Len(tokens) /\ tokens[Len(tokens)] \in Eos
    BY <1>0, <1>1, <1>6 DEF TextOK, StopOK
  <2>2. Len(new) \in 1..Len(new) /\ Len(prompt) + Len(new) = Len(tokens)
    BY <1>0, <1>1, <2>1
  <2>3. new[Len(new)] \in Eos
    BY <1>2, <2>1, <2>2
  <2> HIDE DEF new
  <2>4. new # <<>>
    BY <2>2
  <2> QED BY <2>3, <2>4 DEF Last
<1> QED BY <1>3, <1>4, <1>5, <1>6 DEF TextIsComplete

LEMMA IInvStep ==
  ASSUME IInv, [Next]_vars
  PROVE  IInv'
  BY TypeStep, TextStep DEF IInv

-------------------------------------------------------------------------------
(* Every variable has its type.                                             *)
THEOREM TypeCorrect == Spec => []TypeOK
<1>1. Init => IInv
  BY InitIInv
<1>2. IInv /\ [Next]_vars => IInv'
  BY IInvStep
<1>3. IInv => TypeOK
  BY DEF IInv
<1> QED BY <1>1, <1>2, <1>3, PTL DEF Spec

(* What generate returns is the prompt with its whole continuation, which   *)
(* ends with the first end token or at the limit.                           *)
THEOREM ReturnsWholeText == Spec => []TextIsComplete
<1>1. Init => IInv
  BY InitIInv
<1>2. IInv /\ [Next]_vars => IInv'
  BY IInvStep
<1>3. IInv => TextIsComplete
  BY TextIsWhole DEF IInv
<1> QED BY <1>1, <1>2, <1>3, PTL DEF Spec
===============================================================================
