-------------------------------- MODULE TextModel -------------------------------
(***************************************************************************)
(* The model behind the worker's lock (worker/src/inference/llama): it is   *)
(* loaded once and then generates for one prompt after the other, each time *)
(* a token per pass over the text so far.                                   *)
(*                                                                          *)
(* candle, underneath, only says which token comes next: it is any token.   *)
(* Its Cache is switched off (internal.rs:60), so a pass is given the whole *)
(* text from position 0 on, and what earlier prompts left in the LLama does *)
(* not matter to the loop.                                                  *)
(***************************************************************************)
EXTENDS Integers, SequencesExt

CONSTANTS
  Token,       \* the vocabulary
  Prompts,     \* prompts, as the tokenizer encodes them: never empty
  Eos,         \* eos_token_id: none, a single one or multiple ones
  MaxTokens    \* max_tokens

ASSUME TextModelAssumption ==
  /\ Prompts \subseteq Seq(Token) \ {<<>>}
  /\ Eos \subseteq Token /\ MaxTokens \in Nat

VARIABLES
  stage,       \* of the model, and of the call of generate that holds the lock
  prompt,      \* the prompt of the last call
  tokens, idx  \* the variables of generate

vars == <<stage, prompt, tokens, idx>>

Idle == {"ready", "returned", "failed"}

TypeOK ==
  /\ stage \in {"absent", "looping", "decoding"} \cup Idle
  /\ prompt \in Seq(Token) /\ tokens \in Seq(Token)
  /\ idx \in 0..MaxTokens

Init ==
  /\ stage = "absent"
  /\ prompt = <<>> /\ tokens = <<>> /\ idx = 0

-------------------------------------------------------------------------------
(* LLama::new.  When it fails, the guard stays empty.                       *)
New ==
  /\ stage = "absent"
  /\ stage' = "ready"
  /\ UNCHANGED <<prompt, tokens, idx>>

(* generate, as far as its loop.                                            *)
Encode(p) ==
  /\ stage \in Idle
  /\ stage' = "looping" /\ prompt' = p /\ tokens' = p /\ idx' = 0

(* An end token breaks the loop.                                            *)
RoundEnds(isEnd) ==
  /\ IF isEnd THEN stage' = "decoding" /\ UNCHANGED idx
              ELSE stage' = "looping" /\ idx' = idx + 1
  /\ UNCHANGED prompt

(* Mutant: only the first of multiple end tokens is looked at.              *)
ForwardSingleEos(t) ==
  /\ stage = "looping" /\ idx < MaxTokens
  /\ tokens' = Append(tokens, t)
  /\ RoundEnds(Eos # {} /\ t = CHOOSE e \in Eos : TRUE)

(* Mutant: one round too many.                                              *)
ForwardInclusive(t) ==
  /\ stage = "looping" /\ idx <= MaxTokens
  /\ tokens' = Append(tokens, t)
  /\ RoundEnds(t \in Eos)

(* A round of the loop: a pass over the text, which adds a token to it.     *)
Forward(t) ==
  /\ stage = "looping" /\ idx < MaxTokens
  /\ tokens' = Append(tokens, t)
  /\ RoundEnds(t \in Eos)

LoopEnds ==
  /\ stage = "looping" /\ idx = MaxTokens
  /\ stage' = "decoding"
  /\ UNCHANGED <<prompt, tokens, idx>>

Decode ==
  /\ stage = "decoding"
  /\ stage' = "returned"
  /\ UNCHANGED <<prompt, tokens, idx>>

(* Any of the `?` of generate, or a panic, after which the lock is free and *)
(* the model as it was left.                                                *)
Fails ==
  /\ stage \in {"looping", "decoding"}
  /\ stage' = "failed"
  /\ UNCHANGED <<prompt, tokens, idx>>

Next ==
  \/ New \/ LoopEnds \/ Decode \/ Fails
  \/ \E p \in Prompts : Encode(p)
  \/ \E t \in Token : Forward(t)

Spec == Init /\ [][Next]_vars

-------------------------------------------------------------------------------
(* An answer is the prompt and what was generated for it, up to the first   *)
(* end token or the limit, whatever the calls before it came to             *)
(* (llama/mod.rs:46, llama/mod.rs:78-86).                                   *)
TextIsComplete ==
  stage = "returned" =>
    LET new == SubSeq(tokens, Len(prompt) + 1, Len(tokens))
    IN  /\ tokens = prompt \o new
        /\ \A i \in 1..(Len(new) - 1) : new[i] \notin Eos
        /\ Len(new) <= MaxTokens
        /\ Len(new) < MaxTokens => new # <<>> /\ Last(new) \in Eos
===============================================================================
