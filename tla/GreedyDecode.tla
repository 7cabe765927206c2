---------------------------- MODULE GreedyDecode ----------------------------
(* What a generation promises: the tokens a caller sees are those the model    *)
(* itself picks, one after the other, until a stop token, the budget, the      *)
(* caller's refusal or a cancellation.  generate.rs, finish_generation, is     *)
(* this machine with an engine inside; speculative.rs has to look like it.     *)
(* A request may ask that EOS be ignored: its logit is suppressed and the next *)
(* best token is taken.  The request's own stop_tokens end this loop and the   *)
(* speculative ones at the same tests, EOS ignored or not; they are not        *)
(* modelled apart.                                                             *)
EXTENDS Sequences, Naturals

CONSTANTS Vocab,      \* the tokens that can be emitted
          Eos,        \* the token that ends a text
          MaxTokens,  \* GenerateParams::max_tokens
          NextBest    \* the pick at each position when EOS is not eligible

VARIABLES truth,      \* what the model picks at each position
          ignoreEos,  \* GenerateParams::ignore_eos
          out,        \* the tokens emitted so far
          ended       \* "no", or why the generation is over

Truths == [1..(MaxTokens + 1) -> Vocab \cup {Eos}]
Endings == {"no", "length", "eos", "caller", "cancelled"}

\* What is picked at each position: suppress_eos_logit.
Text == [i \in DOMAIN truth |-> IF ignoreEos /\ truth[i] = Eos THEN NextBest[i] ELSE truth[i]]

Init == /\ truth \in Truths /\ ignoreEos \in BOOLEAN
        /\ out = <<>>
        /\ ended = "no"

\* The next token is emitted; the caller may refuse to go on, or it was the last.
Emit == /\ ended = "no" /\ Len(out) < MaxTokens
        /\ Text[Len(out) + 1] # Eos
        /\ out' = Append(out, Text[Len(out) + 1])
        /\ \/ ended' \in {"no", "caller"}
           \/ Len(out) + 1 = MaxTokens /\ ended' = "length"
        /\ UNCHANGED <<truth, ignoreEos>>

Exhausted == /\ ended = "no" /\ Len(out) = MaxTokens /\ ended' = "length"
             /\ UNCHANGED <<truth, ignoreEos, out>>
ReachEos == /\ ended = "no" /\ Text[Len(out) + 1] = Eos /\ ended' = "eos"
            /\ UNCHANGED <<truth, ignoreEos, out>>
Cancel == ended = "no" /\ ended' = "cancelled" /\ UNCHANGED <<truth, ignoreEos, out>>

Next == Emit \/ Exhausted \/ ReachEos \/ Cancel
Spec == Init /\ [][Next]_<<truth, ignoreEos, out, ended>>
=============================================================================
