------------------------------ MODULE TwoModel ------------------------------
(* generate_stream_two_model (rnb-llm/src/speculative.rs): a small engine      *)
(* guesses, the large one verifies all guesses at once.  Both are modelled by  *)
(* the tokens they took in after the prompt: rows of their KV caches, and      *)
(* hidden for the recurrent layers of the target.                              *)
EXTENDS Sequences, Naturals, SequencesExt, VerifyPlan

CONSTANTS Vocab, Eos, MaxTokens,
          SpecK,          \* GenerateParams::spec_k
          Architectures,  \* possible targets
          IgnoreEos,      \* possible values of GenerateParams::ignore_eos
          NextBest        \* the target's pick at each position, EOS not eligible

ASSUME VocabAssumption == Eos \notin Vocab
ASSUME BudgetAssumption == MaxTokens \in Nat /\ SpecK \in Nat \ {0}
ASSUME NextBestAssumption == /\ NextBest \in [1..(MaxTokens + 1) -> Vocab]
                             /\ IgnoreEos \subseteq BOOLEAN

Wrong == "wrong"   \* the pick of a target whose state is not the text
Hole == "hole"     \* a row that is counted and was never written
Picks == Vocab \cup {Eos}

VARIABLES truth,        \* what the target picks after each prefix
          arch,         \* the target's architecture
          ignoreEos,    \* GenerateParams::ignore_eos
          pc, out, ended,
          kv, hidden,   \* the target
          draftKv,      \* the draft engine
          logits,       \* what the target's pending logits pick
          ckpt,         \* the round's first token and the target's checkpoint
          drafts, window, accepted

target == <<kv, hidden>>
round == <<ckpt, drafts, window, accepted>>
vars == <<truth, arch, ignoreEos, pc, out, ended, target, draftKv, logits, round>>

Remaining == MaxTokens - Len(out)
K == Len(drafts)
VerifyInput == <<ckpt.first>> \o drafts
Mode == VerifyMode(NeedsSequential(arch), FALSE)

\* The plain loop.  A generation that ignores EOS and stops there all the same is
\* seen as one that was cut short: its text is the plain loop's as far as it goes.
SeenEnd == IF ended = "eos" /\ ignoreEos THEN "cancelled" ELSE ended
Greedy == INSTANCE GreedyDecode WITH ended <- SeenEnd
Plain == Greedy!Text

\* The target samples from logits, in which EOS is never suppressed; what the
\* plain loop picks differs from it where EOS is ignored.
PickAfter(rows, state) ==
  IF HasRecurrentState(arch) /\ state # rows THEN Wrong
  ELSE IF IsPrefix(rows, Plain) /\ Len(rows) < Len(Plain) THEN truth[Len(rows) + 1]
  ELSE Wrong

SetLen(rows, n) == [i \in 1..n |-> IF i <= Len(rows) THEN rows[i] ELSE Hole]

\* Plausible slips, for the mutants: all rows of the window stay; the draft
\* engine is never cut back.
WholeWindow == Len(window)
DraftKeepsAll == draftKv

-----------------------------------------------------------------------------
Init == /\ truth \in [1..(MaxTokens + 1) -> Picks]
        /\ arch \in Architectures /\ ignoreEos \in IgnoreEos
        /\ pc = "sample" /\ out = <<>> /\ ended = "no"
        /\ kv = <<>> /\ hidden = <<>> /\ draftKv = <<>>
        /\ logits = truth[1]
        /\ ckpt = [first |-> Eos, len |-> 0, hidden |-> <<>>]
        /\ drafts = <<>> /\ window = <<>> /\ accepted = 0

Leave(why) == ended' = why /\ pc' = "done"

Cancel == /\ \/ pc = "sample" /\ Remaining > 0
             \/ pc = "draft" /\ K < SpecK /\ K < Remaining
          /\ Leave("cancelled")
          /\ UNCHANGED <<truth, arch, ignoreEos, out, target, draftKv, logits, round>>

\* The loop stops at EOS whatever ignore_eos says.
SampleEos == /\ pc = "sample" /\ Remaining > 0 /\ logits = Eos
             /\ Leave("eos")
             /\ UNCHANGED <<truth, arch, ignoreEos, out, target, draftKv, logits, round>>

SampleFirst ==
  /\ pc = "sample" /\ Remaining > 0 /\ logits # Eos
  /\ out' = Append(out, logits)
  /\ \/ Leave("caller") /\ UNCHANGED ckpt
     \/ Remaining = 1 /\ Leave("length") /\ UNCHANGED ckpt
     \/ /\ Remaining > 1
        /\ ckpt' = [first |-> logits, len |-> Len(kv), hidden |-> hidden]
        /\ pc' = "draft" /\ UNCHANGED ended
  /\ drafts' = <<>> /\ window' = <<>> /\ accepted' = 0
  /\ UNCHANGED <<truth, arch, ignoreEos, target, draftKv, logits>>

\* The draft engine takes in the last token, at its own length, and guesses.
Draft == /\ pc = "draft" /\ K < SpecK /\ K < Remaining
         /\ draftKv' = Append(draftKv, Last(VerifyInput))
         /\ \E d \in Picks : drafts' = Append(drafts, d)
         /\ UNCHANGED <<truth, arch, ignoreEos, pc, out, ended, target, logits, ckpt, window, accepted>>

\* The target, back at its checkpoint, takes in all of the input: in a batch,
\* or one by one but without looking at what it picked.
Verify ==
  /\ pc = "draft" /\ (K = SpecK \/ K = Remaining)
  /\ LET base == SetLen(kv, ckpt.len) IN
       /\ kv' = base \o VerifyInput
       /\ hidden' = ckpt.hidden \o VerifyInput
       /\ window' = [i \in 1..(K + 1) |->
            PickAfter(base \o SubSeq(VerifyInput, 1, i),
                      ckpt.hidden \o SubSeq(VerifyInput, 1, i))]
  /\ pc' = "compare"
  /\ UNCHANGED <<truth, arch, ignoreEos, out, ended, draftKv, logits, ckpt, drafts, accepted>>

Accept ==
  /\ pc = "compare" /\ accepted < K
  /\ drafts[accepted + 1] = window[accepted + 1] /\ drafts[accepted + 1] # Eos
  /\ out' = Append(out, drafts[accepted + 1])
  /\ accepted' = accepted + 1
  /\ \/ ended' = "caller" /\ pc' = "commit"
     \/ Remaining = 1 /\ ended' = "length" /\ pc' = "commit"
     \/ /\ Remaining > 1 /\ UNCHANGED ended
        /\ pc' = IF accepted + 1 = K THEN "commit" ELSE "compare"
  /\ UNCHANGED <<truth, arch, ignoreEos, target, draftKv, logits, ckpt, drafts, window>>

AcceptEos ==
  /\ pc = "compare" /\ accepted < K
  /\ drafts[accepted + 1] = Eos /\ window[accepted + 1] = Eos
  /\ ended' = "eos" /\ pc' = "commit"
  /\ UNCHANGED <<truth, arch, ignoreEos, out, target, draftKv, logits, round>>

Reject ==
  /\ pc = "compare" /\ accepted < K
  /\ drafts[accepted + 1] # window[accepted + 1]
  /\ pc' = "commit"
  /\ UNCHANGED <<truth, arch, ignoreEos, out, ended, target, draftKv, logits, round>>

\* Both engines are cut to the same length.
CommittedRows == Committed(accepted)
DraftCut == SetLen(draftKv, ckpt.len + CommittedRows)

\* The plan asks for a replay in batch mode only, which a target with
\* sequential verification never is in: the rows are cut, nothing else.
Commit ==
  /\ pc = "commit"
  /\ ~Replay(NeedsSequential(arch), Mode, K, accepted, FALSE)
  /\ kv' = SetLen(kv, ckpt.len + CommittedRows)
  /\ logits' = window[CommittedRows]
  /\ draftKv' = DraftCut
  /\ pc' = IF ended = "no" THEN "sample" ELSE "done"
  /\ UNCHANGED <<truth, arch, ignoreEos, out, ended, hidden, round>>

Terminated == pc = "done" /\ UNCHANGED vars

Next == \/ Cancel \/ SampleEos \/ SampleFirst \/ Draft \/ Verify
        \/ Accept \/ AcceptEos \/ Reject \/ Commit \/ Terminated
Spec == Init /\ [][Next]_vars

-----------------------------------------------------------------------------
(* Properties. *)

\* The text is the target's own in the plain loop, EOS ignored or not, whatever
\* the draft engine proposes and whatever state that engine is left in; only the
\* request that ignores EOS may end sooner, at an EOS (see Greedy).
ImplementsGreedy == Greedy!Spec

\* When a round begins the draft engine holds no token that was refused: each
\* of its rows is the emitted token of that position, or was never written.
DraftHoldsNoRefused ==
  pc = "sample" => /\ Len(draftKv) = Len(out)
                   /\ \A i \in 1..Len(draftKv) : draftKv[i] \in {out[i], Hole}

\* On a rejection the checkpoint is restored: KV rows and recurrent state are
\* the tokens emitted ("reject 시 복원한다", SpecCheckpoint).
StateIsCommitted ==
  pc = "sample" => kv = out /\ (HasRecurrentState(arch) => hidden = out)

\* The draft engine is in step with the target: all rows up to the accepted
\* position are valid ("accepted 위치까지만 유효").
DraftInStep == pc = "sample" => draftKv = out

\* A request that ignores EOS is not ended by it (GenerateParams::ignore_eos).
EosIsIgnored == ignoreEos => ended # "eos"
=============================================================================
