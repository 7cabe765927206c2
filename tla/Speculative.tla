----------------------------- MODULE Speculative -----------------------------
(* generate_stream_speculative (rnb-llm/src/speculative.rs): the engine guesses *)
(* with its first layers, rolls itself back and checks the guesses with all of  *)
(* them.  What the engine knows is modelled by the tokens it has taken in: kv   *)
(* is one token per row of the KV cache after the prompt, hidden the tokens     *)
(* that went through the recurrent layers.  The text is right only as long as   *)
(* both hold what was emitted.  MTP drafting has a loop of its own              *)
(* (mtp_generate.rs); here use_mtp is always false.                             *)
EXTENDS Sequences, Naturals, SequencesExt, VerifyPlan

CONSTANTS Vocab, Eos, MaxTokens,
          SpecK,          \* GenerateParams::spec_k
          Architectures,  \* those of the instance
          ForceBatch,     \* possible values of RNB_SPEC_FORCE_BATCH_VERIFY
          NoBonus,        \* ... and of RNB_SPEC_BATCH_NO_BONUS
          Sampled,        \* temperature above 0: a pick is a draw
          IgnoreEos,      \* possible values of GenerateParams::ignore_eos
          NextBest        \* the target's pick at each position, EOS not eligible

ASSUME VocabAssumption == Eos \notin Vocab
ASSUME BudgetAssumption == MaxTokens \in Nat /\ SpecK \in Nat \ {0}
ASSUME NextBestAssumption == /\ NextBest \in [1..(MaxTokens + 1) -> Vocab]
                             /\ IgnoreEos \subseteq BOOLEAN

Wrong == "wrong"          \* the pick of an engine whose state is not the text
Hole == "hole"            \* a row that is counted and was never written
Nothing == "nothing"
Picks == Vocab \cup {Eos}

VARIABLES
  truth,     \* what the target picks after each prefix, when it is greedy
  opt,       \* architecture and switches of this run
  pc,        \* where the loop is
  out,       \* generated_tokens
  ended,     \* "no", or why the loop was left
  kv, hidden,
  logits,    \* the tokens a sample of the pending logits can be
  ckpt,      \* the round's first token and checkpoint: kv_len, recurrent state
  drafts,    \* draft_tokens
  window,    \* what the target may pick after each row verified so far
  accepted,  \* n_accepted
  refused    \* the target's token that ended the round's acceptance

engine == <<kv, hidden>>
round == <<ckpt, drafts, window, accepted>>
vars == <<truth, opt, pc, out, ended, kv, hidden, logits, ckpt, drafts, window, accepted, refused>>

-----------------------------------------------------------------------------
(* Plausible slips, for the mutants: the budget counts one token too many; the *)
(* last row's pick comes next, or that of the last accepted draft.             *)

RemainingOffByOne == MaxTokens + 1 - Len(out)
LastOfWindow == window[Len(window)]
PickOfLastAccepted == window[IF accepted = 0 THEN 1 ELSE accepted]

-----------------------------------------------------------------------------
Sequential == NeedsSequential(opt.arch)
Mode == VerifyMode(Sequential, opt.force)
\* spec_argmax_verify_allowed and the switch; the logits path has no such form.
WithoutBonus == Mode = "Batch" /\ opt.argmax /\ opt.noBonus
Remaining == MaxTokens - Len(out)
K == Len(drafts)
VerifyInput == <<ckpt.first>> \o drafts

\* The plain loop this one stands in for.  A generation that fails fails because
\* its caller refused.  One that was asked to ignore EOS and stops there all the
\* same is seen as one that was cut short: its text is the plain loop's as far
\* as it goes.
SeenEnd == IF ended = "failed" THEN "caller"
           ELSE IF ended = "eos" /\ opt.ignoreEos THEN "cancelled" ELSE ended
Greedy == INSTANCE GreedyDecode WITH ignoreEos <- opt.ignoreEos, ended <- SeenEnd

\* The plain loop's text, and the picks of one forward_verify_argmax step: it
\* takes the best token other than the excluded one, which is EOS when EOS is
\* ignored.  Logits, and the argmax of a batch, have nothing excluded.
Plain == Greedy!Text
ByStep == IF opt.argmax THEN Plain ELSE truth

\* What the engine may pick when it holds these rows and this recurrent state.
PicksAfter(picks, rows, state) ==
  IF HasRecurrentState(opt.arch) /\ state # rows THEN {Wrong}
  ELSE IF Sampled THEN Picks
  ELSE IF IsPrefix(rows, Plain) /\ Len(rows) < Len(Plain) THEN {picks[Len(rows) + 1]}
  ELSE {Wrong}

\* KVCache::set_len: longer than what was written counts rows nobody wrote.
SetLen(rows, n) == [i \in 1..n |-> IF i <= Len(rows) THEN rows[i] ELSE Hole]

-----------------------------------------------------------------------------
Options == [arch : Architectures, force : ForceBatch, noBonus : NoBonus, argmax : BOOLEAN,
            ignoreEos : IgnoreEos]

Init == /\ truth \in [1..(MaxTokens + 1) -> Picks]
        /\ opt \in {o \in Options : o.argmax => ~Sampled}
        /\ pc = "sample" /\ out = <<>> /\ ended = "no"
        /\ kv = <<>> /\ hidden = <<>>
        /\ logits = PicksAfter(truth, <<>>, <<>>)
        /\ ckpt = [first |-> Nothing, len |-> 0, hidden |-> <<>>]
        /\ drafts = <<>> /\ window = <<>> /\ accepted = 0
        /\ refused = Nothing

Leave(why) == ended' = why /\ pc' = "done"

-----------------------------------------------------------------------------
(* The top of the loop. *)

\* check_generation_cancellation, before a round and before each draft.
Cancel == /\ \/ pc = "sample" /\ Remaining > 0
             \/ pc = "draft" /\ K < SpecK /\ K < Remaining
          /\ Leave("cancelled")
          /\ UNCHANGED <<truth, opt, out, engine, logits, round, refused>>

\* The loop stops at EOS whatever ignore_eos says.
SampleEos == /\ pc = "sample" /\ Remaining > 0 /\ Eos \in logits
             /\ Leave("eos")
             /\ UNCHANGED <<truth, opt, out, engine, logits, round, refused>>

\* The first token of a round is emitted at once; then the round is begun
\* with a checkpoint.
SampleFirst ==
  /\ pc = "sample" /\ Remaining > 0
  /\ \E t \in logits \ {Eos} :
       /\ out' = Append(out, t)
       /\ \/ Leave("caller") /\ UNCHANGED ckpt
          \/ Remaining = 1 /\ Leave("length") /\ UNCHANGED ckpt
          \/ /\ Remaining > 1
             /\ ckpt' = [first |-> t, len |-> Len(kv), hidden |-> hidden]
             /\ pc' = "draft" /\ UNCHANGED ended
  /\ drafts' = <<>> /\ window' = <<>> /\ accepted' = 0 /\ refused' = Nothing
  /\ UNCHANGED <<truth, opt, engine, logits>>

\* forward_decode_draft: the engine takes in the last token and guesses one.
Draft == /\ pc = "draft" /\ K < SpecK /\ K < Remaining
         /\ kv' = Append(kv, Last(VerifyInput))
         /\ hidden' = Append(hidden, Last(VerifyInput))
         /\ \E d \in Picks : drafts' = Append(drafts, d)
         /\ UNCHANGED <<truth, opt, pc, out, ended, logits, ckpt, window, accepted, refused>>

\* restore_engine, once all K guesses are made.
RestoreCheckpoint ==
  /\ pc = "draft" /\ (K = SpecK \/ K = Remaining)
  /\ kv' = SetLen(kv, ckpt.len) /\ hidden' = ckpt.hidden
  /\ pc' = IF Mode = "Batch" THEN "batch" ELSE "step"
  /\ UNCHANGED <<truth, opt, out, ended, logits, round, refused>>

-----------------------------------------------------------------------------
(* Verification.  In a batch all rows first, then the comparison; one row and  *)
(* one comparison at a time for the architectures that need it.                *)

RowsVerified == IF WithoutBonus THEN K ELSE K + 1

VerifyBatch ==
  /\ pc = "batch"
  /\ LET rows == SubSeq(VerifyInput, 1, RowsVerified) IN
       /\ kv' = kv \o rows /\ hidden' = hidden \o rows
       /\ window' = [i \in 1..RowsVerified |->
            PicksAfter(truth, kv \o SubSeq(rows, 1, i), hidden \o SubSeq(rows, 1, i))]
  /\ pc' = "compare"
  /\ UNCHANGED <<truth, opt, out, ended, logits, ckpt, drafts, accepted, refused>>

VerifyStep ==
  /\ pc = "step"
  /\ LET row == VerifyInput[Len(window) + 1] IN
       /\ kv' = Append(kv, row) /\ hidden' = Append(hidden, row)
       /\ window' = Append(window, PicksAfter(ByStep, Append(kv, row), Append(hidden, row)))
  /\ pc' = IF Len(window) = K THEN "commit" ELSE "compare"
  /\ UNCHANGED <<truth, opt, out, ended, logits, ckpt, drafts, accepted, refused>>

\* What follows an accepted draft when the loop goes on.
AfterAccept == IF Mode = "Batch" THEN IF accepted + 1 = K THEN "commit" ELSE "compare"
               ELSE "step"

\* The target picks the draft: it is emitted, and the caller may refuse more.
Accept ==
  /\ pc = "compare" /\ accepted < K
  /\ drafts[accepted + 1] \in window[accepted + 1] \ {Eos}
  /\ out' = Append(out, drafts[accepted + 1])
  /\ accepted' = accepted + 1
  /\ \/ ended' = "caller" /\ pc' = "commit"
     \/ Remaining = 1 /\ ended' = "length" /\ pc' = "commit"
     \/ Remaining > 1 /\ pc' = AfterAccept /\ UNCHANGED ended
  /\ UNCHANGED <<truth, opt, engine, logits, ckpt, drafts, window, refused>>

AcceptEos ==
  /\ pc = "compare" /\ accepted < K
  /\ drafts[accepted + 1] = Eos /\ Eos \in window[accepted + 1]
  /\ ended' = "eos" /\ pc' = "commit"
  /\ UNCHANGED <<truth, opt, out, engine, logits, round, refused>>

Reject ==
  /\ pc = "compare" /\ accepted < K
  /\ \E t \in window[accepted + 1] \ {drafts[accepted + 1]} : refused' = t
  /\ pc' = "commit"
  /\ UNCHANGED <<truth, opt, out, ended, engine, logits, round>>

-----------------------------------------------------------------------------
(* The end of a round: the state is cut back to what was committed.            *)

NextRound == IF ended = "no" THEN "sample" ELSE "done"

\* One row at a time the state is exact; the last pick is what comes next.
CommitSteps ==
  /\ pc = "commit" /\ Mode = "SequentialIncremental"
  /\ logits' = window[Len(window)]
  /\ pc' = NextRound
  /\ UNCHANGED <<truth, opt, out, ended, engine, round, refused>>

\* All drafts of a window without bonus: nothing to cut, the last one is run
\* now, unless the budget is spent.
CommitWithoutBonus ==
  /\ pc = "commit" /\ WithoutBonus /\ accepted = K
  /\ ended = "no" \/ Remaining = 0
  /\ IF Remaining = 0 THEN UNCHANGED <<engine, logits>>
     ELSE /\ kv' = Append(kv, Last(drafts)) /\ hidden' = Append(hidden, Last(drafts))
          /\ logits' = PicksAfter(ByStep, kv', hidden')
  /\ pc' = NextRound
  /\ UNCHANGED <<truth, opt, out, ended, round, refused>>

\* A window without bonus has no row for the pick after the last draft: that
\* the caller refused it is answered by an error.
CommitFails ==
  /\ pc = "commit" /\ WithoutBonus /\ accepted = K
  /\ ended # "no" /\ Remaining > 0
  /\ kv' = SetLen(kv, ckpt.len + Committed(accepted))
  /\ Leave("failed")
  /\ UNCHANGED <<truth, opt, out, hidden, logits, round, refused>>

\* The state already is the committed prefix of a window without bonus.
Matches == WithoutBonus /\ Committed(accepted) = Len(window)

\* The pick after the last committed row.
NextPick == window[Committed(accepted)]

CommitBatch ==
  /\ pc = "commit" /\ Mode = "Batch" /\ ~(WithoutBonus /\ accepted = K)
  /\ LET committed == SubSeq(VerifyInput, 1, Committed(accepted))
         \* the checkpoint is a prefix: restoring it is cutting the rows
         base == SetLen(kv, ckpt.len)
     IN IF Replay(Sequential, Mode, K, accepted, Matches)
        THEN /\ kv' = base \o committed /\ hidden' = ckpt.hidden \o committed
             /\ logits' = PicksAfter(ByStep, kv', hidden')
        ELSE /\ kv' = SetLen(kv, ckpt.len + Committed(accepted))
             /\ logits' = NextPick
             /\ UNCHANGED hidden
  /\ pc' = NextRound
  /\ UNCHANGED <<truth, opt, out, ended, round, refused>>

-----------------------------------------------------------------------------
Terminated == pc = "done" /\ UNCHANGED vars

Step == \/ SampleEos \/ SampleFirst \/ Draft \/ RestoreCheckpoint
        \/ VerifyBatch \/ VerifyStep \/ Accept \/ AcceptEos \/ Reject
        \/ CommitSteps \/ CommitWithoutBonus \/ CommitFails \/ CommitBatch

Next == Step \/ Cancel \/ Terminated

Spec == Init /\ [][Next]_vars

-----------------------------------------------------------------------------
(* Properties. *)

\* Types; the drafts never outrun the budget (k = spec_k.min(tokens_remaining)).
TypeOK ==
  /\ truth \in [1..(MaxTokens + 1) -> Picks]
  /\ opt \in Options
  /\ pc \in {"sample", "draft", "batch", "step", "compare", "commit", "done"}
  /\ ended \in {"no", "length", "eos", "caller", "cancelled", "failed"}
  /\ \A i \in 1..Len(out) : out[i] \in Vocab
  /\ Len(out) <= MaxTokens
  /\ accepted \in 0..SpecK /\ K <= SpecK

\* When the next round begins, KV rows and recurrent state are exactly the
\* tokens emitted: no rejected draft is left, no accepted one is missing
\* (set_len, replay_committed_verify_prefix, the sequential loop).
StateIsCommitted ==
  pc = "sample" => /\ kv = out
                   /\ HasRecurrentState(opt.arch) => hidden = out

\* A greedy generation emits what the target alone would have emitted in the
\* plain loop, EOS ignored or not, whatever the drafts were, and ends for the
\* same reasons; only the request that ignores EOS may end sooner, at an EOS
\* (see Greedy).
ImplementsGreedy == Greedy!Spec

\* Whatever a verification excludes, a greedy generation stops at EOS only where
\* the target's own pick is EOS (draft_tokens[i] == eos is not enough).
StopsAtTargetsEos == (ended = "eos" /\ ~Sampled) => truth[Len(out) + 1] = Eos

\* A token the target preferred to a draft is the next one emitted
\* ("next iteration samples target_token as the first_token of next round");
\* after an EOS nothing is, unless EOS is ignored and the replay excludes it.
RejectedTargetComesNext ==
  [][(/\ pc = "sample" /\ Len(out') > Len(out)
      /\ refused # Nothing /\ (opt.ignoreEos => refused # Eos)) => Last(out') = refused]_vars

\* A caller that refuses more text gets the result so far, not an error
\* (test_generate_stream_callback_abort).
RefusalIsNoFailure == ended # "failed"

\* A request that ignores EOS is not ended by it: its logit is suppressed
\* (GenerateParams::ignore_eos), and generation goes on with the next best
\* token (test_generate_ignore_eos_uses_next_best_token_until_limit).
EosIsIgnored == opt.ignoreEos => ended # "eos"
=============================================================================
