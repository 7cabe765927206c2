----------------------------- MODULE VerifyPlan -----------------------------
(* The decisions of speculative.rs that depend on the architecture and the     *)
(* outcome of a round only: how the target verifies, and what has to be done   *)
(* to its state when some drafts were refused.                                 *)
EXTENDS Naturals

\* architecture_verify_needs_sequential
NeedsSequential(arch) == arch \in {"Qwen35", "Qwen35MoE", "GlmDsa"}

\* architecture_has_recurrent_state
HasRecurrentState(arch) == arch \in {"Qwen35", "Qwen35MoE", "NemotronHMoE"}

\* spec_verify_mode
VerifyMode(needsSequential, forceBatch) ==
  IF needsSequential /\ ~forceBatch THEN "SequentialIncremental" ELSE "Batch"

\* verify_state_plan_after_spec_round: the first token and the accepted drafts.
Committed(nAccepted) == 1 + nAccepted

\* A plausible slip: the rows that stay valid are enough, nothing is run again.
NeverReplay(recurrent, mode, k, nAccepted, matches) == FALSE

\* ... and whether these must be run again from the checkpoint.
Replay(recurrent, mode, k, nAccepted, matches) ==
  recurrent /\ mode = "Batch" /\ nAccepted < k /\ ~matches
=============================================================================
