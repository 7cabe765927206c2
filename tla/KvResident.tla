----------------------------- MODULE KvResident -----------------------------
(* The device copy of a Gemma target's F16 rows while an external drafter's    *)
(* windows are verified in batches: KvResident::sync_f16_range (Metal          *)
(* compute.rs), its two callers (prefill_flash_attention_gemma_resident and    *)
(* prefill_gemma_qkv_o_resident_if_supported), and the loop that decides which *)
(* windows go through it (generate_with_external_drafter).  The host cache is  *)
(* canonical; the copy is only told of rows from a window's start on, so it    *)
(* relies on never missing a window.  One layer that owns its rows and one     *)
(* that reads them.                                                            *)
EXTENDS Naturals, Sequences

CONSTANTS Tokens,     \* what a row may be computed for
          Zero,       \* the content of a cleared row
          SpecKs,     \* the values of spec_k: how many drafts a round asks for
          Tile,       \* rows per flash tile (64)
          MaxRows,    \* max_seq_len
          PromptRows  \* bound: rows the prompt leaves

ASSUME SpecKsAssumption == SpecKs \subseteq Nat \ {0}
ASSUME TileAssumption == Tile \in Nat \ {0}
ASSUME RowsAssumption == MaxRows \in Nat /\ PromptRows \in 0..MaxRows

VARIABLES specK,      \* GenerateParams::spec_k of the request
          host,       \* the layer's F16 buffer
          len,        \* KVCache::current_len
          copy,       \* the resident of the layer, or NoCopy
          remaining,  \* tokens_remaining
          window,     \* verify_seq
          pc          \* where the loop is

vars == <<specK, host, len, copy, remaining, window, pc>>

NoCopy == [capacity |-> 0, filled |-> 0, rows |-> <<>>]
ZeroRows(n) == [i \in 1..n |-> Zero]
Lesser(a, b) == IF a <= b THEN a ELSE b
KvLen == len + Len(window)

\* Rows pos + 1 .. pos + Len(new) of a buffer replaced.
Overwrite(rows, pos, new) ==
  [i \in 1..Len(rows) |-> IF i \in (pos + 1)..(pos + Len(new)) THEN new[i - pos] ELSE rows[i]]

-----------------------------------------------------------------------------
(* The resident. *)

\* A window of any other size takes a path that knows no residents.
IsResidentSize(n) == n \in 2..3

\* A plausible slip: a buffer of just the rows.
CapacityUnrounded(n) == n
Capacity(n) == ((n + Tile - 1) \div Tile) * Tile

\* The rows the host has from copy_start on; zeros from target_len to the end.
\* A rollback never shortens filled: a dirty start before it does.
SyncRange(c, source, dirtyStart, targetLen) ==
  LET start == Lesser(Lesser(dirtyStart, c.filled), targetLen)
  IN  [c EXCEPT !.filled = targetLen,
                !.rows = [i \in 1..Len(@) |-> CASE i > targetLen -> Zero
                                                [] i > start /\ i <= targetLen -> source[i]
                                                [] OTHER -> @[i]]]

\* A resident is made anew when there is none or it is too small; the
\* sequence_epoch test is met by the same event that empties the map.
Recreates(kvLen) == copy.capacity < Capacity(kvLen)
Entry(kvLen) ==
  IF Recreates(kvLen)
  THEN [capacity |-> Capacity(kvLen), filled |-> 0, rows |-> ZeroRows(Capacity(kvLen))]
  ELSE copy

-----------------------------------------------------------------------------
(* The loop. *)

Prompts == [1..PromptRows -> Tokens]

\* The prompt is prefilled before the first window, on the host; what the
\* buffer holds after it is left from the request before.
Init == /\ specK \in SpecKs
        /\ \E prompt \in Prompts : \E stale \in Tokens \cup {Zero} :
             host = prompt \o [i \in 1..(MaxRows - PromptRows) |-> stale]
        /\ len = PromptRows
        /\ copy = NoCopy
        /\ remaining \in 1..(MaxRows - PromptRows)
        /\ window = <<>> /\ pc = "draft"

\* A plausible slip: the adaptive stop at any number of drafts.
UnsureAtAnyDepth == {Lesser(k, remaining) : k \in 1..specK}

\* Asked for two drafts, an unsure drafter may stop at one
\* (gemma4_metal_adaptive_second_draft); drafts past the budget are not verified.
DraftCounts == {Lesser(k, remaining) : k \in IF specK = 2 THEN 1..2 ELSE {specK}}

Draft == /\ pc = "draft"
         /\ \E n \in DraftCounts : \E seq \in [1..(n + 1) -> Tokens] :
              len + n + 1 <= MaxRows /\ window' = seq
         /\ pc' = "owner"
         /\ UNCHANGED <<specK, host, len, copy, remaining>>

\* The owner writes its rows to the host; attention then reads the copy, or
\* the host when the window is not of a resident size.
OwnerCopies ==
  /\ pc = "owner"
  /\ host' = Overwrite(host, len, window)
  /\ copy' = IF IsResidentSize(Len(window)) THEN SyncRange(Entry(KvLen), host', len, KvLen) ELSE copy
  /\ pc' = "sharer"
  /\ UNCHANGED <<specK, len, remaining, window>>

\* The fused chain computes the rows on the device, behind the synced prefix,
\* and the host reads them back.
OwnerFused ==
  /\ pc = "owner" /\ IsResidentSize(Len(window))
  /\ host' = Overwrite(host, len, window)
  /\ LET synced == SyncRange(Entry(KvLen), host, IF Recreates(KvLen) THEN 0 ELSE len, len)
     IN  copy' = [synced EXCEPT !.rows = Overwrite(@, len, window), !.filled = KvLen]
  /\ pc' = "sharer"
  /\ UNCHANGED <<specK, len, remaining, window>>

\* A layer without rows of its own has nothing dirty.
SharerReads ==
  /\ pc = "sharer"
  /\ copy' = IF IsResidentSize(Len(window)) THEN SyncRange(Entry(KvLen), host, KvLen, KvLen) ELSE copy
  /\ pc' = "verdict"
  /\ UNCHANGED <<specK, host, len, remaining, window>>

\* external_batch_committed_verify_tokens: the anchor and what was accepted, or
\* what the caller took before it ended the round.
CommittedTokens(accepted, emitted, ending) == 1 + (IF ending THEN emitted ELSE accepted)

Commit ==
  /\ pc = "verdict"
  /\ \E accepted \in 0..(Len(window) - 1) : \E emitted \in 0..accepted : \E stops \in BOOLEAN :
       /\ emitted < accepted => stops \/ emitted = remaining
       /\ LET full == emitted + (IF emitted = accepted /\ ~stops THEN 1 ELSE 0)
              ending == stops \/ full >= remaining
          IN  /\ len' = len + CommittedTokens(accepted, emitted, ending)
              /\ remaining' = remaining - Lesser(full, remaining)
              /\ pc' = IF ending THEN "done" ELSE "draft"
  /\ window' = <<>>
  /\ UNCHANGED <<specK, host, copy>>

\* An error inside a window: GemmaF16KvResidentErrorGuard empties the map.
Fail == /\ pc \in {"draft", "owner", "sharer", "verdict"}
        /\ copy' = NoCopy /\ window' = <<>> /\ pc' = "done"
        /\ UNCHANGED <<specK, host, len, remaining>>

\* The next request clears the sequence, and with it the map; the host buffer
\* keeps its rows.  A resumed one has its snapshot's rows back instead of a
\* prompt's: either way rows 1..PromptRows are new.
NextRequest == /\ pc = "done"
               /\ \E prompt \in Prompts : host' = Overwrite(host, 0, prompt)
               /\ specK' \in SpecKs /\ copy' = NoCopy /\ len' = PromptRows
               /\ remaining' \in 1..(MaxRows - PromptRows)
               /\ window' = <<>> /\ pc' = "draft"

Next == \/ Draft \/ OwnerCopies \/ OwnerFused \/ SharerReads
        \/ Commit \/ Fail \/ NextRequest
Spec == Init /\ [][Next]_vars

-----------------------------------------------------------------------------
(* Properties. *)

\* Types; a copy has whole tiles and is never filled past them.
TypeOK == /\ host \in [1..MaxRows -> Tokens \cup {Zero}]
          /\ len \in 0..MaxRows /\ remaining \in 0..MaxRows
          /\ copy.capacity \in Nat /\ copy.capacity % Tile = 0
          /\ copy.rows \in [1..copy.capacity -> Tokens \cup {Zero}]
          /\ copy.filled \in 0..copy.capacity
          /\ pc \in {"draft", "owner", "sharer", "verdict", "done"}

\* Whenever a layer's attention has read the copy, every row it may see is the
\* host's row, and the rest of the last tile, which the kernel reads too, is
\* zero: no row of a rejected draft, of a window that took the other path or of
\* the request before ("Host F16 cache가 canonical").
AttendsToHostRows ==
  (pc \in {"sharer", "verdict"} /\ IsResidentSize(Len(window))) =>
    /\ KvLen <= copy.capacity
    /\ \A i \in 1..KvLen : copy.rows[i] = host[i]
    /\ \A i \in (KvLen + 1)..copy.capacity : copy.rows[i] = Zero
=============================================================================
