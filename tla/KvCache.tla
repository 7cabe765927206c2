------------------------------ MODULE KvCache ------------------------------
(* The KV cache of one engine: kv_cache.rs (LayerCache, KVCache) and           *)
(* kv_cache/kvarn.rs (KvarnLayerCache).  A forward writes its rows layer by    *)
(* layer and may fail between any two of them; speculative decoding rolls      *)
(* rows back; a request's snapshot is restored later.  An F16 layer is a flat  *)
(* buffer that keeps stale rows.  A KVarN layer keeps the first Sink rows as   *)
(* they are, quantises every full Group of rows after them into a block, and   *)
(* keeps the rest in a tail; rolling back into a block dequantises it.         *)
(* A row is the token it was computed for, and whether it went through the     *)
(* quantiser.  Key and value buffers change together and are one row here.     *)
EXTENDS Naturals, Sequences, SequencesExt, FiniteSetsExt

CONSTANTS Tokens,      \* what a row may be computed for
          Zero,        \* the content of a row nobody wrote
          Formats,     \* the format of each layer, in order: "f16" or "kvarn"
          Sink,        \* KvarnConfig::sink_tokens
          Group,       \* KvarnConfig::group
          MaxSeqLen,   \* max_seq_len
          MaxChunk,    \* bound: the rows of one forward
          MaxForwards  \* bound: the forwards and commits of a behaviour

ASSUME SinkAssumption == Sink \in Nat
ASSUME GroupAssumption == Group \in Nat \ {0}
ASSUME LengthAssumption == MaxSeqLen \in Nat
ASSUME FormatsAssumption == Formats \in Seq({"f16", "kvarn"})
ASSUME BoundsAssumption == MaxChunk \in Nat /\ MaxForwards \in Nat

VARIABLES layers,      \* KVCache::layers
          currentLen,  \* KVCache::current_len
          forward,     \* the forward under way: position, rows, layer reached
          saved,       \* a snapshot some request keeps (KVCacheSnapshot)
          text,        \* the tokens the cache stands for; in no field of the code
          begun        \* the forwards and commits so far; only bounds the model

vars == <<layers, currentLen, forward, saved, text, begun>>

Layers == DOMAIN Formats
Row == [tok : Tokens \cup {Zero}, coarse : BOOLEAN]
ZeroRow == [tok |-> Zero, coarse |-> FALSE]
ZeroRows(n) == [i \in 1..n |-> ZeroRow]
RowsFor(chunk) == [i \in 1..Len(chunk) |-> [tok |-> chunk[i], coarse |-> FALSE]]
Lesser(a, b) == IF a <= b THEN a ELSE b
Greater(a, b) == IF a >= b THEN a ELSE b
First(s, n) == SubSeq(s, 1, n)
From(s, n) == SubSeq(s, n + 1, Len(s))

-----------------------------------------------------------------------------
(* KvarnLayerCache. *)

KvarnCache == [fmt : {"kvarn"}, sink : Seq(Row), blocks : Seq(Seq(Row)),
               device : Seq(Seq(Row)), tail : Seq(Row), stored : Nat]

NewKvarn == [fmt |-> "kvarn", sink |-> <<>>, blocks |-> <<>>,
             device |-> <<>>, tail |-> <<>>, stored |-> 0]

\* KvarnBlock::quantize followed by dequantize_f16: the row that comes back is
\* the one that went in, less its precision.
Quantize(rows) == [i \in 1..Len(rows) |-> [rows[i] EXCEPT !.coarse = TRUE]]

\* append_row for each row of a range: into the sink while there is room.
AppendRows(c, rows) ==
  LET room == IF c.stored < Sink THEN Lesser(Sink - c.stored, Len(rows)) ELSE 0
  IN  [c EXCEPT !.sink = @ \o First(rows, room),
                !.tail = @ \o From(rows, room),
                !.stored = @ + Len(rows)]

\* compact: every full group at the head of the tail becomes a block, and its
\* record is appended to the device image.
Compact(c) ==
  LET full == IF c.stored <= Sink THEN 0 ELSE Len(c.tail) \div Group
      made == [b \in 1..full |-> Quantize(SubSeq(c.tail, (b - 1) * Group + 1, b * Group))]
  IN  [c EXCEPT !.blocks = @ \o made, !.device = @ \o made,
                !.tail = From(@, full * Group)]

\* A plausible slip: the cut leaves the device image as it was.
CutForgetsDevice(c, len) ==
  LET after == len - Sink
      kept == after \div Group
  IN  IF after < Len(c.blocks) * Group
      THEN [c EXCEPT !.tail = IF after % Group > 0
                              THEN First(c.blocks[kept + 1], after % Group) ELSE <<>>,
                     !.blocks = First(@, kept), !.stored = len]
      ELSE [c EXCEPT !.tail = First(@, after - Len(c.blocks) * Group), !.stored = len]

\* truncate_to, when the cut leaves some row after the sink: a block that is
\* cut in two gives its head back to the tail, dequantised.
CutAfterSink(c, len) ==
  LET after == len - Sink
      kept == after \div Group
  IN  IF after < Len(c.blocks) * Group
      THEN [c EXCEPT !.tail = IF after % Group > 0
                              THEN First(c.blocks[kept + 1], after % Group) ELSE <<>>,
                     !.blocks = First(@, kept), !.device = First(@, kept),
                     !.stored = len]
      ELSE [c EXCEPT !.tail = First(@, after - Len(c.blocks) * Group), !.stored = len]

TruncateTo(c, upTo) ==
  LET len == Lesser(upTo, c.stored)
  IN  IF len <= Sink
      THEN [c EXCEPT !.sink = First(@, len), !.blocks = <<>>, !.device = <<>>,
                     !.tail = <<>>, !.stored = len]
      ELSE CutAfterSink(c, len)

\* A plausible slip: rows after the position stay, and the new ones follow them.
WriteWithoutCut(c, pos, rows) ==
  AppendRows(c, ZeroRows(Greater(pos, c.stored) - c.stored) \o rows)

\* write_bits_range: rows at or after the position are dropped first, a gap
\* before it is filled with zeros.
WriteKvarn(c, pos, rows) ==
  LET cut == IF pos < c.stored THEN TruncateTo(c, pos) ELSE c
  IN  AppendRows(cut, ZeroRows(pos - cut.stored) \o rows)

TailStart(c) == Sink + Len(c.blocks) * Group

\* materialize: sink, blocks and tail, cut to len rows.
Materialize(c, len) ==
  LET blockStart(b) == Sink + (b - 1) * Group
      reached == {b \in 1..Len(c.blocks) : blockStart(b) < len}
      parts == [b \in 1..Cardinality(reached) |->
                  First(c.blocks[b], Lesser(len - blockStart(b), Group))]
  IN  First(c.sink, Lesser(len, Sink)) \o FlattenSeq(parts)
        \o (IF len > TailStart(c) THEN First(c.tail, len - TailStart(c)) ELSE <<>>)

\* A plausible slip: the end of the range is not applied.
OverlapUnclipped(start, end, regionStart, rows) ==
  SubSeq(rows, Greater(start, regionStart) - regionStart + 1, Len(rows))

\* materialize_range: the overlap of each region with [start, end).
Overlap(start, end, regionStart, rows) ==
  SubSeq(rows, Greater(start, regionStart) - regionStart + 1,
               Lesser(end, regionStart + Len(rows)) - regionStart)

MaterializeRange(c, start, end) ==
  LET part(b) == Overlap(start, end, Sink + (b - 1) * Group, c.blocks[b])
  IN  Overlap(start, end, 0, c.sink)
        \o FlattenSeq([b \in 1..Len(c.blocks) |-> part(b)])
        \o Overlap(start, end, TailStart(c), c.tail)

\* view and attention_decode: each row a query attends to, with the position it
\* is attended at.  The view cuts sink and tail to len; of the blocks it passes
\* all, and process_quantized_block skips the positions at or after len.
ViewRows(c, len) ==
  LET tailRows == IF len > TailStart(c) THEN len - TailStart(c) ELSE 0
  IN  {<<i, c.sink[i]>> : i \in 1..Lesser(len, Sink)}
        \cup {<<Sink + (br[1] - 1) * Group + br[2], c.blocks[br[1]][br[2]]>> :
                br \in {x \in (1..Len(c.blocks)) \X (1..Group) :
                          Sink + (x[1] - 1) * Group + x[2] <= len}}
        \cup {<<TailStart(c) + i, c.tail[i]>> : i \in 1..tailRows}

-----------------------------------------------------------------------------
(* LayerCache: either storage. *)

NewLayer(fmt) == IF fmt = "kvarn" THEN NewKvarn
                 ELSE [fmt |-> "f16", rows |-> ZeroRows(MaxSeqLen)]

\* grow_f16_buffers, then the copy.
WriteF16(c, pos, rows) ==
  LET end == pos + Len(rows)
      grown == c.rows \o ZeroRows(Greater(end, Len(c.rows)) - Len(c.rows))
  IN  [c EXCEPT !.rows = [i \in 1..Len(grown) |->
                            IF i \in (pos + 1)..end THEN rows[i - pos] ELSE grown[i]]]

WriteRange(c, pos, rows) ==
  IF c.fmt = "kvarn" THEN WriteKvarn(c, pos, rows) ELSE WriteF16(c, pos, rows)

CompactLayer(c) == IF c.fmt = "kvarn" THEN Compact(c) ELSE c
TruncateLayer(c, len) == IF c.fmt = "kvarn" THEN TruncateTo(c, len) ELSE c

\* read_up_to_materialized
ReadUpTo(c, len) == IF c.fmt = "kvarn" THEN Materialize(c, len) ELSE First(c.rows, len)

ReadsInitialized(c, len) == c.fmt = "kvarn" => len <= c.stored

\* LayerCache::convert_to_f16
ToF16(c, len, reserve) ==
  LET size == Lesser(Greater(reserve, len), MaxSeqLen)
      known == Materialize(c, Lesser(len, c.stored))
  IN  IF c.fmt = "kvarn"
      THEN [fmt |-> "f16", rows |-> known \o ZeroRows(size - Len(known))]
      ELSE [c EXCEPT !.rows = @ \o ZeroRows(Greater(size, Len(@)) - Len(@))]

-----------------------------------------------------------------------------
(* KVCache, as an engine drives it. *)

Idle == [pos |-> 0, chunk |-> <<>>, layer |-> 0, written |-> FALSE]
Running == forward # Idle
NoSnapshot == [layers |-> <<>>, len |-> 0, text |-> <<>>]

Init == /\ layers = [l \in Layers |-> NewLayer(Formats[l])]
        /\ currentLen = 0
        /\ forward = Idle
        /\ saved = NoSnapshot
        /\ text = <<>>
        /\ begun = 0

\* A plausible slip: the length is not looked at.
ForwardWithoutRoomCheck ==
  /\ ~Running /\ begun < MaxForwards /\ begun' = begun + 1
  /\ \E chunk \in UNION {[1..n -> Tokens] : n \in 1..MaxChunk} :
       forward' = [pos |-> currentLen, chunk |-> chunk, layer |-> 1, written |-> FALSE]
  /\ UNCHANGED <<layers, currentLen, saved, text>>

\* A forward takes its position from current_len.  One that would run past
\* max_seq_len panics in an assertion of its first write and is left out.
BeginForward ==
  /\ ~Running /\ begun < MaxForwards /\ begun' = begun + 1
  /\ \E chunk \in UNION {[1..n -> Tokens] : n \in 1..MaxChunk} :
       /\ currentLen + Len(chunk) <= MaxSeqLen
       /\ forward' = [pos |-> currentLen, chunk |-> chunk, layer |-> 1, written |-> FALSE]
  /\ UNCHANGED <<layers, currentLen, saved, text>>

\* append and append_bits_range raise current_len at the last layer; so does
\* nothing when the layer's rows come through replace_layer_f16_range.
WriteLayer(raises) ==
  /\ Running /\ ~forward.written /\ forward.layer <= Len(Formats)
  /\ layers' = [layers EXCEPT ![forward.layer] =
                  WriteRange(@, forward.pos, RowsFor(forward.chunk))]
  /\ forward' = [forward EXCEPT !.written = TRUE]
  /\ LET end == forward.pos + Len(forward.chunk)
     IN  IF raises /\ forward.layer = Len(Formats) /\ end > currentLen
         THEN currentLen' = end /\ text' = text \o forward.chunk
         ELSE UNCHANGED <<currentLen, text>>
  /\ UNCHANGED <<saved, begun>>

AppendLayer == WriteLayer(TRUE)
ReplaceLayer == WriteLayer(FALSE)

\* After its attention, a KVarN layer is compacted (compact_layer).
FinishLayer ==
  /\ Running /\ forward.written
  /\ layers' = [layers EXCEPT ![forward.layer] = CompactLayer(@)]
  /\ forward' = [forward EXCEPT !.written = FALSE, !.layer = @ + 1]
  /\ UNCHANGED <<currentLen, saved, text, begun>>

\* set_len
SetLen(len) == /\ layers' = [l \in Layers |-> TruncateLayer(layers[l], len)]
               /\ currentLen' = len

\* The end of a forward that succeeded.
FinishForward ==
  /\ Running /\ forward.layer > Len(Formats)
  /\ SetLen(forward.pos + Len(forward.chunk))
  /\ text' = First(text, forward.pos) \o forward.chunk
  /\ forward' = Idle
  /\ UNCHANGED <<saved, begun>>

\* Any `?` between two layers, or between a layer's write and its compaction.
AbandonForward == /\ Running
                  /\ forward' = Idle
                  /\ UNCHANGED <<layers, currentLen, saved, text, begun>>

\* commit_batched_verify: rows computed elsewhere enter every layer at once,
\* and are not compacted.
CommitVerified ==
  /\ ~Running /\ begun < MaxForwards /\ begun' = begun + 1
  /\ \E chunk \in UNION {[1..n -> Tokens] : n \in 1..MaxChunk} :
       /\ currentLen + Len(chunk) <= MaxSeqLen
       /\ layers' = [l \in Layers |-> WriteRange(layers[l], currentLen, RowsFor(chunk))]
       /\ currentLen' = currentLen + Len(chunk)
       /\ text' = text \o chunk
  /\ UNCHANGED <<forward, saved>>

\* set_len of a checkpoint, commit_kv_through.
\* These only shorten.  The draft engine of two models is also set past its rows
\* (TwoModel!DraftInStep); its cache is not this one, and the rows WriteKvarn fills
\* in behind such a length are not reached here.
Rollback == /\ ~Running
            /\ \E len \in 0..currentLen :
                 len < currentLen /\ SetLen(len) /\ text' = First(text, len)
            /\ UNCHANGED <<forward, saved, begun>>

Snapshot ==
  /\ ~Running
  /\ saved' = [layers |-> [l \in Layers |->
                  IF layers[l].fmt = "kvarn" THEN TruncateTo(layers[l], currentLen)
                  ELSE [layers[l] EXCEPT !.rows = First(@, currentLen)]],
               len |-> currentLen, text |-> text]
  /\ UNCHANGED <<layers, currentLen, forward, text, begun>>

\* KVCache::clear; F16 buffers keep what they hold.
Cleared == [l \in Layers |-> TruncateLayer(layers[l], 0)]

Clear == /\ ~Running /\ currentLen > 0
         /\ layers' = Cleared /\ currentLen' = 0 /\ text' = <<>>
         /\ UNCHANGED <<forward, saved, begun>>

\* restore_snapshot: a saved layer goes only into a layer of its own storage.
StorageMatches == \A l \in Layers : layers[l].fmt = saved.layers[l].fmt

RestoredLayer(c, s) ==
  IF c.fmt = "kvarn" THEN s
  ELSE [c EXCEPT !.rows = s.rows \o From(@, Len(s.rows))]

\* restore_sequence_state clears first.
Restore ==
  /\ ~Running /\ saved # NoSnapshot /\ StorageMatches
  /\ layers' = [l \in Layers |-> RestoredLayer(Cleared[l], saved.layers[l])]
  /\ currentLen' = saved.len /\ text' = saved.text
  /\ UNCHANGED <<forward, saved, begun>>

\* A KVarN snapshot meets a cache that was converted since: an error, and the
\* cache is left clear.
RestoreRefused ==
  /\ ~Running /\ saved # NoSnapshot /\ ~StorageMatches
  /\ layers' = Cleared /\ currentLen' = 0 /\ text' = <<>>
  /\ UNCHANGED <<forward, saved, begun>>

\* convert_to_f16, before the batch windows of an external drafter.
ConvertToF16 ==
  /\ ~Running /\ \E l \in Layers : layers[l].fmt = "kvarn"
  /\ \E reserve \in {currentLen + 1, MaxSeqLen} :
       layers' = [l \in Layers |-> ToF16(layers[l], currentLen, reserve)]
  /\ UNCHANGED <<currentLen, forward, saved, text, begun>>

Next == \/ BeginForward \/ AppendLayer \/ ReplaceLayer \/ FinishLayer
        \/ FinishForward \/ AbandonForward \/ CommitVerified \/ Rollback
        \/ Snapshot \/ Clear \/ Restore \/ RestoreRefused \/ ConvertToF16

Spec == Init /\ [][Next]_vars
-----------------------------------------------------------------------------
(* Properties. *)

F16Cache == [fmt : {"f16"}, rows : Seq(Row)]
LayerCache == KvarnCache \cup F16Cache

\* Types; a forward knows the layer it has reached.
TypeOK == /\ layers \in [Layers -> LayerCache]
          /\ currentLen \in 0..MaxSeqLen
          /\ text \in Seq(Tokens)
          /\ forward.pos \in Nat /\ forward.chunk \in Seq(Tokens)
          /\ forward.layer \in 0..(Len(Formats) + 1) /\ forward.written \in BOOLEAN
          /\ saved.len \in 0..MaxSeqLen

\* What every method of KvarnLayerCache assumes of its fields: the sink is full
\* before anything follows it, blocks hold exactly Group rows, the device image
\* has one record per block and in their order, the tail holds what is left.
\* Sink rows never lose precision; a block's rows always have.
LaidOut(c) ==
  /\ Len(c.sink) = Lesser(c.stored, Sink)
  /\ c.stored <= Sink => c.blocks = <<>> /\ c.tail = <<>>
  /\ c.stored > Sink => c.stored = Sink + Len(c.blocks) * Group + Len(c.tail)
  /\ \A b \in 1..Len(c.blocks) : Len(c.blocks[b]) = Group
  /\ c.device = c.blocks
  /\ \A i \in 1..Len(c.sink) : ~c.sink[i].coarse
  /\ \A b \in 1..Len(c.blocks) : \A i \in 1..Len(c.blocks[b]) : c.blocks[b][i].coarse

\* The layout holds in the cache and in the snapshot, whatever forwards were
\* abandoned and wherever a rollback cut (materialize, view and the device
\* attention index by it without checking).
LayoutExact ==
  /\ \A l \in Layers : layers[l].fmt = "kvarn" => LaidOut(layers[l])
  /\ saved # NoSnapshot =>
       \A l \in Layers : saved.layers[l].fmt = "kvarn" => LaidOut(saved.layers[l])

HoldsText(cs, len, toks) ==
  /\ Len(toks) = len
  /\ \A l \in Layers : /\ ReadsInitialized(cs[l], len)
                       /\ \A i \in 1..len : ReadUpTo(cs[l], len)[i].tok = toks[i]

\* The first current_len rows of every layer are the rows of the tokens the
\* cache stands for: an abandoned forward, a rolled-back draft or the request
\* before leaves no row behind, in the cache or in the snapshot.
RowsAreText == /\ HoldsText(layers, currentLen, text)
               /\ saved # NoSnapshot => HoldsText(saved.layers, saved.len, saved.text)

\* The three ways of reading a KVarN layer agree: a range is that slice of the
\* whole, and attention over the view meets every position once, with its row.
ReadsAgree ==
  \A l \in Layers : layers[l].fmt = "kvarn" =>
    LET c == layers[l] IN
    /\ \A end \in 0..c.stored : \A start \in 0..end :
         MaterializeRange(c, start, end) = SubSeq(Materialize(c, c.stored), start + 1, end)
    /\ \A len \in 0..c.stored :
         ViewRows(c, len) = {<<i, Materialize(c, len)[i]>> : i \in 1..len}
=============================================================================
