# A TLA+ verification project for runNburn

runNburn is a local LLM runtime in Rust: it loads one GGUF model, runs it on
whatever backends the build has, and serves it from a command line, a C ABI or
an OpenAI-compatible HTTP server. This directory models the stateful parts of
that program in TLA+, model-checks them with TLC on small instances and proves
the properties that matter most with TLAPS for every instance.

Everything is translated from the Rust source. Paths below are relative to
`crates/`.

## 1. Inventory

### 1.1 What the system is made of

| Part | State it keeps | Operations | Modelled |
|---|---|---|---|
| Byte-budgeted LRU policy (`rnb-memory/src/byte_lru.rs`) | entries with size and stamp, heap of (stamp, key) pairs cleaned lazily, running byte counter, clock | `touch`, `pop_oldest`, `remove` | `ByteLru`, `LruSpec`, `LruOrder` |
| Response and conversation store (`rnb-cli/src/server/session_store.rs`) | two maps, two LRU policies, one byte budget | resolve, commit, snapshot_fits, get, input_items, delete, create, TTL pruning | `ResponseStore` |
| The worker's use of the store (`response_output.rs`, `generation.rs`) | the request between resolve and commit | generate, capture a KV snapshot, commit, answer | `ResponseStore`, `Reply` (partly) |
| Server threads (`server/mod.rs`, `lifecycle.rs`, `worker.rs`) | JoinHandles, sockets, tokens, shutdown flag | accept, handle, submit, run, monitor, stop | `Server` |
| Execution queue (`rnb-scheduler/src/request_queue.rs`) | bounded FIFO, senders, receiver | submit, receive | `Server` |
| HTTP reading and writing (`server/http.rs`) | bytes so far, deadline | read_request, write_json_response, SSE | reading in `Server`, as "arrives" or "is refused"; writing in `Reply` |
| Request preparation (`server/responses.rs`, `chat`, `response_input`) | none | validate, normalise, render | no: stateless JSON |
| Generation loop and stop filters (`rnb-llm/src/generate.rs`) | position, held-back text, cancellation scope | prefill, decode, `TextStopFilter`, prompt resumption | `GreedyDecode` (the loop; not the filters) |
| KV cache (`rnb-llm/src/kv_cache.rs`, `kv_cache/kvarn.rs`) | per-layer rows in one of two storages, `current_len`, snapshots | append, compact, set_len, snapshot, restore, clear, convert | `KvCache` (partly) |
| Speculative decoding (`rnb-llm/src/speculative.rs`), external drafter (`mtp_generate.rs`) | checkpoint, drafts, committed prefix; the device copy of the rows | draft, verify, accept, restore, replay | `VerifyPlan`, `Speculative`, `TwoModel`, `KvResident` (partly) |
| Sparse expert cache (`rnb-memory/src/sparse_expert_cache.rs`) | expert bundles under a byte budget, reuse history with decay | touch, observe, admit | no; its policy is `ByteLru` |
| Scheduler (`rnb-scheduler/src/lib.rs`) | none | placement, profile and prefill-path selection | no: pure selection |
| C ABI (`rnb-ffi/src/lib.rs`) | Ready / Generating / Done | prompt, next token, reset | no: sequential and small |
| Memory policy (`rnb-runtime/src/policy`) | none | budgets from probed RAM | no: `MaxBytes` stands for any result |
| Backends, kernels, quantisation, loader, model crates, platform probes, tools | device state, tensors | numerics, parsing, measuring | `KvResident` for one device copy; otherwise out of a model checker's reach |

The repository has half a million lines of Rust; over half are compute backends
and kernels. The project goes where the program's own protocol is: who owns a
request, what the client is told, what survives which budget, which rows stand
for which text after a rollback, and what a restart of a conversation may reuse.

### 1.2 How the parts interact

One server process has one engine. The main thread polls a non-blocking
listener and gives each connection a handler thread. The handler reads the
request, starts a detached monitor thread that watches the client and the
shutdown flag, submits the work to a bounded queue and ends. The worker thread
owns the engine and the response store; it takes one request at a time, so the
store needs no lock. A `/v1/responses` request is resolved against the store
(which refreshes LRU entries), generated for seconds or minutes, and committed.
The commit writes up to two records and two snapshots and then evicts down to
the budget through two `ByteLruPolicy` values that know only keys and sizes.

A signal sets the shutdown flag. The accept loop leaves at its next test, the
monitors cancel the tokens of what is queued or running, main joins the
handlers, drops its sender and joins the worker, which ends when the last
sender is gone and the queue is empty.

Inside a generation, the loop asks the engine for one token at a time, or for
several at once: a drafter (the engine's own first layers, a second engine, or an
external one) guesses, the target verifies the guesses in one forward, and what
it refuses is rolled back. Every forward writes its rows into the KV cache layer
by layer and takes its position from `current_len`; every rollback is a
`set_len`. On Metal the rows of a Gemma target are also kept in a device copy
that is told only what changed.

### 1.3 What is hard, and what must hold

* **Byte LRU**: pairs of re-touched keys go stale in the heap, and the counter
  is kept by increments. Must hold: the counter is exact, the budget is
  respected, and what callers see is an ordinary LRU.
* **Store**: one commit edits six structures before it enforces the budget;
  snapshots are admitted by an estimate; time passes between resolve and
  commit; responses expire. Must hold: maps and policies agree, the budget
  holds, a commit that reports success has kept its records, a snapshot never
  covers anything but the record's history, nothing expired is read.
* **Server threads**: four kinds of threads with panics, a full queue, clients
  that leave, a flag that is polled. Must hold: an accepted request is always
  answered, dropped for a reason or refused; nothing is kept by a dead worker;
  what is held is bounded; a shutdown ends.

* **KV cache**: a forward can fail between any two layers; a quantising layer has
  three regions and a device image that must move together; a flat one keeps
  stale rows on purpose. Must hold: the layout, and that the first `current_len`
  rows of each layer are the rows of the text.
* **Speculation**: guesses run through the same state that the answer is computed
  from, and picks are made in five places that do not treat an ignored EOS alike.
  Must hold: the text is what the target alone would have produced, and the state
  at the start of a round is the text's.
* **Device copy**: only rows from a window's start on are copied. Must hold: what
  attention reads is what the host has.
* **Replies**: any write may break off and the error path does not know what was
  written. Must hold: one reply per request, which agrees with the store and ends.

The `hazards` list in `PROJECT.json` gives each of these at its line, with the
properties that would notice it going wrong.

## 2. Modules

| Module | What it is |
|---|---|
| `LruOrder` | Pure operators on an LRU value: order and sizes; touch, remove, trim to a budget. |
| `LruSpec` | The abstract policy: a state machine over one `LruOrder` value. |
| `ByteLru` | `byte_lru.rs` as written: entries, heap with stale pairs, counter, clock. Implements `LruSpec`. |
| `ResponseStore` | The store and the worker's calls of it. Its two policies are `LruOrder` values, which `ByteLru` implements. |
| `Server` | All threads, the queue and the shutdown. |
| `Reply` | What one client reads of one request: worker loop, handlers, writers, with writes that fail. |
| `GreedyDecode` | The abstract generation, which is the plain loop: the target's own tokens, EOS suppressed if the request says so, until something ends them. |
| `VerifyPlan` | The pure decisions of `speculative.rs`: how to verify, what to run again. |
| `Speculative`, `TwoModel` | The two speculative loops. Both implement `GreedyDecode`, both use `VerifyPlan`. |
| `KvCache` | Both storages of a layer, and the cache under forwards, rollbacks, snapshots and conversion. |
| `KvResident` | The device copy of the rows under an external drafter's windows. |
| `MCByteLru`, `MCResponseStore`, `MCServer`, `MCSpeculative`, `MCTwoModel`, `MCKvCache` | What TLC needs beside them: the loop `ByteLru` gives in closed form, the symmetry of clients and of tokens, the tokens that stand in for an ignored EOS, the list of layers. |
| `ByteLruProofs`, `ResponseStoreProofs`, `ServerProofs`, `ReplyProofs`, `SpeculativeProofs`, `TwoModelProofs`, `KvCacheProofs`, `KvResidentProofs` | Theorems. |

### 2.1 ByteLru

`entries`, `oldest`, `resident_bytes` and `clock` are the struct's fields, with
the heap as a set of pairs; `evicted` is what the last call returned. The
eviction loop of `touch` is not unrolled: `EvictionCut` is the stamp at which
the loop stops, and everything live up to it is popped. That closed form is
what the proofs can use; `CutMatchesLoop` says that it is the loop, written out
one `pop_oldest` at a time, in every reachable state. `InTouchOrder` lists keys
by their stamps; it is what `evicted` is filled with, and the refinement mapping.

### 2.2 ResponseStore

| Code | Model |
|---|---|
| `responses`, `conversations`, `records_lru`, `snapshots_lru` | the fields of `store` |
| `resolve`, then `prepare` and generation, then `capture_sequence_state` and `commit` | `Resolve`, `BeginGeneration`, `FinishGeneration`; `Abandon` for every way not to reach the commit |
| `get_response`, `get_input_items` | `ReadResponse` |
| `delete_response`, `create_conversation`, `get_conversation`, `delete_conversation` | actions of those names |
| `prune_expired`, `enforce_budget`, `remove_record`, `remove_response`, `drop_snapshot` | operators, part of the actions that call them |
| `unix_timestamp` | `now`, moved by `Tick` at any point, also between resolve and commit |

A history is a sequence of items; an item is `InputItem` or the response that
produced it and weighs one byte, so the budget arithmetic of the code (response
+ history + next history, metadata + next history) keeps its form. A snapshot
is the history it covers and a size, which may differ from the estimate that
admitted it. `enforce_budget` is given in closed form: the snapshots are trimmed
to what the records leave of the budget, the records to the budget itself.

The engine is single-threaded, so no two requests interleave inside the store;
`pending` is the one between its resolve and its end. What does interleave is
the clock and the cancellation.

### 2.3 Server

`main`, `worker`, `handler[c]` and `monitor[c]` are where the threads are;
`where[c]` says who owns connection `c`: the backlog, the handler (`reading`,
`monitor`, `submit`), the queue, the worker, or nobody. An action is what a
thread does between two points at which another thread could notice: the accept
loop tests the flag and reaps in one action and accepts in the next; the monitor
tests `finished` in one and the flag and the socket in the next; the worker's
dequeue and its test of the token are one, because a cancellation between them
has the same effect as one before.

Failures that the code handles are actions: the load, `accept`, the spawning of
a handler, the cloning of the stream (a request without a monitor), the spawning
of a monitor (a panic of the handler), a read that fails or is too late, and a
panic of the worker. No profile of the workspace sets `panic = "abort"` and
nothing catches an unwind on these paths, so a panic ends its thread: the work is
dropped first, the receiver with what is still queued later (`RunPanics`,
`DropReceiver`), and a submission in between is still accepted.

`Pipelined` clients have sent bytes beyond their request. `peek` returns those
for ever, so the end of their stream is not seen, while a reset is.

### 2.4 Reply

| Code | Model |
|---|---|
| `worker_loop` | `Drop`, `Take`, `WriteError` |
| `handle_worker_request` | `Refuse`, `Route` |
| `complete_chat`, `complete_response` | `json` requests: `GenerationEnds`, `Commit`, `WriteBody` |
| `stream_chat_completion`, the tool stream, `stream_response` | `Headers`, `WriteNext` over a list of events, `WriteDelta`, the closing lists |
| `write_failure_events`, the chat error path | `Failing`; the chat path ignores failed writes (`Insists`) |
| `monitor_connection` | `Cancel`, at any moment |

`wire` is what reached the client, each item whole or broken off. A write has
three outcomes, whole, part and none, and a failed one does not close the
socket: the write timeout is reported once and a later write may succeed.
`Server` treats all of this as one answer; `Reply` opens that step.

### 2.5 GreedyDecode, VerifyPlan, Speculative, TwoModel

An engine is what it has taken in: `kv` is one token per row after the prompt,
`hidden` the tokens that went through recurrent layers. What it picks next is
`truth` at that position if both are the text so far, and `Wrong` otherwise. So
a rejected draft left in either part shows in the output. Drafts are any token,
which covers every drafter, good or bad.

`Speculative` is `generate_stream_speculative` without MTP: checkpoint, K drafts,
restore, then verification in a batch (with or without the bonus row, by argmax
or by logits) or one row at a time for the architectures that need it, and the
four ways a round ends (`CommitSteps`, `CommitWithoutBonus`, `CommitFails`,
`CommitBatch` with its replay). `opt` is the architecture and the environment's
switches. `TwoModel` is `generate_stream_two_model`: one target, a second engine
as drafter which is cut to the target's length; rows it never computed are
`Hole`. A cut beyond what was written makes holes as `set_len` does.

`ignore_eos`. The plain loop suppresses the logit of EOS and takes the next best
token: that is `GreedyDecode!Text`, with the constant `NextBest` for what comes
second. `generate_stream` sends such a request to the speculative loop as well and
tells the engine to exclude EOS (`set_backend_argmax_excluded_token`). Not every
pick looks at that:

| Pick | EOS when ignored | Model |
|---|---|---|
| one argmax step: a sequential row, the replay, the last draft of a window without bonus | excluded | `ByStep` |
| rows of a batch (`finalize_prefill_argmax_tokens`) | eligible | `truth` |
| logits: the prompt's, and every path when argmax verification is off | eligible | `truth` |
| both engines of `generate_stream_two_model` | eligible | `truth` |

and no stop test of the two loops does (`SampleEos`, `AcceptEos`). So such a
generation may end where the plain loop goes on. `ImplementsGreedy` says what is
left: up to that point the text is the plain loop's. `SeenEnd` is the mapping: an
ending at an ignored EOS is seen as a cut, and all other endings as themselves
(a failure as the refusal that caused it). That the ending is wrong is section 5.
A request's `stop_tokens` are tested at the same places in all loops, EOS ignored
or not, and are not modelled apart from EOS.

### 2.6 KvCache

A row is the token it was computed for and whether it went through the
quantiser, so quantisation is modelled by what it does to a row: it comes back
as the same row, less exact. A KVarN layer has `sink`, `blocks`, `device`, `tail`
and `stored` as in the struct; the loops of `append_row` and `compact` are closed
forms. `materialize`, `materialize_range` and the view that attention walks are
operators. An F16 layer is a flat buffer.

An engine's forward is several actions: `BeginForward`, then `AppendLayer` or
`ReplaceLayer` and `FinishLayer` per layer, then `FinishForward`; `AbandonForward`
is every `?` in between. `CommitVerified`, `Rollback`, `Snapshot`, `Restore`,
`RestoreRefused`, `Clear` and `ConvertToF16` are calls of those names or of their
callers. `text` is the only thing added: the tokens the cache stands for.

`Rollback` only shortens, as every rollback of a target does. The draft engine of
two models is the exception: `speculative.rs:1662-1665` may set its length past the
rows it wrote (`TwoModel!DraftInStep`, section 5). That engine's cache is outside
`RowsAreText`, and the rows that `WriteKvarn` fills in behind such a length are not
reached in this module.

### 2.7 KvResident

`sync_f16_range`, its two callers on Metal and the loop in
`generate_with_external_drafter` that decides which windows reach it. Only
windows of two or three rows do; the others run on the host alone and the copy
is not told. `host`, `copy`, `len`, `remaining` and `window` are the code's
buffers and counters. One layer owns its rows and one reads them (`SharerReads`
has nothing dirty).

## 3. Runs

| Run | Instance | Shows |
|---|---|---|
| `byte_lru` | 3 keys, sizes 0, 2, 3, 6, budget 5, 5 clock ticks | counter, budget, heap and closed form; refinement of `LruSpec` |
| `response_store` | budget 12, snapshots of 1 or 4, TTL 1, 2 ticks, 3 responses, 1 conversation, 3 items | the nine store properties |
| `response_store_ttl` | the same | the divergence of section 5 |
| `server` | 3 clients that may all leave, 2 handlers, queue of 1 | ownership, reasons for silence, late accepts, quiet exit, the bound on what is held |
| `server_live` | 2 clients that may leave, one pipelined, fair threads, generations that need not end | cancellation reaches the work, every monitor ends; if generations end, so do a shutdown and every connection |
| `reply` | all seven kinds of request, 2 pieces of text | what a client reads is one reply, agrees with the store, ends |
| `speculative` | Llama, GLM and Qwen3.5 targets, every switch, EOS ignored or not, 2 tokens and an end token, 4 tokens, 2 drafts | state at the start of a round; the token after a rejection; refinement of `GreedyDecode` |
| `speculative_refusal` | Qwen3.5, forced batch without bonus row | the failure of section 5 |
| `speculative_ignore_eos` | Llama, EOS ignored | the early end of section 5 |
| `two_model` | Llama and GLM targets, EOS ignored or not, 4 tokens, 2 drafts | the drafter holds nothing refused; refinement of `GreedyDecode` |
| `kv_cache` | a KVarN layer before an F16 one, sink 1, groups of 2, 5 rows, chunks up to 2, 4 forwards, 2 tokens | layout, rows are the text's, three readings agree |
| `kv_resident` | `spec_k` 1 to 3, tiles of 4, 8 rows, 1 prompt row | what attention reads of the copy is the host's |

**Why the bounds are enough.** A size of 6 exceeds the LRU budget of 5 alone,
2 + 3 meets it exactly and 0 is the key that frees nothing; five touches make
every pattern of stale pairs over three keys. In the store, the budget of 12
holds about two records or one record and its snapshot, so every commit is near
the edge; one response expires while another is generated; a third response
evicts the first two. In the server, three clients fill two handlers with one
more waiting, or the worker, the queue and a handler.

In `reply` the second piece of text is the one that fails after one arrived; a
third adds nothing. Four tokens and two drafts give a full round, a round cut by
the budget and one after a rejection, with every split of two drafts into
accepted and refused. `NextBest` alternates between the two tokens, so that a pick
made at the wrong position shows. Five rows over a sink of one and groups of two are the
sink, two blocks, and every cut inside and between them; four forwards are
enough to fill, cut, refill and abandon. In `kv_resident` eight rows are two
tiles, so that the copy is outgrown within a request, and `spec_k` 3 is the
first value whose windows start too large and become resident later.

The connections of `server` and the tokens of `kv_cache` are symmetric; the
liveness runs and the refinements use no symmetry.

**Fairness.** `Fairness` is weak fairness of each thread: main never blocks for
ever (accept is polled each 25 ms); a handler reads against a 15 s deadline and
`try_send` does not wait; a monitor's `peek` times out after 100 ms. Of the worker
it asks everything but that a generation ends: only one whose token is cancelled
must, because the decode loop tests the token. `MonitorsEnd` and
`CancellationEndsWork` need no more. `ShutdownCompletes` and `EveryConnectionEnds`
have the premise `GenerationsEnd`: a generation ends by `max_tokens` and each write
by its timeout, and a request without a monitor is not cancelled by anyone. Clients
and signals are not fair. A client that
reads a byte just within each write timeout can hold the worker for longer than
any model step suggests; that is within "a write ends".

Deadlock is checked in every run. `Terminated` is the stopped process of
`Server`, the ended handler of `Reply` and the ended generation; a `ByteLru` can
always remove, a store can always read, a cache can always take a snapshot, and
an ended request of `KvResident` is followed by another.

Each property has a mutant: a plausible slip in a mapped definition, defined
beside it as a plausible slip, that the run reports.

## 4. Proofs

TLAPS checks these for every value of the constants, from the named assumptions
in the modules (types and positive limits); a theorem with a further hypothesis
says so. Every invariant, action property and refinement of section 3 that holds
is stated by a theorem. What remains with TLC is in 4.7.

### 4.1 ByteLru

`HeapAlwaysTracks`, `CounterIsExact`, `BudgetAlwaysRespected`, `LruTypes`,
`PolicyIsLru` (the refinement of `LruSpec`) and `CutIsTheLoop`.

* `HeapInv`: each entry's current pair is in the heap, stamps are unique and none
  is newer than the clock. Popping everything up to any stamp keeps it
  (`PopThroughKeepsHeap`), so for this part the place of the cut does not matter.
* `Account`: the entries are finitely many, their sizes are naturals and the
  counter is their sum. `WeighSplit`, `WeighSame` and `WeighImage` are what the
  proof needs of sums over sets: over two parts, over sizes that agree, and over
  the heap's pairs instead of the keys. With the counter exact, its saturating
  subtraction never saturates.
* The order of recency is *the* list of the keys by stamp: one exists
  (`OrderExists`) and no other does (`OrderUnique`). `PopIsDrop` says that popping
  through a cut takes a front piece off that list; `CutIs` that the cut is the
  stamp of the first key after which the rest fits. Together they make `touch` the
  abstract touch and trim.
* `CutIsTheLoop` follows the loop: after j rounds that popped something the state
  is `After(j)`, the list less its first j keys (`PopOnceIs`), and the loop stops
  where the cut is (`LoopIs`).

### 4.2 ResponseStore

`IndexAlwaysConsistent`, `StoreTypes`, `SnapshotsNeverStale`, `TurnsAreKept`,
`ExpiredNeverServed`, `BudgetAlwaysHeld`, `ChargesAlwaysExact`,
`CommitAlwaysSurvives`, `LossesAreDue` (an action property). Three invariants,
each proved from the ones before it:

* `StoreInv`: maps and policies have the same keys, and ids not yet drawn are in
  none (`IdsFresh`), without which a commit could overwrite. Inside a
  commit maps and policies disagree on purpose; `AgreeBut(s, K)` says on which
  keys, and the lemmas carry K from the conversation's key to none.
* `ContentInv`: a snapshot covers its record's history, a response's history begins
  that of its conversation, and the request between resolve and commit continues
  what its conversation holds by then (`PendingSound`). `Shrunk` covers at once all
  calls that only remove records or drop their snapshots.
* `ChargeInv`: what a policy charges is what the record weighs. Every call is one of
  two kinds. `Cut`: it drops or refreshes keys, and no total grows. `Writes`: it
  charges one or two keys and enforces the budget afterwards; those keys are the
  newest, and since a commit is refused unless they fit together they survive
  the trimming (`NewestSurvives`, `NewestTwoSurvive`).

`BudgetHeld`, `CommitSurvivesItself` and `RecordsLostOnlyWhenDue` are none of them
inductive: they speak of bytes, and `enforce_budget` looks at the policies' own
charges.

### 4.3 Server

`TypeCorrect`, `NothingStranded`, `ClientsAreAnswered`, `OneLateAccept`,
`StopsQuietly` and `HoldingsBounded` (the bound on live handlers, queued and
running requests, a cardinality carried through each accept and each end). The
inductive invariant `ServerInv` has four groups. *Owners*: a handler lives exactly
while it owns its connection, a queued request is in the queue, at most one runs.
*Phases*: an ended worker has an empty queue, one that exited has no sender left,
main knows every live handler until a panicked one cuts `join_all` short.
*Causes*: a cancelled token has a reason; so has a silent close. *Late*: after
a late accept main is on its way to the test. `ExitsQuiet` alone is not
inductive: that main has stopped says nothing of the handlers unless one knows
that the worker outlives their senders.

### 4.4 Reply

`OneReplyPerRequest`, `ClientsReadTheVerdict` and `RepliesHaveLastWords`, for any
number of text pieces, from one inductive invariant. It says for each place of a
handler what can be on the wire and what is still to be written: before the
first write nothing; in a stream a status line and events only; in `error` either
nothing or an item that broke off; and that the list of events still to come ends
in a last word. None of the three properties is inductive, since `WriteError`
looks at neither wire nor list.

### 4.5 Speculative and TwoModel

* `SpeculativeTypes`, `RoundsLeaveTheText`: sampled or not, EOS ignored or not,
  every switch, any vocabulary, budget and number of drafts.
* `SpeculativeIsGreedy` (the refinement of `GreedyDecode`), `StopsOnlyAtEos` and
  `RejectedTargetIsNext` (the comment at `speculative.rs:1258`), without sampling.
  `StopsOnlyAtEos` bounds what the refinement gives away under `ignore_eos`: a
  generation that ends at EOS does so where the target's own pick is EOS.
* `DraftEngineIsClean`, `TargetIsCommitted`, `TwoModelIsGreedy`.

The argument is one sentence: in a round everything an engine holds is a prefix of
one text, the text before the round followed by the first token and the drafts
(`Rows(n)`). The parts of the invariant say how long a prefix: `Between` rounds the
text itself, `Drafting` the checkpoint and what was drafted, `Verified` the rows
of the window, of which the accepted ones are the text, `Ending` what a generation
stops with. After each row verification then picks the target's own token or the
plain loop's (`PickOfText`). The two differ only where the target's is EOS
(`PlainFacts`, from `NextBestAssumption`), which is never emitted, so what a step
emits is the plain loop's token; otherwise it ends or stutters (`StepIsGreedy`). In `TwoModel` the draft engine's rows may also be `Hole`, and
`HoldsOnly` is what survives a cut beyond its length.

Hypotheses: `"NemotronHMoE" \notin Architectures` for `Speculative` and
`NoneRecurrent` for `TwoModel`. They exclude exactly the targets for which
`StateIsCommitted` fails (section 5). `~Sampled` where the abstract text is the
target's argmax: with a temperature there is no one text to refine.

### 4.6 KvCache and KvResident

`LayoutHolds`, `CacheTypes`, `RowsFollowTheText` and `ReadersAgree`, for every sink,
group, maximal length and list of layers. A laid out layer is one list of rows in
three places: `Lays(c, s)` says that sink, joined blocks and tail are consecutive
pieces of s. Each method of `KvarnLayerCache` has two lemmas: it takes a laid out
cache to one (`AppendIsGood`, `CompactIsGood`, `CutIsGood`, `TruncateIsGood`,
`WriteIsGood`), and it does to the list what its name says (`AppendLays`,
`CompactLays`, which changes exactness but no token, `CutLays`, `TruncateLays`,
`WriteLays`). Each reader is a slice of the list (`MaterializeReads`, `RangeReads`,
`ViewReads`), so they agree with each other. `RowsInv` adds what the properties do
not mention: a forward under way has the new rows in the layers it has passed and
the old ones in the rest (`UnderWay`, towards `Goal`), and a snapshot holds its own
text (`Kept`). Without them neither an abandoned forward nor a restore would be
covered. The arithmetic of groups is in `DivMod`, `GroupsFit` and
`QuotientSmaller`.

`CopyIsHost` and `ResidentTypes`, for every tile, length and `spec_k`. The copy is
told only of rows from a window's start on, so the property needs that no window
is missed once a copy exists. That is `NeverMissed`: then `spec_k <= 2` or at
most two tokens remain, and by `WindowSize` every later window of the request is
of a resident size. `Agrees` is what the copy holds between windows: the committed
rows as far as it is filled, whatever rejected rows lie behind. `Bounds` adds that
the copy's capacity stays whole tiles.

### 4.7 Data, and what is only model-checked

The provers have no induction scheme with a predicate as parameter. What the
recursive functions of these models compute is proved by a smallest
counterexample instead: `SmallestNat` and `SmallestSet` (from
`NatLessThanWellFounded` and `WFMin`) give the least number, or the smallest finite
set, at which an equation fails, and the step below it succeeds. So for sums
(`FoldExists`, `FoldUnique`), for removal from an order (`FilteringExists`), for the
joining of blocks (`JoiningExists`) and for the list of keys (`OrderExists`).
`SelectSeq` and `SortSeq` are black boxes to the provers, so `LruOrder!OrderWithout`
is a recursive function and `ByteLru!InTouchOrder` chooses the increasing list.

Only model-checked are the four liveness properties of the server
(`EveryConnectionEnds`, `ShutdownCompletes`, `MonitorsEnd`, `CancellationEndsWork`):
they rest on fairness, and this prover has no `ENABLED`.

## 5. Where the documentation and the code differ

The repository's README says that "stored responses and conversations are
process-local, have a 30-day TTL". Responses have `expires_at` and are pruned;
`ConversationRecord` has none and `prune_expired` looks at responses only. Run
`response_store_ttl` reads a conversation as old as the TTL. Conversations
leave by deletion or eviction only.

`speculative_refusal`: in a batch window without a bonus row, a caller that
refuses the last accepted draft gets an error ("batch argmax verify missing next
token") where every other refusal ends the generation with the text so far, as
`test_generate_stream_callback_abort` has it for the plain loop.

`speculative_ignore_eos`: `GenerateParams::ignore_eos` is documented as "Suppress the
model's default EOS logit while still honoring explicit stop tokens"
(`generate.rs:123`), and `test_generate_ignore_eos_uses_next_best_token_until_limit`
has the plain loop go on to the limit. The speculative loop stops at EOS all the
same (`speculative.rs:629`, 829, 999, 1239), and so does the one with two models
(1555, 1615; `TwoModel!EosIsIgnored` shows it). The run ends at the first token of
the prompt's logits. What holds in spite of it is in 2.5.

Three more statements in `speculative.rs` fail in these models; each
shows when the definition named is checked in the instance named:

* `Speculative!RejectedTargetComesNext` with `Sampled = TRUE`; the passing run has it
  without sampling. The comment at `speculative.rs:1258` says that the next
  iteration samples `target_token` as its first token. The logits are kept, not the token: with a temperature the
  next draw may be another. Without sampling it is theorem `RejectedTargetIsNext`.
* `TwoModel!DraftInStep`: after a round in which all drafts were accepted the
  draft engine is cut to a length it has not reached, since it never took in the
  last draft; one of its rows is counted and was never written. `speculative.rs:1661`
  says its rows are valid up to the accepted position. The text stays right,
  since the target decides (`ImplementsGreedy`); only guesses get worse.
* `StateIsCommitted` for a target with recurrent layers in `TwoModel` (Qwen3.5,
  Nemotron-H) and for `Architectures = {"NemotronHMoE"}` in `Speculative`. A
  Qwen3.5 target of two models verifies one row at a time without stopping at a
  rejection and then cuts the rows only; Nemotron-H has recurrent layers, but
  `verify_needs_sequential` and not `architecture_has_recurrent_state` decides on
  the replay. Rejected drafts stay in the recurrent state, against
  `SpecCheckpoint`'s "reject 시 복원한다" (restored on reject, `speculative.rs:4`) and
  the comment at `speculative.rs:1360-1362`. The passing runs leave these targets
  out, and only these.

Observations that contradict nothing written down:

* A rollback into a quantised block gives committed rows back less exact than
  they were computed; the same text reached without the rollback has other bits.
* A snapshot taken while a layer was KVarN cannot be restored after
  `convert_to_f16`: the restore reports an error and leaves the cache clear.
* After a commit, a 200 reply that fails before its first byte is followed by a
  clean 500, although the response is stored.
* The device copy is right only because windows never grow within a request.
  The adaptive stop exists for two drafts only; at other depths a window of
  another size would leave the copy behind (the mutant of `AttendsToHostRows`).

## 6. What is not modelled, and why

* Numerics: most of the source's lines are kernels, their dispatch on
  six backends, SPIR-V builders, quantisation formats and the models' graphs.
  Their correctness is arithmetic on tensors, which neither TLC nor TLAPS
  reaches, and their control is straight-line; so the share of the source that
  is mapped is small and stays so. What is stateful in them and crosses the
  host boundary (`KvResident`) is modelled.
* The MTP loop with its device-side verify, the CUDA mirrors of KVarN layers, the
  GLM indexer's keys and the recurrent states inside `KvCache`: they follow the
  same calls as the rows; the recurrent state is `hidden` in the speculative
  modules.
* Stop filters, prompt resumption, chat templates and tool parsing: text.
* A forward that runs past `max_seq_len` panics in an assertion and is left out.
* Scheduler placement, memory policy, the loader and the platform probes are
  pure functions of what they measure; the C ABI is one caller and three states.
* Counters and sums that saturate at 2^64, and a wall clock that goes backwards:
  not reachable at the sizes a host has, or without a consequence the properties
  tell apart. Subtraction in `ByteLru` saturates as in the code.
* The text of anything: JSON, SSE framing, tokens.
* The order in which main joins handlers: any.
* Requests without state (models, chat completions) are a run of the worker in
  `Server` and absent from `ResponseStore`.
* A socket stays open until the monitor drops its clone, up to one poll later
  than the model's `closed`.

## 7. Plan

1. *Done*: `LruOrder`, `LruSpec`, `ByteLru`, `ResponseStore`, `Server`, `Reply`,
   `GreedyDecode`, `VerifyPlan`, `Speculative`, `TwoModel`, `KvCache`,
   `KvResident`, their runs and theorems.
2. *Done*: a theorem for each safety invariant, action property and refinement of
   the runs. The modules below are to come with theirs.
3. `InputItems`: pagination as operators over a history, checked against "the
   pages in order are the list", with items whose ids clients supplied.
4. `StopFilter`: the holdback of `TextStopFilter`, refining "the text before the
   first stop".
5. `ExpertCache` on `LruOrder`: admission, budget, reuse history with decay.
6. `HttpRead`: limits and deadline of the request reader, refining `ReadRequest`
   and `RejectRequest`; `FfiContext` for the C ABI.
