---------------------------- MODULE ResponseStore ----------------------------
(***************************************************************************)
(* The stored responses and conversations of the HTTP server               *)
(* (crates/rnb-cli/src/server/session_store.rs) and the engine worker's    *)
(* use of them (handle_worker_request in mod.rs, response_output.rs).      *)
(*                                                                         *)
(* The worker is one thread: a /v1/responses request is resolved against   *)
(* the store, prepared, generated (time passes, the client may cancel) and *)
(* committed before the next request is looked at.  Ids count up from 1.   *)
(* An item of a history is InputItem or the id of the response that        *)
(* produced it; it weighs one byte.  A KV snapshot is the history it       *)
(* covers and its size; NoState (size 0) is the absent snapshot, a real    *)
(* one is never empty.  Both ByteLruPolicy fields have the budget u64::MAX *)
(* and so never evict on touch; they are LruOrder values.                  *)
(***************************************************************************)
EXTENDS LruOrder
SX == INSTANCE SequencesExt

CONSTANTS MaxBytes,          \* max_bytes: the response cache budget
          ResponseBytes,     \* value_bytes(response)
          MetadataBytes,     \* value_bytes(metadata)
          SnapshotBytes,     \* sizes a snapshot may have
          Ttl,               \* RESPONSE_TTL_SECONDS, in clock ticks
          MaxNow,            \* bound: clock ticks
          MaxResponses,      \* bound: responses generated
          MaxConversations,  \* bound: conversations created
          MaxItems           \* bound: items of a history

ASSUME StoreAssumption ==
  /\ {MaxBytes, ResponseBytes, MetadataBytes, Ttl, MaxNow,
      MaxResponses, MaxConversations, MaxItems} \subseteq Nat
  /\ SnapshotBytes \subseteq Nat \ {0}
  /\ Ttl > 0

VARIABLES store,              \* [responses, conversations, records, snapshots]
          now,                \* unix_timestamp()
          pending,            \* the request between resolve and its end
          reply,              \* outcome of the last call
          next_response,      \* NEXT_RESPONSE_ID
          next_conversation   \* NEXT_CONVERSATION_ID

vars == <<store, now, pending, reply, next_response, next_conversation>>

InputItem == 0
NoState == [covers |-> <<>>, size |-> 0]
NoId == 0
Idle == [phase |-> "idle"]
NoReply == [call |-> "none", kind |-> "none", id |-> NoId, outcome |-> "none"]
Reply(call, kind, id, outcome) ==
  [call |-> call, kind |-> kind, id |-> id, outcome |-> outcome]

ResponseIds == 1..MaxResponses
ConversationIds == 1..MaxConversations
ResponseKey(id) == <<"response", id>>
ConversationKey(id) == <<"conversation", id>>

Histories == UNION {[1..n -> {InputItem} \cup ResponseIds] : n \in 0..MaxItems + 1}
States == [covers : Histories, size : SnapshotBytes \cup {0}]
StoredResponse ==
  [history : Histories, state : States, expires_at : Nat, bytes : Nat,
   conversation : ConversationIds \cup {NoId}]
ConversationRecord ==
  [history : Histories, state : States, created_at : Nat, bytes : Nat]

TypeOK ==
  /\ DOMAIN store.responses \subseteq ResponseIds
  /\ \A r \in DOMAIN store.responses : store.responses[r] \in StoredResponse
  /\ DOMAIN store.conversations \subseteq ConversationIds
  /\ \A c \in DOMAIN store.conversations : store.conversations[c] \in ConversationRecord
  /\ now \in 0..MaxNow
  /\ pending.phase \in {"idle", "resolved", "generating"}
  /\ next_response \in 1..MaxResponses + 1
  /\ next_conversation \in 1..MaxConversations + 1

Without(f, S) == [x \in DOMAIN f \ S |-> f[x]]
With(f, k, v) == [x \in DOMAIN f \cup {k} |-> IF x = k THEN v ELSE f[x]]

-----------------------------------------------------------------------------
(* Helpers of the store.                                                   *)

DropKeys(l, keys) ==
  [order |-> OrderWithout(l.order, keys),
   size  |-> Without(l.size, keys)]

RemoveResponses(s, ids) ==
  LET keys == {ResponseKey(r) : r \in ids}
  IN  [s EXCEPT !.responses = Without(@, ids),
                !.records = DropKeys(@, keys),
                !.snapshots = DropKeys(@, keys)]

ResponseCharge(p, next) == ResponseBytes + Len(p.history) + Len(next)

-----------------------------------------------------------------------------
(* Plausible slips in the code, used to show that the checks notice them.  *)
PruneMapOnly(s) ==
  [s EXCEPT !.responses =
     Without(@, {r \in DOMAIN s.responses : s.responses[r].expires_at <= now})]
PruneLate(s) ==
  RemoveResponses(s, {r \in DOMAIN s.responses : s.responses[r].expires_at < now})
ChargeSnapshotAsRecord(s, key, rec) ==
  [s EXCEPT !.records = LruTouch(@, key, rec.bytes),
            !.snapshots = IF rec.state = NoState THEN @ ELSE LruTouch(@, key, rec.bytes)]
SnapshotsIgnoreRecords(s) == LruTrim(s.snapshots, MaxBytes)
RecordsYieldToSnapshots(s) ==
  LruTrim(s.records, MaxBytes - Min({MaxBytes, Resident(s.snapshots)}))
CheckResponseOnly(p, next) == IF p.store THEN ResponseCharge(p, next) ELSE 0
KeepOldSnapshot(s, c, next, state) ==
  [s.conversations[c] EXCEPT
     !.history = next,
     !.state = IF state = NoState THEN @ ELSE state,
     !.bytes = MetadataBytes + Len(next)]
ForgetOutput(s, c, next, state) ==
  [s.conversations[c] EXCEPT
     !.history = SubSeq(next, 1, Len(next) - 1),
     !.state = state,
     !.bytes = MetadataBytes + Len(next)]
AppendOutputTwice(s, c, next, state) ==
  [s.conversations[c] EXCEPT
     !.history = Append(next, next[Len(next)]),
     !.state = state,
     !.bytes = MetadataBytes + Len(next)]
-----------------------------------------------------------------------------
PruneExpired(s) ==
  RemoveResponses(s, {r \in DOMAIN s.responses : s.responses[r].expires_at <= now})

(* resolve refreshes the record and, when there is one, its snapshot.      *)
TouchContext(s, key, rec) ==
  [s EXCEPT !.records = LruTouch(@, key, rec.bytes),
            !.snapshots = IF rec.state = NoState THEN @
                          ELSE LruTouch(@, key, rec.state.size)]

(* enforce_budget pops snapshots while there are any, records after that:  *)
(* what is left of the snapshots fits beside all records, and records are  *)
(* popped only when they alone exceed the budget.  drop_snapshot and       *)
(* remove_record keep the maps and the snapshots policy in step.           *)
SnapshotsLeft(s) ==
  LruTrim(s.snapshots, MaxBytes - Min({MaxBytes, Resident(s.records)}))
RecordsLeft(s) == LruTrim(s.records, MaxBytes)

DropSnapshot(rec, dropped) == IF dropped THEN [rec EXCEPT !.state = NoState] ELSE rec

EnforceBudget(s) ==
  LET recs  == RecordsLeft(s)
      snaps == SnapshotsLeft(s)
      dropped == LruKeys(s.snapshots) \ LruKeys(snaps)
      removed == LruKeys(s.records) \ LruKeys(recs)
  IN  [responses |->
         [r \in {x \in DOMAIN s.responses : ResponseKey(x) \notin removed} |->
            DropSnapshot(s.responses[r], ResponseKey(r) \in dropped)],
       conversations |->
         [c \in {x \in DOMAIN s.conversations : ConversationKey(x) \notin removed} |->
            DropSnapshot(s.conversations[c], ConversationKey(c) \in dropped)],
       records |-> recs,
       snapshots |-> DropKeys(snaps, removed)]

RequiredBytes(p, next) ==
  (IF p.store THEN ResponseCharge(p, next) ELSE 0)
  + (IF p.conversation # NoId THEN MetadataBytes + Len(next) ELSE 0)

SnapshotFits(p, next, size) ==
  LET copies == (IF p.store THEN 1 ELSE 0) + (IF p.conversation # NoId THEN 1 ELSE 0)
  IN  RequiredBytes(p, next) + size * copies <= MaxBytes
-----------------------------------------------------------------------------
(* commit, after its checks: the conversation's turn, the stored response  *)
(* and both LRU entries of each.                                           *)

TouchBoth(s, key, bytes, state) ==
  [s EXCEPT !.records = LruTouch(@, key, bytes),
            !.snapshots = IF state = NoState THEN @ ELSE LruTouch(@, key, state.size)]

UpdatedConversation(s, c, next, state) ==
  [s.conversations[c] EXCEPT
     !.history = next,
     !.state = state,
     !.bytes = MetadataBytes + Len(next)]

(* The conversation's keys leave both LRUs before its record changes.      *)
WriteConversation(s, c, next, state) ==
  [s EXCEPT !.conversations = With(@, c, UpdatedConversation(s, c, next, state)),
            !.records = LruRemove(@, ConversationKey(c)),
            !.snapshots = LruRemove(@, ConversationKey(c))]

WriteResponse(s, p, next, state) ==
  LET bytes == ResponseCharge(p, next)
  IN  TouchBoth([s EXCEPT !.responses =
                   With(@, p.id, [history |-> next, state |-> state,
                                  expires_at |-> now + Ttl, bytes |-> bytes,
                                  conversation |-> p.conversation])],
                ResponseKey(p.id), bytes, state)

Committed(s, p, next, state) ==
  LET s1 == IF p.conversation = NoId THEN s
            ELSE WriteConversation(s, p.conversation, next, state)
      s2 == IF p.store THEN WriteResponse(s1, p, next, state) ELSE s1
      s3 == IF p.conversation = NoId THEN s2
            ELSE TouchBoth(s2, ConversationKey(p.conversation),
                           s2.conversations[p.conversation].bytes, state)
  IN  EnforceBudget(s3)

(* commit's early returns, in order, before it changes anything.           *)
Refusal(s, p, next) ==
  CASE p.id = NoId -> "no_id"
    [] p.conversation # NoId /\ p.conversation \notin DOMAIN s.conversations -> "not_found"
    [] RequiredBytes(p, next) > MaxBytes -> "too_long"
    [] OTHER -> "none"

(* Its checks afterwards.                                                  *)
Survived(p, after) ==
  CASE p.store /\ p.id \notin DOMAIN after.responses -> "response_evicted"
    [] p.conversation # NoId /\ p.conversation \notin DOMAIN after.conversations ->
         "conversation_evicted"
    [] OTHER -> "ok"

-----------------------------------------------------------------------------
Init ==
  /\ store = [responses |-> <<>>, conversations |-> <<>>,
              records |-> LruEmpty, snapshots |-> LruEmpty]
  /\ now = 0
  /\ pending = Idle
  /\ reply = NoReply
  /\ next_response = 1
  /\ next_conversation = 1

(* POST /v1/responses, first half.  prev and conv are NoId when absent;    *)
(* n is the number of input items.                                         *)
Resolve(prev, conv, n, storing) ==
  LET s     == PruneExpired(store)
      kind  == IF prev # NoId THEN "response" ELSE "conversation"
      id    == IF prev # NoId THEN prev ELSE conv
      both  == prev # NoId /\ conv # NoId
      found == \/ prev # NoId /\ prev \in DOMAIN s.responses
               \/ prev = NoId /\ conv \in DOMAIN s.conversations
      rec   == IF prev # NoId THEN s.responses[prev] ELSE s.conversations[conv]
      key   == IF prev # NoId THEN ResponseKey(prev) ELSE ConversationKey(conv)
      fresh == id = NoId
      base  == IF fresh THEN <<>> ELSE rec.history
      hist  == base \o [i \in 1..n |-> InputItem]
      Fail(outcome) == pending' = Idle /\ reply' = Reply("resolve", kind, id, outcome)
  IN  /\ pending = Idle
      /\ ~both /\ (fresh \/ found) => Len(hist) <= MaxItems
      /\ UNCHANGED <<now, next_response, next_conversation>>
      /\ \/ both /\ store' = s /\ Fail("invalid")
         \/ ~both /\ ~fresh /\ ~found /\ store' = s /\ Fail("not_found")
         \/ /\ ~both /\ (fresh \/ found)
            /\ store' = IF fresh THEN s ELSE TouchContext(s, key, rec)
            /\ \/ hist = <<>> /\ Fail("invalid")
               \/ /\ hist # <<>>
                  /\ pending' = [phase |-> "resolved", id |-> NoId, history |-> hist,
                                 conversation |-> conv, store |-> storing,
                                 resume |-> IF fresh THEN NoState ELSE rec.state]
                  /\ reply' = Reply("resolve", kind, id, "ok")

(* The request is prepared; ResponseIdentity::new draws the next id.       *)
BeginGeneration ==
  /\ pending.phase = "resolved"
  /\ next_response <= MaxResponses
  /\ pending' = [pending EXCEPT !.phase = "generating", !.id = next_response]
  /\ next_response' = next_response + 1
  /\ reply' = NoReply
  /\ UNCHANGED <<store, now, next_conversation>>

(* Preparation or generation fails, a streamed event cannot be written, or *)
(* the request is cancelled up to the check before commit.                 *)
Abandon ==
  /\ pending # Idle
  /\ pending' = Idle
  /\ reply' = NoReply
  /\ UNCHANGED <<store, now, next_response, next_conversation>>

(* Generation succeeded.  A snapshot is captured when the engine supports  *)
(* it, the estimate fits and capturing does not fail; its actual size may  *)
(* differ from the estimate.  The output is one item.                      *)
FinishGeneration(state, estimate) ==
  LET p       == pending
      next    == Append(p.history, p.id)
      keeps   == p.store \/ p.conversation # NoId
      refusal == Refusal(store, p, next)
      after   == Committed(store, p, next, state)
      Done(outcome) == reply' = Reply("commit", "response", p.id, outcome)
  IN  /\ p.phase = "generating"
      /\ state # NoState =>
           keeps /\ state.covers = next /\ SnapshotFits(p, next, estimate)
      /\ pending' = Idle
      /\ UNCHANGED <<now, next_response, next_conversation>>
      /\ \/ ~keeps /\ UNCHANGED store /\ Done("ok")
         \/ keeps /\ refusal # "none" /\ UNCHANGED store /\ Done(refusal)
         \/ keeps /\ refusal = "none" /\ store' = after /\ Done(Survived(p, after))

(* GET /v1/responses/{id} and GET /v1/responses/{id}/input_items: the      *)
(* record is refreshed, its snapshot is not; a bad cursor is reported      *)
(* after the refresh.                                                      *)
ReadResponse(id, call, cursor_ok) ==
  LET s == PruneExpired(store)
  IN  /\ pending = Idle
      /\ call = "get" => cursor_ok
      /\ UNCHANGED <<now, pending, next_response, next_conversation>>
      /\ \/ /\ id \notin DOMAIN s.responses
            /\ store' = s
            /\ reply' = Reply(call, "response", id, "not_found")
         \/ /\ id \in DOMAIN s.responses
            /\ store' = [s EXCEPT !.records =
                           LruTouch(@, ResponseKey(id), s.responses[id].bytes)]
            /\ reply' = Reply(call, "response", id, IF cursor_ok THEN "ok" ELSE "invalid")

(* DELETE /v1/responses/{id}; nothing is pruned first.                     *)
DeleteResponse(id) ==
  /\ pending = Idle
  /\ IF id \in DOMAIN store.responses
     THEN /\ store' = RemoveResponses(store, {id})
          /\ reply' = Reply("delete", "response", id, "ok")
     ELSE /\ UNCHANGED store
          /\ reply' = Reply("delete", "response", id, "not_found")
  /\ UNCHANGED <<now, pending, next_response, next_conversation>>

(* POST /v1/conversations with n initial items.  The id is drawn even when *)
(* the conversation is refused.                                            *)
CreateConversation(n) ==
  LET id    == next_conversation
      bytes == n + MetadataBytes
      rec   == [history |-> [i \in 1..n |-> InputItem], state |-> NoState,
                created_at |-> now, bytes |-> bytes]
      after == EnforceBudget(
                 [store EXCEPT !.conversations = With(@, id, rec),
                               !.records = LruTouch(@, ConversationKey(id), bytes)])
  IN  /\ pending = Idle
      /\ id <= MaxConversations /\ n <= MaxItems
      /\ next_conversation' = next_conversation + 1
      /\ UNCHANGED <<now, pending, next_response>>
      /\ \/ /\ bytes > MaxBytes
            /\ UNCHANGED store
            /\ reply' = Reply("create", "conversation", id, "too_long")
         \/ /\ bytes <= MaxBytes
            /\ store' = after
            /\ reply' = Reply("create", "conversation", id,
                              IF id \in DOMAIN after.conversations THEN "ok"
                              ELSE "conversation_evicted")

(* GET /v1/conversations/{id}.                                             *)
GetConversation(id) ==
  /\ pending = Idle
  /\ IF id \in DOMAIN store.conversations
     THEN /\ store' = [store EXCEPT !.records =
                         LruTouch(@, ConversationKey(id), store.conversations[id].bytes)]
          /\ reply' = Reply("get", "conversation", id, "ok")
     ELSE /\ UNCHANGED store
          /\ reply' = Reply("get", "conversation", id, "not_found")
  /\ UNCHANGED <<now, pending, next_response, next_conversation>>

(* DELETE /v1/conversations/{id}; responses made in it are kept.           *)
DeleteConversation(id) ==
  /\ pending = Idle
  /\ IF id \in DOMAIN store.conversations
     THEN /\ store' = [store EXCEPT !.conversations = Without(@, {id}),
                                    !.records = LruRemove(@, ConversationKey(id)),
                                    !.snapshots = LruRemove(@, ConversationKey(id))]
          /\ reply' = Reply("delete", "conversation", id, "ok")
     ELSE /\ UNCHANGED store
          /\ reply' = Reply("delete", "conversation", id, "not_found")
  /\ UNCHANGED <<now, pending, next_response, next_conversation>>

(* The wall clock moves on.                                                *)
Tick ==
  /\ now < MaxNow
  /\ now' = now + 1
  /\ reply' = NoReply
  /\ UNCHANGED <<store, pending, next_response, next_conversation>>

Snapshots(next) == {NoState} \cup [covers : {next}, size : SnapshotBytes]

Next ==
  \/ \E prev \in ResponseIds \cup {NoId}, conv \in ConversationIds \cup {NoId},
        n \in 0..1, storing \in BOOLEAN : Resolve(prev, conv, n, storing)
  \/ BeginGeneration
  \/ Abandon
  \/ /\ pending.phase = "generating"
     /\ \E state \in Snapshots(Append(pending.history, pending.id)),
           estimate \in SnapshotBytes : FinishGeneration(state, estimate)
  \/ \E id \in ResponseIds, call \in {"get", "input_items"}, ok \in BOOLEAN :
       ReadResponse(id, call, ok)
  \/ \E id \in ResponseIds : DeleteResponse(id)
  \/ \E n \in 0..1 : CreateConversation(n)
  \/ \E id \in ConversationIds : GetConversation(id) \/ DeleteConversation(id)
  \/ Tick

Spec == Init /\ [][Next]_vars

-----------------------------------------------------------------------------
(* The configured budget holds after every call: canonical history and KV  *)
(* snapshots together never exceed it (enforce_budget after commit and     *)
(* create_conversation, and no other call adds bytes).                     *)
BudgetHeld == Resident(store.records) + Resident(store.snapshots) <= MaxBytes

HasSnapshot(f) == {x \in DOMAIN f : f[x].state # NoState}

RecordKeys(s) ==
  {ResponseKey(r) : r \in DOMAIN s.responses} \cup
  {ConversationKey(c) : c \in DOMAIN s.conversations}

SnapshotKeys(s) ==
  {ResponseKey(r) : r \in HasSnapshot(s.responses)} \cup
  {ConversationKey(c) : c \in HasSnapshot(s.conversations)}

(* The two LRU policies and the two maps never drift apart: the records    *)
(* policy tracks exactly the stored records, the snapshots policy exactly  *)
(* those that hold a snapshot.  Otherwise memory is held that enforce_     *)
(* budget cannot find, or a key is popped that frees nothing.              *)
IndexConsistent ==
  /\ LruKeys(store.records) = RecordKeys(store)
  /\ LruKeys(store.snapshots) = SnapshotKeys(store)

(* Both policies charge what the records really hold, and know each key    *)
(* exactly once in their order.                                            *)
ChargesExact ==
  /\ \A r \in DOMAIN store.responses :
       /\ store.records.size[ResponseKey(r)] = store.responses[r].bytes
       /\ store.responses[r].state # NoState =>
            store.snapshots.size[ResponseKey(r)] = store.responses[r].state.size
  /\ \A c \in DOMAIN store.conversations :
       /\ store.records.size[ConversationKey(c)] = store.conversations[c].bytes
       /\ store.conversations[c].state # NoState =>
            store.snapshots.size[ConversationKey(c)] = store.conversations[c].state.size
  /\ \A l \in {store.records, store.snapshots} :
       /\ {l.order[i] : i \in DOMAIN l.order} = LruKeys(l)
       /\ Len(l.order) = Cardinality(LruKeys(l))

(* The internal errors of commit and create_conversation ("stored response *)
(* was evicted during commit", "conversation was evicted during response   *)
(* commit") and the second conversation_not_found are unreachable: what is *)
(* admitted by the size check survives its own eviction pass.              *)
CommitSurvivesItself ==
  /\ reply.outcome \notin {"response_evicted", "conversation_evicted", "no_id"}
  /\ reply.call = "commit" => reply.outcome # "not_found"

(* A KV snapshot is never resumed against another history: it covers the   *)
(* very history of its record, and the state handed to generation covers a *)
(* prefix of the prompt's history.                                         *)
NoStaleSnapshot ==
  /\ \A r \in DOMAIN store.responses :
       store.responses[r].state # NoState =>
         store.responses[r].state.covers = store.responses[r].history
  /\ \A c \in DOMAIN store.conversations :
       store.conversations[c].state # NoState =>
         store.conversations[c].state.covers = store.conversations[c].history
  /\ pending # Idle /\ pending.resume # NoState =>
       SX!IsPrefix(pending.resume.covers, pending.history)

(* A conversation keeps every turn made in it: the history of each stored  *)
(* response of the conversation, output included, is a prefix of the       *)
(* conversation's own.                                                     *)
ConversationKeepsTurns ==
  \A r \in DOMAIN store.responses :
    LET c == store.responses[r].conversation
    IN  c \in DOMAIN store.conversations =>
          SX!IsPrefix(store.responses[r].history, store.conversations[c].history)

(* get_response, get_input_items and a continuation never serve a response *)
(* whose 30 days are over, down to the boundary second.                    *)
NoExpiredReads ==
  reply.call \in {"get", "input_items", "resolve"} /\ reply.kind = "response"
    /\ reply.outcome = "ok" =>
      reply.id \in DOMAIN store.responses /\ store.responses[reply.id].expires_at > now

LostKeys == LruKeys(store.records) \ LruKeys(store'.records)

(* A stored record is lost only by expiry, by DELETE, or when the records  *)
(* alone exceed the budget after commit or create_conversation; in that    *)
(* last case no snapshot is left: "Snapshot entries are evicted before     *)
(* canonical history".                                                     *)
RecordsLostOnlyWhenDue ==
  [][ \/ \A k \in LostKeys :
           \E r \in DOMAIN store.responses :
             k = ResponseKey(r) /\ store.responses[r].expires_at <= now
      \/ /\ reply'.call = "delete" /\ reply'.outcome = "ok"
         /\ LostKeys = {<<reply'.kind, reply'.id>>}
      \/ /\ reply'.call \in {"commit", "create"} /\ reply'.outcome = "ok"
         /\ LruKeys(store'.snapshots) = {}
         /\ Resident(store'.records)
              + MapThenSumSet(LAMBDA k : store.records.size[k], LostKeys) > MaxBytes
    ]_vars

(* README.md, "Continuation and cache behavior": "Stored responses and     *)
(* conversations are process-local, have a 30-day TTL".  Stated for        *)
(* conversations; get_conversation and resolve do not look at their age.   *)
ConversationTtl ==
  reply.call \in {"get", "resolve"} /\ reply.kind = "conversation"
    /\ reply.id # NoId /\ reply.outcome = "ok" =>
      store.conversations[reply.id].created_at + Ttl > now
=============================================================================
