------------------------- MODULE ResponseStoreProofs -------------------------
(* Proofs about ResponseStore for every budget, byte weights and bounds,   *)
(* in three layers: the policies and the maps hold the same keys           *)
(* (StoreInv), the records hold sound histories and snapshots (ContentInv),*)
(* and the policies charge what the records hold, within the budget        *)
(* (ChargeInv).  The first two look only at key sets; the third needs the  *)
(* LRU orders and the byte sums, whose theory is in ByteLruProofs.         *)
EXTENDS ResponseStore, FunctionTheorems, FiniteSetTheorems, WellFoundedInduction, TLAPS

Fields == {"responses", "conversations", "records", "snapshots"}

(* What EXCEPT needs to know of the values it updates.                     *)
Shape(s) ==
  /\ DOMAIN s = Fields
  /\ \A r \in DOMAIN s.responses : "state" \in DOMAIN s.responses[r]
  /\ \A c \in DOMAIN s.conversations :
       {"history", "state", "bytes"} \subseteq DOMAIN s.conversations[c]

(* The policies and the maps agree on every key outside K.                 *)
AgreeBut(s, K) ==
  /\ LruKeys(s.records) = RecordKeys(s) \ K
  /\ LruKeys(s.snapshots) = SnapshotKeys(s) \ K

Good(s) == Shape(s) /\ AgreeBut(s, {})

LEMMA KeysDistinct ==
  /\ \A a, b : ResponseKey(a) = ResponseKey(b) => a = b
  /\ \A a, b : ConversationKey(a) = ConversationKey(b) => a = b
  /\ \A a, b : ResponseKey(a) # ConversationKey(b)
BY DEF ResponseKey, ConversationKey

(* What the policy operators do to the set of tracked keys.                *)
LEMMA KeysAfterTouch ==
  \A l, k, b : LruKeys(LruTouch(l, k, b)) = LruKeys(l) \cup {k}
BY DEF LruKeys, LruTouch

LEMMA KeysAfterRemove ==
  \A l, k : LruKeys(LruRemove(l, k)) = LruKeys(l) \ {k}
BY DEF LruKeys, LruRemove

LEMMA KeysAfterDrop ==
  \A l, K : LruKeys(DropKeys(l, K)) = LruKeys(l) \ K
BY DEF LruKeys, DropKeys, Without

LEMMA KeysAfterTrim ==
  \A l, b : LruKeys(LruTrim(l, b)) \subseteq LruKeys(l)
BY DEF LruKeys, LruTrim, DropOldest

LEMMA RemoveResponsesGood ==
  ASSUME NEW s, Good(s), NEW ids
  PROVE  Good(RemoveResponses(s, ids))
<1> DEFINE t == RemoveResponses(s, ids)
           keys == {ResponseKey(r) : r \in ids}
<1>1. /\ DOMAIN t = Fields
      /\ t.responses = Without(s.responses, ids)
      /\ t.conversations = s.conversations
      /\ t.records = DropKeys(s.records, keys)
      /\ t.snapshots = DropKeys(s.snapshots, keys)
  BY DEF RemoveResponses, Good, Shape, Fields
<1> HIDE DEF t
<1>2. Shape(t)
  BY <1>1 DEF Good, Shape, Without
<1>3. /\ RecordKeys(t) = RecordKeys(s) \ keys
      /\ SnapshotKeys(t) = SnapshotKeys(s) \ keys
  BY <1>1, KeysDistinct DEF RecordKeys, SnapshotKeys, HasSnapshot, Without
<1>4. /\ LruKeys(t.records) = LruKeys(s.records) \ keys
      /\ LruKeys(t.snapshots) = LruKeys(s.snapshots) \ keys
  BY <1>1, KeysAfterDrop
<1>5. AgreeBut(t, {})
  BY <1>3, <1>4 DEF Good, AgreeBut
<1>6. QED  BY <1>2, <1>5 DEF Good, t

(* Refreshing a key the policies already track changes no key set.         *)
LEMMA TouchRecordGood ==
  ASSUME NEW s, Good(s), NEW k \in RecordKeys(s), NEW b
  PROVE  Good([s EXCEPT !.records = LruTouch(@, k, b)])
<1> DEFINE t == [s EXCEPT !.records = LruTouch(@, k, b)]
<1>1. /\ DOMAIN t = Fields
      /\ t.responses = s.responses
      /\ t.conversations = s.conversations
      /\ t.records = LruTouch(s.records, k, b)
      /\ t.snapshots = s.snapshots
  BY DEF Good, Shape, Fields
<1> HIDE DEF t
<1>2. Shape(t)
  BY <1>1 DEF Good, Shape
<1>3. RecordKeys(t) = RecordKeys(s) /\ SnapshotKeys(t) = SnapshotKeys(s)
  BY <1>1 DEF RecordKeys, SnapshotKeys
<1>4. LruKeys(t.records) = LruKeys(s.records) \cup {k}
  BY <1>1, KeysAfterTouch
<1>5. AgreeBut(t, {})
  BY <1>1, <1>3, <1>4 DEF Good, AgreeBut
<1>6. QED  BY <1>2, <1>5 DEF Good, t

(* resolve's refresh of a stored record.                                   *)
LEMMA TouchContextGood ==
  ASSUME NEW s, Good(s), NEW k \in RecordKeys(s), NEW rec,
         rec.state # NoState => k \in SnapshotKeys(s)
  PROVE  Good(TouchContext(s, k, rec))
<1> DEFINE t == TouchContext(s, k, rec)
<1>1. /\ DOMAIN t = Fields
      /\ t.responses = s.responses
      /\ t.conversations = s.conversations
      /\ t.records = LruTouch(s.records, k, rec.bytes)
      /\ t.snapshots = IF rec.state = NoState THEN s.snapshots
                       ELSE LruTouch(s.snapshots, k, rec.state.size)
  BY DEF TouchContext, Good, Shape, Fields
<1> HIDE DEF t
<1>2. Shape(t)
  BY <1>1 DEF Good, Shape
<1>3. RecordKeys(t) = RecordKeys(s) /\ SnapshotKeys(t) = SnapshotKeys(s)
  BY <1>1 DEF RecordKeys, SnapshotKeys
<1>4. LruKeys(t.records) = LruKeys(s.records) \cup {k}
  BY <1>1, KeysAfterTouch
<1>5. LruKeys(t.snapshots) = LruKeys(s.snapshots)
                             \cup (IF rec.state = NoState THEN {} ELSE {k})
  <2>1. CASE rec.state = NoState
    BY <1>1, <2>1
  <2>2. CASE rec.state # NoState
    BY <1>1, <2>2, KeysAfterTouch
  <2>3. QED  BY <2>1, <2>2
<1>6. AgreeBut(t, {})
  BY <1>3, <1>4, <1>5 DEF Good, AgreeBut
<1>7. QED  BY <1>2, <1>6 DEF Good, t

(* enforce_budget takes each key out of policy and map together.           *)
LEMMA EnforceBudgetGood ==
  ASSUME NEW s, Good(s)
  PROVE  Good(EnforceBudget(s))
<1> DEFINE t       == EnforceBudget(s)
           snaps   == SnapshotsLeft(s)
           dropped == LruKeys(s.snapshots) \ LruKeys(snaps)
           removed == LruKeys(s.records) \ LruKeys(RecordsLeft(s))
           keptR   == {x \in DOMAIN s.responses : ResponseKey(x) \notin removed}
           keptC   == {x \in DOMAIN s.conversations : ConversationKey(x) \notin removed}
<1>1. /\ DOMAIN t = Fields
      /\ t.responses = [r \in keptR |-> DropSnapshot(s.responses[r], ResponseKey(r) \in dropped)]
      /\ t.conversations =
           [c \in keptC |-> DropSnapshot(s.conversations[c], ConversationKey(c) \in dropped)]
      /\ t.records = RecordsLeft(s)
      /\ t.snapshots = DropKeys(snaps, removed)
  BY DEF EnforceBudget, Fields
<1> HIDE DEF t
<1>2. /\ LruKeys(RecordsLeft(s)) \subseteq LruKeys(s.records)
      /\ LruKeys(snaps) \subseteq LruKeys(s.snapshots)
      /\ LruKeys(t.snapshots) = LruKeys(snaps) \ removed
  <2>1. LruKeys(RecordsLeft(s)) \subseteq LruKeys(s.records)
    BY KeysAfterTrim DEF RecordsLeft
  <2>2. LruKeys(snaps) \subseteq LruKeys(s.snapshots)
    BY KeysAfterTrim, Zenon DEF SnapshotsLeft
  <2>3. LruKeys(t.snapshots) = LruKeys(snaps) \ removed
    <3>1. t.snapshots = DropKeys(snaps, removed)
      BY <1>1
    <3> HIDE DEF snaps, removed
    <3>2. QED  BY <3>1, KeysAfterDrop
  <2>4. QED  BY <2>1, <2>2, <2>3
<1> HIDE DEF snaps
<1>3. /\ \A r \in keptR :
           /\ DOMAIN t.responses[r] = DOMAIN s.responses[r]
           /\ t.responses[r].state = IF ResponseKey(r) \in dropped THEN NoState
                                     ELSE s.responses[r].state
      /\ \A c \in keptC :
           /\ DOMAIN t.conversations[c] = DOMAIN s.conversations[c]
           /\ t.conversations[c].state = IF ConversationKey(c) \in dropped THEN NoState
                                         ELSE s.conversations[c].state
  BY <1>1 DEF DropSnapshot, Good, Shape
<1>4. Shape(t)
  BY <1>1, <1>3 DEF Good, Shape
<1>5. DOMAIN t.responses = keptR /\ DOMAIN t.conversations = keptC
  BY <1>1
<1> HIDE DEF removed, dropped
<1>6. RecordKeys(t) = RecordKeys(s) \ removed
  BY <1>5, KeysDistinct DEF RecordKeys
<1>7. SnapshotKeys(t) = SnapshotKeys(s) \ (removed \cup dropped)
  BY <1>3, <1>5, KeysDistinct DEF SnapshotKeys, HasSnapshot
<1>8. AgreeBut(t, {})
  BY <1>1, <1>2, <1>6, <1>7 DEF Good, AgreeBut, removed, dropped
<1>9. QED  BY <1>4, <1>8 DEF Good, t

(* The pieces of commit: the conversation's key leaves both policies, the  *)
(* response enters map and policies, the conversation's key comes back.    *)
LEMMA WriteConversationAgrees ==
  ASSUME NEW s, Good(s), NEW c \in DOMAIN s.conversations, NEW next, NEW state
  PROVE  LET t == WriteConversation(s, c, next, state)
         IN  /\ Shape(t) /\ AgreeBut(t, {ConversationKey(c)})
             /\ c \in DOMAIN t.conversations
             /\ t.conversations[c].state = state
<1> DEFINE t == WriteConversation(s, c, next, state)
           rec == UpdatedConversation(s, c, next, state)
           k == ConversationKey(c)
<1>1. /\ DOMAIN t = Fields
      /\ t.responses = s.responses
      /\ t.conversations = With(s.conversations, c, rec)
      /\ t.records = LruRemove(s.records, k)
      /\ t.snapshots = LruRemove(s.snapshots, k)
  BY DEF WriteConversation, Good, Shape, Fields
<1>2. DOMAIN rec = DOMAIN s.conversations[c] /\ rec.state = state
  BY DEF UpdatedConversation, Good, Shape
<1> HIDE DEF t, rec
<1>3. /\ DOMAIN t.conversations = DOMAIN s.conversations
      /\ t.conversations[c] = rec
      /\ \A x \in DOMAIN s.conversations : x # c => t.conversations[x] = s.conversations[x]
  BY <1>1 DEF With
<1>4. Shape(t)
  BY <1>1, <1>2, <1>3 DEF Good, Shape
<1>5. /\ LruKeys(t.records) = LruKeys(s.records) \ {k}
      /\ LruKeys(t.snapshots) = LruKeys(s.snapshots) \ {k}
  BY <1>1, KeysAfterRemove
<1>6. RecordKeys(t) = RecordKeys(s)
  BY <1>1, <1>3 DEF RecordKeys
<1>7. SnapshotKeys(t) \ {k} = SnapshotKeys(s) \ {k}
  BY <1>1, <1>3, KeysDistinct DEF SnapshotKeys, HasSnapshot
<1>8. AgreeBut(t, {k})
  BY <1>5, <1>6, <1>7 DEF Good, AgreeBut
<1>9. QED  BY <1>2, <1>3, <1>4, <1>8 DEF t

LEMMA WriteResponseAgrees ==
  ASSUME NEW s, NEW c, Shape(s), NEW K, AgreeBut(s, K), K \subseteq {ConversationKey(c)},
         NEW p, p.id \notin DOMAIN s.responses, NEW next, NEW state
  PROVE  LET t == WriteResponse(s, p, next, state)
         IN  /\ Shape(t) /\ AgreeBut(t, K)
             /\ t.conversations = s.conversations
<1> DEFINE t == WriteResponse(s, p, next, state)
           k == ResponseKey(p.id)
           bytes == ResponseCharge(p, next)
           rec == [history |-> next, state |-> state, expires_at |-> now + Ttl,
                   bytes |-> bytes, conversation |-> p.conversation]
<1>1. /\ DOMAIN t = Fields
      /\ t.responses = With(s.responses, p.id, rec)
      /\ t.conversations = s.conversations
      /\ t.records = LruTouch(s.records, k, bytes)
      /\ t.snapshots = IF state = NoState THEN s.snapshots
                       ELSE LruTouch(s.snapshots, k, state.size)
  BY DEF WriteResponse, TouchBoth, Shape, Fields
<1>2. "state" \in DOMAIN rec /\ rec.state = state
  OBVIOUS
<1> HIDE DEF t, rec, bytes
<1>3. /\ DOMAIN t.responses = DOMAIN s.responses \cup {p.id}
      /\ t.responses[p.id] = rec
      /\ \A x \in DOMAIN s.responses : t.responses[x] = s.responses[x]
  BY <1>1 DEF With
<1>4. Shape(t)
  BY <1>1, <1>2, <1>3 DEF Shape
<1>5. LruKeys(t.records) = LruKeys(s.records) \cup {k}
  BY <1>1, KeysAfterTouch
<1>6. RecordKeys(t) = RecordKeys(s) \cup {k}
  BY <1>1, <1>3 DEF RecordKeys
<1>7. k \notin K
  BY KeysDistinct
<1>8. LruKeys(t.snapshots) = LruKeys(s.snapshots)
                             \cup (IF state = NoState THEN {} ELSE {k})
  <2>1. CASE state = NoState
    BY <1>1, <2>1
  <2>2. CASE state # NoState
    BY <1>1, <2>2, KeysAfterTouch
  <2>3. QED  BY <2>1, <2>2
<1>9. SnapshotKeys(t) = SnapshotKeys(s) \cup (IF state = NoState THEN {} ELSE {k})
  <2>1. HasSnapshot(t.responses) = HasSnapshot(s.responses)
                                   \cup (IF state = NoState THEN {} ELSE {p.id})
    BY <1>2, <1>3 DEF HasSnapshot
  <2>2. QED  BY <1>1, <2>1 DEF SnapshotKeys
<1>10. AgreeBut(t, K)
  BY <1>5, <1>6, <1>7, <1>8, <1>9 DEF AgreeBut
<1>11. QED  BY <1>1, <1>4, <1>10 DEF t

LEMMA TouchBothGood ==
  ASSUME NEW s, NEW c \in DOMAIN s.conversations, Shape(s),
         AgreeBut(s, {ConversationKey(c)}), NEW bytes, NEW state,
         s.conversations[c].state = state
  PROVE  Good(TouchBoth(s, ConversationKey(c), bytes, state))
<1> DEFINE k == ConversationKey(c)
           t == TouchBoth(s, k, bytes, state)
<1>1. /\ DOMAIN t = Fields
      /\ t.responses = s.responses
      /\ t.conversations = s.conversations
      /\ t.records = LruTouch(s.records, k, bytes)
      /\ t.snapshots = IF state = NoState THEN s.snapshots
                       ELSE LruTouch(s.snapshots, k, state.size)
  BY DEF TouchBoth, Shape, Fields
<1> HIDE DEF t
<1>2. Shape(t)
  BY <1>1 DEF Shape
<1>3. RecordKeys(t) = RecordKeys(s) /\ SnapshotKeys(t) = SnapshotKeys(s)
  BY <1>1 DEF RecordKeys, SnapshotKeys
<1>4. k \in RecordKeys(s) /\ (k \in SnapshotKeys(s) <=> state # NoState)
  BY KeysDistinct DEF RecordKeys, SnapshotKeys, HasSnapshot
<1>5. LruKeys(t.records) = LruKeys(s.records) \cup {k}
  BY <1>1, KeysAfterTouch
<1>6. LruKeys(t.snapshots) = LruKeys(s.snapshots)
                             \cup (IF state = NoState THEN {} ELSE {k})
  <2>1. CASE state = NoState
    BY <1>1, <2>1
  <2>2. CASE state # NoState
    BY <1>1, <2>2, KeysAfterTouch
  <2>3. QED  BY <2>1, <2>2
<1>7. AgreeBut(t, {})
  BY <1>3, <1>4, <1>5, <1>6 DEF AgreeBut
<1>8. QED  BY <1>2, <1>7 DEF Good, t

(* commit up to enforce_budget.                                            *)
Written(s, p, next, state) ==
  LET s1 == IF p.conversation = NoId THEN s
            ELSE WriteConversation(s, p.conversation, next, state)
      s2 == IF p.store THEN WriteResponse(s1, p, next, state) ELSE s1
  IN  IF p.conversation = NoId THEN s2
      ELSE TouchBoth(s2, ConversationKey(p.conversation),
                     s2.conversations[p.conversation].bytes, state)

LEMMA CommittedIsWritten ==
  \A s, p, next, state :
    Committed(s, p, next, state) = EnforceBudget(Written(s, p, next, state))
BY DEF Committed, Written

LEMMA WrittenGood ==
  ASSUME NEW s, Good(s), NEW p, NEW next, NEW state,
         p.id \notin DOMAIN s.responses,
         p.conversation = NoId \/ p.conversation \in DOMAIN s.conversations
  PROVE  Good(Written(s, p, next, state))
<1> DEFINE c  == p.conversation
           s1 == IF c = NoId THEN s ELSE WriteConversation(s, c, next, state)
           s2 == IF p.store THEN WriteResponse(s1, p, next, state) ELSE s1
           s3 == IF c = NoId THEN s2
                 ELSE TouchBoth(s2, ConversationKey(c), s2.conversations[c].bytes, state)
           K  == IF c = NoId THEN {} ELSE {ConversationKey(c)}
<1>1. /\ Shape(s1) /\ AgreeBut(s1, K) /\ s1.responses = s.responses
      /\ c # NoId => c \in DOMAIN s1.conversations /\ s1.conversations[c].state = state
  <2>1. CASE c = NoId
    BY <2>1 DEF Good
  <2>2. CASE c # NoId
    <3>1. s1 = WriteConversation(s, c, next, state) /\ K = {ConversationKey(c)}
      BY <2>2
    <3>2. WriteConversation(s, c, next, state).responses = s.responses
      BY DEF WriteConversation, Good, Shape, Fields
    <3>3. QED  BY <2>2, <3>1, <3>2, WriteConversationAgrees
  <2>3. QED  BY <2>1, <2>2
<1> HIDE DEF s1
<1>2. K \subseteq {ConversationKey(c)}
  OBVIOUS
<1> HIDE DEF K
<1>3. /\ Shape(s2) /\ AgreeBut(s2, K)
      /\ c # NoId => c \in DOMAIN s2.conversations /\ s2.conversations[c].state = state
  <2>1. CASE p.store
    <3>1. s2 = WriteResponse(s1, p, next, state)
      BY <2>1
    <3> HIDE DEF s2
    <3>2. Shape(s2) /\ AgreeBut(s2, K) /\ s2.conversations = s1.conversations
      BY <1>1, <1>2, <3>1, WriteResponseAgrees
    <3>3. QED  BY <1>1, <3>2
  <2>2. CASE ~p.store
    BY <1>1, <2>2
  <2>3. QED  BY <2>1, <2>2
<1> HIDE DEF s2
<1>4. Good(s3)
  <2>1. CASE c = NoId
    BY <1>3, <2>1 DEF Good, K
  <2>2. CASE c # NoId
    <3>1. K = {ConversationKey(c)} /\ s3 = TouchBoth(s2, ConversationKey(c), s2.conversations[c].bytes, state)
      BY <2>2 DEF K
    <3>2. QED  BY <1>3, <2>2, <3>1, TouchBothGood
  <2>3. QED  BY <2>1, <2>2
<1>5. Written(s, p, next, state) = s3
  BY Zenon DEF Written, s1, s2
<1>6. QED  BY <1>4, <1>5

(* commit as a whole keeps policies and maps in step.                      *)
LEMMA CommittedGood ==
  ASSUME NEW s, Good(s), NEW p, NEW next, NEW state,
         p.id \notin DOMAIN s.responses,
         p.conversation = NoId \/ p.conversation \in DOMAIN s.conversations
  PROVE  Good(Committed(s, p, next, state))
BY WrittenGood, EnforceBudgetGood, CommittedIsWritten

(* Which records a call can add.                                           *)
LEMMA DomainsAfter ==
  ASSUME NEW s, Shape(s)
  PROVE  /\ \A ids : /\ DOMAIN RemoveResponses(s, ids).responses \subseteq DOMAIN s.responses
                     /\ RemoveResponses(s, ids).conversations = s.conversations
         /\ DOMAIN EnforceBudget(s).responses \subseteq DOMAIN s.responses
         /\ DOMAIN EnforceBudget(s).conversations \subseteq DOMAIN s.conversations
<1>1. \A ids : /\ RemoveResponses(s, ids).responses = Without(s.responses, ids)
               /\ RemoveResponses(s, ids).conversations = s.conversations
  BY DEF RemoveResponses, Shape, Fields
<1>2. /\ DOMAIN EnforceBudget(s).responses \subseteq DOMAIN s.responses
      /\ DOMAIN EnforceBudget(s).conversations \subseteq DOMAIN s.conversations
  BY DEF EnforceBudget
<1>3. QED  BY <1>1, <1>2 DEF Without

LEMMA CommittedDomains ==
  ASSUME NEW s, Good(s), NEW p, NEW next, NEW state,
         p.id \notin DOMAIN s.responses,
         p.conversation = NoId \/ p.conversation \in DOMAIN s.conversations
  PROVE  /\ DOMAIN Committed(s, p, next, state).responses \subseteq DOMAIN s.responses \cup {p.id}
         /\ DOMAIN Committed(s, p, next, state).conversations \subseteq DOMAIN s.conversations
<1> DEFINE c  == p.conversation
           s1 == IF c = NoId THEN s ELSE WriteConversation(s, c, next, state)
           s2 == IF p.store THEN WriteResponse(s1, p, next, state) ELSE s1
           s3 == IF c = NoId THEN s2
                 ELSE TouchBoth(s2, ConversationKey(c), s2.conversations[c].bytes, state)
<1>1. /\ DOMAIN s1 = Fields
      /\ s1.responses = s.responses
      /\ DOMAIN s1.conversations = DOMAIN s.conversations
  BY DEF WriteConversation, With, Good, Shape, Fields
<1> HIDE DEF s1
<1>2. /\ DOMAIN s2 = Fields
      /\ DOMAIN s2.responses \subseteq DOMAIN s.responses \cup {p.id}
      /\ s2.conversations = s1.conversations
  BY <1>1 DEF WriteResponse, TouchBoth, With, Fields
<1> HIDE DEF s2
<1>3. s3.responses = s2.responses /\ s3.conversations = s2.conversations
  BY <1>2 DEF TouchBoth, Fields
<1>4. Committed(s, p, next, state) = EnforceBudget(s3)
  BY DEF Committed, s1, s2
<1> HIDE DEF s3
<1>5. /\ DOMAIN EnforceBudget(s3).responses \subseteq DOMAIN s3.responses
      /\ DOMAIN EnforceBudget(s3).conversations \subseteq DOMAIN s3.conversations
  BY DEF EnforceBudget
<1>6. QED  BY <1>1, <1>2, <1>3, <1>4, <1>5

-----------------------------------------------------------------------------
(* Ids come from counters, so a new response or conversation never meets   *)
(* an old record of the same id, whose snapshot it would leave behind.     *)
IdsFresh ==
  /\ next_response \in Nat /\ next_conversation \in Nat
  /\ \A r \in DOMAIN store.responses :
       r \in Nat /\ r < next_response /\ (pending.phase = "generating" => r # pending.id)
  /\ \A c \in DOMAIN store.conversations : c \in Nat /\ c < next_conversation
  /\ pending.phase = "generating" => pending.id \in Nat /\ pending.id < next_response
  /\ pending # Idle => {"phase", "id"} \subseteq DOMAIN pending

StoreInv == Good(store) /\ IdsFresh

(* Calls that touch or remove records and leave the counters alone.        *)
LEMMA ShrinkKeepsInv ==
  ASSUME StoreInv, Good(store'),
         DOMAIN store'.responses \subseteq DOMAIN store.responses,
         DOMAIN store'.conversations \subseteq DOMAIN store.conversations,
         UNCHANGED <<next_response, next_conversation>>,
         \/ pending' = pending
         \/ pending'.phase # "generating" /\ (pending' # Idle => {"phase", "id"} \subseteq DOMAIN pending')
  PROVE  StoreInv'
BY DEF StoreInv, IdsFresh

LEMMA InitInv == Init => StoreInv
<1> SUFFICES ASSUME Init PROVE StoreInv
  OBVIOUS
<1>1. Shape(store)
  BY DEF Init, Shape, Fields
<1>2. AgreeBut(store, {})
  <2>1. /\ DOMAIN store.responses = {} /\ DOMAIN store.conversations = {}
        /\ LruKeys(store.records) = {} /\ LruKeys(store.snapshots) = {}
    BY DEF Init, LruKeys, LruEmpty
  <2>2. RecordKeys(store) = {} /\ SnapshotKeys(store) = {}
    BY <2>1 DEF RecordKeys, SnapshotKeys, HasSnapshot
  <2>3. QED  BY <2>1, <2>2 DEF AgreeBut
<1>3. IdsFresh
  BY DEF Init, IdsFresh, Idle
<1>4. QED  BY <1>1, <1>2, <1>3 DEF StoreInv, Good

LEMMA PruneGood ==
  ASSUME NEW s, Good(s)
  PROVE  /\ Good(PruneExpired(s))
         /\ DOMAIN PruneExpired(s).responses \subseteq DOMAIN s.responses
         /\ PruneExpired(s).conversations = s.conversations
BY RemoveResponsesGood, DomainsAfter DEF PruneExpired, Good

LEMMA TouchContextDomains ==
  ASSUME NEW s, Shape(s), NEW k, NEW rec
  PROVE  /\ TouchContext(s, k, rec).responses = s.responses
         /\ TouchContext(s, k, rec).conversations = s.conversations
BY DEF TouchContext, Shape, Fields

LEMMA ResolveKeepsInv ==
  ASSUME StoreInv, NEW prev, NEW conv, NEW n, NEW storing, Resolve(prev, conv, n, storing)
  PROVE  StoreInv'
<1> DEFINE s     == PruneExpired(store)
           rec   == IF prev # NoId THEN s.responses[prev] ELSE s.conversations[conv]
           key   == IF prev # NoId THEN ResponseKey(prev) ELSE ConversationKey(conv)
           fresh == (IF prev # NoId THEN prev ELSE conv) = NoId
           found == \/ prev # NoId /\ prev \in DOMAIN s.responses
                    \/ prev = NoId /\ conv \in DOMAIN s.conversations
<1>1. /\ Good(s)
      /\ DOMAIN s.responses \subseteq DOMAIN store.responses
      /\ s.conversations = store.conversations
  BY PruneGood DEF StoreInv
<1>2. \/ store' = s
      \/ found /\ store' = TouchContext(s, key, rec)
  BY DEF Resolve
<1>3. UNCHANGED <<next_response, next_conversation>>
  BY DEF Resolve
<1>4. pending'.phase # "generating" /\ (pending' # Idle => {"phase", "id"} \subseteq DOMAIN pending')
  <2>1. \/ pending' = Idle
        \/ \E h, r : pending' = [phase |-> "resolved", id |-> NoId, history |-> h,
                                  conversation |-> conv, store |-> storing, resume |-> r]
    BY Zenon DEF Resolve
  <2> QED BY <2>1 DEF Idle
<1> HIDE DEF s
<1>5. found => Good(TouchContext(s, key, rec))
  <2> SUFFICES ASSUME found PROVE Good(TouchContext(s, key, rec))
    OBVIOUS
  <2>1. key \in RecordKeys(s)
    BY DEF RecordKeys
  <2>2. rec.state # NoState => key \in SnapshotKeys(s)
    BY DEF SnapshotKeys, HasSnapshot
  <2> HIDE DEF key, rec, found
  <2>3. QED  BY <1>1, <2>1, <2>2, TouchContextGood
<1>6. /\ Good(store')
      /\ DOMAIN store'.responses \subseteq DOMAIN store.responses
      /\ DOMAIN store'.conversations \subseteq DOMAIN store.conversations
  <2> HIDE DEF key, rec, found
  <2>1. CASE store' = s
    BY <1>1, <2>1
  <2>2. CASE found /\ store' = TouchContext(s, key, rec)
    BY <1>1, <1>5, <2>2, TouchContextDomains DEF Good
  <2>3. QED  BY <1>2, <2>1, <2>2
<1>7. QED  BY <1>3, <1>4, <1>6, ShrinkKeepsInv

LEMMA BeginKeepsInv ==
  ASSUME StoreInv, BeginGeneration
  PROVE  StoreInv'
<1>1. {"phase", "id"} \subseteq DOMAIN pending
  BY DEF StoreInv, IdsFresh, BeginGeneration, Idle
<1>2. /\ pending'.id = next_response /\ pending'.phase = "generating"
      /\ {"phase", "id"} \subseteq DOMAIN pending'
  BY <1>1 DEF BeginGeneration
<1>3. /\ next_response' = next_response + 1 /\ store' = store
      /\ next_conversation' = next_conversation
  BY DEF BeginGeneration
<1>4. IdsFresh'
  BY <1>2, <1>3 DEF StoreInv, IdsFresh
<1>5. QED  BY <1>3, <1>4 DEF StoreInv

LEMMA FinishKeepsInv ==
  ASSUME StoreInv, NEW state, NEW estimate, FinishGeneration(state, estimate)
  PROVE  StoreInv'
<1> DEFINE next == Append(pending.history, pending.id)
           after == Committed(store, pending, next, state)
<1>1. /\ pending.phase = "generating" /\ pending' = Idle
      /\ UNCHANGED <<next_response, next_conversation>>
  BY DEF FinishGeneration
<1>2. CASE store' = store
  BY <1>1, <1>2, ShrinkKeepsInv DEF StoreInv, Idle
<1>3. CASE Refusal(store, pending, next) = "none" /\ store' = after
  <2>1. pending.conversation = NoId \/ pending.conversation \in DOMAIN store.conversations
    BY <1>3 DEF Refusal
  <2>2. pending.id \notin DOMAIN store.responses
    BY <1>1 DEF StoreInv, IdsFresh
  <2>3. Good(after)
    BY <2>1, <2>2, CommittedGood DEF StoreInv
  <2>4. /\ DOMAIN after.responses \subseteq DOMAIN store.responses \cup {pending.id}
        /\ DOMAIN after.conversations \subseteq DOMAIN store.conversations
    BY <2>1, <2>2, CommittedDomains DEF StoreInv
  <2> HIDE DEF after
  <2>5. IdsFresh'
    BY <1>1, <1>3, <2>4 DEF StoreInv, IdsFresh, Idle
  <2>6. QED  BY <1>3, <2>3, <2>5 DEF StoreInv
<1>4. QED  BY <1>2, <1>3 DEF FinishGeneration

LEMMA ReadKeepsInv ==
  ASSUME StoreInv, NEW id, NEW call, NEW ok, ReadResponse(id, call, ok)
  PROVE  StoreInv'
<1> DEFINE s == PruneExpired(store)
           t == [s EXCEPT !.records = LruTouch(@, ResponseKey(id), s.responses[id].bytes)]
<1>1. /\ Good(s)
      /\ DOMAIN s.responses \subseteq DOMAIN store.responses
      /\ s.conversations = store.conversations
  BY PruneGood DEF StoreInv
<1>2. \/ store' = s
      \/ id \in DOMAIN s.responses /\ store' = t
  BY DEF ReadResponse
<1>3. UNCHANGED <<pending, next_response, next_conversation>>
  BY DEF ReadResponse
<1> HIDE DEF s
<1>4. id \in DOMAIN s.responses => Good(t)
  BY <1>1, TouchRecordGood DEF RecordKeys
<1>5. t.responses = s.responses /\ t.conversations = s.conversations
  BY <1>1 DEF Good, Shape, Fields
<1> HIDE DEF t
<1>6. /\ Good(store')
      /\ DOMAIN store'.responses \subseteq DOMAIN store.responses
      /\ DOMAIN store'.conversations \subseteq DOMAIN store.conversations
  <2>1. CASE store' = s
    BY <1>1, <2>1
  <2>2. CASE id \in DOMAIN s.responses /\ store' = t
    BY <1>1, <1>4, <1>5, <2>2
  <2>3. QED  BY <1>2, <2>1, <2>2
<1>7. QED  BY <1>3, <1>6, ShrinkKeepsInv

LEMMA DeleteResponseKeepsInv ==
  ASSUME StoreInv, NEW id, DeleteResponse(id)
  PROVE  StoreInv'
<1>1. UNCHANGED <<pending, next_response, next_conversation>>
  BY DEF DeleteResponse
<1>2. store' = store \/ store' = RemoveResponses(store, {id})
  BY DEF DeleteResponse
<1>3. /\ Good(store')
      /\ DOMAIN store'.responses \subseteq DOMAIN store.responses
      /\ DOMAIN store'.conversations \subseteq DOMAIN store.conversations
  BY <1>2, RemoveResponsesGood, DomainsAfter DEF StoreInv, Good
<1>4. QED  BY <1>1, <1>3, ShrinkKeepsInv

LEMMA CreateKeepsInv ==
  ASSUME StoreInv, NEW n, CreateConversation(n)
  PROVE  StoreInv'
<1> DEFINE id    == next_conversation
           k     == ConversationKey(id)
           bytes == n + MetadataBytes
           rec   == [history |-> [i \in 1..n |-> InputItem], state |-> NoState,
                     created_at |-> now, bytes |-> bytes]
           s     == [store EXCEPT !.conversations = With(@, id, rec),
                                  !.records = LruTouch(@, k, bytes)]
<1>1. /\ UNCHANGED <<pending, next_response>>
      /\ next_conversation' = next_conversation + 1
  BY DEF CreateConversation
<1>2. CASE store' = store
  BY <1>1, <1>2 DEF StoreInv, IdsFresh
<1>3. CASE store' = EnforceBudget(s)
  <2>1. /\ DOMAIN s = Fields
        /\ s.responses = store.responses
        /\ s.conversations = With(store.conversations, id, rec)
        /\ s.records = LruTouch(store.records, k, bytes)
        /\ s.snapshots = store.snapshots
    BY DEF StoreInv, Good, Shape, Fields
  <2>2. {"history", "state", "bytes"} \subseteq DOMAIN rec /\ rec.state = NoState
    OBVIOUS
  <2> HIDE DEF s, rec, bytes
  <2>3. id \notin DOMAIN store.conversations
    BY DEF StoreInv, IdsFresh
  <2>4. /\ DOMAIN s.conversations = DOMAIN store.conversations \cup {id}
        /\ s.conversations[id] = rec
        /\ \A c \in DOMAIN store.conversations : s.conversations[c] = store.conversations[c]
    BY <2>1, <2>3 DEF With
  <2>5. Shape(s)
    BY <2>1, <2>2, <2>4 DEF StoreInv, Good, Shape
  <2>6. RecordKeys(s) = RecordKeys(store) \cup {k}
    BY <2>1, <2>4 DEF RecordKeys
  <2>7. SnapshotKeys(s) = SnapshotKeys(store)
    <3>1. HasSnapshot(s.conversations) = HasSnapshot(store.conversations)
      BY <2>2, <2>3, <2>4 DEF HasSnapshot
    <3>2. QED  BY <2>1, <3>1 DEF SnapshotKeys
  <2>8. LruKeys(s.records) = LruKeys(store.records) \cup {k}
    BY <2>1, KeysAfterTouch
  <2>9. Good(s)
    BY <2>1, <2>5, <2>6, <2>7, <2>8 DEF StoreInv, Good, AgreeBut
  <2>10. /\ Good(store')
         /\ DOMAIN store'.responses \subseteq DOMAIN store.responses
         /\ DOMAIN store'.conversations \subseteq DOMAIN store.conversations \cup {id}
    BY <1>3, <2>1, <2>4, <2>5, <2>9, EnforceBudgetGood, DomainsAfter
  <2>11. IdsFresh'
    BY <1>1, <2>10 DEF StoreInv, IdsFresh
  <2>12. QED  BY <2>10, <2>11 DEF StoreInv
<1>4. QED  BY <1>2, <1>3 DEF CreateConversation

LEMMA GetConversationKeepsInv ==
  ASSUME StoreInv, NEW id, GetConversation(id)
  PROVE  StoreInv'
<1> DEFINE t == [store EXCEPT !.records =
                   LruTouch(@, ConversationKey(id), store.conversations[id].bytes)]
<1>1. UNCHANGED <<pending, next_response, next_conversation>>
  BY DEF GetConversation
<1>2. store' = store \/ (id \in DOMAIN store.conversations /\ store' = t)
  BY DEF GetConversation
<1>3. t.responses = store.responses /\ t.conversations = store.conversations
  BY DEF StoreInv, Good, Shape, Fields
<1>4. id \in DOMAIN store.conversations => Good(t)
  BY TouchRecordGood DEF StoreInv, RecordKeys
<1> HIDE DEF t
<1>5. /\ Good(store')
      /\ DOMAIN store'.responses \subseteq DOMAIN store.responses
      /\ DOMAIN store'.conversations \subseteq DOMAIN store.conversations
  BY <1>2, <1>3, <1>4 DEF StoreInv
<1>6. QED  BY <1>1, <1>5, ShrinkKeepsInv

LEMMA DeleteConversationKeepsInv ==
  ASSUME StoreInv, NEW id, DeleteConversation(id)
  PROVE  StoreInv'
<1> DEFINE k == ConversationKey(id)
           t == [store EXCEPT !.conversations = Without(@, {id}),
                              !.records = LruRemove(@, k),
                              !.snapshots = LruRemove(@, k)]
<1>1. UNCHANGED <<pending, next_response, next_conversation>>
  BY DEF DeleteConversation
<1>2. store' = store \/ store' = t
  BY DEF DeleteConversation
<1>3. /\ DOMAIN t = Fields
      /\ t.responses = store.responses
      /\ t.conversations = Without(store.conversations, {id})
      /\ t.records = LruRemove(store.records, k)
      /\ t.snapshots = LruRemove(store.snapshots, k)
  BY DEF StoreInv, Good, Shape, Fields
<1> HIDE DEF t
<1>4. Shape(t)
  BY <1>3 DEF StoreInv, Good, Shape, Without
<1>5. /\ LruKeys(t.records) = LruKeys(store.records) \ {k}
      /\ LruKeys(t.snapshots) = LruKeys(store.snapshots) \ {k}
  BY <1>3, KeysAfterRemove
<1>6. RecordKeys(t) = RecordKeys(store) \ {k} /\ SnapshotKeys(t) = SnapshotKeys(store) \ {k}
  BY <1>3, KeysDistinct DEF RecordKeys, SnapshotKeys, HasSnapshot, Without
<1>7. Good(t)
  BY <1>4, <1>5, <1>6 DEF StoreInv, Good, AgreeBut
<1>8. /\ Good(store')
      /\ DOMAIN store'.responses \subseteq DOMAIN store.responses
      /\ DOMAIN store'.conversations \subseteq DOMAIN store.conversations
  BY <1>2, <1>3, <1>7 DEF StoreInv, Without
<1>9. QED  BY <1>1, <1>8, ShrinkKeepsInv

LEMMA NextKeepsInv == StoreInv /\ [Next]_vars => StoreInv'
<1> SUFFICES ASSUME StoreInv, [Next]_vars PROVE StoreInv'
  OBVIOUS
<1>1. CASE \E prev \in ResponseIds \cup {NoId}, conv \in ConversationIds \cup {NoId},
              n \in 0..1, storing \in BOOLEAN : Resolve(prev, conv, n, storing)
  BY <1>1, ResolveKeepsInv
<1>2. CASE BeginGeneration
  BY <1>2, BeginKeepsInv
<1>3. CASE Abandon
  BY <1>3, ShrinkKeepsInv DEF Abandon, StoreInv, Idle
<1>4. CASE \E state \in Snapshots(Append(pending.history, pending.id)),
              estimate \in SnapshotBytes : FinishGeneration(state, estimate)
  BY <1>4, FinishKeepsInv
<1>5. CASE \E id \in ResponseIds, call \in {"get", "input_items"}, ok \in BOOLEAN :
              ReadResponse(id, call, ok)
  BY <1>5, ReadKeepsInv
<1>6. CASE \E id \in ResponseIds : DeleteResponse(id)
  BY <1>6, DeleteResponseKeepsInv
<1>7. CASE \E n \in 0..1 : CreateConversation(n)
  BY <1>7, CreateKeepsInv
<1>8. CASE \E id \in ConversationIds : GetConversation(id) \/ DeleteConversation(id)
  BY <1>8, GetConversationKeepsInv, DeleteConversationKeepsInv
<1>9. CASE Tick \/ UNCHANGED vars
  BY <1>9 DEF Tick, vars, StoreInv, IdsFresh
<1>10. QED
  BY <1>1, <1>2, <1>3, <1>4, <1>5, <1>6, <1>7, <1>8, <1>9 DEF Next

(* In every reachable state of the store, for every budget, byte weights   *)
(* and bounds, the records policy tracks exactly the stored records and    *)
(* the snapshots policy exactly the records that hold a snapshot           *)
(* (session_store.rs: commit, enforce_budget, prune_expired, the deletes). *)
THEOREM IndexAlwaysConsistent == Spec => []IndexConsistent
<1>1. StoreInv => IndexConsistent
  BY DEF StoreInv, Good, AgreeBut, IndexConsistent
<1>2. QED  BY InitInv, NextKeepsInv, <1>1, PTL DEF Spec

-----------------------------------------------------------------------------
(* What the records hold.                                                  *)

Items == {InputItem} \cup ResponseIds

StoreTyped(s) ==
  /\ DOMAIN s.responses \subseteq ResponseIds
  /\ \A r \in DOMAIN s.responses : s.responses[r] \in StoredResponse
  /\ DOMAIN s.conversations \subseteq ConversationIds
  /\ \A c \in DOMAIN s.conversations : s.conversations[c] \in ConversationRecord

(* A snapshot covers the history of its record.                            *)
SnapshotsExact(s) ==
  /\ \A r \in DOMAIN s.responses :
       s.responses[r].state # NoState => s.responses[r].state.covers = s.responses[r].history
  /\ \A c \in DOMAIN s.conversations :
       s.conversations[c].state # NoState =>
         s.conversations[c].state.covers = s.conversations[c].history

(* Conversations keep the turns made in them, and none belongs to one that *)
(* does not exist yet.                                                     *)
TurnsKept(s, n) ==
  \A r \in DOMAIN s.responses :
    LET c == s.responses[r].conversation
    IN  /\ c < n
        /\ c \in DOMAIN s.conversations =>
             SX!IsPrefix(s.responses[r].history, s.conversations[c].history)

Contents(s, n) == StoreTyped(s) /\ SnapshotsExact(s) /\ TurnsKept(s, n)

Requests ==
  [phase : {"resolved", "generating"}, id : ResponseIds \cup {NoId},
   history : Seq(Items), conversation : ConversationIds \cup {NoId},
   store : BOOLEAN, resume : States]

(* The request in hand continues what its conversation holds.              *)
PendingSound ==
  \/ pending = Idle
  \/ /\ pending \in Requests
     /\ Len(pending.history) <= MaxItems
     /\ pending.phase = "generating" => pending.id \in ResponseIds
     /\ pending.conversation < next_conversation
     /\ pending.conversation \in DOMAIN store.conversations =>
          SX!IsPrefix(store.conversations[pending.conversation].history, pending.history)
     /\ pending.resume # NoState => SX!IsPrefix(pending.resume.covers, pending.history)

CountersTyped ==
  /\ now \in 0..MaxNow
  /\ next_response \in 1..MaxResponses + 1
  /\ next_conversation \in 1..MaxConversations + 1

ContentInv ==
  Contents(store, next_conversation) /\ PendingSound /\ CountersTyped /\ NoExpiredReads

(* Facts about histories and prefixes.                                     *)
IsItems(h) == h \in Seq(Items)

LEMMA HistoriesAreItems ==
  \A h : h \in Histories <=> IsItems(h) /\ Len(h) <= MaxItems + 1
<1>0. MaxItems + 1 \in Nat
  BY StoreAssumption
<1>1. ASSUME NEW h, h \in Histories PROVE IsItems(h) /\ Len(h) <= MaxItems + 1
  <2>1. PICK n \in 0..MaxItems + 1 : h \in [1..n -> Items]
    BY <1>1 DEF Histories, Items
  <2>2. h \in Seq(Items) /\ Len(h) = n
    BY <1>0, <2>1
  <2>3. QED  BY <1>0, <2>1, <2>2 DEF IsItems
<1>2. ASSUME NEW h, IsItems(h), Len(h) <= MaxItems + 1 PROVE h \in Histories
  <2>1. h \in [1..Len(h) -> Items] /\ Len(h) \in 0..MaxItems + 1
    BY <1>0, <1>2 DEF IsItems
  <2>2. QED  BY <2>1 DEF Histories, Items
<1>3. QED  BY <1>1, <1>2, Zenon

LEMMA PrefixMeans ==
  ASSUME NEW a, NEW b, IsItems(a), IsItems(b)
  PROVE  SX!IsPrefix(a, b) <=> Len(a) <= Len(b) /\ \A i \in 1..Len(a) : a[i] = b[i]
<1>1. a \in Seq(Items) /\ b \in Seq(Items)
  BY DEF IsItems
<1>2. CASE Len(a) <= Len(b)
  <2>1. SubSeq(a, 1, Len(a)) = [i \in 1..Len(a) |-> a[i]]
    BY <1>1
  <2>2. SubSeq(b, 1, Len(a)) = [i \in 1..Len(a) |-> b[i]]
    BY <1>1, <1>2
  <2>3. QED  BY <1>2, <2>1, <2>2 DEF SX!IsPrefix
<1>3. CASE ~(Len(a) <= Len(b))
  BY <1>3 DEF SX!IsPrefix
<1>4. QED  BY <1>2, <1>3

LEMMA PrefixReflexive ==
  ASSUME NEW a PROVE SX!IsPrefix(a, a) \/ ~IsItems(a)
BY PrefixMeans DEF IsItems

LEMMA PrefixTransitive ==
  ASSUME NEW a, NEW b, NEW c, IsItems(a), IsItems(b), IsItems(c),
         SX!IsPrefix(a, b), SX!IsPrefix(b, c)
  PROVE  SX!IsPrefix(a, c)
<1>1. /\ Len(a) <= Len(b) /\ \A i \in 1..Len(a) : a[i] = b[i]
      /\ Len(b) <= Len(c) /\ \A i \in 1..Len(b) : b[i] = c[i]
  BY PrefixMeans
<1>2. Len(a) \in Nat /\ Len(b) \in Nat /\ Len(c) \in Nat
  BY DEF IsItems
<1>3. Len(a) <= Len(c) /\ \A i \in 1..Len(a) : a[i] = c[i]
  BY <1>1, <1>2
<1>4. QED  BY <1>3, PrefixMeans

LEMMA PrefixOfConcatenation ==
  ASSUME NEW a, NEW b, IsItems(a), IsItems(b)
  PROVE  IsItems(a \o b) /\ SX!IsPrefix(a, a \o b)
<1>1. a \o b \in Seq(Items) /\ Len(a) <= Len(a \o b) /\ \A i \in 1..Len(a) : a[i] = (a \o b)[i]
  BY DEF IsItems
<1>2. QED  BY <1>1, PrefixMeans DEF IsItems

LEMMA PrefixOfAppend ==
  ASSUME NEW a, NEW x \in Items, IsItems(a)
  PROVE  /\ IsItems(Append(a, x)) /\ SX!IsPrefix(a, Append(a, x))
         /\ Len(Append(a, x)) = Len(a) + 1
<1>1. /\ Append(a, x) \in Seq(Items) /\ Len(Append(a, x)) = Len(a) + 1
      /\ Len(a) <= Len(Append(a, x)) /\ \A i \in 1..Len(a) : a[i] = Append(a, x)[i]
  BY DEF IsItems
<1>2. QED  BY <1>1, PrefixMeans DEF IsItems

LEMMA InputIsItems ==
  ASSUME NEW n \in 0..1
  PROVE  IsItems([i \in 1..n |-> InputItem]) /\ Len([i \in 1..n |-> InputItem]) = n
<1>1. InputItem \in Items
  BY DEF Items
<1>2. QED  BY <1>1 DEF IsItems

LEMMA NoStateTyped == NoState \in States
<1>1. IsItems(<<>>) /\ Len(<<>>) <= MaxItems + 1
  BY StoreAssumption DEF IsItems
<1>2. <<>> \in Histories
  BY <1>1, HistoriesAreItems
<1>3. QED  BY <1>2 DEF NoState, States

(* A record that is the same, or has lost its snapshot.                    *)
Faded(a, b) == b = a \/ b = [a EXCEPT !.state = NoState]

(* A store with some records gone and some snapshots dropped.              *)
Shrunk(s, t) ==
  /\ DOMAIN t.responses \subseteq DOMAIN s.responses
  /\ DOMAIN t.conversations \subseteq DOMAIN s.conversations
  /\ \A r \in DOMAIN t.responses : Faded(s.responses[r], t.responses[r])
  /\ \A c \in DOMAIN t.conversations : Faded(s.conversations[c], t.conversations[c])

LEMMA FadedResponse ==
  ASSUME NEW a \in StoredResponse, NEW b, Faded(a, b)
  PROVE  /\ b \in StoredResponse
         /\ b.history = a.history /\ b.conversation = a.conversation
         /\ b.expires_at = a.expires_at /\ b.bytes = a.bytes
         /\ b.state = a.state \/ b.state = NoState
<1>1. CASE b = a
  BY <1>1
<1>2. CASE b = [a EXCEPT !.state = NoState]
  <2> DEFINE n == NoState
  <2>1. n \in States
    BY NoStateTyped
  <2> HIDE DEF n
  <2>2. b = [a EXCEPT !.state = n]
    BY <1>2 DEF n
  <2>3. /\ b \in StoredResponse
        /\ b.history = a.history /\ b.conversation = a.conversation
        /\ b.expires_at = a.expires_at /\ b.bytes = a.bytes
        /\ b.state = n
    BY <2>1, <2>2 DEF StoredResponse
  <2>4. QED  BY <2>3 DEF n
<1>3. QED  BY <1>1, <1>2 DEF Faded

LEMMA FadedConversation ==
  ASSUME NEW a \in ConversationRecord, NEW b, Faded(a, b)
  PROVE  /\ b \in ConversationRecord
         /\ b.history = a.history /\ b.bytes = a.bytes
         /\ b.state = a.state \/ b.state = NoState
<1>1. CASE b = a
  BY <1>1
<1>2. CASE b = [a EXCEPT !.state = NoState]
  <2> DEFINE n == NoState
  <2>1. n \in States
    BY NoStateTyped
  <2> HIDE DEF n
  <2>2. b = [a EXCEPT !.state = n]
    BY <1>2 DEF n
  <2>3. /\ b \in ConversationRecord
        /\ b.history = a.history /\ b.bytes = a.bytes
        /\ b.state = n
    BY <2>1, <2>2 DEF ConversationRecord
  <2>4. QED  BY <2>3 DEF n
<1>3. QED  BY <1>1, <1>2 DEF Faded

LEMMA ShrunkKeepsContents ==
  ASSUME NEW s, NEW t, NEW n \in Nat, NEW m \in Nat, n <= m,
         Contents(s, n), Shrunk(s, t)
  PROVE  Contents(t, m)
<1>1. ASSUME NEW r \in DOMAIN t.responses
      PROVE  /\ r \in DOMAIN s.responses /\ r \in ResponseIds
             /\ t.responses[r] \in StoredResponse
             /\ t.responses[r].history = s.responses[r].history
             /\ t.responses[r].conversation = s.responses[r].conversation
             /\ \/ t.responses[r].state = s.responses[r].state
                \/ t.responses[r].state = NoState
  <2>1. /\ r \in DOMAIN s.responses /\ s.responses[r] \in StoredResponse /\ r \in ResponseIds
        /\ Faded(s.responses[r], t.responses[r])
    BY <1>1 DEF Contents, StoreTyped, Shrunk
  <2>2. QED  BY <2>1, FadedResponse
<1>2. ASSUME NEW c \in DOMAIN t.conversations
      PROVE  /\ c \in DOMAIN s.conversations /\ c \in ConversationIds
             /\ t.conversations[c] \in ConversationRecord
             /\ t.conversations[c].history = s.conversations[c].history
             /\ \/ t.conversations[c].state = s.conversations[c].state
                \/ t.conversations[c].state = NoState
  <2>1. /\ c \in DOMAIN s.conversations /\ c \in ConversationIds
        /\ s.conversations[c] \in ConversationRecord
        /\ Faded(s.conversations[c], t.conversations[c])
    BY <1>2 DEF Contents, StoreTyped, Shrunk
  <2>2. QED  BY <2>1, FadedConversation
<1>3. StoreTyped(t)
  BY <1>1, <1>2 DEF StoreTyped
<1>4. SnapshotsExact(t)
  <2>1. ASSUME NEW r \in DOMAIN t.responses, t.responses[r].state # NoState
        PROVE  t.responses[r].state.covers = t.responses[r].history
    BY <1>1, <2>1 DEF Contents, SnapshotsExact
  <2>2. ASSUME NEW c \in DOMAIN t.conversations, t.conversations[c].state # NoState
        PROVE  t.conversations[c].state.covers = t.conversations[c].history
    BY <1>2, <2>2 DEF Contents, SnapshotsExact
  <2>3. QED  BY <2>1, <2>2 DEF SnapshotsExact
<1>5. TurnsKept(t, m)
  <2> SUFFICES ASSUME NEW r \in DOMAIN t.responses, NEW c, c = t.responses[r].conversation
               PROVE  /\ c < m
                      /\ c \in DOMAIN t.conversations =>
                           SX!IsPrefix(t.responses[r].history, t.conversations[c].history)
    BY DEF TurnsKept
  <2>1. /\ c = s.responses[r].conversation /\ c < n /\ r \in DOMAIN s.responses
        /\ c \in DOMAIN s.conversations =>
             SX!IsPrefix(s.responses[r].history, s.conversations[c].history)
    BY <1>1 DEF Contents, TurnsKept
  <2>2. c \in Nat
    BY <1>1, StoreAssumption DEF StoredResponse, ConversationIds, NoId
  <2>3. c < m
    BY <2>1, <2>2
  <2>4. ASSUME c \in DOMAIN t.conversations
        PROVE  SX!IsPrefix(t.responses[r].history, t.conversations[c].history)
    <3>1. /\ c \in DOMAIN s.conversations
          /\ t.responses[r].history = s.responses[r].history
          /\ t.conversations[c].history = s.conversations[c].history
      BY <1>1, <1>2, <2>4
    <3>2. QED  BY <2>1, <3>1
  <2>5. QED  BY <2>3, <2>4
<1>6. QED  BY <1>3, <1>4, <1>5 DEF Contents

(* What the calls that add nothing do to the maps.                         *)
LEMMA SameMapsShrunk ==
  ASSUME NEW s, NEW t, t.responses = s.responses, t.conversations = s.conversations
  PROVE  Shrunk(s, t)
BY DEF Shrunk, Faded

LEMMA RemoveResponsesShrunk ==
  ASSUME NEW s, Shape(s), NEW ids
  PROVE  Shrunk(s, RemoveResponses(s, ids))
<1> DEFINE t == RemoveResponses(s, ids)
<1>1. t.responses = Without(s.responses, ids) /\ t.conversations = s.conversations
  BY DEF RemoveResponses, Shape, Fields
<1> HIDE DEF t
<1>2. Shrunk(s, t)
  BY <1>1 DEF Shrunk, Faded, Without
<1>3. QED  BY <1>2 DEF t

LEMMA EnforceBudgetShrunk ==
  ASSUME NEW s
  PROVE  Shrunk(s, EnforceBudget(s))
<1> DEFINE t       == EnforceBudget(s)
           dropped == LruKeys(s.snapshots) \ LruKeys(SnapshotsLeft(s))
           removed == LruKeys(s.records) \ LruKeys(RecordsLeft(s))
           keptR   == {x \in DOMAIN s.responses : ResponseKey(x) \notin removed}
           keptC   == {x \in DOMAIN s.conversations : ConversationKey(x) \notin removed}
<1>1. /\ t.responses = [r \in keptR |-> DropSnapshot(s.responses[r], ResponseKey(r) \in dropped)]
      /\ t.conversations =
           [c \in keptC |-> DropSnapshot(s.conversations[c], ConversationKey(c) \in dropped)]
  BY DEF EnforceBudget
<1> HIDE DEF t, dropped, removed
<1>2. \A a, d : Faded(a, DropSnapshot(a, d))
  BY Zenon DEF Faded, DropSnapshot
<1>3. Shrunk(s, t)
  BY <1>1, <1>2 DEF Shrunk
<1>4. QED  BY <1>3 DEF t

(* Between requests, and while one waits, a shrinking store keeps the rest *)
(* of the invariant.                                                       *)
LEMMA ShrunkKeepsPending ==
  ASSUME ContentInv, Shrunk(store, store'), pending' = pending,
         next_conversation' >= next_conversation, next_conversation' \in Nat
  PROVE  PendingSound'
<1>1. CASE pending = Idle
  BY <1>1 DEF PendingSound
<1>2. CASE pending # Idle
  <2> DEFINE c == pending.conversation
  <2>1. /\ pending \in Requests
        /\ Len(pending.history) <= MaxItems
        /\ pending.phase = "generating" => pending.id \in ResponseIds
        /\ c < next_conversation
        /\ c \in DOMAIN store.conversations =>
             SX!IsPrefix(store.conversations[c].history, pending.history)
        /\ pending.resume # NoState => SX!IsPrefix(pending.resume.covers, pending.history)
    BY <1>2 DEF ContentInv, PendingSound
  <2>2. c \in Nat /\ next_conversation \in Nat
    <3>1. c \in ConversationIds \cup {NoId}
      BY <2>1 DEF Requests
    <3>2. next_conversation \in Nat
      BY DEF ContentInv, CountersTyped
    <3>3. QED  BY <3>1, <3>2, StoreAssumption DEF ConversationIds, NoId
  <2>3. c < next_conversation'
    BY <2>1, <2>2
  <2>4. ASSUME c \in DOMAIN store'.conversations
        PROVE  SX!IsPrefix(store'.conversations[c].history, pending.history)
    <3>1. /\ c \in DOMAIN store.conversations
          /\ store.conversations[c] \in ConversationRecord
          /\ Faded(store.conversations[c], store'.conversations[c])
      BY <2>4 DEF Shrunk, ContentInv, Contents, StoreTyped
    <3>2. store'.conversations[c].history = store.conversations[c].history
      BY <3>1, FadedConversation
    <3>3. QED  BY <2>1, <3>1, <3>2
  <2>5. QED  BY <2>1, <2>3, <2>4 DEF PendingSound
<1>3. QED  BY <1>1, <1>2

LEMMA ShrunkKeepsInv ==
  ASSUME ContentInv, Shrunk(store, store'), PendingSound', CountersTyped', NoExpiredReads',
         next_conversation' >= next_conversation
  PROVE  ContentInv'
<1>1. next_conversation \in Nat /\ next_conversation' \in Nat
  BY StoreAssumption DEF ContentInv, CountersTyped
<1>2. Contents(store', next_conversation')
  BY <1>1, ShrunkKeepsContents DEF ContentInv
<1>3. Contents(store, next_conversation)'
  BY <1>2
<1>4. QED  BY <1>3 DEF ContentInv

LEMMA InitContents == Init => ContentInv
<1> SUFFICES ASSUME Init PROVE ContentInv
  OBVIOUS
<1>1. DOMAIN store.responses = {} /\ DOMAIN store.conversations = {}
  BY DEF Init
<1>2. Contents(store, next_conversation)
  BY <1>1 DEF Contents, StoreTyped, SnapshotsExact, TurnsKept
<1>3. PendingSound
  BY DEF Init, PendingSound
<1>4. CountersTyped
  BY StoreAssumption DEF Init, CountersTyped
<1>5. NoExpiredReads
  BY DEF Init, NoExpiredReads, NoReply
<1>6. QED  BY <1>2, <1>3, <1>4, <1>5 DEF ContentInv

(* Pruning leaves only responses that have not expired.                    *)
LEMMA PruneLeavesLive ==
  ASSUME NEW s, Shape(s), StoreTyped(s), now \in Nat
  PROVE  /\ Shrunk(s, PruneExpired(s))
         /\ PruneExpired(s).conversations = s.conversations
         /\ \A r \in DOMAIN PruneExpired(s).responses : PruneExpired(s).responses[r].expires_at > now
<1> DEFINE t == PruneExpired(s)
           gone == {r \in DOMAIN s.responses : s.responses[r].expires_at <= now}
<1>1. t.responses = Without(s.responses, gone) /\ t.conversations = s.conversations
  BY DEF PruneExpired, RemoveResponses, Shape, Fields
<1>2. Shrunk(s, t)
  BY RemoveResponsesShrunk DEF PruneExpired
<1> HIDE DEF t
<1>3. \A r \in DOMAIN s.responses : s.responses[r].expires_at \in Nat
  BY DEF StoreTyped, StoredResponse
<1>4. \A r \in DOMAIN t.responses : t.responses[r].expires_at > now
  BY <1>1, <1>3 DEF Without
<1>5. QED  BY <1>1, <1>2, <1>4 DEF t

(* The request resolve hands on, from a record of history base and         *)
(* snapshot state.                                                         *)
Request(base, n, conv, storing, state) ==
  [phase |-> "resolved", id |-> NoId, history |-> base \o [i \in 1..n |-> InputItem],
   conversation |-> conv, store |-> storing, resume |-> state]

IsRequest(p, base, n, conv, state) ==
  /\ p \in Requests
  /\ p.phase = "resolved" /\ p.conversation = conv /\ p.resume = state
  /\ p.history = base \o [i \in 1..n |-> InputItem]
  /\ IsItems(p.history) /\ SX!IsPrefix(base, p.history)

LEMMA RequestTyped ==
  \A base, state : \A n \in 0..1, conv \in ConversationIds \cup {NoId}, storing \in BOOLEAN :
    IsItems(base) /\ state \in States =>
      IsRequest(Request(base, n, conv, storing, state), base, n, conv, state)
<1> SUFFICES ASSUME NEW base, NEW state, NEW n \in 0..1,
                    NEW conv \in ConversationIds \cup {NoId}, NEW storing \in BOOLEAN,
                    IsItems(base), state \in States
             PROVE  IsRequest(Request(base, n, conv, storing, state), base, n, conv, state)
  BY Zenon
<1> DEFINE h == base \o [i \in 1..n |-> InputItem]
           p == Request(base, n, conv, storing, state)
<1>1. IsItems(h) /\ SX!IsPrefix(base, h)
  BY InputIsItems, PrefixOfConcatenation
<1>2. p = [phase |-> "resolved", id |-> NoId, history |-> h,
           conversation |-> conv, store |-> storing, resume |-> state]
  BY DEF Request
<1> HIDE DEF h, p
<1>3. p \in Requests
  BY <1>1, <1>2 DEF Requests, IsItems
<1>4. /\ p.phase = "resolved" /\ p.conversation = conv /\ p.resume = state /\ p.history = h
  BY <1>2
<1>5. QED  BY <1>1, <1>3, <1>4 DEF h, p, IsRequest

LEMMA ResolveKeepsContents ==
  ASSUME StoreInv, ContentInv, NEW prev \in ResponseIds \cup {NoId},
         NEW conv \in ConversationIds \cup {NoId}, NEW n \in 0..1, NEW storing \in BOOLEAN,
         Resolve(prev, conv, n, storing)
  PROVE  ContentInv'
<1> DEFINE s     == PruneExpired(store)
           rec   == IF prev # NoId THEN s.responses[prev] ELSE s.conversations[conv]
           key   == IF prev # NoId THEN ResponseKey(prev) ELSE ConversationKey(conv)
           id    == IF prev # NoId THEN prev ELSE conv
           kind  == IF prev # NoId THEN "response" ELSE "conversation"
           found == \/ prev # NoId /\ prev \in DOMAIN s.responses
                    \/ prev = NoId /\ conv \in DOMAIN s.conversations
<1>1. /\ Shape(store) /\ StoreTyped(store) /\ now \in Nat
      /\ Contents(store, next_conversation) /\ next_conversation \in Nat
  BY StoreAssumption DEF StoreInv, Good, ContentInv, Contents, CountersTyped
<1>2. /\ Shrunk(store, s) /\ s.conversations = store.conversations
      /\ \A r \in DOMAIN s.responses : s.responses[r].expires_at > now
  BY <1>1, PruneLeavesLive
<1>3. Contents(s, next_conversation)
  BY <1>1, <1>2, ShrunkKeepsContents
<1>4. Shape(s)
  BY PruneGood DEF StoreInv, Good
<1>5. UNCHANGED <<now, next_response, next_conversation>>
  BY DEF Resolve
<1>6. CountersTyped' /\ next_conversation' >= next_conversation
  BY <1>1, <1>5 DEF ContentInv, CountersTyped
<1> DEFINE both  == prev # NoId /\ conv # NoId
           fresh == id = NoId
           base  == IF fresh THEN <<>> ELSE rec.history
           hist  == base \o [i \in 1..n |-> InputItem]
           state == IF fresh THEN NoState ELSE rec.state
<1>7. /\ ~both /\ (fresh \/ found) => Len(hist) <= MaxItems
      /\ \/ /\ store' = s /\ pending' = Idle
            /\ \/ reply' = Reply("resolve", kind, id, "invalid")
               \/ reply' = Reply("resolve", kind, id, "not_found")
         \/ /\ ~both /\ (fresh \/ found)
            /\ store' = IF fresh THEN s ELSE TouchContext(s, key, rec)
            /\ \/ /\ pending' = Idle
                  /\ reply' = Reply("resolve", kind, id, "invalid")
               \/ /\ pending' = Request(base, n, conv, storing, state)
                  /\ reply' = Reply("resolve", kind, id, "ok")
  BY Zenon DEF Resolve, Request
<1>8. /\ Shrunk(store, store')
      /\ store'.responses = s.responses /\ store'.conversations = s.conversations
  <2> HIDE DEF s, rec, key, both, fresh, found, hist, base, state
  <2>1. /\ TouchContext(s, key, rec).responses = s.responses
        /\ TouchContext(s, key, rec).conversations = s.conversations
    BY <1>4, TouchContextDomains
  <2>2. store' = s \/ store' = TouchContext(s, key, rec)
    BY <1>7, Zenon
  <2>3. store'.responses = s.responses /\ store'.conversations = s.conversations
    BY <2>1, <2>2
  <2>4. QED  BY <1>2, <2>3 DEF Shrunk
<1>9. NoExpiredReads'
  <2> SUFFICES ASSUME reply'.kind = "response", reply'.outcome = "ok"
               PROVE  /\ reply'.id \in DOMAIN store'.responses
                      /\ store'.responses[reply'.id].expires_at > now'
    BY DEF NoExpiredReads
  <2>1. /\ ~both /\ (fresh \/ found)
        /\ reply' = Reply("resolve", kind, id, "ok")
    <3> HIDE DEF both, fresh, found, kind, id, s, hist, base, state
    <3>1. \/ ~both /\ (fresh \/ found) /\ reply' = Reply("resolve", kind, id, "ok")
          \/ reply' = Reply("resolve", kind, id, "invalid")
          \/ reply' = Reply("resolve", kind, id, "not_found")
      BY <1>7, Zenon
    <3>2. QED  BY <3>1 DEF Reply
  <2>2. kind = "response" /\ reply'.id = id
    <3> HIDE DEF kind, id, fresh, found, both
    <3> QED  BY <2>1 DEF Reply
  <2>3. prev # NoId /\ id = prev
    BY <2>2
  <2>4. prev \in DOMAIN s.responses
    <3> HIDE DEF s
    <3> QED  BY <2>1, <2>3
  <2> HIDE DEF s, id, kind
  <2>5. QED  BY <1>2, <1>5, <1>8, <2>2, <2>3, <2>4
<1>10. PendingSound'
  <2>1. CASE pending' = Idle
    BY <2>1 DEF PendingSound
  <2>2. CASE pending' # Idle
    <3>1. /\ ~both /\ (fresh \/ found) /\ Len(hist) <= MaxItems
          /\ pending' = Request(base, n, conv, storing, state)
      <4> HIDE DEF both, fresh, found, kind, id, s, hist, base, state
      <4> QED  BY <1>7, <2>2, Zenon
    <3>2. IsItems(base) /\ state \in States /\ (state # NoState => state.covers = base)
      <4>1. CASE fresh
        <5>1. base = <<>> /\ state = NoState
          BY <4>1
        <5>2. IsItems(<<>>)
          BY DEF IsItems
        <5> HIDE DEF base, state
        <5>3. QED  BY <5>1, <5>2, NoStateTyped
      <4>2. CASE ~fresh
        <5>1. base = rec.history /\ state = rec.state /\ found
          BY <3>1, <4>2, Zenon
        <5> HIDE DEF s, base, state
        <5>2. /\ rec.history \in Histories /\ rec.state \in States
              /\ rec.state # NoState => rec.state.covers = rec.history
          <6>1. CASE prev # NoId
            <7>1. prev \in DOMAIN s.responses /\ rec = s.responses[prev]
              BY <5>1, <6>1
            <7> HIDE DEF rec
            <7>2. QED
              BY <1>3, <7>1 DEF Contents, StoreTyped, StoredResponse, SnapshotsExact
          <6>2. CASE prev = NoId
            <7>1. conv \in DOMAIN s.conversations /\ rec = s.conversations[conv]
              BY <5>1, <6>2
            <7> HIDE DEF rec
            <7>2. QED
              BY <1>3, <7>1 DEF Contents, StoreTyped, ConversationRecord, SnapshotsExact
          <6>3. QED  BY <6>1, <6>2
        <5> HIDE DEF rec
        <5>3. QED  BY <5>1, <5>2, HistoriesAreItems
      <4>3. QED  BY <4>1, <4>2
    <3>3. conv \in DOMAIN s.conversations =>
            conv # NoId /\ conv < next_conversation /\ base = s.conversations[conv].history
      <4> SUFFICES ASSUME conv \in DOMAIN s.conversations
                   PROVE  conv # NoId /\ conv < next_conversation
                          /\ base = s.conversations[conv].history
        OBVIOUS
      <4>1. conv \in ConversationIds
        BY <1>3 DEF Contents, StoreTyped
      <4>2. conv # NoId
        BY <4>1, StoreAssumption DEF ConversationIds, NoId
      <4>3. prev = NoId
        BY <3>1, <4>2, Zenon
      <4>4. ~fresh /\ rec = s.conversations[conv]
        BY <4>2, <4>3
      <4>5. base = s.conversations[conv].history
        BY <4>4
      <4>6. conv < next_conversation
        BY <1>2 DEF StoreInv, IdsFresh
      <4>7. QED  BY <4>2, <4>5, <4>6
    <3>4. conv < next_conversation
      <4>1. CASE conv = NoId
        BY <4>1, StoreAssumption DEF ContentInv, CountersTyped, NoId
      <4>2. CASE conv # NoId
        <5>1. prev = NoId
          BY <3>1, <4>2, Zenon
        <5>2. conv \in DOMAIN s.conversations
          <6> HIDE DEF s
          <6> QED  BY <3>1, <4>2, <5>1
        <5>3. QED  BY <3>3, <5>2
      <4>3. QED  BY <4>1, <4>2
    <3>5. /\ pending' \in Requests
          /\ pending'.phase = "resolved" /\ pending'.conversation = conv /\ pending'.resume = state
          /\ pending'.history = hist /\ SX!IsPrefix(base, pending'.history)
      <4>1. /\ IsItems(base) /\ state \in States
            /\ pending' = Request(base, n, conv, storing, state)
        BY <3>1, <3>2
      <4> HIDE DEF base, state
      <4>2. IsRequest(pending', base, n, conv, state)
        BY <4>1, RequestTyped, Zenon
      <4>3. QED  BY <4>2 DEF IsRequest
    <3> HIDE DEF base, state, hist, s, rec, fresh, found, both
    <3>6. QED
      BY <1>5, <1>8, <3>1, <3>2, <3>3, <3>4, <3>5 DEF PendingSound
  <2>3. QED  BY <2>1, <2>2
<1>11. QED  BY <1>6, <1>8, <1>9, <1>10, ShrunkKeepsInv

(* commit writes the turn into the conversation ...                        *)
LEMMA ConversationWritten ==
  ASSUME NEW s, NEW t, NEW n \in Nat, Contents(s, n), NEW c \in DOMAIN s.conversations,
         NEW next \in Histories, NEW state \in States,
         state # NoState => state.covers = next,
         SX!IsPrefix(s.conversations[c].history, next),
         t.responses = s.responses,
         t.conversations = With(s.conversations, c, UpdatedConversation(s, c, next, state))
  PROVE  Contents(t, n) /\ t.conversations[c].history = next
<1> DEFINE old == s.conversations[c]
           new == UpdatedConversation(s, c, next, state)
           b   == MetadataBytes + Len(next)
<1>1. old \in ConversationRecord
  BY DEF Contents, StoreTyped
<1>2. IsItems(next) /\ IsItems(old.history) /\ Len(next) \in Nat
  <2>1. old.history \in Histories
    BY <1>1 DEF ConversationRecord
  <2>2. IsItems(next) /\ IsItems(old.history)
    BY <2>1, HistoriesAreItems
  <2>3. QED  BY <2>2 DEF IsItems
<1>3. b \in Nat
  BY <1>2, StoreAssumption
<1>4. new = [old EXCEPT !.history = next, !.state = state, !.bytes = b]
  BY DEF UpdatedConversation
<1> HIDE DEF old, new, b
<1>5. new \in ConversationRecord /\ new.history = next /\ new.state = state
  BY <1>1, <1>3, <1>4 DEF ConversationRecord
<1>6. /\ DOMAIN t.conversations = DOMAIN s.conversations
      /\ t.conversations[c] = new
      /\ \A x \in DOMAIN s.conversations : x # c => t.conversations[x] = s.conversations[x]
  BY DEF With, new
<1>7. StoreTyped(t)
  BY <1>5, <1>6 DEF Contents, StoreTyped
<1>8. SnapshotsExact(t)
  BY <1>5, <1>6 DEF Contents, SnapshotsExact
<1>9. TurnsKept(t, n)
  <2> SUFFICES ASSUME NEW r \in DOMAIN t.responses, NEW d, d = t.responses[r].conversation
               PROVE  /\ d < n
                      /\ d \in DOMAIN t.conversations =>
                           SX!IsPrefix(t.responses[r].history, t.conversations[d].history)
    BY DEF TurnsKept
  <2>1. /\ r \in DOMAIN s.responses /\ d < n
        /\ d \in DOMAIN s.conversations =>
             SX!IsPrefix(s.responses[r].history, s.conversations[d].history)
    BY DEF Contents, TurnsKept
  <2>2. ASSUME d \in DOMAIN t.conversations
        PROVE  SX!IsPrefix(t.responses[r].history, t.conversations[d].history)
    <3>1. SX!IsPrefix(t.responses[r].history, s.conversations[d].history)
      BY <1>6, <2>1, <2>2
    <3>2. CASE d # c
      BY <1>6, <2>2, <3>1, <3>2
    <3>3. CASE d = c
      <4>1. t.responses[r].history \in Histories
        BY <2>1 DEF Contents, StoreTyped, StoredResponse
      <4>2. IsItems(t.responses[r].history)
        BY <4>1, HistoriesAreItems
      <4>3. SX!IsPrefix(t.responses[r].history, next)
        BY <1>2, <3>1, <3>3, <4>2, PrefixTransitive DEF old
      <4>4. QED  BY <1>5, <1>6, <3>3, <4>3
    <3>4. QED  BY <3>2, <3>3
  <2>3. QED  BY <2>1, <2>2
<1>10. QED  BY <1>5, <1>6, <1>7, <1>8, <1>9 DEF Contents

(* ... and stores the response.                                            *)
NewResponse(p, next, state) ==
  [history |-> next, state |-> state, expires_at |-> now + Ttl,
   bytes |-> ResponseCharge(p, next), conversation |-> p.conversation]

LEMMA ResponseWritten ==
  ASSUME NEW s, NEW t, NEW n \in Nat, Contents(s, n), NEW p \in Requests,
         p.id \in ResponseIds, p.conversation < n, p.id \notin DOMAIN s.responses,
         NEW next \in Histories, NEW state \in States, now \in Nat,
         state # NoState => state.covers = next,
         p.conversation # NoId => s.conversations[p.conversation].history = next,
         t.conversations = s.conversations,
         t.responses = With(s.responses, p.id, NewResponse(p, next, state))
  PROVE  Contents(t, n)
<1> DEFINE new == NewResponse(p, next, state)
           b   == ResponseCharge(p, next)
           c   == p.conversation
<1>1. IsItems(next) /\ Len(next) \in Nat /\ Len(p.history) \in Nat
  <2>1. IsItems(next)
    BY HistoriesAreItems
  <2>2. p.history \in Seq(Items)
    BY DEF Requests
  <2>3. QED  BY <2>1, <2>2 DEF IsItems
<1>2. b \in Nat /\ now + Ttl \in Nat
  <2>1. ResponseBytes \in Nat /\ Ttl \in Nat
    BY StoreAssumption
  <2>2. QED  BY <1>1, <2>1 DEF ResponseCharge
<1>3. c \in ConversationIds \cup {NoId}
  BY DEF Requests
<1> DEFINE e == now + Ttl
<1>4. new = [history |-> next, state |-> state, expires_at |-> e, bytes |-> b,
             conversation |-> c]
  BY DEF NewResponse
<1>5. e \in Nat
  BY <1>2
<1> HIDE DEF new, b, c, e
<1>6. new \in StoredResponse
  BY <1>2, <1>3, <1>4, <1>5 DEF StoredResponse
<1>7. new.history = next /\ new.state = state /\ new.conversation = c
  BY <1>4
<1>8. /\ DOMAIN t.responses = DOMAIN s.responses \cup {p.id}
      /\ t.responses[p.id] = new
      /\ \A r \in DOMAIN s.responses : t.responses[r] = s.responses[r]
  BY DEF With, new
<1>9. StoreTyped(t)
  BY <1>6, <1>8 DEF Contents, StoreTyped
<1>10. SnapshotsExact(t)
  BY <1>7, <1>8 DEF Contents, SnapshotsExact
<1>11. TurnsKept(t, n)
  <2> SUFFICES ASSUME NEW r \in DOMAIN t.responses, NEW d, d = t.responses[r].conversation
               PROVE  /\ d < n
                      /\ d \in DOMAIN t.conversations =>
                           SX!IsPrefix(t.responses[r].history, t.conversations[d].history)
    BY DEF TurnsKept
  <2>1. CASE r \in DOMAIN s.responses
    BY <1>8, <2>1 DEF Contents, TurnsKept
  <2>2. CASE r = p.id
    <3>1. d = c /\ t.responses[r].history = next
      BY <1>7, <1>8, <2>2
    <3>2. d < n
      BY <3>1 DEF c
    <3>3. ASSUME d \in DOMAIN t.conversations
          PROVE  SX!IsPrefix(t.responses[r].history, t.conversations[d].history)
      <4>1. d # NoId
        BY <3>3, StoreAssumption DEF Contents, StoreTyped, ConversationIds, NoId
      <4>2. t.conversations[d].history = next
        BY <3>1, <4>1 DEF c
      <4>3. QED  BY <1>1, <3>1, <4>2, PrefixReflexive
    <3>4. QED  BY <3>2, <3>3
  <2>3. QED  BY <1>8, <2>1, <2>2
<1>12. QED  BY <1>9, <1>10, <1>11 DEF Contents

LEMMA WrittenContents ==
  ASSUME NEW s, Shape(s), NEW n \in Nat, Contents(s, n), NEW p \in Requests,
         p.id \in ResponseIds, p.conversation < n, p.id \notin DOMAIN s.responses,
         NEW next \in Histories, NEW state \in States, now \in Nat,
         state # NoState => state.covers = next,
         \/ p.conversation = NoId
         \/ /\ p.conversation \in DOMAIN s.conversations
            /\ SX!IsPrefix(s.conversations[p.conversation].history, next)
  PROVE  Contents(Written(s, p, next, state), n)
<1> DEFINE c  == p.conversation
           s1 == IF c = NoId THEN s ELSE WriteConversation(s, c, next, state)
           s2 == IF p.store THEN WriteResponse(s1, p, next, state) ELSE s1
           s3 == IF c = NoId THEN s2
                 ELSE TouchBoth(s2, ConversationKey(c), s2.conversations[c].bytes, state)
<1>1. /\ DOMAIN s1 = Fields /\ s1.responses = s.responses
      /\ Contents(s1, n) /\ (c # NoId => s1.conversations[c].history = next)
  <2>1. CASE c = NoId
    BY <2>1 DEF Shape
  <2>2. CASE c # NoId
    <3>1. s1 = WriteConversation(s, c, next, state)
      BY <2>2
    <3>2. /\ DOMAIN s1 = Fields /\ s1.responses = s.responses
          /\ s1.conversations = With(s.conversations, c, UpdatedConversation(s, c, next, state))
      BY <3>1 DEF WriteConversation, Shape, Fields
    <3> HIDE DEF s1
    <3>3. c \in DOMAIN s.conversations /\ SX!IsPrefix(s.conversations[c].history, next)
      BY <2>2
    <3> HIDE DEF c
    <3>4. Contents(s1, n) /\ s1.conversations[c].history = next
      BY <3>2, <3>3, ConversationWritten
    <3>5. QED  BY <3>2, <3>4
  <2>3. QED  BY <2>1, <2>2
<1> HIDE DEF s1
<1>2. DOMAIN s2 = Fields /\ Contents(s2, n)
  <2>1. CASE p.store
    <3>1. s2 = WriteResponse(s1, p, next, state)
      BY <2>1
    <3>2. /\ DOMAIN s2 = Fields /\ s2.conversations = s1.conversations
          /\ s2.responses = With(s1.responses, p.id, NewResponse(p, next, state))
      BY <1>1, <3>1 DEF WriteResponse, TouchBoth, Fields, NewResponse
    <3> HIDE DEF s2
    <3>3. QED  BY <1>1, <3>2, ResponseWritten
  <2>2. CASE ~p.store
    BY <1>1, <2>2
  <2>3. QED  BY <2>1, <2>2
<1> HIDE DEF s2
<1>3. s3.responses = s2.responses /\ s3.conversations = s2.conversations
  BY <1>2 DEF TouchBoth, Fields
<1>4. Written(s, p, next, state) = s3
  BY Zenon DEF Written, s1, s2
<1> HIDE DEF s3
<1>5. Contents(s3, n)
  BY <1>2, <1>3, SameMapsShrunk, ShrunkKeepsContents
<1>6. QED  BY <1>4, <1>5

LEMMA CommittedContents ==
  ASSUME NEW s, Shape(s), NEW n \in Nat, Contents(s, n), NEW p \in Requests,
         p.id \in ResponseIds, p.conversation < n, p.id \notin DOMAIN s.responses,
         NEW next \in Histories, NEW state \in States, now \in Nat,
         state # NoState => state.covers = next,
         \/ p.conversation = NoId
         \/ /\ p.conversation \in DOMAIN s.conversations
            /\ SX!IsPrefix(s.conversations[p.conversation].history, next)
  PROVE  Contents(Committed(s, p, next, state), n)
<1> DEFINE t == Written(s, p, next, state)
<1>1. Contents(t, n)
  BY WrittenContents
<1> HIDE DEF t
<1>2. Contents(EnforceBudget(t), n)
  BY <1>1, EnforceBudgetShrunk, ShrunkKeepsContents
<1>3. QED  BY <1>2, CommittedIsWritten DEF t

LEMMA BeginKeepsContents ==
  ASSUME ContentInv, BeginGeneration
  PROVE  ContentInv'
<1>1. pending # Idle /\ pending.phase = "resolved"
  BY DEF BeginGeneration, Idle
<1>2. /\ pending \in Requests /\ Len(pending.history) <= MaxItems
      /\ pending.conversation < next_conversation
      /\ pending.conversation \in DOMAIN store.conversations =>
           SX!IsPrefix(store.conversations[pending.conversation].history, pending.history)
      /\ pending.resume # NoState => SX!IsPrefix(pending.resume.covers, pending.history)
  BY <1>1 DEF ContentInv, PendingSound
<1>3. /\ next_response \in ResponseIds /\ next_response' = next_response + 1
      /\ store' = store /\ now' = now /\ next_conversation' = next_conversation
      /\ pending' = [pending EXCEPT !.phase = "generating", !.id = next_response]
      /\ reply' = NoReply
  BY StoreAssumption DEF BeginGeneration, ContentInv, CountersTyped, ResponseIds
<1>4. /\ pending' \in Requests /\ pending'.history = pending.history
      /\ pending'.conversation = pending.conversation
      /\ pending'.resume = pending.resume /\ pending'.id = next_response
  BY <1>2, <1>3 DEF Requests
<1>5. PendingSound'
  BY <1>2, <1>3, <1>4 DEF PendingSound
<1>6. CountersTyped'
  BY <1>3, StoreAssumption DEF ContentInv, CountersTyped, ResponseIds
<1>7. NoExpiredReads'
  BY <1>3 DEF NoExpiredReads, NoReply
<1>8. Shrunk(store, store') /\ next_conversation' >= next_conversation
  BY <1>3, SameMapsShrunk, StoreAssumption DEF ContentInv, CountersTyped
<1>9. QED  BY <1>5, <1>6, <1>7, <1>8, ShrunkKeepsInv

LEMMA FinishKeepsContents ==
  ASSUME StoreInv, ContentInv, pending.phase = "generating",
         NEW state \in Snapshots(Append(pending.history, pending.id)), NEW estimate,
         FinishGeneration(state, estimate)
  PROVE  ContentInv'
<1> DEFINE p == pending
           next == Append(p.history, p.id)
           after == Committed(store, p, next, state)
<1>1. /\ p \in Requests /\ Len(p.history) <= MaxItems /\ p.id \in ResponseIds
      /\ p.conversation < next_conversation
      /\ p.conversation \in DOMAIN store.conversations =>
           SX!IsPrefix(store.conversations[p.conversation].history, p.history)
  BY DEF ContentInv, PendingSound, Idle
<1>2. /\ now' = now /\ next_response' = next_response
      /\ next_conversation' = next_conversation /\ pending' = Idle
      /\ \E outcome : reply' = Reply("commit", "response", p.id, outcome)
      /\ \/ store' = store
         \/ Refusal(store, p, next) = "none" /\ store' = after
  BY Zenon DEF FinishGeneration
<1>3. CountersTyped' /\ PendingSound'
  BY <1>2 DEF ContentInv, CountersTyped, PendingSound
<1>4. NoExpiredReads'
  <2>1. reply'.call = "commit"
    BY <1>2 DEF Reply
  <2>2. QED  BY <2>1 DEF NoExpiredReads
<1>5. CASE store' = store
  <2>1. Shrunk(store, store') /\ next_conversation' >= next_conversation
    BY <1>2, <1>5, SameMapsShrunk, StoreAssumption DEF ContentInv, CountersTyped
  <2>2. QED  BY <1>3, <1>4, <2>1, ShrunkKeepsInv
<1>6. CASE Refusal(store, p, next) = "none" /\ store' = after
  <2>1. p.conversation = NoId \/ p.conversation \in DOMAIN store.conversations
    BY <1>6 DEF Refusal
  <2>2. p.id \notin DOMAIN store.responses
    BY DEF StoreInv, IdsFresh
  <2>3. IsItems(p.history) /\ p.id \in Items
    BY <1>1 DEF Requests, IsItems, Items
  <2>4. /\ IsItems(next) /\ SX!IsPrefix(p.history, next) /\ Len(next) <= MaxItems + 1
    <3>1. /\ IsItems(next) /\ SX!IsPrefix(p.history, next)
          /\ Len(next) = Len(p.history) + 1
      BY <2>3, PrefixOfAppend
    <3>2. Len(p.history) \in Nat
      BY <2>3 DEF IsItems
    <3>3. QED  BY <1>1, <3>1, <3>2, StoreAssumption
  <2>5. next \in Histories
    BY <2>4, HistoriesAreItems
  <2>6. state \in States /\ (state # NoState => state.covers = next)
    BY <2>5, NoStateTyped DEF Snapshots, States
  <2>7. p.conversation \in DOMAIN store.conversations =>
          SX!IsPrefix(store.conversations[p.conversation].history, next)
    <3> SUFFICES ASSUME p.conversation \in DOMAIN store.conversations
                 PROVE  SX!IsPrefix(store.conversations[p.conversation].history, next)
      OBVIOUS
    <3>1. store.conversations[p.conversation].history \in Histories
      BY DEF ContentInv, Contents, StoreTyped, ConversationRecord
    <3>2. QED  BY <1>1, <2>3, <2>4, <3>1, HistoriesAreItems, PrefixTransitive
  <2>8. /\ Shape(store) /\ Contents(store, next_conversation)
        /\ next_conversation \in Nat /\ now \in Nat
    BY StoreAssumption DEF StoreInv, Good, ContentInv, CountersTyped
  <2> HIDE DEF next
  <2>9. Contents(after, next_conversation)
    BY <1>1, <2>1, <2>2, <2>5, <2>6, <2>7, <2>8, CommittedContents
  <2> HIDE DEF after
  <2>10. Contents(store, next_conversation)'
    BY <1>2, <1>6, <2>9
  <2>11. QED  BY <1>3, <1>4, <2>10 DEF ContentInv
<1>7. QED  BY <1>2, <1>5, <1>6

LEMMA ReadKeepsContents ==
  ASSUME StoreInv, ContentInv, NEW id, NEW call, NEW ok, ReadResponse(id, call, ok)
  PROVE  ContentInv'
<1> DEFINE s == PruneExpired(store)
           t == [s EXCEPT !.records = LruTouch(@, ResponseKey(id), s.responses[id].bytes)]
<1>1. /\ Shape(store) /\ StoreTyped(store) /\ now \in Nat /\ next_conversation \in Nat
  BY StoreAssumption DEF StoreInv, Good, ContentInv, Contents, CountersTyped
<1>2. /\ Shrunk(store, s)
      /\ \A r \in DOMAIN s.responses : s.responses[r].expires_at > now
  BY <1>1, PruneLeavesLive
<1>3. Shape(s)
  BY PruneGood DEF StoreInv, Good
<1>4. /\ UNCHANGED <<now, pending, next_response, next_conversation>>
      /\ \/ /\ id \notin DOMAIN s.responses /\ store' = s
            /\ reply' = Reply(call, "response", id, "not_found")
         \/ /\ id \in DOMAIN s.responses /\ store' = t
            /\ \/ reply' = Reply(call, "response", id, "ok")
               \/ reply' = Reply(call, "response", id, "invalid")
  BY Zenon DEF ReadResponse
<1> HIDE DEF s
<1>5. t.responses = s.responses /\ t.conversations = s.conversations
  BY <1>3 DEF Shape, Fields
<1> HIDE DEF t
<1>6. store'.responses = s.responses /\ store'.conversations = s.conversations
  BY <1>4, <1>5
<1>7. Shrunk(store, store')
  BY <1>2, <1>6 DEF Shrunk
<1>8. NoExpiredReads'
  BY <1>2, <1>4, <1>6 DEF NoExpiredReads, Reply
<1>9. CountersTyped' /\ next_conversation' >= next_conversation
  BY <1>1, <1>4 DEF ContentInv, CountersTyped
<1>10. PendingSound'
  BY <1>1, <1>4, <1>7, <1>9, ShrunkKeepsPending
<1>11. QED  BY <1>7, <1>8, <1>9, <1>10, ShrunkKeepsInv

(* The calls left: they shrink the store and serve no response.            *)
LEMMA QuietCallKeepsContents ==
  ASSUME ContentInv, Shrunk(store, store'),
         pending' = pending \/ pending' = Idle, CountersTyped',
         next_conversation' >= next_conversation,
         \/ reply'.call \notin {"get", "input_items", "resolve"}
         \/ reply'.kind # "response"
  PROVE  ContentInv'
<1>1. NoExpiredReads'
  BY DEF NoExpiredReads
<1>2. next_conversation' \in Nat
  BY StoreAssumption DEF CountersTyped
<1>3. CASE pending' = pending
  BY <1>1, <1>2, <1>3, ShrunkKeepsPending, ShrunkKeepsInv
<1>4. CASE pending' = Idle
  <2>1. PendingSound'
    BY <1>4 DEF PendingSound
  <2>2. QED  BY <1>1, <2>1, ShrunkKeepsInv
<1>5. QED  BY <1>3, <1>4

LEMMA SameCountersTyped ==
  ASSUME ContentInv, UNCHANGED <<next_response, next_conversation>>,
         now' = now \/ Tick
  PROVE  CountersTyped' /\ next_conversation' >= next_conversation
BY StoreAssumption DEF ContentInv, CountersTyped, Tick

LEMMA DeleteResponseKeepsContents ==
  ASSUME StoreInv, ContentInv, NEW id, DeleteResponse(id)
  PROVE  ContentInv'
<1>1. /\ UNCHANGED <<now, pending, next_response, next_conversation>>
      /\ store' = store \/ store' = RemoveResponses(store, {id})
      /\ \E o : reply' = Reply("delete", "response", id, o)
  BY Zenon DEF DeleteResponse
<1>2. Shrunk(store, store')
  BY <1>1, SameMapsShrunk, RemoveResponsesShrunk DEF StoreInv, Good
<1>3. reply'.call = "delete"
  BY <1>1 DEF Reply
<1>4. QED  BY <1>1, <1>2, <1>3, SameCountersTyped, QuietCallKeepsContents

LEMMA GetConversationKeepsContents ==
  ASSUME StoreInv, ContentInv, NEW id, GetConversation(id)
  PROVE  ContentInv'
<1> DEFINE t == [store EXCEPT !.records =
                   LruTouch(@, ConversationKey(id), store.conversations[id].bytes)]
<1>1. /\ UNCHANGED <<now, pending, next_response, next_conversation>>
      /\ store' = store \/ store' = t
      /\ \E o : reply' = Reply("get", "conversation", id, o)
  BY Zenon DEF GetConversation
<1>2. t.responses = store.responses /\ t.conversations = store.conversations
  BY DEF StoreInv, Good, Shape, Fields
<1> HIDE DEF t
<1>3. Shrunk(store, store')
  BY <1>1, <1>2, SameMapsShrunk
<1>4. reply'.kind = "conversation"
  BY <1>1 DEF Reply
<1>5. QED  BY <1>1, <1>3, <1>4, SameCountersTyped, QuietCallKeepsContents

LEMMA DeleteConversationKeepsContents ==
  ASSUME StoreInv, ContentInv, NEW id, DeleteConversation(id)
  PROVE  ContentInv'
<1> DEFINE t == [store EXCEPT !.conversations = Without(@, {id}),
                              !.records = LruRemove(@, ConversationKey(id)),
                              !.snapshots = LruRemove(@, ConversationKey(id))]
<1>1. /\ UNCHANGED <<now, pending, next_response, next_conversation>>
      /\ store' = store \/ store' = t
      /\ \E o : reply' = Reply("delete", "conversation", id, o)
  BY Zenon DEF DeleteConversation
<1>2. t.responses = store.responses /\ t.conversations = Without(store.conversations, {id})
  BY DEF StoreInv, Good, Shape, Fields
<1> HIDE DEF t
<1>3. Shrunk(store, t)
  BY <1>2 DEF Shrunk, Faded, Without
<1>4. Shrunk(store, store')
  BY <1>1, <1>3, SameMapsShrunk
<1>5. reply'.kind = "conversation"
  BY <1>1 DEF Reply
<1>6. QED  BY <1>1, <1>4, <1>5, SameCountersTyped, QuietCallKeepsContents

(* A new conversation is empty of turns, and no stored response names it.  *)
LEMMA ConversationCreated ==
  ASSUME NEW s, NEW t, NEW id \in ConversationIds, Contents(s, id),
         id \notin DOMAIN s.conversations,
         NEW rec \in ConversationRecord, rec.state = NoState,
         t.responses = s.responses, t.conversations = With(s.conversations, id, rec)
  PROVE  Contents(t, id)
<1>1. /\ DOMAIN t.conversations = DOMAIN s.conversations \cup {id}
      /\ t.conversations[id] = rec
      /\ \A x \in DOMAIN s.conversations : t.conversations[x] = s.conversations[x]
  BY DEF With
<1>2. StoreTyped(t)
  BY <1>1 DEF Contents, StoreTyped
<1>3. SnapshotsExact(t)
  BY <1>1 DEF Contents, SnapshotsExact
<1>4. TurnsKept(t, id)
  <2> SUFFICES ASSUME NEW r \in DOMAIN t.responses, NEW c, c = t.responses[r].conversation
               PROVE  /\ c < id
                      /\ c \in DOMAIN t.conversations =>
                           SX!IsPrefix(t.responses[r].history, t.conversations[c].history)
    BY DEF TurnsKept
  <2>1. /\ r \in DOMAIN s.responses /\ c < id
        /\ c \in DOMAIN s.conversations =>
             SX!IsPrefix(s.responses[r].history, s.conversations[c].history)
    BY DEF Contents, TurnsKept
  <2>2. c # id
    BY <2>1, StoreAssumption DEF ConversationIds
  <2>3. QED  BY <1>1, <2>1, <2>2
<1>5. QED  BY <1>2, <1>3, <1>4 DEF Contents

LEMMA CreateKeepsContents ==
  ASSUME StoreInv, ContentInv, NEW n \in 0..1, CreateConversation(n)
  PROVE  ContentInv'
<1> DEFINE id    == next_conversation
           bytes == n + MetadataBytes
           hist  == [i \in 1..n |-> InputItem]
           rec   == [history |-> hist, state |-> NoState, created_at |-> now, bytes |-> bytes]
           s     == [store EXCEPT !.conversations = With(@, id, rec),
                                  !.records = LruTouch(@, ConversationKey(id), bytes)]
<1>1. /\ UNCHANGED <<now, pending, next_response>>
      /\ next_conversation' = next_conversation + 1
      /\ id <= MaxConversations /\ n <= MaxItems /\ pending = Idle
      /\ \E o : reply' = Reply("create", "conversation", id, o)
      /\ store' = store \/ store' = EnforceBudget(s)
  BY Zenon DEF CreateConversation
<1>2. id \in ConversationIds /\ id \in Nat /\ MetadataBytes \in Nat /\ now \in Nat
  BY <1>1, StoreAssumption DEF ContentInv, CountersTyped, ConversationIds
<1>3. CountersTyped' /\ next_conversation' >= next_conversation
  BY <1>1, <1>2, StoreAssumption DEF ContentInv, CountersTyped
<1>4. PendingSound'
  BY <1>1 DEF PendingSound
<1>5. NoExpiredReads'
  <2>1. reply'.kind = "conversation"
    BY <1>1 DEF Reply
  <2>2. QED  BY <2>1 DEF NoExpiredReads
<1>6. CASE store' = store
  BY <1>3, <1>4, <1>5, <1>6, SameMapsShrunk, ShrunkKeepsInv
<1>7. CASE store' = EnforceBudget(s)
  <2>1. hist \in Histories
    <3>1. IsItems(hist) /\ Len(hist) = n
      BY InputIsItems
    <3> HIDE DEF hist
    <3>2. Len(hist) <= MaxItems + 1
      BY <1>1, <3>1, StoreAssumption
    <3>3. QED  BY <3>1, <3>2, HistoriesAreItems
  <2>2. bytes \in Nat
    BY <1>2
  <2>3. s.responses = store.responses /\ s.conversations = With(store.conversations, id, rec)
    BY DEF StoreInv, Good, Shape, Fields
  <2> DEFINE none == NoState
  <2>4. rec = [history |-> hist, state |-> none, created_at |-> now, bytes |-> bytes]
    OBVIOUS
  <2>5. none \in States
    BY NoStateTyped
  <2> HIDE DEF s, hist, bytes, rec, none
  <2>6. rec \in ConversationRecord /\ rec.state = none
    BY <1>2, <2>1, <2>2, <2>4, <2>5 DEF ConversationRecord
  <2>7. id \notin DOMAIN store.conversations /\ Contents(store, id)
    BY <1>2 DEF StoreInv, IdsFresh, ContentInv
  <2>8. Contents(s, id)
    BY <1>2, <2>3, <2>6, <2>7, ConversationCreated DEF none
  <2>9. Contents(EnforceBudget(s), id + 1)
    BY <1>2, <2>8, EnforceBudgetShrunk, ShrunkKeepsContents
  <2>10. Contents(store, next_conversation)'
    BY <1>1, <1>7, <2>9
  <2>11. QED  BY <1>3, <1>4, <1>5, <2>10 DEF ContentInv
<1>8. QED  BY <1>1, <1>6, <1>7

LEMMA NextKeepsContents == StoreInv /\ ContentInv /\ [Next]_vars => ContentInv'
<1> SUFFICES ASSUME StoreInv, ContentInv, [Next]_vars PROVE ContentInv'
  OBVIOUS
<1>1. CASE \E prev \in ResponseIds \cup {NoId}, conv \in ConversationIds \cup {NoId},
              n \in 0..1, storing \in BOOLEAN : Resolve(prev, conv, n, storing)
  BY <1>1, ResolveKeepsContents
<1>2. CASE BeginGeneration
  BY <1>2, BeginKeepsContents
<1>3. CASE Abandon
  <2>1. /\ store' = store /\ now' = now /\ pending' = Idle /\ reply' = NoReply
        /\ UNCHANGED <<next_response, next_conversation>>
    BY <1>3 DEF Abandon
  <2>2. Shrunk(store, store') /\ reply'.call = "none"
    BY <2>1, SameMapsShrunk DEF NoReply
  <2>3. QED  BY <2>1, <2>2, SameCountersTyped, QuietCallKeepsContents
<1>4. CASE /\ pending.phase = "generating"
           /\ \E state \in Snapshots(Append(pending.history, pending.id)),
                 estimate \in SnapshotBytes : FinishGeneration(state, estimate)
  BY <1>4, FinishKeepsContents
<1>5. CASE \E id \in ResponseIds, call \in {"get", "input_items"}, ok \in BOOLEAN :
              ReadResponse(id, call, ok)
  BY <1>5, ReadKeepsContents
<1>6. CASE \E id \in ResponseIds : DeleteResponse(id)
  BY <1>6, DeleteResponseKeepsContents
<1>7. CASE \E n \in 0..1 : CreateConversation(n)
  BY <1>7, CreateKeepsContents
<1>8. CASE \E id \in ConversationIds : GetConversation(id) \/ DeleteConversation(id)
  BY <1>8, GetConversationKeepsContents, DeleteConversationKeepsContents
<1>9. CASE Tick
  <2>1. /\ store' = store /\ pending' = pending /\ reply' = NoReply
        /\ UNCHANGED <<next_response, next_conversation>>
    BY <1>9 DEF Tick
  <2>2. Shrunk(store, store') /\ reply'.call = "none"
    BY <2>1, SameMapsShrunk DEF NoReply
  <2>3. QED  BY <1>9, <2>1, <2>2, SameCountersTyped, QuietCallKeepsContents
<1>10. CASE UNCHANGED vars
  BY <1>10 DEF vars, ContentInv, Contents, StoreTyped, SnapshotsExact, TurnsKept,
                PendingSound, CountersTyped, NoExpiredReads
<1>11. QED
  BY <1>1, <1>2, <1>3, <1>4, <1>5, <1>6, <1>7, <1>8, <1>9, <1>10 DEF Next

LEMMA ContentsAlways == Spec => [](StoreInv /\ ContentInv)
<1>1. Init => StoreInv /\ ContentInv
  BY InitInv, InitContents
<1>2. StoreInv /\ ContentInv /\ [Next]_vars => (StoreInv /\ ContentInv)'
  BY NextKeepsInv, NextKeepsContents
<1>3. QED  BY <1>1, <1>2, PTL DEF Spec

(* Every record of the store has its type, whatever calls were made.       *)
THEOREM StoreTypes == Spec => []TypeOK
<1>1. ContentInv => TypeOK
  <2> SUFFICES ASSUME ContentInv PROVE TypeOK
    OBVIOUS
  <2>1. pending.phase \in {"idle", "resolved", "generating"}
    BY DEF ContentInv, PendingSound, Idle, Requests
  <2>2. QED  BY <2>1 DEF ContentInv, Contents, StoreTyped, CountersTyped, TypeOK
<1>2. QED  BY ContentsAlways, <1>1, PTL

(* A KV snapshot is never resumed against another history: a stored one    *)
(* covers exactly the history of its record, and the one resolve hands to  *)
(* generation covers a prefix of the prompt's history (commit and          *)
(* drop_snapshot in session_store.rs).                                     *)
THEOREM SnapshotsNeverStale == Spec => []NoStaleSnapshot
<1>1. ContentInv => NoStaleSnapshot
  BY DEF ContentInv, Contents, SnapshotsExact, PendingSound, NoStaleSnapshot
<1>2. QED  BY ContentsAlways, <1>1, PTL

(* A conversation keeps every turn committed into it: each stored response *)
(* of the conversation is a prefix of the conversation's history, however  *)
(* many turns, evictions and deletions came between.                       *)
THEOREM TurnsAreKept == Spec => []ConversationKeepsTurns
<1>1. ContentInv => ConversationKeepsTurns
  BY DEF ContentInv, Contents, TurnsKept, ConversationKeepsTurns
<1>2. QED  BY ContentsAlways, <1>1, PTL

(* No read and no continuation is answered from a response whose time is   *)
(* over, for every TTL and clock (prune_expired before resolve,            *)
(* get_response and get_input_items).                                      *)
THEOREM ExpiredNeverServed == Spec => []NoExpiredReads
<1>1. ContentInv => NoExpiredReads
  BY DEF ContentInv
<1>2. QED  BY ContentsAlways, <1>1, PTL
-----------------------------------------------------------------------------
(* The two policies as lists of keys, and what they weigh.                 *)
Sums == INSTANCE ByteLruProofs WITH
          Key <- {}, Bytes <- {}, MaxBytes <- 0, MaxClock <- 0,
          entries <- <<>>, clock <- 0, oldest <- {}, resident_bytes <- 0, evicted <- <<>>

LEMMA SumsAssumption == Sums!LruAssumption
BY DEF Sums!LruAssumption

LEMMA SameFinite == \A S : IsFiniteSet(S) <=> Sums!IsFiniteSet(S)
BY Zenon DEF IsFiniteSet, Sums!IsFiniteSet

(* A policy's order lists each of its keys once.                           *)
Lists(o, S) ==
  /\ o \in Seq(S)
  /\ \A k \in S : \E i \in 1..Len(o) : o[i] = k
  /\ \A i, j \in 1..Len(o) : o[i] = o[j] => i = j

Sound(l) == Lists(l.order, LruKeys(l)) /\ \A k \in LruKeys(l) : l.size[k] \in Nat

LEMMA ListsCounted ==
  ASSUME NEW o, NEW S, Lists(o, S)
  PROVE  IsFiniteSet(S) /\ Cardinality(S) = Len(o)
<1>1. /\ o \in [1..Len(o) -> S] /\ Len(o) \in Nat
      /\ \A k \in S : \E i \in 1..Len(o) : o[i] = k
      /\ \A i, j \in 1..Len(o) : o[i] = o[j] => i = j
  BY DEF Lists
<1>2. o \in Bijection(1..Len(o), S)
  BY <1>1, Zenon DEF Bijection, Injection, Surjection, IsInjective
<1>3. IsFiniteSet(1..Len(o)) /\ Cardinality(1..Len(o)) = Len(o)
  BY <1>1, FS_Interval
<1>4. ExistsBijection(1..Len(o), S)
  BY <1>2, Zenon DEF ExistsBijection
<1>5. QED  BY <1>3, <1>4, FS_Bijection

LEMMA ListsAppend ==
  ASSUME NEW o, NEW S, Lists(o, S), NEW x, x \notin S
  PROVE  Lists(Append(o, x), S \cup {x})
<1> DEFINE a == Append(o, x)
<1>1. o \in Seq(S) /\ Len(o) \in Nat
  BY DEF Lists
<1>2. /\ a \in Seq(S \cup {x}) /\ Len(a) = Len(o) + 1 /\ a[Len(o) + 1] = x
      /\ \A i \in 1..Len(o) : a[i] = o[i] /\ o[i] \in S
  BY <1>1
<1> HIDE DEF a
<1>3. \A k \in S \cup {x} : \E i \in 1..Len(a) : a[i] = k
  <2> TAKE k \in S \cup {x}
  <2>1. CASE k = x
    BY <1>1, <1>2, <2>1
  <2>2. CASE k \in S
    <3>1. PICK i \in 1..Len(o) : o[i] = k
      BY <2>2 DEF Lists
    <3>2. i \in 1..Len(a) /\ a[i] = k
      BY <1>1, <1>2, <3>1
    <3>3. QED  BY <3>2
  <2>3. QED  BY <2>1, <2>2
<1>4. ASSUME NEW i \in 1..Len(a), NEW j \in 1..Len(a), a[i] = a[j]
      PROVE  i = j
  <2>1. (i \in 1..Len(o) \/ i = Len(o) + 1) /\ (j \in 1..Len(o) \/ j = Len(o) + 1)
    BY <1>1, <1>2
  <2>2. CASE i \in 1..Len(o) /\ j \in 1..Len(o)
    BY <1>2, <1>4, <2>2 DEF Lists
  <2>3. QED  BY <1>2, <1>4, <2>1, <2>2
<1>5. QED  BY <1>2, <1>3, <1>4 DEF Lists, a

LEMMA SmallestNat ==
  ASSUME NEW Bad, Bad \subseteq Nat, Bad # {}
  PROVE  \E n \in Bad : \A m \in Bad : n <= m
BY SumsAssumption, Sums!SmallestNat, Zenon

(* The recursion of OrderWithout, over the first n keys.                   *)
Filtering(o, K, n, h) ==
  [i \in 0..n |-> IF i = 0 THEN <<>>
                  ELSE IF o[i] \in K THEN h[i - 1]
                  ELSE Append(h[i - 1], o[i])]

LEMMA FilteringExists ==
  ASSUME NEW o, NEW K, NEW n \in Nat
  PROVE  \E h : h = Filtering(o, K, n, h)
<1>1. \E h : h = Sums!Filtering(o, K, n, h)
  BY SumsAssumption, Sums!FilteringExists, Zenon
<1>2. QED  BY <1>1, Zenon DEF Filtering, Sums!Filtering

LEMMA OrderWithoutIs ==
  ASSUME NEW o, NEW K, Len(o) \in Nat
  PROVE  \E h : /\ h = Filtering(o, K, Len(o), h)
                /\ OrderWithout(o, K) = h[Len(o)]
<1> DEFINE n == Len(o)
           G(h) == Filtering(o, K, n, h)
           g == CHOOSE h : h = G(h)
<1>1. OrderWithout(o, K) = g[n]
  BY DEF OrderWithout, Filtering
<1>2. PICK h : h = G(h)
  BY FilteringExists
<1>3. g = G(g)
  <2> HIDE DEF G
  <2>1. QED  BY <1>2, Zenon
<1>4. QED  BY <1>1, <1>3

(* Filtering a list of keys lists the keys that stay; the newest key stays *)
(* newest unless it goes.                                                  *)
LEMMA FilteredLists ==
  ASSUME NEW o, NEW S, Lists(o, S), NEW K, NEW h, h = Filtering(o, K, Len(o), h),
         NEW n \in 0..Len(o)
  PROVE  Lists(h[n], {o[j] : j \in 1..n} \ K)
<1> DEFINE R(m) == {o[j] : j \in 1..m} \ K
           Bad == {m \in 0..Len(o) : ~Lists(h[m], R(m))}
<1>0. Len(o) \in Nat
  BY DEF Lists
<1>1. SUFFICES ASSUME Bad # {} PROVE FALSE
  OBVIOUS
<1>2. PICK m \in Bad : \A k \in Bad : m <= k
  <2>1. Bad \subseteq Nat /\ Bad # {}
    <3> HIDE DEF R
    <3>1. QED  BY <1>0, <1>1
  <2> HIDE DEF Bad
  <2>2. QED  BY <2>1, SmallestNat
<1>3. m \in 0..Len(o) /\ ~Lists(h[m], R(m))
  BY <1>2
<1>4. h[m] = IF m = 0 THEN <<>> ELSE IF o[m] \in K THEN h[m - 1] ELSE Append(h[m - 1], o[m])
  BY <1>3 DEF Filtering
<1>5. m # 0
  <2> SUFFICES ASSUME m = 0 PROVE FALSE
    OBVIOUS
  <2>1. R(m) = {} /\ h[m] = <<>>
    BY <1>4
  <2>2. Lists(<<>>, {})
    BY DEF Lists
  <2>3. QED  BY <1>3, <2>1, <2>2
<1>6. m \in Nat /\ m - 1 \in 0..Len(o) /\ m \in 1..Len(o) /\ ~(m <= m - 1)
  BY <1>0, <1>3, <1>5
<1>7. Lists(h[m - 1], R(m - 1))
  BY <1>2, <1>6
<1>8. \A j : j \in 1..m <=> (j \in 1..m - 1 \/ j = m)
  BY <1>6
<1>9. CASE o[m] \in K
  <2>1. R(m) = R(m - 1)
    BY <1>8, <1>9
  <2> HIDE DEF R
  <2>2. QED  BY <1>3, <1>4, <1>5, <1>7, <1>9, <2>1
<1>10. CASE o[m] \notin K
  <2>1. R(m) = R(m - 1) \cup {o[m]}
    BY <1>8, <1>10
  <2>2. o[m] \notin R(m - 1)
    <3> SUFFICES ASSUME NEW j \in 1..m - 1, o[j] = o[m] PROVE FALSE
      OBVIOUS
    <3>1. j \in 1..Len(o) /\ j # m
      BY <1>0, <1>6
    <3>2. QED  BY <1>6, <3>1 DEF Lists
  <2> HIDE DEF R
  <2>3. h[m] = Append(h[m - 1], o[m])
    BY <1>4, <1>5, <1>10
  <2>4. Lists(Append(h[m - 1], o[m]), R(m - 1) \cup {o[m]})
    BY <1>7, <2>2, ListsAppend
  <2>5. QED  BY <1>3, <2>1, <2>3, <2>4
<1>11. QED  BY <1>9, <1>10

LEMMA WithoutLists ==
  ASSUME NEW o, NEW S, Lists(o, S), NEW K
  PROVE  Lists(OrderWithout(o, K), S \ K)
<1>0. Len(o) \in Nat
  BY DEF Lists
<1>1. PICK h : h = Filtering(o, K, Len(o), h) /\ OrderWithout(o, K) = h[Len(o)]
  BY <1>0, OrderWithoutIs
<1>2. {o[j] : j \in 1..Len(o)} = S
  BY DEF Lists
<1>3. Lists(h[Len(o)], {o[j] : j \in 1..Len(o)} \ K)
  <2>1. Len(o) \in 0..Len(o)
    BY <1>0
  <2>2. QED  BY <1>1, <2>1, FilteredLists, Zenon
<1>4. QED  BY <1>1, <1>2, <1>3

(* The newest key stays the newest.                                        *)
LEMMA WithoutKeepsNewest ==
  ASSUME NEW o, NEW S, Lists(o, S), Len(o) # 0, NEW K, o[Len(o)] \notin K
  PROVE  LET r == OrderWithout(o, K) IN Len(r) # 0 /\ r[Len(r)] = o[Len(o)]
<1> DEFINE n == Len(o)
<1>1. n \in Nat /\ n # 0 /\ n \in 0..n /\ n - 1 \in 0..n
  BY DEF Lists
<1>2. PICK h : h = Filtering(o, K, n, h) /\ OrderWithout(o, K) = h[n]
  BY <1>1, OrderWithoutIs
<1>3. h[n] = Append(h[n - 1], o[n])
  BY <1>1, <1>2 DEF Filtering
<1> DEFINE q == h[n - 1]
           T == {o[j] : j \in 1..n - 1} \ K
<1>4. Lists(q, T)
  BY <1>1, <1>2, FilteredLists, Zenon
<1> HIDE DEF q, T
<1>5. q \in Seq(T)
  BY <1>4 DEF Lists
<1>6. Len(Append(q, o[n])) # 0 /\ Append(q, o[n])[Len(Append(q, o[n]))] = o[n]
  BY <1>5
<1>7. QED  BY <1>2, <1>3, <1>6 DEF q

LEMMA ListsSuffix ==
  ASSUME NEW o, NEW S, Lists(o, S), NEW n \in 0..Len(o)
  PROVE  Lists(SubSeq(o, n + 1, Len(o)), S \ {o[i] : i \in 1..n})
<1> DEFINE t == SubSeq(o, n + 1, Len(o))
           T == S \ {o[i] : i \in 1..n}
<1>1. /\ o \in Seq(S) /\ Len(o) \in Nat /\ n \in Nat
      /\ \A i, j \in 1..Len(o) : o[i] = o[j] => i = j
      /\ \A k \in S : \E i \in 1..Len(o) : o[i] = k
  BY DEF Lists
<1>2. /\ Len(t) = Len(o) - n
      /\ \A i \in 1..Len(t) : t[i] = o[n + i] /\ n + i \in 1..Len(o) /\ n + i \notin 1..n
  BY <1>1
<1>3. t \in Seq(S)
  BY <1>1
<1> HIDE DEF t
<1>4. \A i \in 1..Len(t) : t[i] \in T
  <2> TAKE i \in 1..Len(t)
  <2>1. o[n + i] \in S
    BY <1>1, <1>2
  <2>2. \A j \in 1..n : o[j] # o[n + i]
    <3> SUFFICES ASSUME NEW j \in 1..n, o[j] = o[n + i] PROVE FALSE
      OBVIOUS
    <3>1. j \in 1..Len(o) /\ n + i \in 1..Len(o)
      BY <1>1, <1>2
    <3>2. j = n + i
      BY <1>1, <3>1
    <3>3. QED  BY <1>2, <3>2
  <2>3. QED  BY <1>2, <2>1, <2>2
<1>5. t \in Seq(T)
  BY <1>3, <1>4
<1>6. \A k \in T : \E i \in 1..Len(t) : t[i] = k
  <2> TAKE k \in T
  <2>1. PICK j \in 1..Len(o) : o[j] = k
    BY <1>1
  <2>2. j \notin 1..n
    BY <2>1
  <2>3. j - n \in 1..Len(t) /\ n + (j - n) = j
    BY <1>1, <1>2, <2>2
  <2>4. t[j - n] = k
    BY <1>2, <2>1, <2>3
  <2>5. QED  BY <2>3, <2>4
<1>7. \A i, j \in 1..Len(t) : t[i] = t[j] => i = j
  <2> TAKE i, j \in 1..Len(t)
  <2> HAVE t[i] = t[j]
  <2>1. t[i] = o[n + i] /\ t[j] = o[n + j] /\ n + i \in 1..Len(o) /\ n + j \in 1..Len(o)
    BY <1>2
  <2>2. n + i = n + j
    BY <1>1, <2>1
  <2>3. i \in Int /\ j \in Int /\ n \in Int
    BY <1>1, <1>2
  <2>4. QED  BY <2>2, <2>3
<1>8. QED  BY <1>5, <1>6, <1>7 DEF Lists, t

(* resident_bytes() as a sum over the keys.                                *)
LEMMA ResidentIsWeight ==
  \A l : Resident(l) = Sums!Weigh(l.size, LruKeys(l))
BY Zenon DEF Resident, Sums!Weigh, LruKeys, MapThenSumSet, MapThenFoldSet,
             Sums!MapThenSumSet, Sums!MapThenFoldSet

LEMMA ResidentNat ==
  ASSUME NEW l, Sound(l)
  PROVE  Resident(l) \in Nat
<1> DEFINE w == l.size
           D == LruKeys(l)
<1>1. IsFiniteSet(D) /\ \A k \in D : w[k] \in Nat
  BY ListsCounted DEF Sound
<1> HIDE DEF w, D
<1>2. Sums!Weigh(w, D) \in Nat
  BY <1>1, SumsAssumption, SameFinite, Sums!WeighNat
<1>3. QED  BY <1>2, ResidentIsWeight DEF w, D

(* The keys of m are keys of l, at the same price.                         *)
Narrowed(l, m) ==
  LruKeys(m) \subseteq LruKeys(l) /\ \A k \in LruKeys(m) : m.size[k] = l.size[k]

LEMMA NarrowedWeighsLess ==
  ASSUME NEW l, NEW m, Sound(l), Narrowed(l, m)
  PROVE  /\ Resident(m) \in Nat /\ Resident(l) \in Nat
         /\ Sums!Weigh(l.size, LruKeys(l) \ LruKeys(m)) \in Nat
         /\ Resident(l) = Resident(m) + Sums!Weigh(l.size, LruKeys(l) \ LruKeys(m))
<1> DEFINE w == l.size
           D == LruKeys(l)
           v == m.size
           E == LruKeys(m)
<1>1. IsFiniteSet(D) /\ (\A k \in D : w[k] \in Nat) /\ E \in SUBSET D
  BY ListsCounted DEF Sound, Narrowed
<1>2. IsFiniteSet(E) /\ \A k \in E : v[k] = w[k]
  BY <1>1, FS_Subset DEF Narrowed
<1> HIDE DEF w, v, D, E
<1>3. /\ Sums!Weigh(w, D) = Sums!Weigh(w, E) + Sums!Weigh(w, D \ E)
      /\ Sums!Weigh(w, E) \in Nat /\ Sums!Weigh(w, D \ E) \in Nat
  BY <1>1, SumsAssumption, SameFinite, Sums!WeighSplit
<1>4. Sums!Weigh(v, E) = Sums!Weigh(w, E)
  BY <1>2, SumsAssumption, SameFinite, Sums!WeighSame
<1>5. Resident(l) = Sums!Weigh(w, D) /\ Resident(m) = Sums!Weigh(v, E)
  BY ResidentIsWeight DEF w, v, D, E
<1> HIDE DEF Sums!Weigh
<1>6. QED  BY <1>3, <1>4, <1>5 DEF w, D, E

LEMMA TouchSound ==
  ASSUME NEW l, Sound(l), NEW k, NEW b \in Nat
  PROVE  /\ Sound(LruTouch(l, k, b))
         /\ LruKeys(LruTouch(l, k, b)) = LruKeys(l) \cup {k}
         /\ LruTouch(l, k, b).size[k] = b
         /\ \A x \in LruKeys(l) : x # k => LruTouch(l, k, b).size[x] = l.size[x]
<1> DEFINE m == LruTouch(l, k, b)
           rest == OrderWithout(l.order, {k})
           S == LruKeys(l)
<1>1. /\ m.order = Append(rest, k) /\ LruKeys(m) = S \cup {k} /\ m.size[k] = b
      /\ \A x \in S : x # k => m.size[x] = l.size[x]
  BY DEF LruTouch, LruKeys
<1>2. Lists(l.order, S) /\ \A x \in S : l.size[x] \in Nat
  BY DEF Sound
<1> HIDE DEF m, S, rest
<1>3. Lists(rest, S \ {k})
  BY <1>2, WithoutLists DEF rest
<1>4. Lists(Append(rest, k), (S \ {k}) \cup {k})
  BY <1>3, ListsAppend
<1>5. (S \ {k}) \cup {k} = S \cup {k}
  OBVIOUS
<1>6. \A x \in S \cup {k} : m.size[x] \in Nat
  BY <1>1, <1>2
<1>7. Sound(m)
  BY <1>1, <1>4, <1>5, <1>6 DEF Sound
<1>8. QED  BY <1>1, <1>7 DEF m, S

LEMMA NarrowSound ==
  ASSUME NEW l, Sound(l), NEW m, NEW K,
         Lists(m.order, LruKeys(l) \ K), m.size = [x \in LruKeys(l) \ K |-> l.size[x]]
  PROVE  Sound(m) /\ Narrowed(l, m) /\ LruKeys(m) = LruKeys(l) \ K
<1>1. LruKeys(m) = LruKeys(l) \ K /\ \A x \in LruKeys(m) : m.size[x] = l.size[x]
  BY DEF LruKeys
<1>2. QED  BY <1>1 DEF Sound, Narrowed

LEMMA RemoveSound ==
  ASSUME NEW l, Sound(l), NEW k
  PROVE  /\ Sound(LruRemove(l, k)) /\ Narrowed(l, LruRemove(l, k))
         /\ LruKeys(LruRemove(l, k)) = LruKeys(l) \ {k}
<1> DEFINE m == LruRemove(l, k)
<1>1. m.order = OrderWithout(l.order, {k}) /\ m.size = [x \in LruKeys(l) \ {k} |-> l.size[x]]
  BY DEF LruRemove, LruKeys
<1>2. Lists(OrderWithout(l.order, {k}), LruKeys(l) \ {k})
  BY WithoutLists DEF Sound
<1> HIDE DEF m
<1>3. Sound(m) /\ Narrowed(l, m) /\ LruKeys(m) = LruKeys(l) \ {k}
  BY <1>1, <1>2, NarrowSound
<1>4. QED  BY <1>3 DEF m

LEMMA DropKeysSound ==
  ASSUME NEW l, Sound(l), NEW K
  PROVE  /\ Sound(DropKeys(l, K)) /\ Narrowed(l, DropKeys(l, K))
         /\ LruKeys(DropKeys(l, K)) = LruKeys(l) \ K
<1> DEFINE m == DropKeys(l, K)
<1>1. m.order = OrderWithout(l.order, K) /\ m.size = [x \in LruKeys(l) \ K |-> l.size[x]]
  BY DEF DropKeys, Without, LruKeys
<1>2. Lists(OrderWithout(l.order, K), LruKeys(l) \ K)
  BY WithoutLists DEF Sound
<1> HIDE DEF m
<1>3. Sound(m) /\ Narrowed(l, m) /\ LruKeys(m) = LruKeys(l) \ K
  BY <1>1, <1>2, NarrowSound
<1>4. QED  BY <1>3 DEF m

LEMMA DropOldestSound ==
  ASSUME NEW l, Sound(l), NEW n \in 0..Len(l.order)
  PROVE  /\ Sound(DropOldest(l, n)) /\ Narrowed(l, DropOldest(l, n))
         /\ LruKeys(DropOldest(l, n)) = LruKeys(l) \ {l.order[i] : i \in 1..n}
<1> DEFINE m == DropOldest(l, n)
           K == {l.order[i] : i \in 1..n}
<1>1. m.order = SubSeq(l.order, n + 1, Len(l.order)) /\ m.size = [x \in LruKeys(l) \ K |-> l.size[x]]
  BY DEF DropOldest, LruKeys
<1>2. Lists(SubSeq(l.order, n + 1, Len(l.order)), LruKeys(l) \ K)
  BY ListsSuffix DEF Sound
<1> HIDE DEF m, K
<1>3. Lists(m.order, LruKeys(l) \ K)
  BY <1>1, <1>2
<1>4. Sound(m) /\ Narrowed(l, m) /\ LruKeys(m) = LruKeys(l) \ K
  BY <1>1, <1>3, NarrowSound
<1>5. QED  BY <1>4 DEF m, K

(* What the eviction loop of enforce_budget leaves of a policy: it fits,   *)
(* and no more than needed has gone.                                       *)
LEMMA TrimFits ==
  ASSUME NEW l, Sound(l), NEW budget \in Nat
  PROVE  /\ Sound(LruTrim(l, budget)) /\ Narrowed(l, LruTrim(l, budget))
         /\ Resident(LruTrim(l, budget)) <= budget
         /\ Excess(l, budget) \in 0..Len(l.order)
         /\ \A n \in 0..Len(l.order) :
              Resident(DropOldest(l, n)) <= budget => Excess(l, budget) <= n
<1> DEFINE N == Len(l.order)
           Good0 == {n \in 0..N : Resident(DropOldest(l, n)) <= budget}
           e == Excess(l, budget)
<1>1. N \in Nat /\ Lists(l.order, LruKeys(l))
  BY DEF Sound, Lists
<1>2. N \in Good0
  <2>1. LruKeys(DropOldest(l, N)) = LruKeys(l) \ {l.order[i] : i \in 1..N}
    BY <1>1, DropOldestSound
  <2>2. LruKeys(DropOldest(l, N)) = {}
    BY <1>1, <2>1 DEF Lists
  <2>3. Resident(DropOldest(l, N)) = 0
    BY <2>2, ResidentIsWeight, SumsAssumption, SameFinite, Sums!WeighEmpty
  <2>4. QED  BY <1>1, <2>3
<1>3. e = Min(Good0)
  BY DEF Excess
<1>4. PICK n \in Good0 : \A m \in Good0 : n <= m
  <2>1. Good0 \subseteq Nat /\ Good0 # {}
    BY <1>1, <1>2
  <2> HIDE DEF Good0
  <2>2. QED  BY <2>1, SmallestNat
<1>5. e \in Good0 /\ \A m \in Good0 : e <= m
  <2> HIDE DEF Good0
  <2>1. QED  BY <1>3, <1>4 DEF Min
<1> HIDE DEF e
<1>6. e \in 0..N /\ Resident(DropOldest(l, e)) <= budget
  BY <1>5
<1>7. Sound(DropOldest(l, e)) /\ Narrowed(l, DropOldest(l, e))
  BY <1>6, DropOldestSound
<1>8. QED  BY <1>5, <1>6, <1>7 DEF LruTrim, e

-----------------------------------------------------------------------------
(* What the policies charge, and what that does to the records.             *)

(* The policies charge a record what it holds.                             *)
ChargedKey(s, key, rec) ==
  /\ s.records.size[key] = rec.bytes
  /\ rec.state # NoState => s.snapshots.size[key] = rec.state.size

Charged(s) ==
  /\ \A r \in DOMAIN s.responses : ChargedKey(s, ResponseKey(r), s.responses[r])
  /\ \A c \in DOMAIN s.conversations : ChargedKey(s, ConversationKey(c), s.conversations[c])

Policies(s) ==
  /\ Sound(s.records) /\ Sound(s.snapshots)
  /\ \A k \in LruKeys(s.snapshots) : s.snapshots.size[k] # 0

Total(s) == Resident(s.records) + Resident(s.snapshots)

(* A call that adds no bytes: it drops keys or refreshes them.             *)
Cut(s, t) ==
  /\ Shrunk(s, t)
  /\ Sound(t.records) /\ Narrowed(s.records, t.records)
  /\ Sound(t.snapshots) /\ Narrowed(s.snapshots, t.snapshots)

LEMMA FadedIsCharged ==
  ASSUME NEW a, NEW b, b.bytes = a.bytes, b.state = a.state \/ b.state = NoState,
         NEW s, NEW t, NEW k, ChargedKey(s, k, a),
         t.records.size[k] = s.records.size[k],
         b.state # NoState => t.snapshots.size[k] = s.snapshots.size[k]
  PROVE  ChargedKey(t, k, b)
BY DEF ChargedKey

LEMMA CutKeepsCharges ==
  ASSUME NEW s, NEW t, Policies(s), Charged(s), StoreTyped(s), Good(t), Cut(s, t)
  PROVE  /\ Policies(t) /\ Charged(t)
         /\ Total(t) \in Nat /\ Total(s) \in Nat /\ Total(t) <= Total(s)
<1>1. /\ LruKeys(t.records) = RecordKeys(t) /\ LruKeys(t.snapshots) = SnapshotKeys(t)
  BY DEF Good, AgreeBut
<1>2. /\ \A k \in RecordKeys(t) : t.records.size[k] = s.records.size[k]
      /\ \A k \in SnapshotKeys(t) : t.snapshots.size[k] = s.snapshots.size[k]
  BY <1>1 DEF Cut, Narrowed
<1>3. Policies(t)
  BY DEF Policies, Cut, Narrowed
<1>4. ASSUME NEW r \in DOMAIN t.responses
      PROVE  ChargedKey(t, ResponseKey(r), t.responses[r])
  <2> DEFINE a == s.responses[r]
             b == t.responses[r]
             k == ResponseKey(r)
  <2>1. Faded(a, b) /\ a \in StoredResponse /\ ChargedKey(s, k, a)
    BY <1>4 DEF Cut, Shrunk, StoreTyped, Charged
  <2>2. k \in RecordKeys(t) /\ (b.state # NoState => k \in SnapshotKeys(t))
    BY <1>4 DEF RecordKeys, SnapshotKeys, HasSnapshot
  <2>3. t.records.size[k] = s.records.size[k] /\ (b.state # NoState => t.snapshots.size[k] = s.snapshots.size[k])
    BY <1>2, <2>2
  <2> HIDE DEF a, b, k
  <2>4. b.bytes = a.bytes /\ (b.state = a.state \/ b.state = NoState)
    BY <2>1, FadedResponse
  <2>5. ChargedKey(t, k, b)
    BY <2>1, <2>3, <2>4, FadedIsCharged
  <2>6. QED  BY <2>5 DEF b, k
<1>5. ASSUME NEW c \in DOMAIN t.conversations
      PROVE  ChargedKey(t, ConversationKey(c), t.conversations[c])
  <2> DEFINE a == s.conversations[c]
             b == t.conversations[c]
             k == ConversationKey(c)
  <2>1. Faded(a, b) /\ a \in ConversationRecord /\ ChargedKey(s, k, a)
    BY <1>5 DEF Cut, Shrunk, StoreTyped, Charged
  <2>2. k \in RecordKeys(t) /\ (b.state # NoState => k \in SnapshotKeys(t))
    BY <1>5 DEF RecordKeys, SnapshotKeys, HasSnapshot
  <2>3. t.records.size[k] = s.records.size[k] /\ (b.state # NoState => t.snapshots.size[k] = s.snapshots.size[k])
    BY <1>2, <2>2
  <2> HIDE DEF a, b, k
  <2>4. b.bytes = a.bytes /\ (b.state = a.state \/ b.state = NoState)
    BY <2>1, FadedConversation
  <2>5. ChargedKey(t, k, b)
    BY <2>1, <2>3, <2>4, FadedIsCharged
  <2>6. QED  BY <2>5 DEF b, k
<1>6. /\ Resident(t.records) \in Nat /\ Resident(s.records) \in Nat
      /\ Resident(t.records) <= Resident(s.records)
  <2> DEFINE x == Sums!Weigh(s.records.size, LruKeys(s.records) \ LruKeys(t.records))
  <2>1. /\ Resident(t.records) \in Nat /\ Resident(s.records) \in Nat /\ x \in Nat
        /\ Resident(s.records) = Resident(t.records) + x
    BY NarrowedWeighsLess DEF Policies, Cut
  <2> HIDE DEF x
  <2>2. QED  BY <2>1
<1>7. /\ Resident(t.snapshots) \in Nat /\ Resident(s.snapshots) \in Nat
      /\ Resident(t.snapshots) <= Resident(s.snapshots)
  <2> DEFINE x == Sums!Weigh(s.snapshots.size, LruKeys(s.snapshots) \ LruKeys(t.snapshots))
  <2>1. /\ Resident(t.snapshots) \in Nat /\ Resident(s.snapshots) \in Nat /\ x \in Nat
        /\ Resident(s.snapshots) = Resident(t.snapshots) + x
    BY NarrowedWeighsLess DEF Policies, Cut
  <2> HIDE DEF x
  <2>2. QED  BY <2>1
<1>8. QED  BY <1>3, <1>4, <1>5, <1>6, <1>7 DEF Charged, Total

LEMMA SameIsNarrowed == \A l : Narrowed(l, l)
BY DEF Narrowed

(* Refreshing a key at the price it already has.                           *)
LEMMA RefreshSound ==
  ASSUME NEW l, Sound(l), NEW k \in LruKeys(l), NEW b, b = l.size[k]
  PROVE  Sound(LruTouch(l, k, b)) /\ Narrowed(l, LruTouch(l, k, b))
<1>1. b \in Nat
  BY DEF Sound
<1>2. /\ Sound(LruTouch(l, k, b))
      /\ LruKeys(LruTouch(l, k, b)) = LruKeys(l) \cup {k}
      /\ LruTouch(l, k, b).size[k] = b
      /\ \A x \in LruKeys(l) : x # k => LruTouch(l, k, b).size[x] = l.size[x]
  BY <1>1, TouchSound
<1> DEFINE m == LruTouch(l, k, b)
<1> HIDE DEF m
<1>3. /\ LruKeys(m) = LruKeys(l) \cup {k} /\ m.size[k] = l.size[k]
      /\ \A x \in LruKeys(l) : x # k => m.size[x] = l.size[x]
  BY <1>2 DEF m
<1>4. Narrowed(l, m)
  BY <1>3 DEF Narrowed
<1>5. QED  BY <1>2, <1>4 DEF m

LEMMA RemoveResponsesCut ==
  ASSUME NEW s, Shape(s), Policies(s), NEW ids
  PROVE  Cut(s, RemoveResponses(s, ids))
<1> DEFINE t == RemoveResponses(s, ids)
           keys == {ResponseKey(r) : r \in ids}
<1>1. t.records = DropKeys(s.records, keys) /\ t.snapshots = DropKeys(s.snapshots, keys)
  BY DEF RemoveResponses, Shape, Fields
<1>2. Shrunk(s, t)
  BY RemoveResponsesShrunk
<1> HIDE DEF t, keys
<1>3. QED  BY <1>1, <1>2, DropKeysSound DEF Cut, Policies, t

LEMMA TouchRecordCut ==
  ASSUME NEW s, Shape(s), Policies(s), NEW k \in LruKeys(s.records), NEW b, b = s.records.size[k]
  PROVE  Cut(s, [s EXCEPT !.records = LruTouch(@, k, b)])
<1> DEFINE t == [s EXCEPT !.records = LruTouch(@, k, b)]
<1>1. /\ t.records = LruTouch(s.records, k, b) /\ t.snapshots = s.snapshots
      /\ t.responses = s.responses /\ t.conversations = s.conversations
  BY DEF Shape, Fields
<1> HIDE DEF t
<1>2. Sound(t.records) /\ Narrowed(s.records, t.records)
  BY <1>1, RefreshSound DEF Policies
<1>3. QED  BY <1>1, <1>2, SameMapsShrunk, SameIsNarrowed DEF Cut, Policies, t

LEMMA TouchContextCut ==
  ASSUME NEW s, Good(s), Policies(s), NEW k \in LruKeys(s.records), NEW rec,
         rec.state # NoState => k \in LruKeys(s.snapshots), ChargedKey(s, k, rec)
  PROVE  Cut(s, TouchContext(s, k, rec))
<1> DEFINE t == TouchContext(s, k, rec)
<1>1. /\ t.records = LruTouch(s.records, k, rec.bytes)
      /\ t.snapshots = IF rec.state = NoState THEN s.snapshots
                       ELSE LruTouch(s.snapshots, k, rec.state.size)
      /\ t.responses = s.responses /\ t.conversations = s.conversations
  BY DEF TouchContext, Good, Shape, Fields
<1> HIDE DEF t
<1>2. Sound(t.records) /\ Narrowed(s.records, t.records)
  BY <1>1, RefreshSound DEF Policies, ChargedKey
<1>3. Sound(t.snapshots) /\ Narrowed(s.snapshots, t.snapshots)
  <2>1. CASE rec.state = NoState
    BY <1>1, <2>1, SameIsNarrowed DEF Policies
  <2>2. CASE rec.state # NoState
    BY <1>1, <2>2, RefreshSound DEF Policies, ChargedKey
  <2>3. QED  BY <2>1, <2>2
<1>4. QED  BY <1>1, <1>2, <1>3, SameMapsShrunk DEF Cut, t

LEMMA DeleteConversationCut ==
  ASSUME NEW s, Shape(s), Policies(s), NEW id, NEW k
  PROVE  Cut(s, [s EXCEPT !.conversations = Without(@, {id}),
                          !.records = LruRemove(@, k),
                          !.snapshots = LruRemove(@, k)])
<1> DEFINE t == [s EXCEPT !.conversations = Without(@, {id}),
                          !.records = LruRemove(@, k),
                          !.snapshots = LruRemove(@, k)]
<1>1. /\ t.records = LruRemove(s.records, k) /\ t.snapshots = LruRemove(s.snapshots, k)
      /\ t.responses = s.responses /\ t.conversations = Without(s.conversations, {id})
  BY DEF Shape, Fields
<1> HIDE DEF t
<1>2. Shrunk(s, t)
  BY <1>1 DEF Shrunk, Faded, Without
<1>3. QED  BY <1>1, <1>2, RemoveSound DEF Cut, Policies, t

(* A policy that weighs nothing, each key something, is empty.             *)
LEMMA NothingWeighsNothing ==
  ASSUME NEW l, Sound(l), Resident(l) <= 0, \A k \in LruKeys(l) : l.size[k] # 0
  PROVE  LruKeys(l) = {}
<1> DEFINE w == l.size
           D == LruKeys(l)
<1>1. IsFiniteSet(D) /\ (\A k \in D : w[k] \in Nat /\ w[k] # 0) /\ Sums!Weigh(w, D) <= 0
  BY ListsCounted, ResidentIsWeight DEF Sound
<1> HIDE DEF w, D
<1>2. SUFFICES ASSUME NEW k \in D PROVE FALSE
  BY DEF D
<1>3. Sums!Weigh(w, D) = w[k] + Sums!Weigh(w, D \ {k})
  BY <1>1, SumsAssumption, SameFinite, Sums!WeighAny
<1>4. IsFiniteSet(D \ {k})
  BY <1>1, FS_Subset
<1>5. Sums!Weigh(w, D \ {k}) \in Nat
  BY <1>1, <1>4, SumsAssumption, SameFinite, Sums!WeighNat
<1> DEFINE x == Sums!Weigh(w, D \ {k})
           y == Sums!Weigh(w, D)
<1>6. x \in Nat /\ y = w[k] + x /\ y <= 0 /\ w[k] \in Nat /\ w[k] # 0
  BY <1>1, <1>3, <1>5
<1> HIDE DEF x, y
<1>7. QED  BY <1>6

(* Nothing goes when everything fits.                                      *)
LEMMA TrimOfFitting ==
  ASSUME NEW l, Sound(l), NEW budget \in Nat, Resident(l) <= budget
  PROVE  LruKeys(LruTrim(l, budget)) = LruKeys(l)
<1> DEFINE z == DropOldest(l, 0)
<1>1. Len(l.order) \in Nat /\ 0 \in 0..Len(l.order)
  BY DEF Sound, Lists
<1>2. Sound(z) /\ Narrowed(l, z) /\ LruKeys(z) = LruKeys(l) \ {l.order[i] : i \in 1..0}
  BY <1>1, DropOldestSound
<1>3. LruKeys(z) = LruKeys(l)
  BY <1>2
<1>4. Resident(z) <= Resident(l)
  <2> DEFINE x == Sums!Weigh(l.size, LruKeys(l) \ LruKeys(z))
  <2>1. /\ Resident(z) \in Nat /\ Resident(l) \in Nat /\ x \in Nat
        /\ Resident(l) = Resident(z) + x
    BY <1>2, NarrowedWeighsLess
  <2> HIDE DEF x
  <2>2. QED  BY <2>1
<1>5. Resident(z) \in Nat /\ Resident(l) \in Nat /\ Resident(z) <= budget
  <2>1. Resident(z) \in Nat /\ Resident(l) \in Nat
    BY <1>2, ResidentNat
  <2>2. QED  BY <1>4, <2>1
<1>6. Excess(l, budget) \in 0..Len(l.order) /\ Excess(l, budget) <= 0
  BY <1>1, <1>5, TrimFits
<1>7. Excess(l, budget) = 0
  BY <1>1, <1>6
<1>8. QED  BY <1>3, <1>7 DEF LruTrim

LEMMA EnforceBudgetFits ==
  ASSUME NEW s, Policies(s), Good(s)
  PROVE  LET t == EnforceBudget(s)
         IN  /\ Cut(s, t) /\ Total(t) <= MaxBytes
             /\ LruKeys(t.records) = LruKeys(LruTrim(s.records, MaxBytes))
             /\ LruKeys(t.records) # LruKeys(s.records) =>
                  LruKeys(t.snapshots) = {} /\ Resident(s.records) > MaxBytes
<1> DEFINE t       == EnforceBudget(s)
           recs    == LruTrim(s.records, MaxBytes)
           room    == MaxBytes - Min({MaxBytes, Resident(s.records)})
           snaps   == LruTrim(s.snapshots, room)
           removed == LruKeys(s.records) \ LruKeys(recs)
           left    == DropKeys(snaps, removed)
<1>1. t.records = recs /\ t.snapshots = left
  BY DEF EnforceBudget, SnapshotsLeft, RecordsLeft
<1>2. Shrunk(s, t)
  BY EnforceBudgetShrunk
<1> HIDE DEF t
<1>3. MaxBytes \in Nat /\ Resident(s.records) \in Nat
  BY StoreAssumption, ResidentNat DEF Policies
<1>4. Min({MaxBytes, Resident(s.records)}) = IF Resident(s.records) <= MaxBytes
                                             THEN Resident(s.records) ELSE MaxBytes
  <2> DEFINE a == Resident(s.records)
  <2> HIDE DEF a
  <2>1. a \in Nat
    BY <1>3 DEF a
  <2>2. Min({MaxBytes, a}) = IF a <= MaxBytes THEN a ELSE MaxBytes
    BY <1>3, <2>1 DEF Min
  <2>3. QED  BY <2>2 DEF a
<1>5. room \in Nat
  BY <1>3, <1>4
<1>6. /\ Sound(recs) /\ Narrowed(s.records, recs) /\ Resident(recs) <= MaxBytes
      /\ Resident(recs) \in Nat
  BY <1>3, TrimFits, ResidentNat DEF Policies
<1> HIDE DEF room
<1>7. Sound(snaps) /\ Narrowed(s.snapshots, snaps) /\ Resident(snaps) <= room
  BY <1>5, TrimFits DEF Policies
<1> HIDE DEF recs, snaps, removed
<1>8. Sound(left) /\ Narrowed(snaps, left)
  BY <1>7, DropKeysSound
<1> HIDE DEF left
<1>9. Narrowed(s.snapshots, left)
  BY <1>7, <1>8 DEF Narrowed
<1>10. Resident(left) \in Nat /\ Resident(left) <= room
  <2> DEFINE x == Sums!Weigh(snaps.size, LruKeys(snaps) \ LruKeys(left))
  <2>1. /\ Resident(left) \in Nat /\ Resident(snaps) \in Nat /\ x \in Nat
        /\ Resident(snaps) = Resident(left) + x
    BY <1>7, <1>8, NarrowedWeighsLess
  <2> HIDE DEF x
  <2>2. QED  BY <1>5, <1>7, <2>1
<1>11. CASE Resident(s.records) <= MaxBytes
  <2>1. LruKeys(recs) = LruKeys(s.records)
    BY <1>3, <1>11, TrimOfFitting DEF Policies, recs
  <2>2. Resident(recs) + Resident(left) <= MaxBytes
    <3>1. Resident(recs) <= Resident(s.records)
      <4> DEFINE x == Sums!Weigh(s.records.size, LruKeys(s.records) \ LruKeys(recs))
      <4>1. /\ x \in Nat /\ Resident(s.records) = Resident(recs) + x
        BY <1>6, NarrowedWeighsLess DEF Policies
      <4> HIDE DEF x
      <4>2. QED  BY <1>3, <1>6, <4>1
    <3>2. room = MaxBytes - Resident(s.records)
      BY <1>4, <1>11 DEF room
    <3>3. QED  BY <1>3, <1>6, <1>10, <3>1, <3>2
  <2>3. QED
    BY <1>1, <1>2, <1>6, <1>8, <1>9, <2>1, <2>2 DEF Cut, Total, t, recs
<1>12. CASE ~(Resident(s.records) <= MaxBytes)
  <2>1. room = 0
    BY <1>3, <1>4, <1>12 DEF room
  <2>2. Resident(left) <= 0 /\ Resident(recs) + Resident(left) <= MaxBytes
    BY <1>3, <1>6, <1>10, <2>1
  <2>3. \A k \in LruKeys(left) : left.size[k] # 0
    BY <1>9 DEF Policies, Narrowed
  <2>4. LruKeys(left) = {}
    BY <1>8, <2>2, <2>3, NothingWeighsNothing
  <2>5. Resident(s.records) > MaxBytes
    BY <1>3, <1>12
  <2>6. QED
    BY <1>1, <1>2, <1>6, <1>8, <1>9, <2>2, <2>4, <2>5 DEF Cut, Total, t, recs
<1>13. QED  BY <1>11, <1>12

(* The newest keys survive when they fit on their own.                     *)
LEMMA TrimKeepsSuffix ==
  ASSUME NEW l, Sound(l), NEW budget \in Nat, NEW m \in 0..Len(l.order),
         Resident(DropOldest(l, m)) <= budget
  PROVE  \A i \in m + 1..Len(l.order) : l.order[i] \in LruKeys(LruTrim(l, budget))
<1> DEFINE e == Excess(l, budget)
           o == l.order
<1>1. /\ Len(o) \in Nat /\ o \in Seq(LruKeys(l))
      /\ \A i, j \in 1..Len(o) : o[i] = o[j] => i = j
  BY DEF Sound, Lists
<1>2. e \in 0..Len(o) /\ e <= m
  BY TrimFits
<1>3. LruKeys(LruTrim(l, budget)) = LruKeys(l) \ {o[i] : i \in 1..e}
  BY <1>2, DropOldestSound DEF LruTrim
<1> HIDE DEF e, o
<1>4. ASSUME NEW i \in m + 1..Len(o) PROVE o[i] \in LruKeys(l) \ {o[j] : j \in 1..e}
  <2>1. m \in Nat /\ e \in Nat /\ i \in 1..Len(o) /\ i \notin 1..e
    BY <1>1, <1>2, <1>4 DEF o
  <2>2. \A j \in 1..e : j \in 1..Len(o)
    BY <1>1, <1>2
  <2>3. \A j \in 1..e : o[j] # o[i]
    BY <1>1, <2>1, <2>2
  <2>4. o[i] \in LruKeys(l)
    BY <1>1, <2>1
  <2>5. QED  BY <2>3, <2>4
<1>5. QED  BY <1>3, <1>4 DEF o

(* The weight of one key, and of two.                                      *)
LEMMA OneKeyWeighs ==
  ASSUME NEW w, NEW x, w[x] \in Nat
  PROVE  Sums!Weigh(w, {x}) = w[x]
<1>1. IsFiniteSet({x}) /\ {x} \ {x} = {}
  BY FS_Singleton
<1>2. Sums!Weigh(w, {x}) = w[x] + Sums!Weigh(w, {x} \ {x})
  BY <1>1, SumsAssumption, SameFinite, Sums!WeighAny
<1>3. Sums!Weigh(w, {}) = 0
  BY SumsAssumption, Sums!WeighEmpty
<1> DEFINE y == Sums!Weigh(w, {x})
<1>4. y = w[x] + 0
  BY <1>1, <1>2, <1>3
<1> HIDE DEF y
<1>5. y = w[x]
  BY <1>4
<1>6. QED  BY <1>5 DEF y

LEMMA TwoKeysWeigh ==
  ASSUME NEW w, NEW x, NEW y, x # y, w[x] \in Nat, w[y] \in Nat
  PROVE  Sums!Weigh(w, {x, y}) = w[x] + w[y]
<1>1. IsFiniteSet({x, y}) /\ {x, y} \ {x} = {y} /\ x \in {x, y}
  <2>1. IsFiniteSet({x})
    BY FS_Singleton
  <2>2. IsFiniteSet({x} \cup {y})
    BY <2>1, FS_AddElement
  <2>3. {x} \cup {y} = {x, y}
    OBVIOUS
  <2>4. QED  BY <2>2, <2>3
<1>2. \A k \in {x, y} : w[k] \in Nat
  OBVIOUS
<1> DEFINE S == {x, y}
<1>3. x \in S /\ IsFiniteSet(S) /\ \A k \in S : w[k] \in Nat
  BY <1>1, <1>2
<1> HIDE DEF S
<1>4. Sums!Weigh(w, S) = w[x] + Sums!Weigh(w, S \ {x})
  BY <1>3, SumsAssumption, SameFinite, Sums!WeighAny
<1>5. S \ {x} = {y}
  BY <1>1 DEF S
<1>6. QED  BY <1>4, <1>5, OneKeyWeighs DEF S

(* The key touched last survives when it fits on its own, the two touched  *)
(* last when both fit.                                                     *)
Newest(l, k) == Len(l.order) # 0 /\ l.order[Len(l.order)] = k

LEMMA TouchedIsNewest ==
  ASSUME NEW l, Sound(l), NEW k, NEW b
  PROVE  /\ Newest(LruTouch(l, k, b), k)
         /\ \A x : Newest(l, x) /\ x # k =>
              LET o == LruTouch(l, k, b).order
              IN  Len(o) >= 2 /\ o[Len(o) - 1] = x
<1> DEFINE r == OrderWithout(l.order, {k})
           S == LruKeys(l)
<1>1. Lists(l.order, S) /\ LruTouch(l, k, b).order = Append(r, k)
  BY DEF Sound, LruTouch
<1>2. Lists(r, S \ {k})
  BY <1>1, WithoutLists
<1>3. \A x : Newest(l, x) /\ x # k => Len(r) # 0 /\ r[Len(r)] = x
  BY <1>1, WithoutKeepsNewest DEF Newest
<1> HIDE DEF r, S
<1>4. r \in Seq(S)
  BY <1>2 DEF Lists
<1> DEFINE o == Append(r, k)
<1>5. /\ Len(r) \in Nat /\ Len(o) = Len(r) + 1 /\ o[Len(o)] = k
      /\ Len(r) # 0 => o[Len(r)] = r[Len(r)]
  BY <1>4
<1> HIDE DEF o
<1>6. \A x : Newest(l, x) /\ x # k => Len(o) >= 2 /\ o[Len(o) - 1] = x
  BY <1>3, <1>5
<1>7. LruTouch(l, k, b).order = o /\ Len(o) # 0 /\ o[Len(o)] = k
  BY <1>1, <1>5 DEF o
<1>8. Newest(LruTouch(l, k, b), k)
  BY <1>7 DEF Newest
<1>9. QED  BY <1>6, <1>7, <1>8

LEMMA NewestSurvives ==
  ASSUME NEW l, Sound(l), NEW budget \in Nat, NEW x, Newest(l, x), l.size[x] <= budget
  PROVE  x \in LruKeys(LruTrim(l, budget))
<1> DEFINE n == Len(l.order)
           z == DropOldest(l, n - 1)
<1>1. /\ n \in Nat /\ n # 0 /\ l.order[n] = x /\ n - 1 \in 0..n /\ n \in (n - 1) + 1..n
      /\ Lists(l.order, LruKeys(l))
  <2>1. Lists(l.order, LruKeys(l))
    BY DEF Sound
  <2>2. n \in Nat
    BY <2>1 DEF Lists
  <2>3. n # 0 /\ l.order[n] = x
    BY DEF Newest
  <2> HIDE DEF n
  <2>4. n - 1 \in 0..n /\ n \in (n - 1) + 1..n
    BY <2>2, <2>3
  <2>5. QED  BY <2>1, <2>2, <2>3, <2>4
<1>2. Sound(z) /\ Narrowed(l, z) /\ LruKeys(z) = LruKeys(l) \ {l.order[i] : i \in 1..n - 1}
  BY <1>1, DropOldestSound
<1> HIDE DEF z
<1>3. LruKeys(z) = {x}
  <2>1. ASSUME NEW k \in LruKeys(z) PROVE k = x
    <3>1. PICK i \in 1..n : l.order[i] = k
      BY <1>1, <1>2 DEF Lists
    <3>2. i = n
      BY <1>1, <1>2, <3>1
    <3>3. QED  BY <1>1, <3>1, <3>2
  <2>2. x \in LruKeys(z)
    <3>1. x \in LruKeys(l)
      BY <1>1 DEF Lists
    <3>2. ASSUME NEW i \in 1..n - 1 PROVE l.order[i] # x
      <4>1. i \in 1..n /\ n \in 1..n /\ i # n
        BY <1>1
      <4>2. QED  BY <1>1, <4>1 DEF Lists
    <3>3. QED  BY <1>2, <3>1, <3>2
  <2>3. QED  BY <2>1, <2>2
<1>4. z.size[x] = l.size[x] /\ z.size[x] \in Nat
  BY <1>2, <1>3 DEF Sound, Narrowed
<1>5. Resident(z) = z.size[x]
  BY <1>3, <1>4, ResidentIsWeight, OneKeyWeighs
<1>6. Resident(z) <= budget
  BY <1>4, <1>5
<1>7. QED  BY <1>1, <1>6, TrimKeepsSuffix DEF z

LEMMA NewestTwoSurvive ==
  ASSUME NEW l, Sound(l), NEW budget \in Nat, NEW x, NEW y, x # y, Newest(l, y),
         Len(l.order) >= 2, l.order[Len(l.order) - 1] = x,
         l.size[x] + l.size[y] <= budget
  PROVE  {x, y} \subseteq LruKeys(LruTrim(l, budget))
<1> DEFINE n == Len(l.order)
           z == DropOldest(l, n - 2)
<1>1. /\ n \in Nat /\ n >= 2 /\ l.order[n] = y /\ l.order[n - 1] = x
      /\ n - 2 \in 0..n /\ n \in (n - 2) + 1..n /\ n - 1 \in (n - 2) + 1..n
      /\ n \in 1..n /\ n - 1 \in 1..n
      /\ Lists(l.order, LruKeys(l))
  <2>1. /\ n \in Nat /\ n >= 2 /\ l.order[n] = y /\ l.order[n - 1] = x
        /\ Lists(l.order, LruKeys(l))
    BY DEF Sound, Lists, Newest
  <2> HIDE DEF n
  <2>2. /\ n - 2 \in 0..n /\ n \in (n - 2) + 1..n /\ n - 1 \in (n - 2) + 1..n
        /\ n \in 1..n /\ n - 1 \in 1..n
    BY <2>1
  <2>3. QED  BY <2>1, <2>2
<1>2. Sound(z) /\ Narrowed(l, z) /\ LruKeys(z) = LruKeys(l) \ {l.order[i] : i \in 1..n - 2}
  BY <1>1, DropOldestSound
<1> HIDE DEF z
<1>3. LruKeys(z) = {x, y}
  <2>1. ASSUME NEW k \in LruKeys(z) PROVE k \in {x, y}
    <3>1. PICK i \in 1..n : l.order[i] = k
      BY <1>1, <1>2 DEF Lists
    <3>2. i = n \/ i = n - 1
      BY <1>1, <1>2, <3>1
    <3>3. QED  BY <1>1, <3>1, <3>2
  <2>2. x \in LruKeys(l) /\ y \in LruKeys(l)
    <3>1. \A i \in 1..n : l.order[i] \in LruKeys(l)
      BY <1>1 DEF Lists
    <3>2. QED  BY <1>1, <3>1
  <2>3. ASSUME NEW i \in 1..n - 2 PROVE l.order[i] # x /\ l.order[i] # y
    <3>1. i \in 1..n /\ i # n /\ i # n - 1
      BY <1>1
    <3>2. QED  BY <1>1, <3>1 DEF Lists
  <2>4. QED  BY <1>2, <2>1, <2>2, <2>3
<1>4. /\ z.size[x] = l.size[x] /\ z.size[x] \in Nat
      /\ z.size[y] = l.size[y] /\ z.size[y] \in Nat
  BY <1>2, <1>3 DEF Sound, Narrowed
<1>5. Resident(z) = z.size[x] + z.size[y]
  <2>1. Resident(z) = Sums!Weigh(z.size, {x, y})
    BY <1>3, ResidentIsWeight
  <2> DEFINE w == z.size
  <2>2. w[x] \in Nat /\ w[y] \in Nat
    BY <1>4
  <2> HIDE DEF w
  <2>3. Sums!Weigh(w, {x, y}) = w[x] + w[y]
    BY <2>2, TwoKeysWeigh
  <2>4. QED  BY <2>1, <2>3 DEF w
<1>6. Resident(z) <= budget
  BY <1>4, <1>5
<1>7. QED  BY <1>1, <1>6, TrimKeepsSuffix DEF z

(* t is s with the records of the keys W written, both policies charged    *)
(* for them; they survive the eviction pass that follows.                  *)
Rewritten(s, t, W) ==
  /\ \A r \in DOMAIN t.responses :
       IF ResponseKey(r) \in W THEN ChargedKey(t, ResponseKey(r), t.responses[r])
       ELSE r \in DOMAIN s.responses /\ t.responses[r] = s.responses[r]
  /\ \A c \in DOMAIN t.conversations :
       IF ConversationKey(c) \in W THEN ChargedKey(t, ConversationKey(c), t.conversations[c])
       ELSE c \in DOMAIN s.conversations /\ t.conversations[c] = s.conversations[c]

Admitted(l, m, W) ==
  /\ Sound(m) /\ LruKeys(m) = LruKeys(l) \cup W
  /\ \A k \in LruKeys(l) : k \notin W => m.size[k] = l.size[k]
  /\ W \subseteq LruKeys(LruTrim(m, MaxBytes))

Attached(l, m, W) ==
  /\ Sound(m)
  /\ \A k \in LruKeys(m) : IF k \in W THEN m.size[k] # 0
                           ELSE k \in LruKeys(l) /\ m.size[k] = l.size[k]

Writes(s, t, W) ==
  Rewritten(s, t, W) /\ Admitted(s.records, t.records, W) /\ Attached(s.snapshots, t.snapshots, W)

LEMMA WritesCharged ==
  ASSUME NEW s, NEW t, NEW W, Good(s), Good(t), Policies(s), Charged(s), Writes(s, t, W)
  PROVE  Policies(t) /\ Charged(t)
<1>1. /\ LruKeys(s.records) = RecordKeys(s)
      /\ LruKeys(t.snapshots) = SnapshotKeys(t)
  BY DEF Good, AgreeBut
<1>2. Policies(t)
  BY DEF Policies, Writes, Admitted, Attached
<1>3. ASSUME NEW r \in DOMAIN t.responses
      PROVE  ChargedKey(t, ResponseKey(r), t.responses[r])
  <2> DEFINE k == ResponseKey(r)
  <2>1. CASE k \in W
    BY <2>1 DEF Writes, Rewritten
  <2>2. CASE k \notin W
    <3>1. r \in DOMAIN s.responses /\ t.responses[r] = s.responses[r]
      BY <2>2 DEF Writes, Rewritten
    <3>2. t.records.size[k] = s.records.size[k]
      BY <1>1, <2>2, <3>1 DEF Writes, Admitted, RecordKeys
    <3>3. t.responses[r].state # NoState => t.snapshots.size[k] = s.snapshots.size[k]
      BY <1>1, <2>2 DEF Writes, Attached, SnapshotKeys, HasSnapshot
    <3>4. ChargedKey(s, k, s.responses[r])
      BY <3>1 DEF Charged
    <3>5. QED  BY <3>1, <3>2, <3>3, <3>4 DEF ChargedKey
  <2>3. QED  BY <2>1, <2>2
<1>4. ASSUME NEW c \in DOMAIN t.conversations
      PROVE  ChargedKey(t, ConversationKey(c), t.conversations[c])
  <2> DEFINE k == ConversationKey(c)
  <2>1. CASE k \in W
    BY <2>1 DEF Writes, Rewritten
  <2>2. CASE k \notin W
    <3>1. c \in DOMAIN s.conversations /\ t.conversations[c] = s.conversations[c]
      BY <2>2 DEF Writes, Rewritten
    <3>2. t.records.size[k] = s.records.size[k]
      BY <1>1, <2>2, <3>1 DEF Writes, Admitted, RecordKeys
    <3>3. t.conversations[c].state # NoState => t.snapshots.size[k] = s.snapshots.size[k]
      BY <1>1, <2>2 DEF Writes, Attached, SnapshotKeys, HasSnapshot
    <3>4. ChargedKey(s, k, s.conversations[c])
      BY <3>1 DEF Charged
    <3>5. QED  BY <3>1, <3>2, <3>3, <3>4 DEF ChargedKey
  <2>3. QED  BY <2>1, <2>2
<1>5. QED  BY <1>2, <1>3, <1>4 DEF Charged

(* A snapshot is charged when there is one.                                *)
PutSnapshot(l, k, state) == IF state = NoState THEN l ELSE LruTouch(l, k, state.size)

LEMMA PutSound ==
  ASSUME NEW l, Sound(l), NEW k, NEW state, state # NoState => state.size \in Nat
  PROVE  LET m == PutSnapshot(l, k, state)
         IN  /\ Sound(m)
             /\ \A x \in LruKeys(m) : x # k => x \in LruKeys(l) /\ m.size[x] = l.size[x]
             /\ \A x \in LruKeys(l) : x # k => x \in LruKeys(m)
             /\ IF state = NoState THEN m = l ELSE k \in LruKeys(m) /\ m.size[k] = state.size
<1>1. CASE state = NoState
  BY <1>1 DEF PutSnapshot
<1>2. CASE state # NoState
  <2> DEFINE m == LruTouch(l, k, state.size)
  <2>1. PutSnapshot(l, k, state) = m
    BY <1>2 DEF PutSnapshot
  <2>2. /\ Sound(m) /\ LruKeys(m) = LruKeys(l) \cup {k} /\ m.size[k] = state.size
        /\ \A x \in LruKeys(l) : x # k => m.size[x] = l.size[x]
    BY <1>2, TouchSound
  <2> HIDE DEF m
  <2>3. QED  BY <1>2, <2>1, <2>2
<1>3. QED  BY <1>1, <1>2

(* The records policy of a commit.                                         *)
LEMMA RecordAdmitted ==
  ASSUME NEW l, Sound(l), NEW k, NEW b \in Nat, b <= MaxBytes
  PROVE  /\ Admitted(l, LruTouch(l, k, b), {k}) /\ LruTouch(l, k, b).size[k] = b
         /\ Newest(LruTouch(l, k, b), k)
<1> DEFINE m == LruTouch(l, k, b)
<1>1. /\ Sound(m) /\ LruKeys(m) = LruKeys(l) \cup {k} /\ m.size[k] = b
      /\ \A x \in LruKeys(l) : x # k => m.size[x] = l.size[x]
  BY TouchSound
<1>2. Newest(m, k)
  BY TouchedIsNewest
<1> HIDE DEF m
<1>3. k \in LruKeys(LruTrim(m, MaxBytes))
  <2>1. MaxBytes \in Nat
    BY StoreAssumption
  <2>2. QED  BY <1>1, <1>2, <2>1, NewestSurvives
<1>4. QED  BY <1>1, <1>2, <1>3 DEF Admitted, m

LEMMA RemovedThenAdmitted ==
  ASSUME NEW l, Sound(l), NEW k, NEW m, Admitted(LruRemove(l, k), m, {k})
  PROVE  Admitted(l, m, {k})
<1> DEFINE z == LruRemove(l, k)
<1>1. LruKeys(z) = LruKeys(l) \ {k} /\ Narrowed(l, z)
  BY RemoveSound
<1> HIDE DEF z
<1>2. Admitted(z, m, {k})
  BY DEF z
<1>3. QED  BY <1>1, <1>2 DEF Admitted, Narrowed

LEMMA TwoRecordsAdmitted ==
  ASSUME NEW l, Sound(l), NEW j, NEW k, j # k, NEW a \in Nat, NEW b \in Nat, a + b <= MaxBytes
  PROVE  LET m == LruTouch(LruTouch(LruRemove(l, k), j, a), k, b)
         IN  Admitted(l, m, {j, k}) /\ m.size[j] = a /\ m.size[k] = b
<1> DEFINE z == LruRemove(l, k)
           y == LruTouch(z, j, a)
           m == LruTouch(y, k, b)
<1>1. Sound(z) /\ LruKeys(z) = LruKeys(l) \ {k} /\ Narrowed(l, z)
  BY RemoveSound
<1> HIDE DEF z
<1>2. /\ Sound(y) /\ LruKeys(y) = LruKeys(z) \cup {j} /\ y.size[j] = a
      /\ \A x \in LruKeys(z) : x # j => y.size[x] = z.size[x]
  BY <1>1, TouchSound
<1>3. Newest(y, j)
  BY <1>1, TouchedIsNewest
<1> HIDE DEF y
<1>4. /\ Sound(m) /\ LruKeys(m) = LruKeys(y) \cup {k} /\ m.size[k] = b
      /\ \A x \in LruKeys(y) : x # k => m.size[x] = y.size[x]
  BY <1>2, TouchSound
<1>5. Newest(m, k) /\ Len(m.order) >= 2 /\ m.order[Len(m.order) - 1] = j
  BY <1>2, <1>3, TouchedIsNewest
<1> HIDE DEF m
<1>6. m.size[j] = a
  BY <1>2, <1>4
<1>7. {j, k} \subseteq LruKeys(LruTrim(m, MaxBytes))
  <2>1. MaxBytes \in Nat /\ m.size[j] + m.size[k] <= MaxBytes
    BY <1>4, <1>6, StoreAssumption
  <2>2. QED  BY <1>4, <1>5, <2>1, NewestTwoSurvive
<1>8. \A x \in LruKeys(l) : x \notin {j, k} => m.size[x] = l.size[x]
  BY <1>1, <1>2, <1>4 DEF Narrowed
<1>9. LruKeys(m) = LruKeys(l) \cup {j, k}
  BY <1>1, <1>2, <1>4
<1>10. Admitted(l, m, {j, k})
  BY <1>4, <1>7, <1>8, <1>9 DEF Admitted
<1>11. QED  BY <1>4, <1>6, <1>10 DEF m, y, z

IsSnapshot(state) == state # NoState => state.size \in Nat /\ state.size # 0

(* A response that starts a chain of its own.                              *)
LEMMA ResponseWrites ==
  ASSUME NEW s, Good(s), Policies(s), NEW p, p.store, p.conversation = NoId,
         p.id \notin DOMAIN s.responses, NEW next, NEW state, IsSnapshot(state),
         ResponseCharge(p, next) \in Nat, ResponseCharge(p, next) <= MaxBytes
  PROVE  Writes(s, Written(s, p, next, state), {ResponseKey(p.id)})
<1> DEFINE t == Written(s, p, next, state)
           R == ResponseKey(p.id)
           b == ResponseCharge(p, next)
           rec == NewResponse(p, next, state)
<1>1. t = WriteResponse(s, p, next, state)
  BY DEF Written
<1>2. /\ t.responses = With(s.responses, p.id, rec) /\ t.conversations = s.conversations
      /\ t.records = LruTouch(s.records, R, b)
      /\ t.snapshots = PutSnapshot(s.snapshots, R, state)
  BY <1>1 DEF WriteResponse, TouchBoth, Good, Shape, Fields, PutSnapshot, NewResponse
<1>3. rec.bytes = b /\ rec.state = state
  BY DEF NewResponse
<1> HIDE DEF t, rec, b
<1>4. Admitted(s.records, t.records, {R}) /\ t.records.size[R] = b
  BY <1>2, RecordAdmitted DEF Policies, b
<1> DEFINE l == s.snapshots
           m == t.snapshots
<1>5. /\ Sound(m)
      /\ \A x \in LruKeys(m) : x # R => x \in LruKeys(l) /\ m.size[x] = l.size[x]
      /\ IF state = NoState THEN m = l ELSE R \in LruKeys(m) /\ m.size[R] = state.size
  BY <1>2, PutSound DEF Policies, IsSnapshot
<1>6. R \notin LruKeys(l)
  BY KeysDistinct DEF Good, AgreeBut, SnapshotKeys, HasSnapshot
<1>7. Attached(l, m, {R})
  BY <1>5, <1>6 DEF Attached, IsSnapshot
<1>8. ChargedKey(t, R, rec)
  BY <1>3, <1>4, <1>5 DEF ChargedKey
<1>9. Rewritten(s, t, {R})
  BY <1>2, <1>8, KeysDistinct DEF Rewritten, With
<1>10. QED  BY <1>4, <1>7, <1>9 DEF Writes, t

(* A turn of a conversation that is not stored as a response.              *)
LEMMA ConversationWrites ==
  ASSUME NEW s, Good(s), Policies(s), NEW p, ~p.store, p.conversation # NoId,
         p.conversation \in DOMAIN s.conversations, NEW next, NEW state, IsSnapshot(state),
         MetadataBytes + Len(next) \in Nat, MetadataBytes + Len(next) <= MaxBytes
  PROVE  Writes(s, Written(s, p, next, state), {ConversationKey(p.conversation)})
<1> DEFINE c == p.conversation
           C == ConversationKey(c)
           b == MetadataBytes + Len(next)
           rec == UpdatedConversation(s, c, next, state)
           s1 == WriteConversation(s, c, next, state)
           t == Written(s, p, next, state)
           l == LruRemove(s.snapshots, C)
<1>1. t = TouchBoth(s1, C, s1.conversations[c].bytes, state)
  BY DEF Written
<1>2. rec.bytes = b /\ rec.state = state
  BY DEF UpdatedConversation, Good, Shape
<1> HIDE DEF rec, b
<1>3. /\ DOMAIN s1 = Fields /\ s1.responses = s.responses
      /\ s1.conversations = With(s.conversations, c, rec)
      /\ s1.records = LruRemove(s.records, C) /\ s1.snapshots = l
  BY DEF WriteConversation, Good, Shape, Fields, rec
<1> HIDE DEF s1, l
<1>4. s1.conversations[c].bytes = b
  BY <1>2, <1>3 DEF With
<1>5. /\ t.responses = s.responses /\ t.conversations = With(s.conversations, c, rec)
      /\ t.records = LruTouch(LruRemove(s.records, C), C, b)
      /\ t.snapshots = PutSnapshot(l, C, state)
  BY <1>1, <1>3, <1>4 DEF TouchBoth, Fields, PutSnapshot
<1> HIDE DEF t
<1>6. Admitted(s.records, t.records, {C}) /\ t.records.size[C] = b
  <2>1. Sound(s.records) /\ Sound(LruRemove(s.records, C))
    BY RemoveSound DEF Policies
  <2>2. Admitted(LruRemove(s.records, C), t.records, {C}) /\ t.records.size[C] = b
    BY <1>5, <2>1, RecordAdmitted DEF b
  <2>3. QED  BY <2>1, <2>2, RemovedThenAdmitted
<1> DEFINE m == t.snapshots
<1>7. Sound(l) /\ Narrowed(s.snapshots, l) /\ LruKeys(l) = LruKeys(s.snapshots) \ {C}
  BY RemoveSound DEF Policies, l
<1>8. /\ Sound(m)
      /\ \A x \in LruKeys(m) : x # C => x \in LruKeys(l) /\ m.size[x] = l.size[x]
      /\ IF state = NoState THEN m = l ELSE C \in LruKeys(m) /\ m.size[C] = state.size
  BY <1>5, <1>7, PutSound DEF IsSnapshot
<1>9. Attached(s.snapshots, m, {C})
  BY <1>7, <1>8 DEF Attached, IsSnapshot, Narrowed
<1>10. ChargedKey(t, C, rec)
  BY <1>2, <1>6, <1>8 DEF ChargedKey
<1>11. Rewritten(s, t, {C})
  BY <1>5, <1>10, KeysDistinct DEF Rewritten, With
<1>12. QED  BY <1>6, <1>9, <1>11 DEF Writes, t

(* A stored turn of a conversation.                                        *)
LEMMA TurnWrites ==
  ASSUME NEW s, Good(s), Policies(s), NEW p, p.store, p.conversation # NoId,
         p.conversation \in DOMAIN s.conversations, p.id \notin DOMAIN s.responses,
         NEW next, NEW state, IsSnapshot(state),
         ResponseCharge(p, next) \in Nat, MetadataBytes + Len(next) \in Nat,
         ResponseCharge(p, next) + (MetadataBytes + Len(next)) <= MaxBytes
  PROVE  Writes(s, Written(s, p, next, state),
                {ResponseKey(p.id), ConversationKey(p.conversation)})
<1> DEFINE c == p.conversation
           C == ConversationKey(c)
           R == ResponseKey(p.id)
           b == MetadataBytes + Len(next)
           a == ResponseCharge(p, next)
           rec == UpdatedConversation(s, c, next, state)
           new == NewResponse(p, next, state)
           s1 == WriteConversation(s, c, next, state)
           s2 == WriteResponse(s1, p, next, state)
           t == Written(s, p, next, state)
           l == LruRemove(s.snapshots, C)
           k == PutSnapshot(l, R, state)
<1>1. t = TouchBoth(s2, C, s2.conversations[c].bytes, state)
  BY DEF Written
<1>2. rec.bytes = b /\ rec.state = state /\ new.bytes = a /\ new.state = state
  BY DEF UpdatedConversation, Good, Shape, NewResponse
<1> HIDE DEF rec, b, a
<1>3. /\ DOMAIN s1 = Fields /\ s1.responses = s.responses
      /\ s1.conversations = With(s.conversations, c, rec)
      /\ s1.records = LruRemove(s.records, C) /\ s1.snapshots = l
  BY DEF WriteConversation, Good, Shape, Fields, rec
<1> HIDE DEF s1
<1>4. /\ DOMAIN s2 = Fields /\ s2.responses = With(s.responses, p.id, new)
      /\ s2.conversations = With(s.conversations, c, rec)
      /\ s2.records = LruTouch(LruRemove(s.records, C), R, a) /\ s2.snapshots = k
  BY <1>3 DEF WriteResponse, TouchBoth, Fields, PutSnapshot, NewResponse, a
<1> HIDE DEF s2, l, k, new
<1>5. s2.conversations[c].bytes = b
  BY <1>2, <1>4 DEF With
<1>6. /\ t.responses = With(s.responses, p.id, new)
      /\ t.conversations = With(s.conversations, c, rec)
      /\ t.records = LruTouch(LruTouch(LruRemove(s.records, C), R, a), C, b)
      /\ t.snapshots = PutSnapshot(k, C, state)
  BY <1>1, <1>4, <1>5 DEF TouchBoth, Fields, PutSnapshot
<1> HIDE DEF t
<1>7. R # C
  BY KeysDistinct
<1> HIDE DEF R, C
<1>8. Admitted(s.records, t.records, {R, C}) /\ t.records.size[R] = a /\ t.records.size[C] = b
  <2>1. Sound(s.records) /\ a \in Nat /\ b \in Nat /\ a + b <= MaxBytes
    BY DEF Policies, a, b
  <2> DEFINE x == s.records
             y == LruTouch(LruTouch(LruRemove(x, C), R, a), C, b)
  <2>2. Sound(x)
    BY <2>1
  <2> HIDE DEF x
  <2>3. Admitted(x, y, {R, C}) /\ y.size[R] = a /\ y.size[C] = b
    BY <1>7, <2>1, <2>2, TwoRecordsAdmitted
  <2>4. QED  BY <1>6, <2>3 DEF x
<1> DEFINE m == t.snapshots
<1>9. Sound(l) /\ Narrowed(s.snapshots, l) /\ LruKeys(l) = LruKeys(s.snapshots) \ {C}
  BY RemoveSound DEF Policies, l
<1>10. R \notin LruKeys(l)
  BY <1>9, KeysDistinct DEF Good, AgreeBut, SnapshotKeys, HasSnapshot, R
<1>11. /\ Sound(k)
       /\ \A x \in LruKeys(k) : x # R => x \in LruKeys(l) /\ k.size[x] = l.size[x]
       /\ IF state = NoState THEN k = l ELSE R \in LruKeys(k) /\ k.size[R] = state.size
  BY <1>9, PutSound DEF IsSnapshot, k
<1>12. /\ Sound(m)
       /\ \A x \in LruKeys(m) : x # C => x \in LruKeys(k) /\ m.size[x] = k.size[x]
       /\ \A x \in LruKeys(k) : x # C => x \in LruKeys(m)
       /\ IF state = NoState THEN m = k ELSE C \in LruKeys(m) /\ m.size[C] = state.size
  BY <1>6, <1>11, PutSound DEF IsSnapshot
<1>13. Attached(s.snapshots, m, {R, C})
  <2>1. ASSUME NEW x \in LruKeys(m), x \notin {R, C}
        PROVE  x \in LruKeys(s.snapshots) /\ m.size[x] = s.snapshots.size[x]
    BY <1>9, <1>11, <1>12, <2>1 DEF Narrowed
  <2>2. ASSUME NEW x \in LruKeys(m), x \in {R, C}
        PROVE  m.size[x] # 0
    BY <1>7, <1>9, <1>10, <1>11, <1>12, <2>2 DEF IsSnapshot
  <2>3. QED  BY <1>12, <2>1, <2>2 DEF Attached
<1>14. state # NoState => m.size[R] = state.size /\ m.size[C] = state.size
  BY <1>7, <1>11, <1>12
<1>15. ChargedKey(t, R, new) /\ ChargedKey(t, C, rec)
  BY <1>2, <1>8, <1>14 DEF ChargedKey
<1>16. Rewritten(s, t, {R, C})
  BY <1>6, <1>15, KeysDistinct DEF Rewritten, With, R, C
<1>17. QED  BY <1>8, <1>13, <1>16 DEF Writes, t, R, C

(* commit's size check admits what it writes.                              *)
LEMMA CommitWrites ==
  ASSUME NEW s, Good(s), Policies(s), NEW p \in Requests, p.store \/ p.conversation # NoId,
         p.id \notin DOMAIN s.responses,
         p.conversation = NoId \/ p.conversation \in DOMAIN s.conversations,
         NEW next, Len(next) \in Nat, NEW state, IsSnapshot(state),
         RequiredBytes(p, next) <= MaxBytes
  PROVE  \E W : /\ Writes(s, Written(s, p, next, state), W)
                /\ p.store => ResponseKey(p.id) \in W
                /\ p.conversation # NoId => ConversationKey(p.conversation) \in W
<1> DEFINE a == ResponseCharge(p, next)
           b == MetadataBytes + Len(next)
<1>1. /\ MetadataBytes \in Nat /\ ResponseBytes \in Nat /\ MaxBytes \in Nat
      /\ Len(p.history) \in Nat /\ p.store \in BOOLEAN
  BY StoreAssumption DEF Requests
<1>2. a \in Nat /\ b \in Nat
  BY <1>1 DEF ResponseCharge
<1>3. (IF p.store THEN a ELSE 0) + (IF p.conversation # NoId THEN b ELSE 0) <= MaxBytes
  BY DEF RequiredBytes
<1> HIDE DEF a, b
<1>4. CASE p.store /\ p.conversation = NoId
  <2>1. a <= MaxBytes
    BY <1>1, <1>2, <1>3, <1>4
  <2>2. Writes(s, Written(s, p, next, state), {ResponseKey(p.id)})
    BY <1>2, <1>4, <2>1, ResponseWrites DEF a
  <2>3. QED  BY <1>4, <2>2
<1>5. CASE ~p.store /\ p.conversation # NoId
  <2>1. b <= MaxBytes
    BY <1>1, <1>2, <1>3, <1>5
  <2>2. Writes(s, Written(s, p, next, state), {ConversationKey(p.conversation)})
    BY <1>2, <1>5, <2>1, ConversationWrites DEF b
  <2>3. QED  BY <1>5, <2>2
<1>6. CASE p.store /\ p.conversation # NoId
  <2>1. a + b <= MaxBytes
    BY <1>1, <1>2, <1>3, <1>6
  <2>2. Writes(s, Written(s, p, next, state),
               {ResponseKey(p.id), ConversationKey(p.conversation)})
    BY <1>2, <1>6, <2>1, TurnWrites DEF a, b
  <2>3. QED  BY <2>2
<1>7. QED  BY <1>1, <1>4, <1>5, <1>6

(* The bytes of lost records, as RecordsLostOnlyWhenDue counts them.       *)
LostBytes(l, K) == MapThenSumSet(LAMBDA k : l.size[k], K)

LEMMA LostBytesIsWeight ==
  \A l, K : LostBytes(l, K) = Sums!Weigh(l.size, K)
BY Zenon DEF LostBytes, Sums!Weigh, MapThenSumSet, MapThenFoldSet,
             Sums!MapThenSumSet, Sums!MapThenFoldSet

(* Writing and then enforcing the budget: what was written stays, the      *)
(* budget holds, and records go only when they alone exceed it.            *)
LEMMA EnforceAfterWrites ==
  ASSUME NEW s, NEW t, NEW W, Good(s), Good(t), Policies(s), Charged(s), StoreTyped(t),
         Writes(s, t, W)
  PROVE  LET u    == EnforceBudget(t)
             lost == LruKeys(s.records) \ LruKeys(u.records)
         IN  /\ Good(u) /\ Policies(u) /\ Charged(u) /\ Total(u) <= MaxBytes
             /\ W \subseteq LruKeys(u.records)
             /\ lost # {} =>
                  /\ LruKeys(u.snapshots) = {}
                  /\ Resident(u.records) + LostBytes(s.records, lost) > MaxBytes
<1> DEFINE u == EnforceBudget(t)
           lost == LruKeys(s.records) \ LruKeys(u.records)
<1>1. Policies(t) /\ Charged(t)
  BY WritesCharged
<1>2. /\ Cut(t, u) /\ Total(u) <= MaxBytes
      /\ LruKeys(u.records) = LruKeys(LruTrim(t.records, MaxBytes))
      /\ LruKeys(u.records) # LruKeys(t.records) =>
           LruKeys(u.snapshots) = {} /\ Resident(t.records) > MaxBytes
  BY <1>1, EnforceBudgetFits
<1>3. Good(u)
  BY EnforceBudgetGood
<1> HIDE DEF u
<1>4. Policies(u) /\ Charged(u)
  BY <1>1, <1>2, <1>3, CutKeepsCharges
<1>5. /\ W \subseteq LruKeys(u.records) /\ LruKeys(t.records) = LruKeys(s.records) \cup W
      /\ \A k \in LruKeys(s.records) : k \notin W => t.records.size[k] = s.records.size[k]
  BY <1>2 DEF Writes, Admitted
<1>6. lost = LruKeys(t.records) \ LruKeys(u.records)
  BY <1>5
<1>7. ASSUME lost # {}
      PROVE  /\ LruKeys(u.snapshots) = {}
             /\ Resident(u.records) + LostBytes(s.records, lost) > MaxBytes
  <2>1. LruKeys(u.snapshots) = {} /\ Resident(t.records) > MaxBytes
    BY <1>2, <1>6, <1>7
  <2> DEFINE v == t.records.size
             w == s.records.size
  <2>2. /\ Resident(t.records) = Resident(u.records) + Sums!Weigh(v, lost)
    BY <1>1, <1>2, <1>6, NarrowedWeighsLess DEF Policies, Cut
  <2>3. IsFiniteSet(LruKeys(s.records))
    BY ListsCounted DEF Policies, Sound
  <2>4. IsFiniteSet(lost) /\ \A k \in lost : v[k] = w[k]
    BY <1>5, <2>3, FS_Subset
  <2> HIDE DEF lost, v, w
  <2>5. Sums!Weigh(v, lost) = Sums!Weigh(w, lost)
    BY <2>4, SumsAssumption, SameFinite, Sums!WeighSame
  <2>6. LostBytes(s.records, lost) = Sums!Weigh(v, lost)
    BY <2>5, LostBytesIsWeight DEF w
  <2>7. QED  BY <2>1, <2>2, <2>6
<1>8. QED  BY <1>2, <1>3, <1>4, <1>5, <1>7 DEF u

-----------------------------------------------------------------------------
(* The request in hand has its conversation: nothing deletes it meanwhile. *)
PendingConversation ==
  \/ pending = Idle \/ pending.conversation = NoId
  \/ pending.conversation \in DOMAIN store.conversations

ChargeInv ==
  /\ Policies(store) /\ Charged(store) /\ Total(store) <= MaxBytes
  /\ PendingConversation /\ CommitSurvivesItself

Expired == {r \in DOMAIN store.responses : store.responses[r].expires_at <= now}

LossDue ==
  \/ \A k \in LostKeys :
       \E r \in DOMAIN store.responses :
         k = ResponseKey(r) /\ store.responses[r].expires_at <= now
  \/ /\ reply'.call = "delete" /\ reply'.outcome = "ok"
     /\ LostKeys = {<<reply'.kind, reply'.id>>}
  \/ /\ reply'.call \in {"commit", "create"} /\ reply'.outcome = "ok"
     /\ LruKeys(store'.snapshots) = {}
     /\ Resident(store'.records) + LostBytes(store.records, LostKeys) > MaxBytes

LEMMA NothingLostIsDue ==
  ASSUME LruKeys(store.records) \subseteq LruKeys(store'.records)
  PROVE  LossDue
BY DEF LossDue, LostKeys

(* Calls that only drop or refresh keys.                                   *)
LEMMA QuietCallKeepsCharges ==
  ASSUME StoreInv, ContentInv, ChargeInv, Good(store'), Cut(store, store'),
         PendingConversation', CommitSurvivesItself'
  PROVE  ChargeInv'
<1>1. /\ Policies(store') /\ Charged(store')
      /\ Total(store') \in Nat /\ Total(store) \in Nat /\ Total(store') <= Total(store)
  BY CutKeepsCharges DEF ChargeInv, ContentInv, Contents
<1>2. MaxBytes \in Nat
  BY StoreAssumption
<1>3. Total(store') <= MaxBytes
  BY <1>1, <1>2 DEF ChargeInv
<1>4. QED  BY <1>1, <1>3 DEF ChargeInv

LEMMA PruneCharged ==
  ASSUME StoreInv, ContentInv, ChargeInv
  PROVE  LET s == PruneExpired(store)
         IN  /\ Good(s) /\ Policies(s) /\ Charged(s) /\ StoreTyped(s) /\ Cut(store, s)
             /\ Total(s) \in Nat /\ Total(s) <= MaxBytes
             /\ LruKeys(s.records) = LruKeys(store.records) \ {ResponseKey(r) : r \in Expired}
<1> DEFINE s == PruneExpired(store)
<1>1. Good(s)
  BY PruneGood DEF StoreInv
<1>2. Cut(store, s)
  BY RemoveResponsesCut DEF PruneExpired, StoreInv, Good, ChargeInv
<1>3. LruKeys(s.records) = LruKeys(store.records) \ {ResponseKey(r) : r \in Expired}
  <2>1. s.records = DropKeys(store.records, {ResponseKey(r) : r \in Expired})
    BY DEF PruneExpired, RemoveResponses, StoreInv, Good, Shape, Fields, Expired
  <2>2. QED  BY <2>1, KeysAfterDrop
<1> HIDE DEF s
<1>4. /\ Policies(s) /\ Charged(s)
      /\ Total(s) \in Nat /\ Total(store) \in Nat /\ Total(s) <= Total(store)
  BY <1>1, <1>2, CutKeepsCharges DEF ChargeInv, ContentInv, Contents
<1>5. MaxBytes \in Nat /\ next_conversation \in Nat
  BY StoreAssumption DEF ContentInv, CountersTyped
<1>6. Total(s) <= MaxBytes
  BY <1>4, <1>5 DEF ChargeInv
<1>7. StoreTyped(s)
  BY <1>2, <1>5, ShrunkKeepsContents DEF Cut, ContentInv, Contents
<1>8. QED  BY <1>1, <1>2, <1>3, <1>4, <1>6, <1>7 DEF s


(* Calls that prune the expired responses and refresh at most one record.  *)
LEMMA PrunedCallKeepsCharges ==
  ASSUME StoreInv, ContentInv, ChargeInv, Good(store'), Cut(PruneExpired(store), store'),
         LruKeys(PruneExpired(store).records) \subseteq LruKeys(store'.records),
         PendingConversation', CommitSurvivesItself'
  PROVE  ChargeInv' /\ LossDue
<1> DEFINE s == PruneExpired(store)
<1>1. /\ Policies(s) /\ Charged(s) /\ StoreTyped(s)
      /\ Total(s) \in Nat /\ Total(s) <= MaxBytes
      /\ LruKeys(s.records) = LruKeys(store.records) \ {ResponseKey(r) : r \in Expired}
  BY PruneCharged
<1> HIDE DEF s
<1>2. Cut(s, store') /\ LruKeys(s.records) \subseteq LruKeys(store'.records)
  BY DEF s
<1>3. /\ Policies(store') /\ Charged(store')
      /\ Total(store') \in Nat /\ Total(store') <= Total(s)
  BY <1>1, <1>2, CutKeepsCharges
<1>4. MaxBytes \in Nat
  BY StoreAssumption
<1>5. Total(store') <= MaxBytes
  BY <1>1, <1>3, <1>4
<1>6. ChargeInv'
  BY <1>3, <1>5 DEF ChargeInv
<1>7. \A k \in LostKeys : \E r \in DOMAIN store.responses :
        k = ResponseKey(r) /\ store.responses[r].expires_at <= now
  BY <1>1, <1>2 DEF LostKeys, Expired
<1>8. LossDue
  BY <1>7 DEF LossDue
<1>9. QED  BY <1>6, <1>8

LEMMA SameStoreIsCut ==
  ASSUME NEW s, Policies(s)
  PROVE  Cut(s, s)
BY SameMapsShrunk, SameIsNarrowed DEF Cut, Policies

(* The replies of the other calls are not commit's errors.                 *)
LEMMA OrdinaryReply ==
  ASSUME NEW call \in {"none", "resolve", "get", "input_items", "delete"},
         NEW kind, NEW id,
         NEW outcome \in {"none", "ok", "invalid", "not_found", "too_long"},
         reply' = Reply(call, kind, id, outcome)
  PROVE  CommitSurvivesItself'
BY DEF CommitSurvivesItself, Reply

LEMMA ResolveKeepsCharges ==
  ASSUME StoreInv, ContentInv, ChargeInv, StoreInv',
         NEW prev, NEW conv, NEW n, NEW storing, Resolve(prev, conv, n, storing)
  PROVE  ChargeInv' /\ LossDue
<1> DEFINE s     == PruneExpired(store)
           rec   == IF prev # NoId THEN s.responses[prev] ELSE s.conversations[conv]
           key   == IF prev # NoId THEN ResponseKey(prev) ELSE ConversationKey(conv)
           id    == IF prev # NoId THEN prev ELSE conv
           kind  == IF prev # NoId THEN "response" ELSE "conversation"
           found == \/ prev # NoId /\ prev \in DOMAIN s.responses
                    \/ prev = NoId /\ conv \in DOMAIN s.conversations
           both  == prev # NoId /\ conv # NoId
           fresh == id = NoId
<1>1. /\ Good(s) /\ Policies(s) /\ Charged(s)
  BY PruneCharged
<1>2. /\ \E o \in {"invalid", "not_found", "ok"} : reply' = Reply("resolve", kind, id, o)
      /\ \/ store' = s /\ pending' = Idle
         \/ /\ ~both /\ (fresh \/ found)
            /\ store' = IF fresh THEN s ELSE TouchContext(s, key, rec)
            /\ \/ pending' = Idle
               \/ \E h, r : pending' = [phase |-> "resolved", id |-> NoId, history |-> h,
                                        conversation |-> conv, store |-> storing, resume |-> r]
  BY Zenon DEF Resolve
<1>3. CommitSurvivesItself'
  <2>1. PICK o \in {"invalid", "not_found", "ok"} : reply' = Reply("resolve", kind, id, o)
    BY <1>2
  <2> HIDE DEF kind, id
  <2>2. QED  BY <2>1, OrdinaryReply
<1> HIDE DEF s
<1>4. found => Cut(s, TouchContext(s, key, rec))
  <2> SUFFICES ASSUME found PROVE Cut(s, TouchContext(s, key, rec))
    OBVIOUS
  <2>1. key \in LruKeys(s.records)
    BY <1>1 DEF Good, AgreeBut, RecordKeys
  <2>2. rec.state # NoState => key \in LruKeys(s.snapshots)
    BY <1>1 DEF Good, AgreeBut, SnapshotKeys, HasSnapshot
  <2>3. ChargedKey(s, key, rec)
    BY <1>1 DEF Charged
  <2> HIDE DEF key, rec, found
  <2>4. QED  BY <1>1, <2>1, <2>2, <2>3, TouchContextCut
<1>5. Cut(s, s)
  BY <1>1, SameStoreIsCut
<1>6. store' = s \/ (found /\ store' = TouchContext(s, key, rec))
  <2> HIDE DEF found, fresh, both, key, rec
  <2> QED  BY <1>2
<1>7. /\ LruKeys(s.records) \subseteq LruKeys(store'.records)
      /\ store'.conversations = s.conversations
  <2>1. CASE store' = s
    BY <2>1
  <2>2. CASE store' = TouchContext(s, key, rec)
    <3> HIDE DEF key, rec
    <3>1. /\ store'.conversations = s.conversations
          /\ store'.records = LruTouch(s.records, key, rec.bytes)
      BY <1>1, <2>2 DEF TouchContext, Good, Shape, Fields
    <3>2. QED  BY <3>1, KeysAfterTouch
  <2>3. QED  BY <1>6, <2>1, <2>2
<1>8. PendingConversation'
  <2>1. CASE pending' = Idle
    BY <2>1 DEF PendingConversation
  <2>2. CASE pending' # Idle
    <3>1. /\ ~both /\ (fresh \/ found)
          /\ \E h, r : pending' = [phase |-> "resolved", id |-> NoId, history |-> h,
                                   conversation |-> conv, store |-> storing, resume |-> r]
      <4> HIDE DEF found, fresh, both, key, rec
      <4> QED  BY <1>2, <2>2
    <3>2. pending'.conversation = conv
      BY <3>1
    <3>3. conv # NoId => conv \in DOMAIN s.conversations
      BY <3>1
    <3>4. QED  BY <1>7, <3>2, <3>3 DEF PendingConversation
  <2>3. QED  BY <2>1, <2>2
<1>9. Good(store') /\ Cut(s, store')
  <2> HIDE DEF found, key, rec
  <2> QED  BY <1>4, <1>5, <1>6 DEF StoreInv
<1>10. QED  BY <1>3, <1>7, <1>8, <1>9, PrunedCallKeepsCharges DEF s

LEMMA ReadKeepsCharges ==
  ASSUME StoreInv, ContentInv, ChargeInv, StoreInv',
         NEW id, NEW call \in {"get", "input_items"}, NEW ok, ReadResponse(id, call, ok)
  PROVE  ChargeInv' /\ LossDue
<1> DEFINE s == PruneExpired(store)
           k == ResponseKey(id)
           t == [s EXCEPT !.records = LruTouch(@, k, s.responses[id].bytes)]
<1>1. /\ Good(s) /\ Policies(s) /\ Charged(s) /\ s.conversations = store.conversations
  BY PruneCharged, PruneGood DEF StoreInv
<1>2. /\ \E o \in {"invalid", "not_found", "ok"} : reply' = Reply(call, "response", id, o)
      /\ pending = Idle /\ pending' = pending
      /\ store' = s \/ (id \in DOMAIN s.responses /\ store' = t)
  BY Zenon DEF ReadResponse
<1>3. CommitSurvivesItself'
  BY <1>2, OrdinaryReply
<1>4. PendingConversation'
  BY <1>2 DEF PendingConversation
<1> HIDE DEF s
<1>5. Cut(s, s)
  BY <1>1, SameStoreIsCut
<1>6. id \in DOMAIN s.responses =>
        Cut(s, t) /\ LruKeys(s.records) \subseteq LruKeys(t.records)
  <2> SUFFICES ASSUME id \in DOMAIN s.responses
               PROVE  Cut(s, t) /\ LruKeys(s.records) \subseteq LruKeys(t.records)
    OBVIOUS
  <2>1. k \in LruKeys(s.records) /\ s.responses[id].bytes = s.records.size[k]
    BY <1>1 DEF Good, AgreeBut, RecordKeys, Charged, ChargedKey
  <2>2. t.records = LruTouch(s.records, k, s.responses[id].bytes)
    BY <1>1 DEF Good, Shape, Fields
  <2>3. Cut(s, t)
    BY <1>1, <2>1, TouchRecordCut DEF Good
  <2> HIDE DEF t
  <2>4. QED  BY <2>2, <2>3, KeysAfterTouch
<1> HIDE DEF t
<1>7. Good(store') /\ Cut(s, store') /\ LruKeys(s.records) \subseteq LruKeys(store'.records)
  BY <1>2, <1>5, <1>6 DEF StoreInv
<1>8. QED  BY <1>3, <1>4, <1>7, PrunedCallKeepsCharges DEF s

(* Calls that leave the store alone.                                       *)
LEMMA SameStoreKeepsCharges ==
  ASSUME StoreInv, ContentInv, ChargeInv, store' = store,
         PendingConversation', CommitSurvivesItself'
  PROVE  ChargeInv' /\ LossDue
<1>1. ChargeInv'
  BY DEF ChargeInv, Policies, Charged, ChargedKey, Total
<1>2. QED  BY <1>1, NothingLostIsDue

LEMMA BeginKeepsCharges ==
  ASSUME StoreInv, ContentInv, ChargeInv, BeginGeneration
  PROVE  ChargeInv' /\ LossDue
<1>1. /\ store' = store /\ reply' = NoReply /\ pending # Idle
      /\ pending' = [pending EXCEPT !.phase = "generating", !.id = next_response]
  BY DEF BeginGeneration, Idle
<1>2. pending'.conversation = pending.conversation
  BY <1>1 DEF ContentInv, PendingSound, Requests
<1>3. PendingConversation'
  BY <1>1, <1>2 DEF ChargeInv, PendingConversation
<1>4. CommitSurvivesItself'
  BY <1>1 DEF CommitSurvivesItself, NoReply
<1>5. QED  BY <1>1, <1>3, <1>4, SameStoreKeepsCharges

LEMMA AbandonKeepsCharges ==
  ASSUME StoreInv, ContentInv, ChargeInv, Abandon
  PROVE  ChargeInv' /\ LossDue
<1>1. store' = store /\ reply' = NoReply /\ pending' = Idle
  BY DEF Abandon
<1>2. PendingConversation' /\ CommitSurvivesItself'
  BY <1>1 DEF PendingConversation, CommitSurvivesItself, NoReply
<1>3. QED  BY <1>1, <1>2, SameStoreKeepsCharges

LEMMA TickKeepsCharges ==
  ASSUME StoreInv, ContentInv, ChargeInv, Tick
  PROVE  ChargeInv' /\ LossDue
<1>1. store' = store /\ reply' = NoReply /\ pending' = pending
  BY DEF Tick
<1>2. PendingConversation' /\ CommitSurvivesItself'
  BY <1>1 DEF ChargeInv, PendingConversation, CommitSurvivesItself, NoReply
<1>3. QED  BY <1>1, <1>2, SameStoreKeepsCharges

LEMMA DeleteResponseKeepsCharges ==
  ASSUME StoreInv, ContentInv, ChargeInv, StoreInv', NEW id, DeleteResponse(id)
  PROVE  ChargeInv' /\ LossDue
<1>1. pending = Idle /\ pending' = pending
  BY DEF DeleteResponse
<1>2. PendingConversation'
  BY <1>1 DEF PendingConversation
<1>3. CASE id \in DOMAIN store.responses
  <2>1. /\ store' = RemoveResponses(store, {id})
        /\ reply' = Reply("delete", "response", id, "ok")
    BY <1>3 DEF DeleteResponse
  <2>2. CommitSurvivesItself'
    BY <2>1, OrdinaryReply
  <2>3. Cut(store, store')
    BY <2>1, RemoveResponsesCut DEF StoreInv, Good, ChargeInv
  <2>4. ChargeInv'
    BY <1>2, <2>2, <2>3, QuietCallKeepsCharges DEF StoreInv
  <2>5. store'.records = DropKeys(store.records, {ResponseKey(r) : r \in {id}})
    BY <2>1 DEF RemoveResponses, StoreInv, Good, Shape, Fields
  <2>6. LruKeys(store'.records) = LruKeys(store.records) \ {ResponseKey(id)}
    <3>1. {ResponseKey(r) : r \in {id}} = {ResponseKey(id)}
      OBVIOUS
    <3>2. QED  BY <2>5, <3>1, KeysAfterDrop
  <2>7. ResponseKey(id) \in LruKeys(store.records)
    BY <1>3 DEF StoreInv, Good, AgreeBut, RecordKeys
  <2>8. LostKeys = {<<reply'.kind, reply'.id>>} /\ reply'.call = "delete" /\ reply'.outcome = "ok"
    BY <2>1, <2>6, <2>7 DEF LostKeys, Reply, ResponseKey
  <2>9. QED  BY <2>4, <2>8 DEF LossDue
<1>4. CASE id \notin DOMAIN store.responses
  <2>1. store' = store /\ reply' = Reply("delete", "response", id, "not_found")
    BY <1>4 DEF DeleteResponse
  <2>2. CommitSurvivesItself'
    BY <2>1, OrdinaryReply
  <2>3. QED  BY <1>2, <2>1, <2>2, SameStoreKeepsCharges
<1>5. QED  BY <1>3, <1>4

LEMMA DeleteConversationKeepsCharges ==
  ASSUME StoreInv, ContentInv, ChargeInv, StoreInv', NEW id, DeleteConversation(id)
  PROVE  ChargeInv' /\ LossDue
<1>1. pending = Idle /\ pending' = pending
  BY DEF DeleteConversation
<1>2. PendingConversation'
  BY <1>1 DEF PendingConversation
<1>3. CASE id \in DOMAIN store.conversations
  <2> DEFINE k == ConversationKey(id)
  <2>1. /\ store' = [store EXCEPT !.conversations = Without(@, {id}),
                                  !.records = LruRemove(@, k),
                                  !.snapshots = LruRemove(@, k)]
        /\ reply' = Reply("delete", "conversation", id, "ok")
    BY <1>3 DEF DeleteConversation
  <2>2. CommitSurvivesItself'
    BY <2>1, OrdinaryReply
  <2>3. Cut(store, store')
    BY <2>1, DeleteConversationCut DEF StoreInv, Good, ChargeInv
  <2>4. ChargeInv'
    BY <1>2, <2>2, <2>3, QuietCallKeepsCharges DEF StoreInv
  <2>5. store'.records = LruRemove(store.records, k)
    BY <2>1 DEF StoreInv, Good, Shape, Fields
  <2>6. LruKeys(store'.records) = LruKeys(store.records) \ {k}
    BY <2>5, KeysAfterRemove
  <2>7. k \in LruKeys(store.records)
    BY <1>3 DEF StoreInv, Good, AgreeBut, RecordKeys
  <2>8. LostKeys = {<<reply'.kind, reply'.id>>} /\ reply'.call = "delete" /\ reply'.outcome = "ok"
    BY <2>1, <2>6, <2>7 DEF LostKeys, Reply, ConversationKey
  <2>9. QED  BY <2>4, <2>8 DEF LossDue
<1>4. CASE id \notin DOMAIN store.conversations
  <2>1. store' = store /\ reply' = Reply("delete", "conversation", id, "not_found")
    BY <1>4 DEF DeleteConversation
  <2>2. CommitSurvivesItself'
    BY <2>1, OrdinaryReply
  <2>3. QED  BY <1>2, <2>1, <2>2, SameStoreKeepsCharges
<1>5. QED  BY <1>3, <1>4

LEMMA GetConversationKeepsCharges ==
  ASSUME StoreInv, ContentInv, ChargeInv, StoreInv', NEW id, GetConversation(id)
  PROVE  ChargeInv' /\ LossDue
<1>1. pending = Idle /\ pending' = pending
  BY DEF GetConversation
<1>2. PendingConversation'
  BY <1>1 DEF PendingConversation
<1>3. CASE id \in DOMAIN store.conversations
  <2> DEFINE k == ConversationKey(id)
             b == store.conversations[id].bytes
  <2>1. /\ store' = [store EXCEPT !.records = LruTouch(@, k, b)]
        /\ reply' = Reply("get", "conversation", id, "ok")
    BY <1>3 DEF GetConversation
  <2>2. CommitSurvivesItself'
    BY <2>1, OrdinaryReply
  <2>3. k \in LruKeys(store.records) /\ b = store.records.size[k]
    BY <1>3 DEF StoreInv, Good, AgreeBut, RecordKeys, ChargeInv, Charged, ChargedKey
  <2> HIDE DEF k, b
  <2>4. Cut(store, store')
    BY <2>1, <2>3, TouchRecordCut DEF StoreInv, Good, ChargeInv
  <2>5. ChargeInv'
    BY <1>2, <2>2, <2>4, QuietCallKeepsCharges DEF StoreInv
  <2>6. store'.records = LruTouch(store.records, k, b)
    BY <2>1 DEF StoreInv, Good, Shape, Fields
  <2>7. LruKeys(store.records) \subseteq LruKeys(store'.records)
    BY <2>6, KeysAfterTouch
  <2>8. QED  BY <2>5, <2>7, NothingLostIsDue
<1>4. CASE id \notin DOMAIN store.conversations
  <2>1. store' = store /\ reply' = Reply("get", "conversation", id, "not_found")
    BY <1>4 DEF GetConversation
  <2>2. CommitSurvivesItself'
    BY <2>1, OrdinaryReply
  <2>3. QED  BY <1>2, <2>1, <2>2, SameStoreKeepsCharges
<1>5. QED  BY <1>3, <1>4


(* A call that writes and then enforces the budget.                        *)
LEMMA WritingCallKeepsCharges ==
  ASSUME StoreInv, ContentInv, ChargeInv, NEW t, NEW W, Good(t), StoreTyped(t),
         Writes(store, t, W), store' = EnforceBudget(t), pending' = Idle,
         reply'.call \in {"commit", "create"}, reply'.outcome = "ok"
  PROVE  ChargeInv' /\ LossDue
<1> DEFINE u == EnforceBudget(t)
           lost == LruKeys(store.records) \ LruKeys(u.records)
<1>1. /\ Policies(u) /\ Charged(u) /\ Total(u) <= MaxBytes
      /\ lost # {} =>
           /\ LruKeys(u.snapshots) = {}
           /\ Resident(u.records) + LostBytes(store.records, lost) > MaxBytes
  BY EnforceAfterWrites DEF StoreInv, ChargeInv
<1> HIDE DEF u
<1>2. store' = u
  BY DEF u
<1>3. PendingConversation'
  BY DEF PendingConversation
<1>4. CommitSurvivesItself'
  BY DEF CommitSurvivesItself
<1>5. Policies(store') /\ Charged(store') /\ Total(store') <= MaxBytes
  BY <1>1, <1>2
<1>6. ChargeInv'
  BY <1>3, <1>4, <1>5 DEF ChargeInv
<1>7. LostKeys = lost
  BY <1>2 DEF LostKeys
<1>8. LossDue
  <2>1. CASE lost = {}
    BY <1>7, <2>1 DEF LossDue
  <2>2. CASE lost # {}
    <3> HIDE DEF lost
    <3>1. /\ LruKeys(store'.snapshots) = {}
          /\ Resident(store'.records) + LostBytes(store.records, LostKeys) > MaxBytes
      BY <1>1, <1>2, <1>7, <2>2
    <3>2. QED  BY <3>1 DEF LossDue
  <2>3. QED  BY <2>1, <2>2
<1>9. QED  BY <1>6, <1>8

(* What was written is still there after the eviction pass.                *)
LEMMA WrittenSurvives ==
  ASSUME NEW s, NEW t, NEW W, Good(s), Good(t), Policies(s), Charged(s), StoreTyped(t),
         Writes(s, t, W)
  PROVE  /\ \A r : ResponseKey(r) \in W => r \in DOMAIN EnforceBudget(t).responses
         /\ \A c : ConversationKey(c) \in W => c \in DOMAIN EnforceBudget(t).conversations
<1> DEFINE u == EnforceBudget(t)
<1>1. Good(u) /\ W \subseteq LruKeys(u.records)
  BY EnforceAfterWrites
<1> HIDE DEF u
<1>2. W \subseteq RecordKeys(u)
  BY <1>1 DEF Good, AgreeBut
<1>3. QED  BY <1>2, KeysDistinct DEF RecordKeys, u

LEMMA FinishKeepsCharges ==
  ASSUME StoreInv, ContentInv, ChargeInv, pending.phase = "generating",
         NEW state \in Snapshots(Append(pending.history, pending.id)), NEW estimate,
         FinishGeneration(state, estimate)
  PROVE  ChargeInv' /\ LossDue
<1> DEFINE p == pending
           next == Append(p.history, p.id)
           after == Committed(store, p, next, state)
           t == Written(store, p, next, state)
<1>1. /\ p \in Requests /\ Len(p.history) <= MaxItems /\ p.id \in ResponseIds
      /\ p.conversation < next_conversation
      /\ p.conversation \in DOMAIN store.conversations =>
           SX!IsPrefix(store.conversations[p.conversation].history, p.history)
  BY DEF ContentInv, PendingSound, Idle
<1>2. p.conversation = NoId \/ p.conversation \in DOMAIN store.conversations
  BY DEF ChargeInv, PendingConversation, Idle
<1>3. p.id # NoId
  BY <1>1, StoreAssumption DEF ResponseIds, NoId
<1>4. /\ pending' = Idle
      /\ \/ store' = store /\ reply' = Reply("commit", "response", p.id, "ok")
         \/ /\ store' = store /\ Refusal(store, p, next) # "none"
            /\ reply' = Reply("commit", "response", p.id, Refusal(store, p, next))
         \/ /\ p.store \/ p.conversation # NoId
            /\ Refusal(store, p, next) = "none" /\ store' = after
            /\ reply' = Reply("commit", "response", p.id, Survived(p, after))
  BY Zenon DEF FinishGeneration
<1>5. PendingConversation'
  BY <1>4 DEF PendingConversation
<1>6. CASE store' = store /\ reply' = Reply("commit", "response", p.id, "ok")
  <2>1. CommitSurvivesItself'
    BY <1>6 DEF CommitSurvivesItself, Reply
  <2>2. QED  BY <1>5, <1>6, <2>1, SameStoreKeepsCharges
<1>7. CASE /\ store' = store /\ Refusal(store, p, next) # "none"
           /\ reply' = Reply("commit", "response", p.id, Refusal(store, p, next))
  <2>1. Refusal(store, p, next) = "too_long"
    BY <1>2, <1>3, <1>7 DEF Refusal
  <2>2. CommitSurvivesItself'
    BY <1>7, <2>1 DEF CommitSurvivesItself, Reply
  <2>3. QED  BY <1>5, <1>7, <2>2, SameStoreKeepsCharges
<1>8. CASE /\ p.store \/ p.conversation # NoId
           /\ Refusal(store, p, next) = "none" /\ store' = after
           /\ reply' = Reply("commit", "response", p.id, Survived(p, after))
  <2>1. p.id \notin DOMAIN store.responses
    BY DEF StoreInv, IdsFresh
  <2>2. IsItems(p.history) /\ p.id \in Items
    BY <1>1 DEF Requests, IsItems, Items
  <2>3. /\ IsItems(next) /\ SX!IsPrefix(p.history, next) /\ Len(next) <= MaxItems + 1
        /\ Len(next) \in Nat
    <3>1. /\ IsItems(next) /\ SX!IsPrefix(p.history, next)
          /\ Len(next) = Len(p.history) + 1
      BY <2>2, PrefixOfAppend
    <3>2. Len(p.history) \in Nat
      BY <2>2 DEF IsItems
    <3>3. QED  BY <1>1, <3>1, <3>2, StoreAssumption
  <2>4. next \in Histories
    BY <2>3, HistoriesAreItems
  <2>5. state \in States /\ (state # NoState => state.covers = next) /\ IsSnapshot(state)
    <3>1. SnapshotBytes \subseteq Nat \ {0}
      BY StoreAssumption
    <3>2. QED  BY <2>4, <3>1, NoStateTyped DEF Snapshots, States, IsSnapshot
  <2>6. p.conversation \in DOMAIN store.conversations =>
          SX!IsPrefix(store.conversations[p.conversation].history, next)
    <3> SUFFICES ASSUME p.conversation \in DOMAIN store.conversations
                 PROVE  SX!IsPrefix(store.conversations[p.conversation].history, next)
      OBVIOUS
    <3>1. store.conversations[p.conversation].history \in Histories
      BY DEF ContentInv, Contents, StoreTyped, ConversationRecord
    <3>2. QED  BY <1>1, <2>2, <2>3, <3>1, HistoriesAreItems, PrefixTransitive
  <2>7. /\ Shape(store) /\ Contents(store, next_conversation) /\ Good(store) /\ Policies(store)
        /\ Charged(store) /\ next_conversation \in Nat /\ now \in Nat
    BY StoreAssumption DEF StoreInv, Good, ContentInv, CountersTyped, ChargeInv
  <2>8. RequiredBytes(p, next) <= MaxBytes
    <3>1. /\ MetadataBytes \in Nat /\ ResponseBytes \in Nat /\ MaxBytes \in Nat
          /\ Len(p.history) \in Nat /\ p.store \in BOOLEAN
      BY <1>1, StoreAssumption DEF Requests
    <3>2. RequiredBytes(p, next) \in Nat
      <4> DEFINE a == ResponseCharge(p, next)
                 b == MetadataBytes + Len(next)
                 x == IF p.store THEN a ELSE 0
                 y == IF p.conversation # NoId THEN b ELSE 0
      <4>1. a \in Nat /\ b \in Nat
        BY <2>3, <3>1 DEF ResponseCharge
      <4>2. RequiredBytes(p, next) = x + y
        BY DEF RequiredBytes
      <4> HIDE DEF a, b
      <4>3. x \in Nat /\ y \in Nat
        BY <4>1
      <4> HIDE DEF x, y
      <4>4. QED  BY <4>2, <4>3
    <3>3. ~(RequiredBytes(p, next) > MaxBytes)
      BY <1>2, <1>3, <1>8 DEF Refusal
    <3>4. QED  BY <3>1, <3>2, <3>3
  <2> HIDE DEF next
  <2>9. Good(t)
    BY <1>2, <2>1, <2>7, WrittenGood
  <2>10. StoreTyped(t)
    <3>1. Contents(t, next_conversation)
      BY <1>1, <1>2, <2>1, <2>4, <2>5, <2>6, <2>7, WrittenContents
    <3>2. QED  BY <3>1 DEF Contents
  <2>11. PICK W : /\ Writes(store, t, W)
                  /\ p.store => ResponseKey(p.id) \in W
                  /\ p.conversation # NoId => ConversationKey(p.conversation) \in W
    BY <1>1, <1>2, <1>8, <2>1, <2>3, <2>5, <2>7, <2>8, CommitWrites
  <2>12. after = EnforceBudget(t)
    BY CommittedIsWritten
  <2> HIDE DEF t, after
  <2>13. /\ p.store => p.id \in DOMAIN after.responses
         /\ p.conversation # NoId => p.conversation \in DOMAIN after.conversations
    BY <2>7, <2>9, <2>10, <2>11, <2>12, WrittenSurvives
  <2>14. Survived(p, after) = "ok"
    BY <2>13 DEF Survived
  <2>15. reply'.call = "commit" /\ reply'.outcome = "ok"
    BY <1>8, <2>14 DEF Reply
  <2>16. QED  BY <1>4, <1>8, <2>9, <2>10, <2>11, <2>12, <2>15, WritingCallKeepsCharges
<1>9. QED  BY <1>4, <1>6, <1>7, <1>8

LEMMA CreateKeepsCharges ==
  ASSUME StoreInv, ContentInv, ChargeInv, NEW n \in 0..1, CreateConversation(n)
  PROVE  ChargeInv' /\ LossDue
<1> DEFINE id    == next_conversation
           k     == ConversationKey(id)
           bytes == n + MetadataBytes
           hist  == [i \in 1..n |-> InputItem]
           none  == NoState
           rec   == [history |-> hist, state |-> none, created_at |-> now, bytes |-> bytes]
           t     == [store EXCEPT !.conversations = With(@, id, rec),
                                  !.records = LruTouch(@, k, bytes)]
           u     == EnforceBudget(t)
<1>1. /\ pending = Idle /\ pending' = pending
      /\ id <= MaxConversations /\ n <= MaxItems
      /\ \/ store' = store /\ reply' = Reply("create", "conversation", id, "too_long")
         \/ /\ bytes <= MaxBytes /\ store' = u
            /\ reply' = Reply("create", "conversation", id,
                              IF id \in DOMAIN u.conversations THEN "ok"
                              ELSE "conversation_evicted")
  BY Zenon DEF CreateConversation
<1>2. PendingConversation'
  BY <1>1 DEF PendingConversation
<1>3. CASE store' = store /\ reply' = Reply("create", "conversation", id, "too_long")
  <2>1. CommitSurvivesItself'
    BY <1>3 DEF CommitSurvivesItself, Reply
  <2>2. QED  BY <1>2, <1>3, <2>1, SameStoreKeepsCharges
<1>4. CASE /\ bytes <= MaxBytes /\ store' = u
           /\ reply' = Reply("create", "conversation", id,
                             IF id \in DOMAIN u.conversations THEN "ok"
                             ELSE "conversation_evicted")
  <2>1. id \in ConversationIds /\ id \in Nat /\ MetadataBytes \in Nat /\ now \in Nat
    BY <1>1, StoreAssumption DEF ContentInv, CountersTyped, ConversationIds
  <2>2. hist \in Histories
    <3>1. IsItems(hist) /\ Len(hist) = n
      BY InputIsItems
    <3> HIDE DEF hist
    <3>2. Len(hist) <= MaxItems + 1
      BY <1>1, <3>1, StoreAssumption
    <3>3. QED  BY <3>1, <3>2, HistoriesAreItems
  <2>3. bytes \in Nat
    BY <2>1
  <2>4. /\ DOMAIN t = Fields
        /\ t.responses = store.responses
        /\ t.conversations = With(store.conversations, id, rec)
        /\ t.records = LruTouch(store.records, k, bytes)
        /\ t.snapshots = store.snapshots
    BY DEF StoreInv, Good, Shape, Fields
  <2>5. none \in States
    BY NoStateTyped
  <2>6. rec.bytes = bytes /\ rec.state = none /\ {"history", "state", "bytes"} \subseteq DOMAIN rec
    OBVIOUS
  <2>7. rec \in ConversationRecord
    <3> HIDE DEF hist, bytes, none
    <3> QED  BY <2>1, <2>2, <2>3, <2>5 DEF ConversationRecord
  <2> HIDE DEF rec, hist, bytes, t
  <2>8. id \notin DOMAIN store.conversations /\ Contents(store, id)
    BY <2>1 DEF StoreInv, IdsFresh, ContentInv
  <2>9. StoreTyped(t)
    <3>1. Contents(t, id)
      BY <2>1, <2>4, <2>6, <2>7, <2>8, ConversationCreated
    <3>2. QED  BY <3>1 DEF Contents
  <2>10. /\ DOMAIN t.conversations = DOMAIN store.conversations \cup {id}
         /\ t.conversations[id] = rec
         /\ \A c \in DOMAIN store.conversations : t.conversations[c] = store.conversations[c]
    BY <2>4, <2>8 DEF With
  <2>11. Good(t)
    <3>1. Shape(t)
      BY <2>4, <2>6, <2>10 DEF StoreInv, Good, Shape
    <3>2. RecordKeys(t) = RecordKeys(store) \cup {k}
      BY <2>4, <2>10 DEF RecordKeys
    <3>3. SnapshotKeys(t) = SnapshotKeys(store)
      <4>1. HasSnapshot(t.conversations) = HasSnapshot(store.conversations)
        BY <2>6, <2>8, <2>10 DEF HasSnapshot
      <4>2. QED  BY <2>4, <4>1 DEF SnapshotKeys
    <3>4. LruKeys(t.records) = LruKeys(store.records) \cup {k}
      BY <2>4, KeysAfterTouch
    <3>5. QED  BY <2>4, <3>1, <3>2, <3>3, <3>4 DEF StoreInv, Good, AgreeBut
  <2>12. Admitted(store.records, t.records, {k}) /\ t.records.size[k] = bytes
    BY <1>4, <2>3, <2>4, RecordAdmitted DEF ChargeInv, Policies
  <2>13. Attached(store.snapshots, t.snapshots, {k})
    BY <2>4 DEF Attached, ChargeInv, Policies
  <2>14. ChargedKey(t, k, rec)
    BY <2>6, <2>12 DEF ChargedKey
  <2>15. Rewritten(store, t, {k})
    BY <2>4, <2>10, <2>14, KeysDistinct DEF Rewritten
  <2>16. Writes(store, t, {k})
    BY <2>12, <2>13, <2>15 DEF Writes
  <2>17. id \in DOMAIN u.conversations
    BY <2>9, <2>11, <2>16, WrittenSurvives DEF StoreInv, ChargeInv
  <2>18. reply'.call = "create" /\ reply'.outcome = "ok"
    <3> HIDE DEF u
    <3> QED  BY <1>4, <2>17 DEF Reply
  <2>19. QED  BY <1>1, <1>4, <2>9, <2>11, <2>16, <2>18, WritingCallKeepsCharges
<1>5. QED  BY <1>1, <1>3, <1>4

LEMMA NextKeepsCharges ==
  ASSUME StoreInv, ContentInv, ChargeInv, Next
  PROVE  ChargeInv' /\ LossDue
<1>1. StoreInv'
  BY NextKeepsInv
<1>2. CASE \E prev \in ResponseIds \cup {NoId}, conv \in ConversationIds \cup {NoId},
              m \in 0..1, storing \in BOOLEAN : Resolve(prev, conv, m, storing)
  BY <1>1, <1>2, ResolveKeepsCharges
<1>3. CASE BeginGeneration
  BY <1>3, BeginKeepsCharges
<1>4. CASE Abandon
  BY <1>4, AbandonKeepsCharges
<1>5. CASE /\ pending.phase = "generating"
           /\ \E state \in Snapshots(Append(pending.history, pending.id)),
                 estimate \in SnapshotBytes : FinishGeneration(state, estimate)
  BY <1>5, FinishKeepsCharges
<1>6. CASE \E id \in ResponseIds, call \in {"get", "input_items"}, ok \in BOOLEAN :
              ReadResponse(id, call, ok)
  BY <1>1, <1>6, ReadKeepsCharges
<1>7. CASE \E id \in ResponseIds : DeleteResponse(id)
  BY <1>1, <1>7, DeleteResponseKeepsCharges
<1>8. CASE \E m \in 0..1 : CreateConversation(m)
  BY <1>8, CreateKeepsCharges
<1>9. CASE \E id \in ConversationIds : GetConversation(id) \/ DeleteConversation(id)
  BY <1>1, <1>9, GetConversationKeepsCharges, DeleteConversationKeepsCharges
<1>10. CASE Tick
  BY <1>10, TickKeepsCharges
<1>11. QED
  BY <1>2, <1>3, <1>4, <1>5, <1>6, <1>7, <1>8, <1>9, <1>10 DEF Next

LEMMA InitCharges == Init => ChargeInv
<1> SUFFICES ASSUME Init PROVE ChargeInv
  OBVIOUS
<1>1. /\ DOMAIN store.responses = {} /\ DOMAIN store.conversations = {}
      /\ store.records = LruEmpty /\ store.snapshots = LruEmpty
  BY DEF Init
<1>2. LruKeys(LruEmpty) = {} /\ LruEmpty.order = <<>>
  BY DEF LruKeys, LruEmpty
<1>3. Sound(LruEmpty)
  BY <1>2 DEF Sound, Lists
<1>4. Resident(LruEmpty) = 0
  <2>1. Resident(LruEmpty) = Sums!Weigh(LruEmpty.size, {})
    BY <1>2, ResidentIsWeight
  <2>2. QED  BY <2>1, SumsAssumption, Sums!WeighEmpty
<1>5. Policies(store) /\ Charged(store)
  BY <1>1, <1>2, <1>3 DEF Policies, Charged
<1>6. Total(store) <= MaxBytes
  BY <1>1, <1>4, StoreAssumption DEF Total
<1>7. PendingConversation /\ CommitSurvivesItself
  BY DEF Init, PendingConversation, CommitSurvivesItself, NoReply
<1>8. QED  BY <1>5, <1>6, <1>7 DEF ChargeInv

StoreFacts == StoreInv /\ ContentInv /\ ChargeInv

LEMMA StepKeepsFacts ==
  StoreFacts /\ [Next]_vars => StoreFacts' /\ [LossDue]_vars
<1> SUFFICES ASSUME StoreFacts, [Next]_vars PROVE StoreFacts' /\ [LossDue]_vars
  OBVIOUS
<1>1. StoreInv' /\ ContentInv'
  BY NextKeepsInv, NextKeepsContents DEF StoreFacts
<1>2. CASE Next
  BY <1>1, <1>2, NextKeepsCharges DEF StoreFacts
<1>3. CASE UNCHANGED vars
  <2>1. store' = store /\ pending' = pending /\ reply' = reply
    BY <1>3 DEF vars
  <2>2. PendingConversation' /\ CommitSurvivesItself'
    BY <2>1 DEF StoreFacts, ChargeInv, PendingConversation, CommitSurvivesItself
  <2>3. QED  BY <1>1, <1>3, <2>1, <2>2, SameStoreKeepsCharges DEF StoreFacts
<1>4. QED  BY <1>2, <1>3

LEMMA FactsAlways == Spec => []StoreFacts /\ [][LossDue]_vars
<1>1. Init => StoreFacts
  BY InitInv, InitContents, InitCharges DEF StoreFacts
<1>2. QED  BY <1>1, StepKeepsFacts, PTL DEF Spec

(* After every call, canonical history and KV snapshots together fit the   *)
(* response cache budget, whatever the budget and the sizes.               *)
THEOREM BudgetAlwaysHeld == Spec => []BudgetHeld
<1>1. StoreFacts => BudgetHeld
  BY DEF StoreFacts, ChargeInv, Total, BudgetHeld
<1>2. QED  BY <1>1, FactsAlways, PTL

(* Both policies charge every record and snapshot what it holds and know   *)
(* each key exactly once.                                                  *)
THEOREM ChargesAlwaysExact == Spec => []ChargesExact
<1>1. StoreFacts => ChargesExact
  <2> SUFFICES ASSUME StoreFacts PROVE ChargesExact
    OBVIOUS
  <2>1. Charged(store) /\ Sound(store.records) /\ Sound(store.snapshots)
    BY DEF StoreFacts, ChargeInv, Policies
  <2>2. ASSUME NEW l, Sound(l)
        PROVE  /\ {l.order[i] : i \in DOMAIN l.order} = LruKeys(l)
               /\ Len(l.order) = Cardinality(LruKeys(l))
    <3> DEFINE o == l.order
               K == LruKeys(l)
    <3>1. Lists(o, K)
      BY <2>2 DEF Sound
    <3> HIDE DEF o, K
    <3>2. {o[i] : i \in DOMAIN o} = K
      BY <3>1 DEF Lists
    <3>3. Len(o) = Cardinality(K)
      BY <3>1, ListsCounted
    <3>4. QED  BY <3>2, <3>3 DEF o, K
  <2>3. QED  BY <2>1, <2>2 DEF ChargesExact, Charged, ChargedKey
<1>2. QED  BY <1>1, FactsAlways, PTL

(* The internal errors of commit and create_conversation are unreachable:  *)
(* the size check admits only what survives the eviction pass after it,    *)
(* and nothing deletes the conversation of the request in hand.            *)
THEOREM CommitAlwaysSurvives == Spec => []CommitSurvivesItself
<1>1. StoreFacts => CommitSurvivesItself
  BY DEF StoreFacts, ChargeInv
<1>2. QED  BY <1>1, FactsAlways, PTL

(* A stored record goes only by expiry, by DELETE, or after a commit or a  *)
(* create_conversation when the records alone exceed the budget and no     *)
(* snapshot is left to drop instead.                                       *)
THEOREM LossesAreDue == Spec => RecordsLostOnlyWhenDue
<1>1. Spec => [][LossDue]_vars
  BY FactsAlways, PTL
<1>2. QED  BY <1>1 DEF RecordsLostOnlyWhenDue, LossDue, LostBytes
=============================================================================
