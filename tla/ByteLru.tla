------------------------------- MODULE ByteLru -------------------------------
(***************************************************************************)
(* rnb_memory::ByteLruPolicy (crates/rnb-memory/src/byte_lru.rs): a clock  *)
(* stamps every touch, a min-heap of (stamp, key) pairs is cleaned lazily  *)
(* (a pair is stale once its key was touched again, removed or evicted),   *)
(* and a running counter keeps the resident bytes.                         *)
(*                                                                         *)
(* Stamps are unique, so the heap is a set of pairs.  The u64 counters are *)
(* naturals: byte sums stay far below 2^64 and the clock would need 2^64   *)
(* touches to wrap; MaxClock bounds the touches of a model run.            *)
(***************************************************************************)
EXTENDS Naturals, Sequences, FiniteSets, FiniteSetsExt

CONSTANTS Key,        \* cache keys
          Bytes,      \* byte counts a caller may account to a key
          MaxBytes,   \* max_bytes
          MaxClock    \* bound: touches in one behaviour

ASSUME LruAssumption ==
  /\ Bytes \subseteq Nat
  /\ MaxBytes \in Nat
  /\ MaxClock \in Nat

VARIABLES entries,         \* key -> [bytes, last_touch]
          clock,           \* touches so far
          oldest,          \* the heap: pairs <<stamp, key>>, some of them stale
          resident_bytes,  \* running total of the entries' bytes
          evicted          \* keys returned to the caller by the last call

vars == <<entries, clock, oldest, resident_bytes, evicted>>

Entry == [bytes : Nat, last_touch : Nat]

TypeOK ==
  /\ DOMAIN entries \subseteq Key
  /\ \A k \in DOMAIN entries : entries[k] \in Entry
  /\ clock \in Nat
  /\ oldest \subseteq Nat \X Key
  /\ resident_bytes \in Nat
  /\ evicted \in Seq(Key)

SatSub(a, b) == IF a >= b THEN a - b ELSE 0

-----------------------------------------------------------------------------
(* Plausible slips in the code, used to show that the checks notice them.  *)
StalePairsLive(ents, heap) == {p \in heap : p[2] \in DOMAIN ents}
ForgetOldBytes(ents, res, k, b) == res + b
ReleaseTwice(ents, res, k) == res - ents[k].bytes - ents[k].bytes
PushNewKeysOnly(heap, k) ==
  IF k \in DOMAIN entries THEN heap ELSE heap \cup {<<clock + 1, k>>}
EvictAtMostOne(ents, heap, res) ==
  IF res <= MaxBytes THEN 0 ELSE Min({p[1] : p \in heap})
EvictWhileFull(ents, heap, res) ==
  IF res < MaxBytes THEN 0
  ELSE Min({clock + 1} \cup {p[1] : p \in heap})
-----------------------------------------------------------------------------

(* The pairs pop_oldest does not skip: the key is tracked and this pair    *)
(* carries its latest stamp.                                               *)
LivePairs(ents, heap) ==
  {p \in heap : p[2] \in DOMAIN ents /\ ents[p[2]].last_touch = p[1]}

(* What a run of pop_oldest calls takes out when it ends at stamp t.       *)
PoppedUpTo(ents, heap, t) == {p \in LivePairs(ents, heap) : p[1] <= t}

PairBytes(ents, pairs) == MapThenSumSet(LAMBDA p : ents[p[2]].bytes, pairs)

(* The stamp at which touch's eviction loop stops popping; 0 when it never *)
(* starts, beyond every stamp when the heap runs dry first.                *)
EvictionCut(ents, heap, res) ==
  IF res <= MaxBytes THEN 0
  ELSE Min({clock + 1} \cup
           {t \in {p[1] : p \in LivePairs(ents, heap)} :
              SatSub(res, PairBytes(ents, PoppedUpTo(ents, heap, t))) <= MaxBytes})

(* Some keys as a sequence, least recently touched first.                  *)
InTouchOrder(ents, keys) ==
  CHOOSE s \in [1..Cardinality(keys) -> keys] :
    \A i, j \in 1..Cardinality(keys) :
      i < j => ents[s[i]].last_touch < ents[s[j]].last_touch

(* State after popping every pair of ents and heap stamped at most t; the  *)
(* caller gets the popped keys in the order the heap gave them.            *)
PopThrough(ents, heap, res, t) ==
  LET popped == PoppedUpTo(ents, heap, t)
      gone   == {p[2] : p \in popped}
  IN  /\ entries' = [x \in DOMAIN ents \ gone |-> ents[x]]
      /\ oldest' = {p \in heap : p[1] > t}
      /\ resident_bytes' = SatSub(res, PairBytes(ents, popped))
      /\ evicted' = InTouchOrder(ents, gone)

ResidentAfterTouch(ents, res, k, b) ==
  IF k \in DOMAIN ents THEN SatSub(res, ents[k].bytes) + b ELSE res + b

Touched(ents, k, b) ==
  [x \in DOMAIN ents \cup {k} |->
     IF x = k THEN [bytes |-> b, last_touch |-> clock + 1] ELSE ents[x]]

Pushed(heap, k) == heap \cup {<<clock + 1, k>>}

-----------------------------------------------------------------------------
Init ==
  /\ entries = [k \in {} |-> 0]
  /\ clock = 0
  /\ oldest = {}
  /\ resident_bytes = 0
  /\ evicted = <<>>

Touch(k, b) ==
  LET ents == Touched(entries, k, b)
      heap == Pushed(oldest, k)
      res  == ResidentAfterTouch(entries, resident_bytes, k, b)
  IN  /\ clock < MaxClock
      /\ clock' = clock + 1
      /\ PopThrough(ents, heap, res, EvictionCut(ents, heap, res))

(* pop_oldest: discard stale pairs up to the first live one and return it; *)
(* with no live pair left the whole heap is discarded.                     *)
PopOldest ==
  /\ PopThrough(entries, oldest, resident_bytes,
                Min({clock + 1} \cup {p[1] : p \in LivePairs(entries, oldest)}))
  /\ UNCHANGED clock

ResidentAfterRemove(ents, res, k) == SatSub(res, ents[k].bytes)

(* remove: the key's pair stays in the heap and goes stale.                *)
Remove(k) ==
  /\ IF k \in DOMAIN entries
     THEN /\ entries' = [x \in DOMAIN entries \ {k} |-> entries[x]]
          /\ resident_bytes' = ResidentAfterRemove(entries, resident_bytes, k)
     ELSE UNCHANGED <<entries, resident_bytes>>
  /\ evicted' = <<>>
  /\ UNCHANGED <<clock, oldest>>

Next == \/ \E k \in Key, b \in Bytes : Touch(k, b)
        \/ PopOldest
        \/ \E k \in Key : Remove(k)

Spec == Init /\ [][Next]_vars

-----------------------------------------------------------------------------
(* The running counter never drifts from the entries it stands for, through *)
(* re-touches, removals and evictions (resident_bytes in touch, pop_oldest  *)
(* and remove).                                                            *)
AccountingExact ==
  resident_bytes = MapThenSumSet(LAMBDA k : entries[k].bytes, DOMAIN entries)

(* Every call returns with the budget respected, a single key larger than  *)
(* the whole budget included.                                              *)
WithinBudget == resident_bytes <= MaxBytes

(* Lazy heap cleaning never loses a key: each tracked key still has its    *)
(* latest pair in the heap, no two tracked keys share a stamp, and no      *)
(* stamp is from the future.  Without it pop_oldest would skip a resident  *)
(* key, or report an empty heap while bytes are resident.                  *)
HeapTracksEntries ==
  /\ \A k \in DOMAIN entries : <<entries[k].last_touch, k>> \in oldest
  /\ \A j, k \in DOMAIN entries :
       entries[j].last_touch = entries[k].last_touch => j = k
  /\ \A p \in oldest : p[1] <= clock
  /\ \A p, q \in oldest : p[1] = q[1] => p = q

(* What a caller sees is the abstract policy: recency order is the order   *)
(* of the stamps.                                                          *)
RecencyOrder == InTouchOrder(entries, DOMAIN entries)

Lru == INSTANCE LruSpec WITH
         lru <- [order |-> RecencyOrder,
                 size  |-> [k \in DOMAIN entries |-> entries[k].bytes]]

(* ByteLruPolicy implements the abstract policy: touch, pop_oldest and     *)
(* remove hand back exactly the least recently used keys, oldest first,    *)
(* and no more of them than the budget asks for.                           *)
ImplementsLru == Lru!Spec
=============================================================================
