------------------------------- MODULE LruSpec -------------------------------
(***************************************************************************)
(* Abstract specification of ByteLruPolicy: what a caller of touch,        *)
(* pop_oldest and remove is promised, with no clock, heap or counter.      *)
(***************************************************************************)
EXTENDS LruOrder

CONSTANTS Key,        \* cache keys
          Bytes,      \* byte counts a caller may account to a key
          MaxBytes    \* ByteLruPolicy::max_bytes

VARIABLES lru,        \* the policy, as in LruOrder
          evicted     \* keys handed back to the caller by the last call, in order

Init == lru = LruEmpty /\ evicted = <<>>

(* touch: refresh the key, then give back the least recently used keys     *)
(* until the rest fits.                                                    *)
Touch(k, b) ==
  LET touched == LruTouch(lru, k, b)
      n       == Excess(touched, MaxBytes)
  IN  /\ lru' = DropOldest(touched, n)
      /\ evicted' = SubSeq(touched.order, 1, n)

(* pop_oldest: give back the least recently used key, if there is one.     *)
PopOldest ==
  LET n == IF lru.order = <<>> THEN 0 ELSE 1
  IN  /\ lru' = DropOldest(lru, n)
      /\ evicted' = SubSeq(lru.order, 1, n)

(* remove: forget a key; nothing is handed back.                           *)
Remove(k) == lru' = LruRemove(lru, k) /\ evicted' = <<>>

Next == \/ \E k \in Key, b \in Bytes : Touch(k, b)
        \/ PopOldest
        \/ \E k \in Key : Remove(k)

Spec == Init /\ [][Next]_<<lru, evicted>>
=============================================================================
