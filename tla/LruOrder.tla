------------------------------ MODULE LruOrder ------------------------------
(***************************************************************************)
(* What a byte-budgeted least-recently-used policy promises, as operators  *)
(* on values: a policy is a record l with                                  *)
(*   l.order  the tracked keys, least recently touched first,              *)
(*   l.size   the bytes accounted to each tracked key.                     *)
(* ByteLru.tla shows that rnb_memory::ByteLruPolicy (stamps, a lazily      *)
(* cleaned heap, a running byte counter) implements these operators;       *)
(* ResponseStore.tla is written with them.                                 *)
(***************************************************************************)
EXTENDS Naturals, Sequences, FiniteSets, FiniteSetsExt

LruEmpty == [order |-> <<>>, size |-> <<>>]

LruKeys(l) == DOMAIN l.size

(* resident_bytes(): every accounted byte, counted once.                   *)
Resident(l) == MapThenSumSet(LAMBDA k : l.size[k], DOMAIN l.size)

(* The order with some keys gone.  (What SelectSeq computes, spelled out:  *)
(* the provers take SelectSeq as a black box.)                             *)
OrderWithout(order, keys) ==
  LET kept[i \in 0..Len(order)] ==
        IF i = 0 THEN <<>>
        ELSE IF order[i] \in keys THEN kept[i - 1]
        ELSE Append(kept[i - 1], order[i])
  IN  kept[Len(order)]

(* k becomes the most recently used key and weighs b bytes from now on.    *)
LruTouch(l, k, b) ==
  [order |-> Append(OrderWithout(l.order, {k}), k),
   size  |-> [x \in DOMAIN l.size \cup {k} |-> IF x = k THEN b ELSE l.size[x]]]

LruRemove(l, k) ==
  [order |-> OrderWithout(l.order, {k}),
   size  |-> [x \in DOMAIN l.size \ {k} |-> l.size[x]]]

(* The policy after pop_oldest has returned n keys.                        *)
DropOldest(l, n) ==
  [order |-> SubSeq(l.order, n + 1, Len(l.order)),
   size  |-> [x \in DOMAIN l.size \ {l.order[i] : i \in 1..n} |-> l.size[x]]]

(* How many of the oldest keys have to go before the rest fits in budget.  *)
Excess(l, budget) ==
  Min({n \in 0..Len(l.order) : Resident(DropOldest(l, n)) <= budget})

(* The policy after evicting oldest-first until it fits.                   *)
LruTrim(l, budget) == DropOldest(l, Excess(l, budget))
=============================================================================
