------------------------------ MODULE MCByteLru ------------------------------
(* Model checking ByteLru, and the closed form of touch's eviction loop     *)
(* against the loop itself.                                                *)
EXTENDS ByteLru

(* One call of pop_oldest, as written: pop the least pair of the heap until *)
(* one is live.  A state of the loop is [ents, heap, res, out].            *)
PopOnce(s) ==
  LET live == LivePairs(s.ents, s.heap)
  IN  IF live = {} THEN [s EXCEPT !.heap = {}]
      ELSE LET p == CHOOSE q \in live : \A r \in live : q[1] <= r[1]
           IN  [ents |-> [x \in DOMAIN s.ents \ {p[2]} |-> s.ents[x]],
                heap |-> {q \in s.heap : q[1] > p[1]},
                res  |-> SatSub(s.res, s.ents[p[2]].bytes),
                out  |-> Append(s.out, p[2])]

(* while resident_bytes > max_bytes { pop_oldest or break }                *)
EvictLoop(s) ==
  LET after[n \in 0..Cardinality(s.heap)] ==
        IF n = 0 THEN s
        ELSE IF after[n - 1].res > MaxBytes THEN PopOnce(after[n - 1])
        ELSE after[n - 1]
  IN  after[Cardinality(s.heap)]

(* The closed form used by Touch (everything stamped up to EvictionCut) is *)
(* what the loop pops, in the loop's order, from every reachable state.    *)
CutMatchesLoop ==
  \A k \in Key, b \in Bytes :
    LET ents == Touched(entries, k, b)
        heap == Pushed(oldest, k)
        res  == ResidentAfterTouch(entries, resident_bytes, k, b)
        cut  == EvictionCut(ents, heap, res)
        gone == {p[2] : p \in PoppedUpTo(ents, heap, cut)}
        loop == EvictLoop([ents |-> ents, heap |-> heap, res |-> res, out |-> <<>>])
    IN  /\ loop.out = InTouchOrder(ents, gone)
        /\ loop.heap = {p \in heap : p[1] > cut}
        /\ loop.res = SatSub(res, PairBytes(ents, PoppedUpTo(ents, heap, cut)))
=============================================================================
