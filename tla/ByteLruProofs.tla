---------------------------- MODULE ByteLruProofs ----------------------------
(* Proofs about ByteLru for every key set, byte set and budget.            *)
EXTENDS MCByteLru, WellFoundedInduction, FiniteSetTheorems, TLAPS

(* The part of TypeOK the heap argument needs.                             *)
StampsTyped ==
  /\ DOMAIN entries \subseteq Key
  /\ \A k \in DOMAIN entries : entries[k].last_touch \in Nat
  /\ clock \in Nat
  /\ oldest \subseteq Nat \X Key

HeapInv == StampsTyped /\ HeapTracksEntries

LEMMA SmallestNat ==
  ASSUME NEW Bad, Bad \subseteq Nat, Bad # {}
  PROVE  \E m \in Bad : \A k \in Bad : m <= k
<1>0. \A x, y \in Nat : y < x => <<y, x>> \in OpToRel(<, Nat)
  BY Zenon DEF OpToRel
<1>1. PICK x \in Bad : \A y \in Bad : ~(<<y, x>> \in OpToRel(<, Nat))
  BY NatLessThanWellFounded, WFMin, Zenon
<1>2. \A y \in Bad : ~(y < x)
  BY <1>0, <1>1, Zenon
<1>3. QED  BY <1>2

(* Min, defined by CHOOSE, is a member of a non-empty set of naturals.     *)
LEMMA MinOfNats ==
  ASSUME NEW S, S \subseteq Nat, S # {}
  PROVE  Min(S) \in S
<1>1. PICK x \in S : \A y \in S : x <= y
  BY SmallestNat
<1>2. QED  BY <1>1 DEF Min

(* Popping up to a stamp keeps the heap invariant, whatever entries and    *)
(* heap the call starts popping from, as long as they satisfy it.          *)
LEMMA PopThroughKeepsHeap ==
  ASSUME NEW ents, NEW heap, NEW res, NEW t \in Nat, NEW c \in Nat,
         clock' = c,
         DOMAIN ents \subseteq Key,
         \A k \in DOMAIN ents : ents[k].last_touch \in Nat,
         heap \subseteq Nat \X Key,
         \A k \in DOMAIN ents : <<ents[k].last_touch, k>> \in heap,
         \A j, k \in DOMAIN ents : ents[j].last_touch = ents[k].last_touch => j = k,
         \A p \in heap : p[1] <= c,
         \A p, q \in heap : p[1] = q[1] => p = q,
         PopThrough(ents, heap, res, t)
  PROVE  HeapInv'
<1> DEFINE popped == PoppedUpTo(ents, heap, t)
           gone   == {p[2] : p \in popped}
<1>1. /\ entries' = [x \in DOMAIN ents \ gone |-> ents[x]]
      /\ oldest' = {p \in heap : p[1] > t}
  BY DEF PopThrough
<1>2. ASSUME NEW k \in DOMAIN entries'
      PROVE  /\ k \in DOMAIN ents
             /\ entries'[k] = ents[k]
             /\ ents[k].last_touch > t
  <2>1. k \in DOMAIN ents /\ k \notin gone /\ entries'[k] = ents[k]
    BY <1>1
  <2> DEFINE pair == <<ents[k].last_touch, k>>
  <2>2. pair \in LivePairs(ents, heap)
    BY <2>1 DEF LivePairs
  <2>3. pair \notin popped
    BY <2>1
  <2>4. QED  BY <2>1, <2>2, <2>3 DEF PoppedUpTo
<1>3. StampsTyped'
  BY <1>1, <1>2 DEF StampsTyped
<1>4. HeapTracksEntries'
  <2>1. \A k \in DOMAIN entries' : <<entries'[k].last_touch, k>> \in oldest'
    BY <1>1, <1>2
  <2>2. \A j, k \in DOMAIN entries' :
          entries'[j].last_touch = entries'[k].last_touch => j = k
    BY <1>2
  <2>3. QED  BY <1>1, <2>1, <2>2 DEF HeapTracksEntries
<1>5. QED  BY <1>3, <1>4 DEF HeapInv

(* The stamp the eviction loop stops at is a natural number.               *)
LEMMA CutIsNat ==
  ASSUME NEW ents, NEW heap, heap \subseteq Nat \X Key, NEW res, clock \in Nat
  PROVE  EvictionCut(ents, heap, res) \in Nat
<1> DEFINE S == {clock + 1} \cup
             {t \in {p[1] : p \in LivePairs(ents, heap)} :
                SatSub(res, PairBytes(ents, PoppedUpTo(ents, heap, t))) <= MaxBytes}
<1>1. \A p \in LivePairs(ents, heap) : p[1] \in Nat
  BY DEF LivePairs
<1>2. S \subseteq Nat /\ S # {}
  BY <1>1
<1>3. Min(S) \in Nat
  BY <1>2, MinOfNats, Zenon
<1>4. QED  BY <1>3 DEF EvictionCut

LEMMA TouchKeepsHeap ==
  ASSUME HeapInv, NEW k \in Key, NEW b \in Bytes, Touch(k, b)
  PROVE  HeapInv'
<1> DEFINE ents == Touched(entries, k, b)
           heap == oldest \cup {<<clock + 1, k>>}
           res  == ResidentAfterTouch(entries, resident_bytes, k, b)
<1>1. clock \in Nat /\ clock' = clock + 1 /\ clock + 1 \in Nat
  BY DEF HeapInv, StampsTyped, Touch
<1>2. PopThrough(ents, heap, res, EvictionCut(ents, heap, res))
  BY DEF Touch, Pushed
<1>3. heap \subseteq Nat \X Key
  BY <1>1 DEF HeapInv, StampsTyped
<1>4. EvictionCut(ents, heap, res) \in Nat
  BY <1>1, <1>3, CutIsNat
<1>5. /\ DOMAIN ents \subseteq Key
      /\ ents[k].last_touch = clock + 1
      /\ k \in DOMAIN ents
      /\ \A x \in DOMAIN ents : x # k => x \in DOMAIN entries /\ ents[x] = entries[x]
  BY DEF HeapInv, StampsTyped, Touched
<1>6. \A x \in DOMAIN ents : x # k => ents[x].last_touch \in Nat /\ ents[x].last_touch <= clock
  <2> HIDE DEF ents
  <2>1. \A x \in DOMAIN entries : <<entries[x].last_touch, x>> \in oldest
    BY DEF HeapInv, HeapTracksEntries
  <2>2. \A x \in DOMAIN entries : entries[x].last_touch \in Nat /\ entries[x].last_touch <= clock
    BY <2>1 DEF HeapInv, StampsTyped, HeapTracksEntries
  <2>3. QED  BY <1>5, <2>2
<1>7. \A x \in DOMAIN ents : ents[x].last_touch \in Nat
  BY <1>1, <1>5, <1>6
<1>8. \A x \in DOMAIN ents : <<ents[x].last_touch, x>> \in heap
  BY <1>5 DEF HeapInv, HeapTracksEntries
<1>9. \A x, y \in DOMAIN ents : ents[x].last_touch = ents[y].last_touch => x = y
  <2> HIDE DEF ents
  <2>1. ASSUME NEW x \in DOMAIN ents, NEW y \in DOMAIN ents,
               ents[x].last_touch = ents[y].last_touch, x # k, y # k
        PROVE  x = y
    BY <1>5, <2>1 DEF HeapInv, HeapTracksEntries
  <2>2. \A x \in DOMAIN ents : x # k => ents[x].last_touch # ents[k].last_touch
    BY <1>1, <1>5, <1>6
  <2>3. QED  BY <2>1, <2>2
<1>10. \A p \in heap : p[1] <= clock + 1
  BY <1>1 DEF HeapInv, StampsTyped, HeapTracksEntries
<1>11. \A p, q \in heap : p[1] = q[1] => p = q
  <2>1. \A p \in oldest : p[1] # clock + 1
    BY <1>1 DEF HeapInv, StampsTyped, HeapTracksEntries
  <2>2. QED  BY <2>1 DEF HeapInv, HeapTracksEntries
<1> HIDE DEF ents, heap, res
<1>12. QED
  BY <1>1, <1>2, <1>3, <1>4, <1>5, <1>7, <1>8, <1>9, <1>10, <1>11, PopThroughKeepsHeap

LEMMA PopOldestKeepsHeap ==
  ASSUME HeapInv, PopOldest
  PROVE  HeapInv'
<1> DEFINE S == {clock + 1} \cup {p[1] : p \in LivePairs(entries, oldest)}
<1>1. S \subseteq Nat /\ S # {}
  BY DEF HeapInv, StampsTyped, LivePairs
<1>2. Min(S) \in Nat
  BY <1>1, MinOfNats, Zenon
<1>3. PopThrough(entries, oldest, resident_bytes, Min(S)) /\ clock' = clock
  BY DEF PopOldest
<1> HIDE DEF S
<1>4. QED
  BY <1>2, <1>3, PopThroughKeepsHeap DEF HeapInv, StampsTyped, HeapTracksEntries

LEMMA RemoveKeepsHeap ==
  ASSUME HeapInv, NEW k \in Key, Remove(k)
  PROVE  HeapInv'
<1>1. /\ DOMAIN entries' \subseteq DOMAIN entries
      /\ \A x \in DOMAIN entries' : entries'[x] = entries[x]
      /\ clock' = clock /\ oldest' = oldest
  BY DEF Remove
<1>2. QED  BY <1>1 DEF HeapInv, StampsTyped, HeapTracksEntries

(* ByteLruPolicy never loses track of a resident key: the lazily cleaned   *)
(* heap (touch, pop_oldest and remove in byte_lru.rs) always holds the     *)
(* latest pair of every entry, and stamps stay unique, for every key set,  *)
(* byte set and budget.                                                    *)
THEOREM HeapAlwaysTracks == Spec => []HeapTracksEntries
<1>1. Init => HeapInv
  BY DEF Init, HeapInv, StampsTyped, HeapTracksEntries
<1>2. HeapInv /\ [Next]_vars => HeapInv'
  <2> SUFFICES ASSUME HeapInv, [Next]_vars PROVE HeapInv'
    OBVIOUS
  <2>1. CASE \E k \in Key, b \in Bytes : Touch(k, b)
    BY <2>1, TouchKeepsHeap
  <2>2. CASE PopOldest
    BY <2>2, PopOldestKeepsHeap
  <2>3. CASE \E k \in Key : Remove(k)
    BY <2>3, RemoveKeepsHeap
  <2>4. CASE UNCHANGED vars
    BY <2>4 DEF vars, HeapInv, StampsTyped, HeapTracksEntries
  <2>5. QED  BY <2>1, <2>2, <2>3, <2>4 DEF Next
<1>3. HeapInv => HeapTracksEntries
  BY DEF HeapInv
<1>4. QED  BY <1>1, <1>2, <1>3, PTL DEF Spec

-----------------------------------------------------------------------------
(* Byte sums.  MapThenSumSet folds over a set in an order CHOOSE fixes; the    *)
(* lemmas say that its result is the sum in any order.  Induction over a       *)
(* finite set is by a smallest counterexample.                                 *)
Weigh(w, S) == MapThenSumSet(LAMBDA k : w[k], S)

Pick(s) == CHOOSE x \in s : TRUE
Fold(w, T, h) == [s \in SUBSET T |-> IF s = {} THEN 0 ELSE w[Pick(s)] + h[s \ {Pick(s)}]]

LEMMA SmallestSet ==
  ASSUME NEW S, IsFiniteSet(S), NEW Bad, Bad \subseteq SUBSET S, Bad # {}
  PROVE  \E T \in Bad : \A U \in Bad : U \subseteq T => U = T
<1>1. FiniteSubsetsOf(S) = SUBSET S
  BY FS_FiniteSubsetsOfFinite
<1>2. IsWellFoundedOn(StrictSubsetOrdering(S), SUBSET S)
  BY <1>1, FS_StrictSubsetOrderingWellFounded
<1>3. PICK T \in Bad : \A U \in Bad : ~(<<U, T>> \in StrictSubsetOrdering(S))
  BY <1>2, WFMin, Zenon
<1>4. ASSUME NEW U \in Bad, U \subseteq T, U # T PROVE FALSE
  <2>1. <<U, T>> \in (SUBSET S) \X (SUBSET S)
    OBVIOUS
  <2>2. <<U, T>> \in StrictSubsetOrdering(S)
    BY <1>4, <2>1 DEF StrictSubsetOrdering
  <2>3. QED  BY <1>3, <2>2
<1>5. QED  BY <1>4

LEMMA PickIn == ASSUME NEW s, s # {} PROVE Pick(s) \in s
BY DEF Pick

LEMMA FoldUnique ==
  ASSUME NEW w, NEW T, NEW U, NEW h, NEW g, h = Fold(w, T, h), g = Fold(w, U, g),
         NEW R, IsFiniteSet(R), R \subseteq T, R \subseteq U
  PROVE  h[R] = g[R]
<1> DEFINE Bad == {Q \in SUBSET R : h[Q] # g[Q]}
<1>1. SUFFICES ASSUME Bad # {} PROVE FALSE
  OBVIOUS
<1>2. PICK Q \in Bad : \A V \in Bad : V \subseteq Q => V = Q
  <2>1. Bad \subseteq SUBSET R /\ Bad # {}
    BY <1>1
  <2> HIDE DEF Bad
  <2>2. QED  BY <2>1, SmallestSet
<1>3. /\ h[Q] = IF Q = {} THEN 0 ELSE w[Pick(Q)] + h[Q \ {Pick(Q)}]
      /\ g[Q] = IF Q = {} THEN 0 ELSE w[Pick(Q)] + g[Q \ {Pick(Q)}]
  <2>1. Q \in SUBSET T /\ Q \in SUBSET U
    OBVIOUS
  <2>2. QED  BY <2>1 DEF Fold
<1>4. Q # {}
  BY <1>3
<1>5. Q \ {Pick(Q)} \in SUBSET R /\ Q \ {Pick(Q)} # Q
  BY <1>4, PickIn
<1>6. h[Q \ {Pick(Q)}] = g[Q \ {Pick(Q)}]
  BY <1>2, <1>5
<1>7. QED  BY <1>3, <1>6

LEMMA FoldExists ==
  ASSUME NEW w, NEW S, IsFiniteSet(S)
  PROVE  \E h : h = Fold(w, S, h)
<1> DEFINE Bad == {T \in SUBSET S : ~\E h : h = Fold(w, T, h)}
<1>1. SUFFICES ASSUME Bad # {} PROVE FALSE
  OBVIOUS
<1>2. PICK T \in Bad : \A V \in Bad : V \subseteq T => V = T
  <2>1. Bad \subseteq SUBSET S /\ Bad # {}
    BY <1>1
  <2> HIDE DEF Bad
  <2>2. QED  BY <2>1, SmallestSet
<1> DEFINE F(V) == CHOOSE h : h = Fold(w, V, h)
           g == [U \in SUBSET T |-> IF U = {} THEN 0
                                    ELSE w[Pick(U)] + F(U \ {Pick(U)})[U \ {Pick(U)}]]
<1>3. ASSUME NEW V \in SUBSET T, V # T
      PROVE  F(V) = Fold(w, V, F(V))
  <2>1. \E h : h = Fold(w, V, h)
    BY <1>2, <1>3
  <2>2. QED  BY <2>1, Zenon
<1> HIDE DEF F
<1>4. ASSUME NEW U \in SUBSET T, U # {}
      PROVE  g[U \ {Pick(U)}] = F(U \ {Pick(U)})[U \ {Pick(U)}]
  <2> DEFINE V == U \ {Pick(U)}
             W == V \ {Pick(V)}
  <2>1. V \in SUBSET T /\ V # T
    BY <1>4, PickIn
  <2> HIDE DEF V
  <2>2. F(V)[V] = IF V = {} THEN 0 ELSE w[Pick(V)] + F(V)[W]
    <3>1. F(V) = Fold(w, V, F(V))
      BY <1>3, <2>1
    <3>2. Fold(w, V, F(V))[V] = IF V = {} THEN 0 ELSE w[Pick(V)] + F(V)[W]
      BY DEF Fold
    <3>3. QED  BY <3>1, <3>2
  <2>3. g[V] = IF V = {} THEN 0 ELSE w[Pick(V)] + F(W)[W]
    BY <2>1
  <2>4. V # {} => F(V)[W] = F(W)[W]
    <3> SUFFICES ASSUME V # {} PROVE F(V)[W] = F(W)[W]
      OBVIOUS
    <3>1. W \in SUBSET T /\ W # T
      BY <2>1, PickIn
    <3>2. F(V) = Fold(w, V, F(V)) /\ F(W) = Fold(w, W, F(W))
      BY <1>3, <2>1, <3>1
    <3>3. IsFiniteSet(W) /\ W \subseteq V /\ W \subseteq W
      <4>1. W \in SUBSET S
        BY <3>1
      <4>2. QED  BY <4>1, FS_Subset
    <3> HIDE DEF W
    <3>4. QED  BY <3>2, <3>3, FoldUnique
  <2>5. QED  BY <2>2, <2>3, <2>4 DEF V
<1>5. g = Fold(w, T, g)
  <2>1. ASSUME NEW U \in SUBSET T
        PROVE  g[U] = IF U = {} THEN 0 ELSE w[Pick(U)] + g[U \ {Pick(U)}]
    <3>1. CASE U = {}
      BY <3>1
    <3>2. CASE U # {}
      <4>1. g[U] = w[Pick(U)] + F(U \ {Pick(U)})[U \ {Pick(U)}]
        BY <3>2
      <4> HIDE DEF g
      <4>2. QED  BY <1>4, <3>2, <4>1
    <3>3. QED  BY <3>1, <3>2
  <2>2. g = [U \in SUBSET T |-> g[U]]
    OBVIOUS
  <2> HIDE DEF g
  <2>3. QED  BY <2>1, <2>2 DEF Fold
<1>6. QED  BY <1>5

LEMMA WeighIsFold ==
  ASSUME NEW w, NEW S, NEW T, IsFiniteSet(S), T \subseteq S, NEW h, h = Fold(w, S, h)
  PROVE  Weigh(w, T) = h[T]
<1>1. Weigh(w, T) = (CHOOSE g : g = Fold(w, T, g))[T]
  BY DEF Weigh, MapThenSumSet, MapThenFoldSet, Fold, Pick
<1>2. IsFiniteSet(T)
  BY FS_Subset
<1> DEFINE g == CHOOSE f : f = Fold(w, T, f)
<1>3. g = Fold(w, T, g)
  <2>1. \E f : f = Fold(w, T, f)
    BY <1>2, FoldExists
  <2>2. QED  BY <2>1, Zenon
<1>4. Weigh(w, T) = g[T]
  BY <1>1
<1> HIDE DEF g
<1>5. QED  BY <1>2, <1>3, <1>4, FoldUnique

LEMMA WeighEmpty == \A w : Weigh(w, {}) = 0
<1> SUFFICES ASSUME NEW w PROVE Weigh(w, {}) = 0
  OBVIOUS
<1>1. IsFiniteSet({})
  BY FS_EmptySet
<1>2. PICK h : h = Fold(w, {}, h)
  BY <1>1, FoldExists
<1>3. Weigh(w, {}) = h[{}]
  BY <1>1, <1>2, WeighIsFold
<1>4. Fold(w, {}, h)[{}] = 0
  BY DEF Fold
<1>5. QED  BY <1>2, <1>3, <1>4

LEMMA WeighPick ==
  ASSUME NEW w, NEW S, IsFiniteSet(S), S # {}
  PROVE  Weigh(w, S) = w[Pick(S)] + Weigh(w, S \ {Pick(S)})
<1>1. PICK h : h = Fold(w, S, h)
  BY FoldExists
<1>2. Weigh(w, S) = h[S]
  BY <1>1, WeighIsFold
<1>3. Weigh(w, S \ {Pick(S)}) = h[S \ {Pick(S)}]
  BY <1>1, WeighIsFold
<1>4. Fold(w, S, h)[S] = w[Pick(S)] + h[S \ {Pick(S)}]
  BY DEF Fold
<1>5. QED  BY <1>1, <1>2, <1>3, <1>4

LEMMA WeighNat ==
  ASSUME NEW w, NEW S, IsFiniteSet(S), \A k \in S : w[k] \in Nat
  PROVE  Weigh(w, S) \in Nat
<1> DEFINE Bad == {T \in SUBSET S : Weigh(w, T) \notin Nat}
<1>1. SUFFICES ASSUME Bad # {} PROVE FALSE
  OBVIOUS
<1>2. PICK T \in Bad : \A V \in Bad : V \subseteq T => V = T
  <2>1. Bad \subseteq SUBSET S /\ Bad # {}
    BY <1>1
  <2> HIDE DEF Bad
  <2>2. QED  BY <2>1, SmallestSet
<1>3. T # {}
  BY WeighEmpty
<1>4. IsFiniteSet(T) /\ Pick(T) \in T
  BY <1>3, FS_Subset, PickIn
<1>5. Weigh(w, T) = w[Pick(T)] + Weigh(w, T \ {Pick(T)})
  BY <1>3, <1>4, WeighPick
<1>6. T \ {Pick(T)} \in SUBSET S /\ T \ {Pick(T)} # T
  BY <1>4
<1>7. Weigh(w, T \ {Pick(T)}) \in Nat
  BY <1>2, <1>6
<1>8. w[Pick(T)] \in Nat
  BY <1>4
<1>9. QED  BY <1>5, <1>7, <1>8

LEMMA WeighAny ==
  ASSUME NEW w, NEW S, IsFiniteSet(S), \A k \in S : w[k] \in Nat, NEW x \in S
  PROVE  Weigh(w, S) = w[x] + Weigh(w, S \ {x})
<1> DEFINE Bad == {T \in SUBSET S : \E y \in T : Weigh(w, T) # w[y] + Weigh(w, T \ {y})}
<1>1. SUFFICES ASSUME Bad # {} PROVE FALSE
  OBVIOUS
<1>2. PICK T \in Bad : \A V \in Bad : V \subseteq T => V = T
  <2>1. Bad \subseteq SUBSET S /\ Bad # {}
    BY <1>1
  <2> HIDE DEF Bad
  <2>2. QED  BY <2>1, SmallestSet
<1>3. PICK y \in T : Weigh(w, T) # w[y] + Weigh(w, T \ {y})
  OBVIOUS
<1> DEFINE p == Pick(T)
<1>4. IsFiniteSet(T) /\ p \in T
  BY <1>3, FS_Subset, PickIn
<1>5. Weigh(w, T) = w[p] + Weigh(w, T \ {p})
  BY <1>3, <1>4, WeighPick
<1> HIDE DEF p
<1>6. p # y
  BY <1>3, <1>5
<1>7. \A V \in SUBSET T : V # T => \A z \in V : Weigh(w, V) = w[z] + Weigh(w, V \ {z})
  BY <1>2
<1>8. Weigh(w, T \ {p}) = w[y] + Weigh(w, (T \ {p}) \ {y})
  <2>1. T \ {p} \in SUBSET T /\ T \ {p} # T /\ y \in T \ {p}
    BY <1>4, <1>6
  <2>2. QED  BY <1>7, <2>1
<1>9. Weigh(w, T \ {y}) = w[p] + Weigh(w, (T \ {y}) \ {p})
  <2>1. T \ {y} \in SUBSET T /\ T \ {y} # T /\ p \in T \ {y}
    BY <1>4, <1>6
  <2>2. QED  BY <1>7, <2>1
<1> DEFINE R == (T \ {p}) \ {y}
<1>10. (T \ {y}) \ {p} = R
  OBVIOUS
<1>11. Weigh(w, R) \in Nat /\ w[p] \in Nat /\ w[y] \in Nat
  <2>1. R \in SUBSET S
    OBVIOUS
  <2>2. IsFiniteSet(R) /\ \A k \in R : w[k] \in Nat
    BY <2>1, FS_Subset
  <2> HIDE DEF R
  <2>3. QED  BY <1>4, <2>2, WeighNat
<1> HIDE DEF R
<1>12. QED  BY <1>3, <1>5, <1>8, <1>9, <1>10, <1>11 DEF R

LEMMA WeighSame ==
  ASSUME NEW v, NEW w, NEW S, IsFiniteSet(S), \A k \in S : v[k] = w[k]
  PROVE  Weigh(v, S) = Weigh(w, S)
<1> DEFINE Bad == {T \in SUBSET S : Weigh(v, T) # Weigh(w, T)}
<1>1. SUFFICES ASSUME Bad # {} PROVE FALSE
  OBVIOUS
<1>2. PICK T \in Bad : \A V \in Bad : V \subseteq T => V = T
  <2>1. Bad \subseteq SUBSET S /\ Bad # {}
    BY <1>1
  <2> HIDE DEF Bad
  <2>2. QED  BY <2>1, SmallestSet
<1>3. T # {}
  BY WeighEmpty
<1>4. IsFiniteSet(T) /\ Pick(T) \in T
  BY <1>3, FS_Subset, PickIn
<1>5. /\ Weigh(v, T) = v[Pick(T)] + Weigh(v, T \ {Pick(T)})
      /\ Weigh(w, T) = w[Pick(T)] + Weigh(w, T \ {Pick(T)})
  BY <1>3, <1>4, WeighPick
<1>6. T \ {Pick(T)} \in SUBSET S /\ T \ {Pick(T)} # T
  BY <1>4
<1>7. Weigh(v, T \ {Pick(T)}) = Weigh(w, T \ {Pick(T)})
  BY <1>2, <1>6
<1>8. v[Pick(T)] = w[Pick(T)]
  BY <1>4
<1>9. QED  BY <1>5, <1>7, <1>8

LEMMA WeighSplit ==
  ASSUME NEW w, NEW S, IsFiniteSet(S), \A k \in S : w[k] \in Nat, NEW R \in SUBSET S
  PROVE  /\ Weigh(w, S) = Weigh(w, R) + Weigh(w, S \ R)
         /\ Weigh(w, R) \in Nat /\ Weigh(w, S \ R) \in Nat
<1>0. ASSUME NEW T \in SUBSET S
      PROVE  IsFiniteSet(T) /\ Weigh(w, T) \in Nat
  <2>1. IsFiniteSet(T)
    BY FS_Subset
  <2>2. QED  BY <2>1, WeighNat
<1> DEFINE Bad == {T \in SUBSET S : T \subseteq R /\
                     Weigh(w, S) # Weigh(w, T) + Weigh(w, S \ T)}
<1>1. SUFFICES ASSUME Bad # {} PROVE FALSE
  BY <1>0
<1>2. PICK T \in Bad : \A V \in Bad : V \subseteq T => V = T
  <2>1. Bad \subseteq SUBSET S /\ Bad # {}
    BY <1>1
  <2> HIDE DEF Bad
  <2>2. QED  BY <2>1, SmallestSet
<1>3. T # {}
  <2>1. S \ {} = S
    OBVIOUS
  <2>2. Weigh(w, S) = Weigh(w, {}) + Weigh(w, S)
    BY <1>0, WeighEmpty
  <2>3. QED  BY <2>1, <2>2
<1>4. PICK x : x \in T
  BY <1>3
<1> DEFINE U == T \ {x}
<1>5. U \in SUBSET S /\ U # T /\ U \subseteq R
  BY <1>4
<1>6. Weigh(w, S) = Weigh(w, U) + Weigh(w, S \ U)
  BY <1>2, <1>5
<1>7. Weigh(w, T) = w[x] + Weigh(w, U)
  BY <1>0, <1>4, WeighAny
<1>8. Weigh(w, S \ U) = w[x] + Weigh(w, S \ T)
  <2>1. (S \ U) \ {x} = S \ T /\ x \in S \ U /\ S \ U \in SUBSET S
    BY <1>4
  <2>2. IsFiniteSet(S \ U) /\ \A k \in S \ U : w[k] \in Nat
    BY <1>0, <2>1
  <2> HIDE DEF U
  <2>3. QED  BY <2>1, <2>2, WeighAny
<1>9. Weigh(w, U) \in Nat /\ Weigh(w, S \ T) \in Nat /\ w[x] \in Nat
  <2>1. S \ T \in SUBSET S
    OBVIOUS
  <2>2. QED  BY <1>0, <1>4, <1>5, <2>1
<1> HIDE DEF U
<1>10. QED  BY <1>6, <1>7, <1>8, <1>9

Image(f, T) == {f[p] : p \in T}

LEMMA ImageFinite ==
  ASSUME NEW f, NEW T, IsFiniteSet(T)
  PROVE  IsFiniteSet(Image(f, T))
<1> DEFINE g == [p \in T |-> f[p]]
<1>1. g \in Surjection(T, Image(f, T))
  BY DEF Surjection, Image
<1>2. QED  BY <1>1, FS_Surjection

LEMMA WeighImage ==
  ASSUME NEW w, NEW v, NEW f, NEW P, IsFiniteSet(P),
         \A p \in P : w[p] \in Nat /\ v[f[p]] = w[p],
         \A p, q \in P : f[p] = f[q] => p = q
  PROVE  Weigh(w, P) = Weigh(v, Image(f, P))
<1> DEFINE Bad == {T \in SUBSET P : Weigh(w, T) # Weigh(v, Image(f, T))}
<1>1. SUFFICES ASSUME Bad # {} PROVE FALSE
  OBVIOUS
<1>2. PICK T \in Bad : \A V \in Bad : V \subseteq T => V = T
  <2>1. Bad \subseteq SUBSET P /\ Bad # {}
    BY <1>1
  <2> HIDE DEF Bad
  <2>2. QED  BY <2>1, SmallestSet
<1>3. T # {}
  <2>1. Image(f, {}) = {}
    BY DEF Image
  <2>2. QED  BY <2>1, WeighEmpty
<1>4. PICK x : x \in T
  BY <1>3
<1> DEFINE U == T \ {x}
<1>5. U \in SUBSET P /\ U # T
  BY <1>4
<1>6. Weigh(w, U) = Weigh(v, Image(f, U))
  BY <1>2, <1>5
<1>7. IsFiniteSet(T) /\ IsFiniteSet(Image(f, T))
  BY FS_Subset, ImageFinite
<1>8. Weigh(w, T) = w[x] + Weigh(w, U)
  BY <1>4, <1>7, WeighAny
<1>9. Image(f, T) \ {f[x]} = Image(f, U) /\ f[x] \in Image(f, T)
  <2>1. \A p \in U : f[p] # f[x]
    BY <1>4
  <2>2. QED  BY <1>4, <2>1 DEF Image
<1>10. \A k \in Image(f, T) : v[k] \in Nat
  BY DEF Image
<1>11. Weigh(v, Image(f, T)) = v[f[x]] + Weigh(v, Image(f, U))
  <2> DEFINE I == Image(f, T)
             y == f[x]
  <2>1. IsFiniteSet(I) /\ (\A k \in I : v[k] \in Nat) /\ y \in I /\ I \ {y} = Image(f, U)
    BY <1>7, <1>9, <1>10
  <2> HIDE DEF I, y, U
  <2>2. Weigh(v, I) = v[y] + Weigh(v, I \ {y})
    BY <2>1, WeighAny
  <2>3. QED  BY <2>1, <2>2 DEF I, y
<1>12. v[f[x]] = w[x]
  BY <1>4
<1> HIDE DEF U
<1>13. QED  BY <1>6, <1>8, <1>11, <1>12

-----------------------------------------------------------------------------
(* The running byte counter.                                               *)

BytesOf(ents) == [k \in DOMAIN ents |-> ents[k].bytes]
EntryBytes(ents) == MapThenSumSet(LAMBDA k : ents[k].bytes, DOMAIN ents)

LEMMA EntryBytesIsWeight ==
  ASSUME NEW ents, IsFiniteSet(DOMAIN ents)
  PROVE  EntryBytes(ents) = Weigh(BytesOf(ents), DOMAIN ents)
<1> DEFINE D == DOMAIN ents
           B == BytesOf(ents)
           G(h) == [s \in SUBSET D |-> IF s = {} THEN 0
                                       ELSE ents[Pick(s)].bytes + h[s \ {Pick(s)}]]
           g == CHOOSE h : h = G(h)
<1>1. EntryBytes(ents) = g[D]
  BY DEF EntryBytes, MapThenSumSet, MapThenFoldSet, Pick
<1>2. \A h : G(h) = Fold(B, D, h)
  <2>1. \A s \in SUBSET D : s # {} => B[Pick(s)] = ents[Pick(s)].bytes
    BY PickIn DEF BytesOf
  <2> HIDE DEF B, D
  <2>2. QED  BY <2>1 DEF Fold
<1>3. PICK h : h = Fold(B, D, h)
  BY FoldExists
<1>4. h = G(h)
  BY <1>2, <1>3
<1>5. g = G(g)
  <2> HIDE DEF G
  <2>1. QED  BY <1>4, Zenon
<1> HIDE DEF g, B, D, G
<1>6. g = Fold(B, D, g)
  BY <1>2, <1>5
<1>7. IsFiniteSet(D)
  BY DEF D
<1>8. Weigh(B, D) = g[D]
  BY <1>6, <1>7, WeighIsFold
<1>9. QED  BY <1>1, <1>8 DEF B, D

LEMMA PairBytesIsWeight ==
  ASSUME NEW ents, NEW pairs, IsFiniteSet(pairs)
  PROVE  PairBytes(ents, pairs) = Weigh([p \in pairs |-> ents[p[2]].bytes], pairs)
<1> DEFINE B == [p \in pairs |-> ents[p[2]].bytes]
           G(h) == [s \in SUBSET pairs |-> IF s = {} THEN 0
                                           ELSE ents[Pick(s)[2]].bytes + h[s \ {Pick(s)}]]
           g == CHOOSE h : h = G(h)
<1>1. PairBytes(ents, pairs) = g[pairs]
  BY DEF PairBytes, MapThenSumSet, MapThenFoldSet, Pick
<1>2. \A h : G(h) = Fold(B, pairs, h)
  <2>1. \A s \in SUBSET pairs : s # {} => B[Pick(s)] = ents[Pick(s)[2]].bytes
    BY PickIn
  <2> HIDE DEF B
  <2>2. QED  BY <2>1 DEF Fold
<1>3. PICK h : h = Fold(B, pairs, h)
  BY FoldExists
<1>4. h = G(h)
  BY <1>2, <1>3
<1>5. g = G(g)
  <2> HIDE DEF G
  <2>1. QED  BY <1>4, Zenon
<1> HIDE DEF g, B, G
<1>6. g = Fold(B, pairs, g)
  BY <1>2, <1>5
<1>7. Weigh(B, pairs) = g[pairs]
  BY <1>6, WeighIsFold
<1>8. QED  BY <1>1, <1>7 DEF B

Weighed(ents) == IsFiniteSet(DOMAIN ents) /\ \A k \in DOMAIN ents : ents[k].bytes \in Nat

(* The bytes of popped pairs are the bytes of the keys that leave.         *)
LEMMA PoppedBytes ==
  ASSUME NEW ents, Weighed(ents), NEW heap, heap \subseteq Nat \X Key, NEW t
  PROVE  LET popped == PoppedUpTo(ents, heap, t)
             gone   == {p[2] : p \in popped}
         IN  /\ gone \subseteq DOMAIN ents
             /\ PairBytes(ents, popped) = Weigh(BytesOf(ents), gone)
<1> DEFINE popped == PoppedUpTo(ents, heap, t)
           gone   == {p[2] : p \in popped}
           pairOf == [k \in gone |-> <<ents[k].last_touch, k>>]
           keyOf  == [p \in popped |-> p[2]]
           w      == [p \in popped |-> ents[p[2]].bytes]
           B      == BytesOf(ents)
<1>1. \A p \in popped : /\ p \in Nat \X Key /\ p[2] \in DOMAIN ents
                        /\ p = <<ents[p[2]].last_touch, p[2]>>
  BY DEF PoppedUpTo, LivePairs
<1> HIDE DEF popped
<1>2. gone \subseteq DOMAIN ents
  BY <1>1
<1>3. IsFiniteSet(gone)
  BY <1>2, FS_Subset DEF Weighed
<1>4. IsFiniteSet(popped)
  <2>1. pairOf \in Surjection(gone, popped)
    <3>1. pairOf \in [gone -> popped]
      BY <1>1
    <3>2. \A p \in popped : \E k \in gone : pairOf[k] = p
      BY <1>1
    <3>3. QED  BY <3>1, <3>2 DEF Surjection
  <2> HIDE DEF gone, pairOf
  <2>2. QED  BY <1>3, <2>1, FS_Surjection
<1>5. PairBytes(ents, popped) = Weigh(w, popped)
  BY <1>4, PairBytesIsWeight
<1>6. /\ \A p \in popped : w[p] \in Nat /\ B[keyOf[p]] = w[p]
      /\ \A p, q \in popped : keyOf[p] = keyOf[q] => p = q
  BY <1>1 DEF Weighed, BytesOf
<1>7. Image(keyOf, popped) = gone
  BY DEF Image
<1> HIDE DEF w, keyOf, gone, B
<1>8. Weigh(w, popped) = Weigh(B, Image(keyOf, popped))
  BY <1>4, <1>6, WeighImage
<1>9. QED  BY <1>2, <1>5, <1>7, <1>8 DEF popped, gone, B

(* Popping takes exactly the popped bytes off an exact counter.            *)
LEMMA PopKeepsAccount ==
  ASSUME NEW ents, Weighed(ents), NEW heap, heap \subseteq Nat \X Key, NEW res, NEW t,
         res = EntryBytes(ents), PopThrough(ents, heap, res, t)
  PROVE  /\ Weighed(entries') /\ resident_bytes' = EntryBytes(entries')
         /\ resident_bytes' \in Nat /\ resident_bytes' <= res
         /\ resident_bytes' = SatSub(res, PairBytes(ents, PoppedUpTo(ents, heap, t)))
<1> DEFINE popped == PoppedUpTo(ents, heap, t)
           gone   == {p[2] : p \in popped}
           B      == BytesOf(ents)
           D      == DOMAIN ents
           E      == DOMAIN ents \ gone
<1>1. gone \subseteq D /\ PairBytes(ents, popped) = Weigh(B, gone)
  BY PoppedBytes
<1>2. /\ entries' = [x \in E |-> ents[x]]
      /\ resident_bytes' = SatSub(res, PairBytes(ents, popped))
  BY DEF PopThrough
<1> HIDE DEF popped, gone
<1>3. IsFiniteSet(D) /\ IsFiniteSet(E) /\ \A k \in D : B[k] \in Nat
  BY FS_Subset DEF Weighed, BytesOf
<1>4. Weigh(B, D) = Weigh(B, gone) + Weigh(B, E) /\ Weigh(B, gone) \in Nat /\ Weigh(B, E) \in Nat
  <2>1. IsFiniteSet(D) /\ (\A k \in D : B[k] \in Nat) /\ gone \in SUBSET D
    BY <1>1, <1>3
  <2> HIDE DEF B, D
  <2>2. /\ Weigh(B, D) = Weigh(B, gone) + Weigh(B, D \ gone)
        /\ Weigh(B, gone) \in Nat /\ Weigh(B, D \ gone) \in Nat
    BY <2>1, WeighSplit
  <2>3. QED  BY <2>2 DEF D
<1>5. res = Weigh(B, D)
  BY <1>3, EntryBytesIsWeight
<1>6. resident_bytes' = Weigh(B, E) /\ resident_bytes' \in Nat /\ resident_bytes' <= res
  <2> HIDE DEF B, D, E
  <2>1. QED  BY <1>1, <1>2, <1>4, <1>5 DEF SatSub
<1>7. Weighed(entries') /\ DOMAIN entries' = E
  BY <1>2, <1>3 DEF Weighed
<1>8. EntryBytes(entries') = Weigh(BytesOf(entries'), E)
  BY <1>7, EntryBytesIsWeight DEF Weighed
<1>9. Weigh(BytesOf(entries'), E) = Weigh(B, E)
  <2>1. \A k \in E : BytesOf(entries')[k] = B[k]
    BY <1>2, <1>7 DEF BytesOf
  <2> HIDE DEF B, E
  <2> DEFINE N == BytesOf(entries')
  <2> HIDE DEF N
  <2>2. \A k \in E : N[k] = B[k]
    BY <2>1 DEF N
  <2>3. Weigh(N, E) = Weigh(B, E)
    BY <1>3, <2>2, WeighSame
  <2>4. QED  BY <2>3 DEF N
<1>10. QED  BY <1>2, <1>6, <1>7, <1>8, <1>9 DEF popped

Account ==
  /\ Weighed(entries) /\ resident_bytes = EntryBytes(entries)
  /\ resident_bytes \in Nat /\ WithinBudget

LEMMA CounterIsWeight ==
  ASSUME Account
  PROVE  resident_bytes = EntryBytes(entries)
BY DEF Account

(* touch's counter is exact before the eviction loop starts.               *)
LEMMA TouchedBytes ==
  ASSUME Account, NEW k, NEW b \in Nat
  PROVE  /\ Weighed(Touched(entries, k, b))
         /\ ResidentAfterTouch(entries, resident_bytes, k, b) = EntryBytes(Touched(entries, k, b))
<1> DEFINE ents == Touched(entries, k, b)
           D == DOMAIN entries
           N == DOMAIN ents
           B == BytesOf(entries)
           C == BytesOf(ents)
           res == ResidentAfterTouch(entries, resident_bytes, k, b)
           rest == Weigh(B, D \ {k})
<1>1. /\ N = D \cup {k} /\ ents[k].bytes = b
      /\ \A x \in D : x # k => ents[x] = entries[x]
  BY DEF Touched
<1>2. IsFiniteSet(D) /\ \A x \in D : entries[x].bytes \in Nat
  BY DEF Account, Weighed
<1> HIDE DEF ents
<1>3. IsFiniteSet(N) /\ \A x \in N : ents[x].bytes \in Nat
  <2>1. IsFiniteSet(N)
    BY <1>1, <1>2, FS_AddElement
  <2>2. QED  BY <1>1, <1>2, <2>1
<1>4. EntryBytes(ents) = Weigh(C, N)
  BY <1>3, EntryBytesIsWeight
<1>5. (\A x \in N : C[x] \in Nat) /\ (\A x \in D : B[x] \in Nat) /\ C[k] = b
  BY <1>1, <1>2, <1>3 DEF BytesOf
<1>6. Weigh(C, N) = b + Weigh(C, N \ {k})
  <2>1. IsFiniteSet(N) /\ k \in N
    BY <1>1, <1>3
  <2> HIDE DEF C, N
  <2>2. QED  BY <1>5, <2>1, WeighAny
<1>7. N \ {k} = D \ {k} /\ IsFiniteSet(D \ {k})
  BY <1>1, <1>2, FS_Subset
<1>8. Weigh(C, D \ {k}) = rest
  <2>1. \A x \in D \ {k} : C[x] = B[x]
    BY <1>1 DEF BytesOf
  <2> HIDE DEF B, C, D
  <2>2. QED  BY <1>7, <2>1, WeighSame
<1>9. rest \in Nat
  <2>1. \A x \in D \ {k} : B[x] \in Nat
    BY <1>5
  <2> HIDE DEF B, D
  <2>2. QED  BY <1>7, <2>1, WeighNat
<1>10. resident_bytes = Weigh(B, D)
  BY <1>2, CounterIsWeight, EntryBytesIsWeight
<1>11. res = rest + b
  <2>1. CASE k \in D
    <3>1. res = SatSub(resident_bytes, entries[k].bytes) + b
      BY <2>1 DEF ResidentAfterTouch
    <3>2. Weigh(B, D) = B[k] + rest
      <4>1. IsFiniteSet(D)
        BY <1>2
      <4> HIDE DEF B, D
      <4>2. QED  BY <1>5, <2>1, <4>1, WeighAny
    <3>3. B[k] = entries[k].bytes /\ B[k] \in Nat
      BY <1>5, <2>1 DEF BytesOf
    <3> HIDE DEF B, rest, res
    <3>4. QED  BY <1>9, <1>10, <3>1, <3>2, <3>3 DEF SatSub
  <2>2. CASE k \notin D
    <3>1. res = resident_bytes + b /\ D \ {k} = D
      BY <2>2 DEF ResidentAfterTouch
    <3>2. QED  BY <1>10, <3>1
  <2>3. QED  BY <2>1, <2>2
<1> HIDE DEF res, rest
<1>12. EntryBytes(ents) = b + rest
  BY <1>4, <1>6, <1>7, <1>8
<1>13. res = EntryBytes(ents)
  BY <1>9, <1>11, <1>12
<1>14. Weighed(ents)
  BY <1>3 DEF Weighed
<1>15. QED  BY <1>13, <1>14 DEF ents, res

LEMMA NoEntriesWeighNothing ==
  ASSUME NEW ents, DOMAIN ents = {}
  PROVE  EntryBytes(ents) = 0
<1>1. IsFiniteSet(DOMAIN ents)
  BY FS_EmptySet
<1>2. EntryBytes(ents) = Weigh(BytesOf(ents), {})
  BY <1>1, EntryBytesIsWeight
<1>3. QED  BY <1>2, WeighEmpty

(* The eviction loop stops within the budget: at the first stamp that      *)
(* brings the counter down to it, or with nothing left.                    *)
LEMMA CutFits ==
  ASSUME NEW ents, Weighed(ents), NEW heap, heap \subseteq Nat \X Key, clock \in Nat,
         \A k \in DOMAIN ents : <<ents[k].last_touch, k>> \in heap,
         \A p \in heap : p[1] <= clock + 1,
         NEW res, res = EntryBytes(ents),
         PopThrough(ents, heap, res, EvictionCut(ents, heap, res))
  PROVE  resident_bytes' <= MaxBytes
<1> DEFINE t == EvictionCut(ents, heap, res)
           Fits == {u \in {p[1] : p \in LivePairs(ents, heap)} :
                      SatSub(res, PairBytes(ents, PoppedUpTo(ents, heap, u))) <= MaxBytes}
<1>1. /\ Weighed(entries') /\ resident_bytes' = EntryBytes(entries')
      /\ resident_bytes' \in Nat /\ resident_bytes' <= res
      /\ resident_bytes' = SatSub(res, PairBytes(ents, PoppedUpTo(ents, heap, t)))
  BY PopKeepsAccount
<1>2. MaxBytes \in Nat
  BY LruAssumption
<1>3. res \in Nat
  <2>1. res = Weigh(BytesOf(ents), DOMAIN ents)
    BY EntryBytesIsWeight DEF Weighed
  <2>2. IsFiniteSet(DOMAIN ents) /\ \A k \in DOMAIN ents : BytesOf(ents)[k] \in Nat
    BY DEF Weighed, BytesOf
  <2>3. QED  BY <2>1, <2>2, WeighNat
<1>4. CASE res <= MaxBytes
  BY <1>1, <1>2, <1>3, <1>4
<1>5. CASE ~(res <= MaxBytes)
  <2>1. t = Min({clock + 1} \cup Fits)
    BY <1>5 DEF EvictionCut
  <2>2. {clock + 1} \cup Fits \subseteq Nat /\ {clock + 1} \cup Fits # {}
    BY DEF LivePairs
  <2> HIDE DEF t
  <2>3. t \in {clock + 1} \cup Fits
    <3> HIDE DEF Fits
    <3>1. QED  BY <2>1, <2>2, MinOfNats, Zenon
  <2>4. CASE t \in Fits
    BY <1>1, <2>4
  <2>5. CASE t = clock + 1
    <3> DEFINE popped == PoppedUpTo(ents, heap, t)
               gone   == {p[2] : p \in popped}
    <3>1. entries' = [x \in DOMAIN ents \ gone |-> ents[x]]
      BY DEF PopThrough, t
    <3>2. ASSUME NEW k \in DOMAIN ents PROVE k \in gone
      <4> DEFINE pair == <<ents[k].last_touch, k>>
      <4>1. pair \in heap /\ pair[1] <= t
        BY <2>5
      <4>2. pair \in popped
        BY <4>1 DEF PoppedUpTo, LivePairs
      <4>3. QED  BY <4>2
    <3>3. DOMAIN entries' = {}
      BY <3>1, <3>2
    <3>4. resident_bytes' = 0
      BY <1>1, <3>3, NoEntriesWeighNothing
    <3>5. QED  BY <1>2, <3>4
  <2>6. QED  BY <2>3, <2>4, <2>5
<1>6. QED  BY <1>4, <1>5

LEMMA TouchKeepsAccount ==
  ASSUME HeapInv, Account, NEW k \in Key, NEW b \in Bytes, Touch(k, b)
  PROVE  Account'
<1> DEFINE ents == Touched(entries, k, b)
           heap == Pushed(oldest, k)
           res  == ResidentAfterTouch(entries, resident_bytes, k, b)
<1>1. b \in Nat /\ clock \in Nat
  BY LruAssumption DEF HeapInv, StampsTyped
<1>2. PopThrough(ents, heap, res, EvictionCut(ents, heap, res))
  BY DEF Touch
<1>3. Weighed(ents) /\ res = EntryBytes(ents)
  BY <1>1, TouchedBytes
<1>4. /\ heap \subseteq Nat \X Key
      /\ \A p \in heap : p[1] <= clock + 1
  BY <1>1 DEF Pushed, HeapInv, StampsTyped, HeapTracksEntries
<1>5. \A x \in DOMAIN ents : <<ents[x].last_touch, x>> \in heap
  BY DEF Touched, Pushed, HeapInv, HeapTracksEntries
<1> HIDE DEF ents, heap, res
<1>6. Weighed(entries') /\ resident_bytes' = EntryBytes(entries') /\ resident_bytes' \in Nat
  BY <1>2, <1>3, <1>4, PopKeepsAccount
<1>7. resident_bytes' <= MaxBytes
  BY <1>1, <1>2, <1>3, <1>4, <1>5, CutFits
<1>8. QED  BY <1>6, <1>7 DEF Account, WithinBudget

LEMMA PopOldestKeepsAccount ==
  ASSUME HeapInv, Account, PopOldest
  PROVE  Account'
<1>1. \E t : PopThrough(entries, oldest, resident_bytes, t)
  BY DEF PopOldest
<1>2. /\ Weighed(entries) /\ resident_bytes = EntryBytes(entries) /\ oldest \subseteq Nat \X Key
      /\ resident_bytes \in Nat /\ resident_bytes <= MaxBytes
  BY CounterIsWeight DEF Account, WithinBudget, HeapInv, StampsTyped
<1>3. /\ Weighed(entries') /\ resident_bytes' = EntryBytes(entries') /\ resident_bytes' \in Nat
      /\ resident_bytes' <= resident_bytes
  BY <1>1, <1>2, PopKeepsAccount
<1>4. resident_bytes' <= MaxBytes
  BY <1>2, <1>3, LruAssumption
<1>5. QED  BY <1>3, <1>4 DEF Account, WithinBudget

LEMMA RemoveKeepsAccount ==
  ASSUME Account, NEW k \in Key, Remove(k)
  PROVE  Account'
<1>1. CASE k \notin DOMAIN entries
  BY <1>1 DEF Remove, Account, WithinBudget
<1>2. CASE k \in DOMAIN entries
  <2> DEFINE D == DOMAIN entries
             B == BytesOf(entries)
             N == BytesOf(entries')
             rest == Weigh(B, D \ {k})
  <2>1. /\ entries' = [x \in D \ {k} |-> entries[x]]
        /\ resident_bytes' = SatSub(resident_bytes, entries[k].bytes)
    BY <1>2 DEF Remove, ResidentAfterRemove
  <2>2. IsFiniteSet(D) /\ \A x \in D : B[x] \in Nat
    BY DEF Account, Weighed, BytesOf
  <2>3. resident_bytes = Weigh(B, D)
    BY <2>2, CounterIsWeight, EntryBytesIsWeight
  <2>4. Weighed(entries') /\ DOMAIN entries' = D \ {k} /\ IsFiniteSet(D \ {k})
    BY <2>1, <2>2, FS_Subset DEF Weighed, Account
  <2>5. EntryBytes(entries') = Weigh(N, D \ {k})
    BY <2>4, EntryBytesIsWeight
  <2>6. \A x \in D \ {k} : N[x] = B[x] /\ B[x] \in Nat
    BY <2>1, <2>2 DEF BytesOf
  <2>7. B[k] = entries[k].bytes
    BY <1>2 DEF BytesOf
  <2> HIDE DEF B, D, N
  <2>8. k \in D
    BY <1>2 DEF D
  <2>9. Weigh(N, D \ {k}) = rest /\ rest \in Nat
    BY <2>4, <2>6, WeighSame, WeighNat
  <2>10. Weigh(B, D) = B[k] + rest
    BY <2>2, <2>8, WeighAny
  <2>11. B[k] \in Nat
    BY <2>2, <2>8
  <2> HIDE DEF rest
  <2>12. resident_bytes' = rest
    BY <2>1, <2>3, <2>7, <2>9, <2>10, <2>11 DEF SatSub
  <2>13. rest <= MaxBytes
    BY <2>3, <2>9, <2>10, <2>11, LruAssumption DEF Account, WithinBudget
  <2>14. QED
    BY <2>4, <2>5, <2>9, <2>12, <2>13 DEF Account, WithinBudget
<1>3. QED  BY <1>1, <1>2

LEMMA AccountAlways == Spec => [](HeapInv /\ Account)
<1>1. Init => HeapInv /\ Account
  <2> SUFFICES ASSUME Init PROVE HeapInv /\ Account
    OBVIOUS
  <2>1. HeapInv
    BY DEF Init, HeapInv, StampsTyped, HeapTracksEntries
  <2>2. DOMAIN entries = {} /\ resident_bytes = 0
    BY DEF Init
  <2>3. EntryBytes(entries) = 0
    BY <2>2, NoEntriesWeighNothing
  <2>4. Account
    BY <2>2, <2>3, FS_EmptySet, LruAssumption
       DEF Account, Weighed, WithinBudget
  <2>5. QED  BY <2>1, <2>4
<1>2. HeapInv /\ Account /\ [Next]_vars => (HeapInv /\ Account)'
  <2> SUFFICES ASSUME HeapInv, Account, [Next]_vars PROVE HeapInv' /\ Account'
    OBVIOUS
  <2>1. CASE \E k \in Key, b \in Bytes : Touch(k, b)
    BY <2>1, TouchKeepsHeap, TouchKeepsAccount
  <2>2. CASE PopOldest
    BY <2>2, PopOldestKeepsHeap, PopOldestKeepsAccount
  <2>3. CASE \E k \in Key : Remove(k)
    BY <2>3, RemoveKeepsHeap, RemoveKeepsAccount
  <2>4. CASE UNCHANGED vars
    BY <2>4 DEF vars, HeapInv, StampsTyped, HeapTracksEntries,
                Account, WithinBudget
  <2>5. QED  BY <2>1, <2>2, <2>3, <2>4 DEF Next
<1>3. QED  BY <1>1, <1>2, PTL DEF Spec

(* The running counter is always the sum of the tracked keys' bytes,       *)
(* through re-touches, removals and any number of evictions: touch,        *)
(* pop_oldest and remove take off exactly what they add.                   *)
THEOREM CounterIsExact == Spec => []AccountingExact
<1>1. Account => AccountingExact
  BY DEF Account, AccountingExact, EntryBytes
<1>2. QED  BY AccountAlways, <1>1, PTL

(* Every call returns within the budget, whatever was touched: the         *)
(* eviction loop of touch never gives up with bytes to spare, a key larger *)
(* than the whole budget included.                                         *)
THEOREM BudgetAlwaysRespected == Spec => []WithinBudget
<1>1. Account => WithinBudget
  BY DEF Account
<1>2. QED  BY AccountAlways, <1>1, PTL

-----------------------------------------------------------------------------
(* Keys in the order of their stamps.                                       *)

Listed(s) == {s[i] : i \in 1..Len(s)}
Front(s, n) == {s[i] : i \in 1..n}

(* s lists the keys K, each later one touched later.                        *)
InOrder(ents, K, s) ==
  /\ s \in Seq(K) /\ Listed(s) = K
  /\ \A i, j \in 1..Len(s) : i < j => ents[s[i]].last_touch < ents[s[j]].last_touch

(* Keys with stamps of their own.                                           *)
Stamped(ents, K) ==
  /\ IsFiniteSet(K) /\ \A k \in K : ents[k].last_touch \in Nat
  /\ \A j, k \in K : ents[j].last_touch = ents[k].last_touch => j = k

AgreeBelow(s, t, i) == \A j \in 1..i - 1 : j <= Len(t) /\ s[j] = t[j]
FoundFrom(s, t, i) == \E j \in 1..Len(t) : s[i] = t[j] /\ i <= j

(* Up to i two lists of the same keys agree, or the first to differ would   *)
(* be both older and newer than the other.                                  *)
LEMMA OrderAgrees ==
  ASSUME NEW ents, NEW K, \A k \in K : ents[k].last_touch \in Nat,
         NEW s, InOrder(ents, K, s), NEW t, InOrder(ents, K, t),
         NEW i \in 1..Len(s), AgreeBelow(s, t, i)
  PROVE  FoundFrom(s, t, i)
<1>0. Len(s) \in Nat /\ Len(t) \in Nat
  BY DEF InOrder
<1>1. s[i] \in Listed(t)
  BY DEF InOrder, Listed
<1>2. PICK j \in 1..Len(t) : s[i] = t[j]
  BY <1>1 DEF Listed
<1>3. ASSUME j < i PROVE FALSE
  <2>1. j \in 1..i - 1 /\ j \in 1..Len(s)
    BY <1>0, <1>3
  <2>2. s[j] = s[i]
    BY <1>2, <2>1 DEF AgreeBelow
  <2>3. s[i] \in K /\ ents[s[j]].last_touch < ents[s[i]].last_touch
    BY <1>3, <2>1 DEF InOrder, Listed
  <2>4. QED  BY <2>2, <2>3
<1>4. QED  BY <1>0, <1>2, <1>3 DEF FoundFrom

LEMMA OrderUnique ==
  ASSUME NEW ents, NEW K, \A k \in K : ents[k].last_touch \in Nat,
         NEW s, InOrder(ents, K, s), NEW t, InOrder(ents, K, t)
  PROVE  s = t
<1> DEFINE Same(i) == i \in 1..Len(s) /\ i \in 1..Len(t) /\ s[i] = t[i]
           Bad == {i \in Nat : (i \in 1..Len(s) \/ i \in 1..Len(t)) /\ ~Same(i)}
<1>0. Len(s) \in Nat /\ Len(t) \in Nat /\ s \in Seq(K) /\ t \in Seq(K)
  BY DEF InOrder
<1>1. SUFFICES ASSUME Bad # {} PROVE FALSE
  <2>1. \A i \in 1..Len(s) : i \in 1..Len(t) /\ s[i] = t[i]
    BY <1>0
  <2>2. \A i \in 1..Len(t) : i \in 1..Len(s)
    BY <1>0
  <2>3. Len(s) = Len(t)
    BY <1>0, <2>1, <2>2
  <2>4. QED  BY <1>0, <2>1, <2>3
<1>2. PICK i \in Bad : \A k \in Bad : i <= k
  <2>1. Bad \subseteq Nat /\ Bad # {}
    BY <1>1
  <2> HIDE DEF Bad
  <2>2. QED  BY <2>1, SmallestNat
<1>3. /\ i \in Nat /\ (i \in 1..Len(s) \/ i \in 1..Len(t)) /\ ~Same(i)
      /\ \A j \in 1..i - 1 : Same(j)
  <2>1. i \in Nat /\ (i \in 1..Len(s) \/ i \in 1..Len(t)) /\ ~Same(i)
    BY <1>2
  <2>2. ASSUME NEW j \in 1..i - 1 PROVE Same(j)
    <3>1. j \in Nat /\ ~(i <= j) /\ (j \in 1..Len(s) \/ j \in 1..Len(t))
      BY <1>0, <2>1
    <3> HIDE DEF Same
    <3>2. QED  BY <1>2, <3>1
  <2>3. QED  BY <2>1, <2>2
<1>4. AgreeBelow(s, t, i) /\ AgreeBelow(t, s, i)
  BY <1>0, <1>3 DEF AgreeBelow
<1> HIDE DEF Bad
<1>5. i \in 1..Len(s) => FoundFrom(s, t, i)
  BY <1>4, OrderAgrees
<1>6. i \in 1..Len(t) => FoundFrom(t, s, i)
  BY <1>4, OrderAgrees
<1>7. i \in 1..Len(s) /\ i \in 1..Len(t)
  BY <1>0, <1>3, <1>5, <1>6 DEF FoundFrom
<1>8. PICK j \in 1..Len(t) : s[i] = t[j] /\ i <= j
  BY <1>5, <1>7 DEF FoundFrom
<1>9. PICK l \in 1..Len(s) : t[i] = s[l] /\ i <= l
  BY <1>6, <1>7 DEF FoundFrom
<1>10. s[i] # t[i] /\ i < j /\ i < l
  BY <1>0, <1>3, <1>7, <1>8, <1>9
<1>11. /\ ents[t[i]].last_touch < ents[t[j]].last_touch
       /\ ents[s[i]].last_touch < ents[s[l]].last_touch
  BY <1>7, <1>10 DEF InOrder
<1>12. ents[t[i]].last_touch \in Nat /\ ents[s[i]].last_touch \in Nat
  BY <1>7 DEF InOrder, Listed
<1>13. QED  BY <1>8, <1>9, <1>11, <1>12

(* The key touched least recently comes first, then the others.            *)
LEMMA OrderExists ==
  ASSUME NEW ents, NEW K, Stamped(ents, K)
  PROVE  \E s \in [1..Cardinality(K) -> K] :
           \A i, j \in 1..Cardinality(K) :
             i < j => ents[s[i]].last_touch < ents[s[j]].last_touch
<1> DEFINE Fine(T) ==
      \E s \in [1..Cardinality(T) -> T] :
        \A i, j \in 1..Cardinality(T) :
          i < j => ents[s[i]].last_touch < ents[s[j]].last_touch
           Bad == {T \in SUBSET K : ~Fine(T)}
<1>1. SUFFICES ASSUME Bad # {} PROVE FALSE
  OBVIOUS
<1>2. PICK T \in Bad : \A V \in Bad : V \subseteq T => V = T
  <2>1. Bad \subseteq SUBSET K /\ Bad # {} /\ IsFiniteSet(K)
    BY <1>1 DEF Stamped
  <2> HIDE DEF Bad
  <2>2. QED  BY <2>1, SmallestSet
<1>3. T \subseteq K /\ IsFiniteSet(T) /\ ~Fine(T) /\ Cardinality(T) \in Nat
  BY <1>2, FS_Subset, FS_CardinalityType DEF Stamped
<1>4. T # {}
  <2> SUFFICES ASSUME T = {} PROVE FALSE
    OBVIOUS
  <2>1. 1..Cardinality(T) = {}
    BY FS_EmptySet
  <2> DEFINE e == [i \in 1..Cardinality(T) |-> i]
  <2>2. e \in [1..Cardinality(T) -> T]
    BY <2>1
  <2>3. Fine(T)
    BY <2>1, <2>2
  <2>4. QED  BY <1>3, <2>3
<1> DEFINE Stamps == {ents[k].last_touch : k \in T}
<1>5. PICK x \in T : \A k \in T : ents[x].last_touch <= ents[k].last_touch
  <2>1. Stamps \subseteq Nat /\ Stamps # {}
    BY <1>3, <1>4 DEF Stamped
  <2>2. PICK m \in Stamps : \A y \in Stamps : m <= y
    <3> HIDE DEF Stamps
    <3>1. QED  BY <2>1, SmallestNat
  <2>3. QED  BY <2>2
<1> DEFINE V == T \ {x}
           c == Cardinality(V)
<1>6. /\ V \subseteq K /\ V # T /\ c \in Nat /\ Cardinality(T) = c + 1
      /\ \A k \in V : ents[x].last_touch < ents[k].last_touch
  <2>1. IsFiniteSet(V) /\ c = Cardinality(T) - 1
    BY <1>3, <1>5, FS_RemoveElement
  <2>2. c \in Nat
    BY <2>1, FS_CardinalityType
  <2> HIDE DEF c
  <2>3. \A k \in V : ents[x].last_touch < ents[k].last_touch
    <3> SUFFICES ASSUME NEW k \in V PROVE ents[x].last_touch < ents[k].last_touch
      OBVIOUS
    <3>1. x \in K /\ k \in K /\ x # k
      BY <1>3, <1>5
    <3>2. /\ ents[x].last_touch \in Nat /\ ents[k].last_touch \in Nat
          /\ ents[x].last_touch # ents[k].last_touch
      BY <3>1 DEF Stamped
    <3>3. QED  BY <1>5, <3>2
  <2>4. QED  BY <1>3, <1>5, <2>1, <2>2, <2>3
<1>7. Fine(V)
  <2>1. V \in SUBSET K /\ V \subseteq T /\ V # T
    BY <1>6
  <2> HIDE DEF Fine, V
  <2>2. QED  BY <1>2, <2>1
<1>8. PICK s \in [1..c -> V] :
        \A i, j \in 1..c : i < j => ents[s[i]].last_touch < ents[s[j]].last_touch
  BY <1>7
<1> DEFINE n == c + 1
           r == [i \in 1..n |-> IF i = 1 THEN x ELSE s[i - 1]]
<1> HIDE DEF c
<1>9. \A i \in 1..n : i # 1 => i - 1 \in 1..c /\ r[i] = s[i - 1] /\ s[i - 1] \in V
  BY <1>6, <1>8
<1>10. 1 \in 1..n /\ r[1] = x
  BY <1>6
<1>11. r \in [1..n -> T]
  BY <1>5, <1>9
<1> HIDE DEF r
<1>12. ASSUME NEW i \in 1..n, NEW j \in 1..n, i < j
       PROVE  ents[r[i]].last_touch < ents[r[j]].last_touch
  <2>1. j # 1
    BY <1>6, <1>12
  <2>2. CASE i = 1
    BY <1>6, <1>9, <1>10, <2>1, <2>2
  <2>3. CASE i # 1
    <3>1. i - 1 < j - 1
      BY <1>6, <1>12
    <3>2. QED  BY <1>8, <1>9, <2>1, <2>3, <3>1
  <2>4. QED  BY <2>2, <2>3
<1>13. Fine(T)
  <2>1. Cardinality(T) = n
    BY <1>6
  <2> HIDE DEF n
  <2>2. QED  BY <1>11, <1>12, <2>1
<1>14. QED  BY <1>3, <1>13

(* InTouchOrder lists each of the keys.                                     *)
LEMMA TouchOrderLists ==
  ASSUME NEW ents, NEW K, Stamped(ents, K)
  PROVE  InOrder(ents, K, InTouchOrder(ents, K))
<1> DEFINE n == Cardinality(K)
           s == InTouchOrder(ents, K)
<1>1. n \in Nat /\ IsFiniteSet(K)
  BY FS_CardinalityType DEF Stamped
<1>2. /\ s \in [1..n -> K]
      /\ \A i, j \in 1..n : i < j => ents[s[i]].last_touch < ents[s[j]].last_touch
  BY OrderExists, Zenon DEF InTouchOrder
<1> HIDE DEF s, n
<1>3. s \in Injection(1..n, K)
  <2>1. ASSUME NEW i \in 1..n, NEW j \in 1..n, i # j PROVE s[i] # s[j]
    <3>1. /\ ents[s[i]].last_touch \in Nat /\ ents[s[j]].last_touch \in Nat
          /\ i < j \/ j < i
      BY <1>1, <1>2, <2>1 DEF Stamped
    <3>2. QED  BY <1>2, <3>1
  <2>2. QED  BY <1>2, <2>1 DEF Injection, IsInjective
<1>4. Cardinality(1..n) = n
  BY <1>1, FS_Interval
<1>5. s \in Surjection(1..n, K)
  <2>1. Cardinality(1..n) = Cardinality(K)
    BY <1>4 DEF n
  <2>2. QED  BY <1>1, <1>3, <2>1, FS_Injection
<1>6. s \in Seq(K) /\ Len(s) = n
  BY <1>1, <1>2
<1>7. Listed(s) = K
  BY <1>2, <1>5, <1>6 DEF Listed, Surjection
<1>8. InOrder(ents, K, s)
  BY <1>2, <1>6, <1>7 DEF InOrder
<1>9. QED  BY <1>8 DEF s

(* ... and is the only list that does.                                     *)
LEMMA TouchOrderIs ==
  ASSUME NEW ents, NEW K, Stamped(ents, K), NEW s, InOrder(ents, K, s)
  PROVE  s = InTouchOrder(ents, K)
<1>1. \A k \in K : ents[k].last_touch \in Nat
  BY DEF Stamped
<1> DEFINE t == InTouchOrder(ents, K)
<1>2. InOrder(ents, K, t)
  BY TouchOrderLists
<1> HIDE DEF t
<1>3. s = t
  BY <1>1, <1>2, OrderUnique
<1>4. QED  BY <1>3 DEF t

LEMMA OrderAppend ==
  ASSUME NEW ents, NEW K, NEW s, InOrder(ents, K, s), NEW k,
         \A x \in K : ents[x].last_touch < ents[k].last_touch
  PROVE  InOrder(ents, K \cup {k}, Append(s, k))
<1> DEFINE n == Len(s)
           r == Append(s, k)
<1>1. s \in Seq(K) /\ n \in Nat /\ s \in Seq(K \cup {k})
  BY DEF InOrder
<1>2. r \in Seq(K \cup {k}) /\ Len(r) = n + 1 /\ r[n + 1] = k
  BY <1>1
<1>3. \A i \in 1..n : r[i] = s[i] /\ i \in 1..n + 1 /\ i # n + 1
  BY <1>1
<1>4. \A i \in 1..n + 1 : i \in 1..n \/ i = n + 1
  BY <1>1
<1>5. n + 1 \in 1..n + 1
  BY <1>1
<1>6. \A i \in 1..n : s[i] \in K
  BY <1>1
<1>7. \A i, j \in 1..n : i < j => ents[s[i]].last_touch < ents[s[j]].last_touch
  BY DEF InOrder
<1>8. K = {s[i] : i \in 1..n}
  BY DEF InOrder, Listed
<1> HIDE DEF r
<1>9. {r[i] : i \in 1..n + 1} = K \cup {k}
  BY <1>2, <1>3, <1>4, <1>5, <1>8
<1>10. ASSUME NEW i \in 1..n + 1, NEW j \in 1..n + 1, i < j
       PROVE  ents[r[i]].last_touch < ents[r[j]].last_touch
  <2>1. i \in 1..n
    BY <1>1, <1>10
  <2>2. CASE j \in 1..n
    BY <1>3, <1>7, <1>10, <2>1, <2>2
  <2>3. CASE j = n + 1
    BY <1>2, <1>3, <1>6, <2>1, <2>3
  <2>4. QED  BY <1>4, <2>2, <2>3
<1>11. InOrder(ents, K \cup {k}, r)
  BY <1>2, <1>9, <1>10 DEF InOrder, Listed
<1>12. QED  BY <1>11 DEF r

(* The oldest n keys, and the others.                                      *)
LEMMA OrderSplit ==
  ASSUME NEW ents, NEW K, \A k \in K : ents[k].last_touch \in Nat,
         NEW s, InOrder(ents, K, s), NEW n \in 0..Len(s),
         NEW F, F = Front(s, n)
  PROVE  /\ F \subseteq K
         /\ InOrder(ents, F, SubSeq(s, 1, n))
         /\ InOrder(ents, K \ F, SubSeq(s, n + 1, Len(s)))
<1> DEFINE m == Len(s)
           a == SubSeq(s, 1, n)
           b == SubSeq(s, n + 1, m)
<1>0. F = {s[i] : i \in 1..n}
  BY DEF Front
<1>1. s \in Seq(K) /\ m \in Nat /\ n \in Nat /\ n <= m
  BY DEF InOrder
<1>2. Len(a) = n /\ \A i \in 1..n : a[i] = s[i] /\ i \in 1..m
  BY <1>1
<1>3. Len(b) = m - n /\ \A i \in 1..m - n : b[i] = s[n + i] /\ n + i \in 1..m
  BY <1>1
<1>4. \A i, j \in 1..m : i < j => ents[s[i]].last_touch < ents[s[j]].last_touch
  BY DEF InOrder
<1>5. /\ K = {s[i] : i \in 1..m} /\ \A i \in 1..m : s[i] \in K /\ ents[s[i]].last_touch \in Nat
  BY DEF InOrder, Listed
<1>6. \A i, j \in 1..m : s[i] = s[j] => i = j
  <2> SUFFICES ASSUME NEW i \in 1..m, NEW j \in 1..m, s[i] = s[j], i # j PROVE FALSE
    OBVIOUS
  <2>1. i < j \/ j < i
    BY <1>1
  <2>2. QED  BY <1>4, <1>5, <2>1
<1>7. F \subseteq K
  BY <1>0, <1>2, <1>5
<1>8. a \in Seq(F)
  BY <1>0, <1>1, <1>2
<1>9. \A i \in 1..m - n : b[i] \in K \ F
  <2> SUFFICES ASSUME NEW i \in 1..m - n, NEW j \in 1..n, b[i] = s[j] PROVE FALSE
    BY <1>0, <1>3, <1>5
  <2>1. n + i = j
    BY <1>2, <1>3, <1>6
  <2>2. QED  BY <1>1, <2>1
<1>10. b \in Seq(K \ F)
  <2>1. b \in [1..Len(b) -> K] /\ Len(b) \in Nat
    <3>1. n + 1 \in 1..Len(s) + 1
      BY <1>1
    <3>2. b \in Seq(K)
      BY <1>1, <3>1
    <3> HIDE DEF b
    <3>3. QED  BY <3>2
  <2> HIDE DEF b, m
  <2>2. \A i \in 1..Len(b) : b[i] \in K \ F
    BY <1>3, <1>9
  <2>3. b \in [1..Len(b) -> K \ F]
    BY <2>1, <2>2
  <2>4. QED  BY <2>1, <2>3
<1>11. K \ F \subseteq {b[i] : i \in 1..m - n}
  <2> SUFFICES ASSUME NEW k \in K, k \notin F PROVE \E i \in 1..m - n : k = b[i]
    OBVIOUS
  <2>1. PICK j \in 1..m : k = s[j]
    BY <1>5
  <2>2. ~(j \in 1..n)
    BY <1>0, <2>1
  <2>3. j - n \in 1..m - n /\ n + (j - n) = j
    BY <1>1, <2>2
  <2>4. b[j - n] = s[j]
    BY <1>3, <2>3
  <2>5. QED  BY <2>1, <2>3, <2>4
<1> HIDE DEF a, b
<1>12. InOrder(ents, F, a)
  <2>1. Listed(a) = F
    BY <1>0, <1>2 DEF Listed
  <2>2. \A i, j \in 1..n : i < j => ents[a[i]].last_touch < ents[a[j]].last_touch
    BY <1>2, <1>4
  <2>3. QED  BY <1>2, <1>8, <2>1, <2>2 DEF InOrder
<1>13. InOrder(ents, K \ F, b)
  <2>1. Listed(b) = K \ F
    BY <1>3, <1>9, <1>11 DEF Listed
  <2>2. \A i, j \in 1..m - n : i < j => ents[b[i]].last_touch < ents[b[j]].last_touch
    <3> SUFFICES ASSUME NEW i \in 1..m - n, NEW j \in 1..m - n, i < j
                 PROVE  ents[b[i]].last_touch < ents[b[j]].last_touch
      OBVIOUS
    <3>1. n + i < n + j
      BY <1>1
    <3>2. QED  BY <1>3, <1>4, <3>1
  <2>3. QED  BY <1>3, <1>10, <2>1, <2>2 DEF InOrder
<1>14. QED  BY <1>7, <1>12, <1>13 DEF a, b

(* Only the listed keys' stamps matter.                                     *)
LEMMA OrderSame ==
  ASSUME NEW e, NEW f, NEW K, \A k \in K : e[k] = f[k], NEW s, InOrder(e, K, s)
  PROVE  InOrder(f, K, s)
<1>1. \A i \in 1..Len(s) : s[i] \in K
  BY DEF InOrder
<1>2. QED  BY <1>1 DEF InOrder

(* The recursion of OrderWithout, over the first n keys.                   *)
Filtering(o, K, n, h) ==
  [i \in 0..n |-> IF i = 0 THEN <<>>
                  ELSE IF o[i] \in K THEN h[i - 1]
                  ELSE Append(h[i - 1], o[i])]

LEMMA FilteringExists ==
  ASSUME NEW o, NEW K, NEW n \in Nat
  PROVE  \E h : h = Filtering(o, K, n, h)
<1> DEFINE Bad == {m \in Nat : ~\E h : h = Filtering(o, K, m, h)}
<1>1. SUFFICES ASSUME Bad # {} PROVE FALSE
  OBVIOUS
<1>2. PICK m \in Bad : \A k \in Bad : m <= k
  <2>1. Bad \subseteq Nat /\ Bad # {}
    BY <1>1
  <2> HIDE DEF Bad
  <2>2. QED  BY <2>1, SmallestNat
<1>3. m # 0
  <2> DEFINE g == [i \in 0..0 |-> <<>>]
  <2>1. \A h : Filtering(o, K, 0, h) = g
    BY DEF Filtering
  <2> HIDE DEF g
  <2>2. g = Filtering(o, K, 0, g)
    BY <2>1
  <2>3. QED  BY <1>2, <2>2
<1>4. PICK h : h = Filtering(o, K, m - 1, h)
  BY <1>2, <1>3
<1> DEFINE v == IF o[m] \in K THEN h[m - 1] ELSE Append(h[m - 1], o[m])
           g == [i \in 0..m |-> IF i = m THEN v ELSE h[i]]
<1>5. \A i \in 0..m - 1 : h[i] = IF i = 0 THEN <<>>
                                 ELSE IF o[i] \in K THEN h[i - 1]
                                 ELSE Append(h[i - 1], o[i])
  BY <1>4 DEF Filtering
<1> HIDE DEF v
<1>6. \A i \in 0..m - 1 : g[i] = h[i]
  BY <1>2
<1>7. g[m] = v
  BY <1>2
<1>8. g = [i \in 0..m |-> g[i]]
  OBVIOUS
<1> HIDE DEF g
<1>9. ASSUME NEW i \in 0..m
      PROVE  g[i] = IF i = 0 THEN <<>>
                    ELSE IF o[i] \in K THEN g[i - 1]
                    ELSE Append(g[i - 1], o[i])
  <2>1. CASE i = m
    <3>1. g[m - 1] = h[m - 1]
      BY <1>2, <1>3, <1>6
    <3>2. QED  BY <1>3, <1>7, <2>1, <3>1 DEF v
  <2>2. CASE i # m
    <3>1. i \in 0..m - 1
      BY <1>2, <2>2
    <3>2. i # 0 => g[i - 1] = h[i - 1]
      BY <1>2, <1>6, <3>1
    <3>3. g[i] = h[i]
      BY <1>6, <3>1
    <3>4. QED  BY <1>5, <3>1, <3>2, <3>3
  <2>3. QED  BY <2>1, <2>2
<1>10. g = Filtering(o, K, m, g)
  BY <1>8, <1>9 DEF Filtering
<1>11. QED  BY <1>2, <1>10

LEMMA OrderWithoutIs ==
  ASSUME NEW o, NEW K, Len(o) \in Nat
  PROVE  \E h : /\ h = Filtering(o, K, Len(o), h)
                /\ Lru!OrderWithout(o, K) = h[Len(o)]
<1> DEFINE n == Len(o)
           G(h) == Filtering(o, K, n, h)
           g == CHOOSE h : h = G(h)
<1>1. Lru!OrderWithout(o, K) = g[n]
  BY DEF Lru!OrderWithout, Filtering
<1>2. PICK h : h = G(h)
  BY FilteringExists
<1>3. g = G(g)
  <2> HIDE DEF G
  <2>1. QED  BY <1>2, Zenon
<1>4. QED  BY <1>1, <1>3

(* Keys taken out of an order leave the others in order.                   *)
LEMMA FilteredInOrder ==
  ASSUME NEW ents, NEW S, NEW o, InOrder(ents, S, o), NEW K,
         NEW h, h = Filtering(o, K, Len(o), h), NEW n \in 0..Len(o)
  PROVE  InOrder(ents, Front(o, n) \ K, h[n])
<1> DEFINE R(m) == Front(o, m) \ K
           Bad == {m \in 0..Len(o) : ~InOrder(ents, R(m), h[m])}
<1>0. Len(o) \in Nat
  BY DEF InOrder
<1>1. SUFFICES ASSUME Bad # {} PROVE FALSE
  OBVIOUS
<1>2. PICK m \in Bad : \A k \in Bad : m <= k
  <2>1. Bad \subseteq Nat /\ Bad # {}
    <3> HIDE DEF R
    <3>1. QED  BY <1>0, <1>1
  <2> HIDE DEF Bad
  <2>2. QED  BY <2>1, SmallestNat
<1>3. m \in 0..Len(o) /\ ~InOrder(ents, R(m), h[m])
  BY <1>2
<1>4. h[m] = IF m = 0 THEN <<>> ELSE IF o[m] \in K THEN h[m - 1] ELSE Append(h[m - 1], o[m])
  BY <1>3 DEF Filtering
<1>5. m # 0
  <2> SUFFICES ASSUME m = 0 PROVE FALSE
    OBVIOUS
  <2>1. R(m) = {} /\ h[m] = <<>>
    BY <1>4 DEF Front
  <2>2. InOrder(ents, {}, <<>>)
    BY DEF InOrder, Listed
  <2>3. QED  BY <1>3, <2>1, <2>2
<1>6. m \in Nat /\ m - 1 \in 0..Len(o) /\ m \in 1..Len(o) /\ ~(m <= m - 1)
  BY <1>0, <1>3, <1>5
<1>7. InOrder(ents, R(m - 1), h[m - 1])
  BY <1>2, <1>6
<1>8. \A j : j \in 1..m <=> (j \in 1..m - 1 \/ j = m)
  BY <1>6
<1>9. CASE o[m] \in K
  <2>1. R(m) = R(m - 1)
    BY <1>8, <1>9 DEF Front
  <2> HIDE DEF R
  <2>2. QED  BY <1>3, <1>4, <1>5, <1>7, <1>9, <2>1
<1>10. CASE o[m] \notin K
  <2>1. R(m) = R(m - 1) \cup {o[m]}
    BY <1>8, <1>10 DEF Front
  <2>2. \A x \in R(m - 1) : ents[x].last_touch < ents[o[m]].last_touch
    <3> SUFFICES ASSUME NEW j \in 1..m - 1
                 PROVE  ents[o[j]].last_touch < ents[o[m]].last_touch
      BY DEF Front
    <3>1. j \in 1..Len(o) /\ j < m
      BY <1>0, <1>6
    <3>2. QED  BY <1>6, <3>1 DEF InOrder
  <2> HIDE DEF R
  <2>3. h[m] = Append(h[m - 1], o[m])
    BY <1>4, <1>5, <1>10
  <2>4. InOrder(ents, R(m - 1) \cup {o[m]}, Append(h[m - 1], o[m]))
    BY <1>7, <2>2, OrderAppend
  <2>5. QED  BY <1>3, <2>1, <2>3, <2>4
<1>11. QED  BY <1>9, <1>10

LEMMA WithoutInOrder ==
  ASSUME NEW ents, NEW S, NEW o, InOrder(ents, S, o), NEW K
  PROVE  InOrder(ents, S \ K, Lru!OrderWithout(o, K))
<1>0. Len(o) \in Nat
  BY DEF InOrder
<1>1. PICK h : h = Filtering(o, K, Len(o), h) /\ Lru!OrderWithout(o, K) = h[Len(o)]
  BY <1>0, OrderWithoutIs
<1>2. Front(o, Len(o)) = S
  BY DEF InOrder, Listed, Front
<1>3. InOrder(ents, Front(o, Len(o)) \ K, h[Len(o)])
  <2>1. Len(o) \in 0..Len(o)
    BY <1>0
  <2>2. QED  BY <1>1, <2>1, FilteredInOrder
<1>4. QED  BY <1>1, <1>2, <1>3

-----------------------------------------------------------------------------
(* The policy a caller sees.                                               *)
View(ents) == [order |-> InTouchOrder(ents, DOMAIN ents), size |-> BytesOf(ents)]

(* Entries whose stamps are their own and whose latest pairs are in the heap. *)
Tracked(ents, heap) ==
  /\ Weighed(ents) /\ Stamped(ents, DOMAIN ents) /\ heap \subseteq Nat \X Key
  /\ \A k \in DOMAIN ents : <<ents[k].last_touch, k>> \in heap

Gone(ents, heap, t) == {p[2] : p \in PoppedUpTo(ents, heap, t)}

LEMMA GoneIs ==
  ASSUME NEW ents, NEW heap, Tracked(ents, heap), NEW t
  PROVE  Gone(ents, heap, t) = {k \in DOMAIN ents : ents[k].last_touch <= t}
<1>1. ASSUME NEW k \in Gone(ents, heap, t)
      PROVE  k \in DOMAIN ents /\ ents[k].last_touch <= t
  BY DEF Gone, PoppedUpTo, LivePairs
<1>2. ASSUME NEW k \in DOMAIN ents, ents[k].last_touch <= t
      PROVE  k \in Gone(ents, heap, t)
  <2> DEFINE pair == <<ents[k].last_touch, k>>
  <2>1. pair \in heap
    BY DEF Tracked
  <2>2. pair \in PoppedUpTo(ents, heap, t)
    BY <1>2, <2>1 DEF PoppedUpTo, LivePairs
  <2>3. QED  BY <2>2 DEF Gone
<1>3. QED  BY <1>1, <1>2

(* What is popped up to the stamp of the n-th key is the first n keys.     *)
LEMMA GoneIsFront ==
  ASSUME NEW ents, NEW heap, Tracked(ents, heap),
         NEW s, InOrder(ents, DOMAIN ents, s), NEW n \in 1..Len(s)
  PROVE  Gone(ents, heap, ents[s[n]].last_touch) = Front(s, n)
<1> DEFINE D == DOMAIN ents
           t == ents[s[n]].last_touch
<1>1. Gone(ents, heap, t) = {k \in D : ents[k].last_touch <= t}
  BY GoneIs
<1>2. /\ Len(s) \in Nat /\ D = {s[i] : i \in 1..Len(s)}
      /\ \A i \in 1..Len(s) : s[i] \in D
      /\ \A i, j \in 1..Len(s) : i < j => ents[s[i]].last_touch < ents[s[j]].last_touch
  BY DEF InOrder, Listed
<1>3. \A k \in D : ents[k].last_touch \in Nat
  BY DEF Tracked, Stamped
<1> HIDE DEF D
<1>4. \A i \in 1..Len(s) : ents[s[i]].last_touch <= t <=> i \in 1..n
  <2> SUFFICES ASSUME NEW i \in 1..Len(s)
               PROVE  ents[s[i]].last_touch <= t <=> i \in 1..n
    OBVIOUS
  <2>1. ents[s[i]].last_touch \in Nat /\ t \in Nat
    BY <1>2, <1>3
  <2>2. CASE i < n
    BY <1>2, <2>1, <2>2
  <2>3. CASE i = n
    BY <1>2, <2>1, <2>3
  <2>4. CASE n < i
    <3>1. t < ents[s[i]].last_touch
      BY <1>2, <2>4
    <3> HIDE DEF t
    <3>2. QED  BY <1>2, <2>1, <2>4, <3>1
  <2>5. QED  BY <1>2, <2>2, <2>3, <2>4
<1> HIDE DEF t
<1>5. \A i \in 1..n : i \in 1..Len(s)
  BY <1>2
<1>6. {k \in D : ents[k].last_touch <= t} = Front(s, n)
  BY <1>2, <1>4, <1>5 DEF Front
<1>7. QED  BY <1>1, <1>6 DEF t

(* Popping the first n keys is DropOldest, and hands back those keys.      *)
LEMMA PopIsDrop ==
  ASSUME NEW ents, NEW heap, Tracked(ents, heap), NEW res, NEW t,
         PopThrough(ents, heap, res, t),
         NEW n \in 0..Len(InTouchOrder(ents, DOMAIN ents)),
         Gone(ents, heap, t) = Front(InTouchOrder(ents, DOMAIN ents), n)
  PROVE  /\ View(entries') = Lru!DropOldest(View(ents), n)
         /\ evicted' = SubSeq(View(ents).order, 1, n)
<1> DEFINE D == DOMAIN ents
           s == InTouchOrder(ents, D)
           F == Front(s, n)
           N == D \ F
<1>0. IsFiniteSet(D) /\ \A k \in D : ents[k].last_touch \in Nat
  BY DEF Tracked, Stamped
<1>1. InOrder(ents, D, s)
  BY TouchOrderLists DEF Tracked
<1>2. /\ entries' = [x \in D \ Gone(ents, heap, t) |-> ents[x]]
      /\ evicted' = InTouchOrder(ents, Gone(ents, heap, t))
  BY DEF PopThrough, Gone
<1>3. View(ents).order = s /\ View(ents).size = BytesOf(ents)
  BY DEF View
<1>4. n \in 0..Len(s) /\ Gone(ents, heap, t) = F
  OBVIOUS
<1>5. Stamped(ents, D)
  BY DEF Tracked
<1> HIDE DEF s, D
<1>6. /\ F \subseteq D
      /\ InOrder(ents, F, SubSeq(s, 1, n))
      /\ InOrder(ents, N, SubSeq(s, n + 1, Len(s)))
  BY <1>0, <1>1, <1>4, OrderSplit
<1> HIDE DEF F
<1>7. Stamped(ents, F) /\ Stamped(ents, N)
  <2>1. IsFiniteSet(F) /\ IsFiniteSet(N)
    BY <1>0, <1>6, FS_Subset
  <2>2. QED  BY <1>5, <1>6, <2>1 DEF Stamped
<1>8. evicted' = SubSeq(s, 1, n)
  BY <1>2, <1>4, <1>6, <1>7, TouchOrderIs
<1>9. entries' = [x \in N |-> ents[x]]
  BY <1>2, <1>4
<1> DEFINE e == entries'
<1>10. DOMAIN e = N /\ \A k \in N : e[k] = ents[k]
  BY <1>9
<1> HIDE DEF N, e
<1>11. InTouchOrder(e, N) = SubSeq(s, n + 1, Len(s))
  <2>1. InOrder(e, N, SubSeq(s, n + 1, Len(s)))
    BY <1>6, <1>10, OrderSame
  <2>2. Stamped(e, N)
    BY <1>7, <1>10 DEF Stamped
  <2>3. QED  BY <2>1, <2>2, TouchOrderIs
<1>12. BytesOf(e) = [x \in DOMAIN BytesOf(ents) \ {s[i] : i \in 1..n} |-> BytesOf(ents)[x]]
  <2>1. DOMAIN BytesOf(ents) = D
    BY DEF BytesOf, D
  <2>2. N = D \ {s[i] : i \in 1..n}
    BY DEF N, F, Front
  <2>3. BytesOf(e) = [x \in N |-> ents[x].bytes]
    BY <1>10 DEF BytesOf
  <2>4. \A x \in N : BytesOf(ents)[x] = ents[x].bytes
    BY <2>2 DEF BytesOf, D
  <2>5. QED  BY <2>1, <2>2, <2>3, <2>4
<1>13. View(e) = [order |-> SubSeq(s, n + 1, Len(s)),
                  size |-> [x \in DOMAIN BytesOf(ents) \ {s[i] : i \in 1..n} |-> BytesOf(ents)[x]]]
  BY <1>10, <1>11, <1>12 DEF View
<1>14. Lru!DropOldest(View(ents), n) =
         [order |-> SubSeq(s, n + 1, Len(s)),
          size |-> [x \in DOMAIN BytesOf(ents) \ {s[i] : i \in 1..n} |-> BytesOf(ents)[x]]]
  BY <1>3 DEF Lru!DropOldest
<1>15. View(e) = Lru!DropOldest(View(ents), n)
  BY <1>13, <1>14
<1>16. QED  BY <1>3, <1>8, <1>15 DEF e

(* Min is the least member of a non-empty set of naturals.                 *)
LEMMA LeastOfNats ==
  ASSUME NEW S, S \subseteq Nat, S # {}
  PROVE  Min(S) \in S /\ \A y \in S : Min(S) <= y
<1>1. PICK x \in S : \A y \in S : x <= y
  BY SmallestNat
<1>2. QED  BY <1>1 DEF Min

LEMMA LeastIs ==
  ASSUME NEW S, S \subseteq Nat, NEW x \in S, \A y \in S : x <= y
  PROVE  Min(S) = x
<1>1. Min(S) \in S /\ Min(S) <= x
  BY LeastOfNats
<1>2. x <= Min(S)
  BY <1>1
<1>3. x \in Nat /\ Min(S) \in Nat
  BY <1>1
<1>4. QED  BY <1>1, <1>2, <1>3

(* The bytes that stay when the first n keys go.                           *)
Left(ents, n) == Weigh(BytesOf(ents), DOMAIN ents \ Front(InTouchOrder(ents, DOMAIN ents), n))

LEMMA DropLeaves ==
  ASSUME NEW ents, Weighed(ents), NEW n
  PROVE  Lru!Resident(Lru!DropOldest(View(ents), n)) = Left(ents, n)
<1> DEFINE B == BytesOf(ents)
           s == InTouchOrder(ents, DOMAIN ents)
           N == DOMAIN ents \ Front(s, n)
           l == Lru!DropOldest(View(ents), n)
           z == l.size
<1>1. View(ents).order = s /\ View(ents).size = B /\ DOMAIN B = DOMAIN ents
  BY DEF View, BytesOf
<1>2. z = [x \in N |-> B[x]]
  <2> HIDE DEF s, B
  <2>1. QED  BY <1>1 DEF Lru!DropOldest, Front
<1>3. IsFiniteSet(N)
  BY FS_Subset DEF Weighed
<1>4. Lru!Resident(l) = Weigh(z, N)
  <2>1. Lru!Resident(l) = Weigh(z, DOMAIN z)
    BY DEF Lru!Resident, Weigh, Lru!MapThenSumSet, Lru!MapThenFoldSet, MapThenSumSet, MapThenFoldSet
  <2>2. QED  BY <1>2, <2>1
<1>5. \A x \in N : z[x] = B[x]
  BY <1>2
<1> HIDE DEF l, N, B, z
<1>6. Weigh(z, N) = Weigh(B, N)
  BY <1>3, <1>5, WeighSame
<1>7. QED  BY <1>4, <1>6 DEF Left, l, N, B

LEMMA LeftNat ==
  ASSUME NEW ents, Weighed(ents), NEW n
  PROVE  Left(ents, n) \in Nat
<1> DEFINE B == BytesOf(ents)
           N == DOMAIN ents \ Front(InTouchOrder(ents, DOMAIN ents), n)
<1>1. IsFiniteSet(N) /\ \A k \in N : B[k] \in Nat
  BY FS_Subset DEF Weighed, BytesOf
<1> HIDE DEF B, N
<1>2. Weigh(B, N) \in Nat
  BY <1>1, WeighNat
<1>3. QED  BY <1>2 DEF Left, B, N

(* n is the least number of oldest keys without which the rest fits.       *)
LeastToGo(ents, n) ==
  LET m == Len(InTouchOrder(ents, DOMAIN ents))
  IN  /\ n \in 0..m /\ Left(ents, n) <= MaxBytes
      /\ \A j \in 0..m : Left(ents, j) <= MaxBytes => n <= j

LEMMA ExcessIs ==
  ASSUME NEW ents, Weighed(ents), Stamped(ents, DOMAIN ents)
  PROVE  LeastToGo(ents, Lru!Excess(View(ents), MaxBytes))
<1> DEFINE s == InTouchOrder(ents, DOMAIN ents)
           m == Len(s)
           S == {n \in 0..m : Left(ents, n) <= MaxBytes}
<1>1. InOrder(ents, DOMAIN ents, s)
  BY TouchOrderLists
<1>2. m \in Nat /\ Front(s, m) = DOMAIN ents
  <2> HIDE DEF s
  <2>1. QED  BY <1>1 DEF InOrder, Listed, Front
<1>3. Left(ents, m) = 0
  <2>1. DOMAIN ents \ Front(s, m) = {}
    BY <1>2
  <2>2. QED  BY <2>1, WeighEmpty DEF Left
<1>4. S \subseteq Nat /\ S # {}
  <2>1. 0 <= MaxBytes
    BY LruAssumption
  <2> HIDE DEF m
  <2>2. QED  BY <1>2, <1>3, <2>1
<1>5. Lru!Excess(View(ents), MaxBytes) = Min(S)
  <2>1. View(ents).order = s
    BY DEF View
  <2>2. \A n : Lru!Resident(Lru!DropOldest(View(ents), n)) = Left(ents, n)
    BY DropLeaves
  <2> HIDE DEF s
  <2>3. S = {n \in 0..Len(View(ents).order) :
               Lru!Resident(Lru!DropOldest(View(ents), n)) <= MaxBytes}
    BY <2>1, <2>2
  <2>4. QED  BY <2>3, Zenon DEF Lru!Excess, Lru!Min, Min
<1> HIDE DEF S
<1>6. Min(S) \in S /\ \A y \in S : Min(S) <= y
  BY <1>4, LeastOfNats
<1>7. QED  BY <1>5, <1>6 DEF S, LeastToGo

(* What the counter shows once the first n keys are popped.                *)
LEMMA PoppedLeaves ==
  ASSUME NEW ents, NEW heap, Tracked(ents, heap), NEW u, NEW n,
         Gone(ents, heap, u) = Front(InTouchOrder(ents, DOMAIN ents), n)
  PROVE  SatSub(EntryBytes(ents), PairBytes(ents, PoppedUpTo(ents, heap, u))) = Left(ents, n)
<1> DEFINE D == DOMAIN ents
           B == BytesOf(ents)
           gone == Gone(ents, heap, u)
           out == PairBytes(ents, PoppedUpTo(ents, heap, u))
           all == EntryBytes(ents)
<1>1. gone \subseteq D /\ out = Weigh(B, gone)
  BY PoppedBytes DEF Tracked, Gone
<1>2. IsFiniteSet(D) /\ \A k \in D : B[k] \in Nat
  BY DEF Tracked, Weighed, BytesOf
<1>3. all = Weigh(B, D)
  BY <1>2, EntryBytesIsWeight
<1>4. Left(ents, n) = Weigh(B, D \ gone)
  BY DEF Left
<1> HIDE DEF D, B, gone, out, all
<1>5. /\ Weigh(B, D) = Weigh(B, gone) + Weigh(B, D \ gone)
      /\ Weigh(B, gone) \in Nat /\ Weigh(B, D \ gone) \in Nat
  BY <1>1, <1>2, WeighSplit
<1>6. SatSub(all, out) = Left(ents, n)
  BY <1>1, <1>3, <1>4, <1>5 DEF SatSub
<1>7. QED  BY <1>6 DEF all, out

(* The eviction loop stops at the stamp of the last key that has to go.    *)
CutAt(ents, n) ==
  IF n = 0 THEN 0 ELSE ents[InTouchOrder(ents, DOMAIN ents)[n]].last_touch

LEMMA CutIs ==
  ASSUME NEW ents, NEW heap, Tracked(ents, heap), clock \in Nat,
         \A k \in DOMAIN ents : 0 < ents[k].last_touch /\ ents[k].last_touch <= clock + 1,
         NEW n, LeastToGo(ents, n)
  PROVE  EvictionCut(ents, heap, EntryBytes(ents)) = CutAt(ents, n)
<1> DEFINE D == DOMAIN ents
           s == InTouchOrder(ents, D)
           m == Len(s)
           res == EntryBytes(ents)
           cut == EvictionCut(ents, heap, res)
           Stamps == {p[1] : p \in LivePairs(ents, heap)}
           Fits == {u \in Stamps : SatSub(res, PairBytes(ents, PoppedUpTo(ents, heap, u))) <= MaxBytes}
<1>1. InOrder(ents, D, s)
  BY TouchOrderLists DEF Tracked
<1>2. /\ n \in 0..m /\ Left(ents, n) <= MaxBytes
      /\ \A j \in 0..m : Left(ents, j) <= MaxBytes => n <= j
  BY DEF LeastToGo
<1>3. /\ m \in Nat /\ D = {s[i] : i \in 1..m} /\ \A i \in 1..m : s[i] \in D
  <2> HIDE DEF s
  <2>1. QED  BY <1>1 DEF InOrder, Listed
<1>n. m \in Nat /\ n \in Nat /\ n <= m /\ (Left(ents, 0) <= MaxBytes => n = 0)
  <2>1. m \in Nat
    BY <1>3
  <2> HIDE DEF m
  <2>2. 0 \in 0..m
    BY <2>1
  <2>3. Left(ents, 0) <= MaxBytes => n <= 0
    BY <1>2, <2>2, Zenon
  <2>4. QED  BY <1>2, <2>1, <2>3
<1>4. \A k \in D : ents[k].last_touch \in Nat
  BY DEF Tracked, Stamped
<1>5. Front(s, 0) = {}
  BY DEF Front
<1>6. Left(ents, 0) = res
  <2>1. D \ {} = D
    OBVIOUS
  <2>2. res = Weigh(BytesOf(ents), D)
    BY EntryBytesIsWeight DEF Tracked, Weighed
  <2>3. QED  BY <1>5, <2>1, <2>2 DEF Left
<1>7. \A j : Left(ents, j) \in Nat
  BY LeftNat DEF Tracked
<1>8. MaxBytes \in Nat
  BY LruAssumption
<1>9. CASE res <= MaxBytes
  <2>1. cut = 0
    BY <1>9 DEF EvictionCut
  <2>2. n = 0
    BY <1>n, <1>6, <1>9
  <2>3. QED  BY <2>1, <2>2 DEF CutAt
<1>10. CASE ~(res <= MaxBytes)
  <2>1. n \in 1..m
    <3> HIDE DEF m, res
    <3>1. n # 0
      BY <1>2, <1>6, <1>10
    <3>2. QED  BY <1>n, <3>1
  <2> DEFINE t == ents[s[n]].last_touch
  <2>2. cut = Min({clock + 1} \cup Fits)
    BY <1>10 DEF EvictionCut
  <2>3. Stamps = {ents[s[i]].last_touch : i \in 1..m}
    <3>1. Stamps = {ents[k].last_touch : k \in D}
      <4>1. \A p \in LivePairs(ents, heap) : p[2] \in D /\ p[1] = ents[p[2]].last_touch
        BY DEF LivePairs
      <4>2. ASSUME NEW k \in D PROVE \E p \in LivePairs(ents, heap) : p[1] = ents[k].last_touch
        <5> DEFINE pair == <<ents[k].last_touch, k>>
        <5>1. pair \in LivePairs(ents, heap)
          BY DEF Tracked, LivePairs
        <5>2. QED  BY <5>1
      <4>3. QED  BY <4>1, <4>2
    <3> HIDE DEF Stamps, D, s, m
    <3>2. QED  BY <1>3, <3>1
  <2>4. \A i \in 1..m : SatSub(res, PairBytes(ents, PoppedUpTo(ents, heap, ents[s[i]].last_touch)))
                          = Left(ents, i)
    <3> SUFFICES ASSUME NEW i \in 1..m
        PROVE  SatSub(res, PairBytes(ents, PoppedUpTo(ents, heap, ents[s[i]].last_touch)))
                 = Left(ents, i)
      OBVIOUS
    <3> DEFINE u == ents[s[i]].last_touch
    <3>1. Gone(ents, heap, u) = Front(s, i)
      <4> HIDE DEF s
      <4>1. QED  BY <1>1, GoneIsFront
    <3> HIDE DEF u
    <3>2. SatSub(res, PairBytes(ents, PoppedUpTo(ents, heap, u))) = Left(ents, i)
      BY <3>1, PoppedLeaves
    <3>3. QED  BY <3>2 DEF u
  <2>5. Fits = {u \in Stamps : \E i \in 1..m : u = ents[s[i]].last_touch /\ Left(ents, i) <= MaxBytes}
    <3> HIDE DEF Stamps, s, m, res
    <3>1. QED  BY <2>3, <2>4
  <2> HIDE DEF Fits, Stamps, s, m, cut, res
  <2>6. t \in Fits
    BY <1>2, <2>1, <2>3, <2>5
  <2>7. \A u \in Fits : u \in Nat /\ t <= u
    <3> SUFFICES ASSUME NEW u \in Fits PROVE u \in Nat /\ t <= u
      OBVIOUS
    <3>1. PICK i \in 1..m : u = ents[s[i]].last_touch /\ Left(ents, i) <= MaxBytes
      BY <2>5
    <3>2. i \in 0..m
      BY <1>3
    <3>3. n <= i
      BY <1>2, <3>1, <3>2
    <3>4. n = i \/ n < i
      BY <1>3, <2>1, <3>3
    <3>5. u \in Nat /\ t \in Nat
      BY <1>3, <1>4, <2>1, <3>1
    <3>6. n < i => t < u
      <4>1. \A a, b \in 1..m : a < b => ents[s[a]].last_touch < ents[s[b]].last_touch
        BY <1>1 DEF InOrder, m
      <4>2. QED  BY <2>1, <3>1, <4>1
    <3> HIDE DEF t
    <3>7. n = i => t = u
      BY <3>1 DEF t
    <3>8. QED  BY <3>4, <3>5, <3>6, <3>7
  <2>8. t \in Nat /\ t <= clock + 1
    BY <1>3, <1>4, <2>1
  <2>9. cut = t
    <3> DEFINE S == {clock + 1} \cup Fits
    <3> HIDE DEF t
    <3>1. S \subseteq Nat /\ t \in S /\ \A y \in S : t <= y
      BY <2>6, <2>7, <2>8
    <3>2. cut = Min(S)
      BY <2>2
    <3> HIDE DEF S
    <3>3. QED  BY <3>1, <3>2, LeastIs
  <2>10. n # 0
    BY <2>1
  <2>11. QED  BY <2>9, <2>10 DEF CutAt, cut, s, res
<1>11. QED  BY <1>9, <1>10

(* ... and so pops as many keys as the policy says.                        *)
LEMMA CutGone ==
  ASSUME NEW ents, NEW heap, Tracked(ents, heap),
         \A k \in DOMAIN ents : 0 < ents[k].last_touch,
         NEW n, LeastToGo(ents, n)
  PROVE  Gone(ents, heap, CutAt(ents, n)) = Front(InTouchOrder(ents, DOMAIN ents), n)
<1> DEFINE D == DOMAIN ents
           s == InTouchOrder(ents, D)
<1>1. InOrder(ents, D, s) /\ Len(s) \in Nat
  BY TouchOrderLists DEF Tracked, InOrder
<1>2. n \in 0..Len(s)
  BY DEF LeastToGo
<1>3. CASE n = 0
  <2>1. Gone(ents, heap, 0) = {k \in D : ents[k].last_touch <= 0}
    BY GoneIs
  <2>2. \A k \in D : ents[k].last_touch \in Nat
    BY DEF Tracked, Stamped
  <2>3. Gone(ents, heap, 0) = {}
    BY <2>1, <2>2
  <2>4. QED  BY <1>3, <2>3 DEF CutAt, Front
<1>4. CASE n # 0
  <2>1. CutAt(ents, n) = ents[s[n]].last_touch
    BY <1>4 DEF CutAt
  <2> HIDE DEF s
  <2>2. n \in 1..Len(s)
    BY <1>1, <1>2, <1>4
  <2>3. Gone(ents, heap, ents[s[n]].last_touch) = Front(s, n)
    BY <1>1, <2>2, GoneIsFront
  <2>4. QED  BY <2>1, <2>3 DEF s
<1>5. QED  BY <1>3, <1>4

(* Stamps start at 1, so nothing is popped by a loop that does not start.  *)
Shaped(ents) == \A k \in DOMAIN ents : ents[k] \in Entry /\ 0 < ents[k].last_touch
Shape == Shaped(entries) /\ evicted \in Seq(Key)

LEMMA StateTracked ==
  ASSUME HeapInv, Account
  PROVE  /\ Tracked(entries, oldest)
         /\ \A k \in DOMAIN entries : entries[k].last_touch \in Nat /\ entries[k].last_touch <= clock
<1>1. /\ \A k \in DOMAIN entries : entries[k].last_touch \in Nat
      /\ \A k \in DOMAIN entries : <<entries[k].last_touch, k>> \in oldest
      /\ \A j, k \in DOMAIN entries : entries[j].last_touch = entries[k].last_touch => j = k
      /\ oldest \subseteq Nat \X Key
  BY DEF HeapInv, StampsTyped, HeapTracksEntries
<1>2. Weighed(entries) /\ IsFiniteSet(DOMAIN entries)
  BY DEF Account, Weighed
<1>3. \A k \in DOMAIN entries : entries[k].last_touch <= clock
  BY <1>1 DEF HeapInv, HeapTracksEntries
<1>4. Stamped(entries, DOMAIN entries)
  BY <1>1, <1>2 DEF Stamped
<1>5. QED  BY <1>1, <1>2, <1>3, <1>4 DEF Tracked

(* The entries and the heap that touch's eviction loop starts from.        *)
LEMMA TouchedTracked ==
  ASSUME HeapInv, Account, Shape, NEW k \in Key, NEW b \in Nat
  PROVE  LET ents == Touched(entries, k, b)
         IN  /\ Tracked(ents, Pushed(oldest, k))
             /\ \A x \in DOMAIN ents : 0 < ents[x].last_touch /\ ents[x].last_touch <= clock + 1
<1> DEFINE ents == Touched(entries, k, b)
           heap == Pushed(oldest, k)
           D == DOMAIN entries
<1>0. clock \in Nat
  BY DEF HeapInv, StampsTyped
<1>1. /\ DOMAIN ents = D \cup {k} /\ ents[k].last_touch = clock + 1
      /\ \A x \in D : x # k => ents[x] = entries[x]
  BY DEF Touched
<1>2. Weighed(ents)
  BY TouchedBytes
<1>3. /\ Tracked(entries, oldest)
      /\ \A x \in D : entries[x].last_touch \in Nat /\ entries[x].last_touch <= clock
  BY StateTracked
<1>4. \A x \in D : 0 < entries[x].last_touch
  BY DEF Shape, Shaped
<1>5. /\ oldest \subseteq Nat \X Key /\ \A x \in D : <<entries[x].last_touch, x>> \in oldest
      /\ \A x, y \in D : entries[x].last_touch = entries[y].last_touch => x = y
  BY <1>3 DEF Tracked, Stamped
<1>6. heap = oldest \cup {<<clock + 1, k>>}
  BY DEF Pushed
<1> HIDE DEF ents, heap
<1>7. heap \subseteq Nat \X Key
  BY <1>0, <1>5, <1>6
<1>8. \A x \in DOMAIN ents : <<ents[x].last_touch, x>> \in heap
  BY <1>1, <1>5, <1>6
<1>9. \A x \in DOMAIN ents : /\ ents[x].last_touch \in Nat /\ 0 < ents[x].last_touch
                             /\ ents[x].last_touch <= clock + 1
                             /\ x # k => ents[x].last_touch <= clock
  BY <1>0, <1>1, <1>3, <1>4
<1>10. \A x, y \in DOMAIN ents : ents[x].last_touch = ents[y].last_touch => x = y
  <2>1. ASSUME NEW x \in DOMAIN ents, x # k PROVE ents[x].last_touch # ents[k].last_touch
    BY <1>0, <1>1, <1>9, <2>1
  <2>2. ASSUME NEW x \in DOMAIN ents, NEW y \in DOMAIN ents, x # k, y # k,
               ents[x].last_touch = ents[y].last_touch
        PROVE  x = y
    BY <1>1, <1>5, <2>2
  <2>3. QED  BY <2>1, <2>2
<1>11. Stamped(ents, DOMAIN ents)
  BY <1>2, <1>9, <1>10 DEF Stamped, Weighed
<1>12. Tracked(ents, heap)
  BY <1>2, <1>7, <1>8, <1>11 DEF Tracked
<1>13. QED  BY <1>9, <1>12 DEF ents, heap

(* A stamp newer than all others makes its key the most recently used.     *)
LEMMA TouchedView ==
  ASSUME HeapInv, Account, Shape, NEW k \in Key, NEW b \in Nat
  PROVE  View(Touched(entries, k, b)) = Lru!LruTouch(View(entries), k, b)
<1> DEFINE ents == Touched(entries, k, b)
           D == DOMAIN entries
           N == DOMAIN ents
           o == InTouchOrder(entries, D)
           w == Lru!OrderWithout(o, {k})
           B == BytesOf(entries)
<1>0. clock \in Nat
  BY DEF HeapInv, StampsTyped
<1>1. /\ N = D \cup {k} /\ ents[k].last_touch = clock + 1
      /\ \A x \in D : x # k => ents[x] = entries[x]
  BY DEF Touched
<1>2. Stamped(ents, N)
  BY TouchedTracked DEF Tracked
<1>3. /\ Stamped(entries, D)
      /\ \A x \in D : entries[x].last_touch \in Nat /\ entries[x].last_touch <= clock
  BY StateTracked DEF Tracked
<1>4. InOrder(entries, D, o)
  BY <1>3, TouchOrderLists
<1>5. BytesOf(ents) = [x \in DOMAIN B \cup {k} |-> IF x = k THEN b ELSE B[x]]
  BY DEF BytesOf, Touched
<1>6. View(entries).order = o /\ View(entries).size = B
  BY DEF View
<1> HIDE DEF ents, o, D
<1>7. InOrder(entries, D \ {k}, w)
  BY <1>4, WithoutInOrder
<1> HIDE DEF w
<1>8. InOrder(ents, D \ {k}, w)
  <2>1. \A x \in D \ {k} : entries[x] = ents[x]
    BY <1>1
  <2>2. QED  BY <1>7, <2>1, OrderSame
<1>9. \A x \in D \ {k} : ents[x].last_touch < ents[k].last_touch
  BY <1>0, <1>1, <1>3
<1>10. InOrder(ents, (D \ {k}) \cup {k}, Append(w, k))
  BY <1>8, <1>9, OrderAppend
<1>11. (D \ {k}) \cup {k} = N
  BY <1>1
<1> HIDE DEF N
<1>12. InTouchOrder(ents, N) = Append(w, k)
  BY <1>2, <1>10, <1>11, TouchOrderIs
<1> HIDE DEF B
<1>13. View(ents) = [order |-> Append(w, k),
                     size |-> [x \in DOMAIN B \cup {k} |-> IF x = k THEN b ELSE B[x]]]
  BY <1>5, <1>12 DEF View, N
<1>14. Lru!LruTouch(View(entries), k, b) =
         [order |-> Append(w, k),
          size |-> [x \in DOMAIN B \cup {k} |-> IF x = k THEN b ELSE B[x]]]
  BY <1>6 DEF Lru!LruTouch, w
<1>15. QED  BY <1>13, <1>14 DEF ents

(* The refinement mapping.                                                 *)
LEMMA MappedIsView ==
  [order |-> RecencyOrder, size |-> [k \in DOMAIN entries |-> entries[k].bytes]] = View(entries)
BY DEF RecencyOrder, View, BytesOf

(* The same, one call later.                                               *)
LEMMA MappedIsViewNext ==
  [order |-> RecencyOrder', size |-> [k \in DOMAIN entries' |-> entries'[k].bytes]] = View(entries')
BY DEF RecencyOrder, View, BytesOf

LEMMA TouchIsLru ==
  ASSUME HeapInv, Account, Shape, NEW k \in Key, NEW b \in Bytes, Touch(k, b)
  PROVE  Lru!Touch(k, b)
<1> DEFINE ents == Touched(entries, k, b)
           heap == Pushed(oldest, k)
           res  == ResidentAfterTouch(entries, resident_bytes, k, b)
           l == Lru!LruTouch(View(entries), k, b)
           n == Lru!Excess(l, MaxBytes)
           cut == EvictionCut(ents, heap, res)
<1>1. b \in Nat /\ clock \in Nat
  BY LruAssumption DEF HeapInv, StampsTyped
<1>2. PopThrough(ents, heap, res, cut)
  BY DEF Touch
<1>3. Tracked(ents, heap) /\ Weighed(ents) /\ Stamped(ents, DOMAIN ents)
  BY <1>1, TouchedTracked DEF Tracked
<1>4. \A x \in DOMAIN ents : 0 < ents[x].last_touch /\ ents[x].last_touch <= clock + 1
  BY <1>1, TouchedTracked
<1>5. res = EntryBytes(ents)
  BY <1>1, TouchedBytes
<1>6. View(ents) = l
  BY <1>1, TouchedView
<1> HIDE DEF ents, heap, res, l
<1>7. LeastToGo(ents, n)
  BY <1>3, <1>6, ExcessIs
<1> HIDE DEF n
<1>8. Gone(ents, heap, cut) = Front(InTouchOrder(ents, DOMAIN ents), n)
  <2>1. cut = CutAt(ents, n)
    BY <1>1, <1>3, <1>4, <1>5, <1>7, CutIs
  <2>2. QED  BY <1>3, <1>4, <1>7, <2>1, CutGone
<1>9. n \in 0..Len(InTouchOrder(ents, DOMAIN ents))
  BY <1>7 DEF LeastToGo
<1> HIDE DEF cut
<1>10. View(entries') = Lru!DropOldest(l, n) /\ evicted' = SubSeq(l.order, 1, n)
  BY <1>2, <1>3, <1>6, <1>8, <1>9, PopIsDrop
<1>11. QED
  BY <1>10, MappedIsView, MappedIsViewNext, Zenon DEF Lru!Touch, l, n

LEMMA PopOldestIsLru ==
  ASSUME HeapInv, Account, Shape, PopOldest
  PROVE  Lru!PopOldest
<1> DEFINE D == DOMAIN entries
           s == InTouchOrder(entries, D)
           n == IF s = <<>> THEN 0 ELSE 1
           S == {clock + 1} \cup {p[1] : p \in LivePairs(entries, oldest)}
           cut == Min(S)
<1>1. clock \in Nat /\ PopThrough(entries, oldest, resident_bytes, cut)
  BY DEF PopOldest, HeapInv, StampsTyped
<1>2. /\ Tracked(entries, oldest)
      /\ \A x \in D : entries[x].last_touch \in Nat /\ entries[x].last_touch <= clock
  BY StateTracked
<1>3. InOrder(entries, D, s)
  BY <1>2, TouchOrderLists DEF Tracked
<1>4. View(entries).order = s
  BY DEF View
<1>5. /\ S \subseteq Nat
      /\ \A p \in LivePairs(entries, oldest) : p[2] \in D /\ p[1] = entries[p[2]].last_touch
      /\ \A x \in D : entries[x].last_touch \in S
  <2>1. \A p \in LivePairs(entries, oldest) : p[2] \in D /\ p[1] = entries[p[2]].last_touch
    BY DEF LivePairs
  <2>2. ASSUME NEW x \in D PROVE entries[x].last_touch \in S
    <3> DEFINE pair == <<entries[x].last_touch, x>>
    <3>1. pair \in LivePairs(entries, oldest)
      BY <1>2 DEF Tracked, LivePairs
    <3>2. QED  BY <3>1
  <2>3. S \subseteq Nat
    BY <1>1, <1>2, <2>1
  <2>4. QED  BY <2>1, <2>2, <2>3
<1> HIDE DEF s
<1>6. Gone(entries, oldest, cut) = Front(s, n) /\ n \in 0..Len(s)
  <2>1. CASE s = <<>>
    <3>1. D = {} /\ Len(s) = 0
      <4>1. Len(s) = 0
        BY <2>1
      <4>2. Listed(s) = {}
        BY <4>1 DEF Listed
      <4>3. QED  BY <1>3, <4>1, <4>2 DEF InOrder
    <3>2. Gone(entries, oldest, cut) = {}
      BY <1>2, <3>1, GoneIs
    <3>3. QED  BY <2>1, <3>1, <3>2 DEF Front
  <2>2. CASE s # <<>>
    <3>1. 1 \in 1..Len(s) /\ Len(s) \in Nat /\ n = 1
      BY <1>3, <2>2 DEF InOrder
    <3> DEFINE t == entries[s[1]].last_touch
    <3>2. s[1] \in D /\ t \in Nat /\ t <= clock + 1 /\ t \in S
      BY <1>1, <1>2, <1>3, <1>5, <3>1 DEF InOrder, Listed
    <3>3. \A x \in D : t <= entries[x].last_touch
      <4> SUFFICES ASSUME NEW x \in D PROVE t <= entries[x].last_touch
        OBVIOUS
      <4>1. PICK i \in 1..Len(s) : x = s[i]
        BY <1>3 DEF InOrder, Listed
      <4>2. CASE i = 1
        BY <1>2, <4>1, <4>2
      <4>3. CASE i # 1
        <5>1. 1 < i
          BY <3>1, <4>3
        <5>2. t < entries[x].last_touch
          BY <1>3, <3>1, <4>1, <5>1 DEF InOrder
        <5> HIDE DEF t
        <5>3. QED  BY <1>2, <3>2, <5>2
      <4>4. QED  BY <4>2, <4>3
    <3>4. \A y \in S : t <= y
      <4> HIDE DEF t
      <4>1. QED  BY <1>5, <3>2, <3>3
    <3>5. cut = t
      <4> HIDE DEF t, S
      <4>1. QED  BY <1>5, <3>2, <3>4, LeastIs
    <3>6. Gone(entries, oldest, t) = Front(s, 1)
      BY <1>2, <1>3, <3>1, GoneIsFront
    <3>7. QED  BY <3>1, <3>5, <3>6
  <2>3. QED  BY <2>1, <2>2
<1> HIDE DEF cut, n
<1>7. View(entries') = Lru!DropOldest(View(entries), n) /\ evicted' = SubSeq(View(entries).order, 1, n)
  BY <1>1, <1>2, <1>6, PopIsDrop DEF s
<1>8. QED
  BY <1>4, <1>7, MappedIsView, MappedIsViewNext, Zenon DEF Lru!PopOldest, n

LEMMA RemoveIsLru ==
  ASSUME HeapInv, Account, NEW k \in Key, Remove(k)
  PROVE  Lru!Remove(k)
<1> DEFINE D == DOMAIN entries
           N == D \ {k}
           o == InTouchOrder(entries, D)
           w == Lru!OrderWithout(o, {k})
           B == BytesOf(entries)
           e == entries'
<1>1. evicted' = <<>>
  BY DEF Remove
<1>2. DOMAIN e = N /\ \A x \in N : e[x] = entries[x]
  <2>1. CASE k \in D
    BY <2>1 DEF Remove
  <2>2. CASE k \notin D
    BY <2>2 DEF Remove
  <2>3. QED  BY <2>1, <2>2
<1>3. Stamped(entries, D)
  BY StateTracked DEF Tracked
<1>4. InOrder(entries, D, o)
  BY <1>3, TouchOrderLists
<1>5. View(entries).order = o /\ View(entries).size = B /\ DOMAIN B = D
  BY DEF View, BytesOf
<1> HIDE DEF o, e
<1>6. InOrder(entries, N, w)
  BY <1>4, WithoutInOrder
<1> HIDE DEF w
<1>7. InOrder(e, N, w) /\ Stamped(e, N)
  <2>1. \A x \in N : e[x] = entries[x]
    BY <1>2
  <2>2. Stamped(e, N)
    <3>1. IsFiniteSet(N)
      BY <1>3, FS_Subset DEF Stamped
    <3>2. QED  BY <1>3, <2>1, <3>1 DEF Stamped
  <2> HIDE DEF N
  <2>3. QED  BY <1>6, <2>1, <2>2, OrderSame
<1>8. InTouchOrder(e, DOMAIN e) = w
  <2> HIDE DEF N
  <2>1. QED  BY <1>2, <1>7, TouchOrderIs
<1>9. BytesOf(e) = [x \in D \ {k} |-> B[x]]
  BY <1>2 DEF BytesOf
<1>10. View(e) = [order |-> w, size |-> [x \in D \ {k} |-> B[x]]]
  BY <1>8, <1>9 DEF View
<1>11. View(e) = Lru!LruRemove(View(entries), k)
  BY <1>5, <1>10 DEF Lru!LruRemove, w
<1>12. QED
  BY <1>1, <1>11, MappedIsView, MappedIsViewNext, Zenon DEF Lru!Remove, e

LEMMA PopKeepsShape ==
  ASSUME NEW ents, NEW heap, Tracked(ents, heap), Shaped(ents), DOMAIN ents \subseteq Key,
         NEW res, NEW t, PopThrough(ents, heap, res, t)
  PROVE  Shape'
<1> DEFINE gone == Gone(ents, heap, t)
<1>1. gone \subseteq DOMAIN ents
  BY GoneIs
<1>2. entries' = [x \in DOMAIN ents \ gone |-> ents[x]] /\ evicted' = InTouchOrder(ents, gone)
  BY DEF PopThrough, Gone
<1> HIDE DEF gone
<1>3. Stamped(ents, gone)
  <2>1. IsFiniteSet(gone)
    BY <1>1, FS_Subset DEF Tracked, Stamped
  <2>2. QED  BY <1>1, <2>1 DEF Tracked, Stamped
<1>4. evicted' \in Seq(gone)
  BY <1>2, <1>3, TouchOrderLists DEF InOrder
<1>5. evicted' \in Seq(Key)
  <2>1. gone \subseteq Key
    BY <1>1
  <2>2. QED  BY <1>4, <2>1
<1>6. Shaped(entries')
  BY <1>2 DEF Shaped
<1>7. QED  BY <1>5, <1>6 DEF Shape, Shaped

LEMMA NextKeepsShape ==
  ASSUME HeapInv, Account, Shape, [Next]_vars
  PROVE  Shape'
<1>0. DOMAIN entries \subseteq Key /\ clock \in Nat
  BY DEF HeapInv, StampsTyped
<1>1. ASSUME NEW k \in Key, NEW b \in Bytes, Touch(k, b) PROVE Shape'
  <2> DEFINE ents == Touched(entries, k, b)
             heap == Pushed(oldest, k)
  <2>1. b \in Nat
    BY LruAssumption
  <2>2. Tracked(ents, heap)
    BY <2>1, TouchedTracked
  <2>3. Shaped(ents) /\ DOMAIN ents \subseteq Key
    BY <1>0, <2>1 DEF Touched, Shape, Shaped, Entry
  <2>4. \E res, t : PopThrough(ents, heap, res, t)
    BY <1>1 DEF Touch
  <2> HIDE DEF ents, heap
  <2>5. QED  BY <2>2, <2>3, <2>4, PopKeepsShape
<1>2. ASSUME PopOldest PROVE Shape'
  <2>1. Tracked(entries, oldest)
    BY StateTracked
  <2>2. \E t : PopThrough(entries, oldest, resident_bytes, t)
    BY <1>2 DEF PopOldest
  <2>3. Shaped(entries)
    BY DEF Shape
  <2>4. QED  BY <1>0, <2>1, <2>2, <2>3, PopKeepsShape
<1>3. ASSUME NEW k \in Key, Remove(k) PROVE Shape'
  <2>1. /\ DOMAIN entries' \subseteq DOMAIN entries /\ evicted' = <<>>
        /\ \A x \in DOMAIN entries' : entries'[x] = entries[x]
    BY <1>3 DEF Remove
  <2>2. QED  BY <2>1 DEF Shape, Shaped
<1>4. CASE UNCHANGED vars
  BY <1>4 DEF vars, Shape, Shaped
<1>5. QED  BY <1>1, <1>2, <1>3, <1>4 DEF Next

LEMMA ShapeAlways == Spec => [](HeapInv /\ Account /\ Shape)
<1>1. Init => Shape
  BY DEF Init, Shape, Shaped
<1>2. HeapInv /\ Account /\ Shape /\ [Next]_vars => Shape'
  BY NextKeepsShape
<1>3. QED  BY <1>1, <1>2, AccountAlways, PTL DEF Spec

(* The policy's fields keep their types, and what touch and pop_oldest     *)
(* hand back is a list of keys.                                            *)
THEOREM LruTypes == Spec => []TypeOK
<1>1. HeapInv /\ Account /\ Shape => TypeOK
  BY DEF HeapInv, StampsTyped, Account, Shape, Shaped, TypeOK
<1>2. QED  BY ShapeAlways, <1>1, PTL

(* ByteLruPolicy implements the abstract policy for every set of keys,     *)
(* sizes and budget: with lazily cleaned pairs and a running counter,      *)
(* touch, pop_oldest and remove still hand back exactly the least recently *)
(* used keys, oldest first, and no more than the budget asks for.          *)
THEOREM PolicyIsLru == Spec => ImplementsLru
<1>1. Init => Lru!Init
  <2> SUFFICES ASSUME Init PROVE Lru!Init
    OBVIOUS
  <2>1. DOMAIN entries = {} /\ evicted = <<>>
    BY DEF Init
  <2>2. Stamped(entries, {}) /\ InOrder(entries, {}, <<>>)
    BY FS_EmptySet DEF Stamped, InOrder, Listed
  <2>3. InTouchOrder(entries, {}) = <<>>
    BY <2>2, TouchOrderIs
  <2>4. RecencyOrder = <<>>
    BY <2>1, <2>3 DEF RecencyOrder
  <2>5. [k \in DOMAIN entries |-> entries[k].bytes] = <<>>
    BY <2>1
  <2>6. QED  BY <2>1, <2>4, <2>5 DEF Lru!Init, Lru!LruEmpty
<1>2. HeapInv /\ Account /\ Shape /\ [Next]_vars
        => [Lru!Next]_<<[order |-> RecencyOrder,
                        size  |-> [k \in DOMAIN entries |-> entries[k].bytes]], evicted>>
  <2> SUFFICES ASSUME HeapInv, Account, Shape, [Next]_vars
               PROVE  [Lru!Next]_<<[order |-> RecencyOrder,
                        size  |-> [k \in DOMAIN entries |-> entries[k].bytes]], evicted>>
    OBVIOUS
  <2>1. ASSUME NEW k \in Key, NEW b \in Bytes, Touch(k, b) PROVE Lru!Next
    BY <2>1, TouchIsLru DEF Lru!Next
  <2>2. ASSUME PopOldest PROVE Lru!Next
    BY <2>2, PopOldestIsLru DEF Lru!Next
  <2>3. ASSUME NEW k \in Key, Remove(k) PROVE Lru!Next
    BY <2>3, RemoveIsLru DEF Lru!Next
  <2>4. CASE UNCHANGED vars
    BY <2>4 DEF vars, RecencyOrder
  <2>5. QED  BY <2>1, <2>2, <2>3, <2>4 DEF Next
<1>3. QED  BY <1>1, <1>2, ShapeAlways, PTL DEF Spec, ImplementsLru, Lru!Spec

-----------------------------------------------------------------------------
(* The eviction loop, one pop_oldest at a time.                            *)

(* The heap is finite, and stamps start at 1 in stale pairs too.           *)
FiniteHeap == IsFiniteSet(oldest) /\ \A p \in oldest : 0 < p[1]

LEMMA HeapFiniteAlways == Spec => []FiniteHeap
<1>1. Init => FiniteHeap
  BY FS_EmptySet DEF Init, FiniteHeap
<1>2. HeapInv /\ FiniteHeap /\ [Next]_vars => FiniteHeap'
  <2> SUFFICES ASSUME HeapInv, FiniteHeap, [Next]_vars PROVE FiniteHeap'
    OBVIOUS
  <2>0. clock \in Nat
    BY DEF HeapInv, StampsTyped
  <2>1. ASSUME NEW k \in Key, NEW b \in Bytes, Touch(k, b) PROVE FiniteHeap'
    <3>1. oldest' \subseteq oldest \cup {<<clock + 1, k>>}
      BY <2>1 DEF Touch, PopThrough, Pushed
    <3>2. IsFiniteSet(oldest \cup {<<clock + 1, k>>})
      BY FS_AddElement DEF FiniteHeap
    <3>3. IsFiniteSet(oldest')
      BY <3>1, <3>2, FS_Subset
    <3>4. \A p \in oldest' : 0 < p[1]
      BY <2>0, <3>1 DEF FiniteHeap
    <3>5. QED  BY <3>3, <3>4 DEF FiniteHeap
  <2>2. ASSUME oldest' \subseteq oldest PROVE FiniteHeap'
    BY <2>2, FS_Subset DEF FiniteHeap
  <2>3. ASSUME PopOldest PROVE oldest' \subseteq oldest
    BY <2>3 DEF PopOldest, PopThrough
  <2>4. ASSUME NEW k \in Key, Remove(k) PROVE oldest' \subseteq oldest
    BY <2>4 DEF Remove
  <2>5. UNCHANGED vars => oldest' \subseteq oldest
    BY DEF vars
  <2>6. QED  BY <2>1, <2>2, <2>3, <2>4, <2>5 DEF Next
<1>3. QED  BY <1>1, <1>2, AccountAlways, PTL DEF Spec

(* The loop's state after j keys have been popped.                         *)
After(ents, heap, j) ==
  LET s == InTouchOrder(ents, DOMAIN ents)
  IN  [ents |-> [x \in DOMAIN ents \ Front(s, j) |-> ents[x]],
       heap |-> IF j = 0 THEN heap ELSE {p \in heap : p[1] > ents[s[j]].last_touch},
       res  |-> Left(ents, j),
       out  |-> SubSeq(s, 1, j)]

LEMMA SubSeqNext ==
  ASSUME NEW S, NEW s \in Seq(S), NEW j \in Nat, j < Len(s)
  PROVE  Append(SubSeq(s, 1, j), s[j + 1]) = SubSeq(s, 1, j + 1)
<1> DEFINE a == SubSeq(s, 1, j)
           b == SubSeq(s, 1, j + 1)
           c == Append(a, s[j + 1])
<1>1. Len(s) \in Nat /\ 1 \in 1..Len(s) + 1 /\ j \in 0..Len(s) /\ j + 1 \in 0..Len(s)
  OBVIOUS
<1>2. a \in Seq(S) /\ Len(a) = j /\ \A i \in 1..j : a[i] = s[i]
  BY <1>1
<1>3. b \in Seq(S) /\ Len(b) = j + 1 /\ \A i \in 1..j + 1 : b[i] = s[i]
  BY <1>1
<1>4. s[j + 1] \in S
  BY <1>1
<1> HIDE DEF a, b
<1>5. c \in Seq(S) /\ Len(c) = j + 1
  BY <1>2, <1>4
<1>6. \A i \in 1..j + 1 : c[i] = s[i]
  BY <1>2
<1> HIDE DEF c
<1>7. c = b
  BY <1>3, <1>5, <1>6
<1>8. QED  BY <1>7 DEF a, b, c

(* One more pop takes the next key.                                        *)
LEMMA PopOnceIs ==
  ASSUME NEW ents, NEW heap, Tracked(ents, heap), NEW j \in Nat,
         j < Len(InTouchOrder(ents, DOMAIN ents))
  PROVE  PopOnce(After(ents, heap, j)) = After(ents, heap, j + 1)
<1> DEFINE D == DOMAIN ents
           s == InTouchOrder(ents, D)
           m == Len(s)
           a == After(ents, heap, j)
           live == LivePairs(a.ents, a.heap)
           k == s[j + 1]
           t == ents[k].last_touch
           pair == <<t, k>>
           E == D \ Front(s, j)
           N == D \ Front(s, j + 1)
<1>1. InOrder(ents, D, s)
  BY TouchOrderLists DEF Tracked
<1>2. /\ a.ents = [x \in E |-> ents[x]] /\ a.res = Left(ents, j) /\ a.out = SubSeq(s, 1, j)
      /\ a.heap = IF j = 0 THEN heap ELSE {p \in heap : p[1] > ents[s[j]].last_touch}
  BY DEF After
<1>3. j < m
  OBVIOUS
<1>4. After(ents, heap, j + 1) =
        [ents |-> [x \in N |-> ents[x]],
         heap |-> {p \in heap : p[1] > t},
         res  |-> Left(ents, j + 1),
         out  |-> SubSeq(s, 1, j + 1)]
  <2>1. j + 1 # 0
    OBVIOUS
  <2>2. QED  BY <2>1 DEF After
<1> HIDE DEF s, a
<1>5. /\ m \in Nat /\ s \in Seq(D) /\ D = {s[i] : i \in 1..m} /\ \A i \in 1..m : s[i] \in D
      /\ \A i, l \in 1..m : i < l => ents[s[i]].last_touch < ents[s[l]].last_touch
  BY <1>1 DEF InOrder, Listed
<1>6. \A x \in D : ents[x].last_touch \in Nat /\ <<ents[x].last_touch, x>> \in heap
  BY DEF Tracked, Stamped
<1>7. \A x, y \in D : ents[x].last_touch = ents[y].last_touch => x = y
  BY DEF Tracked, Stamped
<1>h. heap \subseteq Nat \X Key
  BY DEF Tracked
<1>8. j + 1 \in 1..m /\ k \in D /\ t \in Nat
  <2>1. j + 1 \in 1..m
    BY <1>3, <1>5
  <2>2. QED  BY <1>5, <1>6, <2>1
<1>9. \A x \in E : t <= ents[x].last_touch
  <2> SUFFICES ASSUME NEW x \in E PROVE t <= ents[x].last_touch
    OBVIOUS
  <2>1. PICK i \in 1..m : x = s[i]
    BY <1>5
  <2>2. ~(i \in 1..j)
    BY <2>1 DEF Front
  <2>3. i = j + 1 \/ j + 1 < i
    <3>1. m \in Nat
      BY <1>5
    <3> HIDE DEF m
    <3>2. QED  BY <2>2, <3>1
  <2>4. ents[x].last_touch \in Nat
    BY <1>6
  <2>5. j + 1 < i => t < ents[x].last_touch
    BY <1>5, <1>8, <2>1
  <2> HIDE DEF t
  <2>6. i = j + 1 => t = ents[x].last_touch
    BY <2>1 DEF t
  <2>7. QED  BY <1>8, <2>3, <2>4, <2>5, <2>6
<1>10. k \in E
  <2>1. ASSUME NEW i \in 1..j PROVE s[i] # k
    <3>1. i \in 1..m /\ i < j + 1
      BY <1>5, <1>3
    <3>2. ents[s[i]].last_touch < t
      BY <1>5, <1>8, <3>1
    <3>3. QED  BY <1>8, <3>2
  <2>2. QED  BY <1>8, <2>1 DEF Front
<1>11. N = E \ {k}
  <2>1. \A i : i \in 1..j + 1 <=> (i \in 1..j \/ i = j + 1)
    OBVIOUS
  <2>2. Front(s, j + 1) = Front(s, j) \cup {k}
    BY <2>1 DEF Front
  <2> HIDE DEF k
  <2>3. QED  BY <2>2
<1>12. j # 0 => j \in 1..m /\ ents[s[j]].last_touch \in Nat /\ ents[s[j]].last_touch < t
  <2> SUFFICES ASSUME j # 0
               PROVE  j \in 1..m /\ ents[s[j]].last_touch \in Nat /\ ents[s[j]].last_touch < t
    OBVIOUS
  <2>1. j \in 1..m /\ j < j + 1
    BY <1>3, <1>5
  <2>2. QED  BY <1>5, <1>6, <1>8, <2>1
<1>13. pair \in live
  <2>1. pair \in heap /\ pair[1] = t
    BY <1>6, <1>8
  <2>2. pair \in a.heap
    BY <1>2, <1>12, <2>1
  <2>3. k \in DOMAIN a.ents /\ a.ents[k] = ents[k]
    BY <1>2, <1>10
  <2>4. QED  BY <2>2, <2>3 DEF LivePairs
<1>14. \A r \in live : r[2] \in E /\ r[1] = ents[r[2]].last_touch /\ r = <<r[1], r[2]>>
  <2> SUFFICES ASSUME NEW r \in live
               PROVE  r[2] \in E /\ r[1] = ents[r[2]].last_touch /\ r = <<r[1], r[2]>>
    OBVIOUS
  <2>1. r \in a.heap /\ r[2] \in DOMAIN a.ents /\ a.ents[r[2]].last_touch = r[1]
    BY DEF LivePairs
  <2>2. r \in heap
    BY <1>2, <2>1
  <2>3. QED  BY <1>2, <1>h, <2>1, <2>2
<1> HIDE DEF live, E, N, t, k
<1>15. \A r \in live : t <= r[1]
  BY <1>9, <1>14
<1>16. ASSUME NEW q \in live, \A r \in live : q[1] <= r[1] PROVE q = pair
  <2>1. q[1] <= t /\ t <= q[1]
    BY <1>13, <1>15, <1>16
  <2>2. q[2] \in D /\ q[1] = ents[q[2]].last_touch /\ q = <<q[1], q[2]>>
    BY <1>14 DEF E
  <2>3. q[1] = t
    BY <1>6, <1>8, <2>1, <2>2
  <2>4. q[2] = k
    BY <1>7, <1>8, <2>2, <2>3 DEF t
  <2>5. QED  BY <2>2, <2>3, <2>4
<1> DEFINE p == CHOOSE q \in live : \A r \in live : q[1] <= r[1]
<1>17. p = pair
  <2>1. \A r \in live : pair[1] <= r[1]
    BY <1>15
  <2> HIDE DEF pair
  <2>2. QED  BY <1>13, <1>16, <2>1
<1>18. PopOnce(a) =
         [ents |-> [x \in DOMAIN a.ents \ {p[2]} |-> a.ents[x]],
          heap |-> {q \in a.heap : q[1] > p[1]},
          res  |-> SatSub(a.res, a.ents[p[2]].bytes),
          out  |-> Append(a.out, p[2])]
  <2>1. live # {}
    BY <1>13
  <2>2. QED  BY <2>1 DEF PopOnce, live
<1> HIDE DEF p
<1>19. p[1] = t /\ p[2] = k
  BY <1>17
<1>20. [x \in DOMAIN a.ents \ {p[2]} |-> a.ents[x]] = [x \in N |-> ents[x]]
  BY <1>2, <1>11, <1>19
<1>21. {q \in a.heap : q[1] > p[1]} = {q \in heap : q[1] > t}
  <2>1. CASE j = 0
    BY <1>2, <1>19, <2>1
  <2>2. CASE j # 0
    <3> DEFINE u == ents[s[j]].last_touch
    <3>1. u \in Nat /\ u < t /\ t \in Nat
      BY <1>8, <1>12, <2>2
    <3>2. a.heap = {q \in heap : q[1] > u}
      BY <1>2, <2>2
    <3> HIDE DEF u
    <3>3. \A q \in heap : q[1] \in Nat
      BY <1>h
    <3>4. QED  BY <1>19, <3>1, <3>2, <3>3
  <2>3. QED  BY <2>1, <2>2
<1>22. Append(a.out, p[2]) = SubSeq(s, 1, j + 1)
  <2>1. Append(SubSeq(s, 1, j), s[j + 1]) = SubSeq(s, 1, j + 1)
    BY <1>3, <1>5, SubSeqNext
  <2>2. QED  BY <1>2, <1>19, <2>1 DEF k
<1>23. SatSub(a.res, a.ents[p[2]].bytes) = Left(ents, j + 1)
  <2> DEFINE B == BytesOf(ents)
  <2>1. Left(ents, j) = Weigh(B, E) /\ Left(ents, j + 1) = Weigh(B, N)
    BY DEF Left, E, N, s
  <2>2. IsFiniteSet(E) /\ \A x \in E : B[x] \in Nat
    BY FS_Subset DEF Tracked, Weighed, BytesOf, E
  <2>3. a.ents[p[2]].bytes = B[k]
    BY <1>2, <1>8, <1>10, <1>19 DEF BytesOf
  <2> HIDE DEF B
  <2>4. Weigh(B, E) = B[k] + Weigh(B, N)
    BY <1>10, <1>11, <2>2, WeighAny
  <2>5. B[k] \in Nat /\ Weigh(B, N) \in Nat
    <3>1. IsFiniteSet(N) /\ \A x \in N : B[x] \in Nat
      BY <1>11, <2>2, FS_Subset
    <3>2. QED  BY <1>10, <2>2, <3>1, WeighNat
  <2>6. a.res = Weigh(B, E)
    BY <1>2, <2>1
  <2>7. QED  BY <2>1, <2>3, <2>4, <2>5, <2>6 DEF SatSub
<1>24. PopOnce(a) = [ents |-> [x \in N |-> ents[x]],
                     heap |-> {q \in heap : q[1] > t},
                     res  |-> Left(ents, j + 1),
                     out  |-> SubSeq(s, 1, j + 1)]
  BY <1>18, <1>20, <1>21, <1>22, <1>23
<1>25. QED  BY <1>4, <1>24 DEF a

(* Every tracked key has a pair of its own in the heap.                    *)
LEMMA HeapLargeEnough ==
  ASSUME NEW ents, NEW heap, Tracked(ents, heap), IsFiniteSet(heap)
  PROVE  /\ Cardinality(heap) \in Nat
         /\ Len(InTouchOrder(ents, DOMAIN ents)) <= Cardinality(heap)
<1> DEFINE D == DOMAIN ents
           s == InTouchOrder(ents, D)
           m == Len(s)
           f == [i \in 1..m |-> <<ents[s[i]].last_touch, s[i]>>]
<1>1. InOrder(ents, D, s)
  BY TouchOrderLists DEF Tracked
<1> HIDE DEF s
<1>2. /\ m \in Nat /\ \A i \in 1..m : s[i] \in D
      /\ \A i, l \in 1..m : i < l => ents[s[i]].last_touch < ents[s[l]].last_touch
  BY <1>1 DEF InOrder
<1>3. \A x \in D : ents[x].last_touch \in Nat /\ <<ents[x].last_touch, x>> \in heap
  BY DEF Tracked, Stamped
<1>4. f \in [1..m -> heap]
  BY <1>2, <1>3
<1>5. ASSUME NEW i \in 1..m, NEW l \in 1..m, i # l PROVE f[i] # f[l]
  <2>1. i < l \/ l < i
    BY <1>2, <1>5
  <2>2. ents[s[i]].last_touch \in Nat /\ ents[s[l]].last_touch \in Nat
    BY <1>2, <1>3
  <2>3. \/ ents[s[i]].last_touch < ents[s[l]].last_touch
        \/ ents[s[l]].last_touch < ents[s[i]].last_touch
    BY <1>2, <2>1
  <2>4. ents[s[i]].last_touch # ents[s[l]].last_touch
    BY <2>2, <2>3
  <2>5. QED  BY <2>4
<1> HIDE DEF f
<1>6. f \in Injection(1..m, heap)
  BY <1>4, <1>5 DEF Injection, IsInjective
<1>7. Cardinality(1..m) = m
  <2>1. m \in Nat
    BY <1>2
  <2> HIDE DEF m
  <2>2. QED  BY <2>1, FS_Interval
<1>8. Cardinality(1..m) <= Cardinality(heap)
  BY <1>6, FS_Injection
<1>9. QED  BY <1>7, <1>8, FS_CardinalityType DEF s

(* The loop ends with as many keys popped as have to go.                   *)
LEMMA LoopIs ==
  ASSUME NEW ents, NEW heap, Tracked(ents, heap), IsFiniteSet(heap),
         NEW n, LeastToGo(ents, n)
  PROVE  EvictLoop(After(ents, heap, 0)) = After(ents, heap, n)
<1> DEFINE m == Len(InTouchOrder(ents, DOMAIN ents))
           c == Cardinality(heap)
           St(i) == After(ents, heap, IF i <= n THEN i ELSE n)
           G(f) == [i \in 0..c |-> IF i = 0 THEN After(ents, heap, 0)
                                   ELSE IF f[i - 1].res > MaxBytes THEN PopOnce(f[i - 1])
                                   ELSE f[i - 1]]
           g == [i \in 0..c |-> St(i)]
           h == CHOOSE f : f = G(f)
<1>1. c \in Nat /\ m <= c
  BY HeapLargeEnough
<1>2. InOrder(ents, DOMAIN ents, InTouchOrder(ents, DOMAIN ents))
  BY TouchOrderLists DEF Tracked
<1>3. m \in Nat
  BY <1>2 DEF InOrder
<1>4. /\ n \in 0..m /\ Left(ents, n) <= MaxBytes
      /\ \A j \in 0..m : Left(ents, j) <= MaxBytes => n <= j
  BY DEF LeastToGo
<1>5. EvictLoop(After(ents, heap, 0)) = h[c]
  <2>1. After(ents, heap, 0).heap = heap
    BY DEF After
  <2>2. QED  BY <2>1, Zenon DEF EvictLoop
<1>6. \A j : After(ents, heap, j).res = Left(ents, j)
  BY DEF After
<1>7. MaxBytes \in Nat /\ \A j : Left(ents, j) \in Nat
  BY LruAssumption, LeftNat DEF Tracked
<1> HIDE DEF m
<1>8. n \in Nat /\ n <= m /\ n <= c
  BY <1>1, <1>3, <1>4
<1>9. ASSUME NEW i \in 1..c
      PROVE  St(i) = IF St(i - 1).res > MaxBytes THEN PopOnce(St(i - 1)) ELSE St(i - 1)
  <2>0. i \in Nat /\ i - 1 \in Nat /\ (i - 1) + 1 = i
    BY <1>1
  <2>1. CASE i <= n
    <3> DEFINE j == i - 1
    <3>1. j \in 0..m /\ j < m /\ j < n /\ j <= n /\ j \in Nat
      BY <1>3, <1>8, <2>0, <2>1
    <3>2. St(j) = After(ents, heap, j) /\ St(i) = After(ents, heap, j + 1)
      BY <2>0, <2>1, <3>1
    <3> HIDE DEF j
    <3>3. ~(Left(ents, j) <= MaxBytes)
      BY <1>4, <1>8, <3>1
    <3>4. Left(ents, j) > MaxBytes
      BY <1>7, <3>3
    <3>5. PopOnce(After(ents, heap, j)) = After(ents, heap, j + 1)
      BY <3>1, PopOnceIs DEF m
    <3> HIDE DEF St
    <3>6. St(i) = IF St(j).res > MaxBytes THEN PopOnce(St(j)) ELSE St(j)
      BY <1>6, <3>2, <3>4, <3>5
    <3>7. QED  BY <3>6 DEF j
  <2>2. CASE ~(i <= n)
    <3> DEFINE j == i - 1
    <3>1. St(i) = After(ents, heap, n)
      BY <2>2
    <3>2. St(j) = After(ents, heap, n)
      <4>1. j = n \/ ~(j <= n)
        BY <1>8, <2>0, <2>2
      <4> HIDE DEF j
      <4>2. QED  BY <4>1
    <3>3. ~(Left(ents, n) > MaxBytes)
      BY <1>4, <1>7
    <3> HIDE DEF St, j
    <3>4. St(i) = IF St(j).res > MaxBytes THEN PopOnce(St(j)) ELSE St(j)
      BY <1>6, <3>1, <3>2, <3>3
    <3>5. QED  BY <3>4 DEF j
  <2>3. QED  BY <2>1, <2>2
<1>10. St(0) = After(ents, heap, 0) /\ St(c) = After(ents, heap, n)
  <2>1. 0 <= n /\ (c <= n => c = n)
    BY <1>1, <1>8
  <2>2. QED  BY <2>1
<1> HIDE DEF St
<1>11. g = G(g)
  <2>1. ASSUME NEW i \in 0..c
        PROVE  g[i] = IF i = 0 THEN After(ents, heap, 0)
                      ELSE IF g[i - 1].res > MaxBytes THEN PopOnce(g[i - 1])
                      ELSE g[i - 1]
    <3>1. CASE i = 0
      BY <1>10, <3>1
    <3>2. CASE i # 0
      <4>1. i \in 1..c /\ i - 1 \in 0..c
        BY <1>1, <3>2
      <4>2. g[i] = St(i) /\ g[i - 1] = St(i - 1)
        BY <4>1
      <4>3. QED  BY <1>9, <3>2, <4>1, <4>2
    <3>3. QED  BY <3>1, <3>2
  <2>2. g = [i \in 0..c |-> g[i]]
    OBVIOUS
  <2> HIDE DEF g
  <2>3. QED  BY <2>1, <2>2
<1>12. h = G(h)
  <2> HIDE DEF G, g
  <2>1. QED  BY <1>11, Zenon
<1> HIDE DEF h
<1>13. ASSUME NEW i \in 0..c
       PROVE  h[i] = IF i = 0 THEN After(ents, heap, 0)
                     ELSE IF h[i - 1].res > MaxBytes THEN PopOnce(h[i - 1])
                     ELSE h[i - 1]
  BY <1>12
<1> HIDE DEF G, g
<1> DEFINE Bad == {i \in 0..c : h[i] # St(i)}
<1>14. Bad = {}
  <2> SUFFICES ASSUME Bad # {} PROVE FALSE
    OBVIOUS
  <2>1. PICK i \in Bad : \A l \in Bad : i <= l
    <3>1. Bad \subseteq Nat
      BY <1>1
    <3> HIDE DEF Bad
    <3>2. QED  BY <3>1, SmallestNat
  <2>2. i \in 0..c /\ h[i] # St(i)
    BY <2>1
  <2>3. i # 0
    BY <1>10, <1>13, <2>2
  <2>4. i \in 1..c /\ i - 1 \in 0..c /\ ~(i <= i - 1)
    BY <1>1, <2>2, <2>3
  <2>5. h[i - 1] = St(i - 1)
    BY <2>1, <2>4
  <2>6. h[i] = IF St(i - 1).res > MaxBytes THEN PopOnce(St(i - 1)) ELSE St(i - 1)
    BY <1>13, <2>2, <2>3, <2>5
  <2>7. QED  BY <1>9, <2>2, <2>4, <2>6
<1>15. h[c] = St(c)
  <2>1. c \in 0..c
    BY <1>1
  <2>2. QED  BY <1>14, <2>1
<1>16. QED  BY <1>5, <1>10, <1>15

(* The closed form of touch's eviction, everything stamped up to           *)
(* EvictionCut, is what its loop over pop_oldest computes, in the loop's    *)
(* order, whatever is touched next.                                         *)
THEOREM CutIsTheLoop == Spec => []CutMatchesLoop
<1>1. HeapInv /\ Account /\ Shape /\ FiniteHeap => CutMatchesLoop
  <2> SUFFICES ASSUME HeapInv, Account, Shape, FiniteHeap,
                      NEW k \in Key, NEW b \in Bytes
      PROVE  LET ents == Touched(entries, k, b)
                 heap == Pushed(oldest, k)
                 res  == ResidentAfterTouch(entries, resident_bytes, k, b)
                 cut  == EvictionCut(ents, heap, res)
                 gone == {p[2] : p \in PoppedUpTo(ents, heap, cut)}
                 loop == EvictLoop([ents |-> ents, heap |-> heap, res |-> res, out |-> <<>>])
             IN  /\ loop.out = InTouchOrder(ents, gone)
                 /\ loop.heap = {p \in heap : p[1] > cut}
                 /\ loop.res = SatSub(res, PairBytes(ents, PoppedUpTo(ents, heap, cut)))
    BY Zenon DEF CutMatchesLoop
  <2> DEFINE ents == Touched(entries, k, b)
             heap == Pushed(oldest, k)
             res  == ResidentAfterTouch(entries, resident_bytes, k, b)
             cut  == EvictionCut(ents, heap, res)
             gone == Gone(ents, heap, cut)
             D == DOMAIN ents
             s == InTouchOrder(ents, D)
             n == Lru!Excess(View(ents), MaxBytes)
             start == [ents |-> ents, heap |-> heap, res |-> res, out |-> <<>>]
  <2>1. b \in Nat /\ clock \in Nat
    BY LruAssumption DEF HeapInv, StampsTyped
  <2>2. Tracked(ents, heap) /\ Weighed(ents) /\ Stamped(ents, D)
    BY <2>1, TouchedTracked DEF Tracked
  <2>3. \A x \in D : 0 < ents[x].last_touch /\ ents[x].last_touch <= clock + 1
    BY <2>1, TouchedTracked
  <2>4. res = EntryBytes(ents)
    BY <2>1, TouchedBytes
  <2>5. IsFiniteSet(heap) /\ \A p \in heap : 0 < p[1]
    <3>1. IsFiniteSet(heap)
      BY FS_AddElement DEF FiniteHeap, Pushed
    <3>2. QED  BY <2>1, <3>1 DEF FiniteHeap, Pushed
  <2>6. ents = [x \in D |-> ents[x]]
    BY DEF Touched
  <2> HIDE DEF ents, heap, res
  <2>7. LeastToGo(ents, n)
    BY <2>2, ExcessIs
  <2> HIDE DEF n
  <2>8. InOrder(ents, D, s)
    BY <2>2, TouchOrderLists
  <2>9. n \in 0..Len(s) /\ Len(s) \in Nat
    BY <2>7, <2>8 DEF LeastToGo, InOrder
  <2>10. cut = CutAt(ents, n)
    BY <2>1, <2>2, <2>3, <2>4, <2>7, CutIs
  <2>11. gone = Front(s, n)
    BY <2>2, <2>3, <2>7, <2>10, CutGone
  <2>12. After(ents, heap, 0) = start
    <3>1. Front(s, 0) = {} /\ D \ {} = D
      BY DEF Front
    <3>2. Left(ents, 0) = res
      <4>1. res = Weigh(BytesOf(ents), D)
        BY <2>2, <2>4, EntryBytesIsWeight DEF Weighed
      <4>2. QED  BY <3>1, <4>1 DEF Left
    <3>3. SubSeq(s, 1, 0) = <<>>
      <4> HIDE DEF s
      <4>1. QED  BY <2>8 DEF InOrder
    <3>4. [x \in D \ Front(s, 0) |-> ents[x]] = ents
      BY <2>6, <3>1
    <3>5. QED  BY <3>2, <3>3, <3>4 DEF After
  <2>13. EvictLoop(start) = After(ents, heap, n)
    BY <2>2, <2>5, <2>7, <2>12, LoopIs
  <2>14. After(ents, heap, n).out = InTouchOrder(ents, gone)
    <3>1. After(ents, heap, n).out = SubSeq(s, 1, n)
      BY DEF After
    <3> HIDE DEF s
    <3>2. \A x \in D : ents[x].last_touch \in Nat
      BY <2>2 DEF Stamped
    <3>3. gone \subseteq D /\ InOrder(ents, gone, SubSeq(s, 1, n))
      <4> HIDE DEF gone, D
      <4>1. QED  BY <2>8, <2>9, <2>11, <3>2, OrderSplit
    <3> HIDE DEF gone
    <3>4. Stamped(ents, gone)
      <4>1. IsFiniteSet(gone)
        BY <2>2, <3>3, FS_Subset DEF Stamped
      <4>2. QED  BY <2>2, <3>3, <4>1 DEF Stamped
    <3>5. QED  BY <3>1, <3>3, <3>4, TouchOrderIs
  <2>15. After(ents, heap, n).heap = {p \in heap : p[1] > cut}
    <3>1. After(ents, heap, n).heap
            = IF n = 0 THEN heap ELSE {p \in heap : p[1] > ents[s[n]].last_touch}
      BY DEF After
    <3>2. CASE n = 0
      <4>1. cut = 0
        BY <2>10, <3>2 DEF CutAt
      <4>2. \A p \in heap : p[1] \in Nat
        BY <2>2 DEF Tracked
      <4> HIDE DEF cut
      <4>3. QED  BY <2>5, <3>1, <3>2, <4>1, <4>2
    <3>3. CASE n # 0
      <4>1. cut = ents[s[n]].last_touch
        BY <2>10, <3>3 DEF CutAt
      <4>2. QED  BY <3>1, <3>3, <4>1
    <3>4. QED  BY <3>2, <3>3
  <2>16. After(ents, heap, n).res = SatSub(res, PairBytes(ents, PoppedUpTo(ents, heap, cut)))
    <3>1. After(ents, heap, n).res = Left(ents, n)
      BY DEF After
    <3>2. QED  BY <2>2, <2>4, <2>11, <3>1, PoppedLeaves
  <2>17. QED  BY <2>13, <2>14, <2>15, <2>16, Zenon DEF ents, heap, res, Gone
<1>2. QED  BY <1>1, ShapeAlways, HeapFiniteAlways, PTL
=============================================================================
