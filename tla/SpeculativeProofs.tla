-------------------------- MODULE SpeculativeProofs --------------------------
(* Proofs about Speculative for every vocabulary, budget and draft length.     *)
(* Within a round everything the engine holds is a prefix of one text: the     *)
(* tokens emitted before the round, then the round's first token and drafts.   *)
EXTENDS Speculative, TLAPS

(* The first n rows of a round that starts from the text b.                    *)
RowsOf(b, f, d, n) == b \o SubSeq(<<f>> \o d, 1, n)

Base == SubSeq(out, 1, ckpt.len)
Rows(n) == RowsOf(Base, ckpt.first, drafts, n)
Rec == HasRecurrentState(opt.arch)

(* What an engine whose state is the rows picks, when its picks along the      *)
(* plain loop's text are those: raw, or with EOS excluded.                     *)
PickOf(plain, picks, rows) ==
  IF Sampled THEN Picks
  ELSE IF IsPrefix(rows, plain) /\ Len(rows) < Len(plain) THEN {picks[Len(rows) + 1]}
  ELSE {Wrong}

IsPick(plain, raw, w, rows) == w \in {PickOf(plain, raw, rows), PickOf(plain, plain, rows)}

Checking == {"batch", "step", "compare", "commit"}
InRound == pc \in Checking \cup {"draft"}

(* The inductive invariant, by parts.                                          *)
Typed ==
  /\ truth \in [1..(MaxTokens + 1) -> Picks]
  /\ opt \in Options
  /\ pc \in {"sample", "draft", "batch", "step", "compare", "commit", "done"}
  /\ ended \in {"no", "length", "eos", "caller", "cancelled", "failed"}
  /\ out \in Seq(Vocab) /\ Len(out) <= MaxTokens
  /\ drafts \in Seq(Picks) /\ accepted \in Nat
  /\ accepted <= K /\ K <= SpecK

(* Greedy, the text so far is what the plain loop emits.                       *)
TextIsTruth == Sampled \/ IsPrefix(out, Plain)

Between ==
  pc = "sample" => /\ kv = out /\ (Rec => hidden = out)
                   /\ IsPick(Plain, truth, logits, out) /\ ended = "no"

RoundTyped ==
  /\ ckpt.first \in Vocab /\ ckpt.len \in Nat
  /\ Len(out) = ckpt.len + 1 + accepted
  /\ ckpt.len + 1 + K <= MaxTokens
  /\ window \in Seq(SUBSET (Picks \cup {Wrong}))

Round ==
  InRound =>
    /\ RoundTyped
    /\ out = Rows(1 + accepted)
    /\ Rec => hidden = kv /\ ckpt.hidden = Base
    /\ ended = "no" => Len(out) < MaxTokens

Drafting ==
  pc = "draft" => accepted = 0 /\ Len(window) = 0 /\ ended = "no" /\ kv = Rows(K)

Verified ==
  pc \in Checking =>
    /\ K > 0 /\ Len(window) <= K + 1
    /\ kv = Rows(Len(window))
    /\ \A i \in 1..Len(window) : IsPick(Plain, truth, window[i], Rows(i))
    /\ pc = "batch" => Mode = "Batch" /\ accepted = 0 /\ Len(window) = 0
    /\ pc = "step" => Mode # "Batch" /\ Len(window) = accepted
    /\ pc = "compare" => accepted < K
    /\ pc # "commit" => ended = "no"
    /\ pc \in {"compare", "commit"} =>
         IF Mode = "Batch" THEN Len(window) = RowsVerified
         ELSE Len(window) = accepted + 1 \/ (ended # "no" /\ Len(window) = accepted)

Ending ==
  /\ pc = "commit" => /\ ended \in {"no", "length", "eos", "caller"}
                      /\ ended = "eos" => accepted < K
                      /\ ended = "length" => Len(out) = MaxTokens
  /\ pc = "done" => ended # "no"

IInv == Typed /\ TextIsTruth /\ Between /\ Round /\ Drafting /\ Verified /\ Ending

-----------------------------------------------------------------------------
(* Rows of a round.                                                            *)

(* r consists of the text b, the token f and the first tokens of d, n of both.  *)
IsRows(r, S, b, f, d, n) ==
  /\ r \in Seq(S) /\ Len(r) = Len(b) + n
  /\ \A i \in 1..(Len(b) + n) :
       r[i] = IF i <= Len(b) THEN b[i]
              ELSE IF i = Len(b) + 1 THEN f ELSE d[i - Len(b) - 1]

LEMMA RowsTyped ==
  ASSUME NEW S, NEW b \in Seq(S), NEW f \in S, NEW d \in Seq(S),
         NEW n \in 0..(Len(d) + 1)
  PROVE  IsRows(RowsOf(b, f, d, n), S, b, f, d, n)
<1> DEFINE v == <<f>> \o d
<1>1. v \in Seq(S) /\ Len(v) = Len(d) + 1
      /\ \A i \in 1..Len(v) : v[i] = IF i = 1 THEN f ELSE d[i - 1]
  OBVIOUS
<1> DEFINE w == SubSeq(v, 1, n)
<1> HIDE DEF v
<1>2. w \in Seq(S) /\ Len(w) = n /\ \A i \in 1..n : w[i] = v[i]
  BY <1>1
<1> HIDE DEF w
<1>3. /\ b \o w \in Seq(S)
      /\ Len(b \o w) = Len(b) + n
      /\ \A i \in 1..(Len(b) + n) :
           (b \o w)[i] = IF i <= Len(b) THEN b[i] ELSE w[i - Len(b)]
  <2>1. w \in Seq(S) /\ Len(w) = n
    BY <1>2
  <2>2. b \o w \in Seq(S) /\ Len(b \o w) = Len(b) + Len(w)
    BY <2>1
  <2>3. \A i \in 1..(Len(b) + Len(w)) :
           (b \o w)[i] = IF i <= Len(b) THEN b[i] ELSE w[i - Len(b)]
    BY <2>1
  <2> QED BY <2>1, <2>2, <2>3
<1>4. \A i \in 1..(Len(b) + n) : i > Len(b) =>
         w[i - Len(b)] = IF i = Len(b) + 1 THEN f ELSE d[i - Len(b) - 1]
  <2> TAKE i \in 1..(Len(b) + n)
  <2> HAVE i > Len(b)
  <2> DEFINE j == i - Len(b)
  <2>1. j \in 1..n /\ j \in 1..Len(v)  /\ (j = 1 <=> i = Len(b) + 1)
    BY <1>1
  <2> HIDE DEF j
  <2>2. w[j] = IF j = 1 THEN f ELSE d[j - 1]
    BY <1>1, <1>2, <2>1
  <2> QED BY <2>1, <2>2 DEF j
<1> HIDE DEF w
<1>5. RowsOf(b, f, d, n) = b \o w
  BY DEF RowsOf, w, v
<1> QED BY <1>3, <1>4, <1>5 DEF IsRows

LEMMA RowsEqual ==
  ASSUME NEW S, NEW s \in Seq(S), NEW t \in Seq(S), Len(s) = Len(t),
         \A i \in 1..Len(s) : s[i] = t[i]
  PROVE  s = t
OBVIOUS

LEMMA AppendFacts ==
  ASSUME NEW S, NEW s \in Seq(S), NEW x \in S
  PROVE  /\ Append(s, x) \in Seq(S) /\ Len(Append(s, x)) = Len(s) + 1
         /\ \A i \in 1..Len(s) : Append(s, x)[i] = s[i]
         /\ Append(s, x)[Len(s) + 1] = x
OBVIOUS

LEMMA RowsExtend ==
  ASSUME NEW S, NEW b \in Seq(S), NEW f \in S, NEW d \in Seq(S),
         NEW n \in 0..Len(d)
  PROVE  Append(RowsOf(b, f, d, n), (<<f>> \o d)[n + 1]) = RowsOf(b, f, d, n + 1)
<1> DEFINE x == (<<f>> \o d)[n + 1]
           r == RowsOf(b, f, d, n)
           q == RowsOf(b, f, d, n + 1)
<1>0. Len(b) \in Nat /\ n \in Nat /\ n \in 0..(Len(d) + 1) /\ n + 1 \in 0..(Len(d) + 1)
  OBVIOUS
<1>1. x \in S /\ x = IF n = 0 THEN f ELSE d[n]
  OBVIOUS
<1>a. IsRows(r, S, b, f, d, n) /\ IsRows(q, S, b, f, d, n + 1)
  BY <1>0, RowsTyped, Zenon
<1> HIDE DEF r, q, x
<1>2. r \in Seq(S) /\ q \in Seq(S) /\ Len(r) = Len(b) + n /\ Len(q) = Len(b) + n + 1
  BY <1>0, <1>a DEF IsRows
<1>3. \A i \in 1..(Len(b) + n) : r[i] = q[i]
  <2> TAKE i \in 1..(Len(b) + n)
  <2>1. i \in 1..(Len(b) + (n + 1))
    BY <1>0
  <2> QED BY <2>1, <1>a, Zenon DEF IsRows
<1>4. q[Len(b) + n + 1] = x
  BY <1>0, <1>1, <1>a DEF IsRows
<1>5. /\ Append(r, x) \in Seq(S) /\ Len(Append(r, x)) = Len(r) + 1
      /\ \A i \in 1..Len(r) : Append(r, x)[i] = r[i]
      /\ Append(r, x)[Len(r) + 1] = x
  <2>1. r \in Seq(S) /\ x \in S
    BY <1>1, <1>2
  <2> QED BY <2>1, AppendFacts
<1>6. \A i \in 1..Len(q) : Append(r, x)[i] = q[i]
  <2> TAKE i \in 1..Len(q)
  <2>1. i \in 1..(Len(b) + n) \/ i = Len(b) + n + 1
    BY <1>0, <1>2
  <2> QED BY <2>1, <1>2, <1>3, <1>4, <1>5, Zenon
<1>7. Append(r, x) = q
  BY <1>0, <1>2, <1>5, <1>6, RowsEqual
<1> QED BY <1>7 DEF r, q, x

LEMMA RowsBase ==
  ASSUME NEW S, NEW b \in Seq(S), NEW f \in S, NEW d \in Seq(S)
  PROVE  RowsOf(b, f, d, 0) = b
<1>1. 0 \in 0..(Len(d) + 1)
  OBVIOUS
<1>2. /\ RowsOf(b, f, d, 0) \in Seq(S) /\ Len(RowsOf(b, f, d, 0)) = Len(b)
      /\ \A i \in 1..Len(b) : RowsOf(b, f, d, 0)[i] = b[i]
  BY <1>1, RowsTyped DEF IsRows
<1> QED BY <1>2, RowsEqual

(* set_len back to a row of the round.                                         *)
LEMMA RowsCut ==
  ASSUME NEW S, NEW b \in Seq(S), NEW f \in S, NEW d \in Seq(S),
         NEW n \in 0..(Len(d) + 1), NEW m \in 0..n
  PROVE  SetLen(RowsOf(b, f, d, n), Len(b) + m) = RowsOf(b, f, d, m)
<1> DEFINE r == RowsOf(b, f, d, n)
           q == RowsOf(b, f, d, m)
<1>0. Len(b) \in Nat /\ n \in Nat /\ m \in Nat /\ m <= n /\ m \in 0..(Len(d) + 1)
  OBVIOUS
<1>a. IsRows(r, S, b, f, d, n) /\ IsRows(q, S, b, f, d, m)
  BY <1>0, RowsTyped, Zenon
<1> HIDE DEF r, q
<1>1. r \in Seq(S) /\ q \in Seq(S) /\ Len(r) = Len(b) + n /\ Len(q) = Len(b) + m
  BY <1>0, <1>a DEF IsRows
<1>2. \A i \in 1..(Len(b) + m) : r[i] = q[i]
  <2> TAKE i \in 1..(Len(b) + m)
  <2>1. i \in 1..(Len(b) + n)
    BY <1>0
  <2> QED BY <2>1, <1>a, Zenon DEF IsRows
<1>3. SetLen(r, Len(b) + m) = [i \in 1..(Len(b) + m) |-> q[i]]
  BY <1>0, <1>1, <1>2 DEF SetLen
<1>4. q = [i \in 1..(Len(b) + m) |-> q[i]]
  BY <1>0, <1>1
<1> QED BY <1>3, <1>4 DEF r, q

(* A draft more changes none of the rows before it.                            *)
LEMMA RowsMoreDrafts ==
  ASSUME NEW S, NEW b \in Seq(S), NEW f \in S, NEW d \in Seq(S), NEW x \in S,
         NEW n \in 0..(Len(d) + 1)
  PROVE  RowsOf(b, f, Append(d, x), n) = RowsOf(b, f, d, n)
<1> DEFINE e == Append(d, x)
           r == RowsOf(b, f, d, n)
           q == RowsOf(b, f, e, n)
<1>0. /\ Len(b) \in Nat /\ n \in Nat /\ n <= Len(d) + 1
      /\ e \in Seq(S) /\ Len(e) = Len(d) + 1
      /\ \A i \in 1..Len(d) : e[i] = d[i]
  OBVIOUS
<1> HIDE DEF e
<1>00. n \in 0..(Len(e) + 1)
  BY <1>0
<1>a. IsRows(r, S, b, f, d, n) /\ IsRows(q, S, b, f, e, n)
  BY <1>0, <1>00, RowsTyped, Zenon
<1> HIDE DEF r, q
<1>1. r \in Seq(S) /\ q \in Seq(S) /\ Len(r) = Len(b) + n /\ Len(q) = Len(b) + n
  BY <1>0, <1>a DEF IsRows
<1>2. \A i \in 1..(Len(b) + n) : r[i] = q[i]
  <2> TAKE i \in 1..(Len(b) + n)
  <2>1. i <= Len(b) \/ i = Len(b) + 1 \/ i - Len(b) - 1 \in 1..Len(d)
    BY <1>0
  <2>2. i <= Len(b) \/ i = Len(b) + 1 \/ e[i - Len(b) - 1] = d[i - Len(b) - 1]
    BY <2>1, <1>0, Zenon
  <2> QED BY <2>2, <1>a, Zenon DEF IsRows
<1>3. r = q
  BY <1>1, <1>2, RowsEqual
<1> QED BY <1>3 DEF r, q, e

(* Emitting keeps the text before the round.                                   *)
LEMMA PrefixKept ==
  ASSUME NEW S, NEW s \in Seq(S), NEW x \in S, NEW n \in 0..Len(s)
  PROVE  /\ SubSeq(Append(s, x), 1, n) = SubSeq(s, 1, n)
         /\ SubSeq(s, 1, n) \in Seq(S) /\ Len(SubSeq(s, 1, n)) = n
         /\ SubSeq(s, 1, Len(s)) = s
OBVIOUS

-----------------------------------------------------------------------------
(* Picks.                                                                      *)

(* The plain loop's text differs from the target's raw picks only where EOS is *)
(* ignored, and there it has a token.                                          *)
LEMMA PlainFacts ==
  ASSUME Typed
  PROVE  /\ Plain \in [1..(MaxTokens + 1) -> Picks] /\ Len(Plain) = MaxTokens + 1
         /\ \A i \in 1..(MaxTokens + 1) :
              /\ truth[i] # Eos => Plain[i] = truth[i]
              /\ truth[i] = Eos /\ ~opt.ignoreEos => Plain[i] = Eos
<1>1. DOMAIN truth = 1..(MaxTokens + 1) /\ \A i \in 1..(MaxTokens + 1) : truth[i] \in Picks
  BY DEF Typed
<1>2. Plain = [i \in 1..(MaxTokens + 1) |->
                IF opt.ignoreEos /\ truth[i] = Eos THEN NextBest[i] ELSE truth[i]]
  BY <1>1 DEF Plain, Greedy!Text
<1>3. \A i \in 1..(MaxTokens + 1) : NextBest[i] \in Picks
  BY NextBestAssumption DEF Picks
<1>4. Plain \in [1..(MaxTokens + 1) -> Picks]
  BY <1>1, <1>2, <1>3
<1>5. Len(Plain) = MaxTokens + 1
  BY <1>4, BudgetAssumption
<1> QED BY <1>2, <1>4, <1>5

LEMMA PlainEos ==
  ASSUME Typed, NEW i \in 1..(MaxTokens + 1), Plain[i] = Eos
  PROVE  truth[i] = Eos
<1>1. i \in DOMAIN truth /\ NextBest[i] # Eos
  BY NextBestAssumption, VocabAssumption DEF Typed
<1> QED BY <1>1 DEF Plain, Greedy!Text

LEMMA PlainKept ==
  ASSUME truth' = truth, opt' = opt
  PROVE  Plain' = Plain
BY DEF Plain, Greedy!Text

LEMMA PickState ==
  ASSUME NEW p \in {truth, Plain}, NEW r, NEW h, Rec => h = r
  PROVE  IsPick(Plain, truth, PicksAfter(p, r, h), r)
<1>1. PicksAfter(p, r, h) = PickOf(Plain, p, r)
  BY DEF Rec, PicksAfter, PickOf
<1> QED BY <1>1 DEF IsPick

LEMMA ByStepIsPlainOrRaw == ByStep \in {truth, Plain}
BY DEF ByStep

LEMMA PickTyped ==
  ASSUME Typed, NEW r, Len(r) \in Nat, NEW w, IsPick(Plain, truth, w, r)
  PROVE  w \in SUBSET (Picks \cup {Wrong})
<1>1. Plain \in [1..(MaxTokens + 1) -> Picks] /\ Len(Plain) = MaxTokens + 1
  BY PlainFacts
<1>2. Len(r) < Len(Plain) => truth[Len(r) + 1] \in Picks /\ Plain[Len(r) + 1] \in Picks
  BY <1>1, BudgetAssumption DEF Typed
<1> QED BY <1>2, Zenon DEF PickOf, IsPick

LEMMA PickOfText ==
  ASSUME Typed, TextIsTruth, NEW w, IsPick(Plain, truth, w, out)
  PROVE  /\ Sampled => w = Picks
         /\ ~Sampled => w = {truth[Len(out) + 1]} \/ w = {Plain[Len(out) + 1]}
         /\ truth[Len(out) + 1] \in Picks /\ Plain[Len(out) + 1] \in Picks
         /\ truth[Len(out) + 1] # Eos => Plain[Len(out) + 1] = truth[Len(out) + 1]
         /\ truth[Len(out) + 1] = Eos /\ ~opt.ignoreEos => Plain[Len(out) + 1] = Eos
<1>1. Plain \in [1..(MaxTokens + 1) -> Picks] /\ Len(Plain) = MaxTokens + 1
  BY PlainFacts
<1>2. Len(out) \in Nat /\ Len(out) < Len(Plain) /\ Len(out) + 1 \in 1..(MaxTokens + 1)
  BY <1>1, BudgetAssumption DEF Typed
<1>3. truth[Len(out) + 1] \in Picks /\ Plain[Len(out) + 1] \in Picks
  BY <1>1, <1>2 DEF Typed
<1>4. /\ Sampled => w = Picks
      /\ ~Sampled => w = {truth[Len(out) + 1]} \/ w = {Plain[Len(out) + 1]}
  BY <1>2, Zenon DEF PickOf, IsPick, TextIsTruth
<1> QED BY <1>2, <1>3, <1>4, PlainFacts

LEMMA PickEmitted ==
  ASSUME Typed, TextIsTruth, NEW w, IsPick(Plain, truth, w, out), NEW t \in w \ {Eos}
  PROVE  /\ t \in Vocab
         /\ Append(out, t) \in Seq(Vocab)
         /\ Len(Append(out, t)) = Len(out) + 1
         /\ Sampled \/ t = Plain[Len(out) + 1]
         /\ Sampled \/ IsPrefix(Append(out, t), Plain)
<1> DEFINE n == Len(out) + 1
<1>0. /\ Sampled => w = Picks
      /\ ~Sampled => w = {truth[n]} \/ w = {Plain[n]}
      /\ truth[n] \in Picks /\ Plain[n] \in Picks
      /\ truth[n] # Eos => Plain[n] = truth[n]
  BY PickOfText
<1> HIDE DEF n
<1>1. t \in Vocab
  <2>1. t \in Picks /\ t # Eos
    BY <1>0
  <2> QED BY <2>1 DEF Picks
<1>2. Append(out, t) \in Seq(Vocab) /\ Len(Append(out, t)) = Len(out) + 1
  BY <1>1 DEF Typed
<1>3. Sampled \/ t = Plain[Len(out) + 1]
  BY <1>0 DEF n
<1>4. ASSUME ~Sampled PROVE IsPrefix(Append(out, t), Plain)
  <2> DEFINE tr == Plain
  <2>1. t = tr[Len(out) + 1]
    BY <1>3, <1>4
  <2>2. IsPrefix(out, tr)
    BY <1>4 DEF TextIsTruth
  <2>a. tr \in [1..(MaxTokens + 1) -> Picks] /\ Len(tr) = MaxTokens + 1
    BY PlainFacts
  <2> HIDE DEF tr
  <2>3. Len(out) \in Nat /\ Len(out) < Len(tr)
    BY <2>a, BudgetAssumption DEF Typed
  <2>4. tr \in Seq(Picks)
    BY <2>a, BudgetAssumption
  <2>5. SubSeq(out, 1, Len(out)) = out /\ out \in Seq(Picks)
    BY DEF Typed, Picks
  <2>6. \A i \in 1..Len(out) : out[i] = tr[i]
    BY <2>2, <2>3, <2>4, <2>5 DEF IsPrefix
  <2>7. SubSeq(Append(out, t), 1, Len(out) + 1) = SubSeq(tr, 1, Len(out) + 1)
    BY <2>1, <2>3, <2>4, <2>5, <2>6
  <2>8. IsPrefix(Append(out, t), tr)
    BY <1>2, <2>3, <2>7 DEF IsPrefix
  <2> QED BY <2>8 DEF tr
<1> QED BY <1>1, <1>2, <1>3, <1>4

LEMMA ModeKept ==
  ASSUME opt' = opt
  PROVE  /\ Mode' = Mode /\ WithoutBonus' = WithoutBonus /\ Rec' = Rec
         /\ drafts' = drafts => RowsVerified' = RowsVerified /\ K' = K
BY DEF Mode, Sequential, WithoutBonus, RowsVerified, Rec, K

(* Every recurrent architecture but one is verified with care.                 *)
LEMMA RecurrentIsSequential ==
  ASSUME "NemotronHMoE" \notin Architectures, opt \in Options, Rec
  PROVE  Sequential
BY DEF Options, Rec, Sequential, HasRecurrentState, NeedsSequential

LEMMA RoundRows ==
  ASSUME IInv, InRound
  PROVE  /\ Base \in Seq(Picks) /\ Len(Base) = ckpt.len
         /\ ckpt.len \in Nat /\ ckpt.first \in Picks /\ drafts \in Seq(Picks)
         /\ K \in Nat /\ Len(window) \in Nat /\ accepted \in Nat
         /\ Len(out) = ckpt.len + 1 + accepted
<1>1. out \in Seq(Picks) /\ Len(out) \in Nat
  BY DEF IInv, Typed, Picks
<1>2. ckpt.len \in Nat /\ accepted \in Nat /\ Len(out) = ckpt.len + 1 + accepted
  BY DEF IInv, Typed, Round, RoundTyped
<1>3. ckpt.len \in 0..Len(out)
  BY <1>1, <1>2
<1>4. Base \in Seq(Picks) /\ Len(Base) = ckpt.len
  BY <1>1, <1>3, PrefixKept DEF Base
<1>5. ckpt.first \in Picks /\ drafts \in Seq(Picks)  /\ Len(window) \in Nat
  BY DEF IInv, Typed, Round, RoundTyped, Picks
<1> QED BY <1>2, <1>4, <1>5 DEF K

-----------------------------------------------------------------------------
(* Init and the actions, one by one.                                           *)

LEMMA InitIInv == Init => IInv
<1> SUFFICES ASSUME Init PROVE IInv
  OBVIOUS
<1>1. out \in Seq(Vocab) /\ Len(out) = 0 /\ drafts \in Seq(Picks) /\ Len(drafts) = 0
  BY DEF Init
<1>2. Typed
  BY <1>1, BudgetAssumption DEF Init, Typed, K
<1>3. TextIsTruth
  <2>1. truth \in Seq(Picks) /\ Len(truth) = MaxTokens + 1
    BY <1>2, BudgetAssumption DEF Typed
  <2>2. SubSeq(truth, 1, 0) = <<>> /\ SubSeq(<<>>, 1, 0) = <<>>
    BY <2>1
  <2>3. out = <<>>
    BY DEF Init
  <2> QED BY <2>1, <2>2, <2>3, <1>1, BudgetAssumption DEF TextIsTruth, IsPrefix
<1>4. Between
  BY PickState DEF Init, Between
<1>5. Round /\ Drafting /\ Verified /\ Ending
  BY DEF Init, Round, Drafting, Verified, Ending, InRound, Checking
<1> QED BY <1>2, <1>3, <1>4, <1>5 DEF IInv

(* Outside a round only the ending has to be looked at.                        *)
LEMMA DoneIInv ==
  ASSUME pc' = "done", Typed', TextIsTruth', ended' # "no"
  PROVE  IInv'
BY DEF IInv, Between, Round, Drafting, Verified, Ending, InRound, Checking

LEMMA CancelIInv ==
  ASSUME IInv, Cancel
  PROVE  IInv'
<1>1. Typed'
  BY DEF IInv, Cancel, Leave, Typed, round, K
<1>2. TextIsTruth'
  BY PlainKept DEF IInv, Cancel, TextIsTruth
<1> QED BY <1>1, <1>2, DoneIInv DEF Cancel, Leave

LEMMA SampleEosIInv ==
  ASSUME IInv, SampleEos
  PROVE  IInv'
<1>1. Typed'
  BY DEF IInv, SampleEos, Leave, Typed, round, K
<1>2. TextIsTruth'
  BY PlainKept DEF IInv, SampleEos, TextIsTruth
<1> QED BY <1>1, <1>2, DoneIInv DEF SampleEos, Leave

LEMMA SampleFirstIInv ==
  ASSUME IInv, SampleFirst
  PROVE  IInv'
<1>0. /\ kv = out /\ (Rec => hidden = out) /\ IsPick(Plain, truth, logits, out) /\ ended = "no"
      /\ Typed /\ TextIsTruth /\ pc = "sample"
  BY DEF IInv, Between, SampleFirst
<1>1. PICK t \in logits \ {Eos} :
        /\ out' = Append(out, t)
        /\ \/ Leave("caller") /\ UNCHANGED ckpt
           \/ Remaining = 1 /\ Leave("length") /\ UNCHANGED ckpt
           \/ /\ Remaining > 1
              /\ ckpt' = [first |-> t, len |-> Len(kv), hidden |-> hidden]
              /\ pc' = "draft" /\ UNCHANGED ended
  BY DEF SampleFirst
<1>2. /\ t \in Vocab /\ out' \in Seq(Vocab) /\ Len(out') = Len(out) + 1
      /\ Sampled \/ IsPrefix(out', Plain)
  BY <1>0, <1>1, PickEmitted, Zenon
<1>3. /\ drafts' \in Seq(Picks) /\ Len(drafts') = 0 /\ Len(window') = 0
      /\ window' \in Seq(SUBSET (Picks \cup {Wrong}))
      /\ accepted' = 0 /\ truth' = truth /\ opt' = opt /\ kv' = kv /\ hidden' = hidden
      /\ logits' = logits
  BY DEF SampleFirst, engine
<1>4. Len(out) \in Nat /\ Len(out) < MaxTokens /\ Len(out) <= MaxTokens
  BY <1>0, BudgetAssumption DEF SampleFirst, Remaining, Typed
<1>5. ended' \in {"caller", "length", "no"} /\ pc' \in {"done", "draft"}
  BY <1>0, <1>1 DEF Leave
<1>6. Typed'
  <2>1. Len(out') <= MaxTokens
    BY <1>2, <1>4, BudgetAssumption
  <2>2. accepted' \in Nat /\ accepted' <= K' /\ K' <= SpecK
    BY <1>3, BudgetAssumption DEF K
  <2> QED BY <1>0, <1>2, <1>3, <1>5, <2>1, <2>2 DEF Typed
<1>7. TextIsTruth'
  BY <1>2, <1>3, PlainKept DEF TextIsTruth
<1>8. CASE pc' = "done"
  <2>1. ended' # "no"
    BY <1>1, <1>8 DEF Leave
  <2> QED BY <1>6, <1>7, <1>8, <2>1, DoneIInv
<1>9. CASE pc' = "draft"
  <2>1. /\ Remaining > 1 /\ ended' = "no"
        /\ ckpt' = [first |-> t, len |-> Len(kv), hidden |-> hidden]
    BY <1>0, <1>1, <1>9 DEF Leave
  <2>2. ckpt'.first = t /\ ckpt'.len = Len(out) /\ ckpt'.hidden = hidden
    BY <2>1, <1>0
  <2>3. out \in Seq(Picks) /\ t \in Picks
    BY <1>0, <1>2 DEF Typed, Picks
  <2>4. Base' = out
    BY <2>2, <2>3, <1>1, PrefixKept, <1>4 DEF Base
  <2>5. Rows(0)' = out
    BY <2>2, <2>3, <2>4, <1>3, RowsBase DEF Rows
  <2>6. drafts' = <<>>
    BY DEF SampleFirst
  <2>7. Append(RowsOf(out, t, <<>>, 0), (<<t>> \o <<>>)[0 + 1]) = RowsOf(out, t, <<>>, 0 + 1)
    <3>1. 0 \in 0..Len(<<>>) /\ <<>> \in Seq(Picks)
      OBVIOUS
    <3> QED BY <2>3, <3>1, RowsExtend, Zenon
  <2>8. out' = Rows(1)'
    <3>1. (<<t>> \o <<>>)[0 + 1] = t /\ 0 + 1 = 1
      OBVIOUS
    <3>2. RowsOf(out, t, <<>>, 0) = out
      BY <2>2, <2>4, <2>5, <2>6 DEF Rows
    <3>3. Append(out, t) = RowsOf(out, t, <<>>, 1)
      BY <2>7, <3>1, <3>2
    <3> QED BY <3>3, <2>2, <2>4, <2>6, <1>1 DEF Rows
  <2>9. RoundTyped'
    <3>1. Len(out') = ckpt'.len + 1 + accepted'
      BY <1>2, <1>3, <1>4, <2>2
    <3>2. ckpt'.len + 1 + K' <= MaxTokens
      BY <1>3, <1>4, <2>2, BudgetAssumption DEF K
    <3> QED BY <1>2, <1>3, <1>4, <2>2, <3>1, <3>2 DEF RoundTyped
  <2>10. Round'
    <3>1. Len(out') < MaxTokens
      BY <1>2, <1>4, <2>1, BudgetAssumption DEF Remaining
    <3>2. (Rec => hidden = kv /\ ckpt.hidden = Base)'
      BY <1>0, <1>3, <2>2, <2>4 DEF Rec
    <3>3. (1 + accepted)' = 1
      BY <1>3
    <3>4. out' = Rows(1 + accepted)'
      BY <2>8, <3>3 DEF Rows
    <3> QED BY <2>9, <3>1, <3>2, <3>4 DEF Round
  <2>11. Drafting'
    BY <1>0, <1>3, <2>1, <2>5 DEF Drafting, K, Rows
  <2>12. Between' /\ Verified' /\ Ending'
    BY <1>9 DEF Between, Verified, Ending, Checking
  <2> QED BY <1>6, <1>7, <2>10, <2>11, <2>12 DEF IInv
<1> QED BY <1>5, <1>8, <1>9

LEMMA DraftIInv ==
  ASSUME IInv, Draft
  PROVE  IInv'
<1>0. /\ Typed /\ TextIsTruth /\ Round /\ Drafting /\ pc = "draft" /\ InRound
      /\ K < SpecK /\ K < Remaining
  BY DEF IInv, Draft, InRound
<1>1. PICK x \in Picks : drafts' = Append(drafts, x)
  BY DEF Draft
<1>2. /\ truth' = truth /\ opt' = opt /\ pc' = pc /\ out' = out /\ ended' = ended
      /\ logits' = logits /\ ckpt' = ckpt /\ window' = window /\ accepted' = accepted
  BY DEF Draft
<1>3. /\ Base \in Seq(Picks) /\ Len(Base) = ckpt.len
      /\ ckpt.len \in Nat /\ ckpt.first \in Picks /\ drafts \in Seq(Picks)
      /\ K \in Nat /\ Len(window) \in Nat /\ accepted \in Nat
      /\ Len(out) = ckpt.len + 1 + accepted
  BY <1>0, RoundRows
<1>4. Base' = Base
  BY <1>2 DEF Base
<1>5. drafts' \in Seq(Picks) /\ K' = K + 1
  BY <1>1, <1>3 DEF K
<1>6. Typed'
  <2>1. K' <= SpecK /\ accepted' <= K'
    BY <1>0, <1>2, <1>3, <1>5, BudgetAssumption DEF Typed
  <2> QED BY <1>0, <1>2, <1>5, <2>1 DEF Typed
<1>7. \A n \in 0..(K + 1) : Rows(n)' = Rows(n)
  BY <1>1, <1>2, <1>3, <1>4, RowsMoreDrafts DEF Rows, K
<1>8. RoundTyped'
  <2>1. ckpt.len + 1 + (K + 1) <= MaxTokens
    BY <1>0, <1>3, BudgetAssumption DEF Remaining, Drafting
  <2> QED BY <1>0, <1>2, <1>5, <2>1 DEF Round, RoundTyped
<1>9. Last(VerifyInput) = VerifyInput[K + 1]
  BY <1>3 DEF Last, VerifyInput, K
<1>10. kv' = Rows(K)'
  <2>1. kv' = Append(Rows(K), VerifyInput[K + 1])
    BY <1>0, <1>9 DEF Draft, Drafting
  <2>2. K \in 0..Len(drafts)
    BY <1>3 DEF K
  <2>3. Append(Rows(K), VerifyInput[K + 1]) = Rows(K + 1)
    BY <1>3, <2>2, RowsExtend DEF Rows, VerifyInput
  <2>4. K + 1 \in 0..(K + 1)
    BY <1>3
  <2> QED BY <1>5, <1>7, <2>1, <2>3, <2>4 DEF Rows
<1>11. out' = Rows(1 + accepted)'
  <2>1. 1 + accepted \in 0..(K + 1)
    BY <1>3, <1>0 DEF Drafting
  <2>2. Rows(1 + accepted)' = Rows(1 + accepted)
    BY <1>7, <2>1, <1>2 DEF Rows
  <2> QED BY <1>0, <1>2, <2>2 DEF Round
<1>12. Round'
  <2>1. Rec' => hidden' = kv' /\ ckpt'.hidden = Base'
    BY <1>0, <1>2, <1>4 DEF Draft, Round, Rec
  <2> QED BY <1>0, <1>2, <1>8, <1>11, <2>1 DEF Round, InRound
<1>13. Drafting'
  BY <1>0, <1>2, <1>10 DEF Drafting
<1>14. TextIsTruth' /\ Between' /\ Verified' /\ Ending'
  BY <1>0, <1>2, PlainKept DEF TextIsTruth, Between, Verified, Ending, Checking
<1> QED BY <1>6, <1>12, <1>13, <1>14 DEF IInv

(* Steps that leave text, checkpoint and drafts alone keep the round's text.   *)
LEMMA RowsKept ==
  ASSUME out' = out, ckpt' = ckpt, drafts' = drafts
  PROVE  Base' = Base /\ \A n : Rows(n)' = Rows(n)
BY DEF Base, Rows

LEMMA CheckingIInv ==
  ASSUME IInv, InRound, ended = "no", pc' \in Checking,
         UNCHANGED <<truth, opt, out, ended, logits, ckpt, drafts, accepted>>,
         window' \in Seq(SUBSET (Picks \cup {Wrong})),
         Rec => hidden' = kv', Verified'
  PROVE  IInv'
<1>0. Typed /\ TextIsTruth /\ Round
  BY DEF IInv
<1>1. Typed'
  BY <1>0 DEF Typed, Checking, K
<1>2. TextIsTruth'
  BY <1>0, PlainKept DEF TextIsTruth
<1>3. RoundTyped'
  BY <1>0 DEF Round, RoundTyped, K
<1>4. Round'
  <2>1. Base' = Base /\ Rec' = Rec /\ Rows(1 + accepted)' = Rows(1 + accepted)
    BY RowsKept, ModeKept DEF Rows
  <2> QED BY <1>0, <1>3, <2>1 DEF Round
<1>5. Between' /\ Drafting' /\ Ending'
  BY DEF Between, Drafting, Ending, Checking
<1> QED BY <1>1, <1>2, <1>4, <1>5 DEF IInv

LEMMA RestoreCheckpointIInv ==
  ASSUME IInv, RestoreCheckpoint
  PROVE  IInv'
<1>0. /\ Typed /\ Round /\ Drafting /\ pc = "draft" /\ InRound
      /\ K = SpecK \/ K = Remaining
  BY DEF IInv, RestoreCheckpoint, InRound
<1>1. /\ truth' = truth /\ opt' = opt /\ out' = out /\ ended' = ended
      /\ logits' = logits /\ ckpt' = ckpt /\ window' = window /\ accepted' = accepted
      /\ drafts' = drafts
  BY DEF RestoreCheckpoint, round
<1>2. /\ Base \in Seq(Picks) /\ Len(Base) = ckpt.len
      /\ ckpt.len \in Nat /\ ckpt.first \in Picks /\ drafts \in Seq(Picks)
      /\ K \in Nat
  BY <1>0, RoundRows
<1>3. pc' = IF Mode = "Batch" THEN "batch" ELSE "step"
  BY DEF RestoreCheckpoint
<1>4. accepted = 0 /\ Len(window) = 0 /\ ended = "no" /\ kv = Rows(K)
      /\ window \in Seq(SUBSET (Picks \cup {Wrong}))
  BY <1>0 DEF Drafting, Round, RoundTyped
<1>5. kv' = Rows(0) /\ Rows(0) = Base
  <2>1. K \in 0..(Len(drafts) + 1) /\ 0 \in 0..K /\ Len(Base) + 0 = ckpt.len
    BY <1>2 DEF K
  <2>2. SetLen(RowsOf(Base, ckpt.first, drafts, K), Len(Base) + 0) = RowsOf(Base, ckpt.first, drafts, 0)
    BY <1>2, <2>1, RowsCut, Zenon
  <2>3. kv' = SetLen(kv, ckpt.len)
    BY DEF RestoreCheckpoint
  <2> QED BY <1>2, <1>4, <2>1, <2>2, <2>3, RowsBase DEF Rows
<1>6. Rec => hidden' = kv'
  BY <1>0, <1>5 DEF RestoreCheckpoint, Round
<1>7. K > 0
  BY <1>0, <1>2, <1>4, BudgetAssumption DEF Round, Remaining, Typed
<1>8. Verified'
  <2>1. K' = K /\ Mode' = Mode /\ Rows(Len(window))' = Rows(Len(window))
    BY <1>1, RowsKept, ModeKept DEF Rows
  <2>2. K' > 0 /\ Len(window') <= K' + 1
    BY <2>1, <1>1, <1>2, <1>4, <1>7
  <2>3. kv' = Rows(Len(window))'
    BY <2>1, <1>4, <1>5
  <2>4. \A i \in 1..Len(window') : IsPick(Plain', truth', window'[i], Rows(i)')
    BY <1>1, <1>4
  <2>5. pc' # "compare" /\ pc' # "commit"
    BY <1>3
  <2> QED BY <2>1, <2>2, <2>3, <2>4, <2>5, <1>1, <1>3, <1>4 DEF Verified
<1>9. pc' \in Checking
  BY <1>3 DEF Checking
<1> QED BY <1>0, <1>1, <1>4, <1>6, <1>8, <1>9, CheckingIInv

(* One more verified row.                                                      *)
LEMMA VerifyStepIInv ==
  ASSUME IInv, VerifyStep
  PROVE  IInv'
<1> DEFINE n == Len(window)
           row == VerifyInput[n + 1]
<1>0. /\ Typed /\ Round /\ Verified /\ pc = "step" /\ InRound /\ pc \in Checking
  BY DEF IInv, VerifyStep, InRound, Checking
<1>1. /\ truth' = truth /\ opt' = opt /\ out' = out /\ ended' = ended
      /\ logits' = logits /\ ckpt' = ckpt /\ accepted' = accepted
      /\ drafts' = drafts
      /\ kv' = Append(kv, row) /\ hidden' = Append(hidden, row)
      /\ window' = Append(window, PicksAfter(ByStep, Append(kv, row), Append(hidden, row)))
      /\ pc' = IF n = K THEN "commit" ELSE "compare"
  BY DEF VerifyStep
<1>2. /\ Base \in Seq(Picks) /\ Len(Base) = ckpt.len
      /\ ckpt.len \in Nat /\ ckpt.first \in Picks /\ drafts \in Seq(Picks)
      /\ K \in Nat /\ n \in Nat /\ accepted \in Nat
  BY <1>0, RoundRows
<1>3. /\ Mode # "Batch" /\ n = accepted /\ ended = "no" /\ kv = Rows(n)
      /\ K > 0 /\ accepted <= K
      /\ \A i \in 1..n : IsPick(Plain, truth, window[i], Rows(i))
      /\ window \in Seq(SUBSET (Picks \cup {Wrong}))
      /\ Rec => hidden = kv
  BY <1>0 DEF Verified, Round, RoundTyped, Typed
<1>4. n \in 0..Len(drafts) /\ n + 1 \in 0..(Len(drafts) + 1)
  BY <1>2, <1>3 DEF K
<1>5. Append(kv, row) = Rows(n + 1)
  BY <1>2, <1>3, <1>4, RowsExtend, Zenon DEF Rows, VerifyInput
<1>6. Rec => Append(hidden, row) = Append(kv, row)
  BY <1>3
<1> DEFINE w == PicksAfter(ByStep, Append(kv, row), Append(hidden, row))
<1>7. IsPick(Plain, truth, w, Rows(n + 1))
  BY <1>5, <1>6, PickState, ByStepIsPlainOrRaw
<1>8. IsRows(Rows(n + 1), Picks, Base, ckpt.first, drafts, n + 1)
  BY <1>2, <1>4, RowsTyped, Zenon DEF Rows
<1>9. Len(Rows(n + 1)) \in Nat
  BY <1>2, <1>8 DEF IsRows
<1> HIDE DEF w
<1>10. w \in SUBSET (Picks \cup {Wrong})
  BY <1>0, <1>7, <1>9, PickTyped, Zenon
<1>11. window' = Append(window, w)
  BY <1>1 DEF w
<1> HIDE DEF n, row
<1>12. /\ window' \in Seq(SUBSET (Picks \cup {Wrong})) /\ Len(window') = n + 1
       /\ \A i \in 1..n : window'[i] = window[i]
       /\ window'[n + 1] = w
  BY <1>3, <1>10, <1>11 DEF n
<1>13. \A i \in 1..(n + 1) : IsPick(Plain, truth, window'[i], Rows(i))
  <2> TAKE i \in 1..(n + 1)
  <2>1. i \in 1..n \/ i = n + 1
    BY <1>2
  <2> QED BY <2>1, <1>3, <1>7, <1>12, Zenon
<1>14. Verified'
  <2>1. K' = K /\ Mode' = Mode /\ (\A i : Rows(i)' = Rows(i))
    BY <1>1, RowsKept, ModeKept
  <2>2. K' > 0 /\ Len(window') <= K' + 1
    BY <2>1, <1>2, <1>3, <1>12
  <2>3. kv' = Rows(Len(window))'
    BY <1>1, <1>5, <1>12, RowsKept DEF Rows
  <2>4. \A i \in 1..Len(window') : IsPick(Plain', truth', window'[i], Rows(i)')
    BY <1>1, <1>12, <1>13, <2>1, PlainKept
  <2>5. pc' # "batch" /\ pc' # "step" /\ ended' = "no"
    BY <1>1, <1>3
  <2>6. pc' = "compare" => accepted' < K'
    BY <2>1, <1>1, <1>2, <1>3
  <2>7. Mode' # "Batch" /\ Len(window') = accepted' + 1
    BY <2>1, <1>1, <1>3, <1>12
  <2> QED BY <2>2, <2>3, <2>4, <2>5, <2>6, <2>7 DEF Verified
<1>15. pc' \in Checking /\ (Rec => hidden' = kv')
  BY <1>1, <1>6 DEF Checking
<1> QED BY <1>0, <1>1, <1>3, <1>12, <1>14, <1>15, CheckingIInv

LEMMA SubSeqTwice ==
  ASSUME NEW S, NEW v \in Seq(S), NEW m \in 0..Len(v), NEW i \in 0..m
  PROVE  SubSeq(SubSeq(v, 1, m), 1, i) = SubSeq(v, 1, i)
OBVIOUS

LEMMA VerifyBatchIInv ==
  ASSUME IInv, VerifyBatch
  PROVE  IInv'
<1> DEFINE m == RowsVerified
           rows == SubSeq(VerifyInput, 1, m)
<1>0. /\ Typed /\ Round /\ Verified /\ pc = "batch" /\ InRound /\ pc \in Checking
  BY DEF IInv, VerifyBatch, InRound, Checking
<1>1. /\ truth' = truth /\ opt' = opt /\ out' = out /\ ended' = ended
      /\ logits' = logits /\ ckpt' = ckpt /\ accepted' = accepted
      /\ drafts' = drafts /\ pc' = "compare"
      /\ kv' = kv \o rows /\ hidden' = hidden \o rows
      /\ window' = [i \in 1..m |->
            PicksAfter(truth, kv \o SubSeq(rows, 1, i), hidden \o SubSeq(rows, 1, i))]
  BY DEF VerifyBatch
<1>2. /\ Base \in Seq(Picks) /\ Len(Base) = ckpt.len
      /\ ckpt.len \in Nat /\ ckpt.first \in Picks /\ drafts \in Seq(Picks)
      /\ K \in Nat /\ accepted \in Nat
  BY <1>0, RoundRows
<1>3. /\ Mode = "Batch" /\ accepted = 0 /\ ended = "no" /\ kv = Rows(Len(window))
      /\ Len(window) = 0 /\ K > 0
      /\ Rec => hidden = kv
  BY <1>0 DEF Verified, Round
<1>4. m \in Nat /\ K <= m /\ m <= K + 1
  BY <1>2 DEF RowsVerified
<1>5. VerifyInput \in Seq(Picks) /\ Len(VerifyInput) = K + 1
  BY <1>2 DEF VerifyInput, K
<1>6. kv = Base
  BY <1>2, <1>3, RowsBase DEF Rows
<1>7. \A i \in 1..m : SubSeq(rows, 1, i) = SubSeq(VerifyInput, 1, i)
  <2> TAKE i \in 1..m
  <2>1. m \in 0..Len(VerifyInput) /\ i \in 0..m
    BY <1>2, <1>4, <1>5
  <2> QED BY <1>5, <2>1, SubSeqTwice, Zenon
<1>8. \A i : Rows(i) = kv \o SubSeq(VerifyInput, 1, i)
  BY <1>6 DEF Rows, RowsOf, VerifyInput
<1>9. kv' = Rows(m)
  BY <1>1, <1>8
<1> HIDE DEF rows, m
<1> DEFINE p == [i \in 1..m |->
             PicksAfter(truth, kv \o SubSeq(rows, 1, i), hidden \o SubSeq(rows, 1, i))]
<1>10. \A i \in 1..m : IsPick(Plain, truth, p[i], Rows(i))
  <2> TAKE i \in 1..m
  <2> DEFINE r == kv \o SubSeq(rows, 1, i)
             h == hidden \o SubSeq(rows, 1, i)
  <2>1. p[i] = PicksAfter(truth, r, h) /\ (Rec => h = r) /\ r = Rows(i)
    BY <1>3, <1>7, <1>8
  <2> HIDE DEF p, r, h
  <2>2. IsPick(Plain, truth, PicksAfter(truth, r, h), r)
    BY <2>1, PickState
  <2> QED BY <2>1, <2>2
<1>11. window' = p /\ p = [i \in 1..m |-> p[i]]
  BY <1>1
<1> HIDE DEF p
<1>12. \A i \in 1..m : p[i] \in SUBSET (Picks \cup {Wrong})
  <2> TAKE i \in 1..m
  <2>1. i \in 0..(Len(drafts) + 1)
    BY <1>2, <1>4 DEF K
  <2>2. IsRows(Rows(i), Picks, Base, ckpt.first, drafts, i)
    BY <1>2, <2>1, RowsTyped, Zenon DEF Rows
  <2>3. Len(Rows(i)) \in Nat
    BY <1>2, <2>1, <2>2 DEF IsRows
  <2> QED BY <1>0, <1>10, <2>3, PickTyped, Zenon
<1>13. p \in [1..m -> SUBSET (Picks \cup {Wrong})]
  BY <1>11, <1>12
<1>16. window' \in Seq(SUBSET (Picks \cup {Wrong})) /\ Len(window') = m
  BY <1>4, <1>11, <1>13
<1>17. Verified'
  <2>1. K' = K /\ Mode' = Mode /\ (\A i : Rows(i)' = Rows(i)) /\ RowsVerified' = RowsVerified
    BY <1>1, RowsKept, ModeKept
  <2>2. K' > 0 /\ Len(window') <= K' + 1
    BY <2>1, <1>2, <1>3, <1>4, <1>16
  <2>3. kv' = Rows(Len(window))'
    BY <1>1, <1>9, <1>16, RowsKept DEF Rows
  <2>4. \A i \in 1..Len(window') : IsPick(Plain', truth', window'[i], Rows(i)')
    BY <1>1, <1>10, <1>11, <1>16, <2>1, PlainKept
  <2>5. ended' = "no" /\ accepted' < K'
    BY <1>1, <1>2, <1>3, <2>1
  <2>6. Mode' = "Batch" /\ Len(window') = RowsVerified'
    BY <2>1, <1>3, <1>16 DEF m
  <2> QED BY <1>1, <2>2, <2>3, <2>4, <2>5, <2>6 DEF Verified
<1>18. pc' \in Checking /\ (Rec => hidden' = kv')
  BY <1>1, <1>3 DEF Checking
<1> QED BY <1>0, <1>1, <1>3, <1>16, <1>17, <1>18, CheckingIInv

(* At a comparison the window has the pick after the text so far.              *)
LEMMA CompareFacts ==
  ASSUME IInv, pc = "compare"
  PROVE  /\ Typed /\ TextIsTruth /\ Round /\ Verified /\ InRound /\ pc \in Checking
         /\ accepted + 1 \in 1..Len(window)
         /\ IsPick(Plain, truth, window[accepted + 1], out)
         /\ ended = "no" /\ out = Rows(1 + accepted) /\ accepted < K
<1>0. Typed /\ TextIsTruth /\ Round /\ Verified /\ InRound /\ pc \in Checking
  BY DEF IInv, InRound, Checking
<1>1. K \in Nat /\ Len(window) \in Nat /\ accepted \in Nat
  BY <1>0, RoundRows
<1>2. ended = "no" /\ accepted < K /\ out = Rows(1 + accepted)
  BY <1>0 DEF Verified, Round
<1>3. accepted + 1 <= Len(window)
  <2>1. CASE Mode = "Batch"
    BY <2>1, <1>0, <1>1, <1>2 DEF Verified, RowsVerified
  <2>2. CASE Mode # "Batch"
    BY <2>2, <1>0, <1>1, <1>2 DEF Verified
  <2> QED BY <2>1, <2>2
<1>4. accepted + 1 \in 1..Len(window) /\ 1 + accepted = accepted + 1
  BY <1>1, <1>3
<1>5. IsPick(Plain, truth, window[accepted + 1], Rows(accepted + 1))
  BY <1>0, <1>4 DEF Verified
<1> QED BY <1>0, <1>2, <1>4, <1>5

LEMMA AcceptIInv ==
  ASSUME IInv, Accept
  PROVE  IInv'
<1> DEFINE d == drafts[accepted + 1]
<1>0. /\ Typed /\ TextIsTruth /\ Round /\ Verified /\ InRound /\ pc = "compare" /\ pc \in Checking
      /\ accepted + 1 \in 1..Len(window)
      /\ IsPick(Plain, truth, window[accepted + 1], out)
      /\ ended = "no" /\ out = Rows(1 + accepted) /\ accepted < K
  BY CompareFacts DEF Accept
<1>1. /\ truth' = truth /\ opt' = opt /\ ckpt' = ckpt /\ drafts' = drafts /\ window' = window
      /\ kv' = kv /\ hidden' = hidden
      /\ out' = Append(out, d) /\ accepted' = accepted + 1
      /\ d \in window[accepted + 1] \ {Eos}
  BY DEF Accept, engine
<1>2. /\ Base \in Seq(Picks) /\ Len(Base) = ckpt.len
      /\ ckpt.len \in Nat /\ ckpt.first \in Picks /\ drafts \in Seq(Picks)
      /\ K \in Nat /\ accepted \in Nat /\ Len(window) \in Nat
      /\ Len(out) = ckpt.len + 1 + accepted
  BY <1>0, RoundRows
<1>3. /\ d \in Vocab /\ out' \in Seq(Vocab) /\ Len(out') = Len(out) + 1
      /\ Sampled \/ IsPrefix(out', Plain)
  BY <1>0, <1>1, PickEmitted, Zenon
<1>4. \/ ended' = "caller" /\ pc' = "commit"
      \/ Remaining = 1 /\ ended' = "length" /\ pc' = "commit"
      \/ Remaining > 1 /\ pc' = AfterAccept /\ ended' = "no"
  BY <1>0 DEF Accept
<1>5. /\ Len(out) \in Nat /\ Len(out) < MaxTokens /\ ckpt.len + 1 + K <= MaxTokens
      /\ window \in Seq(SUBSET (Picks \cup {Wrong})) /\ ckpt.first \in Vocab
      /\ Rec => hidden = kv /\ ckpt.hidden = Base
  BY <1>0, <1>2 DEF Round, RoundTyped
<1>6. /\ AfterAccept \in {"commit", "compare", "step"}
      /\ AfterAccept = "step" => Mode # "Batch"
      /\ AfterAccept = "compare" => Mode = "Batch" /\ accepted + 1 # K
      /\ AfterAccept = "commit" => Mode = "Batch"
  BY DEF AfterAccept
<1> HIDE DEF d
<1>7. pc' \in {"commit", "compare", "step"} /\ ended' \in {"no", "caller", "length"}
  BY <1>4, <1>6
<1>8. Typed'
  <2>1. Len(out') <= MaxTokens
    BY <1>3, <1>5, BudgetAssumption
  <2>2. accepted' \in Nat /\ accepted' <= K' /\ K' <= SpecK
    BY <1>0, <1>1, <1>2 DEF K, Typed
  <2> QED BY <1>0, <1>1, <1>3, <1>7, <2>1, <2>2 DEF Typed
<1>9. TextIsTruth'
  BY <1>1, <1>3, PlainKept DEF TextIsTruth
<1>10. Base' = Base
  <2>1. ckpt.len \in 0..Len(out) /\ out \in Seq(Vocab)
    BY <1>0, <1>2 DEF Typed
  <2> QED BY <2>1, <1>1, <1>3, PrefixKept DEF Base
<1>11. \A n : Rows(n)' = Rows(n)
  BY <1>1, <1>10 DEF Rows
<1>12. out' = Rows(1 + accepted)'
  <2>1. accepted + 1 \in 0..Len(drafts)
    BY <1>0, <1>2 DEF K
  <2>2. Append(RowsOf(Base, ckpt.first, drafts, accepted + 1), (<<ckpt.first>> \o drafts)[accepted + 1 + 1])
          = RowsOf(Base, ckpt.first, drafts, accepted + 1 + 1)
    BY <1>2, <2>1, RowsExtend, Zenon
  <2>3. (<<ckpt.first>> \o drafts)[accepted + 1 + 1] = d
    BY <1>2, <2>1 DEF d
  <2>4. 1 + accepted = accepted + 1 /\ (1 + accepted)' = accepted + 1 + 1
    BY <1>1, <1>2
  <2>5. Append(out, d) = Rows(accepted + 1 + 1)
    BY <1>0, <2>2, <2>3, <2>4 DEF Rows
  <2> QED BY <1>1, <1>10, <2>4, <2>5 DEF Rows
<1>13. Round'
  <2>1. RoundTyped'
    <3>1. accepted' = accepted + 1 /\ ckpt' = ckpt /\ K' = K
      BY <1>1 DEF K
    <3> DEFINE l == ckpt.len
    <3>a. ckpt'.len = l /\ l \in Nat /\ Len(out) = l + 1 + accepted
      BY <3>1, <1>2
    <3> HIDE DEF l
    <3>2. Len(out') = ckpt'.len + 1 + accepted'
      <4>1. Len(out') = Len(out) + 1
        BY <1>3
      <4> QED BY <3>1, <3>a, <4>1, <1>2
    <3> QED BY <3>1, <3>2, <1>1, <1>2, <1>5 DEF RoundTyped
  <2>2. ended' = "no" => Len(out') < MaxTokens
    BY <1>3, <1>4, <1>5, BudgetAssumption DEF Remaining
  <2>3. Rec' => hidden' = kv' /\ ckpt'.hidden = Base'
    BY <1>1, <1>5, <1>10, ModeKept
  <2> QED BY <2>1, <2>2, <2>3, <1>12 DEF Round
<1>14. Verified'
  <2>1. K' = K /\ Mode' = Mode /\ RowsVerified' = RowsVerified
    BY <1>1, ModeKept
  <2>2. /\ K > 0 /\ Len(window) <= K + 1
        /\ kv = Rows(Len(window))
        /\ \A i \in 1..Len(window) : IsPick(Plain, truth, window[i], Rows(i))
        /\ IF Mode = "Batch" THEN Len(window) = RowsVerified ELSE Len(window) = accepted + 1
    BY <1>0 DEF Verified
  <2>3. kv' = Rows(Len(window))'
    BY <1>1, <1>10, <2>2 DEF Rows
  <2>4. \A i \in 1..Len(window') : IsPick(Plain', truth', window'[i], Rows(i)')
    BY <1>1, <1>11, <2>2, PlainKept
  <2>5. pc' # "commit" => ended' = "no" /\ pc' = AfterAccept
    BY <1>4
  <2>6. pc' = "compare" => accepted' < K' /\ Mode' = "Batch"
    <3>1. pc' = "compare" => Mode = "Batch" /\ accepted + 1 # K
      BY <1>6, <2>5
    <3> QED BY <1>0, <1>1, <1>2, <2>1, <3>1
  <2>7. pc' = "step" => Mode' # "Batch" /\ Len(window') = accepted'
    BY <1>1, <1>6, <2>1, <2>2, <2>5
  <2>8. pc' = "commit" => Mode' = "Batch" \/ ended' # "no"
    BY <1>4, <1>6, <2>1
  <2>9. pc' \in {"compare", "commit"} =>
         IF Mode' = "Batch" THEN Len(window') = RowsVerified'
         ELSE Len(window') = accepted' + 1 \/ (ended' # "no" /\ Len(window') = accepted')
    BY <1>1, <2>1, <2>2, <2>6, <2>8
  <2>10. K' > 0 /\ Len(window') <= K' + 1
    BY <1>1, <2>1, <2>2
  <2> QED BY <1>7, <2>3, <2>4, <2>5, <2>6, <2>7, <2>9, <2>10 DEF Verified
<1>15. Ending'
  <2>1. ended' = "length" => Len(out') = MaxTokens
    BY <1>3, <1>4, <1>5, BudgetAssumption DEF Remaining
  <2> QED BY <1>7, <2>1 DEF Ending
<1>16. Between' /\ Drafting'
  BY <1>7 DEF Between, Drafting
<1> QED BY <1>8, <1>9, <1>13, <1>14, <1>15, <1>16 DEF IInv

LEMMA RejectIInv ==
  ASSUME IInv, Reject
  PROVE  IInv'
<1>0. /\ Typed /\ Round /\ Verified /\ InRound /\ pc = "compare" /\ pc \in Checking
      /\ ended = "no" /\ accepted < K
  BY CompareFacts DEF Reject
<1>1. /\ truth' = truth /\ opt' = opt /\ out' = out /\ ended' = ended
      /\ logits' = logits /\ ckpt' = ckpt /\ accepted' = accepted /\ window' = window
      /\ drafts' = drafts /\ pc' = "commit" /\ kv' = kv /\ hidden' = hidden
  BY DEF Reject, round, engine
<1>2. /\ window \in Seq(SUBSET (Picks \cup {Wrong})) /\ (Rec => hidden = kv)
  BY <1>0 DEF Round, RoundTyped
<1>3. Verified'
  <2>1. K' = K /\ Mode' = Mode /\ (\A i : Rows(i)' = Rows(i)) /\ RowsVerified' = RowsVerified
        /\ Rows(Len(window))' = Rows(Len(window))
    BY <1>1, RowsKept, ModeKept DEF Rows
  <2> QED BY <1>0, <1>1, <2>1, PlainKept DEF Verified
<1> QED BY <1>0, <1>1, <1>2, <1>3, CheckingIInv DEF Checking

LEMMA AcceptEosIInv ==
  ASSUME IInv, AcceptEos
  PROVE  IInv'
<1>0. /\ Typed /\ TextIsTruth /\ Round /\ Verified /\ InRound /\ pc = "compare" /\ pc \in Checking
      /\ ended = "no" /\ accepted < K
  BY CompareFacts DEF AcceptEos
<1>1. /\ truth' = truth /\ opt' = opt /\ out' = out /\ ended' = "eos"
      /\ logits' = logits /\ ckpt' = ckpt /\ accepted' = accepted /\ window' = window
      /\ drafts' = drafts /\ pc' = "commit" /\ kv' = kv /\ hidden' = hidden
  BY DEF AcceptEos, round, engine
<1>2. /\ K' = K /\ Mode' = Mode /\ (\A i : Rows(i)' = Rows(i)) /\ RowsVerified' = RowsVerified
      /\ Rows(Len(window))' = Rows(Len(window)) /\ Rows(1 + accepted)' = Rows(1 + accepted)
      /\ Rec' = Rec /\ Base' = Base
  BY <1>1, RowsKept, ModeKept DEF Rows
<1>3. Verified'
  BY <1>0, <1>1, <1>2, PlainKept DEF Verified
<1>4. Typed' /\ TextIsTruth'
  BY <1>0, <1>1, <1>2, PlainKept DEF Typed, TextIsTruth
<1>5. RoundTyped'
  BY <1>0, <1>1, <1>2 DEF Round, RoundTyped
<1>6. Round'
  BY <1>0, <1>1, <1>2, <1>5 DEF Round
<1>7. Between' /\ Drafting' /\ Ending'
  BY <1>0, <1>1, <1>2 DEF Between, Drafting, Ending
<1> QED BY <1>3, <1>4, <1>6, <1>7 DEF IInv

(* The end of a round that leaves the text in the engine.                      *)
LEMMA CommitIInv ==
  ASSUME IInv, pc = "commit", pc' = NextRound,
         UNCHANGED <<truth, opt, out, ended, ckpt, drafts, window, accepted>>,
         ended = "no" => kv' = out /\ IsPick(Plain, truth, logits', out),
         Rec => hidden' = kv'
  PROVE  IInv'
<1>0. Typed /\ TextIsTruth
  BY DEF IInv
<1>1. pc' = IF ended = "no" THEN "sample" ELSE "done"
  BY DEF NextRound
<1>2. Typed' /\ TextIsTruth'
  BY <1>0, <1>1, PlainKept DEF Typed, TextIsTruth, K
<1>3. Rec' = Rec /\ Plain' = Plain
  BY ModeKept, PlainKept
<1>4. Between'
  BY <1>1, <1>3 DEF Between
<1>5. Ending'
  BY <1>1, <1>3 DEF Ending, Rec
<1>6. Round' /\ Drafting' /\ Verified'
  BY <1>1 DEF Round, Drafting, Verified, InRound, Checking
<1> QED BY <1>2, <1>4, <1>5, <1>6 DEF IInv

LEMMA CommitFacts ==
  ASSUME IInv, pc = "commit"
  PROVE  /\ Typed /\ Round /\ Verified /\ InRound
         /\ Base \in Seq(Picks) /\ Len(Base) = ckpt.len
         /\ ckpt.len \in Nat /\ ckpt.first \in Picks /\ drafts \in Seq(Picks)
         /\ K \in Nat /\ K > 0 /\ accepted \in Nat /\ accepted <= K
         /\ Len(window) \in 0..(K + 1)
         /\ out = Rows(1 + accepted) /\ kv = Rows(Len(window))
         /\ \A i \in 1..Len(window) : IsPick(Plain, truth, window[i], Rows(i))
         /\ Rec => hidden = kv /\ ckpt.hidden = Base
<1>0. Typed /\ Round /\ Verified /\ InRound
  BY DEF IInv, InRound, Checking
<1>1. /\ Base \in Seq(Picks) /\ Len(Base) = ckpt.len
      /\ ckpt.len \in Nat /\ ckpt.first \in Picks /\ drafts \in Seq(Picks)
      /\ K \in Nat /\ accepted \in Nat /\ Len(window) \in Nat
  BY <1>0, RoundRows
<1>2. Len(window) \in 0..(K + 1) /\ K > 0
  BY <1>0, <1>1 DEF Verified, Checking
<1>3. /\ kv = Rows(Len(window))
      /\ \A i \in 1..Len(window) : IsPick(Plain, truth, window[i], Rows(i))
  BY <1>0 DEF Verified, Checking
<1> QED BY <1>0, <1>1, <1>2, <1>3 DEF Round, Typed

(* set_len to the committed rows.                                              *)
LEMMA CommitCut ==
  ASSUME IInv, pc = "commit", NEW n \in 0..Len(window)
  PROVE  SetLen(kv, ckpt.len + n) = Rows(n)
<1>1. Len(window) \in 0..(Len(drafts) + 1)
  BY CommitFacts DEF K
<1>2. SetLen(RowsOf(Base, ckpt.first, drafts, Len(window)), Len(Base) + n)
        = RowsOf(Base, ckpt.first, drafts, n)
  BY <1>1, CommitFacts, RowsCut, Zenon
<1> QED BY <1>2, CommitFacts DEF Rows

LEMMA CommitStepsIInv ==
  ASSUME IInv, CommitSteps
  PROVE  IInv'
<1>0. /\ pc = "commit" /\ Mode # "Batch" /\ pc' = NextRound /\ logits' = window[Len(window)]
      /\ UNCHANGED <<truth, opt, out, ended, ckpt, drafts, window, accepted, kv, hidden>>
  BY DEF CommitSteps, engine, round
<1>1. /\ Len(window) \in {accepted, accepted + 1}
      /\ ended = "no" => Len(window) = accepted + 1
  BY <1>0, CommitFacts DEF Verified, Checking
<1>2. accepted \in Nat /\ accepted + 1 = 1 + accepted /\ Len(window) \in 0..(1 + accepted)
  BY <1>0, <1>1, CommitFacts
<1>3. kv = Rows(Len(window)) /\ out = Rows(1 + accepted) /\ (Rec => hidden = kv)
  BY <1>0, CommitFacts
<1>5. ended = "no" => kv = out /\ IsPick(Plain, truth, window[Len(window)], out)
  <2>1. Len(window) = 1 + accepted => Len(window) \in 1..Len(window)
    BY <1>2
  <2> QED BY <1>0, <1>1, <1>2, <1>3, <2>1, CommitFacts
<1> QED BY <1>0, <1>3, <1>5, CommitIInv

LEMMA CommitWithoutBonusIInv ==
  ASSUME IInv, CommitWithoutBonus
  PROVE  IInv'
<1>0. /\ pc = "commit" /\ WithoutBonus /\ accepted = K /\ pc' = NextRound
      /\ ended = "no" \/ Remaining = 0
      /\ UNCHANGED <<truth, opt, out, ended, ckpt, drafts, window, accepted>>
  BY DEF CommitWithoutBonus, round
<1>1. Len(window) = K
  BY <1>0, CommitFacts DEF Verified, Checking, WithoutBonus, RowsVerified
<1>2. kv = Rows(K) /\ out = Rows(1 + K) /\ (Rec => hidden = kv) /\ K \in Nat /\ K > 0
      /\ drafts \in Seq(Picks) /\ Base \in Seq(Picks) /\ ckpt.first \in Picks
  BY <1>0, <1>1, CommitFacts, Zenon
<1>3. CASE Remaining = 0
  <2>1. ended # "no"
    BY <1>0, <1>3, CommitFacts, BudgetAssumption DEF Round, Remaining, Typed
  <2>2. kv' = kv /\ hidden' = hidden
    BY <1>3 DEF CommitWithoutBonus, engine
  <2> QED BY <1>0, <1>2, <2>1, <2>2, CommitIInv
<1>4. CASE Remaining # 0
  <2>1. /\ kv' = Append(kv, Last(drafts)) /\ hidden' = Append(hidden, Last(drafts))
        /\ logits' = PicksAfter(ByStep, kv', hidden')
    BY <1>4 DEF CommitWithoutBonus
  <2>2. Last(drafts) = (<<ckpt.first>> \o drafts)[K + 1] /\ K \in 0..Len(drafts)
    BY <1>2 DEF Last, K
  <2>3. Append(RowsOf(Base, ckpt.first, drafts, K), (<<ckpt.first>> \o drafts)[K + 1])
          = RowsOf(Base, ckpt.first, drafts, K + 1)
    BY <1>2, <2>2, RowsExtend, Zenon
  <2>4. K + 1 = 1 + K
    BY <1>2
  <2>5. kv' = out
    BY <1>2, <2>1, <2>2, <2>3, <2>4 DEF Rows
  <2>6. Rec => hidden' = kv'
    BY <1>2, <2>1
  <2>7. IsPick(Plain, truth, logits', out)
    BY <2>1, <2>5, <2>6, PickState, ByStepIsPlainOrRaw
  <2> QED BY <1>0, <2>5, <2>6, <2>7, CommitIInv
<1> QED BY <1>3, <1>4

LEMMA CommitFailsIInv ==
  ASSUME IInv, CommitFails
  PROVE  IInv'
<1>1. Typed' /\ TextIsTruth'
  BY PlainKept DEF IInv, CommitFails, Leave, Typed, TextIsTruth, round, K
<1> QED BY <1>1, DoneIInv DEF CommitFails, Leave

LEMMA CommitBatchIInv ==
  ASSUME IInv, CommitBatch, "NemotronHMoE" \notin Architectures
  PROVE  IInv'
<1> DEFINE n == 1 + accepted
           rows == SubSeq(VerifyInput, 1, n)
<1>0. /\ pc = "commit" /\ Mode = "Batch" /\ ~(WithoutBonus /\ accepted = K)
      /\ pc' = NextRound
      /\ UNCHANGED <<truth, opt, out, ended, ckpt, drafts, window, accepted>>
  BY DEF CommitBatch, round
<1>1. Len(window) = RowsVerified /\ K \in Nat /\ accepted \in Nat /\ accepted <= K
      /\ ckpt.len \in Nat /\ out = Rows(n) /\ kv = Rows(Len(window))
      /\ (Rec => hidden = kv /\ ckpt.hidden = Base)
      /\ Base \in Seq(Picks) /\ ckpt.first \in Picks /\ drafts \in Seq(Picks)
      /\ Typed
  BY <1>0, CommitFacts DEF Verified, Checking
<1>2. n \in Nat /\ n <= Len(window) /\ Len(window) \in Nat
  BY <1>0, <1>1 DEF RowsVerified
<1>3. n \in 1..Len(window) /\ n \in 0..Len(window) /\ 0 \in 0..Len(window)
      /\ ckpt.len + 0 = ckpt.len /\ Committed(accepted) = n
  BY <1>1, <1>2 DEF Committed
<1>5. CASE Replay(Sequential, Mode, K, accepted, Matches)
  <2>1. /\ kv' = SetLen(kv, ckpt.len) \o rows /\ hidden' = ckpt.hidden \o rows
        /\ logits' = PicksAfter(ByStep, kv', hidden')
    BY <1>3, <1>5 DEF CommitBatch
  <2>2. SetLen(kv, ckpt.len) = Rows(0)
    BY <1>0, <1>3, CommitCut
  <2>3. Rows(0) = Base
    BY <1>1, RowsBase DEF Rows
  <2>4. kv' = out
    BY <1>1, <2>1, <2>2, <2>3 DEF Rows, RowsOf, VerifyInput
  <2>5. Rec => hidden' = kv'
    BY <1>1, <2>1, <2>2, <2>3
  <2>6. IsPick(Plain, truth, logits', out)
    BY <2>1, <2>4, <2>5, PickState, ByStepIsPlainOrRaw
  <2> QED BY <1>0, <2>4, <2>5, <2>6, CommitIInv
<1>6. CASE ~Replay(Sequential, Mode, K, accepted, Matches)
  <2>1. kv' = SetLen(kv, ckpt.len + n) /\ logits' = window[n] /\ hidden' = hidden
    BY <1>3, <1>6 DEF CommitBatch, NextPick
  <2>2. kv' = out
    BY <1>0, <1>1, <1>3, <2>1, CommitCut
  <2>3. IsPick(Plain, truth, logits', out)
    BY <1>0, <1>1, <1>3, <2>1, CommitFacts
  <2>4. ASSUME Rec PROVE hidden' = kv'
    <3>1. Sequential
      BY <1>1, <2>4, RecurrentIsSequential DEF Typed
    <3>2. ~(accepted < K) \/ Matches
      BY <1>0, <1>6, <3>1 DEF Replay
    <3>3. CASE Matches
      BY <3>3, <1>1, <1>3, <2>1, <2>2, <2>4 DEF Matches
    <3>4. CASE ~(accepted < K)
      <4>1. accepted = K
        BY <3>4, <1>1
      <4>2. Len(window) = K + 1
        BY <4>1, <1>0, <1>1 DEF RowsVerified
      <4>3. Len(window) = n
        BY <4>1, <4>2, <1>1
      <4> QED BY <4>3, <1>1, <2>1, <2>2, <2>4
    <3> QED BY <3>2, <3>3, <3>4
  <2> QED BY <1>0, <2>2, <2>3, <2>4, CommitIInv
<1> QED BY <1>5, <1>6

-----------------------------------------------------------------------------
(* Every step.                                                                 *)

LEMMA StepIInv ==
  ASSUME IInv, [Next]_vars, "NemotronHMoE" \notin Architectures
  PROVE  IInv'
<1>1. CASE SampleEos          BY <1>1, SampleEosIInv
<1>2. CASE SampleFirst        BY <1>2, SampleFirstIInv
<1>3. CASE Draft              BY <1>3, DraftIInv
<1>4. CASE RestoreCheckpoint  BY <1>4, RestoreCheckpointIInv
<1>5. CASE VerifyBatch        BY <1>5, VerifyBatchIInv
<1>6. CASE VerifyStep         BY <1>6, VerifyStepIInv
<1>7. CASE Accept             BY <1>7, AcceptIInv
<1>8. CASE AcceptEos          BY <1>8, AcceptEosIInv
<1>9. CASE Reject             BY <1>9, RejectIInv
<1>10. CASE CommitSteps        BY <1>10, CommitStepsIInv
<1>11. CASE CommitWithoutBonus BY <1>11, CommitWithoutBonusIInv
<1>12. CASE CommitFails        BY <1>12, CommitFailsIInv
<1>13. CASE CommitBatch        BY <1>13, CommitBatchIInv
<1>14. CASE Cancel             BY <1>14, CancelIInv
<1>15. CASE UNCHANGED vars
  <2>1. /\ truth' = truth /\ opt' = opt /\ pc' = pc /\ out' = out /\ ended' = ended
        /\ kv' = kv /\ hidden' = hidden /\ logits' = logits /\ ckpt' = ckpt
        /\ drafts' = drafts /\ window' = window /\ accepted' = accepted
    BY <1>15 DEF vars
  <2>2. /\ K' = K /\ Mode' = Mode /\ RowsVerified' = RowsVerified /\ Rec' = Rec /\ Base' = Base
        /\ Rows(Len(window))' = Rows(Len(window)) /\ Rows(1 + accepted)' = Rows(1 + accepted)
        /\ Rows(K)' = Rows(K) /\ Plain' = Plain /\ \A i : Rows(i)' = Rows(i)
    BY <2>1, RowsKept, ModeKept, PlainKept DEF Rows, K
  <2>3. Typed' /\ TextIsTruth'
    BY <2>1, <2>2 DEF IInv, Typed, TextIsTruth
  <2>4. Between' /\ Drafting'
    BY <2>1, <2>2 DEF IInv, Between, Drafting
  <2>5. RoundTyped' = RoundTyped /\ InRound' = InRound
    BY <2>1, <2>2 DEF RoundTyped, InRound
  <2>6. Round'
    BY <2>1, <2>2, <2>5 DEF IInv, Round
  <2>7. Verified'
    BY <2>1, <2>2 DEF IInv, Verified
  <2>8. Ending'
    BY <2>1, <2>2 DEF IInv, Ending
  <2> QED BY <2>3, <2>4, <2>6, <2>7, <2>8 DEF IInv
<1> QED BY <1>1, <1>2, <1>3, <1>4, <1>5, <1>6, <1>7, <1>8, <1>9, <1>10, <1>11,
           <1>12, <1>13, <1>14, <1>15 DEF Next, Step, Terminated

(* The refinement: a step emits what the plain loop picks, ends the text, or   *)
(* is not seen.                                                                *)
EmitsOrEnds == Greedy!Next \/ UNCHANGED <<truth, opt.ignoreEos, out, SeenEnd>>

LEMMA GreedyEmit ==
  ASSUME IInv, ~Sampled, ended = "no", Len(out) < MaxTokens, truth' = truth, opt' = opt,
         NEW w, IsPick(Plain, truth, w, out), NEW t \in w \ {Eos}, out' = Append(out, t),
         \/ ended' \in {"no", "caller"}
         \/ Len(out) + 1 = MaxTokens /\ ended' = "length"
  PROVE  Greedy!Emit
<1>1. t = Plain[Len(out) + 1] /\ Plain[Len(out) + 1] # Eos
  BY PickEmitted, Zenon DEF IInv
<1>2. SeenEnd = "no" /\ SeenEnd' = ended'
  BY DEF SeenEnd
<1> QED BY <1>1, <1>2 DEF Greedy!Emit, Plain

(* At an EOS: the plain loop's end, or not its end when EOS is ignored.        *)
LEMMA GreedyEos ==
  ASSUME IInv, ~Sampled, ended = "no", truth' = truth, opt' = opt, out' = out, ended' = "eos",
         NEW w, IsPick(Plain, truth, w, out), Eos \in w
  PROVE  Greedy!ReachEos \/ Greedy!Cancel
<1>1. CASE opt.ignoreEos
  <2>1. SeenEnd = "no" /\ SeenEnd' = "cancelled"
    BY <1>1 DEF SeenEnd
  <2> QED BY <2>1 DEF Greedy!Cancel
<1>2. CASE ~opt.ignoreEos
  <2>1. Plain[Len(out) + 1] = Eos
    BY <1>2, PickOfText, Zenon DEF IInv
  <2>2. SeenEnd = "no" /\ SeenEnd' = "eos"
    BY <1>2 DEF SeenEnd
  <2> QED BY <2>1, <2>2 DEF Greedy!ReachEos, Plain
<1> QED BY <1>1, <1>2

LEMMA StepIsGreedy ==
  ASSUME IInv, [Next]_vars, ~Sampled
  PROVE  EmitsOrEnds
<1>1. CASE SampleEos
  <2>1. IsPick(Plain, truth, logits, out) /\ ended = "no"
    BY <1>1 DEF IInv, Between, SampleEos
  <2> QED BY <1>1, <2>1, GreedyEos DEF SampleEos, Leave, EmitsOrEnds, Greedy!Next
<1>2. CASE SampleFirst
  <2>1. IsPick(Plain, truth, logits, out) /\ ended = "no"
    BY <1>2 DEF IInv, Between, SampleFirst
  <2>2. PICK t \in logits \ {Eos} :
          /\ out' = Append(out, t)
          /\ \/ Leave("caller")
             \/ Remaining = 1 /\ Leave("length")
             \/ ended' = ended
    BY <1>2 DEF SampleFirst
  <2>3. truth' = truth /\ opt' = opt /\ Remaining > 0
    BY <1>2 DEF SampleFirst
  <2>4. Len(out) < MaxTokens /\ (Remaining = 1 => Len(out) + 1 = MaxTokens)
    BY <2>3, BudgetAssumption DEF Remaining, IInv, Typed
  <2>5. \/ ended' \in {"no", "caller"}
        \/ Len(out) + 1 = MaxTokens /\ ended' = "length"
    BY <2>1, <2>2, <2>4 DEF Leave
  <2>6. Greedy!Emit
    BY <2>1, <2>2, <2>3, <2>4, <2>5, GreedyEmit
  <2> QED BY <2>6 DEF EmitsOrEnds, Greedy!Next
<1>3. CASE Accept
  <2>1. /\ IsPick(Plain, truth, window[accepted + 1], out) /\ ended = "no" /\ Typed /\ Round /\ InRound
    BY <1>3, CompareFacts DEF Accept
  <2>2. /\ out' = Append(out, drafts[accepted + 1])
        /\ drafts[accepted + 1] \in window[accepted + 1] \ {Eos}
        /\ truth' = truth /\ opt' = opt
    BY <1>3, <2>1 DEF Accept
  <2>3. Len(out) < MaxTokens /\ (Remaining = 1 => Len(out) + 1 = MaxTokens)
    BY <2>1, BudgetAssumption DEF Remaining, Round, Typed
  <2>4. \/ ended' \in {"no", "caller"}
        \/ Len(out) + 1 = MaxTokens /\ ended' = "length"
    BY <1>3, <2>1, <2>3 DEF Accept
  <2>5. Greedy!Emit
    BY <2>1, <2>2, <2>3, <2>4, GreedyEmit
  <2> QED BY <2>5 DEF EmitsOrEnds, Greedy!Next
<1>4. CASE AcceptEos
  <2>1. IsPick(Plain, truth, window[accepted + 1], out) /\ ended = "no"
    BY <1>4, CompareFacts DEF AcceptEos
  <2> QED BY <1>4, <2>1, GreedyEos DEF AcceptEos, EmitsOrEnds, Greedy!Next
<1>5. CASE Cancel
  <2>1. ended = "no"
    BY <1>5 DEF IInv, Between, Drafting, Cancel
  <2>2. SeenEnd = "no" /\ SeenEnd' = "cancelled"
    BY <1>5, <2>1 DEF Cancel, Leave, SeenEnd
  <2> QED BY <1>5, <2>2 DEF Cancel, EmitsOrEnds, Greedy!Next, Greedy!Cancel
<1>6. CASE CommitFails
  <2>1. ended = "caller"
    <3>1. /\ ended \in {"no", "length", "eos", "caller"} /\ ended # "no"
          /\ ended = "eos" => accepted < K
          /\ ended = "length" => Len(out) = MaxTokens
      BY <1>6 DEF IInv, Ending, CommitFails
    <3>2. accepted = K /\ Remaining > 0 /\ Len(out) \in Nat /\ K \in Nat
      BY <1>6 DEF CommitFails, IInv, Typed, K
    <3>3. Len(out) # MaxTokens /\ ~(accepted < K)
      BY <3>2, BudgetAssumption DEF Remaining
    <3> QED BY <3>1, <3>3
  <2>2. SeenEnd' = SeenEnd
    BY <1>6, <2>1 DEF CommitFails, Leave, SeenEnd
  <2> QED BY <1>6, <2>2 DEF CommitFails, EmitsOrEnds
<1>7. CASE \/ Draft \/ RestoreCheckpoint \/ VerifyBatch \/ VerifyStep \/ Reject
           \/ CommitSteps \/ CommitWithoutBonus \/ CommitBatch \/ UNCHANGED vars
  <2>1. truth' = truth /\ opt' = opt /\ out' = out /\ ended' = ended
    BY <1>7 DEF Draft, RestoreCheckpoint, VerifyBatch, VerifyStep, Reject,
                CommitSteps, CommitWithoutBonus, CommitBatch, vars
  <2>2. SeenEnd' = SeenEnd
    BY <2>1 DEF SeenEnd
  <2> QED BY <2>1, <2>2 DEF EmitsOrEnds
<1> QED BY <1>1, <1>2, <1>3, <1>4, <1>5, <1>6, <1>7 DEF Next, Step, Terminated

-----------------------------------------------------------------------------
(* For every vocabulary, budget, draft length and combination of switches, and *)
(* every architecture but NemotronHMoE: the types, and that neither the text   *)
(* nor the drafts outgrow their limits (k = spec_k.min(tokens_remaining)).     *)
THEOREM SpeculativeTypes ==
  ASSUME "NemotronHMoE" \notin Architectures
  PROVE  Spec => []TypeOK
<1>1. IInv => TypeOK
  <2> SUFFICES ASSUME IInv PROVE TypeOK
    OBVIOUS
  <2>1. \A i \in 1..Len(out) : out[i] \in Vocab
    BY DEF IInv, Typed
  <2>2. accepted \in 0..SpecK
    BY BudgetAssumption DEF IInv, Typed, K
  <2> QED BY <2>1, <2>2 DEF IInv, Typed, TypeOK
<1>2. IInv /\ [Next]_vars => IInv'
  BY StepIInv
<1> QED BY InitIInv, <1>1, <1>2, PTL DEF Spec

(* Between two rounds the engine holds the emitted text and nothing else,      *)
(* however the round was verified, cut back or replayed.                       *)
THEOREM RoundsLeaveTheText ==
  ASSUME "NemotronHMoE" \notin Architectures
  PROVE  Spec => []StateIsCommitted
<1>1. IInv => StateIsCommitted
  BY DEF IInv, Between, StateIsCommitted, Rec
<1>2. IInv /\ [Next]_vars => IInv'
  BY StepIInv
<1> QED BY InitIInv, <1>1, <1>2, PTL DEF Spec

(* Greedy speculative decoding implements the plain greedy loop, with EOS       *)
(* ignored or not: the text is a run of the plain loop's own, emitted token by *)
(* token and ended for the same reason.  A request that ignores EOS may end    *)
(* before the plain loop does, where the target's raw pick is EOS; that it     *)
(* never does is EosIsIgnored, which does not hold.                            *)
THEOREM SpeculativeIsGreedy ==
  ASSUME "NemotronHMoE" \notin Architectures, ~Sampled
  PROVE  Spec => ImplementsGreedy
<1>1. Init => Greedy!Init
  BY NextBestAssumption DEF Init, Options, Greedy!Init, Greedy!Truths, Picks, SeenEnd
<1>2. IInv /\ [Next]_vars
        => [Greedy!Next]_<<truth, opt.ignoreEos, out, SeenEnd>>
  BY StepIsGreedy DEF EmitsOrEnds
<1>3. IInv /\ [Next]_vars => IInv'
  BY StepIInv
<1> QED BY InitIInv, <1>1, <1>2, <1>3, PTL DEF Spec, ImplementsGreedy, Greedy!Spec

LEMMA StepStops ==
  ASSUME IInv, StopsAtTargetsEos, [Next]_vars
  PROVE  StopsAtTargetsEos'
<1>1. CASE SampleEos \/ AcceptEos
  <2>1. PICK w : IsPick(Plain, truth, w, out) /\ Eos \in w
    <3>1. CASE SampleEos
      BY <3>1 DEF IInv, Between, SampleEos
    <3>2. CASE AcceptEos
      BY <3>2, CompareFacts DEF AcceptEos
    <3> QED BY <1>1, <3>1, <3>2
  <2>2. ~Sampled => truth[Len(out) + 1] = Eos
    <3>1. Typed /\ TextIsTruth
      BY DEF IInv
    <3>2. Len(out) + 1 \in 1..(MaxTokens + 1)
      BY <3>1, BudgetAssumption DEF Typed
    <3>3. ~Sampled => w = {truth[Len(out) + 1]} \/ w = {Plain[Len(out) + 1]}
      BY <2>1, <3>1, PickOfText
    <3>4. Plain[Len(out) + 1] = Eos => truth[Len(out) + 1] = Eos
      BY <3>1, <3>2, PlainEos
    <3> QED BY <2>1, <3>3, <3>4
  <2>3. truth' = truth /\ out' = out
    BY <1>1 DEF SampleEos, AcceptEos
  <2> QED BY <2>2, <2>3 DEF StopsAtTargetsEos
<1>2. CASE SampleFirst \/ Accept \/ Cancel \/ CommitFails
  <2>1. ended' # "eos"
    BY <1>2, CompareFacts DEF SampleFirst, Accept, Cancel, CommitFails, Leave, IInv, Between
  <2> QED BY <2>1 DEF StopsAtTargetsEos
<1>3. CASE \/ Draft \/ RestoreCheckpoint \/ VerifyBatch \/ VerifyStep \/ Reject
           \/ CommitSteps \/ CommitWithoutBonus \/ CommitBatch \/ UNCHANGED vars
  <2>1. truth' = truth /\ out' = out /\ ended' = ended
    BY <1>3 DEF Draft, RestoreCheckpoint, VerifyBatch, VerifyStep, Reject,
                CommitSteps, CommitWithoutBonus, CommitBatch, vars
  <2> QED BY <2>1 DEF StopsAtTargetsEos
<1> QED BY <1>1, <1>2, <1>3 DEF Next, Step, Terminated

(* The one early end that the refinement above lets pass is at an EOS of the   *)
(* target's own: no draft, and no pick of a wrong row, ends a text.            *)
THEOREM StopsOnlyAtEos ==
  ASSUME "NemotronHMoE" \notin Architectures
  PROVE  Spec => []StopsAtTargetsEos
<1>1. Init => StopsAtTargetsEos
  BY DEF Init, StopsAtTargetsEos
<1>2. IInv /\ StopsAtTargetsEos /\ [Next]_vars => StopsAtTargetsEos'
  BY StepStops
<1>3. IInv /\ [Next]_vars => IInv'
  BY StepIInv
<1> QED BY InitIInv, <1>1, <1>2, <1>3, PTL DEF Spec

(* The token that ended a round's acceptance is one the target picks next.     *)
RefusedIsPick ==
  \/ refused = Nothing
  \/ /\ pc \in {"commit", "sample"}
     /\ \E w : IsPick(Plain, truth, w, out) /\ refused \in w
  \/ pc = "done"

LEMMA StepRefused ==
  ASSUME IInv, RefusedIsPick, [Next]_vars
  PROVE  RefusedIsPick'
<1>1. CASE Reject
  <2>1. IsPick(Plain, truth, window[accepted + 1], out)
    BY <1>1, CompareFacts DEF Reject
  <2>2. /\ refused' \in window[accepted + 1] /\ pc' = "commit" /\ out' = out /\ truth' = truth
        /\ Plain' = Plain
    BY <1>1, PlainKept DEF Reject
  <2> QED BY <2>1, <2>2 DEF RefusedIsPick
<1>2. CASE SampleFirst
  BY <1>2 DEF SampleFirst, RefusedIsPick
<1>3. CASE CommitSteps \/ CommitWithoutBonus \/ CommitBatch \/ CommitFails
  <2>1. /\ pc = "commit" /\ truth' = truth /\ out' = out /\ refused' = refused
        /\ pc' \in {"sample", "done"} /\ Plain' = Plain
    BY <1>3, PlainKept DEF CommitSteps, CommitWithoutBonus, CommitBatch, CommitFails, NextRound, Leave
  <2> QED BY <2>1 DEF RefusedIsPick
<1>4. CASE SampleEos \/ Cancel
  BY <1>4 DEF SampleEos, Cancel, Leave, RefusedIsPick
<1>5. CASE Draft \/ RestoreCheckpoint \/ VerifyBatch \/ VerifyStep \/ Accept \/ AcceptEos
  BY <1>5 DEF Draft, RestoreCheckpoint, VerifyBatch, VerifyStep, Accept, AcceptEos, RefusedIsPick
<1>6. CASE UNCHANGED vars
  BY <1>6, PlainKept DEF vars, RefusedIsPick
<1> QED BY <1>1, <1>2, <1>3, <1>4, <1>5, <1>6 DEF Next, Step, Terminated

(* Greedy, the target's token that beat a draft is the first of the next round *)
(* ("next iteration samples target_token as the first_token of next round"),   *)
(* an EOS that the request ignores excepted.                                   *)
THEOREM RejectedTargetIsNext ==
  ASSUME "NemotronHMoE" \notin Architectures, ~Sampled
  PROVE  Spec => RejectedTargetComesNext
<1>1. Init => RefusedIsPick
  BY DEF Init, RefusedIsPick
<1>2. IInv /\ RefusedIsPick /\ [Next]_vars => RefusedIsPick'
  BY StepRefused
<1>3. IInv /\ [Next]_vars => IInv'
  BY StepIInv
<1>4. ASSUME IInv, RefusedIsPick, Next, pc = "sample", Len(out') > Len(out),
             refused # Nothing, opt.ignoreEos => refused # Eos
      PROVE  Last(out') = refused
  <2>1. Typed /\ TextIsTruth /\ IsPick(Plain, truth, logits, out) /\ Len(out) \in Nat
    BY <1>4 DEF IInv, Between, Typed
  <2>2. out' # out
    BY <1>4, <2>1
  <2>3. SampleFirst
    BY <1>4, <2>2 DEF Next, Step, Terminated, vars, SampleEos, Cancel, Draft, RestoreCheckpoint,
         VerifyBatch, VerifyStep, Accept, AcceptEos, Reject, CommitSteps, CommitWithoutBonus,
         CommitFails, CommitBatch
  <2>4. PICK t \in logits \ {Eos} : out' = Append(out, t)
    BY <2>3 DEF SampleFirst
  <2>5. t \in Vocab /\ out \in Seq(Vocab) /\ t = Plain[Len(out) + 1] /\ t # Eos
    BY <2>1, <2>4, PickEmitted, Zenon DEF Typed
  <2>6. PICK w : IsPick(Plain, truth, w, out) /\ refused \in w
    BY <1>4 DEF RefusedIsPick
  <2>7. refused \in {truth[Len(out) + 1], Plain[Len(out) + 1]}
    BY <2>1, <2>6, PickOfText, Zenon
  <2>8. t = refused
    BY <1>4, <2>1, <2>5, <2>6, <2>7, PickOfText
  <2> QED BY <2>4, <2>5, <2>8 DEF Last
<1>5. IInv /\ RefusedIsPick /\ [Next]_vars =>
        [(/\ pc = "sample" /\ Len(out') > Len(out)
          /\ refused # Nothing /\ (opt.ignoreEos => refused # Eos)) => Last(out') = refused]_vars
  BY <1>4
<1> QED BY InitIInv, <1>1, <1>2, <1>3, <1>5, PTL DEF Spec, RejectedTargetComesNext
=============================================================================
