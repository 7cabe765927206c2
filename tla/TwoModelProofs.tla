--------------------------- MODULE TwoModelProofs ---------------------------
(* Proofs about TwoModel for every vocabulary, budget and draft length, and    *)
(* every target without recurrent layers.  As in SpeculativeProofs, within a   *)
(* round everything is a prefix of one text; its lemmas on rows are used here. *)
EXTENDS TwoModel, TLAPS

S == INSTANCE SpeculativeProofs WITH
       ForceBatch <- {FALSE}, NoBonus <- {FALSE}, Sampled <- FALSE, refused <- Eos,
       opt <- [arch |-> arch, force |-> FALSE, noBonus |-> FALSE, argmax |-> FALSE,
               ignoreEos |-> ignoreEos]

RowsOf(b, f, d, n) == S!RowsOf(b, f, d, n)
Base == SubSeq(out, 1, ckpt.len)
Rows(n) == RowsOf(Base, ckpt.first, drafts, n)

(* What a target that holds the rows picks, when plain is the plain loop's     *)
(* text and raw its own picks along it.                                        *)
PickOf(plain, raw, rows) ==
  IF IsPrefix(rows, plain) /\ Len(rows) < Len(plain) THEN raw[Len(rows) + 1] ELSE Wrong

(* A row the draft engine holds is the token of its position, or unwritten.    *)
HoldsOnly(rows, text) ==
  /\ rows \in Seq(Picks \cup {Hole}) /\ Len(rows) = Len(text)
  /\ \A i \in 1..Len(rows) : rows[i] \in {text[i], Hole}

InRound == pc \in {"draft", "compare", "commit"}

(* The inductive invariant, by parts.                                          *)
Typed ==
  /\ truth \in [1..(MaxTokens + 1) -> Picks]
  /\ arch \in Architectures /\ ignoreEos \in BOOLEAN
  /\ out \in Seq(Vocab) /\ Len(out) <= MaxTokens
  /\ drafts \in Seq(Picks) /\ accepted \in Nat /\ accepted <= K

TextIsTruth == IsPrefix(out, Plain)

Between ==
  pc = "sample" => /\ kv = out /\ logits = PickOf(Plain, truth, out) /\ ended = "no"
                   /\ HoldsOnly(draftKv, out)

RoundTyped ==
  /\ ckpt.first \in Vocab /\ ckpt.len \in Nat
  /\ Len(out) = ckpt.len + 1 + accepted
  /\ ckpt.len + 1 + K <= MaxTokens

Round ==
  InRound => /\ RoundTyped
             /\ out = Rows(1 + accepted)
             /\ HoldsOnly(draftKv, Rows(K))

Drafting ==
  pc = "draft" => accepted = 0 /\ Len(out) < MaxTokens /\ ended = "no" /\ kv = Base

Verified ==
  pc \in {"compare", "commit"} =>
    /\ K > 0 /\ kv = Rows(K + 1)
    /\ \A i \in 1..(K + 1) : window[i] = PickOf(Plain, truth, Rows(i))
    /\ pc = "compare" => accepted < K /\ ended = "no"

IInv == Typed /\ TextIsTruth /\ Between /\ Round /\ Drafting /\ Verified

-----------------------------------------------------------------------------
(* Rows of a round, from SpeculativeProofs.                                    *)

LEMMA RowsTyped ==
  ASSUME NEW T, NEW b \in Seq(T), NEW f \in T, NEW d \in Seq(T),
         NEW n \in 0..(Len(d) + 1)
  PROVE  /\ RowsOf(b, f, d, n) \in Seq(T) /\ Len(RowsOf(b, f, d, n)) = Len(b) + n
<1>1. S!IsRows(S!RowsOf(b, f, d, n), T, b, f, d, n)
  BY S!RowsTyped, VocabAssumption, BudgetAssumption, NextBestAssumption
<1> QED BY <1>1 DEF RowsOf, S!IsRows

(* A shorter run of rows is the beginning of a longer one.                     *)
LEMMA RowsAgree ==
  ASSUME NEW T, NEW b \in Seq(T), NEW f \in T, NEW d \in Seq(T),
         NEW n \in 0..(Len(d) + 1), NEW m \in 0..(Len(d) + 1),
         NEW i \in 1..(Len(b) + n), i \in 1..(Len(b) + m)
  PROVE  RowsOf(b, f, d, n)[i] = RowsOf(b, f, d, m)[i]
<1>1. /\ S!IsRows(S!RowsOf(b, f, d, n), T, b, f, d, n)
      /\ S!IsRows(S!RowsOf(b, f, d, m), T, b, f, d, m)
  BY S!RowsTyped, VocabAssumption, BudgetAssumption, NextBestAssumption
<1> QED BY <1>1, Zenon DEF RowsOf, S!IsRows

LEMMA RowsExtend ==
  ASSUME NEW T, NEW b \in Seq(T), NEW f \in T, NEW d \in Seq(T),
         NEW n \in 0..Len(d)
  PROVE  Append(RowsOf(b, f, d, n), (<<f>> \o d)[n + 1]) = RowsOf(b, f, d, n + 1)
BY S!RowsExtend, VocabAssumption, BudgetAssumption, NextBestAssumption DEF RowsOf

LEMMA RowsBase ==
  ASSUME NEW T, NEW b \in Seq(T), NEW f \in T, NEW d \in Seq(T)
  PROVE  RowsOf(b, f, d, 0) = b
BY S!RowsBase, VocabAssumption, BudgetAssumption, NextBestAssumption DEF RowsOf

LEMMA RowsCut ==
  ASSUME NEW T, NEW b \in Seq(T), NEW f \in T, NEW d \in Seq(T),
         NEW n \in 0..(Len(d) + 1), NEW m \in 0..n
  PROVE  SetLen(RowsOf(b, f, d, n), Len(b) + m) = RowsOf(b, f, d, m)
<1>1. S!SetLen(S!RowsOf(b, f, d, n), Len(b) + m) = S!RowsOf(b, f, d, m)
  BY S!RowsCut, VocabAssumption, BudgetAssumption, NextBestAssumption
<1>2. \A r, k : SetLen(r, k) = S!SetLen(r, k)
  BY DEF SetLen, S!SetLen, Hole, S!Hole
<1> QED BY <1>1, <1>2, Zenon DEF RowsOf

LEMMA RowsMoreDrafts ==
  ASSUME NEW T, NEW b \in Seq(T), NEW f \in T, NEW d \in Seq(T), NEW x \in T,
         NEW n \in 0..(Len(d) + 1)
  PROVE  RowsOf(b, f, Append(d, x), n) = RowsOf(b, f, d, n)
BY S!RowsMoreDrafts, VocabAssumption, BudgetAssumption, NextBestAssumption DEF RowsOf

LEMMA PrefixKept ==
  ASSUME NEW T, NEW s \in Seq(T), NEW x \in T, NEW n \in 0..Len(s)
  PROVE  /\ SubSeq(Append(s, x), 1, n) = SubSeq(s, 1, n)
         /\ SubSeq(s, 1, n) \in Seq(T) /\ Len(SubSeq(s, 1, n)) = n
         /\ SubSeq(s, 1, Len(s)) = s
OBVIOUS

-----------------------------------------------------------------------------
(* Picks.                                                                      *)

(* The plain loop's text differs from the target's raw picks only where EOS is *)
(* ignored.                                                                    *)
LEMMA PlainFacts ==
  ASSUME Typed
  PROVE  /\ Plain \in [1..(MaxTokens + 1) -> Picks] /\ Len(Plain) = MaxTokens + 1
         /\ \A i \in 1..(MaxTokens + 1) :
              /\ truth[i] # Eos => Plain[i] = truth[i]
              /\ ~ignoreEos => Plain[i] = truth[i]
<1>1. DOMAIN truth = 1..(MaxTokens + 1) /\ \A i \in 1..(MaxTokens + 1) : truth[i] \in Picks
  BY DEF Typed
<1>2. Plain = [i \in 1..(MaxTokens + 1) |->
                IF ignoreEos /\ truth[i] = Eos THEN NextBest[i] ELSE truth[i]]
  BY <1>1 DEF Plain, Greedy!Text
<1>3. \A i \in 1..(MaxTokens + 1) : NextBest[i] \in Picks
  BY NextBestAssumption DEF Picks
<1>4. Plain \in [1..(MaxTokens + 1) -> Picks]
  BY <1>1, <1>2, <1>3
<1>5. Len(Plain) = MaxTokens + 1
  BY <1>4, BudgetAssumption
<1> QED BY <1>2, <1>4, <1>5

LEMMA PlainKept ==
  ASSUME truth' = truth, ignoreEos' = ignoreEos
  PROVE  Plain' = Plain
BY DEF Plain, Greedy!Text

LEMMA PickState ==
  ASSUME NEW r, NEW h, ~HasRecurrentState(arch)
  PROVE  PickAfter(r, h) = PickOf(Plain, truth, r)
BY DEF PickAfter, PickOf

LEMMA PickOfText ==
  ASSUME Typed, TextIsTruth
  PROVE  /\ PickOf(Plain, truth, out) = truth[Len(out) + 1] /\ truth[Len(out) + 1] \in Picks
         /\ truth[Len(out) + 1] # Eos => Plain[Len(out) + 1] = truth[Len(out) + 1]
         /\ ~ignoreEos => Plain[Len(out) + 1] = truth[Len(out) + 1]
<1>1. Len(Plain) = MaxTokens + 1 /\ Len(out) \in Nat
  BY PlainFacts DEF Typed
<1>2. Len(out) < Len(Plain) /\ truth[Len(out) + 1] \in Picks /\ Len(out) + 1 \in 1..(MaxTokens + 1)
  BY <1>1, BudgetAssumption DEF Typed
<1>3. PickOf(Plain, truth, out) = truth[Len(out) + 1]
  BY <1>2, Zenon DEF PickOf, TextIsTruth
<1> QED BY <1>2, <1>3, PlainFacts

LEMMA PickEmitted ==
  ASSUME Typed, TextIsTruth, NEW t, t = PickOf(Plain, truth, out), t # Eos
  PROVE  /\ t \in Vocab /\ t = Plain[Len(out) + 1]
         /\ Append(out, t) \in Seq(Vocab)
         /\ Len(Append(out, t)) = Len(out) + 1
         /\ IsPrefix(Append(out, t), Plain)
<1> DEFINE tr == Plain
<1>1. t \in Vocab /\ t = tr[Len(out) + 1]
  BY PickOfText, Zenon DEF Picks
<1>2. Append(out, t) \in Seq(Vocab) /\ Len(Append(out, t)) = Len(out) + 1
  BY <1>1 DEF Typed
<1>3. tr \in [1..(MaxTokens + 1) -> Picks] /\ Len(tr) = MaxTokens + 1 /\ IsPrefix(out, tr)
  BY PlainFacts DEF TextIsTruth
<1> HIDE DEF tr
<1>4. Len(out) \in Nat /\ Len(out) < Len(tr) /\ tr \in Seq(Picks)
  BY <1>3, BudgetAssumption DEF Typed
<1>5. SubSeq(out, 1, Len(out)) = out /\ out \in Seq(Picks)
  BY DEF Typed, Picks
<1>6. \A i \in 1..Len(out) : out[i] = tr[i]
  BY <1>3, <1>4, <1>5 DEF IsPrefix
<1>7. SubSeq(Append(out, t), 1, Len(out) + 1) = SubSeq(tr, 1, Len(out) + 1)
  BY <1>1, <1>4, <1>5, <1>6
<1>8. IsPrefix(Append(out, t), tr)
  BY <1>2, <1>4, <1>7 DEF IsPrefix
<1> QED BY <1>1, <1>2, <1>8 DEF tr

LEMMA RoundRows ==
  ASSUME IInv, InRound
  PROVE  /\ Base \in Seq(Picks) /\ Len(Base) = ckpt.len
         /\ ckpt.len \in Nat /\ ckpt.first \in Picks /\ drafts \in Seq(Picks)
         /\ K \in Nat /\ accepted \in Nat /\ accepted <= K
         /\ Len(out) = ckpt.len + 1 + accepted
         /\ out = Rows(1 + accepted) /\ HoldsOnly(draftKv, Rows(K)) /\ RoundTyped
<1>1. out \in Seq(Picks) /\ Len(out) \in Nat
  BY DEF IInv, Typed, Picks
<1>2. /\ ckpt.len \in Nat /\ accepted \in Nat /\ Len(out) = ckpt.len + 1 + accepted
      /\ out = Rows(1 + accepted) /\ HoldsOnly(draftKv, Rows(K)) /\ RoundTyped
  BY DEF IInv, Typed, Round, RoundTyped
<1>3. ckpt.len \in 0..Len(out)
  BY <1>1, <1>2
<1>4. Base \in Seq(Picks) /\ Len(Base) = ckpt.len
  BY <1>1, <1>3, PrefixKept DEF Base
<1>5. ckpt.first \in Picks /\ drafts \in Seq(Picks) /\ accepted <= K
  BY DEF IInv, Typed, Round, RoundTyped, Picks
<1> QED BY <1>2, <1>4, <1>5 DEF K

LEMMA RowsKept ==
  ASSUME out' = out, ckpt' = ckpt, drafts' = drafts
  PROVE  /\ Base' = Base /\ K' = K
         /\ \A n : Rows(n)' = Rows(n)
         /\ Rows(K)' = Rows(K)
BY DEF Base, Rows, K

-----------------------------------------------------------------------------
(* Init and the actions, one by one.                                           *)

LEMMA InitIInv == Init => IInv
<1> SUFFICES ASSUME Init PROVE IInv
  OBVIOUS
<1>1. /\ out \in Seq(Vocab) /\ Len(out) = 0 /\ drafts \in Seq(Picks) /\ Len(drafts) = 0
      /\ out = <<>>
  BY DEF Init
<1>2. Typed
  BY <1>1, BudgetAssumption, NextBestAssumption DEF Init, Typed, K
<1>3. TextIsTruth
  <2>1. Plain \in Seq(Picks) /\ Len(Plain) = MaxTokens + 1
    BY <1>2, PlainFacts, BudgetAssumption
  <2>2. SubSeq(Plain, 1, 0) = <<>> /\ SubSeq(<<>>, 1, 0) = <<>>
    BY <2>1
  <2> QED BY <2>1, <2>2, <1>1, BudgetAssumption DEF TextIsTruth, IsPrefix
<1>4. logits = PickOf(Plain, truth, out)
  BY <1>1, <1>2, <1>3, PickOfText DEF Init
<1>5. HoldsOnly(draftKv, out)
  BY <1>1 DEF HoldsOnly, Init
<1>6. Between
  BY <1>4, <1>5 DEF Init, Between
<1>7. Round /\ Drafting /\ Verified
  BY DEF Init, Round, Drafting, Verified, InRound
<1> QED BY <1>2, <1>3, <1>6, <1>7 DEF IInv

LEMMA LeaveIInv ==
  ASSUME IInv, pc' = "done", UNCHANGED <<truth, arch, ignoreEos, out, drafts, accepted>>
  PROVE  IInv'
<1>1. Typed' /\ TextIsTruth'
  BY PlainKept DEF IInv, Typed, TextIsTruth, K
<1> QED BY <1>1 DEF IInv, Between, Round, Drafting, Verified, InRound

LEMMA SampleFirstIInv ==
  ASSUME IInv, SampleFirst
  PROVE  IInv'
<1> DEFINE t == logits
<1>0. /\ kv = out /\ t = PickOf(Plain, truth, out) /\ ended = "no" /\ t # Eos
      /\ Typed /\ TextIsTruth /\ pc = "sample" /\ HoldsOnly(draftKv, out)
  BY DEF IInv, Between, SampleFirst
<1>1. /\ out' = Append(out, t)
      /\ \/ Leave("caller") /\ UNCHANGED ckpt
         \/ Remaining = 1 /\ Leave("length") /\ UNCHANGED ckpt
         \/ /\ Remaining > 1
            /\ ckpt' = [first |-> t, len |-> Len(kv), hidden |-> hidden]
            /\ pc' = "draft" /\ UNCHANGED ended
  BY DEF SampleFirst
<1>2. /\ t \in Vocab /\ out' \in Seq(Vocab) /\ Len(out') = Len(out) + 1
      /\ IsPrefix(out', Plain)
  <2>1. out' = Append(out, t)
    BY <1>1
  <2>2. Typed /\ TextIsTruth /\ t = PickOf(Plain, truth, out) /\ t # Eos
    BY <1>0
  <2> HIDE DEF t
  <2> QED BY <2>1, <2>2, PickEmitted
<1>3. /\ drafts' \in Seq(Picks) /\ Len(drafts') = 0 /\ drafts' = <<>>
      /\ accepted' = 0 /\ truth' = truth /\ arch' = arch /\ ignoreEos' = ignoreEos
                       /\ kv' = kv /\ draftKv' = draftKv
      /\ logits' = logits
  BY DEF SampleFirst, target
<1> HIDE DEF t
<1>4. Len(out) \in Nat /\ Len(out) < MaxTokens
  BY <1>0, BudgetAssumption DEF SampleFirst, Remaining, Typed
<1>5. pc' \in {"done", "draft"}
  BY <1>0, <1>1 DEF Leave
<1>6. Typed'
  <2>1. Len(out') <= MaxTokens
    BY <1>2, <1>4, BudgetAssumption
  <2>2. accepted' \in Nat /\ accepted' <= K'
    BY <1>3 DEF K
  <2> QED BY <1>0, <1>2, <1>3, <2>1, <2>2 DEF Typed
<1>7. TextIsTruth'
  BY <1>2, <1>3, PlainKept DEF TextIsTruth
<1>8. CASE pc' = "done"
  BY <1>6, <1>7, <1>8 DEF IInv, Between, Round, Drafting, Verified, InRound
<1>9. CASE pc' = "draft"
  <2>1. /\ Remaining > 1 /\ ended' = "no"
        /\ ckpt' = [first |-> t, len |-> Len(kv), hidden |-> hidden]
    BY <1>0, <1>1, <1>9 DEF Leave
  <2>2. ckpt'.first = t /\ ckpt'.len = Len(out)
    BY <2>1, <1>0
  <2>3. out \in Seq(Picks) /\ t \in Picks
    BY <1>0, <1>2 DEF Typed, Picks
  <2>4. Base' = out
    BY <2>2, <2>3, <1>1, PrefixKept, <1>4 DEF Base
  <2>5. RowsOf(out, t, <<>>, 0) = out
    <3>1. <<>> \in Seq(Picks)
      OBVIOUS
    <3> QED BY <2>3, <3>1, RowsBase, Zenon
  <2>6. Append(RowsOf(out, t, <<>>, 0), (<<t>> \o <<>>)[0 + 1]) = RowsOf(out, t, <<>>, 0 + 1)
    <3>1. 0 \in 0..Len(<<>>) /\ <<>> \in Seq(Picks)
      OBVIOUS
    <3> QED BY <2>3, <3>1, RowsExtend, Zenon
  <2>7. out' = RowsOf(out, t, <<>>, 1)
    <3>1. (<<t>> \o <<>>)[0 + 1] = t /\ 0 + 1 = 1
      OBVIOUS
    <3> QED BY <1>1, <2>5, <2>6, <3>1
  <2>8. RoundTyped'
    <3>1. Len(out') = ckpt'.len + 1 + accepted'
      BY <1>2, <1>3, <1>4, <2>2
    <3>2. ckpt'.len + 1 + K' <= MaxTokens
      BY <1>3, <1>4, <2>2, BudgetAssumption DEF K
    <3> QED BY <1>2, <1>3, <1>4, <2>2, <3>1, <3>2 DEF RoundTyped
  <2>9. K' = 0 /\ (1 + accepted)' = 1
    BY <1>3 DEF K
  <2>10. out' = Rows(1 + accepted)'
    BY <1>3, <2>2, <2>4, <2>7, <2>9 DEF Rows
  <2>11. Rows(K)' = out
    BY <1>3, <2>2, <2>4, <2>5, <2>9 DEF Rows
  <2>12. HoldsOnly(draftKv, Rows(K))'
    BY <1>0, <1>3, <2>11 DEF HoldsOnly
  <2>13. Round'
    BY <2>8, <2>10, <2>12 DEF Round
  <2>14. Len(out') < MaxTokens
    BY <1>2, <1>4, <2>1, BudgetAssumption DEF Remaining
  <2>15. Drafting'
    BY <1>0, <1>3, <2>1, <2>4, <2>14 DEF Drafting
  <2>16. Between' /\ Verified'
    BY <1>9 DEF Between, Verified
  <2> QED BY <1>6, <1>7, <2>13, <2>15, <2>16 DEF IInv
<1> QED BY <1>5, <1>8, <1>9

LEMMA DraftIInv ==
  ASSUME IInv, Draft
  PROVE  IInv'
<1>0. /\ Typed /\ TextIsTruth /\ Drafting /\ pc = "draft" /\ InRound
      /\ K < SpecK /\ K < Remaining
  BY DEF IInv, Draft, InRound
<1>1. PICK x \in Picks : drafts' = Append(drafts, x)
  BY DEF Draft
<1>2. /\ truth' = truth /\ arch' = arch /\ ignoreEos' = ignoreEos
      /\ pc' = pc /\ out' = out /\ ended' = ended
      /\ ckpt' = ckpt /\ accepted' = accepted /\ kv' = kv
      /\ draftKv' = Append(draftKv, Last(VerifyInput))
  BY DEF Draft, target
<1>3. /\ Base \in Seq(Picks) /\ Len(Base) = ckpt.len
      /\ ckpt.len \in Nat /\ ckpt.first \in Picks /\ drafts \in Seq(Picks)
      /\ K \in Nat /\ accepted \in Nat /\ accepted = 0
      /\ Len(out) = ckpt.len + 1 + accepted
      /\ out = Rows(1 + accepted) /\ HoldsOnly(draftKv, Rows(K)) /\ RoundTyped
  BY <1>0, RoundRows DEF Drafting
<1>4. Base' = Base
  BY <1>2 DEF Base
<1>5. drafts' \in Seq(Picks) /\ K' = K + 1
  BY <1>1, <1>3 DEF K
<1>6. Typed'
  <2>1. accepted' <= K'
    BY <1>2, <1>3, <1>5
  <2> QED BY <1>0, <1>2, <1>5, <2>1 DEF Typed
<1>7. \A n \in 0..(K + 1) : Rows(n)' = Rows(n)
  BY <1>1, <1>2, <1>3, <1>4, RowsMoreDrafts DEF Rows, K
<1>8. RoundTyped'
  <2>1. ckpt.len + 1 + (K + 1) <= MaxTokens
    BY <1>0, <1>3, BudgetAssumption DEF Remaining
  <2> QED BY <1>2, <1>3, <1>5, <2>1 DEF RoundTyped
<1> DEFINE y == VerifyInput[K + 1]
           r == Rows(K)
           q == Rows(K + 1)
<1>9. Last(VerifyInput) = y /\ y \in Picks
  BY <1>3 DEF Last, VerifyInput, K
<1>10. Append(r, y) = q
  <2>1. K \in 0..Len(drafts)
    BY <1>3 DEF K
  <2> QED BY <1>3, <2>1, RowsExtend DEF Rows, VerifyInput
<1>11. r \in Seq(Picks)
  <2>1. K \in 0..(Len(drafts) + 1)
    BY <1>3 DEF K
  <2> QED BY <1>3, <2>1, RowsTyped, Zenon DEF Rows
<1>12. Rows(K)' = q
  <2>1. K + 1 \in 0..(K + 1)
    BY <1>3
  <2> QED BY <1>5, <1>7, <2>1 DEF Rows
<1>13. HoldsOnly(draftKv, Rows(K))'
  <2> HIDE DEF r, q, y
  <2>1. HoldsOnly(draftKv, r) /\ draftKv' = Append(draftKv, y)
    BY <1>2, <1>3, <1>9 DEF r
  <2>2. y \in Picks \cup {Hole}
    BY <1>9
  <2>3. /\ draftKv' \in Seq(Picks \cup {Hole}) /\ Len(draftKv') = Len(draftKv) + 1
        /\ \A i \in 1..Len(draftKv) : draftKv'[i] = draftKv[i]
        /\ draftKv'[Len(draftKv) + 1] = y
    BY <2>1, <2>2 DEF HoldsOnly
  <2>4. /\ Len(q) = Len(r) + 1 /\ Len(r) \in Nat
        /\ \A i \in 1..Len(r) : q[i] = r[i]
        /\ q[Len(r) + 1] = y
    BY <1>9, <1>10, <1>11
  <2>5. Len(draftKv) = Len(r)
    BY <2>1 DEF HoldsOnly
  <2>6. \A i \in 1..Len(draftKv') : draftKv'[i] \in {q[i], Hole}
    <3> TAKE i \in 1..Len(draftKv')
    <3>1. i \in 1..Len(r) \/ i = Len(r) + 1
      BY <2>3, <2>4, <2>5
    <3>2. CASE i \in 1..Len(r)
      BY <3>2, <2>1, <2>3, <2>4, <2>5 DEF HoldsOnly
    <3>3. CASE i = Len(r) + 1
      BY <3>3, <2>3, <2>4, <2>5
    <3> QED BY <3>1, <3>2, <3>3
  <2> QED BY <1>12, <2>3, <2>4, <2>5, <2>6 DEF HoldsOnly
<1>14. out' = Rows(1 + accepted)'
  <2>1. 1 + accepted \in 0..(K + 1)
    BY <1>3
  <2>2. Rows(1 + accepted)' = Rows(1 + accepted)
    BY <1>7, <2>1, <1>2 DEF Rows
  <2> QED BY <1>2, <1>3, <2>2
<1>15. Round'
  BY <1>8, <1>13, <1>14 DEF Round
<1>16. Drafting'
  BY <1>0, <1>2, <1>4 DEF Drafting
<1>17. TextIsTruth' /\ Between' /\ Verified'
  BY <1>0, <1>2, PlainKept DEF TextIsTruth, Between, Verified
<1> QED BY <1>6, <1>15, <1>16, <1>17 DEF IInv

LEMMA VerifyIInv ==
  ASSUME IInv, Verify, ~HasRecurrentState(arch)
  PROVE  IInv'
<1>0. /\ Typed /\ TextIsTruth /\ Drafting /\ pc = "draft" /\ InRound
      /\ K = SpecK \/ K = Remaining
  BY DEF IInv, Verify, InRound
<1> DEFINE base == SetLen(kv, ckpt.len)
<1>1. /\ truth' = truth /\ arch' = arch /\ ignoreEos' = ignoreEos
      /\ pc' = "compare" /\ out' = out /\ ended' = ended
      /\ ckpt' = ckpt /\ accepted' = accepted /\ drafts' = drafts /\ draftKv' = draftKv
      /\ kv' = base \o VerifyInput
      /\ window' = [i \in 1..(K + 1) |->
            PickAfter(base \o SubSeq(VerifyInput, 1, i),
                      ckpt.hidden \o SubSeq(VerifyInput, 1, i))]
  BY DEF Verify
<1>2. /\ Base \in Seq(Picks) /\ Len(Base) = ckpt.len
      /\ ckpt.len \in Nat /\ ckpt.first \in Picks /\ drafts \in Seq(Picks)
      /\ K \in Nat /\ accepted = 0 /\ ended = "no" /\ kv = Base
      /\ Len(out) < MaxTokens /\ Len(out) \in Nat
      /\ out = Rows(1 + accepted) /\ HoldsOnly(draftKv, Rows(K)) /\ RoundTyped
  BY <1>0, RoundRows DEF Drafting, Typed
<1>3. base = Base
  <2> DEFINE b == Base
  <2>1. b \in Seq(Picks) /\ Len(b) = ckpt.len /\ base = SetLen(b, Len(b))
    BY <1>2
  <2> HIDE DEF b
  <2>2. SetLen(b, Len(b)) = b
    BY <2>1 DEF SetLen
  <2> QED BY <2>1, <2>2 DEF b
<1>4. \A i : Rows(i) = base \o SubSeq(VerifyInput, 1, i)
  BY <1>3 DEF Rows, RowsOf, S!RowsOf, VerifyInput
<1>5. kv' = Rows(K + 1)
  <2>1. VerifyInput \in Seq(Picks) /\ Len(VerifyInput) = K + 1
    BY <1>2 DEF VerifyInput, K
  <2>2. SubSeq(VerifyInput, 1, K + 1) = VerifyInput
    BY <2>1
  <2> QED BY <1>1, <1>4, <2>2
<1>6. \A i \in 1..(K + 1) : window'[i] = PickOf(Plain, truth, Rows(i))
  BY <1>1, <1>4, PickState
<1>7. K > 0
  BY <1>0, <1>2, BudgetAssumption DEF Remaining
<1>8. /\ Base' = Base /\ K' = K /\ (\A n : Rows(n)' = Rows(n)) /\ Rows(K)' = Rows(K)
      /\ Rows(K + 1)' = Rows(K + 1) /\ Rows(1 + accepted)' = Rows(1 + accepted)
  BY <1>1, RowsKept DEF Rows
<1>9. Typed' /\ TextIsTruth'
  BY <1>0, <1>1, <1>8, PlainKept DEF Typed, TextIsTruth
<1>10. Round'
  <2>1. RoundTyped'
    BY <1>1, <1>2, <1>8 DEF RoundTyped
  <2>2. HoldsOnly(draftKv, Rows(K))'
    BY <1>1, <1>2, <1>8 DEF HoldsOnly
  <2> QED BY <1>1, <1>2, <1>8, <2>1, <2>2 DEF Round
<1>11. Verified'
  <2>1. K' > 0 /\ accepted' < K'
    BY <1>1, <1>2, <1>7, <1>8
  <2>2. \A i \in 1..(K' + 1) : window'[i] = PickOf(Plain', truth', Rows(i)')
    BY <1>1, <1>6, <1>8, PlainKept
  <2> QED BY <1>1, <1>2, <1>5, <1>8, <2>1, <2>2 DEF Verified
<1>12. Between' /\ Drafting'
  BY <1>1 DEF Between, Drafting
<1> QED BY <1>9, <1>10, <1>11, <1>12 DEF IInv

LEMMA CompareFacts ==
  ASSUME IInv, pc = "compare"
  PROVE  /\ Typed /\ TextIsTruth /\ Verified /\ InRound
         /\ window[accepted + 1] = PickOf(Plain, truth, out)
         /\ ended = "no" /\ accepted < K /\ Len(out) < MaxTokens /\ Len(out) \in Nat
<1>0. Typed /\ TextIsTruth /\ Verified /\ InRound
  BY DEF IInv, InRound
<1>1. K \in Nat /\ accepted \in Nat /\ out = Rows(1 + accepted) /\ RoundTyped /\ ckpt.len \in Nat
  BY <1>0, RoundRows
<1>2. ended = "no" /\ accepted < K
  BY <1>0 DEF Verified
<1>3. accepted + 1 \in 1..(K + 1) /\ 1 + accepted = accepted + 1
  BY <1>1, <1>2
<1>4. window[accepted + 1] = PickOf(Plain, truth, Rows(accepted + 1))
  BY <1>0, <1>3 DEF Verified
<1>5. Len(out) < MaxTokens /\ Len(out) \in Nat
  BY <1>1, <1>2, BudgetAssumption DEF RoundTyped
<1> QED BY <1>0, <1>1, <1>2, <1>3, <1>4, <1>5

(* AcceptEos and Reject: only pc and ended change.                             *)
LEMMA ToCommitIInv ==
  ASSUME IInv, pc = "compare", pc' = "commit",
         UNCHANGED <<truth, arch, ignoreEos, out, target, draftKv, round>>
  PROVE  IInv'
<1>1. /\ truth' = truth /\ arch' = arch /\ ignoreEos' = ignoreEos
      /\ out' = out /\ kv' = kv /\ draftKv' = draftKv
      /\ ckpt' = ckpt /\ accepted' = accepted /\ drafts' = drafts /\ window' = window
  BY DEF target, round
<1>2. /\ K' = K /\ (\A n : Rows(n)' = Rows(n)) /\ Rows(K)' = Rows(K)
      /\ Rows(K + 1)' = Rows(K + 1) /\ Rows(1 + accepted)' = Rows(1 + accepted)
  BY <1>1, RowsKept DEF Rows
<1>3. Typed' /\ TextIsTruth'
  BY <1>1, <1>2, PlainKept DEF IInv, Typed, TextIsTruth
<1>4. Round'
  <2>1. RoundTyped /\ out = Rows(1 + accepted) /\ HoldsOnly(draftKv, Rows(K))
    BY DEF IInv, Round, InRound
  <2>2. RoundTyped' /\ HoldsOnly(draftKv, Rows(K))'
    BY <1>1, <1>2, <2>1 DEF RoundTyped, HoldsOnly
  <2> QED BY <1>1, <1>2, <2>1, <2>2 DEF Round
<1>5. Verified'
  BY <1>1, <1>2, PlainKept DEF IInv, Verified
<1>6. Between' /\ Drafting'
  BY DEF Between, Drafting
<1> QED BY <1>3, <1>4, <1>5, <1>6 DEF IInv

LEMMA AcceptIInv ==
  ASSUME IInv, Accept
  PROVE  IInv'
<1> DEFINE d == drafts[accepted + 1]
<1>0. /\ Typed /\ TextIsTruth /\ Verified /\ InRound /\ pc = "compare"
      /\ window[accepted + 1] = PickOf(Plain, truth, out)
      /\ accepted < K /\ Len(out) < MaxTokens /\ Len(out) \in Nat
  BY CompareFacts DEF Accept
<1>1. /\ truth' = truth /\ arch' = arch /\ ignoreEos' = ignoreEos
      /\ ckpt' = ckpt /\ drafts' = drafts /\ window' = window
      /\ kv' = kv /\ draftKv' = draftKv
      /\ out' = Append(out, d) /\ accepted' = accepted + 1
      /\ d = window[accepted + 1] /\ d # Eos
  BY DEF Accept, target
<1>2. /\ Base \in Seq(Picks) /\ Len(Base) = ckpt.len
      /\ ckpt.len \in Nat /\ ckpt.first \in Picks /\ drafts \in Seq(Picks)
      /\ K \in Nat /\ accepted \in Nat
      /\ Len(out) = ckpt.len + 1 + accepted
      /\ out = Rows(1 + accepted) /\ HoldsOnly(draftKv, Rows(K)) /\ RoundTyped
  BY <1>0, RoundRows
<1>3. /\ d \in Vocab /\ out' \in Seq(Vocab) /\ Len(out') = Len(out) + 1
      /\ IsPrefix(out', Plain)
  <2>1. out' = Append(out, d) /\ d = PickOf(Plain, truth, out) /\ d # Eos
    BY <1>0, <1>1
  <2> HIDE DEF d
  <2> QED BY <2>1, <1>0, PickEmitted
<1>4. pc' \in {"compare", "commit"} /\ (pc' = "compare" => accepted + 1 # K /\ ended' = ended)
  BY DEF Accept
<1> HIDE DEF d
<1>5. K' = K
  BY <1>1 DEF K
<1>6. Typed'
  <2>1. Len(out') <= MaxTokens
    BY <1>0, <1>3, BudgetAssumption
  <2>2. accepted' \in Nat /\ accepted' <= K'
    BY <1>0, <1>1, <1>2, <1>5
  <2> QED BY <1>0, <1>1, <1>3, <2>1, <2>2 DEF Typed
<1>7. TextIsTruth'
  BY <1>1, <1>3, PlainKept DEF TextIsTruth
<1>8. Base' = Base
  <2>1. ckpt.len \in 0..Len(out) /\ out \in Seq(Vocab)
    BY <1>0, <1>2 DEF Typed
  <2> QED BY <2>1, <1>1, <1>3, PrefixKept DEF Base
<1>9. /\ \A n : Rows(n)' = Rows(n)
      /\ Rows(K)' = Rows(K) /\ Rows(K + 1)' = Rows(K + 1)
  BY <1>1, <1>5, <1>8 DEF Rows
<1>10. out' = Rows(1 + accepted)'
  <2>1. accepted + 1 \in 0..Len(drafts)
    BY <1>0, <1>2 DEF K
  <2>2. Append(RowsOf(Base, ckpt.first, drafts, accepted + 1), (<<ckpt.first>> \o drafts)[accepted + 1 + 1])
          = RowsOf(Base, ckpt.first, drafts, accepted + 1 + 1)
    BY <1>2, <2>1, RowsExtend, Zenon
  <2>3. (<<ckpt.first>> \o drafts)[accepted + 1 + 1] = d
    BY <1>2, <2>1 DEF d
  <2>4. 1 + accepted = accepted + 1 /\ (1 + accepted)' = accepted + 1 + 1
    BY <1>1, <1>2
  <2>5. Append(out, d) = Rows(accepted + 1 + 1)
    BY <1>2, <2>2, <2>3, <2>4 DEF Rows
  <2> QED BY <1>1, <1>8, <2>4, <2>5 DEF Rows
<1>11. Round'
  <2> DEFINE l == ckpt.len
  <2>1. ckpt'.len = l /\ l \in Nat /\ Len(out) = l + 1 + accepted /\ accepted' = accepted + 1
    BY <1>1, <1>2
  <2> HIDE DEF l
  <2>2. Len(out') = ckpt'.len + 1 + accepted'
    <3>1. Len(out') = Len(out) + 1
      BY <1>3
    <3> QED BY <2>1, <3>1, <1>2
  <2>3. RoundTyped'
    BY <1>1, <1>2, <1>5, <2>2 DEF RoundTyped
  <2>4. HoldsOnly(draftKv, Rows(K))'
    BY <1>1, <1>2, <1>9 DEF HoldsOnly
  <2> QED BY <1>10, <2>3, <2>4 DEF Round
<1>12. Verified'
  <2>1. /\ K > 0 /\ kv = Rows(K + 1) /\ ended = "no"
        /\ \A i \in 1..(K + 1) : window[i] = PickOf(Plain, truth, Rows(i))
    BY <1>0 DEF Verified
  <2>2. pc' = "compare" => accepted' < K' /\ ended' = "no"
    BY <1>0, <1>1, <1>2, <1>4, <1>5, <2>1
  <2>3. \A i \in 1..(K' + 1) : window'[i] = PickOf(Plain', truth', Rows(i)')
    BY <1>1, <1>5, <1>9, <2>1, PlainKept
  <2> QED BY <1>1, <1>5, <1>9, <2>1, <2>2, <2>3 DEF Verified
<1>13. Between' /\ Drafting'
  BY <1>4 DEF Between, Drafting
<1> QED BY <1>6, <1>7, <1>11, <1>12, <1>13 DEF IInv

(* Cut to the committed length, or one unwritten row longer than it held.      *)
LEMMA DraftCutHolds ==
  ASSUME IInv, pc = "commit"
  PROVE  HoldsOnly(DraftCut, out)
<1> DEFINE n == 1 + accepted
           r == Rows(K)
           q == Rows(n)
           m == ckpt.len + n
<1>1. /\ Base \in Seq(Picks) /\ Len(Base) = ckpt.len
      /\ ckpt.len \in Nat /\ ckpt.first \in Picks /\ drafts \in Seq(Picks)
      /\ K \in Nat /\ accepted \in Nat /\ accepted <= K
      /\ out = q /\ HoldsOnly(draftKv, r)
  BY RoundRows DEF InRound
<1>2. K \in 0..(Len(drafts) + 1) /\ n \in 0..(Len(drafts) + 1) /\ m \in Nat
  BY <1>1 DEF K
<1>3. /\ r \in Seq(Picks) /\ Len(r) = Len(Base) + K
      /\ q \in Seq(Picks) /\ Len(q) = Len(Base) + n
  BY <1>1, <1>2, RowsTyped, Zenon DEF Rows
<1>4. \A i \in 1..Len(r) : i \in 1..m => r[i] = q[i]
  <2> SUFFICES ASSUME NEW i \in 1..Len(r), i \in 1..m PROVE r[i] = q[i]
    OBVIOUS
  <2>1. i \in 1..(Len(Base) + K) /\ i \in 1..(Len(Base) + n)
    BY <1>1, <1>3
  <2> DEFINE b == Base
             f == ckpt.first
  <2>2. b \in Seq(Picks) /\ f \in Picks /\ drafts \in Seq(Picks)
    BY <1>1
  <2>3. r = RowsOf(b, f, drafts, K) /\ q = RowsOf(b, f, drafts, n)
    BY DEF Rows
  <2>4. i \in 1..(Len(b) + K) /\ i \in 1..(Len(b) + n)
    BY <2>1
  <2> HIDE DEF b, f, n, r, q, m
  <2>5. RowsOf(b, f, drafts, K)[i] = RowsOf(b, f, drafts, n)[i]
    BY <1>2, <2>2, <2>4, RowsAgree
  <2> QED BY <2>3, <2>5
<1>5. Len(q) = m /\ Len(r) \in Nat
  BY <1>1, <1>3
<1>6. DraftCut = SetLen(draftKv, m)
  BY DEF DraftCut, CommittedRows, Committed
<1> HIDE DEF r, q, m, n
<1>7. /\ draftKv \in Seq(Picks \cup {Hole}) /\ Len(draftKv) = Len(r)
      /\ \A i \in 1..Len(draftKv) : draftKv[i] \in {r[i], Hole}
  BY <1>1 DEF HoldsOnly
<1> DEFINE c == DraftCut
<1>8. c = [i \in 1..m |-> IF i <= Len(draftKv) THEN draftKv[i] ELSE Hole]
  BY <1>6 DEF SetLen
<1> HIDE DEF c
<1>9. \A i \in 1..m : c[i] \in {q[i], Hole}
  <2> TAKE i \in 1..m
  <2>1. i \in Nat /\ i >= 1
    BY <1>2
  <2>2. CASE i <= Len(draftKv)
    <3>1. i \in 1..Len(r) /\ i \in 1..Len(draftKv)
      BY <2>1, <2>2, <1>5, <1>7
    <3>2. c[i] = draftKv[i]
      BY <2>2, <1>8
    <3> QED BY <3>1, <3>2, <1>4, <1>7
  <2>3. CASE ~(i <= Len(draftKv))
    BY <2>3, <1>8
  <2> QED BY <2>2, <2>3
<1>10. \A i \in 1..m : q[i] \in Picks
  BY <1>3, <1>5
<1>11. c \in Seq(Picks \cup {Hole}) /\ Len(c) = m
  <2>1. c \in [1..m -> Picks \cup {Hole}]
    BY <1>8, <1>9, <1>10
  <2> QED BY <2>1, <1>2
<1> QED BY <1>1, <1>5, <1>9, <1>11 DEF HoldsOnly, c

LEMMA CommitIInv ==
  ASSUME IInv, Commit
  PROVE  IInv'
<1> DEFINE n == 1 + accepted
<1>0. Typed /\ TextIsTruth /\ Verified /\ InRound /\ pc = "commit"
  BY DEF IInv, Commit, InRound
<1>1. /\ truth' = truth /\ arch' = arch /\ ignoreEos' = ignoreEos
      /\ out' = out /\ ended' = ended
      /\ drafts' = drafts /\ accepted' = accepted
      /\ kv' = SetLen(kv, ckpt.len + n) /\ logits' = window[n] /\ draftKv' = DraftCut
      /\ pc' = IF ended = "no" THEN "sample" ELSE "done"
  BY DEF Commit, round, CommittedRows, Committed
<1>2. /\ Base \in Seq(Picks) /\ Len(Base) = ckpt.len
      /\ ckpt.len \in Nat /\ ckpt.first \in Picks /\ drafts \in Seq(Picks)
      /\ K \in Nat /\ accepted \in Nat /\ accepted <= K /\ out = Rows(n)
  BY <1>0, RoundRows
<1>3. /\ kv = Rows(K + 1)
      /\ \A i \in 1..(K + 1) : window[i] = PickOf(Plain, truth, Rows(i))
  BY <1>0 DEF Verified
<1>4. n \in 1..(K + 1) /\ n \in 0..(K + 1) /\ K + 1 \in 0..(Len(drafts) + 1)
  BY <1>2 DEF K
<1>5. SetLen(RowsOf(Base, ckpt.first, drafts, K + 1), Len(Base) + n)
        = RowsOf(Base, ckpt.first, drafts, n)
  BY <1>2, <1>4, RowsCut, Zenon
<1>6. kv' = out
  BY <1>1, <1>2, <1>3, <1>5 DEF Rows
<1>7. logits' = PickOf(Plain, truth, out)
  BY <1>1, <1>2, <1>3, <1>4
<1>8. HoldsOnly(draftKv', out')
  BY <1>0, <1>1, DraftCutHolds
<1>9. Typed' /\ TextIsTruth'
  BY <1>0, <1>1, PlainKept DEF Typed, TextIsTruth, K
<1>10. Between'
  BY <1>1, <1>6, <1>7, <1>8, PlainKept DEF Between, HoldsOnly
<1>11. Round' /\ Drafting' /\ Verified'
  BY <1>1 DEF Round, Drafting, Verified, InRound
<1> QED BY <1>9, <1>10, <1>11 DEF IInv

-----------------------------------------------------------------------------
(* Every step.                                                                 *)
NoneRecurrent == \A a \in Architectures : ~HasRecurrentState(a)

LEMMA StepIInv ==
  ASSUME IInv, [Next]_vars, NoneRecurrent
  PROVE  IInv'
<1>0. ~HasRecurrentState(arch)
  BY DEF IInv, Typed, NoneRecurrent
<1>1. CASE SampleEos    BY <1>1, LeaveIInv DEF SampleEos, Leave, round
<1>2. CASE SampleFirst  BY <1>2, SampleFirstIInv
<1>3. CASE Draft        BY <1>3, DraftIInv
<1>4. CASE Verify       BY <1>0, <1>4, VerifyIInv
<1>5. CASE Accept       BY <1>5, AcceptIInv
<1>6. CASE AcceptEos    BY <1>6, ToCommitIInv DEF AcceptEos
<1>7. CASE Reject       BY <1>7, ToCommitIInv DEF Reject
<1>8. CASE Commit       BY <1>8, CommitIInv
<1>9. CASE Cancel       BY <1>9, LeaveIInv DEF Cancel, Leave, round
<1>10. CASE UNCHANGED vars
  <2>1. /\ truth' = truth /\ arch' = arch /\ ignoreEos' = ignoreEos
        /\ pc' = pc /\ out' = out /\ ended' = ended
        /\ kv' = kv /\ draftKv' = draftKv /\ logits' = logits /\ ckpt' = ckpt
        /\ drafts' = drafts /\ window' = window /\ accepted' = accepted
    BY <1>10 DEF vars, target, round
  <2>2. /\ K' = K /\ Base' = Base /\ (\A i : Rows(i)' = Rows(i))
        /\ Rows(K)' = Rows(K) /\ Rows(K + 1)' = Rows(K + 1)
        /\ Rows(1 + accepted)' = Rows(1 + accepted)
    BY <2>1, RowsKept DEF Rows
  <2>3. Typed' /\ TextIsTruth'
    BY <2>1, <2>2, PlainKept DEF IInv, Typed, TextIsTruth
  <2>4. Between' /\ Drafting'
    BY <2>1, <2>2, PlainKept DEF IInv, Between, Drafting, HoldsOnly
  <2>5. RoundTyped' = RoundTyped /\ InRound' = InRound
        /\ HoldsOnly(draftKv, Rows(K))' = HoldsOnly(draftKv, Rows(K))
    BY <2>1, <2>2 DEF RoundTyped, InRound, HoldsOnly
  <2>6. Round'
    BY <2>1, <2>2, <2>5 DEF IInv, Round
  <2>7. Verified'
    BY <2>1, <2>2, PlainKept DEF IInv, Verified
  <2> QED BY <2>3, <2>4, <2>6, <2>7 DEF IInv
<1> QED BY <1>1, <1>2, <1>3, <1>4, <1>5, <1>6, <1>7, <1>8, <1>9, <1>10 DEF Next, Terminated

(* A step is seen as one of the plain loop's, or not at all.                   *)
Unseen == UNCHANGED <<truth, ignoreEos, out, SeenEnd>>

LEMMA GreedyEmit ==
  ASSUME Typed, TextIsTruth, ended = "no", Len(out) < MaxTokens,
         truth' = truth, ignoreEos' = ignoreEos,
         NEW t, t = PickOf(Plain, truth, out), t # Eos, out' = Append(out, t),
         \/ ended' \in {"no", "caller"}
         \/ Len(out) + 1 = MaxTokens /\ ended' = "length"
  PROVE  Greedy!Emit
<1>1. t = Plain[Len(out) + 1]
  BY PickEmitted
<1>2. SeenEnd = "no" /\ SeenEnd' = ended'
  BY DEF SeenEnd
<1> QED BY <1>1, <1>2 DEF Greedy!Emit, Plain

(* At an EOS: the plain loop's end, or not its end when EOS is ignored.        *)
LEMMA GreedyEos ==
  ASSUME Typed, TextIsTruth, ended = "no", ended' = "eos", PickOf(Plain, truth, out) = Eos,
         truth' = truth, ignoreEos' = ignoreEos, out' = out
  PROVE  Greedy!ReachEos \/ Greedy!Cancel
<1>1. CASE ignoreEos
  <2>1. SeenEnd = "no" /\ SeenEnd' = "cancelled"
    BY <1>1 DEF SeenEnd
  <2> QED BY <2>1 DEF Greedy!Cancel
<1>2. CASE ~ignoreEos
  <2>1. Plain[Len(out) + 1] = Eos
    BY <1>2, PickOfText
  <2>2. SeenEnd = "no" /\ SeenEnd' = "eos"
    BY <1>2 DEF SeenEnd
  <2> QED BY <2>1, <2>2 DEF Greedy!ReachEos, Plain
<1> QED BY <1>1, <1>2

LEMMA StepIsGreedy ==
  ASSUME IInv, [Next]_vars
  PROVE  Greedy!Next \/ Unseen
<1>1. CASE SampleEos
  <2>1. PickOf(Plain, truth, out) = Eos /\ ended = "no" /\ Typed /\ TextIsTruth
    BY <1>1 DEF IInv, Between, SampleEos
  <2>2. truth' = truth /\ ignoreEos' = ignoreEos /\ out' = out /\ ended' = "eos"
    BY <1>1 DEF SampleEos, Leave
  <2> QED BY <2>1, <2>2, GreedyEos DEF Greedy!Next
<1>2. CASE SampleFirst
  <2>1. logits = PickOf(Plain, truth, out) /\ ended = "no" /\ Typed /\ TextIsTruth
    BY <1>2 DEF IInv, Between, SampleFirst
  <2>2. Len(out) < MaxTokens /\ (Remaining = 1 => Len(out) + 1 = MaxTokens)
    BY <1>2, <2>1, BudgetAssumption DEF Remaining, Typed, SampleFirst
  <2>3. /\ out' = Append(out, logits) /\ truth' = truth /\ ignoreEos' = ignoreEos /\ logits # Eos
        /\ \/ ended' \in {"no", "caller"}
           \/ Len(out) + 1 = MaxTokens /\ ended' = "length"
    BY <1>2, <2>1, <2>2 DEF SampleFirst, Leave
  <2> QED BY <2>1, <2>2, <2>3, GreedyEmit DEF Greedy!Next
<1>3. CASE Accept
  <2>1. /\ window[accepted + 1] = PickOf(Plain, truth, out) /\ ended = "no" /\ Typed /\ TextIsTruth
        /\ Len(out) < MaxTokens /\ Len(out) \in Nat
    BY <1>3, CompareFacts DEF Accept
  <2>2. Remaining = 1 => Len(out) + 1 = MaxTokens
    BY <2>1, BudgetAssumption DEF Remaining
  <2>3. /\ out' = Append(out, window[accepted + 1]) /\ truth' = truth /\ ignoreEos' = ignoreEos
        /\ window[accepted + 1] # Eos
        /\ \/ ended' \in {"no", "caller"}
           \/ Len(out) + 1 = MaxTokens /\ ended' = "length"
    BY <1>3, <2>1, <2>2 DEF Accept
  <2> QED BY <2>1, <2>3, GreedyEmit DEF Greedy!Next
<1>4. CASE AcceptEos
  <2>1. PickOf(Plain, truth, out) = Eos /\ ended = "no" /\ Typed /\ TextIsTruth
    BY <1>4, CompareFacts DEF AcceptEos
  <2>2. truth' = truth /\ ignoreEos' = ignoreEos /\ out' = out /\ ended' = "eos"
    BY <1>4 DEF AcceptEos
  <2> QED BY <2>1, <2>2, GreedyEos DEF Greedy!Next
<1>5. CASE Cancel
  <2>1. ended = "no"
    BY <1>5 DEF IInv, Between, Drafting, Cancel
  <2>2. SeenEnd = "no" /\ SeenEnd' = "cancelled"
    BY <1>5, <2>1 DEF Cancel, Leave, SeenEnd
  <2> QED BY <1>5, <2>2 DEF Cancel, Greedy!Next, Greedy!Cancel
<1>6. CASE Draft \/ Verify \/ Reject \/ Commit \/ UNCHANGED vars
  <2>1. truth' = truth /\ ignoreEos' = ignoreEos /\ out' = out /\ ended' = ended
    BY <1>6 DEF Draft, Verify, Reject, Commit, vars
  <2> QED BY <2>1 DEF Unseen, SeenEnd
<1> QED BY <1>1, <1>2, <1>3, <1>4, <1>5, <1>6 DEF Next, Terminated

-----------------------------------------------------------------------------
(* Whatever was refused, the draft engine starts the next round without it:    *)
(* set_len leaves it rows of the text and rows nobody wrote.                   *)
THEOREM DraftEngineIsClean ==
  ASSUME NoneRecurrent
  PROVE  Spec => []DraftHoldsNoRefused
<1>1. IInv => DraftHoldsNoRefused
  BY DEF IInv, Between, HoldsOnly, DraftHoldsNoRefused
<1>2. IInv /\ [Next]_vars => IInv'
  BY StepIInv
<1> QED BY InitIInv, <1>1, <1>2, PTL DEF Spec

(* Between two rounds the target holds the emitted text and nothing else.      *)
THEOREM TargetIsCommitted ==
  ASSUME NoneRecurrent
  PROVE  Spec => []StateIsCommitted
<1>1. IInv => StateIsCommitted
  BY DEF IInv, Typed, Between, StateIsCommitted, NoneRecurrent
<1>2. IInv /\ [Next]_vars => IInv'
  BY StepIInv
<1> QED BY InitIInv, <1>1, <1>2, PTL DEF Spec

(* With a target without recurrent layers, decoding with a draft engine        *)
(* implements the plain greedy loop, whatever that engine proposes and with    *)
(* EOS ignored or not; but a request that ignores EOS may end before the plain *)
(* loop does, where the target's raw pick is EOS.                              *)
THEOREM TwoModelIsGreedy ==
  ASSUME NoneRecurrent
  PROVE  Spec => ImplementsGreedy
<1>1. Init => Greedy!Init
  BY NextBestAssumption DEF Init, Greedy!Init, Greedy!Truths, Picks, SeenEnd
<1>2. IInv /\ [Next]_vars => [Greedy!Next]_<<truth, ignoreEos, out, SeenEnd>>
  BY StepIsGreedy DEF Unseen
<1>3. IInv /\ [Next]_vars => IInv'
  BY StepIInv
<1> QED BY InitIInv, <1>1, <1>2, <1>3, PTL DEF Spec, ImplementsGreedy, Greedy!Spec
=============================================================================
