---------------------------- MODULE KvCacheProofs ----------------------------
(* The layout of a KVarN layer and the rows a cache holds, for every sink,     *)
(* group, length and list of layers.  Each method of KvarnLayerCache turns a   *)
(* cache that is laid out into one that is; a laid out cache is a list of rows *)
(* in three places, each method does to that list what its name says, and      *)
(* each way of reading it gives a slice of it.  The engine's steps are         *)
(* compositions of those methods.                                              *)
EXTENDS KvCache, SequenceTheorems, FiniteSetTheorems, WellFoundedInduction, TLAPS

Fine == [tok : Tokens \cup {Zero}, coarse : {FALSE}]
Coarse == [tok : Tokens \cup {Zero}, coarse : {TRUE}]
Block == {s \in Seq(Coarse) : Len(s) = Group}

Shaped == [fmt : {"kvarn"}, sink : Seq(Fine), blocks : Seq(Block),
           device : Seq(Block), tail : Seq(Row), stored : Nat]

\* LaidOut, with what it says of single rows as types.
Good(c) == /\ c \in Shaped
           /\ c.device = c.blocks
           /\ Len(c.sink) = Lesser(c.stored, Sink)
           /\ c.stored <= Sink => c.blocks = <<>> /\ c.tail = <<>>
           /\ c.stored > Sink => c.stored = Sink + Len(c.blocks) * Group + Len(c.tail)

-----------------------------------------------------------------------------
(* Arithmetic and sequences. *)

\* Division into groups.
LEMMA DivMod ==
  ASSUME NEW n \in Nat, NEW g \in Nat \ {0}
  PROVE  /\ n \div g \in Nat /\ n % g \in Nat /\ n % g < g
         /\ n = (n \div g) * g + (n % g)
<1>1. n \div g \in Int /\ n % g \in Int
  OBVIOUS
<1>2. n = (n \div g) * g + (n % g)
  BY Z3
<1>3. 0 <= n % g /\ n % g < g
  OBVIOUS
<1>4. n \div g >= 0
  OBVIOUS
<1> QED BY <1>1, <1>2, <1>3, <1>4

\* The whole groups of n rows are no more than n rows.
LEMMA GroupsFit ==
  ASSUME NEW n \in Nat, NEW g \in Nat \ {0}
  PROVE  n \div g \in Nat /\ (n \div g) * g \in Nat /\ (n \div g) * g <= n
<1>1. /\ n \div g \in Nat /\ n % g \in Nat
      /\ n = (n \div g) * g + (n % g)
  BY DivMod
<1> DEFINE q == n \div g
           r == n % g
<1>2. q \in Nat /\ r \in Nat /\ n = q * g + r
  BY <1>1
<1> HIDE DEF q, r
<1>3. q * g \in Nat /\ q * g <= n
  BY <1>2
<1> QED BY <1>2, <1>3 DEF q

\* Products grow with their factors.
LEMMA TimesMonotone ==
  ASSUME NEW a \in Nat, NEW b \in Nat, NEW g \in Nat, a <= b
  PROVE  a * g \in Nat /\ b * g \in Nat /\ a * g <= b * g
OBVIOUS

\* Products distribute over sums.
LEMMA TimesSum ==
  ASSUME NEW a \in Nat, NEW b \in Nat, NEW g \in Nat
  PROVE  (a + b) * g = a * g + b * g
OBVIOUS

\* A row before the end of the blocks lies in one of them.
LEMMA QuotientSmaller ==
  ASSUME NEW n \in Nat, NEW g \in Nat \ {0}, NEW q \in Nat, NEW r \in Nat,
         NEW k \in Nat, n = q * g + r, n < k * g
  PROVE  q < k
OBVIOUS

\* The head of a sequence.
LEMMA FirstRows ==
  ASSUME NEW S, NEW s \in Seq(S), NEW n \in Nat, n <= Len(s)
  PROVE  First(s, n) \in Seq(S) /\ Len(First(s, n)) = n
BY DEF First

\* What follows the head of a sequence.
LEMMA FromRows ==
  ASSUME NEW S, NEW s \in Seq(S), NEW n \in Nat, n <= Len(s)
  PROVE  From(s, n) \in Seq(S) /\ Len(From(s, n)) = Len(s) - n
BY DEF From

\* Two sequences, one after the other.
LEMMA JoinedRows ==
  ASSUME NEW S, NEW s \in Seq(S), NEW t \in Seq(S)
  PROVE  s \o t \in Seq(S) /\ Len(s \o t) = Len(s) + Len(t)
OBVIOUS

\* No rows.
LEMMA NoRows == ASSUME NEW S, NEW s \in Seq(S), Len(s) = 0 PROVE s = <<>>
OBVIOUS

\* Rows of one precision are rows.
LEMMA RowKinds == Seq(Fine) \subseteq Seq(Row) /\ Seq(Coarse) \subseteq Seq(Row)
<1>1. Fine \subseteq Row /\ Coarse \subseteq Row
  BY DEF Fine, Coarse, Row
<1> QED BY <1>1

-----------------------------------------------------------------------------
(* The methods of KvarnLayerCache. *)

\* KvarnLayerCache::new
LEMMA NewIsGood == Good(NewKvarn)
<1>1. NewKvarn \in Shaped
  BY DEF NewKvarn, Shaped
<1> QED BY <1>1, SinkAssumption DEF NewKvarn, Good, Lesser

\* append_row, any number of times, with rows that were never quantised.
LEMMA AppendIsGood ==
  ASSUME NEW c, Good(c), NEW rows \in Seq(Fine)
  PROVE  Good(AppendRows(c, rows)) /\ AppendRows(c, rows).stored = c.stored + Len(rows)
<1> DEFINE room == IF c.stored < Sink THEN Lesser(Sink - c.stored, Len(rows)) ELSE 0
           d == AppendRows(c, rows)
<1>1. /\ c.sink \in Seq(Fine) /\ c.tail \in Seq(Row) /\ c.stored \in Nat
      /\ c.blocks \in Seq(Block) /\ c.device \in Seq(Block) /\ Len(c.blocks) \in Nat
      /\ c.fmt = "kvarn" /\ Len(rows) \in Nat /\ Sink \in Nat
  BY SinkAssumption DEF Good, Shaped
<1>2. room \in Nat /\ room <= Len(rows)
  BY <1>1 DEF Lesser
<1>3. /\ c.stored < Sink => room = Len(rows) \/ room = Sink - c.stored
      /\ c.stored < Sink => room <= Sink - c.stored
      /\ c.stored >= Sink => room = 0
  BY <1>1 DEF Lesser
<1> DEFINE newSink == c.sink \o First(rows, room)
           newTail == c.tail \o From(rows, room)
           len == c.stored + Len(rows)
<1>4. d = [c EXCEPT !.sink = newSink, !.tail = newTail, !.stored = len]
  BY DEF AppendRows
<1> HIDE DEF room, d
<1>5. First(rows, room) \in Seq(Fine) /\ Len(First(rows, room)) = room
  BY <1>2, FirstRows
<1>6. From(rows, room) \in Seq(Row) /\ Len(From(rows, room)) = Len(rows) - room
  BY <1>2, FromRows, RowKinds
<1>7. /\ newSink \in Seq(Fine) /\ Len(newSink) = Len(c.sink) + room
      /\ newTail \in Seq(Row) /\ Len(newTail) = Len(c.tail) + (Len(rows) - room)
      /\ len \in Nat /\ Len(c.tail) \in Nat /\ Len(c.sink) \in Nat
  <2>1. newSink \in Seq(Fine) /\ Len(newSink) = Len(c.sink) + room
    BY <1>1, <1>5, JoinedRows
  <2>2. newTail \in Seq(Row) /\ Len(newTail) = Len(c.tail) + (Len(rows) - room)
    <3>1. newTail \in Seq(Row) /\ Len(newTail) = Len(c.tail) + Len(From(rows, room))
      BY <1>1, <1>6, JoinedRows, Zenon
    <3> QED BY <1>6, <3>1, Zenon
  <2>3. len \in Nat /\ Len(c.tail) \in Nat /\ Len(c.sink) \in Nat
    BY <1>1
  <2> QED BY <2>1, <2>2, <2>3
<1> HIDE DEF newSink, newTail, len
<1>8. /\ d \in Shaped /\ d.device = d.blocks /\ d.stored = c.stored + Len(rows)
      /\ d.blocks = c.blocks /\ d.sink = newSink /\ d.tail = newTail
  <2>1. c \in Shaped /\ c.device = c.blocks
    BY DEF Good
  <2> QED BY <1>4, <1>7, <2>1 DEF Shaped, len
<1> DEFINE n == Len(rows)
           t == Len(c.tail)
           u == Len(d.tail)
           k == c.stored
           quantized == Len(c.blocks) * Group
<1>9. /\ n \in Nat /\ t \in Nat /\ k \in Nat /\ quantized \in Nat /\ Sink \in Nat
      /\ d.stored = k + n /\ u = t + (n - room)
      /\ Len(d.sink) = Len(c.sink) + room /\ Len(c.sink) = Lesser(k, Sink)
      /\ Len(d.blocks) * Group = quantized
  BY <1>1, <1>7, <1>8, GroupAssumption DEF Good
<1>10. /\ k <= Sink => quantized = 0 /\ t = 0
       /\ k > Sink => k = Sink + quantized + t
  <2>1. k <= Sink => Len(c.blocks) = 0 /\ t = 0
    BY DEF Good
  <2>2. k <= Sink => quantized = 0
    BY <2>1, GroupAssumption
  <2>3. k > Sink => k = Sink + quantized + t
    BY DEF Good
  <2> QED BY <2>1, <2>2, <2>3
<1>11. /\ k < Sink => room = n \/ room = Sink - k
       /\ k < Sink => room <= Sink - k
       /\ k >= Sink => room = 0
       /\ room \in Nat /\ room <= n
  BY <1>2, <1>3
<1>12. d.stored <= Sink => c.blocks = <<>>
  BY <1>1, <1>8 DEF Good
<1> HIDE DEF n, t, u, k, quantized
<1>13. Len(d.sink) = Lesser(d.stored, Sink)
  BY <1>9, <1>11 DEF Lesser
<1>14. d.stored <= Sink => u = 0
  BY <1>9, <1>10, <1>11
<1>15. d.stored > Sink => d.stored = Sink + quantized + u
  BY <1>9, <1>10, <1>11
<1>16. d.stored <= Sink => d.tail = <<>>
  BY <1>7, <1>8, <1>14, NoRows DEF u
<1>17. d.stored > Sink => d.stored = Sink + Len(d.blocks) * Group + Len(d.tail)
  BY <1>9, <1>15 DEF u
<1> QED BY <1>8, <1>12, <1>13, <1>16, <1>17 DEF Good, d

\* q is the group of rows after the first lo, quantised.
IsGroup(q, rows, lo) ==
  /\ q \in Block /\ q \in Seq(Row) /\ Len(q) = Group
  /\ \A j \in 1..Group : q[j] = [rows[lo + j] EXCEPT !.coarse = TRUE]

\* What compact makes of a group of the tail.
LEMMA QuantizedGroup ==
  ASSUME NEW tail \in Seq(Row), NEW n \in Nat, n * Group <= Len(tail), NEW b \in 1..n
  PROVE  IsGroup(Quantize(SubSeq(tail, (b - 1) * Group + 1, b * Group)),
                 tail, (b - 1) * Group)
<1> DEFINE lo == (b - 1) * Group
           hi == b * Group
           part == SubSeq(tail, lo + 1, hi)
<1>0. Group \in Nat /\ Len(tail) \in Nat
  BY GroupAssumption
<1>1. b \in Nat /\ b - 1 \in Nat /\ b <= n
  OBVIOUS
<1>2. lo \in Nat /\ hi \in Nat /\ hi <= n * Group /\ n * Group \in Nat
  BY <1>0, <1>1, TimesMonotone
<1>3. hi = lo + Group
  <2>1. ((b - 1) + 1) * Group = (b - 1) * Group + 1 * Group
    BY <1>0, <1>1, TimesSum
  <2>2. (b - 1) + 1 = b /\ 1 * Group = Group
    BY <1>0, <1>1
  <2> QED BY <2>1, <2>2
<1>4. hi <= Len(tail)
  BY <1>0, <1>2
<1> HIDE DEF lo, hi
<1>5. part \in Seq(Row) /\ Len(part) = Group /\ \A j \in 1..Group : part[j] = tail[lo + j]
  BY <1>0, <1>2, <1>3, <1>4
<1> HIDE DEF part
<1> DEFINE q == Quantize(part)
<1>6. \A i \in 1..Group : [part[i] EXCEPT !.coarse = TRUE] \in Coarse
  <2>1. \A i \in 1..Group : part[i] \in Row
    BY <1>0, <1>5
  <2> QED BY <2>1 DEF Row, Coarse
<1>7. q = [i \in 1..Group |-> [part[i] EXCEPT !.coarse = TRUE]]
  BY <1>5 DEF Quantize
<1>8. q \in Seq(Coarse) /\ Len(q) = Group
  BY <1>0, <1>6, <1>7
<1>9. \A j \in 1..Group : q[j] = [tail[lo + j] EXCEPT !.coarse = TRUE]
  BY <1>5, <1>7
<1> HIDE DEF q
<1>10. q \in Block /\ q \in Seq(Row)
  BY <1>8, RowKinds DEF Block
<1>11. IsGroup(q, tail, lo)
  BY <1>8, <1>9, <1>10 DEF IsGroup
<1> QED BY <1>11 DEF q, part, lo, hi

\* compact: whole groups of the tail become blocks.
LEMMA CompactIsGood ==
  ASSUME NEW c, Good(c)
  PROVE  Good(Compact(c)) /\ Compact(c).stored = c.stored
<1> DEFINE full == IF c.stored <= Sink THEN 0 ELSE Len(c.tail) \div Group
           made == [b \in 1..full |-> Quantize(SubSeq(c.tail, (b - 1) * Group + 1, b * Group))]
           d == Compact(c)
<1>1. /\ c \in Shaped /\ c.tail \in Seq(Row) /\ Len(c.tail) \in Nat /\ c.stored \in Nat
      /\ c.blocks \in Seq(Block) /\ c.device = c.blocks /\ Len(c.blocks) \in Nat
      /\ Sink \in Nat /\ Group \in Nat \ {0}
  BY SinkAssumption, GroupAssumption DEF Good, Shaped
<1>2. full \in Nat /\ full * Group \in Nat /\ full * Group <= Len(c.tail)
  <2>1. CASE c.stored <= Sink
    BY <1>1, <2>1
  <2>2. CASE c.stored > Sink
    <3>1. ~(c.stored <= Sink)
      BY <1>1, <2>2
    <3>2. full = Len(c.tail) \div Group
      BY <3>1, Zenon
    <3> HIDE DEF full
    <3> QED BY <1>1, <3>2, GroupsFit
  <2>3. c.stored <= Sink \/ c.stored > Sink
    BY <1>1
  <2> QED BY <2>1, <2>2, <2>3, Zenon
<1>3. d = [c EXCEPT !.blocks = c.blocks \o made, !.device = c.device \o made,
                    !.tail = From(c.tail, full * Group)]
  BY DEF Compact
<1>4. c.stored <= Sink => full = 0
  OBVIOUS
<1> HIDE DEF full, d
<1>5. made \in Seq(Block) /\ Len(made) = full
  <2>1. \A b \in 1..full : Quantize(SubSeq(c.tail, (b - 1) * Group + 1, b * Group)) \in Block
    BY <1>1, <1>2, QuantizedGroup DEF IsGroup
  <2>2. made \in [1..full -> Block]
    BY <2>1
  <2> HIDE DEF made
  <2> QED BY <1>2, <2>2
<1> HIDE DEF made
<1> DEFINE newBlocks == c.blocks \o made
           newTail == From(c.tail, full * Group)
<1>6. newBlocks \in Seq(Block) /\ Len(newBlocks) = Len(c.blocks) + full
  BY <1>1, <1>5, JoinedRows
<1>7. newTail \in Seq(Row) /\ Len(newTail) = Len(c.tail) - full * Group
  BY <1>1, <1>2, FromRows
<1>8. d = [c EXCEPT !.blocks = newBlocks, !.device = newBlocks, !.tail = newTail]
  BY <1>1, <1>3
<1> HIDE DEF newBlocks, newTail
<1>9. /\ d \in Shaped /\ d.blocks = newBlocks /\ d.device = newBlocks /\ d.tail = newTail
      /\ d.sink = c.sink /\ d.stored = c.stored
  BY <1>1, <1>6, <1>7, <1>8 DEF Shaped
<1>10. d.stored <= Sink => d.blocks = <<>> /\ d.tail = <<>>
  <2>1. c.stored <= Sink => Len(c.blocks) = 0 /\ Len(c.tail) = 0 /\ full = 0
    BY <1>4 DEF Good
  <2>2. c.stored <= Sink => Len(newBlocks) = 0 /\ Len(newTail) = 0
    BY <1>1, <1>6, <1>7, <2>1
  <2> QED BY <1>6, <1>7, <1>9, <2>2, NoRows
<1>11. d.stored > Sink => d.stored = Sink + Len(d.blocks) * Group + Len(d.tail)
  <2> DEFINE old == Len(c.blocks) * Group
             moved == full * Group
             t == Len(c.tail)
  <2>1. Len(d.blocks) * Group = old + moved
    <3>1. Len(d.blocks) = Len(c.blocks) + full
      BY <1>6, <1>9
    <3>2. Len(c.blocks) \in Nat /\ full \in Nat /\ Group \in Nat
      BY <1>1, <1>2
    <3>3. (Len(c.blocks) + full) * Group = Len(c.blocks) * Group + full * Group
      BY <3>2, TimesSum, Zenon
    <3> QED BY <3>1, <3>3
  <2>2. old \in Nat /\ moved \in Nat /\ t \in Nat /\ Len(d.tail) = t - moved
    BY <1>1, <1>2, <1>7, <1>9
  <2>3. c.stored > Sink => c.stored = Sink + old + t
    BY DEF Good
  <2> HIDE DEF old, moved, t
  <2> QED BY <1>1, <1>9, <2>1, <2>2, <2>3
<1> QED BY <1>9, <1>10, <1>11 DEF Good, d

\* truncate_to that leaves rows after the sink.
LEMMA CutIsGood ==
  ASSUME NEW c, Good(c), NEW len \in Nat, Sink < len, len <= c.stored
  PROVE  Good(CutAfterSink(c, len)) /\ CutAfterSink(c, len).stored = len
<1> DEFINE after == len - Sink
           kept == after \div Group
           rest == after % Group
           blocks == Len(c.blocks)
           whole == blocks * Group
           d == CutAfterSink(c, len)
<1>1. /\ c \in Shaped /\ c.tail \in Seq(Row) /\ Len(c.tail) \in Nat /\ c.stored \in Nat
      /\ c.blocks \in Seq(Block) /\ c.device = c.blocks /\ blocks \in Nat
      /\ Sink \in Nat /\ Group \in Nat \ {0}
  BY SinkAssumption, GroupAssumption DEF Good, Shaped
<1>2. after \in Nat /\ len = Sink + after /\ whole \in Nat
  BY <1>1
<1>3. /\ kept \in Nat /\ rest \in Nat /\ rest < Group
      /\ after = kept * Group + rest
  BY <1>1, <1>2, DivMod
<1>4. c.stored = Sink + whole + Len(c.tail) /\ Len(c.sink) = Sink
  <2>1. c.stored > Sink /\ ~(c.stored <= Sink)
    BY <1>1
  <2>2. c.stored = Sink + whole + Len(c.tail)
    BY <2>1 DEF Good
  <2>3. Len(c.sink) = Sink
    BY <2>1 DEF Good, Lesser
  <2> QED BY <2>2, <2>3
<1>5. CASE after < whole
  <2> DEFINE newTail == IF rest > 0 THEN First(c.blocks[kept + 1], rest) ELSE <<>>
             newBlocks == First(c.blocks, kept)
  <2>1. d = [c EXCEPT !.tail = newTail, !.blocks = newBlocks, !.device = newBlocks,
                      !.stored = len]
    BY <1>1, <1>5 DEF CutAfterSink
  <2> HIDE DEF after, kept, rest, d
  <2>2. kept < blocks
    BY <1>1, <1>2, <1>3, <1>5, QuotientSmaller
  <2>3. newBlocks \in Seq(Block) /\ Len(newBlocks) = kept
    BY <1>1, <1>3, <2>2, FirstRows
  <2>4. newTail \in Seq(Row) /\ Len(newTail) = rest
    <3>1. c.blocks[kept + 1] \in Block
      BY <1>1, <1>3, <2>2
    <3>2. c.blocks[kept + 1] \in Seq(Row) /\ Len(c.blocks[kept + 1]) = Group
      BY <3>1, RowKinds DEF Block
    <3>3. First(c.blocks[kept + 1], rest) \in Seq(Row)
            /\ Len(First(c.blocks[kept + 1], rest)) = rest
      <4>1. rest \in Nat /\ rest < Group /\ Group \in Nat
        BY <1>1, <1>3, Zenon
      <4>2. rest <= Len(c.blocks[kept + 1])
        BY <3>2, <4>1
      <4> QED BY <3>2, <4>1, <4>2, FirstRows
    <3>4. rest > 0 \/ rest = 0
      BY <1>3
    <3>5. <<>> \in Seq(Row) /\ Len(<<>>) = 0 /\ ~(0 > 0)
      OBVIOUS
    <3> QED BY <3>3, <3>4, <3>5
  <2> HIDE DEF newTail, newBlocks
  <2>5. /\ d \in Shaped /\ d.blocks = newBlocks /\ d.device = newBlocks
        /\ d.tail = newTail /\ d.sink = c.sink /\ d.stored = len
    BY <1>1, <2>1, <2>3, <2>4 DEF Shaped
  <2>6. Len(d.sink) = Lesser(d.stored, Sink)
    BY <1>1, <1>4, <2>5 DEF Lesser
  <2>7. d.stored = Sink + Len(d.blocks) * Group + Len(d.tail)
    <3>1. Len(d.blocks) * Group = kept * Group /\ Len(d.tail) = rest
      BY <2>3, <2>4, <2>5
    <3>2. kept * Group \in Nat
      BY <1>1, <1>3
    <3> QED BY <1>1, <1>2, <1>3, <2>5, <3>1, <3>2
  <2> QED BY <1>1, <2>5, <2>6, <2>7 DEF Good, d
<1>6. CASE ~(after < whole)
  <2> DEFINE newTail == First(c.tail, after - whole)
  <2>1. d = [c EXCEPT !.tail = newTail, !.stored = len]
    BY <1>6 DEF CutAfterSink
  <2> HIDE DEF after, whole, d
  <2>2. after - whole \in Nat /\ after - whole <= Len(c.tail)
    <3> DEFINE t == Len(c.tail)
               k == c.stored
    <3>1. /\ t \in Nat /\ k \in Nat /\ Sink \in Nat /\ after \in Nat /\ whole \in Nat
          /\ k = Sink + whole + t /\ len = Sink + after /\ len <= k
      BY <1>1, <1>2, <1>4
    <3> HIDE DEF t, k
    <3>2. after - whole \in Nat /\ after - whole <= t
      BY <1>6, <3>1
    <3> QED BY <3>2 DEF t
  <2>3. newTail \in Seq(Row) /\ Len(newTail) = after - whole
    BY <1>1, <2>2, FirstRows
  <2> HIDE DEF newTail
  <2>4. /\ d \in Shaped /\ d.blocks = c.blocks /\ d.device = c.blocks
        /\ d.tail = newTail /\ d.sink = c.sink /\ d.stored = len
    BY <1>1, <2>1, <2>3 DEF Shaped
  <2>5. Len(d.sink) = Lesser(d.stored, Sink)
    BY <1>1, <1>4, <2>4 DEF Lesser
  <2>6. d.stored = Sink + whole + Len(d.tail)
    BY <1>1, <1>2, <2>2, <2>3, <2>4
  <2>7. d.stored = Sink + Len(d.blocks) * Group + Len(d.tail)
    BY <2>4, <2>6 DEF whole
  <2> QED BY <1>1, <2>4, <2>5, <2>7 DEF Good, d
<1> QED BY <1>5, <1>6, Zenon

\* truncate_to
LEMMA TruncateIsGood ==
  ASSUME NEW c, Good(c), NEW upTo \in Nat
  PROVE  Good(TruncateTo(c, upTo)) /\ TruncateTo(c, upTo).stored = Lesser(upTo, c.stored)
<1> DEFINE len == Lesser(upTo, c.stored)
<1>1. /\ c \in Shaped /\ c.stored \in Nat /\ c.sink \in Seq(Fine) /\ Sink \in Nat
      /\ Len(c.sink) = Lesser(c.stored, Sink)
  BY SinkAssumption DEF Good, Shaped
<1>2. len \in Nat /\ len <= c.stored
  BY <1>1 DEF Lesser
<1> HIDE DEF len
<1>3. CASE len <= Sink
  <2> DEFINE newSink == First(c.sink, len)
             d == TruncateTo(c, upTo)
  <2>1. len <= Len(c.sink)
    BY <1>1, <1>2, <1>3 DEF Lesser
  <2>2. newSink \in Seq(Fine) /\ Len(newSink) = len
    BY <1>1, <1>2, <2>1, FirstRows
  <2>3. d = [c EXCEPT !.sink = newSink, !.blocks = <<>>, !.device = <<>>,
                      !.tail = <<>>, !.stored = len]
    BY <1>3 DEF TruncateTo, len
  <2> HIDE DEF newSink, d
  <2>4. /\ d \in Shaped /\ d.sink = newSink /\ d.blocks = <<>> /\ d.device = <<>>
        /\ d.tail = <<>> /\ d.stored = len
    <3>1. <<>> \in Seq(Block) /\ <<>> \in Seq(Row)
      OBVIOUS
    <3> DEFINE none == <<>>
    <3>2. d = [c EXCEPT !.sink = newSink, !.blocks = none, !.device = none,
                        !.tail = none, !.stored = len]
      BY <2>3
    <3>3. none \in Seq(Block) /\ none \in Seq(Row)
      BY <3>1
    <3> HIDE DEF none
    <3>4. /\ d \in Shaped /\ d.sink = newSink /\ d.blocks = none /\ d.device = none
          /\ d.tail = none /\ d.stored = len
      BY <1>1, <1>2, <2>2, <3>2, <3>3 DEF Shaped
    <3> QED BY <3>4 DEF none
  <2>5. Len(d.sink) = Lesser(d.stored, Sink)
    BY <1>3, <2>2, <2>4 DEF Lesser
  <2>6. ~(d.stored > Sink)
    BY <1>1, <1>2, <1>3, <2>4
  <2> QED BY <2>4, <2>5, <2>6 DEF Good, d, len
<1>4. CASE ~(len <= Sink)
  <2>1. TruncateTo(c, upTo) = CutAfterSink(c, len)
    BY <1>4 DEF TruncateTo, len
  <2>2. Sink < len
    BY <1>1, <1>2, <1>4
  <2> QED BY <1>2, <2>1, <2>2, CutIsGood DEF len
<1> QED BY <1>3, <1>4, Zenon

\* write_bits_range
LEMMA WriteIsGood ==
  ASSUME NEW c, Good(c), NEW pos \in Nat, NEW rows \in Seq(Fine)
  PROVE  Good(WriteKvarn(c, pos, rows))
<1> DEFINE cut == IF pos < c.stored THEN TruncateTo(c, pos) ELSE c
           gap == pos - cut.stored
           zeros == ZeroRows(gap)
<1>1. c.stored \in Nat
  BY DEF Good, Shaped
<1>2. Good(cut) /\ cut.stored \in Nat /\ cut.stored <= pos
  <2>1. CASE pos < c.stored
    <3>1. cut = TruncateTo(c, pos)
      BY <2>1
    <3> HIDE DEF cut
    <3>2. Good(cut) /\ cut.stored = Lesser(pos, c.stored)
      BY <3>1, TruncateIsGood
    <3> QED BY <1>1, <2>1, <3>2 DEF Lesser
  <2>2. CASE ~(pos < c.stored)
    <3>1. cut = c
      BY <2>2
    <3> HIDE DEF cut
    <3> QED BY <1>1, <2>2, <3>1
  <2> HIDE DEF cut
  <2> QED BY <2>1, <2>2, Zenon
<1>3. WriteKvarn(c, pos, rows) = AppendRows(cut, zeros \o rows)
  BY DEF WriteKvarn
<1> HIDE DEF cut
<1>4. gap \in Nat
  BY <1>2
<1> HIDE DEF gap
<1>5. zeros \in Seq(Fine)
  <2>1. ZeroRow \in Fine
    BY DEF ZeroRow, Fine
  <2> QED BY <1>4, <2>1 DEF ZeroRows
<1> HIDE DEF zeros
<1>6. zeros \o rows \in Seq(Fine)
  BY <1>5, JoinedRows
<1> QED BY <1>2, <1>3, <1>6, AppendIsGood

\* A layer that is laid out in Good's terms is laid out in the code's.
LEMMA GoodIsLaidOut == ASSUME NEW c, Good(c) PROVE LaidOut(c)
<1>1. c.sink \in Seq(Fine) /\ c.blocks \in Seq(Block)
  BY DEF Good, Shaped
<1>2. \A i \in 1..Len(c.sink) : ~c.sink[i].coarse
  <2>1. \A i \in 1..Len(c.sink) : c.sink[i] \in Fine
    BY <1>1
  <2> QED BY <2>1 DEF Fine
<1>3. \A b \in 1..Len(c.blocks) : c.blocks[b] \in Block
  BY <1>1
<1>4. ASSUME NEW s \in Block
      PROVE  Len(s) = Group /\ \A i \in 1..Len(s) : s[i].coarse
  <2>1. s \in Seq(Coarse) /\ Len(s) = Group
    BY DEF Block
  <2>2. \A i \in 1..Len(s) : s[i] \in Coarse
    BY <2>1
  <2> QED BY <2>1, <2>2 DEF Coarse
<1> QED BY <1>2, <1>3, <1>4 DEF Good, LaidOut

-----------------------------------------------------------------------------
(* What a layer holds, as one list of rows. *)

\* p is the rows a + 1 to b of s.
Piece(p, s, a, b) == /\ p \in Seq(Row) /\ Len(p) = b - a
                     /\ \A j \in 1..(b - a) : p[j] = s[a + j]

\* s is the list of rows a KVarN layer holds.
Lays(c, s) ==
  /\ s \in Seq(Row) /\ Len(s) = c.stored
  /\ Piece(c.sink, s, 0, Lesser(c.stored, Sink))
  /\ \A b \in 1..Len(c.blocks) :
       Piece(c.blocks[b], s, Sink + (b - 1) * Group, Sink + b * Group)
  /\ c.stored > Sink => Piece(c.tail, s, TailStart(c), c.stored)

\* No rows, anywhere.
LEMMA NoPiece == ASSUME NEW s, NEW a \in Nat PROVE Piece(<<>>, s, a, a)
BY DEF Piece

\* A part of a piece.
LEMMA PieceSub ==
  ASSUME NEW p, NEW s, NEW a \in Nat, NEW b \in Nat, Piece(p, s, a, b),
         NEW m \in Nat, NEW n \in Nat, m <= n, a + n <= b
  PROVE  Piece(SubSeq(p, m + 1, n), s, a + m, a + n)
<1> DEFINE q == SubSeq(p, m + 1, n)
<1>1. p \in Seq(Row) /\ Len(p) = b - a /\ n <= Len(p)
  BY DEF Piece
<1>2. q \in Seq(Row) /\ Len(q) = n - m /\ \A j \in 1..(n - m) : q[j] = p[m + j]
  BY <1>1
<1> HIDE DEF q
<1>3. ASSUME NEW j \in 1..(n - m) PROVE q[j] = s[(a + m) + j]
  <2>1. m + j \in 1..(b - a) /\ a + (m + j) = (a + m) + j
    OBVIOUS
  <2> QED BY <1>2, <2>1 DEF Piece
<1>4. (a + n) - (a + m) = n - m
  OBVIOUS
<1> QED BY <1>2, <1>3, <1>4 DEF Piece, q

\* The head of a piece.
LEMMA PieceFirst ==
  ASSUME NEW p, NEW s, NEW a \in Nat, NEW b \in Nat, Piece(p, s, a, b),
         NEW n \in Nat, a + n <= b
  PROVE  Piece(First(p, n), s, a, a + n)
<1> DEFINE zero == 0
<1>1. zero \in Nat /\ zero <= n /\ zero + 1 = 1 /\ a + zero = a
  OBVIOUS
<1> HIDE DEF zero
<1>2. Piece(SubSeq(p, zero + 1, n), s, a + zero, a + n)
  BY <1>1, PieceSub
<1> QED BY <1>1, <1>2 DEF First

\* What follows the head of a piece.
LEMMA PieceFrom ==
  ASSUME NEW p, NEW s, NEW a \in Nat, NEW b \in Nat, Piece(p, s, a, b),
         NEW m \in Nat, a + m <= b
  PROVE  Piece(From(p, m), s, a + m, b)
<1>1. Len(p) = b - a
  BY DEF Piece
<1>2. Len(p) \in Nat /\ a + Len(p) = b /\ m <= Len(p)
  BY <1>1
<1>3. Piece(SubSeq(p, m + 1, Len(p)), s, a + m, a + Len(p))
  BY <1>2, PieceSub
<1> QED BY <1>2, <1>3 DEF From

\* Two pieces, one behind the other.
LEMMA PieceJoin ==
  ASSUME NEW p, NEW q, NEW s, NEW a \in Nat, NEW b \in Nat, NEW e \in Nat,
         a <= b, b <= e, Piece(p, s, a, b), Piece(q, s, b, e)
  PROVE  Piece(p \o q, s, a, e)
<1>1. p \in Seq(Row) /\ Len(p) = b - a /\ q \in Seq(Row) /\ Len(q) = e - b
  BY DEF Piece
<1>2. p \o q \in Seq(Row) /\ Len(p \o q) = e - a
  BY <1>1
<1>3. ASSUME NEW j \in 1..(e - a) PROVE (p \o q)[j] = s[a + j]
  <2>1. CASE j <= b - a
    <3>1. (p \o q)[j] = p[j] /\ j \in 1..(b - a)
      BY <1>1, <2>1
    <3> QED BY <3>1 DEF Piece
  <2>2. CASE ~(j <= b - a)
    <3>1. (p \o q)[j] = q[j - (b - a)] /\ j - (b - a) \in 1..(e - b)
      BY <1>1, <2>2
    <3>2. b + (j - (b - a)) = a + j
      OBVIOUS
    <3> QED BY <3>1, <3>2 DEF Piece
  <2> QED BY <2>1, <2>2
<1> QED BY <1>2, <1>3 DEF Piece

\* Only the rows of the piece matter.
LEMMA PieceOf ==
  ASSUME NEW p, NEW s, NEW t, NEW a \in Nat, NEW b \in Nat, Piece(p, s, a, b),
         \A i \in (a + 1)..b : t[i] = s[i]
  PROVE  Piece(p, t, a, b)
<1>1. \A j \in 1..(b - a) : a + j \in (a + 1)..b
  OBVIOUS
<1> QED BY <1>1 DEF Piece

\* A piece is what SubSeq gives.
LEMMA PieceIs ==
  ASSUME NEW p, NEW s \in Seq(Row), NEW a \in Nat, NEW b \in Nat, a <= b, b <= Len(s),
         Piece(p, s, a, b)
  PROVE  p = SubSeq(s, a + 1, b)
<1> DEFINE q == SubSeq(s, a + 1, b)
<1>1. q \in Seq(Row) /\ Len(q) = b - a /\ \A j \in 1..(b - a) : q[j] = s[a + j]
  OBVIOUS
<1> HIDE DEF q
<1>2. p \in Seq(Row) /\ Len(p) = b - a /\ \A j \in 1..(b - a) : p[j] = s[a + j]
  BY DEF Piece
<1>3. p = q
  BY <1>1, <1>2, SeqEqual
<1> QED BY <1>3 DEF q

\* Where a claim about lengths fails, it fails at a smallest one.
LEMMA SmallestNat ==
  ASSUME NEW Bad, Bad \subseteq Nat, Bad # {}
  PROVE  \E n \in Bad : \A m \in Bad : n <= m
<1>1. \A x, y \in Nat : y < x => <<y, x>> \in OpToRel(<, Nat)
  BY Zenon DEF OpToRel
<1>2. PICK x \in Bad : \A y \in Bad : ~(<<y, x>> \in OpToRel(<, Nat))
  BY NatLessThanWellFounded, WFMin, Zenon
<1>3. \A y \in Bad : ~(y < x)
  BY <1>1, <1>2, Zenon
<1> QED BY <1>3

\* The recursion of FlattenSeq, over the first n lists.
Joining(parts, n, h) ==
  [i \in 1..n |-> IF i = 1 THEN parts[i] ELSE h[i - 1] \o parts[i]]

\* There is a function of that recursion.
LEMMA JoiningExists ==
  ASSUME NEW parts, NEW n \in Nat
  PROVE  \E h : h = Joining(parts, n, h)
<1> DEFINE Bad == {m \in Nat : ~\E h : h = Joining(parts, m, h)}
<1>1. SUFFICES ASSUME Bad # {} PROVE FALSE
  OBVIOUS
<1>2. PICK m \in Bad : \A k \in Bad : m <= k
  <2>1. Bad \subseteq Nat /\ Bad # {}
    BY <1>1
  <2> HIDE DEF Bad
  <2> QED BY <2>1, SmallestNat
<1>3. m # 0
  <2> DEFINE g == [i \in 1..0 |-> <<>>]
  <2>1. \A h : Joining(parts, 0, h) = g
    BY DEF Joining
  <2> HIDE DEF g
  <2>2. g = Joining(parts, 0, g)
    BY <2>1
  <2> QED BY <1>2, <2>2
<1>4. PICK h : h = Joining(parts, m - 1, h)
  BY <1>2, <1>3
<1> DEFINE v == IF m = 1 THEN parts[m] ELSE h[m - 1] \o parts[m]
           g == [i \in 1..m |-> IF i = m THEN v ELSE h[i]]
<1>5. \A i \in 1..(m - 1) : h[i] = IF i = 1 THEN parts[i] ELSE h[i - 1] \o parts[i]
  BY <1>4 DEF Joining
<1> HIDE DEF v
<1>6. \A i \in 1..(m - 1) : g[i] = h[i]
  BY <1>2
<1>7. g[m] = v
  BY <1>2, <1>3
<1>8. g = [i \in 1..m |-> g[i]]
  OBVIOUS
<1> HIDE DEF g
<1>9. ASSUME NEW i \in 1..m
      PROVE  g[i] = IF i = 1 THEN parts[i] ELSE g[i - 1] \o parts[i]
  <2>1. CASE i = m
    <3>1. m # 1 => g[m - 1] = h[m - 1]
      BY <1>2, <1>3, <1>6
    <3> QED BY <1>7, <2>1, <3>1 DEF v
  <2>2. CASE i # m
    <3>1. i \in 1..(m - 1)
      BY <1>2, <2>2
    <3>2. i # 1 => g[i - 1] = h[i - 1]
      BY <1>2, <1>6, <3>1
    <3>3. g[i] = h[i]
      BY <1>6, <3>1
    <3> QED BY <1>5, <3>1, <3>2, <3>3
  <2> QED BY <2>1, <2>2
<1>10. g = Joining(parts, m, g)
  BY <1>8, <1>9 DEF Joining
<1> QED BY <1>2, <1>10

\* FlattenSeq is its last value.
LEMMA FlattenIs ==
  ASSUME NEW parts, Len(parts) \in Nat, Len(parts) # 0
  PROVE  \E h : h = Joining(parts, Len(parts), h) /\ FlattenSeq(parts) = h[Len(parts)]
<1> DEFINE n == Len(parts)
           G(h) == Joining(parts, n, h)
           g == CHOOSE h : h = G(h)
<1>1. FlattenSeq(parts) = g[n]
  BY DEF FlattenSeq, Joining
<1>2. PICK h : h = G(h)
  BY JoiningExists
<1>3. g = G(g)
  <2> HIDE DEF G
  <2> QED BY <1>2, Zenon
<1> QED BY <1>1, <1>3

\* Pieces of a list that follow each other, joined, are a piece of it.
LEMMA FlattenPieces ==
  ASSUME NEW parts, NEW s, NEW k \in Nat, Len(parts) = k, k = 0 => parts = <<>>,
         NEW off \in [0..k -> Nat],
         \A b \in 1..k : off[b - 1] <= off[b] /\ Piece(parts[b], s, off[b - 1], off[b])
  PROVE  off[0] <= off[k] /\ Piece(FlattenSeq(parts), s, off[0], off[k])
<1>1. CASE k = 0
  <2>1. FlattenSeq(parts) = <<>>
    BY <1>1 DEF FlattenSeq
  <2> QED BY <1>1, <2>1, NoPiece
<1>2. CASE k # 0
  <2>1. PICK h : h = Joining(parts, k, h) /\ FlattenSeq(parts) = h[k]
    BY <1>2, FlattenIs
  <2>2. \A i \in 1..k : h[i] = IF i = 1 THEN parts[i] ELSE h[i - 1] \o parts[i]
    BY <2>1 DEF Joining
  <2> DEFINE Bad == {m \in 1..k : ~(off[0] <= off[m] /\ Piece(h[m], s, off[0], off[m]))}
  <2>3. ASSUME Bad # {} PROVE FALSE
    <3>1. PICK m \in Bad : \A j \in Bad : m <= j
      <4>1. Bad \subseteq Nat /\ Bad # {}
        BY <2>3
      <4> HIDE DEF Bad
      <4> QED BY <4>1, SmallestNat
    <3>2. m \in 1..k /\ off[0] \in Nat /\ off[m] \in Nat
      BY <3>1
    <3>3. m # 1
      <4> SUFFICES ASSUME m = 1 PROVE FALSE
        OBVIOUS
      <4>1. h[1] = parts[1] /\ 1 - 1 = 0
        BY <2>2, <3>2
      <4>2. off[0] <= off[1] /\ Piece(parts[1], s, off[0], off[1])
        BY <3>2, <4>1
      <4> QED BY <3>1, <4>1, <4>2
    <3>4. m - 1 \in 1..k /\ ~(m <= m - 1) /\ off[m - 1] \in Nat
      BY <3>2, <3>3
    <3>5. off[0] <= off[m - 1] /\ Piece(h[m - 1], s, off[0], off[m - 1])
      BY <3>1, <3>4
    <3>6. off[m - 1] <= off[m] /\ Piece(parts[m], s, off[m - 1], off[m])
      BY <3>2
    <3>7. h[m] = h[m - 1] \o parts[m]
      BY <2>2, <3>2, <3>3
    <3>8. Piece(h[m], s, off[0], off[m])
      BY <3>2, <3>4, <3>5, <3>6, <3>7, PieceJoin
    <3> QED BY <3>1, <3>2, <3>4, <3>5, <3>6, <3>8
  <2>4. k \in 1..k
    BY <1>2
  <2> QED BY <2>1, <2>3, <2>4
<1> QED BY <1>1, <1>2

\* The fields of a laid out cache.
LEMMA GoodFields ==
  ASSUME NEW c, Good(c)
  PROVE  /\ c.sink \in Seq(Row) /\ c.tail \in Seq(Row) /\ c.stored \in Nat
         /\ c.blocks \in Seq(Block) /\ Len(c.blocks) \in Nat /\ Len(c.tail) \in Nat
         /\ Sink \in Nat /\ Group \in Nat /\ Group # 0
         /\ Len(c.blocks) * Group \in Nat /\ TailStart(c) \in Nat
         /\ TailStart(c) = Sink + Len(c.blocks) * Group
         /\ c.stored <= Sink => Len(c.blocks) = 0 /\ TailStart(c) = Sink
         /\ c.stored > Sink => c.stored = TailStart(c) + Len(c.tail)
<1>1. /\ c.sink \in Seq(Row) /\ c.tail \in Seq(Row) /\ c.stored \in Nat
      /\ c.blocks \in Seq(Block)
  BY RowKinds DEF Good, Shaped
<1>2. Len(c.blocks) \in Nat /\ Len(c.tail) \in Nat
  BY <1>1
<1>3. Sink \in Nat /\ Group \in Nat /\ Group # 0
  BY SinkAssumption, GroupAssumption
<1>4. Len(c.blocks) * Group \in Nat
  BY <1>2, <1>3
<1>5. TailStart(c) = Sink + Len(c.blocks) * Group
  BY DEF TailStart
<1>6. TailStart(c) \in Nat
  BY <1>3, <1>4, <1>5
<1>7. c.stored <= Sink => Len(c.blocks) = 0
  BY DEF Good
<1>8. Len(c.blocks) = 0 => TailStart(c) = Sink
  BY <1>3, <1>5
<1>9. c.stored > Sink => c.stored = TailStart(c) + Len(c.tail)
  BY <1>5 DEF Good
<1> QED BY <1>1, <1>2, <1>3, <1>4, <1>5, <1>6, <1>7, <1>8, <1>9

\* Where the blocks lie.
LEMMA BlockPlace ==
  ASSUME NEW n \in Nat, NEW b \in 1..n
  PROVE  /\ Sink + (b - 1) * Group \in Nat /\ Sink + b * Group \in Nat
         /\ Sink + b * Group = (Sink + (b - 1) * Group) + Group
         /\ Sink + b * Group <= Sink + n * Group
         /\ Sink <= Sink + (b - 1) * Group
<1>1. Sink \in Nat /\ Group \in Nat /\ b \in Nat /\ b - 1 \in Nat /\ b <= n
  BY SinkAssumption, GroupAssumption
<1> DEFINE lo == (b - 1) * Group
           hi == b * Group
           top == n * Group
<1>2. lo \in Nat /\ hi \in Nat /\ hi <= top /\ top \in Nat
  BY <1>1, TimesMonotone
<1>3. hi = lo + Group
  <2>1. ((b - 1) + 1) * Group = (b - 1) * Group + 1 * Group
    BY <1>1, TimesSum
  <2>2. (b - 1) + 1 = b /\ 1 * Group = Group
    BY <1>1
  <2> QED BY <2>1, <2>2
<1> HIDE DEF lo, hi, top
<1>4. /\ Sink + lo \in Nat /\ Sink + hi \in Nat /\ Sink + hi = (Sink + lo) + Group
      /\ Sink + hi <= Sink + top /\ Sink <= Sink + lo
  BY <1>1, <1>2, <1>3
<1> QED BY <1>4 DEF lo, hi, top

\* The rows of a piece that a longer list begins with.
LEMMA JoinedAgree ==
  ASSUME NEW s \in Seq(Row), NEW r \in Seq(Row)
  PROVE  /\ s \o r \in Seq(Row) /\ Len(s \o r) = Len(s) + Len(r)
         /\ \A i \in 1..Len(s) : (s \o r)[i] = s[i]
         /\ Piece(r, s \o r, Len(s), Len(s) + Len(r))
<1>1. s \o r \in Seq(Row) /\ Len(s \o r) = Len(s) + Len(r)
  OBVIOUS
<1>2. \A i \in 1..Len(s) : (s \o r)[i] = s[i]
  OBVIOUS
<1>3. \A j \in 1..Len(r) : (s \o r)[Len(s) + j] = r[j]
  OBVIOUS
<1>4. Len(s) \in Nat /\ Len(r) \in Nat /\ (Len(s) + Len(r)) - Len(s) = Len(r)
  OBVIOUS
<1> QED BY <1>1, <1>2, <1>3, <1>4 DEF Piece

\* append_row adds its rows at the end of the list.
LEMMA AppendLays ==
  ASSUME NEW c, Good(c), NEW s, Lays(c, s), NEW rows \in Seq(Fine)
  PROVE  Lays(AppendRows(c, rows), s \o rows)
<1> DEFINE k == c.stored
           n == Len(rows)
           room == IF k < Sink THEN Lesser(Sink - k, n) ELSE 0
           d == AppendRows(c, rows)
           t == s \o rows
           head == First(rows, room)
           rest == From(rows, room)
<1>1. rows \in Seq(Row) /\ n \in Nat
  BY RowKinds
<1>2. k \in Nat /\ Sink \in Nat /\ TailStart(c) \in Nat
  BY GoodFields
<1>3. /\ room \in Nat /\ room <= n
      /\ k < Sink => room = Lesser(Sink - k, n)
      /\ k >= Sink => room = 0
  BY <1>1, <1>2 DEF Lesser
<1>4. /\ d.sink = c.sink \o head /\ d.blocks = c.blocks /\ d.tail = c.tail \o rest
      /\ d.stored = k + n
  <2>1. c \in Shaped
    BY DEF Good
  <2>2. d = [c EXCEPT !.sink = c.sink \o head, !.tail = c.tail \o rest, !.stored = k + n]
    BY DEF AppendRows
  <2> DEFINE ns == c.sink \o head
             nt == c.tail \o rest
             nk == k + n
  <2>3. d = [c EXCEPT !.sink = ns, !.tail = nt, !.stored = nk]
    BY <2>2
  <2> HIDE DEF ns, nt, nk, d
  <2>4. d.sink = ns /\ d.blocks = c.blocks /\ d.tail = nt /\ d.stored = nk
    BY <2>1, <2>3 DEF Shaped
  <2> QED BY <2>4 DEF ns, nt, nk
<1>5. s \in Seq(Row) /\ Len(s) = k
  BY DEF Lays
<1>6. /\ t \in Seq(Row) /\ Len(t) = k + n /\ \A i \in 1..k : t[i] = s[i]
      /\ Piece(rows, t, k, k + n)
  BY <1>1, <1>5, JoinedAgree
<1> HIDE DEF k, n, room, d, t
<1>7. Piece(head, t, k, k + room) /\ Piece(rest, t, k + room, k + n)
  <2>1. k + n \in Nat /\ k + room <= k + n
    BY <1>1, <1>2, <1>3
  <2> QED BY <1>2, <1>3, <1>6, <2>1, PieceFirst, PieceFrom
<1>8. Piece(d.sink, t, 0, Lesser(k + n, Sink))
  <2>1. Piece(c.sink, s, 0, Lesser(k, Sink))
    BY DEF Lays, k
  <2>2. Lesser(k, Sink) \in Nat /\ Lesser(k, Sink) <= k
    BY <1>2 DEF Lesser
  <2>3. Piece(c.sink, t, 0, Lesser(k, Sink))
    <3>1. \A i \in (0 + 1)..Lesser(k, Sink) : t[i] = s[i]
      BY <1>2, <1>6, <2>2
    <3> QED BY <2>1, <2>2, <3>1, PieceOf
  <2>4. CASE k < Sink
    <3>1. Lesser(k, Sink) = k /\ Lesser(k + n, Sink) = k + room
      BY <1>1, <1>2, <1>3, <2>4 DEF Lesser
    <3>2. k + room \in Nat /\ k <= k + room
      BY <1>2, <1>3
    <3> QED BY <1>2, <1>4, <1>7, <2>3, <3>1, <3>2, PieceJoin
  <2>5. CASE ~(k < Sink)
    <3>1. Lesser(k, Sink) = Sink /\ Lesser(k + n, Sink) = Sink /\ room = 0
      BY <1>1, <1>2, <1>3, <2>5 DEF Lesser
    <3>2. head = <<>>
      BY <1>1, <3>1 DEF First
    <3>3. Piece(head, t, Sink, Sink)
      BY <1>2, <3>2, NoPiece
    <3>4. Piece(c.sink, t, 0, Sink) /\ 0 <= Sink /\ Sink <= Sink /\ 0 \in Nat
      BY <1>2, <2>3, <3>1
    <3>5. Piece(c.sink \o head, t, 0, Sink)
      BY <1>2, <3>3, <3>4, PieceJoin
    <3> QED BY <1>4, <3>1, <3>5
  <2> QED BY <2>4, <2>5
<1>9. ASSUME NEW b \in 1..Len(d.blocks)
      PROVE  Piece(d.blocks[b], t, Sink + (b - 1) * Group, Sink + b * Group)
  <2> DEFINE lo == Sink + (b - 1) * Group
             hi == Sink + b * Group
  <2>1. Piece(c.blocks[b], s, lo, hi)
    BY <1>4, <1>9 DEF Lays
  <2>2. Len(c.blocks) \in Nat /\ b \in 1..Len(c.blocks)
    BY <1>4, GoodFields
  <2>3. lo \in Nat /\ hi \in Nat /\ hi <= TailStart(c)
    BY <2>2, BlockPlace DEF TailStart
  <2>4. TailStart(c) <= k
    <3>1. ~(k <= Sink)
      BY <2>2, GoodFields DEF k
    <3>2. k = TailStart(c) + Len(c.tail) /\ Len(c.tail) \in Nat
      BY <1>2, <3>1, GoodFields DEF k
    <3> QED BY <1>2, <3>2
  <2> HIDE DEF lo, hi
  <2>5. \A i \in (lo + 1)..hi : t[i] = s[i]
    BY <1>2, <1>6, <2>3, <2>4
  <2>6. Piece(c.blocks[b], t, lo, hi)
    BY <2>1, <2>3, <2>5, PieceOf
  <2> QED BY <1>4, <2>6 DEF lo, hi
<1>10. ASSUME k + n > Sink
       PROVE  Piece(d.tail, t, TailStart(d), k + n)
  <2>1. TailStart(d) = TailStart(c)
    BY <1>4 DEF TailStart
  <2>2. CASE k > Sink
    <3>1. room = 0 /\ k + room = k
      BY <1>2, <1>3, <2>2
    <3>2. Piece(c.tail, s, TailStart(c), k)
      BY <2>2 DEF Lays, k
    <3>3. k = TailStart(c) + Len(c.tail) /\ Len(c.tail) \in Nat
      BY <2>2, GoodFields DEF k
    <3>4. TailStart(c) <= k /\ k <= k + n /\ k + n \in Nat
      <4> DEFINE x == TailStart(c)
                 y == Len(c.tail)
      <4>1. x \in Nat /\ y \in Nat /\ k \in Nat /\ n \in Nat /\ k = x + y
        BY <1>1, <1>2, <3>3, Zenon
      <4> HIDE DEF x, y
      <4>2. x <= k /\ k <= k + n /\ k + n \in Nat
        BY <4>1
      <4> QED BY <4>2 DEF x
    <3>5. \A i \in (TailStart(c) + 1)..k : t[i] = s[i]
      BY <1>2, <1>6
    <3>6. Piece(c.tail, t, TailStart(c), k)
      BY <1>2, <3>2, <3>5, PieceOf
    <3>7. Piece(rest, t, k, k + n)
      BY <1>7, <3>1
    <3>8. Piece(c.tail \o rest, t, TailStart(c), k + n)
      BY <1>2, <3>4, <3>6, <3>7, PieceJoin
    <3> QED BY <1>4, <2>1, <3>8
  <2>3. CASE ~(k > Sink)
    <3>1. k <= Sink
      BY <1>2, <2>3
    <3>2. c.tail = <<>> /\ TailStart(c) = Sink
      BY <3>1, GoodFields DEF Good, k
    <3>3. k + room = Sink
      BY <1>1, <1>2, <1>3, <1>10, <3>1 DEF Lesser
    <3>4. Piece(rest, t, Sink, k + n) /\ k + n \in Nat /\ Sink <= k + n
      BY <1>1, <1>2, <1>7, <1>10, <3>3
    <3>5. Piece(c.tail, t, Sink, Sink)
      BY <1>2, <3>2, NoPiece
    <3>6. Piece(c.tail \o rest, t, Sink, k + n)
      BY <1>2, <3>4, <3>5, PieceJoin
    <3> QED BY <1>4, <2>1, <3>2, <3>6
  <2> QED BY <2>2, <2>3
<1> QED BY <1>4, <1>6, <1>8, <1>9, <1>10 DEF Lays, d, t

\* The same tokens, in the same places.
SameTokens(s, t) == /\ t \in Seq(Row) /\ Len(t) = Len(s)
                    /\ \A i \in 1..Len(s) : t[i].tok = s[i].tok

\* What compact changes.
LEMMA CompactFields ==
  ASSUME NEW c, Good(c), c.stored > Sink
  PROVE  LET full == Len(c.tail) \div Group
             made == [b \in 1..full |-> Quantize(SubSeq(c.tail, (b - 1) * Group + 1, b * Group))]
             d == Compact(c)
         IN  /\ d.blocks = c.blocks \o made /\ d.tail = From(c.tail, full * Group)
             /\ made \in Seq(Block) /\ Len(made) = full
             /\ full \in Nat /\ full * Group \in Nat /\ full * Group <= Len(c.tail)
<1> DEFINE full == Len(c.tail) \div Group
           made == [b \in 1..full |-> Quantize(SubSeq(c.tail, (b - 1) * Group + 1, b * Group))]
           d == Compact(c)
<1>1. /\ c.tail \in Seq(Row) /\ Len(c.tail) \in Nat /\ Group \in Nat \ {0}
      /\ c \in Shaped /\ c.stored \in Nat /\ Sink \in Nat
  BY GoodFields DEF Good
<1>2. full \in Nat /\ full * Group \in Nat /\ full * Group <= Len(c.tail)
  BY <1>1, GroupsFit
<1>3. ~(c.stored <= Sink)
  BY <1>1
<1> DEFINE nb == c.blocks \o made
           nd == c.device \o made
           nt == From(c.tail, full * Group)
<1>4. d = [c EXCEPT !.blocks = nb, !.device = nd, !.tail = nt]
  BY <1>3, Zenon DEF Compact
<1> HIDE DEF full
<1>5. made \in Seq(Block) /\ Len(made) = full
  <2>1. \A b \in 1..full : Quantize(SubSeq(c.tail, (b - 1) * Group + 1, b * Group)) \in Block
    BY <1>1, <1>2, QuantizedGroup DEF IsGroup
  <2>2. made \in [1..full -> Block]
    BY <2>1
  <2> HIDE DEF made
  <2> QED BY <1>2, <2>2
<1> HIDE DEF nb, nd, nt, d
<1>6. d.blocks = nb /\ d.tail = nt
  BY <1>1, <1>4 DEF Shaped
<1>7. /\ d.blocks = nb /\ d.tail = nt
      /\ made \in Seq(Block) /\ Len(made) = full
      /\ full \in Nat /\ full * Group \in Nat /\ full * Group <= Len(c.tail)
  BY <1>2, <1>5, <1>6
<1> HIDE DEF made
<1> QED BY <1>7, Zenon DEF nb, nt, d, made, full

\* compact leaves the sink alone.
LEMMA CompactKeepsSink == ASSUME NEW c, Good(c) PROVE Compact(c).sink = c.sink
<1>1. c \in Shaped
  BY DEF Good
<1>2. PICK nb, nd, nt : Compact(c) = [c EXCEPT !.blocks = nb, !.device = nd, !.tail = nt]
  BY DEF Compact
<1> QED BY <1>1, <1>2 DEF Shaped

\* compact changes the precision of rows, and nothing else.
LEMMA CompactLays ==
  ASSUME NEW c, Good(c), NEW s, Lays(c, s)
  PROVE  \E t : Lays(Compact(c), t) /\ SameTokens(s, t)
<1> DEFINE k == c.stored
           d == Compact(c)
<1>1. /\ k \in Nat /\ Sink \in Nat /\ Group \in Nat /\ TailStart(c) \in Nat
      /\ c.tail \in Seq(Row) /\ Len(c.tail) \in Nat /\ Len(c.blocks) \in Nat
      /\ c.blocks \in Seq(Block)
  BY GoodFields
<1>2. s \in Seq(Row) /\ Len(s) = k /\ Piece(c.sink, s, 0, Lesser(k, Sink))
  BY DEF Lays
<1>3. Good(d) /\ d.stored = k /\ d.sink = c.sink
  BY CompactIsGood, CompactKeepsSink
<1> HIDE DEF d
<1>5. CASE k <= Sink
  <2>1. d.blocks = <<>> /\ ~(d.stored > Sink)
    BY <1>1, <1>3, <1>5 DEF Good
  <2>2. Lays(d, s)
    BY <1>2, <1>3, <2>1 DEF Lays, k
  <2>3. SameTokens(s, s)
    BY <1>2 DEF SameTokens
  <2> QED BY <2>2, <2>3 DEF d
<1>6. CASE ~(k <= Sink)
  <2> DEFINE old == Len(c.blocks)
             full == Len(c.tail) \div Group
             made == [b \in 1..full |-> Quantize(SubSeq(c.tail, (b - 1) * Group + 1, b * Group))]
             moved == full * Group
             from == TailStart(c)
             upTo == from + moved
             t == [i \in 1..k |-> IF from < i /\ i <= upTo
                                  THEN [s[i] EXCEPT !.coarse = TRUE] ELSE s[i]]
  <2>1. k > Sink
    BY <1>1, <1>6
  <2>2. /\ d.blocks = c.blocks \o made /\ d.tail = From(c.tail, moved)
        /\ made \in Seq(Block) /\ Len(made) = full
        /\ full \in Nat /\ moved \in Nat /\ moved <= Len(c.tail)
    BY <2>1, CompactFields DEF d
  <2>3. \A b \in 1..full : made[b] = Quantize(SubSeq(c.tail, (b - 1) * Group + 1, b * Group))
    OBVIOUS
  <2>4. /\ k = from + Len(c.tail) /\ from = Sink + old * Group /\ old * Group \in Nat
        /\ Piece(c.tail, s, from, k)
    BY <2>1, GoodFields DEF Lays
  <2> HIDE DEF full, made
  <2>5. /\ from \in Nat /\ upTo \in Nat /\ from <= upTo /\ upTo <= k /\ Sink <= from
        /\ old \in Nat
    <3> HIDE DEF moved
    <3> QED BY <1>1, <2>2, <2>4
  <2>6. TailStart(d) = upTo
    <3>1. Len(d.blocks) = old + full
      BY <1>1, <2>2, JoinedRows, Zenon
    <3>2. (old + full) * Group = old * Group + full * Group
      <4>1. old \in Nat /\ full \in Nat /\ Group \in Nat
        BY <1>1, <2>2, Zenon
      <4> HIDE DEF old
      <4> QED BY <4>1, TimesSum
    <3>3. TailStart(d) = Sink + (old * Group + moved)
      BY <3>1, <3>2 DEF TailStart
    <3> DEFINE x == old * Group
    <3>4. x \in Nat /\ from = Sink + x /\ TailStart(d) = Sink + (x + moved)
      BY <2>4, <3>3
    <3> HIDE DEF x, moved, from
    <3> QED BY <1>1, <2>2, <3>4
  <2> HIDE DEF k, from, upTo, moved
  <2>7. SameTokens(s, t)
    <3>1. \A i \in 1..k : s[i] \in Row
      BY <1>2
    <3>2. \A i \in 1..k : [s[i] EXCEPT !.coarse = TRUE] \in Row
                           /\ [s[i] EXCEPT !.coarse = TRUE].tok = s[i].tok
      BY <3>1 DEF Row
    <3>3. \A i \in 1..k : t[i] \in Row /\ t[i].tok = s[i].tok
      BY <3>1, <3>2
    <3>4. t = [i \in 1..k |-> t[i]]
      OBVIOUS
    <3> HIDE DEF t
    <3>5. t \in [1..k -> Row]
      BY <3>3, <3>4
    <3>6. t \in Seq(Row) /\ Len(t) = k
      BY <1>1, <3>5
    <3> QED BY <1>2, <3>3, <3>6 DEF SameTokens
  <2>8. /\ \A i \in 1..from : i <= k => t[i] = s[i]
        /\ \A i \in (from + 1)..upTo : t[i] = [s[i] EXCEPT !.coarse = TRUE]
        /\ \A i \in (upTo + 1)..k : t[i] = s[i]
    BY <1>1, <2>5
  <2> HIDE DEF t
  <2>9. t \in Seq(Row) /\ Len(t) = k
    BY <1>2, <2>7 DEF SameTokens
  <2>10. Piece(d.sink, t, 0, Lesser(d.stored, Sink))
    <3>1. Lesser(k, Sink) = Sink /\ 0 \in Nat
      BY <1>1, <2>1 DEF Lesser
    <3>2. \A i \in (0 + 1)..Sink : t[i] = s[i]
      BY <1>1, <2>1, <2>5, <2>8
    <3>3. Piece(c.sink, t, 0, Sink)
      BY <1>1, <1>2, <3>1, <3>2, PieceOf
    <3> QED BY <1>3, <3>1, <3>3
  <2>11. ASSUME NEW b \in 1..Len(d.blocks)
         PROVE  Piece(d.blocks[b], t, Sink + (b - 1) * Group, Sink + b * Group)
    <3>1. Len(d.blocks) = old + full /\ b \in 1..(old + full)
      <4>1. Len(d.blocks) = old + full
        BY <1>1, <2>2, JoinedRows, Zenon
      <4> QED BY <2>11, <4>1, Zenon
    <3>2. CASE b <= old
      <4> DEFINE lo == Sink + (b - 1) * Group
                 hi == Sink + b * Group
      <4>1. b \in 1..old /\ d.blocks[b] = c.blocks[b]
        BY <1>1, <2>2, <3>1, <3>2
      <4>2. Piece(c.blocks[b], s, lo, hi)
        BY <4>1 DEF Lays
      <4>3. lo \in Nat /\ hi \in Nat /\ hi <= from
        BY <2>4, <2>5, <4>1, BlockPlace
      <4> HIDE DEF lo, hi
      <4>4. \A i \in (lo + 1)..hi : t[i] = s[i]
        BY <1>1, <2>5, <2>8, <4>3
      <4>5. Piece(c.blocks[b], t, lo, hi)
        BY <4>2, <4>3, <4>4, PieceOf
      <4> QED BY <4>1, <4>5 DEF lo, hi
    <3>3. CASE ~(b <= old)
      <4> DEFINE g == b - old
                 lo == (g - 1) * Group
                 q == Quantize(SubSeq(c.tail, (g - 1) * Group + 1, g * Group))
      <4>1. g \in 1..full /\ d.blocks[b] = made[g]
        BY <1>1, <2>2, <2>5, <3>1, <3>3
      <4>2. made[g] = q
        BY <2>3, <4>1
      <4>3. /\ q \in Seq(Row) /\ Len(q) = Group
            /\ \A j \in 1..Group : q[j] = [c.tail[lo + j] EXCEPT !.coarse = TRUE]
        <5>1. full \in Nat /\ full * Group <= Len(c.tail)
          BY <2>2 DEF moved
        <5>2. c.tail \in Seq(Row) /\ g \in 1..full
          BY <1>1, <4>1
        <5> HIDE DEF g
        <5>3. IsGroup(q, c.tail, lo)
          BY <5>1, <5>2, QuantizedGroup
        <5> HIDE DEF q, lo
        <5> QED BY <5>3 DEF IsGroup
      <4> HIDE DEF q
      <4>4. lo \in Nat /\ lo + Group <= moved /\ g \in Nat /\ g - 1 \in Nat
        <5>1. g \in Nat /\ g - 1 \in Nat /\ g <= full
          BY <2>2, <4>1
        <5> HIDE DEF g
        <5>2. lo \in Nat /\ g * Group <= full * Group
          <6>1. Group \in Nat /\ full \in Nat
            BY <1>1, <2>2, Zenon
          <6> QED BY <5>1, <6>1, TimesMonotone
        <5>3. ((g - 1) + 1) * Group = (g - 1) * Group + 1 * Group
          BY <1>1, <5>1, TimesSum
        <5>4. (g - 1) + 1 = g /\ 1 * Group = Group
          BY <1>1, <5>1
        <5> QED BY <5>1, <5>2, <5>3, <5>4 DEF moved
      <4>5. Sink + (b - 1) * Group = from + lo /\ Sink + b * Group = from + (lo + Group)
        <5>1. b - 1 = old + (g - 1) /\ b = (b - 1) + 1 /\ b - 1 \in Nat
          BY <2>5, <3>1
        <5>2. (old + (g - 1)) * Group = old * Group + lo
          BY <1>1, <2>5, <4>4, TimesSum
        <5>3. ((b - 1) + 1) * Group = (b - 1) * Group + 1 * Group /\ 1 * Group = Group
          BY <1>1, <5>1, TimesSum
        <5> DEFINE x == old * Group
                   y == (b - 1) * Group
                   z == b * Group
        <5>4. x \in Nat /\ y = x + lo /\ z = y + Group /\ from = Sink + x
          BY <2>4, <5>1, <5>2, <5>3
        <5> HIDE DEF x, y, z, lo
        <5>5. Sink + y = from + lo /\ Sink + z = from + (lo + Group)
          BY <1>1, <4>4, <5>4
        <5> QED BY <5>5 DEF y, z
      <4> HIDE DEF lo, g
      <4>6. ASSUME NEW j \in 1..Group PROVE q[j] = t[(from + lo) + j]
        <5>1. lo + j \in 1..(k - from) /\ (from + lo) + j = from + (lo + j)
                /\ from + (lo + j) \in (from + 1)..upTo
          BY <1>1, <2>2, <2>5, <4>4 DEF upTo
        <5>2. c.tail[lo + j] = s[from + (lo + j)]
          BY <2>4, <5>1 DEF Piece
        <5>3. t[from + (lo + j)] = [s[from + (lo + j)] EXCEPT !.coarse = TRUE]
          BY <2>8, <5>1
        <5> QED BY <4>3, <5>1, <5>2, <5>3
      <4>7. (from + (lo + Group)) - (from + lo) = Group
        BY <1>1, <2>5, <4>4
      <4>8. Piece(q, t, from + lo, from + (lo + Group))
        BY <4>3, <4>6, <4>7 DEF Piece
      <4> QED BY <4>1, <4>2, <4>5, <4>8
    <3> QED BY <3>2, <3>3
  <2>12. Piece(d.tail, t, TailStart(d), k)
    <3>1. from + moved <= k
      BY <2>5 DEF upTo
    <3>2. Piece(From(c.tail, moved), s, from + moved, k)
      BY <1>1, <2>2, <2>4, <2>5, <3>1, PieceFrom
    <3>3. Piece(d.tail, s, upTo, k)
      BY <2>2, <3>2 DEF upTo
    <3>4. Piece(d.tail, t, upTo, k)
      BY <1>1, <2>5, <2>8, <3>3, PieceOf
    <3> QED BY <2>6, <3>4
  <2>13. Lays(d, t)
    BY <1>3, <2>9, <2>10, <2>11, <2>12 DEF Lays, k
  <2> QED BY <2>7, <2>13 DEF d
<1> QED BY <1>5, <1>6

\* The head of a list of rows.
LEMMA HeadRows ==
  ASSUME NEW s \in Seq(Row), NEW n \in Nat, n <= Len(s)
  PROVE  /\ First(s, n) \in Seq(Row) /\ Len(First(s, n)) = n
         /\ \A i \in 1..n : First(s, n)[i] = s[i]
BY DEF First

\* truncate_to that leaves rows after the sink.
LEMMA CutLays ==
  ASSUME NEW c, Good(c), NEW s, Lays(c, s), NEW len \in Nat, Sink < len, len <= c.stored
  PROVE  Lays(CutAfterSink(c, len), First(s, len))
<1> DEFINE after == len - Sink
           kept == after \div Group
           rest == after % Group
           blocks == Len(c.blocks)
           whole == blocks * Group
           d == CutAfterSink(c, len)
           t == First(s, len)
<1>1. /\ c \in Shaped /\ c.tail \in Seq(Row) /\ Len(c.tail) \in Nat /\ c.stored \in Nat
      /\ c.blocks \in Seq(Block) /\ blocks \in Nat /\ whole \in Nat
      /\ Sink \in Nat /\ Group \in Nat \ {0} /\ TailStart(c) \in Nat
      /\ TailStart(c) = Sink + whole
  BY GoodFields DEF Good
<1>2. after \in Nat /\ len = Sink + after
  BY <1>1
<1>3. /\ kept \in Nat /\ rest \in Nat /\ rest < Group
      /\ after = kept * Group + rest
  BY <1>1, <1>2, DivMod
<1>4. /\ s \in Seq(Row) /\ Len(s) = c.stored
      /\ Piece(c.sink, s, 0, Sink) /\ c.stored > Sink
      /\ Piece(c.tail, s, TailStart(c), c.stored)
      /\ c.stored = TailStart(c) + Len(c.tail)
  <2>1. c.stored > Sink
    BY <1>1
  <2>2. Lesser(c.stored, Sink) = Sink
    BY <1>1, <2>1 DEF Lesser
  <2> QED BY <2>1, <2>2, GoodFields DEF Lays
<1>5. t \in Seq(Row) /\ Len(t) = len /\ \A i \in 1..len : t[i] = s[i]
  BY <1>4, HeadRows
<1>6. Good(d) /\ d.stored = len
  BY CutIsGood
<1> HIDE DEF t
<1>7. ASSUME NEW p, NEW lo \in Nat, NEW hi \in Nat, hi <= len, Piece(p, s, lo, hi)
      PROVE  Piece(p, t, lo, hi)
  <2>1. \A i \in (lo + 1)..hi : t[i] = s[i]
    BY <1>5, <1>7
  <2> QED BY <1>7, <2>1, PieceOf
<1>8. Lesser(d.stored, Sink) = Sink /\ d.stored > Sink
  BY <1>1, <1>6 DEF Lesser
<1>9. Piece(c.sink, t, 0, Sink)
  BY <1>1, <1>4, <1>7
<1>10. CASE after < whole
  <2> DEFINE newTail == IF rest > 0 THEN First(c.blocks[kept + 1], rest) ELSE <<>>
             newBlocks == First(c.blocks, kept)
             newDevice == First(c.device, kept)
  <2>1. d = [c EXCEPT !.tail = newTail, !.blocks = newBlocks, !.device = newDevice,
                      !.stored = len]
    BY <1>10 DEF CutAfterSink
  <2> HIDE DEF after, kept, rest, d
  <2>2. kept < blocks
    BY <1>1, <1>2, <1>3, <1>10, QuotientSmaller
  <2>3. /\ Len(newBlocks) = kept /\ \A b \in 1..kept : newBlocks[b] = c.blocks[b]
    <3>1. kept <= blocks
      BY <1>1, <1>3, <2>2
    <3> QED BY <1>1, <1>3, <3>1 DEF First
  <2> HIDE DEF newTail, newBlocks, newDevice
  <2>4. d.sink = c.sink /\ d.blocks = newBlocks /\ d.tail = newTail
    BY <1>1, <2>1 DEF Shaped
  <2> DEFINE cut == Sink + kept * Group
  <2>5. TailStart(d) = cut
    BY <2>3, <2>4 DEF TailStart
  <2>6. cut \in Nat /\ len = cut + rest
    <3> DEFINE x == kept * Group
    <3>1. x \in Nat /\ after = x + rest
      BY <1>1, <1>3
    <3> HIDE DEF x
    <3>2. Sink + x \in Nat /\ len = (Sink + x) + rest
      BY <1>1, <1>2, <1>3, <3>1
    <3> QED BY <3>2 DEF x
  <2>7. ASSUME NEW b \in 1..Len(d.blocks)
        PROVE  Piece(d.blocks[b], t, Sink + (b - 1) * Group, Sink + b * Group)
    <3> DEFINE lo == Sink + (b - 1) * Group
               hi == Sink + b * Group
    <3>1. b \in 1..kept /\ b \in 1..blocks /\ d.blocks[b] = c.blocks[b]
      <4>1. b \in 1..kept
        BY <2>3, <2>4
      <4>2. b \in 1..blocks
        BY <1>1, <1>3, <2>2, <4>1
      <4> QED BY <2>3, <2>4, <4>1, <4>2
    <3>2. Piece(c.blocks[b], s, lo, hi)
      BY <3>1 DEF Lays
    <3>3. lo \in Nat /\ hi \in Nat /\ hi <= cut
      BY <1>3, <3>1, BlockPlace
    <3> HIDE DEF lo, hi, cut
    <3>4. hi <= len
      BY <1>3, <2>6, <3>3
    <3>5. Piece(c.blocks[b], t, lo, hi)
      BY <1>7, <3>2, <3>3, <3>4
    <3> QED BY <3>1, <3>5 DEF lo, hi
  <2>8. Piece(d.tail, t, cut, len)
    <3>1. CASE rest > 0
      <4> DEFINE b == kept + 1
                 lo == Sink + (b - 1) * Group
                 hi == Sink + b * Group
      <4>1. b \in 1..blocks /\ b - 1 = kept
        BY <1>1, <1>3, <2>2
      <4>2. Piece(c.blocks[b], s, lo, hi)
        BY <4>1 DEF Lays
      <4>3. lo \in Nat /\ hi \in Nat /\ hi = lo + Group
        BY <1>1, <4>1, BlockPlace
      <4>4. lo = cut
        BY <4>1
      <4> HIDE DEF lo, hi, cut, b
      <4>5. cut + rest <= hi
        BY <1>1, <1>3, <4>3, <4>4
      <4>6. Piece(First(c.blocks[b], rest), s, cut, cut + rest)
        BY <1>3, <4>2, <4>3, <4>4, <4>5, PieceFirst
      <4>7. newTail = First(c.blocks[b], rest)
        BY <3>1 DEF newTail, b
      <4>8. len <= len
        OBVIOUS
      <4> QED BY <1>7, <2>4, <2>6, <4>6, <4>7, <4>8
    <3>2. CASE ~(rest > 0)
      <4> HIDE DEF cut
      <4>1. rest = 0 /\ len = cut /\ newTail = <<>>
        BY <1>3, <2>6, <3>2 DEF newTail
      <4> QED BY <2>4, <2>6, <4>1, NoPiece
    <3> QED BY <3>1, <3>2
  <2>9. Piece(d.sink, t, 0, Lesser(d.stored, Sink))
    BY <1>8, <1>9, <2>4
  <2> HIDE DEF cut
  <2> QED BY <1>5, <1>6, <2>5, <2>7, <2>8, <2>9 DEF Lays, d, t
<1>11. CASE ~(after < whole)
  <2> DEFINE newTail == First(c.tail, after - whole)
  <2>1. d = [c EXCEPT !.tail = newTail, !.stored = len]
    BY <1>11 DEF CutAfterSink
  <2> HIDE DEF newTail, d
  <2>2. d.sink = c.sink /\ d.blocks = c.blocks /\ d.tail = newTail
    BY <1>1, <2>1 DEF Shaped
  <2>3. TailStart(d) = TailStart(c)
    BY <2>2 DEF TailStart
  <2> HIDE DEF after, whole
  <2>4. /\ after - whole \in Nat /\ TailStart(c) + (after - whole) = len
        /\ TailStart(c) <= len
    BY <1>1, <1>2, <1>11
  <2>5. Piece(newTail, s, TailStart(c), len)
    BY <1>1, <1>4, <2>4, PieceFirst DEF newTail
  <2>6. Piece(d.tail, t, TailStart(d), len)
    BY <1>1, <1>7, <2>2, <2>3, <2>5
  <2>7. ASSUME NEW b \in 1..Len(d.blocks)
        PROVE  Piece(d.blocks[b], t, Sink + (b - 1) * Group, Sink + b * Group)
    <3> DEFINE lo == Sink + (b - 1) * Group
               hi == Sink + b * Group
    <3>1. b \in 1..blocks
      BY <2>2, <2>7
    <3>2. Piece(c.blocks[b], s, lo, hi)
      BY <3>1 DEF Lays
    <3>3. lo \in Nat /\ hi \in Nat /\ hi <= Sink + blocks * Group
      BY <1>1, <3>1, BlockPlace
    <3>4. Sink + blocks * Group = TailStart(c)
      BY DEF TailStart
    <3> HIDE DEF lo, hi, blocks
    <3>5. hi <= len
      BY <1>1, <2>4, <3>3, <3>4
    <3>6. Piece(c.blocks[b], t, lo, hi)
      BY <1>7, <3>2, <3>3, <3>5
    <3> QED BY <2>2, <3>6 DEF lo, hi
  <2>8. Piece(d.sink, t, 0, Lesser(d.stored, Sink))
    BY <1>8, <1>9, <2>2
  <2> QED BY <1>5, <1>6, <2>6, <2>7, <2>8 DEF Lays, d, t
<1> QED BY <1>10, <1>11

\* truncate_to drops the rows after the cut, and no other.
LEMMA TruncateLays ==
  ASSUME NEW c, Good(c), NEW s, Lays(c, s), NEW upTo \in Nat
  PROVE  Lays(TruncateTo(c, upTo), First(s, Lesser(upTo, c.stored)))
<1> DEFINE len == Lesser(upTo, c.stored)
           d == TruncateTo(c, upTo)
           t == First(s, len)
<1>1. c.stored \in Nat /\ Sink \in Nat /\ c \in Shaped
  BY GoodFields DEF Good
<1>2. len \in Nat /\ len <= c.stored
  BY <1>1 DEF Lesser
<1>3. s \in Seq(Row) /\ Len(s) = c.stored /\ Piece(c.sink, s, 0, Lesser(c.stored, Sink))
  BY DEF Lays
<1>4. Good(d) /\ d.stored = len
  BY TruncateIsGood
<1> HIDE DEF len
<1>5. t \in Seq(Row) /\ Len(t) = len /\ \A i \in 1..len : t[i] = s[i]
  BY <1>2, <1>3, HeadRows
<1>6. CASE len <= Sink
  <2> DEFINE ns == First(c.sink, len)
             none == <<>>
  <2>1. d = [c EXCEPT !.sink = ns, !.blocks = none, !.device = none,
                      !.tail = none, !.stored = len]
    BY <1>6 DEF TruncateTo, len
  <2> HIDE DEF ns, none, d, t
  <2>2. d.sink = ns /\ d.blocks = none
    BY <1>1, <2>1 DEF Shaped
  <2>3. Len(d.blocks) = 0
    BY <2>2 DEF none
  <2>4. len <= Lesser(c.stored, Sink) /\ Lesser(c.stored, Sink) \in Nat /\ 0 + len = len
    BY <1>1, <1>2, <1>6 DEF Lesser
  <2>5. Piece(ns, s, 0, len)
    <3> DEFINE zero == 0
    <3>1. zero \in Nat /\ zero + len = len /\ Piece(c.sink, s, zero, Lesser(c.stored, Sink))
      BY <1>2, <1>3
    <3> HIDE DEF zero
    <3>2. Piece(First(c.sink, len), s, zero, zero + len)
      BY <1>2, <2>4, <3>1, PieceFirst
    <3> QED BY <3>1, <3>2 DEF zero, ns
  <2>6. Piece(ns, t, 0, len)
    <3>1. \A i \in (0 + 1)..len : t[i] = s[i]
      BY <1>5
    <3> QED BY <1>2, <2>5, <3>1, PieceOf
  <2>7. Lesser(d.stored, Sink) = len /\ ~(d.stored > Sink)
    BY <1>1, <1>2, <1>4, <1>6 DEF Lesser
  <2> QED BY <1>4, <1>5, <2>2, <2>3, <2>6, <2>7 DEF Lays, d, t, len
<1>7. CASE ~(len <= Sink)
  <2>1. d = CutAfterSink(c, len)
    BY <1>7 DEF TruncateTo, len
  <2>2. Sink < len
    BY <1>1, <1>2, <1>7
  <2> HIDE DEF d, t
  <2>3. Lays(d, First(s, len))
    BY <1>2, <2>1, <2>2, CutLays
  <2> QED BY <2>3 DEF d, t, len
<1> QED BY <1>6, <1>7

\* write_bits_range at a position the layer has reached: what was before the
\* position, then the new rows.
LEMMA WriteLays ==
  ASSUME NEW c, Good(c), NEW s, Lays(c, s), NEW pos \in Nat, pos <= c.stored,
         NEW rows \in Seq(Fine)
  PROVE  Lays(WriteKvarn(c, pos, rows), First(s, pos) \o rows)
<1> DEFINE cut == IF pos < c.stored THEN TruncateTo(c, pos) ELSE c
           gap == pos - cut.stored
<1>1. c.stored \in Nat /\ s \in Seq(Row) /\ Len(s) = c.stored
  BY GoodFields DEF Lays
<1>2. Good(cut) /\ cut.stored = pos /\ Lays(cut, First(s, pos))
  <2>1. CASE pos < c.stored
    <3>1. cut = TruncateTo(c, pos)
      BY <2>1
    <3> HIDE DEF cut
    <3>2. Good(cut) /\ cut.stored = Lesser(pos, c.stored)
      BY <3>1, TruncateIsGood
    <3>3. Lesser(pos, c.stored) = pos
      BY <1>1, <2>1 DEF Lesser
    <3>4. Lays(cut, First(s, Lesser(pos, c.stored)))
      BY <3>1, TruncateLays
    <3> QED BY <3>2, <3>3, <3>4
  <2>2. CASE ~(pos < c.stored)
    <3>1. cut = c /\ c.stored = pos
      BY <1>1, <2>2
    <3> HIDE DEF cut
    <3>2. First(s, pos) = s
      BY <1>1, <3>1 DEF First
    <3> QED BY <3>1, <3>2
  <2> HIDE DEF cut
  <2> QED BY <2>1, <2>2, Zenon
<1>3. WriteKvarn(c, pos, rows) = AppendRows(cut, ZeroRows(gap) \o rows)
  BY DEF WriteKvarn
<1> HIDE DEF cut
<1>4. gap = 0
  BY <1>2
<1>5. ZeroRows(0) = <<>>
  BY DEF ZeroRows
<1>6. ZeroRows(gap) \o rows = rows
  BY <1>4, <1>5
<1> QED BY <1>2, <1>3, <1>6, AppendLays

-----------------------------------------------------------------------------
(* The three ways of reading a KVarN layer. *)

\* The blocks before position len are the first ones.
LEMMA ReachedBlocks ==
  ASSUME NEW n \in Nat, NEW len \in Nat
  PROVE  \E k \in 0..n : /\ {b \in 1..n : Sink + (b - 1) * Group < len} = 1..k
                         /\ k < n => len <= Sink + k * Group
<1>0. Sink \in Nat /\ Group \in Nat \ {0}
  BY SinkAssumption, GroupAssumption
<1> DEFINE In(b) == Sink + (b - 1) * Group < len
           Out == {b \in 1..n : ~In(b)}
<1>1. \A a, b \in 1..n : a <= b /\ In(b) => In(a)
  <2> TAKE a, b \in 1..n
  <2> HAVE a <= b /\ In(b)
  <2>1. a - 1 \in Nat /\ b - 1 \in Nat /\ a - 1 <= b - 1 /\ Group \in Nat
    BY <1>0
  <2> DEFINE x == (a - 1) * Group
             y == (b - 1) * Group
  <2>2. x \in Nat /\ y \in Nat /\ x <= y
    BY <2>1, TimesMonotone
  <2>3. Sink + y < len
    OBVIOUS
  <2> HIDE DEF x, y
  <2>4. Sink + x < len
    BY <1>0, <2>2, <2>3
  <2> QED BY <2>4 DEF x
<1> HIDE DEF In
<1>2. CASE Out = {}
  <2>1. {b \in 1..n : In(b)} = 1..n /\ n \in 0..n
    BY <1>2
  <2> QED BY <2>1 DEF In
<1>3. CASE Out # {}
  <2>1. PICK m \in Out : \A b \in Out : m <= b
    <3>1. Out \subseteq Nat
      OBVIOUS
    <3> HIDE DEF Out
    <3> QED BY <1>3, <3>1, SmallestNat
  <2>2. m \in 1..n /\ ~In(m) /\ m - 1 \in 0..n
    BY <2>1
  <2>3. \A b \in 1..n : In(b) <=> b \in 1..(m - 1)
    <3> TAKE b \in 1..n
    <3>1. CASE b < m
      <4>1. b \notin Out /\ b \in 1..(m - 1)
        BY <2>1, <2>2, <3>1
      <4> QED BY <4>1
    <3>2. CASE ~(b < m)
      BY <1>1, <2>2, <3>2
    <3> QED BY <3>1, <3>2
  <2>4. {b \in 1..n : In(b)} = 1..(m - 1)
    <3>1. \A b \in 1..(m - 1) : b \in 1..n
      BY <2>2
    <3> QED BY <2>3, <3>1
  <2>5. len <= Sink + (m - 1) * Group
    <3> DEFINE x == (m - 1) * Group
    <3>1. m - 1 \in Nat /\ Group \in Nat
      BY <1>0, <2>2
    <3>2. x \in Nat
      BY <3>1, TimesMonotone
    <3>3. ~(Sink + x < len)
      BY <2>2 DEF In
    <3> HIDE DEF x
    <3>4. len <= Sink + x
      BY <1>0, <3>2, <3>3
    <3> QED BY <3>4 DEF x
  <2> QED BY <2>2, <2>4, <2>5 DEF In
<1> QED BY <1>2, <1>3

\* materialize reads the first rows of the list.
LEMMA MaterializeReads ==
  ASSUME NEW c, Good(c), NEW s, Lays(c, s), NEW len \in Nat, len <= c.stored
  PROVE  Piece(Materialize(c, len), s, 0, len)
<1> DEFINE blocks == Len(c.blocks)
           blockStart(b) == Sink + (b - 1) * Group
           reached == {b \in 1..blocks : blockStart(b) < len}
           part(b) == First(c.blocks[b], Lesser(len - blockStart(b), Group))
           parts == [b \in 1..Cardinality(reached) |-> part(b)]
           head == First(c.sink, Lesser(len, Sink))
           rest == IF len > TailStart(c) THEN First(c.tail, len - TailStart(c)) ELSE <<>>
<1>1. /\ c.stored \in Nat /\ blocks \in Nat /\ Sink \in Nat /\ Group \in Nat
      /\ TailStart(c) \in Nat /\ TailStart(c) = Sink + blocks * Group
      /\ c.stored <= Sink => TailStart(c) = Sink
      /\ c.blocks \in Seq(Block)
  BY GoodFields
<1>2. Materialize(c, len) = (head \o FlattenSeq(parts)) \o rest
  BY DEF Materialize
<1>3. PICK k \in 0..blocks : reached = 1..k /\ (k < blocks => len <= Sink + k * Group)
  BY <1>1, ReachedBlocks
<1>4. k \in Nat /\ Cardinality(reached) = k
  <2>1. k \in Nat /\ 1 \in Int /\ k \in Int
    BY <1>1
  <2>2. Cardinality(1..k) = IF 1 > k THEN 0 ELSE k - 1 + 1
    BY <2>1, FS_Interval
  <2>3. Cardinality(1..k) = k
    BY <2>1, <2>2
  <2> HIDE DEF reached
  <2> QED BY <1>3, <2>1, <2>3
<1> DEFINE off == [b \in 0..k |-> Lesser(len, Sink + b * Group)]
<1>5. \A b \in 0..k : Sink + b * Group \in Nat
  <2> TAKE b \in 0..k
  <2> DEFINE x == b * Group
  <2>1. b \in Nat
    BY <1>4
  <2>2. x \in Nat
    BY <1>1, <2>1, TimesMonotone
  <2> HIDE DEF x
  <2>3. Sink + x \in Nat
    BY <1>1, <2>2
  <2> QED BY <2>3 DEF x
<1>6. off \in [0..k -> Nat]
  BY <1>5 DEF Lesser
<1>7. \A b \in 1..k : off[b - 1] <= off[b] /\ Piece(part(b), s, off[b - 1], off[b])
  <2> TAKE b \in 1..k
  <2> DEFINE lo == blockStart(b)
             hi == Sink + b * Group
             n == Lesser(len - lo, Group)
  <2>1. b \in 1..blocks /\ lo < len
    <3>1. b \in reached
      BY <1>3
    <3> QED BY <3>1
  <2>2. lo \in Nat /\ hi \in Nat /\ hi = lo + Group
    BY <1>1, <2>1, BlockPlace
  <2>3. Piece(c.blocks[b], s, lo, hi)
    BY <2>1 DEF Lays
  <2>4. b - 1 \in 0..k /\ b \in 0..k
    BY <1>4
  <2>5. off[b - 1] = Lesser(len, lo) /\ off[b] = Lesser(len, hi)
    BY <2>4
  <2> HIDE DEF lo, hi, off
  <2>6. off[b - 1] = lo /\ off[b] = lo + n /\ n \in Nat /\ lo + n <= hi
    BY <1>1, <2>1, <2>2, <2>5 DEF Lesser
  <2> HIDE DEF n
  <2>7. Piece(First(c.blocks[b], n), s, lo, lo + n)
    BY <2>2, <2>3, <2>6, PieceFirst
  <2>8. part(b) = First(c.blocks[b], n)
    BY DEF n, lo
  <2> QED BY <2>2, <2>6, <2>7, <2>8
<1>8. parts = [b \in 1..k |-> part(b)]
  BY <1>4
<1>9. Len(parts) = k /\ (k = 0 => parts = <<>>) /\ \A b \in 1..k : parts[b] = part(b)
  <2> HIDE DEF part, parts
  <2>1. Len(parts) = k /\ \A b \in 1..k : parts[b] = part(b)
    BY <1>4, <1>8
  <2>2. k = 0 => parts = <<>>
    BY <1>8
  <2> QED BY <2>1, <2>2
<1> HIDE DEF parts, part
<1>10. off[0] <= off[k] /\ Piece(FlattenSeq(parts), s, off[0], off[k])
  <2> HIDE DEF off
  <2> QED BY <1>4, <1>6, <1>7, <1>9, FlattenPieces
<1>11. off[0] = Lesser(len, Sink) /\ off[k] = Lesser(len, TailStart(c))
  <2>1. 0 \in 0..k /\ k \in 0..k /\ 0 * Group = 0 /\ Sink + 0 = Sink
    BY <1>1, <1>4
  <2>2. off[0] = Lesser(len, Sink) /\ off[k] = Lesser(len, Sink + k * Group)
    BY <2>1
  <2>3. CASE k < blocks
    <3> DEFINE x == k * Group
               y == blocks * Group
    <3>1. x \in Nat /\ y \in Nat /\ x <= y
      BY <1>1, <1>4, <2>3, TimesMonotone
    <3>2. len <= Sink + x /\ TailStart(c) = Sink + y /\ off[k] = Lesser(len, Sink + x)
      BY <1>1, <1>3, <2>2, <2>3
    <3> HIDE DEF x, y, off
    <3>3. off[k] = Lesser(len, TailStart(c))
      BY <1>1, <3>1, <3>2 DEF Lesser
    <3> QED BY <2>2, <3>3
  <2>4. CASE ~(k < blocks)
    <3>1. k = blocks
      BY <1>1, <1>4, <2>4
    <3> HIDE DEF off, blocks
    <3> QED BY <1>1, <2>2, <3>1
  <2> QED BY <2>3, <2>4
<1> HIDE DEF off, reached
<1>12. Piece(head, s, 0, Lesser(len, Sink))
  <2> DEFINE zero == 0
             n == Lesser(len, Sink)
             m == Lesser(c.stored, Sink)
  <2>1. Piece(c.sink, s, zero, m)
    BY DEF Lays
  <2>2. zero \in Nat /\ zero + n = n /\ n \in Nat /\ m \in Nat /\ zero + n <= m
    BY <1>1 DEF Lesser
  <2> HIDE DEF zero, n, m
  <2>3. Piece(First(c.sink, n), s, zero, zero + n)
    BY <2>1, <2>2, PieceFirst
  <2> QED BY <2>2, <2>3 DEF zero, n
<1>13. Piece(rest, s, Lesser(len, TailStart(c)), len)
  <2>1. CASE len > TailStart(c)
    <3>1. TailStart(c) \in Nat /\ len - TailStart(c) \in Nat
            /\ TailStart(c) + (len - TailStart(c)) = len
            /\ Lesser(len, TailStart(c)) = TailStart(c)
      BY <1>1, <2>1 DEF Lesser
    <3>2. c.stored > Sink
      <4> DEFINE x == blocks * Group
      <4>1. x \in Nat /\ TailStart(c) = Sink + x
        BY <1>1, GoodFields
      <4> HIDE DEF x
      <4> QED BY <1>1, <2>1, <4>1
    <3>3. Piece(c.tail, s, TailStart(c), c.stored)
      BY <3>2 DEF Lays
    <3>4. Piece(First(c.tail, len - TailStart(c)), s, TailStart(c), len)
      BY <1>1, <3>1, <3>3, PieceFirst
    <3> QED BY <2>1, <3>1, <3>4
  <2>2. CASE ~(len > TailStart(c))
    <3>1. Lesser(len, TailStart(c)) = len
      BY <1>1, <2>2 DEF Lesser
    <3> QED BY <2>2, <3>1, NoPiece
  <2> QED BY <2>1, <2>2
<1> HIDE DEF head, rest
<1> DEFINE x == Lesser(len, Sink)
           y == Lesser(len, TailStart(c))
<1>14. x \in Nat /\ y \in Nat /\ x <= y /\ y <= len /\ 0 <= x /\ 0 <= y /\ 0 \in Nat
  <2>1. x \in Nat /\ y \in Nat /\ y <= len
    BY <1>1 DEF Lesser
  <2>2. x <= y
    BY <1>10, <1>11
  <2> HIDE DEF x, y
  <2> QED BY <2>1, <2>2
<1>15. Piece(head, s, 0, x) /\ Piece(FlattenSeq(parts), s, x, y) /\ Piece(rest, s, y, len)
  BY <1>10, <1>11, <1>12, <1>13
<1> HIDE DEF x, y
<1>16. Piece(head \o FlattenSeq(parts), s, 0, y)
  BY <1>14, <1>15, PieceJoin
<1>17. Piece((head \o FlattenSeq(parts)) \o rest, s, 0, len)
  BY <1>14, <1>15, <1>16, PieceJoin
<1> QED BY <1>2, <1>17

\* A position, moved into the range from start to end.
Clip(start, end, x) == Lesser(Greater(x, start), end)

\* The overlap of a region with a range is the rows of both.
LEMMA OverlapReads ==
  ASSUME NEW rows, NEW s, NEW lo \in Nat, NEW hi \in Nat, lo <= hi, Piece(rows, s, lo, hi),
         NEW start \in Nat, NEW end \in Nat, start <= end
  PROVE  /\ Clip(start, end, lo) \in Nat /\ Clip(start, end, hi) \in Nat
         /\ Clip(start, end, lo) <= Clip(start, end, hi)
         /\ Piece(Overlap(start, end, lo, rows), s, Clip(start, end, lo), Clip(start, end, hi))
<1> DEFINE a == Greater(start, lo)
           b == Lesser(end, hi)
           x == Clip(start, end, lo)
           y == Clip(start, end, hi)
<1>1. rows \in Seq(Row) /\ Len(rows) = hi - lo /\ lo + Len(rows) = hi
  BY DEF Piece
<1>2. Overlap(start, end, lo, rows) = SubSeq(rows, (a - lo) + 1, b - lo)
  BY <1>1 DEF Overlap
<1>3. x \in Nat /\ y \in Nat /\ x <= y
  BY DEF Clip, Lesser, Greater
<1>4. CASE a < b
  <2>1. /\ a - lo \in Nat /\ b - lo \in Nat /\ a - lo <= b - lo /\ lo + (b - lo) <= hi
        /\ lo + (a - lo) = a /\ lo + (b - lo) = b /\ x = a /\ y = b
    BY <1>4 DEF Clip, Lesser, Greater
  <2> HIDE DEF a, b, x, y
  <2>2. Piece(SubSeq(rows, (a - lo) + 1, b - lo), s, lo + (a - lo), lo + (b - lo))
    BY <2>1, PieceSub
  <2> QED BY <1>2, <1>3, <2>1, <2>2 DEF x, y
<1>5. CASE ~(a < b)
  <2>1. /\ a - lo \in Nat /\ b - lo \in Int /\ b - lo < (a - lo) + 1
        /\ x = y
    BY <1>5 DEF Clip, Lesser, Greater
  <2> HIDE DEF a, b, x, y
  <2>2. SubSeq(rows, (a - lo) + 1, b - lo) = <<>>
    BY <2>1, SubSeqEmpty
  <2> QED BY <1>2, <1>3, <2>1, <2>2, NoPiece DEF x, y
<1> QED BY <1>4, <1>5

\* materialize_range reads the rows of its range.
LEMMA RangeReads ==
  ASSUME NEW c, Good(c), NEW s, Lays(c, s), NEW end \in Nat, end <= c.stored,
         NEW start \in Nat, start <= end
  PROVE  Piece(MaterializeRange(c, start, end), s, start, end)
<1> DEFINE blocks == Len(c.blocks)
           clip(x) == Clip(start, end, x)
           part(b) == Overlap(start, end, Sink + (b - 1) * Group, c.blocks[b])
           parts == [b \in 1..blocks |-> part(b)]
           head == Overlap(start, end, 0, c.sink)
           rest == Overlap(start, end, TailStart(c), c.tail)
           off == [b \in 0..blocks |-> clip(Sink + b * Group)]
<1>1. /\ c.stored \in Nat /\ blocks \in Nat /\ Sink \in Nat /\ Group \in Nat
      /\ TailStart(c) \in Nat /\ TailStart(c) = Sink + blocks * Group
      /\ c.stored <= Sink => TailStart(c) = Sink
      /\ c.stored > Sink => c.stored = TailStart(c) + Len(c.tail)
      /\ Len(c.tail) \in Nat
  BY GoodFields
<1>2. MaterializeRange(c, start, end) = (head \o FlattenSeq(parts)) \o rest
  BY DEF MaterializeRange
<1>3. \A b \in 0..blocks : Sink + b * Group \in Nat
  <2> TAKE b \in 0..blocks
  <2> DEFINE x == b * Group
  <2>1. b \in Nat
    BY <1>1
  <2>2. x \in Nat
    BY <1>1, <2>1, TimesMonotone
  <2> HIDE DEF x
  <2>3. Sink + x \in Nat
    BY <1>1, <2>2
  <2> QED BY <2>3 DEF x
<1>4. off \in [0..blocks -> Nat]
  BY <1>3 DEF Clip, Lesser, Greater
<1>5. \A b \in 1..blocks : off[b - 1] <= off[b] /\ Piece(part(b), s, off[b - 1], off[b])
  <2> TAKE b \in 1..blocks
  <2> DEFINE lo == Sink + (b - 1) * Group
             hi == Sink + b * Group
  <2>1. lo \in Nat /\ hi \in Nat /\ hi = lo + Group
    BY <1>1, BlockPlace
  <2>2. Piece(c.blocks[b], s, lo, hi)
    BY DEF Lays
  <2>3. b - 1 \in 0..blocks /\ b \in 0..blocks
    BY <1>1
  <2>4. off[b - 1] = clip(lo) /\ off[b] = clip(hi) /\ part(b) = Overlap(start, end, lo, c.blocks[b])
    BY <2>3
  <2> HIDE DEF lo, hi, off, part
  <2>5. lo <= hi
    BY <1>1, <2>1
  <2>6. clip(lo) <= clip(hi) /\ Piece(Overlap(start, end, lo, c.blocks[b]), s, clip(lo), clip(hi))
    BY <2>1, <2>2, <2>5, OverlapReads
  <2> QED BY <2>4, <2>6
<1>6. Len(parts) = blocks /\ (blocks = 0 => parts = <<>>) /\ \A b \in 1..blocks : parts[b] = part(b)
  <2> HIDE DEF part
  <2> QED BY <1>1
<1> HIDE DEF parts, part
<1>7. off[0] <= off[blocks] /\ Piece(FlattenSeq(parts), s, off[0], off[blocks])
  <2>1. blocks \in Nat
    BY <1>1, Zenon
  <2> HIDE DEF off, blocks
  <2> QED BY <1>4, <1>5, <1>6, <2>1, FlattenPieces
<1>8. off[0] = clip(Sink) /\ off[blocks] = clip(TailStart(c))
  <2>1. 0 \in 0..blocks /\ blocks \in 0..blocks /\ 0 * Group = 0 /\ Sink + 0 = Sink
    BY <1>1
  <2> QED BY <1>1, <2>1
<1> HIDE DEF off
<1>9. Piece(head, s, start, clip(Sink)) /\ start <= clip(Sink)
  <2> DEFINE zero == 0
             m == Lesser(c.stored, Sink)
  <2>1. Piece(c.sink, s, zero, m) /\ head = Overlap(start, end, zero, c.sink)
    BY DEF Lays
  <2>2. zero \in Nat /\ m \in Nat /\ zero <= m
    BY <1>1 DEF Lesser
  <2>3. clip(zero) = start /\ clip(m) = clip(Sink)
    BY <1>1 DEF Clip, Lesser, Greater
  <2> HIDE DEF zero, m, head
  <2>4. clip(zero) <= clip(m) /\ Piece(Overlap(start, end, zero, c.sink), s, clip(zero), clip(m))
    BY <2>1, <2>2, OverlapReads
  <2> QED BY <2>1, <2>3, <2>4
<1>10. Piece(rest, s, clip(TailStart(c)), end) /\ clip(TailStart(c)) <= end
  <2>1. CASE c.stored > Sink
    <3>1. Piece(c.tail, s, TailStart(c), c.stored)
      BY <2>1 DEF Lays
    <3>2. TailStart(c) <= c.stored
      <4>1. c.stored = TailStart(c) + Len(c.tail) /\ TailStart(c) \in Nat /\ Len(c.tail) \in Nat
        BY <1>1, <2>1, Zenon
      <4> QED BY <4>1
    <3>3. clip(c.stored) = end
      BY <1>1 DEF Clip, Lesser, Greater
    <3>4. /\ clip(TailStart(c)) <= clip(c.stored)
          /\ Piece(rest, s, clip(TailStart(c)), clip(c.stored))
      BY <1>1, <3>1, <3>2, OverlapReads
    <3> QED BY <3>3, <3>4
  <2>2. CASE ~(c.stored > Sink)
    <3>1. c.stored <= Sink
      BY <1>1, <2>2
    <3>2. c.tail = <<>>
      BY <3>1 DEF Good
    <3>3. clip(TailStart(c)) = end
      BY <1>1, <3>1 DEF Clip, Lesser, Greater
    <3>4. Piece(c.tail, s, TailStart(c), TailStart(c)) /\ TailStart(c) <= TailStart(c)
      BY <1>1, <3>2, NoPiece
    <3>5. Piece(rest, s, clip(TailStart(c)), clip(TailStart(c)))
      BY <1>1, <3>4, OverlapReads
    <3> QED BY <3>3, <3>5
  <2> QED BY <2>1, <2>2
<1>11. clip(Sink) \in Nat /\ clip(TailStart(c)) \in Nat
  BY <1>1 DEF Clip, Lesser, Greater
<1> DEFINE x == clip(Sink)
           y == clip(TailStart(c))
<1> HIDE DEF head, rest
<1>12. /\ x \in Nat /\ y \in Nat /\ start <= x /\ x <= y /\ y <= end
       /\ Piece(head, s, start, x) /\ Piece(FlattenSeq(parts), s, x, y) /\ Piece(rest, s, y, end)
  BY <1>7, <1>8, <1>9, <1>10, <1>11
<1> HIDE DEF x, y
<1>13. Piece(head \o FlattenSeq(parts), s, start, y) /\ start <= y
  BY <1>12, PieceJoin
<1>14. Piece((head \o FlattenSeq(parts)) \o rest, s, start, end)
  BY <1>12, <1>13, PieceJoin
<1> QED BY <1>2, <1>14

\* view and attention_decode meet each position once, with its row.
LEMMA ViewReads ==
  ASSUME NEW c, Good(c), NEW s, Lays(c, s), NEW len \in Nat, len <= c.stored
  PROVE  ViewRows(c, len) = {<<i, s[i]>> : i \in 1..len}
<1> DEFINE blocks == Len(c.blocks)
           tailRows == IF len > TailStart(c) THEN len - TailStart(c) ELSE 0
           at(b) == Sink + (b - 1) * Group
           inBlocks == {x \in (1..blocks) \X (1..Group) : at(x[1]) + x[2] <= len}
           A == {<<i, c.sink[i]>> : i \in 1..Lesser(len, Sink)}
           B == {<<at(br[1]) + br[2], c.blocks[br[1]][br[2]]>> : br \in inBlocks}
           C == {<<TailStart(c) + i, c.tail[i]>> : i \in 1..tailRows}
           All == {<<i, s[i]>> : i \in 1..len}
<1>1. /\ c.stored \in Nat /\ blocks \in Nat /\ Sink \in Nat /\ Group \in Nat \ {0}
      /\ TailStart(c) \in Nat /\ TailStart(c) = Sink + blocks * Group
      /\ c.stored <= Sink => TailStart(c) = Sink
      /\ c.stored > Sink => c.stored = TailStart(c) + Len(c.tail)
      /\ Len(c.tail) \in Nat /\ blocks * Group \in Nat
  BY GoodFields
<1>2. ViewRows(c, len) = (A \cup B) \cup C
  BY DEF ViewRows
<1>3. \A i \in 1..Lesser(len, Sink) : c.sink[i] = s[i] /\ i \in 1..len
  <2>1. Piece(c.sink, s, 0, Lesser(c.stored, Sink))
    BY DEF Lays
  <2>2. \A i \in 1..Lesser(len, Sink) : i \in 1..len /\ i \in 1..(Lesser(c.stored, Sink) - 0) /\ 0 + i = i
    BY <1>1 DEF Lesser
  <2> QED BY <2>1, <2>2 DEF Piece
<1>4. \A b \in 1..blocks, j \in 1..Group :
        at(b) \in Nat /\ at(b) + j \in Nat /\ at(b) + j > Sink /\ c.blocks[b][j] = s[at(b) + j]
  <2> TAKE b \in 1..blocks, j \in 1..Group
  <2> DEFINE lo == at(b)
             hi == Sink + b * Group
  <2>1. lo \in Nat /\ hi \in Nat /\ hi = lo + Group /\ Sink <= lo
    BY <1>1, BlockPlace
  <2>2. Piece(c.blocks[b], s, lo, hi)
    BY DEF Lays
  <2> HIDE DEF lo, hi
  <2>3. j \in 1..(hi - lo) /\ lo + j \in Nat /\ lo + j > Sink
    BY <1>1, <2>1
  <2>4. c.blocks[b][j] = s[lo + j]
    BY <2>2, <2>3 DEF Piece
  <2> QED BY <2>1, <2>3, <2>4 DEF lo
<1>5. \A i \in 1..tailRows : /\ c.tail[i] = s[TailStart(c) + i]
                             /\ TailStart(c) + i \in 1..len
  <2> TAKE i \in 1..tailRows
  <2>1. len > TailStart(c) /\ i \in 1..(len - TailStart(c))
    BY <1>1
  <2>2. c.stored > Sink
    <3> DEFINE x == blocks * Group
    <3>1. x \in Nat /\ TailStart(c) = Sink + x
      BY <1>1
    <3> HIDE DEF x
    <3> QED BY <1>1, <2>1, <3>1
  <2>3. Piece(c.tail, s, TailStart(c), c.stored)
    BY <2>2 DEF Lays
  <2>4. i \in 1..(c.stored - TailStart(c)) /\ TailStart(c) + i \in 1..len
    BY <1>1, <2>1
  <2> QED BY <2>3, <2>4 DEF Piece
<1>6. (A \cup B) \cup C \subseteq All
  <2>1. A \subseteq All
    BY <1>3
  <2>2. B \subseteq All
    <3> SUFFICES ASSUME NEW br \in inBlocks
                 PROVE  <<at(br[1]) + br[2], c.blocks[br[1]][br[2]]>> \in All
      OBVIOUS
    <3>1. br[1] \in 1..blocks /\ br[2] \in 1..Group /\ at(br[1]) + br[2] <= len
      OBVIOUS
    <3> HIDE DEF at
    <3>2. at(br[1]) + br[2] \in 1..len
      BY <1>1, <1>4, <3>1
    <3> QED BY <1>4, <3>1, <3>2
  <2>3. C \subseteq All
    <3> HIDE DEF tailRows
    <3> QED BY <1>5
  <2> QED BY <2>1, <2>2, <2>3
<1>7. ASSUME NEW i \in 1..len PROVE <<i, s[i]>> \in (A \cup B) \cup C
  <2>1. CASE i <= Sink
    <3>1. i \in 1..Lesser(len, Sink)
      BY <1>1, <2>1 DEF Lesser
    <3>2. <<i, s[i]>> \in A
      BY <1>3, <3>1
    <3> HIDE DEF A, B, C
    <3> QED BY <3>2
  <2>2. CASE i > Sink /\ i <= TailStart(c)
    <3> DEFINE n == i - Sink - 1
               q == n \div Group
               r == n % Group
    <3>1. n \in Nat /\ i = Sink + n + 1
      BY <1>1, <2>2
    <3>2. q \in Nat /\ r \in Nat /\ r < Group /\ n = q * Group + r
      BY <1>1, <3>1, DivMod
    <3>3. n < blocks * Group
      <4> DEFINE w == blocks * Group
      <4>1. w \in Nat /\ TailStart(c) = Sink + w
        BY <1>1
      <4> HIDE DEF w, n
      <4>2. n < w
        BY <1>1, <2>2, <3>1, <4>1
      <4> QED BY <4>2 DEF w
    <3> HIDE DEF n, q, r
    <3>4. q < blocks
      BY <1>1, <3>1, <3>2, <3>3, QuotientSmaller
    <3> DEFINE b == q + 1
               j == r + 1
    <3>5. b \in 1..blocks /\ j \in 1..Group /\ b - 1 = q
      BY <1>1, <3>2, <3>4
    <3>6. at(b) + j = i
      <4> DEFINE x == q * Group
      <4>1. x \in Nat /\ at(b) = Sink + x /\ n = x + r
        <5>1. x \in Nat
          BY <1>1, <3>2, TimesMonotone
        <5>2. at(b) = Sink + x
          BY <3>5
        <5> QED BY <3>2, <5>1, <5>2
      <4> HIDE DEF x, at, b
      <4>2. at(b) + (r + 1) = i
        BY <1>1, <3>1, <3>2, <4>1
      <4> QED BY <4>2
    <3> HIDE DEF b, j
    <3>7. c.blocks[b][j] = s[i]
      BY <1>4, <3>5, <3>6
    <3>8. <<b, j>> \in inBlocks
      <4> HIDE DEF at
      <4> QED BY <3>5, <3>6
    <3> DEFINE br == <<b, j>>
    <3>9. br[1] = b /\ br[2] = j /\ br \in inBlocks
      BY <3>8
    <3>10. <<i, s[i]>> = <<at(br[1]) + br[2], c.blocks[br[1]][br[2]]>>
      BY <3>6, <3>7, <3>9
    <3> HIDE DEF br, inBlocks, at
    <3>11. <<i, s[i]>> \in B
      BY <3>9, <3>10
    <3> HIDE DEF A, B, C
    <3> QED BY <3>11
  <2>3. CASE i > TailStart(c)
    <3> DEFINE j == i - TailStart(c)
    <3>1. j \in 1..tailRows /\ TailStart(c) + j = i
      <4>1. TailStart(c) \in Nat
        BY <1>1, Zenon
      <4>2. len > TailStart(c) /\ j \in 1..(len - TailStart(c)) /\ TailStart(c) + j = i
        BY <2>3, <4>1
      <4> QED BY <4>2
    <3> HIDE DEF j, tailRows
    <3>2. <<i, s[i]>> = <<TailStart(c) + j, c.tail[j]>>
      BY <1>5, <3>1
    <3>3. <<i, s[i]>> \in C
      BY <3>1, <3>2
    <3> HIDE DEF A, B, C
    <3> QED BY <3>3
  <2>4. i <= Sink \/ (i > Sink /\ i <= TailStart(c)) \/ i > TailStart(c)
    BY <1>1
  <2> QED BY <2>1, <2>2, <2>3, <2>4
<1>8. All \subseteq (A \cup B) \cup C
  <2> HIDE DEF A, B, C
  <2> QED BY <1>7
<1> HIDE DEF A, B, C, All
<1>9. ViewRows(c, len) = All
  BY <1>2, <1>6, <1>8
<1> QED BY <1>9 DEF All

-----------------------------------------------------------------------------
(* LayerCache: either storage, and the text it holds. *)

\* The rows of a chunk come unquantised.
LEMMA ChunkRows == ASSUME NEW chunk \in Seq(Tokens) PROVE RowsFor(chunk) \in Seq(Fine)
<1>1. \A i \in 1..Len(chunk) : [tok |-> chunk[i], coarse |-> FALSE] \in Fine
  BY DEF Fine
<1>2. Len(chunk) \in Nat
  OBVIOUS
<1> QED BY <1>1, <1>2 DEF RowsFor

\* A chunk is a sequence of tokens.
LEMMA ChunkType ==
  ASSUME NEW chunk \in UNION {[1..n -> Tokens] : n \in 1..MaxChunk}
  PROVE  chunk \in Seq(Tokens)
<1>1. PICK n \in 1..MaxChunk : chunk \in [1..n -> Tokens]
  OBVIOUS
<1>2. n \in Nat
  BY BoundsAssumption
<1> QED BY <1>1, <1>2

\* s is the list of rows a layer of either storage holds; a flat buffer may hold
\* stale rows behind those that count.
Content(c, s) == \/ Good(c) /\ Lays(c, s)
                 \/ s \in Seq(Row) /\ c = [fmt |-> "f16", rows |-> s]

\* The list begins with the rows of these tokens.
Begins(s, toks) == Len(toks) <= Len(s) /\ \A i \in 1..Len(toks) : s[i].tok = toks[i]

Holds(c, toks) == \E s : Content(c, s) /\ Begins(s, toks)

\* Which arm of LayerCache a layer is, and what it holds.
LEMMA ContentArms ==
  ASSUME NEW c, NEW s, Content(c, s)
  PROVE  /\ s \in Seq(Row) /\ Len(s) \in Nat
         /\ c.fmt = "kvarn" => Good(c) /\ Lays(c, s) /\ Len(s) = c.stored
         /\ c.fmt # "kvarn" => c = [fmt |-> "f16", rows |-> s] /\ c.rows = s
<1>1. CASE Good(c) /\ Lays(c, s)
  <2>1. c.fmt = "kvarn"
    BY <1>1 DEF Good, Shaped
  <2>2. s \in Seq(Row) /\ Len(s) = c.stored
    BY <1>1 DEF Lays
  <2>3. Len(s) \in Nat
    BY <2>2
  <2> QED BY <1>1, <2>1, <2>2, <2>3, Zenon
<1>2. CASE s \in Seq(Row) /\ c = [fmt |-> "f16", rows |-> s]
  <2>1. c.fmt = "f16" /\ c.rows = s /\ "f16" # "kvarn" /\ Len(s) \in Nat
    BY <1>2
  <2> QED BY <1>2, <2>1
<1> QED BY <1>1, <1>2 DEF Content

\* A layer that holds a text holds every beginning of it.
LEMMA HoldsLess ==
  ASSUME NEW c, NEW t, Holds(c, t), Len(t) \in Nat, NEW u, Len(u) \in Nat, Len(u) <= Len(t),
         \A i \in 1..Len(u) : u[i] = t[i]
  PROVE  Holds(c, u)
<1>1. PICK s : Content(c, s) /\ Begins(s, t)
  BY DEF Holds
<1>2. Len(s) \in Nat
  BY <1>1, ContentArms
<1>3. Begins(s, u)
  BY <1>1, <1>2 DEF Begins
<1> QED BY <1>1, <1>3 DEF Holds

\* A new layer holds nothing that counts.
LEMMA NewHolds == ASSUME NEW f PROVE Holds(NewLayer(f), <<>>)
<1>1. \A s \in Seq(Row) : Begins(s, <<>>)
  BY DEF Begins
<1>2. CASE f = "kvarn"
  <2> DEFINE none == <<>>
  <2>1. Lays(NewKvarn, none)
    <3>1. /\ NewKvarn.sink = none /\ NewKvarn.blocks = none /\ NewKvarn.stored = 0
      BY DEF NewKvarn
    <3>2. none \in Seq(Row) /\ Len(none) = 0
      OBVIOUS
    <3>3. Lesser(0, Sink) = 0 /\ ~(0 > Sink) /\ 0 \in Nat
      BY SinkAssumption DEF Lesser
    <3>4. Piece(none, none, 0, 0)
      BY <3>3, NoPiece
    <3> HIDE DEF none
    <3> QED BY <3>1, <3>2, <3>3, <3>4 DEF Lays
  <2>2. Content(NewLayer(f), none)
    BY <1>2, <2>1, NewIsGood DEF Content, NewLayer
  <2>3. Begins(none, <<>>)
    BY DEF Begins
  <2> QED BY <2>2, <2>3 DEF Holds
<1>3. CASE f # "kvarn"
  <2>1. ZeroRows(MaxSeqLen) \in Seq(Row)
    <3>1. ZeroRow \in Row
      BY DEF ZeroRow, Row
    <3> QED BY <3>1, LengthAssumption DEF ZeroRows
  <2>2. Content(NewLayer(f), ZeroRows(MaxSeqLen))
    BY <1>3, <2>1 DEF Content, NewLayer
  <2> QED BY <1>1, <2>1, <2>2 DEF Holds
<1> QED BY <1>2, <1>3

\* The rows of a text's head and a chunk, in either storage.
LEMMA JoinBegins ==
  ASSUME NEW s \in Seq(Row), NEW t \in Seq(Tokens), NEW pos \in Nat, pos <= Len(t),
         Begins(s, t), NEW chunk \in Seq(Tokens), NEW r \in Seq(Row),
         pos + Len(chunk) <= Len(r),
         \A i \in 1..pos : r[i] = s[i],
         \A j \in 1..Len(chunk) : r[pos + j].tok = chunk[j]
  PROVE  Begins(r, First(t, pos) \o chunk)
<1> DEFINE h == First(t, pos)
           u == h \o chunk
<1>1. h \in Seq(Tokens) /\ Len(h) = pos /\ \A i \in 1..pos : h[i] = t[i]
  BY DEF First
<1> HIDE DEF h
<1>2. u \in Seq(Tokens) /\ Len(u) = pos + Len(chunk) /\ Len(chunk) \in Nat
  BY <1>1, JoinedRows
<1>3. ASSUME NEW i \in 1..(pos + Len(chunk)) PROVE r[i].tok = u[i]
  <2>1. CASE i <= pos
    <3>1. i \in 1..pos /\ i \in 1..Len(t) /\ u[i] = h[i]
      BY <1>1, <2>1
    <3> QED BY <1>1, <3>1 DEF Begins
  <2>2. CASE ~(i <= pos)
    <3>1. i - pos \in 1..Len(chunk) /\ pos + (i - pos) = i /\ u[i] = chunk[i - pos]
      BY <1>1, <1>2, <2>2
    <3> QED BY <3>1
  <2> QED BY <2>1, <2>2
<1>4. Begins(r, u)
  BY <1>2, <1>3 DEF Begins
<1> QED BY <1>4 DEF h

\* The rows of a chunk are its tokens'.
LEMMA ChunkTokens ==
  ASSUME NEW chunk \in Seq(Tokens)
  PROVE  /\ RowsFor(chunk) \in Seq(Fine) /\ RowsFor(chunk) \in Seq(Row)
         /\ Len(RowsFor(chunk)) = Len(chunk)
         /\ \A j \in 1..Len(chunk) : RowsFor(chunk)[j].tok = chunk[j]
<1>1. RowsFor(chunk) \in Seq(Fine) /\ RowsFor(chunk) \in Seq(Row)
  BY ChunkRows, RowKinds
<1>2. Len(chunk) \in Nat
  OBVIOUS
<1>3. Len(RowsFor(chunk)) = Len(chunk)
  BY <1>2 DEF RowsFor
<1>4. \A j \in 1..Len(chunk) : RowsFor(chunk)[j].tok = chunk[j]
  BY DEF RowsFor
<1> QED BY <1>1, <1>3, <1>4

\* A write puts the chunk after the head of the text.
LEMMA WriteHolds ==
  ASSUME NEW c, NEW t \in Seq(Tokens), Holds(c, t), NEW pos \in Nat, pos <= Len(t),
         NEW chunk \in Seq(Tokens)
  PROVE  Holds(WriteRange(c, pos, RowsFor(chunk)), First(t, pos) \o chunk)
<1> DEFINE rows == RowsFor(chunk)
           n == Len(chunk)
<1>1. PICK s : Content(c, s) /\ Begins(s, t)
  BY DEF Holds
<1>2. s \in Seq(Row) /\ Len(s) \in Nat /\ Len(t) \in Nat /\ Len(t) <= Len(s) /\ n \in Nat
  BY <1>1, ContentArms DEF Begins
<1>3. /\ rows \in Seq(Fine) /\ rows \in Seq(Row) /\ Len(rows) = n
      /\ \A j \in 1..n : rows[j].tok = chunk[j]
  BY ChunkTokens
<1> HIDE DEF rows, n
<1>4. CASE c.fmt = "kvarn"
  <2> DEFINE h == First(s, pos)
             r == h \o rows
             d == WriteKvarn(c, pos, rows)
  <2>1. Good(c) /\ Lays(c, s) /\ pos <= c.stored
    BY <1>1, <1>2, <1>4, ContentArms
  <2>2. Good(d)
    BY <1>3, <2>1, WriteIsGood
  <2>3. Lays(d, r)
    BY <1>3, <2>1, WriteLays
  <2>4. h \in Seq(Row) /\ Len(h) = pos /\ \A i \in 1..pos : h[i] = s[i]
    <3>1. pos <= Len(s)
      BY <1>2
    <3> QED BY <1>2, <3>1, HeadRows
  <2> HIDE DEF h, d
  <2>5. /\ r \in Seq(Row) /\ Len(r) = pos + n
        /\ \A i \in 1..pos : r[i] = s[i]
        /\ \A j \in 1..n : r[pos + j] = rows[j]
    <3>1. /\ r \in Seq(Row) /\ Len(r) = pos + n /\ \A i \in 1..pos : r[i] = h[i]
          /\ Piece(rows, r, pos, pos + n)
      BY <1>3, <2>4, JoinedAgree
    <3>2. (pos + n) - pos = n
      BY <1>2
    <3> HIDE DEF r
    <3> QED BY <2>4, <3>1, <3>2 DEF Piece
  <2> HIDE DEF r
  <2>6. Begins(r, First(t, pos) \o chunk)
    <3>1. pos + n <= Len(r) /\ \A j \in 1..n : r[pos + j].tok = chunk[j]
      BY <1>2, <1>3, <2>5
    <3> QED BY <1>1, <1>2, <2>5, <3>1, JoinBegins DEF n
  <2>7. Content(WriteRange(c, pos, rows), r)
    BY <1>4, <2>2, <2>3 DEF Content, WriteRange, d
  <2> QED BY <2>6, <2>7 DEF Holds, rows
<1>5. CASE c.fmt # "kvarn"
  <2> DEFINE end == pos + n
             more == Greater(end, Len(s)) - Len(s)
             grown == s \o ZeroRows(more)
             r == [i \in 1..Len(grown) |-> IF i \in (pos + 1)..end THEN rows[i - pos] ELSE grown[i]]
  <2>1. c = [fmt |-> "f16", rows |-> s] /\ c.rows = s
    BY <1>1, <1>5, ContentArms
  <2>2. WriteF16(c, pos, rows) = [c EXCEPT !.rows = r]
    BY <1>3, <2>1 DEF WriteF16
  <2>3. end \in Nat /\ more \in Nat /\ Len(s) + more >= end
    BY <1>2 DEF Greater
  <2> HIDE DEF more
  <2>4. ZeroRows(more) \in Seq(Row) /\ Len(ZeroRows(more)) = more
    <3>1. ZeroRow \in Row
      BY DEF ZeroRow, Row
    <3> QED BY <2>3, <3>1 DEF ZeroRows
  <2>5. /\ grown \in Seq(Row) /\ Len(grown) = Len(s) + more
        /\ \A i \in 1..Len(s) : grown[i] = s[i]
    BY <1>2, <2>4, JoinedAgree
  <2> HIDE DEF grown
  <2>6. \A i \in 1..Len(grown) : r[i] \in Row
    <3> TAKE i \in 1..Len(grown)
    <3>1. CASE i \in (pos + 1)..end
      <4>1. i - pos \in 1..n
        BY <1>2, <3>1
      <4> QED BY <1>3, <3>1, <4>1
    <3>2. CASE i \notin (pos + 1)..end
      BY <2>5, <3>2
    <3> QED BY <3>1, <3>2
  <2>7. /\ \A i \in 1..pos : r[i] = s[i]
        /\ \A j \in 1..n : r[pos + j] = rows[j]
    <3>1. ASSUME NEW i \in 1..pos PROVE r[i] = s[i]
      <4>1. i \in 1..Len(s) /\ i \in 1..Len(grown) /\ i \notin (pos + 1)..end
        BY <1>2, <2>3, <2>5
      <4> QED BY <2>5, <4>1
    <3>2. ASSUME NEW j \in 1..n PROVE r[pos + j] = rows[j]
      <4>1. pos + j \in 1..Len(grown) /\ pos + j \in (pos + 1)..end /\ (pos + j) - pos = j
        BY <1>2, <2>3, <2>5
      <4> QED BY <4>1
    <3> QED BY <3>1, <3>2
  <2>8. r = [i \in 1..Len(grown) |-> r[i]]
    OBVIOUS
  <2> HIDE DEF r
  <2>9. r \in Seq(Row) /\ Len(r) = Len(grown)
    <3>1. r \in [1..Len(grown) -> Row]
      BY <2>6, <2>8
    <3>2. Len(grown) \in Nat
      BY <2>5
    <3> QED BY <3>1, <3>2
  <2>10. Begins(r, First(t, pos) \o chunk)
    <3>1. pos + n <= Len(r) /\ \A j \in 1..n : r[pos + j].tok = chunk[j]
      BY <1>2, <1>3, <2>3, <2>5, <2>7, <2>9
    <3> QED BY <1>1, <1>2, <2>7, <2>9, <3>1, JoinBegins DEF n
  <2>11. Content(WriteRange(c, pos, rows), r)
    <3>1. WriteRange(c, pos, rows) = [fmt |-> "f16", rows |-> r]
      BY <1>5, <2>1, <2>2 DEF WriteRange
    <3> QED BY <2>9, <3>1 DEF Content
  <2> QED BY <2>10, <2>11 DEF Holds, rows
<1> QED BY <1>4, <1>5

\* Compaction leaves the text.
LEMMA CompactHolds ==
  ASSUME NEW c, NEW t, Len(t) \in Nat, Holds(c, t)
  PROVE  Holds(CompactLayer(c), t)
<1>1. PICK s : Content(c, s) /\ Begins(s, t)
  BY DEF Holds
<1>2. CASE c.fmt = "kvarn"
  <2>1. Good(c) /\ Lays(c, s)
    BY <1>1, <1>2, ContentArms
  <2>2. PICK r : Lays(Compact(c), r) /\ SameTokens(s, r)
    BY <2>1, CompactLays
  <2>3. Len(s) \in Nat
    BY <1>1, ContentArms
  <2>4. Begins(r, t)
    BY <1>1, <2>2, <2>3 DEF Begins, SameTokens
  <2>5. Content(CompactLayer(c), r)
    BY <1>2, <2>1, <2>2, CompactIsGood DEF Content, CompactLayer
  <2> QED BY <2>4, <2>5 DEF Holds
<1>3. CASE c.fmt # "kvarn"
  BY <1>3 DEF CompactLayer
<1> QED BY <1>2, <1>3

\* A rollback leaves the head of the text.
LEMMA TruncateHolds ==
  ASSUME NEW c, NEW t \in Seq(Tokens), Holds(c, t), NEW len \in Nat, len <= Len(t)
  PROVE  Holds(TruncateLayer(c, len), First(t, len))
<1> DEFINE u == First(t, len)
<1>1. Len(t) \in Nat /\ Len(u) = len /\ \A i \in 1..len : u[i] = t[i]
  BY DEF First
<1> HIDE DEF u
<1>2. CASE c.fmt = "kvarn"
  <2>1. PICK s : Content(c, s) /\ Begins(s, t)
    BY DEF Holds
  <2>2. Good(c) /\ Lays(c, s) /\ s \in Seq(Row) /\ Len(s) \in Nat /\ Len(s) = c.stored
    BY <1>2, <2>1, ContentArms
  <2>3. len <= Len(s) /\ Lesser(len, c.stored) = len
    BY <1>1, <2>1, <2>2 DEF Begins, Lesser
  <2> DEFINE r == First(s, len)
  <2>4. Lays(TruncateTo(c, len), r)
    BY <2>2, <2>3, TruncateLays
  <2>5. r \in Seq(Row) /\ Len(r) = len /\ \A i \in 1..len : r[i] = s[i]
    BY <2>2, <2>3, HeadRows
  <2> HIDE DEF r
  <2>6. Begins(r, u)
    BY <1>1, <2>1, <2>5 DEF Begins
  <2>7. Content(TruncateLayer(c, len), r)
    BY <1>2, <2>2, <2>4, TruncateIsGood DEF Content, TruncateLayer
  <2> QED BY <2>6, <2>7 DEF Holds, u
<1>3. CASE c.fmt # "kvarn"
  <2>1. Holds(c, u)
    BY <1>1, HoldsLess
  <2> QED BY <1>3, <2>1 DEF TruncateLayer, u
<1> QED BY <1>2, <1>3

\* What a snapshot keeps of a layer.
LEMMA SnapshotHolds ==
  ASSUME NEW c, NEW t \in Seq(Tokens), Holds(c, t)
  PROVE  Holds(IF c.fmt = "kvarn" THEN TruncateTo(c, Len(t))
               ELSE [c EXCEPT !.rows = First(@, Len(t))], t)
<1> DEFINE n == Len(t)
<1>1. n \in Nat /\ n <= n /\ First(t, n) = t
  BY DEF First
<1>2. CASE c.fmt = "kvarn"
  <2>1. Holds(TruncateLayer(c, n), First(t, n))
    BY <1>1, TruncateHolds
  <2> QED BY <1>1, <1>2, <2>1 DEF TruncateLayer
<1>3. CASE c.fmt # "kvarn"
  <2>1. PICK s : Content(c, s) /\ Begins(s, t)
    BY DEF Holds
  <2>2. s \in Seq(Row) /\ Len(s) \in Nat /\ c = [fmt |-> "f16", rows |-> s] /\ n <= Len(s)
    BY <1>3, <2>1, ContentArms DEF Begins
  <2> DEFINE r == First(s, n)
  <2>3. r \in Seq(Row) /\ Len(r) = n /\ \A i \in 1..n : r[i] = s[i]
    BY <1>1, <2>2, HeadRows
  <2>4. [c EXCEPT !.rows = First(@, n)] = [fmt |-> "f16", rows |-> r]
    BY <2>2
  <2> HIDE DEF r
  <2>5. Begins(r, t)
    BY <1>1, <2>1, <2>3 DEF Begins
  <2>6. Content([c EXCEPT !.rows = First(@, n)], r)
    BY <2>3, <2>4 DEF Content
  <2>7. Holds([c EXCEPT !.rows = First(@, n)], t)
    BY <2>5, <2>6 DEF Holds
  <2> QED BY <1>3, <2>7
<1> QED BY <1>2, <1>3

\* A restored layer holds the snapshot's text.
LEMMA RestoreHolds ==
  ASSUME NEW c, NEW s, Content(c, s), NEW d, NEW t, Len(t) \in Nat, Holds(d, t), c.fmt = d.fmt
  PROVE  Holds(RestoredLayer(c, d), t)
<1>1. CASE c.fmt = "kvarn"
  BY <1>1 DEF RestoredLayer
<1>2. CASE c.fmt # "kvarn"
  <2>1. PICK r : Content(d, r) /\ Begins(r, t)
    BY DEF Holds
  <2>2. /\ c = [fmt |-> "f16", rows |-> s] /\ s \in Seq(Row) /\ Len(s) \in Nat
        /\ d = [fmt |-> "f16", rows |-> r] /\ r \in Seq(Row) /\ Len(r) \in Nat
    BY <1>2, <2>1, ContentArms
  <2> DEFINE rest == From(s, Len(r))
             q == r \o rest
  <2>3. RestoredLayer(c, d) = [fmt |-> "f16", rows |-> q]
    BY <1>2, <2>2 DEF RestoredLayer
  <2>4. rest \in Seq(Row)
    <3>1. CASE Len(r) <= Len(s)
      BY <2>2, <3>1, FromRows
    <3>2. CASE ~(Len(r) <= Len(s))
      <4>1. Len(r) + 1 \in Int /\ Len(s) \in Int /\ Len(s) < Len(r) + 1
        BY <2>2, <3>2
      <4>2. rest = <<>>
        BY <4>1, SubSeqEmpty DEF From
      <4> QED BY <4>2
    <3> QED BY <3>1, <3>2
  <2> HIDE DEF rest
  <2>5. /\ q \in Seq(Row) /\ Len(q) = Len(r) + Len(rest) /\ Len(rest) \in Nat
        /\ \A i \in 1..Len(r) : q[i] = r[i]
    BY <2>2, <2>4, JoinedAgree
  <2> HIDE DEF q
  <2>6. Begins(q, t)
    <3>1. Len(r) \in Nat /\ Len(r) <= Len(q)
      <4>1. Len(r) \in Nat
        BY <2>2
      <4> QED BY <2>5, <4>1
    <3>2. Len(q) \in Nat
      BY <2>5
    <3> QED BY <2>1, <2>5, <3>1, <3>2 DEF Begins
  <2>7. Content(RestoredLayer(c, d), q)
    BY <2>3, <2>5 DEF Content
  <2> QED BY <2>6, <2>7 DEF Holds
<1> QED BY <1>1, <1>2

\* Rows of zeros.
LEMMA ZeroRowsType ==
  ASSUME NEW n \in Nat PROVE ZeroRows(n) \in Seq(Row) /\ Len(ZeroRows(n)) = n
<1>1. ZeroRow \in Row
  BY DEF ZeroRow, Row
<1> QED BY <1>1 DEF ZeroRows

\* More rows behind leave the text.
LEMMA GrownHolds ==
  ASSUME NEW s \in Seq(Row), NEW t, Len(t) \in Nat, Begins(s, t), NEW n \in Nat
  PROVE  Holds([fmt |-> "f16", rows |-> s \o ZeroRows(n)], t)
<1> DEFINE z == ZeroRows(n)
           r == s \o z
<1>1. z \in Seq(Row) /\ Len(z) = n
  BY ZeroRowsType
<1> HIDE DEF z
<1>2. r \in Seq(Row) /\ Len(r) = Len(s) + n /\ \A i \in 1..Len(s) : r[i] = s[i]
  BY <1>1, JoinedAgree
<1> HIDE DEF r
<1>3. Len(s) \in Nat
  OBVIOUS
<1>4. Begins(r, t)
  BY <1>2, <1>3 DEF Begins
<1>5. Content([fmt |-> "f16", rows |-> r], r)
  BY <1>2 DEF Content
<1>6. Holds([fmt |-> "f16", rows |-> r], t)
  BY <1>4, <1>5 DEF Holds
<1> QED BY <1>6 DEF r, z

\* What is read of a layer that holds a text.
LEMMA ReadHolds ==
  ASSUME NEW c, NEW t, Len(t) \in Nat, Holds(c, t)
  PROVE  /\ ReadsInitialized(c, Len(t))
         /\ ReadUpTo(c, Len(t)) \in Seq(Row) /\ Len(ReadUpTo(c, Len(t))) = Len(t)
         /\ \A i \in 1..Len(t) : ReadUpTo(c, Len(t))[i].tok = t[i]
<1> DEFINE n == Len(t)
<1>1. PICK s : Content(c, s) /\ Begins(s, t)
  BY DEF Holds
<1>2. s \in Seq(Row) /\ Len(s) \in Nat /\ n <= Len(s) /\ \A i \in 1..n : s[i].tok = t[i]
  BY <1>1, ContentArms DEF Begins
<1>3. CASE c.fmt = "kvarn"
  <2> DEFINE m == Materialize(c, n)
  <2>1. Good(c) /\ Lays(c, s) /\ Len(s) = c.stored /\ n <= c.stored
    BY <1>1, <1>2, <1>3, ContentArms
  <2>2. Piece(m, s, 0, n)
    BY <2>1, MaterializeReads
  <2>3. ReadUpTo(c, n) = m /\ ReadsInitialized(c, n)
    BY <1>3, <2>1 DEF ReadUpTo, ReadsInitialized
  <2> HIDE DEF m
  <2>4. n - 0 = n /\ \A i \in 1..n : 0 + i = i
    OBVIOUS
  <2>5. m \in Seq(Row) /\ Len(m) = n /\ \A i \in 1..n : m[i] = s[i]
    BY <2>2, <2>4 DEF Piece
  <2> QED BY <1>2, <2>3, <2>5
<1>4. CASE c.fmt # "kvarn"
  <2>1. c.rows = s
    BY <1>1, <1>4, ContentArms
  <2>2. ReadUpTo(c, n) = First(s, n) /\ ReadsInitialized(c, n)
    BY <1>4, <2>1 DEF ReadUpTo, ReadsInitialized
  <2>3. First(s, n) \in Seq(Row) /\ Len(First(s, n)) = n /\ \A i \in 1..n : First(s, n)[i] = s[i]
    BY <1>2, HeadRows
  <2> QED BY <1>2, <2>2, <2>3
<1> QED BY <1>3, <1>4

\* convert_to_f16 keeps the text.
LEMMA ConvertHolds ==
  ASSUME NEW c, NEW t \in Seq(Tokens), Holds(c, t), Len(t) <= MaxSeqLen,
         NEW reserve \in Nat
  PROVE  Holds(ToF16(c, Len(t), reserve), t)
<1> DEFINE n == Len(t)
           size == Lesser(Greater(reserve, n), MaxSeqLen)
<1>1. n \in Nat /\ size \in Nat /\ n <= size
  BY LengthAssumption DEF Lesser, Greater
<1>2. PICK s : Content(c, s) /\ Begins(s, t)
  BY DEF Holds
<1>3. s \in Seq(Row) /\ Len(s) \in Nat /\ n <= Len(s)
  BY <1>2, ContentArms DEF Begins
<1>4. CASE c.fmt = "kvarn"
  <2>1. Lesser(n, c.stored) = n
    BY <1>1, <1>2, <1>3, <1>4, ContentArms DEF Lesser
  <2> DEFINE m == Materialize(c, n)
  <2>2. ToF16(c, n, reserve) = [fmt |-> "f16", rows |-> m \o ZeroRows(size - Len(m))]
    BY <1>4, <2>1 DEF ToF16
  <2>3. ReadUpTo(c, n) = m
    BY <1>4 DEF ReadUpTo
  <2> HIDE DEF m, size
  <2>4. m \in Seq(Row) /\ Len(m) = n /\ \A i \in 1..n : m[i].tok = t[i]
    BY <1>1, <2>3, ReadHolds
  <2>5. size - Len(m) \in Nat /\ Begins(m, t)
    BY <1>1, <2>4 DEF Begins
  <2> QED BY <1>1, <2>2, <2>4, <2>5, GrownHolds
<1>5. CASE c.fmt # "kvarn"
  <2> DEFINE more == Greater(size, Len(s)) - Len(s)
  <2>1. c = [fmt |-> "f16", rows |-> s] /\ c.rows = s
    BY <1>2, <1>5, ContentArms
  <2>2. ToF16(c, n, reserve) = [c EXCEPT !.rows = s \o ZeroRows(more)]
    BY <1>5, <2>1 DEF ToF16
  <2>3. more \in Nat
    <3> HIDE DEF size
    <3> QED BY <1>1, <1>3 DEF Greater
  <2> HIDE DEF more
  <2>4. ToF16(c, n, reserve) = [fmt |-> "f16", rows |-> s \o ZeroRows(more)]
    BY <2>1, <2>2
  <2> QED BY <1>1, <1>2, <1>3, <2>3, <2>4, GrownHolds
<1> QED BY <1>4, <1>5

\* What holds a text is a layer.
LEMMA HoldsType == ASSUME NEW c, NEW t, Holds(c, t) PROVE c \in LayerCache
<1>1. PICK s : Content(c, s)
  BY DEF Holds
<1>2. ASSUME Good(c) PROVE c \in KvarnCache
  <2>1. c \in Shaped
    BY <1>2 DEF Good
  <2>2. Seq(Fine) \subseteq Seq(Row)
    BY RowKinds
  <2>3. Seq(Block) \subseteq Seq(Seq(Row))
    <3>1. Block \subseteq Seq(Row)
      BY RowKinds DEF Block
    <3> QED BY <3>1
  <2> QED BY <2>1, <2>2, <2>3 DEF Shaped, KvarnCache
<1>3. ASSUME s \in Seq(Row), c = [fmt |-> "f16", rows |-> s] PROVE c \in F16Cache
  BY <1>3 DEF F16Cache
<1> QED BY <1>1, <1>2, <1>3 DEF Content, LayerCache

-----------------------------------------------------------------------------
(* The cache of an engine. *)

\* The text a forward is computing towards.
Goal(t, f) == First(t, f.pos) \o f.chunk

\* The fields of a forward.
Forwards == [pos : Nat, chunk : Seq(Tokens), layer : 0..(Len(Formats) + 1), written : BOOLEAN]

\* A forward starts where the text ends; the layers it has written hold its goal,
\* the others still hold the text; once the last layer has raised the length,
\* the text is the goal.
UnderWay(ls, t, f) ==
  /\ f.pos <= Len(t) /\ f.pos + Len(f.chunk) <= MaxSeqLen
  /\ Len(t) = f.pos \/ t = Goal(t, f)
  /\ f.layer > 0 /\ (f.written => f.layer <= Len(Formats))
  /\ \A l \in Layers : l < f.layer \/ (l = f.layer /\ f.written) => Holds(ls[l], Goal(t, f))

\* What a snapshot holds.
Kept(s) == /\ s.text \in Seq(Tokens) /\ s.len = Len(s.text) /\ s.len <= MaxSeqLen
           /\ \A l \in Layers : Holds(s.layers[l], s.text)

\* What is kept by every step.  That the rows are the text's is not inductive: a
\* forward may be abandoned between two layers or finish, so the invariant
\* knows of both texts, and a restore copies the snapshot.
RowsInv ==
  /\ layers = [l \in Layers |-> layers[l]]
  /\ text \in Seq(Tokens) /\ currentLen = Len(text) /\ currentLen <= MaxSeqLen
  /\ \A l \in Layers : Holds(layers[l], text)
  /\ forward \in Forwards
  /\ Running => UnderWay(layers, text, forward)
  /\ saved = NoSnapshot \/ Kept(saved)

\* The layers are numbered.
LEMMA LayerNumbers == Layers = 1..Len(Formats) /\ Len(Formats) \in Nat
BY FormatsAssumption DEF Layers

\* What the goal is.
LEMMA GoalIs ==
  ASSUME NEW t \in Seq(Tokens), NEW f \in Forwards, f.pos <= Len(t)
  PROVE  /\ Goal(t, f) \in Seq(Tokens) /\ Len(Goal(t, f)) = f.pos + Len(f.chunk)
         /\ Len(f.chunk) \in Nat /\ f.pos \in Nat
         /\ First(Goal(t, f), f.pos) = First(t, f.pos)
         /\ \A i \in 1..f.pos : Goal(t, f)[i] = t[i]
         /\ Len(t) = f.pos => Goal(t, f) = t \o f.chunk
<1> DEFINE pos == f.pos
           chunk == f.chunk
           h == First(t, pos)
           g == h \o chunk
<1>1. pos \in Nat /\ chunk \in Seq(Tokens) /\ Len(chunk) \in Nat /\ Len(t) \in Nat
  BY DEF Forwards
<1> HIDE DEF pos, chunk
<1>2. pos <= Len(t)
  BY DEF pos
<1>3. h \in Seq(Tokens) /\ Len(h) = pos /\ \A i \in 1..pos : h[i] = t[i]
  BY <1>1, <1>2 DEF First
<1>4. Len(t) = pos => h = t
  BY <1>1 DEF First
<1> HIDE DEF h
<1>5. g \in Seq(Tokens) /\ Len(g) = pos + Len(chunk)
  BY <1>1, <1>3, JoinedRows
<1>6. \A i \in 1..pos : g[i] = h[i]
  BY <1>1, <1>3
<1>7. First(g, pos) = h
  <2> DEFINE k == First(g, pos)
  <2>1. pos <= Len(g)
    BY <1>1, <1>5
  <2> HIDE DEF g
  <2>2. k \in Seq(Tokens) /\ Len(k) = pos /\ \A i \in 1..pos : k[i] = g[i]
    BY <1>1, <1>5, <2>1 DEF First
  <2> HIDE DEF k
  <2>3. k = h
    BY <1>3, <1>6, <2>2, SeqEqual
  <2> QED BY <2>3 DEF k
<1>8. Goal(t, f) = g
  BY DEF Goal, g, h, pos, chunk
<1> HIDE DEF g
<1> QED BY <1>1, <1>3, <1>4, <1>5, <1>6, <1>7, <1>8 DEF h, pos, chunk, g

\* The first state.
LEMMA InitRows == Init => RowsInv
<1> SUFFICES ASSUME Init PROVE RowsInv
  OBVIOUS
<1>1. layers = [l \in Layers |-> layers[l]] /\ \A l \in Layers : layers[l] = NewLayer(Formats[l])
  BY DEF Init
<1>2. text = <<>> /\ currentLen = 0 /\ saved = NoSnapshot /\ forward = Idle
  BY DEF Init
<1>3. text \in Seq(Tokens) /\ currentLen = Len(text) /\ currentLen <= MaxSeqLen
  BY <1>2, LengthAssumption
<1>4. \A l \in Layers : Holds(layers[l], text)
  BY <1>1, <1>2, NewHolds
<1>5. forward \in Forwards /\ ~Running
  BY <1>2, LayerNumbers DEF Idle, Forwards, Running
<1> QED BY <1>1, <1>2, <1>3, <1>4, <1>5 DEF RowsInv

\* append, append_bits_range and replace_layer_f16_range.
LEMMA WriteRows ==
  ASSUME RowsInv, NEW raises \in BOOLEAN, WriteLayer(raises)
  PROVE  RowsInv'
<1> DEFINE at == forward.layer
           new == WriteRange(layers[at], forward.pos, RowsFor(forward.chunk))
           goal == Goal(text, forward)
           end == forward.pos + Len(forward.chunk)
<1>1. /\ layers' = [layers EXCEPT ![at] = new] /\ saved' = saved
      /\ forward' = [forward EXCEPT !.written = TRUE]
      /\ Running /\ ~forward.written /\ at <= Len(Formats)
  BY DEF WriteLayer
<1>2. \/ /\ at = Len(Formats) /\ end > currentLen
         /\ currentLen' = end /\ text' = text \o forward.chunk
      \/ UNCHANGED <<currentLen, text>>
  BY DEF WriteLayer
<1>3. /\ UnderWay(layers, text, forward) /\ text \in Seq(Tokens) /\ forward \in Forwards
      /\ \A l \in Layers : Holds(layers[l], text)
      /\ currentLen = Len(text) /\ currentLen <= MaxSeqLen
      /\ layers = [l \in Layers |-> layers[l]]
  BY <1>1 DEF RowsInv
<1>4. forward.pos <= Len(text) /\ end <= MaxSeqLen /\ (Len(text) = forward.pos \/ text = goal)
  BY <1>3 DEF UnderWay
<1>5. at \in Layers
  BY <1>1, <1>3, LayerNumbers DEF UnderWay, Forwards
<1>6. /\ goal \in Seq(Tokens) /\ Len(goal) = end /\ end \in Nat /\ forward.pos \in Nat
      /\ forward.chunk \in Seq(Tokens) /\ Len(forward.chunk) \in Nat
      /\ First(goal, forward.pos) = First(text, forward.pos)
      /\ \A i \in 1..forward.pos : goal[i] = text[i]
      /\ Len(text) = forward.pos => goal = text \o forward.chunk
  BY <1>3, <1>4, GoalIs DEF Forwards
<1>7. Holds(new, goal)
  BY <1>3, <1>4, <1>5, <1>6, WriteHolds DEF Goal
<1>8. forward' \in Forwards /\ forward'.pos = forward.pos /\ forward'.chunk = forward.chunk
        /\ forward'.layer = at /\ forward'.written
  BY <1>1, <1>3 DEF Forwards
<1> HIDE DEF new, goal, end
<1>9. \A l \in Layers : layers'[l] = IF l = at THEN new ELSE layers[l]
  BY <1>1, <1>3, <1>5
<1>10. layers' = [l \in Layers |-> layers'[l]]
  BY <1>1, <1>3
<1>11. Holds(new, text)
  <2>1. CASE text = goal
    BY <1>7, <2>1
  <2>2. CASE Len(text) = forward.pos
    <3>1. Len(text) \in Nat /\ Len(goal) \in Nat /\ Len(text) <= Len(goal)
            /\ \A i \in 1..Len(text) : text[i] = goal[i]
      BY <1>6, <2>2 DEF end
    <3> QED BY <1>7, <3>1, HoldsLess
  <2> QED BY <1>4, <2>1, <2>2
<1>12. \A l \in Layers : Holds(layers'[l], text)
  BY <1>3, <1>9, <1>11
<1>13. \A l \in Layers : l < at \/ l = at => Holds(layers'[l], goal)
  <2>1. \A l \in Layers : l < at => Holds(layers[l], goal)
    BY <1>3 DEF UnderWay, goal
  <2> QED BY <1>7, <1>9, <2>1
<1>14. \/ UNCHANGED <<currentLen, text>>
       \/ at = Len(Formats) /\ currentLen' = end /\ text' = goal
  <2>1. ASSUME end > currentLen PROVE Len(text) = forward.pos
    BY <1>3, <1>4, <1>6, <2>1
  <2> QED BY <1>2, <1>6, <2>1
<1>15. /\ text' \in Seq(Tokens) /\ currentLen' = Len(text') /\ currentLen' <= MaxSeqLen
  BY <1>3, <1>4, <1>6, <1>14
<1>16. \A l \in Layers : Holds(layers'[l], text')
  <2>1. at = Len(Formats) => \A l \in Layers : l < at \/ l = at
    BY LayerNumbers
  <2> QED BY <1>12, <1>13, <1>14, <2>1
<1>17. Goal(text', forward') = goal
  <2>1. text' = goal => First(text', forward.pos) = First(text, forward.pos)
    BY <1>6
  <2> QED BY <1>8, <1>14, <2>1 DEF Goal, goal
<1>18. forward.pos <= Len(text')
  <2>1. forward.pos <= end
    BY <1>6 DEF end
  <2> QED BY <1>4, <1>6, <1>14, <2>1
<1>19. Len(text') = forward.pos \/ text' = goal
  BY <1>4, <1>14
<1>20. UnderWay(layers', text', forward')
  <2>1. at > 0
    BY <1>3 DEF UnderWay
  <2>2. forward'.pos + Len(forward'.chunk) <= MaxSeqLen
    BY <1>4, <1>8 DEF end
  <2> QED BY <1>1, <1>8, <1>13, <1>17, <1>18, <1>19, <2>1, <2>2 DEF UnderWay
<1>21. saved' = NoSnapshot \/ Kept(saved')
  BY <1>1 DEF RowsInv
<1>22. NoSnapshot' = NoSnapshot
  BY DEF NoSnapshot
<1> QED BY <1>8, <1>10, <1>15, <1>16, <1>20, <1>21, <1>22 DEF RowsInv

\* No forward is under way.
LEMMA IdleForward == Idle \in Forwards
BY LayerNumbers DEF Idle, Forwards

\* A layer that holds a text has some content.
LEMMA ClearedHolds ==
  ASSUME NEW c, NEW t \in Seq(Tokens), Holds(c, t)
  PROVE  Holds(TruncateLayer(c, 0), <<>>)
<1>1. 0 \in Nat /\ 0 <= Len(t) /\ First(t, 0) = <<>>
  BY DEF First
<1> QED BY <1>1, TruncateHolds

\* KVCache::clear, and a restore that is refused.
LEMMA ClearRows ==
  ASSUME RowsInv, layers' = Cleared, currentLen' = 0, text' = <<>>,
         UNCHANGED <<forward, saved>>, ~Running
  PROVE  RowsInv'
<1>1. /\ text \in Seq(Tokens) /\ forward \in Forwards
      /\ \A l \in Layers : Holds(layers[l], text)
      /\ saved = NoSnapshot \/ Kept(saved)
  BY DEF RowsInv
<1>2. \A l \in Layers : layers'[l] = TruncateLayer(layers[l], 0)
  BY DEF Cleared
<1>3. layers' = [l \in Layers |-> layers'[l]]
  BY DEF Cleared
<1>4. \A l \in Layers : Holds(layers'[l], text')
  BY <1>1, <1>2, ClearedHolds
<1>5. text' \in Seq(Tokens) /\ currentLen' = Len(text') /\ currentLen' <= MaxSeqLen
  BY LengthAssumption
<1>6. ~Running'
  BY DEF Running, Idle
<1> QED BY <1>1, <1>3, <1>4, <1>5, <1>6 DEF RowsInv, NoSnapshot

\* set_len, to a length whose rows every layer has.
LEMMA SetLenRows ==
  ASSUME NEW t \in Seq(Tokens), \A l \in Layers : Holds(layers[l], t),
         NEW len \in Nat, len <= Len(t), len <= MaxSeqLen, SetLen(len),
         text' = First(t, len), forward' = Idle, saved' = saved,
         saved = NoSnapshot \/ Kept(saved)
  PROVE  RowsInv'
<1>1. layers' = [l \in Layers |-> TruncateLayer(layers[l], len)] /\ currentLen' = len
  BY DEF SetLen
<1>2. \A l \in Layers : Holds(layers'[l], text')
  BY <1>1, TruncateHolds
<1>3. text' \in Seq(Tokens) /\ Len(text') = len
  BY FirstRows
<1>4. ~Running' /\ forward' \in Forwards
  BY IdleForward DEF Running, Idle
<1> QED BY <1>1, <1>2, <1>3, <1>4 DEF RowsInv, NoSnapshot

\* Every step.
LEMMA NextRows == RowsInv /\ [Next]_vars => RowsInv'
<1> SUFFICES ASSUME RowsInv, [Next]_vars PROVE RowsInv'
  OBVIOUS
<1>0. /\ layers = [l \in Layers |-> layers[l]]
      /\ text \in Seq(Tokens) /\ currentLen = Len(text) /\ currentLen <= MaxSeqLen
      /\ \A l \in Layers : Holds(layers[l], text)
      /\ forward \in Forwards
      /\ Running => UnderWay(layers, text, forward)
      /\ saved = NoSnapshot \/ Kept(saved)
  BY DEF RowsInv
<1>a. currentLen \in Nat /\ Len(text) \in Nat
  BY <1>0
<1>1. CASE BeginForward
  <2>1. PICK chunk \in UNION {[1..n -> Tokens] : n \in 1..MaxChunk} :
          /\ currentLen + Len(chunk) <= MaxSeqLen
          /\ forward' = [pos |-> currentLen, chunk |-> chunk, layer |-> 1, written |-> FALSE]
    BY <1>1 DEF BeginForward
  <2>2. chunk \in Seq(Tokens)
    BY ChunkType
  <2>3. /\ forward' \in Forwards /\ forward'.pos = currentLen /\ forward'.chunk = chunk
        /\ forward'.layer = 1 /\ ~forward'.written
    BY <1>a, <2>1, <2>2, LayerNumbers DEF Forwards
  <2>4. UNCHANGED <<layers, currentLen, saved, text>>
    BY <1>1 DEF BeginForward
  <2>5. UnderWay(layers', text', forward')
    <3>1. \A l \in Layers : ~(l < 1)
      BY LayerNumbers
    <3>2. 1 > 0 /\ currentLen <= Len(text)
      BY <1>0, <1>a
    <3> QED BY <1>0, <2>1, <2>3, <2>4, <3>1, <3>2 DEF UnderWay
  <2> QED BY <1>0, <2>3, <2>4, <2>5 DEF RowsInv, NoSnapshot
<1>2. CASE AppendLayer \/ ReplaceLayer
  BY <1>2, WriteRows DEF AppendLayer, ReplaceLayer
<1>3. CASE FinishLayer
  <2> DEFINE at == forward.layer
             new == CompactLayer(layers[at])
             goal == Goal(text, forward)
  <2>1. /\ Running /\ forward.written /\ layers' = [layers EXCEPT ![at] = new]
        /\ forward' = [forward EXCEPT !.written = FALSE, !.layer = at + 1]
        /\ UNCHANGED <<currentLen, saved, text>>
    BY <1>3 DEF FinishLayer
  <2>2. UnderWay(layers, text, forward)
    BY <1>0, <2>1
  <2>3. at \in Layers
    BY <1>0, <2>1, <2>2, LayerNumbers DEF UnderWay, Forwards
  <2>4. /\ forward' \in Forwards /\ forward'.pos = forward.pos /\ forward'.chunk = forward.chunk
        /\ forward'.layer = at + 1 /\ ~forward'.written
    <3>1. at + 1 \in 0..(Len(Formats) + 1)
      BY <2>3, LayerNumbers
    <3> QED BY <1>0, <2>1, <3>1 DEF Forwards
  <2>5. Goal(text', forward') = goal
    BY <2>1, <2>4 DEF Goal
  <2>6. goal \in Seq(Tokens) /\ Len(goal) \in Nat
    <3>1. goal \in Seq(Tokens)
      BY <1>0, <2>2, GoalIs DEF UnderWay
    <3> QED BY <3>1
  <2>7. \A l \in Layers : l < at \/ l = at => Holds(layers[l], goal)
    BY <2>1, <2>2 DEF UnderWay
  <2>8. Holds(new, text) /\ Holds(new, goal)
    BY <1>0, <1>a, <2>3, <2>6, <2>7, CompactHolds
  <2> HIDE DEF new, goal
  <2>9. \A l \in Layers : layers'[l] = IF l = at THEN new ELSE layers[l]
    BY <1>0, <2>1, <2>3
  <2>10. layers' = [l \in Layers |-> layers'[l]]
    BY <1>0, <2>1
  <2>11. \A l \in Layers : Holds(layers'[l], text')
    BY <1>0, <2>1, <2>8, <2>9
  <2>12. \A l \in Layers : l < at + 1 => Holds(layers'[l], goal)
    <3>1. \A l \in Layers : l < at + 1 => l < at \/ l = at
      BY <2>3, LayerNumbers
    <3> QED BY <2>7, <2>8, <2>9, <3>1
  <2>13. at + 1 > 0
    BY <2>3, LayerNumbers
  <2>14. UnderWay(layers', text', forward')
    BY <2>1, <2>2, <2>4, <2>5, <2>12, <2>13 DEF UnderWay, goal
  <2> QED BY <1>0, <2>1, <2>4, <2>10, <2>11, <2>14 DEF RowsInv, NoSnapshot
<1>4. CASE FinishForward
  <2> DEFINE goal == Goal(text, forward)
             end == forward.pos + Len(forward.chunk)
  <2>1. /\ Running /\ forward.layer > Len(Formats) /\ SetLen(end)
        /\ text' = goal /\ forward' = Idle /\ saved' = saved
    BY <1>4 DEF FinishForward, Goal
  <2>2. UnderWay(layers, text, forward)
    BY <1>0, <2>1
  <2>3. goal \in Seq(Tokens) /\ Len(goal) = end /\ end \in Nat /\ end <= MaxSeqLen
    BY <1>0, <2>2, GoalIs DEF UnderWay
  <2>4. \A l \in Layers : l < forward.layer
    BY <1>0, <2>1, LayerNumbers DEF Forwards
  <2>5. \A l \in Layers : Holds(layers[l], goal)
    BY <2>2, <2>4 DEF UnderWay
  <2> HIDE DEF goal, end
  <2>6. First(goal, end) = goal /\ end <= Len(goal)
    BY <2>3 DEF First
  <2> QED BY <1>0, <2>1, <2>3, <2>5, <2>6, SetLenRows
<1>5. CASE AbandonForward
  <2>1. forward' = Idle /\ UNCHANGED <<layers, currentLen, saved, text>>
    BY <1>5 DEF AbandonForward
  <2>2. forward' \in Forwards /\ ~Running'
    BY <2>1, IdleForward DEF Running, Idle
  <2> QED BY <1>0, <2>1, <2>2 DEF RowsInv, NoSnapshot
<1>6. CASE CommitVerified
  <2>1. PICK chunk \in UNION {[1..n -> Tokens] : n \in 1..MaxChunk} :
          /\ currentLen + Len(chunk) <= MaxSeqLen
          /\ layers' = [l \in Layers |-> WriteRange(layers[l], currentLen, RowsFor(chunk))]
          /\ currentLen' = currentLen + Len(chunk)
          /\ text' = text \o chunk
    BY <1>6 DEF CommitVerified
  <2>2. chunk \in Seq(Tokens)
    BY ChunkType
  <2>3. First(text, currentLen) = text /\ currentLen <= Len(text)
    BY <1>0, <1>a DEF First
  <2>4. \A l \in Layers : Holds(layers'[l], text')
    BY <1>0, <1>a, <2>1, <2>2, <2>3, WriteHolds
  <2>5. text' \in Seq(Tokens) /\ Len(text') = currentLen'
    BY <1>0, <2>1, <2>2, JoinedRows
  <2>6. ~Running /\ UNCHANGED <<forward, saved>>
    BY <1>6 DEF CommitVerified
  <2>7. ~Running'
    BY <2>6 DEF Running, Idle
  <2> QED BY <1>0, <2>1, <2>4, <2>5, <2>6, <2>7 DEF RowsInv, NoSnapshot
<1>7. CASE Rollback
  <2>1. PICK len \in 0..currentLen : SetLen(len) /\ text' = First(text, len)
    BY <1>7 DEF Rollback
  <2>2. ~Running /\ UNCHANGED <<forward, saved>>
    BY <1>7 DEF Rollback
  <2>3. len \in Nat /\ len <= Len(text) /\ len <= MaxSeqLen
    BY <1>0, <1>a, LengthAssumption
  <2>4. forward' = Idle
    BY <2>2 DEF Running
  <2> QED BY <1>0, <2>1, <2>2, <2>3, <2>4, SetLenRows
<1>8. CASE Snapshot
  <2> DEFINE copy(l) == IF layers[l].fmt = "kvarn" THEN TruncateTo(layers[l], currentLen)
                        ELSE [layers[l] EXCEPT !.rows = First(@, currentLen)]
  <2>1. \A l \in Layers : Holds(copy(l), text)
    BY <1>0, SnapshotHolds
  <2>2. saved' = [layers |-> [l \in Layers |-> copy(l)], len |-> currentLen, text |-> text]
    BY <1>8 DEF Snapshot
  <2> HIDE DEF copy
  <2>3. Kept(saved)'
    <3>1. saved'.text = text /\ saved'.len = currentLen
            /\ \A l \in Layers : saved'.layers[l] = copy(l)
      BY <2>2
    <3> QED BY <1>0, <2>1, <3>1 DEF Kept
  <2>4. UNCHANGED <<layers, currentLen, forward, text>> /\ ~Running
    BY <1>8 DEF Snapshot
  <2>5. ~Running'
    BY <2>4 DEF Running, Idle
  <2> QED BY <1>0, <2>3, <2>4, <2>5 DEF RowsInv
<1>9. CASE Clear
  BY <1>9, ClearRows DEF Clear
<1>10. CASE Restore
  <2>1. /\ layers' = [l \in Layers |-> RestoredLayer(Cleared[l], saved.layers[l])]
        /\ currentLen' = saved.len /\ text' = saved.text /\ saved # NoSnapshot
        /\ StorageMatches /\ ~Running /\ UNCHANGED <<forward, saved>>
    BY <1>10 DEF Restore
  <2>2. Kept(saved)
    BY <1>0, <2>1
  <2>3. saved.text \in Seq(Tokens) /\ Len(saved.text) \in Nat
    <3>1. saved.text \in Seq(Tokens)
      BY <2>2 DEF Kept
    <3> QED BY <3>1
  <2>4. ASSUME NEW l \in Layers
        PROVE  Holds(RestoredLayer(Cleared[l], saved.layers[l]), saved.text)
    <3>1. Cleared[l] = TruncateLayer(layers[l], 0)
      BY DEF Cleared
    <3>2. Holds(Cleared[l], <<>>)
      BY <1>0, <3>1, ClearedHolds
    <3>3. PICK s : Content(Cleared[l], s)
      BY <3>2 DEF Holds
    <3>4. Holds(saved.layers[l], saved.text)
      BY <2>2 DEF Kept
    <3>5. Cleared[l].fmt = saved.layers[l].fmt
      <4>1. layers[l].fmt = saved.layers[l].fmt
        BY <2>1 DEF StorageMatches
      <4>2. CASE layers[l].fmt = "kvarn"
        <5>1. PICK r : Content(layers[l], r)
          BY <1>0 DEF Holds
        <5>2. Good(layers[l])
          BY <4>2, <5>1, ContentArms
        <5>3. Good(TruncateTo(layers[l], 0))
          BY <5>2, TruncateIsGood
        <5>4. Cleared[l].fmt = "kvarn"
          BY <3>1, <4>2, <5>3 DEF TruncateLayer, Good, Shaped
        <5> QED BY <4>1, <4>2, <5>4
      <4>3. CASE layers[l].fmt # "kvarn"
        BY <3>1, <4>1, <4>3 DEF TruncateLayer
      <4> QED BY <4>2, <4>3
    <3> QED BY <2>3, <3>3, <3>4, <3>5, RestoreHolds
  <2>5. \A l \in Layers : Holds(layers'[l], text')
    BY <2>1, <2>4
  <2>6. layers' = [l \in Layers |-> layers'[l]]
    BY <2>1
  <2>7. text' \in Seq(Tokens) /\ currentLen' = Len(text') /\ currentLen' <= MaxSeqLen
    BY <2>1, <2>2 DEF Kept
  <2>8. ~Running'
    BY <2>1 DEF Running, Idle
  <2> QED BY <1>0, <2>1, <2>5, <2>6, <2>7, <2>8 DEF RowsInv, NoSnapshot
<1>11. CASE RestoreRefused
  BY <1>11, ClearRows DEF RestoreRefused
<1>12. CASE ConvertToF16
  <2>1. PICK reserve \in {currentLen + 1, MaxSeqLen} :
          layers' = [l \in Layers |-> ToF16(layers[l], currentLen, reserve)]
    BY <1>12 DEF ConvertToF16
  <2>2. reserve \in Nat
    BY <1>a, LengthAssumption
  <2>3. \A l \in Layers : Holds(layers'[l], text)
    BY <1>0, <2>1, <2>2, ConvertHolds
  <2>4. ~Running /\ UNCHANGED <<currentLen, forward, saved, text>>
    BY <1>12 DEF ConvertToF16
  <2>5. ~Running'
    BY <2>4 DEF Running, Idle
  <2>6. layers' = [l \in Layers |-> layers'[l]]
    BY <2>1
  <2> QED BY <1>0, <2>3, <2>4, <2>5, <2>6 DEF RowsInv, NoSnapshot
<1>13. CASE UNCHANGED vars
  <2>1. UNCHANGED <<layers, currentLen, forward, saved, text>>
    BY <1>13 DEF vars
  <2>2. Running' <=> Running
    BY <2>1 DEF Running, Idle
  <2> QED BY <1>0, <2>1, <2>2 DEF RowsInv, NoSnapshot
<1> QED BY <1>1, <1>2, <1>3, <1>4, <1>5, <1>6, <1>7, <1>8, <1>9, <1>10, <1>11, <1>12,
           <1>13 DEF Next

\* The invariant.
LEMMA RowsAlways == Spec => []RowsInv
BY InitRows, NextRows, PTL DEF Spec

-----------------------------------------------------------------------------
(* Theorems. *)

\* A KVarN layer and its snapshot keep the layout that materialize, view and
\* the device attention index by, through abandoned forwards, rollbacks into a
\* block, restores and conversions.
THEOREM LayoutHolds == Spec => []LayoutExact
<1>1. ASSUME NEW c, NEW t, Holds(c, t), c.fmt = "kvarn" PROVE LaidOut(c)
  <2>1. PICK s : Content(c, s)
    BY <1>1 DEF Holds
  <2>2. Good(c)
    BY <1>1, <2>1, ContentArms
  <2> QED BY <2>2, GoodIsLaidOut
<1>2. RowsInv => LayoutExact
  BY <1>1 DEF RowsInv, Kept, LayoutExact
<1> QED BY <1>2, RowsAlways, PTL

\* Types, the bound on the length among them: no step fills the cache past
\* max_seq_len.
THEOREM CacheTypes == Spec => []TypeOK
<1>1. RowsInv => TypeOK
  <2> SUFFICES ASSUME RowsInv PROVE TypeOK
    OBVIOUS
  <2>1. layers = [l \in Layers |-> layers[l]] /\ \A l \in Layers : layers[l] \in LayerCache
    BY HoldsType DEF RowsInv
  <2>2. layers \in [Layers -> LayerCache]
    BY <2>1
  <2>3. text \in Seq(Tokens) /\ currentLen \in 0..MaxSeqLen
    <3>1. text \in Seq(Tokens) /\ currentLen = Len(text) /\ currentLen <= MaxSeqLen
      BY DEF RowsInv
    <3> QED BY <3>1, LengthAssumption
  <2>4. /\ forward.pos \in Nat /\ forward.chunk \in Seq(Tokens)
        /\ forward.layer \in 0..(Len(Formats) + 1) /\ forward.written \in BOOLEAN
    BY DEF RowsInv, Forwards
  <2>5. saved.len \in 0..MaxSeqLen
    <3>1. CASE saved = NoSnapshot
      BY <3>1, LengthAssumption DEF NoSnapshot
    <3>2. CASE Kept(saved)
      <4>1. saved.text \in Seq(Tokens) /\ saved.len = Len(saved.text) /\ saved.len <= MaxSeqLen
        BY <3>2 DEF Kept
      <4> QED BY <4>1, LengthAssumption
    <3> QED BY <3>1, <3>2 DEF RowsInv
  <2> QED BY <2>2, <2>3, <2>4, <2>5 DEF TypeOK
<1> QED BY <1>1, RowsAlways, PTL

\* The rows that count are the rows of the text, in every layer and in the
\* snapshot, whatever forwards were abandoned between two layers, wherever a
\* rollback cut, and through quantisation, restore and conversion.
THEOREM RowsFollowTheText == Spec => []RowsAreText
<1>1. RowsInv => RowsAreText
  <2> SUFFICES ASSUME RowsInv PROVE RowsAreText
    OBVIOUS
  <2>1. ASSUME NEW cs, NEW t \in Seq(Tokens), NEW len, len = Len(t),
               \A l \in Layers : Holds(cs[l], t)
        PROVE  HoldsText(cs, len, t)
    <3>1. Len(t) \in Nat
      OBVIOUS
    <3> QED BY <2>1, <3>1, ReadHolds DEF HoldsText
  <2>2. HoldsText(layers, currentLen, text)
    BY <2>1 DEF RowsInv
  <2>3. saved # NoSnapshot => HoldsText(saved.layers, saved.len, saved.text)
    BY <2>1 DEF RowsInv, Kept
  <2> QED BY <2>2, <2>3 DEF RowsAreText
<1> QED BY <1>1, RowsAlways, PTL

\* Reading a range, reading the whole and attending over the view give the same
\* rows at the same positions, of any KVarN layer an engine's calls can build.
THEOREM ReadersAgree == Spec => []ReadsAgree
<1>1. RowsInv => ReadsAgree
  <2> SUFFICES ASSUME RowsInv, NEW l \in Layers, layers[l].fmt = "kvarn"
               PROVE  LET c == layers[l] IN
                      /\ \A end \in 0..c.stored : \A start \in 0..end :
                           MaterializeRange(c, start, end)
                             = SubSeq(Materialize(c, c.stored), start + 1, end)
                      /\ \A len \in 0..c.stored :
                           ViewRows(c, len) = {<<i, Materialize(c, len)[i]>> : i \in 1..len}
    BY DEF ReadsAgree
  <2> DEFINE c == layers[l]
  <2>1. PICK s : Content(c, s)
    BY DEF RowsInv, Holds
  <2>2. Good(c) /\ Lays(c, s) /\ s \in Seq(Row) /\ Len(s) = c.stored /\ c.stored \in Nat
    BY <2>1, ContentArms
  <2> HIDE DEF c
  <2>3. \A len \in 0..c.stored : Materialize(c, len) = SubSeq(s, 1, len)
    <3> TAKE len \in 0..c.stored
    <3> DEFINE zero == 0
               m == Materialize(c, len)
    <3>1. len \in Nat /\ len <= c.stored
      BY <2>2
    <3>2. Piece(m, s, zero, len)
      BY <2>2, <3>1, MaterializeReads
    <3>3. zero \in Nat /\ zero <= len /\ zero + 1 = 1 /\ len <= Len(s)
      BY <2>2, <3>1
    <3> HIDE DEF zero, m
    <3>4. m = SubSeq(s, zero + 1, len)
      BY <2>2, <3>1, <3>2, <3>3, PieceIs
    <3> QED BY <3>3, <3>4 DEF m
  <2>4. ASSUME NEW end \in 0..c.stored, NEW start \in 0..end
        PROVE  MaterializeRange(c, start, end) = SubSeq(Materialize(c, c.stored), start + 1, end)
    <3>1. /\ end \in Nat /\ end <= c.stored /\ start \in Nat /\ start <= end
          /\ end <= Len(s) /\ c.stored \in 0..c.stored
      BY <2>2
    <3>2. Piece(MaterializeRange(c, start, end), s, start, end)
      BY <2>2, <3>1, RangeReads
    <3>3. MaterializeRange(c, start, end) = SubSeq(s, start + 1, end)
      BY <2>2, <3>1, <3>2, PieceIs
    <3>4. Materialize(c, c.stored) = SubSeq(s, 1, Len(s))
      BY <2>2, <2>3, <3>1
    <3>5. SubSeq(s, 1, Len(s)) = s
      BY <2>2
    <3> QED BY <3>3, <3>4, <3>5
  <2>5. ASSUME NEW len \in 0..c.stored
        PROVE  ViewRows(c, len) = {<<i, Materialize(c, len)[i]>> : i \in 1..len}
    <3>1. len \in Nat /\ len <= c.stored
      BY <2>2
    <3>2. ViewRows(c, len) = {<<i, s[i]>> : i \in 1..len}
      BY <2>2, <3>1, ViewReads
    <3>3. \A i \in 1..len : Materialize(c, len)[i] = s[i]
      <4>1. Materialize(c, len) = SubSeq(s, 1, len)
        BY <2>3
      <4> QED BY <2>2, <3>1, <4>1
    <3> QED BY <3>2, <3>3
  <2> QED BY <2>4, <2>5 DEF c
<1> QED BY <1>1, RowsAlways, PTL
=============================================================================
