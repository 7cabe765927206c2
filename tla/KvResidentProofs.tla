-------------------------- MODULE KvResidentProofs --------------------------
(* The device copy is right, for every tile, length and number of drafts.      *)
EXTENDS KvResident, Integers, TLAPS

Content == Tokens \cup {Zero}
Resident == [capacity : Nat, filled : Nat, rows : Seq(Content)]
WellFormed(c) == c \in Resident /\ Len(c.rows) = c.capacity

\* The first n rows of the copy are those of a buffer.
Shares(c, source, n) == \A i \in 1..n : i <= c.filled => c.rows[i] = source[i]

\* The copy is the first n rows of a buffer, and zeros.
IsCopy(c, source, n) == /\ n <= c.capacity
                        /\ \A i \in 1..n : c.rows[i] = source[i]
                        /\ \A i \in (n + 1)..c.capacity : c.rows[i] = Zero

InWindow == pc \in {"owner", "sharer", "verdict"}

Types == /\ host \in Seq(Content) /\ Len(host) = MaxRows
         /\ len \in Nat /\ remaining \in Nat /\ specK \in Nat \ {0}
         /\ window \in Seq(Tokens)
         /\ WellFormed(copy)

\* A window fits, and has the size the loop chose.
Windows == /\ pc \in {"draft"} \cup {"owner", "sharer", "verdict"} => remaining >= 1
           /\ InWindow => len + Len(window) <= MaxRows /\ Len(window) - 1 \in DraftCounts

\* Once there is a copy, no later window of the request can miss it: sizes
\* only shrink with the budget.
NeverMissed == copy.capacity > 0 => specK <= 2 \/ remaining <= 2

\* Between windows the copy holds the committed rows as far as it is filled.
Agrees == /\ pc \in {"draft", "owner"} /\ copy.capacity > 0 => Shares(copy, host, len)
          /\ pc \in {"sharer", "verdict"} /\ IsResidentSize(Len(window))
               => copy.capacity > 0 /\ IsCopy(copy, host, KvLen)

IInv == Types /\ Windows /\ NeverMissed /\ Agrees

-----------------------------------------------------------------------------
(* Operators. *)

\* A buffer of whole tiles holds what it was made for.
LEMMA CapacityHolds == ASSUME NEW n \in Nat PROVE Capacity(n) \in Nat /\ Capacity(n) >= n
<1> DEFINE m == n + Tile - 1
           q == m \div Tile
           r == m % Tile
<1>1. m \in Nat /\ Tile \in Nat \ {0} /\ m = n + Tile - 1
  BY TileAssumption
<1> HIDE DEF m
<1>2. q \in Int /\ r \in Int /\ 0 <= r /\ r < Tile /\ q >= 0
  BY <1>1
<1>3. m = q * Tile + r
  BY <1>1, Z3
<1> HIDE DEF q, r
<1>4. q * Tile \in Nat
  BY <1>1, <1>2
<1>5. q * Tile >= n
  BY <1>1, <1>2, <1>3, <1>4
<1> QED BY <1>4, <1>5 DEF Capacity, q, m

\* Overwrite keeps the length and replaces just its rows.
LEMMA OverwriteRows ==
  ASSUME NEW rows \in Seq(Content), NEW pos \in Nat, NEW new \in Seq(Content)
  PROVE  /\ Overwrite(rows, pos, new) \in Seq(Content)
         /\ Len(Overwrite(rows, pos, new)) = Len(rows)
         /\ \A i \in 1..Len(rows) :
              Overwrite(rows, pos, new)[i] =
                IF i \in (pos + 1)..(pos + Len(new)) THEN new[i - pos] ELSE rows[i]
<1> DEFINE d == Overwrite(rows, pos, new)
<1>1. Len(rows) \in Nat /\ Len(new) \in Nat
  OBVIOUS
<1>2. d = [i \in 1..Len(rows) |-> IF i \in (pos + 1)..(pos + Len(new)) THEN new[i - pos] ELSE rows[i]]
  BY DEF Overwrite
<1>3. \A i \in (pos + 1)..(pos + Len(new)) : new[i - pos] \in Content
  BY <1>1
<1>4. \A i \in 1..Len(rows) : rows[i] \in Content
  OBVIOUS
<1>5. d \in [1..Len(rows) -> Content]
  BY <1>2, <1>3, <1>4
<1> HIDE DEF d
<1>6. d \in Seq(Content) /\ Len(d) = Len(rows)
  BY <1>1, <1>5
<1> QED BY <1>2, <1>6 DEF d

\* sync_f16_range makes a copy of what shared its rows up to the dirty start.
LEMMA SyncCopies ==
  ASSUME NEW c, WellFormed(c), NEW source \in Seq(Content), NEW dirty \in Nat,
         NEW target \in Nat, target <= c.capacity, target <= Len(source),
         Shares(c, source, dirty)
  PROVE  LET d == SyncRange(c, source, dirty, target)
         IN  /\ WellFormed(d) /\ d.capacity = c.capacity /\ d.filled = target
             /\ IsCopy(d, source, target)
<1> DEFINE start == Lesser(Lesser(dirty, c.filled), target)
           new == [i \in 1..Len(c.rows) |-> CASE i > target -> Zero
                                              [] i > start /\ i <= target -> source[i]
                                              [] OTHER -> c.rows[i]]
           d == SyncRange(c, source, dirty, target)
<1>1. c.capacity \in Nat /\ c.filled \in Nat /\ c.rows \in Seq(Content) /\ Len(c.rows) = c.capacity
  BY DEF WellFormed, Resident
<1>2. start \in Nat /\ start <= dirty /\ start <= c.filled /\ start <= target
  BY <1>1 DEF Lesser
<1>3. d = [c EXCEPT !.filled = target, !.rows = new]
  BY DEF SyncRange
<1> HIDE DEF start, d
<1>4. ASSUME NEW i \in 1..c.capacity
      PROVE  /\ i > target => new[i] = Zero
             /\ i <= target => new[i] = source[i]
             /\ new[i] \in Content
  <2>1. i \in Nat /\ i >= 1 /\ i \in 1..Len(c.rows)
    BY <1>1
  <2>2. CASE i > target
    BY <1>1, <2>1, <2>2 DEF Content
  <2>3. CASE i > start /\ i <= target
    <3>1. source[i] \in Content
      BY <2>1, <2>3
    <3> QED BY <1>1, <2>1, <2>3, <3>1
  <2>4. CASE i <= start
    <3>1. ~(i > target) /\ ~(i > start /\ i <= target)
      BY <1>2, <2>1, <2>4
    <3>2. new[i] = c.rows[i]
      BY <2>1, <3>1
    <3>3. c.rows[i] = source[i]
      <4>1. i \in 1..dirty /\ i <= c.filled
        BY <1>1, <1>2, <2>1, <2>4
      <4> QED BY <4>1 DEF Shares
    <3>4. c.rows[i] \in Content
      BY <1>1, <2>1
    <3> QED BY <3>1, <3>2, <3>3, <3>4
  <2> QED BY <1>2, <2>1, <2>2, <2>3, <2>4
<1>5. new \in [1..c.capacity -> Content]
  BY <1>1, <1>4
<1> HIDE DEF new
<1>6. new \in Seq(Content) /\ Len(new) = c.capacity
  BY <1>1, <1>5
<1>7. /\ d \in Resident /\ d.capacity = c.capacity /\ d.filled = target /\ d.rows = new
  <2>1. c \in Resident
    BY DEF WellFormed
  <2> QED BY <1>3, <1>6, <2>1 DEF Resident
<1>8. WellFormed(d)
  BY <1>6, <1>7 DEF WellFormed
<1>9. \A i \in 1..target : d.rows[i] = source[i]
  BY <1>1, <1>4, <1>7
<1>10. \A i \in (target + 1)..d.capacity : d.rows[i] = Zero
  BY <1>1, <1>4, <1>7
<1> QED BY <1>7, <1>8, <1>9, <1>10 DEF IsCopy, d

\* The resident a window works on is large enough, and shares what the one it
\* replaces shared.
LEMMA EntryFits ==
  ASSUME NEW n \in Nat \ {0}, WellFormed(copy), NEW source, NEW k \in Nat,
         copy.capacity > 0 => Shares(copy, source, k)
  PROVE  /\ WellFormed(Entry(n)) /\ n <= Entry(n).capacity
         /\ Shares(Entry(n), source, k)
         /\ Recreates(n) => Entry(n).filled = 0
<1> DEFINE fresh == [capacity |-> Capacity(n), filled |-> 0, rows |-> ZeroRows(Capacity(n))]
<1>1. Capacity(n) \in Nat /\ Capacity(n) >= n
  BY CapacityHolds
<1>2. copy.capacity \in Nat
  BY DEF WellFormed, Resident
<1>3. CASE Recreates(n)
  <2>1. Entry(n) = fresh
    BY <1>3 DEF Entry
  <2>2. ZeroRows(Capacity(n)) \in Seq(Content) /\ Len(ZeroRows(Capacity(n))) = Capacity(n)
    BY <1>1 DEF ZeroRows, Content
  <2>3. WellFormed(fresh)
    BY <1>1, <2>2 DEF WellFormed, Resident
  <2>4. Shares(fresh, source, k)
    BY DEF Shares
  <2> QED BY <1>1, <2>1, <2>3, <2>4
<1>4. CASE ~Recreates(n)
  <2>1. Entry(n) = copy
    BY <1>4 DEF Entry
  <2>2. copy.capacity >= Capacity(n)
    BY <1>1, <1>2, <1>4 DEF Recreates
  <2>3. copy.capacity > 0
    BY <1>1, <1>2, <2>2
  <2> QED BY <1>1, <1>2, <1>4, <2>1, <2>2, <2>3
<1> QED BY <1>3, <1>4

-----------------------------------------------------------------------------
(* The loop. *)

\* The sizes that go through a resident.
LEMMA SizeRange == \A n \in Nat : IsResidentSize(n) <=> 2 <= n /\ n <= 3
BY DEF IsResidentSize

\* Which windows have the size of a resident's.
LEMMA WindowSize ==
  ASSUME Types, remaining >= 1, Len(window) - 1 \in DraftCounts
  PROVE  /\ Len(window) >= 2
         /\ IsResidentSize(Len(window)) <=> specK <= 2 \/ remaining <= 2
<1>1. Len(window) \in Nat /\ remaining \in Nat /\ specK \in Nat \ {0}
  BY DEF Types
<1>2. PICK k \in (IF specK = 2 THEN 1..2 ELSE {specK}) : Len(window) - 1 = Lesser(k, remaining)
  BY DEF DraftCounts
<1>3. k \in Nat /\ k >= 1 /\ k <= specK /\ (specK <= 2 \/ k = specK)
  BY <1>1, <1>2
<1>4. Len(window) >= 2 /\ ((Len(window) <= 3) <=> (specK <= 2 \/ remaining <= 2))
  BY <1>1, <1>2, <1>3 DEF Lesser
<1>5. IsResidentSize(Len(window)) <=> 2 <= Len(window) /\ Len(window) <= 3
  BY <1>1, SizeRange
<1>6. 2 <= Len(window)
  BY <1>1, <1>4
<1> QED BY <1>4, <1>5, <1>6, Zenon

\* The first state.
LEMMA InitSound == Init => IInv
<1> SUFFICES ASSUME Init PROVE IInv
  OBVIOUS
<1>1. MaxRows - PromptRows \in Nat /\ PromptRows \in Nat /\ MaxRows \in Nat
  BY RowsAssumption
<1>2. PICK prompt \in Prompts, stale \in Content :
        host = prompt \o [i \in 1..(MaxRows - PromptRows) |-> stale]
  BY DEF Init, Content
<1> DEFINE rest == [i \in 1..(MaxRows - PromptRows) |-> stale]
<1>3. prompt \in Seq(Content) /\ Len(prompt) = PromptRows
  BY <1>1 DEF Prompts, Content
<1>4. rest \in Seq(Content) /\ Len(rest) = MaxRows - PromptRows
  BY <1>1
<1>5. host = prompt \o rest
  BY <1>2
<1> HIDE DEF rest
<1>6. host \in Seq(Content) /\ Len(host) = MaxRows
  BY <1>1, <1>3, <1>4, <1>5
<1>7. WellFormed(copy) /\ copy.capacity = 0
  BY DEF Init, NoCopy, WellFormed, Resident
<1>8. len \in Nat /\ remaining \in Nat /\ remaining >= 1 /\ specK \in Nat \ {0} /\ window \in Seq(Tokens)
  BY <1>1, SpecKsAssumption DEF Init
<1>9. pc = "draft"
  BY DEF Init
<1> QED BY <1>6, <1>7, <1>8, <1>9 DEF IInv, Types, Windows, NeverMissed, Agrees, InWindow

\* A state without a copy, at any place outside a window, is sound.
LEMMA WithoutCopyNext ==
  ASSUME copy' = NoCopy, ~InWindow', (pc = "draft")' => (remaining >= 1)',
         host' \in Seq(Content), Len(host') = MaxRows,
         len' \in Nat, remaining' \in Nat, specK' \in Nat \ {0}, window' = <<>>
  PROVE  IInv'
<1>1. WellFormed(copy') /\ copy'.capacity = 0
  BY DEF NoCopy, WellFormed, Resident
<1>2. window' \in Seq(Tokens)
  OBVIOUS
<1>3. Types'
  BY <1>1, <1>2 DEF Types, WellFormed
<1>4. Windows' /\ NeverMissed' /\ Agrees'
  BY <1>1 DEF Windows, NeverMissed, Agrees, InWindow
<1> QED BY <1>3, <1>4 DEF IInv

\* Draft
LEMMA DraftSound == ASSUME IInv, Draft PROVE IInv'
<1>1. PICK n \in DraftCounts : \E seq \in [1..(n + 1) -> Tokens] :
        len + n + 1 <= MaxRows /\ window' = seq
  BY DEF Draft
<1>2. n \in Nat
  <2>1. PICK k \in (IF specK = 2 THEN 1..2 ELSE {specK}) : n = Lesser(k, remaining)
    BY DEF DraftCounts
  <2> QED BY <2>1 DEF IInv, Types, Lesser
<1>3. window' \in Seq(Tokens) /\ Len(window') = n + 1 /\ len + (n + 1) <= MaxRows
  <2>1. PICK seq \in [1..(n + 1) -> Tokens] : len + n + 1 <= MaxRows /\ window' = seq
    BY <1>1
  <2>2. len \in Nat
    BY DEF IInv, Types
  <2> QED BY <1>2, <2>1, <2>2
<1>4. /\ pc = "draft" /\ pc' = "owner" /\ UNCHANGED <<specK, host, len, copy, remaining>>
  BY DEF Draft
<1>5. Types'
  BY <1>3, <1>4 DEF IInv, Types, WellFormed
<1>6. Len(window') - 1 = n
  BY <1>2, <1>3
<1>7. DraftCounts' = DraftCounts
  BY <1>4 DEF DraftCounts
<1>8. Windows'
  BY <1>1, <1>3, <1>4, <1>6, <1>7 DEF IInv, Windows, InWindow
<1>9. NeverMissed' /\ Agrees'
  BY <1>4 DEF IInv, NeverMissed, Agrees, Shares
<1> QED BY <1>5, <1>8, <1>9 DEF IInv

\* A step inside a window, once what it did to host and copy is known.
LEMMA WindowStep ==
  ASSUME IInv, InWindow, pc' \in {"sharer", "verdict"},
         UNCHANGED <<specK, len, remaining, window>>,
         host' \in Seq(Content), Len(host') = MaxRows, WellFormed(copy'),
         IsResidentSize(Len(window)) => copy'.capacity > 0 /\ IsCopy(copy', host', KvLen),
         ~IsResidentSize(Len(window)) => copy' = copy
  PROVE  IInv'
<1>1. Types'
  BY DEF IInv, Types, WellFormed
<1>2. DraftCounts' = DraftCounts
  BY DEF DraftCounts
<1>3. Windows'
  BY <1>2 DEF IInv, Windows, InWindow
<1>4. remaining >= 1 /\ Len(window) - 1 \in DraftCounts /\ Types
  BY DEF IInv, Windows, InWindow
<1>5. NeverMissed'
  <2>1. CASE IsResidentSize(Len(window))
    BY <1>4, <2>1, WindowSize DEF NeverMissed
  <2>2. CASE ~IsResidentSize(Len(window))
    BY <2>2 DEF IInv, NeverMissed
  <2> QED BY <2>1, <2>2
<1>6. KvLen' = KvLen
  BY DEF KvLen
<1>7. Agrees'
  BY <1>6 DEF Agrees, IsCopy, IsResidentSize
<1> QED BY <1>1, <1>3, <1>5, <1>7 DEF IInv

\* What is known of a window and the rows it is written over.
LEMMA InsideWindow ==
  ASSUME IInv, InWindow
  PROVE  /\ host \in Seq(Content) /\ Len(host) = MaxRows /\ len \in Nat /\ MaxRows \in Nat
         /\ window \in Seq(Content) /\ Len(window) \in Nat /\ Len(window) >= 2
         /\ KvLen \in Nat \ {0} /\ KvLen <= MaxRows /\ KvLen = len + Len(window)
         /\ WellFormed(copy)
<1>1. Types /\ remaining >= 1 /\ Len(window) - 1 \in DraftCounts /\ len + Len(window) <= MaxRows
  BY DEF IInv, Windows, InWindow
<1>2. Len(window) >= 2
  BY <1>1, WindowSize
<1>3. window \in Seq(Content) /\ Len(window) \in Nat
  <2>1. window \in Seq(Tokens) /\ Tokens \subseteq Content
    BY <1>1 DEF Types, Content
  <2> QED BY <2>1
<1>4. len \in Nat
  BY <1>1 DEF Types
<1>5. KvLen \in Nat \ {0} /\ KvLen <= MaxRows /\ KvLen = len + Len(window)
  BY <1>1, <1>2, <1>3, <1>4 DEF KvLen
<1> QED BY <1>1, <1>2, <1>3, <1>4, <1>5, RowsAssumption DEF Types

\* OwnerCopies
LEMMA OwnerCopiesSound == ASSUME IInv, OwnerCopies PROVE IInv'
<1> DEFINE new == Overwrite(host, len, window)
           d == SyncRange(Entry(KvLen), new, len, KvLen)
<1>1. /\ pc = "owner" /\ InWindow /\ pc' = "sharer" /\ host' = new
      /\ UNCHANGED <<specK, len, remaining, window>>
      /\ IsResidentSize(Len(window)) => copy' = d
      /\ ~IsResidentSize(Len(window)) => copy' = copy
  BY DEF OwnerCopies, InWindow
<1> HIDE DEF d
<1>2. /\ host \in Seq(Content) /\ Len(host) = MaxRows /\ len \in Nat /\ MaxRows \in Nat
      /\ window \in Seq(Content) /\ Len(window) \in Nat
      /\ KvLen \in Nat \ {0} /\ KvLen <= MaxRows /\ KvLen = len + Len(window)
      /\ WellFormed(copy)
  BY <1>1, InsideWindow
<1>3. /\ new \in Seq(Content) /\ Len(new) = MaxRows
      /\ \A i \in 1..MaxRows :
           new[i] = IF i \in (len + 1)..(len + Len(window)) THEN window[i - len] ELSE host[i]
  BY <1>2, OverwriteRows
<1> HIDE DEF new
<1>4. \A i \in 1..len : new[i] = host[i]
  <2>1. \A i \in 1..len : i \in 1..MaxRows /\ ~(i \in (len + 1)..(len + Len(window)))
    BY <1>2
  <2> QED BY <1>3, <2>1
<1>5. copy.capacity > 0 => Shares(copy, new, len)
  BY <1>1, <1>4 DEF IInv, Agrees, Shares
<1>6. WellFormed(Entry(KvLen)) /\ KvLen <= Entry(KvLen).capacity /\ Shares(Entry(KvLen), new, len)
  BY <1>2, <1>5, EntryFits
<1>7. WellFormed(d) /\ d.capacity = Entry(KvLen).capacity /\ IsCopy(d, new, KvLen)
  BY <1>2, <1>3, <1>6, SyncCopies DEF d
<1>8. d.capacity > 0
  <2>1. d.capacity \in Nat /\ KvLen <= d.capacity
    BY <1>6, <1>7 DEF WellFormed, Resident
  <2> QED BY <1>2, <2>1
<1>9. WellFormed(copy')
  BY <1>1, <1>2, <1>7
<1> QED BY <1>1, <1>3, <1>7, <1>8, <1>9, WindowStep

\* OwnerFused
LEMMA OwnerFusedSound == ASSUME IInv, OwnerFused PROVE IInv'
<1> DEFINE new == Overwrite(host, len, window)
           dirty == IF Recreates(KvLen) THEN 0 ELSE len
           synced == SyncRange(Entry(KvLen), host, dirty, len)
           rows == Overwrite(synced.rows, len, window)
           d == [synced EXCEPT !.rows = rows, !.filled = KvLen]
<1>1. /\ pc = "owner" /\ InWindow /\ pc' = "sharer" /\ host' = new /\ copy' = d
      /\ UNCHANGED <<specK, len, remaining, window>>
      /\ IsResidentSize(Len(window))
  BY DEF OwnerFused, InWindow
<1>2. /\ host \in Seq(Content) /\ Len(host) = MaxRows /\ len \in Nat /\ MaxRows \in Nat
      /\ window \in Seq(Content) /\ Len(window) \in Nat
      /\ KvLen \in Nat \ {0} /\ KvLen <= MaxRows /\ KvLen = len + Len(window)
      /\ WellFormed(copy)
  BY <1>1, InsideWindow
<1>3. /\ new \in Seq(Content) /\ Len(new) = MaxRows
      /\ \A i \in 1..MaxRows :
           new[i] = IF i \in (len + 1)..(len + Len(window)) THEN window[i - len] ELSE host[i]
  BY <1>2, OverwriteRows
<1> HIDE DEF new
<1>4. copy.capacity > 0 => Shares(copy, host, len)
  BY <1>1 DEF IInv, Agrees
<1>5. /\ WellFormed(Entry(KvLen)) /\ KvLen <= Entry(KvLen).capacity
      /\ Shares(Entry(KvLen), host, len)
  BY <1>2, <1>4, EntryFits
<1>6. Entry(KvLen).capacity \in Nat
  BY <1>5 DEF WellFormed, Resident
<1>7. dirty \in Nat /\ Shares(Entry(KvLen), host, dirty)
  <2>1. CASE Recreates(KvLen)
    BY <2>1 DEF Shares
  <2>2. CASE ~Recreates(KvLen)
    BY <1>2, <1>5, <2>2
  <2> QED BY <2>1, <2>2
<1> HIDE DEF dirty
<1>8. /\ WellFormed(synced) /\ synced.capacity = Entry(KvLen).capacity
      /\ IsCopy(synced, host, len)
  <2>1. len <= Entry(KvLen).capacity /\ len <= Len(host)
    BY <1>2, <1>5, <1>6
  <2> QED BY <1>2, <1>5, <1>7, <2>1, SyncCopies
<1> HIDE DEF synced
<1>9. synced \in Resident /\ synced.rows \in Seq(Content) /\ Len(synced.rows) = synced.capacity
        /\ synced.capacity \in Nat /\ KvLen <= synced.capacity
  BY <1>5, <1>8 DEF WellFormed, Resident
<1>10. /\ rows \in Seq(Content) /\ Len(rows) = synced.capacity
       /\ \A i \in 1..synced.capacity :
            rows[i] = IF i \in (len + 1)..(len + Len(window)) THEN window[i - len] ELSE synced.rows[i]
  BY <1>2, <1>9, OverwriteRows
<1> HIDE DEF rows
<1>11. d \in Resident /\ d.capacity = synced.capacity /\ d.rows = rows
  BY <1>2, <1>9, <1>10 DEF Resident
<1> HIDE DEF d
<1>12. WellFormed(d) /\ d.capacity > 0
  BY <1>2, <1>9, <1>10, <1>11 DEF WellFormed
<1>13. ASSUME NEW i \in 1..KvLen PROVE rows[i] = new[i]
  <2>1. i \in 1..MaxRows /\ i \in 1..synced.capacity
    BY <1>2, <1>9
  <2>2. CASE i \in (len + 1)..(len + Len(window))
    BY <1>3, <1>10, <2>1, <2>2
  <2>3. CASE ~(i \in (len + 1)..(len + Len(window)))
    <3>1. i \in 1..len
      BY <1>2, <2>3
    <3>2. synced.rows[i] = host[i]
      BY <1>8, <3>1 DEF IsCopy
    <3> QED BY <1>3, <1>10, <2>1, <2>3, <3>2
  <2> QED BY <2>2, <2>3
<1>14. ASSUME NEW i \in (KvLen + 1)..synced.capacity PROVE rows[i] = Zero
  <2>1. i \in 1..synced.capacity /\ ~(i \in (len + 1)..(len + Len(window)))
          /\ i \in (len + 1)..synced.capacity
    BY <1>2, <1>9
  <2>2. synced.rows[i] = Zero
    BY <1>8, <2>1 DEF IsCopy
  <2> QED BY <1>10, <2>1, <2>2
<1>15. IsCopy(d, new, KvLen)
  BY <1>9, <1>11, <1>13, <1>14 DEF IsCopy
<1> QED BY <1>1, <1>3, <1>12, <1>15, WindowStep

\* SharerReads
LEMMA SharerSound == ASSUME IInv, SharerReads PROVE IInv'
<1> DEFINE d == SyncRange(Entry(KvLen), host, KvLen, KvLen)
<1>1. /\ pc = "sharer" /\ InWindow /\ pc' = "verdict"
      /\ UNCHANGED <<specK, host, len, remaining, window>>
      /\ IsResidentSize(Len(window)) => copy' = d
      /\ ~IsResidentSize(Len(window)) => copy' = copy
  BY DEF SharerReads, InWindow
<1> HIDE DEF d
<1>2. /\ host \in Seq(Content) /\ Len(host) = MaxRows /\ MaxRows \in Nat
      /\ KvLen \in Nat \ {0} /\ KvLen <= MaxRows /\ WellFormed(copy)
  BY <1>1, InsideWindow
<1>3. CASE IsResidentSize(Len(window))
  <2>1. Shares(copy, host, KvLen)
    BY <1>1, <1>3 DEF IInv, Agrees, IsCopy, Shares
  <2>2. WellFormed(Entry(KvLen)) /\ KvLen <= Entry(KvLen).capacity /\ Shares(Entry(KvLen), host, KvLen)
    BY <1>2, <2>1, EntryFits
  <2>3. WellFormed(d) /\ d.capacity = Entry(KvLen).capacity /\ IsCopy(d, host, KvLen)
    BY <1>2, <2>2, SyncCopies DEF d
  <2>4. d.capacity > 0
    <3>1. d.capacity \in Nat /\ KvLen <= d.capacity
      BY <2>2, <2>3 DEF WellFormed, Resident
    <3> QED BY <1>2, <3>1
  <2> QED BY <1>1, <1>2, <1>3, <2>3, <2>4, WindowStep
<1>4. CASE ~IsResidentSize(Len(window))
  BY <1>1, <1>2, <1>4, WindowStep
<1> QED BY <1>3, <1>4

\* Commit
LEMMA CommitSound == ASSUME IInv, Commit PROVE IInv'
<1>1. PICK accepted \in 0..(Len(window) - 1) : \E emitted \in 0..accepted : \E stops \in BOOLEAN :
        LET full == emitted + (IF emitted = accepted /\ ~stops THEN 1 ELSE 0)
            ending == stops \/ full >= remaining
        IN  /\ len' = len + CommittedTokens(accepted, emitted, ending)
            /\ remaining' = remaining - Lesser(full, remaining)
            /\ pc' = IF ending THEN "done" ELSE "draft"
  BY DEF Commit
<1>2. PICK emitted \in 0..accepted, stops \in BOOLEAN :
        LET full == emitted + (IF emitted = accepted /\ ~stops THEN 1 ELSE 0)
            ending == stops \/ full >= remaining
        IN  /\ len' = len + CommittedTokens(accepted, emitted, ending)
            /\ remaining' = remaining - Lesser(full, remaining)
            /\ pc' = IF ending THEN "done" ELSE "draft"
  BY <1>1
<1> DEFINE full == emitted + (IF emitted = accepted /\ ~stops THEN 1 ELSE 0)
           ending == stops \/ full >= remaining
<1>3. /\ pc = "verdict" /\ InWindow /\ window' = <<>> /\ UNCHANGED <<specK, host, copy>>
  BY DEF Commit, InWindow
<1>4. /\ len \in Nat /\ Len(window) \in Nat /\ Len(window) >= 2 /\ KvLen = len + Len(window)
      /\ remaining \in Nat /\ Types
  BY <1>3, InsideWindow DEF IInv, Types
<1>5. full \in Nat /\ emitted \in Nat /\ accepted \in Nat /\ accepted <= Len(window) - 1 /\ emitted <= accepted
  BY <1>4
<1>6. /\ len' = len + CommittedTokens(accepted, emitted, ending)
      /\ remaining' = remaining - Lesser(full, remaining)
      /\ pc' = IF ending THEN "done" ELSE "draft"
  BY <1>2
<1> HIDE DEF full
<1>7. len' \in Nat /\ len' <= KvLen
  <2>1. /\ CommittedTokens(accepted, emitted, ending) \in Nat
        /\ CommittedTokens(accepted, emitted, ending) <= Len(window)
    BY <1>4, <1>5 DEF CommittedTokens
  <2> HIDE DEF ending
  <2> QED BY <1>4, <1>6, <2>1
<1>8. remaining' \in Nat /\ remaining' <= remaining /\ (~(full >= remaining) => remaining' >= 1)
  BY <1>4, <1>5, <1>6 DEF Lesser
<1>9. pc' \in {"done", "draft"} /\ (pc' = "draft" => remaining' >= 1)
  BY <1>6, <1>8
<1>10. Types'
  <2>1. window' \in Seq(Tokens)
    BY <1>3
  <2> QED BY <1>3, <1>4, <1>7, <1>8, <2>1 DEF Types, WellFormed
<1>11. Windows'
  BY <1>9 DEF Windows, InWindow
<1>12. NeverMissed'
  BY <1>3, <1>4, <1>8 DEF IInv, NeverMissed
<1>13. ASSUME copy.capacity > 0 PROVE Shares(copy, host, len')
  <2>1. remaining >= 1 /\ Len(window) - 1 \in DraftCounts
    BY <1>3 DEF IInv, Windows
  <2>2. specK <= 2 \/ remaining <= 2
    BY <1>13 DEF IInv, NeverMissed
  <2>3. IsResidentSize(Len(window))
    BY <1>4, <2>1, <2>2, WindowSize
  <2>4. \A i \in 1..KvLen : copy.rows[i] = host[i]
    BY <1>3, <2>3 DEF IInv, Agrees, IsCopy
  <2>5. \A i \in 1..len' : i \in 1..KvLen
    BY <1>4, <1>7
  <2> QED BY <2>4, <2>5 DEF Shares
<1>14. Agrees'
  BY <1>3, <1>9, <1>13 DEF Agrees, Shares
<1> QED BY <1>10, <1>11, <1>12, <1>14 DEF IInv

\* Every step.
LEMMA NextSound == IInv /\ [Next]_vars => IInv'
<1> SUFFICES ASSUME IInv, [Next]_vars PROVE IInv'
  OBVIOUS
<1>1. CASE Fail
  <2>1. (copy = NoCopy)' /\ ~InWindow' /\ (window = <<>>)' /\ (pc = "draft" => remaining >= 1)'
    BY <1>1 DEF Fail, InWindow, NoCopy
  <2>2. Types /\ UNCHANGED <<specK, host, len, remaining>>
    BY <1>1 DEF Fail, IInv
  <2> QED BY <2>1, <2>2, WithoutCopyNext DEF Types
<1>2. CASE NextRequest
  <2>1. PICK prompt \in Prompts : host' = Overwrite(host, 0, prompt)
    BY <1>2 DEF NextRequest
  <2>2. prompt \in Seq(Content)
    BY RowsAssumption DEF Prompts, Content
  <2>3. host' \in Seq(Content) /\ Len(host') = MaxRows
    BY <2>1, <2>2, OverwriteRows DEF IInv, Types
  <2>4. /\ copy' = NoCopy /\ window' = <<>> /\ ~InWindow'
        /\ len' \in Nat /\ remaining' \in Nat /\ remaining' >= 1 /\ specK' \in Nat \ {0}
    BY <1>2, RowsAssumption, SpecKsAssumption DEF NextRequest, InWindow
  <2> QED BY <2>3, <2>4, WithoutCopyNext
<1>3. CASE UNCHANGED vars
  BY <1>3 DEF vars, IInv, Types, Windows, NeverMissed, Agrees, InWindow, KvLen, DraftCounts,
              WellFormed, Shares, IsCopy, IsResidentSize
<1> QED BY <1>1, <1>2, <1>3, DraftSound, OwnerCopiesSound, OwnerFusedSound, SharerSound,
           CommitSound DEF Next

\* Whenever attention has read the copy, it has read the host's rows and zeros:
\* for every tile, budget, number of drafts and sequence of windows.
THEOREM CopyIsHost == Spec => []AttendsToHostRows
<1>1. IInv => AttendsToHostRows
  BY DEF IInv, Agrees, IsCopy, AttendsToHostRows
<1> QED BY <1>1, InitSound, NextSound, PTL DEF Spec

-----------------------------------------------------------------------------
(* The bounds of lengths and tiles. *)

\* Capacities are whole tiles.
LEMMA CapacityWhole == ASSUME NEW n \in Nat PROVE Capacity(n) % Tile = 0
<1> DEFINE q == (n + Tile - 1) \div Tile
           a == q * Tile
           p == a \div Tile
           r == a % Tile
<1>1. Tile \in Nat \ {0} /\ q \in Int
  BY TileAssumption
<1>2. Capacity(n) = a
  BY DEF Capacity
<1> HIDE DEF q
<1>3. a \in Int
  BY <1>1
<1>4. p \in Int /\ r \in Int /\ 0 <= r /\ r < Tile
  <2> HIDE DEF a
  <2> QED BY <1>1, <1>3
<1>5. a = p * Tile + r
  <2> HIDE DEF a
  <2> QED BY <1>1, <1>3, Z3
<1> HIDE DEF p, r
<1>6. ~(q > p)
  <2> SUFFICES ASSUME q >= p + 1 PROVE FALSE
    BY <1>1, <1>4
  <2>1. q * Tile >= (p + 1) * Tile /\ (p + 1) * Tile = p * Tile + Tile
    BY <1>1, <1>4
  <2> QED BY <1>1, <1>4, <1>5, <2>1
<1>7. ~(q < p)
  <2> SUFFICES ASSUME p >= q + 1 PROVE FALSE
    BY <1>1, <1>4
  <2>1. p * Tile >= (q + 1) * Tile /\ (q + 1) * Tile = q * Tile + Tile
    BY <1>1, <1>4
  <2> QED BY <1>1, <1>4, <1>5, <2>1
<1>8. q = p
  BY <1>1, <1>4, <1>6, <1>7
<1>9. r = 0
  BY <1>1, <1>4, <1>5, <1>8
<1> QED BY <1>2, <1>9 DEF r

\* A copy has whole tiles and is never filled past them.
Whole(c) == c.capacity % Tile = 0 /\ c.filled <= c.capacity

Places == {"draft", "owner", "sharer", "verdict", "done"}

Bounds == len <= MaxRows /\ remaining <= MaxRows /\ Whole(copy) /\ pc \in Places

LEMMA NoCopyWhole == Whole(NoCopy)
<1>1. Tile \in Nat \ {0}
  BY TileAssumption
<1>2. 0 % Tile = 0
  BY <1>1
<1> QED BY <1>2 DEF Whole, NoCopy

\* What a window leaves is a synced resident, or the copy it found.
LEMMA SyncedWhole ==
  ASSUME IInv, InWindow, Whole(copy), NEW source, NEW dirty, NEW target \in Nat, target <= KvLen
  PROVE  LET d == SyncRange(Entry(KvLen), source, dirty, target)
         IN  /\ DOMAIN d = {"capacity", "filled", "rows"} /\ d.capacity \in Nat
             /\ d.capacity % Tile = 0 /\ KvLen <= d.capacity /\ d.filled = target
<1> DEFINE e == Entry(KvLen)
           d == SyncRange(e, source, dirty, target)
<1>1. KvLen \in Nat \ {0} /\ WellFormed(copy)
  BY InsideWindow
<1>2. WellFormed(e) /\ KvLen <= e.capacity
  <2>1. Shares(copy, copy.rows, 0)
    BY DEF Shares
  <2> QED BY <1>1, <2>1, EntryFits
<1>3. e.capacity % Tile = 0
  <2>1. CASE Recreates(KvLen)
    <3>1. e.capacity = Capacity(KvLen)
      BY <2>1 DEF Entry
    <3> QED BY <1>1, <3>1, CapacityWhole
  <2>2. CASE ~Recreates(KvLen)
    <3>1. e = copy
      BY <2>2 DEF Entry
    <3> QED BY <3>1 DEF Whole
  <2> QED BY <2>1, <2>2
<1> HIDE DEF e
<1>4. DOMAIN e = {"capacity", "filled", "rows"} /\ e.capacity \in Nat
  BY <1>2 DEF WellFormed, Resident
<1>5. DOMAIN d = DOMAIN e /\ d.capacity = e.capacity /\ d.filled = target
  BY <1>4 DEF SyncRange
<1> QED BY <1>2, <1>3, <1>4, <1>5 DEF e

LEMMA OwnerCopiesBounds == ASSUME IInv, Bounds, OwnerCopies PROVE Bounds'
<1> DEFINE d == SyncRange(Entry(KvLen), host', len, KvLen)
<1>1. /\ InWindow /\ pc' = "sharer" /\ len' = len /\ remaining' = remaining
      /\ copy' = copy \/ copy' = d
  BY DEF OwnerCopies, InWindow
<1>2. KvLen \in Nat
  BY <1>1, InsideWindow
<1>3. /\ d.capacity \in Nat /\ d.capacity % Tile = 0 /\ KvLen <= d.capacity /\ d.filled = KvLen
  BY <1>1, <1>2, SyncedWhole DEF Bounds
<1> HIDE DEF d
<1>4. Whole(copy')
  BY <1>1, <1>3 DEF Whole, Bounds
<1> QED BY <1>1, <1>4 DEF Bounds, Whole, Places

LEMMA OwnerFusedBounds == ASSUME IInv, Bounds, OwnerFused PROVE Bounds'
<1> DEFINE synced == SyncRange(Entry(KvLen), host, IF Recreates(KvLen) THEN 0 ELSE len, len)
<1>1. /\ InWindow /\ pc' = "sharer" /\ len' = len /\ remaining' = remaining
      /\ copy' = [synced EXCEPT !.rows = Overwrite(@, len, window), !.filled = KvLen]
  BY DEF OwnerFused, InWindow
<1>2. KvLen \in Nat /\ len \in Nat /\ len <= KvLen
  BY <1>1, InsideWindow
<1>3. /\ DOMAIN synced = {"capacity", "filled", "rows"} /\ synced.capacity \in Nat
      /\ synced.capacity % Tile = 0 /\ KvLen <= synced.capacity
  BY <1>1, <1>2, SyncedWhole DEF Bounds
<1> HIDE DEF synced
<1>4. copy'.capacity = synced.capacity /\ copy'.filled = KvLen
  BY <1>1, <1>3
<1>5. Whole(copy')
  BY <1>3, <1>4 DEF Whole
<1> QED BY <1>1, <1>5 DEF Bounds, Whole, Places

LEMMA SharerBounds == ASSUME IInv, Bounds, SharerReads PROVE Bounds'
<1> DEFINE d == SyncRange(Entry(KvLen), host, KvLen, KvLen)
<1>1. /\ InWindow /\ pc' = "verdict" /\ len' = len /\ remaining' = remaining
      /\ copy' = copy \/ copy' = d
  BY DEF SharerReads, InWindow
<1>2. KvLen \in Nat
  BY <1>1, InsideWindow
<1>3. /\ d.capacity \in Nat /\ d.capacity % Tile = 0 /\ KvLen <= d.capacity /\ d.filled = KvLen
  BY <1>1, <1>2, SyncedWhole DEF Bounds
<1> HIDE DEF d
<1>4. Whole(copy')
  BY <1>1, <1>3 DEF Whole, Bounds
<1> QED BY <1>1, <1>4 DEF Bounds, Whole, Places

\* A window's commit never passes the rows it wrote.
LEMMA CommitBounds == ASSUME IInv, Bounds, Commit PROVE Bounds'
<1>1. PICK accepted \in 0..(Len(window) - 1) : \E emitted \in 0..accepted : \E stops \in BOOLEAN :
        LET full == emitted + (IF emitted = accepted /\ ~stops THEN 1 ELSE 0)
            ending == stops \/ full >= remaining
        IN  /\ len' = len + CommittedTokens(accepted, emitted, ending)
            /\ remaining' = remaining - Lesser(full, remaining)
            /\ pc' = IF ending THEN "done" ELSE "draft"
  BY DEF Commit
<1>2. PICK emitted \in 0..accepted, stops \in BOOLEAN :
        LET full == emitted + (IF emitted = accepted /\ ~stops THEN 1 ELSE 0)
            ending == stops \/ full >= remaining
        IN  /\ len' = len + CommittedTokens(accepted, emitted, ending)
            /\ remaining' = remaining - Lesser(full, remaining)
            /\ pc' = IF ending THEN "done" ELSE "draft"
  BY <1>1
<1> DEFINE full == emitted + (IF emitted = accepted /\ ~stops THEN 1 ELSE 0)
           ending == stops \/ full >= remaining
<1>3. InWindow /\ copy' = copy
  BY DEF Commit, InWindow
<1>4. /\ len \in Nat /\ Len(window) \in Nat /\ KvLen = len + Len(window)
      /\ KvLen <= MaxRows /\ MaxRows \in Nat /\ remaining \in Nat
  BY <1>3, InsideWindow DEF IInv, Types
<1>5. full \in Nat /\ emitted \in Nat /\ accepted \in Nat /\ accepted <= Len(window) - 1 /\ emitted <= accepted
  BY <1>4
<1>6. /\ len' = len + CommittedTokens(accepted, emitted, ending)
      /\ remaining' = remaining - Lesser(full, remaining)
      /\ pc' \in {"done", "draft"}
  BY <1>2
<1> HIDE DEF full
<1>7. len' <= MaxRows
  <2>1. /\ CommittedTokens(accepted, emitted, ending) \in Nat
        /\ CommittedTokens(accepted, emitted, ending) <= Len(window)
    BY <1>4, <1>5 DEF CommittedTokens
  <2> HIDE DEF ending
  <2> QED BY <1>4, <1>6, <2>1
<1>8. remaining' <= MaxRows
  BY <1>4, <1>5, <1>6 DEF Lesser, Bounds
<1> QED BY <1>3, <1>6, <1>7, <1>8 DEF Bounds, Whole, Places

LEMMA NextBounds == IInv /\ Bounds /\ [Next]_vars => Bounds'
<1> SUFFICES ASSUME IInv, Bounds, [Next]_vars PROVE Bounds'
  OBVIOUS
<1>1. CASE Draft
  BY <1>1 DEF Draft, Bounds, Whole, Places
<1>2. CASE Fail
  <2>1. copy' = NoCopy /\ pc' = "done" /\ len' = len /\ remaining' = remaining
    BY <1>2 DEF Fail
  <2> QED BY <2>1, NoCopyWhole DEF Bounds, Whole, Places
<1>3. CASE NextRequest
  <2>1. /\ copy' = NoCopy /\ pc' = "draft" /\ len' = PromptRows
        /\ remaining' \in 1..(MaxRows - PromptRows)
    BY <1>3 DEF NextRequest
  <2>2. len' <= MaxRows /\ remaining' <= MaxRows
    BY <2>1, RowsAssumption
  <2> QED BY <2>1, <2>2, NoCopyWhole DEF Bounds, Whole, Places
<1>4. CASE UNCHANGED vars
  BY <1>4 DEF vars, Bounds, Whole
<1> QED BY <1>1, <1>2, <1>3, <1>4, OwnerCopiesBounds, OwnerFusedBounds, SharerBounds,
           CommitBounds DEF Next

\* The types, and that a copy has whole tiles and is never filled past them,
\* for every tile and number of drafts.
THEOREM ResidentTypes == Spec => []TypeOK
<1>1. Init => Bounds
  <2> SUFFICES ASSUME Init PROVE Bounds
    OBVIOUS
  <2>1. /\ copy = NoCopy /\ pc = "draft" /\ len = PromptRows
        /\ remaining \in 1..(MaxRows - PromptRows)
    BY DEF Init
  <2>2. len <= MaxRows /\ remaining <= MaxRows
    BY <2>1, RowsAssumption
  <2> QED BY <2>1, <2>2, NoCopyWhole DEF Bounds, Whole, Places
<1>2. IInv /\ Bounds => TypeOK
  <2> SUFFICES ASSUME IInv, Bounds PROVE TypeOK
    OBVIOUS
  <2>1. /\ host \in Seq(Content) /\ Len(host) = MaxRows /\ MaxRows \in Nat
        /\ len \in Nat /\ remaining \in Nat /\ copy \in Resident /\ Len(copy.rows) = copy.capacity
    BY RowsAssumption DEF IInv, Types, WellFormed
  <2>2. copy.capacity \in Nat /\ copy.filled \in Nat /\ copy.rows \in Seq(Content)
    BY <2>1 DEF Resident
  <2>3. host \in [1..MaxRows -> Content] /\ copy.rows \in [1..copy.capacity -> Content]
    BY <2>1, <2>2
  <2>4. len \in 0..MaxRows /\ remaining \in 0..MaxRows /\ copy.filled \in 0..copy.capacity
    BY <2>1, <2>2 DEF Bounds, Whole
  <2> QED BY <2>2, <2>3, <2>4 DEF TypeOK, Bounds, Whole, Places, Content
<1> QED BY <1>1, <1>2, InitSound, NextSound, NextBounds, PTL DEF Spec
=============================================================================
