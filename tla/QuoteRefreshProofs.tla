------------------------ MODULE QuoteRefreshProofs ------------------------
(***************************************************************************)
(* Proofs about QuoteRefresh, for any workbooks, facts, manual rows and    *)
(* quantities, and any number of refreshes that overlap and die.           *)
(***************************************************************************)
EXTENDS QuoteRefresh, TLAPS, FiniteSetTheorems, WellFoundedInduction

-----------------------------------------------------------------------------
(* The least of some numbers, and the files' readers.                      *)

Less == {p \in Nat \X Nat : p[1] < p[2]}

\* The order of the numbers is well-founded.
LEMMA LessWF == IsWellFoundedOn(Less, Nat)
<1>1. OpToRel(<, Nat) = Less
  BY Zenon DEF OpToRel, Less
<1>. QED BY <1>1, NatLessThanWellFounded, Zenon

\* Some numbers have a least one.
LEMMA LeastNat ==
  ASSUME NEW T, T \subseteq Nat, T # {}
  PROVE  \E m \in T : \A n \in T : m <= n
<1>1. PICK m \in T : \A n \in T : ~ (<<n, m>> \in Less)
  BY LessWF, WFMin
<1>2. ASSUME NEW n \in T PROVE m <= n
  <2>1. m \in Nat /\ n \in Nat
    OBVIOUS
  <2>2. ~(n < m)
    BY <1>1, <2>1 DEF Less
  <2>. QED BY <2>1, <2>2
<1>. QED BY <1>2

\* The place that the readers' loop stops at.
LEMMA FirstPlace ==
  ASSUME NEW hits, hits \subseteq Nat, hits # {}
  PROVE  LET i == CHOOSE i \in hits : \A j \in hits : i <= j
         IN  i \in hits /\ \A j \in hits : i <= j
BY LeastNat

\* get_first_round_override returns the first row that covers the quantity.
LEMMA OverrideIsFirst ==
  ASSUME NEW rows, NEW qty \in Nat \ {0}, rows \in Seq(OverrideRows)
  PROVE  \/ /\ GetFirstRoundOverride(rows, qty) = NoOverride
            /\ \A i \in 1 .. Len(rows) : ~Covers(rows[i], qty)
         \/ \E i \in 1 .. Len(rows) :
              /\ GetFirstRoundOverride(rows, qty) = rows[i]
              /\ Covers(rows[i], qty)
              /\ \A j \in 1 .. Len(rows) : j < i => ~Covers(rows[j], qty)
<1>. DEFINE hits == {i \in DOMAIN rows : Covers(rows[i], qty)}
            i == CHOOSE i \in hits : \A j \in hits : i <= j
<1>1. GetFirstRoundOverride(rows, qty) = IF hits = {} THEN NoOverride ELSE rows[i]
  BY DEF GetFirstRoundOverride, FirstThat
<1>2. DOMAIN rows = 1 .. Len(rows) /\ Len(rows) \in Nat
  OBVIOUS
<1>3. hits \subseteq Nat
  BY <1>2
<1>4. CASE hits = {}
  BY <1>1, <1>2, <1>4
<1>5. CASE hits # {}
  <2>1. i \in hits /\ \A j \in hits : i <= j
    <3>. HIDE DEF hits
    <3>. QED BY <1>3, <1>5, LeastNat
  <2>. HIDE DEF i
  <2>. QED BY <1>1, <1>2, <1>5, <2>1
<1>. QED BY <1>4, <1>5

\* get_handoff_guardrail returns a row of the file, if one is about the quantity.
LEMMA GuardrailIsFirst ==
  ASSUME NEW rows, NEW qty \in Nat \ {0}, rows \in Seq(GuardrailRows)
  PROVE  \/ /\ GetHandoffGuardrail(rows, qty) = NoGuardrail
            /\ \A i \in 1 .. Len(rows) : rows[i].qty \notin {None, qty}
         \/ \E i \in 1 .. Len(rows) :
              GetHandoffGuardrail(rows, qty) = rows[i] /\ rows[i].qty \in {None, qty}
<1>. DEFINE hits == {i \in DOMAIN rows : rows[i].qty \in {None, qty}}
            i == CHOOSE i \in hits : \A j \in hits : i <= j
<1>1. GetHandoffGuardrail(rows, qty) = IF hits = {} THEN NoGuardrail ELSE rows[i]
  BY DEF GetHandoffGuardrail, FirstThat
<1>2. DOMAIN rows = 1 .. Len(rows) /\ Len(rows) \in Nat
  OBVIOUS
<1>3. hits \subseteq Nat
  BY <1>2
<1>4. CASE hits = {}
  BY <1>1, <1>2, <1>4
<1>5. CASE hits # {}
  <2>1. i \in hits
    <3>. HIDE DEF hits
    <3>. QED BY <1>3, <1>5, LeastNat
  <2>. HIDE DEF i
  <2>. QED BY <1>1, <1>2, <1>5, <2>1
<1>. QED BY <1>4, <1>5

-----------------------------------------------------------------------------
(* generate_rows.                                                          *)

\* The first n rows are the first n - 1 and one more.
LEMMA TakeOneMore ==
  ASSUME NEW rows \in Seq(OverrideRows), NEW n \in 1 .. Len(rows)
  PROVE  Append([i \in 1 .. (n - 1) |-> rows[i]], rows[n]) = [i \in 1 .. n |-> rows[i]]
<1>. DEFINE s == [i \in 1 .. (n - 1) |-> rows[i]]
            t == Append(s, rows[n])
            u == [i \in 1 .. n |-> rows[i]]
<1>1. s \in Seq(OverrideRows) /\ Len(s) = n - 1 /\ rows[n] \in OverrideRows
  OBVIOUS
<1>2. u \in Seq(OverrideRows) /\ Len(u) = n
  OBVIOUS
<1>3. t \in Seq(OverrideRows) /\ Len(t) = n
  BY <1>1
<1>4. ASSUME NEW i \in 1 .. n PROVE t[i] = u[i]
  BY <1>1
<1>. HIDE DEF t, u
<1>5. t = u
  BY <1>2, <1>3, <1>4
<1>. QED BY <1>5 DEF t, u

\* Of a file whose first m rows are manual and the rest generated, the first m
\* rows are kept.
LEMMA KeepsThePrefix ==
  ASSUME NEW rows, NEW m \in Nat, rows \in Seq(OverrideRows), m <= Len(rows),
         \A i \in 1 .. Len(rows) : rows[i].generated <=> i > m
  PROVE  KeepManual(rows) = [i \in 1 .. m |-> rows[i]]
<1>. DEFINE L == Len(rows)
            Good(g) == g = [n \in 0 .. L |-> IF n = 0 THEN <<>>
                                             ELSE IF rows[n].generated THEN g[n - 1]
                                             ELSE Append(g[n - 1], rows[n])]
            kept == CHOOSE g : Good(g)
            Take(n) == [i \in 1 .. n |-> rows[i]]
            front == [n \in 0 .. L |-> IF n <= m THEN Take(n) ELSE Take(m)]
<1>1. KeepManual(rows) = kept[L]
  BY DEF KeepManual
<1>2. L \in Nat
  OBVIOUS
<1>3. Take(0) = <<>>
  OBVIOUS
<1>4. ASSUME NEW n \in 1 .. L
      PROVE  front[n] = IF rows[n].generated THEN front[n - 1] ELSE Append(front[n - 1], rows[n])
  <2>1. n - 1 \in 0 .. L /\ n \in 0 .. L
    BY <1>2
  <2>2. CASE n <= m
    <3>1. front[n] = Take(n) /\ front[n - 1] = Take(n - 1)
      BY <2>1, <2>2
    <3>2. ~rows[n].generated
      BY <2>2
    <3>3. Append(Take(n - 1), rows[n]) = Take(n)
      BY TakeOneMore
    <3>. HIDE DEF front, Take
    <3>. QED BY <3>1, <3>2, <3>3
  <2>3. CASE n > m
    <3>1. front[n] = Take(m)
      BY <2>1, <2>3
    <3>2. front[n - 1] = Take(m)
      BY <2>1, <2>3
    <3>. QED BY <3>1, <3>2, <2>3
  <2>. QED BY <2>2, <2>3
<1>5. front[0] = <<>>
  BY <1>2, <1>3
<1>6. Good(front)
  <2>. HIDE DEF Take
  <2>1. front = [n \in 0 .. L |-> front[n]]
    OBVIOUS
  <2>. HIDE DEF front
  <2>2. ASSUME NEW n \in 0 .. L
        PROVE  front[n] = IF n = 0 THEN <<>>
                          ELSE IF rows[n].generated THEN front[n - 1]
                          ELSE Append(front[n - 1], rows[n])
    BY <1>2, <1>4, <1>5
  <2>. QED BY <2>1, <2>2
<1>7. Good(kept)
  <2>. HIDE DEF Good, front
  <2>. QED BY <1>6
<1>8. \A n \in 0 .. L : kept[n] = front[n]
  <2>. DEFINE bad == {n \in 0 .. L : kept[n] # front[n]}
  <2>1. SUFFICES ASSUME bad # {} PROVE FALSE
    OBVIOUS
  <2>2. PICK n \in bad : \A k \in bad : n <= k
    <3>1. bad \subseteq Nat
      BY <1>2
    <3>. HIDE DEF bad
    <3>. QED BY <2>1, <3>1, LeastNat
  <2>. HIDE DEF kept, front
  <2>3. n # 0
    BY <1>2, <1>5, <1>7
  <2>4. n \in 1 .. L /\ n - 1 \in 0 .. L /\ kept[n - 1] = front[n - 1]
    <3>1. n \in 1 .. L /\ n - 1 \in 0 .. L /\ n - 1 < n
      BY <1>2, <2>3
    <3>2. n - 1 \notin bad
      <4>. HIDE DEF bad
      <4>. QED BY <2>2, <3>1
    <3>. QED BY <3>1, <3>2
  <2>5. kept[n] = IF rows[n].generated THEN kept[n - 1] ELSE Append(kept[n - 1], rows[n])
    BY <1>7, <2>4, <2>3
  <2>. QED BY <1>4, <2>2, <2>4, <2>5
<1>9. front[L] = Take(m)
  BY <1>2
<1>. HIDE DEF front, kept
<1>10. kept[L] = front[L]
  BY <1>2, <1>8
<1>. QED BY <1>1, <1>9, <1>10

\* A finite set as a sequence: its elements and nothing else.
LEMMA SequenceOfSet ==
  ASSUME NEW S, IsFiniteSet(S)
  PROVE  SetToSeq(S) \in Seq(S) /\ ToSet(SetToSeq(S)) = S
<1>. DEFINE n == Cardinality(S)
            P(f) == f \in [1 .. n -> S] /\ IsInjective(f)
            f == SetToSeq(S)
<1>1. n \in Nat /\ ExistsBijection(1 .. n, S)
  BY FS_CardinalityType
<1>2. PICK g \in Bijection(1 .. n, S) : TRUE
  BY <1>1 DEF ExistsBijection
<1>3. P(g)
  BY <1>2 DEF Bijection, Injection, IsInjective
<1>4. f \in [1 .. n -> S] /\ IsInjective(f)
  <2>1. \E h \in [1 .. n -> S] : IsInjective(h)
    BY <1>3
  <2>. HIDE DEF n
  <2>. QED BY <2>1, Zenon DEF SetToSeq, n
<1>5. f \in Injection(1 .. n, S)
  BY <1>4 DEF Injection, IsInjective
<1>6. Cardinality(1 .. n) = n /\ IsFiniteSet(1 .. n)
  BY <1>1, FS_Interval
<1>. HIDE DEF n, f
<1>7. f \in Surjection(1 .. n, S)
  BY <1>5, <1>6, FS_Injection DEF n
<1>8. f \in Seq(S)
  BY <1>1, <1>4
<1>9. ToSet(f) = S
  BY <1>7, <1>4 DEF Surjection, ToSet
<1>. QED BY <1>8, <1>9 DEF f

\* The rows that a refresh adds to those it keeps.
Added(kept, book) ==
  {g \in {GeneratedRow(group) : group \in ErpGroups(book)} :
     \A row \in ToSet(kept) : ~SameKey(row, g)}

\* What stands for a group is one of its lines.
LEMMA GroupsAreLines ==
  ASSUME NEW book \in Seq(Lines)
  PROVE  /\ ErpGroups(book) \subseteq ToSet(book)
         /\ ToSet(book) \subseteq Lines
         /\ IsFiniteSet(ErpGroups(book))
<1>1. ErpGroups(book) \subseteq ToSet(book)
  BY DEF ErpGroups
<1>2. ToSet(book) \subseteq Lines
  BY DEF ToSet
<1>3. book \in Surjection(1 .. Len(book), ToSet(book))
  BY DEF Surjection, ToSet
<1>4. IsFiniteSet(1 .. Len(book))
  BY FS_Interval
<1>5. IsFiniteSet(ToSet(book))
  BY <1>3, <1>4, FS_Surjection
<1>6. IsFiniteSet(ErpGroups(book))
  BY <1>1, <1>5, FS_Subset
<1>. QED BY <1>1, <1>2, <1>6

\* A generated row is a row of the file.
LEMMA GeneratedIsRow ==
  ASSUME NEW group \in Lines
  PROVE  /\ GeneratedRow(group) \in OverrideRows
         /\ GeneratedRow(group).generated
         /\ GeneratedRow(group).min = group.stock
         /\ GeneratedRow(group).max = group.stock
         /\ GeneratedRow(group).price # None => GeneratedRow(group).price = group.taxed
         /\ group.taxed > 0 => GeneratedRow(group).price = group.taxed
<1>1. group.stock \in Prices /\ group.taxed \in Prices /\ None \in Prices
  BY DEF Lines, Prices
<1>2. group.taxed > 0 => Truthy(group.taxed)
  BY <1>1 DEF Truthy, None, Prices
<1>. QED BY <1>1, <1>2 DEF GeneratedRow, OverrideRows

\* The rows added are finitely many, and generated ones.
LEMMA AddedIsFinite ==
  ASSUME NEW book \in Seq(Lines), NEW kept
  PROVE  /\ IsFiniteSet(Added(kept, book))
         /\ Added(kept, book) \subseteq {row \in OverrideRows : row.generated}
<1>. DEFINE all == {GeneratedRow(group) : group \in ErpGroups(book)}
            f == [group \in ErpGroups(book) |-> GeneratedRow(group)]
<1>1. f \in Surjection(ErpGroups(book), all)
  BY DEF Surjection
<1>2. IsFiniteSet(all)
  <2>. HIDE DEF all, f
  <2>. QED BY <1>1, GroupsAreLines, FS_Surjection
<1>3. Added(kept, book) \subseteq all
  BY DEF Added
<1>4. all \subseteq {row \in OverrideRows : row.generated}
  BY GroupsAreLines, GeneratedIsRow
<1>. HIDE DEF all
<1>. QED BY <1>2, <1>3, <1>4, FS_Subset

\* The manual rows of a file that has them are kept.
LEMMA KeepsManual ==
  ASSUME NEW rows \in Seq(OverrideRows), manual \in ManualRows
  PROVE  /\ Whole(rows) => KeepManual(rows) = manual
         /\ Bare(rows) => KeepManual(rows) = <<>>
<1>1. manual \in Seq({row \in OverrideRows : ~row.generated})
  BY TablesAssumption
<1>2. ASSUME Whole(rows) PROVE KeepManual(rows) = manual
  <2>1. Len(manual) \in Nat /\ Len(manual) <= Len(rows)
    BY <1>1, <1>2 DEF Whole
  <2>2. \A i \in 1 .. Len(manual) : rows[i] = manual[i] /\ ~manual[i].generated
    BY <1>1, <1>2 DEF Whole
  <2>3. \A i \in 1 .. Len(rows) : rows[i].generated <=> i > Len(manual)
    BY <1>2, <2>1, <2>2 DEF Whole
  <2>4. KeepManual(rows) = [i \in 1 .. Len(manual) |-> rows[i]]
    BY <2>1, <2>3, KeepsThePrefix
  <2>5. [i \in 1 .. Len(manual) |-> rows[i]] = [i \in 1 .. Len(manual) |-> manual[i]]
    BY <2>2
  <2>6. manual = [i \in 1 .. Len(manual) |-> manual[i]]
    BY <1>1
  <2>. QED BY <2>4, <2>5, <2>6
<1>3. ASSUME Bare(rows) PROVE KeepManual(rows) = <<>>
  <2>1. \A i \in 1 .. Len(rows) : rows[i].generated <=> i > 0
    BY <1>3 DEF Bare
  <2>2. 0 \in Nat /\ 0 <= Len(rows)
    OBVIOUS
  <2>3. KeepManual(rows) = [i \in 1 .. 0 |-> rows[i]]
    BY <2>1, <2>2, KeepsThePrefix
  <2>. QED BY <2>3
<1>. QED BY <1>2, <1>3

\* A sequence over a set is one over a larger set.
LEMMA SeqMono == ASSUME NEW A, NEW B, A \subseteq B, NEW s \in Seq(A) PROVE s \in Seq(B)
OBVIOUS

\* A file written by generate_rows has the rows kept, then generated rows, and
\* follows the workbook.
LEMMA GeneratedFile ==
  ASSUME NEW rows \in Seq(OverrideRows), manual \in ManualRows, erp \in Seq(Lines),
         Whole(rows) \/ Bare(rows)
  PROVE  /\ GenerateRows(rows, erp) \in Seq(OverrideRows)
         /\ Whole(rows) => Whole(GenerateRows(rows, erp))
         /\ Whole(GenerateRows(rows, erp)) \/ Bare(GenerateRows(rows, erp))
         /\ FollowsErp(GenerateRows(rows, erp))
<1>. DEFINE kept == KeepManual(rows)
            tail == SetToSeq(Added(kept, erp))
            file == GenerateRows(rows, erp)
<1>1. manual \in Seq({row \in OverrideRows : ~row.generated})
  BY TablesAssumption
<1>2. file = kept \o tail
  BY DEF GenerateRows, Added
<1>3. /\ tail \in Seq(Added(kept, erp))
      /\ ToSet(tail) = Added(kept, erp)
  BY AddedIsFinite, SequenceOfSet
<1>4. /\ kept \in {manual, <<>>}
      /\ Whole(rows) => kept = manual
  BY KeepsManual
<1>5. Added(kept, erp) \subseteq {row \in OverrideRows : row.generated}
  BY AddedIsFinite
<1>. HIDE DEF kept, tail, file
<1>6. /\ kept \in Seq({row \in OverrideRows : ~row.generated})
      /\ tail \in Seq({row \in OverrideRows : row.generated})
  <2>1. tail \in Seq({row \in OverrideRows : row.generated})
    BY <1>3, <1>5, SeqMono
  <2>2. <<>> \in Seq({row \in OverrideRows : ~row.generated})
    OBVIOUS
  <2>. QED BY <2>1, <2>2, <1>1, <1>4
<1>7. /\ file \in Seq(OverrideRows)
      /\ Len(file) = Len(kept) + Len(tail)
      /\ Len(kept) \in Nat /\ Len(tail) \in Nat
  BY <1>2, <1>6
<1>8. \A i \in 1 .. Len(kept) : i \in 1 .. Len(file) /\ file[i] = kept[i] /\ ~file[i].generated
  BY <1>2, <1>6, <1>7
<1>9. \A i \in 1 .. Len(file) : i > Len(kept) =>
        /\ i - Len(kept) \in 1 .. Len(tail)
        /\ file[i] = tail[i - Len(kept)]
        /\ file[i].generated
  BY <1>2, <1>6, <1>7
<1>10. kept = manual => Whole(file)
  BY <1>7, <1>8, <1>9 DEF Whole
<1>11. kept = <<>> => Bare(file)
  BY <1>7, <1>9 DEF Bare
<1>12. \A row \in ToSet(file) : row.generated => row \in Added(kept, erp)
  <2>1. SUFFICES ASSUME NEW row \in ToSet(file), row.generated PROVE row \in ToSet(tail)
    BY <1>3
  <2>2. PICK i \in 1 .. Len(file) : row = file[i]
    BY <1>7 DEF ToSet
  <2>3. i > Len(kept)
    BY <2>1, <2>2, <1>7, <1>8
  <2>. QED BY <2>2, <2>3, <1>6, <1>9 DEF ToSet
<1>13. Added(kept, erp) \subseteq ToSet(file)
  <2>1. SUFFICES ASSUME NEW row \in ToSet(tail) PROVE row \in ToSet(file)
    BY <1>3
  <2>2. PICK k \in 1 .. Len(tail) : row = tail[k]
    BY <1>6 DEF ToSet
  <2>3. Len(kept) + k \in 1 .. Len(file) /\ file[Len(kept) + k] = tail[k]
    BY <1>2, <1>6, <1>7
  <2>. QED BY <2>2, <2>3, <1>7 DEF ToSet
<1>14. ToSet(kept) \subseteq ToSet(file) /\ ToSet(kept) \subseteq ToSet(manual)
  <2>1. ASSUME NEW row \in ToSet(kept) PROVE row \in ToSet(file)
    <3>1. PICK i \in 1 .. Len(kept) : row = kept[i]
      BY <1>6 DEF ToSet
    <3>. QED BY <3>1, <1>7, <1>8 DEF ToSet
  <2>2. ToSet(kept) \subseteq ToSet(manual)
    BY <1>4 DEF ToSet
  <2>. QED BY <2>1, <2>2
<1>15. FollowsErp(file)
  <2>1. ASSUME NEW row \in ToSet(file), row.generated, row.price # None
        PROVE  \E line \in ToSet(erp) : line.taxed = row.price /\ line.stock = row.min
    <3>1. PICK group \in ErpGroups(erp) : row = GeneratedRow(group)
      BY <1>12, <2>1 DEF Added
    <3>2. group \in ToSet(erp) /\ group \in Lines
      BY GroupsAreLines
    <3>. QED BY <2>1, <3>1, <3>2, GeneratedIsRow
  <2>2. ASSUME NEW line \in ErpGroups(erp), line.taxed > 0, line.stock > 0
        PROVE  \/ \E row \in ToSet(file) : row.min = line.stock /\ row.max = line.stock /\ row.price # None
               \/ LeftToManual(line.stock)
    <3>1. line \in Lines
      BY GroupsAreLines
    <3>2. /\ GeneratedRow(line).min = line.stock /\ GeneratedRow(line).max = line.stock
          /\ GeneratedRow(line).price = line.taxed
      BY <2>2, <3>1, GeneratedIsRow
    <3>3. line.taxed # None
      BY <2>2 DEF None
    <3>4. CASE GeneratedRow(line) \in Added(kept, erp)
      BY <1>13, <3>2, <3>3, <3>4
    <3>5. CASE GeneratedRow(line) \notin Added(kept, erp)
      <4>1. PICK row \in ToSet(kept) : SameKey(row, GeneratedRow(line))
        BY <3>5 DEF Added
      <4>2. row.min = line.stock /\ row.max = line.stock
        BY <3>2, <4>1 DEF SameKey
      <4>. QED BY <4>1, <4>2, <1>14 DEF LeftToManual
    <3>. QED BY <3>4, <3>5
  <2>. QED BY <2>1, <2>2 DEF FollowsErp
<1>16. (Whole(rows) => Whole(file)) /\ (Whole(file) \/ Bare(file))
  BY <1>4, <1>10, <1>11
<1>. QED BY <1>7, <1>15, <1>16 DEF file

-----------------------------------------------------------------------------
(* build_quote_context.                                                    *)

\* Of some numbers in a row there is one that exceeds all others, or equals them and
\* comes after them.
LEMMA LastOfLargest ==
  ASSUME NEW n \in Nat \ {0}, NEW s \in [1 .. n -> Int]
  PROVE  \E i \in 1 .. n : \A j \in (1 .. n) \ {i} : s[i] > s[j] \/ (s[i] = s[j] /\ i > j)
<1>. DEFINE Best(k, i) == \A j \in 1 .. k : j # i => s[i] > s[j] \/ (s[i] = s[j] /\ i > j)
            bad == {k \in 1 .. n : ~ \E i \in 1 .. k : Best(k, i)}
<1>1. bad = {}
  <2>1. SUFFICES ASSUME bad # {} PROVE FALSE
    OBVIOUS
  <2>2. PICK k \in bad : \A l \in bad : k <= l
    <3>1. bad \subseteq Nat
      OBVIOUS
    <3>. HIDE DEF bad
    <3>. QED BY <2>1, <3>1, LeastNat
  <2>3. k \in 1 .. n /\ ~ \E i \in 1 .. k : Best(k, i)
    OBVIOUS
  <2>4. k # 1
    <3>1. Best(1, 1)
      OBVIOUS
    <3>. HIDE DEF Best
    <3>. QED BY <2>3, <3>1
  <2>5. k - 1 \in 1 .. n /\ k - 1 < k
    BY <2>3, <2>4
  <2>6. k - 1 \notin bad
    <3>. HIDE DEF bad
    <3>. QED BY <2>2, <2>3, <2>5
  <2>7. PICK i \in 1 .. (k - 1) : Best(k - 1, i)
    <3>. HIDE DEF Best
    <3>. QED BY <2>5, <2>6
  <2>8. /\ i \in 1 .. n /\ i < k /\ s[i] \in Int /\ s[k] \in Int
        /\ \A j \in 1 .. (k - 1) : s[j] \in Int
    BY <2>3, <2>5
  <2>9. CASE s[i] > s[k]
    <3>1. Best(k, i)
      BY <2>3, <2>7, <2>8, <2>9
    <3>. HIDE DEF Best
    <3>. QED BY <2>3, <2>8, <3>1
  <2>10. CASE ~(s[i] > s[k])
    <3>1. s[k] >= s[i]
      BY <2>8, <2>10
    <3>2. ASSUME NEW j \in 1 .. k, j # k PROVE s[k] > s[j] \/ (s[k] = s[j] /\ k > j)
      <4>1. j \in 1 .. (k - 1) /\ s[j] \in Int /\ k > j
        BY <2>3, <2>8, <3>2
      <4>2. s[i] >= s[j]
        <5>1. j = i \/ s[i] > s[j] \/ s[i] = s[j]
          BY <2>7, <4>1
        <5>2. s[i] \in Int /\ s[j] \in Int
          BY <2>8, <4>1
        <5>. HIDE DEF Best, bad
        <5>. QED BY <5>1, <5>2
      <4>. QED BY <2>8, <3>1, <4>1, <4>2
    <3>3. Best(k, k) /\ k \in 1 .. k
      BY <2>3, <3>2
    <3>. HIDE DEF Best
    <3>. QED BY <2>3, <3>3
  <2>. QED BY <2>9, <2>10
<1>2. \E i \in 1 .. n : Best(n, i)
  <2>1. n \in 1 .. n
    OBVIOUS
  <2>2. n \notin bad
    BY <1>1
  <2>. HIDE DEF Best
  <2>. QED BY <2>1, <2>2
<1>. QED BY <1>2

\* The inventory reader finds a row in a workbook that has any.
LEMMA InventoryFound ==
  ASSUME NEW book \in Seq(Lines), book # <<>>
  PROVE  InventoryRow(book) \in Lines
<1>. DEFINE Beats(i, j) == \/ book[i].stock > book[j].stock
                           \/ book[i].stock = book[j].stock /\ i > j
            s == [i \in 1 .. Len(book) |-> book[i].stock]
<1>1. DOMAIN book = 1 .. Len(book) /\ Len(book) \in Nat \ {0}
  OBVIOUS
<1>2. \A i \in 1 .. Len(book) : book[i] \in Lines /\ book[i].stock \in Int
  <2>1. Prices \subseteq Int
    BY DEF Prices, None
  <2>2. \A line \in Lines : line.stock \in Prices
    BY DEF Lines
  <2>3. \A i \in 1 .. Len(book) : book[i] \in Lines
    OBVIOUS
  <2>. QED BY <2>1, <2>2, <2>3
<1>3. s \in [1 .. Len(book) -> Int]
  BY <1>2
<1>4. \E i \in DOMAIN book : \A j \in DOMAIN book \ {i} : Beats(i, j)
  <2>1. PICK i \in 1 .. Len(book) :
          \A j \in (1 .. Len(book)) \ {i} : s[i] > s[j] \/ (s[i] = s[j] /\ i > j)
    <3>. HIDE DEF s
    <3>. QED BY <1>1, <1>3, LastOfLargest
  <2>. QED BY <1>1, <2>1
<1>5. InventoryRow(book) = book[CHOOSE i \in DOMAIN book : \A j \in DOMAIN book \ {i} : Beats(i, j)]
  BY DEF InventoryRow
<1>. HIDE DEF Beats
<1>6. (CHOOSE i \in DOMAIN book : \A j \in DOMAIN book \ {i} : Beats(i, j)) \in DOMAIN book
  BY <1>4
<1>. QED BY <1>1, <1>2, <1>5, <1>6

\* The first of three prices that passes a test, or else the default, is a price.
LEMMA FirstPrice ==
  ASSUME NEW s \in [1 .. 3 -> Prices], NEW default \in Prices, NEW hits \in SUBSET (1 .. 3)
  PROVE  (IF hits = {} THEN default ELSE s[CHOOSE i \in hits : \A j \in hits : i <= j]) \in Prices
<1>1. hits # {} => (CHOOSE i \in hits : \A j \in hits : i <= j) \in hits
  <2>1. hits \subseteq Nat
    OBVIOUS
  <2>. QED BY <2>1, LeastNat
<1>. DEFINE i == CHOOSE i \in hits : \A j \in hits : i <= j
<1>. HIDE DEF i
<1>. QED BY <1>1 DEF i

\* build_erp_context gives known prices or none.
LEMMA ContextTyped ==
  ASSUME NEW book \in Seq(Lines),
         NEW product \in [found : BOOLEAN, floor : Prices, normal : Prices, minAuto : Prices],
         NEW parts \in [found : BOOLEAN, floor : Prices, normal : Prices]
  PROVE  ErpContext(book, product, parts) \in Contexts
<1>. DEFINE inventory == IF book = <<>> THEN NoErpRow ELSE InventoryRow(book)
            First(p, q, t) == FirstThat(<<p, q, t>>, LAMBDA x : x # None, None)
<1>1. inventory \in Lines
  BY InventoryFound DEF NoErpRow, Lines, Prices
<1>2. /\ inventory.floor \in Prices /\ inventory.standard \in Prices
      /\ inventory.status \in SUBSET {"apply", "inverted"}
  BY <1>1 DEF Lines
<1>3. /\ product.floor \in Prices /\ product.normal \in Prices /\ product.minAuto \in Prices
      /\ product.found \in BOOLEAN
      /\ parts.floor \in Prices /\ parts.normal \in Prices /\ parts.found \in BOOLEAN
  OBVIOUS
<1>. HIDE DEF inventory
<1>4. ASSUME NEW p \in Prices, NEW q \in Prices, NEW t \in Prices
      PROVE  First(p, q, t) \in Prices
  <2>. DEFINE s == <<p, q, t>>
              hits == {i \in DOMAIN s : s[i] # None}
  <2>1. s \in [1 .. 3 -> Prices] /\ hits \subseteq 1 .. 3 /\ None \in Prices
    BY DEF Prices
  <2>2. FirstThat(s, LAMBDA x : x # None, None)
          = IF hits = {} THEN None ELSE s[CHOOSE i \in hits : \A j \in hits : i <= j]
    BY DEF FirstThat
  <2>. HIDE DEF s, hits
  <2>3. FirstThat(s, LAMBDA x : x # None, None) \in Prices
    BY <2>1, <2>2, FirstPrice
  <2>. QED BY <2>3 DEF s
<1>5. ErpContext(book, product, parts)
        = [found     |-> book # <<>> \/ product.found \/ parts.found,
           inventory |-> book # <<>>,
           floor     |-> First(inventory.floor, product.floor, parts.floor),
           normal    |-> First(inventory.standard, product.normal, parts.normal),
           minAuto   |-> product.minAuto,
           status    |-> inventory.status]
  BY DEF ErpContext, inventory, FirstThat
<1>. HIDE DEF First
<1>6. /\ (book # <<>> \/ product.found \/ parts.found) \in BOOLEAN
      /\ (book # <<>>) \in BOOLEAN
  BY <1>3
<1>7. ASSUME NEW f \in BOOLEAN, NEW i \in BOOLEAN, NEW p \in Prices, NEW q \in Prices,
             NEW t \in Prices, NEW status \in SUBSET {"apply", "inverted"}
      PROVE  [found |-> f, inventory |-> i, floor |-> p, normal |-> q, minAuto |-> t,
              status |-> status] \in Contexts
  BY DEF Contexts
<1>8. PICK p \in Prices : p = First(inventory.floor, product.floor, parts.floor)
  BY <1>2, <1>3, <1>4
<1>9. PICK q \in Prices : q = First(inventory.standard, product.normal, parts.normal)
  BY <1>2, <1>3, <1>4
<1>10. PICK f \in BOOLEAN, i \in BOOLEAN :
         f = (book # <<>> \/ product.found \/ parts.found) /\ i = (book # <<>>)
  BY <1>6, Zenon
<1>11. ErpContext(book, product, parts)
         = [found |-> f, inventory |-> i, floor |-> p, normal |-> q,
            minAuto |-> product.minAuto, status |-> inventory.status]
  BY <1>5, <1>8, <1>9, <1>10, Zenon
<1>. QED BY <1>2, <1>3, <1>7, <1>11

\* Some prices have a lowest one, or there is none.
LEMMA LowestTyped ==
  ASSUME NEW prices, prices \subseteq Nat
  PROVE  Lowest(prices) \in Prices
<1>1. ASSUME prices # {} PROVE (CHOOSE p \in prices : \A q \in prices : p <= q) \in prices
  BY <1>1, LeastNat
<1>. DEFINE p == CHOOSE p \in prices : \A q \in prices : p <= q
<1>. HIDE DEF p
<1>. QED BY <1>1 DEF Lowest, Prices, p

\* The reasons against an automatic reply are known ones; a missing ERP record is
\* none when there is an override, unless a guardrail says so.
LEMMA ReasonsTyped ==
  ASSUME NEW item, NEW market, NEW ctx, NEW override,
         NEW guardrail \in GuardrailRows \cup {NoGuardrail}
  PROVE  /\ HandoffReasons(item, market, ctx, override, guardrail) \in SUBSET Reasons
         /\ guardrail = NoGuardrail /\ override # NoOverride
              => "erp_missing" \notin HandoffReasons(item, market, ctx, override, guardrail)
<1>1. guardrail.reasons \in SUBSET Reasons
  BY DEF GuardrailRows, NoGuardrail
<1>2. ASSUME NEW x \in HandoffReasons(item, market, ctx, override, guardrail) PROVE x \in Reasons
  BY <1>1, <1>2 DEF HandoffReasons, Reasons
<1>3. ASSUME guardrail = NoGuardrail, override # NoOverride,
             "erp_missing" \in HandoffReasons(item, market, ctx, override, guardrail)
      PROVE  FALSE
  BY <1>3 DEF HandoffReasons
<1>. QED BY <1>2, <1>3

\* Raising a price to two boundaries leaves it above both.
LEMMA Raised ==
  ASSUME NEW p \in Int, NEW q \in Int, NEW t \in Int
  PROVE  /\ Larger(Larger(p, q), t) \in {p, q, t}
         /\ Larger(Larger(p, q), t) >= q /\ Larger(Larger(p, q), t) >= t
BY DEF Larger

\* An automatic quote is a price above the boundaries, or none.
LEMMA QuoteTyped ==
  ASSUME NEW market, market.low \in Prices, NEW trader \in Prices, NEW ctx \in Contexts,
         NEW override \in OverrideRows
  PROVE  /\ AutoQuote(market, trader, ctx, override) \in Prices
         /\ AutoQuote(market, trader, ctx, override) # None =>
              /\ AutoQuote(market, trader, ctx, override) >= ctx.floor
              /\ AutoQuote(market, trader, ctx, override) >= ctx.minAuto
         /\ HandoffQuote(ctx, override) \in Prices
<1>1. /\ ctx.floor \in Prices /\ ctx.normal \in Prices /\ ctx.minAuto \in Prices
      /\ override.price \in Prices
  BY DEF Contexts, OverrideRows
<1>2. QuoteBasis(ctx, market, trader) \in Prices
  <2>. DEFINE s == <<ctx.normal, ctx.floor, trader>>
              hits == {i \in DOMAIN s : Truthy(s[i])}
  <2>1. s \in [1 .. 3 -> Prices] /\ hits \in SUBSET (1 .. 3)
    BY <1>1
  <2>2. QuoteBasis(ctx, market, trader)
          = IF hits = {} THEN market.low ELSE s[CHOOSE i \in hits : \A j \in hits : i <= j]
    BY DEF QuoteBasis, FirstThat
  <2>. HIDE DEF s, hits
  <2>. QED BY <2>1, <2>2, FirstPrice
<1>. DEFINE basis == IF override # NoOverride THEN override.price ELSE QuoteBasis(ctx, market, trader)
            raised == Larger(Larger(basis, ctx.minAuto), ctx.floor)
<1>3. basis \in Prices
  BY <1>1, <1>2
<1>4. AutoQuote(market, trader, ctx, override) = IF basis = None THEN None ELSE raised
  BY DEF AutoQuote
<1>. HIDE DEF basis
<1>5. \A p \in Prices : p \in Int
  BY DEF Prices, None
<1>6. raised \in Prices /\ raised >= ctx.minAuto /\ raised >= ctx.floor
  BY <1>1, <1>3, <1>5, Raised
<1>7. HandoffQuote(ctx, override) \in Prices
  BY <1>1 DEF HandoffQuote
<1>. HIDE DEF raised
<1>. QED BY <1>3, <1>4, <1>6, <1>7

\* Division by the grain leaves a remainder.
LEMMA GrainDivides ==
  ASSUME NEW p \in Nat
  PROVE  \E k \in Nat : p = Grain * k + (p % Grain) /\ p % Grain \in 0 .. Grain - 1
<1>1. Grain \in Nat /\ Grain > 0
  BY GrainAssumption
<1>. DEFINE k == p \div Grain
<1>2. k \in Int /\ p = Grain * k + (p % Grain) /\ p % Grain \in 0 .. Grain - 1
  BY <1>1
<1>. HIDE DEF k
<1>3. k \in Nat
  <2>1. CASE k < 0
    <3>1. Grain * k <= 0 - Grain
      BY <1>1, <1>2, <2>1
    <3>. QED BY <1>1, <1>2, <3>1
  <2>. QED BY <1>2, <2>1
<1>. QED BY <1>2, <1>3

\* A price rounded to four decimals: within half of 0.0001, and above every multiple
\* of 0.0001 that the price reaches.
LEMMA Rounded ==
  ASSUME NEW p \in Prices
  PROVE  /\ Round4(p) \in Prices
         /\ Round4(p) = None <=> p = None
         /\ \A b \in Prices : b <= p => Respects(Round4(p), b)
<1>1. CASE p = None
  <2>1. Round4(p) = None
    BY <1>1 DEF Round4
  <2>2. \A b \in Prices : b <= None => b = None
    BY DEF Prices, None
  <2>. QED BY <1>1, <2>1, <2>2 DEF Respects, Prices
<1>2. CASE p # None
  <2>. DEFINE r == p % Grain
              below == p - r
  <2>1. p \in Nat /\ Grain \in Nat \ {0}
    BY <1>2, GrainAssumption DEF Prices
  <2>2. PICK k \in Nat : p = Grain * k + r /\ r \in 0 .. Grain - 1
    BY <2>1, GrainDivides
  <2>3. below = Grain * k /\ below \in Nat
    BY <2>1, <2>2
  <2>4. \/ Round4(p) = below /\ 2 * r <= Grain
        \/ Round4(p) = below + Grain
    <3>1. Round4(p) = IF \/ 2 * r > Grain
                         \/ 2 * r = Grain /\ below % (2 * Grain) # 0
                      THEN below + Grain ELSE below
      BY <1>2 DEF Round4
    <3>. HIDE DEF below, r
    <3>. QED BY <2>1, <2>2, <3>1
  <2>. HIDE DEF below
  <2>5. Round4(p) \in Nat /\ 2 * (p - Round4(p)) <= Grain
    <3>1. p = below + r
      BY <2>1, <2>2, <2>3
    <3>. HIDE DEF r
    <3>. QED BY <2>1, <2>2, <2>3, <2>4, <3>1
  <2>6. ASSUME NEW b \in Nat, b <= p PROVE Respects(Round4(p), b)
    <3>1. 2 * (b - Round4(p)) <= Grain
      BY <2>1, <2>5, <2>6
    <3>2. ASSUME b % Grain = 0 PROVE b <= Round4(p)
      <4>1. PICK m \in Nat : b = Grain * m
        <5>1. PICK m \in Nat : b = Grain * m + (b % Grain)
          BY GrainDivides
        <5>. QED BY <2>1, <3>2, <5>1
      <4>2. m <= k
        <5>1. SUFFICES ASSUME m >= k + 1 PROVE FALSE
          OBVIOUS
        <5>2. Grain * m >= Grain * (k + 1)
          BY <2>1, <5>1
        <5>3. Grain * (k + 1) = Grain * k + Grain
          BY <2>1
        <5>. HIDE DEF r
        <5>. QED BY <2>1, <2>2, <2>6, <4>1, <5>2, <5>3
      <4>3. Grain * m <= Grain * k
        BY <2>1, <4>2
      <4>. QED BY <2>1, <2>3, <2>4, <4>1, <4>3
    <3>. QED BY <3>1, <3>2, <2>1, <2>5 DEF Respects
  <2>7. Round4(p) # None /\ Round4(p) \in Prices
    BY <2>5 DEF None, Prices
  <2>8. Respects(Round4(p), None)
    BY DEF Respects
  <2>9. \A b \in Prices : b \in Nat \/ b = None
    BY DEF Prices
  <2>. QED BY <1>2, <2>6, <2>7, <2>8, <2>9
<1>. QED BY <1>1, <1>2

\* A decision: well-formed, within the boundaries that it was given when automatic,
\* and not handed off for a missing ERP record alone when an override decided it.
LEMMA DecisionTyped ==
  ASSUME NEW item, NEW trader \in Prices, NEW ctx \in Contexts, NEW override \in OverrideRows,
         NEW guardrail \in GuardrailRows \cup {NoGuardrail}, NEW qty \in Nat,
         item.stock \in Nat, item.market \in SUBSET [price : Prices, review : BOOLEAN]
  PROVE  LET d == ComputeDecision(item, trader, ctx, override, guardrail, qty)
         IN  /\ d \in Decisions
             /\ d.auto => Respects(d.quote, ctx.floor) /\ Respects(d.quote, ctx.minAuto)
             /\ guardrail = NoGuardrail /\ d.policy = "general_inquiry_override"
                  => d.reasons # {"erp_missing"}
<1>. DEFINE market == SummarizeMarketQuotes(item.market)
            reasons == HandoffReasons(item, market, ctx, override, guardrail)
            quote == IF reasons = {} THEN AutoQuote(market, trader, ctx, override)
                     ELSE HandoffQuote(ctx, override)
            auto == reasons = {} /\ quote # None
            d == ComputeDecision(item, trader, ctx, override, guardrail, qty)
<1>1. market.low \in Prices
  <2>1. {m.price : m \in item.market} \ {None} \subseteq Nat
    BY DEF Prices
  <2>2. market.low = Lowest({m.price : m \in item.market} \ {None})
    BY DEF SummarizeMarketQuotes
  <2>. QED BY <2>1, <2>2, LowestTyped
<1>2. EffectiveQty(item, qty) \in Nat
  BY DEF EffectiveQty
<1>3. d = [ok       |-> TRUE,
           qty      |-> EffectiveQty(item, qty),
           quote    |-> Round4(quote),
           auto     |-> auto,
           strategy |-> IF auto THEN "direct_quote" ELSE "handoff",
           reasons  |-> IF reasons = {} /\ ~auto THEN {"no_quote_basis"} ELSE reasons,
           policy   |-> IF override # NoOverride THEN "general_inquiry_override"
                        ELSE "erp_market_default"]
  BY DEF ComputeDecision
<1>. HIDE DEF market, d
<1>4. /\ reasons \in SUBSET Reasons
      /\ guardrail = NoGuardrail /\ override # NoOverride => "erp_missing" \notin reasons
  BY ReasonsTyped
<1>. HIDE DEF reasons
<1>5. /\ Round4(quote) \in Prices
      /\ auto => Respects(Round4(quote), ctx.floor) /\ Respects(Round4(quote), ctx.minAuto)
  <2>1. quote \in Prices /\ (auto => quote >= ctx.floor /\ quote >= ctx.minAuto)
    BY <1>1, QuoteTyped
  <2>2. ctx.floor \in Prices /\ ctx.minAuto \in Prices
    BY DEF Contexts
  <2>3. auto => ctx.floor <= quote /\ ctx.minAuto <= quote
    <3>1. \A x \in Prices : x \in Int
      BY DEF Prices, None
    <3>. HIDE DEF quote, auto
    <3>. QED BY <2>1, <2>2, <3>1
  <2>. HIDE DEF quote, auto
  <2>. QED BY <2>1, <2>2, <2>3, Rounded
<1>. HIDE DEF quote
<1>6. auto \in BOOLEAN /\ {"no_quote_basis"} \in SUBSET Reasons
  BY DEF Reasons
<1>. HIDE DEF auto
<1>7. d \in Decisions
  BY <1>2, <1>3, <1>4, <1>5, <1>6 DEF Decisions
<1>8. d.auto => Respects(d.quote, ctx.floor) /\ Respects(d.quote, ctx.minAuto)
  BY <1>3, <1>5
<1>9. ASSUME guardrail = NoGuardrail, d.policy = "general_inquiry_override"
      PROVE  d.reasons # {"erp_missing"}
  <2>1. override # NoOverride
    BY <1>3, <1>9
  <2>2. d.reasons \in {{"no_quote_basis"}, reasons}
    BY <1>3
  <2>3. "erp_missing" \notin d.reasons
    BY <1>4, <1>9, <2>1, <2>2
  <2>. QED BY <2>3
<1>. QED BY <1>7, <1>8, <1>9 DEF d

\* The same of build_quote_context.
LEMMA BuildTyped ==
  ASSUME NEW tables \in FactRows, NEW ctx \in Contexts, NEW override \in OverrideRows,
         NEW guardrail \in GuardrailRows \cup {NoGuardrail}, NEW qty \in Nat
  PROVE  LET d == BuildQuoteContext(tables, ctx, override, guardrail, qty)
         IN  /\ d \in Decisions
             /\ d.auto => Respects(d.quote, ctx.floor) /\ Respects(d.quote, ctx.minAuto)
             /\ guardrail = NoGuardrail /\ d.policy = "general_inquiry_override"
                  => d.reasons # {"erp_missing"}
<1>1. /\ ItemOf(tables).stock \in Nat
      /\ ItemOf(tables).market \in SUBSET [price : Prices, review : BOOLEAN]
      /\ tables.trader \in Prices
  BY DEF ItemOf, ErpOnlyItem, FactRows
<1>2. /\ NoDecision \in Decisions
      /\ ~NoDecision.auto
      /\ NoDecision.policy = "none"
  BY DEF NoDecision, Decisions, Reasons, Prices
<1>. QED BY <1>1, <1>2, DecisionTyped DEF BuildQuoteContext

\* What the readers of the files return.
LEMMA ReadersTyped ==
  ASSUME NEW qty \in Nat
  PROVE  /\ \A rows \in Seq(OverrideRows) : GetFirstRoundOverride(rows, qty) \in OverrideRows
         /\ \A rows \in Seq(GuardrailRows) :
              GetHandoffGuardrail(rows, qty) \in GuardrailRows \cup {NoGuardrail}
<1>1. NoOverride \in OverrideRows
  BY DEF NoOverride, OverrideRows, Prices
<1>2. ASSUME NEW rows \in Seq(OverrideRows) PROVE GetFirstRoundOverride(rows, qty) \in OverrideRows
  <2>1. CASE qty = 0
    BY <1>1, <2>1 DEF GetFirstRoundOverride
  <2>2. CASE qty # 0
    BY <1>1, <2>2, OverrideIsFirst
  <2>. QED BY <2>1, <2>2
<1>3. ASSUME NEW rows \in Seq(GuardrailRows)
      PROVE  GetHandoffGuardrail(rows, qty) \in GuardrailRows \cup {NoGuardrail}
  <2>1. CASE qty = 0
    BY <2>1 DEF GetHandoffGuardrail
  <2>2. CASE qty # 0
    BY <2>2, GuardrailIsFirst
  <2>. QED BY <2>1, <2>2
<1>. QED BY <1>2, <1>3

-----------------------------------------------------------------------------
(* The files' and the processes' types.                                    *)

\* A refresh that has nothing to do is a refresh, an idle desk a desk, and nothing
\* decided a decision.
LEMMA IdleTyped ==
  /\ IdleRefresh \in RefreshStates
  /\ IdleDesk \in DeskStates
  /\ NothingDecided \in DecidedStates
  /\ NoDecision \in Decisions /\ ~NoDecision.auto
  /\ NoReply \in Replies
<1>1. IdleRefresh \in RefreshStates
  BY DEF IdleRefresh, RefreshStates
<1>2. NoOverride \in OverrideRows /\ NoReply \in Replies
  BY DEF NoOverride, OverrideRows, Prices, NoReply, Replies
<1>3. NoDecision \in Decisions /\ ~NoDecision.auto
  BY DEF NoDecision, Decisions, Reasons, Prices
<1>4. IdleDesk.ctx \in Contexts
  <2>. DEFINE product == [found |-> FALSE, floor |-> None, normal |-> None, minAuto |-> None]
              parts == [found |-> FALSE, floor |-> None, normal |-> None]
  <2>1. IdleDesk.ctx = ErpContext(<<>>, product, parts)
    BY DEF IdleDesk
  <2>2. /\ product \in [found : BOOLEAN, floor : Prices, normal : Prices, minAuto : Prices]
        /\ parts \in [found : BOOLEAN, floor : Prices, normal : Prices]
        /\ <<>> \in Seq(Lines)
    BY DEF Prices
  <2>. HIDE DEF product, parts
  <2>. QED BY <2>1, <2>2, ContextTyped
<1>5. IdleDesk \in DeskStates
  <2>1. PICK c \in Contexts : c = IdleDesk.ctx
    BY <1>4
  <2>2. IdleDesk = [pc |-> "idle", qty |-> 0, store |-> FALSE, ctx |-> c, override |-> NoOverride]
    BY <2>1 DEF IdleDesk
  <2>. QED BY <1>2, <2>2 DEF DeskStates
<1>6. NothingDecided \in DecidedStates
  BY <1>2, <1>3, <1>4 DEF NothingDecided, DecidedStates
<1>. QED BY <1>1, <1>2, <1>3, <1>5, <1>6, Zenon

\* The initial tables, files and processes.
LEMMA InitTyped == Init => TypeOK
<1>. SUFFICES ASSUME Init PROVE TypeOK
  OBVIOUS
<1>1. manual \in Seq(OverrideRows)
  <2>1. manual \in Seq({row \in OverrideRows : ~row.generated})
    BY TablesAssumption DEF Init
  <2>. QED BY <2>1, SeqMono
<1>2. /\ 0 \in 0 .. MaxImports /\ 0 \in 0 .. MaxRefreshes
      /\ 0 \in 0 .. MaxCrashes /\ 0 \in 0 .. MaxAsks
  BY BoundsAssumption
<1>3. refresh \in [Refreshers -> RefreshStates]
  BY IdleTyped DEF Init
<1>4. guardrails \in Seq(GuardrailRows) /\ overrides \in Seq(OverrideRows)
  BY <1>1 DEF Init
<1>. QED BY <1>2, <1>3, <1>4, IdleTyped, Zenon DEF Init, TypeOK

\* What the type invariant says of the tables.
LEMMA TablesTyped ==
  ASSUME TypeOK
  PROVE  erp \in Seq(Lines) /\ facts \in FactRows /\ Context \in Contexts
<1>1. erp \in Seq(Lines)
  <2>1. erp \in Workbooks \/ erp = <<>>
    BY DEF TypeOK
  <2>2. <<>> \in Seq(Lines)
    OBVIOUS
  <2>. QED BY <2>1, <2>2, TablesAssumption
<1>2. facts \in FactRows
  BY TablesAssumption DEF TypeOK
<1>3. /\ facts.product \in [found : BOOLEAN, floor : Prices, normal : Prices, minAuto : Prices]
      /\ facts.parts \in [found : BOOLEAN, floor : Prices, normal : Prices]
  BY <1>2 DEF FactRows
<1>4. Context \in Contexts
  BY <1>1, <1>3, ContextTyped DEF Context
<1>. QED BY <1>1, <1>2, <1>4

\* The quantity that a decision is about, and the quantity of a row.
LEMMA QuantitiesTyped ==
  /\ \A tables \in FactRows, qty \in Nat : QuoteQty(tables, qty) \in Nat
  /\ \A row \in OverrideRows : RowQty(row) \in Nat
<1>1. ASSUME NEW tables \in FactRows, NEW qty \in Nat PROVE QuoteQty(tables, qty) \in Nat
  <2>1. ItemOf(tables).stock \in Nat
    BY DEF ItemOf, ErpOnlyItem, FactRows
  <2>. QED BY <2>1 DEF QuoteQty, EffectiveQty
<1>2. ASSUME NEW row \in OverrideRows PROVE RowQty(row) \in Nat
  BY DEF RowQty, OverrideRows, Prices
<1>. QED BY <1>1, <1>2

\* What the smoke check decides for a row's quantity.
LEMMA SmokeTyped ==
  ASSUME TypeOK, NEW qty \in Nat
  PROVE  /\ SmokeDecision(qty) \in Decisions
         /\ NeedsNoGuardrail(SmokeDecision(qty)) => SmokeDecision(qty).auto
         /\ GuardrailOf(qty, SmokeDecision(qty)) \in GuardrailRows
<1>1. overrides \in Seq(OverrideRows)
  BY DEF TypeOK
<1>2. QuoteQty(facts, qty) \in Nat
  BY TablesTyped, QuantitiesTyped
<1>3. GetFirstRoundOverride(overrides, QuoteQty(facts, qty)) \in OverrideRows
  BY <1>1, <1>2, ReadersTyped
<1>4. /\ SmokeDecision(qty) \in Decisions
      /\ SmokeDecision(qty).policy = "general_inquiry_override"
           => SmokeDecision(qty).reasons # {"erp_missing"}
  BY <1>3, TablesTyped, BuildTyped DEF SmokeDecision
<1>5. SmokeDecision(qty).reasons \in SUBSET Reasons
  BY <1>4 DEF Decisions
<1>6. GuardrailOf(qty, SmokeDecision(qty)) \in GuardrailRows
  BY <1>5 DEF GuardrailOf, GuardrailRows
<1>. QED BY <1>4, <1>6 DEF NeedsNoGuardrail

\* Every step of a refresh keeps the types.
LEMMA RefreshTyped ==
  ASSUME TypeOK, ManualInv, NEW r \in Refreshers, Refresh(r)
  PROVE  TypeOK'
<1>. USE DEF sources, desks, counts
<1>0. /\ refresh \in [Refreshers -> RefreshStates]
      /\ overrides \in Seq(OverrideRows)
      /\ refresh[r] \in RefreshStates
      /\ refresh[r].rows \in Seq(OverrideRows)
      /\ refresh[r].found \in Seq(GuardrailRows)
  BY DEF TypeOK, RefreshStates
<1>1. ASSUME NEW guard \in BOOLEAN, StartRefresh(r, guard) PROVE TypeOK'
  <2>1. [IdleRefresh EXCEPT !.pc = "load", !.rows = overrides, !.guard = guard] \in RefreshStates
    BY <1>0, IdleTyped DEF RefreshStates
  <2>2. \A o \in Refreshers : [refresh[o] EXCEPT !.fresh = FALSE] \in RefreshStates
    BY <1>0 DEF RefreshStates
  <2>3. refresh' \in [Refreshers -> RefreshStates]
    BY <1>1, <2>1, <2>2 DEF StartRefresh
  <2>4. torn' \in BOOLEAN /\ settled' \in BOOLEAN /\ refreshes' \in 0 .. MaxRefreshes
    <3>1. torn' = (torn \/ \E o \in Refreshers : refresh[o].pc = "write_overrides")
      BY <1>1 DEF StartRefresh
    <3>2. torn' \in BOOLEAN
      BY <3>1, Zenon
    <3>3. refreshes' = refreshes + 1 /\ refreshes < MaxRefreshes /\ settled' = FALSE
      BY <1>1 DEF StartRefresh
    <3>4. refreshes \in 0 .. MaxRefreshes
      BY DEF TypeOK
    <3>5. refreshes' \in 0 .. MaxRefreshes
      BY <3>3, <3>4, BoundsAssumption
    <3>. QED BY <3>2, <3>3, <3>5, Zenon
  <2>. QED BY <1>1, <2>3, <2>4 DEF StartRefresh, TypeOK
<1>2. ASSUME LoadErpRows(r) PROVE TypeOK'
  <2>1. GenerateRows(refresh[r].rows, erp) \in Seq(OverrideRows)
    <3>1. Whole(refresh[r].rows) \/ Bare(refresh[r].rows)
      BY <1>2 DEF LoadErpRows, ManualInv
    <3>. QED BY <1>0, <3>1, TablesTyped, GeneratedFile DEF TypeOK
  <2>2. (\A o \in Refreshers \ {r} : refresh[o].pc = "idle") \in BOOLEAN
    OBVIOUS
  <2>3. refresh' \in [Refreshers -> RefreshStates]
    BY <1>0, <1>2, <2>1, <2>2 DEF LoadErpRows, RefreshStates
  <2>. QED BY <1>2, <2>3 DEF LoadErpRows, TypeOK
<1>3. ASSUME OpenOverrides(r) PROVE TypeOK'
  <2>1. refresh' \in [Refreshers -> RefreshStates]
    BY <1>0, <1>3 DEF OpenOverrides, RefreshStates
  <2>2. <<>> \in Seq(OverrideRows)
    OBVIOUS
  <2>. QED BY <1>3, <2>1, <2>2 DEF OpenOverrides, TypeOK
<1>4. ASSUME WriteOverrides(r) PROVE TypeOK'
  <2>1. [refresh[r] EXCEPT !.pc = "read_rows"] \in RefreshStates
    BY <1>0 DEF RefreshStates
  <2>2. refresh' \in [Refreshers -> RefreshStates]
    BY <1>0, <1>4, <2>1, IdleTyped DEF WriteOverrides
  <2>. QED BY <1>0, <1>4, <2>2 DEF WriteOverrides, TypeOK
<1>5. ASSUME ReadRows(r) PROVE TypeOK'
  <2>1. refresh' \in [Refreshers -> RefreshStates]
    BY <1>0, <1>5 DEF ReadRows, RefreshStates
  <2>. QED BY <1>5, <2>1 DEF ReadRows, TypeOK
<1>6. ASSUME CheckRow(r) PROVE TypeOK'
  <2>. DEFINE qty == RowQty(Head(refresh[r].rows))
              rest == Tail(refresh[r].rows)
              more == IF NeedsNoGuardrail(SmokeDecision(qty)) THEN refresh[r].found
                      ELSE Append(refresh[r].found, GuardrailOf(qty, SmokeDecision(qty)))
  <2>1. rest \in Seq(OverrideRows) /\ Head(refresh[r].rows) \in OverrideRows
    BY <1>0, <1>6 DEF CheckRow
  <2>2. more \in Seq(GuardrailRows)
    BY <1>0, <2>1, QuantitiesTyped, SmokeTyped
  <2>3. refresh' = [refresh EXCEPT ![r] = [refresh[r] EXCEPT !.rows = rest, !.found = more]]
    BY <1>0, <1>6 DEF CheckRow
  <2>. HIDE DEF rest, more
  <2>4. [refresh[r] EXCEPT !.rows = rest, !.found = more] \in RefreshStates
    BY <1>0, <2>1, <2>2 DEF RefreshStates
  <2>5. refresh' \in [Refreshers -> RefreshStates]
    BY <1>0, <2>3, <2>4
  <2>. QED BY <1>6, <2>5 DEF CheckRow, TypeOK
<1>7. ASSUME OpenGuardrails(r) PROVE TypeOK'
  <2>1. refresh' \in [Refreshers -> RefreshStates]
    BY <1>0, <1>7 DEF OpenGuardrails, RefreshStates
  <2>2. <<>> \in Seq(GuardrailRows)
    OBVIOUS
  <2>. QED BY <1>7, <2>1, <2>2 DEF OpenGuardrails, TypeOK
<1>8. ASSUME WriteGuardrails(r) PROVE TypeOK'
  <2>1. refresh' \in [Refreshers -> RefreshStates]
    BY <1>0, <1>8, IdleTyped DEF WriteGuardrails
  <2>2. settled' \in BOOLEAN
    BY <1>0, <1>8 DEF WriteGuardrails, RefreshStates
  <2>. QED BY <1>0, <1>8, <2>1, <2>2 DEF WriteGuardrails, TypeOK
<1>9. ASSUME CrashRefresh(r) PROVE TypeOK'
  <2>1. refresh' \in [Refreshers -> RefreshStates]
    BY <1>0, <1>9, IdleTyped DEF CrashRefresh
  <2>2. torn' \in BOOLEAN /\ crashes' \in 0 .. MaxCrashes
    BY <1>9, BoundsAssumption DEF CrashRefresh, TypeOK
  <2>. QED BY <1>9, <2>1, <2>2 DEF CrashRefresh, TypeOK
<1>. QED BY <1>1, <1>2, <1>3, <1>4, <1>5, <1>6, <1>7, <1>8, <1>9 DEF Refresh

\* An import leaves a workbook, and every desk and reply step its types.
LEMMA DeskTyped ==
  ASSUME TypeOK, ImportErp \/ Desk \/ (\E qty \in Quantities : ReplyFromStored(qty))
  PROVE  TypeOK'
<1>. USE DEF sources, desks, counts
<1>0. /\ refresh \in [Refreshers -> RefreshStates]
      /\ desk \in DeskStates /\ decided \in DecidedStates /\ stored \in Decisions
      /\ desk.qty \in Nat /\ desk.ctx \in Contexts /\ desk.override \in OverrideRows
  BY DEF TypeOK, DeskStates
<1>1. ASSUME ImportErp PROVE TypeOK'
  <2>1. refresh' \in [Refreshers -> RefreshStates]
    BY <1>0, <1>1 DEF ImportErp, RefreshStates
  <2>2. imports' \in 0 .. MaxImports
    BY <1>1, BoundsAssumption DEF ImportErp, TypeOK
  <2>. QED BY <1>1, <2>1, <2>2 DEF ImportErp, TypeOK
<1>2. ASSUME NEW qty \in Quantities, NEW store \in BOOLEAN, AskForQuote(qty, store) PROVE TypeOK'
  <2>1. qty \in Nat
    BY QuantitiesAssumption
  <2>2. desk' \in DeskStates
    BY <1>2, <2>1, IdleTyped, TablesTyped DEF AskForQuote, DeskStates
  <2>3. asks' \in 0 .. MaxAsks
    BY <1>2, BoundsAssumption DEF AskForQuote, TypeOK
  <2>. QED BY <1>2, <2>2, <2>3 DEF AskForQuote, TypeOK
<1>3. ASSUME ReadOverride PROVE TypeOK'
  <2>1. GetFirstRoundOverride(overrides, QuoteQty(facts, desk.qty)) \in OverrideRows
    BY <1>0, TablesTyped, QuantitiesTyped, ReadersTyped DEF TypeOK
  <2>2. desk' \in DeskStates
    BY <1>0, <1>3, <2>1 DEF ReadOverride, DeskStates
  <2>. QED BY <1>3, <2>2 DEF ReadOverride, TypeOK
<1>4. ASSUME Decide PROVE TypeOK'
  <2>. DEFINE guardrail == GetHandoffGuardrail(guardrails, QuoteQty(facts, desk.qty))
              decision == BuildQuoteContext(facts, desk.ctx, desk.override, guardrail, desk.qty)
  <2>1. guardrail \in GuardrailRows \cup {NoGuardrail}
    BY <1>0, TablesTyped, QuantitiesTyped, ReadersTyped DEF TypeOK
  <2>2. decision \in Decisions
    <3>. HIDE DEF guardrail
    <3>. QED BY <1>0, <2>1, TablesTyped, BuildTyped
  <2>3. /\ decided' = [asked |-> desk.qty, decision |-> decision, ctx |-> desk.ctx,
                       override |-> desk.override]
        /\ stored' \in {decision, stored}
        /\ desk' = IdleDesk
    BY <1>4 DEF Decide
  <2>. HIDE DEF decision
  <2>4. decided' \in DecidedStates /\ stored' \in Decisions /\ desk' \in DeskStates
    BY <1>0, <2>2, <2>3, IdleTyped DEF DecidedStates
  <2>. QED BY <1>4, <2>4 DEF Decide, TypeOK
<1>5. ASSUME NEW qty \in Quantities, ReplyFromStored(qty) PROVE TypeOK'
  <2>. DEFINE answered == IF qty # 0 THEN qty ELSE stored.qty
              action == ReplyAction(answered, stored)
              price == IF action \in {"auto_quote_preview", "apply_then_handoff_preview"}
                       THEN stored.quote ELSE None
  <2>1. answered \in Nat
    BY <1>0, QuantitiesAssumption DEF Decisions
  <2>2. stored.quote \in Prices /\ stored.auto \in BOOLEAN /\ None \in Prices
    BY <1>0 DEF Decisions, Prices
  <2>. HIDE DEF answered
  <2>3. action \in {"clarify", "auto_quote_preview", "apply_then_handoff_preview", "handoff_no_reply"}
    BY <2>1, <2>2 DEF ReplyAction
  <2>4. reply' = [qty |-> answered, action |-> action, price |-> price]
    BY <1>5 DEF ReplyFromStored, answered
  <2>. HIDE DEF action
  <2>5. reply' \in Replies
    BY <2>1, <2>2, <2>3, <2>4 DEF Replies
  <2>. QED BY <1>5, <2>5 DEF ReplyFromStored, TypeOK
<1>. QED BY <1>1, <1>2, <1>3, <1>4, <1>5 DEF Desk

\* An automatic quote keeps to the boundaries that its decision read.
LEMMA QuoteStep ==
  ASSUME TypeOK, AutoQuoteWithinBoundaries, [Next]_vars
  PROVE  AutoQuoteWithinBoundaries'
<1>. USE DEF sources, desks, counts
<1>1. ASSUME Decide PROVE AutoQuoteWithinBoundaries'
  <2>. DEFINE guardrail == GetHandoffGuardrail(guardrails, QuoteQty(facts, desk.qty))
              decision == BuildQuoteContext(facts, desk.ctx, desk.override, guardrail, desk.qty)
  <2>1. desk.qty \in Nat /\ desk.ctx \in Contexts /\ desk.override \in OverrideRows
    BY DEF TypeOK, DeskStates
  <2>2. guardrail \in GuardrailRows \cup {NoGuardrail}
    BY <2>1, TablesTyped, QuantitiesTyped, ReadersTyped DEF TypeOK
  <2>3. decision.auto =>
         /\ Respects(decision.quote, desk.ctx.floor)
         /\ Respects(decision.quote, desk.ctx.minAuto)
    <3>. HIDE DEF guardrail
    <3>. QED BY <2>1, <2>2, TablesTyped, BuildTyped
  <2>4. decided'.decision = decision /\ decided'.ctx = desk.ctx
    BY <1>1 DEF Decide
  <2>. HIDE DEF decision
  <2>. QED BY <2>3, <2>4 DEF AutoQuoteWithinBoundaries
<1>2. ASSUME ~Decide PROVE decided' = decided
  BY <1>2 DEF Next, vars, Refresh, Desk, ImportErp, StartRefresh, LoadErpRows, OpenOverrides,
              WriteOverrides, ReadRows, CheckRow, OpenGuardrails, WriteGuardrails, CrashRefresh,
              AskForQuote, ReadOverride, ReplyFromStored
<1>. QED BY <1>1, <1>2 DEF AutoQuoteWithinBoundaries

-----------------------------------------------------------------------------
(* Manual rows.                                                            *)

\* What the steps of a refresh do to its state, and that they leave the others'
\* steps and rows alone.
LEMMA RefreshDoes ==
  ASSUME TypeOK, NEW r \in Refreshers, Refresh(r)
  PROVE  /\ manual' = manual /\ facts' = facts /\ erp' = erp
         /\ \A o \in Refreshers \ {r} :
              /\ refresh'[o].pc = refresh[o].pc
              /\ refresh'[o].rows = refresh[o].rows
              /\ refresh'[o].found = refresh[o].found
              /\ refresh'[o].fresh => refresh[o].fresh
<1>. USE DEF sources
<1>0. refresh \in [Refreshers -> RefreshStates]
  BY DEF TypeOK
<1>1. \A s \in RefreshStates : s.fresh \in BOOLEAN
  BY DEF RefreshStates
<1>2. ASSUME NEW guard \in BOOLEAN, StartRefresh(r, guard), NEW o \in Refreshers \ {r}
      PROVE  refresh'[o] = [refresh[o] EXCEPT !.fresh = FALSE]
  BY <1>2 DEF StartRefresh
<1>3. ASSUME LoadErpRows(r) \/ OpenOverrides(r) \/ WriteOverrides(r) \/ ReadRows(r) \/ CheckRow(r)
             \/ OpenGuardrails(r) \/ WriteGuardrails(r) \/ CrashRefresh(r),
             NEW o \in Refreshers \ {r}
      PROVE  refresh'[o] = refresh[o]
  BY <1>0, <1>3 DEF LoadErpRows, OpenOverrides, WriteOverrides, ReadRows, CheckRow, OpenGuardrails,
                    WriteGuardrails, CrashRefresh
<1>4. ASSUME NEW o \in Refreshers \ {r}
      PROVE  refresh'[o] = refresh[o] \/ refresh'[o] = [refresh[o] EXCEPT !.fresh = FALSE]
  BY <1>2, <1>3 DEF Refresh
<1>5. ASSUME NEW o \in Refreshers \ {r}
      PROVE  /\ refresh'[o].pc = refresh[o].pc
             /\ refresh'[o].rows = refresh[o].rows
             /\ refresh'[o].found = refresh[o].found
             /\ refresh'[o].fresh => refresh[o].fresh
  <2>1. refresh[o] \in RefreshStates
    BY <1>0
  <2>. QED BY <1>4, <2>1 DEF RefreshStates
<1>6. manual' = manual /\ facts' = facts /\ erp' = erp
  BY DEF Refresh, StartRefresh, LoadErpRows, OpenOverrides, WriteOverrides, ReadRows, CheckRow,
         OpenGuardrails, WriteGuardrails, CrashRefresh
<1>. QED BY <1>5, <1>6

\* What remains to be shown of the manual rows when r has done a step.
LEMMA ManualFrame ==
  ASSUME NEW r \in Refreshers, manual' = manual, torn \in BOOLEAN, ManualInv,
         \A o \in Refreshers \ {r} : /\ refresh'[o].pc = refresh[o].pc
                                    /\ refresh'[o].rows = refresh[o].rows,
         torn => torn',
         Whole(overrides') \/ Bare(overrides'),
         ~torn' /\ (\A o \in Refreshers : refresh'[o].pc # "write_overrides") => Whole(overrides'),
         refresh'[r].pc \in {"load", "open_overrides", "write_overrides"} =>
           /\ Whole(refresh'[r].rows) \/ Bare(refresh'[r].rows)
           /\ ~torn' => Whole(refresh'[r].rows)
  PROVE  ManualInv'
<1>1. \A rows : Whole(rows)' <=> Whole(rows)
  BY DEF Whole
<1>2. (Whole(overrides)' <=> Whole(overrides')) /\ (Bare(overrides)' <=> Bare(overrides'))
  BY DEF Whole, Bare
<1>3. ASSUME NEW o \in Refreshers
      PROVE  /\ Whole(refresh[o].rows)' <=> Whole(refresh'[o].rows)
             /\ Bare(refresh[o].rows)' <=> Bare(refresh'[o].rows)
  BY DEF Whole, Bare
<1>4. ASSUME NEW o \in Refreshers,
             refresh'[o].pc \in {"load", "open_overrides", "write_overrides"}
      PROVE  /\ Whole(refresh'[o].rows) \/ Bare(refresh'[o].rows)
             /\ ~torn' => Whole(refresh'[o].rows)
  BY <1>4 DEF ManualInv
<1>. QED BY <1>2, <1>3, <1>4 DEF ManualInv

\* Every step of a refresh keeps the manual rows where they are.
LEMMA ManualRefresh ==
  ASSUME TypeOK, ManualInv, NEW r \in Refreshers, Refresh(r)
  PROVE  ManualInv'
<1>0. /\ refresh \in [Refreshers -> RefreshStates]
      /\ refresh[r].rows \in Seq(OverrideRows)
      /\ torn \in BOOLEAN /\ overrides \in Seq(OverrideRows)
  BY DEF TypeOK, RefreshStates
<1>a. /\ manual' = manual
      /\ \A o \in Refreshers \ {r} : /\ refresh'[o].pc = refresh[o].pc
                                    /\ refresh'[o].rows = refresh[o].rows
  BY RefreshDoes
<1>b. IdleRefresh.pc = "idle"
  BY DEF IdleRefresh
<1>1. ASSUME NEW guard \in BOOLEAN, StartRefresh(r, guard) PROVE ManualInv'
  <2>1. overrides' = overrides /\ refresh'[r].pc = "load" /\ refresh'[r].rows = overrides
    BY <1>1 DEF StartRefresh, IdleRefresh
  <2>2. torn' <=> torn \/ \E o \in Refreshers : refresh[o].pc = "write_overrides"
    BY <1>1 DEF StartRefresh
  <2>3. refresh[r].pc = "idle"
    BY <1>1 DEF StartRefresh
  <2>. QED BY <1>0, <1>a, <2>1, <2>2, <2>3, ManualFrame DEF ManualInv
<1>2. ASSUME LoadErpRows(r) PROVE ManualInv'
  <2>. DEFINE file == GenerateRows(refresh[r].rows, erp)
  <2>1. /\ overrides' = overrides /\ torn' = torn /\ refresh[r].pc = "load"
        /\ refresh'[r].pc = "open_overrides"
        /\ refresh'[r].rows = file
    BY <1>0, <1>2 DEF LoadErpRows
  <2>2. Whole(refresh[r].rows) \/ Bare(refresh[r].rows)
    BY <2>1 DEF ManualInv
  <2>3. /\ Whole(refresh[r].rows) => Whole(file)
        /\ Whole(file) \/ Bare(file)
    BY <1>0, <2>2, TablesTyped, GeneratedFile DEF TypeOK
  <2>. HIDE DEF file
  <2>. QED BY <1>0, <1>a, <2>1, <2>3, ManualFrame DEF ManualInv
<1>3. ASSUME OpenOverrides(r) PROVE ManualInv'
  <2>1. /\ overrides' = <<>> /\ torn' = torn /\ refresh[r].pc = "open_overrides"
        /\ refresh'[r].pc = "write_overrides" /\ refresh'[r].rows = refresh[r].rows
    BY <1>0, <1>3 DEF OpenOverrides
  <2>2. Bare(<<>>)
    BY DEF Bare
  <2>. QED BY <1>0, <1>a, <2>1, <2>2, ManualFrame DEF ManualInv
<1>4. ASSUME WriteOverrides(r) PROVE ManualInv'
  <2>1. /\ overrides' = refresh[r].rows /\ torn' = torn /\ refresh[r].pc = "write_overrides"
        /\ refresh'[r].pc \in {"read_rows", "idle"}
    BY <1>0, <1>4, <1>b DEF WriteOverrides
  <2>. QED BY <1>0, <1>a, <2>1, ManualFrame DEF ManualInv
<1>5. ASSUME ReadRows(r) \/ CheckRow(r) \/ OpenGuardrails(r) \/ WriteGuardrails(r) PROVE ManualInv'
  <2>1. /\ overrides' = overrides /\ torn' = torn /\ refresh[r].pc # "write_overrides"
        /\ refresh'[r].pc \in {"check", "write_guardrails", "idle"}
    <3>1. CASE ReadRows(r)
      BY <1>0, <3>1 DEF ReadRows
    <3>2. CASE CheckRow(r)
      <4>1. refresh[r] \in RefreshStates /\ refresh[r].pc = "check"
        BY <1>0, <3>2 DEF CheckRow
      <4>2. refresh'[r].pc = "check"
        BY <1>0, <3>2, <4>1 DEF CheckRow, RefreshStates
      <4>. QED BY <3>2, <4>1, <4>2 DEF CheckRow
    <3>3. CASE OpenGuardrails(r)
      BY <1>0, <3>3 DEF OpenGuardrails
    <3>4. CASE WriteGuardrails(r)
      BY <1>0, <1>b, <3>4 DEF WriteGuardrails
    <3>. QED BY <1>5, <3>1, <3>2, <3>3, <3>4
  <2>. QED BY <1>0, <1>a, <2>1, ManualFrame DEF ManualInv
<1>6. ASSUME CrashRefresh(r) PROVE ManualInv'
  <2>1. overrides' = overrides /\ refresh'[r].pc = "idle"
    BY <1>0, <1>6, <1>b DEF CrashRefresh
  <2>2. torn' <=> torn \/ refresh[r].pc = "write_overrides"
    BY <1>6 DEF CrashRefresh
  <2>. QED BY <1>0, <1>a, <2>1, <2>2, ManualFrame DEF ManualInv
<1>. QED BY <1>1, <1>2, <1>3, <1>4, <1>5, <1>6 DEF Refresh

\* No other step touches the files or what the refreshes have read.
LEMMA ManualOther ==
  ASSUME TypeOK, ManualInv, ImportErp \/ Desk \/ (\E qty \in Quantities : ReplyFromStored(qty))
                            \/ UNCHANGED vars
  PROVE  ManualInv'
<1>1. manual' = manual /\ overrides' = overrides /\ torn' = torn
  BY DEF ImportErp, Desk, AskForQuote, ReadOverride, Decide, ReplyFromStored, vars, sources, desks
<1>2. \A o \in Refreshers : refresh'[o].pc = refresh[o].pc /\ refresh'[o].rows = refresh[o].rows
  <2>1. CASE ImportErp
    BY <2>1 DEF ImportErp, TypeOK, RefreshStates
  <2>2. CASE ~ImportErp
    BY <2>2 DEF Desk, AskForQuote, ReadOverride, Decide, ReplyFromStored, vars
  <2>. QED BY <2>1, <2>2
<1>3. ASSUME NEW o \in Refreshers
      PROVE  /\ Whole(refresh[o].rows)' <=> Whole(refresh[o].rows)
             /\ Bare(refresh[o].rows)' <=> Bare(refresh[o].rows)
  BY <1>1, <1>2 DEF Whole, Bare
<1>4. (Whole(overrides)' <=> Whole(overrides)) /\ (Bare(overrides)' <=> Bare(overrides))
  BY <1>1 DEF Whole, Bare
<1>. QED BY <1>1, <1>2, <1>3, <1>4 DEF ManualInv

\* The manual rows of a file that has them are what its readers find.
LEMMA WholeMeansManual ==
  ASSUME TypeOK, ManualInv
  PROVE  ManualRowsWin
<1>1. SUFFICES ASSUME Whole(overrides), NEW qty \in Quantities,
                      GetFirstRoundOverride(manual, qty) # NoOverride
               PROVE  GetFirstRoundOverride(overrides, qty) = GetFirstRoundOverride(manual, qty)
  BY DEF ManualRowsWin, ManualInv
<1>2. qty \in Nat \ {0}
  BY <1>1, QuantitiesAssumption DEF GetFirstRoundOverride
<1>3. overrides \in Seq(OverrideRows) /\ manual \in Seq(OverrideRows)
  <2>1. manual \in Seq({row \in OverrideRows : ~row.generated})
    BY TablesAssumption DEF TypeOK
  <2>. QED BY <2>1, SeqMono DEF TypeOK
<1>4. PICK i \in 1 .. Len(manual) :
        /\ GetFirstRoundOverride(manual, qty) = manual[i]
        /\ Covers(manual[i], qty)
        /\ \A j \in 1 .. Len(manual) : j < i => ~Covers(manual[j], qty)
  BY <1>1, <1>2, <1>3, OverrideIsFirst
<1>5. /\ Len(manual) <= Len(overrides)
      /\ \A j \in 1 .. Len(manual) : overrides[j] = manual[j]
      /\ Len(manual) \in Nat /\ Len(overrides) \in Nat
  BY <1>1, <1>3 DEF Whole
<1>6. i \in 1 .. Len(overrides) /\ Covers(overrides[i], qty)
  BY <1>4, <1>5
<1>7. PICK k \in 1 .. Len(overrides) :
        /\ GetFirstRoundOverride(overrides, qty) = overrides[k]
        /\ Covers(overrides[k], qty)
        /\ \A j \in 1 .. Len(overrides) : j < k => ~Covers(overrides[j], qty)
  BY <1>2, <1>3, <1>6, OverrideIsFirst
<1>8. ~(i < k)
  BY <1>6, <1>7
<1>9. k \in 1 .. Len(manual)
  BY <1>5, <1>7, <1>8
<1>10. ~(k < i)
  BY <1>4, <1>5, <1>7, <1>9
<1>11. i = k
  BY <1>7, <1>8, <1>9, <1>10, <1>5
<1>. QED BY <1>4, <1>5, <1>7, <1>11

-----------------------------------------------------------------------------
(* Files in step with the workbook.                                        *)

\* While one refresh is under way, nothing is settled and no other has a fresh view.
LEMMA Alone ==
  ASSUME SyncInv, NEW r \in Refreshers, refresh[r].pc # "idle"
  PROVE  ~settled /\ \A o \in Refreshers \ {r} : ~refresh[o].fresh
BY DEF SyncInv, FreshOK

\* With the same tables and rows, a row quantity is decided in the same way.
LEMMA SameDecisions ==
  ASSUME erp' = erp, facts' = facts, overrides' = overrides
  PROVE  /\ \A qty : SmokeDecision(qty)' = SmokeDecision(qty)
         /\ \A row, found : Guarded(row, found)' <=> Guarded(row, found)
         /\ \A found : Justified(found)' <=> Justified(found)
<1>1. \A qty : SmokeDecision(qty)' = SmokeDecision(qty)
  BY DEF SmokeDecision, Context
<1>2. \A row, found : Guarded(row, found)' <=> Guarded(row, found)
  BY <1>1 DEF Guarded
<1>3. \A found : Justified(found)' <=> Justified(found)
  BY <1>1 DEF Justified
<1>. QED BY <1>1, <1>2, <1>3

\* With the same workbook and manual rows, the same rows follow it.
LEMMA SameFollowing ==
  ASSUME erp' = erp, manual' = manual
  PROVE  \A rows : FollowsErp(rows)' <=> FollowsErp(rows)
BY DEF FollowsErp, LeftToManual

\* What remains to be shown of the files' agreement when r has done a step.
LEMMA SyncFrame ==
  ASSUME NEW r \in Refreshers, TypeOK, SyncInv, Refresh(r),
         \A o \in Refreshers \ {r} : ~refresh'[o].fresh,
         refresh'[r].fresh => FreshOK(r)',
         refresh'[r].pc = "load" => refresh'[r].found = <<>>,
         ~settled'
  PROVE  SyncInv'
<1>1. \A o \in Refreshers \ {r} : refresh'[o].pc = "load" => refresh'[o].found = <<>>
  BY RefreshDoes DEF SyncInv
<1>2. ASSUME NEW o \in Refreshers
      PROVE  /\ refresh'[o].fresh => FreshOK(o)'
             /\ refresh'[o].pc = "load" => refresh'[o].found = <<>>
  BY <1>1
<1>. QED BY <1>2 DEF SyncInv

\* The rows that a smoke check has passed over need no guardrail.
LEMMA CheckedIsGuarded ==
  ASSUME TypeOK, NEW row \in OverrideRows, NEW found \in Seq(GuardrailRows), Justified(found),
         NEW more,
         \/ NeedsNoGuardrail(SmokeDecision(RowQty(row))) /\ more = found
         \/ /\ ~NeedsNoGuardrail(SmokeDecision(RowQty(row)))
            /\ more = Append(found, GuardrailOf(RowQty(row), SmokeDecision(RowQty(row))))
  PROVE  /\ Guarded(row, more)
         /\ Justified(more)
         /\ \A other : Guarded(other, found) => Guarded(other, more)
<1>. DEFINE qty == RowQty(row)
            g == GuardrailOf(qty, SmokeDecision(qty))
<1>1. qty \in Nat
  BY QuantitiesTyped
<1>2. /\ SmokeDecision(qty) \in Decisions
      /\ NeedsNoGuardrail(SmokeDecision(qty)) => SmokeDecision(qty).auto
      /\ g \in GuardrailRows
  BY <1>1, SmokeTyped
<1>3. g.qty = IF qty = 0 THEN None ELSE qty
  BY DEF GuardrailOf
<1>4. CASE NeedsNoGuardrail(SmokeDecision(qty))
  BY <1>2, <1>4 DEF Guarded
<1>5. CASE ~NeedsNoGuardrail(SmokeDecision(qty))
  <2>1. ~SmokeDecision(qty).auto
    BY <1>5 DEF NeedsNoGuardrail
  <2>. HIDE DEF g
  <2>2. more = Append(found, g)
    BY <1>5 DEF g
  <2>3. ToSet(more) = ToSet(found) \cup {g}
    <3>1. /\ more \in Seq(GuardrailRows) /\ Len(more) = Len(found) + 1 /\ Len(found) \in Nat
          /\ more[Len(found) + 1] = g
          /\ \A i \in 1 .. Len(found) : more[i] = found[i]
      BY <1>2, <2>2
    <3>2. ToSet(more) = {more[i] : i \in 1 .. Len(more)} /\ ToSet(found) = {found[i] : i \in 1 .. Len(found)}
      BY <3>1 DEF ToSet
    <3>. HIDE DEF g
    <3>3. \A x \in ToSet(more) : x \in ToSet(found) \cup {g}
      BY <3>1, <3>2
    <3>4. \A x \in ToSet(found) \cup {g} : x \in ToSet(more)
      BY <3>1, <3>2
    <3>. QED BY <3>3, <3>4
  <2>. HIDE DEF qty
  <2>4. Justified(more)
    BY <1>3, <2>1, <2>3 DEF Justified
  <2>5. Guarded(row, more)
    BY <1>3, <2>3 DEF Guarded, qty
  <2>6. \A other : Guarded(other, found) => Guarded(other, more)
    BY <2>3 DEF Guarded
  <2>. QED BY <2>4, <2>5, <2>6
<1>. QED BY <1>4, <1>5

\* A list is its first row and the others.
LEMMA HeadAndTail ==
  ASSUME NEW S, NEW rows \in Seq(S), rows # <<>>
  PROVE  Head(rows) \in S /\ ToSet(rows) = {Head(rows)} \cup ToSet(Tail(rows))
<1>1. /\ Len(rows) \in Nat \ {0} /\ Head(rows) = rows[1] /\ DOMAIN rows = 1 .. Len(rows)
      /\ Tail(rows) \in Seq(S) /\ Len(Tail(rows)) = Len(rows) - 1
      /\ DOMAIN Tail(rows) = 1 .. Len(rows) - 1
      /\ \A i \in 1 .. Len(rows) - 1 : Tail(rows)[i] = rows[i + 1]
  OBVIOUS
<1>2. /\ ToSet(rows) = {rows[i] : i \in 1 .. Len(rows)}
      /\ ToSet(Tail(rows)) = {Tail(rows)[i] : i \in 1 .. Len(rows) - 1}
  BY <1>1 DEF ToSet
<1>3. ASSUME NEW i \in 1 .. Len(rows) PROVE rows[i] \in {Head(rows)} \cup ToSet(Tail(rows))
  <2>1. CASE i = 1
    BY <1>1, <2>1
  <2>2. CASE i # 1
    <3>1. i - 1 \in 1 .. Len(rows) - 1 /\ Tail(rows)[i - 1] = rows[i]
      BY <1>1, <2>2
    <3>. QED BY <1>2, <3>1
  <2>. QED BY <2>1, <2>2
<1>4. ASSUME NEW x \in {Head(rows)} \cup ToSet(Tail(rows)) PROVE x \in ToSet(rows)
  <2>1. CASE x = Head(rows)
    BY <1>1, <1>2, <2>1
  <2>2. CASE x \in ToSet(Tail(rows))
    <3>1. PICK i \in 1 .. Len(rows) - 1 : x = Tail(rows)[i]
      BY <1>2, <2>2
    <3>2. i + 1 \in 1 .. Len(rows) /\ x = rows[i + 1]
      BY <1>1, <3>1
    <3>. QED BY <1>2, <3>2
  <2>. QED BY <2>1, <2>2
<1>. QED BY <1>1, <1>2, <1>3, <1>4

\* A refresh that ran alone on the present workbook leaves files that agree with it.
LEMMA SyncRefresh ==
  ASSUME TypeOK, ManualInv, SyncInv, NEW r \in Refreshers, Refresh(r)
  PROVE  SyncInv'
<1>0. /\ refresh \in [Refreshers -> RefreshStates]
      /\ refresh[r] \in RefreshStates
      /\ refresh[r].rows \in Seq(OverrideRows)
      /\ refresh[r].found \in Seq(GuardrailRows)
      /\ refresh[r].fresh \in BOOLEAN
      /\ overrides \in Seq(OverrideRows)
  BY DEF TypeOK, RefreshStates
<1>a. /\ manual' = manual /\ facts' = facts /\ erp' = erp
      /\ \A o \in Refreshers \ {r} :
           /\ refresh'[o].pc = refresh[o].pc
           /\ refresh'[o].fresh => refresh[o].fresh
  BY RefreshDoes
<1>b. IdleRefresh.pc = "idle" /\ ~IdleRefresh.fresh /\ IdleRefresh.found = <<>>
  BY DEF IdleRefresh
<1>c. /\ FollowsErp(overrides)' <=> FollowsErp(overrides')
      /\ FollowsErp(refresh[r].rows)' <=> FollowsErp(refresh'[r].rows)
  BY <1>a DEF FollowsErp, LeftToManual
<1>1. ASSUME NEW guard \in BOOLEAN, StartRefresh(r, guard) PROVE SyncInv'
  <2>1. /\ ~settled' /\ ~refresh'[r].fresh /\ refresh'[r].found = <<>>
        /\ \A o \in Refreshers \ {r} : ~refresh'[o].fresh
    BY <1>0, <1>1 DEF StartRefresh, IdleRefresh, RefreshStates
  <2>. QED BY <2>1, SyncFrame
<1>2. ASSUME LoadErpRows(r) PROVE SyncInv'
  <2>. DEFINE file == GenerateRows(refresh[r].rows, erp)
              alone == \A o \in Refreshers \ {r} : refresh[o].pc = "idle"
  <2>1. /\ refresh[r].pc = "load" /\ settled' = settled
        /\ refresh'[r].pc = "open_overrides" /\ refresh'[r].rows = file
        /\ refresh'[r].fresh = alone /\ refresh'[r].found = refresh[r].found
    BY <1>0, <1>2 DEF LoadErpRows, RefreshStates
  <2>2. ~settled /\ \A o \in Refreshers \ {r} : ~refresh[o].fresh
    BY <2>1, Alone
  <2>3. FollowsErp(file)
    <3>1. Whole(refresh[r].rows) \/ Bare(refresh[r].rows)
      BY <2>1 DEF ManualInv
    <3>. QED BY <1>0, <3>1, TablesTyped, GeneratedFile DEF TypeOK
  <2>4. refresh[r].found = <<>>
    BY <2>1 DEF SyncInv
  <2>. HIDE DEF file
  <2>5. refresh'[r].fresh => FreshOK(r)'
    BY <1>a, <1>c, <2>1, <2>2, <2>3, <2>4 DEF FreshOK
  <2>. QED BY <1>a, <2>1, <2>2, <2>5, SyncFrame
<1>3. ASSUME OpenOverrides(r) PROVE SyncInv'
  <2>1. /\ refresh[r].pc = "open_overrides" /\ settled' = settled
        /\ refresh'[r].pc = "write_overrides" /\ refresh'[r].rows = refresh[r].rows
        /\ refresh'[r].fresh = refresh[r].fresh /\ refresh'[r].found = refresh[r].found
    BY <1>0, <1>3 DEF OpenOverrides, RefreshStates
  <2>2. ~settled /\ \A o \in Refreshers \ {r} : ~refresh[o].fresh
    BY <2>1, Alone
  <2>3. refresh[r].fresh => FreshOK(r)
    BY DEF SyncInv
  <2>4. refresh'[r].fresh => FreshOK(r)'
    BY <1>a, <1>c, <2>1, <2>2, <2>3 DEF FreshOK
  <2>. QED BY <1>a, <2>1, <2>2, <2>4, SyncFrame
<1>4. ASSUME WriteOverrides(r) PROVE SyncInv'
  <2>1. /\ refresh[r].pc = "write_overrides" /\ settled' = settled
        /\ overrides' = refresh[r].rows
    BY <1>4 DEF WriteOverrides
  <2>2. ~settled /\ \A o \in Refreshers \ {r} : ~refresh[o].fresh
    BY <2>1, Alone
  <2>3. refresh[r].fresh => FreshOK(r)
    BY DEF SyncInv
  <2>4. CASE ~refresh[r].guard
    <3>1. refresh'[r] = IdleRefresh
      BY <1>0, <1>4, <2>4 DEF WriteOverrides
    <3>. QED BY <1>a, <1>b, <2>1, <2>2, <3>1, SyncFrame
  <2>5. CASE refresh[r].guard
    <3>1. /\ refresh'[r].pc = "read_rows"
          /\ refresh'[r].fresh = refresh[r].fresh /\ refresh'[r].found = refresh[r].found
      BY <1>0, <1>4, <2>5 DEF WriteOverrides, RefreshStates
    <3>2. refresh'[r].found = <<>> => Justified(refresh[r].found)'
      BY DEF Justified, ToSet
    <3>3. refresh'[r].fresh => FreshOK(r)'
      BY <1>a, <1>c, <2>1, <2>2, <2>3, <3>1, <3>2 DEF FreshOK
    <3>. QED BY <1>a, <2>1, <2>2, <3>1, <3>3, SyncFrame
  <2>. QED BY <2>4, <2>5
<1>5. ASSUME ReadRows(r) PROVE SyncInv'
  <2>1. /\ refresh[r].pc = "read_rows" /\ settled' = settled /\ overrides' = overrides
        /\ refresh'[r].pc = "check" /\ refresh'[r].rows = overrides
        /\ refresh'[r].fresh = refresh[r].fresh /\ refresh'[r].found = refresh[r].found
    BY <1>0, <1>5 DEF ReadRows, RefreshStates
  <2>2. ~settled /\ \A o \in Refreshers \ {r} : ~refresh[o].fresh
    BY <2>1, Alone
  <2>3. refresh[r].fresh => FreshOK(r)
    BY DEF SyncInv
  <2>4. Justified(refresh[r].found)' <=> Justified(refresh[r].found)
    BY <1>a, <2>1, SameDecisions DEF Justified
  <2>5. refresh'[r].fresh => FreshOK(r)'
    BY <1>a, <1>c, <2>1, <2>2, <2>3, <2>4 DEF FreshOK
  <2>. QED BY <1>a, <2>1, <2>2, <2>5, SyncFrame
<1>8. ASSUME WriteGuardrails(r) PROVE SyncInv'
  <2>1. /\ refresh[r].pc = "write_guardrails" /\ settled' = refresh[r].fresh
        /\ overrides' = overrides /\ guardrails' = refresh[r].found
        /\ refresh'[r] = IdleRefresh
    BY <1>0, <1>8 DEF WriteGuardrails
  <2>2. ~settled /\ \A o \in Refreshers \ {r} : ~refresh[o].fresh
    BY <2>1, Alone
  <2>3. refresh[r].fresh => FreshOK(r)
    BY DEF SyncInv
  <2>4. CASE ~refresh[r].fresh
    BY <1>a, <1>b, <2>1, <2>2, <2>4, SyncFrame
  <2>5. CASE refresh[r].fresh
    <3>1. /\ \A o \in Refreshers : refresh'[o].pc = "idle"
          /\ \A o \in Refreshers : ~refresh'[o].fresh
      BY <1>a, <1>b, <2>1, <2>2, <2>3, <2>5 DEF FreshOK
    <3>2. FollowsErp(overrides)'
      BY <1>c, <2>1, <2>3, <2>5 DEF FreshOK
    <3>3. Justified(guardrails)'
      <4>1. Justified(refresh[r].found)
        BY <2>1, <2>3, <2>5 DEF FreshOK
      <4>. QED BY <1>a, <2>1, <4>1, SameDecisions DEF Justified
    <3>4. \A row \in ToSet(overrides') : Guarded(row, guardrails)'
      <4>1. \A row \in ToSet(overrides) : Guarded(row, refresh[r].found)
        BY <2>1, <2>3, <2>5 DEF FreshOK
      <4>. QED BY <1>a, <2>1, <4>1, SameDecisions DEF Guarded
    <3>. QED BY <3>1, <3>2, <3>3, <3>4 DEF SyncInv
  <2>. QED BY <2>4, <2>5
<1>9. ASSUME CrashRefresh(r) PROVE SyncInv'
  <2>1. refresh[r].pc # "idle" /\ settled' = settled /\ refresh'[r] = IdleRefresh
    BY <1>0, <1>9 DEF CrashRefresh
  <2>2. ~settled /\ \A o \in Refreshers \ {r} : ~refresh[o].fresh
    BY <2>1, Alone
  <2>. QED BY <1>a, <1>b, <2>1, <2>2, SyncFrame
<1>6. ASSUME CheckRow(r) PROVE SyncInv'
  <2>. DEFINE rows == refresh[r].rows
              row  == Head(rows)
              more == IF NeedsNoGuardrail(SmokeDecision(RowQty(row))) THEN refresh[r].found
                      ELSE Append(refresh[r].found,
                                  GuardrailOf(RowQty(row), SmokeDecision(RowQty(row))))
  <2>1. /\ refresh[r].pc = "check" /\ rows # <<>> /\ settled' = settled /\ overrides' = overrides
        /\ refresh'[r].pc = "check" /\ refresh'[r].rows = Tail(rows) /\ refresh'[r].found = more
        /\ refresh'[r].fresh = refresh[r].fresh
    BY <1>0, <1>6 DEF CheckRow, RefreshStates
  <2>2. ~settled /\ \A o \in Refreshers \ {r} : ~refresh[o].fresh
    BY <2>1, Alone
  <2>3. refresh[r].fresh => FreshOK(r)
    BY DEF SyncInv
  <2>. HIDE DEF rows
  <2>4. row \in OverrideRows /\ ToSet(rows) = {row} \cup ToSet(Tail(rows))
    BY <1>0, <2>1, HeadAndTail DEF rows
  <2>. HIDE DEF row
  <2>5. ASSUME refresh[r].fresh
        PROVE  /\ Justified(more)
               /\ Guarded(row, more)
               /\ \A other : Guarded(other, refresh[r].found) => Guarded(other, more)
    <3>1. Justified(refresh[r].found)
      BY <2>1, <2>3, <2>5 DEF FreshOK
    <3>2. PICK found \in Seq(GuardrailRows) : found = refresh[r].found
      BY <1>0
    <3>3. \/ NeedsNoGuardrail(SmokeDecision(RowQty(row))) /\ more = found
          \/ /\ ~NeedsNoGuardrail(SmokeDecision(RowQty(row)))
             /\ more = Append(found, GuardrailOf(RowQty(row), SmokeDecision(RowQty(row))))
      BY <3>2
    <3>4. Justified(found)
      BY <3>1, <3>2
    <3>. HIDE DEF more
    <3>5. /\ Guarded(row, more)
          /\ Justified(more)
          /\ \A other : Guarded(other, found) => Guarded(other, more)
      BY <2>4, <3>3, <3>4, CheckedIsGuarded
    <3>. QED BY <3>2, <3>5
  <2>. HIDE DEF more
  <2>8. PICK kept : kept = more
    OBVIOUS
  <2>6. ASSUME refresh[r].fresh
        PROVE  \A other \in ToSet(overrides) : other \in ToSet(Tail(rows)) \/ Guarded(other, kept)
    <3>1. \A other \in ToSet(overrides) : other \in ToSet(rows) \/ Guarded(other, refresh[r].found)
      BY <2>1, <2>3, <2>6 DEF FreshOK, rows
    <3>. QED BY <2>4, <2>5, <2>6, <2>8, <3>1
  <2>7. ASSUME refresh'[r].fresh PROVE FreshOK(r)'
    <3>1. refresh[r].fresh /\ FreshOK(r)
      BY <2>1, <2>3, <2>7
    <3>2. \A o \in Refreshers \ {r} : refresh'[o].pc = "idle"
      BY <1>a, <3>1 DEF FreshOK
    <3>3. FollowsErp(overrides)'
      BY <1>c, <2>1, <3>1 DEF FreshOK
    <3>4. Justified(refresh[r].found)'
      <4>1. Justified(kept)
        BY <2>5, <2>8, <3>1
      <4>2. Justified(kept)'
        BY <1>a, <2>1, <4>1, SameDecisions
      <4>. QED BY <2>1, <2>8, <4>2 DEF Justified
    <3>5. (\A other \in ToSet(overrides) :
             other \in ToSet(refresh[r].rows) \/ Guarded(other, refresh[r].found))'
      <4>1. \A other : Guarded(other, kept)' <=> Guarded(other, kept)
        BY <1>a, <2>1, SameDecisions
      <4>2. \A other : Guarded(other, refresh[r].found)' <=> Guarded(other, kept)'
        BY <2>1, <2>8 DEF Guarded
      <4>3. ToSet(refresh'[r].rows) = ToSet(Tail(rows)) /\ ToSet(overrides') = ToSet(overrides)
        BY <2>1
      <4>. QED BY <2>6, <3>1, <4>1, <4>2, <4>3
    <3>. QED BY <2>1, <2>2, <3>2, <3>3, <3>4, <3>5 DEF FreshOK
  <2>. QED BY <1>a, <2>1, <2>2, <2>7, SyncFrame
<1>7. ASSUME OpenGuardrails(r) PROVE SyncInv'
  <2>1. /\ refresh[r].pc = "check" /\ refresh[r].rows = <<>>
        /\ settled' = settled /\ overrides' = overrides
        /\ refresh'[r].pc = "write_guardrails" /\ refresh'[r].found = refresh[r].found
        /\ refresh'[r].fresh = refresh[r].fresh
    BY <1>0, <1>7 DEF OpenGuardrails, RefreshStates
  <2>2. ~settled /\ \A o \in Refreshers \ {r} : ~refresh[o].fresh
    BY <2>1, Alone
  <2>3. refresh[r].fresh => FreshOK(r)
    BY DEF SyncInv
  <2>4. ToSet(refresh[r].rows) = {}
    BY <2>1 DEF ToSet
  <2>7. ASSUME refresh'[r].fresh PROVE FreshOK(r)'
    <3>1. refresh[r].fresh /\ FreshOK(r)
      BY <2>1, <2>3, <2>7
    <3>2. \A o \in Refreshers \ {r} : refresh'[o].pc = "idle"
      BY <1>a, <3>1 DEF FreshOK
    <3>3. FollowsErp(overrides)'
      BY <1>c, <2>1, <3>1 DEF FreshOK
    <3>4. Justified(refresh[r].found)'
      <4>1. Justified(refresh[r].found)
        BY <2>1, <3>1 DEF FreshOK
      <4>. QED BY <1>a, <2>1, <4>1, SameDecisions DEF Justified
    <3>5. (\A row \in ToSet(overrides) : Guarded(row, refresh[r].found))'
      <4>1. \A row \in ToSet(overrides) : Guarded(row, refresh[r].found)
        BY <2>1, <2>4, <3>1 DEF FreshOK
      <4>. QED BY <1>a, <2>1, <4>1, SameDecisions DEF Guarded
    <3>. QED BY <2>1, <2>2, <3>2, <3>3, <3>4, <3>5 DEF FreshOK
  <2>. QED BY <1>a, <2>1, <2>2, <2>7, SyncFrame
<1>. QED BY <1>1, <1>2, <1>3, <1>4, <1>5, <1>6, <1>7, <1>8, <1>9 DEF Refresh


\* An import makes every view stale; no other step touches the files.
LEMMA SyncOther ==
  ASSUME TypeOK, SyncInv, ImportErp \/ Desk \/ (\E qty \in Quantities : ReplyFromStored(qty))
                          \/ UNCHANGED vars
  PROVE  SyncInv'
<1>1. CASE ImportErp
  <2>1. /\ ~settled'
        /\ \A o \in Refreshers : /\ ~refresh'[o].fresh
                                 /\ refresh'[o].pc = refresh[o].pc
                                 /\ refresh'[o].found = refresh[o].found
    BY <1>1 DEF ImportErp, TypeOK, RefreshStates
  <2>. QED BY <2>1 DEF SyncInv
<1>2. CASE ~ImportErp
  <2>1. /\ erp' = erp /\ facts' = facts /\ manual' = manual /\ overrides' = overrides
        /\ guardrails' = guardrails /\ refresh' = refresh /\ settled' = settled
    BY <1>2 DEF Desk, AskForQuote, ReadOverride, Decide, ReplyFromStored, vars, sources
  <2>2. /\ \A found : Justified(found)' <=> Justified(found)
        /\ \A row, found : Guarded(row, found)' <=> Guarded(row, found)
        /\ \A rows : FollowsErp(rows)' <=> FollowsErp(rows)
    BY <2>1, SameDecisions, SameFollowing
  <2>3. \A o \in Refreshers :
          /\ Justified(refresh[o].found)' <=> Justified(refresh[o].found)
          /\ \A row : Guarded(row, refresh[o].found)' <=> Guarded(row, refresh[o].found)
          /\ FollowsErp(refresh[o].rows)' <=> FollowsErp(refresh[o].rows)
    BY <2>1, <2>2 DEF Justified, Guarded, FollowsErp
  <2>4. /\ Justified(guardrails)' <=> Justified(guardrails)
        /\ \A row : Guarded(row, guardrails)' <=> Guarded(row, guardrails)
        /\ FollowsErp(overrides)' <=> FollowsErp(overrides)
    BY <2>1, <2>2 DEF Justified, Guarded, FollowsErp
  <2>5. \A o \in Refreshers : FreshOK(o) => FreshOK(o)'
    BY <2>1, <2>3, <2>4 DEF FreshOK
  <2>. QED BY <2>1, <2>4, <2>5 DEF SyncInv
<1>. QED BY <1>1, <1>2

\* What agrees with the workbook row by row agrees for those who look rows up.
LEMMA SyncMeansFollowing ==
  ASSUME TypeOK, SyncInv
  PROVE  OverridesFollowErp
<1>1. SUFFICES ASSUME settled, NEW line \in ErpGroups(erp), line.taxed > 0, line.stock > 0,
                      ~LeftToManual(line.stock)
               PROVE  GetFirstRoundOverride(overrides, line.stock) # NoOverride
  BY DEF OverridesFollowErp, SyncInv, FollowsErp
<1>2. PICK row \in ToSet(overrides) :
        row.min = line.stock /\ row.max = line.stock /\ row.price # None
  BY <1>1 DEF SyncInv, FollowsErp
<1>3. overrides \in Seq(OverrideRows) /\ erp \in Seq(Lines)
  BY TablesTyped DEF TypeOK
<1>4. line \in Lines
  BY <1>3, GroupsAreLines
<1>5. line.stock \in Nat \ {0}
  BY <1>1, <1>4 DEF Lines, Prices, None
<1>6. PICK i \in 1 .. Len(overrides) : overrides[i] = row
  BY <1>2, <1>3 DEF ToSet
<1>7. Covers(overrides[i], line.stock)
  BY <1>2, <1>5, <1>6 DEF Covers
<1>8. PICK k \in 1 .. Len(overrides) :
        /\ GetFirstRoundOverride(overrides, line.stock) = overrides[k]
        /\ Covers(overrides[k], line.stock)
  BY <1>3, <1>5, <1>7, OverrideIsFirst
<1>9. overrides[k].price # None
  BY <1>8 DEF Covers
<1>10. NoOverride.price = None
  BY DEF NoOverride
<1>. QED BY <1>8, <1>9, <1>10

\* What is guarded row by row is guarded for those who look guardrails up.
LEMMA SyncMeansGuarded ==
  ASSUME TypeOK, SyncInv
  PROVE  GuardrailsInSync
<1>1. SUFFICES ASSUME settled, NEW row \in ToSet(overrides),
                      RowQty(row) # 0, ~SmokeDecision(RowQty(row)).auto
               PROVE  GetHandoffGuardrail(guardrails, RowQty(row)) # NoGuardrail
  BY DEF GuardrailsInSync, SyncInv, Justified
<1>. DEFINE qty == RowQty(row)
<1>2. PICK guardrail \in ToSet(guardrails) : guardrail.qty = qty
  BY <1>1 DEF SyncInv, Guarded
<1>3. overrides \in Seq(OverrideRows) /\ guardrails \in Seq(GuardrailRows)
  BY DEF TypeOK
<1>4. row \in OverrideRows
  BY <1>3 DEF ToSet
<1>5. qty \in Nat \ {0}
  BY <1>1, <1>4, QuantitiesTyped
<1>6. PICK i \in 1 .. Len(guardrails) : guardrails[i] = guardrail
  BY <1>2, <1>3 DEF ToSet
<1>. HIDE DEF qty
<1>7. PICK k \in 1 .. Len(guardrails) : GetHandoffGuardrail(guardrails, qty) = guardrails[k]
  BY <1>2, <1>3, <1>5, <1>6, GuardrailIsFirst
<1>8. guardrails[k].action = "manual_handoff_required"
  <2>1. guardrails[k] \in GuardrailRows
    BY <1>3, <1>7
  <2>. QED BY <2>1 DEF GuardrailRows
<1>9. NoGuardrail.action = "none"
  BY DEF NoGuardrail
<1>. QED BY <1>7, <1>8, <1>9 DEF qty

-----------------------------------------------------------------------------
(* The theorems.                                                           *)

\* The initial files are the operator's, and nothing has been decided.
LEMMA InitInv == Init => IInv
<1>. SUFFICES ASSUME Init PROVE IInv
  OBVIOUS
<1>1. TypeOK
  BY InitTyped
<1>2. AutoQuoteWithinBoundaries
  BY DEF Init, NothingDecided, NoDecision, AutoQuoteWithinBoundaries
<1>3. \A r \in Refreshers : /\ refresh[r].pc = "idle" /\ ~refresh[r].fresh
  BY DEF Init, IdleRefresh
<1>4. ManualInv
  <2>1. manual \in Seq(OverrideRows) /\ overrides = manual
    BY <1>1 DEF Init, TypeOK
  <2>2. Whole(overrides)
    BY <2>1 DEF Whole
  <2>. QED BY <1>3, <2>2 DEF ManualInv
<1>5. SyncInv
  BY <1>3 DEF Init, SyncInv
<1>. QED BY <1>1, <1>2, <1>4, <1>5 DEF IInv

\* Every step keeps the invariant.
LEMMA StepInv ==
  ASSUME IInv, [Next]_vars
  PROVE  IInv'
<1>. USE DEF IInv
<1>1. ASSUME NEW r \in Refreshers, Refresh(r) PROVE IInv'
  BY <1>1, RefreshTyped, QuoteStep, ManualRefresh, SyncRefresh
<1>2. ASSUME ImportErp \/ Desk \/ (\E qty \in Quantities : ReplyFromStored(qty)) \/ UNCHANGED vars
      PROVE  IInv'
  <2>1. TypeOK'
    <3>1. CASE UNCHANGED vars
      BY <3>1 DEF vars, TypeOK
    <3>. QED BY <1>2, <3>1, DeskTyped
  <2>. QED BY <1>2, <2>1, QuoteStep, ManualOther, SyncOther
<1>. QED BY <1>1, <1>2 DEF Next

\* Every reachable state satisfies the inductive invariant.
THEOREM Invariance == Spec => []IInv
<1>1. IInv /\ [Next]_vars => IInv'
  BY StepInv
<1>. QED BY InitInv, <1>1, PTL DEF Spec

\* Tables, files, processes and decisions keep to their types.
THEOREM TypeCorrect == Spec => []TypeOK
<1>1. IInv => TypeOK
  BY DEF IInv
<1>. QED BY <1>1, Invariance, PTL

\* No automatic quote is below a boundary that its decision has read, but for the
\* rounding to four decimals (compute_decision_stub raises to both, whatever an
\* override says, and rounds).
THEOREM QuotesKeepBoundaries == Spec => []AutoQuoteWithinBoundaries
<1>1. IInv => AutoQuoteWithinBoundaries
  BY DEF IInv
<1>. QED BY <1>1, Invariance, PTL

\* A quantity that a manual row prices is quoted from that row, through any
\* number of imports and refreshes (generate_rows).
THEOREM ManualRowsStay == Spec => []ManualRowsWin
<1>1. IInv => ManualRowsWin
  BY WholeMeansManual DEF IInv
<1>. QED BY <1>1, Invariance, PTL

\* After a whole refresh of the present workbook the override file names its
\* prices and no older ones (refresh_quote_first_round_overrides).
THEOREM OverridesFollow == Spec => []OverridesFollowErp
<1>1. IInv => OverridesFollowErp
  BY SyncMeansFollowing DEF IInv
<1>. QED BY <1>1, Invariance, PTL

\* ... and the guardrail file guards the quantities that are handed off and
\* no quantity that is quoted automatically (build_guardrail_rows).
THEOREM GuardrailsAgree == Spec => []GuardrailsInSync
<1>1. IInv => GuardrailsInSync
  BY SyncMeansGuarded DEF IInv
<1>. QED BY <1>1, Invariance, PTL

=============================================================================
