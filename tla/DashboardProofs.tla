-------------------------- MODULE DashboardProofs --------------------------
(***************************************************************************)
(* Theorems about Dashboard, for every set of windows, every content of    *)
(* the table, of the override file and of the store, all inputs and every  *)
(* bound: the rebuilt page shows what the table holds, both currencies     *)
(* agree, and loading the page again changes nothing.                      *)
(***************************************************************************)
EXTENDS Dashboard, SequenceTheorems, WellFoundedInduction, TLAPS

-----------------------------------------------------------------------------
(* Lists.                                                                  *)

Less == {p \in Nat \X Nat : p[1] < p[2]}

\* The order of the numbers is well-founded.
LEMMA LessWF == IsWellFoundedOn(Less, Nat)
<1>1. OpToRel(<, Nat) = Less
  BY Zenon DEF OpToRel, Less
<1>. QED BY <1>1, NatLessThanWellFounded, Zenon

\* Some numbers have a least one.
LEMMA LeastNat ==
  ASSUME NEW T, T \subseteq Nat, T # {}
  PROVE  \E m \in T : \A n \in T : m <= n
<1>1. PICK m \in T : \A n \in T : ~ (<<n, m>> \in Less)
  BY LessWF, WFMin
<1>2. \A n \in T : m \in Nat /\ n \in Nat /\ ~(n < m)
  BY <1>1 DEF Less
<1>3. \A n \in T : m <= n
  BY <1>2
<1>. QED BY <1>3

\* A property of the first place, and of each that follows one that has it, is one
\* of all places.
LEMMA PlaceInduction ==
  ASSUME NEW L \in Nat, NEW good, 0 \in good, \A n \in 1..L : n - 1 \in good => n \in good
  PROVE  0..L \subseteq good
<1>. DEFINE bad == 0..L \ good
<1>1. SUFFICES ASSUME bad # {} PROVE FALSE
  OBVIOUS
<1>2. PICK m \in bad : \A n \in bad : m <= n
  <2>1. bad \subseteq Nat
    OBVIOUS
  <2>. HIDE DEF bad
  <2>. QED BY <1>1, <2>1, LeastNat
<1>3. m \in 1..L /\ m - 1 \in 0..L /\ m - 1 < m
  OBVIOUS
<1>. QED BY <1>2, <1>3

\* Only's loop over the first m members.
Loop(left, list, S, m) ==
  left = [n \in 0..m |-> IF n = 0 THEN <<>>
                         ELSE IF list[n] \in S THEN Append(left[n - 1], list[n])
                         ELSE left[n - 1]]

\* One more turn of it.
LEMMA LoopNext ==
  ASSUME NEW list, NEW S, NEW m \in Nat \ {0}, NEW left, Loop(left, list, S, m - 1)
  PROVE  \E longer : Loop(longer, list, S, m)
<1>. DEFINE longer == [n \in 0..m |->
                         IF n < m THEN left[n]
                         ELSE IF list[m] \in S THEN Append(left[m - 1], list[m])
                         ELSE left[m - 1]]
<1>1. ASSUME NEW n \in 0..m
      PROVE  longer[n] = IF n = 0 THEN <<>>
                         ELSE IF list[n] \in S THEN Append(longer[n - 1], list[n])
                         ELSE longer[n - 1]
  <2>1. CASE n = 0
    BY <2>1 DEF Loop
  <2>2. CASE n \in 1..(m - 1)
    <3>1. /\ n \in 0..(m - 1) /\ n # 0 /\ n < m /\ n - 1 < m /\ n - 1 \in 0..m
      BY <2>2
    <3>2. longer[n] = left[n] /\ longer[n - 1] = left[n - 1]
      BY <3>1
    <3>3. left[n] = IF list[n] \in S THEN Append(left[n - 1], list[n]) ELSE left[n - 1]
      BY <3>1 DEF Loop
    <3>. HIDE DEF longer
    <3>. QED BY <3>1, <3>2, <3>3
  <2>3. CASE n = m
    <3>1. n # 0 /\ ~(n < m) /\ m - 1 < m /\ m - 1 \in 0..m
      BY <2>3
    <3>2. longer[n] = (IF list[m] \in S THEN Append(left[m - 1], list[m]) ELSE left[m - 1])
          /\ longer[n - 1] = left[m - 1]
      BY <2>3, <3>1
    <3>. HIDE DEF longer
    <3>. QED BY <2>3, <3>1, <3>2
  <2>. QED BY <2>1, <2>2, <2>3
<1>2. longer = [n \in 0..m |-> longer[n]]
  OBVIOUS
<1>3. Loop(longer, list, S, m)
  <2>. HIDE DEF longer
  <2>. QED BY <1>1, <1>2 DEF Loop
<1>. QED BY <1>3

\* What Only leaves of a list are members of it that are in the set.
LEMMA OnlyKeeps ==
  ASSUME NEW M, NEW list \in Seq(M), NEW S
  PROVE  Only(list, S) \in Seq(M \cap S)
<1>. DEFINE L == Len(list)
            left == CHOOSE g : Loop(g, list, S, L)
            runs == {m \in 0..L : \E g : Loop(g, list, S, m)}
            good == {n \in 0..L : left[n] \in Seq(M \cap S)}
<1>1. L \in Nat
  OBVIOUS
<1>2. \E g : Loop(g, list, S, L)
  <2>1. 0 \in runs
    <3>. DEFINE none == [n \in 0..0 |-> <<>>]
    <3>1. Loop(none, list, S, 0)
      BY DEF Loop
    <3>. HIDE DEF none
    <3>. QED BY <1>1, <3>1
  <2>2. ASSUME NEW n \in 1..L, n - 1 \in runs PROVE n \in runs
    <3>1. n \in Nat \ {0} /\ n \in 0..L
      BY <1>1
    <3>2. PICK g : Loop(g, list, S, n - 1)
      BY <2>2
    <3>3. \E longer : Loop(longer, list, S, n)
      BY <3>1, <3>2, LoopNext
    <3>. QED BY <3>1, <3>3
  <2>3. L \in 0..L
    BY <1>1
  <2>. HIDE DEF runs, L
  <2>4. 0..L \subseteq runs
    BY <1>1, <2>1, <2>2, PlaceInduction
  <2>. QED BY <2>3, <2>4 DEF runs
<1>3. Loop(left, list, S, L)
  <2>. HIDE DEF L
  <2>. QED BY <1>2
<1>4. Only(list, S) = left[L]
  BY DEF Only, Loop
<1>. HIDE DEF left
<1>5. 0..L \subseteq good
  <2>1. 0 \in good
    <3>1. 0 \in 0..L /\ left[0] = <<>>
      BY <1>1, <1>3 DEF Loop
    <3>2. <<>> \in Seq(M \cap S)
      OBVIOUS
    <3>. HIDE DEF L
    <3>. QED BY <3>1, <3>2
  <2>2. ASSUME NEW n \in 1..L, n - 1 \in good PROVE n \in good
    <3>1. n \in 0..L /\ n # 0 /\ list[n] \in M /\ n \in Nat
      BY <1>1
    <3>2. left[n - 1] \in Seq(M \cap S)
      BY <2>2
    <3>3. left[n] = IF list[n] \in S THEN Append(left[n - 1], list[n]) ELSE left[n - 1]
      <4>. HIDE DEF L
      <4>. QED BY <1>3, <3>1 DEF Loop
    <3>4. left[n] \in Seq(M \cap S)
      <4>1. CASE list[n] \in S
        <5>1. list[n] \in M \cap S
          BY <3>1, <4>1
        <5>2. Append(left[n - 1], list[n]) \in Seq(M \cap S)
          BY <3>2, <5>1
        <5>. QED BY <3>3, <4>1, <5>2
      <4>2. CASE list[n] \notin S
        BY <3>2, <3>3, <4>2
      <4>. QED BY <4>1, <4>2
    <3>. QED BY <3>1, <3>4
  <2>. HIDE DEF good, L
  <2>. QED BY <1>1, <2>1, <2>2, PlaceInduction
<1>6. L \in good
  BY <1>1, <1>5
<1>. QED BY <1>4, <1>6

\* Of some places of a list one is the last.
LEMMA LastPlace ==
  ASSUME NEW L \in Nat, NEW T, T \subseteq 1..L, T # {}
  PROVE  \E k \in T : \A n \in T : n <= k
<1>. DEFINE D == {L - n : n \in T}
<1>1. D \subseteq Nat /\ D # {}
  <2>1. D \subseteq Nat
    OBVIOUS
  <2>2. PICK n \in T : TRUE
    OBVIOUS
  <2>3. L - n \in D
    OBVIOUS
  <2>. QED BY <2>1, <2>3
<1>2. PICK d \in D : \A e \in D : d <= e
  <2>. HIDE DEF D
  <2>. QED BY <1>1, LeastNat
<1>3. PICK k \in T : d = L - k
  OBVIOUS
<1>4. ASSUME NEW n \in T PROVE n <= k
  <2>1. L - n \in D
    OBVIOUS
  <2>2. L - k <= L - n /\ n \in Int /\ k \in Int
    BY <1>2, <1>3, <2>1
  <2>. QED BY <2>2
<1>. QED BY <1>4

-----------------------------------------------------------------------------
(* The scripts: cleaning and building.                                     *)

Whole == {2 * n : n \in 0..100}

\* Normalising order counts gives whole ones, and normalising these changes nothing.
LEMMA NormalizedOrders ==
  /\ \A halves \in Numbers : NormalizeOrders(halves) \in Whole \cup {Nothing}
  /\ \A halves \in Whole \cup {Nothing} : NormalizeOrders(halves) = halves
  /\ Whole \subseteq Numbers /\ Nothing \notin Whole
<1>1. ASSUME NEW halves \in Int, 0 <= halves, halves <= 200 PROVE 2 * ((halves + 1) \div 2) \in Whole
  <2>1. (halves + 1) \div 2 \in 0..100
    BY <1>1
  <2>. QED BY <2>1 DEF Whole
<1>2. 0 \in Whole /\ 200 \in Whole
  <2>1. 0 = 2 * 0 /\ 200 = 2 * 100 /\ 0 \in 0..100 /\ 100 \in 0..100
    OBVIOUS
  <2>. QED BY <2>1 DEF Whole
<1>3. Whole \subseteq Int
  BY DEF Whole
<1>4. ASSUME NEW halves \in Numbers PROVE NormalizeOrders(halves) \in Whole \cup {Nothing}
  BY <1>1, <1>2 DEF NormalizeOrders, Numbers
<1>5. ASSUME NEW halves \in Whole PROVE NormalizeOrders(halves) = halves
  <2>1. PICK n \in 0..100 : halves = 2 * n
    BY DEF Whole
  <2>2. halves # Nothing /\ ~(halves < 0) /\ ~(halves > 200) /\ 2 * ((halves + 1) \div 2) = halves
    BY <2>1, NothingAssumption
  <2>. QED BY <2>2 DEF NormalizeOrders
<1>6. NormalizeOrders(Nothing) = Nothing
  BY DEF NormalizeOrders
<1>7. Whole \subseteq Numbers /\ Nothing \notin Whole
  BY <1>3, NothingAssumption DEF Numbers
<1>. QED BY <1>4, <1>5, <1>6, <1>7

\* Every override is a whole count.
LEMMA OverridesWhole ==
  ASSUME NEW lines \in Overrides, NEW m \in DOMAIN LoadOverrides(lines)
  PROVE  LoadOverrides(lines)[m] \in Whole
<1>. DEFINE valid == {n \in DOMAIN lines : lines[n].value \in Int}
            lastOf(x) == CHOOSE n \in valid : lines[n].model = x /\ \A k \in valid : lines[k].model = x => k <= n
            clamp(halves) == IF halves < 0 THEN 0 ELSE IF halves > 200 THEN 200 ELSE 2 * (halves \div 2)
            places == {n \in valid : lines[n].model = m}
<1>1. LoadOverrides(lines) = [x \in {lines[n].model : n \in valid} |-> clamp(lines[lastOf(x)].value)]
  BY DEF LoadOverrides
<1>2. m \in {lines[n].model : n \in valid}
  BY <1>1
<1>3. places # {} /\ places \subseteq 1..Len(lines) /\ Len(lines) \in Nat
  BY <1>2, TablesAssumption
<1>4. PICK n \in places : \A k \in places : k <= n
  <2>. HIDE DEF places
  <2>. QED BY <1>3, LastPlace
<1>5. n \in valid /\ lines[n].model = m /\ \A k \in valid : lines[k].model = m => k <= n
  BY <1>4
<1>6. lastOf(m) \in valid
  <2>. HIDE DEF valid
  <2>. QED BY <1>5
<1>7. lines[lastOf(m)].value \in Int
  BY <1>6
<1>8. ASSUME NEW halves \in Int PROVE clamp(halves) \in Whole
  <2>1. \A k \in 0..100 : 2 * k \in Whole
    BY DEF Whole
  <2>2. \E k \in 0..100 : clamp(halves) = 2 * k
    <3>1. CASE halves < 0
      <4>1. clamp(halves) = 2 * 0
        BY <3>1
      <4>. QED BY <4>1
    <3>2. CASE halves > 200
      <4>1. clamp(halves) = 2 * 100
        BY <3>2
      <4>. QED BY <4>1
    <3>3. CASE 0 <= halves /\ halves <= 200
      <4>1. clamp(halves) = 2 * (halves \div 2) /\ halves \div 2 \in 0..100
        BY <3>3
      <4>. QED BY <4>1
    <3>. QED BY <3>1, <3>2, <3>3
  <2>. QED BY <2>1, <2>2
<1>9. LoadOverrides(lines)[m] = clamp(lines[lastOf(m)].value)
  <2>. HIDE DEF clamp, lastOf, valid
  <2>. QED BY <1>1, <1>2
<1>. HIDE DEF clamp, lastOf
<1>. QED BY <1>7, <1>8, <1>9

\* What is known of a cleaned row under the overrides o.
Cleaned(row, o) ==
  /\ row.extracted \in Whole \cup {Nothing} /\ row.recent \in Whole \cup {Nothing}
  /\ row.model \in DOMAIN o => row.extracted = o[row.model]

\* Cleaning leaves a row's fields but the counts, which become whole, and cleaning it
\* again changes nothing.
LEMMA CleanedRow ==
  ASSUME NEW row, PartOK(row), NEW o, \A m \in DOMAIN o : o[m] \in Whole
  PROVE  /\ PartOK(CleanRow(row, o)) /\ CleanRow(row, o).model = row.model
         /\ Cleaned(CleanRow(row, o), o)
         /\ CleanRow(CleanRow(row, o), o) = CleanRow(row, o)
<1>1. PICK e, r : /\ e = (IF row.model \in DOMAIN o THEN o[row.model] ELSE NormalizeOrders(row.extracted))
                  /\ r = (IF row.model \in DOMAIN o THEN o[row.model] ELSE NormalizeOrders(row.recent))
  OBVIOUS
<1>2. e \in Whole \cup {Nothing} /\ r \in Whole \cup {Nothing}
  BY <1>1, NormalizedOrders DEF PartOK
<1>3. CleanRow(row, o) = [row EXCEPT !.extracted = e, !.recent = r]
  BY <1>1 DEF CleanRow
<1>4. PICK new : new = [row EXCEPT !.extracted = e, !.recent = r]
  OBVIOUS
<1>5. /\ DOMAIN new = PartFields /\ new.model = row.model /\ new.extracted = e /\ new.recent = r
      /\ new.lc_cny = row.lc_cny
  BY <1>4 DEF PartOK, PartFields
<1>6. PartOK(new)
  BY <1>2, <1>5, NormalizedOrders DEF PartOK, Numbers
<1>7. Cleaned(new, o)
  BY <1>1, <1>2, <1>5 DEF Cleaned
<1>8. CleanRow(new, o) = [new EXCEPT !.extracted = e, !.recent = r]
  <2>1. row.model \notin DOMAIN o => NormalizeOrders(e) = e /\ NormalizeOrders(r) = r
    BY <1>2, NormalizedOrders
  <2>. QED BY <1>1, <1>5, <2>1 DEF CleanRow
<1>9. [new EXCEPT !.extracted = e, !.recent = r] = new
  BY <1>4, <1>5
<1>. QED BY <1>3, <1>4, <1>5, <1>6, <1>7, <1>8, <1>9

\* A cleaned table, cleaned again, is the same.
LEMMA CleanedTable ==
  ASSUME NEW rows, rows \in Seq(ToSet(rows)), \A n \in DOMAIN rows : PartOK(rows[n]),
         NEW o, \A m \in DOMAIN o : o[m] \in Whole
  PROVE  /\ CleanLcData(rows, o) \in Seq(ToSet(CleanLcData(rows, o)))
         /\ \A n \in DOMAIN CleanLcData(rows, o) : PartOK(CleanLcData(rows, o)[n])
         /\ CleanLcData(CleanLcData(rows, o), o) = CleanLcData(rows, o)
<1>1. PICK new : new = CleanLcData(rows, o)
  OBVIOUS
<1>2. /\ DOMAIN new = 1..Len(rows) /\ Len(rows) \in Nat /\ DOMAIN rows = 1..Len(rows)
      /\ new = [n \in 1..Len(rows) |-> new[n]]
      /\ \A n \in 1..Len(rows) : new[n] = CleanRow(rows[n], o)
  BY <1>1 DEF CleanLcData
<1>3. new \in Seq(ToSet(new))
  <2>1. \A n \in 1..Len(rows) : new[n] \in ToSet(new)
    BY <1>2 DEF ToSet
  <2>. QED BY <1>2, <2>1
<1>4. \A n \in 1..Len(rows) : PartOK(new[n]) /\ CleanRow(new[n], o) = new[n]
  BY <1>2, CleanedRow
<1>5. CleanLcData(new, o) = [n \in 1..Len(rows) |-> CleanRow(new[n], o)]
  BY <1>2 DEF CleanLcData
<1>6. CleanLcData(new, o) = new
  BY <1>2, <1>4, <1>5
<1>. QED BY <1>1, <1>2, <1>3, <1>4, <1>6

\* A row that cleaning leaves as it is has been cleaned.
LEMMA UnchangedRow ==
  ASSUME NEW rows, NEW n \in DOMAIN rows, PartOK(rows[n]),
         NEW o, \A m \in DOMAIN o : o[m] \in Whole, CleanLcData(rows, o) = rows
  PROVE  Cleaned(rows[n], o)
<1>1. rows[n] = CleanRow(rows[n], o)
  BY DEF CleanLcData
<1>2. Cleaned(CleanRow(rows[n], o), o)
  BY CleanedRow
<1>. QED BY <1>1, <1>2

\* Of a cleaned row the queries and the overrides give the count it holds.
LEMMA ShownOrders ==
  ASSUME NEW row, NEW o, \A m \in DOMAIN o : o[m] \in Whole, Cleaned(row, o)
  PROVE  /\ Or(row.extracted, row.recent) \in Whole \cup {Nothing}
         /\ Overridden(row.model, o, QueriedOrders(row)) = Or(row.extracted, row.recent)
         /\ Overridden(row.model, o, Or(QueriedOrders(row), 0)) = Or(Or(row.extracted, row.recent), 0)
<1>1. Or(row.extracted, row.recent) \in Whole \cup {Nothing}
  BY DEF Or, Cleaned
<1>2. QueriedOrders(row) = Or(row.extracted, row.recent)
  BY <1>1, NormalizedOrders DEF QueriedOrders
<1>3. CASE row.model \in DOMAIN o
  <2>1. o[row.model] # Nothing /\ row.extracted = o[row.model]
    BY <1>3, NormalizedOrders DEF Cleaned
  <2>. QED BY <1>1, <1>3, <2>1 DEF Or, Overridden
<1>4. CASE row.model \notin DOMAIN o
  BY <1>1, <1>2, <1>4 DEF Overridden
<1>. QED BY <1>3, <1>4

\* The last row of a model is one of its rows.
LEMMA TpMapRow ==
  ASSUME NEW rows, rows \in Seq(ToSet(rows)), NEW o, NEW m \in DOMAIN BuildTpMap(rows, o)
  PROVE  \E n \in DOMAIN rows : /\ rows[n].model = m
                                /\ BuildTpMap(rows, o)[m].platform = rows[n].lc_cny
                                /\ BuildTpMap(rows, o)[m].orders = Overridden(m, o, QueriedOrders(rows[n]))
<1>. DEFINE models == {rows[n].model : n \in DOMAIN rows}
            last(x) == CHOOSE n \in DOMAIN rows : rows[n].model = x /\ \A k \in DOMAIN rows : rows[k].model = x => k <= n
            row(x) == rows[last(x)]
            places == {n \in DOMAIN rows : rows[n].model = m}
<1>1. BuildTpMap(rows, o) =
        [x \in models |-> [model |-> x, platform |-> row(x).lc_cny, st |-> row(x).st,
                           orders |-> Overridden(x, o, QueriedOrders(row(x)))]]
  BY DEF BuildTpMap
<1>2. m \in models
  BY <1>1
<1>3. places # {} /\ places \subseteq 1..Len(rows) /\ Len(rows) \in Nat
  BY <1>2
<1>4. PICK n \in places : \A k \in places : k <= n
  <2>. HIDE DEF places
  <2>. QED BY <1>3, LastPlace
<1>5. n \in DOMAIN rows /\ rows[n].model = m /\ \A k \in DOMAIN rows : rows[k].model = m => k <= n
  BY <1>4
<1>6. last(m) \in DOMAIN rows /\ rows[last(m)].model = m
  BY <1>5
<1>. HIDE DEF last, models
<1>7. /\ BuildTpMap(rows, o)[m].platform = rows[last(m)].lc_cny
      /\ BuildTpMap(rows, o)[m].orders = Overridden(m, o, QueriedOrders(rows[last(m)]))
  BY <1>1, <1>2
<1>. QED BY <1>6, <1>7

\* An entry of the first tab comes from a row of its model.
LEMMA RadarRow ==
  ASSUME NEW rows, rows \in Seq(ToSet(rows)), NEW o, NEW k \in DOMAIN BuildRadar(rows, o)
  PROVE  \E n \in DOMAIN rows :
            /\ BuildRadar(rows, o)[k].model = rows[n].model
            /\ BuildRadar(rows, o)[k].orders = Overridden(rows[n].model, o, Or(QueriedOrders(rows[n]), 0))
<1>. DEFINE priced(row) == /\ row.st # Nothing /\ LcPriceUsd(row) # Nothing
                           /\ row.st > 0 /\ LcPriceUsd(row) > 0
            entry(row) == [model    |-> row.model,
                           orders   |-> Overridden(row.model, o, Or(QueriedOrders(row), 0)),
                           category |-> Category(row.st, LcPriceUsd(row))]
            chosen == {row \in ToSet(rows) : priced(row)}
            kept == Only(rows, chosen)
<1>1. BuildRadar(rows, o) = [n \in DOMAIN kept |-> entry(kept[n])]
  BY DEF BuildRadar
<1>. HIDE DEF chosen
<1>2. kept \in Seq(ToSet(rows) \cap chosen)
  BY OnlyKeeps
<1>. HIDE DEF kept
<1>3. k \in DOMAIN kept
  BY <1>1
<1>4. kept[k] \in ToSet(rows)
  BY <1>2, <1>3
<1>5. PICK n \in DOMAIN rows : kept[k] = rows[n]
  BY <1>4 DEF ToSet
<1>6. BuildRadar(rows, o)[k] = entry(kept[k])
  <2>. HIDE DEF entry
  <2>. QED BY <1>1, <1>3
<1>. QED BY <1>5, <1>6

\* What a user may type into a field of an inventory row, and of a row of the TP table.
InvInput(field, v) ==
  \/ field = "fx" /\ v \in FxInputs
  \/ field = "customer_cny" /\ v \in CnyInputs
  \/ field \in {"supplier_usd", "customer_usd", "stock"} /\ v \in UsdInputs
  \/ field = "model"
TpInput(field, v) ==
  \/ field = "fx" /\ v \in FxInputs
  \/ field \in {"cny", "ship_cny"} /\ v \in CnyInputs
  \/ field \in {"usd", "ship"} /\ v \in UsdInputs

\* The steps that change the rows of a window's inventory, and its TP table.
RowsStep(w) ==
  \/ AddRow(w)
  \/ \E n \in DOMAIN Seed : InvImport(w, Seed[n].model, Seed[n].stock + 1)
  \/ \E n \in DOMAIN win[w].rows : DeleteRow(w, n)
  \/ \E n \in DOMAIN win[w].rows : \E field, v : InvInput(field, v) /\ InvUpdateByInput(w, n, field, v)
TableStep(w) ==
  \/ \E models \in ModelLists, fx \in FxInputs, margin \in Margins : BuildRowsFromInputs(w, models, fx, margin)
  \/ \E n \in DOMAIN win[w].table : \E field, v : TpInput(field, v) /\ EditTp(w, n, field, v)
  \/ \E id : LoadMemo(w, id)
MemoStep(w) == \/ \E name : SaveMemo(w, name)
               \/ \E id : DeleteMemo(w, id)

\* Every step is a script, opens a window, or is a handler of an open one.
LEMMA NextSteps ==
  ASSUME Next
  PROVE  \/ Scripts
         \/ \E w \in Windows : \E tab : Open(w, tab)
         \/ \E w \in Windows : /\ win[w] # Nothing
                               /\ \/ RowsStep(w) \/ InvSave(w) \/ TableStep(w) \/ MemoStep(w)
                                  \/ \E v \in FxInputs : ChangeGlobalFx(w, v)
<1>1. CASE Scripts
  BY <1>1
<1>2. CASE \E w \in Windows, tab \in {"tp", "inv"} : Open(w, tab)
  BY <1>2
<1>3. ASSUME NEW w \in Windows, win[w] # Nothing, Inventory(w)
      PROVE  RowsStep(w) \/ InvSave(w) \/ \E v \in FxInputs : ChangeGlobalFx(w, v)
  <2>1. CASE AddRow(w) \/ InvSave(w) \/ \E v \in FxInputs : ChangeGlobalFx(w, v)
    BY <2>1 DEF RowsStep
  <2>2. CASE \E n \in DOMAIN Seed : InvImport(w, Seed[n].model, Seed[n].stock + 1)
    BY <2>2 DEF RowsStep
  <2>3. ASSUME NEW n \in DOMAIN win[w].rows, DeleteRow(w, n) PROVE RowsStep(w)
    BY <2>3 DEF RowsStep
  <2>4. ASSUME NEW n \in DOMAIN win[w].rows, NEW field, NEW v, InvInput(field, v), InvUpdateByInput(w, n, field, v)
        PROVE  RowsStep(w)
    BY <2>4 DEF RowsStep
  <2>5. ASSUME NEW n \in DOMAIN win[w].rows, NEW v \in FxInputs, InvUpdateByInput(w, n, "fx", v)
        PROVE  RowsStep(w)
    BY <2>4, <2>5 DEF InvInput
  <2>6. ASSUME NEW n \in DOMAIN win[w].rows, NEW v \in CnyInputs, InvUpdateByInput(w, n, "customer_cny", v)
        PROVE  RowsStep(w)
    BY <2>4, <2>6 DEF InvInput
  <2>7. ASSUME NEW n \in DOMAIN win[w].rows, NEW v \in UsdInputs, NEW field \in {"supplier_usd", "customer_usd", "stock"},
               InvUpdateByInput(w, n, field, v)
        PROVE  RowsStep(w)
    BY <2>4, <2>7 DEF InvInput
  <2>8. ASSUME NEW n \in DOMAIN win[w].rows, NEW m, InvUpdateByInput(w, n, "model", m)
        PROVE  RowsStep(w)
    BY <2>4, <2>8 DEF InvInput
  <2>. QED BY <1>3, <2>1, <2>2, <2>3, <2>5, <2>6, <2>7, <2>8 DEF Inventory
<1>4. ASSUME NEW w \in Windows, win[w] # Nothing, TpTable(w)
      PROVE  TableStep(w) \/ MemoStep(w)
  <2>1. CASE \E models \in ModelLists, fx \in FxInputs, margin \in Margins : BuildRowsFromInputs(w, models, fx, margin)
    BY <2>1 DEF TableStep
  <2>2. ASSUME NEW n \in DOMAIN win[w].table, NEW field, NEW v, TpInput(field, v), EditTp(w, n, field, v)
        PROVE  TableStep(w)
    BY <2>2 DEF TableStep
  <2>3. ASSUME NEW n \in DOMAIN win[w].table, NEW v \in FxInputs, EditTp(w, n, "fx", v)
        PROVE  TableStep(w)
    BY <2>2, <2>3 DEF TpInput
  <2>4. ASSUME NEW n \in DOMAIN win[w].table, NEW v \in CnyInputs, NEW field \in {"cny", "ship_cny"}, EditTp(w, n, field, v)
        PROVE  TableStep(w)
    BY <2>2, <2>4 DEF TpInput
  <2>5. ASSUME NEW n \in DOMAIN win[w].table, NEW v \in UsdInputs, NEW field \in {"usd", "ship"}, EditTp(w, n, field, v)
        PROVE  TableStep(w)
    BY <2>2, <2>5 DEF TpInput
  <2>6. CASE \E name \in Names : SaveMemo(w, name)
    BY <2>6 DEF MemoStep
  <2>7. CASE \E id \in win[w].known : LoadMemo(w, id) \/ DeleteMemo(w, id)
    BY <2>7 DEF TableStep, MemoStep
  <2>. QED BY <1>4, <2>1, <2>3, <2>4, <2>5, <2>6, <2>7 DEF TpTable
<1>. QED BY <1>1, <1>2, <1>3, <1>4 DEF Next

\* Only the scripts touch the files.
LEMMA FilesSteps ==
  ASSUME Next
  PROVE  Scripts \/ UNCHANGED files
<1>1. ASSUME NEW w \in Windows, NEW tab, Open(w, tab) PROVE UNCHANGED files
  BY <1>1 DEF Open
<1>2. ASSUME NEW w \in Windows, RowsStep(w) PROVE UNCHANGED files
  BY <1>2 DEF RowsStep, AddRow, InvImport, DeleteRow, InvUpdateByInput
<1>3. ASSUME NEW w \in Windows, TableStep(w) PROVE UNCHANGED files
  BY <1>3 DEF TableStep, BuildRowsFromInputs, EditTp, LoadMemo
<1>4. ASSUME NEW w \in Windows, MemoStep(w) PROVE UNCHANGED files
  BY <1>4 DEF MemoStep, SaveMemo, DeleteMemo
<1>5. ASSUME NEW w \in Windows, NEW v \in FxInputs, InvSave(w) \/ ChangeGlobalFx(w, v) PROVE UNCHANGED files
  BY <1>5 DEF InvSave, ChangeGlobalFx
<1>6. ASSUME NEW w \in Windows, InvSave(w) PROVE UNCHANGED files
  BY <1>6 DEF InvSave
<1>. QED BY <1>1, <1>2, <1>3, <1>4, <1>5, <1>6, NextSteps

\* The invariant of the files holds at the start.
LEMMA DataInit == Init => DataInv
BY TablesAssumption DEF Init, DataInv

\* Every script preserves it.
LEMMA DataStep == DataInv /\ [Next]_vars => DataInv'
<1>. SUFFICES ASSUME DataInv, [Next]_vars PROVE DataInv'
  OBVIOUS
<1>. DEFINE o == LoadOverrides(overrides)
<1>1. \A m \in DOMAIN o : o[m] \in Whole
  BY OverridesWhole DEF DataInv
<1>2. CASE Crawl
  BY <1>2, TablesAssumption DEF Crawl, DataInv
<1>3. CASE EditOverrides
  BY <1>3 DEF EditOverrides, DataInv
<1>4. CASE Clean
  <2>. HIDE DEF o
  <2>1. db' = CleanLcData(db, o) /\ UNCHANGED <<overrides, page, current>>
    BY <1>4 DEF Clean, o
  <2>2. /\ db' \in Seq(ToSet(db')) /\ \A n \in DOMAIN db' : PartOK(db'[n])
        /\ CleanLcData(db', o) = db'
    BY <1>1, <2>1, CleanedTable DEF DataInv
  <2>3. current => cleaned' /\ page' = Build(db', overrides')
    BY <1>4, <2>1 DEF Clean, DataInv, o
  <2>. QED BY <1>4, <2>1, <2>2, <2>3 DEF DataInv, o
<1>5. CASE BuildPage
  BY <1>5 DEF BuildPage, DataInv
<1>6. CASE UNCHANGED files
  BY <1>6 DEF files, DataInv
<1>. QED BY <1>2, <1>3, <1>4, <1>5, <1>6, FilesSteps DEF Scripts, vars, files

\* The scripts may run in any order.
LEMMA DataInvariant == Spec => []DataInv
BY DataInit, DataStep, PTL DEF Spec

\* A page that is current was built from a table that cleaning no longer changes.
LEMMA DataShows == DataInv => RebuiltPageShowsDb
<1>. SUFFICES ASSUME DataInv, current PROVE RebuiltPageShowsDb
  BY DEF RebuiltPageShowsDb
<1>. DEFINE held(m) == {Or(db[n].extracted, db[n].recent) : n \in {k \in DOMAIN db : db[k].model = m}}
<1>1. PICK o : o = LoadOverrides(overrides)
  OBVIOUS
<1>2. \A m \in DOMAIN o : o[m] \in Whole
  BY <1>1, OverridesWhole DEF DataInv
<1>3. /\ page.radar = BuildRadar(db, o) /\ page.tp = BuildTpMap(db, o)
      /\ CleanLcData(db, o) = db /\ db \in Seq(ToSet(db))
  BY <1>1 DEF DataInv, Build
<1>4. ASSUME NEW n \in DOMAIN db
      PROVE  /\ Or(db[n].extracted, db[n].recent) \in held(db[n].model)
             /\ Or(db[n].extracted, db[n].recent) \in Whole \cup {Nothing}
             /\ Overridden(db[n].model, o, QueriedOrders(db[n])) = Or(db[n].extracted, db[n].recent)
             /\ Overridden(db[n].model, o, Or(QueriedOrders(db[n]), 0)) = Or(Or(db[n].extracted, db[n].recent), 0)
  <2>1. Cleaned(db[n], o)
    BY <1>2, <1>3, UnchangedRow DEF DataInv
  <2>2. Or(db[n].extracted, db[n].recent) \in held(db[n].model)
    OBVIOUS
  <2>. HIDE DEF held
  <2>. QED BY <1>2, <2>1, <2>2, ShownOrders
<1>5. \A h \in Whole \cup {Nothing} : Or(h, 0) \in Whole
  <2>1. 0 = 2 * 0 /\ 0 \in 0..100
    OBVIOUS
  <2>2. 0 \in Whole
    BY <2>1 DEF Whole
  <2>. QED BY <2>2 DEF Or
<1>6. ASSUME NEW k \in DOMAIN page.radar
      PROVE  page.radar[k].orders \in {Or(h, 0) : h \in held(page.radar[k].model)} \cap Whole
  <2>. HIDE DEF held
  <2>1. PICK n \in DOMAIN db : /\ page.radar[k].model = db[n].model
                               /\ page.radar[k].orders = Overridden(db[n].model, o, Or(QueriedOrders(db[n]), 0))
    BY <1>3, RadarRow
  <2>2. PICK h : h = Or(db[n].extracted, db[n].recent)
    OBVIOUS
  <2>3. h \in held(page.radar[k].model) /\ h \in Whole \cup {Nothing} /\ page.radar[k].orders = Or(h, 0)
    BY <1>4, <2>1, <2>2
  <2>4. Or(h, 0) \in Whole
    BY <1>5, <2>3
  <2>. QED BY <2>3, <2>4
<1>7. ASSUME NEW m \in DOMAIN page.tp
      PROVE  page.tp[m].orders \in held(m) \cap (Whole \cup {Nothing})
  <2>. HIDE DEF held
  <2>1. PICK n \in DOMAIN db : /\ db[n].model = m
                               /\ page.tp[m].orders = Overridden(m, o, QueriedOrders(db[n]))
    BY <1>3, TpMapRow
  <2>. QED BY <1>4, <2>1
<1>. QED BY <1>6, <1>7 DEF RebuiltPageShowsDb, Whole

\* In the required order, cleaning first and building then, the page shows of each
\* model the orders that the table holds, whole numbers from 0 to 100
\* (clean_lc_data_quality.main, build_profit_radar), for every content of the table
\* and of the override file.
THEOREM PageShowsDb == Spec => []RebuiltPageShowsDb
BY DataInvariant, DataShows, PTL

-----------------------------------------------------------------------------
(* The tables of the TP tab, in windows and memos.                         *)

\* A step that changes one field of a window.
LEMMA SetRowsStep ==
  ASSUME TablesInv, NEW w \in Windows, win[w] # Nothing, NEW rows, SetRows(w, rows)
  PROVE  /\ DOMAIN win' = Windows /\ \A u \in Windows \ {w} : win'[u] = win[u]
         /\ DOMAIN win'[w] = WinFields /\ win'[w].rows = rows
         /\ win'[w].fx = win[w].fx /\ win'[w].tp = win[w].tp /\ win'[w].table = win[w].table
BY DEF TablesInv, SetRows, WinFields

\* The same of the table of the TP tab.
LEMMA SetTableStep ==
  ASSUME TablesInv, NEW w \in Windows, win[w] # Nothing, NEW table, SetTable(w, table)
  PROVE  /\ DOMAIN win' = Windows /\ \A u \in Windows \ {w} : win'[u] = win[u]
         /\ DOMAIN win'[w] = WinFields /\ win'[w].table = table
         /\ win'[w].fx = win[w].fx /\ win'[w].tp = win[w].tp /\ win'[w].rows = win[w].rows
BY DEF TablesInv, SetTable, WinFields

\* The same of the memos a window has listed.
LEMMA SetKnownStep ==
  ASSUME TablesInv, NEW w \in Windows, win[w] # Nothing, NEW known, win' = [win EXCEPT ![w].known = known]
  PROVE  /\ DOMAIN win' = Windows /\ \A u \in Windows \ {w} : win'[u] = win[u]
         /\ DOMAIN win'[w] = WinFields /\ win'[w].table = win[w].table
         /\ win'[w].fx = win[w].fx /\ win'[w].tp = win[w].tp /\ win'[w].rows = win[w].rows
BY DEF TablesInv, WinFields

\* The memos: their rows agree and have a rate.
MemoOK(memo) == TableOK(memo.table) /\ \A k \in DOMAIN memo.table : memo.table[k].fx # Nothing
MemosOK == memos \in Seq(ToSet(memos)) /\ \A n \in DOMAIN memos : MemoOK(memos[n])

\* A step of one window that leaves its table, or another one, in order.
LEMMA TablesKept ==
  ASSUME TablesInv, NEW w \in Windows, PricesOK(page.tp)', MemosOK',
         DOMAIN win' = Windows, \A u \in Windows \ {w} : win'[u] = win[u],
         DOMAIN win'[w] = WinFields, PricesOK(win'[w].tp), TableOK(win'[w].table)
  PROVE  TablesInv'
BY DEF TablesInv, MemosOK, MemoOK

\* The built page has prices that are numbers.
LEMMA BuiltPrices ==
  ASSUME DataInv, NEW o
  PROVE  PricesOK(BuildTpMap(db, o))
<1>1. ASSUME NEW m \in DOMAIN BuildTpMap(db, o) PROVE BuildTpMap(db, o)[m].platform \in Numbers
  <2>1. PICK n \in DOMAIN db : BuildTpMap(db, o)[m].platform = db[n].lc_cny
    BY TpMapRow DEF DataInv
  <2>. QED BY <2>1 DEF DataInv, PartOK
<1>. QED BY <1>1 DEF PricesOK

\* A row of the table as a record.
LEMMA TpRow ==
  ASSUME NEW r, DOMAIN r = TpFields, r.fx \in Rates \cup {0},
         r.usd \in Numbers, r.cny \in Numbers, r.ship \in Numbers, r.ship_cny \in Numbers,
         r.fx # Nothing /\ r.fx > 0 => /\ Or(r.cny, 0) = Rmb(Or(r.usd, 0), r.fx)
                                       /\ Or(r.ship_cny, 0) = Rmb(Or(r.ship, 0), r.fx)
  PROVE  TpRowOK(r)
BY DEF TpRowOK, Or

\* Rates are numbers, the default one among them.
LEMMA RatesAreNumbers ==
  /\ Rates \subseteq Numbers /\ DefaultFx \in Rates /\ Numbers = Int \cup {Nothing}
  /\ \A fx \in Rates \cup {0} : fx # Nothing => fx \in Int
BY InputsAssumption DEF Rates, DefaultFx, Numbers

\* What a price costs in RMB is a number, and no price costs nothing.
LEMMA RmbNumber ==
  ASSUME NEW usd \in Numbers, NEW fx \in Int
  PROVE  /\ Rmb(usd, fx) \in Numbers
         /\ Or(Rmb(usd, fx), 0) = Rmb(Or(usd, 0), fx)
         /\ Rmb(Or(usd, 0), fx) \in Int
<1>1. \A a, b \in Int : a * b \in Int
  OBVIOUS
<1>2. Tax \in Int
  BY TaxAssumption
<1>3. \A x \in Int : x * fx * Tax \in Int
  BY <1>1, <1>2
<1>4. 0 * fx * Tax = 0
  <2>1. 0 * fx = 0
    OBVIOUS
  <2>2. 0 * Tax = 0
    BY <1>2
  <2>. QED BY <2>1, <2>2
<1>5. CASE usd = Nothing
  BY <1>4, <1>5, NothingAssumption DEF Rmb, Or, Numbers
<1>6. CASE usd # Nothing
  BY <1>3, <1>6, NothingAssumption DEF Rmb, Or, Numbers
<1>. QED BY <1>5, <1>6

\* Rendering keeps the currencies of a row in agreement.
LEMMA RenderedRow ==
  ASSUME NEW r, TpRowOK(r), r.fx # Nothing
  PROVE  TpRowOK(RenderTpRow(r))
<1>1. PICK ship, ship_cny : /\ ship = Or(r.ship, r.usd)
                            /\ ship_cny = IF r.ship = Nothing THEN r.cny ELSE Rmb(r.ship, r.fx)
  OBVIOUS
<1>2. PICK new : new = [r EXCEPT !.ship = ship, !.ship_cny = ship_cny]
  OBVIOUS
<1>3. RenderTpRow(r) = new
  BY <1>1, <1>2 DEF RenderTpRow
<1>4. /\ DOMAIN new = TpFields /\ new.fx = r.fx /\ new.usd = r.usd /\ new.cny = r.cny
      /\ new.ship = ship /\ new.ship_cny = ship_cny
  BY <1>2 DEF TpRowOK, TpFields
<1>5. r.fx \in Int /\ r.ship \in Numbers /\ r.usd \in Numbers /\ r.cny \in Numbers
  <2>1. r.fx \in Rates \cup {0}
    BY DEF TpRowOK
  <2>2. r.fx \in Int
    BY <2>1, RatesAreNumbers, Zenon
  <2>3. {r.usd, r.cny, r.ship, r.ship_cny} \subseteq Numbers
    BY DEF TpRowOK
  <2>. QED BY <2>2, <2>3
<1>6. ship \in Numbers /\ ship_cny \in Numbers
  BY <1>1, <1>5, RmbNumber DEF Or
<1>7. r.fx > 0 => Or(ship_cny, 0) = Rmb(Or(ship, 0), r.fx)
  <2>1. CASE r.ship = Nothing
    BY <1>1, <1>5, <2>1 DEF TpRowOK, Or
  <2>2. CASE r.ship # Nothing
    BY <1>1, <1>5, <2>2, RmbNumber DEF Or
  <2>. QED BY <2>1, <2>2
<1>8. r.fx > 0 => Or(r.cny, 0) = Rmb(Or(r.usd, 0), r.fx)
  BY <1>5 DEF TpRowOK, Or
<1>9. r.fx \in Rates \cup {0}
  BY DEF TpRowOK
<1>10. TpRowOK(new)
  BY <1>4, <1>5, <1>6, <1>7, <1>8, <1>9, TpRow
<1>. QED BY <1>3, <1>10

\* A computed row.
LEMMA BuiltRow ==
  ASSUME NEW tp, PricesOK(tp), NEW model, NEW fx \in Rates, fx # Nothing, NEW margin \in Int
  PROVE  TpRowOK(BuildTpRow(tp, model, fx, margin))
<1>1. PICK record : record = ResolveTpRecord(tp, model)
  OBVIOUS
<1>2. PICK platform : platform = IF record = Nothing THEN Nothing ELSE record.platform
  OBVIOUS
<1>3. record = Nothing \/ \E m \in DOMAIN tp : record = tp[m]
  <2>1. PICK candidates : candidates = IF model.tr THEN <<Model(model.part, FALSE), model>>
                                       ELSE <<model, Model(model.part, TRUE)>>
    OBVIOUS
  <2>2. candidates \in Seq(ToSet(candidates))
    <3>1. PICK a, b : candidates = <<a, b>>
      BY <2>1
    <3>2. a \in ToSet(candidates) /\ b \in ToSet(candidates)
      BY <3>1 DEF ToSet
    <3>. QED BY <3>1, <3>2
  <2>3. PICK found : found = Only(candidates, DOMAIN tp)
    OBVIOUS
  <2>4. found \in Seq(ToSet(candidates) \cap DOMAIN tp)
    BY <2>2, <2>3, OnlyKeeps
  <2>5. record = IF found = <<>> THEN Nothing ELSE tp[found[1]]
    BY <1>1, <2>1, <2>3 DEF ResolveTpRecord
  <2>. HIDE DEF Only
  <2>6. found # <<>> => found[1] \in DOMAIN tp
    BY <2>4
  <2>. QED BY <2>5, <2>6
<1>4. platform \in Numbers
  BY <1>2, <1>3 DEF PricesOK, Numbers
<1>5. PICK usd : usd = IF platform = Nothing \/ fx <= 0 THEN Nothing
                       ELSE (platform * (100 + margin)) \div (Tax * fx * 100)
  OBVIOUS
<1>6. fx \in Int
  BY RatesAreNumbers
<1>7. usd \in Numbers
  <2>1. CASE platform = Nothing \/ fx <= 0
    BY <1>5, <2>1 DEF Numbers
  <2>2. CASE platform # Nothing /\ fx > 0
    <3>1. \A a, b \in Nat \ {0} : a * b \in Nat \ {0}
      OBVIOUS
    <3>2. Tax * fx * 100 \in Nat \ {0}
      BY <1>6, <2>2, <3>1, TaxAssumption
    <3>3. platform * (100 + margin) \in Int
      BY <1>4, <2>2 DEF Numbers
    <3>4. \A a \in Int, b \in Nat \ {0} : a \div b \in Int
      OBVIOUS
    <3>. QED BY <1>5, <1>6, <2>2, <3>2, <3>3, <3>4 DEF Numbers
  <2>. QED BY <1>4, <1>6, <2>1, <2>2
<1>8. PICK id : id = IF record = Nothing THEN model ELSE record.model
  OBVIOUS
<1>9. PICK r : r = [model |-> id, fx |-> fx, usd |-> usd, cny |-> Rmb(usd, fx), ship |-> usd, ship_cny |-> Rmb(usd, fx)]
  OBVIOUS
<1>10. BuildTpRow(tp, model, fx, margin) =
         RenderTpRow([model |-> id, fx |-> fx, usd |-> usd, cny |-> Rmb(usd, fx), ship |-> usd, ship_cny |-> Nothing])
  BY <1>1, <1>2, <1>5, <1>8 DEF BuildTpRow
<1>11. BuildTpRow(tp, model, fx, margin) = r
  BY <1>9, <1>10 DEF RenderTpRow, Or, Rmb
<1>12. /\ DOMAIN r = TpFields /\ r.fx = fx /\ r.usd = usd /\ r.cny = Rmb(usd, fx)
       /\ r.ship = usd /\ r.ship_cny = Rmb(usd, fx)
  BY <1>9 DEF TpFields
<1>13. TpRowOK(r)
  BY <1>6, <1>7, <1>12, RmbNumber, TpRow
<1>. QED BY <1>11, <1>13

\* A price in RMB that is typed divides by the rate and the tax.
LEMMA DividedPrice ==
  ASSUME NEW cny \in CnyInputs, NEW fx \in Rates \ {Nothing}, fx > 0
  PROVE  /\ Or(cny, 0) \div (Tax * fx) \in Int
         /\ Or(cny, 0) = Rmb(Or(cny, 0) \div (Tax * fx), fx)
<1>1. fx \in Nat \ {0} /\ Tax \in Nat \ {0}
  BY RatesAreNumbers, TaxAssumption
<1>2. \A a, b \in Nat \ {0} : a * b \in Nat \ {0}
  OBVIOUS
<1>3. PICK k \in Nat \ {0} : k = Tax * fx
  BY <1>1, <1>2
<1>4. cny \in Int \cup {Nothing}
  BY InputsAssumption DEF Numbers
<1>5. Or(cny, 0) \in Int
  BY <1>4 DEF Or
<1>6. \A a \in Int, b \in Nat \ {0} : a \div b \in Int
  OBVIOUS
<1>7. Or(cny, 0) \div k \in Int
  BY <1>5, <1>6
<1>8. CASE cny = Nothing
  <2>1. 0 \div k = 0
    OBVIOUS
  <2>2. 0 * fx = 0 /\ 0 * Tax = 0
    BY <1>1
  <2>3. 0 # Nothing
    BY NothingAssumption
  <2>. QED BY <1>3, <1>8, <2>1, <2>2, <2>3 DEF Or, Rmb
<1>9. CASE cny # Nothing
  <2>1. (cny \div (Tax * fx)) * fx * Tax = cny
    BY <1>9, ExactAssumption
  <2>2. cny \div k \in Int
    BY <1>7, <1>9 DEF Or
  <2>3. cny \div k # Nothing
    BY <2>2, NothingAssumption
  <2>. QED BY <1>3, <1>9, <2>1, <2>2, <2>3 DEF Or, Rmb
<1>. QED BY <1>3, <1>7, <1>8, <1>9

\* A row after a change of one field.
LEMMA RefreshedRow ==
  ASSUME NEW row, TpRowOK(row), NEW field, NEW v, TpInput(field, v)
  PROVE  TpRowOK(RefreshRowCalculated([row EXCEPT ![field] = v], field))
<1>1. PICK typed : typed = [row EXCEPT ![field] = v]
  OBVIOUS
<1>2. PICK new : new = RefreshRowCalculated(typed, field)
  OBVIOUS
<1>3. DOMAIN row = TpFields /\ DOMAIN typed = TpFields
  BY <1>1 DEF TpRowOK
<1>4. /\ row.fx \in Rates \cup {0}
      /\ row.usd \in Numbers /\ row.cny \in Numbers /\ row.ship \in Numbers /\ row.ship_cny \in Numbers
  <2>1. {row.usd, row.cny, row.ship, row.ship_cny} \subseteq Numbers /\ row.fx \in Rates \cup {0}
    BY DEF TpRowOK
  <2>. QED BY <2>1
<1>5. Rates \cup {0} \subseteq Int \cup {Nothing} /\ Numbers = Int \cup {Nothing}
  BY RatesAreNumbers
<1>6. /\ FxInputs \subseteq Rates \cup {0}
      /\ CnyInputs \subseteq Numbers /\ UsdInputs \subseteq Numbers
  BY InputsAssumption DEF Rates
<1>7. /\ typed.fx \in Rates \cup {0}
      /\ typed.usd \in Numbers /\ typed.cny \in Numbers /\ typed.ship \in Numbers /\ typed.ship_cny \in Numbers
  BY <1>1, <1>3, <1>4, <1>6 DEF TpInput, TpFields
<1>8. \A usd \in Numbers : Or(usd, 0) \in Int
  BY <1>5 DEF Or
<1>9. CASE Or(typed.fx, 0) <= 0
  <2>1. new = typed
    BY <1>2, <1>9 DEF RefreshRowCalculated
  <2>2. ~(typed.fx # Nothing /\ typed.fx > 0)
    BY <1>5, <1>7, <1>9 DEF Or
  <2>. QED BY <1>1, <1>2, <1>3, <1>7, <2>1, <2>2, TpRow
<1>10. CASE ~(Or(typed.fx, 0) <= 0)
  <2>1. PICK fx : fx = typed.fx
    OBVIOUS
  <2>2. fx \in Int /\ fx # Nothing /\ fx > 0 /\ Or(typed.fx, 0) = fx /\ fx \in Rates
    <3>1. typed.fx # Nothing
      BY <1>10 DEF Or
    <3>2. typed.fx \in Int /\ Or(typed.fx, 0) = typed.fx
      BY <1>5, <1>7, <3>1 DEF Or
    <3>. QED BY <1>7, <1>10, <2>1, <3>1, <3>2
  <2>3. field # "fx" => row.fx = fx /\ Or(row.fx, 0) > 0
    BY <1>1, <1>3, <2>1, <2>2 DEF TpFields, Or
  <2>4. field # "fx" => /\ Or(row.cny, 0) = Rmb(Or(row.usd, 0), fx)
                        /\ Or(row.ship_cny, 0) = Rmb(Or(row.ship, 0), fx)
    BY <2>3 DEF TpRowOK
  <2>5. \A usd \in Numbers : Rmb(Or(usd, 0), fx) \in Int
    BY <2>2, RmbNumber
  <2>6. \A x \in Int : Or(x, 0) = x
    BY NothingAssumption DEF Or
  <2>7. CASE field = "usd"
    <3>1. new = [typed EXCEPT !.cny = Rmb(Or(typed.usd, 0), fx)]
      BY <1>2, <1>10, <2>2, <2>7 DEF RefreshRowCalculated
    <3>2. /\ DOMAIN new = TpFields /\ new.fx = fx /\ new.usd = typed.usd /\ new.ship = row.ship
          /\ new.ship_cny = row.ship_cny /\ new.cny = Rmb(Or(typed.usd, 0), fx)
      BY <1>1, <1>3, <2>1, <2>7, <3>1 DEF TpFields
    <3>3. new.cny \in Int /\ Or(new.cny, 0) = new.cny
      BY <1>7, <2>5, <2>6, <3>2
    <3>4. TpRowOK(new)
      BY <1>4, <1>5, <1>7, <2>2, <2>4, <2>7, <3>2, <3>3, TpRow
    <3>. QED BY <1>1, <1>2, <3>4
  <2>8. CASE field = "cny"
    <3>1. new = [typed EXCEPT !.usd = Or(typed.cny, 0) \div (Tax * fx)]
      BY <1>2, <1>10, <2>2, <2>8 DEF RefreshRowCalculated
    <3>2. /\ DOMAIN new = TpFields /\ new.fx = fx /\ new.cny = v /\ new.ship = row.ship
          /\ new.ship_cny = row.ship_cny /\ new.usd = Or(v, 0) \div (Tax * fx)
      BY <1>1, <1>3, <2>1, <2>8, <3>1 DEF TpFields
    <3>3. v \in CnyInputs
      BY <2>8 DEF TpInput
    <3>4. new.usd \in Int /\ Or(v, 0) = Rmb(new.usd, fx)
      BY <2>2, <3>2, <3>3, DividedPrice
    <3>5. Or(new.cny, 0) = Rmb(Or(new.usd, 0), fx)
      BY <2>6, <3>2, <3>4
    <3>6. TpRowOK(new)
      BY <1>4, <1>5, <1>6, <2>2, <2>4, <2>8, <3>2, <3>3, <3>4, <3>5, TpRow
    <3>. QED BY <1>1, <1>2, <3>6
  <2>9. CASE field = "ship"
    <3>1. new = [typed EXCEPT !.ship_cny = Rmb(Or(typed.ship, 0), fx)]
      BY <1>2, <1>10, <2>2, <2>9 DEF RefreshRowCalculated
    <3>2. /\ DOMAIN new = TpFields /\ new.fx = fx /\ new.usd = row.usd /\ new.ship = typed.ship
          /\ new.cny = row.cny /\ new.ship_cny = Rmb(Or(typed.ship, 0), fx)
      BY <1>1, <1>3, <2>1, <2>9, <3>1 DEF TpFields
    <3>3. new.ship_cny \in Int /\ Or(new.ship_cny, 0) = new.ship_cny
      BY <1>7, <2>5, <2>6, <3>2
    <3>4. TpRowOK(new)
      BY <1>4, <1>5, <1>7, <2>2, <2>4, <2>9, <3>2, <3>3, TpRow
    <3>. QED BY <1>1, <1>2, <3>4
  <2>10. CASE field = "ship_cny"
    <3>1. new = [typed EXCEPT !.ship = Or(typed.ship_cny, 0) \div (Tax * fx)]
      BY <1>2, <1>10, <2>2, <2>10 DEF RefreshRowCalculated
    <3>2. /\ DOMAIN new = TpFields /\ new.fx = fx /\ new.cny = row.cny /\ new.usd = row.usd
          /\ new.ship_cny = v /\ new.ship = Or(v, 0) \div (Tax * fx)
      BY <1>1, <1>3, <2>1, <2>10, <3>1 DEF TpFields
    <3>3. v \in CnyInputs
      BY <2>10 DEF TpInput
    <3>4. new.ship \in Int /\ Or(v, 0) = Rmb(new.ship, fx)
      BY <2>2, <3>2, <3>3, DividedPrice
    <3>5. Or(new.ship_cny, 0) = Rmb(Or(new.ship, 0), fx)
      BY <2>6, <3>2, <3>4
    <3>6. TpRowOK(new)
      BY <1>4, <1>5, <1>6, <2>2, <2>4, <2>10, <3>2, <3>3, <3>4, <3>5, TpRow
    <3>. QED BY <1>1, <1>2, <3>6
  <2>11. CASE field = "fx"
    <3>1. new = [typed EXCEPT !.cny = Rmb(Or(typed.usd, 0), fx), !.ship_cny = Rmb(Or(typed.ship, 0), fx)]
      BY <1>2, <1>10, <2>2, <2>11 DEF RefreshRowCalculated
    <3>2. /\ DOMAIN new = TpFields /\ new.fx = fx /\ new.usd = typed.usd /\ new.ship = typed.ship
          /\ new.cny = Rmb(Or(typed.usd, 0), fx) /\ new.ship_cny = Rmb(Or(typed.ship, 0), fx)
      BY <1>3, <2>1, <3>1 DEF TpFields
    <3>3. /\ new.cny \in Int /\ Or(new.cny, 0) = new.cny
          /\ new.ship_cny \in Int /\ Or(new.ship_cny, 0) = new.ship_cny
      BY <1>7, <2>5, <2>6, <3>2
    <3>4. TpRowOK(new)
      BY <1>5, <1>7, <2>2, <3>2, <3>3, TpRow
    <3>. QED BY <1>1, <1>2, <3>4
  <2>. QED BY <2>7, <2>8, <2>9, <2>10, <2>11 DEF TpInput
<1>11. Or(typed.fx, 0) \in Int
  BY <1>5, <1>7 DEF Or
<1>. QED BY <1>9, <1>10

\* The tables are in order at the start.
LEMMA TablesInit == Init => TablesInv
<1>. SUFFICES ASSUME Init PROVE TablesInv
  OBVIOUS
<1>1. page.tp = BuildTpMap(db, LoadOverrides(overrides))
  BY DEF Init, Build
<1>2. PricesOK(page.tp)
  BY <1>1, DataInit, BuiltPrices
<1>. QED BY <1>2 DEF Init, TablesInv

\* What a step does not touch stays in order.
LEMMA TablesUnchanged ==
  ASSUME TablesInv, UNCHANGED <<page, memos, win>>
  PROVE  TablesInv'
BY DEF TablesInv, PricesOK, TableOK

\* The scripts: only the prices of the page change.
LEMMA TablesScripts ==
  ASSUME DataInv, TablesInv, Scripts
  PROVE  TablesInv'
<1>1. CASE UNCHANGED <<page, memos, win>>
  BY <1>1, TablesUnchanged
<1>2. CASE BuildPage
  <2>1. page'.tp = BuildTpMap(db, LoadOverrides(overrides)) /\ UNCHANGED <<memos, win>>
    BY <1>2 DEF BuildPage, Build
  <2>2. PricesOK(page'.tp)
    BY <2>1, BuiltPrices
  <2>. QED BY <2>1, <2>2 DEF TablesInv
<1>. QED BY <1>1, <1>2 DEF Scripts, Crawl, EditOverrides, Clean

\* Open, the rows of the inventory and its rate leave the tables in order.
LEMMA TablesOpen ==
  ASSUME TablesInv, NEW w \in Windows, NEW tab, Open(w, tab)
  PROVE  TablesInv'
<1>1. PICK inv, known : win' = [win EXCEPT ![w] = [fx |-> inv.fx, rows |-> inv.rows, tab |-> tab, tp |-> page.tp,
                                                  table |-> <<>>, known |-> known]]
  BY DEF Open
<1>2. /\ DOMAIN win' = Windows /\ \A u \in Windows \ {w} : win'[u] = win[u]
      /\ DOMAIN win'[w] = WinFields /\ win'[w].tp = page.tp /\ win'[w].table = <<>>
  BY <1>1 DEF TablesInv, WinFields
<1>3. TableOK(win'[w].table)
  BY <1>2 DEF TableOK
<1>4. PricesOK(page.tp)' /\ MemosOK'
  BY DEF Open, files, TablesInv, MemosOK, MemoOK
<1>. QED BY <1>2, <1>3, <1>4, TablesKept DEF TablesInv

\* The steps of the inventory leave prices and memos alone.
LEMMA TablesRows ==
  ASSUME TablesInv, NEW w \in Windows, win[w] # Nothing,
         RowsStep(w) \/ InvSave(w) \/ \E v \in FxInputs : ChangeGlobalFx(w, v)
  PROVE  TablesInv'
<1>1. UNCHANGED <<page, memos>>
  BY DEF RowsStep, AddRow, InvImport, DeleteRow, InvUpdateByInput, InvSave, ChangeGlobalFx, files
<1>2. PricesOK(page.tp)' /\ MemosOK'
  BY <1>1 DEF TablesInv, MemosOK, MemoOK
<1>3. CASE \E rows : SetRows(w, rows)
  BY <1>2, <1>3, SetRowsStep, TablesKept DEF TablesInv
<1>4. CASE InvSave(w)
  BY <1>4, TablesUnchanged DEF InvSave, files
<1>5. ASSUME NEW v \in FxInputs, ChangeGlobalFx(w, v) PROVE TablesInv'
  <2>1. PICK rows : win' = [win EXCEPT ![w] = [@ EXCEPT !.fx = v, !.rows = rows]]
    BY <1>5 DEF ChangeGlobalFx
  <2>2. /\ DOMAIN win' = Windows /\ \A u \in Windows \ {w} : win'[u] = win[u]
        /\ DOMAIN win'[w] = WinFields /\ win'[w].tp = win[w].tp /\ win'[w].table = win[w].table
    BY <2>1 DEF TablesInv, WinFields
  <2>. QED BY <1>2, <2>2, TablesKept DEF TablesInv
<1>6. RowsStep(w) => \E rows : SetRows(w, rows)
  <2>1. AddRow(w) => \E rows : SetRows(w, rows)
    BY DEF AddRow
  <2>2. \A m, stock : InvImport(w, m, stock) => \E rows : SetRows(w, rows)
    BY DEF InvImport
  <2>3. \A n : DeleteRow(w, n) => \E rows : SetRows(w, rows)
    BY DEF DeleteRow
  <2>4. \A n, field, v : InvUpdateByInput(w, n, field, v) => \E rows : SetRows(w, rows)
    BY DEF InvUpdateByInput
  <2>. QED BY <2>1, <2>2, <2>3, <2>4 DEF RowsStep
<1>. QED BY <1>3, <1>4, <1>5, <1>6

\* The steps that compute, edit or load a table.
LEMMA TablesTable ==
  ASSUME TablesInv, NEW w \in Windows, win[w] # Nothing, TableStep(w)
  PROVE  TablesInv'
<1>1. UNCHANGED <<page, memos>>
  BY DEF TableStep, BuildRowsFromInputs, EditTp, LoadMemo, files
<1>2. PricesOK(page.tp)' /\ MemosOK'
  BY <1>1 DEF TablesInv, MemosOK, MemoOK
<1>3. ASSUME NEW table, SetTable(w, table), TableOK(table) PROVE TablesInv'
  BY <1>2, <1>3, SetTableStep, TablesKept DEF TablesInv
<1>4. PricesOK(win[w].tp) /\ TableOK(win[w].table)
  BY DEF TablesInv
<1>5. ASSUME NEW models \in ModelLists, NEW fx \in FxInputs, NEW margin \in Margins,
             BuildRowsFromInputs(w, models, fx, margin)
      PROVE  TablesInv'
  <2>1. PICK rate : rate = Or(fx, DefaultFx)
    OBVIOUS
  <2>2. rate \in Rates /\ rate # Nothing
    <3>1. DefaultFx # Nothing
      BY NothingAssumption DEF DefaultFx
    <3>. QED BY <2>1, <3>1 DEF Rates, Or
  <2>3. PICK tp : tp = win[w].tp
    OBVIOUS
  <2>4. PICK table : table = [n \in DOMAIN models |-> BuildTpRow(tp, models[n], rate, margin)]
    OBVIOUS
  <2>5. SetTable(w, table)
    BY <1>5, <2>1, <2>3, <2>4 DEF BuildRowsFromInputs
  <2>6. margin \in Int
    BY InputsAssumption
  <2>7. \A n \in DOMAIN models : TpRowOK(BuildTpRow(tp, models[n], rate, margin))
    BY <1>4, <2>2, <2>3, <2>6, BuiltRow
  <2>8. TableOK(table)
    BY <2>4, <2>7 DEF TableOK
  <2>. QED BY <1>3, <2>5, <2>8
<1>6. ASSUME NEW n \in DOMAIN win[w].table, NEW field, NEW v, TpInput(field, v), EditTp(w, n, field, v)
      PROVE  TablesInv'
  <2>1. PICK row : row = RefreshRowCalculated([win[w].table[n] EXCEPT ![field] = v], field)
    OBVIOUS
  <2>2. PICK old : old = win[w].table
    OBVIOUS
  <2>3. SetTable(w, [old EXCEPT ![n] = row])
    BY <1>6, <2>1, <2>2 DEF EditTp
  <2>4. TpRowOK(row)
    BY <1>4, <1>6, <2>1, RefreshedRow DEF TableOK
  <2>5. TableOK([old EXCEPT ![n] = row])
    BY <1>4, <2>2, <2>4 DEF TableOK
  <2>. QED BY <1>3, <2>3, <2>5
<1>7. ASSUME NEW id, LoadMemo(w, id) PROVE TablesInv'
  <2>1. PICK n \in DOMAIN memos : SetTable(w, [k \in DOMAIN memos[n].table |-> RenderTpRow(memos[n].table[k])])
    BY <1>7 DEF LoadMemo
  <2>2. PICK kept : kept = memos[n].table
    OBVIOUS
  <2>3. \A k \in DOMAIN kept : TpRowOK(kept[k]) /\ kept[k].fx # Nothing
    BY <2>2 DEF TablesInv, TableOK
  <2>4. \A k \in DOMAIN kept : TpRowOK(RenderTpRow(kept[k]))
    BY <2>3, RenderedRow
  <2>5. TableOK([k \in DOMAIN kept |-> RenderTpRow(kept[k])])
    BY <2>4 DEF TableOK
  <2>6. SetTable(w, [k \in DOMAIN kept |-> RenderTpRow(kept[k])])
    BY <2>1, <2>2
  <2>. QED BY <1>3, <2>5, <2>6
<1>. QED BY <1>5, <1>6, <1>7 DEF TableStep

\* A list of memos whose members are in order.
LEMMA MemoList ==
  ASSUME NEW list, NEW M, list \in Seq(M), \A memo \in M : MemoOK(memo)
  PROVE  /\ list \in Seq(ToSet(list))
         /\ \A n \in DOMAIN list : MemoOK(list[n])
<1>1. \A n \in DOMAIN list : list[n] \in M
  OBVIOUS
<1>2. \A n \in DOMAIN list : list[n] \in ToSet(list)
  BY DEF ToSet
<1>. QED BY <1>1, <1>2

\* What a filter leaves of the memos.
LEMMA MemosLeft ==
  ASSUME TablesInv, NEW S
  PROVE  \E M : Only(memos, S) \in Seq(M) /\ \A memo \in M : MemoOK(memo)
<1>1. memos \in Seq(ToSet(memos)) /\ \A memo \in ToSet(memos) : MemoOK(memo)
  BY DEF TablesInv, MemoOK, ToSet
<1>2. Only(memos, S) \in Seq(ToSet(memos) \cap S)
  BY <1>1, OnlyKeeps
<1>3. \A memo \in ToSet(memos) \cap S : MemoOK(memo)
  BY <1>1
<1>. QED BY <1>2, <1>3

\* A row as a memo keeps it.
LEMMA CollectedRow ==
  ASSUME NEW r, TpRowOK(r)
  PROVE  TpRowOK([r EXCEPT !.fx = Or(@, 0)]) /\ [r EXCEPT !.fx = Or(@, 0)].fx # Nothing
<1>1. PICK fx : fx = Or(r.fx, 0)
  OBVIOUS
<1>2. PICK new : new = [r EXCEPT !.fx = fx]
  OBVIOUS
<1>3. [r EXCEPT !.fx = Or(@, 0)] = new
  BY <1>1, <1>2
<1>4. /\ DOMAIN new = TpFields /\ new.fx = fx /\ new.usd = r.usd /\ new.cny = r.cny
      /\ new.ship = r.ship /\ new.ship_cny = r.ship_cny
  BY <1>2 DEF TpRowOK, TpFields
<1>5. r.fx \in Rates \cup {0}
  BY DEF TpRowOK
<1>6. fx \in Rates \cup {0} /\ fx # Nothing
  BY <1>1, <1>5, NothingAssumption DEF Or
<1>7. {r.usd, r.cny, r.ship, r.ship_cny} \subseteq Numbers
  BY DEF TpRowOK
<1>8. ASSUME fx > 0 PROVE r.fx = fx /\ Or(r.fx, 0) > 0
  BY <1>1, <1>8 DEF Or
<1>9. fx > 0 => /\ Or(r.cny, 0) = Rmb(Or(r.usd, 0), fx)
                /\ Or(r.ship_cny, 0) = Rmb(Or(r.ship, 0), fx)
  BY <1>8 DEF TpRowOK
<1>10. TpRowOK(new)
  BY <1>4, <1>6, <1>7, <1>9, TpRow
<1>. QED BY <1>3, <1>4, <1>6, <1>10

\* The steps that change the memos.
LEMMA TablesMemos ==
  ASSUME TablesInv, NEW w \in Windows, win[w] # Nothing, MemoStep(w)
  PROVE  TablesInv'
<1>1. page' = page /\ PricesOK(page.tp)'
  BY DEF MemoStep, SaveMemo, DeleteMemo, files, TablesInv
<1>2. PICK known : win' = [win EXCEPT ![w].known = known]
  BY DEF MemoStep, SaveMemo, DeleteMemo
<1>3. MemosOK'
  <2>1. ASSUME NEW id, DeleteMemo(w, id) PROVE MemosOK'
    <3>1. PICK M : memos' \in Seq(M) /\ \A memo \in M : MemoOK(memo)
      BY <2>1, MemosLeft DEF DeleteMemo
    <3>. QED BY <3>1, MemoList DEF MemosOK
  <2>2. ASSUME NEW name, SaveMemo(w, name) PROVE MemosOK'
    <3>1. PICK table : table = [n \in DOMAIN win[w].table |-> [win[w].table[n] EXCEPT !.fx = Or(@, 0)]]
      OBVIOUS
    <3>2. PICK others : others = Only(memos, {m \in ToSet(memos) : m.name # name})
      OBVIOUS
    <3>3. PICK id : memos' = <<[id |-> id, name |-> name, table |-> table]>> \o others
      BY <2>2, <3>1, <3>2 DEF SaveMemo
    <3>4. PICK M : others \in Seq(M) /\ \A memo \in M : MemoOK(memo)
      BY <3>2, MemosLeft
    <3>5. PICK memo : memo = [id |-> id, name |-> name, table |-> table]
      OBVIOUS
    <3>6. MemoOK(memo)
      <4>1. TableOK(win[w].table)
        BY DEF TablesInv
      <4>2. \A n \in DOMAIN table : TpRowOK(table[n]) /\ table[n].fx # Nothing
        BY <3>1, <4>1, CollectedRow DEF TableOK
      <4>. QED BY <3>5, <4>2 DEF MemoOK, TableOK
    <3>7. memos' \in Seq(M \cup {memo})
      BY <3>3, <3>4, <3>5
    <3>8. \A x \in M \cup {memo} : MemoOK(x)
      BY <3>4, <3>6
    <3>. QED BY <3>7, <3>8, MemoList DEF MemosOK
  <2>. QED BY <2>1, <2>2 DEF MemoStep
<1>4. PricesOK(win[w].tp) /\ TableOK(win[w].table)
  BY DEF TablesInv
<1>. QED BY <1>1, <1>2, <1>3, <1>4, SetKnownStep, TablesKept

\* Every step preserves the order of the tables.
LEMMA TablesStep == DataInv /\ TablesInv /\ [Next]_vars => TablesInv'
<1>. SUFFICES ASSUME DataInv, TablesInv, [Next]_vars PROVE TablesInv'
  OBVIOUS
<1>1. CASE UNCHANGED vars
  BY <1>1, TablesUnchanged DEF vars
<1>2. CASE Next
  BY <1>2, NextSteps, TablesScripts, TablesOpen, TablesRows, TablesTable, TablesMemos
<1>. QED BY <1>1, <1>2

\* Prices are numbers and tables agree, whatever is edited, saved and loaded.
LEMMA TablesInvariant == Spec => []TablesInv
BY DataInvariant, TablesInit, TablesStep, PTL DEF Spec

-----------------------------------------------------------------------------
(* The rows of the inventory.                                              *)

\* The number of a field.
LEMMA ParsedNumber ==
  ASSUME NEW v \in Numbers \cup {Absent}
  PROVE  /\ ParseNum(v) \in Numbers
         /\ v # Absent => ParseNum(v) = Or(v, 0) /\ Or(v, 0) \in Int /\ Or(v, 0) # Nothing
         /\ v \in Int => ParseNum(v) = v
         /\ v = Absent => ParseNum(v) = Nothing
BY NothingAssumption DEF ParseNum, Or, Numbers

\* A rate that is missing, empty or 0 is the one of all rows, which is the default one then.
LEMMA CountingRates ==
  /\ \A f \in Rates : GlobalFx(f) \in Rates \ {Nothing, 0}
  /\ \A f \in Rates : \A r \in Rates \cup {Absent} : OrElse(ParseNum(r), GlobalFx(f)) \in Rates \ {Nothing, 0}
  /\ \A f, r : r \in Rates \ {Nothing, 0} => OrElse(ParseNum(r), f) = r
  /\ \A r \in Rates \ {Nothing, 0} : r \in Int
<1>1. \A r \in Rates \cup {Absent} : ParseNum(r) \in {0, Nothing} \/ ParseNum(r) \in Rates \ {Nothing, 0}
  BY NothingAssumption DEF ParseNum, Or
<1>2. DefaultFx \in Rates \ {Nothing, 0}
  BY NothingAssumption DEF DefaultFx, Rates
<1>3. \A f \in Rates : GlobalFx(f) \in Rates \ {Nothing, 0}
  BY <1>1, <1>2 DEF GlobalFx, OrElse
<1>4. ASSUME NEW r \in Rates \ {Nothing, 0} PROVE r \in Int /\ ParseNum(r) = r
  <2>1. r \in Int
    BY RatesAreNumbers
  <2>. QED BY <2>1, NothingAssumption DEF ParseNum, Or
<1>. QED BY <1>1, <1>3, <1>4 DEF OrElse

\* The row that a window shows for a row of its own.
Shown(row) ==
  [model |-> row.model, stock |-> IF Or(row.stock, 0) < 0 THEN 0 ELSE Or(row.stock, 0),
   supplier_cny |-> Absent, supplier_usd |-> Or(row.supplier_usd, 0),
   customer_usd |-> Or(row.customer_usd, 0), customer_cny |-> Or(row.customer_cny, 0), fx |-> row.fx]

\* Normalising a row of a window gives the row it shows: empty quotes become 0.
LEMMA ShownRow ==
  ASSUME NEW row, InvRowOK(row), NEW f
  PROVE  InvNormalizeRow(row, f) = Shown(row)
<1>1. row.fx \in Rates \ {Nothing, 0} /\ DOMAIN row = InvFields
  BY DEF InvRowOK
<1>2. /\ row.stock \in Numbers /\ row.supplier_usd \in Numbers
      /\ row.customer_usd \in Numbers /\ row.customer_cny \in Numbers
  BY DEF InvRowOK
<1>3. OrElse(ParseNum(row.fx), GlobalFx(f)) = row.fx
  BY <1>1, CountingRates
<1>4. \A v \in Numbers : v # Absent
  BY NothingAssumption DEF Numbers
<1>5. \A v \in Numbers : ParseNum(v) = Or(v, 0) /\ Or(v, 0) # Nothing /\ Or(Or(v, 0), 0) = Or(v, 0)
  <2>1. ASSUME NEW v \in Numbers PROVE ParseNum(v) = Or(v, 0) /\ Or(v, 0) # Nothing /\ Or(Or(v, 0), 0) = Or(v, 0)
    <3>1. ParseNum(v) = Or(v, 0) /\ Or(v, 0) # Nothing
      BY <1>4, ParsedNumber
    <3>. QED BY <3>1 DEF Or
  <2>. QED BY <2>1
<1>6. PICK stock, su, cu, cc : stock = Or(row.stock, 0) /\ su = Or(row.supplier_usd, 0)
                               /\ cu = Or(row.customer_usd, 0) /\ cc = Or(row.customer_cny, 0)
  OBVIOUS
<1>7. /\ Or(ParseNum(row.stock), 0) = stock /\ ParseNum(row.supplier_usd) = su /\ su # Nothing
      /\ ParseNum(row.customer_usd) = cu /\ cu # Nothing
      /\ ParseNum(row.customer_cny) = cc /\ cc # Nothing
  BY <1>2, <1>5, <1>6
<1>8. PICK new : new = [row EXCEPT !.stock = IF stock < 0 THEN 0 ELSE stock, !.supplier_usd = su,
                           !.supplier_cny = Absent, !.customer_cny = cc, !.customer_usd = cu, !.fx = row.fx]
  OBVIOUS
<1>9. InvNormalizeRow(row, f) = new
  BY <1>3, <1>7, <1>8 DEF InvNormalizeRow
<1>10. new = [model |-> row.model, stock |-> IF stock < 0 THEN 0 ELSE stock, supplier_cny |-> Absent,
              supplier_usd |-> su, customer_usd |-> cu, customer_cny |-> cc, fx |-> row.fx]
  BY <1>1, <1>8 DEF InvFields
<1>. QED BY <1>6, <1>9, <1>10 DEF Shown

\* Its numbers; it is in order, agrees if the row does, and shows as itself.
LEMMA ShownOK ==
  ASSUME NEW row, InvRowOK(row)
  PROVE  /\ InvRowOK(Shown(row)) /\ Shown(Shown(row)) = Shown(row)
         /\ Shown(row).fx \in Int /\ Shown(row).customer_usd \in Int /\ Shown(row).customer_cny \in Int
         /\ \A f : InvNormalizeRow(row, f) = Shown(row)
         /\ QuotesAgree(row) <=> QuotesAgree(Shown(row))
         /\ QuotesAgree(row) => (row.fx > 0 => Shown(row).customer_cny = Shown(row).customer_usd * row.fx)
<1>1. row.fx \in Rates \ {Nothing, 0} /\ row.fx \in Int
  BY CountingRates DEF InvRowOK
<1>2. \A v \in Numbers : Or(v, 0) \in Int /\ Or(Or(v, 0), 0) = Or(v, 0) /\ Or(v, 0) \in Numbers
  BY NothingAssumption DEF Or, Numbers
<1>3. /\ row.stock \in Numbers /\ row.supplier_usd \in Numbers
      /\ row.customer_usd \in Numbers /\ row.customer_cny \in Numbers
  BY DEF InvRowOK
<1>4. PICK stock : stock = IF Or(row.stock, 0) < 0 THEN 0 ELSE Or(row.stock, 0)
  OBVIOUS
<1>5. stock \in Int /\ stock \in Numbers /\ ~(stock < 0) /\ Or(stock, 0) = stock
  <2>1. Or(row.stock, 0) \in Int
    BY <1>2, <1>3
  <2>2. stock \in Int /\ ~(stock < 0)
    BY <1>4, <2>1
  <2>. QED BY <2>2, NothingAssumption DEF Or, Numbers
<1>6. PICK new : new = Shown(row)
  OBVIOUS
<1>7. new = [model |-> row.model, stock |-> stock, supplier_cny |-> Absent, supplier_usd |-> Or(row.supplier_usd, 0),
             customer_usd |-> Or(row.customer_usd, 0), customer_cny |-> Or(row.customer_cny, 0), fx |-> row.fx]
  BY <1>4, <1>6 DEF Shown
<1>8. /\ DOMAIN new = InvFields /\ new.model = row.model /\ new.stock = stock /\ new.supplier_cny = Absent
      /\ new.supplier_usd = Or(row.supplier_usd, 0) /\ new.customer_usd = Or(row.customer_usd, 0)
      /\ new.customer_cny = Or(row.customer_cny, 0) /\ new.fx = row.fx
  BY <1>7 DEF InvFields
<1>9. new.supplier_usd \in Numbers /\ new.customer_usd \in Numbers /\ new.customer_cny \in Numbers
  BY <1>2, <1>3, <1>8
<1>10. InvRowOK(new)
  BY <1>1, <1>5, <1>8, <1>9 DEF InvRowOK
<1>11. Shown(new) = new
  <2>1. Shown(new) = [model |-> row.model, stock |-> stock, supplier_cny |-> Absent,
                      supplier_usd |-> Or(row.supplier_usd, 0), customer_usd |-> Or(row.customer_usd, 0),
                      customer_cny |-> Or(row.customer_cny, 0), fx |-> row.fx]
    BY <1>2, <1>3, <1>5, <1>8 DEF Shown
  <2>. QED BY <1>7, <2>1
<1>12. new.fx \in Int /\ new.customer_usd \in Int /\ new.customer_cny \in Int
  BY <1>1, <1>2, <1>3, <1>8
<1>13. \A f : InvNormalizeRow(row, f) = new
  BY <1>6, ShownRow
<1>14. Or(new.customer_usd, 0) = new.customer_usd /\ Or(new.customer_cny, 0) = new.customer_cny
  BY <1>2, <1>3, <1>8
<1>15. QuotesAgree(row) <=> QuotesAgree(new)
  BY <1>8, <1>14 DEF QuotesAgree
<1>16. QuotesAgree(row) => (row.fx > 0 => new.customer_cny = new.customer_usd * row.fx)
  BY <1>8 DEF QuotesAgree
<1>. QED BY <1>6, <1>10, <1>11, <1>12, <1>13, <1>15, <1>16

\* A stored row, the older version's included, becomes one in order.
LEMMA LoadedRow ==
  ASSUME NEW row, StoredRowOK(row), NEW f \in Rates
  PROVE  InvRowOK(InvNormalizeRow(row, f))
<1>1. row.fx \in Rates \cup {Absent} /\ DOMAIN row = InvFields
  BY DEF StoredRowOK
<1>2. /\ row.stock \in Numbers \cup {Absent} /\ row.supplier_cny \in Numbers \cup {Absent}
      /\ row.supplier_usd \in Numbers \cup {Absent} /\ row.customer_usd \in Numbers \cup {Absent}
      /\ row.customer_cny \in Numbers \cup {Absent}
  BY DEF StoredRowOK
<1>3. PICK fx : fx = OrElse(ParseNum(row.fx), GlobalFx(f))
  OBVIOUS
<1>4. fx \in Rates \ {Nothing, 0} /\ fx \in Int
  BY <1>1, <1>3, CountingRates
<1>5. PICK st, old, su, usd, cny : /\ st = Or(ParseNum(row.stock), 0) /\ old = ParseNum(row.supplier_cny)
                                   /\ su = ParseNum(row.supplier_usd) /\ usd = ParseNum(row.customer_usd)
                                   /\ cny = ParseNum(row.customer_cny)
  OBVIOUS
<1>6. old \in Numbers /\ su \in Numbers /\ usd \in Numbers /\ cny \in Numbers /\ ParseNum(row.stock) \in Numbers
  BY <1>2, <1>5, ParsedNumber
<1>7. st \in Int
  BY <1>5, <1>6 DEF Or, Numbers
<1>8. PICK stock, supplier, cc, cu :
        /\ stock = IF st < 0 THEN 0 ELSE st
        /\ supplier = IF su = Nothing /\ old # Nothing /\ fx > 0 THEN old \div (fx * Tax) ELSE su
        /\ cc = IF usd # Nothing /\ cny = Nothing THEN usd * fx ELSE cny
        /\ cu = IF cny # Nothing /\ usd = Nothing /\ fx > 0 THEN cny \div fx ELSE usd
  OBVIOUS
<1>9. stock \in Numbers /\ supplier \in Numbers /\ cc \in Numbers /\ cu \in Numbers
  <2>1. stock \in Numbers
    BY <1>7, <1>8 DEF Numbers
  <2>2. \A a \in Int, b \in Nat \ {0} : a \div b \in Int
    OBVIOUS
  <2>3. \A a, b \in Nat \ {0} : a * b \in Nat \ {0}
    OBVIOUS
  <2>4. \A a, b \in Int : a * b \in Int
    OBVIOUS
  <2>5. fx > 0 => fx \in Nat \ {0} /\ fx * Tax \in Nat \ {0}
    BY <1>4, <2>3, TaxAssumption
  <2>6. \A v \in Numbers : v # Nothing => v \in Int
    BY DEF Numbers
  <2>7. Int \subseteq Numbers
    BY DEF Numbers
  <2>8. supplier \in Numbers
    BY <1>6, <1>8, <2>2, <2>5, <2>6, <2>7
  <2>9. cc \in Numbers
    BY <1>4, <1>6, <1>8, <2>4, <2>6, <2>7
  <2>10. cu \in Numbers
    BY <1>6, <1>8, <2>2, <2>5, <2>6, <2>7
  <2>. QED BY <2>1, <2>8, <2>9, <2>10
<1>10. PICK new : new = [row EXCEPT !.stock = stock, !.supplier_usd = supplier, !.supplier_cny = Absent,
                            !.customer_cny = cc, !.customer_usd = cu, !.fx = fx]
  OBVIOUS
<1>11. InvNormalizeRow(row, f) = new
  BY <1>3, <1>5, <1>8, <1>10 DEF InvNormalizeRow
<1>12. /\ DOMAIN new = InvFields /\ new.stock = stock /\ new.supplier_usd = supplier /\ new.supplier_cny = Absent
       /\ new.customer_cny = cc /\ new.customer_usd = cu /\ new.fx = fx
  BY <1>1, <1>10 DEF InvFields
<1>13. InvRowOK(new)
  BY <1>4, <1>9, <1>12 DEF InvRowOK
<1>. QED BY <1>11, <1>13

\* A row as it is saved, and shown once it is loaded.
LEMMA SavedRow ==
  ASSUME NEW row, InvRowOK(row)
  PROVE  /\ StoredRowOK([row EXCEPT !.supplier_cny = Absent])
         /\ InvRowOK([row EXCEPT !.supplier_cny = Absent])
         /\ Shown([row EXCEPT !.supplier_cny = Absent]) = Shown(row)
<1>1. PICK new : new = [row EXCEPT !.supplier_cny = Absent]
  OBVIOUS
<1>2. DOMAIN row = InvFields
  BY DEF InvRowOK
<1>3. /\ DOMAIN new = InvFields /\ new.model = row.model /\ new.stock = row.stock /\ new.supplier_cny = Absent
      /\ new.supplier_usd = row.supplier_usd /\ new.customer_usd = row.customer_usd
      /\ new.customer_cny = row.customer_cny /\ new.fx = row.fx
  BY <1>1, <1>2 DEF InvFields
<1>4. InvRowOK(new)
  BY <1>3 DEF InvRowOK
<1>5. StoredRowOK(new)
  BY <1>3, <1>4 DEF InvRowOK, StoredRowOK
<1>6. Shown(new) = Shown(row)
  BY <1>3 DEF Shown
<1>. QED BY <1>1, <1>4, <1>5, <1>6

\* Converted: the quotes of a row with a rate that counts, after one field was typed.
LEMMA ConvertedRow ==
  ASSUME NEW r, InvRowOK(r), NEW field, NEW v, InvInput(field, v),
         field = "customer_cny" => r.customer_cny = v,
         field = "fx" => r.customer_usd \in Int
  PROVE  /\ InvRowOK(Converted(r, field))
         /\ field \in {"fx", "customer_usd", "customer_cny"} \/ QuotesAgree(r) => QuotesAgree(Converted(r, field))
<1>1. r.fx \in Rates \ {Nothing, 0} /\ r.fx \in Int
  BY CountingRates DEF InvRowOK
<1>2. /\ r.stock \in Numbers /\ r.supplier_usd \in Numbers /\ r.supplier_cny \in {Absent, Nothing}
      /\ r.customer_usd \in Numbers /\ r.customer_cny \in Numbers /\ DOMAIN r = InvFields
  BY DEF InvRowOK
<1>3. /\ \A n \in Numbers : n # Nothing => n \in Int
      /\ Int \subseteq Numbers /\ Nothing \in Numbers /\ Nothing \notin Int
  BY NothingAssumption DEF Numbers
<1>4. \A a, b \in Int : a * b \in Int
  OBVIOUS
<1>5. ASSUME NEW cny \in Numbers, NEW new, new = [r EXCEPT !.customer_cny = cny]
      PROVE  InvRowOK(new) /\ new.customer_cny = cny /\ new.customer_usd = r.customer_usd /\ new.fx = r.fx
  <2>1. /\ DOMAIN new = InvFields /\ new.customer_cny = cny /\ new.customer_usd = r.customer_usd /\ new.fx = r.fx
        /\ new.stock = r.stock /\ new.supplier_usd = r.supplier_usd /\ new.supplier_cny = r.supplier_cny
    BY <1>2, <1>5 DEF InvFields
  <2>. QED BY <1>1, <1>2, <2>1 DEF InvRowOK
<1>6. ASSUME NEW usd \in Numbers, NEW new, new = [r EXCEPT !.customer_usd = usd]
      PROVE  InvRowOK(new) /\ new.customer_usd = usd /\ new.customer_cny = r.customer_cny /\ new.fx = r.fx
  <2>1. /\ DOMAIN new = InvFields /\ new.customer_usd = usd /\ new.customer_cny = r.customer_cny /\ new.fx = r.fx
        /\ new.stock = r.stock /\ new.supplier_usd = r.supplier_usd /\ new.supplier_cny = r.supplier_cny
    BY <1>2, <1>6 DEF InvFields
  <2>. QED BY <1>1, <1>2, <2>1 DEF InvRowOK
<1>7. PICK new : new = Converted(r, field)
  OBVIOUS
<1>8. CASE field = "customer_usd"
  <2>1. PICK cny : cny = IF r.customer_usd = Nothing THEN Nothing ELSE r.customer_usd * r.fx
    OBVIOUS
  <2>2. cny \in Numbers
    BY <1>1, <1>2, <1>3, <1>4, <2>1
  <2>3. new = [r EXCEPT !.customer_cny = cny]
    BY <1>7, <1>8, <2>1 DEF Converted
  <2>4. InvRowOK(new) /\ new.customer_cny = cny /\ new.customer_usd = r.customer_usd /\ new.fx = r.fx
    BY <1>5, <2>2, <2>3
  <2>5. Or(cny, 0) = Or(r.customer_usd, 0) * r.fx
    <3>1. CASE r.customer_usd = Nothing
      <4>1. 0 * r.fx = 0
        BY <1>1
      <4>. QED BY <2>1, <3>1, <4>1 DEF Or
    <3>2. CASE r.customer_usd # Nothing
      <4>1. r.customer_usd * r.fx \in Int
        BY <1>1, <1>2, <1>3, <1>4, <3>2
      <4>2. cny # Nothing
        BY <1>3, <2>1, <3>2, <4>1
      <4>. QED BY <2>1, <3>2, <4>2 DEF Or
    <3>. QED BY <3>1, <3>2
  <2>. QED BY <1>7, <2>4, <2>5 DEF QuotesAgree
<1>9. CASE field = "customer_cny"
  <2>1. PICK usd : usd = IF r.customer_cny = Nothing \/ r.fx <= 0 THEN Nothing ELSE r.customer_cny \div r.fx
    OBVIOUS
  <2>2. \A a \in Int, b \in Nat \ {0} : a \div b \in Int
    OBVIOUS
  <2>3. usd \in Numbers
    <3>1. CASE r.customer_cny = Nothing \/ r.fx <= 0
      BY <1>3, <2>1, <3>1
    <3>2. CASE r.customer_cny # Nothing /\ r.fx > 0
      <4>1. r.fx \in Nat \ {0} /\ r.customer_cny \in Int
        BY <1>1, <1>2, <1>3, <3>2
      <4>. QED BY <1>1, <1>3, <2>1, <2>2, <3>2, <4>1
    <3>. QED BY <1>1, <3>1, <3>2
  <2>4. new = [r EXCEPT !.customer_usd = usd]
    BY <1>7, <1>9, <2>1 DEF Converted
  <2>5. InvRowOK(new) /\ new.customer_usd = usd /\ new.customer_cny = r.customer_cny /\ new.fx = r.fx
    BY <1>6, <2>3, <2>4
  <2>6. ASSUME r.fx > 0 PROVE Or(r.customer_cny, 0) = Or(usd, 0) * r.fx
    <3>1. CASE r.customer_cny = Nothing
      <4>1. 0 * r.fx = 0
        BY <1>1
      <4>. QED BY <2>1, <3>1, <4>1 DEF Or
    <3>2. CASE r.customer_cny # Nothing
      <4>1. r.customer_cny \in CnyInputs
        BY <1>9 DEF InvInput
      <4>2. (r.customer_cny \div r.fx) * r.fx = r.customer_cny
        BY <1>1, <2>6, <3>2, <4>1, ExactAssumption
      <4>3. usd = r.customer_cny \div r.fx
        BY <1>1, <2>1, <2>6, <3>2
      <4>4. usd \in Int
        <5>1. r.fx \in Nat \ {0} /\ r.customer_cny \in Int
          BY <1>1, <1>2, <1>3, <2>6, <3>2
        <5>. QED BY <2>2, <4>3, <5>1
      <4>5. usd # Nothing
        BY <1>3, <4>4
      <4>. QED BY <3>2, <4>2, <4>3, <4>5 DEF Or
    <3>. QED BY <3>1, <3>2
  <2>. QED BY <1>7, <2>5, <2>6 DEF QuotesAgree
<1>10. CASE field = "fx"
  <2>1. PICK cny : cny = r.customer_usd * r.fx
    OBVIOUS
  <2>2. r.customer_usd \in Int /\ r.customer_usd # Nothing
    BY <1>3, <1>10
  <2>3. cny \in Int /\ cny \in Numbers /\ cny # Nothing
    BY <1>1, <1>3, <1>4, <2>1, <2>2
  <2>4. new = [r EXCEPT !.customer_cny = cny]
    BY <1>7, <1>10, <2>1, <2>2 DEF Converted
  <2>5. InvRowOK(new) /\ new.customer_cny = cny /\ new.customer_usd = r.customer_usd /\ new.fx = r.fx
    BY <1>5, <2>3, <2>4
  <2>6. Or(cny, 0) = Or(r.customer_usd, 0) * r.fx
    BY <2>1, <2>2, <2>3 DEF Or
  <2>. QED BY <1>7, <2>5, <2>6 DEF QuotesAgree
<1>11. CASE field \notin {"fx", "customer_usd", "customer_cny"}
  <2>1. new = r
    BY <1>7, <1>11 DEF Converted
  <2>. QED BY <1>7, <1>11, <2>1
<1>. QED BY <1>8, <1>9, <1>10, <1>11

\* A row of the inventory after a change of one field.
Updated(row, f, field, v) ==
  LET typed == [InvNormalizeRow(row, f) EXCEPT ![field] = v]
      r     == [typed EXCEPT !.fx = OrElse(ParseNum(@), GlobalFx(f))]
  IN  InvNormalizeRow(Converted(r, field), f)

\* It is in order, and agrees if it did before.
LEMMA UpdatedRow ==
  ASSUME NEW row, InvRowOK(row), NEW f \in Rates, NEW field, NEW v, InvInput(field, v)
  PROVE  InvRowOK(Updated(row, f, field, v)) /\ (QuotesAgree(row) => QuotesAgree(Updated(row, f, field, v)))
<1>. DEFINE typed == [InvNormalizeRow(row, f) EXCEPT ![field] = v]
            r == [typed EXCEPT !.fx = OrElse(ParseNum(@), GlobalFx(f))]
            new == InvNormalizeRow(Converted(r, field), f)
<1>1. PICK shown : shown = Shown(row)
  OBVIOUS
<1>2. /\ InvRowOK(shown) /\ shown.fx \in Int /\ shown.customer_usd \in Int /\ shown.customer_cny \in Int
      /\ InvNormalizeRow(row, f) = shown /\ (QuotesAgree(row) => QuotesAgree(shown))
  BY <1>1, ShownOK
<1>3. /\ shown.fx \in Rates \ {Nothing, 0} /\ DOMAIN shown = InvFields
      /\ shown.stock \in Numbers /\ shown.supplier_usd \in Numbers /\ shown.supplier_cny \in {Absent, Nothing}
      /\ shown.customer_usd \in Numbers /\ shown.customer_cny \in Numbers
  BY <1>2 DEF InvRowOK
<1>4. CnyInputs \subseteq Numbers /\ UsdInputs \subseteq Numbers /\ FxInputs \subseteq Rates
  BY InputsAssumption DEF Rates
<1>5. typed = [shown EXCEPT ![field] = v]
  BY <1>2
<1>6. /\ DOMAIN typed = InvFields /\ typed.fx \in Rates
      /\ typed.stock \in Numbers /\ typed.supplier_usd \in Numbers /\ typed.supplier_cny \in {Absent, Nothing}
      /\ typed.customer_usd \in Numbers /\ typed.customer_cny \in Numbers
  BY <1>3, <1>4, <1>5 DEF InvInput, InvFields
<1>7. PICK fx : fx = OrElse(ParseNum(typed.fx), GlobalFx(f))
  OBVIOUS
<1>8. fx \in Rates \ {Nothing, 0}
  BY <1>6, <1>7, CountingRates
<1>9. r = [typed EXCEPT !.fx = fx]
  BY <1>7
<1>. HIDE DEF typed, r
<1>10. /\ DOMAIN r = InvFields /\ r.fx = fx /\ r.stock = typed.stock /\ r.supplier_usd = typed.supplier_usd
       /\ r.supplier_cny = typed.supplier_cny
       /\ r.customer_usd = typed.customer_usd /\ r.customer_cny = typed.customer_cny
  BY <1>6, <1>9 DEF InvFields
<1>11. InvRowOK(r)
  BY <1>6, <1>8, <1>10 DEF InvRowOK
<1>12. field = "customer_cny" => r.customer_cny = v
  BY <1>3, <1>5, <1>10 DEF InvFields
<1>13. field = "fx" => r.customer_usd \in Int
  BY <1>2, <1>3, <1>5, <1>10 DEF InvFields
<1>14. field \notin {"fx", "customer_usd", "customer_cny"} /\ QuotesAgree(row) => QuotesAgree(r)
  <2>1. ASSUME field \notin {"fx", "customer_usd", "customer_cny"}
        PROVE  typed.fx = shown.fx /\ r.customer_usd = shown.customer_usd /\ r.customer_cny = shown.customer_cny
    BY <1>3, <1>5, <1>10, <2>1 DEF InvFields
  <2>2. OrElse(ParseNum(shown.fx), GlobalFx(f)) = shown.fx
    BY <1>3, CountingRates
  <2>3. field \notin {"fx", "customer_usd", "customer_cny"} => r.fx = shown.fx
    BY <1>7, <1>10, <2>1, <2>2
  <2>. QED BY <1>2, <2>1, <2>3 DEF QuotesAgree
<1>15. PICK c : c = Converted(r, field)
  OBVIOUS
<1>16. InvRowOK(c) /\ (QuotesAgree(row) => QuotesAgree(c))
  BY <1>11, <1>12, <1>13, <1>14, <1>15, ConvertedRow
<1>17. new = Shown(c)
  BY <1>15, <1>16, ShownOK
<1>18. new = Updated(row, f, field, v)
  BY DEF Updated, r, typed
<1>. HIDE DEF new
<1>. QED BY <1>16, <1>17, <1>18, ShownOK

\* Rows of a window in order, and in agreement.
RowsOK(rows) == rows \in Seq(ToSet(rows)) /\ \A n \in DOMAIN rows : InvRowOK(rows[n])
RowsAgree(rows) == \A n \in DOMAIN rows : QuotesAgree(rows[n])
StoreInv == store # Nothing => StoreOK(store) /\ ("store" \notin rated => StoreAgrees(store))

\* A step that leaves all windows but one as they are.
LEMMA InventoryKept ==
  ASSUME InventoryInv, NEW w \in Windows, \A u \in Windows \ {w} : win'[u] = win[u],
         \A u \in Windows \ {w} : u \in rated => u \in rated',
         win'[w].fx \in Rates, RowsOK(win'[w].rows), w \notin rated' => RowsAgree(win'[w].rows),
         StoreInv'
  PROVE  InventoryInv'
<1>1. ASSUME NEW u \in Windows, win'[u] # Nothing
      PROVE  /\ win'[u].fx \in Rates /\ RowsOK(win'[u].rows)
             /\ u \notin rated' => RowsAgree(win'[u].rows)
  <2>1. CASE u = w
    BY <2>1
  <2>2. CASE u # w
    <3>1. win'[u] = win[u] /\ (u \in rated => u \in rated')
      BY <2>2
    <3>. QED BY <1>1, <3>1 DEF InventoryInv, RowsOK, RowsAgree
  <2>. QED BY <2>1, <2>2
<1>. QED BY <1>1 DEF InventoryInv, RowsOK, RowsAgree, StoreInv

\* What is stored, when it and its mark do not change.
LEMMA StoreKept ==
  ASSUME InventoryInv, UNCHANGED <<store, rated>>
  PROVE  StoreInv'
BY DEF InventoryInv, StoreInv

\* What holds of an open window.
LEMMA OpenWindow ==
  ASSUME InventoryInv, NEW w \in Windows, win[w] # Nothing
  PROVE  /\ win[w].fx \in Rates /\ RowsOK(win[w].rows)
         /\ w \notin rated => RowsAgree(win[w].rows)
BY DEF InventoryInv, RowsOK, RowsAgree

\* A step that changes nothing but the rows of a window.
LEMMA InventoryRows ==
  ASSUME TablesInv, InventoryInv, NEW w \in Windows, win[w] # Nothing, NEW rows, SetRows(w, rows),
         UNCHANGED <<store, rated>>, RowsOK(rows), w \notin rated => RowsAgree(rows)
  PROVE  InventoryInv'
<1>1. /\ \A u \in Windows \ {w} : win'[u] = win[u]
      /\ win'[w].rows = rows /\ win'[w].fx = win[w].fx
  BY SetRowsStep
<1>. QED BY <1>1, InventoryKept, StoreKept, OpenWindow

\* A new row.
LEMMA DefaultRow ==
  ASSUME NEW model, NEW stock \in Int, NEW f \in Rates
  PROVE  InvRowOK(InvDefaultRow(model, stock, f)) /\ QuotesAgree(InvDefaultRow(model, stock, f))
<1>1. PICK fx : fx = GlobalFx(f)
  OBVIOUS
<1>2. fx \in Rates \ {Nothing, 0} /\ fx \in Int
  BY <1>1, CountingRates
<1>3. PICK row : row = InvDefaultRow(model, stock, f)
  OBVIOUS
<1>4. row = [model |-> model, stock |-> stock, supplier_cny |-> Nothing, supplier_usd |-> Nothing,
             customer_usd |-> Nothing, customer_cny |-> Nothing, fx |-> fx]
  BY <1>1, <1>3 DEF InvDefaultRow
<1>5. /\ DOMAIN row = InvFields /\ row.stock = stock /\ row.supplier_cny = Nothing /\ row.supplier_usd = Nothing
      /\ row.customer_usd = Nothing /\ row.customer_cny = Nothing /\ row.fx = fx
  BY <1>4 DEF InvFields
<1>6. InvRowOK(row)
  BY <1>2, <1>5 DEF InvRowOK, Numbers
<1>7. 0 = 0 * fx
  BY <1>2
<1>8. QuotesAgree(row)
  BY <1>5, <1>7 DEF QuotesAgree, Or
<1>. QED BY <1>3, <1>6, <1>8

\* Setting the stock leaves the quotes alone.
LEMMA StockedRow ==
  ASSUME NEW row, InvRowOK(row), NEW stock \in Int, NEW new, new = [row EXCEPT !.stock = stock]
  PROVE  InvRowOK(new) /\ (QuotesAgree(row) => QuotesAgree(new))
<1>1. DOMAIN row = InvFields
  BY DEF InvRowOK
<1>2. /\ DOMAIN new = InvFields /\ new.stock = stock /\ new.supplier_cny = row.supplier_cny
      /\ new.supplier_usd = row.supplier_usd /\ new.customer_usd = row.customer_usd
      /\ new.customer_cny = row.customer_cny /\ new.fx = row.fx
  BY <1>1 DEF InvFields
<1>. QED BY <1>2 DEF InvRowOK, QuotesAgree, Numbers

\* Rows of lists that are in order.
LEMMA RowList ==
  ASSUME NEW rows, NEW R, rows \in Seq(R), \A row \in R : InvRowOK(row)
  PROVE  RowsOK(rows)
<1>1. \A n \in DOMAIN rows : rows[n] \in R /\ rows[n] \in ToSet(rows)
  BY DEF ToSet
<1>2. rows \in Seq(ToSet(rows))
  BY <1>1
<1>. QED BY <1>1, <1>2 DEF RowsOK

\* Lists of rows that agree.
LEMMA RowListAgrees ==
  ASSUME NEW rows, NEW R, rows \in Seq(R), \A row \in R : QuotesAgree(row)
  PROVE  RowsAgree(rows)
BY DEF RowsAgree

\* The rows of a list, each of them, and agreeing if the list does.
LEMMA RowSet ==
  ASSUME NEW rows, RowsOK(rows)
  PROVE  /\ rows \in Seq(ToSet(rows)) /\ \A row \in ToSet(rows) : InvRowOK(row)
         /\ RowsAgree(rows) => \A row \in ToSet(rows) : QuotesAgree(row)
BY DEF RowsOK, RowsAgree, ToSet

\* A list of rows with one more.
LEMMA RowsLonger ==
  ASSUME NEW rows, RowsOK(rows), NEW row, InvRowOK(row), QuotesAgree(row),
         NEW new, new = <<row>> \o rows \/ new = Append(rows, row)
  PROVE  RowsOK(new) /\ (RowsAgree(rows) => RowsAgree(new))
<1>1. PICK R : R = ToSet(rows) \cup {row}
  OBVIOUS
<1>2. rows \in Seq(R) /\ row \in R
  BY <1>1, RowSet
<1>3. new \in Seq(R)
  <2>1. <<row>> \in Seq(R)
    BY <1>2
  <2>2. <<row>> \o rows \in Seq(R)
    BY <1>2, <2>1
  <2>3. Append(rows, row) \in Seq(R)
    BY <1>2
  <2>. QED BY <2>2, <2>3
<1>4. \A x \in R : InvRowOK(x)
  BY <1>1, RowSet
<1>5. RowsAgree(rows) => \A x \in R : QuotesAgree(x)
  BY <1>1, RowSet
<1>. QED BY <1>3, <1>4, <1>5, RowList, RowListAgrees

\* A list of rows without one.
LEMMA RowsShorter ==
  ASSUME NEW rows, RowsOK(rows), NEW n \in DOMAIN rows
  PROVE  RowsOK(RemoveAt(rows, n)) /\ (RowsAgree(rows) => RowsAgree(RemoveAt(rows, n)))
<1>1. PICK R : R = ToSet(rows)
  OBVIOUS
<1>2. rows \in Seq(R)
  BY <1>1, RowSet
<1>3. n \in 1..Len(rows) /\ Len(rows) \in Nat
  BY <1>2
<1>4. SubSeq(rows, 1, n - 1) \in Seq(R)
  BY <1>2, <1>3
<1>5. SubSeq(rows, n + 1, Len(rows)) \in Seq(R)
  BY <1>2, <1>3
<1>6. RemoveAt(rows, n) \in Seq(R)
  BY <1>4, <1>5 DEF RemoveAt
<1>. QED BY <1>1, <1>6, RowList, RowListAgrees, RowSet

\* A list of rows with one replaced.
LEMMA RowsReplaced ==
  ASSUME NEW rows, RowsOK(rows), NEW n, NEW row,
         n \in DOMAIN rows => InvRowOK(row) /\ (QuotesAgree(rows[n]) => QuotesAgree(row)),
         NEW new, new = [rows EXCEPT ![n] = row]
  PROVE  RowsOK(new) /\ (RowsAgree(rows) => RowsAgree(new))
<1>1. rows \in Seq(ToSet(rows)) /\ \A k \in DOMAIN rows : InvRowOK(rows[k])
  BY DEF RowsOK
<1>2. /\ DOMAIN rows = 1..Len(rows) /\ Len(rows) \in Nat /\ DOMAIN new = 1..Len(rows)
      /\ new = [k \in 1..Len(rows) |-> new[k]]
      /\ \A k \in 1..Len(rows) : new[k] = IF k = n THEN row ELSE rows[k]
  <2>1. DOMAIN rows = 1..Len(rows) /\ Len(rows) \in Nat
    BY <1>1
  <2>2. new = [k \in DOMAIN rows |-> IF k = n THEN row ELSE rows[k]]
    OBVIOUS
  <2>. QED BY <2>1, <2>2
<1>3. \A k \in DOMAIN new : InvRowOK(new[k])
  BY <1>1, <1>2
<1>4. \A k \in 1..Len(rows) : new[k] \in ToSet(new)
  BY <1>2 DEF ToSet
<1>5. new \in Seq(ToSet(new))
  <2>1. PICK L, S : L = Len(rows) /\ S = ToSet(new)
    OBVIOUS
  <2>2. L \in Nat /\ new \in [1..L -> S]
    BY <1>2, <1>4, <2>1
  <2>3. new \in Seq(S)
    BY <2>2, SeqDef, Zenon
  <2>. QED BY <2>1, <2>3
<1>6. RowsAgree(rows) => RowsAgree(new)
  BY <1>2 DEF RowsAgree
<1>. QED BY <1>3, <1>5, <1>6 DEF RowsOK

\* The steps on the rows of a window.
LEMMA InventoryRowsStep ==
  ASSUME TablesInv, InventoryInv, NEW w \in Windows, win[w] # Nothing, RowsStep(w)
  PROVE  InventoryInv'
<1>1. /\ win[w].fx \in Rates /\ RowsOK(win[w].rows)
      /\ w \notin rated => RowsAgree(win[w].rows)
  BY OpenWindow
<1>2. UNCHANGED <<store, rated>>
  BY DEF RowsStep, AddRow, InvImport, DeleteRow, InvUpdateByInput
<1>3. PICK rows, f : rows = win[w].rows /\ f = win[w].fx
  OBVIOUS
<1>4. CASE AddRow(w)
  <2>1. PICK row : row = InvDefaultRow(Nothing, 0, f)
    OBVIOUS
  <2>2. SetRows(w, <<row>> \o rows)
    BY <1>3, <1>4, <2>1 DEF AddRow
  <2>3. InvRowOK(row) /\ QuotesAgree(row)
    BY <1>1, <1>3, <2>1, DefaultRow
  <2>4. RowsOK(<<row>> \o rows) /\ (RowsAgree(rows) => RowsAgree(<<row>> \o rows))
    BY <1>1, <1>3, <2>3, RowsLonger
  <2>. QED BY <1>1, <1>2, <1>3, <2>2, <2>4, InventoryRows
<1>5. ASSUME NEW n \in DOMAIN Seed, InvImport(w, Seed[n].model, Seed[n].stock + 1)
      PROVE  InventoryInv'
  <2>1. PICK stock \in Int : stock = Seed[n].stock + 1
    BY InputsAssumption
  <2>2. PICK row, k : /\ row = InvDefaultRow(Seed[n].model, stock, f)
                      /\ SetRows(w, Append(rows, row)) \/ SetRows(w, [rows EXCEPT ![k].stock = stock])
    BY <1>3, <1>5, <2>1 DEF InvImport
  <2>3. InvRowOK(row) /\ QuotesAgree(row)
    BY <1>1, <1>3, <2>1, <2>2, DefaultRow
  <2>4. CASE SetRows(w, Append(rows, row))
    <3>1. RowsOK(Append(rows, row)) /\ (RowsAgree(rows) => RowsAgree(Append(rows, row)))
      BY <1>1, <1>3, <2>3, RowsLonger
    <3>. QED BY <1>1, <1>2, <1>3, <2>4, <3>1, InventoryRows
  <2>5. CASE SetRows(w, [rows EXCEPT ![k].stock = stock])
    <3>1. PICK new : new = [rows[k] EXCEPT !.stock = stock]
      OBVIOUS
    <3>2. [rows EXCEPT ![k].stock = stock] = [rows EXCEPT ![k] = new]
      BY <3>1
    <3>3. k \in DOMAIN rows => InvRowOK(rows[k])
      BY <1>1, <1>3 DEF RowsOK
    <3>4. k \in DOMAIN rows => InvRowOK(new) /\ (QuotesAgree(rows[k]) => QuotesAgree(new))
      BY <3>1, <3>3, StockedRow
    <3>5. PICK changed : changed = [rows EXCEPT ![k] = new]
      OBVIOUS
    <3>6. RowsOK(changed) /\ (RowsAgree(rows) => RowsAgree(changed))
      BY <1>1, <1>3, <3>4, <3>5, RowsReplaced
    <3>. QED BY <1>1, <1>2, <1>3, <2>5, <3>2, <3>5, <3>6, InventoryRows
  <2>. QED BY <2>2, <2>4, <2>5
<1>6. ASSUME NEW n \in DOMAIN win[w].rows, DeleteRow(w, n) PROVE InventoryInv'
  <2>1. SetRows(w, RemoveAt(rows, n))
    BY <1>3, <1>6 DEF DeleteRow
  <2>2. RowsOK(RemoveAt(rows, n)) /\ (RowsAgree(rows) => RowsAgree(RemoveAt(rows, n)))
    BY <1>1, <1>3, RowsShorter
  <2>. QED BY <1>1, <1>2, <1>3, <2>1, <2>2, InventoryRows
<1>7. ASSUME NEW n \in DOMAIN win[w].rows, NEW field, NEW v, InvInput(field, v), InvUpdateByInput(w, n, field, v)
      PROVE  InventoryInv'
  <2>1. PICK old : old = rows[n]
    OBVIOUS
  <2>2. PICK new : new = Updated(old, f, field, v)
    OBVIOUS
  <2>3. SetRows(w, [rows EXCEPT ![n] = Updated(rows[n], f, field, v)])
    BY <1>3, <1>7 DEF InvUpdateByInput, Updated
  <2>4. SetRows(w, [rows EXCEPT ![n] = new])
    BY <2>1, <2>2, <2>3
  <2>5. InvRowOK(old) /\ f \in Rates /\ InvInput(field, v)
    BY <1>1, <1>3, <1>7, <2>1 DEF RowsOK
  <2>6. InvRowOK(new) /\ (QuotesAgree(rows[n]) => QuotesAgree(new))
    BY <2>1, <2>2, <2>5, UpdatedRow
  <2>7. PICK changed : changed = [rows EXCEPT ![n] = new]
    OBVIOUS
  <2>8. RowsOK(changed) /\ (RowsAgree(rows) => RowsAgree(changed))
    BY <1>1, <1>3, <2>6, <2>7, RowsReplaced
  <2>. QED BY <1>1, <1>2, <1>3, <2>4, <2>7, <2>8, InventoryRows
<1>. QED BY <1>4, <1>5, <1>6, <1>7 DEF RowsStep

\* The rate of all rows: the window is marked, and its rows stay in order.
LEMMA InventoryRate ==
  ASSUME TablesInv, InventoryInv, NEW w \in Windows, win[w] # Nothing, NEW v \in FxInputs, ChangeGlobalFx(w, v)
  PROVE  InventoryInv'
<1>1. PICK old, fx : old = win[w].rows /\ fx = GlobalFx(v)
  OBVIOUS
<1>2. v \in Rates /\ fx \in Rates \ {Nothing, 0}
  BY <1>1, CountingRates DEF Rates
<1>3. PICK rows : rows = [n \in DOMAIN old |-> [old[n] EXCEPT !.fx = fx]]
  OBVIOUS
<1>4. win' = [win EXCEPT ![w] = [@ EXCEPT !.fx = v, !.rows = rows]]
  BY <1>1, <1>3 DEF ChangeGlobalFx
<1>5. /\ \A u \in Windows \ {w} : win'[u] = win[u]
      /\ win'[w].rows = rows /\ win'[w].fx = v
  BY <1>4 DEF TablesInv, WinFields
<1>6. RowsOK(old)
  BY <1>1, OpenWindow
<1>7. ASSUME NEW n \in DOMAIN old PROVE InvRowOK([old[n] EXCEPT !.fx = fx])
  <2>1. PICK row : row = old[n]
    OBVIOUS
  <2>2. InvRowOK(row) /\ DOMAIN row = InvFields
    BY <1>6, <2>1 DEF RowsOK, InvRowOK
  <2>3. PICK new : new = [row EXCEPT !.fx = fx]
    OBVIOUS
  <2>4. /\ DOMAIN new = InvFields /\ new.fx = fx /\ new.stock = row.stock /\ new.supplier_cny = row.supplier_cny
        /\ new.supplier_usd = row.supplier_usd /\ new.customer_usd = row.customer_usd
        /\ new.customer_cny = row.customer_cny
    BY <2>2, <2>3 DEF InvFields
  <2>5. InvRowOK(new)
    BY <1>2, <2>2, <2>4 DEF InvRowOK
  <2>. QED BY <2>1, <2>3, <2>5
<1>8. RowsOK(rows)
  <2>1. DOMAIN old = 1..Len(old) /\ Len(old) \in Nat
    BY <1>6 DEF RowsOK
  <2>2. \A n \in 1..Len(old) : rows[n] \in ToSet(rows)
    BY <1>3, <2>1 DEF ToSet
  <2>3. rows \in [1..Len(old) -> ToSet(rows)]
    BY <1>3, <2>1, <2>2
  <2>4. rows \in Seq(ToSet(rows))
    BY <2>1, <2>3, SeqDef, Zenon
  <2>. QED BY <1>3, <1>7, <2>4 DEF RowsOK
<1>9. rated' = rated \cup {w} /\ store' = store
  BY DEF ChangeGlobalFx
<1>10. StoreInv'
  <2>1. "store" \notin rated' => "store" \notin rated
    BY <1>9
  <2>. QED BY <1>9, <2>1 DEF InventoryInv, StoreInv
<1>11. w \in rated' /\ \A u \in Windows \ {w} : u \in rated => u \in rated'
  BY <1>9
<1>. QED BY <1>2, <1>5, <1>8, <1>10, <1>11, InventoryKept

\* What is written for a window is in order; loaded, it is what the window shows.
LEMMA WrittenStore ==
  ASSUME NEW w \in Windows, win[w].fx \in Rates, RowsOK(win[w].rows)
  PROVE  /\ StoreOK(InvWriteStore(w))
         /\ RowsAgree(win[w].rows) => StoreAgrees(InvWriteStore(w))
<1>1. PICK rows, fx : rows = win[w].rows /\ fx = win[w].fx
  OBVIOUS
<1>2. PICK kept : kept = [n \in DOMAIN rows |-> [rows[n] EXCEPT !.supplier_cny = Absent]]
  OBVIOUS
<1>3. PICK stored : stored = [global_fx |-> fx, rows |-> kept]
  OBVIOUS
<1>4. InvWriteStore(w) = stored /\ stored.global_fx = fx /\ stored.rows = kept
  BY <1>1, <1>2, <1>3 DEF InvWriteStore
<1>5. DOMAIN rows = 1..Len(rows) /\ Len(rows) \in Nat /\ DOMAIN kept = 1..Len(rows)
  BY <1>1, <1>2 DEF RowsOK
<1>6. \A n \in 1..Len(rows) : InvRowOK(rows[n])
  BY <1>1, <1>5 DEF RowsOK
<1>7. \A n \in 1..Len(rows) : kept[n] = [rows[n] EXCEPT !.supplier_cny = Absent]
  BY <1>2, <1>5
<1>8. ASSUME NEW n \in 1..Len(rows)
      PROVE  StoredRowOK(kept[n]) /\ InvRowOK(kept[n]) /\ Shown(kept[n]) = Shown(rows[n])
  BY <1>6, <1>7, SavedRow
<1>9. kept \in Seq(ToSet(kept))
  <2>1. \A n \in 1..Len(rows) : kept[n] \in ToSet(kept)
    BY <1>5 DEF ToSet
  <2>2. kept \in [1..Len(rows) -> ToSet(kept)]
    BY <1>2, <1>5, <2>1
  <2>. QED BY <1>5, <2>2, SeqDef, Zenon
<1>10. StoreOK(stored)
  BY <1>1, <1>4, <1>5, <1>8, <1>9 DEF StoreOK
<1>11. ASSUME RowsAgree(win[w].rows), NEW n \in 1..Len(rows), NEW f
       PROVE  QuotesAgree(InvNormalizeRow(kept[n], f))
  <2>1. QuotesAgree(rows[n])
    BY <1>1, <1>5, <1>11 DEF RowsAgree
  <2>2. QuotesAgree(Shown(rows[n]))
    BY <1>6, <2>1, ShownOK
  <2>3. InvNormalizeRow(kept[n], f) = Shown(kept[n])
    BY <1>8, ShownOK
  <2>. QED BY <1>8, <2>2, <2>3
<1>12. RowsAgree(win[w].rows) => StoreAgrees(stored)
  BY <1>4, <1>5, <1>11 DEF StoreAgrees
<1>. QED BY <1>4, <1>10, <1>12

\* Saving: the store takes over the mark of the window.
LEMMA InventorySave ==
  ASSUME TablesInv, InventoryInv, NEW w \in Windows, win[w] # Nothing, InvSave(w)
  PROVE  InventoryInv'
<1>1. /\ win[w].fx \in Rates /\ RowsOK(win[w].rows)
      /\ w \notin rated => RowsAgree(win[w].rows)
  BY OpenWindow
<1>2. StoreOK(InvWriteStore(w)) /\ (w \notin rated => StoreAgrees(InvWriteStore(w)))
  BY <1>1, WrittenStore
<1>3. /\ store' = InvWriteStore(w) /\ win' = win
      /\ rated' = IF w \in rated THEN rated \cup {"store"} ELSE rated \ {"store"}
  BY DEF InvSave
<1>4. \A u \in Windows : u # "store"
  BY NothingAssumption
<1>5. \A u \in Windows : u \in rated <=> u \in rated'
  BY <1>3, <1>4
<1>6. "store" \notin rated' => w \notin rated
  BY <1>3
<1>7. StoreInv'
  BY <1>2, <1>3, <1>6 DEF StoreInv
<1>8. win'[w].fx \in Rates /\ RowsOK(win'[w].rows) /\ (w \notin rated' => RowsAgree(win'[w].rows))
  BY <1>1, <1>3, <1>5
<1>. QED BY <1>3, <1>5, <1>7, <1>8, InventoryKept

\* Loading rows that a store may hold.
LEMMA LoadedRows ==
  ASSUME NEW rows, rows \in Seq(ToSet(rows)), \A n \in DOMAIN rows : StoredRowOK(rows[n]), NEW f \in Rates
  PROVE  RowsOK(Normalized(rows, f))
<1>1. PICK new : new = Normalized(rows, f)
  OBVIOUS
<1>2. new = [n \in DOMAIN rows |-> InvNormalizeRow(rows[n], f)]
  BY <1>1 DEF Normalized
<1>3. DOMAIN rows = 1..Len(rows) /\ Len(rows) \in Nat /\ DOMAIN new = 1..Len(rows)
  BY <1>2
<1>4. \A n \in 1..Len(rows) : InvRowOK(new[n])
  BY <1>2, <1>3, LoadedRow
<1>5. \A n \in 1..Len(rows) : new[n] \in ToSet(new)
  BY <1>3 DEF ToSet
<1>6. new \in [1..Len(rows) -> ToSet(new)]
  BY <1>2, <1>3, <1>5
<1>7. new \in Seq(ToSet(new))
  BY <1>3, <1>6, SeqDef, Zenon
<1>. QED BY <1>1, <1>3, <1>4, <1>7 DEF RowsOK

\* What a window reads from the store.
LEMMA ReadStore ==
  ASSUME InventoryInv
  PROVE  /\ InvReadStore(store).fx \in Rates /\ RowsOK(InvReadStore(store).rows)
         /\ "store" \notin rated => RowsAgree(InvReadStore(store).rows)
<1>1. \A fx, rows : InvLoad(fx, rows).fx = fx /\ InvLoad(fx, rows).rows = Normalized(rows, fx)
  BY DEF InvLoad
<1>2. DefaultFx \in Rates
  BY RatesAreNumbers
<1>3. CASE store = Nothing
  <2>1. PICK rows : rows = InvSeeded
    OBVIOUS
  <2>2. DOMAIN Seed = 1..Len(Seed) /\ Len(Seed) \in Nat
    BY InputsAssumption
  <2>3. DOMAIN rows = 1..Len(Seed)
        /\ rows = [n \in 1..Len(Seed) |-> InvDefaultRow(Seed[n].model, Seed[n].stock, DefaultFx)]
    BY <2>1, <2>2 DEF InvSeeded
  <2>4. ASSUME NEW n \in 1..Len(Seed) PROVE InvRowOK(rows[n]) /\ QuotesAgree(rows[n])
    <3>1. Seed[n].stock \in Int
      BY <2>2, InputsAssumption
    <3>. QED BY <1>2, <2>3, <3>1, DefaultRow
  <2>5. \A n \in 1..Len(Seed) : rows[n] \in ToSet(rows)
    BY <2>3 DEF ToSet
  <2>6. rows \in [1..Len(Seed) -> ToSet(rows)]
    BY <2>3, <2>5
  <2>7. rows \in Seq(ToSet(rows))
    BY <2>2, <2>6, SeqDef, Zenon
  <2>8. \A n \in DOMAIN rows : StoredRowOK(rows[n])
    <3>1. \A row : InvRowOK(row) => StoredRowOK(row)
      BY DEF InvRowOK, StoredRowOK, Numbers
    <3>. QED BY <2>3, <2>4, <3>1
  <2>9. RowsOK(Normalized(rows, DefaultFx))
    BY <1>2, <2>7, <2>8, LoadedRows
  <2>10. RowsAgree(Normalized(rows, DefaultFx))
    <3>1. ASSUME NEW n \in DOMAIN rows PROVE QuotesAgree(InvNormalizeRow(rows[n], DefaultFx))
      <4>1. InvRowOK(rows[n]) /\ QuotesAgree(rows[n])
        BY <2>3, <2>4
      <4>2. InvNormalizeRow(rows[n], DefaultFx) = Shown(rows[n]) /\ QuotesAgree(Shown(rows[n]))
        BY <4>1, ShownOK
      <4>. QED BY <4>2
    <3>. QED BY <3>1 DEF RowsAgree, Normalized
  <2>11. InvReadStore(store) = InvLoad(DefaultFx, rows)
    BY <1>3, <2>1 DEF InvReadStore
  <2>. QED BY <1>1, <1>2, <2>9, <2>10, <2>11
<1>4. CASE store # Nothing
  <2>1. StoreOK(store) /\ ("store" \notin rated => StoreAgrees(store))
    BY <1>4 DEF InventoryInv
  <2>2. PICK fx : fx = Or(store.global_fx, DefaultFx)
    OBVIOUS
  <2>3. fx \in Rates
    BY <1>2, <2>1, <2>2 DEF StoreOK, Or
  <2>4. InvReadStore(store) = InvLoad(fx, store.rows)
    BY <1>4, <2>2 DEF InvReadStore, InvSaved
  <2>5. RowsOK(Normalized(store.rows, fx))
    BY <2>1, <2>3, LoadedRows DEF StoreOK
  <2>6. StoreAgrees(store) => RowsAgree(Normalized(store.rows, fx))
    BY <2>2 DEF StoreAgrees, RowsAgree, Normalized
  <2>. QED BY <1>1, <2>1, <2>3, <2>4, <2>5, <2>6
<1>. QED BY <1>3, <1>4

\* Opening a window: it takes over the mark of the store.
LEMMA InventoryOpen ==
  ASSUME TablesInv, InventoryInv, NEW w \in Windows, NEW tab, Open(w, tab)
  PROVE  InventoryInv'
<1>1. PICK inv : inv = InvReadStore(store)
  OBVIOUS
<1>2. PICK fx, rows : fx = inv.fx /\ rows = inv.rows
  OBVIOUS
<1>3. PICK new : /\ win' = [win EXCEPT ![w] = new] /\ new.fx = fx /\ new.rows = rows
  <2>1. PICK new : new = [fx |-> fx, rows |-> rows, tab |-> tab, tp |-> page.tp, table |-> <<>>, known |-> MemoIds]
    OBVIOUS
  <2>2. win' = [win EXCEPT ![w] = new]
    BY <1>1, <1>2, <2>1 DEF Open
  <2>3. new.fx = fx /\ new.rows = rows
    BY <2>1
  <2>. QED BY <2>2, <2>3
<1>4. /\ \A u \in Windows \ {w} : win'[u] = win[u]
      /\ win'[w].fx = fx /\ win'[w].rows = rows
  BY <1>3 DEF TablesInv
<1>5. fx \in Rates /\ RowsOK(rows) /\ ("store" \notin rated => RowsAgree(rows))
  BY <1>1, <1>2, ReadStore
<1>6. store' = store /\ rated' = IF "store" \in rated THEN rated \cup {w} ELSE rated \ {w}
  BY DEF Open
<1>7. w # "store"
  BY NothingAssumption
<1>8. "store" \in rated <=> "store" \in rated'
  BY <1>6, <1>7
<1>9. StoreInv'
  BY <1>6, <1>8 DEF InventoryInv, StoreInv
<1>10. (w \notin rated' => "store" \notin rated) /\ \A u \in Windows \ {w} : u \in rated => u \in rated'
  BY <1>6
<1>. QED BY <1>4, <1>5, <1>9, <1>10, InventoryKept

\* The inventory is in order at the start.
LEMMA InventoryInit == Init => InventoryInv
BY StoresAssumption DEF Init, InventoryInv

\* Steps elsewhere leave it alone.
LEMMA InventoryUnchanged ==
  ASSUME InventoryInv, UNCHANGED <<store, win, rated>>
  PROVE  InventoryInv'
BY DEF InventoryInv

\* The TP tab leaves rows and rate of a window alone.
LEMMA InventoryTables ==
  ASSUME TablesInv, InventoryInv, NEW w \in Windows, win[w] # Nothing, TableStep(w) \/ MemoStep(w)
  PROVE  InventoryInv'
<1>1. UNCHANGED <<store, rated>>
  BY DEF TableStep, BuildRowsFromInputs, EditTp, LoadMemo, MemoStep, SaveMemo, DeleteMemo
<1>2. TableStep(w) => \E table : SetTable(w, table)
  BY DEF TableStep, BuildRowsFromInputs, EditTp, LoadMemo
<1>3. MemoStep(w) => \E known : win' = [win EXCEPT ![w].known = known]
  BY DEF MemoStep, SaveMemo, DeleteMemo
<1>4. /\ \A u \in Windows \ {w} : win'[u] = win[u]
      /\ win'[w].fx = win[w].fx /\ win'[w].rows = win[w].rows
  BY <1>2, <1>3, SetTableStep, SetKnownStep
<1>. QED BY <1>1, <1>4, InventoryKept, StoreKept, OpenWindow

\* Every step preserves the order of the inventory.
LEMMA InventoryStep == TablesInv /\ InventoryInv /\ [Next]_vars => InventoryInv'
<1>. SUFFICES ASSUME TablesInv, InventoryInv, [Next]_vars PROVE InventoryInv'
  OBVIOUS
<1>1. CASE UNCHANGED vars
  BY <1>1, InventoryUnchanged DEF vars
<1>2. CASE Scripts
  BY <1>2, InventoryUnchanged DEF Scripts, Crawl, EditOverrides, Clean, BuildPage
<1>3. CASE Next /\ ~Scripts
  BY <1>3, NextSteps, InventoryOpen, InventoryRowsStep, InventorySave, InventoryRate, InventoryTables
<1>. QED BY <1>1, <1>2, <1>3

\* The inductive invariant of the whole page.
LEMMA Invariance == Spec => []IInv
<1>1. Init => IInv
  BY DataInit, TablesInit, InventoryInit DEF IInv
<1>2. IInv /\ [Next]_vars => IInv'
  BY DataStep, TablesStep, InventoryStep DEF IInv
<1>. QED BY <1>1, <1>2, PTL DEF Spec

-----------------------------------------------------------------------------
(* What the user sees.                                                     *)

\* Wherever both currencies are shown they agree under the row's rate, after any edits
\* and reloads (refreshRowCalculated, renderTpTable, invUpdateByInput,
\* invNormalizeRow), but for the customer's quotes of an inventory whose rate was
\* changed for all rows at once.
THEOREM QuotesConvert == Spec => []CurrenciesAgree
<1>1. ASSUME IInv PROVE CurrenciesAgree
  <2>1. ASSUME NEW w \in Windows, win[w] # Nothing, NEW n \in DOMAIN win[w].table, Or(win[w].table[n].fx, 0) > 0
        PROVE  /\ Or(win[w].table[n].cny, 0) = Rmb(Or(win[w].table[n].usd, 0), win[w].table[n].fx)
               /\ Or(win[w].table[n].ship_cny, 0) = Rmb(Or(win[w].table[n].ship, 0), win[w].table[n].fx)
    BY <1>1, <2>1 DEF IInv, TablesInv, TableOK, TpRowOK
  <2>2. ASSUME NEW w \in Windows, win[w] # Nothing, w \notin rated, NEW n \in DOMAIN win[w].rows,
               NEW r, r = InvNormalizeRow(win[w].rows[n], win[w].fx), r.fx > 0
        PROVE  r.customer_cny = r.customer_usd * r.fx
    <3>1. PICK row : row = win[w].rows[n]
      OBVIOUS
    <3>2. InvRowOK(row) /\ QuotesAgree(row)
      BY <1>1, <2>2, <3>1 DEF IInv, InventoryInv
    <3>3. r = Shown(row)
      BY <2>2, <3>1, <3>2, ShownOK
    <3>4. Shown(row).fx = row.fx
      BY DEF Shown
    <3>. QED BY <2>2, <3>2, <3>3, <3>4, ShownOK
  <2>. QED BY <2>1, <2>2 DEF CurrenciesAgree
<1>. QED BY <1>1, Invariance, PTL

\* Saving the inventory and loading the page again changes nothing that a window shows
\* (invWriteStore, invReadStore, invNormalizeRow), rows of an older version included.
THEOREM ReloadKeeps == Spec => []ReloadShowsTheSame
<1>1. ASSUME IInv, NEW w \in Windows, win[w] # Nothing
      PROVE  Normalized(InvSaved(InvWriteStore(w)).rows, InvSaved(InvWriteStore(w)).fx)
               = Normalized(win[w].rows, win[w].fx)
  <2>1. PICK rows, fx : rows = win[w].rows /\ fx = win[w].fx
    OBVIOUS
  <2>2. DOMAIN rows = 1..Len(rows) /\ \A n \in 1..Len(rows) : InvRowOK(rows[n])
    BY <1>1, <2>1 DEF IInv, InventoryInv
  <2>3. PICK kept : kept = [n \in 1..Len(rows) |-> [rows[n] EXCEPT !.supplier_cny = Absent]]
    OBVIOUS
  <2>4. InvWriteStore(w).rows = kept
    BY <2>1, <2>2, <2>3 DEF InvWriteStore
  <2>5. PICK f : f = Or(InvWriteStore(w).global_fx, DefaultFx)
    OBVIOUS
  <2>6. InvSaved(InvWriteStore(w)).rows = Normalized(kept, f) /\ InvSaved(InvWriteStore(w)).fx = f
    BY <2>4, <2>5 DEF InvSaved, InvLoad
  <2>7. PICK shown : shown = [n \in 1..Len(rows) |-> Shown(rows[n])]
    OBVIOUS
  <2>8. Normalized(rows, fx) = shown
    BY <2>2, <2>7, ShownOK DEF Normalized
  <2>9. ASSUME NEW n \in 1..Len(rows) PROVE InvNormalizeRow(kept[n], f) = Shown(rows[n])
    <3>1. kept[n] = [rows[n] EXCEPT !.supplier_cny = Absent]
      BY <2>3
    <3>2. InvRowOK(kept[n]) /\ Shown(kept[n]) = Shown(rows[n])
      BY <2>2, <3>1, SavedRow
    <3>. QED BY <3>2, ShownOK
  <2>10. Normalized(kept, f) = shown
    BY <2>3, <2>7, <2>9 DEF Normalized
  <2>11. ASSUME NEW n \in 1..Len(rows) PROVE InvNormalizeRow(shown[n], f) = Shown(rows[n])
    <3>1. shown[n] = Shown(rows[n])
      BY <2>7
    <3>2. InvRowOK(shown[n]) /\ Shown(shown[n]) = shown[n]
      BY <2>2, <3>1, ShownOK
    <3>. QED BY <3>1, <3>2, ShownOK
  <2>12. Normalized(shown, f) = shown
    BY <2>7, <2>11 DEF Normalized
  <2>. QED BY <2>1, <2>6, <2>8, <2>10, <2>12
<1>2. IInv => ReloadShowsTheSame
  BY <1>1 DEF ReloadShowsTheSame
<1>. QED BY <1>2, Invariance, PTL
=============================================================================
