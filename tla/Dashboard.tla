----------------------------- MODULE Dashboard -----------------------------
(***************************************************************************)
(* The profit radar page (scripts/build_profit_radar.py) from table to     *)
(* browser: the crawl fills parts_pricing, clean_lc_data_quality.py        *)
(* normalises it, the build writes the page, and windows of one browser    *)
(* open it.  In the TP tab a user has quotes computed, edits them and      *)
(* keeps tables as memos; in the inventory tab rows of supplier quotes.    *)
(* Memos and inventory live in the localStorage that the windows share.    *)
(*                                                                         *)
(* Prices are integers; Tax stands for the factor 1.13.  Handlers of the   *)
(* page run one at a time.  Left out: the search fields, the margins, and  *)
(* the rounding to six digits of what the fields show.                     *)
(***************************************************************************)
EXTENDS RadarData, FiniteSets

CONSTANTS
  Absent,      \* a field that a stored row does not have (undefined)
  Windows,     \* browser windows
  Tables,      \* what parts_pricing may hold after a crawl
  Overrides,   \* what the override file may hold
  Seed,        \* the built-in supplier inventory: sequence of [model, stock]
  Stores,      \* what localStorage may hold of the inventory at the start
  Tax,         \* the tax factor
  FxInputs, UsdInputs, CnyInputs, Margins,  \* what the user types
  ModelLists,  \* lists of models the user types
  Names,       \* names of memos
  MaxSteps     \* bound: crawls, scripts, edits and saved memos

DefaultFx == 7
Numbers   == Int \cup {Nothing}
Rates     == FxInputs \cup {DefaultFx, Nothing}

PartFields == {"model", "st", "lc_usd", "lc_cny", "rate", "extracted", "recent"}
PartOK(row) == DOMAIN row = PartFields /\ {row.extracted, row.recent, row.lc_cny} \subseteq Numbers

ASSUME TaxAssumption == Tax \in Nat \ {0}
ASSUME NothingAssumption == Nothing \notin Int /\ Absent \notin Int /\ Absent # Nothing /\ "store" \notin Windows
ASSUME InputsAssumption ==
  /\ FxInputs \cup UsdInputs \cup CnyInputs \subseteq Numbers /\ Margins \subseteq Int
  /\ \A n \in DOMAIN Seed : Seed[n].stock \in Nat
  /\ Seed \in Seq(ToSet(Seed)) /\ MaxSteps \in Nat
ASSUME TablesAssumption ==
  /\ \A rows \in Tables : rows \in Seq(ToSet(rows)) /\ \A n \in DOMAIN rows : PartOK(rows[n])
  /\ \A lines \in Overrides : lines \in Seq(ToSet(lines))

\* Prices are whole numbers: what is typed in RMB divides by every rate in use.
ASSUME ExactAssumption ==
  \A cny \in CnyInputs \ {Nothing}, fx \in Rates \ {Nothing} :
    fx > 0 => (cny \div fx) * fx = cny /\ (cny \div (Tax * fx)) * fx * Tax = cny

VARIABLES
  db,         \* the rows of parts_pricing
  overrides,  \* the lines of the override file
  cleaned,    \* cleaned, and neither crawled nor overridden since
  page,       \* the data in the page as last built
  current,    \* built after that cleaning
  store,      \* localStorage: the inventory saved last, or Nothing
  memos,      \* localStorage: the memos, newest first
  win,        \* what each window shows; Nothing: it is closed
  rated,      \* windows, and "store", whose rows had their rate changed all at once
  steps

vars == <<db, overrides, cleaned, page, current, store, memos, win, rated, steps>>
files == <<db, overrides, cleaned, page, current>>

Step == steps < MaxSteps /\ steps' = steps + 1

Build(rows, lines) == [radar |-> BuildRadar(rows, LoadOverrides(lines)),
                       tp    |-> BuildTpMap(rows, LoadOverrides(lines))]

Init ==
  /\ db \in Tables /\ overrides \in Overrides
  /\ cleaned = FALSE /\ current = FALSE
  /\ page = Build(db, overrides)
  /\ store \in Stores
  /\ memos = <<>>
  /\ win = [w \in Windows |-> Nothing]
  /\ rated = {} /\ steps = 0

-----------------------------------------------------------------------------
(* The scripts.                                                            *)

Crawl == Step /\ db' \in Tables /\ cleaned' = FALSE /\ current' = FALSE
              /\ UNCHANGED <<overrides, page, store, memos, win, rated>>

EditOverrides == Step /\ overrides' \in Overrides /\ cleaned' = FALSE /\ current' = FALSE
                      /\ UNCHANGED <<db, page, store, memos, win, rated>>

Clean ==
  /\ Step
  /\ db' = CleanLcData(db, LoadOverrides(overrides))
  /\ cleaned' = TRUE
  /\ UNCHANGED <<overrides, page, current, store, memos, win, rated>>

BuildPage ==
  /\ Step
  /\ page' = Build(db, overrides)
  /\ current' = cleaned
  /\ UNCHANGED <<db, overrides, cleaned, store, memos, win, rated>>

-----------------------------------------------------------------------------
(* Rows of the inventory.                                                  *)

\* Number of a field: an empty one and null count as 0, a missing one as no number.
ParseNum(v) == IF v = Absent THEN Nothing ELSE Or(v, 0)
OrElse(a, b) == IF a \in {Nothing, 0} THEN b ELSE a

GlobalFx(fx) == OrElse(ParseNum(fx), DefaultFx)

InvDefaultRow(model, stock, fx) ==
  [model |-> model, stock |-> stock, supplier_cny |-> Nothing, supplier_usd |-> Nothing,
   customer_usd |-> Nothing, customer_cny |-> Nothing, fx |-> GlobalFx(fx)]

\* A row with its quotes completed: the supplier's from the RMB quote of an older
\* version, each of the customer's from the other.
InvNormalizeRow(row, fx_field) ==
  LET fx     == OrElse(ParseNum(row.fx), GlobalFx(fx_field))
      old    == ParseNum(row.supplier_cny)
      usd    == ParseNum(row.customer_usd)
      cny    == ParseNum(row.customer_cny)
      stock  == Or(ParseNum(row.stock), 0)
  IN  [row EXCEPT !.stock = IF stock < 0 THEN 0 ELSE stock,
         !.supplier_usd = IF ParseNum(@) = Nothing /\ old # Nothing /\ fx > 0 THEN old \div (fx * Tax)
                          ELSE ParseNum(@),
         !.supplier_cny = Absent,
         !.customer_cny = IF usd # Nothing /\ cny = Nothing THEN usd * fx ELSE cny,
         !.customer_usd = IF cny # Nothing /\ usd = Nothing /\ fx > 0 THEN cny \div fx ELSE usd,
         !.fx = fx]

Normalized(rows, fx) == [n \in DOMAIN rows |-> InvNormalizeRow(rows[n], fx)]

QuotesAgree(row) == row.fx > 0 => Or(row.customer_cny, 0) = Or(row.customer_usd, 0) * row.fx

\* A row in the store, the older version's included, and one that a window shows.
InvFields == {"model", "stock", "supplier_cny", "supplier_usd", "customer_usd", "customer_cny", "fx"}
StoredRowOK(row) ==
  /\ DOMAIN row = InvFields /\ row.fx \in Rates \cup {Absent}
  /\ {row.stock, row.supplier_cny, row.supplier_usd, row.customer_usd, row.customer_cny} \subseteq Numbers \cup {Absent}
InvRowOK(row) ==
  /\ DOMAIN row = InvFields /\ row.fx \in Rates \ {Nothing, 0} /\ row.supplier_cny \in {Absent, Nothing}
  /\ {row.stock, row.supplier_usd, row.customer_usd, row.customer_cny} \subseteq Numbers

StoreOK(stored) ==
  /\ stored.global_fx \in Rates /\ stored.rows \in Seq(ToSet(stored.rows))
  /\ \A n \in DOMAIN stored.rows : StoredRowOK(stored.rows[n])
StoreAgrees(stored) ==
  \A n \in DOMAIN stored.rows : QuotesAgree(InvNormalizeRow(stored.rows[n], Or(stored.global_fx, DefaultFx)))

\* Whoever saved the inventory had not changed the rate of all rows.
ASSUME StoresAssumption == \A stored \in Stores \ {Nothing} : StoreOK(stored) /\ StoreAgrees(stored)

\* What is saved of a window: its rows as they are, without the older RMB quote.
InvWriteStoreWithoutFx(w) ==
  [global_fx |-> win[w].fx, rows |-> [n \in DOMAIN win[w].rows |-> [win[w].rows[n] EXCEPT !.fx = Absent]]]

InvWriteStore(w) ==
  [global_fx |-> win[w].fx, rows |-> [n \in DOMAIN win[w].rows |-> [win[w].rows[n] EXCEPT !.supplier_cny = Absent]]]

\* The field of the rate and the rows of a window that loads the page: the inventory
\* saved last, or the built-in one.
InvLoad(fx, rows) == [fx |-> fx, rows |-> Normalized(rows, fx)]
InvSaved(stored)  == InvLoad(Or(stored.global_fx, DefaultFx), stored.rows)
InvSeeded == [n \in DOMAIN Seed |-> InvDefaultRow(Seed[n].model, Seed[n].stock, DefaultFx)]
InvReadStore(stored) == IF stored = Nothing THEN InvLoad(DefaultFx, InvSeeded) ELSE InvSaved(stored)

MemoIds == {memos[n].id : n \in DOMAIN memos}

\* A user opens the page, or loads it again, and goes to one of the tabs.
Open(w, tab) ==
  /\ LET inv == InvReadStore(store)
     IN  win' = [win EXCEPT ![w] = [fx |-> inv.fx, rows |-> inv.rows, tab |-> tab, tp |-> page.tp,
                                    table |-> <<>>, known |-> MemoIds]]
  /\ rated' = IF "store" \in rated THEN rated \cup {w} ELSE rated \ {w}
  /\ UNCHANGED <<files, store, memos, steps>>

At(w, tab)   == win[w] # Nothing /\ win[w].tab = tab
Uses(w, tab) == At(w, tab) /\ Step

SetRows(w, rows) == win' = [win EXCEPT ![w].rows = rows]

AddRow(w) ==
  /\ Uses(w, "inv")
  /\ SetRows(w, <<InvDefaultRow(Nothing, 0, win[w].fx)>> \o win[w].rows)
  /\ UNCHANGED <<files, store, memos, rated>>

\* A line of the bulk import: the first row of the model gets the stock.
InvImport(w, model, stock) ==
  LET rows == win[w].rows
      same == {n \in DOMAIN rows : rows[n].model = model}
  IN  /\ Uses(w, "inv")
      /\ SetRows(w, IF same = {} THEN Append(rows, InvDefaultRow(model, stock, win[w].fx))
                    ELSE [rows EXCEPT ![Min(same)].stock = stock])
      /\ UNCHANGED <<files, store, memos, rated>>

\* The rate of all rows; their quotes stay as they are.
ChangeGlobalFx(w, v) ==
  /\ Uses(w, "inv")
  /\ win' = [win EXCEPT ![w] =
       [@ EXCEPT !.fx = v,
                 !.rows = [n \in DOMAIN win[w].rows |-> [win[w].rows[n] EXCEPT !.fx = GlobalFx(v)]]]]
  /\ rated' = rated \cup {w}
  /\ UNCHANGED <<files, store, memos>>

Converted(row, field) ==
  CASE field = "customer_usd" ->
         [row EXCEPT !.customer_cny = IF row.customer_usd = Nothing THEN Nothing ELSE row.customer_usd * row.fx]
    [] field = "customer_cny" ->
         [row EXCEPT !.customer_usd = IF row.customer_cny = Nothing \/ row.fx <= 0 THEN Nothing
                                      ELSE row.customer_cny \div row.fx]
    [] field = "fx" /\ row.customer_usd # Nothing -> [row EXCEPT !.customer_cny = row.customer_usd * row.fx]
    [] field = "fx" /\ row.customer_usd = Nothing /\ row.customer_cny # Nothing /\ row.fx > 0 ->
         [row EXCEPT !.customer_usd = row.customer_cny \div row.fx]
    [] OTHER -> row

\* The user changes one field of a row; the others are read as the page shows them.
InvUpdateByInput(w, n, field, v) ==
  LET shown == InvNormalizeRow(win[w].rows[n], win[w].fx)
      typed == [shown EXCEPT ![field] = v]
      row   == [typed EXCEPT !.fx = OrElse(ParseNum(@), GlobalFx(win[w].fx))]
  IN  /\ Uses(w, "inv")
      /\ SetRows(w, [win[w].rows EXCEPT ![n] = InvNormalizeRow(Converted(row, field), win[w].fx)])
      /\ UNCHANGED <<files, store, memos, rated>>

DeleteRow(w, n) ==
  /\ Uses(w, "inv")
  /\ SetRows(w, RemoveAt(win[w].rows, n))
  /\ UNCHANGED <<files, store, memos, rated>>

InvSave(w) ==
  /\ Uses(w, "inv")
  /\ store' = InvWriteStore(w)
  /\ rated' = IF w \in rated THEN rated \cup {"store"} ELSE rated \ {"store"}
  /\ UNCHANGED <<files, memos, win>>

-----------------------------------------------------------------------------
(* The table of the TP tab: prices in both currencies, tax included in RMB. *)

Rmb(usd, fx) == IF usd = Nothing THEN Nothing ELSE usd * fx * Tax

\* The fields of a row that is computed or kept in a memo; an empty price to ship at
\* shows the TP instead.
RenderTpRow(r) ==
  [r EXCEPT !.ship     = Or(@, r.usd),
            !.ship_cny = IF r.ship = Nothing THEN r.cny ELSE Rmb(r.ship, r.fx)]

BuildTpRow(tp_map, model, fx, margin) ==
  LET record   == ResolveTpRecord(tp_map, model)
      platform == IF record = Nothing THEN Nothing ELSE record.platform
      usd      == IF platform = Nothing \/ fx <= 0 THEN Nothing
                  ELSE (platform * (100 + margin)) \div (Tax * fx * 100)
  IN  RenderTpRow([model |-> IF record = Nothing THEN model ELSE record.model,
                   fx |-> fx, usd |-> usd, cny |-> Rmb(usd, fx), ship |-> usd, ship_cny |-> Nothing])

SetTable(w, table) == win' = [win EXCEPT ![w].table = table]

BuildRowsFromInputs(w, models, fx, margin) ==
  /\ Uses(w, "tp")
  /\ SetTable(w, [n \in DOMAIN models |-> BuildTpRow(win[w].tp, models[n], Or(fx, DefaultFx), margin)])
  /\ UNCHANGED <<files, store, memos, rated>>

\* A row after the user changed field: an empty field counts as 0, and under a rate
\* that is not positive nothing else follows.
RefreshUnlessShipped(row, field) ==
  LET fx == Or(row.fx, 0)
  IN  IF fx <= 0 THEN row
      ELSE CASE field = "cny"           -> [row EXCEPT !.usd = Or(row.cny, 0) \div (Tax * fx)]
             [] field \in {"usd", "fx"} -> [row EXCEPT !.cny = Rmb(Or(row.usd, 0), fx)]
             [] OTHER                   -> row

RefreshRowCalculated(row, field) ==
  LET fx == Or(row.fx, 0)
  IN  IF fx <= 0 THEN row
      ELSE CASE field = "usd"      -> [row EXCEPT !.cny = Rmb(Or(row.usd, 0), fx)]
             [] field = "cny"      -> [row EXCEPT !.usd = Or(row.cny, 0) \div (Tax * fx)]
             [] field = "ship"     -> [row EXCEPT !.ship_cny = Rmb(Or(row.ship, 0), fx)]
             [] field = "ship_cny" -> [row EXCEPT !.ship = Or(row.ship_cny, 0) \div (Tax * fx)]
             [] field = "fx"       -> [row EXCEPT !.cny = Rmb(Or(row.usd, 0), fx),
                                                  !.ship_cny = Rmb(Or(row.ship, 0), fx)]

EditTp(w, n, field, v) ==
  /\ Uses(w, "tp")
  /\ SetTable(w, [win[w].table EXCEPT ![n] = RefreshRowCalculated([@ EXCEPT ![field] = v], field)])
  /\ UNCHANGED <<files, store, memos, rated>>

\* The table is kept under the name, in place of a memo that has it.  The code keeps
\* none while the list of models is empty; here a memo may be kept at any time.
SaveMemo(w, name) ==
  LET same     == {n \in DOMAIN memos : memos[n].name = name}
      others   == Only(memos, {m \in ToSet(memos) : m.name # name})
      id       == IF same = {} THEN steps' ELSE memos[Min(same)].id
      collect  == [n \in DOMAIN win[w].table |-> [win[w].table[n] EXCEPT !.fx = Or(@, 0)]]
  IN  /\ Uses(w, "tp")
      /\ memos' = <<[id |-> id, name |-> name, table |-> collect]>> \o others
      /\ win' = [win EXCEPT ![w].known = {memos'[n].id : n \in DOMAIN memos'}]
      /\ UNCHANGED <<files, store, rated>>

\* A memo without a table leaves the one shown in place; another window may have
\* deleted the memo.
LoadMemo(w, id) ==
  /\ At(w, "tp")
  /\ \E n \in DOMAIN memos :
       /\ memos[n].id = id /\ memos[n].table # <<>>
       /\ SetTable(w, [k \in DOMAIN memos[n].table |-> RenderTpRow(memos[n].table[k])])
  /\ UNCHANGED <<files, store, memos, rated, steps>>

DeleteMemo(w, id) ==
  /\ At(w, "tp")
  /\ memos' = Only(memos, {m \in ToSet(memos) : m.id # id})
  /\ win' = [win EXCEPT ![w].known = {memos'[n].id : n \in DOMAIN memos'}]
  /\ UNCHANGED <<files, store, rated, steps>>

-----------------------------------------------------------------------------
Scripts == Crawl \/ EditOverrides \/ Clean \/ BuildPage

Inventory(w) ==
  \/ AddRow(w) \/ InvSave(w)
  \/ \E n \in DOMAIN Seed : InvImport(w, Seed[n].model, Seed[n].stock + 1)
  \/ \E v \in FxInputs : ChangeGlobalFx(w, v)
  \/ \E n \in DOMAIN win[w].rows :
       \/ DeleteRow(w, n)
       \/ \E v \in FxInputs  : InvUpdateByInput(w, n, "fx", v)
       \/ \E v \in CnyInputs : InvUpdateByInput(w, n, "customer_cny", v)
       \/ \E v \in UsdInputs, field \in {"supplier_usd", "customer_usd", "stock"} : InvUpdateByInput(w, n, field, v)
       \/ \E m \in DOMAIN page.tp : InvUpdateByInput(w, n, "model", m)

TpTable(w) ==
  \/ \E models \in ModelLists, fx \in FxInputs, margin \in Margins : BuildRowsFromInputs(w, models, fx, margin)
  \/ \E n \in DOMAIN win[w].table :
       \/ \E v \in FxInputs : EditTp(w, n, "fx", v)
       \/ \E v \in CnyInputs, field \in {"cny", "ship_cny"} : EditTp(w, n, field, v)
       \/ \E v \in UsdInputs, field \in {"usd", "ship"} : EditTp(w, n, field, v)
  \/ \E name \in Names : SaveMemo(w, name)
  \/ \E id \in win[w].known : LoadMemo(w, id) \/ DeleteMemo(w, id)

Next ==
  \/ Scripts
  \/ \E w \in Windows : \/ \E tab \in {"tp", "inv"} : Open(w, tab)
                        \/ win[w] # Nothing /\ (Inventory(w) \/ TpTable(w))

Spec == Init /\ [][Next]_vars

-----------------------------------------------------------------------------
(* Properties.                                                             *)

\* In the required order, cleaning first and building then, the page shows of each
\* model the orders that the table holds, whole numbers from 0 to 100.
RebuiltPageShowsDb ==
  current =>
    LET held(m) == {Or(db[n].extracted, db[n].recent) : n \in {k \in DOMAIN db : db[k].model = m}}
        whole   == {2 * n : n \in 0..100}
    IN  /\ \A n \in DOMAIN page.radar :
             page.radar[n].orders \in {Or(h, 0) : h \in held(page.radar[n].model)} \cap whole
        /\ \A m \in DOMAIN page.tp : page.tp[m].orders \in held(m) \cap (whole \cup {Nothing})

\* Wherever both currencies are shown they agree under the row's rate, after any edits
\* and reloads: in the TP table, and for the customer's quote in the inventory unless
\* the rate of all rows was changed at once (refreshRowCalculated, invUpdateByInput).
CurrenciesAgree ==
  \A w \in Windows : win[w] # Nothing =>
    /\ \A n \in DOMAIN win[w].table :
         LET r == win[w].table[n]
         IN  Or(r.fx, 0) > 0 => /\ Or(r.cny, 0) = Rmb(Or(r.usd, 0), r.fx)
                                /\ Or(r.ship_cny, 0) = Rmb(Or(r.ship, 0), r.fx)
    /\ w \notin rated => \A n \in DOMAIN win[w].rows :
         LET r == InvNormalizeRow(win[w].rows[n], win[w].fx)
         IN  r.fx > 0 => r.customer_cny = r.customer_usd * r.fx

\* A window shows the inventory as it would after saving and loading the page again:
\* no quote, rate or stock changes by that, nor a row of an older version.
ReloadShowsTheSame ==
  \A w \in Windows : win[w] # Nothing =>
    LET again == InvSaved(InvWriteStore(w))
    IN  Normalized(again.rows, again.fx) = Normalized(win[w].rows, win[w].fx)

-----------------------------------------------------------------------------
(* Why they hold: the inductive invariants of DashboardProofs.             *)

\* A cleaned table stays as it is when it is cleaned again, and a page is current
\* as long as it shows the cleaned table.
DataInv ==
  /\ db \in Seq(ToSet(db)) /\ \A n \in DOMAIN db : PartOK(db[n])
  /\ overrides \in Overrides
  /\ cleaned => CleanLcData(db, LoadOverrides(overrides)) = db
  /\ current => cleaned /\ page = Build(db, overrides)

\* The prices of the page are numbers, and so are those of the tables in windows and
\* memos, which agree.
PricesOK(tp_map) == \A m \in DOMAIN tp_map : tp_map[m].platform \in Numbers

TpFields == {"model", "fx", "usd", "cny", "ship", "ship_cny"}
TpRowOK(r) ==
  /\ DOMAIN r = TpFields /\ r.fx \in Rates \cup {0}
  /\ {r.usd, r.cny, r.ship, r.ship_cny} \subseteq Numbers
  /\ Or(r.fx, 0) > 0 => /\ Or(r.cny, 0) = Rmb(Or(r.usd, 0), r.fx)
                        /\ Or(r.ship_cny, 0) = Rmb(Or(r.ship, 0), r.fx)

TableOK(table) == \A n \in DOMAIN table : TpRowOK(table[n])

WinFields == {"fx", "rows", "tab", "tp", "table", "known"}
TablesInv ==
  /\ PricesOK(page.tp)
  /\ DOMAIN win = Windows
  /\ \A w \in Windows : win[w] # Nothing =>
       DOMAIN win[w] = WinFields /\ PricesOK(win[w].tp) /\ TableOK(win[w].table)
  /\ memos \in Seq(ToSet(memos))
  /\ \A n \in DOMAIN memos : /\ TableOK(memos[n].table)
                             /\ \A k \in DOMAIN memos[n].table : memos[n].table[k].fx # Nothing

\* The rows of a window have rates that count, and agree; what is in the store agrees
\* once it is loaded.
InventoryInv ==
  /\ \A w \in Windows : win[w] # Nothing =>
       /\ win[w].fx \in Rates /\ win[w].rows \in Seq(ToSet(win[w].rows))
       /\ \A n \in DOMAIN win[w].rows : InvRowOK(win[w].rows[n])
       /\ w \notin rated => \A n \in DOMAIN win[w].rows : QuotesAgree(win[w].rows[n])
  /\ store # Nothing => StoreOK(store) /\ ("store" \notin rated => StoreAgrees(store))

IInv == DataInv /\ TablesInv /\ InventoryInv
=============================================================================
