----------------------------- MODULE BrokerSync -----------------------------
(***************************************************************************)
(* The broker's books and the copies of them the program keeps:            *)
(* src/ingestion/kite_sync.py, the CSV imports of src/api/v1/blueprint.py, *)
(* and the gate on sells that reads the copies.                            *)
(*                                                                         *)
(* run_start_of_day_sync takes three answers from the broker, holdings,    *)
(* positions and margins, one after the other, and writes each in a        *)
(* transaction of its own; the scheduler and the button on the page may    *)
(* run it at one time.  Meanwhile the broker fills orders and turns its    *)
(* day, and the user imports files and purges them.                        *)
(*                                                                         *)
(* A listing is a symbol on an exchange.  Its token is the broker's, or,   *)
(* when a file was imported before the broker named it, one made from the  *)
(* symbol.  Prices are left out; products are one.                         *)
(***************************************************************************)
EXTENDS SellableCheck, FiniteSets, Functions

CONSTANTS Symbols, Exchanges,
          AtBroker,      \* the listings the broker can hold
          Syncs,         \* run_start_of_day_sync calls that may overlap
          Configs,       \* settings of the gate
          None,          \* no row
          MaxQty,        \* bound: units of a listing
          MaxTrades,     \* bound: broker events
          MaxImports,    \* bound: imports
          MaxDay,        \* bound: days
          Kinds          \* bound: what the imported files hold

Listings == Symbols \X Exchanges

ASSUME SyncAssumption ==
  /\ AtBroker \subseteq Listings /\ IsFiniteSet(Exchanges)
  \* the broker reports a delivery holding once, on one exchange
  /\ \A l, m \in AtBroker : l[1] = m[1] => l = m
  /\ MaxQty \in Nat /\ MaxTrades \in Nat /\ MaxImports \in Nat /\ MaxDay \in Nat
  /\ Kinds \subseteq {"holdings", "positions"}
  /\ Configs \subseteq [btst : BOOLEAN, tpin : BOOLEAN, t2t : BOOLEAN]

Tokens == {"kite", "made"} \X Listings
Official(l) == <<"kite", l>>
Made(l) == <<"made", l>>      \* crc32 of exchange and symbol
ListingOf(t) == t[2]
SymbolOf(t) == t[2][1]

BrokerRow == [qty : 0..MaxQty, t1 : 0..MaxQty, used : 0..MaxQty, pledged : 0..MaxQty,
              authorised : 0..MaxQty, bought : 0..MaxQty, open : 0..MaxQty]
\* asOf is history: the day of the answer a row comes from.
HoldingRow == [source : {"KITE"} \union Imported, qty : 0..MaxQty, t1 : 0..MaxQty,
               used : 0..MaxQty, pledged : 0..MaxQty, authorised : 0..MaxQty,
               isin : BOOLEAN, synced : 0..MaxDay, asOf : 0..MaxDay]
PositionRow == [source : {"KITE"} \union Imported, qty : (-MaxQty)..MaxQty]

\* No row, no token and no sync is a row, a token or a sync.
ASSUME NoneAssumption == None \notin Tokens \union Syncs \union HoldingRow \union PositionRow

VARIABLES
  broker,     \* the broker's account, per listing
  day,        \* the broker's day and today_ist()
  config,     \* system_config: btst_enabled, edis_mode; and the series
  master,     \* instrument_master: the token of a listing
  holdings, positions,    \* user_holdings, user_positions: rows by token
  kept,       \* the made tokens that live_prices refers to
  pc, answer, local, result,  \* per sync: where it is, what it holds, what it reports
  writer,     \* history: the sync whose answer a table shows, if nobody touched it since
  witness,    \* history, per sync: the day of its holdings answer and of its
              \* positions answer, and what the broker's account came to then
  trades, imports         \* counters of the bounds

account == <<broker, day, config>>
tables == <<master, holdings, positions, kept>>
sync == <<pc, answer, local, result>>
history == <<writer, witness>>
vars == <<account, tables, sync, history, trades, imports>>

Rows(table) == {t \in Tokens : table[t] # None}
IsImport(row) == row.source \in Imported
-----------------------------------------------------------------------------
(* The broker *)

\* What a listing comes to at the broker.
Owned(l) == broker[l].qty + broker[l].t1 - broker[l].used + broker[l].bought

\* The broker's own limit on another sell.
BrokerSellable(l) ==
  LET b    == broker[l]
      free == b.qty - b.pledged - b.used - b.open
                + (IF config.btst /\ ~config.t2t THEN b.t1 ELSE 0)
  IN  AtLeastZero(IF config.tpin /\ AtLeastZero(b.authorised - b.used) < free
                  THEN AtLeastZero(b.authorised - b.used) ELSE free)

Trade(l, new) ==
  /\ trades < MaxTrades /\ trades' = trades + 1
  /\ broker' = [broker EXCEPT ![l] = new]
  /\ UNCHANGED <<day, config, tables, sync, history, imports>>

Buy(l) == /\ Owned(l) < MaxQty
          /\ Trade(l, [broker[l] EXCEPT !.bought = @ + 1])

\* From the gate or from the broker's own app: the broker looks at its own limit.
PlaceSell(l) == /\ BrokerSellable(l) > 0
                /\ Trade(l, [broker[l] EXCEPT !.open = @ + 1])

Fill(l) == /\ broker[l].open > 0
           /\ Trade(l, [broker[l] EXCEPT !.open = @ - 1, !.used = @ + 1])

\* Overnight the trades settle, open orders lapse and authorisations end.
NewDay ==
  /\ day < MaxDay /\ day' = day + 1
  /\ broker' = [l \in AtBroker |->
       LET b == broker[l] IN
       [b EXCEPT !.qty = Least(MaxQty, AtLeastZero(b.qty + b.t1 - b.used)), !.t1 = b.bought,
                 !.used = 0, !.bought = 0, !.open = 0, !.authorised = 0]]
  /\ UNCHANGED <<config, tables, sync, history, trades, imports>>

\* The answers.  A position is what was traded today.
HoldingsAnswer ==
  {l \in AtBroker : broker[l].qty + broker[l].t1 > 0}
PositionsAnswer ==
  {l \in AtBroker : broker[l].bought + broker[l].used > 0}
-----------------------------------------------------------------------------
(* The master table *)

Referenced(t) == holdings[t] # None \/ positions[t] # None \/ t \in kept

\* Mutant: rows of holdings do not count as references.
EnsureConflictsPricesOnly(l) ==
  /\ master[l] \notin {None, Official(l)}
  /\ master[l] \in kept \/ positions[master[l]] # None

\* _ensure_instrument_exists gives the listing the broker's token.  The update
\* of a token that rows refer to violates their foreign keys, which aborts the
\* transaction: the handler that would keep the old token then fails as well.
EnsureConflicts(l) ==
  /\ master[l] \notin {None, Official(l)}
  /\ Referenced(master[l])

\* The import of a file reads the token or makes one.
ImportToken(l) == IF master[l] # None THEN master[l] ELSE Made(l)
-----------------------------------------------------------------------------
Init ==
  /\ broker \in [AtBroker -> {b \in BrokerRow :
                   /\ b.used = 0 /\ b.bought = 0 /\ b.open = 0 /\ b.qty + b.t1 <= MaxQty
                   /\ b.pledged <= b.qty /\ b.pledged <= 1 /\ b.authorised \in {0, b.qty}}]
  /\ day = 0 /\ config \in Configs
  /\ master \in [Listings -> Tokens \union {None}]
  /\ \A l \in Listings : master[l] \in {None, Official(l)}
  /\ holdings = [t \in Tokens |-> None] /\ positions = [t \in Tokens |-> None]
  /\ kept = {}
  /\ pc = [s \in Syncs |-> "idle"] /\ answer = [s \in Syncs |-> None]
  /\ local = [s \in Syncs |-> None]
  /\ result = [s \in Syncs |-> [holdings |-> "none", positions |-> "none", margins |-> "none"]]
  /\ writer = [holdings |-> None, positions |-> None]
  /\ witness = [s \in Syncs |-> [first |-> 0, second |-> 0, owned |-> [l \in AtBroker |-> 0]]]
  /\ trades = 0 /\ imports = 0
-----------------------------------------------------------------------------
(* run_start_of_day_sync *)

Goto(s, place) == pc' = [pc EXCEPT ![s] = place]
Report(s, part, what) == result' = [result EXCEPT ![s][part] = what]

\* With replace_imported the imports are purged first, in a transaction.
Start(s) ==
  /\ pc[s] = "idle" /\ result[s].margins = "none"
  /\ \E replace \in BOOLEAN : Goto(s, IF replace THEN "purge" ELSE "askHoldings")
  /\ UNCHANGED <<account, tables, answer, local, result, history, trades, imports>>

\* A part that fails, at the broker or in the database, is reported; the next
\* part goes on regardless.
Broken(s) ==
  /\ \/ /\ pc[s] \in {"purge", "askHoldings", "readRows", "writeHoldings"}
        /\ Report(s, "holdings", "error") /\ Goto(s, "askPositions")
     \/ /\ pc[s] \in {"askPositions", "writePositions"}
        /\ Report(s, "positions", "error") /\ Goto(s, "margins")
     \/ /\ pc[s] = "margins"
        /\ Report(s, "margins", "error") /\ Goto(s, "idle")
  /\ answer' = [answer EXCEPT ![s] = None] /\ local' = [local EXCEPT ![s] = None]
  /\ UNCHANGED <<account, tables, history, trades, imports>>

Unimported(table) == [t \in Tokens |-> IF table[t] # None /\ IsImport(table[t])
                                       THEN None ELSE table[t]]

PurgeImported ==
  /\ holdings' = Unimported(holdings) /\ positions' = Unimported(positions)
  /\ UNCHANGED <<master, kept>>

SyncPurges(s) ==
  /\ pc[s] = "purge" /\ Goto(s, "askHoldings")
  /\ PurgeImported
  /\ UNCHANGED <<account, answer, local, result, history, trades, imports>>

AskHoldings(s) ==
  /\ pc[s] = "askHoldings" /\ Goto(s, "readRows")
  /\ answer' = [answer EXCEPT ![s] = [l \in HoldingsAnswer |-> broker[l]]]
  /\ witness' = [witness EXCEPT ![s].first = day]
  /\ UNCHANGED <<account, tables, local, result, writer, trades, imports>>

\* The transaction begins with a reading of all rows, and works from it.
ReadRows(s) ==
  /\ pc[s] = "readRows" /\ Goto(s, "writeHoldings")
  /\ local' = [local EXCEPT ![s] = holdings]
  /\ UNCHANGED <<account, tables, answer, result, history, trades, imports>>

\* The local row a holding is compared with: of the same token, else of the
\* same ISIN, else of the same symbol.
Matches(l, rows) ==
  LET alike == {t \in Tokens : rows[t] # None /\ SymbolOf(t) = l[1]}
      isin  == {t \in alike : rows[t].isin}
  IN  IF rows[Official(l)] # None THEN {Official(l)}
      ELSE IF isin # {} THEN isin
      ELSE alike

\* The imported rows the answer replaces, for one choice of matches.
Replaced(given, rows, matched) ==
  {matched[l] : l \in {l \in DOMAIN given : matched[l] \notin {None, Official(l)}
                                             /\ IsImport(rows[matched[l]])}}

\* Mutant: a row with nothing settled is not looked at.
GoneSettledOnly(given, rows, matched) ==
  {t \in Tokens : /\ rows[t] # None /\ ~IsImport(rows[t])
                  /\ t \notin {Official(l) : l \in DOMAIN given} \union Replaced(given, rows, matched)
                  /\ rows[t].qty > 0}

\* Mutant: imported rows that the broker does not report are wiped too.
GoneWithImports(given, rows, matched) ==
  {t \in Tokens : /\ rows[t] # None
                  /\ t \notin {Official(l) : l \in DOMAIN given}
                  /\ rows[t].qty + rows[t].t1 > 0}

\* The broker's rows that the answer no longer has.
Gone(given, rows, matched) ==
  {t \in Tokens : /\ rows[t] # None /\ ~IsImport(rows[t])
                  /\ t \notin {Official(l) : l \in DOMAIN given} \union Replaced(given, rows, matched)
                  /\ rows[t].qty + rows[t].t1 > 0}

\* Mutant: the day of the row is the one of another time zone.
UpsertedAhead(b, old, asOf) ==
  [source |-> "KITE", qty |-> b.qty, t1 |-> b.t1, used |-> b.used, pledged |-> b.pledged,
   authorised |-> b.authorised, isin |-> (old = None \/ old.isin), synced |-> day + 1,
   asOf |-> asOf]

\* The upsert of a holding over the row its token has, if any: a new row gets the ISIN,
\* an old one keeps what it has there.
Upserted(b, old, asOf) ==
  [source |-> "KITE", qty |-> b.qty, t1 |-> b.t1, used |-> b.used, pledged |-> b.pledged,
   authorised |-> b.authorised, isin |-> (old = None \/ old.isin), synced |-> day,
   asOf |-> asOf]

\* The master table once every listing of the answer has the broker's token.
Ensured(given) == [l \in Listings |-> IF l \in given THEN Official(l) ELSE master[l]]

NoSyncConflict(given) == \A l \in given : ~EnsureConflicts(l)

WriteHoldings(s) ==
  LET given == answer[s]
      rows  == local[s]
  IN
  /\ pc[s] = "writeHoldings" /\ Goto(s, "askPositions")
  /\ NoSyncConflict(DOMAIN given)
  /\ \E matched \in [DOMAIN given -> Tokens \union {None}] :
       /\ \A l \in DOMAIN given :
            IF Matches(l, rows) = {} THEN matched[l] = None ELSE matched[l] \in Matches(l, rows)
       /\ holdings' = [t \in Tokens |->
            IF t \in {Official(l) : l \in DOMAIN given}
              THEN Upserted(given[ListingOf(t)], holdings[t], witness[s].first)
            ELSE IF t \in Replaced(given, rows, matched) THEN None
            ELSE IF t \in Gone(given, rows, matched) /\ holdings[t] # None
              THEN [holdings[t] EXCEPT !.qty = 0, !.t1 = 0, !.synced = day,
                                       !.asOf = witness[s].first]
            ELSE holdings[t]]
  /\ master' = Ensured(DOMAIN given)
  /\ Report(s, "holdings", "ok")
  /\ writer' = [writer EXCEPT !.holdings = IF holdings = rows THEN s ELSE None]
  /\ answer' = [answer EXCEPT ![s] = None] /\ local' = [local EXCEPT ![s] = None]
  /\ UNCHANGED <<account, positions, kept, witness, trades, imports>>

\* The foreign keys stop the whole transaction.
HoldingsConflict(s) ==
  /\ pc[s] = "writeHoldings" /\ ~NoSyncConflict(DOMAIN answer[s])
  /\ Report(s, "holdings", "conflict") /\ Goto(s, "askPositions")
  /\ answer' = [answer EXCEPT ![s] = None] /\ local' = [local EXCEPT ![s] = None]
  /\ UNCHANGED <<account, tables, history, trades, imports>>

AskPositions(s) ==
  /\ pc[s] = "askPositions" /\ Goto(s, "writePositions")
  /\ answer' = [answer EXCEPT ![s] =
       [l \in PositionsAnswer |-> [qty |-> broker[l].bought - broker[l].used]]]
  /\ witness' = [witness EXCEPT ![s].second = day, ![s].owned = [l \in AtBroker |-> Owned(l)]]
  /\ UNCHANGED <<account, tables, local, result, writer, trades, imports>>

\* One imported row of the same listing under another token makes way; it does
\* so before the master table is updated.
Displaced(given) == {t \in Tokens : /\ ListingOf(t) \in given /\ t # Official(ListingOf(t))
                                    /\ positions[t] # None /\ IsImport(positions[t])}

PositionsConflictAt(l, displaced) ==
  /\ master[l] \notin {None, Official(l)}
  /\ holdings[master[l]] # None \/ master[l] \in kept
     \/ (positions[master[l]] # None /\ master[l] \notin displaced)

\* A row of the broker's that is not reported any more.
Closed(row) == IF row = None \/ IsImport(row) THEN row ELSE [row EXCEPT !.qty = 0]

WritePositions(s) ==
  LET given == DOMAIN answer[s] IN
  /\ pc[s] = "writePositions" /\ Goto(s, "margins")
  /\ \A l \in given : ~PositionsConflictAt(l, Displaced(given))
  /\ positions' = [t \in Tokens |->
       IF ListingOf(t) \in given /\ t = Official(ListingOf(t))
         THEN [source |-> "KITE", qty |-> answer[s][ListingOf(t)].qty]
       ELSE IF t \in Displaced(given) THEN None
       ELSE Closed(positions[t])]
  /\ master' = Ensured(given)
  /\ Report(s, "positions", "ok")
  /\ writer' = [writer EXCEPT !.positions = s]
  /\ answer' = [answer EXCEPT ![s] = None]
  /\ UNCHANGED <<account, holdings, kept, local, witness, trades, imports>>

PositionsConflict(s) ==
  /\ pc[s] = "writePositions"
  /\ \E l \in DOMAIN answer[s] : PositionsConflictAt(l, Displaced(DOMAIN answer[s]))
  /\ Report(s, "positions", "conflict") /\ Goto(s, "margins")
  /\ answer' = [answer EXCEPT ![s] = None]
  /\ UNCHANGED <<account, tables, local, history, trades, imports>>

\* The margins are one row, replaced as a whole.
SyncMargins(s) ==
  /\ pc[s] = "margins" /\ Goto(s, "idle") /\ Report(s, "margins", "ok")
  /\ UNCHANGED <<account, tables, answer, local, history, trades, imports>>

Ok(s) == \A part \in DOMAIN result[s] : result[s][part] = "ok"
-----------------------------------------------------------------------------
(* The user's files, and the quotes *)

\* A row of a holdings file: the token's row becomes the file's; what the file
\* does not say keeps its old value.
ImportHolding(l, q) ==
  LET t == ImportToken(l) IN
  /\ imports < MaxImports /\ imports' = imports + 1 /\ "holdings" \in Kinds
  /\ master' = [master EXCEPT ![l] = t]
  /\ holdings' = [holdings EXCEPT ![t] =
       IF @ = None
       THEN [source |-> "CSV_IMPORT", qty |-> q, t1 |-> 0, used |-> 0, pledged |-> 0,
             authorised |-> q, isin |-> FALSE, synced |-> day, asOf |-> day]
       ELSE [@ EXCEPT !.source = "CSV_IMPORT", !.qty = q, !.synced = day, !.asOf = day]]
  /\ writer' = [writer EXCEPT !.holdings = None]
  /\ UNCHANGED <<account, positions, kept, sync, witness, trades>>

ImportPosition(l, q) ==
  LET t == ImportToken(l) IN
  /\ imports < MaxImports /\ imports' = imports + 1 /\ "positions" \in Kinds
  /\ master' = [master EXCEPT ![l] = t]
  /\ positions' = [positions EXCEPT ![t] = [source |-> "CSV_IMPORT", qty |-> q]]
  /\ writer' = [writer EXCEPT !.positions = None]
  /\ UNCHANGED <<account, holdings, kept, sync, witness, trades>>

\* POST /holdings/purge-imported.
UserPurges ==
  /\ \E t \in Tokens : \/ holdings[t] # None /\ IsImport(holdings[t])
                       \/ positions[t] # None /\ IsImport(positions[t])
  /\ PurgeImported
  /\ UNCHANGED <<account, sync, history, trades, imports>>

\* The quote poller stores a price for a row's token.  Only a made token's price
\* matters: the broker's tokens are not replaced.
Quoted(t) ==
  /\ t \notin kept /\ t = Made(ListingOf(t)) /\ (holdings[t] # None \/ positions[t] # None)
  /\ kept' = kept \union {t}
  /\ UNCHANGED <<account, master, holdings, positions, sync, history, trades, imports>>
-----------------------------------------------------------------------------
SyncStep(s) ==
  \/ Start(s) \/ SyncPurges(s) \/ AskHoldings(s) \/ ReadRows(s) \/ WriteHoldings(s)
  \/ HoldingsConflict(s) \/ AskPositions(s) \/ WritePositions(s) \/ PositionsConflict(s)
  \/ SyncMargins(s) \/ Broken(s)

Next ==
  \/ \E l \in AtBroker : Buy(l) \/ PlaceSell(l) \/ Fill(l)
  \/ NewDay
  \/ \E s \in Syncs : SyncStep(s)
  \/ \E l \in Listings, q \in 1..MaxQty : ImportHolding(l, q) \/ ImportPosition(l, q)
  \/ UserPurges
  \/ \E t \in Tokens : Quoted(t)

Spec == Init /\ [][Next]_vars
-----------------------------------------------------------------------------
\* The variables have the types of the columns.
TypeOK ==
  /\ broker \in [AtBroker -> BrokerRow] /\ day \in 0..MaxDay /\ config \in Configs
  /\ master \in [Listings -> Tokens \union {None}]
  /\ \A t \in Tokens : holdings[t] \in HoldingRow \union {None}
  /\ \A t \in Tokens : positions[t] \in PositionRow \union {None}
  /\ kept \subseteq {Made(l) : l \in Listings}
  /\ \A s \in Syncs : pc[s] \in {"idle", "purge", "askHoldings", "readRows", "writeHoldings",
                                 "askPositions", "writePositions", "margins"}
  /\ trades \in 0..MaxTrades /\ imports \in 0..MaxImports

\* A row belongs to the listing that has its token, through imports under made
\* tokens, renamings and purges (the foreign keys of the two tables): what is
\* looked up by token and what is looked up by symbol is the same row.
RowsAreListed ==
  \A t \in Tokens : (holdings[t] # None \/ positions[t] # None) => master[ListingOf(t)] = t

\* What the columns and the foreign keys of the two tables promise.
TablesAreSound == TypeOK /\ RowsAreListed

\* A live SELL that the gate lets pass exceeds what the broker would sell by no
\* more than what was filled since the row's answer.  A row whose answer was
\* given before midnight and written after it is the exception.  sellable_check.py
\* itself says "never exceeds", which only the broker's own check makes true.
OverstatedOnlyByFills ==
  \A l \in AtBroker :
    LET row    == holdings[Official(l)]
        orders == [readable |-> TRUE, pending |-> broker[l].open]
    IN  \A q \in 1..MaxQty :
          (row # None /\ row.asOf = row.synced /\ PassesLive(row, q, orders, config, day))
            => q <= BrokerSellable(l) + broker[l].used - row.used

\* What the broker's rows of a symbol add up to.
Recorded(symbol) ==
  LET own   == {t \in Tokens : SymbolOf(t) = symbol}
      Held(t) == IF holdings[t] # None /\ ~IsImport(holdings[t])
                 THEN holdings[t].qty + holdings[t].t1 ELSE 0
      Open(t) == IF positions[t] # None /\ ~IsImport(positions[t]) THEN positions[t].qty ELSE 0
  IN  SumFunctionOnSet([t \in own |-> Held(t) + Open(t)], own)

\* After a start-of-day sync that reports ok, with both answers of one day and no
\* other writer since, the two tables together come to what the account came to:
\* no unit twice, none missing, nothing left of what was sold.
OkSyncIsExact ==
  \A s \in Syncs :
    (/\ Ok(s) /\ writer.holdings = s /\ writer.positions = s
     /\ witness[s].first = witness[s].second)
      => \A l \in AtBroker : Recorded(l[1]) = witness[s].owned[l]

\* The write of a sync leaves alone the rows it has read as imports, of symbols the
\* broker does not report ("never wipe user CSV or manual imports").  It is not never:
\* a row of the broker's that a file turned into an import after the sync's reading is
\* wiped as a row of the broker's, since the update does not look at the source.
ImportsSurvive ==
  [][\A s \in Syncs : (pc[s] = "writeHoldings" /\ pc'[s] = "askPositions") =>
       \A t \in Tokens :
         (/\ answer[s] # None /\ local[s][t] # None /\ IsImport(local[s][t])
          /\ holdings[t] # None /\ IsImport(holdings[t])
          /\ SymbolOf(t) \notin {l[1] : l \in DOMAIN answer[s]})
         => holdings'[t] = holdings[t]]_vars

\* "Could not update instrument_token ...; keeping existing": a token that cannot
\* be replaced does not stop a sync.
SyncKeepsExistingToken ==
  \A s \in Syncs : result[s].holdings # "conflict" /\ result[s].positions # "conflict"
=============================================================================
