-------------------------- MODULE BrokerSync_proofs --------------------------
(***************************************************************************)
(* The copies of the broker's books, for any listings, any number of syncs *)
(* that overlap, and any number of trades, files, purges and midnights.    *)
(*                                                                         *)
(* Three things are carried along.  Every row belongs to the listing whose *)
(* token it has (RowsAreListed).  A row, or an answer on its way to one,   *)
(* that is of today says what the broker's account said earlier today: the *)
(* settled units are unchanged since and no fewer are sold (RowTells,      *)
(* AnswerTells).  And while nobody else writes, the rows of a sync add up  *)
(* to the account, answer by answer (HoldingsExact, BooksExact).     *)
(***************************************************************************)
EXTENDS BrokerSync, LibraryLemmas

Places == {"idle", "purge", "askHoldings", "readRows", "writeHoldings",
           "askPositions", "writePositions", "margins"}
Reports == {"none", "ok", "error", "conflict"}

\* What the account of a day allows: nothing is sold that is not there.
Books ==
  \A l \in AtBroker :
    /\ broker[l].qty + broker[l].t1 <= MaxQty
    /\ Owned(l) <= MaxQty
    /\ broker[l].used + broker[l].open <= broker[l].qty + broker[l].t1

\* The types of what a sync holds in its hands.
Holds(s) ==
  /\ pc[s] \in {"readRows", "writeHoldings"} =>
       /\ DOMAIN answer[s] \subseteq AtBroker
       /\ \A l \in DOMAIN answer[s] : answer[s][l] \in BrokerRow
  /\ pc[s] = "writeHoldings" => local[s] \in [Tokens -> HoldingRow \union {None}]
  /\ pc[s] = "writePositions" =>
       /\ DOMAIN answer[s] \subseteq AtBroker
       /\ \A l \in DOMAIN answer[s] : answer[s][l].qty \in (-MaxQty)..MaxQty

Shapes ==
  /\ broker \in [AtBroker -> BrokerRow] /\ day \in 0..MaxDay /\ config \in Configs
  /\ master \in [Listings -> Tokens \union {None}]
  /\ \A l \in Listings : master[l] \in {None, Official(l), Made(l)}
  /\ holdings \in [Tokens -> HoldingRow \union {None}]
  /\ positions \in [Tokens -> PositionRow \union {None}]
  /\ kept \subseteq {Made(l) : l \in Listings}
  /\ pc \in [Syncs -> Places]
  /\ DOMAIN answer = Syncs /\ DOMAIN local = Syncs /\ \A s \in Syncs : Holds(s)
  /\ result \in [Syncs -> [holdings : Reports, positions : Reports, margins : Reports]]
  /\ writer \in [holdings : Syncs \union {None}, positions : Syncs \union {None}]
  /\ witness \in [Syncs -> [first : 0..MaxDay, second : 0..MaxDay, owned : [AtBroker -> Int]]]
  /\ trades \in 0..MaxTrades /\ imports \in 0..MaxImports

\* No row and no answer is of a day to come.
NothingAhead ==
  /\ \A s \in Syncs : witness[s].first <= day
  /\ \A t \in Tokens : holdings[t] # None => holdings[t].synced <= day

\* A row or an answer r of today and the account b.
Agrees(r, b) ==
  /\ r.qty = b.qty /\ r.t1 = b.t1 /\ r.pledged = b.pledged /\ r.authorised = b.authorised
  /\ r.used <= b.used

RowTells ==
  \A l \in AtBroker :
    LET row == holdings[Official(l)] IN
    (row # None /\ ~IsImport(row) /\ row.synced = day /\ row.asOf = day /\ row.qty + row.t1 > 0)
      => Agrees(row, broker[l])

AnswerTells ==
  \A s \in Syncs :
    (pc[s] \in {"readRows", "writeHoldings"} /\ witness[s].first = day) =>
      /\ \A l \in DOMAIN answer[s] : Agrees(answer[s][l], broker[l])
      /\ \A l \in AtBroker \ DOMAIN answer[s] : broker[l].qty + broker[l].t1 = 0

\* What the broker's rows under a token come to.
HeldAt(t) == IF holdings[t] # None /\ ~IsImport(holdings[t])
             THEN holdings[t].qty + holdings[t].t1 ELSE 0
OpenAt(t) == IF positions[t] # None /\ ~IsImport(positions[t]) THEN positions[t].qty ELSE 0
AnswerAt(s, l) == IF l \in DOMAIN answer[s] THEN answer[s][l].qty ELSE 0

\* The tokens under which the broker's listings are.
Theirs == {Official(l) : l \in AtBroker}

\* A table shows a sync's answer only from the sync's write on.
WritersAreLate ==
  \A s \in Syncs :
    /\ writer.holdings = s =>
         pc[s] \in {"askPositions", "writePositions", "margins"}
         \/ (pc[s] = "idle" /\ result[s].margins # "none")
    /\ writer.positions = s =>
         pc[s] = "margins" \/ (pc[s] = "idle" /\ result[s].margins # "none")
    /\ result[s].positions = "ok" =>
         pc[s] = "margins" \/ (pc[s] = "idle" /\ result[s].margins # "none")

\* The holdings of a sync nobody wrote after are its answer's and no other.
HoldingsExact(s) ==
  writer.holdings = s =>
    /\ \A t \in Tokens \ Theirs : HeldAt(t) = 0
    /\ (pc[s] = "askPositions" /\ witness[s].first = day) =>
         \A l \in AtBroker : HeldAt(Official(l)) = broker[l].qty + broker[l].t1
    /\ (pc[s] = "writePositions" /\ witness[s].first = witness[s].second) =>
         \A l \in AtBroker : HeldAt(Official(l)) + AnswerAt(s, l) = witness[s].owned[l]

\* So are the positions, and the two together are the account of the answers.
BooksExact(s) ==
  (writer.positions = s /\ writer.holdings = s /\ result[s].positions = "ok") =>
    /\ \A t \in Tokens \ Theirs : HeldAt(t) = 0 /\ OpenAt(t) = 0
    /\ witness[s].first = witness[s].second =>
         \A l \in AtBroker : HeldAt(Official(l)) + OpenAt(Official(l)) = witness[s].owned[l]

Tables == Shapes /\ Books /\ RowsAreListed
Today == NothingAhead /\ RowTells /\ AnswerTells
Exact == WritersAreLate /\ \A s \in Syncs : HoldingsExact(s) /\ BooksExact(s)
-----------------------------------------------------------------------------
\* The token of a listing is the broker's or a made one.
LEMMA TokenFacts ==
  /\ \A l \in Listings : /\ Official(l) \in Tokens /\ Made(l) \in Tokens /\ Official(l) # Made(l)
                         /\ ListingOf(Official(l)) = l /\ ListingOf(Made(l)) = l
                         /\ SymbolOf(Official(l)) = l[1] /\ SymbolOf(Made(l)) = l[1]
  /\ \A t \in Tokens : /\ ListingOf(t) \in Listings /\ SymbolOf(t) = ListingOf(t)[1]
                       /\ t \in {Official(ListingOf(t)), Made(ListingOf(t))}
BY DEF Tokens, Official, Made, ListingOf, SymbolOf

\* The broker's listings are listings; what is not there is no row, no token, no sync.
LEMMA Facts ==
  /\ AtBroker \subseteq Listings /\ MaxQty \in Nat /\ MaxDay \in Nat
  /\ MaxTrades \in Nat /\ MaxImports \in Nat
  /\ None \notin Tokens /\ None \notin Syncs /\ None \notin HoldingRow /\ None \notin PositionRow
BY SyncAssumption, NoneAssumption

\* Nothing is recorded before the first sync.
LEMMA InitTables == Init => Tables
<1> SUFFICES ASSUME Init PROVE Tables
  OBVIOUS
<1> USE Facts DEF Init
<1>1. broker \in [AtBroker -> BrokerRow] /\ \A l \in AtBroker :
        /\ broker[l].used = 0 /\ broker[l].bought = 0 /\ broker[l].open = 0
        /\ broker[l].qty + broker[l].t1 <= MaxQty
  OBVIOUS
<1>2. Books
  <2> SUFFICES ASSUME NEW l \in AtBroker
               PROVE  /\ Owned(l) <= MaxQty
                      /\ broker[l].used + broker[l].open <= broker[l].qty + broker[l].t1
    BY <1>1 DEF Books
  <2>1. broker[l] \in BrokerRow
    BY <1>1
  <2>2. broker[l].qty \in Nat /\ broker[l].t1 \in Nat
    BY <2>1 DEF BrokerRow
  <2> QED
    BY <1>1, <2>2 DEF Owned
<1>3. Shapes
  <2>1. \A s \in Syncs : Holds(s)
    BY DEF Holds
  <2>2. broker \in [AtBroker -> BrokerRow] /\ day \in 0..MaxDay /\ config \in Configs
    BY <1>1
  <2>3. /\ master \in [Listings -> Tokens \union {None}]
        /\ \A l \in Listings : master[l] \in {None, Official(l), Made(l)}
        /\ holdings \in [Tokens -> HoldingRow \union {None}]
        /\ positions \in [Tokens -> PositionRow \union {None}]
        /\ kept \subseteq {Made(l) : l \in Listings}
    OBVIOUS
  <2>4. pc \in [Syncs -> Places] /\ DOMAIN answer = Syncs /\ DOMAIN local = Syncs
    BY DEF Places
  <2>5. result \in [Syncs -> [holdings : Reports, positions : Reports, margins : Reports]]
    BY DEF Reports
  <2>6. /\ writer \in [holdings : Syncs \union {None}, positions : Syncs \union {None}]
        /\ witness \in [Syncs -> [first : 0..MaxDay, second : 0..MaxDay, owned : [AtBroker -> Int]]]
    OBVIOUS
  <2>7. trades \in 0..MaxTrades /\ imports \in 0..MaxImports
    OBVIOUS
  <2> QED
    BY <2>1, <2>2, <2>3, <2>4, <2>5, <2>6, <2>7 DEF Shapes
<1>4. RowsAreListed
  BY DEF RowsAreListed
<1> QED
  BY <1>2, <1>3, <1>4 DEF Tables

\* What the types say of one listing's account.
LEMMA AccountType ==
  ASSUME Shapes, NEW l \in AtBroker
  PROVE  /\ broker[l] \in BrokerRow
         /\ broker[l].qty \in 0..MaxQty /\ broker[l].t1 \in 0..MaxQty /\ broker[l].used \in 0..MaxQty
         /\ broker[l].pledged \in 0..MaxQty /\ broker[l].authorised \in 0..MaxQty
         /\ broker[l].bought \in 0..MaxQty /\ broker[l].open \in 0..MaxQty
BY DEF Shapes, BrokerRow

\* What the broker would sell is no more than what is free of the settled units.
LEMMA SellableIsFree ==
  ASSUME Shapes, NEW l \in AtBroker, BrokerSellable(l) > 0
  PROVE  broker[l].used + broker[l].open < broker[l].qty + broker[l].t1
<1> DEFINE b == broker[l]
           free == b.qty - b.pledged - b.used - b.open + (IF config.btst /\ ~config.t2t THEN b.t1 ELSE 0)
           left == b.authorised - b.used
<1>1. /\ b.qty \in Nat /\ b.t1 \in Nat /\ b.used \in Nat /\ b.pledged \in Nat
      /\ b.authorised \in Nat /\ b.open \in Nat
  BY AccountType, Facts
<1>2. BrokerSellable(l) = AtLeastZero(IF config.tpin /\ AtLeastZero(left) < free
                                      THEN AtLeastZero(left) ELSE free)
  BY DEF BrokerSellable
<1>3. free \in Int /\ left \in Int /\ free <= b.qty - b.pledged - b.used - b.open + b.t1
  BY <1>1
<1>4. free > 0
  <2> HIDE DEF free, left
  <2> QED
    BY <1>2, <1>3 DEF AtLeastZero
<1> QED
  BY <1>1, <1>3, <1>4

\* A trade keeps the books.
LEMMA TradeTables ==
  ASSUME Tables, NEW l \in AtBroker, Buy(l) \/ PlaceSell(l) \/ Fill(l)
  PROVE  Tables'
<1> USE Facts
<1>1. Shapes /\ Books
  BY DEF Tables
<1> DEFINE b == broker[l]
<1>2. /\ b \in BrokerRow /\ b.qty \in Nat /\ b.t1 \in Nat /\ b.used \in Nat /\ b.bought \in Nat
      /\ b.open \in Nat /\ b.qty <= MaxQty
  BY <1>1, AccountType
<1>3. /\ b.qty + b.t1 <= MaxQty /\ b.qty + b.t1 - b.used + b.bought <= MaxQty
      /\ b.used + b.open <= b.qty + b.t1
  BY <1>1 DEF Books, Owned
<1>4. PICK new \in BrokerRow :
        /\ Trade(l, new) /\ new.qty = b.qty /\ new.t1 = b.t1
        /\ b.qty + b.t1 - new.used + new.bought <= MaxQty
        /\ new.used + new.open <= b.qty + b.t1
  <2>1. CASE Buy(l)
    <3> DEFINE new == [b EXCEPT !.bought = @ + 1]
    <3>1. b.bought + 1 \in 0..MaxQty
      BY <2>1, <1>2, <1>3 DEF Buy, Owned
    <3>2. new \in BrokerRow /\ new.qty = b.qty /\ new.t1 = b.t1 /\ new.used = b.used
          /\ new.open = b.open /\ new.bought = b.bought + 1
      BY <1>2, <3>1 DEF BrokerRow
    <3>3. b.qty + b.t1 - b.used + (b.bought + 1) <= MaxQty
      BY <2>1, <1>2 DEF Buy, Owned
    <3> QED
      BY <2>1, <1>3, <3>2, <3>3 DEF Buy
  <2>2. CASE PlaceSell(l)
    <3> DEFINE new == [b EXCEPT !.open = @ + 1]
    <3>1. b.used + b.open < b.qty + b.t1
      BY <2>2, <1>1, SellableIsFree DEF PlaceSell
    <3>2. b.open + 1 \in 0..MaxQty
      BY <3>1, <1>2, <1>3
    <3>3. new \in BrokerRow /\ new.qty = b.qty /\ new.t1 = b.t1 /\ new.used = b.used
          /\ new.open = b.open + 1 /\ new.bought = b.bought
      BY <1>2, <3>2 DEF BrokerRow
    <3>4. b.used + (b.open + 1) <= b.qty + b.t1
      BY <3>1, <1>2
    <3> QED
      BY <2>2, <1>3, <3>3, <3>4 DEF PlaceSell
  <2>3. CASE Fill(l)
    <3> DEFINE new == [b EXCEPT !.open = @ - 1, !.used = @ + 1]
    <3>1. b.open - 1 \in 0..MaxQty /\ b.used + 1 \in 0..MaxQty
      BY <2>3, <1>2, <1>3 DEF Fill
    <3>2. new \in BrokerRow /\ new.qty = b.qty /\ new.t1 = b.t1 /\ new.used = b.used + 1
          /\ new.open = b.open - 1 /\ new.bought = b.bought
      BY <1>2, <3>1 DEF BrokerRow
    <3>3. (b.used + 1) + (b.open - 1) <= b.qty + b.t1 /\ b.qty + b.t1 - (b.used + 1) + b.bought <= MaxQty
      BY <1>2, <1>3
    <3> QED
      BY <2>3, <3>2, <3>3 DEF Fill
  <2> QED
    BY <2>1, <2>2, <2>3
<1>5. /\ UNCHANGED <<day, config, tables, sync, history, imports>> /\ trades' \in 0..MaxTrades
      /\ broker' = [broker EXCEPT ![l] = new]
  BY <1>1, <1>4 DEF Trade, Shapes
<1>6. Books'
  <2> SUFFICES ASSUME NEW m \in AtBroker
               PROVE  /\ broker'[m].qty + broker'[m].t1 <= MaxQty
                      /\ broker'[m].qty + broker'[m].t1 - broker'[m].used + broker'[m].bought <= MaxQty
                      /\ broker'[m].used + broker'[m].open <= broker'[m].qty + broker'[m].t1
    BY DEF Books, Owned
  <2>1. broker'[m] = IF m = l THEN new ELSE broker[m]
    BY <1>1, <1>5 DEF Shapes
  <2>2. CASE m = l
    BY <2>1, <2>2, <1>3, <1>4
  <2>3. CASE m # l
    BY <2>1, <2>3, <1>1 DEF Books, Owned
  <2> QED
    BY <2>2, <2>3
<1>7. Shapes'
  BY <1>1, <1>4, <1>5 DEF Shapes, Holds, tables, sync, history
<1>8. RowsAreListed'
  BY <1>5 DEF Tables, RowsAreListed, tables
<1> QED
  BY <1>6, <1>7, <1>8 DEF Tables

\* An account with its morning's values.
Morning(b, q) == [b EXCEPT !.qty = q, !.t1 = b.bought, !.used = 0, !.bought = 0, !.open = 0,
                           !.authorised = 0]

\* It is an account, with nothing traded yet.
LEMMA SettledRow ==
  ASSUME NEW b \in BrokerRow, NEW q \in 0..MaxQty
  PROVE  /\ Morning(b, q) \in BrokerRow
         /\ Morning(b, q).qty = q /\ Morning(b, q).t1 = b.bought
         /\ Morning(b, q).used = 0 /\ Morning(b, q).bought = 0 /\ Morning(b, q).open = 0
<1>1. 0 \in 0..MaxQty /\ b.bought \in 0..MaxQty
  BY Facts DEF BrokerRow
<1> QED
  BY <1>1 DEF BrokerRow, Morning

\* Overnight what is owned becomes what is settled.
LEMMA NewDayTables ==
  ASSUME Tables, NewDay
  PROVE  Tables'
<1> USE Facts
<1>1. Shapes /\ Books
  BY DEF Tables
<1>0. /\ day < MaxDay /\ day' = day + 1 /\ UNCHANGED <<config, tables, sync, history, trades, imports>>
      /\ DOMAIN broker' = AtBroker /\ broker' = [l \in AtBroker |-> broker'[l]]
  BY DEF NewDay
<1>2. ASSUME NEW l \in AtBroker
      PROVE  /\ broker'[l] \in BrokerRow /\ broker'[l].used = 0 /\ broker'[l].bought = 0
             /\ broker'[l].open = 0 /\ broker'[l].qty + broker'[l].t1 <= MaxQty
  <2> DEFINE b == broker[l]
             settled == Least(MaxQty, AtLeastZero(b.qty + b.t1 - b.used))
  <2>1. b \in BrokerRow /\ b.qty \in Nat /\ b.t1 \in Nat /\ b.used \in Nat /\ b.bought \in 0..MaxQty
    BY <1>1, AccountType
  <2>2. b.qty + b.t1 - b.used + b.bought <= MaxQty /\ b.used <= b.qty + b.t1
    <3>1. b.open \in Nat
      BY <1>1, AccountType
    <3> QED
      BY <1>1, <2>1, <3>1 DEF Books, Owned
  <2>3. settled \in 0..MaxQty /\ settled + b.bought <= MaxQty
    BY <2>1, <2>2 DEF Least, AtLeastZero
  <2>4. broker'[l] = Morning(b, settled)
    BY DEF NewDay, Morning
  <2> HIDE DEF settled
  <2>5. /\ Morning(b, settled) \in BrokerRow
        /\ Morning(b, settled).qty = settled /\ Morning(b, settled).t1 = b.bought
        /\ Morning(b, settled).used = 0 /\ Morning(b, settled).bought = 0
        /\ Morning(b, settled).open = 0
    <3> HIDE DEF b
    <3> QED
      BY <2>1, <2>3, SettledRow
  <2> QED
    BY <2>3, <2>4, <2>5
<1>3. Books'
  <2> SUFFICES ASSUME NEW l \in AtBroker
               PROVE  /\ broker'[l].qty + broker'[l].t1 <= MaxQty
                      /\ broker'[l].qty + broker'[l].t1 - broker'[l].used + broker'[l].bought <= MaxQty
                      /\ broker'[l].used + broker'[l].open <= broker'[l].qty + broker'[l].t1
    BY DEF Books, Owned
  <2>1. broker'[l].qty \in 0..MaxQty /\ broker'[l].t1 \in 0..MaxQty
    BY <1>2 DEF BrokerRow
  <2> QED
    BY <1>2, <2>1
<1>4. broker' \in [AtBroker -> BrokerRow] /\ day' \in 0..MaxDay
  <2>0. day \in 0..MaxDay
    BY <1>1 DEF Shapes
  <2>1. day' \in 0..MaxDay
    BY <1>0, <2>0
  <2>2. \A l \in AtBroker : broker'[l] \in BrokerRow
    BY <1>2
  <2> QED
    BY <1>0, <2>1, <2>2
<1>5. Shapes'
  BY <1>0, <1>1, <1>4 DEF Shapes, Holds, tables, sync, history
<1>6. RowsAreListed'
  BY <1>0 DEF Tables, RowsAreListed, tables
<1> QED
  BY <1>3, <1>5, <1>6 DEF Tables

\* The steps of a sync that write no table.
Quiet(s) ==
  \/ Start(s) \/ Broken(s) \/ AskHoldings(s) \/ ReadRows(s) \/ HoldingsConflict(s)
  \/ AskPositions(s) \/ PositionsConflict(s) \/ SyncMargins(s)

\* They change what the sync has in its hands, and nothing of another sync.
LEMMA QuietFrame ==
  ASSUME Shapes, NEW s \in Syncs, Quiet(s)
  PROVE  /\ UNCHANGED <<account, tables, writer, trades, imports>>
         /\ \A u \in Syncs \ {s} : /\ pc'[u] = pc[u] /\ answer'[u] = answer[u] /\ local'[u] = local[u]
                                   /\ result'[u] = result[u] /\ witness'[u] = witness[u]
         /\ DOMAIN answer' = Syncs /\ DOMAIN local' = Syncs
BY DEF Shapes, Quiet, Start, Broken, AskHoldings, ReadRows, HoldingsConflict, AskPositions,
       PositionsConflict, SyncMargins, Goto, Report, account, tables, sync, history

\* The answers are of the broker's listings, and within the bound.
LEMMA AnswerTypes ==
  ASSUME Shapes
  PROVE  /\ HoldingsAnswer \subseteq AtBroker /\ PositionsAnswer \subseteq AtBroker
         /\ \A l \in AtBroker : /\ broker[l] \in BrokerRow
                                /\ broker[l].bought - broker[l].used \in (-MaxQty)..MaxQty
                                /\ Owned(l) \in Int
<1>1. ASSUME NEW l \in AtBroker PROVE broker[l].bought - broker[l].used \in (-MaxQty)..MaxQty /\ Owned(l) \in Int
  BY AccountType, Facts DEF Owned
<1> QED
  BY <1>1, AccountType DEF HoldingsAnswer, PositionsAnswer

\* A report is one of the three parts of a result.
LEMMA ReportTypes ==
  ASSUME result \in [Syncs -> [holdings : Reports, positions : Reports, margins : Reports]],
         NEW s \in Syncs, NEW part \in {"holdings", "positions", "margins"}, NEW what \in Reports,
         Report(s, part, what)
  PROVE  result' \in [Syncs -> [holdings : Reports, positions : Reports, margins : Reports]]
<1>1. result' = [result EXCEPT ![s] = [result[s] EXCEPT ![part] = what]]
  BY DEF Report
<1>2. [result[s] EXCEPT ![part] = what] \in [holdings : Reports, positions : Reports, margins : Reports]
  <2>1. result[s] \in [holdings : Reports, positions : Reports, margins : Reports]
    OBVIOUS
  <2>2. CASE part = "holdings"
    BY <2>1, <2>2
  <2>3. CASE part = "positions"
    BY <2>1, <2>3
  <2>4. CASE part = "margins"
    BY <2>1, <2>4
  <2> QED
    BY <2>2, <2>3, <2>4
<1> QED
  BY <1>1, <1>2

\* The types of what such a step leaves in the sync's hands.
LEMMA QuietShapes ==
  ASSUME Shapes, NEW s \in Syncs, Quiet(s)
  PROVE  Shapes'
<1>1. /\ UNCHANGED <<account, tables, writer, trades, imports>>
      /\ \A u \in Syncs \ {s} : /\ pc'[u] = pc[u] /\ answer'[u] = answer[u] /\ local'[u] = local[u]
      /\ DOMAIN answer' = Syncs /\ DOMAIN local' = Syncs
  BY QuietFrame
<1>2. pc' \in [Syncs -> Places]
  BY DEF Shapes, Quiet, Start, Broken, AskHoldings, ReadRows, HoldingsConflict, AskPositions,
         PositionsConflict, SyncMargins, Goto, Places
<1>3. result' \in [Syncs -> [holdings : Reports, positions : Reports, margins : Reports]]
  <2>1. UNCHANGED result \/ \E part \in {"holdings", "positions", "margins"}, what \in Reports :
                              Report(s, part, what)
    BY DEF Quiet, Start, Broken, AskHoldings, ReadRows, HoldingsConflict, AskPositions,
           PositionsConflict, SyncMargins, Reports
  <2>2. ASSUME NEW part \in {"holdings", "positions", "margins"}, NEW what \in Reports,
               Report(s, part, what)
        PROVE  result' \in [Syncs -> [holdings : Reports, positions : Reports, margins : Reports]]
    BY <2>2, ReportTypes DEF Shapes
  <2> QED
    BY <2>1, <2>2 DEF Shapes
<1>4. witness' \in [Syncs -> [first : 0..MaxDay, second : 0..MaxDay, owned : [AtBroker -> Int]]]
  <2>0. [l \in AtBroker |-> Owned(l)] \in [AtBroker -> Int] /\ day \in 0..MaxDay
    BY AnswerTypes DEF Shapes
  <2>1. CASE AskHoldings(s)
    BY <2>0, <2>1 DEF AskHoldings, Shapes
  <2>2. CASE AskPositions(s)
    <3> DEFINE now == [l \in AtBroker |-> Owned(l)]
    <3>1. witness' = [witness EXCEPT ![s].second = day, ![s].owned = now]
      BY <2>2 DEF AskPositions
    <3> HIDE DEF now
    <3> QED
      BY <2>0, <3>1 DEF Shapes, now
  <2>3. CASE ~AskHoldings(s) /\ ~AskPositions(s)
    BY <2>3 DEF Shapes, Quiet, Start, Broken, ReadRows, HoldingsConflict, PositionsConflict, SyncMargins,
                history
  <2> QED
    BY <2>1, <2>2, <2>3
<1>5. Holds(s)'
  <2>1. CASE AskHoldings(s)
    <3>1. pc'[s] = "readRows" /\ answer'[s] = [l \in HoldingsAnswer |-> broker[l]]
      BY <2>1 DEF AskHoldings, Goto, Shapes
    <3> QED
      BY <3>1, AnswerTypes DEF Holds
  <2>2. CASE ReadRows(s)
    BY <2>2 DEF ReadRows, Goto, Shapes, Holds
  <2>3. CASE AskPositions(s)
    <3>1. pc'[s] = "writePositions"
          /\ answer'[s] = [l \in PositionsAnswer |-> [qty |-> broker[l].bought - broker[l].used]]
      BY <2>3 DEF AskPositions, Goto, Shapes
    <3>2. DOMAIN answer'[s] \subseteq AtBroker
          /\ \A l \in DOMAIN answer'[s] : answer'[s][l].qty = broker[l].bought - broker[l].used
      BY <3>1, AnswerTypes
    <3> QED
      BY <3>1, <3>2, AnswerTypes DEF Holds
  <2>4. CASE ~AskHoldings(s) /\ ~ReadRows(s) /\ ~AskPositions(s)
    BY <2>4 DEF Quiet, Start, Broken, HoldingsConflict, PositionsConflict, SyncMargins, Goto, Shapes, Holds
  <2> QED
    BY <2>1, <2>2, <2>3, <2>4
<1>6. ASSUME NEW u \in Syncs \ {s} PROVE Holds(u)'
  BY <1>1, <1>6 DEF Shapes, Holds
<1>7. \A u \in Syncs : Holds(u)'
  BY <1>5, <1>6
<1> QED
  BY <1>1, <1>2, <1>3, <1>4, <1>7 DEF Shapes, account, tables

\* A step that writes no table keeps the tables.
LEMMA QuietTables ==
  ASSUME Tables, NEW s \in Syncs, Quiet(s)
  PROVE  Tables'
<1>1. Shapes'
  BY QuietShapes DEF Tables
<1>2. UNCHANGED <<broker, master, holdings, positions>>
  BY QuietFrame DEF Tables, account, tables
<1> QED
  BY <1>1, <1>2 DEF Tables, Books, Owned, RowsAreListed

\* A purge takes rows away and changes none.
LEMMA PurgeFrame ==
  ASSUME Shapes, PurgeImported
  PROVE  /\ holdings' \in [Tokens -> HoldingRow \union {None}]
         /\ positions' \in [Tokens -> PositionRow \union {None}]
         /\ UNCHANGED <<master, kept>>
         /\ \A t \in Tokens :
              /\ holdings'[t] = IF holdings[t] # None /\ IsImport(holdings[t]) THEN None ELSE holdings[t]
              /\ positions'[t] = IF positions[t] # None /\ IsImport(positions[t]) THEN None ELSE positions[t]
BY DEF Shapes, PurgeImported, Unimported

\* A purge keeps the tables.
LEMMA PurgeTables ==
  ASSUME Tables, UserPurges \/ \E s \in Syncs : SyncPurges(s)
  PROVE  Tables'
<1>1. PurgeImported /\ Shapes
  BY DEF UserPurges, SyncPurges, Tables
<1>2. UNCHANGED <<account, answer, local, result, history, trades, imports>>
  BY DEF UserPurges, SyncPurges, sync
<1>3. UNCHANGED pc \/ \E s \in Syncs : pc' = [pc EXCEPT ![s] = "askHoldings"]
  BY DEF UserPurges, SyncPurges, sync, Goto
<1>4. pc' \in [Syncs -> Places] /\ \A u \in Syncs : Holds(u)'
  <2>1. \A u \in Syncs : pc'[u] \in {pc[u], "askHoldings"}
    BY <1>1, <1>3 DEF Shapes
  <2>2. pc' \in [Syncs -> Places]
    BY <1>1, <1>3 DEF Shapes, Places
  <2> QED
    BY <1>1, <1>2, <2>1, <2>2 DEF Shapes, Holds
<1>5. Shapes'
  BY <1>1, <1>2, <1>4, PurgeFrame DEF Shapes, account, history
<1>6. RowsAreListed'
  BY <1>1, PurgeFrame DEF Tables, RowsAreListed
<1>7. Books'
  BY <1>2 DEF Tables, Books, Owned, account
<1> QED
  BY <1>5, <1>6, <1>7 DEF Tables

\* A file's row goes under the token of its listing, made when there is none.
LEMMA ImportTables ==
  ASSUME Tables, NEW l \in Listings, NEW q \in 1..MaxQty, ImportHolding(l, q) \/ ImportPosition(l, q)
  PROVE  Tables'
<1> USE Facts
<1> DEFINE t == ImportToken(l)
<1>1. Shapes /\ RowsAreListed /\ q \in 0..MaxQty /\ q \in (-MaxQty)..MaxQty
  BY DEF Tables
<1>2. t \in Tokens /\ master' = [master EXCEPT ![l] = t] /\ (master[l] # None => t = master[l])
  BY <1>1, TokenFacts DEF ImportHolding, ImportPosition, ImportToken, Shapes
<1>3. UNCHANGED <<account, kept, sync, witness, trades>> /\ imports' \in 0..MaxImports
  BY <1>1 DEF ImportHolding, ImportPosition, Shapes
<1>4. holdings' \in [Tokens -> HoldingRow \union {None}]
      /\ \A u \in Tokens : holdings'[u] = holdings[u] \/ u = t
  <2>1. CASE ImportPosition(l, q)
    BY <1>1, <2>1 DEF ImportPosition, Shapes
  <2>2. CASE ImportHolding(l, q)
    <3> DEFINE old == holdings[t]
               new == IF old = None
                      THEN [source |-> "CSV_IMPORT", qty |-> q, t1 |-> 0, used |-> 0, pledged |-> 0,
                            authorised |-> q, isin |-> FALSE, synced |-> day, asOf |-> day]
                      ELSE [old EXCEPT !.source = "CSV_IMPORT", !.qty = q, !.synced = day, !.asOf = day]
    <3>1. day \in 0..MaxDay /\ old \in HoldingRow \union {None}
      BY <1>1, <1>2 DEF Shapes
    <3>2. new \in HoldingRow
      <4>1. CASE old = None
        BY <4>1, <3>1, <1>1 DEF HoldingRow, Imported
      <4>2. CASE old # None
        BY <4>2, <3>1, <1>1 DEF HoldingRow, Imported
      <4> QED
        BY <4>1, <4>2
    <3>3. holdings' = [holdings EXCEPT ![t] = new]
      BY <2>2 DEF ImportHolding
    <3> HIDE DEF new, t
    <3> QED
      BY <1>1, <1>2, <3>2, <3>3 DEF Shapes
  <2> QED
    BY <2>1, <2>2
<1>5. positions' \in [Tokens -> PositionRow \union {None}]
      /\ \A u \in Tokens : positions'[u] = positions[u] \/ u = t
  <2>1. CASE ImportHolding(l, q)
    BY <1>1, <2>1 DEF ImportHolding, Shapes
  <2>2. CASE ImportPosition(l, q)
    <3> DEFINE new == [source |-> "CSV_IMPORT", qty |-> q]
    <3>1. new \in PositionRow
      BY <1>1 DEF PositionRow, Imported
    <3>2. positions' = [positions EXCEPT ![t] = new]
      BY <2>2 DEF ImportPosition
    <3> HIDE DEF new, t
    <3> QED
      BY <1>1, <1>2, <3>1, <3>2 DEF Shapes
  <2> QED
    BY <2>1, <2>2
<1>6. writer' \in [holdings : Syncs \union {None}, positions : Syncs \union {None}]
  BY <1>1 DEF ImportHolding, ImportPosition, Shapes
<1>7. Shapes'
  <2> HIDE DEF t
  <2>1. master' \in [Listings -> Tokens \union {None}]
    BY <1>1, <1>2 DEF Shapes
  <2>3. \A m \in Listings : master'[m] \in {None, Official(m), Made(m)}
    <3>1. t \in {Official(l), Made(l)}
      BY <1>1 DEF Shapes, ImportToken, t
    <3> QED
      BY <1>1, <1>2, <3>1 DEF Shapes
  <2>2. \A u \in Syncs : Holds(u)'
    BY <1>1, <1>3 DEF Shapes, Holds, sync
  <2> QED
    BY <1>1, <1>3, <1>4, <1>5, <1>6, <2>1, <2>2, <2>3 DEF Shapes, account, sync
<1>8. RowsAreListed'
  <2>1. ListingOf(t) = l
    BY <1>1, TokenFacts DEF Shapes, ImportToken
  <2> HIDE DEF t
  <2>2. master'[l] = t /\ \A m \in Listings \ {l} : master'[m] = master[m]
    BY <1>1, <1>2 DEF Shapes
  <2>3. ASSUME NEW u \in Tokens, holdings'[u] # None \/ positions'[u] # None
        PROVE  master'[ListingOf(u)] = u
    <3>1. CASE u = t
      BY <2>1, <2>2, <3>1
    <3>2. CASE u # t
      <4>1. master[ListingOf(u)] = u
        BY <1>1, <1>4, <1>5, <2>3, <3>2 DEF RowsAreListed
      <4>2. ListingOf(u) # l
        BY <1>2, <2>3, <3>2, <4>1
      <4> QED
        BY <2>2, <4>1, <4>2, TokenFacts
    <3> QED
      BY <3>1, <3>2
  <2> QED
    BY <2>3 DEF RowsAreListed
<1>9. Books'
  BY <1>3 DEF Tables, Books, Owned, account
<1> QED
  BY <1>7, <1>8, <1>9 DEF Tables

\* A price refers to a made token.
LEMMA QuoteTables ==
  ASSUME Tables, NEW t \in Tokens, Quoted(t)
  PROVE  Tables'
<1>1. kept' \subseteq {Made(l) : l \in Listings}
  BY TokenFacts DEF Quoted, Tables, Shapes
<1>2. UNCHANGED <<account, master, holdings, positions, sync, history, trades, imports>>
  BY DEF Quoted
<1>3. Shapes'
  BY <1>1, <1>2 DEF Tables, Shapes, Holds, account, sync, history
<1> QED
  BY <1>2, <1>3 DEF Tables, Books, Owned, RowsAreListed, account
-----------------------------------------------------------------------------
(* The two writes *)

\* The tokens of the listings an answer names.
Named(given) == {Official(l) : l \in given}

\* The row of a holding the broker does not report any more.
Wiped(row, s) == [row EXCEPT !.qty = 0, !.t1 = 0, !.synced = day, !.asOf = witness[s].first]

\* A token is named when its listing is and it is the broker's.
LEMMA NamedTokens ==
  ASSUME NEW given \in SUBSET Listings, NEW t \in Tokens
  PROVE  /\ t \in Named(given) <=> (ListingOf(t) \in given /\ t = Official(ListingOf(t)))
         /\ Named(given) \subseteq Tokens
BY TokenFacts DEF Named

\* What the write of the holdings does to a row: the answer's are written; the others stay,
\* are replaced when they are imported rows of a reported symbol, or are wiped when they
\* are the broker's and still have units.
LEMMA WrittenHoldings ==
  ASSUME Shapes, NEW s \in Syncs, WriteHoldings(s)
  PROVE  \E gone \in SUBSET Tokens :
    /\ \A t \in gone : /\ t \notin Named(DOMAIN answer[s])
                       /\ local[s][t] # None /\ IsImport(local[s][t])
                       /\ \E l \in DOMAIN answer[s] : SymbolOf(t) = l[1]
    /\ DOMAIN holdings' = Tokens
    /\ \A t \in Named(DOMAIN answer[s]) :
         holdings'[t] = Upserted(answer[s][ListingOf(t)], holdings[t], witness[s].first)
    /\ \A t \in Tokens \ Named(DOMAIN answer[s]) :
         holdings'[t] = IF t \in gone THEN None
                        ELSE IF /\ local[s][t] # None /\ ~IsImport(local[s][t])
                                /\ local[s][t].qty + local[s][t].t1 > 0 /\ holdings[t] # None
                          THEN Wiped(holdings[t], s)
                        ELSE holdings[t]
<1> DEFINE given == answer[s]
           rows == local[s]
<1>1. DOMAIN given \subseteq Listings /\ \A l \in DOMAIN given : Official(l) \in Tokens
  BY TokenFacts, Facts DEF Shapes, Holds, WriteHoldings
<1>2. PICK matched \in [DOMAIN given -> Tokens \union {None}] :
       /\ \A l \in DOMAIN given :
            IF Matches(l, rows) = {} THEN matched[l] = None ELSE matched[l] \in Matches(l, rows)
       /\ holdings' = [t \in Tokens |->
            IF t \in {Official(l) : l \in DOMAIN given}
              THEN Upserted(given[ListingOf(t)], holdings[t], witness[s].first)
            ELSE IF t \in Replaced(given, rows, matched) THEN None
            ELSE IF t \in Gone(given, rows, matched) /\ holdings[t] # None
              THEN [holdings[t] EXCEPT !.qty = 0, !.t1 = 0, !.synced = day,
                                       !.asOf = witness[s].first]
            ELSE holdings[t]]
  BY DEF WriteHoldings
<1> DEFINE named == {Official(l) : l \in DOMAIN given}
           gone == {t \in Replaced(given, rows, matched) : t \in Tokens /\ t \notin named}
<1>3. ASSUME NEW t \in gone
      PROVE  /\ rows[t] # None /\ IsImport(rows[t])
             /\ \E l \in DOMAIN given : SymbolOf(t) = l[1]
  <2>1. PICK l \in DOMAIN given : t = matched[l] /\ matched[l] \notin {None, Official(l)} /\ IsImport(rows[t])
    BY DEF Replaced
  <2>2. t \in Matches(l, rows)
    BY <1>2, <2>1
  <2>3. rows[t] # None /\ SymbolOf(t) = l[1]
    BY <2>1, <2>2 DEF Matches
  <2> QED
    BY <2>1, <2>3
<1>4. ASSUME NEW t \in Tokens \ named, t \notin gone
      PROVE  t \in Gone(given, rows, matched) <=>
               (rows[t] # None /\ ~IsImport(rows[t]) /\ rows[t].qty + rows[t].t1 > 0)
  BY <1>4 DEF Gone
<1>5. named = Named(DOMAIN given)
  BY DEF Named
<1>6. \A t \in named : t \in Tokens /\ holdings'[t] = Upserted(given[ListingOf(t)], holdings[t], witness[s].first)
  BY <1>1, <1>2
<1>7. DOMAIN holdings' = Tokens
  BY <1>2
<1>8. ASSUME NEW t \in Tokens \ named
      PROVE  holdings'[t] = IF t \in gone THEN None
                            ELSE IF t \in Gone(given, rows, matched) /\ holdings[t] # None
                              THEN Wiped(holdings[t], s)
                            ELSE holdings[t]
  <2>1. t \in Replaced(given, rows, matched) <=> t \in gone
    OBVIOUS
  <2> HIDE DEF gone
  <2> QED
    BY <1>2, <2>1 DEF Wiped
<1>9. gone \in SUBSET Tokens /\ \A t \in gone : t \notin named
  OBVIOUS
<1> HIDE DEF gone, named
<1> QED
  BY <1>3, <1>4, <1>5, <1>6, <1>7, <1>8, <1>9

\* The rest of that step.
LEMMA WriteHoldingsFrame ==
  ASSUME Shapes, NEW s \in Syncs, WriteHoldings(s)
  PROVE  /\ pc[s] = "writeHoldings" /\ DOMAIN answer[s] \subseteq AtBroker
         /\ \A l \in DOMAIN answer[s] : ~EnsureConflicts(l) /\ answer[s][l] \in BrokerRow
         /\ local[s] \in [Tokens -> HoldingRow \union {None}]
         /\ master' = Ensured(DOMAIN answer[s])
         /\ pc' = [pc EXCEPT ![s] = "askPositions"] /\ Report(s, "holdings", "ok")
         /\ writer' = [writer EXCEPT !.holdings = IF holdings = local[s] THEN s ELSE None]
         /\ answer' = [answer EXCEPT ![s] = None] /\ local' = [local EXCEPT ![s] = None]
         /\ UNCHANGED <<account, positions, kept, witness, trades, imports>>
BY DEF Shapes, Holds, WriteHoldings, NoSyncConflict, Goto

\* The rows the write makes are rows.
LEMMA WrittenRows ==
  ASSUME Shapes, NEW s \in Syncs
  PROVE  /\ \A b \in BrokerRow, old \in HoldingRow \union {None} :
              Upserted(b, old, witness[s].first) \in HoldingRow
         /\ \A row \in HoldingRow : Wiped(row, s) \in HoldingRow
<1>1. day \in 0..MaxDay /\ witness[s].first \in 0..MaxDay /\ 0 \in 0..MaxQty
  BY Facts DEF Shapes
<1>2. ASSUME NEW b \in BrokerRow, NEW old \in HoldingRow \union {None}
      PROVE  Upserted(b, old, witness[s].first) \in HoldingRow
  <2>1. (old = None \/ old.isin) \in BOOLEAN
    OBVIOUS
  <2> QED
    BY <1>1, <2>1 DEF Upserted, BrokerRow, HoldingRow
<1>3. ASSUME NEW row \in HoldingRow PROVE Wiped(row, s) \in HoldingRow
  BY <1>1 DEF Wiped, HoldingRow
<1> QED
  BY <1>2, <1>3

\* The write of the holdings: a listing whose token changes has no row under the old one.
LEMMA WriteHoldingsTables ==
  ASSUME Tables, NEW s \in Syncs, WriteHoldings(s)
  PROVE  Tables'
<1> USE Facts
<1> DEFINE D == DOMAIN answer[s]
<1>1. Shapes /\ RowsAreListed
  BY DEF Tables
<1>2. /\ D \subseteq AtBroker /\ D \subseteq Listings
      /\ \A l \in D : ~EnsureConflicts(l) /\ answer[s][l] \in BrokerRow
      /\ master' = Ensured(D)
      /\ UNCHANGED <<account, positions, kept, witness, trades, imports>>
  BY <1>1, WriteHoldingsFrame
<1>3. PICK gone \in SUBSET Tokens :
    /\ DOMAIN holdings' = Tokens
    /\ \A t \in Named(D) : holdings'[t] = Upserted(answer[s][ListingOf(t)], holdings[t], witness[s].first)
    /\ \A t \in Tokens \ Named(D) :
         holdings'[t] = None \/ holdings'[t] = holdings[t]
         \/ (holdings[t] # None /\ holdings'[t] = Wiped(holdings[t], s))
  BY <1>1, WrittenHoldings
<1> HIDE DEF D
<1>4. \A t \in Tokens : holdings'[t] \in HoldingRow \union {None}
  <2> SUFFICES ASSUME NEW t \in Tokens PROVE holdings'[t] \in HoldingRow \union {None}
    OBVIOUS
  <2>1. CASE t \in Named(D)
    <3>1. ListingOf(t) \in D
      BY <1>2, <2>1, NamedTokens
    <3>2. holdings[t] \in HoldingRow \union {None}
      BY <1>1 DEF Shapes
    <3> QED
      BY <1>1, <1>2, <1>3, <2>1, <3>1, <3>2, WrittenRows
  <2>2. CASE t \notin Named(D)
    <3>1. holdings[t] \in HoldingRow \union {None}
      BY <1>1 DEF Shapes
    <3> QED
      BY <1>1, <1>3, <2>2, <3>1, WrittenRows
  <2> QED
    BY <2>1, <2>2
<1>5. holdings' \in [Tokens -> HoldingRow \union {None}]
  <2>1. holdings' = [t \in Tokens |-> holdings'[t]]
    BY <1>1 DEF WriteHoldings
  <2> QED
    BY <1>4, <2>1
<1>6. /\ master' \in [Listings -> Tokens \union {None}]
      /\ \A l \in Listings : master'[l] = IF l \in D THEN Official(l) ELSE master[l]
      /\ \A l \in Listings : master'[l] \in {None, Official(l), Made(l)}
  BY <1>1, <1>2, TokenFacts DEF Ensured, Shapes
<1>7. /\ pc' = [pc EXCEPT ![s] = "askPositions"] /\ Report(s, "holdings", "ok")
      /\ writer' = [writer EXCEPT !.holdings = IF holdings = local[s] THEN s ELSE None]
      /\ answer' = [answer EXCEPT ![s] = None] /\ local' = [local EXCEPT ![s] = None]
  BY <1>1, WriteHoldingsFrame
<1>8. Shapes'
  <2>1. pc' \in [Syncs -> Places] /\ DOMAIN answer' = Syncs /\ DOMAIN local' = Syncs
    BY <1>1, <1>7 DEF Shapes, Places
  <2>2. result' \in [Syncs -> [holdings : Reports, positions : Reports, margins : Reports]]
    BY <1>1, <1>7, ReportTypes DEF Shapes, Reports
  <2>3. writer' \in [holdings : Syncs \union {None}, positions : Syncs \union {None}]
    <3>1. (IF holdings = local[s] THEN s ELSE None) \in Syncs \union {None}
      OBVIOUS
    <3> QED
      BY <1>1, <1>7, <3>1 DEF Shapes
  <2>4. \A u \in Syncs : Holds(u)'
    BY <1>1, <1>7 DEF Shapes, Holds
  <2> QED
    BY <1>1, <1>2, <1>5, <1>6, <2>1, <2>2, <2>3, <2>4 DEF Shapes, account
<1>9. RowsAreListed'
  <2> SUFFICES ASSUME NEW t \in Tokens, holdings'[t] # None \/ positions'[t] # None
               PROVE  master'[ListingOf(t)] = t
    BY DEF RowsAreListed
  <2>1. CASE t \in Named(D)
    BY <1>2, <1>6, <2>1, NamedTokens, TokenFacts
  <2>2. CASE t \notin Named(D)
    <3>1. holdings[t] # None \/ positions[t] # None
      BY <1>2, <1>3, <2>2
    <3>2. master[ListingOf(t)] = t
      BY <1>1, <3>1 DEF RowsAreListed
    <3>3. ListingOf(t) \notin D
      <4>1. SUFFICES ASSUME ListingOf(t) \in D PROVE FALSE
        OBVIOUS
      <4>2. t # Official(ListingOf(t)) /\ t # None
        BY <1>2, <2>2, <4>1, NamedTokens
      <4>3. Referenced(t)
        BY <3>1 DEF Referenced
      <4> QED
        BY <1>2, <3>2, <4>1, <4>2, <4>3 DEF EnsureConflicts
    <3> QED
      BY <1>6, <3>2, <3>3, TokenFacts
  <2> QED
    BY <2>1, <2>2
<1>10. Books'
  BY <1>2 DEF Tables, Books, Owned, account
<1> QED
  BY <1>8, <1>9, <1>10 DEF Tables

\* What the write of the positions does to a row.
LEMMA WritePositionsFrame ==
  ASSUME Shapes, NEW s \in Syncs, WritePositions(s)
  PROVE  /\ pc[s] = "writePositions" /\ DOMAIN answer[s] \subseteq AtBroker
         /\ \A l \in DOMAIN answer[s] : /\ answer[s][l].qty \in (-MaxQty)..MaxQty
                                        /\ ~PositionsConflictAt(l, Displaced(DOMAIN answer[s]))
         /\ positions' = [t \in Tokens |-> positions'[t]]
         /\ \A t \in Named(DOMAIN answer[s]) :
              positions'[t] = [source |-> "KITE", qty |-> answer[s][ListingOf(t)].qty]
         /\ \A t \in Tokens \ Named(DOMAIN answer[s]) :
              positions'[t] = IF t \in Displaced(DOMAIN answer[s]) THEN None ELSE Closed(positions[t])
         /\ master' = Ensured(DOMAIN answer[s])
         /\ pc' = [pc EXCEPT ![s] = "margins"] /\ Report(s, "positions", "ok")
         /\ writer' = [writer EXCEPT !.positions = s]
         /\ answer' = [answer EXCEPT ![s] = None]
         /\ UNCHANGED <<account, holdings, kept, local, witness, trades, imports>>
<1>1. DOMAIN answer[s] \subseteq AtBroker /\ DOMAIN answer[s] \subseteq Listings
      /\ \A l \in DOMAIN answer[s] : answer[s][l].qty \in (-MaxQty)..MaxQty
  BY Facts DEF Shapes, Holds, WritePositions
<1>2. \A t \in Tokens : positions'[t] =
       IF ListingOf(t) \in DOMAIN answer[s] /\ t = Official(ListingOf(t))
         THEN [source |-> "KITE", qty |-> answer[s][ListingOf(t)].qty]
       ELSE IF t \in Displaced(DOMAIN answer[s]) THEN None
       ELSE Closed(positions[t])
  BY DEF WritePositions
<1>3. \A t \in Tokens : t \in Named(DOMAIN answer[s]) <=>
                          (ListingOf(t) \in DOMAIN answer[s] /\ t = Official(ListingOf(t)))
  BY <1>1, NamedTokens
<1>4. Named(DOMAIN answer[s]) \subseteq Tokens
  BY <1>1, TokenFacts DEF Named
<1>5. positions' = [t \in Tokens |-> positions'[t]]
  BY DEF WritePositions
<1> QED
  BY <1>1, <1>2, <1>3, <1>4, <1>5 DEF WritePositions, Goto

\* A row that is closed is the row with no units, or an imported one as it was.
LEMMA ClosedRow ==
  ASSUME NEW row \in PositionRow \union {None}
  PROVE  /\ Closed(row) \in PositionRow \union {None} /\ (Closed(row) = None <=> row = None)
         /\ row = None \/ IsImport(row) => Closed(row) = row
         /\ ~(row = None \/ IsImport(row)) => Closed(row).qty = 0 /\ Closed(row).source = row.source
<1>1. 0 \in (-MaxQty)..MaxQty
  BY Facts
<1>2. CASE row = None \/ IsImport(row)
  BY <1>2 DEF Closed
<1>3. CASE ~(row = None \/ IsImport(row))
  <2>1. Closed(row) \in PositionRow /\ Closed(row).qty = 0 /\ Closed(row).source = row.source
    BY <1>1, <1>3 DEF Closed, PositionRow
  <2> QED
    BY <1>3, <2>1, Facts
<1> QED
  BY <1>2, <1>3

\* The write of the positions: an imported row under the old token makes way first.
LEMMA WritePositionsTables ==
  ASSUME Tables, NEW s \in Syncs, WritePositions(s)
  PROVE  Tables'
<1> USE Facts
<1> DEFINE D == DOMAIN answer[s]
<1>1. Shapes /\ RowsAreListed
  BY DEF Tables
<1>2. /\ D \subseteq AtBroker /\ D \subseteq Listings
      /\ \A l \in D : /\ answer[s][l].qty \in (-MaxQty)..MaxQty
                      /\ ~PositionsConflictAt(l, Displaced(D))
      /\ positions' = [t \in Tokens |-> positions'[t]]
      /\ \A t \in Named(D) : positions'[t] = [source |-> "KITE", qty |-> answer[s][ListingOf(t)].qty]
      /\ \A t \in Tokens \ Named(D) :
           positions'[t] = IF t \in Displaced(D) THEN None ELSE Closed(positions[t])
      /\ master' = Ensured(D)
      /\ UNCHANGED <<account, holdings, kept, local, witness, trades, imports>>
  BY <1>1, WritePositionsFrame
<1>3. /\ pc' = [pc EXCEPT ![s] = "margins"] /\ Report(s, "positions", "ok")
      /\ writer' = [writer EXCEPT !.positions = s] /\ answer' = [answer EXCEPT ![s] = None]
  BY <1>1, WritePositionsFrame
<1> HIDE DEF D
<1>4. positions' \in [Tokens -> PositionRow \union {None}]
  <2> SUFFICES ASSUME NEW t \in Tokens PROVE positions'[t] \in PositionRow \union {None}
    BY <1>2
  <2>1. CASE t \in Named(D)
    <3>1. ListingOf(t) \in D
      BY <1>2, <2>1, NamedTokens
    <3>2. answer[s][ListingOf(t)].qty \in (-MaxQty)..MaxQty
      BY <1>2, <3>1
    <3>3. \A q \in (-MaxQty)..MaxQty : [source |-> "KITE", qty |-> q] \in PositionRow
      BY DEF PositionRow
    <3>4. positions'[t] = [source |-> "KITE", qty |-> answer[s][ListingOf(t)].qty]
      BY <1>2, <2>1
    <3> QED
      BY <3>2, <3>3, <3>4
  <2>2. CASE t \notin Named(D)
    BY <1>1, <1>2, <2>2, ClosedRow DEF Shapes
  <2> QED
    BY <2>1, <2>2
<1>5. /\ master' \in [Listings -> Tokens \union {None}]
      /\ \A l \in Listings : master'[l] = IF l \in D THEN Official(l) ELSE master[l]
      /\ \A l \in Listings : master'[l] \in {None, Official(l), Made(l)}
  BY <1>1, <1>2, TokenFacts DEF Ensured, Shapes
<1>6. Shapes'
  <2>1. pc' \in [Syncs -> Places] /\ DOMAIN answer' = Syncs
    BY <1>1, <1>3 DEF Shapes, Places
  <2>2. result' \in [Syncs -> [holdings : Reports, positions : Reports, margins : Reports]]
    BY <1>1, <1>3, ReportTypes DEF Shapes, Reports
  <2>3. writer' \in [holdings : Syncs \union {None}, positions : Syncs \union {None}]
    BY <1>1, <1>3 DEF Shapes
  <2>4. \A u \in Syncs : Holds(u)'
    BY <1>1, <1>2, <1>3 DEF Shapes, Holds
  <2> QED
    BY <1>1, <1>2, <1>4, <1>5, <2>1, <2>2, <2>3, <2>4 DEF Shapes, account
<1>7. RowsAreListed'
  <2> SUFFICES ASSUME NEW t \in Tokens, holdings'[t] # None \/ positions'[t] # None
               PROVE  master'[ListingOf(t)] = t
    BY DEF RowsAreListed
  <2>1. CASE t \in Named(D)
    BY <1>2, <1>5, <2>1, NamedTokens, TokenFacts
  <2>2. CASE t \notin Named(D)
    <3>0. positions[t] \in PositionRow \union {None}
      BY <1>1 DEF Shapes
    <3>1. holdings[t] # None \/ (positions[t] # None /\ t \notin Displaced(D))
      BY <1>2, <2>2, <3>0, ClosedRow
    <3>2. master[ListingOf(t)] = t
      BY <1>1, <3>1 DEF RowsAreListed
    <3>3. ListingOf(t) \notin D
      <4>1. SUFFICES ASSUME ListingOf(t) \in D PROVE FALSE
        OBVIOUS
      <4>2. t # Official(ListingOf(t)) /\ t # None
        BY <1>2, <2>2, <4>1, NamedTokens
      <4> QED
        BY <1>2, <3>1, <3>2, <4>1, <4>2 DEF PositionsConflictAt
    <3> QED
      BY <1>5, <3>2, <3>3, TokenFacts
  <2> QED
    BY <2>1, <2>2
<1>8. Books'
  BY <1>2 DEF Tables, Books, Owned, account
<1> QED
  BY <1>6, <1>7, <1>8 DEF Tables

\* Every step keeps the tables.
LEMMA TablesKept == Tables /\ [Next]_vars => Tables'
<1> SUFFICES ASSUME Tables, [Next]_vars PROVE Tables'
  OBVIOUS
<1>1. CASE UNCHANGED vars
  BY <1>1 DEF vars, account, tables, sync, history, Tables, Shapes, Holds, Books, Owned, RowsAreListed
<1>2. CASE Next
  <2>1. ASSUME NEW s \in Syncs, SyncStep(s) PROVE Tables'
    BY <2>1, QuietTables, PurgeTables, WriteHoldingsTables, WritePositionsTables DEF SyncStep, Quiet
  <2>2. CASE \E l \in AtBroker : Buy(l) \/ PlaceSell(l) \/ Fill(l)
    BY <2>2, TradeTables
  <2>3. CASE \E l \in Listings, q \in 1..MaxQty : ImportHolding(l, q) \/ ImportPosition(l, q)
    BY <2>3, ImportTables
  <2>4. CASE NewDay \/ UserPurges \/ \E t \in Tokens : Quoted(t)
    BY <2>4, NewDayTables, PurgeTables, QuoteTables
  <2> QED
    BY <1>2, <2>1, <2>2, <2>3, <2>4 DEF Next
<1> QED
  BY <1>1, <1>2

\* The tables keep what their columns and foreign keys promise, through imports under made
\* tokens, renamings and purges.
THEOREM SoundTables == Spec => []TablesAreSound
<1>1. Tables => TablesAreSound
  <2>1. Tables => TypeOK
    BY DEF Tables, Shapes, TypeOK, Places
  <2> QED
    BY <2>1 DEF Tables, TablesAreSound
<1> QED
  BY <1>1, InitTables, TablesKept, PTL DEF Spec
-----------------------------------------------------------------------------
(* What a row of today says of the account *)

\* On the first day nothing is recorded.
LEMMA InitToday == Init => Today
<1> SUFFICES ASSUME Init PROVE Today
  OBVIOUS
<1>1. /\ day = 0 /\ \A s \in Syncs : witness[s].first = 0 /\ pc[s] = "idle"
      /\ \A t \in Tokens : holdings[t] = None
  BY DEF Init
<1>2. \A l \in AtBroker : holdings[Official(l)] = None
  BY <1>1, TokenFacts, Facts
<1> QED
  BY <1>1, <1>2 DEF Today, NothingAhead, RowTells, AnswerTells

\* A trade moves no settled unit, and no fewer are sold after it.
LEMMA TradeAccount ==
  ASSUME Shapes, NEW l \in AtBroker, Buy(l) \/ PlaceSell(l) \/ Fill(l)
  PROVE  \A m \in AtBroker :
        /\ broker'[m].qty = broker[m].qty /\ broker'[m].t1 = broker[m].t1
        /\ broker'[m].pledged = broker[m].pledged /\ broker'[m].authorised = broker[m].authorised
        /\ broker[m].used <= broker'[m].used
<1> SUFFICES ASSUME NEW m \in AtBroker
             PROVE  /\ broker'[m].qty = broker[m].qty /\ broker'[m].t1 = broker[m].t1
                    /\ broker'[m].pledged = broker[m].pledged
                    /\ broker'[m].authorised = broker[m].authorised
                    /\ broker[m].used <= broker'[m].used
  OBVIOUS
<1>1. broker[m] \in BrokerRow /\ broker[l] \in BrokerRow /\ broker[m].used \in Int
  BY AccountType, Facts
<1>2. DOMAIN broker = AtBroker
  BY DEF Shapes
<1>3. CASE m # l
  BY <1>1, <1>2, <1>3 DEF Buy, PlaceSell, Fill, Trade
<1>4. CASE m = l
  <2>1. CASE Buy(l)
    BY <1>1, <1>2, <1>4, <2>1 DEF Buy, Trade, BrokerRow
  <2>2. CASE PlaceSell(l)
    BY <1>1, <1>2, <1>4, <2>2 DEF PlaceSell, Trade, BrokerRow
  <2>3. CASE Fill(l)
    BY <1>1, <1>2, <1>4, <2>3 DEF Fill, Trade, BrokerRow
  <2> QED
    BY <2>1, <2>2, <2>3
<1> QED
  BY <1>3, <1>4

\* The account moves on within a day: nothing settles, and no fewer units are sold.
LEMMA TodayAfterTrade ==
  ASSUME Tables, Today, NEW l \in AtBroker, Buy(l) \/ PlaceSell(l) \/ Fill(l)
  PROVE  Today'
<1>1. UNCHANGED <<day, tables, sync, history>>
  BY DEF Buy, PlaceSell, Fill, Trade
<1>2. \A m \in AtBroker :
        /\ broker'[m].qty = broker[m].qty /\ broker'[m].t1 = broker[m].t1
        /\ broker'[m].pledged = broker[m].pledged /\ broker'[m].authorised = broker[m].authorised
        /\ broker[m].used <= broker'[m].used
  BY TradeAccount DEF Tables
<1>3. \A m \in AtBroker : \A r : r.used \in Int => (Agrees(r, broker[m]) => Agrees(r, broker'[m]))
  <2>1. \A m \in AtBroker : broker[m].used \in Int /\ broker'[m].used \in Int
    BY AccountType, TradeTables, Facts DEF Tables, Shapes, BrokerRow
  <2> QED
    BY <1>2, <2>1 DEF Agrees
<1>4. RowTells'
  <2> SUFFICES ASSUME NEW m \in AtBroker, holdings[Official(m)] # None,
                      Agrees(holdings[Official(m)], broker[m])
               PROVE  Agrees(holdings[Official(m)], broker'[m])
    BY <1>1 DEF Today, RowTells, tables
  <2>1. holdings[Official(m)] \in HoldingRow
    BY TokenFacts, Facts DEF Tables, Shapes
  <2>2. holdings[Official(m)].used \in Int
    BY <2>1, Facts DEF HoldingRow
  <2> QED
    BY <1>3, <2>2
<1>5. AnswerTells'
  <2> SUFFICES ASSUME NEW s \in Syncs, pc[s] \in {"readRows", "writeHoldings"}, witness[s].first = day
               PROVE  /\ \A m \in DOMAIN answer[s] : Agrees(answer[s][m], broker'[m])
                      /\ \A m \in AtBroker \ DOMAIN answer[s] : broker'[m].qty + broker'[m].t1 = 0
    BY <1>1 DEF AnswerTells, sync, history
  <2>1. /\ \A m \in DOMAIN answer[s] : Agrees(answer[s][m], broker[m])
        /\ \A m \in AtBroker \ DOMAIN answer[s] : broker[m].qty + broker[m].t1 = 0
    BY DEF Today, AnswerTells
  <2>2. \A m \in DOMAIN answer[s] : m \in AtBroker /\ answer[s][m].used \in Int
    <3>1. \A m \in DOMAIN answer[s] : m \in AtBroker /\ answer[s][m] \in BrokerRow
      BY DEF Tables, Shapes, Holds
    <3> QED
      BY <3>1, Facts DEF BrokerRow
  <2> QED
    BY <1>2, <1>3, <2>1, <2>2
<1>6. NothingAhead'
  BY <1>1 DEF Today, NothingAhead, tables, history
<1> QED
  BY <1>4, <1>5, <1>6 DEF Today

\* On the next day nothing is of today yet.
LEMMA TodayAfterMidnight ==
  ASSUME Tables, Today, NewDay
  PROVE  Today'
<1>0. day \in 0..MaxDay
  BY DEF Tables, Shapes
<1>1. day' = day + 1 /\ UNCHANGED <<tables, sync, history>> /\ day \in Int
  <2>1. day' = day + 1 /\ UNCHANGED <<tables, sync, history>>
    BY DEF NewDay
  <2> QED
    BY <1>0, <2>1, Facts
<1>2. \A s \in Syncs : witness[s].first \in Int
  BY Facts DEF Tables, Shapes
<1>3. \A t \in Tokens : holdings[t] # None => holdings[t].synced \in Int
  <2>1. \A row \in HoldingRow : row.synced \in Int
    BY Facts DEF HoldingRow
  <2> QED
    BY <2>1 DEF Tables, Shapes
<1>4. \A s \in Syncs : witness'[s].first <= day' /\ witness'[s].first # day'
  BY <1>1, <1>2 DEF Today, NothingAhead, history
<1>5. \A t \in Tokens : holdings'[t] # None => holdings'[t].synced <= day' /\ holdings'[t].synced # day'
  BY <1>1, <1>3 DEF Today, NothingAhead, tables
<1>6. \A l \in AtBroker : Official(l) \in Tokens
  BY TokenFacts, Facts
<1> QED
  BY <1>4, <1>5, <1>6 DEF Today, NothingAhead, RowTells, AnswerTells

\* An account agrees with itself, and one without settled units has none.
LEMMA AnswerAgrees ==
  ASSUME Shapes, NEW l \in AtBroker
  PROVE  /\ Agrees(broker[l], broker[l])
         /\ l \notin HoldingsAnswer => broker[l].qty + broker[l].t1 = 0
<1>1. broker[l].used \in Int /\ broker[l].qty \in Nat /\ broker[l].t1 \in Nat
  BY AccountType, Facts
<1> QED
  BY <1>1 DEF Agrees, HoldingsAnswer

\* An answer says what the account says when it is given.
LEMMA TodayAfterQuiet ==
  ASSUME Tables, Today, NEW s \in Syncs, Quiet(s)
  PROVE  Today'
<1>1. /\ UNCHANGED <<broker, day, holdings>>
      /\ \A u \in Syncs \ {s} : pc'[u] = pc[u] /\ answer'[u] = answer[u] /\ witness'[u] = witness[u]
  BY QuietFrame DEF Tables, account, tables
<1>2. RowTells'
  BY <1>1 DEF Today, RowTells
<1>3. witness'[s].first \in {witness[s].first, day}
  BY DEF Tables, Shapes, Quiet, Start, Broken, AskHoldings, ReadRows, HoldingsConflict, AskPositions,
         PositionsConflict, SyncMargins, history
<1>4. NothingAhead'
  <2>1. day <= day
    BY Facts DEF Tables, Shapes
  <2> QED
    BY <1>1, <1>3, <2>1 DEF Today, NothingAhead
<1>5. (pc'[s] \in {"readRows", "writeHoldings"} /\ witness'[s].first = day) =>
        /\ \A l \in DOMAIN answer'[s] : Agrees(answer'[s][l], broker[l])
        /\ \A l \in AtBroker \ DOMAIN answer'[s] : broker[l].qty + broker[l].t1 = 0
  <2>1. CASE AskHoldings(s)
    <3>1. answer'[s] = [l \in HoldingsAnswer |-> broker[l]]
      BY <2>1 DEF AskHoldings, Tables, Shapes
    <3> QED
      BY <3>1, AnswerAgrees, AnswerTypes DEF Tables
  <2>2. CASE ReadRows(s)
    BY <2>2 DEF ReadRows, history, Today, AnswerTells
  <2>3. CASE ~AskHoldings(s) /\ ~ReadRows(s)
    <3>1. pc'[s] \notin {"readRows", "writeHoldings"}
      BY <2>3 DEF Quiet, Start, Broken, HoldingsConflict, AskPositions, PositionsConflict, SyncMargins,
                  Goto, Tables, Shapes
    <3> QED
      BY <3>1
  <2> QED
    BY <2>1, <2>2, <2>3
<1>6. AnswerTells'
  BY <1>1, <1>5 DEF Today, AnswerTells
<1> QED
  BY <1>2, <1>4, <1>6 DEF Today

\* The steps that leave the account, the day and the answers alone, and write no row of
\* the broker's.
LEMMA TodayKept ==
  ASSUME Tables, Today, UNCHANGED <<broker, day, witness>>,
         \A u \in Syncs : pc'[u] \in {"readRows", "writeHoldings"} => pc'[u] = pc[u] /\ answer'[u] = answer[u],
         \A t \in Tokens : \/ holdings'[t] = None \/ holdings'[t] = holdings[t]
                           \/ (IsImport(holdings'[t]) /\ holdings'[t].synced = day)
  PROVE  Today'
<1>1. \A t \in Tokens : (holdings'[t] # None /\ ~IsImport(holdings'[t])) => holdings'[t] = holdings[t]
  OBVIOUS
<1>2. \A l \in AtBroker : Official(l) \in Tokens
  BY TokenFacts, Facts
<1>3. day <= day
  BY Facts DEF Tables, Shapes
<1>4. RowTells'
  BY <1>1, <1>2 DEF Today, RowTells
<1>5. NothingAhead'
  BY <1>3 DEF Today, NothingAhead
<1>6. AnswerTells'
  BY DEF Today, AnswerTells
<1> QED
  BY <1>4, <1>5, <1>6 DEF Today

\* So do purges, files, prices and the write of the positions.
LEMMA TodayAfterOthers ==
  ASSUME Tables, Today,
         \/ UserPurges \/ \E s \in Syncs : SyncPurges(s) \/ WritePositions(s)
         \/ \E l \in Listings, q \in 1..MaxQty : ImportHolding(l, q) \/ ImportPosition(l, q)
         \/ \E t \in Tokens : Quoted(t)
  PROVE  Today'
<1>1. CASE UserPurges \/ \E s \in Syncs : SyncPurges(s)
  <2>1. PurgeImported /\ UNCHANGED <<broker, day, witness, answer>>
    BY <1>1 DEF UserPurges, SyncPurges, account, sync, history
  <2>2. UNCHANGED pc \/ \E s \in Syncs : pc' = [pc EXCEPT ![s] = "askHoldings"]
    BY <1>1 DEF UserPurges, SyncPurges, sync, Goto
  <2>3. \A u \in Syncs : pc'[u] \in {pc[u], "askHoldings"}
    BY <2>2 DEF Tables, Shapes
  <2>4. \A t \in Tokens : holdings'[t] = None \/ holdings'[t] = holdings[t]
    BY <2>1, PurgeFrame DEF Tables
  <2> QED
    BY <2>1, <2>3, <2>4, TodayKept
<1>2. ASSUME NEW s \in Syncs, WritePositions(s) PROVE Today'
  <2>1. /\ UNCHANGED <<account, holdings, witness>> /\ pc' = [pc EXCEPT ![s] = "margins"]
        /\ answer' = [answer EXCEPT ![s] = None]
    BY <1>2, WritePositionsFrame DEF Tables
  <2>2. \A u \in Syncs : pc'[u] \in {"readRows", "writeHoldings"} => pc'[u] = pc[u] /\ answer'[u] = answer[u]
    BY <2>1 DEF Tables, Shapes
  <2> QED
    BY <2>1, <2>2, TodayKept DEF account
<1>3. ASSUME NEW l \in Listings, NEW q \in 1..MaxQty, ImportHolding(l, q) \/ ImportPosition(l, q)
      PROVE  Today'
  <2>1. UNCHANGED <<broker, day, witness, pc, answer>>
    BY <1>3 DEF ImportHolding, ImportPosition, account, sync
  <2>2. \A t \in Tokens : holdings'[t] = holdings[t] \/ (IsImport(holdings'[t]) /\ holdings'[t].synced = day)
    <3>1. CASE ImportPosition(l, q)
      BY <3>1 DEF ImportPosition
    <3>2. CASE ImportHolding(l, q)
      <4> DEFINE u == ImportToken(l)
      <4>1. u \in Tokens
        BY TokenFacts DEF ImportToken, Tables, Shapes
      <4>2. IsImport(holdings'[u]) /\ holdings'[u].synced = day
        <5>1. holdings[u] = None \/ holdings[u] \in HoldingRow
          BY <4>1 DEF Tables, Shapes
        <5>2. holdings'[u] =
               IF holdings[u] = None
               THEN [source |-> "CSV_IMPORT", qty |-> q, t1 |-> 0, used |-> 0, pledged |-> 0,
                     authorised |-> q, isin |-> FALSE, synced |-> day, asOf |-> day]
               ELSE [holdings[u] EXCEPT !.source = "CSV_IMPORT", !.qty = q, !.synced = day, !.asOf = day]
          BY <3>2, <4>1 DEF ImportHolding, Tables, Shapes
        <5> HIDE DEF u
        <5> QED
          BY <5>1, <5>2 DEF IsImport, Imported, HoldingRow
      <4>3. \A t \in Tokens : t # u => holdings'[t] = holdings[t]
        BY <3>2 DEF ImportHolding, Tables, Shapes
      <4> QED
        BY <4>2, <4>3
    <3> QED
      BY <1>3, <3>1, <3>2
  <2> QED
    BY <2>1, <2>2, TodayKept
<1>4. ASSUME NEW t \in Tokens, Quoted(t) PROVE Today'
  <2>1. UNCHANGED <<broker, day, witness, pc, answer, holdings>>
    BY <1>4 DEF Quoted, account, sync, history
  <2> QED
    BY <2>1, TodayKept
<1> QED
  BY <1>1, <1>2, <1>3, <1>4

\* A row that is written has the answer's units and the answer's day; a wiped row has none.
LEMMA TodayAfterWrite ==
  ASSUME Tables, Today, NEW s \in Syncs, WriteHoldings(s)
  PROVE  Today'
<1> DEFINE D == DOMAIN answer[s]
<1>1. Shapes /\ day <= day /\ witness[s].first <= day
  BY Facts DEF Tables, Shapes, Today, NothingAhead
<1>2. /\ pc[s] = "writeHoldings" /\ D \subseteq AtBroker /\ D \subseteq Listings
      /\ pc' = [pc EXCEPT ![s] = "askPositions"] /\ answer' = [answer EXCEPT ![s] = None]
      /\ UNCHANGED <<account, witness>>
  BY <1>1, WriteHoldingsFrame, Facts
<1>3. PICK gone \in SUBSET Tokens :
    /\ \A t \in Named(D) : holdings'[t] = Upserted(answer[s][ListingOf(t)], holdings[t], witness[s].first)
    /\ \A t \in Tokens \ Named(D) :
         holdings'[t] = None \/ holdings'[t] = holdings[t]
         \/ (holdings[t] # None /\ holdings'[t] = Wiped(holdings[t], s))
  BY <1>1, WrittenHoldings
<1> HIDE DEF D
<1>4. ASSUME NEW t \in Tokens, holdings[t] # None
      PROVE  /\ Wiped(holdings[t], s).synced = day
             /\ Wiped(holdings[t], s).qty + Wiped(holdings[t], s).t1 = 0
  <2>1. holdings[t] \in HoldingRow
    BY <1>1, <1>4 DEF Shapes
  <2> QED
    BY <2>1 DEF Wiped, HoldingRow
<1>5. NothingAhead'
  <2>1. \A u \in Syncs : witness'[u].first <= day'
    BY <1>2 DEF Today, NothingAhead, account
  <2>2. ASSUME NEW t \in Tokens, holdings'[t] # None PROVE holdings'[t].synced <= day
    <3>1. CASE t \in Named(D)
      <4>0. holdings'[t] = Upserted(answer[s][ListingOf(t)], holdings[t], witness[s].first)
        BY <1>3, <3>1
      <4>1. holdings'[t].synced = day
        BY <4>0 DEF Upserted
      <4> QED
        BY <1>1, <4>1
    <3>2. CASE t \notin Named(D)
      BY <1>1, <1>3, <1>4, <2>2, <3>2 DEF Today, NothingAhead
    <3> QED
      BY <3>1, <3>2
  <2> QED
    BY <1>2, <2>1, <2>2 DEF NothingAhead, account
<1>6. RowTells'
  <2> SUFFICES ASSUME NEW l \in AtBroker, holdings'[Official(l)] # None,
                      ~IsImport(holdings'[Official(l)]), holdings'[Official(l)].synced = day,
                      holdings'[Official(l)].asOf = day,
                      holdings'[Official(l)].qty + holdings'[Official(l)].t1 > 0
               PROVE  Agrees(holdings'[Official(l)], broker[l])
    BY <1>2 DEF RowTells, account
  <2> DEFINE t == Official(l)
  <2>0. t \in Tokens /\ ListingOf(t) = l
    BY TokenFacts, Facts
  <2> HIDE DEF t
  <2>1. CASE t \in Named(D)
    <3>1. l \in D
      BY <1>2, <2>0, <2>1, NamedTokens
    <3>2. holdings'[t] = Upserted(answer[s][l], holdings[t], witness[s].first)
      BY <1>3, <2>0, <2>1
    <3>3. witness[s].first = day
      BY <3>2 DEF Upserted, t
    <3>4. Agrees(answer[s][l], broker[l])
      BY <1>2, <3>1, <3>3 DEF Today, AnswerTells, D
    <3> QED
      BY <3>2, <3>4 DEF Upserted, Agrees, t
  <2>2. CASE t \notin Named(D)
    <3>1. holdings'[t] = holdings[t]
      <4>1. CASE holdings[t] # None /\ holdings'[t] = Wiped(holdings[t], s)
        BY <1>4, <2>0, <4>1 DEF t
      <4> QED
        BY <1>3, <2>0, <2>2, <4>1 DEF t
    <3> QED
      BY <3>1 DEF Today, RowTells, t
  <2> QED
    BY <2>1, <2>2
<1>7. AnswerTells'
  <2>1. \A u \in Syncs \ {s} : pc'[u] = pc[u] /\ answer'[u] = answer[u]
    BY <1>1, <1>2 DEF Shapes
  <2>2. pc'[s] = "askPositions"
    BY <1>1, <1>2 DEF Shapes
  <2> QED
    BY <1>2, <2>1, <2>2 DEF Today, AnswerTells, account
<1> QED
  BY <1>5, <1>6, <1>7 DEF Today

\* What is recorded of today stays true of the account.
LEMMA TodayIsKept == Tables /\ Today /\ [Next]_vars => Today'
<1> SUFFICES ASSUME Tables, Today, [Next]_vars PROVE Today'
  OBVIOUS
<1>1. CASE UNCHANGED vars
  BY <1>1 DEF vars, account, tables, sync, history, Today, NothingAhead, RowTells, AnswerTells
<1>2. CASE Next
  <2>1. ASSUME NEW s \in Syncs, SyncStep(s) PROVE Today'
    BY <2>1, TodayAfterQuiet, TodayAfterOthers, TodayAfterWrite DEF SyncStep, Quiet
  <2>2. CASE \E l \in AtBroker : Buy(l) \/ PlaceSell(l) \/ Fill(l)
    BY <2>2, TodayAfterTrade
  <2>3. CASE \E l \in Listings, q \in 1..MaxQty : ImportHolding(l, q) \/ ImportPosition(l, q)
    BY <2>3, TodayAfterOthers
  <2>4. CASE NewDay \/ UserPurges \/ \E t \in Tokens : Quoted(t)
    BY <2>4, TodayAfterMidnight, TodayAfterOthers
  <2> QED
    BY <1>2, <2>1, <2>2, <2>3, <2>4 DEF Next
<1> QED
  BY <1>1, <1>2

\* The gate's sum and the broker's, for a row that agrees with the account but for units
\* sold since.
LEMMA GateAndBroker ==
  ASSUME NEW qty \in Nat, NEW t1 \in Nat, NEW pledged \in Nat, NEW authorised \in Nat,
         NEW used \in Nat, NEW now \in Nat, used <= now, NEW open \in Nat, NEW q \in Nat, q >= 1,
         NEW tpin \in BOOLEAN,
         q <= AtLeastZero(IF tpin THEN Least(qty - used - pledged + t1 - open,
                                             AtLeastZero(authorised - used))
                                  ELSE qty - used - pledged + t1 - open)
  PROVE  q <= AtLeastZero(IF tpin /\ AtLeastZero(authorised - now) < qty - pledged - now - open + t1
                          THEN AtLeastZero(authorised - now)
                          ELSE qty - pledged - now - open + t1) + now - used
<1>1. CASE tpin
  BY <1>1 DEF AtLeastZero, Least
<1>2. CASE ~tpin
  BY <1>2 DEF AtLeastZero, Least
<1> QED
  BY <1>1, <1>2

\* A live sell that the gate lets pass exceeds what the broker would sell by no more than
\* what was filled since the row's answer: whatever syncs overlap, whatever is imported,
\* and however often the day turns.
THEOREM GateTrailsByFills == Spec => []OverstatedOnlyByFills
<1>1. ASSUME Tables, Today PROVE OverstatedOnlyByFills
  <2> SUFFICES ASSUME NEW l \in AtBroker, NEW q \in 1..MaxQty, holdings[Official(l)] # None,
                      holdings[Official(l)].asOf = holdings[Official(l)].synced,
                      PassesLive(holdings[Official(l)], q,
                                 [readable |-> TRUE, pending |-> broker[l].open], config, day)
               PROVE  q <= BrokerSellable(l) + broker[l].used - holdings[Official(l)].used
    BY DEF OverstatedOnlyByFills
  <2> DEFINE row == holdings[Official(l)]
             b == broker[l]
  <2>1. row \in HoldingRow
    BY <1>1, TokenFacts, Facts DEF Tables, Shapes
  <2>2. /\ row.qty \in Nat /\ row.t1 \in Nat /\ row.used \in Nat /\ row.pledged \in Nat
        /\ row.authorised \in Nat
    BY <2>1, Facts DEF HoldingRow
  <2>3. /\ b.qty \in Nat /\ b.t1 \in Nat /\ b.used \in Nat /\ b.pledged \in Nat
        /\ b.authorised \in Nat /\ b.open \in Nat
    BY <1>1, AccountType, Facts DEF Tables
  <2>4. config \in [btst : BOOLEAN, tpin : BOOLEAN, t2t : BOOLEAN]
    BY <1>1, SyncAssumption DEF Tables, Shapes
  <2>5. ~IsImport(row) /\ row.synced = day /\ row.asOf = day /\ q <= Sellable(row, b.open, config)
    BY DEF PassesLive, IsImport
  <2> DEFINE t1 == IF config.btst /\ ~config.t2t THEN row.t1 ELSE 0
             free == row.qty - row.used - row.pledged + t1 - b.open
             left == AtLeastZero(row.authorised - row.used)
  <2>6. q <= AtLeastZero(IF config.tpin THEN Least(free, left) ELSE free)
    BY <2>5 DEF Sellable
  <2>7. q \in Nat /\ q >= 1 /\ t1 \in Nat /\ t1 <= row.t1 /\ config.tpin \in BOOLEAN
    BY <2>2, <2>4, Facts
  <2>8. row.qty + row.t1 > 0
    <3>1. free > 0
      <4>1. free \in Int /\ left \in Int
        BY <2>2, <2>3, <2>7 DEF AtLeastZero
      <4> HIDE DEF free, left
      <4> QED
        BY <2>6, <2>7, <4>1 DEF AtLeastZero, Least
    <3> QED
      BY <2>2, <2>3, <2>7, <3>1
  <2>9. Agrees(row, b)
    BY <1>1, <2>5, <2>8 DEF Today, RowTells
  <2>10. BrokerSellable(l) =
           AtLeastZero(IF config.tpin /\ AtLeastZero(row.authorised - b.used)
                                           < row.qty - row.pledged - b.used - b.open + t1
                       THEN AtLeastZero(row.authorised - b.used)
                       ELSE row.qty - row.pledged - b.used - b.open + t1)
    BY <2>9 DEF BrokerSellable, Agrees
  <2>11. row.used <= b.used
    BY <2>9 DEF Agrees
  <2> HIDE DEF row, b, t1
  <2>12. q <= BrokerSellable(l) + b.used - row.used
    BY <2>2, <2>3, <2>6, <2>7, <2>10, <2>11, GateAndBroker
  <2> QED
    BY <2>12 DEF row, b
<1> QED
  BY <1>1, InitTables, TablesKept, InitToday, TodayIsKept, PTL DEF Spec

\* The write of a sync leaves alone the rows it has read as imports, of symbols the broker
\* does not report, if they still are imports.
THEOREM ImportedRowsSurvive == Spec => ImportsSurvive
<1>1. ASSUME Tables, [Next]_vars, NEW s \in Syncs, pc[s] = "writeHoldings", pc'[s] = "askPositions",
             NEW t \in Tokens, answer[s] # None, local[s][t] # None, IsImport(local[s][t]),
             holdings[t] # None, IsImport(holdings[t]),
             SymbolOf(t) \notin {l[1] : l \in DOMAIN answer[s]}
      PROVE  holdings'[t] = holdings[t]
  <2>0. pc \in [Syncs -> Places]
    BY <1>1 DEF Tables, Shapes
  <2>1. WriteHoldings(s) \/ HoldingsConflict(s) \/ Broken(s)
    <3>1. ~UNCHANGED pc
      BY <1>1
    <3>2. ASSUME NEW u \in Syncs, SyncStep(u) PROVE u = s
      <4>1. \A v \in Syncs \ {u} : pc'[v] = pc[v]
        BY <2>0, <3>2 DEF SyncStep, Start, SyncPurges, AskHoldings, ReadRows, WriteHoldings,
           HoldingsConflict, AskPositions, WritePositions, PositionsConflict, SyncMargins, Broken, Goto
      <4> QED
        BY <1>1, <4>1
    <3>3. ~UNCHANGED pc => \E u \in Syncs : SyncStep(u)
      BY <1>1 DEF Next, vars, sync, Buy, PlaceSell, Fill, Trade, NewDay, ImportHolding, ImportPosition,
                  UserPurges, Quoted
    <3>4. SyncStep(s)
      BY <3>1, <3>2, <3>3
    <3> QED
      BY <1>1, <2>0, <3>4 DEF SyncStep, Start, SyncPurges, AskHoldings, ReadRows, AskPositions,
                              WritePositions, PositionsConflict, SyncMargins
  <2>2. CASE HoldingsConflict(s) \/ Broken(s)
    BY <2>2 DEF HoldingsConflict, Broken, tables
  <2>3. CASE WriteHoldings(s)
    <3>1. PICK gone \in SUBSET Tokens :
        /\ \A v \in gone : \E l \in DOMAIN answer[s] : SymbolOf(v) = l[1]
        /\ \A v \in Tokens \ Named(DOMAIN answer[s]) :
             holdings'[v] = IF v \in gone THEN None
                            ELSE IF /\ local[s][v] # None /\ ~IsImport(local[s][v])
                                    /\ local[s][v].qty + local[s][v].t1 > 0 /\ holdings[v] # None
                              THEN Wiped(holdings[v], s)
                            ELSE holdings[v]
      BY <1>1, <2>3, WrittenHoldings DEF Tables
    <3>2. t \notin gone
      BY <1>1, <3>1
    <3>3. t \notin Named(DOMAIN answer[s])
      <4>1. \A l \in DOMAIN answer[s] : SymbolOf(Official(l)) = l[1]
        BY DEF SymbolOf, Official
      <4> QED
        BY <1>1, <4>1 DEF Named
    <3> QED
      BY <1>1, <3>1, <3>2, <3>3
  <2> QED
    BY <2>1, <2>2, <2>3
<1>2. ASSUME Tables, [Next]_vars
      PROVE  [\A s \in Syncs : (pc[s] = "writeHoldings" /\ pc'[s] = "askPositions") =>
               \A t \in Tokens :
                 (/\ answer[s] # None /\ local[s][t] # None /\ IsImport(local[s][t])
                  /\ holdings[t] # None /\ IsImport(holdings[t])
                  /\ SymbolOf(t) \notin {l[1] : l \in DOMAIN answer[s]})
                 => holdings'[t] = holdings[t]]_vars
  BY <1>1, <1>2
<1> QED
  BY <1>2, InitTables, TablesKept, PTL DEF Spec, ImportsSurvive
-----------------------------------------------------------------------------
(* What the tables of a sync come to *)

\* Nobody has written yet.
LEMMA InitExact == Init => Exact
BY Facts DEF Init, Exact, WritersAreLate, HoldingsExact, BooksExact

\* A table shows a sync's answer from its write on, and a sync runs once.
LEMMA LateStaysLate ==
  ASSUME Shapes, WritersAreLate, [Next]_vars
  PROVE  WritersAreLate'
<1> SUFFICES ASSUME NEW s \in Syncs
             PROVE  /\ writer'.holdings = s =>
                         pc'[s] \in {"askPositions", "writePositions", "margins"}
                         \/ (pc'[s] = "idle" /\ result'[s].margins # "none")
                    /\ writer'.positions = s =>
                         pc'[s] = "margins" \/ (pc'[s] = "idle" /\ result'[s].margins # "none")
                    /\ result'[s].positions = "ok" =>
                         pc'[s] = "margins" \/ (pc'[s] = "idle" /\ result'[s].margins # "none")
  BY DEF WritersAreLate
<1> DEFINE Late == pc[s] \in {"askPositions", "writePositions", "margins"}
                   \/ (pc[s] = "idle" /\ result[s].margins # "none")
           Done == pc[s] = "margins" \/ (pc[s] = "idle" /\ result[s].margins # "none")
<1>0. /\ pc \in [Syncs -> Places] /\ writer \in [holdings : Syncs \union {None}, positions : Syncs \union {None}]
      /\ result \in [Syncs -> [holdings : Reports, positions : Reports, margins : Reports]]
      /\ s # None
  BY Facts DEF Shapes
<1>1. /\ writer.holdings = s => Late
      /\ writer.positions = s => Done
      /\ result[s].positions = "ok" => Done
  BY DEF WritersAreLate
<1>2. ASSUME UNCHANGED <<pc, result>>, writer'.holdings \in {writer.holdings, None},
             writer'.positions \in {writer.positions, None}
      PROVE  /\ writer'.holdings = s => Late'
             /\ writer'.positions = s => Done'
             /\ result'[s].positions = "ok" => Done'
  BY <1>0, <1>1, <1>2
<1>3. ASSUME NEW u \in Syncs, SyncStep(u), u # s
      PROVE  /\ writer'.holdings = s => Late'
             /\ writer'.positions = s => Done'
             /\ result'[s].positions = "ok" => Done'
  <2>1. pc'[s] = pc[s] /\ result'[s] = result[s]
    BY <1>0, <1>3 DEF SyncStep, Start, SyncPurges, AskHoldings, ReadRows, WriteHoldings,
       HoldingsConflict, AskPositions, WritePositions, PositionsConflict, SyncMargins, Broken, Goto, Report
  <2>2. writer'.holdings \in {writer.holdings, u, None} /\ writer'.positions \in {writer.positions, u}
    BY <1>0, <1>3 DEF SyncStep, Start, SyncPurges, AskHoldings, ReadRows, WriteHoldings,
       HoldingsConflict, AskPositions, WritePositions, PositionsConflict, SyncMargins, Broken, history
  <2> QED
    BY <1>0, <1>1, <1>3, <2>1, <2>2
<1>4. ASSUME SyncStep(s)
      PROVE  /\ writer'.holdings = s => Late'
             /\ writer'.positions = s => Done'
             /\ result'[s].positions = "ok" => Done'
  <2>1. CASE Start(s) \/ SyncPurges(s) \/ AskHoldings(s) \/ ReadRows(s)
    BY <1>0, <1>1, <2>1 DEF Start, SyncPurges, AskHoldings, ReadRows, Goto, history
  <2>2. CASE WriteHoldings(s)
    BY <1>0, <1>1, <2>2 DEF WriteHoldings, Goto, Report
  <2>3. CASE HoldingsConflict(s) \/ AskPositions(s) \/ PositionsConflict(s)
    BY <1>0, <1>1, <2>3 DEF HoldingsConflict, AskPositions, PositionsConflict, Goto, Report, history
  <2>4. CASE WritePositions(s)
    BY <1>0, <1>1, <2>4 DEF WritePositions, Goto, Report
  <2>5. CASE SyncMargins(s)
    BY <1>0, <1>1, <2>5 DEF SyncMargins, Goto, Report, history
  <2>6. CASE Broken(s)
    <3>1. UNCHANGED writer
      BY <2>6 DEF Broken, history
    <3>2. CASE pc[s] \in {"purge", "askHoldings", "readRows", "writeHoldings"}
      BY <1>0, <1>1, <2>6, <3>1, <3>2 DEF Broken, Goto, Report
    <3>3. CASE pc[s] \in {"askPositions", "writePositions"}
      BY <1>0, <1>1, <2>6, <3>1, <3>3 DEF Broken, Goto, Report
    <3>4. CASE pc[s] = "margins"
      BY <1>0, <1>1, <2>6, <3>1, <3>4 DEF Broken, Goto, Report
    <3> QED
      BY <2>6, <3>2, <3>3, <3>4 DEF Broken
  <2> QED
    BY <1>4, <2>1, <2>2, <2>3, <2>4, <2>5, <2>6 DEF SyncStep
<1>5. CASE \A u \in Syncs : ~SyncStep(u)
  <2>1. UNCHANGED <<pc, result>> /\ writer'.holdings \in {writer.holdings, None}
        /\ writer'.positions \in {writer.positions, None}
    BY <1>0, <1>5 DEF Next, vars, sync, history, Buy, PlaceSell, Fill, Trade, NewDay, ImportHolding,
                      ImportPosition, UserPurges, Quoted
  <2> QED
    BY <1>2, <2>1
<1> QED
  BY <1>3, <1>4, <1>5

\* What the broker's rows come to, and what was answered, stays as it is.
LEMMA ExactFrame ==
  ASSUME NEW s \in Syncs, HoldingsExact(s), BooksExact(s), witness'[s] = witness[s],
         pc'[s] \in {"askPositions", "writePositions"} => pc'[s] = pc[s] /\ answer'[s] = answer[s],
         result'[s].positions = "ok" => result[s].positions = "ok",
         writer'.holdings = s => /\ writer.holdings = s
                                 /\ \A t \in Tokens : HeldAt(t)' = HeldAt(t),
         writer'.positions = s => /\ writer.positions = s
                                  /\ \A t \in Tokens : OpenAt(t)' = OpenAt(t),
         witness[s].first = day' =>
           day' = day /\ \A l \in AtBroker : broker'[l].qty = broker[l].qty /\ broker'[l].t1 = broker[l].t1
  PROVE  HoldingsExact(s)' /\ BooksExact(s)'
<1>1. \A l \in AtBroker : Official(l) \in Tokens
  BY TokenFacts, Facts
<1>2. HoldingsExact(s)'
  <2> SUFFICES ASSUME writer'.holdings = s
               PROVE  /\ \A t \in Tokens \ Theirs : HeldAt(t)' = 0
                      /\ (pc'[s] = "askPositions" /\ witness'[s].first = day') =>
                           \A l \in AtBroker : HeldAt(Official(l))' = broker'[l].qty + broker'[l].t1
                      /\ (pc'[s] = "writePositions" /\ witness'[s].first = witness'[s].second) =>
                           \A l \in AtBroker : HeldAt(Official(l))' + AnswerAt(s, l)' = witness'[s].owned[l]
    BY DEF HoldingsExact, Theirs, Official
  <2>1. \A t \in Tokens : HeldAt(t)' = HeldAt(t)
    OBVIOUS
  <2>2. \A t \in Tokens \ Theirs : HeldAt(t) = 0
    BY DEF HoldingsExact
  <2>3. ASSUME pc'[s] = "askPositions", witness'[s].first = day', NEW l \in AtBroker
        PROVE  HeldAt(Official(l))' = broker'[l].qty + broker'[l].t1
    BY <1>1, <2>1, <2>3 DEF HoldingsExact
  <2>4. ASSUME pc'[s] = "writePositions", witness'[s].first = witness'[s].second, NEW l \in AtBroker
        PROVE  HeldAt(Official(l))' + AnswerAt(s, l)' = witness'[s].owned[l]
    <3>1. AnswerAt(s, l)' = AnswerAt(s, l)
      BY <2>4 DEF AnswerAt
    <3>2. HeldAt(Official(l)) + AnswerAt(s, l) = witness[s].owned[l]
      BY <2>4 DEF HoldingsExact
    <3> QED
      BY <1>1, <2>1, <3>1, <3>2
  <2> QED
    BY <2>1, <2>2, <2>3, <2>4
<1>3. BooksExact(s)'
  <2> SUFFICES ASSUME writer'.holdings = s, writer'.positions = s, result'[s].positions = "ok"
               PROVE  /\ \A t \in Tokens \ Theirs : HeldAt(t)' = 0 /\ OpenAt(t)' = 0
                      /\ witness'[s].first = witness'[s].second =>
                           \A l \in AtBroker :
                             HeldAt(Official(l))' + OpenAt(Official(l))' = witness'[s].owned[l]
    BY DEF BooksExact, Theirs, Official
  <2>1. \A t \in Tokens : HeldAt(t)' = HeldAt(t) /\ OpenAt(t)' = OpenAt(t)
    OBVIOUS
  <2> QED
    BY <1>1, <2>1 DEF BooksExact
<1> QED
  BY <1>2, <1>3

\* A purge takes away no row of the broker's.
LEMMA PurgeKeepsHeld ==
  ASSUME Shapes, PurgeImported, NEW t \in Tokens
  PROVE  HeldAt(t)' = HeldAt(t) /\ OpenAt(t)' = OpenAt(t)
BY PurgeFrame DEF HeldAt, OpenAt

\* Trades, midnights, purges, files and prices.
LEMMA ExactAfterOthers ==
  ASSUME Tables, Today, Exact, NEW s \in Syncs,
         \/ \E l \in AtBroker : Buy(l) \/ PlaceSell(l) \/ Fill(l)
         \/ NewDay \/ UserPurges
         \/ \E l \in Listings, q \in 1..MaxQty : ImportHolding(l, q) \/ ImportPosition(l, q)
         \/ \E t \in Tokens : Quoted(t)
  PROVE  HoldingsExact(s)' /\ BooksExact(s)'
<1> USE DEF Exact
<1>0. /\ Shapes /\ s # None /\ witness[s].first <= day /\ day \in Nat /\ witness[s].first \in Nat
      /\ writer \in [holdings : Syncs \union {None}, positions : Syncs \union {None}]
  BY Facts DEF Tables, Shapes, Today, NothingAhead
<1>1. ASSUME NEW l \in AtBroker, Buy(l) \/ PlaceSell(l) \/ Fill(l)
      PROVE  HoldingsExact(s)' /\ BooksExact(s)'
  <2>1. UNCHANGED <<day, tables, sync, history>>
    BY <1>1 DEF Buy, PlaceSell, Fill, Trade
  <2>2. \A m \in AtBroker : broker'[m].qty = broker[m].qty /\ broker'[m].t1 = broker[m].t1
    BY <1>0, <1>1, TradeAccount
  <2>3. \A t \in Tokens : HeldAt(t)' = HeldAt(t) /\ OpenAt(t)' = OpenAt(t)
    BY <2>1 DEF HeldAt, OpenAt, tables
  <2> QED
    BY <2>1, <2>2, <2>3, ExactFrame DEF sync, history
<1>2. CASE NewDay
  <2>1. day' = day + 1 /\ UNCHANGED <<tables, sync, history>>
    BY <1>2 DEF NewDay
  <2>2. \A t \in Tokens : HeldAt(t)' = HeldAt(t) /\ OpenAt(t)' = OpenAt(t)
    BY <2>1 DEF HeldAt, OpenAt, tables
  <2>3. witness[s].first # day'
    BY <1>0, <2>1
  <2> QED
    BY <2>1, <2>2, <2>3, ExactFrame DEF sync, history
<1>3. CASE UserPurges
  <2>1. PurgeImported /\ UNCHANGED <<account, sync, history>>
    BY <1>3 DEF UserPurges
  <2>2. \A t \in Tokens : HeldAt(t)' = HeldAt(t) /\ OpenAt(t)' = OpenAt(t)
    BY <1>0, <2>1, PurgeKeepsHeld
  <2> QED
    BY <2>1, <2>2, ExactFrame DEF account, sync, history
<1>4. ASSUME NEW l \in Listings, NEW q \in 1..MaxQty, ImportHolding(l, q)
      PROVE  HoldingsExact(s)' /\ BooksExact(s)'
  <2>1. UNCHANGED <<account, positions, sync, witness>> /\ writer'.holdings = None
        /\ writer'.positions = writer.positions
    BY <1>0, <1>4 DEF ImportHolding
  <2>2. \A t \in Tokens : OpenAt(t)' = OpenAt(t)
    BY <2>1 DEF OpenAt
  <2> QED
    BY <1>0, <2>1, <2>2, ExactFrame DEF account, sync
<1>5. ASSUME NEW l \in Listings, NEW q \in 1..MaxQty, ImportPosition(l, q)
      PROVE  HoldingsExact(s)' /\ BooksExact(s)'
  <2>1. UNCHANGED <<account, holdings, sync, witness>> /\ writer'.positions = None
        /\ writer'.holdings = writer.holdings
    BY <1>0, <1>5 DEF ImportPosition
  <2>2. \A t \in Tokens : HeldAt(t)' = HeldAt(t)
    BY <2>1 DEF HeldAt
  <2> QED
    BY <1>0, <2>1, <2>2, ExactFrame DEF account, sync
<1>6. ASSUME NEW t \in Tokens, Quoted(t) PROVE HoldingsExact(s)' /\ BooksExact(s)'
  <2>1. UNCHANGED <<account, holdings, positions, sync, history>>
    BY <1>6 DEF Quoted
  <2>2. \A u \in Tokens : HeldAt(u)' = HeldAt(u) /\ OpenAt(u)' = OpenAt(u)
    BY <2>1 DEF HeldAt, OpenAt
  <2> QED
    BY <2>1, <2>2, ExactFrame DEF account, sync, history
<1> QED
  BY <1>1, <1>2, <1>3, <1>4, <1>5, <1>6

\* The steps of another sync.
LEMMA ExactAfterAnother ==
  ASSUME Tables, Today, Exact, NEW s \in Syncs, NEW u \in Syncs, u # s, SyncStep(u)
  PROVE  HoldingsExact(s)' /\ BooksExact(s)'
<1> USE DEF Exact
<1>0. /\ Shapes /\ s # None
      /\ writer \in [holdings : Syncs \union {None}, positions : Syncs \union {None}]
      /\ pc \in [Syncs -> Places] /\ DOMAIN answer = Syncs /\ DOMAIN witness = Syncs
      /\ result \in [Syncs -> [holdings : Reports, positions : Reports, margins : Reports]]
  BY Facts DEF Tables, Shapes
<1>1. /\ pc'[s] = pc[s] /\ answer'[s] = answer[s] /\ result'[s] = result[s] /\ witness'[s] = witness[s]
      /\ UNCHANGED <<broker, day>>
  BY <1>0 DEF SyncStep, Start, SyncPurges, AskHoldings, ReadRows, WriteHoldings, account, history,
     HoldingsConflict, AskPositions, WritePositions, PositionsConflict, SyncMargins, Broken, Goto, Report
<1>2. CASE Quiet(u)
  <2>1. UNCHANGED <<holdings, positions, writer>>
    BY <1>0, <1>2, QuietFrame DEF tables
  <2>2. \A t \in Tokens : HeldAt(t)' = HeldAt(t) /\ OpenAt(t)' = OpenAt(t)
    BY <2>1 DEF HeldAt, OpenAt
  <2> QED
    BY <1>1, <2>1, <2>2, ExactFrame
<1>3. CASE SyncPurges(u)
  <2>1. PurgeImported /\ UNCHANGED writer
    BY <1>3 DEF SyncPurges, history
  <2>2. \A t \in Tokens : HeldAt(t)' = HeldAt(t) /\ OpenAt(t)' = OpenAt(t)
    BY <1>0, <2>1, PurgeKeepsHeld
  <2> QED
    BY <1>1, <2>1, <2>2, ExactFrame
<1>4. CASE WriteHoldings(u)
  <2>1. writer'.holdings # s /\ writer'.positions = writer.positions /\ UNCHANGED positions
    BY <1>0, <1>4 DEF WriteHoldings
  <2>2. \A t \in Tokens : OpenAt(t)' = OpenAt(t)
    BY <2>1 DEF OpenAt
  <2> QED
    BY <1>1, <2>1, <2>2, ExactFrame
<1>5. CASE WritePositions(u)
  <2>1. writer'.positions # s /\ writer'.holdings = writer.holdings /\ UNCHANGED holdings
    BY <1>0, <1>5 DEF WritePositions
  <2>2. \A t \in Tokens : HeldAt(t)' = HeldAt(t)
    BY <2>1 DEF HeldAt
  <2> QED
    BY <1>1, <2>1, <2>2, ExactFrame
<1> QED
  BY <1>2, <1>3, <1>4, <1>5 DEF SyncStep, Quiet

\* Its own steps that write no table: the second answer is what was traded since the first.
LEMMA ExactAfterQuiet ==
  ASSUME Tables, Today, Exact, NEW s \in Syncs, Quiet(s) \/ SyncPurges(s)
  PROVE  HoldingsExact(s)' /\ BooksExact(s)'
<1> USE DEF Exact
<1>0. /\ Shapes /\ s # None /\ DOMAIN witness = Syncs
      /\ pc \in [Syncs -> Places] /\ DOMAIN answer = Syncs
      /\ result \in [Syncs -> [holdings : Reports, positions : Reports, margins : Reports]]
  BY Facts DEF Tables, Shapes
<1>1. UNCHANGED <<broker, day, writer>>
  BY <1>0, QuietFrame DEF SyncPurges, account, history
<1>2. \A t \in Tokens : HeldAt(t)' = HeldAt(t) /\ OpenAt(t)' = OpenAt(t)
  <2>1. CASE Quiet(s)
    BY <1>0, <2>1, QuietFrame DEF HeldAt, OpenAt, tables
  <2>2. CASE SyncPurges(s)
    BY <1>0, <2>2, PurgeKeepsHeld DEF SyncPurges
  <2> QED
    BY <2>1, <2>2
<1>3. CASE writer.holdings # s
  BY <1>1, <1>3 DEF HoldingsExact, BooksExact
<1>4. CASE writer.holdings = s /\ ~AskPositions(s)
  <2>1. pc[s] \in {"askPositions", "writePositions", "margins"}
        \/ (pc[s] = "idle" /\ result[s].margins # "none")
    BY <1>4 DEF WritersAreLate
  <2>2. PositionsConflict(s) \/ SyncMargins(s) \/ Broken(s)
    BY <1>4, <2>1 DEF Quiet, Start, SyncPurges, AskHoldings, ReadRows, HoldingsConflict
  <2>3. witness'[s] = witness[s]
    BY <2>2 DEF PositionsConflict, SyncMargins, Broken, history
  <2>4. pc'[s] \in {"margins", "idle"}
    BY <1>0, <2>1, <2>2 DEF PositionsConflict, SyncMargins, Broken, Goto
  <2>5. result'[s].positions = "ok" => result[s].positions = "ok"
    <3>1. CASE PositionsConflict(s)
      BY <1>0, <3>1 DEF PositionsConflict, Report
    <3>2. CASE SyncMargins(s)
      BY <1>0, <3>2 DEF SyncMargins, Report
    <3>3. CASE Broken(s)
      <4>1. pc[s] \notin {"purge", "askHoldings", "readRows", "writeHoldings"}
        BY <2>1
      <4>2. \E part \in {"positions", "margins"} : Report(s, part, "error")
        BY <3>3, <4>1 DEF Broken
      <4> QED
        BY <1>0, <4>2 DEF Report
    <3> QED
      BY <2>2, <3>1, <3>2, <3>3
  <2> QED
    BY <1>1, <1>2, <2>3, <2>4, <2>5, ExactFrame
<1>5. CASE writer.holdings = s /\ AskPositions(s)
  <2>1. /\ pc[s] = "askPositions" /\ pc'[s] = "writePositions"
        /\ answer'[s] = [l \in PositionsAnswer |-> [qty |-> broker[l].bought - broker[l].used]]
        /\ witness'[s].first = witness[s].first /\ witness'[s].second = day
        /\ witness'[s].owned = [l \in AtBroker |-> Owned(l)]
    BY <1>0, <1>5 DEF AskPositions, Goto, Shapes
  <2>2. writer.positions # s
    BY <2>1 DEF WritersAreLate
  <2>3. BooksExact(s)'
    BY <1>1, <2>2 DEF BooksExact
  <2>4. ASSUME witness'[s].first = witness'[s].second, NEW l \in AtBroker
        PROVE  HeldAt(Official(l))' + AnswerAt(s, l)' = witness'[s].owned[l]
    <3>1. HeldAt(Official(l))' = broker[l].qty + broker[l].t1
      BY <1>2, <1>5, <2>1, <2>4, TokenFacts, Facts DEF HoldingsExact
    <3>2. /\ broker[l].qty \in Nat /\ broker[l].t1 \in Nat /\ broker[l].bought \in Nat
          /\ broker[l].used \in Nat
      BY <1>0, AccountType, Facts
    <3>3. AnswerAt(s, l)' = broker[l].bought - broker[l].used
      <4>1. CASE l \in PositionsAnswer
        BY <2>1, <4>1 DEF AnswerAt
      <4>2. CASE l \notin PositionsAnswer
        <5>1. broker[l].bought = 0 /\ broker[l].used = 0
          BY <3>2, <4>2 DEF PositionsAnswer
        <5> QED
          BY <2>1, <4>2, <5>1 DEF AnswerAt
      <4> QED
        BY <4>1, <4>2
    <3>4. witness'[s].owned[l] = broker[l].qty + broker[l].t1 - broker[l].used + broker[l].bought
      BY <2>1 DEF Owned
    <3> QED
      BY <3>1, <3>2, <3>3, <3>4
  <2>5. HoldingsExact(s)'
    <3>1. \A t \in Tokens \ Theirs : HeldAt(t)' = 0
      BY <1>2, <1>5 DEF HoldingsExact
    <3> QED
      BY <2>1, <2>4, <3>1 DEF HoldingsExact, Theirs, Official
  <2> QED
    BY <2>3, <2>5
<1> QED
  BY <1>3, <1>4, <1>5

\* The write of the holdings, when the rows are still those that were read: every unit of the
\* answer under its listing's token, and none under any other.
LEMMA ExactAfterHoldings ==
  ASSUME Tables, Today, Exact, NEW s \in Syncs, WriteHoldings(s)
  PROVE  HoldingsExact(s)' /\ BooksExact(s)'
<1> USE DEF Exact
<1> DEFINE D == DOMAIN answer[s]
<1>0. /\ Shapes /\ s # None
      /\ writer \in [holdings : Syncs \union {None}, positions : Syncs \union {None}]
  BY Facts DEF Tables, Shapes
<1>1. /\ pc[s] = "writeHoldings" /\ D \subseteq AtBroker /\ D \subseteq Listings
      /\ \A l \in D : answer[s][l] \in BrokerRow
      /\ local[s] \in [Tokens -> HoldingRow \union {None}]
      /\ pc' = [pc EXCEPT ![s] = "askPositions"]
      /\ writer' = [writer EXCEPT !.holdings = IF holdings = local[s] THEN s ELSE None]
      /\ UNCHANGED <<broker, day, witness>>
  BY <1>0, WriteHoldingsFrame, Facts DEF account
<1>2. pc'[s] = "askPositions" /\ writer'.positions = writer.positions /\ writer.positions # s
  BY <1>0, <1>1 DEF Shapes, WritersAreLate
<1>3. BooksExact(s)'
  BY <1>2 DEF BooksExact
<1>4. PICK gone \in SUBSET Tokens :
    /\ \A t \in Named(D) : holdings'[t] = Upserted(answer[s][ListingOf(t)], holdings[t], witness[s].first)
    /\ \A t \in Tokens \ Named(D) :
         holdings'[t] = IF t \in gone THEN None
                        ELSE IF /\ local[s][t] # None /\ ~IsImport(local[s][t])
                                /\ local[s][t].qty + local[s][t].t1 > 0 /\ holdings[t] # None
                          THEN Wiped(holdings[t], s)
                        ELSE holdings[t]
  BY <1>0, WrittenHoldings
<1> HIDE DEF D
<1>5. ASSUME holdings = local[s], NEW t \in Tokens, t \notin Named(D)
      PROVE  HeldAt(t)' = 0
  <2>1. holdings[t] \in HoldingRow \union {None}
    BY <1>0 DEF Shapes
  <2>2. CASE holdings[t] = None \/ t \in gone
    BY <1>4, <1>5, <2>2 DEF HeldAt
  <2>3. CASE holdings[t] # None /\ t \notin gone /\ IsImport(holdings[t])
    BY <1>4, <1>5, <2>3 DEF HeldAt
  <2>4. CASE holdings[t] # None /\ t \notin gone /\ ~IsImport(holdings[t])
    <3>1. holdings[t].qty \in Nat /\ holdings[t].t1 \in Nat
      BY <2>1, <2>4, Facts DEF HoldingRow
    <3>2. CASE holdings[t].qty + holdings[t].t1 > 0
      <4>1. holdings'[t] = Wiped(holdings[t], s)
        BY <1>4, <1>5, <2>4, <3>2
      <4>2. Wiped(holdings[t], s).qty = 0 /\ Wiped(holdings[t], s).t1 = 0
        BY <2>1, <2>4 DEF Wiped, HoldingRow
      <4> QED
        BY <4>1, <4>2 DEF HeldAt
    <3>3. CASE ~(holdings[t].qty + holdings[t].t1 > 0)
      <4>1. holdings'[t] = holdings[t]
        BY <1>4, <1>5, <2>4, <3>3
      <4> QED
        BY <3>1, <3>3, <4>1 DEF HeldAt
    <3> QED
      BY <3>2, <3>3
  <2> QED
    BY <2>2, <2>3, <2>4
<1>6. HoldingsExact(s)'
  <2>1. writer'.holdings = s => holdings = local[s]
    BY <1>0, <1>1
  <2>2. ASSUME holdings = local[s], NEW t \in Tokens \ Theirs PROVE HeldAt(t)' = 0
    <3>1. t \notin Named(D)
      BY <1>1 DEF Named, Theirs
    <3> QED
      BY <1>5, <2>2, <3>1
  <2>3. ASSUME holdings = local[s], witness[s].first = day, NEW l \in AtBroker
        PROVE  HeldAt(Official(l))' = broker[l].qty + broker[l].t1
    <3>1. Official(l) \in Tokens /\ ListingOf(Official(l)) = l
      BY TokenFacts, Facts
    <3>2. CASE l \in D
      <4>1. Official(l) \in Named(D)
        BY <3>2 DEF Named
      <4>2. holdings'[Official(l)] = Upserted(answer[s][l], holdings[Official(l)], witness[s].first)
        BY <1>4, <3>1, <4>1
      <4>3. Agrees(answer[s][l], broker[l])
        BY <1>1, <2>3, <3>2 DEF Today, AnswerTells, D
      <4>4. /\ holdings'[Official(l)].source = "KITE"
            /\ holdings'[Official(l)].qty = broker[l].qty /\ holdings'[Official(l)].t1 = broker[l].t1
        BY <4>2, <4>3 DEF Upserted, Agrees
      <4>5. holdings'[Official(l)] # None
        <5>1. Upserted(answer[s][l], holdings[Official(l)], witness[s].first) \in HoldingRow
          BY <1>0, <1>1, <3>1, <3>2, WrittenRows DEF Shapes
        <5> QED
          BY <4>2, <5>1, Facts
      <4> QED
        BY <4>4, <4>5 DEF HeldAt, IsImport, Imported
    <3>3. CASE l \notin D
      <4>1. Official(l) \notin Named(D)
        BY <1>1, <3>1, <3>3, NamedTokens
      <4>2. broker[l].qty + broker[l].t1 = 0
        BY <1>1, <2>3, <3>3 DEF Today, AnswerTells, D
      <4> QED
        BY <1>5, <2>3, <3>1, <4>1, <4>2
    <3> QED
      BY <3>2, <3>3
  <2> QED
    BY <1>1, <1>2, <2>1, <2>2, <2>3 DEF HoldingsExact, Theirs, Official
<1> QED
  BY <1>3, <1>6

\* The write of the positions: what was traded, under its listing's token, and nothing else.
LEMMA ExactAfterPositions ==
  ASSUME Tables, Today, Exact, NEW s \in Syncs, WritePositions(s)
  PROVE  HoldingsExact(s)' /\ BooksExact(s)'
<1> USE DEF Exact
<1> DEFINE D == DOMAIN answer[s]
<1>0. /\ Shapes /\ s # None
      /\ writer \in [holdings : Syncs \union {None}, positions : Syncs \union {None}]
  BY Facts DEF Tables, Shapes
<1>1. /\ pc[s] = "writePositions" /\ D \subseteq AtBroker /\ D \subseteq Listings
      /\ \A t \in Named(D) : positions'[t] = [source |-> "KITE", qty |-> answer[s][ListingOf(t)].qty]
      /\ \A t \in Tokens \ Named(D) :
           positions'[t] = IF t \in Displaced(D) THEN None ELSE Closed(positions[t])
      /\ pc' = [pc EXCEPT ![s] = "margins"]
      /\ writer' = [writer EXCEPT !.positions = s]
      /\ UNCHANGED <<broker, day, holdings, witness>>
  BY <1>0, WritePositionsFrame, Facts DEF account
<1>2. pc'[s] = "margins" /\ writer'.holdings = writer.holdings
  BY <1>0, <1>1 DEF Shapes
<1> HIDE DEF D
<1>3. \A t \in Tokens : HeldAt(t)' = HeldAt(t)
  BY <1>1 DEF HeldAt
<1>4. HoldingsExact(s)'
  BY <1>2, <1>3 DEF HoldingsExact, Theirs, Official
<1>5. ASSUME NEW t \in Tokens, t \notin Named(D) PROVE OpenAt(t)' = 0
  <2>1. positions[t] \in PositionRow \union {None}
    BY <1>0 DEF Shapes
  <2>2. positions'[t] = None \/ positions'[t] = Closed(positions[t])
    BY <1>1, <1>5
  <2>3. CASE positions[t] = None \/ IsImport(positions[t])
    <3>1. positions'[t] = None \/ positions'[t] = positions[t]
      BY <2>1, <2>2, <2>3, ClosedRow
    <3> QED
      BY <2>3, <3>1 DEF OpenAt
  <2>4. CASE ~(positions[t] = None \/ IsImport(positions[t]))
    <3>1. Closed(positions[t]).qty = 0
      BY <2>1, <2>4, ClosedRow
    <3> QED
      BY <2>2, <3>1 DEF OpenAt
  <2> QED
    BY <2>3, <2>4
<1>6. ASSUME NEW l \in AtBroker PROVE OpenAt(Official(l))' = AnswerAt(s, l)
  <2>0. Official(l) \in Tokens /\ ListingOf(Official(l)) = l
    BY TokenFacts, Facts
  <2>1. CASE l \in D
    <3>1. Official(l) \in Named(D)
      BY <2>1 DEF Named
    <3>2. positions'[Official(l)] = [source |-> "KITE", qty |-> answer[s][l].qty]
      BY <1>1, <2>0, <3>1
    <3>3. answer[s][l].qty \in (-MaxQty)..MaxQty
      BY <1>0, <1>1, <2>1 DEF Shapes, Holds, D
    <3>4. positions'[Official(l)] \in PositionRow
      BY <3>2, <3>3 DEF PositionRow
    <3>5. positions'[Official(l)] # None
      BY <3>4, Facts
    <3> QED
      BY <2>1, <3>2, <3>5 DEF OpenAt, AnswerAt, IsImport, Imported, D
  <2>2. CASE l \notin D
    <3>1. Official(l) \notin Named(D)
      BY <1>1, <2>0, <2>2, NamedTokens
    <3> QED
      BY <1>5, <2>0, <2>2, <3>1 DEF AnswerAt, D
  <2> QED
    BY <2>1, <2>2
<1>7. BooksExact(s)'
  <2> SUFFICES ASSUME writer'.holdings = s
               PROVE  /\ \A t \in Tokens \ Theirs : HeldAt(t)' = 0 /\ OpenAt(t)' = 0
                      /\ witness'[s].first = witness'[s].second =>
                           \A l \in AtBroker :
                             HeldAt(Official(l))' + OpenAt(Official(l))' = witness'[s].owned[l]
    BY DEF BooksExact, Theirs, Official
  <2>1. writer.holdings = s
    BY <1>2
  <2>2. ASSUME NEW t \in Tokens \ Theirs PROVE HeldAt(t)' = 0 /\ OpenAt(t)' = 0
    <3>1. t \notin Named(D)
      BY <1>1 DEF Named, Theirs
    <3>2. HeldAt(t) = 0
      BY <2>1 DEF HoldingsExact
    <3> QED
      BY <1>3, <1>5, <3>1, <3>2
  <2>3. ASSUME witness[s].first = witness[s].second, NEW l \in AtBroker
        PROVE  HeldAt(Official(l))' + OpenAt(Official(l))' = witness[s].owned[l]
    <3>1. HeldAt(Official(l)) + AnswerAt(s, l) = witness[s].owned[l]
      BY <1>1, <2>1, <2>3 DEF HoldingsExact
    <3>2. HeldAt(Official(l))' = HeldAt(Official(l))
      BY <1>3, TokenFacts, Facts
    <3> QED
      BY <1>6, <3>1, <3>2
  <2> QED
    BY <1>1, <2>2, <2>3
<1> QED
  BY <1>4, <1>7

\* What the tables of a sync come to is kept.
LEMMA ExactIsKept == Tables /\ Today /\ Exact /\ [Next]_vars => Exact'
<1> SUFFICES ASSUME Tables, Today, Exact, [Next]_vars PROVE Exact'
  OBVIOUS
<1>1. WritersAreLate'
  BY LateStaysLate DEF Tables, Exact
<1>2. ASSUME NEW s \in Syncs PROVE HoldingsExact(s)' /\ BooksExact(s)'
  <2>1. CASE UNCHANGED vars
    BY <2>1 DEF vars, account, tables, sync, history, Exact, HoldingsExact, BooksExact, HeldAt, OpenAt,
                AnswerAt, Theirs, Official
  <2>2. CASE Next
    <3>1. ASSUME NEW u \in Syncs, SyncStep(u) PROVE HoldingsExact(s)' /\ BooksExact(s)'
      <4>1. CASE u # s
        BY <3>1, <4>1, ExactAfterAnother
      <4>2. CASE u = s
        BY <3>1, <4>2, ExactAfterQuiet, ExactAfterHoldings, ExactAfterPositions DEF SyncStep, Quiet
      <4> QED
        BY <4>1, <4>2
    <3>2. CASE ~\E u \in Syncs : SyncStep(u)
      BY <2>2, <3>2, ExactAfterOthers DEF Next
    <3> QED
      BY <3>1, <3>2
  <2> QED
    BY <2>1, <2>2
<1> QED
  BY <1>1, <1>2 DEF Exact

\* After a sync that reports ok, with both answers of one day and no other writer since, the
\* two tables come to what the account came to: no unit twice, none missing, nothing left of
\* what was sold.
THEOREM OkSyncAddsUp == Spec => []OkSyncIsExact
<1>1. ASSUME Tables, Exact PROVE OkSyncIsExact
  <2> SUFFICES ASSUME NEW s \in Syncs, Ok(s), writer.holdings = s, writer.positions = s,
                      witness[s].first = witness[s].second, NEW l \in AtBroker
               PROVE  Recorded(l[1]) = witness[s].owned[l]
    BY DEF OkSyncIsExact
  <2>1. result[s].positions = "ok"
    <3>1. result[s] \in [holdings : Reports, positions : Reports, margins : Reports]
      BY <1>1 DEF Tables, Shapes
    <3> QED
      BY <3>1 DEF Ok
  <2>2. /\ \A t \in Tokens \ Theirs : HeldAt(t) = 0 /\ OpenAt(t) = 0
        /\ HeldAt(Official(l)) + OpenAt(Official(l)) = witness[s].owned[l]
    BY <1>1, <2>1 DEF Exact, BooksExact
  <2> DEFINE own == {t \in Tokens : SymbolOf(t) = l[1]}
             f == [t \in own |-> HeldAt(t) + OpenAt(t)]
  <2>3. Recorded(l[1]) = SumFunctionOnSet(f, own)
    BY DEF Recorded, HeldAt, OpenAt
  <2>4. Official(l) \in own /\ f[Official(l)] = HeldAt(Official(l)) + OpenAt(Official(l))
    BY TokenFacts, Facts
  <2>5. ASSUME NEW t \in own \ {Official(l)} PROVE f[t] = 0
    <3>1. t \notin Theirs
      <4>1. ASSUME NEW m \in AtBroker, t = Official(m) PROVE FALSE
        <5>1. m[1] = l[1]
          BY <4>1, TokenFacts, Facts
        <5>2. m = l
          BY <5>1, SyncAssumption
        <5> QED
          BY <4>1, <5>2
      <4> QED
        BY <4>1 DEF Theirs
    <3> QED
      BY <2>2, <3>1
  <2>6. IsFiniteSet(own)
    <3>1. IsFiniteSet({"kite", "made"} \X ({l[1]} \X Exchanges))
      <4>1. IsFiniteSet({"kite"} \union {"made"}) /\ {"kite"} \union {"made"} = {"kite", "made"}
        BY FS_Singleton, FS_Union
      <4>2. IsFiniteSet({l[1]} \X Exchanges)
        BY SyncAssumption, FS_Product, FS_Singleton
      <4> QED
        BY <4>1, <4>2, FS_Product
    <3>2. own \subseteq {"kite", "made"} \X ({l[1]} \X Exchanges)
      BY DEF Tokens, Listings, SymbolOf
    <3> QED
      BY <3>1, <3>2, FS_Subset
  <2>7. f[Official(l)] \in Int
    BY <1>1, <2>2, <2>4 DEF Tables, Shapes
  <2> HIDE DEF f, own
  <2> QED
    BY <2>2, <2>3, <2>4, <2>5, <2>6, <2>7, SumOfOne
<1> QED
  BY <1>1, InitTables, TablesKept, InitToday, TodayIsKept, InitExact, ExactIsKept, PTL DEF Spec
=============================================================================
