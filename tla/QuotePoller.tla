----------------------------- MODULE QuotePoller -----------------------------
(***************************************************************************)
(* The broker's session and the quote poller: kite_auth.py and             *)
(* kite_quote_poller.py of src/ingestion.                                  *)
(*                                                                         *)
(* A sign-in exchanges a request token for an access token and stores it   *)
(* in the one row of broker_sessions.  Two kinds of callers poll quotes:   *)
(* the dashboard through poll_kite_quotes_if_stale, under a lock and only  *)
(* when a row is due, and the buttons that sync or purge, which call       *)
(* poll_kite_quotes without the lock.  A poll reads the token, asks the    *)
(* broker for all quotes at once and writes live_prices row by row.        *)
(***************************************************************************)
EXTENDS Integers, FiniteSets

CONSTANTS Dashboards,   \* callers of poll_kite_quotes_if_stale
          Buttons,      \* callers of poll_kite_quotes
          Symbols,      \* what is held
          None,
          MaxLogins,    \* bound: sign-ins
          MaxQuotes,    \* bound: answers of the broker
          MaxPrice      \* bound: changes of a price

Callers == Dashboards \union Buttons
Tokens == 1..MaxLogins
Missing == 0 - 1

\* What is asked of the constants.
PollerAssumption ==
  /\ Dashboards \intersect Buttons = {} /\ None \notin Callers
  /\ MaxLogins \in Nat /\ MaxQuotes \in Nat /\ MaxPrice \in Nat \ {0}

VARIABLES
  alive,     \* external: the access tokens the broker accepts
  market,    \* external: the price of each symbol
  issued,    \* sign-ins so far; the last token
  login,     \* the token exchanged and not yet stored, 0 for none
  session,   \* broker_sessions: token (0: no row), is_valid, expired
  lock,      \* _refresh_lock: None or its holder
  pc,        \* per caller: "idle", "lock", "token", "ask", "invalidate", "write"
  token,     \* per caller: the token of its client
  quotes,    \* per caller: the answer, a price or Missing for each symbol
  asked,     \* per caller: which answer of the broker that is
  todo,      \* per caller: the symbols not yet written
  answers,   \* answers of the broker so far
  live,      \* live_prices: price (0: no row), is_stale, aged
  written    \* history, per symbol: the answer written last, by whom and how

broker == <<alive, market, issued>>
calls == <<pc, token, quotes, asked, todo>>
vars == <<broker, login, session, lock, calls, answers, live, written>>

Init ==
  /\ alive = {} /\ market = [s \in Symbols |-> 1] /\ issued = 0
  /\ login = 0 /\ session = [token |-> 0, valid |-> FALSE, expired |-> FALSE]
  /\ lock = None
  /\ pc = [c \in Callers |-> "idle"] /\ token = [c \in Callers |-> 0]
  /\ quotes = [c \in Callers |-> [s \in Symbols |-> Missing]]
  /\ asked = [c \in Callers |-> 0] /\ todo = [c \in Callers |-> {}] /\ answers = 0
  /\ live \in [Symbols -> {[price |-> p, stale |-> FALSE, aged |-> p # 0] : p \in {0, 1}}]
  /\ written = [s \in Symbols |-> [answer |-> 0, by |-> None, how |-> "never"]]
-----------------------------------------------------------------------------
(* The broker, the clock and the sign-in *)

\* A new session ends the ones before it.
Exchange ==
  /\ issued < MaxLogins /\ login = 0
  /\ issued' = issued + 1 /\ login' = issued + 1 /\ alive' = {issued + 1}
  /\ UNCHANGED <<market, session, lock, calls, answers, live, written>>

\* exchange_token's upsert; or the request ends before it.
StoreToken ==
  /\ login # 0 /\ login' = 0
  /\ session' \in {session, [token |-> login, valid |-> TRUE, expired |-> FALSE]}
  /\ UNCHANGED <<broker, lock, calls, answers, live, written>>

\* The broker ends all sessions at six; expires_at is that hour.
Morning ==
  /\ alive # {} /\ alive' = {}
  /\ session' = [session EXCEPT !.expired = TRUE]
  /\ UNCHANGED <<market, issued, login, lock, calls, answers, live, written>>

PriceMoves(s) ==
  /\ market[s] < MaxPrice /\ market' = [market EXCEPT ![s] = @ + 1]
  /\ UNCHANGED <<alive, issued, login, session, lock, calls, answers, live, written>>

\* The polling interval passes.
Age ==
  /\ \E s \in Symbols : live[s].price # 0 /\ ~live[s].aged
  /\ live' = [s \in Symbols |-> [live[s] EXCEPT !.aged = TRUE]]
  /\ UNCHANGED <<broker, login, session, lock, calls, answers, written>>
-----------------------------------------------------------------------------
(* Callers *)

\* get_stored_token: 0 when a login is required.
StoredToken == IF session.valid /\ ~session.expired THEN session.token ELSE 0

Goes(c, where) == pc' = [pc EXCEPT ![c] = where]
\* The return, or the exception, that ends a call leaves the lock.
Returns(c) ==
  /\ Goes(c, "idle")
  /\ lock' = IF lock = c THEN None ELSE lock
  /\ quotes' = [quotes EXCEPT ![c] = [s \in Symbols |-> Missing]]
  /\ todo' = [todo EXCEPT ![c] = {}] /\ token' = [token EXCEPT ![c] = 0]
  /\ asked' = [asked EXCEPT ![c] = 0]

\* poll_kite_quotes_if_stale, while the market is open; no login ends it at once.
StartDashboard(c) ==
  /\ c \in Dashboards /\ pc[c] = "idle" /\ StoredToken # 0
  /\ Goes(c, "lock")
  /\ UNCHANGED <<broker, login, session, lock, token, quotes, asked, todo, answers, live, written>>

\* Mutant: the lock lets everyone in.
LockIgnored(c) == TRUE
LockFree(c) == lock = None

\* A row that is not there, marked stale or older than the interval.
Due == \E s \in Symbols : live[s].price = 0 \/ live[s].stale \/ live[s].aged

TakeLock(c) ==
  /\ pc[c] = "lock" /\ LockFree(c) /\ Due
  /\ lock' = c /\ Goes(c, "token")
  /\ UNCHANGED <<broker, login, session, token, quotes, asked, todo, answers, live, written>>
AllFresh(c) ==
  /\ pc[c] = "lock" /\ LockFree(c) /\ ~Due
  /\ Goes(c, "idle")
  /\ UNCHANGED <<broker, login, session, lock, token, quotes, asked, todo, answers, live, written>>

StartButton(c) ==
  /\ c \in Buttons /\ pc[c] = "idle" /\ Goes(c, "token")
  /\ UNCHANGED <<broker, login, session, lock, token, quotes, asked, todo, answers, live, written>>

\* get_authenticated_kite: no token raises.
Authenticate(c) ==
  /\ pc[c] = "token" /\ StoredToken # 0
  /\ token' = [token EXCEPT ![c] = StoredToken] /\ Goes(c, "ask")
  /\ UNCHANGED <<broker, login, session, lock, quotes, asked, todo, answers, live, written>>
LoginRequired(c) ==
  /\ pc[c] = "token" /\ StoredToken = 0 /\ Returns(c)
  /\ UNCHANGED <<broker, login, session, answers, live, written>>

\* kite.quote, or the holdings in its place where the plan has no quotes: some
\* symbols may be missing, all of them when the holdings fail too.
Quote(c) ==
  /\ pc[c] = "ask" /\ token[c] \in alive /\ answers < MaxQuotes
  /\ answers' = answers + 1 /\ asked' = [asked EXCEPT ![c] = answers + 1]
  /\ \E S \in SUBSET Symbols :
       quotes' = [quotes EXCEPT ![c] = [s \in Symbols |-> IF s \in S THEN market[s] ELSE Missing]]
  /\ todo' = [todo EXCEPT ![c] = Symbols] /\ Goes(c, "write")
  /\ UNCHANGED <<broker, login, session, lock, token, live, written>>

\* Mutant: a network error, too, is taken for a rejection.
RejectedOrUnreachable(c) == TRUE
\* TokenException.
Rejected(c) == token[c] \notin alive

TokenRejected(c) ==
  /\ pc[c] = "ask" /\ Rejected(c) /\ Goes(c, "invalidate")
  /\ UNCHANGED <<broker, login, session, lock, token, quotes, asked, todo, answers, live, written>>
NetworkError(c) ==
  /\ pc[c] = "ask" /\ Returns(c)
  /\ UNCHANGED <<broker, login, session, answers, live, written>>

\* Mutant: the early return goes round the lock.
InvalidateKeepsLock(c) ==
  /\ pc[c] = "invalidate" /\ session' = [session EXCEPT !.valid = FALSE]
  /\ Goes(c, "idle")
  /\ UNCHANGED <<broker, login, lock, token, quotes, asked, todo, answers, live, written>>

\* invalidate_token has no look at which token the row holds by now.
Invalidate(c) ==
  /\ pc[c] = "invalidate" /\ session' = [session EXCEPT !.valid = FALSE]
  /\ Returns(c)
  /\ UNCHANGED <<broker, login, answers, live, written>>
-----------------------------------------------------------------------------
(* The rows *)

\* Mutant: the update leaves the mark.
UpdatedStaysMarked(s, p) ==
  IF live[s].price = p THEN live[s] ELSE [price |-> p, stale |-> live[s].stale, aged |-> FALSE]

\* The upsert: nothing at all when the price (and the volume) is the stored one.
Updated(s, p) ==
  IF live[s].price = p THEN live[s] ELSE [price |-> p, stale |-> FALSE, aged |-> FALSE]

Write(c, s, row, how) ==
  /\ pc[c] = "write" /\ s \in todo[c]
  /\ live' = [live EXCEPT ![s] = row]
  /\ written' = [written EXCEPT ![s] = [answer |-> asked[c], by |-> c, how |-> how]]
  /\ todo' = [todo EXCEPT ![c] = @ \ {s}]
  /\ UNCHANGED <<broker, login, session, lock, pc, token, quotes, asked, answers>>

\* The statement on a table that has the columns it names.  No migration creates
\* live_prices.tradingsymbol, so on the deployed schema it raises for every symbol
\* with a quote and nothing catches that: the poll is over, which is PollEnds.
WriteQuote(c, s) ==
  /\ quotes[c][s] # Missing
  /\ Write(c, s, Updated(s, quotes[c][s]), IF live[s].price = quotes[c][s] THEN "same" ELSE "quoted")

\* The symbols without a quote come last.
MarkMissing(c, s) ==
  /\ \A r \in todo[c] : quotes[c][r] = Missing
  /\ Write(c, s, [live[s] EXCEPT !.stale = (live[s].price # 0)], "missing")

\* The poll ends; or a statement fails and the rest is not written.  A failure may come
\* before any row, so what an instance on the deployed schema does is among the behaviours.
PollEnds(c) ==
  /\ pc[c] = "write" /\ Returns(c)
  /\ UNCHANGED <<broker, login, session, answers, live, written>>

Step(c) ==
  \/ TakeLock(c) \/ AllFresh(c) \/ Authenticate(c) \/ LoginRequired(c)
  \/ Quote(c) \/ TokenRejected(c) \/ NetworkError(c) \/ Invalidate(c)
  \/ (\E s \in Symbols : WriteQuote(c, s) \/ MarkMissing(c, s)) \/ PollEnds(c)

Next ==
  \/ Exchange \/ StoreToken \/ Morning \/ Age
  \/ \E s \in Symbols : PriceMoves(s)
  \/ \E c \in Callers : StartDashboard(c) \/ StartButton(c) \/ Step(c)

Spec == Init /\ [][Next]_vars
-----------------------------------------------------------------------------
TypeOK ==
  /\ alive \subseteq Tokens /\ market \in [Symbols -> 1..MaxPrice]
  /\ issued \in 0..MaxLogins /\ login \in 0..MaxLogins
  /\ session \in [token : 0..MaxLogins, valid : BOOLEAN, expired : BOOLEAN]
  /\ lock \in Callers \union {None}
  /\ pc \in [Callers -> {"idle", "lock", "token", "ask", "invalidate", "write"}]
  /\ token \in [Callers -> 0..MaxLogins] /\ asked \in [Callers -> 0..MaxQuotes]
  /\ quotes \in [Callers -> [Symbols -> {Missing} \union 1..MaxPrice]]
  /\ todo \in [Callers -> SUBSET Symbols] /\ answers \in 0..MaxQuotes
  /\ live \in [Symbols -> [price : 0..MaxPrice, stale : BOOLEAN, aged : BOOLEAN]]

\* The dashboards' polls do not overlap, so no answer of theirs overwrites a later one.
\* Nothing is said where one of the two polls is a button's: it goes round the lock, and
\* an older answer does replace a newer quote there.
NewerQuoteStaysUnderLock ==
  [][\A s \in Symbols : \/ written'[s].answer >= written[s].answer
                        \/ written'[s].by \in Buttons \/ written[s].by \in Buttons]_vars

\* A row marked stale was missing from the last poll that reached it, or had been
\* and was then quoted at the very price it shows.
StaleIsExplained ==
  \A s \in Symbols : live[s].stale => written[s].how \in {"missing", "same"}

\* A stored session that the broker accepts is ended by one thing only: the refusal of a
\* token older than the stored one.  No failure of the network, and no caller that uses
\* the stored token, ends it.  The late refusal does: invalidate_token marks whatever
\* token the row holds by then, and the user has to sign in again.
GoodSessionEndsByOlderRefusal ==
  [][(session.valid /\ session.token \in alive /\ ~session'.valid)
       => \E c \in Callers : /\ pc[c] = "invalidate" /\ pc'[c] = "idle"
                             /\ token[c] < session.token]_vars

\* Whoever holds the lock is at work: no way out of a poll keeps it.
LockHolderWorks == lock # None => pc[lock] \in {"token", "ask", "invalidate", "write"}

\* A poll leaves nothing behind: no lock after its end, no stale mark without a reason.
NothingIsLeftBehind == LockHolderWorks /\ StaleIsExplained

\* What is newer is undone only where the code does not look: a quote by a poll round
\* the lock, a good session by the refusal of an older token.
UndoneOnlyUnguarded == NewerQuoteStaysUnderLock /\ GoodSessionEndsByOlderRefusal
=============================================================================
