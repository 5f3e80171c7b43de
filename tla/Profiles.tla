------------------------------ MODULE Profiles ------------------------------
(***************************************************************************)
(* The allocation profiles that drift detection and the rebalancer read:   *)
(* create_allocation_profile and activate_allocation_profile of            *)
(* src/db/repository.py over migration 007.                                *)
(*                                                                         *)
(* An activation is a transaction of three statements at READ COMMITTED,   *)
(* and several may overlap: a statement sees what was committed when it    *)
(* began, waits for the row it wants to change while another transaction   *)
(* holds it, and then looks again whether the row still qualifies.  The    *)
(* partial unique index idx_one_active_profile is checked at the UPDATE,   *)
(* after waiting for every open transaction that changes an active row.    *)
(*                                                                         *)
(* Stored weights are in thousandths of a percent, the scale of the        *)
(* column; the weights a request asks for in ten-thousandths.              *)
(***************************************************************************)
EXTENDS Integers, FiniteSets, Functions

CONSTANTS Ids,       \* the profiles there may be
          Seeded,    \* the one migration 007 inserts, active
          Requests,  \* the activation requests
          Asked      \* what may be asked for: functions from stocks to weights

\* What is asked of the constants.
ProfilesAssumption ==
  /\ Seeded \in Ids
  /\ \A ws \in Asked : IsFiniteSet(DOMAIN ws) /\ \A s \in DOMAIN ws : ws[s] \in Nat

VARIABLES
  row,      \* allocation_profiles as committed: "absent", "inactive", "active"
  targets,  \* target_allocations per profile: [stocks, cash]
  at,       \* per request: the statement it is in
  target,   \* per request: the profile to activate
  victims,  \* per request: rows its second statement found and has not visited yet
  wrote     \* per request: the rows it holds, with their uncommitted state

vars == <<row, targets, at, target, victims, wrote>>

Full == 100000
NoTargets == [stocks |-> << >>, cash |-> 0]

Init ==
  /\ row = [p \in Ids |-> IF p = Seeded THEN "active" ELSE "absent"]
  /\ targets = [p \in Ids |-> IF p = Seeded THEN [NoTargets EXCEPT !.cash = 10000] ELSE NoTargets]
  /\ at = [r \in Requests |-> "idle"]
  /\ target = [r \in Requests |-> Seeded]
  /\ victims = [r \in Requests |-> {}]
  /\ wrote = [r \in Requests |-> << >>]
-----------------------------------------------------------------------------
(* create_allocation_profile *)

Total(ws) == SumFunction(ws)

\* CreateProfileDTO refuses more than 100.001 percent.
Accepted(ws) == Total(ws) <= 10 * Full + 10

\* round(w, 3): the nearest of the two, a tie either way (w is a binary fraction).
Rounded(w) == {n \in {w \div 10, w \div 10 + 1} : 2 * w - 20 * n \in -10..10}

\* Mutant: what the stocks leave is given to nobody.
CashForgotten(ws) == {0}
\* What the stocks leave is cash.
Cash(ws) == IF Total(ws) > 10 * Full THEN {0} ELSE Rounded(10 * Full - Total(ws))

\* One transaction: an inactive profile and its rows.  A name that is taken or an
\* unknown instrument changes nothing.
Create(p, ws) ==
  /\ row[p] = "absent" /\ Accepted(ws)
  /\ row' = [row EXCEPT ![p] = "inactive"]
  /\ \E cash \in Cash(ws), stocks \in [DOMAIN ws -> UNION {Rounded(ws[s]) : s \in DOMAIN ws}] :
       /\ \A s \in DOMAIN ws : stocks[s] \in Rounded(ws[s])
       /\ targets' = [targets EXCEPT ![p] = [stocks |-> stocks, cash |-> cash]]
  /\ UNCHANGED <<at, target, victims, wrote>>
-----------------------------------------------------------------------------
(* activate_allocation_profile *)

Holders(p, r) == {o \in Requests \ {r} : p \in DOMAIN wrote[o]}

\* A row as the transaction itself sees it.
Seen(r, p) == IF p \in DOMAIN wrote[r] THEN wrote[r][p] ELSE row[p]
Hold(r, p, state) ==
  wrote' = [wrote EXCEPT ![r] =
              [q \in DOMAIN wrote[r] \union {p} |-> IF q = p THEN state ELSE wrote[r][q]]]

\* A request for a profile there is; any other is answered with 404.
Ask(r, p) ==
  /\ at[r] = "idle" /\ row[p] # "absent"
  /\ at' = [at EXCEPT ![r] = "select"] /\ target' = [target EXCEPT ![r] = p]
  /\ UNCHANGED <<row, targets, victims, wrote>>

\* SELECT ... FOR UPDATE
Select(r) ==
  /\ at[r] = "select" /\ Holders(target[r], r) = {}
  /\ Hold(r, target[r], row[target[r]])
  /\ at' = [at EXCEPT ![r] = "deactivate"]
  /\ UNCHANGED <<row, targets, target, victims>>

\* Mutant: every other profile is set inactive, active or not.
FoundAll(r) == {p \in Ids \ {target[r]} : row[p] # "absent"}
\* WHERE user_id = :uid AND is_active AND id <> :pid
Found(r) == {p \in Ids \ {target[r]} : row[p] = "active"}

\* UPDATE ... SET is_active = FALSE: the rows it sees ...
Deactivate(r) ==
  /\ at[r] = "deactivate"
  /\ victims' = [victims EXCEPT ![r] = Found(r)] /\ at' = [at EXCEPT ![r] = "visit"]
  /\ UNCHANGED <<row, targets, target, wrote>>

\* ... one by one, each looked at again once it is free.
Visit(r, p) ==
  /\ at[r] = "visit" /\ p \in victims[r] /\ Holders(p, r) = {}
  /\ victims' = [victims EXCEPT ![r] = @ \ {p}]
  /\ IF p \in Found(r) THEN Hold(r, p, "inactive") ELSE UNCHANGED wrote
  /\ UNCHANGED <<row, targets, at, target>>

\* The open transactions whose changes of active rows the index has to wait for.
Undecided(r) ==
  {o \in Requests \ {r} : \E q \in DOMAIN wrote[o] : wrote[o][q] # row[q]}

\* Mutant: no index.
ConflictsUnseen(r) == {}
\* idx_one_active_profile: the other active rows.
Conflicts(r) == {q \in Ids \ {target[r]} : Seen(r, q) = "active"}

Ended(r) ==
  /\ at' = [at EXCEPT ![r] = "done"] /\ target' = [target EXCEPT ![r] = Seeded]
  /\ victims' = [victims EXCEPT ![r] = {}] /\ wrote' = [wrote EXCEPT ![r] = << >>]

\* UPDATE ... SET is_active = TRUE, which leaves the index alone if it is already.
Activate(r) ==
  /\ at[r] = "visit" /\ victims[r] = {}
  /\ row[target[r]] = "active" \/ Undecided(r) = {}
  /\ Conflicts(r) = {} \/ row[target[r]] = "active"
  /\ Hold(r, target[r], "active")
  /\ at' = [at EXCEPT ![r] = "commit"]
  /\ UNCHANGED <<row, targets, target, victims>>

\* The unique violation, or the connection's end, at any statement.
RollBack(r) == at[r] \notin {"idle", "done"} /\ Ended(r) /\ UNCHANGED <<row, targets>>

Commit(r) ==
  /\ at[r] = "commit" /\ Ended(r)
  /\ row' = [p \in Ids |-> Seen(r, p)] /\ UNCHANGED targets

Next ==
  \/ \E p \in Ids, ws \in Asked : Create(p, ws)
  \/ \E r \in Requests :
       \/ Select(r) \/ Deactivate(r) \/ Activate(r) \/ Commit(r) \/ RollBack(r)
       \/ \E p \in Ids : Ask(r, p) \/ Visit(r, p)

Spec == Init /\ [][Next]_vars
-----------------------------------------------------------------------------
TypeOK ==
  /\ row \in [Ids -> {"absent", "inactive", "active"}]
  /\ at \in [Requests -> {"idle", "select", "deactivate", "visit", "commit", "done"}]
  /\ target \in [Requests -> Ids] /\ victims \in [Requests -> SUBSET Ids]
  /\ \A r \in Requests : DOMAIN wrote[r] \subseteq Ids

\* However activations overlap or break off, drift detection and the rebalancer
\* read the targets of exactly one profile.
OneActive == \E p \in Ids : {q \in Ids : row[q] = "active"} = {p}

\* Whom a transaction waits for.
WaitsFor(r) ==
  CASE at[r] = "select" -> Holders(target[r], r)
    [] at[r] = "visit" /\ victims[r] # {} -> UNION {Holders(p, r) : p \in victims[r]}
    [] at[r] = "visit" /\ victims[r] = {} /\ row[target[r]] # "active" -> Undecided(r)
    [] OTHER -> {}

\* Activations never wait for each other in a circle.
NoDeadlock ==
  ~\E circle \in SUBSET Requests :
     circle # {} /\ \A r \in circle : WaitsFor(r) \intersect circle # {}

\* The rows of a saved profile add up to the whole, but for the rounding of each.
SavedIsWhole ==
  \A p \in Ids \ {Seeded} :
    row[p] # "absent" =>
      LET n == Cardinality(DOMAIN targets[p].stocks)
          sum == Total(targets[p].stocks) + targets[p].cash
      IN  2 * (sum - Full) \in -(n + 1)..(n + 3)

\* Requests for profiles end, and what they save adds up.
ProfilesAreSound == NoDeadlock /\ SavedIsWhole
=============================================================================
