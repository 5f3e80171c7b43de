------------------------------- MODULE Startup -------------------------------
(***************************************************************************)
(* How an instance of the backend comes up: the entry point (or run.py     *)
(* --local) runs db/run_migrations.py and, if that ends well, flask_app.py,*)
(* which serves after src/execution/safety_certification.py agrees.        *)
(* Several instances may start on one database, be killed anywhere, and be *)
(* started again, from the same release or another one.                    *)
(*                                                                         *)
(* A release brings the migration files 1 to some number; a file's content *)
(* is what its checksum tells apart.  A migration and its row in           *)
(* schema_migrations are one transaction, so a kill undoes both.           *)
(***************************************************************************)
EXTENDS Integers

CONSTANTS Instances,
          Releases,    \* sequences of contents
          Broken,      \* contents whose statements fail
          MaxFile,     \* the longest release
          MaxKills,    \* bound: kills, and installations of another release
          None

Files == 1..MaxFile
Contents == UNION {{rel[f] : f \in DOMAIN rel} : rel \in Releases}

\* What is asked of the constants.
StartupAssumption ==
  /\ MaxFile \in Nat /\ MaxKills \in Nat /\ None \notin Contents
  /\ \A rel \in Releases : \E n \in Files : DOMAIN rel = 1..n

VARIABLES
  recorded,   \* schema_migrations: the checksum of each file, None for no row
  effects,    \* how often each file's statements are in the database
  baselined,  \* the files recorded by --baseline
  pc,         \* per instance: "down", "read", "apply", "check", "serving"
  release,    \* per instance: what is installed
  live,       \* per instance: is DRY_RUN_MODE false?
  command,    \* per instance: "serve", or "baseline" for the operator's own run
  pending,    \* per instance: the unapplied files it has found and not done yet
  feed,       \* the newest quote is at most 120 s old
  kills

vars == <<recorded, effects, baselined, pc, release, live, command, pending, feed, kills>>
processVars == <<release, live, command, feed, kills>>

Init ==
  /\ recorded = [f \in Files |-> None] /\ effects = [f \in Files |-> 0] /\ baselined = {}
  /\ pc = [i \in Instances |-> "down"] /\ pending = [i \in Instances |-> {}]
  /\ release \in [Instances -> Releases] /\ live \in [Instances -> BOOLEAN]
  /\ command = [i \in Instances |-> "serve"]
  /\ feed = FALSE /\ kills = 0
-----------------------------------------------------------------------------
(* Outside *)

Goto(i, where) == pc' = [pc EXCEPT ![i] = where]
Stop(i) == Goto(i, "down") /\ pending' = [pending EXCEPT ![i] = {}]

\* The container is started, and after a failure started again; an operator's own
\* run of the migrations is started once.
Boot(i) ==
  /\ pc[i] = "down" /\ Goto(i, "read")
  /\ UNCHANGED <<recorded, effects, baselined, pending, processVars>>

\* A kill, or a lost connection while starting; what is started next may be
\* another release, another mode or the baseline run.
Kill(i) ==
  /\ pc[i] # "down" /\ kills < MaxKills /\ kills' = kills + 1 /\ Stop(i)
  /\ release' \in {[release EXCEPT ![i] = rel] : rel \in Releases}
  /\ live' \in {[live EXCEPT ![i] = b] : b \in BOOLEAN}
  /\ command' \in {[command EXCEPT ![i] = c] : c \in {"serve", "baseline"}}
  /\ UNCHANGED <<recorded, effects, baselined, feed>>

\* Quotes are polled by an instance that serves, and age when none does.
Poll(i) ==
  /\ pc[i] = "serving" /\ ~feed /\ feed' = TRUE
  /\ UNCHANGED <<recorded, effects, baselined, pc, release, live, command, pending, kills>>

QuotesAge ==
  /\ feed /\ feed' = FALSE
  /\ UNCHANGED <<recorded, effects, baselined, pc, release, live, command, pending, kills>>
-----------------------------------------------------------------------------
(* run_migrations *)

Brought(i) == DOMAIN release[i]
\* Mutant: a file that is applied is not skipped.
UnappliedAll(i) == Brought(i)
Unapplied(i) == {f \in Brought(i) : recorded[f] = None}

\* Mutant: checksums are kept and never compared.
TamperedUnseen(i) == {}
\* Applied files whose content is not the recorded one.
Tampered(i) == {f \in Brought(i) : recorded[f] \notin {None, release[i][f]}}

\* Before anything is executed, every applied file is compared.
Read(i) ==
  /\ pc[i] = "read"
  /\ IF Tampered(i) # {} THEN Stop(i)
     ELSE /\ pending' = [pending EXCEPT ![i] = Unapplied(i)]
          /\ Goto(i, "apply")
  /\ UNCHANGED <<recorded, effects, baselined, processVars>>

\* Mutant: the row is committed on its own, before the statements.
CommittedApart(i, f) ==
  /\ recorded' = [recorded EXCEPT ![f] = release[i][f]]
  /\ effects' \in {effects, [effects EXCEPT ![f] = @ + 1]}

\* The statements and the row.
Committed(i, f) ==
  /\ recorded' = [recorded EXCEPT ![f] = release[i][f]]
  /\ effects' = IF command[i] = "baseline" THEN effects ELSE [effects EXCEPT ![f] = @ + 1]

Fails(i, f) == recorded[f] # None \/ (command[i] = "serve" /\ release[i][f] \in Broken)

\* Mutant: a failure is rolled back and the next file tried.
FailureSkips(i, f) == pending' = [pending EXCEPT ![i] = @ \ {f}] /\ UNCHANGED pc
\* A failure ends the run, and with it the start.
Failure(i, f) == Stop(i)

\* One file, the lowest that is left: its statements fail, or its row is there since
\* (another instance was faster: the primary key refuses a second one), or both are
\* committed.
Apply(i) ==
  /\ pc[i] = "apply"
  /\ \E f \in pending[i] :
       /\ \A g \in pending[i] : f <= g
       /\ IF Fails(i, f)
          THEN Failure(i, f) /\ UNCHANGED <<recorded, effects, baselined>>
          ELSE /\ Committed(i, f) /\ UNCHANGED pc
               /\ baselined' = IF command[i] = "baseline" THEN baselined \union {f} ELSE baselined
               /\ pending' = [pending EXCEPT ![i] = @ \ {f}]
  /\ UNCHANGED processVars

\* The runner ends well: the server follows, or it was the operator's own run.
Applied(i) ==
  /\ pc[i] = "apply" /\ pending[i] = {}
  /\ Goto(i, IF command[i] = "serve" THEN "check" ELSE "down")
  /\ command' = [command EXCEPT ![i] = "serve"]
  /\ UNCHANGED <<recorded, effects, baselined, pending, release, live, feed, kills>>
-----------------------------------------------------------------------------
(* verify_startup_safety *)

\* check_schema_integrity: a database that cannot be read passes in dry-run mode.
SchemaChecked(i, reachable) ==
  IF reachable THEN Unapplied(i) = {} /\ Tampered(i) = {} ELSE ~live[i]

\* Live mode needs the confirmation and real keys, the schema and the quotes;
\* dry-run mode reports and goes on.
Certified(i, confirmed, reachable) ==
  live[i] => confirmed /\ SchemaChecked(i, reachable) /\ reachable /\ feed

Check(i) ==
  /\ pc[i] = "check"
  /\ \E confirmed, reachable \in BOOLEAN :
       Goto(i, IF Certified(i, confirmed, reachable) THEN "serving" ELSE "down")
  /\ UNCHANGED <<recorded, effects, baselined, pending, processVars>>

\* What an instance does by itself until it serves.
Start(i) == Boot(i) \/ Read(i) \/ Apply(i) \/ Applied(i) \/ Check(i)

Next ==
  \/ QuotesAge
  \/ \E i \in Instances : Start(i) \/ Kill(i) \/ Poll(i)

\* Docker starts a container again (restart: unless-stopped), and a start goes on.
Fairness ==
  \A i \in Instances : WF_vars(Start(i))

Spec == Init /\ [][Next]_vars /\ Fairness
-----------------------------------------------------------------------------
TypeOK ==
  /\ recorded \in [Files -> Contents \union {None}]
  /\ effects \in [Files -> Nat] /\ baselined \subseteq Files
  /\ pc \in [Instances -> {"down", "read", "apply", "check", "serving"}]
  /\ release \in [Instances -> Releases] /\ live \in [Instances -> BOOLEAN]
  /\ command \in [Instances -> {"serve", "baseline"}]
  /\ pending \in [Instances -> SUBSET Files] /\ feed \in BOOLEAN /\ kills \in 0..MaxKills

\* Wherever instances are killed and however their starts overlap, a migration is
\* in the database exactly when its row is, and once.
EffectIffRecorded ==
  \A f \in Files :
    effects[f] = IF recorded[f] = None \/ f \in baselined THEN 0 ELSE 1

\* No migration is in before one with a lower number.
AppliedInOrder ==
  \A f \in Files : recorded[f] # None => \A g \in 1..f : recorded[g] # None

\* An instance serves only on a schema with every migration of its release, in the
\* very text its release has ("the app refuses to start on a half-migrated
\* database"): whatever other releases do to the database before or meanwhile.
ServesItsSchema ==
  \A i \in Instances :
    pc[i] = "serving" => \A f \in Brought(i) : recorded[f] = release[i][f]

\* The schema is what the rows say, in order, and what a serving instance was made for.
SchemaIsSound == EffectIffRecorded /\ AppliedInOrder /\ ServesItsSchema

\* A release the database has nothing against.
Fits(i) == \A f \in Brought(i) : recorded[f] = release[i][f] \/
             (recorded[f] = None /\ release[i][f] \notin Broken)

\* In dry-run mode every instance of a release that fits is up in the end, although
\* starts that collide fail.  (A live instance may never come up again: it needs a
\* fresh quote, and quotes are polled by instances that are up.)
DryRunComesUp ==
  \A i \in Instances : <>[](~live[i] /\ Fits(i) => pc[i] = "serving")
=============================================================================
