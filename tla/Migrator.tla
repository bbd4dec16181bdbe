------------------------------ MODULE Migrator ------------------------------
(***************************************************************************)
(* DB.Migrate as replicas of several releases start, fail and restart at    *)
(* once, one action per statement.  Migration n is the n-th file; a release *)
(* is named by the newest migration it ships and ships all before it.       *)
(* Bodies are opaque: what counts is which were committed, how often and in *)
(* which order.                                                              *)
(***************************************************************************)
EXTENDS Integers, Sequences, FiniteSets

CONSTANTS
    Replicas,    \* processes of the service
    Releases,    \* what they may run, by newest migration
    NoOne,       \* the lock is free
    MaxRestarts  \* bound: how often each of them is started again

ASSUME ReleaseAssumption ==
    /\ Releases \subseteq Nat \ {0}
    /\ NoOne \notin Replicas
    /\ MaxRestarts \in Nat

VARIABLES
    lock,     \* holder of the advisory lock
    table,    \* schema_migrations exists
    recorded, \* versions in schema_migrations
    schema,   \* bodies whose effect is committed, in order
    release,  \* what each replica runs
    pc,       \* each replica: next statement
    todo,     \* each replica: migrations it found missing, not yet applied
    failing,  \* each replica: Migrate is returning an error
    restarts

databaseVars == <<lock, table, recorded, schema>>
vars == <<databaseVars, release, pc, todo, failing, restarts>>

ShippedFromZero(r) == 0 .. release[r]

\* loadMigrations: the versions of the embedded files.
Shipped(r) == 1 .. release[r]

Goto(r, l) == pc' = [pc EXCEPT ![r] = l]

\* The loop over the migrations goes on to the next one that is missing.
Continue(r, missing) == Goto(r, IF missing = {} THEN "unlock" ELSE "body")

\* The session that holds the advisory lock.
Session(r) == pc[r] \in {"create", "read", "body", "record", "commit", "unlock"}

-----------------------------------------------------------------------------
LockNothing(r) ==
    /\ pc[r] = "lock"
    /\ lock' = r
    /\ Goto(r, "create")
    /\ UNCHANGED <<table, recorded, schema, release, todo, failing, restarts>>

\* pg_advisory_lock: waits while another session has it.
Lock(r) ==
    /\ pc[r] = "lock" /\ lock = NoOne
    /\ lock' = r
    /\ Goto(r, "create")
    /\ UNCHANGED <<table, recorded, schema, release, todo, failing, restarts>>

\* CREATE TABLE IF NOT EXISTS schema_migrations
CreateTable(r) ==
    /\ pc[r] = "create"
    /\ table' = TRUE
    /\ Goto(r, "read")
    /\ UNCHANGED <<lock, recorded, schema, release, todo, failing, restarts>>

\* SELECT version FROM schema_migrations: what is missing is decided here,
\* once, for the whole loop.
ReadApplied(r) ==
    /\ pc[r] = "read" /\ table
    /\ LET missing == Shipped(r) \ recorded IN
         /\ todo' = [todo EXCEPT ![r] = missing]
         /\ Continue(r, missing)
    /\ UNCHANGED <<databaseVars, release, failing, restarts>>

\* loadMigrations sorts by version.
IsNext(r, m) == m \in todo[r] /\ \A n \in todo[r] : m <= n

BodyOutsideTx(r) ==
    /\ pc[r] = "body"
    /\ \E m \in todo[r] : IsNext(r, m) /\ schema' = Append(schema, m)
    /\ Goto(r, "record")
    /\ UNCHANGED <<lock, table, recorded, release, todo, failing, restarts>>

\* Begin and tx.Exec(body): nothing is visible before the commit.
ApplyBody(r) ==
    /\ pc[r] = "body"
    /\ Goto(r, "record")
    /\ UNCHANGED <<databaseVars, release, todo, failing, restarts>>

\* INSERT INTO schema_migrations, under its primary key.
RecordVersion(r) ==
    /\ pc[r] = "record"
    /\ \E m \in todo[r] : IsNext(r, m) /\ m \notin recorded
    /\ Goto(r, "commit")
    /\ UNCHANGED <<databaseVars, release, todo, failing, restarts>>

\* tx.Commit publishes the body and its row together.
CommitMigration(r) ==
    /\ pc[r] = "commit"
    /\ \E m \in todo[r] :
         /\ IsNext(r, m)
         /\ schema' = Append(schema, m)
         /\ recorded' = recorded \cup {m}
         /\ todo' = [todo EXCEPT ![r] = @ \ {m}]
         /\ Continue(r, todo[r] \ {m})
    /\ UNCHANGED <<lock, table, release, failing, restarts>>

\* A statement is answered with an error, or is not sent because a signal has
\* cancelled the context.  The transaction is rolled back and the lock is
\* released under a context that is not cancelled.
Fail(r) ==
    /\ pc[r] \in {"create", "read", "body", "record"}
    /\ failing' = [failing EXCEPT ![r] = TRUE]
    /\ Goto(r, "unlock")
    /\ UNCHANGED <<databaseVars, release, todo, restarts>>

\* NewContainer goes on when Migrate returns no error.
Outcome(r) == IF failing[r] THEN "failed" ELSE "serving"

UnlockSwallowing(r) ==
    /\ pc[r] = "unlock"
    /\ lock' = NoOne
    /\ Goto(r, "serving")
    /\ UNCHANGED <<table, recorded, schema, release, todo, failing, restarts>>

UnlockOnError(r) ==
    /\ pc[r] = "unlock"
    /\ lock' = IF failing[r] THEN NoOne ELSE lock
    /\ Goto(r, Outcome(r))
    /\ UNCHANGED <<table, recorded, schema, release, todo, failing, restarts>>

\* The deferred pg_advisory_unlock, whatever Migrate returns.
Unlock(r) ==
    /\ pc[r] = "unlock"
    /\ lock' = NoOne
    /\ Goto(r, Outcome(r))
    /\ UNCHANGED <<table, recorded, schema, release, todo, failing, restarts>>

\* The session ends while Migrate waits or runs: the process is killed, the
\* connection breaks, a commit fails.  PostgreSQL undoes the open transaction
\* and frees the lock.  Right after a commit it is a commit that landed and was
\* reported as an error.
LoseSession(r) ==
    /\ pc[r] = "lock" \/ Session(r)
    /\ lock' = IF lock = r THEN NoOne ELSE lock
    /\ Goto(r, "failed")
    /\ UNCHANGED <<table, recorded, schema, release, todo, failing, restarts>>

\* A replica is started again, or replaced by one of another release, an older
\* one too.
Restart(r, n) ==
    /\ pc[r] \in {"failed", "serving"} /\ restarts[r] < MaxRestarts
    /\ restarts' = [restarts EXCEPT ![r] = @ + 1]
    /\ release' = [release EXCEPT ![r] = n]
    /\ todo' = [todo EXCEPT ![r] = {}]
    /\ failing' = [failing EXCEPT ![r] = FALSE]
    /\ Goto(r, "lock")
    /\ UNCHANGED databaseVars

Migrate(r) ==
    \/ Lock(r) \/ CreateTable(r) \/ ReadApplied(r) \/ ApplyBody(r) \/ RecordVersion(r)
    \/ CommitMigration(r) \/ Fail(r) \/ Unlock(r)

-----------------------------------------------------------------------------
Init ==
    /\ lock = NoOne /\ table = FALSE /\ recorded = {} /\ schema = << >>
    /\ release \in [Replicas -> Releases]
    /\ pc = [r \in Replicas |-> "lock"]
    /\ todo = [r \in Replicas |-> {}]
    /\ failing = [r \in Replicas |-> FALSE]
    /\ restarts = [r \in Replicas |-> 0]

Next == \E r \in Replicas :
           Migrate(r) \/ LoseSession(r) \/ \E n \in Releases : Restart(r, n)

Spec == Init /\ [][Next]_vars

\* A replica that is alive goes on, and PostgreSQL grants a free lock.
FairSpec == Spec /\ \A r \in Replicas : WF_vars(Migrate(r))

-----------------------------------------------------------------------------
(* Properties.                                                               *)

\* Every variable has its type.
TypeOK ==
    /\ lock \in Replicas \cup {NoOne}
    /\ table \in BOOLEAN
    /\ recorded \subseteq Nat \ {0}
    /\ schema \in Seq(Nat \ {0})
    /\ release \in [Replicas -> Releases]
    /\ pc \in [Replicas -> {"lock", "create", "read", "body", "record", "commit",
                            "unlock", "serving", "failed"}]
    /\ todo \in [Replicas -> SUBSET (Nat \ {0})]
    /\ failing \in [Replicas -> BOOLEAN]
    /\ restarts \in [Replicas -> 0 .. MaxRestarts]

\* Whatever fails and whoever starts when: every migration has run once, in
\* version order and without a gap, and the table says exactly which ("a failure
\* leaves the database at the last good version", migrate.go:32).
LastGoodVersion ==
    /\ \A i \in DOMAIN schema : schema[i] = i
    /\ recorded = DOMAIN schema

\* "Starting several replicas at once cannot race" (migrate.go:31): what a
\* replica found missing is still missing when it gets to it, so that no body
\* and no row is written against a stale reading.
NoRace ==
    \A r \in Replicas : pc[r] \in {"body", "record", "commit"} => todo[r] = Shipped(r) \ recorded

\* A replica serves requests only on a schema with every migration it ships,
\* and stays so while other releases come and go.
ServesMigrated ==
    \A r \in Replicas : pc[r] = "serving" => Shipped(r) \subseteq recorded

\* Every start ends: the replicas that wait for the lock get it, whatever
\* became of its holder.
EveryStartEnds ==
    \A r \in Replicas : pc[r] = "lock" ~> pc[r] \in {"serving", "failed"}
=============================================================================
