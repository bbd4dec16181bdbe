--------------------------- MODULE MigratorProofs ---------------------------
(* Proofs about Migrator, for every set of replicas and of releases.         *)
EXTENDS Migrator, TLAPS

\* The advisory lock is held by the one session that is past it.
LockInv == \A r \in Replicas : Session(r) <=> lock = r

\* A replica is in the loop only with something left to apply.
LoopInv == \A r \in Replicas : pc[r] \in {"body", "record", "commit"} => todo[r] # {}

\* Migrate returns without an error only when nothing it ships is missing.
ReturnInv == \A r \in Replicas :
    pc[r] = "unlock" /\ ~failing[r] => Shipped(r) \subseteq recorded

IInv == /\ TypeOK /\ LockInv /\ LoopInv /\ ReturnInv
        /\ LastGoodVersion /\ NoRace /\ ServesMigrated

-----------------------------------------------------------------------------
\* With the table at a good version, the next migration is the one after it.
LEMMA NextVersion ==
    ASSUME TypeOK, LastGoodVersion, NEW r \in Replicas, todo[r] = Shipped(r) \ recorded,
           NEW m \in todo[r], IsNext(r, m)
    PROVE  m = Len(schema) + 1
<1>1. recorded = 1 .. Len(schema) /\ Len(schema) \in Nat
  BY DEF LastGoodVersion, TypeOK
<1>2. release[r] \in Nat /\ todo[r] = (1 .. release[r]) \ (1 .. Len(schema))
  BY <1>1, ReleaseAssumption DEF TypeOK, Shipped
<1>3. m \in Nat /\ m > Len(schema) /\ m <= release[r]
  BY <1>1, <1>2
<1>4. Len(schema) + 1 \in todo[r]
  BY <1>1, <1>2, <1>3
<1> QED BY <1>1, <1>3, <1>4 DEF IsNext

LEMMA InitInv == Init => IInv
<1> SUFFICES ASSUME Init PROVE IInv
  OBVIOUS
<1> USE ReleaseAssumption DEF Init
<1>1. TypeOK
  <2>1. schema \in Seq(Nat \ {0}) /\ recorded \subseteq Nat \ {0}
    OBVIOUS
  <2>2. restarts \in [Replicas -> 0 .. MaxRestarts]
    OBVIOUS
  <2>3. todo \in [Replicas -> SUBSET (Nat \ {0})] /\ failing \in [Replicas -> BOOLEAN]
    OBVIOUS
  <2> QED BY <2>1, <2>2, <2>3 DEF TypeOK
<1>2. LastGoodVersion
  BY DEF LastGoodVersion
<1> QED BY <1>1, <1>2 DEF IInv, LockInv, LoopInv, ReturnInv, NoRace, ServesMigrated, Session

-----------------------------------------------------------------------------
\* The steps that only the lock and the control of one replica depend on.
LEMMA ControlStep ==
    ASSUME IInv, NEW r \in Replicas,
           Lock(r) \/ CreateTable(r) \/ ApplyBody(r) \/ RecordVersion(r) \/ Fail(r)
             \/ Unlock(r) \/ LoseSession(r)
    PROVE  IInv'
<1> USE ReleaseAssumption DEF IInv, Goto, databaseVars
<1> USE DEF Lock, CreateTable, ApplyBody, RecordVersion, Fail, Unlock, Outcome, LoseSession
<1>1. TypeOK'
  BY DEF TypeOK
<1>2. LockInv'
  BY DEF TypeOK, LockInv, Session
<1>3. LoopInv'
  BY DEF TypeOK, LoopInv
<1>4. UNCHANGED <<recorded, schema, release>>
  OBVIOUS
<1>5. LastGoodVersion'
  BY <1>4 DEF LastGoodVersion
<1>6. ReturnInv' /\ ServesMigrated'
  BY DEF TypeOK, ReturnInv, ServesMigrated, Shipped
<1>7. NoRace'
  BY DEF TypeOK, NoRace, Shipped
<1> QED BY <1>1, <1>2, <1>3, <1>5, <1>6, <1>7

LEMMA RestartStep ==
    ASSUME IInv, NEW r \in Replicas, NEW n \in Releases, Restart(r, n)
    PROVE  IInv'
<1> USE ReleaseAssumption DEF IInv, Goto, databaseVars, Restart
<1>1. TypeOK'
  BY DEF TypeOK
<1>2. LockInv' /\ LoopInv'
  BY DEF TypeOK, LockInv, LoopInv, Session
<1>3. LastGoodVersion'
  BY DEF LastGoodVersion
<1>4. ReturnInv' /\ ServesMigrated' /\ NoRace'
  BY DEF TypeOK, ReturnInv, ServesMigrated, NoRace, Shipped
<1> QED BY <1>1, <1>2, <1>3, <1>4

LEMMA ReadStep ==
    ASSUME IInv, NEW r \in Replicas, ReadApplied(r)
    PROVE  IInv'
<1> USE ReleaseAssumption DEF IInv, Goto, Continue, databaseVars, ReadApplied
<1>1. Shipped(r) \subseteq Nat \ {0}
  <2>1. release[r] \in Nat
    BY DEF TypeOK
  <2>2. \A n \in 1 .. release[r] : n \in Nat /\ n # 0
    BY <2>1
  <2> QED BY <2>2 DEF Shipped
<1>2. TypeOK'
  BY <1>1 DEF TypeOK
<1>3. LockInv' /\ LoopInv'
  BY DEF TypeOK, LockInv, LoopInv, Session
<1>4. LastGoodVersion'
  BY DEF LastGoodVersion
<1>5. ReturnInv' /\ ServesMigrated' /\ NoRace'
  BY DEF TypeOK, ReturnInv, ServesMigrated, NoRace, Shipped
<1> QED BY <1>2, <1>3, <1>4, <1>5

LEMMA CommitStep ==
    ASSUME IInv, NEW r \in Replicas, CommitMigration(r)
    PROVE  IInv'
<1> USE ReleaseAssumption DEF IInv, Goto, Continue
<1>1. PICK m \in todo[r] :
        /\ IsNext(r, m)
        /\ schema' = Append(schema, m)
        /\ recorded' = recorded \cup {m}
        /\ todo' = [todo EXCEPT ![r] = @ \ {m}]
        /\ pc' = [pc EXCEPT ![r] = IF todo[r] \ {m} = {} THEN "unlock" ELSE "body"]
  BY DEF CommitMigration
<1>2. pc[r] = "commit" /\ UNCHANGED <<lock, table, release, failing, restarts>>
  BY DEF CommitMigration
<1>3. todo[r] = Shipped(r) \ recorded
  BY <1>2 DEF NoRace
<1>4. m = Len(schema) + 1
  BY <1>1, <1>3, NextVersion
<1>5. m \in Nat \ {0}
  BY <1>1 DEF TypeOK
<1>6. TypeOK'
  BY <1>1, <1>2, <1>5 DEF TypeOK
<1>7. LockInv' /\ LoopInv'
  BY <1>1, <1>2 DEF TypeOK, LockInv, LoopInv, Session
<1>8. LastGoodVersion'
  <2>1. schema \in Seq(Nat \ {0}) /\ DOMAIN schema = 1 .. Len(schema)
    BY DEF TypeOK
  <2>2. DOMAIN schema' = 1 .. Len(schema) + 1
    BY <1>1, <1>5, <2>1
  <2>3. \A i \in DOMAIN schema' : schema'[i] = i
    BY <1>1, <1>4, <1>5, <2>1, <2>2 DEF LastGoodVersion
  <2>4. recorded' = DOMAIN schema'
    BY <1>1, <1>4, <2>1, <2>2 DEF LastGoodVersion
  <2> QED BY <2>3, <2>4 DEF LastGoodVersion
\* Only the holder of the lock is in the loop, so nobody else's reading ages.
<1>9. ASSUME NEW q \in Replicas, q # r
      PROVE  ~Session(q)
  BY <1>2, <1>9 DEF LockInv, Session
<1>10. NoRace'
  BY <1>1, <1>2, <1>3, <1>9 DEF TypeOK, NoRace, Shipped, Session
<1>11. ReturnInv'
  BY <1>1, <1>2, <1>3, <1>9 DEF TypeOK, ReturnInv, Shipped, Session
<1>12. ServesMigrated'
  BY <1>1, <1>2 DEF TypeOK, ServesMigrated, Shipped
<1> QED BY <1>6, <1>7, <1>8, <1>10, <1>11, <1>12

LEMMA StutterStep == IInv /\ UNCHANGED vars => IInv'
BY DEF IInv, vars, databaseVars, TypeOK, LockInv, LoopInv, ReturnInv, LastGoodVersion,
       NoRace, ServesMigrated, Session, Shipped

-----------------------------------------------------------------------------
\* The inductive invariant: who has the lock is alone in the loop, so what it
\* read of schema_migrations is still true when it commits (DB.Migrate).
THEOREM Invariance == Spec => []IInv
<1>1. IInv /\ [Next]_vars => IInv'
  <2> SUFFICES ASSUME IInv, [Next]_vars PROVE IInv'
    OBVIOUS
  <2>1. CASE UNCHANGED vars
    BY <2>1, StutterStep
  <2>2. ASSUME NEW r \in Replicas,
               Migrate(r) \/ LoseSession(r) \/ \E n \in Releases : Restart(r, n)
        PROVE  IInv'
    BY <2>2, ControlStep, ReadStep, CommitStep, RestartStep DEF Migrate
  <2> QED BY <2>1, <2>2 DEF Next
<1> QED BY InitInv, <1>1, PTL DEF Spec

\* The variables of DB.Migrate keep their types.
THEOREM TypeCorrect == Spec => []TypeOK
<1>1. IInv => TypeOK
  BY DEF IInv
<1> QED BY Invariance, <1>1, PTL

\* Migrate leaves the database at the last good version: every migration once,
\* in order, and on record, for any number of replicas, releases and failures.
THEOREM AlwaysLastGoodVersion == Spec => []LastGoodVersion
<1>1. IInv => LastGoodVersion
  BY DEF IInv
<1> QED BY Invariance, <1>1, PTL

\* Replicas that start together do not race in Migrate.
THEOREM ReplicasDoNotRace == Spec => []NoRace
<1>1. IInv => NoRace
  BY DEF IInv
<1> QED BY Invariance, <1>1, PTL

\* NewContainer gets past Migrate only on a schema the release can work with.
THEOREM AlwaysServesMigrated == Spec => []ServesMigrated
<1>1. IInv => ServesMigrated
  BY DEF IInv
<1> QED BY Invariance, <1>1, PTL
=============================================================================
