--------------------------- MODULE MigrationProofs ---------------------------
(***************************************************************************)
(* Proofs about Migration for any number of migrators, other writers,      *)
(* errors and deaths.                                                      *)
(***************************************************************************)
EXTENDS Migration, TLAPS

-----------------------------------------------------------------------------
(* The inductive invariant, in named parts *)

\* Who is between the backup and the release of the lock, or rolls back, has
\* the lock, and nobody else has it.
LockInv == \A m \in Migrators : step[m] \in Locked <=> lock = m

\* A plan of files that were migrated before is of a workspace that was backed
\* up before.
PlansAreBacked ==
  \A m \in Migrators :
    step[m] # "idle" /\ plan[m].state["config"] # 1 => \E b \in backups : b["config"] = 1

\* How far a rollback has come.  The file saved without the lock may have been
\* saved since it was copied back or removed.
SessionRestored(m) ==
  LET now == state["session"]
      old == plan[m].state["session"]
  IN  now = old \/ (now \in Nat /\ old \in Nat /\ now > old)

RollbackInv ==
  \A m \in Migrators : step[m] = "restoring" =>
    /\ \A f \in Files : ~Kept(m, f) =>
         IF f = "session" THEN state[f] \in Nat ELSE state[f] = Absent
    /\ at[m] > 1 => state["config"] = plan[m].state["config"]
    /\ at[m] > 2 => state["counter"] = plan[m].state["counter"]
    /\ at[m] > 3 => SessionRestored(m)

JobsAreHoused == jobs # {} => dirs.jobs

Inv ==
  /\ TypeOK
  /\ LockInv
  /\ OriginalIsKept /\ PlansAreBacked
  /\ RollbackInv
  /\ JobsAreHoused

-----------------------------------------------------------------------------
(* The initial states and the steps *)

LEMMA OrderFiles ==
  /\ Len(Order) = 3
  /\ Order[1] = "config" /\ Order[2] = "counter" /\ Order[3] = "session"
BY DEF Order

LEMMA InvInit == Init => Inv
<1> SUFFICES ASSUME Init PROVE Inv
  OBVIOUS
<1> PICK old \in Beginnings :
      /\ state = [f \in Files |-> IF f = "counter" THEN old.counter ELSE 1]
      /\ dirs = [jobs |-> old.jobs, indexes |-> old.indexes]
  BY DEF Init
<1>1. old.jobs \in BOOLEAN /\ old.indexes \in BOOLEAN /\ old.counter \in Nat
  BY MigrationAssumption
<1>2. state \in Contents /\ dirs \in Directories
  BY <1>1 DEF Contents, Directories
<1>3. NoPlan \in Plans
  BY DEF NoPlan, Plans, Contents, Directories, Absent
<1>4. state["config"] = 1
  BY DEF Files
<1>5. TypeOK
  BY <1>2, <1>3, OrderFiles DEF Init, TypeOK, Steps, Locked
<1>6. LockInv /\ OriginalIsKept /\ PlansAreBacked /\ RollbackInv /\ JobsAreHoused
  BY <1>4, MigrationAssumption
  DEF Init, LockInv, OriginalIsKept, PlansAreBacked, RollbackInv, JobsAreHoused, Locked
<1> QED BY <1>5, <1>6 DEF Inv

\* Types, action by action
LEMMA PlanTypes ==
  ASSUME TypeOK PROVE Current \in Plans /\ NoPlan \in Plans
BY DEF TypeOK, Current, Plans, NoPlan, Contents, Directories, Absent

LEMMA TypesStep == TypeOK /\ [Next]_vars => TypeOK'
<1> SUFFICES ASSUME TypeOK, [Next]_vars PROVE TypeOK'
  OBVIOUS
<1>0. Current \in Plans /\ NoPlan \in Plans
  BY PlanTypes
<1> USE OrderFiles DEF TypeOK
<1>1. ASSUME NEW m \in Migrators, Plan(m) PROVE TypeOK'
  BY <1>0, <1>1 DEF Plan, Steps
<1>2. ASSUME NEW m \in Migrators, Refuse(m) PROVE TypeOK'
  BY <1>0, <1>2 DEF Refuse, Done, Steps
<1>3. ASSUME NEW m \in Migrators, Backup(m) PROVE TypeOK'
  BY <1>3 DEF Backup, Steps, Locked, Plans
<1>4. ASSUME NEW m \in Migrators, CreateMissing(m) PROVE TypeOK'
  BY <1>4 DEF CreateMissing, Steps, Locked, Contents, Directories
<1>5. ASSUME NEW m \in Migrators, WriteConfig(m) PROVE TypeOK'
  BY <1>5 DEF WriteConfig, Steps, Contents, Target
<1>6. ASSUME NEW m \in Migrators, Rebuild(m) PROVE TypeOK'
  BY <1>0, <1>6 DEF Rebuild, Done, Steps
<1>7. ASSUME NEW m \in Migrators, CannotRebuild(m) PROVE TypeOK'
  BY <1>7 DEF CannotRebuild, Steps
<1>8. ASSUME NEW m \in Migrators, Fail(m) PROVE TypeOK'
  BY <1>8 DEF Fail, Released, Steps
<1>9. ASSUME NEW m \in Migrators, Restore(m) PROVE TypeOK'
  BY <1>9 DEF Restore, Kept, Steps, Locked, Contents, Absent
<1>10. ASSUME NEW m \in Migrators, CopyBack(m) PROVE TypeOK'
  <2>1. plan[m].state \in Contents
    BY DEF Plans
  <2>2. Order[at[m]] \in Files
    BY <1>10 DEF CopyBack, Files
  <2>3. state' \in Contents
    BY <1>10, <2>1, <2>2 DEF CopyBack, Contents
  <2> QED BY <1>10, <2>3 DEF CopyBack
<1>11. ASSUME NEW m \in Migrators, RemoveNewPaths(m) PROVE TypeOK'
  <2>1. dirs' \in Directories
    BY <1>11 DEF RemoveNewPaths, Undone, Directories, Plans
  <2> QED BY <1>0, <1>11, <2>1 DEF RemoveNewPaths, Done, Steps
<1>12. ASSUME NEW m \in Migrators, Stop(m) PROVE TypeOK'
  <2>1. state' \in Contents
    BY <1>12 DEF Stop, Contents
  <2> QED BY <1>0, <1>12, <2>1 DEF Stop, Done, Released, Steps
<1>13. CASE AllocateJob
  <2>1. state["counter"] \in Nat /\ state["counter"] + 1 \in Nat
    BY <1>13 DEF AllocateJob
  <2>2. state' \in Contents
    BY <1>13, <2>1 DEF AllocateJob, Contents
  <2>3. jobs' \subseteq Nat
    BY <1>13, <2>1 DEF AllocateJob
  <2>4. issued' \in Seq(Nat)
    <3>1. issued \in Seq(Nat) /\ issued' = Append(issued, state["counter"])
      BY <1>13 DEF AllocateJob
    <3> HIDE DEF TypeOK
    <3> QED BY <2>1, <3>1
  <2> QED BY <1>13, <2>2, <2>3, <2>4 DEF AllocateJob
<1>14. CASE SaveSession
  <2>1. state["session"] + 1 \in Nat
    BY <1>14, MigrationAssumption DEF SaveSession
  <2>2. state' \in Contents
    BY <1>14, <2>1 DEF SaveSession, Contents
  <2> QED BY <1>14, <2>2 DEF SaveSession
<1>15. CASE UNCHANGED vars
  BY <1>15 DEF vars
<1> QED
  BY <1>1, <1>2, <1>3, <1>4, <1>5, <1>6, <1>7, <1>8, <1>9, <1>10, <1>11, <1>12, <1>13,
     <1>14, <1>15 DEF Next, Migrate

\* The lock
LEMMA LockStep == TypeOK /\ LockInv /\ [Next]_vars => LockInv'
<1> SUFFICES ASSUME TypeOK, LockInv, [Next]_vars PROVE LockInv'
  OBVIOUS
<1>1. ASSUME NEW m \in Migrators, Plan(m) \/ Migrate(m) \/ Fail(m) \/ Stop(m) PROVE LockInv'
  BY <1>1, MigrationAssumption
  DEF LockInv, TypeOK, Locked, Plan, Migrate, Fail, Stop, Refuse, Backup, CreateMissing,
      WriteConfig, Rebuild, CannotRebuild, Restore, CopyBack, RemoveNewPaths, Done, Released
<1>2. CASE AllocateJob \/ SaveSession \/ UNCHANGED vars
  BY <1>2 DEF LockInv, AllocateJob, SaveSession, vars
<1> QED BY <1>1, <1>2 DEF Next

-----------------------------------------------------------------------------
(* Backups *)

LEMMA BackupsStep ==
  TypeOK /\ OriginalIsKept /\ PlansAreBacked /\ [Next]_vars
    => OriginalIsKept' /\ PlansAreBacked'
<1> SUFFICES ASSUME TypeOK, OriginalIsKept, PlansAreBacked, [Next]_vars
             PROVE  OriginalIsKept' /\ PlansAreBacked'
  OBVIOUS
<1>1. backups \subseteq backups'
  BY DEF Next, Migrate, Plan, Fail, Stop, Refuse, Backup, CreateMissing, WriteConfig, Rebuild,
     CannotRebuild, Restore, CopyBack, RemoveNewPaths, AllocateJob, SaveSession, vars
\* Only who has a backup of a plan writes the configuration.
<1>2. state'["config"] # state["config"]
        => \E m \in Migrators : step[m] \notin {"idle", "planned"}
  BY DEF Next, Migrate, Plan, Fail, Stop, Refuse, Backup, CreateMissing, WriteConfig, Rebuild,
     CannotRebuild, Restore, CopyBack, RemoveNewPaths, AllocateJob, SaveSession, vars,
     TypeOK, Contents, Files
<1>3. state'["config"] # 1 => \E b \in backups' : b["config"] = 1
  <2> SUFFICES ASSUME state'["config"] # 1 PROVE \E b \in backups : b["config"] = 1
    BY <1>1
  <2>1. CASE state["config"] # 1
    BY <2>1 DEF OriginalIsKept
  <2>2. CASE state["config"] = 1
    <3> PICK m \in Migrators : step[m] \notin {"idle", "planned"}
      BY <1>2, <2>2
    <3> QED BY DEF OriginalIsKept, PlansAreBacked
  <2> QED BY <2>1, <2>2
<1>4. ASSUME NEW m \in Migrators
      PROVE  step'[m] \notin {"idle", "planned"} => plan'[m].state \in backups'
  BY <1>1, MigrationAssumption
  DEF OriginalIsKept, TypeOK, Next, Migrate, Plan, Fail, Stop, Refuse, Backup, CreateMissing,
      WriteConfig, Rebuild, CannotRebuild, Restore, CopyBack, RemoveNewPaths, AllocateJob,
      SaveSession, vars, Done
<1>5. ASSUME NEW m \in Migrators, step'[m] # "idle", plan'[m].state["config"] # 1
      PROVE  \E b \in backups' : b["config"] = 1
  <2>1. (plan'[m] = plan[m] /\ step[m] # "idle") \/ plan'[m].state = state
    BY <1>5, MigrationAssumption
    DEF TypeOK, Next, Migrate, Plan, Fail, Stop, Refuse, Backup, CreateMissing, Current,
        WriteConfig, Rebuild, CannotRebuild, Restore, CopyBack, RemoveNewPaths, AllocateJob,
        SaveSession, vars, Done
  <2> QED BY <1>1, <1>5, <2>1 DEF OriginalIsKept, PlansAreBacked
<1> QED BY <1>3, <1>4, <1>5 DEF OriginalIsKept, PlansAreBacked

-----------------------------------------------------------------------------
(* Job folders *)

LEMMA JobsStep ==
  JobsAreHoused /\ [Next]_vars => jobs \subseteq jobs' /\ JobsAreHoused'
<1> SUFFICES ASSUME JobsAreHoused, [Next]_vars PROVE jobs \subseteq jobs' /\ JobsAreHoused'
  OBVIOUS
<1>1. ASSUME NEW m \in Migrators, RemoveNewPaths(m)
      PROVE  jobs \subseteq jobs' /\ JobsAreHoused'
  BY <1>1 DEF RemoveNewPaths, Undone, JobsAreHoused
<1>2. ASSUME NEW m \in Migrators, Plan(m) \/ Migrate(m) \/ Fail(m) \/ Stop(m), ~RemoveNewPaths(m)
      PROVE  jobs \subseteq jobs' /\ JobsAreHoused'
  BY <1>2 DEF JobsAreHoused, Migrate, Plan, Fail, Stop, Refuse, Backup, CreateMissing,
     WriteConfig, Rebuild, CannotRebuild, Restore, CopyBack
<1>3. CASE AllocateJob \/ SaveSession \/ UNCHANGED vars
  BY <1>3 DEF JobsAreHoused, AllocateJob, SaveSession, vars
<1> QED BY <1>1, <1>2, <1>3 DEF Next

-----------------------------------------------------------------------------
(* Rollbacks *)

LEMMA RollbackStep ==
  TypeOK /\ LockInv /\ RollbackInv /\ [Next]_vars => RollbackInv'
<1> SUFFICES ASSUME TypeOK, LockInv, RollbackInv, [Next]_vars,
                    NEW m \in Migrators, step'[m] = "restoring"
             PROVE
    /\ \A f \in Files : ~Kept(m, f)' =>
         IF f = "session" THEN state'[f] \in Nat ELSE state'[f] = Absent
    /\ at'[m] > 1 => state'["config"] = plan'[m].state["config"]
    /\ at'[m] > 2 => state'["counter"] = plan'[m].state["counter"]
    /\ at'[m] > 3 => SessionRestored(m)'
  BY DEF RollbackInv
<1>1. CASE step[m] # "restoring"
  <2>1. Restore(m)
    BY <1>1
    DEF TypeOK, Next, Migrate, Plan, Fail, Stop, Refuse, Backup, CreateMissing, WriteConfig,
        Rebuild, CannotRebuild, Restore, CopyBack, RemoveNewPaths, AllocateJob, SaveSession,
        vars, Done
  <2> QED BY <2>1 DEF Restore, TypeOK, Kept, Absent
<1>2. CASE step[m] = "restoring"
  <2>1. lock = m
    BY <1>2 DEF LockInv, Locked
  <2>2. plan'[m] = plan[m]
    BY <1>2
    DEF TypeOK, Next, Migrate, Plan, Fail, Stop, Refuse, Backup, CreateMissing, WriteConfig,
        Rebuild, CannotRebuild, Restore, CopyBack, RemoveNewPaths, AllocateJob, SaveSession,
        vars, Done
  <2>3. CASE CopyBack(m)
    <3>1. /\ at[m] \in 1..3 /\ at'[m] = at[m] + 1
          /\ state' = IF Kept(m, Order[at[m]])
                      THEN [state EXCEPT ![Order[at[m]]] = plan[m].state[Order[at[m]]]]
                      ELSE state
      BY <2>3, OrderFiles DEF CopyBack, TypeOK
    <3>2. CASE at[m] = 1
      BY <1>2, <2>2, <3>1, <3>2, OrderFiles
      DEF RollbackInv, TypeOK, Contents, Files, Kept, Absent
    <3>3. CASE at[m] = 2
      BY <1>2, <2>2, <3>1, <3>3, OrderFiles
      DEF RollbackInv, TypeOK, Contents, Files, Kept, Absent
    <3>4. CASE at[m] = 3
      <4>1. SessionRestored(m)'
        BY <1>2, <2>2, <3>1, <3>4, OrderFiles
        DEF RollbackInv, TypeOK, Contents, Files, Kept, Absent, SessionRestored
      <4> QED BY <1>2, <2>2, <3>1, <3>4, <4>1, OrderFiles
          DEF RollbackInv, TypeOK, Contents, Files, Kept, Absent
    <3> QED BY <3>1, <3>2, <3>3, <3>4
  <2>4. CASE SaveSession
    <3>1. /\ state["session"] \in Nat /\ state'["session"] = state["session"] + 1
          /\ state'["config"] = state["config"] /\ state'["counter"] = state["counter"]
          /\ at' = at
      BY <2>4, MigrationAssumption DEF SaveSession, TypeOK, Contents, Files
    <3>2. at'[m] > 3 => SessionRestored(m)'
      BY <1>2, <2>2, <3>1 DEF RollbackInv, SessionRestored
    <3> QED BY <1>2, <2>2, <3>1, <3>2 DEF RollbackInv, Kept, Files
  <2>5. CASE state' = state /\ at'[m] = at[m]
    BY <1>2, <2>2, <2>5 DEF RollbackInv, SessionRestored, Kept
  <2>6. CopyBack(m) \/ SaveSession \/ (state' = state /\ at'[m] = at[m])
    BY <1>2, <2>1, MigrationAssumption
    DEF LockInv, Locked, TypeOK, Next, Migrate, Plan, Fail, Stop, Refuse, Backup, CreateMissing,
        WriteConfig, Rebuild, CannotRebuild, Restore, CopyBack, RemoveNewPaths, AllocateJob,
        vars, Done
  <2> QED BY <2>3, <2>4, <2>5, <2>6
<1> QED BY <1>1, <1>2

LEMMA RestoredMeans == Inv => RestoredMeansOriginal
BY OrderFiles DEF Inv, RollbackInv, SessionRestored, RestoredMeansOriginal

LEMMA InvStep == Inv /\ [Next]_vars => Inv'
BY TypesStep, LockStep, BackupsStep, RollbackStep, JobsStep DEF Inv

-----------------------------------------------------------------------------
(* The theorems *)

\* The inductive invariant: the types, who holds the lock, which plans have a
\* backup, how far a rollback has come.
THEOREM MigrationInvariant == Spec => []Inv
BY InvInit, InvStep, PTL DEF Spec

\* Every variable has its type (the files that migrations.py writes).
THEOREM MigrationTypes == Spec => []TypeOK
<1>1. Inv => TypeOK
  BY DEF Inv
<1> QED BY <1>1, MigrationInvariant, PTL

\* However many migrations meet, fail and die: there is a complete backup of
\* the original configuration once it is gone, and of the plan of whoever may
\* have to roll back (apply_migration, _backup_state).
THEOREM OriginalsAreKept == Spec => []OriginalIsKept
<1>1. Inv => OriginalIsKept
  BY DEF Inv
<1> QED BY <1>1, MigrationInvariant, PTL

\* A rollback that has copied its files leaves the configuration and the
\* counter of its plan (_restore_state).
THEOREM RollbacksRestore == Spec => []RestoredMeansOriginal
BY RestoredMeans, MigrationInvariant, PTL

\* No rollback takes a job folder away (_remove_new_derived_paths).
THEOREM JobFoldersSurvive == Spec => JobsSurvive
<1>1. Inv /\ [Next]_vars => [jobs \subseteq jobs' /\ (jobs' # {} => dirs'.jobs)]_vars
  BY JobsStep DEF Inv, JobsAreHoused
<1> QED BY <1>1, MigrationInvariant, PTL DEF Spec, JobsSurvive
=============================================================================
