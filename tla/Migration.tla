------------------------------ MODULE Migration ------------------------------
(***************************************************************************)
(* Migration of a workspace to schema version 2                            *)
(* (src/career_pipeline/migrations.py).  A plan is made without the lock   *)
(* and confirmed later.  Under the lock it is checked again, the files of  *)
(* State/ are backed up, directories and the job counter are created and   *)
(* the configuration is written.  The lock is released before the indexes  *)
(* are rebuilt; when that fails, the lock is taken again and the files are *)
(* copied back one by one.  Other processes allocate job numbers under the *)
(* lock and save their own file of State/ without it.  A process may die   *)
(* between any two steps, and while it copies a file.                      *)
(*                                                                         *)
(* A file is its content: the configuration its schema version, the        *)
(* counter the next number.  Two inventories are equal when the contents   *)
(* are.  A backup is named by the inventory it was made of.                *)
(***************************************************************************)
EXTENDS Naturals, Sequences, FiniteSets, Functions

CONSTANTS Migrators,   \* processes that plan and apply
          Torn,        \* a file whose copy was cut short
          Free,        \* nobody holds the workspace lock
          Beginnings,  \* what a workspace of version 1 may hold
          MaxSaves,    \* bound: saves of the file that is saved without the lock
          MaxJobs,     \* bound: numbers allocated
          MaxFaults,   \* bound: errors, held locks met and deaths
          FailingSteps \* bound: the steps after which an error is met

Target == 2                                    \* CURRENT_WORKSPACE_SCHEMA
Absent == 0
Files == {"config", "counter", "session"}
Order == <<"config", "counter", "session">>    \* sorted, as they are copied back

VARIABLES state,     \* the files of State/
          dirs,      \* whether Jobs/ and Indexes/ exist
          jobs,      \* the job folders, by number
          issued,    \* every number allocated so far, in order
          backups,   \* the inventories whose backup is complete
          lock, step, plan,
          at,        \* the file that a rollback copies next
          faults     \* errors and deaths so far

vars == <<state, dirs, jobs, issued, backups, lock, step, plan, at, faults>>

Contents == [Files -> Nat \cup {Torn}]
Directories == [jobs : BOOLEAN, indexes : BOOLEAN]

ASSUME MigrationAssumption ==
  /\ MaxSaves \in Nat /\ MaxJobs \in Nat /\ MaxFaults \in Nat
  /\ Beginnings \subseteq [jobs : BOOLEAN, indexes : BOOLEAN, counter : Nat]
  /\ FailingSteps \subseteq {"backed", "created", "rebuilding"}
  /\ Torn \notin Nat
  /\ Free \notin Migrators

\* MigrationPlan: what is compared and what the rollback goes by
Plans == [state : Contents, dirs : Directories]
NoPlan == [state |-> [f \in Files |-> Absent], dirs |-> [jobs |-> FALSE, indexes |-> FALSE]]

Locked == {"backed", "created", "restoring"}
Steps == {"idle", "planned", "rebuilding", "failed"} \cup Locked

Init ==
  /\ \E old \in Beginnings :
       /\ state = [f \in Files |-> IF f = "counter" THEN old.counter ELSE 1]
       /\ dirs = [jobs |-> old.jobs, indexes |-> old.indexes]
  /\ jobs = {} /\ issued = <<>> /\ backups = {}
  /\ lock = Free
  /\ step = [m \in Migrators |-> "idle"]
  /\ plan = [m \in Migrators |-> NoPlan]
  /\ at = [m \in Migrators |-> 1]
  /\ faults = 0

Current == [state |-> state, dirs |-> dirs]

\* plan_migration: the configuration is readable and of no future version.
Planned == state["config"] \in 0..Target

Plan(m) ==
  /\ step[m] = "idle"
  /\ Planned
  /\ plan' = [plan EXCEPT ![m] = Current]
  /\ step' = [step EXCEPT ![m] = "planned"]
  /\ UNCHANGED <<state, dirs, jobs, issued, backups, lock, at, faults>>

\* The process ends, or gives up; its plan goes with it.
Done(m) ==
  /\ step' = [step EXCEPT ![m] = "idle"]
  /\ plan' = [plan EXCEPT ![m] = NoPlan]
  /\ at' = [at EXCEPT ![m] = 1]

\* The plan is stale: nothing has changed.
Refuse(m) ==
  /\ step[m] = "planned"
  /\ lock = Free
  /\ Current # plan[m]
  /\ Done(m)
  /\ UNCHANGED <<state, dirs, jobs, issued, backups, lock, faults>>

\* Slip: the copy is made without another look at the plan.
BackupUnchecked(m) ==
  /\ step[m] = "planned"
  /\ lock = Free
  /\ backups' = backups \cup {state}
  /\ lock' = m
  /\ step' = [step EXCEPT ![m] = "backed"]
  /\ UNCHANGED <<state, dirs, jobs, issued, plan, at, faults>>

\* Slip: a backup that exists already is not accepted.
BackupAnew(m) ==
  /\ step[m] = "planned"
  /\ lock = Free
  /\ Planned /\ Current = plan[m]
  /\ plan[m].state \notin backups
  /\ backups' = backups \cup {plan[m].state}
  /\ lock' = m
  /\ step' = [step EXCEPT ![m] = "backed"]
  /\ UNCHANGED <<state, dirs, jobs, issued, plan, at, faults>>

\* _revalidate_plan and _backup_state: the copy is compared with the plan
\* and with the files again before it gets its name.
Backup(m) ==
  /\ step[m] = "planned"
  /\ lock = Free
  /\ Planned /\ Current = plan[m]
  /\ backups' = backups \cup {plan[m].state}
  /\ lock' = m
  /\ step' = [step EXCEPT ![m] = "backed"]
  /\ UNCHANGED <<state, dirs, jobs, issued, plan, at, faults>>

\* The directories and the counter, those that are missing
CreateMissing(m) ==
  /\ step[m] = "backed"
  /\ dirs' = [jobs |-> TRUE, indexes |-> TRUE]
  /\ state' = [state EXCEPT !["counter"] = IF @ = Absent THEN 1 ELSE @]
  /\ step' = [step EXCEPT ![m] = "created"]
  /\ UNCHANGED <<jobs, issued, backups, lock, plan, at, faults>>

\* The configuration is written and the lock released.
WriteConfig(m) ==
  /\ step[m] = "created"
  /\ state' = [state EXCEPT !["config"] = Target]
  /\ lock' = Free
  /\ step' = [step EXCEPT ![m] = "rebuilding"]
  /\ UNCHANGED <<dirs, jobs, issued, backups, plan, at, faults>>

\* rebuild_indexes, which takes the lock for itself
Rebuild(m) ==
  /\ step[m] = "rebuilding"
  /\ lock = Free
  /\ dirs.jobs /\ dirs.indexes
  /\ Done(m)
  /\ UNCHANGED <<state, dirs, jobs, issued, backups, lock, faults>>

Released(m) == IF lock = m THEN Free ELSE lock

\* Another rollback has removed the directories.
CannotRebuild(m) ==
  /\ step[m] = "rebuilding"
  /\ lock = Free
  /\ ~(dirs.jobs /\ dirs.indexes)
  /\ step' = [step EXCEPT ![m] = "failed"]
  /\ UNCHANGED <<state, dirs, jobs, issued, backups, lock, plan, at, faults>>

\* Any other exception after the backup: an error, or a lock that is held by
\* another process, for which nobody waits
Fail(m) ==
  /\ step[m] \in FailingSteps
  /\ faults < MaxFaults
  /\ faults' = faults + 1
  /\ step' = [step EXCEPT ![m] = "failed"]
  /\ lock' = Released(m)
  /\ UNCHANGED <<state, dirs, jobs, issued, backups, plan, at>>

\* _restore_state: the backup is verified, files it does not hold are removed.
Kept(m, f) == plan[m].state[f] # Absent

\* Slip: files that the backup does not hold stay.
RestoreOver(m) ==
  /\ step[m] = "failed"
  /\ lock = Free
  /\ plan[m].state \in backups
  /\ lock' = m
  /\ step' = [step EXCEPT ![m] = "restoring"]
  /\ at' = [at EXCEPT ![m] = 1]
  /\ UNCHANGED <<state, dirs, jobs, issued, backups, plan, faults>>

Restore(m) ==
  /\ step[m] = "failed"
  /\ lock = Free
  /\ plan[m].state \in backups
  /\ state' = [f \in Files |-> IF Kept(m, f) THEN state[f] ELSE Absent]
  /\ lock' = m
  /\ step' = [step EXCEPT ![m] = "restoring"]
  /\ at' = [at EXCEPT ![m] = 1]
  /\ UNCHANGED <<dirs, jobs, issued, backups, plan, faults>>

\* shutil.copy2 of the next file
CopyBack(m) ==
  /\ step[m] = "restoring"
  /\ at[m] \in 1..Len(Order)
  /\ LET f == Order[at[m]] IN
       state' = IF Kept(m, f) THEN [state EXCEPT ![f] = plan[m].state[f]] ELSE state
  /\ at' = [at EXCEPT ![m] = @ + 1]
  /\ UNCHANGED <<dirs, jobs, issued, backups, lock, step, plan, faults>>

\* _remove_new_derived_paths: only what the migration created, and Jobs/
\* only when nothing is in it
Undone(m) == [jobs |-> plan[m].dirs.jobs \/ jobs # {}, indexes |-> plan[m].dirs.indexes]

\* Slip: Jobs/ is removed with what is in it.
RemoveTrees(m) ==
  /\ step[m] = "restoring"
  /\ at[m] = Len(Order) + 1
  /\ dirs' = [d \in {"jobs", "indexes"} |-> dirs[d] /\ plan[m].dirs[d]]
  /\ jobs' = IF plan[m].dirs.jobs THEN jobs ELSE {}
  /\ lock' = Free
  /\ Done(m)
  /\ UNCHANGED <<state, issued, backups, faults>>

RemoveNewPaths(m) ==
  /\ step[m] = "restoring"
  /\ at[m] = Len(Order) + 1
  /\ dirs' = [d \in {"jobs", "indexes"} |-> dirs[d] /\ Undone(m)[d]]
  /\ lock' = Free
  /\ Done(m)
  /\ UNCHANGED <<state, jobs, issued, backups, faults>>

\* An error before the backup, "rollback also failed", or the process dies.
\* A copy that is cut short leaves a torn file.
Stop(m) ==
  /\ step[m] # "idle"
  /\ faults < MaxFaults
  /\ faults' = faults + 1
  /\ \/ state' = state
     \/ /\ step[m] = "restoring" /\ at[m] \in 1..Len(Order)
        /\ Kept(m, Order[at[m]])
        /\ state' = [state EXCEPT ![Order[at[m]]] = Torn]
  /\ Done(m)
  /\ lock' = Released(m)
  /\ UNCHANGED <<dirs, jobs, issued, backups>>

-----------------------------------------------------------------------------
(* The other processes *)

\* create_job: the number is allocated first, and lost when the folder exists
\* already.  It does not look at the version of the configuration.
AllocateJob ==
  /\ lock = Free
  /\ Len(issued) < MaxJobs
  /\ dirs.jobs
  /\ state["counter"] \in Nat \ {Absent}
  /\ issued' = Append(issued, state["counter"])
  /\ state' = [state EXCEPT !["counter"] = @ + 1]
  /\ jobs' = jobs \cup {state["counter"]}
  /\ UNCHANGED <<dirs, backups, lock, step, plan, at, faults>>

\* save_onboarding_state and the other saves that take no lock
SaveSession ==
  /\ state["session"] \in 0..MaxSaves
  /\ state' = [state EXCEPT !["session"] = @ + 1]
  /\ UNCHANGED <<dirs, jobs, issued, backups, lock, step, plan, at, faults>>

-----------------------------------------------------------------------------
Migrate(m) ==
  \/ Refuse(m) \/ Backup(m) \/ CreateMissing(m) \/ WriteConfig(m)
  \/ Rebuild(m) \/ CannotRebuild(m) \/ Restore(m) \/ CopyBack(m) \/ RemoveNewPaths(m)

Next ==
  \/ \E m \in Migrators : Plan(m) \/ Migrate(m) \/ Fail(m) \/ Stop(m)
  \/ AllocateJob
  \/ SaveSession

Spec == Init /\ [][Next]_vars

\* A migration that has begun goes on, and when none is under way someone asks
\* for it again.
FairSpec ==
  /\ Spec
  /\ WF_vars((\A m \in Migrators : step[m] = "idle") /\ \E m \in Migrators : Plan(m))
  /\ \A m \in Migrators : WF_vars(Migrate(m))

-----------------------------------------------------------------------------
TypeOK ==
  /\ state \in Contents
  /\ dirs \in Directories
  /\ jobs \subseteq Nat
  /\ issued \in Seq(Nat)
  /\ backups \subseteq Contents
  /\ lock \in Migrators \cup {Free}
  /\ step \in [Migrators -> Steps]
  /\ plan \in [Migrators -> Plans]
  /\ at \in [Migrators -> 1..(Len(Order) + 1)]
  /\ faults \in Nat

\* Whatever dies or fails, and whoever else migrates: a configuration that is
\* no longer of version 1 has a complete backup of one that is, and whoever
\* may have to roll back has the backup of exactly the files of its plan
\* (apply_migration, _backup_state).
OriginalIsKept ==
  /\ state["config"] # 1 => \E b \in backups : b["config"] = 1
  /\ \A m \in Migrators :
       step[m] \notin {"idle", "planned"} => plan[m].state \in backups

\* "original state was restored": when a rollback has copied its files, the
\* configuration and the counter are those of the plan, whatever happened
\* between the release of the lock and the rollback, and the file that others
\* save without the lock is the plan's or newer (_restore_state).
RestoredMeansOriginal ==
  \A m \in Migrators :
    step[m] = "restoring" /\ at[m] = Len(Order) + 1 =>
      /\ \A f \in {"config", "counter"} : state[f] = plan[m].state[f]
      /\ state["session"] # plan[m].state["session"] =>
           state["session"] > plan[m].state["session"]

\* Job folders made while a migration had released the lock outlive its
\* rollback (_remove_new_derived_paths; docs/private-beta-upgrades.md:113).
JobsSurvive == [][jobs \subseteq jobs' /\ (jobs' # {} => dirs'.jobs)]_vars

\* Failures, deaths, rollbacks and the backups they leave do not keep a
\* workspace from being migrated by a later try, once others do not migrate it
\* at the same time, unless a rollback was cut short while it copied the
\* configuration itself (_backup_state, _revalidate_plan).
RetriesMigrate ==
  \A m \in Migrators :
    <>[](\A o \in Migrators \ {m} : step[o] = "idle")
      => <>[](state["config"] \in {Target, Torn})

\* "Allocate stable six-digit local IDs under a workspace lock and never reuse
\* an allocated number"
\* (docs/superpowers/plans/2026-09-11-career-pipeline-private-beta.md:24).
NumbersAreNeverReused == IsInjective(issued)
=============================================================================
