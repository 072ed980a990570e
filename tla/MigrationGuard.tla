--------------------------- MODULE MigrationGuard ---------------------------
(***************************************************************************)
(* How a release starts on the volume (scripts/container_entrypoint.py):   *)
(* guarded_migrate and restore_pre_migration_backup of                     *)
(* sean_os/migration_guard.py, apply_migrations of sean_os/migrations.py,  *)
(* and the files they leave behind, under crashes, restarts and the        *)
(* operator's deployments.                                                 *)
(*                                                                         *)
(*   down -> boot -> backup -> manifest -> migrate -> run                  *)
(*     |        \-> create --------------->   | fails                      *)
(*     |                                      v                            *)
(*     +--(SEAN_OS_RESTORE_SCHEMA_VERSION)-> recover -> moved -> evidence  *)
(*                                                   -> down, or hold      *)
(*                                                                         *)
(* A database is what tells the properties apart: its schema version, the  *)
(* writes it contains, and the version its first migration started from.   *)
(* Temporary files are not modelled: nothing reads one that was left.      *)
(***************************************************************************)
EXTENDS Naturals

CONSTANTS
  Releases,    \* what the operator may deploy
  Top,         \* the highest schema version there is
  Latest,      \* LATEST_SCHEMA_VERSION of each release
  First,       \* schema version of the database there is in the beginning
  NoFile,      \* no file of that name
  MaxWrites, MaxCrashes, MaxDeploys,   \* bounds
  MaxRetries   \* restartPolicyMaxRetries

Versions == 0..Top                          \* 0: tables and an empty ledger
Names == Versions \X Versions               \* of the backups: from, to
Files == [v : Versions, data : SUBSET Nat, from : Versions]

ASSUME MigrationAssumption ==
  /\ Top \in Nat
  /\ Latest \in [Releases -> Versions \ {0}]
  /\ First \in Versions \ {0}
  /\ NoFile \notin Files
  /\ {MaxWrites, MaxCrashes, MaxDeploys, MaxRetries} \subseteq Nat

VARIABLES
  place,       \* where the container is
  release,     \* the release deployed
  recover,     \* SEAN_OS_RESTORE_SCHEMA_VERSION, 0 if unset
  source,      \* source_version of this start
  db,          \* the database file
  hot,         \* its journal is left over from a commit that did not end
  backup,      \* pre-migration-v<s>-to-v<t>.db
  manifest,    \* the backup its manifest describes
  quarantine,  \* failed-migration files
  moved,       \* the one this start has put there
  written,     \* history: number of the last write of a running release
  losses,      \* history: how writes came to be left behind
  counts       \* restarts, crashes and deployments so far

diskVars == <<db, hot, backup, manifest, quarantine>>
mgVars   == <<place, release, recover, source, moved, diskVars, written, losses, counts>>
steady == <<release, recover, written, counts>>

Target == Latest[release]
Name   == <<source, Target>>
Blank  == [v |-> 0, data |-> {}, from |-> 0]

MgInit ==
  /\ place = "down" /\ source = 0 /\ moved = NoFile
  /\ release \in Releases /\ recover = 0
  /\ db = [v |-> First, data |-> {1}, from |-> 0] /\ hot = FALSE
  /\ backup   = [n \in Names |-> NoFile]
  /\ manifest = [n \in Names |-> NoFile]
  /\ quarantine = {}
  /\ written = 1 /\ losses = {}
  /\ counts = [restarts |-> 0, crashes |-> 0, deploys |-> 0]

Goto(s) == place' = s

-----------------------------------------------------------------------------
(* main.  A start that raises ends the container, and it is restarted.     *)
Restarts ==
  /\ place = "down" /\ counts.restarts < MaxRetries
  /\ Goto(IF recover = 0 THEN "boot" ELSE "recover")
  /\ source' = recover
  /\ counts' = [counts EXCEPT !.restarts = @ + 1]
  /\ UNCHANGED <<release, recover, moved, diskVars, written, losses>>

(* _schema_version opens the file mode=ro: with a hot journal it raises,   *)
(* and so it does for a ledger without a row.                              *)
Readable == db # NoFile /\ ~hot /\ db.v > 0

(* guarded_migrate, up to the backup.                                      *)
Boots ==
  /\ place = "boot"
  /\ \/ db = NoFile /\ Goto("create") /\ UNCHANGED source
     \/ Readable /\ db.v = Target /\ Goto("run") /\ UNCHANGED source
     \/ Readable /\ db.v < Target /\ Goto("backup") /\ source' = db.v
     \/ db # NoFile /\ ~(Readable /\ db.v <= Target) /\ Goto("down") /\ UNCHANGED source
  /\ UNCHANGED <<steady, moved, diskVars, losses>>

(* ensure_pre_migration_backup.  A backup that is there is used again, if  *)
(* it verifies; it is not compared with the database.                      *)
BacksUp ==
  /\ place = "backup"
  /\ \/ /\ backup[Name] = NoFile
        /\ backup' = [backup EXCEPT ![Name] = db]
        /\ Goto("manifest") /\ UNCHANGED losses
     \/ /\ backup[Name] # NoFile
        /\ losses' = IF backup[Name].data = db.data THEN losses ELSE losses \cup {"stale"}
        /\ Goto("manifest") /\ UNCHANGED backup
     \/ Goto("down") /\ UNCHANGED <<backup, losses>>
  /\ UNCHANGED <<steady, source, moved, db, hot, manifest, quarantine>>

WritesManifestBug ==                        \* not for a backup used again
  /\ place = "manifest"
  /\ \/ manifest' = [manifest EXCEPT ![Name] = backup[Name]]
     \/ UNCHANGED manifest
  /\ Goto("migrate")
  /\ UNCHANGED <<steady, source, moved, db, hot, backup, quarantine, losses>>

WritesManifest ==
  /\ place = "manifest"
  /\ \/ /\ manifest[Name] \in {NoFile, backup[Name]}
        /\ manifest' = [manifest EXCEPT ![Name] = backup[Name]]
        /\ Goto("migrate")
     \/ Goto("down") /\ UNCHANGED manifest
  /\ UNCHANGED <<steady, source, moved, db, hot, backup, quarantine, losses>>

Creates ==
  /\ place = "create"
  /\ db' = Blank /\ source' = 0
  /\ Goto("migrate")
  /\ UNCHANGED <<steady, moved, hot, backup, manifest, quarantine, losses>>

(* apply_migrations commits one version after the other.  Any exception,   *)
(* the verification's included, leads to the restoration.                  *)
Upgrades ==
  /\ place = "migrate" /\ db.v < Target
  /\ db' = [v |-> db.v + 1, data |-> db.data, from |-> IF db.from = 0 THEN source ELSE db.from]
  /\ UNCHANGED <<place, steady, source, moved, hot, backup, manifest, quarantine, losses>>

MigrationEnds ==
  /\ place = "migrate" /\ db.v = Target
  /\ Goto("run")
  /\ UNCHANGED <<steady, source, moved, diskVars, losses>>

MigrationFails ==
  /\ place = "migrate"
  /\ Goto(IF source = 0 THEN "down" ELSE "recover")
  /\ UNCHANGED <<steady, source, moved, diskVars, losses>>

-----------------------------------------------------------------------------
(* restore_pre_migration_backup.                                           *)
Evident ==
  /\ backup[Name] # NoFile
  /\ manifest[Name] = backup[Name]
  /\ Readable

Recovered == Goto(IF recover = 0 THEN "down" ELSE "hold")

(* Equal contents may or may not be equal bytes.                           *)
AlreadyRestored ==
  /\ place = "recover" /\ Evident
  /\ db.v = source /\ db.data = backup[Name].data
  /\ Recovered
  /\ UNCHANGED <<steady, source, moved, diskVars, losses>>

RefusesRecovery ==
  /\ place = "recover"
  /\ ~(Evident /\ db.v \in source..Target)
  /\ Goto("down")
  /\ UNCHANGED <<steady, source, moved, diskVars, losses>>

QuarantinesBug ==                           \* the failed file is removed
  /\ place = "recover" /\ Evident
  /\ db.v \in source..Target
  /\ moved' = db /\ db' = NoFile
  /\ Goto("moved")
  /\ UNCHANGED <<steady, source, hot, backup, manifest, quarantine, losses>>

Quarantines ==
  /\ place = "recover" /\ Evident
  /\ db.v \in source..Target
  /\ quarantine' = quarantine \cup {db}
  /\ moved' = db /\ db' = NoFile
  /\ losses' = IF recover # 0 /\ db.data # backup[Name].data
                 THEN losses \cup {"rollback"} ELSE losses
  /\ Goto("moved")
  /\ UNCHANGED <<steady, source, hot, backup, manifest>>

(* The copy, or what takes the quarantined file back if it fails.          *)
Copies ==
  /\ place = "moved"
  /\ \/ /\ db' = backup[Name]
        /\ Goto("evidence") /\ UNCHANGED quarantine
     \/ /\ db' = moved /\ quarantine' = quarantine \ {moved}
        /\ Goto("down")
  /\ UNCHANGED <<steady, source, moved, hot, backup, manifest, losses>>

WritesEvidenceBug ==                        \* goes on to the worker
  /\ place = "evidence"
  /\ Goto(IF recover = 0 THEN "run" ELSE "hold")
  /\ UNCHANGED <<steady, source, moved, diskVars, losses>>

WritesEvidence ==
  /\ place = "evidence"
  /\ Recovered \/ Goto("down")
  /\ UNCHANGED <<steady, source, moved, diskVars, losses>>

-----------------------------------------------------------------------------
(* A running release writes; the container dies, in the middle of a commit *)
(* maybe; the operator deploys, with or without a version to restore.      *)
Works ==
  /\ place = "run" /\ written < MaxWrites
  /\ written' = written + 1
  /\ db' = [db EXCEPT !.data = @ \cup {written + 1}]
  /\ UNCHANGED <<place, release, recover, source, moved, hot, backup, manifest, quarantine,
                 losses, counts>>

Crash ==
  /\ place # "down" /\ counts.crashes < MaxCrashes
  /\ Goto("down")
  /\ \/ place \in {"create", "migrate", "run"} /\ db # NoFile /\ hot' = TRUE
     \/ UNCHANGED hot
  /\ losses' = IF place = "moved" THEN losses \cup {"torn"} ELSE losses
  /\ counts' = [counts EXCEPT !.crashes = @ + 1]
  /\ UNCHANGED <<release, recover, source, moved, db, backup, manifest, quarantine, written>>

Deploys(r, v) ==
  /\ place \in {"down", "run", "hold"} /\ counts.deploys < MaxDeploys
  /\ Goto("down")
  /\ release' = r /\ recover' = v
  /\ counts' = [restarts |-> 0, crashes |-> counts.crashes, deploys |-> counts.deploys + 1]
  /\ UNCHANGED <<source, moved, diskVars, written, losses>>

MgNext ==
  \/ Restarts \/ Boots \/ BacksUp \/ WritesManifest \/ Creates
  \/ Upgrades \/ MigrationEnds \/ MigrationFails
  \/ AlreadyRestored \/ RefusesRecovery \/ Quarantines \/ Copies \/ WritesEvidence
  \/ Works \/ Crash
  \/ \E r \in Releases : \E v \in {0, First} : Deploys(r, v)

MgSpec == MgInit /\ [][MgNext]_mgVars

-----------------------------------------------------------------------------
(* Properties.                                                             *)
Places == {"down", "boot", "create", "backup", "manifest", "migrate", "run", "recover",
           "moved", "evidence", "hold"}

MgTypeOK ==
  /\ place \in Places
  /\ release \in Releases
  /\ recover \in Versions /\ source \in Versions
  /\ db \in Files \cup {NoFile} /\ moved \in Files \cup {NoFile}
  /\ hot \in BOOLEAN
  /\ backup   \in [Names -> Files \cup {NoFile}]
  /\ manifest \in [Names -> Files \cup {NoFile}]
  /\ quarantine \subseteq Files
  /\ written \in Nat
  /\ losses \subseteq {"stale", "rollback", "torn"}
  /\ counts \in [restarts : Nat, crashes : Nat, deploys : Nat]

OnVolume == {db} \cup quarantine \cup {backup[n] : n \in Names}

(* "Quarantines the failed database for later diagnosis" (OPERATIONS.md,   *)
(* Guarded schema release and rollback): no write of any release is ever   *)
(* destroyed by a start, wherever it fails or dies and whatever is         *)
(* deployed next; it stays in one of the files on the volume.              *)
NothingDestroyed ==
  \A w \in 1..written : \E f \in OnVolume \ {NoFile} : w \in f.data

Restorable(s) ==
  \E t \in Versions : backup[<<s, t>>] # NoFile /\ manifest[<<s, t>>] = backup[<<s, t>>]

(* "Obtain exact approval to set SEAN_OS_RESTORE_SCHEMA_VERSION to that    *)
(* exact source version" (OPERATIONS.md): whatever has been migrated, and  *)
(* after however many interrupted starts, the version it came from has its *)
(* backup and the manifest that restore_pre_migration_backup demands.      *)
RollbackPossible ==
  \A f \in OnVolume \ {NoFile} : f.from # 0 => Restorable(f.from)

(* A failed migration "exits before worker startup" and loses nothing: a   *)
(* release runs on its own schema version and on all that was written,     *)
(* through failures of the migration and of the restoration at any step.   *)
(* Left aside: an approved rollback, which gives up what was written since,*)
(* and the two ways of the next property's counterexamples.                *)
RunsOnEverything ==
  place = "run" => db.v = Target /\ (losses = {} => 1..written \subseteq db.data)

(* The same without the exception: the code loses writes when it restores  *)
(* a backup of an earlier start, and when it dies between the quarantine   *)
(* and the copy, for the next start finds no database and creates one.     *)
RunsOnAllButRolledBack ==
  place = "run" /\ "rollback" \notin losses => 1..written \subseteq db.data
=============================================================================
