------------------------ MODULE MigrationGuardProofs ------------------------
(* What holds of the database and its backups for any releases, schema     *)
(* versions, crashes, retries and deployments.                             *)
EXTENDS MigrationGuard, TLAPS

(* restore_pre_migration_backup will find the backup of this start.        *)
Evidenced == backup[Name] # NoFile /\ manifest[Name] = backup[Name]

(* What each place of a start may rely on.                                 *)
MgShape ==
  /\ place = "create" => db = NoFile
  /\ place \in {"backup", "manifest"} => db \in Files /\ db.v < Target
  /\ place = "manifest" => backup[Name] # NoFile
  /\ place = "migrate" => db \in Files /\ db.v <= Target /\ (source # 0 => Evidenced)
  /\ place = "moved" => db = NoFile /\ moved \in quarantine /\ Evidenced
  /\ place \in {"run", "evidence"} => db \in Files
  /\ place = "run" => db.v = Target

(* As long as nothing was left behind, all writes are in the database, or, *)
(* while it is replaced, in the quarantined file and in the backup.        *)
MgWhole ==
  losses = {} =>
    /\ place # "moved" => db \in Files /\ 1..written \subseteq db.data
    /\ place = "manifest" \/ (place \in {"migrate", "recover"} /\ recover = 0) =>
         backup[Name].data = db.data
    /\ place = "moved" => /\ 1..written \subseteq moved.data
                          /\ 1..written \subseteq backup[Name].data

MgInv == MgTypeOK /\ MgShape

-----------------------------------------------------------------------------
LEMMA TargetIsVersion == MgTypeOK => Target \in Versions /\ Target > 0
BY MigrationAssumption DEF MgTypeOK, Target, Versions

LEMMA NameIsName == MgTypeOK => Name \in Names
BY TargetIsVersion DEF Name, Names, MgTypeOK

LEMMA FirstIsFile == [v |-> First, data |-> {1}, from |-> 0] \in Files
<1>1. 0 \in Versions /\ First \in Versions
  BY MigrationAssumption DEF Versions
<1>2. QED
  BY <1>1 DEF Files

LEMMA MgInvAtInit == MgInit => MgInv
<1> SUFFICES ASSUME MgInit PROVE MgInv
  OBVIOUS
<1>1. 0 \in Versions /\ First \in Versions
  BY MigrationAssumption DEF Versions
<1>3. [n \in Names |-> NoFile] \in [Names -> Files \cup {NoFile}]
  OBVIOUS
<1>4. [restarts |-> 0, crashes |-> 0, deploys |-> 0]
        \in [restarts : Nat, crashes : Nat, deploys : Nat]
  OBVIOUS
<1>5. MgTypeOK
  BY <1>1, FirstIsFile, <1>3, <1>4 DEF MgInit, MgTypeOK, Places
<1>6. MgShape
  BY DEF MgInit, MgShape
<1>7. QED
  BY <1>5, <1>6 DEF MgInv

(* A migration step, and a write, leave a database.                        *)
LEMMA UpgradedIsFile ==
  ASSUME NEW f \in Files, NEW s \in Versions, f.v + 1 \in Versions
  PROVE  [v |-> f.v + 1, data |-> f.data, from |-> IF f.from = 0 THEN s ELSE f.from] \in Files
<1>1. f.data \in SUBSET Nat /\ (IF f.from = 0 THEN s ELSE f.from) \in Versions
  BY DEF Files
<1>2. QED
  BY <1>1 DEF Files

LEMMA WrittenIsFile ==
  ASSUME NEW f \in Files, NEW w \in Nat
  PROVE  LET g == [f EXCEPT !.data = f.data \cup {w}]
         IN  g \in Files /\ g.v = f.v /\ g.data = f.data \cup {w} /\ g.from = f.from
<1>1. [f EXCEPT !.data = f.data \cup {w}]
        = [v |-> f.v, data |-> f.data \cup {w}, from |-> f.from]
  BY DEF Files
<1>2. f.v \in Versions /\ f.data \cup {w} \in SUBSET Nat /\ f.from \in Versions
  BY DEF Files
<1>3. [v |-> f.v, data |-> f.data \cup {w}, from |-> f.from] \in Files
  BY <1>2 DEF Files
<1>4. QED
  BY <1>1, <1>3

LEMMA UpgradesFile ==
  ASSUME MgInv, Upgrades
  PROVE  /\ db \in Files /\ db' \in Files
         /\ db'.v = db.v + 1 /\ db'.v <= Target /\ db'.data = db.data
<1>1. db \in Files /\ source \in Versions
  BY DEF Upgrades, MgInv, MgShape, MgTypeOK
<1>2. db.v + 1 \in Versions /\ db.v + 1 <= Target
  BY <1>1, TargetIsVersion, MigrationAssumption DEF Upgrades, MgInv, Files, Versions
<1>3. QED
  BY <1>1, <1>2, UpgradedIsFile DEF Upgrades

LEMMA WorksOnFile ==
  ASSUME MgInv, Works
  PROVE  /\ db \in Files /\ db' \in Files
         /\ db'.v = db.v /\ db'.from = db.from /\ db'.data = db.data \cup {written + 1}
<1>1. db \in Files /\ written + 1 \in Nat
  BY DEF Works, MgInv, MgShape, MgTypeOK
<1>2. db' = [db EXCEPT !.data = db.data \cup {written + 1}]
  BY DEF Works
<1>3. QED
  BY <1>1, <1>2, WrittenIsFile

LEMMA MgInvAtStep ==
  ASSUME MgInv, [MgNext]_mgVars
  PROVE  MgInv'
<1> USE MigrationAssumption, TargetIsVersion, NameIsName
<1> USE DEF MgInv, MgTypeOK, MgShape, Goto, diskVars, steady
<1>1. CASE Restarts
  BY <1>1 DEF Restarts, Places, Target, Name
<1>2. CASE Boots
  BY <1>2 DEF Boots, Readable, Places, Target, Name, Files
<1>3. CASE BacksUp
  BY <1>3 DEF BacksUp, Places, Target, Name
<1>4. CASE WritesManifest
  BY <1>4 DEF WritesManifest, Places, Target, Name, Evidenced, Files, Versions
<1>5. CASE Creates
  BY <1>5 DEF Creates, Places, Target, Name, Blank, Files, Versions
<1>6. CASE Upgrades
  BY <1>6, UpgradesFile DEF Upgrades, Target, Name, Evidenced
<1>7. CASE MigrationEnds \/ MigrationFails
  BY <1>7 DEF MigrationEnds, MigrationFails, Places, Target, Name
<1>8. CASE AlreadyRestored \/ RefusesRecovery
  BY <1>8 DEF AlreadyRestored, RefusesRecovery, Recovered, Places, Target, Name
<1>9. CASE Quarantines
  BY <1>9 DEF Quarantines, Evident, Readable, Places, Target, Name, Evidenced
<1>10. CASE Copies
  BY <1>10 DEF Copies, Places, Target, Name, Evidenced
<1>11. CASE WritesEvidence
  BY <1>11 DEF WritesEvidence, Recovered, Places, Target, Name
<1>12. CASE Works
  BY <1>12, WorksOnFile DEF Works, Target
<1>13. CASE Crash
  <2>1. hot' \in BOOLEAN
    BY <1>13 DEF Crash
  <2>2. counts' \in [restarts : Nat, crashes : Nat, deploys : Nat]
    BY <1>13 DEF Crash
  <2>3. losses' \subseteq {"stale", "rollback", "torn"}
    BY <1>13 DEF Crash
  <2>4. QED
    BY <1>13, <2>1, <2>2, <2>3 DEF Crash, Places
<1>14. ASSUME NEW r \in Releases, NEW v \in {0, First}, Deploys(r, v) PROVE MgInv'
  <2>1. counts' \in [restarts : Nat, crashes : Nat, deploys : Nat]
    BY <1>14 DEF Deploys
  <2>2. recover' \in Versions
    BY <1>14 DEF Deploys, Versions
  <2>3. QED
    BY <1>14, <2>1, <2>2 DEF Deploys, Places
<1>15. CASE UNCHANGED mgVars
  BY <1>15 DEF mgVars, Places, Target, Name, Evidenced
<1>16. QED
  BY <1>1, <1>2, <1>3, <1>4, <1>5, <1>6, <1>7, <1>8, <1>9, <1>10, <1>11, <1>12, <1>13,
     <1>14, <1>15 DEF MgNext

(* Types of the files and of the places of a start, and what a start may   *)
(* rely on at each place: guarded_migrate never migrates what it has not   *)
(* backed up, nor puts a copy over a database that is still there.         *)
THEOREM MigrationTypeCorrect == MgSpec => []MgTypeOK
<1>1. MgInv => MgTypeOK
  BY DEF MgInv
<1>2. QED
  BY <1>1, MgInvAtInit, MgInvAtStep, PTL DEF MgSpec

LEMMA MgInvariant == MgSpec => []MgInv
BY MgInvAtInit, MgInvAtStep, PTL DEF MgSpec

-----------------------------------------------------------------------------
LEMMA NothingDestroyedAtStep ==
  ASSUME MgInv, NothingDestroyed, [MgNext]_mgVars
  PROVE  NothingDestroyed'
<1> USE NameIsName DEF MgInv, MgTypeOK, OnVolume, Goto, diskVars, steady
<1> DEFINE Kept(v) == \E f \in OnVolume \ {NoFile} : v \in f.data
<1>1. SUFFICES ASSUME NEW w \in 1..written' PROVE Kept(w)'
  BY DEF NothingDestroyed
<1>2. CASE UNCHANGED <<db, backup, quarantine, written>>
  BY <1>1, <1>2 DEF NothingDestroyed
<1>3. CASE Works
  <2>1. db \in Files /\ db' \in Files /\ db'.data = db.data \cup {written + 1}
    BY <1>3, WorksOnFile
  <2>2. db' \in OnVolume' \ {NoFile}
    BY <2>1, MigrationAssumption
  <2>3. CASE w = written + 1
    BY <2>1, <2>2, <2>3
  <2>4. CASE w # written + 1
    <3>1. w \in 1..written
      BY <1>1, <1>3, <2>4 DEF Works
    <3>2. PICK f \in OnVolume \ {NoFile} : w \in f.data
      BY <3>1 DEF NothingDestroyed
    <3>3. CASE f = db
      BY <2>1, <2>2, <3>2, <3>3
    <3>4. CASE f # db
      BY <1>3, <3>2, <3>4 DEF Works
    <3>5. QED
      BY <3>3, <3>4
  <2>5. QED
    BY <2>3, <2>4
<1>4. ASSUME BacksUp \/ Creates \/ Upgrades \/ Quarantines \/ Copies
      PROVE  Kept(w)'
  <2>1. w \in 1..written
    BY <1>1, <1>4 DEF BacksUp, Creates, Upgrades, Quarantines, Copies
  <2>2. PICK f \in OnVolume \ {NoFile} : w \in f.data
    BY <2>1 DEF NothingDestroyed
  <2>3. CASE BacksUp
    <3>1. \A n \in Names : backup[n] # NoFile => backup'[n] = backup[n]
      BY <2>3 DEF BacksUp
    <3>2. f \in OnVolume'
      BY <2>2, <2>3, <3>1 DEF BacksUp
    <3>3. QED
      BY <2>2, <3>2
  <2>4. CASE Creates
    BY <2>2, <2>4 DEF Creates, MgShape
  <2>5. CASE Upgrades
    <3>1. db' \in Files /\ db'.data = db.data
      BY <2>5, UpgradesFile
    <3>2. db' # NoFile
      BY <3>1, MigrationAssumption
    <3>3. QED
      BY <2>2, <2>5, <3>1, <3>2 DEF Upgrades
  <2>6. CASE Quarantines
    BY <2>2, <2>6 DEF Quarantines
  <2>7. CASE Copies
    BY <2>2, <2>7 DEF Copies, MgShape
  <2>8. QED
    BY <1>4, <2>3, <2>4, <2>5, <2>6, <2>7
<1>5. QED
  BY <1>2, <1>3, <1>4
  DEF MgNext, mgVars, Restarts, Boots, WritesManifest, MigrationEnds, MigrationFails,
      AlreadyRestored, RefusesRecovery, WritesEvidence, Crash, Deploys

(* "Quarantines the failed database for later diagnosis" (OPERATIONS.md),  *)
(* for any sequence of releases, crashes and failures: no write of any     *)
(* release is destroyed by a start.                                        *)
THEOREM MigrationsDestroyNothing == MgSpec => []NothingDestroyed
<1>1. MgInit => NothingDestroyed
  <2> SUFFICES ASSUME MgInit, NEW w \in 1..written
               PROVE  \E f \in OnVolume \ {NoFile} : w \in f.data
    BY DEF NothingDestroyed
  <2>1. db \in Files /\ 1 \in db.data /\ w = 1
    BY FirstIsFile DEF MgInit
  <2>2. QED
    BY <2>1, MigrationAssumption DEF OnVolume
<1>2. QED
  BY <1>1, NothingDestroyedAtStep, MgInvariant, PTL DEF MgSpec

-----------------------------------------------------------------------------
(* A backup and its manifest, once there, stay as they are.                *)
LEMMA RestorableIsKept ==
  ASSUME MgInv, [MgNext]_mgVars, NEW s \in Versions, Restorable(s)
  PROVE  Restorable(s)'
<1> USE DEF MgInv, MgTypeOK, Restorable, Goto, diskVars, steady
<1>1. CASE BacksUp
  BY <1>1, NameIsName DEF BacksUp, Names
<1>2. CASE WritesManifest
  BY <1>2, NameIsName DEF WritesManifest, Names
<1>3. CASE UNCHANGED <<backup, manifest>>
  BY <1>3
<1>4. QED
  BY <1>1, <1>2, <1>3
  DEF MgNext, mgVars, Restarts, Boots, Creates, Upgrades, MigrationEnds, MigrationFails,
      AlreadyRestored, RefusesRecovery, Quarantines, Copies, WritesEvidence, Works, Crash,
      Deploys

LEMMA RollbackPossibleAtStep ==
  ASSUME MgInv, RollbackPossible, [MgNext]_mgVars
  PROVE  RollbackPossible'
<1> USE DEF MgInv, MgTypeOK, OnVolume, Goto, diskVars, steady
<1>1. SUFFICES ASSUME NEW f \in OnVolume' \ {NoFile}, f.from # 0 PROVE Restorable(f.from)'
  BY DEF RollbackPossible
<1>2. ASSUME NEW g \in OnVolume \ {NoFile}, g.from = f.from PROVE Restorable(f.from)'
  <2>1. g \in Files
    BY <1>2
  <2>2. f.from \in Versions
    BY <1>2, <2>1 DEF Files
  <2>3. Restorable(f.from)
    BY <1>1, <1>2 DEF RollbackPossible
  <2>4. QED
    BY <2>2, <2>3, RestorableIsKept
<1>3. CASE f \in OnVolume
  BY <1>2, <1>3
<1>4. CASE f \notin OnVolume
  <2>1. CASE Upgrades
    <3>1. f = db' /\ db \in Files
      BY <1>4, <2>1 DEF Upgrades, MgShape
    <3>2. CASE db.from # 0
      BY <1>2, <2>1, <3>1, <3>2, MigrationAssumption DEF Upgrades
    <3>3. CASE db.from = 0
      <4>1. f.from = source /\ source # 0
        BY <1>1, <2>1, <3>1, <3>3 DEF Upgrades
      <4>2. Restorable(source)
        BY <2>1, <4>1, TargetIsVersion DEF Upgrades, MgShape, Evidenced, Restorable, Name
      <4>3. QED
        BY <4>1, <4>2, RestorableIsKept
    <3>4. QED
      BY <3>2, <3>3
  <2>2. CASE Works
    <3>1. f = db' /\ db \in Files
      BY <1>4, <2>2 DEF Works, MgShape
    <3>2. db \in OnVolume \ {NoFile} /\ db.from = f.from
      BY <2>2, <3>1, WorksOnFile, MigrationAssumption
    <3>3. QED
      BY <1>2, <3>2
  <2>3. CASE Creates
    BY <1>1, <1>4, <2>3 DEF Creates, Blank
  <2>4. CASE BacksUp
    BY <1>4, <2>4, NameIsName DEF BacksUp
  <2>5. CASE Copies
    BY <1>4, <2>5, NameIsName DEF Copies, MgShape
  <2>6. CASE Quarantines
    BY <1>4, <2>6 DEF Quarantines
  <2>7. CASE UNCHANGED <<db, backup, quarantine>>
    BY <1>4, <2>7
  <2>8. QED
    BY <2>1, <2>2, <2>3, <2>4, <2>5, <2>6, <2>7
    DEF MgNext, mgVars, Restarts, Boots, WritesManifest, MigrationEnds, MigrationFails,
        AlreadyRestored, RefusesRecovery, WritesEvidence, Crash, Deploys
<1>5. QED
  BY <1>3, <1>4

(* Whatever has been migrated can be taken back: the version it came from  *)
(* has its backup and the manifest restore_pre_migration_backup demands,   *)
(* after any interruptions and deployments.                                *)
THEOREM EveryMigrationCanBeTakenBack == MgSpec => []RollbackPossible
<1>1. MgInit => RollbackPossible
  BY DEF MgInit, RollbackPossible, OnVolume, Names
<1>2. QED
  BY <1>1, RollbackPossibleAtStep, MgInvariant, PTL DEF MgSpec

-----------------------------------------------------------------------------
LEMMA MgWholeAtStep ==
  ASSUME MgInv, MgWhole, [MgNext]_mgVars
  PROVE  MgWhole'
<1> USE NameIsName DEF MgInv, MgTypeOK, MgShape, MgWhole, Goto, diskVars, steady
<1> SUFFICES ASSUME losses' = {} PROVE MgWhole'
  OBVIOUS
<1>1. CASE Restarts
  BY <1>1 DEF Restarts
<1>2. CASE Boots
  BY <1>2 DEF Boots
<1>3. CASE BacksUp
  BY <1>3 DEF BacksUp, Name, Target
<1>4. CASE WritesManifest
  BY <1>4 DEF WritesManifest, Name, Target
<1>5. CASE Creates
  BY <1>5, MigrationAssumption DEF Creates
<1>6. CASE Upgrades
  <2>1. db' \in Files /\ db'.data = db.data
    BY <1>6, UpgradesFile
  <2>2. QED
    BY <1>6, <2>1 DEF Upgrades, Name, Target
<1>7. CASE MigrationEnds \/ MigrationFails
  BY <1>7 DEF MigrationEnds, MigrationFails, Name, Target
<1>8. CASE AlreadyRestored \/ RefusesRecovery \/ WritesEvidence
  BY <1>8 DEF AlreadyRestored, RefusesRecovery, WritesEvidence, Recovered
<1>9. CASE Quarantines
  BY <1>9 DEF Quarantines, Name, Target
<1>10. CASE Copies
  BY <1>10 DEF Copies, Evidenced
<1>11. CASE Works
  <2>1. db \in Files /\ db' \in Files /\ db'.data = db.data \cup {written + 1}
    BY <1>11, WorksOnFile
  <2>2. 1..written' \subseteq db'.data
    BY <1>11, <2>1 DEF Works
  <2>3. QED
    BY <1>11, <2>1, <2>2 DEF Works
<1>12. CASE Crash
  BY <1>12 DEF Crash
<1>13. ASSUME NEW r \in Releases, NEW v \in {0, First}, Deploys(r, v) PROVE MgWhole'
  BY <1>13 DEF Deploys
<1>14. CASE UNCHANGED mgVars
  BY <1>14 DEF mgVars, Name, Target
<1>15. QED
  BY <1>1, <1>2, <1>3, <1>4, <1>5, <1>6, <1>7, <1>8, <1>9, <1>10, <1>11, <1>12, <1>13,
     <1>14 DEF MgNext

(* A release runs on its own schema version and on everything written,     *)
(* through failures of the migration and of the restoration, as long as    *)
(* nobody asked for a rollback, no old backup was used again, and no start *)
(* died between the quarantine and the copy.                               *)
THEOREM RunsWithEverything == MgSpec => []RunsOnEverything
<1>1. MgInit => MgWhole
  <2> SUFFICES ASSUME MgInit PROVE MgWhole
    OBVIOUS
  <2>1. db \in Files
    BY FirstIsFile DEF MgInit
  <2>2. QED
    BY <2>1 DEF MgInit, MgWhole
<1>2. MgInv /\ MgWhole => RunsOnEverything
  BY DEF MgInv, MgShape, MgWhole, RunsOnEverything
<1>3. QED
  BY <1>1, <1>2, MgWholeAtStep, MgInvariant, PTL DEF MgSpec
=============================================================================
