------------------------------ MODULE Migration ------------------------------
(***************************************************************************)
(* The conversion of a project's state from V2 to V3: the V2 bytes are      *)
(* staged with a manifest and the converted state in a temporary directory, *)
(* the archive gets its name by one rename and the state by another, and a  *)
(* failure puts back what the call had changed.  Any file operation may     *)
(* fail and a call may die between any two.  Between calls users go on      *)
(* writing V2 state (wiki commands, init --force), restore the archive, or  *)
(* rename the directory of the former brand.  A V2 state is an edition, its *)
(* bytes; a V3 state is known by the edition it was converted from.         *)
(***************************************************************************)
EXTENDS Integers, FiniteSets

CONSTANTS Migrators,             \* processes that may call migrateOnDisk
          MigrationsOverlap,     \* whether calls overlap each other and the users
          MaxEditions,           \* V2 states written
          MaxMigrationFaults     \* file operations that fail, and calls that die

ASSUME MigrationAssumption ==
    /\ Migrators # {}
    /\ MigrationsOverlap \in BOOLEAN
    /\ MaxEditions \in Nat \ {0} /\ MaxMigrationFaults \in Nat

VARIABLES
    stateFile,       \* state.json
    archive,         \* legacy/v2: state.json and manifest.json
    tempDir,         \* .migration-v3.tmp
    legacyDir,       \* the state of .cursor-harness
    migrations,      \* the calls under way
    current,         \* the V2 state the users wrote or restored last
    editions, migrationFaults

migrationVars == <<stateFile, archive, tempDir, legacyDir, migrations, current, editions,
                   migrationFaults>>

Gone == 0
NoFiles == [state |-> Gone, manifest |-> Gone]
NoDir == [there |-> FALSE, files |-> NoFiles]
NoTemp == [there |-> FALSE, files |-> NoFiles, converted |-> Gone]
NoState == [version |-> "none", edition |-> Gone]
V2(e) == [version |-> "v2", edition |-> e]
V3(e) == [version |-> "v3", edition |-> e]
Torn == [version |-> "torn", edition |-> Gone]
NoMigration == [pc |-> "idle", original |-> Gone, archived |-> FALSE, committed |-> FALSE,
                foundState |-> NoState, foundArchive |-> NoDir]

Files == [state : 0 .. MaxEditions, manifest : 0 .. MaxEditions]
Dirs == [there : BOOLEAN, files : Files]
StateFiles == [version : {"none", "v2", "v3", "torn"}, edition : 0 .. MaxEditions]

MigrationTypeOK ==
    /\ stateFile \in StateFiles
    /\ archive \in Dirs
    /\ tempDir \in [there : BOOLEAN, files : Files, converted : 0 .. MaxEditions]
    /\ legacyDir \in 0 .. MaxEditions
    /\ migrations \in [Migrators ->
          [pc : {"idle", "clean", "stage", "staged", "compare", "archive", "commit", "tidy",
                 "undo", "rewrite", "undoArchive", "undoTemp"},
           original : 0 .. MaxEditions, archived : BOOLEAN, committed : BOOLEAN,
           foundState : StateFiles, foundArchive : Dirs]]
    /\ current \in 1 .. MaxEditions
    /\ editions \in 1 .. MaxEditions
    /\ migrationFaults \in 0 .. MaxMigrationFaults

(* A project with a V2 state, in the directory of the brand or of the former one. *)
MigrationInit ==
    /\ \/ stateFile = V2(1) /\ legacyDir = Gone
       \/ stateFile = NoState /\ legacyDir = 1
    /\ archive = NoDir /\ tempDir = NoTemp
    /\ migrations = [m \in Migrators |-> NoMigration]
    /\ current = 1 /\ editions = 1 /\ migrationFaults = 0

-----------------------------------------------------------------------------
(* Calls and users' commands run one at a time unless they overlap. *)
Alone == MigrationsOverlap \/ \A m \in Migrators : migrations[m].pc = "idle"

At(m, pc) == migrations[m].pc = pc
StepsTo(m, pc) == migrations' = [migrations EXCEPT ![m].pc = pc]
MigrationEnds(m) == migrations' = [migrations EXCEPT ![m] = NoMigration]

(* requireLeanState, migrate --apply: a V3 state is taken as it is, a state that
   cannot be parsed is an error, and a V2 state is read to be converted. *)
Migrate(m) ==
    /\ At(m, "idle") /\ Alone
    /\ stateFile.version = "v2"
    /\ migrations' = [migrations EXCEPT ![m] =
          [NoMigration EXCEPT !.pc = "clean", !.original = stateFile.edition,
                              !.foundState = stateFile, !.foundArchive = archive]]
    /\ UNCHANGED <<stateFile, archive, tempDir, legacyDir, current, editions, migrationFaults>>

(* The directory a call that died has left is removed. *)
CleanTemp(m) ==
    /\ At(m, "clean")
    /\ tempDir' = NoTemp
    /\ StepsTo(m, "stage")
    /\ UNCHANGED <<stateFile, archive, legacyDir, current, editions, migrationFaults>>

(* The bytes that were read, and a manifest with their digest.  A call that dies here
   leaves less of them, which nobody reads: the directory is removed first. *)
StageArchive(m) ==
    /\ At(m, "stage")
    /\ tempDir' = [tempDir EXCEPT !.there = TRUE,
          !.files = [state |-> migrations[m].original, manifest |-> migrations[m].original]]
    /\ StepsTo(m, "staged")
    /\ UNCHANGED <<stateFile, archive, legacyDir, current, editions, migrationFaults>>

(* Writing the converted state needs the directory, which another call may have removed. *)
StageState(m) ==
    /\ At(m, "staged") /\ tempDir.there
    /\ tempDir' = [tempDir EXCEPT !.converted = migrations[m].original]
    /\ StepsTo(m, IF archive.there THEN "compare" ELSE "archive")
    /\ UNCHANGED <<stateFile, archive, legacyDir, current, editions, migrationFaults>>

(* Mutant: an archive that is there is taken for the one of this state. *)
BugArchiveMatches(m) == archive.files.state # Gone /\ archive.files.manifest # Gone

(* The archive that is there holds the bytes to be archived, and its manifest says so. *)
ArchiveMatches(m) ==
    /\ archive.files.state = migrations[m].original
    /\ archive.files.manifest = migrations[m].original

CompareArchive(m) ==
    /\ At(m, "compare")
    /\ StepsTo(m, IF ArchiveMatches(m) THEN "commit" ELSE "undo")
    /\ UNCHANGED <<stateFile, archive, tempDir, legacyDir, current, editions, migrationFaults>>

(* The rename onto an archive that has appeared since fails, and so does that of a
   staged archive that is gone. *)
CommitArchive(m) ==
    /\ At(m, "archive") /\ ~archive.there /\ tempDir.files # NoFiles
    /\ archive' = [there |-> TRUE, files |-> tempDir.files]
    /\ tempDir' = [tempDir EXCEPT !.files = NoFiles]
    /\ migrations' = [migrations EXCEPT ![m].pc = "commit", ![m].archived = TRUE]
    /\ UNCHANGED <<stateFile, legacyDir, current, editions, migrationFaults>>

CommitState(m) ==
    /\ At(m, "commit") /\ tempDir.converted # Gone
    /\ stateFile' = V3(tempDir.converted)
    /\ tempDir' = [tempDir EXCEPT !.converted = Gone]
    /\ migrations' = [migrations EXCEPT ![m].pc = "tidy", ![m].committed = TRUE]
    /\ UNCHANGED <<archive, legacyDir, current, editions, migrationFaults>>

TidyTemp(m) ==
    /\ At(m, "tidy")
    /\ tempDir' = NoTemp
    /\ MigrationEnds(m)
    /\ UNCHANGED <<stateFile, archive, legacyDir, current, editions, migrationFaults>>

-----------------------------------------------------------------------------
(* What another call has moved away or put in place makes an operation fail. *)
PulledAway(m) ==
    \/ At(m, "staged") /\ ~tempDir.there
    \/ At(m, "archive") /\ (archive.there \/ tempDir.files = NoFiles)
    \/ At(m, "commit") /\ tempDir.converted = Gone

InTry(m) == migrations[m].pc \in {"stage", "staged", "compare", "archive", "commit", "tidy"}

(* An operation of the conversion fails: what it changed is undone. *)
StepFails(m) ==
    /\ InTry(m)
    /\ PulledAway(m) \/ migrationFaults < MaxMigrationFaults
    /\ migrationFaults' = IF PulledAway(m) THEN migrationFaults ELSE migrationFaults + 1
    /\ StepsTo(m, "undo")
    /\ UNCHANGED <<stateFile, archive, tempDir, legacyDir, current, editions>>

(* The state is written back in place, not by a rename: it is cut off first. *)
UndoState(m) ==
    /\ At(m, "undo")
    /\ IF migrations[m].committed
       THEN stateFile' = Torn /\ StepsTo(m, "rewrite")
       ELSE UNCHANGED stateFile /\ StepsTo(m, "undoArchive")
    /\ UNCHANGED <<archive, tempDir, legacyDir, current, editions, migrationFaults>>

RewriteState(m) ==
    /\ At(m, "rewrite")
    /\ stateFile' = V2(migrations[m].original)
    /\ StepsTo(m, "undoArchive")
    /\ UNCHANGED <<archive, tempDir, legacyDir, current, editions, migrationFaults>>

(* An archive this call put in place is removed, file by file and then the directory;
   one that was there before is not touched. *)
UndoArchive(m) ==
    /\ At(m, "undoArchive")
    /\ IF migrations[m].archived /\ archive.there
       THEN /\ IF archive.files = NoFiles
               THEN archive' = NoDir
               ELSE \E f \in {"state", "manifest"} :
                       /\ archive.files[f] # Gone
                       /\ archive' = [archive EXCEPT !.files[f] = Gone]
            /\ UNCHANGED migrations
       ELSE UNCHANGED archive /\ StepsTo(m, "undoTemp")
    /\ UNCHANGED <<stateFile, tempDir, legacyDir, current, editions, migrationFaults>>

UndoTemp(m) ==
    /\ At(m, "undoTemp")
    /\ tempDir' = NoTemp
    /\ MigrationEnds(m)
    /\ UNCHANGED <<stateFile, archive, legacyDir, current, editions, migrationFaults>>

(* A call dies, or fails where nothing is undone any more: before the first write or
   in the undoing itself. *)
MigrationDies(m) ==
    /\ ~At(m, "idle")
    /\ migrationFaults < MaxMigrationFaults
    /\ migrationFaults' = migrationFaults + 1
    /\ MigrationEnds(m)
    /\ UNCHANGED <<stateFile, archive, tempDir, legacyDir, current, editions>>

-----------------------------------------------------------------------------
(* A wiki command writes the V2 state it read; init writes an empty one where there
   is none and, with --force, over any. *)
UserWritesV2 ==
    /\ Alone /\ editions < MaxEditions
    /\ editions' = editions + 1
    /\ stateFile' = V2(editions + 1)
    /\ current' = editions + 1
    /\ UNCHANGED <<archive, tempDir, legacyDir, migrations, migrationFaults>>

(* The documented way back: the archived bytes become the state again. *)
UserRestores ==
    /\ Alone
    /\ archive.there /\ archive.files.state # Gone
    /\ stateFile' = V2(archive.files.state)
    /\ current' = archive.files.state
    /\ UNCHANGED <<archive, tempDir, legacyDir, migrations, editions, migrationFaults>>

(* migrate rename: the directory of the former brand gets the new name where there is
   none; with both it is an error, or with --force nothing moves. *)
RenameHarnessDirs ==
    /\ Alone
    /\ legacyDir # Gone /\ stateFile = NoState
    /\ stateFile' = V2(legacyDir)
    /\ legacyDir' = Gone
    /\ current' = legacyDir
    /\ UNCHANGED <<archive, tempDir, migrations, editions, migrationFaults>>

MigrationNext ==
    \/ \E m \in Migrators :
          \/ Migrate(m) \/ CleanTemp(m) \/ StageArchive(m) \/ StageState(m) \/ CompareArchive(m)
          \/ CommitArchive(m) \/ CommitState(m) \/ TidyTemp(m)
          \/ StepFails(m) \/ UndoState(m) \/ RewriteState(m) \/ UndoArchive(m) \/ UndoTemp(m)
          \/ MigrationDies(m)
    \/ UserWritesV2 \/ UserRestores \/ RenameHarnessDirs

MigrationSpec == MigrationInit /\ [][MigrationNext]_migrationVars

-----------------------------------------------------------------------------
(* The bytes of the V2 state in use are whole, as the state or in the archive. *)
BytesAreThere ==
    \/ stateFile = V2(current)
    \/ archive.there /\ archive.files.state = current
    \/ stateFile = NoState /\ legacyDir = current

(* The original is kept: whatever fails or dies, retries and returns, the V2 bytes in
   use are whole somewhere; a V3 state stands beside a whole archive of the bytes it
   was converted from; and a call that failed and has undone its work leaves state and
   archive as it found them. (disk.ts, migrateOnDisk: "archived verbatim before StateV3
   becomes authoritative"; docs/lean-0.3.md, Compatibility bridge) *)
OriginalKept ==
    /\ BytesAreThere
    /\ stateFile.version = "v3" =>
          archive = [there |-> TRUE,
                     files |-> [state |-> stateFile.edition, manifest |-> stateFile.edition]]
    /\ \A m \in Migrators : At(m, "undoTemp") =>
          stateFile = migrations[m].foundState /\ archive = migrations[m].foundArchive
=============================================================================
