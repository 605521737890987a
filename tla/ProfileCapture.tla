--------------------------- MODULE ProfileCapture ---------------------------
(***************************************************************************)
(* snapshotLiveToProfile (src/src/core/switcher.ts) with the capture       *)
(* transaction of src/src/core/profile-store.ts: the live values and       *)
(* meta.json are staged next to their targets, a durable marker names the  *)
(* entries, each target is moved to a backup and replaced by its staged    *)
(* file, the marker is rewritten as committed, backups and marker go away. *)
(* recoverProfileCaptureTransaction undoes, or finishes, what a crash or   *)
(* an error left behind.                                                   *)
(*                                                                         *)
(* One profile of one CLI, under the CLI's mutation lock: one process at a *)
(* time, which may be killed between any two file operations.  Every       *)
(* operation is followed by an fsync of the directory, so it may also take *)
(* effect and still be reported as failed.                                 *)
(***************************************************************************)
EXTENDS Integers, FiniteSetsExt

CONSTANTS
  NoFile,           \* the path does not exist
  Last,             \* artifacts 1..Last-1 are credentials, Last is meta.json
  MaxCaptures,      \* bound: captures tried
  MaxFaults,        \* bound: file operations that report an error
  MaxKills          \* bound: kills of the process

Meta == Last
Creds == 1..(Last - 1)
File == 1..Last
Value == (0..MaxCaptures) \union {NoFile}   \* the capture that wrote it; 0: before the first

ASSUME CaptureAssumption ==
  /\ Last \in Nat \ {0, 1}
  /\ MaxCaptures \in Nat \ {0} /\ MaxFaults \in Nat /\ MaxKills \in Nat
  /\ NoFile \notin Nat

VARIABLES
  exists,    \* the profile directory exists
  target,    \* the artifact files of the profile
  stage,     \* their staging files (.recap-*)
  backup,    \* their backup files (.mat-capture-backup-*)
  marker,    \* .mat-capture-txn.json
  at,        \* the next file operation of the running capture
  todo,      \* the artifacts its current loop has not done yet
  selected,  \* the credentials that have a live value
  prior,     \* the values read before the mutation, for the rollback
  present,   \* profileWasPresent
  caller,    \* who called the recovery: "snapshot", "commit" or "handler"
  committed, \* commitProfileCaptureTransaction passed its commit point
  broken,    \* the rollback met an error
  outcome,   \* how the last capture ended
  captures, faults, kills,
  recoveryKilled   \* history: a kill hit a running recovery

files == <<exists, target, stage, backup, marker>>
memory == <<selected, prior, present, committed, broken>>
captureVars == <<files, memory, at, todo, caller, outcome, captures, faults, kills, recoveryKilled>>

NoMarker == [phase |-> "none", entries |-> {}, existed |-> {}]
Nothing == [f \in File |-> NoFile]
RecoveryLabels == {"recover", "restore", "unstage"}
CommitLabels == {"move", "place", "seal", "clean", "unmark"}
CaptureLabels == RecoveryLabels \union CommitLabels \union
  {"idle", "mkdir", "meta", "read", "stage", "mark", "discard", "rewrite", "remeta"}

CaptureTypeOK ==
  /\ exists \in BOOLEAN
  /\ {target, stage, backup, prior} \subseteq [File -> Value]
  /\ marker \in [phase : {"none", "applying", "committed"},
                 entries : SUBSET File, existed : SUBSET File]
  /\ at \in CaptureLabels
  /\ todo \subseteq File /\ (at = "idle" => todo = {})
  /\ selected \subseteq Creds
  /\ caller \in {"snapshot", "commit", "handler"}
  /\ {present, committed, broken} \subseteq BOOLEAN
  /\ outcome \in {"none", "ok", "error", "broken", "killed", "cut"}
  /\ captures \in 0..MaxCaptures /\ faults \in 0..MaxFaults /\ kills \in 0..MaxKills
  /\ recoveryKilled \in BOOLEAN

\* The profile does not exist yet, or has its meta.json and any credentials.
CaptureInit ==
  /\ exists \in BOOLEAN
  /\ target \in {t \in [File -> {0, NoFile}] :
                   IF exists THEN t[Meta] = 0 ELSE t = Nothing}
  /\ stage = Nothing /\ backup = Nothing /\ marker = NoMarker
  /\ at = "idle" /\ todo = {} /\ selected = {} /\ prior = Nothing
  /\ present = FALSE /\ caller = "snapshot" /\ committed = FALSE /\ broken = FALSE
  /\ outcome = "none" /\ captures = 0 /\ faults = 0 /\ kills = 0
  /\ recoveryKilled = FALSE

Entries == selected \union {Meta}
Put(map, f, v) == [map EXCEPT ![f] = v]

-----------------------------------------------------------------------------
(* Control flow *)

Advance(label, loop) == at' = label /\ todo' = loop /\ UNCHANGED <<caller, outcome>>
\* Mutant: the loop of the last operation is not cleared.
EndKeepsLoop(how) == at' = "idle" /\ outcome' = how /\ UNCHANGED <<todo, caller>>

End(how) == at' = "idle" /\ todo' = {} /\ outcome' = how /\ UNCHANGED caller
CallRecovery(who) ==
  at' = "recover" /\ todo' = marker'.entries /\ caller' = who /\ UNCHANGED outcome

\* Mutant: a commit that was rolled back is reported as done.
RecoveryReturnsDone ==
  CASE caller = "snapshot" -> Advance("read", {})
    [] caller = "commit"   -> Advance("mark", {})
    [] caller = "handler"  -> End("ok")

\* What follows the recovery, by its call site.
RecoveryReturns ==
  CASE caller = "snapshot" -> Advance("read", {})
    [] caller = "commit"   -> Advance("mark", {})
    [] caller = "handler"  -> IF committed THEN End("ok") ELSE Advance("discard", selected)

RecoveryThrows == IF caller = "snapshot" THEN End("error") ELSE Advance("discard", selected)

\* An exception leaves the operation at `at': the recovery, the commit with its
\* own handler, the creation of the profile, or the staging.
Throw ==
  CASE at \in RecoveryLabels -> RecoveryThrows
    [] at \in CommitLabels -> CallRecovery("handler")
    [] at \in {"mkdir", "meta"} -> End("error")
    [] at \in {"stage", "mark"} -> Advance("discard", selected)

\* One file operation and its fsync: `next' follows when both succeed.  With a
\* fault the exception is thrown, whether the operation took effect or not.
Killed == <<kills, recoveryKilled>>
Quiet == UNCHANGED <<memory, captures, Killed>>
Fault == faults < MaxFaults /\ faults' = faults + 1
Operation(effect, next) ==
  /\ \/ effect /\ next /\ UNCHANGED faults
     \/ (effect \/ UNCHANGED files) /\ Fault /\ Throw
  /\ Quiet

\* The assignments of one operation to the files.
Sets(newTarget, newStage, newBackup, newMarker) ==
  /\ target' = newTarget /\ stage' = newStage /\ backup' = newBackup
  /\ marker' = newMarker /\ UNCHANGED exists

-----------------------------------------------------------------------------
(* recoverProfileCaptureTransaction: the entries in reverse order *)

Current == Max(todo)
AfterEntry == Advance("recover", todo \ {Current})

\* A file that is not there needs no operation.
IfAny(map, f, operation) ==
  IF map[f] # NoFile THEN operation ELSE AfterEntry /\ UNCHANGED <<files, faults>> /\ Quiet

NoMarkerFound ==
  /\ at = "recover" /\ marker = NoMarker
  /\ RecoveryReturns /\ UNCHANGED <<files, faults>> /\ Quiet

\* A committed entry only loses its backup.
RecoverCommitted ==
  /\ at = "recover" /\ marker.phase = "committed" /\ todo # {}
  /\ LET f == Current IN
     IF target[f] = NoFile \/ stage[f] # NoFile \/ (backup[f] # NoFile /\ f \notin marker.existed)
     THEN RecoveryThrows /\ UNCHANGED <<files, faults>> /\ Quiet
     ELSE IfAny(backup, f, Operation(Sets(target, stage, Put(backup, f, NoFile), marker),
                                     AfterEntry))

\* An entry of an interrupted capture goes back to its backup, is removed when
\* it did not exist before, and loses its staging file.
RecoverApplying ==
  /\ at = "recover" /\ marker.phase = "applying" /\ todo # {}
  /\ LET f == Current
         removed == Sets(Put(target, f, NoFile), stage, backup, marker)
     IN
     CASE backup[f] # NoFile ->
            IF target[f] # NoFile THEN Operation(removed, Advance("restore", todo))
            ELSE Advance("restore", todo) /\ UNCHANGED <<files, faults>> /\ Quiet
       [] backup[f] = NoFile /\ f \notin marker.existed /\ target[f] # NoFile ->
            Operation(removed, Advance("unstage", todo))
       [] backup[f] = NoFile /\ f \in marker.existed /\ stage[f] = NoFile ->
            RecoveryThrows /\ UNCHANGED <<files, faults>> /\ Quiet
       [] OTHER -> Advance("unstage", todo) /\ UNCHANGED <<files, faults>> /\ Quiet

RestoreBackup ==
  /\ at = "restore"
  /\ LET f == Current IN
     Operation(Sets(Put(target, f, backup[f]), stage, Put(backup, f, NoFile), marker),
               Advance("unstage", todo))

RemoveStage ==
  /\ at = "unstage"
  /\ IfAny(stage, Current, Operation(Sets(target, Put(stage, Current, NoFile), backup, marker),
                                     AfterEntry))

RemoveMarker ==
  /\ at = "recover" /\ marker # NoMarker /\ todo = {}
  /\ Operation(Sets(target, stage, backup, NoMarker), RecoveryReturns)

Recover ==
  \/ NoMarkerFound \/ RecoverCommitted \/ RecoverApplying
  \/ RestoreBackup \/ RemoveStage \/ RemoveMarker
-----------------------------------------------------------------------------
(* snapshotLiveToProfileUnlocked *)

\* The live sources have been read; those without a value are not captured.
BeginCapture(live) ==
  /\ at = "idle" /\ captures < MaxCaptures
  /\ captures' = captures + 1
  /\ selected' = live /\ present' = exists /\ committed' = FALSE /\ broken' = FALSE
  /\ UNCHANGED <<files, prior, faults, Killed>>
  /\ IF exists THEN CallRecovery("snapshot") ELSE Advance("mkdir", {})

\* createProfile, for a profile that did not exist.
CreateDirectory ==
  /\ at = "mkdir"
  /\ Operation(exists' = TRUE /\ UNCHANGED <<target, stage, backup, marker>>,
               Advance("meta", {}))

WriteFirstMeta ==
  /\ at = "meta"
  /\ \/ Operation(Sets(Put(target, Meta, 0), stage, backup, marker), Advance("read", {}))
     \/ \* createProfile removes the directory again before it throws
        /\ Fault /\ End("error") /\ Quiet
        /\ exists' = FALSE /\ target' = Nothing /\ UNCHANGED <<stage, backup, marker>>

ReadPrior ==
  /\ at = "read"
  /\ prior' = [f \in File |-> IF f \in Entries THEN target[f] ELSE NoFile]
  /\ Advance("stage", Entries)
  /\ UNCHANGED <<files, selected, present, committed, broken, captures, faults, Killed>>

First == Min(todo)

\* stageProfileFile of each live value, then of the new meta.json, which is made
\* from the meta.json on disk.
StageFile ==
  /\ at = "stage"
  /\ LET f == First IN
     IF f = Meta /\ target[Meta] = NoFile
     THEN Throw /\ UNCHANGED <<files, faults>> /\ Quiet
     ELSE Operation(Sets(target, Put(stage, f, captures), backup, marker),
                    IF f = Meta THEN CallRecovery("commit") ELSE Advance("stage", todo \ {f}))

-----------------------------------------------------------------------------
(* commitProfileCaptureTransaction *)

Existing == {f \in Entries : target[f] # NoFile}
\* Mutant: the staged file is renamed over the old one without a backup.
PlaceOver(loop, existed) == IF loop = {} THEN Advance("seal", {}) ELSE Advance("place", loop)

MoveOrPlace(loop, existed) ==
  IF loop = {} THEN Advance("seal", {})
  ELSE Advance(IF Min(loop) \in existed THEN "move" ELSE "place", loop)

\* Mutant: only artifacts that existed are named in the marker.
MarkExisting ==
  /\ at = "mark"
  /\ Operation(
       Sets(target, stage, backup,
            [phase |-> "applying", entries |-> Existing, existed |-> Existing]),
       MoveOrPlace(Entries, Existing))

WriteMarker ==
  /\ at = "mark"
  /\ Operation(
       Sets(target, stage, backup,
            [phase |-> "applying", entries |-> Entries, existed |-> Existing]),
       MoveOrPlace(Entries, Existing))

MoveToBackup ==
  /\ at = "move"
  /\ LET f == First IN
     Operation(Sets(Put(target, f, NoFile), stage, Put(backup, f, target[f]), marker),
               Advance("place", todo))

PlaceStaged ==
  /\ at = "place"
  /\ LET f == First IN
     Operation(Sets(Put(target, f, stage[f]), Put(stage, f, NoFile), backup, marker),
               MoveOrPlace(todo \ {f}, marker.existed))

\* The commit point: `committed' is set only after the fsync.
SealMarker ==
  /\ at = "seal"
  /\ LET seal == Sets(target, stage, backup, [marker EXCEPT !.phase = "committed"]) IN
     \/ /\ seal /\ committed' = TRUE
        /\ Advance("clean", marker.existed)
        /\ UNCHANGED <<selected, prior, present, broken, captures, faults, Killed>>
     \/ (seal \/ UNCHANGED files) /\ Fault /\ Throw /\ Quiet

CleanBackup ==
  /\ at = "clean"
  /\ LET f == First IN
     Operation(Sets(target, stage, Put(backup, f, NoFile), marker),
               Advance(IF todo = {f} THEN "unmark" ELSE "clean", todo \ {f}))

Unmark ==
  /\ at = "unmark"
  /\ Operation(Sets(target, stage, backup, NoMarker), End("ok"))

Commit ==
  \/ WriteMarker \/ MoveToBackup \/ PlaceStaged \/ SealMarker \/ CleanBackup \/ Unmark

-----------------------------------------------------------------------------
(* The rollback in the catch block of snapshotLiveToProfileUnlocked *)

\* Mutant: the errors of the rollback are not collected.
AttemptQuietly(effect, next) ==
  /\ UNCHANGED <<memory, captures, Killed>>
  /\ \/ effect /\ UNCHANGED faults /\ next
     \/ (effect \/ UNCHANGED files) /\ Fault /\ next

\* A rollback operation that fails is noted and the rollback goes on.
Attempt(effect, next) ==
  /\ UNCHANGED <<selected, prior, present, committed, captures, Killed>>
  /\ \/ effect /\ UNCHANGED <<broken, faults>> /\ next
     \/ (effect \/ UNCHANGED files) /\ Fault /\ broken' = TRUE /\ next

\* discardStagedFile swallows its own errors; the staged meta.json is not discarded.
Discard ==
  /\ at = "discard"
  /\ IF todo = {} THEN Advance("rewrite", selected) /\ UNCHANGED <<files, faults>> /\ Quiet
     ELSE LET f == First IN
          /\ Advance("discard", todo \ {f})
          /\ \/ Sets(target, Put(stage, f, NoFile), backup, marker) /\ UNCHANGED faults
             \/ UNCHANGED files /\ Fault
          /\ Quiet

RewritePrior ==
  /\ at = "rewrite"
  /\ IF todo = {} THEN Advance("remeta", {}) /\ UNCHANGED <<files, faults>> /\ Quiet
     ELSE LET f == First IN
          Attempt(Sets(Put(target, f, prior[f]), stage, backup, marker),
                  Advance("rewrite", todo \ {f}))

\* A new profile is deleted, an old one gets its meta.json back byte for byte.
RollbackMeta ==
  /\ at = "remeta"
  /\ Attempt(
       IF present THEN Sets(Put(target, Meta, prior[Meta]), stage, backup, marker)
       ELSE /\ exists' = FALSE /\ target' = Nothing /\ stage' = Nothing
            /\ backup' = Nothing /\ marker' = NoMarker,
       End(IF broken' THEN "broken" ELSE "error"))

Rollback == Discard \/ RewritePrior \/ RollbackMeta

-----------------------------------------------------------------------------
\* SIGKILL: the files stay, the memory of the process is gone.  `cut' is a kill
\* while the rollback puts the prior values back.
Kill ==
  /\ at # "idle" /\ kills < MaxKills
  /\ kills' = kills + 1
  /\ recoveryKilled' = (recoveryKilled \/ at \in RecoveryLabels)
  /\ End(IF at \in {"rewrite", "remeta"} THEN "cut" ELSE "killed")
  /\ UNCHANGED <<files, memory, captures, faults>>

CaptureNext ==
  \/ \E live \in SUBSET Creds : BeginCapture(live)
  \/ CreateDirectory \/ WriteFirstMeta \/ ReadPrior \/ StageFile
  \/ Commit \/ Recover \/ Rollback \/ Kill

CaptureSpec == CaptureInit /\ [][CaptureNext]_captureVars

-----------------------------------------------------------------------------
\* The artifacts a successful recovery would leave behind.
Effective(f) ==
  IF marker.phase # "applying" \/ f \notin marker.entries THEN target[f]
  ELSE IF backup[f] # NoFile THEN backup[f]
  ELSE IF f \in marker.existed THEN target[f]
  ELSE NoFile

Image == [f \in File |-> Effective(f)]
Abstract == INSTANCE AbstractProfile WITH image <- Image

\* However often the process is killed, the profile that recovery yields is the
\* complete prior set or the complete captured set, never a mixture
\* (profile-store.ts:364).
ImplementsAbstractProfile == Abstract!Init /\ [][faults' = 0 => [Abstract!Next]_Image]_captureVars

\* Whatever interrupted a capture, the next one can recover the profile: every
\* entry of the marker still has what the recovery needs for it
\* (profile-store.ts:366).
Recoverable ==
  at = "idle" =>
    \A f \in marker.entries :
      /\ marker.phase = "applying" /\ f \in marker.existed =>
           backup[f] # NoFile \/ stage[f] # NoFile
      /\ marker.phase = "committed" =>
           /\ target[f] # NoFile /\ stage[f] = NoFile
           /\ backup[f] # NoFile => f \in marker.existed

\* The same for captures that were killed, as long as no recovery was and no file
\* operation failed.
CommitRecoverable == ~recoveryKilled /\ faults = 0 => Recoverable

\* A capture that reports success stored every live value and meta.json and left
\* no transaction behind; one that reports a clean failure stored none of them,
\* whatever failed or was killed in it or before it.
OutcomeTruthful ==
  at = "idle" =>
    /\ outcome = "ok" => marker = NoMarker /\ \A f \in Entries : target[f] = captures
    /\ outcome = "error" => \A f \in File : Effective(f) # captures

\* A capture that ended leaves none of its artifacts next to prior ones
\* (profile-store.ts:367), whatever failed or was killed in it or before it, with
\* two exceptions: it reported that the rollback failed too, or it was killed
\* while the rollback put the prior values back.
NeverSplit ==
  at = "idle" /\ outcome \notin {"broken", "cut"} =>
    \/ \A f \in Entries : Effective(f) = captures
    \/ \A f \in Entries : Effective(f) # captures

\* Between captures, whoever reads the profile (a restore does, without calling
\* the recovery) finds a complete set of artifacts.
ReadersSeeWholeSet == at = "idle" => \A f \in File : target[f] = Effective(f)
=============================================================================
