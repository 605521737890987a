-------------------------- MODULE SessionRecapture --------------------------
(***************************************************************************)
(* recaptureSession (src/src/core/session.ts): when a session ends, the    *)
(* credentials in its directory go back to its profile.  Under the         *)
(* profile's recapture lock, or without it when it cannot be had, the      *)
(* stored values are read as backups, every new value is staged next to    *)
(* its target, the staged files are renamed over the targets, and what     *)
(* was committed is compared and restored when a later rename fails.       *)
(*                                                                         *)
(* Several sessions of one profile, each ending once.  The lock is the     *)
(* one RecaptureLock models; here it is held by at most one session, and   *)
(* that of a killed one is free again.                                     *)
(***************************************************************************)
EXTENDS Integers, FiniteSetsExt

CONSTANTS
  Session,
  NumCreds,     \* the credential files of the CLI, in the order of its plan
  Base,         \* a value stored before any of these sessions
  Missing,      \* the profile has no such file
  Nobody,
  MaxTroubles   \* bound: failing or slow file operations and kills, in all sessions

Cred == 1..NumCreds
Value == Session \union {Base, Missing}   \* the session a value comes from

ASSUME RecaptureAssumption ==
  /\ NumCreds \in Nat \ {0} /\ MaxTroubles \in Nat
  /\ {Base, Missing, Nobody} \intersect Session = {} /\ Base # Missing

VARIABLES
  stored,     \* the credential files of the profile
  identity,   \* the values whose fingerprints meta.json records
  holder,     \* the session that holds the recapture lock
  step,       \* the next operation of each session
  entry,      \* how it entered its recapture: "none", "locked" or "free"
  kept,       \* the credentials its directory still had when it ended
  backup,     \* the stored values it read
  todo,       \* the credentials its current loop has not done yet
  committed,  \* those it renamed and did not restore
  staged,     \* its staging files (.recap-*) on disk
  late,       \* operations given up but not cancelled
  result,     \* "none", "ok" or "error"
  troubles,
  tainted,    \* history: a recapture was free, killed half-way, or failed to restore
  leaked      \* history: the sessions whose staging files a kill, a failed removal, or an
              \* exit before a late one was removed left behind

profile == <<stored, identity>>
histories == <<troubles, tainted, leaked>>
recaptureVars == <<profile, holder, step, entry, kept, backup, todo, committed, staged,
                   late, result, histories>>

Steps == {"running", "waiting", "backup", "stage", "commit", "identity", "discard",
          "compare", "restore", "release", "ended"}
InLock == Steps \ {"running", "waiting", "ended"}
Late == {"stage", "landed", "restore"} \X Cred

RecaptureTypeOK ==
  /\ stored \in [Cred -> Value] /\ identity \in [Cred -> Value]
  /\ holder \in Session \union {Nobody}
  /\ step \in [Session -> Steps]
  /\ entry \in [Session -> {"none", "locked", "free"}]
  /\ {kept[s] : s \in Session} \union {todo[s] : s \in Session}
       \union {committed[s] : s \in Session} \union {staged[s] : s \in Session} \subseteq SUBSET Cred
  /\ backup \in [Session -> [Cred -> Value]]
  /\ \A s \in Session : late[s] \subseteq Late
  /\ result \in [Session -> {"none", "ok", "error"}]
  /\ troubles \in 0..MaxTroubles /\ tainted \in BOOLEAN /\ leaked \subseteq Session
  /\ \A s \in Session :
       /\ holder = s => entry[s] = "locked" /\ step[s] \in InLock
       /\ step[s] \in InLock /\ entry[s] = "locked" => holder = s
       /\ todo[s] # {} => todo[s] \subseteq kept[s] /\ step[s] \in InLock

RecaptureInit ==
  /\ stored \in [Cred -> {Base, Missing}] /\ identity = stored
  /\ holder = Nobody
  /\ step = [s \in Session |-> "running"] /\ entry = [s \in Session |-> "none"]
  /\ kept = [s \in Session |-> {}] /\ todo = kept /\ committed = kept /\ staged = kept
  /\ backup = [s \in Session |-> [c \in Cred |-> Missing]]
  /\ late = [s \in Session |-> {}] /\ result = [s \in Session |-> "none"]
  /\ troubles = 0 /\ tainted = FALSE /\ leaked = {}

-----------------------------------------------------------------------------
InStep(s, label) == step[s] = label
MoveTo(s, label, loop) ==
  step' = [step EXCEPT ![s] = label] /\ todo' = [todo EXCEPT ![s] = loop]
Trouble == troubles < MaxTroubles /\ troubles' = troubles + 1
Fine == UNCHANGED histories
Spoils(bad) == tainted' = (tainted \/ bad)
Leaks(s) == leaked' = leaked \union {s}
Done(s, how) == result' = [result EXCEPT ![s] = how]

\* collectRecaptureItems: the copies that are still there; without any, the
\* recapture is over.
EndSession(s) ==
  /\ InStep(s, "running")
  /\ \E found \in SUBSET Cred :
       /\ kept' = [kept EXCEPT ![s] = found]
       /\ MoveTo(s, IF found = {} THEN "ended" ELSE "waiting", {})
  /\ UNCHANGED <<profile, holder, entry, backup, committed, staged, late, result, histories>>

Enter(s, how) ==
  /\ InStep(s, "waiting")
  /\ entry' = [entry EXCEPT ![s] = how] /\ MoveTo(s, "backup", kept[s])
  /\ UNCHANGED <<profile, kept, backup, committed, staged, late, result, troubles, leaked>>

\* Mutant: the time-out of the wait is taken for the lock.
AcquireAnyway(s) == Enter(s, "locked") /\ UNCHANGED <<holder, tainted>>

AcquireRecapture(s) == holder = Nobody /\ Enter(s, "locked") /\ holder' = s /\ UNCHANGED tainted

\* The wait timed out or an operation of the lock failed: on without it.
DegradeRecapture(s) == Enter(s, "free") /\ tainted' = TRUE /\ UNCHANGED holder

\* The values to come back to are read inside the lock.  A failed read ends the
\* recapture before it changed anything.
ReadBackup(s) ==
  /\ InStep(s, "backup")
  /\ LET c == Min(todo[s]) IN
     \/ /\ backup' = [backup EXCEPT ![s][c] = stored[c]]
        /\ IF todo[s] = {c} THEN MoveTo(s, "stage", kept[s]) ELSE MoveTo(s, "backup", todo[s] \ {c})
        /\ UNCHANGED result /\ Fine
     \/ Trouble /\ MoveTo(s, "release", {}) /\ Done(s, "error") /\ UNCHANGED <<backup, tainted, leaked>>
  /\ UNCHANGED <<profile, holder, entry, kept, committed, staged, late>>

-----------------------------------------------------------------------------
(* Phase 1 *)

\* withTimeout gives up waiting, but does not cancel the write.
StageTimesOut(s, c) == late' = [late EXCEPT ![s] = @ \union {<<"stage", c>>}] /\ UNCHANGED staged

StageFile(s) ==
  /\ InStep(s, "stage")
  /\ LET c == Min(todo[s]) IN
     \/ /\ staged' = [staged EXCEPT ![s] = @ \union {c}]
        /\ IF todo[s] = {c} THEN MoveTo(s, "commit", kept[s]) ELSE MoveTo(s, "stage", todo[s] \ {c})
        /\ UNCHANGED <<late, result>> /\ Fine
     \/ /\ Trouble /\ MoveTo(s, "discard", staged[s]) /\ Done(s, "error")
        /\ StageTimesOut(s, c) \/ UNCHANGED <<staged, late>>
        /\ UNCHANGED <<tainted, leaked>>
  /\ UNCHANGED <<profile, holder, entry, kept, backup, committed>>

\* A write that was given up lands: its staging file appears and is removed.
LateStageLands(s, c) ==
  /\ <<"stage", c>> \in late[s]
  /\ late' = [late EXCEPT ![s] = (@ \ {<<"stage", c>>}) \union {<<"landed", c>>}]
  /\ staged' = [staged EXCEPT ![s] = @ \union {c}]
  /\ UNCHANGED <<profile, holder, step, entry, kept, backup, todo, committed, result>> /\ Fine

LateStageRemoved(s, c) ==
  /\ <<"landed", c>> \in late[s]
  /\ late' = [late EXCEPT ![s] = @ \ {<<"landed", c>>}]
  /\ \/ staged' = [staged EXCEPT ![s] = @ \ {c}] /\ Fine
     \/ Trouble /\ Leaks(s) /\ UNCHANGED <<staged, tainted>>
  /\ UNCHANGED <<profile, holder, step, entry, kept, backup, todo, committed, result>>

-----------------------------------------------------------------------------
(* Phase 2: each rename is waited for *)

CommitFile(s) ==
  /\ InStep(s, "commit")
  /\ LET c == Min(todo[s]) IN
     \/ /\ stored' = [stored EXCEPT ![c] = s]
        /\ staged' = [staged EXCEPT ![s] = @ \ {c}]
        /\ committed' = [committed EXCEPT ![s] = @ \union {c}]
        /\ IF todo[s] = {c} THEN MoveTo(s, "identity", {}) /\ Done(s, "ok")
           ELSE MoveTo(s, "commit", todo[s] \ {c}) /\ UNCHANGED result
        /\ Fine
     \/ /\ Trouble /\ MoveTo(s, "discard", todo[s]) /\ Done(s, "error")
        /\ UNCHANGED <<stored, staged, committed, tainted, leaked>>
  /\ UNCHANGED <<identity, holder, entry, kept, backup, late>>

\* Mutant: a credential the session had lost counts as missing.
CapturedOnly(s, c) == IF c \in kept[s] THEN s ELSE Missing

\* identitySourceForSaveAs: the value just captured, or the stored one.
IdentitySource(s, c) == IF c \in kept[s] THEN s ELSE stored[c]

\* The fingerprints of what the profile stores now; an error is only announced.
RecordIdentity(s) ==
  /\ InStep(s, "identity")
  /\ \/ identity' = [c \in Cred |-> IdentitySource(s, c)] /\ Fine
     \/ Trouble /\ Spoils(TRUE) /\ UNCHANGED <<identity, leaked>>
  /\ MoveTo(s, "release", {})
  /\ UNCHANGED <<stored, holder, entry, kept, backup, committed, staged, late, result>>

-----------------------------------------------------------------------------
(* The error paths *)

\* Mutant: the files that were renamed already are left as they are.
ForgetCommitted(s) == MoveTo(s, "release", {})

UndoCommitted(s) ==
  IF committed[s] = {} THEN MoveTo(s, "release", {}) ELSE MoveTo(s, "compare", committed[s])

\* The staged files that were not renamed are removed; an error is swallowed.
Discard(s) ==
  /\ InStep(s, "discard")
  /\ IF todo[s] = {} THEN UndoCommitted(s) /\ Fine /\ UNCHANGED staged
     ELSE LET c == Min(todo[s]) IN
          /\ MoveTo(s, "discard", todo[s] \ {c})
          /\ \/ staged' = [staged EXCEPT ![s] = @ \ {c}] /\ Fine
             \/ Trouble /\ Leaks(s) /\ UNCHANGED <<staged, tainted>>
  /\ UNCHANGED <<profile, holder, entry, kept, backup, committed, late, result>>

AfterRestore(s, c) ==
  /\ committed' = [committed EXCEPT ![s] = @ \ {c}]
  /\ IF todo[s] = {c} THEN MoveTo(s, "release", {}) ELSE MoveTo(s, "compare", todo[s] \ {c})

\* rollbackCred: a value somebody else has written meanwhile is left alone.
Compare(s) ==
  /\ InStep(s, "compare")
  /\ LET c == Max(todo[s]) IN
     \/ /\ stored[c] = s /\ MoveTo(s, "restore", todo[s]) /\ UNCHANGED committed /\ Fine
     \/ /\ stored[c] # s /\ AfterRestore(s, c) /\ Fine
     \/ Trouble /\ Spoils(TRUE) /\ AfterRestore(s, c) /\ UNCHANGED leaked
  /\ UNCHANGED <<profile, holder, entry, kept, backup, staged, late, result>>

\* The write of the old value is given up after the timeout, like any other.
Restore(s) ==
  /\ InStep(s, "restore")
  /\ LET c == Max(todo[s]) IN
     /\ AfterRestore(s, c)
     /\ \/ stored' = [stored EXCEPT ![c] = backup[s][c]] /\ UNCHANGED late /\ Fine
        \/ /\ Trouble /\ Spoils(TRUE) /\ UNCHANGED <<stored, leaked>>
           /\ \/ UNCHANGED late
              \/ /\ backup[s][c] # Missing
                 /\ late' = [late EXCEPT ![s] = @ \union {<<"restore", c>>}]
  /\ UNCHANGED <<identity, holder, entry, kept, backup, staged, result>>

LateRestoreLands(s, c) ==
  /\ <<"restore", c>> \in late[s]
  /\ late' = [late EXCEPT ![s] = @ \ {<<"restore", c>>}]
  /\ stored' = [stored EXCEPT ![c] = backup[s][c]]
  /\ UNCHANGED <<identity, holder, step, entry, kept, backup, todo, committed, staged, result>>
  /\ Fine

\* The finally block of recaptureSession.
ReleaseRecapture(s) ==
  /\ InStep(s, "release")
  /\ MoveTo(s, "ended", {})
  /\ holder' = IF holder = s THEN Nobody ELSE holder
  /\ UNCHANGED <<profile, entry, kept, backup, committed, staged, late, result>> /\ Fine

\* SIGKILL: what the session had staged stays; its lock is reclaimed.
KillSession(s) ==
  /\ step[s] \in {"running", "waiting"} \union InLock /\ Trouble
  /\ MoveTo(s, "ended", {})
  /\ holder' = IF holder = s THEN Nobody ELSE holder
  /\ late' = [late EXCEPT ![s] = {}]
  /\ IF staged[s] # {} THEN Leaks(s) ELSE UNCHANGED leaked
  /\ Spoils(step[s] \in {"commit", "identity", "discard", "compare", "restore"})
  /\ UNCHANGED <<profile, entry, kept, backup, committed, staged, result>>

\* dispatchSession: once the recapture and the cleanup are done the process exits, whatever
\* writes were given up before: they never land, or are never removed.
ExitMat(s) ==
  /\ InStep(s, "ended") /\ late[s] # {}
  /\ late' = [late EXCEPT ![s] = {}]
  /\ IF \E c \in Cred : <<"landed", c>> \in late[s] THEN Leaks(s) ELSE UNCHANGED leaked
  /\ UNCHANGED <<profile, holder, step, entry, kept, backup, todo, committed, staged, result,
                 troubles, tainted>>

Lands(s, c) == LateStageLands(s, c) \/ LateStageRemoved(s, c) \/ LateRestoreLands(s, c)

RecaptureNext ==
  \E s \in Session :
    \/ EndSession(s) \/ AcquireRecapture(s) \/ DegradeRecapture(s) \/ ReadBackup(s) \/ StageFile(s)
    \/ CommitFile(s) \/ RecordIdentity(s) \/ Discard(s) \/ Compare(s) \/ Restore(s)
    \/ ReleaseRecapture(s) \/ KillSession(s) \/ ExitMat(s)
    \/ \E c \in Cred : Lands(s, c)

RecaptureSpec == RecaptureInit /\ [][RecaptureNext]_recaptureVars

-----------------------------------------------------------------------------
\* The value a recapture in progress would go back to.
Undone(c) ==
  LET undoing == {s \in Session : /\ entry[s] = "locked" /\ c \in committed[s]
                                  /\ step[s] \in {"commit", "discard", "compare", "restore"}}
  IN IF undoing = {} THEN stored[c] ELSE backup[CHOOSE s \in undoing : TRUE][c]

Atomic == INSTANCE AbstractRecapture WITH
  Cred <- Cred, image <- [c \in Cred |-> Undone(c)],
  recaptured <- {s \in Session : result[s] = "ok"}

\* While every recapture of the profile gets the lock and none is killed half-way
\* or fails to restore, each one replaces the credentials of its session as one
\* set or not at all (session.ts:783: with the lock, sessions do not mix).
ImplementsAtomicRecapture ==
  Atomic!Init /\ [][~tainted' => [Atomic!Next]_(Atomic!vars)]_recaptureVars

\* Between recaptures meta.json carries the fingerprints of the very values the
\* profile stores, a rolled back recapture included.
IdentityOfStored == ~tainted /\ holder = Nobody => identity = stored

\* However late a staging write lands after its timeout, its file, which holds a
\* credential, is gone once nothing is under way any more (session.ts:867).  It stays
\* only if the process was killed or exited (cli.tsx:222) before it was removed, or
\* if its removal failed; a write that exits with the process has left none.
LateStageCleaned ==
  \A s \in Session \ leaked : step[s] = "ended" /\ late[s] = {} => staged[s] = {}

\* What the profile records of its credentials is true: the fingerprints are those of the values it
\* stores, and no staged value is left behind by a process that lived long enough to remove it
\* (recaptureSession, recordProfileCapture).
ProfileRecords == IdentityOfStored /\ LateStageCleaned

\* Whoever got the lock changes the profile only while it holds it: the release
\* comes after the last commit or rollback (session.ts:804).  The exception is the
\* write of a rollback that was given up, which may land after the release.
WritesUnderLock ==
  [][\A c \in Cred : stored'[c] # stored[c] =>
       \E s \in Session :
         /\ entry[s] = "free" \/ holder = s \/ <<"restore", c>> \in late[s]
         /\ stored'[c] \in {s, backup[s][c]}]_recaptureVars
=============================================================================
