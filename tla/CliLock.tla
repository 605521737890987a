------------------------------ MODULE CliLock ------------------------------
(***************************************************************************)
(* acquireCliLockLease and its release (src/src/core/lockfile.ts), used by *)
(* withCliMutationLock (src/src/core/cli-mutation-lock.ts): at most two    *)
(* attempts, LockHeldError on a live holder, a warning before the trace of *)
(* a dead holder is dropped, metadata computed and published inside the    *)
(* lock before the caller's function runs.                                 *)
(***************************************************************************)
EXTENDS MkdirLock

VARIABLES
  attempt,   \* the attempt each acquisition is in
  result,    \* how the last acquisition of each process ended
  warned     \* dead holders whose trace was announced on stderr

vars == <<lockVars, attempt, result, warned>>

Results == {"none", "ok", "held", "race", "io", "usage"}

Labels == {"idle", "mkdir", "open", "publish", "prepare", "reopen", "republish",
           "hold", "release", "unlink", "rmdir", "probe", "reclaim", "report"}

TypeOK ==
  /\ dir \in BOOLEAN
  /\ info \in Token \union {NoInfo}
  /\ tmps \subseteq Token
  /\ life \in [Proc -> {"up", "dead", "reused"}]
  /\ pc \in [Proc -> Labels]
  /\ round \in [Proc -> 0..MaxRounds]
  /\ \A p \in Proc : pc[p] # "idle" => round[p] > 0
  /\ attempt \in [Proc -> 1..2]
  /\ result \in [Proc -> Results]
  /\ warned \subseteq Token
  /\ judged \subseteq Proc
  /\ strayed \in BOOLEAN

Init ==
  /\ InitLock
  /\ attempt = [p \in Proc |-> 1]
  /\ result = [p \in Proc |-> "none"]
  /\ warned = {}

Ends(p, how) == result' = [result EXCEPT ![p] = how]
Same == UNCHANGED <<life, round>>

-----------------------------------------------------------------------------
Begin(p) ==
  /\ BeginRound(p)
  /\ attempt' = [attempt EXCEPT ![p] = 1]
  /\ Ends(p, "none")
  /\ UNCHANGED <<life, warned>>

\* tryAcquire: mkdir, then the pending info.json.
TryMkdir(p) == Mkdir(p) /\ Same /\ UNCHANGED <<attempt, result, warned>>

WritePending(p) ==
  /\ \/ OpenTmp(p, "open", "publish")
     \/ Publish(p, "publish", "prepare")
  /\ Same /\ UNCHANGED <<attempt, result, warned>>

\* finalizeLease: prepareMetadata may be absent, may throw, or gives the
\* metadata that the final info.json holds.
NoMetadata(p) ==
  /\ At(p, "prepare") /\ Goto(p, "hold") /\ Ends(p, "ok")
  /\ DirUnchanged /\ Same /\ UNCHANGED <<attempt, warned>>

MetadataThrows(p) ==
  /\ At(p, "prepare") /\ Goto(p, "unlink") /\ Ends(p, "usage")
  /\ DirUnchanged /\ Same /\ UNCHANGED <<attempt, warned>>

Metadata(p) ==
  /\ At(p, "prepare") /\ Goto(p, "reopen")
  /\ DirUnchanged /\ Same /\ UNCHANGED <<attempt, result, warned>>

WriteFinal(p) ==
  /\ \/ OpenTmp(p, "reopen", "republish") /\ UNCHANGED result
     \/ Publish(p, "republish", "hold") /\ Ends(p, "ok")
  /\ Same /\ UNCHANGED <<attempt, warned>>

\* A failed write of either info.json ends the acquisition.
WriteThrows(p) ==
  /\ \E from \in {"open", "publish", "reopen", "republish"} : WriteFails(p, from)
  /\ Ends(p, "io")
  /\ Same /\ UNCHANGED <<attempt, warned>>

\* handleConflict on a live holder: LockHeldError.
ConflictLive(p) ==
  /\ ProbeLive(p) /\ Goto(p, "idle") /\ Ends(p, "held")
  /\ Same /\ UNCHANGED <<attempt, warned>>

\* Mutant: one attempt too many.
NextAttemptOff(p) ==
  /\ attempt' = [attempt EXCEPT ![p] = @ + 1]
  /\ Goto(p, IF attempt[p] <= 2 THEN "mkdir" ELSE "report")

\* After a conflict the loop tries once more, then reports whom it sees.
NextAttempt(p) ==
  /\ attempt' = [attempt EXCEPT ![p] = 2]
  /\ Goto(p, IF attempt[p] = 1 THEN "mkdir" ELSE "report")

\* Mutant: a dead holder is reclaimed silently, as in the recapture lock.
ConflictSilent(p) ==
  /\ ProbeStale(p) /\ Goto(p, "reclaim")
  /\ Same /\ UNCHANGED <<attempt, result, warned>>

\* handleConflict on a dead or absent holder: warn about a dead one, then
\* reclaim.
ConflictStale(p) ==
  /\ ProbeStale(p) /\ Goto(p, "reclaim")
  /\ warned' = warned \union ({info} \ {NoInfo})
  /\ Same /\ UNCHANGED <<attempt, result>>

ReclaimStale(p) ==
  /\ Reclaim(p) /\ NextAttempt(p)
  /\ Same /\ UNCHANGED <<result, warned>>

\* mkdir or the reclaiming rename fails with an unexpected error.
SystemThrows(p) ==
  /\ IOFailures
  /\ \E label \in {"mkdir", "reclaim"} : At(p, label)
  /\ Goto(p, "idle") /\ Ends(p, "io")
  /\ DirUnchanged /\ Same /\ UNCHANGED <<attempt, warned>>

\* Both attempts failed: report the holder on disk, or a repeated race.
Report(p) ==
  /\ At(p, "report") /\ Goto(p, "idle")
  /\ Ends(p, IF info = NoInfo THEN "race" ELSE "held")
  /\ DirUnchanged /\ Same /\ UNCHANGED <<attempt, warned>>

\* The caller's function ends, normally or by an exception: the finally block
\* of runWithLease releases.
Finish(p) ==
  /\ At(p, "hold") /\ Goto(p, "release")
  /\ DirUnchanged /\ Same /\ UNCHANGED <<attempt, result, warned>>

Release(p) ==
  /\ ReadOwner(p) \/ Unlink(p) \/ Rmdir(p, "idle") \/ RmFails(p, "idle")
  /\ Same /\ UNCHANGED <<attempt, result, warned>>

Die(p) == (Crash(p) \/ ReusePid(p)) /\ UNCHANGED <<attempt, result, warned>>

Step(p) ==
  \/ TryMkdir(p) \/ WritePending(p)
  \/ NoMetadata(p) \/ MetadataThrows(p) \/ Metadata(p) \/ WriteFinal(p)
  \/ WriteThrows(p) \/ SystemThrows(p)
  \/ ConflictLive(p) \/ ConflictStale(p) \/ ReclaimStale(p) \/ Report(p)
  \/ Finish(p) \/ Release(p)

Next == \E p \in Proc : Begin(p) \/ Step(p) \/ Die(p)

Spec == Init /\ [][Next]_vars

\* A live process that has begun an acquisition is scheduled until it ends it.
FairSpec == Spec /\ \A p \in Proc : WF_vars(Step(p))

-----------------------------------------------------------------------------
\* The labels of a process that made the directory at the lock path and has not
\* given it up yet; from "prepare" on it has published its info.json.
OwnerLabels == {"open", "publish", "prepare", "reopen", "republish", "hold",
                "release", "unlink", "rmdir"}
HolderLabels == {"prepare", "reopen", "republish", "hold", "release"}

Owns(p) == life[p] = "up" /\ pc[p] \in OwnerLabels
Holding(p) == life[p] = "up" /\ pc[p] \in HolderLabels

NoDirNoFiles == ~dir => info = NoInfo /\ tmps = {}

OneOwner == \A p, q \in Proc : Owns(p) /\ Owns(q) => p = q

OwnerHasDir == \A p \in Proc : Owns(p) => dir

HolderNamed == \A p \in Proc : Holding(p) => info = MyToken(p)

WindowEmpty ==
  \A p \in Proc : Owns(p) /\ pc[p] \in {"open", "publish", "rmdir"} => info = NoInfo

RemovesOwn == \A p \in Proc : Owns(p) /\ pc[p] = "unlink" => info \in {NoInfo, MyToken(p)}

\* A verdict is on a directory that is there, and that nobody owns.
VerdictsOnDir == judged # {} => dir
ReclaimsUnowned == judged # {} => \A p \in Proc : ~Owns(p)

\* The holder that a judged directory still names was announced.
ReclaimsAnnounced == judged # {} /\ info # NoInfo => info \in warned

\* Whoever made the directory at the lock path stays its only owner until it has
\* removed it, and info.json never names anybody else meanwhile: so no verdict is
\* on a directory that has an owner.  Inductive until a verdict strays.
OwnerInv ==
  /\ OneOwner /\ OwnerHasDir
  /\ HolderNamed /\ WindowEmpty /\ RemovesOwn
  /\ ReclaimsUnowned /\ ReclaimsAnnounced

IInv == TypeOK /\ NoDirNoFiles /\ VerdictsOnDir /\ (~strayed => OwnerInv)

-----------------------------------------------------------------------------
\* At most one process of a CLI is past the acquisition of the lock
\* (lockfile.ts:7, "one mat exec per cli at a time").
MutualExclusion == \A p, q \in Proc : Holding(p) /\ Holding(q) => p = q

\* The lock is exclusive until a verdict strays: until a reclaimer takes a live
\* holder for absent, or renames another directory away than the one it judged.
\* No crash, failed file operation, recycled pid, release or other order of the
\* steps of any processes lets two of them in.
ExclusiveUntilStray == ~strayed => MutualExclusion

\* As long as a process holds the lock, info.json on disk is its own: nobody
\* reclaimed, overwrote or released it from under the holder, until a verdict
\* strays.
LeaseIntact == ~strayed => \A p \in Proc : Holding(p) => dir /\ info = MyToken(p)

\* The trace of a holder that died is removed only after the user was warned
\* that the live credentials may belong to its swap target (policy B), unless
\* the removal is the one that strays, or follows one.
WarnsBeforeDrop ==
  [][~strayed' /\ info # NoInfo /\ ~isProcessAlive(info.pid) /\ info' # info =>
       info \in warned']_vars

\* Every other process is dead and left the lock to p.
Bereaved(p) ==
  /\ pc[p] = "mkdir" /\ attempt[p] = 1
  /\ \A q \in Proc \ {p} : life[q] = "dead"
  /\ info # NoInfo => info.pid # p

\* The lock of a crashed process never locks the survivor out: once every other
\* process is dead, the next acquisition ends inside the lock or in an error of
\* its own, unless it or a recycled pid still occupies the lock.
OrphanRecovered ==
  \A p \in Proc :
    Bereaved(p) ~> \/ result[p] \in {"ok", "usage", "io"} \/ life[p] # "up"
                   \/ \E q \in Proc : life[q] = "reused"

\* The lock as its callers see it, until a verdict strays: a grant while nobody
\* holds it.
Abstract == INSTANCE AbstractLock
  WITH holders <- IF strayed THEN {} ELSE {p \in Proc : Holding(p)}
ImplementsAbstractLock == Abstract!Spec
=============================================================================
