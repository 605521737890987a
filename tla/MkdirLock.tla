----------------------------- MODULE MkdirLock -----------------------------
(***************************************************************************)
(* The steps that the two lock protocols of src/src/core/lockfile.ts share *)
(* (the CLI lock and the recapture lock): a lock is a directory, `mkdir'   *)
(* takes it, an info.json inside it names the holder (pid and a fresh      *)
(* token), a holder judged dead or absent has the directory renamed away,  *)
(* and a release removes the directory when info.json carries its token.   *)
(*                                                                         *)
(* One value of the variables describes one lock path.  A directory that   *)
(* was renamed to its unique stale name can no longer be reached through   *)
(* the lock path, so it is forgotten.                                      *)
(***************************************************************************)
EXTENDS Integers, FiniteSets

CONSTANTS
  Proc,           \* the mat processes, each named by its pid
  NoInfo,         \* info.json is missing or unreadable
  MaxRounds,      \* bound: acquisitions one process attempts
  IOFailures,     \* file operations may fail
  PidReuse        \* the operating system may give a dead pid to a stranger

Token == [pid : Proc, round : 1..MaxRounds]

ASSUME LockAssumption ==
  /\ MaxRounds \in Nat \ {0}
  /\ NoInfo \notin Token
  /\ {IOFailures, PidReuse} \subseteq BOOLEAN

VARIABLES
  dir,     \* the lock directory exists
  info,    \* the token in its info.json
  tmps,    \* the tokens whose temporary file lies in the directory
  life,    \* "up": runs mat; "dead": pid unused; "reused": pid of a stranger
  pc,      \* the next step of each process
  round,   \* how many acquisitions each process began
  judged,  \* history: reclaimers whose verdict was on the directory that is there
  strayed  \* history: a live holder was taken for absent, or another
           \* directory renamed away than the one that was judged

lockVars == <<dir, info, tmps, life, pc, round, judged, strayed>>

InitLock ==
  /\ dir = FALSE
  /\ info = NoInfo
  /\ tmps = {}
  /\ life = [p \in Proc |-> "up"]
  /\ pc = [p \in Proc |-> "idle"]
  /\ round = [p \in Proc |-> 0]
  /\ judged = {} /\ strayed = FALSE

MyToken(p) == [pid |-> p, round |-> round[p]]

\* isProcessAlive(pid): any process under that number counts, mat or not.
isProcessAlive(p) == life[p] # "dead"

\* Mutant: any readable info.json counts as a live holder.
HolderReadable == info # NoInfo

HolderLive == info # NoInfo /\ isProcessAlive(info.pid)

At(p, label) == life[p] = "up" /\ pc[p] = label
Goto(p, label) == pc' = [pc EXCEPT ![p] = label]
SameVerdicts == UNCHANGED <<judged, strayed>>
DirUnchanged == UNCHANGED <<dir, info, tmps>> /\ SameVerdicts
Detach == dir' = FALSE /\ info' = NoInfo /\ tmps' = {}

-----------------------------------------------------------------------------
\* Mutant: mkdir with `recursive', which succeeds on an existing directory.
MkdirRecursive(p) ==
  At(p, "mkdir") /\ Goto(p, "open") /\ dir' = TRUE /\ UNCHANGED <<info, tmps>> /\ SameVerdicts

\* mkdir(2) of the lock path: only one of several callers finds it missing.
Mkdir(p) ==
  /\ At(p, "mkdir")
  /\ IF dir THEN Goto(p, "probe") /\ DirUnchanged
            ELSE Goto(p, "open") /\ dir' = TRUE /\ UNCHANGED <<info, tmps>> /\ SameVerdicts

\* writeFileAtomic, first half: `mkdir -p' of the directory, then the temporary file.
OpenTmp(p, from, to) ==
  /\ At(p, from)
  /\ dir' = TRUE
  /\ tmps' = tmps \union {MyToken(p)}
  /\ info' = info /\ SameVerdicts
  /\ Goto(p, to)

\* writeFileAtomic, second half: rename over info.json.  The rename works on
\* paths, so it fails when the directory with the temporary file was moved.
Publish(p, from, to) ==
  /\ At(p, from)
  /\ MyToken(p) \in tmps
  /\ info' = MyToken(p)
  /\ tmps' = tmps \ {MyToken(p)}
  /\ dir' = dir /\ SameVerdicts
  /\ Goto(p, to)

\* Mutant: the error of a failed write is swallowed.
WriteErrorSwallowed(p, from) ==
  /\ At(p, from) /\ IOFailures
  /\ tmps' = tmps \ {MyToken(p)} /\ UNCHANGED <<dir, info>> /\ SameVerdicts
  /\ Goto(p, "prepare")

\* A failed write removes its temporary file and then the directory at the lock
\* path, whoever owns that directory by now.
WriteFails(p, from) ==
  /\ At(p, from)
  /\ IOFailures \/ (from \in {"publish", "republish"} /\ MyToken(p) \notin tmps)
  /\ tmps' = tmps \ {MyToken(p)}
  /\ UNCHANGED <<dir, info>> /\ SameVerdicts
  /\ Goto(p, "unlink")

\* fs.rm(recursive), first half: the entries of the directory are unlinked.
Unlink(p) ==
  /\ At(p, "unlink")
  /\ info' = NoInfo
  /\ tmps' = {}
  /\ dir' = dir /\ SameVerdicts
  /\ Goto(p, "rmdir")

\* fs.rm(recursive), second half: only an empty directory is removed.
Rmdir(p, to) ==
  /\ At(p, "rmdir")
  /\ dir' = (dir /\ (info # NoInfo \/ tmps # {}))
  /\ judged' = IF dir' THEN judged ELSE {}
  /\ UNCHANGED <<info, tmps, strayed>>
  /\ Goto(p, to)

\* The errors of that removal are swallowed and leave the directory behind.
RmFails(p, to) ==
  /\ IOFailures
  /\ \E label \in {"unlink", "rmdir"} : At(p, label)
  /\ DirUnchanged
  /\ Goto(p, to)

\* releaseIfOwned: remove the directory only when info.json carries my token.
ReadOwner(p) ==
  /\ At(p, "release")
  /\ DirUnchanged
  /\ Goto(p, IF info = MyToken(p) THEN "unlink" ELSE "idle")

-----------------------------------------------------------------------------
\* A live process is between creating the directory and publishing info.json,
\* or is removing the directory.
InWindow(q) == \E label \in {"open", "publish", "unlink", "rmdir"} : At(q, label)

\* probeHolder reads info.json once; when there is none it waits for
\* INFLIGHT_WRITE_WAIT_MS and reads again, which nothing relates to the time that
\* a live holder needs for its next step.
Probes(p) == At(p, "probe")

\* The directory has no info.json yet, or no longer, but a live holder.
HolderAbsent == dir /\ info = NoInfo /\ \E q \in Proc : InWindow(q)

\* The verdict is on the directory that is there now.
Judges(p) ==
  /\ strayed' = (strayed \/ HolderAbsent)
  /\ judged' = IF dir /\ ~strayed' THEN judged \union {p} ELSE {}
  /\ UNCHANGED <<dir, info, tmps>>

ProbeLive(p) == Probes(p) /\ HolderLive /\ DirUnchanged

\* Mutant: the pid in info.json is not looked at.
ProbeUnchecked(p) == Probes(p) /\ Judges(p)

ProbeStale(p) == Probes(p) /\ ~HolderLive /\ Judges(p)

\* reclaimStaleLock renames whatever directory lies at the lock path by now;
\* when there is none (ENOENT) another reclaimer was faster.
Reclaim(p) ==
  /\ At(p, "reclaim") /\ Detach
  /\ judged' = {}
  /\ strayed' = (strayed \/ (dir /\ p \notin judged))

-----------------------------------------------------------------------------
Crash(p) ==
  /\ life[p] = "up"
  /\ life' = [life EXCEPT ![p] = "dead"]
  /\ Goto(p, "idle")
  /\ judged' = judged \ {p}
  /\ UNCHANGED <<dir, info, tmps, round, strayed>>

ReusePid(p) ==
  /\ PidReuse
  /\ life[p] = "dead"
  /\ life' = [life EXCEPT ![p] = "reused"]
  /\ DirUnchanged /\ UNCHANGED <<pc, round>>

BeginRound(p) ==
  /\ At(p, "idle")
  /\ round[p] < MaxRounds
  /\ round' = [round EXCEPT ![p] = @ + 1]
  /\ Goto(p, "mkdir")
  /\ DirUnchanged
=============================================================================
