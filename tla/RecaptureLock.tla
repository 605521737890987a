--------------------------- MODULE RecaptureLock ---------------------------
(***************************************************************************)
(* acquireRecaptureLock (src/src/core/lockfile.ts): the same directory     *)
(* protocol per profile, but the caller polls a live holder until a        *)
(* deadline and then, like after any error, goes on WITHOUT the lock.      *)
(***************************************************************************)
EXTENDS MkdirLock

VARIABLE mode   \* how each process entered its commit: "none", "locked" or "free"

vars == <<lockVars, mode>>

Labels == {"idle", "mkdir", "open", "publish", "commit", "release", "unlink",
           "rmdir", "probe", "reclaim", "deadline"}

TypeOK ==
  /\ dir \in BOOLEAN
  /\ info \in Token \union {NoInfo}
  /\ tmps \subseteq Token
  /\ life \in [Proc -> {"up", "dead", "reused"}]
  /\ pc \in [Proc -> Labels]
  /\ round \in [Proc -> 0..MaxRounds]
  /\ mode \in [Proc -> {"none", "locked", "free"}]
  /\ \A p \in Proc :
       /\ pc[p] \in {"mkdir", "open", "publish", "probe", "reclaim", "deadline"} =>
            mode[p] = "none"
       /\ pc[p] = "release" => mode[p] = "locked"
  /\ judged \subseteq Proc
  /\ strayed \in BOOLEAN

Init == InitLock /\ mode = [p \in Proc |-> "none"]

Same == UNCHANGED <<life, round>>
Enters(p, how) == mode' = [mode EXCEPT ![p] = how]

Begin(p) == BeginRound(p) /\ Enters(p, "none") /\ UNCHANGED life

TryMkdir(p) == Mkdir(p) /\ Same /\ UNCHANGED mode

WriteInfo(p) ==
  /\ \/ OpenTmp(p, "open", "publish") /\ UNCHANGED mode
     \/ Publish(p, "publish", "commit") /\ Enters(p, "locked")
  /\ Same

\* classifyAndAct: poll a live holder, reclaim a dead or absent one silently.
Poll(p) == ProbeLive(p) /\ Goto(p, "deadline") /\ Same /\ UNCHANGED mode

PollStale(p) ==
  /\ ProbeStale(p) /\ Goto(p, "reclaim")
  /\ Same /\ UNCHANGED mode

ReclaimStale(p) == Reclaim(p) /\ Goto(p, "deadline") /\ Same /\ UNCHANGED mode

\* waitLoop looks at the clock after each round of the loop.
Again(p) == At(p, "deadline") /\ Goto(p, "mkdir") /\ DirUnchanged /\ Same /\ UNCHANGED mode

\* Mutant: the deadline is taken for an acquisition.
TimeOutLocked(p) ==
  /\ At(p, "deadline") /\ Goto(p, "commit") /\ Enters(p, "locked")
  /\ DirUnchanged /\ Same

\* Mutant: nobody looks at the clock.
NeverTimesOut(p) == FALSE /\ UNCHANGED vars

TimeOut(p) ==
  /\ At(p, "deadline") /\ Goto(p, "commit") /\ Enters(p, "free")
  /\ DirUnchanged /\ Same

\* A failed info.json write first removes the directory; every error ends in a
\* null lease, so the caller commits without the lock.
WriteFailed(p) == WriteFails(p, "open") \/ WriteFails(p, "publish")

Degrade(p) ==
  /\ \/ WriteFailed(p)
     \/ /\ IOFailures
        /\ \E label \in {"mkdir", "reclaim"} : At(p, label)
        /\ DirUnchanged /\ Goto(p, "commit")
  /\ Enters(p, "free") /\ Same

\* The removal after a failed write ends in the lock-free commit, the removal
\* of a release ends the operation.
Remove(p) ==
  /\ LET after == IF mode[p] = "free" THEN "commit" ELSE "idle"
     IN  Unlink(p) \/ Rmdir(p, after) \/ RmFails(p, after)
  /\ Same /\ UNCHANGED mode

\* The commit ends; its finally block releases the lock if there is one.
Finish(p) ==
  /\ At(p, "commit") /\ Goto(p, IF mode[p] = "locked" THEN "release" ELSE "idle")
  /\ DirUnchanged /\ Same /\ UNCHANGED mode

Release(p) == ReadOwner(p) /\ Same /\ UNCHANGED mode

Die(p) == (Crash(p) \/ ReusePid(p)) /\ UNCHANGED mode

Acquire(p) ==
  \/ TryMkdir(p) \/ WriteInfo(p) \/ Degrade(p) \/ Remove(p)
  \/ Poll(p) \/ PollStale(p) \/ ReclaimStale(p) \/ Again(p) \/ TimeOut(p)

Next == \E p \in Proc : Begin(p) \/ Acquire(p) \/ Finish(p) \/ Release(p) \/ Die(p)

Spec == Init /\ [][Next]_vars

\* A live process that asks for the lock is scheduled and its clock passes the
\* deadline; a commit owes nobody an end.
FairSpec == Spec /\ \A p \in Proc : WF_vars(Acquire(p)) /\ SF_vars(TimeOut(p))

-----------------------------------------------------------------------------
Committing(p, how) == At(p, "commit") /\ mode[p] = how

\* The lock of a process that still holds it survives every other recapture of
\* the profile, the ones that gave up waiting and committed freely included: so
\* two recaptures that both got the lock never commit at the same time, until a
\* verdict strays (a reclaimer takes a live holder for absent, or renames another
\* directory away than the one it judged).
LeaseIntact ==
  ~strayed => \A p \in Proc : Committing(p, "locked") => dir /\ info = MyToken(p)

\* No recapture waits for ever: a session that ends reaches its commit, with the
\* lock or without, even when the holder it polls never lets go (best effort,
\* lockfile.ts:500).
ReachesCommit ==
  \A p \in Proc : pc[p] = "mkdir" ~> pc[p] = "commit" \/ life[p] # "up"
=============================================================================
