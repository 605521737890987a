-------------------------- MODULE SessionLifecycle --------------------------
(***************************************************************************)
(* The directory of one session (src/src/core/session.ts): it holds        *)
(* copies of the credentials of a profile and session.json.  Its owner,    *)
(* the mat process that runs the session, creates it, spawns the child,    *)
(* records the pid of the child while the child runs, and removes the      *)
(* directory at the end.  Other mat processes work on the same directory:  *)
(* one that starts a session reaps the orphans, one stops a session by     *)
(* its id.  They know the owner and the child from session.json only, by   *)
(* pids that the system recycles and start signatures that ps may fail to  *)
(* report.                                                                 *)
(***************************************************************************)
EXTENDS Integers

CONSTANTS
  OrphanTtl,    \* ORPHAN_TTL_MS
  UnknownTtl,   \* getUnknownTtlMs()
  MaxTime,      \* bound: the clock stops there
  MaxStart,     \* bound: the session starts no later
  MaxMishaps    \* bound: failing ps calls, file operations, kills of the owner

ASSUME LifeAssumption ==
  /\ {OrphanTtl, UnknownTtl, MaxTime, MaxStart, MaxMishaps} \subseteq Nat
  /\ OrphanTtl < UnknownTtl /\ MaxStart + UnknownTtl < MaxTime

VARIABLES
  now,
  mishaps,
  present,   \* the directory exists
  meta,      \* session.json, or NoMeta
  touched,   \* its modification time
  memory,    \* the owner's own copy of session.json
  owner,     \* the mat process: "up", "dead" or "reused" (its pid, by a stranger)
  duty,      \* what the owner does next
  child,     \* "none", "up", "exited" (not waited for), "gone" or "reused"
  record,    \* recordChildPid: what it does next
  reap,      \* reapOrphans of another process, at this session
  stop,      \* stopSession of another process
  botched    \* history: the owner could not remove the directory

lifeVars == <<now, mishaps, present, meta, touched, memory, owner, duty, child, record, reap,
          stop, botched>>

NoMeta == [startedAt |-> -1, pidStart |-> "none", childPid |-> FALSE, childPidStart |-> "none"]
Signature == {"none", "own", "stranger"}
Meta == [startedAt : 0..MaxTime, pidStart : {"none", "own"}, childPid : BOOLEAN,
         childPidStart : Signature]
Status == {"none", "owner", "dead-or-reused", "unknown"}
\* saw and alone are histories: the owner a kill was decided on, and whether the
\* session was an orphan when the pass began.
Idle == [at |-> "idle", now |-> 0, seen |-> NoMeta, owner |-> "none", child |-> "none",
         saw |-> "none", alone |-> FALSE, mishaps |-> 0]

LifeTypeOK ==
  /\ {now, touched} \subseteq 0..MaxTime /\ mishaps \in 0..MaxMishaps
  /\ {present, botched} \subseteq BOOLEAN
  /\ {meta, memory} \subseteq Meta \union {NoMeta} /\ (meta # NoMeta => present)
  /\ owner \in {"up", "dead", "reused"}
  /\ duty \in {"create", "copy", "describe", "spawn", "run", "settle", "clean", "ended"}
  /\ child \in {"none", "up", "exited", "gone", "reused"}
  /\ record.at \in {"off", "pid", "ps", "check", "done"} /\ record.sig \in Signature
  /\ \A r \in {reap, stop} :
       /\ r.at \in {"idle", "meta", "owner", "child", "ttl", "kill", "remove"}
       /\ {r.owner, r.child} \subseteq Status /\ r.seen \in Meta \union {NoMeta}
  /\ child = "exited" => owner = "up"
  /\ record.at \in {"pid", "ps", "check"} => duty \in {"run", "settle"} /\ owner = "up"

LifeInit ==
  /\ now = 0 /\ mishaps = 0 /\ present = FALSE /\ meta = NoMeta /\ touched = 0 /\ memory = NoMeta
  /\ owner = "up" /\ duty = "create" /\ child = "none"
  /\ record = [at |-> "off", sig |-> "none"]
  /\ reap = Idle /\ stop = Idle /\ botched = FALSE

-----------------------------------------------------------------------------
Mishap == mishaps < MaxMishaps /\ mishaps' = mishaps + 1
Do(label, next) == owner = "up" /\ duty = label /\ duty' = next
others == <<reap, stop>>

\* removeSessionDir
RemoveDirectory == present' = FALSE /\ meta' = NoMeta /\ UNCHANGED touched

\* writeSessionMeta: writeFileAtomic creates the directory when it is gone.
WriteMeta(m) == meta' = m /\ present' = TRUE /\ touched' = now

\* The start signature ps reports for the process that has a pid now.
SignatureOf(process) == IF process = "reused" THEN "stranger" ELSE "own"

\* isProcessAlive: a process that nobody has waited for still counts.
Alive(process) == process \in {"up", "exited", "reused"}

ClassifyPid(process, pidStart, psFails) ==
  IF ~Alive(process) THEN "dead-or-reused"
  ELSE IF pidStart = "none" THEN "owner"
  ELSE IF psFails THEN "unknown"
  ELSE IF SignatureOf(process) = pidStart THEN "owner" ELSE "dead-or-reused"

\* Mutant: whoever has the pid now is taken for the owner.
ClassifyOwnerByPid(seen, psFails) == IF Alive(owner) THEN "owner" ELSE "dead-or-reused"

ClassifyOwner(seen, psFails) == ClassifyPid(owner, seen.pidStart, psFails)

\* Mutant: a child without a signature is taken for dead.
ClassifyChildBlindly(seen, psFails) ==
  IF ~seen.childPid \/ ~Alive(child) \/ seen.childPidStart = "none" THEN "dead-or-reused"
  ELSE ClassifyPid(child, seen.childPidStart, psFails)

\* Unlike the owner, a child is never taken for alive without a signature.
ClassifyChildOwner(seen, psFails) ==
  IF ~seen.childPid \/ ~Alive(child) THEN "dead-or-reused"
  ELSE IF seen.childPidStart = "none" THEN "unknown"
  ELSE ClassifyPid(child, seen.childPidStart, psFails)

Ps(psFails) == IF psFails THEN Mishap ELSE UNCHANGED mishaps

-----------------------------------------------------------------------------
(* The owner: runPlannedSession *)

CreateDirectory ==
  /\ Do("create", "copy") /\ now <= MaxStart
  /\ present' = TRUE /\ touched' = now
  /\ UNCHANGED <<now, mishaps, meta, memory, owner, child, record, others, botched>>

\* materializeSession: a failure removes what there is.  When the directory was
\* stopped away, the next mkdir brings it back or the next lstat fails.
Materialize ==
  /\ \/ /\ Do("copy", "describe") /\ present' = TRUE
        /\ touched' = IF present THEN touched ELSE now
        /\ UNCHANGED <<meta, mishaps>>
     \/ Do("copy", "ended") /\ Mishap /\ RemoveDirectory
  /\ UNCHANGED <<now, memory, owner, child, record, others, botched>>

\* The first session.json.  Its failure leaves the directory behind.
Describe ==
  /\ \/ /\ Do("describe", "spawn") /\ UNCHANGED botched
        /\ \E psFails \in BOOLEAN :
             /\ Ps(psFails)
             /\ memory' = [startedAt |-> now, pidStart |-> IF psFails THEN "none" ELSE "own",
                           childPid |-> FALSE, childPidStart |-> "none"]
        /\ WriteMeta(memory')
     \/ /\ Do("describe", "ended") /\ Mishap /\ botched' = TRUE
        /\ UNCHANGED <<present, meta, touched, memory>>
  /\ UNCHANGED <<now, owner, child, record, others>>

\* spawnSessionTarget starts recordChildPid and does not wait for it.
Spawn ==
  /\ \/ Do("spawn", "run") /\ child' = "up" /\ record' = [record EXCEPT !.at = "pid"]
        /\ UNCHANGED mishaps
     \/ Do("spawn", "settle") /\ Mishap /\ UNCHANGED <<child, record>>
  /\ UNCHANGED <<now, present, meta, touched, memory, owner, others, botched>>

\* The exit event: from here on the system may reuse the pid of the child.
ChildNoticed ==
  /\ Do("run", "settle") /\ child = "exited" /\ child' = "gone"
  /\ UNCHANGED <<now, mishaps, present, meta, touched, memory, owner, record, others, botched>>

\* Mutant: the cleanup does not wait for recordChildPid.
SettleAtOnce == TRUE

\* recordChildPidDone
Settled == record.at \in {"off", "done"}

\* Then the session is recaptured (module SessionRecapture) and removed.
Recapture ==
  /\ Do("settle", "clean") /\ Settled
  /\ UNCHANGED <<now, mishaps, present, meta, touched, memory, owner, child, record, others,
                 botched>>

Clean ==
  /\ Do("clean", "ended")
  /\ \/ RemoveDirectory /\ UNCHANGED <<mishaps, botched>>
     \/ Mishap /\ botched' = TRUE /\ UNCHANGED <<present, meta, touched>>
  /\ UNCHANGED <<now, memory, owner, child, record, others>>

-----------------------------------------------------------------------------
(* recordChildPid, concurrent with the rest of the owner *)

Recording(label) == owner = "up" /\ record.at = label
MetaWriteFails == Mishap /\ record' = [record EXCEPT !.at = "done"]
              /\ UNCHANGED <<present, meta, touched>>

RecordPid ==
  /\ Recording("pid")
  /\ memory' = [memory EXCEPT !.childPid = TRUE]
  /\ \/ WriteMeta(memory') /\ record' = [record EXCEPT !.at = "ps"] /\ UNCHANGED mishaps
     \/ MetaWriteFails
  /\ UNCHANGED <<now, owner, duty, child, others, botched>>

AskPs ==
  /\ Recording("ps")
  /\ \E psFails \in BOOLEAN :
       /\ Ps(psFails)
       /\ record' = [at |-> "check",
                     sig |-> IF psFails \/ ~Alive(child) THEN "none" ELSE SignatureOf(child)]
  /\ UNCHANGED <<now, present, meta, touched, memory, owner, duty, child, others, botched>>

\* isChildAlive: no exit event so far.
IsChildAlive == child \in {"up", "exited"}

RecordSignature ==
  /\ Recording("check")
  /\ IF IsChildAlive
     THEN /\ memory' = [memory EXCEPT !.childPidStart = record.sig]
          /\ \/ WriteMeta(memory') /\ record' = [record EXCEPT !.at = "done"] /\ UNCHANGED mishaps
             \/ MetaWriteFails
     ELSE /\ record' = [record EXCEPT !.at = "done"]
          /\ UNCHANGED <<memory, present, meta, touched, mishaps>>
  /\ UNCHANGED <<now, owner, duty, child, others, botched>>

-----------------------------------------------------------------------------
(* Other mat processes.  Each reads session.json once and works on what it     *)
(* has read.                                                                   *)

ownerSide == <<memory, owner, duty, child, record, botched>>
sessionDir == <<present, meta, touched>>

\* The time reapOrphans took before it listed the sessions.
ReapTime(r) == r.now

Reap(next) == reap' = next /\ UNCHANGED <<stop, ownerSide>>
BeginReap ==
  /\ reap.at = "idle"
  /\ Reap([Idle EXCEPT !.at = "meta", !.now = now, !.mishaps = mishaps,
                       !.alone = owner # "up" /\ child # "up"])
  /\ UNCHANGED <<now, mishaps, sessionDir>>

\* Without session.json the directory is left alone.
ReapReadMeta ==
  /\ reap.at = "meta"
  /\ Reap(IF meta = NoMeta THEN Idle ELSE [reap EXCEPT !.at = "owner", !.seen = meta])
  /\ UNCHANGED <<now, mishaps, sessionDir>>

ReapOwner ==
  /\ reap.at = "owner"
  /\ \E psFails \in BOOLEAN :
       LET status == ClassifyOwner(reap.seen, psFails) IN
       /\ Ps(psFails)
       /\ Reap(IF status = "owner" THEN Idle
               ELSE [reap EXCEPT !.at = "child", !.owner = status])
  /\ UNCHANGED <<now, sessionDir>>

ReapChild ==
  /\ reap.at = "child"
  /\ \E psFails \in BOOLEAN :
       LET status == ClassifyChildOwner(reap.seen, psFails) IN
       /\ Ps(psFails)
       /\ Reap(IF status = "owner" THEN Idle ELSE [reap EXCEPT !.at = "ttl", !.child = status])
  /\ UNCHANGED <<now, sessionDir>>

IsUnknown(r) == "unknown" \in {r.owner, r.child}
Ttl(r) == IF IsUnknown(r) THEN UnknownTtl ELSE OrphanTtl

\* isReapableByTtl: the start and the directory must both be old enough.
ReapByTtl ==
  /\ reap.at = "ttl"
  /\ LET old(time) == ReapTime(reap) - time > Ttl(reap) IN
     Reap(IF present /\ old(reap.seen.startedAt) /\ old(touched)
          THEN [reap EXCEPT !.at = "remove"] ELSE Idle)
  /\ UNCHANGED <<now, mishaps, sessionDir>>

\* A removal that fails is left to the next reaper.
ReapRemove ==
  /\ reap.at = "remove" /\ Reap(Idle) /\ UNCHANGED now
  /\ \/ RemoveDirectory /\ UNCHANGED mishaps
     \/ Mishap /\ UNCHANGED sessionDir

Stop(next) == stop' = next /\ UNCHANGED <<now, reap>>

StopReadMeta ==
  /\ stop.at = "idle" /\ present
  /\ Stop(IF meta = NoMeta THEN [Idle EXCEPT !.at = "remove"]
          ELSE [Idle EXCEPT !.at = "owner", !.seen = meta])
  /\ UNCHANGED <<mishaps, sessionDir, ownerSide>>

StopOwner ==
  /\ stop.at = "owner"
  /\ \E psFails \in BOOLEAN :
       LET status == ClassifyOwner(stop.seen, psFails) IN
       /\ Ps(psFails)
       /\ Stop(CASE status = "owner"   -> [stop EXCEPT !.at = "kill", !.saw = owner]
                 [] status = "unknown" -> Idle
                 [] OTHER              -> [stop EXCEPT !.at = "child"])
  /\ UNCHANGED <<sessionDir, ownerSide>>

\* SIGTERM ends an owner without a handler; one that has spawned passes it on to
\* its child, which may exit as it may at any time.
StopKill ==
  /\ stop.at = "kill" /\ Stop(Idle) /\ UNCHANGED <<mishaps, sessionDir>>
  /\ \/ /\ owner = "up" /\ duty \in {"create", "copy", "describe", "spawn", "ended"}
        /\ owner' = "dead" /\ UNCHANGED <<memory, duty, child, record, botched>>
     \/ /\ owner = "up" => duty \in {"spawn", "run", "settle", "clean"}
        /\ UNCHANGED ownerSide

StopChild ==
  /\ stop.at = "child"
  /\ \E psFails \in BOOLEAN :
       /\ Ps(psFails)
       /\ Stop(IF ClassifyChildOwner(stop.seen, psFails) = "dead-or-reused"
               THEN [stop EXCEPT !.at = "remove"] ELSE Idle)
  /\ UNCHANGED <<sessionDir, ownerSide>>

StopRemove ==
  /\ stop.at = "remove" /\ Stop(Idle) /\ UNCHANGED ownerSide
  /\ \/ RemoveDirectory /\ UNCHANGED mishaps
     \/ Mishap /\ UNCHANGED sessionDir

-----------------------------------------------------------------------------
(* The system *)

ChildExits ==
  /\ child = "up" /\ child' = IF owner = "up" THEN "exited" ELSE "gone"
  /\ UNCHANGED <<now, mishaps, sessionDir, memory, owner, duty, record, others, botched>>

\* The end of the owner: killed, or after the session.
OwnerDies ==
  /\ owner = "up" /\ owner' = "dead"
  /\ IF duty = "ended" THEN UNCHANGED mishaps ELSE Mishap
  /\ child' = IF child = "exited" THEN "gone" ELSE child
  /\ record' = [record EXCEPT !.at = IF @ = "off" THEN @ ELSE "done"]
  /\ UNCHANGED <<now, sessionDir, memory, duty, others, botched>>

PidReused ==
  /\ \/ owner = "dead" /\ owner' = "reused" /\ UNCHANGED child
     \/ child = "gone" /\ child' = "reused" /\ UNCHANGED owner
  /\ UNCHANGED <<now, mishaps, sessionDir, memory, duty, record, others, botched>>

\* Time in steps of an hour and more: an owner gets from creating the directory to
\* the end of recordChildPid within one (ps is given two seconds).
Prompt == owner = "up" => duty \in {"create", "run", "ended"} /\ Settled

Tick ==
  /\ now < MaxTime /\ Prompt /\ now' = now + 1
  /\ UNCHANGED <<mishaps, sessionDir, ownerSide, others>>

Owner == CreateDirectory \/ Materialize \/ Describe \/ Spawn \/ ChildNoticed \/ Recapture \/ Clean
Recorder == RecordPid \/ AskPs \/ RecordSignature
Reaper == BeginReap \/ ReapReadMeta \/ ReapOwner \/ ReapChild \/ ReapByTtl \/ ReapRemove
Stopper == StopReadMeta \/ StopOwner \/ StopKill \/ StopChild \/ StopRemove
LifeNext == Owner \/ Recorder \/ Reaper \/ Stopper \/ ChildExits \/ OwnerDies \/ PidReused \/ Tick

LifeSpec == LifeInit /\ [][LifeNext]_lifeVars

-----------------------------------------------------------------------------
OwnerLives == owner = "up" /\ duty # "ended"
ChildRuns == child = "up"
Reaped == reap.at = "remove" /\ present /\ ~present'

\* A session whose owner or whose recorded child is alive loses its directory to a
\* reaper only when ps failed and the session is older than the long TTL, however
\* old the session.json is that the reaper has read (session.ts:3158).
ReapSparesLive ==
  [][Reaped => \/ ~OwnerLives /\ ~(ChildRuns /\ meta.childPid)
               \/ IsUnknown(reap) /\ now - meta.startedAt > UnknownTtl]_lifeVars

\* Neither a kill by stopSession hits a stranger that had the pid of an owner with
\* a recorded signature already, nor is a session stopped away whose owner or
\* recorded child was alive, unless it had no session.json yet (session.ts:3068).
StopSparesLive ==
  [][/\ stop.at = "kill" /\ owner = "reused" /\ stop.seen.pidStart # "none" => stop.saw = "up"
     /\ stop.at = "remove" /\ present /\ ~present' /\ stop.seen # NoMeta =>
          ~OwnerLives /\ ~(ChildRuns /\ stop.seen.childPid)]_lifeVars

\* An owner that removed its directory leaves none: nothing of its own writes
\* session.json into it afterwards (session.ts:1696).
NoGhost == duty = "ended" /\ ~botched => ~present

\* The recorded signature of the child is never that of a stranger, which would
\* keep the directory for ever (session.ts:2799).
SignatureOwn == meta.childPidStart # "stranger"

\* A pass in which nothing fails removes a session whose owner and child were gone
\* when it began, whoever has their pids now, once it is old enough, provided the
\* signature of its owner was recorded (session.ts:3142).
OrphansReaped ==
  [][LET due(time) == reap.now - time > UnknownTtl IN
     (/\ reap.at # "idle" /\ reap'.at = "idle" /\ reap.alone /\ mishaps' = reap.mishaps
      /\ meta.pidStart = "own" /\ due(meta.startedAt) /\ due(touched))
     => ~present']_lifeVars

\* What a session records of itself is true: no directory that its owner removed comes back, and a
\* signature that was recorded is that of the child (recordChild, cleanupSessionDir).
SessionRecords == NoGhost /\ SignatureOwn

\* Neither a reaper nor a stop removes the directory of a session that is alive or signals a
\* stranger, as far as their guards can tell (reapOrphans, stopSession).
LiveSessionsSpared == ReapSparesLive /\ StopSparesLive
=============================================================================
