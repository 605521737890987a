----------------------- MODULE SessionLifecycleProofs -----------------------
(***************************************************************************)
(* Proofs about SessionLifecycle for every choice of the two ages, of the  *)
(* length of the run and of the number of mishaps.                         *)
(***************************************************************************)
EXTENDS SessionLifecycle, TLAPS

PassSteps == {"idle", "meta", "owner", "child", "ttl", "kill", "remove"}
Pass == [at : PassSteps, now : Nat, seen : Meta \union {NoMeta}, owner : Status, child : Status,
         saw : {"none", "up", "dead", "reused"}, alone : BOOLEAN, mishaps : Nat]

TypedOwner ==
  /\ now \in 0..MaxTime /\ touched \in 0..MaxTime /\ mishaps \in Nat /\ present \in BOOLEAN
  /\ meta \in Meta \union {NoMeta} /\ memory \in Meta \union {NoMeta}
  /\ owner \in {"up", "dead", "reused"}
  /\ duty \in {"create", "copy", "describe", "spawn", "run", "settle", "clean", "ended"}
  /\ child \in {"none", "up", "exited", "gone", "reused"}
  /\ record \in [at : {"off", "pid", "ps", "check", "done"}, sig : Signature]

TypedOthers == reap \in Pass /\ stop \in Pass

\* Only an owner that is up and has spawned records its child, and only one that got that far
\* has written session.json.
Busy == record.at \in {"pid", "ps", "check"}
Stages ==
  /\ meta # NoMeta => present
  /\ Busy => duty \in {"run", "settle"} /\ owner = "up" /\ child # "none"
  /\ duty \in {"create", "copy", "describe", "spawn"} => child = "none" /\ record.at = "off"
  /\ duty \in {"create", "copy", "describe"} => memory = NoMeta
  /\ duty \in {"spawn", "run", "settle", "clean"} => memory # NoMeta
  /\ memory.childPid => child # "none"
  /\ child \in {"up", "exited"} /\ owner = "up" => duty = "run"
  /\ child = "exited" => owner = "up"

\* What session.json says is what its owner has written, and the others have read that.
Written ==
  /\ meta # NoMeta => memory # NoMeta /\ meta.startedAt = memory.startedAt
                      /\ (meta.childPid => memory.childPid)
  /\ memory.startedAt <= now
  /\ \A r \in {reap, stop} :
       r.seen # NoMeta => memory # NoMeta /\ r.seen.startedAt = memory.startedAt
                          /\ (r.seen.childPid => memory.childPid)

\* A signature of a stranger is never recorded.
Signed ==
  /\ record.sig = "stranger" => child = "reused"
  /\ \A m \in {meta, memory, reap.seen, stop.seen} : m.childPidStart # "stranger"

\* An hour after session.json was written first, nothing writes it any more.
Prompted ==
  memory # NoMeta /\ now > memory.startedAt =>
    owner # "up" \/ (duty \in {"run", "settle", "clean", "ended"} /\ ~Busy)

\* What a reaper knows when it has got past a check still holds when it removes the directory.
Reaping ==
  /\ reap.now <= now /\ reap.at # "kill"
  /\ reap.at \in {"owner", "child", "ttl", "remove"} => reap.seen # NoMeta
  /\ reap.at \in {"child", "ttl", "remove"} =>
       reap.owner = "unknown" \/ (reap.owner = "dead-or-reused" /\ owner # "up")
  /\ reap.at \in {"ttl", "remove"} =>
       reap.child = "unknown" \/ (reap.child = "dead-or-reused" /\ (reap.seen.childPid => child # "up"))
  /\ reap.at = "remove" => reap.now - reap.seen.startedAt > Ttl(reap)
  /\ reap.at \in {"owner", "child", "ttl", "remove"} /\ (reap.now > reap.seen.startedAt \/ reap.alone)
       => meta \in {reap.seen, NoMeta}
  /\ reap.at # "idle" => reap.mishaps <= mishaps
  /\ reap.at # "idle" /\ reap.alone => owner # "up" /\ child # "up"

\* The same for a process that stops the session.
Stopping ==
  /\ stop.at \in {"idle", "owner", "kill", "child", "remove"}
  /\ stop.at \in {"owner", "kill", "child"} => stop.seen # NoMeta
  /\ stop.at = "kill" /\ stop.seen.pidStart # "none" => stop.saw = "up"
  /\ stop.at = "child" => owner # "up"
  /\ stop.at = "remove" /\ stop.seen # NoMeta => owner # "up" /\ (stop.seen.childPid => child # "up")

LifeInv ==
  /\ TypedOwner /\ TypedOthers /\ Stages /\ Written /\ Signed /\ Prompted
  /\ Reaping /\ Stopping /\ NoGhost

-----------------------------------------------------------------------------

\* Updates of the records.
LEMMA MetaUpdates ==
  ASSUME NEW m \in Meta
  PROVE  /\ [m EXCEPT !.childPid = TRUE] \in Meta
         /\ \A sig \in Signature : [m EXCEPT !.childPidStart = sig] \in Meta
BY DEF Meta, Signature

\* The records a pass begins with.
LEMMA IdleTyped ==
  /\ Idle \in Pass
  /\ \A n \in Nat, k \in Nat, a \in BOOLEAN :
       [Idle EXCEPT !.at = "meta", !.now = n, !.mishaps = k, !.alone = a] \in Pass
  /\ [Idle EXCEPT !.at = "remove"] \in Pass
  /\ \A m \in Meta : [Idle EXCEPT !.at = "owner", !.seen = m] \in Pass
BY DEF Idle, Pass, PassSteps, Status

\* The records a pass goes on with.
LEMMA PassUpdates ==
  ASSUME NEW r \in Pass
  PROVE  /\ \A at \in PassSteps : [r EXCEPT !.at = at] \in Pass
         /\ \A m \in Meta : [r EXCEPT !.at = "owner", !.seen = m] \in Pass
         /\ \A s \in Status : /\ [r EXCEPT !.at = "child", !.owner = s] \in Pass
                               /\ [r EXCEPT !.at = "ttl", !.child = s] \in Pass
         /\ \A o \in {"none", "up", "dead", "reused"} : [r EXCEPT !.at = "kill", !.saw = o] \in Pass
BY DEF Pass, PassSteps, Status

\* The answers of the two classifiers.
LEMMA Statuses ==
  ASSUME NEW seen, NEW psFails \in BOOLEAN
  PROVE  ClassifyOwner(seen, psFails) \in Status /\ ClassifyChildOwner(seen, psFails) \in Status
BY DEF ClassifyOwner, ClassifyChildOwner, ClassifyPid, Status

\* The steps keep what the owner works on well typed.
LEMMA OwnerTyped ==
  ASSUME TypedOwner, TypedOthers, Stages, [LifeNext]_lifeVars
  PROVE  TypedOwner'
<1> USE LifeAssumption DEF TypedOwner, Stages, Busy, Signature, ownerSide, sessionDir, others
<1>1. CASE CreateDirectory
  BY <1>1 DEF CreateDirectory, Do
<1>2. CASE Materialize
  <2>1. UNCHANGED <<now, memory, child>>
    BY <1>2 DEF Materialize, Do
  <2>2. touched' \in {touched, now} /\ meta' \in {meta, NoMeta}
    BY <1>2 DEF Materialize, Do, RemoveDirectory
  <2>3. /\ owner' = owner /\ record' = record /\ mishaps' \in {mishaps, mishaps + 1}
        /\ duty' \in {duty, "describe", "ended"}
    BY <1>2 DEF Materialize, Do, Mishap
  <2>4. present' \in BOOLEAN
    BY <1>2 DEF Materialize, RemoveDirectory
  <2> QED BY <2>1, <2>2, <2>3, <2>4
<1>3. CASE Describe
  <2>1. CASE Do("describe", "spawn")
    <3>1. PICK psFails \in BOOLEAN :
            memory' = [startedAt |-> now, pidStart |-> IF psFails THEN "none" ELSE "own",
                       childPid |-> FALSE, childPidStart |-> "none"]
      BY <1>3, <2>1 DEF Describe, Do
    <3>2. memory' \in Meta
      BY <3>1 DEF Meta, Signature
    <3> QED BY <1>3, <2>1, <3>2 DEF Describe, Do, Ps, Mishap, WriteMeta
  <2>2. CASE Do("describe", "ended")
    BY <1>3, <2>2 DEF Describe, Do, Mishap
  <2> QED BY <1>3, <2>1, <2>2 DEF Describe
<1>4. CASE Spawn
  BY <1>4 DEF Spawn, Do, Mishap
<1>5. CASE ChildNoticed
  BY <1>5 DEF ChildNoticed, Do
<1>6. CASE Recapture
  BY <1>6 DEF Recapture, Do, Settled
<1>7. CASE Clean
  <2>1. UNCHANGED <<now, memory, child>>
    BY <1>7 DEF Clean, Do
  <2>2. touched' \in {touched, now} /\ meta' \in {meta, NoMeta}
    BY <1>7 DEF Clean, Do, RemoveDirectory
  <2>3. /\ owner' = owner /\ record' = record /\ mishaps' \in {mishaps, mishaps + 1}
        /\ duty' \in {duty, "describe", "ended"}
    BY <1>7 DEF Clean, Do, Mishap
  <2>4. present' \in BOOLEAN
    BY <1>7 DEF Clean, RemoveDirectory
  <2> QED BY <2>1, <2>2, <2>3, <2>4
<1>8. CASE RecordPid
  <2>1. memory \in Meta
    BY <1>8 DEF RecordPid, Recording
  <2>2. memory' \in Meta
    BY <1>8, <2>1, MetaUpdates DEF RecordPid
  <2>3. UNCHANGED <<now, owner, duty, child>> /\ mishaps' \in {mishaps, mishaps + 1}
    BY <1>8 DEF RecordPid, MetaWriteFails, Mishap
  <2>4. touched' \in {touched, now} /\ meta' \in {meta, memory'}
    BY <1>8 DEF RecordPid, MetaWriteFails, WriteMeta
  <2>5. record' \in {[record EXCEPT !.at = "ps"], [record EXCEPT !.at = "done"]}
    BY <1>8 DEF RecordPid, MetaWriteFails
  <2>6. present' \in BOOLEAN
    BY <1>8 DEF RecordPid, MetaWriteFails, WriteMeta
  <2> QED BY <2>2, <2>3, <2>4, <2>5, <2>6
<1>9. CASE AskPs
  BY <1>9 DEF AskPs, Recording, Ps, Mishap, Alive, SignatureOf
<1>10. CASE RecordSignature
  <2>1. memory \in Meta
    BY <1>10 DEF RecordSignature, Recording
  <2>2. memory' \in Meta
    BY <1>10, <2>1, MetaUpdates DEF RecordSignature
  <2>3. UNCHANGED <<now, owner, duty, child>> /\ mishaps' \in {mishaps, mishaps + 1}
    BY <1>10 DEF RecordSignature, MetaWriteFails, Mishap
  <2>4. touched' \in {touched, now} /\ meta' \in {meta, memory'}
    BY <1>10 DEF RecordSignature, MetaWriteFails, WriteMeta
  <2>5. record' \in {[record EXCEPT !.at = "ps"], [record EXCEPT !.at = "done"]}
    BY <1>10 DEF RecordSignature, MetaWriteFails
  <2>6. present' \in BOOLEAN
    BY <1>10 DEF RecordSignature, MetaWriteFails, WriteMeta
  <2> QED BY <2>2, <2>3, <2>4, <2>5, <2>6
<1>11. CASE BeginReap
  BY <1>11 DEF BeginReap, Reap
<1>12. CASE ReapReadMeta
  BY <1>12 DEF ReapReadMeta, Reap
<1>13. CASE ReapOwner
  BY <1>13 DEF ReapOwner, Reap, Ps, Mishap
<1>14. CASE ReapChild
  BY <1>14 DEF ReapChild, Reap, Ps, Mishap
<1>15. CASE ReapByTtl
  BY <1>15 DEF ReapByTtl, Reap
<1>16. CASE ReapRemove
  <2>1. UNCHANGED <<now, memory, child>>
    BY <1>16 DEF ReapRemove, Reap
  <2>2. touched' \in {touched, now} /\ meta' \in {meta, NoMeta}
    BY <1>16 DEF ReapRemove, Reap, RemoveDirectory
  <2>3. /\ owner' = owner /\ record' = record /\ mishaps' \in {mishaps, mishaps + 1}
        /\ duty' \in {duty, "describe", "ended"}
    BY <1>16 DEF ReapRemove, Reap, Mishap
  <2>4. present' \in BOOLEAN
    BY <1>16 DEF ReapRemove, RemoveDirectory
  <2> QED BY <2>1, <2>2, <2>3, <2>4
<1>17. CASE StopReadMeta
  BY <1>17 DEF StopReadMeta, Stop
<1>18. CASE StopOwner
  BY <1>18 DEF StopOwner, Stop, Ps, Mishap
<1>19. CASE StopKill
  BY <1>19 DEF StopKill, Stop
<1>20. CASE StopChild
  BY <1>20 DEF StopChild, Stop, Ps, Mishap
<1>21. CASE StopRemove
  <2>1. UNCHANGED <<now, memory, child>>
    BY <1>21 DEF StopRemove, Stop
  <2>2. touched' \in {touched, now} /\ meta' \in {meta, NoMeta}
    BY <1>21 DEF StopRemove, Stop, RemoveDirectory
  <2>3. /\ owner' = owner /\ record' = record /\ mishaps' \in {mishaps, mishaps + 1}
        /\ duty' \in {duty, "describe", "ended"}
    BY <1>21 DEF StopRemove, Stop, Mishap
  <2>4. present' \in BOOLEAN
    BY <1>21 DEF StopRemove, RemoveDirectory
  <2> QED BY <2>1, <2>2, <2>3, <2>4
<1>22. CASE ChildExits
  BY <1>22 DEF ChildExits
<1>23. CASE OwnerDies
  BY <1>23 DEF OwnerDies, Mishap
<1>24. CASE PidReused
  BY <1>24 DEF PidReused
<1>25. CASE Tick
  BY <1>25 DEF Tick, Prompt, Settled
<1>26. CASE UNCHANGED lifeVars
  BY <1>26 DEF lifeVars
<1> QED BY <1>1, <1>2, <1>3, <1>4, <1>5, <1>6, <1>7, <1>8, <1>9, <1>10, <1>11, <1>12, <1>13,
     <1>14, <1>15, <1>16, <1>17, <1>18, <1>19, <1>20, <1>21, <1>22, <1>23, <1>24, <1>25,
     <1>26 DEF LifeNext, Owner, Recorder, Reaper, Stopper

\* The steps keep what the reaper and the stopper know well typed.
LEMMA OthersTyped ==
  ASSUME TypedOwner, TypedOthers, [LifeNext]_lifeVars
  PROVE  TypedOthers'
<1> USE LifeAssumption DEF TypedOthers, PassSteps, ownerSide, sessionDir, others
<1>1. CASE CreateDirectory
  BY <1>1 DEF CreateDirectory, Do
<1>2. CASE Materialize
  BY <1>2 DEF Materialize, Do, RemoveDirectory, Mishap
<1>3. CASE Describe
  BY <1>3 DEF Describe, Do, Ps, Mishap, WriteMeta
<1>4. CASE Spawn
  BY <1>4 DEF Spawn, Do, Mishap
<1>5. CASE ChildNoticed
  BY <1>5 DEF ChildNoticed, Do
<1>6. CASE Recapture
  BY <1>6 DEF Recapture, Do, Settled
<1>7. CASE Clean
  BY <1>7 DEF Clean, Do, RemoveDirectory, Mishap
<1>8. CASE RecordPid
  BY <1>8 DEF RecordPid, Recording, WriteMeta, MetaWriteFails, Mishap
<1>9. CASE AskPs
  BY <1>9 DEF AskPs, Recording, Ps, Mishap, Alive, SignatureOf
<1>10. CASE RecordSignature
  BY <1>10 DEF RecordSignature, Recording, IsChildAlive, WriteMeta, MetaWriteFails, Mishap
<1>11. CASE BeginReap
  <2> DEFINE a == owner # "up" /\ child # "up"
  <2>1. reap' = [Idle EXCEPT !.at = "meta", !.now = now, !.mishaps = mishaps, !.alone = a]
    BY <1>11 DEF BeginReap, Reap
  <2>2. now \in Nat /\ mishaps \in Nat /\ a \in BOOLEAN
    BY DEF TypedOwner
  <2> HIDE DEF a
  <2>3. reap' \in Pass
    BY <2>1, <2>2, IdleTyped
  <2> QED BY <1>11, <2>3 DEF BeginReap, Reap
<1>12. CASE ReapReadMeta
  BY <1>12, IdleTyped, PassUpdates DEF ReapReadMeta, Reap, TypedOwner
<1>13. CASE ReapOwner
  <2>1. PICK psFails \in BOOLEAN : LET status == ClassifyOwner(reap.seen, psFails) IN
                                    Reap(IF status = "owner" THEN Idle ELSE [reap EXCEPT !.at = "child", !.owner = status])
    BY <1>13 DEF ReapOwner
  <2> DEFINE status == ClassifyOwner(reap.seen, psFails)
  <2>2. status \in Status
    BY Statuses
  <2> HIDE DEF status
  <2>3. reap' \in {Idle, [reap EXCEPT !.at = "child", !.owner = status]} /\ UNCHANGED stop
    BY <2>1 DEF Reap, status
  <2> QED BY <2>2, <2>3, IdleTyped, PassUpdates
<1>14. CASE ReapChild
  <2>1. PICK psFails \in BOOLEAN : LET status == ClassifyChildOwner(reap.seen, psFails) IN
                                    Reap(IF status = "owner" THEN Idle ELSE [reap EXCEPT !.at = "ttl", !.child = status])
    BY <1>14 DEF ReapChild
  <2> DEFINE status == ClassifyChildOwner(reap.seen, psFails)
  <2>2. status \in Status
    BY Statuses
  <2> HIDE DEF status
  <2>3. reap' \in {Idle, [reap EXCEPT !.at = "ttl", !.child = status]} /\ UNCHANGED stop
    BY <2>1 DEF Reap, status
  <2> QED BY <2>2, <2>3, IdleTyped, PassUpdates
<1>15. CASE ReapByTtl
  BY <1>15, IdleTyped, PassUpdates DEF ReapByTtl, Reap, TypedOwner
<1>16. CASE ReapRemove
  BY <1>16, IdleTyped, PassUpdates DEF ReapRemove, Reap, RemoveDirectory, Mishap, TypedOwner
<1>17. CASE StopReadMeta
  BY <1>17, IdleTyped, PassUpdates DEF StopReadMeta, Stop, TypedOwner
<1>18. CASE StopOwner
  BY <1>18, IdleTyped, PassUpdates, Statuses DEF StopOwner, Stop, Ps, Mishap, TypedOwner
<1>19. CASE StopKill
  BY <1>19, IdleTyped, PassUpdates DEF StopKill, Stop, TypedOwner
<1>20. CASE StopChild
  BY <1>20, IdleTyped, PassUpdates, Statuses DEF StopChild, Stop, Ps, Mishap, TypedOwner
<1>21. CASE StopRemove
  BY <1>21, IdleTyped, PassUpdates DEF StopRemove, Stop, RemoveDirectory, Mishap, TypedOwner
<1>22. CASE ChildExits
  BY <1>22 DEF ChildExits
<1>23. CASE OwnerDies
  BY <1>23 DEF OwnerDies, Mishap
<1>24. CASE PidReused
  BY <1>24 DEF PidReused
<1>25. CASE Tick
  BY <1>25 DEF Tick, Prompt, Settled
<1>26. CASE UNCHANGED lifeVars
  BY <1>26 DEF lifeVars
<1> QED BY <1>1, <1>2, <1>3, <1>4, <1>5, <1>6, <1>7, <1>8, <1>9, <1>10, <1>11, <1>12, <1>13,
     <1>14, <1>15, <1>16, <1>17, <1>18, <1>19, <1>20, <1>21, <1>22, <1>23, <1>24, <1>25,
     <1>26 DEF LifeNext, Owner, Recorder, Reaper, Stopper

\* The owner goes through its duties in order.
LEMMA StagesKept ==
  ASSUME TypedOwner, TypedOthers, Stages, [LifeNext]_lifeVars
  PROVE  Stages'
<1> USE LifeAssumption DEF TypedOwner, Stages, Busy, NoMeta, Meta, ownerSide, sessionDir, others
<1>1. CASE CreateDirectory
  BY <1>1 DEF CreateDirectory, Do
<1>2. CASE Materialize
  BY <1>2 DEF Materialize, Do, RemoveDirectory, Mishap
<1>3. CASE Describe
  BY <1>3 DEF Describe, Do, Ps, Mishap, WriteMeta
<1>4. CASE Spawn
  BY <1>4 DEF Spawn, Do, Mishap
<1>5. CASE ChildNoticed
  BY <1>5 DEF ChildNoticed, Do
<1>6. CASE Recapture
  BY <1>6 DEF Recapture, Do, Settled
<1>7. CASE Clean
  BY <1>7 DEF Clean, Do, RemoveDirectory, Mishap
<1>8. CASE RecordPid
  BY <1>8 DEF RecordPid, Recording, WriteMeta, MetaWriteFails, Mishap
<1>9. CASE AskPs
  BY <1>9 DEF AskPs, Recording, Ps, Mishap, Alive, SignatureOf
<1>10. CASE RecordSignature
  BY <1>10 DEF RecordSignature, Recording, IsChildAlive, WriteMeta, MetaWriteFails, Mishap
<1>11. CASE BeginReap
  BY <1>11 DEF BeginReap, Reap
<1>12. CASE ReapReadMeta
  BY <1>12 DEF ReapReadMeta, Reap
<1>13. CASE ReapOwner
  BY <1>13 DEF ReapOwner, Reap, Ps, Mishap
<1>14. CASE ReapChild
  BY <1>14 DEF ReapChild, Reap, Ps, Mishap
<1>15. CASE ReapByTtl
  BY <1>15 DEF ReapByTtl, Reap
<1>16. CASE ReapRemove
  BY <1>16 DEF ReapRemove, Reap, RemoveDirectory, Mishap
<1>17. CASE StopReadMeta
  BY <1>17 DEF StopReadMeta, Stop
<1>18. CASE StopOwner
  BY <1>18 DEF StopOwner, Stop, Ps, Mishap
<1>19. CASE StopKill
  BY <1>19 DEF StopKill, Stop
<1>20. CASE StopChild
  BY <1>20 DEF StopChild, Stop, Ps, Mishap
<1>21. CASE StopRemove
  BY <1>21 DEF StopRemove, Stop, RemoveDirectory, Mishap
<1>22. CASE ChildExits
  BY <1>22 DEF ChildExits
<1>23. CASE OwnerDies
  BY <1>23 DEF OwnerDies, Mishap
<1>24. CASE PidReused
  BY <1>24 DEF PidReused
<1>25. CASE Tick
  BY <1>25 DEF Tick, Prompt, Settled
<1>26. CASE UNCHANGED lifeVars
  BY <1>26 DEF lifeVars
<1> QED BY <1>1, <1>2, <1>3, <1>4, <1>5, <1>6, <1>7, <1>8, <1>9, <1>10, <1>11, <1>12, <1>13,
     <1>14, <1>15, <1>16, <1>17, <1>18, <1>19, <1>20, <1>21, <1>22, <1>23, <1>24, <1>25,
     <1>26 DEF LifeNext, Owner, Recorder, Reaper, Stopper

\* What was read or written of session.json agrees with what the owner holds.
LEMMA WrittenKept ==
  ASSUME TypedOwner, TypedOthers, Stages, Written, [LifeNext]_lifeVars
  PROVE  Written'
<1> USE LifeAssumption DEF TypedOwner, TypedOthers, Stages, Busy, Written, Pass, Idle, NoMeta,
     Meta, ownerSide, sessionDir, others
<1>1. CASE CreateDirectory
  BY <1>1 DEF CreateDirectory, Do
<1>2. CASE Materialize
  BY <1>2 DEF Materialize, Do, RemoveDirectory, Mishap
<1>3. CASE Describe
  BY <1>3 DEF Describe, Do, Ps, Mishap, WriteMeta
<1>4. CASE Spawn
  BY <1>4 DEF Spawn, Do, Mishap
<1>5. CASE ChildNoticed
  BY <1>5 DEF ChildNoticed, Do
<1>6. CASE Recapture
  BY <1>6 DEF Recapture, Do, Settled
<1>7. CASE Clean
  BY <1>7 DEF Clean, Do, RemoveDirectory, Mishap
<1>8. CASE RecordPid
  BY <1>8 DEF RecordPid, Recording, WriteMeta, MetaWriteFails, Mishap
<1>9. CASE AskPs
  BY <1>9 DEF AskPs, Recording, Ps, Mishap, Alive, SignatureOf
<1>10. CASE RecordSignature
  BY <1>10 DEF RecordSignature, Recording, IsChildAlive, WriteMeta, MetaWriteFails, Mishap
<1>11. CASE BeginReap
  BY <1>11 DEF BeginReap, Reap
<1>12. CASE ReapReadMeta
  BY <1>12 DEF ReapReadMeta, Reap
<1>13. CASE ReapOwner
  <2>1. reap'.seen \in {reap.seen, NoMeta}
    BY <1>13 DEF ReapOwner, Reap, Ps, Mishap, TypedOthers, Pass, Idle
  <2>2. UNCHANGED <<now, meta, memory, stop>>
    BY <1>13 DEF ReapOwner, Reap, Ps, Mishap, ownerSide, sessionDir
  <2> QED BY <2>1, <2>2 DEF Written
<1>14. CASE ReapChild
  <2>1. reap'.seen \in {reap.seen, NoMeta}
    BY <1>14 DEF ReapChild, Reap, Ps, Mishap, TypedOthers, Pass, Idle
  <2>2. UNCHANGED <<now, meta, memory, stop>>
    BY <1>14 DEF ReapChild, Reap, Ps, Mishap, ownerSide, sessionDir
  <2> QED BY <2>1, <2>2 DEF Written
<1>15. CASE ReapByTtl
  <2>1. reap'.seen \in {reap.seen, NoMeta}
    BY <1>15 DEF ReapByTtl, Reap, TypedOthers, Pass, Idle
  <2>2. UNCHANGED <<now, meta, memory, stop>>
    BY <1>15 DEF ReapByTtl, Reap, ownerSide, sessionDir
  <2> QED BY <2>1, <2>2 DEF Written
<1>16. CASE ReapRemove
  BY <1>16 DEF ReapRemove, Reap, RemoveDirectory, Mishap
<1>17. CASE StopReadMeta
  BY <1>17 DEF StopReadMeta, Stop
<1>18. CASE StopOwner
  <2>1. stop'.seen \in {stop.seen, NoMeta}
    BY <1>18 DEF StopOwner, Stop, Ps, Mishap, TypedOthers, Pass, Idle
  <2>2. UNCHANGED <<now, meta, memory, reap>>
    BY <1>18 DEF StopOwner, Stop, Ps, Mishap, ownerSide, sessionDir
  <2> QED BY <2>1, <2>2 DEF Written
<1>19. CASE StopKill
  BY <1>19 DEF StopKill, Stop
<1>20. CASE StopChild
  <2>1. stop'.seen \in {stop.seen, NoMeta}
    BY <1>20 DEF StopChild, Stop, Ps, Mishap, TypedOthers, Pass, Idle
  <2>2. UNCHANGED <<now, meta, memory, reap>>
    BY <1>20 DEF StopChild, Stop, Ps, Mishap, ownerSide, sessionDir
  <2> QED BY <2>1, <2>2 DEF Written
<1>21. CASE StopRemove
  BY <1>21 DEF StopRemove, Stop, RemoveDirectory, Mishap
<1>22. CASE ChildExits
  BY <1>22 DEF ChildExits
<1>23. CASE OwnerDies
  BY <1>23 DEF OwnerDies, Mishap
<1>24. CASE PidReused
  BY <1>24 DEF PidReused
<1>25. CASE Tick
  BY <1>25 DEF Tick, Prompt, Settled
<1>26. CASE UNCHANGED lifeVars
  BY <1>26 DEF lifeVars
<1> QED BY <1>1, <1>2, <1>3, <1>4, <1>5, <1>6, <1>7, <1>8, <1>9, <1>10, <1>11, <1>12, <1>13,
     <1>14, <1>15, <1>16, <1>17, <1>18, <1>19, <1>20, <1>21, <1>22, <1>23, <1>24, <1>25,
     <1>26 DEF LifeNext, Owner, Recorder, Reaper, Stopper

\* ps is asked while the child is there, and the answer is kept only if it still is.
LEMMA SignedKept ==
  ASSUME TypedOwner, TypedOthers, Stages, Signed, [LifeNext]_lifeVars
  PROVE  Signed'
<1> USE LifeAssumption DEF TypedOwner, TypedOthers, Stages, Busy, Signed, Pass, Idle, NoMeta,
     ownerSide, sessionDir, others
<1>1. CASE CreateDirectory
  BY <1>1 DEF CreateDirectory, Do
<1>2. CASE Materialize
  BY <1>2 DEF Materialize, Do, RemoveDirectory, Mishap
<1>3. CASE Describe
  BY <1>3 DEF Describe, Do, Ps, Mishap, WriteMeta
<1>4. CASE Spawn
  BY <1>4 DEF Spawn, Do, Mishap
<1>5. CASE ChildNoticed
  BY <1>5 DEF ChildNoticed, Do
<1>6. CASE Recapture
  BY <1>6 DEF Recapture, Do, Settled
<1>7. CASE Clean
  BY <1>7 DEF Clean, Do, RemoveDirectory, Mishap
<1>8. CASE RecordPid
  <2>1. memory'.childPidStart = memory.childPidStart /\ UNCHANGED <<reap, stop, child>>
    BY <1>8 DEF RecordPid, Meta
  <2>2. meta' \in {meta, memory'} /\ record'.sig = record.sig
    BY <1>8 DEF RecordPid, Recording, WriteMeta, MetaWriteFails
  <2> QED BY <2>1, <2>2
<1>9. CASE AskPs
  BY <1>9 DEF AskPs, Recording, Ps, Mishap, Alive, SignatureOf
<1>10. CASE RecordSignature
  <2>1. memory'.childPidStart \in {memory.childPidStart, record.sig} /\ UNCHANGED <<reap, stop, child>>
    BY <1>10 DEF RecordSignature, Meta
  <2>2. record.sig = "stranger" => UNCHANGED memory
    BY <1>10 DEF RecordSignature, IsChildAlive
  <2>3. meta' \in {meta, memory'} /\ record'.sig = record.sig
    BY <1>10 DEF RecordSignature, Recording, WriteMeta, MetaWriteFails
  <2> QED BY <2>1, <2>2, <2>3
<1>11. CASE BeginReap
  BY <1>11 DEF BeginReap, Reap
<1>12. CASE ReapReadMeta
  BY <1>12 DEF ReapReadMeta, Reap
<1>13. CASE ReapOwner
  BY <1>13 DEF ReapOwner, Reap, Ps, Mishap
<1>14. CASE ReapChild
  BY <1>14 DEF ReapChild, Reap, Ps, Mishap
<1>15. CASE ReapByTtl
  BY <1>15 DEF ReapByTtl, Reap
<1>16. CASE ReapRemove
  BY <1>16 DEF ReapRemove, Reap, RemoveDirectory, Mishap
<1>17. CASE StopReadMeta
  BY <1>17 DEF StopReadMeta, Stop
<1>18. CASE StopOwner
  BY <1>18 DEF StopOwner, Stop, Ps, Mishap
<1>19. CASE StopKill
  BY <1>19 DEF StopKill, Stop
<1>20. CASE StopChild
  BY <1>20 DEF StopChild, Stop, Ps, Mishap
<1>21. CASE StopRemove
  BY <1>21 DEF StopRemove, Stop, RemoveDirectory, Mishap
<1>22. CASE ChildExits
  BY <1>22 DEF ChildExits
<1>23. CASE OwnerDies
  BY <1>23 DEF OwnerDies, Mishap
<1>24. CASE PidReused
  BY <1>24 DEF PidReused
<1>25. CASE Tick
  BY <1>25 DEF Tick, Prompt, Settled
<1>26. CASE UNCHANGED lifeVars
  BY <1>26 DEF lifeVars
<1> QED BY <1>1, <1>2, <1>3, <1>4, <1>5, <1>6, <1>7, <1>8, <1>9, <1>10, <1>11, <1>12, <1>13,
     <1>14, <1>15, <1>16, <1>17, <1>18, <1>19, <1>20, <1>21, <1>22, <1>23, <1>24, <1>25,
     <1>26 DEF LifeNext, Owner, Recorder, Reaper, Stopper

\* Time passes only when the owner is between its duties.
LEMMA PromptedKept ==
  ASSUME TypedOwner, Stages, Written, Prompted, [LifeNext]_lifeVars
  PROVE  Prompted'
<1> USE LifeAssumption DEF TypedOwner, Stages, Busy, Written, Prompted, NoMeta, Meta, ownerSide,
     sessionDir, others
<1>1. CASE CreateDirectory
  BY <1>1 DEF CreateDirectory, Do
<1>2. CASE Materialize
  BY <1>2 DEF Materialize, Do, RemoveDirectory, Mishap
<1>3. CASE Describe
  BY <1>3 DEF Describe, Do, Ps, Mishap, WriteMeta
<1>4. CASE Spawn
  BY <1>4 DEF Spawn, Do, Mishap
<1>5. CASE ChildNoticed
  BY <1>5 DEF ChildNoticed, Do
<1>6. CASE Recapture
  BY <1>6 DEF Recapture, Do, Settled
<1>7. CASE Clean
  BY <1>7 DEF Clean, Do, RemoveDirectory, Mishap
<1>8. CASE RecordPid
  BY <1>8 DEF RecordPid, Recording, WriteMeta, MetaWriteFails, Mishap
<1>9. CASE AskPs
  BY <1>9 DEF AskPs, Recording, Ps, Mishap, Alive, SignatureOf
<1>10. CASE RecordSignature
  BY <1>10 DEF RecordSignature, Recording, IsChildAlive, WriteMeta, MetaWriteFails, Mishap
<1>11. CASE BeginReap
  BY <1>11 DEF BeginReap, Reap
<1>12. CASE ReapReadMeta
  BY <1>12 DEF ReapReadMeta, Reap
<1>13. CASE ReapOwner
  BY <1>13 DEF ReapOwner, Reap, Ps, Mishap
<1>14. CASE ReapChild
  BY <1>14 DEF ReapChild, Reap, Ps, Mishap
<1>15. CASE ReapByTtl
  BY <1>15 DEF ReapByTtl, Reap
<1>16. CASE ReapRemove
  BY <1>16 DEF ReapRemove, Reap, RemoveDirectory, Mishap
<1>17. CASE StopReadMeta
  BY <1>17 DEF StopReadMeta, Stop
<1>18. CASE StopOwner
  BY <1>18 DEF StopOwner, Stop, Ps, Mishap
<1>19. CASE StopKill
  BY <1>19 DEF StopKill, Stop
<1>20. CASE StopChild
  BY <1>20 DEF StopChild, Stop, Ps, Mishap
<1>21. CASE StopRemove
  BY <1>21 DEF StopRemove, Stop, RemoveDirectory, Mishap
<1>22. CASE ChildExits
  BY <1>22 DEF ChildExits
<1>23. CASE OwnerDies
  BY <1>23 DEF OwnerDies, Mishap
<1>24. CASE PidReused
  BY <1>24 DEF PidReused
<1>25. CASE Tick
  BY <1>25 DEF Tick, Prompt, Settled
<1>26. CASE UNCHANGED lifeVars
  BY <1>26 DEF lifeVars
<1> QED BY <1>1, <1>2, <1>3, <1>4, <1>5, <1>6, <1>7, <1>8, <1>9, <1>10, <1>11, <1>12, <1>13,
     <1>14, <1>15, <1>16, <1>17, <1>18, <1>19, <1>20, <1>21, <1>22, <1>23, <1>24, <1>25,
     <1>26 DEF LifeNext, Owner, Recorder, Reaper, Stopper

\* An owner or child that was seen dead does not come back.
LEMMA StoppingKept ==
  ASSUME TypedOwner, TypedOthers, Stages, Written, Signed, Stopping, [LifeNext]_lifeVars
  PROVE  Stopping'
<1> USE LifeAssumption DEF TypedOwner, TypedOthers, Stages, Written, Busy, Stopping, Pass, Idle,
     NoMeta, ownerSide, sessionDir, others
<1>1. CASE CreateDirectory
  BY <1>1 DEF CreateDirectory, Do
<1>2. CASE Materialize
  BY <1>2 DEF Materialize, Do, RemoveDirectory, Mishap
<1>3. CASE Describe
  BY <1>3 DEF Describe, Do, Ps, Mishap, WriteMeta
<1>4. CASE Spawn
  BY <1>4 DEF Spawn, Do, Mishap
<1>5. CASE ChildNoticed
  BY <1>5 DEF ChildNoticed, Do
<1>6. CASE Recapture
  BY <1>6 DEF Recapture, Do, Settled
<1>7. CASE Clean
  BY <1>7 DEF Clean, Do, RemoveDirectory, Mishap
<1>8. CASE RecordPid
  BY <1>8 DEF RecordPid, Recording, WriteMeta, MetaWriteFails, Mishap
<1>9. CASE AskPs
  BY <1>9 DEF AskPs, Recording, Ps, Mishap, Alive, SignatureOf
<1>10. CASE RecordSignature
  BY <1>10 DEF RecordSignature, Recording, IsChildAlive, WriteMeta, MetaWriteFails, Mishap
<1>11. CASE BeginReap
  BY <1>11 DEF BeginReap, Reap
<1>12. CASE ReapReadMeta
  BY <1>12 DEF ReapReadMeta, Reap
<1>13. CASE ReapOwner
  BY <1>13 DEF ReapOwner, Reap, Ps, Mishap, ClassifyOwner, ClassifyChildOwner, ClassifyPid,
       Alive, SignatureOf
<1>14. CASE ReapChild
  BY <1>14 DEF ReapChild, Reap, Ps, Mishap, ClassifyOwner, ClassifyChildOwner, ClassifyPid,
       Alive, SignatureOf
<1>15. CASE ReapByTtl
  BY <1>15 DEF ReapByTtl, Reap
<1>16. CASE ReapRemove
  BY <1>16 DEF ReapRemove, Reap, RemoveDirectory, Mishap
<1>17. CASE StopReadMeta
  BY <1>17 DEF StopReadMeta, Stop
<1>18. CASE StopOwner
  <2>1. PICK psFails \in BOOLEAN :
          LET status == ClassifyOwner(stop.seen, psFails) IN
          Stop(CASE status = "owner"   -> [stop EXCEPT !.at = "kill", !.saw = owner]
                 [] status = "unknown" -> Idle
                 [] OTHER              -> [stop EXCEPT !.at = "child"])
    BY <1>18 DEF StopOwner
  <2> DEFINE status == ClassifyOwner(stop.seen, psFails)
  <2>2. UNCHANGED <<owner, child>> /\ stop.at = "owner"
    BY <1>18 DEF StopOwner
  <2>3. CASE status = "owner"
    <3>1. stop' = [stop EXCEPT !.at = "kill", !.saw = owner]
      BY <2>1, <2>3 DEF Stop
    <3>2. stop.seen.pidStart # "none" => owner = "up"
      BY <2>3 DEF ClassifyOwner, ClassifyChildOwner, ClassifyPid, Alive, SignatureOf, Meta
    <3> QED BY <2>2, <3>1, <3>2
  <2>4. CASE status = "unknown"
    BY <2>1, <2>2, <2>4 DEF Stop
  <2>5. CASE status \notin {"owner", "unknown"}
    <3>1. stop' = [stop EXCEPT !.at = "child"]
      BY <2>1, <2>5 DEF Stop
    <3>2. owner # "up"
      BY <2>5 DEF ClassifyOwner, ClassifyChildOwner, ClassifyPid, Alive, SignatureOf, Meta
    <3> QED BY <2>2, <3>1, <3>2
  <2> QED BY <2>3, <2>4, <2>5
<1>19. CASE StopKill
  BY <1>19 DEF StopKill, Stop
<1>20. CASE StopChild
  <2>1. PICK psFails \in BOOLEAN :
          Stop(IF ClassifyChildOwner(stop.seen, psFails) = "dead-or-reused"
               THEN [stop EXCEPT !.at = "remove"] ELSE Idle)
    BY <1>20 DEF StopChild
  <2>2. UNCHANGED <<owner, child>> /\ stop.at = "child"
    BY <1>20 DEF StopChild
  <2>3. CASE ClassifyChildOwner(stop.seen, psFails) = "dead-or-reused"
    <3>1. stop' = [stop EXCEPT !.at = "remove"]
      BY <2>1, <2>3 DEF Stop
    <3>2. stop.seen.childPid => child # "up"
      BY <2>3 DEF Signed, Signature, ClassifyOwner, ClassifyChildOwner, ClassifyPid, Alive,
           SignatureOf, Meta
    <3> QED BY <2>2, <3>1, <3>2
  <2>4. CASE ClassifyChildOwner(stop.seen, psFails) # "dead-or-reused"
    BY <2>1, <2>2, <2>4 DEF Stop
  <2> QED BY <2>3, <2>4
<1>21. CASE StopRemove
  BY <1>21 DEF StopRemove, Stop, RemoveDirectory, Mishap
<1>22. CASE ChildExits
  BY <1>22 DEF ChildExits
<1>23. CASE OwnerDies
  BY <1>23 DEF OwnerDies, Mishap
<1>24. CASE PidReused
  BY <1>24 DEF PidReused
<1>25. CASE Tick
  BY <1>25 DEF Tick, Prompt, Settled
<1>26. CASE UNCHANGED lifeVars
  BY <1>26 DEF lifeVars
<1> QED BY <1>1, <1>2, <1>3, <1>4, <1>5, <1>6, <1>7, <1>8, <1>9, <1>10, <1>11, <1>12, <1>13,
     <1>14, <1>15, <1>16, <1>17, <1>18, <1>19, <1>20, <1>21, <1>22, <1>23, <1>24, <1>25,
     <1>26 DEF LifeNext, Owner, Recorder, Reaper, Stopper

\* The same for a reaper, which in addition knows the age of what it has read.
LEMMA ReapingKept ==
  ASSUME TypedOwner, TypedOthers, Stages, Written, Signed, Prompted, Reaping, [LifeNext]_lifeVars
  PROVE  Reaping'
<1> USE LifeAssumption DEF TypedOwner, TypedOthers, Stages, Written, Busy, Prompted, Reaping,
     Pass, Idle, NoMeta, Meta, ownerSide, sessionDir, others
<1>1. CASE CreateDirectory
  BY <1>1 DEF CreateDirectory, Do
<1>2. CASE Materialize
  BY <1>2 DEF Materialize, Do, RemoveDirectory, Mishap
<1>3. CASE Describe
  BY <1>3 DEF Describe, Do, Ps, Mishap, WriteMeta
<1>4. CASE Spawn
  BY <1>4 DEF Spawn, Do, Mishap
<1>5. CASE ChildNoticed
  BY <1>5 DEF ChildNoticed, Do
<1>6. CASE Recapture
  BY <1>6 DEF Recapture, Do, Settled
<1>7. CASE Clean
  BY <1>7 DEF Clean, Do, RemoveDirectory, Mishap
<1>8. CASE RecordPid
  BY <1>8 DEF RecordPid, Recording, WriteMeta, MetaWriteFails, Mishap
<1>9. CASE AskPs
  BY <1>9 DEF AskPs, Recording, Ps, Mishap, Alive, SignatureOf
<1>10. CASE RecordSignature
  BY <1>10 DEF RecordSignature, Recording, IsChildAlive, WriteMeta, MetaWriteFails, Mishap
<1>11. CASE BeginReap
  <2>1. reap' = [Idle EXCEPT !.at = "meta", !.now = now, !.mishaps = mishaps,
                             !.alone = owner # "up" /\ child # "up"]
    BY <1>11 DEF BeginReap, Reap
  <2>2. UNCHANGED <<now, mishaps, owner, child, meta>>
    BY <1>11 DEF BeginReap, Reap
  <2>3. /\ reap'.at = "meta" /\ reap'.now = now /\ reap'.mishaps = mishaps
        /\ reap'.alone => owner # "up" /\ child # "up"
    BY <2>1
  <2> HIDE DEF Idle
  <2> QED BY <2>2, <2>3
<1>12. CASE ReapReadMeta
  BY <1>12 DEF ReapReadMeta, Reap
<1>13. CASE ReapOwner
  BY <1>13 DEF ReapOwner, Reap, Ps, Mishap, ClassifyOwner, ClassifyChildOwner, ClassifyPid,
       Alive, SignatureOf
<1>14. CASE ReapChild
  <2>1. PICK psFails \in BOOLEAN :
          LET status == ClassifyChildOwner(reap.seen, psFails) IN
          Reap(IF status = "owner" THEN Idle ELSE [reap EXCEPT !.at = "ttl", !.child = status])
    BY <1>14 DEF ReapChild
  <2> DEFINE status == ClassifyChildOwner(reap.seen, psFails)
  <2>2. UNCHANGED <<now, owner, child, meta>> /\ reap.at = "child" /\ reap.mishaps <= mishaps'
    BY <1>14 DEF ReapChild, Reap, Ps, Mishap
  <2>3. CASE status = "owner"
    BY <2>1, <2>2, <2>3 DEF Reap
  <2>4. CASE status # "owner"
    <3>1. reap' = [reap EXCEPT !.at = "ttl", !.child = status]
      BY <2>1, <2>4 DEF Reap
    <3>2. status = "unknown" \/ (status = "dead-or-reused" /\ (reap.seen.childPid => child # "up"))
      BY <2>4 DEF Signed, Signature, ClassifyOwner, ClassifyChildOwner, ClassifyPid, Alive,
           SignatureOf
    <3>3. /\ reap'.at = "ttl" /\ reap'.child = status /\ reap'.seen = reap.seen /\ reap'.now = reap.now
          /\ reap'.owner = reap.owner /\ (reap'.alone => reap.alone) /\ reap'.mishaps = reap.mishaps
      BY <3>1
    <3> HIDE DEF status
    <3> HIDE DEF Pass, Written, Stages, Prompted, Idle, Meta, NoMeta, TypedOwner, TypedOthers,
         IsUnknown, Ttl
    <3> QED BY <2>2, <3>2, <3>3
  <2> QED BY <2>3, <2>4
<1>15. CASE ReapByTtl
  BY <1>15 DEF ReapByTtl, Reap, ReapTime, Ttl, IsUnknown
<1>16. CASE ReapRemove
  BY <1>16 DEF ReapRemove, Reap, RemoveDirectory, Mishap
<1>17. CASE StopReadMeta
  BY <1>17 DEF StopReadMeta, Stop
<1>18. CASE StopOwner
  BY <1>18 DEF StopOwner, Stop, Ps, Mishap, ClassifyOwner, ClassifyChildOwner, ClassifyPid,
       Alive, SignatureOf
<1>19. CASE StopKill
  BY <1>19 DEF StopKill, Stop
<1>20. CASE StopChild
  BY <1>20 DEF StopChild, Stop, Ps, Mishap, ClassifyOwner, ClassifyChildOwner, ClassifyPid,
       Alive, SignatureOf
<1>21. CASE StopRemove
  BY <1>21 DEF StopRemove, Stop, RemoveDirectory, Mishap
<1>22. CASE ChildExits
  BY <1>22 DEF ChildExits
<1>23. CASE OwnerDies
  BY <1>23 DEF OwnerDies, Mishap
<1>24. CASE PidReused
  BY <1>24 DEF PidReused
<1>25. CASE Tick
  BY <1>25 DEF Tick, Prompt, Settled
<1>26. CASE UNCHANGED lifeVars
  BY <1>26 DEF lifeVars
<1> QED BY <1>1, <1>2, <1>3, <1>4, <1>5, <1>6, <1>7, <1>8, <1>9, <1>10, <1>11, <1>12, <1>13,
     <1>14, <1>15, <1>16, <1>17, <1>18, <1>19, <1>20, <1>21, <1>22, <1>23, <1>24, <1>25,
     <1>26 DEF LifeNext, Owner, Recorder, Reaper, Stopper

\* Once the owner has ended, only a failed removal leaves the directory.
LEMMA NoGhostKept ==
  ASSUME TypedOwner, Stages, NoGhost, [LifeNext]_lifeVars
  PROVE  NoGhost'
<1> USE LifeAssumption DEF TypedOwner, Stages, Busy, NoGhost, NoMeta, ownerSide, sessionDir,
     others
<1>1. CASE CreateDirectory
  BY <1>1 DEF CreateDirectory, Do
<1>2. CASE Materialize
  BY <1>2 DEF Materialize, Do, RemoveDirectory, Mishap
<1>3. CASE Describe
  BY <1>3 DEF Describe, Do, Ps, Mishap, WriteMeta
<1>4. CASE Spawn
  BY <1>4 DEF Spawn, Do, Mishap
<1>5. CASE ChildNoticed
  BY <1>5 DEF ChildNoticed, Do
<1>6. CASE Recapture
  BY <1>6 DEF Recapture, Do, Settled
<1>7. CASE Clean
  BY <1>7 DEF Clean, Do, RemoveDirectory, Mishap
<1>8. CASE RecordPid
  BY <1>8 DEF RecordPid, Recording, WriteMeta, MetaWriteFails, Mishap
<1>9. CASE AskPs
  BY <1>9 DEF AskPs, Recording, Ps, Mishap, Alive, SignatureOf
<1>10. CASE RecordSignature
  BY <1>10 DEF RecordSignature, Recording, IsChildAlive, WriteMeta, MetaWriteFails, Mishap
<1>11. CASE BeginReap
  BY <1>11 DEF BeginReap, Reap
<1>12. CASE ReapReadMeta
  BY <1>12 DEF ReapReadMeta, Reap
<1>13. CASE ReapOwner
  BY <1>13 DEF ReapOwner, Reap, Ps, Mishap
<1>14. CASE ReapChild
  BY <1>14 DEF ReapChild, Reap, Ps, Mishap
<1>15. CASE ReapByTtl
  BY <1>15 DEF ReapByTtl, Reap
<1>16. CASE ReapRemove
  BY <1>16 DEF ReapRemove, Reap, RemoveDirectory, Mishap
<1>17. CASE StopReadMeta
  BY <1>17 DEF StopReadMeta, Stop
<1>18. CASE StopOwner
  BY <1>18 DEF StopOwner, Stop, Ps, Mishap
<1>19. CASE StopKill
  BY <1>19 DEF StopKill, Stop
<1>20. CASE StopChild
  BY <1>20 DEF StopChild, Stop, Ps, Mishap
<1>21. CASE StopRemove
  BY <1>21 DEF StopRemove, Stop, RemoveDirectory, Mishap
<1>22. CASE ChildExits
  BY <1>22 DEF ChildExits
<1>23. CASE OwnerDies
  BY <1>23 DEF OwnerDies, Mishap
<1>24. CASE PidReused
  BY <1>24 DEF PidReused
<1>25. CASE Tick
  BY <1>25 DEF Tick, Prompt, Settled
<1>26. CASE UNCHANGED lifeVars
  BY <1>26 DEF lifeVars
<1> QED BY <1>1, <1>2, <1>3, <1>4, <1>5, <1>6, <1>7, <1>8, <1>9, <1>10, <1>11, <1>12, <1>13,
     <1>14, <1>15, <1>16, <1>17, <1>18, <1>19, <1>20, <1>21, <1>22, <1>23, <1>24, <1>25,
     <1>26 DEF LifeNext, Owner, Recorder, Reaper, Stopper

-----------------------------------------------------------------------------

\* Nothing has happened yet.
LEMMA LifeInitially == LifeInit => LifeInv
<1> SUFFICES ASSUME LifeInit PROVE LifeInv
  OBVIOUS
<1>1. /\ NoMeta \in Meta \union {NoMeta} /\ NoMeta.startedAt = -1 /\ NoMeta.childPid = FALSE
      /\ NoMeta.childPidStart = "none"
  BY DEF NoMeta
<1>2. /\ Idle.at = "idle" /\ Idle.now = 0 /\ Idle.seen = NoMeta /\ Idle.alone = FALSE
      /\ Idle.mishaps = 0
  BY DEF Idle
<1>3. TypedOwner
  <2>1. 0 \in 0..MaxTime /\ 0 \in Nat
    BY LifeAssumption
  <2>2. record \in [at : {"off", "pid", "ps", "check", "done"}, sig : Signature]
    BY DEF LifeInit, Signature
  <2> QED BY <1>1, <2>1, <2>2 DEF LifeInit, TypedOwner
<1>4. TypedOthers
  BY IdleTyped DEF LifeInit, TypedOthers
<1>5. Stages /\ Written /\ Signed /\ Prompted /\ NoGhost
  BY <1>1, <1>2 DEF LifeInit, Stages, Busy, Written, Signed, Prompted, NoGhost
<1>6. Reaping /\ Stopping
  BY <1>1, <1>2 DEF LifeInit, Reaping, Stopping
<1> QED BY <1>3, <1>4, <1>5, <1>6 DEF LifeInv

\* The invariant, group by group.
LEMMA LifeSteps == LifeInv /\ [LifeNext]_lifeVars => LifeInv'
<1> SUFFICES ASSUME LifeInv, [LifeNext]_lifeVars PROVE LifeInv'
  OBVIOUS
<1> QED BY OwnerTyped, OthersTyped, StagesKept, WrittenKept, SignedKept, PromptedKept,
     StoppingKept,
           ReapingKept, NoGhostKept DEF LifeInv

\* The invariant holds of every state of a session.
LEMMA LifeInvariance == LifeSpec => []LifeInv
BY LifeInitially, LifeSteps, PTL DEF LifeSpec

\* What session.json and the directory say of a session is true: a directory its owner removed does
\* not come back, and no signature of a stranger is recorded (recordChildPid, cleanupSessionDir).
THEOREM RecordsTrue == LifeSpec => []SessionRecords
<1>1. LifeInv => SessionRecords
  BY DEF LifeInv, Signed, SessionRecords, SignatureOwn
<1> QED BY <1>1, LifeInvariance, PTL

\* Neither a reaper nor a stop takes the directory of a session that is alive, or signals a
\* stranger, but for the unknown owners that the long age gives up (reapOrphans, stopSession).
THEOREM LiveSpared == LifeSpec => LiveSessionsSpared
<1> DEFINE Spared == \/ ~OwnerLives /\ ~(ChildRuns /\ meta.childPid)
                     \/ IsUnknown(reap) /\ now - meta.startedAt > UnknownTtl
<1>1. LifeInv /\ reap.at = "remove" => Spared
  <2> SUFFICES ASSUME LifeInv, reap.at = "remove" PROVE Spared
    OBVIOUS
  <2>1. /\ reap.seen \in Meta /\ reap.now \in Nat /\ now \in Nat /\ UnknownTtl \in Nat /\ OrphanTtl \in Nat
    BY LifeAssumption DEF LifeInv, TypedOwner, TypedOthers, Pass, Reaping
  <2>2. reap.seen.startedAt \in Nat
    BY <2>1 DEF Meta
  <2>3. reap.now <= now /\ reap.now - reap.seen.startedAt > Ttl(reap)
    BY DEF LifeInv, Reaping
  <2>4. meta \in {reap.seen, NoMeta}
    BY <2>1, <2>2, <2>3 DEF LifeInv, Reaping, Ttl
  <2>5. meta.startedAt \in Int /\ meta.startedAt <= reap.seen.startedAt /\ (meta.childPid => meta = reap.seen)
    BY <2>2, <2>4 DEF NoMeta
  <2>6. CASE IsUnknown(reap)
    <3>1. reap.now - reap.seen.startedAt > UnknownTtl
      BY <2>3, <2>6 DEF Ttl
    <3> QED BY <2>1, <2>2, <2>3, <2>5, <2>6, <3>1
  <2>7. CASE ~IsUnknown(reap)
    <3>1. owner # "up" /\ (reap.seen.childPid => child # "up")
      BY <2>7 DEF LifeInv, Reaping, IsUnknown
    <3> QED BY <2>5, <3>1 DEF OwnerLives, ChildRuns
  <2> QED BY <2>6, <2>7
<1>2. LifeInv /\ [LifeNext]_lifeVars => (Reaped => Spared)
  BY <1>1 DEF Reaped
<1> DEFINE Stopped ==
      /\ stop.at = "kill" /\ owner = "reused" /\ stop.seen.pidStart # "none" => stop.saw = "up"
      /\ stop.at = "remove" /\ present /\ ~present' /\ stop.seen # NoMeta =>
           ~OwnerLives /\ ~(ChildRuns /\ stop.seen.childPid)
<1>3. LifeInv /\ [LifeNext]_lifeVars => Stopped
  BY DEF LifeInv, Stopping, OwnerLives, ChildRuns
<1>4. LifeSpec => ReapSparesLive
  BY <1>2, LifeInvariance, PTL DEF LifeSpec, ReapSparesLive
<1>5. LifeSpec => StopSparesLive
  BY <1>3, LifeInvariance, PTL DEF LifeSpec, StopSparesLive
<1> QED BY <1>4, <1>5 DEF LiveSessionsSpared

\* A pass of the reaper in which nothing fails removes the directory of a session that was an orphan
\* when the pass began and is older than the long age, whoever has its pids (reapOrphans).
THEOREM OrphansGo == LifeSpec => OrphansReaped
<1> DEFINE due(time) == reap.now - time > UnknownTtl
           Due == /\ reap.at # "idle" /\ reap'.at = "idle" /\ reap.alone /\ mishaps' = reap.mishaps
                  /\ meta.pidStart = "own" /\ due(meta.startedAt) /\ due(touched)
<1>1. LifeInv /\ [LifeNext]_lifeVars => (Due => ~present')
  <2> SUFFICES ASSUME LifeInv, [LifeNext]_lifeVars, Due PROVE ~present'
    OBVIOUS
  <2>1. /\ mishaps \in Nat /\ reap.mishaps \in Nat /\ reap.mishaps <= mishaps /\ reap \in Pass
        /\ owner # "up" /\ child # "up" /\ owner \in {"dead", "reused"} /\ reap.at # "idle"
    BY DEF LifeInv, TypedOwner, TypedOthers, Pass, Reaping
  <2>2. ~Mishap
    BY <2>1 DEF Mishap
  <2>3. meta # NoMeta /\ present
    BY DEF LifeInv, NoMeta, Stages
  <2>4. reap.at \in {"owner", "child", "ttl", "remove"} => reap.seen = meta
    BY <2>3 DEF LifeInv, Reaping
  <2>5. CASE ReapReadMeta
    BY <2>1, <2>3, <2>5 DEF ReapReadMeta, Reap, Pass
  <2>6. CASE ReapOwner
    <3>1. ClassifyOwner(reap.seen, FALSE) # "owner"
      BY <2>1, <2>4, <2>6 DEF ReapOwner, ClassifyOwner, ClassifyPid, Alive, SignatureOf
    <3>2. reap' = [reap EXCEPT !.at = "child", !.owner = ClassifyOwner(reap.seen, FALSE)]
      BY <2>2, <2>6, <3>1 DEF ReapOwner, Ps, Reap
    <3> QED BY <2>1, <3>2 DEF Pass
  <2>7. CASE ReapChild
    <3>1. child \in {"none", "gone", "reused"}
      BY <2>1 DEF LifeInv, TypedOwner, Stages
    <3>2. ClassifyChildOwner(reap.seen, FALSE) # "owner"
      BY <3>1 DEF LifeInv, Signed, ClassifyChildOwner, ClassifyPid, Alive, SignatureOf
    <3>3. reap' = [reap EXCEPT !.at = "ttl", !.child = ClassifyChildOwner(reap.seen, FALSE)]
      BY <2>2, <2>7, <3>2 DEF ReapChild, Ps, Reap
    <3> QED BY <2>1, <3>3 DEF Pass
  <2>8. CASE ReapByTtl
    <3>1. /\ Ttl(reap) \in Nat /\ Ttl(reap) <= UnknownTtl /\ UnknownTtl \in Nat
          /\ reap.now \in Nat /\ touched \in Nat
      BY LifeAssumption, <2>1 DEF Ttl, LifeInv, TypedOwner, Pass
    <3>2. meta.startedAt \in Nat
      BY <2>3 DEF LifeInv, TypedOwner, Meta
    <3>3. reap.now - meta.startedAt > Ttl(reap) /\ reap.now - touched > Ttl(reap)
      BY <3>1, <3>2
    <3>4. reap' = [reap EXCEPT !.at = "remove"]
      BY <2>3, <2>4, <2>8, <3>3 DEF ReapByTtl, ReapTime, Reap
    <3> QED BY <2>1, <3>4 DEF Pass
  <2>9. CASE ReapRemove
    BY <2>2, <2>9 DEF ReapRemove, RemoveDirectory
  <2>10. CASE UNCHANGED reap
    BY <2>1, <2>10
  <2>11. CASE BeginReap
    BY <2>1, <2>11 DEF BeginReap
  <2>12. CASE Stopper
    BY <2>10, <2>12 DEF Stopper, Stop, StopReadMeta, StopOwner, StopKill, StopChild, StopRemove
  <2>13. CASE Owner \/ Recorder
    BY <2>10, <2>13 DEF Owner, Recorder, others, CreateDirectory, Materialize, Describe, Spawn,
         ChildNoticed, Recapture, Clean, RecordPid, AskPs, RecordSignature
  <2>14. CASE ChildExits \/ OwnerDies \/ PidReused \/ Tick
    BY <2>10, <2>14 DEF others, ChildExits, OwnerDies, PidReused, Tick
  <2> QED BY <2>5, <2>6, <2>7, <2>8, <2>9, <2>10, <2>11, <2>12, <2>13, <2>14
       DEF LifeNext, Reaper, lifeVars
<1> QED BY <1>1, LifeInvariance, PTL DEF LifeSpec, OrphansReaped

-----------------------------------------------------------------------------
(* Types *)

\* Mishaps are counted, and so is whether the owner could not remove the directory.
Mishaps == mishaps \in 0..MaxMishaps /\ botched \in BOOLEAN

LEMMA MishapsKept == Mishaps /\ [LifeNext]_lifeVars => Mishaps'
<1> SUFFICES ASSUME Mishaps, [LifeNext]_lifeVars PROVE Mishaps'
  OBVIOUS
<1>1. CASE UNCHANGED <<mishaps, botched>>
  BY <1>1 DEF Mishaps
<1>2. ASSUME mishaps' = mishaps \/ Mishap, botched' = botched \/ botched' = TRUE PROVE Mishaps'
  <2>1. mishaps' \in 0..MaxMishaps
    BY <1>2, LifeAssumption DEF Mishaps, Mishap
  <2>2. botched' \in BOOLEAN
    BY <1>2 DEF Mishaps
  <2> QED
    BY <2>1, <2>2 DEF Mishaps
<1>3. CASE Owner
  BY <1>2, <1>3 DEF Owner, CreateDirectory, Materialize, Describe, Spawn, ChildNoticed, Recapture, Clean, Ps
<1>4. CASE Recorder
  BY <1>2, <1>4 DEF Recorder, RecordPid, AskPs, RecordSignature, MetaWriteFails, Ps
<1>5. CASE Reaper
  <2>1. mishaps' = mishaps \/ Mishap
    BY <1>5 DEF Reaper, BeginReap, ReapReadMeta, ReapOwner, ReapChild, ReapByTtl, ReapRemove, Ps
  <2>2. botched' = botched
    BY <1>5 DEF Reaper, BeginReap, ReapReadMeta, ReapOwner, ReapChild, ReapByTtl, ReapRemove, Reap, ownerSide
  <2> QED
    BY <1>2, <2>1, <2>2
<1>6. CASE Stopper
  <2>1. mishaps' = mishaps \/ Mishap
    BY <1>6 DEF Stopper, StopReadMeta, StopOwner, StopKill, StopChild, StopRemove, Ps
  <2>2. botched' = botched
    BY <1>6 DEF Stopper, StopReadMeta, StopOwner, StopKill, StopChild, StopRemove, ownerSide
  <2> QED
    BY <1>2, <2>1, <2>2
<1>7. CASE ChildExits \/ OwnerDies \/ PidReused \/ Tick
  BY <1>2, <1>7 DEF ChildExits, OwnerDies, PidReused, Tick, ownerSide
<1> QED
  BY <1>1, <1>3, <1>4, <1>5, <1>6, <1>7 DEF LifeNext, lifeVars

\* A session, its owner, its child and whoever reaps or stops it are well typed, and an exited child and a record
\* under way have an owner that is up (LifeTypeOK).
THEOREM LifeTypeCorrect == LifeSpec => []LifeTypeOK
<1>1. LifeInit => Mishaps
  <2> SUFFICES ASSUME LifeInit PROVE Mishaps
    OBVIOUS
  <2>1. mishaps \in 0..MaxMishaps
    BY LifeAssumption DEF LifeInit
  <2>2. botched \in BOOLEAN
    BY DEF LifeInit
  <2> QED
    BY <2>1, <2>2 DEF Mishaps
<1>2. Mishaps /\ LifeInv => LifeTypeOK
  <2> SUFFICES ASSUME Mishaps, LifeInv PROVE LifeTypeOK
    OBVIOUS
  <2>1. \A r \in {reap, stop} :
          /\ r.at \in {"idle", "meta", "owner", "child", "ttl", "kill", "remove"}
          /\ {r.owner, r.child} \subseteq Status /\ r.seen \in Meta \union {NoMeta}
    BY DEF LifeInv, TypedOthers, Pass, PassSteps
  <2>2. record.at \in {"off", "pid", "ps", "check", "done"} /\ record.sig \in Signature
    BY DEF LifeInv, TypedOwner
  <2> QED
    BY <2>1, <2>2 DEF LifeInv, TypedOwner, Stages, Mishaps, Busy, LifeTypeOK
<1> QED
  BY <1>1, <1>2, MishapsKept, LifeInitially, LifeSteps, PTL DEF LifeSpec
=============================================================================
