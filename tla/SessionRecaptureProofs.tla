----------------------- MODULE SessionRecaptureProofs -----------------------
(***************************************************************************)
(* Proofs about the recapture of sessions.                                 *)
(*                                                                         *)
(* For any number of sessions, credentials, failures, time-outs and kills: *)
(* SessionRecapture keeps the records of a profile those of one login, and *)
(* implements AbstractRecapture.                                           *)
(***************************************************************************)
EXTENDS SessionRecapture, WellFoundedInduction, TLAPS

-----------------------------------------------------------------------------
(* The recapture *)

TypedValues ==
  stored \in [Cred -> Value] /\ identity \in [Cred -> Value] /\ backup \in [Session -> [Cred -> Value]]

TypedControl ==
  /\ holder \in Session \union {Nobody}
  /\ step \in [Session -> Steps]
  /\ entry \in [Session -> {"none", "locked", "free"}]
  /\ result \in [Session -> {"none", "ok", "error"}]

TypedSets ==
  /\ kept \in [Session -> SUBSET Cred] /\ todo \in [Session -> SUBSET Cred]
  /\ committed \in [Session -> SUBSET Cred] /\ staged \in [Session -> SUBSET Cred]
  /\ late \in [Session -> SUBSET Late]

Typed == TypedValues /\ TypedControl /\ TypedSets

\* Who is inside a recapture holds the lock or said it does without.
Entered ==
  \A s \in Session :
    /\ step[s] \in InLock => entry[s] = "free" \/ (entry[s] = "locked" /\ holder = s)
    /\ holder = s => step[s] \in InLock /\ entry[s] = "locked"

Looping == {"backup", "stage", "commit", "compare", "restore"}

\* How far a session has come is told by what it has kept, still has to do, and has committed.
Progress ==
  \A s \in Session :
    /\ step[s] = "running" => kept[s] = {}
    /\ step[s] \in {"running", "waiting", "backup", "stage"} => committed[s] = {}
    /\ step[s] \in {"running", "waiting", "backup", "stage", "commit"} => result[s] = "none"
    /\ step[s] \in InLock \union {"waiting"} => kept[s] # {}
    /\ step[s] \in Looping => todo[s] # {}
    /\ {todo[s], committed[s], staged[s]} \subseteq SUBSET kept[s]
    /\ \A c \in Cred : <<"stage", c>> \in late[s] => c \in kept[s]
    /\ step[s] = "commit" => committed[s] = kept[s] \ todo[s]
    /\ step[s] = "identity" => committed[s] = kept[s]

\* Every staging file has somebody who will remove it or rename it away.
StagedOwned ==
  \A s \in Session \ leaked : \A c \in staged[s] :
    \/ <<"landed", c>> \in late[s]
    \/ step[s] = "stage" /\ c \in kept[s]
    \/ step[s] \in {"commit", "discard"} /\ c \in todo[s]

\* What a recapture under the lock has put in place of the recorded values.
Phase(s) ==
  /\ \A c \in Cred : stored[c] = IF c \in committed[s] THEN s ELSE identity[c]
  /\ step[s] = "backup" => \A c \in kept[s] \ todo[s] : backup[s][c] = identity[c]
  /\ step[s] \in {"stage", "commit", "discard", "compare", "restore"} =>
       \A c \in kept[s] : backup[s][c] = identity[c]
  /\ step[s] \in {"compare", "restore"} => todo[s] = committed[s]
  /\ step[s] = "release" => \A c \in committed[s] : identity[c] = s

\* Until a recapture was free, killed half-way or failed to restore, the profile is what meta.json
\* says of it, but for what the holder of the lock has committed.
Sound ==
  ~tainted =>
    /\ \A s \in Session : step[s] \in InLock => holder = s
    /\ \A s \in Session : \A c \in Cred : <<"restore", c>> \notin late[s]
    /\ holder = Nobody => identity = stored
    /\ \A s \in Session : holder = s => Phase(s)

RecordsInv == Typed /\ Entered /\ Progress /\ StagedOwned /\ Sound

-----------------------------------------------------------------------------
(* The credential a loop does next is one it still has to do. *)

LEMMA LeastNumber ==
  ASSUME NEW T \in SUBSET Nat, T # {}
  PROVE  \E x \in T : \A y \in T : x <= y
<1>1. PICK x \in T : \A y \in T : ~(<<y, x>> \in OpToRel(<, Nat))
  BY NatLessThanWellFounded, WFMin
<1>2. \A y \in T : ~(y < x)
  BY <1>1 DEF OpToRel
<1> QED
  BY <1>2

LEMMA MinIn ==
  ASSUME NEW T \in SUBSET Cred, T # {}
  PROVE  Min(T) \in T
<1>1. \E x \in T : \A y \in T : x <= y
  BY LeastNumber, RecaptureAssumption DEF Cred
<1> QED
  BY <1>1 DEF Min

LEMMA MaxIn ==
  ASSUME NEW T \in SUBSET Cred, T # {}
  PROVE  Max(T) \in T
<1> DEFINE Above == {n \in Nat : \A y \in T : y <= n}
<1>1. NumCreds \in Above
  BY RecaptureAssumption DEF Cred
<1>2. PICK m \in Above : \A n \in Above : m <= n
  BY <1>1, LeastNumber
<1>3. m \in T
  <2> SUFFICES ASSUME m \notin T PROVE FALSE
    OBVIOUS
  <2>1. \A y \in T : y \in Nat /\ y >= 1 /\ y <= m - 1
    BY RecaptureAssumption DEF Cred
  <2>2. m - 1 \in Above
    BY <2>1
  <2> QED
    BY <1>2, <2>2
<1>4. \A y \in T : m >= y
  BY RecaptureAssumption DEF Cred
<1> QED
  BY <1>3, <1>4 DEF Max

-----------------------------------------------------------------------------
LEMMA RecordsInit == RecaptureInit => RecordsInv
<1> SUFFICES ASSUME RecaptureInit PROVE RecordsInv
  OBVIOUS
<1> USE DEF RecaptureInit
<1>1. Typed
  BY DEF Typed, TypedValues, TypedControl, TypedSets, Value, Steps, InLock
<1>2. Entered /\ Progress /\ StagedOwned /\ Sound
  BY RecaptureAssumption DEF Entered, Progress, StagedOwned, Sound, InLock, Steps, Looping
<1> QED
  BY <1>1, <1>2 DEF RecordsInv
\* Helpers of every step.
Moves(s) ==
  \/ EndSession(s) \/ AcquireRecapture(s) \/ DegradeRecapture(s) \/ ReadBackup(s) \/ StageFile(s)
  \/ CommitFile(s) \/ RecordIdentity(s) \/ Discard(s) \/ Compare(s) \/ Restore(s)
  \/ ReleaseRecapture(s) \/ KillSession(s) \/ ExitMat(s)
  \/ \E c \in Cred : Lands(s, c)

Loops(s) ==
  /\ step[s] \in {"backup", "stage", "commit"} => Min(todo[s]) \in todo[s] /\ Min(todo[s]) \in Cred
  /\ step[s] \in {"compare", "restore"} => Max(todo[s]) \in todo[s] /\ Max(todo[s]) \in Cred
  /\ step[s] = "discard" /\ todo[s] # {} => Min(todo[s]) \in todo[s] /\ Min(todo[s]) \in Cred

LEMMA LoopsOn ==
  ASSUME Typed, Progress, NEW s \in Session
  PROVE  Loops(s)
BY MinIn, MaxIn DEF Typed, TypedSets, Progress, Looping, Loops

\* The steps inside a recapture move their own session only, and leave the lock alone.
Inside(s) ==
  /\ step[s] \in InLock /\ step'[s] \in InLock
  /\ step' = [step EXCEPT ![s] = step'[s]] /\ todo' = [todo EXCEPT ![s] = todo'[s]]
  /\ UNCHANGED <<holder, entry, kept>>

LEMMA InsideSteps ==
  ASSUME TypedControl, TypedSets, NEW s \in Session,
         \/ ReadBackup(s) \/ StageFile(s) \/ CommitFile(s) \/ RecordIdentity(s)
         \/ Discard(s) \/ Compare(s) \/ Restore(s)
  PROVE  Inside(s)
<1> USE DEF TypedControl, TypedSets, Inside, InLock, Steps, InStep, MoveTo
<1>1. CASE ReadBackup(s)
  BY <1>1 DEF ReadBackup
<1>2. CASE StageFile(s)
  BY <1>2 DEF StageFile
<1>3. CASE CommitFile(s)
  BY <1>3 DEF CommitFile
<1>4. CASE RecordIdentity(s)
  BY <1>4 DEF RecordIdentity
<1>5. CASE Discard(s)
  BY <1>5 DEF Discard, UndoCommitted
<1>6. CASE Compare(s)
  BY <1>6 DEF Compare, AfterRestore
<1>7. CASE Restore(s)
  BY <1>7 DEF Restore, AfterRestore
<1> QED
  BY <1>1, <1>2, <1>3, <1>4, <1>5, <1>6, <1>7

\* How a staging write ends: the last one, another one, or a failure, possibly to land later.
StagesLast(s, c) ==
  MoveTo(s, "commit", kept[s]) /\ staged' = [staged EXCEPT ![s] = @ \union {c}] /\ UNCHANGED <<late, result>>
StagesOne(s, c) ==
  /\ MoveTo(s, "stage", todo[s] \ {c}) /\ todo[s] # {c}
  /\ staged' = [staged EXCEPT ![s] = @ \union {c}] /\ UNCHANGED <<late, result>>
StageStops(s, c) ==
  /\ MoveTo(s, "discard", staged[s]) /\ Done(s, "error") /\ UNCHANGED staged
  /\ late' \in {late, [late EXCEPT ![s] = @ \union {<<"stage", c>>}]}

\* How a rename ends: the last one, another one, or a failure.
Commits(s, c) ==
  /\ staged' = [staged EXCEPT ![s] = @ \ {c}]
  /\ committed' = [committed EXCEPT ![s] = @ \union {c}]
  /\ stored' = [stored EXCEPT ![c] = s]
CommitsLast(s, c) == Commits(s, c) /\ todo[s] = {c} /\ MoveTo(s, "identity", {}) /\ Done(s, "ok")
CommitsOne(s, c) ==
  Commits(s, c) /\ todo[s] # {c} /\ MoveTo(s, "commit", todo[s] \ {c}) /\ UNCHANGED result
CommitStops(s, c) ==
  MoveTo(s, "discard", todo[s]) /\ Done(s, "error") /\ UNCHANGED <<staged, committed, stored>>

LEMMA StageEnds ==
  ASSUME Typed, Progress, NEW s \in Session, StageFile(s)
  PROVE  \E c \in Cred :
           /\ c \in todo[s] /\ step[s] = "stage" /\ UNCHANGED <<profile, holder, entry, kept, backup, committed, tainted, leaked>>
           /\ (StagesLast(s, c) \/ StagesOne(s, c) \/ StageStops(s, c))
<1> DEFINE c == Min(todo[s])
<1>1. c \in todo[s] /\ c \in Cred
  BY LoopsOn DEF Loops, StageFile, InStep
<1>2. step[s] = "stage" /\ UNCHANGED <<profile, holder, entry, kept, backup, committed, tainted, leaked>>
  BY DEF StageFile, InStep, Fine, histories
<1>3. StagesLast(s, c) \/ StagesOne(s, c) \/ StageStops(s, c)
  BY DEF StageFile, StageTimesOut, StagesLast, StagesOne, StageStops
<1> QED
  BY <1>1, <1>2, <1>3

LEMMA CommitEnds ==
  ASSUME Typed, Progress, NEW s \in Session, CommitFile(s)
  PROVE  \E c \in Cred :
           /\ c \in todo[s] /\ step[s] = "commit" /\ UNCHANGED <<identity, holder, entry, kept, backup, late, tainted, leaked>>
           /\ (CommitsLast(s, c) \/ CommitsOne(s, c) \/ CommitStops(s, c))
<1> DEFINE c == Min(todo[s])
<1>1. c \in todo[s] /\ c \in Cred
  BY LoopsOn DEF Loops, CommitFile, InStep
<1>2. step[s] = "commit" /\ UNCHANGED <<identity, holder, entry, kept, backup, late, tainted, leaked>>
  BY DEF CommitFile, InStep, Fine, histories
<1>3. CommitsLast(s, c) \/ CommitsOne(s, c) \/ CommitStops(s, c)
  BY DEF CommitFile, Commits, CommitsLast, CommitsOne, CommitStops
<1> QED
  BY <1>1, <1>2, <1>3

LEMMA ValuesStep ==
  ASSUME Typed, Progress, [RecaptureNext]_recaptureVars
  PROVE  TypedValues'
<1> USE DEF TypedValues, Typed, Value
<1>1. CASE UNCHANGED recaptureVars
  BY <1>1 DEF recaptureVars, profile, histories
<1>2. CASE RecaptureNext
  <2> PICK s \in Session : Moves(s)
    BY <1>2 DEF RecaptureNext, Moves
  <2> USE DEF InStep, MoveTo, Trouble, Fine, Spoils, Done, histories, profile
  <2>0. Loops(s)
    BY LoopsOn
  <2>1. CASE EndSession(s)
    BY <2>1 DEF EndSession
  <2>2. CASE AcquireRecapture(s)
    BY <2>2 DEF AcquireRecapture, Enter
  <2>3. CASE DegradeRecapture(s)
    BY <2>3 DEF DegradeRecapture, Enter
  <2>4. CASE ReadBackup(s)
    BY <2>4, <2>0 DEF ReadBackup, Loops
  <2>5. CASE StageFile(s)
    BY <2>5, <2>0 DEF StageFile, StageTimesOut, Loops
  <2>6. CASE CommitFile(s)
    BY <2>6, <2>0 DEF CommitFile, Loops
  <2>7. CASE RecordIdentity(s)
    BY <2>7 DEF RecordIdentity, IdentitySource
  <2>8. CASE Discard(s)
    BY <2>8, <2>0 DEF Discard, UndoCommitted, Loops
  <2>9. CASE Compare(s)
    BY <2>9, <2>0 DEF Compare, AfterRestore, Loops
  <2>10. CASE Restore(s)
    BY <2>10, <2>0 DEF Restore, AfterRestore, Loops
  <2>11. CASE ReleaseRecapture(s)
    BY <2>11 DEF ReleaseRecapture
  <2>12. CASE KillSession(s)
    BY <2>12 DEF KillSession
  <2>16. CASE ExitMat(s)
    BY <2>16 DEF ExitMat, Leaks
  <2>13. ASSUME NEW c \in Cred, LateStageLands(s, c) PROVE TypedValues'
    BY <2>13 DEF LateStageLands
  <2>14. ASSUME NEW c \in Cred, LateStageRemoved(s, c) PROVE TypedValues'
    BY <2>14 DEF LateStageRemoved
  <2>15. ASSUME NEW c \in Cred, LateRestoreLands(s, c) PROVE TypedValues'
    BY <2>15 DEF LateRestoreLands
  <2> QED
    BY <2>1, <2>2, <2>3, <2>4, <2>5, <2>6, <2>7, <2>8, <2>9, <2>10, <2>11, <2>12, <2>13, <2>14,
         <2>15, <2>16 DEF Moves, Lands
<1> QED
  BY <1>1, <1>2

LEMMA ControlStep ==
  ASSUME Typed, [RecaptureNext]_recaptureVars
  PROVE  TypedControl'
<1> USE DEF TypedControl, Typed, Steps, InLock
<1>1. CASE UNCHANGED recaptureVars
  BY <1>1 DEF recaptureVars, profile, histories
<1>2. CASE RecaptureNext
  <2> PICK s \in Session : Moves(s)
    BY <1>2 DEF RecaptureNext, Moves
  <2> USE DEF InStep, MoveTo, Trouble, Fine, Spoils, Done, histories, profile
  <2>1. CASE EndSession(s)
    BY <2>1 DEF EndSession
  <2>2. CASE AcquireRecapture(s)
    BY <2>2 DEF AcquireRecapture, Enter
  <2>3. CASE DegradeRecapture(s)
    BY <2>3 DEF DegradeRecapture, Enter
  <2>4. CASE ReadBackup(s)
    BY <2>4 DEF ReadBackup
  <2>5. CASE StageFile(s)
    BY <2>5 DEF StageFile, StageTimesOut
  <2>6. CASE CommitFile(s)
    BY <2>6 DEF CommitFile
  <2>7. CASE RecordIdentity(s)
    BY <2>7 DEF RecordIdentity, IdentitySource
  <2>8. CASE Discard(s)
    BY <2>8 DEF Discard, UndoCommitted
  <2>9. CASE Compare(s)
    BY <2>9 DEF Compare, AfterRestore
  <2>10. CASE Restore(s)
    BY <2>10 DEF Restore, AfterRestore
  <2>11. CASE ReleaseRecapture(s)
    BY <2>11 DEF ReleaseRecapture
  <2>12. CASE KillSession(s)
    BY <2>12 DEF KillSession
  <2>16. CASE ExitMat(s)
    BY <2>16 DEF ExitMat, Leaks
  <2>13. ASSUME NEW c \in Cred, LateStageLands(s, c) PROVE TypedControl'
    BY <2>13 DEF LateStageLands
  <2>14. ASSUME NEW c \in Cred, LateStageRemoved(s, c) PROVE TypedControl'
    BY <2>14 DEF LateStageRemoved
  <2>15. ASSUME NEW c \in Cred, LateRestoreLands(s, c) PROVE TypedControl'
    BY <2>15 DEF LateRestoreLands
  <2> QED
    BY <2>1, <2>2, <2>3, <2>4, <2>5, <2>6, <2>7, <2>8, <2>9, <2>10, <2>11, <2>12, <2>13, <2>14,
         <2>15, <2>16 DEF Moves, Lands
<1> QED
  BY <1>1, <1>2

LEMMA SetsStep ==
  ASSUME Typed, Progress, [RecaptureNext]_recaptureVars
  PROVE  TypedSets'
<1> USE DEF TypedSets, Typed, Late
<1>1. CASE UNCHANGED recaptureVars
  BY <1>1 DEF recaptureVars, profile, histories
<1>2. CASE RecaptureNext
  <2> PICK s \in Session : Moves(s)
    BY <1>2 DEF RecaptureNext, Moves
  <2> USE DEF InStep, MoveTo, Trouble, Fine, Spoils, Done, histories, profile
  <2>0. Loops(s)
    BY LoopsOn
  <2>1. CASE EndSession(s)
    BY <2>1 DEF EndSession
  <2>2. CASE AcquireRecapture(s)
    BY <2>2 DEF AcquireRecapture, Enter
  <2>3. CASE DegradeRecapture(s)
    BY <2>3 DEF DegradeRecapture, Enter
  <2>4. CASE ReadBackup(s)
    BY <2>4, <2>0 DEF ReadBackup, Loops
  <2>5. CASE StageFile(s)
    BY <2>5, <2>0 DEF StageFile, StageTimesOut, Loops
  <2>6. CASE CommitFile(s)
    BY <2>6, <2>0 DEF CommitFile, Loops
  <2>7. CASE RecordIdentity(s)
    BY <2>7 DEF RecordIdentity, IdentitySource
  <2>8. CASE Discard(s)
    BY <2>8, <2>0 DEF Discard, UndoCommitted, Loops
  <2>9. CASE Compare(s)
    BY <2>9, <2>0 DEF Compare, AfterRestore, Loops
  <2>10. CASE Restore(s)
    BY <2>10, <2>0 DEF Restore, AfterRestore, Loops
  <2>11. CASE ReleaseRecapture(s)
    BY <2>11 DEF ReleaseRecapture
  <2>12. CASE KillSession(s)
    BY <2>12 DEF KillSession
  <2>16. CASE ExitMat(s)
    BY <2>16 DEF ExitMat, Leaks
  <2>13. ASSUME NEW c \in Cred, LateStageLands(s, c) PROVE TypedSets'
    BY <2>13 DEF LateStageLands
  <2>14. ASSUME NEW c \in Cred, LateStageRemoved(s, c) PROVE TypedSets'
    BY <2>14 DEF LateStageRemoved
  <2>15. ASSUME NEW c \in Cred, LateRestoreLands(s, c) PROVE TypedSets'
    BY <2>15 DEF LateRestoreLands
  <2> QED
    BY <2>1, <2>2, <2>3, <2>4, <2>5, <2>6, <2>7, <2>8, <2>9, <2>10, <2>11, <2>12, <2>13, <2>14,
         <2>15, <2>16 DEF Moves, Lands
<1> QED
  BY <1>1, <1>2

LEMMA EnteredStep ==
  ASSUME Typed, Entered, [RecaptureNext]_recaptureVars
  PROVE  Entered'
<1> USE DEF Typed, TypedControl, TypedSets, Entered, Steps, InLock
<1>1. CASE UNCHANGED recaptureVars
  BY <1>1 DEF recaptureVars, profile, histories
<1>2. CASE RecaptureNext
  <2> PICK s \in Session : Moves(s)
    BY <1>2 DEF RecaptureNext, Moves
  <2> USE DEF InStep, MoveTo, Trouble, Fine, Spoils, Done, histories, profile
  <2>1. CASE EndSession(s)
    BY <2>1, RecaptureAssumption DEF EndSession
  <2>2. CASE AcquireRecapture(s)
    BY <2>2, RecaptureAssumption DEF AcquireRecapture, Enter
  <2>3. CASE DegradeRecapture(s)
    BY <2>3, RecaptureAssumption DEF DegradeRecapture, Enter
  <2>4. CASE ReadBackup(s)
    BY <2>4, InsideSteps, RecaptureAssumption DEF Inside
  <2>5. CASE StageFile(s)
    BY <2>5, InsideSteps, RecaptureAssumption DEF Inside
  <2>6. CASE CommitFile(s)
    BY <2>6, InsideSteps, RecaptureAssumption DEF Inside
  <2>7. CASE RecordIdentity(s)
    BY <2>7, InsideSteps, RecaptureAssumption DEF Inside
  <2>8. CASE Discard(s)
    BY <2>8, InsideSteps, RecaptureAssumption DEF Inside
  <2>9. CASE Compare(s)
    BY <2>9, InsideSteps, RecaptureAssumption DEF Inside
  <2>10. CASE Restore(s)
    BY <2>10, InsideSteps, RecaptureAssumption DEF Inside
  <2>11. CASE ReleaseRecapture(s)
    BY <2>11, RecaptureAssumption DEF ReleaseRecapture
  <2>12. CASE KillSession(s)
    BY <2>12, RecaptureAssumption DEF KillSession
  <2>16. CASE ExitMat(s)
    BY <2>16, RecaptureAssumption DEF ExitMat, Leaks
  <2>13. ASSUME NEW c \in Cred, LateStageLands(s, c) PROVE Entered'
    BY <2>13, RecaptureAssumption DEF LateStageLands
  <2>14. ASSUME NEW c \in Cred, LateStageRemoved(s, c) PROVE Entered'
    BY <2>14, RecaptureAssumption DEF LateStageRemoved
  <2>15. ASSUME NEW c \in Cred, LateRestoreLands(s, c) PROVE Entered'
    BY <2>15, RecaptureAssumption DEF LateRestoreLands
  <2> QED
    BY <2>1, <2>2, <2>3, <2>4, <2>5, <2>6, <2>7, <2>8, <2>9, <2>10, <2>11, <2>12, <2>13, <2>14,
         <2>15, <2>16 DEF Moves, Lands
<1> QED
  BY <1>1, <1>2

LEMMA ProgressStep ==
  ASSUME Typed, Progress, [RecaptureNext]_recaptureVars
  PROVE  Progress'
<1> USE DEF Typed, TypedControl, TypedSets, Progress, Steps, InLock, Looping
<1>1. CASE UNCHANGED recaptureVars
  BY <1>1 DEF recaptureVars, profile, histories
<1>2. CASE RecaptureNext
  <2> PICK s \in Session : Moves(s)
    BY <1>2 DEF RecaptureNext, Moves
  <2> USE DEF InStep, MoveTo, Trouble, Fine, Spoils, Done, histories, profile
  <2>0. Loops(s)
    BY LoopsOn
  <2>1. CASE EndSession(s)
    BY <2>1 DEF EndSession
  <2>2. CASE AcquireRecapture(s)
    BY <2>2 DEF AcquireRecapture, Enter
  <2>3. CASE DegradeRecapture(s)
    BY <2>3 DEF DegradeRecapture, Enter
  <2>4. CASE ReadBackup(s)
    BY <2>4, <2>0 DEF ReadBackup, Loops
  <2>5. CASE StageFile(s)
    <3>1. PICK c \in Cred : /\ c \in todo[s] /\ step[s] = "stage"
                            /\ UNCHANGED <<profile, holder, entry, kept, backup, committed, tainted, leaked>>
                         /\ (StagesLast(s, c) \/ StagesOne(s, c) \/ StageStops(s, c))
      BY <2>5, StageEnds
    <3>2. CASE StagesLast(s, c)
      BY <3>1, <3>2 DEF StagesLast
    <3>3. CASE StagesOne(s, c)
      BY <3>1, <3>3 DEF StagesOne
    <3>4. CASE StageStops(s, c)
      BY <3>1, <3>4 DEF StageStops
    <3> QED
      BY <3>1, <3>2, <3>3, <3>4
  <2>6. CASE CommitFile(s)
    <3>1. PICK c \in Cred : /\ c \in todo[s] /\ step[s] = "commit"
                            /\ UNCHANGED <<identity, holder, entry, kept, backup, late, tainted, leaked>>
                         /\ (CommitsLast(s, c) \/ CommitsOne(s, c) \/ CommitStops(s, c))
      BY <2>6, CommitEnds
    <3>2. CASE CommitsLast(s, c)
      BY <3>1, <3>2 DEF CommitsLast, Commits
    <3>3. CASE CommitsOne(s, c)
      BY <3>1, <3>3 DEF CommitsOne, Commits
    <3>4. CASE CommitStops(s, c)
      BY <3>1, <3>4 DEF CommitStops
    <3> QED
      BY <3>1, <3>2, <3>3, <3>4
  <2>7. CASE RecordIdentity(s)
    BY <2>7 DEF RecordIdentity, IdentitySource
  <2>8. CASE Discard(s)
    BY <2>8, <2>0 DEF Discard, UndoCommitted, Loops
  <2>9. CASE Compare(s)
    BY <2>9, <2>0 DEF Compare, AfterRestore, Loops
  <2>10. CASE Restore(s)
    BY <2>10, <2>0 DEF Restore, AfterRestore, Loops
  <2>11. CASE ReleaseRecapture(s)
    BY <2>11 DEF ReleaseRecapture
  <2>12. CASE KillSession(s)
    BY <2>12 DEF KillSession
  <2>16. CASE ExitMat(s)
    BY <2>16 DEF ExitMat, Leaks
  <2>13. ASSUME NEW c \in Cred, LateStageLands(s, c) PROVE Progress'
    BY <2>13 DEF LateStageLands
  <2>14. ASSUME NEW c \in Cred, LateStageRemoved(s, c) PROVE Progress'
    BY <2>14 DEF LateStageRemoved
  <2>15. ASSUME NEW c \in Cred, LateRestoreLands(s, c) PROVE Progress'
    BY <2>15 DEF LateRestoreLands
  <2> QED
    BY <2>1, <2>2, <2>3, <2>4, <2>5, <2>6, <2>7, <2>8, <2>9, <2>10, <2>11, <2>12, <2>13, <2>14,
         <2>15, <2>16 DEF Moves, Lands
<1> QED
  BY <1>1, <1>2

LEMMA StagedStep ==
  ASSUME Typed, Progress, StagedOwned, [RecaptureNext]_recaptureVars
  PROVE  StagedOwned'
<1> USE DEF Typed, TypedControl, TypedSets, StagedOwned
<1>1. CASE UNCHANGED recaptureVars
  BY <1>1 DEF recaptureVars, profile, histories
<1>2. CASE RecaptureNext
  <2> PICK s \in Session : Moves(s)
    BY <1>2 DEF RecaptureNext, Moves
  <2> USE DEF InStep, MoveTo, Trouble, Fine, Spoils, Done, histories, profile
  <2>0. Loops(s)
    BY LoopsOn
  <2>1. CASE EndSession(s)
    BY <2>1 DEF EndSession
  <2>2. CASE AcquireRecapture(s)
    BY <2>2 DEF AcquireRecapture, Enter
  <2>3. CASE DegradeRecapture(s)
    BY <2>3 DEF DegradeRecapture, Enter
  <2>4. CASE ReadBackup(s)
    BY <2>4, <2>0 DEF ReadBackup, Loops
  <2>5. CASE StageFile(s)
    <3>1. PICK c \in Cred : /\ c \in todo[s] /\ step[s] = "stage"
                            /\ UNCHANGED <<profile, holder, entry, kept, backup, committed, tainted, leaked>>
                         /\ (StagesLast(s, c) \/ StagesOne(s, c) \/ StageStops(s, c))
      BY <2>5, StageEnds
    <3>0. todo[s] \subseteq kept[s] /\ staged[s] \subseteq kept[s]
      BY DEF Progress
    <3>2. CASE StagesLast(s, c)
      BY <3>0, <3>1, <3>2 DEF StagesLast
    <3>3. CASE StagesOne(s, c)
      BY <3>0, <3>1, <3>3 DEF StagesOne
    <3>4. CASE StageStops(s, c)
      BY <3>0, <3>1, <3>4 DEF StageStops
    <3> QED
      BY <3>0, <3>1, <3>2, <3>3, <3>4
  <2>6. CASE CommitFile(s)
    <3>1. PICK c \in Cred : /\ c \in todo[s] /\ step[s] = "commit"
                            /\ UNCHANGED <<identity, holder, entry, kept, backup, late, tainted, leaked>>
                         /\ (CommitsLast(s, c) \/ CommitsOne(s, c) \/ CommitStops(s, c))
      BY <2>6, CommitEnds
    <3>0. todo[s] \subseteq kept[s] /\ staged[s] \subseteq kept[s]
      BY DEF Progress
    <3>2. CASE CommitsLast(s, c)
      BY <3>0, <3>1, <3>2 DEF CommitsLast, Commits
    <3>3. CASE CommitsOne(s, c)
      BY <3>0, <3>1, <3>3 DEF CommitsOne, Commits
    <3>4. CASE CommitStops(s, c)
      BY <3>0, <3>1, <3>4 DEF CommitStops
    <3> QED
      BY <3>0, <3>1, <3>2, <3>3, <3>4
  <2>7. CASE RecordIdentity(s)
    BY <2>7 DEF RecordIdentity, IdentitySource
  <2>8. CASE Discard(s)
    <3>1. step[s] = "discard" /\ UNCHANGED late
      BY <2>8 DEF Discard
    <3>2. CASE todo[s] = {}
      <4>1. UNCHANGED <<staged, leaked>> /\ step' = [step EXCEPT ![s] = step'[s]]
        BY <2>8, <3>2 DEF Discard, UndoCommitted
      <4> QED
        BY <3>1, <3>2, <4>1, <2>8 DEF Discard, UndoCommitted
    <3>3. CASE todo[s] # {}
      <4> DEFINE c == Min(todo[s])
      <4>1. /\ MoveTo(s, "discard", todo[s] \ {c}) /\ UNCHANGED <<late, kept>>
            /\ \/ staged' = [staged EXCEPT ![s] = @ \ {c}] /\ UNCHANGED leaked
               \/ UNCHANGED staged /\ leaked' = leaked \union {s}
        BY <2>8, <3>3 DEF Discard, Leaks
      <4> HIDE DEF c
      <4>2. \A t \in Session \ {s} : step'[t] = step[t] /\ todo'[t] = todo[t]
        BY <4>1
      <4>3. CASE UNCHANGED staged /\ leaked' = leaked \union {s}
        BY <3>1, <4>1, <4>2, <4>3
      <4>4. CASE staged' = [staged EXCEPT ![s] = @ \ {c}] /\ UNCHANGED leaked
        BY <3>1, <4>1, <4>2, <4>4
      <4> QED
        BY <4>1, <4>3, <4>4
    <3> QED
      BY <3>2, <3>3
  <2>9. CASE Compare(s)
    BY <2>9, <2>0 DEF Compare, AfterRestore, Loops
  <2>10. CASE Restore(s)
    <3>1. step[s] = "restore" /\ step'[s] # "stage" /\ UNCHANGED <<staged, kept, leaked>>
      BY <2>10 DEF Restore, AfterRestore
    <3>2. \A t \in Session : t # s => step'[t] = step[t] /\ todo'[t] = todo[t]
      BY <2>10 DEF Restore, AfterRestore
    <3>3. \A t \in Session : late[t] \subseteq late'[t]
      BY <2>10 DEF Restore
    <3> QED
      BY <3>1, <3>2, <3>3
  <2>11. CASE ReleaseRecapture(s)
    BY <2>11 DEF ReleaseRecapture
  <2>12. CASE KillSession(s)
    <3>1. staged[s] = {} \/ leaked' = leaked \union {s}
      BY <2>12 DEF KillSession, Leaks
    <3>2. leaked \subseteq leaked' /\ \A t \in Session \ {s} : step'[t] = step[t] /\ todo'[t] = todo[t] /\ late'[t] = late[t]
      BY <2>12 DEF KillSession, Leaks
    <3> QED
      BY <2>12, <3>1, <3>2 DEF KillSession
  <2>16. CASE ExitMat(s)
    <3>1. s \in leaked' \/ \A c \in Cred : <<"landed", c>> \notin late[s]
      BY <2>16 DEF ExitMat, Leaks
    <3>2. leaked \subseteq leaked' /\ \A t \in Session \ {s} : late'[t] = late[t]
      BY <2>16 DEF ExitMat, Leaks
    <3> QED
      BY <2>16, <3>1, <3>2 DEF ExitMat
  <2>13. ASSUME NEW c \in Cred, LateStageLands(s, c) PROVE StagedOwned'
    BY <2>13 DEF LateStageLands
  <2>14. ASSUME NEW c \in Cred, LateStageRemoved(s, c) PROVE StagedOwned'
    <3>1. CASE staged' = [staged EXCEPT ![s] = @ \ {c}] /\ UNCHANGED leaked
      BY <2>14, <3>1 DEF LateStageRemoved
    <3>2. CASE UNCHANGED staged /\ Leaks(s)
      BY <2>14, <3>2 DEF LateStageRemoved, Leaks
    <3> QED
      BY <2>14, <3>1, <3>2 DEF LateStageRemoved
  <2>15. ASSUME NEW c \in Cred, LateRestoreLands(s, c) PROVE StagedOwned'
    BY <2>15 DEF LateRestoreLands
  <2> QED
    BY <2>1, <2>2, <2>3, <2>4, <2>5, <2>6, <2>7, <2>8, <2>9, <2>10, <2>11, <2>12, <2>13, <2>14,
         <2>15, <2>16 DEF Moves, Lands
<1> QED
  BY <1>1, <1>2

-----------------------------------------------------------------------------
(* Sound, from the step of one session to the profile it shares with the others. *)

LEMMA TaintStays ==
  ASSUME [RecaptureNext]_recaptureVars, ~tainted'
  PROVE  ~tainted
<1> USE DEF Fine, Spoils, histories
<1>1. CASE UNCHANGED recaptureVars
  BY <1>1 DEF recaptureVars
<1>2. CASE RecaptureNext
  <2> PICK s \in Session : Moves(s)
    BY <1>2 DEF RecaptureNext, Moves
  <2>1. CASE EndSession(s) \/ AcquireRecapture(s) \/ DegradeRecapture(s)
    BY <2>1 DEF EndSession, AcquireRecapture, DegradeRecapture
  <2>2. CASE ReadBackup(s) \/ StageFile(s) \/ CommitFile(s) \/ RecordIdentity(s)
    BY <2>2 DEF ReadBackup, StageFile, CommitFile, RecordIdentity
  <2>3. CASE Discard(s) \/ Compare(s) \/ Restore(s) \/ ReleaseRecapture(s) \/ KillSession(s) \/ ExitMat(s)
    BY <2>3 DEF Discard, Compare, Restore, ReleaseRecapture, KillSession, ExitMat
  <2>4. ASSUME NEW c \in Cred, Lands(s, c) PROVE ~tainted
    BY <2>4 DEF Lands, LateStageLands, LateStageRemoved, LateRestoreLands
  <2> QED
    BY <2>1, <2>2, <2>3, <2>4 DEF Moves
<1> QED
  BY <1>1, <1>2

\* No late write of an old value is under way.
NoLateRestore == \A t \in Session : \A c \in Cred : <<"restore", c>> \notin late[t]

\* A step outside of every recapture leaves the phase of the holder alone.
LEMMA PhaseKept ==
  ASSUME NEW t \in Session, Phase(t), UNCHANGED <<stored, identity>>,
         committed'[t] = committed[t], kept'[t] = kept[t], todo'[t] = todo[t],
         step'[t] = step[t], backup'[t] = backup[t]
  PROVE  Phase(t)'
BY DEF Phase

\* A step inside the recapture of the holder concerns its own phase only.
LEMMA SoundInside ==
  ASSUME Typed, Entered, Sound, ~tainted, NEW s \in Session, Inside(s), Phase(s)', NoLateRestore'
  PROVE  Sound'
<1>1. holder = s
  BY DEF Sound, Inside
<1> QED
  BY <1>1, RecaptureAssumption
  DEF Sound, Inside, NoLateRestore, Typed, TypedControl, Steps, InLock

\* How a read of the old value ends.
ReadsLast(s, c) ==
  /\ backup' = [backup EXCEPT ![s][c] = stored[c]] /\ todo[s] = {c} /\ MoveTo(s, "stage", kept[s])
ReadsOne(s, c) ==
  /\ backup' = [backup EXCEPT ![s][c] = stored[c]] /\ MoveTo(s, "backup", todo[s] \ {c})

LEMMA BackupPhase ==
  ASSUME Typed, Progress, NEW s \in Session, ReadBackup(s), Phase(s)
  PROVE  Phase(s)'
<1>1. PICK c \in Cred : /\ c \in todo[s]
                        /\ ReadsLast(s, c) \/ ReadsOne(s, c) \/ (MoveTo(s, "release", {}) /\ UNCHANGED backup)
  <2>1. Min(todo[s]) \in todo[s] /\ Min(todo[s]) \in Cred
    BY LoopsOn DEF Loops, ReadBackup, InStep
  <2> QED
    BY <2>1 DEF ReadBackup, ReadsLast, ReadsOne
<1>2. /\ UNCHANGED <<stored, identity, committed, kept>> /\ committed[s] = {} /\ step[s] = "backup"
      /\ todo[s] \subseteq kept[s]
  BY DEF ReadBackup, InStep, profile, Progress
<1> USE DEF Typed, TypedValues, TypedControl, TypedSets, Phase, MoveTo
<1>3. CASE ReadsLast(s, c)
  BY <1>1, <1>2, <1>3 DEF ReadsLast
<1>4. CASE ReadsOne(s, c)
  BY <1>1, <1>2, <1>4 DEF ReadsOne
<1>5. CASE MoveTo(s, "release", {}) /\ UNCHANGED backup
  BY <1>2, <1>5
<1> QED
  BY <1>1, <1>3, <1>4, <1>5

LEMMA StagePhase ==
  ASSUME Typed, Progress, NEW s \in Session, StageFile(s), Phase(s)
  PROVE  Phase(s)'
<1>1. PICK c \in Cred : /\ c \in todo[s] /\ step[s] = "stage"
                        /\ UNCHANGED <<profile, holder, entry, kept, backup, committed, tainted, leaked>>
                        /\ (StagesLast(s, c) \/ StagesOne(s, c) \/ StageStops(s, c))
  BY StageEnds
<1>2. committed[s] = {}
  BY <1>1 DEF Progress
<1>3. step'[s] \in {"stage", "commit", "discard"}
  BY <1>1 DEF StagesLast, StagesOne, StageStops, MoveTo, Typed, TypedControl
<1> QED
  BY <1>1, <1>2, <1>3 DEF Phase, profile

LEMMA CommitPhase ==
  ASSUME Typed, Progress, NEW s \in Session, CommitFile(s), Phase(s)
  PROVE  Phase(s)'
<1>1. PICK c \in Cred : /\ c \in todo[s] /\ step[s] = "commit"
                        /\ UNCHANGED <<identity, holder, entry, kept, backup, late, tainted, leaked>>
                        /\ (CommitsLast(s, c) \/ CommitsOne(s, c) \/ CommitStops(s, c))
  BY CommitEnds
<1>2. step'[s] \in {"commit", "identity", "discard"}
  BY <1>1 DEF CommitsLast, CommitsOne, CommitStops, MoveTo, Typed, TypedControl
<1>3. \A d \in Cred : stored'[d] = IF d \in committed'[s] THEN s ELSE identity[d]
  <2>1. CASE CommitStops(s, c)
    BY <2>1 DEF CommitStops, Phase
  <2>2. CASE Commits(s, c)
    BY <2>2 DEF Commits, Phase, Typed, TypedValues, TypedSets
  <2> QED
    BY <1>1, <2>1, <2>2 DEF CommitsLast, CommitsOne
<1> QED
  BY <1>1, <1>2, <1>3 DEF Phase

LEMMA IdentityPhase ==
  ASSUME Typed, Progress, NEW s \in Session, RecordIdentity(s), Phase(s), ~tainted'
  PROVE  Phase(s)'
<1>1. identity' = [c \in Cred |-> IF c \in kept[s] THEN s ELSE stored[c]]
  BY DEF RecordIdentity, IdentitySource, Spoils
<1>2. /\ step[s] = "identity" /\ step'[s] = "release" /\ UNCHANGED <<stored, committed, kept>>
      /\ committed[s] = kept[s]
  BY DEF RecordIdentity, InStep, MoveTo, Typed, TypedControl, Progress
<1> QED
  BY <1>1, <1>2 DEF Phase, Typed, TypedSets

LEMMA DiscardPhase ==
  ASSUME Typed, Progress, NEW s \in Session, Discard(s), Phase(s)
  PROVE  Phase(s)'
<1>1. step[s] = "discard" /\ UNCHANGED <<stored, identity, kept, backup, committed>>
  BY DEF Discard, InStep, profile
<1>2. \/ step'[s] = "discard"
      \/ step'[s] = "release" /\ committed[s] = {}
      \/ step'[s] = "compare" /\ todo'[s] = committed[s]
  BY DEF Discard, UndoCommitted, MoveTo, Typed, TypedControl, TypedSets
<1> QED
  BY <1>1, <1>2 DEF Phase

\* After the credential c is done with: the old value is back, or it need not be.
LEMMA RestoredPhase ==
  ASSUME Typed, NEW s \in Session, NEW c \in todo[s], AfterRestore(s, c), Phase(s),
         step[s] \in {"compare", "restore"}, stored' = [stored EXCEPT ![c] = identity[c]],
         UNCHANGED <<identity, kept, backup>>
  PROVE  Phase(s)'
<1>1. committed' = [committed EXCEPT ![s] = @ \ {c}] /\ todo[s] = committed[s] /\ c \in Cred
  BY DEF AfterRestore, Phase, Typed, TypedSets
<1>2. \/ step'[s] = "release" /\ committed'[s] = {}
      \/ step'[s] = "compare" /\ todo'[s] = committed'[s]
  BY <1>1 DEF AfterRestore, MoveTo, Typed, TypedControl, TypedSets
<1>3. \A d \in Cred : stored'[d] = IF d \in committed'[s] THEN s ELSE identity[d]
  BY <1>1 DEF Phase, Typed, TypedValues, TypedSets
<1> QED
  BY <1>1, <1>2, <1>3 DEF Phase

LEMMA ComparePhase ==
  ASSUME Typed, Progress, NEW s \in Session, Compare(s), Phase(s), ~tainted'
  PROVE  Phase(s)'
<1>1. Max(todo[s]) \in todo[s] /\ Max(todo[s]) \in Cred /\ step[s] = "compare" /\ todo[s] = committed[s]
  BY LoopsOn DEF Loops, Compare, InStep, Phase
<1>2. stored[Max(todo[s])] = s
  BY <1>1 DEF Phase
<1>3. MoveTo(s, "restore", todo[s]) /\ UNCHANGED <<stored, identity, committed, kept, backup>>
  BY <1>2 DEF Compare, Spoils, profile
<1>4. step'[s] = "restore" /\ todo'[s] = todo[s]
  BY <1>3 DEF MoveTo, Typed, TypedControl, TypedSets
<1> QED
  BY <1>1, <1>3, <1>4 DEF Phase

LEMMA RestorePhase ==
  ASSUME Typed, Progress, NEW s \in Session, Restore(s), Phase(s), ~tainted'
  PROVE  Phase(s)' /\ UNCHANGED late
<1> DEFINE c == Max(todo[s])
<1>1. c \in todo[s] /\ c \in Cred /\ step[s] = "restore" /\ todo[s] = committed[s] /\ c \in kept[s]
  BY LoopsOn DEF Loops, Restore, InStep, Phase, Progress
<1>2. /\ AfterRestore(s, c) /\ stored' = [stored EXCEPT ![c] = backup[s][c]]
      /\ UNCHANGED <<identity, kept, backup, late>>
  BY DEF Restore, Spoils
<1>3. backup[s][c] = identity[c]
  BY <1>1 DEF Phase
<1> HIDE DEF c
<1> QED
  BY <1>1, <1>2, <1>3, RestoredPhase

LEMMA SoundStep ==
  ASSUME Typed, Entered, Progress, Sound, Entered', [RecaptureNext]_recaptureVars
  PROVE  Sound'
<1> SUFFICES ASSUME ~tainted' PROVE Sound'
  BY DEF Sound
<1>0. ~tainted
  BY TaintStays
<1>1. CASE UNCHANGED recaptureVars
  BY <1>1 DEF recaptureVars, profile, histories, Sound, Phase
<1>2. CASE RecaptureNext
  <2> PICK s \in Session : Moves(s)
    BY <1>2 DEF RecaptureNext, Moves
  <2>1. /\ \A t \in Session : step[t] \in InLock => holder = t
        /\ NoLateRestore /\ (holder = Nobody => identity = stored)
        /\ \A t \in Session : holder = t => Phase(t)
    BY <1>0 DEF Sound, NoLateRestore
  <2>2. step[s] \in InLock => holder = s /\ Phase(s)
    BY <2>1
  <2>3. CASE EndSession(s)
    <3>1. step[s] = "running" /\ holder # s
      BY <2>3 DEF EndSession, InStep, Entered, InLock
    <3>2. /\ UNCHANGED <<stored, identity, holder, committed, backup, late>>
          /\ \A t \in Session \ {s} : kept'[t] = kept[t] /\ step'[t] = step[t] /\ todo'[t] = todo[t]
          /\ step'[s] \notin InLock
      BY <2>3 DEF EndSession, MoveTo, profile, Typed, TypedControl, TypedSets, InLock
    <3>3. \A t \in Session : holder = t => Phase(t)'
      BY <2>1, <3>1, <3>2, PhaseKept
    <3> QED
      BY <2>1, <3>2, <3>3 DEF Sound, NoLateRestore
  <2>4. CASE AcquireRecapture(s)
    <3>1. holder = Nobody /\ holder' = s /\ step[s] = "waiting"
      BY <2>4 DEF AcquireRecapture, Enter, InStep
    <3>2. UNCHANGED <<stored, identity, committed, kept, backup, late>>
      BY <2>4 DEF AcquireRecapture, Enter, profile
    <3>3. step' = [step EXCEPT ![s] = "backup"] /\ todo' = [todo EXCEPT ![s] = kept[s]]
      BY <2>4 DEF AcquireRecapture, Enter, MoveTo
    <3>4. \A t \in Session : t # s => step'[t] \notin InLock
      BY <2>1, <3>1, <3>3, RecaptureAssumption DEF Typed, TypedControl
    <3>5. Phase(s)'
      BY <2>1, <3>1, <3>2, <3>3 DEF Phase, Progress, Typed, TypedControl, TypedSets
    <3>6. s # Nobody
      BY RecaptureAssumption
    <3> QED
      BY <2>1, <3>1, <3>2, <3>4, <3>5, <3>6 DEF Sound, NoLateRestore
  <2>5. ~DegradeRecapture(s)
    BY DEF DegradeRecapture
  <2>6. CASE ReadBackup(s)
    <3>1. Inside(s) /\ Phase(s)
      BY <2>2, <2>6, InsideSteps DEF Typed, Inside
    <3>2. Phase(s)' /\ UNCHANGED late
      BY <2>6, <3>1, BackupPhase DEF ReadBackup
    <3> QED
      BY <1>0, <2>1, <3>1, <3>2, SoundInside DEF NoLateRestore
  <2>7. CASE StageFile(s)
    <3>1. Inside(s) /\ Phase(s)
      BY <2>2, <2>7, InsideSteps DEF Typed, Inside
    <3>2. PICK c \in Cred : StagesLast(s, c) \/ StagesOne(s, c) \/ StageStops(s, c)
      BY <2>7, StageEnds
    <3>3. NoLateRestore'
      <4>1. \A t \in Session : late'[t] \subseteq late[t] \union {<<"stage", c>>}
        BY <3>2 DEF StagesLast, StagesOne, StageStops, Typed, TypedSets
      <4>2. \A d \in Cred : <<"restore", d>> # <<"stage", c>>
        OBVIOUS
      <4> QED
        BY <2>1, <4>1, <4>2 DEF NoLateRestore
    <3> QED
      BY <1>0, <2>7, <3>1, <3>3, StagePhase, SoundInside
  <2>8. CASE CommitFile(s)
    <3>1. Inside(s) /\ Phase(s)
      BY <2>2, <2>8, InsideSteps DEF Typed, Inside
    <3>2. Phase(s)' /\ UNCHANGED late
      BY <2>8, <3>1, CommitPhase DEF CommitFile
    <3> QED
      BY <1>0, <2>1, <3>1, <3>2, SoundInside DEF NoLateRestore
  <2>9. CASE RecordIdentity(s)
    <3>1. Inside(s) /\ Phase(s)
      BY <2>2, <2>9, InsideSteps DEF Typed, Inside
    <3>2. Phase(s)' /\ UNCHANGED late
      BY <2>9, <3>1, IdentityPhase DEF RecordIdentity
    <3> QED
      BY <1>0, <2>1, <3>1, <3>2, SoundInside DEF NoLateRestore
  <2>10. CASE Discard(s)
    <3>1. Inside(s) /\ Phase(s)
      BY <2>2, <2>10, InsideSteps DEF Typed, Inside
    <3>2. Phase(s)' /\ UNCHANGED late
      BY <2>10, <3>1, DiscardPhase DEF Discard
    <3> QED
      BY <1>0, <2>1, <3>1, <3>2, SoundInside DEF NoLateRestore
  <2>11. CASE Compare(s)
    <3>1. Inside(s) /\ Phase(s)
      BY <2>2, <2>11, InsideSteps DEF Typed, Inside
    <3>2. Phase(s)' /\ UNCHANGED late
      BY <2>11, <3>1, ComparePhase DEF Compare
    <3> QED
      BY <1>0, <2>1, <3>1, <3>2, SoundInside DEF NoLateRestore
  <2>12. CASE Restore(s)
    <3>1. Inside(s) /\ Phase(s)
      BY <2>2, <2>12, InsideSteps DEF Typed, Inside
    <3>2. Phase(s)' /\ UNCHANGED late
      BY <2>12, <3>1, RestorePhase
    <3> QED
      BY <1>0, <2>1, <3>1, <3>2, SoundInside DEF NoLateRestore
  <2>13. CASE ReleaseRecapture(s)
    <3>1. step[s] = "release" /\ holder = s /\ Phase(s)
      BY <2>2, <2>13 DEF ReleaseRecapture, InStep, InLock, Steps
    <3>2. holder' = Nobody /\ UNCHANGED <<stored, identity, late>>
      BY <2>13, <3>1 DEF ReleaseRecapture, profile
    <3>3. \A c \in Cred : stored[c] = identity[c]
      BY <3>1 DEF Phase
    <3>4. identity' = stored'
      BY <3>2, <3>3 DEF Typed, TypedValues
    <3>5. \A t \in Session : step'[t] \notin InLock
      BY <2>1, <2>13, <3>1 DEF ReleaseRecapture, MoveTo, InLock, Typed, TypedControl
    <3> QED
      BY <2>1, <3>2, <3>4, <3>5, RecaptureAssumption DEF Sound, NoLateRestore
  <2>14. CASE KillSession(s)
    <3>1. step[s] \in {"running", "waiting", "backup", "stage", "release"}
      BY <2>14 DEF KillSession, Spoils, InLock, Steps
    <3>2. /\ UNCHANGED <<stored, identity, committed, kept, backup>>
          /\ \A t \in Session \ {s} : step'[t] = step[t] /\ todo'[t] = todo[t]
          /\ step'[s] \notin InLock
          /\ NoLateRestore'
      BY <2>1, <2>14 DEF KillSession, MoveTo, profile, Typed, TypedControl, TypedSets, InLock,
           NoLateRestore
    <3>3. CASE holder = s
      <4>1. Phase(s) /\ (step[s] # "release" => committed[s] = {})
        BY <2>1, <3>1, <3>3 DEF Progress
      <4>2. \A c \in Cred : stored[c] = identity[c]
        BY <4>1 DEF Phase
      <4>3. holder' = Nobody /\ identity' = stored'
        BY <2>14, <3>2, <3>3, <4>2 DEF KillSession, Typed, TypedValues
      <4>4. \A t \in Session : step'[t] \notin InLock
        BY <2>1, <3>2, <3>3
      <4> QED
        BY <3>2, <4>3, <4>4, RecaptureAssumption DEF Sound, NoLateRestore
    <3>4. CASE holder # s
      <4>1. UNCHANGED holder
        BY <2>14, <3>4 DEF KillSession
      <4>2. \A t \in Session : holder = t => Phase(t)'
        BY <2>1, <3>2, <3>4, PhaseKept
      <4> QED
        BY <2>1, <3>2, <4>1, <4>2 DEF Sound, NoLateRestore
    <3> QED
      BY <3>3, <3>4
  <2>15. ASSUME NEW c \in Cred, Lands(s, c) PROVE Sound'
    <3>1. LateStageLands(s, c) \/ LateStageRemoved(s, c)
      BY <2>1, <2>15 DEF Lands, LateRestoreLands, NoLateRestore
    <3>2. UNCHANGED <<stored, identity, holder, step, kept, todo, committed, backup>>
      BY <3>1 DEF LateStageLands, LateStageRemoved, profile
    <3>3. NoLateRestore'
      <4>1. \A t \in Session : late'[t] \subseteq late[t] \union {<<"landed", c>>}
        BY <3>1 DEF LateStageLands, LateStageRemoved, Typed, TypedSets
      <4>2. \A d \in Cred : <<"restore", d>> # <<"landed", c>>
        OBVIOUS
      <4> QED
        BY <2>1, <4>1, <4>2 DEF NoLateRestore
    <3> QED
      BY <2>1, <3>2, <3>3, PhaseKept DEF Sound, NoLateRestore
  <2>16. CASE ExitMat(s)
    <3>1. UNCHANGED <<stored, identity, holder, step, kept, todo, committed, backup>>
      BY <2>16 DEF ExitMat, profile
    <3>2. NoLateRestore'
      BY <2>1, <2>16 DEF ExitMat, NoLateRestore, Typed, TypedSets
    <3> QED
      BY <2>1, <3>1, <3>2, PhaseKept DEF Sound, NoLateRestore
  <2> QED
    BY <2>3, <2>4, <2>5, <2>6, <2>7, <2>8, <2>9, <2>10, <2>11, <2>12, <2>13, <2>14,
         <2>15, <2>16 DEF Moves
<1> QED
  BY <1>1, <1>2

LEMMA RecordsStep ==
  ASSUME RecordsInv, [RecaptureNext]_recaptureVars
  PROVE  RecordsInv'
<1>1. Typed'
  BY ValuesStep, ControlStep, SetsStep DEF RecordsInv, Typed
<1>2. Entered' /\ Progress' /\ StagedOwned'
  BY EnteredStep, ProgressStep, StagedStep DEF RecordsInv
<1>3. Sound'
  BY <1>2, SoundStep DEF RecordsInv
<1> QED
  BY <1>1, <1>2, <1>3 DEF RecordsInv

LEMMA RecordsInvariance == RecaptureSpec => []RecordsInv
<1>1. RecordsInv /\ [RecaptureNext]_recaptureVars => RecordsInv'
  BY RecordsStep
<1> QED
  BY <1>1, RecordsInit, PTL DEF RecaptureSpec

-----------------------------------------------------------------------------
\* While no recapture of the profile was free, killed half-way or failed to restore, meta.json
\* carries the fingerprints of the stored values between recaptures; and no session leaves a staging
\* file with a credential behind once nothing is under way (session.ts:867), unless it was killed, it
\* exited before a late file was removed, or the removal failed; however many sessions end, fail,
\* time out and are killed.
THEOREM RecordsCorrect == RecaptureSpec => []ProfileRecords
<1>1. RecordsInv => ProfileRecords
  <2> SUFFICES ASSUME RecordsInv PROVE IdentityOfStored /\ LateStageCleaned
    BY DEF ProfileRecords
  <2>1. IdentityOfStored
    BY DEF RecordsInv, Sound, IdentityOfStored
  <2>2. LateStageCleaned
    BY DEF RecordsInv, StagedOwned, LateStageCleaned, Typed, TypedSets
  <2> QED
    BY <2>1, <2>2
<1> QED
  BY <1>1, RecordsInvariance, PTL

\* Whoever got the lock changes the profile only while it holds it, for any number of sessions and
\* credentials; the release comes after the last commit or rollback (session.ts:804).
THEOREM CommitsUnderLock == RecaptureSpec => WritesUnderLock
<1> DEFINE A == \A c \in Cred : stored'[c] # stored[c] =>
                  \E s \in Session :
                    /\ entry[s] = "free" \/ holder = s \/ <<"restore", c>> \in late[s]
                    /\ stored'[c] \in {s, backup[s][c]}
<1>1. RecordsInv /\ [RecaptureNext]_recaptureVars => [A]_recaptureVars
  <2> SUFFICES ASSUME RecordsInv, RecaptureNext, NEW c \in Cred, stored'[c] # stored[c]
               PROVE  \E s \in Session :
                        /\ entry[s] = "free" \/ holder = s \/ <<"restore", c>> \in late[s]
                        /\ stored'[c] \in {s, backup[s][c]}
    OBVIOUS
  <2> PICK s \in Session : Moves(s)
    BY DEF RecaptureNext, Moves
  <2> USE DEF RecordsInv, Typed, TypedValues, Entered, InLock, Steps, InStep, profile
  <2>1. CASE CommitFile(s)
    BY <2>1 DEF CommitFile
  <2>2. CASE Restore(s)
    BY <2>2 DEF Restore
  <2>3. CASE \E d \in Cred : LateRestoreLands(s, d)
    BY <2>3 DEF LateRestoreLands
  <2>4. CASE ~CommitFile(s) /\ ~Restore(s) /\ ~(\E d \in Cred : LateRestoreLands(s, d))
    <3>1. UNCHANGED stored
      BY <2>4 DEF Moves, EndSession, AcquireRecapture, DegradeRecapture, Enter, ReadBackup,
           StageFile,
        RecordIdentity, Discard, Compare, ReleaseRecapture, KillSession, ExitMat, Lands, LateStageLands,
        LateStageRemoved
    <3> QED
      BY <3>1
  <2> QED
    BY <2>1, <2>2, <2>3, <2>4
<1> QED
  BY <1>1, RecordsInvariance, PTL DEF RecaptureSpec, WritesUnderLock

-----------------------------------------------------------------------------
(* What a recapture looks like from outside: Undone hides the values it may still take back. *)

Whole == [c \in Cred |-> Undone(c)]
DoneSessions == {s \in Session : result[s] = "ok"}

\* A recapture counts once its last rename is done; from then on until its fingerprints are
\* recorded the stored values are ahead of them.
Ahead(c) == \E s \in Session : step[s] = "identity" /\ c \in kept[s]
OutsideNow == [c \in Cred |-> IF Ahead(c) THEN stored[c] ELSE identity[c]]

LEMMA WholeIsOutside == RecordsInv /\ ~tainted => Whole = OutsideNow
<1> SUFFICES ASSUME RecordsInv, ~tainted, NEW c \in Cred
             PROVE  Undone(c) = IF Ahead(c) THEN stored[c] ELSE identity[c]
  BY DEF Whole, OutsideNow
<1> DEFINE undoing == {s \in Session : /\ entry[s] = "locked" /\ c \in committed[s]
                                       /\ step[s] \in {"commit", "discard", "compare", "restore"}}
<1>1. /\ \A s \in Session : step[s] \in InLock => holder = s
      /\ holder = Nobody => identity = stored
      /\ \A s \in Session : holder = s => Phase(s) /\ step[s] \in InLock /\ entry[s] = "locked"
  BY DEF RecordsInv, Sound, Entered
<1>2. CASE undoing = {}
  <2>1. Undone(c) = stored[c]
    BY <1>2 DEF Undone
  <2>2. CASE Ahead(c)
    BY <2>1, <2>2
  <2>3. CASE ~Ahead(c) /\ holder = Nobody
    BY <1>1, <2>1, <2>3
  <2>4. CASE ~Ahead(c) /\ holder # Nobody
    <3>1. holder \in Session /\ Phase(holder) /\ step[holder] \in InLock /\ entry[holder] = "locked"
      BY <1>1, <2>4 DEF RecordsInv, Typed, TypedControl
    <3>2. CASE c \notin committed[holder]
      BY <2>1, <2>4, <3>1, <3>2 DEF Phase
    <3>3. CASE c \in committed[holder]
      <4>1. step[holder] \notin {"commit", "discard", "compare", "restore"}
        BY <1>2, <3>1, <3>3
      <4>2. step[holder] \notin {"backup", "stage", "identity"}
        BY <2>4, <3>1, <3>3 DEF Ahead, RecordsInv, Progress
      <4>3. step[holder] = "release"
        BY <3>1, <4>1, <4>2 DEF InLock, Steps
      <4> QED
        BY <2>1, <2>4, <3>1, <3>3, <4>3 DEF Phase
    <3> QED
      BY <3>2, <3>3
  <2> QED
    BY <2>2, <2>3, <2>4
<1>3. CASE undoing # {}
  <2> DEFINE s == CHOOSE s \in undoing : TRUE
  <2>1. s \in undoing /\ Undone(c) = backup[s][c]
    BY <1>3 DEF Undone
  <2> HIDE DEF s
  <2>2. holder = s /\ Phase(s)
    BY <1>1, <2>1 DEF InLock, Steps
  <2>3. ~Ahead(c)
    BY <1>1, <2>1, <2>2 DEF Ahead, InLock, Steps
  <2>4. c \in kept[s]
    BY <2>1 DEF RecordsInv, Progress
  <2>5. backup[s][c] = identity[c]
    BY <2>1, <2>2, <2>4 DEF Phase
  <2> QED
    BY <2>1, <2>3, <2>5
<1> QED
  BY <1>2, <1>3

LEMMA WholeIsOutsideNext == (RecordsInv /\ ~tainted => Whole = OutsideNow)'
BY WholeIsOutside, PTL

\* Every step but the last rename and the end of a session looks like none.
LEMMA NothingOutside ==
  ASSUME RecordsInv, RecordsInv', NEW s \in Session, Moves(s), ~tainted, ~tainted',
         ~EndSession(s), \A c \in Cred : ~(CommitFile(s) /\ CommitsLast(s, c))
  PROVE  UNCHANGED <<OutsideNow, kept, DoneSessions>>
<1>1. step[s] \in InLock => holder = s /\ Phase(s)
  BY DEF RecordsInv, Sound
<1>2. \A t \in Session : t # s => step'[t] = step[t] /\ result'[t] = result[t]
  BY DEF Moves, AcquireRecapture, DegradeRecapture, Enter, ReadBackup, StageFile, CommitFile,
       RecordIdentity,
    Discard, UndoCommitted, Compare, Restore, AfterRestore, ReleaseRecapture, KillSession, ExitMat,
    Lands,
    LateStageLands, LateStageRemoved, LateRestoreLands, MoveTo, Done, RecordsInv, Typed, TypedControl
<1>3. UNCHANGED kept
  BY DEF Moves, AcquireRecapture, DegradeRecapture, Enter, ReadBackup, StageFile, CommitFile,
       RecordIdentity,
    Discard, Compare, Restore, ReleaseRecapture, KillSession, ExitMat, Lands,
    LateStageLands, LateStageRemoved, LateRestoreLands
<1>4. result'[s] = "ok" <=> result[s] = "ok"
  <2> USE DEF RecordsInv, Typed, TypedControl, Progress, InStep, Done
  <2>1. CASE ReadBackup(s)
    BY <2>1 DEF ReadBackup
  <2>2. CASE StageFile(s)
    BY <2>2 DEF StageFile
  <2>3. CASE CommitFile(s)
    <3>1. \E c \in Cred : step[s] = "commit" /\ (CommitsOne(s, c) \/ CommitStops(s, c))
      BY <2>3, CommitEnds
    <3> QED
      BY <3>1 DEF CommitsOne, CommitStops
  <2>4. CASE ~ReadBackup(s) /\ ~StageFile(s) /\ ~CommitFile(s)
    BY <2>4 DEF Moves, AcquireRecapture, DegradeRecapture, Enter, RecordIdentity,
      Discard, Compare, Restore, ReleaseRecapture, KillSession, ExitMat, Lands,
      LateStageLands, LateStageRemoved, LateRestoreLands
  <2> QED
    BY <2>1, <2>2, <2>3, <2>4
<1>5. UNCHANGED DoneSessions
  BY <1>2, <1>4 DEF DoneSessions
<1>6. CASE RecordIdentity(s)
  <2>0. step[s] = "identity" /\ step'[s] = "release" /\ UNCHANGED stored
    BY <1>6 DEF RecordIdentity, InStep, MoveTo, RecordsInv, Typed, TypedControl
  <2>1. step[s] = "identity" /\ holder = s /\ committed[s] = kept[s] /\ step'[s] = "release" /\ UNCHANGED stored
    BY <1>1, <2>0 DEF RecordsInv, Progress, InLock, Steps
  <2>2. identity' = [c \in Cred |-> IF c \in kept[s] THEN s ELSE stored[c]]
    BY <1>6 DEF RecordIdentity, IdentitySource, Spoils
  <2>3. \A t \in Session : t # s => step[t] # "identity"
    BY <2>1 DEF RecordsInv, Sound, InLock, Steps
  <2>4. \A c \in Cred : (Ahead(c) <=> c \in kept[s]) /\ ~Ahead(c)'
    BY <1>2, <2>1, <2>3 DEF Ahead
  <2>5. \A c \in Cred : stored[c] = IF c \in kept[s] THEN s ELSE identity[c]
    BY <1>1, <2>1 DEF Phase, InLock, Steps
  <2>6. UNCHANGED OutsideNow
    BY <2>1, <2>2, <2>4, <2>5 DEF OutsideNow
  <2> QED
    BY <1>3, <1>5, <2>6
<1>7. CASE ~RecordIdentity(s)
  <2>1. \/ step[s] # "identity" /\ step'[s] # "identity"
        \/ step'[s] = step[s] /\ UNCHANGED stored
    <3> USE DEF RecordsInv, Typed, TypedControl, InStep, MoveTo
    <3>1. CASE CommitFile(s)
      <4>1. \E c \in Cred : step[s] = "commit" /\ (CommitsOne(s, c) \/ CommitStops(s, c))
        BY <3>1, CommitEnds
      <4> QED
        BY <4>1 DEF CommitsOne, CommitStops
    <3>2. CASE ReadBackup(s) \/ StageFile(s) \/ AcquireRecapture(s) \/ DegradeRecapture(s)
      BY <3>2 DEF ReadBackup, StageFile, AcquireRecapture, DegradeRecapture, Enter
    <3>3. CASE Discard(s) \/ Compare(s) \/ Restore(s)
      BY <3>3 DEF Discard, UndoCommitted, Compare, Restore, AfterRestore
    <3>4. CASE ReleaseRecapture(s) \/ KillSession(s) \/ ExitMat(s)
      BY <3>4 DEF ReleaseRecapture, KillSession, ExitMat, Spoils, profile
    <3>5. ASSUME NEW c \in Cred, Lands(s, c) PROVE step'[s] = step[s] /\ UNCHANGED stored
      BY <3>5 DEF Lands, LateStageLands, LateStageRemoved, LateRestoreLands, Sound, profile
    <3> QED
      BY <1>7, <3>1, <3>2, <3>3, <3>4, <3>5 DEF Moves
  <2>2. \A c \in Cred : Ahead(c)' <=> Ahead(c)
    BY <1>2, <1>3, <2>1 DEF Ahead
  <2>3. UNCHANGED identity
    BY <1>7 DEF Moves, AcquireRecapture, DegradeRecapture, Enter, ReadBackup, StageFile,
         CommitFile,
      Discard, Compare, Restore, ReleaseRecapture, KillSession, ExitMat, Lands,
      LateStageLands, LateStageRemoved, LateRestoreLands, profile
  <2>4. \A c \in Cred : Ahead(c) => stored'[c] = stored[c]
    <3> SUFFICES ASSUME NEW t \in Session, step[t] = "identity" PROVE UNCHANGED stored
      BY DEF Ahead
    <3>1. CASE t = s
      BY <2>1, <3>1
    <3>2. CASE t # s
      <4>1. step[s] \notin InLock
        BY <1>1, <3>2 DEF RecordsInv, Sound, InLock, Steps
      <4> QED
        BY <4>1 DEF Moves, AcquireRecapture, DegradeRecapture, Enter, ReadBackup, StageFile,
             CommitFile,
          Discard, Compare, Restore, ReleaseRecapture, KillSession, ExitMat, Lands, RecordIdentity,
          LateStageLands, LateStageRemoved, LateRestoreLands, profile, InStep, InLock, Steps, RecordsInv, Sound
    <3> QED
      BY <3>1, <3>2
  <2>5. UNCHANGED OutsideNow
    BY <2>2, <2>3, <2>4 DEF OutsideNow
  <2> QED
    BY <1>3, <1>5, <2>5
<1> QED
  BY <1>6, <1>7

LEMMA EndsOutside ==
  ASSUME RecordsInv, NEW s \in Session, EndSession(s)
  PROVE  /\ kept[s] = {} /\ \E found \in SUBSET Cred : kept' = [kept EXCEPT ![s] = found]
         /\ UNCHANGED <<OutsideNow, DoneSessions>>
<1>1. /\ step[s] = "running" /\ step'[s] # "identity" /\ UNCHANGED <<profile, result>>
      /\ \A t \in Session : t # s => step'[t] = step[t] /\ kept'[t] = kept[t]
  BY DEF EndSession, InStep, MoveTo, RecordsInv, Typed, TypedControl, TypedSets
<1>2. \A c \in Cred : Ahead(c)' <=> Ahead(c)
  BY <1>1 DEF Ahead
<1>3. UNCHANGED OutsideNow
  BY <1>1, <1>2 DEF OutsideNow, profile
<1> QED
  BY <1>1, <1>3 DEF EndSession, DoneSessions, RecordsInv, Progress

LEMMA CommitsOutside ==
  ASSUME RecordsInv, ~tainted, NEW s \in Session, CommitFile(s), NEW c \in Cred, CommitsLast(s, c)
  PROVE  /\ s \notin DoneSessions /\ DoneSessions' = DoneSessions \union {s}
         /\ OutsideNow' = [d \in Cred |-> IF d \in kept[s] THEN s ELSE OutsideNow[d]] /\ UNCHANGED kept
<1> USE DEF RecordsInv
<1>1. step[s] = "commit" /\ UNCHANGED <<identity, kept>> /\ result[s] = "none" /\ committed[s] = kept[s] \ {c}
  BY DEF CommitFile, CommitsLast, Commits, InStep, Progress
<1>2. holder = s /\ Phase(s)
  BY <1>1 DEF Sound, InLock, Steps
<1>3. \A t \in Session : step[t] # "identity"
  BY <1>1, <1>2 DEF Sound, InLock, Steps
<1>4. step' = [step EXCEPT ![s] = "identity"] /\ result' = [result EXCEPT ![s] = "ok"]
  BY DEF CommitsLast, MoveTo, Done
<1>5. \A d \in Cred : ~Ahead(d) /\ (Ahead(d)' <=> d \in kept[s])
  BY <1>1, <1>3, <1>4 DEF Ahead, Typed, TypedControl
<1>6. \A d \in kept[s] : stored'[d] = s
  BY <1>1, <1>2 DEF CommitsLast, Commits, Phase, Typed, TypedValues, TypedSets
<1>7. DoneSessions' = DoneSessions \union {s} /\ s \notin DoneSessions
  BY <1>1, <1>4 DEF DoneSessions, Typed, TypedControl
<1> QED
  BY <1>1, <1>5, <1>6, <1>7 DEF OutsideNow, Typed, TypedSets

\* With the lock every recapture replaces the credentials of its session as one set or not at all,
\* as the abstract profile does: for any number of sessions, credentials and failures, as long as
\* none of them was free, killed half-way or failed to restore (session.ts:783).
THEOREM RecaptureRefines == RecaptureSpec => ImplementsAtomicRecapture
<1>1. RecaptureInit => Atomic!Init
  <2> SUFFICES ASSUME RecaptureInit PROVE Atomic!Init
    OBVIOUS
  <2>1. \A c \in Cred : Undone(c) = stored[c]
    BY DEF RecaptureInit, Undone
  <2> QED
    BY <2>1 DEF RecaptureInit, Atomic!Init, Value
<1>2. RecordsInv /\ RecordsInv' /\ [RecaptureNext]_recaptureVars
        => [~tainted' => [Atomic!Next]_(Atomic!vars)]_recaptureVars
  <2> SUFFICES ASSUME RecordsInv, RecordsInv', RecaptureNext, ~tainted' PROVE [Atomic!Next]_(Atomic!vars)
    OBVIOUS
  <2> PICK s \in Session : Moves(s)
    BY DEF RecaptureNext, Moves
  <2>1. ~tainted
    BY TaintStays
  <2>2. Whole = OutsideNow /\ Whole' = OutsideNow'
    BY <2>1, WholeIsOutside, WholeIsOutsideNext
  <2>3. CASE EndSession(s)
    <3>1. Atomic!End(s)
      BY <2>2, <2>3, EndsOutside DEF Atomic!End, Whole, DoneSessions
    <3> QED
      BY <3>1 DEF Atomic!Next
  <2>4. CASE \E c \in Cred : CommitFile(s) /\ CommitsLast(s, c)
    <3>1. PICK c \in Cred : CommitFile(s) /\ CommitsLast(s, c)
      BY <2>4
    <3>2. /\ s \notin DoneSessions /\ DoneSessions' = DoneSessions \union {s} /\ UNCHANGED kept
          /\ Whole' = [d \in Cred |-> IF d \in kept[s] THEN s ELSE Whole[d]]
      BY <2>1, <2>2, <3>1, CommitsOutside
    <3>3. Atomic!Recapture(s)
      BY <3>2 DEF Atomic!Recapture, Whole, DoneSessions
    <3> QED
      BY <3>3 DEF Atomic!Next
  <2>5. CASE ~EndSession(s) /\ \A c \in Cred : ~(CommitFile(s) /\ CommitsLast(s, c))
    <3>1. UNCHANGED <<Whole, kept, DoneSessions>>
      BY <2>1, <2>2, <2>5, NothingOutside
    <3> QED
      BY <3>1 DEF Atomic!vars, Whole, DoneSessions
  <2> QED
    BY <2>3, <2>4, <2>5
<1> QED
  BY <1>1, <1>2, RecordsInvariance, PTL DEF RecaptureSpec, ImplementsAtomicRecapture

-----------------------------------------------------------------------------
(* Types *)

\* A loop is under way only in the part of a recapture that the lock is for, and failures are counted.
Numbered == troubles \in 0..MaxTroubles /\ tainted \in BOOLEAN /\ leaked \subseteq Session
LockedLoops == \A s \in Session : todo[s] # {} => step[s] \in InLock

LEMMA NumberedStep == Typed /\ Numbered /\ [RecaptureNext]_recaptureVars => Numbered'
<1> SUFFICES ASSUME Typed, Numbered, [RecaptureNext]_recaptureVars PROVE Numbered'
  OBVIOUS
<1>1. ASSUME Fine PROVE Numbered'
  BY <1>1 DEF Fine, histories, Numbered
<1>2. ASSUME Trouble, tainted' \in BOOLEAN, leaked' \subseteq Session PROVE Numbered'
  BY <1>2, RecaptureAssumption DEF Trouble, Numbered
<1>3. ASSUME troubles' = troubles, tainted' \in BOOLEAN, leaked' \subseteq Session PROVE Numbered'
  BY <1>3 DEF Numbered
<1>4. CASE UNCHANGED recaptureVars
  BY <1>4, <1>1 DEF recaptureVars, Fine
<1> USE DEF Numbered
<1>5. ASSUME NEW s \in Session, EndSession(s) \/ AcquireRecapture(s) \/ DegradeRecapture(s) PROVE Numbered'
  BY <1>1, <1>3, <1>5 DEF EndSession, AcquireRecapture, DegradeRecapture, Enter, Fine
<1>6. ASSUME NEW s \in Session, ReadBackup(s) \/ StageFile(s) \/ CommitFile(s) PROVE Numbered'
  <2>1. Fine \/ (Trouble /\ tainted' = tainted /\ leaked' = leaked)
    BY <1>6 DEF ReadBackup, StageFile, CommitFile
  <2> QED
    BY <1>1, <1>2, <2>1
<1>7. ASSUME NEW s \in Session, RecordIdentity(s) \/ Compare(s) \/ Restore(s) PROVE Numbered'
  <2>1. Fine \/ (Trouble /\ tainted' \in BOOLEAN /\ leaked' = leaked)
    BY <1>7 DEF RecordIdentity, Compare, Restore, Spoils
  <2> QED
    BY <1>1, <1>2, <2>1
<1>8. ASSUME NEW s \in Session, Discard(s) \/ ReleaseRecapture(s) PROVE Numbered'
  <2>1. Fine \/ (Trouble /\ tainted' = tainted /\ leaked' \subseteq Session)
    BY <1>8 DEF Discard, ReleaseRecapture, Leaks
  <2> QED
    BY <1>1, <1>2, <2>1
<1>9. ASSUME NEW s \in Session, KillSession(s) PROVE Numbered'
  BY <1>2, <1>9 DEF KillSession, Spoils, Leaks
<1>11. ASSUME NEW s \in Session, ExitMat(s) PROVE Numbered'
  BY <1>3, <1>11 DEF ExitMat, Leaks
<1>10. ASSUME NEW s \in Session, NEW c \in Cred, Lands(s, c) PROVE Numbered'
  <2>1. Fine \/ (Trouble /\ tainted' = tainted /\ leaked' \subseteq Session)
    BY <1>10 DEF Lands, LateStageLands, LateStageRemoved, LateRestoreLands, Leaks
  <2> QED
    BY <1>1, <1>2, <2>1
<1> QED
  BY <1>4, <1>5, <1>6, <1>7, <1>8, <1>9, <1>10, <1>11 DEF RecaptureNext

LEMMA LoopsStep == Typed /\ LockedLoops /\ [RecaptureNext]_recaptureVars => LockedLoops'
<1> SUFFICES ASSUME Typed, LockedLoops, [RecaptureNext]_recaptureVars PROVE LockedLoops'
  OBVIOUS
<1>0. step \in [Session -> Steps] /\ todo \in [Session -> SUBSET Cred]
  BY DEF Typed, TypedControl, TypedSets
<1>1. CASE UNCHANGED <<step, todo>>
  BY <1>1 DEF LockedLoops
<1>2. ASSUME NEW s \in Session, NEW label \in Steps, NEW loop, MoveTo(s, label, loop), loop = {} \/ label \in InLock
      PROVE  LockedLoops'
  <2> SUFFICES ASSUME NEW t \in Session, todo'[t] # {} PROVE step'[t] \in InLock
    BY DEF LockedLoops
  <2>1. CASE t = s
    <3>1. step'[t] = label /\ todo'[t] = loop
      BY <1>0, <1>2, <2>1 DEF MoveTo
    <3> QED
      BY <1>2, <3>1
  <2>2. CASE t # s
    <3>1. step'[t] = step[t] /\ todo'[t] = todo[t]
      BY <1>0, <1>2, <2>2 DEF MoveTo
    <3> QED
      BY <3>1 DEF LockedLoops
  <2> QED
    BY <2>1, <2>2
<1> USE DEF InLock, Steps
<1>3. ASSUME NEW s \in Session, EndSession(s) PROVE LockedLoops'
  <2>1. MoveTo(s, "ended", {}) \/ MoveTo(s, "waiting", {})
    BY <1>3 DEF EndSession
  <2> QED
    BY <1>2, <2>1
<1>4. ASSUME NEW s \in Session, AcquireRecapture(s) \/ DegradeRecapture(s) PROVE LockedLoops'
  BY <1>2, <1>4 DEF AcquireRecapture, DegradeRecapture, Enter
<1>5. ASSUME NEW s \in Session, ReadBackup(s) PROVE LockedLoops'
  BY <1>2, <1>5 DEF ReadBackup
<1>6. ASSUME NEW s \in Session, StageFile(s) PROVE LockedLoops'
  BY <1>2, <1>6 DEF StageFile
<1>7. ASSUME NEW s \in Session, CommitFile(s) PROVE LockedLoops'
  BY <1>2, <1>7 DEF CommitFile
<1>8. ASSUME NEW s \in Session, RecordIdentity(s) \/ ReleaseRecapture(s) \/ KillSession(s) PROVE LockedLoops'
  BY <1>2, <1>8 DEF RecordIdentity, ReleaseRecapture, KillSession
<1>9. ASSUME NEW s \in Session, Discard(s) PROVE LockedLoops'
  BY <1>2, <1>9 DEF Discard, UndoCommitted
<1>10. ASSUME NEW s \in Session, Compare(s) \/ Restore(s) PROVE LockedLoops'
  <2>1. ASSUME NEW c, AfterRestore(s, c) PROVE LockedLoops'
    BY <1>2, <2>1 DEF AfterRestore
  <2>2. CASE MoveTo(s, "restore", todo[s])
    BY <1>2, <2>2
  <2>3. AfterRestore(s, Max(todo[s])) \/ MoveTo(s, "restore", todo[s])
    BY <1>10 DEF Compare, Restore
  <2> QED
    BY <2>1, <2>2, <2>3
<1>11. ASSUME NEW s \in Session, NEW c \in Cred, Lands(s, c) PROVE LockedLoops'
  BY <1>1, <1>11 DEF Lands, LateStageLands, LateStageRemoved, LateRestoreLands
<1>12. ASSUME NEW s \in Session, ExitMat(s) PROVE LockedLoops'
  BY <1>1, <1>12 DEF ExitMat
<1> QED
  BY <1>1, <1>3, <1>4, <1>5, <1>6, <1>7, <1>8, <1>9, <1>10, <1>11, <1>12 DEF RecaptureNext, recaptureVars

\* A recapture is well typed; its lock is held by whoever is inside with it, and only there
\* (RecaptureTypeOK), however often sessions fail, time out and are killed.
THEOREM RecaptureWellTyped == RecaptureSpec => []RecaptureTypeOK
<1>1. RecaptureInit => Numbered /\ LockedLoops
  <2> SUFFICES ASSUME RecaptureInit PROVE Numbered /\ LockedLoops
    OBVIOUS
  <2>1. troubles \in 0..MaxTroubles
    BY RecaptureAssumption DEF RecaptureInit
  <2>2. todo = [s \in Session |-> {}]
    BY DEF RecaptureInit
  <2>3. tainted \in BOOLEAN /\ leaked \subseteq Session
    BY DEF RecaptureInit
  <2> QED
    BY <2>1, <2>2, <2>3 DEF LockedLoops, Numbered
<1>2. RecordsInv /\ Numbered /\ LockedLoops /\ [RecaptureNext]_recaptureVars => Numbered' /\ LockedLoops'
  BY NumberedStep, LoopsStep DEF RecordsInv
<1>3. RecordsInv /\ Numbered /\ LockedLoops => RecaptureTypeOK
  <2> SUFFICES ASSUME RecordsInv, Numbered, LockedLoops PROVE RecaptureTypeOK
    OBVIOUS
  <2>1. \A s \in Session :
          /\ holder = s => entry[s] = "locked" /\ step[s] \in InLock
          /\ step[s] \in InLock /\ entry[s] = "locked" => holder = s
          /\ todo[s] # {} => todo[s] \subseteq kept[s] /\ step[s] \in InLock
    BY DEF RecordsInv, Entered, Progress, LockedLoops
  <2>2. {kept[s] : s \in Session} \union {todo[s] : s \in Session}
          \union {committed[s] : s \in Session} \union {staged[s] : s \in Session} \subseteq SUBSET Cred
    BY DEF RecordsInv, Typed, TypedSets
  <2> QED
    BY <2>1, <2>2 DEF RecordsInv, Typed, TypedValues, TypedControl, TypedSets, Numbered, RecaptureTypeOK
<1> QED
  BY <1>1, <1>2, <1>3, RecordsInit, RecordsStep, PTL DEF RecaptureSpec
=============================================================================
