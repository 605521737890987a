--------------------------- MODULE CliLockProofs ---------------------------
(***************************************************************************)
(* Proofs about CliLock for any number of processes and acquisitions.      *)
(*                                                                         *)
(* No time window is assumed: whether a verdict has strayed is history,    *)
(* and what is proved holds of every behaviour until one has.  CliLock_aba *)
(* shows what a stray verdict does.                                        *)
(***************************************************************************)
EXTENDS CliLock, TLAPS

-----------------------------------------------------------------------------
LEMMA TokenTyped ==
  ASSUME TypeOK, NEW p \in Proc, pc[p] # "idle"
  PROVE  MyToken(p) \in Token
BY LockAssumption DEF TypeOK, Token, MyToken

LEMMA InitTyped == Init => TypeOK
<1> SUFFICES ASSUME Init PROVE TypeOK
  OBVIOUS
<1> USE LockAssumption DEF Init, InitLock
<1>1. dir \in BOOLEAN /\ tmps \subseteq Token /\ warned \subseteq Token
  OBVIOUS
<1>2. info \in Token \union {NoInfo}
  OBVIOUS
<1>3. life \in [Proc -> {"up", "dead", "reused"}] /\ pc \in [Proc -> Labels]
  BY DEF Labels
<1>4. round \in [Proc -> 0..MaxRounds] /\ attempt \in [Proc -> 1..2]
  OBVIOUS
<1>5. result \in [Proc -> Results]
  BY DEF Results
<1>6. \A p \in Proc : pc[p] # "idle" => round[p] > 0
  OBVIOUS
<1> QED
  BY <1>1, <1>2, <1>3, <1>4, <1>5, <1>6 DEF TypeOK

LEMMA StepTyped ==
  ASSUME TypeOK, [Next]_vars
  PROVE  TypeOK'
<1> USE DEF TypeOK, Labels, Results
<1>1. CASE UNCHANGED vars
  BY <1>1 DEF vars, lockVars
<1>2. CASE Next
  <2> PICK p \in Proc : Begin(p) \/ Step(p) \/ Die(p)
    BY <1>2 DEF Next
  <2> USE DEF At, Goto, DirUnchanged, SameVerdicts, Same, Ends, Detach
  <2>1. CASE Begin(p)
    BY <2>1, LockAssumption DEF Begin, BeginRound
  <2>2. CASE TryMkdir(p)
    BY <2>2 DEF TryMkdir, Mkdir
  <2>3. CASE WritePending(p)
    BY <2>3, TokenTyped DEF WritePending, OpenTmp, Publish
  <2>4. CASE NoMetadata(p) \/ MetadataThrows(p) \/ Metadata(p)
    BY <2>4 DEF NoMetadata, MetadataThrows, Metadata
  <2>5. CASE WriteFinal(p)
    BY <2>5, TokenTyped DEF WriteFinal, OpenTmp, Publish
  <2>6. CASE WriteThrows(p)
    BY <2>6 DEF WriteThrows, WriteFails
  <2>7. CASE SystemThrows(p)
    BY <2>7 DEF SystemThrows
  <2>8. CASE ConflictLive(p)
    BY <2>8 DEF ConflictLive, ProbeLive
  <2>9. CASE ConflictStale(p)
    <3>1. /\ pc[p] = "probe" /\ warned' \subseteq Token /\ judged' \subseteq Proc
          /\ strayed' \in BOOLEAN /\ UNCHANGED <<dir, info, tmps>>
      BY <2>9 DEF ConflictStale, ProbeStale, Probes, Judges, HolderAbsent
    <3> QED
      BY <2>9, <3>1 DEF ConflictStale
  <2>10. CASE ReclaimStale(p)
    <3>1. pc' = [pc EXCEPT ![p] = pc'[p]] /\ pc'[p] \in Labels
      BY <2>10 DEF ReclaimStale, NextAttempt
    <3>2. /\ dir' = FALSE /\ info' = NoInfo /\ tmps' = {} /\ pc[p] = "reclaim"
          /\ judged' = {} /\ strayed' \in BOOLEAN
      BY <2>10 DEF ReclaimStale, Reclaim
    <3>3. attempt' \in [Proc -> 1..2]
      BY <2>10 DEF ReclaimStale, NextAttempt
    <3> QED
      BY <2>10, <3>1, <3>2, <3>3 DEF ReclaimStale
  <2>11. CASE Report(p)
    BY <2>11 DEF Report
  <2>12. CASE Finish(p)
    BY <2>12 DEF Finish
  <2>13. CASE Release(p)
    <3>1. CASE ReadOwner(p)
      BY <2>13, <3>1 DEF Release, ReadOwner
    <3>2. CASE Unlink(p)
      BY <2>13, <3>2 DEF Release, Unlink
    <3>3. CASE Rmdir(p, "idle")
      BY <2>13, <3>3 DEF Release, Rmdir
    <3>4. CASE RmFails(p, "idle")
      BY <2>13, <3>4 DEF Release, RmFails
    <3> QED
      BY <2>13, <3>1, <3>2, <3>3, <3>4 DEF Release
  <2>14. CASE Die(p)
    BY <2>14 DEF Die, Crash, ReusePid
  <2> QED
    BY <2>1, <2>2, <2>3, <2>4, <2>5, <2>6, <2>7, <2>8, <2>9, <2>10, <2>11,
       <2>12, <2>13, <2>14 DEF Step
<1> QED
  BY <1>1, <1>2

\* Type correctness: the states the code can be in, for every bound and with
\* every kind of failure.
THEOREM TypeCorrect == Spec => []TypeOK
<1> QED
  BY InitTyped, StepTyped, PTL DEF Spec


-----------------------------------------------------------------------------
LEMMA InitIInv == Init => IInv
<1> SUFFICES ASSUME Init PROVE IInv
  OBVIOUS
<1>1. TypeOK
  BY InitTyped
<1>2. \A p \in Proc : ~Owns(p) /\ ~Holding(p)
  BY DEF Init, InitLock, Owns, OwnerLabels, Holding, HolderLabels
<1>3. NoDirNoFiles /\ VerdictsOnDir /\ judged = {}
  BY DEF Init, InitLock, NoDirNoFiles, VerdictsOnDir
<1> QED
  BY <1>1, <1>2, <1>3
  DEF IInv, OwnerInv, OneOwner, OwnerHasDir, HolderNamed, WindowEmpty, RemovesOwn,
      ReclaimsUnowned, ReclaimsAnnounced

\* Whoever finds the holder of a directory absent or dead, and does not stray, finds a directory
\* that nobody owns.
LEMMA NoOwnerAtProbe ==
  ASSUME IInv, NEW p \in Proc, ProbeStale(p), ~strayed'
  PROVE  \A q \in Proc : ~Owns(q)
<1> SUFFICES ASSUME NEW q \in Proc, Owns(q) PROVE FALSE
  OBVIOUS
<1>0. ~strayed /\ ~HolderAbsent
  BY DEF ProbeStale, Judges
<1>1. OwnerInv /\ TypeOK
  BY <1>0 DEF IInv
<1>2. dir
  BY <1>1 DEF OwnerInv, OwnerHasDir
<1>3. CASE info = NoInfo
  <2>1. ~InWindow(q)
    BY <1>0, <1>2, <1>3 DEF HolderAbsent
  <2>2. Holding(q)
    BY <2>1 DEF InWindow, At, Owns, OwnerLabels, Holding, HolderLabels
  <2>3. info = MyToken(q) /\ MyToken(q) \in Token
    BY <1>1, <2>2, TokenTyped DEF OwnerInv, HolderNamed, Holding, HolderLabels
  <2> QED
    BY <1>3, <2>3, LockAssumption
<1>4. CASE info # NoInfo
  <2>1. info = MyToken(q)
    BY <1>1, <1>4 DEF OwnerInv, Owns, OwnerLabels, Holding, HolderLabels, HolderNamed,
      WindowEmpty, RemovesOwn
  <2>2. HolderLive
    BY <1>4, <2>1 DEF HolderLive, isProcessAlive, MyToken, Owns
  <2> QED
    BY <2>2 DEF ProbeStale
<1> QED
  BY <1>3, <1>4

\* What the directory holds and what the verdicts are on, whether one has strayed or not.
LEMMA StepDir ==
  ASSUME TypeOK, NoDirNoFiles, VerdictsOnDir, [Next]_vars
  PROVE  NoDirNoFiles' /\ VerdictsOnDir' /\ (strayed => strayed')
<1> USE DEF At, Goto, DirUnchanged, SameVerdicts, Same, NoDirNoFiles, VerdictsOnDir
<1>1. CASE UNCHANGED vars
  BY <1>1 DEF vars, lockVars
<1>2. CASE Next
  <2> PICK p \in Proc : Begin(p) \/ Step(p) \/ Die(p)
    BY <1>2 DEF Next
  <2>1. CASE Begin(p) \/ TryMkdir(p)
    BY <2>1 DEF Begin, BeginRound, TryMkdir, Mkdir
  <2>2. CASE WritePending(p) \/ WriteFinal(p)
    BY <2>2 DEF WritePending, WriteFinal, OpenTmp, Publish, TypeOK
  <2>3. CASE NoMetadata(p) \/ MetadataThrows(p) \/ Metadata(p)
    BY <2>3 DEF NoMetadata, MetadataThrows, Metadata
  <2>4. CASE WriteThrows(p) \/ SystemThrows(p)
    BY <2>4 DEF WriteThrows, WriteFails, SystemThrows
  <2>5. CASE ConflictLive(p) \/ Report(p) \/ Finish(p)
    BY <2>5 DEF ConflictLive, ProbeLive, Probes, Report, Finish
  <2>6. CASE ConflictStale(p)
    BY <2>6 DEF ConflictStale, ProbeStale, Judges
  <2>7. CASE ReclaimStale(p)
    BY <2>7 DEF ReclaimStale, Reclaim, Detach
  <2>8. CASE Release(p)
    <3>1. CASE ReadOwner(p) \/ RmFails(p, "idle")
      BY <2>8, <3>1 DEF ReadOwner, RmFails
    <3>2. CASE Unlink(p)
      BY <2>8, <3>2 DEF Unlink
    <3>3. CASE Rmdir(p, "idle")
      BY <2>8, <3>3 DEF Rmdir
    <3> QED
      BY <2>8, <3>1, <3>2, <3>3 DEF Release
  <2>9. CASE Die(p)
    BY <2>9 DEF Die, Crash, ReusePid
  <2> QED
    BY <2>1, <2>2, <2>3, <2>4, <2>5, <2>6, <2>7, <2>8, <2>9 DEF Step
<1> QED
  BY <1>1, <1>2

LEMMA StepOwner ==
  ASSUME IInv, ~strayed, [Next]_vars, ~strayed'
  PROVE  OwnerInv'
<1> USE DEF At, Goto, DirUnchanged, SameVerdicts, Same, Ends, Detach, Owns, OwnerLabels, Holding,
         HolderLabels
<1> USE DEF IInv, OwnerInv, NoDirNoFiles, VerdictsOnDir, OneOwner, OwnerHasDir, HolderNamed,
         WindowEmpty, RemovesOwn, ReclaimsUnowned, ReclaimsAnnounced, MyToken
<1>1. CASE UNCHANGED vars
  BY <1>1 DEF vars, lockVars
<1>2. CASE Next
  <2> PICK p \in Proc : Begin(p) \/ Step(p) \/ Die(p)
    BY <1>2 DEF Next
  <2> USE DEF TypeOK
  <2>1. CASE Begin(p)
    BY <2>1, LockAssumption DEF Begin, BeginRound
  <2>2. CASE TryMkdir(p)
    BY <2>2 DEF TryMkdir, Mkdir
  <2>3. CASE WritePending(p)
    BY <2>3 DEF WritePending, OpenTmp, Publish
  <2>4. CASE NoMetadata(p) \/ MetadataThrows(p) \/ Metadata(p)
    BY <2>4 DEF NoMetadata, MetadataThrows, Metadata
  <2>5. CASE WriteFinal(p)
    BY <2>5 DEF WriteFinal, OpenTmp, Publish
  <2>6. CASE WriteThrows(p)
    BY <2>6 DEF WriteThrows, WriteFails
  <2>7. CASE SystemThrows(p)
    BY <2>7 DEF SystemThrows
  <2>8. CASE ConflictLive(p)
    BY <2>8 DEF ConflictLive, ProbeLive, Probes
  <2>9. CASE ConflictStale(p)
    <3>1. pc[p] = "probe" /\ life[p] = "up" /\ \A q \in Proc : ~Owns(q)
      BY <2>9, NoOwnerAtProbe DEF ConflictStale, ProbeStale, Probes
    <3>2. \A q \in Proc : ~Owns(q)'
      BY <2>9, <3>1 DEF ConflictStale
    <3>3. judged' # {} /\ info' # NoInfo => info' \in warned'
      BY <2>9 DEF ConflictStale, ProbeStale, Judges
    <3> QED
      BY <3>2, <3>3
  <2>10. CASE ReclaimStale(p)
    <3>1. dir => p \in judged
      BY <2>10 DEF ReclaimStale, Reclaim
    <3>2. \A q \in Proc : ~Owns(q)
      BY <3>1
    <3>3. \A q \in Proc : ~Owns(q)'
      BY <2>10, <3>2 DEF ReclaimStale, Reclaim, NextAttempt
    <3>4. judged' = {}
      BY <2>10 DEF ReclaimStale, Reclaim
    <3> QED
      BY <3>3, <3>4
  <2>11. CASE Report(p)
    BY <2>11 DEF Report
  <2>12. CASE Finish(p)
    BY <2>12 DEF Finish
  <2>13. CASE Release(p)
    <3>1. CASE ReadOwner(p)
      BY <2>13, <3>1 DEF Release, ReadOwner
    <3>2. CASE Unlink(p)
      BY <2>13, <3>2 DEF Release, Unlink
    <3>3. CASE Rmdir(p, "idle")
      BY <2>13, <3>3 DEF Release, Rmdir
    <3>4. CASE RmFails(p, "idle")
      BY <2>13, <3>4 DEF Release, RmFails
    <3> QED
      BY <2>13, <3>1, <3>2, <3>3, <3>4 DEF Release
  <2>14. CASE Die(p)
    BY <2>14 DEF Die, Crash, ReusePid
  <2> QED
    BY <2>1, <2>2, <2>3, <2>4, <2>5, <2>6, <2>7, <2>8, <2>9, <2>10, <2>11,
       <2>12, <2>13, <2>14 DEF Step
<1> QED
  BY <1>1, <1>2

LEMMA StepIInv ==
  ASSUME IInv, [Next]_vars
  PROVE  IInv'
<1>1. TypeOK' /\ NoDirNoFiles' /\ VerdictsOnDir' /\ (strayed => strayed')
  BY StepTyped, StepDir DEF IInv
<1>2. ~strayed' => OwnerInv'
  BY <1>1, StepOwner
<1> QED
  BY <1>1, <1>2 DEF IInv

-----------------------------------------------------------------------------
\* What the invariant says of the directory, its info.json, the temporary files and the verdicts of
\* the reclaimers survives every step, for any number of processes (acquireCliLockLease).
THEOREM Invariance == Spec => []IInv
<1>1. Init => IInv
  BY InitIInv
<1>2. IInv /\ [Next]_vars => IInv'
  BY StepIInv
<1> QED
  BY <1>1, <1>2, PTL DEF Spec

\* No two processes of a CLI are inside the lock at once, for any number of processes,
\* acquisitions, crashes, failed file operations and recycled pids, in any order of their steps,
\* until a verdict strays.
THEOREM Safety == Spec => []ExclusiveUntilStray
<1>1. ASSUME IInv PROVE ExclusiveUntilStray
  <2>1. \A p \in Proc : Holding(p) => Owns(p)
    BY DEF Holding, HolderLabels, Owns, OwnerLabels
  <2> QED
    BY <1>1, <2>1 DEF IInv, OwnerInv, OneOwner, ExclusiveUntilStray, MutualExclusion
<1> QED
  BY <1>1, Invariance, PTL

\* Nobody takes the lock away from its holder: info.json is the holder's own until it yields, or a
\* verdict strays.
THEOREM Lease == Spec => []LeaseIntact
<1>1. ASSUME IInv PROVE LeaseIntact
  <2>1. \A p \in Proc : Holding(p) => Owns(p)
    BY DEF Holding, HolderLabels, Owns, OwnerLabels
  <2> QED
    BY <1>1, <2>1 DEF IInv, OwnerInv, OwnerHasDir, HolderNamed, LeaseIntact
<1> QED
  BY <1>1, Invariance, PTL

\* Policy B for every instance: until a verdict strays, no step removes the trace of a dead holder
\* that was not announced.
THEOREM Announced == Spec => WarnsBeforeDrop
<1> DEFINE A == ~strayed' /\ info # NoInfo /\ ~isProcessAlive(info.pid) /\ info' # info =>
                  info \in warned'
<1>1. IInv /\ [Next]_vars => [A]_vars
  <2> SUFFICES ASSUME IInv, Next, ~strayed', info # NoInfo, ~isProcessAlive(info.pid),
                      info' # info
               PROVE  info \in warned'
    OBVIOUS
  <2> PICK p \in Proc : Begin(p) \/ Step(p) \/ Die(p)
    BY DEF Next
  <2>0. ~strayed /\ OwnerInv
    BY StepDir DEF IInv
  <2> USE DEF At, DirUnchanged, SameVerdicts
  <2>1. ASSUME NEW q \in Proc, Owns(q), pc[q] # "rmdir" PROVE FALSE
    BY <2>0, <2>1 DEF OwnerInv, Owns, OwnerLabels, Holding, HolderLabels, HolderNamed,
      WindowEmpty, RemovesOwn, MyToken, isProcessAlive
  <2>2. ReclaimStale(p)
    <3>1. ~Begin(p) /\ ~Die(p)
      BY DEF Begin, BeginRound, Die, Crash, ReusePid
    <3>2. ~TryMkdir(p) /\ ~NoMetadata(p) /\ ~MetadataThrows(p) /\ ~Metadata(p)
      BY DEF TryMkdir, Mkdir, NoMetadata, MetadataThrows, Metadata
    <3>3. ~WritePending(p) /\ ~WriteFinal(p)
      BY <2>1 DEF WritePending, WriteFinal, OpenTmp, Publish, Owns, OwnerLabels
    <3>4. ~WriteThrows(p) /\ ~SystemThrows(p) /\ ~ConflictLive(p)
      BY DEF WriteThrows, WriteFails, SystemThrows, ConflictLive, ProbeLive
    <3>5. ~ConflictStale(p)
      BY DEF ConflictStale, ProbeStale, Judges
    <3>6. ~Report(p) /\ ~Finish(p)
      BY DEF Report, Finish
    <3>7. ~Release(p)
      BY <2>1 DEF Release, ReadOwner, Unlink, Rmdir, RmFails, Owns, OwnerLabels
    <3> QED
      BY <3>1, <3>2, <3>3, <3>4, <3>5, <3>6, <3>7 DEF Step
  <2>3. dir
    BY DEF IInv, NoDirNoFiles
  <2> QED
    BY <2>0, <2>2, <2>3 DEF ReclaimStale, Reclaim, OwnerInv, ReclaimsAnnounced
<1> QED
  BY <1>1, Invariance, PTL DEF Spec, WarnsBeforeDrop

-----------------------------------------------------------------------------
\* A step of p makes nobody else a holder, and makes p one only when p already
\* owns the directory.
LEMMA OneMoves ==
  ASSUME TypeOK, NEW p \in Proc, Begin(p) \/ Step(p) \/ Die(p)
  PROVE  /\ \A q \in Proc \ {p} : Holding(q)' <=> Holding(q)
         /\ Holding(p)' => Owns(p)
<1> USE DEF Holding, HolderLabels, Owns, OwnerLabels, At, Goto, Same, TypeOK
<1>1. CASE Begin(p)
  BY <1>1 DEF Begin, BeginRound
<1>2. CASE TryMkdir(p)
  BY <1>2 DEF TryMkdir, Mkdir
<1>3. CASE WritePending(p) \/ WriteFinal(p)
  BY <1>3 DEF WritePending, WriteFinal, OpenTmp, Publish
<1>4. CASE NoMetadata(p) \/ MetadataThrows(p) \/ Metadata(p)
  BY <1>4 DEF NoMetadata, MetadataThrows, Metadata
<1>5. CASE WriteThrows(p) \/ SystemThrows(p)
  BY <1>5 DEF WriteThrows, WriteFails, SystemThrows
<1>6. CASE ConflictLive(p) \/ Report(p) \/ Finish(p)
  BY <1>6 DEF ConflictLive, Report, Finish
<1>7. CASE ConflictStale(p)
  BY <1>7 DEF ConflictStale, NextAttempt
<1>8. CASE ReclaimStale(p)
  BY <1>8 DEF ReclaimStale, NextAttempt
<1>9. CASE Release(p)
  BY <1>9 DEF Release, ReadOwner, Unlink, Rmdir, RmFails
<1>10. CASE Die(p)
  BY <1>10 DEF Die, Crash, ReusePid
<1> QED
  BY <1>1, <1>2, <1>3, <1>4, <1>5, <1>6, <1>7, <1>8, <1>9, <1>10 DEF Step

holders == IF strayed THEN {} ELSE {p \in Proc : Holding(p)}

\* A step becomes a grant, a yield or a stutter of the abstract lock; the one that strays takes
\* the lock from whoever holds it.
LEMMA HoldersStep ==
  ASSUME IInv, [Next]_vars
  PROVE  [Abstract!Next]_holders
<1>0. strayed => strayed'
  BY StepDir DEF IInv
<1>1. CASE UNCHANGED vars
  BY <1>1 DEF vars, lockVars, holders, Holding
<1>2. CASE strayed
  BY <1>0, <1>2 DEF holders
<1>3. CASE ~strayed /\ strayed'
  <2>1. ASSUME NEW p \in Proc, Holding(p) PROVE holders = {p}
    BY <1>3, <2>1 DEF holders, IInv, OwnerInv, OneOwner, Owns, OwnerLabels, Holding, HolderLabels
  <2>2. CASE \E p \in Proc : Holding(p)
    BY <1>3, <2>1, <2>2 DEF Abstract!Next, Abstract!Yield, holders
  <2> QED
    BY <1>3, <2>2 DEF holders
<1>4. CASE Next /\ ~strayed /\ ~strayed'
  <2> PICK p \in Proc : Begin(p) \/ Step(p) \/ Die(p)
    BY <1>4 DEF Next
  <2>1. \A q \in Proc \ {p} : Holding(q)' <=> Holding(q)
    BY OneMoves DEF IInv
  <2>2. CASE Holding(p)' <=> Holding(p)
    BY <1>4, <2>1, <2>2 DEF holders
  <2>3. CASE Holding(p) /\ ~Holding(p)'
    <3>1. p \in holders /\ holders' = holders \ {p}
      BY <1>4, <2>1, <2>3 DEF holders
    <3> QED
      BY <1>4, <3>1 DEF Abstract!Next, Abstract!Yield, holders
  <2>4. CASE ~Holding(p) /\ Holding(p)'
    <3>1. Owns(p)
      BY <2>4, OneMoves DEF IInv
    <3>2. \A q \in Proc : ~Holding(q)
      BY <1>4, <2>4, <3>1 DEF IInv, OwnerInv, OneOwner, Owns, OwnerLabels, Holding, HolderLabels
    <3>3. holders = {} /\ holders' = {p}
      BY <1>4, <2>1, <2>4, <3>2 DEF holders
    <3> QED
      BY <1>4, <3>3 DEF Abstract!Next, Abstract!Grant, holders
  <2> QED
    BY <2>2, <2>3, <2>4
<1> QED
  BY <1>1, <1>2, <1>3, <1>4

\* The directory protocol implements the lock its callers see, until a verdict strays.
THEOREM Refinement == Spec => ImplementsAbstractLock
<1>1. Init => Abstract!Init
  BY DEF Init, InitLock, Abstract!Init, Holding, HolderLabels
<1>2. IInv /\ [Next]_vars => [Abstract!Next]_holders
  BY HoldersStep
<1> QED
  BY <1>1, <1>2, Invariance, PTL DEF Spec, ImplementsAbstractLock, Abstract!Spec, holders
=============================================================================
