---------------------------- MODULE StorageProofs ----------------------------
(***************************************************************************)
(* Proofs about what the commands keep on disk.                            *)
(*                                                                         *)
(* RecaptureLock, for any number of processes and acquisitions: as for the *)
(* CLI lock, what a holder keeps it keeps until a verdict strays.          *)
(*                                                                         *)
(* ProfileCapture, for any number of credentials, captures, kills and      *)
(* failing file operations.  What a recovery would lead to is shown to     *)
(* change as one set as long as no file operation fails, however often     *)
(* captures and recoveries are killed; what a capture reports, to be true  *)
(* of its files, and its artifacts never to be left next to prior ones,    *)
(* whatever fails or is killed: a kill while the rollback puts the prior   *)
(* values back is the one silent exception.                                *)
(*                                                                         *)
(* MCStorage: the two together.                                            *)
(***************************************************************************)
EXTENDS MCStorage, WellFoundedInduction, TLAPS

-----------------------------------------------------------------------------
(* RecaptureLock *)

\* Between mkdir and rmdir of its own directory; a recapture that goes on
\* without the lock owns nothing.
OwnerLabels == {"open", "publish", "release", "unlink", "rmdir"}

Holding(p) == life[p] = "up" /\ (pc[p] = "release" \/ (pc[p] = "commit" /\ mode[p] = "locked"))
Owns(p) == Holding(p) \/ (life[p] = "up" /\ pc[p] \in OwnerLabels)

OneOwner == \A p, q \in Proc : Owns(p) /\ Owns(q) => p = q
OwnerHasDir == \A p \in Proc : Owns(p) => dir
NoDirNoFiles == ~dir => info = NoInfo /\ tmps = {}
HolderNamed == \A p \in Proc : Holding(p) => info = MyToken(p)
WindowEmpty == \A p \in Proc : Owns(p) /\ pc[p] \in {"open", "publish", "rmdir"} => info = NoInfo
RemovesOwn == \A p \in Proc : Owns(p) /\ pc[p] = "unlink" => info \in {NoInfo, MyToken(p)}
\* A verdict is on a directory that is there, and that nobody owns.
VerdictsOnDir == judged # {} => dir
ReclaimsUnowned == judged # {} => \A p \in Proc : ~Owns(p)

\* A round was begun by whoever is not idle: its token is a token.
RoundBegun == \A p \in Proc : pc[p] # "idle" => round[p] > 0

OwnerInv ==
  OneOwner /\ OwnerHasDir /\ HolderNamed /\ WindowEmpty /\ RemovesOwn /\ ReclaimsUnowned

LeaseInv == TypeOK /\ RoundBegun /\ NoDirNoFiles /\ VerdictsOnDir /\ (~strayed => OwnerInv)

-----------------------------------------------------------------------------
LEMMA TokenTyped ==
  ASSUME TypeOK, RoundBegun, NEW p \in Proc, pc[p] # "idle"
  PROVE  MyToken(p) \in Token
BY LockAssumption DEF TypeOK, RoundBegun, Token, MyToken

LEMMA InitTyped == Init => TypeOK /\ RoundBegun
<1> SUFFICES ASSUME Init PROVE TypeOK /\ RoundBegun
  OBVIOUS
<1> USE LockAssumption DEF Init, InitLock
<1>1. dir \in BOOLEAN /\ info \in Token \union {NoInfo} /\ tmps \subseteq Token
  OBVIOUS
<1>2. /\ life \in [Proc -> {"up", "dead", "reused"}] /\ pc \in [Proc -> Labels]
      /\ round \in [Proc -> 0..MaxRounds] /\ mode \in [Proc -> {"none", "locked", "free"}]
  BY DEF Labels
<1>3. \A p \in Proc : pc[p] = "idle"
  OBVIOUS
<1> QED
  BY <1>1, <1>2, <1>3 DEF TypeOK, RoundBegun

\* The steps of a process, its begin, end and death included.
LockMoves(p) == Begin(p) \/ Acquire(p) \/ Finish(p) \/ Release(p) \/ Die(p)

LEMMA StepTyped ==
  ASSUME TypeOK, RoundBegun, [Next]_vars
  PROVE  TypeOK' /\ RoundBegun'
<1> USE DEF TypeOK, RoundBegun, Labels
<1>1. CASE UNCHANGED vars
  BY <1>1 DEF vars, lockVars
<1>2. CASE Next
  <2> PICK p \in Proc : LockMoves(p)
    BY <1>2 DEF Next, LockMoves
  <2> USE DEF At, Goto, DirUnchanged, SameVerdicts, Same, Enters, Detach
  <2>1. CASE Begin(p)
    BY <2>1, LockAssumption DEF Begin, BeginRound
  <2>2. CASE TryMkdir(p)
    BY <2>2 DEF TryMkdir, Mkdir
  <2>3. CASE WriteInfo(p)
    BY <2>3, TokenTyped, ZenonT(60) DEF WriteInfo, OpenTmp, Publish
  <2>4. CASE Degrade(p)
    BY <2>4 DEF Degrade, WriteFailed, WriteFails
  <2>5. CASE Remove(p)
    <3>1. CASE Unlink(p)
      BY <2>5, <3>1 DEF Remove, Unlink
    <3>2. ASSUME NEW to \in {"commit", "idle"}, Rmdir(p, to) \/ RmFails(p, to) PROVE TypeOK' /\ RoundBegun'
      BY <2>5, <3>2, ZenonT(60) DEF Remove, Rmdir, RmFails
    <3> QED
      BY <2>5, <3>1, <3>2 DEF Remove
  <2>6. CASE Poll(p) \/ PollStale(p)
    <3>1. CASE Poll(p)
      BY <3>1 DEF Poll, ProbeLive, Probes
    <3>2. CASE PollStale(p)
      <4>1. /\ pc[p] = "probe" /\ pc' = [pc EXCEPT ![p] = "reclaim"]
            /\ UNCHANGED <<dir, info, tmps, life, round, mode>>
        BY <3>2 DEF PollStale, ProbeStale, Probes, Judges
      <4>2. judged' \subseteq Proc /\ strayed' \in BOOLEAN
        BY <3>2 DEF PollStale, ProbeStale, Judges, HolderAbsent
      <4> QED
        BY <4>1, <4>2
    <3> QED
      BY <2>6, <3>1, <3>2
  <2>7. CASE ReclaimStale(p)
    <3>1. judged' = {} /\ strayed' \in BOOLEAN
      BY <2>7 DEF ReclaimStale, Reclaim
    <3> QED
      BY <2>7, <3>1 DEF ReclaimStale, Reclaim
  <2>8. CASE Again(p) \/ TimeOut(p)
    BY <2>8 DEF Again, TimeOut
  <2>9. CASE Finish(p)
    BY <2>9 DEF Finish
  <2>10. CASE Release(p)
    BY <2>10 DEF Release, ReadOwner
  <2>11. CASE Die(p)
    BY <2>11 DEF Die, Crash, ReusePid
  <2> QED
    BY <2>1, <2>2, <2>3, <2>4, <2>5, <2>6, <2>7, <2>8, <2>9, <2>10, <2>11 DEF LockMoves, Acquire
<1> QED
  BY <1>1, <1>2

\* Type correctness, for every bound and with every kind of failure: every
\* state that acquireRecaptureLock can be in.
THEOREM RecaptureTypeCorrect == Spec => []TypeOK
<1>1. TypeOK /\ RoundBegun /\ [Next]_vars => TypeOK' /\ RoundBegun'
  BY StepTyped
<1> QED
  BY <1>1, InitTyped, PTL DEF Spec

-----------------------------------------------------------------------------
LEMMA InitLease == Init => LeaseInv
<1> SUFFICES ASSUME Init PROVE LeaseInv
  OBVIOUS
<1>1. \A p \in Proc : ~Owns(p) /\ ~Holding(p)
  BY DEF Init, InitLock, Owns, Holding, OwnerLabels
<1>2. NoDirNoFiles /\ VerdictsOnDir /\ judged = {}
  BY DEF Init, InitLock, NoDirNoFiles, VerdictsOnDir
<1> QED
  BY <1>1, <1>2, InitTyped
  DEF LeaseInv, OwnerInv, OneOwner, OwnerHasDir, HolderNamed, WindowEmpty, RemovesOwn,
      ReclaimsUnowned

\* Whoever finds the holder of a directory absent or dead, and does not stray, finds a directory
\* that nobody owns.
LEMMA NoOwnerAtProbe ==
  ASSUME LeaseInv, NEW p \in Proc, ProbeStale(p), ~strayed'
  PROVE  \A q \in Proc : ~Owns(q)
<1> SUFFICES ASSUME NEW q \in Proc, Owns(q) PROVE FALSE
  OBVIOUS
<1>0. ~strayed /\ ~HolderAbsent
  BY DEF ProbeStale, Judges
<1>a. OwnerInv
  BY <1>0 DEF LeaseInv
<1>1. dir /\ life[q] = "up"
  BY <1>a DEF OwnerInv, OwnerHasDir, Owns, Holding
<1>2. CASE info = NoInfo
  <2>1. ~InWindow(q)
    BY <1>0, <1>1, <1>2 DEF HolderAbsent
  <2>2. Holding(q) /\ pc[q] # "idle"
    BY <1>1, <2>1 DEF InWindow, At, Owns, OwnerLabels, Holding
  <2>3. info = MyToken(q) /\ MyToken(q) \in Token
    BY <1>a, <2>2, TokenTyped DEF LeaseInv, OwnerInv, HolderNamed
  <2> QED
    BY <1>2, <2>3, LockAssumption
<1>3. CASE info # NoInfo
  <2>1. info = MyToken(q)
    BY <1>a, <1>3 DEF OwnerInv, Owns, OwnerLabels, Holding, HolderNamed, WindowEmpty, RemovesOwn
  <2>2. HolderLive
    BY <1>1, <1>3, <2>1 DEF HolderLive, isProcessAlive, MyToken
  <2> QED
    BY <2>2 DEF ProbeStale
<1> QED
  BY <1>2, <1>3

\* What the directory holds and what the verdicts are on, whether one has strayed or not.
LEMMA StepDir ==
  ASSUME TypeOK, NoDirNoFiles, VerdictsOnDir, [Next]_vars
  PROVE  NoDirNoFiles' /\ VerdictsOnDir' /\ (strayed => strayed')
<1> USE DEF At, Goto, DirUnchanged, SameVerdicts, Same, NoDirNoFiles, VerdictsOnDir
<1>1. CASE UNCHANGED vars
  BY <1>1 DEF vars, lockVars
<1>2. CASE Next
  <2> PICK p \in Proc : LockMoves(p)
    BY <1>2 DEF Next, LockMoves
  <2>1. CASE Begin(p) \/ TryMkdir(p)
    BY <2>1 DEF Begin, BeginRound, TryMkdir, Mkdir
  <2>2. CASE WriteInfo(p) /\ OpenTmp(p, "open", "publish")
    BY <2>2 DEF WriteInfo, OpenTmp
  <2>3. CASE WriteInfo(p) /\ Publish(p, "publish", "commit")
    <3>1. tmps # {}
      BY <2>3 DEF Publish
    <3> QED
      BY <2>3, <3>1 DEF WriteInfo, Publish
  <2>4. CASE Degrade(p)
    BY <2>4 DEF Degrade, WriteFailed, WriteFails
  <2>5. CASE Remove(p)
    <3>1. CASE Unlink(p)
      BY <3>1 DEF Unlink
    <3>2. ASSUME NEW to \in {"commit", "idle"}, Rmdir(p, to) \/ RmFails(p, to)
          PROVE  NoDirNoFiles' /\ VerdictsOnDir' /\ (strayed => strayed')
      <4>1. CASE Rmdir(p, to)
        BY <4>1 DEF Rmdir
      <4>2. CASE RmFails(p, to)
        BY <4>2 DEF RmFails
      <4> QED
        BY <3>2, <4>1, <4>2
    <3> QED
      BY <2>5, <3>1, <3>2 DEF Remove
  <2>6. CASE Poll(p) \/ Again(p) \/ TimeOut(p) \/ Finish(p)
    BY <2>6 DEF Poll, ProbeLive, Again, TimeOut, Finish
  <2>7. CASE PollStale(p)
    BY <2>7 DEF PollStale, ProbeStale, Judges
  <2>8. CASE ReclaimStale(p)
    BY <2>8 DEF ReclaimStale, Reclaim, Detach
  <2>9. CASE Release(p)
    BY <2>9 DEF Release, ReadOwner
  <2>10. CASE Die(p)
    BY <2>10 DEF Die, Crash, ReusePid
  <2> QED
    BY <2>1, <2>2, <2>3, <2>4, <2>5, <2>6, <2>7, <2>8, <2>9, <2>10 DEF LockMoves, Acquire, WriteInfo
<1> QED
  BY <1>1, <1>2

LEMMA StepOwner ==
  ASSUME LeaseInv, ~strayed, [Next]_vars, ~strayed'
  PROVE  OwnerInv'
<1> USE DEF LeaseInv, OwnerInv, OneOwner, OwnerHasDir, NoDirNoFiles, VerdictsOnDir, HolderNamed,
         WindowEmpty, RemovesOwn, ReclaimsUnowned, MyToken, Owns, OwnerLabels, Holding
<1>1. CASE UNCHANGED vars
  BY <1>1 DEF vars, lockVars
<1>2. CASE Next
  <2> PICK p \in Proc : LockMoves(p)
    BY <1>2 DEF Next, LockMoves
  <2> USE DEF TypeOK, At, Goto, DirUnchanged, SameVerdicts, Same, Enters, Detach
  <2>1. CASE Begin(p)
    BY <2>1 DEF Begin, BeginRound
  <2>2. CASE TryMkdir(p)
    BY <2>2 DEF TryMkdir, Mkdir
  <2>3. CASE WriteInfo(p)
    BY <2>3 DEF WriteInfo, OpenTmp, Publish
  <2>4. CASE Degrade(p)
    BY <2>4 DEF Degrade, WriteFailed, WriteFails
  <2>5. CASE Remove(p)
    <3>1. CASE Unlink(p)
      BY <2>5, <3>1 DEF Remove, Unlink
    <3>2. ASSUME NEW to \in {"commit", "idle"}, to = "commit" => mode[p] = "free",
                 Rmdir(p, to) \/ RmFails(p, to), Same, UNCHANGED mode
          PROVE  OwnerInv'
      BY <3>2 DEF Rmdir, RmFails
    <3>3. CASE mode[p] = "free"
      BY <2>5, <3>1, <3>2, <3>3 DEF Remove
    <3>4. CASE mode[p] # "free"
      BY <2>5, <3>1, <3>2, <3>4 DEF Remove
    <3> QED
      BY <3>3, <3>4
  <2>6. CASE Poll(p)
    BY <2>6 DEF Poll, ProbeLive, Probes
  <2>7. CASE PollStale(p)
    <3>1. \A q \in Proc : ~Owns(q)
      BY <2>7, NoOwnerAtProbe DEF PollStale
    <3>2. \A q \in Proc : ~Owns(q)'
      BY <2>7, <3>1 DEF PollStale
    <3> QED
      BY <3>2
  <2>8. CASE ReclaimStale(p)
    <3>1. dir => p \in judged
      BY <2>8 DEF ReclaimStale, Reclaim
    <3>2. \A q \in Proc : ~Owns(q)
      BY <3>1
    <3>3. \A q \in Proc : ~Owns(q)'
      BY <2>8, <3>2 DEF ReclaimStale, Reclaim
    <3> QED
      BY <3>3
  <2>9. CASE Again(p) \/ TimeOut(p)
    BY <2>9 DEF Again, TimeOut
  <2>10. CASE Finish(p)
    BY <2>10 DEF Finish
  <2>11. CASE Release(p)
    BY <2>11 DEF Release, ReadOwner
  <2>12. CASE Die(p)
    BY <2>12 DEF Die, Crash, ReusePid
  <2> QED
    BY <2>1, <2>2, <2>3, <2>4, <2>5, <2>6, <2>7, <2>8, <2>9, <2>10, <2>11, <2>12 DEF LockMoves,
         Acquire
<1> QED
  BY <1>1, <1>2

LEMMA StepLease ==
  ASSUME LeaseInv, [Next]_vars
  PROVE  LeaseInv'
<1>1. TypeOK' /\ RoundBegun' /\ NoDirNoFiles' /\ VerdictsOnDir' /\ (strayed => strayed')
  BY StepTyped, StepDir DEF LeaseInv
<1>2. ~strayed' => OwnerInv'
  BY <1>1, StepOwner
<1> QED
  BY <1>1, <1>2 DEF LeaseInv

\* A recapture that got the lock keeps it until it lets go, whoever gave up waiting and
\* committed freely meanwhile, and whatever crashed or failed (lockfile.ts:508-557): for any
\* number of processes and recaptures, until a verdict strays.
THEOREM RecaptureLease == Spec => []LeaseIntact
<1>1. LeaseInv => LeaseIntact
  BY DEF LeaseInv, OwnerInv, LeaseIntact, Committing, At, OwnerHasDir, HolderNamed, Owns, Holding
<1>2. LeaseInv /\ [Next]_vars => LeaseInv'
  BY StepLease
<1> QED
  BY <1>1, <1>2, InitLease, PTL DEF Spec

-----------------------------------------------------------------------------
(* ProfileCapture *)

\* Without a marker there are no backups; with one each of its entries still has what is
\* needed to tell its value before the capture, or after it once it is committed.
Marked ==
  /\ marker.phase = "none" => marker = NoMarker
  /\ marker.existed \subseteq marker.entries
  /\ \A f \in File \ marker.entries : backup[f] = NoFile
  /\ \A f \in marker.entries \ marker.existed : backup[f] = NoFile
  /\ marker.phase = "applying" =>
       \A f \in marker.existed : backup[f] # NoFile \/ target[f] # NoFile
  /\ marker.phase = "committed" =>
       \A f \in marker.entries : target[f] # NoFile /\ stage[f] = NoFile

\* A profile that is created has no files before its meta.json.
Born ==
  /\ ~exists => target = Nothing /\ marker = NoMarker
  /\ at \notin {"idle", "mkdir"} => exists
  /\ at = "mkdir" => ~exists
  /\ at = "meta" => target = Nothing /\ marker = NoMarker
  /\ at # "idle" => captures >= 1

\* Before the marker is written a capture has changed no target; it gives up only on a profile that
\* was there before it.
Staging ==
  /\ at \in {"read", "stage", "mark", "discard", "rewrite", "remeta"} => marker = NoMarker
  /\ at \in {"read", "stage"} /\ ~present => target[Meta] # NoFile
  /\ at \in {"discard", "rewrite", "remeta"} => present
  /\ at \in {"stage", "discard", "rewrite", "remeta"} => \A f \in Entries : prior[f] = target[f]
  /\ at \in {"discard", "rewrite"} => todo \subseteq selected
  /\ at = "stage" =>
       Meta \in todo /\ todo \subseteq Entries /\ \A f \in Entries \ todo : stage[f] = captures
  /\ at = "mark" \/ (at = "recover" /\ caller = "commit") =>
       /\ marker = NoMarker /\ target[Meta] # NoFile
       /\ \A f \in Entries : stage[f] = captures

\* While the staged files are put in place, the entries still to be done are untouched and the
\* others hold the values of this capture.
Replacing ==
  /\ at \in {"move", "place", "seal"} =>
       /\ marker.phase = "applying" /\ marker.entries = Entries /\ Meta \in marker.existed
       /\ todo \subseteq Entries /\ (at = "seal" <=> todo = {})
       /\ \A f \in Entries \ todo : target[f] = captures /\ stage[f] = NoFile
       /\ \A f \in todo : stage[f] = captures
       /\ \A f \in todo : f \in marker.existed /\ ~(at = "place" /\ f = First) => backup[f] = NoFile
       /\ at = "move" => First \in marker.existed
       /\ at = "place" /\ First \in marker.existed => backup[First] # NoFile
  /\ at \in {"clean", "unmark"} =>
       /\ marker.phase = "committed" /\ todo \subseteq marker.existed /\ (at = "unmark" <=> todo = {})
       /\ \A f \in File \ todo : backup[f] = NoFile

\* An entry that has its value before the capture back, or that has lost its backup.
Handled(f) ==
  /\ backup[f] = NoFile
  /\ marker.phase = "applying" => (f \in marker.existed <=> target[f] # NoFile)

Recovering ==
  at \in RecoveryLabels =>
    /\ caller \in {"snapshot", "commit"} /\ (caller = "snapshot" => present)
    /\ todo \subseteq marker.entries
    /\ \A f \in marker.entries \ todo : Handled(f)
    /\ at \in {"restore", "unstage"} => marker.phase = "applying" /\ todo # {} /\ caller = "snapshot"
    /\ at = "restore" => backup[Current] # NoFile /\ target[Current] = NoFile
    /\ at = "unstage" => Handled(Current)

\* The entries that the recovery, when it gets to them, needs a backup or a staged file for.
Pending ==
  IF at \in {"restore", "unstage"} THEN todo \ {Current}
  ELSE IF at = "recover" THEN todo ELSE marker.entries

Salvageable ==
  ~recoveryKilled /\ marker.phase = "applying" =>
    \A f \in Pending \intersect marker.existed : backup[f] # NoFile \/ stage[f] # NoFile

Undisturbed == Marked /\ Born /\ Staging /\ Replacing /\ Recovering /\ Salvageable

CaptureInv == CaptureTypeOK /\ (faults = 0 => Undisturbed)

-----------------------------------------------------------------------------
(* The entry a loop does next is one it still has to do. *)

\* A set of numbers that is not empty has a least one.
LEMMA LeastNumber ==
  ASSUME NEW T \in SUBSET Nat, T # {}
  PROVE  \E x \in T : \A y \in T : x <= y
<1>1. PICK x \in T : \A y \in T : ~(<<y, x>> \in OpToRel(<, Nat))
  BY NatLessThanWellFounded, WFMin
<1>2. \A y \in T : ~(y < x)
  BY <1>1 DEF OpToRel
<1> QED
  BY <1>2

\* First is one of the entries to do.
LEMMA MinIn ==
  ASSUME NEW T \in SUBSET File, T # {}
  PROVE  Min(T) \in T /\ \A y \in T : Min(T) <= y
<1>1. \E x \in T : \A y \in T : x <= y
  BY LeastNumber, CaptureAssumption DEF File
<1> QED
  BY <1>1 DEF Min

\* Current is one of the entries to do.
LEMMA MaxIn ==
  ASSUME NEW T \in SUBSET File, T # {}
  PROVE  Max(T) \in T
<1> DEFINE Above == {n \in Nat : \A y \in T : y <= n}
<1>1. Last \in Above
  BY CaptureAssumption DEF File
<1>2. PICK m \in Above : \A n \in Above : m <= n
  BY <1>1, LeastNumber
<1>3. m \in T
  <2> SUFFICES ASSUME m \notin T PROVE FALSE
    OBVIOUS
  <2>1. \A y \in T : y \in Nat /\ y >= 1 /\ y <= m - 1
    BY CaptureAssumption DEF File
  <2>2. m - 1 \in Above
    BY <2>1
  <2> QED
    BY <1>2, <2>2
<1>4. \A y \in T : m >= y
  BY CaptureAssumption DEF File
<1> QED
  BY <1>3, <1>4 DEF Max

\* A capture begins: with a recovery when the profile is there.
LEMMA BeginCaptureKeeps ==
  ASSUME CaptureTypeOK, Undisturbed, NEW live \in SUBSET Creds, BeginCapture(live), ~Fault
  PROVE  Undisturbed' /\ Image' = Image
<1> USE CaptureAssumption DEF CaptureTypeOK, File, Meta, Creds, Value, Put
<1>1. /\ at = "idle" /\ captures' = captures + 1 /\ selected' = live /\ present' = exists
      /\ UNCHANGED <<exists, target, stage, backup, marker, prior, recoveryKilled>>
      /\ exists => at' = "recover" /\ todo' = marker.entries /\ caller' = "snapshot"
      /\ ~exists => at' = "mkdir" /\ todo' = {} /\ caller' = caller
  BY DEF BeginCapture, CallRecovery, Advance, Killed, files
<1>2. Marked'
  BY <1>1 DEF Undisturbed, Marked, NoMarker
<1>3. Born'
  BY <1>1 DEF Undisturbed, Born, Nothing, NoMarker
<1>4. Staging'
  BY <1>1 DEF Undisturbed, Staging, Marked, NoMarker, Entries
<1>5. Replacing'
  BY <1>1 DEF Undisturbed, Replacing, Marked, NoMarker, Entries, First
<1>6. Recovering'
  BY <1>1 DEF Undisturbed, Recovering, RecoveryLabels, Handled, Marked, NoMarker, Current
<1>7. Salvageable'
  BY <1>1 DEF Undisturbed, Salvageable, Pending, Marked, NoMarker, Current
<1>8. Image' = Image
  BY <1>1 DEF Undisturbed, Marked, Image, Effective
<1> QED BY <1>2, <1>3, <1>4, <1>5, <1>6, <1>7, <1>8 DEF Undisturbed

\* The directory of a new profile.
LEMMA CreateDirectoryKeeps ==
  ASSUME CaptureTypeOK, Undisturbed, CreateDirectory, ~Fault
  PROVE  Undisturbed' /\ Image' = Image
<1> USE CaptureAssumption DEF CaptureTypeOK, File, Meta, Creds, Value, Put
<1>1. /\ at = "mkdir" /\ exists' = TRUE /\ UNCHANGED <<target, stage, backup, marker>>
      /\ at' = "meta" /\ todo' = {}
      /\ UNCHANGED <<selected, prior, present, caller, captures, recoveryKilled>>
  BY DEF CreateDirectory, Operation, Sets, Advance, Quiet, Killed, memory, files
<1>2. Marked'
  BY <1>1 DEF Undisturbed, Marked, NoMarker
<1>3. Born'
  BY <1>1 DEF Undisturbed, Born, Nothing, NoMarker
<1>4. Staging'
  BY <1>1 DEF Undisturbed, Staging, Marked, NoMarker, Entries
<1>5. Replacing'
  BY <1>1 DEF Undisturbed, Replacing, Marked, NoMarker, Entries, First
<1>6. Recovering'
  BY <1>1 DEF Undisturbed, Recovering, RecoveryLabels, Handled, Marked, NoMarker, Current
<1>7. Salvageable'
  BY <1>1 DEF Undisturbed, Salvageable, Pending, Marked, NoMarker, Current
<1>8. Image' = Image
  BY <1>1 DEF Undisturbed, Marked, Image, Effective
<1> QED BY <1>2, <1>3, <1>4, <1>5, <1>6, <1>7, <1>8 DEF Undisturbed

\* Its first meta.json.
LEMMA WriteFirstMetaKeeps ==
  ASSUME CaptureTypeOK, Undisturbed, WriteFirstMeta, ~Fault
  PROVE  Undisturbed'
<1> USE CaptureAssumption DEF CaptureTypeOK, File, Meta, Creds, Value, Put
<1>1. /\ at = "meta" /\ target' = Put(target, Meta, 0)
      /\ UNCHANGED <<exists, stage, backup, marker>>
      /\ at' = "read" /\ todo' = {}
      /\ UNCHANGED <<selected, prior, present, caller, captures, recoveryKilled>>
  BY DEF WriteFirstMeta, Operation, Sets, Advance, Quiet, Killed, memory, files
<1>2. Marked'
  BY <1>1 DEF Undisturbed, Marked, NoMarker
<1>3. Born'
  BY <1>1 DEF Undisturbed, Born, Nothing, NoMarker
<1>4. Staging'
  BY <1>1 DEF Undisturbed, Staging, Marked, NoMarker, Entries, Born
<1>5. Replacing'
  BY <1>1 DEF Undisturbed, Replacing, Marked, NoMarker, Entries, First
<1>6. Recovering'
  BY <1>1 DEF Undisturbed, Recovering, RecoveryLabels, Handled, Marked, NoMarker, Current
<1>7. Salvageable'
  BY <1>1 DEF Undisturbed, Salvageable, Pending, Marked, NoMarker, Current
<1> QED BY <1>2, <1>3, <1>4, <1>5, <1>6, <1>7 DEF Undisturbed

\* The values are read that a rollback would need.
LEMMA ReadPriorKeeps ==
  ASSUME CaptureTypeOK, Undisturbed, ReadPrior, ~Fault
  PROVE  Undisturbed' /\ Image' = Image
<1> USE CaptureAssumption DEF CaptureTypeOK, File, Meta, Creds, Value, Put
<1>1. /\ at = "read" /\ at' = "stage" /\ todo' = Entries
      /\ UNCHANGED <<exists, target, stage, backup, marker, selected, present, caller, captures, recoveryKilled>>
      /\ prior' = [f \in File |-> IF f \in Entries THEN target[f] ELSE NoFile]
  BY DEF ReadPrior, Advance, Killed, files
<1>2. Marked'
  BY <1>1 DEF Undisturbed, Marked, NoMarker
<1>3. Born'
  BY <1>1 DEF Undisturbed, Born, Nothing, NoMarker
<1>4. Staging'
  BY <1>1 DEF Undisturbed, Staging, Marked, NoMarker, Entries
<1>5. Replacing'
  BY <1>1 DEF Undisturbed, Replacing, Marked, NoMarker, Entries, First
<1>6. Recovering'
  BY <1>1 DEF Undisturbed, Recovering, RecoveryLabels, Handled, Marked, NoMarker, Current
<1>7. Salvageable'
  BY <1>1 DEF Undisturbed, Salvageable, Pending, Marked, NoMarker, Current
<1>8. Image' = Image
  BY <1>1 DEF Undisturbed, Marked, Image, Effective
<1> QED BY <1>2, <1>3, <1>4, <1>5, <1>6, <1>7, <1>8 DEF Undisturbed

\* A live value, or meta.json at last, is staged; or there is no meta.json and the capture gives up.
LEMMA StageFileKeeps ==
  ASSUME CaptureTypeOK, Undisturbed, StageFile, ~Fault
  PROVE  Undisturbed' /\ Image' = Image
<1> USE CaptureAssumption DEF CaptureTypeOK, File, Meta, Creds, Value, Put
<1>1. /\ at = "stage"
      /\ UNCHANGED <<exists, target, backup, marker, selected, prior, present, captures, recoveryKilled>>
      /\ \/ /\ First = Meta /\ target[Meta] = NoFile
            /\ at' = "discard" /\ todo' = selected /\ UNCHANGED <<stage, caller>>
         \/ /\ First = Meta /\ target[Meta] # NoFile /\ stage' = Put(stage, First, captures)
            /\ at' = "recover" /\ todo' = marker.entries /\ caller' = "commit"
         \/ /\ First # Meta /\ stage' = Put(stage, First, captures)
            /\ at' = "stage" /\ todo' = todo \ {First} /\ UNCHANGED caller
  BY DEF StageFile, Operation, Sets, Advance, Quiet, Killed, memory, files, CallRecovery, Throw,
       RecoveryLabels, CommitLabels
<1>2. /\ First \in todo /\ First \in File /\ \A g \in todo : First <= g
  BY <1>1, MinIn DEF First, Undisturbed, Replacing, Staging
<1>3. First = Meta => todo = {Meta}
  <2> SUFFICES ASSUME First = Meta PROVE todo = {Meta}
    OBVIOUS
  <2>1. \A g \in todo : g \in 1..Last /\ First <= g
    BY <1>2
  <2>2. \A g \in todo : g = Meta
    BY <2>1
  <2> QED BY <1>2, <2>2
<1>4. marker = NoMarker /\ todo \subseteq Entries /\ Meta \in todo
  BY <1>1 DEF Undisturbed, Staging
<1>5. /\ Entries \subseteq File /\ \A f \in Entries \ todo : stage[f] = captures
      /\ \A f \in Entries : prior[f] = target[f]
  BY <1>1 DEF Undisturbed, Staging, Entries
<1>6. stage' = Put(stage, First, captures) => \A f \in Entries \ (todo \ {First}) : stage'[f] = captures
  <2> HIDE DEF Entries
  <2> QED BY <1>2, <1>5
<1>7. Marked'
  BY <1>1, <1>2, <1>3, <1>4, <1>5, <1>6 DEF Undisturbed, Marked, NoMarker
<1>8. Born'
  BY <1>1, <1>2, <1>3, <1>4, <1>5, <1>6 DEF Undisturbed, Born, Nothing, NoMarker
<1>9. Staging'
  <2>1. CASE at' = "discard"
    BY <1>1, <1>2, <1>3, <1>4, <1>5, <1>6, <2>1 DEF Undisturbed, Staging, Entries
  <2>2. CASE at' = "recover"
    BY <1>1, <1>2, <1>3, <1>4, <1>5, <1>6, <2>2 DEF Undisturbed, Staging, Entries
  <2>3. CASE at' = "stage"
    BY <1>1, <1>2, <1>3, <1>4, <1>5, <1>6, <2>3 DEF Undisturbed, Staging, Entries
  <2> QED BY <1>1, <2>1, <2>2, <2>3
<1>10. Replacing'
  BY <1>1, <1>2, <1>3, <1>4, <1>5, <1>6 DEF Undisturbed, Replacing, Marked, NoMarker, Entries,
       First
<1>11. Recovering'
  BY <1>1, <1>2, <1>3, <1>4, <1>5, <1>6 DEF Undisturbed, Recovering, RecoveryLabels, Handled,
       Marked, NoMarker, Current
<1>12. Salvageable'
  BY <1>1, <1>2, <1>3, <1>4, <1>5, <1>6 DEF Undisturbed, Salvageable, Pending, Marked, NoMarker,
       Current
<1>13. Image' = Image
  BY <1>1, <1>2, <1>3, <1>4, <1>5, <1>6 DEF Undisturbed, Marked, Image, Effective
<1> QED BY <1>7, <1>8, <1>9, <1>10, <1>11, <1>12, <1>13 DEF Undisturbed

\* The marker names the entries, and those that have a value.
LEMMA WriteMarkerKeeps ==
  ASSUME CaptureTypeOK, Undisturbed, WriteMarker, ~Fault
  PROVE  Undisturbed' /\ Image' = Image
<1> USE CaptureAssumption DEF CaptureTypeOK, File, Meta, Creds, Value, Put
<1>1. /\ at = "mark" /\ UNCHANGED <<exists, target, stage, backup>>
      /\ marker' = [phase |-> "applying", entries |-> Entries, existed |-> Existing]
      /\ at' \in {"move", "place"} /\ todo' = Entries
      /\ UNCHANGED <<selected, prior, present, caller, captures, recoveryKilled>>
      /\ at' = "move" <=> Min(Entries) \in Existing
  BY DEF WriteMarker, Operation, Sets, Advance, Quiet, Killed, memory, files, MoveOrPlace, Entries
<1>2. Entries \subseteq File /\ Meta \in Entries /\ Min(Entries) \in Entries
  <2>1. Entries \in SUBSET File /\ Meta \in Entries
    BY DEF Entries
  <2> HIDE DEF Entries
  <2> QED BY <2>1, MinIn
<1>3. /\ marker = NoMarker /\ target[Meta] # NoFile
      /\ \A f \in Entries : stage[f] = captures
  BY <1>1 DEF Undisturbed, Staging
<1>4. \A f \in File : backup[f] = NoFile
  BY <1>3 DEF Undisturbed, Marked, NoMarker
<1>5. Marked'
  BY <1>1, <1>2, <1>3, <1>4 DEF Undisturbed, Marked, NoMarker, Existing
<1>6. Born'
  BY <1>1, <1>2, <1>3, <1>4 DEF Undisturbed, Born, Nothing, NoMarker
<1>7. Staging'
  BY <1>1, <1>2, <1>3, <1>4 DEF Undisturbed, Staging, Marked, NoMarker, Entries
<1>8. Replacing'
  BY <1>1, <1>2, <1>3, <1>4 DEF Undisturbed, Replacing, Marked, NoMarker, Entries, First,
       Existing
<1>9. Recovering'
  BY <1>1, <1>2, <1>3, <1>4 DEF Undisturbed, Recovering, RecoveryLabels, Handled, Marked,
       NoMarker, Current
<1>10. Salvageable'
  BY <1>1, <1>2, <1>3, <1>4 DEF Undisturbed, Salvageable, Pending, Marked, NoMarker, Current,
       Existing
<1>11. Image' = Image
  BY <1>1, <1>2, <1>3, <1>4 DEF Undisturbed, Marked, Image, Effective, Existing, NoMarker
<1> QED BY <1>5, <1>6, <1>7, <1>8, <1>9, <1>10, <1>11 DEF Undisturbed

\* The value of an entry goes to its backup.
LEMMA MoveToBackupKeeps ==
  ASSUME CaptureTypeOK, Undisturbed, MoveToBackup, ~Fault
  PROVE  Undisturbed' /\ Image' = Image
<1> USE CaptureAssumption DEF CaptureTypeOK, File, Meta, Creds, Value, Put
<1>1. /\ at = "move" /\ target' = Put(target, First, NoFile)
      /\ backup' = Put(backup, First, target[First])
      /\ UNCHANGED <<exists, stage, marker>> /\ at' = "place" /\ todo' = todo
      /\ UNCHANGED <<selected, prior, present, caller, captures, recoveryKilled>>
  BY DEF MoveToBackup, Operation, Sets, Advance, Quiet, Killed, memory, files, First
<1>2. /\ First \in todo /\ First \in File /\ \A g \in todo : First <= g
  BY <1>1, MinIn DEF First, Undisturbed, Replacing, Staging
<1>3. First \in marker.existed /\ backup[First] = NoFile /\ target[First] # NoFile /\ marker.phase = "applying"
  BY <1>1, <1>2 DEF Undisturbed, Replacing, Marked
<1>4. First' = First
  BY <1>1 DEF First
<1>5. Marked'
  BY <1>1, <1>2, <1>3, <1>4 DEF Undisturbed, Marked, NoMarker
<1>6. Born'
  BY <1>1, <1>2, <1>3, <1>4 DEF Undisturbed, Born, Nothing, NoMarker
<1>7. Staging'
  BY <1>1, <1>2, <1>3, <1>4 DEF Undisturbed, Staging, Marked, NoMarker, Entries
<1>8. Replacing'
  BY <1>1, <1>2, <1>3, <1>4 DEF Undisturbed, Replacing, Marked, NoMarker, Entries, First
<1>9. Recovering'
  BY <1>1, <1>2, <1>3, <1>4 DEF Undisturbed, Recovering, RecoveryLabels, Handled, Marked,
       NoMarker, Current
<1>10. Salvageable'
  BY <1>1, <1>2, <1>3, <1>4 DEF Undisturbed, Salvageable, Pending, Marked, NoMarker, Current
<1>11. Image' = Image
  BY <1>1, <1>2, <1>3, <1>4 DEF Undisturbed, Marked, Image, Effective
<1> QED BY <1>5, <1>6, <1>7, <1>8, <1>9, <1>10, <1>11 DEF Undisturbed

\* Its staged file takes its place.
LEMMA PlaceStagedKeeps ==
  ASSUME CaptureTypeOK, Undisturbed, PlaceStaged, ~Fault
  PROVE  Undisturbed' /\ Image' = Image
<1> USE CaptureAssumption DEF CaptureTypeOK, File, Meta, Creds, Value, Put
<1>1. /\ at = "place" /\ target' = Put(target, First, stage[First])
      /\ stage' = Put(stage, First, NoFile)
      /\ UNCHANGED <<exists, backup, marker>> /\ todo' = todo \ {First}
      /\ UNCHANGED <<selected, prior, present, caller, captures, recoveryKilled>>
      /\ todo' = {} => at' = "seal"
      /\ todo' # {} => at' \in {"move", "place"} /\ (at' = "move" <=> First' \in marker.existed)
  BY DEF PlaceStaged, Operation, Sets, Advance, Quiet, Killed, memory, files, First, MoveOrPlace
<1>2. /\ First \in todo /\ First \in File /\ \A g \in todo : First <= g
  BY <1>1, MinIn DEF First, Undisturbed, Replacing, Staging
<1>3. /\ marker.phase = "applying" /\ stage[First] = captures /\ captures # NoFile
      /\ First \in marker.entries
      /\ First \in Entries
      /\ First \in marker.existed => backup[First] # NoFile
  BY <1>1, <1>2 DEF Undisturbed, Replacing, Marked
<1>4. todo' # {} => First' \in todo'
  BY <1>1, <1>2, MinIn DEF First
<1>5. \A f \in File : /\ target'[f] = (IF f = First THEN captures ELSE target[f])
                         /\ stage'[f] = (IF f = First THEN NoFile ELSE stage[f])
  <2>1. target \in [1..Last -> Value] /\ stage \in [1..Last -> Value]
    OBVIOUS
  <2>2. /\ target' = [target EXCEPT ![First] = captures]
        /\ stage' = [stage EXCEPT ![First] = NoFile]
    BY <1>1, <1>3
  <2> QED BY <1>2, <2>1, <2>2
<1>6. Marked'
  BY <1>1, <1>2, <1>3, <1>5 DEF Undisturbed, Marked, NoMarker
<1>7. Born'
  BY <1>1, <1>2, <1>3, <1>4, <1>5 DEF Undisturbed, Born, Nothing, NoMarker
<1>8. Staging'
  BY <1>1, <1>2, <1>3, <1>4, <1>5 DEF Undisturbed, Staging, Marked, NoMarker, Entries
<1>9. Replacing'
  <2>1. /\ marker.entries = Entries /\ Meta \in marker.existed /\ todo \subseteq Entries
        /\ \A f \in Entries \ todo : target[f] = captures /\ stage[f] = NoFile
        /\ \A f \in todo : stage[f] = captures
        /\ \A f \in todo : f \in marker.existed /\ f # First => backup[f] = NoFile
    BY <1>1 DEF Undisturbed, Replacing
  <2>2. Entries' = Entries /\ Entries \subseteq File
    BY <1>1 DEF Entries
  <2>3. todo' \subseteq Entries /\ \A f \in Entries \ todo' : target'[f] = captures /\ stage'[f] = NoFile
    BY <1>1, <1>3, <1>5, <2>1, <2>2
  <2>4. \A f \in todo' : stage'[f] = captures /\ (f \in marker.existed => backup[f] = NoFile)
    BY <1>1, <1>5, <2>1, <2>2
  <2>8. /\ marker'.phase = "applying" /\ marker'.entries = Entries' /\ Meta \in marker'.existed
        /\ UNCHANGED <<marker, backup, captures>>
    BY <1>1, <1>3, <2>1, <2>2
  <2> HIDE DEF Put, CaptureTypeOK, File
  <2>5. CASE todo' = {}
    BY <1>1, <2>2, <2>3, <2>5, <2>8 DEF Replacing
  <2>6. CASE todo' # {} /\ First' \in marker.existed
    BY <1>1, <1>4, <2>2, <2>3, <2>4, <2>6, <2>8 DEF Replacing
  <2>7. CASE todo' # {} /\ First' \notin marker.existed
    BY <1>1, <1>4, <2>2, <2>3, <2>4, <2>7, <2>8 DEF Replacing
  <2> QED BY <2>5, <2>6, <2>7
<1>10. Recovering'
  BY <1>1, <1>2, <1>3, <1>4, <1>5 DEF Undisturbed, Recovering, RecoveryLabels, Handled, Marked,
       NoMarker, Current
<1>11. Salvageable'
  <2> HIDE DEF Put
  <2> QED BY <1>1, <1>2, <1>3, <1>5 DEF Undisturbed, Salvageable, Pending, RecoveryLabels
<1>12. Image' = Image
  BY <1>1, <1>2, <1>3, <1>4, <1>5 DEF Undisturbed, Marked, Image, Effective
<1> QED BY <1>6, <1>7, <1>8, <1>9, <1>10, <1>11, <1>12 DEF Undisturbed

\* The commit point.
LEMMA SealMarkerKeeps ==
  ASSUME CaptureTypeOK, Undisturbed, SealMarker, ~Fault
  PROVE  Undisturbed'
<1> USE CaptureAssumption DEF CaptureTypeOK, File, Meta, Creds, Value, Put
<1>1. /\ at = "seal" /\ marker' = [marker EXCEPT !.phase = "committed"]
      /\ UNCHANGED <<exists, target, stage, backup>>
      /\ at' = "clean" /\ todo' = marker.existed
      /\ UNCHANGED <<selected, prior, present, caller, captures, recoveryKilled>>
  BY DEF SealMarker, Operation, Sets, Advance, Quiet, Killed, memory, files
<1>2. /\ marker.phase = "applying" /\ marker.entries = Entries /\ Meta \in marker.existed
      /\ todo = {} /\ \A f \in Entries : target[f] = captures /\ stage[f] = NoFile
  BY <1>1 DEF Undisturbed, Replacing
<1>3. captures # NoFile
  OBVIOUS
<1>4. Marked'
  BY <1>1, <1>2, <1>3 DEF Undisturbed, Marked, NoMarker
<1>5. Born'
  BY <1>1, <1>2, <1>3 DEF Undisturbed, Born, Nothing, NoMarker
<1>6. Staging'
  BY <1>1, <1>2, <1>3 DEF Undisturbed, Staging, Marked, NoMarker, Entries
<1>7. Replacing'
  BY <1>1, <1>2, <1>3 DEF Undisturbed, Replacing, Marked, NoMarker, Entries, First
<1>8. Recovering'
  BY <1>1, <1>2, <1>3 DEF Undisturbed, Recovering, RecoveryLabels, Handled, Marked, NoMarker,
       Current
<1>9. Salvageable'
  BY <1>1, <1>2, <1>3 DEF Undisturbed, Salvageable, Pending, Marked, NoMarker, Current
<1> QED BY <1>4, <1>5, <1>6, <1>7, <1>8, <1>9 DEF Undisturbed

\* The backups go away.
LEMMA CleanBackupKeeps ==
  ASSUME CaptureTypeOK, Undisturbed, CleanBackup, ~Fault
  PROVE  Undisturbed' /\ Image' = Image
<1> USE CaptureAssumption DEF CaptureTypeOK, File, Meta, Creds, Value, Put
<1>1. /\ at = "clean" /\ backup' = Put(backup, First, NoFile)
      /\ UNCHANGED <<exists, target, stage, marker>>
      /\ at' = (IF todo = {First} THEN "unmark" ELSE "clean") /\ todo' = todo \ {First}
      /\ UNCHANGED <<selected, prior, present, caller, captures, recoveryKilled>>
  BY DEF CleanBackup, Operation, Sets, Advance, Quiet, Killed, memory, files, First
<1>2. /\ First \in todo /\ First \in File /\ \A g \in todo : First <= g
  BY <1>1, MinIn DEF First, Undisturbed, Replacing, Staging
<1>3. marker.phase = "committed"
  BY <1>1 DEF Undisturbed, Replacing
<1>4. Marked'
  BY <1>1, <1>2, <1>3 DEF Undisturbed, Marked, NoMarker
<1>5. Born'
  BY <1>1, <1>2, <1>3 DEF Undisturbed, Born, Nothing, NoMarker
<1>6. Staging'
  BY <1>1, <1>2, <1>3 DEF Undisturbed, Staging, Marked, NoMarker, Entries
<1>7. Replacing'
  BY <1>1, <1>2, <1>3 DEF Undisturbed, Replacing, Marked, NoMarker, Entries, First
<1>8. Recovering'
  BY <1>1, <1>2, <1>3 DEF Undisturbed, Recovering, RecoveryLabels, Handled, Marked, NoMarker,
       Current
<1>9. Salvageable'
  BY <1>1, <1>2, <1>3 DEF Undisturbed, Salvageable, Pending, Marked, NoMarker, Current
<1>10. Image' = Image
  BY <1>1, <1>2, <1>3 DEF Undisturbed, Marked, Image, Effective
<1> QED BY <1>4, <1>5, <1>6, <1>7, <1>8, <1>9, <1>10 DEF Undisturbed

\* The marker goes away.
LEMMA UnmarkKeeps ==
  ASSUME CaptureTypeOK, Undisturbed, Unmark, ~Fault
  PROVE  Undisturbed' /\ Image' = Image
<1> USE CaptureAssumption DEF CaptureTypeOK, File, Meta, Creds, Value, Put
<1>1. /\ at = "unmark" /\ marker' = NoMarker /\ UNCHANGED <<exists, target, stage, backup>>
      /\ at' = "idle" /\ todo' = {}
      /\ UNCHANGED <<selected, prior, present, caller, captures, recoveryKilled>>
  BY DEF Unmark, Operation, Sets, Advance, Quiet, Killed, memory, files, End
<1>2. marker.phase = "committed" /\ todo = {} /\ \A f \in File : backup[f] = NoFile
  BY <1>1 DEF Undisturbed, Replacing
<1>3. Marked'
  BY <1>1, <1>2 DEF Undisturbed, Marked, NoMarker
<1>4. Born'
  BY <1>1, <1>2 DEF Undisturbed, Born, Nothing, NoMarker
<1>5. Staging'
  BY <1>1, <1>2 DEF Undisturbed, Staging, Marked, NoMarker, Entries
<1>6. Replacing'
  BY <1>1, <1>2 DEF Undisturbed, Replacing, Marked, NoMarker, Entries, First
<1>7. Recovering'
  BY <1>1, <1>2 DEF Undisturbed, Recovering, RecoveryLabels, Handled, Marked, NoMarker, Current
<1>8. Salvageable'
  BY <1>1, <1>2 DEF Undisturbed, Salvageable, Pending, Marked, NoMarker, Current
<1>9. Image' = Image
  BY <1>1, <1>2 DEF Undisturbed, Marked, Image, Effective, NoMarker
<1> QED BY <1>3, <1>4, <1>5, <1>6, <1>7, <1>8, <1>9 DEF Undisturbed

\* There is nothing to recover.
LEMMA NoMarkerFoundKeeps ==
  ASSUME CaptureTypeOK, Undisturbed, NoMarkerFound, ~Fault
  PROVE  Undisturbed' /\ Image' = Image
<1> USE CaptureAssumption DEF CaptureTypeOK, File, Meta, Creds, Value, Put
<1>1. /\ at = "recover" /\ marker = NoMarker /\ UNCHANGED <<exists, target, stage, backup, marker>>
      /\ todo' = {} /\ UNCHANGED <<selected, prior, present, caller, captures, recoveryKilled>>
      /\ caller = "snapshot" => at' = "read"
      /\ caller = "commit" => at' = "mark"
      /\ caller \in {"snapshot", "commit"}
  BY DEF NoMarkerFound, Operation, Sets, Advance, Quiet, Killed, memory, files, RecoveryReturns,
       Undisturbed, Recovering, RecoveryLabels
<1>2. Marked'
  BY <1>1 DEF Undisturbed, Marked, NoMarker
<1>3. Born'
  BY <1>1 DEF Undisturbed, Born, Nothing, NoMarker
<1>4. Staging'
  BY <1>1 DEF Undisturbed, Staging, Marked, NoMarker, Entries, Recovering, RecoveryLabels
<1>5. Replacing'
  BY <1>1 DEF Undisturbed, Replacing, Marked, NoMarker, Entries, First
<1>6. Recovering'
  BY <1>1 DEF Undisturbed, Recovering, RecoveryLabels, Handled, Marked, NoMarker, Current
<1>7. Salvageable'
  BY <1>1 DEF Undisturbed, Salvageable, Pending, Marked, NoMarker, Current
<1>8. Image' = Image
  BY <1>1 DEF Undisturbed, Marked, Image, Effective
<1> QED BY <1>2, <1>3, <1>4, <1>5, <1>6, <1>7, <1>8 DEF Undisturbed

\* A committed entry loses its backup.
LEMMA RecoverCommittedKeeps ==
  ASSUME CaptureTypeOK, Undisturbed, RecoverCommitted, ~Fault
  PROVE  Undisturbed' /\ Image' = Image
<1> USE CaptureAssumption DEF CaptureTypeOK, File, Meta, Creds, Value, Put
<1>0. /\ at = "recover" /\ marker.phase = "committed" /\ todo # {}
      /\ target[Current] # NoFile /\ stage[Current] = NoFile /\ Current \in File
      /\ backup[Current] # NoFile => Current \in marker.existed
  BY MaxIn DEF RecoverCommitted, Undisturbed, Recovering, RecoveryLabels, Marked, Current
<1>1. /\ at = "recover" /\ marker.phase = "committed" /\ todo # {}
      /\ backup' = Put(backup, Current, NoFile) /\ UNCHANGED <<exists, target, stage, marker>>
      /\ at' = "recover" /\ todo' = todo \ {Current}
      /\ UNCHANGED <<selected, prior, present, caller, captures, recoveryKilled>>
  BY <1>0 DEF RecoverCommitted, Operation, Sets, Advance, Quiet, Killed, memory, files, IfAny,
       AfterEntry
<1>2. Current \in todo /\ Current \in File
  BY <1>1, MaxIn DEF Current
<1>3. Marked'
  BY <1>1, <1>2 DEF Undisturbed, Marked, NoMarker
<1>4. Born'
  BY <1>1, <1>2 DEF Undisturbed, Born, Nothing, NoMarker
<1>5. Staging'
  BY <1>1, <1>2 DEF Undisturbed, Staging, Marked, NoMarker, Entries
<1>6. Replacing'
  BY <1>1, <1>2 DEF Undisturbed, Replacing, Marked, NoMarker, Entries, First
<1>7. Recovering'
  BY <1>1, <1>2 DEF Undisturbed, Recovering, RecoveryLabels, Handled, Marked, NoMarker, Current
<1>8. Salvageable'
  BY <1>1, <1>2 DEF Undisturbed, Salvageable, Pending, Marked, NoMarker, Current
<1>9. Image' = Image
  BY <1>1, <1>2 DEF Undisturbed, Marked, Image, Effective
<1> QED BY <1>3, <1>4, <1>5, <1>6, <1>7, <1>8, <1>9 DEF Undisturbed

\* An entry of an interrupted capture: its target is cleared when it has a backup or did not
\* exist, and it is refused when nothing is left of it.
LEMMA RecoverApplyingKeeps ==
  ASSUME CaptureTypeOK, Undisturbed, RecoverApplying, ~Fault
  PROVE  Undisturbed' /\ Image' = Image
<1> USE CaptureAssumption DEF CaptureTypeOK, File, Meta, Creds, Value, Put
<1>0. /\ at = "recover" /\ caller = "snapshot" /\ marker.phase = "applying" /\ Current \in File
  <2>1. at = "recover" /\ marker.phase = "applying" /\ todo # {}
    BY DEF RecoverApplying
  <2>2. Current \in File
    BY <2>1, MaxIn DEF Current
  <2> QED
    BY <2>1, <2>2 DEF Undisturbed, Recovering, RecoveryLabels, Staging, NoMarker
<1>1. /\ at = "recover" /\ marker.phase = "applying" /\ todo # {}
      /\ UNCHANGED <<exists, stage, backup, marker>>
      /\ UNCHANGED <<selected, prior, present, caller, captures, recoveryKilled>>
      /\ \/ /\ backup[Current] # NoFile /\ target' = Put(target, Current, NoFile)
            /\ at' = "restore" /\ todo' = todo
         \/ /\ backup[Current] = NoFile /\ Current \notin marker.existed
            /\ target' = Put(target, Current, NoFile) /\ at' = "unstage" /\ todo' = todo
         \/ /\ backup[Current] = NoFile /\ Current \in marker.existed /\ stage[Current] # NoFile
            /\ UNCHANGED target /\ at' = "unstage" /\ todo' = todo
         \/ /\ backup[Current] = NoFile /\ Current \in marker.existed /\ stage[Current] = NoFile
            /\ UNCHANGED target /\ at' = "idle" /\ todo' = {}
  BY <1>0 DEF RecoverApplying, Operation, Sets, Advance, Quiet, Killed, memory, files,
       RecoveryThrows, End
<1>2. Current \in todo /\ Current \in File
  BY <1>1, MaxIn DEF Current
<1>3. todo' = todo => Current' = Current
  BY DEF Current
<1>4. Current \in marker.entries /\ caller = "snapshot"
  BY <1>1, <1>2 DEF Undisturbed, Recovering, RecoveryLabels, Staging, NoMarker
<1>5. Marked'
  BY <1>1, <1>2, <1>3, <1>4 DEF Undisturbed, Marked, NoMarker
<1>6. Born'
  BY <1>1, <1>2, <1>3, <1>4 DEF Undisturbed, Born, Nothing, NoMarker
<1>7. Staging'
  BY <1>1, <1>2, <1>3, <1>4 DEF Undisturbed, Staging, Marked, NoMarker, Entries
<1>8. Replacing'
  BY <1>1, <1>2, <1>3, <1>4 DEF Undisturbed, Replacing, Marked, NoMarker, Entries, First
<1>9. Recovering'
  BY <1>1, <1>2, <1>3, <1>4 DEF Undisturbed, Recovering, RecoveryLabels, Handled, Marked,
       NoMarker, Current
<1>10. Salvageable'
  BY <1>1, <1>2, <1>3, <1>4 DEF Undisturbed, Salvageable, Pending, Marked, NoMarker, Current
<1>11. Image' = Image
  BY <1>1, <1>2, <1>3, <1>4 DEF Undisturbed, Marked, Image, Effective
<1> QED BY <1>5, <1>6, <1>7, <1>8, <1>9, <1>10, <1>11 DEF Undisturbed

\* The backup takes its place again.
LEMMA RestoreBackupKeeps ==
  ASSUME CaptureTypeOK, Undisturbed, RestoreBackup, ~Fault
  PROVE  Undisturbed' /\ Image' = Image
<1> USE CaptureAssumption DEF CaptureTypeOK, File, Meta, Creds, Value, Put
<1>1. /\ at = "restore" /\ target' = Put(target, Current, backup[Current])
      /\ backup' = Put(backup, Current, NoFile)
      /\ UNCHANGED <<exists, stage, marker>> /\ at' = "unstage" /\ todo' = todo
      /\ UNCHANGED <<selected, prior, present, caller, captures, recoveryKilled>>
  BY DEF RestoreBackup, Operation, Sets, Advance, Quiet, Killed, memory, files, Current
<1>2. /\ marker.phase = "applying" /\ todo # {} /\ todo \subseteq marker.entries
      /\ backup[Current] # NoFile
  BY <1>1 DEF Undisturbed, Recovering, RecoveryLabels
<1>3. Current \in todo /\ Current \in File
  BY <1>2, MaxIn DEF Current
<1>4. Current' = Current
  BY <1>1 DEF Current
<1>5. Current \in marker.existed
  BY <1>2, <1>3 DEF Undisturbed, Marked
<1>6. Marked'
  BY <1>1, <1>2, <1>3, <1>4, <1>5 DEF Undisturbed, Marked, NoMarker
<1>7. Born'
  BY <1>1, <1>2, <1>3, <1>4, <1>5 DEF Undisturbed, Born, Nothing, NoMarker
<1>8. Staging'
  BY <1>1, <1>2, <1>3, <1>4, <1>5 DEF Undisturbed, Staging, Marked, NoMarker, Entries
<1>9. Replacing'
  BY <1>1, <1>2, <1>3, <1>4, <1>5 DEF Undisturbed, Replacing, Marked, NoMarker, Entries, First
<1>10. Recovering'
  BY <1>1, <1>2, <1>3, <1>4, <1>5 DEF Undisturbed, Recovering, RecoveryLabels, Handled, Marked,
       NoMarker, Current
<1>11. Salvageable'
  BY <1>1, <1>2, <1>3, <1>4, <1>5 DEF Undisturbed, Salvageable, Pending, Marked, NoMarker, Current
<1>12. Image' = Image
  BY <1>1, <1>2, <1>3, <1>4, <1>5 DEF Undisturbed, Marked, Image, Effective
<1> QED BY <1>6, <1>7, <1>8, <1>9, <1>10, <1>11, <1>12 DEF Undisturbed

\* Its staged file goes away.
LEMMA RemoveStageKeeps ==
  ASSUME CaptureTypeOK, Undisturbed, RemoveStage, ~Fault
  PROVE  Undisturbed' /\ Image' = Image
<1> USE CaptureAssumption DEF CaptureTypeOK, File, Meta, Creds, Value, Put
<1>1. /\ at = "unstage" /\ stage' = Put(stage, Current, NoFile)
      /\ UNCHANGED <<exists, target, backup, marker>>
      /\ at' = "recover" /\ todo' = todo \ {Current}
      /\ UNCHANGED <<selected, prior, present, caller, captures, recoveryKilled>>
  BY DEF RemoveStage, Operation, Sets, Advance, Quiet, Killed, memory, files, IfAny, AfterEntry
<1>2. /\ marker.phase = "applying" /\ todo # {} /\ todo \subseteq marker.entries
      /\ Handled(Current) /\ caller = "snapshot"
  BY <1>1 DEF Undisturbed, Recovering, RecoveryLabels
<1>3. Current \in todo /\ Current \in File
  BY <1>2, MaxIn DEF Current
<1>4. Marked'
  BY <1>1, <1>2, <1>3 DEF Undisturbed, Marked, NoMarker
<1>5. Born'
  BY <1>1, <1>2, <1>3 DEF Undisturbed, Born, Nothing, NoMarker
<1>6. Staging'
  BY <1>1, <1>2, <1>3 DEF Undisturbed, Staging, Marked, NoMarker, Entries
<1>7. Replacing'
  BY <1>1, <1>2, <1>3 DEF Undisturbed, Replacing, Marked, NoMarker, Entries, First
<1>8. Recovering'
  BY <1>1, <1>2, <1>3 DEF Undisturbed, Recovering, RecoveryLabels, Handled, Marked, NoMarker,
       Current
<1>9. Salvageable'
  BY <1>1, <1>2, <1>3 DEF Undisturbed, Salvageable, Pending, Marked, NoMarker, Current
<1>10. Image' = Image
  BY <1>1, <1>2, <1>3 DEF Undisturbed, Marked, Image, Effective
<1> QED BY <1>4, <1>5, <1>6, <1>7, <1>8, <1>9, <1>10 DEF Undisturbed

\* The recovery is done.
LEMMA RemoveMarkerKeeps ==
  ASSUME CaptureTypeOK, Undisturbed, RemoveMarker, ~Fault
  PROVE  Undisturbed' /\ Image' = Image
<1> USE CaptureAssumption DEF CaptureTypeOK, File, Meta, Creds, Value, Put
<1>1. /\ at = "recover" /\ marker # NoMarker /\ todo = {} /\ marker' = NoMarker
      /\ caller = "snapshot"
      /\ UNCHANGED <<exists, target, stage, backup>> /\ at' = "read" /\ todo' = {}
      /\ UNCHANGED <<selected, prior, present, caller, captures, recoveryKilled>>
  BY DEF RemoveMarker, Operation, Sets, Advance, Quiet, Killed, memory, files, RecoveryReturns,
       Undisturbed, Recovering, RecoveryLabels, Staging
<1>2. present /\ \A f \in marker.entries : Handled(f)
  BY <1>1 DEF Undisturbed, Recovering, RecoveryLabels
<1>3. \A f \in File : backup[f] = NoFile
  BY <1>2 DEF Undisturbed, Marked, Handled
<1>4. Marked'
  BY <1>1, <1>2, <1>3 DEF Undisturbed, Marked, NoMarker
<1>5. Born'
  BY <1>1, <1>2, <1>3 DEF Undisturbed, Born, Nothing, NoMarker
<1>6. Staging'
  BY <1>1, <1>2, <1>3 DEF Undisturbed, Staging, Marked, NoMarker, Entries
<1>7. Replacing'
  BY <1>1, <1>2, <1>3 DEF Undisturbed, Replacing, Marked, NoMarker, Entries, First
<1>8. Recovering'
  BY <1>1, <1>2, <1>3 DEF Undisturbed, Recovering, RecoveryLabels, Handled, Marked, NoMarker,
       Current
<1>9. Salvageable'
  BY <1>1, <1>2, <1>3 DEF Undisturbed, Salvageable, Pending, Marked, NoMarker, Current
<1>10. Image' = Image
  BY <1>1, <1>2, <1>3 DEF Undisturbed, Marked, Image, Effective, NoMarker, Handled
<1> QED BY <1>4, <1>5, <1>6, <1>7, <1>8, <1>9, <1>10 DEF Undisturbed

\* What was staged is discarded.
LEMMA DiscardKeeps ==
  ASSUME CaptureTypeOK, Undisturbed, Discard, ~Fault
  PROVE  Undisturbed' /\ Image' = Image
<1> USE CaptureAssumption DEF CaptureTypeOK, File, Meta, Creds, Value, Put
<1>1. /\ at = "discard" /\ UNCHANGED <<exists, target, backup, marker>>
      /\ UNCHANGED <<selected, prior, present, caller, captures, recoveryKilled>>
      /\ \/ todo = {} /\ at' = "rewrite" /\ todo' = selected /\ UNCHANGED stage
         \/ /\ todo # {} /\ at' = "discard" /\ todo' = todo \ {First}
            /\ stage' = Put(stage, First, NoFile)
  BY DEF Discard, Operation, Sets, Advance, Quiet, Killed, memory, files
<1>2. marker = NoMarker
  BY <1>1 DEF Undisturbed, Staging
<1>3. Marked'
  BY <1>1, <1>2 DEF Undisturbed, Marked, NoMarker
<1>4. Born'
  BY <1>1, <1>2 DEF Undisturbed, Born, Nothing, NoMarker
<1>5. Staging'
  BY <1>1, <1>2 DEF Undisturbed, Staging, Marked, NoMarker, Entries
<1>6. Replacing'
  BY <1>1, <1>2 DEF Undisturbed, Replacing, Marked, NoMarker, Entries, First
<1>7. Recovering'
  BY <1>1, <1>2 DEF Undisturbed, Recovering, RecoveryLabels, Handled, Marked, NoMarker, Current
<1>8. Salvageable'
  BY <1>1, <1>2 DEF Undisturbed, Salvageable, Pending, Marked, NoMarker, Current
<1>9. Image' = Image
  BY <1>1, <1>2 DEF Undisturbed, Marked, Image, Effective
<1> QED BY <1>3, <1>4, <1>5, <1>6, <1>7, <1>8, <1>9 DEF Undisturbed

\* The values that were read are written again: they are still there.
LEMMA RewritePriorKeeps ==
  ASSUME CaptureTypeOK, Undisturbed, RewritePrior, ~Fault
  PROVE  Undisturbed' /\ Image' = Image
<1> USE CaptureAssumption DEF CaptureTypeOK, File, Meta, Creds, Value, Put
<1>0. at = "rewrite" /\ (todo # {} => Put(target, First, prior[First]) = target)
  BY MinIn DEF RewritePrior, Undisturbed, Staging, Entries, First
<1>1. /\ at = "rewrite" /\ UNCHANGED <<exists, target, stage, backup, marker>>
      /\ UNCHANGED <<selected, prior, present, caller, captures, recoveryKilled>>
      /\ \/ todo = {} /\ at' = "remeta" /\ todo' = {}
         \/ todo # {} /\ at' = "rewrite" /\ todo' = todo \ {First}
  BY <1>0 DEF RewritePrior, Operation, Sets, Advance, Quiet, Killed, memory, files, Attempt
<1>2. marker = NoMarker
  BY <1>1 DEF Undisturbed, Staging
<1>3. Marked'
  BY <1>1, <1>2 DEF Undisturbed, Marked, NoMarker
<1>4. Born'
  BY <1>1, <1>2 DEF Undisturbed, Born, Nothing, NoMarker
<1>5. Staging'
  BY <1>1, <1>2 DEF Undisturbed, Staging, Marked, NoMarker, Entries
<1>6. Replacing'
  BY <1>1, <1>2 DEF Undisturbed, Replacing, Marked, NoMarker, Entries, First
<1>7. Recovering'
  BY <1>1, <1>2 DEF Undisturbed, Recovering, RecoveryLabels, Handled, Marked, NoMarker, Current
<1>8. Salvageable'
  BY <1>1, <1>2 DEF Undisturbed, Salvageable, Pending, Marked, NoMarker, Current
<1>9. Image' = Image
  BY <1>1, <1>2 DEF Undisturbed, Marked, Image, Effective
<1> QED BY <1>3, <1>4, <1>5, <1>6, <1>7, <1>8, <1>9 DEF Undisturbed

\* And meta.json too, for the profile was there before.
LEMMA RollbackMetaKeeps ==
  ASSUME CaptureTypeOK, Undisturbed, RollbackMeta, ~Fault
  PROVE  Undisturbed' /\ Image' = Image
<1> USE CaptureAssumption DEF CaptureTypeOK, File, Meta, Creds, Value, Put
<1>0. at = "remeta" /\ present /\ Put(target, Meta, prior[Meta]) = target
  BY DEF RollbackMeta, Undisturbed, Staging, Entries
<1>1. /\ at = "remeta" /\ UNCHANGED <<exists, target, stage, backup, marker>>
      /\ UNCHANGED <<selected, prior, present, caller, captures, recoveryKilled>>
      /\ at' = "idle" /\ todo' = {}
  BY <1>0 DEF RollbackMeta, Operation, Sets, Advance, Quiet, Killed, memory, files, Attempt, End
<1>2. marker = NoMarker
  BY <1>1 DEF Undisturbed, Staging
<1>3. Marked'
  BY <1>1, <1>2 DEF Undisturbed, Marked, NoMarker
<1>4. Born'
  BY <1>1, <1>2 DEF Undisturbed, Born, Nothing, NoMarker
<1>5. Staging'
  BY <1>1, <1>2 DEF Undisturbed, Staging, Marked, NoMarker, Entries
<1>6. Replacing'
  BY <1>1, <1>2 DEF Undisturbed, Replacing, Marked, NoMarker, Entries, First
<1>7. Recovering'
  BY <1>1, <1>2 DEF Undisturbed, Recovering, RecoveryLabels, Handled, Marked, NoMarker, Current
<1>8. Salvageable'
  BY <1>1, <1>2 DEF Undisturbed, Salvageable, Pending, Marked, NoMarker, Current
<1>9. Image' = Image
  BY <1>1, <1>2 DEF Undisturbed, Marked, Image, Effective
<1> QED BY <1>3, <1>4, <1>5, <1>6, <1>7, <1>8, <1>9 DEF Undisturbed

\* A kill leaves the files.
LEMMA KillKeeps ==
  ASSUME CaptureTypeOK, Undisturbed, Kill, ~Fault
  PROVE  Undisturbed' /\ Image' = Image
<1> USE CaptureAssumption DEF CaptureTypeOK, File, Meta, Creds, Value, Put
<1>1. /\ at # "idle" /\ at' = "idle" /\ todo' = {}
      /\ UNCHANGED <<exists, target, stage, backup, marker, selected, prior, present, caller, captures>>
      /\ recoveryKilled' = (recoveryKilled \/ at \in RecoveryLabels)
  BY DEF Kill, End, memory, files
<1>2. Marked'
  BY <1>1 DEF Undisturbed, Marked, NoMarker
<1>3. Born'
  BY <1>1 DEF Undisturbed, Born, Nothing, NoMarker
<1>4. Staging'
  BY <1>1 DEF Undisturbed, Staging, Marked, NoMarker, Entries
<1>5. Replacing'
  BY <1>1 DEF Undisturbed, Replacing, Marked, NoMarker, Entries, First
<1>6. Recovering'
  BY <1>1 DEF Undisturbed, Recovering, RecoveryLabels, Handled, Marked, NoMarker, Current
<1>7. Salvageable'
  BY <1>1 DEF Undisturbed, Salvageable, Pending, Marked, NoMarker, Current, RecoveryLabels
<1>8. Image' = Image
  BY <1>1 DEF Undisturbed, Marked, Image, Effective
<1> QED BY <1>2, <1>3, <1>4, <1>5, <1>6, <1>7, <1>8 DEF Undisturbed

-----------------------------------------------------------------------------
(* Type correctness, whatever fails. *)

FilesTyped == exists \in BOOLEAN /\ {target, stage, backup} \subseteq [File -> Value]
MarkerTyped ==
  marker \in [phase : {"none", "applying", "committed"}, entries : SUBSET File, existed : SUBSET File]
MemoryTyped ==
  /\ prior \in [File -> Value] /\ selected \subseteq Creds
  /\ {present, committed, broken} \subseteq BOOLEAN
CountsTyped ==
  /\ captures \in 0..MaxCaptures /\ faults \in 0..MaxFaults /\ kills \in 0..MaxKills
  /\ recoveryKilled \in BOOLEAN
Controlled ==
  /\ at \in CaptureLabels /\ todo \subseteq File /\ (at = "idle" => todo = {})
  /\ caller \in {"snapshot", "commit", "handler"}
  /\ outcome \in {"none", "ok", "error", "broken", "killed", "cut"}

\* The parts of the type invariant.
LEMMA TypeParts ==
  CaptureTypeOK <=> FilesTyped /\ MarkerTyped /\ MemoryTyped /\ CountsTyped /\ Controlled
BY DEF CaptureTypeOK, FilesTyped, MarkerTyped, MemoryTyped, CountsTyped, Controlled

\* Writing a file keeps the files typed.
LEMMA PutTyped ==
  ASSUME NEW map \in [File -> Value], NEW f, NEW v, f \in File => v \in Value
  PROVE  Put(map, f, v) \in [File -> Value]
BY DEF Put

\* The values and the artifacts of the capture in progress.
LEMMA ValuesTyped ==
  ASSUME CaptureTypeOK
  PROVE  /\ NoFile \in Value /\ 0 \in Value /\ captures \in Value /\ Nothing \in [File -> Value]
         /\ Meta \in File /\ Creds \subseteq File /\ Entries \subseteq File /\ Existing \subseteq File
         /\ \A f \in File :
              target[f] \in Value /\ stage[f] \in Value /\ backup[f] \in Value /\ prior[f] \in Value
<1>1. NoFile \in Value /\ 0 \in Value /\ captures \in Value
  BY CaptureAssumption DEF CaptureTypeOK, Value
<1>2. Nothing \in [File -> Value]
  BY <1>1 DEF Nothing
<1>3. Meta \in File /\ Creds \subseteq File
  BY CaptureAssumption DEF Meta, File, Creds
<1>4. Entries \subseteq File /\ Existing \subseteq File
  BY <1>3 DEF CaptureTypeOK, Entries, Existing
<1>5. target \in [File -> Value] /\ stage \in [File -> Value] /\ backup \in [File -> Value]
      /\ prior \in [File -> Value]
  BY DEF CaptureTypeOK
<1> QED BY <1>1, <1>2, <1>3, <1>4, <1>5

\* The steps of the control flow that several actions share.
LEMMA FlowTyped ==
  ASSUME CaptureTypeOK, marker' \in [phase : {"none", "applying", "committed"},
                                      entries : SUBSET File, existed : SUBSET File]
  PROVE  /\ RecoveryThrows => Controlled'
         /\ RecoveryReturns => Controlled'
         /\ at \in RecoveryLabels \union CommitLabels \union {"mkdir", "meta", "stage", "mark"}
            /\ Throw => Controlled'
<1>1. selected \subseteq File /\ caller \in {"snapshot", "commit", "handler"}
      /\ outcome \in {"none", "ok", "error", "broken", "killed", "cut"}
  BY ValuesTyped DEF CaptureTypeOK
<1>2. \A label \in CaptureLabels \ {"idle"}, loop \in SUBSET File : Advance(label, loop) => Controlled'
  BY <1>1 DEF Advance, Controlled
<1>3. \A how \in {"ok", "error"} : End(how) => Controlled'
  BY <1>1 DEF End, Controlled, CaptureLabels
<1>4. CallRecovery("handler") => Controlled'
  BY <1>1 DEF CallRecovery, Controlled, CaptureLabels, RecoveryLabels
<1>5. {"read", "mark", "discard"} \subseteq CaptureLabels \ {"idle"}
  BY DEF CaptureLabels
<1>6. RecoveryThrows => Controlled'
  BY <1>1, <1>2, <1>3, <1>5 DEF RecoveryThrows
<1>7. RecoveryReturns => Controlled'
  <2>1. CASE caller = "snapshot"
    BY <2>1, <1>2, <1>5 DEF RecoveryReturns
  <2>2. CASE caller = "commit"
    BY <2>2, <1>2, <1>5 DEF RecoveryReturns
  <2>3. CASE caller = "handler"
    BY <2>3, <1>1, <1>2, <1>3, <1>5 DEF RecoveryReturns
  <2> QED BY <2>1, <2>2, <2>3, <1>1
<1>8. ASSUME at \in RecoveryLabels \union CommitLabels \union {"mkdir", "meta", "stage", "mark"}, Throw
      PROVE  Controlled'
  <2>1. CASE at \in RecoveryLabels
    BY <1>8, <2>1, <1>6 DEF Throw, RecoveryLabels, CommitLabels
  <2>2. CASE at \in CommitLabels
    BY <1>8, <2>2, <1>4 DEF Throw, RecoveryLabels, CommitLabels
  <2>3. CASE at \in {"mkdir", "meta"}
    BY <1>8, <2>3, <1>3 DEF Throw, RecoveryLabels, CommitLabels
  <2>4. CASE at \in {"stage", "mark"}
    BY <1>8, <2>4, <1>1, <1>2, <1>5 DEF Throw, RecoveryLabels, CommitLabels
  <2> QED BY <1>8, <2>1, <2>2, <2>3, <2>4
<1> QED BY <1>6, <1>7, <1>8

\* Every step keeps the types, one part at a time.
LEMMA TypedSteps ==
  ASSUME CaptureTypeOK, [CaptureNext]_captureVars
  PROVE  CaptureTypeOK'
<1>0. FilesTyped /\ MarkerTyped /\ MemoryTyped /\ CountsTyped /\ Controlled
  BY TypeParts
<1> USE CaptureAssumption, ValuesTyped
<1>1. ASSUME NEW live \in SUBSET Creds, BeginCapture(live) PROVE CaptureTypeOK'
  <2>1. FilesTyped'
    BY <1>0, <1>1, PutTyped DEF BeginCapture, Killed, memory, files, FilesTyped
  <2>2. MarkerTyped'
    BY <1>0, <1>1 DEF BeginCapture, Killed, memory, files, MarkerTyped, NoMarker
  <2>3. MemoryTyped'
    <3>1. selected' = live /\ present' = exists /\ committed' = FALSE /\ broken' = FALSE /\ prior' = prior
      BY <1>1 DEF BeginCapture
    <3>2. exists \in BOOLEAN /\ prior \in [File -> Value]
      BY <1>0 DEF FilesTyped, MemoryTyped
    <3> QED BY <3>1, <3>2 DEF MemoryTyped
  <2>4. CountsTyped'
    BY <1>0, <1>1 DEF BeginCapture, Killed, memory, files, CountsTyped
  <2>5. Controlled'
    BY <1>0, <1>1, <2>2, FlowTyped DEF BeginCapture, Killed, memory, files, Advance,
         CallRecovery, Controlled, MarkerTyped, MemoryTyped,
      CaptureLabels, RecoveryLabels, CommitLabels, Creds, File
  <2> QED BY <2>1, <2>2, <2>3, <2>4, <2>5 DEF CaptureTypeOK, FilesTyped, MarkerTyped, MemoryTyped,
    CountsTyped, Controlled
<1>2. CASE CreateDirectory
  <2>1. FilesTyped'
    BY <1>0, <1>2, PutTyped DEF CreateDirectory, Operation, Sets, Quiet, Killed, memory, files,
         Fault, FilesTyped
  <2>2. MarkerTyped'
    BY <1>0, <1>2 DEF CreateDirectory, Operation, Sets, Quiet, Killed, memory, files, Fault,
         MarkerTyped, NoMarker
  <2>3. MemoryTyped'
    BY <1>0, <1>2 DEF CreateDirectory, Operation, Sets, Quiet, Killed, memory, files, Fault,
         MemoryTyped
  <2>4. CountsTyped'
    BY <1>0, <1>2 DEF CreateDirectory, Operation, Sets, Quiet, Killed, memory, files, Fault,
         CountsTyped
  <2>5. Controlled'
    BY <1>0, <1>2, <2>2, FlowTyped DEF CreateDirectory, Operation, Sets, Quiet, Killed, memory,
         files, Fault, Advance, Controlled, MarkerTyped, MemoryTyped,
      CaptureLabels, RecoveryLabels, CommitLabels, Creds, File
  <2> QED BY <2>1, <2>2, <2>3, <2>4, <2>5 DEF CaptureTypeOK, FilesTyped, MarkerTyped, MemoryTyped,
    CountsTyped, Controlled
<1>3. CASE WriteFirstMeta
  <2>1. FilesTyped'
    <3>1. Put(target, Meta, 0) \in [File -> Value]
      BY <1>0, PutTyped DEF FilesTyped
    <3>2. /\ UNCHANGED <<stage, backup>>
          /\ \/ exists' = exists /\ target' = Put(target, Meta, 0)
             \/ exists' = exists /\ target' = target
             \/ exists' = FALSE /\ target' = Nothing
      BY <1>3 DEF WriteFirstMeta, Operation, Sets, files
    <3> QED BY <3>1, <3>2, <1>0 DEF FilesTyped
  <2>2. MarkerTyped'
    BY <1>0, <1>3 DEF WriteFirstMeta, Operation, Sets, Quiet, Killed, memory, files, Fault,
         MarkerTyped, NoMarker
  <2>3. MemoryTyped'
    BY <1>0, <1>3 DEF WriteFirstMeta, Operation, Sets, Quiet, Killed, memory, files, Fault,
         MemoryTyped
  <2>4. CountsTyped'
    BY <1>0, <1>3 DEF WriteFirstMeta, Operation, Sets, Quiet, Killed, memory, files, Fault,
         CountsTyped
  <2>5. Controlled'
    BY <1>0, <1>3, <2>2, FlowTyped DEF WriteFirstMeta, Operation, Sets, Quiet, Killed, memory,
         files, Fault, Advance, End, Controlled, MarkerTyped, MemoryTyped,
      CaptureLabels, RecoveryLabels, CommitLabels, Creds, File
  <2> QED BY <2>1, <2>2, <2>3, <2>4, <2>5 DEF CaptureTypeOK, FilesTyped, MarkerTyped, MemoryTyped,
    CountsTyped, Controlled
<1>4. CASE ReadPrior
  <2>1. FilesTyped'
    BY <1>0, <1>4, PutTyped DEF ReadPrior, Killed, memory, files, FilesTyped
  <2>2. MarkerTyped'
    BY <1>0, <1>4 DEF ReadPrior, Killed, memory, files, MarkerTyped, NoMarker
  <2>3. MemoryTyped'
    BY <1>0, <1>4 DEF ReadPrior, Killed, memory, files, MemoryTyped
  <2>4. CountsTyped'
    BY <1>0, <1>4 DEF ReadPrior, Killed, memory, files, CountsTyped
  <2>5. Controlled'
    BY <1>0, <1>4, <2>2, FlowTyped DEF ReadPrior, Killed, memory, files, Advance, Controlled,
         MarkerTyped, MemoryTyped,
      CaptureLabels, RecoveryLabels, CommitLabels, Creds, File
  <2> QED BY <2>1, <2>2, <2>3, <2>4, <2>5 DEF CaptureTypeOK, FilesTyped, MarkerTyped, MemoryTyped,
    CountsTyped, Controlled
<1>5. CASE StageFile
  <2>1. FilesTyped'
    BY <1>0, <1>5, PutTyped DEF StageFile, Operation, Sets, Quiet, Killed, memory, files, Fault,
         FilesTyped
  <2>2. MarkerTyped'
    BY <1>0, <1>5 DEF StageFile, Operation, Sets, Quiet, Killed, memory, files, Fault,
         MarkerTyped, NoMarker
  <2>3. MemoryTyped'
    BY <1>0, <1>5 DEF StageFile, Operation, Sets, Quiet, Killed, memory, files, Fault, MemoryTyped
  <2>4. CountsTyped'
    BY <1>0, <1>5 DEF StageFile, Operation, Sets, Quiet, Killed, memory, files, Fault, CountsTyped
  <2>5. Controlled'
    BY <1>0, <1>5, <2>2, FlowTyped DEF StageFile, Operation, Sets, Quiet, Killed, memory, files,
         Fault, Advance, CallRecovery, Controlled, MarkerTyped, MemoryTyped,
      CaptureLabels, RecoveryLabels, CommitLabels, Creds, File
  <2> QED BY <2>1, <2>2, <2>3, <2>4, <2>5 DEF CaptureTypeOK, FilesTyped, MarkerTyped, MemoryTyped,
    CountsTyped, Controlled
<1>6. CASE WriteMarker
  <2>1. FilesTyped'
    BY <1>0, <1>6, PutTyped DEF WriteMarker, Operation, Sets, Quiet, Killed, memory, files,
         Fault, FilesTyped
  <2>2. MarkerTyped'
    BY <1>0, <1>6 DEF WriteMarker, Operation, Sets, Quiet, Killed, memory, files, Fault,
         MarkerTyped, NoMarker
  <2>3. MemoryTyped'
    BY <1>0, <1>6 DEF WriteMarker, Operation, Sets, Quiet, Killed, memory, files, Fault,
         MemoryTyped
  <2>4. CountsTyped'
    BY <1>0, <1>6 DEF WriteMarker, Operation, Sets, Quiet, Killed, memory, files, Fault,
         CountsTyped
  <2>5. Controlled'
    BY <1>0, <1>6, <2>2, FlowTyped DEF WriteMarker, Operation, Sets, Quiet, Killed, memory,
         files, Fault, Advance, MoveOrPlace, Controlled, MarkerTyped, MemoryTyped,
      CaptureLabels, RecoveryLabels, CommitLabels, Creds, File
  <2> QED BY <2>1, <2>2, <2>3, <2>4, <2>5 DEF CaptureTypeOK, FilesTyped, MarkerTyped, MemoryTyped,
    CountsTyped, Controlled
<1>7. CASE MoveToBackup
  <2>1. FilesTyped'
    BY <1>0, <1>7, PutTyped DEF MoveToBackup, Operation, Sets, Quiet, Killed, memory, files,
         Fault, FilesTyped
  <2>2. MarkerTyped'
    BY <1>0, <1>7 DEF MoveToBackup, Operation, Sets, Quiet, Killed, memory, files, Fault,
         MarkerTyped, NoMarker
  <2>3. MemoryTyped'
    BY <1>0, <1>7 DEF MoveToBackup, Operation, Sets, Quiet, Killed, memory, files, Fault,
         MemoryTyped
  <2>4. CountsTyped'
    BY <1>0, <1>7 DEF MoveToBackup, Operation, Sets, Quiet, Killed, memory, files, Fault,
         CountsTyped
  <2>5. Controlled'
    BY <1>0, <1>7, <2>2, FlowTyped DEF MoveToBackup, Operation, Sets, Quiet, Killed, memory,
         files, Fault, Advance, Controlled, MarkerTyped, MemoryTyped,
      CaptureLabels, RecoveryLabels, CommitLabels, Creds, File
  <2> QED BY <2>1, <2>2, <2>3, <2>4, <2>5 DEF CaptureTypeOK, FilesTyped, MarkerTyped, MemoryTyped,
    CountsTyped, Controlled
<1>8. CASE PlaceStaged
  <2>1. FilesTyped'
    BY <1>0, <1>8, PutTyped DEF PlaceStaged, Operation, Sets, Quiet, Killed, memory, files,
         Fault, FilesTyped
  <2>2. MarkerTyped'
    BY <1>0, <1>8 DEF PlaceStaged, Operation, Sets, Quiet, Killed, memory, files, Fault,
         MarkerTyped, NoMarker
  <2>3. MemoryTyped'
    BY <1>0, <1>8 DEF PlaceStaged, Operation, Sets, Quiet, Killed, memory, files, Fault,
         MemoryTyped
  <2>4. CountsTyped'
    BY <1>0, <1>8 DEF PlaceStaged, Operation, Sets, Quiet, Killed, memory, files, Fault,
         CountsTyped
  <2>5. Controlled'
    BY <1>0, <1>8, <2>2, FlowTyped DEF PlaceStaged, Operation, Sets, Quiet, Killed, memory,
         files, Fault, Advance, MoveOrPlace, Controlled, MarkerTyped, MemoryTyped,
      CaptureLabels, RecoveryLabels, CommitLabels, Creds, File
  <2> QED BY <2>1, <2>2, <2>3, <2>4, <2>5 DEF CaptureTypeOK, FilesTyped, MarkerTyped, MemoryTyped,
    CountsTyped, Controlled
<1>9. CASE SealMarker
  <2>1. FilesTyped'
    BY <1>0, <1>9, PutTyped DEF SealMarker, Operation, Sets, Quiet, Killed, memory, files,
         Fault, FilesTyped
  <2>2. MarkerTyped'
    BY <1>0, <1>9 DEF SealMarker, Operation, Sets, Quiet, Killed, memory, files, Fault,
         MarkerTyped, NoMarker
  <2>3. MemoryTyped'
    BY <1>0, <1>9 DEF SealMarker, Operation, Sets, Quiet, Killed, memory, files, Fault,
         MemoryTyped
  <2>4. CountsTyped'
    BY <1>0, <1>9 DEF SealMarker, Operation, Sets, Quiet, Killed, memory, files, Fault,
         CountsTyped
  <2>5. Controlled'
    BY <1>0, <1>9, <2>2, FlowTyped DEF SealMarker, Operation, Sets, Quiet, Killed, memory,
         files, Fault, Advance, Controlled, MarkerTyped, MemoryTyped,
      CaptureLabels, RecoveryLabels, CommitLabels, Creds, File
  <2> QED BY <2>1, <2>2, <2>3, <2>4, <2>5 DEF CaptureTypeOK, FilesTyped, MarkerTyped, MemoryTyped,
    CountsTyped, Controlled
<1>10. CASE CleanBackup
  <2>1. FilesTyped'
    BY <1>0, <1>10, PutTyped DEF CleanBackup, Operation, Sets, Quiet, Killed, memory, files,
         Fault, FilesTyped
  <2>2. MarkerTyped'
    BY <1>0, <1>10 DEF CleanBackup, Operation, Sets, Quiet, Killed, memory, files, Fault,
         MarkerTyped, NoMarker
  <2>3. MemoryTyped'
    BY <1>0, <1>10 DEF CleanBackup, Operation, Sets, Quiet, Killed, memory, files, Fault,
         MemoryTyped
  <2>4. CountsTyped'
    BY <1>0, <1>10 DEF CleanBackup, Operation, Sets, Quiet, Killed, memory, files, Fault,
         CountsTyped
  <2>5. Controlled'
    BY <1>0, <1>10, <2>2, FlowTyped DEF CleanBackup, Operation, Sets, Quiet, Killed, memory,
         files, Fault, Advance, Controlled, MarkerTyped, MemoryTyped,
      CaptureLabels, RecoveryLabels, CommitLabels, Creds, File
  <2> QED BY <2>1, <2>2, <2>3, <2>4, <2>5 DEF CaptureTypeOK, FilesTyped, MarkerTyped, MemoryTyped,
    CountsTyped, Controlled
<1>11. CASE Unmark
  <2>1. FilesTyped'
    BY <1>0, <1>11, PutTyped DEF Unmark, Operation, Sets, Quiet, Killed, memory, files, Fault,
         FilesTyped
  <2>2. MarkerTyped'
    BY <1>0, <1>11 DEF Unmark, Operation, Sets, Quiet, Killed, memory, files, Fault,
         MarkerTyped, NoMarker
  <2>3. MemoryTyped'
    BY <1>0, <1>11 DEF Unmark, Operation, Sets, Quiet, Killed, memory, files, Fault, MemoryTyped
  <2>4. CountsTyped'
    BY <1>0, <1>11 DEF Unmark, Operation, Sets, Quiet, Killed, memory, files, Fault, CountsTyped
  <2>5. Controlled'
    BY <1>0, <1>11, <2>2, FlowTyped DEF Unmark, Operation, Sets, Quiet, Killed, memory, files,
         Fault, Advance, End, Controlled, MarkerTyped, MemoryTyped,
      CaptureLabels, RecoveryLabels, CommitLabels, Creds, File
  <2> QED BY <2>1, <2>2, <2>3, <2>4, <2>5 DEF CaptureTypeOK, FilesTyped, MarkerTyped, MemoryTyped,
    CountsTyped, Controlled
<1>12. CASE NoMarkerFound
  <2>1. FilesTyped'
    BY <1>0, <1>12, PutTyped DEF NoMarkerFound, Operation, Sets, Quiet, Killed, memory, files,
         Fault, FilesTyped
  <2>2. MarkerTyped'
    BY <1>0, <1>12 DEF NoMarkerFound, Operation, Sets, Quiet, Killed, memory, files, Fault,
         MarkerTyped, NoMarker
  <2>3. MemoryTyped'
    BY <1>0, <1>12 DEF NoMarkerFound, Operation, Sets, Quiet, Killed, memory, files, Fault,
         MemoryTyped
  <2>4. CountsTyped'
    BY <1>0, <1>12 DEF NoMarkerFound, Operation, Sets, Quiet, Killed, memory, files, Fault,
         CountsTyped
  <2>5. Controlled'
    BY <1>0, <1>12, <2>2, FlowTyped DEF NoMarkerFound, Operation, Sets, Quiet, Killed, memory,
         files, Fault, Advance, Controlled, MarkerTyped, MemoryTyped,
      CaptureLabels, RecoveryLabels, CommitLabels, Creds, File
  <2> QED BY <2>1, <2>2, <2>3, <2>4, <2>5 DEF CaptureTypeOK, FilesTyped, MarkerTyped, MemoryTyped,
    CountsTyped, Controlled
<1>13. CASE RecoverCommitted
  <2>1. FilesTyped'
    BY <1>0, <1>13, PutTyped DEF RecoverCommitted, Operation, Sets, Quiet, Killed, memory,
         files, Fault, IfAny, AfterEntry, FilesTyped
  <2>2. MarkerTyped'
    BY <1>0, <1>13 DEF RecoverCommitted, Operation, Sets, Quiet, Killed, memory, files, Fault,
         IfAny, AfterEntry, MarkerTyped, NoMarker
  <2>3. MemoryTyped'
    BY <1>0, <1>13 DEF RecoverCommitted, Operation, Sets, Quiet, Killed, memory, files, Fault,
         IfAny, AfterEntry, MemoryTyped
  <2>4. CountsTyped'
    BY <1>0, <1>13 DEF RecoverCommitted, Operation, Sets, Quiet, Killed, memory, files, Fault,
         IfAny, AfterEntry, CountsTyped
  <2>5. Controlled'
    BY <1>0, <1>13, <2>2, FlowTyped DEF RecoverCommitted, Operation, Sets, Quiet, Killed,
         memory, files, Fault, IfAny, AfterEntry, Advance, Controlled, MarkerTyped, MemoryTyped,
      CaptureLabels, RecoveryLabels, CommitLabels, Creds, File
  <2> QED BY <2>1, <2>2, <2>3, <2>4, <2>5 DEF CaptureTypeOK, FilesTyped, MarkerTyped, MemoryTyped,
    CountsTyped, Controlled
<1>14. CASE RecoverApplying
  <2>1. FilesTyped'
    BY <1>0, <1>14, PutTyped DEF RecoverApplying, Operation, Sets, Quiet, Killed, memory, files,
         Fault, FilesTyped
  <2>2. MarkerTyped'
    BY <1>0, <1>14 DEF RecoverApplying, Operation, Sets, Quiet, Killed, memory, files, Fault,
         MarkerTyped, NoMarker
  <2>3. MemoryTyped'
    BY <1>0, <1>14 DEF RecoverApplying, Operation, Sets, Quiet, Killed, memory, files, Fault,
         MemoryTyped
  <2>4. CountsTyped'
    BY <1>0, <1>14 DEF RecoverApplying, Operation, Sets, Quiet, Killed, memory, files, Fault,
         CountsTyped
  <2>5. Controlled'
    BY <1>0, <1>14, <2>2, FlowTyped DEF RecoverApplying, Operation, Sets, Quiet, Killed, memory,
         files, Fault, Advance, Controlled, MarkerTyped, MemoryTyped,
      CaptureLabels, RecoveryLabels, CommitLabels, Creds, File
  <2> QED BY <2>1, <2>2, <2>3, <2>4, <2>5 DEF CaptureTypeOK, FilesTyped, MarkerTyped, MemoryTyped,
    CountsTyped, Controlled
<1>15. CASE RestoreBackup
  <2>1. FilesTyped'
    BY <1>0, <1>15, PutTyped DEF RestoreBackup, Operation, Sets, Quiet, Killed, memory, files,
         Fault, FilesTyped
  <2>2. MarkerTyped'
    BY <1>0, <1>15 DEF RestoreBackup, Operation, Sets, Quiet, Killed, memory, files, Fault,
         MarkerTyped, NoMarker
  <2>3. MemoryTyped'
    BY <1>0, <1>15 DEF RestoreBackup, Operation, Sets, Quiet, Killed, memory, files, Fault,
         MemoryTyped
  <2>4. CountsTyped'
    BY <1>0, <1>15 DEF RestoreBackup, Operation, Sets, Quiet, Killed, memory, files, Fault,
         CountsTyped
  <2>5. Controlled'
    BY <1>0, <1>15, <2>2, FlowTyped DEF RestoreBackup, Operation, Sets, Quiet, Killed, memory,
         files, Fault, Advance, Controlled, MarkerTyped, MemoryTyped,
      CaptureLabels, RecoveryLabels, CommitLabels, Creds, File
  <2> QED BY <2>1, <2>2, <2>3, <2>4, <2>5 DEF CaptureTypeOK, FilesTyped, MarkerTyped, MemoryTyped,
    CountsTyped, Controlled
<1>16. CASE RemoveStage
  <2>1. FilesTyped'
    BY <1>0, <1>16, PutTyped DEF RemoveStage, Operation, Sets, Quiet, Killed, memory, files,
         Fault, IfAny, AfterEntry, FilesTyped
  <2>2. MarkerTyped'
    BY <1>0, <1>16 DEF RemoveStage, Operation, Sets, Quiet, Killed, memory, files, Fault, IfAny,
         AfterEntry, MarkerTyped, NoMarker
  <2>3. MemoryTyped'
    BY <1>0, <1>16 DEF RemoveStage, Operation, Sets, Quiet, Killed, memory, files, Fault, IfAny,
         AfterEntry, MemoryTyped
  <2>4. CountsTyped'
    BY <1>0, <1>16 DEF RemoveStage, Operation, Sets, Quiet, Killed, memory, files, Fault, IfAny,
         AfterEntry, CountsTyped
  <2>5. Controlled'
    BY <1>0, <1>16, <2>2, FlowTyped DEF RemoveStage, Operation, Sets, Quiet, Killed, memory,
         files, Fault, IfAny, AfterEntry, Advance, Controlled, MarkerTyped, MemoryTyped,
      CaptureLabels, RecoveryLabels, CommitLabels, Creds, File
  <2> QED BY <2>1, <2>2, <2>3, <2>4, <2>5 DEF CaptureTypeOK, FilesTyped, MarkerTyped, MemoryTyped,
    CountsTyped, Controlled
<1>17. CASE RemoveMarker
  <2>1. FilesTyped'
    BY <1>0, <1>17, PutTyped DEF RemoveMarker, Operation, Sets, Quiet, Killed, memory, files,
         Fault, FilesTyped
  <2>2. MarkerTyped'
    BY <1>0, <1>17 DEF RemoveMarker, Operation, Sets, Quiet, Killed, memory, files, Fault,
         MarkerTyped, NoMarker
  <2>3. MemoryTyped'
    BY <1>0, <1>17 DEF RemoveMarker, Operation, Sets, Quiet, Killed, memory, files, Fault,
         MemoryTyped
  <2>4. CountsTyped'
    BY <1>0, <1>17 DEF RemoveMarker, Operation, Sets, Quiet, Killed, memory, files, Fault,
         CountsTyped
  <2>5. Controlled'
    BY <1>0, <1>17, <2>2, FlowTyped DEF RemoveMarker, Operation, Sets, Quiet, Killed, memory,
         files, Fault, Advance, Controlled, MarkerTyped, MemoryTyped,
      CaptureLabels, RecoveryLabels, CommitLabels, Creds, File
  <2> QED BY <2>1, <2>2, <2>3, <2>4, <2>5 DEF CaptureTypeOK, FilesTyped, MarkerTyped, MemoryTyped,
    CountsTyped, Controlled
<1>18. CASE Discard
  <2>1. FilesTyped'
    BY <1>0, <1>18, PutTyped DEF Discard, Operation, Sets, Quiet, Killed, memory, files, Fault,
         FilesTyped
  <2>2. MarkerTyped'
    BY <1>0, <1>18 DEF Discard, Operation, Sets, Quiet, Killed, memory, files, Fault,
         MarkerTyped, NoMarker
  <2>3. MemoryTyped'
    BY <1>0, <1>18 DEF Discard, Operation, Sets, Quiet, Killed, memory, files, Fault, MemoryTyped
  <2>4. CountsTyped'
    BY <1>0, <1>18 DEF Discard, Operation, Sets, Quiet, Killed, memory, files, Fault, CountsTyped
  <2>5. Controlled'
    BY <1>0, <1>18, <2>2, FlowTyped DEF Discard, Operation, Sets, Quiet, Killed, memory, files,
         Fault, Advance, Controlled, MarkerTyped, MemoryTyped,
      CaptureLabels, RecoveryLabels, CommitLabels, Creds, File
  <2> QED BY <2>1, <2>2, <2>3, <2>4, <2>5 DEF CaptureTypeOK, FilesTyped, MarkerTyped, MemoryTyped,
    CountsTyped, Controlled
<1>19. CASE RewritePrior
  <2>1. FilesTyped'
    BY <1>0, <1>19, PutTyped DEF RewritePrior, Operation, Sets, Quiet, Killed, memory, files,
         Fault, Attempt, FilesTyped
  <2>2. MarkerTyped'
    BY <1>0, <1>19 DEF RewritePrior, Operation, Sets, Quiet, Killed, memory, files, Fault,
         Attempt, MarkerTyped, NoMarker
  <2>3. MemoryTyped'
    BY <1>0, <1>19 DEF RewritePrior, Operation, Sets, Quiet, Killed, memory, files, Fault,
         Attempt, MemoryTyped
  <2>4. CountsTyped'
    BY <1>0, <1>19 DEF RewritePrior, Operation, Sets, Quiet, Killed, memory, files, Fault,
         Attempt, CountsTyped
  <2>5. Controlled'
    BY <1>0, <1>19, <2>2, FlowTyped DEF RewritePrior, Operation, Sets, Quiet, Killed, memory,
         files, Fault, Attempt, Advance, Controlled, MarkerTyped, MemoryTyped,
      CaptureLabels, RecoveryLabels, CommitLabels, Creds, File
  <2> QED BY <2>1, <2>2, <2>3, <2>4, <2>5 DEF CaptureTypeOK, FilesTyped, MarkerTyped, MemoryTyped,
    CountsTyped, Controlled
<1>20. CASE RollbackMeta
  <2>1. FilesTyped'
    <3>1. Put(target, Meta, prior[Meta]) \in [File -> Value]
      BY <1>0, PutTyped DEF FilesTyped
    <3>2. \/ UNCHANGED <<exists, target, stage, backup>>
          \/ UNCHANGED <<exists, stage, backup>> /\ target' = Put(target, Meta, prior[Meta])
          \/ exists' = FALSE /\ target' = Nothing /\ stage' = Nothing /\ backup' = Nothing
      BY <1>20 DEF RollbackMeta, Attempt, Sets, files
    <3> QED BY <3>1, <3>2, <1>0 DEF FilesTyped
  <2>2. MarkerTyped'
    BY <1>0, <1>20 DEF RollbackMeta, Operation, Sets, Quiet, Killed, memory, files, Fault,
         Attempt, MarkerTyped, NoMarker
  <2>3. MemoryTyped'
    BY <1>0, <1>20 DEF RollbackMeta, Operation, Sets, Quiet, Killed, memory, files, Fault,
         Attempt, MemoryTyped
  <2>4. CountsTyped'
    BY <1>0, <1>20 DEF RollbackMeta, Operation, Sets, Quiet, Killed, memory, files, Fault,
         Attempt, CountsTyped
  <2>5. Controlled'
    BY <1>0, <1>20, <2>2, FlowTyped DEF RollbackMeta, Operation, Sets, Quiet, Killed, memory,
         files, Fault, Attempt, Advance, End, Controlled, MarkerTyped, MemoryTyped,
      CaptureLabels, RecoveryLabels, CommitLabels, Creds, File
  <2> QED BY <2>1, <2>2, <2>3, <2>4, <2>5 DEF CaptureTypeOK, FilesTyped, MarkerTyped, MemoryTyped,
    CountsTyped, Controlled
<1>21. CASE Kill
  <2>1. FilesTyped'
    BY <1>0, <1>21, PutTyped DEF Kill, Killed, memory, files, FilesTyped
  <2>2. MarkerTyped'
    BY <1>0, <1>21 DEF Kill, Killed, memory, files, MarkerTyped, NoMarker
  <2>3. MemoryTyped'
    BY <1>0, <1>21 DEF Kill, Killed, memory, files, MemoryTyped
  <2>4. CountsTyped'
    BY <1>0, <1>21 DEF Kill, Killed, memory, files, CountsTyped
  <2>5. Controlled'
    BY <1>0, <1>21, <2>2, FlowTyped DEF Kill, Killed, memory, files, Advance, End, Controlled,
         MarkerTyped, MemoryTyped,
      CaptureLabels, RecoveryLabels, CommitLabels, Creds, File
  <2> QED BY <2>1, <2>2, <2>3, <2>4, <2>5 DEF CaptureTypeOK, FilesTyped, MarkerTyped, MemoryTyped,
    CountsTyped, Controlled
<1>22. CASE UNCHANGED captureVars
  BY <1>22 DEF captureVars, files, memory, CaptureTypeOK
<1> QED BY <1>1, <1>2, <1>3, <1>4, <1>5, <1>6, <1>7, <1>8, <1>9, <1>10, <1>11, <1>12, <1>13,
     <1>14, <1>15, <1>16, <1>17, <1>18, <1>19, <1>20, <1>21, <1>22 DEF CaptureNext, Commit,
     Recover, Rollback

\* The beginning.
LEMMA BeginsTyped == CaptureInit => CaptureTypeOK
<1> SUFFICES ASSUME CaptureInit PROVE CaptureTypeOK
  OBVIOUS
<1> USE CaptureAssumption DEF CaptureInit
<1>1. Nothing \in [File -> Value] /\ target \in [File -> Value]
  BY DEF Value, Nothing
<1>2. FilesTyped
  BY <1>1 DEF FilesTyped
<1>3. MarkerTyped
  BY DEF MarkerTyped, NoMarker
<1>4. MemoryTyped
  BY <1>1 DEF MemoryTyped
<1>5. CountsTyped
  <2>1. captures \in 0..MaxCaptures
    BY DEF CaptureInit
  <2>2. faults \in 0..MaxFaults /\ kills \in 0..MaxKills
    BY DEF CaptureInit
  <2>3. recoveryKilled \in BOOLEAN
    BY DEF CaptureInit
  <2> QED BY <2>1, <2>2, <2>3 DEF CountsTyped
<1>6. Controlled
  BY DEF Controlled, CaptureLabels
<1> QED BY <1>2, <1>3, <1>4, <1>5, <1>6, TypeParts

\* Every reachable state is well typed, whatever is killed and whatever fails.
THEOREM CaptureTypeCorrect == CaptureSpec => []CaptureTypeOK
BY BeginsTyped, TypedSteps, PTL DEF CaptureSpec

-----------------------------------------------------------------------------
(* The invariant, as long as no file operation fails. *)

\* A step that counts no fault meets none.
LEMMA NoFault ==
  ASSUME CaptureTypeOK, [CaptureNext]_captureVars, faults' = 0
  PROVE  faults = 0 /\ ~Fault
<1>1. ~Fault
  BY CaptureAssumption DEF CaptureTypeOK, Fault
<1>2. UNCHANGED faults
  BY <1>1 DEF CaptureNext, Commit, Recover, Rollback, captureVars, BeginCapture,
       CreateDirectory, WriteFirstMeta, ReadPrior, StageFile, WriteMarker, MoveToBackup,
       PlaceStaged, SealMarker, CleanBackup, Unmark, NoMarkerFound, RecoverCommitted,
       RecoverApplying, RestoreBackup, RemoveStage, RemoveMarker, Discard, RewritePrior,
       RollbackMeta, Kill,
    Operation, Attempt, IfAny
<1> QED BY <1>1, <1>2

\* A step keeps the invariant, and the image too unless it creates the profile or commits.
LEMMA UndisturbedSteps ==
  ASSUME CaptureTypeOK, Undisturbed, [CaptureNext]_captureVars, faults' = 0
  PROVE  Undisturbed' /\ (WriteFirstMeta \/ SealMarker \/ Image' = Image)
<1>1. ~Fault
  BY NoFault
<1>2. CASE UNCHANGED captureVars
  <2>1. Undisturbed'
    BY <1>2 DEF Undisturbed, Marked, Born, Staging, Replacing, Recovering, Salvageable,
         Pending, Handled,
      Entries, First, Current, captureVars, files, memory
  <2>2. Image' = Image
    BY <1>2 DEF Image, Effective, captureVars, files
  <2> QED BY <2>1, <2>2
<1>3. CASE CaptureNext
  BY <1>1, <1>3, BeginCaptureKeeps, CreateDirectoryKeeps, WriteFirstMetaKeeps, ReadPriorKeeps,
       StageFileKeeps, WriteMarkerKeeps, MoveToBackupKeeps, PlaceStagedKeeps, SealMarkerKeeps,
       CleanBackupKeeps, UnmarkKeeps, NoMarkerFoundKeeps, RecoverCommittedKeeps,
       RecoverApplyingKeeps, RestoreBackupKeeps, RemoveStageKeeps, RemoveMarkerKeeps,
       DiscardKeeps, RewritePriorKeeps, RollbackMetaKeeps, KillKeeps
    DEF CaptureNext, Commit, Recover, Rollback
<1> QED BY <1>2, <1>3

\* The invariant holds at the beginning.
LEMMA UndisturbedInit == CaptureInit => Undisturbed
<1> SUFFICES ASSUME CaptureInit PROVE Undisturbed
  OBVIOUS
<1> USE CaptureAssumption DEF CaptureInit, NoMarker
<1>1. Marked
  BY DEF Marked, Nothing
<1>2. Born /\ Staging /\ Replacing
  BY DEF Born, Staging, Replacing
<1>3. Recovering /\ Salvageable
  BY DEF Recovering, RecoveryLabels, Salvageable
<1> QED BY <1>1, <1>2, <1>3 DEF Undisturbed

\* The invariant holds in every reachable state.
LEMMA CaptureInvariance == CaptureSpec => []CaptureInv
<1>1. CaptureInit => CaptureInv
  BY BeginsTyped, UndisturbedInit DEF CaptureInv
<1>2. CaptureInv /\ [CaptureNext]_captureVars => CaptureInv'
  BY TypedSteps, NoFault, UndisturbedSteps DEF CaptureInv
<1> QED BY <1>1, <1>2, PTL DEF CaptureSpec

\* Whatever interrupted a capture, the next one can recover the profile, for any number of
\* credentials, captures and kills, as long as no recovery was killed (profile-store.ts:366).
THEOREM CapturesRecoverable == CaptureSpec => []CommitRecoverable
<1>1. CaptureInv => CommitRecoverable
  BY DEF CaptureInv, Undisturbed, Marked, Salvageable, Pending, CommitRecoverable, Recoverable
<1> QED BY <1>1, CaptureInvariance, PTL

\* However often captures and recoveries are killed, what recovery yields changes as one set: the
\* directory protocol implements the abstract profile (profile-store.ts:364).
THEOREM CapturesWhole == CaptureSpec => ImplementsAbstractProfile
<1>1. CaptureInit => Abstract!Init
  <2> SUFFICES ASSUME CaptureInit PROVE Abstract!Init
    OBVIOUS
  <2>1. target \in [File -> {0, NoFile}] /\ \A f \in File : Effective(f) = target[f]
    BY DEF CaptureInit, NoMarker, Nothing, Effective
  <2> QED BY <2>1 DEF Image, Abstract!Init, Abstract!File, File
<1>2. CaptureInv /\ [CaptureNext]_captureVars => [faults' = 0 => [Abstract!Next]_Image]_captureVars
  <2> SUFFICES ASSUME CaptureInv, CaptureNext, faults' = 0 PROVE [Abstract!Next]_Image
    OBVIOUS
  <2>1. CaptureTypeOK /\ Undisturbed /\ ~Fault
    BY NoFault DEF CaptureInv
  <2>2. CASE Image' = Image
    BY <2>2
  <2>3. CASE WriteFirstMeta
    <3>1. at = "meta" /\ target' = Put(target, Meta, 0) /\ UNCHANGED marker
      BY <2>1, <2>3 DEF WriteFirstMeta, Operation, Sets
    <3>2. target = Nothing /\ marker = NoMarker
      BY <2>1, <3>1 DEF Undisturbed, Born
    <3>3. Image = Nothing /\ Image' = [Nothing EXCEPT ![Last] = 0]
      BY <3>1, <3>2 DEF Image, Effective, NoMarker, Nothing, Put, Meta
    <3>4. Abstract!Create
      BY <3>3 DEF Abstract!Create, Abstract!Empty, Abstract!Created, Abstract!File, Nothing, File
    <3> QED BY <3>4 DEF Abstract!Next
  <2>4. CASE SealMarker
    <3>1. /\ at = "seal" /\ marker' = [marker EXCEPT !.phase = "committed"]
          /\ UNCHANGED <<target, backup>>
      BY <2>1, <2>4 DEF SealMarker, Sets
    <3>2. /\ marker.phase = "applying" /\ marker.entries = Entries /\ Meta \in marker.existed
          /\ \A f \in Entries : target[f] = captures
      BY <2>1, <3>1 DEF Undisturbed, Replacing
    <3>3. Meta \in File /\ Entries \subseteq File /\ captures \in 1..MaxCaptures /\ Entries = selected \union {Last}
      BY <2>1, <3>1, CaptureAssumption
      DEF CaptureTypeOK, Undisturbed, Born, Entries, Meta, File, Creds
    <3>4. Image[Last] # NoFile
      BY <2>1, <3>2, <3>3 DEF Undisturbed, Marked, Image, Effective, Meta
    <3>5. \A f \in File : Effective(f) = (IF f \in Entries THEN Effective(f) ELSE target[f])
      BY <3>2 DEF Effective
    <3>6. \A f \in File : Effective(f)' = target[f]
      BY <2>1, <3>1 DEF Effective, CaptureTypeOK
    <3>7. Image' = [f \in File |-> IF f \in Entries THEN captures ELSE Image[f]]
      BY <3>2, <3>5, <3>6 DEF Image
    <3>8. Abstract!Capture(captures, selected)
      BY <3>3, <3>4, <3>7 DEF Abstract!Capture, Abstract!File, File
    <3> QED BY <2>1, <3>3, <3>8 DEF Abstract!Next, Abstract!File, File, Entries
  <2> QED BY <2>1, <2>2, <2>3, <2>4, UndisturbedSteps
<1> QED BY <1>1, <1>2, CaptureInvariance, PTL DEF CaptureSpec, ImplementsAbstractProfile

-----------------------------------------------------------------------------
(* How a capture ends, whatever fails *)

\* The marker is gone when the profile is, and when nothing has been put in place yet.
Unmarked ==
  \/ ~exists
  \/ at \in {"mkdir", "meta", "read", "stage", "mark"}
  \/ at \in RecoveryLabels /\ caller = "commit"

\* Steps before any staged file is put in place: a capture that ends there changed no target.
Early ==
  \/ at \in {"mkdir", "meta", "read", "stage", "mark"}
  \/ at \in RecoveryLabels /\ caller # "handler"

\* The commit point is passed, and no error has been met since that recovery cannot finish.
Sealed == at \in {"clean", "unmark"} \/ (at \in RecoveryLabels /\ caller = "handler" /\ committed)

\* No file, nor the memory of one, is newer than the capture.
Dated ==
  /\ \A f \in File : {target[f], stage[f], backup[f], prior[f]} \subseteq (0..captures) \union {NoFile}
  /\ at # "idle" \/ outcome # "none" => captures >= 1
  /\ captures >= 1 => \A f \in File :
       /\ backup[f] # captures /\ prior[f] # captures
       /\ f \notin Entries => target[f] # captures
  /\ Early => \A f \in File : target[f] # captures

\* What is staged, and what is in place of it.
Placing ==
  /\ at \notin {"idle", "mkdir"} => exists
  /\ Unmarked => marker = NoMarker
  /\ at = "stage" => Meta \in todo /\ todo \subseteq Entries
  /\ at = "stage" => \A f \in Entries \ todo : stage[f] = captures
  /\ at = "mark" \/ (at \in RecoveryLabels /\ caller = "commit") => \A f \in Entries : stage[f] = captures
  /\ at \in {"restore", "unstage"} => caller # "commit"
  /\ at \in {"move", "place", "seal"} =>
       /\ todo \subseteq Entries /\ (at = "seal" <=> todo = {})
       /\ \A f \in todo : stage[f] = captures /\ target[f] # captures
       /\ \A f \in Entries \ todo : target[f] = captures
  /\ committed => at \in {"idle", "discard", "rewrite", "remeta"} \/ (Sealed /\ at \notin {"restore", "unstage"})
  /\ Sealed => /\ committed /\ \A f \in Entries : target[f] = captures
               /\ marker = NoMarker \/ marker.phase = "committed"

\* What the rollback has put back, unless it met an error.
Undoing ==
  /\ at = "rewrite" /\ ~broken => \A f \in selected \ todo : target[f] # captures
  /\ at = "remeta" /\ ~broken => \A f \in selected : target[f] # captures

\* What the outcome says.
Ended ==
  at = "idle" =>
    /\ outcome = "none" => selected = {}
    /\ outcome = "ok" => marker = NoMarker /\ \A f \in Entries : target[f] = captures
    /\ outcome = "error" => \A f \in File : target[f] # captures

EndingInv == Dated /\ Placing /\ Undoing /\ Ended

\* What a recovery would lead to is of one capture.
Whole ==
  \/ \A f \in Entries : Effective(f) = captures
  \/ \A f \in Entries : Effective(f) # captures

\* Where an exception leads, by the operation that throws it.
Thrown ==
  \/ /\ at \in {"mkdir", "meta"} \/ (at \in RecoveryLabels /\ caller = "snapshot")
     /\ at' = "idle" /\ todo' = {} /\ outcome' = "error" /\ caller' = caller
  \/ /\ at \in {"stage", "mark"} \/ (at \in RecoveryLabels /\ caller # "snapshot")
     /\ at' = "discard" /\ todo' = selected /\ UNCHANGED <<caller, outcome>>
  \/ /\ at \in CommitLabels
     /\ at' = "recover" /\ todo' = marker'.entries /\ caller' = "handler" /\ outcome' = outcome

\* The exception of an operation leads there.
LEMMA ThrowFlow ==
  ASSUME Throw, at \in RecoveryLabels \union CommitLabels \union {"mkdir", "meta", "stage", "mark"}
  PROVE  Thrown
<1> USE DEF RecoveryLabels, CommitLabels
<1>1. CASE at \in RecoveryLabels
  BY <1>1 DEF Throw, Thrown, RecoveryThrows, End, Advance
<1>2. CASE at \in CommitLabels
  BY <1>2 DEF Throw, Thrown, CallRecovery
<1>3. CASE at \in {"mkdir", "meta"}
  BY <1>3 DEF Throw, Thrown, End
<1>4. CASE at \in {"stage", "mark"}
  BY <1>4 DEF Throw, Thrown, Advance
<1> QED
  BY <1>1, <1>2, <1>3, <1>4

-----------------------------------------------------------------------------
(* Every step keeps it *)

\* A capture begins: nothing is as new as it.
LEMMA BeginCaptureEnds ==
  ASSUME CaptureTypeOK, EndingInv, NEW live \in SUBSET Creds, BeginCapture(live)
  PROVE  EndingInv'
<1> USE CaptureAssumption DEF EndingInv, RecoveryLabels, CommitLabels
<1>1. /\ at = "idle" /\ captures \in Nat /\ captures' = captures + 1
      /\ committed' = FALSE /\ broken' = FALSE /\ UNCHANGED <<exists, target, stage, backup, marker, prior, outcome>>
      /\ \/ exists /\ at' = "recover" /\ caller' = "snapshot" /\ todo' = marker.entries
         \/ ~exists /\ at' = "mkdir" /\ todo' = {} /\ caller' = caller
  BY DEF BeginCapture, files, CallRecovery, Advance, CaptureTypeOK
<1>2. Dated'
  BY <1>1 DEF Dated, Early, Entries
<1>3. Placing'
  BY <1>1 DEF Placing, Unmarked, Sealed
<1>4. Undoing' /\ Ended'
  BY <1>1 DEF Undoing, Ended
<1> QED
  BY <1>2, <1>3, <1>4

\* The directory of a new profile.
LEMMA CreateDirectoryEnds ==
  ASSUME CaptureTypeOK, EndingInv, CreateDirectory
  PROVE  EndingInv'
<1> USE CaptureAssumption DEF EndingInv, RecoveryLabels, CommitLabels
<1>1. /\ at = "mkdir" /\ UNCHANGED <<target, stage, backup, marker, selected, prior, committed, broken, captures>>
      /\ \/ exists' = TRUE /\ at' = "meta" /\ todo' = {} /\ UNCHANGED <<caller, outcome>>
         \/ exists' \in {exists, TRUE} /\ Thrown
  BY ThrowFlow DEF CreateDirectory, Operation, Quiet, memory, files, Advance
<1>2. Dated'
  BY <1>1 DEF Thrown, Dated, Early, Entries
<1>3. Placing'
  BY <1>1 DEF Thrown, Placing, Unmarked, Sealed
<1>4. Undoing' /\ Ended'
  BY <1>1 DEF Thrown, Undoing, Ended, Dated, Early
<1> QED
  BY <1>2, <1>3, <1>4

\* Its first meta.json.
LEMMA WriteFirstMetaEnds ==
  ASSUME CaptureTypeOK, EndingInv, WriteFirstMeta
  PROVE  EndingInv'
<1> USE CaptureAssumption DEF EndingInv, RecoveryLabels, CommitLabels
<1>1. /\ at = "meta" /\ UNCHANGED <<stage, backup, marker, selected, prior, committed, broken, captures>>
      /\ \/ /\ target' = Put(target, Meta, 0) /\ exists' = exists
            /\ at' = "read" /\ todo' = {} /\ UNCHANGED <<caller, outcome>>
         \/ target' \in {target, Put(target, Meta, 0)} /\ exists' = exists /\ Thrown
         \/ /\ exists' = FALSE /\ target' = Nothing
            /\ at' = "idle" /\ todo' = {} /\ outcome' = "error" /\ caller' = caller
  BY ThrowFlow DEF WriteFirstMeta, Operation, Sets, Quiet, memory, files, Advance, End
<1>2. captures \in Nat /\ captures >= 1 /\ \A f \in File : target'[f] \in {target[f], 0, NoFile}
  BY <1>1 DEF CaptureTypeOK, Dated, Put, Nothing
<1>3. Dated'
  BY <1>1, <1>2 DEF Thrown, Dated, Early, Entries
<1>4. Placing'
  BY <1>1, <1>2 DEF Thrown, Placing, Unmarked, Sealed
<1>5. Undoing' /\ Ended'
  BY <1>1, <1>2 DEF Thrown, Undoing, Ended, Dated, Early
<1> QED
  BY <1>3, <1>4, <1>5

\* The values before the capture are read.
LEMMA ReadPriorEnds ==
  ASSUME CaptureTypeOK, EndingInv, ReadPrior
  PROVE  EndingInv'
<1> USE CaptureAssumption DEF EndingInv, RecoveryLabels, CommitLabels
<1>1. /\ at = "read" /\ UNCHANGED <<exists, target, stage, backup, marker, selected, committed, broken, captures>>
      /\ prior' = [f \in File |-> IF f \in Entries THEN target[f] ELSE NoFile]
      /\ at' = "stage" /\ todo' = Entries /\ UNCHANGED <<caller, outcome>>
  BY DEF ReadPrior, files, Advance
<1>2. captures \in Nat
  BY DEF CaptureTypeOK
<1>3. Dated'
  BY <1>1, <1>2 DEF Dated, Early, Entries
<1>4. Placing'
  BY <1>1 DEF Placing, Unmarked, Sealed, Entries
<1>5. Undoing' /\ Ended'
  BY <1>1 DEF Undoing, Ended
<1> QED
  BY <1>3, <1>4, <1>5

\* A file is staged; meta.json is the last one.
LEMMA StageFileEnds ==
  ASSUME CaptureTypeOK, EndingInv, StageFile
  PROVE  EndingInv'
<1> USE CaptureAssumption DEF EndingInv, RecoveryLabels, CommitLabels
<1>1. /\ at = "stage" /\ UNCHANGED <<exists, target, backup, marker, selected, prior, committed, broken, captures>>
      /\ \/ /\ stage' = Put(stage, First, captures) /\ First = Meta /\ outcome' = outcome
            /\ at' = "recover" /\ todo' = marker.entries /\ caller' = "commit"
         \/ /\ stage' = Put(stage, First, captures) /\ First # Meta
            /\ at' = "stage" /\ todo' = todo \ {First} /\ UNCHANGED <<caller, outcome>>
         \/ stage' \in {stage, Put(stage, First, captures)} /\ Thrown
  BY ThrowFlow DEF StageFile, Operation, Sets, Quiet, memory, files, Advance, CallRecovery
<1>2. /\ Entries \subseteq File /\ captures \in Nat /\ Meta \in todo /\ todo \subseteq Entries
      /\ First \in todo /\ \A f \in todo : First <= f
  BY <1>1, ValuesTyped, MinIn DEF First, Placing, CaptureTypeOK
<1>3. First = Meta => todo = {Meta}
  <2>1. \A f \in todo : f \in Nat /\ f <= Meta /\ Meta \in Nat
    BY <1>2 DEF File, Meta
  <2> QED
    BY <1>2, <2>1
<1>4. \A f \in File : stage'[f] \in {stage[f], captures}
  BY <1>1, <1>2 DEF CaptureTypeOK, Put
<1>5. Dated'
  BY <1>1, <1>2, <1>4 DEF Thrown, Dated, Early, Entries
<1>6. Placing'
  BY <1>1, <1>2, <1>3 DEF Thrown, Placing, Unmarked, Sealed, Put, CaptureTypeOK, Entries
<1>7. Undoing' /\ Ended'
  BY <1>1 DEF Thrown, Undoing, Ended
<1> QED
  BY <1>5, <1>6, <1>7

\* The marker of the transaction is written.
LEMMA WriteMarkerEnds ==
  ASSUME CaptureTypeOK, EndingInv, WriteMarker
  PROVE  EndingInv'
<1> USE CaptureAssumption DEF EndingInv, RecoveryLabels, CommitLabels
<1>1. /\ at = "mark" /\ UNCHANGED <<exists, target, stage, backup, selected, prior, committed, broken, captures>>
      /\ \/ at' \in {"move", "place"} /\ todo' = Entries /\ UNCHANGED <<caller, outcome>>
         \/ Thrown
  BY ThrowFlow DEF WriteMarker, Operation, Sets, Quiet, memory, files, Advance, MoveOrPlace, Entries
<1>2. Dated'
  BY <1>1 DEF Thrown, Dated, Early, Entries
<1>3. Entries \subseteq File /\ \A f \in File : target[f] # captures
  BY <1>1, ValuesTyped DEF Dated, Early
<1>4. Placing'
  BY <1>1, <1>3 DEF Thrown, Placing, Unmarked, Sealed, Entries
<1>5. Undoing' /\ Ended'
  BY <1>1 DEF Thrown, Undoing, Ended
<1> QED
  BY <1>2, <1>4, <1>5

\* An artifact is moved to its backup.
LEMMA MoveToBackupEnds ==
  ASSUME CaptureTypeOK, EndingInv, MoveToBackup
  PROVE  EndingInv'
<1> USE CaptureAssumption DEF EndingInv, RecoveryLabels, CommitLabels
<1>0. /\ at = "move" /\ captures \in Nat /\ captures # NoFile /\ Entries \subseteq File
      /\ First \in todo /\ todo \subseteq Entries
  BY ValuesTyped, MinIn DEF MoveToBackup, First, Placing, CaptureTypeOK
<1>1. /\ UNCHANGED <<exists, stage, marker, selected, prior, committed, broken, captures>>
      /\ \/ target' = Put(target, First, NoFile) /\ backup' = Put(backup, First, target[First])
         \/ UNCHANGED <<target, backup>>
      /\ \/ at' = "place" /\ todo' = todo /\ UNCHANGED <<caller, outcome>>
         \/ Thrown
  BY <1>0, ThrowFlow DEF MoveToBackup, Operation, Sets, Quiet, memory, files, Advance
<1>2. target[First] # captures
  BY <1>0 DEF Placing
<1>3. /\ \A f \in File : backup'[f] # captures /\ backup'[f] \in {backup[f], target[f]}
      /\ \A f \in File : target'[f] \in {target[f], NoFile}
  BY <1>0, <1>1, <1>2 DEF CaptureTypeOK, Put, Dated
<1>4. \A f \in File : f # First => target'[f] = target[f]
  BY <1>1 DEF CaptureTypeOK, Put
<1>5. Dated'
  BY <1>0, <1>1, <1>3 DEF Thrown, Dated, Early, Entries
<1>6. Placing'
  BY <1>0, <1>1, <1>3, <1>4 DEF Thrown, Placing, Unmarked, Sealed, Entries
<1>7. Undoing' /\ Ended'
  BY <1>0, <1>1 DEF Thrown, Undoing, Ended
<1> QED
  BY <1>5, <1>6, <1>7

\* A staged file takes its place.
LEMMA PlaceStagedEnds ==
  ASSUME CaptureTypeOK, EndingInv, PlaceStaged
  PROVE  EndingInv'
<1> USE CaptureAssumption DEF EndingInv, RecoveryLabels, CommitLabels
<1>0. /\ at = "place" /\ captures \in Nat /\ captures # NoFile /\ Entries \subseteq File
      /\ First \in todo /\ todo \subseteq Entries /\ stage[First] = captures
  BY ValuesTyped, MinIn DEF PlaceStaged, First, Placing, CaptureTypeOK
<1>1. /\ UNCHANGED <<exists, backup, marker, selected, prior, committed, broken, captures>>
      /\ \/ /\ target' = Put(target, First, captures) /\ stage' = Put(stage, First, NoFile)
            /\ \/ at' \in {"move", "place"} /\ todo' = todo \ {First} /\ todo' # {}
               \/ at' = "seal" /\ todo' = {} /\ todo = {First}
            /\ UNCHANGED <<caller, outcome>>
         \/ target' \in {target, Put(target, First, captures)} /\ stage' \in {stage, Put(stage, First, NoFile)} /\ Thrown
  BY <1>0, ThrowFlow DEF PlaceStaged, Operation, Sets, Quiet, memory, files, Advance, MoveOrPlace
<1>2. /\ \A f \in File : f # First => target'[f] = target[f] /\ stage'[f] = stage[f]
      /\ target'[First] \in {target[First], captures} /\ stage'[First] \in {stage[First], NoFile}
      /\ ~Thrown => target'[First] = captures
  BY <1>0, <1>1 DEF CaptureTypeOK, Put
<1>3. Dated'
  BY <1>0, <1>1, <1>2 DEF Thrown, Dated, Early, Entries
<1>4. Placing'
  <2>1. CASE Thrown
    BY <1>0, <1>1, <1>2, <2>1 DEF Thrown, Placing, Unmarked, Sealed, Entries
  <2>2. CASE ~Thrown
    BY <1>0, <1>1, <1>2, <2>2 DEF Placing, Unmarked, Sealed, Entries
  <2> QED
    BY <2>1, <2>2
<1>5. Undoing' /\ Ended'
  BY <1>0, <1>1 DEF Thrown, Undoing, Ended
<1> QED
  BY <1>3, <1>4, <1>5

\* The commit point; reported as failed, it is taken back.
LEMMA SealMarkerEnds ==
  ASSUME CaptureTypeOK, EndingInv, SealMarker
  PROVE  EndingInv'
<1> USE CaptureAssumption DEF EndingInv, RecoveryLabels, CommitLabels
<1>1. /\ at = "seal" /\ UNCHANGED <<exists, target, stage, backup, selected, prior, broken, captures>>
      /\ \/ /\ marker' = [marker EXCEPT !.phase = "committed"] /\ committed' = TRUE
            /\ at' = "clean" /\ todo' = marker.existed /\ UNCHANGED <<caller, outcome>>
         \/ committed' = committed /\ Thrown
  BY ThrowFlow DEF SealMarker, Sets, Quiet, memory, files, Advance
<1>2. marker'.phase = "committed" \/ Thrown
  BY <1>1 DEF CaptureTypeOK
<1>3. Dated'
  BY <1>1 DEF Thrown, Dated, Early, Entries
<1>4. Placing'
  BY <1>1, <1>2 DEF Thrown, Placing, Unmarked, Sealed, Entries
<1>5. Undoing' /\ Ended'
  BY <1>1 DEF Thrown, Undoing, Ended
<1> QED
  BY <1>3, <1>4, <1>5

\* A backup goes away.
LEMMA CleanBackupEnds ==
  ASSUME CaptureTypeOK, EndingInv, CleanBackup
  PROVE  EndingInv'
<1> USE CaptureAssumption DEF EndingInv, RecoveryLabels, CommitLabels
<1>1. /\ at = "clean" /\ UNCHANGED <<exists, target, stage, marker, selected, prior, committed, broken, captures>>
      /\ backup' \in {backup, Put(backup, First, NoFile)}
      /\ \/ at' \in {"unmark", "clean"} /\ UNCHANGED <<caller, outcome>>
         \/ Thrown
  BY ThrowFlow DEF CleanBackup, Operation, Sets, Quiet, memory, files, Advance
<1>2. captures \in Nat /\ \A f \in File : backup'[f] \in {backup[f], NoFile}
  BY <1>1 DEF CaptureTypeOK, Put
<1>3. Dated'
  BY <1>1, <1>2 DEF Thrown, Dated, Early, Entries
<1>4. Placing'
  BY <1>1 DEF Thrown, Placing, Unmarked, Sealed, Entries
<1>5. Undoing' /\ Ended'
  BY <1>1 DEF Thrown, Undoing, Ended
<1> QED
  BY <1>3, <1>4, <1>5

\* The marker goes away, and the capture is done.
LEMMA UnmarkEnds ==
  ASSUME CaptureTypeOK, EndingInv, Unmark
  PROVE  EndingInv'
<1> USE CaptureAssumption DEF EndingInv, RecoveryLabels, CommitLabels
<1>1. /\ at = "unmark" /\ UNCHANGED <<exists, target, stage, backup, selected, prior, committed, broken, captures>>
      /\ \/ marker' = NoMarker /\ at' = "idle" /\ todo' = {} /\ outcome' = "ok" /\ UNCHANGED caller
         \/ marker' \in {marker, NoMarker} /\ Thrown
  BY ThrowFlow DEF Unmark, Operation, Sets, Quiet, memory, files, End
<1>2. Dated'
  BY <1>1 DEF Thrown, Dated, Early, Entries
<1>3. Placing'
  BY <1>1 DEF Thrown, Placing, Unmarked, Sealed, Entries
<1>4. Undoing' /\ Ended'
  BY <1>1 DEF Thrown, Undoing, Ended, Placing, Sealed, Entries
<1> QED
  BY <1>2, <1>3, <1>4

\* Where a recovery that succeeds leads, by its call site.
Recovered ==
  \/ caller = "snapshot" /\ at' = "read" /\ todo' = {} /\ outcome' = outcome
  \/ caller = "commit" /\ at' = "mark" /\ todo' = {} /\ outcome' = outcome
  \/ caller = "handler" /\ committed /\ at' = "idle" /\ todo' = {} /\ outcome' = "ok"
  \/ caller = "handler" /\ ~committed /\ at' = "discard" /\ todo' = selected /\ outcome' = outcome

\* A recovery that succeeds leads there.
LEMMA RecoveredFlow ==
  ASSUME CaptureTypeOK, RecoveryReturns
  PROVE  Recovered /\ caller' = caller
<1>1. CASE caller = "snapshot"
  BY <1>1 DEF RecoveryReturns, Recovered, Advance
<1>2. CASE caller = "commit"
  BY <1>2 DEF RecoveryReturns, Recovered, Advance
<1>3. CASE caller = "handler"
  BY <1>3 DEF RecoveryReturns, Recovered, Advance, End
<1> QED
  BY <1>1, <1>2, <1>3 DEF CaptureTypeOK

\* A recovery that succeeds leaves no marker.
LEMMA RecoveredEnds ==
  ASSUME CaptureTypeOK, EndingInv, at = "recover", Recovered, caller' = caller, marker' = NoMarker,
         UNCHANGED <<exists, target, stage, backup, selected, prior, committed, broken, captures>>
  PROVE  EndingInv'
<1> USE CaptureAssumption DEF EndingInv, RecoveryLabels, CommitLabels
<1>1. Dated'
  BY DEF Recovered, Dated, Early, Entries
<1>2. Placing'
  BY DEF Recovered, Placing, Unmarked, Sealed, Entries
<1>3. Undoing' /\ Ended'
  BY DEF Recovered, Undoing, Ended, Placing, Sealed, Entries
<1> QED
  BY <1>1, <1>2, <1>3

\* An exception in the recovery: before the capture it ends it, within it the rollback follows.
LEMMA RecoveryThrowsEnds ==
  ASSUME CaptureTypeOK, EndingInv, at \in RecoveryLabels, RecoveryThrows,
         UNCHANGED <<exists, target, stage, backup, marker, selected, prior, committed, broken, captures>>
  PROVE  EndingInv'
<1> USE CaptureAssumption DEF EndingInv, RecoveryLabels, CommitLabels
<1>1. \/ caller = "snapshot" /\ at' = "idle" /\ todo' = {} /\ outcome' = "error" /\ UNCHANGED caller
      \/ caller # "snapshot" /\ at' = "discard" /\ todo' = selected /\ UNCHANGED <<caller, outcome>>
  BY DEF RecoveryThrows, End, Advance
<1>2. Dated'
  BY <1>1 DEF Dated, Early, Entries
<1>3. Placing'
  BY <1>1 DEF Placing, Unmarked, Sealed, Entries
<1>4. Undoing' /\ Ended'
  BY <1>1 DEF Undoing, Ended, Dated, Early
<1> QED
  BY <1>2, <1>3, <1>4

\* A file operation of the recovery only removes files and puts backups back.
LEMMA RecoveryOperationEnds ==
  ASSUME CaptureTypeOK, EndingInv, at \in RecoveryLabels,
         UNCHANGED <<exists, marker, selected, prior, committed, broken, captures>>,
         \A f \in File : /\ target'[f] \in {target[f], backup[f], NoFile}
                         /\ stage'[f] \in {stage[f], NoFile} /\ backup'[f] \in {backup[f], NoFile},
         Sealed => target' = target,
         caller = "commit" => stage' = stage,
         \/ Thrown
         \/ at' \in RecoveryLabels /\ UNCHANGED <<caller, outcome>>,
         at' \in {"restore", "unstage"} => caller # "commit",
         Sealed /\ ~Thrown => at' = "recover"
  PROVE  EndingInv'
<1> USE CaptureAssumption DEF EndingInv, RecoveryLabels, CommitLabels
<1>1. captures \in Nat /\ captures >= 1
  BY DEF CaptureTypeOK, Dated
<1>2. Dated'
  BY <1>1 DEF Thrown, Dated, Early, Entries
<1>3. Placing'
  BY <1>1 DEF Thrown, Placing, Unmarked, Sealed, Entries
<1>4. Undoing' /\ Ended'
  BY <1>1, <1>2 DEF Thrown, Undoing, Ended, Dated, Early
<1> QED
  BY <1>2, <1>3, <1>4

\* There is nothing to recover.
LEMMA NoMarkerFoundEnds ==
  ASSUME CaptureTypeOK, EndingInv, NoMarkerFound
  PROVE  EndingInv'
<1>1. /\ at = "recover" /\ marker = NoMarker /\ RecoveryReturns
      /\ UNCHANGED <<exists, target, stage, backup, marker, selected, prior, committed, broken, captures>>
  BY DEF NoMarkerFound, Quiet, memory, files
<1> QED
  BY <1>1, RecoveredFlow, RecoveredEnds

\* A committed entry loses its backup.
LEMMA RecoverCommittedEnds ==
  ASSUME CaptureTypeOK, EndingInv, RecoverCommitted
  PROVE  EndingInv'
<1> USE DEF RecoveryLabels, CommitLabels
<1>1. CASE RecoveryThrows /\ UNCHANGED <<files, faults>> /\ Quiet
  BY <1>1, RecoveryThrowsEnds DEF RecoverCommitted, files, Quiet, memory
<1>2. CASE ~(RecoveryThrows /\ UNCHANGED <<files, faults>> /\ Quiet)
  <2>1. /\ at = "recover"
        /\ UNCHANGED <<exists, target, stage, marker, selected, prior, committed, broken, captures>>
        /\ backup' \in {backup, Put(backup, Current, NoFile)}
        /\ Thrown \/ (at' = "recover" /\ UNCHANGED <<caller, outcome>>)
    BY <1>2, ThrowFlow DEF RecoverCommitted, IfAny, Operation, AfterEntry, Sets, Quiet, memory, files, Advance
  <2>2. \A f \in File : backup'[f] \in {backup[f], NoFile}
    BY <2>1 DEF Put, CaptureTypeOK
  <2>3. ~(at' \in {"restore", "unstage"})
    BY <2>1 DEF Thrown
  <2> QED
    BY <2>1, <2>2, <2>3, RecoveryOperationEnds
<1> QED
  BY <1>1, <1>2

\* An entry of an interrupted capture.
LEMMA RecoverApplyingEnds ==
  ASSUME CaptureTypeOK, EndingInv, RecoverApplying
  PROVE  EndingInv'
<1> USE DEF RecoveryLabels, CommitLabels
<1>0. at = "recover" /\ ~Sealed /\ caller # "commit"
  BY DEF RecoverApplying, EndingInv, Placing, Unmarked, NoMarker
<1>1. CASE RecoveryThrows /\ UNCHANGED <<files, faults>> /\ Quiet
  BY <1>0, <1>1, RecoveryThrowsEnds DEF files, Quiet, memory
<1>2. CASE ~(RecoveryThrows /\ UNCHANGED <<files, faults>> /\ Quiet)
  <2>1. /\ UNCHANGED <<exists, stage, backup, marker, selected, prior, committed, broken, captures>>
        /\ target' \in {target, Put(target, Current, NoFile)}
        /\ Thrown \/ (at' \in {"restore", "unstage"} /\ UNCHANGED <<caller, outcome>>)
    BY <1>0, <1>2, ThrowFlow DEF RecoverApplying, Operation, Sets, Quiet, memory, files, Advance
  <2>2. \A f \in File : target'[f] \in {target[f], NoFile}
    BY <2>1 DEF Put, CaptureTypeOK
  <2> QED
    BY <1>0, <2>1, <2>2, RecoveryOperationEnds
<1> QED
  BY <1>1, <1>2

\* The backup takes its place again, and the staged file goes away.
LEMMA RestoreEnds ==
  ASSUME CaptureTypeOK, EndingInv, RestoreBackup \/ RemoveStage
  PROVE  EndingInv'
<1> USE DEF RecoveryLabels, CommitLabels
<1>0. at \in {"restore", "unstage"} /\ ~Sealed /\ caller # "commit"
  BY DEF RestoreBackup, RemoveStage, EndingInv, Placing
<1>1. /\ UNCHANGED <<exists, marker, selected, prior, committed, broken, captures>>
      /\ Thrown \/ (at' \in {"recover", "unstage"} /\ UNCHANGED <<caller, outcome>>)
      /\ \/ UNCHANGED <<target, stage, backup>>
         \/ /\ target' = Put(target, Current, backup[Current]) /\ stage' = stage
            /\ backup' = Put(backup, Current, NoFile)
         \/ stage' = Put(stage, Current, NoFile) /\ UNCHANGED <<target, backup>>
  BY <1>0, ThrowFlow DEF RestoreBackup, RemoveStage, IfAny, AfterEntry, Operation, Sets, Quiet, memory, files,
     Advance
<1>2. \A f \in File : /\ target'[f] \in {target[f], backup[f]}
                      /\ stage'[f] \in {stage[f], NoFile} /\ backup'[f] \in {backup[f], NoFile}
  BY <1>1 DEF Put, CaptureTypeOK
<1> QED
  BY <1>0, <1>1, <1>2, RecoveryOperationEnds

\* The recovery is done.
LEMMA RemoveMarkerEnds ==
  ASSUME CaptureTypeOK, EndingInv, RemoveMarker
  PROVE  EndingInv'
<1> USE CaptureAssumption DEF RecoveryLabels, CommitLabels
<1>1. /\ at = "recover" /\ UNCHANGED <<exists, target, stage, backup, selected, prior, committed, broken, captures>>
      /\ \/ marker' = NoMarker /\ RecoveryReturns
         \/ marker' \in {marker, NoMarker} /\ Thrown
  BY ThrowFlow DEF RemoveMarker, Operation, Sets, Quiet, memory, files
<1>2. CASE marker' = NoMarker /\ RecoveryReturns
  BY <1>1, <1>2, RecoveredFlow, RecoveredEnds
<1>3. CASE marker' \in {marker, NoMarker} /\ Thrown
  <2> USE DEF EndingInv
  <2>1. Dated'
    BY <1>1, <1>3 DEF Thrown, Dated, Early, Entries
  <2>2. Placing'
    BY <1>1, <1>3 DEF Thrown, Placing, Unmarked, Sealed, Entries
  <2>3. Undoing' /\ Ended'
    BY <1>1, <1>3 DEF Thrown, Undoing, Ended, Dated, Early
  <2> QED
    BY <2>1, <2>2, <2>3
<1> QED
  BY <1>1, <1>2, <1>3

\* The staged files are discarded.
LEMMA DiscardEnds ==
  ASSUME CaptureTypeOK, EndingInv, Discard
  PROVE  EndingInv'
<1> USE CaptureAssumption DEF EndingInv, RecoveryLabels, CommitLabels
<1>1. /\ at = "discard"
      /\ UNCHANGED <<exists, target, backup, marker, selected, prior, committed, broken, captures, caller, outcome>>
      /\ stage' \in {stage, Put(stage, First, NoFile)}
      /\ (at' = "rewrite" /\ todo' = selected) \/ at' = "discard"
  BY DEF Discard, Sets, Quiet, memory, files, Advance
<1>2. captures \in Nat /\ \A f \in File : stage'[f] \in {stage[f], NoFile}
  BY <1>1 DEF Put, CaptureTypeOK
<1>3. Dated'
  BY <1>1, <1>2 DEF Dated, Early, Entries
<1>4. Placing'
  BY <1>1 DEF Placing, Unmarked, Sealed
<1>5. Undoing' /\ Ended'
  BY <1>1 DEF Undoing, Ended
<1> QED
  BY <1>3, <1>4, <1>5

\* A value before the capture is written back.
LEMMA RewritePriorEnds ==
  ASSUME CaptureTypeOK, EndingInv, RewritePrior
  PROVE  EndingInv'
<1> USE CaptureAssumption DEF EndingInv, RecoveryLabels, CommitLabels
<1>1. /\ at = "rewrite" /\ UNCHANGED <<exists, stage, backup, marker, selected, prior, committed, captures, caller, outcome>>
      /\ \/ target' = target /\ broken' = broken /\ todo = {} /\ at' = "remeta" /\ todo' = {}
         \/ /\ at' = "rewrite" /\ todo' = todo \ {First}
            /\ \/ target' = Put(target, First, prior[First]) /\ broken' = broken
               \/ target' \in {target, Put(target, First, prior[First])} /\ broken' = TRUE
  BY DEF RewritePrior, Attempt, Sets, Quiet, memory, files, Advance
<1>2. captures \in Nat /\ captures >= 1 /\ \A f \in File : prior[f] # captures
  BY <1>1 DEF Dated, CaptureTypeOK
<1>3. /\ \A f \in File : target'[f] \in {target[f], prior[f]}
      /\ ~broken' /\ at' = "rewrite" => \A f \in File : target'[f] = IF f = First THEN prior[f] ELSE target[f]
  BY <1>1 DEF Put, CaptureTypeOK
<1>4. Dated'
  BY <1>1, <1>2, <1>3 DEF Dated, Early, Entries
<1>5. Placing'
  BY <1>1 DEF Placing, Unmarked, Sealed
<1>6. selected \subseteq File
  BY ValuesTyped DEF CaptureTypeOK
<1>7. Undoing' /\ Ended'
  BY <1>1, <1>2, <1>3, <1>6 DEF Undoing, Ended
<1> QED
  BY <1>4, <1>5, <1>7

\* meta.json is written back, or the new profile deleted.
LEMMA RollbackMetaEnds ==
  ASSUME CaptureTypeOK, EndingInv, RollbackMeta
  PROVE  EndingInv'
<1> USE CaptureAssumption DEF EndingInv, RecoveryLabels, CommitLabels
<1>1. /\ at = "remeta" /\ UNCHANGED <<selected, prior, committed, captures, caller>>
      /\ at' = "idle" /\ todo' = {} /\ outcome' = IF broken' THEN "broken" ELSE "error"
      /\ \/ target' = Put(target, Meta, prior[Meta]) /\ UNCHANGED <<exists, stage, backup, marker>>
         \/ exists' = FALSE /\ target' = Nothing /\ stage' = Nothing /\ backup' = Nothing /\ marker' = NoMarker
         \/ broken' = TRUE /\ UNCHANGED <<exists, target, stage, backup, marker>>
      /\ ~broken' => ~broken
  BY DEF RollbackMeta, Attempt, Sets, memory, files, End
<1>2. captures \in Nat /\ captures >= 1 /\ \A f \in File : prior[f] # captures
  BY <1>1 DEF Dated, CaptureTypeOK
<1>3. /\ \A f \in File : target'[f] \in {target[f], prior[f], NoFile}
      /\ ~broken' => \A f \in File : target'[f] = NoFile \/ target'[f] = IF f = Meta THEN prior[f] ELSE target[f]
      /\ \A f \in File : stage'[f] \in {stage[f], NoFile} /\ backup'[f] \in {backup[f], NoFile}
  BY <1>1 DEF Put, Nothing, CaptureTypeOK
<1>4. Dated'
  BY <1>1, <1>2, <1>3 DEF Dated, Early, Entries
<1>5. Placing'
  <2>1. UNCHANGED <<exists, marker>> \/ (~exists' /\ marker' = NoMarker)
    BY <1>1
  <2>2. at' = "idle" /\ at = "remeta"
    BY <1>1
  <2> QED
    BY <2>1, <2>2 DEF Placing, Unmarked, Sealed
<1>6. broken' \in BOOLEAN
  BY <1>1, TypedSteps DEF CaptureTypeOK, CaptureNext, Rollback
<1>7. Undoing' /\ Ended'
  BY <1>1, <1>2, <1>3, <1>6 DEF Undoing, Ended, Dated, Entries
<1> QED
  BY <1>4, <1>5, <1>7

\* mat is killed.
LEMMA KillEnds ==
  ASSUME CaptureTypeOK, EndingInv, Kill
  PROVE  EndingInv'
<1> USE CaptureAssumption DEF EndingInv, RecoveryLabels, CommitLabels
<1>1. /\ at # "idle" /\ at' = "idle" /\ todo' = {} /\ outcome' \in {"killed", "cut"}
      /\ UNCHANGED <<exists, target, stage, backup, marker, selected, prior, committed, broken, captures, caller>>
  BY DEF Kill, End, memory, files
<1>2. Dated'
  BY <1>1 DEF Dated, Early, Entries
<1>3. Placing'
  BY <1>1 DEF Placing, Unmarked, Sealed
<1>4. Undoing' /\ Ended'
  BY <1>1 DEF Undoing, Ended
<1> QED
  BY <1>2, <1>3, <1>4

\* Nothing has been captured at first.
LEMMA EndingInit == CaptureInit => EndingInv
<1> SUFFICES ASSUME CaptureInit PROVE EndingInv
  OBVIOUS
<1> USE CaptureAssumption DEF CaptureInit, NoMarker, Nothing, RecoveryLabels
<1>1. Dated
  BY DEF Dated, Early
<1>2. Placing
  BY DEF Placing, Unmarked, Sealed
<1>3. Undoing /\ Ended
  BY DEF Undoing, Ended
<1> QED
  BY <1>1, <1>2, <1>3 DEF EndingInv

\* The inductive step.
LEMMA EndingSteps ==
  ASSUME CaptureTypeOK, EndingInv, [CaptureNext]_captureVars
  PROVE  EndingInv'
<1>1. CASE UNCHANGED captureVars
  BY <1>1 DEF EndingInv, Dated, Early, Placing, Unmarked, Sealed, Undoing, Ended, Entries, captureVars, files,
     memory
<1>2. CASE CaptureNext
  BY <1>2, BeginCaptureEnds, CreateDirectoryEnds, WriteFirstMetaEnds, ReadPriorEnds, StageFileEnds,
     WriteMarkerEnds, MoveToBackupEnds, PlaceStagedEnds, SealMarkerEnds, CleanBackupEnds, UnmarkEnds,
     NoMarkerFoundEnds, RecoverCommittedEnds, RecoverApplyingEnds, RestoreEnds, RemoveMarkerEnds,
     DiscardEnds, RewritePriorEnds, RollbackMetaEnds, KillEnds
  DEF CaptureNext, Commit, Recover, Rollback
<1> QED
  BY <1>1, <1>2

\* It holds in every reachable state, whatever fails or is killed.
LEMMA EndingInvariance == CaptureSpec => []EndingInv
BY EndingInit, EndingSteps, CaptureTypeCorrect, PTL DEF CaptureSpec

\* Until the rollback writes, each entry put in place by the capture has its backup.
Backed ==
  at \in {"move", "place", "seal"} =>
    /\ marker.phase = "applying" /\ marker.entries = Entries
    /\ \A f \in marker.existed : backup[f] # NoFile \/ target[f] \notin {NoFile, captures}
    /\ \A f \in todo \intersect marker.existed :
         target[f] # NoFile \/ (at = "place" /\ f = First /\ backup[f] # NoFile)
    /\ at = "place" => First \notin marker.existed \/ backup[First] # NoFile
    /\ at = "move" => First \in marker.existed

\* The recovery in the handler of the commit takes back what it has done, or finishes it.
InHand ==
  at \in RecoveryLabels /\ caller = "handler" =>
    \/ /\ at = "recover" /\ marker.phase # "applying"
       /\ \A f \in Entries : target[f] = captures
    \/ /\ marker.phase = "applying" /\ marker.entries = Entries /\ todo \subseteq Entries
       /\ \A f \in marker.existed : backup[f] # NoFile \/ target[f] # captures
       /\ \A f \in Entries \ todo : target[f] # captures
       /\ at \in {"restore", "unstage"} => todo # {}
       /\ at = "unstage" => target[Current] # captures

\* The rollback writes the prior values, or did not finish to.
Rewriting == at \in {"rewrite", "remeta"} \/ (at = "idle" /\ outcome \in {"broken", "cut"})

SplitInv == Backed /\ InHand /\ (Rewriting \/ Whole)

\* Targets and backups that are older than the capture.
OldEntries == \A f \in Entries : target[f] # captures /\ backup[f] # captures

LEMMA OldWhole == CaptureTypeOK /\ OldEntries => Whole
<1> SUFFICES ASSUME CaptureTypeOK, OldEntries PROVE \A f \in Entries : Effective(f) # captures
  BY DEF Whole
<1>1. captures # NoFile
  BY CaptureAssumption DEF CaptureTypeOK
<1> QED
  BY <1>1 DEF OldEntries, Effective

\* While a capture runs, and has no rollback to do, its entries are of one capture.
Running == at \notin {"idle", "discard", "rewrite", "remeta"}

LEMMA RunningWhole == CaptureTypeOK /\ EndingInv /\ Backed /\ InHand /\ Running => Whole
<1> SUFFICES ASSUME CaptureTypeOK, EndingInv, Backed, InHand, Running PROVE Whole
  OBVIOUS
<1> USE DEF Running, EndingInv
<1>1. captures >= 1 /\ captures # NoFile /\ Entries \subseteq File
  BY ValuesTyped, CaptureAssumption DEF Dated, CaptureTypeOK
<1>2. \A f \in Entries : backup[f] # captures
  BY <1>1 DEF Dated
<1>3. CASE Early
  BY <1>1, <1>2, <1>3, OldWhole DEF Dated, OldEntries
<1>4. CASE at \in {"move", "place", "seal"}
  BY <1>1, <1>2, <1>4 DEF Backed, Whole, Effective
<1>5. CASE at \in {"clean", "unmark"}
  BY <1>5 DEF Placing, Sealed, Whole, Effective, NoMarker
<1>6. CASE at \in RecoveryLabels /\ caller = "handler"
  BY <1>1, <1>2, <1>6 DEF InHand, Whole, Effective
<1> QED
  BY <1>3, <1>4, <1>5, <1>6 DEF Early, CaptureTypeOK, CaptureLabels, RecoveryLabels, CommitLabels

\* A clean end is whole.
CleanEnd == at = "idle" /\ outcome \in {"none", "ok", "error"}

LEMMA EndWhole == CaptureTypeOK /\ EndingInv /\ CleanEnd => Whole
<1> SUFFICES ASSUME CaptureTypeOK, EndingInv, CleanEnd PROVE Whole
  OBVIOUS
<1> USE DEF CleanEnd, EndingInv
<1>1. captures # NoFile /\ Entries \subseteq File /\ Meta \in File
  BY ValuesTyped, CaptureAssumption DEF CaptureTypeOK
<1>2. CASE outcome = "none"
  BY <1>2 DEF Ended, Whole, Entries
<1>3. CASE outcome = "ok"
  BY <1>3 DEF Ended, Whole, Effective, NoMarker
<1>4. CASE outcome = "error"
  <2>1. captures >= 1
    BY <1>4 DEF Dated
  <2> QED
    BY <1>1, <1>4, <2>1, OldWhole DEF Ended, Dated, OldEntries
<1> QED
  BY <1>2, <1>3, <1>4

\* The three of the state after a step.
LEMMA WholeNext ==
  /\ CaptureTypeOK' /\ OldEntries' => Whole'
  /\ CaptureTypeOK' /\ EndingInv' /\ Backed' /\ InHand' /\ Running' => Whole'
  /\ CaptureTypeOK' /\ EndingInv' /\ CleanEnd' => Whole'
BY OldWhole, RunningWhole, EndWhole, PTL

\* After a step only what follows the end of a capture is left to show.
LEMMA SplitFrom ==
  ASSUME CaptureTypeOK', EndingInv', Backed', InHand',
         at' \in {"idle", "discard"} => Rewriting' \/ CleanEnd' \/ Whole'
  PROVE  SplitInv'
<1>1. CASE at' \in {"idle", "discard"}
  BY <1>1, WholeNext DEF SplitInv
<1>2. CASE at' \in {"rewrite", "remeta"}
  BY <1>2 DEF SplitInv, Rewriting
<1>3. CASE at' \notin {"idle", "discard", "rewrite", "remeta"}
  BY <1>3, WholeNext DEF SplitInv, Running
<1> QED
  BY <1>1, <1>2, <1>3

\* The steps before the marker is written, the ends of captures, and kills.
LEMMA SplitEarly ==
  ASSUME CaptureTypeOK, CaptureTypeOK', EndingInv, EndingInv', SplitInv,
         \/ \E live \in SUBSET Creds : BeginCapture(live)
         \/ CreateDirectory \/ WriteFirstMeta \/ ReadPrior \/ StageFile \/ Rollback \/ Kill
  PROVE  SplitInv'
<1> USE CaptureAssumption DEF RecoveryLabels, CommitLabels, Rewriting
<1>1. ASSUME NEW live \in SUBSET Creds, BeginCapture(live) PROVE SplitInv'
  <2>1. at' = "mkdir" \/ (at' = "recover" /\ caller' = "snapshot")
    BY <1>1 DEF BeginCapture, CallRecovery, Advance
  <2> QED
    BY <2>1, SplitFrom DEF Backed, InHand
<1>2. CASE CreateDirectory \/ WriteFirstMeta
  <2>1. at \in {"mkdir", "meta"}
    BY <1>2 DEF CreateDirectory, WriteFirstMeta
  <2>2. at' \in {"meta", "read"} \/ (at' = "idle" /\ outcome' = "error")
    BY <1>2, <2>1, ThrowFlow DEF CreateDirectory, WriteFirstMeta, Operation, Thrown, Advance, End
  <2> QED
    BY <2>2, SplitFrom DEF CleanEnd, Backed, InHand
<1>3. CASE ReadPrior
  <2>1. at' = "stage"
    BY <1>3 DEF ReadPrior, Advance
  <2> QED
    BY <2>1, SplitFrom DEF Backed, InHand
<1>4. CASE StageFile
  <2>1. at = "stage" /\ UNCHANGED <<target, backup, selected, captures>>
    BY <1>4 DEF StageFile, Operation, Sets, Quiet, memory, files
  <2>2. at' = "stage" \/ (at' = "recover" /\ caller' = "commit") \/ at' = "discard"
    BY <1>4, <2>1, ThrowFlow DEF StageFile, Operation, Thrown, Advance, CallRecovery
  <2>3. \A f \in Entries : target[f] # captures /\ backup[f] # captures
    BY <2>1, ValuesTyped DEF EndingInv, Dated, Early
  <2>4. Whole'
    BY <2>1, <2>3, WholeNext DEF OldEntries, Entries
  <2> QED
    BY <2>2, <2>4, SplitFrom DEF Backed, InHand
<1>5. CASE Discard
  <2>1. /\ at = "discard" /\ at' \in {"discard", "rewrite"}
        /\ UNCHANGED <<target, backup, marker, selected, captures>>
    BY <1>5 DEF Discard, Advance, Sets, Quiet, memory, files
  <2>2. Whole'
    BY <2>1 DEF SplitInv, Whole, Effective, Entries
  <2> QED
    BY <2>1, <2>2, SplitFrom DEF Backed, InHand
<1>6. CASE RewritePrior
  <2>1. at' \in {"rewrite", "remeta"}
    BY <1>6 DEF RewritePrior, Attempt, Advance
  <2> QED
    BY <2>1, SplitFrom DEF Backed, InHand
<1>7. CASE RollbackMeta
  <2>1. at' = "idle" /\ outcome' \in {"broken", "error"}
    BY <1>7 DEF RollbackMeta, Attempt, End
  <2> QED
    BY <2>1, SplitFrom DEF CleanEnd, Backed, InHand
<1>8. CASE Kill
  <2>1. /\ at # "idle" /\ at' = "idle" /\ UNCHANGED <<target, backup, marker, selected, captures>>
        /\ outcome' = IF at \in {"rewrite", "remeta"} THEN "cut" ELSE "killed"
    BY <1>8 DEF Kill, End, memory, files
  <2>2. CASE at \in {"rewrite", "remeta"}
    BY <2>1, <2>2, SplitFrom DEF Backed, InHand
  <2>3. CASE at \notin {"rewrite", "remeta"}
    <3>1. Whole'
      BY <2>1, <2>3 DEF SplitInv, Whole, Effective, Entries
    <3> QED
      BY <2>1, <3>1, SplitFrom DEF Backed, InHand
  <2> QED
    BY <2>2, <2>3
<1> QED
  BY <1>1, <1>2, <1>3, <1>4, <1>5, <1>6, <1>7, <1>8 DEF Rollback

\* The marker is written, and the entries are moved and replaced.
LEMMA SplitApplying ==
  ASSUME CaptureTypeOK, CaptureTypeOK', EndingInv, EndingInv', SplitInv,
         WriteMarker \/ MoveToBackup \/ PlaceStaged
  PROVE  SplitInv'
<1> USE CaptureAssumption DEF RecoveryLabels, CommitLabels
<1>0. captures \in Nat /\ captures # NoFile /\ Entries \subseteq File
  BY ValuesTyped DEF CaptureTypeOK
<1>1. CASE WriteMarker
  <2>1. /\ at = "mark" /\ UNCHANGED <<target, backup, selected, captures>>
        /\ \/ /\ marker' = [phase |-> "applying", entries |-> Entries, existed |-> Existing]
              /\ \/ Entries = {} /\ at' = "seal"
                 \/ /\ Entries # {} /\ todo' = Entries
                    /\ at' = IF Min(Entries) \in Existing THEN "move" ELSE "place"
           \/ at' = "discard"
    BY <1>1, ThrowFlow DEF WriteMarker, Operation, Sets, Quiet, memory, files, Advance, MoveOrPlace, Thrown
  <2>2. \A f \in Entries : target[f] # captures /\ backup[f] # captures
    BY <2>1, <1>0 DEF EndingInv, Dated, Early
  <2>3. Whole'
    BY <2>1, <2>2, WholeNext DEF OldEntries, Entries
  <2>4. Entries # {}
    BY DEF Entries
  <2>5. Backed'
    BY <2>1, <2>2, <2>4 DEF Backed, Existing, Entries, First
  <2> QED
    BY <2>1, <2>3, <2>5, SplitFrom DEF InHand
<1>2. CASE MoveToBackup
  <2>0. /\ at = "move" /\ First \in todo /\ todo \subseteq Entries
        /\ \A f \in todo : target[f] # captures
    BY <1>2, <1>0, MinIn DEF MoveToBackup, First, EndingInv, Placing
  <2>1. /\ UNCHANGED <<stage, marker, selected, captures>>
        /\ \/ target' = Put(target, First, NoFile) /\ backup' = Put(backup, First, target[First])
           \/ UNCHANGED <<target, backup>>
        /\ \/ /\ at' = "place" /\ todo' = todo
              /\ target' = Put(target, First, NoFile) /\ backup' = Put(backup, First, target[First])
           \/ Thrown
    BY <1>2, <2>0, ThrowFlow DEF MoveToBackup, Operation, Sets, Quiet, memory, files, Advance
  <2>2. CASE Thrown
    <3>1. /\ at' = "recover" /\ todo' = marker.entries /\ caller' = "handler"
          /\ marker.phase = "applying" /\ marker.entries = Entries
      BY <2>0, <2>1, <2>2 DEF Thrown, SplitInv, Backed
    <3>2. \A f \in marker.existed : backup'[f] # NoFile \/ target'[f] # captures
      BY <1>0, <2>0, <2>1 DEF SplitInv, Backed, Put, CaptureTypeOK
    <3>3. InHand'
      BY <2>1, <3>1, <3>2 DEF InHand, Entries
    <3> QED
      BY <3>1, <3>3, SplitFrom DEF Backed
  <2>3. CASE ~Thrown
    <3>1. \A f \in File : f # First => target'[f] = target[f] /\ backup'[f] = backup[f]
      BY <2>1, <2>3 DEF Put, CaptureTypeOK
    <3>2. target[First] # NoFile
      BY <2>0 DEF SplitInv, Backed, EndingInv
    <3>3. target'[First] = NoFile /\ backup'[First] = target[First]
      BY <1>0, <2>0, <2>1, <2>3 DEF Put, CaptureTypeOK
    <3>4. /\ at' = "place" /\ todo' = todo /\ First' = First /\ Entries' = Entries
          /\ marker' = marker /\ captures' = captures
      BY <2>1, <2>3 DEF First, Entries
    <3>5. marker.existed \subseteq File
      BY DEF CaptureTypeOK
    <3>6. /\ \A f \in marker.existed : backup'[f] # NoFile \/ target'[f] \notin {NoFile, captures}
          /\ \A f \in todo \intersect marker.existed :
               target'[f] # NoFile \/ (f = First /\ backup'[f] # NoFile)
      BY <2>0, <3>1, <3>2, <3>3, <3>5 DEF SplitInv, Backed
    <3>7. Backed'
      BY <2>0, <3>2, <3>3, <3>4, <3>6 DEF SplitInv, Backed
    <3> QED
      BY <3>4, <3>7, SplitFrom DEF InHand
  <2> QED
    BY <2>2, <2>3
<1>3. CASE PlaceStaged
  <2>0. /\ at = "place" /\ First \in todo /\ todo \subseteq Entries /\ stage[First] = captures
    BY <1>3, <1>0, MinIn DEF PlaceStaged, First, EndingInv, Placing
  <2>1. /\ UNCHANGED <<backup, marker, selected, captures>>
        /\ \/ /\ target' = Put(target, First, captures)
              /\ \/ todo = {First} /\ at' = "seal" /\ todo' = {}
                 \/ /\ todo' = todo \ {First} /\ todo' # {}
                    /\ at' = IF Min(todo \ {First}) \in marker.existed THEN "move" ELSE "place"
           \/ target' \in {target, Put(target, First, captures)} /\ Thrown
    BY <1>3, <2>0, ThrowFlow DEF PlaceStaged, Operation, Sets, Quiet, memory, files, Advance, MoveOrPlace
  <2>2. /\ \A f \in File : f # First => target'[f] = target[f]
        /\ target'[First] \in {target[First], captures}
    BY <1>0, <2>0, <2>1 DEF Put, CaptureTypeOK
  <2>3. First \in marker.existed => backup[First] # NoFile
    BY <2>0 DEF SplitInv, Backed
  <2>4. marker.existed \subseteq File
    BY DEF CaptureTypeOK
  <2>5. \A f \in marker.existed : backup[f] # NoFile \/ target'[f] \notin {NoFile, captures}
    BY <2>0, <2>2, <2>3, <2>4 DEF SplitInv, Backed
  <2>6. CASE Thrown
    <3>1. /\ at' = "recover" /\ todo' = marker.entries /\ caller' = "handler"
          /\ marker.phase = "applying" /\ marker.entries = Entries
      BY <2>0, <2>1, <2>6 DEF Thrown, SplitInv, Backed
    <3>2. InHand'
      BY <2>1, <2>5, <3>1 DEF InHand, Entries
    <3> QED
      BY <3>1, <3>2, SplitFrom DEF Backed
  <2>7. CASE ~Thrown
    <3>1. at' \in {"move", "place", "seal"} /\ First \notin todo' /\ todo' \subseteq todo
      BY <2>1, <2>7
    <3>2. \A f \in todo' \intersect marker.existed : target'[f] # NoFile
      BY <2>0, <2>2, <2>4, <3>1 DEF SplitInv, Backed
    <3>3. /\ at' = "place" => First' \notin marker.existed
          /\ at' = "move" => First' \in marker.existed
      BY <2>1, <2>7 DEF First
    <3>4. Backed'
      BY <2>0, <2>1, <2>5, <3>1, <3>2, <3>3 DEF SplitInv, Backed, Entries
    <3> QED
      BY <3>1, <3>4, SplitFrom DEF InHand
  <2> QED
    BY <2>6, <2>7
<1> QED
  BY <1>1, <1>2, <1>3

\* The marker is sealed, the backups and the marker go away.
LEMMA SplitSealed ==
  ASSUME CaptureTypeOK, CaptureTypeOK', EndingInv, EndingInv', SplitInv,
         SealMarker \/ CleanBackup \/ Unmark
  PROVE  SplitInv'
<1> USE CaptureAssumption DEF RecoveryLabels, CommitLabels
<1>1. CASE SealMarker
  <2>1. /\ at = "seal" /\ UNCHANGED <<target, backup, selected, captures>>
        /\ \/ at' = "clean"
           \/ marker' \in {marker, [marker EXCEPT !.phase = "committed"]} /\ Thrown
    BY <1>1, ThrowFlow DEF SealMarker, Sets, Quiet, memory, files, Advance
  <2>2. /\ marker.phase = "applying" /\ marker.entries = Entries
        /\ \A f \in marker.existed : backup[f] # NoFile \/ target[f] # captures
        /\ \A f \in Entries : target[f] = captures
    BY <2>1 DEF SplitInv, Backed, EndingInv, Placing
  <2>3. CASE Thrown
    <3>1. /\ at' = "recover" /\ todo' = marker'.entries /\ caller' = "handler"
      BY <2>1, <2>3 DEF Thrown
    <3>2. CASE marker' = marker
      <4>1. InHand'
        BY <2>1, <2>2, <3>1, <3>2 DEF InHand, Entries
      <4> QED
        BY <3>1, <4>1, SplitFrom DEF Backed
    <3>3. CASE marker' = [marker EXCEPT !.phase = "committed"]
      <4>1. marker'.phase = "committed"
        BY <3>3 DEF CaptureTypeOK
      <4>2. InHand'
        BY <2>1, <2>2, <3>1, <4>1 DEF InHand, Entries
      <4> QED
        BY <3>1, <4>2, SplitFrom DEF Backed
    <3>4. CASE at' = "clean"
      BY <3>1, <3>4
    <3> QED
      BY <2>1, <3>2, <3>3, <3>4
  <2>4. CASE at' = "clean"
    BY <2>4, SplitFrom DEF Backed, InHand
  <2> QED
    BY <2>1, <2>3, <2>4
<1>2. CASE CleanBackup
  <2>1. /\ at = "clean" /\ UNCHANGED <<target, marker, selected, captures>>
        /\ at' \in {"clean", "unmark"} \/ Thrown
    BY <1>2, ThrowFlow DEF CleanBackup, Operation, Sets, Quiet, memory, files, Advance
  <2>2. marker.phase # "applying" /\ \A f \in Entries : target[f] = captures
    BY <2>1 DEF EndingInv, Placing, Sealed, NoMarker
  <2>3. at' \in {"clean", "unmark"} \/ (at' = "recover" /\ caller' = "handler")
    BY <2>1 DEF Thrown
  <2>4. InHand'
    BY <2>1, <2>2, <2>3 DEF InHand, Entries
  <2> QED
    BY <2>3, <2>4, SplitFrom DEF Backed
<1>3. CASE Unmark
  <2>1. /\ at = "unmark" /\ UNCHANGED <<target, selected, captures>>
        /\ \/ at' = "idle" /\ outcome' = "ok"
           \/ marker' \in {marker, NoMarker} /\ Thrown
    BY <1>3, ThrowFlow DEF Unmark, Operation, Sets, Quiet, memory, files, End
  <2>2. marker.phase # "applying" /\ \A f \in Entries : target[f] = captures
    BY <2>1 DEF EndingInv, Placing, Sealed, NoMarker
  <2>3. CASE at' = "idle" /\ outcome' = "ok"
    BY <2>3, SplitFrom DEF CleanEnd, Backed, InHand
  <2>4. CASE marker' \in {marker, NoMarker} /\ Thrown
    <3>1. at' = "recover" /\ caller' = "handler" /\ marker'.phase # "applying"
      BY <2>1, <2>2, <2>4 DEF Thrown, NoMarker
    <3>2. InHand'
      BY <2>1, <2>2, <3>1 DEF InHand, Entries
    <3> QED
      BY <3>1, <3>2, SplitFrom DEF Backed
  <2> QED
    BY <2>1, <2>3, <2>4
<1> QED
  BY <1>1, <1>2, <1>3

\* A recovery that is done: before the capture it touches nothing newer, within it all entries are
\* put in place or all taken back.
LEMMA SplitRecovered ==
  ASSUME CaptureTypeOK, CaptureTypeOK', EndingInv, EndingInv', SplitInv,
         at = "recover", RecoveryReturns \/ Thrown, todo = {} \/ marker = NoMarker,
         UNCHANGED <<target, backup, selected, captures>>,
         marker' = marker \/ marker' = NoMarker
  PROVE  SplitInv'
<1> USE CaptureAssumption DEF RecoveryLabels, CommitLabels
<1>0. captures \in Nat /\ captures # NoFile /\ captures >= 1 /\ Entries \subseteq File
  BY ValuesTyped DEF CaptureTypeOK, EndingInv, Dated
<1>1. \/ caller = "snapshot" /\ (at' = "read" \/ (at' = "idle" /\ outcome' = "error"))
      \/ caller = "commit" /\ at' \in {"mark", "discard"}
      \/ caller = "handler" /\ ((at' = "idle" /\ outcome' = "ok") \/ at' = "discard")
  BY RecoveredFlow DEF Recovered, Thrown, CaptureTypeOK
<1>2. Backed' /\ InHand'
  BY <1>1 DEF Backed, InHand
<1>3. CASE caller = "snapshot" \/ at' = "mark" \/ at' = "idle"
  BY <1>1, <1>2, <1>3, SplitFrom DEF CleanEnd
<1>4. CASE at' = "discard"
  <2>1. CASE caller = "commit"
    <3>1. \A f \in Entries : target[f] # captures /\ backup[f] # captures
      BY <1>0, <2>1 DEF EndingInv, Dated, Early
    <3>2. Whole'
      BY <3>1, WholeNext DEF OldEntries, Entries
    <3> QED
      BY <1>2, <1>4, <3>2, SplitFrom
  <2>2. CASE caller = "handler"
    <3>1. CASE marker.phase # "applying" /\ \A f \in Entries : target[f] = captures
      <4>1. marker'.phase # "applying"
        BY <3>1 DEF NoMarker
      <4>2. Whole'
        BY <3>1, <4>1 DEF Whole, Effective, Entries
      <4> QED
        BY <1>2, <1>4, <4>2, SplitFrom
    <3>2. CASE marker.phase = "applying" /\ \A f \in Entries \ todo : target[f] # captures
      <4>1. \A f \in Entries : target[f] # captures /\ backup[f] # captures
        BY <1>0, <3>2 DEF EndingInv, Dated, NoMarker
      <4>2. Whole'
        BY <4>1, WholeNext DEF OldEntries, Entries
      <4> QED
        BY <1>2, <1>4, <4>2, SplitFrom
    <3> QED
      BY <2>2, <3>1, <3>2 DEF SplitInv, InHand
  <2> QED
    BY <1>1, <1>4, <2>1, <2>2
<1> QED
  BY <1>1, <1>3, <1>4

\* An exception in the recovery leaves the files as they are; one in a file operation of it, too, or
\* they are the ones that the recovery wanted.
LEMMA SplitRecoveryThrows ==
  ASSUME CaptureTypeOK, CaptureTypeOK', EndingInv, EndingInv', SplitInv,
         at \in RecoveryLabels, RecoveryThrows \/ Thrown,
         UNCHANGED <<selected, captures, marker>>,
         \A f \in File : target'[f] \in {target[f], backup[f], NoFile} /\ backup'[f] \in {backup[f], NoFile},
         Sealed \/ (caller = "handler" /\ marker.phase # "applying") => target' = target,
         caller = "handler" /\ marker.phase = "applying" =>
           \A f \in marker.existed : backup'[f] # NoFile \/ target'[f] # captures
  PROVE  SplitInv'
<1> USE CaptureAssumption DEF RecoveryLabels, CommitLabels
<1>0. captures \in Nat /\ captures # NoFile /\ captures >= 1 /\ Entries \subseteq File
  BY ValuesTyped DEF CaptureTypeOK, EndingInv, Dated
<1>1. \/ caller = "snapshot" /\ at' = "idle" /\ outcome' = "error"
      \/ caller \in {"commit", "handler"} /\ at' = "discard"
  BY DEF RecoveryThrows, End, Advance, Thrown, CaptureTypeOK
<1>2. Backed' /\ InHand'
  BY <1>1 DEF Backed, InHand
<1>3. CASE caller = "snapshot"
  BY <1>1, <1>2, <1>3, SplitFrom DEF CleanEnd
<1>4. CASE caller = "commit"
  <2>1. \A f \in Entries : target'[f] # captures /\ backup'[f] # captures
    BY <1>0, <1>4 DEF EndingInv, Dated, Early
  <2>2. Whole'
    BY <2>1, WholeNext DEF OldEntries, Entries
  <2> QED
    BY <1>1, <1>2, <1>4, <2>2, SplitFrom
<1>5. CASE caller = "handler"
  <2>0. \A f \in Entries : backup'[f] # captures
    BY <1>0 DEF EndingInv, Dated
  <2>1. CASE marker.phase # "applying"
    BY <1>1, <1>2, <1>5, <2>1, SplitFrom DEF SplitInv, InHand, Whole, Effective, Entries
  <2>2. CASE marker.phase = "applying"
    <3>1. Whole'
      BY <1>0, <1>5, <2>0, <2>2 DEF SplitInv, InHand, Whole, Effective, Entries
    <3> QED
      BY <1>1, <1>2, <1>5, <3>1, SplitFrom
  <2> QED
    BY <2>1, <2>2
<1> QED
  BY <1>1, <1>3, <1>4, <1>5

\* The recovery goes over the entries.
LEMMA SplitRecovering ==
  ASSUME CaptureTypeOK, CaptureTypeOK', EndingInv, EndingInv', SplitInv,
         RecoverCommitted \/ RecoverApplying \/ RestoreBackup \/ RemoveStage
  PROVE  SplitInv'
<1> USE CaptureAssumption DEF RecoveryLabels, CommitLabels
<1>0. captures \in Nat /\ captures # NoFile /\ captures >= 1 /\ Entries \subseteq File
  <2>1. at # "idle"
    BY DEF RecoverCommitted, RecoverApplying, RestoreBackup, RemoveStage
  <2> QED
    BY <2>1, ValuesTyped DEF CaptureTypeOK, EndingInv, Dated
<1>1. CASE RecoverCommitted
  <2>1. /\ at = "recover" /\ marker.phase = "committed"
        /\ UNCHANGED <<target, marker, selected, captures>>
        /\ backup' \in {backup, Put(backup, Current, NoFile)}
        /\ RecoveryThrows \/ Thrown \/ (at' = "recover" /\ UNCHANGED caller)
    BY <1>1, ThrowFlow DEF RecoverCommitted, IfAny, Operation, AfterEntry, Sets, Quiet, memory, files, Advance
  <2>2. \A f \in File : backup'[f] \in {backup[f], NoFile}
    BY <2>1 DEF Put, CaptureTypeOK
  <2>3. CASE RecoveryThrows \/ Thrown
    BY <2>1, <2>2, <2>3, SplitRecoveryThrows
  <2>4. CASE at' = "recover" /\ UNCHANGED caller
    BY <2>1, <2>4, SplitFrom DEF SplitInv, Backed, InHand, Entries
  <2> QED
    BY <2>1, <2>3, <2>4
<1>2. CASE RecoverApplying
  <2>0. /\ at = "recover" /\ marker.phase = "applying" /\ Current \in todo /\ todo \subseteq File
        /\ UNCHANGED <<backup, marker, selected, captures>>
    BY <1>2, MaxIn DEF RecoverApplying, Current, CaptureTypeOK, Operation, Sets, Quiet, memory, files
  <2>a. ~Sealed
    BY <2>0 DEF EndingInv, Placing, NoMarker
  <2>1. /\ target' \in {target, Put(target, Current, NoFile)}
        /\ \/ RecoveryThrows \/ Thrown
           \/ at' = "restore" /\ todo' = todo /\ UNCHANGED caller
           \/ /\ at' = "unstage" /\ todo' = todo /\ UNCHANGED caller
              /\ \/ target' = Put(target, Current, NoFile)
                 \/ target' = target /\ backup[Current] = NoFile /\ (Current \in marker.existed \/ target[Current] = NoFile)
    BY <1>2, <2>0, ThrowFlow DEF RecoverApplying, Operation, Sets, Quiet, memory, files, Advance
  <2>2. \A f \in File : target'[f] \in {target[f], NoFile}
    BY <2>1 DEF Put, CaptureTypeOK
  <2>3. caller = "handler" => \A f \in marker.existed : backup'[f] # NoFile \/ target'[f] # captures
    <3>1. marker.existed \subseteq File
      BY DEF CaptureTypeOK
    <3> QED
      BY <1>0, <2>0, <2>2, <3>1 DEF SplitInv, InHand
  <2>4. CASE RecoveryThrows \/ Thrown
    BY <2>0, <2>a, <2>2, <2>3, <2>4, SplitRecoveryThrows
  <2>5. CASE at' \in {"restore", "unstage"} /\ todo' = todo /\ UNCHANGED caller
    <3>1. \A f \in Entries \ todo : target[f] # captures => target'[f] # captures
      BY <1>0, <2>2
    <3>2. Current' = Current
      BY <2>5 DEF Current
    <3>3. CASE caller # "handler"
      BY <2>5, <3>3, SplitFrom DEF Backed, InHand
    <3>4. CASE caller = "handler"
      <4>1. ASSUME at' = "unstage" PROVE target'[Current] # captures
        <5>1. CASE target' = Put(target, Current, NoFile)
          BY <1>0, <2>0, <5>1 DEF Put, CaptureTypeOK
        <5>2. CASE target' = target /\ backup[Current] = NoFile /\ (Current \in marker.existed \/ target[Current] = NoFile)
          BY <1>0, <2>0, <3>4, <5>2 DEF SplitInv, InHand
        <5>3. CASE RecoveryThrows \/ Thrown
          BY <2>5, <5>3, <2>0 DEF RecoveryThrows, Thrown, Advance, End
        <5> QED
          BY <2>1, <4>1, <5>1, <5>2, <5>3
      <4>2. InHand'
        BY <2>0, <2>3, <2>5, <3>1, <3>2, <3>4, <4>1 DEF SplitInv, InHand, Entries
      <4> QED
        BY <2>5, <4>2, SplitFrom DEF Backed
    <3> QED
      BY <3>3, <3>4
  <2> QED
    BY <2>1, <2>4, <2>5
<1>3. CASE RestoreBackup
  <2>0. /\ at = "restore" /\ ~Sealed
        /\ UNCHANGED <<marker, selected, captures>>
    BY <1>3 DEF RestoreBackup, EndingInv, Placing, Operation, Sets, Quiet, memory, files
  <2>1. /\ \/ UNCHANGED <<target, backup>>
           \/ target' = Put(target, Current, backup[Current]) /\ backup' = Put(backup, Current, NoFile)
        /\ \/ Thrown
           \/ /\ at' = "unstage" /\ todo' = todo /\ UNCHANGED caller
              /\ target' = Put(target, Current, backup[Current])
    BY <1>3, <2>0, ThrowFlow DEF RestoreBackup, Operation, Sets, Quiet, memory, files, Advance
  <2>2. \A f \in File : /\ target'[f] \in {target[f], backup[f]} /\ backup'[f] \in {backup[f], NoFile}
                        /\ target'[f] = backup[f] \/ (target'[f] = target[f] /\ backup'[f] = backup[f])
    BY <2>1 DEF Put, CaptureTypeOK
  <2>b. \A f \in File : backup[f] # captures
    BY <1>0 DEF EndingInv, Dated
  <2>c. marker.existed \subseteq File
    BY DEF CaptureTypeOK
  <2>3. caller = "handler" => \A f \in marker.existed : backup'[f] # NoFile \/ target'[f] # captures
    BY <1>0, <2>0, <2>2, <2>b, <2>c DEF SplitInv, InHand
  <2>d. caller = "handler" => marker.phase = "applying" /\ todo # {}
    BY <2>0 DEF SplitInv, InHand
  <2>4. CASE Thrown
    BY <2>0, <2>2, <2>3, <2>4, <2>d, SplitRecoveryThrows
  <2>5. CASE at' = "unstage" /\ todo' = todo /\ UNCHANGED caller /\ target' = Put(target, Current, backup[Current])
    <3>1. Current' = Current
      BY <2>5 DEF Current
    <3>2. CASE caller # "handler"
      BY <2>5, <3>2, SplitFrom DEF Backed, InHand
    <3>3. CASE caller = "handler"
      <4>1. Current \in todo
        BY <2>d, <3>3, MaxIn DEF Current, CaptureTypeOK
      <4>2. target'[Current] # captures
        BY <2>5, <2>b, <4>1 DEF Put, CaptureTypeOK
      <4>3. \A f \in Entries \ todo : target'[f] # captures
        BY <1>0, <2>0, <2>2, <2>b, <3>3 DEF SplitInv, InHand
      <4>4. InHand'
        BY <2>0, <2>3, <2>5, <2>d, <3>1, <3>3, <4>2, <4>3 DEF SplitInv, InHand, Entries
      <4> QED
        BY <2>5, <4>4, SplitFrom DEF Backed
    <3> QED
      BY <3>2, <3>3
  <2> QED
    BY <2>1, <2>4, <2>5
<1>4. CASE RemoveStage
  <2>1. /\ at = "unstage" /\ UNCHANGED <<target, backup, marker, selected, captures>>
        /\ Thrown \/ (at' = "recover" /\ todo' = todo \ {Current} /\ UNCHANGED caller)
    BY <1>4, ThrowFlow DEF RemoveStage, IfAny, AfterEntry, Operation, Sets, Quiet, memory, files, Advance
  <2>2. CASE Thrown
    BY <2>1, <2>2, SplitRecoveryThrows DEF SplitInv, InHand
  <2>3. CASE at' = "recover" /\ todo' = todo \ {Current} /\ UNCHANGED caller
    <3>1. InHand'
      BY <2>1, <2>3 DEF SplitInv, InHand, Entries
    <3> QED
      BY <2>3, <3>1, SplitFrom DEF Backed
  <2> QED
    BY <2>1, <2>2, <2>3
<1> QED
  BY <1>1, <1>2, <1>3, <1>4

\* Every step keeps it.
LEMMA SplitSteps ==
  ASSUME CaptureTypeOK, CaptureTypeOK', EndingInv, EndingInv', SplitInv, [CaptureNext]_captureVars
  PROVE  SplitInv'
<1>1. CASE UNCHANGED captureVars
  BY <1>1 DEF SplitInv, Backed, InHand, Rewriting, Whole, Effective, Entries, First, Current, captureVars,
     files, memory
<1>2. CASE NoMarkerFound
  <2>1. /\ at = "recover" /\ marker = NoMarker /\ RecoveryReturns
        /\ UNCHANGED <<target, backup, marker, selected, captures>>
    BY <1>2 DEF NoMarkerFound, Quiet, memory, files
  <2> QED
    BY <2>1, SplitRecovered
<1>3. CASE RemoveMarker
  <2>1. /\ at = "recover" /\ todo = {} /\ UNCHANGED <<target, backup, selected, captures>>
        /\ marker' \in {marker, NoMarker} /\ (RecoveryReturns \/ Thrown)
    BY <1>3, ThrowFlow DEF RemoveMarker, Operation, Sets, Quiet, memory, files, RecoveryLabels
  <2> QED
    BY <2>1, SplitRecovered
<1>4. CASE CaptureNext /\ ~NoMarkerFound /\ ~RemoveMarker
  BY <1>4, SplitEarly, SplitApplying, SplitSealed, SplitRecovering DEF CaptureNext, Commit, Recover
<1> QED
  BY <1>1, <1>2, <1>3, <1>4

\* A capture that reports success stored every live value and meta.json and left no transaction behind,
\* and one that reports a clean failure stored none of them, whatever fails or is killed
\* (snapshotLiveToProfileUnlocked, commitProfileCaptureTransaction).
THEOREM OutcomesTruthful == CaptureSpec => []OutcomeTruthful
<1>1. CaptureTypeOK /\ EndingInv => OutcomeTruthful
  <2> SUFFICES ASSUME CaptureTypeOK, EndingInv, at = "idle"
               PROVE  /\ outcome = "ok" => marker = NoMarker /\ \A f \in Entries : target[f] = captures
                      /\ outcome = "error" => \A f \in File : Effective(f) # captures
    BY DEF OutcomeTruthful
  <2>1. CASE outcome = "error"
    BY <2>1, CaptureAssumption DEF EndingInv, Ended, Dated, Effective, CaptureTypeOK
  <2> QED
    BY <2>1 DEF EndingInv, Ended
<1> QED
  BY <1>1, CaptureTypeCorrect, EndingInvariance, PTL

\* A capture that ended leaves none of its artifacts next to prior ones (profile-store.ts:367), in
\* any number of captures, failing operations and kills, in any order: unless it reported that the
\* rollback failed too, or was killed while the rollback put the prior values back.
THEOREM CapturesNeverSplit == CaptureSpec => []NeverSplit
<1>1. CaptureInit => SplitInv
  BY CaptureAssumption
  DEF CaptureInit, SplitInv, Backed, InHand, RecoveryLabels, Whole, Entries, Meta, Effective, NoMarker
<1>2. CaptureTypeOK /\ CaptureTypeOK' /\ EndingInv /\ EndingInv' /\ SplitInv /\ [CaptureNext]_captureVars
      => SplitInv'
  BY SplitSteps
<1>3. SplitInv => NeverSplit
  BY DEF SplitInv, Rewriting, NeverSplit, Whole
<1> QED
  BY <1>1, <1>2, <1>3, CaptureTypeCorrect, EndingInvariance, PTL DEF CaptureSpec

-----------------------------------------------------------------------------
(* The two together *)

\* A step of the run is one of its components', the other stands still.
LEMMA StorageProject ==
  /\ StorageInit => Init /\ CaptureInit
  /\ [LockStep \/ CaptureStep]_storageVars => [Next]_vars /\ [CaptureNext]_captureVars
BY DEF StorageInit, LockStep, CaptureStep, storageVars

\* What the commands keep on disk is well typed (StorageTypeOK).
THEOREM StorageTypeCorrect == StorageSpec => []StorageTypeOK
<1>1. TypeOK /\ RoundBegun /\ [Next]_vars => TypeOK' /\ RoundBegun'
  BY StepTyped
<1>2. StorageSpec => CaptureSpec
  BY StorageProject, PTL DEF StorageSpec, CaptureSpec
<1>3. StorageSpec => []TypeOK
  BY <1>1, InitTyped, StorageProject, PTL DEF StorageSpec
<1> QED
  BY <1>2, <1>3, CaptureTypeCorrect, PTL DEF StorageTypeOK
=============================================================================
