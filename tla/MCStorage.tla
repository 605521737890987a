----------------------------- MODULE MCStorage -----------------------------
(* What the commands keep on disk: the recapture lock and the captures of a    *)
(* profile.  The components share a run but no state: the initial state picks  *)
(* the one that moves.                                                          *)
EXTENDS RecaptureLock, ProfileCapture

VARIABLE part   \* "lock" or "capture"

storageVars == <<part, vars, captureVars>>

StorageInit ==
  /\ part \in {"lock", "capture"} /\ Init /\ CaptureInit
  /\ part # "capture" => ~exists

\* Bound: once a verdict has strayed, a run goes on only with a process left out.
OneLeftOut == strayed => \E p \in Proc : round[p] = 0 /\ round'[p] = 0

LockStep == part = "lock" /\ Next /\ OneLeftOut /\ UNCHANGED <<part, captureVars>>
CaptureStep == part = "capture" /\ CaptureNext /\ UNCHANGED <<part, vars>>

\* The fairness of RecaptureLock.
StorageSpec ==
  /\ StorageInit /\ [][LockStep \/ CaptureStep]_storageVars
  /\ \A p \in Proc : WF_vars(Acquire(p)) /\ SF_vars(TimeOut(p))

\* Every component of the run is well typed.
StorageTypeOK == TypeOK /\ CaptureTypeOK
=============================================================================
