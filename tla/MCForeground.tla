---------------------------- MODULE MCForeground ----------------------------
(* The screens, the global configuration, and the start, the copies, the        *)
(* credentials and the directories of sessions.  The components share a run but  *)
(* no state: the initial state picks the one that moves.                         *)
EXTENDS TuiFlows, ConfigStore, SessionRecapture, SessionLifecycle, SessionStart,
  SessionCopy

VARIABLE part

ForegroundInit ==
  /\ part \in {"tui", "config", "recapture", "lifecycle", "start", "copy"}
  /\ TuiInit /\ (part # "tui" => active = None /\ live = Empty)
  /\ ConfigInit /\ (part # "config" => key = [c \in Call |-> CHOOSE k \in Key : TRUE])
  /\ RecaptureInit /\ (part # "recapture" => stored = [c \in Cred |-> Base])
  /\ StartInit /\ (part # "start" => found = {} /\ git = {} /\ inherited = {} /\ material = "bypass")
  /\ CopyInit /\ (part # "copy" => /\ session = NoSession /\ tree[<<"config">>].kind = "link"
                                   /\ credentials["key"] = 0)
  /\ LifeInit

TuiStep ==
  /\ part = "tui" /\ TuiNext
  /\ UNCHANGED <<part, configVars, recaptureVars, lifeVars, startVars, copyVars>>
ConfigStep ==
  /\ part = "config" /\ ConfigNext
  /\ UNCHANGED <<part, tuiVars, recaptureVars, lifeVars, startVars, copyVars>>
RecaptureStep ==
  /\ part = "recapture" /\ RecaptureNext
  /\ UNCHANGED <<part, tuiVars, configVars, lifeVars, startVars, copyVars>>
LifeStep ==
  /\ part = "lifecycle" /\ LifeNext
  /\ UNCHANGED <<part, tuiVars, configVars, recaptureVars, startVars, copyVars>>
StartStep ==
  /\ part = "start" /\ StartNext
  /\ UNCHANGED <<part, tuiVars, configVars, recaptureVars, lifeVars, copyVars>>
CopyStep ==
  /\ part = "copy" /\ CopyNext
  /\ UNCHANGED <<part, tuiVars, configVars, recaptureVars, lifeVars, startVars>>

ForegroundNext == TuiStep \/ ConfigStep \/ RecaptureStep \/ LifeStep \/ StartStep \/ CopyStep
ForegroundSpec ==
  ForegroundInit
    /\ [][ForegroundNext]_<<part, tuiVars, configVars, recaptureVars, lifeVars, startVars, copyVars>>

\* Every component of the run is well typed.
ForegroundTypeOK ==
  /\ TuiTypeOK /\ ConfigTypeOK /\ RecaptureTypeOK
  /\ LifeTypeOK /\ StartTypeOK /\ CopyTypeOK
=============================================================================
