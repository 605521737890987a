-------------------------------- MODULE Exec --------------------------------
(***************************************************************************)
(* runExec (src/src/core/exec.ts): under the CLI's mutation lock, switch   *)
(* to the target profile, run the child process with its credentials,      *)
(* capture into the target what the child left live, and switch back to    *)
(* the profile that was active.  A failed capture is only announced; a     *)
(* failed switch back is reported and leaves the target active.            *)
(*                                                                         *)
(* The switches and captures are those of Switcher; between them, and      *)
(* while the child runs, no other mat operation gets the lock.             *)
(***************************************************************************)
EXTENDS Switcher

VARIABLES
  phase,   \* what the running exec waits for
  exec,    \* its target, and the profile active before
  adrift,  \* history: a failure separated the live credentials from the active pointer
  outrun   \* history: the CLI rotated a token after the snapshot that was to save it

execVars == <<vars, phase, exec, adrift, outrun>>

Phases == {"none", "swap", "child", "recapture", "return"}
NoExec == [target |-> NoProfile, previous |-> NoProfile]

ExecTypeOK ==
  /\ TypeOK
  /\ phase \in Phases /\ {adrift, outrun} \subseteq BOOLEAN
  /\ exec \in [{"target", "previous"} -> Profile \union {NoProfile}]
  /\ phase = "child" => pc = "idle"
  /\ phase = "none" <=> exec = NoExec
  /\ op.kind = "return" => phase = "return"

ExecInit == Init /\ phase = "none" /\ exec = NoExec /\ adrift = FALSE /\ outrun = FALSE

Swapped == exec.target # exec.previous
Leave == phase' = "none" /\ exec' = NoExec

-----------------------------------------------------------------------------
\* previousActive is read inside the lock; without an active profile, or with an
\* unknown target, exec refuses.
RunExec(target) ==
  /\ phase = "none" /\ Idle
  /\ active # NoProfile /\ target \in exists
  /\ exec' = [target |-> target, previous |-> active]
  /\ IF target # active
     THEN phase' = "swap" /\ SwitchProfile(target, FALSE)
     ELSE phase' = "child" /\ UNCHANGED vars

\* The child is spawned after a successful switch; a failed one ends the exec.
Spawn ==
  /\ phase = "swap" /\ Idle
  /\ IF outcome = "ok" THEN phase' = "child" /\ UNCHANGED exec ELSE Leave
  /\ UNCHANGED vars

\* Mutant: the child's tokens are not captured before the switch back.
ExitsUncaptured ==
  /\ phase = "child"
  /\ IF Swapped
     THEN /\ phase' = "return" /\ UNCHANGED exec
          /\ Enter("return", exec.previous, TRUE, "decide") /\ UNCHANGED given
     ELSE Leave /\ UNCHANGED vars

\* The child exits, is killed or could not be spawned: all the same from here.
ChildExits ==
  /\ phase = "child"
  /\ IF Swapped
     THEN /\ phase' = "recapture" /\ UNCHANGED exec
          /\ Enter("capture", exec.target, FALSE, "snapshot") /\ UNCHANGED given
     ELSE Leave /\ UNCHANGED vars

\* Mutant: the switch back goes to whatever is active now.
RestoreToCurrent ==
  /\ phase = "recapture" /\ Idle /\ phase' = "return" /\ UNCHANGED <<exec, given>>
  /\ Enter("return", active, TRUE, "decide")

\* The switch back skips its own snapshot, captured or not; the user is told that
\* tokens may be lost when the capture failed.
RestoreToActive ==
  /\ phase = "recapture" /\ Idle
  /\ phase' = "return" /\ UNCHANGED exec
  /\ given' = IF outcome = "ok" THEN given ELSE given \union Logins(live)
  /\ Enter("return", exec.previous, TRUE, "decide")

Returns ==
  /\ phase = "return" /\ Idle
  /\ Leave /\ UNCHANGED vars

KillExec ==
  /\ Leave
  /\ \/ Kill
     \/ /\ phase # "none" /\ Idle /\ kills < MaxKills
        /\ kills' = kills + 1 /\ End("killed")
        /\ UNCHANGED <<live, profiles, active, world, faults>>

\* The CLI runs on its own, or as the child; nobody logs in while mat switches.
CLIRuns ==
  \/ \E s \in Source : Rotate(s)
  \/ phase \in {"none", "child"} /\ UsesCLI

ExecActs ==
  \/ phase = "none" /\ UserActs /\ UNCHANGED <<phase, exec>>
  \/ (Operate \/ CLIRuns) /\ UNCHANGED <<phase, exec>>
  \/ (\E target \in Profile : RunExec(target))
  \/ Spawn \/ ChildExits \/ RestoreToActive \/ Returns \/ KillExec

\* A restore does not find an artifact that an interrupted capture moved away.
MissesArtifact ==
  /\ pc = "plan" /\ pc' \in {"apply", "activate"}
  /\ \E s \in Source : store[op.to][s] = NoCred /\ Settled(op.to).stored[s] # NoCred

\* That, a kill during a restore, a rollback that fails too, and a pointer that is not moved after a
\* restore leave live what does not belong to the active profile.
Separates ==
  \/ MissesArtifact
  \/ pc = "apply" /\ pc' = "idle"
  \/ pc = "undo" /\ pc' # "undo" /\ outcome' # "error"
  \/ pc = "activate" /\ pc' # "activate" /\ op.kind \in Restores /\ active' # op.to

\* The live credentials are saved or given up, and not yet replaced, or are being replaced.
Outruns ==
  /\ latest' # latest
  /\ \/ pc \in {"plan", "apply", "undo"}
     \/ pc = "decide" /\ op.kind = "return"
     \/ phase = "recapture" /\ pc = "idle"

ExecNext ==
  /\ ExecActs
  /\ adrift' = (adrift \/ Separates) /\ outrun' = (outrun \/ Outruns)

ExecSpec == ExecInit /\ [][ExecNext]_execVars

-----------------------------------------------------------------------------
\* As long as no failure left live what does not belong to the active profile, and no token was
\* rotated after the snapshot that was to save it, no switch, capture, rollback or exec loses the
\* current token of a login the user did not give up.
LoginsSurvive == ~adrift /\ ~outrun => LoginsSafe

\* No capture, finished, failed or killed, puts the login of one account where a profile stores that
\* of another, in its files or in what their recovery brings back: the live credentials belong to the
\* active profile.
SnapshotKeepsAccount ==
  [][\A p \in Profile, s \in Source :
       ~adrift /\ pc = "snapshot" =>
         /\ Settled(p).stored[s] # NoCred =>
              Settled(p)'.stored[s].account = Settled(p).stored[s].account
         /\ store[p][s] # NoCred =>
              store'[p][s] = NoCred \/ store'[p][s].account = store[p][s].account]_execVars

\* An exec whose switch back succeeded leaves its caller's profile active and,
\* source by source, what that profile stores live; one that failed cleanly in
\* the switch back leaves the child's profile active and live.
ExecComesBack ==
  [][~adrift /\ phase = "return" /\ phase' = "none" /\ pc = "idle" /\ outcome' \in {"ok", "same", "error"} =>
       LET owner == IF outcome = "error" THEN exec.target ELSE exec.previous
       IN  /\ outcome # "error" => active = exec.previous
           /\ active = owner =>
                \A s \in Source : store[owner][s] # NoCred =>
                   live[s].account = store[owner][s].account]_execVars
=============================================================================
