----------------------------- MODULE SessionStart ------------------------------
(* Starting a session: the shell of `mat session start' and the command of     *)
(* `mat session run' (runSession, runSessionCommand and their preflight in     *)
(* src/src/core/session.ts).  A command that could take its credentials from   *)
(* somewhere else than the profile is refused: from its arguments, from the    *)
(* environment, or from a file it would read on its own.  Filling the          *)
(* directory of the session (SessionCopy) is one step here.                    *)
EXTENDS Naturals, Sequences, FiniteSets, SequencesExt

CONSTANTS MaxShifts     \* bound: changes of other programs to files and to the profile

ASSUME StartAssumption == MaxShifts \in Nat

\* Which CLIs have sessions, the variable that leads each to its directory, and which can be run.
Cli == {"codex", "qwen", "opencode", "aider", "goose"}
RootEnv == [c \in Cli |-> CASE c = "codex" -> {"CODEX_HOME"} [] c = "qwen" -> {"QWEN_HOME"}
                            [] c = "opencode" -> {"XDG_DATA_HOME"} [] OTHER -> {}]
Runnable == {"codex", "opencode", "aider"}

-----------------------------------------------------------------------------
(* Variables of the environment *)

Provider == {"OPENAI_API_KEY", "ANTHROPIC_BASE_URL"}
OpenCodeBypass == {"OPENCODE_CONFIG"}
CloudChain == {"AWS_CONFIG_FILE", "AWS_PROFILE", "GOOGLE_CLOUD_PROJECT"}
Deny == Provider \union OpenCodeBypass \union CloudChain
Hardening == {"AWS_CONFIG_FILE", "AWS_EC2_METADATA_DISABLED"}
CredentialLike == {"OPENAI_API_KEY", "MY_TOKEN"}     \* GENERIC_CREDENTIAL_ENV_PATTERN
Variable == Deny \union Hardening \union CredentialLike \union (UNION {RootEnv[c] : c \in Cli})
              \union {"AIDER_MODEL", "MAT_SESSION", "EDITOR"}

\* What a command may not inherit (preflightAiderEnv, preflightOpenCodeSessionRun).
EnvBypasses(cli, name) ==
  CASE cli = "aider" -> name \in {"AIDER_MODEL"} \union Provider \union CloudChain \union CredentialLike
    [] cli = "opencode" -> name \in OpenCodeBypass \union {"AWS_PROFILE"} \union CredentialLike
    [] OTHER -> FALSE

\* sessionRunEnvOverrides: the names that are set and those that are taken away.
Sets(cli) == CASE cli = "aider" -> Hardening [] cli = "opencode" -> Hardening [] OTHER -> {}
Unsets(cli) == IF cli = "aider" THEN {"AWS_PROFILE", "GOOGLE_CLOUD_PROJECT"} ELSE {}

\* Mutant: the inherited credentials are taken away last.
DenyLast(cli, kind, inherited) ==
  [n \in Variable |->
     IF n \in {"MAT_SESSION"} \union RootEnv[cli] THEN "session"
     ELSE IF n \in Deny THEN "unset"
     ELSE IF n \in Hardening THEN "fixed"
     ELSE IF n \in inherited THEN "inherited" ELSE "unset"]

\* buildSessionChildEnv: where each variable of the child comes from; what is set later wins.
ChildEnv(cli, kind, inherited) ==
  [n \in Variable |->
     IF n \in {"MAT_SESSION"} \union RootEnv[cli] THEN "session"
     ELSE IF kind = "command" /\ n \in Unsets(cli) THEN "unset"
     ELSE IF n \in Hardening \/ (kind = "command" /\ n \in Sets(cli)) THEN "fixed"
     ELSE IF n \in inherited \ Deny THEN "inherited" ELSE "unset"]

-----------------------------------------------------------------------------
(* Arguments.  An option is the sequence of its pieces, cut where an            *)
(* abbreviation of it may end.                                                  *)

Sidecar == {<<"mod", "el", "-", "settings-file">>, <<"mod", "el", "-", "metadata-file">>}
AiderBlocked == {<<"conf", "ig">>, <<"env">>, <<"env", "-file">>, <<"set", "-env">>, <<"api", "-key">>} \union Sidecar
ModelFlag == {<<"mod", "el">>, <<"mod", "el", "s">>, <<"weak", "-model">>, <<"list", "-models">>}
AliasFlag == {<<"al", "ias">>}

\* An argument with the value behind its `=', or a value alone; a value may name a model or an
\* alias of a model that takes its credentials from the cloud chain of the host.
Argument(opt, value) == [opt |-> opt, value |-> value]
Bare(value) == Argument(<<>>, value)
PiecesOf(options) == UNION {{SubSeq(f, 1, n) : n \in 1..Len(f)} : f \in options}
Pieces == PiecesOf(AiderBlocked \union ModelFlag \union AliasFlag \union {<<"message">>})
WithValue(options, values) == {<<Argument(opt, v)>> : opt \in options, v \in values}
BeforeValue(options, values) == {<<Argument(opt, "none"), Bare(v)>> : opt \in options, v \in values}
Values(values) == {<<Bare(v)>> : v \in values}
Arguments ==
  {<<>>} \union WithValue(Pieces \union {<<"-c">>}, {"none", "model", "alias"})
         \union BeforeValue(Pieces, {"safe", "model", "alias"})
         \union Values({"safe", "attach", "pr", "./path", "directory"})
         \union WithValue({<<"share">>}, {"none"})

\* aiderArgMatchesBlockedFlag
MatchesBlocked(opt, flag) ==
  \/ opt = flag
  \/ IsPrefix(opt, flag) /\ opt # <<"mod", "el">>
     /\ (flag \in Sidecar => IsPrefix(<<"mod", "el", "-">>, opt))

\* aiderArgMatchesModelValueFlag, aiderArgMatchesValueFlag
MatchesModel(opt) == \E f \in ModelFlag : opt = f \/ (f # <<"mod", "el">> /\ IsPrefix(opt, f))
MatchesAlias(opt) == \E f \in AliasFlag : IsPrefix(opt, f)

ValueOf(args, i) ==
  IF args[i].value # "none" THEN args[i].value
  ELSE IF i < Len(args) /\ args[i + 1].opt = <<>> THEN args[i + 1].value ELSE "none"

\* preflightAiderArgs
AiderArgsBypass(args) ==
  \E i \in DOMAIN args :
    /\ args[i].opt # <<>>
    /\ \/ args[i].opt = <<"-c">>
       \/ \E flag \in AiderBlocked : MatchesBlocked(args[i].opt, flag)
       \/ MatchesModel(args[i].opt) /\ ValueOf(args, i) = "model"
       \/ MatchesAlias(args[i].opt) /\ ValueOf(args, i) = "alias"

\* preflightOpenCodeArgs: what attaches elsewhere, shares, or names another project.
OpenCodeArgsBypass(args) ==
  \E i \in DOMAIN args :
    args[i].opt = <<"share">> \/ args[i].value \in {"attach", "pr", "./path", "directory"}

ArgsBypass(cli, args) ==
  CASE cli = "aider" -> AiderArgsBypass(args) [] cli = "opencode" -> OpenCodeArgsBypass(args) [] OTHER -> FALSE

-----------------------------------------------------------------------------
(* Files.  A channel is a file or directory a command may take credentials or   *)
(* code from: a kind in a place, and for a project how far above the working    *)
(* directory it is.                                                              *)

Level == 1..3                  \* the working directory, its parent, and the root of the file system
Project(level, kind) == <<"project", level, kind>>
Global(place, kind) == <<place, 0, kind>>
Oddity == {"clean", "bypass", "link", "odd", "unreadable"}

VARIABLES
  found,      \* the channels that are there: a set of pairs of a channel and what it is
  git,        \* the levels with a .git
  inherited,  \* the variables of the environment
  material,    \* "missing", "empty" (no credential), "clean" or "bypass"
  start,      \* the session start under way
  shifts, shifted   \* bound and history: what others have changed since it began

startVars == <<found, git, inherited, material, start, shifts, shifted>>

State(channel) == IF \E s \in Oddity : <<channel, s>> \in found
                  THEN CHOOSE s \in Oddity : <<channel, s>> \in found ELSE "none"

\* The directories from the working directory up to the first with a .git.
Walk(levels) ==
  LET up[i \in levels] == IF i \in git \/ i + 1 \notin levels THEN {i} ELSE {i} \union up[i + 1]
  IN  up[1]

\* The candidates the preflight looks at, group by group in this order.
Candidates(cli) ==
  LET Of(places, kind) == {Global(p, kind) : p \in places}
      Up(kind) == {Project(i, kind) : i \in Walk(Level)}
  IN  IF cli = "aider"
      THEN <<Of({"home"}, "oauth"), Of({"home"}, "dotenv") \union Up("dotenv"),
             Of({"home"}, "sidecar") \union Up("sidecar")>>
      ELSE IF cli = "opencode"
      THEN <<Of({"config", "xdg", "managed"}, "config"),
             Of({"home"}, "dotdir") \union Of({"home"}, "dotconfig"),
             Up("config") \union Up("dotdir") \union Up("dotconfig"),
             Up("dotenv"),
             Of({"config", "xdg", "home"}, "plugins") \union Up("plugins"),
             Of({"config", "xdg", "home", "managed"}, "manifest") \union Up("manifest"),
             Of({"managed"}, "preference")>>
      ELSE <<>>

\* Some may not be there at all; the others must be ordinary, readable and harmless.
Blocks(channel) ==
  IF channel[3] \in {"manifest", "preference"} THEN State(channel) # "none"
  ELSE State(channel) \notin {"none", "clean"}

Channel == (UNION {UNION Range(Candidates(c)) : c \in {"aider", "opencode"}})
             \union {Project(i, k) : i \in Level, k \in {"config", "dotdir", "dotconfig", "dotenv",
                                                         "plugins", "manifest", "sidecar"}}

-----------------------------------------------------------------------------
(* Starting *)

NoStart == [step |-> "idle", cli |-> "codex", kind |-> "shell", args |-> <<>>, group |-> 0,
            copy |-> "none", child |-> [n \in Variable |-> "unset"]]
StartSteps == {"idle", "args", "files", "profile", "copy", "inspect", "spawn",
               "refused", "spawned"}

StartTypeOK ==
  /\ material \in {"missing", "empty", "clean", "bypass"}
  /\ start.step \in StartSteps /\ start.copy \in {"none", "clean", "bypass"}
  /\ start.group \in 0..7 /\ shifts \in 0..MaxShifts
  /\ Cardinality({p[1] : p \in found}) = Cardinality(found)

\* One thing is out of the ordinary at first: a file, some variables or the profile.
StartInit ==
  /\ git \in SUBSET {1, 2}
  /\ \/ /\ found \in {{}} \union {{<<c, s>>} : c \in Channel, s \in Oddity}
        /\ inherited = {"EDITOR"} /\ material = "clean"
     \/ found = {} /\ inherited \in {{m, n} : m, n \in Variable} /\ material = "clean"
     \/ found = {} /\ inherited = {} /\ material \in {"missing", "empty", "bypass"}
  /\ start = NoStart /\ shifts = 0 /\ shifted = FALSE

Outside == UNCHANGED <<found, git, inherited, material, shifts>>
StepTo(step) == start' = [start EXCEPT !.step = step]
Continues == Outside /\ UNCHANGED shifted

\* `mat session start': the CLI must have sessions, and the profile must be there.
StartShell ==
  /\ start.step = "idle" /\ Continues
  /\ \E cli \in Cli :
       start' = [NoStart EXCEPT !.cli = cli, !.kind = "shell",
                   !.step = IF RootEnv[cli] = {} \/ material = "missing" THEN "refused" ELSE "copy"]

\* `mat session run': the arguments come first, before anything is looked at.
StartCommand ==
  /\ start.step = "idle" /\ Continues
  /\ \E cli \in Cli, args \in Arguments :
       /\ args = <<>> \/ (found = {} /\ inherited = {})
       /\ start' = [NoStart EXCEPT !.cli = cli, !.kind = "command", !.args = args,
                      !.step = IF cli \notin Runnable \/ ArgsBypass(cli, args) THEN "refused" ELSE "args"]

\* Then the environment.
CheckEnv ==
  /\ start.step = "args" /\ Continues
  /\ IF \E n \in inherited : EnvBypasses(start.cli, n) THEN StepTo("refused")
     ELSE StepTo(IF Candidates(start.cli) = <<>> THEN "profile" ELSE "files")

\* Then the files, one group after the other.
CheckFiles ==
  /\ start.step = "files" /\ Continues
  /\ LET group == start.group + 1
     IN  IF \E c \in Candidates(start.cli)[group] : Blocks(c) THEN StepTo("refused")
         ELSE start' = [start EXCEPT !.group = group,
                          !.step = IF group = Len(Candidates(start.cli)) THEN "profile" ELSE "files"]

\* Then the profile: it must be there, with every credential, and for aider without a pointer
\* to files or variables outside.
CheckProfile ==
  /\ start.step = "profile" /\ Continues
  /\ StepTo(IF material = "missing" \/ material = "empty" \/ (start.cli = "aider" /\ material = "bypass")
            THEN "refused" ELSE "copy")

\* materializeSession: the profile as it is by now.
MakeDirectory ==
  /\ start.step = "copy" /\ Continues
  /\ IF material \in {"missing", "empty"} THEN StepTo("refused")
     ELSE start' = [start EXCEPT !.copy = material,
                      !.step = IF start.cli = "aider" THEN "inspect" ELSE "spawn"]

\* inspectAiderMaterializedProfile: the copy is looked at again, and removed when it is refused.
InspectCopy ==
  /\ start.step = "inspect" /\ Continues
  /\ start' = IF start.copy = "bypass" THEN [start EXCEPT !.step = "refused", !.copy = "none"]
              ELSE [start EXCEPT !.step = "spawn"]

SpawnChild ==
  /\ start.step = "spawn" /\ Continues
  /\ start' = [start EXCEPT !.step = "spawned", !.child = ChildEnv(start.cli, start.kind, inherited)]

\* Somebody captures into the profile, or puts something where a command would look for it.
ChangeOutside ==
  /\ start.step \notin {"idle", "refused", "spawned"}
  /\ shifts < MaxShifts /\ shifts' = shifts + 1
  /\ \/ material' \in {"missing", "empty", "clean", "bypass"} \ {material} /\ UNCHANGED <<found, shifted>>
     \/ /\ found' \in {{}, {<<Project(1, "config"), "bypass">>}} \ {found}
        /\ shifted' = TRUE /\ UNCHANGED material
  /\ UNCHANGED <<git, inherited, start>>

StartNext ==
  \/ StartShell \/ StartCommand \/ CheckEnv \/ CheckFiles \/ CheckProfile \/ MakeDirectory
  \/ InspectCopy \/ SpawnChild \/ ChangeOutside

StartSpec == StartInit /\ [][StartNext]_startVars

-----------------------------------------------------------------------------
(* What the commands themselves do: the option an abbreviation stands for, as   *)
(* argparse reads it, and the places they search, up to the root of the          *)
(* repository.                                                                     *)

Option == AiderBlocked \union ModelFlag \union AliasFlag \union {<<"message">>}
Reads(opt) ==
  IF opt \in Option THEN {opt}
  ELSE LET longer == {f \in Option : IsPrefix(opt, f)} IN IF Cardinality(longer) = 1 THEN longer ELSE {}

Searched(cli) ==
  LET kinds == IF cli = "aider" THEN {"dotenv", "sidecar", "oauth"}
               ELSE {"config", "dotdir", "dotconfig", "dotenv", "plugins", "manifest", "preference"}
  IN  {c \in Channel : /\ c[3] \in kinds /\ ~(cli = "opencode" /\ c = Global("home", "dotenv"))
                       /\ c[1] = "project" => \A j \in Level : j < c[2] => j \notin git}

\* A session that runs has its credentials from its profile only.  Its child inherits no variable
\* that could replace them, and the variables that lead it to its directory are the session's.  A
\* command has no argument that leads elsewhere, however it is abbreviated, and it starts with no
\* file of that kind in any place it searches, unless somebody put one there after the look; the
\* profile of aider is harmless whenever it was changed.
StartIsolated ==
  start.step = "spawned" =>
    LET child == start.child
        args == start.args
    IN  /\ \A n \in Variable : child[n] = "inherited" => n \notin Deny
        /\ \A n \in Hardening : child[n] = "fixed"
        /\ \A n \in {"MAT_SESSION"} \union RootEnv[start.cli] : child[n] = "session"
        /\ start.kind = "command" =>
             /\ \A n \in Variable : child[n] = "inherited" => ~EnvBypasses(start.cli, n)
             /\ start.cli \in {"aider", "opencode"} /\ ~shifted =>
                  \A c \in Searched(start.cli) : State(c) \in {"none", "clean"}
             /\ start.cli = "aider" =>
                  /\ start.copy = "clean"
                  /\ \A i \in DOMAIN args :
                       /\ args[i].opt # <<"-c">> /\ Reads(args[i].opt) \cap AiderBlocked = {}
                       /\ Reads(args[i].opt) \subseteq ModelFlag /\ Reads(args[i].opt) # {} =>
                            ValueOf(args, i) # "model"
                       /\ Reads(args[i].opt) = AliasFlag => ValueOf(args, i) # "alias"
=============================================================================
