------------------------------ MODULE MCSources ------------------------------
(* The kinds of credential sources, the guards around them, the commands they   *)
(* run, and the comparison of what they hold with a profile.  The components    *)
(* share a run but no state: the initial state picks the one that moves.         *)
EXTENDS DirectorySource, CredentialVault, ProviderFile, LiveResources, EnvSecrets, CommandRunner,
  Freshness

VARIABLE part

\* Two plugin files, each with one or two sources that are declared, under an id that is taken,
\* new or that of the other file; or one that does not parse.
MCPlugin(ids) ==
  [id : ids, sources : {{x} : x \in Source} \union {{Entry("other"), File(s)} : s \in Free}]
    \union {[id |-> "bad", sources |-> {}]}
MCPluginFiles == <<MCPlugin({"codex", "mine"}), MCPlugin({"mine", "yours"})>>

SourcesInit ==
  /\ part \in {"directory", "vault", "provider", "resources", "secrets", "command", "freshness"}
  /\ part # "freshness" => tool = "env" /\ saved = <<NoDoc>> /\ current = <<NoDoc>>
  /\ part # "vault" => /\ backend = "keyring" /\ vault = {} /\ verb = "read" /\ scope = Unset
  /\ part # "provider" => folder = 0 /\ entries = [d \in Folder |-> NoEntry]
  /\ part # "secrets" => service = [e \in Slot |-> None]
  /\ DirInit /\ VaultInit /\ ProviderInit /\ ResourceInit /\ SecretInit /\ CommandInit /\ FreshInit
  /\ part # "directory" => disk.root = Absent

DirectoryStep ==
  /\ part = "directory" /\ DirNext
  /\ UNCHANGED <<part, vaultVars, providerVars, resourceVars, secretVars, commandVars, freshVars>>
VaultStep ==
  /\ part = "vault" /\ VaultNext
  /\ UNCHANGED <<part, dirVars, providerVars, resourceVars, secretVars, commandVars, freshVars>>
ProviderStep ==
  /\ part = "provider" /\ ProviderNext
  /\ UNCHANGED <<part, dirVars, vaultVars, resourceVars, secretVars, commandVars, freshVars>>
ResourceStep ==
  /\ part = "resources" /\ ResourceNext
  /\ UNCHANGED <<part, dirVars, vaultVars, providerVars, secretVars, commandVars, freshVars>>
SecretStep ==
  /\ part = "secrets" /\ SecretNext
  /\ UNCHANGED <<part, dirVars, vaultVars, providerVars, resourceVars, commandVars, freshVars>>
CommandStep ==
  /\ part = "command" /\ CommandNext
  /\ UNCHANGED <<part, dirVars, vaultVars, providerVars, resourceVars, secretVars, freshVars>>
FreshStep ==
  /\ part = "freshness" /\ FreshNext
  /\ UNCHANGED <<part, dirVars, vaultVars, providerVars, resourceVars, secretVars, commandVars>>

SourcesNext ==
  DirectoryStep \/ VaultStep \/ ProviderStep \/ ResourceStep \/ SecretStep \/ CommandStep
    \/ FreshStep
SourcesSpec ==
  SourcesInit /\ [][SourcesNext]_<<part, dirVars, vaultVars, providerVars, resourceVars,
                                   secretVars, commandVars, freshVars>>

\* Every component of the run is well typed.
SourcesTypeOK ==
  /\ DirTypeOK /\ VaultTypeOK /\ ProviderTypeOK
  /\ ResourceTypeOK /\ SecretTypeOK /\ CommandTypeOK /\ FreshTypeOK

\* A resource has one owner among the definitions, and what is refused is refused for a reason
\* (checkLiveResourceCollisions, loadPlugins, validatePluginDirectory).
OwnersSettled == OneOwner /\ RefusalsJustified

\* A report on the credentials of a CLI is honest, and so is what meta.json says of their account
\* (inspectLiveFreshness, buildProfileIdentity).
FreshnessHonest == ReportHonest /\ IdentityTrue

\* A write or a removal loses nothing but what it replaces: no tree of a directory source, no
\* entry of another account, and no file but the one that was reviewed
\* (writeDirectorySource, writeKeychainSerialized, writeOsKeyringWithPolicy, CredWrite,
\* writePinnedProviderFile, removePinnedChild).
OthersKept == TreeKeptUnlessUndecided /\ SiblingsKept /\ ProviderPinned

\* The caller of a source learns what became of it: success, absence and failure are real, whatever
\* failed, was killed or came late on the way (directory-source.ts, sources.ts, os-keyring.ts,
\* windows-credential-manager.ts, env-secret.ts, run-command.ts).
AnswersTruthful ==
  DirectoryTruthful /\ VaultTruthful /\ ProviderTruthful /\ VerbsTruthful /\ CommandTruthful
=============================================================================
