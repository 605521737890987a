--------------------------- MODULE CredentialVault ---------------------------
(* Credentials kept by the operating system: the macOS Keychain (sources.ts),  *)
(* the Linux Secret Service (os-keyring.ts) and the Windows Credential Manager *)
(* (windows-credential-manager.ts).  None of them can replace an entry and     *)
(* report its failure atomically: every write backs the entry up, replaces it  *)
(* with commands of its own, and writes the backup back when that fails.       *)
(*                                                                              *)
(* The vault holds the entries of one service (one target on Windows).  A      *)
(* command may fail, or time out after it took effect; other programs use the  *)
(* vault at any time.                                                           *)
EXTENDS Naturals

CONSTANTS
  Backend,      \* a subset of {"keychain", "keyring", "windows"}
  Owner,        \* accounts
  Secret,       \* values
  Unset,        \* no account: in a source, in a backup, in an entry
  MaxCommandFaults,  \* bound: commands that fail or time out
  MaxForeign    \* bound: changes by other programs

ASSUME VaultAssumption ==
  /\ Backend \subseteq {"keychain", "keyring", "windows"}
  /\ Owner # {} /\ Unset \notin Owner /\ "none" \notin Secret
  /\ MaxCommandFaults \in Nat /\ MaxForeign \in Nat

VARIABLES
  backend,   \* the store of this system
  verb,      \* the operation
  vault,     \* its entries
  scope,     \* the account of the source: src.account, binding.account
  given,     \* the profile's credential that is written
  stage,        \* the next command
  backup,    \* the entry in the memory of mat: what is undone, or what a read answers
  ending,    \* how the operation ended
  initial,   \* history: the vault when the operation began
  foreign,   \* history: changes by other programs
  troubled,  \* history: commands that failed
  late       \* history: a command was reported as failed although it had worked

vaultVars ==
  <<backend, verb, vault, scope, given, stage, backup, ending, initial, foreign, troubled, late>>

Credential == [owner : Owner \union {Unset}, secret : Secret]
Nothing == [owner |-> Unset, secret |-> "none"]

\* One entry per account; the Credential Manager has one per target.
Vaults(b) ==
  {v \in SUBSET Credential : /\ \A e, f \in v : e.owner = f.owner => e = f
                             /\ b = "windows" => \A e, f \in v : e = f}

Verb == {"write", "read", "exists", "delete"}
Steps == {"idle", "search", "account", "remove", "store", "preflight", "rollback"}

VaultTypeOK ==
  /\ backend \in Backend /\ vault \in Vaults(backend) /\ initial \in Vaults(backend)
  /\ verb \in Verb /\ scope \in Owner \union {Unset} /\ given \in Credential
  /\ stage \in Steps /\ backup \in Credential \union {Nothing}
  /\ ending \in {"none", "ok", "missing", "error", "rollback-failed", "killed"}

\* Deletions are for the secrets of the environment: the Secret Service, by account.
VaultInit ==
  /\ backend \in Backend /\ vault \in Vaults(backend) /\ initial = vault
  /\ verb \in Verb /\ scope \in Owner \union {Unset} /\ given \in Credential
  /\ verb # "write" => given = CHOOSE e \in Credential : TRUE
  /\ verb = "delete" => backend = "keyring" /\ scope # Unset
  /\ stage = "idle" /\ backup = Nothing /\ ending = "none"
  /\ foreign = 0 /\ troubled = 0 /\ late = FALSE

-----------------------------------------------------------------------------
(* What the commands find *)

\* find-generic-password and secret-tool are scoped by the account of the source when
\* it has one; a target has one credential, whoever owns it.
Matches == {e \in vault : backend = "windows" \/ scope = Unset \/ e.owner = scope}

DefaultOwner == CHOOSE o \in Owner : TRUE

\* The source's account first, then the captured one, then $USER or a default.
Target ==
  IF scope # Unset THEN scope
  ELSE IF given.owner # Unset THEN given.owner
  ELSE DefaultOwner

Go(step) == stage' = step /\ UNCHANGED ending
Ends(how) == stage' = "idle" /\ ending' = how
Answers(e) == backup' = e /\ Ends("ok")
Refuses == Ends("error") /\ UNCHANGED backup

\* A command reports failure, after it took effect when it timed out.
CommandFails == troubled < MaxCommandFaults /\ troubled' = troubled + 1
Lost(after) ==
  /\ CommandFails
  /\ \/ UNCHANGED <<vault, late>>
     \/ vault' = after /\ late' = TRUE

Fixed == UNCHANGED <<backend, verb, scope, given, initial, foreign>>

-----------------------------------------------------------------------------
(* The lookup every operation begins with *)

BeginVerb ==
  /\ stage = "idle" /\ ending = "none"
  /\ Go("search") /\ initial' = vault
  /\ UNCHANGED <<backend, verb, vault, scope, given, backup, foreign, troubled, late>>

\* keychainGetValue answers with one of the matching entries.
KeychainValue ==
  IF verb = "exists" THEN Ends(IF Matches = {} THEN "missing" ELSE "ok") /\ UNCHANGED backup
  ELSE IF Matches = {}
  THEN (IF verb = "read" THEN Ends("missing") ELSE Go("store")) /\ UNCHANGED backup
  ELSE \E e \in Matches : backup' = e /\ Go("account")

\* osKeyringBackup refuses several entries, and a write one that names no account:
\* clearing it would clear every entry of the service.
KeyringSearch ==
  IF \E e, f \in Matches : e # f THEN Refuses
  ELSE IF Matches = {}
  THEN (IF verb = "write" THEN Go("store") ELSE Ends("missing")) /\ UNCHANGED backup
  ELSE \E e \in Matches :
         IF verb \in {"read", "exists"} THEN Answers(e)
         ELSE IF e.owner = Unset THEN Refuses
         ELSE backup' = e /\ Go("remove")

\* The bridge compares the account of the binding before it copies the secret out.
Mismatch(e) == scope # Unset /\ e.owner # scope

\* An entry without an account is stored with the one of the binding or a default.
Stored(e) == IF e.owner # Unset THEN e ELSE [e EXCEPT !.owner = DefaultOwner]

BridgeRead ==
  IF Matches = {}
  THEN (IF verb = "write" THEN Go("preflight") ELSE Ends("missing")) /\ UNCHANGED backup
  ELSE \E e \in Matches :
         IF Mismatch(e) THEN Refuses
         ELSE IF verb = "write" THEN backup' = Stored(e) /\ Go("preflight")
         ELSE Answers(e)

\* A failing lookup is never an absent entry, but for the existence check of the
\* Keychain, which does not look at the reason.
Search ==
  /\ stage = "search"
  /\ \/ /\ CommandFails
        /\ Ends(IF backend = "keychain" /\ verb = "exists" THEN "missing" ELSE "error")
        /\ UNCHANGED backup
     \/ /\ UNCHANGED troubled
        /\ CASE backend = "keychain" -> KeychainValue
             [] backend = "keyring" -> KeyringSearch
             [] backend = "windows" -> BridgeRead
  /\ UNCHANGED <<vault, late>> /\ Fixed

\* keychainGetAccount is a second lookup, and a failure of it is an unknown account: a
\* write then deletes nothing and stops, a read answers without the account.  Both
\* lookups find the same entry as long as nobody changes the vault.
Account ==
  /\ stage = "account"
  /\ \E owner \in Owner \union {Unset} :
       /\ \/ CommandFails /\ owner = Unset
          \/ /\ UNCHANGED troubled
             /\ LET found == IF backup \in Matches THEN {backup} ELSE Matches
                IN  IF found = {} THEN owner = Unset ELSE owner \in {e.owner : e \in found}
       /\ IF verb = "read" THEN Answers([backup EXCEPT !.owner = owner])
          ELSE IF owner = Unset THEN Refuses
          ELSE backup' = [backup EXCEPT !.owner = owner] /\ Go("remove")
  /\ UNCHANGED <<vault, late>> /\ Fixed

-----------------------------------------------------------------------------
(* Replacing the entry *)

\* The entry of the backup's account, and of no other, is deleted; on the Secret
\* Service one without an account attribute is not matched and stays.
RemoveItem ==
  /\ stage = "remove"
  /\ LET rest == {e \in vault : e.owner # backup.owner}
     IN  \/ /\ vault' = rest /\ UNCHANGED <<troubled, late>>
            /\ IF verb = "delete" THEN Ends("ok") ELSE Go("store")
         \/ Lost(rest) /\ Ends("error")
  /\ UNCHANGED backup /\ Fixed

\* Mutant: what is stored stands beside what was there.
AddsBeside(entry) == vault \union {entry}

\* add-generic-password refuses an account that has an entry; secret-tool store and
\* CredWrite replace it.
With(entry) ==
  CASE backend = "keychain" -> vault \union {entry}
    [] backend = "keyring" -> {e \in vault : e.owner # entry.owner} \union {entry}
    [] backend = "windows" -> {entry}

Duplicate(entry) == backend = "keychain" /\ \E e \in vault : e.owner = entry.owner

New == [owner |-> Target, secret |-> given.secret]

\* A failing write is undone when there was something to put back.
Undo == IF backup # Nothing THEN Go("rollback") ELSE Ends("error")

\* The guard of CredWrite: the credential of another account is not replaced.
BridgePreflight(owner) == \E e \in vault : e.owner # owner

Preflight ==
  /\ stage = "preflight"
  /\ \/ CommandFails /\ Undo
     \/ UNCHANGED troubled /\ IF BridgePreflight(Target) THEN Undo ELSE Go("store")
  /\ UNCHANGED <<vault, backup, late>> /\ Fixed

Store ==
  /\ stage = "store"
  /\ IF Duplicate(New) THEN Undo /\ UNCHANGED <<vault, troubled, late>>
     ELSE \/ vault' = With(New) /\ Ends("ok") /\ UNCHANGED <<troubled, late>>
          \/ Lost(With(New)) /\ Undo
  /\ UNCHANGED backup /\ Fixed

\* The backup is written with its own account, under the same guard on Windows.
PutBack ==
  /\ stage = "rollback"
  /\ IF Duplicate(backup) \/ (backend = "windows" /\ BridgePreflight(backup.owner))
     THEN Ends("rollback-failed") /\ UNCHANGED <<vault, troubled, late>>
     ELSE \/ vault' = With(backup) /\ Ends("error") /\ UNCHANGED <<troubled, late>>
          \/ Lost(With(backup)) /\ Ends("rollback-failed")
  /\ UNCHANGED backup /\ Fixed

\* Other programs add, change and remove entries at any time.
OtherProgram ==
  /\ foreign < MaxForeign /\ foreign' = foreign + 1
  /\ \/ \E e \in vault : vault' = vault \ {e}
     \/ \E e \in Credential : vault' = {f \in vault : f.owner # e.owner} \union {e}
  /\ vault' \in Vaults(backend)
  /\ UNCHANGED <<backend, verb, scope, given, stage, backup, ending, initial, troubled, late>>

\* The backup dies with the process.
KilledWriting ==
  /\ stage # "idle" /\ Ends("killed")
  /\ UNCHANGED <<vault, backup, troubled, late>> /\ Fixed

VaultNext ==
  BeginVerb \/ Search \/ Account \/ RemoveItem \/ Preflight \/ Store \/ PutBack
    \/ OtherProgram \/ KilledWriting

VaultSpec == VaultInit /\ [][VaultNext]_vaultVars

-----------------------------------------------------------------------------
\* An operation changes the entries of two accounts at most, the one it backed up and
\* the one it writes, also when it fails or is killed.
SiblingsKept ==
  foreign = 0 =>
    \A e \in initial : e.owner \notin {backup.owner, Target} => e \in vault

\* A write that succeeds leaves the credential it was given, and of the entry it
\* replaced nothing; a deletion that succeeds leaves none; an entry reported as missing
\* is not there, and one that is read is.  Whatever fails without saying that its
\* rollback failed leaves the vault as it was, unless a deletion was reported as failed
\* but happened.  (The Keychain: an existence check and an account that cannot be
\* looked up count as absent.)
VaultTruthful ==
  foreign = 0 /\ ~late =>
    /\ verb = "write" /\ ending = "ok" => New \in vault /\ (backup.owner = Target \/ backup \notin vault)
    /\ verb = "delete" /\ ending \in {"ok", "missing"} => Matches = {}
    /\ verb # "delete" /\ ending = "missing" /\ troubled = 0 => Matches = {}
    /\ verb = "read" /\ ending = "ok" =>
         \E e \in Matches : e.secret = backup.secret /\ (troubled = 0 => e = backup)
    /\ ending = "error" \/ verb \in {"read", "exists"} => vault = initial
=============================================================================
