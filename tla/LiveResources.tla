----------------------------- MODULE LiveResources -----------------------------
(* Which CLI may touch which live credential (src/src/core/                    *)
(* builtin-live-resources.ts, live-resource-guard.ts, goose-provider-cache.ts, *)
(* cli-defs.ts, cli-defs-plugin.ts).  Definitions from plugin files are        *)
(* accepted once, when mat starts, if no other CLI has one of their sources;   *)
(* every access to a file asks again, because paths may have become aliases    *)
(* since.                                                                      *)
(*                                                                              *)
(* A path is a spelling; where it leads is part of the world, with the file    *)
(* (inode) that is there.  A keyring entry is an account of one service.       *)
EXTENDS Naturals, Sequences, SequencesExt

CONSTANTS
  Free,         \* spellings no built-in CLI declares
  PluginAccount,      \* accounts of the service that Goose keeps an entry of
  PluginId,     \* ids of plugins
  PluginFiles,  \* the plugin files in the order of their names: what each may hold
  MaxChanges    \* bound: changes of the file system

Spelling == Free \union {"auth", "tokens", "cache"}
Zone == {"tokens", "cache"}          \* the directory of Goose; only "tokens" is one of its sources
Broken == "broken"                   \* a path that cannot be resolved
AnyAccount == "any"                         \* a keyring source without account
Nobody == "nobody"

File(path) == [kind |-> "file", name |-> path]
Entry(account) == [kind |-> "keyring", name |-> account]
Builtins == <<[id |-> "codex", sources |-> {File("auth")}],
              [id |-> "goose", sources |-> {File("tokens"), Entry("goose")}]>>
builtinIds == {Builtins[i].id : i \in DOMAIN Builtins}

\* What a plugin file may hold; "bad" does not parse.
Source ==
  [kind : {"file"}, name : Spelling] \union [kind : {"keyring"}, name : PluginAccount \union {"goose", AnyAccount}]
PluginDef == [id : PluginId \union builtinIds \union {"bad"}, sources : SUBSET Source]
BadFile(def) == def.id = "bad"

ASSUME ResourceAssumption ==
  /\ MaxChanges \in Nat /\ PluginFiles \in Seq(SUBSET PluginDef)
  /\ Free \cap {"auth", "tokens", "cache", Broken} = {} /\ Nobody \notin PluginId

VARIABLES
  at, inode,   \* the place a path leads to, and the file at a place (0: none)
  started,     \* mat has read the plugin files
  loaded,      \* the definitions it has accepted, after the built-in ones
  report,      \* the definitions mat plugin validate finds valid in the same files
  access,      \* the access under way
  changes,
  stale        \* history: the world changed since the definitions were accepted

resourceVars == <<at, inode, started, loaded, report, access, changes, stale>>

NoAccess == [cli |-> Nobody, path |-> Broken, step |-> "idle", slipped |-> FALSE]

ResourceTypeOK ==
  /\ at \in [Spelling -> Spelling \union {Broken}]
  /\ \A s \in Spelling : at[s] = Broken \/ at[at[s]] = at[s]
  /\ inode \in [Spelling -> 0..(MaxChanges + 1)]
  /\ \A s \in Spelling : inode[s] # 0 => at[s] = s
  /\ access \in [cli : PluginId \union builtinIds \union {Nobody}, path : Spelling \union {Broken},
                 step : {"idle", "gate", "open", "opened", "refused"}, slipped : BOOLEAN]
  /\ changes \in 0..MaxChanges /\ started \in BOOLEAN /\ stale \in BOOLEAN

ResourceInit ==
  /\ at = [s \in Spelling |-> s] /\ inode = [s \in Spelling |-> IF s = "auth" THEN 1 ELSE 0]
  /\ started = FALSE /\ loaded = Builtins /\ report = <<>> /\ access = NoAccess
  /\ changes = 0 /\ stale = FALSE

-----------------------------------------------------------------------------
(* Who owns a resource *)

\* LiveResourceIndex: the definitions in the order they were added, whose sources they own.
Sources(defs) == UNION {defs[i].sources : i \in DOMAIN defs}

FirstOwner(defs, claims) ==
  LET owners == {i \in DOMAIN defs : defs[i].sources \cap claims # {}}
  IN  IF owners = {} THEN Nobody ELSE defs[Min(owners)].id

\* A file is claimed under its spelling and under the place that leads to.
PathOwner(defs, place) ==
  FirstOwner(defs, {x \in Sources(defs) : x.kind = "file" /\ place \in {x.name, at[x.name]}})

\* A second name of the same file, looked up only when it has more than one.
Linked(place) == inode[place] # 0 /\ \E t \in Spelling \ {place} : inode[t] = inode[place]
HardLinkOwner(defs, place) ==
  FirstOwner(defs, {x \in Sources(defs) : /\ x.kind = "file" /\ at[x.name] # Broken
                                         /\ inode[at[x.name]] = inode[place]})

\* An account matches itself first, and then a source without account, on either side.
EntryOwner(defs, account) ==
  LET exact == {x \in Sources(defs) : x.kind = "keyring" /\ account \in {x.name, AnyAccount}}
  IN  IF exact # {} THEN FirstOwner(defs, exact) ELSE FirstOwner(defs, {Entry(AnyAccount)})

\* Mutant: hard links are not looked up.
CollisionByPath(source, defs) ==
  IF source.kind = "keyring" THEN EntryOwner(defs, source.name)
  ELSE IF at[source.name] = Broken THEN "unresolvable"
  ELSE PathOwner(defs, at[source.name])

\* findSourceCollision: the owner, Nobody, or a path that cannot be judged.
Collision(source, defs) ==
  IF source.kind = "keyring" THEN EntryOwner(defs, source.name)
  ELSE IF at[source.name] = Broken THEN "unresolvable"
  ELSE LET place == at[source.name]
       IN  IF PathOwner(defs, place) # Nobody \/ ~Linked(place) THEN PathOwner(defs, place)
           ELSE HardLinkOwner(defs, place)

Collides(def, defs) == \E x \in def.sources : Collision(x, defs) # Nobody

classifyGoosePath(path) ==
  IF path = "tokens" THEN "admitted" ELSE IF path \in Zone THEN "reserved" ELSE "outside"

\* The same question about the place a path leads to.
classifyByIdentity(path) ==
  IF classifyGoosePath(path) # "outside" \/ at[path] = Broken THEN classifyGoosePath(path)
  ELSE IF at[path] \notin {at[z] : z \in Zone} THEN "outside"
  ELSE IF at[path] = at["tokens"] THEN "admitted" ELSE "reserved"

-----------------------------------------------------------------------------
(* Accepting the definitions of plugins *)

\* validateCliDefRaw, as far as the paths: nothing in Goose's directory but its own sources.
validCliDef(def) ==
  /\ ~BadFile(def)
  /\ \A x \in def.sources : x.kind = "file" => classifyByIdentity(x.name) # "reserved"

\* Of two definitions with one id the first counts.
duplicateId(entries, i) ==
  \E j \in 1..(i - 1) : validCliDef(entries[j]) /\ entries[j].id = entries[i].id

\* The files whose definitions are loaded.
loadUserCliDefs(entries) == {i \in DOMAIN entries : validCliDef(entries[i]) /\ ~duplicateId(entries, i)}

\* A definition that claims a resource of an earlier one is dropped as a whole.
getAllCliDefs(entries) ==
  LET userDefs == loadUserCliDefs(entries)
      Accept(defs, i) == IF i \in userDefs /\ entries[i].id \notin builtinIds /\ ~Collides(entries[i], defs)
                         THEN Append(defs, entries[i]) ELSE defs
      merged[n \in 0..Len(entries)] == IF n = 0 THEN Builtins ELSE Accept(merged[n - 1], n)
  IN  merged[Len(entries)]

\* The report of mat plugin validate, in three passes: each file by itself, the ids, and the
\* resources of the files that are still valid.
validatePluginFile(def) == validCliDef(def) /\ def.id \notin builtinIds

validSoFar(entries) ==
  {i \in DOMAIN entries : validatePluginFile(entries[i]) /\ ~duplicateId(entries, i)}

validatePluginDirectory(entries) ==
  LET files == validSoFar(entries)
      Keep(defs, i) == IF i \in files /\ ~Collides(entries[i], Builtins \o defs)
                       THEN Append(defs, entries[i]) ELSE defs
      valid[n \in 0..Len(entries)] == IF n = 0 THEN <<>> ELSE Keep(valid[n - 1], n)
  IN  valid[Len(entries)]

Load ==
  /\ ~started /\ started' = TRUE
  /\ \E entries \in [DOMAIN PluginFiles -> UNION Range(PluginFiles)] :
       /\ \A i \in DOMAIN PluginFiles : entries[i] \in PluginFiles[i]
       /\ loaded' = getAllCliDefs(entries) /\ report' = validatePluginDirectory(entries)
  /\ stale' = FALSE
  /\ UNCHANGED <<at, inode, access, changes>>

-----------------------------------------------------------------------------
(* Accesses *)

\* assertSourceMayBeAccessed: the path to be opened is judged, and only the spelling its owner
\* declares is exempt.  The index is made anew, of the built-in definitions.
MayAccess(path) ==
  LET owner == Collision(File(path), Builtins)
      Declared == FirstOwner(Builtins, {File(path)})
  IN  /\ at[path] # Broken
      /\ ~(classifyGoosePath(path) = "outside" /\ classifyByIdentity(at[path]) = "reserved")
      /\ owner = Nobody \/ owner = Declared

BeginAccess ==
  /\ started /\ access = NoAccess
  /\ \E i \in DOMAIN loaded : \E x \in loaded[i].sources :
       /\ x.kind = "file"
       /\ access' = [NoAccess EXCEPT !.cli = loaded[i].id, !.path = x.name, !.step = "gate"]
  /\ UNCHANGED <<at, inode, started, loaded, report, changes, stale>>

Gate ==
  /\ access.step = "gate"
  /\ access' = [access EXCEPT !.step = IF MayAccess(access.path) THEN "open" ELSE "refused",
                              !.slipped = FALSE]
  /\ UNCHANGED <<at, inode, started, loaded, report, changes, stale>>

\* A read, a write or a removal; what is written may be a new file.
Open ==
  /\ access.step = "open" /\ access' = [access EXCEPT !.step = "opened"]
  /\ UNCHANGED <<at, inode, started, loaded, report, changes, stale>>

-----------------------------------------------------------------------------
(* The file system: a directory becomes a link, a file gets a second name, a   *)
(* login makes a file, a link leads nowhere.                                    *)

Leads(s, place) == at' = [u \in Spelling |-> IF at[u] = s THEN place ELSE at[u]]

Change ==
  /\ access.step \in {"idle", "gate", "open"}
  /\ changes < MaxChanges /\ changes' = changes + 1
  /\ \E s \in Spelling :
       /\ at[s] = s
       /\ \/ \E t \in Spelling \ {s} :
               /\ at[t] = t /\ Leads(s, t)
               /\ inode' = [inode EXCEPT ![s] = 0, ![t] = IF @ = 0 THEN inode[s] ELSE @]
          \/ Leads(s, Broken) /\ inode' = [inode EXCEPT ![s] = 0]
          \/ \E t \in Spelling : /\ inode[s] = 0 /\ inode[t] # 0
                                 /\ inode' = [inode EXCEPT ![s] = inode[t]] /\ UNCHANGED at
          \/ inode[s] = 0 /\ inode' = [inode EXCEPT ![s] = changes + 2] /\ UNCHANGED at
  /\ stale' = TRUE /\ access' = [access EXCEPT !.slipped = access.step = "open"]
  /\ UNCHANGED <<started, loaded, report>>

ResourceNext == Load \/ BeginAccess \/ Gate \/ Open \/ Change

ResourceSpec == ResourceInit /\ [][ResourceNext]_resourceVars

-----------------------------------------------------------------------------
SameFile(s, t) ==
  \/ s = t
  \/ at[s] # Broken /\ at[s] = at[t]
  \/ at[s] # Broken /\ at[t] # Broken /\ inode[at[s]] # 0 /\ inode[at[s]] = inode[at[t]]

Overlap(x, y) ==
  /\ x.kind = y.kind
  /\ IF x.kind = "file" THEN SameFile(x.name, y.name)
     ELSE x.name = y.name \/ AnyAccount \in {x.name, y.name}

\* A live credential has one owner: the definitions that were accepted claim nothing of each
\* other, under no spelling, link or account, and later a plugin opens no file of a built-in CLI
\* and nothing in Goose's directory (by path), whatever became of the paths before the gate.
OneOwner ==
  /\ ~stale => \A i, j \in DOMAIN loaded : i < j /\ j > Len(Builtins) =>
       \A x \in loaded[i].sources, y \in loaded[j].sources : ~Overlap(x, y)
  /\ access.step \in {"open", "opened"} /\ ~access.slipped /\ access.cli \notin builtinIds =>
       /\ \A s \in {"auth", "tokens"} : ~SameFile(access.path, s)
       /\ \A s \in Zone : at[access.path] # at[s]

\* No refusal without a reason: the report on the plugin directory is what a start of mat does,
\* and a built-in CLI is served under every arrangement of directories, except where its own
\* path leads nowhere or into what another one has.
RefusalsJustified ==
  /\ started => loaded = Builtins \o report
  /\ access.step = "refused" /\ access.cli \in builtinIds =>
       \/ at[access.path] = Broken
       \/ \E s \in (Zone \union {"auth"}) \ {access.path} : SameFile(access.path, s)
=============================================================================
