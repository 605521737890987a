---------------------------- MODULE ConfigStore ----------------------------
(***************************************************************************)
(* config.json (src/src/core/config.ts): every setter loads the whole      *)
(* file, changes its own entry and writes the whole file back through a    *)
(* temporary file (src/src/core/io-atomic.ts).  A process awaits its calls *)
(* but for one: the TUI records that it has shown the freshness dialog     *)
(* (app.tsx:694) while the user answers that very dialog.  Nothing keeps   *)
(* the calls of two processes apart: the CLI lock orders the setters of    *)
(* one CLI only, which the model does not count on.                        *)
(*                                                                         *)
(* cleanupTmpFiles, run when a mat starts, removes the temporary files     *)
(* whose name carries the pid of a process that is gone.                   *)
(***************************************************************************)
EXTENDS Integers, FiniteSets

CONSTANTS
  Pid,         \* the mat processes
  Key,         \* the entries of config.json: active[cli], language, ...
  Call,        \* the setter calls
  NoPid,       \* the call has not started
  Detached     \* the entries that are set by calls nobody waits for

ASSUME ConfigAssumption == Detached \subseteq Key /\ NoPid \notin Pid

VARIABLES
  config,       \* entry -> the call whose value it holds, or Unset
  process,      \* "new", "up" or "dead"
  phase,        \* the next step of each call
  pid,          \* the process that runs it
  key,          \* the entry it sets
  copy,         \* what it loaded
  temporaries,  \* the calls whose temporary file lies next to config.json
  scan,         \* the temporary files the startup of each process has yet to look at
  leftovers,    \* history: those of dead processes it found
  unseen        \* history: the calls that have saved since a call loaded the file

configVars == <<config, process, phase, pid, key, copy, temporaries, scan, leftovers, unseen>>

Unset == 0
Configs == [Key -> Call \union {Unset}]

HasCopy(c) == phase[c] \in {"write", "rename"}
Running(c) == phase[c] = "load" \/ HasCopy(c)

\* One of the two calls is not waited for, or they are of two processes.
Overlaps(c, d) == pid[c] # pid[d] \/ key[c] \in Detached \/ key[d] \in Detached

ConfigTypeOK ==
  /\ config \in Configs /\ copy \in [Call -> Configs]
  /\ process \in [Pid -> {"new", "up", "dead"}]
  /\ phase \in [Call -> {"new", "load", "write", "rename", "done", "error", "killed"}]
  /\ pid \in [Call -> Pid \union {NoPid}]
  /\ key \in [Call -> Key]
  /\ temporaries \subseteq Call /\ {scan, leftovers} \subseteq [Pid -> SUBSET Call]
  /\ \A c \in Call : Running(c) => process[pid[c]] = "up"
  /\ unseen \in [Call -> SUBSET Call]
  /\ \A c, d \in Call : Running(c) /\ Running(d) /\ c # d => Overlaps(c, d)

ConfigInit ==
  /\ config = [k \in Key |-> Unset] /\ copy = [c \in Call |-> config]
  /\ process = [p \in Pid |-> "new"]
  /\ phase = [c \in Call |-> "new"] /\ pid = [c \in Call |-> NoPid]
  /\ key \in [Call -> Key]
  /\ temporaries = {} /\ scan = [p \in Pid |-> {}] /\ leftovers = scan
  /\ unseen = [c \in Call |-> {}]

Becomes(c, label) == phase' = [phase EXCEPT ![c] = label]

-----------------------------------------------------------------------------
\* A process starts, lists the data directory, and looks at one file at a time.
StartUp(p) ==
  /\ process[p] = "new"
  /\ process' = [process EXCEPT ![p] = "up"]
  /\ scan' = [scan EXCEPT ![p] = temporaries]
  /\ leftovers' = [leftovers EXCEPT ![p] = {c \in temporaries : process[pid[c]] = "dead"}]
  /\ UNCHANGED <<config, phase, pid, key, copy, temporaries, unseen>>

\* Mutant: temporary files are removed without a look at their owner.
CleansAll(p, c) ==
  /\ process[p] = "up" /\ c \in scan[p]
  /\ scan' = [scan EXCEPT ![p] = @ \ {c}]
  /\ temporaries' = temporaries \ {c}
  /\ UNCHANGED <<config, process, phase, pid, key, copy, leftovers, unseen>>

CleanTmp(p, c) ==
  /\ process[p] = "up" /\ c \in scan[p]
  /\ scan' = [scan EXCEPT ![p] = @ \ {c}]
  /\ temporaries' = IF process[pid[c]] = "up" THEN temporaries ELSE temporaries \ {c}
  /\ UNCHANGED <<config, process, phase, pid, key, copy, leftovers, unseen>>

KillProcess(p) ==
  /\ process[p] = "up"
  /\ process' = [process EXCEPT ![p] = "dead"]
  /\ phase' = [c \in Call |-> IF Running(c) /\ pid[c] = p THEN "killed" ELSE phase[c]]
  /\ scan' = [scan EXCEPT ![p] = {}]
  /\ UNCHANGED <<config, pid, key, copy, temporaries, leftovers, unseen>>

-----------------------------------------------------------------------------
\* Mutant: no call is waited for.
MutateUnawaited(c, p) ==
  /\ phase[c] = "new" /\ process[p] = "up"
  /\ Becomes(c, "load") /\ pid' = [pid EXCEPT ![c] = p]
  /\ UNCHANGED <<config, process, key, copy, temporaries, scan, leftovers, unseen>>

\* mutateConfig: a process starts a call when the last one it waits for has ended.
MutateConfig(c, p) ==
  /\ phase[c] = "new" /\ process[p] = "up"
  /\ \A d \in Call : Running(d) /\ pid[d] = p => key[d] \in Detached
  /\ Becomes(c, "load") /\ pid' = [pid EXCEPT ![c] = p]
  /\ UNCHANGED <<config, process, key, copy, temporaries, scan, leftovers, unseen>>

LoadConfig(c) ==
  /\ phase[c] = "load" /\ Becomes(c, "write")
  /\ copy' = [copy EXCEPT ![c] = config] /\ unseen' = [unseen EXCEPT ![c] = {}]
  /\ UNCHANGED <<config, process, pid, key, temporaries, scan, leftovers>>

\* saveConfig: the temporary file, then the rename over config.json.
WriteTmp(c) ==
  /\ phase[c] = "write" /\ Becomes(c, "rename")
  /\ temporaries' = temporaries \union {c}
  /\ UNCHANGED <<config, process, pid, key, copy, scan, leftovers, unseen>>

Rename(c) ==
  /\ phase[c] = "rename" /\ c \in temporaries /\ Becomes(c, "done")
  /\ config' = [copy[c] EXCEPT ![key[c]] = c]
  /\ temporaries' = temporaries \ {c}
  /\ unseen' = [d \in Call |-> IF d # c /\ HasCopy(d) THEN unseen[d] \union {c} ELSE unseen[d]]
  /\ UNCHANGED <<process, pid, key, copy, scan, leftovers>>

\* A failed write or rename removes the temporary file as well as it can and
\* throws.
SaveFails(c) ==
  /\ phase[c] \in {"write", "rename"} /\ Becomes(c, "error")
  /\ \E left \in SUBSET {c} : temporaries' = (temporaries \ {c}) \union left
  /\ UNCHANGED <<config, process, pid, key, copy, scan, leftovers, unseen>>

ConfigNext ==
  \/ \E p \in Pid : StartUp(p) \/ KillProcess(p) \/ \E c \in Call : CleanTmp(p, c)
  \/ \E c \in Call :
       \/ \E p \in Pid : MutateConfig(c, p)
       \/ LoadConfig(c) \/ WriteTmp(c) \/ Rename(c) \/ SaveFails(c)

ConfigSpec == ConfigInit /\ [][ConfigNext]_configVars

-----------------------------------------------------------------------------
\* The call c replaces config.json.
Saves(c) == phase[c] = "rename" /\ phase'[c] = "done"

\* A setter changes its own entry and never undoes what another one saved: what
\* config.ts:5-6 says of load, mutate and save, that they do not interleave.
NoLostUpdate ==
  [][\A k \in Key : config'[k] # config[k] => \E c \in Call : Saves(c) /\ key[c] = k]_configVars

\* What another call saved is undone only by a call that had loaded the file before, and only
\* if the two are of different processes or one of them was not waited for: whatever fails or
\* dies, the calls that a process awaits (mutateConfig) never undo each other.
UndoneByOverlap ==
  [][\A k \in Key : config'[k] # config[k] =>
       \E c \in Call : Saves(c) /\ (key[c] = k \/ \E d \in unseen[c] : Overlaps(c, d))]_configVars

\* The cleanup of one process never takes the temporary file of a write that is
\* under way in another one, so no rename fails for it.
CleanupSparesWriters == \A c \in Call : phase[c] = "rename" => c \in temporaries

\* What dead processes had left behind when a process started is gone once that
\* process has finished its cleanup, whatever wrote in the meantime.
LeftoversRemoved ==
  \A p \in Pid : process[p] = "up" /\ scan[p] = {} => leftovers[p] \intersect temporaries = {}

\* The cleanup at start leaves the temporary file of a write under way alone and removes every
\* other one (cleanupTmpFiles).
CleanupExact == CleanupSparesWriters /\ LeftoversRemoved
=============================================================================
