------------------------------ MODULE EnvSecrets -------------------------------
(* Secrets that are handed to a command in its environment (src/src/core/      *)
(* env-secret*.ts).  A source names a variable and an entry of the Secret           *)
(* Service; the environment of a command is prepared from maps the caller      *)
(* holds and may go on changing, one secret at a time, while other calls       *)
(* store, update and delete entries.                                            *)
EXTENDS Naturals, Sequences

CONSTANTS
  SecretValue,       \* values of a secret
  CaseFolded,   \* names that differ in case only are one variable (win32)
  MaxVerbs,     \* bound: calls that store, update or delete
  MaxFaults,    \* bound: failing commands of the Secret Service
  MaxLate       \* bound: changes of the caller to its maps after the call

None == "none"            \* no entry, no variable
Undefined == "undefined"  \* a key whose value is undefined
Unreadable == "unreadable"  \* an entry whose contents are not a secret

ASSUME SecretAssumption ==
  /\ SecretValue # {} /\ {None, Undefined, Unreadable, "plain"} \cap SecretValue = {}
  /\ CaseFolded \in BOOLEAN /\ {MaxVerbs, MaxFaults, MaxLate} \subseteq Nat

Name == {"TOKEN", "Token", "PATH"}
Env == [Name -> SecretValue \union {"plain", Undefined, None}]
NoEnv == [n \in Name |-> None]

\* A source as a plugin declares it, and the variable and the entry it means.
Draft == {"upper", "mixed", "prohibited", "unknownField", "otherBackend", "noAccount"}
NameOf(d) == IF d = "mixed" THEN "Token" ELSE "TOKEN"
EntryOf(d) == IF d = "mixed" THEN "e2" ELSE "e1"
Slot == {"e1", "e2"}
Bound == {"upper", "mixed"}

VARIABLES
  service,        \* the entries of the Secret Service
  base, ambient,  \* the maps of the caller: the child's and the inherited environment
  prep,           \* the preparation under way
  givenEnv,          \* history: the caller's base map when the preparation began
  reads,          \* history: the secrets the preparation has read
  asked,           \* the store, update or delete under way, or how it ended
  mixed,          \* history: something else changed the entries during the call
  verbs, faults, lateChanges

secretVars == <<service, base, ambient, prep, givenEnv, reads, asked, mixed, verbs, faults, lateChanges>>

NoPrep == [step |-> "idle", list |-> <<>>, ambient |-> NoEnv, env |-> NoEnv, out |-> NoEnv]
NoVerb == [op |-> "none", draft |-> "upper", value |-> None, step |-> "idle", old |-> None]

SecretTypeOK ==
  /\ service \in [Slot -> SecretValue \union {None, Unreadable}]
  /\ base \in Env /\ ambient \in Env /\ givenEnv \in Env
  /\ prep.step \in {"idle", "load", "ok", "invalid", "duplicate", "conflict", "missing", "failed"}
  /\ prep.env \in Env /\ prep.out \in Env
  /\ asked.step \in {"idle", "write", "look", "read", "exists", "delete", "ok", "missing", "failed"}
  /\ Len(reads) <= Len(prep.list)

\* What a caller may hold: keys that are in conflict, or not.
BaseMaps == {env \in [Name -> {"plain", Undefined, None}] :
               env["PATH"] = None /\ env["Token"] # Undefined}
AmbientMaps == {NoEnv} \union {[NoEnv EXCEPT ![n] = "plain"] : n \in {"TOKEN", "Token"}}

SecretInit ==
  /\ service \in [Slot -> {None, Unreadable} \union SecretValue]
  /\ base = NoEnv /\ ambient = NoEnv
  /\ prep = NoPrep /\ givenEnv = NoEnv /\ reads = <<>>
  /\ asked = NoVerb /\ mixed = FALSE /\ verbs = 0 /\ faults = 0 /\ lateChanges = 0

-----------------------------------------------------------------------------
(* Sources and names *)

\* validateEnvSecretDraft, validatePublicEnvSecretSource: only the fields of the schema, the
\* Secret Service, and an account.
ValidSource(d) == d \notin {"prohibited", "unknownField", "otherBackend", "noAccount"}

SameName(m, n) == IF CaseFolded THEN {m, n} \subseteq {"TOKEN", "Token"} \/ m = n ELSE m = n

DuplicateNames(list) ==
  \E i, j \in DOMAIN list : i # j /\ SameName(NameOf(list[i]), NameOf(list[j]))

\* Mutant: names are compared as they are written.
ExactConflict(env, name) == env[name] # None

\* A key counts even when its value is undefined.
Conflict(env, name) == \E n \in Name : SameName(n, name) /\ env[n] # None

\* What a child gets: keys without a value are left out.
Strings(env) == [n \in Name |-> IF env[n] = Undefined THEN None ELSE env[n]]

-----------------------------------------------------------------------------
(* Preparing the environment of a command *)

Lists == {<<>>, <<"upper">>, <<"mixed">>, <<"upper", "mixed">>, <<"mixed", "upper">>}
           \union {<<"upper", d>> : d \in Draft \ Bound}

\* Everything is checked, and both maps are copied, before the first secret is read.
Prepare ==
  /\ prep.step = "idle"
  /\ base' \in BaseMaps /\ ambient' \in AmbientMaps
  /\ \E list \in Lists :
       LET step ==
             IF list = <<>> \/ \E i \in DOMAIN list : ~ValidSource(list[i]) THEN "invalid"
             ELSE IF DuplicateNames(list) THEN "duplicate"
             ELSE IF \E i \in DOMAIN list : \/ Conflict(base', NameOf(list[i]))
                                            \/ Conflict(ambient', NameOf(list[i]))
             THEN "conflict" ELSE "load"
       IN  prep' = [NoPrep EXCEPT !.step = step, !.list = list, !.ambient = ambient', !.env = base']
  /\ givenEnv' = base'
  /\ mixed' = TRUE
  /\ UNCHANGED <<service, reads, asked, verbs, faults, lateChanges>>

EndsPrep(step) == prep' = [prep EXCEPT !.step = step, !.env = NoEnv]

\* One secret is loaded and added; the last one completes the environment.
LoadSecret ==
  /\ prep.step = "load"
  /\ LET draft == prep.list[Len(reads) + 1]
         value == service[EntryOf(draft)]
         env == [Strings(prep.env) EXCEPT ![NameOf(draft)] = value]
     IN  IF Conflict(prep.ambient, NameOf(draft)) \/ Conflict(prep.env, NameOf(draft))
         THEN EndsPrep("conflict") /\ UNCHANGED reads
         ELSE IF value = None THEN EndsPrep("missing") /\ UNCHANGED reads
         ELSE IF value = Unreadable THEN EndsPrep("failed") /\ UNCHANGED reads
         ELSE /\ reads' = Append(reads, value)
              /\ prep' = IF Len(reads') < Len(prep.list) THEN [prep EXCEPT !.env = env]
                         ELSE [prep EXCEPT !.env = env, !.out = Strings(env), !.step = "ok"]
  /\ UNCHANGED <<service, base, ambient, givenEnv, asked, mixed, verbs, faults, lateChanges>>

Fault == faults < MaxFaults /\ faults' = faults + 1

LoadFails ==
  /\ prep.step = "load" /\ Fault /\ EndsPrep("failed")
  /\ UNCHANGED <<service, base, ambient, givenEnv, reads, asked, mixed, verbs, lateChanges>>

\* The caller goes on using its maps.
ChangeMaps ==
  /\ prep.step = "load" /\ lateChanges < MaxLate /\ lateChanges' = lateChanges + 1
  /\ \E n \in Name : \/ base' = [base EXCEPT ![n] = "plain"] /\ UNCHANGED ambient
                     \/ ambient' = [ambient EXCEPT ![n] = "plain"] /\ UNCHANGED base
  /\ UNCHANGED <<service, prep, givenEnv, reads, asked, mixed, verbs, faults>>

-----------------------------------------------------------------------------
(* Storing, updating and deleting: one command of the Secret Service a step       *)

VerbGoes(step) == asked' = [asked EXCEPT !.step = step]

BeginSecret(op, draft, value) ==
  /\ prep.step \in {"idle", "load"}    \* bound: no calls after it
  /\ asked.step \in {"idle", "ok", "missing", "failed"} /\ verbs < MaxVerbs /\ verbs' = verbs + 1
  /\ asked' = [op |-> op, draft |-> draft, value |-> value, old |-> service[EntryOf(draft)],
              step |-> CASE op = "store" -> "write" [] op = "update" -> "read" [] OTHER -> "delete"]
  /\ mixed' = FALSE
  /\ UNCHANGED <<service, base, ambient, prep, givenEnv, reads, faults, lateChanges>>

Slotted == EntryOf(asked.draft)
VerbRest == UNCHANGED <<base, ambient, prep, givenEnv, reads, mixed, verbs, lateChanges>>

\* updateEnvSecret: there must be a secret, looked up twice.
ReadFirst ==
  /\ asked.step = "read"
  /\ VerbGoes(CASE service[Slotted] = None -> "missing"
            [] service[Slotted] = Unreadable -> "failed"
            [] OTHER -> "exists")
  /\ UNCHANGED <<service, faults>> /\ VerbRest

Exists ==
  /\ asked.step = "exists"
  /\ VerbGoes(IF service[Slotted] = None THEN "failed" ELSE "write")
  /\ UNCHANGED <<service, faults>> /\ VerbRest

Write ==
  /\ asked.step = "write"
  /\ service' = [service EXCEPT ![Slotted] = asked.value]
  /\ VerbGoes(IF asked.op = "store" THEN "look" ELSE "ok")
  /\ UNCHANGED faults /\ VerbRest

\* storeEnvSecret: the entry must be found after it was written.
LookAgain ==
  /\ asked.step = "look"
  /\ VerbGoes(IF service[Slotted] = None THEN "failed" ELSE "ok")
  /\ UNCHANGED <<service, faults>> /\ VerbRest

Delete ==
  /\ asked.step = "delete"
  /\ service' = [service EXCEPT ![Slotted] = None] /\ VerbGoes("ok")
  /\ UNCHANGED faults /\ VerbRest

\* A command fails.  A write that fails has put back what it replaced, unless a command
\* took effect after it was given up: the entry may be the new one or gone.
VerbFails ==
  /\ asked.step \in {"read", "exists", "write", "look", "delete"} /\ Fault
  /\ VerbGoes("failed")
  /\ service' \in {service} \union
       IF asked.step \in {"write", "delete"}
       THEN {[service EXCEPT ![Slotted] = v] : v \in {asked.value, None}} ELSE {}
  /\ mixed' = (mixed \/ service' # service)
  /\ UNCHANGED <<base, ambient, prep, givenEnv, reads, verbs, lateChanges>>

\* Another process deletes or stores an entry.
Foreign ==
  /\ Fault /\ \E e \in Slot, v \in SecretValue \union {None} : service' = [service EXCEPT ![e] = v]
  /\ mixed' = TRUE
  /\ UNCHANGED <<base, ambient, prep, givenEnv, reads, asked, verbs, lateChanges>>

SecretNext ==
  \/ Prepare \/ LoadSecret \/ LoadFails \/ ChangeMaps
  \/ \E d \in Bound : \/ \E op \in {"store", "update"}, v \in SecretValue : BeginSecret(op, d, v)
                      \/ BeginSecret("delete", d, None)
  \/ ReadFirst \/ Exists \/ Write \/ LookAgain \/ Delete \/ VerbFails \/ Foreign

SecretSpec == SecretInit /\ [][SecretNext]_secretVars

-----------------------------------------------------------------------------
\* A command gets the environment its caller meant and the secrets of its sources, whatever the
\* caller does to its maps meanwhile and wherever a load fails: all of it or nothing; no variable
\* of the caller is replaced, and where the names conflict no secret has been read.
EnvironmentExact ==
  /\ prep.step = "ok" =>
       /\ Len(reads) = Len(prep.list)
       /\ \A n \in Name :
            LET mine == {i \in DOMAIN prep.list : NameOf(prep.list[i]) = n}
            IN  IF mine = {} THEN prep.out[n] = Strings(givenEnv)[n]
                ELSE (\A m \in Name : SameName(m, n) => givenEnv[m] = None)
                     /\ \E i \in mine : prep.out[n] = reads[i]
  /\ prep.step # "ok" => prep.out = NoEnv
  /\ prep.step \in {"invalid", "duplicate", "conflict"} => reads = <<>>

\* A call tells what it did, as long as no other process meddles and no command takes effect
\* after it was given up: a store or an update that
\* succeeds left its value, a delete left nothing, an update makes no secret, and what fails
\* left the old secret or, once it was written, the new one.
VerbsTruthful ==
  ~mixed =>
    /\ asked.step = "ok" => service[Slotted] = asked.value
    /\ asked.step = "ok" /\ asked.op = "update" => asked.old \in SecretValue
    /\ asked.step = "missing" => service[Slotted] = asked.old
    /\ asked.step = "failed" =>
         service[Slotted] \in {asked.old} \union IF asked.op = "store" THEN {asked.value} ELSE {}
=============================================================================
