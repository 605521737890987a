---------------------------- MODULE SourcesProofs ----------------------------
(***************************************************************************)
(* Proofs about the credential sources: for any trees, owners, bytes and   *)
(* environments, and for any number of failures and deaths, the components *)
(* of MCSources keep what a write or a removal is not about, and answer    *)
(* truthfully.  Each component has its inductive invariants; the last      *)
(* section puts them together.                                             *)
(***************************************************************************)
EXTENDS MCSources, FiniteSetTheorems, TLAPS

-----------------------------------------------------------------------------
(* EnvSecrets: the variables of the child *)

PrepSteps == {"idle", "load", "ok", "invalid", "duplicate", "conflict", "missing", "failed"}
Outcomes == SecretValue \union {None, Unreadable}

\* What is kept has the types of the code.
SecretTyped ==
  /\ service \in [Slot -> Outcomes]
  /\ asked.draft \in Draft /\ asked.value \in SecretValue \union {None}
  /\ prep \in [step : PrepSteps, list : Seq(Draft), ambient : Env, env : Env, out : Env]
  /\ givenEnv \in Env /\ reads \in Seq(SecretValue)

\* The preparation that goes on has passed all checks, with the maps as they were.
Planned ==
  /\ ~DuplicateNames(prep.list)
  /\ \A i \in DOMAIN prep.list : /\ ~Conflict(givenEnv, NameOf(prep.list[i]))
                                 /\ ~Conflict(prep.ambient, NameOf(prep.list[i]))

\* env is the caller's, and the secrets that were read.
Mine(n) == {i \in 1..Len(reads) : NameOf(prep.list[i]) = n}
Filled(env) ==
  \A n \in Name :
    /\ Mine(n) = {} => /\ Strings(env)[n] = Strings(givenEnv)[n]
                       /\ givenEnv[n] = None => env[n] = None
    /\ \A i \in Mine(n) : env[n] = reads[i]

SecretInv ==
  /\ SecretTyped
  /\ prep.step \in {"idle", "invalid", "duplicate", "conflict"} => reads = <<>>
  /\ prep.step # "ok" => prep.out = NoEnv
  /\ prep.step \in {"load", "ok"} => Planned
  /\ prep.step = "load" => Len(reads) < Len(prep.list) /\ Filled(prep.env)
  /\ prep.step = "ok" => /\ Len(reads) = Len(prep.list) /\ Filled(prep.out)
                         /\ \A n \in Name : prep.out[n] # Undefined

LEMMA SecretInitInv == SecretInit => SecretInv
<1> SUFFICES ASSUME SecretInit PROVE SecretInv
  OBVIOUS
<1>1. NoEnv \in Env /\ <<>> \in Seq(Draft) /\ <<>> \in Seq(SecretValue) /\ "upper" \in Draft
  BY DEF NoEnv, Env, Draft
<1>2. SecretTyped
  BY <1>1 DEF SecretInit, SecretTyped, Outcomes, NoPrep, NoVerb, PrepSteps
<1> QED
  BY <1>2 DEF SecretInit, SecretInv, NoPrep

LEMMA MapsTyped == BaseMaps \subseteq Env /\ AmbientMaps \subseteq Env /\ NoEnv \in Env
<1>1. NoEnv \in Env
  BY DEF NoEnv, Env
<1>2. \A n \in Name : [NoEnv EXCEPT ![n] = "plain"] \in Env
  BY DEF NoEnv, Env
<1> QED
  BY <1>1, <1>2 DEF BaseMaps, AmbientMaps, Env, Name

LEMMA ListsTyped == Lists \subseteq Seq(Draft)
<1>1. ASSUME NEW d \in Draft, NEW e \in Draft
      PROVE  <<d>> \in Seq(Draft) /\ <<d, e>> \in Seq(Draft)
  OBVIOUS
<1>2. "upper" \in Draft /\ "mixed" \in Draft /\ <<>> \in Seq(Draft)
  BY DEF Draft
<1> QED
  BY <1>1, <1>2 DEF Lists

LEMMA PrepareKeeps == SecretInv /\ Prepare => SecretInv'
<1> SUFFICES ASSUME SecretInv, Prepare PROVE SecretInv'
  OBVIOUS
<1>1. PICK list \in Lists, step \in {"invalid", "duplicate", "conflict", "load"} :
        /\ prep' = [NoPrep EXCEPT !.step = step, !.list = list, !.ambient = ambient', !.env = base']
        /\ step = "load" => /\ list # <<>> /\ ~DuplicateNames(list)
                            /\ \A i \in DOMAIN list : /\ ~Conflict(base', NameOf(list[i]))
                                                      /\ ~Conflict(ambient', NameOf(list[i]))
  BY DEF Prepare
<1>2. list \in Seq(Draft) /\ base' \in Env /\ ambient' \in Env /\ NoEnv \in Env
  BY ListsTyped, MapsTyped DEF Prepare
<1>3. reads = <<>> /\ UNCHANGED <<service, reads, asked>> /\ givenEnv' = base'
  BY DEF Prepare, SecretInv
<1>4. /\ prep'.step = step /\ prep'.list = list /\ prep'.ambient = ambient' /\ prep'.env = base'
      /\ prep'.out = NoEnv
  BY <1>1 DEF NoPrep
<1>5. SecretTyped'
  BY <1>1, <1>2, <1>3 DEF SecretInv, SecretTyped, NoPrep, PrepSteps
<1>6. step = "load" => Planned'
  BY <1>1, <1>3, <1>4 DEF Planned, Conflict, DuplicateNames, SameName
<1>7. Len(reads) = 0 /\ 1..0 = {} /\ Mine(1)' = {}
  BY <1>3 DEF Mine
<1>8. Filled(prep.env)'
  <2>1. \A n \in Name : Mine(n)' = {}
    BY <1>3 DEF Mine
  <2> QED
    BY <1>3, <1>4, <2>1 DEF Filled, Strings
<1>9. step = "load" => Len(reads') < Len(list)
  BY <1>1, <1>2, <1>3
<1> QED
  BY <1>3, <1>4, <1>5, <1>6, <1>8, <1>9 DEF SecretInv

\* The next name is in conflict with nothing: it is no one's in the caller's map, and none of
\* the secrets that were read.
LEMMA NoLateConflict ==
  ASSUME SecretInv, prep.step = "load"
  PROVE  LET draft == prep.list[Len(reads) + 1]
         IN  /\ Len(reads) + 1 \in DOMAIN prep.list /\ draft \in Draft
             /\ ~Conflict(prep.ambient, NameOf(draft)) /\ ~Conflict(prep.env, NameOf(draft))
<1> DEFINE k == Len(reads) + 1
           draft == prep.list[k]
<1>1. k \in DOMAIN prep.list /\ prep.list \in Seq(Draft) /\ Len(reads) \in Nat
  BY DEF SecretInv, SecretTyped
<1>2. draft \in Draft
  BY <1>1
<1>3. ~Conflict(prep.ambient, NameOf(draft)) /\ ~Conflict(givenEnv, NameOf(draft))
  BY <1>1 DEF SecretInv, Planned
<1>4. ASSUME NEW n \in Name, SameName(n, NameOf(draft)) PROVE prep.env[n] = None
  <2>1. givenEnv[n] = None
    BY <1>3, <1>4 DEF Conflict
  <2>2. \A i \in 1..Len(reads) : NameOf(prep.list[i]) # n
    <3> SUFFICES ASSUME NEW i \in 1..Len(reads), NameOf(prep.list[i]) = n PROVE FALSE
      OBVIOUS
    <3>1. i \in DOMAIN prep.list /\ i # k
      BY <1>1
    <3>2. ~SameName(NameOf(prep.list[i]), NameOf(prep.list[k]))
      BY <1>1, <3>1 DEF SecretInv, Planned, DuplicateNames
    <3> QED
      BY <1>4, <3>2
  <2>3. Mine(n) = {}
    BY <2>2 DEF Mine
  <2> QED
    BY <2>1, <2>3 DEF SecretInv, Filled
<1>5. ~Conflict(prep.env, NameOf(draft))
  BY <1>4 DEF Conflict
<1> QED
  BY <1>1, <1>2, <1>3, <1>5

LEMMA LoadKeeps == SecretInv /\ LoadSecret => SecretInv'
<1> SUFFICES ASSUME SecretInv, LoadSecret PROVE SecretInv'
  OBVIOUS
<1> DEFINE k == Len(reads) + 1
           draft == prep.list[k]
           value == service[EntryOf(draft)]
           env == [Strings(prep.env) EXCEPT ![NameOf(draft)] = value]
<1>1. prep.step = "load" /\ UNCHANGED <<service, givenEnv, asked>>
  BY DEF LoadSecret
<1>2. /\ k \in DOMAIN prep.list /\ draft \in Draft
      /\ ~Conflict(prep.ambient, NameOf(draft)) /\ ~Conflict(prep.env, NameOf(draft))
  BY <1>1, NoLateConflict
<1>3. SecretTyped /\ prep.out = NoEnv /\ Planned /\ Filled(prep.env) /\ Len(reads) < Len(prep.list)
  BY <1>1 DEF SecretInv
<1>4. NoEnv \in Env
  BY MapsTyped
<1>5. ASSUME NEW s \in {"missing", "failed"}, EndsPrep(s), UNCHANGED reads
      PROVE  SecretInv'
  <2>1. prep'.step = s /\ prep'.out = NoEnv
    BY <1>3, <1>5 DEF EndsPrep, SecretTyped
  <2>2. SecretTyped'
    BY <1>1, <1>3, <1>4, <1>5 DEF EndsPrep, SecretTyped, PrepSteps
  <2> QED
    BY <2>1, <2>2 DEF SecretInv
<1>6. ASSUME value \notin {None, Unreadable}, reads' = Append(reads, value),
             prep' = IF Len(reads') < Len(prep.list) THEN [prep EXCEPT !.env = env]
                     ELSE [prep EXCEPT !.env = env, !.out = Strings(env), !.step = "ok"]
      PROVE  SecretInv'
  <2>1. value \in SecretValue /\ NameOf(draft) \in Name
    BY <1>2, <1>3, <1>6 DEF SecretTyped, Outcomes, EntryOf, Slot, NameOf, Name
  <2>2. Strings(prep.env) \in Env /\ env \in Env
    BY <1>3, <2>1 DEF SecretTyped, Strings, Env
  <2>3. Strings(env) \in Env
    BY <2>2 DEF Strings, Env
  <2>4. /\ reads' \in Seq(SecretValue) /\ Len(reads') = k /\ reads'[k] = value
        /\ \A i \in 1..Len(reads) : reads'[i] = reads[i]
    BY <1>3, <1>6, <2>1 DEF SecretTyped
  <2>5. /\ prep'.list = prep.list /\ prep'.ambient = prep.ambient /\ prep'.env = env
        /\ prep'.step = IF k < Len(prep.list) THEN "load" ELSE "ok"
        /\ prep'.out = IF k < Len(prep.list) THEN NoEnv ELSE Strings(env)
    BY <1>1, <1>3, <1>6, <2>4 DEF SecretTyped
  <2>6. SecretTyped'
    BY <1>1, <1>3, <1>6, <2>2, <2>3, <2>4 DEF SecretTyped, PrepSteps
  <2>7. Planned'
    BY <1>1, <1>3, <2>5 DEF Planned
  <2>8. ASSUME NEW n \in Name
        PROVE  /\ n = NameOf(draft) => Mine(n)' = {k} /\ env[n] = value
               /\ n # NameOf(draft) => Mine(n)' = Mine(n) /\ env[n] = Strings(prep.env)[n]
    <3>1. n = NameOf(draft) => Mine(n) = {}
      <4> SUFFICES ASSUME NEW i \in 1..Len(reads), NameOf(prep.list[i]) = NameOf(draft) PROVE FALSE
        BY DEF Mine
      <4>1. i \in DOMAIN prep.list /\ i # k
        BY <1>2, <1>3 DEF SecretTyped
      <4>2. ~SameName(NameOf(prep.list[i]), NameOf(prep.list[k]))
        BY <1>2, <1>3, <4>1 DEF Planned, DuplicateNames
      <4> QED
        BY <2>1, <4>2 DEF SameName, Name
    <3>2. 1..Len(reads') = 1..Len(reads) \union {k}
      BY <1>3, <2>4 DEF SecretTyped
    <3>3. Mine(n)' = Mine(n) \union IF n = NameOf(draft) THEN {k} ELSE {}
      BY <2>5, <3>2 DEF Mine
    <3>4. env[n] = IF n = NameOf(draft) THEN value ELSE Strings(prep.env)[n]
      BY <2>1 DEF Strings
    <3> QED
      BY <3>1, <3>3, <3>4
  <2>9. ASSUME NEW e, e = env \/ e = Strings(env)
        PROVE  \A n \in Name :
                 /\ Mine(n)' = {} => /\ Strings(e)[n] = Strings(givenEnv)[n]
                                     /\ givenEnv[n] = None => e[n] = None
                 /\ \A i \in Mine(n)' : e[n] = reads'[i]
    <3> TAKE n \in Name
    <3>0. \A f, m : m \in Name => Strings(f)[m] = (IF f[m] = Undefined THEN None ELSE f[m])
      BY DEF Strings
    <3>1. value # Undefined /\ None # Undefined /\ \A i \in 1..Len(reads) : reads[i] # Undefined
      BY <1>3, <2>1, SecretAssumption DEF SecretTyped, None, Undefined
    <3>2. CASE n = NameOf(draft)
      <4>1. Mine(n)' = {k} /\ env[n] = value
        BY <2>8, <3>2
      <4> HIDE DEF env
      <4>2. e[n] = value
        BY <2>9, <3>0, <3>1, <4>1
      <4> QED
        BY <2>4, <4>1, <4>2
    <3>3. CASE n # NameOf(draft)
      <4>1. Mine(n)' = Mine(n) /\ env[n] = Strings(prep.env)[n]
        BY <2>8, <3>3
      <4> HIDE DEF env
      <4>2. e[n] = Strings(prep.env)[n] /\ Strings(e)[n] = Strings(prep.env)[n]
        BY <2>9, <3>0, <3>1, <4>1
      <4>3. \A i \in Mine(n) : i \in 1..Len(reads) /\ prep.env[n] = reads[i]
        BY <1>3 DEF Filled, Mine
      <4>4. Mine(n) = {} => Strings(prep.env)[n] = Strings(givenEnv)[n] /\ (givenEnv[n] = None => prep.env[n] = None)
        BY <1>3 DEF Filled
      <4> QED
        BY <2>4, <3>0, <3>1, <4>1, <4>2, <4>3, <4>4
    <3> QED
      BY <3>2, <3>3
  <2>10. Filled(prep.env)' /\ (k = Len(prep.list) => Filled(prep.out)')
    <3>1. k <= Len(prep.list) /\ k \in Nat /\ Len(prep.list) \in Nat
      BY <1>2, <1>3 DEF SecretTyped
    <3> HIDE DEF env
    <3>2. (prep.env)' = env /\ (k = Len(prep.list) => (prep.out)' = Strings(env))
      BY <2>5, <3>1
    <3>3. Filled(prep.env)'
      BY <1>1, <2>9, <3>2 DEF Filled
    <3>4. k = Len(prep.list) => Filled(prep.out)'
      BY <1>1, <2>9, <3>2 DEF Filled
    <3> QED
      BY <3>3, <3>4
  <2>11. k <= Len(prep.list) /\ k \in Nat /\ Len(prep.list) \in Nat
    BY <1>2, <1>3 DEF SecretTyped
  <2>12. \A n \in Name : Strings(env)[n] # Undefined
    <3> HIDE DEF env
    <3> QED
      BY DEF Strings, None, Undefined
  <2> HIDE DEF env
  <2> QED
    BY <2>4, <2>5, <2>6, <2>7, <2>10, <2>11, <2>12 DEF SecretInv
<1> QED
  BY <1>2, <1>5, <1>6 DEF LoadSecret

\* Every other action leaves the preparation alone, or ends it.
LEMMA SecretOthersKeep ==
  ASSUME SecretInv, SecretTyped', UNCHANGED <<prep, givenEnv, reads>>
  PROVE  SecretInv'
BY DEF SecretInv, Planned, Filled, Mine, Strings, Conflict, DuplicateNames

LEMMA SecretStepInv == SecretInv /\ [SecretNext]_secretVars => SecretInv'
<1> SUFFICES ASSUME SecretInv, [SecretNext]_secretVars PROVE SecretInv'
  OBVIOUS
<1> USE DEF SecretTyped
<1>0. SecretTyped
  BY DEF SecretInv
<1>a. EntryOf(asked.draft) \in Slot
  BY DEF EntryOf, Slot
<1>1. CASE UNCHANGED secretVars
  BY <1>0, <1>1, SecretOthersKeep DEF secretVars
<1>2. CASE Prepare
  BY <1>2, PrepareKeeps
<1>3. CASE LoadSecret
  BY <1>3, LoadKeeps
<1>4. CASE LoadFails
  <2>1. prep.step = "load" /\ UNCHANGED <<service, givenEnv, asked, reads>>
        /\ prep' = [prep EXCEPT !.step = "failed", !.env = NoEnv]
    BY <1>4 DEF LoadFails, EndsPrep
  <2>2. prep'.step = "failed" /\ prep'.out = NoEnv
    BY <1>0, <2>1 DEF SecretInv
  <2>3. SecretTyped'
    BY <1>0, <2>1, MapsTyped DEF PrepSteps
  <2> QED
    BY <2>2, <2>3 DEF SecretInv
<1>5. CASE ChangeMaps
  BY <1>0, <1>5, SecretOthersKeep DEF ChangeMaps
<1>6. ASSUME NEW d \in Bound, NEW op, NEW v \in SecretValue \union {None}, BeginSecret(op, d, v)
      PROVE  SecretInv'
  <2>1. UNCHANGED <<service, prep, givenEnv, reads>> /\ asked'.draft = d /\ asked'.value = v
    BY <1>6 DEF BeginSecret
  <2> QED
    BY <1>0, <2>1, SecretOthersKeep DEF Bound, Draft
<1>7. ASSUME UNCHANGED <<prep, givenEnv, reads>>, asked'.draft = asked.draft, asked'.value = asked.value,
             \/ service' = service
             \/ \E e \in Slot, v \in SecretValue \union {None} : service' = [service EXCEPT ![e] = v]
      PROVE  SecretInv'
  <2>1. service' \in [Slot -> Outcomes]
    BY <1>0, <1>7 DEF Outcomes
  <2> QED
    BY <1>0, <1>7, <2>1, SecretOthersKeep
<1>b. ASSUME NEW s, VerbGoes(s) PROVE asked'.draft = asked.draft /\ asked'.value = asked.value
  BY <1>b DEF VerbGoes
<1>8. CASE ReadFirst
  BY <1>7, <1>8, <1>b DEF ReadFirst, VerbRest
<1>9. CASE Exists
  BY <1>7, <1>9, <1>b DEF Exists, VerbRest
<1>10. CASE Write
  BY <1>0, <1>7, <1>10, <1>a, <1>b DEF Write, VerbRest, Slotted
<1>11. CASE LookAgain
  BY <1>7, <1>11, <1>b DEF LookAgain, VerbRest
<1>12. CASE Delete
  BY <1>0, <1>7, <1>12, <1>a, <1>b DEF Delete, VerbRest, Slotted
<1>13. CASE VerbFails
  <2>1. UNCHANGED <<prep, givenEnv, reads>> /\ asked'.draft = asked.draft /\ asked'.value = asked.value
    BY <1>13, <1>b DEF VerbFails
  <2>2. \/ service' = service
        \/ \E v \in {asked.value, None} : service' = [service EXCEPT ![Slotted] = v]
    BY <1>13 DEF VerbFails
  <2> QED
    BY <1>0, <1>7, <1>a, <2>1, <2>2 DEF Slotted
<1>14. CASE Foreign
  BY <1>7, <1>14 DEF Foreign
<1> QED
  BY <1>1, <1>2, <1>3, <1>4, <1>5, <1>6, <1>8, <1>9, <1>10, <1>11, <1>12, <1>13, <1>14 DEF SecretNext

LEMMA SecretInvExact == SecretInv => EnvironmentExact
<1> SUFFICES ASSUME SecretInv PROVE EnvironmentExact
  OBVIOUS
<1>1. ASSUME prep.step = "ok", NEW n \in Name
      PROVE  LET mine == {i \in DOMAIN prep.list : NameOf(prep.list[i]) = n}
             IN  IF mine = {} THEN prep.out[n] = Strings(givenEnv)[n]
                 ELSE (\A m \in Name : SameName(m, n) => givenEnv[m] = None)
                      /\ \E i \in mine : prep.out[n] = reads[i]
  <2>1. {i \in DOMAIN prep.list : NameOf(prep.list[i]) = n} = Mine(n)
    BY <1>1 DEF SecretInv, SecretTyped, Mine
  <2>2. Filled(prep.out) /\ Planned
    BY <1>1 DEF SecretInv
  <2>3. Mine(n) = {} => prep.out[n] = Strings(givenEnv)[n]
    BY <1>1, <2>2 DEF SecretInv, Filled, Strings
  <2>4. ASSUME NEW i \in Mine(n) PROVE \A m \in Name : SameName(m, n) => givenEnv[m] = None
    BY <2>1, <2>2, <2>4 DEF Planned, Conflict
  <2> QED
    BY <2>1, <2>2, <2>3, <2>4 DEF Filled
<1> QED
  BY <1>1 DEF SecretInv, EnvironmentExact

\* The environment of the child is the caller's with the secrets that were asked for, and names
\* none twice (prepareEnvironmentSecrets), for any names, values, maps and lists.
THEOREM EnvironmentsExact == SecretSpec => []EnvironmentExact
<1>1. SecretSpec => []SecretInv
  BY SecretInitInv, SecretStepInv, PTL DEF SecretSpec
<1> QED
  BY <1>1, SecretInvExact, PTL

-----------------------------------------------------------------------------
\* How far a call has come, and what the entry is by then.
VerbInv ==
  /\ SecretTyped
  /\ asked.step \in {"read", "exists"} => asked.op = "update"
  /\ asked.step = "look" => asked.op = "store"
  /\ asked.step = "write" => asked.op \in {"store", "update"}
  /\ asked.step = "delete" => asked.op = "delete"
  /\ asked.op \in {"store", "update", "delete"} => (asked.op = "delete" <=> asked.value = None)
  /\ ~mixed =>
       /\ asked.step \in {"read", "exists", "write", "delete", "missing"} => service[Slotted] = asked.old
       /\ asked.step = "exists" => asked.old \in SecretValue
       /\ asked.step = "write" /\ asked.op = "update" => asked.old \in SecretValue
       /\ asked.step \in {"look", "ok"} => service[Slotted] = asked.value
       /\ asked.step = "ok" /\ asked.op = "update" => asked.old \in SecretValue
       /\ asked.step = "failed" =>
            service[Slotted] \in {asked.old} \union IF asked.op = "store" THEN {asked.value} ELSE {}
  /\ asked \in [op : {"none", "store", "update", "delete"}, draft : Draft, value : SecretValue \union {None},
                 step : {"idle", "write", "look", "read", "exists", "delete", "ok", "missing", "failed"},
                 old : Outcomes]
  /\ mixed \in BOOLEAN

LEMMA VerbInitInv == SecretInit => VerbInv
<1> SUFFICES ASSUME SecretInit PROVE VerbInv
  OBVIOUS
<1>1. SecretTyped
  BY SecretInitInv DEF SecretInv
<1> QED
  BY <1>1 DEF SecretInit, VerbInv, NoVerb, Outcomes, Draft

\* One step of a call: what becomes of the entry and of the call.
LEMMA VerbMoves ==
  ASSUME VerbInv, SecretTyped', NEW step, VerbGoes(step), UNCHANGED mixed, NEW v,
         service'[Slotted] = v,
         step \in {"idle", "write", "look", "exists", "ok", "missing", "failed"},
         step = "exists" => asked.op = "update",
         step = "look" => asked.op = "store",
         step = "write" => asked.op \in {"store", "update"},
         ~mixed =>
           /\ step \in {"exists", "write", "missing"} => v = asked.old
           /\ step = "exists" => asked.old \in SecretValue
           /\ step = "write" /\ asked.op = "update" => asked.old \in SecretValue
           /\ step \in {"look", "ok"} => v = asked.value
           /\ step = "ok" /\ asked.op = "update" => asked.old \in SecretValue
           /\ step = "failed" => v \in {asked.old} \union IF asked.op = "store" THEN {asked.value} ELSE {}
  PROVE  VerbInv'
<1>1. /\ asked'.op = asked.op /\ asked'.draft = asked.draft /\ asked'.value = asked.value
      /\ asked'.old = asked.old /\ asked'.step = step
  BY DEF VerbGoes, VerbInv
<1>2. Slotted' = Slotted /\ Slotted \in Slot
  BY <1>1 DEF Slotted, EntryOf, Slot
<1>3. service'[Slotted'] = v
  BY <1>2
<1>4. asked' \in [op : {"none", "store", "update", "delete"}, draft : Draft, value : SecretValue \union {None},
                 step : {"idle", "write", "look", "read", "exists", "delete", "ok", "missing", "failed"},
                 old : Outcomes]
  BY DEF VerbGoes, VerbInv
<1>5. mixed' \in BOOLEAN /\ mixed' = mixed
  BY DEF VerbInv
<1> QED
  BY <1>1, <1>3, <1>4, <1>5 DEF VerbInv

LEMMA VerbStepInv == SecretInv /\ VerbInv /\ [SecretNext]_secretVars => VerbInv'
<1> SUFFICES ASSUME SecretInv, VerbInv, [SecretNext]_secretVars PROVE VerbInv'
  OBVIOUS
<1>0. SecretTyped' /\ SecretTyped
  BY SecretStepInv DEF SecretInv
<1>a. Slotted \in Slot /\ service[Slotted] \in Outcomes
  BY <1>0 DEF Slotted, EntryOf, Slot, SecretTyped
<1>b. ASSUME NEW v, service' = [service EXCEPT ![Slotted] = v] PROVE service'[Slotted] = v
  BY <1>0, <1>a, <1>b DEF SecretTyped
<1>d. None \notin SecretValue /\ Unreadable \notin SecretValue
  BY SecretAssumption
<1>1. CASE UNCHANGED secretVars
  BY <1>0, <1>1 DEF secretVars, VerbInv, Slotted
<1>2. CASE Prepare
  BY <1>0, <1>2 DEF Prepare, VerbInv, Slotted
<1>3. CASE LoadSecret \/ LoadFails \/ ChangeMaps
  <2>1. UNCHANGED <<service, asked, mixed>>
    BY <1>3 DEF LoadSecret, LoadFails, ChangeMaps
  <2> QED
    BY <1>0, <2>1 DEF VerbInv, Slotted
<1>4. ASSUME NEW d \in Bound, NEW op \in {"store", "update", "delete"}, NEW v \in SecretValue \union {None},
             op = "delete" <=> v = None, BeginSecret(op, d, v)
      PROVE  VerbInv'
  <2>1. d \in Draft /\ EntryOf(d) \in Slot
    BY DEF Bound, Draft, EntryOf, Slot
  <2>2. service[EntryOf(d)] \in Outcomes
    BY <1>0, <2>1 DEF SecretTyped
  <2>3. /\ asked' = [op |-> op, draft |-> d, value |-> v, old |-> service[EntryOf(d)],
                     step |-> IF op = "store" THEN "write" ELSE IF op = "update" THEN "read" ELSE "delete"]
        /\ mixed' = FALSE /\ service' = service
    BY <1>4 DEF BeginSecret
  <2>4. Slotted' = EntryOf(d)
    BY <2>3 DEF Slotted
  <2> QED
    BY <1>0, <1>4, <2>1, <2>2, <2>3, <2>4 DEF VerbInv
<1>5. CASE ReadFirst
  <2>1. UNCHANGED <<service, mixed>> /\ asked.step = "read"
        /\ \E s \in {"missing", "failed", "exists"} :
             /\ VerbGoes(s)
             /\ s = "missing" <=> service[Slotted] = None
             /\ s = "failed" <=> service[Slotted] = Unreadable
    BY <1>5 DEF ReadFirst, VerbRest, None, Unreadable
  <2>2. PICK s \in {"missing", "failed", "exists"} :
             /\ VerbGoes(s)
             /\ s = "missing" <=> service[Slotted] = None
             /\ s = "failed" <=> service[Slotted] = Unreadable
    BY <2>1
  <2>3. s = "exists" => service[Slotted] \in SecretValue
    BY <1>a, <2>2 DEF Outcomes
  <2>4. asked.op = "update" /\ (~mixed => service[Slotted] = asked.old)
    BY <2>1 DEF VerbInv
  <2> QED
    BY <1>0, <2>1, <2>2, <2>3, <2>4, VerbMoves
<1>6. CASE Exists
  <2>1. UNCHANGED <<service, mixed>> /\ asked.step = "exists"
        /\ VerbGoes(IF service[Slotted] = None THEN "failed" ELSE "write")
    BY <1>6 DEF Exists, VerbRest
  <2>2. asked.op = "update" /\ (~mixed => service[Slotted] = asked.old /\ asked.old \in SecretValue)
    BY <2>1 DEF VerbInv
  <2> QED
    BY <1>0, <2>1, <2>2, VerbMoves
<1>7. CASE Write
  <2>1. UNCHANGED mixed /\ asked.step = "write" /\ service' = [service EXCEPT ![Slotted] = asked.value]
        /\ VerbGoes(IF asked.op = "store" THEN "look" ELSE "ok")
    BY <1>7 DEF Write, VerbRest
  <2>2. asked.op \in {"store", "update"} /\ (~mixed /\ asked.op = "update" => asked.old \in SecretValue)
    BY <2>1 DEF VerbInv
  <2>2a. service'[Slotted] = asked.value
    BY <1>b, <2>1
  <2>3. CASE asked.op = "store"
    <3>1. VerbGoes("look")
      BY <2>1, <2>3
    <3> QED
      BY <1>0, <2>1, <2>2a, <2>3, <3>1, VerbMoves
  <2>4. CASE asked.op = "update"
    <3>1. VerbGoes("ok")
      BY <2>1, <2>4
    <3> QED
      BY <1>0, <2>1, <2>2, <2>2a, <2>4, <3>1, VerbMoves
  <2> QED
    BY <2>2, <2>3, <2>4
<1>8. CASE LookAgain
  <2>1. UNCHANGED <<service, mixed>> /\ asked.step = "look"
        /\ VerbGoes(IF service[Slotted] = None THEN "failed" ELSE "ok")
    BY <1>8 DEF LookAgain, VerbRest
  <2>2. asked.op = "store" /\ asked.value # None /\ (~mixed => service[Slotted] = asked.value)
    BY <2>1 DEF VerbInv
  <2> QED
    BY <1>0, <2>1, <2>2, VerbMoves
<1>9. CASE Delete
  <2>1. UNCHANGED mixed /\ asked.step = "delete" /\ service' = [service EXCEPT ![Slotted] = None]
        /\ VerbGoes("ok")
    BY <1>9 DEF Delete, VerbRest
  <2>2. asked.op = "delete" /\ asked.value = None
    BY <2>1 DEF VerbInv
  <2>3. service'[Slotted] = asked.value
    BY <1>b, <2>1, <2>2
  <2> QED
    BY <1>0, <2>1, <2>2, <2>3, VerbMoves
<1>10. CASE VerbFails
  <2>1. /\ asked.step \in {"read", "exists", "write", "look", "delete"} /\ VerbGoes("failed")
        /\ mixed' = (mixed \/ service' # service)
    BY <1>10 DEF VerbFails
  <2>2. CASE service' = service /\ UNCHANGED mixed
    <3>1. ~mixed => service[Slotted] \in {asked.old} \union IF asked.op = "store" THEN {asked.value} ELSE {}
      <4>1. CASE asked.step = "look"
        BY <4>1 DEF VerbInv
      <4>2. CASE asked.step # "look"
        BY <2>1, <4>2 DEF VerbInv
      <4> QED
        BY <4>1, <4>2
    <3> QED
      BY <1>0, <2>1, <2>2, <3>1, VerbMoves
  <2>3. CASE mixed' = TRUE
    <3>1. /\ asked'.step = "failed" /\ asked'.op = asked.op /\ asked'.value = asked.value
          /\ asked' \in [op : {"none", "store", "update", "delete"}, draft : Draft, value : SecretValue \union {None},
                 step : {"idle", "write", "look", "read", "exists", "delete", "ok", "missing", "failed"},
                 old : Outcomes]
      BY <2>1 DEF VerbGoes, VerbInv
    <3> QED
      BY <1>0, <2>3, <3>1 DEF VerbInv
  <2>4. mixed' = TRUE \/ (service' = service /\ mixed' = mixed)
    BY <2>1 DEF VerbInv
  <2> QED
    BY <2>2, <2>3, <2>4
<1>11. CASE Foreign
  BY <1>0, <1>11 DEF Foreign, VerbInv
<1>12. ASSUME NEW d \in Bound, (\E op \in {"store", "update"}, v \in SecretValue : BeginSecret(op, d, v))
                                 \/ BeginSecret("delete", d, None)
       PROVE  VerbInv'
  BY <1>4, <1>12, <1>d
<1> QED
  BY <1>1, <1>2, <1>3, <1>5, <1>6, <1>7, <1>8, <1>9, <1>10, <1>11, <1>12 DEF SecretNext

\* Storing, updating and deleting report what they did.
THEOREM VerbsReported == SecretSpec => []VerbsTruthful
<1>1. SecretInv /\ VerbInv /\ [SecretNext]_secretVars => (SecretInv /\ VerbInv)'
  BY SecretStepInv, VerbStepInv
<1>2. VerbInv => VerbsTruthful
  BY DEF VerbInv, VerbsTruthful
<1> QED
  BY <1>1, <1>2, SecretInitInv, VerbInitInv, PTL DEF SecretSpec

-----------------------------------------------------------------------------
(* CredentialVault: the entries of a keychain, a keyring, the Windows vault *)

VaultTyped ==
  /\ backend \in {"keychain", "keyring", "windows"} /\ verb \in Verb
  /\ stage \in Steps
  /\ vault \in SUBSET Credential /\ scope \in Owner \union {Unset} /\ given \in Credential
  /\ backup \in Credential \union {Nothing} /\ foreign \in Nat /\ troubled \in Nat
  /\ late \in BOOLEAN

\* Nothing has been replaced yet.
Untouched == stage \in {"search", "account", "remove", "preflight"} \/ (stage = "idle" /\ ending = "none")

\* Where an operation is says which one it is and on which store.
Placed ==
  /\ stage = "account" => backend = "keychain" /\ verb \in {"read", "write"}
  /\ stage = "remove" => backend # "windows" /\ verb \in {"write", "delete"}
  /\ stage = "preflight" => backend = "windows" /\ verb = "write"
  /\ stage \in {"store", "rollback"} => verb = "write"
  /\ stage = "search" \/ (stage = "idle" /\ ending = "none") => backup = Nothing
  /\ stage # "idle" => ending = "none"
  /\ stage \in {"account", "remove", "rollback"} => backup # Nothing
  /\ verb = "delete" => backend = "keyring" /\ scope # Unset

\* Without other programs only the entries of the two accounts change.
Spared ==
  foreign = 0 =>
    /\ initial \in Vaults(backend)
    /\ Untouched => vault = initial
    /\ backend = "windows" /\ stage = "store" => \A e \in vault : e.owner = Target
    /\ \A e \in initial : e.owner \notin {backup.owner, Target} => e \in vault

\* What the backup is of, and that it can be put back.
Backed ==
  foreign = 0 /\ ~late =>
    /\ stage \in {"account", "remove"} => backup \in Matches
    /\ stage = "preflight" => \/ backup = Nothing /\ vault = {}
                              \/ \E e \in initial : backup = Stored(e)
    /\ stage \in {"store", "rollback"} =>
         \/ backup = Nothing /\ vault = initial /\ stage = "store"
         \/ backend # "windows" /\ backup \in initial /\ vault = {e \in initial : e.owner # backup.owner}
         \/ backend = "windows" /\ vault = initial /\ \E e \in initial : backup = Stored(e)
    /\ verb \in {"read", "exists"} => vault = initial

VaultInv == VaultTyped /\ Placed /\ Spared /\ Backed /\ VaultTruthful

LEMMA OwnersTyped == DefaultOwner \in Owner /\ (VaultTyped => Target \in Owner)
<1>1. DefaultOwner \in Owner
  BY VaultAssumption DEF DefaultOwner
<1> QED
  BY <1>1 DEF Target, VaultTyped, Credential

LEMMA VaultInitInv == VaultInit => VaultInv
<1> SUFFICES ASSUME VaultInit PROVE VaultInv
  OBVIOUS
<1>1. VaultTyped
  BY VaultAssumption DEF VaultInit, VaultTyped, Vaults, Steps
<1>2. Placed /\ Spared
  BY DEF VaultInit, Placed, Spared
<1>3. Backed /\ VaultTruthful
  BY DEF VaultInit, Backed, VaultTruthful
<1> QED
  BY <1>1, <1>2, <1>3 DEF VaultInv

LEMMA VaultStepTyped == VaultInv /\ [VaultNext]_vaultVars => VaultTyped' /\ Placed'
<1> SUFFICES ASSUME VaultInv, [VaultNext]_vaultVars PROVE VaultTyped' /\ Placed'
  OBVIOUS
<1>0. VaultTyped /\ Placed
  BY DEF VaultInv
<1>a. DefaultOwner \in Owner /\ Target \in Owner
  BY <1>0, OwnersTyped
<1>b. New \in Credential /\ (backup # Nothing => backup \in Credential)
  BY <1>0, <1>a DEF New, VaultTyped, Credential
<1>c. \A e \in Matches : {e, Stored(e)} \subseteq Credential \ {Nothing}
  BY <1>0, <1>a, VaultAssumption DEF Matches, Stored, VaultTyped, Credential, Nothing
<1>d. troubled \in Nat /\ troubled + 1 \in Nat /\ late \in BOOLEAN /\ TRUE \in BOOLEAN
  BY <1>0 DEF VaultTyped
<1> USE DEF Fixed, Steps
<1>1. CASE UNCHANGED vaultVars
  BY <1>0, <1>1 DEF vaultVars, VaultTyped, Placed
<1>2. CASE BeginVerb
  BY <1>0, <1>2 DEF BeginVerb, Go, VaultTyped, Placed
<1>3. CASE Search
  <2>1. UNCHANGED <<backend, verb, vault, scope, given, initial, foreign, late>> /\ stage = "search" /\ troubled' \in Nat
    BY <1>d, <1>3, Zenon DEF Search, CommandFails
  <2>2. CASE stage' = "idle" /\ ending' # "none" /\ UNCHANGED backup
    BY <1>0, <2>1, <2>2 DEF VaultTyped, Placed
  <2>3. CASE backend = "keychain" /\ KeychainValue
    BY <1>0, <1>c, <2>1, <2>3 DEF KeychainValue, Ends, Go, VaultTyped, Placed, Verb
  <2>4. CASE backend = "keyring" /\ KeyringSearch
    BY <1>0, <1>c, <2>1, <2>4 DEF KeyringSearch, Answers, Refuses, Ends, Go, VaultTyped, Placed, Verb
  <2>5. CASE backend = "windows" /\ BridgeRead
    BY <1>0, <1>c, <2>1, <2>5 DEF BridgeRead, Answers, Refuses, Ends, Go, VaultTyped, Placed, Verb
  <2> QED
    BY <1>0, <1>3, <2>2, <2>3, <2>4, <2>5 DEF Search, Ends, VaultTyped
<1>4. CASE Account
  <2>1. UNCHANGED <<backend, verb, vault, scope, given, initial, foreign, late>> /\ stage = "account" /\ troubled' \in Nat
    BY <1>0, <1>4 DEF Account, CommandFails, VaultTyped
  <2>2. PICK owner \in Owner \union {Unset} :
          IF verb = "read" THEN Answers([backup EXCEPT !.owner = owner])
          ELSE IF owner = Unset THEN Refuses
          ELSE backup' = [backup EXCEPT !.owner = owner] /\ Go("remove")
    BY <1>4 DEF Account
  <2>3. [backup EXCEPT !.owner = owner] \in Credential \ {Nothing}
    BY <1>0, <1>b, <2>1, VaultAssumption DEF Placed, Credential, Nothing
  <2> QED
    BY <1>0, <2>1, <2>2, <2>3 DEF Answers, Refuses, Ends, Go, VaultTyped, Placed, Verb
<1>5. CASE RemoveItem
  <2>1. UNCHANGED <<backend, verb, backup, scope, given, initial, foreign>> /\ stage = "remove" /\ troubled' \in Nat
        /\ vault' \subseteq vault /\ late' \in BOOLEAN
    BY <1>d, <1>5, Zenon DEF RemoveItem, CommandFails, Lost
  <2>2. (stage' = "store" /\ verb = "write" /\ ending' = ending) \/ (stage' = "idle" /\ ending' # "none")
    BY <1>0, <1>5 DEF RemoveItem, Ends, Go, Placed
  <2> QED
    BY <1>0, <2>1, <2>2 DEF VaultTyped, Placed
<1>6. CASE Preflight
  <2>1. UNCHANGED <<backend, verb, vault, backup, scope, given, initial, foreign, late>> /\ stage = "preflight" /\ troubled' \in Nat
    BY <1>0, <1>6 DEF Preflight, CommandFails, VaultTyped
  <2>2. (ending' = ending /\ (stage' = "store" \/ (stage' = "rollback" /\ backup # Nothing))) \/ (stage' = "idle" /\ ending' # "none")
    BY <1>6 DEF Preflight, Undo, Ends, Go
  <2> QED
    BY <1>0, <2>1, <2>2 DEF VaultTyped, Placed
<1>7. CASE Store
  <2>1. UNCHANGED <<backend, verb, backup, scope, given, initial, foreign>> /\ stage = "store" /\ troubled' \in Nat
        /\ vault' \in {vault, With(New)} /\ late' \in BOOLEAN
    BY <1>d, <1>7, Zenon DEF Store, CommandFails, Lost
  <2>2. (stage' = "rollback" /\ backup # Nothing /\ ending' = ending) \/ (stage' = "idle" /\ ending' # "none")
    BY <1>7 DEF Store, Undo, Ends, Go
  <2>3. vault' \subseteq Credential
    BY <1>0, <1>b, <2>1 DEF With, VaultTyped
  <2> QED
    BY <1>0, <2>1, <2>2, <2>3 DEF VaultTyped, Placed
<1>8. CASE PutBack
  <2>1. UNCHANGED <<backend, verb, backup, scope, given, initial, foreign>> /\ stage = "rollback" /\ troubled' \in Nat
        /\ vault' \in {vault, With(backup)} /\ late' \in BOOLEAN /\ stage' = "idle" /\ ending' # "none"
    BY <1>d, <1>8, Zenon DEF PutBack, CommandFails, Lost, Ends
  <2>2. backup # Nothing
    BY <1>0, <2>1 DEF Placed
  <2>3. vault' \subseteq Credential
    BY <1>0, <1>b, <2>1, <2>2 DEF With, VaultTyped
  <2> QED
    BY <1>0, <2>1, <2>3 DEF VaultTyped, Placed
<1>9. CASE OtherProgram
  BY <1>0, <1>9 DEF OtherProgram, VaultTyped, Placed, Vaults
<1>10. CASE KilledWriting
  BY <1>0, <1>10 DEF KilledWriting, Ends, VaultTyped, Placed
<1> QED
  BY <1>1, <1>2, <1>3, <1>4, <1>5, <1>6, <1>7, <1>8, <1>9, <1>10 DEF VaultNext

LEMMA VaultStepSpared == VaultInv /\ [VaultNext]_vaultVars => Spared'
<1> SUFFICES ASSUME VaultInv, [VaultNext]_vaultVars, foreign' = 0 PROVE Spared'
  BY DEF Spared
<1>0. VaultTyped /\ Placed /\ Spared
  BY DEF VaultInv
<1>a. foreign = 0 \/ OtherProgram
  BY DEF vaultVars, VaultNext, BeginVerb, Search, Account, RemoveItem, Preflight, Store, PutBack, KilledWriting, Fixed
<1>b. ~OtherProgram
  BY <1>0 DEF OtherProgram, VaultTyped
<1>c. /\ initial \in Vaults(backend)
      /\ Untouched => vault = initial
      /\ backend = "windows" /\ stage = "store" => \A e \in vault : e.owner = Target
      /\ \A e \in initial : e.owner \notin {backup.owner, Target} => e \in vault
  BY <1>0, <1>a, <1>b DEF Spared
<1>d. UNCHANGED backend /\ UNCHANGED <<scope, given>> /\ Target' = Target
  BY <1>b DEF vaultVars, VaultNext, BeginVerb, Search, Account, RemoveItem, Preflight, Store, PutBack, KilledWriting, Fixed, Target
<1>e. ASSUME vault' = initial', initial' = initial, backend' = "windows" => stage' # "store" PROVE Spared'
  BY <1>c, <1>d, <1>e DEF Spared
<1>1. CASE UNCHANGED vaultVars
  BY <1>c, <1>d, <1>1 DEF vaultVars, Spared, Untouched
<1>2. CASE BeginVerb
  BY <1>c, <1>e, <1>2 DEF BeginVerb, Go, Untouched
<1>3. CASE Search
  <2>1. vault' = initial' /\ initial' = initial
    BY <1>c, <1>3 DEF Search, Fixed, Untouched
  <2>2. backend = "windows" => stage' # "store"
    BY <1>3 DEF Search, Ends, Go, BridgeRead, Refuses, Answers
  <2> QED
    BY <1>d, <1>e, <2>1, <2>2
<1>4. CASE Account
  <2>1. vault' = initial' /\ initial' = initial
    BY <1>c, <1>4 DEF Account, Fixed, Untouched
  <2>2. stage' # "store"
    BY <1>4 DEF Account, Ends, Go, Refuses, Answers
  <2> QED
    BY <1>e, <2>1, <2>2
<1>5. CASE RemoveItem
  <2>1. stage = "remove" /\ UNCHANGED <<initial, backup>> /\ vault' \in {vault, {e \in vault : e.owner # backup.owner}}
    BY <1>5 DEF RemoveItem, Lost, Fixed
  <2>2. vault = initial /\ backend # "windows"
    BY <1>0, <1>c, <2>1 DEF Untouched, Placed
  <2>3. stage' = "store" \/ (stage' = "idle" /\ ending' # "none")
    BY <1>5 DEF RemoveItem, Ends, Go
  <2> QED
    BY <1>c, <1>d, <2>1, <2>2, <2>3 DEF Spared, Untouched
<1>6. CASE Preflight
  <2>1. vault' = vault /\ vault = initial /\ UNCHANGED <<initial, backup>>
    BY <1>c, <1>6 DEF Preflight, Fixed, Untouched
  <2>2. stage' = "store" => \A e \in vault : e.owner = Target
    BY <1>6 DEF Preflight, Undo, Ends, Go, BridgePreflight
  <2> QED
    BY <1>c, <1>d, <2>1, <2>2 DEF Spared
<1>7. CASE Store
  <2>1. UNCHANGED <<initial, backup>> /\ stage = "store" /\ vault' \in {vault, With(New)}
    BY <1>7 DEF Store, Lost, Fixed
  <2>2. stage' = "rollback" \/ (stage' = "idle" /\ ending' # "none")
    BY <1>7 DEF Store, Undo, Ends, Go
  <2>3. \A e \in vault : e.owner # Target => e \in With(New)
    BY <1>0, <1>c, <2>1 DEF With, New, VaultTyped
  <2> QED
    BY <1>c, <1>d, <2>1, <2>2, <2>3 DEF Spared, Untouched
<1>8. CASE PutBack
  <2>1. UNCHANGED <<initial, backup>> /\ stage = "rollback" /\ vault' \in {vault, With(backup)}
        /\ stage' = "idle" /\ ending' # "none"
    BY <1>8 DEF PutBack, Lost, Fixed, Ends
  <2>2. vault' # vault => \A e \in vault : e.owner # backup.owner => e \in With(backup)
    BY <1>0, <1>8 DEF PutBack, With, BridgePreflight, VaultTyped
  <2> QED
    BY <1>c, <1>d, <2>1, <2>2 DEF Spared, Untouched
<1>9. CASE KilledWriting
  <2>1. UNCHANGED <<initial, backup, vault>> /\ stage' = "idle" /\ ending' # "none"
    BY <1>9 DEF KilledWriting, Fixed, Ends
  <2> QED
    BY <1>c, <1>d, <2>1 DEF Spared, Untouched
<1> QED
  BY <1>b, <1>1, <1>2, <1>3, <1>4, <1>5, <1>6, <1>7, <1>8, <1>9 DEF VaultNext

LEMMA VaultStepBacked == VaultInv /\ [VaultNext]_vaultVars => Backed'
<1> SUFFICES ASSUME VaultInv, [VaultNext]_vaultVars, foreign' = 0, ~late' PROVE Backed'
  BY DEF Backed
<1>0. VaultTyped /\ Placed /\ Spared /\ Backed
  BY DEF VaultInv
<1>h. foreign = 0 \/ OtherProgram
  BY DEF vaultVars, VaultNext, BeginVerb, Search, Account, RemoveItem, Preflight, Store, PutBack, KilledWriting, Fixed
<1>i. ~OtherProgram
  BY <1>0 DEF OtherProgram, VaultTyped
<1>a. foreign = 0 /\ ~OtherProgram
  BY <1>h, <1>i
<1>g. late' = late \/ late' = TRUE
  BY <1>a DEF vaultVars, VaultNext, BeginVerb, Search, Account, RemoveItem, Preflight, Store, PutBack, KilledWriting, Lost
<1>b. ~late
  BY <1>g, Zenon
<1>c. /\ stage \in {"account", "remove"} => backup \in Matches
      /\ stage = "preflight" => \/ backup = Nothing /\ vault = {}
                                \/ \E e \in initial : backup = Stored(e)
      /\ stage \in {"store", "rollback"} =>
           \/ backup = Nothing /\ vault = initial /\ stage = "store"
           \/ backend # "windows" /\ backup \in initial /\ vault = {e \in initial : e.owner # backup.owner}
           \/ backend = "windows" /\ vault = initial /\ \E e \in initial : backup = Stored(e)
      /\ verb \in {"read", "exists"} => vault = initial
      /\ Untouched => vault = initial
  BY <1>0, <1>a, <1>b DEF Backed, Spared
<1>d. UNCHANGED <<backend, scope, given, verb>>
  BY <1>a DEF vaultVars, VaultNext, BeginVerb, Search, Account, RemoveItem, Preflight, Store, PutBack, KilledWriting, Fixed
<1>e. (\A e : Stored(e)' = Stored(e)) /\ Nothing' = Nothing
  BY DEF Stored, Nothing
<1>f. ASSUME stage' = "idle", UNCHANGED <<vault, initial>> PROVE Backed'
  BY <1>c, <1>d, <1>f DEF Backed
<1>1. CASE UNCHANGED vaultVars
  BY <1>c, <1>e, <1>1 DEF vaultVars, Backed, Matches
<1>2. CASE BeginVerb
  BY <1>2 DEF BeginVerb, Go, Backed
<1>3. CASE Search
  <2>1. UNCHANGED <<vault, initial>> /\ vault = initial /\ stage = "search" /\ Matches' = Matches
    BY <1>c, <1>d, <1>3 DEF Search, Fixed, Untouched, Matches
  <2>2. backup = Nothing
    BY <1>0, <2>1 DEF Placed
  <2>3. CASE stage' = "idle"
    BY <1>f, <2>1, <2>3
  <2>4. CASE backend = "keychain" /\ KeychainValue
    BY <1>c, <1>d, <1>e, <2>1, <2>2, <2>4 DEF KeychainValue, Ends, Go, Backed
  <2>5. CASE backend = "keyring" /\ KeyringSearch
    BY <1>c, <1>d, <1>e, <2>1, <2>2, <2>5 DEF KeyringSearch, Answers, Refuses, Ends, Go, Backed
  <2>6. CASE backend = "windows" /\ BridgeRead
    <3>1. Matches = vault
      BY <2>6 DEF Matches
    <3> QED
      BY <1>c, <1>d, <1>e, <2>1, <2>2, <2>6, <3>1 DEF BridgeRead, Answers, Refuses, Ends, Go, Backed
  <2> QED
    BY <1>0, <1>3, <2>3, <2>4, <2>5, <2>6 DEF Search, Ends, VaultTyped
<1>4. CASE Account
  <2>1. UNCHANGED <<vault, initial>> /\ vault = initial /\ stage = "account" /\ Matches' = Matches
    BY <1>c, <1>d, <1>4 DEF Account, Fixed, Untouched, Matches
  <2>2. backup \in Matches /\ backup \in Credential
    BY <1>0, <1>c, <2>1 DEF Matches, VaultTyped
  <2>3. CASE stage' = "idle"
    BY <1>f, <2>1, <2>3
  <2>4. CASE stage' # "idle"
    <3>1. PICK owner \in Owner \union {Unset} : 
            /\ owner = Unset \/ owner \in {e.owner : e \in {backup}}
            /\ owner # Unset /\ backup' = [backup EXCEPT !.owner = owner] /\ Go("remove")
      BY <1>4, <2>2, <2>4 DEF Account, Answers, Refuses, Ends
    <3>2. backup' = backup /\ stage' = "remove"
      BY <2>2, <3>1 DEF Credential, Go
    <3> QED
      BY <1>c, <1>d, <2>1, <2>2, <3>2 DEF Backed
  <2> QED
    BY <2>3, <2>4
<1>5. CASE RemoveItem
  <2>1. stage = "remove" /\ UNCHANGED <<initial, backup>> /\ vault = initial
    BY <1>c, <1>5 DEF RemoveItem, Fixed, Untouched
  <2>2. backend # "windows" /\ verb \in {"write", "delete"} /\ backup \in vault
    BY <1>0, <1>c, <2>1 DEF Placed, Matches
  <2>3. (stage' = "store" /\ vault' = {e \in vault : e.owner # backup.owner}) \/ stage' = "idle"
    BY <1>5 DEF RemoveItem, Ends, Go
  <2> QED
    BY <1>d, <2>1, <2>2, <2>3 DEF Backed
<1>6. CASE Preflight
  <2>1. vault' = vault /\ vault = initial /\ UNCHANGED <<initial, backup>> /\ stage = "preflight" /\ backend = "windows"
    BY <1>0, <1>c, <1>6 DEF Preflight, Fixed, Untouched, Placed
  <2>2. stage' = "store" \/ (stage' = "rollback" /\ backup # Nothing) \/ stage' = "idle"
    BY <1>6 DEF Preflight, Undo, Ends, Go
  <2> QED
    BY <1>c, <1>d, <1>e, <2>1, <2>2 DEF Backed
<1>7. CASE Store
  <2>1. UNCHANGED <<initial, backup>> /\ stage = "store" /\ verb = "write"
    BY <1>0, <1>7 DEF Store, Fixed, Placed
  <2>2. (stage' = "rollback" /\ backup # Nothing /\ vault' = vault) \/ stage' = "idle"
    BY <1>7, Zenon DEF Store, Undo, Ends, Go, Lost
  <2> QED
    BY <1>c, <1>d, <1>e, <2>1, <2>2 DEF Backed
<1>8. CASE PutBack
  <2>1. stage' = "idle" /\ verb = "write"
    BY <1>0, <1>8 DEF PutBack, Lost, Fixed, Ends, Placed
  <2> QED
    BY <1>d, <2>1 DEF Backed
<1>9. CASE KilledWriting
  BY <1>f, <1>9 DEF KilledWriting, Fixed, Ends
<1> QED
  BY <1>a, <1>1, <1>2, <1>3, <1>4, <1>5, <1>6, <1>7, <1>8, <1>9 DEF VaultNext

LEMMA VaultStepTruthful == VaultInv /\ Spared' /\ [VaultNext]_vaultVars => VaultTruthful'
<1> SUFFICES ASSUME VaultInv, Spared', [VaultNext]_vaultVars, foreign' = 0, ~late' PROVE VaultTruthful'
  BY DEF VaultTruthful
<1>0. VaultTyped /\ Placed /\ Spared /\ Backed /\ VaultTruthful
  BY DEF VaultInv
<1>h. foreign = 0 \/ OtherProgram
  BY DEF vaultVars, VaultNext, BeginVerb, Search, Account, RemoveItem, Preflight, Store, PutBack, KilledWriting, Fixed
<1>i. ~OtherProgram
  BY <1>0 DEF OtherProgram, VaultTyped
<1>a. foreign = 0 /\ ~OtherProgram
  BY <1>h, <1>i
<1>g. late' = late \/ late' = TRUE
  BY <1>a DEF vaultVars, VaultNext, BeginVerb, Search, Account, RemoveItem, Preflight, Store, PutBack, KilledWriting, Lost
<1>b. ~late
  BY <1>g, Zenon
<1>c. /\ stage \in {"account", "remove"} => backup \in Matches
      /\ stage = "preflight" => \/ backup = Nothing /\ vault = {}
                                \/ \E e \in initial : backup = Stored(e)
      /\ stage \in {"store", "rollback"} =>
           \/ backup = Nothing /\ vault = initial /\ stage = "store"
           \/ backend # "windows" /\ backup \in initial /\ vault = {e \in initial : e.owner # backup.owner}
           \/ backend = "windows" /\ vault = initial /\ \E e \in initial : backup = Stored(e)
      /\ verb \in {"read", "exists"} => vault = initial
      /\ Untouched => vault = initial
      /\ initial \in Vaults(backend)
  BY <1>0, <1>a, <1>b DEF Backed, Spared
<1>d. UNCHANGED <<backend, scope, given, verb>> /\ New' = New /\ Target' = Target /\ Nothing' = Nothing
  BY <1>a DEF vaultVars, VaultNext, BeginVerb, Search, Account, RemoveItem, Preflight, Store, PutBack, KilledWriting, Fixed,
              New, Target, Nothing
<1>e. New \in Credential /\ Nothing \notin Credential /\ New.owner = Target /\ Target # Unset
  BY <1>0, OwnersTyped, VaultAssumption DEF New, VaultTyped, Credential, Nothing
\* A step inside the operation leaves the answer open.
<1>f. ASSUME ending' = "none", verb \in {"read", "exists"} => vault' = initial' PROVE VaultTruthful'
  BY <1>d, <1>f DEF VaultTruthful
<1>k. ASSUME UNCHANGED <<vault, initial>>, vault = initial, ending' = "error" PROVE VaultTruthful'
  BY <1>k DEF VaultTruthful
<1>1. CASE UNCHANGED vaultVars
  <2>1. Matches' = Matches
    BY <1>1 DEF vaultVars, Matches
  <2> QED
    BY <1>0, <1>a, <1>b, <1>d, <1>1, <2>1 DEF vaultVars, VaultTruthful
<1>2. CASE BeginVerb
  BY <1>f, <1>2 DEF BeginVerb, Go
<1>3. CASE Search
  <2>1. UNCHANGED <<vault, initial>> /\ vault = initial /\ stage = "search" /\ Matches' = Matches /\ ending = "none"
    BY <1>0, <1>c, <1>d, <1>3 DEF Search, Fixed, Untouched, Matches, Placed
  <2>2. CASE stage' # "idle"
    <3>1. ending' = "none"
      <4>1. \/ backend = "keychain" /\ KeychainValue
            \/ backend = "keyring" /\ KeyringSearch
            \/ backend = "windows" /\ BridgeRead
        BY <1>0, <1>3, <2>2 DEF Search, Ends, VaultTyped
      <4>2. KeychainValue => ending' = ending
        BY <2>2 DEF KeychainValue, Ends, Go
      <4>3. KeyringSearch => ending' = ending
        BY <2>2 DEF KeyringSearch, Ends, Go, Answers, Refuses
      <4>4. BridgeRead => ending' = ending
        BY <2>2 DEF BridgeRead, Ends, Go, Answers, Refuses
      <4> QED
        BY <2>1, <4>1, <4>2, <4>3, <4>4
    <3> QED
      BY <1>f, <2>1, <3>1
  <2>3. CASE CommandFails /\ ending' = IF backend = "keychain" /\ verb = "exists" THEN "missing" ELSE "error"
    <3>1. troubled' # 0
      BY <1>0, <2>3 DEF CommandFails, VaultTyped
    <3>2. CASE ending' = "missing" /\ verb = "exists"
      BY <1>d, <2>1, <3>1, <3>2 DEF VaultTruthful
    <3> QED
      BY <1>k, <2>1, <2>3, <3>2
  <2>4. CASE backend = "keychain" /\ KeychainValue
    <3>1. \/ stage' # "idle"
          \/ verb = "exists" /\ ending' \in {"missing", "ok"} /\ (ending' = "missing" => Matches = {})
          \/ verb = "read" /\ Matches = {} /\ ending' = "missing"
      BY <2>4 DEF KeychainValue, Ends, Go
    <3> QED
      BY <1>d, <2>1, <2>2, <3>1 DEF VaultTruthful
  <2>5. CASE backend = "keyring" /\ KeyringSearch
    <3>1. CASE Refuses
      BY <1>k, <2>1, <3>1 DEF Refuses, Ends
    <3>2. CASE Matches = {} /\ Ends("missing")
      BY <1>d, <2>1, <2>5, <3>2 DEF KeyringSearch, Ends, Go, VaultTruthful
    <3>3. ASSUME NEW e \in Matches, verb \in {"read", "exists"}, Answers(e) PROVE VaultTruthful'
      BY <1>d, <2>1, <3>3 DEF Answers, Ends, VaultTruthful
    <3> QED
      BY <2>2, <2>5, <3>1, <3>2, <3>3 DEF KeyringSearch, Go
  <2>6. CASE backend = "windows" /\ BridgeRead
    <3>1. CASE Refuses
      BY <1>k, <2>1, <3>1 DEF Refuses, Ends
    <3>2. CASE Matches = {} /\ Ends("missing")
      BY <1>d, <2>1, <3>2 DEF Ends, Go, VaultTruthful
    <3>3. ASSUME NEW e \in Matches, verb # "write", Answers(e) PROVE VaultTruthful'
      <4>1. verb \in {"read", "exists"}
        BY <1>0, <2>6, <3>3 DEF Placed, VaultTyped, Verb
      <4> QED
        BY <1>d, <2>1, <3>3, <4>1 DEF Answers, Ends, VaultTruthful
    <3> QED
      BY <2>2, <2>6, <3>1, <3>2, <3>3 DEF BridgeRead, Go
  <2> QED
    BY <1>0, <1>3, <2>3, <2>4, <2>5, <2>6 DEF Search, Ends, VaultTyped
<1>4. CASE Account
  <2>1. /\ UNCHANGED <<vault, initial>> /\ vault = initial /\ stage = "account" /\ Matches' = Matches
        /\ ending = "none" /\ verb \in {"read", "write"}
    BY <1>0, <1>c, <1>d, <1>4 DEF Account, Fixed, Untouched, Matches, Placed
  <2>2. backup \in Matches /\ backup \in Credential
    BY <1>0, <1>c, <2>1 DEF Matches, VaultTyped
  <2>3. PICK owner \in Owner \union {Unset} :
          /\ CommandFails \/ owner = backup.owner
          /\ IF verb = "read" THEN Answers([backup EXCEPT !.owner = owner])
             ELSE IF owner = Unset THEN Refuses
             ELSE Go("remove")
    BY <1>4, <2>2 DEF Account
  <2>4. troubled' = 0 => owner = backup.owner
    BY <1>0, <2>3 DEF CommandFails, VaultTyped
  <2>5. CASE verb = "read"
    <3>1. /\ backup' = [backup EXCEPT !.owner = owner] /\ backup'.secret = backup.secret /\ ending' = "ok"
          /\ troubled' = 0 => backup' = backup
      BY <2>2, <2>3, <2>4, <2>5 DEF Credential, Answers, Ends
    <3> QED
      BY <1>d, <2>1, <2>2, <2>5, <3>1 DEF VaultTruthful
  <2>6. CASE Refuses
    BY <1>k, <2>1, <2>6 DEF Refuses, Ends
  <2>7. CASE Go("remove")
    BY <1>f, <2>1, <2>7 DEF Go
  <2> QED
    BY <2>3, <2>5, <2>6, <2>7
<1>5. CASE RemoveItem
  <2>1. stage = "remove" /\ UNCHANGED <<initial, backup>> /\ vault = initial /\ ending = "none"
    BY <1>0, <1>c, <1>5 DEF RemoveItem, Fixed, Untouched, Placed
  <2>2. verb \in {"write", "delete"} /\ backup \in vault /\ (verb = "delete" => backend = "keyring" /\ scope # Unset)
        /\ backup \in Matches
    BY <1>0, <1>c, <2>1 DEF Placed, Matches
  <2>3. \/ ending' = "ok" /\ verb = "delete" /\ vault' = {e \in vault : e.owner # backup.owner}
        \/ ending' = ending
        \/ ending' = "error" /\ vault' = vault
    BY <1>5, Zenon DEF RemoveItem, Ends, Go, Lost
  <2>4. CASE ending' = "ok" /\ verb = "delete" /\ vault' = {e \in vault : e.owner # backup.owner}
    <3>1. Matches' = {}
      BY <1>d, <2>2, <2>4 DEF Matches
    <3> QED
      BY <1>d, <2>4, <3>1 DEF VaultTruthful
  <2> QED
    BY <1>f, <1>k, <2>1, <2>2, <2>3, <2>4
<1>6. CASE Preflight
  <2>1. vault' = vault /\ vault = initial /\ UNCHANGED <<initial, backup>> /\ ending = "none"
    BY <1>0, <1>c, <1>6 DEF Preflight, Fixed, Untouched, Placed
  <2>2. ending' = ending \/ ending' = "error"
    BY <1>6 DEF Preflight, Undo, Ends, Go
  <2> QED
    BY <1>f, <1>k, <2>1, <2>2
<1>7. CASE Store
  <2>1. UNCHANGED <<initial, backup>> /\ stage = "store" /\ ending = "none" /\ verb = "write"
    BY <1>0, <1>7 DEF Store, Fixed, Placed
  <2>2. \/ vault' = With(New) /\ ending' = "ok" /\ ~Duplicate(New)
        \/ ending' = ending
        \/ vault' = vault /\ backup = Nothing /\ ending' = "error"
    BY <1>7, Zenon DEF Store, Undo, Ends, Go, Lost
  <2>3. CASE vault' = With(New) /\ ending' = "ok" /\ ~Duplicate(New)
    <3>1. New \in With(New)
      BY <1>0 DEF With, VaultTyped
    <3>2. backup = Nothing => backup \notin With(New)
      BY <1>0, <1>e DEF With, VaultTyped
    <3>3. backup \in With(New) /\ backend # "windows" /\ backup # Nothing => backup.owner = Target
      BY <1>0, <1>c, <1>e, <2>1 DEF With, VaultTyped
    <3>4. backup \in With(New) /\ backend = "windows" => backup.owner = Target
      BY <1>e DEF With
    <3> QED
      BY <1>d, <2>1, <2>3, <3>1, <3>2, <3>3, <3>4 DEF VaultTruthful
  <2>4. CASE vault' = vault /\ backup = Nothing /\ ending' = "error"
    <3>1. initial \subseteq Credential
      BY <1>c DEF Vaults
    <3>2. \A e \in initial : Stored(e) \in Credential
      BY <3>1, OwnersTyped DEF Stored, Credential
    <3>3. vault = initial
      BY <1>c, <1>e, <2>1, <2>4, <3>1, <3>2
    <3> QED
      BY <1>k, <2>1, <2>4, <3>3
  <2> QED
    BY <1>f, <2>1, <2>2, <2>3, <2>4
<1>8. CASE PutBack
  <2>1. UNCHANGED <<initial, backup>> /\ stage = "rollback" /\ verb = "write" /\ ending' \in {"error", "rollback-failed"}
    BY <1>0, <1>8 DEF PutBack, Lost, Fixed, Ends, Placed
  <2>2. CASE ending' = "rollback-failed"
    BY <1>d, <2>1, <2>2 DEF VaultTruthful
  <2>3. CASE ending' = "error"
    <3>1. vault' = With(backup) /\ (backend = "windows" => ~BridgePreflight(backup.owner))
      BY <1>8, <2>3 DEF PutBack, Ends
    <3>2. CASE backend # "windows"
      <4>1. backup \in initial /\ vault = {e \in initial : e.owner # backup.owner}
        BY <1>c, <2>1, <3>2
      <4>2. \A e, f \in initial : e.owner = f.owner => e = f
        BY <1>c DEF Vaults
      <4>3. vault \union {backup} = initial
        BY <4>1, <4>2
      <4>4. {e \in vault : e.owner # backup.owner} = vault
        BY <4>1
      <4>5. With(backup) = vault \union {backup}
        BY <1>0, <3>2, <4>4 DEF With, VaultTyped
      <4> QED
        BY <1>d, <2>1, <2>3, <3>1, <4>3, <4>5 DEF VaultTruthful
    <3>3. CASE backend = "windows"
      <4>1. PICK e \in initial : backup = Stored(e) /\ vault = initial
        BY <1>c, <2>1, <3>3
      <4>2. e.owner = backup.owner /\ \A f \in initial : f = e
        BY <1>c, <3>1, <3>3, <4>1 DEF Vaults, BridgePreflight
      <4>3. DefaultOwner # Unset
        BY OwnersTyped, VaultAssumption
      <4>4. e \in Credential
        BY <1>c DEF Vaults
      <4>5. backup = e
        BY <4>1, <4>2, <4>3, <4>4 DEF Stored, Credential
      <4>6. With(backup) = initial
        BY <3>3, <4>1, <4>2, <4>5 DEF With
      <4> QED
        BY <1>d, <2>1, <2>3, <3>1, <4>6 DEF VaultTruthful
    <3> QED
      BY <3>2, <3>3
  <2> QED
    BY <2>1, <2>2, <2>3
<1>9. CASE KilledWriting
  BY <1>c, <1>d, <1>9 DEF KilledWriting, Fixed, Ends, VaultTruthful
<1> QED
  BY <1>a, <1>1, <1>2, <1>3, <1>4, <1>5, <1>6, <1>7, <1>8, <1>9 DEF VaultNext

LEMMA VaultAlways == VaultSpec => []VaultInv
<1>1. VaultInv /\ [VaultNext]_vaultVars => VaultInv'
  BY VaultStepTyped, VaultStepSpared, VaultStepBacked, VaultStepTruthful DEF VaultInv
<1> QED
  BY <1>1, VaultInitInv, PTL DEF VaultSpec

\* No write or removal takes the entry of another account from a keychain, a keyring or the
\* Windows vault, whatever fails, is killed or comes late.
THEOREM SiblingsAlwaysKept == VaultSpec => []SiblingsKept
<1>1. VaultInv => SiblingsKept
  BY DEF VaultInv, Spared, SiblingsKept
<1> QED
  BY <1>1, VaultAlways, PTL

\* What an operation on a store reports is what became of the entry.
THEOREM VaultAnswers == VaultSpec => []VaultTruthful
<1>1. VaultInv => VaultTruthful
  BY DEF VaultInv
<1> QED
  BY <1>1, VaultAlways, PTL

-----------------------------------------------------------------------------
(* ProviderFile: the files of a directory and the helper that was given it *)

\* The helper lives while mat waits for it, or once mat was killed; it works in the directory
\* that mat reviewed, and only a step of its own leaves a temporary file there.
CallSteps == {"idle", "parents", "target", "open", "after", "helper", "wait", "parentsAgain"}
CallShaped ==
  /\ DOMAIN call = {"op", "bytes", "folder", "file", "step"} /\ DOMAIN helper = {"step", "folder", "bytes"}
  /\ DOMAIN entries = Folder /\ DOMAIN temps = Folder /\ folder \in Folder \union {0}
  /\ call.step \in CallSteps

PinInv ==
  /\ CallShaped
  /\ call.op \in {"none", "read", "exists", "write", "remove"}
  /\ helper.step \in {"none", "start", "input", "open", "filled", "checked", "renamed"}
  /\ helper.step # "none" => /\ helper.folder \in Folder
                             /\ call.step = "wait" \/ (call.step = "idle" /\ answer.how = "killed")
  /\ \A d \in Folder : temps[d] # "none" => d = helper.folder /\ helper.step \in {"open", "filled", "checked"}
  /\ helper.step \in {"input", "open", "filled", "checked"} => parentOk
  /\ helper.step \in {"input", "checked"} => slipped \/ targetOk
  /\ slipped \in BOOLEAN

NewFile(bytes) == [id |-> Fresh, kind |-> "file", bytes |-> bytes]

\* While no other program acts, the entry is the one mat reviewed until the helper replaces or
\* removes it, and then what the call is about.
TruthInv ==
  /\ swaps \in Nat
  /\ call.step # "idle" /\ call.step # "wait" => helper.step = "none"
  /\ call.step # "idle" => answer.how = "none" /\ call.op # "none"
  /\ swaps = 0 =>
       /\ (call.step \in {"target", "open", "after", "helper", "wait", "parentsAgain"} \/ helper.step # "none") =>
            folder \in Folder /\ call.folder = folder
       /\ call.step \in {"parents", "target", "open", "after", "helper"} => At(folder) = original
       /\ call.step \in {"open", "after"} => call.op \in {"read", "exists"}
       /\ call.step = "after" /\ call.op = "read" => call.bytes = original.bytes
       /\ call.step \in {"helper", "parentsAgain"} \/ helper.step # "none" => call.op \in {"write", "remove"}
       /\ helper.step # "none" => helper.folder = folder
       /\ helper.step \in {"open", "filled", "checked", "renamed"} => call.op = "write"
       /\ helper.step \in {"start", "input", "open", "filled", "checked"} => At(folder) = original
       /\ helper.step \in {"filled", "checked"} => temps[folder] = helper.bytes
       /\ helper.step = "renamed" => At(folder) = NewFile(helper.bytes)
       /\ helper.step # "none" /\ call.step = "wait" => helper.bytes = call.bytes
       /\ call.step = "wait" => helper.step # "none"
       /\ call.step = "parentsAgain" => At(folder) = IF call.op = "write" THEN NewFile(call.bytes) ELSE NoEntry

LEMMA CallShapedStep == PinInv /\ [ProviderNext]_providerVars => CallShaped'
<1> SUFFICES ASSUME PinInv, [ProviderNext]_providerVars PROVE CallShaped'
  OBVIOUS
<1> USE DEF PinInv, CallShaped, CallSteps, Folder, Upset, Rest, Replies, Goes, Refused, HelperGoes, Clears
<1>1. CASE UNCHANGED providerVars
  BY <1>1 DEF providerVars
<1>2. ASSUME NEW op, NEW b, Request(op, b) PROVE CallShaped'
  BY <1>2 DEF Request, NoCall
<1>3. CASE ReviewParents
  BY <1>3 DEF ReviewParents
<1>4. CASE ReviewTarget
  BY <1>4 DEF ReviewTarget
<1>5. CASE OpenFile
  BY <1>5 DEF OpenFile
<1>6. CASE ReviewAfter
  BY <1>6 DEF ReviewAfter
<1>7. CASE SpawnHelper
  BY <1>7 DEF SpawnHelper
<1>8. CASE PinParent
  BY <1>8 DEF PinParent
<1>9. CASE OpenTemp
  BY <1>9 DEF OpenTemp
<1>10. CASE FillTemp
  BY <1>10 DEF FillTemp
<1>11. CASE CheckAgain
  BY <1>11 DEF CheckAgain
<1>12. CASE RenameTemp
  BY <1>12 DEF RenameTemp
<1>13. CASE Activated
  BY <1>13 DEF Activated
<1>14. CASE UnlinkChild
  BY <1>14 DEF UnlinkChild
<1>15. CASE ReviewParentsAgain
  BY <1>15 DEF ReviewParentsAgain
<1>16. CASE HelperFails
  BY <1>16 DEF HelperFails
<1>17. CASE KillMat
  BY <1>17 DEF KillMat
<1>18. CASE Swap
  BY <1>18 DEF Swap
<1> QED
  BY <1>1, <1>2, <1>3, <1>4, <1>5, <1>6, <1>7, <1>8, <1>9, <1>10, <1>11, <1>12, <1>13, <1>14, <1>15, <1>16, <1>17, <1>18 DEF ProviderNext

LEMMA PinStep == PinInv /\ [ProviderNext]_providerVars => PinInv'
<1> SUFFICES ASSUME PinInv, [ProviderNext]_providerVars PROVE PinInv'
  OBVIOUS
<1>0. CallShaped' /\ CallShaped
  BY CallShapedStep DEF PinInv
<1> USE DEF PinInv, CallSteps, parentOk, targetOk, At, Folder, Upset, Rest, Replies, Goes, Refused, HelperGoes, Clears
<1>1. CASE UNCHANGED providerVars
  BY <1>0, <1>1 DEF providerVars
<1>2. ASSUME NEW op \in {"read", "exists", "write", "remove"}, NEW b, Request(op, b) PROVE PinInv'
  BY <1>0, <1>2 DEF Request, NoCall, CallShaped
<1>3. CASE ReviewParents
  BY <1>0, <1>3 DEF ReviewParents, CallShaped
<1>4. CASE ReviewTarget
  BY <1>0, <1>4 DEF ReviewTarget, CallShaped
<1>5. CASE OpenFile
  BY <1>0, <1>5 DEF OpenFile, CallShaped
<1>6. CASE ReviewAfter
  BY <1>0, <1>6 DEF ReviewAfter, CallShaped
<1>7. CASE SpawnHelper
  BY <1>0, <1>7 DEF SpawnHelper, CallShaped
<1>8. CASE PinParent
  BY <1>0, <1>8 DEF PinParent, CallShaped
<1>9. CASE OpenTemp
  BY <1>0, <1>9 DEF OpenTemp, CallShaped
<1>10. CASE FillTemp
  BY <1>0, <1>10 DEF FillTemp, CallShaped
<1>11. CASE CheckAgain
  BY <1>0, <1>11, ZenonT(60) DEF CheckAgain, CallShaped
<1>12. CASE RenameTemp
  BY <1>0, <1>12 DEF RenameTemp, CallShaped
<1>13. CASE Activated
  BY <1>0, <1>13 DEF Activated, CallShaped
<1>14. CASE UnlinkChild
  BY <1>0, <1>14 DEF UnlinkChild, CallShaped
<1>15. CASE ReviewParentsAgain
  BY <1>0, <1>15 DEF ReviewParentsAgain, CallShaped
<1>16. CASE HelperFails
  BY <1>0, <1>16 DEF HelperFails, CallShaped
<1>17. CASE KillMat
  BY <1>0, <1>17 DEF KillMat, CallShaped
<1>18. CASE Swap
  BY <1>0, <1>18 DEF Swap, CallShaped
<1> QED
  BY <1>1, <1>2, <1>3, <1>4, <1>5, <1>6, <1>7, <1>8, <1>9, <1>10, <1>11, <1>12, <1>13, <1>14, <1>15, <1>16, <1>17, <1>18 DEF ProviderNext

LEMMA TruthStep == PinInv /\ TruthInv /\ [ProviderNext]_providerVars => TruthInv'
<1> SUFFICES ASSUME PinInv, TruthInv, [ProviderNext]_providerVars PROVE TruthInv'
  OBVIOUS
<1>0. CallShaped' /\ CallShaped /\ PinInv'
  BY PinStep DEF PinInv
<1> USE DEF TruthInv, CallSteps, parentOk, targetOk, At, Folder, NewFile, Fresh, Upset, Rest, Replies, Goes, Refused, HelperGoes, Clears
<1>1. CASE UNCHANGED providerVars
  BY <1>0, <1>1 DEF providerVars
<1>2. ASSUME NEW op \in {"read", "exists", "write", "remove"}, NEW b, Request(op, b) PROVE TruthInv'
  <2>1. At(folder)' = At(folder) /\ original' = At(folder) /\ answer' = answer /\ answer.how = "none"
        /\ call.step = "idle"
    BY <1>2 DEF Request
  <2>2. call'.op = op /\ call'.step = "parents" /\ helper' = helper /\ swaps' = swaps /\ temps' = temps
    BY <1>2 DEF Request, NoCall
  <2>3. helper.step = "none"
    BY <2>1 DEF PinInv
  <2> HIDE DEF At
  <2> QED
    BY <2>1, <2>2, <2>3
<1>3. CASE ReviewParents
  <2>1. At(folder)' = At(folder) /\ helper' = helper /\ swaps' = swaps /\ temps' = temps /\ original' = original
    BY <1>3 DEF ReviewParents
  <2>2. helper.step = "none" /\ call.step = "parents"
    BY <1>3 DEF ReviewParents
  <2>3. CASE call'.step = "idle"
    BY <2>1, <2>2, <2>3
  <2>4. CASE call'.step # "idle"
    <3>1. PICK d \in Folder : folder' = d /\ answer' = answer /\ call' = [call EXCEPT !.folder = d, !.step = "target"]
      BY <1>0, <1>3, <2>4 DEF ReviewParents, CallShaped
    <3>2. call'.op = call.op /\ call'.folder = d /\ call'.step = "target"
      BY <3>1, <1>0 DEF CallShaped
    <3> HIDE DEF At
    <3> QED
      BY <2>1, <2>2, <3>1, <3>2
  <2> QED
    BY <2>3, <2>4
<1>4. CASE ReviewTarget
  <2>1. At(folder)' = At(folder) /\ helper' = helper /\ swaps' = swaps /\ temps' = temps
        /\ original' = original /\ folder' = folder
    BY <1>4 DEF ReviewTarget
  <2>2. helper.step = "none" /\ call.step = "target"
    BY <1>4 DEF ReviewTarget
  <2>3. CASE call'.step = "idle"
    BY <2>1, <2>2, <2>3
  <2>4. CASE call'.step # "idle"
    <3>1. /\ call' = [call EXCEPT !.file = At(folder),
                       !.step = IF call.op \in {"read", "exists"} THEN "open" ELSE "helper"]
          /\ answer' = answer /\ folder = call.folder
      BY <1>0, <1>4, <2>4 DEF ReviewTarget, CallShaped
    <3>2. call'.op = call.op /\ call'.folder = call.folder
          /\ call'.step = IF call.op \in {"read", "exists"} THEN "open" ELSE "helper"
      BY <3>1, <1>0 DEF CallShaped
    <3> HIDE DEF At
    <3> QED
      BY <1>0, <2>1, <2>2, <3>1, <3>2 DEF PinInv
  <2> QED
    BY <2>3, <2>4
<1>5. CASE OpenFile
  <2>1. At(folder)' = At(folder) /\ helper' = helper /\ swaps' = swaps /\ temps' = temps
        /\ original' = original /\ folder' = folder
    BY <1>5 DEF OpenFile
  <2>2. helper.step = "none" /\ call.step = "open"
    BY <1>5 DEF OpenFile
  <2>3. CASE call'.step = "idle"
    BY <2>1, <2>2, <2>3
  <2>4. CASE call'.step # "idle"
    <3>1. call' = [call EXCEPT !.step = "after", !.bytes = At(folder).bytes] /\ answer' = answer
      BY <1>0, <1>5, <2>4 DEF OpenFile, CallShaped
    <3>2. call'.op = call.op /\ call'.folder = call.folder /\ call'.step = "after"
          /\ call'.bytes = At(folder).bytes
      BY <3>1, <1>0 DEF CallShaped
    <3> HIDE DEF At
    <3> QED
      BY <1>0, <2>1, <2>2, <3>1, <3>2
  <2> QED
    BY <2>3, <2>4
<1>6. CASE ReviewAfter
  BY <1>0, <1>6 DEF ReviewAfter, CallShaped, PinInv
<1>7. CASE SpawnHelper
  BY <1>0, <1>7 DEF SpawnHelper, CallShaped, PinInv
<1>8. CASE PinParent
  BY <1>0, <1>8 DEF PinParent, CallShaped, PinInv
<1>9. CASE OpenTemp
  BY <1>0, <1>9 DEF OpenTemp, CallShaped, PinInv
<1>10. CASE FillTemp
  BY <1>0, <1>10 DEF FillTemp, CallShaped, PinInv
<1>11. CASE CheckAgain
  BY <1>0, <1>11 DEF CheckAgain, CallShaped, PinInv
<1>12. CASE RenameTemp
  BY <1>0, <1>12 DEF RenameTemp, CallShaped, PinInv
<1>13. CASE Activated
  BY <1>0, <1>13 DEF Activated, CallShaped, PinInv
<1>14. CASE UnlinkChild
  BY <1>0, <1>14 DEF UnlinkChild, CallShaped, PinInv
<1>15. CASE ReviewParentsAgain
  BY <1>0, <1>15 DEF ReviewParentsAgain, CallShaped, PinInv
<1>16. CASE HelperFails
  BY <1>0, <1>16 DEF HelperFails, CallShaped, PinInv
<1>17. CASE KillMat
  BY <1>0, <1>17 DEF KillMat, CallShaped, PinInv
<1>18. CASE Swap
  BY <1>0, <1>18 DEF Swap, CallShaped, PinInv
<1> QED
  BY <1>1, <1>2, <1>3, <1>4, <1>5, <1>6, <1>7, <1>8, <1>9, <1>10, <1>11, <1>12, <1>13, <1>14, <1>15, <1>16, <1>17, <1>18 DEF ProviderNext

LEMMA AnswerStep == PinInv /\ TruthInv /\ ProviderTruthful /\ [ProviderNext]_providerVars => ProviderTruthful'
<1> SUFFICES ASSUME PinInv, TruthInv, ProviderTruthful, [ProviderNext]_providerVars PROVE ProviderTruthful'
  OBVIOUS
<1>0. CallShaped' /\ CallShaped /\ PinInv' /\ TruthInv'
  BY PinStep, TruthStep DEF PinInv
<1> USE DEF ProviderTruthful, CallSteps, parentOk, targetOk, At, Folder, NewFile, Upset, Rest, Replies, Goes, Refused, HelperGoes, Clears
<1>1. CASE UNCHANGED providerVars
  BY <1>0, <1>1 DEF providerVars
<1>2. ASSUME NEW op \in {"read", "exists", "write", "remove"}, NEW b, Request(op, b) PROVE ProviderTruthful'
  BY <1>0, <1>2 DEF Request, NoCall, CallShaped
<1>3. CASE ReviewParents
  BY <1>0, <1>3 DEF ReviewParents, CallShaped, PinInv, TruthInv
<1>4. CASE ReviewTarget
  BY <1>0, <1>4 DEF ReviewTarget, CallShaped, PinInv, TruthInv
<1>5. CASE OpenFile
  BY <1>0, <1>5 DEF OpenFile, CallShaped, PinInv, TruthInv
<1>6. CASE ReviewAfter
  BY <1>0, <1>6 DEF ReviewAfter, CallShaped, PinInv, TruthInv
<1>7. CASE SpawnHelper
  BY <1>0, <1>7 DEF SpawnHelper, CallShaped, PinInv, TruthInv
<1>8. CASE PinParent
  BY <1>0, <1>8 DEF PinParent, CallShaped, PinInv, TruthInv
<1>9. CASE OpenTemp
  BY <1>0, <1>9 DEF OpenTemp, CallShaped, PinInv, TruthInv
<1>10. CASE FillTemp
  BY <1>0, <1>10 DEF FillTemp, CallShaped, PinInv, TruthInv
<1>11. CASE CheckAgain
  BY <1>0, <1>11 DEF CheckAgain, CallShaped, PinInv, TruthInv
<1>12. CASE RenameTemp
  BY <1>0, <1>12 DEF RenameTemp, CallShaped, PinInv, TruthInv
<1>13. CASE Activated
  BY <1>0, <1>13 DEF Activated, CallShaped, PinInv, TruthInv
<1>14. CASE UnlinkChild
  BY <1>0, <1>14 DEF UnlinkChild, CallShaped, PinInv, TruthInv
<1>15. CASE ReviewParentsAgain
  BY <1>0, <1>15 DEF ReviewParentsAgain, CallShaped, PinInv, TruthInv
<1>16. CASE HelperFails
  BY <1>0, <1>16 DEF HelperFails, CallShaped, PinInv, TruthInv
<1>17. CASE KillMat
  BY <1>0, <1>17 DEF KillMat, CallShaped, PinInv, TruthInv
<1>18. CASE Swap
  BY <1>0, <1>18 DEF Swap, CallShaped, PinInv, TruthInv
<1> QED
  BY <1>1, <1>2, <1>3, <1>4, <1>5, <1>6, <1>7, <1>8, <1>9, <1>10, <1>11, <1>12, <1>13, <1>14, <1>15, <1>16, <1>17, <1>18 DEF ProviderNext

LEMMA ProviderInitInv == ProviderInit => PinInv /\ TruthInv /\ ProviderTruthful
<1> SUFFICES ASSUME ProviderInit PROVE PinInv /\ TruthInv /\ ProviderTruthful
  OBVIOUS
<1>1. /\ DOMAIN call = {"op", "bytes", "folder", "file", "step"} /\ call.op = "none" /\ call.step = "idle"
      /\ DOMAIN helper = {"step", "folder", "bytes"} /\ helper.step = "none" /\ answer.how = "none"
  BY DEF ProviderInit, NoCall, NoHelper
<1>2. DOMAIN entries = Folder /\ folder \in Folder \union {0}
  BY DEF ProviderInit, Folder
<1>3. temps = [d \in Folder |-> "none"] /\ swaps = 0 /\ slipped = FALSE
  BY DEF ProviderInit
<1>4. PinInv
  BY <1>1, <1>2, <1>3 DEF PinInv, CallShaped, CallSteps
<1>5. TruthInv
  BY <1>1, <1>3 DEF TruthInv
<1>6. ProviderTruthful
  BY <1>1 DEF ProviderTruthful
<1> QED
  BY <1>4, <1>5, <1>6

LEMMA ProviderAlways == ProviderSpec => [](PinInv /\ ProviderTruthful)
<1>1. PinInv /\ TruthInv /\ ProviderTruthful /\ [ProviderNext]_providerVars => (PinInv /\ TruthInv /\ ProviderTruthful)'
  BY PinStep, TruthStep, AnswerStep
<1> QED
  BY <1>1, ProviderInitInv, PTL DEF ProviderSpec

\* The helper changes no directory and takes no file but those mat reviewed, and the caller learns
\* what became of them.
THEOREM ProviderKept == ProviderSpec => [](ProviderPinned /\ ProviderTruthful)
<1>1. PinInv => ProviderPinned
  BY DEF PinInv, ProviderPinned, CallShaped, parentOk
<1> QED
  BY <1>1, ProviderAlways, PTL

-----------------------------------------------------------------------------
(* DirectorySource: the trees of a directory and the marker of a write *)

\* What is left of a write, of a recovery and of a rollback.
ClearLeft == <<"clear">>
DropBackupLeft == <<"dropBackup", "clear">>
ActivatedLeft == <<"activated", "dropBackup", "clear">>
VerifyLeft == <<"verify", "activated", "dropBackup", "clear">>
ActivateLeft == <<"activate", "verify", "activated", "dropBackup", "clear">>
BackedUpLeft == <<"backedUp", "activate", "verify", "activated", "dropBackup", "clear">>
SetAsideLeft ==
  <<"setAside", "backedUp", "activate", "verify", "activated", "dropBackup", "clear">>
ReviewLeft ==
  <<"review", "setAside", "backedUp", "activate", "verify", "activated", "dropBackup",
    "clear">>
PrepareLeft ==
  <<"prepare", "review", "setAside", "backedUp", "activate", "verify", "activated",
    "dropBackup", "clear">>
FillLeft ==
  <<"fillStage", "prepare", "review", "setAside", "backedUp", "activate", "verify",
    "activated", "dropBackup", "clear">>
AllLeft ==
  <<"makeStage", "fillStage", "prepare", "review", "setAside", "backedUp", "activate",
    "verify", "activated", "dropBackup", "clear">>
MarkerFirst == <<"marker">>
ExamineFirst == <<"examine">>
StageGoes == <<"dropStage", "clear">>
TreeComes == <<"activate", "verify", "clear">>
TreeCame == <<"verify", "clear">>
TreeGoes == <<"dropRoot", "clear">>
TreeReplaces == <<"activate", "verify", "dropBackup", "clear">>
TreeReplaced == <<"verify", "dropBackup", "clear">>
MayReturn == <<"returnAny", "dropStageAny", "clear">>
StageMayGo == <<"dropStageAny", "clear">>
Returns == <<"return", "dropStageAny", "clear">>
TreeMayGo == <<"dropRootAny", "dropStageAny", "clear">>
Exchange == <<"dropRoot", "return", "clear">>
ReturnsClear == <<"return", "clear">>
ExchangeOnly == <<"dropRoot", "return">>
ReturnsOnly == <<"return">>
TreeGoesOnly == <<"dropRoot">>

\* The tree b is not lost on the disk d, and no recovery will lose it.
TreeSafe(d, b) ==
  /\ d.marker # NoTxn => d.marker.txn = d.txn /\ d.marker.intent \in Tree
  /\ b \in Tree =>
       /\ b \in {d.root, d.backup} \/ d.root \in Tree \ {b}
       /\ d.marker # NoTxn /\ d.marker.phase = "prepared" /\ d.backup = Absent => d.root = b

\* Where a recovery is: s is left of it, and m is the marker it was told by.
RecoveryAt(d, s, b, m) ==
  \/ s = MarkerFirst /\ ~Twin(d, b)
  \/ /\ m = d.marker /\ m # NoTxn
     /\ \/ s = ExamineFirst /\ ~Twin(d, b)
        \/ s \in {StageGoes, ClearLeft}
        \/ s = TreeComes /\ d.stage = m.intent /\ b \notin Tree
        \/ s = TreeCame /\ b \notin Tree
        \/ s = TreeGoes /\ b \notin Tree
        \/ s = TreeReplaces /\ d.stage = m.intent /\ m.phase # "prepared"
        \/ s = TreeReplaced /\ m.phase # "prepared"
        \/ s = DropBackupLeft /\ d.root = m.intent /\ m.phase # "prepared"

\* Where a write, or a removal, is.
WriteAt(d, s, b, t) ==
  \/ s = TreeGoesOnly /\ b = Absent
  \/ /\ t.value \in Tree
     /\ \/ s = AllLeft /\ d.marker = NoTxn
        \/ s \in {FillLeft, PrepareLeft} /\ d.marker = NoTxn /\ (b \in Tree => d.root = b)
        \/ s \in {ReviewLeft, SetAsideLeft} /\ (b \in Tree => d.root = b /\ t.existing)
        \/ s = BackedUpLeft /\ (b \in Tree => t.existing)
        \/ s = ActivateLeft /\ (b \in Tree => t.existing /\ d.marker.phase # "prepared")
        \/ s = VerifyLeft /\ (b \in Tree => d.backup = b /\ t.existing /\ d.marker.phase # "prepared")
        \/ s = ActivatedLeft /\ (b \in Tree => d.backup = b /\ t.existing) /\ d.root = t.value
        \/ s = DropBackupLeft /\ d.root = t.value /\ d.marker.phase = "activated"
        \/ s = ClearLeft

\* Where a rollback is.
RollbackAt(d, s, b) ==
  \/ s \in {MayReturn, Returns, StageMayGo, ReturnsClear, ClearLeft}
  \/ s = ReturnsOnly /\ (b \in Tree => d.marker.phase # "prepared")
  \/ s \in {TreeMayGo, TreeGoes} /\ b \notin Tree
  \/ s = Exchange /\ (b \in Tree => d.backup = b)
  \/ s = ExchangeOnly /\ (b \in Tree => d.backup = b /\ d.marker.phase # "prepared")

ActorPlace(x, d, mode, s, b, t, m) ==
  /\ mode = "idle" => s = <<>>
  /\ mode = "recover" => RecoveryAt(d, s, b, m)
  /\ mode = "work" => x = "mat" /\ WriteAt(d, s, b, t)
  /\ mode = "undo" => x = "mat" /\ RollbackAt(d, s, b)

StepNames ==
  {"makeStage", "fillStage", "prepare", "review", "setAside", "backedUp", "activate", "verify",
   "activated", "dropBackup", "dropStage", "dropRoot", "return", "returnAny", "dropStageAny",
   "dropRootAny", "clear"}

Disks ==
  [root : Content, stage : Content, backup : Content, txn : Nat,
   marker : [phase : {"none", "prepared", "backed-up", "activated"}, intent : Tree \union {Absent}, txn : Nat]]
DiskTyped == disk \in Disks

DirTyped ==
  /\ DiskTyped
  /\ DOMAIN plan = Actor /\ doing \in [Actor -> {"idle", "recover", "work", "undo"}]
  /\ DOMAIN seen = Actor
  /\ task \in [kind : {"none", "read", "write", "remove"}, value : Tree \union {Absent}, existing : BOOLEAN]
  /\ task.kind = "write" => task.value \in Tree
  /\ before \in Content

\* No existence check ran meanwhile, and no interrupted rollback or recovery left a marker that
\* does not tell the trees apart.
Certain == ~overlap /\ ~undecided

DirInv ==
  Certain =>
       /\ DirTyped
       /\ TreeSafe(disk, before)
       /\ \A x \in Actor : ActorPlace(x, disk, doing[x], plan[x], before, task, seen[x])
       /\ doing["mat"] = "idle" \/ doing["check"] = "idle"
       /\ (\A x \in Actor : doing[x] = "idle") => ~Twin(disk, before)
       /\ doing["mat"] = "recover" /\ task.kind = "remove" => before = Absent

-----------------------------------------------------------------------------
\* At most the stage is another one on d.
KeepsTrees(d) == d.root = disk.root /\ d.backup = disk.backup /\ d.marker = disk.marker /\ d.txn = disk.txn
MarksOnly(d) == d.root = disk.root /\ d.backup = disk.backup /\ d.txn = disk.txn
KeepsMark(d) == d.marker = disk.marker /\ d.txn = disk.txn
MarkAs(phase) == [phase |-> phase, intent |-> task.value, txn |-> disk.txn]

LEMMA NamedIs ==
  ASSUME DiskTyped, NEW x \in Actor, doing[x] = "recover" => seen[x].txn = disk.txn
  PROVE  /\ Named(x, "root") = disk.root /\ Named(x, "stage") = disk.stage /\ Named(x, "backup") = disk.backup
BY DEF Named, DiskTyped, Disks

LEMMA RenameIs ==
  ASSUME DiskTyped, NEW x \in Actor, doing[x] = "recover" => seen[x].txn = disk.txn
  PROVE  /\ \A d \in Rename(x, "root", "backup") :
               disk.root # Absent /\ d.root = Absent /\ d.backup = disk.root /\ KeepsMark(d)
         /\ \A d \in Rename(x, "backup", "root") :
               disk.root = Absent /\ d.root = disk.backup /\ d.backup = Absent /\ KeepsMark(d)
         /\ \A d \in Rename(x, "stage", "root") :
               disk.root = Absent /\ d.root = disk.stage /\ d.backup = disk.backup /\ KeepsMark(d)
<1>1. \A d \in Rename(x, "root", "backup") :
               disk.root # Absent /\ d.root = Absent /\ d.backup = disk.root /\ KeepsMark(d)
  BY NamedIs DEF Rename, DiskTyped, Disks, KeepsMark
<1>2. \A d \in Rename(x, "backup", "root") :
               disk.root = Absent /\ d.root = disk.backup /\ d.backup = Absent /\ KeepsMark(d)
  BY NamedIs DEF Rename, DiskTyped, Disks, KeepsMark
<1>3. \A d \in Rename(x, "stage", "root") :
               disk.root = Absent /\ d.root = disk.stage /\ d.backup = disk.backup /\ KeepsMark(d)
  BY NamedIs DEF Rename, DiskTyped, Disks, KeepsMark
<1> QED
  BY <1>1, <1>2, <1>3

LEMMA PutIs ==
  ASSUME DiskTyped, NEW v, NEW d
  PROVE  /\ d = [disk EXCEPT !["stage"] = v] => KeepsTrees(d)
         /\ d = [disk EXCEPT !["backup"] = v] => d.root = disk.root /\ d.backup = v /\ KeepsMark(d)
         /\ d = [disk EXCEPT !["root"] = v] => d.root = v /\ d.backup = disk.backup /\ KeepsMark(d)
BY DEF DiskTyped, Disks, KeepsTrees, KeepsMark

LEMMA DropIs ==
  ASSUME DiskTyped, NEW x
  PROVE  /\ \A d \in Drop(x, "stage") : KeepsTrees(d)
         /\ \A d \in Drop(x, "backup") : d.root = disk.root /\ d.backup = Absent /\ KeepsMark(d)
         /\ \A d \in Drop(x, "root") : d.root = Absent /\ d.backup = disk.backup /\ KeepsMark(d)
BY DEF DiskTyped, Disks, KeepsTrees, KeepsMark, Drop

\* What is on the disk after a step.
LEMMA AfterIs ==
  ASSUME DiskTyped, NEW x \in Actor, doing[x] = "recover" => seen[x].txn = disk.txn,
         NEW step, NEW d \in After(x, step)
  PROVE  /\ step = "makeStage" => d.root = disk.root /\ d.backup = disk.backup /\ d.marker = disk.marker /\ d.txn = disk.txn + 1
         /\ step \in {"fillStage", "review", "dropStage", "dropStageAny"} => KeepsTrees(d)
         /\ step = "verify" => KeepsTrees(d) /\ disk.root = Intended(x)
         /\ step = "prepare" => MarksOnly(d) /\ d.marker = MarkAs("prepared")
         /\ step = "setAside" =>
              IF doing[x] = "work" /\ ~task.existing THEN KeepsTrees(d)
              ELSE disk.root # Absent /\ d.root = Absent /\ d.backup = disk.root /\ KeepsMark(d)
         /\ step = "backedUp" =>
              IF doing[x] = "work" /\ ~task.existing THEN KeepsTrees(d)
              ELSE MarksOnly(d) /\ d.marker = MarkAs("backed-up")
         /\ step = "activate" =>
              disk.root = Absent /\ d.root = disk.stage /\ d.backup = disk.backup /\ KeepsMark(d)
         /\ step = "activated" => MarksOnly(d) /\ d.marker = MarkAs("activated")
         /\ step = "dropBackup" => KeepsTrees(d) \/ (d.root = disk.root /\ d.backup = Absent /\ KeepsMark(d))
         /\ step = "dropRoot" => d.root = Absent /\ d.backup = disk.backup /\ KeepsMark(d)
         /\ step = "dropRootAny" => KeepsTrees(d) \/ (d.root = Absent /\ d.backup = disk.backup /\ KeepsMark(d))
         /\ step = "return" => disk.root = Absent /\ d.root = disk.backup /\ d.backup = Absent /\ KeepsMark(d)
         /\ step = "returnAny" =>
              KeepsTrees(d) \/ (disk.root = Absent /\ d.root = disk.backup /\ d.backup = Absent /\ KeepsMark(d))
         /\ step = "clear" => MarksOnly(d) /\ d.marker = NoTxn
<1>1. step = "makeStage" => d.root = disk.root /\ d.backup = disk.backup /\ d.marker = disk.marker /\ d.txn = disk.txn + 1
  BY DEF After, Replaces, DiskTyped, Disks
<1>2. step \in {"fillStage", "review"} => KeepsTrees(d)
  BY DEF After, Replaces, DiskTyped, Disks, KeepsTrees
<1>15. step = "dropStage" => KeepsTrees(d)
  BY DropIs DEF After, Replaces
<1>16. step = "dropStageAny" => KeepsTrees(d)
  BY DropIs DEF After, Replaces, KeepsTrees, OrNothing
<1>3. step = "verify" => KeepsTrees(d) /\ disk.root = Intended(x)
  BY DEF After, Replaces, KeepsTrees
<1>4. step = "prepare" => MarksOnly(d) /\ d.marker = MarkAs("prepared")
  BY DEF After, Replaces, DiskTyped, Disks, MarksOnly, MarkAs, MarkTxn
<1>5. step = "setAside" =>
              IF doing[x] = "work" /\ ~task.existing THEN KeepsTrees(d)
              ELSE disk.root # Absent /\ d.root = Absent /\ d.backup = disk.root /\ KeepsMark(d)
  BY RenameIs DEF After, Replaces, KeepsTrees
<1>6. step = "backedUp" =>
              IF doing[x] = "work" /\ ~task.existing THEN KeepsTrees(d)
              ELSE MarksOnly(d) /\ d.marker = MarkAs("backed-up")
  BY DEF After, Replaces, DiskTyped, Disks, KeepsTrees, MarksOnly, MarkAs, MarkTxn
<1>7. step = "activate" =>
              disk.root = Absent /\ d.root = disk.stage /\ d.backup = disk.backup /\ KeepsMark(d)
  BY RenameIs DEF After, Replaces
<1>8. step = "activated" => MarksOnly(d) /\ d.marker = MarkAs("activated")
  BY DEF After, Replaces, DiskTyped, Disks, MarksOnly, MarkAs, MarkTxn
<1>9. step = "dropBackup" => KeepsTrees(d) \/ (d.root = disk.root /\ d.backup = Absent /\ KeepsMark(d))
  BY DropIs DEF After, Replaces, KeepsTrees
<1>10. step = "dropRoot" => d.root = Absent /\ d.backup = disk.backup /\ KeepsMark(d)
  BY DropIs DEF After, Replaces
<1>11. step = "dropRootAny" => KeepsTrees(d) \/ (d.root = Absent /\ d.backup = disk.backup /\ KeepsMark(d))
  BY DropIs DEF After, Replaces, OrNothing, KeepsTrees
<1>12. step = "return" => disk.root = Absent /\ d.root = disk.backup /\ d.backup = Absent /\ KeepsMark(d)
  BY RenameIs DEF After, Replaces
<1>13. step = "returnAny" =>
              KeepsTrees(d) \/ (disk.root = Absent /\ d.root = disk.backup /\ d.backup = Absent /\ KeepsMark(d))
  BY RenameIs DEF After, Replaces, OrNothing, KeepsTrees
<1>14. step = "clear" => MarksOnly(d) /\ d.marker = NoTxn
  BY DEF After, Replaces, DiskTyped, Disks, MarksOnly
<1> QED
  BY <1>1, <1>2, <1>15, <1>16, <1>3, <1>4, <1>5, <1>6, <1>7, <1>8, <1>9, <1>10, <1>11, <1>12, <1>13, <1>14

\* A step that did not get through left the disk as it was, as it is after the step, or with
\* a part of what it drops.
LEMMA HalfwayIs ==
  ASSUME DiskTyped, NEW x \in Actor, doing[x] = "recover" => seen[x].txn = disk.txn,
         NEW step, NEW d \in Halfway(x, step)
  PROVE  \/ KeepsTrees(d) 
         \/ d \in After(x, step) /\ step \notin {"dropRoot", "dropRootAny", "dropBackup"}
         \/ step \in {"dropRoot", "dropRootAny"} /\ d.root = Partial /\ d.backup = disk.backup /\ KeepsMark(d)
         \/ step = "dropBackup" /\ d.root = disk.root /\ d.backup = Partial /\ KeepsMark(d)
<1>1. CASE step \in {"dropRoot", "dropRootAny"}
  <2> DEFINE place == "root"
  <2>1. d = disk \/ d = [disk EXCEPT ![place] = Partial]
    BY <1>1 DEF Halfway
  <2> QED
    BY <1>1, <2>1, PutIs DEF KeepsTrees
<1>2. CASE step \in {"dropStage", "dropStageAny"}
  <2> DEFINE place == "stage"
  <2>1. d = disk \/ d = [disk EXCEPT ![place] = Partial]
    BY <1>2 DEF Halfway
  <2> QED
    BY <1>2, <2>1, PutIs DEF KeepsTrees
<1>3. CASE step = "dropBackup"
  <2> DEFINE place == "backup"
  <2>1. d = disk \/ d = [disk EXCEPT ![place] = Partial]
    BY <1>3 DEF Halfway
  <2> QED
    BY <1>3, <2>1, PutIs DEF KeepsTrees
<1>4. CASE step \in {"fillStage", "verify"}
  BY <1>4 DEF Halfway, KeepsTrees
<1>5. CASE step \notin {"dropRoot", "dropRootAny", "dropStage", "dropStageAny", "dropBackup", "fillStage", "verify"}
  BY <1>5 DEF Halfway, KeepsTrees
<1> QED
  BY <1>1, <1>2, <1>3, <1>4, <1>5

LEMMA Lefts ==
  /\ ClearLeft # <<>> /\ Head(ClearLeft) = "clear" /\ Tail(ClearLeft) = <<>>
  /\ DropBackupLeft # <<>> /\ Head(DropBackupLeft) = "dropBackup" /\ Tail(DropBackupLeft) = ClearLeft
  /\ ActivatedLeft # <<>> /\ Head(ActivatedLeft) = "activated" /\ Tail(ActivatedLeft) = DropBackupLeft
  /\ VerifyLeft # <<>> /\ Head(VerifyLeft) = "verify" /\ Tail(VerifyLeft) = ActivatedLeft
  /\ ActivateLeft # <<>> /\ Head(ActivateLeft) = "activate" /\ Tail(ActivateLeft) = VerifyLeft
  /\ BackedUpLeft # <<>> /\ Head(BackedUpLeft) = "backedUp" /\ Tail(BackedUpLeft) = ActivateLeft
  /\ SetAsideLeft # <<>> /\ Head(SetAsideLeft) = "setAside" /\ Tail(SetAsideLeft) = BackedUpLeft
  /\ ReviewLeft # <<>> /\ Head(ReviewLeft) = "review" /\ Tail(ReviewLeft) = SetAsideLeft
  /\ PrepareLeft # <<>> /\ Head(PrepareLeft) = "prepare" /\ Tail(PrepareLeft) = ReviewLeft
  /\ FillLeft # <<>> /\ Head(FillLeft) = "fillStage" /\ Tail(FillLeft) = PrepareLeft
  /\ AllLeft # <<>> /\ Head(AllLeft) = "makeStage" /\ Tail(AllLeft) = FillLeft
  /\ MarkerFirst # <<>> /\ Head(MarkerFirst) = "marker" /\ Tail(MarkerFirst) = <<>>
  /\ ExamineFirst # <<>> /\ Head(ExamineFirst) = "examine" /\ Tail(ExamineFirst) = <<>>
  /\ StageGoes # <<>> /\ Head(StageGoes) = "dropStage" /\ Tail(StageGoes) = ClearLeft
  /\ TreeComes # <<>> /\ Head(TreeComes) = "activate" /\ Tail(TreeComes) = TreeCame
  /\ TreeCame # <<>> /\ Head(TreeCame) = "verify" /\ Tail(TreeCame) = ClearLeft
  /\ TreeGoes # <<>> /\ Head(TreeGoes) = "dropRoot" /\ Tail(TreeGoes) = ClearLeft
  /\ TreeReplaces # <<>> /\ Head(TreeReplaces) = "activate" /\ Tail(TreeReplaces) = TreeReplaced
  /\ TreeReplaced # <<>> /\ Head(TreeReplaced) = "verify" /\ Tail(TreeReplaced) = DropBackupLeft
  /\ MayReturn # <<>> /\ Head(MayReturn) = "returnAny" /\ Tail(MayReturn) = StageMayGo
  /\ StageMayGo # <<>> /\ Head(StageMayGo) = "dropStageAny" /\ Tail(StageMayGo) = ClearLeft
  /\ Returns # <<>> /\ Head(Returns) = "return" /\ Tail(Returns) = StageMayGo
  /\ TreeMayGo # <<>> /\ Head(TreeMayGo) = "dropRootAny" /\ Tail(TreeMayGo) = StageMayGo
  /\ Exchange # <<>> /\ Head(Exchange) = "dropRoot" /\ Tail(Exchange) = ReturnsClear
  /\ ReturnsClear # <<>> /\ Head(ReturnsClear) = "return" /\ Tail(ReturnsClear) = ClearLeft
  /\ ExchangeOnly # <<>> /\ Head(ExchangeOnly) = "dropRoot" /\ Tail(ExchangeOnly) = ReturnsOnly
  /\ ReturnsOnly # <<>> /\ Head(ReturnsOnly) = "return" /\ Tail(ReturnsOnly) = <<>>
  /\ TreeGoesOnly # <<>> /\ Head(TreeGoesOnly) = "dropRoot" /\ Tail(TreeGoesOnly) = <<>>
BY DEF ClearLeft, DropBackupLeft, ActivatedLeft, VerifyLeft, ActivateLeft, BackedUpLeft, SetAsideLeft, ReviewLeft, PrepareLeft, FillLeft, AllLeft, MarkerFirst, ExamineFirst, StageGoes, TreeComes, TreeCame, TreeGoes, TreeReplaces, TreeReplaced, MayReturn, StageMayGo, Returns, TreeMayGo, Exchange, ReturnsClear, ExchangeOnly, ReturnsOnly, TreeGoesOnly

\* The first step of what a recovery, past its marker, and a rollback may have left.
LEMMA RecoveryHeads ==
  ASSUME NEW s \in {StageGoes, ClearLeft, TreeComes, TreeCame, TreeGoes, TreeReplaces, TreeReplaced, DropBackupLeft}
  PROVE  Head(s) \in {"activate", "verify", "dropBackup", "dropStage", "dropRoot", "clear"}
<1>1. /\ Head(StageGoes) = "dropStage" /\ Head(ClearLeft) = "clear" /\ Head(TreeComes) = "activate"
      /\ Head(TreeCame) = "verify" /\ Head(TreeGoes) = "dropRoot" /\ Head(TreeReplaces) = "activate"
      /\ Head(TreeReplaced) = "verify" /\ Head(DropBackupLeft) = "dropBackup"
  BY Lefts
<1> QED
  BY <1>1

LEMMA RollbackHeads ==
  ASSUME NEW s \in {MayReturn, Returns, StageMayGo, ReturnsClear, ReturnsOnly, ClearLeft, TreeMayGo, TreeGoes,
                    ExchangeOnly, Exchange}
  PROVE  Head(s) \in {"dropRoot", "return", "returnAny", "dropStageAny", "dropRootAny", "clear"}
<1>1. /\ Head(MayReturn) = "returnAny" /\ Head(Returns) = "return" /\ Head(StageMayGo) = "dropStageAny"
      /\ Head(ReturnsClear) = "return" /\ Head(ReturnsOnly) = "return" /\ Head(ClearLeft) = "clear"
      /\ Head(TreeMayGo) = "dropRootAny" /\ Head(TreeGoes) = "dropRoot"
      /\ Head(ExchangeOnly) = "dropRoot" /\ Head(Exchange) = "dropRoot"
  BY Lefts
<1> QED
  BY <1>1

\* What leaves something after its first step.
LEMMA LongRecovery ==
  ASSUME NEW s \in {StageGoes, TreeComes, TreeCame, TreeGoes, TreeReplaces, TreeReplaced, DropBackupLeft}
  PROVE  Tail(s) # <<>>
<1>1. /\ Tail(StageGoes) # <<>> /\ Tail(TreeComes) # <<>> /\ Tail(TreeCame) # <<>> /\ Tail(TreeGoes) # <<>>
      /\ Tail(TreeReplaces) # <<>> /\ Tail(TreeReplaced) # <<>> /\ Tail(DropBackupLeft) # <<>>
  BY Lefts, ZenonT(60)
<1> QED
  BY <1>1

LEMMA LongWrite ==
  ASSUME NEW s \in {AllLeft, FillLeft, PrepareLeft, ReviewLeft, SetAsideLeft, BackedUpLeft, ActivateLeft, VerifyLeft,
                    ActivatedLeft}
  PROVE  Tail(s) # <<>>
<1>1. /\ Tail(AllLeft) # <<>> /\ Tail(FillLeft) # <<>> /\ Tail(PrepareLeft) # <<>> /\ Tail(ReviewLeft) # <<>>
      /\ Tail(SetAsideLeft) # <<>> /\ Tail(BackedUpLeft) # <<>> /\ Tail(ActivateLeft) # <<>>
      /\ Tail(VerifyLeft) # <<>> /\ Tail(ActivatedLeft) # <<>>
  BY Lefts
<1> QED
  BY <1>1

LEMMA LongRollback ==
  ASSUME NEW s \in {MayReturn, StageMayGo, Returns, TreeMayGo, Exchange, ReturnsClear, ExchangeOnly}
  PROVE  Tail(s) # <<>>
<1>1. /\ Tail(MayReturn) # <<>> /\ Tail(StageMayGo) # <<>> /\ Tail(Returns) # <<>> /\ Tail(TreeMayGo) # <<>>
      /\ Tail(Exchange) # <<>> /\ Tail(ReturnsClear) # <<>> /\ Tail(ExchangeOnly) # <<>>
  BY Lefts, ZenonT(60)
<1> QED
  BY <1>1

\* No step of a recovery means a transaction but the one of the disk.
LEMMA Located ==
  ASSUME DirInv, Certain, NEW x \in Actor, Busy(x)
  PROVE  doing[x] = "recover" => seen[x] = disk.marker /\ seen[x] # NoTxn /\ seen[x].txn = disk.txn
<1> SUFFICES ASSUME doing[x] = "recover" PROVE seen[x] = disk.marker /\ seen[x] # NoTxn /\ seen[x].txn = disk.txn
  OBVIOUS
<1>1. RecoveryAt(disk, plan[x], before, seen[x]) /\ plan[x] # MarkerFirst /\ TreeSafe(disk, before)
  BY Lefts DEF DirInv, ActorPlace, Busy
<1> QED
  BY <1>1 DEF RecoveryAt, TreeSafe

\* What the steps rely on that could lose the tree.
LEMMA Needs ==
  ASSUME DirInv, Certain, NEW x \in Actor, Busy(x)
  PROVE  LET step == Head(plan[x])
         IN  /\ step = "makeStage" => disk.marker = NoTxn
             /\ step = "prepare" => task.value \in Tree /\ (before \in Tree => disk.root = before)
             /\ step = "setAside" => (before \in Tree => disk.root = before)
             /\ step \in {"backedUp", "activated"} => task.value \in Tree
             /\ step = "dropBackup" =>
                  /\ disk.marker.phase # "prepared"
                  /\ before \in Tree => disk.root \in Tree
             /\ step \in {"dropRoot", "dropRootAny"} => (before \in Tree => disk.backup = before)
<1> DEFINE step == Head(plan[x])
<1>1. TreeSafe(disk, before) /\ ActorPlace(x, disk, doing[x], plan[x], before, task, seen[x]) /\ plan[x] # <<>>
      /\ doing[x] \in {"idle", "recover", "work", "undo"} /\ Absent \notin Tree
  BY DirectoryAssumption DEF DirInv, DirTyped, Busy
<1>2. CASE doing[x] = "recover"
  <2>1. RecoveryAt(disk, plan[x], before, seen[x]) /\ step # "marker" /\ step # "examine"
    BY <1>1, <1>2 DEF ActorPlace, Busy
  <2> QED
    BY <1>1, <2>1, Lefts, ZenonT(60) DEF RecoveryAt, TreeSafe
<1>3. CASE doing[x] = "work"
  <2>1. WriteAt(disk, plan[x], before, task)
    BY <1>1, <1>3 DEF ActorPlace
  <2> QED
    BY <1>1, <2>1, Lefts, ZenonT(60) DEF WriteAt, TreeSafe
<1>4. CASE doing[x] = "undo"
  <2>1. RollbackAt(disk, plan[x], before)
    BY <1>1, <1>4 DEF ActorPlace
  <2> QED
    BY <1>1, <2>1, Lefts DEF RollbackAt, TreeSafe
<1> QED
  BY <1>1, <1>2, <1>3, <1>4 DEF ActorPlace

LEMMA StepKnown ==
  ASSUME DirInv, Certain, NEW x \in Actor, Busy(x)
  PROVE  Head(plan[x]) \in StepNames
<1> DEFINE step == Head(plan[x])
<1>1. ActorPlace(x, disk, doing[x], plan[x], before, task, seen[x]) /\ plan[x] # <<>> /\ step # "marker" /\ step # "examine"
      /\ doing[x] \in {"idle", "recover", "work", "undo"}
  BY DEF DirInv, DirTyped, Busy
<1>2. ASSUME RecoveryAt(disk, plan[x], before, seen[x])
      PROVE  step \in {"activate", "verify", "dropBackup", "dropStage", "dropRoot", "clear"}
  <2>1. plan[x] \in {MarkerFirst, ExamineFirst, StageGoes, ClearLeft, TreeComes, TreeCame, TreeGoes, TreeReplaces,
                     TreeReplaced, DropBackupLeft}
    BY <1>2 DEF RecoveryAt
  <2>2. plan[x] \notin {MarkerFirst, ExamineFirst}
    BY <1>1, Lefts
  <2> QED
    BY <2>1, <2>2, RecoveryHeads
<1>3. ASSUME WriteAt(disk, plan[x], before, task)
      PROVE  step \in StepNames
  <2>1. plan[x] \in {TreeGoesOnly, AllLeft, FillLeft, PrepareLeft, ReviewLeft, SetAsideLeft, BackedUpLeft, ActivateLeft,
                     VerifyLeft, ActivatedLeft, DropBackupLeft, ClearLeft}
    BY <1>3 DEF WriteAt
  <2>2. plan[x] \in {TreeGoesOnly, AllLeft, FillLeft, PrepareLeft, ReviewLeft, SetAsideLeft} => step \in
          {"makeStage", "fillStage", "prepare", "review", "setAside", "dropRoot"}
    BY Lefts, ZenonT(60)
  <2>3. plan[x] \in {BackedUpLeft, ActivateLeft, VerifyLeft, ActivatedLeft, DropBackupLeft, ClearLeft} => step \in
          {"backedUp", "activate", "verify", "activated", "dropBackup", "clear"}
    BY Lefts, ZenonT(60)
  <2> QED
    BY <2>1, <2>2, <2>3 DEF StepNames
<1>4. ASSUME RollbackAt(disk, plan[x], before)
      PROVE  step \in {"dropRoot", "return", "returnAny", "dropStageAny", "dropRootAny", "clear"}
  BY <1>4, RollbackHeads DEF RollbackAt
<1> QED
  BY <1>1, <1>2, <1>3, <1>4 DEF ActorPlace, StepNames

LEMMA AfterSafe ==
  ASSUME DirInv, Certain, NEW x \in Actor, Busy(x), NEW d \in After(x, Head(plan[x]))
  PROVE  TreeSafe(d, before) /\ (Head(plan[x]) = "makeStage" => TreeSafe(d, disk.root))
<1> DEFINE step == Head(plan[x])
<1>1. TreeSafe(disk, before) /\ Absent \notin Tree /\ DiskTyped
  BY DirectoryAssumption DEF DirInv, DirTyped
<1>2. doing[x] = "recover" => seen[x].txn = disk.txn
  BY Located
<1>3. KeepsTrees(d) => TreeSafe(d, before)
  BY <1>1 DEF KeepsTrees, TreeSafe
<1>4. step \in {"fillStage", "review", "dropStage", "dropStageAny", "verify"} => TreeSafe(d, before)
  BY <1>1, <1>2, <1>3, AfterIs
<1>5. step = "makeStage" => TreeSafe(d, before) /\ TreeSafe(d, disk.root)
  BY <1>1, <1>2, AfterIs, Needs DEF TreeSafe
<1>6. step = "prepare" => TreeSafe(d, before)
  BY <1>1, <1>2, AfterIs, Needs DEF TreeSafe, MarksOnly, MarkAs
<1>7. step = "setAside" => TreeSafe(d, before)
  BY <1>1, <1>2, <1>3, AfterIs, Needs DEF TreeSafe, KeepsMark
<1>8. step = "backedUp" => TreeSafe(d, before)
  BY <1>1, <1>2, <1>3, AfterIs, Needs DEF TreeSafe, MarksOnly, MarkAs
<1>9. step = "activate" => TreeSafe(d, before)
  BY <1>1, <1>2, AfterIs DEF TreeSafe, KeepsMark
<1>10. step = "activated" => TreeSafe(d, before)
  BY <1>1, <1>2, AfterIs, Needs DEF TreeSafe, MarksOnly, MarkAs
<1>11. step = "dropBackup" => TreeSafe(d, before)
  BY <1>1, <1>2, <1>3, AfterIs, Needs DEF TreeSafe, KeepsMark
<1>12. step \in {"dropRoot", "dropRootAny"} => TreeSafe(d, before)
  BY <1>1, <1>2, <1>3, AfterIs, Needs DEF TreeSafe, KeepsMark
<1>13. step \in {"return", "returnAny"} => TreeSafe(d, before)
  BY <1>1, <1>2, <1>3, AfterIs DEF TreeSafe, KeepsMark
<1>14. step = "clear" => TreeSafe(d, before)
  BY <1>1, <1>2, AfterIs DEF TreeSafe, MarksOnly
<1>15. step \in StepNames
  BY StepKnown
<1> QED
  BY <1>4, <1>5, <1>6, <1>7, <1>8, <1>9, <1>10, <1>11, <1>12, <1>13, <1>14, <1>15 DEF StepNames

LEMMA HalfwaySafe ==
  ASSUME DirInv, Certain, NEW x \in Actor, Busy(x), NEW d \in Halfway(x, Head(plan[x]))
  PROVE  TreeSafe(d, before)
<1>1. TreeSafe(disk, before) /\ Absent \notin Tree /\ Partial \notin Tree /\ Partial # Absent /\ DiskTyped
  BY DirectoryAssumption DEF DirInv, DirTyped, Partial, Absent
<1>2. doing[x] = "recover" => seen[x].txn = disk.txn
  BY Located
<1>3. KeepsTrees(d) => TreeSafe(d, before)
  BY <1>1 DEF KeepsTrees, TreeSafe
<1>4. d \in After(x, Head(plan[x])) => TreeSafe(d, before)
  BY AfterSafe
<1>5. Head(plan[x]) \in {"dropRoot", "dropRootAny"} /\ d.root = Partial /\ d.backup = disk.backup /\ KeepsMark(d)
        => TreeSafe(d, before)
  BY <1>1, Needs DEF TreeSafe, KeepsMark
<1>6. Head(plan[x]) = "dropBackup" /\ d.root = disk.root /\ d.backup = Partial /\ KeepsMark(d) => TreeSafe(d, before)
  BY <1>1, Needs DEF TreeSafe, KeepsMark
<1> QED
  BY <1>1, <1>2, <1>3, <1>4, <1>5, <1>6, HalfwayIs

-----------------------------------------------------------------------------
\* What an actor may be doing when the other one is not.
ActsAlone(x) == \A y \in Actor \ {x} : doing[y] = "idle"

LEMMA StepPlaced ==
  ASSUME DirInv, Certain, NEW x \in Actor, Step(x), Tail(plan[x]) # <<>>
  PROVE  ActorPlace(x, disk', doing[x], Tail(plan[x]), before', task', seen[x])
<1> DEFINE step == Head(plan[x])
<1>1. TreeSafe(disk, before) /\ Absent \notin Tree /\ DiskTyped /\ Busy(x)
      /\ ActorPlace(x, disk, doing[x], plan[x], before, task, seen[x])
      /\ doing[x] \in {"idle", "recover", "work", "undo"}
  BY DirectoryAssumption DEF DirInv, DirTyped, Step
<1>2. doing[x] = "recover" => seen[x] = disk.marker /\ seen[x] # NoTxn /\ seen[x].txn = disk.txn
  BY <1>1, Located
<1>3. disk' \in After(x, step)
  BY DEF Step
<1>4. /\ step # "makeStage" => before' = before
      /\ step = "makeStage" => before' = disk.root
      /\ step # "prepare" => task' = task
      /\ step = "prepare" => task'.value = task.value /\ task'.existing = (disk.root # Absent)
  BY DEF Step, DirInv, DirTyped
<1>5. CASE doing[x] = "recover"
  <2> DEFINE m == seen[x]
  <2>0. RecoveryAt(disk, plan[x], before, m) /\ step \notin {"marker", "examine"} /\ m = disk.marker /\ m # NoTxn
    BY <1>1, <1>2, <1>5 DEF ActorPlace, Busy
  <2>w. ASSUME RecoveryAt(disk', Tail(plan[x]), before', m)
        PROVE  ActorPlace(x, disk', doing[x], Tail(plan[x]), before', task', seen[x])
    BY <1>5, <2>w DEF ActorPlace
  <2>i. Intended(x) = m.intent
    BY <1>5 DEF Intended
  <2>1. CASE plan[x] = StageGoes
    <3>1. step = "dropStage" /\ Tail(plan[x]) = ClearLeft
      BY <2>1, Lefts
    <3>2. KeepsTrees(disk')
      BY <1>1, <1>2, <1>3, <3>1, AfterIs
    <3> QED
      BY <1>1, <1>2, <1>4, <2>0, <2>1, <2>w, <3>1, <3>2 DEF RecoveryAt, KeepsTrees
  <2>2. CASE plan[x] = TreeComes /\ disk.stage = m.intent /\ before \notin Tree
    <3>1. step = "activate" /\ Tail(plan[x]) = TreeCame
      BY <2>2, Lefts
    <3>2. KeepsMark(disk')
      BY <1>1, <1>2, <1>3, <3>1, AfterIs
    <3> QED
      BY <1>1, <1>2, <1>4, <2>0, <2>2, <2>w, <3>1, <3>2 DEF RecoveryAt, KeepsMark
  <2>3. CASE plan[x] = TreeCame /\ before \notin Tree
    <3>1. step = "verify" /\ Tail(plan[x]) = ClearLeft
      BY <2>3, Lefts
    <3>2. KeepsTrees(disk')
      BY <1>1, <1>2, <1>3, <3>1, AfterIs
    <3> QED
      BY <1>1, <1>2, <1>4, <2>0, <2>3, <2>w, <3>1, <3>2 DEF RecoveryAt, KeepsTrees
  <2>4. CASE plan[x] = TreeGoes /\ before \notin Tree
    <3>1. step = "dropRoot" /\ Tail(plan[x]) = ClearLeft
      BY <2>4, Lefts
    <3>2. KeepsMark(disk')
      BY <1>1, <1>2, <1>3, <3>1, AfterIs
    <3> QED
      BY <1>1, <1>2, <1>4, <2>0, <2>4, <2>w, <3>1, <3>2 DEF RecoveryAt, KeepsMark
  <2>5. CASE plan[x] = TreeReplaces /\ disk.stage = m.intent /\ m.phase # "prepared"
    <3>1. step = "activate" /\ Tail(plan[x]) = TreeReplaced
      BY <2>5, Lefts
    <3>2. KeepsMark(disk')
      BY <1>1, <1>2, <1>3, <3>1, AfterIs
    <3> QED
      BY <1>1, <1>2, <1>4, <2>0, <2>5, <2>w, <3>1, <3>2 DEF RecoveryAt, KeepsMark
  <2>6. CASE plan[x] = TreeReplaced /\ m.phase # "prepared"
    <3>1. step = "verify" /\ Tail(plan[x]) = DropBackupLeft
      BY <2>6, Lefts
    <3>2. KeepsTrees(disk') /\ disk.root = Intended(x)
      BY <1>1, <1>2, <1>3, <3>1, AfterIs
    <3> QED
      BY <1>1, <1>2, <1>4, <2>0, <2>6, <2>i, <2>w, <3>1, <3>2 DEF RecoveryAt, KeepsTrees
  <2>7. CASE plan[x] = DropBackupLeft /\ disk.root = m.intent /\ m.phase # "prepared"
    <3>1. step = "dropBackup" /\ Tail(plan[x]) = ClearLeft
      BY <2>7, Lefts
    <3>2. KeepsMark(disk')
      BY <1>1, <1>2, <1>3, <3>1, AfterIs DEF KeepsTrees, KeepsMark
    <3> QED
      BY <1>1, <1>2, <1>4, <2>0, <2>7, <2>w, <3>1, <3>2 DEF RecoveryAt, KeepsMark
  <2>8. plan[x] \notin {MarkerFirst, ExamineFirst, ClearLeft}
    BY <2>0, Lefts
  <2> QED
    BY <2>0, <2>1, <2>2, <2>3, <2>4, <2>5, <2>6, <2>7, <2>8 DEF RecoveryAt
<1>6. CASE doing[x] = "work"
  <2>0. WriteAt(disk, plan[x], before, task) /\ x = "mat"
    BY <1>1, <1>6 DEF ActorPlace
  <2>w. ASSUME WriteAt(disk', Tail(plan[x]), before', task')
        PROVE  ActorPlace(x, disk', doing[x], Tail(plan[x]), before', task', seen[x])
    BY <1>6, <2>0, <2>w DEF ActorPlace
  <2>v. plan[x] # TreeGoesOnly
    BY Lefts
  <2>u. task.value \in Tree
    BY <2>0, <2>v DEF WriteAt
  <2>i. Intended(x) = task.value
    BY <1>6 DEF Intended
  <2>1. CASE plan[x] = AllLeft /\ disk.marker = NoTxn
    <3>1. step = "makeStage" /\ Tail(plan[x]) = FillLeft
      BY <2>1, Lefts
    <3>2. disk'.root = disk.root /\ disk'.marker = disk.marker
      BY <1>1, <1>2, <1>3, <3>1, AfterIs
    <3> QED
      BY <1>1, <1>4, <2>u, <2>1, <2>w, <3>1, <3>2 DEF WriteAt
  <2>2. CASE plan[x] = FillLeft /\ disk.marker = NoTxn /\ (before \in Tree => disk.root = before)
    <3>1. step = "fillStage" /\ Tail(plan[x]) = PrepareLeft
      BY <2>2, Lefts
    <3>2. KeepsTrees(disk')
      BY <1>1, <1>2, <1>3, <3>1, AfterIs
    <3>3. step # "makeStage"
      BY <2>2, <2>u, <3>1, Lefts
    <3> QED
      BY <1>1, <1>4, <2>u, <2>2, <2>w, <3>1, <3>2, <3>3 DEF WriteAt, KeepsTrees
  <2>3. CASE plan[x] = PrepareLeft /\ (before \in Tree => disk.root = before)
    <3>1. step = "prepare" /\ Tail(plan[x]) = ReviewLeft
      BY <2>3, Lefts
    <3>2. MarksOnly(disk')
      BY <1>1, <1>2, <1>3, <3>1, AfterIs
    <3>3. step # "makeStage"
      BY <2>3, <2>u, <3>1, Lefts
    <3> QED
      BY <1>1, <1>4, <2>u, <2>3, <2>w, <3>1, <3>2, <3>3 DEF WriteAt, MarksOnly
  <2>4. CASE plan[x] = ReviewLeft /\ (before \in Tree => disk.root = before /\ task.existing)
    <3>1. step = "review" /\ Tail(plan[x]) = SetAsideLeft
      BY <2>4, Lefts
    <3>2. KeepsTrees(disk')
      BY <1>1, <1>2, <1>3, <3>1, AfterIs
    <3>3. step # "makeStage"
      BY <2>4, <2>u, <3>1, Lefts
    <3> QED
      BY <1>1, <1>4, <2>u, <2>4, <2>w, <3>1, <3>2, <3>3 DEF WriteAt, KeepsTrees
  <2>5. CASE plan[x] = SetAsideLeft /\ (before \in Tree => disk.root = before /\ task.existing)
    <3>1. step = "setAside" /\ Tail(plan[x]) = BackedUpLeft
      BY <2>5, Lefts
    <3>2. TRUE
      BY <1>1, <1>2, <1>3, <3>1, AfterIs
    <3>3. step # "makeStage"
      BY <2>5, <2>u, <3>1, Lefts
    <3> QED
      BY <1>1, <1>4, <2>u, <2>5, <2>w, <3>1, <3>2, <3>3 DEF WriteAt
  <2>6. CASE plan[x] = BackedUpLeft /\ (before \in Tree => task.existing)
    <3>1. step = "backedUp" /\ Tail(plan[x]) = ActivateLeft
      BY <2>6, Lefts
    <3>2. before \in Tree => disk'.marker.phase # "prepared"
      BY <1>1, <1>2, <1>3, <1>6, <2>6, <3>1, AfterIs DEF MarkAs
    <3>3. step # "makeStage"
      BY <2>6, <2>u, <3>1, Lefts
    <3> QED
      BY <1>1, <1>4, <2>u, <2>6, <2>w, <3>1, <3>2, <3>3 DEF WriteAt
  <2>7. CASE plan[x] = ActivateLeft /\ (before \in Tree => task.existing /\ disk.marker.phase # "prepared")
    <3>1. step = "activate" /\ Tail(plan[x]) = VerifyLeft
      BY <2>7, Lefts
    <3>2. disk.root = Absent /\ disk'.backup = disk.backup /\ disk'.marker = disk.marker
      BY <1>1, <1>2, <1>3, <3>1, AfterIs DEF KeepsMark
    <3>3. step # "makeStage"
      BY <2>7, <2>u, <2>i, <3>1, Lefts
    <3> QED
      BY <1>1, <1>4, <2>u, <2>i, <2>7, <2>w, <3>1, <3>2, <3>3 DEF WriteAt, TreeSafe
  <2>8. CASE plan[x] = VerifyLeft /\ (before \in Tree => disk.backup = before /\ task.existing /\ disk.marker.phase # "prepared")
    <3>1. step = "verify" /\ Tail(plan[x]) = ActivatedLeft
      BY <2>8, Lefts
    <3>2. KeepsTrees(disk') /\ disk.root = Intended(x)
      BY <1>1, <1>2, <1>3, <3>1, AfterIs
    <3>3. step # "makeStage"
      BY <2>8, <2>u, <2>i, <3>1, Lefts
    <3> QED
      BY <1>1, <1>4, <2>u, <2>i, <2>8, <2>w, <3>1, <3>2, <3>3 DEF WriteAt, KeepsTrees
  <2>9. CASE plan[x] = ActivatedLeft /\ disk.root = task.value
    <3>1. step = "activated" /\ Tail(plan[x]) = DropBackupLeft
      BY <2>9, Lefts
    <3>2. MarksOnly(disk') /\ disk'.marker = MarkAs("activated")
      BY <1>1, <1>2, <1>3, <3>1, AfterIs
    <3>3. step # "makeStage"
      BY <2>9, <2>u, <3>1, Lefts
    <3>4. disk'.marker.phase = "activated" /\ disk'.root = disk.root
      BY <3>2 DEF MarksOnly, MarkAs
    <3> QED
      BY <1>1, <1>4, <2>u, <2>9, <2>w, <3>1, <3>3, <3>4 DEF WriteAt
  <2>10. CASE plan[x] = DropBackupLeft
    <3>1. step = "dropBackup" /\ Tail(plan[x]) = ClearLeft
      BY <2>10, Lefts
    <3>2. TRUE
      BY <1>1, <1>2, <1>3, <3>1, AfterIs
    <3>3. step # "makeStage"
      BY <2>10, <2>u, <3>1, Lefts
    <3> QED
      BY <1>1, <1>4, <2>u, <2>10, <2>w, <3>1, <3>2, <3>3 DEF WriteAt
  <2>11. plan[x] # ClearLeft
    BY Lefts
  <2> QED
    BY <2>0, <2>1, <2>2, <2>3, <2>4, <2>5, <2>6, <2>7, <2>8, <2>9, <2>10, <2>11, <2>v DEF WriteAt
<1>7. CASE doing[x] = "undo"
  <2>0. RollbackAt(disk, plan[x], before) /\ x = "mat"
    BY <1>1, <1>7 DEF ActorPlace
  <2>w. ASSUME RollbackAt(disk', Tail(plan[x]), before') PROVE ActorPlace(x, disk', doing[x], Tail(plan[x]), before', task', seen[x])
    BY <1>7, <2>0, <2>w DEF ActorPlace
  <2>1. CASE plan[x] \in {MayReturn, Returns, StageMayGo, ReturnsClear, TreeMayGo, TreeGoes}
    <3>1. Tail(plan[x]) \in {StageMayGo, ClearLeft}
      BY <2>1, Lefts, ZenonT(60)
    <3> QED
      BY <2>w, <3>1 DEF RollbackAt
  <2>2. CASE plan[x] = Exchange
    <3>1. Tail(plan[x]) = ReturnsClear
      BY <2>2, Lefts
    <3> QED
      BY <2>w, <3>1 DEF RollbackAt
  <2>4. CASE plan[x] = ExchangeOnly /\ (before \in Tree => disk.marker.phase # "prepared")
    <3>1. Tail(plan[x]) = ReturnsOnly /\ step = "dropRoot"
      BY <2>4, Lefts
    <3>2. disk'.marker = disk.marker /\ before' = before
      BY <1>1, <1>2, <1>3, <1>4, <3>1, AfterIs DEF KeepsMark
    <3> QED
      BY <2>w, <2>4, <3>1, <3>2 DEF RollbackAt
  <2>3. plan[x] \notin {ReturnsOnly, ClearLeft}
    BY Lefts
  <2> QED
    BY <2>0, <2>1, <2>2, <2>3, <2>4 DEF RollbackAt
<1> QED
  BY <1>1, <1>5, <1>6, <1>7 DEF ActorPlace, Busy

\* A rollback starts where its write failed.
LEMMA UndoPlaced ==
  ASSUME DirInv, Certain, NEW x \in Actor, Busy(x), doing[x] = "work",
         NEW d, KeepsTrees(d) \/ d \in Halfway(x, Head(plan[x])), TakeBack(Head(plan[x])) # <<>>
  PROVE  RollbackAt(d, TakeBack(Head(plan[x])), before) /\ x = "mat"
<1> DEFINE step == Head(plan[x])
<1>1. TreeSafe(disk, before) /\ Absent \notin Tree /\ DiskTyped /\ WriteAt(disk, plan[x], before, task) /\ x = "mat"
  BY DirectoryAssumption DEF DirInv, DirTyped, ActorPlace
<1>2. step \in {"setAside", "backedUp", "activate", "verify", "activated"}
  BY DEF TakeBack
<1>3. CASE step \in {"setAside", "backedUp"}
  BY <1>1, <1>3 DEF TakeBack, RollbackAt, MayReturn
<1>4. CASE step = "activate"
  <2>1. before \in Tree => task.existing
    <3>1. plan[x] # TreeGoesOnly /\ plan[x] \notin {AllLeft, FillLeft, PrepareLeft, DropBackupLeft, ClearLeft}
      BY <1>4, Lefts
    <3> QED
      BY <1>1, <3>1 DEF WriteAt
  <2>2. TakeBack(step) = IF task.existing THEN Returns ELSE TreeMayGo
    BY <1>4 DEF TakeBack, Returns, TreeMayGo
  <2> QED
    BY <1>1, <2>1, <2>2 DEF RollbackAt
<1>5. CASE step \in {"verify", "activated"}
  <2>1. before \in Tree => task.existing /\ disk.backup = before
    <3>1. plan[x] # TreeGoesOnly /\ plan[x] \notin {AllLeft, FillLeft, PrepareLeft, ReviewLeft, SetAsideLeft, BackedUpLeft,
                                                  ActivateLeft, DropBackupLeft, ClearLeft}
      BY <1>5, Lefts
    <3> QED
      BY <1>1, <3>1 DEF WriteAt
  <2>2. d.backup = disk.backup
    <3>1. doing[x] # "recover"
      OBVIOUS
    <3>2. ASSUME d \in After(x, step) PROVE d.backup = disk.backup
      BY <1>1, <1>5, <3>1, <3>2, AfterIs DEF KeepsTrees, MarksOnly
    <3> QED
      BY <1>1, <1>5, <3>1, <3>2, HalfwayIs DEF KeepsTrees
  <2>3. TakeBack(step) = IF task.existing THEN IF step = "verify" THEN ExchangeOnly ELSE Exchange ELSE TreeGoes
    BY <1>5 DEF TakeBack, ExchangeOnly, Exchange, TreeGoes
  <2>4. step = "verify" => (before \in Tree => d.marker.phase # "prepared")
    <3>1. step = "verify" => d.marker = disk.marker
      <4>1. step = "verify" => KeepsTrees(d)
        BY <1>1, AfterIs, HalfwayIs
      <4> QED
        BY <4>1 DEF KeepsTrees
    <3>2. step = "verify" => plan[x] \notin {TreeGoesOnly, AllLeft, FillLeft, PrepareLeft, ReviewLeft, SetAsideLeft,
                                             BackedUpLeft, ActivateLeft, ActivatedLeft, DropBackupLeft, ClearLeft}
      BY Lefts
    <3> QED
      BY <1>1, <3>1, <3>2 DEF WriteAt
  <2> QED
    BY <1>1, <2>1, <2>2, <2>3, <2>4 DEF RollbackAt
<1> QED
  BY <1>2, <1>3, <1>4, <1>5


-----------------------------------------------------------------------------
LEMMA DisksTyped ==
  ASSUME DirTyped, NEW x \in Actor, NEW step \in StepNames
  PROVE  After(x, step) \subseteq Disks /\ Halfway(x, step) \subseteq Disks
<1>0. /\ disk \in Disks /\ task.value \in Tree \union {Absent} /\ Absent \in Content /\ Partial \in Content
      /\ task.value \in Content /\ {disk.root, disk.stage, disk.backup} \subseteq Content
  BY DEF DirTyped, DiskTyped, Content, Disks
<1>1. ASSUME NEW v \in Content PROVE {[disk EXCEPT !["root"] = v], [disk EXCEPT !["stage"] = v], [disk EXCEPT !["backup"] = v]} \subseteq Disks
  BY <1>0, <1>1 DEF Disks
<1>2. \A place \in {"root", "stage", "backup"} : Drop(x, place) \subseteq Disks
  BY <1>0, <1>1 DEF Drop
<1>3. /\ Rename(x, "root", "backup") \subseteq Disks /\ Rename(x, "backup", "root") \subseteq Disks
      /\ Rename(x, "stage", "root") \subseteq Disks
  BY <1>0 DEF Rename, Disks
<1>4. ASSUME NEW phase \in {"prepared", "backed-up", "activated"} PROVE MarkTxn(phase) \subseteq Disks
  BY <1>0, <1>4 DEF MarkTxn, Disks
<1>5. [disk EXCEPT !.stage = Partial, !.txn = disk.txn + 1] \in Disks /\ [disk EXCEPT !.stage = task.value] \in Disks
      /\ [disk EXCEPT !.marker = NoTxn] \in Disks
  <2>1. [disk EXCEPT !.stage = Partial, !.txn = disk.txn + 1] \in Disks
    <3>1. disk.txn + 1 \in Nat
      BY <1>0 DEF Disks
    <3>2. [disk EXCEPT !.stage = Partial] \in Disks
      BY <1>0 DEF Disks
    <3>3. \A d \in Disks, n \in Nat : [d EXCEPT !.txn = n] \in Disks
      BY DEF Disks
    <3> QED
      BY <3>1, <3>2, <3>3
  <2>2. [disk EXCEPT !.stage = task.value] \in Disks
    BY <1>0 DEF Disks
  <2>3. NoTxn \in [phase : {"none", "prepared", "backed-up", "activated"}, intent : Tree \union {Absent}, txn : Nat]
    BY DEF NoTxn
  <2>4. [disk EXCEPT !.marker = NoTxn] \in Disks
    BY <1>0, <2>3 DEF Disks
  <2> QED
    BY <2>1, <2>2, <2>4
<1>6. After(x, step) \subseteq Disks
  <2>1. CASE step \in {"makeStage", "fillStage", "clear", "review", "verify"} \/ ~Replaces(x, step)
    BY <1>0, <1>5, <2>1 DEF After
  <2>2. CASE step \in {"prepare", "backedUp", "activated"}
    BY <1>0, <1>4, <2>2 DEF After
  <2>3. CASE step \in {"setAside", "activate", "return", "returnAny"}
    BY <1>0, <1>3, <2>3 DEF After, OrNothing
  <2>4. CASE step \in {"dropBackup", "dropStage", "dropRoot", "dropStageAny", "dropRootAny"}
    BY <1>0, <1>2, <2>4 DEF After, OrNothing
  <2> QED
    BY <2>1, <2>2, <2>3, <2>4 DEF StepNames
<1>7. Halfway(x, step) \subseteq Disks
  <2>1. CASE step \in {"dropRoot", "dropRootAny"}
    BY <1>0, <1>1, <2>1 DEF Halfway
  <2>2. CASE step \in {"dropStage", "dropStageAny"}
    BY <1>0, <1>1, <2>2 DEF Halfway
  <2>3. CASE step = "dropBackup"
    BY <1>0, <1>1, <2>3 DEF Halfway
  <2>4. CASE step \notin {"dropRoot", "dropRootAny", "dropStage", "dropStageAny", "dropBackup"}
    BY <1>0, <1>6, <2>4 DEF Halfway
  <2> QED
    BY <2>1, <2>2, <2>3, <2>4
<1> QED
  BY <1>6, <1>7

-----------------------------------------------------------------------------
\* What a step has to show when it gives an actor s to do next.
LEMMA DoKeeps ==
  ASSUME DirInv, Certain, NEW x \in Actor,
         \A y \in Actor \ {x} : doing[y] = "idle",
         NEW m \in {"recover", "work", "undo", "idle"}, NEW s, m = "idle" => s = <<>>, Do(x, m, s),
         disk' \in Disks, DOMAIN seen' = Actor, before' \in Content,
         task' \in [kind : {"none", "read", "write", "remove"}, value : Tree \union {Absent}, existing : BOOLEAN],
         task'.kind = "write" => task'.value \in Tree,
         TreeSafe(disk', before'),
         s # <<>> => ActorPlace(x, disk', m, s, before', task', seen'[x]),
         s = <<>> => ~Twin(disk', before'),
         x = "mat" /\ m = "recover" /\ task'.kind = "remove" => before' = Absent
  PROVE  DirInv'
<1>1. /\ DOMAIN plan = Actor /\ doing \in [Actor -> {"idle", "recover", "work", "undo"}]
      /\ \A y \in Actor : ActorPlace(y, disk, doing[y], plan[y], before, task, seen[y])
  BY DEF DirInv, DirTyped
<1>2. /\ DOMAIN plan' = Actor /\ doing' \in [Actor -> {"idle", "recover", "work", "undo"}]
      /\ plan'[x] = s /\ doing'[x] = (IF s = <<>> THEN "idle" ELSE m)
      /\ \A y \in Actor \ {x} : plan'[y] = plan[y] /\ doing'[y] = doing[y]
  BY <1>1 DEF Do
<1>3. DirTyped'
  BY <1>2 DEF DirTyped, DiskTyped
<1>4. ASSUME NEW y \in Actor \ {x} PROVE ActorPlace(y, disk', doing'[y], plan'[y], before', task', seen'[y])
  <2>1. doing'[y] = "idle" /\ plan'[y] = <<>>
    BY <1>1, <1>2 DEF ActorPlace
  <2> QED
    BY <2>1 DEF ActorPlace
<1>5. ActorPlace(x, disk', doing'[x], plan'[x], before', task', seen'[x])
  <2>1. CASE s = <<>>
    BY <1>2, <2>1 DEF ActorPlace
  <2>2. CASE s # <<>>
    BY <1>2, <2>2
  <2> QED
    BY <2>1, <2>2
<1>6. doing'["mat"] = "idle" \/ doing'["check"] = "idle"
  BY <1>2 DEF Actor
<1>7. doing'["mat"] = "recover" /\ task'.kind = "remove" => before' = Absent
  BY <1>2 DEF Actor
<1>9. (\A y \in Actor : doing'[y] = "idle") => ~Twin(disk', before')
  <2>1. CASE s = <<>>
    BY <2>1
  <2>2. CASE s # <<>> /\ m # "idle"
    BY <1>2, <2>2
  <2> QED
    BY <2>1, <2>2
<1>8. \A y \in Actor : ActorPlace(y, disk', doing'[y], plan'[y], before', task', seen'[y])
  BY <1>4, <1>5
<1> QED
  BY <1>3, <1>6, <1>7, <1>8, <1>9 DEF DirInv

\* Nobody else is under way, and an actor that is under way has something to do.
LEMMA OthersIdle ==
  ASSUME DirInv, Certain, NEW x \in Actor
  PROVE  /\ doing[x] # "idle" => \A y \in Actor \ {x} : doing[y] = "idle"
         /\ plan[x] # <<>> => doing[x] # "idle"
BY DEF DirInv, ActorPlace, Actor

\* An operation that ends leaves the disk safe.
LEMMA EndKeeps ==
  ASSUME DirInv, Certain, NEW x \in Actor, plan[x] # <<>>,
         NEW how, EndOp(x, how), disk' \in Disks, UNCHANGED <<seen, task, before>>, TreeSafe(disk', before),
         ~Twin(disk', before)
  PROVE  DirInv'
<1>1. \A y \in Actor \ {x} : doing[y] = "idle"
  BY OthersIdle
<1>2. Do(x, "idle", <<>>) /\ DirTyped
  BY DEF EndOp, DirInv
<1>3. TreeSafe(disk', before') /\ ~Twin(disk', before')
  OBVIOUS
<1> QED
  BY <1>1, <1>2, <1>3, DoKeeps DEF DirTyped

\* After the recovery comes the work.
LEMMA RecoveredKeeps ==
  ASSUME DirInv, Certain, NEW x \in Actor, plan[x] # <<>>, doing[x] = "recover",
         Recovered(x), disk' \in Disks, disk'.marker = NoTxn, disk'.root = disk.root,
         DOMAIN seen' = Actor, UNCHANGED <<task, before>>, TreeSafe(disk', before)
  PROVE  DirInv'
<1>1. \A y \in Actor \ {x} : doing[y] = "idle"
  BY OthersIdle
<1>2. DirTyped
  BY DEF DirInv
<1>3. TreeSafe(disk', before') /\ ~Twin(disk', before')
  BY DEF Twin, NoTxn
<1>4. CASE x = "mat" /\ Work # <<>>
  <2>1. Do(x, "work", Work)
    BY <1>4 DEF Recovered
  <2>2. /\ task.kind = "write" => task.value \in Tree
        /\ task.kind = "remove" => before = Absent
    BY <1>4 DEF DirInv, DirTyped
  <2>3. (task.kind = "write" /\ Work = AllLeft) \/ (task.kind = "remove" /\ Work = TreeGoesOnly)
    BY <1>4 DEF Work, AllLeft, TreeGoesOnly
  <2>4. WriteAt(disk', Work, before', task')
    BY <2>2, <2>3, Lefts DEF WriteAt
  <2>5. ActorPlace(x, disk', "work", Work, before', task', seen'[x])
    BY <1>4, <2>4 DEF ActorPlace
  <2> QED
    BY <1>1, <1>2, <1>3, <2>1, <2>5, DoKeeps DEF DirTyped
<1>5. CASE EndOp(x, "ok")
  <2>1. Do(x, "idle", <<>>)
    BY <1>5 DEF EndOp
  <2> QED
    BY <1>1, <1>2, <1>3, <2>1, DoKeeps DEF DirTyped
<1> QED
  BY <1>4, <1>5 DEF Recovered

LEMMA ReadMarkerKeeps ==
  ASSUME DirInv, Certain, NEW x \in Actor, ReadMarker(x)
  PROVE  DirInv'
<1>1. /\ plan[x] = plan[x] /\ plan[x] # <<>> /\ Head(plan[x]) = "marker" /\ DirTyped /\ TreeSafe(disk, before)
      /\ UNCHANGED <<disk, task, before>> /\ disk \in Disks
      /\ ActorPlace(x, disk, doing[x], plan[x], before, task, seen[x])
  BY DEF ReadMarker, NextIs, DirInv, DirTyped, DiskTyped
<1>2. /\ DOMAIN seen' = Actor /\ seen'[x] = disk.marker
  BY <1>1 DEF ReadMarker, DirTyped
<1>3. \A y \in Actor \ {x} : doing[y] = "idle"
  BY <1>1, OthersIdle
<1>4. doing[x] = "recover"
  <2>1. doing[x] \in {"recover", "work", "undo"}
    BY <1>1, OthersIdle DEF DirTyped
  <2>2. ~RollbackAt(disk, plan[x], before)
    BY <1>1, Lefts DEF RollbackAt
  <2>3. ~WriteAt(disk, plan[x], before, task)
    <3>1. plan[x] \notin {TreeGoesOnly, AllLeft, FillLeft, PrepareLeft, ReviewLeft, SetAsideLeft}
      BY <1>1, Lefts
    <3>2. plan[x] \notin {BackedUpLeft, ActivateLeft, VerifyLeft, ActivatedLeft, DropBackupLeft, ClearLeft}
      BY <1>1, Lefts
    <3> QED
      BY <3>1, <3>2 DEF WriteAt
  <2> QED
    BY <1>1, <2>1, <2>2, <2>3 DEF ActorPlace
<1>5. CASE disk.marker # NoTxn
  <2>1. Do(x, "recover", ExamineFirst)
    BY <1>5 DEF ReadMarker, ExamineFirst
  <2>5. ~Twin(disk, before)
    BY <1>1, <1>4, Lefts DEF ActorPlace, RecoveryAt
  <2>2. ActorPlace(x, disk', "recover", ExamineFirst, before', task', seen'[x])
    BY <1>1, <1>2, <1>5, <2>5 DEF ActorPlace, RecoveryAt
  <2>3. x = "mat" /\ task.kind = "remove" => before = Absent
    BY <1>4 DEF DirInv
  <2>4. TreeSafe(disk', before')
    BY <1>1 DEF DirInv
  <2>6. ExamineFirst # <<>>
    BY Lefts
  <2> QED
    BY <1>1, <1>2, <1>3, <2>1, <2>2, <2>3, <2>4, <2>6, DoKeeps DEF DirTyped
<1>6. CASE disk.marker = NoTxn /\ Clean(disk)
  <2>1. Recovered(x)
    BY <1>6 DEF ReadMarker
  <2> QED
    BY <1>1, <1>2, <1>4, <1>6, <2>1, RecoveredKeeps
<1>7. CASE disk.marker = NoTxn /\ ~Clean(disk)
  <2>1. Do(x, "idle", <<>>)
    BY <1>7 DEF ReadMarker, EndOp
  <2>2. TreeSafe(disk', before') /\ ~Twin(disk', before')
    BY <1>1, <1>7 DEF DirInv, Twin, NoTxn
  <2> QED
    BY <1>1, <1>2, <1>3, <2>1, <2>2, DoKeeps DEF DirTyped
<1> QED
  BY <1>5, <1>6, <1>7

\* What a recovery decides to do is safe for the tree.
LEMMA RecoveryPlaced ==
  ASSUME DirInv, Certain, ~Twin(disk, before), NEW m, m = disk.marker, m # NoTxn,
         NEW steps, steps = Recovery(m, disk.root, disk.stage, disk.backup), steps # <<>>
  PROVE  RecoveryAt(disk, steps, before, m)
<1>1. TreeSafe(disk, before) /\ Absent \notin Tree
  BY DirectoryAssumption DEF DirInv
<1> DEFINE found == <<disk.root # Absent, disk.stage # Absent, disk.backup # Absent>>
<1>2. CASE m.phase = "prepared" /\ found = <<TRUE, TRUE, FALSE>> /\ disk.stage = m.intent
  BY <1>2 DEF Recovery, RecoveryAt, StageGoes
<1>3. CASE m.phase = "prepared" /\ found = <<FALSE, TRUE, FALSE>> /\ disk.stage = m.intent
  <2>1. disk.root = Absent /\ disk.backup = Absent
    BY <1>3
  <2>2. steps = TreeComes
    BY <1>3 DEF Recovery, TreeComes
  <2> QED
    BY <1>1, <1>3, <2>1, <2>2 DEF RecoveryAt, TreeSafe
<1>4. CASE m.phase = "prepared" /\ found = <<TRUE, FALSE, FALSE>> /\ disk.root = m.intent
  <2>1. disk.backup = Absent /\ disk.stage = Absent
    BY <1>4
  <2>2. steps = TreeGoes
    BY <1>4 DEF Recovery, TreeGoes
  <2> QED
    BY <1>1, <1>4, <2>1, <2>2 DEF RecoveryAt, TreeSafe, Twin
<1>5. CASE m.phase = "backed-up" /\ found = <<FALSE, TRUE, TRUE>> /\ disk.stage = m.intent
  <2>2. steps = TreeReplaces
    BY <1>5 DEF Recovery, TreeReplaces
  <2> QED
    BY <1>5, <2>2 DEF RecoveryAt
<1>6. CASE m.phase = "activated" /\ found = <<TRUE, FALSE, TRUE>> /\ disk.root = m.intent
  <2>2. steps = DropBackupLeft
    BY <1>6 DEF Recovery, DropBackupLeft
  <2> QED
    BY <1>6, <2>2 DEF RecoveryAt
<1>7. CASE m.phase = "activated" /\ found = <<TRUE, FALSE, FALSE>> /\ disk.root = m.intent
  BY <1>7 DEF Recovery, RecoveryAt, ClearLeft
<1> QED
  BY <1>2, <1>3, <1>4, <1>5, <1>6, <1>7 DEF Recovery

LEMMA ExamineKeeps ==
  ASSUME DirInv, Certain, NEW x \in Actor, Examine(x)
  PROVE  DirInv'
<1>1. /\ plan[x] # <<>> /\ Head(plan[x]) = "examine" /\ DirTyped /\ TreeSafe(disk, before)
      /\ UNCHANGED <<disk, seen, task, before>> /\ disk \in Disks
      /\ ActorPlace(x, disk, doing[x], plan[x], before, task, seen[x])
  BY DEF Examine, NextIs, DirInv, DirTyped, DiskTyped
<1>3. \A y \in Actor \ {x} : doing[y] = "idle"
  BY <1>1, OthersIdle
<1>4. doing[x] = "recover"
  <2>1. doing[x] \in {"recover", "work", "undo"}
    BY <1>1, OthersIdle DEF DirTyped
  <2>2. ~RollbackAt(disk, plan[x], before)
    BY <1>1, Lefts DEF RollbackAt
  <2>3. ~WriteAt(disk, plan[x], before, task)
    <3>1. plan[x] \notin {TreeGoesOnly, AllLeft, FillLeft, PrepareLeft, ReviewLeft, SetAsideLeft}
      BY <1>1, Lefts
    <3>2. plan[x] \notin {BackedUpLeft, ActivateLeft, VerifyLeft, ActivatedLeft, DropBackupLeft, ClearLeft}
      BY <1>1, Lefts
    <3> QED
      BY <3>1, <3>2 DEF WriteAt
  <2> QED
    BY <1>1, <2>1, <2>2, <2>3 DEF ActorPlace
<1>5. seen[x] = disk.marker /\ seen[x] # NoTxn /\ ~Twin(disk, before)
  <2>1. RecoveryAt(disk, plan[x], before, seen[x]) /\ plan[x] # MarkerFirst
    BY <1>1, <1>4, Lefts DEF ActorPlace
  <2> QED
    BY <1>1, <2>1, Lefts DEF RecoveryAt
<1>6. seen[x].txn = disk.txn
  BY <1>1, <1>5 DEF TreeSafe
<1>7. Named(x, "stage") = disk.stage /\ Named(x, "backup") = disk.backup
  BY <1>6 DEF Named
<1> DEFINE steps == Recovery(seen[x], disk.root, disk.stage, disk.backup)
<1>8. TreeSafe(disk', before')
  BY <1>1 DEF DirInv
<1>9. CASE EndOp(x, "error")
  <2>1. TreeSafe(disk', before)
    BY <1>1
  <2> QED
    BY <1>1, <1>5, <1>9, <2>1, EndKeeps
<1>10. CASE steps # <<>> /\ Do(x, "recover", steps)
  <2>1. RecoveryAt(disk, steps, before, seen[x])
    BY <1>5, <1>10, RecoveryPlaced
  <2>2. ActorPlace(x, disk', "recover", steps, before', task', seen'[x])
    BY <1>1, <2>1 DEF ActorPlace
  <2>3. x = "mat" /\ task.kind = "remove" => before = Absent
    BY <1>4 DEF DirInv
  <2> HIDE DEF steps
  <2> QED
    BY <1>1, <1>3, <1>8, <1>10, <2>2, <2>3, DoKeeps DEF DirTyped
<1> QED
  BY <1>7, <1>9, <1>10 DEF Examine

\* The last step of a write or of a rollback leaves no marker that could mislead.
LEMMA LastStepPlain ==
  ASSUME DirInv, Certain, NEW x \in Actor, Step(x), Tail(plan[x]) = <<>>, doing[x] \in {"work", "undo"}
  PROVE  ~Twin(disk', before')
<1> DEFINE step == Head(plan[x])
<1>1. /\ DiskTyped /\ TreeSafe(disk, before) /\ Absent \notin Tree /\ disk' \in After(x, step)
      /\ doing[x] = "work" => WriteAt(disk, plan[x], before, task)
      /\ doing[x] = "undo" => RollbackAt(disk, plan[x], before)
  BY DirectoryAssumption DEF DirInv, DirTyped, ActorPlace, Step, Busy
<1>0. doing[x] # "recover"
  OBVIOUS
<1>2. plan[x] \in {ClearLeft, TreeGoesOnly}
        \/ (plan[x] = ReturnsOnly /\ (before \in Tree => disk.marker.phase # "prepared"))
  <2>1. CASE doing[x] = "work"
    <3>1. plan[x] \notin {AllLeft, FillLeft, PrepareLeft, ReviewLeft, SetAsideLeft, BackedUpLeft, ActivateLeft,
                         VerifyLeft, ActivatedLeft}
      BY LongWrite
    <3>2. plan[x] # DropBackupLeft
      BY Lefts
    <3> QED
      BY <1>1, <2>1, <3>1, <3>2 DEF WriteAt
  <2>2. CASE doing[x] = "undo"
    <3>1. plan[x] \notin {MayReturn, StageMayGo, Returns, TreeMayGo, Exchange, ReturnsClear, ExchangeOnly}
      BY LongRollback
    <3>2. plan[x] # TreeGoes
      BY Lefts
    <3> QED
      BY <1>1, <2>2, <3>1, <3>2 DEF RollbackAt
  <2> QED
    BY <2>1, <2>2
<1>3. CASE plan[x] = ClearLeft
  <2>2. step = "clear"
    BY <1>3, Lefts
  <2>1. disk'.marker = NoTxn
    BY <1>0, <1>1, <2>2, AfterIs
  <2> QED
    BY <2>1 DEF Twin, NoTxn
<1>4. CASE plan[x] = TreeGoesOnly
  <2>2. step = "dropRoot"
    BY <1>4, Lefts
  <2>1. disk'.root = Absent /\ disk'.marker = disk.marker
    BY <1>0, <1>1, <2>2, AfterIs DEF KeepsMark
  <2> QED
    BY <1>1, <2>1 DEF Twin, TreeSafe, NoTxn
<1>5. CASE plan[x] = ReturnsOnly /\ (before \in Tree => disk.marker.phase # "prepared")
  <2>2. step = "return"
    BY <1>5, Lefts
  <2>1. disk'.marker = disk.marker /\ before' = before
    BY <1>0, <1>1, <2>2, AfterIs DEF KeepsMark, Step
  <2> QED
    BY <1>1, <1>5, <2>1 DEF Twin, TreeSafe, NoTxn
<1> QED
  BY <1>2, <1>3, <1>4, <1>5

LEMMA StepKeeps ==
  ASSUME DirInv, Certain, NEW x \in Actor, Step(x)
  PROVE  DirInv'
<1> DEFINE step == Head(plan[x])
<1>1. /\ Busy(x) /\ DirTyped /\ TreeSafe(disk, before) /\ plan[x] # <<>> /\ disk' \in After(x, step)
      /\ UNCHANGED seen /\ disk \in Disks
  BY DEF Step, Busy, DirInv, DirTyped, DiskTyped
<1>2. disk' \in Disks
  BY <1>1, StepKnown, DisksTyped
<1>3. before' \in {before, disk.root} /\ before' \in Content
  BY <1>1 DEF Step, DirTyped, Disks
<1>4. TreeSafe(disk', before')
  <2>1. CASE step = "makeStage"
    BY <1>1, <2>1, AfterSafe DEF Step
  <2>2. CASE step # "makeStage"
    BY <1>1, <2>2, AfterSafe DEF Step
  <2> QED
    BY <2>1, <2>2
<1>5. /\ task' \in [kind : {"none", "read", "write", "remove"}, value : Tree \union {Absent}, existing : BOOLEAN]
      /\ task'.kind = task.kind /\ task'.value = task.value
  <2>1. \A e \in BOOLEAN : LET t == [task EXCEPT !.existing = e] IN
          /\ t \in [kind : {"none", "read", "write", "remove"}, value : Tree \union {Absent}, existing : BOOLEAN]
          /\ t.kind = task.kind /\ t.value = task.value
    BY <1>1 DEF DirTyped
  <2>2. (disk.root # Absent) \in BOOLEAN
    OBVIOUS
  <2>3. CASE step = "prepare"
    <3>1. task' = [task EXCEPT !.existing = disk.root # Absent]
      BY <2>3 DEF Step
    <3> QED
      BY <2>1, <2>2, <3>1
  <2>4. CASE step # "prepare"
    <3>1. task' = task
      BY <2>4 DEF Step
    <3> QED
      BY <1>1, <3>1 DEF DirTyped
  <2> QED
    BY <2>3, <2>4
<1>6. task'.kind = "write" => task'.value \in Tree
  BY <1>1, <1>5 DEF DirTyped
<1>7. \A y \in Actor \ {x} : doing[y] = "idle"
  BY <1>1, OthersIdle
<1>8. doing[x] \in {"recover", "work", "undo"}
  BY <1>1, OthersIdle DEF DirTyped
<1>9. CASE Tail(plan[x]) # <<>>
  <2>1. Do(x, doing[x], Tail(plan[x]))
    BY <1>9 DEF Step, Proceed
  <2>2. ActorPlace(x, disk', doing[x], Tail(plan[x]), before', task', seen'[x])
    BY <1>1, <1>9, StepPlaced
  <2>3. ASSUME x = "mat", doing[x] = "recover", task'.kind = "remove"
        PROVE  before' = Absent
    <3>1. step # "makeStage"
      <4>1. RecoveryAt(disk, plan[x], before, seen[x])
        BY <2>3 DEF DirInv, ActorPlace
      <4> QED
        BY <4>1, Lefts DEF RecoveryAt
    <3>2. before' = before
      BY <3>1 DEF Step
    <3> QED
      BY <1>5, <2>3, <3>2 DEF DirInv
  <2>4. ASSUME NEW m, m = doing[x], NEW s, s = Tail(plan[x])
        PROVE  DirInv'
    <3>1. m \in {"recover", "work", "undo", "idle"} /\ m # "idle" /\ s # <<>>
      BY <1>8, <1>9, <2>4
    <3>2. Do(x, m, s) /\ ActorPlace(x, disk', m, s, before', task', seen'[x])
      BY <2>1, <2>2, <2>4
    <3>3. x = "mat" /\ m = "recover" /\ task'.kind = "remove" => before' = Absent
      BY <2>3, <2>4
    <3>4. DOMAIN seen' = Actor
      BY <1>1 DEF DirTyped
    <3> QED
      BY <1>2, <1>3, <1>4, <1>5, <1>6, <1>7, <3>1, <3>2, <3>3, <3>4, DoKeeps
  <2> QED
    BY <2>4
<1>10. CASE Tail(plan[x]) = <<>> /\ doing[x] = "recover"
  <2>1. plan[x] = ClearLeft
    <3>1. RecoveryAt(disk, plan[x], before, seen[x]) /\ plan[x] # MarkerFirst /\ plan[x] # ExamineFirst
      BY <1>1, <1>10, Lefts DEF DirInv, ActorPlace, Busy
    <3>2. plan[x] \notin {StageGoes, TreeComes, TreeCame, TreeGoes, TreeReplaces, TreeReplaced, DropBackupLeft}
      BY <1>10, LongRecovery
    <3> QED
      BY <3>1, <3>2 DEF RecoveryAt
  <2>2. step = "clear"
    BY <2>1, Lefts
  <2>3. Recovered(x) /\ UNCHANGED <<task, before>>
    BY <1>10, <2>2 DEF Step, Proceed
  <2>4. doing[x] = "recover" => seen[x].txn = disk.txn
    BY <1>1, Located
  <2>5. disk'.marker = NoTxn /\ disk'.root = disk.root
    BY <1>1, <2>2, <2>4, AfterIs DEF MarksOnly, DirTyped
  <2>6. TreeSafe(disk', before)
    BY <1>4, <2>3
  <2> QED
    BY <1>1, <1>2, <1>10, <2>3, <2>5, <2>6, RecoveredKeeps DEF DirTyped
<1>11. CASE Tail(plan[x]) = <<>> /\ doing[x] # "recover"
  <2>1. Do(x, "idle", <<>>)
    BY <1>11 DEF Step, Proceed, EndOp
  <2>2. ~Twin(disk', before')
    BY <1>1, <1>8, <1>11, LastStepPlain
  <2> QED
    BY <1>1, <1>2, <1>3, <1>4, <1>5, <1>6, <1>7, <2>1, <2>2, DoKeeps DEF DirTyped
<1> QED
  BY <1>9, <1>10, <1>11

\* Without its stage a disk is as safe as with it.
LEMMA AbandonedSafe ==
  ASSUME NEW d \in Disks, NEW b, TreeSafe(d, b), NEW e \in Abandoned(d) \union {d}
  PROVE  e \in Disks /\ TreeSafe(e, b)
<1>1. e = d \/ e = [d EXCEPT !.stage = Absent]
  BY DEF Abandoned
<1>2. e \in Disks /\ e.root = d.root /\ e.backup = d.backup /\ e.marker = d.marker /\ e.txn = d.txn
  BY <1>1 DEF Disks, Content
<1> QED
  BY <1>2 DEF TreeSafe

LEMMA FailKeeps ==
  ASSUME DirInv, Certain, NEW x \in Actor, Busy(x), UNCHANGED <<seen, task, before>>,
         NEW d, d = disk \/ d \in Halfway(x, Head(plan[x])), FailsFrom(x, d),
         ~Twin(disk', before)
  PROVE  DirInv'
<1>1. /\ plan[x] # <<>> /\ DirTyped /\ TreeSafe(disk, before) /\ disk \in Disks
  BY DEF Busy, DirInv, DirTyped, DiskTyped
<1>2. d \in Disks /\ TreeSafe(d, before) /\ (KeepsTrees(d) \/ d \in Halfway(x, Head(plan[x])))
  BY <1>1, StepKnown, DisksTyped, HalfwaySafe DEF KeepsTrees
<1>3. \A y \in Actor \ {x} : doing[y] = "idle"
  BY <1>1, OthersIdle
<1>4. CASE x = "mat" /\ doing[x] = "work" /\ TakeBack(Head(plan[x])) # <<>>
  <2> DEFINE steps == TakeBack(Head(plan[x]))
  <2>1. Do(x, "undo", steps) /\ disk' = d
    BY <1>4 DEF FailsFrom
  <2>2. RollbackAt(d, steps, before)
    BY <1>2, <1>4, UndoPlaced
  <2>3. ActorPlace(x, disk', "undo", steps, before', task', seen'[x])
    BY <1>4, <2>1, <2>2 DEF ActorPlace
  <2>4. TreeSafe(disk', before') /\ disk' \in Disks
    BY <1>2, <2>1 DEF DirInv
  <2>5. steps # <<>>
    BY <1>4
  <2> HIDE DEF steps
  <2> QED
    BY <1>1, <1>3, <2>1, <2>3, <2>4, <2>5, DoKeeps DEF DirTyped
<1>5. CASE ~(x = "mat" /\ doing[x] = "work" /\ TakeBack(Head(plan[x])) # <<>>)
  <2>1. EndOp(x, "error") /\ disk' \in Abandoned(d) \union {d}
    BY <1>5 DEF FailsFrom
  <2>2. disk' \in Disks /\ TreeSafe(disk', before)
    BY <1>2, <2>1, AbandonedSafe
  <2> QED
    BY <1>1, <2>1, <2>2, EndKeeps
<1> QED
  BY <1>4, <1>5

LEMMA StepFailsKeeps ==
  ASSUME DirInv, Certain, Certain', NEW x \in Actor, StepFails(x)
  PROVE  DirInv'
<1>1. Busy(x) /\ UNCHANGED <<seen, task, before>>
  BY DEF StepFails
<1>2. \E d : (d = disk \/ d \in Halfway(x, Head(plan[x]))) /\ FailsFrom(x, d)
  BY DEF StepFails
<1>3. ~Twin(disk', before)
  BY DEF StepFails, Interrupted, Certain
<1> QED
  BY <1>1, <1>2, <1>3, FailKeeps

LEMMA KillKeeps ==
  ASSUME DirInv, Certain, Certain', NEW x \in Actor, KillActor(x)
  PROVE  DirInv'
<1>1. /\ plan[x] # <<>> /\ TreeSafe(disk, before) /\ disk \in Disks /\ EndOp(x, "none") /\ DirTyped
      /\ UNCHANGED <<seen, task, before>>
  BY DEF KillActor, DirInv, DirTyped, DiskTyped
<1>3. ~Twin(disk', before)
  BY DEF KillActor, Interrupted, Certain
<1>2. disk' \in Disks /\ TreeSafe(disk', before)
  <2>1. CASE Busy(x)
    BY <1>1, <2>1, StepKnown, DisksTyped, HalfwaySafe DEF KillActor
  <2>2. CASE ~Busy(x)
    BY <1>1, <2>2 DEF KillActor
  <2> QED
    BY <2>1, <2>2
<1> QED
  BY <1>1, <1>2, <1>3, EndKeeps

LEMMA StartKeeps ==
  ASSUME DirInv, Certain, Certain', NEW x \in Actor, Start(x), UNCHANGED <<disk, seen>>,
         before' \in {before, Absent},
         task' \in [kind : {"none", "read", "write", "remove"}, value : Tree \union {Absent}, existing : BOOLEAN],
         task'.kind = "write" => task'.value \in Tree,
         x = "mat" /\ task'.kind = "remove" => before' = Absent
  PROVE  DirInv'
<1>1. DirTyped /\ TreeSafe(disk, before) /\ disk \in Disks /\ Absent \notin Tree
  BY DirectoryAssumption DEF DirInv, DirTyped, DiskTyped
<1>2. Do(x, "recover", MarkerFirst)
  BY DEF Start, MarkerFirst
<1>3. (\A y \in Actor \ {x} : doing[y] = "idle") /\ doing[x] = "idle"
  BY DEF Start, Certain
<1>7. ~Twin(disk, before')
  <2>1. ~Twin(disk, before)
    BY <1>3 DEF DirInv
  <2>2. ~Twin(disk, Absent)
    BY <1>1 DEF Twin, TreeSafe, NoTxn
  <2> QED
    BY <2>1, <2>2
<1>4. ActorPlace(x, disk', "recover", MarkerFirst, before', task', seen'[x])
  BY <1>7 DEF ActorPlace, RecoveryAt
<1>5. TreeSafe(disk', before') /\ before' \in Content
  BY <1>1 DEF TreeSafe, DirTyped, Content
<1> QED
  BY <1>1, <1>2, <1>3, <1>4, <1>5, Lefts, DoKeeps DEF DirTyped

\* What is uncertain stays uncertain.
LEMMA CertainBefore ==
  ASSUME [DirNext]_dirVars, Certain'
  PROVE  Certain
<1>1. (overlap' = overlap \/ \E x \in Actor : Start(x)) /\ (undecided' = undecided \/ Interrupted)
  BY DEF dirVars, DirNext, readDirectorySource, removeDirectorySource, directorySourceExists, writeDirectorySource, Actor,
         ReadMarker, Examine, Step, StepFails, KillActor
<1>2. ~overlap
  BY <1>1, Zenon DEF Start, Certain
<1>3. ~undecided
  BY <1>1, Zenon DEF Interrupted, Certain
<1> QED
  BY <1>2, <1>3 DEF Certain

LEMMA DirStepInv ==
  ASSUME DirInv, [DirNext]_dirVars
  PROVE  DirInv'
<1>1. CASE ~Certain'
  BY <1>1 DEF DirInv
<1>2. ASSUME Certain' PROVE DirInv'
  <2>0. Certain /\ DirTyped
    BY <1>2, CertainBefore DEF DirInv
  <2>1. CASE UNCHANGED dirVars
    BY <1>2, <2>0, <2>1 DEF dirVars, DirInv, DirTyped, DiskTyped
  <2>2. CASE readDirectorySource
    <3>1. task' = [kind |-> "read", value |-> Absent, existing |-> FALSE]
      BY <2>2 DEF readDirectorySource, NoTask
    <3>2. /\ task'.kind = "read"
          /\ task' \in [kind : {"none", "read", "write", "remove"}, value : Tree \union {Absent}, existing : BOOLEAN]
      BY <3>1
    <3>3. Start("mat") /\ UNCHANGED <<disk, seen>> /\ before' \in {before, Absent}
      BY <2>2 DEF readDirectorySource
    <3> QED
      BY <1>2, <2>0, <3>2, <3>3, StartKeeps DEF Actor
  <2>3. CASE removeDirectorySource
    <3>1. task' = [kind |-> "remove", value |-> Absent, existing |-> FALSE]
      BY <2>3 DEF removeDirectorySource, NoTask
    <3>2. /\ task'.kind = "remove"
          /\ task' \in [kind : {"none", "read", "write", "remove"}, value : Tree \union {Absent}, existing : BOOLEAN]
      BY <3>1
    <3>3. Start("mat") /\ UNCHANGED <<disk, seen>> /\ before' \in {before, Absent} /\ before' = Absent
      BY <2>3 DEF removeDirectorySource
    <3> QED
      BY <1>2, <2>0, <3>2, <3>3, StartKeeps DEF Actor
  <2>4. CASE directorySourceExists
    BY <1>2, <2>0, <2>4, StartKeeps DEF directorySourceExists, Actor, DirTyped
  <2>5. ASSUME NEW value \in Tree, writeDirectorySource(value) PROVE DirInv'
    <3>1. task' = [kind |-> "write", value |-> value, existing |-> FALSE]
      BY <2>5 DEF writeDirectorySource
    <3> QED
      BY <1>2, <2>0, <2>5, <3>1, StartKeeps DEF writeDirectorySource, Actor
  <2>6. ASSUME NEW x \in Actor, ReadMarker(x) \/ Examine(x) \/ Step(x) \/ StepFails(x) \/ KillActor(x)
        PROVE  DirInv'
    BY <1>2, <2>0, <2>6, ReadMarkerKeeps, ExamineKeeps, StepKeeps, StepFailsKeeps, KillKeeps
  <2> QED
    BY <2>1, <2>2, <2>3, <2>4, <2>5, <2>6 DEF DirNext
<1> QED
  BY <1>1, <1>2

LEMMA DirInitInv == DirInit => DirInv
<1> SUFFICES ASSUME DirInit PROVE DirInv
  OBVIOUS
<1>1. disk \in Disks /\ disk.marker = NoTxn
  BY DEF DirInit, Disks, Content, NoTxn
<1>2. NoTask \in [kind : {"none", "read", "write", "remove"}, value : Tree \union {Absent}, existing : BOOLEAN]
  BY DEF NoTask
<1>3. DirTyped
  BY <1>1, <1>2 DEF DirInit, DirTyped, DiskTyped, NoTask, Content
<1>4. TreeSafe(disk, before) /\ Absent \notin Tree
  BY <1>1, DirectoryAssumption DEF DirInit, TreeSafe
<1>5. \A x \in Actor : ActorPlace(x, disk, doing[x], plan[x], before, task, seen[x]) /\ doing[x] = "idle"
  BY DEF DirInit, ActorPlace
<1>6. ~Twin(disk, before)
  BY <1>1 DEF Twin, NoTxn
<1> QED
  BY <1>3, <1>4, <1>5, <1>6 DEF DirInv, DirInit, Actor

\* A directory source loses no tree, however often its writes, removals and recoveries fail or are
\* killed, and whether or not a write is of the tree that is live, unless a rollback or a recovery
\* of a write of the live tree is interrupted between its last candidate and its marker.
THEOREM TreesKept == DirSpec => []TreeKeptUnlessUndecided
<1>1. DirInv /\ [DirNext]_dirVars => DirInv'
  BY DirStepInv
<1>2. DirInv => TreeKeptUnlessUndecided
  BY DEF DirInv, Certain, TreeSafe, TreeKept, TreeKeptUnlessUndecided
<1> QED
  BY <1>1, <1>2, DirInitInv, PTL DEF DirSpec

\* The tree b is in its place or aside.
Back(d, b) == (d.root = b /\ d.backup = Absent) \/ (d.root = Absent /\ d.backup = b)
Bare(d) == d.stage = Absent /\ d.backup = Absent

\* What a recovery, a write and a rollback have done when s is left of them.
RecoveryDone(d, s, m) ==
  \/ s = MarkerFirst
  \/ /\ m = d.marker /\ m # NoTxn
     /\ \/ s \in {ExamineFirst, TreeReplaces}
        \/ s \in {StageGoes, TreeComes} /\ d.backup = Absent
        \/ s \in {TreeCame, TreeGoes, ClearLeft} /\ Bare(d)
        \/ s \in {TreeReplaced, DropBackupLeft} /\ d.stage = Absent

WriteDone(d, s, b, t) ==
  \/ s = AllLeft /\ Clean(d)
  \/ s \in {FillLeft, PrepareLeft} /\ d.root = b /\ d.backup = Absent
  \/ /\ t.existing <=> b # Absent
     /\ \/ s \in {ReviewLeft, SetAsideLeft} /\ d.root = b /\ d.backup = Absent
        \/ s = BackedUpLeft /\ d.root = Absent /\ d.backup = b
        \/ /\ d.backup = b
           /\ t.existing => d.marker.phase = "backed-up"
           /\ s = ActivateLeft \/ (s = VerifyLeft /\ d.stage = Absent)
        \/ s \in {ActivatedLeft, DropBackupLeft} /\ d.stage = Absent /\ d.backup = b /\ d.root = t.value
  \/ s = ClearLeft /\ Bare(d) /\ d.root = t.value

RollbackDone(d, s, b) ==
  \/ s = MayReturn /\ Back(d, b)
  \/ s \in {StageMayGo, ClearLeft} /\ d.root = b
  \/ s \in {Returns, Exchange, ReturnsClear} /\ d.backup = b
  \/ s \in {ExchangeOnly, ReturnsOnly} /\ d.backup = b /\ d.stage = Absent /\ d.marker.phase = "backed-up"
  \/ s \in {TreeMayGo, TreeGoes} /\ b = Absent

Done(x, d, mode, s, b, t, m) ==
  /\ mode = "idle" => s = <<>>
  /\ mode = "recover" => RecoveryDone(d, s, m)
  /\ mode = "work" => /\ x = "mat"
                      /\ \/ t.kind = "write" /\ WriteDone(d, s, b, t)
                         \/ t.kind = "remove" /\ s = TreeGoesOnly /\ Clean(d)
  /\ mode = "undo" => x = "mat" /\ RollbackDone(d, s, b)

\* An answer that was given stays true, whatever an existence check does after it.
Answer(d, r, b, t) ==
  /\ r = "ok" => Clean(d)
  /\ r = "ok" /\ t.kind = "write" => d.root = t.value
  /\ r = "ok" /\ t.kind = "remove" => d.root = Absent
  /\ r = "restored" => d.root = b /\ (d.marker = NoTxn \/ (d.marker.phase = "backed-up" /\ Bare(d)))

Answered ==
  doing["mat"] = "idle" /\ result \in {"ok", "restored"} =>
    Answer(disk, result, before, task) /\ plan["check"] \in {<<>>, MarkerFirst, ExamineFirst}

OwnMarker(d) == d.marker # NoTxn => d.marker.txn = d.txn

AnswerInv ==
  /\ overlap \in BOOLEAN
  /\ ~overlap =>
       /\ DirTyped /\ OwnMarker(disk)
       /\ \A x \in Actor : Done(x, disk, doing[x], plan[x], before, task, seen[x])
       /\ doing["mat"] = "idle" \/ doing["check"] = "idle"
       /\ Answered

-----------------------------------------------------------------------------
\* The stage after a step, and what the others say of root and backup more exactly.
LEMMA StageIs ==
  ASSUME DiskTyped, NEW x \in Actor, doing[x] = "recover" => seen[x].txn = disk.txn,
         NEW step \in StepNames, NEW d \in After(x, step)
  PROVE  /\ step \in {"prepare", "review", "setAside", "backedUp", "verify", "activated", "dropBackup",
                      "dropRoot", "dropRootAny", "return", "returnAny", "clear"} => d.stage = disk.stage
         /\ step \in {"activate", "dropStage", "dropStageAny"} => d.stage = Absent
         /\ step = "dropRootAny" => d.root = Absent
         /\ step = "dropBackup" => d.backup = Absent \/ (doing[x] = "work" /\ ~task.existing /\ d = disk)
         /\ step = "returnAny" => disk.root # Absent \/ disk.backup = Absent \/ d.root = disk.backup
         /\ step = "backedUp" => d.marker.phase = "backed-up" \/ (doing[x] = "work" /\ ~task.existing)
<1> USE NamedIs DEF DiskTyped, Disks
<1>0. Named(x, "root") = disk.root /\ Named(x, "stage") = disk.stage /\ Named(x, "backup") = disk.backup
  OBVIOUS
<1>1. \A v : LET e == [disk EXCEPT !["stage"] = v] IN e.stage = v /\ e.root = disk.root
  OBVIOUS
<1>2. \A v : LET e == [disk EXCEPT !["root"] = v] IN e.stage = disk.stage /\ e.root = v
  OBVIOUS
<1>3. \A v : LET e == [disk EXCEPT !["backup"] = v] IN e.stage = disk.stage /\ e.backup = v
  OBVIOUS
<1>4. \A v : LET e == [disk EXCEPT !.marker = v] IN e.stage = disk.stage /\ e.marker = v
  OBVIOUS
<1>5. CASE step \in {"prepare", "backedUp", "activated", "clear"}
  BY <1>4, <1>5 DEF After, Replaces, MarkTxn
<1>6. CASE step \in {"review", "verify", "makeStage", "fillStage"}
  BY <1>6 DEF After
<1>7. CASE step \in {"dropStage", "dropStageAny"}
  BY <1>0, <1>1, <1>7 DEF After, Replaces, Drop, OrNothing
<1>8. CASE step \in {"dropRoot", "dropRootAny"}
  BY <1>0, <1>2, <1>8 DEF After, Replaces, Drop, OrNothing
<1>9. CASE step = "dropBackup"
  BY <1>0, <1>3, <1>9 DEF After, Replaces, Drop
<1>10. CASE step \in {"return", "returnAny"}
  <2>1. \A e \in Rename(x, "backup", "root") : e.stage = disk.stage /\ e.root = disk.backup
    BY <1>0 DEF Rename
  <2>2. disk.root = Absent /\ disk.backup # Absent => Rename(x, "backup", "root") # {}
    BY <1>0 DEF Rename
  <2> QED
    BY <1>10, <2>1, <2>2 DEF After, Replaces, OrNothing
<1>11. CASE step = "setAside"
  <2>1. \A e \in Rename(x, "root", "backup") : e.stage = disk.stage
    BY <1>0 DEF Rename
  <2> QED
    BY <1>11, <2>1 DEF After, Replaces
<1>12. CASE step = "activate"
  <2>1. \A e \in Rename(x, "stage", "root") : e.stage = Absent
    BY <1>0 DEF Rename
  <2> QED
    BY <1>12, <2>1 DEF After, Replaces
<1> QED
  BY <1>5, <1>6, <1>7, <1>8, <1>9, <1>10, <1>11, <1>12 DEF StepNames

-----------------------------------------------------------------------------
\* No step of a recovery means a transaction but the one of the disk.
LEMMA LocatedDone ==
  ASSUME AnswerInv, ~overlap, NEW x \in Actor, Busy(x)
  PROVE  /\ doing[x] = "recover" => seen[x] = disk.marker /\ seen[x] # NoTxn /\ seen[x].txn = disk.txn
         /\ doing[x] \in {"recover", "work", "undo"} /\ DiskTyped
         /\ Done(x, disk, doing[x], plan[x], before, task, seen[x])
<1>1. /\ doing[x] \in {"idle", "recover", "work", "undo"} /\ plan[x] # <<>> /\ DiskTyped
      /\ Done(x, disk, doing[x], plan[x], before, task, seen[x]) /\ OwnMarker(disk)
  BY DEF AnswerInv, DirTyped, Busy
<1>2. doing[x] # "idle"
  BY <1>1 DEF Done
<1>3. doing[x] = "recover" => RecoveryDone(disk, plan[x], seen[x]) /\ plan[x] # MarkerFirst
  BY <1>1, Lefts DEF Done, Busy
<1> QED
  BY <1>1, <1>2, <1>3 DEF RecoveryDone, OwnMarker

LEMMA StepNamed ==
  ASSUME AnswerInv, ~overlap, NEW x \in Actor, Busy(x)
  PROVE  Head(plan[x]) \in StepNames
<1> DEFINE step == Head(plan[x])
<1>1. /\ Done(x, disk, doing[x], plan[x], before, task, seen[x]) /\ plan[x] # <<>>
      /\ step # "marker" /\ step # "examine" /\ doing[x] \in {"recover", "work", "undo"}
  BY LocatedDone DEF Busy
<1>2. ASSUME RecoveryDone(disk, plan[x], seen[x])
      PROVE  step \in {"activate", "verify", "dropBackup", "dropStage", "dropRoot", "clear"}
  <2>1. plan[x] \in {MarkerFirst, ExamineFirst, StageGoes, ClearLeft, TreeComes, TreeCame, TreeGoes, TreeReplaces,
                     TreeReplaced, DropBackupLeft}
    BY <1>2 DEF RecoveryDone
  <2>2. plan[x] \notin {MarkerFirst, ExamineFirst}
    BY <1>1, Lefts
  <2> QED
    BY <2>1, <2>2, RecoveryHeads
<1>3. ASSUME WriteDone(disk, plan[x], before, task)
      PROVE  step \in StepNames
  <2>1. plan[x] \in {AllLeft, FillLeft, PrepareLeft, ReviewLeft, SetAsideLeft, BackedUpLeft, ActivateLeft,
                     VerifyLeft, ActivatedLeft, DropBackupLeft, ClearLeft}
    BY <1>3 DEF WriteDone
  <2>2. plan[x] \in {AllLeft, FillLeft, PrepareLeft, ReviewLeft, SetAsideLeft} => step \in
          {"makeStage", "fillStage", "prepare", "review", "setAside"}
    BY Lefts, ZenonT(60)
  <2>3. plan[x] \in {BackedUpLeft, ActivateLeft, VerifyLeft, ActivatedLeft, DropBackupLeft, ClearLeft} => step \in
          {"backedUp", "activate", "verify", "activated", "dropBackup", "clear"}
    BY Lefts, ZenonT(60)
  <2> QED
    BY <2>1, <2>2, <2>3 DEF StepNames
<1>4. ASSUME RollbackDone(disk, plan[x], before)
      PROVE  step \in {"dropRoot", "return", "returnAny", "dropStageAny", "dropRootAny", "clear"}
  BY <1>4, RollbackHeads DEF RollbackDone
<1>5. plan[x] = TreeGoesOnly => step = "dropRoot"
  BY Lefts
<1> QED
  BY <1>1, <1>2, <1>3, <1>4, <1>5 DEF Done, StepNames

\* What a step of a recovery leaves to do fits what it has done.
LEMMA RecoveryGoesOn ==
  ASSUME AnswerInv, ~overlap, NEW x \in Actor, Busy(x), doing[x] = "recover",
         NEW d \in After(x, Head(plan[x])), Tail(plan[x]) # <<>>
  PROVE  RecoveryDone(d, Tail(plan[x]), seen[x])
<1> DEFINE step == Head(plan[x])
           m == seen[x]
<1>1. /\ DiskTyped /\ m = disk.marker /\ m # NoTxn /\ m.txn = disk.txn /\ RecoveryDone(disk, plan[x], m)
      /\ step # "marker" /\ step # "examine"
  BY LocatedDone DEF Done, Busy
<1>2. step \in StepNames
  BY StepNamed
<1>3. CASE plan[x] = StageGoes /\ disk.backup = Absent
  <2>1. step = "dropStage" /\ Tail(plan[x]) = ClearLeft
    BY <1>3, Lefts
  <2>2. d.stage = Absent /\ KeepsTrees(d)
    BY <1>1, <1>2, <2>1, AfterIs, StageIs
  <2> QED
    BY <1>1, <1>3, <2>1, <2>2 DEF RecoveryDone, KeepsTrees, Bare
<1>4. CASE plan[x] = TreeComes /\ disk.backup = Absent
  <2>1. step = "activate" /\ Tail(plan[x]) = TreeCame
    BY <1>4, Lefts
  <2>2. d.stage = Absent /\ d.backup = disk.backup /\ KeepsMark(d)
    BY <1>1, <1>2, <2>1, AfterIs, StageIs
  <2> QED
    BY <1>1, <1>4, <2>1, <2>2 DEF RecoveryDone, KeepsMark, Bare
<1>10. CASE plan[x] = TreeReplaces
  <2>1. step = "activate" /\ Tail(plan[x]) = TreeReplaced
    BY <1>10, Lefts
  <2>2. d.stage = Absent /\ KeepsMark(d)
    BY <1>1, <1>2, <2>1, AfterIs, StageIs
  <2> QED
    BY <1>1, <2>1, <2>2 DEF RecoveryDone, KeepsMark
<1>5. CASE plan[x] = TreeCame /\ Bare(disk)
  <2>1. step = "verify" /\ Tail(plan[x]) = ClearLeft
    BY <1>5, Lefts
  <2>2. d.stage = disk.stage /\ KeepsTrees(d)
    BY <1>1, <1>2, <2>1, AfterIs, StageIs
  <2> QED
    BY <1>1, <1>5, <2>1, <2>2 DEF RecoveryDone, KeepsTrees, Bare
<1>6. CASE plan[x] = TreeGoes /\ Bare(disk)
  <2>1. step = "dropRoot" /\ Tail(plan[x]) = ClearLeft
    BY <1>6, Lefts
  <2>2. d.stage = disk.stage /\ d.backup = disk.backup /\ KeepsMark(d)
    BY <1>1, <1>2, <2>1, AfterIs, StageIs
  <2> QED
    BY <1>1, <1>6, <2>1, <2>2 DEF RecoveryDone, KeepsMark, Bare
<1>7. CASE plan[x] = TreeReplaced /\ disk.stage = Absent
  <2>1. step = "verify" /\ Tail(plan[x]) = DropBackupLeft
    BY <1>7, Lefts
  <2>2. d.stage = disk.stage /\ KeepsTrees(d)
    BY <1>1, <1>2, <2>1, AfterIs, StageIs
  <2> QED
    BY <1>1, <1>7, <2>1, <2>2 DEF RecoveryDone, KeepsTrees
<1>8. CASE plan[x] = DropBackupLeft /\ disk.stage = Absent
  <2>1. step = "dropBackup" /\ Tail(plan[x]) = ClearLeft
    BY <1>8, Lefts
  <2>2. d.stage = disk.stage /\ d.backup = Absent
    BY <1>1, <1>2, <2>1, StageIs
  <2>3. d.marker = disk.marker
    BY <1>1, <2>1, AfterIs DEF KeepsTrees, KeepsMark
  <2> QED
    BY <1>1, <1>8, <2>1, <2>2, <2>3 DEF RecoveryDone, Bare
<1>9. plan[x] \notin {MarkerFirst, ExamineFirst, ClearLeft}
  BY <1>1, Lefts
<1> QED
  BY <1>1, <1>3, <1>4, <1>5, <1>6, <1>7, <1>8, <1>9, <1>10 DEF RecoveryDone

\* The same for a write,
LEMMA WriteGoesOn ==
  ASSUME AnswerInv, ~overlap, NEW x \in Actor, Step(x), doing[x] = "work", Tail(plan[x]) # <<>>
  PROVE  task'.kind = "write" /\ WriteDone(disk', Tail(plan[x]), before', task') /\ x = "mat"
<1> DEFINE step == Head(plan[x])
           d == disk'
<1>1. DiskTyped /\ x = "mat" /\ plan[x] # TreeGoesOnly
      /\ Done(x, disk, doing[x], plan[x], before, task, seen[x]) /\ Busy(x)
  BY LocatedDone, Lefts, ZenonT(60) DEF Done, Step
<1>2. step \in StepNames /\ doing[x] # "recover" /\ d \in After(x, step)
  BY <1>1, StepNamed DEF Step
<1>3. task.kind = "write" /\ WriteDone(disk, plan[x], before, task)
  BY <1>1 DEF Done
<1>4. /\ step # "makeStage" => before' = before
      /\ step = "makeStage" => before' = disk.root
      /\ step # "prepare" => task' = task
      /\ step = "prepare" => task'.value = task.value /\ task'.existing = (disk.root # Absent) /\ task'.kind = task.kind
  BY DEF Step, AnswerInv, DirTyped
<1>5. task'.kind = "write" /\ Intended(x) = task.value
  BY <1>2, <1>3, <1>4 DEF Intended
<1>6. CASE plan[x] = AllLeft /\ Clean(disk)
  <2>1. step = "makeStage" /\ Tail(plan[x]) = FillLeft
    BY <1>6, Lefts
  <2>2. d.root = disk.root /\ d.backup = disk.backup
    BY <1>1, <1>2, <2>1, AfterIs
  <2> QED
    BY <1>1, <1>4, <1>5, <1>6, <2>1, <2>2 DEF WriteDone, Clean
<1>7. CASE plan[x] = FillLeft /\ disk.root = before /\ disk.backup = Absent
  <2>1. step = "fillStage" /\ Tail(plan[x]) = PrepareLeft
    BY <1>7, Lefts
  <2>2. KeepsTrees(d)
    BY <1>1, <1>2, <2>1, AfterIs
  <2> QED
    BY <1>1, <1>4, <1>5, <1>7, <2>1, <2>2 DEF WriteDone, KeepsTrees
<1>8. CASE plan[x] = PrepareLeft /\ disk.root = before /\ disk.backup = Absent
  <2>1. step = "prepare" /\ Tail(plan[x]) = ReviewLeft
    BY <1>8, Lefts
  <2>2. MarksOnly(d)
    BY <1>1, <1>2, <2>1, AfterIs
  <2> QED
    BY <1>1, <1>4, <1>5, <1>8, <2>1, <2>2 DEF WriteDone, MarksOnly
<1>9. CASE plan[x] = ReviewLeft /\ disk.root = before /\ disk.backup = Absent /\ (task.existing <=> before # Absent)
  <2>1. step = "review" /\ Tail(plan[x]) = SetAsideLeft
    BY <1>9, Lefts
  <2>2. KeepsTrees(d)
    BY <1>1, <1>2, <2>1, AfterIs
  <2> QED
    BY <1>1, <1>4, <1>5, <1>9, <2>1, <2>2 DEF WriteDone, KeepsTrees
<1>10. CASE plan[x] = SetAsideLeft /\ disk.root = before /\ disk.backup = Absent /\ (task.existing <=> before # Absent)
  <2>1. step = "setAside" /\ Tail(plan[x]) = BackedUpLeft
    BY <1>10, Lefts
  <2>2. IF ~task.existing THEN KeepsTrees(d) ELSE d.root = Absent /\ d.backup = disk.root
    BY <1>1, <1>2, <2>1, AfterIs
  <2> QED
    BY <1>1, <1>4, <1>5, <1>10, <2>1, <2>2 DEF WriteDone, KeepsTrees
<1>11. CASE plan[x] = BackedUpLeft /\ disk.root = Absent /\ disk.backup = before /\ (task.existing <=> before # Absent)
  <2>1. step = "backedUp" /\ Tail(plan[x]) = ActivateLeft
    BY <1>11, Lefts
  <2>2. d.backup = disk.backup
    BY <1>1, <1>2, <2>1, AfterIs DEF KeepsTrees, MarksOnly
  <2>3. task.existing => d.marker.phase = "backed-up"
    BY <1>1, <1>2, <2>1, StageIs
  <2> QED
    BY <1>1, <1>4, <1>5, <1>11, <2>1, <2>2, <2>3 DEF WriteDone
<1>12. CASE /\ plan[x] = ActivateLeft /\ disk.backup = before /\ (task.existing <=> before # Absent)
            /\ task.existing => disk.marker.phase = "backed-up"
  <2>1. step = "activate" /\ Tail(plan[x]) = VerifyLeft
    BY <1>12, Lefts
  <2>2. d.backup = disk.backup /\ d.marker = disk.marker /\ d.stage = Absent
    BY <1>1, <1>2, <2>1, AfterIs, StageIs DEF KeepsMark
  <2> QED
    BY <1>1, <1>4, <1>5, <1>12, <2>1, <2>2 DEF WriteDone
<1>13. CASE plan[x] = VerifyLeft /\ disk.stage = Absent /\ disk.backup = before /\ (task.existing <=> before # Absent)
  <2>1. step = "verify" /\ Tail(plan[x]) = ActivatedLeft
    BY <1>13, Lefts
  <2>2. KeepsTrees(d) /\ disk.root = task.value /\ d.stage = disk.stage
    BY <1>1, <1>2, <1>5, <2>1, AfterIs, StageIs
  <2> QED
    BY <1>1, <1>4, <1>5, <1>13, <2>1, <2>2 DEF WriteDone, KeepsTrees
<1>14. CASE /\ plan[x] = ActivatedLeft /\ disk.stage = Absent /\ disk.backup = before /\ disk.root = task.value
            /\ task.existing <=> before # Absent
  <2>1. step = "activated" /\ Tail(plan[x]) = DropBackupLeft
    BY <1>14, Lefts
  <2>2. MarksOnly(d) /\ d.stage = disk.stage
    BY <1>1, <1>2, <2>1, AfterIs, StageIs
  <2> QED
    BY <1>1, <1>4, <1>5, <1>14, <2>1, <2>2 DEF WriteDone, MarksOnly
<1>15. CASE /\ plan[x] = DropBackupLeft /\ disk.stage = Absent /\ disk.backup = before /\ disk.root = task.value
            /\ task.existing <=> before # Absent
  <2>1. step = "dropBackup" /\ Tail(plan[x]) = ClearLeft
    BY <1>15, Lefts
  <2>2. d.root = disk.root
    BY <1>1, <1>2, <2>1, AfterIs DEF KeepsTrees
  <2>3. d.stage = disk.stage /\ (d.backup = Absent \/ (~task.existing /\ d = disk))
    BY <1>1, <1>2, <2>1, StageIs
  <2> QED
    BY <1>1, <1>4, <1>5, <1>15, <2>1, <2>2, <2>3 DEF WriteDone, Bare
<1>16. plan[x] # ClearLeft
  BY Lefts
<1> QED
  BY <1>1, <1>3, <1>6, <1>7, <1>8, <1>9, <1>10, <1>11, <1>12, <1>13, <1>14, <1>15, <1>16 DEF WriteDone

\* and for a rollback.
LEMMA RollbackGoesOn ==
  ASSUME AnswerInv, ~overlap, NEW x \in Actor, Step(x), doing[x] = "undo", Tail(plan[x]) # <<>>
  PROVE  RollbackDone(disk', Tail(plan[x]), before') /\ x = "mat"
<1> DEFINE step == Head(plan[x])
           d == disk'
<1>1. DiskTyped /\ x = "mat" /\ RollbackDone(disk, plan[x], before) /\ Busy(x)
  BY LocatedDone DEF Done, Step
<1>2. step \in StepNames /\ doing[x] # "recover" /\ d \in After(x, step)
  BY <1>1, StepNamed DEF Step
<1>3. step # "makeStage"
  BY <1>1, Lefts DEF RollbackDone
<1>4. before' = before
  BY <1>3 DEF Step
<1>5. CASE plan[x] = MayReturn /\ Back(disk, before)
  <2>1. step = "returnAny" /\ Tail(plan[x]) = StageMayGo
    BY <1>5, Lefts
  <2>2. d.root \in {disk.root, disk.backup}
    BY <1>1, <1>2, <2>1, AfterIs DEF KeepsTrees
  <2>3. disk.root # Absent \/ disk.backup = Absent \/ d.root = disk.backup
    BY <1>1, <1>2, <2>1, StageIs
  <2>4. KeepsTrees(d) \/ disk.root = Absent
    BY <1>1, <1>2, <2>1, AfterIs
  <2> QED
    BY <1>1, <1>4, <1>5, <2>1, <2>2, <2>3, <2>4 DEF RollbackDone, Back, KeepsTrees
<1>6. CASE plan[x] = StageMayGo /\ disk.root = before
  <2>1. step = "dropStageAny" /\ Tail(plan[x]) = ClearLeft
    BY <1>6, Lefts
  <2>2. KeepsTrees(d)
    BY <1>1, <1>2, <2>1, AfterIs
  <2> QED
    BY <1>1, <1>4, <1>6, <2>1, <2>2 DEF RollbackDone, KeepsTrees
<1>7. CASE plan[x] = Returns /\ disk.backup = before
  <2>1. step = "return" /\ Tail(plan[x]) = StageMayGo
    BY <1>7, Lefts
  <2>2. d.root = disk.backup
    BY <1>1, <1>2, <2>1, AfterIs
  <2> QED
    BY <1>1, <1>4, <1>7, <2>1, <2>2 DEF RollbackDone
<1>8. CASE plan[x] = ReturnsClear /\ disk.backup = before
  <2>1. step = "return" /\ Tail(plan[x]) = ClearLeft
    BY <1>8, Lefts
  <2>2. d.root = disk.backup
    BY <1>1, <1>2, <2>1, AfterIs
  <2> QED
    BY <1>1, <1>4, <1>8, <2>1, <2>2 DEF RollbackDone
<1>9. CASE plan[x] = Exchange /\ disk.backup = before
  <2>1. step = "dropRoot" /\ Tail(plan[x]) = ReturnsClear
    BY <1>9, Lefts
  <2>2. d.backup = disk.backup
    BY <1>1, <1>2, <2>1, AfterIs
  <2> QED
    BY <1>1, <1>4, <1>9, <2>1, <2>2 DEF RollbackDone
<1>10. CASE plan[x] = ExchangeOnly /\ disk.backup = before /\ disk.stage = Absent /\ disk.marker.phase = "backed-up"
  <2>1. step = "dropRoot" /\ Tail(plan[x]) = ReturnsOnly
    BY <1>10, Lefts
  <2>2. d.backup = disk.backup /\ d.marker = disk.marker /\ d.stage = disk.stage
    BY <1>1, <1>2, <2>1, AfterIs, StageIs DEF KeepsMark
  <2> QED
    BY <1>1, <1>4, <1>10, <2>1, <2>2 DEF RollbackDone
<1>11. CASE plan[x] = TreeMayGo /\ before = Absent
  <2>1. step = "dropRootAny" /\ Tail(plan[x]) = StageMayGo
    BY <1>11, Lefts
  <2>2. d.root = Absent
    BY <1>1, <1>2, <2>1, StageIs
  <2> QED
    BY <1>1, <1>4, <1>11, <2>1, <2>2 DEF RollbackDone
<1>12. CASE plan[x] = TreeGoes /\ before = Absent
  <2>1. step = "dropRoot" /\ Tail(plan[x]) = ClearLeft
    BY <1>12, Lefts
  <2>2. d.root = Absent
    BY <1>1, <1>2, <2>1, AfterIs
  <2> QED
    BY <1>1, <1>4, <1>12, <2>1, <2>2 DEF RollbackDone
<1>13. plan[x] \notin {ReturnsOnly, ClearLeft}
  BY Lefts
<1> QED
  BY <1>1, <1>5, <1>6, <1>7, <1>8, <1>9, <1>10, <1>11, <1>12, <1>13 DEF RollbackDone

\* The last step of each leaves what is reported.
LEMMA LastStep ==
  ASSUME AnswerInv, ~overlap, NEW x \in Actor, Step(x), Tail(plan[x]) = <<>>
  PROVE  /\ UNCHANGED <<task, before>>
         /\ doing[x] = "recover" => Clean(disk') /\ disk'.root = disk.root
         /\ doing[x] = "work" => x = "mat" /\ Answer(disk', "ok", before, task)
         /\ doing[x] = "undo" => x = "mat" /\ Answer(disk', "restored", before, task)
<1> DEFINE step == Head(plan[x])
           d == disk'
<1>1. /\ DiskTyped /\ Busy(x) /\ Done(x, disk, doing[x], plan[x], before, task, seen[x])
      /\ doing[x] = "recover" => seen[x].txn = disk.txn
      /\ step # "marker" /\ step # "examine" /\ doing[x] \in {"recover", "work", "undo"}
  BY LocatedDone DEF Step, Busy
<1>2. step \in StepNames /\ d \in After(x, step)
  BY <1>1, StepNamed DEF Step
<1>3. /\ plan[x] \notin {MarkerFirst, ExamineFirst, StageGoes, TreeComes, TreeCame, TreeGoes, TreeReplaces, TreeReplaced,
                         DropBackupLeft}
      /\ plan[x] \notin {AllLeft, FillLeft, PrepareLeft, ReviewLeft, SetAsideLeft, BackedUpLeft, ActivateLeft, VerifyLeft,
                         ActivatedLeft}
  <2>1. plan[x] \notin {MarkerFirst, ExamineFirst, StageGoes, TreeComes, TreeCame, TreeGoes, TreeReplaces, TreeReplaced,
                         DropBackupLeft}
    <3>1. plan[x] \notin {MarkerFirst, ExamineFirst}
      BY <1>1, Lefts
    <3>2. plan[x] \notin {StageGoes, TreeComes, TreeCame, TreeGoes, TreeReplaces, TreeReplaced, DropBackupLeft}
      BY LongRecovery
    <3> QED
      BY <3>1, <3>2
  <2>2. plan[x] \notin {AllLeft, FillLeft, PrepareLeft, ReviewLeft, SetAsideLeft, BackedUpLeft, ActivateLeft, VerifyLeft,
                         ActivatedLeft}
    BY LongWrite
  <2> QED
    BY <2>1, <2>2
<1>4. plan[x] \notin {MayReturn, StageMayGo, Returns, TreeMayGo, Exchange, ReturnsClear, ExchangeOnly}
  BY LongRollback
<1>5. ASSUME plan[x] = ClearLeft
      PROVE  d.root = disk.root /\ d.backup = disk.backup /\ d.stage = disk.stage /\ d.marker = NoTxn /\ step = "clear"
  <2>1. step = "clear"
    BY <1>5, Lefts
  <2> QED
    BY <1>1, <1>2, <2>1, AfterIs, StageIs DEF MarksOnly
<1>6. CASE doing[x] = "recover"
  <2>1. plan[x] = ClearLeft /\ Bare(disk)
    BY <1>1, <1>3, <1>6 DEF Done, RecoveryDone
  <2> QED
    BY <1>5, <1>6, <2>1 DEF Clean, Bare, Step
<1>7. CASE doing[x] = "work" /\ task.kind = "write"
  <2>1. plan[x] = ClearLeft /\ Bare(disk) /\ disk.root = task.value /\ x = "mat"
    BY <1>1, <1>3, <1>7, Lefts DEF Done, WriteDone
  <2> QED
    BY <1>5, <1>7, <2>1 DEF Clean, Bare, Step, Answer
<1>8. CASE doing[x] = "work" /\ task.kind = "remove"
  <2>1. plan[x] = TreeGoesOnly /\ Clean(disk) /\ x = "mat"
    BY <1>1, <1>8 DEF Done
  <2>2. step = "dropRoot"
    BY <2>1, Lefts
  <2>3. d.root = Absent /\ d.backup = disk.backup /\ KeepsMark(d) /\ d.stage = disk.stage
    BY <1>1, <1>2, <1>8, <2>2, AfterIs, StageIs
  <2> QED
    BY <1>8, <2>1, <2>2, <2>3 DEF Clean, KeepsMark, Step, Answer
<1>9. CASE doing[x] = "undo"
  <2>1. x = "mat" /\ RollbackDone(disk, plan[x], before)
    BY <1>1, <1>9 DEF Done
  <2>2. CASE plan[x] = ClearLeft /\ disk.root = before
    BY <1>5, <1>9, <2>1, <2>2 DEF Step, Answer
  <2>3. CASE plan[x] = ReturnsOnly /\ disk.backup = before /\ disk.stage = Absent /\ disk.marker.phase = "backed-up"
    <3>1. step = "return"
      BY <2>3, Lefts
    <3>2. d.root = disk.backup /\ d.backup = Absent /\ d.marker = disk.marker /\ d.stage = disk.stage
      BY <1>1, <1>2, <3>1, AfterIs, StageIs DEF KeepsMark
    <3> QED
      BY <1>9, <2>1, <2>3, <3>1, <3>2 DEF Step, Answer, Bare
  <2> QED
    BY <1>3, <1>4, <2>1, <2>2, <2>3 DEF RollbackDone
<1> QED
  BY <1>1, <1>6, <1>7, <1>8, <1>9 DEF Done

\* A rollback begins with what its write had done.
LEMMA RollbackBegins ==
  ASSUME AnswerInv, ~overlap, NEW x \in Actor, Busy(x), doing[x] = "work",
         NEW d, d = disk \/ d \in Halfway(x, Head(plan[x])), TakeBack(Head(plan[x])) # <<>>
  PROVE  RollbackDone(d, TakeBack(Head(plan[x])), before) /\ x = "mat"
<1> DEFINE step == Head(plan[x])
<1>1. DiskTyped /\ x = "mat" /\ Done(x, disk, doing[x], plan[x], before, task, seen[x])
  BY LocatedDone DEF Done
<1>2. step \in {"setAside", "backedUp", "activate", "verify", "activated"} /\ doing[x] # "recover" /\ step \in StepNames
  BY StepNamed DEF TakeBack
<1>3. WriteDone(disk, plan[x], before, task)
  BY <1>1, <1>2, Lefts DEF Done
<1>4. d = disk \/ d \in After(x, step)
  BY <1>2 DEF Halfway
<1>5. CASE step = "setAside"
  <2>1. disk.root = before /\ disk.backup = Absent
    BY <1>3, <1>5, Lefts DEF WriteDone
  <2>2. TakeBack(step) = MayReturn
    BY <1>5 DEF TakeBack, MayReturn
  <2>3. KeepsTrees(d) \/ (d.root = Absent /\ d.backup = disk.root)
    BY <1>1, <1>2, <1>4, <1>5, AfterIs DEF KeepsTrees
  <2> QED
    BY <1>1, <2>1, <2>2, <2>3 DEF RollbackDone, Back, KeepsTrees
<1>6. CASE step = "backedUp"
  <2>1. disk.root = Absent /\ disk.backup = before
    BY <1>3, <1>6, Lefts DEF WriteDone
  <2>2. TakeBack(step) = MayReturn
    BY <1>6 DEF TakeBack, MayReturn
  <2>3. d.root = disk.root /\ d.backup = disk.backup
    BY <1>1, <1>2, <1>4, <1>6, AfterIs DEF KeepsTrees, MarksOnly
  <2> QED
    BY <1>1, <2>1, <2>2, <2>3 DEF RollbackDone, Back
<1>7. CASE step = "activate"
  <2>1. disk.backup = before /\ (task.existing <=> before # Absent)
    BY <1>3, <1>7, Lefts DEF WriteDone
  <2>2. TakeBack(step) = IF task.existing THEN Returns ELSE TreeMayGo
    BY <1>7 DEF TakeBack, Returns, TreeMayGo
  <2>3. d.backup = disk.backup
    BY <1>1, <1>2, <1>4, <1>7, AfterIs
  <2> QED
    BY <1>1, <2>1, <2>2, <2>3 DEF RollbackDone
<1>8. CASE step = "verify"
  <2>1. /\ disk.backup = before /\ disk.stage = Absent /\ (task.existing <=> before # Absent)
        /\ task.existing => disk.marker.phase = "backed-up"
    BY <1>3, <1>8, Lefts DEF WriteDone
  <2>2. TakeBack(step) = IF task.existing THEN ExchangeOnly ELSE TreeGoes
    BY <1>8 DEF TakeBack, ExchangeOnly, TreeGoes
  <2>3. d = disk
    BY <1>8 DEF Halfway
  <2> QED
    BY <1>1, <2>1, <2>2, <2>3 DEF RollbackDone
<1>9. CASE step = "activated"
  <2>1. disk.backup = before /\ (task.existing <=> before # Absent)
    BY <1>3, <1>9, Lefts DEF WriteDone
  <2>2. TakeBack(step) = IF task.existing THEN Exchange ELSE TreeGoes
    BY <1>9 DEF TakeBack, Exchange, TreeGoes
  <2>3. d.backup = disk.backup
    BY <1>1, <1>2, <1>4, <1>9, AfterIs DEF MarksOnly
  <2> QED
    BY <1>1, <2>1, <2>2, <2>3 DEF RollbackDone
<1> QED
  BY <1>2, <1>5, <1>6, <1>7, <1>8, <1>9

-----------------------------------------------------------------------------
\* What a step has to show when it gives an actor s to do next.
LEMMA DoAnswers ==
  ASSUME AnswerInv, ~overlap, overlap' \in BOOLEAN, NEW x \in Actor,
         \A y \in Actor \ {x} : doing[y] = "idle",
         NEW m \in {"recover", "work", "undo", "idle"}, NEW s, m = "idle" => s = <<>>, Do(x, m, s),
         disk' \in Disks, DOMAIN seen' = Actor, before' \in Content,
         task' \in [kind : {"none", "read", "write", "remove"}, value : Tree \union {Absent}, existing : BOOLEAN],
         task'.kind = "write" => task'.value \in Tree,
         OwnMarker(disk'),
         s # <<>> => Done(x, disk', m, s, before', task', seen'[x]),
         x = "mat" /\ s = <<>> /\ result' \in {"ok", "restored"} => Answer(disk', result', before', task'),
         x = "check" /\ result' \in {"ok", "restored"} =>
           Answer(disk', result', before', task') /\ s \in {<<>>, MarkerFirst, ExamineFirst}
  PROVE  AnswerInv'
<1>1. /\ DOMAIN plan = Actor /\ doing \in [Actor -> {"idle", "recover", "work", "undo"}]
      /\ \A y \in Actor : Done(y, disk, doing[y], plan[y], before, task, seen[y])
  BY DEF AnswerInv, DirTyped
<1>2. /\ DOMAIN plan' = Actor /\ doing' \in [Actor -> {"idle", "recover", "work", "undo"}]
      /\ plan'[x] = s /\ doing'[x] = (IF s = <<>> THEN "idle" ELSE m)
      /\ \A y \in Actor \ {x} : plan'[y] = plan[y] /\ doing'[y] = doing[y]
  BY <1>1 DEF Do
<1>3. DirTyped'
  BY <1>2 DEF DirTyped, DiskTyped
<1>4. \A y \in Actor \ {x} : doing'[y] = "idle" /\ plan'[y] = <<>>
  BY <1>1, <1>2 DEF Done
<1>5. Done(x, disk', doing'[x], plan'[x], before', task', seen'[x])
  <2>1. CASE s = <<>>
    BY <1>2, <2>1 DEF Done
  <2>2. CASE s # <<>>
    BY <1>2, <2>2
  <2> QED
    BY <2>1, <2>2
<1>6. doing'["mat"] = "idle" \/ doing'["check"] = "idle"
  BY <1>2 DEF Actor
<1>7. \A y \in Actor : Done(y, disk', doing'[y], plan'[y], before', task', seen'[y])
  BY <1>4, <1>5 DEF Done
<1>8. Answered'
  <2>1. CASE x = "mat"
    <3>1. plan'["check"] = <<>>
      BY <1>4, <2>1 DEF Actor
    <3>2. doing'["mat"] = "idle" => s = <<>>
      BY <1>2, <1>5, <2>1 DEF Done
    <3> QED
      BY <2>1, <3>1, <3>2 DEF Answered
  <2>2. CASE x = "check"
    BY <1>2, <2>2 DEF Answered
  <2> QED
    BY <2>1, <2>2 DEF Actor
<1> QED
  BY <1>3, <1>6, <1>7, <1>8 DEF AnswerInv

LEMMA OneActs ==
  ASSUME AnswerInv, ~overlap, NEW x \in Actor
  PROVE  /\ plan[x] # <<>> => doing[x] # "idle" /\ \A y \in Actor \ {x} : doing[y] = "idle"
         /\ plan["check"] # <<>> /\ result \in {"ok", "restored"} =>
              plan["check"] \in {MarkerFirst, ExamineFirst} /\ Answer(disk, result, before, task)
<1>1. plan[x] # <<>> => doing[x] # "idle" /\ \A y \in Actor \ {x} : doing[y] = "idle"
  BY DEF AnswerInv, Done, Actor
<1>2. ASSUME plan["check"] # <<>>, result \in {"ok", "restored"}
      PROVE  plan["check"] \in {MarkerFirst, ExamineFirst} /\ Answer(disk, result, before, task)
  <2>1. doing["check"] # "idle"
    BY <1>2 DEF AnswerInv, Done, Actor
  <2>2. doing["mat"] = "idle"
    BY <2>1 DEF AnswerInv
  <2> QED
    BY <1>2, <2>2 DEF AnswerInv, Answered
<1> QED
  BY <1>1, <1>2

\* An operation that ends with an answer, or a check that ends.
LEMMA EndAnswers ==
  ASSUME AnswerInv, ~overlap, UNCHANGED overlap, NEW x \in Actor, plan[x] # <<>>,
         NEW how, EndOp(x, how), disk' \in Disks, DOMAIN seen' = Actor, UNCHANGED <<task, before>>, OwnMarker(disk'),
         x = "mat" => Answer(disk', how, before, task),
         x = "check" => disk' = disk \/ result \notin {"ok", "restored"}
  PROVE  AnswerInv'
<1>1. \A y \in Actor \ {x} : doing[y] = "idle"
  BY OneActs
<1>2. Do(x, "idle", <<>>) /\ overlap' \in BOOLEAN /\ DirTyped /\ result' = (IF x = "mat" THEN how ELSE result)
  BY DEF EndOp, AnswerInv
<1>3. x = "mat" => Answer(disk', result', before', task')
  BY <1>2
<1>4. x = "check" /\ result' \in {"ok", "restored"} => Answer(disk', result', before', task')
  BY <1>2, OneActs
<1>5. OwnMarker(disk') /\ before' \in Content
  BY <1>2 DEF DirTyped
<1> QED
  BY <1>1, <1>2, <1>3, <1>4, <1>5, DoAnswers DEF DirTyped

\* After the recovery comes the work.
LEMMA RecoveredAnswers ==
  ASSUME AnswerInv, ~overlap, UNCHANGED overlap, NEW x \in Actor, plan[x] # <<>>, doing[x] = "recover",
         Recovered(x), disk' \in Disks, Clean(disk'), disk'.root = disk.root,
         DOMAIN seen' = Actor, UNCHANGED <<task, before>>,
         x = "check" => disk' = disk \/ result \notin {"ok", "restored"}
  PROVE  AnswerInv'
<1>1. \A y \in Actor \ {x} : doing[y] = "idle"
  BY OneActs
<1>2. overlap' \in BOOLEAN /\ DirTyped
  BY DEF AnswerInv
<1>3. OwnMarker(disk')
  BY DEF OwnMarker, Clean
<1>4. CASE x = "mat" /\ Work # <<>>
  <2>1. Do(x, "work", Work)
    BY <1>4 DEF Recovered
  <2>2. (task.kind = "write" /\ Work = AllLeft) \/ (task.kind = "remove" /\ Work = TreeGoesOnly)
    BY <1>4 DEF Work, AllLeft, TreeGoesOnly
  <2>3. Done(x, disk', "work", Work, before', task', seen'[x])
    BY <1>4, <2>2 DEF Done, WriteDone
  <2> QED
    BY <1>1, <1>2, <1>3, <1>4, <2>1, <2>3, DoAnswers DEF DirTyped
<1>5. CASE EndOp(x, "ok") /\ ~(x = "mat" /\ Work # <<>>)
  <2>1. x = "mat" => task.kind # "write" /\ (task.kind = "remove" => disk.root = Absent)
    BY <1>5 DEF Work
  <2>2. x = "mat" => Answer(disk', "ok", before, task)
    BY <2>1 DEF Answer
  <2> QED
    BY <1>3, <1>5, <2>2, EndAnswers
<1> QED
  BY <1>4, <1>5 DEF Recovered

LEMMA ReadMarkerAnswers ==
  ASSUME AnswerInv, ~overlap, NEW x \in Actor, ReadMarker(x)
  PROVE  AnswerInv'
<1>1. /\ plan[x] # <<>> /\ Head(plan[x]) = "marker" /\ DirTyped /\ OwnMarker(disk)
      /\ UNCHANGED <<disk, task, before, overlap>> /\ disk \in Disks /\ overlap' \in BOOLEAN
      /\ Done(x, disk, doing[x], plan[x], before, task, seen[x])
  BY DEF ReadMarker, NextIs, AnswerInv, DirTyped, DiskTyped
<1>2. /\ DOMAIN seen' = Actor /\ seen'[x] = disk.marker
  BY <1>1 DEF ReadMarker, DirTyped
<1>3. doing[x] # "idle" /\ \A y \in Actor \ {x} : doing[y] = "idle"
  BY <1>1, OneActs
<1>4. doing[x] = "recover"
  <2>1. doing[x] \in {"recover", "work", "undo"}
    BY <1>1, <1>3 DEF DirTyped
  <2>2. ~RollbackDone(disk, plan[x], before)
    BY <1>1, Lefts, ZenonT(60) DEF RollbackDone
  <2>3. plan[x] # TreeGoesOnly /\ ~WriteDone(disk, plan[x], before, task)
    <3>1. plan[x] \notin {TreeGoesOnly, AllLeft, FillLeft, PrepareLeft, ReviewLeft, SetAsideLeft}
      BY <1>1, Lefts
    <3>2. plan[x] \notin {BackedUpLeft, ActivateLeft, VerifyLeft, ActivatedLeft, DropBackupLeft, ClearLeft}
      BY <1>1, Lefts
    <3> QED
      BY <3>1, <3>2 DEF WriteDone
  <2> QED
    BY <1>1, <2>1, <2>2, <2>3 DEF Done
<1>5. CASE disk.marker # NoTxn
  <2>1. Do(x, "recover", ExamineFirst) /\ UNCHANGED result
    BY <1>5 DEF ReadMarker, ExamineFirst
  <2>2. Done(x, disk', "recover", ExamineFirst, before', task', seen'[x])
    BY <1>1, <1>2, <1>5 DEF Done, RecoveryDone
  <2>3. x = "check" /\ result' \in {"ok", "restored"} => Answer(disk', result', before', task')
    BY <1>1, <2>1, OneActs
  <2>4. ExamineFirst # <<>> /\ OwnMarker(disk')
    BY <1>1, Lefts
  <2> QED
    BY <1>1, <1>2, <1>3, <2>1, <2>2, <2>3, <2>4, DoAnswers DEF DirTyped
<1>6. CASE disk.marker = NoTxn /\ Clean(disk)
  <2>1. Recovered(x) /\ Clean(disk')
    BY <1>1, <1>6 DEF ReadMarker
  <2> QED
    BY <1>1, <1>2, <1>4, <1>6, <2>1, RecoveredAnswers
<1>7. CASE disk.marker = NoTxn /\ ~Clean(disk)
  <2>1. EndOp(x, "error")
    BY <1>7 DEF ReadMarker
  <2>2. Answer(disk', "error", before, task) /\ OwnMarker(disk')
    BY <1>1 DEF Answer
  <2> QED
    BY <1>1, <1>2, <2>1, <2>2, EndAnswers
<1> QED
  BY <1>5, <1>6, <1>7

\* What a recovery decides to do fits what it finds, and it finds nothing to do after a rollback
\* that was reported.
LEMMA RecoveryDecides ==
  ASSUME NEW m, m = disk.marker, m # NoTxn,
         NEW steps, steps = Recovery(m, disk.root, disk.stage, disk.backup), steps # <<>>
  PROVE  RecoveryDone(disk, steps, m) /\ ~(m.phase = "backed-up" /\ Bare(disk))
<1> DEFINE found == <<disk.root # Absent, disk.stage # Absent, disk.backup # Absent>>
<1>1. CASE m.phase = "prepared" /\ found = <<TRUE, TRUE, FALSE>> /\ disk.stage = m.intent
  <2>1. disk.backup = Absent
    BY <1>1
  <2> QED
    BY <1>1, <2>1 DEF Recovery, RecoveryDone, StageGoes
<1>2. CASE m.phase = "prepared" /\ found = <<FALSE, TRUE, FALSE>> /\ disk.stage = m.intent
  <2>1. disk.backup = Absent
    BY <1>2
  <2> QED
    BY <1>2, <2>1 DEF Recovery, RecoveryDone, TreeComes
<1>3. CASE m.phase = "prepared" /\ found = <<TRUE, FALSE, FALSE>> /\ disk.root = m.intent
  <2>1. Bare(disk)
    BY <1>3 DEF Bare
  <2> QED
    BY <1>3, <2>1 DEF Recovery, RecoveryDone, TreeGoes
<1>4. CASE m.phase = "backed-up" /\ found = <<FALSE, TRUE, TRUE>> /\ disk.stage = m.intent
  <2>1. ~Bare(disk)
    BY <1>4 DEF Bare
  <2> QED
    BY <1>4, <2>1 DEF Recovery, RecoveryDone, TreeReplaces
<1>5. CASE m.phase = "activated" /\ found = <<TRUE, FALSE, TRUE>> /\ disk.root = m.intent
  <2>1. disk.stage = Absent
    BY <1>5
  <2> QED
    BY <1>5, <2>1 DEF Recovery, RecoveryDone, DropBackupLeft
<1>6. CASE m.phase = "activated" /\ found = <<TRUE, FALSE, FALSE>> /\ disk.root = m.intent
  <2>1. Bare(disk)
    BY <1>6 DEF Bare
  <2> QED
    BY <1>6, <2>1 DEF Recovery, RecoveryDone, ClearLeft
<1> QED
  BY <1>1, <1>2, <1>3, <1>4, <1>5, <1>6 DEF Recovery

LEMMA ExamineAnswers ==
  ASSUME AnswerInv, ~overlap, NEW x \in Actor, Examine(x)
  PROVE  AnswerInv'
<1>1. /\ plan[x] # <<>> /\ Head(plan[x]) = "examine" /\ DirTyped /\ OwnMarker(disk)
      /\ UNCHANGED <<disk, seen, task, before, overlap>> /\ disk \in Disks /\ overlap' \in BOOLEAN
      /\ Done(x, disk, doing[x], plan[x], before, task, seen[x])
  BY DEF Examine, NextIs, AnswerInv, DirTyped, DiskTyped
<1>2. DOMAIN seen' = Actor /\ OwnMarker(disk')
  BY <1>1 DEF DirTyped
<1>3. doing[x] # "idle" /\ \A y \in Actor \ {x} : doing[y] = "idle"
  BY <1>1, OneActs
<1>4. doing[x] = "recover"
  <2>1. doing[x] \in {"recover", "work", "undo"}
    BY <1>1, <1>3 DEF DirTyped
  <2>2. ~RollbackDone(disk, plan[x], before)
    BY <1>1, Lefts, ZenonT(60) DEF RollbackDone
  <2>3. plan[x] # TreeGoesOnly /\ ~WriteDone(disk, plan[x], before, task)
    <3>1. plan[x] \notin {TreeGoesOnly, AllLeft, FillLeft, PrepareLeft, ReviewLeft, SetAsideLeft}
      BY <1>1, Lefts
    <3>2. plan[x] \notin {BackedUpLeft, ActivateLeft, VerifyLeft, ActivatedLeft, DropBackupLeft, ClearLeft}
      BY <1>1, Lefts
    <3> QED
      BY <3>1, <3>2 DEF WriteDone
  <2> QED
    BY <1>1, <2>1, <2>2, <2>3 DEF Done
<1>5. seen[x] = disk.marker /\ seen[x] # NoTxn
  <2>1. RecoveryDone(disk, plan[x], seen[x]) /\ plan[x] # MarkerFirst
    BY <1>1, <1>4, Lefts DEF Done
  <2> QED
    BY <2>1 DEF RecoveryDone
<1>6. seen[x].txn = disk.txn
  BY <1>1, <1>5 DEF OwnMarker
<1>7. Named(x, "stage") = disk.stage /\ Named(x, "backup") = disk.backup
  BY <1>6 DEF Named
<1> DEFINE steps == Recovery(seen[x], disk.root, disk.stage, disk.backup)
<1>8. CASE EndOp(x, "error")
  <2>1. Answer(disk', "error", before, task)
    BY DEF Answer
  <2> QED
    BY <1>1, <1>2, <1>8, <2>1, EndAnswers
<1>9. CASE steps # <<>> /\ Do(x, "recover", steps) /\ UNCHANGED result
  <2>1. RecoveryDone(disk, steps, seen[x]) /\ ~(seen[x].phase = "backed-up" /\ Bare(disk))
    BY <1>5, <1>9, RecoveryDecides
  <2>2. Done(x, disk', "recover", steps, before', task', seen'[x])
    BY <1>1, <2>1 DEF Done
  <2>3. x = "check" => result \notin {"ok", "restored"}
    BY <1>1, <1>5, <2>1, OneActs DEF Answer, Clean
  <2> HIDE DEF steps
  <2> QED
    BY <1>1, <1>2, <1>3, <1>9, <2>2, <2>3, DoAnswers DEF DirTyped
<1> QED
  BY <1>7, <1>8, <1>9 DEF Examine

\* The marker of a disk is of its transaction.
LEMMA MarkerOwned ==
  ASSUME AnswerInv, ~overlap, NEW x \in Actor, Busy(x),
         NEW d, d \in After(x, Head(plan[x])) \/ d \in Halfway(x, Head(plan[x]))
  PROVE  OwnMarker(d)
<1> DEFINE step == Head(plan[x])
<1>1. DiskTyped /\ OwnMarker(disk) /\ step \in StepNames /\ (doing[x] = "recover" => seen[x].txn = disk.txn)
      /\ Done(x, disk, doing[x], plan[x], before, task, seen[x]) /\ doing[x] \in {"recover", "work", "undo"}
  BY StepNamed, LocatedDone DEF AnswerInv
<1>2. step = "makeStage" => disk.marker = NoTxn
  <2> SUFFICES ASSUME step = "makeStage" PROVE disk.marker = NoTxn
    OBVIOUS
  <2>1. ~RecoveryDone(disk, plan[x], seen[x]) /\ ~RollbackDone(disk, plan[x], before) /\ plan[x] # TreeGoesOnly
    BY Lefts, ZenonT(60) DEF RecoveryDone, RollbackDone
  <2>2. WriteDone(disk, plan[x], before, task)
    BY <1>1, <2>1 DEF Done
  <2>3. plan[x] \notin {FillLeft, PrepareLeft, ReviewLeft, SetAsideLeft, BackedUpLeft, ActivateLeft, VerifyLeft,
                        ActivatedLeft, DropBackupLeft, ClearLeft}
    BY Lefts, ZenonT(60)
  <2> QED
    BY <2>2, <2>3 DEF WriteDone, Clean
<1>3. KeepsTrees(d) \/ KeepsMark(d) => OwnMarker(d)
  BY <1>1 DEF OwnMarker, KeepsTrees, KeepsMark
<1>4. ASSUME NEW phase, MarksOnly(d), d.marker = MarkAs(phase) PROVE OwnMarker(d)
  BY <1>4 DEF OwnMarker, MarksOnly, MarkAs
<1>5. ASSUME d \in After(x, step) PROVE OwnMarker(d)
  <2>1. CASE step = "makeStage"
    BY <1>1, <1>2, <1>5, <2>1, AfterIs DEF OwnMarker
  <2>2. CASE step \in {"prepare", "backedUp", "activated", "clear"}
    BY <1>1, <1>3, <1>4, <1>5, <2>2, AfterIs DEF OwnMarker
  <2>3. CASE step \in {"fillStage", "review", "dropStage", "dropStageAny", "verify", "setAside", "activate"}
    BY <1>1, <1>3, <1>5, <2>3, AfterIs
  <2>4. CASE step \in {"dropBackup", "dropRoot", "dropRootAny", "return", "returnAny"}
    BY <1>1, <1>3, <1>5, <2>4, AfterIs
  <2> QED
    BY <1>1, <2>1, <2>2, <2>3, <2>4 DEF StepNames
<1> QED
  BY <1>1, <1>3, <1>5, HalfwayIs

LEMMA StepAnswers ==
  ASSUME AnswerInv, ~overlap, NEW x \in Actor, Step(x)
  PROVE  AnswerInv'
<1> DEFINE step == Head(plan[x])
<1>1. /\ Busy(x) /\ DirTyped /\ plan[x] # <<>> /\ disk' \in After(x, step)
      /\ UNCHANGED <<seen, overlap>> /\ overlap' \in BOOLEAN /\ disk \in Disks /\ DOMAIN seen' = Actor
  BY DEF Step, Busy, AnswerInv, DirTyped, DiskTyped
<1>2. disk' \in Disks /\ OwnMarker(disk')
  BY <1>1, StepNamed, DisksTyped, MarkerOwned
<1>3. before' \in Content
  BY <1>1 DEF Step, DirTyped, Disks
<1>4. /\ task' \in [kind : {"none", "read", "write", "remove"}, value : Tree \union {Absent}, existing : BOOLEAN]
      /\ task'.kind = task.kind /\ task'.value = task.value
  <2>1. \A e \in BOOLEAN : LET t == [task EXCEPT !.existing = e] IN
          /\ t \in [kind : {"none", "read", "write", "remove"}, value : Tree \union {Absent}, existing : BOOLEAN]
          /\ t.kind = task.kind /\ t.value = task.value
    BY <1>1 DEF DirTyped
  <2>2. (disk.root # Absent) \in BOOLEAN
    OBVIOUS
  <2>3. CASE step = "prepare"
    <3>1. task' = [task EXCEPT !.existing = disk.root # Absent]
      BY <2>3 DEF Step
    <3> QED
      BY <2>1, <2>2, <3>1
  <2>4. CASE step # "prepare"
    <3>1. task' = task
      BY <2>4 DEF Step
    <3> QED
      BY <1>1, <3>1 DEF DirTyped
  <2> QED
    BY <2>3, <2>4
<1>5. task'.kind = "write" => task'.value \in Tree
  BY <1>1, <1>4 DEF DirTyped
<1>6. \A y \in Actor \ {x} : doing[y] = "idle"
  BY <1>1, OneActs
<1>7. doing[x] \in {"recover", "work", "undo"}
  BY <1>1, LocatedDone
<1>8. x = "check" => result \notin {"ok", "restored"}
  BY <1>1, OneActs, Lefts, ZenonT(60) DEF Busy
<1>9. CASE Tail(plan[x]) # <<>>
  <2>1. Do(x, doing[x], Tail(plan[x])) /\ UNCHANGED result
    BY <1>9 DEF Step, Proceed
  <2>2. doing[x] = "recover" => RecoveryDone(disk', Tail(plan[x]), seen'[x])
    BY <1>1, <1>9, RecoveryGoesOn
  <2>3. doing[x] = "work" => x = "mat" /\ task'.kind = "write" /\ WriteDone(disk', Tail(plan[x]), before', task')
    BY <1>9, WriteGoesOn
  <2>4. doing[x] = "undo" => x = "mat" /\ RollbackDone(disk', Tail(plan[x]), before')
    BY <1>9, RollbackGoesOn
  <2>5. Done(x, disk', doing[x], Tail(plan[x]), before', task', seen'[x])
    BY <1>7, <2>2, <2>3, <2>4 DEF Done
  <2>6. doing[x] \in {"recover", "work", "undo", "idle"} /\ doing[x] # "idle"
    BY <1>7
  <2>7. ~(x = "check" /\ result' \in {"ok", "restored"})
    BY <1>8, <2>1
  <2>8. DOMAIN seen' = Actor /\ overlap' \in BOOLEAN /\ disk' \in Disks /\ OwnMarker(disk')
    BY <1>1, <1>2
  <2> HIDE DEF step
  <2> QED
    BY <1>3, <1>4, <1>5, <1>6, <1>9, <2>1, <2>5, <2>6, <2>7, <2>8, DoAnswers
<1>10. CASE Tail(plan[x]) = <<>> /\ doing[x] = "recover"
  <2>1. Recovered(x)
    BY <1>10 DEF Step, Proceed
  <2>2. UNCHANGED <<task, before>> /\ Clean(disk') /\ disk'.root = disk.root
    BY <1>10, LastStep
  <2> QED
    BY <1>1, <1>2, <1>8, <1>10, <2>1, <2>2, RecoveredAnswers
<1>11. CASE Tail(plan[x]) = <<>> /\ doing[x] # "recover"
  <2> DEFINE how == IF doing[x] = "undo" THEN "restored" ELSE "ok"
  <2>1. EndOp(x, how)
    BY <1>11 DEF Step, Proceed
  <2>2. UNCHANGED <<task, before>> /\ Answer(disk', how, before, task) /\ x = "mat"
    BY <1>7, <1>11, LastStep
  <2> QED
    BY <1>1, <1>2, <2>1, <2>2, EndAnswers
<1> QED
  BY <1>9, <1>10, <1>11

LEMMA FailAnswers ==
  ASSUME AnswerInv, ~overlap, NEW x \in Actor, StepFails(x)
  PROVE  AnswerInv'
<1>1. Busy(x) /\ UNCHANGED <<seen, task, before, overlap>> /\ plan[x] # <<>>
  BY DEF StepFails, Busy
<1>2. PICK d : (d = disk \/ d \in Halfway(x, Head(plan[x]))) /\ FailsFrom(x, d)
  BY DEF StepFails
<1>3. DirTyped /\ disk \in Disks /\ OwnMarker(disk) /\ overlap' \in BOOLEAN /\ DOMAIN seen' = Actor
  BY <1>1 DEF AnswerInv, DirTyped, DiskTyped
<1>4. d \in Disks /\ OwnMarker(d)
  BY <1>1, <1>2, <1>3, StepNamed, DisksTyped, MarkerOwned
<1>5. \A y \in Actor \ {x} : doing[y] = "idle"
  BY <1>1, OneActs
<1>6. x = "check" => result \notin {"ok", "restored"}
  BY <1>1, OneActs, Lefts, ZenonT(60) DEF Busy
<1>7. CASE x = "mat" /\ doing[x] = "work" /\ TakeBack(Head(plan[x])) # <<>>
  <2> DEFINE steps == TakeBack(Head(plan[x]))
  <2>1. Do(x, "undo", steps) /\ disk' = d
    BY <1>2, <1>7 DEF FailsFrom
  <2>2. RollbackDone(d, steps, before)
    BY <1>1, <1>2, <1>7, RollbackBegins
  <2>3. Done(x, disk', "undo", steps, before', task', seen'[x])
    BY <1>1, <1>7, <2>1, <2>2 DEF Done
  <2>4. OwnMarker(disk') /\ disk' \in Disks /\ before' \in Content /\ x # "check" /\ steps # <<>>
    BY <1>1, <1>3, <1>4, <1>7, <2>1 DEF DirTyped
  <2>5. /\ task' \in [kind : {"none", "read", "write", "remove"}, value : Tree \union {Absent}, existing : BOOLEAN]
        /\ task'.kind = "write" => task'.value \in Tree
    BY <1>1, <1>3 DEF DirTyped
  <2> HIDE DEF steps
  <2> QED
    BY <1>3, <1>5, <2>1, <2>3, <2>4, <2>5, DoAnswers
<1>8. CASE ~(x = "mat" /\ doing[x] = "work" /\ TakeBack(Head(plan[x])) # <<>>)
  <2>1. EndOp(x, "error") /\ disk' \in Abandoned(d) \union {d}
    BY <1>2, <1>8 DEF FailsFrom
  <2>2. disk' \in Disks /\ OwnMarker(disk')
    <3>1. disk' = d \/ disk' = [d EXCEPT !.stage = Absent]
      BY <2>1 DEF Abandoned
    <3>2. disk' \in Disks /\ disk'.marker = d.marker /\ disk'.txn = d.txn
      BY <1>4, <3>1 DEF Disks, Content
    <3> QED
      BY <1>4, <3>2 DEF OwnMarker
  <2>3. Answer(disk', "error", before, task)
    BY DEF Answer
  <2> QED
    BY <1>1, <1>3, <1>6, <2>1, <2>2, <2>3, EndAnswers
<1> QED
  BY <1>7, <1>8

LEMMA KillAnswers ==
  ASSUME AnswerInv, ~overlap, NEW x \in Actor, KillActor(x)
  PROVE  AnswerInv'
<1>1. /\ plan[x] # <<>> /\ OwnMarker(disk) /\ disk \in Disks /\ EndOp(x, "none") /\ DirTyped
      /\ UNCHANGED <<seen, task, before, overlap>>
  BY DEF KillActor, AnswerInv, DirTyped, DiskTyped
<1>2. /\ disk' \in Disks /\ OwnMarker(disk')
      /\ x = "check" => disk' = disk \/ result \notin {"ok", "restored"}
  <2>1. CASE Busy(x)
    <3>1. disk' \in Halfway(x, Head(plan[x]))
      BY <2>1 DEF KillActor
    <3>2. x = "check" => result \notin {"ok", "restored"}
      BY <1>1, <2>1, OneActs, Lefts, ZenonT(60) DEF Busy
    <3> QED
      BY <1>1, <2>1, <3>1, <3>2, StepNamed, DisksTyped, MarkerOwned
  <2>2. CASE ~Busy(x)
    BY <1>1, <2>2 DEF KillActor
  <2> QED
    BY <2>1, <2>2
<1>3. Answer(disk', "none", before, task) /\ DOMAIN seen' = Actor
  BY <1>1 DEF Answer, DirTyped
<1> QED
  BY <1>1, <1>2, <1>3, EndAnswers

LEMMA StartAnswers ==
  ASSUME AnswerInv, ~overlap, ~overlap', NEW x \in Actor, Start(x), UNCHANGED <<disk, seen>>,
         before' \in {before, Absent},
         task' \in [kind : {"none", "read", "write", "remove"}, value : Tree \union {Absent}, existing : BOOLEAN],
         task'.kind = "write" => task'.value \in Tree,
         x = "check" => UNCHANGED <<result, before, task>>
  PROVE  AnswerInv'
<1>1. DirTyped /\ OwnMarker(disk) /\ disk \in Disks
  BY DEF AnswerInv, DirTyped, DiskTyped
<1>2. Do(x, "recover", MarkerFirst)
  BY DEF Start, MarkerFirst
<1>3. \A y \in Actor \ {x} : doing[y] = "idle"
  BY DEF Start
<1>4. Done(x, disk', "recover", MarkerFirst, before', task', seen'[x])
  BY DEF Done, RecoveryDone
<1>5. before' \in Content /\ OwnMarker(disk')
  BY <1>1 DEF DirTyped, Content
<1>6. overlap' \in BOOLEAN /\ MarkerFirst # <<>>
  BY Lefts DEF Start, AnswerInv
<1>7. x = "check" /\ result' \in {"ok", "restored"} => Answer(disk', result', before', task')
  BY <1>3 DEF AnswerInv, Answered, Actor
<1> QED
  BY <1>1, <1>2, <1>3, <1>4, <1>5, <1>6, <1>7, DoAnswers DEF DirTyped

LEMMA AnswerStepInv ==
  ASSUME AnswerInv, [DirNext]_dirVars
  PROVE  AnswerInv'
<1>0. overlap' \in BOOLEAN /\ (overlap => overlap')
  <2>1. overlap' = overlap \/ \E x \in Actor : Start(x)
    BY DEF dirVars, DirNext, readDirectorySource, removeDirectorySource, directorySourceExists, writeDirectorySource, Actor,
           ReadMarker, Examine, Step, StepFails, KillActor
  <2>2. ASSUME NEW x \in Actor, Start(x) PROVE overlap' \in BOOLEAN /\ (overlap => overlap')
    BY <2>2, Zenon DEF Start
  <2>3. overlap \in BOOLEAN
    BY DEF AnswerInv
  <2> QED
    BY <2>1, <2>2, <2>3
<1>1. CASE overlap'
  BY <1>0, <1>1 DEF AnswerInv
<1>2. ASSUME ~overlap' PROVE AnswerInv'
  <2>0. ~overlap /\ DirTyped
    BY <1>0, <1>2 DEF AnswerInv
  <2>1. CASE UNCHANGED dirVars
    BY <2>1 DEF dirVars, AnswerInv, DirTyped, DiskTyped, Answered
  <2>2. CASE readDirectorySource
    <3>1. task' = [kind |-> "read", value |-> Absent, existing |-> FALSE]
      BY <2>2 DEF readDirectorySource, NoTask
    <3>2. /\ task'.kind = "read"
          /\ task' \in [kind : {"none", "read", "write", "remove"}, value : Tree \union {Absent}, existing : BOOLEAN]
      BY <3>1
    <3>3. Start("mat") /\ UNCHANGED <<disk, seen>> /\ before' \in {before, Absent}
      BY <2>2 DEF readDirectorySource
    <3> QED
      BY <1>2, <2>0, <3>2, <3>3, StartAnswers DEF Actor
  <2>3. CASE removeDirectorySource
    <3>1. task' = [kind |-> "remove", value |-> Absent, existing |-> FALSE]
      BY <2>3 DEF removeDirectorySource, NoTask
    <3>2. /\ task'.kind = "remove"
          /\ task' \in [kind : {"none", "read", "write", "remove"}, value : Tree \union {Absent}, existing : BOOLEAN]
      BY <3>1
    <3>3. Start("mat") /\ UNCHANGED <<disk, seen>> /\ before' \in {before, Absent}
      BY <2>3 DEF removeDirectorySource
    <3> QED
      BY <1>2, <2>0, <3>2, <3>3, StartAnswers DEF Actor
  <2>4. CASE directorySourceExists
    BY <1>2, <2>0, <2>4, StartAnswers DEF directorySourceExists, Actor, DirTyped
  <2>5. ASSUME NEW value \in Tree, writeDirectorySource(value) PROVE AnswerInv'
    <3>1. task' = [kind |-> "write", value |-> value, existing |-> FALSE]
      BY <2>5 DEF writeDirectorySource
    <3> QED
      BY <1>2, <2>0, <2>5, <3>1, StartAnswers DEF writeDirectorySource, Actor
  <2>6. ASSUME NEW x \in Actor, ReadMarker(x) \/ Examine(x) \/ Step(x) \/ StepFails(x) \/ KillActor(x)
        PROVE  AnswerInv'
    BY <2>0, <2>6, ReadMarkerAnswers, ExamineAnswers, StepAnswers, FailAnswers, KillAnswers
  <2> QED
    BY <2>1, <2>2, <2>3, <2>4, <2>5, <2>6 DEF DirNext
<1> QED
  BY <1>1, <1>2

LEMMA AnswerInitInv == DirInit => AnswerInv
<1> SUFFICES ASSUME DirInit PROVE AnswerInv
  OBVIOUS
<1>1. disk \in Disks /\ disk.marker = NoTxn
  BY DEF DirInit, Disks, Content, NoTxn
<1>2. NoTask \in [kind : {"none", "read", "write", "remove"}, value : Tree \union {Absent}, existing : BOOLEAN]
  BY DEF NoTask
<1>3. DirTyped
  BY <1>1, <1>2 DEF DirInit, DirTyped, DiskTyped, NoTask, Content
<1>4. \A x \in Actor : Done(x, disk, doing[x], plan[x], before, task, seen[x]) /\ doing[x] = "idle"
  BY DEF DirInit, Done
<1> QED
  BY <1>1, <1>3, <1>4 DEF AnswerInv, DirInit, Actor, OwnMarker, Answered

\* An operation on a directory source that reports success, a removal or a rollback left the disk
\* as it says, whatever failed and was killed before, also if the tree was live already.
THEOREM DirectoryAnswers == DirSpec => []DirectoryTruthful
<1>1. AnswerInv /\ [DirNext]_dirVars => AnswerInv'
  BY AnswerStepInv
<1>2. AnswerInv => DirectoryTruthful
  BY DEF AnswerInv, Answered, Answer, DirectoryTruthful
<1> QED
  BY <1>1, <1>2, AnswerInitInv, PTL DEF DirSpec

-----------------------------------------------------------------------------
(* CommandRunner: the replies of commands *)

LEMMA EmptySize == SizeOf(<<>>) = 0
<1>1. Utf8(<<>>) = {}
  BY DEF Utf8
<1> QED
  BY <1>1, FS_EmptySet DEF SizeOf

\* A character adds its width to the bytes of an output.
LEMMA AppendSize ==
  ASSUME NEW chars \in Seq(1..3), NEW width \in 1..3
  PROVE  SizeOf(Append(chars, width)) = SizeOf(chars) + width /\ SizeOf(chars) \in Nat
<1> DEFINE n == Len(chars) + 1
           S == Utf8(chars)
<1>1. /\ Append(chars, width) \in Seq(1..3) /\ Len(Append(chars, width)) = n
      /\ Append(chars, width)[n] = width
      /\ \A i \in 1..Len(chars) : Append(chars, width)[i] = chars[i]
      /\ n \in Nat /\ DOMAIN chars = 1..(n - 1) /\ DOMAIN Append(chars, width) = 1..n
  OBVIOUS
<1>2. IsFiniteSet(S)
  <2>1. IsFiniteSet((1..(n - 1)) \X (1..3))
    <3>1. \A a, b \in Int : IsFiniteSet(a..b)
      BY FS_Interval
    <3>2. 1 \in Int /\ 3 \in Int /\ n - 1 \in Int
      BY <1>1
    <3> HIDE DEF n
    <3>3. IsFiniteSet(1..(n - 1)) /\ IsFiniteSet(1..3)
      BY <3>1, <3>2
    <3> QED
      BY <3>3, FS_Product
  <2>2. S \subseteq (1..(n - 1)) \X (1..3)
    BY <1>1 DEF Utf8
  <2> QED
    BY <2>1, <2>2, FS_Subset
<1>3. \A b : <<n, b>> \notin S
  BY <1>1 DEF Utf8
<1>4. Utf8(Append(chars, width)) = S \union {<<n, b>> : b \in 1..width}
  <2> DEFINE new == Append(chars, width)
  <2>1. ASSUME NEW byte \in Utf8(new) PROVE byte \in S \union {<<n, b>> : b \in 1..width}
    <3>1. PICK i \in 1..n, b \in 1..3 : byte = <<i, b>> /\ b <= new[i]
      BY <1>1, <2>1 DEF Utf8
    <3>2. CASE i = n
      BY <1>1, <3>1, <3>2
    <3>3. CASE i # n
      <4>1. i \in 1..(n - 1) /\ b <= chars[i]
        BY <1>1, <3>1, <3>3
      <4> QED
        BY <1>1, <3>1, <4>1 DEF Utf8
    <3> QED
      BY <3>2, <3>3
  <2>2. ASSUME NEW byte \in S PROVE byte \in Utf8(new)
    <3>1. PICK i \in 1..(n - 1), b \in 1..3 : byte = <<i, b>> /\ b <= chars[i]
      BY <1>1, <2>2 DEF Utf8
    <3>2. i \in DOMAIN new /\ b <= new[i]
      BY <1>1, <3>1
    <3> QED
      BY <3>1, <3>2 DEF Utf8
  <2>3. ASSUME NEW b \in 1..width PROVE <<n, b>> \in Utf8(new)
    <3>1. n \in DOMAIN new /\ b \in 1..3 /\ b <= new[n]
      BY <1>1
    <3> QED
      BY <3>1 DEF Utf8
  <2> QED
    BY <2>1, <2>2, <2>3
<1> DEFINE OneMore == S \union {<<n, 1>>}
           TwoMore == OneMore \union {<<n, 2>>}
           ThreeMore == TwoMore \union {<<n, 3>>}
<1>5. /\ IsFiniteSet(OneMore) /\ Cardinality(OneMore) = Cardinality(S) + 1
      /\ IsFiniteSet(TwoMore) /\ Cardinality(TwoMore) = Cardinality(S) + 2
      /\ IsFiniteSet(ThreeMore) /\ Cardinality(ThreeMore) = Cardinality(S) + 3
      /\ Cardinality(S) \in Nat
  <2>0. <<n, 1>> \notin S /\ <<n, 2>> \notin S /\ <<n, 3>> \notin S
    BY <1>3
  <2> HIDE DEF S, n
  <2>1. IsFiniteSet(OneMore) /\ Cardinality(OneMore) = Cardinality(S) + 1 /\ Cardinality(S) \in Nat
    BY <1>2, <2>0, FS_AddElement, FS_CardinalityType
  <2>2. <<n, 2>> \notin OneMore
    BY <2>0
  <2> HIDE DEF OneMore
  <2>3. IsFiniteSet(TwoMore) /\ Cardinality(TwoMore) = Cardinality(OneMore) + 1
    BY <2>1, <2>2, FS_AddElement
  <2>4. <<n, 3>> \notin TwoMore
    BY <2>0 DEF OneMore
  <2> HIDE DEF TwoMore
  <2>5. IsFiniteSet(ThreeMore) /\ Cardinality(ThreeMore) = Cardinality(TwoMore) + 1
    BY <2>3, <2>4, FS_AddElement
  <2> QED
    BY <2>1, <2>3, <2>5
<1>6. /\ width = 1 => Utf8(Append(chars, width)) = OneMore
      /\ width = 2 => Utf8(Append(chars, width)) = TwoMore
      /\ width = 3 => Utf8(Append(chars, width)) = ThreeMore
  <2>1. 1..1 = {1} /\ 1..2 = {1, 2} /\ 1..3 = {1, 2, 3}
    OBVIOUS
  <2> HIDE DEF S, n
  <2> QED
    BY <1>4, <2>1
<1>7. width \in {1, 2, 3}
  OBVIOUS
<1> HIDE DEF S, OneMore, TwoMore, ThreeMore
<1> QED
  BY <1>5, <1>6, <1>7 DEF SizeOf, S

Garbled(chars) == \E n \in DOMAIN chars : chars[n] = Replacement

CommandTyped ==
  /\ child \in [state : {"none", "running", "exited"}, code : {0, 1, NoExit}, signalled : BOOLEAN,
                killed : BOOLEAN]
  /\ wrote \in Seq({1, 2}) /\ stdout \in Seq(1..3) /\ arrived \in 0..Len(wrote)
  /\ reply \in [code : {0, 1, NoExit, 124}, stdout : Seq(1..3), timedOut : BOOLEAN, settled : BOOLEAN]

\* What has arrived is what was collected, unless the reply shows that it is not.
Exact ==
  \/ outputTruncated \/ MaxOutput = 0 \/ Garbled(stdout)
  \/ ~torn /\ Len(stdout) = arrived /\ \A n \in 1..arrived : stdout[n] = wrote[n]

\* The reply and the child, when the call is settled and before.
Settled ==
  /\ reply.settled =>
       /\ child.state = "exited"
       /\ reply.code = 0 =>
            child.code = 0 /\ ~child.killed /\ arrived = Len(wrote) /\ reply.stdout = stdout
       /\ reply.code = 124 => reply.timedOut
       /\ child.killed => reply.code = 124
  /\ child.killed => reply.settled

CommandInv ==
  /\ CommandTyped /\ Exact /\ Settled
  /\ torn => outputTruncated \/ MaxOutput = 0 \/ Garbled(stdout)
  /\ SizeOf(stdout) <= MaxOutput /\ SizeOf(reply.stdout) <= MaxOutput

\* What appendCapped makes of the output.
LEMMA Capped ==
  ASSUME CommandInv, NEW width \in 1..3, appendCapped(width)
  PROVE  /\ stdout' \in Seq(1..3) /\ SizeOf(stdout') <= MaxOutput
         /\ outputTruncated => outputTruncated'
         /\ Garbled(stdout) => Garbled(stdout')
         /\ outputTruncated' \/ MaxOutput = 0 \/ stdout' = Append(stdout, width)
<1>1. stdout \in Seq(1..3) /\ SizeOf(stdout) <= MaxOutput /\ MaxOutput \in Nat
  BY CommandAssumption DEF CommandInv, CommandTyped
<1>2. SizeOf(Append(stdout, width)) = SizeOf(stdout) + width
  BY <1>1, AppendSize
<1>3. \/ stdout' = Append(stdout, width) /\ SizeOf(stdout) + width <= MaxOutput
      \/ stdout' = stdout
  BY DEF appendCapped
<1>4. stdout' \in Seq(1..3) /\ SizeOf(stdout') <= MaxOutput
  <2>1. CASE stdout' = Append(stdout, width) /\ SizeOf(stdout) + width <= MaxOutput
    <3>1. SizeOf(stdout') = SizeOf(Append(stdout, width))
      BY <2>1
    <3> QED
      BY <1>1, <1>2, <2>1, <3>1
  <2>2. CASE stdout' = stdout
    BY <1>1, <2>2
  <2> QED
    BY <1>3, <2>1, <2>2
<1>5. Garbled(stdout) => Garbled(stdout')
  <2>1. \A i \in DOMAIN stdout : i \in DOMAIN stdout' /\ stdout'[i] = stdout[i]
    BY <1>1, <1>3
  <2> QED
    BY <2>1 DEF Garbled
<1>6. /\ outputTruncated => outputTruncated'
      /\ outputTruncated' \/ MaxOutput = 0 \/ stdout' = Append(stdout, width)
  <2>1. SizeOf(stdout) + width <= MaxOutput \/ ~(SizeOf(stdout) + width <= MaxOutput)
    OBVIOUS
  <2>2. MaxOutput = 0 \/ MaxOutput > 0
    BY <1>1
  <2> QED
    BY <2>1, <2>2, Zenon DEF appendCapped
<1> QED
  BY <1>4, <1>5, <1>6

LEMMA DataInv ==
  ASSUME CommandInv, Data
  PROVE  CommandInv'
<1> DEFINE width == wrote[arrived + 1]
           Marked == outputTruncated \/ MaxOutput = 0 \/ Garbled(stdout)
<1>1. CommandTyped /\ Exact /\ Settled /\ arrived < Len(wrote) /\ UNCHANGED <<child, wrote, timer, reply>>
  BY DEF Data, CommandInv
<1>2. width \in {1, 2} /\ arrived + 1 \in 1..Len(wrote) /\ arrived \in Nat /\ stdout \in Seq(1..3)
  BY <1>1 DEF CommandTyped
<1>3. reply.settled => reply.code # 0
  BY <1>1, <1>2 DEF Settled, CommandTyped
<1>4. CASE ~torn /\ appendCapped(width) /\ arrived' = arrived + 1 /\ UNCHANGED torn
  <2>1. /\ stdout' \in Seq(1..3) /\ SizeOf(stdout') <= MaxOutput /\ (Marked => Marked')
        /\ outputTruncated' \/ MaxOutput = 0 \/ stdout' = Append(stdout, width)
    BY <1>2, <1>4, Capped DEF Garbled
  <2>2. Exact'
    <3>1. CASE Marked'
      BY <3>1 DEF Exact
    <3>2. CASE ~Marked'
      <4>1. stdout' = Append(stdout, width) /\ Len(stdout) = arrived /\ \A i \in 1..arrived : stdout[i] = wrote[i]
        BY <1>1, <2>1, <3>2 DEF Exact
      <4>2. Len(stdout') = arrived' /\ \A i \in 1..arrived' : stdout'[i] = wrote'[i]
        BY <1>1, <1>2, <1>4, <4>1
      <4> QED
        BY <1>4, <4>2 DEF Exact
    <3> QED
      BY <3>1, <3>2
  <2> QED
    BY <1>1, <1>2, <1>3, <1>4, <2>1, <2>2 DEF CommandInv, CommandTyped, Settled
<1>5. CASE /\ width = 2 /\ appendCapped(Replacement)
           /\ arrived' = (IF torn THEN arrived + 1 ELSE arrived) /\ torn' = ~torn
  <2>1. /\ stdout' \in Seq(1..3) /\ SizeOf(stdout') <= MaxOutput
        /\ outputTruncated' \/ MaxOutput = 0 \/ stdout' = Append(stdout, Replacement)
    BY <1>5, Capped DEF Replacement
  <2>2. stdout' = Append(stdout, Replacement) => Garbled(stdout')
    <3>1. Append(stdout, Replacement)[Len(stdout) + 1] = Replacement
          /\ Len(stdout) + 1 \in DOMAIN Append(stdout, Replacement)
      BY <1>2 DEF Replacement
    <3> QED
      BY <3>1 DEF Garbled
  <2>3. Marked'
    BY <2>1, <2>2
  <2>4. arrived' \in 0..Len(wrote)
    BY <1>2, <1>5
  <2> QED
    BY <1>1, <1>3, <2>1, <2>3, <2>4 DEF CommandInv, CommandTyped, Settled, Exact
<1> QED
  BY <1>4, <1>5 DEF Data

\* The other steps collect nothing.
LEMMA StillExact ==
  ASSUME CommandInv, UNCHANGED <<arrived, torn, stdout, outputTruncated>>,
         wrote' = wrote \/ \E width \in {1, 2} : wrote' = Append(wrote, width)
  PROVE  /\ Exact' /\ (torn' => outputTruncated' \/ MaxOutput = 0 \/ Garbled(stdout'))
         /\ SizeOf(stdout') <= MaxOutput
         /\ wrote' \in Seq({1, 2}) /\ stdout' \in Seq(1..3) /\ arrived' \in 0..Len(wrote')
<1>1. /\ wrote \in Seq({1, 2}) /\ stdout \in Seq(1..3) /\ arrived \in 0..Len(wrote) /\ Exact
      /\ SizeOf(stdout) <= MaxOutput /\ (torn => outputTruncated \/ MaxOutput = 0 \/ Garbled(stdout))
  BY DEF CommandInv, CommandTyped
<1>2. wrote' \in Seq({1, 2}) /\ arrived \in 0..Len(wrote') /\ \A i \in 1..arrived : wrote'[i] = wrote[i]
  <2>1. CASE wrote' = wrote
    BY <1>1, <2>1
  <2>2. ASSUME NEW width \in {1, 2}, wrote' = Append(wrote, width)
        PROVE  wrote' \in Seq({1, 2}) /\ arrived \in 0..Len(wrote') /\ \A i \in 1..arrived : wrote'[i] = wrote[i]
    <3>1. /\ Append(wrote, width) \in Seq({1, 2}) /\ Len(Append(wrote, width)) = Len(wrote) + 1
          /\ \A i \in 1..Len(wrote) : Append(wrote, width)[i] = wrote[i]
      BY <1>1
    <3> QED
      BY <1>1, <2>2, <3>1
  <2> QED
    BY <2>1, <2>2
<1> QED
  BY <1>1, <1>2 DEF Exact, Garbled

LEMMA SettleInv ==
  ASSUME CommandInv, NEW code \in {0, 1, NoExit, 124}, Settle(code), child.state = "exited",
         UNCHANGED <<child, wrote, arrived, torn, stdout, outputTruncated>>,
         code = 0 => child.code = 0 /\ arrived = Len(wrote),
         code = 124 => timer = "fired"
  PROVE  CommandInv'
<1>1. CommandTyped /\ Settled /\ SizeOf(stdout) <= MaxOutput /\ SizeOf(reply.stdout) <= MaxOutput
  BY DEF CommandInv
<1>2. CASE reply.settled
  <2>1. UNCHANGED reply
    BY <1>2 DEF Settle
  <2> QED
    BY <1>1, <2>1, StillExact DEF CommandInv, CommandTyped, Settled
<1>3. CASE ~reply.settled
  <2>1. reply' = [code |-> code, stdout |-> stdout, timedOut |-> timer = "fired", settled |-> TRUE]
    BY <1>3 DEF Settle
  <2>2. (timer = "fired") \in BOOLEAN
    OBVIOUS
  <2>3. \A b \in BOOLEAN : LET r == [code |-> code, stdout |-> stdout, timedOut |-> b, settled |-> TRUE]
          IN /\ r \in [code : {0, 1, NoExit, 124}, stdout : Seq(1..3), timedOut : BOOLEAN, settled : BOOLEAN]
             /\ r.code = code /\ r.stdout = stdout /\ r.settled /\ r.timedOut = b
    BY <1>1 DEF CommandTyped
  <2>4. /\ reply' \in [code : {0, 1, NoExit, 124}, stdout : Seq(1..3), timedOut : BOOLEAN, settled : BOOLEAN]
        /\ reply'.code = code /\ reply'.stdout = stdout /\ reply'.settled /\ reply'.timedOut = (timer = "fired")
    BY <2>1, <2>2, <2>3
  <2>5. ~child.killed
    BY <1>1, <1>3 DEF Settled
  <2> QED
    BY <1>1, <2>4, <2>5, StillExact DEF CommandInv, CommandTyped, Settled
<1> QED
  BY <1>2, <1>3

LEMMA CommandStepInv ==
  ASSUME CommandInv, [CommandNext]_commandVars
  PROVE  CommandInv'
<1>1. CommandTyped /\ Settled /\ SizeOf(stdout) <= MaxOutput /\ SizeOf(reply.stdout) <= MaxOutput
  BY DEF CommandInv
<1>2. CASE UNCHANGED commandVars
  <2>1. UNCHANGED <<child, wrote, arrived, torn, stdout, outputTruncated, timer, reply>>
    BY <1>2 DEF commandVars
  <2> QED
    BY <1>1, <2>1, StillExact DEF CommandInv, CommandTyped, Settled
<1>3. CASE Spawn
  <2>1. /\ UNCHANGED <<wrote, arrived, torn, stdout, outputTruncated>> /\ child.state = "none" /\ ~reply.settled
        /\ ~child.killed
    BY <1>1, <1>3 DEF Spawn, Settled
  <2>2. CASE child' = [child EXCEPT !.state = "running"] /\ UNCHANGED reply
    BY <1>1, <2>1, <2>2, StillExact DEF CommandInv, CommandTyped, Settled
  <2>3. CASE /\ child' = [child EXCEPT !.state = "exited", !.code = NoExit]
             /\ reply' = [Pending EXCEPT !.code = NoExit, !.settled = TRUE]
    <3>1. /\ reply' = [code |-> NoExit, stdout |-> <<>>, timedOut |-> FALSE, settled |-> TRUE]
          /\ child' \in [state : {"exited"}, code : {NoExit}, signalled : BOOLEAN, killed : BOOLEAN]
          /\ child'.killed = child.killed
      BY <1>1, <2>3 DEF Pending, CommandTyped
    <3>2. SizeOf(reply'.stdout) <= MaxOutput
      BY <3>1, EmptySize, CommandAssumption
    <3>3. NoExit \notin {0, 124}
      BY DEF NoExit
    <3> QED
      BY <1>1, <2>1, <3>1, <3>2, <3>3, StillExact DEF CommandInv, CommandTyped, Settled
  <2> QED
    BY <1>3, <2>2, <2>3 DEF Spawn
<1>4. CASE Writes
  <2>1. /\ UNCHANGED <<child, arrived, torn, stdout, outputTruncated, timer, reply>> /\ child.state = "running"
        /\ \E width \in {1, 2} : wrote' = Append(wrote, width)
    BY <1>4 DEF Writes
  <2> QED
    BY <1>1, <2>1, StillExact DEF CommandInv, CommandTyped, Settled
<1>5. CASE Exits
  <2>1. /\ UNCHANGED <<wrote, arrived, torn, stdout, outputTruncated, timer, reply>> /\ child.state = "running"
        /\ \E code \in {0, 1, NoExit} : child' = [child EXCEPT !.state = "exited", !.code = code]
    BY <1>5 DEF Exits
  <2> QED
    BY <1>1, <2>1, StillExact, ZenonT(60) DEF CommandInv, CommandTyped, Settled
<1>6. CASE Data
  BY <1>6, DataInv
<1>7. CASE Close
  <2> DEFINE code == IF child.code = NoExit /\ timer = "fired" THEN 124 ELSE child.code
  <2>1. /\ code \in {0, 1, NoExit, 124} /\ (code = 0 => child.code = 0) /\ (code = 124 => timer = "fired")
    BY <1>1 DEF CommandTyped, NoExit
  <2>2. /\ Settle(code) /\ child.state = "exited" /\ arrived = Len(wrote)
        /\ UNCHANGED <<child, wrote, arrived, torn, stdout, outputTruncated>>
    BY <1>7 DEF Close
  <2> HIDE DEF code
  <2> QED
    BY <2>1, <2>2, SettleInv
<1>8. CASE TimeoutFires
  <2>1. /\ UNCHANGED <<wrote, arrived, torn, stdout, outputTruncated, reply>>
        /\ child' = [child EXCEPT !.signalled = TRUE] /\ ~reply.settled
    BY <1>8 DEF TimeoutFires
  <2> QED
    BY <1>1, <2>1, StillExact DEF CommandInv, CommandTyped, Settled
<1>9. CASE Escalate
  <2>1. UNCHANGED <<wrote, arrived, torn, stdout, outputTruncated>>
    BY <1>9 DEF Escalate
  <2>2. CASE reply.settled
    <3>1. UNCHANGED <<child, reply>>
      BY <1>9, <2>2 DEF Escalate
    <3> QED
      BY <1>1, <2>1, <3>1, StillExact DEF CommandInv, CommandTyped, Settled
  <2>3. CASE ~reply.settled
    <3>1. /\ reply' = [code |-> 124, stdout |-> stdout, timedOut |-> TRUE, settled |-> TRUE]
          /\ child' = [child EXCEPT !.killed = TRUE, !.state = "exited",
                                    !.code = IF child.state = "running" THEN NoExit ELSE @]
      BY <1>9, <2>3 DEF Escalate
    <3>2. child' \in [state : {"exited"}, code : {0, 1, NoExit}, signalled : BOOLEAN, killed : BOOLEAN]
      BY <1>1, <3>1 DEF CommandTyped
    <3> QED
      BY <1>1, <2>1, <3>1, <3>2, StillExact DEF CommandInv, CommandTyped, Settled
  <2> QED
    BY <2>2, <2>3
<1> QED
  BY <1>2, <1>3, <1>4, <1>5, <1>6, <1>7, <1>8, <1>9 DEF CommandNext

LEMMA CommandInitInv == CommandInit => CommandInv
<1> SUFFICES ASSUME CommandInit PROVE CommandInv
  OBVIOUS
<1>1. SizeOf(stdout) <= MaxOutput /\ SizeOf(reply.stdout) <= MaxOutput
  BY EmptySize, CommandAssumption DEF CommandInit, Pending
<1> QED
  BY <1>1 DEF CommandInit, CommandInv, CommandTyped, Settled, Exact, Pending

THEOREM RepliesTruthful == CommandSpec => []CommandTruthful
<1>1. CommandInv => CommandTruthful
  <2> SUFFICES ASSUME CommandInv, reply.settled PROVE CommandTruthful
    BY DEF CommandTruthful
  <2>1. /\ CommandTyped /\ Settled /\ Exact /\ SizeOf(reply.stdout) <= MaxOutput
        /\ (torn => outputTruncated \/ MaxOutput = 0 \/ Garbled(stdout))
    BY DEF CommandInv
  <2>2. ASSUME reply.code = 0
        PROVE  \/ outputTruncated \/ MaxOutput = 0
               \/ \E n \in DOMAIN reply.stdout : reply.stdout[n] = Replacement
               \/ reply.stdout = wrote
    <3>1. arrived = Len(wrote) /\ reply.stdout = stdout
      BY <2>1, <2>2 DEF Settled
    <3>2. CASE outputTruncated \/ MaxOutput = 0 \/ Garbled(stdout)
      BY <3>1, <3>2 DEF Garbled
    <3>3. CASE Len(stdout) = arrived /\ \A n \in 1..arrived : stdout[n] = wrote[n]
      <4>1. stdout = wrote
        BY <2>1, <3>1, <3>3 DEF CommandTyped
      <4> QED
        BY <3>1, <4>1
    <3> QED
      BY <2>1, <3>2, <3>3 DEF Exact
  <2> QED
    BY <2>1, <2>2 DEF Settled, CommandTruthful
<1>2. CommandInv /\ [CommandNext]_commandVars => CommandInv'
  BY CommandStepInv
<1> QED
  BY <1>1, <1>2, CommandInitInv, PTL DEF CommandSpec

-----------------------------------------------------------------------------
(* LiveResources: one owner for a live credential *)

LEMMA LeastNumber ==
  ASSUME NEW T \in SUBSET Nat, T # {}
  PROVE  \E x \in T : \A y \in T : x <= y
<1>1. PICK x \in T : \A y \in T : ~(<<y, x>> \in OpToRel(<, Nat))
  BY NatLessThanWellFounded, WFMin
<1>2. \A y \in T : ~(y < x)
  BY <1>1 DEF OpToRel
<1> QED
  BY <1>2

\* Where paths lead: to a place, which leads to itself, and only places have files.
World ==
  /\ at \in [Spelling -> Spelling \union {Broken}]
  /\ \A s \in Spelling : at[s] = Broken \/ at[at[s]] = at[s]
  /\ inode \in [Spelling -> 0..(MaxChanges + 1)]
  /\ \A s \in Spelling : inode[s] # 0 => at[s] = s

LEMMA Concatenated ==
  ASSUME NEW S, NEW s \in Seq(S), NEW t \in Seq(S)
  PROVE  /\ s \o t \in Seq(S) /\ Len(s \o t) = Len(s) + Len(t)
         /\ \A i \in 1..(Len(s) + Len(t)) : (s \o t)[i] = IF i <= Len(s) THEN s[i] ELSE t[i - Len(s)]
<1>1. s \o t \in Seq(S)
  OBVIOUS
<1>2. Len(s \o t) = Len(s) + Len(t)
  OBVIOUS
<1> QED
  BY <1>1, <1>2

LEMMA BuiltinsAre ==
  /\ Builtins \in Seq(PluginDef) /\ Len(Builtins) = 2
  /\ Builtins[1] = [id |-> "codex", sources |-> {File("auth")}]
  /\ Builtins[2] = [id |-> "goose", sources |-> {File("tokens"), Entry("goose")}]
  /\ builtinIds = {"codex", "goose"}
<1>0. builtinIds = {"codex", "goose"}
  <2>1. Builtins \in Seq([id : {"codex", "goose"}, sources : {{File("auth")}, {File("tokens"), Entry("goose")}}])
    BY DEF Builtins
  <2> QED
    BY <2>1 DEF builtinIds, Builtins
<1>1. File("auth") \in Source /\ File("tokens") \in Source /\ Entry("goose") \in Source
  BY DEF Source, File, Entry, Spelling
<1>2. /\ [id |-> "codex", sources |-> {File("auth")}] \in PluginDef
      /\ [id |-> "goose", sources |-> {File("tokens"), Entry("goose")}] \in PluginDef
  BY <1>1, <1>0 DEF PluginDef
<1>3. /\ Builtins \in Seq(PluginDef) /\ Len(Builtins) = 2
      /\ Builtins[1] = [id |-> "codex", sources |-> {File("auth")}]
      /\ Builtins[2] = [id |-> "goose", sources |-> {File("tokens"), Entry("goose")}]
  BY <1>2 DEF Builtins
<1> QED
  BY <1>0, <1>3

\* The definitions of the plugins come after the built-in ones.
LEMMA WithBuiltins ==
  ASSUME NEW v \in Seq(PluginDef), NEW defs, defs = Builtins \o v
  PROVE  /\ Builtins \in Seq(PluginDef) /\ Len(Builtins) = 2
         /\ Len(v) \in Nat /\ defs \in Seq(PluginDef) /\ Len(defs) = Len(v) + 2
         /\ DOMAIN defs = 1..(Len(v) + 2) /\ DOMAIN v = 1..Len(v)
         /\ \A i \in 1..(Len(v) + 2) : defs[i] = IF i <= 2 THEN Builtins[i] ELSE v[i - 2]
<1>1. Builtins \in Seq(PluginDef) /\ Len(Builtins) = 2
  BY BuiltinsAre
<1>2. /\ Builtins \o v \in Seq(PluginDef) /\ Len(Builtins \o v) = Len(Builtins) + Len(v)
      /\ \A i \in 1..(Len(Builtins) + Len(v)) :
           (Builtins \o v)[i] = IF i <= Len(Builtins) THEN Builtins[i] ELSE v[i - Len(Builtins)]
  BY <1>1, Concatenated
<1>3. Len(v) \in Nat /\ DOMAIN v = 1..Len(v)
  OBVIOUS
<1>4. Len(Builtins) + Len(v) = Len(v) + 2
  BY <1>1, <1>3
<1>5. /\ defs \in Seq(PluginDef) /\ Len(defs) = Len(v) + 2
      /\ \A i \in 1..(Len(v) + 2) : defs[i] = IF i <= 2 THEN Builtins[i] ELSE v[i - 2]
  BY <1>1, <1>2, <1>4
<1>6. DOMAIN defs = 1..(Len(v) + 2)
  BY <1>5
<1> QED
  BY <1>1, <1>3, <1>5, <1>6

LEMMA OwnerFound ==
  ASSUME NEW defs \in Seq(PluginDef), NEW claims
  PROVE  /\ FirstOwner(defs, claims) = Nobody <=> \A i \in DOMAIN defs : defs[i].sources \cap claims = {}
         /\ \/ FirstOwner(defs, claims) = Nobody
            \/ \E i \in DOMAIN defs : /\ FirstOwner(defs, claims) = defs[i].id
                                      /\ defs[i].sources \cap claims # {}
<1>a. Nobody \notin PluginId \union builtinIds \union {"bad"}
  BY BuiltinsAre, ResourceAssumption DEF Nobody
<1>b. \A d \in PluginDef : d.id # Nobody
  BY <1>a DEF PluginDef
<1>c. DOMAIN defs \subseteq Nat /\ \A i \in DOMAIN defs : defs[i] \in PluginDef
  OBVIOUS
<1>0. DOMAIN defs \subseteq Nat /\ \A i \in DOMAIN defs : defs[i] \in PluginDef /\ defs[i].id # Nobody
  BY <1>b, <1>c
<1> DEFINE owners == {i \in DOMAIN defs : defs[i].sources \cap claims # {}}
<1>1. ASSUME owners # {}
      PROVE  /\ Min(owners) \in owners /\ FirstOwner(defs, claims) = defs[Min(owners)].id
             /\ FirstOwner(defs, claims) # Nobody
  <2>1. \E x \in owners : \A y \in owners : x <= y
    BY <1>0, <1>1, LeastNumber
  <2>2. Min(owners) \in owners
    BY <2>1 DEF Min
  <2> QED
    BY <1>0, <1>1, <2>2 DEF FirstOwner
<1>2. ASSUME owners = {} PROVE FirstOwner(defs, claims) = Nobody
  BY <1>2 DEF FirstOwner
<1> QED
  BY <1>1, <1>2

\* What has no owner is claimed under no other name.
LEMMA Unowned ==
  ASSUME World, NEW defs \in Seq(PluginDef), NEW x \in Source, Collision(x, defs) = Nobody,
         NEW i \in DOMAIN defs, NEW y \in defs[i].sources
  PROVE  ~Overlap(y, x)
<1>0. defs[i] \in PluginDef
  OBVIOUS
<1>1. y \in Source /\ y \in Sources(defs)
  BY <1>0 DEF PluginDef, Sources
<1>2. CASE x.kind = "keyring"
  <2> DEFINE exact == {z \in Sources(defs) : z.kind = "keyring" /\ x.name \in {z.name, AnyAccount}}
  <2>1. EntryOwner(defs, x.name) = Nobody
    BY <1>2 DEF Collision
  <2>2. \A z \in exact : \E j \in DOMAIN defs : z \in defs[j].sources
    BY DEF Sources
  <2>3. exact = {}
    <3> SUFFICES ASSUME exact # {} PROVE FALSE
      OBVIOUS
    <3>1. FirstOwner(defs, exact) = Nobody
      BY <2>1 DEF EntryOwner
    <3> HIDE DEF exact
    <3> QED
      BY <3>1, <2>2, OwnerFound
  <2>4. y \notin {Entry(AnyAccount)}
    BY <2>1, <2>3, OwnerFound DEF EntryOwner
  <2>5. y.kind = "keyring" => y.name # x.name /\ x.name # AnyAccount
    BY <2>3, <1>1
  <2>6. y.kind = "keyring" => y.name # AnyAccount
    BY <2>4, <1>1 DEF Source, Entry
  <2> QED
    BY <1>2, <2>5, <2>6 DEF Overlap
<1>3. CASE x.kind = "file"
  <2> DEFINE place == at[x.name]
             named == {z \in Sources(defs) : z.kind = "file" /\ place \in {z.name, at[z.name]}}
             linked == {z \in Sources(defs) : /\ z.kind = "file" /\ at[z.name] # Broken
                                              /\ inode[at[z.name]] = inode[place]}
  <2> SUFFICES ASSUME y.kind = "file", SameFile(y.name, x.name) PROVE FALSE
    BY <1>3 DEF Overlap
  <2>1. x.name \in Spelling /\ y.name \in Spelling
    BY <1>1, <1>3 DEF Source
  <2>2. place # Broken
    BY <1>3 DEF Collision, Nobody
  <2>3. FirstOwner(defs, named) = Nobody
    BY <1>3, <2>2 DEF Collision, PathOwner, HardLinkOwner
  <2>4. y \notin named
    BY <2>3, OwnerFound
  <2>5. place # y.name /\ place # at[y.name]
    BY <2>4, <1>1
  <2>6. /\ at[y.name] # Broken /\ inode[at[y.name]] # 0 /\ inode[at[y.name]] = inode[place]
    BY <2>2, <2>5 DEF SameFile
  <2>7. place \in Spelling /\ at[y.name] \in Spelling
    BY <2>1, <2>2, <2>6 DEF World
  <2>8. Linked(place)
    BY <2>5, <2>6, <2>7 DEF Linked
  <2>9. FirstOwner(defs, linked) = Nobody
    BY <1>3, <2>2, <2>3, <2>8 DEF Collision, PathOwner, HardLinkOwner
  <2>10. y \notin linked
    BY <2>9, OwnerFound
  <2> QED
    BY <2>6, <2>10, <1>1
<1> QED
  BY <1>2, <1>3 DEF Source

-----------------------------------------------------------------------------
(* What a start of mat accepts *)

Disjoint(defs) ==
  \A i, j \in DOMAIN defs : i < j /\ j > Len(Builtins) =>
    \A x \in defs[i].sources, y \in defs[j].sources : ~Overlap(x, y)

Fair(plugins) ==
  /\ plugins \in Seq(PluginDef)
  /\ \A i \in DOMAIN plugins : plugins[i].id \notin builtinIds /\ validCliDef(plugins[i])
  /\ Disjoint(Builtins \o plugins)

LEMMA AppendFair ==
  ASSUME World, NEW v, Fair(v), NEW d \in PluginDef, validatePluginFile(d),
         ~Collides(d, Builtins \o v)
  PROVE  Fair(Append(v, d)) /\ Append(Builtins \o v, d) = Builtins \o Append(v, d)
<1> DEFINE defs == Builtins \o v
           more == Append(v, d)
           all == Builtins \o more
<1>1. /\ v \in Seq(PluginDef) /\ more \in Seq(PluginDef) /\ Len(more) = Len(v) + 1
      /\ more[Len(v) + 1] = d /\ \A i \in 1..Len(v) : more[i] = v[i]
  BY DEF Fair
<1>2. /\ Builtins \in Seq(PluginDef) /\ Len(Builtins) = 2
      /\ defs \in Seq(PluginDef) /\ Len(defs) = Len(v) + 2
      /\ \A i \in 1..(Len(v) + 2) : defs[i] = IF i <= 2 THEN Builtins[i] ELSE v[i - 2]
  BY <1>1, WithBuiltins
<1>3. /\ all \in Seq(PluginDef) /\ Len(all) = Len(v) + 3
      /\ \A i \in 1..(Len(v) + 3) : all[i] = IF i <= 2 THEN Builtins[i] ELSE more[i - 2]
  <2>1. /\ all \in Seq(PluginDef) /\ Len(all) = Len(more) + 2
        /\ \A i \in 1..(Len(more) + 2) : all[i] = IF i <= 2 THEN Builtins[i] ELSE more[i - 2]
    BY <1>1, WithBuiltins
  <2> HIDE DEF all, more
  <2>2. Len(v) \in Nat /\ Len(more) + 2 = Len(v) + 3
    BY <1>1
  <2> QED
    BY <2>1, <2>2
<1>4. all[Len(v) + 3] = d /\ \A i \in 1..(Len(v) + 2) : all[i] = defs[i]
  BY <1>1, <1>2, <1>3
<1> HIDE DEF defs, more, all
<1>5. Append(defs, d) = all
  <2>1. /\ Append(defs, d) \in Seq(PluginDef) /\ Len(Append(defs, d)) = Len(v) + 3
        /\ \A i \in 1..(Len(v) + 3) : Append(defs, d)[i] = IF i = Len(v) + 3 THEN d ELSE defs[i]
    BY <1>1, <1>2
  <2>2. \A i \in 1..(Len(v) + 3) : Append(defs, d)[i] = all[i]
    BY <1>1, <1>4, <2>1
  <2> QED
    BY <1>1, <1>3, <2>1, <2>2
<1>6. \A i \in DOMAIN more : more[i].id \notin builtinIds /\ validCliDef(more[i])
  BY <1>1 DEF Fair, validatePluginFile
<1>7. \A i \in 1..(Len(v) + 2) : \A x \in defs[i].sources, y \in d.sources : ~Overlap(x, y)
  <2>1. SUFFICES ASSUME NEW i \in 1..(Len(v) + 2), NEW x \in defs[i].sources, NEW y \in d.sources
                 PROVE  ~Overlap(x, y)
    OBVIOUS
  <2>2. y \in Source /\ i \in DOMAIN defs
    BY <1>1, <1>2 DEF PluginDef
  <2>3. Collision(y, defs) = Nobody
    BY DEF Collides, defs
  <2> QED
    BY <1>2, <2>2, <2>3, Unowned
<1>8. Disjoint(defs)
  BY DEF Fair, defs
<1>9. Disjoint(all)
  <2>1. SUFFICES ASSUME NEW i \in 1..(Len(v) + 3), NEW j \in 1..(Len(v) + 3), i < j, j > 2
                 PROVE  \A x \in all[i].sources, y \in all[j].sources : ~Overlap(x, y)
    BY <1>1, <1>2, <1>3 DEF Disjoint
  <2>2. CASE j = Len(v) + 3
    BY <1>1, <1>4, <1>7, <2>1, <2>2
  <2>3. CASE j <= Len(v) + 2
    <3>1. i \in DOMAIN defs /\ j \in DOMAIN defs /\ all[i] = defs[i] /\ all[j] = defs[j]
      BY <1>1, <1>2, <1>4, <2>1, <2>3
    <3> QED
      BY <1>2, <1>8, <2>1, <3>1 DEF Disjoint
  <2> QED
    BY <1>1, <2>1, <2>2, <2>3
<1> QED
  BY <1>1, <1>5, <1>6, <1>9 DEF Fair, defs, more, all

\* The loops of getAllCliDefs and validatePluginDirectory, one file at a time.
Accepts(files, defs, i) ==
  IF i \in loadUserCliDefs(files) /\ files[i].id \notin builtinIds /\ ~Collides(files[i], defs)
  THEN Append(defs, files[i]) ELSE defs
Merges(files, f, N) == [n \in 0..N |-> IF n = 0 THEN Builtins ELSE Accepts(files, f[n - 1], n)]

Keeps(files, defs, i) ==
  IF i \in validSoFar(files) /\ ~Collides(files[i], Builtins \o defs)
  THEN Append(defs, files[i]) ELSE defs
Reports(files, f, N) == [n \in 0..N |-> IF n = 0 THEN <<>> ELSE Keeps(files, f[n - 1], n)]

LEMMA MergesExist == ASSUME NEW files, NEW N \in Nat PROVE \E f : f = Merges(files, f, N)
<1> DEFINE T == {n \in Nat : ~\E f : f = Merges(files, f, n)}
<1>1. SUFFICES ASSUME T # {} PROVE FALSE
  OBVIOUS
<1>2. PICK m \in T : \A n \in T : m <= n
  BY <1>1, LeastNumber
<1>3. CASE m = 0
  <2> DEFINE f == [n \in 0..0 |-> Builtins]
  <2>1. f = Merges(files, f, 0)
    BY DEF Merges
  <2> HIDE DEF f
  <2> QED
    BY <1>2, <1>3, <2>1
<1>4. CASE m # 0
  <2>1. m - 1 \in Nat /\ m - 1 \notin T
    BY <1>2, <1>4
  <2>2. PICK f : f = Merges(files, f, m - 1)
    BY <2>1
  <2> DEFINE g == [n \in 0..m |-> IF n = m THEN Accepts(files, f[m - 1], m) ELSE f[n]]
  <2>3. /\ f[0] = Builtins
        /\ \A n \in 1..(m - 1) : f[n] = Accepts(files, f[n - 1], n)
    BY <2>1, <2>2 DEF Merges
  <2>4. ASSUME NEW n \in 0..m
        PROVE  g[n] = IF n = 0 THEN Builtins ELSE Accepts(files, g[n - 1], n)
    <3>1. CASE n = 0
      BY <1>2, <1>4, <2>3, <3>1
    <3>2. CASE n # 0
      <4>1. n - 1 \in 0..(m - 1) /\ g[n - 1] = f[n - 1]
        BY <1>2, <2>4, <3>2
      <4>2. n = m \/ n \in 1..(m - 1)
        BY <1>2, <2>4, <3>2
      <4> QED
        BY <1>2, <2>3, <3>2, <4>1, <4>2
    <3> QED
      BY <3>1, <3>2
  <2>5. g = [n \in 0..m |-> g[n]]
    OBVIOUS
  <2> HIDE DEF g
  <2>6. g = Merges(files, g, m)
    BY <2>4, <2>5 DEF Merges
  <2> QED
    BY <1>2, <2>6
<1> QED
  BY <1>3, <1>4

LEMMA ReportsExist == ASSUME NEW files, NEW N \in Nat PROVE \E f : f = Reports(files, f, N)
<1> DEFINE T == {n \in Nat : ~\E f : f = Reports(files, f, n)}
<1>1. SUFFICES ASSUME T # {} PROVE FALSE
  OBVIOUS
<1>2. PICK m \in T : \A n \in T : m <= n
  BY <1>1, LeastNumber
<1>3. CASE m = 0
  <2> DEFINE f == [n \in 0..0 |-> <<>>]
  <2>1. f = Reports(files, f, 0)
    BY DEF Reports
  <2> HIDE DEF f
  <2> QED
    BY <1>2, <1>3, <2>1
<1>4. CASE m # 0
  <2>1. m - 1 \in Nat /\ m - 1 \notin T
    BY <1>2, <1>4
  <2>2. PICK f : f = Reports(files, f, m - 1)
    BY <2>1
  <2> DEFINE g == [n \in 0..m |-> IF n = m THEN Keeps(files, f[m - 1], m) ELSE f[n]]
  <2>3. /\ f[0] = <<>>
        /\ \A n \in 1..(m - 1) : f[n] = Keeps(files, f[n - 1], n)
    BY <2>1, <2>2 DEF Reports
  <2>4. ASSUME NEW n \in 0..m
        PROVE  g[n] = IF n = 0 THEN <<>> ELSE Keeps(files, g[n - 1], n)
    <3>1. CASE n = 0
      BY <1>2, <1>4, <2>3, <3>1
    <3>2. CASE n # 0
      <4>1. n - 1 \in 0..(m - 1) /\ g[n - 1] = f[n - 1]
        BY <1>2, <2>4, <3>2
      <4>2. n = m \/ n \in 1..(m - 1)
        BY <1>2, <2>4, <3>2
      <4> QED
        BY <1>2, <2>3, <3>2, <4>1, <4>2
    <3> QED
      BY <3>1, <3>2
  <2>5. g = [n \in 0..m |-> g[n]]
    OBVIOUS
  <2> HIDE DEF g
  <2>6. g = Reports(files, g, m)
    BY <2>4, <2>5 DEF Reports
  <2> QED
    BY <1>2, <2>6
<1> QED
  BY <1>3, <1>4

\* What is accepted is what is reported valid, and claims nothing twice.
LEMMA AcceptedFair ==
  ASSUME World, NEW files \in Seq(PluginDef)
  PROVE  /\ getAllCliDefs(files) = Builtins \o validatePluginDirectory(files)
         /\ Fair(validatePluginDirectory(files))
<1> DEFINE N == Len(files)
           f == CHOOSE g : g = Merges(files, g, N)
           h == CHOOSE g : g = Reports(files, g, N)
           T == {n \in 0..N : ~(Fair(h[n]) /\ f[n] = Builtins \o h[n])}
<1>1. N \in Nat /\ DOMAIN files = 1..N /\ \A n \in 1..N : files[n] \in PluginDef
  OBVIOUS
<1>2. f = Merges(files, f, N) /\ h = Reports(files, h, N)
  BY <1>1, MergesExist, ReportsExist
<1>3. getAllCliDefs(files) = f[N] /\ validatePluginDirectory(files) = h[N]
  BY DEF getAllCliDefs, validatePluginDirectory, Merges, Reports, Accepts, Keeps
<1> HIDE DEF f, h, N
<1>4. /\ f[0] = Builtins /\ h[0] = <<>>
      /\ \A n \in 1..N : f[n] = Accepts(files, f[n - 1], n) /\ h[n] = Keeps(files, h[n - 1], n)
  BY <1>1, <1>2 DEF Merges, Reports
<1>5. Fair(<<>>) /\ Builtins = Builtins \o <<>>
  <2>1. Builtins \in Seq(PluginDef) /\ Len(Builtins) = 2
    BY BuiltinsAre
  <2>2. Builtins = Builtins \o <<>>
    BY <2>1
  <2>3. Disjoint(Builtins)
    BY <2>1 DEF Disjoint
  <2> QED
    BY <2>2, <2>3 DEF Fair
<1>6. T = {}
  <2> SUFFICES ASSUME T # {} PROVE FALSE
    OBVIOUS
  <2>0. T \in SUBSET Nat
    BY <1>1
  <2> HIDE DEF T
  <2>1. PICK m \in T : \A n \in T : m <= n
    BY <2>0, LeastNumber
  <2> USE DEF T
  <2>2. m # 0
    BY <1>4, <1>5, <2>1
  <2>3. m \in 1..N /\ m - 1 \in 0..N /\ m - 1 \notin T
    BY <1>1, <2>1, <2>2
  <2>4. Fair(h[m - 1]) /\ f[m - 1] = Builtins \o h[m - 1]
    BY <2>3
  <2>5. m \in loadUserCliDefs(files) /\ files[m].id \notin builtinIds <=> m \in validSoFar(files)
    BY DEF loadUserCliDefs, validSoFar, validatePluginFile
  <2>6. CASE m \in validSoFar(files) /\ ~Collides(files[m], f[m - 1])
    <3>1. f[m] = Append(f[m - 1], files[m]) /\ h[m] = Append(h[m - 1], files[m])
      BY <1>4, <2>3, <2>4, <2>5, <2>6 DEF Accepts, Keeps
    <3>2. validatePluginFile(files[m]) /\ files[m] \in PluginDef
      BY <1>1, <2>3, <2>6 DEF validSoFar
    <3>3. Fair(h[m]) /\ f[m] = Builtins \o h[m]
      BY <2>4, <2>6, <3>1, <3>2, AppendFair
    <3> QED
      BY <2>1, <3>3
  <2>7. CASE ~(m \in validSoFar(files) /\ ~Collides(files[m], f[m - 1]))
    <3>1. f[m] = f[m - 1] /\ h[m] = h[m - 1]
      BY <1>4, <2>3, <2>4, <2>5, <2>7 DEF Accepts, Keeps
    <3> QED
      BY <2>1, <2>4, <3>1
  <2> QED
    BY <2>6, <2>7
<1> QED
  BY <1>1, <1>3, <1>6

-----------------------------------------------------------------------------
(* The accesses *)

\* What a plugin declares is none of the paths of a built-in CLI.
LEMMA PluginPaths ==
  ASSUME World, NEW v, Fair(v), NEW i \in DOMAIN v, NEW x \in v[i].sources, x.kind = "file"
  PROVE  x.name \in Free
<1> DEFINE defs == Builtins \o v
<1>1. Builtins \in Seq(PluginDef) /\ Len(Builtins) = 2 /\ v \in Seq(PluginDef)
  BY BuiltinsAre DEF Fair
<1>a. v[i] \in PluginDef
  BY <1>1
<1>b. x \in Source
  BY <1>a DEF PluginDef
<1>2. v[i] \in PluginDef /\ x \in Source /\ x.name \in Spelling
  BY <1>a, <1>b DEF Source
<1>c. /\ Builtins \in Seq(PluginDef) /\ Len(Builtins) = 2
      /\ Len(v) \in Nat /\ DOMAIN defs = 1..(Len(v) + 2) /\ i \in 1..Len(v)
      /\ \A k \in 1..(Len(v) + 2) : defs[k] = IF k <= 2 THEN Builtins[k] ELSE v[k - 2]
  BY <1>1, WithBuiltins
<1> HIDE DEF defs
<1>e. i + 2 \in 1..(Len(v) + 2) /\ (i + 2) - 2 = i
  BY <1>c
<1>3. /\ i + 2 \in DOMAIN defs /\ defs[i + 2] = v[i]
      /\ 1 \in DOMAIN defs /\ defs[1] = Builtins[1] /\ 2 \in DOMAIN defs /\ defs[2] = Builtins[2]
      /\ i + 2 > 2 /\ i + 2 > 1
  BY <1>c, <1>e
<1>4. Disjoint(defs)
  BY DEF Fair, defs
<1>5. ~Overlap(File("auth"), x) /\ ~Overlap(File("tokens"), x)
  <2>1. \A y \in defs[1].sources, z \in defs[i + 2].sources : ~Overlap(y, z)
    BY <1>1, <1>3, <1>4 DEF Disjoint
  <2>2. \A y \in defs[2].sources, z \in defs[i + 2].sources : ~Overlap(y, z)
    BY <1>1, <1>3, <1>4 DEF Disjoint
  <2>3. File("auth") \in defs[1].sources /\ File("tokens") \in defs[2].sources /\ x \in defs[i + 2].sources
    BY <1>3, BuiltinsAre
  <2> QED
    BY <2>1, <2>2, <2>3
<1>6. x.name # "auth" /\ x.name # "tokens"
  BY <1>5 DEF Overlap, File, SameFile
<1>7. classifyByIdentity(x.name) # "reserved"
  BY DEF Fair, validCliDef
<1>8. x.name # "cache"
  BY <1>7 DEF classifyByIdentity, classifyGoosePath, Zone
<1> QED
  BY <1>2, <1>6, <1>8 DEF Spelling

LEMMA DeclaredBy ==
  ASSUME NEW claims
  PROVE  FirstOwner(Builtins, claims) =
           IF File("auth") \in claims THEN "codex"
           ELSE IF File("tokens") \in claims \/ Entry("goose") \in claims THEN "goose" ELSE Nobody
<1> DEFINE owners == {i \in DOMAIN Builtins : Builtins[i].sources \cap claims # {}}
<1>1. DOMAIN Builtins = {1, 2}
  BY BuiltinsAre
<1>2. /\ 1 \in owners <=> File("auth") \in claims
      /\ 2 \in owners <=> File("tokens") \in claims \/ Entry("goose") \in claims
      /\ owners \subseteq {1, 2}
  BY <1>1, BuiltinsAre
<1>3. FirstOwner(Builtins, claims) = IF owners = {} THEN Nobody ELSE Builtins[Min(owners)].id
  BY DEF FirstOwner
<1> HIDE DEF owners
<1>4. 1 \in owners => Min(owners) = 1
  <2> SUFFICES ASSUME 1 \in owners PROVE Min(owners) = 1
    OBVIOUS
  <2>1. \A y \in owners : 1 <= y
    BY <1>2
  <2>2. Min(owners) \in owners /\ \A y \in owners : Min(owners) <= y
    BY <2>1 DEF Min
  <2>3. Min(owners) <= 1 /\ Min(owners) \in {1, 2}
    BY <1>2, <2>2
  <2> QED
    BY <2>3
<1>5. 1 \notin owners /\ 2 \in owners => Min(owners) = 2
  <2>1. 1 \notin owners /\ 2 \in owners => owners = {2}
    BY <1>2
  <2> QED
    BY <2>1 DEF Min
<1> QED
  BY <1>2, <1>3, <1>4, <1>5, BuiltinsAre

LEMMA BuiltinSources ==
  /\ Sources(Builtins) = {File("auth"), File("tokens"), Entry("goose")}
  /\ File("auth") = [kind |-> "file", name |-> "auth"]
  /\ File("tokens") = [kind |-> "file", name |-> "tokens"]
  /\ Entry("goose") = [kind |-> "keyring", name |-> "goose"]
<1>1. DOMAIN Builtins = {1, 2}
  BY BuiltinsAre
<1> QED
  BY <1>1, BuiltinsAre DEF Sources, File, Entry

\* The owners of a path, one by one.
LEMMA PathOwners ==
  ASSUME NEW place
  PROVE  /\ PathOwner(Builtins, place) =
              IF place \in {"auth", at["auth"]} THEN "codex"
              ELSE IF place \in {"tokens", at["tokens"]} THEN "goose" ELSE Nobody
         /\ HardLinkOwner(Builtins, place) =
              IF at["auth"] # Broken /\ inode[at["auth"]] = inode[place] THEN "codex"
              ELSE IF at["tokens"] # Broken /\ inode[at["tokens"]] = inode[place] THEN "goose" ELSE Nobody
<1> DEFINE named == {x \in Sources(Builtins) : x.kind = "file" /\ place \in {x.name, at[x.name]}}
           linked == {x \in Sources(Builtins) : /\ x.kind = "file" /\ at[x.name] # Broken
                                                 /\ inode[at[x.name]] = inode[place]}
<1>1. /\ File("auth") \in named <=> place \in {"auth", at["auth"]}
      /\ File("tokens") \in named <=> place \in {"tokens", at["tokens"]}
      /\ Entry("goose") \notin named
  BY BuiltinSources
<1>2. /\ File("auth") \in linked <=> at["auth"] # Broken /\ inode[at["auth"]] = inode[place]
      /\ File("tokens") \in linked <=> at["tokens"] # Broken /\ inode[at["tokens"]] = inode[place]
      /\ Entry("goose") \notin linked
  BY BuiltinSources
<1>3. PathOwner(Builtins, place) = FirstOwner(Builtins, named)
  BY DEF PathOwner
<1>4. HardLinkOwner(Builtins, place) = FirstOwner(Builtins, linked)
  BY DEF HardLinkOwner
<1> HIDE DEF named, linked
<1> QED
  BY <1>1, <1>2, <1>3, <1>4, DeclaredBy

\* A plugin that may open a path opens nothing of a built-in CLI.
LEMMA PluginAccess ==
  ASSUME World, NEW path \in Free, MayAccess(path)
  PROVE  /\ \A s \in {"auth", "tokens"} : ~SameFile(path, s)
         /\ \A s \in Zone : at[path] # at[s]
<1> DEFINE place == at[path]
<1>1. path \in Spelling /\ path \notin {"auth", "tokens", "cache"} /\ {"auth", "tokens", "cache"} \subseteq Spelling
  BY ResourceAssumption DEF Spelling
<1>2. FirstOwner(Builtins, {File(path)}) = Nobody
  BY <1>1, DeclaredBy DEF File, Entry
<1>3. /\ place # Broken /\ Collision(File(path), Builtins) = Nobody
      /\ ~(classifyGoosePath(path) = "outside" /\ classifyByIdentity(place) = "reserved")
  BY <1>2 DEF MayAccess
<1>4. place \in Spelling /\ at[place] = place
  BY <1>1, <1>3 DEF World
<1>5. PathOwner(Builtins, place) = Nobody /\ (Linked(place) => HardLinkOwner(Builtins, place) = Nobody)
  BY <1>3 DEF Collision, File
<1>6. place \notin {"auth", at["auth"], "tokens", at["tokens"]}
  BY <1>5, PathOwners DEF Nobody
<1>7. ASSUME NEW s \in {"auth", "tokens"}, SameFile(path, s) PROVE FALSE
  <2>1. at[s] # Broken /\ inode[place] # 0 /\ inode[place] = inode[at[s]] /\ at[s] # place
    BY <1>1, <1>6, <1>7 DEF SameFile
  <2>2. at[s] \in Spelling
    BY <1>1, <2>1 DEF World
  <2>3. Linked(place)
    BY <2>1, <2>2 DEF Linked
  <2> QED
    BY <1>5, <2>1, <2>3, PathOwners DEF Nobody
<1>8. place # at["cache"]
  <2> SUFFICES ASSUME place = at["cache"] PROVE FALSE
    OBVIOUS
  <2>1. classifyByIdentity(place) = "reserved"
    BY <1>3, <1>4, <1>6 DEF classifyByIdentity, classifyGoosePath, Zone
  <2>2. classifyGoosePath(path) = "outside"
    BY <1>1 DEF classifyGoosePath, Zone
  <2> QED
    BY <1>3, <2>1, <2>2
<1> QED
  BY <1>6, <1>7, <1>8 DEF Zone

\* A built-in CLI is refused its own path for a reason.
LEMMA BuiltinAccess ==
  ASSUME World, NEW path \in {"auth", "tokens"}, ~MayAccess(path), at[path] # Broken
  PROVE  \E s \in (Zone \union {"auth"}) \ {path} : SameFile(path, s)
<1> DEFINE place == at[path]
<1>1. {"auth", "tokens", "cache"} \subseteq Spelling
  BY DEF Spelling
<1>2. place \in Spelling /\ at[place] = place
  BY <1>1 DEF World
<1>3. FirstOwner(Builtins, {File(path)}) = IF path = "auth" THEN "codex" ELSE "goose"
  BY DeclaredBy DEF File, Entry
<1>4. CASE classifyGoosePath(path) = "outside" /\ classifyByIdentity(place) = "reserved"
  <2>1. path = "auth"
    BY <1>4 DEF classifyGoosePath, Zone
  <2>2. \E z \in Zone : place = at[z]
    BY <1>2, <1>4 DEF classifyByIdentity, classifyGoosePath, Zone
  <2> QED
    BY <2>1, <2>2 DEF SameFile, Zone
<1>5. CASE ~(classifyGoosePath(path) = "outside" /\ classifyByIdentity(place) = "reserved")
  <2> DEFINE other == IF path = "auth" THEN "tokens" ELSE "auth"
  <2>1. /\ Collision(File(path), Builtins) # Nobody
        /\ Collision(File(path), Builtins) # IF path = "auth" THEN "codex" ELSE "goose"
    BY <1>3, <1>5 DEF MayAccess
  <2>2. Collision(File(path), Builtins) =
          IF PathOwner(Builtins, place) # Nobody \/ ~Linked(place) THEN PathOwner(Builtins, place)
          ELSE HardLinkOwner(Builtins, place)
    BY DEF Collision, File
  <2>3. SameFile(path, other)
    <3>1. CASE place \in {other, at[other]}
      BY <1>2, <3>1 DEF SameFile
    <3>2. CASE place \notin {other, at[other]}
      <4>1. Linked(place) /\ at[other] # Broken /\ inode[at[other]] = inode[place]
        BY <2>1, <2>2, <3>2, PathOwners DEF Nobody
      <4> QED
        BY <4>1 DEF SameFile, Linked
    <3> QED
      BY <3>1, <3>2
  <2> QED
    BY <2>3 DEF Zone
<1> QED
  BY <1>4, <1>5

-----------------------------------------------------------------------------
(* The steps *)

\* The definitions are those of the report, judged by the world as it was read; who has a path
\* open declares it, and passed the gate in the world as it is.
ResourceInv ==
  /\ World /\ changes \in 0..MaxChanges
  /\ report \in Seq(PluginDef) /\ loaded = Builtins \o report
  /\ \A i \in DOMAIN report : /\ report[i].id \notin builtinIds
                              /\ \A x \in report[i].sources : x.kind = "file" => x.name \in Free
  /\ ~stale => Disjoint(loaded)
  /\ access.step \in {"idle", "gate", "open", "opened", "refused"}
  /\ {"cli", "path", "step", "slipped"} \subseteq DOMAIN access
  /\ access.step = "idle" \/ (access.cli = "codex" /\ access.path = "auth")
        \/ (access.cli = "goose" /\ access.path = "tokens")
        \/ (access.cli \notin builtinIds /\ access.path \in Free)
  /\ access.step \in {"open", "opened"} /\ ~access.slipped => MayAccess(access.path)
  /\ access.step = "refused" => ~MayAccess(access.path)

LEMMA ResourceInitInv == ResourceInit => ResourceInv
<1> SUFFICES ASSUME ResourceInit PROVE ResourceInv
  OBVIOUS
<1>1. Builtins \in Seq(PluginDef) /\ Len(Builtins) = 2
  BY BuiltinsAre
<1>2. Builtins = Builtins \o <<>>
  BY <1>1
<1>3. Disjoint(loaded)
  BY <1>1 DEF Disjoint, ResourceInit
<1>4. World
  <2>1. MaxChanges \in Nat
    BY ResourceAssumption
  <2> QED
    BY <2>1 DEF World, ResourceInit
<1> QED
  BY <1>1, <1>2, <1>3, <1>4, ResourceAssumption DEF ResourceInit, ResourceInv, NoAccess

\* What the file system may become.
LEMMA WorldKept == ASSUME World, changes \in 0..MaxChanges, Change PROVE World' /\ changes' \in 0..MaxChanges
<1>1. /\ changes < MaxChanges /\ changes' = changes + 1 /\ MaxChanges \in Nat
  BY ResourceAssumption DEF Change
<1>2. PICK s \in Spelling :
       /\ at[s] = s
       /\ \/ \E t \in Spelling \ {s} :
               /\ at[t] = t /\ Leads(s, t)
               /\ inode' = [inode EXCEPT ![s] = 0, ![t] = IF @ = 0 THEN inode[s] ELSE @]
          \/ Leads(s, Broken) /\ inode' = [inode EXCEPT ![s] = 0]
          \/ \E t \in Spelling : /\ inode[s] = 0 /\ inode[t] # 0
                                 /\ inode' = [inode EXCEPT ![s] = inode[t]] /\ UNCHANGED at
          \/ inode[s] = 0 /\ inode' = [inode EXCEPT ![s] = changes + 2] /\ UNCHANGED at
  BY DEF Change
<1>3. Broken \notin Spelling
  BY ResourceAssumption DEF Broken, Spelling
<1>4. CASE \E t \in Spelling \ {s} :
             /\ at[t] = t /\ Leads(s, t)
             /\ inode' = [inode EXCEPT ![s] = 0, ![t] = IF @ = 0 THEN inode[s] ELSE @]
  <2>1. PICK t \in Spelling \ {s} :
             /\ at[t] = t /\ Leads(s, t)
             /\ inode' = [inode EXCEPT ![s] = 0, ![t] = IF @ = 0 THEN inode[s] ELSE @]
    BY <1>4
  <2>2. at' = [u \in Spelling |-> IF at[u] = s THEN t ELSE at[u]]
    BY <2>1 DEF Leads
  <2>3. /\ inode' \in [Spelling -> 0..(MaxChanges + 1)] /\ inode'[s] = 0
        /\ \A u \in Spelling \ {s, t} : inode'[u] = inode[u]
    <3> DEFINE one == [inode EXCEPT ![s] = 0]
    <3>1. /\ one \in [Spelling -> 0..(MaxChanges + 1)] /\ one[s] = 0
          /\ \A u \in Spelling \ {s} : one[u] = inode[u]
      BY <1>1 DEF World
    <3>2. inode' = [one EXCEPT ![t] = IF one[t] = 0 THEN inode[s] ELSE one[t]]
      BY <2>1
    <3>3. inode[s] \in 0..(MaxChanges + 1)
      BY DEF World
    <3> HIDE DEF one
    <3> QED
      BY <2>1, <3>1, <3>2, <3>3
  <2>4. at'[s] = t /\ at'[t] = t
    BY <1>2, <2>1, <2>2
  <2>5. at' \in [Spelling -> Spelling \union {Broken}]
    BY <2>1, <2>2 DEF World
  <2>6. \A u \in Spelling : at'[u] = Broken \/ at'[at'[u]] = at'[u]
    BY <1>2, <1>3, <2>1, <2>2, <2>4 DEF World
  <2>7. \A u \in Spelling : inode'[u] # 0 => at'[u] = u
    BY <1>2, <2>1, <2>2, <2>3, <2>4 DEF World
  <2> QED
    BY <1>1, <2>3, <2>5, <2>6, <2>7 DEF World
<1>5. CASE Leads(s, Broken) /\ inode' = [inode EXCEPT ![s] = 0]
  <2>1. at' = [u \in Spelling |-> IF at[u] = s THEN Broken ELSE at[u]]
    BY <1>5 DEF Leads
  <2>2. inode' \in [Spelling -> 0..(MaxChanges + 1)]
    BY <1>1, <1>5 DEF World
  <2> QED
    BY <1>1, <1>2, <1>3, <1>5, <2>1, <2>2 DEF World
<1>6. CASE \E t \in Spelling : /\ inode[s] = 0 /\ inode[t] # 0
                               /\ inode' = [inode EXCEPT ![s] = inode[t]] /\ UNCHANGED at
  BY <1>1, <1>2, <1>6 DEF World
<1>7. CASE inode[s] = 0 /\ inode' = [inode EXCEPT ![s] = changes + 2] /\ UNCHANGED at
  <2>1. changes + 2 \in 0..(MaxChanges + 1)
    BY <1>1
  <2> QED
    BY <1>1, <1>2, <1>7, <2>1 DEF World
<1> QED
  BY <1>2, <1>4, <1>5, <1>6, <1>7

LEMMA ResourceStepInv ==
  ASSUME ResourceInv, [ResourceNext]_resourceVars
  PROVE  ResourceInv'
<1>1. CASE UNCHANGED resourceVars
  BY <1>1 DEF resourceVars, ResourceInv, World, Disjoint, Overlap, SameFile, MayAccess, Collision, PathOwner,
              HardLinkOwner, EntryOwner, Linked, classifyByIdentity
<1>2. CASE Load
  <2>1. PICK files \in [DOMAIN PluginFiles -> UNION Range(PluginFiles)] :
          /\ \A i \in DOMAIN PluginFiles : files[i] \in PluginFiles[i]
          /\ loaded' = getAllCliDefs(files) /\ report' = validatePluginDirectory(files)
    BY <1>2 DEF Load
  <2>2. files \in Seq(PluginDef)
    <3>1. PluginFiles \in Seq(SUBSET PluginDef)
      BY ResourceAssumption
    <3>2. \A i \in 1..Len(PluginFiles) : files[i] \in PluginDef
      BY <2>1, <3>1
    <3>3. files = [i \in 1..Len(PluginFiles) |-> files[i]]
      BY <2>1, <3>1
    <3>4. Len(PluginFiles) \in Nat
      BY <3>1
    <3> QED
      BY <3>2, <3>3, <3>4
  <2>3. World
    BY DEF ResourceInv
  <2>4. /\ loaded' = Builtins \o report' /\ Fair(report')
    BY <2>1, <2>2, <2>3, AcceptedFair
  <2>5. \A i \in DOMAIN report' : \A x \in report'[i].sources : x.kind = "file" => x.name \in Free
    BY <2>3, <2>4, PluginPaths
  <2>6. /\ report' \in Seq(PluginDef) /\ \A i \in DOMAIN report' : report'[i].id \notin builtinIds
        /\ Disjoint(loaded')
    BY <2>4 DEF Fair
  <2>7. UNCHANGED <<at, inode, access, changes>>
    BY <1>2 DEF Load
  <2>8. World' /\ Disjoint(loaded)'
    BY <2>3, <2>6, <2>7 DEF World, Disjoint, Overlap, SameFile
  <2>9. UNCHANGED MayAccess(access.path)
    BY <2>7 DEF MayAccess, Collision, PathOwner, HardLinkOwner, EntryOwner, Linked, classifyByIdentity
  <2> QED
    BY <2>4, <2>5, <2>6, <2>7, <2>8, <2>9 DEF ResourceInv
<1>3. ASSUME UNCHANGED <<at, inode>> PROVE (World => World') /\ (Disjoint(loaded) /\ UNCHANGED loaded => Disjoint(loaded)')
  BY <1>3 DEF World, Disjoint, Overlap, SameFile
<1>4. ASSUME UNCHANGED <<at, inode>>, UNCHANGED access.path
      PROVE  MayAccess(access.path)' = MayAccess(access.path)
  BY <1>4 DEF MayAccess, Collision, PathOwner, HardLinkOwner, EntryOwner, Linked, classifyByIdentity
<1>5. CASE BeginAccess
  <2>1. PICK i \in DOMAIN loaded : \E x \in loaded[i].sources :
          /\ x.kind = "file"
          /\ access' = [NoAccess EXCEPT !.cli = loaded[i].id, !.path = x.name, !.step = "gate"]
    BY <1>5 DEF BeginAccess
  <2>2. PICK x \in loaded[i].sources :
          /\ x.kind = "file"
          /\ access' = [cli |-> loaded[i].id, path |-> x.name, step |-> "gate", slipped |-> FALSE]
    BY <2>1 DEF NoAccess
  <2>3. /\ Builtins \in Seq(PluginDef) /\ Len(Builtins) = 2 /\ report \in Seq(PluginDef)
        /\ loaded = Builtins \o report
    BY BuiltinsAre DEF ResourceInv
  <2>a. /\ DOMAIN loaded = 1..(Len(report) + 2) /\ Len(report) \in Nat
        /\ \A k \in 1..(Len(report) + 2) : loaded[k] = IF k <= 2 THEN Builtins[k] ELSE report[k - 2]
        /\ DOMAIN report = 1..Len(report)
    BY <2>3, WithBuiltins
  <2>4. CASE i = 1
    <3>1. loaded[i] = Builtins[1]
      BY <2>a, <2>4
    <3>2. loaded[i].id = "codex" /\ x.name = "auth"
      BY <2>2, <3>1, BuiltinsAre DEF File
    <3> QED
      BY <1>3, <1>5, <2>2, <3>2 DEF BeginAccess, ResourceInv
  <2>5. CASE i = 2
    <3>1. loaded[i] = Builtins[2]
      BY <2>a, <2>5
    <3>2. loaded[i].id = "goose" /\ x.name = "tokens"
      BY <2>2, <3>1, BuiltinsAre DEF File, Entry
    <3> QED
      BY <1>3, <1>5, <2>2, <3>2 DEF BeginAccess, ResourceInv
  <2>6. CASE i > 2
    <3>1. i - 2 \in DOMAIN report /\ loaded[i] = report[i - 2]
      BY <2>a, <2>6
    <3>2. loaded[i].id \notin builtinIds /\ x.name \in Free
      BY <2>2, <3>1 DEF ResourceInv
    <3> QED
      BY <1>3, <1>5, <2>2, <3>2 DEF BeginAccess, ResourceInv
  <2>7. i \in Nat /\ i >= 1
    BY <2>a
  <2> QED
    BY <2>4, <2>5, <2>6, <2>7
<1>6. CASE Gate
  <2>1. /\ UNCHANGED <<at, inode, started, loaded, report, changes, stale>> /\ access.step = "gate"
        /\ access' = [access EXCEPT !.step = IF MayAccess(access.path) THEN "open" ELSE "refused",
                                    !.slipped = FALSE]
    BY <1>6 DEF Gate
  <2>2. /\ access'.path = access.path /\ access'.cli = access.cli /\ access'.slipped = FALSE
        /\ access'.step = IF MayAccess(access.path) THEN "open" ELSE "refused"
        /\ DOMAIN access' = DOMAIN access
    BY <2>1 DEF ResourceInv
  <2> QED
    BY <1>3, <1>4, <2>1, <2>2 DEF ResourceInv
<1>7. CASE Open
  <2>1. /\ UNCHANGED <<at, inode, started, loaded, report, changes, stale>> /\ access.step = "open"
        /\ access' = [access EXCEPT !.step = "opened"]
    BY <1>7 DEF Open
  <2>2. /\ access'.path = access.path /\ access'.cli = access.cli /\ access'.slipped = access.slipped
        /\ access'.step = "opened" /\ DOMAIN access' = DOMAIN access
    BY <2>1 DEF ResourceInv
  <2> QED
    BY <1>3, <1>4, <2>1, <2>2 DEF ResourceInv
<1>8. CASE Change
  <2>1. World' /\ changes' \in 0..MaxChanges
    BY <1>8, WorldKept DEF ResourceInv
  <2>2. /\ access.step \in {"idle", "gate", "open"} /\ stale' = TRUE /\ UNCHANGED <<loaded, report>>
        /\ access' = [access EXCEPT !.slipped = access.step = "open"]
    BY <1>8 DEF Change
  <2>3. /\ access'.path = access.path /\ access'.cli = access.cli /\ access'.step = access.step
        /\ DOMAIN access' = DOMAIN access /\ (access'.step = "open" => access'.slipped)
    BY <2>2 DEF ResourceInv
  <2> QED
    BY <2>1, <2>2, <2>3 DEF ResourceInv
<1> QED
  BY <1>1, <1>2, <1>5, <1>6, <1>7, <1>8 DEF ResourceNext

\* A live credential has one owner, and nothing is refused without a reason, for any plugin files
\* and any changes of the file system (OneOwner, RefusalsJustified).
THEOREM OwnersKept == ResourceSpec => [](OneOwner /\ RefusalsJustified)
<1>1. ResourceInv => OneOwner
  <2> SUFFICES ASSUME ResourceInv PROVE OneOwner
    OBVIOUS
  <2>1. ~stale => Disjoint(loaded)
    BY DEF ResourceInv
  <2>2. ASSUME access.step \in {"open", "opened"}, ~access.slipped, access.cli \notin builtinIds
        PROVE  /\ \A s \in {"auth", "tokens"} : ~SameFile(access.path, s)
               /\ \A s \in Zone : at[access.path] # at[s]
    <3>1. World /\ access.path \in Free /\ MayAccess(access.path)
      BY <2>2, BuiltinsAre DEF ResourceInv
    <3> QED
      BY <3>1, PluginAccess
  <2> QED
    BY <2>1, <2>2 DEF OneOwner, Disjoint
<1>2. ResourceInv => RefusalsJustified
  <2> SUFFICES ASSUME ResourceInv PROVE RefusalsJustified
    OBVIOUS
  <2>1. ASSUME access.step = "refused", access.cli \in builtinIds, at[access.path] # Broken
        PROVE  \E s \in (Zone \union {"auth"}) \ {access.path} : SameFile(access.path, s)
    <3>1. World /\ access.path \in {"auth", "tokens"} /\ ~MayAccess(access.path)
      BY <2>1, BuiltinsAre DEF ResourceInv
    <3> QED
      BY <2>1, <3>1, BuiltinAccess
  <2>2. loaded = Builtins \o report
    BY DEF ResourceInv
  <2> QED
    BY <2>1, <2>2 DEF RefusalsJustified
<1>3. ResourceSpec => []ResourceInv
  BY ResourceInitInv, ResourceStepInv, PTL DEF ResourceSpec
<1> QED
  BY <1>1, <1>2, <1>3, PTL

-----------------------------------------------------------------------------
(* Freshness: the first rule that applies, the verdict on each kind of file, and the report *)

\* The first rule whose condition holds gives the verdict.
LEMMA FirstRule ==
  ASSUME NEW rules, NEW n \in DOMAIN rules, DOMAIN rules \in SUBSET Nat, rules[n].when,
         \A m \in DOMAIN rules : m < n => ~rules[m].when
  PROVE  FirstOf(rules) = rules[n].verdict
<1> DEFINE on == {m \in DOMAIN rules : rules[m].when}
<1>1. n \in on /\ \A m \in on : n <= m
  OBVIOUS
<1>2. Min(on) = n
  BY <1>1 DEF Min
<1> QED
  BY <1>2 DEF FirstOf

\* Spelt out for as many rules as the adapters have; the last one always applies.
LEMMA FirstOfFour ==
  ASSUME NEW r1, NEW r2, NEW r3, NEW r4, r4.when
  PROVE  FirstOf(<<r1, r2, r3, r4>>) =
           IF r1.when THEN r1.verdict ELSE IF r2.when THEN r2.verdict
           ELSE IF r3.when THEN r3.verdict ELSE r4.verdict
<1> DEFINE rules == <<r1, r2, r3, r4>>
<1>1. DOMAIN rules = 1..4
  OBVIOUS
<1>2. /\ rules[1] = r1 /\ rules[2] = r2 /\ rules[3] = r3 /\ rules[4] = r4
  OBVIOUS
<1> HIDE DEF rules
<1>3. CASE r1.when
  BY <1>1, <1>2, <1>3, FirstRule DEF rules
<1>4. CASE ~r1.when /\ r2.when
  BY <1>1, <1>2, <1>4, FirstRule DEF rules
<1>5. CASE ~r1.when /\ ~r2.when /\ r3.when
  BY <1>1, <1>2, <1>5, FirstRule DEF rules
<1>6. CASE ~r1.when /\ ~r2.when /\ ~r3.when
  BY <1>1, <1>2, <1>6, FirstRule DEF rules
<1> QED
  BY <1>3, <1>4, <1>5, <1>6

LEMMA FirstOfFive ==
  ASSUME NEW r1, NEW r2, NEW r3, NEW r4, NEW r5, r5.when
  PROVE  FirstOf(<<r1, r2, r3, r4, r5>>) =
           IF r1.when THEN r1.verdict ELSE IF r2.when THEN r2.verdict
           ELSE IF r3.when THEN r3.verdict ELSE IF r4.when THEN r4.verdict
           ELSE r5.verdict
<1> DEFINE rules == <<r1, r2, r3, r4, r5>>
<1>1. DOMAIN rules = 1..5
  OBVIOUS
<1>2. /\ rules[1] = r1 /\ rules[2] = r2 /\ rules[3] = r3 /\ rules[4] = r4
      /\ rules[5] = r5
  OBVIOUS
<1> HIDE DEF rules
<1>3. CASE r1.when
  BY <1>1, <1>2, <1>3, FirstRule DEF rules
<1>4. CASE ~r1.when /\ r2.when
  BY <1>1, <1>2, <1>4, FirstRule DEF rules
<1>5. CASE ~r1.when /\ ~r2.when /\ r3.when
  BY <1>1, <1>2, <1>5, FirstRule DEF rules
<1>6. CASE ~r1.when /\ ~r2.when /\ ~r3.when /\ r4.when
  BY <1>1, <1>2, <1>6, FirstRule DEF rules
<1>7. CASE ~r1.when /\ ~r2.when /\ ~r3.when /\ ~r4.when
  BY <1>1, <1>2, <1>7, FirstRule DEF rules
<1> QED
  BY <1>3, <1>4, <1>5, <1>6, <1>7

LEMMA FirstOfSeven ==
  ASSUME NEW r1, NEW r2, NEW r3, NEW r4, NEW r5, NEW r6, NEW r7, r7.when
  PROVE  FirstOf(<<r1, r2, r3, r4, r5, r6, r7>>) =
           IF r1.when THEN r1.verdict ELSE IF r2.when THEN r2.verdict
           ELSE IF r3.when THEN r3.verdict ELSE IF r4.when THEN r4.verdict
           ELSE IF r5.when THEN r5.verdict ELSE IF r6.when THEN r6.verdict
           ELSE r7.verdict
<1> DEFINE rules == <<r1, r2, r3, r4, r5, r6, r7>>
<1>1. DOMAIN rules = 1..7
  OBVIOUS
<1>2. /\ rules[1] = r1 /\ rules[2] = r2 /\ rules[3] = r3 /\ rules[4] = r4
      /\ rules[5] = r5 /\ rules[6] = r6 /\ rules[7] = r7
  OBVIOUS
<1> HIDE DEF rules
<1>3. CASE r1.when
  BY <1>1, <1>2, <1>3, FirstRule DEF rules
<1>4. CASE ~r1.when /\ r2.when
  BY <1>1, <1>2, <1>4, FirstRule DEF rules
<1>5. CASE ~r1.when /\ ~r2.when /\ r3.when
  BY <1>1, <1>2, <1>5, FirstRule DEF rules
<1>6. CASE ~r1.when /\ ~r2.when /\ ~r3.when /\ r4.when
  BY <1>1, <1>2, <1>6, FirstRule DEF rules
<1>7. CASE ~r1.when /\ ~r2.when /\ ~r3.when /\ ~r4.when /\ r5.when
  BY <1>1, <1>2, <1>7, FirstRule DEF rules
<1>8. CASE ~r1.when /\ ~r2.when /\ ~r3.when /\ ~r4.when /\ ~r5.when /\ r6.when
  BY <1>1, <1>2, <1>8, FirstRule DEF rules
<1>9. CASE ~r1.when /\ ~r2.when /\ ~r3.when /\ ~r4.when /\ ~r5.when /\ ~r6.when
  BY <1>1, <1>2, <1>9, FirstRule DEF rules
<1> QED
  BY <1>3, <1>4, <1>5, <1>6, <1>7, <1>8, <1>9

LEMMA FirstOfTwelve ==
  ASSUME NEW r1, NEW r2, NEW r3, NEW r4, NEW r5, NEW r6, NEW r7,
         NEW r8, NEW r9, NEW r10, NEW r11, NEW r12, r12.when
  PROVE  FirstOf(<<r1, r2, r3, r4, r5, r6, r7, r8, r9, r10, r11, r12>>) =
           IF r1.when THEN r1.verdict ELSE IF r2.when THEN r2.verdict
           ELSE IF r3.when THEN r3.verdict ELSE IF r4.when THEN r4.verdict
           ELSE IF r5.when THEN r5.verdict ELSE IF r6.when THEN r6.verdict
           ELSE IF r7.when THEN r7.verdict ELSE IF r8.when THEN r8.verdict
           ELSE IF r9.when THEN r9.verdict ELSE IF r10.when THEN r10.verdict
           ELSE IF r11.when THEN r11.verdict ELSE r12.verdict
<1> DEFINE rules == <<r1, r2, r3, r4, r5, r6, r7, r8, r9, r10, r11, r12>>
<1>1. DOMAIN rules = 1..12
  OBVIOUS
<1>2. /\ rules[1] = r1 /\ rules[2] = r2 /\ rules[3] = r3 /\ rules[4] = r4
      /\ rules[5] = r5 /\ rules[6] = r6 /\ rules[7] = r7 /\ rules[8] = r8
      /\ rules[9] = r9 /\ rules[10] = r10 /\ rules[11] = r11 /\ rules[12] = r12
  OBVIOUS
<1> HIDE DEF rules
<1>3. CASE r1.when
  BY <1>1, <1>2, <1>3, FirstRule DEF rules
<1>4. CASE ~r1.when /\ r2.when
  BY <1>1, <1>2, <1>4, FirstRule DEF rules
<1>5. CASE ~r1.when /\ ~r2.when /\ r3.when
  BY <1>1, <1>2, <1>5, FirstRule DEF rules
<1>6. CASE ~r1.when /\ ~r2.when /\ ~r3.when /\ r4.when
  BY <1>1, <1>2, <1>6, FirstRule DEF rules
<1>7. CASE ~r1.when /\ ~r2.when /\ ~r3.when /\ ~r4.when /\ r5.when
  BY <1>1, <1>2, <1>7, FirstRule DEF rules
<1>8. CASE ~r1.when /\ ~r2.when /\ ~r3.when /\ ~r4.when /\ ~r5.when /\ r6.when
  BY <1>1, <1>2, <1>8, FirstRule DEF rules
<1>9. CASE ~r1.when /\ ~r2.when /\ ~r3.when /\ ~r4.when /\ ~r5.when /\ ~r6.when /\ r7.when
  BY <1>1, <1>2, <1>9, FirstRule DEF rules
<1>10. CASE ~r1.when /\ ~r2.when /\ ~r3.when /\ ~r4.when /\ ~r5.when /\ ~r6.when /\ ~r7.when /\ r8.when
  BY <1>1, <1>2, <1>10, FirstRule DEF rules
<1>11. CASE ~r1.when /\ ~r2.when /\ ~r3.when /\ ~r4.when /\ ~r5.when /\ ~r6.when /\ ~r7.when /\ ~r8.when /\ r9.when
  BY <1>1, <1>2, <1>11, FirstRule DEF rules
<1>12. CASE ~r1.when /\ ~r2.when /\ ~r3.when /\ ~r4.when /\ ~r5.when /\ ~r6.when /\ ~r7.when /\ ~r8.when /\ ~r9.when /\ r10.when
  BY <1>1, <1>2, <1>12, FirstRule DEF rules
<1>13. CASE ~r1.when /\ ~r2.when /\ ~r3.when /\ ~r4.when /\ ~r5.when /\ ~r6.when /\ ~r7.when /\ ~r8.when /\ ~r9.when /\ ~r10.when /\ r11.when
  BY <1>1, <1>2, <1>13, FirstRule DEF rules
<1>14. CASE ~r1.when /\ ~r2.when /\ ~r3.when /\ ~r4.when /\ ~r5.when /\ ~r6.when /\ ~r7.when /\ ~r8.when /\ ~r9.when /\ ~r10.when /\ ~r11.when
  BY <1>1, <1>2, <1>14, FirstRule DEF rules
<1> QED
  BY <1>3, <1>4, <1>5, <1>6, <1>7, <1>8, <1>9, <1>10, <1>11, <1>12, <1>13, <1>14

\* The rules of each adapter, one after the other.
LEMMA CodexRules ==
  ASSUME NEW s, NEW l
  PROVE  CompareCodex(s, l) =
           IF s = l THEN FreshVerdict("high")
           ELSE IF ~IsParsed(s) \/ ~IsParsed(l) THEN Unclear
           ELSE IF Both(s, l, "account") /\ s.f["account"] # l.f["account"] THEN Stale("high")
           ELSE IF Both(s, l, "account") /\ ~Same(s, l, {"token"}) THEN Rotated("value-only", "high")
           ELSE IF Both(s, l, "account") THEN Rotated("meta-only", "high")
           ELSE IF Both(s, l, "key") THEN IF Same(s, l, {"key"}) THEN FreshVerdict("high") ELSE Stale("high")
           ELSE Unclear
<1> DEFINE r1 == Rule(s = l, FreshVerdict("high"))
           r2 == Rule(~IsParsed(s) \/ ~IsParsed(l), Unclear)
           r3 == Rule(Both(s, l, "account") /\ s.f["account"] # l.f["account"], Stale("high"))
           r4 == Rule(Both(s, l, "account") /\ ~Same(s, l, {"token"}), Rotated("value-only", "high"))
           r5 == Rule(Both(s, l, "account"), Rotated("meta-only", "high"))
           r6 == Rule(Both(s, l, "key"), IF Same(s, l, {"key"}) THEN FreshVerdict("high") ELSE Stale("high"))
           r7 == Rule(TRUE, Unclear)
<1>1. CompareCodex(s, l) = FirstOf(<<r1, r2, r3, r4, r5, r6, r7>>)
  BY DEF CompareCodex
<1>2. /\ r1.when = (s = l) /\ r1.verdict = (FreshVerdict("high"))
      /\ r2.when = (~IsParsed(s) \/ ~IsParsed(l)) /\ r2.verdict = (Unclear)
      /\ r3.when = (Both(s, l, "account") /\ s.f["account"] # l.f["account"]) /\ r3.verdict = (Stale("high"))
      /\ r4.when = (Both(s, l, "account") /\ ~Same(s, l, {"token"})) /\ r4.verdict = (Rotated("value-only", "high"))
      /\ r5.when = (Both(s, l, "account")) /\ r5.verdict = (Rotated("meta-only", "high"))
      /\ r6.when = (Both(s, l, "key")) /\ r6.verdict = (IF Same(s, l, {"key"}) THEN FreshVerdict("high") ELSE Stale("high"))
      /\ r7.when /\ r7.verdict = Unclear
  BY DEF Rule
<1> HIDE DEF r1, r2, r3, r4, r5, r6, r7
<1>3. CompareCodex(s, l) =
        IF r1.when THEN r1.verdict
        ELSE IF r2.when THEN r2.verdict
        ELSE IF r3.when THEN r3.verdict
        ELSE IF r4.when THEN r4.verdict
        ELSE IF r5.when THEN r5.verdict
        ELSE IF r6.when THEN r6.verdict
        ELSE r7.verdict
  BY <1>1, <1>2, FirstOfSeven
<1> QED
  BY <1>2, <1>3

LEMMA OauthRules ==
  ASSUME NEW s, NEW l
  PROVE  CompareOauthCreds(s, l) =
           IF s = l THEN FreshVerdict("high")
           ELSE IF ~IsParsed(s) \/ ~IsParsed(l) THEN Unclear
           ELSE IF ~Same(s, l, {"token"}) THEN Rotated("value-only", "high")
           ELSE Rotated("meta-only", "high")
<1> DEFINE r1 == Rule(s = l, FreshVerdict("high"))
           r2 == Rule(~IsParsed(s) \/ ~IsParsed(l), Unclear)
           r3 == Rule(~Same(s, l, {"token"}), Rotated("value-only", "high"))
           r4 == Rule(TRUE, Rotated("meta-only", "high"))
<1>1. CompareOauthCreds(s, l) = FirstOf(<<r1, r2, r3, r4>>)
  BY DEF CompareOauthCreds
<1>2. /\ r1.when = (s = l) /\ r1.verdict = (FreshVerdict("high"))
      /\ r2.when = (~IsParsed(s) \/ ~IsParsed(l)) /\ r2.verdict = (Unclear)
      /\ r3.when = (~Same(s, l, {"token"})) /\ r3.verdict = (Rotated("value-only", "high"))
      /\ r4.when /\ r4.verdict = Rotated("meta-only", "high")
  BY DEF Rule
<1> HIDE DEF r1, r2, r3, r4
<1>3. CompareOauthCreds(s, l) =
        IF r1.when THEN r1.verdict
        ELSE IF r2.when THEN r2.verdict
        ELSE IF r3.when THEN r3.verdict
        ELSE r4.verdict
  BY <1>1, <1>2, FirstOfFour
<1> QED
  BY <1>2, <1>3

LEMMA GoogleRules ==
  ASSUME NEW s, NEW l
  PROVE  CompareGoogleAccounts(s, l) =
           IF s = l THEN FreshVerdict("high")
           ELSE IF ~IsParsed(s) \/ ~IsParsed(l) THEN Unclear
           ELSE IF ~Both(s, l, "account") THEN Rotated("both", "medium")
           ELSE IF ~Same(s, l, {"account"}) THEN Stale("high")
           ELSE Rotated("meta-only", "high")
<1> DEFINE r1 == Rule(s = l, FreshVerdict("high"))
           r2 == Rule(~IsParsed(s) \/ ~IsParsed(l), Unclear)
           r3 == Rule(~Both(s, l, "account"), Rotated("both", "medium"))
           r4 == Rule(~Same(s, l, {"account"}), Stale("high"))
           r5 == Rule(TRUE, Rotated("meta-only", "high"))
<1>1. CompareGoogleAccounts(s, l) = FirstOf(<<r1, r2, r3, r4, r5>>)
  BY DEF CompareGoogleAccounts
<1>2. /\ r1.when = (s = l) /\ r1.verdict = (FreshVerdict("high"))
      /\ r2.when = (~IsParsed(s) \/ ~IsParsed(l)) /\ r2.verdict = (Unclear)
      /\ r3.when = (~Both(s, l, "account")) /\ r3.verdict = (Rotated("both", "medium"))
      /\ r4.when = (~Same(s, l, {"account"})) /\ r4.verdict = (Stale("high"))
      /\ r5.when /\ r5.verdict = Rotated("meta-only", "high")
  BY DEF Rule
<1> HIDE DEF r1, r2, r3, r4, r5
<1>3. CompareGoogleAccounts(s, l) =
        IF r1.when THEN r1.verdict
        ELSE IF r2.when THEN r2.verdict
        ELSE IF r3.when THEN r3.verdict
        ELSE IF r4.when THEN r4.verdict
        ELSE r5.verdict
  BY <1>1, <1>2, FirstOfFive
<1> QED
  BY <1>2, <1>3

LEMMA ClaudeRules ==
  ASSUME NEW s, NEW l
  PROVE  CompareClaude(s, l) =
           IF s = l THEN FreshVerdict("high")
           ELSE IF ~IsParsed(s) \/ ~IsParsed(l) THEN Unclear
           ELSE IF s.form # l.form THEN Stale("low")
           ELSE IF Both(s, l, "user") /\ ~Same(s, l, {"user"}) THEN Stale("high")
           ELSE IF One(s, l, "user") THEN Stale("low")
           ELSE IF ~Both(s, l, "login") THEN Unclear
           ELSE IF Both(s, l, "tier") /\ ~Same(s, l, {"tier"}) THEN Stale("medium")
           ELSE IF One(s, l, "tier") THEN Stale("low")
           ELSE IF s.f["token"] = 0 /\ l.f["token"] = 0 THEN Unclear
           ELSE IF ~Same(s, l, {"token"}) THEN Rotated("value-only", "high")
           ELSE IF ~Same(s, l, {"expiry"}) THEN Rotated("meta-only", "high")
           ELSE Rotated("both", "medium")
<1> DEFINE r1 == Rule(s = l, FreshVerdict("high"))
           r2 == Rule(~IsParsed(s) \/ ~IsParsed(l), Unclear)
           r3 == Rule(s.form # l.form, Stale("low"))
           r4 == Rule(Both(s, l, "user") /\ ~Same(s, l, {"user"}), Stale("high"))
           r5 == Rule(One(s, l, "user"), Stale("low"))
           r6 == Rule(~Both(s, l, "login"), Unclear)
           r7 == Rule(Both(s, l, "tier") /\ ~Same(s, l, {"tier"}), Stale("medium"))
           r8 == Rule(One(s, l, "tier"), Stale("low"))
           r9 == Rule(s.f["token"] = 0 /\ l.f["token"] = 0, Unclear)
           r10 == Rule(~Same(s, l, {"token"}), Rotated("value-only", "high"))
           r11 == Rule(~Same(s, l, {"expiry"}), Rotated("meta-only", "high"))
           r12 == Rule(TRUE, Rotated("both", "medium"))
<1>1. CompareClaude(s, l) = FirstOf(<<r1, r2, r3, r4, r5, r6, r7, r8, r9, r10, r11, r12>>)
  BY DEF CompareClaude
<1>2. /\ r1.when = (s = l) /\ r1.verdict = (FreshVerdict("high"))
      /\ r2.when = (~IsParsed(s) \/ ~IsParsed(l)) /\ r2.verdict = (Unclear)
      /\ r3.when = (s.form # l.form) /\ r3.verdict = (Stale("low"))
      /\ r4.when = (Both(s, l, "user") /\ ~Same(s, l, {"user"})) /\ r4.verdict = (Stale("high"))
      /\ r5.when = (One(s, l, "user")) /\ r5.verdict = (Stale("low"))
      /\ r6.when = (~Both(s, l, "login")) /\ r6.verdict = (Unclear)
      /\ r7.when = (Both(s, l, "tier") /\ ~Same(s, l, {"tier"})) /\ r7.verdict = (Stale("medium"))
      /\ r8.when = (One(s, l, "tier")) /\ r8.verdict = (Stale("low"))
      /\ r9.when = (s.f["token"] = 0 /\ l.f["token"] = 0) /\ r9.verdict = (Unclear)
      /\ r10.when = (~Same(s, l, {"token"})) /\ r10.verdict = (Rotated("value-only", "high"))
      /\ r11.when = (~Same(s, l, {"expiry"})) /\ r11.verdict = (Rotated("meta-only", "high"))
      /\ r12.when /\ r12.verdict = Rotated("both", "medium")
  BY DEF Rule
<1> HIDE DEF r1, r2, r3, r4, r5, r6, r7, r8, r9, r10, r11, r12
<1>3. CompareClaude(s, l) =
        IF r1.when THEN r1.verdict
        ELSE IF r2.when THEN r2.verdict
        ELSE IF r3.when THEN r3.verdict
        ELSE IF r4.when THEN r4.verdict
        ELSE IF r5.when THEN r5.verdict
        ELSE IF r6.when THEN r6.verdict
        ELSE IF r7.when THEN r7.verdict
        ELSE IF r8.when THEN r8.verdict
        ELSE IF r9.when THEN r9.verdict
        ELSE IF r10.when THEN r10.verdict
        ELSE IF r11.when THEN r11.verdict
        ELSE r12.verdict
  BY <1>1, <1>2, FirstOfTwelve
<1> QED
  BY <1>2, <1>3

LEMMA ProviderRules ==
  ASSUME NEW s, NEW l
  PROVE  CompareProvider(s, l) =
           IF s.f["kind"] # l.f["kind"] \/ s.f["kind"] = 0 THEN Rotated("both", "medium")
           ELSE IF s.f["kind"] = 2 THEN IF Same(s, l, {"key"}) THEN FreshVerdict("high") ELSE Stale("high")
           ELSE IF Both(s, l, "account") /\ ~Same(s, l, {"account"}) THEN Stale("high")
           ELSE IF ~Same(s, l, {"token"}) THEN Rotated("value-only", "high")
           ELSE Rotated("meta-only", "high")
<1> DEFINE r1 == Rule(s.f["kind"] # l.f["kind"] \/ s.f["kind"] = 0, Rotated("both", "medium"))
           r2 == Rule(s.f["kind"] = 2, IF Same(s, l, {"key"}) THEN FreshVerdict("high") ELSE Stale("high"))
           r3 == Rule(Both(s, l, "account") /\ ~Same(s, l, {"account"}), Stale("high"))
           r4 == Rule(~Same(s, l, {"token"}), Rotated("value-only", "high"))
           r5 == Rule(TRUE, Rotated("meta-only", "high"))
<1>1. CompareProvider(s, l) = FirstOf(<<r1, r2, r3, r4, r5>>)
  BY DEF CompareProvider
<1>2. /\ r1.when = (s.f["kind"] # l.f["kind"] \/ s.f["kind"] = 0) /\ r1.verdict = (Rotated("both", "medium"))
      /\ r2.when = (s.f["kind"] = 2) /\ r2.verdict = (IF Same(s, l, {"key"}) THEN FreshVerdict("high") ELSE Stale("high"))
      /\ r3.when = (Both(s, l, "account") /\ ~Same(s, l, {"account"})) /\ r3.verdict = (Stale("high"))
      /\ r4.when = (~Same(s, l, {"token"})) /\ r4.verdict = (Rotated("value-only", "high"))
      /\ r5.when /\ r5.verdict = Rotated("meta-only", "high")
  BY DEF Rule
<1> HIDE DEF r1, r2, r3, r4, r5
<1>3. CompareProvider(s, l) =
        IF r1.when THEN r1.verdict
        ELSE IF r2.when THEN r2.verdict
        ELSE IF r3.when THEN r3.verdict
        ELSE IF r4.when THEN r4.verdict
        ELSE r5.verdict
  BY <1>1, <1>2, FirstOfFive
<1> QED
  BY <1>2, <1>3

LEMMA OpencodeRules ==
  ASSUME NEW s, NEW l
  PROVE  CompareOpencode(s, l) =
           IF s = l THEN FreshVerdict("high")
           ELSE IF ~IsParsed(s) \/ ~IsParsed(l) THEN Unclear
           ELSE IF s.f["second"] = 0 /\ l.f["second"] = 0 THEN CompareProvider(s, l)
           ELSE Worst({CompareProvider(s, l), IF s.f["second"] = l.f["second"] THEN Rotated("meta-only", "high") ELSE Stale("high")})
<1> DEFINE r1 == Rule(s = l, FreshVerdict("high"))
           r2 == Rule(~IsParsed(s) \/ ~IsParsed(l), Unclear)
           r3 == Rule(s.f["second"] = 0 /\ l.f["second"] = 0, CompareProvider(s, l))
           r4 == Rule(TRUE, Worst({CompareProvider(s, l), IF s.f["second"] = l.f["second"] THEN Rotated("meta-only", "high") ELSE Stale("high")}))
<1>1. CompareOpencode(s, l) = FirstOf(<<r1, r2, r3, r4>>)
  BY DEF CompareOpencode
<1>2. /\ r1.when = (s = l) /\ r1.verdict = (FreshVerdict("high"))
      /\ r2.when = (~IsParsed(s) \/ ~IsParsed(l)) /\ r2.verdict = (Unclear)
      /\ r3.when = (s.f["second"] = 0 /\ l.f["second"] = 0) /\ r3.verdict = (CompareProvider(s, l))
      /\ r4.when /\ r4.verdict = Worst({CompareProvider(s, l), IF s.f["second"] = l.f["second"] THEN Rotated("meta-only", "high") ELSE Stale("high")})
  BY DEF Rule
<1> HIDE DEF r1, r2, r3, r4
<1>3. CompareOpencode(s, l) =
        IF r1.when THEN r1.verdict
        ELSE IF r2.when THEN r2.verdict
        ELSE IF r3.when THEN r3.verdict
        ELSE r4.verdict
  BY <1>1, <1>2, FirstOfFour
<1> QED
  BY <1>2, <1>3

LEMMA YamlRules ==
  ASSUME NEW s, NEW l, NEW names
  PROVE  CompareGooseYaml(s, l, names) =
           IF s = l THEN FreshVerdict("high")
           ELSE IF {x \in names : s.f[x] # 0} = {} /\ {x \in names : l.f[x] # 0} = {} THEN Unclear
           ELSE IF {x \in names : s.f[x] # 0} # {x \in names : l.f[x] # 0} \/ ~Same(s, l, names \cap {"route"}) THEN Stale(IF IsParsed(s) /\ IsParsed(l) THEN "medium" ELSE "low")
           ELSE IF ~Same(s, l, names) THEN Rotated("value-only", IF IsParsed(s) /\ IsParsed(l) THEN "medium" ELSE "low")
           ELSE Rotated("meta-only", IF IsParsed(s) /\ IsParsed(l) THEN "medium" ELSE "low")
<1> DEFINE r1 == Rule(s = l, FreshVerdict("high"))
           r2 == Rule({x \in names : s.f[x] # 0} = {} /\ {x \in names : l.f[x] # 0} = {}, Unclear)
           r3 == Rule({x \in names : s.f[x] # 0} # {x \in names : l.f[x] # 0} \/ ~Same(s, l, names \cap {"route"}), Stale(IF IsParsed(s) /\ IsParsed(l) THEN "medium" ELSE "low"))
           r4 == Rule(~Same(s, l, names), Rotated("value-only", IF IsParsed(s) /\ IsParsed(l) THEN "medium" ELSE "low"))
           r5 == Rule(TRUE, Rotated("meta-only", IF IsParsed(s) /\ IsParsed(l) THEN "medium" ELSE "low"))
<1>1. CompareGooseYaml(s, l, names) = FirstOf(<<r1, r2, r3, r4, r5>>)
  BY DEF CompareGooseYaml
<1>2. /\ r1.when = (s = l) /\ r1.verdict = (FreshVerdict("high"))
      /\ r2.when = ({x \in names : s.f[x] # 0} = {} /\ {x \in names : l.f[x] # 0} = {}) /\ r2.verdict = (Unclear)
      /\ r3.when = ({x \in names : s.f[x] # 0} # {x \in names : l.f[x] # 0} \/ ~Same(s, l, names \cap {"route"})) /\ r3.verdict = (Stale(IF IsParsed(s) /\ IsParsed(l) THEN "medium" ELSE "low"))
      /\ r4.when = (~Same(s, l, names)) /\ r4.verdict = (Rotated("value-only", IF IsParsed(s) /\ IsParsed(l) THEN "medium" ELSE "low"))
      /\ r5.when /\ r5.verdict = Rotated("meta-only", IF IsParsed(s) /\ IsParsed(l) THEN "medium" ELSE "low")
  BY DEF Rule
<1> HIDE DEF r1, r2, r3, r4, r5
<1>3. CompareGooseYaml(s, l, names) =
        IF r1.when THEN r1.verdict
        ELSE IF r2.when THEN r2.verdict
        ELSE IF r3.when THEN r3.verdict
        ELSE IF r4.when THEN r4.verdict
        ELSE r5.verdict
  BY <1>1, <1>2, FirstOfFive
<1> QED
  BY <1>2, <1>3

LEMMA KeyringRules ==
  ASSUME NEW s, NEW l
  PROVE  CompareGooseKeyring(s, l) =
           IF s = l THEN FreshVerdict("high")
           ELSE IF {s.form, l.form} \cap {"plain", "broken"} # {} THEN Unclear
           ELSE IF Both(s, l, "user") /\ ~Same(s, l, {"user"}) THEN Stale("high")
           ELSE IF One(s, l, "user") THEN Stale("low")
           ELSE CompareGooseYaml(Unwrapped(s), Unwrapped(l), {"key"})
<1> DEFINE r1 == Rule(s = l, FreshVerdict("high"))
           r2 == Rule({s.form, l.form} \cap {"plain", "broken"} # {}, Unclear)
           r3 == Rule(Both(s, l, "user") /\ ~Same(s, l, {"user"}), Stale("high"))
           r4 == Rule(One(s, l, "user"), Stale("low"))
           r5 == Rule(TRUE, CompareGooseYaml(Unwrapped(s), Unwrapped(l), {"key"}))
<1>1. CompareGooseKeyring(s, l) = FirstOf(<<r1, r2, r3, r4, r5>>)
  BY DEF CompareGooseKeyring
<1>2. /\ r1.when = (s = l) /\ r1.verdict = (FreshVerdict("high"))
      /\ r2.when = ({s.form, l.form} \cap {"plain", "broken"} # {}) /\ r2.verdict = (Unclear)
      /\ r3.when = (Both(s, l, "user") /\ ~Same(s, l, {"user"})) /\ r3.verdict = (Stale("high"))
      /\ r4.when = (One(s, l, "user")) /\ r4.verdict = (Stale("low"))
      /\ r5.when /\ r5.verdict = CompareGooseYaml(Unwrapped(s), Unwrapped(l), {"key"})
  BY DEF Rule
<1> HIDE DEF r1, r2, r3, r4, r5
<1>3. CompareGooseKeyring(s, l) =
        IF r1.when THEN r1.verdict
        ELSE IF r2.when THEN r2.verdict
        ELSE IF r3.when THEN r3.verdict
        ELSE IF r4.when THEN r4.verdict
        ELSE r5.verdict
  BY <1>1, <1>2, FirstOfFive
<1> QED
  BY <1>2, <1>3

LEMMA FallbackRules ==
  ASSUME NEW s, NEW l
  PROVE  FallbackCompare(s, l) =
           IF s = l THEN FreshVerdict("high")
           ELSE IF ~IsParsed(s) \/ ~IsParsed(l) THEN Unclear
           ELSE IF s.f["token"] = 0 /\ l.f["token"] = 0 THEN Unclear
           ELSE IF Same(s, l, {"token"}) THEN FreshVerdict("medium")
           ELSE Rotated("value-only", "low")
<1> DEFINE r1 == Rule(s = l, FreshVerdict("high"))
           r2 == Rule(~IsParsed(s) \/ ~IsParsed(l), Unclear)
           r3 == Rule(s.f["token"] = 0 /\ l.f["token"] = 0, Unclear)
           r4 == Rule(Same(s, l, {"token"}), FreshVerdict("medium"))
           r5 == Rule(TRUE, Rotated("value-only", "low"))
<1>1. FallbackCompare(s, l) = FirstOf(<<r1, r2, r3, r4, r5>>)
  BY DEF FallbackCompare
<1>2. /\ r1.when = (s = l) /\ r1.verdict = (FreshVerdict("high"))
      /\ r2.when = (~IsParsed(s) \/ ~IsParsed(l)) /\ r2.verdict = (Unclear)
      /\ r3.when = (s.f["token"] = 0 /\ l.f["token"] = 0) /\ r3.verdict = (Unclear)
      /\ r4.when = (Same(s, l, {"token"})) /\ r4.verdict = (FreshVerdict("medium"))
      /\ r5.when /\ r5.verdict = Rotated("value-only", "low")
  BY DEF Rule
<1> HIDE DEF r1, r2, r3, r4, r5
<1>3. FallbackCompare(s, l) =
        IF r1.when THEN r1.verdict
        ELSE IF r2.when THEN r2.verdict
        ELSE IF r3.when THEN r3.verdict
        ELSE IF r4.when THEN r4.verdict
        ELSE r5.verdict
  BY <1>1, <1>2, FirstOfFive
<1> QED
  BY <1>2, <1>3

DocForm == {"none", "plain", "wrapped", "broken", "inner"}

\* What a file can hold, whatever the values.
Held(file) ==
  {d \in [form : DocForm, f : [Field -> Nat]] :
     /\ d.form = "none" => d = NoDoc
     /\ d.form = "broken" => d = Doc("broken", <<>>)
     /\ d.form = "inner" => d = Doc("inner", [x \in {"user"} |-> 1])
     /\ d.form \in {"wrapped", "inner"} => file \in {"credentials", "keyring"}
     /\ Sensible(file, d)
     /\ \A x \in Field : d.f[x] # 0 => x \in FieldsOf[file]}

\* Both sides name an account, subscription or provider of one kind, and not the same one.
Differs(file, s, l) ==
  \E a \in Signals(file, s), b \in Signals(file, l) :
    /\ a.kind = b.kind /\ a.about = b.about /\ a.value # b.value
    /\ a.kind # "auth-mode" /\ (a.kind = "provider" => One(s, l, "key"))

Lonely(s, l) == (s = NoDoc) # (l = NoDoc)
Known(file, s) ==
  Field \ (IF file = "plugin" /\ s.f["token"] # 0 THEN {"key", "mode", "rest"} ELSE {"mode", "rest"})

\* What the verdict on one pair of files promises.
Honest(file, s, l, v) ==
  /\ v.kind \in {"fresh", "rotated", "stale"} /\ (v.subtype # "none") = (v.kind = "rotated")
  /\ Lonely(s, l) => v.kind = "stale"
  /\ v.kind = "fresh" => \A x \in Known(file, s) : Both(s, l, x) => Same(s, l, {x})
  /\ Differs(file, s, l) => v.kind = "stale"
  /\ s # l /\ {s.form, l.form} \cap {"broken", "inner"} # {} =>
       v.kind = "stale" \/ (v.kind = "rotated" /\ v.confidence = "low")

\* The files of each CLI, and the fields of each file.
LEMMA FilesAre ==
  /\ FilesOf["codex"] = <<"auth">> /\ FilesOf["gemini"] = <<"oauth", "accounts">>
  /\ FilesOf["claude"] = <<"credentials">> /\ FilesOf["opencode"] = <<"providers">>
  /\ FilesOf["goose"] = <<"secrets", "config">> /\ FilesOf["goosekeyring"] = <<"keyring", "cache">>
  /\ FilesOf["crush"] = <<"crush">> /\ FilesOf["plugin"] = <<"plugin">> /\ FilesOf["env"] = <<"secret">>
BY DEF FilesOf, Tool

LEMMA CredFiles ==
  CredFile = {"auth", "oauth", "accounts", "credentials", "providers", "secrets", "config",
              "keyring", "cache", "crush", "plugin", "secret"}
<1>1. CredFile = UNION {Range(FilesOf[c]) : c \in Tool}
  BY DEF CredFile, FieldsOf
<1>2. \A c \in Tool : Range(FilesOf[c]) =
        CASE c = "codex" -> {"auth"} [] c = "gemini" -> {"oauth", "accounts"}
          [] c = "claude" -> {"credentials"} [] c = "opencode" -> {"providers"}
          [] c = "goose" -> {"secrets", "config"} [] c = "goosekeyring" -> {"keyring", "cache"}
          [] c = "crush" -> {"crush"} [] c = "plugin" -> {"plugin"} [] OTHER -> {"secret"}
  BY FilesAre DEF Tool, Range
<1> QED
  BY <1>1, <1>2 DEF Tool

LEMMA FieldsAre ==
  /\ FieldsOf["auth"] = {"account", "token", "key", "mode"} /\ FieldsOf["oauth"] = {"token", "rest"}
  /\ FieldsOf["accounts"] = {"account", "rest"}
  /\ FieldsOf["credentials"] = {"user", "login", "tier", "token", "expiry", "rest"}
  /\ FieldsOf["providers"] = {"kind", "account", "token", "key", "second", "rest"}
  /\ FieldsOf["secrets"] = {"key", "suffix", "host"} /\ FieldsOf["config"] = {"route", "model", "host"}
  /\ FieldsOf["keyring"] = {"user", "key", "rest"} /\ FieldsOf["plugin"] = {"token", "key", "rest"}
  /\ FieldsOf["cache"] = {"token"} /\ FieldsOf["crush"] = {"token"} /\ FieldsOf["secret"] = {"token"}
BY CredFiles DEF FieldsOf, CredFile

LEMMA FieldIs ==
  Field = {"account", "token", "key", "rest", "user", "login", "tier", "expiry", "kind", "second",
           "mode", "suffix", "host", "route", "model"}
<1>1. Field = UNION {FieldsOf[f] : f \in CredFile}
  BY DEF Field
<1> QED
  BY <1>1, FieldsAre, CredFiles

\* The files that hold nothing of use.
LEMMA DocsAre ==
  /\ NoDoc = [form |-> "none", f |-> [x \in Field |-> 0]]
  /\ Doc("broken", <<>>) = [form |-> "broken", f |-> [x \in Field |-> 0]]
  /\ Doc("inner", [x \in {"user"} |-> 1]) = [form |-> "inner", f |-> [x \in Field |-> IF x = "user" THEN 1 ELSE 0]]
BY DEF NoDoc, Doc

\* The signals of each file.
LEMMA SignalsAre ==
  ASSUME NEW d
  PROVE  /\ \A file : ~IsParsed(d) => Signals(file, d) = {}
         /\ IsParsed(d) =>
              /\ Signals("auth", d) = If(d, "account", {Signal("account", "file", d.f["account"])})
                                       \union If(d, "mode", {Signal("auth-mode", "file", d.f["mode"])})
                                       \union If(d, "key", {Signal("api-key-mode", "file", 0)})
              /\ Signals("accounts", d) = If(d, "account", {Signal("email", "file", d.f["account"])})
              /\ Signals("credentials", d) = If(d, "user", {Signal("account", "file", d.f["user"])})
                                    \union If(d, "tier", {Signal("subscription-tier", "file", d.f["tier"])})
              /\ Signals("providers", d) =
                   {Signal("provider", "first", 0)} \union If(d, "second", {Signal("provider", "second", 0)})
                   \union If(d, "account", {Signal("account", "first", d.f["account"])})
                   \union If(d, "second", {Signal("account", "second", d.f["second"])})
                   \union (IF d.f["kind"] = 2 THEN {Signal("api-key-mode", "first", 0)} ELSE {})
              /\ Signals("secrets", d) = ProviderSignal(d)
              /\ Signals("config", d) =
                   ProviderSignal(d) \union If(d, "route", {Signal("routing", "file", d.f["route"])})
              /\ Signals("cache", d) = {Signal("provider", "cache", 0)}
              /\ \A file \in {"oauth", "keyring", "crush", "plugin", "secret"} : Signals(file, d) = {}
BY DEF Signals

\* What two sides of each file can differ in.
\* A signal of a file that carries a value, and the field it is of.
LEMMA SignalOf ==
  ASSUME NEW d, IsParsed(d), NEW file, NEW a \in Signals(file, d)
  PROVE  /\ file = "auth" => \/ a = Signal("account", "file", d.f["account"]) /\ d.f["account"] # 0
                             \/ a = Signal("auth-mode", "file", d.f["mode"])
                             \/ a = Signal("api-key-mode", "file", 0)
         /\ file = "accounts" => a = Signal("email", "file", d.f["account"]) /\ d.f["account"] # 0
         /\ file = "credentials" => \/ a = Signal("account", "file", d.f["user"]) /\ d.f["user"] # 0
                                    \/ a = Signal("subscription-tier", "file", d.f["tier"]) /\ d.f["tier"] # 0
         /\ file = "providers" => \/ a = Signal("account", "first", d.f["account"]) /\ d.f["account"] # 0
                                  \/ a = Signal("account", "second", d.f["second"]) /\ d.f["second"] # 0
                                  \/ \E x : a = Signal("provider", x, 0)
                                  \/ a = Signal("api-key-mode", "first", 0)
         /\ file = "config" => \/ a = Signal("routing", "file", d.f["route"]) /\ d.f["route"] # 0
                               \/ a = Signal("provider", "file", Providers(d))
         /\ file = "secrets" => a = Signal("provider", "file", Providers(d))
         /\ file = "cache" => a = Signal("provider", "cache", 0)
         /\ file \notin {"oauth", "keyring", "crush", "plugin", "secret"}
<1>1. CASE file = "auth"
  BY <1>1, SignalsAre DEF If
<1>2. CASE file = "accounts"
  BY <1>2, SignalsAre DEF If
<1>3. CASE file = "credentials"
  BY <1>3, SignalsAre DEF If
<1>4. CASE file = "providers"
  BY <1>4, SignalsAre DEF If
<1>5. CASE file = "config"
  BY <1>5, SignalsAre DEF If, ProviderSignal
<1>6. CASE file = "cache"
  BY <1>6, SignalsAre
<1>7. CASE file = "secrets"
  BY <1>7, SignalsAre DEF ProviderSignal
<1>8. ASSUME file \in {"oauth", "keyring", "crush", "plugin", "secret"} PROVE FALSE
  BY <1>8, SignalsAre
<1> QED
  BY <1>1, <1>2, <1>3, <1>4, <1>5, <1>6, <1>7, <1>8

\* What two sides of each file can differ in.
LEMMA DiffersIn ==
  ASSUME NEW s, NEW l, NEW file, Differs(file, s, l)
  PROVE  /\ IsParsed(s) /\ IsParsed(l)
         /\ file = "auth" => Both(s, l, "account") /\ s.f["account"] # l.f["account"]
         /\ file = "accounts" => Both(s, l, "account") /\ s.f["account"] # l.f["account"]
         /\ file = "credentials" => \/ Both(s, l, "user") /\ s.f["user"] # l.f["user"]
                                    \/ Both(s, l, "tier") /\ s.f["tier"] # l.f["tier"]
         /\ file = "providers" => \/ Both(s, l, "account") /\ s.f["account"] # l.f["account"]
                                  \/ Both(s, l, "second") /\ s.f["second"] # l.f["second"]
         /\ file = "config" => \/ Both(s, l, "route") /\ s.f["route"] # l.f["route"]
                               \/ One(s, l, "key")
         /\ file = "secrets" => One(s, l, "key")
         /\ file \notin {"oauth", "keyring", "cache", "crush", "plugin", "secret"}
<1>1. PICK a \in Signals(file, s), b \in Signals(file, l) :
        /\ a.kind = b.kind /\ a.about = b.about /\ a.value # b.value
        /\ a.kind # "auth-mode" /\ (a.kind = "provider" => One(s, l, "key"))
  BY DEF Differs
<1>2. IsParsed(s) /\ IsParsed(l)
  BY <1>1, SignalsAre
<1>3. CASE file = "auth"
  <2>1. \/ a = Signal("account", "file", s.f["account"]) /\ s.f["account"] # 0
        \/ a = Signal("api-key-mode", "file", 0)
    BY <1>1, <1>2, <1>3, SignalOf DEF Signal
  <2>2. \/ b = Signal("account", "file", l.f["account"]) /\ l.f["account"] # 0
        \/ b = Signal("api-key-mode", "file", 0)
    BY <1>1, <1>2, <1>3, SignalOf DEF Signal
  <2>3. a = Signal("account", "file", s.f["account"]) /\ b = Signal("account", "file", l.f["account"])
    BY <1>1, <2>1, <2>2 DEF Signal
  <2>4. s.f["account"] # 0 /\ l.f["account"] # 0 /\ s.f["account"] # l.f["account"]
    BY <1>1, <2>1, <2>2, <2>3 DEF Signal
  <2> QED
    BY <1>2, <1>3, <2>4 DEF Both
<1>4. CASE file = "accounts"
  <2>1. a = Signal("email", "file", s.f["account"]) /\ s.f["account"] # 0
    BY <1>1, <1>2, <1>4, SignalOf
  <2>2. b = Signal("email", "file", l.f["account"]) /\ l.f["account"] # 0
    BY <1>1, <1>2, <1>4, SignalOf
  <2> QED
    BY <1>1, <1>2, <1>4, <2>1, <2>2 DEF Signal, Both
<1>5. CASE file = "credentials"
  <2>1. \/ a = Signal("account", "file", s.f["user"]) /\ s.f["user"] # 0
        \/ a = Signal("subscription-tier", "file", s.f["tier"]) /\ s.f["tier"] # 0
    BY <1>1, <1>2, <1>5, SignalOf
  <2>2. \/ b = Signal("account", "file", l.f["user"]) /\ l.f["user"] # 0
        \/ b = Signal("subscription-tier", "file", l.f["tier"]) /\ l.f["tier"] # 0
    BY <1>1, <1>2, <1>5, SignalOf
  <2>3. \/ a = Signal("account", "file", s.f["user"]) /\ b = Signal("account", "file", l.f["user"])
        \/ a = Signal("subscription-tier", "file", s.f["tier"]) /\ b = Signal("subscription-tier", "file", l.f["tier"])
    BY <1>1, <2>1, <2>2 DEF Signal
  <2>4. \/ s.f["user"] # 0 /\ l.f["user"] # 0 /\ s.f["user"] # l.f["user"]
        \/ s.f["tier"] # 0 /\ l.f["tier"] # 0 /\ s.f["tier"] # l.f["tier"]
    BY <1>1, <2>1, <2>2, <2>3 DEF Signal
  <2> QED
    BY <1>2, <1>5, <2>4 DEF Both
<1>6. CASE file = "providers"
  <2>1. \/ a = Signal("account", "first", s.f["account"]) /\ s.f["account"] # 0
        \/ a = Signal("account", "second", s.f["second"]) /\ s.f["second"] # 0
        \/ \E x : a = Signal("provider", x, 0)
        \/ a = Signal("api-key-mode", "first", 0)
    BY <1>1, <1>2, <1>6, SignalOf
  <2>2. \/ b = Signal("account", "first", l.f["account"]) /\ l.f["account"] # 0
        \/ b = Signal("account", "second", l.f["second"]) /\ l.f["second"] # 0
        \/ \E x : b = Signal("provider", x, 0)
        \/ b = Signal("api-key-mode", "first", 0)
    BY <1>1, <1>2, <1>6, SignalOf
  <2> QED
    BY <1>1, <1>2, <1>6, <2>1, <2>2 DEF Signal, Both
<1>7. CASE file = "config"
  <2>1. \/ a = Signal("routing", "file", s.f["route"]) /\ s.f["route"] # 0
        \/ a = Signal("provider", "file", Providers(s))
    BY <1>1, <1>2, <1>7, SignalOf
  <2>2. \/ b = Signal("routing", "file", l.f["route"]) /\ l.f["route"] # 0
        \/ b = Signal("provider", "file", Providers(l))
    BY <1>1, <1>2, <1>7, SignalOf
  <2> QED
    BY <1>1, <1>2, <1>7, <2>1, <2>2 DEF Signal, Both
<1>8. file = "secrets" => One(s, l, "key")
  BY <1>1, <1>2, SignalOf DEF Signal
<1>9. ASSUME file = "cache" PROVE FALSE
  BY <1>1, <1>2, <1>9, SignalOf DEF Signal
<1>10. file \notin {"oauth", "keyring", "crush", "plugin", "secret"}
  BY <1>1, <1>2, SignalOf
<1> QED
  BY <1>2, <1>3, <1>4, <1>5, <1>6, <1>7, <1>8, <1>9, <1>10

\* Two sides that hold the same are the same account; a side that does not parse differs from all else.
LEMMA SameHonest ==
  ASSUME NEW file \in CredFile, NEW s \in Held(file), NEW v, v = FreshVerdict("high")
  PROVE  Honest(file, s, s, v)
<1>1. ~Differs(file, s, s)
  BY CredFiles, DiffersIn DEF One
<1>2. v.kind = "fresh" /\ v.subtype = "none"
  BY DEF FreshVerdict, Verdict
<1> QED
  BY <1>1, <1>2 DEF Honest, Lonely, Both, Same

LEMMA UnreadPair ==
  ASSUME NEW file, NEW s \in Held(file), NEW l \in Held(file), {s.form, l.form} \cap {"broken", "inner"} # {}
  PROVE  ~IsParsed(s) \/ ~IsParsed(l)
BY DEF Held, IsParsed

\* auth.json of Codex: the account first, then the token, then the key.
LEMMA CodexHonest ==
  ASSUME NEW s \in Held("auth"), NEW l \in Held("auth"), s # NoDoc, l # NoDoc
  PROVE  Honest("auth", s, l, CompareCodex(s, l))
<1> DEFINE v == CompareCodex(s, l)
<1>1. CASE s = l
  BY <1>1, CodexRules, SameHonest, CredFiles
<1>2. CASE s # l
  <2>1. ~Lonely(s, l)
    BY DEF Lonely
  <2>2. v.kind \in {"fresh", "rotated", "stale"} /\ (v.subtype # "none") = (v.kind = "rotated")
    BY <1>2, CodexRules DEF Unclear, FreshVerdict, Stale, Rotated, Verdict
  <2>3. ASSUME {s.form, l.form} \cap {"broken", "inner"} # {} PROVE v.kind = "rotated" /\ v.confidence = "low"
    BY <1>2, <2>3, CodexRules, UnreadPair DEF Unclear, Rotated, Verdict
  <2>4. ASSUME v.kind = "fresh", NEW x \in Known("auth", s), Both(s, l, x) PROVE Same(s, l, {x})
    <3>1. s.f[x] # 0 /\ l.f[x] # 0 /\ x \in Field
      BY <2>4 DEF Both, Known
    <3>2. x \in {"account", "token", "key"}
      BY <2>4, <3>1, FieldsAre DEF Known, Held
    <3>3. ~Both(s, l, "account") /\ Both(s, l, "key") /\ Same(s, l, {"key"})
      BY <2>4, <1>2, CodexRules DEF Unclear, FreshVerdict, Stale, Rotated, Verdict
    <3>4. x # "token"
      BY <3>1, <3>3 DEF Held, Sensible, Both
    <3> QED
      BY <3>1, <3>2, <3>3, <3>4 DEF Both
  <2>5. ASSUME Differs("auth", s, l) PROVE v.kind = "stale"
    BY <2>5, <1>2, CodexRules, DiffersIn DEF Stale, Verdict
  <2> HIDE DEF v
  <2>6. Honest("auth", s, l, v)
    BY <1>2, <2>1, <2>2, <2>3, <2>4, <2>5 DEF Honest
  <2> QED
    BY <2>6 DEF v
<1> QED
  BY <1>1, <1>2

\* oauth_creds.json of Gemini names no account: any other token is a rotation.
LEMMA OauthHonest ==
  ASSUME NEW s \in Held("oauth"), NEW l \in Held("oauth"), s # NoDoc, l # NoDoc
  PROVE  Honest("oauth", s, l, CompareOauthCreds(s, l))
<1> DEFINE v == CompareOauthCreds(s, l)
<1>1. CASE s = l
  BY <1>1, OauthRules, SameHonest, CredFiles
<1>2. CASE s # l
  <2>1. ~Lonely(s, l)
    BY DEF Lonely
  <2>2. v.kind \in {"fresh", "rotated", "stale"} /\ (v.subtype # "none") = (v.kind = "rotated")
    BY <1>2, OauthRules DEF Unclear, FreshVerdict, Stale, Rotated, Verdict
  <2>3. ASSUME {s.form, l.form} \cap {"broken", "inner"} # {} PROVE v.kind = "rotated" /\ v.confidence = "low"
    BY <1>2, <2>3, OauthRules, UnreadPair DEF Unclear, Rotated, Verdict
  <2>4. ASSUME v.kind = "fresh", NEW x \in Known("oauth", s), Both(s, l, x) PROVE Same(s, l, {x})
    BY <1>2, <2>4, OauthRules DEF Unclear, FreshVerdict, Stale, Rotated, Verdict
  <2>5. ASSUME Differs("oauth", s, l) PROVE v.kind = "stale"
    BY <2>5, DiffersIn
  <2> HIDE DEF v
  <2>6. Honest("oauth", s, l, v)
    BY <1>2, <2>1, <2>2, <2>3, <2>4, <2>5 DEF Honest
  <2> QED
    BY <2>6 DEF v
<1> QED
  BY <1>1, <1>2

\* google_accounts.json of Gemini names the account and nothing else.
LEMMA GoogleHonest ==
  ASSUME NEW s \in Held("accounts"), NEW l \in Held("accounts"), s # NoDoc, l # NoDoc
  PROVE  Honest("accounts", s, l, CompareGoogleAccounts(s, l))
<1> DEFINE v == CompareGoogleAccounts(s, l)
<1>1. CASE s = l
  BY <1>1, GoogleRules, SameHonest, CredFiles
<1>2. CASE s # l
  <2>1. ~Lonely(s, l)
    BY DEF Lonely
  <2>2. v.kind \in {"fresh", "rotated", "stale"} /\ (v.subtype # "none") = (v.kind = "rotated")
    BY <1>2, GoogleRules DEF Unclear, FreshVerdict, Stale, Rotated, Verdict
  <2>3. ASSUME {s.form, l.form} \cap {"broken", "inner"} # {} PROVE v.kind = "rotated" /\ v.confidence = "low"
    BY <1>2, <2>3, GoogleRules, UnreadPair DEF Unclear, Rotated, Verdict
  <2>4. ASSUME v.kind = "fresh", NEW x \in Known("accounts", s), Both(s, l, x) PROVE Same(s, l, {x})
    BY <1>2, <2>4, GoogleRules DEF Unclear, FreshVerdict, Stale, Rotated, Verdict
  <2>5. ASSUME Differs("accounts", s, l) PROVE v.kind = "stale"
    BY <2>5, <1>2, GoogleRules, DiffersIn DEF Stale, Verdict, Same
  <2> HIDE DEF v
  <2>6. Honest("accounts", s, l, v)
    BY <1>2, <2>1, <2>2, <2>3, <2>4, <2>5 DEF Honest
  <2> QED
    BY <2>6 DEF v
<1> QED
  BY <1>1, <1>2

\* The credentials of Claude: what the keychain says of the account, the subscription, the token.
LEMMA ClaudeHonest ==
  ASSUME NEW s \in Held("credentials"), NEW l \in Held("credentials"), s # NoDoc, l # NoDoc
  PROVE  Honest("credentials", s, l, CompareClaude(s, l))
<1> DEFINE v == CompareClaude(s, l)
<1>1. CASE s = l
  BY <1>1, ClaudeRules, SameHonest, CredFiles
<1>2. CASE s # l
  <2>1. ~Lonely(s, l)
    BY DEF Lonely
  <2>2. v.kind \in {"fresh", "rotated", "stale"} /\ (v.subtype # "none") = (v.kind = "rotated")
    BY <1>2, ClaudeRules DEF Unclear, FreshVerdict, Stale, Rotated, Verdict
  <2>3. ASSUME {s.form, l.form} \cap {"broken", "inner"} # {} PROVE v.kind = "rotated" /\ v.confidence = "low"
    BY <1>2, <2>3, ClaudeRules, UnreadPair DEF Unclear, Rotated, Verdict
  <2>4. ASSUME v.kind = "fresh", NEW x \in Known("credentials", s), Both(s, l, x) PROVE Same(s, l, {x})
    BY <1>2, <2>4, ClaudeRules DEF Unclear, FreshVerdict, Stale, Rotated, Verdict
  <2>5. ASSUME Differs("credentials", s, l) PROVE v.kind = "stale"
    <3>1. IsParsed(s) /\ IsParsed(l)
      BY <2>5, DiffersIn
    <3>2. CASE s.form # l.form
      BY <1>2, <3>1, <3>2, ClaudeRules DEF Stale, Verdict
    <3>3. CASE s.form = l.form /\ Both(s, l, "user") /\ ~Same(s, l, {"user"})
      BY <1>2, <3>1, <3>3, ClaudeRules DEF Stale, Verdict
    <3>4. CASE s.form = l.form /\ ~(Both(s, l, "user") /\ ~Same(s, l, {"user"}))
      <4>1. Both(s, l, "tier") /\ s.f["tier"] # l.f["tier"]
        BY <2>5, <3>4, DiffersIn DEF Same
      <4>2. Both(s, l, "login") /\ ~Same(s, l, {"tier"})
        BY <4>1 DEF Held, Sensible, Both, Same
      <4> QED
        BY <1>2, <3>1, <3>4, <4>1, <4>2, ClaudeRules DEF Stale, Verdict
    <3> QED
      BY <3>2, <3>3, <3>4
  <2> HIDE DEF v
  <2>6. Honest("credentials", s, l, v)
    BY <1>2, <2>1, <2>2, <2>3, <2>4, <2>5 DEF Honest
  <2> QED
    BY <2>6 DEF v
<1> QED
  BY <1>1, <1>2

\* pickWorse on the verdicts it orders.
LEMMA WorstOfTwo ==
  ASSUME NEW i \in 1..5, NEW j \in 1..5
  PROVE  Worst({Severity[i], Severity[j]}) = IF i < j THEN Severity[j] ELSE Severity[i]
<1> DEFINE on == {n \in DOMAIN Severity : Severity[n] \in {Severity[i], Severity[j]}}
           m == IF i < j THEN j ELSE i
<1>1. DOMAIN Severity = 1..5
  BY DEF Severity
<1>2. \A n, k \in 1..5 : Severity[n] = Severity[k] => n = k
  BY DEF Severity, Unclear, FreshVerdict, Stale, Rotated, Verdict
<1>3. m \in on /\ \A n \in on : n <= m
  BY <1>1, <1>2
<1>4. on \subseteq Nat /\ m \in Nat
  BY <1>1
<1>5. Max(on) = m
  BY <1>3, <1>4 DEF Max
<1> QED
  BY <1>5 DEF Worst

\* A provider and the second one: the verdict is the worse of the two.
LEMMA ProvidersHonest ==
  ASSUME NEW s \in Held("providers"), NEW l \in Held("providers"), NEW q,
         q = IF s.f["second"] = l.f["second"] THEN Rotated("meta-only", "high") ELSE Stale("high")
  PROVE  LET p == CompareProvider(s, l)
             w == Worst({p, q})
         IN  /\ p.kind \in {"fresh", "rotated", "stale"} /\ (p.subtype # "none") = (p.kind = "rotated")
             /\ Both(s, l, "account") /\ s.f["account"] # l.f["account"] => p.kind = "stale"
             /\ p.kind = "fresh" => s.f["kind"] = 2 /\ l.f["kind"] = 2 /\ Same(s, l, {"key"})
             /\ w.kind \in {"rotated", "stale"} /\ (w.subtype # "none") = (w.kind = "rotated")
             /\ "stale" \in {p.kind, q.kind} => w.kind = "stale"
<1> DEFINE p == CompareProvider(s, l)
           w == Worst({p, q})
<1>1. /\ Severity[1] = FreshVerdict("high") /\ Severity[2] = Rotated("meta-only", "high")
      /\ Severity[3] = Rotated("value-only", "high") /\ Severity[4] = Rotated("both", "medium")
      /\ Severity[5] = Stale("high")
  BY DEF Severity
<1>2. ASSUME Both(s, l, "account") /\ s.f["account"] # l.f["account"] PROVE p = Stale("high")
  <2>1. s.f["kind"] = 1 /\ l.f["kind"] = 1
    BY <1>2 DEF Held, Sensible, Both
  <2> QED
    BY <1>2, <2>1, ProviderRules DEF Same
<1>3. p = FreshVerdict("high") => s.f["kind"] = 2 /\ l.f["kind"] = 2 /\ Same(s, l, {"key"})
  BY ProviderRules DEF Unclear, FreshVerdict, Stale, Rotated, Verdict
<1>4. \E i \in 1..5 : p = Severity[i]
  BY <1>1, ProviderRules
<1>5. \E j \in {2, 5} : q = Severity[j]
  BY <1>1
<1>6. PICK i \in 1..5, j \in {2, 5} : p = Severity[i] /\ q = Severity[j]
  BY <1>4, <1>5
<1>7. w = IF i < j THEN Severity[j] ELSE Severity[i]
  BY <1>6, WorstOfTwo, SMTT(30)
<1> HIDE DEF p, w
<1>8. /\ p.kind \in {"fresh", "rotated", "stale"} /\ (p.subtype # "none") = (p.kind = "rotated")
      /\ p.kind = "fresh" => p = FreshVerdict("high")
  BY <1>1, <1>6 DEF Unclear, FreshVerdict, Stale, Rotated, Verdict
<1>9. /\ w.kind \in {"rotated", "stale"} /\ (w.subtype # "none") = (w.kind = "rotated")
      /\ "stale" \in {p.kind, q.kind} => w.kind = "stale"
  BY <1>1, <1>6, <1>7 DEF Unclear, FreshVerdict, Stale, Rotated, Verdict
<1>10. p = Stale("high") => p.kind = "stale"
  BY DEF Stale, Verdict
<1> QED
  BY <1>2, <1>3, <1>8, <1>9, <1>10 DEF p, w

\* auth.json of OpenCode: each provider either side knows, and the worst of the verdicts.
LEMMA OpencodeHonest ==
  ASSUME NEW s \in Held("providers"), NEW l \in Held("providers"), s # NoDoc, l # NoDoc
  PROVE  Honest("providers", s, l, CompareOpencode(s, l))
<1> DEFINE v == CompareOpencode(s, l)
<1>1. CASE s = l
  BY <1>1, OpencodeRules, SameHonest, CredFiles
<1>2. CASE s # l
  <2>1. ~Lonely(s, l)
    BY DEF Lonely
  <2>2. v.kind \in {"fresh", "rotated", "stale"} /\ (v.subtype # "none") = (v.kind = "rotated")
    <3> DEFINE q == IF s.f["second"] = l.f["second"] THEN Rotated("meta-only", "high") ELSE Stale("high")
    <3>1. v \in {Unclear, CompareProvider(s, l), Worst({CompareProvider(s, l), q})}
      BY <1>2, OpencodeRules
    <3>2. Unclear.kind = "rotated" /\ Unclear.subtype = "both"
      BY DEF Unclear, Rotated, Verdict
    <3>3. /\ CompareProvider(s, l).kind \in {"fresh", "rotated", "stale"}
          /\ (CompareProvider(s, l).subtype # "none") = (CompareProvider(s, l).kind = "rotated")
          /\ Worst({CompareProvider(s, l), q}).kind \in {"rotated", "stale"}
          /\ (Worst({CompareProvider(s, l), q}).subtype # "none")
                = (Worst({CompareProvider(s, l), q}).kind = "rotated")
      BY ProvidersHonest
    <3> QED
      BY <3>1, <3>2, <3>3
  <2>3. ASSUME {s.form, l.form} \cap {"broken", "inner"} # {} PROVE v.kind = "rotated" /\ v.confidence = "low"
    BY <1>2, <2>3, OpencodeRules, UnreadPair DEF Unclear, Rotated, Verdict
  <2>4. ASSUME v.kind = "fresh", NEW x \in Known("providers", s), Both(s, l, x) PROVE Same(s, l, {x})
    <3>1. /\ s.f["second"] = 0 /\ l.f["second"] = 0 /\ CompareProvider(s, l).kind = "fresh"
      BY <1>2, <2>4, OpencodeRules, ProvidersHonest DEF Unclear, Rotated, Verdict
    <3>2. s.f["kind"] = 2 /\ l.f["kind"] = 2 /\ Same(s, l, {"key"})
      BY <3>1, ProvidersHonest
    <3>3. s.f[x] # 0 /\ l.f[x] # 0 /\ x \in FieldsOf["providers"] /\ x # "rest"
      BY <2>4 DEF Both, Known, Held
    <3>4. x \in {"kind", "key"}
      BY <3>1, <3>2, <3>3, FieldsAre DEF Held, Sensible
    <3> QED
      BY <3>2, <3>4 DEF Same
  <2>5. ASSUME Differs("providers", s, l) PROVE v.kind = "stale"
    <3> DEFINE q == IF s.f["second"] = l.f["second"] THEN Rotated("meta-only", "high") ELSE Stale("high")
    <3>1. IsParsed(s) /\ IsParsed(l)
      BY <2>5, DiffersIn
    <3>2. \/ Both(s, l, "account") /\ s.f["account"] # l.f["account"]
          \/ s.f["second"] # l.f["second"]
      BY <2>5, DiffersIn
    <3>3. "stale" \in {CompareProvider(s, l).kind, q.kind}
      BY <3>2, ProvidersHonest DEF Stale, Verdict
    <3>4. Worst({CompareProvider(s, l), q}).kind = "stale"
      BY <3>3, ProvidersHonest
    <3>5. CASE s.f["second"] = 0 /\ l.f["second"] = 0
      BY <1>2, <3>1, <3>2, <3>5, OpencodeRules, ProvidersHonest
    <3>6. CASE ~(s.f["second"] = 0 /\ l.f["second"] = 0)
      BY <1>2, <3>1, <3>4, <3>6, OpencodeRules
    <3> QED
      BY <3>5, <3>6
  <2> HIDE DEF v
  <2>6. Honest("providers", s, l, v)
    BY <1>2, <2>1, <2>2, <2>3, <2>4, <2>5 DEF Honest
  <2> QED
    BY <2>6 DEF v
<1> QED
  BY <1>1, <1>2

\* The names of keys and of the route; a side that does not parse lowers the confidence.
LEMMA YamlVerdict ==
  ASSUME NEW s, NEW l, s # l, NEW names
  PROVE  LET v == CompareGooseYaml(s, l, names)
         IN  /\ v.kind \in {"rotated", "stale"} /\ (v.subtype # "none") = (v.kind = "rotated")
             /\ ~IsParsed(s) \/ ~IsParsed(l) => v.confidence = "low"
             /\ "route" \in names /\ Both(s, l, "route") /\ s.f["route"] # l.f["route"] => v.kind = "stale"
             /\ "key" \in names /\ One(s, l, "key") => v.kind = "stale"
<1> DEFINE v == CompareGooseYaml(s, l, names)
<1>1. v.kind \in {"rotated", "stale"} /\ (v.subtype # "none") = (v.kind = "rotated")
  BY YamlRules DEF Unclear, FreshVerdict, Stale, Rotated, Verdict
<1>2. ~IsParsed(s) \/ ~IsParsed(l) => v.confidence = "low"
  BY YamlRules DEF Unclear, FreshVerdict, Stale, Rotated, Verdict
<1>3. ASSUME "route" \in names, Both(s, l, "route"), s.f["route"] # l.f["route"] PROVE v.kind = "stale"
  <2>1. {x \in names : s.f[x] # 0} # {} /\ ~Same(s, l, names \cap {"route"})
    BY <1>3 DEF Both, Same
  <2> QED
    BY <2>1, YamlRules DEF Stale, Verdict
<1>4. ASSUME "key" \in names, One(s, l, "key") PROVE v.kind = "stale"
  <2>1. /\ {x \in names : s.f[x] # 0} # {x \in names : l.f[x] # 0}
        /\ ~({x \in names : s.f[x] # 0} = {} /\ {x \in names : l.f[x] # 0} = {})
    BY <1>4 DEF One
  <2> QED
    BY <2>1, YamlRules DEF Stale, Verdict
<1> QED
  BY <1>1, <1>2, <1>3, <1>4

LEMMA YamlHonest ==
  ASSUME NEW file \in {"secrets", "config"}, NEW s \in Held(file), NEW l \in Held(file), s # NoDoc, l # NoDoc,
         NEW names, file = "config" => "route" \in names, file = "secrets" => "key" \in names
  PROVE  Honest(file, s, l, CompareGooseYaml(s, l, names))
<1> DEFINE v == CompareGooseYaml(s, l, names)
<1>1. CASE s = l
  BY <1>1, YamlRules, SameHonest, CredFiles
<1>2. CASE s # l
  <2>1. ~Lonely(s, l)
    BY DEF Lonely
  <2>2. /\ v.kind \in {"rotated", "stale"} /\ (v.subtype # "none") = (v.kind = "rotated")
        /\ ~IsParsed(s) \/ ~IsParsed(l) => v.confidence = "low"
        /\ "route" \in names /\ Both(s, l, "route") /\ s.f["route"] # l.f["route"] => v.kind = "stale"
        /\ "key" \in names /\ One(s, l, "key") => v.kind = "stale"
    BY <1>2, YamlVerdict
  <2>3. ASSUME Differs(file, s, l)
        PROVE  \/ "route" \in names /\ Both(s, l, "route") /\ s.f["route"] # l.f["route"]
               \/ "key" \in names /\ One(s, l, "key")
    <3>1. file = "config" => s.f["key"] = 0 /\ l.f["key"] = 0
      BY FieldsAre, FieldIs DEF Held
    <3> QED
      BY <2>3, <3>1, DiffersIn DEF One
  <2> HIDE DEF v
  <2>4. Honest(file, s, l, v)
    BY <2>1, <2>2, <2>3, UnreadPair DEF Honest
  <2> QED
    BY <2>4 DEF v
<1> QED
  BY <1>1, <1>2

\* The keyring of Goose: the account of the entry, then the secrets it wraps.
LEMMA KeyringHonest ==
  ASSUME NEW s \in Held("keyring"), NEW l \in Held("keyring"), s # NoDoc, l # NoDoc
  PROVE  Honest("keyring", s, l, CompareGooseKeyring(s, l))
<1> DEFINE v == CompareGooseKeyring(s, l)
           y == CompareGooseYaml(Unwrapped(s), Unwrapped(l), {"key"})
<1>1. CASE s = l
  BY <1>1, KeyringRules, SameHonest, CredFiles
<1>2. CASE s # l
  <2>1. ~Lonely(s, l) /\ ~Differs("keyring", s, l)
    BY DiffersIn DEF Lonely
  <2>2. /\ s.form \in {"plain", "wrapped", "broken", "inner"} /\ l.form \in {"plain", "wrapped", "broken", "inner"}
        /\ ~(s.form = "inner" /\ l.form = "inner")
    BY <1>2 DEF Held, DocForm
  <2>3. /\ y.kind \in {"fresh", "rotated", "stale"} /\ (y.subtype # "none") = (y.kind = "rotated")
        /\ y.kind = "fresh" => Unwrapped(s) = Unwrapped(l)
        /\ Unwrapped(s) # Unwrapped(l) /\ (~IsParsed(Unwrapped(s)) \/ ~IsParsed(Unwrapped(l))) => y.confidence = "low"
    <3>1. CASE Unwrapped(s) = Unwrapped(l)
      BY <3>1, YamlRules DEF FreshVerdict, Verdict
    <3>2. CASE Unwrapped(s) # Unwrapped(l)
      BY <3>2, YamlVerdict, ZenonT(60)
    <3> QED
      BY <3>1, <3>2
  <2>4. v.kind \in {"fresh", "rotated", "stale"} /\ (v.subtype # "none") = (v.kind = "rotated")
    BY <1>2, <2>3, KeyringRules DEF Unclear, FreshVerdict, Stale, Rotated, Verdict
  <2>5. \/ v.kind = "stale"
        \/ v = Unclear
        \/ /\ v = y /\ s.form \in {"wrapped", "inner"} /\ l.form \in {"wrapped", "inner"}
           /\ ~(Both(s, l, "user") /\ ~Same(s, l, {"user"}))
    BY <1>2, <2>2, KeyringRules DEF Stale, Verdict
  <2>6. ASSUME {s.form, l.form} \cap {"broken", "inner"} # {}
        PROVE  v.kind = "stale" \/ (v.kind = "rotated" /\ v.confidence = "low")
    <3>1. CASE v = Unclear
      BY <3>1 DEF Unclear, Rotated, Verdict
    <3>2. CASE v = y /\ s.form \in {"wrapped", "inner"} /\ l.form \in {"wrapped", "inner"}
      <4>1. \/ Unwrapped(s).form = "plain" /\ Unwrapped(l).form = "broken"
            \/ Unwrapped(s).form = "broken" /\ Unwrapped(l).form = "plain"
        BY <2>2, <2>6, <3>2 DEF Unwrapped, Doc, Held
      <4> QED
        BY <2>3, <2>4, <3>2, <4>1 DEF IsParsed
    <3> QED
      BY <2>5, <3>1, <3>2
  <2>7. ASSUME v.kind = "fresh", NEW x \in Known("keyring", s), Both(s, l, x) PROVE Same(s, l, {x})
    <3>1. /\ Unwrapped(s) = Unwrapped(l) /\ s.form \in {"wrapped", "inner"} /\ l.form \in {"wrapped", "inner"}
          /\ ~(Both(s, l, "user") /\ ~Same(s, l, {"user"}))
      BY <2>3, <2>5, <2>7 DEF Unclear, Rotated, Verdict
    <3>2. s.form = "wrapped" /\ l.form = "wrapped"
      BY <2>2, <3>1 DEF Unwrapped, Doc, Held
    <3>3. CASE x = "user"
      BY <3>1, <3>3, <2>7
    <3>4. CASE x # "user"
      <4>1. Unwrapped(s).f[x] = s.f[x] /\ Unwrapped(l).f[x] = l.f[x]
        BY <3>2, <3>4, <2>7 DEF Unwrapped, Held, Known
      <4> QED
        BY <3>1, <4>1 DEF Same
    <3> QED
      BY <3>3, <3>4
  <2> HIDE DEF v, y
  <2>8. Honest("keyring", s, l, v)
    BY <2>1, <2>4, <2>6, <2>7 DEF Honest
  <2> QED
    BY <2>8 DEF v
<1> QED
  BY <1>1, <1>2

\* Files nothing is known of are the same or unclear.
LEMMA OpaqueHonest ==
  ASSUME NEW file \in {"cache", "crush", "secret"}, NEW s \in Held(file), NEW l \in Held(file), s # NoDoc, l # NoDoc
  PROVE  Honest(file, s, l, CompareOpaque(s, l))
<1>1. CASE s = l
  BY <1>1, SameHonest, CredFiles DEF CompareOpaque
<1>2. CASE s # l
  BY <1>2, DiffersIn DEF CompareOpaque, Honest, Lonely, Unclear, FreshVerdict, Stale, Rotated, Verdict
<1> QED
  BY <1>1, <1>2

\* A plugin without an adapter: a token that both sides share is taken for the same login.
LEMMA FallbackHonest ==
  ASSUME NEW s \in Held("plugin"), NEW l \in Held("plugin"), s # NoDoc, l # NoDoc
  PROVE  Honest("plugin", s, l, FallbackCompare(s, l))
<1> DEFINE v == FallbackCompare(s, l)
<1>1. CASE s = l
  BY <1>1, FallbackRules, SameHonest, CredFiles
<1>2. CASE s # l
  <2>1. ~Lonely(s, l)
    BY DEF Lonely
  <2>2. v.kind \in {"fresh", "rotated", "stale"} /\ (v.subtype # "none") = (v.kind = "rotated")
    BY <1>2, FallbackRules DEF Unclear, FreshVerdict, Stale, Rotated, Verdict
  <2>3. ASSUME {s.form, l.form} \cap {"broken", "inner"} # {} PROVE v.kind = "rotated" /\ v.confidence = "low"
    BY <1>2, <2>3, FallbackRules, UnreadPair DEF Unclear, Rotated, Verdict
  <2>4. ASSUME v.kind = "fresh", NEW x \in Known("plugin", s), Both(s, l, x) PROVE Same(s, l, {x})
    <3>1. Same(s, l, {"token"}) /\ ~(s.f["token"] = 0 /\ l.f["token"] = 0)
      BY <1>2, <2>4, FallbackRules DEF Unclear, FreshVerdict, Stale, Rotated, Verdict
    <3>2. s.f[x] # 0 /\ x \in FieldsOf["plugin"] /\ x \notin {"key", "rest"}
      BY <2>4, <3>1 DEF Both, Known, Held, Same
    <3> QED
      BY <3>1, <3>2, FieldsAre
  <2>5. ASSUME Differs("plugin", s, l) PROVE v.kind = "stale"
    BY <2>5, DiffersIn
  <2> HIDE DEF v
  <2>6. Honest("plugin", s, l, v)
    BY <1>2, <2>1, <2>2, <2>3, <2>4, <2>5 DEF Honest
  <2> QED
    BY <2>6 DEF v
<1> QED
  BY <1>1, <1>2

\* The verdict on every pair of files of one kind is honest.
\* Whatever the two sides of a file hold, the verdict on them is honest.
LEMMA CompareHonest ==
  ASSUME NEW file \in CredFile, NEW s \in Held(file), NEW l \in Held(file)
  PROVE  Honest(file, s, l, CompareOne(file, s, l))
<1>1. CASE s = NoDoc /\ l = NoDoc
  BY <1>1, SameHonest DEF CompareOne
<1>2. CASE Lonely(s, l)
  <2>1. CompareOne(file, s, l) = Stale("high")
    BY <1>2 DEF CompareOne, Lonely
  <2>2. Stale("high").kind = "stale" /\ Stale("high").subtype = "none"
    BY DEF Stale, Verdict
  <2> QED
    BY <2>1, <2>2 DEF Honest
<1>3. CASE s # NoDoc /\ l # NoDoc
  <2>1. CASE file = "auth"
    BY <1>3, <2>1, CodexHonest DEF CompareOne
  <2>2. CASE file = "oauth"
    BY <1>3, <2>2, OauthHonest DEF CompareOne
  <2>3. CASE file = "accounts"
    BY <1>3, <2>3, GoogleHonest DEF CompareOne
  <2>4. CASE file = "credentials"
    BY <1>3, <2>4, ClaudeHonest DEF CompareOne
  <2>5. CASE file = "providers"
    BY <1>3, <2>5, OpencodeHonest DEF CompareOne
  <2>6. CASE file = "secrets"
    BY <1>3, <2>6, YamlHonest DEF CompareOne
  <2>7. CASE file = "config"
    BY <1>3, <2>7, YamlHonest DEF CompareOne
  <2>8. CASE file = "keyring"
    BY <1>3, <2>8, KeyringHonest DEF CompareOne
  <2>9. CASE file = "plugin"
    BY <1>3, <2>9, FallbackHonest DEF CompareOne
  <2>10. CASE file \in {"cache", "crush", "secret"}
    BY <1>3, <2>10, OpaqueHonest DEF CompareOne
  <2> QED
    BY <2>1, <2>2, <2>3, <2>4, <2>5, <2>6, <2>7, <2>8, <2>9, <2>10, CredFiles
<1> QED
  BY <1>1, <1>2, <1>3 DEF Lonely

\* A CLI has one or two files, and a plugin has the one that the fallback compares.
LEMMA FilesOwned ==
  ASSUME tool \in Tool
  PROVE  /\ DOMAIN OwnFiles = 1..Len(OwnFiles) /\ Len(OwnFiles) \in {1, 2}
         /\ \A i \in DOMAIN OwnFiles : OwnFiles[i] \in CredFile
         /\ tool = "plugin" => Len(OwnFiles) = 1 /\ OwnFiles[1] = "plugin"
         /\ tool # "plugin" => \A i \in DOMAIN OwnFiles : OwnFiles[i] # "plugin"
<1>1. \/ OwnFiles = <<"plugin">> /\ tool = "plugin"
      \/ tool # "plugin" /\ \E f \in CredFile \ {"plugin"} : OwnFiles = <<f>>
      \/ tool # "plugin" /\ \E f, g \in CredFile \ {"plugin"} : OwnFiles = <<f, g>>
  BY FilesAre, CredFiles DEF OwnFiles, Tool
<1>2. "plugin" \in CredFile
  BY CredFiles
<1>3. CASE OwnFiles = <<"plugin">> /\ tool = "plugin"
  BY <1>2, <1>3
<1>4. ASSUME tool # "plugin", NEW f \in CredFile \ {"plugin"}, OwnFiles = <<f>>
      PROVE  /\ DOMAIN OwnFiles = 1..Len(OwnFiles) /\ Len(OwnFiles) \in {1, 2}
             /\ \A i \in DOMAIN OwnFiles : OwnFiles[i] \in CredFile /\ OwnFiles[i] # "plugin"
  BY <1>4
<1>5. ASSUME tool # "plugin", NEW f \in CredFile \ {"plugin"}, NEW g \in CredFile \ {"plugin"}, OwnFiles = <<f, g>>
      PROVE  /\ DOMAIN OwnFiles = 1..Len(OwnFiles) /\ Len(OwnFiles) \in {1, 2}
             /\ \A i \in DOMAIN OwnFiles : OwnFiles[i] \in CredFile /\ OwnFiles[i] # "plugin"
  BY <1>5
<1> QED
  BY <1>1, <1>3, <1>4, <1>5

\* What the files start with, and what the CLI writes, is what a file can hold.
LEMMA DocsHeld ==
  ASSUME NEW file \in CredFile, NEW most \in Nat, NEW d \in Docs(file, most)
  PROVE  d \in Held(file)
<1>0. FieldsOf[file] \subseteq Field /\ Field \subseteq Field
  BY DEF Field, CredFile
<1>1. CASE d = NoDoc
  BY <1>1, DocsAre, FieldIs DEF Held, DocForm, Sensible
<1>2. CASE d = Doc("broken", <<>>)
  BY <1>2, DocsAre, FieldIs DEF Held, DocForm, Sensible
<1>3. CASE d = Doc("inner", [x \in {"user"} |-> 1]) /\ "wrapped" \in FormsOf(file)
  BY <1>3, DocsAre, FieldIs, FieldsAre DEF Held, DocForm, Sensible, FormsOf
<1>4. ASSUME NEW form \in FormsOf(file), NEW fields \in [FieldsOf[file] -> 0..most],
             d = Doc(form, fields), Sensible(file, d)
      PROVE  d \in Held(file)
  <2>1. d = [form |-> form, f |-> [x \in Field |-> IF x \in FieldsOf[file] THEN fields[x] ELSE 0]]
    BY <1>4 DEF Doc
  <2>2. d.f \in [Field -> Nat] /\ \A x \in Field : d.f[x] # 0 => x \in FieldsOf[file]
    BY <2>1
  <2>3. form \in {"plain", "wrapped"} /\ (form = "wrapped" => file \in {"credentials", "keyring"})
    BY DEF FormsOf
  <2> QED
    BY <1>4, <2>1, <2>2, <2>3 DEF Held, DocForm
<1>5. d.form = "inner" => "inner" # "broken"
  OBVIOUS
<1>6. \/ d = NoDoc \/ d = Doc("broken", <<>>)
      \/ d = Doc("inner", [x \in {"user"} |-> 1]) /\ "wrapped" \in FormsOf(file)
      \/ \E form \in FormsOf(file), fields \in [FieldsOf[file] -> 0..most] : d = Doc(form, fields) /\ Sensible(file, d)
  BY DocsAre DEF Docs, Damaged
<1> QED
  BY <1>1, <1>2, <1>3, <1>4, <1>6

LEMMA WrittenHeld ==
  ASSUME NEW file \in CredFile, NEW d \in Held(file), IsParsed(d),
         NEW on \in {{"token"}, {"token", "account", "tier"}}
  PROVE  [d EXCEPT !.f = [x \in Field |-> IF x \in on /\ d.f[x] # 0 THEN LiveValues ELSE d.f[x]]] \in Held(file)
<1> DEFINE e == [d EXCEPT !.f = [x \in Field |-> IF x \in on /\ d.f[x] # 0 THEN LiveValues ELSE d.f[x]]]
<1>1. /\ e.form = d.form /\ e \in [form : DocForm, f : [Field -> Nat]]
      /\ \A x \in Field : e.f[x] = (IF x \in on /\ d.f[x] # 0 THEN LiveValues ELSE d.f[x])
  BY FreshnessAssumption DEF Held
<1>2. Sensible(file, e)
  BY <1>1, FieldIs DEF Held, Sensible
<1> QED
  BY <1>1, <1>2 DEF Held, IsParsed

LEMMA NothingHeld == \A file \in CredFile : NoDoc \in Held(file)
BY DocsHeld DEF Docs

\* What the files hold, live, stored and read.
FilesHeld ==
  /\ tool \in Tool /\ liveWrites \in 0..MaxLiveWrites
  /\ DOMAIN saved = DOMAIN OwnFiles /\ DOMAIN current = DOMAIN OwnFiles
  /\ \A i \in DOMAIN OwnFiles : saved[i] \in Held(OwnFiles[i]) /\ current[i] \in Held(OwnFiles[i])

DocType == [form : DocForm, f : [Field -> Nat]]
Pair == [stored : DocType, live : DocType]
Compared(i) == CompareOne(OwnFiles[i], inspection.read[i].stored, inspection.read[i].live)

\* The verdicts so far are those on the pairs that were read; at the end they are put together.
InspectionFits ==
  LET read == inspection.read
      verdicts == inspection.verdicts
      step == inspection.step
  IN  /\ inspection = [step |-> step, read |-> read, verdicts |-> verdicts]
      /\ step \in {"idle", "stored", "live", "done"} /\ read \in Seq(Pair)
      /\ step = "idle" => read = <<>> /\ verdicts = <<>>
      /\ tool = "env" => step \in {"idle", "done"}
      /\ tool = "env" /\ step = "done" => verdicts = <<Verdict("unsupported", "none", "high")>>
      /\ step = "stored" => Len(read) < Len(OwnFiles) /\ Len(verdicts) = Len(read)
      /\ step = "live" => Len(read) \in 1..Len(OwnFiles) /\ Len(verdicts) + 1 = Len(read)
      /\ \A i \in 1..Len(read) : read[i].stored \in Held(OwnFiles[i]) /\ read[i].live \in Held(OwnFiles[i])
      /\ step \in {"stored", "live"} =>
           /\ \E S : verdicts \in Seq(S)
           /\ \A i \in 1..Len(verdicts) : verdicts[i] = Compared(i)
      /\ tool # "env" /\ step = "done" =>
           /\ Len(read) = Len(OwnFiles)
           /\ \E raw : /\ verdicts = AggregateInflight(raw) /\ DOMAIN raw = DOMAIN OwnFiles
                       /\ \A i \in DOMAIN OwnFiles : raw[i] = Compared(i)

FreshInv == FilesHeld /\ InspectionFits /\ IdentityTrue

\* What is written down of the account is true of the files it is built from.
LEMMA IdentityBuilt ==
  ASSUME tool \in Tool, NEW docs, DOMAIN docs = DOMAIN OwnFiles, NEW carried
  PROVE  LET id == BuildProfileIdentity(OwnFiles, docs, carried)
         IN  /\ \A i \in DOMAIN OwnFiles : id.signals[i] = Signals(OwnFiles[i], docs[i])
             /\ id.complete = "complete" => NoDoc \notin Range(docs) /\ carried = {}
             /\ id.carried = carried
<1> DEFINE have == {i \in DOMAIN OwnFiles : docs[i] # NoDoc}
           complete == CASE have = DOMAIN OwnFiles /\ carried = {} -> "complete"
                         [] have = {} -> "unknown" [] OTHER -> "partial"
<1>1. BuildProfileIdentity(OwnFiles, docs, carried) =
        [signals |-> [i \in DOMAIN OwnFiles |-> Signals(OwnFiles[i], docs[i])], complete |-> complete,
         carried |-> carried]
  BY DEF BuildProfileIdentity
<1>2. DOMAIN OwnFiles # {}
  BY FilesOwned
<1>3. ASSUME complete = "complete" PROVE have = DOMAIN OwnFiles /\ carried = {}
  BY <1>2, <1>3
<1>4. have = DOMAIN OwnFiles => NoDoc \notin Range(docs)
  BY DEF Range
<1> QED
  BY <1>1, <1>3, <1>4

LEMMA FreshInitInv == FreshInit => FreshInv
<1> SUFFICES ASSUME FreshInit PROVE FreshInv
  OBVIOUS
<1>1. PICK c \in Tool : tool = c /\ saved \in Sides(c, SavedValues) /\ current \in Sides(c, LiveValues)
  BY DEF FreshInit
<1>2. OwnFiles = FilesOf[c] /\ tool \in Tool
  BY <1>1 DEF OwnFiles
<1>3. ASSUME NEW most \in Nat, NEW side \in Sides(c, most)
      PROVE  DOMAIN side = DOMAIN OwnFiles /\ \A i \in DOMAIN OwnFiles : side[i] \in Docs(OwnFiles[i], most)
  <2>1. CASE Len(OwnFiles) = 1
    BY <1>2, <2>1, FilesOwned DEF Sides
  <2>2. CASE Len(OwnFiles) = 2
    BY <1>2, <2>2, FilesOwned DEF Sides
  <2> QED
    BY <1>2, <2>1, <2>2, FilesOwned
<1>4. FilesHeld
  BY <1>1, <1>2, <1>3, FilesOwned, DocsHeld, FreshnessAssumption DEF FilesHeld, FreshInit
<1>5. IdentityTrue
  BY <1>2, <1>4, IdentityBuilt DEF FilesHeld, FreshInit, IdentityTrue
<1>6. InspectionFits
  BY DEF FreshInit, InspectionFits, NoInspection
<1> QED
  BY <1>4, <1>5, <1>6 DEF FreshInv

\* Nothing but the inspection changes.
Still == UNCHANGED <<tool, saved, current, identity, liveWrites>>

\* What an inspection leaves alone stays as it is.
LEMMA StillHeld == ASSUME FreshInv, Still PROVE FilesHeld' /\ IdentityTrue' /\ OwnFiles' = OwnFiles
<1>1. OwnFiles' = OwnFiles
  BY DEF Still, OwnFiles
<1>2. FilesHeld'
  BY <1>1 DEF Still, FreshInv, FilesHeld
<1>3. IdentityTrue'
  BY <1>1 DEF Still, FreshInv, IdentityTrue
<1> QED
  BY <1>1, <1>2, <1>3

\* The steps of an inspection: it begins, reads what is stored, and what is live.
LEMMA BeginFits == ASSUME FreshInv, BeginInspection PROVE InspectionFits'
<1>1. InspectionFits /\ tool' = tool
  BY DEF FreshInv, BeginInspection
<1>2. OwnFiles' = OwnFiles /\ Len(OwnFiles) \in {1, 2}
  BY FilesOwned DEF FreshInv, FilesHeld, BeginInspection, OwnFiles
<1>3. CASE tool = "env"
  <2>1. inspection' = [step |-> "done", read |-> <<>>, verdicts |-> <<Verdict("unsupported", "none", "high")>>]
    BY <1>3 DEF BeginInspection, NoInspection
  <2> QED
    BY <1>1, <1>2, <1>3, <2>1 DEF InspectionFits
<1>4. CASE tool # "env"
  <2>1. inspection' = [step |-> "stored", read |-> <<>>, verdicts |-> <<>>]
    BY <1>4 DEF BeginInspection, NoInspection
  <2>2. <<>> \in Seq(Pair) /\ Len(<<>>) = 0 /\ 1..0 = {} /\ 0 < Len(OwnFiles)
    BY <1>2
  <2>3. \E S : inspection'.verdicts \in Seq(S)
    BY <2>1, <2>2
  <2>4. /\ inspection' = [step |-> inspection'.step, read |-> inspection'.read, verdicts |-> inspection'.verdicts]
        /\ inspection'.step = "stored" /\ inspection'.read \in Seq(Pair)
        /\ Len(inspection'.read) = 0 /\ Len(inspection'.verdicts) = 0
    BY <2>1, <2>2
  <2>5. \A i \in 1..0 : FALSE
    BY <2>2
  <2>6. /\ \A i \in 1..Len(inspection'.read) : inspection'.read[i].stored \in Held(OwnFiles'[i]) /\ inspection'.read[i].live \in Held(OwnFiles'[i])
        /\ \A i \in 1..Len(inspection'.verdicts) : inspection'.verdicts[i] = Compared(i)'
    BY <2>4, <2>5
  <2> QED
    BY <1>1, <1>2, <1>4, <2>2, <2>3, <2>4, <2>6 DEF InspectionFits
<1> QED
  BY <1>3, <1>4

LEMMA HeldTyped == ASSUME NEW file \in CredFile PROVE Held(file) \subseteq DocType /\ NoDoc \in Held(file)
BY NothingHeld DEF Held, DocType

\* A file that was read is appended, with nothing yet on its other side.
LEMMA StoredFits == ASSUME FreshInv, ReadStored PROVE InspectionFits'
<1> DEFINE read == inspection.read
           verdicts == inspection.verdicts
           n == Len(read) + 1
           pair == [stored |-> saved[n], live |-> NoDoc]
<1>1. /\ InspectionFits /\ FilesHeld /\ Still /\ inspection.step = "stored"
      /\ inspection' = [inspection EXCEPT !.step = "live", !.read = Append(read, pair)]
  BY DEF FreshInv, ReadStored, Still
<1>2. OwnFiles' = OwnFiles /\ tool' = tool
  BY <1>1 DEF Still, OwnFiles
<1>3. /\ DOMAIN OwnFiles = 1..Len(OwnFiles) /\ Len(OwnFiles) \in {1, 2}
      /\ \A i \in DOMAIN OwnFiles : OwnFiles[i] \in CredFile
  BY <1>1, FilesOwned DEF FilesHeld
<1>4. /\ inspection = [step |-> "stored", read |-> read, verdicts |-> verdicts]
      /\ read \in Seq(Pair) /\ Len(read) < Len(OwnFiles) /\ Len(verdicts) = Len(read)
      /\ \A i \in 1..Len(read) : read[i].stored \in Held(OwnFiles[i]) /\ read[i].live \in Held(OwnFiles[i])
      /\ \E S : verdicts \in Seq(S)
      /\ \A i \in 1..Len(verdicts) : verdicts[i] = CompareOne(OwnFiles[i], read[i].stored, read[i].live)
      /\ tool # "env"
  BY <1>1 DEF InspectionFits, Compared
<1>5. n \in 1..Len(OwnFiles) /\ Len(read) \in Nat
  BY <1>3, <1>4
<1>6. saved[n] \in Held(OwnFiles[n]) /\ NoDoc \in Held(OwnFiles[n]) /\ pair \in Pair
  BY <1>1, <1>3, <1>5, HeldTyped DEF FilesHeld, Pair
<1>7. inspection' = [step |-> "live", read |-> Append(read, pair), verdicts |-> verdicts]
  BY <1>1, <1>4
<1> HIDE DEF read, verdicts, n, pair
<1>8. /\ Append(read, pair) \in Seq(Pair) /\ Len(Append(read, pair)) = n
      /\ Append(read, pair)[n] = pair
      /\ \A i \in 1..Len(read) : Append(read, pair)[i] = read[i]
  BY <1>4, <1>6 DEF n
<1>9. pair.stored = saved[n] /\ pair.live = NoDoc
  BY DEF pair
<1>10. \A i \in 1..n : Append(read, pair)[i].stored \in Held(OwnFiles[i])
                      /\ Append(read, pair)[i].live \in Held(OwnFiles[i])
  <2> TAKE i \in 1..n
  <2>1. i = n \/ i \in 1..Len(read)
    BY <1>5 DEF n
  <2> QED
    BY <1>4, <1>6, <1>8, <1>9, <2>1
<1>11. \A i \in 1..Len(verdicts) : verdicts[i] = Compared(i)'
  BY <1>2, <1>4, <1>7, <1>8 DEF Compared
<1>12. Len(verdicts) + 1 = n
  BY <1>4 DEF n
<1> QED
  BY <1>2, <1>4, <1>5, <1>7, <1>8, <1>10, <1>11, <1>12 DEF InspectionFits

\* The other side completes the pair, and its verdict is appended.
LEMMA LiveFits == ASSUME FreshInv, ReadLive PROVE InspectionFits'
<1> DEFINE read == inspection.read
           verdicts == inspection.verdicts
           n == Len(read)
           verdict == CompareOne(OwnFiles[n], read[n].stored, current[n])
           raw == Append(verdicts, verdict)
           next == [read EXCEPT ![n].live = current[n]]
           last == n = Len(OwnFiles)
<1>1. /\ InspectionFits /\ FilesHeld /\ Still /\ inspection.step = "live"
      /\ inspection' = [step |-> IF last THEN "done" ELSE "stored", read |-> next,
                        verdicts |-> IF last THEN AggregateInflight(raw) ELSE raw]
  BY DEF FreshInv, ReadLive, Still
<1>2. OwnFiles' = OwnFiles /\ tool' = tool
  BY <1>1 DEF Still, OwnFiles
<1>3. /\ DOMAIN OwnFiles = 1..Len(OwnFiles) /\ Len(OwnFiles) \in {1, 2}
      /\ \A i \in DOMAIN OwnFiles : OwnFiles[i] \in CredFile
  BY <1>1, FilesOwned DEF FilesHeld
<1>4. /\ read \in Seq(Pair) /\ n \in 1..Len(OwnFiles) /\ Len(verdicts) + 1 = n
      /\ \A i \in 1..n : read[i].stored \in Held(OwnFiles[i]) /\ read[i].live \in Held(OwnFiles[i])
      /\ \E S : verdicts \in Seq(S)
      /\ \A i \in 1..Len(verdicts) : verdicts[i] = CompareOne(OwnFiles[i], read[i].stored, read[i].live)
      /\ tool # "env"
  BY <1>1 DEF InspectionFits, Compared
<1>5. current[n] \in Held(OwnFiles[n]) /\ current[n] \in DocType
  BY <1>1, <1>3, <1>4, HeldTyped DEF FilesHeld
<1>6. /\ next \in Seq(Pair) /\ Len(next) = n
      /\ next[n].stored = read[n].stored /\ next[n].live = current[n]
      /\ \A i \in 1..n : i # n => next[i] = read[i]
  <2>1. read[n] \in Pair /\ DOMAIN read = 1..n
    BY <1>3, <1>4
  <2> DEFINE pair == [read[n] EXCEPT !.live = current[n]]
  <2>2. next = [read EXCEPT ![n] = pair]
    OBVIOUS
  <2>3. pair \in Pair /\ pair.stored = read[n].stored /\ pair.live = current[n]
    BY <1>5, <2>1 DEF Pair
  <2> HIDE DEF pair, next
  <2> QED
    BY <1>3, <1>4, <2>1, <2>2, <2>3
<1>7. PICK S : verdicts \in Seq(S)
  BY <1>4
<1> HIDE DEF read, verdicts, verdict, next
<1>8. /\ raw \in Seq(S \union {verdict}) /\ Len(raw) = n /\ raw[n] = verdict
      /\ \A i \in 1..Len(verdicts) : raw[i] = verdicts[i]
  <2>1. verdicts \in Seq(S \union {verdict})
    BY <1>7
  <2> QED
    BY <1>4, <2>1
<1>9. \A i \in 1..n : raw[i] = CompareOne(OwnFiles[i], next[i].stored, next[i].live)
  <2> TAKE i \in 1..n
  <2>1. CASE i = n
    BY <1>6, <1>8, <2>1 DEF verdict
  <2>2. CASE i # n
    <3>1. i \in 1..Len(verdicts)
      BY <1>3, <1>4, <2>2
    <3> QED
      BY <1>4, <1>6, <1>8, <2>2, <3>1
  <2> QED
    BY <2>1, <2>2
<1>10. \A i \in 1..n : next[i].stored \in Held(OwnFiles[i]) /\ next[i].live \in Held(OwnFiles[i])
  BY <1>4, <1>5, <1>6
<1>11. inspection'.read = next /\ DOMAIN raw = 1..n
  BY <1>1, <1>8
<1>12. \A i \in 1..n : raw[i] = Compared(i)'
  BY <1>2, <1>9, <1>11 DEF Compared
<1> HIDE DEF n, raw
<1>13. CASE last
  <2>1. inspection' = [step |-> "done", read |-> next, verdicts |-> AggregateInflight(raw)]
    BY <1>1, <1>13
  <2>2. DOMAIN raw = DOMAIN OwnFiles /\ \A i \in DOMAIN OwnFiles : raw[i] = Compared(i)'
    BY <1>3, <1>11, <1>12, <1>13
  <2> QED
    BY <1>2, <1>4, <1>6, <1>10, <1>13, <2>1, <2>2 DEF InspectionFits
<1>14. CASE ~last
  <2>1. inspection' = [step |-> "stored", read |-> next, verdicts |-> raw]
    BY <1>1, <1>14
  <2>2. n < Len(OwnFiles)
    <3>1. n \in 1..Len(OwnFiles) /\ n # Len(OwnFiles) /\ Len(OwnFiles) \in {1, 2}
      BY <1>3, <1>4, <1>14, Zenon
    <3> HIDE DEF last
    <3> QED
      BY <3>1
  <2> QED
    BY <1>2, <1>4, <1>6, <1>8, <1>10, <1>12, <2>1, <2>2 DEF InspectionFits
<1> QED
  BY <1>13, <1>14

\* A capture stores what is live, and writes down the account it is of; the CLI writes on.
LEMMA CaptureFits == ASSUME FreshInv, CaptureAfterReport PROVE FreshInv'
<1> DEFINE gone == {i \in DOMAIN OwnFiles : current[i] = NoDoc}
           kept == [i \in DOMAIN OwnFiles |-> IF i \in gone THEN saved[i] ELSE current[i]]
           carried == {OwnFiles[i] : i \in {j \in gone : saved[j] # NoDoc}}
<1>1. /\ FilesHeld /\ tool' = tool /\ current' = current /\ liveWrites' = liveWrites
      /\ saved' = kept /\ identity' = BuildProfileIdentity(OwnFiles, kept, carried) /\ inspection' = NoInspection
  BY DEF FreshInv, CaptureAfterReport, IdentityOfKept
<1>2. OwnFiles' = OwnFiles /\ tool \in Tool
  BY <1>1 DEF OwnFiles, FilesHeld
<1>3. DOMAIN kept = DOMAIN OwnFiles /\ \A i \in DOMAIN OwnFiles : kept[i] \in Held(OwnFiles[i])
  BY <1>1 DEF FilesHeld
<1>4. FilesHeld'
  BY <1>1, <1>2, <1>3 DEF FilesHeld
<1> HIDE DEF kept, carried
<1> DEFINE id == BuildProfileIdentity(OwnFiles, kept, carried)
<1>5. /\ \A i \in DOMAIN OwnFiles : id.signals[i] = Signals(OwnFiles[i], kept[i])
      /\ id.complete = "complete" => NoDoc \notin Range(kept) /\ carried = {}
      /\ id.carried = carried
  BY <1>2, <1>3, IdentityBuilt
<1> HIDE DEF id
<1>6. IdentityTrue'
  BY <1>1, <1>2, <1>5 DEF IdentityTrue, id
<1>7. InspectionFits'
  BY <1>1 DEF InspectionFits, NoInspection
<1> QED
  BY <1>4, <1>6, <1>7 DEF FreshInv

LEMMA WriteFits == ASSUME FreshInv, WriteLive PROVE FreshInv'
<1>1. /\ FreshInv /\ UNCHANGED <<tool, saved, identity, inspection>> /\ liveWrites' \in 0..MaxLiveWrites
  BY FreshnessAssumption DEF FreshInv, FilesHeld, WriteLive
<1>2. OwnFiles' = OwnFiles
  BY <1>1 DEF OwnFiles
<1>3. PICK i \in DOMAIN OwnFiles :
        \/ current' = [current EXCEPT ![i] = NoDoc]
        \/ /\ IsParsed(current[i])
           /\ \E on \in {{"token"}, {"token", "account", "tier"}} :
                current' = [current EXCEPT ![i].f =
                  [x \in Field |-> IF x \in on /\ current[i].f[x] # 0 THEN LiveValues ELSE current[i].f[x]]]
  BY DEF WriteLive
<1>4. OwnFiles[i] \in CredFile /\ current[i] \in Held(OwnFiles[i])
  BY <1>1, FilesOwned DEF FreshInv, FilesHeld
<1>5. \E d \in Held(OwnFiles[i]) : current' = [current EXCEPT ![i] = d]
  <2>1. CASE current' = [current EXCEPT ![i] = NoDoc]
    BY <1>4, <2>1, NothingHeld
  <2>2. ASSUME IsParsed(current[i]), NEW on \in {{"token"}, {"token", "account", "tier"}},
               current' = [current EXCEPT ![i].f =
                  [x \in Field |-> IF x \in on /\ current[i].f[x] # 0 THEN LiveValues ELSE current[i].f[x]]]
        PROVE  \E d \in Held(OwnFiles[i]) : current' = [current EXCEPT ![i] = d]
    <3> DEFINE d == [current[i] EXCEPT !.f =
                  [x \in Field |-> IF x \in on /\ current[i].f[x] # 0 THEN LiveValues ELSE current[i].f[x]]]
    <3>1. d \in Held(OwnFiles[i])
      BY <1>4, <2>2, WrittenHeld
    <3>2. current' = [current EXCEPT ![i] = d]
      BY <2>2
    <3> QED
      BY <3>1, <3>2
  <2> QED
    BY <1>3, <2>1, <2>2
<1>6. DOMAIN current' = DOMAIN OwnFiles /\ \A j \in DOMAIN OwnFiles : current'[j] \in Held(OwnFiles[j])
  BY <1>1, <1>5 DEF FreshInv, FilesHeld
<1>7. FilesHeld'
  BY <1>1, <1>2, <1>6 DEF FreshInv, FilesHeld
<1>8. IdentityTrue' /\ InspectionFits'
  BY <1>1, <1>2 DEF FreshInv, IdentityTrue, InspectionFits, Compared
<1> QED
  BY <1>7, <1>8 DEF FreshInv

LEMMA FreshStepInv == FreshInv /\ [FreshNext]_freshVars => FreshInv'
<1> SUFFICES ASSUME FreshInv, [FreshNext]_freshVars PROVE FreshInv'
  OBVIOUS
<1>1. CASE BeginInspection
  <2>1. Still
    BY <1>1 DEF BeginInspection, Still
  <2> QED
    BY <1>1, <2>1, StillHeld, BeginFits DEF FreshInv
<1>2. CASE ReadStored
  <2>1. Still
    BY <1>2 DEF ReadStored, Still
  <2> QED
    BY <1>2, <2>1, StillHeld, StoredFits DEF FreshInv
<1>3. CASE ReadLive
  <2>1. Still
    BY <1>3 DEF ReadLive, Still
  <2> QED
    BY <1>3, <2>1, StillHeld, LiveFits DEF FreshInv
<1>4. CASE CaptureAfterReport
  BY <1>4, CaptureFits
<1>5. CASE WriteLive
  BY <1>5, WriteFits
<1>6. CASE UNCHANGED freshVars
  <2>1. Still /\ inspection' = inspection
    BY <1>6 DEF freshVars, Still
  <2>2. InspectionFits'
    BY <2>1, StillHeld DEF FreshInv, InspectionFits, Compared, Still
  <2> QED
    BY <2>1, <2>2, StillHeld DEF FreshInv
<1> QED
  BY <1>1, <1>2, <1>3, <1>4, <1>5, <1>6 DEF FreshNext

\* The verdicts of a finished report are those of the pairs, put together.
LEMMA ReportInv == FreshInv => ReportHonest
<1> SUFFICES ASSUME FreshInv, inspection.step = "done", tool # "env" PROVE ReportHonest
  BY DEF ReportHonest
<1> DEFINE read == inspection.read
           verdicts == inspection.verdicts
<1>1. /\ DOMAIN OwnFiles = 1..Len(OwnFiles) /\ Len(OwnFiles) \in {1, 2}
      /\ \A i \in DOMAIN OwnFiles : OwnFiles[i] \in CredFile
      /\ tool = "plugin" => Len(OwnFiles) = 1 /\ OwnFiles[1] = "plugin"
      /\ tool # "plugin" => \A i \in DOMAIN OwnFiles : OwnFiles[i] # "plugin"
  BY FilesOwned DEF FreshInv, FilesHeld
<1>2. PICK raw : /\ verdicts = AggregateInflight(raw) /\ DOMAIN raw = DOMAIN OwnFiles
                 /\ \A i \in DOMAIN OwnFiles : raw[i] = Compared(i)
  BY DEF FreshInv, InspectionFits
<1>3. /\ DOMAIN read = DOMAIN OwnFiles
      /\ \A i \in DOMAIN OwnFiles : read[i].stored \in Held(OwnFiles[i]) /\ read[i].live \in Held(OwnFiles[i])
  BY <1>1 DEF FreshInv, InspectionFits
<1>4. \A i \in DOMAIN OwnFiles : Honest(OwnFiles[i], read[i].stored, read[i].live, raw[i])
  BY <1>1, <1>2, <1>3, CompareHonest DEF Compared
<1> DEFINE both == {"rotated", "stale"} \subseteq {v.kind : v \in Range(raw)}
<1>5. /\ DOMAIN verdicts = DOMAIN OwnFiles
      /\ \A i \in DOMAIN OwnFiles :
           verdicts[i] = IF both /\ raw[i].kind \in {"rotated", "stale"}
                         THEN Verdict("inflight", "none", "medium") ELSE raw[i]
  BY <1>2 DEF AggregateInflight
<1>6. both <=> (\E i, j \in DOMAIN OwnFiles : raw[i].kind = "rotated" /\ raw[j].kind = "stale")
  BY <1>2 DEF Range
<1>7. Verdict("inflight", "none", "medium").kind = "inflight"
  BY DEF Verdict
<1>8. Range(verdicts) = {verdicts[i] : i \in DOMAIN OwnFiles}
  BY <1>5 DEF Range
<1>9. \A i \in DOMAIN OwnFiles : raw[i].kind = "stale" => verdicts[i].kind \in {"stale", "inflight"}
  BY <1>5, <1>7
<1>10. ASSUME NEW i \in DOMAIN OwnFiles, raw[i].kind = "stale"
       PROVE  /\ HasUnsafe(verdicts) /\ NeedsUserAttention(verdicts)
              /\ \A j \in DOMAIN OwnFiles : verdicts[j].kind # "rotated"
  <2>1. HasUnsafe(verdicts) /\ NeedsUserAttention(verdicts)
    BY <1>8, <1>9, <1>10 DEF HasUnsafe, NeedsUserAttention
  <2>2. ASSUME NEW j \in DOMAIN OwnFiles PROVE verdicts[j].kind # "rotated"
    BY <1>5, <1>6, <1>7, <1>10
  <2> QED
    BY <2>1, <2>2
<1> HIDE DEF read, verdicts, both
<1>11. ASSUME Route(verdicts) = "goes on", NEW i \in DOMAIN OwnFiles PROVE raw[i].kind = "fresh"
  <2>1. ~NeedsUserAttention(verdicts)
    BY <1>11 DEF Route
  <2>2. verdicts[i].kind = "fresh"
    BY <1>8, <2>1 DEF NeedsUserAttention
  <2> QED
    BY <1>5, <1>7, <2>2
<1>12. ASSUME ~HasUnsafe(verdicts), NEW i \in DOMAIN OwnFiles
       PROVE  raw[i].kind = "fresh" \/ (raw[i].kind = "rotated" /\ raw[i].confidence # "low")
  <2>1. verdicts[i].kind \notin {"stale", "inflight"} /\ ~(verdicts[i].kind = "rotated" /\ verdicts[i].confidence = "low")
    BY <1>8, <1>12 DEF HasUnsafe
  <2>2. raw[i].kind \in {"fresh", "rotated", "stale"}
    BY <1>4 DEF Honest
  <2> QED
    BY <1>5, <1>7, <2>1, <2>2
<1>13. ASSUME NEW i \in DOMAIN OwnFiles, AccountDiffers(i) PROVE raw[i].kind = "stale"
  BY <1>4, <1>13 DEF AccountDiffers, Differs, Honest, read
<1>14. ASSUME Route(verdicts) = "goes on", NEW i \in DOMAIN OwnFiles
       PROVE  /\ ~Lonely(read[i].stored, read[i].live)
              /\ \A x \in Known(OwnFiles[i], read[i].stored) :
                   Both(read[i].stored, read[i].live, x) => Same(read[i].stored, read[i].live, {x})
  BY <1>4, <1>11, <1>14 DEF Honest
<1>15. \A i \in DOMAIN OwnFiles :
         Field \ (IF tool = "plugin" /\ read[1].stored.f["token"] # 0 THEN {"key", "mode", "rest"} ELSE {"mode", "rest"})
           = Known(OwnFiles[i], read[i].stored)
  BY <1>1 DEF Known
<1>16. ASSUME ~HasUnsafe(verdicts), NEW i \in DOMAIN OwnFiles
       PROVE  /\ ~Lonely(read[i].stored, read[i].live)
              /\ {read[i].stored.form, read[i].live.form} \cap {"broken", "inner"} # {} => read[i].stored = read[i].live
  BY <1>4, <1>12, <1>16 DEF Honest
<1>17. (\E i \in DOMAIN OwnFiles : AccountDiffers(i)) =>
         /\ HasUnsafe(verdicts) /\ Route(verdicts) # "goes on"
         /\ \A i \in DOMAIN OwnFiles : verdicts[i].kind # "rotated"
  BY <1>10, <1>13 DEF Route
<1> QED
  BY <1>3, <1>14, <1>15, <1>16, <1>17 DEF ReportHonest, Lonely, read, verdicts

\* A report on the credentials of a CLI is honest whatever the CLI writes while its files are read, and
\* so is what a capture writes down of their account (ReportHonest, IdentityTrue).
THEOREM ReportsHonest == FreshSpec => [](ReportHonest /\ IdentityTrue)
<1>1. FreshInv => ReportHonest /\ IdentityTrue
  BY ReportInv DEF FreshInv
<1> QED
  BY <1>1, FreshInitInv, FreshStepInv, PTL DEF FreshSpec

-----------------------------------------------------------------------------
(* The types of the sources *)

\* What a recovery, a write and a rollback have left to do, whoever else is under way.
Recovers ==
  {MarkerFirst, ExamineFirst, StageGoes, ClearLeft, TreeComes, TreeCame, TreeGoes, TreeReplaces, TreeReplaced,
   DropBackupLeft}
WritesOn ==
  {FillLeft, PrepareLeft, ReviewLeft, SetAsideLeft, BackedUpLeft, ActivateLeft, VerifyLeft, ActivatedLeft,
   DropBackupLeft, ClearLeft}
RollsBack ==
  {MayReturn, Returns, StageMayGo, ReturnsClear, ReturnsOnly, ClearLeft, TreeMayGo, TreeGoes, ExchangeOnly, Exchange}

MarkSteps == {"prepare", "backedUp", "activated"}
PlainSteps == StepNames \ (MarkSteps \union {"makeStage"})

LEMMA RecoveringLeft ==
  ASSUME NEW s \in Recovers
  PROVE  /\ s # <<>> /\ Tail(s) \in Recovers \union {<<>>}
         /\ Head(s) \in {"marker", "examine"} \/ Head(s) \in PlainSteps
<1>1. ASSUME s \in {MarkerFirst, ExamineFirst, StageGoes, ClearLeft, TreeComes}
      PROVE  /\ s # <<>> /\ Tail(s) \in {<<>>, ClearLeft, TreeCame}
             /\ Head(s) \in {"marker", "examine", "dropStage", "clear", "activate"}
  <2>1. s # <<>>
    BY <1>1, Lefts
  <2>2. Tail(s) \in {<<>>, ClearLeft, TreeCame}
    BY <1>1, Lefts, ZenonT(60)
  <2>3. Head(s) \in {"marker", "examine", "dropStage", "clear", "activate"}
    BY <1>1, Lefts, ZenonT(60)
  <2> QED
    BY <2>1, <2>2, <2>3
<1>2. ASSUME s \in {TreeCame, TreeGoes, TreeReplaces, TreeReplaced, DropBackupLeft}
      PROVE  /\ s # <<>> /\ Tail(s) \in {ClearLeft, TreeReplaced, DropBackupLeft}
             /\ Head(s) \in {"verify", "dropRoot", "activate", "dropBackup"}
  <2>1. s # <<>>
    BY <1>2, Lefts
  <2>2. Tail(s) \in {ClearLeft, TreeReplaced, DropBackupLeft}
    BY <1>2, Lefts, ZenonT(60)
  <2>3. Head(s) \in {"verify", "dropRoot", "activate", "dropBackup"}
    BY <1>2, Lefts, ZenonT(60)
  <2> QED
    BY <2>1, <2>2, <2>3
<1> QED
  BY <1>1, <1>2 DEF Recovers, PlainSteps, StepNames, MarkSteps

LEMMA WritingLeft ==
  ASSUME NEW s \in WritesOn
  PROVE  s # <<>> /\ Tail(s) \in WritesOn \union {<<>>} /\ Head(s) \in PlainSteps \union MarkSteps
<1>1. ASSUME s \in {FillLeft, PrepareLeft, ReviewLeft, SetAsideLeft, BackedUpLeft}
      PROVE  /\ s # <<>> /\ Tail(s) \in {PrepareLeft, ReviewLeft, SetAsideLeft, BackedUpLeft, ActivateLeft}
             /\ Head(s) \in {"fillStage", "prepare", "review", "setAside", "backedUp"}
  <2>1. s # <<>>
    BY <1>1, Lefts
  <2>2. Tail(s) \in {PrepareLeft, ReviewLeft, SetAsideLeft, BackedUpLeft, ActivateLeft}
    BY <1>1, Lefts
  <2>3. Head(s) \in {"fillStage", "prepare", "review", "setAside", "backedUp"}
    BY <1>1, Lefts, ZenonT(60)
  <2> QED
    BY <2>1, <2>2, <2>3
<1>2. ASSUME s \in {ActivateLeft, VerifyLeft, ActivatedLeft, DropBackupLeft, ClearLeft}
      PROVE  /\ s # <<>> /\ Tail(s) \in {VerifyLeft, ActivatedLeft, DropBackupLeft, ClearLeft, <<>>}
             /\ Head(s) \in {"activate", "verify", "activated", "dropBackup", "clear"}
  <2>1. s # <<>>
    BY <1>2, Lefts
  <2>2. Tail(s) \in {VerifyLeft, ActivatedLeft, DropBackupLeft, ClearLeft, <<>>}
    <3>1. s \in {ActivateLeft, VerifyLeft} => Tail(s) \in {VerifyLeft, ActivatedLeft}
      BY Lefts
    <3>2. s = ActivatedLeft => Tail(s) = DropBackupLeft
      BY Lefts
    <3>3. s \in {DropBackupLeft, ClearLeft} => Tail(s) \in {ClearLeft, <<>>}
      BY Lefts
    <3> QED
      BY <1>2, <3>1, <3>2, <3>3
  <2>3. Head(s) \in {"activate", "verify", "activated", "dropBackup", "clear"}
    BY <1>2, Lefts, ZenonT(60)
  <2> QED
    BY <2>1, <2>2, <2>3
<1> QED
  BY <1>1, <1>2 DEF WritesOn, PlainSteps, StepNames, MarkSteps

LEMMA RollingLeft ==
  ASSUME NEW s \in RollsBack
  PROVE  s # <<>> /\ Tail(s) \in RollsBack \union {<<>>} /\ Head(s) \in PlainSteps
<1>1. ASSUME s \in {MayReturn, Returns, StageMayGo, ReturnsClear, ReturnsOnly}
      PROVE  /\ s # <<>> /\ Tail(s) \in {StageMayGo, ClearLeft, <<>>}
             /\ Head(s) \in {"returnAny", "return", "dropStageAny"}
  <2>1. s # <<>>
    BY <1>1, Lefts
  <2>2. Tail(s) \in {StageMayGo, ClearLeft, <<>>}
    BY <1>1, Lefts, ZenonT(60)
  <2>3. Head(s) \in {"returnAny", "return", "dropStageAny"}
    BY <1>1, Lefts, ZenonT(60)
  <2> QED
    BY <2>1, <2>2, <2>3
<1>2. ASSUME s \in {ClearLeft, TreeMayGo, TreeGoes, ExchangeOnly, Exchange}
      PROVE  /\ s # <<>> /\ Tail(s) \in {StageMayGo, ClearLeft, ReturnsOnly, ReturnsClear, <<>>}
             /\ Head(s) \in {"clear", "dropRootAny", "dropRoot"}
  <2>1. s # <<>>
    BY <1>2, Lefts
  <2>2. Tail(s) \in {StageMayGo, ClearLeft, ReturnsOnly, ReturnsClear, <<>>}
    BY <1>2, Lefts, ZenonT(60)
  <2>3. Head(s) \in {"clear", "dropRootAny", "dropRoot"}
    BY <1>2, Lefts, ZenonT(60)
  <2> QED
    BY <2>1, <2>2, <2>3
<1> QED
  BY <1>1, <1>2 DEF RollsBack, PlainSteps, StepNames, MarkSteps

LEMMA RecoveryLeft == ASSUME NEW m, NEW live, NEW staged, NEW backed
                      PROVE  Recovery(m, live, staged, backed) \in Recovers \union {<<>>}
<1>1. Recovery(m, live, staged, backed) \in {StageGoes, TreeComes, TreeGoes, TreeReplaces, DropBackupLeft, ClearLeft, <<>>}
  BY DEF Recovery, StageGoes, TreeComes, TreeGoes, TreeReplaces, DropBackupLeft, ClearLeft
<1> QED
  BY <1>1 DEF Recovers

LEMMA TakeBackLeft == ASSUME NEW step PROVE TakeBack(step) \in RollsBack \union {<<>>}
<1>1. TakeBack(step) \in {MayReturn, Returns, TreeMayGo, ExchangeOnly, TreeGoes, Exchange, <<>>}
  BY DEF TakeBack, MayReturn, Returns, TreeMayGo, ExchangeOnly, TreeGoes, Exchange
<1> QED
  BY <1>1 DEF RollsBack

-----------------------------------------------------------------------------
Tasks == [kind : {"none", "read", "write", "remove"}, value : Tree \union {Absent}, existing : BOOLEAN]
SourceDisks == [root : Content, stage : Content, backup : Content, marker : Marker, txn : 0..MaxWrites]

\* What an actor that is under way has left, and that a write that comes to its marker has a transaction.
Under(x, mode, s, t, txn) ==
  /\ mode = "idle" => s = <<>>
  /\ mode = "recover" => s \in Recovers /\ (x = "mat" /\ t.kind = "write" => txn < MaxWrites)
  /\ mode = "work" => /\ x = "mat"
                      /\ \/ s = TreeGoesOnly
                         \/ t.kind = "write" /\ ((s = AllLeft /\ txn < MaxWrites) \/ (s \in WritesOn /\ txn # 0))
  /\ mode = "undo" => x = "mat" /\ s \in RollsBack

DirHeld ==
  /\ disk \in SourceDisks /\ seen \in [Actor -> Marker] /\ before \in Content
  /\ task \in Tasks /\ (task.kind = "write" => task.value \in Tree)
  /\ result \in {"none", "ok", "error", "restored"}
  /\ DOMAIN plan = Actor /\ doing \in [Actor -> {"idle", "recover", "work", "undo"}]
  /\ \A x \in Actor : Under(x, doing[x], plan[x], task, disk.txn)

LEMMA UnderWay ==
  ASSUME DirHeld, NEW x \in Actor
  PROVE  /\ doing[x] = "idle" <=> plan[x] = <<>>
         /\ Under(x, doing[x], plan[x], task, disk.txn)
         /\ plan[x] # <<>> => doing[x] \in {"recover", "work", "undo"}
<1>1. Under(x, doing[x], plan[x], task, disk.txn) /\ doing[x] \in {"idle", "recover", "work", "undo"}
  BY DEF DirHeld
<1>2. ASSUME doing[x] # "idle" PROVE plan[x] # <<>>
  BY <1>1, <1>2, RecoveringLeft, WritingLeft, RollingLeft, Lefts, ZenonT(60) DEF Under
<1> QED
  BY <1>1, <1>2 DEF Under

\* The step an actor does next, and what it may rely on.
LEMMA StepReady ==
  ASSUME DirHeld, NEW x \in Actor, Busy(x)
  PROVE  LET step == Head(plan[x])
         IN  /\ step \in StepNames
             /\ step \in MarkSteps => task.value \in Tree /\ disk.txn # 0
             /\ step = "makeStage" => disk.txn < MaxWrites /\ x = "mat" /\ doing[x] = "work" /\ plan[x] = AllLeft
<1>1. /\ plan[x] # <<>> /\ Head(plan[x]) # "marker" /\ Head(plan[x]) # "examine"
      /\ Under(x, doing[x], plan[x], task, disk.txn) /\ doing[x] \in {"recover", "work", "undo"}
      /\ task.kind = "write" => task.value \in Tree
  BY UnderWay DEF Busy, DirHeld
<1>2. /\ PlainSteps \subseteq StepNames /\ MarkSteps \subseteq StepNames /\ "makeStage" \in StepNames
      /\ \A step \in PlainSteps : step \notin MarkSteps /\ step # "makeStage"
      /\ "makeStage" \notin MarkSteps /\ "dropRoot" \in PlainSteps
  BY DEF PlainSteps, StepNames, MarkSteps
<1>3. CASE doing[x] = "recover"
  BY <1>1, <1>2, <1>3, RecoveringLeft DEF Under
<1>4. CASE doing[x] = "undo"
  BY <1>1, <1>2, <1>4, RollingLeft DEF Under
<1>5. CASE doing[x] = "work"
  <2>1. CASE plan[x] = TreeGoesOnly
    BY <1>2, <2>1, Lefts
  <2>2. CASE task.kind = "write" /\ plan[x] = AllLeft /\ disk.txn < MaxWrites
    BY <1>1, <1>2, <1>5, <2>2, Lefts, ZenonT(60) DEF Under
  <2>3. CASE task.kind = "write" /\ plan[x] \in WritesOn /\ disk.txn # 0
    <3>1. Head(plan[x]) \in PlainSteps \union MarkSteps
      BY <2>3, WritingLeft
    <3> QED
      BY <1>1, <1>2, <2>3, <3>1
  <2> QED
    BY <1>1, <1>5, <2>1, <2>2, <2>3 DEF Under
<1> QED
  BY <1>1, <1>3, <1>4, <1>5

\* What a step leaves on the disk has its types, whether it succeeds or not, and the transaction only
\* changes when a write makes its stage.
Leaves(x, step, d) ==
  d \in SourceDisks /\ (step # "makeStage" => d.txn = disk.txn) /\ d.txn \in {disk.txn, disk.txn + 1}

LEMMA StepLeaves ==
  ASSUME DirHeld, NEW x \in Actor, NEW step \in StepNames,
         step \in MarkSteps => task.value \in Tree /\ disk.txn # 0,
         step = "makeStage" => disk.txn < MaxWrites
  PROVE  /\ \A d \in After(x, step) : Leaves(x, step, d) /\ (step = "makeStage" => d.txn # 0)
         /\ \A d \in Halfway(x, step) : Leaves(x, step, d)
<1>0. /\ disk \in SourceDisks /\ task.value \in Content /\ Absent \in Content /\ Partial \in Content
      /\ {disk.root, disk.stage, disk.backup} \subseteq Content
      /\ disk.txn \in 0..MaxWrites /\ MaxWrites \in Nat /\ disk.marker \in Marker
  BY DirectoryAssumption DEF DirHeld, Tasks, SourceDisks, Content
<1> DEFINE Fits(d) == d \in SourceDisks /\ d.txn = disk.txn
<1>1. ASSUME NEW v \in Content
      PROVE  Fits([disk EXCEPT !["root"] = v]) /\ Fits([disk EXCEPT !["stage"] = v]) /\ Fits([disk EXCEPT !["backup"] = v])
  BY <1>0, <1>1 DEF SourceDisks
<1>2. \A place \in {"root", "stage", "backup"} : \A d \in Drop(x, place) : Fits(d)
  BY <1>0, <1>1 DEF Drop
<1>3. /\ \A d \in Rename(x, "root", "backup") : Fits(d)
      /\ \A d \in Rename(x, "backup", "root") : Fits(d)
      /\ \A d \in Rename(x, "stage", "root") : Fits(d)
  BY <1>0 DEF Rename, SourceDisks
<1>4. ASSUME NEW phase \in {"prepared", "backed-up", "activated"}, task.value \in Tree /\ disk.txn # 0
      PROVE  \A d \in MarkTxn(phase) : Fits(d)
  <2>1. [phase |-> phase, intent |-> task.value, txn |-> disk.txn] \in Marker
    BY <1>0, <1>4 DEF Marker
  <2> QED
    BY <1>0, <2>1 DEF MarkTxn, SourceDisks
<1>5. Fits(disk) /\ Fits([disk EXCEPT !.stage = task.value]) /\ Fits([disk EXCEPT !.marker = NoTxn])
  BY <1>0 DEF SourceDisks, Marker
<1>6. ASSUME step = "makeStage"
      PROVE  LET d == [disk EXCEPT !.stage = Partial, !.txn = disk.txn + 1]
             IN  d \in SourceDisks /\ d.txn = disk.txn + 1 /\ d.txn # 0
  <2>1. disk.txn + 1 \in 0..MaxWrites /\ disk.txn + 1 # 0
    BY <1>0, <1>6
  <2> DEFINE d1 == [disk EXCEPT !.stage = Partial]
             n == disk.txn + 1
  <2>2. d1 \in SourceDisks
    BY <1>0 DEF SourceDisks
  <2>3. \A d \in SourceDisks, k \in 0..MaxWrites : [d EXCEPT !.txn = k] \in SourceDisks /\ [d EXCEPT !.txn = k].txn = k
    BY DEF SourceDisks
  <2>4. [disk EXCEPT !.stage = Partial, !.txn = disk.txn + 1] = [d1 EXCEPT !.txn = n]
    BY <1>0 DEF SourceDisks
  <2> HIDE DEF d1, n
  <2>5. n = disk.txn + 1
    BY DEF n
  <2> QED
    BY <2>1, <2>2, <2>3, <2>4, <2>5
<1>7. step # "makeStage" => \A d \in After(x, step) : Fits(d)
  <2>1. CASE step \in {"fillStage", "clear", "review", "verify"} \/ ~Replaces(x, step)
    BY <1>5, <2>1 DEF After
  <2>2. CASE step \in {"prepare", "backedUp", "activated"}
    BY <1>4, <1>5, <2>2 DEF After, MarkSteps
  <2>3. CASE step \in {"setAside", "activate", "return", "returnAny"}
    BY <1>3, <1>5, <2>3 DEF After, OrNothing
  <2>4. CASE step \in {"dropBackup", "dropStage", "dropRoot", "dropStageAny", "dropRootAny"}
    BY <1>2, <1>5, <2>4 DEF After, OrNothing
  <2> QED
    BY <2>1, <2>2, <2>3, <2>4 DEF StepNames
<1>8. step = "makeStage" => \A d \in After(x, step) : d \in SourceDisks /\ d.txn = disk.txn + 1 /\ d.txn # 0
  BY <1>6 DEF After, Replaces
<1>9. \A d \in After(x, step) : Leaves(x, step, d) /\ (step = "makeStage" => d.txn # 0)
  BY <1>7, <1>8 DEF Leaves
<1>10. \A d \in Halfway(x, step) : Leaves(x, step, d)
  <2>0. \A d : Fits(d) => Leaves(x, step, d)
    BY DEF Leaves
  <2>1. CASE step \in {"dropRoot", "dropRootAny"}
    BY <1>0, <1>1, <1>5, <2>0, <2>1 DEF Halfway
  <2>2. CASE step \in {"dropStage", "dropStageAny"}
    BY <1>0, <1>1, <1>5, <2>0, <2>2 DEF Halfway
  <2>3. CASE step = "dropBackup"
    BY <1>0, <1>1, <1>5, <2>0, <2>3 DEF Halfway
  <2>4. CASE step \notin {"dropRoot", "dropRootAny", "dropStage", "dropStageAny", "dropBackup"}
    BY <1>5, <1>9, <2>0, <2>4 DEF Halfway
  <2> QED
    BY <2>1, <2>2, <2>3, <2>4
<1> QED
  BY <1>9, <1>10

-----------------------------------------------------------------------------
\* What a step has to show when it gives an actor s to do next.
LEMMA DoHolds ==
  ASSUME DirHeld, NEW x \in Actor, NEW m \in {"recover", "work", "undo", "idle"}, NEW s, Do(x, m, s),
         disk' \in SourceDisks, seen' \in [Actor -> Marker], before' \in Content,
         task' \in Tasks, task'.kind = "write" => task'.value \in Tree,
         result' \in {"none", "ok", "error", "restored"},
         x = "mat" \/ (task'.kind = task.kind /\ disk'.txn = disk.txn),
         s # <<>> => m # "idle" /\ Under(x, m, s, task', disk'.txn)
  PROVE  DirHeld'
<1>1. /\ DOMAIN plan = Actor /\ doing \in [Actor -> {"idle", "recover", "work", "undo"}]
      /\ \A y \in Actor : Under(y, doing[y], plan[y], task, disk.txn)
  BY DEF DirHeld
<1>2. /\ DOMAIN plan' = Actor /\ doing' \in [Actor -> {"idle", "recover", "work", "undo"}]
      /\ plan'[x] = s /\ doing'[x] = (IF s = <<>> THEN "idle" ELSE m)
      /\ \A y \in Actor \ {x} : plan'[y] = plan[y] /\ doing'[y] = doing[y]
  BY <1>1 DEF Do
<1>3. ASSUME NEW y \in Actor \ {x} PROVE Under(y, doing'[y], plan'[y], task', disk'.txn)
  <2>1. Under(y, doing[y], plan[y], task, disk.txn) /\ (y = "mat" => x # "mat")
    BY <1>1
  <2>2. Under(y, doing[y], plan[y], task', disk'.txn)
    BY <2>1 DEF Under, Actor
  <2> QED
    BY <1>2, <2>2
<1>4. Under(x, doing'[x], plan'[x], task', disk'.txn)
  <2>1. CASE s = <<>>
    BY <1>2, <2>1 DEF Under
  <2>2. CASE s # <<>>
    BY <1>2, <2>2
  <2> QED
    BY <2>1, <2>2
<1>5. \A y \in Actor : Under(y, doing'[y], plan'[y], task', disk'.txn)
  BY <1>3, <1>4
<1> QED
  BY <1>2, <1>5 DEF DirHeld

LEMMA EndHolds ==
  ASSUME DirHeld, NEW x \in Actor, NEW how \in {"none", "ok", "error", "restored"}, EndOp(x, how),
         disk' \in SourceDisks, seen' \in [Actor -> Marker], before' \in Content,
         task' \in Tasks, task'.kind = task.kind, task'.value = task.value,
         x = "mat" \/ disk'.txn = disk.txn
  PROVE  DirHeld'
<1>1. Do(x, "idle", <<>>) /\ result' \in {"none", "ok", "error", "restored"}
  BY DEF EndOp, DirHeld
<1>2. task'.kind = "write" => task'.value \in Tree
  BY DEF DirHeld
<1> QED
  BY <1>1, <1>2, DoHolds

LEMMA RecoveredHolds ==
  ASSUME DirHeld, NEW x \in Actor, doing[x] = "recover", Recovered(x),
         disk' \in SourceDisks, disk'.txn = disk.txn, seen' \in [Actor -> Marker], UNCHANGED <<task, before>>
  PROVE  DirHeld'
<1>1. before' \in Content /\ task' \in Tasks /\ (task'.kind = "write" => task'.value \in Tree)
      /\ result \in {"none", "ok", "error", "restored"}
      /\ Under(x, doing[x], plan[x], task, disk.txn)
  BY DEF DirHeld
<1>2. CASE x = "mat" /\ Work # <<>>
  <2>1. Do(x, "work", Work) /\ result' = result
    BY <1>2 DEF Recovered
  <2>2. (task.kind = "write" /\ Work = AllLeft) \/ Work = TreeGoesOnly
    BY <1>2 DEF Work, AllLeft, TreeGoesOnly
  <2>3. Under(x, "work", Work, task', disk'.txn)
    BY <1>1, <1>2, <2>2 DEF Under
  <2> HIDE DEF Work
  <2> QED
    BY <1>1, <1>2, <2>1, <2>3, DoHolds
<1>3. CASE EndOp(x, "ok")
  BY <1>1, <1>3, EndHolds
<1> QED
  BY <1>2, <1>3 DEF Recovered

\* The steps of a recovery that read what there is.
LEMMA MarkerHolds == ASSUME DirHeld, NEW x \in Actor, ReadMarker(x) PROVE DirHeld'
<1>1. /\ plan[x] # <<>> /\ Head(plan[x]) = "marker" /\ UNCHANGED <<disk, task, before>>
      /\ seen' = [seen EXCEPT ![x] = disk.marker]
  BY DEF ReadMarker, NextIs
<1>2. /\ disk' \in SourceDisks /\ before' \in Content /\ task' \in Tasks
      /\ (task'.kind = "write" => task'.value \in Tree)
      /\ result \in {"none", "ok", "error", "restored"}
      /\ Under(x, doing[x], plan[x], task, disk.txn) /\ disk'.txn = disk.txn
      /\ doing[x] \in {"recover", "work", "undo"}
  BY <1>1, UnderWay DEF DirHeld
<1>3. seen' \in [Actor -> Marker]
  BY <1>1 DEF DirHeld, SourceDisks
<1>4. doing[x] = "recover"
  <2>1. "marker" \notin StepNames /\ PlainSteps \subseteq StepNames /\ MarkSteps \subseteq StepNames
    BY DEF StepNames, PlainSteps, MarkSteps
  <2>2. plan[x] \notin {TreeGoesOnly, AllLeft}
    BY <1>1, Lefts
  <2> QED
    BY <1>1, <1>2, <2>1, <2>2, WritingLeft, RollingLeft DEF Under
<1>5. CASE disk.marker # NoTxn
  <2>1. Do(x, "recover", ExamineFirst) /\ result' = result
    BY <1>5 DEF ReadMarker, ExamineFirst
  <2>2. Under(x, "recover", ExamineFirst, task', disk'.txn)
    BY <1>1, <1>2, <1>4 DEF Under, Recovers
  <2> QED
    BY <1>1, <1>2, <1>3, <2>1, <2>2, DoHolds
<1>6. CASE disk.marker = NoTxn /\ Clean(disk)
  <2>1. Recovered(x)
    BY <1>6 DEF ReadMarker
  <2> QED
    BY <1>1, <1>2, <1>3, <1>4, <2>1, RecoveredHolds
<1>7. CASE disk.marker = NoTxn /\ ~Clean(disk)
  <2>1. EndOp(x, "error")
    BY <1>7 DEF ReadMarker
  <2> QED
    BY <1>1, <1>2, <1>3, <2>1, EndHolds
<1> QED
  BY <1>5, <1>6, <1>7

LEMMA ExamineHolds == ASSUME DirHeld, NEW x \in Actor, Examine(x) PROVE DirHeld'
<1> DEFINE steps == Recovery(seen[x], disk.root, Named(x, "stage"), Named(x, "backup"))
<1>1. /\ plan[x] # <<>> /\ Head(plan[x]) = "examine" /\ UNCHANGED <<disk, seen, task, before>>
  BY DEF Examine, NextIs
<1>2. /\ disk' \in SourceDisks /\ before' \in Content /\ task' \in Tasks
      /\ (task'.kind = "write" => task'.value \in Tree)
      /\ result \in {"none", "ok", "error", "restored"} /\ seen' \in [Actor -> Marker]
      /\ Under(x, doing[x], plan[x], task, disk.txn) /\ disk'.txn = disk.txn
      /\ doing[x] \in {"recover", "work", "undo"}
  BY <1>1, UnderWay DEF DirHeld
<1>3. doing[x] = "recover"
  <2>1. "examine" \notin StepNames /\ PlainSteps \subseteq StepNames /\ MarkSteps \subseteq StepNames
    BY DEF StepNames, PlainSteps, MarkSteps
  <2>2. plan[x] \notin {TreeGoesOnly, AllLeft}
    BY <1>1, Lefts
  <2> QED
    BY <1>1, <1>2, <2>1, <2>2, WritingLeft, RollingLeft DEF Under
<1>4. steps \in Recovers \union {<<>>}
  BY RecoveryLeft
<1>5. EndOp(x, "error") \/ (Do(x, "recover", steps) /\ steps # <<>> /\ result' = result)
  BY DEF Examine
<1> HIDE DEF steps
<1>6. CASE EndOp(x, "error")
  BY <1>1, <1>2, <1>6, EndHolds
<1>7. CASE Do(x, "recover", steps) /\ steps # <<>> /\ result' = result
  <2>1. Under(x, "recover", steps, task', disk'.txn)
    BY <1>1, <1>2, <1>3, <1>4, <1>7 DEF Under
  <2> QED
    BY <1>1, <1>2, <1>7, <2>1, DoHolds
<1> QED
  BY <1>5, <1>6, <1>7

\* What follows a step that succeeds.
LEMMA TailHolds ==
  ASSUME DirHeld, NEW x \in Actor, Busy(x), Tail(plan[x]) # <<>>, NEW txn,
         Head(plan[x]) = "makeStage" => txn # 0, Head(plan[x]) # "makeStage" => txn = disk.txn
  PROVE  Under(x, doing[x], Tail(plan[x]), task, txn)
<1>1. plan[x] # <<>> /\ Under(x, doing[x], plan[x], task, disk.txn) /\ doing[x] \in {"recover", "work", "undo"}
  BY UnderWay DEF Busy
<1>2. \A step \in PlainSteps \union MarkSteps : step # "makeStage"
  BY DEF PlainSteps, MarkSteps
<1>3. CASE doing[x] = "recover"
  <2>1. Head(plan[x]) # "makeStage"
    BY <1>1, <1>2, <1>3, RecoveringLeft DEF Under
  <2> QED
    BY <1>1, <1>3, <2>1, RecoveringLeft DEF Under
<1>4. CASE doing[x] = "undo"
  BY <1>1, <1>4, RollingLeft DEF Under
<1>5. CASE doing[x] = "work"
  <2>1. plan[x] # TreeGoesOnly
    BY Lefts
  <2>2. CASE task.kind = "write" /\ plan[x] = AllLeft
    <3>1. Tail(plan[x]) = FillLeft /\ FillLeft \in WritesOn /\ Head(plan[x]) = "makeStage"
      BY <2>2, Lefts DEF WritesOn
    <3> QED
      BY <1>1, <1>5, <2>2, <3>1 DEF Under
  <2>3. CASE task.kind = "write" /\ plan[x] \in WritesOn /\ disk.txn # 0
    <3>1. Tail(plan[x]) \in WritesOn /\ Head(plan[x]) # "makeStage"
      BY <1>2, <2>3, WritingLeft
    <3> QED
      BY <1>1, <1>5, <2>3, <3>1 DEF Under
  <2> QED
    BY <1>1, <1>5, <2>1, <2>2, <2>3 DEF Under
<1> QED
  BY <1>1, <1>3, <1>4, <1>5

LEMMA StepHolds == ASSUME DirHeld, NEW x \in Actor, Step(x) PROVE DirHeld'
<1> DEFINE step == Head(plan[x])
<1>1. Busy(x) /\ plan[x] # <<>> /\ disk' \in After(x, step) /\ UNCHANGED seen /\ Proceed(x)
  BY DEF Step, Busy
<1>2. /\ step \in StepNames
      /\ step \in MarkSteps => task.value \in Tree /\ disk.txn # 0
      /\ step = "makeStage" => disk.txn < MaxWrites /\ x = "mat" /\ doing[x] = "work" /\ plan[x] = AllLeft
  BY <1>1, StepReady
<1>3. Leaves(x, step, disk') /\ (step = "makeStage" => disk'.txn # 0)
  BY <1>1, <1>2, StepLeaves
<1>4. /\ disk' \in SourceDisks /\ seen' \in [Actor -> Marker] /\ before' \in Content
      /\ x = "mat" \/ disk'.txn = disk.txn
      /\ result \in {"none", "ok", "error", "restored"} /\ doing[x] \in {"recover", "work", "undo"}
  BY <1>1, <1>2, <1>3, UnderWay DEF Step, Leaves, DirHeld, SourceDisks
<1>5. task' \in Tasks /\ task'.kind = task.kind /\ task'.value = task.value /\ (task'.kind = "write" => task'.value \in Tree)
  <2>0. task \in Tasks /\ (task.kind = "write" => task.value \in Tree)
    BY DEF DirHeld
  <2>1. \A e \in BOOLEAN : LET t == [task EXCEPT !.existing = e] IN
          t \in Tasks /\ t.kind = task.kind /\ t.value = task.value
    BY <2>0 DEF Tasks
  <2>2. (disk.root # Absent) \in BOOLEAN
    OBVIOUS
  <2>3. CASE step = "prepare"
    <3>1. task' = [task EXCEPT !.existing = disk.root # Absent]
      BY <2>3 DEF Step
    <3>2. task' \in Tasks /\ task'.kind = task.kind /\ task'.value = task.value
      BY <2>1, <2>2, <3>1
    <3> QED
      BY <2>0, <3>2
  <2>4. CASE step # "prepare"
    <3>1. task' = task
      BY <2>4 DEF Step
    <3> QED
      BY <2>0, <3>1
  <2> QED
    BY <2>3, <2>4
<1>6. CASE Tail(plan[x]) # <<>>
  <2> DEFINE s == Tail(plan[x])
             m == doing[x]
             txn == disk'.txn
  <2>1. Do(x, m, s) /\ result' = result
    BY <1>1, <1>6 DEF Proceed
  <2>2. (step = "makeStage" => txn # 0) /\ (step # "makeStage" => txn = disk.txn)
    BY <1>3 DEF Leaves
  <2> HIDE DEF txn
  <2>3. Under(x, doing[x], Tail(plan[x]), task, txn)
    BY <1>1, <1>6, <2>2, TailHolds
  <2>4. Under(x, m, s, task', txn)
    BY <1>5, <2>3 DEF Under
  <2> USE DEF txn
  <2> HIDE DEF s, m
  <2>5. m \in {"recover", "work", "undo"}
    BY <1>4 DEF m
  <2> QED
    BY <1>4, <1>5, <2>1, <2>4, <2>5, DoHolds
<1>7. CASE Tail(plan[x]) = <<>> /\ doing[x] = "recover"
  <2>1. Recovered(x)
    BY <1>1, <1>7 DEF Proceed
  <2>2. step # "makeStage"
    BY <1>2, <1>7
  <2>3. disk'.txn = disk.txn
    BY <1>3, <2>2 DEF Leaves
  <2>4. step # "prepare"
    <3>1. plan[x] \in Recovers
      BY <1>7 DEF DirHeld, Under
    <3>2. \A t \in PlainSteps : t # "prepare"
      BY DEF PlainSteps, MarkSteps
    <3> QED
      BY <3>1, <3>2, RecoveringLeft
  <2>5. UNCHANGED <<task, before>>
    BY <2>2, <2>4 DEF Step
  <2> QED
    BY <1>4, <1>7, <2>1, <2>3, <2>5, RecoveredHolds
<1>8. CASE Tail(plan[x]) = <<>> /\ doing[x] # "recover"
  <2>1. EndOp(x, "restored") \/ EndOp(x, "ok")
    BY <1>1, <1>8 DEF Proceed
  <2> QED
    BY <1>4, <1>5, <2>1, EndHolds
<1> QED
  BY <1>6, <1>7, <1>8

LEMMA FailureHolds ==
  ASSUME DirHeld, NEW x \in Actor, Busy(x), UNCHANGED <<seen, task, before>>, NEW d,
         d = disk \/ d \in Halfway(x, Head(plan[x])), FailsFrom(x, d)
  PROVE  DirHeld'
<1> DEFINE steps == TakeBack(Head(plan[x]))
<1>1. d \in SourceDisks /\ (x = "mat" \/ d.txn = disk.txn)
  <2>1. Leaves(x, Head(plan[x]), d) \/ d = disk
    BY StepReady, StepLeaves
  <2>2. Head(plan[x]) = "makeStage" => x = "mat"
    BY StepReady
  <2> QED
    BY <2>1, <2>2 DEF Leaves, DirHeld
<1>2. /\ seen' \in [Actor -> Marker] /\ before' \in Content /\ task' \in Tasks /\ task'.kind = task.kind
      /\ task'.value = task.value /\ (task'.kind = "write" => task'.value \in Tree)
      /\ result \in {"none", "ok", "error", "restored"}
  BY DEF DirHeld
<1>3. steps \in RollsBack \union {<<>>}
  BY TakeBackLeft
<1>4. CASE x = "mat" /\ doing[x] = "work" /\ steps # <<>>
  <2>1. Do(x, "undo", steps) /\ disk' = d /\ result' = result
    BY <1>4 DEF FailsFrom
  <2> HIDE DEF steps
  <2>2. Under(x, "undo", steps, task', disk'.txn)
    BY <1>3, <1>4 DEF Under
  <2> QED
    BY <1>1, <1>2, <1>4, <2>1, <2>2, DoHolds
<1>5. CASE ~(x = "mat" /\ doing[x] = "work" /\ steps # <<>>)
  <2>1. EndOp(x, "error") /\ disk' \in Abandoned(d) \union {d}
    BY <1>5 DEF FailsFrom
  <2>2. disk' = d \/ disk' = [d EXCEPT !.stage = Absent]
    BY <2>1 DEF Abandoned
  <2>3. disk' \in SourceDisks /\ disk'.txn = d.txn
    BY <1>1, <2>2 DEF SourceDisks, Content
  <2> QED
    BY <1>1, <1>2, <2>1, <2>3, EndHolds
<1> QED
  BY <1>4, <1>5

LEMMA FailingHolds == ASSUME DirHeld, NEW x \in Actor, StepFails(x) PROVE DirHeld'
<1>1. Busy(x) /\ UNCHANGED <<seen, task, before>>
  BY DEF StepFails
<1>2. \E d : (d = disk \/ d \in Halfway(x, Head(plan[x]))) /\ FailsFrom(x, d)
  BY DEF StepFails
<1> QED
  BY <1>1, <1>2, FailureHolds

LEMMA KillHolds == ASSUME DirHeld, NEW x \in Actor, KillActor(x) PROVE DirHeld'
<1>1. EndOp(x, "none") /\ UNCHANGED <<seen, task, before>>
  BY DEF KillActor
<1>2. disk' \in SourceDisks /\ (x = "mat" \/ disk'.txn = disk.txn)
  <2>1. CASE Busy(x)
    <3>1. Leaves(x, Head(plan[x]), disk')
      BY <2>1, StepReady, StepLeaves DEF KillActor
    <3>2. Head(plan[x]) = "makeStage" => x = "mat"
      BY <2>1, StepReady
    <3> QED
      BY <3>1, <3>2 DEF Leaves
  <2>2. CASE ~Busy(x)
    BY <2>2 DEF KillActor, DirHeld
  <2> QED
    BY <2>1, <2>2
<1>3. seen' \in [Actor -> Marker] /\ before' \in Content /\ task' \in Tasks /\ task'.kind = task.kind /\ task'.value = task.value
  BY <1>1 DEF DirHeld
<1> QED
  BY <1>1, <1>2, <1>3, EndHolds

LEMMA StartHolds ==
  ASSUME DirHeld, NEW x \in Actor, Start(x), UNCHANGED <<disk, seen>>, before' \in Content,
         task' \in Tasks, task'.kind = "write" => task'.value \in Tree,
         x = "mat" \/ task' = task, x = "mat" /\ task'.kind = "write" => disk.txn < MaxWrites,
         result' \in {"none", "ok", "error", "restored"}
  PROVE  DirHeld'
<1>1. Do(x, "recover", MarkerFirst)
  BY DEF Start, MarkerFirst
<1>2. Under(x, "recover", MarkerFirst, task', disk'.txn)
  BY DEF Under, Recovers
<1>3. disk' \in SourceDisks /\ seen' \in [Actor -> Marker] /\ (x = "mat" \/ (task'.kind = task.kind /\ disk'.txn = disk.txn))
  BY DEF DirHeld
<1> QED
  BY <1>1, <1>2, <1>3, DoHolds

LEMMA DirHeldStep == DirHeld /\ [DirNext]_dirVars => DirHeld'
<1> SUFFICES ASSUME DirHeld, [DirNext]_dirVars PROVE DirHeld'
  OBVIOUS
<1>0. before \in Content /\ Absent \in Content /\ "mat" \in Actor /\ "check" \in Actor
  BY DEF DirHeld, Content, Actor
<1>1. CASE UNCHANGED dirVars
  BY <1>1 DEF dirVars, DirHeld
<1>2. CASE readDirectorySource
  <2>1. task' = [kind |-> "read", value |-> Absent, existing |-> FALSE]
    BY <1>2 DEF readDirectorySource, NoTask
  <2>2. task'.kind = "read" /\ task' \in Tasks
    BY <2>1 DEF Tasks
  <2> QED
    BY <1>0, <1>2, <2>2, StartHolds DEF readDirectorySource
<1>3. CASE removeDirectorySource
  <2>1. task' = [kind |-> "remove", value |-> Absent, existing |-> FALSE]
    BY <1>3 DEF removeDirectorySource, NoTask
  <2>2. task'.kind = "remove" /\ task' \in Tasks
    BY <2>1 DEF Tasks
  <2> QED
    BY <1>0, <1>3, <2>2, StartHolds DEF removeDirectorySource
<1>4. CASE directorySourceExists
  <2>1. task \in Tasks /\ (task.kind = "write" => task.value \in Tree) /\ result \in {"none", "ok", "error", "restored"}
    BY DEF DirHeld
  <2>2. "check" # "mat"
    OBVIOUS
  <2> QED
    BY <1>0, <1>4, <2>1, <2>2, StartHolds DEF directorySourceExists
<1>5. ASSUME NEW value \in Tree, writeDirectorySource(value) PROVE DirHeld'
  <2>1. task' = [kind |-> "write", value |-> value, existing |-> FALSE]
    BY <1>5 DEF writeDirectorySource
  <2>2. task'.value \in Tree /\ task' \in Tasks
    BY <2>1 DEF Tasks
  <2> QED
    BY <1>0, <1>5, <2>2, StartHolds DEF writeDirectorySource
<1>6. ASSUME NEW x \in Actor, ReadMarker(x) \/ Examine(x) \/ Step(x) \/ StepFails(x) \/ KillActor(x)
      PROVE  DirHeld'
  BY <1>6, MarkerHolds, ExamineHolds, StepHolds, FailingHolds, KillHolds
<1> QED
  BY <1>1, <1>2, <1>3, <1>4, <1>5, <1>6 DEF DirNext

\* A directory source and the transactions on it are of their types, however its writes, recoveries and
\* checks overlap, and whatever is written twice (DirTypeOK).
THEOREM DirTypeCorrect == DirSpec => []DirTypeOK
<1>1. DirInit => DirHeld
  <2> SUFFICES ASSUME DirInit PROVE DirHeld
    OBVIOUS
  <2>1. disk \in SourceDisks /\ NoTxn \in Marker
    BY DirectoryAssumption DEF DirInit, SourceDisks, Content, Marker
  <2>2. NoTask \in Tasks /\ NoTask.kind = "none"
    BY DEF NoTask, Tasks
  <2>3. seen \in [Actor -> Marker] /\ before \in Content
    BY <2>1 DEF DirInit, Content
  <2>4. \A x \in Actor : doing[x] = "idle" /\ plan[x] = <<>>
    BY DEF DirInit
  <2>5. \A x \in Actor : Under(x, doing[x], plan[x], task, disk.txn)
    BY <2>4 DEF Under
  <2> QED
    BY <2>1, <2>2, <2>3, <2>5 DEF DirInit, DirHeld
<1>2. DirHeld => DirTypeOK
  BY UnderWay DEF DirHeld, DirTypeOK, SourceDisks, Tasks
<1> QED
  BY <1>1, <1>2, DirHeldStep, PTL DEF DirSpec

-----------------------------------------------------------------------------
Endings == {"none", "ok", "missing", "error", "rollback-failed", "killed"}

\* An entry that replaces those of its account leaves one entry per account.
LEMMA OnePerAccount ==
  ASSUME NEW b, NEW v \in Vaults(b), NEW e \in Credential
  PROVE  /\ \A w \in SUBSET v : w \in Vaults(b)
         /\ {e} \in Vaults(b)
         /\ b # "windows" => {f \in v : f.owner # e.owner} \union {e} \in Vaults(b)
         /\ b # "windows" /\ ~(\E f \in v : f.owner = e.owner) => v \union {e} \in Vaults(b)
BY DEF Vaults

LEMMA WithKeepsOne ==
  ASSUME VaultTypeOK, NEW e \in Credential, ~Duplicate(e)
  PROVE  With(e) \in Vaults(backend)
<1>1. vault \in Vaults(backend) /\ backend \in {"keychain", "keyring", "windows"}
  BY VaultAssumption DEF VaultTypeOK
<1>2. CASE backend = "keychain"
  <2>1. ~(\E f \in vault : f.owner = e.owner) /\ With(e) = vault \union {e}
    BY <1>2 DEF Duplicate, With
  <2>2. vault \union {e} \in Vaults(backend)
    BY <1>1, <1>2, <2>1 DEF Vaults
  <2> QED
    BY <2>1, <2>2
<1>3. CASE backend = "keyring"
  <2>1. With(e) = {f \in vault : f.owner # e.owner} \union {e}
    BY <1>3 DEF With
  <2> QED
    BY <1>1, <1>3, <2>1, OnePerAccount
<1>4. CASE backend = "windows"
  <2>1. With(e) = {e}
    BY <1>4 DEF With
  <2> QED
    BY <1>1, <2>1, OnePerAccount
<1> QED
  BY <1>1, <1>2, <1>3, <1>4

LEMMA VaultsKept == VaultInv /\ VaultTypeOK /\ [VaultNext]_vaultVars => VaultTypeOK'
<1> SUFFICES ASSUME VaultInv, VaultTypeOK, [VaultNext]_vaultVars PROVE VaultTypeOK'
  OBVIOUS
<1>0. VaultTyped /\ Placed /\ VaultTyped'
  BY VaultStepTyped DEF VaultInv
<1>1. vault \in Vaults(backend) /\ initial \in Vaults(backend) /\ backend \in Backend /\ ending \in Endings
  BY DEF VaultTypeOK, Endings
<1>2. New \in Credential /\ (backup # Nothing => backup \in Credential)
  BY <1>0, OwnersTyped DEF New, VaultTyped, Credential
<1> DEFINE Kept == UNCHANGED <<backend, initial, vault>> /\ ending' \in Endings
           Other == UNCHANGED <<backend, initial>> /\ ending' \in Endings /\ vault' \in Vaults(backend)
<1>3. CASE UNCHANGED vaultVars
  <2>1. Kept
    BY <1>1, <1>3 DEF vaultVars
  <2> QED
    BY <1>0, <1>1, <2>1 DEF VaultTyped, VaultTypeOK, Endings
<1>4. CASE BeginVerb
  <2>1. UNCHANGED <<backend, vault, ending>> /\ initial' = vault
    BY <1>4 DEF BeginVerb, Go
  <2> QED
    BY <1>0, <1>1, <2>1 DEF VaultTyped, VaultTypeOK, Endings
<1>5. CASE Search \/ Account \/ Preflight \/ KilledWriting
  <2>1. UNCHANGED <<backend, initial, vault>>
    BY <1>5 DEF Search, Account, Preflight, KilledWriting, Fixed
  <2>2. ASSUME Search PROVE ending' \in Endings
    <3>1. CASE CommandFails /\ Ends(IF backend = "keychain" /\ verb = "exists" THEN "missing" ELSE "error")
      BY <3>1 DEF Ends, Endings
    <3>2. CASE KeychainValue \/ KeyringSearch \/ BridgeRead
      BY <1>1, <3>2 DEF KeychainValue, KeyringSearch, BridgeRead, Answers, Refuses, Ends, Go, Endings
    <3> QED
      BY <1>0, <2>2, <3>1, <3>2 DEF Search, VaultTyped
  <2>3. ASSUME Account \/ Preflight \/ KilledWriting PROVE ending' \in Endings
    BY <1>1, <2>3 DEF Account, Preflight, KilledWriting, Undo, Answers, Refuses, Ends, Go, Endings
  <2> QED
    BY <1>0, <1>1, <1>5, <2>1, <2>2, <2>3 DEF VaultTyped, VaultTypeOK, Endings
<1>6. CASE RemoveItem
  <2>1. UNCHANGED <<backend, initial>> /\ vault' \in SUBSET vault /\ ending' \in Endings
    BY <1>1, <1>6 DEF RemoveItem, Lost, Ends, Go, Fixed, Endings
  <2>2. vault' \in Vaults(backend)
    BY <1>1, <2>1 DEF Vaults
  <2> QED
    BY <1>0, <1>1, <2>1, <2>2 DEF VaultTyped, VaultTypeOK, Endings
<1>7. CASE Store
  <2>1. UNCHANGED <<backend, initial>> /\ (vault' = vault \/ (vault' = With(New) /\ ~Duplicate(New)))
    BY <1>7 DEF Store, Lost, Fixed
  <2>2. ending' \in Endings
    BY <1>1, <1>7 DEF Store, Undo, Ends, Go, Endings
  <2>3. vault' \in Vaults(backend)
    BY <1>1, <1>2, <2>1, WithKeepsOne
  <2> QED
    BY <1>0, <1>1, <2>1, <2>2, <2>3 DEF VaultTyped, VaultTypeOK, Endings
<1>8. CASE PutBack
  <2>1. UNCHANGED <<backend, initial>> /\ (vault' = vault \/ (vault' = With(backup) /\ ~Duplicate(backup)))
        /\ stage = "rollback"
    BY <1>8 DEF PutBack, Lost, Fixed
  <2>2. ending' \in Endings
    BY <1>8 DEF PutBack, Ends, Endings
  <2>3. vault' \in Vaults(backend)
    BY <1>0, <1>1, <1>2, <2>1, WithKeepsOne DEF Placed
  <2> QED
    BY <1>0, <1>1, <2>1, <2>2, <2>3 DEF VaultTyped, VaultTypeOK, Endings
<1>9. CASE OtherProgram
  <2>1. UNCHANGED <<backend, initial, ending>> /\ vault' \in Vaults(backend)
    BY <1>9 DEF OtherProgram
  <2> QED
    BY <1>0, <1>1, <2>1 DEF VaultTyped, VaultTypeOK, Endings
<1> QED
  BY <1>3, <1>4, <1>5, <1>6, <1>7, <1>8, <1>9 DEF VaultNext

\* The keyring, the call on it and the backup it keeps for its rollback are of their types, for every backend
\* and whatever other programs store meanwhile (VaultTypeOK).
THEOREM VaultTypeCorrect == VaultSpec => []VaultTypeOK
<1>1. VaultInit => VaultTypeOK
  BY DEF VaultInit, VaultTypeOK, Steps
<1>2. VaultSpec => [][VaultNext]_vaultVars /\ VaultInit
  BY DEF VaultSpec
<1> QED
  BY <1>1, <1>2, VaultsKept, VaultAlways, PTL

-----------------------------------------------------------------------------
\* What the helper has written is whole when it renames it, and other programs act a bounded number of times.
HelperHeld ==
  /\ ProviderTypeOK /\ swaps \in 0..MaxSwaps
  /\ helper.step \in {"filled", "checked"} => temps[helper.folder] \in Bytes \union {"part"}

LEMMA EntryTyped ==
  ASSUME HelperHeld
  PROVE  /\ At(folder) \in Files \union {NoEntry} /\ At(folder).bytes \in Bytes \union {"part"}
         /\ MaxSwaps \in Nat /\ "none" \notin {"part"}
BY ProviderAssumption DEF HelperHeld, ProviderTypeOK, At, Files, NoEntry

Calls ==
  [op : {"none", "read", "exists", "write", "remove"}, bytes : Bytes \union {"part"},
   folder : Folder \union {0}, file : Files \union {NoEntry}, step : CallSteps]
Hows == {"none", "ok", "absent", "error", "killed"}

\* What a step of mat has to show.
LEMMA CallMoves ==
  ASSUME HelperHeld, UNCHANGED <<entries, temps, helper, swaps>>, folder' \in Folder \union {0},
         call' \in Calls, answer'.how \in Hows
  PROVE  HelperHeld'
BY DEF HelperHeld, ProviderTypeOK, Calls, CallSteps, Hows

LEMMA HelperKept == PinInv /\ HelperHeld /\ [ProviderNext]_providerVars => HelperHeld'
<1> SUFFICES ASSUME PinInv, HelperHeld, [ProviderNext]_providerVars PROVE HelperHeld'
  OBVIOUS
<1>0. helper.step # "none" => helper.folder \in Folder
  BY DEF PinInv
<1> USE EntryTyped DEF HelperHeld, ProviderTypeOK, Upset, Rest, Replies, Goes, Refused, HelperGoes, Clears
<1>1. CASE UNCHANGED providerVars
  BY <1>1 DEF providerVars
<1>2. ASSUME NEW op \in {"read", "exists", "write", "remove"}, NEW b \in Bytes \union {"part"}, Request(op, b)
      PROVE  HelperHeld'
  BY <1>2, ZenonT(60) DEF Request, NoCall
<1> DEFINE st == At(folder)
           Replied == call' = [call EXCEPT !.step = "idle"] /\ answer'.how \in Hows
<1>19. /\ call \in Calls /\ answer.how \in Hows /\ folder \in Folder \union {0}
       /\ st \in Files \union {NoEntry} /\ st.bytes \in Bytes \union {"part"}
  BY DEF Calls, CallSteps, Hows
<1>20. ASSUME Replied PROVE call' \in Calls /\ answer'.how \in Hows
  BY <1>19, <1>20 DEF Calls, CallSteps
<1>3. CASE ReviewParents
  <2>1. \/ Replied /\ folder' = folder
        \/ UNCHANGED answer /\ \E d \in Folder : folder' = d /\ call' = [call EXCEPT !.folder = d, !.step = "target"]
    <3>1. CASE folder = 0 /\ call.op = "write"
      BY <1>3, <3>1 DEF ReviewParents
    <3>2. CASE folder = 0 /\ call.op # "write"
      <4> DEFINE how == IF call.op = "remove" THEN "ok" ELSE "absent"
      <4>1. UNCHANGED folder /\ Replies(how, "part")
        BY <1>3, <3>2 DEF ReviewParents
      <4>2. how \in Hows
        BY DEF Hows
      <4> HIDE DEF how
      <4> QED
        BY <4>1, <4>2
    <3>3. CASE folder # 0
      <4>1. folder \in Folder /\ UNCHANGED <<folder, answer>> /\ call' = [call EXCEPT !.folder = folder, !.step = "target"]
        BY <1>3, <1>19, <3>3 DEF ReviewParents
      <4> QED
        BY <4>1
    <3> QED
      BY <3>1, <3>2, <3>3
  <2>2. ASSUME NEW d \in Folder, call' = [call EXCEPT !.folder = d, !.step = "target"] PROVE call' \in Calls
    BY <1>19, <2>2 DEF Calls, CallSteps
  <2>3. call' \in Calls /\ answer'.how \in Hows /\ folder' \in Folder \union {0}
    BY <1>19, <1>20, <2>1, <2>2
  <2> QED
    BY <1>3, <2>3, CallMoves DEF ReviewParents
<1>4. CASE ReviewTarget
  <2>1. \/ Replied
        \/ UNCHANGED answer /\ \E step \in {"open", "helper"} : call' = [call EXCEPT !.file = st, !.step = step]
    <3>1. CASE st.kind = "other"
      BY <1>4, <3>1 DEF ReviewTarget, Hows
    <3>2. CASE st.kind # "other" /\ st = NoEntry /\ call.op # "write"
      BY <1>4, <3>2 DEF ReviewTarget, Hows
    <3>3. CASE st.kind # "other" /\ ~(st = NoEntry /\ call.op # "write") /\ folder # call.folder
      BY <1>4, <3>3 DEF ReviewTarget, Hows
    <3>4. CASE st.kind # "other" /\ ~(st = NoEntry /\ call.op # "write") /\ folder = call.folder
      <4> DEFINE next == IF call.op \in {"read", "exists"} THEN "open" ELSE "helper"
      <4>1. UNCHANGED answer /\ call' = [call EXCEPT !.file = st, !.step = next]
        BY <1>4, <3>4 DEF ReviewTarget
      <4>2. next \in {"open", "helper"}
        OBVIOUS
      <4> QED
        BY <4>1, <4>2
    <3> QED
      BY <3>1, <3>2, <3>3, <3>4
  <2> HIDE DEF st
  <2>2. ASSUME NEW step \in {"open", "helper"}, call' = [call EXCEPT !.file = st, !.step = step] PROVE call' \in Calls
    BY <1>19, <2>2 DEF Calls, CallSteps
  <2>3. call' \in Calls /\ answer'.how \in Hows
    BY <1>19, <1>20, <2>1, <2>2
  <2> QED
    BY <1>4, <1>19, <2>3, CallMoves DEF ReviewTarget
<1>5. CASE OpenFile
  <2> DEFINE bytes == st.bytes
  <2>1. \/ Replied
        \/ UNCHANGED answer /\ call' = [call EXCEPT !.step = "after", !.bytes = bytes]
    BY <1>5 DEF OpenFile, Hows
  <2>2. bytes \in Bytes \union {"part"}
    BY <1>19
  <2> HIDE DEF st, bytes
  <2>3. ASSUME call' = [call EXCEPT !.step = "after", !.bytes = bytes] PROVE call' \in Calls
    BY <1>19, <2>2, <2>3 DEF Calls, CallSteps
  <2>4. call' \in Calls /\ answer'.how \in Hows
    BY <1>19, <1>20, <2>1, <2>3
  <2> QED
    BY <1>5, <1>19, <2>4, CallMoves DEF OpenFile
<1>6. CASE ReviewAfter
  <2>1. Replied
    BY <1>6 DEF ReviewAfter, Hows
  <2> QED
    BY <1>6, <1>19, <1>20, <2>1, CallMoves DEF ReviewAfter
<1>7. CASE SpawnHelper
  BY <1>7 DEF SpawnHelper
<1>8. CASE PinParent
  BY <1>8 DEF PinParent
<1>9. CASE OpenTemp
  BY <1>0, <1>9 DEF OpenTemp
<1>10. CASE FillTemp
  BY <1>0, <1>10 DEF FillTemp
<1>11. CASE CheckAgain
  BY <1>0, <1>11 DEF CheckAgain
<1>12. CASE RenameTemp
  <2> DEFINE new == [id |-> Fresh, kind |-> "file", bytes |-> temps[helper.folder]]
  <2>1. helper.folder \in Folder /\ temps[helper.folder] \in Bytes \union {"part"}
    BY <1>0, <1>12 DEF RenameTemp
  <2>2. new \in Files
    BY <2>1, ProviderAssumption DEF Files, Fresh
  <2>3. entries' = [entries EXCEPT ![helper.folder] = new]
    BY <1>12 DEF RenameTemp
  <2> HIDE DEF new
  <2> QED
    BY <1>12, <2>1, <2>2, <2>3 DEF RenameTemp
<1>13. CASE Activated
  BY <1>0, <1>13 DEF Activated
<1>14. CASE UnlinkChild
  BY <1>0, <1>14 DEF UnlinkChild
<1>15. CASE ReviewParentsAgain
  BY <1>15 DEF ReviewParentsAgain
<1>16. CASE HelperFails
  BY <1>0, <1>16 DEF HelperFails
<1>17. CASE KillMat
  BY <1>17 DEF KillMat
<1>18. CASE Swap
  <2>1. swaps' \in 0..MaxSwaps
    BY <1>18 DEF Swap
  <2>2. ASSUME NEW e \in {NoEntry} \union [id : {swaps + 2}, kind : {"file", "other"}, bytes : Bytes]
        PROVE  e \in Files \union {NoEntry}
    BY <1>18 DEF Swap, Files
  <2>3. folder' \in Folder \union {0} /\ entries' \in [Folder -> Files \union {NoEntry}]
    BY <1>18, <2>2 DEF Swap
  <2> QED
    BY <1>18, <2>1, <2>3 DEF Swap
<1> QED
  BY <1>1, <1>2, <1>3, <1>4, <1>5, <1>6, <1>7, <1>8, <1>9, <1>10, <1>11, <1>12, <1>13, <1>14, <1>15, <1>16, <1>17, <1>18 DEF ProviderNext

\* The cache, its helper and the call that mat makes are of their types (ProviderTypeOK).
THEOREM ProviderTypeCorrect == ProviderSpec => []ProviderTypeOK
<1>1. ProviderInit => HelperHeld
  <2> SUFFICES ASSUME ProviderInit PROVE HelperHeld
    OBVIOUS
  <2>1. entries \in [Folder -> Files \union {NoEntry}]
    <3>1. PICK e \in {NoEntry} \union [id : {1}, kind : {"file", "other"}, bytes : Bytes] :
            entries = [d \in Folder |-> IF d = 1 /\ folder = 1 THEN e ELSE NoEntry]
      BY DEF ProviderInit
    <3>2. e \in Files \union {NoEntry}
      BY ProviderAssumption DEF Files
    <3> QED
      BY <3>1, <3>2
  <2>2. helper.step = "none" /\ swaps = 0 /\ MaxSwaps \in Nat
    BY ProviderAssumption DEF ProviderInit, NoHelper
  <2> QED
    BY <2>1, <2>2 DEF ProviderInit, HelperHeld, ProviderTypeOK, NoCall, NoHelper, Folder
<1>2. ProviderInit => PinInv
  BY ProviderInitInv
<1>3. HelperHeld => ProviderTypeOK
  BY DEF HelperHeld
<1> QED
  BY <1>1, <1>2, <1>3, PinStep, HelperKept, PTL DEF ProviderSpec

-----------------------------------------------------------------------------
-----------------------------------------------------------------------------
\* An access names a CLI and a path of a definition that was accepted.
AccessType ==
  [cli : PluginId \union builtinIds \union {Nobody}, path : Spelling \union {Broken},
   step : {"idle", "gate", "open", "opened", "refused"}, slipped : BOOLEAN]

DefsNamed == \A i \in DOMAIN loaded :
  /\ loaded[i].id \in PluginId \union builtinIds
  /\ \A x \in loaded[i].sources : x.kind = "file" => x.name \in Spelling

ResourceHeld ==
  /\ DefsNamed /\ World /\ changes \in 0..MaxChanges /\ started \in BOOLEAN /\ stale \in BOOLEAN /\ access \in AccessType

\* What is loaded has ids and paths that are known.
LEMMA LoadedNamed == ASSUME World, Load PROVE DefsNamed'
<1>1. PICK files \in [DOMAIN PluginFiles -> UNION Range(PluginFiles)] :
        /\ \A i \in DOMAIN PluginFiles : files[i] \in PluginFiles[i]
        /\ loaded' = getAllCliDefs(files)
  BY DEF Load
<1>2. files \in Seq(PluginDef)
  <2>1. PluginFiles \in Seq(SUBSET PluginDef)
    BY ResourceAssumption
  <2>2. \A i \in 1..Len(PluginFiles) : files[i] \in PluginDef
    BY <1>1, <2>1
  <2>3. files = [i \in 1..Len(PluginFiles) |-> files[i]]
    BY <1>1, <2>1
  <2>4. Len(PluginFiles) \in Nat
    BY <2>1
  <2> QED
    BY <2>2, <2>3, <2>4
<1> DEFINE plugins == validatePluginDirectory(files)
<1>3. loaded' = Builtins \o plugins /\ Fair(plugins)
  BY <1>1, <1>2, AcceptedFair
<1> HIDE DEF plugins
<1>4. ASSUME NEW d \in PluginDef, ~BadFile(d)
      PROVE  /\ d.id \in PluginId \union builtinIds
             /\ \A x \in d.sources : x.kind = "file" => x.name \in Spelling
  BY <1>4 DEF PluginDef, BadFile, Source
<1>5. \A i \in DOMAIN plugins : plugins[i] \in PluginDef /\ ~BadFile(plugins[i])
  BY <1>3 DEF Fair, validCliDef
<1>6. \A i \in DOMAIN Builtins : Builtins[i] \in PluginDef /\ ~BadFile(Builtins[i])
  <2>a. Builtins \in Seq(PluginDef) /\ Len(Builtins) = 2
    BY BuiltinsAre
  <2>b. DOMAIN Builtins = 1..2 /\ \A i \in 1..2 : Builtins[i] \in PluginDef
    BY <2>a
  <2>1. DOMAIN Builtins = {1, 2} /\ Builtins[1] \in PluginDef /\ Builtins[2] \in PluginDef
    BY <2>b
  <2>2. Builtins[1].id = "codex" /\ Builtins[2].id = "goose"
    BY BuiltinsAre
  <2> QED
    BY <2>1, <2>2 DEF BadFile
<1>7. plugins \in Seq(PluginDef)
  BY <1>3 DEF Fair
<1> DEFINE defs == Builtins \o plugins
<1>8. /\ DOMAIN defs = 1..(Len(plugins) + 2) /\ DOMAIN plugins = 1..Len(plugins) /\ Len(plugins) \in Nat
      /\ \A i \in 1..(Len(plugins) + 2) : defs[i] = IF i <= 2 THEN Builtins[i] ELSE plugins[i - 2]
      /\ DOMAIN Builtins = 1..2
  <2>1. Builtins \in Seq(PluginDef) /\ Len(Builtins) = 2
    BY BuiltinsAre
  <2>2. DOMAIN Builtins = 1..2
    BY <2>1
  <2> HIDE DEF plugins
  <2> QED
    BY <1>7, <2>2, WithBuiltins
<1> HIDE DEF defs
<1>9. ASSUME NEW i \in DOMAIN defs PROVE defs[i] \in PluginDef /\ ~BadFile(defs[i])
  <2>1. CASE i <= 2
    <3>1. i \in DOMAIN Builtins /\ defs[i] = Builtins[i]
      BY <1>8, <1>9, <2>1
    <3> QED
      BY <1>6, <3>1
  <2>2. CASE i > 2
    <3>1. i - 2 \in DOMAIN plugins /\ defs[i] = plugins[i - 2]
      BY <1>8, <1>9, <2>2
    <3> QED
      BY <1>5, <3>1
  <2> QED
    BY <1>8, <1>9, <2>1, <2>2
<1>10. loaded' = defs
  BY <1>3 DEF defs
<1> QED
  BY <1>4, <1>9, <1>10 DEF DefsNamed

LEMMA ResourcesKept == ASSUME ResourceInv, ResourceInv', ResourceHeld, [ResourceNext]_resourceVars PROVE ResourceHeld'
<1>1. World' /\ changes' \in 0..MaxChanges
  BY DEF ResourceInv
<1>a. UNCHANGED loaded => DefsNamed'
  BY DEF ResourceHeld, DefsNamed
<1>2. CASE UNCHANGED resourceVars
  BY <1>1, <1>a, <1>2 DEF ResourceHeld, resourceVars
<1>3. CASE Load
  BY <1>1, <1>3, LoadedNamed DEF ResourceHeld, Load
<1>4. CASE BeginAccess
  <2>1. PICK i \in DOMAIN loaded : \E x \in loaded[i].sources :
          x.kind = "file" /\ access' = [NoAccess EXCEPT !.cli = loaded[i].id, !.path = x.name, !.step = "gate"]
    BY <1>4 DEF BeginAccess
  <2>2. PICK x \in loaded[i].sources :
          x.kind = "file" /\ access' = [NoAccess EXCEPT !.cli = loaded[i].id, !.path = x.name, !.step = "gate"]
    BY <2>1
  <2>3. loaded[i].id \in PluginId \union builtinIds /\ x.name \in Spelling
    BY <2>2 DEF ResourceHeld, DefsNamed
  <2>4. access' \in AccessType
    BY <2>2, <2>3 DEF NoAccess, AccessType
  <2> QED
    BY <1>1, <1>a, <1>4, <2>4 DEF ResourceHeld, BeginAccess
<1>5. CASE Gate
  <2> DEFINE step == IF MayAccess(access.path) THEN "open" ELSE "refused"
  <2>1. step \in {"open", "refused"} /\ access' = [access EXCEPT !.step = step, !.slipped = FALSE]
    BY <1>5 DEF Gate
  <2> HIDE DEF step
  <2>2. access' \in AccessType
    BY <2>1 DEF ResourceHeld, AccessType
  <2> QED
    BY <1>1, <1>a, <1>5, <2>2 DEF ResourceHeld, Gate
<1>6. CASE Open
  <2>1. access' \in AccessType
    BY <1>6 DEF ResourceHeld, AccessType, Open
  <2> QED
    BY <1>1, <1>a, <1>6, <2>1 DEF ResourceHeld, Open
<1>7. CASE Change
  <2> DEFINE wasOpen == access.step = "open"
  <2>1. wasOpen \in BOOLEAN /\ access' = [access EXCEPT !.slipped = wasOpen]
    BY <1>7 DEF Change
  <2> HIDE DEF wasOpen
  <2>2. access' \in AccessType
    BY <2>1 DEF ResourceHeld, AccessType
  <2> QED
    BY <1>1, <1>a, <1>7, <2>2 DEF ResourceHeld, Change
<1> QED
  BY <1>2, <1>3, <1>4, <1>5, <1>6, <1>7 DEF ResourceNext

\* The spelling a folder resolves to, the files behind it and the access of a definition to them are of their
\* types, also where the folder changes between the gate and the open (ResourceTypeOK).
THEOREM ResourceTypeCorrect == ResourceSpec => []ResourceTypeOK
<1>1. ResourceInit => ResourceHeld
  <2>1. NoAccess \in AccessType
    BY DEF NoAccess, AccessType
  <2>2. ASSUME ResourceInit PROVE DefsNamed
    BY <2>2, BuiltinsAre DEF ResourceInit, DefsNamed, Builtins, File, Entry, Spelling
  <2> QED
    BY <2>1, <2>2, ResourceInitInv DEF ResourceInit, ResourceHeld, ResourceInv
<1>2. ResourceHeld => ResourceTypeOK
  BY DEF ResourceHeld, ResourceTypeOK, World, AccessType
<1> QED
  BY <1>1, <1>2, ResourceInitInv, ResourceStepInv, ResourcesKept, PTL DEF ResourceSpec

-----------------------------------------------------------------------------
-----------------------------------------------------------------------------
VerbSteps == {"idle", "write", "look", "read", "exists", "delete", "ok", "missing", "failed"}

\* The maps of the caller, the step of a call, and how many secrets have been read.
SecretHeld ==
  /\ base \in Env /\ ambient \in Env
  /\ DOMAIN asked = {"op", "draft", "value", "step", "old"} /\ asked.step \in VerbSteps
  /\ Len(reads) <= Len(prep.list)

LEMMA SecretsKept == ASSUME SecretInv, SecretInv', SecretHeld, [SecretNext]_secretVars PROVE SecretHeld'
<1>0. /\ SecretTyped /\ (prep.step = "load" => Len(reads) < Len(prep.list))
      /\ prep \in [step : PrepSteps, list : Seq(Draft), ambient : Env, env : Env, out : Env]
      /\ reads \in Seq(SecretValue) /\ Len(reads) \in Nat /\ Len(prep.list) \in Nat
  BY DEF SecretInv, SecretTyped
<1>1. base \in Env /\ ambient \in Env /\ DOMAIN asked = {"op", "draft", "value", "step", "old"}
      /\ asked.step \in VerbSteps /\ Len(reads) <= Len(prep.list)
  BY DEF SecretHeld
<1>2. CASE UNCHANGED secretVars
  BY <1>1, <1>2 DEF secretVars, SecretHeld
<1>3. CASE Prepare
  <2>1. base' \in Env /\ ambient' \in Env /\ UNCHANGED <<asked, reads>> /\ prep.step = "idle"
    BY <1>3, MapsTyped DEF Prepare
  <2>2. reads = <<>>
    BY <2>1 DEF SecretInv
  <2>3. Len(prep'.list) \in Nat
    BY DEF SecretInv, SecretTyped
  <2> QED
    BY <1>1, <2>1, <2>2, <2>3 DEF SecretHeld
<1>4. CASE LoadSecret
  <2>1. UNCHANGED <<base, ambient, asked>> /\ prep.step = "load"
    BY <1>4 DEF LoadSecret
  <2>2. prep'.list = prep.list
    BY <1>0, <1>4 DEF LoadSecret, EndsPrep
  <2>3. reads' = reads \/ \E v : reads' = Append(reads, v)
    BY <1>4 DEF LoadSecret
  <2>4. Len(reads') <= Len(reads) + 1
    BY <1>0, <2>3
  <2>5. Len(reads') \in Nat
    BY DEF SecretInv, SecretTyped
  <2> QED
    BY <1>0, <1>1, <2>1, <2>2, <2>4, <2>5 DEF SecretHeld
<1>5. CASE LoadFails
  <2>1. UNCHANGED <<base, ambient, asked, reads>> /\ prep'.list = prep.list
    BY <1>0, <1>5 DEF LoadFails, EndsPrep
  <2> QED
    BY <1>1, <2>1 DEF SecretHeld
<1>6. CASE ChangeMaps
  <2>1. \A n \in Name : [base EXCEPT ![n] = "plain"] \in Env /\ [ambient EXCEPT ![n] = "plain"] \in Env
    BY <1>1 DEF Env
  <2>2. UNCHANGED <<asked, reads, prep>> /\ base' \in Env /\ ambient' \in Env
    BY <1>1, <1>6, <2>1 DEF ChangeMaps
  <2> QED
    BY <1>1, <2>2 DEF SecretHeld
<1>7. ASSUME NEW op \in {"store", "update", "delete"}, NEW d, NEW v, BeginSecret(op, d, v) PROVE SecretHeld'
  <2>1. UNCHANGED <<base, ambient, prep, reads>>
    BY <1>7 DEF BeginSecret
  <2>2. DOMAIN asked' = {"op", "draft", "value", "step", "old"} /\ asked'.step \in {"write", "read", "delete"}
    BY <1>7 DEF BeginSecret
  <2> QED
    BY <1>1, <2>1, <2>2 DEF SecretHeld, VerbSteps
<1>8. CASE ReadFirst \/ Exists \/ Write \/ LookAgain \/ Delete \/ VerbFails
  <2>1. UNCHANGED <<base, ambient, prep, reads>>
    BY <1>8 DEF ReadFirst, Exists, Write, LookAgain, Delete, VerbFails, VerbRest
  <2>2. \E step \in VerbSteps : VerbGoes(step)
    BY <1>8 DEF ReadFirst, Exists, Write, LookAgain, Delete, VerbFails, VerbSteps
  <2>3. DOMAIN asked' = {"op", "draft", "value", "step", "old"} /\ asked'.step \in VerbSteps
    BY <1>1, <2>2 DEF VerbGoes
  <2> QED
    BY <1>1, <2>1, <2>3 DEF SecretHeld
<1>9. CASE Foreign
  BY <1>1, <1>9 DEF Foreign, SecretHeld
<1>10. ASSUME SecretNext PROVE SecretHeld'
  BY <1>3, <1>4, <1>5, <1>6, <1>7, <1>8, <1>9, <1>10 DEF SecretNext
<1> QED
  BY <1>2, <1>10

\* The secrets in the service, the environments a launch is prepared from and the one it gives are of their
\* types (SecretTypeOK).
THEOREM SecretTypeCorrect == SecretSpec => []SecretTypeOK
<1>1. SecretInit => SecretHeld
  BY MapsTyped DEF SecretInit, SecretHeld, NoVerb, NoPrep, VerbSteps
<1>2. SecretInv /\ SecretHeld => SecretTypeOK
  BY DEF SecretInv, SecretTyped, SecretHeld, SecretTypeOK, Outcomes, PrepSteps, VerbSteps
<1> QED
  BY <1>1, <1>2, SecretInitInv, SecretStepInv, SecretsKept, PTL DEF SecretSpec

-----------------------------------------------------------------------------
-----------------------------------------------------------------------------
LEMMA CharsAre ==
  ASSUME NEW S, NEW most \in Nat
  PROVE  /\ \A s \in Seq(S) : Len(s) <= most => s \in Chars(S, most)
         /\ \A s \in Chars(S, most) : s \in Seq(S) /\ Len(s) <= most
<1>1. ASSUME NEW s \in Seq(S), Len(s) <= most PROVE s \in Chars(S, most)
  <2>1. Len(s) \in 0..most /\ s \in [1..Len(s) -> S]
    BY <1>1
  <2> QED
    BY <2>1 DEF Chars
<1>2. ASSUME NEW s \in Chars(S, most) PROVE s \in Seq(S) /\ Len(s) <= most
  <2>1. PICK n \in 0..most : s \in [1..n -> S]
    BY <1>2 DEF Chars
  <2> QED
    BY <2>1
<1> QED
  BY <1>1, <1>2

\* What has been collected is at most twice what has arrived, and of a torn character its first half.
OutputHeld ==
  /\ torn \in BOOLEAN /\ outputTruncated \in BOOLEAN /\ timer \in {"none", "armed", "fired", "escalated"}
  /\ Len(wrote) <= MaxChars /\ (torn => arrived < Len(wrote))
  /\ Len(stdout) <= 2 * arrived + IF torn THEN 1 ELSE 0
  /\ Len(reply.stdout) <= 2 * MaxChars

LEMMA OutputKept == ASSUME CommandInv, CommandInv', OutputHeld, [CommandNext]_commandVars PROVE OutputHeld'
<1>0. /\ CommandTyped /\ MaxChars \in Nat /\ MaxOutput \in Nat
      /\ wrote \in Seq({1, 2}) /\ stdout \in Seq(1..3) /\ arrived \in 0..Len(wrote) /\ reply.stdout \in Seq(1..3)
      /\ Len(wrote) \in Nat /\ Len(stdout) \in Nat /\ arrived \in Nat
  BY CommandAssumption DEF CommandInv, CommandTyped
<1>1. /\ torn \in BOOLEAN /\ outputTruncated \in BOOLEAN /\ timer \in {"none", "armed", "fired", "escalated"}
      /\ Len(wrote) <= MaxChars /\ (torn => arrived < Len(wrote))
      /\ Len(stdout) <= 2 * arrived + IF torn THEN 1 ELSE 0
      /\ Len(reply.stdout) <= 2 * MaxChars
  BY DEF OutputHeld
<1>2. Len(stdout) <= 2 * MaxChars
  BY <1>0, <1>1
<1>3. CASE UNCHANGED commandVars
  BY <1>1, <1>3 DEF commandVars, OutputHeld
<1>4. CASE Spawn
  <2>1. UNCHANGED <<wrote, arrived, torn, stdout, outputTruncated>> /\ timer' \in {"none", "armed"}
        /\ (reply' = reply \/ reply'.stdout = <<>>)
    BY <1>4 DEF Spawn, Pending
  <2>2. Len(<<>>) <= 2 * MaxChars
    BY <1>0
  <2> QED
    BY <1>1, <2>1, <2>2 DEF OutputHeld
<1>5. CASE Writes
  <2>1. UNCHANGED <<arrived, torn, stdout, outputTruncated, timer, reply>> /\ Len(wrote) < MaxChars
        /\ \E width \in {1, 2} : wrote' = Append(wrote, width)
    BY <1>5 DEF Writes
  <2>2. Len(wrote') = Len(wrote) + 1
    BY <1>0, <2>1
  <2> QED
    BY <1>0, <1>1, <2>1, <2>2 DEF OutputHeld
<1>6. CASE Exits
  BY <1>1, <1>6 DEF Exits, OutputHeld
<1>7. CASE Data
  <2>1. UNCHANGED <<wrote, timer, reply>> /\ arrived < Len(wrote)
    BY <1>7 DEF Data
  <2>2. ASSUME NEW width, appendCapped(width) PROVE outputTruncated' \in BOOLEAN /\ Len(stdout') <= Len(stdout) + 1
    <3>1. outputTruncated' \in BOOLEAN
      BY <2>2, Zenon DEF appendCapped
    <3>2. stdout' = stdout \/ stdout' = Append(stdout, width)
      BY <2>2 DEF appendCapped
    <3>3. Len(stdout') <= Len(stdout) + 1
      BY <1>0, <3>2
    <3> QED
      BY <3>1, <3>3
  <2>3. Len(stdout') \in Nat
    BY DEF CommandInv, CommandTyped
  <2>4. CASE ~torn /\ appendCapped(wrote[arrived + 1]) /\ arrived' = arrived + 1 /\ UNCHANGED torn
    <3>1. outputTruncated' \in BOOLEAN /\ Len(stdout') <= Len(stdout) + 1
      BY <2>2, <2>4
    <3>2. Len(stdout') <= 2 * arrived' + IF torn' THEN 1 ELSE 0
      BY <1>0, <1>1, <2>3, <2>4, <3>1
    <3> QED
      BY <1>1, <2>1, <2>4, <3>1, <3>2 DEF OutputHeld
  <2>5. CASE /\ appendCapped(Replacement)
             /\ arrived' = (IF torn THEN arrived + 1 ELSE arrived) /\ torn' = ~torn
    <3>1. outputTruncated' \in BOOLEAN /\ Len(stdout') <= Len(stdout) + 1
      BY <2>2, <2>5
    <3>2. CASE torn
      <4>1. arrived' = arrived + 1 /\ torn' = FALSE
        BY <1>1, <2>5, <3>2
      <4>2. Len(stdout') <= 2 * arrived' + IF torn' THEN 1 ELSE 0
        BY <1>0, <1>1, <2>3, <3>1, <3>2, <4>1
      <4> QED
        BY <1>1, <2>1, <3>1, <4>1, <4>2 DEF OutputHeld
    <3>3. CASE ~torn
      <4>1. arrived' = arrived /\ torn' = TRUE
        BY <1>1, <2>5, <3>3
      <4>2. Len(stdout') <= 2 * arrived' + 1
        BY <1>0, <1>1, <2>3, <3>1, <3>3, <4>1
      <4> QED
        BY <1>1, <2>1, <3>1, <4>1, <4>2 DEF OutputHeld
    <3> QED
      BY <3>2, <3>3
  <2> QED
    BY <1>7, <2>4, <2>5 DEF Data
<1>8. CASE Close
  <2>1. UNCHANGED <<wrote, arrived, torn, stdout, outputTruncated>> /\ \E code : Settle(code)
    BY <1>8 DEF Close
  <2>2. (reply' = reply \/ reply'.stdout = stdout) /\ (timer' = timer \/ timer' = "none")
    BY <2>1 DEF Settle
  <2> QED
    BY <1>1, <1>2, <2>1, <2>2 DEF OutputHeld
<1>9. CASE TimeoutFires
  BY <1>1, <1>9 DEF TimeoutFires, OutputHeld
<1>10. CASE Escalate
  <2>1. UNCHANGED <<wrote, arrived, torn, stdout, outputTruncated>> /\ timer' = "escalated"
        /\ (reply' = reply \/ reply'.stdout = stdout)
    BY <1>10 DEF Escalate
  <2> QED
    BY <1>1, <1>2, <2>1 DEF OutputHeld
<1> QED
  BY <1>3, <1>4, <1>5, <1>6, <1>7, <1>8, <1>9, <1>10 DEF CommandNext

\* The child of a run, what it wrote, the part of it that is kept, the timer and the reply are of their
\* types, in whatever order output, exit, timeout and kill come (CommandTypeOK).
THEOREM CommandTypeCorrect == CommandSpec => []CommandTypeOK
<1>1. CommandInit => OutputHeld
  <2> SUFFICES ASSUME CommandInit PROVE OutputHeld
    OBVIOUS
  <2>1. MaxChars \in Nat /\ 0 <= MaxChars /\ 0 <= 2 * MaxChars /\ Len(<<>>) = 0
    BY CommandAssumption
  <2>2. reply.stdout = <<>>
    BY DEF CommandInit, Pending
  <2>3. /\ wrote = <<>> /\ arrived = 0 /\ torn = FALSE /\ stdout = <<>> /\ outputTruncated = FALSE /\ timer = "none"
    BY DEF CommandInit
  <2>4. Len(stdout) <= 2 * arrived + IF torn THEN 1 ELSE 0
    BY <2>3
  <2> QED
    BY <2>1, <2>2, <2>3, <2>4 DEF OutputHeld
<1>2. CommandInv /\ OutputHeld => CommandTypeOK
  <2> SUFFICES ASSUME CommandInv, OutputHeld PROVE CommandTypeOK
    OBVIOUS
  <2>1. CommandTyped /\ MaxChars \in Nat /\ 2 * MaxChars \in Nat
    BY CommandAssumption DEF CommandInv
  <2>2. wrote \in Chars({1, 2}, MaxChars)
    BY <2>1, CharsAre DEF CommandTyped, OutputHeld
  <2>3. Len(stdout) <= 2 * MaxChars
    <3>1. Len(wrote) \in Nat /\ Len(stdout) \in Nat /\ arrived \in 0..Len(wrote)
      BY <2>1 DEF CommandTyped
    <3> QED
      BY <2>1, <3>1 DEF OutputHeld
  <2>4. stdout \in Received /\ reply.stdout \in Received
    BY <2>1, <2>3, CharsAre DEF CommandTyped, OutputHeld, Received
  <2>5. reply \in [code : {0, 1, NoExit, 124}, stdout : Received, timedOut : BOOLEAN, settled : BOOLEAN]
    BY <2>1, <2>4 DEF CommandTyped
  <2> QED
    BY <2>1, <2>2, <2>4, <2>5 DEF CommandTyped, CommandTypeOK, OutputHeld
<1> QED
  BY <1>1, <1>2, CommandInitInv, CommandStepInv, OutputKept, PTL DEF CommandSpec

-----------------------------------------------------------------------------
VerdictTyped(v) ==
  /\ v.kind \in {"fresh", "rotated", "stale", "inflight", "unsupported"}
  /\ (v.subtype # "none") = (v.kind = "rotated")

\* Verdicts are typed while the files are read, and when they are put together.
LEMMA VerdictsTyped ==
  ASSUME FreshInv
  PROVE  \A v \in Range(inspection.verdicts) : VerdictTyped(v)
<1> DEFINE read == inspection.read
           verdicts == inspection.verdicts
<1>1. /\ DOMAIN OwnFiles = 1..Len(OwnFiles) /\ Len(OwnFiles) \in {1, 2}
      /\ \A i \in DOMAIN OwnFiles : OwnFiles[i] \in CredFile
  BY FilesOwned DEF FreshInv, FilesHeld
<1>2. /\ read \in Seq(Pair) /\ inspection.step \in {"idle", "stored", "live", "done"}
      /\ \A i \in 1..Len(read) : read[i].stored \in Held(OwnFiles[i]) /\ read[i].live \in Held(OwnFiles[i])
  BY DEF FreshInv, InspectionFits
<1>3. ASSUME NEW i \in DOMAIN OwnFiles, i \in 1..Len(read) PROVE VerdictTyped(Compared(i))
  <2>1. Honest(OwnFiles[i], read[i].stored, read[i].live, Compared(i))
    BY <1>1, <1>2, <1>3, CompareHonest DEF Compared
  <2> QED
    BY <2>1 DEF Honest, VerdictTyped
<1>4. VerdictTyped(Verdict("inflight", "none", "medium")) /\ VerdictTyped(Verdict("unsupported", "none", "high"))
  BY DEF Verdict, VerdictTyped
<1>5. ASSUME NEW v \in Range(verdicts) PROVE \E i \in DOMAIN verdicts : v = verdicts[i]
  BY DEF Range
<1>6. CASE inspection.step = "idle"
  <2>1. DOMAIN verdicts = {}
    BY <1>6 DEF FreshInv, InspectionFits
  <2> QED
    BY <1>5, <2>1
<1>7. CASE inspection.step \in {"stored", "live"}
  <2>1. /\ \E S : verdicts \in Seq(S)
        /\ \A i \in 1..Len(verdicts) : verdicts[i] = Compared(i)
        /\ \/ Len(read) < Len(OwnFiles) /\ Len(verdicts) = Len(read)
           \/ Len(read) \in 1..Len(OwnFiles) /\ Len(verdicts) + 1 = Len(read)
    BY <1>7 DEF FreshInv, InspectionFits
  <2>2. DOMAIN verdicts = 1..Len(verdicts) /\ Len(verdicts) \in Nat /\ Len(read) \in Nat
    BY <1>2, <2>1
  <2>3. \A i \in DOMAIN verdicts : i \in DOMAIN OwnFiles /\ i \in 1..Len(read)
    BY <1>1, <2>1, <2>2
  <2> QED
    BY <1>3, <1>5, <2>1, <2>2, <2>3
<1>8. CASE inspection.step = "done" /\ tool = "env"
  <2>1. verdicts = <<Verdict("unsupported", "none", "high")>>
    BY <1>8 DEF FreshInv, InspectionFits
  <2>2. \A i \in DOMAIN verdicts : verdicts[i] = Verdict("unsupported", "none", "high")
    BY <2>1
  <2> QED
    BY <1>4, <1>5, <2>2
<1>9. CASE inspection.step = "done" /\ tool # "env"
  <2>1. PICK raw : /\ verdicts = AggregateInflight(raw) /\ DOMAIN raw = DOMAIN OwnFiles
                   /\ \A i \in DOMAIN OwnFiles : raw[i] = Compared(i)
    BY <1>9 DEF FreshInv, InspectionFits
  <2>2. Len(read) = Len(OwnFiles)
    BY <1>9 DEF FreshInv, InspectionFits
  <2>3. /\ DOMAIN verdicts = DOMAIN OwnFiles
        /\ \A i \in DOMAIN OwnFiles : verdicts[i] \in {Verdict("inflight", "none", "medium"), Compared(i)}
    BY <2>1 DEF AggregateInflight
  <2> QED
    BY <1>1, <1>3, <1>4, <1>5, <2>2, <2>3
<1> QED
  BY <1>2, <1>6, <1>7, <1>8, <1>9

\* The files and the verdicts of a comparison are of their types (FreshTypeOK).
THEOREM FreshTypeCorrect == FreshSpec => []FreshTypeOK
<1>1. ASSUME FreshInv PROVE FreshTypeOK
  <2>1. FilesHeld /\ inspection.step \in {"idle", "stored", "live", "done"}
    BY <1>1 DEF FreshInv, InspectionFits
  <2>2. \A i \in DOMAIN OwnFiles : saved[i].form \in {"none", "plain", "wrapped", "broken", "inner"}
    BY <2>1 DEF FilesHeld, Held, DocForm
  <2> QED
    BY <1>1, <2>1, <2>2, VerdictsTyped DEF FilesHeld, FreshTypeOK, VerdictTyped
<1> QED
  BY <1>1, FreshInitInv, FreshStepInv, PTL DEF FreshSpec

-----------------------------------------------------------------------------
(* The sources together *)

\* A step of the sources is one of the components', the others stand still.
LEMMA SourcesProject ==
  /\ SourcesInit => /\ DirInit /\ VaultInit /\ ProviderInit /\ ResourceInit /\ SecretInit
                    /\ CommandInit /\ FreshInit
  /\ [SourcesNext]_<<part, dirVars, vaultVars, providerVars, resourceVars, secretVars, commandVars,
                     freshVars>> =>
       /\ [DirNext]_dirVars /\ [VaultNext]_vaultVars /\ [ProviderNext]_providerVars
       /\ [ResourceNext]_resourceVars /\ [SecretNext]_secretVars /\ [CommandNext]_commandVars
       /\ [FreshNext]_freshVars
BY DEF SourcesInit, SourcesNext, DirectoryStep, VaultStep, ProviderStep, ResourceStep, SecretStep,
       CommandStep, FreshStep

\* No source loses anything but what is replaced or removed: with the recoveries of directory
\* sources, the backups of the stores and the pinned directory of the helper (OthersKept).
THEOREM SourcesKeepOthers == SourcesSpec => []OthersKept
<1>1. SourcesSpec => DirSpec /\ VaultSpec /\ ProviderSpec
  BY SourcesProject, PTL DEF SourcesSpec, DirSpec, VaultSpec, ProviderSpec
<1>2. DirSpec => []TreeKeptUnlessUndecided
  BY TreesKept
<1> QED
  BY <1>1, <1>2, SiblingsAlwaysKept, ProviderKept, PTL DEF OthersKept

\* And the caller of each source, of an environment and of a command learns what became of it, in
\* any interleaving of the components (AnswersTruthful).
THEOREM SourcesAnswer == SourcesSpec => []AnswersTruthful
<1>1. SourcesSpec => DirSpec /\ VaultSpec /\ ProviderSpec /\ SecretSpec /\ CommandSpec
  BY SourcesProject, PTL DEF SourcesSpec, DirSpec, VaultSpec, ProviderSpec, SecretSpec, CommandSpec
<1> QED
  BY <1>1, DirectoryAnswers, VaultAnswers, ProviderKept, VerbsReported, RepliesTruthful, PTL
     DEF AnswersTruthful

\* And a live credential has one owner whatever else goes on (OwnersSettled).
THEOREM SourcesOwned == SourcesSpec => []OwnersSettled
<1>1. SourcesSpec => ResourceSpec
  BY SourcesProject, PTL DEF SourcesSpec, ResourceSpec
<1> QED
  BY <1>1, OwnersKept, PTL DEF OwnersSettled

\* And what a report says of the credentials, and meta.json of their account, is honest for any number
\* of values that the fields of the files can have and of writes of the CLI (FreshnessHonest).
THEOREM SourcesHonest == SourcesSpec => []FreshnessHonest
<1>1. SourcesSpec => FreshSpec
  BY SourcesProject, PTL DEF SourcesSpec, FreshSpec
<1> QED
  BY <1>1, ReportsHonest, PTL DEF FreshnessHonest

\* Every state the sources reach has the types of their components (SourcesTypeOK).
THEOREM SourcesTyped == SourcesSpec => []SourcesTypeOK
<1>1. SourcesSpec => /\ DirSpec /\ VaultSpec /\ ProviderSpec /\ ResourceSpec /\ SecretSpec
                     /\ CommandSpec /\ FreshSpec
  BY SourcesProject, PTL DEF SourcesSpec, DirSpec, VaultSpec, ProviderSpec, ResourceSpec, SecretSpec,
     CommandSpec, FreshSpec
<1>2. /\ DirSpec => []DirTypeOK
      /\ VaultSpec => []VaultTypeOK
      /\ ProviderSpec => []ProviderTypeOK
      /\ ResourceSpec => []ResourceTypeOK
      /\ SecretSpec => []SecretTypeOK
      /\ CommandSpec => []CommandTypeOK
      /\ FreshSpec => []FreshTypeOK
  BY DirTypeCorrect, VaultTypeCorrect, ProviderTypeCorrect, ResourceTypeCorrect, SecretTypeCorrect,
     CommandTypeCorrect, FreshTypeCorrect
<1>3. DirTypeOK /\ VaultTypeOK /\ ProviderTypeOK /\ ResourceTypeOK /\ SecretTypeOK /\ CommandTypeOK
        /\ FreshTypeOK => SourcesTypeOK
  BY DEF SourcesTypeOK
<1> QED
  BY <1>1, <1>2, <1>3, PTL

=============================================================================
