-------------------------- MODULE ForegroundProofs --------------------------
(***************************************************************************)
(* Proofs about the global configuration and the start of a session.       *)
(*                                                                         *)
(* ConfigStore, for any number of processes, setter calls and entries: the *)
(* cleanup is exact, and an update is undone only by a call that overlaps  *)
(* it; ConfigStore_concurrent shows that such calls do undo updates.       *)
(*                                                                         *)
(* SessionStart, for any number of changes outside: a child is isolated.   *)
(* The options of aider are those of the model; that an abbreviation of a  *)
(* blocked one is refused follows from how argparse reads abbreviations.   *)
(*                                                                         *)
(* SessionCopy, for any number of failing operations and of changes that   *)
(* other programs make meanwhile: the tasks of a copy are computed from    *)
(* its definition once, and the number of the task tells what it has got.  *)
(*                                                                         *)
(* MCForeground: the types of all that moves in the foreground.            *)
(***************************************************************************)
EXTENDS MCForeground, TuiProofs, SessionRecaptureProofs, SessionLifecycleProofs, FiniteSetTheorems, TLAPS

-----------------------------------------------------------------------------
(* The global configuration *)

\* A call of a process that is gone; it stays so.
Gone(c) == phase[c] # "new" /\ process[pid[c]] = "dead"

\* A call that began has a process, and only a call that wrote has a temporary file.
Begun == \A c \in Call : phase[c] # "new" => pid[c] \in Pid
WrittenOut == \A c \in temporaries : phase[c] # "new"

\* What a process found at its start are files of calls that are gone; those still there are
\* on its list.
LeftoversGone == \A p \in Pid : \A c \in leftovers[p] : c \in Call /\ Gone(c)
LeftoversListed ==
  \A p \in Pid : process[p] = "up" => leftovers[p] \intersect temporaries \subseteq scan[p]

\* A call that nobody overtook knows what the file holds.
Current == \A c \in Call : HasCopy(c) /\ unseen[c] = {} => copy[c] = config

\* Who overtakes a call is of another process, or one of the two was not waited for.
Overtaken ==
  \A c \in Call : \A d \in unseen[c] : phase[c] # "new" /\ phase[d] # "new" /\ Overlaps(c, d)

ConfigInv ==
  /\ ConfigTypeOK /\ CleanupSparesWriters
  /\ Begun /\ WrittenOut /\ LeftoversGone /\ LeftoversListed /\ Current /\ Overtaken

-----------------------------------------------------------------------------
LEMMA ConfigInitInv == ConfigInit => ConfigInv
BY ConfigAssumption
DEF ConfigInit, ConfigInv, ConfigTypeOK, Configs, Unset, CleanupSparesWriters, Begun, WrittenOut,
    LeftoversGone, LeftoversListed, Current, Overtaken, HasCopy, Running, Gone

LEMMA ConfigTypeStep ==
  ASSUME ConfigInv, [ConfigNext]_configVars
  PROVE  ConfigTypeOK'
<1> USE DEF ConfigInv, ConfigTypeOK, Begun, Running, HasCopy, Overlaps, Becomes
<1>1. CASE UNCHANGED configVars
  BY <1>1 DEF configVars
<1>2. ASSUME NEW p \in Pid, StartUp(p) PROVE ConfigTypeOK'
  BY <1>2 DEF StartUp
<1>3. ASSUME NEW p \in Pid, KillProcess(p) PROVE ConfigTypeOK'
  BY <1>3 DEF KillProcess
<1>4. ASSUME NEW p \in Pid, NEW c \in Call, CleanTmp(p, c) PROVE ConfigTypeOK'
  BY <1>4 DEF CleanTmp
<1>5. ASSUME NEW c \in Call, NEW p \in Pid, MutateConfig(c, p) PROVE ConfigTypeOK'
  BY <1>5 DEF MutateConfig
<1>6. ASSUME NEW c \in Call, LoadConfig(c) PROVE ConfigTypeOK'
  BY <1>6 DEF LoadConfig, Configs
<1>7. ASSUME NEW c \in Call, WriteTmp(c) PROVE ConfigTypeOK'
  BY <1>7 DEF WriteTmp
<1>8. ASSUME NEW c \in Call, Rename(c) PROVE ConfigTypeOK'
  <2>1. config' \in Configs
    BY <1>8 DEF Rename, Configs
  <2> QED
    BY <1>8, <2>1 DEF Rename
<1>9. ASSUME NEW c \in Call, SaveFails(c) PROVE ConfigTypeOK'
  BY <1>9 DEF SaveFails
<1> QED
  BY <1>1, <1>2, <1>3, <1>4, <1>5, <1>6, <1>7, <1>8, <1>9 DEF ConfigNext

LEMMA ConfigStepInv ==
  ASSUME ConfigInv, [ConfigNext]_configVars
  PROVE  ConfigInv'
<1>0. ConfigTypeOK'
  BY ConfigTypeStep
<1> SUFFICES /\ CleanupSparesWriters' /\ Begun' /\ WrittenOut'
             /\ LeftoversGone' /\ LeftoversListed' /\ Current' /\ Overtaken'
  BY <1>0 DEF ConfigInv
<1> USE DEF ConfigInv, ConfigTypeOK, CleanupSparesWriters, Begun, WrittenOut, LeftoversGone,
         LeftoversListed, Current, Overtaken, Overlaps, HasCopy, Running, Gone, Becomes
<1> DEFINE Unharmed == /\ CleanupSparesWriters' /\ Begun' /\ WrittenOut'
                   /\ LeftoversGone' /\ LeftoversListed' /\ Current' /\ Overtaken'
<1>1. CASE UNCHANGED configVars
  BY <1>1 DEF configVars
<1>2. ASSUME NEW p \in Pid, StartUp(p) PROVE Unharmed
  BY <1>2 DEF StartUp
<1>3. ASSUME NEW p \in Pid, KillProcess(p) PROVE Unharmed
  BY <1>3 DEF KillProcess
<1>4. ASSUME NEW p \in Pid, NEW c \in Call, CleanTmp(p, c) PROVE Unharmed
  BY <1>4 DEF CleanTmp
<1>5. ASSUME NEW c \in Call, NEW p \in Pid, MutateConfig(c, p) PROVE Unharmed
  BY <1>5 DEF MutateConfig
<1>6. ASSUME NEW c \in Call, LoadConfig(c) PROVE Unharmed
  BY <1>6 DEF LoadConfig
<1>7. ASSUME NEW c \in Call, WriteTmp(c) PROVE Unharmed
  BY <1>7 DEF WriteTmp
<1>8. ASSUME NEW c \in Call, Rename(c) PROVE Unharmed
  <2>1. CleanupSparesWriters' /\ Begun' /\ WrittenOut' /\ LeftoversGone' /\ LeftoversListed'
    BY <1>8 DEF Rename
  <2>2. /\ phase' = [phase EXCEPT ![c] = "done"] /\ UNCHANGED <<pid, key, copy>> /\ phase[c] = "rename"
        /\ unseen' = [d \in Call |-> IF d # c /\ HasCopy(d) THEN unseen[d] \union {c} ELSE unseen[d]]
    BY <1>8 DEF Rename
  <2>3. ASSUME NEW d \in Call, HasCopy(d)' PROVE unseen'[d] # {}
    BY <2>2, <2>3
  <2>4. Current'
    BY <2>3
  <2>5. ASSUME NEW d \in Call, NEW e \in unseen'[d]
        PROVE  phase'[d] # "new" /\ phase'[e] # "new" /\ Overlaps(d, e)'
    <3>1. CASE e \in unseen[d]
      BY <2>2, <3>1
    <3>2. CASE e \notin unseen[d]
      <4>1. d # c /\ HasCopy(d) /\ e = c
        BY <2>2, <2>5, <3>2
      <4> QED
        BY <2>2, <4>1
    <3> QED
      BY <3>1, <3>2
  <2>6. Overtaken'
    BY <2>5
  <2> QED
    BY <2>1, <2>4, <2>6
<1>9. ASSUME NEW c \in Call, SaveFails(c) PROVE Unharmed
  BY <1>9 DEF SaveFails
<1> QED
  BY <1>1, <1>2, <1>3, <1>4, <1>5, <1>6, <1>7, <1>8, <1>9 DEF ConfigNext

LEMMA ConfigInvariance == ConfigSpec => []ConfigInv
BY ConfigInitInv, ConfigStepInv, PTL DEF ConfigSpec

\* However many processes start, write and die, no cleanup takes the temporary file of a write that
\* is under way, and each one removes all that dead processes had left when it began.
THEOREM CleanupCorrect == ConfigSpec => []CleanupExact
<1>1. ConfigInv => CleanupExact
  BY DEF ConfigInv, CleanupExact, LeftoversRemoved, LeftoversListed
<1> QED
  BY <1>1, ConfigInvariance, PTL

\* What another call saved is undone only by a call that had loaded the file before, and only if the
\* two are of different processes or one was not waited for (mutateConfig), for any number of
\* processes, calls, failures and kills.
THEOREM UpdatesKept == ConfigSpec => UndoneByOverlap
<1> DEFINE A == \A k \in Key : config'[k] # config[k] =>
                  \E c \in Call : Saves(c) /\ (key[c] = k \/ \E d \in unseen[c] : Overlaps(c, d))
<1>1. ConfigInv /\ [ConfigNext]_configVars => [A]_configVars
  <2> SUFFICES ASSUME ConfigInv, ConfigNext, NEW k \in Key, config'[k] # config[k]
               PROVE  \E c \in Call : Saves(c) /\ (key[c] = k \/ \E d \in unseen[c] : Overlaps(c, d))
    OBVIOUS
  <2>1. PICK c \in Call : Rename(c)
    BY DEF ConfigNext, StartUp, KillProcess, CleanTmp, MutateConfig, LoadConfig, WriteTmp,
         SaveFails
  <2>2. Saves(c)
    BY <2>1 DEF Rename, Saves, Becomes, ConfigInv, ConfigTypeOK
  <2>3. CASE unseen[c] = {}
    <3>1. copy[c] = config
      BY <2>1, <2>3 DEF Rename, ConfigInv, Current, HasCopy
    <3>2. key[c] = k
      BY <2>1, <3>1 DEF Rename, ConfigInv, ConfigTypeOK, Configs
    <3> QED
      BY <2>2, <3>2
  <2>4. CASE unseen[c] # {}
    BY <2>2, <2>4 DEF ConfigInv, Overtaken
  <2> QED
    BY <2>3, <2>4
<1> QED
  BY <1>1, ConfigInvariance, PTL DEF ConfigSpec, UndoneByOverlap

-----------------------------------------------------------------------------
(* Filling the directory of a session *)

\* The directory is being filled.
Filling == {"task", "share", "list", "entry", "look", "contain", "open", "verify", "read"}

\* Whose directory it is follows from how far the start has come, and so does whether anything
\* has failed.
Ownership ==
  /\ copying.step \in {"idle", "mkdir"} => session.exists \in {"none", "others"} /\ refusals = 0
  /\ copying.step \in Filling \union {"ready"} => session.exists = "mine" /\ refusals = 0
  /\ copying.step = "cleanup" => session.exists = "mine"
  /\ copying.step = "refused" => session.exists \in {"none", "others", "stuck"}

CopyInv ==
  /\ "step" \in DOMAIN copying /\ "exists" \in DOMAIN session
  /\ copying.step \in CopySteps /\ refusals \in Nat
  /\ Ownership
  /\ session.exists = "stuck" => refusals > 0

LEMMA CopyInitInv == CopyInit => CopyInv
<1> SUFFICES ASSUME CopyInit PROVE CopyInv
  OBVIOUS
<1>1. copying = NoCopying /\ copying.step = "idle" /\ "step" \in DOMAIN copying
  BY DEF CopyInit, NoCopying
<1>2. session.exists \in {"none", "others"} /\ "exists" \in DOMAIN session
  BY DEF CopyInit, NoSession
<1> QED
  BY <1>1, <1>2 DEF CopyInit, CopyInv, Ownership, Filling, CopySteps

-----------------------------------------------------------------------------
\* The next task, or the end of the copy.
LEMMA NextTaskStep ==
  ASSUME NextTask
  PROVE  copying'.step \in {"task", "ready"} /\ "step" \in DOMAIN copying'
BY DEF NextTask, NoCopying

\* The three ways in which the copy leaves a step: on to another, to the next task, to the cleanup.
LEMMA FillingStep ==
  ASSUME CopyInv, copying.step \in Filling,
         "step" \in DOMAIN copying', copying'.step \in Filling \union {"ready"},
         "exists" \in DOMAIN session', session'.exists = session.exists, refusals' = refusals
  PROVE  CopyInv'
BY DEF CopyInv, Ownership, Filling, CopySteps

LEMMA GiveUpStep ==
  ASSUME CopyInv, copying.step \in Filling, GiveUp
  PROVE  CopyInv'
BY DEF CopyInv, Ownership, Filling, CopySteps, GiveUp, Goes

LEMMA CopiedKeeps ==
  ASSUME CopyInv, NEW rel, NEW node, Copied(rel, node)
  PROVE  "exists" \in DOMAIN session' /\ session'.exists = session.exists
BY DEF CopyInv, Copied

LEMMA CopyStepInv ==
  ASSUME CopyInv, [CopyNext]_copyVars
  PROVE  CopyInv'
<1> USE DEF CopySteps
<1>1. CASE UNCHANGED copyVars
  BY <1>1 DEF copyVars, CopyInv, Ownership
<1>2. CASE PlanSession
  BY <1>2 DEF PlanSession, CopyInv, Ownership, Filling, Goes
<1>3. CASE MakeSession
  BY <1>3 DEF MakeSession, CopyInv, Ownership, Filling, Goes
<1>4. CASE MakeRoot
  <2>1. "exists" \in DOMAIN session' /\ session'.exists = session.exists
    BY <1>4 DEF MakeRoot, CopyInv
  <2> QED
    BY <1>4, <2>1, NextTaskStep, FillingStep DEF MakeRoot, Filling
<1>5. CASE CopyCred
  <2>1. CASE GiveUp
    BY <1>5, <2>1, GiveUpStep DEF CopyCred, Filling
  <2>2. CASE ~GiveUp
    <3>1. "exists" \in DOMAIN session' /\ session'.exists = session.exists
      BY <1>5, <2>2 DEF CopyCred, CopyInv
    <3>2. NextTask /\ UNCHANGED refusals
      BY <1>5, <2>2 DEF CopyCred
    <3> QED
      BY <1>5, <3>1, <3>2, NextTaskStep, FillingStep DEF CopyCred, Filling
  <2> QED
    BY <2>1, <2>2
<1>6. CASE LookShare
  <2>1. copying.step \in Filling /\ (GiveUp \/ ((NextTask \/ Goes("share")) /\ UNCHANGED <<session, refusals>>))
    BY <1>6 DEF LookShare, Filling
  <2> QED
    BY <2>1, GiveUpStep, NextTaskStep, FillingStep DEF CopyInv, Goes, Filling
<1>7. CASE CopyShare
  <2>1. CASE GiveUp
    BY <1>7, <2>1, GiveUpStep DEF CopyShare, Filling
  <2>2. CASE ~GiveUp
    BY <1>7, <2>2, CopiedKeeps, NextTaskStep, FillingStep DEF CopyShare, Filling
  <2> QED
    BY <2>1, <2>2
<1>8. CASE LookShareDir
  <2>1. copying.step \in Filling /\ (GiveUp \/ ((NextTask \/ Goes("list")) /\ UNCHANGED <<session, refusals>>))
    BY <1>8 DEF LookShareDir, Filling
  <2> QED
    BY <2>1, GiveUpStep, NextTaskStep, FillingStep DEF CopyInv, Goes, Filling
<1>9. CASE ListDirectory
  <2>1. copying.step \in Filling /\ (GiveUp \/ (Goes("entry") /\ UNCHANGED <<session, refusals>>))
    BY <1>9 DEF ListDirectory, Filling
  <2> QED
    BY <2>1, GiveUpStep, FillingStep DEF CopyInv, Goes, Filling
<1>10. CASE NextEntry
  <2>1. copying.step \in Filling
    BY <1>10 DEF NextEntry, Filling
  <2>2. CASE GiveUp
    BY <2>1, <2>2, GiveUpStep
  <2>3. CASE ~GiveUp
    <3>1. UNCHANGED <<session, refusals>>
      BY <1>10, <2>3 DEF NextEntry
    <3>2. "step" \in DOMAIN copying' /\ copying'.step \in {"look", "entry", "task", "ready"}
      BY <1>10, <2>3, NextTaskStep DEF NextEntry, Goes, CopyInv
    <3> QED
      BY <2>1, <3>1, <3>2, FillingStep DEF CopyInv, Filling
  <2> QED
    BY <2>2, <2>3
<1>11. CASE LookEntry
  <2>1. copying.step \in Filling
    BY <1>11 DEF LookEntry, Filling
  <2>2. CASE GiveUp
    BY <2>1, <2>2, GiveUpStep
  <2>3. CASE ~GiveUp
    <3>1. UNCHANGED <<session, refusals>>
      BY <1>11, <2>3 DEF LookEntry
    <3>2. "step" \in DOMAIN copying' /\ copying'.step \in {"list", "contain"}
      BY <1>11, <2>3 DEF LookEntry, CopyInv
    <3> QED
      BY <2>1, <3>1, <3>2, FillingStep DEF CopyInv, Filling
  <2> QED
    BY <2>2, <2>3
<1>12. CASE CheckContained \/ VerifyFile
  <2>1. copying.step \in Filling
        /\ (GiveUp \/ ((Goes("open") \/ Goes("read")) /\ UNCHANGED <<session, refusals>>))
    BY <1>12 DEF CheckContained, VerifyFile, Filling
  <2> QED
    BY <2>1, GiveUpStep, FillingStep DEF CopyInv, Goes, Filling
<1>13. CASE OpenFile
  <2>1. copying.step \in Filling
    BY <1>13 DEF OpenFile, Filling
  <2>2. CASE GiveUp
    BY <2>1, <2>2, GiveUpStep
  <2>3. CASE ~GiveUp
    <3>1. UNCHANGED <<session, refusals>>
      BY <1>13, <2>3 DEF OpenFile
    <3>2. "step" \in DOMAIN copying' /\ copying'.step = "verify"
      BY <1>13, <2>3 DEF OpenFile, CopyInv
    <3> QED
      BY <2>1, <3>1, <3>2, FillingStep DEF CopyInv, Filling
  <2> QED
    BY <2>2, <2>3
<1>14. CASE ReadFile
  <2>1. copying.step \in Filling
    BY <1>14 DEF ReadFile, Filling
  <2>2. CASE GiveUp
    BY <2>1, <2>2, GiveUpStep
  <2>3. CASE ~GiveUp
    <3>1. UNCHANGED refusals /\ "exists" \in DOMAIN session' /\ session'.exists = session.exists
      BY <1>14, <2>3, CopiedKeeps DEF ReadFile
    <3>2. "step" \in DOMAIN copying' /\ copying'.step = "entry"
      BY <1>14, <2>3 DEF ReadFile, CopyInv
    <3> QED
      BY <2>1, <3>1, <3>2, FillingStep DEF Filling
  <2> QED
    BY <2>2, <2>3
<1>15. CASE OperationFails
  BY <1>15 DEF OperationFails, Refusal, Goes, CopyInv, Ownership, Filling
<1>16. CASE CleanUp
  <2>1. "step" \in DOMAIN copying' /\ copying'.step = "refused"
    BY <1>16 DEF CleanUp, NoCopying
  <2>2. CASE session' = [NoSession EXCEPT !.exists = IF session.exists = "others" THEN "lost" ELSE "none"]
    BY <1>16, <2>1, <2>2 DEF CleanUp, CopyInv, Ownership, Filling, NoSession, Refusal
  <2>3. CASE session' = [session EXCEPT !.exists = "stuck"] /\ Refusal
    BY <1>16, <2>1, <2>3 DEF CleanUp, CopyInv, Ownership, Filling, Refusal
  <2> QED
    BY <1>16, <2>2, <2>3 DEF CleanUp
<1>17. CASE ChangeProfile \/ ReplaceEntry \/ GrowFile
  <2>1. UNCHANGED <<session, refusals>>
    BY <1>17 DEF ChangeProfile, ReplaceEntry, GrowFile, Rewriting
  <2>2. "step" \in DOMAIN copying' /\ copying'.step = copying.step
    BY <1>17 DEF ChangeProfile, ReplaceEntry, GrowFile, CopyInv
  <2> QED
    BY <2>1, <2>2 DEF CopyInv, Ownership
<1> QED
  BY <1>1, <1>2, <1>3, <1>4, <1>5, <1>6, <1>7, <1>8, <1>9, <1>10, <1>11, <1>12, <1>13, <1>14,
     <1>15, <1>16, <1>17 DEF CopyNext

\* A refused start leaves nothing behind but what it could not remove, and never the directory of
\* another session in pieces; a session that starts has met no failure (session.ts:322-345).
THEOREM StartsWhole == CopySpec => []StartAllOrNothing
<1>1. CopyInv => StartAllOrNothing
  BY DEF CopyInv, StartAllOrNothing, Ownership, Filling
<1>2. CopyInv /\ [CopyNext]_copyVars => CopyInv'
  BY CopyStepInv
<1> QED
  BY <1>1, <1>2, CopyInitInv, PTL DEF CopySpec

-----------------------------------------------------------------------------
(* Starting a session *)

\* What options are made of.
Word == {"conf", "ig", "env", "-file", "set", "-env", "api", "-key", "mod", "el", "-", "settings-file",
         "metadata-file", "s", "weak", "-model", "list", "-models", "al", "ias", "message", "share", "-c"}

\* A start that goes on has passed the checks of the steps behind it, in their order.
Passed(steps) == start.kind = "command" /\ start.step \in steps

Child == [Variable -> {"session", "unset", "fixed", "inherited"}]
Proceeding ==
  /\ start \in [step : StartSteps, cli : Cli, kind : {"shell", "command"}, args : Arguments,
                group : Nat, copy : {"none", "clean", "bypass"}, child : Child]
  /\ inherited \subseteq Variable /\ material \in {"missing", "empty", "clean", "bypass"}

\* Nobody's arguments or variables lead elsewhere.
Checked ==
  /\ Passed({"args", "files", "profile", "copy", "inspect", "spawn", "spawned"}) =>
       start.cli \in Runnable /\ ~ArgsBypass(start.cli, start.args)
  /\ Passed({"files", "profile", "copy", "inspect", "spawn", "spawned"}) =>
       \A n \in inherited : ~EnvBypasses(start.cli, n)

\* The groups of files that were looked at, and have not changed since.
Looked(n) == \A g \in 1..n : \A c \in Candidates(start.cli)[g] : ~Blocks(c)
FilesLooked ==
  ~shifted =>
    /\ Passed({"args"}) => start.group = 0
    /\ Passed({"files"}) => start.group < Len(Candidates(start.cli)) /\ Looked(start.group)
    /\ Passed({"profile", "copy", "inspect", "spawn", "spawned"}) => Looked(Len(Candidates(start.cli)))

\* What the copy of aider holds, and where the variables of the child come from.
Made ==
  /\ start.cli = "aider" /\ start.step = "inspect" => start.copy \in {"clean", "bypass"}
  /\ start.cli = "aider" /\ start.step \in {"spawn", "spawned"} => start.copy = "clean"
  /\ start.step = "spawned" => start.child = ChildEnv(start.cli, start.kind, inherited)

StartInv == Proceeding /\ Checked /\ FilesLooked /\ Made

\* Aider has three groups of files that are looked at, OpenCode seven.
LEMMA GroupCounts ==
  ASSUME NEW cli \in Cli
  PROVE  Len(Candidates(cli)) = IF cli = "aider" THEN 3 ELSE IF cli = "opencode" THEN 7 ELSE 0
BY DEF Candidates, Cli

-----------------------------------------------------------------------------
(* Options and their abbreviations *)

\* A prefix agrees place by place.
LEMMA PrefixPointwise ==
  ASSUME NEW s \in Seq(Word), NEW t \in Seq(Word)
  PROVE  IsPrefix(s, t) <=> Len(s) <= Len(t) /\ \A i \in 1..Len(s) : s[i] = t[i]
<1>1. ASSUME Len(s) <= Len(t)
      PROVE  /\ SubSeq(s, 1, Len(s)) = s
             /\ SubSeq(t, 1, Len(s)) \in Seq(Word) /\ Len(SubSeq(t, 1, Len(s))) = Len(s)
             /\ \A i \in 1..Len(s) : SubSeq(t, 1, Len(s))[i] = t[i]
  BY <1>1
<1> QED
  BY <1>1 DEF IsPrefix

LEMMA OptionTyped == \A f \in Option : f \in Seq(Word)
<1> USE DEF Word
<1>1. /\ <<"conf", "ig">> \in Seq(Word) /\ <<"env">> \in Seq(Word) /\ <<"env", "-file">> \in Seq(Word)
      /\ <<"set", "-env">> \in Seq(Word) /\ <<"api", "-key">> \in Seq(Word)
  OBVIOUS
<1>2. /\ <<"mod", "el", "-", "settings-file">> \in Seq(Word)
      /\ <<"mod", "el", "-", "metadata-file">> \in Seq(Word)
  OBVIOUS
<1>3. /\ <<"mod", "el">> \in Seq(Word) /\ <<"mod", "el", "s">> \in Seq(Word)
      /\ <<"weak", "-model">> \in Seq(Word) /\ <<"list", "-models">> \in Seq(Word)
      /\ <<"al", "ias">> \in Seq(Word) /\ <<"message">> \in Seq(Word)
  OBVIOUS
<1> QED
  BY <1>1, <1>2, <1>3 DEF Option, AiderBlocked, Sidecar, ModelFlag, AliasFlag

LEMMA SidecarOptions ==
  ASSUME NEW f \in Sidecar
  PROVE  f \in Seq(Word) /\ Len(f) = 4 /\ f[1] = "mod" /\ f[2] = "el" /\ f[3] = "-"
<1>1. f \in Seq(Word)
  BY OptionTyped DEF Option, AiderBlocked
<1> QED
  BY <1>1 DEF Sidecar

LEMMA FinitelyManyOptions == IsFiniteSet(Option)
<1>1. Option = {<<"conf", "ig">>} \union {<<"env">>} \union {<<"env", "-file">>} \union {<<"set", "-env">>}
                \union {<<"api", "-key">>} \union {<<"mod", "el", "-", "settings-file">>}
                \union {<<"mod", "el", "-", "metadata-file">>} \union {<<"mod", "el">>}
                \union {<<"mod", "el", "s">>} \union {<<"weak", "-model">>} \union {<<"list", "-models">>}
                \union {<<"al", "ias">>} \union {<<"message">>}
  BY DEF Option, AiderBlocked, Sidecar, ModelFlag, AliasFlag
<1>2. \A x : IsFiniteSet({x})
  BY FS_Singleton
<1> QED
  BY <1>1, <1>2, FS_Union

\* An option that is not written in full stands for a longer one only if no other begins like it.
LEMMA OneReading ==
  ASSUME NEW opt \in Seq(Word), NEW f \in Reads(opt), opt \notin Option
  PROVE  f \in Option /\ IsPrefix(opt, f) /\ \A g \in Option : IsPrefix(opt, g) => g = f
<1> DEFINE longer == {g \in Option : IsPrefix(opt, g)}
<1>1. Cardinality(longer) = 1 /\ Reads(opt) = longer
  BY DEF Reads
<1>2. PICK x : longer = {x}
  <2> HIDE DEF longer
  <2>1. IsFiniteSet(longer)
    BY FinitelyManyOptions, FS_Subset DEF longer
  <2> QED
    BY <1>1, <2>1, FS_Singleton
<1> QED
  BY <1>1, <1>2

\* An option that stands for a blocked one is matched, and so are those that name a model or an alias.
LEMMA BlockedFound ==
  ASSUME NEW opt \in Seq(Word), NEW f \in Reads(opt), f \in AiderBlocked
  PROVE  \E flag \in AiderBlocked : MatchesBlocked(opt, flag)
<1>1. CASE opt \in Option
  BY <1>1 DEF Reads, MatchesBlocked
<1>2. CASE opt \notin Option
  <2>1. f \in Option /\ IsPrefix(opt, f) /\ \A g \in Option : IsPrefix(opt, g) => g = f
    BY <1>2, OneReading
  <2>2. opt # <<"mod", "el">> /\ <<"mod", "el">> \in Option /\ <<"mod", "el", "s">> \in Option
    BY <1>2 DEF Option, ModelFlag
  <2>3. ASSUME f \in Sidecar PROVE IsPrefix(<<"mod", "el", "-">>, opt)
    <3>1. f \in Seq(Word) /\ Len(f) = 4 /\ f[1] = "mod" /\ f[2] = "el" /\ f[3] = "-"
      BY <2>3, SidecarOptions
    <3>2. Len(opt) <= 4 /\ \A i \in 1..Len(opt) : opt[i] = f[i]
      BY <2>1, <3>1, PrefixPointwise
    <3>3. Len(opt) # 4
      BY <1>2, <2>1, <3>1, <3>2
    <3>4. ~(Len(opt) = 2)
      BY <2>2, <3>1, <3>2
    <3>5. ~(Len(opt) < 2)
      <4> SUFFICES ASSUME Len(opt) < 2 PROVE FALSE
        OBVIOUS
      <4>0. <<"mod", "el">> \in Seq(Word) /\ <<"mod", "el", "s">> \in Seq(Word)
        BY OptionTyped, <2>2
      <4>1. \A k \in 1..Len(opt) : opt[k] = <<"mod", "el">>[k] /\ opt[k] = <<"mod", "el", "s">>[k]
        BY <3>1, <3>2
      <4>2. IsPrefix(opt, <<"mod", "el">>) /\ IsPrefix(opt, <<"mod", "el", "s">>)
        <5>1. Len(opt) \in Nat /\ Len(<<"mod", "el">>) = 2 /\ Len(<<"mod", "el", "s">>) = 3
          OBVIOUS
        <5>2. Len(opt) <= Len(<<"mod", "el">>) /\ Len(opt) <= Len(<<"mod", "el", "s">>)
          BY <5>1
        <5> QED
          BY <4>0, <4>1, <5>2, PrefixPointwise
      <4>3. <<"mod", "el">> # <<"mod", "el", "s">>
        OBVIOUS
      <4> QED
        BY <2>1, <2>2, <4>2, <4>3
    <3>6. Len(opt) = 3
      <4>1. \A n \in Nat : n <= 4 /\ n # 4 /\ n # 2 /\ ~(n < 2) => n = 3
        OBVIOUS
      <4>2. Len(opt) \in Nat
        OBVIOUS
      <4> QED
        BY <4>1, <4>2, <3>2, <3>3, <3>4, <3>5
    <3> QED
      BY <3>1, <3>2, <3>6, PrefixPointwise
  <2> QED
    BY <2>1, <2>2, <2>3 DEF MatchesBlocked
<1> QED
  BY <1>1, <1>2

LEMMA ModelFound ==
  ASSUME NEW opt \in Seq(Word), NEW f \in Reads(opt), f \in ModelFlag
  PROVE  MatchesModel(opt)
<1>1. CASE opt \in Option
  BY <1>1 DEF Reads, MatchesModel
<1>2. CASE opt \notin Option
  <2>1. f \in Option /\ IsPrefix(opt, f) /\ \A g \in Option : IsPrefix(opt, g) => g = f
    BY <1>2, OneReading
  <2>2. ASSUME f = <<"mod", "el">> PROVE FALSE
    <3>1. <<"mod", "el", "s">> \in Option /\ <<"mod", "el">> # <<"mod", "el", "s">>
      BY DEF Option, ModelFlag
    <3>2. IsPrefix(opt, <<"mod", "el", "s">>)
      <4>1. <<"mod", "el">> \in Seq(Word) /\ <<"mod", "el", "s">> \in Seq(Word)
        BY OptionTyped, <3>1 DEF Option, ModelFlag
      <4>2. Len(opt) <= 2 /\ \A k \in 1..Len(opt) : opt[k] = <<"mod", "el">>[k]
        BY <2>1, <2>2, <4>1, PrefixPointwise
      <4>3. Len(opt) <= 3 /\ \A k \in 1..Len(opt) : opt[k] = <<"mod", "el", "s">>[k]
        BY <4>2
      <4> QED
        BY <4>1, <4>3, PrefixPointwise
    <3> QED
      BY <2>1, <2>2, <3>1, <3>2
  <2> QED
    BY <2>1, <2>2 DEF MatchesModel
<1> QED
  BY <1>1, <1>2

LEMMA AliasFound ==
  ASSUME NEW opt \in Seq(Word), Reads(opt) = AliasFlag
  PROVE  MatchesAlias(opt)
<1>0. PICK f \in Reads(opt) : f \in AliasFlag
  BY DEF AliasFlag
<1>1. CASE opt \in Option
  <2>1. opt = f
    BY <1>0, <1>1 DEF Reads
  <2> QED
    BY <1>0, <2>1, PrefixPointwise DEF MatchesAlias
<1>2. CASE opt \notin Option
  BY <1>0, <1>2, OneReading DEF MatchesAlias
<1> QED
  BY <1>1, <1>2

\* The options that are let through stand for none that leads elsewhere.
LEMMA ArgumentsHarmless ==
  ASSUME NEW args, \A i \in DOMAIN args : args[i].opt \in Seq(Word), ~AiderArgsBypass(args),
         NEW i \in DOMAIN args
  PROVE  /\ args[i].opt # <<"-c">> /\ Reads(args[i].opt) \cap AiderBlocked = {}
         /\ Reads(args[i].opt) \subseteq ModelFlag /\ Reads(args[i].opt) # {} => ValueOf(args, i) # "model"
         /\ Reads(args[i].opt) = AliasFlag => ValueOf(args, i) # "alias"
<1> DEFINE opt == args[i].opt
<1>0. opt \in Seq(Word)
  OBVIOUS
<1>1. CASE opt = <<>>
  <2>1. opt \notin Option /\ <<"env">> \in Option /\ <<"set", "-env">> \in Option
    BY <1>1 DEF Option, AiderBlocked, Sidecar, ModelFlag, AliasFlag
  <2>2. IsPrefix(opt, <<"env">>) /\ IsPrefix(opt, <<"set", "-env">>)
    <3>1. \A f \in Seq(Word) : IsPrefix(<<>>, f)
      <4>1. <<>> \in Seq(Word) /\ Len(<<>>) = 0 /\ 1..0 = {}
        OBVIOUS
      <4>2. TAKE f \in Seq(Word)
      <4>3. Len(f) \in Nat
        OBVIOUS
      <4>4. IsPrefix(<<>>, f) <=> Len(<<>>) <= Len(f) /\ \A k \in 1..Len(<<>>) : <<>>[k] = f[k]
        BY <4>1, PrefixPointwise
      <4> QED
        BY <4>1, <4>3, <4>4
    <3>2. <<"env">> \in Seq(Word) /\ <<"set", "-env">> \in Seq(Word)
      BY <2>1, OptionTyped
    <3> QED
      BY <1>1, <3>1, <3>2
  <2>3. Reads(opt) = {}
    BY <1>0, <2>1, <2>2, OneReading
  <2>4. AliasFlag # {} /\ opt # <<"-c">>
    BY <1>1 DEF AliasFlag
  <2> QED
    BY <2>3, <2>4
<1>2. CASE opt # <<>>
  BY <1>0, <1>2, BlockedFound, ModelFound, AliasFound DEF AiderArgsBypass
<1> QED
  BY <1>1, <1>2

-----------------------------------------------------------------------------
(* Files *)

\* The walk ends at the first directory with a .git.
LEMMA WalkIs == Walk(Level) = {j \in Level : \A i \in Level : i < j => i \notin git}
<1> DEFINE F(f) == [i \in Level |-> IF i \in git \/ i + 1 \notin Level THEN {i} ELSE {i} \union f[i + 1]]
           up == CHOOSE f : f = F(f)
           three == {3}
           two == IF 2 \in git THEN {2} ELSE {2} \union three
           one == IF 1 \in git THEN {1} ELSE {1} \union two
           g == [i \in Level |-> IF i = 3 THEN three ELSE IF i = 2 THEN two ELSE one]
<1>1. g = F(g)
  BY DEF Level
<1>2. up = F(up)
  BY <1>1
<1>3. up[3] = {3} /\ up[2] = (IF 2 \in git THEN {2} ELSE {2, 3})
      /\ up[1] = IF 1 \in git THEN {1} ELSE IF 2 \in git THEN {1, 2} ELSE {1, 2, 3}
  <2> HIDE DEF up
  <2> QED
    BY <1>2 DEF Level
<1>4. Walk(Level) = up[1]
  BY DEF Walk
<1> QED
  BY <1>3, <1>4 DEF Level

Of(places, kind) == {Global(p, kind) : p \in places}
Up(kind) == {Project(i, kind) : i \in Walk(Level)}

\* The groups, one by one.
LEMMA AiderGroups ==
  LET G == Candidates("aider")
  IN  /\ Len(G) = 3
      /\ G[1] = Of({"home"}, "oauth")
      /\ G[2] = Of({"home"}, "dotenv") \union Up("dotenv")
      /\ G[3] = Of({"home"}, "sidecar") \union Up("sidecar")
BY DEF Candidates, Of, Up

LEMMA OpenCodeGroups ==
  LET G == Candidates("opencode")
  IN  /\ Len(G) = 7
      /\ G[1] = Of({"config", "xdg", "managed"}, "config")
      /\ G[2] = Of({"home"}, "dotdir") \union Of({"home"}, "dotconfig")
      /\ G[3] = Up("config") \union Up("dotdir") \union Up("dotconfig")
      /\ G[4] = Up("dotenv")
      /\ G[5] = Of({"config", "xdg", "home"}, "plugins") \union Up("plugins")
      /\ G[6] = Of({"config", "xdg", "home", "managed"}, "manifest") \union Up("manifest")
      /\ G[7] = Of({"managed"}, "preference")
BY DEF Candidates, Of, Up

\* A channel is a place of a home or a directory of the project.
LEMMA ChannelPlaces ==
  ASSUME NEW c \in Channel
  PROVE  \/ \E k \in {"oauth", "dotenv", "sidecar", "dotdir", "dotconfig"} : c \in Of({"home"}, k)
         \/ c \in Of({"config", "xdg", "managed"}, "config") \union Of({"config", "xdg", "home"}, "plugins")
         \/ c \in Of({"config", "xdg", "home", "managed"}, "manifest") \union Of({"managed"}, "preference")
         \/ \E i \in Level, k \in {"dotenv", "sidecar", "config", "dotdir", "dotconfig", "plugins",
                                   "manifest"} : c = Project(i, k)
<1>0. \A k : \A d \in Up(k) : \E i \in Level : d = Project(i, k)
  BY WalkIs DEF Up
<1>1. CASE c \in UNION Range(Candidates("aider"))
  <2>1. PICK g \in 1..3 : c \in Candidates("aider")[g]
    <3>1. DOMAIN Candidates("aider") = 1..3
      BY DEF Candidates
    <3> QED
      BY <1>1, <3>1 DEF Range
  <2>2. \/ \E k \in {"oauth", "dotenv", "sidecar"} : c \in Of({"home"}, k)
        \/ \E k \in {"dotenv", "sidecar"} : c \in Up(k)
    BY <2>1, AiderGroups
  <2> QED
    BY <1>0, <2>2
<1>2. CASE c \in UNION Range(Candidates("opencode"))
  <2>1. PICK g \in 1..7 : c \in Candidates("opencode")[g]
    <3>1. DOMAIN Candidates("opencode") = 1..7
      BY DEF Candidates
    <3> QED
      BY <1>2, <3>1 DEF Range
  <2>2. \/ \E k \in {"dotdir", "dotconfig"} : c \in Of({"home"}, k)
        \/ c \in Of({"config", "xdg", "managed"}, "config") \union Of({"config", "xdg", "home"}, "plugins")
        \/ c \in Of({"config", "xdg", "home", "managed"}, "manifest") \union Of({"managed"}, "preference")
        \/ \E k \in {"config", "dotdir", "dotconfig", "dotenv", "plugins", "manifest"} : c \in Up(k)
    BY <2>1, OpenCodeGroups
  <2> QED
    BY <1>0, <2>2
<1>3. CASE c \in {Project(i, k) : i \in Level, k \in {"config", "dotdir", "dotconfig", "dotenv",
                                                      "plugins", "manifest", "sidecar"}}
  <2>1. PICK i \in Level, k \in {"config", "dotdir", "dotconfig", "dotenv", "plugins", "manifest",
                                 "sidecar"} : c = Project(i, k)
    BY <1>3
  <2> QED
    BY <2>1
<1> QED
  BY <1>1, <1>2, <1>3 DEF Channel

\* Every place a command searches is among the candidates, in one of the groups.
LEMMA SearchedLooked ==
  ASSUME NEW cli \in {"aider", "opencode"}, NEW c \in Searched(cli)
  PROVE  \E g \in 1..Len(Candidates(cli)) : c \in Candidates(cli)[g]
<1>1. c \in Channel
  BY DEF Searched
<1>2. \A p, k : (p # "project" /\ c = Global(p, k)) => c[1] = p /\ c[3] = k
  BY DEF Global
<1>3. \A i, k : c = Project(i, k) => c[1] = "project" /\ c[2] = i /\ c[3] = k
  BY DEF Project
<1>4. ASSUME NEW i \in Level, NEW k, c = Project(i, k)
      PROVE  c \in Up(k)
  <2>1. \A j \in Level : j < i => j \notin git
    BY <1>3, <1>4 DEF Searched
  <2> QED
    BY <1>4, <2>1, WalkIs DEF Up
<1>5. CASE cli = "aider"
  <2>1. c[3] \in {"dotenv", "sidecar", "oauth"}
    BY <1>5 DEF Searched
  <2>2. \/ \E k \in {"oauth", "dotenv", "sidecar"} : c \in Of({"home"}, k)
        \/ \E i \in Level, k \in {"dotenv", "sidecar"} : c = Project(i, k)
    BY <1>1, <1>2, <1>3, <2>1, ChannelPlaces DEF Of
  <2>3. c \in Candidates("aider")[1] \/ c \in Candidates("aider")[2] \/ c \in Candidates("aider")[3]
    BY <1>4, <2>2, AiderGroups
  <2> QED
    BY <1>5, <2>3, AiderGroups
<1>6. CASE cli = "opencode"
  <2>1. c[3] \in {"config", "dotdir", "dotconfig", "dotenv", "plugins", "manifest", "preference"}
        /\ c # Global("home", "dotenv")
    BY <1>6 DEF Searched
  <2>2. \/ \E k \in {"dotdir", "dotconfig"} : c \in Of({"home"}, k)
        \/ c \in Of({"config", "xdg", "managed"}, "config") \union Of({"config", "xdg", "home"}, "plugins")
        \/ c \in Of({"config", "xdg", "home", "managed"}, "manifest") \union Of({"managed"}, "preference")
        \/ \E i \in Level, k \in {"dotenv", "config", "dotdir", "dotconfig", "plugins", "manifest"} :
             c = Project(i, k)
    BY <1>1, <1>2, <1>3, <2>1, ChannelPlaces DEF Of
  <2>3. \E g \in 1..7 : c \in Candidates("opencode")[g]
    <3>1. CASE \E i \in Level, k \in {"dotenv", "config", "dotdir", "dotconfig", "plugins", "manifest"} :
                 c = Project(i, k)
      BY <1>4, <3>1, OpenCodeGroups
    <3>2. CASE ~\E i \in Level, k \in {"dotenv", "config", "dotdir", "dotconfig", "plugins", "manifest"} :
                  c = Project(i, k)
      BY <2>2, <3>2, OpenCodeGroups
    <3> QED
      BY <3>1, <3>2
  <2> QED
    BY <1>6, <2>3, OpenCodeGroups
<1> QED
  BY <1>5, <1>6

-----------------------------------------------------------------------------
(* The steps *)

LEMMA PieceOf ==
  ASSUME NEW options, NEW opt \in PiecesOf(options)
  PROVE  \E f \in options : \E n \in 1..Len(f) : opt = SubSeq(f, 1, n)
<1>1. PICK S \in {{SubSeq(f, 1, n) : n \in 1..Len(f)} : f \in options} : opt \in S
  BY DEF PiecesOf
<1>2. PICK f \in options : S = {SubSeq(f, 1, n) : n \in 1..Len(f)}
  BY <1>1
<1> QED
  BY <1>1, <1>2

LEMMA OneArgument ==
  ASSUME NEW options, NEW values, NEW args \in WithValue(options, values), NEW i \in DOMAIN args
  PROVE  args[i].opt \in options
<1>1. PICK opt \in options, v \in values : args = <<Argument(opt, v)>>
  BY DEF WithValue
<1>2. args[i] = Argument(opt, v)
  BY <1>1
<1> QED
  BY <1>2 DEF Argument

LEMMA TwoArguments ==
  ASSUME NEW options, NEW values, NEW args \in BeforeValue(options, values), NEW i \in DOMAIN args
  PROVE  args[i].opt \in options \union {<<>>}
<1>1. PICK opt \in options, v \in values : args = <<Argument(opt, "none"), Bare(v)>>
  BY DEF BeforeValue
<1>2. args[i] = Argument(opt, "none") \/ args[i] = Bare(v)
  BY <1>1
<1> QED
  BY <1>2 DEF Argument, Bare

LEMMA ValueAlone ==
  ASSUME NEW values, NEW args \in Values(values), NEW i \in DOMAIN args
  PROVE  args[i].opt = <<>>
<1>1. PICK v \in values : args = <<Bare(v)>>
  BY DEF Values
<1>2. args[i] = Bare(v)
  BY <1>1
<1> QED
  BY <1>2 DEF Argument, Bare

\* Options are made of words.
LEMMA ArgumentsTyped == \A args \in Arguments : \A i \in DOMAIN args : args[i].opt \in Seq(Word)
<1>1. ASSUME NEW opt \in Pieces PROVE opt \in Seq(Word)
  <2>1. PICK f \in Option : \E n \in 1..Len(f) : opt = SubSeq(f, 1, n)
    BY PieceOf DEF Pieces, Option
  <2>2. f \in Seq(Word)
    BY OptionTyped
  <2> QED
    BY <2>1, <2>2
<1>2. <<"-c">> \in Seq(Word) /\ <<"share">> \in Seq(Word) /\ <<>> \in Seq(Word)
  BY DEF Word
<1>3. ASSUME NEW args \in Arguments, NEW i \in DOMAIN args
      PROVE  args[i].opt \in Pieces \union {<<"-c">>, <<"share">>, <<>>}
  <2>1. CASE args = <<>>
    BY <2>1
  <2>2. CASE args \in WithValue(Pieces \union {<<"-c">>}, {"none", "model", "alias"})
    BY <2>2, OneArgument
  <2>3. CASE args \in BeforeValue(Pieces, {"safe", "model", "alias"})
    BY <2>3, TwoArguments
  <2>4. CASE args \in Values({"safe", "attach", "pr", "./path", "directory"})
    BY <2>4, ValueAlone
  <2>5. CASE args \in WithValue({<<"share">>}, {"none"})
    BY <2>5, OneArgument
  <2> QED
    BY <2>1, <2>2, <2>3, <2>4, <2>5 DEF Arguments
<1> QED
  BY <1>1, <1>2, <1>3

LEMMA ChildTyped ==
  ASSUME NEW cli, NEW kind, NEW names
  PROVE  ChildEnv(cli, kind, names) \in Child
BY DEF ChildEnv, Child

\* What is set later wins.
LEMMA ChildFrom ==
  ASSUME NEW cli, NEW kind, NEW names, NEW n \in Variable
  PROVE  LET from == ChildEnv(cli, kind, names)[n]
         IN  /\ n \in {"MAT_SESSION"} \union RootEnv[cli] => from = "session"
             /\ n \in Hardening /\ n \notin {"MAT_SESSION"} \union RootEnv[cli] /\ n \notin Unsets(cli)
                  => from = "fixed"
             /\ from = "inherited" => n \in names /\ n \notin Deny
<1> DEFINE from == ChildEnv(cli, kind, names)[n]
<1>1. from = IF n \in {"MAT_SESSION"} \union RootEnv[cli] THEN "session"
             ELSE IF kind = "command" /\ n \in Unsets(cli) THEN "unset"
             ELSE IF n \in Hardening \/ (kind = "command" /\ n \in Sets(cli)) THEN "fixed"
             ELSE IF n \in names \ Deny THEN "inherited" ELSE "unset"
  BY DEF ChildEnv
<1> QED
  BY <1>1

LEMMA StartInitInv == StartInit => StartInv
<1> SUFFICES ASSUME StartInit PROVE StartInv
  OBVIOUS
<1>1. start = NoStart
  BY DEF StartInit
<1>2. inherited \subseteq Variable
  <2>1. "EDITOR" \in Variable
    BY DEF Variable
  <2> QED
    BY <2>1 DEF StartInit
<1>3. material \in {"missing", "empty", "clean", "bypass"}
  BY DEF StartInit
<1>4. Proceeding
  <2>1. <<>> \in Arguments
    BY DEF Arguments
  <2>2. [n \in Variable |-> "unset"] \in Child
    BY DEF Child
  <2> QED
    BY <1>1, <1>2, <1>3, <2>1, <2>2 DEF Proceeding, StartSteps, Cli, NoStart
<1> QED
  BY <1>1, <1>4 DEF StartInv, Checked, FilesLooked, Made, Passed, NoStart

\* What was looked at stays so while nothing outside changes.
LEMMA CandidatesKept ==
  ASSUME UNCHANGED git, start'.cli = start.cli
  PROVE  Candidates(start.cli)' = Candidates(start.cli)
<1>1. Walk(Level)' = Walk(Level)
  BY DEF Walk
<1> QED
  BY <1>1 DEF Candidates

LEMMA LookedKept ==
  ASSUME UNCHANGED <<found, git>>, start'.cli = start.cli, NEW n
  PROVE  Looked(n) => Looked(n)'
<1>1. Candidates(start.cli)' = Candidates(start.cli)
  BY CandidatesKept
<1>2. \A c : Blocks(c)' = Blocks(c)
  BY DEF Blocks, State
<1> QED
  BY <1>1, <1>2 DEF Looked

\* Behind the files, a start only goes on or is refused.
LEMMA ChecksKept ==
  ASSUME StartInv, UNCHANGED <<found, git, inherited, shifted>>,
         start'.cli = start.cli, start'.kind = start.kind, start'.args = start.args,
         start.step \in {"profile", "copy", "inspect", "spawn"},
         start'.step \in {"refused", "copy", "inspect", "spawn", "spawned"}
  PROVE  Checked' /\ FilesLooked'
<1> USE DEF StartInv
<1>1. Checked'
  BY DEF Checked, Passed, EnvBypasses
<1>2. Candidates(start.cli)' = Candidates(start.cli)
  BY CandidatesKept
<1>3. \A n : Looked(n) => Looked(n)'
  BY LookedKept
<1>4. FilesLooked'
  BY <1>2, <1>3 DEF FilesLooked, Passed
<1> QED
  BY <1>1, <1>4

\* Every step keeps the invariant.
LEMMA StartStepInv ==
  ASSUME StartInv, [StartNext]_startVars
  PROVE  StartInv'
<1> USE DEF StartInv
<1>1. CASE UNCHANGED startVars
  <2>1. start'.cli = start.cli /\ UNCHANGED <<found, git>> /\ UNCHANGED <<start, inherited, material, shifted>>
    BY <1>1 DEF startVars
  <2>1a. Candidates(start.cli)' = Candidates(start.cli)
    BY <2>1, CandidatesKept
  <2>2. Proceeding' /\ Checked' /\ Made'
    BY <2>1 DEF Proceeding, Checked, Made, Passed
  <2>3. FilesLooked'
    BY <2>1, <2>1a, LookedKept DEF FilesLooked, Passed
  <2> QED
    BY <2>2, <2>3
<1>a. start \in [step : StartSteps, cli : Cli, kind : {"shell", "command"}, args : Arguments,
                 group : Nat, copy : {"none", "clean", "bypass"}, child : Child]
  BY DEF Proceeding
<1>b. <<>> \in Arguments /\ [n \in Variable |-> "unset"] \in Child
  BY DEF Arguments, Child
<1>2. CASE StartShell
  <2>1. PICK cli \in Cli :
          start' = [NoStart EXCEPT !.cli = cli, !.kind = "shell",
                      !.step = IF RootEnv[cli] = {} \/ material = "missing" THEN "refused" ELSE "copy"]
    BY <1>2 DEF StartShell
  <2>2. UNCHANGED <<inherited, material>>
    BY <1>2 DEF StartShell, Continues, Outside
  <2>3. Proceeding'
    BY <1>b, <2>1, <2>2 DEF Proceeding, NoStart, StartSteps
  <2>4. start'.kind = "shell" /\ start'.step \in {"refused", "copy"}
    BY <2>1 DEF NoStart
  <2> QED
    BY <2>3, <2>4 DEF Checked, FilesLooked, Made, Passed
<1>3. CASE StartCommand
  <2>1. PICK cli \in Cli, args \in Arguments :
          start' = [NoStart EXCEPT !.cli = cli, !.kind = "command", !.args = args,
                      !.step = IF cli \notin Runnable \/ ArgsBypass(cli, args) THEN "refused" ELSE "args"]
    BY <1>3 DEF StartCommand
  <2>2. UNCHANGED <<inherited, material>>
    BY <1>3 DEF StartCommand, Continues, Outside
  <2>3. Proceeding'
    BY <1>b, <2>1, <2>2 DEF Proceeding, NoStart, StartSteps
  <2>4. /\ start'.step \in {"refused", "args"} /\ start'.group = 0
        /\ start'.step = "args" => start'.cli \in Runnable /\ ~ArgsBypass(start'.cli, start'.args)
    BY <2>1 DEF NoStart
  <2>5. Checked'
    BY <2>4 DEF Checked, Passed, ArgsBypass, AiderArgsBypass, OpenCodeArgsBypass, ValueOf, MatchesBlocked,
                MatchesModel, MatchesAlias
  <2> QED
    BY <2>3, <2>4, <2>5 DEF FilesLooked, Made, Passed
<1>4. CASE CheckEnv
  <2>1. /\ start.step = "args" /\ UNCHANGED <<found, git, inherited, material, shifted>>
        /\ \E s \in {"refused", "profile", "files"} :
             /\ start' = [start EXCEPT !.step = s]
             /\ s = "profile" => Candidates(start.cli) = <<>>
             /\ s = "files" => Candidates(start.cli) # <<>>
             /\ s # "refused" => \A n \in inherited : ~EnvBypasses(start.cli, n)
    BY <1>4 DEF CheckEnv, StepTo, Continues, Outside
  <2>2. PICK s \in {"refused", "profile", "files"} :
             /\ start' = [start EXCEPT !.step = s]
             /\ s = "profile" => Candidates(start.cli) = <<>>
             /\ s = "files" => Candidates(start.cli) # <<>>
             /\ s # "refused" => \A n \in inherited : ~EnvBypasses(start.cli, n)
    BY <2>1
  <2>3. start'.step = s /\ start'.cli = start.cli /\ start'.kind = start.kind /\ start'.args = start.args
        /\ start'.group = start.group /\ start'.cli \in Cli
    BY <1>a, <2>2
  <2>4. Proceeding'
    BY <1>a, <2>1, <2>2 DEF Proceeding, StartSteps
  <2>5. Checked'
    BY <2>1, <2>2, <2>3 DEF Checked, Passed, EnvBypasses
  <2>6. Candidates(start.cli)' = Candidates(start.cli)
    BY <2>1, <2>3, CandidatesKept
  <2>7. FilesLooked'
    <3>1. Candidates(start.cli) = <<>> => Len(Candidates(start.cli)) = 0
      OBVIOUS
    <3>2. Candidates(start.cli) # <<>> => 0 < Len(Candidates(start.cli))
      BY <1>a DEF Candidates, Cli
    <3>3. Looked(0)'
      BY DEF Looked
    <3> QED
      BY <2>1, <2>2, <2>3, <2>6, <3>1, <3>2, <3>3 DEF FilesLooked, Passed
  <2> QED
    BY <2>2, <2>3, <2>4, <2>5, <2>7 DEF Made
<1>5. CASE CheckFiles
  <2>1. start.step = "files" /\ UNCHANGED <<found, git, inherited, material, shifted>>
    BY <1>5 DEF CheckFiles, Continues, Outside
  <2>2. CASE start' = [start EXCEPT !.step = "refused"]
    <3>1. start'.step = "refused"
      BY <1>a, <2>2
    <3>2. Proceeding'
      BY <1>a, <2>1, <2>2 DEF Proceeding, StartSteps
    <3> QED
      BY <3>1, <3>2 DEF Checked, FilesLooked, Made, Passed
  <2>3. ASSUME \A c \in Candidates(start.cli)[start.group + 1] : ~Blocks(c),
               NEW s \in {"profile", "files"}, NEW n \in Nat, n = start.group + 1,
               s = "profile" <=> n = Len(Candidates(start.cli)),
               start' = [start EXCEPT !.group = n, !.step = s]
        PROVE  StartInv'
    <3>1. /\ start'.cli = start.cli /\ start'.kind = start.kind /\ start'.args = start.args
          /\ start'.group = n /\ start.group \in Nat /\ start.cli \in Cli /\ start'.step = s
      BY <1>a, <2>3
    <3>2. Proceeding'
      BY <1>a, <2>1, <2>3 DEF Proceeding, StartSteps
    <3>3. Checked'
      BY <2>1, <3>1 DEF Checked, Passed, EnvBypasses
    <3>4. Candidates(start.cli)' = Candidates(start.cli)
      BY <2>1, <3>1, CandidatesKept
    <3>5. Looked(start.group) => Looked(n)
      BY <2>3, <3>1 DEF Looked
    <3>6. Looked(n) => Looked(n)'
      BY <2>1, <3>1, LookedKept
    <3>7. Len(Candidates(start.cli)) \in Nat
      BY <3>1, GroupCounts
    <3>8. ASSUME ~shifted', start.kind = "command"
          PROVE  n <= Len(Candidates(start.cli)) /\ Looked(n)'
      BY <2>1, <2>3, <3>1, <3>5, <3>6, <3>7, <3>8 DEF FilesLooked, Passed
    <3>9. FilesLooked'
      BY <2>1, <2>3, <3>1, <3>4, <3>7, <3>8 DEF FilesLooked, Passed
    <3> QED
      BY <2>3, <3>1, <3>2, <3>3, <3>9 DEF Made
  <2>4. start.group \in Nat
    BY <1>a
  <2>5. CASE /\ \A c \in Candidates(start.cli)[start.group + 1] : ~Blocks(c)
             /\ start' = [start EXCEPT !.group = start.group + 1,
                          !.step = IF start.group + 1 = Len(Candidates(start.cli)) THEN "profile" ELSE "files"]
    <3>1. PICK n \in Nat : n = start.group + 1
      BY <2>4
    <3>2. PICK s \in {"profile", "files"} : s = IF n = Len(Candidates(start.cli)) THEN "profile" ELSE "files"
      OBVIOUS
    <3>3. start' = [start EXCEPT !.group = n, !.step = s]
      BY <2>5, <3>1, <3>2
    <3>4. \A c \in Candidates(start.cli)[start.group + 1] : ~Blocks(c)
      BY <2>5
    <3>5. s = "profile" <=> n = Len(Candidates(start.cli))
      BY <3>2
    <3> QED
      BY <2>3, <3>1, <3>3, <3>4, <3>5
  <2> QED
    BY <1>5, <2>2, <2>5 DEF CheckFiles, StepTo
<1>6. CASE CheckProfile
  <2>1. start.step = "profile" /\ UNCHANGED <<found, git, inherited, material, shifted>>
    BY <1>6 DEF CheckProfile, Continues, Outside
  <2>2. PICK s \in {"refused", "copy"} : start' = [start EXCEPT !.step = s]
    BY <1>6 DEF CheckProfile, StepTo
  <2>3. start'.cli = start.cli /\ start'.kind = start.kind /\ start'.args = start.args /\ start'.step = s
    BY <1>a, <2>2
  <2>4. Proceeding'
    BY <1>a, <2>1, <2>2 DEF Proceeding, StartSteps
  <2> QED
    BY <2>1, <2>3, <2>4, ChecksKept DEF Made
<1>7. CASE MakeDirectory
  <2>1. start.step = "copy" /\ UNCHANGED <<found, git, inherited, material, shifted>>
    BY <1>7 DEF MakeDirectory, Continues, Outside
  <2>2. CASE start' = [start EXCEPT !.step = "refused"]
    <3>1. start'.cli = start.cli /\ start'.kind = start.kind /\ start'.args = start.args
          /\ start'.step = "refused"
      BY <1>a, <2>2
    <3>2. Proceeding'
      BY <1>a, <2>1, <2>2 DEF Proceeding, StartSteps
    <3> QED
      BY <2>1, <3>1, <3>2, ChecksKept DEF Made
  <2>3. ASSUME material \in {"clean", "bypass"},
               NEW s \in {"inspect", "spawn"}, s = "spawn" => start.cli # "aider",
               start' = [start EXCEPT !.copy = material, !.step = s]
        PROVE  StartInv'
    <3>1. start'.cli = start.cli /\ start'.kind = start.kind /\ start'.args = start.args
          /\ start'.step = s /\ start'.copy = material
      BY <1>a, <2>3
    <3>2. Proceeding'
      BY <1>a, <2>1, <2>3 DEF Proceeding, StartSteps
    <3> QED
      BY <2>1, <2>3, <3>1, <3>2, ChecksKept DEF Made
  <2>4. CASE /\ material \notin {"missing", "empty"}
             /\ start' = [start EXCEPT !.copy = material,
                          !.step = IF start.cli = "aider" THEN "inspect" ELSE "spawn"]
    <3>1. material \in {"clean", "bypass"}
      BY <2>4 DEF Proceeding
    <3> QED
      BY <2>3, <2>4, <3>1
  <2> QED
    BY <1>7, <2>2, <2>4 DEF MakeDirectory, StepTo
<1>8. CASE InspectCopy
  <2>1. start.step = "inspect" /\ UNCHANGED <<found, git, inherited, material, shifted>>
    BY <1>8 DEF InspectCopy, Continues, Outside
  <2>2. CASE start' = [start EXCEPT !.step = "refused", !.copy = "none"]
    <3>1. start'.cli = start.cli /\ start'.kind = start.kind /\ start'.args = start.args
          /\ start'.step = "refused"
      BY <1>a, <2>2
    <3>2. Proceeding'
      BY <1>a, <2>1, <2>2 DEF Proceeding, StartSteps
    <3> QED
      BY <2>1, <3>1, <3>2, ChecksKept DEF Made
  <2>3. CASE start.copy # "bypass" /\ start' = [start EXCEPT !.step = "spawn"]
    <3>1. start'.cli = start.cli /\ start'.kind = start.kind /\ start'.args = start.args
          /\ start'.step = "spawn" /\ start'.copy = start.copy
      BY <1>a, <2>3
    <3>2. Proceeding'
      BY <1>a, <2>1, <2>3 DEF Proceeding, StartSteps
    <3>3. start.cli = "aider" => start.copy = "clean"
      BY <2>1, <2>3 DEF Made
    <3> QED
      BY <2>1, <3>1, <3>2, <3>3, ChecksKept DEF Made
  <2> QED
    BY <1>8, <2>2, <2>3 DEF InspectCopy
<1>9. CASE SpawnChild
  <2>1. /\ start.step = "spawn" /\ UNCHANGED <<found, git, inherited, material, shifted>>
        /\ start' = [start EXCEPT !.step = "spawned", !.child = ChildEnv(start.cli, start.kind, inherited)]
    BY <1>9 DEF SpawnChild, Continues, Outside
  <2>2. ChildEnv(start.cli, start.kind, inherited) \in Child
    BY ChildTyped
  <2>3. start'.cli = start.cli /\ start'.kind = start.kind /\ start'.args = start.args
        /\ start'.step = "spawned" /\ start'.copy = start.copy
        /\ start'.child = ChildEnv(start.cli, start.kind, inherited)
    BY <1>a, <2>1
  <2>4. Proceeding'
    BY <1>a, <2>1, <2>2 DEF Proceeding, StartSteps
  <2>5. Made'
    <3>1. start'.child = ChildEnv(start'.cli, start'.kind, inherited')
      BY <2>1, <2>3
    <3>2. start.cli = "aider" => start.copy = "clean"
      BY <2>1 DEF Made
    <3> QED
      BY <2>3, <3>1, <3>2 DEF Made
  <2> QED
    BY <2>1, <2>3, <2>4, <2>5, ChecksKept
<1>10. CASE ChangeOutside
  <2>1. /\ UNCHANGED <<git, inherited, start>> /\ start.step \notin {"idle", "refused", "spawned"}
        /\ material' \in {"missing", "empty", "clean", "bypass"}
        /\ shifted' = TRUE \/ UNCHANGED <<found, shifted>>
    BY <1>10 DEF ChangeOutside, Proceeding
  <2>2. Proceeding' /\ Checked' /\ Made'
    BY <2>1 DEF Proceeding, Checked, Made, Passed
  <2>3. FilesLooked'
    <3>1. CASE shifted' = TRUE
      BY <3>1, Zenon DEF FilesLooked
    <3>2. CASE UNCHANGED <<found, shifted>>
      <4>1. Candidates(start.cli)' = Candidates(start.cli)
        BY <2>1, CandidatesKept
      <4> QED
        BY <2>1, <3>2, <4>1, LookedKept DEF FilesLooked, Passed
    <3> QED
      BY <2>1, <3>1, <3>2
  <2> QED
    BY <2>2, <2>3
<1> QED
  BY <1>1, <1>2, <1>3, <1>4, <1>5, <1>6, <1>7, <1>8, <1>9, <1>10 DEF StartNext

LEMMA StartInvIsolated == StartInv => StartIsolated
<1> SUFFICES ASSUME StartInv, start.step = "spawned" PROVE StartIsolated
  BY DEF StartIsolated
<1> USE DEF StartInv
<1> DEFINE childEnv == start.child
           args == start.args
<1>1. childEnv = ChildEnv(start.cli, start.kind, inherited) /\ start.cli \in Cli
  BY DEF Made, Proceeding
<1>2. /\ \A n \in Variable : childEnv[n] = "inherited" => n \in inherited /\ n \notin Deny
      /\ \A n \in {"MAT_SESSION"} \union RootEnv[start.cli] : childEnv[n] = "session"
  <2>1. {"MAT_SESSION"} \union RootEnv[start.cli] \subseteq Variable
    BY <1>1 DEF Variable
  <2> QED
    BY <1>1, <2>1, ChildFrom
<1>3. \A n \in Hardening : childEnv[n] = "fixed"
  <2>1. Hardening \subseteq Variable
    BY DEF Variable
  <2>2. \A n \in Hardening : n \notin {"MAT_SESSION"} \union RootEnv[start.cli] /\ n \notin Unsets(start.cli)
    BY <1>1 DEF Hardening, RootEnv, Unsets, Cli
  <2> QED
    BY <1>1, <2>1, <2>2, ChildFrom
<1>4. ASSUME start.kind = "command", NEW n \in Variable, childEnv[n] = "inherited"
      PROVE  ~EnvBypasses(start.cli, n)
  BY <1>2, <1>4 DEF Checked, Passed
<1>5. ASSUME start.kind = "command", start.cli \in {"aider", "opencode"}, ~shifted,
             NEW c \in Searched(start.cli)
      PROVE  State(c) \in {"none", "clean"}
  <2>1. PICK g \in 1..Len(Candidates(start.cli)) : c \in Candidates(start.cli)[g]
    BY <1>5, SearchedLooked
  <2>2. ~Blocks(c)
    BY <1>5, <2>1 DEF FilesLooked, Passed, Looked
  <2> QED
    BY <2>2 DEF Blocks
<1>6. ASSUME start.kind = "command", start.cli = "aider"
      PROVE  /\ start.copy = "clean"
             /\ \A i \in DOMAIN args :
                  /\ args[i].opt # <<"-c">> /\ Reads(args[i].opt) \cap AiderBlocked = {}
                  /\ Reads(args[i].opt) \subseteq ModelFlag /\ Reads(args[i].opt) # {} =>
                       ValueOf(args, i) # "model"
                  /\ Reads(args[i].opt) = AliasFlag => ValueOf(args, i) # "alias"
  <2>1. ~AiderArgsBypass(args) /\ start.copy = "clean"
    BY <1>6 DEF Checked, Passed, ArgsBypass, Made
  <2>2. \A i \in DOMAIN args : args[i].opt \in Seq(Word)
    BY ArgumentsTyped DEF Proceeding
  <2> HIDE DEF args
  <2> QED
    BY <2>1, <2>2, ArgumentsHarmless
<1> QED
  BY <1>2, <1>3, <1>4, <1>5, <1>6 DEF StartIsolated

\* The child of a session has its credentials from its profile only: nothing it inherits, no argument
\* however it is abbreviated, and no file in a place the command searches leads elsewhere, and the
\* copy of an aider profile is harmless, for any number of changes outside (runSession,
\* runSessionCommand and the preflights, session.ts:1439-1674 and 1790-2881).
THEOREM StartsIsolated == StartSpec => []StartIsolated
<1>1. StartSpec => []StartInv
  BY StartInitInv, StartStepInv, PTL DEF StartSpec
<1> QED
  BY <1>1, StartInvIsolated, PTL

-----------------------------------------------------------------------------
(* What a session that starts holds.  First what the definitions and their     *)
(* tasks come to, then the invariant, then a lemma for each action.            *)

\* Short sequences, segment by segment.
LEMMA Tuples ==
  ASSUME NEW S, NEW t \in Seq(S)
  PROVE  /\ Len(t) = 1 => t = <<t[1]>>
         /\ Len(t) = 2 => t = <<t[1], t[2]>>
         /\ Len(t) = 3 => t = <<t[1], t[2], t[3]>>
OBVIOUS

LEMMA Cuts ==
  ASSUME NEW S, NEW s \in Seq(S)
  PROVE  /\ SubSeq(s, 1, Len(s)) = s /\ SubSeq(s, 1, 0) = <<>>
         /\ Len(s) >= 1 => SubSeq(s, 1, 1) = <<s[1]>>
         /\ Len(s) >= 2 => SubSeq(s, 1, 2) = <<s[1], s[2]>>
<1>1. ASSUME NEW n \in 0..Len(s)
      PROVE  /\ SubSeq(s, 1, n) \in Seq(S) /\ Len(SubSeq(s, 1, n)) = n
             /\ \A i \in 1..n : SubSeq(s, 1, n)[i] = s[i]
  BY SMT
<1>2. SubSeq(s, 1, Len(s)) = s
  BY <1>1
<1>3. SubSeq(s, 1, 0) = <<>>
  BY <1>1
<1>4. ASSUME Len(s) >= 1 PROVE SubSeq(s, 1, 1) = <<s[1]>>
  <2> DEFINE t == SubSeq(s, 1, 1)
  <2>1. /\ t \in Seq(S) /\ Len(t) = 1
        /\ \A i \in 1..1 : t[i] = s[i]
    BY <1>1, <1>4
  <2> HIDE DEF t
  <2>2. t = <<t[1]>>
    BY <2>1, Tuples
  <2> QED
    BY <2>1, <2>2 DEF t
<1>5. ASSUME Len(s) >= 2 PROVE SubSeq(s, 1, 2) = <<s[1], s[2]>>
  <2> DEFINE t == SubSeq(s, 1, 2)
  <2>1. /\ t \in Seq(S) /\ Len(t) = 2
        /\ \A i \in 1..2 : t[i] = s[i]
    BY <1>1, <1>5
  <2> HIDE DEF t
  <2>2. t = <<t[1], t[2]>>
    BY <2>1, Tuples
  <2> QED
    BY <2>1, <2>2 DEF t
<1> QED
  BY <1>2, <1>3, <1>4, <1>5

Config == <<"config">>
Skills == <<"skills">>
EntryA == <<"skills", "a">>
Sub == <<"skills", "sub">>
EntryB == <<"skills", "sub", "b">>

LEMMA SpotsAre == Spot = {Config, Skills, EntryA, Sub, EntryB}
BY DEF Spot, Config, Skills, EntryA, Sub, EntryB

LEMMA LengthsAre == Len(Config) = 1 /\ Len(Skills) = 1 /\ Len(EntryA) = 2 /\ Len(Sub) = 2 /\ Len(EntryB) = 3
BY DEF Config, Skills, EntryA, Sub, EntryB

Segment == {"config", "skills", "a", "sub", "b"}
LEMMA PathsAre == {Config, Skills, EntryA, Sub, EntryB} \subseteq Seq(Segment)
BY DEF Segment, Config, Skills, EntryA, Sub, EntryB

LEMMA SpotsDiffer ==
  /\ Config # Skills /\ Config # EntryA /\ Config # Sub /\ Config # EntryB /\ Skills # EntryA
  /\ Skills # Sub /\ Skills # EntryB /\ EntryA # Sub /\ EntryA # EntryB /\ Sub # EntryB
<1>1. Config # Skills /\ EntryA # Sub
  BY DEF Config, Skills, EntryA, Sub, EntryB
<1>2. /\ Config # EntryA /\ Config # Sub /\ Config # EntryB /\ Skills # EntryA
      /\ Skills # Sub /\ Skills # EntryB /\ EntryA # EntryB /\ Sub # EntryB
  BY LengthsAre
<1> QED
  BY <1>1, <1>2

LEMMA CutsAre ==
  /\ SubSeq(Config, 1, 1) = Config /\ SubSeq(Skills, 1, 1) = Skills
  /\ SubSeq(EntryA, 1, 1) = Skills /\ SubSeq(EntryA, 1, 2) = EntryA
  /\ SubSeq(Sub, 1, 1) = Skills /\ SubSeq(Sub, 1, 2) = Sub
  /\ SubSeq(EntryB, 1, 1) = Skills /\ SubSeq(EntryB, 1, 2) = Sub /\ SubSeq(EntryB, 1, 3) = EntryB
<1>1. /\ SubSeq(Config, 1, 1) = <<Config[1]>> /\ SubSeq(Skills, 1, 1) = <<Skills[1]>>
      /\ SubSeq(EntryA, 1, 1) = <<EntryA[1]>> /\ SubSeq(EntryA, 1, 2) = EntryA
      /\ SubSeq(Sub, 1, 1) = <<Sub[1]>> /\ SubSeq(Sub, 1, 2) = Sub
      /\ SubSeq(EntryB, 1, 1) = <<EntryB[1]>> /\ SubSeq(EntryB, 1, 2) = <<EntryB[1], EntryB[2]>>
      /\ SubSeq(EntryB, 1, 3) = EntryB
  <2>1. ASSUME NEW s \in {Config, Skills, EntryA, Sub, EntryB}
        PROVE  /\ SubSeq(s, 1, Len(s)) = s
               /\ Len(s) >= 1 => SubSeq(s, 1, 1) = <<s[1]>>
               /\ Len(s) >= 2 => SubSeq(s, 1, 2) = <<s[1], s[2]>>
    BY PathsAre, Cuts
  <2> DEFINE At(s) == /\ SubSeq(s, 1, Len(s)) = s
                      /\ Len(s) >= 1 => SubSeq(s, 1, 1) = <<s[1]>>
                      /\ Len(s) >= 2 => SubSeq(s, 1, 2) = <<s[1], s[2]>>
  <2>2. At(Config) /\ At(Skills) /\ At(EntryA) /\ At(Sub) /\ At(EntryB)
    BY <2>1, Zenon
  <2>3. SubSeq(Config, 1, 1) = <<Config[1]>> /\ SubSeq(Skills, 1, 1) = <<Skills[1]>>
    BY <2>2, LengthsAre
  <2>4. SubSeq(EntryA, 1, 1) = <<EntryA[1]>> /\ SubSeq(EntryA, 1, 2) = EntryA
    BY <2>2, LengthsAre
  <2>5. SubSeq(Sub, 1, 1) = <<Sub[1]>> /\ SubSeq(Sub, 1, 2) = Sub
    BY <2>2, LengthsAre
  <2>6. /\ SubSeq(EntryB, 1, 1) = <<EntryB[1]>> /\ SubSeq(EntryB, 1, 2) = <<EntryB[1], EntryB[2]>>
        /\ SubSeq(EntryB, 1, 3) = EntryB
    BY <2>2, LengthsAre
  <2> QED
    BY <2>3, <2>4, <2>5, <2>6
<1>2. /\ Config[1] = "config" /\ Skills[1] = "skills" /\ EntryA[1] = "skills" /\ Sub[1] = "skills"
      /\ EntryB[1] = "skills" /\ EntryB[2] = "sub"
  BY DEF Config, Skills, EntryA, Sub, EntryB
<1> QED
  BY <1>1, <1>2 DEF Config, Skills, Sub

LEMMA SmallRanges == 1..0 = {} /\ 1..1 = {1} /\ 1..2 = {1, 2} /\ 1..3 = {1, 2, 3}
OBVIOUS

LEMMA AboveAre ==
  /\ {SubSeq(Config, 1, n) : n \in 1..(Len(Config) - 1)} = {}
  /\ {SubSeq(Skills, 1, n) : n \in 1..(Len(Skills) - 1)} = {}
  /\ {SubSeq(EntryA, 1, n) : n \in 1..(Len(EntryA) - 1)} = {Skills}
  /\ {SubSeq(Sub, 1, n) : n \in 1..(Len(Sub) - 1)} = {Skills}
  /\ {SubSeq(EntryB, 1, n) : n \in 1..(Len(EntryB) - 1)} = {Skills, Sub}
<1>1. /\ 1..(Len(Config) - 1) = {} /\ 1..(Len(Skills) - 1) = {} /\ 1..(Len(EntryA) - 1) = {1}
      /\ 1..(Len(Sub) - 1) = {1} /\ 1..(Len(EntryB) - 1) = {1, 2}
  BY LengthsAre
<1> QED
  BY <1>1, CutsAre, Zenon

\* What each path leads to.
LEMMA NodesAre ==
  /\ NodeAt(Config) = tree[Config] /\ NodeAt(Skills) = tree[Skills]
  /\ \A s \in {EntryA, Sub} :
       NodeAt(s) = IF tree[Skills].kind = "link" THEN Foreign
                   ELSE IF tree[Skills].kind = "dir" THEN tree[s] ELSE NoNode
  /\ NodeAt(EntryB) = IF tree[Skills].kind = "link" \/ tree[Sub].kind = "link" THEN Foreign
                      ELSE IF tree[Skills].kind = "dir" /\ tree[Sub].kind = "dir" THEN tree[EntryB] ELSE NoNode
BY AboveAre DEF NodeAt

\* A path that leads to a place in the base directory leads to what is there, if it leads anywhere.
LEMMA PlacesAre ==
  ASSUME NEW s \in Spot, Contained(s)
  PROVE  NodeAt(s) \in {tree[s], NoNode}
<1>1. \A n \in 1..Len(s) : tree[SubSeq(s, 1, n)].kind # "link"
  BY DEF Contained
<1>2. ASSUME s \in {EntryA, Sub} PROVE tree[Skills].kind # "link"
  <2>1. 1 \in 1..Len(s) /\ SubSeq(s, 1, 1) = Skills
    BY <1>2, SpotsAre, LengthsAre, CutsAre
  <2> QED
    BY <1>1, <2>1
<1>3. ASSUME s = EntryB PROVE tree[Skills].kind # "link" /\ tree[Sub].kind # "link"
  <2>1. 1 \in 1..Len(s) /\ 2 \in 1..Len(s) /\ SubSeq(s, 1, 1) = Skills /\ SubSeq(s, 1, 2) = Sub
    BY <1>3, SpotsAre, LengthsAre, CutsAre
  <2> QED
    BY <1>1, <2>1
<1> QED
  BY <1>2, <1>3, NodesAre, SpotsAre

Kids(dir) == IF dir = Skills THEN {EntryA, Sub} ELSE IF dir = Sub THEN {EntryB} ELSE {}
Under(s) == IF s = Sub THEN {Sub, EntryB} ELSE {s}

LEMMA FrontsAre ==
  Front(EntryA) = Skills /\ Front(Sub) = Skills /\ Front(EntryB) = Sub
BY SpotsAre, LengthsAre, CutsAre DEF Front

LEMMA ChildrenAre ==
  ASSUME NEW dir \in Spot
  PROVE  Children(dir) = {s \in Kids(dir) : NodeAt(s).kind # "none"}
<1>1. ASSUME NEW s \in Spot PROVE s \in Kids(dir) <=> Len(s) = Len(dir) + 1 /\ Front(s) = dir
  <2>1. CASE s \in {Config, Skills}
    <3>1. Len(s) = 1 /\ Len(dir) >= 1
      BY <2>1, SpotsAre, LengthsAre
    <3> QED
      BY <2>1, <3>1, SpotsDiffer DEF Kids
  <2>2. CASE s \in {EntryA, Sub}
    <3>1. Len(s) = 2 /\ Front(s) = Skills /\ Len(Skills) = 1
      BY <2>2, SpotsAre, LengthsAre, FrontsAre
    <3>2. s \in Kids(dir) <=> dir = Skills
      BY <2>2, SpotsDiffer DEF Kids
    <3>3. Len(Skills) + 1 = Len(s)
      BY <3>1
    <3> QED
      BY <3>1, <3>2, <3>3, Zenon
  <2>3. CASE s = EntryB
    <3>1. Len(s) = 3 /\ Front(s) = Sub /\ Len(Sub) = 2
      BY <2>3, SpotsAre, LengthsAre, FrontsAre
    <3>2. s \in Kids(dir) <=> dir = Sub
      BY <2>3, SpotsDiffer DEF Kids
    <3>3. Len(Sub) + 1 = Len(s)
      BY <3>1
    <3> QED
      BY <3>1, <3>2, <3>3, Zenon
  <2> QED
    BY <2>1, <2>2, <2>3, SpotsAre
<1>2. Kids(dir) \subseteq Spot
  BY SpotsAre DEF Kids
<1> QED
  BY <1>1, <1>2 DEF Children

LEMMA FlattenTwo == ASSUME NEW a, NEW b PROVE FlattenSeq(<<a, b>>) = a \o b
<1> DEFINE Unrolls(f) == f = [i \in 1..2 |-> IF i = 1 THEN <<a, b>>[i] ELSE f[i - 1] \o <<a, b>>[i]]
           g == [i \in 1..2 |-> IF i = 1 THEN a ELSE a \o b]
           f == CHOOSE h : Unrolls(h)
<1>1. Unrolls(g)
  <2>1. \A i \in 1..2 : g[i] = IF i = 1 THEN <<a, b>>[i] ELSE g[i - 1] \o <<a, b>>[i]
    <3> TAKE i \in 1..2
    <3>1. CASE i = 1
      BY <3>1
    <3>2. CASE i = 2
      BY <3>2
    <3> QED
      BY <3>1, <3>2
  <2>2. g = [i \in 1..2 |-> g[i]]
    BY SMTT(30)
  <2> HIDE DEF g
  <2> QED
    BY <2>1, <2>2
<1>2. Unrolls(f)
  BY <1>1, Zenon
<1>3. FlattenSeq(<<a, b>>) = f[2]
  BY DEF FlattenSeq
<1> HIDE DEF f
<1>4. \A i \in 1..2 : f[i] = IF i = 1 THEN <<a, b>>[i] ELSE f[i - 1] \o <<a, b>>[i]
  BY <1>2, Zenon
<1>5. f[1] = a
  BY <1>4
<1>6. f[2] = f[1] \o b
  <2>1. f[2] = f[2 - 1] \o <<a, b>>[2]
    BY <1>4
  <2> QED
    BY <2>1
<1> QED
  BY <1>3, <1>5, <1>6

LEMMA FlattenOne == ASSUME NEW a PROVE FlattenSeq(<<a>>) = a
<1> DEFINE Unrolls(f) == f = [i \in 1..1 |-> IF i = 1 THEN <<a>>[i] ELSE f[i - 1] \o <<a>>[i]]
           g == [i \in 1..1 |-> a]
           f == CHOOSE h : Unrolls(h)
<1>1. Unrolls(g)
  BY DEF g
<1>2. Unrolls(f)
  BY <1>1
<1>3. FlattenSeq(<<a>>) = f[1]
  BY DEF FlattenSeq
<1> HIDE DEF f
<1> QED
  BY <1>2, <1>3

\* Where the credentials of the definitions are.
PathAuth == <<"h", "auth">>
PathKey == <<"h", "key">>
Away == <<"g", "key">>
Deep == <<"h", "sub", "key">>
LEMMA PathsCut ==
  /\ Front(PathAuth) = <<"h">> /\ Front(PathKey) = <<"h">> /\ Front(Away) = <<"g">>
  /\ Front(Deep) = <<"h", "sub">>
  /\ Last(PathAuth) = "auth" /\ Last(PathKey) = "key" /\ Last(Away) = "key"
<1>1. {PathAuth, PathKey, Away, Deep} \subseteq Seq({"h", "g", "auth", "key", "sub"})
  BY DEF PathAuth, PathKey, Away, Deep
<1>2. Len(PathAuth) = 2 /\ Len(PathKey) = 2 /\ Len(Away) = 2 /\ Len(Deep) = 3
  BY DEF PathAuth, PathKey, Away, Deep
<1>3. /\ SubSeq(PathAuth, 1, 1) = <<PathAuth[1]>> /\ SubSeq(PathKey, 1, 1) = <<PathKey[1]>>
      /\ SubSeq(Away, 1, 1) = <<Away[1]>>
  <2>1. \A s \in {PathAuth, PathKey, Away} : Len(s) >= 1 => SubSeq(s, 1, 1) = <<s[1]>>
    BY <1>1, Cuts
  <2> QED
    BY <1>2, <2>1
<1>4. SubSeq(Deep, 1, 2) = <<Deep[1], Deep[2]>>
  <2>1. Len(Deep) >= 2 => SubSeq(Deep, 1, 2) = <<Deep[1], Deep[2]>>
    BY <1>1, Cuts
  <2> QED
    BY <1>2, <2>1
<1>5. Front(PathAuth) = SubSeq(PathAuth, 1, 1) /\ Front(PathKey) = SubSeq(PathKey, 1, 1)
      /\ Front(Away) = SubSeq(Away, 1, 1) /\ Front(Deep) = SubSeq(Deep, 1, 2)
  BY <1>2 DEF Front
<1>6. Last(PathAuth) = PathAuth[2] /\ Last(PathKey) = PathKey[2] /\ Last(Away) = Away[2]
  BY <1>2 DEF Last
<1> QED
  BY <1>3, <1>4, <1>5, <1>6 DEF PathAuth, PathKey, Away, Deep

SrcAuth == InFile(PathAuth, "auth")
SrcKey == InFile(PathKey, "key")
SrcAway == InFile(Away, "key")
HomeRoot == [Root("HOME_OF", <<"h">>) EXCEPT !.share = <<Config>>, !.shareDirs = <<Shared(Skills)>>]
HomeOnly == [Root("HOME_OF", <<"h">>) EXCEPT !.subdir = <<"dot">>]
DataOf == Root("DATA_OF", <<"g">>)

LEMMA PlansAre ==
  /\ Plain = [sources |-> <<SrcAuth, SrcKey>>, roots |-> <<HomeRoot>>]
  /\ TwoRoots = [sources |-> <<SrcAuth, SrcAway>>, roots |-> <<HomeOnly, DataOf>>]
BY DEF Plain, TwoRoots, SrcAuth, SrcKey, SrcAway, HomeRoot, HomeOnly, DataOf, PathAuth, PathKey, Away, Config, Skills

\* A definition with one root.
LEMMA OneRoot ==
  ASSUME NEW d, NEW r, d.roots = <<r>>, r.base = <<"h">>
  PROVE  /\ RootsOf(d, PathAuth) = {1} /\ RootsOf(d, PathKey) = {1}
         /\ RootsOf(d, Away) = {} /\ RootsOf(d, Deep) = {}
<1>1. DOMAIN d.roots = {1} /\ d.roots[1].base = <<"h">>
  OBVIOUS
<1>2. <<"h">> # <<"g">> /\ <<"h">> # <<"h", "sub">>
  OBVIOUS
<1> QED
  BY <1>1, <1>2, PathsCut DEF RootsOf

LEMMA SrcsAre ==
  /\ SrcAuth.path = PathAuth /\ SrcKey.path = PathKey /\ SrcAway.path = Away
  /\ SrcAuth.type = "file" /\ SrcKey.type = "file" /\ SrcAway.type = "file"
  /\ SrcAuth.saveAs = "auth" /\ SrcKey.saveAs = "key" /\ SrcAway.saveAs = "key"
BY DEF SrcAuth, SrcKey, SrcAway, InFile

LEMMA Joined ==
  ASSUME NEW S, NEW s \in Seq(S), NEW t \in Seq(S)
  PROVE  /\ s \o t \in Seq(S) /\ Len(s \o t) = Len(s) + Len(t)
         /\ \A i \in 1..(Len(s) + Len(t)) : (s \o t)[i] = IF i <= Len(s) THEN s[i] ELSE t[i - Len(s)]
<1>1. s \o t \in Seq(S)
  OBVIOUS
<1>2. Len(s \o t) = Len(s) + Len(t)
  OBVIOUS
<1> QED
  BY <1>1, <1>2

LEMMA JoinedOnes == ASSUME NEW a, NEW b PROVE <<a>> \o <<b>> = <<a, b>>
<1> DEFINE t == <<a>> \o <<b>>
<1>1. <<a>> \in Seq({a, b}) /\ <<b>> \in Seq({a, b}) /\ Len(<<a>>) = 1 /\ Len(<<b>>) = 1
  OBVIOUS
<1>2. /\ t \in Seq({a, b}) /\ Len(t) = Len(<<a>>) + Len(<<b>>)
      /\ \A i \in 1..(Len(<<a>>) + Len(<<b>>)) : t[i] = IF i <= Len(<<a>>) THEN <<a>>[i] ELSE <<b>>[i - Len(<<a>>)]
  BY <1>1, Joined
<1>3. Len(t) = 2 /\ t[1] = a /\ t[2] = b
  BY <1>1, <1>2
<1> HIDE DEF t
<1>4. t = <<t[1], t[2]>>
  BY <1>2, <1>3, Tuples
<1>5. t = <<a, b>>
  BY <1>3, <1>4
<1> QED
  BY <1>5 DEF t

LEMMA OneRootCreds ==
  ASSUME NEW d, NEW r, d.roots = <<r>>, r.base = <<"h">>, d.sources = <<SrcAuth, SrcKey>>
  PROVE  CredsOf(d, 1) = <<SrcAuth, SrcKey>> /\ CredNames(d, 1) = {<<"auth">>, <<"key">>}
<1>1. RootsOf(d, d.sources[1].path) = {1} /\ RootsOf(d, d.sources[2].path) = {1}
  BY OneRoot, SrcsAre
<1>2. [i \in DOMAIN d.sources |-> IF RootsOf(d, d.sources[i].path) = {1} THEN <<d.sources[i]>> ELSE <<>>]
        = << <<SrcAuth>>, <<SrcKey>> >>
  BY <1>1
<1>3. CredsOf(d, 1) = <<SrcAuth>> \o <<SrcKey>>
  BY <1>2, FlattenTwo DEF CredsOf
<1>4. CredsOf(d, 1) = <<SrcAuth, SrcKey>>
  BY <1>3, JoinedOnes
<1>5. Range(CredsOf(d, 1)) = {SrcAuth, SrcKey}
  BY <1>4 DEF Range
<1> QED
  BY <1>4, <1>5, SrcsAre, PathsCut DEF CredNames

LEMMA HomeIs ==
  HomeRoot = [env |-> "HOME_OF", base |-> <<"h">>, subdir |-> <<>>, share |-> <<Config>>,
          shareDirs |-> <<Shared(Skills)>>]
<1> DEFINE r == [env |-> "HOME_OF", base |-> <<"h">>, subdir |-> <<>>, share |-> <<>>, shareDirs |-> <<>>]
           w == [env |-> "HOME_OF", base |-> <<"h">>, subdir |-> <<>>, share |-> <<Config>>, shareDirs |-> <<>>]
<1>1. r = Root("HOME_OF", <<"h">>)
  BY DEF Root
<1>2. [r EXCEPT !.share = <<Config>>] = w
  OBVIOUS
<1>3. ASSUME NEW f, NEW share, NEW dirs
      PROVE  [f EXCEPT !.share = share, !.shareDirs = dirs] = [[f EXCEPT !.share = share] EXCEPT !.shareDirs = dirs]
  OBVIOUS
<1>4. HomeRoot = [[r EXCEPT !.share = <<Config>>] EXCEPT !.shareDirs = <<Shared(Skills)>>]
  <2> HIDE DEF r
  <2> QED BY <1>1, <1>3, Zenon DEF HomeRoot
<1>5. HomeRoot = [w EXCEPT !.shareDirs = <<Shared(Skills)>>]
  <2> HIDE DEF r, w
  <2> QED BY <1>2, <1>4, Zenon
<1> QED
  BY <1>5

LEMMA RootRefused ==
  ASSUME NEW d, NEW root, d.roots = <<root>>,
         \/ root.subdir # <<>> /\ ~Single(root.subdir)
         \/ \E rel \in Range(root.share) : ~Single(rel) \/ rel \in CredNames(d, 1)
         \/ \E i \in DOMAIN root.shareDirs :
              ~Single(root.shareDirs[i].rel) \/ root.shareDirs[i].rel \in CredNames(d, 1)
         \/ \E i, j \in DOMAIN root.shareDirs : i # j /\ root.shareDirs[i].rel = root.shareDirs[j].rel
         \/ \E i \in DOMAIN root.shareDirs : root.shareDirs[i].rel \in Range(root.share)
         \/ \E i \in DOMAIN root.shareDirs : root.shareDirs[i].maxBytes = 0
  PROVE  PlanRefuses(d)
<1> DEFINE dirs == [i \in DOMAIN root.shareDirs |-> root.shareDirs[i].rel]
<1>1. 1 \in DOMAIN d.roots /\ d.roots[1] = root
  OBVIOUS
<1>2. Range(dirs) = {root.shareDirs[i].rel : i \in DOMAIN root.shareDirs} /\ DOMAIN dirs = DOMAIN root.shareDirs
  BY DEF Range
<1>3. Range(root.shareDirs) = {root.shareDirs[i] : i \in DOMAIN root.shareDirs}
  BY DEF Range
<1>4. (\E i, j \in DOMAIN root.shareDirs : i # j /\ root.shareDirs[i].rel = root.shareDirs[j].rel) => ~IsInjective(dirs)
  BY DEF IsInjective
<1>5. \/ root.subdir # <<>> /\ ~Single(root.subdir)
      \/ \E rel \in Range(root.share) \union Range(dirs) : ~Single(rel) \/ rel \in CredNames(d, 1)
      \/ ~IsInjective(dirs) \/ Range(root.share) \cap Range(dirs) # {}
      \/ \E e \in Range(root.shareDirs) : 0 \in {e.maxFiles, e.maxBytes, e.maxEntries, e.maxDepth}
  BY <1>2, <1>3, <1>4
<1> QED
  BY <1>1, <1>5 DEF PlanRefuses

LEMMA SingleNot == ~Single(<<"a", "b">>) /\ ~Single(<<"..">>)
BY DEF Single

LEMMA RootsWrong ==
  ASSUME NEW d, NEW root, d = [Plain EXCEPT !.roots = <<root>>],
         \/ \E s \in {<<"a", "b">>, <<"..">>} : root = [HomeRoot EXCEPT !.subdir = s]
         \/ \E s \in {<< <<"key">> >>, << <<"a", "b">> >>, << <<"..">> >>} : root = [HomeRoot EXCEPT !.share = s]
         \/ \E s \in {<<Shared(Skills), Shared(Skills)>>, <<Shared(<<"auth">>)>>, <<Shared(Config)>>,
                      <<Shared(<<"a", "b">>)>>, <<[Shared(Skills) EXCEPT !.maxBytes = 0]>>} :
              root = [HomeRoot EXCEPT !.shareDirs = s]
  PROVE  PlanRefuses(d)
<1>1. d.sources = <<SrcAuth, SrcKey>> /\ d.roots = <<root>>
  BY PlansAre
<1>2. root.base = <<"h">>
  BY HomeIs
<1>3. CredNames(d, 1) = {<<"auth">>, <<"key">>}
  BY <1>1, <1>2, OneRootCreds
<1>4. ASSUME NEW s \in {<<"a", "b">>, <<"..">>}, root = [HomeRoot EXCEPT !.subdir = s]
      PROVE  PlanRefuses(d)
  <2>1. root.subdir = s /\ ~Single(s) /\ s # <<>>
    <3>1. root.subdir = s
      BY <1>4, HomeIs
    <3>2. ~Single(s)
      BY <1>4, SingleNot, Zenon
    <3>3. <<"a", "b">> # <<>> /\ <<"..">> # <<>>
      OBVIOUS
    <3> QED
      BY <1>4, <3>1, <3>2, <3>3, Zenon
  <2> QED
    BY <1>1, <2>1, RootRefused
<1>5. ASSUME NEW s \in {<< <<"key">> >>, << <<"a", "b">> >>, << <<"..">> >>}, root = [HomeRoot EXCEPT !.share = s]
      PROVE  PlanRefuses(d)
  <2>1. root.share = s
    BY <1>5, HomeIs
  <2>2. Range(s) \in {{<<"key">>}, {<<"a", "b">>}, {<<"..">>}}
    BY DEF Range
  <2>3. \E rel \in Range(root.share) : ~Single(rel) \/ rel \in CredNames(d, 1)
    BY <1>3, <2>1, <2>2, SingleNot
  <2> QED
    BY <1>1, <2>3, RootRefused
<1>6. ASSUME NEW s \in {<<Shared(Skills), Shared(Skills)>>, <<Shared(<<"auth">>)>>, <<Shared(Config)>>,
                        <<Shared(<<"a", "b">>)>>, <<[Shared(Skills) EXCEPT !.maxBytes = 0]>>},
             root = [HomeRoot EXCEPT !.shareDirs = s]
      PROVE  PlanRefuses(d)
  <2>1. root.shareDirs = s /\ root.share = <<Config>> /\ Range(root.share) = {Config}
    BY <1>6, HomeIs DEF Range
  <2>2. CASE s = <<Shared(Skills), Shared(Skills)>>
    <3>1. 1 \in DOMAIN s /\ 2 \in DOMAIN s /\ s[1].rel = s[2].rel /\ 1 # 2
      BY <2>2
    <3>2. \E i, j \in DOMAIN root.shareDirs : i # j /\ root.shareDirs[i].rel = root.shareDirs[j].rel
      BY <2>1, <3>1, Zenon
    <3> QED
      BY <1>1, <3>2, RootRefused
  <2>3. CASE s \in {<<Shared(<<"auth">>)>>, <<Shared(Config)>>, <<Shared(<<"a", "b">>)>>}
    <3>1. 1 \in DOMAIN s /\ s[1].rel \in {<<"auth">>, Config, <<"a", "b">>}
      BY <2>3 DEF Shared
    <3>2. \/ ~Single(s[1].rel) \/ s[1].rel \in CredNames(d, 1)
          \/ s[1].rel \in Range(root.share)
      BY <1>3, <2>1, <3>1, SingleNot
    <3> QED
      BY <1>1, <2>1, <3>1, <3>2, RootRefused
  <2>4. CASE s = <<[Shared(Skills) EXCEPT !.maxBytes = 0]>>
    <3>1. 1 \in DOMAIN s /\ s[1].maxBytes = 0
      BY <2>4 DEF Shared
    <3> QED
      BY <1>1, <2>1, <3>1, RootRefused
  <2> QED
    BY <2>2, <2>3, <2>4
<1> QED
  BY <1>4, <1>5, <1>6

\* What a definition may get wrong is refused.
LEMMA WrongRefused == \A d \in Wrong : PlanRefuses(d)
<1>1. ASSUME NEW d, d.roots = <<>> PROVE PlanRefuses(d)
  BY <1>1 DEF PlanRefuses
<1>2. ASSUME NEW d, \E i \in DOMAIN d.sources : d.sources[i].type # "file" \/ Cardinality(RootsOf(d, d.sources[i].path)) # 1
      PROVE  PlanRefuses(d)
  BY <1>2 DEF PlanRefuses, Range
<1>3. PlanRefuses([Plain EXCEPT !.roots = <<>>])
  BY <1>1, PlansAre
<1>4. PlanRefuses([Plain EXCEPT !.roots = @ \o <<Root("AGAIN", <<"h">>)>>])
  <2> SUFFICES ASSUME NEW d, d = [Plain EXCEPT !.roots = @ \o <<Root("AGAIN", <<"h">>)>>]
               PROVE  PlanRefuses(d)
    OBVIOUS
  <2>1. d.roots = <<HomeRoot, Root("AGAIN", <<"h">>)>> /\ d.sources = <<SrcAuth, SrcKey>>
    BY PlansAre, JoinedOnes
  <2>2. d.roots[1].base = <<"h">> /\ d.roots[2].base = <<"h">> /\ DOMAIN d.roots = {1, 2}
    <3>1. HomeRoot.base = <<"h">> /\ Root("AGAIN", <<"h">>).base = <<"h">>
      BY HomeIs DEF Root
    <3>2. /\ <<HomeRoot, Root("AGAIN", <<"h">>)>>[1] = HomeRoot /\ <<HomeRoot, Root("AGAIN", <<"h">>)>>[2] = Root("AGAIN", <<"h">>)
          /\ DOMAIN <<HomeRoot, Root("AGAIN", <<"h">>)>> = {1, 2}
      OBVIOUS
    <3> QED
      BY <2>1, <3>1, <3>2, Zenon
  <2>3. RootsOf(d, PathAuth) = {1, 2}
    BY <2>2, PathsCut DEF RootsOf
  <2>4. Cardinality({1, 2}) # 1
    <3>1. {1, 2} = {1} \union {2} /\ ~\E x : {1, 2} = {x}
      OBVIOUS
    <3>2. IsFiniteSet({1})
      BY FS_Singleton
    <3>3. IsFiniteSet({1} \union {2})
      BY <3>2, FS_AddElement
    <3> QED
      BY <3>1, <3>3, FS_Singleton
  <2>5. 1 \in DOMAIN d.sources /\ d.sources[1].path = PathAuth
    BY <2>1, SrcsAre
  <2> QED
    BY <1>2, <2>3, <2>4, <2>5
<1>5. PlanRefuses([Plain EXCEPT !.sources[2].type = "keychain"])
  <2> SUFFICES ASSUME NEW d, d = [Plain EXCEPT !.sources[2].type = "keychain"] PROVE PlanRefuses(d)
    OBVIOUS
  <2>1. 2 \in DOMAIN d.sources /\ d.sources[2].type = "keychain"
    BY PlansAre DEF SrcKey, InFile
  <2> QED
    BY <1>2, <2>1
<1>6. ASSUME NEW path \in {Deep, Away} PROVE PlanRefuses([Plain EXCEPT !.sources[2].path = path])
  <2> SUFFICES ASSUME NEW d, d = [Plain EXCEPT !.sources[2].path = path] PROVE PlanRefuses(d)
    OBVIOUS
  <2>1. 2 \in DOMAIN d.sources /\ d.sources[2].path = path /\ d.roots = <<HomeRoot>>
    BY PlansAre DEF SrcKey, InFile
  <2>2. RootsOf(d, path) = {}
    <3>1. HomeRoot.base = <<"h">>
      BY HomeIs
    <3> QED
      BY <2>1, <3>1, OneRoot, Zenon
  <2>3. Cardinality({}) # 1
    BY FS_EmptySet
  <2> QED
    BY <1>2, <2>1, <2>2, <2>3
<1>7. Plain.roots[1] = HomeRoot
  BY PlansAre
<1> QED
  BY <1>3, <1>4, <1>5, <1>6, <1>7, RootsWrong DEF Wrong, Deep, Away, Config, Skills

LEMMA SumsAre ==
  ASSUME NEW files, NEW S
  PROVE  LET sum == FoldSet(LAMBDA i, sum : sum + files[i].node.size, 0, S)
         IN  /\ S = {} => sum = 0
             /\ \A a : S = {a} => sum = 0 + files[a].node.size
             /\ \A a, b : a # b /\ S = {a, b} =>
                  sum \in {0 + files[a].node.size + files[b].node.size, 0 + files[b].node.size + files[a].node.size}
<1> DEFINE sum == FoldSet(LAMBDA i, sum : sum + files[i].node.size, 0, S)
           Size(i) == files[i].node.size
           Pick(s) == CHOOSE x \in s : TRUE
           Unrolls(h) == h = [s \in SUBSET S |-> IF s = {} THEN 0 ELSE h[s \ {Pick(s)}] + Size(Pick(s))]
           f == CHOOSE h : Unrolls(h)
<1>1. sum = f[S]
  BY DEF FoldSet, MapThenFoldSet
<1>2. ASSUME NEW g, Unrolls(g)
      PROVE  \A s \in SUBSET S : f[s] = IF s = {} THEN 0 ELSE f[s \ {Pick(s)}] + Size(Pick(s))
  <2>1. Unrolls(f)
    BY <1>2, Zenon
  <2> HIDE DEF f
  <2> QED
    BY <2>1, Zenon
<1>3. ASSUME NEW s \in SUBSET S, s # {} PROVE Pick(s) \in s
  BY <1>3, Zenon
<1> HIDE DEF sum, f, Pick, Size
<1>4. ASSUME S = {} PROVE sum = 0
  <2> DEFINE g == [s \in SUBSET S |-> 0]
  <2>1. Unrolls(g)
    BY <1>4
  <2> QED
    BY <1>1, <1>2, <2>1, <1>4
<1>5. ASSUME NEW a, S = {a} PROVE sum = 0 + Size(a)
  <2> DEFINE g == [s \in SUBSET S |-> IF s = {} THEN 0 ELSE 0 + Size(a)]
  <2>1. Pick({a}) = a /\ {a} \ {a} = {}
    BY <1>3, <1>5
  <2>2. SUBSET S = {{}, {a}} /\ {a} # {}
    BY <1>5
  <2>3. \A s \in SUBSET S : g[s] = IF s = {} THEN 0 ELSE g[s \ {Pick(s)}] + Size(Pick(s))
    BY <2>1, <2>2
  <2>4. Unrolls(g)
    <3>1. g = [s \in SUBSET S |-> g[s]]
      OBVIOUS
    <3> HIDE DEF g
    <3> QED BY <2>3, <3>1
  <2>5. f[{}] = 0 /\ f[{a}] = f[{a} \ {Pick({a})}] + Size(Pick({a}))
    BY <1>2, <2>2, <2>4
  <2> QED
    BY <1>1, <1>5, <2>1, <2>5
<1>6. ASSUME NEW a, NEW b, a # b, S = {a, b}
      PROVE  sum \in {0 + Size(a) + Size(b), 0 + Size(b) + Size(a)}
  <2> DEFINE g == [s \in SUBSET S |-> IF s = {} THEN 0 ELSE IF s = {a} THEN 0 + Size(a)
                                      ELSE IF s = {b} THEN 0 + Size(b)
                                      ELSE IF Pick(s) = a THEN 0 + Size(b) + Size(a) ELSE 0 + Size(a) + Size(b)]
  <2>1. Pick({a}) = a /\ Pick({b}) = b /\ Pick({a, b}) \in {a, b}
    BY <1>3, <1>6
  <2>2. SUBSET S = {{}, {a}, {b}, {a, b}} /\ {a} # {} /\ {b} # {} /\ {a, b} # {a} /\ {a, b} # {b} /\ {a, b} # {} /\ {a} # {b}
    <3>1. \A s \in SUBSET S : s \in {{}, {a}, {b}, {a, b}}
      BY <1>6
    <3> QED
      BY <1>6, <3>1
  <2>3. {a} \ {a} = {} /\ {b} \ {b} = {} /\ {a, b} \ {a} = {b} /\ {a, b} \ {b} = {a}
    BY <1>6
  <2>4. \A s \in SUBSET S : g[s] = IF s = {} THEN 0 ELSE g[s \ {Pick(s)}] + Size(Pick(s))
    <3>1. g[{}] = 0 /\ g[{a}] = 0 + Size(a) /\ g[{b}] = 0 + Size(b)
          /\ g[{a, b}] = IF Pick({a, b}) = a THEN 0 + Size(b) + Size(a) ELSE 0 + Size(a) + Size(b)
      BY <2>2
    <3> HIDE DEF g
    <3>2. /\ {a} \ {Pick({a})} = {} /\ {b} \ {Pick({b})} = {}
          /\ \/ Pick({a, b}) = a /\ {a, b} \ {Pick({a, b})} = {b}
             \/ Pick({a, b}) = b /\ {a, b} \ {Pick({a, b})} = {a}
      BY <2>1, <2>3
    <3>3. \A s \in {{}, {a}, {b}, {a, b}} : g[s] = IF s = {} THEN 0 ELSE g[s \ {Pick(s)}] + Size(Pick(s))
      BY <1>6, <2>1, <2>2, <3>1, <3>2
    <3> QED
      BY <2>2, <3>3
  <2>5. Unrolls(g)
    <3>1. g = [s \in SUBSET S |-> g[s]]
      OBVIOUS
    <3> HIDE DEF g
    <3> QED BY <2>4, <3>1
  <2>6. /\ f[{}] = 0 /\ f[{a}] = f[{a} \ {Pick({a})}] + Size(Pick({a}))
        /\ f[{b}] = f[{b} \ {Pick({b})}] + Size(Pick({b}))
        /\ f[{a, b}] = f[{a, b} \ {Pick({a, b})}] + Size(Pick({a, b}))
    BY <1>2, <2>2, <2>5
  <2> QED
    BY <1>1, <1>6, <2>1, <2>3, <2>6
<1> QED
  BY <1>4, <1>5, <1>6 DEF sum, Size

TaskOf(op, root, item) == [op |-> op, root |-> root, item |-> item]

\* A definition whose session shares the file config and the directory skills.
Sharing(d) ==
  /\ d.sources = <<SrcAuth, SrcKey>> /\ DOMAIN d.roots = {1} /\ d.roots = <<d.roots[1]>>
  /\ d.roots[1].base = <<"h">> /\ d.roots[1].share = <<Config>>
  /\ DOMAIN d.roots[1].shareDirs = {1} /\ d.roots[1].shareDirs = <<d.roots[1].shareDirs[1]>>
  /\ d.roots[1].shareDirs[1].rel = Skills
  /\ d.roots[1].shareDirs[1].maxFiles \in {1, 2} /\ d.roots[1].shareDirs[1].maxBytes = 3

LEMMA SharingPlain == Sharing(Plain)
<1>1. Plain.sources = <<SrcAuth, SrcKey>> /\ Plain.roots = <<HomeRoot>>
  BY PlansAre
<1>2. HomeRoot.base = <<"h">> /\ HomeRoot.share = <<Config>> /\ HomeRoot.shareDirs = <<Shared(Skills)>>
  BY HomeIs
<1>3. Shared(Skills).rel = Skills /\ Shared(Skills).maxFiles = 2 /\ Shared(Skills).maxBytes = 3
  BY DEF Shared
<1>4. Plain.roots[1] = HomeRoot /\ DOMAIN Plain.roots = {1}
  BY <1>1
<1>5. HomeRoot.shareDirs[1] = Shared(Skills) /\ DOMAIN HomeRoot.shareDirs = {1}
  BY <1>2
<1> QED
  BY <1>1, <1>2, <1>3, <1>4, <1>5, Zenon DEF Sharing

LEMMA SharingTight == ASSUME NEW d \in Tight PROVE Sharing(d)
<1>1. /\ Plain.sources = <<SrcAuth, SrcKey>> /\ DOMAIN Plain.roots = {1} /\ Plain.roots = <<Plain.roots[1]>>
      /\ Plain.roots[1].base = <<"h">> /\ Plain.roots[1].share = <<Config>>
      /\ DOMAIN Plain.roots[1].shareDirs = {1} /\ Plain.roots[1].shareDirs[1] = Shared(Skills)
  <2>1. Plain.sources = <<SrcAuth, SrcKey>> /\ Plain.roots = <<HomeRoot>>
    BY PlansAre
  <2>2. HomeRoot.base = <<"h">> /\ HomeRoot.share = <<Config>> /\ HomeRoot.shareDirs = <<Shared(Skills)>>
    BY HomeIs
  <2>3. HomeRoot.shareDirs[1] = Shared(Skills) /\ DOMAIN HomeRoot.shareDirs = {1}
    BY <2>2
  <2>4. Plain.roots[1] = HomeRoot /\ DOMAIN Plain.roots = {1}
    BY <2>1
  <2> QED
    BY <2>1, <2>2, <2>3, <2>4, Zenon
<1>2. Plain = [sources |-> Plain.sources, roots |-> Plain.roots]
  BY PlansAre
<1>3. /\ Plain.roots[1] = [env |-> Plain.roots[1].env, base |-> Plain.roots[1].base,
                           subdir |-> Plain.roots[1].subdir, share |-> Plain.roots[1].share,
                           shareDirs |-> Plain.roots[1].shareDirs]
  BY PlansAre, HomeIs
<1>4. PICK e : d = [Plain EXCEPT !.roots[1].shareDirs[1] = e]
                  /\ e.rel = Skills /\ e.maxFiles \in {1, 2} /\ e.maxBytes = 3
  BY <1>1, <1>2, <1>3 DEF Tight, Shared
<1> QED
  BY <1>1, <1>2, <1>3, <1>4 DEF Sharing

Strung(S, w, a, s, t, u) ==
  /\ w \in Seq(S) /\ Len(w) = 1 + Len(s) + Len(t) + Len(u) /\ w[1] = a
  /\ \A i \in 1..Len(s) : w[1 + i] = s[i]
  /\ \A i \in 1..Len(t) : w[1 + Len(s) + i] = t[i]
  /\ \A i \in 1..Len(u) : w[1 + Len(s) + Len(t) + i] = u[i]

LEMMA FourJoined ==
  ASSUME NEW S, NEW a \in S, NEW s \in Seq(S), NEW t \in Seq(S), NEW u \in Seq(S)
  PROVE  Strung(S, <<a>> \o s \o t \o u, a, s, t, u)
<1> DEFINE p == <<a>> \o s
           q == p \o t
           w == <<a>> \o s \o t \o u
<1>0. Len(<<a>>) = 1 /\ <<a>>[1] = a /\ Len(s) \in Nat /\ Len(t) \in Nat /\ Len(u) \in Nat
  OBVIOUS
<1>1. /\ p \in Seq(S) /\ Len(p) = Len(<<a>>) + Len(s)
      /\ \A i \in 1..(Len(<<a>>) + Len(s)) : p[i] = IF i <= Len(<<a>>) THEN <<a>>[i] ELSE s[i - Len(<<a>>)]
  BY Joined
<1>2. w = q \o u
  OBVIOUS
<1> HIDE DEF p, w
<1>3. /\ q \in Seq(S) /\ Len(q) = Len(p) + Len(t)
      /\ \A i \in 1..(Len(p) + Len(t)) : q[i] = IF i <= Len(p) THEN p[i] ELSE t[i - Len(p)]
  <2>1. \A x \in Seq(S), y \in Seq(S) :
          /\ x \o y \in Seq(S) /\ Len(x \o y) = Len(x) + Len(y)
          /\ \A i \in 1..(Len(x) + Len(y)) : (x \o y)[i] = IF i <= Len(x) THEN x[i] ELSE y[i - Len(x)]
    BY Joined
  <2>2. p \in Seq(S) /\ t \in Seq(S)
    BY <1>1
  <2> QED
    BY <2>1, <2>2, Zenon
<1> HIDE DEF q
<1>4. /\ w \in Seq(S) /\ Len(w) = Len(q) + Len(u)
      /\ \A i \in 1..(Len(q) + Len(u)) : w[i] = IF i <= Len(q) THEN q[i] ELSE u[i - Len(q)]
  <2>1. /\ q \o u \in Seq(S) /\ Len(q \o u) = Len(q) + Len(u)
        /\ \A i \in 1..(Len(q) + Len(u)) : (q \o u)[i] = IF i <= Len(q) THEN q[i] ELSE u[i - Len(q)]
    <3>1. \A x \in Seq(S), y \in Seq(S) :
            /\ x \o y \in Seq(S) /\ Len(x \o y) = Len(x) + Len(y)
            /\ \A i \in 1..(Len(x) + Len(y)) : (x \o y)[i] = IF i <= Len(x) THEN x[i] ELSE y[i - Len(x)]
      BY Joined
    <3>2. q \in Seq(S) /\ u \in Seq(S)
      BY <1>3
    <3> QED
      BY <3>1, <3>2, Zenon
  <2> QED
    BY <1>2, <2>1
<1>5. Len(p) = 1 + Len(s) /\ Len(q) = 1 + Len(s) + Len(t) /\ Len(w) = 1 + Len(s) + Len(t) + Len(u)
  BY <1>0, <1>1, <1>3, <1>4
<1>6. p[1] = a /\ \A i \in 1..Len(s) : p[1 + i] = s[i]
  <2>1. p[1] = a
    BY <1>0, <1>1
  <2>2. ASSUME NEW i \in 1..Len(s) PROVE p[1 + i] = s[i]
    <3>1. 1 + i \in 1..(Len(<<a>>) + Len(s)) /\ ~(1 + i <= Len(<<a>>)) /\ 1 + i - Len(<<a>>) = i
      BY <1>0
    <3> QED
      BY <1>1, <3>1
  <2> QED
    BY <2>1, <2>2
<1>7. /\ q[1] = a /\ \A i \in 1..Len(s) : q[1 + i] = s[i]
      /\ \A i \in 1..Len(t) : q[1 + Len(s) + i] = t[i]
  <2>1. q[1] = a
    BY <1>0, <1>3, <1>5, <1>6
  <2>2. ASSUME NEW i \in 1..Len(s) PROVE q[1 + i] = s[i]
    <3>1. 1 + i \in 1..(Len(p) + Len(t)) /\ 1 + i <= Len(p)
      BY <1>0, <1>5
    <3> QED
      BY <1>3, <1>6, <3>1
  <2>3. ASSUME NEW i \in 1..Len(t) PROVE q[1 + Len(s) + i] = t[i]
    <3>1. 1 + Len(s) + i \in 1..(Len(p) + Len(t)) /\ ~(1 + Len(s) + i <= Len(p)) /\ 1 + Len(s) + i - Len(p) = i
      BY <1>0, <1>5
    <3> QED
      BY <1>3, <3>1
  <2> QED
    BY <2>1, <2>2, <2>3
<1>8. w[1] = a
  BY <1>0, <1>4, <1>5, <1>7
<1>9. ASSUME NEW i \in 1..Len(s) PROVE w[1 + i] = s[i]
  <2>1. 1 + i \in 1..(Len(q) + Len(u)) /\ 1 + i <= Len(q)
    BY <1>0, <1>5
  <2> QED
    BY <1>4, <1>7, <2>1
<1>10. ASSUME NEW i \in 1..Len(t) PROVE w[1 + Len(s) + i] = t[i]
  <2>1. 1 + Len(s) + i \in 1..(Len(q) + Len(u)) /\ 1 + Len(s) + i <= Len(q)
    BY <1>0, <1>5
  <2> QED
    BY <1>4, <1>7, <2>1
<1>11. ASSUME NEW i \in 1..Len(u) PROVE w[1 + Len(s) + Len(t) + i] = u[i]
  <2>1. /\ 1 + Len(s) + Len(t) + i \in 1..(Len(q) + Len(u)) /\ ~(1 + Len(s) + Len(t) + i <= Len(q))
        /\ 1 + Len(s) + Len(t) + i - Len(q) = i
    BY <1>0, <1>5
  <2> QED
    BY <1>4, <2>1, SMTT(30)
<1> QED
  BY <1>4, <1>5, <1>8, <1>9, <1>10, <1>11 DEF Strung

LEMMA SharingTasks ==
  ASSUME NEW d, Sharing(d)
  PROVE  /\ Len(Tasks(d)) = 5
         /\ Tasks(d)[1] = TaskOf("root", 1, <<>>)
         /\ Tasks(d)[2] = TaskOf("cred", 1, SrcAuth) /\ Tasks(d)[3] = TaskOf("cred", 1, SrcKey)
         /\ Tasks(d)[4] = TaskOf("share", 1, Config)
         /\ Tasks(d)[5] = TaskOf("shareDir", 1, d.roots[1].shareDirs[1])
<1> DEFINE r == d.roots[1]
           dir == r.shareDirs[1]
           c == [i \in DOMAIN CredsOf(d, 1) |-> TaskOf("cred", 1, CredsOf(d, 1)[i])]
           s == [i \in DOMAIN r.share |-> TaskOf("share", 1, r.share[i])]
           e == [i \in DOMAIN r.shareDirs |-> TaskOf("shareDir", 1, r.shareDirs[i])]
           w == <<TaskOf("root", 1, <<>>)>> \o c \o s \o e
           All == {TaskOf("root", 1, <<>>), TaskOf("cred", 1, SrcAuth), TaskOf("cred", 1, SrcKey), TaskOf("share", 1, Config),
                   TaskOf("shareDir", 1, dir)}
<1>1. d.roots = <<r>> /\ r.base = <<"h">> /\ d.sources = <<SrcAuth, SrcKey>>
      /\ r.share = <<Config>> /\ r.shareDirs = <<dir>>
  BY Zenon DEF Sharing
<1>2. c = <<TaskOf("cred", 1, SrcAuth), TaskOf("cred", 1, SrcKey)>>
  <2>1. CredsOf(d, 1) = <<SrcAuth, SrcKey>>
    BY <1>1, OneRootCreds, Zenon
  <2> QED
    BY <2>1
<1>3. s = <<TaskOf("share", 1, Config)>>
  BY <1>1
<1>4. e = <<TaskOf("shareDir", 1, dir)>>
  BY <1>1
<1>5. Tasks(d) = FlattenSeq(<<w>>)
  <2>1. DOMAIN d.roots = {1}
    BY <1>1
  <2>2. Tasks(d) = FlattenSeq([i \in {1} |->
          <<TaskOf("root", i, <<>>)>>
          \o [j \in DOMAIN CredsOf(d, i) |-> TaskOf("cred", i, CredsOf(d, i)[j])]
          \o [j \in DOMAIN d.roots[i].share |-> TaskOf("share", i, d.roots[i].share[j])]
          \o [j \in DOMAIN d.roots[i].shareDirs |-> TaskOf("shareDir", i, d.roots[i].shareDirs[j])]])
    BY <2>1, Zenon DEF Tasks, TaskOf
  <2>3. [i \in {1} |->
          <<TaskOf("root", i, <<>>)>>
          \o [j \in DOMAIN CredsOf(d, i) |-> TaskOf("cred", i, CredsOf(d, i)[j])]
          \o [j \in DOMAIN d.roots[i].share |-> TaskOf("share", i, d.roots[i].share[j])]
          \o [j \in DOMAIN d.roots[i].shareDirs |-> TaskOf("shareDir", i, d.roots[i].shareDirs[j])]]
        = [i \in {1} |-> w]
    BY Zenon
  <2>4. [i \in {1} |-> w] = <<w>>
    <3> HIDE DEF w
    <3> QED
      BY SMTT(30)
  <2> QED
    BY <2>2, <2>3, <2>4, Zenon
<1>6. Tasks(d) = w
  BY <1>5, FlattenOne
<1> HIDE DEF c, s, e
<1>7. /\ <<TaskOf("root", 1, <<>>)>> \in Seq(All) /\ c \in Seq(All) /\ s \in Seq(All) /\ e \in Seq(All)
      /\ Len(c) = 2 /\ Len(s) = 1 /\ Len(e) = 1
  BY <1>2, <1>3, <1>4
<1> HIDE DEF w, All
<1>8. /\ w \in Seq(All) /\ Len(w) = 1 + Len(c) + Len(s) + Len(e) /\ w[1] = TaskOf("root", 1, <<>>)
      /\ \A i \in 1..Len(c) : w[1 + i] = c[i]
      /\ \A i \in 1..Len(s) : w[1 + Len(c) + i] = s[i]
      /\ \A i \in 1..Len(e) : w[1 + Len(c) + Len(s) + i] = e[i]
  <2>1. Strung(All, <<TaskOf("root", 1, <<>>)>> \o c \o s \o e, TaskOf("root", 1, <<>>), c, s, e)
    <3>1. TaskOf("root", 1, <<>>) \in All
      BY DEF All
    <3> QED
      BY <1>7, <3>1, FourJoined
  <2> QED
    BY <2>1 DEF w, Strung
<1>9. Len(w) = 5 /\ w[2] = c[1] /\ w[3] = c[2] /\ w[4] = s[1] /\ w[5] = e[1]
  BY <1>7, <1>8
<1> QED
  BY <1>2, <1>3, <1>4, <1>6, <1>8, <1>9

LEMMA JoinedNone == ASSUME NEW a PROVE <<a>> \o <<>> = <<a>> /\ <<>> \o <<a>> = <<a>>
OBVIOUS

LEMMA TwoRootsCreds == CredsOf(TwoRoots, 1) = <<SrcAuth>> /\ CredsOf(TwoRoots, 2) = <<SrcAway>>
<1>1. TwoRoots.sources = <<SrcAuth, SrcAway>> /\ TwoRoots.roots = <<HomeOnly, DataOf>>
  BY PlansAre
<1>2. TwoRoots.roots[1] = HomeOnly /\ TwoRoots.roots[2] = DataOf /\ DOMAIN TwoRoots.roots = {1, 2}
  BY <1>1
<1>3. HomeOnly.base = <<"h">> /\ DataOf.base = <<"g">>
  BY DEF HomeOnly, DataOf, Root
<1>4. <<"h">> # <<"g">>
  OBVIOUS
<1>5. RootsOf(TwoRoots, PathAuth) = {1} /\ RootsOf(TwoRoots, Away) = {2}
  BY <1>2, <1>3, <1>4, PathsCut DEF RootsOf
<1>6. /\ TwoRoots.sources[1] = SrcAuth /\ TwoRoots.sources[2] = SrcAway /\ DOMAIN TwoRoots.sources = {1, 2}
  BY <1>1
<1>7. [i \in DOMAIN TwoRoots.sources |->
         IF RootsOf(TwoRoots, TwoRoots.sources[i].path) = {1} THEN <<TwoRoots.sources[i]>> ELSE <<>>]
        = << <<SrcAuth>>, <<>> >>
  BY <1>5, <1>6, SrcsAre
<1>8. [i \in DOMAIN TwoRoots.sources |->
         IF RootsOf(TwoRoots, TwoRoots.sources[i].path) = {2} THEN <<TwoRoots.sources[i]>> ELSE <<>>]
        = << <<>>, <<SrcAway>> >>
  BY <1>5, <1>6, SrcsAre, SMTT(30)
<1> QED
  BY <1>7, <1>8, FlattenTwo, JoinedNone, ZenonT(60) DEF CredsOf

LEMMA OneCred ==
  ASSUME NEW r, NEW src
  PROVE  Strung({TaskOf("root", r, <<>>), TaskOf("cred", r, src)},
                <<TaskOf("root", r, <<>>)>> \o <<TaskOf("cred", r, src)>> \o <<>> \o <<>>,
                TaskOf("root", r, <<>>), <<TaskOf("cred", r, src)>>, <<>>, <<>>)
<1> DEFINE All == {TaskOf("root", r, <<>>), TaskOf("cred", r, src)}
<1>1. TaskOf("root", r, <<>>) \in All /\ <<TaskOf("cred", r, src)>> \in Seq(All) /\ <<>> \in Seq(All)
  OBVIOUS
<1> QED
  BY <1>1, FourJoined

LEMMA TwoRootsTasks ==
  LET w == Tasks(TwoRoots)
  IN  /\ Len(w) = 4
      /\ w[1] = TaskOf("root", 1, <<>>) /\ w[2] = TaskOf("cred", 1, SrcAuth)
      /\ w[3] = TaskOf("root", 2, <<>>) /\ w[4] = TaskOf("cred", 2, SrcAway)
<1> DEFINE d == TwoRoots
           w(r, src) == <<TaskOf("root", r, <<>>)>> \o <<TaskOf("cred", r, src)>> \o <<>> \o <<>>
           v == w(1, SrcAuth)
           u == w(2, SrcAway)
           All == {TaskOf("root", 1, <<>>), TaskOf("cred", 1, SrcAuth), TaskOf("root", 2, <<>>), TaskOf("cred", 2, SrcAway)}
<1>1. /\ d.roots[1].share = <<>> /\ d.roots[1].shareDirs = <<>> /\ d.roots[2].share = <<>>
      /\ d.roots[2].shareDirs = <<>> /\ DOMAIN d.roots = {1, 2}
  <2>1. d.roots[1] = HomeOnly /\ d.roots[2] = DataOf /\ DOMAIN d.roots = {1, 2}
    BY PlansAre
  <2> QED
    BY <2>1 DEF HomeOnly, DataOf, Root
<1>2. Tasks(d) = FlattenSeq(<<v, u>>)
  <2> DEFINE of(i) == <<TaskOf("root", i, <<>>)>>
                \o [j \in DOMAIN CredsOf(d, i) |-> TaskOf("cred", i, CredsOf(d, i)[j])]
                \o [j \in DOMAIN d.roots[i].share |-> TaskOf("share", i, d.roots[i].share[j])]
                \o [j \in DOMAIN d.roots[i].shareDirs |-> TaskOf("shareDir", i, d.roots[i].shareDirs[j])]
  <2>1. Tasks(d) = FlattenSeq([i \in {1, 2} |-> of(i)])
    BY <1>1, Zenon DEF Tasks, TaskOf
  <2>2. of(1) = v
    <3>1. [j \in DOMAIN CredsOf(d, 1) |-> TaskOf("cred", 1, CredsOf(d, 1)[j])] = <<TaskOf("cred", 1, SrcAuth)>>
      BY TwoRootsCreds
    <3>2. [j \in DOMAIN d.roots[1].share |-> TaskOf("share", 1, d.roots[1].share[j])] = <<>>
      BY <1>1
    <3>3. [j \in DOMAIN d.roots[1].shareDirs |-> TaskOf("shareDir", 1, d.roots[1].shareDirs[j])] = <<>>
      BY <1>1
    <3> QED
      BY <3>1, <3>2, <3>3, Zenon
  <2>3. of(2) = u
    <3>1. [j \in DOMAIN CredsOf(d, 2) |-> TaskOf("cred", 2, CredsOf(d, 2)[j])] = <<TaskOf("cred", 2, SrcAway)>>
      BY TwoRootsCreds
    <3>2. [j \in DOMAIN d.roots[2].share |-> TaskOf("share", 2, d.roots[2].share[j])] = <<>>
      BY <1>1
    <3>3. [j \in DOMAIN d.roots[2].shareDirs |-> TaskOf("shareDir", 2, d.roots[2].shareDirs[j])] = <<>>
      BY <1>1
    <3> QED
      BY <3>1, <3>2, <3>3, Zenon
  <2> HIDE DEF of, v, u
  <2>4. [i \in {1, 2} |-> of(i)] = <<of(1), of(2)>>
    OBVIOUS
  <2> QED
    BY <2>1, <2>2, <2>3, <2>4
<1>3. Tasks(d) = v \o u
  BY <1>2, FlattenTwo
<1>4. /\ v \in Seq({TaskOf("root", 1, <<>>), TaskOf("cred", 1, SrcAuth)}) /\ Len(v) = 2
      /\ v[1] = TaskOf("root", 1, <<>>) /\ v[2] = TaskOf("cred", 1, SrcAuth)
  <2> DEFINE c == <<TaskOf("cred", 1, SrcAuth)>>
  <2>1. Strung({TaskOf("root", 1, <<>>), TaskOf("cred", 1, SrcAuth)}, v, TaskOf("root", 1, <<>>), c, <<>>, <<>>)
    BY OneCred
  <2>2. Len(c) = 1 /\ c[1] = TaskOf("cred", 1, SrcAuth) /\ Len(<<>>) = 0
    OBVIOUS
  <2> HIDE DEF c, v
  <2> QED
    BY <2>1, <2>2 DEF Strung
<1>5. /\ u \in Seq({TaskOf("root", 2, <<>>), TaskOf("cred", 2, SrcAway)}) /\ Len(u) = 2
      /\ u[1] = TaskOf("root", 2, <<>>) /\ u[2] = TaskOf("cred", 2, SrcAway)
  <2> DEFINE c == <<TaskOf("cred", 2, SrcAway)>>
  <2>1. Strung({TaskOf("root", 2, <<>>), TaskOf("cred", 2, SrcAway)}, u, TaskOf("root", 2, <<>>), c, <<>>, <<>>)
    BY OneCred
  <2>2. Len(c) = 1 /\ c[1] = TaskOf("cred", 2, SrcAway) /\ Len(<<>>) = 0
    OBVIOUS
  <2> HIDE DEF c, u
  <2> QED
    BY <2>1, <2>2 DEF Strung
<1> HIDE DEF v, u
<1>6. v \in Seq(All) /\ u \in Seq(All)
  BY <1>4, <1>5
<1>7. /\ v \o u \in Seq(All) /\ Len(v \o u) = Len(v) + Len(u)
      /\ \A i \in 1..(Len(v) + Len(u)) : (v \o u)[i] = IF i <= Len(v) THEN v[i] ELSE u[i - Len(v)]
  <2> HIDE DEF All
  <2> QED
    BY <1>6, Joined, Zenon
<1>8. /\ Len(v \o u) = 4 /\ (v \o u)[1] = v[1] /\ (v \o u)[2] = v[2]
      /\ (v \o u)[3] = u[1] /\ (v \o u)[4] = u[2]
  BY <1>4, <1>5, <1>7
<1> QED
  BY <1>3, <1>4, <1>5, <1>8

-----------------------------------------------------------------------------
NodeType == [kind : {"none", "file", "dir", "link"}, id : Nat, links : Nat, size : Nat, own : BOOLEAN]
CredType == [root : {1, 2}, rel : {<<"auth">>, <<"key">>}, saveAs : Credential, value : Nat]
FileType == [root : {1}, rel : {Config, EntryA, Sub, EntryB}, node : NodeType]
LevelType == [dir : {Skills, EntryA, Sub, EntryB}, id : Nat, left : SUBSET {EntryA, Sub, EntryB}]
CopyType == [step : CopySteps, task : Nat, spot : {<<>>, EntryA, Sub, EntryB}, file : NodeType,
             total : [files : Nat, bytes : Nat, entries : Nat]]
SessionType == [exists : {"none", "mine", "others", "lost", "stuck"}, roots : SUBSET {1, 2},
                creds : Seq(CredType), files : Seq(FileType)]

\* What the base directory and the profile hold, and have held from the start if nobody changed them.
TreeKnown ==
  /\ tree \in [Spot -> NodeType]
  /\ \A s \in Spot : tree[s].id # 1 /\ (tree[s].links = 1 => tree[s].own)
  /\ "tree" \notin changed => tree \in Trees

ProfileKnown ==
  /\ credentials \in [Credential -> Nat]
  /\ "profile" \notin changed => \A c \in Credential : credentials[c] \in {0, 1}

Looks == {"look", "contain", "open", "verify", "read"}
Walks == {"list", "entry"} \union Looks
UnderWay == {"task", "share", "ready"} \union Walks

\* Before the first task.
Blank ==
  /\ copying.task = 1 /\ copying.total = NoTotals /\ walk = <<>>
  /\ session.creds = <<>> /\ session.files = <<>>

\* The credentials that are copied, in the order of the definition.
CredsHeld ==
  /\ Len(session.creds) >= 1 => session.creds[1].rel = <<"auth">> /\ session.creds[1].saveAs = "auth"
  /\ Len(session.creds) >= 2 => session.creds[2].rel = <<"key">> /\ session.creds[2].saveAs = "key"
  /\ "profile" \notin changed => \A i \in DOMAIN session.creds : session.creds[i].value = 1

\* How far the copy has come, by the number of its task.
TwoRootsAt ==
  /\ copying.step \in {"task", "ready"} /\ copying.task \in 1..5 /\ (copying.step = "ready" <=> copying.task = 5)
  /\ walk = <<>> /\ session.files = <<>> /\ copying.total = NoTotals
  /\ Len(session.creds) = IF copying.task <= 2 THEN 0 ELSE IF copying.task <= 4 THEN 1 ELSE 2

SharingAt ==
  /\ copying.task \in 1..6 /\ (copying.step = "ready" <=> copying.task = 6)
  /\ (copying.step = "share" => copying.task = 4) /\ (copying.step \in Walks => copying.task = 5)
  /\ copying.step \notin Walks => walk = <<>> /\ copying.total = NoTotals
  /\ Len(session.creds) = IF copying.task <= 2 THEN 0 ELSE IF copying.task = 3 THEN 1 ELSE 2
  /\ \A i \in DOMAIN session.creds : session.creds[i].root = 1

\* The share comes first, the files of the directory after it.
Lead(files) == IF Len(files) >= 1 /\ files[1].rel = Config THEN 1 ELSE 0
Bytes(files) ==
  LET size(i) == files[i].node.size
  IN  IF Len(files) = Lead(files) THEN 0
      ELSE IF Len(files) = Lead(files) + 1 THEN size(Lead(files) + 1)
      ELSE size(Lead(files) + 1) + size(Lead(files) + 2)
Rels(files) == {files[i].rel : i \in DOMAIN files}

Limits == definition.roots[1].shareDirs[1]
FilesWell(files) ==
  /\ \A i \in DOMAIN files : i > Lead(files) => files[i].rel # Config /\ files[i].node.own
  /\ \A i, j \in DOMAIN files : files[i].rel = files[j].rel => i = j
FilesHeld ==
  /\ FilesWell(session.files)
  /\ Len(session.files) <= Lead(session.files) + Limits.maxFiles /\ Bytes(session.files) <= Limits.maxBytes
  /\ copying.task <= 4 => session.files = <<>>
  /\ copying.step = "task" => Len(session.files) = Lead(session.files)
  /\ copying.step \in Walks => /\ copying.total.files = Len(session.files) - Lead(session.files)
                               /\ copying.total.bytes = Bytes(session.files)

\* What the copy of the directory has still to come to.
ToCome(goal, spot, levels) ==
  (UNION {levels[i].left : i \in DOMAIN levels})
    \union (IF goal \in Looks THEN {spot} ELSE {})
    \union (IF goal = "list" THEN Kids(levels[Len(levels)].dir) ELSE {})
Pending(goal, spot, levels) == UNION {Under(p) : p \in ToCome(goal, spot, levels)}

\* The directories the copy is in, one in the other.
Nested(goal, spot, levels) ==
  /\ Len(levels) >= 1 /\ levels[1].dir = Skills
  /\ \A i \in DOMAIN levels : levels[i].left \subseteq Kids(levels[i].dir)
  /\ \A i \in DOMAIN levels : i > 1 => levels[i].dir \in Kids(levels[i - 1].dir) \ levels[i - 1].left
  /\ goal = "list" => levels[Len(levels)].left = {}
  /\ goal \in Looks => spot \in Kids(levels[Len(levels)].dir) \ levels[Len(levels)].left

WalkHeld ==
  copying.step \in Walks =>
    /\ Nested(copying.step, copying.spot, walk)
    /\ Rels(session.files) \cap Pending(copying.step, copying.spot, walk) = {}

\* The file that is open is one of the base directory, with no other name once that was verified.
FileHeld ==
  /\ copying.step = "verify" => /\ copying.file.kind = "file"
                                /\ copying.file.id = 1 \/ (copying.file.links = 1 => copying.file.own)
  /\ copying.step = "read" => copying.file.own /\ copying.total.files + 1 <= Limits.maxFiles

\* Nothing is forgotten while nobody changes the base directory.
NoneForgotten ==
  "tree" \notin changed =>
    /\ copying.task >= 5 => (Config \in Rels(session.files) <=> tree[Config].kind = "file")
    /\ copying.step \in Walks =>
         {EntryA, EntryB} \subseteq Rels(session.files) \union Pending(copying.step, copying.spot, walk)
    /\ copying.step = "ready" => {EntryA, EntryB} \subseteq Rels(session.files)
    /\ Sub \notin Rels(session.files)
    /\ copying.step \in Looks \ {"look"} => copying.spot # Sub

SharingHeld == SharingAt /\ FilesHeld /\ WalkHeld /\ FileHeld /\ NoneForgotten
TwoRootsHeld == TwoRootsAt /\ \A i \in DOMAIN session.creds : session.creds[i].root = i

\* A session on its way holds what its tasks so far have given it.
HoldsInv ==
  /\ TreeKnown /\ ProfileKnown /\ changed \subseteq {"tree", "profile"} /\ rewrites \in Nat
  /\ copying \in CopyType /\ session \in SessionType /\ walk \in Seq(LevelType)
  /\ copying.step \in {"idle", "mkdir"} => Blank
  /\ copying.step \notin {"idle", "refused"} => Sharing(definition) \/ definition = TwoRoots
  /\ copying.step \in UnderWay =>
       /\ CredsHeld
       /\ Sharing(definition) => SharingHeld
       /\ definition = TwoRoots => TwoRootsHeld

LEMMA KindsOfNodes ==
  /\ \A kind \in {"none", "file", "dir", "link"}, id \in Nat :
       Node(kind, id) \in NodeType /\ Node(kind, id).id = id /\ Node(kind, id).kind = kind
         /\ Node(kind, id).links = 1 /\ Node(kind, id).own
  /\ \A id \in Nat : HardLink(id) \in NodeType /\ HardLink(id).id = id /\ HardLink(id).kind = "file" /\ HardLink(id).links = 2
  /\ NoNode \in NodeType /\ NoNode.id = 0 /\ NoNode.kind = "none" /\ NoNode.links = 1 /\ NoNode.own
  /\ Foreign \in NodeType /\ Foreign.id = 1 /\ Foreign.kind = "file"
BY DEF Node, HardLink, NoNode, Foreign, NodeType

TreeWell(t) == t \in [Spot -> NodeType] /\ \A s \in Spot : t[s].id # 1 /\ (t[s].links = 1 => t[s].own)
TreeWhole(t) ==
  /\ t[Skills].kind = "dir" /\ t[Sub].kind = "dir" /\ t[EntryA].kind = "file" /\ t[EntryB].kind = "file"

LEMMA TreesAre == ASSUME NEW t \in Trees PROVE TreeWell(t) /\ TreeWhole(t)
<1> DEFINE full == [s \in Spot |-> CASE s = Config -> Node("file", 2)
                                     [] s = Skills -> Node("dir", 3)
                                     [] s = EntryA -> Node("file", 4)
                                     [] s = Sub -> Node("dir", 5)
                                     [] OTHER -> Node("file", 6)]
<1>1. t \in {full, [full EXCEPT ![Config] = NoNode, ![EntryA] = HardLink(4)],
             [full EXCEPT ![EntryA].size = 2], [full EXCEPT ![EntryA].size = 3],
             [full EXCEPT ![Config] = Node("link", 2)]}
  BY Zenon DEF Trees, Config, Skills, EntryA, Sub
<1>2. /\ full[Config] = Node("file", 2) /\ full[Skills] = Node("dir", 3) /\ full[EntryA] = Node("file", 4)
      /\ full[Sub] = Node("dir", 5) /\ full[EntryB] = Node("file", 6)
      /\ DOMAIN full = Spot /\ full = [s \in Spot |-> full[s]]
  BY SpotsAre, SpotsDiffer
<1>3. {Node("file", 2), Node("dir", 3), Node("file", 4), Node("dir", 5), Node("file", 6)} \subseteq NodeType
  BY KindsOfNodes
<1> HIDE DEF full
<1>4. TreeWell(full) /\ TreeWhole(full)
  <2>1. full \in [Spot -> NodeType]
    BY <1>2, <1>3, SpotsAre
  <2>2. \A s \in Spot : full[s] \in {Node("file", 2), Node("dir", 3), Node("file", 4), Node("dir", 5), Node("file", 6)}
    BY <1>2, SpotsAre
  <2>3. \A s \in Spot : full[s].id # 1 /\ (full[s].links = 1 => full[s].own)
    BY <2>2, KindsOfNodes
  <2> QED
    BY <1>2, <2>1, <2>3, KindsOfNodes DEF TreeWell, TreeWhole
<1>5. ASSUME NEW size \in Nat PROVE TreeWell([full EXCEPT ![EntryA].size = size]) /\ TreeWhole([full EXCEPT ![EntryA].size = size])
  <2>1. [full[EntryA] EXCEPT !.size = size] \in NodeType
    BY <1>2, <1>3 DEF NodeType
  <2>2. [full EXCEPT ![EntryA].size = size] = [full EXCEPT ![EntryA] = [full[EntryA] EXCEPT !.size = size]]
    BY <1>2, SpotsAre
  <2> DEFINE n == [full[EntryA] EXCEPT !.size = size]
  <2>3. n.id = 4 /\ n.kind = "file" /\ n.links = 1 /\ n.own
    BY <1>2 DEF Node
  <2> HIDE DEF n
  <2>4. TreeWell([full EXCEPT ![EntryA] = n]) /\ TreeWhole([full EXCEPT ![EntryA] = n])
    BY <1>4, <2>1, <2>3, SpotsAre, SpotsDiffer DEF TreeWell, TreeWhole, n
  <2> QED
    BY <2>2, <2>4 DEF n
<1>6. ASSUME NEW n \in NodeType, n.id # 1, n.links = 1 => n.own PROVE TreeWell([full EXCEPT ![Config] = n]) /\ TreeWhole([full EXCEPT ![Config] = n])
  BY <1>4, <1>6, SpotsAre, SpotsDiffer DEF TreeWell, TreeWhole
<1>7. CASE t = full
  BY <1>4, <1>7
<1>8. CASE t = [full EXCEPT ![EntryA].size = 2] \/ t = [full EXCEPT ![EntryA].size = 3]
  BY <1>5, <1>8
<1>9. CASE t = [full EXCEPT ![Config] = Node("link", 2)]
  <2>1. Node("link", 2) \in NodeType /\ Node("link", 2).id # 1 /\ Node("link", 2).own
    BY KindsOfNodes
  <2> QED
    BY <1>6, <1>9, <2>1, Zenon
<1>10. CASE t = [full EXCEPT ![Config] = NoNode, ![EntryA] = HardLink(4)]
  <2> DEFINE u == [full EXCEPT ![Config] = NoNode]
  <2>1. TreeWell(u) /\ TreeWhole(u)
    BY <1>6, KindsOfNodes
  <2>2. t = [u EXCEPT ![EntryA] = HardLink(4)]
    BY <1>10
  <2> HIDE DEF u
  <2>3. HardLink(4) \in NodeType /\ HardLink(4).id = 4 /\ HardLink(4).kind = "file" /\ HardLink(4).links = 2
    BY KindsOfNodes
  <2> QED
    BY <2>1, <2>2, <2>3, SpotsAre, SpotsDiffer DEF TreeWell, TreeWhole
<1> QED
  BY <1>1, <1>7, <1>8, <1>9, <1>10

LEMMA NodesTyped == ASSUME tree \in [Spot -> NodeType] PROVE \A s \in Spot : NodeAt(s) \in {tree[s], Foreign, NoNode} /\ NodeAt(s) \in NodeType
BY NodesAre, KindsOfNodes, SpotsAre

\* Nobody has changed the base directory.
LEMMA WholeNodes ==
  ASSUME TreeWhole(tree)
  PROVE  /\ NodeAt(Skills).kind = "dir" /\ NodeAt(Sub).kind = "dir" /\ NodeAt(EntryA).kind = "file"
         /\ NodeAt(EntryB).kind = "file" /\ NodeAt(Config) = tree[Config]
BY NodesAre DEF TreeWhole

\* One file more.
LEMMA Adding ==
  ASSUME NEW files \in Seq(FileType), NEW f \in FileType
  PROVE  /\ Append(files, f) \in Seq(FileType) /\ Len(Append(files, f)) = Len(files) + 1
         /\ \A i \in 1..Len(files) : Append(files, f)[i] = files[i]
         /\ Append(files, f)[Len(files) + 1] = f
         /\ Rels(Append(files, f)) = Rels(files) \union {f.rel}
<1> DEFINE more == Append(files, f)
<1>1. /\ more \in Seq(FileType) /\ Len(more) = Len(files) + 1 /\ DOMAIN more = 1..(Len(files) + 1)
      /\ \A i \in 1..Len(files) : more[i] = files[i]
      /\ more[Len(files) + 1] = f /\ Len(files) \in Nat /\ DOMAIN files = 1..Len(files)
  OBVIOUS
<1> HIDE DEF more
<1>2. Rels(more) = Rels(files) \union {f.rel}
  <2>1. ASSUME NEW i \in DOMAIN more PROVE more[i].rel \in Rels(files) \union {f.rel}
    BY <1>1 DEF Rels
  <2>2. ASSUME NEW i \in DOMAIN files PROVE files[i].rel \in Rels(more)
    <3>1. i \in DOMAIN more /\ more[i] = files[i]
      BY <1>1
    <3> QED
      BY <3>1 DEF Rels
  <2>3. f.rel \in Rels(more)
    <3>1. Len(files) + 1 \in DOMAIN more
      BY <1>1
    <3> QED
      BY <1>1, <3>1 DEF Rels
  <2> QED
    BY <2>1, <2>2, <2>3 DEF Rels
<1> QED
  BY <1>1, <1>2 DEF more

LEMMA AddingEntry ==
  ASSUME NEW files \in Seq(FileType), NEW f \in FileType, f.rel # Config, f.rel \notin Rels(files), f.node.own,
         FilesWell(files), Len(files) <= Lead(files) + 1
  PROVE  LET more == Append(files, f)
         IN  /\ FilesWell(more) /\ Lead(more) = Lead(files)
             /\ Bytes(more) = Bytes(files) + f.node.size
             /\ Lead(files) \in {0, 1} /\ Len(files) >= Lead(files)
<1> DEFINE more == Append(files, f)
<1>1. /\ more \in Seq(FileType) /\ Len(more) = Len(files) + 1 /\ DOMAIN more = 1..(Len(files) + 1)
      /\ \A i \in 1..Len(files) : more[i] = files[i]
      /\ more[Len(files) + 1] = f /\ Len(files) \in Nat /\ DOMAIN files = 1..Len(files)
  BY Adding
<1> HIDE DEF more
<1>2. Lead(files) \in {0, 1} /\ Len(files) >= Lead(files) /\ Lead(more) = Lead(files)
  BY <1>1 DEF Lead
<1>3. FilesWell(more)
  <2>1. ASSUME NEW i \in DOMAIN more, i > Lead(more) PROVE more[i].rel # Config /\ more[i].node.own
    <3>1. CASE i \in 1..Len(files)
      <4>1. more[i] = files[i] /\ i \in DOMAIN files /\ i > Lead(files)
        BY <1>1, <1>2, <2>1, <3>1
      <4> QED
        BY <4>1, Zenon DEF FilesWell
    <3>2. CASE i \notin 1..Len(files)
      <4>1. i = Len(files) + 1
        BY <1>1, <3>2
      <4>2. more[i] = f
        BY <1>1, <4>1
      <4> QED
        BY <4>2, Zenon
    <3> QED
      BY <3>1, <3>2
  <2>2. ASSUME NEW i \in DOMAIN more, NEW j \in DOMAIN more, more[i].rel = more[j].rel PROVE i = j
    <3>1. \A k \in 1..Len(files) : files[k].rel # f.rel
      BY <1>1 DEF Rels
    <3> QED
      BY <1>1, <2>2, <3>1 DEF FilesWell
  <2> QED
    BY <2>1, <2>2 DEF FilesWell
<1>4. Bytes(more) = Bytes(files) + f.node.size
  <2>1. f.node.size \in Nat /\ \A i \in 1..Len(files) : files[i].node.size \in Nat
    <3>1. \A g \in FileType : g.node.size \in Nat
      BY DEF FileType, NodeType
    <3>2. \A i \in 1..Len(files) : files[i] \in FileType
      OBVIOUS
    <3> QED
      BY <3>1, <3>2
  <2>2. CASE Len(files) = Lead(files)
    <3>1. Len(more) = Lead(more) + 1 /\ more[Lead(more) + 1] = f
      BY <1>1, <1>2, <2>2
    <3>2. Bytes(more) = f.node.size /\ Bytes(files) = 0
      BY <1>2, <2>2, <3>1 DEF Bytes
    <3> QED
      BY <2>1, <3>2
  <2>3. CASE Len(files) = Lead(files) + 1
    <3>1. Len(more) = Lead(more) + 2 /\ more[Lead(more) + 2] = f /\ more[Lead(more) + 1] = files[Lead(files) + 1]
      <4>1. Lead(files) + 1 \in 1..Len(files) /\ Lead(files) + 2 = Len(files) + 1
        BY <1>1, <1>2, <2>3
      <4> QED
        BY <1>1, <1>2, <4>1
    <3>2. Bytes(more) = files[Lead(files) + 1].node.size + f.node.size /\ Bytes(files) = files[Lead(files) + 1].node.size
      BY <1>2, <2>3, <3>1 DEF Bytes
    <3> QED
      BY <3>2
  <2> QED
    BY <1>1, <1>2, <2>2, <2>3
<1> QED
  BY <1>2, <1>3, <1>4 DEF more

-----------------------------------------------------------------------------
LEMMA StepsAre ==
  /\ UnderWay \subseteq CopySteps /\ Walks \subseteq UnderWay /\ Looks \subseteq Walks
  /\ {"idle", "mkdir", "cleanup", "refused"} \cap UnderWay = {}
  /\ CopySteps = UnderWay \union {"idle", "mkdir", "cleanup", "refused"}
BY DEF UnderWay, Walks, Looks, CopySteps

LEMMA CopyingParts ==
  ASSUME NEW c \in CopyType
  PROVE  /\ c.step \in CopySteps /\ c.task \in Nat /\ c.spot \in {<<>>, EntryA, Sub, EntryB} /\ c.file \in NodeType
         /\ c.total \in [files : Nat, bytes : Nat, entries : Nat]
BY DEF CopyType

\* What another step of the same task leaves alone.
LEMMA GoesTo ==
  ASSUME copying \in CopyType, NEW goal \in CopySteps, Goes(goal)
  PROVE  /\ copying' \in CopyType /\ copying'.step = goal /\ copying'.task = copying.task
         /\ copying'.spot = copying.spot /\ copying'.file = copying.file /\ copying'.total = copying.total
BY DEF Goes, CopyType

LEMMA NoTotalsTyped == NoTotals \in [files : Nat, bytes : Nat, entries : Nat] /\ NoTotals.files = 0 /\ NoTotals.bytes = 0
BY DEF NoTotals

LEMMA NextTaskGoes ==
  ASSUME copying \in CopyType, NextTask
  PROVE  /\ copying' \in CopyType /\ copying'.task = copying.task + 1 /\ copying'.total = NoTotals
         /\ copying'.step = IF copying.task = Len(Tasks(definition)) THEN "ready" ELSE "task"
<1>1. copying' = [step |-> IF copying.task = Len(Tasks(definition)) THEN "ready" ELSE "task",
                  task |-> copying.task + 1, spot |-> <<>>, file |-> NoNode, total |-> NoTotals]
  BY DEF NextTask, NoCopying
<1>2. copying.task + 1 \in Nat /\ NoNode \in NodeType /\ {"ready", "task"} \subseteq CopySteps
  BY KindsOfNodes DEF CopyType, CopySteps
<1> QED
  BY <1>1, <1>2, NoTotalsTyped DEF CopyType

Held == CredsHeld /\ (Sharing(definition) => SharingHeld) /\ (definition = TwoRoots => TwoRootsHeld)

LEMMA Frame ==
  ASSUME HoldsInv, World, copying' \in CopyType, session' \in SessionType, walk' \in Seq(LevelType),
         copying.step \notin {"idle", "refused"}, copying'.step \notin {"idle", "mkdir"},
         copying'.step \in UnderWay => Held'
  PROVE  HoldsInv'
<1>1. TreeKnown' /\ ProfileKnown' /\ (changed \subseteq {"tree", "profile"})' /\ rewrites' \in Nat
  BY DEF HoldsInv, World, TreeKnown, ProfileKnown
<1>2. Sharing(definition') \/ definition' = TwoRoots
  BY DEF HoldsInv, World
<1> QED
  BY <1>1, <1>2 DEF HoldsInv, Held

LEMMA GiveUpHolds ==
  ASSUME HoldsInv, World, GiveUp, copying.step \notin {"idle", "refused"}
  PROVE  HoldsInv'
<1>1. copying' \in CopyType /\ copying'.step = "cleanup"
  <2>1. "cleanup" \in CopySteps
    BY DEF CopySteps
  <2> QED
    BY <2>1, GoesTo DEF GiveUp, HoldsInv
<1>2. session' \in SessionType /\ walk' \in Seq(LevelType)
  BY DEF GiveUp, HoldsInv
<1> QED
  BY <1>1, <1>2, Frame, StepsAre

\* What each task is.
LEMMA TaskIs ==
  ASSUME HoldsInv, copying.step \in UnderWay
  PROVE  /\ Sharing(definition) /\ copying.step # "ready" =>
              /\ Len(Tasks(definition)) = 5 /\ copying.task \in 1..5
              /\ copying.task = 1 => Task = TaskOf("root", 1, <<>>)
              /\ copying.task = 2 => Task = TaskOf("cred", 1, SrcAuth)
              /\ copying.task = 3 => Task = TaskOf("cred", 1, SrcKey)
              /\ copying.task = 4 => Task = TaskOf("share", 1, Config)
              /\ copying.task = 5 => Task = TaskOf("shareDir", 1, Limits)
         /\ definition = TwoRoots /\ copying.step # "ready" =>
              /\ Len(Tasks(definition)) = 4 /\ copying.task \in 1..4
              /\ copying.task = 1 => Task = TaskOf("root", 1, <<>>)
              /\ copying.task = 2 => Task = TaskOf("cred", 1, SrcAuth)
              /\ copying.task = 3 => Task = TaskOf("root", 2, <<>>)
              /\ copying.task = 4 => Task = TaskOf("cred", 2, SrcAway)
<1>1. ASSUME Sharing(definition), copying.step # "ready" PROVE Len(Tasks(definition)) = 5 /\ copying.task \in 1..5
  BY <1>1, SharingTasks DEF HoldsInv, SharingHeld, SharingAt
<1>2. ASSUME definition = TwoRoots, copying.step # "ready" PROVE Len(Tasks(definition)) = 4 /\ copying.task \in 1..4
  BY <1>2, TwoRootsTasks DEF HoldsInv, TwoRootsHeld, TwoRootsAt
<1>3. ASSUME Sharing(definition)
      PROVE  /\ copying.task = 1 => Task = TaskOf("root", 1, <<>>)
             /\ copying.task = 2 => Task = TaskOf("cred", 1, SrcAuth)
             /\ copying.task = 3 => Task = TaskOf("cred", 1, SrcKey)
             /\ copying.task = 4 => Task = TaskOf("share", 1, Config)
             /\ copying.task = 5 => Task = TaskOf("shareDir", 1, Limits)
  BY <1>3, SharingTasks DEF Task, Limits
<1>4. ASSUME definition = TwoRoots
      PROVE  /\ copying.task = 1 => Task = TaskOf("root", 1, <<>>)
             /\ copying.task = 2 => Task = TaskOf("cred", 1, SrcAuth)
             /\ copying.task = 3 => Task = TaskOf("root", 2, <<>>)
             /\ copying.task = 4 => Task = TaskOf("cred", 2, SrcAway)
  BY <1>4, TwoRootsTasks DEF Task
<1> QED
  BY <1>1, <1>2, <1>3, <1>4

LEMMA JobsAre == ASSUME NEW op, NEW root, NEW item PROVE TaskOf(op, root, item).op = op /\ TaskOf(op, root, item).root = root /\ TaskOf(op, root, item).item = item
BY DEF TaskOf

\* What changes of one part of a session leave alone.
LEMMA SessionParts ==
  ASSUME NEW s \in SessionType
  PROVE  /\ s.creds \in Seq(CredType) /\ s.files \in Seq(FileType)
         /\ \A creds \in Seq(CredType) : [s EXCEPT !.creds = creds] \in SessionType
                /\ [s EXCEPT !.creds = creds].creds = creds /\ [s EXCEPT !.creds = creds].files = s.files
         /\ \A files \in Seq(FileType) : [s EXCEPT !.files = files] \in SessionType
                /\ [s EXCEPT !.files = files].files = files /\ [s EXCEPT !.files = files].creds = s.creds
         /\ \A e \in {"none", "mine", "others", "lost", "stuck"} : [s EXCEPT !.exists = e] \in SessionType
                /\ [s EXCEPT !.exists = e].files = s.files /\ [s EXCEPT !.exists = e].creds = s.creds
         /\ \A r \in {1, 2} : [s EXCEPT !.roots = @ \union {r}] \in SessionType
                /\ [s EXCEPT !.roots = @ \union {r}].files = s.files /\ [s EXCEPT !.roots = @ \union {r}].creds = s.creds
BY DEF SessionType

-----------------------------------------------------------------------------
LEMMA HoldsInit == CopyInit => HoldsInv
<1> SUFFICES ASSUME CopyInit PROVE HoldsInv
  OBVIOUS
<1>1. TreeKnown
  BY TreesAre DEF CopyInit, TreeKnown, TreeWell
<1>2. ProfileKnown
  BY DEF CopyInit, ProfileKnown, Credential
<1>3. copying \in CopyType /\ copying.step = "idle" /\ copying.task = 1 /\ copying.total = NoTotals
  BY KindsOfNodes, NoTotalsTyped DEF CopyInit, NoCopying, CopyType, CopySteps
<1>4. session \in SessionType /\ session.creds = <<>> /\ session.files = <<>>
  <2>1. <<>> \in Seq(CredType) /\ <<>> \in Seq(FileType)
    OBVIOUS
  <2> QED
    <3>1. NoSession = [exists |-> "none", roots |-> {}, creds |-> <<>>, files |-> <<>>]
      BY DEF NoSession
    <3>2. NoSession \in SessionType /\ NoSession.creds = <<>> /\ NoSession.files = <<>>
      BY <2>1, <3>1 DEF SessionType
    <3>3. session = NoSession \/ session = [NoSession EXCEPT !.exists = "others"]
      BY DEF CopyInit
    <3> QED
      BY <3>2, <3>3, SessionParts
<1>5. walk = <<>> /\ walk \in Seq(LevelType) /\ changed = {} /\ rewrites = 0
  BY DEF CopyInit
<1> QED
  BY <1>1, <1>2, <1>3, <1>4, <1>5, StepsAre DEF HoldsInv, Blank

LEMMA PlanHolds == ASSUME HoldsInv, PlanSession PROVE HoldsInv'
<1>1. copying.step = "idle" /\ UNCHANGED <<credentials, tree, walk, session, rewrites, changed>>
  BY DEF PlanSession
<1>2. copying' \in CopyType /\ copying'.task = copying.task /\ copying'.total = copying.total
      /\ copying'.step = IF PlanRefuses(definition') THEN "refused" ELSE "mkdir"
  <2>1. {"refused", "mkdir"} \subseteq CopySteps
    BY DEF CopySteps
  <2> QED
    BY <2>1, GoesTo DEF PlanSession, HoldsInv
<1>3. TreeKnown' /\ ProfileKnown' /\ (changed \subseteq {"tree", "profile"})' /\ rewrites' \in Nat
      /\ session' \in SessionType /\ walk' \in Seq(LevelType)
  BY <1>1 DEF HoldsInv, TreeKnown, ProfileKnown
<1>4. Blank'
  BY <1>1, <1>2 DEF HoldsInv, Blank
<1>5. copying'.step = "mkdir" => Sharing(definition') \/ definition' = TwoRoots
  BY <1>2, WrongRefused, SharingPlain, SharingTight DEF PlanSession
<1>6. copying'.step \in {"refused", "mkdir"}
  BY <1>2
<1> QED
  BY <1>2, <1>3, <1>4, <1>5, <1>6, StepsAre DEF HoldsInv

\* A task that has just begun and has copied nothing yet.
LEMMA MakeSessionHolds == ASSUME HoldsInv, MakeSession PROVE HoldsInv'
<1>1. copying.step = "mkdir" /\ World /\ walk' = walk /\ Blank
  BY DEF MakeSession, HoldsInv
<1>2. CASE session.exists # "none"
  <2>1. copying' \in CopyType /\ copying'.step = "refused"
    <3>1. "refused" \in CopySteps
      BY DEF CopySteps
    <3> QED
      BY <1>2, <3>1, GoesTo DEF MakeSession, HoldsInv
  <2> QED
    BY <1>1, <1>2, <2>1, Frame, StepsAre DEF MakeSession, HoldsInv
<1>3. CASE session.exists = "none"
  <2>1. copying' \in CopyType /\ copying'.step = "task" /\ copying'.task = 1 /\ copying'.total = NoTotals
    <3>1. "task" \in CopySteps
      BY DEF CopySteps
    <3> QED
      BY <1>1, <1>3, <3>1, GoesTo DEF MakeSession, HoldsInv, Blank
  <2>2. session' \in SessionType /\ session'.creds = <<>> /\ session'.files = <<>>
    BY <1>1, <1>3 DEF MakeSession, HoldsInv, SessionType, Blank
  <2>3. "task" \notin Walks /\ "task" \notin Looks /\ "task" \in UnderWay
    BY DEF Walks, Looks, UnderWay
  <2>4. Len(<<>>) = 0 /\ DOMAIN <<>> = {}
    OBVIOUS
  <2>5. CredsHeld'
    BY <2>2, <2>4 DEF CredsHeld
  <2>6. SharingAt'
    BY <1>1, <2>1, <2>2, <2>3, <2>4 DEF SharingAt, Blank
  <2>7. Lead(<<>>) = 0 /\ Bytes(<<>>) = 0 /\ Rels(<<>>) = {} /\ FilesWell(<<>>)
    BY <2>4 DEF Lead, Bytes, Rels, FilesWell
  <2>8. Sharing(definition) => FilesHeld'
    <3>1. ASSUME Sharing(definition) PROVE Limits.maxFiles \in Nat /\ Limits.maxBytes \in Nat
      BY <3>1 DEF Sharing, Limits
    <3>2. Limits' = Limits
      BY <1>1 DEF World, Limits
    <3> QED
      BY <2>1, <2>2, <2>3, <2>4, <2>7, <3>1, <3>2 DEF FilesHeld
  <2>9. WalkHeld' /\ FileHeld'
    BY <2>1, <2>3 DEF WalkHeld, FileHeld
  <2>10. NoneForgotten'
    BY <2>1, <2>2, <2>3, <2>7 DEF NoneForgotten
  <2>11. TwoRootsHeld'
    BY <1>1, <2>1, <2>2, <2>4 DEF TwoRootsHeld, TwoRootsAt, Blank
  <2>12. Held'
    BY <1>1, <2>5, <2>6, <2>8, <2>9, <2>10, <2>11 DEF Held, SharingHeld, World
  <2> QED
    BY <1>1, <2>1, <2>2, <2>12, Frame DEF HoldsInv
<1> QED
  BY <1>2, <1>3

LEMMA SharingNotTwo == ~Sharing(TwoRoots)
<1>1. DOMAIN TwoRoots.roots = {1, 2}
  BY PlansAre
<1> QED
  BY <1>1 DEF Sharing

LEMMA NoFiles == Len(<<>>) = 0 /\ Lead(<<>>) = 0 /\ Bytes(<<>>) = 0 /\ Rels(<<>>) = {} /\ FilesWell(<<>>)
<1>1. Len(<<>>) = 0 /\ DOMAIN <<>> = {}
  OBVIOUS
<1> QED
  BY <1>1 DEF Lead, Bytes, Rels, FilesWell

LEMMA LimitsAre ==
  ASSUME Sharing(definition)
  PROVE  /\ Limits.maxFiles \in {1, 2} /\ Limits.maxBytes = 3 /\ Limits.rel = Skills
BY DEF Sharing, Limits

\* The next task of a session that shares.
LEMMA NextSharing ==
  ASSUME HoldsInv, World, Sharing(definition), copying.step \in {"task", "share"}, copying.task \in 1..4, NextTask,
         UNCHANGED walk, session' \in SessionType,
         FilesWell(session'.files), Len(session'.files) = Lead(session'.files),
         copying.task <= 3 => session'.files = <<>>,
         copying.task = 4 /\ "tree" \notin changed => (Config \in Rels(session'.files) <=> tree[Config].kind = "file"),
         Sub \notin Rels(session'.files),
         Len(session'.creds) = IF copying.task + 1 <= 2 THEN 0 ELSE IF copying.task + 1 = 3 THEN 1 ELSE 2,
         \A i \in DOMAIN session'.creds : session'.creds[i].root = 1
  PROVE  SharingHeld' /\ (definition = TwoRoots => TwoRootsHeld') /\ copying' \in CopyType /\ copying'.step = "task"
<1>1. SharingHeld /\ copying.step \in UnderWay /\ copying \in CopyType /\ copying.step # "ready"
  BY DEF HoldsInv, UnderWay
<1>2. /\ copying' \in CopyType /\ copying'.task = copying.task + 1 /\ copying'.total = NoTotals
      /\ copying'.step = "task"
  <2>1. Len(Tasks(definition)) = 5
    BY <1>1, TaskIs
  <2>2. /\ copying' \in CopyType /\ copying'.task = copying.task + 1 /\ copying'.total = NoTotals
        /\ copying'.step = IF copying.task = Len(Tasks(definition)) THEN "ready" ELSE "task"
    BY <1>1, NextTaskGoes
  <2>3. copying.task # 5
    OBVIOUS
  <2> QED
    BY <2>1, <2>2, <2>3
<1>3. "task" \notin Walks /\ "task" \notin Looks /\ copying.step \notin Walks
  BY DEF Walks, Looks
<1>4. SharingAt'
  BY <1>1, <1>2, <1>3 DEF SharingHeld, SharingAt
<1>5. FilesHeld'
  <2>1. Limits' = Limits /\ Limits.maxFiles \in {1, 2} /\ Limits.maxBytes = 3
    BY LimitsAre DEF World, Limits
  <2>2. Lead(session'.files) \in {0, 1} /\ Bytes(session'.files) = 0
    BY DEF Lead, Bytes
  <2>3. copying'.task <= 4 => session'.files = <<>>
    BY <1>2
  <2> QED
    BY <1>2, <1>3, <2>1, <2>2, <2>3 DEF FilesHeld
<1>6. WalkHeld' /\ FileHeld'
  BY <1>2, <1>3 DEF WalkHeld, FileHeld
<1>7. NoneForgotten'
  BY <1>2, <1>3 DEF NoneForgotten, World
<1>8. definition # TwoRoots
  BY SharingNotTwo
<1> QED
  BY <1>2, <1>4, <1>5, <1>6, <1>7, <1>8 DEF SharingHeld

\* The next task of a session with two roots.
LEMMA NextTwoRoots ==
  ASSUME HoldsInv, World, definition = TwoRoots, copying.step = "task", NextTask,
         UNCHANGED walk, session' \in SessionType, session'.files = <<>>,
         Len(session'.creds) = IF copying.task + 1 <= 2 THEN 0 ELSE IF copying.task + 1 <= 4 THEN 1 ELSE 2,
         \A i \in DOMAIN session'.creds : session'.creds[i].root = i
  PROVE  TwoRootsHeld' /\ (Sharing(definition) => SharingHeld') /\ copying' \in CopyType /\ copying'.step \in {"task", "ready"}
<1>1. TwoRootsHeld /\ copying.step \in UnderWay /\ copying \in CopyType /\ copying.step # "ready"
  BY DEF HoldsInv, UnderWay
<1>2. /\ copying' \in CopyType /\ copying'.task = copying.task + 1 /\ copying'.total = NoTotals
      /\ copying'.step = IF copying.task = 4 THEN "ready" ELSE "task"
      /\ copying.task \in 1..4
  BY <1>1, NextTaskGoes, TaskIs
<1>3. TwoRootsHeld'
  BY <1>1, <1>2 DEF TwoRootsHeld, TwoRootsAt
<1> QED
  BY <1>2, <1>3, SharingNotTwo

LEMMA MakeRootHolds == ASSUME HoldsInv, MakeRoot PROVE HoldsInv'
<1>1. copying.step = "task" /\ Task.op = "root" /\ NextTask /\ World /\ walk' = walk
      /\ session' = [session EXCEPT !.roots = @ \union {Task.root}]
  BY DEF MakeRoot
<1>2. "task" \in UnderWay /\ "ready" \in UnderWay /\ "task" # "ready" /\ walk \in Seq(LevelType) /\ session \in SessionType
  BY DEF UnderWay, HoldsInv
<1>3. Sharing(definition) \/ definition = TwoRoots
  BY <1>1 DEF HoldsInv
<1>4. Task.root \in {1, 2} /\ (Sharing(definition) => copying.task = 1) /\ (definition = TwoRoots => copying.task \in {1, 3})
  <2>1. CASE Sharing(definition)
    BY <1>1, <1>2, <2>1, TaskIs, JobsAre, SharingNotTwo
  <2>2. CASE definition = TwoRoots
    BY <1>1, <1>2, <2>2, TaskIs, JobsAre, SharingNotTwo
  <2> QED
    BY <1>3, <2>1, <2>2
<1>5. session' \in SessionType /\ session'.files = session.files /\ session'.creds = session.creds
  BY <1>1, <1>2, <1>4, SessionParts
<1>6. CredsHeld'
  BY <1>1, <1>2, <1>5 DEF HoldsInv, CredsHeld, World
<1>7. CASE Sharing(definition)
  <2>1. SharingHeld /\ session.files = <<>> /\ copying.task = 1 /\ Len(session.creds) = 0
    BY <1>1, <1>2, <1>4, <1>7 DEF HoldsInv, SharingHeld, FilesHeld, SharingAt
  <2>2. \A i \in DOMAIN session'.creds : session'.creds[i].root = 1
    BY <1>5, <2>1 DEF SharingHeld, SharingAt
  <2>3. SharingHeld' /\ (definition = TwoRoots => TwoRootsHeld') /\ copying' \in CopyType /\ copying'.step = "task"
    BY <1>1, <1>5, <1>7, <2>1, <2>2, NoFiles, NextSharing
  <2> QED
    BY <1>1, <1>2, <1>5, <1>6, <2>3, Frame DEF Held, World
<1>8. CASE definition = TwoRoots
  <2>1. TwoRootsHeld /\ session.files = <<>> /\ copying.task \in {1, 3}
    BY <1>1, <1>2, <1>4, <1>8 DEF HoldsInv, TwoRootsHeld, TwoRootsAt
  <2>2. /\ \A i \in DOMAIN session'.creds : session'.creds[i].root = i
        /\ Len(session'.creds) = IF copying.task + 1 <= 2 THEN 0 ELSE IF copying.task + 1 <= 4 THEN 1 ELSE 2
    BY <1>5, <2>1 DEF TwoRootsHeld, TwoRootsAt
  <2>3. TwoRootsHeld' /\ (Sharing(definition) => SharingHeld') /\ copying' \in CopyType /\ copying'.step \in {"task", "ready"}
    BY <1>1, <1>5, <1>8, <2>1, <2>2, NextTwoRoots
  <2> QED
    BY <1>1, <1>2, <1>5, <1>6, <2>3, Frame DEF Held, World
<1> QED
  BY <1>3, <1>7, <1>8

\* One credential more.
LEMMA AddingCred ==
  ASSUME NEW creds \in Seq(CredType), NEW c \in CredType
  PROVE  /\ Append(creds, c) \in Seq(CredType) /\ Len(Append(creds, c)) = Len(creds) + 1
         /\ DOMAIN Append(creds, c) = 1..(Len(creds) + 1)
         /\ \A i \in 1..Len(creds) : Append(creds, c)[i] = creds[i]
         /\ Append(creds, c)[Len(creds) + 1] = c
OBVIOUS

LEMMA CopyCredHolds == ASSUME HoldsInv, CopyCred, ~GiveUp PROVE HoldsInv'
<1> DEFINE value == credentials[Task.item.saveAs]
           c == [root |-> Task.root, rel |-> <<Last(Task.item.path)>>, saveAs |-> Task.item.saveAs, value |-> value]
<1>1. copying.step = "task" /\ Task.op = "cred" /\ World /\ value # 0 /\ NextTask /\ walk' = walk
      /\ session' = [session EXCEPT !.creds = Append(@, c)]
  BY DEF CopyCred
<1>2. "task" \in UnderWay /\ "ready" \in UnderWay /\ "task" # "ready" /\ walk \in Seq(LevelType) /\ session \in SessionType
  BY DEF UnderWay, HoldsInv
<1>3. Sharing(definition) \/ definition = TwoRoots
  BY <1>1 DEF HoldsInv
<1>4. /\ Sharing(definition) => \/ copying.task = 2 /\ Task = TaskOf("cred", 1, SrcAuth)
                                \/ copying.task = 3 /\ Task = TaskOf("cred", 1, SrcKey)
      /\ definition = TwoRoots => \/ copying.task = 2 /\ Task = TaskOf("cred", 1, SrcAuth)
                                  \/ copying.task = 4 /\ Task = TaskOf("cred", 2, SrcAway)
  <2>1. CASE Sharing(definition)
    BY <1>1, <1>2, <2>1, TaskIs, JobsAre, SharingNotTwo
  <2>2. CASE definition = TwoRoots
    BY <1>1, <1>2, <2>2, TaskIs, JobsAre, SharingNotTwo
  <2> QED
    BY <1>3, <2>1, <2>2
<1>5. \E s \in {SrcAuth, SrcKey, SrcAway}, r \in {1, 2} : Task = TaskOf("cred", r, s)
  BY <1>3, <1>4
<1>6. /\ Task.item \in {SrcAuth, SrcKey, SrcAway} /\ Task.root \in {1, 2}
      /\ Task = TaskOf("cred", Task.root, Task.item)
  BY <1>5, JobsAre
<1>7. /\ Task.item = SrcAuth => c.rel = <<"auth">> /\ c.saveAs = "auth"
      /\ Task.item # SrcAuth => c.rel = <<"key">> /\ c.saveAs = "key"
      /\ c.root = Task.root /\ c.value = value
  BY <1>6, SrcsAre, PathsCut
<1>8. c.saveAs \in Credential /\ value \in Nat /\ ("profile" \notin changed => value = 1)
  <2>1. Task.item.saveAs \in Credential
    BY <1>6, SrcsAre DEF Credential
  <2> QED
    BY <1>1, <2>1 DEF HoldsInv, ProfileKnown
<1>9. c \in CredType
  BY <1>6, <1>7, <1>8 DEF CredType
<1> HIDE DEF c
<1>10. /\ session' \in SessionType /\ session'.files = session.files /\ session'.creds = Append(session.creds, c)
       /\ session.creds \in Seq(CredType)
  <2>1. session.creds \in Seq(CredType)
    BY <1>2, SessionParts
  <2>2. Append(session.creds, c) \in Seq(CredType)
    BY <1>9, <2>1, AddingCred
  <2> QED
    BY <1>1, <1>2, <2>1, <2>2, SessionParts
<1>11. /\ Len(session'.creds) = Len(session.creds) + 1 /\ DOMAIN session'.creds = 1..(Len(session.creds) + 1)
       /\ \A i \in 1..Len(session.creds) : session'.creds[i] = session.creds[i]
       /\ session'.creds[Len(session.creds) + 1] = c /\ Len(session.creds) \in Nat
       /\ DOMAIN session.creds = 1..Len(session.creds)
  BY <1>9, <1>10, AddingCred
<1>12. /\ Len(session.creds) = 0 => Task.item = SrcAuth
       /\ Len(session.creds) = 1 => Task.item # SrcAuth
       /\ Len(session.creds) \in {0, 1}
       /\ Sharing(definition) => Task.root = 1 /\ copying.task = Len(session.creds) + 2
       /\ definition = TwoRoots => /\ Task.root = Len(session.creds) + 1
                                   /\ copying.task = 2 * Len(session.creds) + 2
  <2>1. SrcAuth # SrcKey /\ SrcAuth # SrcAway
    BY SrcsAre
  <2>2. CASE Sharing(definition)
    <3>1. Len(session.creds) = IF copying.task <= 2 THEN 0 ELSE IF copying.task = 3 THEN 1 ELSE 2
      BY <1>1, <1>2, <2>2 DEF HoldsInv, SharingHeld, SharingAt
    <3> QED
      BY <1>4, <2>1, <2>2, <3>1, JobsAre, SharingNotTwo
  <2>3. CASE definition = TwoRoots
    <3>1. Len(session.creds) = IF copying.task <= 2 THEN 0 ELSE IF copying.task <= 4 THEN 1 ELSE 2
      BY <1>1, <1>2, <2>3 DEF HoldsInv, TwoRootsHeld, TwoRootsAt
    <3> QED
      BY <1>4, <2>1, <2>3, <3>1, JobsAre, SharingNotTwo
  <2> QED
    BY <1>3, <2>2, <2>3
<1>13. CredsHeld'
  <2>1. CredsHeld /\ changed' = changed
    BY <1>1, <1>2 DEF HoldsInv, World
  <2>2. Len(session.creds) = 0 => session'.creds[1] = c
    BY <1>11
  <2>3. Len(session.creds) = 1 => session'.creds[1] = session.creds[1] /\ session'.creds[2] = c
    BY <1>11
  <2>4. /\ session'.creds[1].rel = <<"auth">> /\ session'.creds[1].saveAs = "auth"
        /\ Len(session'.creds) >= 2 => session'.creds[2].rel = <<"key">> /\ session'.creds[2].saveAs = "key"
    BY <1>7, <1>11, <1>12, <2>1, <2>2, <2>3 DEF CredsHeld
  <2>5. ASSUME "profile" \notin changed, NEW i \in DOMAIN session'.creds PROVE session'.creds[i].value = 1
    <3>1. i \in 1..Len(session.creds) \/ i = Len(session.creds) + 1
      BY <1>11
    <3> QED
      BY <1>7, <1>8, <1>11, <2>1, <2>5, <3>1 DEF CredsHeld
  <2> QED
    BY <2>1, <2>4, <2>5 DEF CredsHeld
<1>14. CASE Sharing(definition)
  <2>1. SharingHeld /\ session.files = <<>> /\ copying.task \in {2, 3}
    <3>1. SharingHeld
      BY <1>1, <1>2, <1>14 DEF HoldsInv
    <3>2. copying.task \in {2, 3}
      BY <1>4, <1>14
    <3> QED
      BY <3>1, <3>2 DEF SharingHeld, FilesHeld
  <2>2. ASSUME NEW i \in DOMAIN session'.creds PROVE session'.creds[i].root = 1
    <3>1. i \in 1..Len(session.creds) \/ i = Len(session.creds) + 1
      BY <1>11
    <3>2. \A j \in DOMAIN session.creds : session.creds[j].root = 1
      BY <2>1 DEF SharingHeld, SharingAt
    <3> QED
      BY <1>7, <1>11, <1>12, <1>14, <3>1, <3>2
  <2>3. Len(session'.creds) = IF copying.task + 1 <= 2 THEN 0 ELSE IF copying.task + 1 = 3 THEN 1 ELSE 2
    BY <1>11, <1>12, <1>14, <2>1
  <2>4. SharingHeld' /\ (definition = TwoRoots => TwoRootsHeld') /\ copying' \in CopyType /\ copying'.step = "task"
    BY <1>1, <1>10, <1>14, <2>1, <2>2, <2>3, NoFiles, NextSharing
  <2> QED
    BY <1>1, <1>2, <1>10, <1>13, <2>4, Frame DEF Held, World
<1>15. CASE definition = TwoRoots
  <2>1. TwoRootsHeld /\ session.files = <<>> /\ copying.task \in {2, 4}
    BY <1>1, <1>2, <1>12, <1>15 DEF HoldsInv, TwoRootsHeld, TwoRootsAt
  <2>2. ASSUME NEW i \in DOMAIN session'.creds PROVE session'.creds[i].root = i
    <3>1. i \in 1..Len(session.creds) \/ i = Len(session.creds) + 1
      BY <1>11
    <3>2. \A j \in DOMAIN session.creds : session.creds[j].root = j
      BY <2>1 DEF TwoRootsHeld
    <3> QED
      BY <1>7, <1>11, <1>12, <1>15, <3>1, <3>2
  <2>3. Len(session'.creds) = IF copying.task + 1 <= 2 THEN 0 ELSE IF copying.task + 1 <= 4 THEN 1 ELSE 2
    BY <1>11, <1>12, <1>15, <2>1
  <2>4. TwoRootsHeld' /\ (Sharing(definition) => SharingHeld') /\ copying' \in CopyType /\ copying'.step \in {"task", "ready"}
    BY <1>1, <1>10, <1>15, <2>1, <2>2, <2>3, NextTwoRoots
  <2> QED
    BY <1>1, <1>2, <1>10, <1>13, <2>4, Frame DEF Held, World
<1> QED
  BY <1>3, <1>14, <1>15

\* Only a session that shares is at these steps.
LEMMA SharingOnly ==
  ASSUME HoldsInv, copying.step \in UnderWay,
         copying.step \in Walks \union {"share"} \/ (copying.step = "task" /\ Task.op \in {"share", "shareDir"})
  PROVE  /\ Sharing(definition) /\ SharingHeld /\ CredsHeld /\ Len(Tasks(definition)) = 5
         /\ copying.step \in Walks => copying.task = 5 /\ Task.item = Limits
         /\ copying.step = "share" \/ (copying.step = "task" /\ Task.op = "share") => copying.task = 4 /\ Task.item = Config
         /\ copying.step = "task" /\ Task.op = "shareDir" => copying.task = 5 /\ Task.item = Limits
         /\ Task.root = 1
<1>1. copying.step # "ready" /\ copying.step \notin {"idle", "refused"} /\ "task" \notin Walks /\ "share" \notin Walks
  BY DEF Walks, Looks
<1>2. Sharing(definition)
  <2>1. CASE definition = TwoRoots
    <3>1. TwoRootsHeld
      BY <2>1 DEF HoldsInv
    <3>2. copying.step = "task"
      BY <3>1, <1>1 DEF TwoRootsHeld, TwoRootsAt
    <3>3. Task.op \in {"root", "cred"}
      BY <1>1, <2>1, TaskIs, JobsAre
    <3> QED
      BY <1>1, <3>2, <3>3
  <2> QED
    BY <1>1, <2>1 DEF HoldsInv
<1>3. SharingHeld /\ CredsHeld
  BY <1>2 DEF HoldsInv
<1>4. /\ Len(Tasks(definition)) = 5 /\ copying.task \in 1..5
      /\ copying.task = 1 => Task.op = "root" /\ Task.root = 1
      /\ copying.task \in {2, 3} => Task.op = "cred" /\ Task.root = 1
      /\ copying.task = 4 => Task.op = "share" /\ Task.root = 1 /\ Task.item = Config
      /\ copying.task = 5 => Task.op = "shareDir" /\ Task.root = 1 /\ Task.item = Limits
  BY <1>1, <1>2, TaskIs, JobsAre
<1>5. (copying.step = "share" => copying.task = 4) /\ (copying.step \in Walks => copying.task = 5)
  BY <1>3 DEF SharingHeld, SharingAt
<1>6. copying.task \in {1, 2, 3, 4, 5}
  BY <1>4
<1> QED
  BY <1>1, <1>2, <1>3, <1>4, <1>5, <1>6

LEMMA CredsStay ==
  ASSUME CredsHeld, changed' = changed, session'.creds = session.creds
  PROVE  CredsHeld'
BY DEF CredsHeld

LEMMA LookShareHolds == ASSUME HoldsInv, LookShare, ~GiveUp PROVE HoldsInv'
<1>1. copying.step = "task" /\ Task.op = "share" /\ World /\ UNCHANGED <<walk, session>>
      /\ \/ NodeAt(Task.item).kind = "none" /\ NextTask
         \/ Goes("share")
  BY DEF LookShare
<1>2. "task" \in UnderWay /\ "share" \in UnderWay /\ "task" \notin Walks /\ "share" \notin Walks /\ "share" \in CopySteps
  BY DEF UnderWay, Walks, Looks, CopySteps
<1>3. /\ Sharing(definition) /\ SharingHeld /\ CredsHeld /\ copying.task = 4 /\ Task.item = Config
  BY <1>1, <1>2, SharingOnly
<1>4. /\ copying \in CopyType /\ session \in SessionType /\ walk \in Seq(LevelType) /\ session' \in SessionType
      /\ walk' \in Seq(LevelType) /\ CredsHeld'
  BY <1>1, <1>3, CredsStay DEF HoldsInv, World
<1>5. session.files = <<>> /\ Len(session.creds) = 2 /\ \A i \in DOMAIN session.creds : session.creds[i].root = 1
  BY <1>3 DEF SharingHeld, FilesHeld, SharingAt
<1>6. CASE NodeAt(Task.item).kind = "none" /\ NextTask
  <2>1. tree[Config].kind = "none"
    BY <1>3, <1>6, NodesAre
  <2>2. SharingHeld' /\ (definition = TwoRoots => TwoRootsHeld') /\ copying' \in CopyType /\ copying'.step = "task"
    BY <1>1, <1>3, <1>4, <1>5, <1>6, <2>1, NoFiles, NextSharing
  <2> QED
    BY <1>1, <1>2, <1>4, <2>2, Frame DEF Held, World
<1>7. CASE Goes("share")
  <2>1. /\ copying' \in CopyType /\ copying'.step = "share" /\ copying'.task = 4 /\ copying'.total = copying.total
    BY <1>2, <1>3, <1>4, <1>7, GoesTo
  <2>2. SharingAt'
    BY <1>1, <1>2, <1>3, <2>1 DEF SharingHeld, SharingAt
  <2>3. FilesHeld'
    <3>1. Limits' = Limits
      BY <1>1 DEF World, Limits
    <3> QED
      BY <1>1, <1>2, <1>3, <2>1, <3>1 DEF SharingHeld, FilesHeld
  <2>4. WalkHeld' /\ FileHeld'
    BY <1>2, <2>1 DEF WalkHeld, FileHeld
  <2>5. NoneForgotten'
    <3>1. "share" \notin Looks
      BY DEF Looks
    <3> QED
      BY <1>1, <1>2, <1>5, <2>1, <3>1, NoFiles DEF NoneForgotten
  <2>6. Held'
    BY <1>1, <1>3, <1>4, <2>2, <2>3, <2>4, <2>5, SharingNotTwo DEF Held, SharingHeld, World
  <2> QED
    BY <1>1, <1>2, <1>4, <2>1, <2>6, Frame
<1> QED
  BY <1>1, <1>6, <1>7

LEMMA CopyShareHolds == ASSUME HoldsInv, CopyShare, ~GiveUp PROVE HoldsInv'
<1> DEFINE f == [root |-> Task.root, rel |-> Task.item, node |-> NodeAt(Task.item)]
<1>1. copying.step = "share" /\ World /\ walk' = walk /\ NodeAt(Task.item).kind = "file" /\ NextTask
      /\ session' = [session EXCEPT !.files = Append(@, f)]
  BY DEF CopyShare, Copied
<1>2. "task" \in UnderWay /\ "share" \in UnderWay /\ "task" \notin Walks /\ "share" \notin Walks
  BY DEF UnderWay, Walks, Looks
<1>3. /\ Sharing(definition) /\ SharingHeld /\ CredsHeld /\ copying.task = 4 /\ Task.item = Config /\ Task.root = 1
  <2>1. copying.step \in UnderWay /\ copying.step \in Walks \union {"share"}
    BY <1>1, <1>2
  <2> QED
    BY <1>1, <2>1, SharingOnly
<1>4. /\ copying \in CopyType /\ session \in SessionType /\ walk' \in Seq(LevelType) /\ tree \in [Spot -> NodeType]
  BY <1>1, <1>3 DEF HoldsInv, TreeKnown
<1>5. session.files = <<>> /\ Len(session.creds) = 2 /\ \A i \in DOMAIN session.creds : session.creds[i].root = 1
  BY <1>3 DEF SharingHeld, FilesHeld, SharingAt
<1>6. NodeAt(Config) = tree[Config] /\ NodeAt(Config) \in NodeType
  BY <1>4, NodesAre, NodesTyped, SpotsAre
<1>7. f \in FileType /\ f.rel = Config
  BY <1>3, <1>6 DEF FileType
<1>8. tree[Config].kind = "file"
  BY <1>1, <1>3, <1>6
<1> HIDE DEF f
<1>9. <<>> \in Seq(FileType) /\ Len(<<>>) = 0
  OBVIOUS
<1>10. /\ session' \in SessionType /\ session'.creds = session.creds
       /\ session'.files = Append(<<>>, f) /\ Append(<<>>, f) \in Seq(FileType)
  <2>1. Append(<<>>, f) \in Seq(FileType)
    BY <1>7, <1>9, Adding
  <2> QED
    <3>1. session' = [session EXCEPT !.files = Append(session.files, f)]
      BY <1>1
    <3>2. session' = [session EXCEPT !.files = Append(<<>>, f)]
      BY <1>5, <3>1, Zenon
    <3> QED
      BY <1>4, <2>1, <3>2, SessionParts
<1>11. /\ Len(Append(<<>>, f)) = 1 /\ Append(<<>>, f)[1] = f /\ Rels(Append(<<>>, f)) = {Config}
       /\ DOMAIN Append(<<>>, f) = {1}
  <2>1. /\ Len(Append(<<>>, f)) = 0 + 1 /\ Append(<<>>, f)[0 + 1] = f
        /\ Rels(Append(<<>>, f)) = Rels(<<>>) \union {f.rel}
    BY <1>7, <1>9, Adding
  <2> QED
    BY <1>7, <1>10, <2>1, NoFiles
<1>12. /\ FilesWell(session'.files) /\ Len(session'.files) = Lead(session'.files)
       /\ Rels(session'.files) = {Config}
  BY <1>7, <1>10, <1>11 DEF FilesWell, Lead
<1>13. SharingHeld' /\ (definition = TwoRoots => TwoRootsHeld') /\ copying' \in CopyType /\ copying'.step = "task"
  BY <1>1, <1>3, <1>5, <1>8, <1>10, <1>12, SpotsDiffer, NextSharing
<1>14. CredsHeld'
  BY <1>1, <1>3, <1>10, CredsStay DEF World
<1> QED
  BY <1>1, <1>2, <1>4, <1>10, <1>13, <1>14, Frame DEF Held, World

\* The copy of the directory is over.
LEMMA ReadyHolds ==
  ASSUME HoldsInv, World, Sharing(definition), SharingHeld, CredsHeld, copying.step \in UnderWay,
         copying.task = 5, copying.step # "ready", NextTask,
         session' = session, walk' = <<>>,
         "tree" \notin changed => {EntryA, EntryB} \subseteq Rels(session.files)
  PROVE  HoldsInv'
<1>1. /\ copying' \in CopyType /\ copying'.task = 6 /\ copying'.total = NoTotals /\ copying'.step = "ready"
  BY NextTaskGoes, TaskIs DEF HoldsInv
<1>2. "ready" \in UnderWay /\ "ready" \notin Walks /\ "ready" \notin Looks
  BY DEF UnderWay, Walks, Looks
<1>3. session' \in SessionType /\ walk' \in Seq(LevelType) /\ CredsHeld'
  BY CredsStay DEF HoldsInv, World
<1>4. SharingAt'
  BY <1>1, <1>2 DEF SharingHeld, SharingAt
<1>5. FilesHeld'
  <2>1. Limits' = Limits
    BY DEF World, Limits
  <2> QED
    BY <1>1, <1>2, <2>1 DEF SharingHeld, FilesHeld
<1>6. WalkHeld' /\ FileHeld'
  BY <1>1, <1>2 DEF WalkHeld, FileHeld
<1>7. NoneForgotten'
  BY <1>1, <1>2 DEF SharingHeld, NoneForgotten, World
<1>8. Held'
  BY <1>3, <1>4, <1>5, <1>6, <1>7, SharingNotTwo DEF Held, SharingHeld, World
<1> QED
  BY <1>1, <1>2, <1>3, <1>8, StepsAre, Frame DEF UnderWay

\* The first directory.
LEMMA Descending ==
  ASSUME NEW levels \in Seq(LevelType), NEW level \in LevelType
  PROVE  /\ Append(levels, level) \in Seq(LevelType) /\ Len(Append(levels, level)) = Len(levels) + 1
         /\ DOMAIN Append(levels, level) = 1..(Len(levels) + 1)
         /\ \A i \in 1..Len(levels) : Append(levels, level)[i] = levels[i]
         /\ Append(levels, level)[Len(levels) + 1] = level
OBVIOUS

LEMMA LookShareDirHolds == ASSUME HoldsInv, LookShareDir, ~GiveUp PROVE HoldsInv'
<1> DEFINE node == NodeAt(Task.item.rel)
           level == [dir |-> Skills, id |-> node.id, left |-> {}]
<1>1. copying.step = "task" /\ Task.op = "shareDir" /\ World /\ session' = session
      /\ \/ node.kind = "none" /\ NextTask /\ walk' = walk
         \/ node.kind = "dir" /\ Goes("list") /\ Descend(Task.item.rel, node.id)
  BY DEF LookShareDir
<1>2. "task" \in UnderWay /\ "list" \in UnderWay /\ "task" \notin Walks /\ "list" \in Walks /\ "list" \in CopySteps
      /\ "list" \notin Looks
  BY DEF UnderWay, Walks, Looks, CopySteps
<1>3. /\ Sharing(definition) /\ SharingHeld /\ CredsHeld /\ copying.task = 5 /\ Task.item = Limits
      /\ Limits.rel = Skills
  BY <1>1, <1>2, SharingOnly, LimitsAre
<1>4. /\ copying \in CopyType /\ session \in SessionType /\ walk \in Seq(LevelType) /\ tree \in [Spot -> NodeType]
      /\ session' \in SessionType /\ CredsHeld'
  BY <1>1, <1>3, CredsStay DEF HoldsInv, TreeKnown, World
<1>5. node = NodeAt(Skills) /\ node \in NodeType
  BY <1>3, <1>4, NodesTyped, SpotsAre
<1>6. walk = <<>> /\ Len(session.files) = Lead(session.files) /\ copying.total = NoTotals
  BY <1>1, <1>2, <1>3 DEF SharingHeld, SharingAt, FilesHeld
<1>7. CASE node.kind = "none" /\ NextTask /\ walk' = walk
  <2>1. "tree" \in changed
    BY <1>5, <1>7, TreesAre, WholeNodes DEF HoldsInv, TreeKnown
  <2> QED
    BY <1>1, <1>2, <1>3, <1>6, <1>7, <2>1, ReadyHolds
<1>8. CASE node.kind = "dir" /\ Goes("list") /\ Descend(Task.item.rel, node.id)
  <2>1. /\ copying' \in CopyType /\ copying'.step = "list" /\ copying'.task = 5 /\ copying'.total = NoTotals
    BY <1>2, <1>3, <1>4, <1>6, <1>8, GoesTo
  <2>2. level \in LevelType /\ level.dir = Skills /\ level.left = {}
    BY <1>5 DEF LevelType, NodeType
  <2> HIDE DEF level
  <2>3. /\ walk' \in Seq(LevelType) /\ Len(walk') = 1 /\ walk'[1] = level /\ DOMAIN walk' = {1}
    <3>1. walk' = Append(walk, level)
      BY <1>3, <1>8 DEF Descend, level
    <3>2. Len(walk) = 0
      BY <1>6
    <3>3. Append(walk, level) \in Seq(LevelType) /\ Len(Append(walk, level)) = 0 + 1
          /\ DOMAIN Append(walk, level) = 1..(0 + 1) /\ Append(walk, level)[0 + 1] = level
      BY <1>4, <2>2, <3>2, Descending
    <3> QED
      BY <3>1, <3>3
  <2>4. SharingAt'
    BY <1>1, <1>2, <1>3, <2>1 DEF SharingHeld, SharingAt
  <2>5. FilesHeld'
    <3>1. Limits' = Limits
      BY <1>1 DEF World, Limits
    <3>2. Bytes(session.files) = 0 /\ Lead(session.files) \in {0, 1}
      BY <1>6 DEF Bytes, Lead
    <3> QED
      BY <1>1, <1>3, <1>6, <2>1, <3>1, <3>2, NoTotalsTyped DEF SharingHeld, FilesHeld
  <2>6. ToCome("list", copying'.spot, walk') = {EntryA, Sub}
    BY <1>2, <2>2, <2>3 DEF ToCome, Kids
  <2>7. Pending("list", copying'.spot, walk') = {EntryA, Sub, EntryB}
    BY <2>6, SpotsDiffer DEF Pending, Under
  <2>8. Rels(session.files) \subseteq {Config}
    <3>1. ASSUME NEW i \in DOMAIN session.files PROVE session.files[i].rel = Config
      <4>1. session.files \in Seq(FileType)
        BY <1>4, SessionParts
      <4>2. Lead(session.files) = 1 /\ i = 1
        BY <1>6, <4>1 DEF Lead
      <4> QED
        BY <4>2 DEF Lead
    <3> QED
      BY <3>1 DEF Rels
  <2>9. WalkHeld'
    <3>1. Nested("list", copying'.spot, walk')
      BY <1>2, <2>2, <2>3 DEF Nested, Kids
    <3> QED
      BY <1>1, <2>1, <2>7, <2>8, <3>1, SpotsDiffer DEF WalkHeld
  <2>10. FileHeld'
    BY <2>1 DEF FileHeld
  <2>11. NoneForgotten'
    BY <1>1, <1>2, <1>3, <2>1, <2>7, <2>8, SpotsDiffer DEF SharingHeld, NoneForgotten, World
  <2>12. Held'
    BY <1>1, <1>3, <1>4, <2>4, <2>5, <2>9, <2>10, <2>11, SharingNotTwo DEF Held, SharingHeld, World
  <2> QED
    BY <1>1, <1>2, <1>4, <2>1, <2>3, <2>12, Frame
<1> QED
  BY <1>1, <1>7, <1>8

-----------------------------------------------------------------------------
(* In the directory that is copied *)

LEMMA WalkOn ==
  ASSUME HoldsInv, World, copying.step \in Walks, copying' \in CopyType, copying'.step \in Walks,
         copying'.task = copying.task, copying'.total.files = copying.total.files,
         copying'.total.bytes = copying.total.bytes, session' = session, walk' \in Seq(LevelType),
         Nested(copying'.step, copying'.spot, walk'),
         Pending(copying'.step, copying'.spot, walk') \subseteq Pending(copying.step, copying.spot, walk),
         FileHeld',
         "tree" \notin changed =>
           /\ {EntryA, EntryB} \cap Pending(copying.step, copying.spot, walk)
                \subseteq Pending(copying'.step, copying'.spot, walk')
           /\ copying'.step \in Looks \ {"look"} => copying'.spot # Sub
  PROVE  HoldsInv'
<1>1. copying.step \in UnderWay /\ copying'.step \in UnderWay /\ "ready" \notin Walks /\ "share" \notin Walks /\ "task" \notin Walks
      /\ copying.step \notin {"idle", "refused"} /\ copying'.step \notin {"idle", "mkdir"}
  BY StepsAre DEF Walks, Looks
<1>2. Sharing(definition) /\ SharingHeld /\ CredsHeld /\ copying.task = 5
  BY <1>1, SharingOnly
<1>3. session' \in SessionType /\ CredsHeld'
  BY <1>2, CredsStay DEF HoldsInv, World
<1>4. SharingAt'
  BY <1>1, <1>2 DEF SharingHeld, SharingAt
<1>5. FilesHeld'
  <2>1. Limits' = Limits
    BY DEF World, Limits
  <2> QED
    BY <1>1, <1>2, <2>1 DEF SharingHeld, FilesHeld
<1>6. WalkHeld'
  BY <1>2 DEF SharingHeld, WalkHeld
<1>7. NoneForgotten'
  <2> SUFFICES ASSUME "tree" \notin changed PROVE NoneForgotten'
    BY DEF NoneForgotten, World
  <2>1. /\ Config \in Rels(session.files) <=> tree[Config].kind = "file"
        /\ {EntryA, EntryB} \subseteq Rels(session.files) \union Pending(copying.step, copying.spot, walk)
        /\ Sub \notin Rels(session.files)
    BY <1>2 DEF SharingHeld, NoneForgotten
  <2>2. {EntryA, EntryB} \subseteq Rels(session.files) \union Pending(copying'.step, copying'.spot, walk')
    BY <2>1
  <2> QED
    BY <1>1, <1>2, <2>1, <2>2 DEF NoneForgotten, World
<1>8. Held'
  BY <1>2, <1>3, <1>4, <1>5, <1>6, <1>7, SharingNotTwo DEF Held, SharingHeld, World
<1> QED
  BY <1>1, <1>3, <1>8, Frame

LEMMA AheadPending ==
  ASSUME NEW s1, NEW p1, NEW l1, NEW s2, NEW p2, NEW l2, ToCome(s1, p1, l1) \subseteq ToCome(s2, p2, l2)
  PROVE  Pending(s1, p1, l1) \subseteq Pending(s2, p2, l2)
BY DEF Pending

LEMMA Before == ASSUME NEW n \in Nat, NEW i \in 1..n, i # n PROVE i \in 1..(n - 1)
OBVIOUS

LEMMA AheadHas ==
  ASSUME NEW goal, NEW spot, NEW levels, NEW i \in DOMAIN levels
  PROVE  levels[i].left \subseteq ToCome(goal, spot, levels)
BY DEF ToCome

\* What the walk is at the step of a directory that is copied.
LEMMA WalkingIs ==
  ASSUME HoldsInv, copying.step \in Walks
  PROVE  /\ Sharing(definition) /\ SharingHeld /\ CredsHeld /\ copying.task = 5 /\ Task.item = Limits /\ Task.root = 1
         /\ copying.step \in UnderWay /\ copying.step # "ready"
         /\ copying \in CopyType /\ session \in SessionType /\ tree \in [Spot -> NodeType]
         /\ walk \in Seq(LevelType) /\ Len(walk) \in Nat /\ Len(walk) >= 1 /\ DOMAIN walk = 1..Len(walk)
         /\ Here = walk[Len(walk)] /\ Here \in LevelType /\ Here.dir \in {Skills, EntryA, Sub, EntryB}
         /\ Nested(copying.step, copying.spot, walk)
<1>1. copying.step \in UnderWay /\ copying.step # "ready"
  BY StepsAre DEF Walks, Looks
<1>2. Sharing(definition) /\ SharingHeld /\ CredsHeld /\ copying.task = 5 /\ Task.item = Limits /\ Task.root = 1
  BY <1>1, SharingOnly
<1>3. copying \in CopyType /\ session \in SessionType /\ tree \in [Spot -> NodeType] /\ walk \in Seq(LevelType)
  BY DEF HoldsInv, TreeKnown
<1>4. Nested(copying.step, copying.spot, walk) /\ Len(walk) >= 1
  BY <1>2 DEF SharingHeld, WalkHeld, Nested
<1>5. Here = walk[Len(walk)]
  BY <1>4 DEF Here, Last
<1>6. DOMAIN walk = 1..Len(walk) /\ Len(walk) \in Nat /\ walk[Len(walk)] \in LevelType
  BY <1>3, <1>4
<1>7. walk[Len(walk)].dir \in {Skills, EntryA, Sub, EntryB}
  BY <1>6 DEF LevelType
<1> QED
  BY <1>1, <1>2, <1>3, <1>4, <1>5, <1>6, <1>7

\* Other entries of the last directory.
Relisted(levels, left, more) ==
  /\ more \in Seq(LevelType) /\ Len(more) = Len(levels) /\ DOMAIN more = 1..Len(levels)
  /\ \A i \in 1..(Len(levels) - 1) : more[i] = levels[i]
  /\ more[Len(levels)].left = left /\ more[Len(levels)].dir = levels[Len(levels)].dir

LEMMA Relisting ==
  ASSUME NEW levels \in Seq(LevelType), Len(levels) >= 1, NEW left \in SUBSET {EntryA, Sub, EntryB}
  PROVE  Relisted(levels, left, [levels EXCEPT ![Len(levels)].left = left])
<1> DEFINE level == [levels[Len(levels)] EXCEPT !.left = left]
           more == [levels EXCEPT ![Len(levels)].left = left]
<1>1. levels[Len(levels)] \in LevelType /\ Len(levels) \in DOMAIN levels
  OBVIOUS
<1>2. level \in LevelType /\ level.left = left /\ level.dir = levels[Len(levels)].dir
  BY <1>1 DEF LevelType
<1>3. more = [levels EXCEPT ![Len(levels)] = level]
  OBVIOUS
<1> HIDE DEF level
<1>4. [levels EXCEPT ![Len(levels)] = level] \in Seq(LevelType)
  BY <1>1, <1>2
<1> QED
  BY <1>1, <1>2, <1>3, <1>4 DEF Relisted

LEMMA NestedRelisted ==
  ASSUME NEW levels \in Seq(LevelType), Len(levels) >= 1, NEW left \in SUBSET {EntryA, Sub, EntryB},
         NEW more, Relisted(levels, left, more),
         NEW s1, NEW p1, Nested(s1, p1, levels), left \subseteq Kids(levels[Len(levels)].dir),
         NEW s2, NEW p2, s2 # "list", s2 \in Looks => p2 \in Kids(levels[Len(levels)].dir) \ left
  PROVE  Nested(s2, p2, more)
<1>1. /\ more \in Seq(LevelType) /\ Len(more) = Len(levels)
      /\ \A i \in 1..(Len(levels) - 1) : more[i] = levels[i]
      /\ more[Len(levels)].left = left /\ more[Len(levels)].dir = levels[Len(levels)].dir
      /\ DOMAIN more = 1..Len(levels) /\ DOMAIN levels = 1..Len(levels) /\ Len(levels) \in Nat
  BY DEF Relisted
<1>2. \A i \in DOMAIN more : more[i].dir = levels[i].dir
  BY <1>1
<1>3. \A i \in DOMAIN more : more[i].left \subseteq Kids(more[i].dir)
  <2> TAKE i \in DOMAIN more
  <2>1. CASE i = Len(levels)
    BY <1>1, <2>1
  <2>2. CASE i # Len(levels)
    <3>1. i \in 1..(Len(levels) - 1) /\ i \in DOMAIN levels
      BY <1>1, <2>2
    <3> QED
      BY <1>1, <3>1 DEF Nested
  <2> QED
    BY <2>1, <2>2
<1>4. \A i \in DOMAIN more : i > 1 => more[i].dir \in Kids(more[i - 1].dir) \ more[i - 1].left
  <2> SUFFICES ASSUME NEW i \in DOMAIN more, i > 1 PROVE more[i].dir \in Kids(more[i - 1].dir) \ more[i - 1].left
    OBVIOUS
  <2>1. i - 1 \in 1..(Len(levels) - 1) /\ i \in DOMAIN levels
    BY <1>1
  <2>2. more[i - 1] = levels[i - 1] /\ more[i].dir = levels[i].dir
    BY <1>1, <1>2, <2>1
  <2> QED
    BY <2>1, <2>2 DEF Nested
<1>5. more[1].dir = Skills
  BY <1>1, <1>2 DEF Nested
<1> QED
  BY <1>1, <1>3, <1>4, <1>5 DEF Nested

LEMMA KidsTyped == ASSUME NEW dir PROVE Kids(dir) \subseteq {EntryA, Sub, EntryB}
BY DEF Kids

LEMMA ListHolds == ASSUME HoldsInv, ListDirectory, ~GiveUp PROVE HoldsInv'
<1> DEFINE left == Children(Here.dir)
           n == Len(walk)
<1>1. copying.step = "list" /\ World /\ Goes("entry") /\ session' = session
      /\ walk' = [walk EXCEPT ![n].left = left]
  BY DEF ListDirectory
<1>2. "list" \in Walks /\ "entry" \in Walks /\ "entry" \in CopySteps /\ "entry" \notin Looks /\ "list" \notin Looks
      /\ "entry" # "list" /\ "entry" \notin {"verify", "read"}
  BY DEF Walks, Looks, CopySteps
<1>3. /\ Sharing(definition) /\ SharingHeld /\ CredsHeld /\ copying.task = 5
      /\ copying \in CopyType /\ tree \in [Spot -> NodeType]
      /\ walk \in Seq(LevelType) /\ n \in Nat /\ n >= 1 /\ DOMAIN walk = 1..n
      /\ Here = walk[n] /\ Here.dir \in {Skills, EntryA, Sub, EntryB}
      /\ Nested(copying.step, copying.spot, walk)
  BY <1>1, <1>2, WalkingIs
<1>4. left = {s \in Kids(Here.dir) : NodeAt(s).kind # "none"}
  BY <1>3, ChildrenAre, SpotsAre
<1>5. left \in SUBSET {EntryA, Sub, EntryB} /\ left \subseteq Kids(Here.dir)
  BY <1>4, KidsTyped
<1> HIDE DEF left
<1>6. copying' \in CopyType /\ copying'.step = "entry" /\ copying'.task = copying.task /\ copying'.total = copying.total
  BY <1>1, <1>2, <1>3, GoesTo
<1>7. /\ walk' \in Seq(LevelType) /\ Len(walk') = n /\ DOMAIN walk' = 1..n
      /\ \A i \in 1..(n - 1) : walk'[i] = walk[i]
      /\ walk'[n].left = left /\ walk'[n].dir = walk[n].dir
      /\ Relisted(walk, left, walk')
  <2>1. Relisted(walk, left, [walk EXCEPT ![Len(walk)].left = left])
    BY <1>3, <1>5, Relisting
  <2> QED
    BY <1>1, <2>1 DEF Relisted
<1>8. Nested("entry", copying'.spot, walk')
  <2>1. left \subseteq Kids(walk[Len(walk)].dir)
    BY <1>3, <1>5
  <2> QED
    BY <1>2, <1>3, <1>5, <1>7, <2>1, NestedRelisted
<1>9. walk[n].left = {}
  BY <1>1, <1>3 DEF Nested
<1>10. ToCome("entry", copying'.spot, walk') \subseteq ToCome("list", copying.spot, walk)
  <2>1. ASSUME NEW i \in 1..n PROVE walk'[i].left \subseteq ToCome("list", copying.spot, walk)
    <3>1. CASE i = n
      BY <1>3, <1>5, <1>7, <3>1 DEF ToCome
    <3>2. CASE i # n
      <4>1. i \in 1..(n - 1) /\ i \in DOMAIN walk
        BY <1>3, <3>2, Before
      <4>2. walk'[i].left = walk[i].left
        BY <1>7, <4>1
      <4> QED
        BY <4>1, <4>2, AheadHas, SMTT(30)
    <3> QED
      BY <3>1, <3>2
  <2> QED
    BY <1>2, <1>7, <2>1 DEF ToCome
<1>11. Pending("entry", copying'.spot, walk') \subseteq Pending("list", copying.spot, walk)
  BY <1>10, AheadPending
<1>12. ASSUME "tree" \notin changed
       PROVE  Pending("list", copying.spot, walk) \subseteq Pending("entry", copying'.spot, walk')
  <2>1. left = Kids(Here.dir)
    <3>1. \A s \in {EntryA, Sub, EntryB} : NodeAt(s).kind # "none"
      BY <1>12, TreesAre, WholeNodes DEF HoldsInv, TreeKnown
    <3> QED
      BY <1>4, <3>1, KidsTyped
  <2>2. ASSUME NEW i \in 1..n PROVE walk[i].left \subseteq ToCome("entry", copying'.spot, walk')
    <3>1. CASE i = n
      BY <1>9, <3>1
    <3>2. CASE i # n
      <4>1. i \in 1..(n - 1) /\ i \in DOMAIN walk'
        BY <1>3, <1>7, <3>2, Before, Zenon
      <4>2. walk'[i].left = walk[i].left
        BY <1>7, <4>1
      <4> QED
        BY <4>1, <4>2, AheadHas, SMTT(30)
    <3> QED
      BY <3>1, <3>2
  <2>3. Kids(walk[n].dir) \subseteq ToCome("entry", copying'.spot, walk')
    BY <1>3, <1>7, <2>1 DEF ToCome
  <2>4. ToCome("list", copying.spot, walk) \subseteq ToCome("entry", copying'.spot, walk')
    BY <1>2, <1>3, <2>2, <2>3 DEF ToCome
  <2> QED
    BY <2>4, AheadPending
<1>13. FileHeld'
  BY <1>6 DEF FileHeld
<1> QED
  BY <1>1, <1>2, <1>6, <1>7, <1>8, <1>11, <1>12, <1>13, WalkOn

\* The next entry of the last directory.
LEMMA PickHolds ==
  ASSUME HoldsInv, World, copying.step = "entry", NEW spot \in Here.left, session' = session,
         copying' = [copying EXCEPT !.step = "look", !.spot = spot],
         walk' = [walk EXCEPT ![Len(walk)].left = @ \ {spot}]
  PROVE  HoldsInv'
<1> DEFINE n == Len(walk)
           left == Here.left \ {spot}
<1>2. "look" \in Walks /\ "entry" \in Walks /\ "look" \in CopySteps /\ "entry" \notin Looks /\ "look" \in Looks
      /\ "entry" # "list" /\ "look" # "list" /\ "look" \notin {"verify", "read"} /\ "look" \notin Looks \ {"look"}
  BY DEF Walks, Looks, CopySteps
<1>3. /\ Sharing(definition) /\ SharingHeld /\ CredsHeld /\ copying.task = 5
      /\ copying \in CopyType /\ walk \in Seq(LevelType) /\ n \in Nat /\ n >= 1 /\ DOMAIN walk = 1..n
      /\ Here = walk[n] /\ Here \in LevelType
      /\ Nested(copying.step, copying.spot, walk)
  BY <1>2, WalkingIs
<1>4. Here.left \subseteq Kids(Here.dir) /\ n \in DOMAIN walk
  BY <1>3 DEF Nested
<1>5. left \in SUBSET {EntryA, Sub, EntryB} /\ left \subseteq Kids(walk[Len(walk)].dir) /\ spot \in {EntryA, Sub, EntryB}
      /\ spot \in Kids(walk[Len(walk)].dir) \ left
  BY <1>3, <1>4, KidsTyped
<1>6. /\ copying' \in CopyType /\ copying'.step = "look" /\ copying'.task = copying.task /\ copying'.total = copying.total
      /\ copying'.spot = spot
  BY <1>2, <1>3, <1>5 DEF CopyType
<1>7. Relisted(walk, left, walk')
  <2>1. walk' = [walk EXCEPT ![Len(walk)].left = left]
    BY <1>3, <1>4
  <2> HIDE DEF left
  <2> QED
    BY <1>3, <1>5, <2>1, Relisting
<1> HIDE DEF left
<1>8. Nested("look", spot, walk')
  BY <1>2, <1>3, <1>5, <1>7, NestedRelisted
<1>9. /\ walk' \in Seq(LevelType) /\ Len(walk') = n /\ DOMAIN walk' = 1..n
      /\ \A i \in 1..(n - 1) : walk'[i] = walk[i]
      /\ walk'[n].left = left
  BY <1>7 DEF Relisted
<1>10. left \union {spot} = Here.left
  BY DEF left
<1>11. ToCome("look", spot, walk') \subseteq ToCome("entry", copying.spot, walk)
  <2>1. ASSUME NEW i \in 1..n PROVE walk'[i].left \subseteq ToCome("entry", copying.spot, walk)
    <3>1. CASE i = n
      BY <1>3, <1>4, <1>9, <1>10, <3>1, AheadHas
    <3>2. CASE i # n
      <4>1. i \in 1..(n - 1) /\ i \in DOMAIN walk
        BY <1>3, <3>2, Before
      <4>2. walk'[i].left = walk[i].left
        BY <1>9, <4>1
      <4> QED
        BY <4>1, <4>2, AheadHas
    <3> QED
      BY <3>1, <3>2
  <2>2. spot \in ToCome("entry", copying.spot, walk)
    BY <1>3, <1>4, AheadHas
  <2> QED
    BY <1>2, <1>9, <2>1, <2>2 DEF ToCome
<1>12. ToCome("entry", copying.spot, walk) \subseteq ToCome("look", spot, walk')
  <2>1. ASSUME NEW i \in 1..n PROVE walk[i].left \subseteq ToCome("look", spot, walk')
    <3>1. CASE i = n
      <4>1. left \subseteq ToCome("look", spot, walk')
        BY <1>4, <1>9, <1>3, AheadHas
      <4>2. spot \in ToCome("look", spot, walk')
        BY <1>2 DEF ToCome
      <4> QED
        BY <1>3, <1>10, <3>1, <4>1, <4>2
    <3>2. CASE i # n
      <4>1. i \in 1..(n - 1) /\ i \in DOMAIN walk'
        BY <1>3, <1>9, <3>2, Before
      <4>2. walk'[i].left = walk[i].left
        BY <1>9, <4>1
      <4> QED
        BY <4>1, <4>2, AheadHas
    <3> QED
      BY <3>1, <3>2
  <2> QED
    BY <1>2, <1>3, <2>1 DEF ToCome
<1>13. Pending("look", spot, walk') = Pending("entry", copying.spot, walk)
  <2>1. ToCome("look", spot, walk') = ToCome("entry", copying.spot, walk)
    BY <1>11, <1>12
  <2> QED
    BY <2>1, Zenon DEF Pending
<1>14. FileHeld'
  BY <1>6 DEF FileHeld
<1> QED
  BY <1>2, <1>6, <1>8, <1>9, <1>13, <1>14, WalkOn

LEMMA FrontIs ==
  ASSUME NEW levels \in Seq(LevelType), Len(levels) >= 1
  PROVE  /\ Front(levels) \in Seq(LevelType) /\ Len(Front(levels)) = Len(levels) - 1
         /\ DOMAIN Front(levels) = 1..(Len(levels) - 1)
         /\ \A i \in 1..(Len(levels) - 1) : Front(levels)[i] = levels[i]
<1>1. Front(levels) = SubSeq(levels, 1, Len(levels) - 1)
  BY DEF Front
<1>2. Len(levels) - 1 \in 0..Len(levels)
  OBVIOUS
<1>3. ASSUME NEW n \in 0..Len(levels)
      PROVE  /\ SubSeq(levels, 1, n) \in Seq(LevelType) /\ Len(SubSeq(levels, 1, n)) = n
             /\ DOMAIN SubSeq(levels, 1, n) = 1..n
             /\ \A i \in 1..n : SubSeq(levels, 1, n)[i] = levels[i]
  <2>1. /\ SubSeq(levels, 1, n) \in Seq(LevelType) /\ Len(SubSeq(levels, 1, n)) = n
        /\ \A i \in 1..n : SubSeq(levels, 1, n)[i] = levels[i]
    BY SMT
  <2> QED
    BY <2>1
<1> QED
  BY <1>1, <1>2, <1>3, Zenon

\* After the last entry of a directory.
LEMMA PopHolds ==
  ASSUME HoldsInv, World, copying.step = "entry", Here.left = {}, session' = session,
         walk' = Front(walk), IF Len(walk) = 1 THEN NextTask ELSE Goes("entry")
  PROVE  HoldsInv'
<1> DEFINE n == Len(walk)
<1>2. "entry" \in Walks /\ "entry" \in CopySteps /\ "entry" \notin Looks /\ "entry" # "list" /\ "entry" \notin {"verify", "read"}
      /\ "entry" \in UnderWay
  BY DEF Walks, Looks, CopySteps, UnderWay
<1>3. /\ Sharing(definition) /\ SharingHeld /\ CredsHeld /\ copying.task = 5
      /\ copying \in CopyType /\ walk \in Seq(LevelType) /\ n \in Nat /\ n >= 1 /\ DOMAIN walk = 1..n
      /\ Here = walk[n] /\ Here \in LevelType
      /\ Nested(copying.step, copying.spot, walk)
  BY <1>2, WalkingIs
<1>4. /\ walk' \in Seq(LevelType) /\ Len(walk') = n - 1 /\ DOMAIN walk' = 1..(n - 1)
      /\ \A i \in 1..(n - 1) : walk'[i] = walk[i]
  BY <1>3, FrontIs
<1>5. CASE n = 1
  <2>1. walk' = <<>>
    BY <1>4, <1>5
  <2>2. ToCome("entry", copying.spot, walk) = {}
    BY <1>2, <1>3, <1>5 DEF ToCome
  <2>3. Pending("entry", copying.spot, walk) = {}
    BY <2>2 DEF Pending
  <2>4. "tree" \notin changed => {EntryA, EntryB} \subseteq Rels(session.files)
    BY <1>2, <1>3, <2>3 DEF SharingHeld, NoneForgotten
  <2> QED
    BY <1>2, <1>3, <1>5, <2>1, <2>4, ReadyHolds
<1>6. CASE n # 1
  <2>1. /\ copying' \in CopyType /\ copying'.step = "entry" /\ copying'.task = copying.task /\ copying'.total = copying.total
        /\ copying'.spot = copying.spot
    BY <1>2, <1>3, <1>6, GoesTo
  <2>2. n - 1 \in Nat /\ n - 1 >= 1 /\ \A i \in 1..(n - 1) : i \in 1..n
    BY <1>3, <1>6
  <2>3. Nested("entry", copying.spot, walk')
    <3>1. walk'[1].dir = Skills
      <4>1. 1 \in 1..(n - 1)
        BY <2>2
      <4> QED
        BY <1>3, <1>4, <4>1 DEF Nested
    <3>2. \A i \in DOMAIN walk' : walk'[i].left \subseteq Kids(walk'[i].dir)
      BY <1>3, <1>4, <2>2 DEF Nested
    <3>3. \A i \in DOMAIN walk' : i > 1 => walk'[i].dir \in Kids(walk'[i - 1].dir) \ walk'[i - 1].left
      <4> SUFFICES ASSUME NEW i \in DOMAIN walk', i > 1
                   PROVE  walk'[i].dir \in Kids(walk'[i - 1].dir) \ walk'[i - 1].left
        OBVIOUS
      <4>1. i \in 1..(n - 1) /\ i - 1 \in 1..(n - 1) /\ i \in DOMAIN walk
        BY <1>3, <1>4, <2>2
      <4>2. walk'[i] = walk[i] /\ walk'[i - 1] = walk[i - 1]
        BY <1>4, <4>1
      <4> QED
        BY <1>3, <4>1, <4>2 DEF Nested
    <3> QED
      BY <1>2, <1>4, <2>2, <3>1, <3>2, <3>3 DEF Nested
  <2>4. ToCome("entry", copying.spot, walk') \subseteq ToCome("entry", copying.spot, walk)
    <3>1. ASSUME NEW i \in 1..(n - 1) PROVE walk'[i].left \subseteq ToCome("entry", copying.spot, walk)
      <4>1. i \in DOMAIN walk /\ walk'[i] = walk[i]
        BY <1>3, <1>4, <2>2
      <4> QED
        BY <4>1, AheadHas
    <3> QED
      BY <1>2, <1>4, <3>1 DEF ToCome
  <2>5. ToCome("entry", copying.spot, walk) \subseteq ToCome("entry", copying.spot, walk')
    <3>1. ASSUME NEW i \in 1..n PROVE walk[i].left \subseteq ToCome("entry", copying.spot, walk')
      <4>1. CASE i = n
        BY <1>3, <4>1
      <4>2. CASE i # n
        <5>1. i \in 1..(n - 1)
          BY <1>3, <4>2, Before
        <5>2. i \in DOMAIN walk' /\ walk'[i] = walk[i]
          BY <1>4, <5>1
        <5> QED
          BY <5>2, AheadHas
      <4> QED
        BY <4>1, <4>2
    <3> QED
      BY <1>2, <1>3, <3>1 DEF ToCome
  <2>6. Pending("entry", copying.spot, walk') = Pending("entry", copying.spot, walk)
    <3>1. ToCome("entry", copying.spot, walk') = ToCome("entry", copying.spot, walk)
      BY <2>4, <2>5
    <3> QED
      BY <3>1, Zenon DEF Pending
  <2>7. FileHeld'
    BY <2>1 DEF FileHeld
  <2> QED
    BY <1>2, <1>4, <2>1, <2>3, <2>6, <2>7, WalkOn
<1> QED
  BY <1>5, <1>6

LEMMA NextEntryHolds == ASSUME HoldsInv, NextEntry, ~GiveUp PROVE HoldsInv'
<1>1. copying.step = "entry" /\ World /\ session' = session
  BY DEF NextEntry
<1>2. CASE \E spot \in Here.left :
             /\ copying' = [copying EXCEPT !.step = "look", !.spot = spot]
             /\ walk' = [walk EXCEPT ![Len(walk)].left = @ \ {spot}]
  BY <1>1, <1>2, PickHolds
<1>3. CASE Here.left = {} /\ walk' = Front(walk) /\ IF Len(walk) = 1 THEN NextTask ELSE Goes("entry")
  BY <1>1, <1>3, PopHolds
<1> QED
  BY <1>2, <1>3 DEF NextEntry

\* The copy goes on at the entry it is at.
LEMMA StaysHolds ==
  ASSUME HoldsInv, World, copying.step \in Looks, session' = session, walk' = walk,
         copying' \in CopyType, copying'.step \in Looks, copying'.task = copying.task, copying'.spot = copying.spot,
         copying'.total.files = copying.total.files, copying'.total.bytes = copying.total.bytes,
         FileHeld',
         copying.step = "look" /\ "tree" \notin changed => copying.spot # Sub
  PROVE  HoldsInv'
<1>1. copying.step \in Walks /\ copying'.step \in Walks /\ "list" \notin Looks
  BY DEF Walks, Looks
<1>2. SharingHeld /\ walk \in Seq(LevelType) /\ Nested(copying.step, copying.spot, walk)
  BY <1>1, WalkingIs
<1>3. Nested(copying'.step, copying'.spot, walk')
  BY <1>1, <1>2 DEF Nested
<1>4. Pending(copying'.step, copying'.spot, walk') = Pending(copying.step, copying.spot, walk)
  BY <1>1 DEF Pending, ToCome
<1>5. "tree" \notin changed => copying'.spot # Sub
  BY <1>2 DEF SharingHeld, NoneForgotten
<1> QED
  BY <1>1, <1>2, <1>3, <1>4, <1>5, WalkOn

LEMMA LooksAre ==
  /\ Looks \subseteq Walks /\ Looks \subseteq CopySteps /\ "list" \notin Looks /\ "entry" \notin Looks /\ "list" \in Walks
  /\ "list" \in CopySteps /\ "entry" \in CopySteps /\ "entry" \in Walks
  /\ "look" \in Looks /\ "contain" \in Looks /\ "open" \in Looks /\ "verify" \in Looks /\ "read" \in Looks
BY DEF Looks, Walks, CopySteps

LEMMA LookEntryHolds == ASSUME HoldsInv, LookEntry, ~GiveUp PROVE HoldsInv'
<1> DEFINE spot == copying.spot
           node == NodeAt(spot)
           total == [copying.total EXCEPT !.entries = @ + 1]
           level == [dir |-> spot, id |-> node.id, left |-> {}]
           n == Len(walk)
<1>1. /\ copying.step = "look" /\ World /\ session' = session
      /\ node.kind \notin {"none", "link"}
      /\ copying' = [copying EXCEPT !.step = IF node.kind = "dir" THEN "list" ELSE "contain",
                                    !.total = total, !.file = node]
      /\ IF node.kind = "dir" THEN Descend(spot, node.id) ELSE walk' = walk
  BY DEF LookEntry
<1>2. /\ Sharing(definition) /\ SharingHeld /\ copying \in CopyType /\ tree \in [Spot -> NodeType]
      /\ walk \in Seq(LevelType) /\ n \in Nat /\ n >= 1 /\ DOMAIN walk = 1..n
      /\ Nested("look", spot, walk)
  BY <1>1, LooksAre, WalkingIs
<1>3. spot \in Kids(walk[n].dir) \ walk[n].left /\ spot \in {EntryA, Sub, EntryB} /\ spot \in Spot
  BY <1>2, KidsTyped, LooksAre, SpotsAre DEF Nested
<1>4. node \in NodeType
  BY <1>2, <1>3, NodesTyped
<1>5. /\ total \in [files : Nat, bytes : Nat, entries : Nat] /\ total.files = copying.total.files
      /\ total.bytes = copying.total.bytes
  <2>1. copying.total \in [files : Nat, bytes : Nat, entries : Nat]
    BY <1>2, CopyingParts
  <2> QED
    BY <2>1
<1>6. "tree" \notin changed => (node.kind = "dir" <=> spot = Sub)
  BY <1>3, TreesAre, WholeNodes, SpotsDiffer DEF HoldsInv, TreeKnown
<1> HIDE DEF total, node
<1>7. /\ copying' \in CopyType /\ copying'.total = total /\ copying'.file = node
      /\ copying'.task = copying.task /\ copying'.spot = spot
      /\ copying'.step = IF node.kind = "dir" THEN "list" ELSE "contain"
  <2> DEFINE goal == IF node.kind = "dir" THEN "list" ELSE "contain"
  <2>1. goal \in CopySteps
    BY LooksAre
  <2>2. copying' = [copying EXCEPT !.step = goal, !.total = total, !.file = node]
    BY <1>1
  <2>3. copying \in CopyType /\ total \in [files : Nat, bytes : Nat, entries : Nat] /\ node \in NodeType
    BY <1>2, <1>4, <1>5
  <2> HIDE DEF goal
  <2>4. copying' \in CopyType /\ copying'.total = total /\ copying'.file = node
        /\ copying'.task = copying.task /\ copying'.spot = copying.spot /\ copying'.step = goal
    BY <2>1, <2>2, <2>3 DEF CopyType
  <2> QED
    BY <2>4 DEF goal
<1>8. FileHeld'
  BY <1>7 DEF FileHeld
<1>9. CASE node.kind # "dir"
  BY <1>1, <1>5, <1>6, <1>7, <1>8, <1>9, LooksAre, StaysHolds
<1>10. CASE node.kind = "dir"
  <2>1. level \in LevelType /\ level.dir = spot /\ level.left = {}
    BY <1>3, <1>4 DEF LevelType, NodeType
  <2> HIDE DEF level
  <2>2. /\ walk' \in Seq(LevelType) /\ Len(walk') = n + 1 /\ DOMAIN walk' = 1..(n + 1)
        /\ \A i \in 1..n : walk'[i] = walk[i]
        /\ walk'[n + 1] = level
    <3>1. walk' = Append(walk, level)
      BY <1>1, <1>10 DEF Descend, level
    <3> QED
      BY <1>2, <2>1, <3>1, Descending
  <2>3. Nested("list", spot, walk')
    <3>1. Len(walk') >= 1 /\ walk'[1].dir = Skills /\ walk'[Len(walk')].left = {}
      BY <1>2, <2>1, <2>2 DEF Nested
    <3>2. \A i \in DOMAIN walk' : walk'[i].left \subseteq Kids(walk'[i].dir)
      <4> TAKE i \in DOMAIN walk'
      <4>1. CASE i = n + 1
        BY <2>1, <2>2, <4>1
      <4>2. CASE i # n + 1
        <5>1. i \in 1..n
          BY <1>2, <2>2, <4>2
        <5> QED
          BY <1>2, <2>2, <5>1 DEF Nested
      <4> QED
        BY <4>1, <4>2
    <3>3. \A i \in DOMAIN walk' : i > 1 => walk'[i].dir \in Kids(walk'[i - 1].dir) \ walk'[i - 1].left
      <4> SUFFICES ASSUME NEW i \in DOMAIN walk', i > 1
                   PROVE  walk'[i].dir \in Kids(walk'[i - 1].dir) \ walk'[i - 1].left
        OBVIOUS
      <4>1. CASE i = n + 1
        <5>1. i - 1 = n /\ n \in 1..n
          BY <1>2, <4>1
        <5>2. walk'[i - 1] = walk[n] /\ walk'[i].dir = spot
          BY <2>1, <2>2, <4>1, <5>1
        <5> QED
          BY <1>3, <5>2
      <4>2. CASE i # n + 1
        <5>1. i \in 1..n /\ i - 1 \in 1..n
          BY <1>2, <2>2, <4>2
        <5>2. walk'[i] = walk[i] /\ walk'[i - 1] = walk[i - 1]
          BY <2>2, <5>1
        <5> QED
          BY <1>2, <5>1, <5>2 DEF Nested
      <4> QED
        BY <4>1, <4>2
    <3> QED
      BY <3>1, <3>2, <3>3, LooksAre DEF Nested
  <2>4. ToCome("list", spot, walk') \subseteq (ToCome("look", spot, walk) \union Kids(spot))
    <3>1. ASSUME NEW i \in 1..(n + 1) PROVE walk'[i].left \subseteq ToCome("look", spot, walk)
      <4>1. CASE i = n + 1
        BY <2>1, <2>2, <4>1
      <4>2. CASE i # n + 1
        <5>1. i \in 1..n
          BY <1>2, <4>2
        <5>2. i \in DOMAIN walk /\ walk'[i] = walk[i]
          BY <1>2, <2>2, <5>1
        <5> QED
          BY <5>2, AheadHas
      <4> QED
        BY <4>1, <4>2
    <3> QED
      BY <2>1, <2>2, <3>1, LooksAre DEF ToCome
  <2>5. spot \in ToCome("look", spot, walk)
    BY LooksAre DEF ToCome
  <2>6. \A p \in Kids(spot) : Under(p) \subseteq Under(spot)
    BY <1>3, SpotsDiffer DEF Kids, Under
  <2>7. Pending("list", spot, walk') \subseteq Pending("look", spot, walk)
    <3>1. ASSUME NEW p \in ToCome("list", spot, walk') PROVE Under(p) \subseteq Pending("look", spot, walk)
      <4>1. CASE p \in ToCome("look", spot, walk)
        BY <4>1 DEF Pending
      <4>2. CASE p \in Kids(spot)
        BY <2>5, <2>6, <4>2 DEF Pending
      <4> QED
        BY <2>4, <4>1, <4>2
    <3> QED
      BY <3>1 DEF Pending
  <2>8. ASSUME "tree" \notin changed
        PROVE  {EntryA, EntryB} \cap Pending("look", spot, walk) \subseteq Pending("list", spot, walk')
    <3>1. spot = Sub
      BY <1>6, <1>10, <2>8
    <3>2. EntryB \in Pending("list", spot, walk')
      <4>1. EntryB \in ToCome("list", spot, walk')
        BY <2>1, <2>2, <3>1, SpotsDiffer DEF ToCome, Kids
      <4> QED
        BY <4>1, SpotsDiffer DEF Pending, Under
    <3>3. ASSUME EntryA \in Pending("look", spot, walk) PROVE EntryA \in Pending("list", spot, walk')
      <4>1. PICK p \in ToCome("look", spot, walk) : EntryA \in Under(p)
        BY <3>3 DEF Pending
      <4>2. p = EntryA /\ p # spot
        BY <3>1, <4>1, SpotsDiffer DEF Under
      <4>3. PICK i \in 1..n : p \in walk[i].left
        BY <1>2, <4>1, <4>2 DEF ToCome
      <4>4. i \in DOMAIN walk' /\ walk'[i] = walk[i]
        BY <1>2, <2>2, <4>3
      <4>5. EntryA \in ToCome("list", spot, walk')
        BY <4>2, <4>3, <4>4, AheadHas
      <4> QED
        BY <4>5, SpotsDiffer DEF Pending, Under
    <3> QED
      BY <3>2, <3>3
  <2>9. copying'.step = "list"
    BY <1>7, <1>10
  <2> QED
    BY <1>1, <1>5, <1>7, <1>8, <2>2, <2>3, <2>7, <2>8, <2>9, LooksAre, WalkOn
<1> QED
  BY <1>9, <1>10

LEMMA ContainHolds == ASSUME HoldsInv, CheckContained, ~GiveUp PROVE HoldsInv'
<1>1. copying.step = "contain" /\ World /\ Goes("open") /\ session' = session /\ walk' = walk
  BY DEF CheckContained
<1>2. copying \in CopyType
  BY DEF HoldsInv
<1>3. /\ copying' \in CopyType /\ copying'.step = "open" /\ copying'.task = copying.task
      /\ copying'.spot = copying.spot /\ copying'.total = copying.total
  BY <1>1, <1>2, LooksAre, GoesTo
<1>4. FileHeld'
  BY <1>3 DEF FileHeld
<1> QED
  BY <1>1, <1>3, <1>4, LooksAre, StaysHolds

LEMMA OpenHolds == ASSUME HoldsInv, OpenFile, ~GiveUp PROVE HoldsInv'
<1> DEFINE node == NodeAt(copying.spot)
<1>1. /\ copying.step = "open" /\ World /\ session' = session /\ walk' = walk /\ node.kind = "file"
      /\ copying' = [copying EXCEPT !.step = "verify", !.file = node]
  BY DEF OpenFile
<1>2. /\ copying \in CopyType /\ tree \in [Spot -> NodeType] /\ Nested("open", copying.spot, walk)
      /\ TreeKnown
  BY <1>1, LooksAre, WalkingIs DEF HoldsInv
<1>3. copying.spot \in {EntryA, Sub, EntryB} /\ copying.spot \in Spot
  BY <1>2, KidsTyped, LooksAre, SpotsAre DEF Nested
<1>4. node \in {tree[copying.spot], Foreign, NoNode} /\ node \in NodeType
  BY <1>2, <1>3, NodesTyped
<1>5. node.id = 1 \/ (node.links = 1 => node.own)
  <2>1. CASE node = tree[copying.spot]
    <3>1. tree[copying.spot].links = 1 => tree[copying.spot].own
      BY <1>2, <1>3, Zenon DEF TreeKnown
    <3> QED
      BY <2>1, <3>1, Zenon
  <2>2. CASE node = Foreign
    BY <2>2, KindsOfNodes
  <2>3. CASE node = NoNode
    BY <1>1, <2>3, KindsOfNodes
  <2> QED
    BY <1>4, <2>1, <2>2, <2>3
<1> HIDE DEF node
<1>6. /\ copying' \in CopyType /\ copying'.step = "verify" /\ copying'.task = copying.task /\ copying'.file = node
      /\ copying'.spot = copying.spot /\ copying'.total = copying.total
  BY <1>1, <1>2, <1>4, LooksAre DEF CopyType
<1>7. FileHeld'
  BY <1>1, <1>5, <1>6, Zenon DEF FileHeld
<1> QED
  BY <1>1, <1>6, <1>7, LooksAre, StaysHolds

LEMMA VerifyHolds == ASSUME HoldsInv, VerifyFile, ~GiveUp PROVE HoldsInv'
<1>1. /\ copying.step = "verify" /\ World /\ session' = session /\ walk' = walk /\ Goes("read")
      /\ Contained(copying.spot) /\ NodeAt(copying.spot).id = copying.file.id
      /\ copying.file.links = 1 /\ copying.total.files + 1 <= Task.item.maxFiles
  BY DEF VerifyFile
<1>2. /\ copying \in CopyType /\ tree \in [Spot -> NodeType] /\ Nested("verify", copying.spot, walk)
      /\ TreeKnown /\ SharingHeld /\ Task.item = Limits
  BY <1>1, LooksAre, WalkingIs DEF HoldsInv
<1>3. copying.spot \in Spot
  BY <1>2, KidsTyped, LooksAre, SpotsAre DEF Nested
<1>4. copying.file.id # 1
  <2>1. NodeAt(copying.spot) \in {tree[copying.spot], NoNode}
    BY <1>1, <1>3, PlacesAre
  <2> QED
    BY <1>1, <1>2, <1>3, <2>1, KindsOfNodes DEF TreeKnown
<1>5. copying.file.own
  <2>1. copying.file.id = 1 \/ (copying.file.links = 1 => copying.file.own)
    BY <1>1, <1>2, Zenon DEF SharingHeld, FileHeld
  <2> QED
    BY <1>1, <1>4, <2>1, Zenon
<1>6. /\ copying' \in CopyType /\ copying'.step = "read" /\ copying'.task = copying.task /\ copying'.file = copying.file
      /\ copying'.spot = copying.spot /\ copying'.total = copying.total
  BY <1>1, <1>2, LooksAre, GoesTo
<1>7. FileHeld'
  <2>1. Limits' = Limits
    BY <1>1 DEF World, Limits
  <2>2. copying'.file.own
    BY <1>5, <1>6, Zenon
  <2>3. copying'.total.files + 1 <= Limits'.maxFiles /\ copying'.step # "verify"
    BY <1>1, <1>2, <1>6, <2>1
  <2> QED
    BY <2>2, <2>3, Zenon DEF FileHeld
<1> QED
  BY <1>1, <1>6, <1>7, LooksAre, StaysHolds

LEMMA TotalsGo ==
  ASSUME NEW t \in [files : Nat, bytes : Nat, entries : Nat], NEW bytes \in Nat
  PROVE  /\ [t EXCEPT !.files = @ + 1, !.bytes = bytes] \in [files : Nat, bytes : Nat, entries : Nat]
         /\ [t EXCEPT !.files = @ + 1, !.bytes = bytes].files = t.files + 1
         /\ [t EXCEPT !.files = @ + 1, !.bytes = bytes].bytes = bytes
<1> DEFINE n == t.files + 1
           u == [t EXCEPT !.files = n, !.bytes = bytes]
<1>1. n \in Nat
  OBVIOUS
<1>2. [t EXCEPT !.files = @ + 1, !.bytes = bytes] = u
  BY Zenon
<1> HIDE DEF n
<1>3. u \in [files : Nat, bytes : Nat, entries : Nat] /\ u.files = n /\ u.bytes = bytes
  BY <1>1
<1> QED
  BY <1>2, <1>3 DEF n

LEMMA NestedLook ==
  ASSUME NEW goal \in Looks, NEW spot, NEW levels \in Seq(LevelType), Nested(goal, spot, levels)
  PROVE  \/ Len(levels) = 1 /\ spot \in {EntryA, Sub} /\ spot \notin levels[1].left /\ levels[1].left \subseteq {EntryA, Sub}
         \/ /\ Len(levels) = 2 /\ spot = EntryB /\ spot \notin levels[2].left
            /\ levels[1].left \subseteq {EntryA} /\ levels[2].left \subseteq {EntryB}
<1> DEFINE n == Len(levels)
<1>1. n \in Nat /\ n >= 1 /\ DOMAIN levels = 1..n /\ levels[1].dir = Skills
  BY DEF Nested
<1>2. Kids(Skills) = {EntryA, Sub} /\ Kids(Sub) = {EntryB} /\ Kids(EntryA) = {} /\ Kids(EntryB) = {}
  BY SpotsDiffer DEF Kids
<1>3. spot \in Kids(levels[n].dir) \ levels[n].left
  BY DEF Nested
<1>4. \A i \in 1..n : i > 1 => levels[i].dir \in Kids(levels[i - 1].dir) \ levels[i - 1].left
  BY <1>1, Zenon DEF Nested
<1>5. \A i \in 1..n : levels[i].left \subseteq Kids(levels[i].dir)
  BY <1>1, Zenon DEF Nested
<1>6. n >= 2 => levels[2].dir \in {EntryA, Sub} \ levels[1].left
  <2> SUFFICES ASSUME n >= 2 PROVE levels[2].dir \in {EntryA, Sub} \ levels[1].left
    OBVIOUS
  <2>1. 2 \in 1..n /\ 2 > 1 /\ 2 - 1 = 1
    BY <1>1
  <2>2. levels[2].dir \in Kids(levels[2 - 1].dir) \ levels[2 - 1].left
    BY <1>4, <2>1
  <2> QED
    BY <1>1, <1>2, <2>1, <2>2
<1>7. n < 3
  <2> SUFFICES ASSUME n >= 3 PROVE FALSE
    BY <1>1
  <2>1. 3 \in 1..n /\ 3 > 1 /\ 3 - 1 = 2
    BY <1>1
  <2>2. levels[3].dir \in Kids(levels[3 - 1].dir) \ levels[3 - 1].left
    BY <1>4, <2>1
  <2>3. levels[3].dir = EntryB
    BY <1>2, <1>6, <2>1, <2>2
  <2>4. n # 3
    BY <1>2, <1>3, <2>3
  <2>5. 4 \in 1..n /\ 4 > 1 /\ 4 - 1 = 3
    BY <1>1, <2>4
  <2>6. levels[4].dir \in Kids(levels[4 - 1].dir) \ levels[4 - 1].left
    BY <1>4, <2>5
  <2> QED
    BY <1>2, <2>3, <2>5, <2>6
<1>8. CASE n = 1
  <2>1. 1 \in 1..n
    BY <1>8
  <2> QED
    BY <1>1, <1>2, <1>3, <1>5, <1>8, <2>1
<1>9. CASE n = 2
  <2>1. 1 \in 1..n /\ 2 \in 1..n
    BY <1>9
  <2>2. levels[2].dir = Sub
    BY <1>2, <1>3, <1>6, <1>9
  <2>3. levels[1].left \subseteq {EntryA} /\ levels[2].left \subseteq {EntryB}
    BY <1>1, <1>2, <1>5, <1>6, <1>9, <2>1, <2>2
  <2> QED
    BY <1>2, <1>3, <1>9, <2>2, <2>3
<1> QED
  BY <1>1, <1>7, <1>8, <1>9

LEMMA ReadHolds == ASSUME HoldsInv, ReadFile, ~GiveUp PROVE HoldsInv'
<1> DEFINE spot == copying.spot
           f == [root |-> Task.root, rel |-> spot, node |-> copying.file]
           files == session.files
           more == Append(files, f)
           bytes == copying.total.bytes + copying.file.size
<1>1. /\ copying.step = "read" /\ World /\ walk' = walk /\ ~(bytes > Task.item.maxBytes)
      /\ session' = [session EXCEPT !.files = more]
      /\ copying' = [copying EXCEPT !.step = "entry", !.file = NoNode, !.total.files = @ + 1, !.total.bytes = bytes]
  BY DEF ReadFile, Copied
<1>2. /\ Sharing(definition) /\ SharingHeld /\ CredsHeld /\ copying \in CopyType /\ session \in SessionType
      /\ walk \in Seq(LevelType) /\ Nested("read", spot, walk) /\ copying.task = 5
      /\ Task.item = Limits /\ Task.root = 1 /\ copying.step \in Walks /\ copying.step \in UnderWay
  BY <1>1, LooksAre, WalkingIs
<1>3. /\ copying.step \notin {"idle", "refused"} /\ "entry" \in Walks /\ "entry" \in UnderWay /\ "entry" \notin Looks
      /\ "entry" \notin {"list", "verify", "read", "task", "share", "ready", "idle", "mkdir"} /\ "entry" \in CopySteps
      /\ "read" \in Looks
  BY <1>1, LooksAre, StepsAre
<1>4. \/ Len(walk) = 1 /\ spot \in {EntryA, Sub} /\ spot \notin walk[1].left /\ walk[1].left \subseteq {EntryA, Sub}
      \/ /\ Len(walk) = 2 /\ spot = EntryB /\ spot \notin walk[2].left
         /\ walk[1].left \subseteq {EntryA} /\ walk[2].left \subseteq {EntryB}
  BY <1>2, <1>3, NestedLook
<1>5. spot \in {EntryA, Sub, EntryB} /\ spot # Config /\ DOMAIN walk = 1..Len(walk)
  BY <1>2, <1>4, SpotsDiffer
<1>6. /\ copying.total \in [files : Nat, bytes : Nat, entries : Nat] /\ copying.file \in NodeType
      /\ copying.total.files \in Nat /\ copying.total.bytes \in Nat /\ copying.file.size \in Nat /\ bytes \in Nat
  <2>1. copying.total \in [files : Nat, bytes : Nat, entries : Nat] /\ copying.file \in NodeType
    BY <1>2, CopyingParts
  <2>2. copying.total.files \in Nat /\ copying.total.bytes \in Nat /\ copying.file.size \in Nat
    BY <2>1 DEF NodeType
  <2> QED
    BY <2>1, <2>2
<1>7. copying.file.own /\ copying.total.files + 1 <= Limits.maxFiles /\ Limits.maxFiles \in {1, 2} /\ Limits.maxBytes = 3
  <2>1. copying.file.own
    BY <1>1, <1>2, Zenon DEF SharingHeld, FileHeld
  <2>2. copying.total.files + 1 <= Limits.maxFiles
    BY <1>1, <1>2, Zenon DEF SharingHeld, FileHeld
  <2> QED
    BY <1>2, <2>1, <2>2, LimitsAre
<1>8. f \in FileType /\ f.rel = spot /\ f.node = copying.file
  BY <1>2, <1>5, <1>6 DEF FileType
<1> HIDE DEF f
<1>9. /\ FilesWell(files) /\ copying.total.files = Len(files) - Lead(files) /\ copying.total.bytes = Bytes(files)
      /\ Rels(files) \cap Pending("read", spot, walk) = {} /\ files \in Seq(FileType) /\ Len(files) \in Nat
      /\ Lead(files) \in {0, 1}
  <2>1. /\ FilesWell(files) /\ copying.total.files = Len(files) - Lead(files) /\ copying.total.bytes = Bytes(files)
    BY <1>2 DEF SharingHeld, FilesHeld
  <2>2. Rels(files) \cap Pending("read", spot, walk) = {}
    BY <1>1, <1>2 DEF SharingHeld, WalkHeld
  <2>3. files \in Seq(FileType)
    BY <1>2, SessionParts
  <2> QED
    BY <2>1, <2>2, <2>3 DEF Lead
<1>10. spot \in Pending("read", spot, walk) /\ spot \notin Rels(files)
  <2>1. spot \in ToCome("read", spot, walk) /\ spot \in Under(spot)
    BY <1>3 DEF ToCome, Under
  <2> QED
    BY <1>9, <2>1 DEF Pending
<1>11. f.rel # Config /\ f.rel \notin Rels(files) /\ f.node.own /\ Len(files) <= Lead(files) + 1
  <2>1. f.node.own
    BY <1>7, <1>8, Zenon
  <2>2. Len(files) <= Lead(files) + 1
    BY <1>7, <1>9
  <2> QED
    BY <1>5, <1>8, <1>10, <2>1, <2>2, Zenon
<1>12. /\ FilesWell(more) /\ Lead(more) = Lead(files) /\ Bytes(more) = Bytes(files) + f.node.size
       /\ Len(files) >= Lead(files)
  BY <1>8, <1>9, <1>11, AddingEntry, Zenon
<1>13. /\ more \in Seq(FileType) /\ Len(more) = Len(files) + 1 /\ Rels(more) = Rels(files) \union {spot}
  BY <1>8, <1>9, Adding
<1>14. session' \in SessionType /\ session'.files = more /\ session'.creds = session.creds
  BY <1>1, <1>2, <1>13, SessionParts
<1>15. /\ copying' \in CopyType /\ copying'.step = "entry" /\ copying'.task = 5 /\ copying'.spot = spot
       /\ copying'.total.files = copying.total.files + 1 /\ copying'.total.bytes = bytes
  <2> DEFINE total == [copying.total EXCEPT !.files = @ + 1, !.bytes = bytes]
  <2>1. copying' = [copying EXCEPT !.step = "entry", !.file = NoNode, !.total = total]
    <3>1. copying = [step |-> copying.step, task |-> copying.task, spot |-> spot, file |-> copying.file, total |-> copying.total]
      BY <1>2 DEF CopyType
    <3>2. copying.total = [files |-> copying.total.files, bytes |-> copying.total.bytes, entries |-> copying.total.entries]
      BY <1>6
    <3> QED
      BY <1>1, <3>1, <3>2
  <2>2. /\ total \in [files : Nat, bytes : Nat, entries : Nat]
        /\ total.files = copying.total.files + 1 /\ total.bytes = bytes
    BY <1>6, TotalsGo, Zenon
  <2> HIDE DEF total, bytes
  <2>3. NoNode \in NodeType
    BY KindsOfNodes
  <2> QED
    BY <1>2, <1>3, <2>1, <2>2, <2>3 DEF CopyType
<1> HIDE DEF more
<1>16. CredsHeld'
  BY <1>1, <1>2, <1>14, CredsStay DEF World
<1>17. SharingAt'
  BY <1>1, <1>2, <1>3, <1>14, <1>15 DEF SharingHeld, SharingAt
<1>18. FilesHeld'
  <2>1. Limits' = Limits
    BY <1>1 DEF World, Limits
  <2>2. Bytes(more) = bytes /\ bytes <= Limits.maxBytes
    BY <1>1, <1>2, <1>6, <1>7, <1>8, <1>9, <1>12
  <2>3. Len(more) <= Lead(more) + Limits.maxFiles /\ copying'.total.files = Len(more) - Lead(more)
    BY <1>7, <1>9, <1>12, <1>13, <1>15
  <2> QED
    BY <1>3, <1>12, <1>14, <1>15, <2>1, <2>2, <2>3 DEF FilesHeld
<1>19. /\ Pending("entry", spot, walk) \subseteq Pending("read", spot, walk)
       /\ spot \notin Pending("entry", spot, walk)
       /\ Pending("read", spot, walk) \subseteq Pending("entry", spot, walk) \union Under(spot)
  <2>1. /\ ToCome("read", spot, walk) = ToCome("entry", spot, walk) \union {spot}
        /\ ToCome("entry", spot, walk) = UNION {walk[i].left : i \in DOMAIN walk}
    BY <1>3 DEF ToCome
  <2>2. ASSUME NEW p \in ToCome("entry", spot, walk) PROVE spot \notin Under(p)
    <3>1. PICK i \in DOMAIN walk : p \in walk[i].left
      BY <2>1, <2>2
    <3>2. CASE Len(walk) = 1 /\ spot \in {EntryA, Sub} /\ spot \notin walk[1].left /\ walk[1].left \subseteq {EntryA, Sub}
      <4>1. i = 1
        BY <1>5, <3>1, <3>2
      <4> QED
        BY <3>1, <3>2, <4>1, SpotsDiffer DEF Under
    <3>3. CASE /\ Len(walk) = 2 /\ spot = EntryB /\ spot \notin walk[2].left
               /\ walk[1].left \subseteq {EntryA} /\ walk[2].left \subseteq {EntryB}
      <4>1. i = 1 \/ i = 2
        BY <1>5, <3>1, <3>3
      <4> QED
        BY <3>1, <3>3, <4>1, SpotsDiffer DEF Under
    <3> QED
      BY <1>4, <3>2, <3>3
  <2> QED
    BY <2>1, <2>2 DEF Pending
<1>20. Nested("entry", spot, walk)
  BY <1>2, <1>3 DEF Nested
<1>21. WalkHeld'
  <2>1. Rels(more) \cap Pending("entry", spot, walk) = {}
    BY <1>9, <1>13, <1>19
  <2> QED
    BY <1>1, <1>14, <1>15, <1>20, <2>1 DEF WalkHeld
<1>22. FileHeld'
  BY <1>3, <1>15 DEF FileHeld
<1>23. NoneForgotten'
  <2> SUFFICES ASSUME "tree" \notin changed PROVE NoneForgotten'
    BY <1>1 DEF NoneForgotten, World
  <2>1. /\ Config \in Rels(files) <=> tree[Config].kind = "file"
        /\ {EntryA, EntryB} \subseteq Rels(files) \union Pending("read", spot, walk)
        /\ Sub \notin Rels(files) /\ spot # Sub
    BY <1>1, <1>2, <1>3 DEF SharingHeld, NoneForgotten
  <2>2. Under(spot) = {spot}
    BY <2>1 DEF Under
  <2>3. {EntryA, EntryB} \subseteq Rels(more) \union Pending("entry", spot, walk)
    BY <1>13, <1>19, <2>1, <2>2
  <2>4. (Config \in Rels(more) <=> tree[Config].kind = "file") /\ Sub \notin Rels(more)
    BY <1>5, <1>13, <2>1
  <2> QED
    BY <1>1, <1>3, <1>14, <1>15, <2>3, <2>4 DEF NoneForgotten, World
<1>24. Held'
  BY <1>1, <1>2, <1>16, <1>17, <1>18, <1>21, <1>22, <1>23, SharingNotTwo DEF Held, SharingHeld, World
<1> QED
  BY <1>1, <1>2, <1>3, <1>14, <1>15, <1>24, Frame

-----------------------------------------------------------------------------
(* Failures and other programs *)

LEMMA FailsHolds == ASSUME HoldsInv, OperationFails PROVE HoldsInv'
<1>1. copying.step \notin {"idle", "refused"} /\ Goes("cleanup") /\ World /\ walk' = walk /\ session' = session
  BY DEF OperationFails
<1>2. copying' \in CopyType /\ copying'.step = "cleanup"
  <2>1. "cleanup" \in CopySteps
    BY DEF CopySteps
  <2> QED
    BY <1>1, <2>1, GoesTo DEF HoldsInv
<1>3. session' \in SessionType /\ walk' \in Seq(LevelType)
  BY <1>1 DEF HoldsInv
<1> QED
  BY <1>1, <1>2, <1>3, Frame, StepsAre

LEMMA CleanUpHolds == ASSUME HoldsInv, CleanUp PROVE HoldsInv'
<1>1. /\ copying.step = "cleanup" /\ World /\ walk' = <<>> /\ copying' = [NoCopying EXCEPT !.step = "refused"]
      /\ \/ session' = [NoSession EXCEPT !.exists = IF session.exists = "others" THEN "lost" ELSE "none"]
         \/ session' = [session EXCEPT !.exists = "stuck"]
  BY DEF CleanUp
<1>2. copying' \in CopyType /\ copying'.step = "refused"
  BY <1>1, KindsOfNodes, NoTotalsTyped DEF NoCopying, CopyType, CopySteps
<1>3. session' \in SessionType
  <2>1. NoSession \in SessionType
    <3>1. <<>> \in Seq(CredType) /\ <<>> \in Seq(FileType)
      OBVIOUS
    <3> QED
      BY <3>1 DEF NoSession, SessionType
  <2>2. session \in SessionType
    BY DEF HoldsInv
  <2>3. PICK e \in {"lost", "none"} : session' = [NoSession EXCEPT !.exists = e] \/ session' = [session EXCEPT !.exists = "stuck"]
    BY <1>1
  <2> QED
    BY <2>1, <2>2, <2>3, SessionParts
<1>4. walk' \in Seq(LevelType)
  BY <1>1
<1> QED
  BY <1>1, <1>2, <1>3, <1>4, Frame, StepsAre

\* What others change is what the copy has not remembered.
LEMMA OthersHold ==
  ASSUME HoldsInv, Rewriting, TreeKnown', ProfileKnown',
         changed \subseteq changed', changed' \subseteq {"tree", "profile"},
         "profile" \notin changed' => credentials' = credentials, "tree" \notin changed' => tree' = tree,
         copying' \in CopyType, copying'.step = copying.step, copying'.task = copying.task, copying'.spot = copying.spot,
         copying'.total = copying.total, FileHeld => FileHeld'
  PROVE  HoldsInv'
<1>1. /\ rewrites' = rewrites + 1 /\ definition' = definition /\ walk' = walk /\ session' = session
      /\ copying.step \notin {"idle", "refused", "ready"}
  BY DEF Rewriting
<1>2. /\ rewrites' \in Nat /\ session' \in SessionType /\ walk' \in Seq(LevelType)
      /\ (copying'.step \in {"idle", "mkdir"} => Blank')
      /\ (copying'.step \notin {"idle", "refused"} => Sharing(definition') \/ definition' = TwoRoots)
  BY <1>1 DEF HoldsInv, Blank
<1>3. ASSUME copying.step \in UnderWay PROVE Held'
  <2>1. CredsHeld /\ (Sharing(definition) => SharingHeld) /\ (definition = TwoRoots => TwoRootsHeld)
    BY <1>3 DEF HoldsInv
  <2>2. CredsHeld'
    BY <1>1, <2>1 DEF CredsHeld
  <2>3. definition = TwoRoots => TwoRootsHeld'
    BY <1>1, <2>1 DEF TwoRootsHeld, TwoRootsAt
  <2>4. ASSUME Sharing(definition) PROVE SharingHeld'
    <3>1. SharingAt' /\ FilesHeld' /\ WalkHeld'
      <4>1. Limits' = Limits
        BY <1>1 DEF Limits
      <4>2. SharingAt'
        BY <1>1, <2>1, <2>4 DEF SharingHeld, SharingAt
      <4>3. FilesHeld'
        BY <1>1, <2>1, <2>4, <4>1 DEF SharingHeld, FilesHeld
      <4>4. WalkHeld'
        BY <1>1, <2>1, <2>4 DEF SharingHeld, WalkHeld
      <4> QED
        BY <4>2, <4>3, <4>4
    <3>2. FileHeld'
      BY <2>1, <2>4 DEF SharingHeld
    <3>3. NoneForgotten'
      <4>1. NoneForgotten
        BY <2>1, <2>4 DEF SharingHeld
      <4> QED
        BY <1>1, <4>1 DEF NoneForgotten
    <3> QED
      BY <3>1, <3>2, <3>3 DEF SharingHeld
  <2> QED
    BY <1>1, <2>2, <2>3, <2>4 DEF Held
<1> QED
  BY <1>1, <1>2, <1>3 DEF HoldsInv, Held

LEMMA ProfileHolds == ASSUME HoldsInv, ChangeProfile PROVE HoldsInv'
<1>1. Rewriting /\ changed' = changed \union {"profile"} /\ tree' = tree /\ copying' = copying
  BY DEF ChangeProfile
<1>2. definition' = definition
  BY <1>1 DEF Rewriting
<1>3. credentials' \in [Credential -> Nat]
  <2>1. credentials \in [Credential -> Nat]
    BY DEF HoldsInv, ProfileKnown
  <2>2. PICK c \in Credential : \/ credentials' = [credentials EXCEPT ![c] = IF @ = 0 THEN 0 ELSE @ + 1]
                                \/ credentials' = [credentials EXCEPT ![c] = 0]
    BY DEF ChangeProfile
  <2>3. credentials[c] \in Nat /\ (IF credentials[c] = 0 THEN 0 ELSE credentials[c] + 1) \in Nat
    BY <2>1
  <2> QED
    BY <2>1, <2>2, <2>3
<1>4. ProfileKnown'
  BY <1>1, <1>3 DEF ProfileKnown
<1>5. TreeKnown'
  BY <1>1 DEF HoldsInv, TreeKnown
<1>6. FileHeld => FileHeld'
  BY <1>1, <1>2 DEF FileHeld, Limits
<1> QED
  BY <1>1, <1>4, <1>5, <1>6, OthersHold DEF HoldsInv

LEMMA ReplaceHolds == ASSUME HoldsInv, ReplaceEntry PROVE HoldsInv'
<1>1. Rewriting /\ changed' = changed \union {"tree"} /\ credentials' = credentials /\ copying' = copying
  BY DEF ReplaceEntry
<1>2. definition' = definition
  BY <1>1 DEF Rewriting
<1> DEFINE new == 10 + rewrites
<1>3. PICK spot \in Spot, node \in {Node("file", new), Node("dir", new), Node("link", new), HardLink(new), NoNode} :
        tree' = [s \in Spot |-> IF s = spot THEN node ELSE IF IsPrefix(spot, s) THEN NoNode ELSE tree[s]]
  BY DEF ReplaceEntry
<1>4. new \in Nat /\ new # 1
  BY DEF HoldsInv
<1> HIDE DEF new
<1>5. \A n \in {node, NoNode} : n \in NodeType /\ n.id # 1 /\ (n.links = 1 => n.own)
  <2>1. NoNode \in NodeType /\ NoNode.id # 1 /\ NoNode.own
    BY KindsOfNodes
  <2>2. HardLink(new) \in NodeType /\ HardLink(new).id # 1 /\ HardLink(new).links # 1
    BY <1>4, KindsOfNodes
  <2>3. \A kind \in {"file", "dir", "link"} : Node(kind, new) \in NodeType /\ Node(kind, new).id # 1 /\ Node(kind, new).own
    BY <1>4, KindsOfNodes
  <2> QED
    BY <1>3, <2>1, <2>2, <2>3, Zenon
<1>6. tree \in [Spot -> NodeType] /\ \A s \in Spot : tree[s].id # 1 /\ (tree[s].links = 1 => tree[s].own)
  BY Zenon DEF HoldsInv, TreeKnown
<1>7. \A s \in Spot : tree'[s] \in {node, NoNode, tree[s]}
  BY <1>3
<1>8. tree' \in [Spot -> NodeType]
  BY <1>3, <1>5, <1>6
<1>9. \A s \in Spot : tree'[s].id # 1 /\ (tree'[s].links = 1 => tree'[s].own)
  <2> TAKE s \in Spot
  <2>1. CASE tree'[s] \in {node, NoNode}
    BY <1>5, <2>1, Zenon
  <2>2. CASE tree'[s] = tree[s]
    BY <1>6, <2>2, Zenon
  <2> QED
    BY <1>7, <2>1, <2>2
<1>10. TreeKnown'
  BY <1>1, <1>8, <1>9, Zenon DEF TreeKnown
<1>11. ProfileKnown'
  BY <1>1 DEF HoldsInv, ProfileKnown
<1>12. FileHeld => FileHeld'
  BY <1>1, <1>2 DEF FileHeld, Limits
<1> QED
  BY <1>1, <1>10, <1>11, <1>12, OthersHold DEF HoldsInv

LEMMA Grown ==
  ASSUME NEW node \in NodeType
  PROVE  LET n == [node EXCEPT !.size = @ + 1]
         IN  /\ n \in NodeType /\ n.kind = node.kind /\ n.id = node.id /\ n.links = node.links /\ n.own = node.own
<1> DEFINE size == node.size + 1
           n == [node EXCEPT !.size = size]
<1>1. size \in Nat
  BY DEF NodeType
<1>2. [node EXCEPT !.size = @ + 1] = n
  BY Zenon
<1> HIDE DEF size
<1>3. n \in NodeType /\ n.kind = node.kind /\ n.id = node.id /\ n.links = node.links /\ n.own = node.own
  BY <1>1 DEF NodeType
<1> QED
  BY <1>2, <1>3, Zenon

LEMMA GrowHolds == ASSUME HoldsInv, GrowFile PROVE HoldsInv'
<1>1. Rewriting /\ changed' = changed \union {"tree"} /\ credentials' = credentials
  BY DEF GrowFile
<1>2. definition' = definition
  BY <1>1 DEF Rewriting
<1>3. PICK spot \in Spot : /\ tree' = [tree EXCEPT ![spot].size = @ + 1]
                           /\ copying' = copying \/ copying' = [copying EXCEPT !.file.size = @ + 1]
  BY DEF GrowFile
<1>4. tree \in [Spot -> NodeType] /\ \A s \in Spot : tree[s].id # 1 /\ (tree[s].links = 1 => tree[s].own)
  BY Zenon DEF HoldsInv, TreeKnown
<1> DEFINE n == [tree[spot] EXCEPT !.size = @ + 1]
<1>5. tree' = [tree EXCEPT ![spot] = n]
  BY <1>3, Zenon
<1>6. n \in NodeType /\ n.id = tree[spot].id /\ n.links = tree[spot].links /\ n.own = tree[spot].own
  BY <1>4, Grown
<1> HIDE DEF n
<1>7. TreeKnown'
  <2>1. tree' \in [Spot -> NodeType] /\ \A s \in Spot : tree'[s] = IF s = spot THEN n ELSE tree[s]
    BY <1>4, <1>5, <1>6
  <2>2. \A s \in Spot : tree'[s].id # 1 /\ (tree'[s].links = 1 => tree'[s].own)
    <3> TAKE s \in Spot
    <3>1. CASE s = spot
      BY <1>4, <1>6, <2>1, <3>1, Zenon
    <3>2. CASE s # spot
      BY <1>4, <2>1, <3>2, Zenon
    <3> QED
      BY <3>1, <3>2
  <2> QED
    BY <1>1, <2>1, <2>2, Zenon DEF TreeKnown
<1>8. ProfileKnown'
  BY <1>1 DEF HoldsInv, ProfileKnown
<1>9. copying \in CopyType
  BY DEF HoldsInv
<1>10. CASE copying' = copying
  <2>1. FileHeld => FileHeld'
    BY <1>2, <1>10 DEF FileHeld, Limits
  <2> QED
    BY <1>1, <1>7, <1>8, <1>9, <1>10, <2>1, OthersHold DEF HoldsInv
<1>11. CASE copying' = [copying EXCEPT !.file.size = @ + 1]
  <2> DEFINE file == [copying.file EXCEPT !.size = @ + 1]
  <2>1. copying' = [copying EXCEPT !.file = file]
    BY <1>11, Zenon
  <2>2. /\ file \in NodeType /\ file.kind = copying.file.kind /\ file.id = copying.file.id
        /\ file.links = copying.file.links /\ file.own = copying.file.own
    BY <1>9, CopyingParts, Grown
  <2> HIDE DEF file
  <2>3. /\ copying' \in CopyType /\ copying'.step = copying.step /\ copying'.task = copying.task
        /\ copying'.spot = copying.spot /\ copying'.total = copying.total /\ copying'.file = file
    BY <1>9, <2>1, <2>2 DEF CopyType
  <2>4. FileHeld => FileHeld'
    BY <1>2, <2>2, <2>3, Zenon DEF FileHeld, Limits
  <2> QED
    BY <1>1, <1>7, <1>8, <2>3, <2>4, OthersHold DEF HoldsInv
<1> QED
  BY <1>3, <1>10, <1>11

LEMMA HoldsStep == HoldsInv /\ [CopyNext]_copyVars => HoldsInv'
<1> SUFFICES ASSUME HoldsInv, [CopyNext]_copyVars PROVE HoldsInv'
  OBVIOUS
<1>1. CASE UNCHANGED copyVars
  BY <1>1 DEF copyVars, HoldsInv, TreeKnown, ProfileKnown, Blank, CredsHeld, SharingHeld, TwoRootsHeld, TwoRootsAt,
              SharingAt, FilesHeld, WalkHeld, FileHeld, NoneForgotten, Limits
<1>2. CASE GiveUp /\ World /\ copying.step \notin {"idle", "refused"}
  BY <1>2, GiveUpHolds
<1>3. CASE PlanSession \/ MakeSession \/ MakeRoot
  BY <1>3, PlanHolds, MakeSessionHolds, MakeRootHolds
<1>4. CASE CopyCred \/ LookShare \/ CopyShare \/ LookShareDir
  <2>1. World /\ copying.step \notin {"idle", "refused"}
    BY <1>4 DEF CopyCred, LookShare, CopyShare, LookShareDir
  <2> QED
    BY <1>2, <1>4, <2>1, CopyCredHolds, LookShareHolds, CopyShareHolds, LookShareDirHolds
<1>5. CASE ListDirectory \/ NextEntry \/ LookEntry \/ CheckContained
  <2>1. World /\ copying.step \notin {"idle", "refused"}
    BY <1>5 DEF ListDirectory, NextEntry, LookEntry, CheckContained
  <2> QED
    BY <1>2, <1>5, <2>1, ListHolds, NextEntryHolds, LookEntryHolds, ContainHolds
<1>6. CASE OpenFile \/ VerifyFile \/ ReadFile
  <2>1. World /\ copying.step \notin {"idle", "refused"}
    BY <1>6 DEF OpenFile, VerifyFile, ReadFile
  <2> QED
    BY <1>2, <1>6, <2>1, OpenHolds, VerifyHolds, ReadHolds
<1>7. CASE OperationFails \/ CleanUp \/ ChangeProfile \/ ReplaceEntry \/ GrowFile
  BY <1>7, FailsHolds, CleanUpHolds, ProfileHolds, ReplaceHolds, GrowHolds
<1> QED
  BY <1>1, <1>3, <1>4, <1>5, <1>6, <1>7 DEF CopyNext

-----------------------------------------------------------------------------
(* What a session that starts holds *)

DirsOf(def) == UNION {Range(def.roots[r].shareDirs) : r \in DOMAIN def.roots}
FilesIn(d) == {i \in DOMAIN session.files : session.files[i].rel[1] = d.rel[1]}
PlacesOf(s) == [i \in DOMAIN s |-> <<s[i].root, s[i].rel>>]
SizeIn(d) == FoldSet(LAMBDA i, sum : sum + session.files[i].node.size, 0, FilesIn(d))

LEMMA DirsAre ==
  /\ Sharing(definition) => DirsOf(definition) = {Limits}
  /\ definition = TwoRoots => DirsOf(definition) = {}
<1>1. ASSUME Sharing(definition) PROVE DirsOf(definition) = {Limits}
  <2>1. DOMAIN definition.roots = {1} /\ DOMAIN definition.roots[1].shareDirs = {1}
    BY <1>1 DEF Sharing
  <2>2. Range(definition.roots[1].shareDirs) = {Limits}
    BY <2>1 DEF Range, Limits
  <2> QED
    BY <2>1, <2>2 DEF DirsOf
<1>2. ASSUME definition = TwoRoots PROVE DirsOf(definition) = {}
  <2>1. definition.roots = <<HomeOnly, DataOf>>
    BY <1>2, PlansAre
  <2>2. HomeOnly.shareDirs = <<>> /\ DataOf.shareDirs = <<>>
    BY DEF HomeOnly, DataOf, Root
  <2>3. Range(<<>>) = {}
    BY DEF Range
  <2>4. DOMAIN definition.roots = {1, 2} /\ definition.roots[1] = HomeOnly /\ definition.roots[2] = DataOf
    BY <2>1
  <2> QED
    BY <2>2, <2>3, <2>4 DEF DirsOf
<1> QED
  BY <1>1, <1>2

LEMMA ReadyIs ==
  ASSUME HoldsInv, copying.step = "ready"
  PROVE  /\ CredsHeld /\ session \in SessionType /\ session.creds \in Seq(CredType) /\ session.files \in Seq(FileType)
         /\ Len(session.creds) = 2 /\ DOMAIN session.creds = {1, 2} /\ session.creds[1] \in CredType /\ session.creds[2] \in CredType
         /\ \/ Sharing(definition) /\ SharingHeld /\ copying.task = 6
            \/ definition = TwoRoots /\ TwoRootsHeld /\ session.files = <<>>
<1>1. copying.step \in UnderWay /\ copying.step \notin {"idle", "refused"}
  BY DEF UnderWay
<1>2. CredsHeld /\ session \in SessionType /\ session.creds \in Seq(CredType) /\ session.files \in Seq(FileType)
  BY <1>1, SessionParts DEF HoldsInv
<1>3. \/ Sharing(definition) /\ SharingHeld /\ copying.task = 6 /\ Len(session.creds) = 2
      \/ definition = TwoRoots /\ TwoRootsHeld /\ session.files = <<>> /\ Len(session.creds) = 2
  <2>1. CASE Sharing(definition)
    <3>1. SharingHeld
      BY <1>1, <2>1 DEF HoldsInv
    <3> QED
      BY <2>1, <3>1 DEF SharingHeld, SharingAt
  <2>2. CASE definition = TwoRoots
    <3>1. TwoRootsHeld
      BY <1>1, <2>2 DEF HoldsInv
    <3> QED
      BY <2>2, <3>1 DEF TwoRootsHeld, TwoRootsAt
  <2> QED
    BY <1>1, <2>1, <2>2 DEF HoldsInv
<1> QED
  BY <1>2, <1>3

LEMMA EveryCredential ==
  ASSUME HoldsInv, copying.step = "ready"
  PROVE  [i \in DOMAIN session.creds |-> session.creds[i].saveAs] \in
           {[i \in 1..2 |-> definition.sources[p[i]].saveAs] : p \in {<<1, 2>>, <<2, 1>>}}
<1>1. /\ DOMAIN session.creds = {1, 2} /\ session.creds[1].saveAs = "auth" /\ session.creds[2].saveAs = "key"
      /\ definition.sources = <<SrcAuth, SrcKey>> \/ definition.sources = <<SrcAuth, SrcAway>>
  <2>1. DOMAIN session.creds = {1, 2} /\ session.creds[1].saveAs = "auth" /\ session.creds[2].saveAs = "key"
    BY ReadyIs DEF CredsHeld
  <2>2. definition.sources = <<SrcAuth, SrcKey>> \/ definition.sources = <<SrcAuth, SrcAway>>
    BY ReadyIs, PlansAre DEF Sharing
  <2> QED
    BY <2>1, <2>2
<1>2. definition.sources[1].saveAs = "auth" /\ definition.sources[2].saveAs = "key"
  BY <1>1, SrcsAre
<1> DEFINE p == <<1, 2>>
<1>3. [i \in 1..2 |-> definition.sources[p[i]].saveAs] = [i \in DOMAIN session.creds |-> session.creds[i].saveAs]
  <2>1. 1..2 = {1, 2} /\ p[1] = 1 /\ p[2] = 2
    OBVIOUS
  <2> HIDE DEF p
  <2>2. \A i \in 1..2 : definition.sources[p[i]].saveAs = session.creds[i].saveAs
    BY <1>1, <1>2, <2>1
  <2>3. 1..2 = DOMAIN session.creds
    BY <1>1, <2>1
  <2> QED
    BY <2>2, <2>3
<1> QED
  BY <1>3

LEMMA RelsDiffer ==
  /\ <<"auth">> # <<"key">>
  /\ {<<"auth">>, <<"key">>} \cap {Config, EntryA, Sub, EntryB} = {}
<1>1. Len(<<"auth">>) = 1 /\ Len(<<"key">>) = 1
  OBVIOUS
<1>2. <<"auth">> # Config /\ <<"key">> # Config /\ <<"auth">> # <<"key">>
  BY DEF Config
<1> QED
  BY <1>1, <1>2, LengthsAre

LEMMA PlacesApart ==
  ASSUME HoldsInv, copying.step = "ready"
  PROVE  IsInjective(PlacesOf(session.creds) \o PlacesOf(session.files))
<1> DEFINE s == PlacesOf(session.creds)
           t == PlacesOf(session.files)
           n == Len(session.files)
           P == {1, 2} \X {<<"auth">>, <<"key">>, Config, EntryA, Sub, EntryB}
           u == s \o t
<1>1. n \in Nat /\ DOMAIN session.files = 1..n /\ \A i \in 1..n : session.files[i] \in FileType
  BY ReadyIs
<1>2. /\ s = [i \in 1..2 |-> <<session.creds[i].root, session.creds[i].rel>>]
      /\ t = [i \in 1..n |-> <<session.files[i].root, session.files[i].rel>>]
  <2>1. DOMAIN session.creds = 1..2
    BY ReadyIs
  <2> QED
    BY <1>1, <2>1 DEF PlacesOf
<1>3. /\ session.creds[1].rel = <<"auth">> /\ session.creds[2].rel = <<"key">>
      /\ session.creds[1].root \in {1, 2} /\ session.creds[2].root \in {1, 2}
  BY ReadyIs DEF CredsHeld, CredType
<1>4. \A i \in 1..n : session.files[i].root \in {1, 2} /\ session.files[i].rel \in {Config, EntryA, Sub, EntryB}
  BY <1>1 DEF FileType
<1>5. s \in Seq(P) /\ Len(s) = 2 /\ \A i \in 1..2 : s[i] = <<session.creds[i].root, session.creds[i].rel>>
  <2>1. \A i \in 1..2 : <<session.creds[i].root, session.creds[i].rel>> \in P
    BY <1>3
  <2> QED
    BY <1>2, <2>1
<1>6. t \in Seq(P) /\ Len(t) = n /\ \A i \in 1..n : t[i] = <<session.files[i].root, session.files[i].rel>>
  <2>1. \A i \in 1..n : <<session.files[i].root, session.files[i].rel>> \in P
    BY <1>4
  <2> QED
    BY <1>1, <1>2, <2>1
<1>7. /\ u \in Seq(P) /\ Len(u) = 2 + n
      /\ \A i \in 1..(2 + n) : u[i] = IF i <= 2 THEN s[i] ELSE t[i - 2]
  <2>1. s \in Seq(P) /\ t \in Seq(P)
    BY <1>5, <1>6
  <2> HIDE DEF s, t, P
  <2>2. /\ u \in Seq(P) /\ Len(u) = Len(s) + Len(t)
        /\ \A i \in 1..(Len(s) + Len(t)) : u[i] = IF i <= Len(s) THEN s[i] ELSE t[i - Len(s)]
    BY <2>1, Joined, Zenon
  <2> HIDE DEF u
  <2> QED
    BY <1>5, <1>6, <2>2
<1>8. \A i, j \in 1..n : session.files[i].rel = session.files[j].rel => i = j
  <2>1. CASE Sharing(definition) /\ SharingHeld
    BY <1>1, <2>1 DEF SharingHeld, FilesHeld, FilesWell
  <2>2. CASE session.files = <<>>
    BY <2>2
  <2> QED
    BY <2>1, <2>2, ReadyIs
<1>9. s[1][2] = <<"auth">> /\ s[2][2] = <<"key">> /\ \A i \in 1..n : t[i][2] = session.files[i].rel
  BY <1>3, <1>5, <1>6
<1> HIDE DEF s, t, u, P, n
<1>10. DOMAIN u = 1..(2 + n)
  BY <1>7
<1>11. ASSUME NEW i \in 1..(2 + n), NEW j \in 1..(2 + n), u[i] = u[j] PROVE i = j
  <2>1. /\ i \in {1, 2} => u[i] = s[i]
        /\ i \notin {1, 2} => i - 2 \in 1..n /\ u[i] = t[i - 2]
        /\ j \in {1, 2} => u[j] = s[j]
        /\ j \notin {1, 2} => j - 2 \in 1..n /\ u[j] = t[j - 2]
    BY <1>1, <1>7
  <2>2. CASE i \in {1, 2} /\ j \in {1, 2}
    BY <1>9, <1>11, <2>1, <2>2, RelsDiffer
  <2>3. CASE i \in {1, 2} /\ j \notin {1, 2}
    <3>1. s[i][2] = session.files[j - 2].rel /\ j - 2 \in 1..n
      BY <1>9, <1>11, <2>1, <2>3
    <3> QED
      BY <1>4, <1>9, <2>3, <3>1, RelsDiffer
  <2>4. CASE i \notin {1, 2} /\ j \in {1, 2}
    <3>1. s[j][2] = session.files[i - 2].rel /\ i - 2 \in 1..n
      BY <1>9, <1>11, <2>1, <2>4
    <3> QED
      BY <1>4, <1>9, <2>4, <3>1, RelsDiffer
  <2>5. CASE i \notin {1, 2} /\ j \notin {1, 2}
    <3>1. session.files[i - 2].rel = session.files[j - 2].rel
      BY <1>9, <1>11, <2>1, <2>5
    <3>2. i - 2 = j - 2
      BY <1>8, <2>1, <2>5, <3>1
    <3> QED
      BY <3>2
  <2> QED
    BY <2>2, <2>3, <2>4, <2>5
<1> QED
  BY <1>10, <1>11 DEF IsInjective, u, s, t

LEMMA FilesInAre ==
  ASSUME HoldsInv, copying.step = "ready", Sharing(definition), SharingHeld
  PROVE  /\ \A i \in FilesIn(Limits) : session.files[i].node.own
         /\ Cardinality(FilesIn(Limits)) <= Limits.maxFiles
         /\ SizeIn(Limits) <= Limits.maxBytes
<1> DEFINE files == session.files
           n == Len(files)
           m == Lead(files)
           S == FilesIn(Limits)
<1>1. /\ n \in Nat /\ DOMAIN files = 1..n /\ m \in {0, 1} /\ m <= n /\ (m = 1 => files[1].rel = Config)
      /\ \A i \in 1..n : files[i] \in FileType
  BY ReadyIs DEF Lead
<1>2. FilesWell(files) /\ n <= m + Limits.maxFiles /\ Bytes(files) <= Limits.maxBytes
  BY DEF SharingHeld, FilesHeld
<1>3. Limits.maxFiles \in {1, 2} /\ Limits.maxBytes = 3 /\ Limits.rel[1] = "skills"
  BY LimitsAre DEF Skills
<1>4. \A r \in {Config, EntryA, Sub, EntryB} : r[1] = "skills" <=> r # Config
  <2>1. Config[1] # "skills" /\ EntryA[1] = "skills" /\ Sub[1] = "skills" /\ EntryB[1] = "skills"
    BY DEF Config, EntryA, Sub, EntryB
  <2> QED
    BY <2>1, SpotsDiffer
<1>5. \A i \in 1..n : files[i].rel \in {Config, EntryA, Sub, EntryB} /\ files[i].node.size \in Nat
  BY <1>1 DEF FileType, NodeType
<1>6. \A i \in 1..n : i > m => files[i].rel # Config /\ files[i].node.own
  BY <1>1, <1>2, Zenon DEF FilesWell
<1>7. \A i \in 1..n : i \in S <=> i > m
  <2>1. \A i \in 1..n : i \in S <=> files[i].rel # Config
    BY <1>1, <1>3, <1>4, <1>5 DEF FilesIn
  <2>2. \A i \in 1..n : i > m => files[i].rel # Config
    BY <1>6, Zenon
  <2>3. \A i \in 1..n : ~(i > m) => i = 1 /\ m = 1
    BY <1>1
  <2> QED
    BY <1>1, <2>1, <2>2, <2>3
<1>8. S \subseteq 1..n
  BY <1>1 DEF FilesIn
<1>9. \A i \in S : files[i].node.own
  BY <1>6, <1>7, <1>8, Zenon
<1> HIDE DEF S, n, m
<1>10. \/ n = m /\ S = {}
       \/ n = m + 1 /\ S = {m + 1}
       \/ n = m + 2 /\ S = {m + 1, m + 2} /\ Limits.maxFiles = 2
  <2>1. n = m \/ n = m + 1 \/ (n = m + 2 /\ Limits.maxFiles = 2)
    BY <1>1, <1>2, <1>3
  <2>2. ASSUME n = m PROVE S = {}
    BY <1>1, <1>7, <1>8, <2>2
  <2>3. ASSUME n = m + 1 PROVE S = {m + 1}
    <3>1. m + 1 \in 1..n /\ \A i \in 1..n : i > m <=> i = m + 1
      BY <1>1, <2>3
    <3> QED
      BY <1>7, <1>8, <3>1, Zenon
  <2>4. ASSUME n = m + 2 PROVE S = {m + 1, m + 2}
    <3>1. m + 1 \in 1..n /\ m + 2 \in 1..n /\ \A i \in 1..n : i > m <=> (i = m + 1 \/ i = m + 2)
      BY <1>1, <2>4
    <3> QED
      BY <1>7, <1>8, <3>1, Zenon
  <2> QED
    BY <2>1, <2>2, <2>3, <2>4
<1>11. Cardinality(S) <= Limits.maxFiles
  <2>1. Cardinality({}) = 0 /\ Cardinality({m + 1}) = 1 /\ Cardinality({m + 1, m + 2}) = 2
    <3>1. m + 1 # m + 2
      BY <1>1
    <3>2. Cardinality({m + 1, m + 2}) = Cardinality({m + 1}) + 1
      <4> DEFINE a == m + 1
                 b == m + 2
      <4>1. IsFiniteSet({a})
        BY FS_Singleton, Zenon
      <4>2. b \notin {a} /\ {a} \union {b} = {a, b}
        BY <3>1
      <4> HIDE DEF a, b
      <4>3. Cardinality({a} \union {b}) = Cardinality({a}) + 1
        BY <4>1, <4>2, FS_AddElement
      <4>4. Cardinality({a, b}) = Cardinality({a}) + 1
        BY <4>2, <4>3, Zenon
      <4> QED
        BY <4>4 DEF a, b
    <3>3. Cardinality({m + 1}) = 1 /\ Cardinality({}) = 0
      BY FS_EmptySet, FS_Singleton, Zenon
    <3>4. Cardinality({m + 1, m + 2}) = 1 + 1
      BY <3>2, <3>3, Zenon
    <3> QED
      BY <3>3, <3>4
  <2> QED
    BY <1>3, <1>10, <2>1
<1>12. SizeIn(Limits) = Bytes(files)
  <2> DEFINE sum == FoldSet(LAMBDA i, sum : sum + session.files[i].node.size, 0, S)
             Size(i) == session.files[i].node.size
  <2>1. SizeIn(Limits) = sum
    BY DEF SizeIn, S
  <2>2. /\ S = {} => sum = 0
        /\ \A a : S = {a} => sum = 0 + Size(a)
        /\ \A a, b : a # b /\ S = {a, b} => sum \in {0 + Size(a) + Size(b), 0 + Size(b) + Size(a)}
    BY SumsAre
  <2> HIDE DEF sum, Size
  <2>3. \A i \in 1..n : Size(i) \in Nat
    BY <1>5 DEF Size
  <2>4. CASE n = m /\ S = {}
    <3>1. Bytes(files) = 0
      BY <2>4 DEF Bytes, n, m
    <3> QED
      BY <2>1, <2>2, <2>4, <3>1
  <2>5. CASE n = m + 1 /\ S = {m + 1}
    <3>1. Bytes(files) = Size(m + 1)
      <4>1. Len(files) # Lead(files) /\ Len(files) = Lead(files) + 1
        BY <1>1, <2>5 DEF n, m
      <4> QED
        BY <4>1 DEF Bytes, Size, m
    <3>2. m + 1 \in 1..n
      BY <1>1, <2>5
    <3>3. Size(m + 1) \in Nat
      BY <2>3, <3>2
    <3> QED
      BY <2>1, <2>2, <2>5, <3>1, <3>3
  <2>6. CASE n = m + 2 /\ S = {m + 1, m + 2}
    <3>1. Bytes(files) = Size(m + 1) + Size(m + 2)
      <4>1. Len(files) # Lead(files) /\ Len(files) # Lead(files) + 1
        BY <1>1, <2>6 DEF n, m
      <4> QED
        BY <4>1 DEF Bytes, Size, m
    <3>2. m + 1 \in 1..n /\ m + 2 \in 1..n /\ m + 1 # m + 2
      BY <1>1, <2>6
    <3>3. Size(m + 1) \in Nat /\ Size(m + 2) \in Nat
      BY <2>3, <3>2
    <3>4. sum \in {0 + Size(m + 1) + Size(m + 2), 0 + Size(m + 2) + Size(m + 1)}
      BY <2>2, <2>6, <3>2
    <3> QED
      BY <2>1, <3>1, <3>3, <3>4
  <2> QED
    BY <1>10, <2>4, <2>5, <2>6
<1> QED
  BY <1>2, <1>9, <1>11, <1>12 DEF S

LEMMA NothingForgotten ==
  ASSUME HoldsInv, copying.step = "ready", Sharing(definition), SharingHeld, copying.task = 6, changed \subseteq {"profile"}
  PROVE  Range([i \in DOMAIN session.files |-> session.files[i].rel]) = {s \in Spot : NodeAt(s).kind = "file"}
<1>1. Range([i \in DOMAIN session.files |-> session.files[i].rel]) = Rels(session.files)
  BY DEF Range, Rels
<1>2. "tree" \notin changed
  OBVIOUS
<1>3. /\ Config \in Rels(session.files) <=> tree[Config].kind = "file"
      /\ {EntryA, EntryB} \subseteq Rels(session.files) /\ Sub \notin Rels(session.files)
  BY <1>2 DEF SharingHeld, NoneForgotten
<1>4. Rels(session.files) \subseteq {Config, EntryA, Sub, EntryB}
  <2>1. \A i \in DOMAIN session.files : session.files[i] \in FileType
    BY ReadyIs
  <2> QED
    BY <2>1 DEF Rels, FileType
<1>5. TreeWhole(tree)
  BY <1>2, TreesAre DEF HoldsInv, TreeKnown
<1>6. /\ NodeAt(Skills).kind = "dir" /\ NodeAt(Sub).kind = "dir" /\ NodeAt(EntryA).kind = "file"
      /\ NodeAt(EntryB).kind = "file" /\ NodeAt(Config) = tree[Config]
  BY <1>5, WholeNodes
<1>7. ASSUME NEW s \in Spot PROVE s \in Rels(session.files) <=> NodeAt(s).kind = "file"
  BY <1>3, <1>4, <1>6, SpotsAre, SpotsDiffer
<1>8. Rels(session.files) \subseteq Spot
  BY <1>4, SpotsAre
<1> QED
  BY <1>1, <1>7, <1>8

LEMMA HoldsThen == HoldsInv => SessionHolds
<1> SUFFICES ASSUME HoldsInv, copying.step = "ready" PROVE SessionHolds
  BY DEF SessionHolds
<1>1. "profile" \notin changed => \A i \in DOMAIN session.creds : session.creds[i].value = 1
  BY ReadyIs DEF CredsHeld
<1>2. \A d \in DirsOf(definition) :
        /\ \A i \in FilesIn(d) : session.files[i].node.own
        /\ Cardinality(FilesIn(d)) <= d.maxFiles
        /\ SizeIn(d) <= d.maxBytes
  BY ReadyIs, DirsAre, FilesInAre
<1>3. DirsOf(definition) # {} /\ changed \subseteq {"profile"} =>
        Range([i \in DOMAIN session.files |-> session.files[i].rel]) = {s \in Spot : NodeAt(s).kind = "file"}
  BY ReadyIs, DirsAre, NothingForgotten
<1> QED
  BY <1>1, <1>2, <1>3, EveryCredential, PlacesApart DEF SessionHolds, DirsOf, FilesIn, PlacesOf, SizeIn

\* A session that starts holds every credential of its CLI once, in its root, and as the profile
\* stored it if nobody changed that; no share lies on a credential or on another share; a shared
\* directory gave it files of its own only, within the limits, and all its files when nobody changed
\* the base directory (materializeSession), whatever else the other programs do and however often.
THEOREM SessionsHold == CopySpec => []SessionHolds
<1>1. CopyInit => HoldsInv
  BY HoldsInit
<1>2. HoldsInv /\ [CopyNext]_copyVars => HoldsInv'
  BY HoldsStep
<1>3. HoldsInv => SessionHolds
  BY HoldsThen
<1> QED
  BY <1>1, <1>2, <1>3, PTL DEF CopySpec

-----------------------------------------------------------------------------
(* The types of a start *)

\* One group of files after the other, and at most one channel is out of the ordinary.
InGroup ==
  /\ start.group \in 0..7
  /\ start.step \in {"idle", "args"} => start.group = 0
  /\ start.step = "files" => start.group < Len(Candidates(start.cli))
OneFound == found = {} \/ \E c, s : found = {<<c, s>>}
Shifts == shifts \in 0..MaxShifts

LEMMA CandidateGroups == ASSUME NEW cli \in Cli PROVE Len(Candidates(cli)) \in {0, 3, 7}
  /\ (Candidates(cli) # <<>> => Len(Candidates(cli)) > 0)
<1>1. CASE cli = "aider"
  BY <1>1 DEF Candidates
<1>2. CASE cli = "opencode"
  BY <1>2 DEF Candidates
<1>3. CASE cli \notin {"aider", "opencode"}
  BY <1>3 DEF Candidates
<1> QED
  BY <1>1, <1>2, <1>3

\* What a step of the start may do to its groups.
LEMMA GroupStep == StartInv /\ InGroup /\ StartNext => InGroup'
<1> SUFFICES ASSUME StartInv, InGroup, StartNext PROVE InGroup'
  OBVIOUS
<1>a. start \in [step : StartSteps, cli : Cli, kind : {"shell", "command"}, args : Arguments,
                 group : Nat, copy : {"none", "clean", "bypass"}, child : Child]
  BY DEF StartInv, Proceeding
<1>b. Len(Candidates(start.cli)) \in {0, 3, 7} /\ (Candidates(start.cli) # <<>> => Len(Candidates(start.cli)) > 0)
  BY <1>a, CandidateGroups
<1>1. ASSUME UNCHANGED <<start, git>> PROVE InGroup'
  BY <1>1, CandidatesKept DEF InGroup
<1>2. ASSUME start'.group = 0, start'.step # "files" PROVE InGroup'
  BY <1>2 DEF InGroup
<1>3. ASSUME start'.group = start.group, start'.step \notin {"idle", "args", "files"} PROVE InGroup'
  BY <1>3 DEF InGroup
<1>4. CASE StartShell \/ StartCommand
  <2>1. start'.group = 0 /\ start'.step # "files"
    BY <1>4 DEF StartShell, StartCommand, NoStart
  <2> QED
    BY <1>2, <2>1
<1>5. CASE CheckEnv
  <2>1. PICK goal \in {"refused", "profile", "files"} :
          /\ start' = [start EXCEPT !.step = goal] /\ git' = git /\ start.group = 0
          /\ goal = "files" => Candidates(start.cli) # <<>>
    BY <1>5 DEF CheckEnv, StepTo, Continues, Outside, InGroup
  <2>2. start'.step = goal /\ start'.group = 0 /\ start'.cli = start.cli
    BY <1>a, <2>1
  <2>3. Candidates(start.cli)' = Candidates(start.cli)
    BY <2>1, <2>2, CandidatesKept
  <2> QED
    BY <1>b, <2>1, <2>2, <2>3 DEF InGroup
<1>6. CASE CheckFiles
  <2> DEFINE group == start.group + 1
             goal == IF group = Len(Candidates(start.cli)) THEN "profile" ELSE "files"
  <2>1. CASE StepTo("refused")
    <3>1. start'.step = "refused" /\ start'.group = start.group
      BY <1>a, <2>1 DEF StepTo
    <3> QED
      BY <1>3, <3>1
  <2>2. CASE start' = [start EXCEPT !.group = group, !.step = goal]
    <3>1. start.group < Len(Candidates(start.cli)) /\ start.group \in 0..7 /\ git' = git
      BY <1>6 DEF CheckFiles, InGroup, Continues, Outside
    <3>2. group \in 1..7 /\ group <= Len(Candidates(start.cli))
      <4> DEFINE len == Len(Candidates(start.cli))
      <4>1. len \in {0, 3, 7} /\ start.group < len /\ start.group \in 0..7
        BY <1>b, <3>1, Zenon
      <4> HIDE DEF len
      <4>2. group \in 1..7 /\ group <= len
        BY <4>1
      <4> QED
        BY <4>2 DEF len
    <3> HIDE DEF group, goal
    <3>3. start'.step = goal /\ start'.group = group /\ start'.cli = start.cli
      BY <1>a, <2>2
    <3>4. Candidates(start.cli)' = Candidates(start.cli)
      BY <3>1, <3>3, CandidatesKept
    <3>5. goal \in {"profile", "files"} /\ (goal = "files" => group # Len(Candidates(start.cli)))
      BY DEF goal
    <3> QED
      BY <1>b, <3>2, <3>3, <3>4, <3>5 DEF InGroup
  <2> QED
    BY <1>6, <2>1, <2>2 DEF CheckFiles
<1>7. CASE CheckProfile \/ MakeDirectory \/ InspectCopy \/ SpawnChild
  <2>1. start'.group = start.group /\ start'.step \notin {"idle", "args", "files"}
    BY <1>a, <1>7 DEF CheckProfile, MakeDirectory, InspectCopy, SpawnChild, StepTo
  <2> QED
    BY <1>3, <2>1
<1>8. CASE ChangeOutside
  BY <1>1, <1>8 DEF ChangeOutside
<1> QED
  BY <1>4, <1>5, <1>6, <1>7, <1>8 DEF StartNext

LEMMA FoundStep == OneFound /\ Shifts /\ StartNext => OneFound' /\ Shifts'
<1> SUFFICES ASSUME OneFound, Shifts, StartNext PROVE OneFound' /\ Shifts'
  OBVIOUS
<1>1. CASE ChangeOutside
  <2>1. found' \in {{}, {<<Project(1, "config"), "bypass">>}, found}
    BY <1>1 DEF ChangeOutside
  <2>2. Shifts'
    BY <1>1, StartAssumption DEF ChangeOutside, Shifts
  <2> QED
    BY <2>1, <2>2 DEF OneFound
<1>2. CASE ~ChangeOutside
  <2>1. Outside
    BY <1>2 DEF StartNext, StartShell, StartCommand, CheckEnv, CheckFiles, CheckProfile, MakeDirectory, InspectCopy,
       SpawnChild, Continues
  <2> QED
    BY <2>1 DEF Outside, OneFound, Shifts
<1> QED
  BY <1>1, <1>2

\* A start, what it has looked at and what it finds are of their types (StartTypeOK).
THEOREM StartTypeCorrect == StartSpec => []StartTypeOK
<1>1. StartInit => InGroup /\ OneFound /\ Shifts
  <2> SUFFICES ASSUME StartInit PROVE InGroup /\ OneFound /\ Shifts
    OBVIOUS
  <2>1. OneFound
    BY DEF StartInit, OneFound
  <2>2. start.step = "idle" /\ start.group = 0
    BY DEF StartInit, NoStart
  <2>3. Shifts
    BY StartAssumption DEF StartInit, Shifts
  <2> QED
    BY <2>1, <2>2, <2>3 DEF InGroup
<1>2. StartInv /\ InGroup /\ OneFound /\ Shifts /\ [StartNext]_startVars => InGroup' /\ OneFound' /\ Shifts'
  <2> SUFFICES ASSUME StartInv, InGroup, OneFound, Shifts, [StartNext]_startVars PROVE InGroup' /\ OneFound' /\ Shifts'
    OBVIOUS
  <2>1. CASE StartNext
    BY <2>1, GroupStep, FoundStep
  <2>2. CASE UNCHANGED startVars
    <3>1. Candidates(start.cli)' = Candidates(start.cli)
      BY <2>2, CandidatesKept DEF startVars
    <3> QED
      BY <2>2, <3>1 DEF startVars, InGroup, OneFound, Shifts
  <2> QED
    BY <2>1, <2>2
<1>3. StartInv /\ InGroup /\ OneFound /\ Shifts => StartTypeOK
  <2> SUFFICES ASSUME StartInv, InGroup, OneFound, Shifts PROVE StartTypeOK
    OBVIOUS
  <2>1. Cardinality({p[1] : p \in found}) = Cardinality(found)
    <3>1. CASE found = {}
      <4>1. {p[1] : p \in found} = found
        BY <3>1
      <4> QED
        BY <4>1
    <3>2. CASE found # {}
      <4>1. PICK c, s : found = {<<c, s>>}
        BY <3>2 DEF OneFound
      <4>2. {p[1] : p \in found} = {c}
        BY <4>1
      <4>3. Cardinality({c}) = 1 /\ Cardinality({<<c, s>>}) = 1
        BY FS_Singleton
      <4> QED
        BY <4>1, <4>2, <4>3
    <3> QED
      BY <3>1, <3>2
  <2>2. /\ material \in {"missing", "empty", "clean", "bypass"} /\ start.step \in StartSteps
        /\ start.copy \in {"none", "clean", "bypass"}
    BY DEF StartInv, Proceeding
  <2> QED
    BY <2>1, <2>2 DEF InGroup, Shifts, StartTypeOK
<1> QED
  BY <1>1, <1>2, <1>3, StartInitInv, StartStepInv, PTL DEF StartSpec

-----------------------------------------------------------------------------
(* The types of a copy *)

\* Other programs store one version more of a credential, or one byte more in a file, at a time.
CopyCounted == rewrites \in 0..MaxRewrites /\ refusals \in 0..MaxRefusals
CredsCounted == \A c \in Credential : credentials[c] \in 0..(1 + rewrites)
SizesCounted == \A s \in Spot : tree[s].size \in 1..(3 + rewrites)
FilesCounted == copying.total.files \in 0..3

LEMMA CountStep == CopyCounted /\ CopyNext => CopyCounted'
<1> SUFFICES ASSUME CopyCounted, CopyNext PROVE CopyCounted'
  OBVIOUS
<1>1. rewrites' = rewrites \/ (rewrites < MaxRewrites /\ rewrites' = rewrites + 1)
  BY DEF CopyNext, PlanSession, MakeSession, MakeRoot, CopyCred, LookShare, CopyShare, LookShareDir, ListDirectory,
     NextEntry, LookEntry, CheckContained, OpenFile, VerifyFile, ReadFile, OperationFails, CleanUp, ChangeProfile,
     ReplaceEntry, GrowFile, World, Rewriting
<1>2. refusals' = refusals \/ (refusals < MaxRefusals /\ refusals' = refusals + 1)
  <2>1. CASE PlanSession \/ MakeSession \/ MakeRoot \/ CopyCred \/ LookShare \/ CopyShare
    BY <2>1 DEF PlanSession, MakeSession, MakeRoot, CopyCred, LookShare, CopyShare, GiveUp
  <2>2. CASE LookShareDir \/ ListDirectory \/ NextEntry \/ LookEntry
    BY <2>2 DEF LookShareDir, ListDirectory, NextEntry, LookEntry, GiveUp
  <2>3. CASE CheckContained \/ OpenFile \/ VerifyFile \/ ReadFile
    BY <2>3 DEF CheckContained, OpenFile, VerifyFile, ReadFile, GiveUp
  <2>4. CASE OperationFails \/ CleanUp \/ ChangeProfile \/ ReplaceEntry \/ GrowFile
    BY <2>4 DEF OperationFails, CleanUp, ChangeProfile, ReplaceEntry, GrowFile, Refusal, Rewriting
  <2> QED
    BY <2>1, <2>2, <2>3, <2>4 DEF CopyNext
<1> QED
  BY <1>1, <1>2, CopyAssumption DEF CopyCounted

LEMMA CredsStep == CopyCounted /\ HoldsInv /\ CredsCounted /\ CopyNext => CredsCounted'
<1> SUFFICES ASSUME CopyCounted, HoldsInv, CredsCounted, CopyNext PROVE CredsCounted'
  OBVIOUS
<1>0. credentials \in [Credential -> Nat] /\ rewrites \in Nat
  BY DEF HoldsInv, ProfileKnown
<1>1. CASE ChangeProfile
  <2>1. rewrites' = rewrites + 1
    BY <1>1 DEF ChangeProfile, Rewriting
  <2>2. PICK c \in Credential : \/ credentials' = [credentials EXCEPT ![c] = IF @ = 0 THEN 0 ELSE @ + 1]
                                \/ credentials' = [credentials EXCEPT ![c] = 0]
    BY <1>1 DEF ChangeProfile
  <2>3. \A d \in Credential : credentials'[d] \in {0, credentials[d], credentials[d] + 1}
    BY <1>0, <2>2
  <2> QED
    BY <1>0, <2>1, <2>3 DEF CredsCounted
<1>2. CASE ~ChangeProfile
  <2>1. credentials' = credentials /\ rewrites' \in {rewrites, rewrites + 1}
    BY <1>2 DEF CopyNext, PlanSession, MakeSession, MakeRoot, CopyCred, LookShare, CopyShare, LookShareDir, ListDirectory,
       NextEntry, LookEntry, CheckContained, OpenFile, VerifyFile, ReadFile, OperationFails, CleanUp, ReplaceEntry,
       GrowFile, World, Rewriting
  <2> QED
    BY <1>0, <2>1 DEF CredsCounted
<1> QED
  BY <1>1, <1>2

LEMMA SizesStep == CopyCounted /\ HoldsInv /\ SizesCounted /\ CopyNext => SizesCounted'
<1> SUFFICES ASSUME CopyCounted, HoldsInv, SizesCounted, CopyNext PROVE SizesCounted'
  OBVIOUS
<1>0. tree \in [Spot -> NodeType] /\ rewrites \in Nat
  BY DEF HoldsInv, TreeKnown
<1>1. CASE ReplaceEntry
  <2> DEFINE new == 10 + rewrites
  <2>1. rewrites' = rewrites + 1
    BY <1>1 DEF ReplaceEntry, Rewriting
  <2>2. PICK spot \in Spot, node \in {Node("file", new), Node("dir", new), Node("link", new), HardLink(new), NoNode} :
          tree' = [s \in Spot |-> IF s = spot THEN node ELSE IF IsPrefix(spot, s) THEN NoNode ELSE tree[s]]
    BY <1>1 DEF ReplaceEntry
  <2>3. node.size = 1 /\ NoNode.size = 1
    <3> HIDE DEF new
    <3>1. \A kind \in {"file", "dir", "link"} : Node(kind, new).size = 1
      BY DEF Node
    <3>2. HardLink(new).size = 1 /\ NoNode.size = 1
      BY DEF Node, HardLink, NoNode
    <3> QED
      BY <2>2, <3>1, <3>2, Zenon
  <2>4. \A s \in Spot : tree'[s].size \in {1, tree[s].size}
    <3>1. \A s \in Spot : tree'[s] \in {node, NoNode, tree[s]}
      BY <2>2
    <3> QED
      BY <2>3, <3>1
  <2> QED
    BY <1>0, <2>1, <2>4 DEF SizesCounted
<1>2. CASE GrowFile
  <2>1. rewrites' = rewrites + 1
    BY <1>2 DEF GrowFile, Rewriting
  <2>2. PICK spot \in Spot : tree' = [tree EXCEPT ![spot].size = @ + 1]
    BY <1>2 DEF GrowFile
  <2> DEFINE size == tree[spot].size + 1
             n == [tree[spot] EXCEPT !.size = size]
  <2>3. tree' = [tree EXCEPT ![spot] = n]
    BY <2>2, Zenon
  <2>4. tree[spot].size \in 1..(3 + rewrites) /\ tree[spot] \in NodeType
    BY <1>0 DEF SizesCounted
  <2>5. size \in 1..(4 + rewrites)
    BY <1>0, <2>4
  <2> HIDE DEF size
  <2>6. n.size = size
    BY <2>4 DEF NodeType
  <2> HIDE DEF n
  <2>7. \A s \in Spot : tree'[s] = IF s = spot THEN n ELSE tree[s]
    BY <1>0, <2>3
  <2>8. \A s \in Spot : tree'[s].size \in {size, tree[s].size}
    BY <2>6, <2>7
  <2> QED
    BY <1>0, <2>1, <2>5, <2>8 DEF SizesCounted
<1>3. CASE ~ReplaceEntry /\ ~GrowFile
  <2>1. tree' = tree /\ rewrites' \in {rewrites, rewrites + 1}
    BY <1>3 DEF CopyNext, PlanSession, MakeSession, MakeRoot, CopyCred, LookShare, CopyShare, LookShareDir, ListDirectory,
       NextEntry, LookEntry, CheckContained, OpenFile, VerifyFile, ReadFile, OperationFails, CleanUp, ChangeProfile,
       World, Rewriting
  <2> QED
    BY <1>0, <2>1 DEF SizesCounted
<1> QED
  BY <1>1, <1>2, <1>3

\* A file is read into the totals within the limit of its directory.
LEMMA FilesStep == HoldsInv /\ FilesCounted /\ CopyNext => FilesCounted'
<1> SUFFICES ASSUME HoldsInv, FilesCounted, CopyNext PROVE FilesCounted'
  OBVIOUS
<1>0. copying \in CopyType /\ copying.total \in [files : Nat, bytes : Nat, entries : Nat]
  BY CopyingParts DEF HoldsInv
<1>1. ASSUME copying'.total = copying.total PROVE FilesCounted'
  BY <1>1 DEF FilesCounted
<1>2. ASSUME copying'.total = NoTotals PROVE FilesCounted'
  BY <1>2, NoTotalsTyped DEF FilesCounted
<1>3. ASSUME NextTask PROVE FilesCounted'
  BY <1>0, <1>2, <1>3, NextTaskGoes
<1>4. ASSUME NEW goal, Goes(goal) PROVE FilesCounted'
  <2>1. copying'.total = copying.total
    BY <1>0, <1>4 DEF Goes, CopyType
  <2> QED
    BY <1>1, <2>1
<1>5. ASSUME GiveUp PROVE FilesCounted'
  BY <1>4, <1>5 DEF GiveUp
<1>6. CASE PlanSession \/ MakeSession \/ CheckContained \/ VerifyFile \/ OperationFails \/ ListDirectory
  BY <1>4, <1>5, <1>6 DEF PlanSession, MakeSession, CheckContained, VerifyFile, OperationFails, ListDirectory
<1>7. CASE MakeRoot \/ CopyCred \/ LookShare \/ CopyShare \/ LookShareDir
  BY <1>3, <1>4, <1>5, <1>7 DEF MakeRoot, CopyCred, LookShare, CopyShare, LookShareDir
<1>8. CASE NextEntry
  <2>1. \/ GiveUp \/ NextTask \/ Goes("entry")
        \/ \E spot \in Here.left : copying' = [copying EXCEPT !.step = "look", !.spot = spot]
    BY <1>8 DEF NextEntry
  <2>2. ASSUME NEW spot, copying' = [copying EXCEPT !.step = "look", !.spot = spot] PROVE FilesCounted'
    BY <1>0, <1>1, <2>2 DEF CopyType
  <2> QED
    BY <1>3, <1>4, <1>5, <2>1, <2>2
<1>9. CASE LookEntry
  <2> DEFINE node == NodeAt(copying.spot)
             goal == IF node.kind = "dir" THEN "list" ELSE "contain"
             total == [copying.total EXCEPT !.entries = @ + 1]
  <2>1. GiveUp \/ copying' = [copying EXCEPT !.step = goal, !.total = total, !.file = node]
    BY <1>9, Zenon DEF LookEntry
  <2>2. total.files = copying.total.files
    BY <1>0
  <2> HIDE DEF total, goal, node
  <2>3. ASSUME copying' = [copying EXCEPT !.step = goal, !.total = total, !.file = node] PROVE FilesCounted'
    BY <1>0, <2>2, <2>3 DEF FilesCounted, CopyType
  <2> QED
    BY <1>5, <2>1, <2>3
<1>10. CASE OpenFile
  <2> DEFINE node == NodeAt(copying.spot)
  <2>1. GiveUp \/ copying' = [copying EXCEPT !.step = "verify", !.file = node]
    BY <1>10, Zenon DEF OpenFile
  <2> HIDE DEF node
  <2>2. ASSUME copying' = [copying EXCEPT !.step = "verify", !.file = node] PROVE FilesCounted'
    BY <1>0, <1>1, <2>2 DEF CopyType
  <2> QED
    BY <1>5, <2>1, <2>2
<1>11. CASE ReadFile
  <2> DEFINE files == copying.total.files + 1
             bytes == copying.total.bytes + copying.file.size
             total == [files |-> files, bytes |-> bytes, entries |-> copying.total.entries]
  <2>1. /\ copying.step = "read"
        /\ GiveUp \/ copying' = [copying EXCEPT !.step = "entry", !.file = NoNode, !.total.files = @ + 1, !.total.bytes = bytes]
    BY <1>11, Zenon DEF ReadFile
  <2>2. /\ Sharing(definition) /\ SharingHeld
    BY <2>1, LooksAre, WalkingIs
  <2>3. files <= 2 /\ files \in Nat
    <3>1. copying.total.files + 1 <= Limits.maxFiles
      BY <2>1, <2>2, Zenon DEF SharingHeld, FileHeld
    <3>2. Limits.maxFiles \in {1, 2}
      BY <2>2, LimitsAre
    <3>3. copying.total.files \in Nat
      BY <1>0
    <3> QED
      BY <3>1, <3>2, <3>3
  <2> HIDE DEF bytes
  <2>4. ASSUME copying' = [copying EXCEPT !.step = "entry", !.file = NoNode, !.total.files = @ + 1, !.total.bytes = bytes]
        PROVE  FilesCounted'
    <3>1. copying'.total = [copying.total EXCEPT !.files = files, !.bytes = bytes]
      BY <1>0, <2>4 DEF CopyType
    <3> HIDE DEF files
    <3>2. copying'.total.files = files
      BY <1>0, <3>1
    <3> QED
      BY <2>3, <3>2 DEF FilesCounted
  <2> QED
    BY <1>5, <2>1, <2>4
<1>12. CASE CleanUp
  <2>1. copying'.total = NoTotals
    BY <1>12 DEF CleanUp, NoCopying
  <2> QED
    BY <1>2, <2>1
<1>13. CASE ChangeProfile \/ ReplaceEntry
  BY <1>1, <1>13 DEF ChangeProfile, ReplaceEntry
<1>14. CASE GrowFile
  <2>1. copying' = copying \/ copying' = [copying EXCEPT !.file.size = @ + 1]
    BY <1>14 DEF GrowFile
  <2>2. copying'.total = copying.total
    BY <1>0, <2>1 DEF CopyType
  <2> QED
    BY <1>1, <2>2
<1> QED
  BY <1>6, <1>7, <1>8, <1>9, <1>10, <1>11, <1>12, <1>13, <1>14 DEF CopyNext

CopyKept == CopyCounted /\ CredsCounted /\ SizesCounted /\ FilesCounted

LEMMA CopyInitKept == CopyInit => CopyKept
<1> SUFFICES ASSUME CopyInit PROVE CopyKept
  OBVIOUS
<1>1. CopyCounted
  BY CopyAssumption DEF CopyInit, CopyCounted
<1>2. CredsCounted
  BY DEF CopyInit, CredsCounted
<1>3. SizesCounted
  <2> DEFINE full == [s \in Spot |-> CASE s = Config -> Node("file", 2)
                                       [] s = Skills -> Node("dir", 3)
                                       [] s = EntryA -> Node("file", 4)
                                       [] s = Sub -> Node("dir", 5)
                                       [] OTHER -> Node("file", 6)]
  <2>1. tree \in {full, [full EXCEPT ![Config] = NoNode, ![EntryA] = HardLink(4)],
                  [full EXCEPT ![EntryA].size = 2], [full EXCEPT ![EntryA].size = 3],
                  [full EXCEPT ![Config] = Node("link", 2)]}
    BY Zenon DEF CopyInit, Trees, Config, Skills, EntryA, Sub
  <2>2. \A s \in Spot : full[s] \in [kind : {"file", "dir"}, id : Nat, links : Nat, size : {1}, own : BOOLEAN]
    BY SpotsAre DEF Node
  <2>3. HardLink(4).size = 1 /\ NoNode.size = 1 /\ Node("link", 2).size = 1
    BY DEF Node, HardLink, NoNode
  <2>4. DOMAIN full = Spot
    OBVIOUS
  <2> HIDE DEF full
  <2>5. \A s \in Spot : tree[s].size \in {1, 2, 3}
    BY <2>1, <2>2, <2>3, <2>4
  <2>6. rewrites = 0
    BY DEF CopyInit
  <2> QED
    BY <2>5, <2>6 DEF SizesCounted
<1>4. FilesCounted
  BY NoTotalsTyped DEF CopyInit, NoCopying, FilesCounted
<1> QED
  BY <1>1, <1>2, <1>3, <1>4 DEF CopyKept

LEMMA CopyStepKept == HoldsInv /\ CopyKept /\ [CopyNext]_copyVars => CopyKept'
<1> SUFFICES ASSUME HoldsInv, CopyKept, [CopyNext]_copyVars PROVE CopyKept'
  OBVIOUS
<1>1. CASE CopyNext
  BY <1>1, CountStep, CredsStep, SizesStep, FilesStep DEF CopyKept
<1>2. CASE UNCHANGED copyVars
  BY <1>2 DEF copyVars, CopyKept, CopyCounted, CredsCounted, SizesCounted, FilesCounted
<1> QED
  BY <1>1, <1>2

LEMMA CopyTyped == HoldsInv /\ CopyKept => CopyTypeOK
<1> SUFFICES ASSUME HoldsInv, CopyKept PROVE CopyTypeOK
  OBVIOUS
<1>1. rewrites \in 0..MaxRewrites /\ refusals \in 0..MaxRefusals /\ copying.total.files \in 0..3
  BY DEF CopyKept, CopyCounted, FilesCounted
<1>2. credentials \in [Credential -> 0..(2 + MaxRewrites)]
  <2>1. credentials \in [Credential -> Nat]
    BY DEF HoldsInv, ProfileKnown
  <2>2. \A c \in Credential : credentials[c] \in 0..(2 + MaxRewrites)
    BY <1>1, CopyAssumption DEF CopyKept, CredsCounted
  <2> QED
    BY <2>1, <2>2
<1>3. \A s \in Spot : tree[s].kind \in {"none", "file", "dir", "link"} /\ tree[s].size \in 1..(4 + MaxRewrites)
  <2>1. \A s \in Spot : tree[s] \in NodeType
    BY DEF HoldsInv, TreeKnown
  <2>2. \A s \in Spot : tree[s].size \in 1..(4 + MaxRewrites)
    BY <1>1, CopyAssumption DEF CopyKept, SizesCounted
  <2> QED
    BY <2>1, <2>2 DEF NodeType
<1>4. copying.step \in CopySteps /\ session.exists \in {"none", "mine", "others", "lost", "stuck"}
  BY DEF HoldsInv, CopyType, SessionType
<1>5. \A i \in DOMAIN walk : walk[i].dir \in Spot
  <2>1. walk \in Seq(LevelType)
    BY DEF HoldsInv
  <2>2. {Skills, EntryA, Sub, EntryB} \subseteq Spot
    BY SpotsAre
  <2>3. \A level \in LevelType : level.dir \in Spot
    BY <2>2 DEF LevelType
  <2>4. \A i \in DOMAIN walk : walk[i] \in LevelType
    BY <2>1
  <2> QED
    BY <2>3, <2>4
<1> QED
  BY <1>1, <1>2, <1>3, <1>4, <1>5 DEF CopyTypeOK

\* The files of a base directory, the credentials of a profile and a copy under way are of their
\* types, and the files of a shared directory that were read are counted within its limit (CopyTypeOK),
\* however often other programs write.
THEOREM CopyTypeCorrect == CopySpec => []CopyTypeOK
<1> QED
  BY HoldsInit, HoldsStep, CopyInitKept, CopyStepKept, CopyTyped, PTL DEF CopySpec

-----------------------------------------------------------------------------
(* The foreground as a whole *)

\* A step of one component leaves the others alone.
LEMMA ForegroundProject ==
  /\ ForegroundInit => TuiInit /\ ConfigInit /\ RecaptureInit /\ LifeInit /\ StartInit /\ CopyInit
  /\ [ForegroundNext]_<<part, tuiVars, configVars, recaptureVars, lifeVars, startVars, copyVars>> =>
       /\ [TuiNext]_tuiVars /\ [ConfigNext]_configVars /\ [RecaptureNext]_recaptureVars
       /\ [LifeNext]_lifeVars /\ [StartNext]_startVars /\ [CopyNext]_copyVars
<1>1. ForegroundInit => TuiInit /\ ConfigInit /\ RecaptureInit /\ LifeInit /\ StartInit /\ CopyInit
  BY DEF ForegroundInit
<1>2. [ForegroundNext]_<<part, tuiVars, configVars, recaptureVars, lifeVars, startVars, copyVars>> =>
        /\ [TuiNext]_tuiVars /\ [ConfigNext]_configVars /\ [RecaptureNext]_recaptureVars
        /\ [LifeNext]_lifeVars /\ [StartNext]_startVars /\ [CopyNext]_copyVars
  BY DEF ForegroundNext, TuiStep, ConfigStep, RecaptureStep, LifeStep, StartStep, CopyStep
<1> QED
  BY <1>1, <1>2

\* Every state the screens, the settings and the sessions reach has the types of their components
\* (ForegroundTypeOK).
THEOREM ForegroundTyped == ForegroundSpec => []ForegroundTypeOK
<1>1. ForegroundSpec => TuiSpec /\ ConfigSpec /\ RecaptureSpec /\ LifeSpec /\ StartSpec /\ CopySpec
  BY ForegroundProject, PTL DEF ForegroundSpec, TuiSpec, ConfigSpec, RecaptureSpec, LifeSpec, StartSpec, CopySpec
<1>2. ConfigInv => ConfigTypeOK
  BY DEF ConfigInv
<1>3. /\ TuiSpec => []TuiTypeOK
      /\ RecaptureSpec => []RecaptureTypeOK
      /\ LifeSpec => []LifeTypeOK
      /\ StartSpec => []StartTypeOK
      /\ CopySpec => []CopyTypeOK
  BY TuiTypeCorrect, RecaptureWellTyped, LifeTypeCorrect, StartTypeCorrect, CopyTypeCorrect
<1>4. TuiTypeOK /\ ConfigTypeOK /\ RecaptureTypeOK /\ LifeTypeOK /\ StartTypeOK /\ CopyTypeOK => ForegroundTypeOK
  BY DEF ForegroundTypeOK
<1> QED
  BY <1>1, <1>2, <1>3, <1>4, ConfigInvariance, PTL

=============================================================================
