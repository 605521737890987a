--------------------------- MODULE DirectorySource ---------------------------
(* A credential that is a directory (src/src/core/directory-source.ts).  A     *)
(* write stages the new tree beside the live one, writes a marker, moves the   *)
(* live tree aside, moves the staged one in, verifies it and cleans up; the    *)
(* marker names its phase, and whoever uses the directory next recovers from   *)
(* it first.  Writes, reads and removals run under the lock of the CLI; the    *)
(* existence check of doctor and of the profile screen runs without it, and    *)
(* recovers too.                                                                *)
(*                                                                              *)
(* A tree is a value; "partial" is one of which some entries are missing.  Of  *)
(* the reviews of parents, owners, links and identities only the refusal is    *)
(* left: any step may fail.                                                     *)
EXTENDS Naturals, Sequences

CONSTANTS
  Tree,       \* whole directory trees
  MaxWrites,  \* bound: writes
  MaxFailures,  \* bound: steps that fail
  MaxDeaths    \* bound: deaths of a mat process

Absent == "absent"
Partial == "partial"
Content == Tree \union {Absent, Partial}

ASSUME DirectoryAssumption ==
  /\ Tree # {} /\ Absent \notin Tree /\ Partial \notin Tree
  /\ {MaxWrites, MaxFailures, MaxDeaths} \subseteq Nat

\* "mat" has the lock of the CLI, "check" is an existence check.
Actor == {"mat", "check"}

VARIABLES
  disk,      \* the live tree, the candidates of transaction txn, and the marker
  plan,      \* the steps each actor still has to do
  doing,      \* "idle", "recover", "work" or "undo"
  seen,      \* the marker each actor recovers from
  task,      \* what mat does: its operation, value, and whether a tree was live
  result,    \* how mat's last operation ended
  before,    \* history: the live tree when mat began its last write
  overlap,   \* history: a check and an operation of mat ran at the same time
  undecided,  \* history: an interrupted rollback or recovery left a marker that does not tell
             \* the tree of its write from the one it replaced
  failures, deaths

dirVars == <<disk, plan, doing, seen, task, result, before, overlap, undecided,
             failures, deaths>>

NoTxn == [phase |-> "none", intent |-> Absent, txn |-> 0]
Marker ==
  [phase : {"prepared", "backed-up", "activated"}, intent : Tree, txn : 1..MaxWrites]
    \union {NoTxn}
NoTask == [kind |-> "none", value |-> Absent, existing |-> FALSE]

DirTypeOK ==
  /\ disk \in [root : Content, stage : Content, backup : Content,
               marker : Marker, txn : 0..MaxWrites]
  /\ doing \in [Actor -> {"idle", "recover", "work", "undo"}]
  /\ seen \in [Actor -> Marker]
  /\ task \in [kind : {"none", "read", "write", "remove"},
               value : Tree \union {Absent}, existing : BOOLEAN]
  /\ result \in {"none", "ok", "error", "restored"}
  /\ before \in Content
  /\ \A x \in Actor : doing[x] = "idle" <=> plan[x] = <<>>

Clean(d) == d.marker = NoTxn /\ d.stage = Absent /\ d.backup = Absent

DirInit ==
  /\ disk \in [root : Tree \union {Absent}, stage : {Absent}, backup : {Absent},
               marker : {NoTxn}, txn : {0}]
  /\ plan = [x \in Actor |-> <<>>] /\ doing = [x \in Actor |-> "idle"]
  /\ seen = [x \in Actor |-> NoTxn]
  /\ task = NoTask /\ result = "none" /\ before = Absent
  /\ overlap = FALSE /\ undecided = FALSE /\ failures = 0 /\ deaths = 0

-----------------------------------------------------------------------------
(* The steps.  After(x, step) is what the disk may be when the step succeeds:   *)
(* nothing where the code refuses.                                               *)

\* A recovery means the candidates its marker names; a write those it made.
Named(x, candidate) ==
  IF doing[x] = "recover" /\ seen[x].txn # disk.txn THEN Absent ELSE disk[candidate]

Drop(x, place) ==
  IF Named(x, place) = Absent THEN {} ELSE {[disk EXCEPT ![place] = Absent]}

\* checkedRename refuses a missing source and an existing destination.
Rename(x, from, to) ==
  IF Named(x, from) = Absent \/ disk[to] # Absent THEN {}
  ELSE {[disk EXCEPT ![to] = disk[from], ![from] = Absent]}

\* The rollbacks ask first whether there is anything to do.
OrNothing(steps) == IF steps = {} THEN {disk} ELSE steps

MarkTxn(phase) ==
  {[disk EXCEPT !.marker = [phase |-> phase, intent |-> task.value, txn |-> disk.txn]]}

Intended(x) == IF doing[x] = "recover" THEN seen[x].intent ELSE task.value

\* Without a live tree nothing is reviewed, set aside or dropped afterwards.
Replaces(x, step) ==
  doing[x] = "work" /\ step \in {"review", "setAside", "backedUp", "dropBackup"} => task.existing

After(x, step) ==
  IF ~Replaces(x, step) THEN {disk}
  ELSE CASE step = "makeStage"  -> {[disk EXCEPT !.stage = Partial, !.txn = disk.txn + 1]}
         [] step = "fillStage"  -> {[disk EXCEPT !.stage = task.value]}
         [] step = "prepare"    -> MarkTxn("prepared")
         [] step = "review"     -> IF disk.root = Absent THEN {} ELSE {disk}
         [] step = "setAside"   -> Rename(x, "root", "backup")
         [] step = "backedUp"   -> MarkTxn("backed-up")
         [] step = "activate"   -> Rename(x, "stage", "root")
         [] step = "verify"     -> IF disk.root = Intended(x) THEN {disk} ELSE {}
         [] step = "activated"  -> MarkTxn("activated")
         [] step = "dropBackup" -> Drop(x, "backup")
         [] step = "dropStage"  -> Drop(x, "stage")
         [] step = "dropRoot"   -> Drop(x, "root")
         [] step = "return"     -> Rename(x, "backup", "root")
         [] step = "returnAny"  -> OrNothing(Rename(x, "backup", "root"))
         [] step = "dropStageAny" -> OrNothing(Drop(x, "stage"))
         [] step = "dropRootAny"  -> OrNothing(Drop(x, "root"))
         \* clearMarker unlinks whatever marker is there.
         [] step = "clear"      -> {[disk EXCEPT !.marker = NoTxn]}

\* What a step that is reported as failed, or is killed, may have left behind.
Halfway(x, step) ==
  LET partly(place) == IF Named(x, place) = Absent THEN {}
                       ELSE {[disk EXCEPT ![place] = Partial]}
  IN  {disk} \union
      CASE step \in {"dropRoot", "dropRootAny"} -> partly("root")
        [] step \in {"dropStage", "dropStageAny"} -> partly("stage")
        [] step = "dropBackup" -> partly("backup")
        [] step \in {"fillStage", "verify"} -> {}
        [] OTHER -> After(x, step)

-----------------------------------------------------------------------------
(* Recovery *)

\* recoverDirectoryTxn: the branches over the phase and the three candidates.
\* What is not provable is left alone: no steps are a refusal.
Recovery(m, live, staged, backed) ==
  LET found == <<live # Absent, staged # Absent, backed # Absent>>
  IN  CASE m.phase = "prepared" /\ found = <<TRUE, TRUE, FALSE>> /\ staged = m.intent ->
             <<"dropStage", "clear">>
        [] m.phase = "prepared" /\ found = <<FALSE, TRUE, FALSE>> /\ staged = m.intent ->
             <<"activate", "verify", "clear">>
        [] m.phase = "prepared" /\ found = <<TRUE, FALSE, FALSE>> /\ live = m.intent ->
             <<"dropRoot", "clear">>
        [] m.phase = "backed-up" /\ found = <<FALSE, TRUE, TRUE>> /\ staged = m.intent ->
             <<"activate", "verify", "dropBackup", "clear">>
        [] m.phase = "activated" /\ found = <<TRUE, FALSE, TRUE>> /\ live = m.intent ->
             <<"dropBackup", "clear">>
        [] m.phase = "activated" /\ found = <<TRUE, FALSE, FALSE>> /\ live = m.intent ->
             <<"clear">>
        [] OTHER -> <<>>

\* What mat goes on with once there is nothing to recover.
Work ==
  CASE task.kind = "write" ->
         <<"makeStage", "fillStage", "prepare", "review", "setAside", "backedUp",
           "activate", "verify", "activated", "dropBackup", "clear">>
    [] task.kind = "remove" -> IF disk.root = Absent THEN <<>> ELSE <<"dropRoot">>
    [] OTHER -> <<>>

Do(x, m, steps) ==
  /\ plan' = [plan EXCEPT ![x] = steps]
  /\ doing' = [doing EXCEPT ![x] = IF steps = <<>> THEN "idle" ELSE m]

EndOp(x, outcome) ==
  /\ Do(x, "idle", <<>>)
  /\ result' = IF x = "mat" THEN outcome ELSE result

Recovered(x) ==
  IF x = "mat" /\ Work # <<>> THEN Do(x, "work", Work) /\ UNCHANGED result
  ELSE EndOp(x, "ok")

NextIs(x, step) == plan[x] # <<>> /\ Head(plan[x]) = step

\* Without a marker candidates are orphans, and refused (assertNoOrphanCandidates).
ReadMarker(x) ==
  /\ NextIs(x, "marker")
  /\ seen' = [seen EXCEPT ![x] = disk.marker]
  /\ IF disk.marker # NoTxn THEN Do(x, "recover", <<"examine">>) /\ UNCHANGED result
     ELSE IF Clean(disk) THEN Recovered(x) ELSE EndOp(x, "error")
  /\ UNCHANGED <<disk, task, before, overlap, undecided, failures, deaths>>

\* Candidates of another transaction are refused too (assertNoExtraCandidates).
Examine(x) ==
  /\ NextIs(x, "examine")
  /\ LET extra == seen[x].txn # disk.txn /\ (disk.stage # Absent \/ disk.backup # Absent)
         steps == Recovery(seen[x], disk.root, Named(x, "stage"), Named(x, "backup"))
     IN  IF extra \/ steps = <<>> THEN EndOp(x, "error")
         ELSE Do(x, "recover", steps) /\ UNCHANGED result
  /\ UNCHANGED <<disk, seen, task, before, overlap, undecided, failures, deaths>>

-----------------------------------------------------------------------------
(* The steps of an actor, and their failures *)

Busy(x) == plan[x] # <<>> /\ Head(plan[x]) \notin {"marker", "examine"}

Proceed(x) ==
  IF Tail(plan[x]) # <<>> THEN Do(x, doing[x], Tail(plan[x])) /\ UNCHANGED result
  ELSE IF doing[x] = "recover" THEN Recovered(x)
  ELSE EndOp(x, IF doing[x] = "undo" THEN "restored" ELSE "ok")

\* A write notes the tree it found, and whether there was one to replace.
Step(x) ==
  /\ Busy(x)
  /\ LET step == Head(plan[x])
     IN  /\ disk' \in After(x, step)
         /\ before' = IF step = "makeStage" THEN disk.root ELSE before
         /\ task' = IF step = "prepare" THEN [task EXCEPT !.existing = disk.root # Absent]
                    ELSE task
  /\ Proceed(x)
  /\ UNCHANGED <<seen, overlap, undecided, failures, deaths>>

\* Mutant: the tree that could not be marked as activated is left in place.
TakeBackStays(step) ==
  CASE step \in {"setAside", "backedUp"} -> <<"returnAny", "dropStageAny", "clear">>
    [] step = "activate" ->
         <<IF task.existing THEN "return" ELSE "dropRootAny", "dropStageAny", "clear">>
    [] step \in {"verify", "activated"} -> <<"clear">>
    [] OTHER -> <<>>

\* How a write takes back what it did.  A verification that fails restores the
\* backup and leaves the marker.
TakeBack(step) ==
  CASE step \in {"setAside", "backedUp"} -> <<"returnAny", "dropStageAny", "clear">>
    [] step = "activate" ->
         <<IF task.existing THEN "return" ELSE "dropRootAny", "dropStageAny", "clear">>
    [] step = "verify" -> <<"dropRoot", IF task.existing THEN "return" ELSE "clear">>
    [] step = "activated" ->
         IF task.existing THEN <<"dropRoot", "return", "clear">> ELSE <<"dropRoot", "clear">>
    [] OTHER -> <<>>

\* Before there is a marker the stage of a failed write is disposable; after that
\* every candidate stays as evidence.
Abandoned(d) ==
  {d} \union IF d.marker = NoTxn THEN {[d EXCEPT !.stage = Absent]} ELSE {}

FailsFrom(x, d) ==
  IF x = "mat" /\ doing[x] = "work" /\ TakeBack(Head(plan[x])) # <<>>
  THEN Do(x, "undo", TakeBack(Head(plan[x]))) /\ disk' = d /\ UNCHANGED result
  ELSE /\ EndOp(x, "error")
       /\ disk' \in IF x = "mat" /\ doing[x] # "recover" THEN Abandoned(d) ELSE {d}

\* A write of the tree that was live, of which only that tree and the marker "prepared" are left:
\* the next recovery takes the tree for the one of the write, and removes it.
Twin(d, b) ==
  /\ d.marker.phase = "prepared" /\ d.stage = Absent /\ d.backup = Absent
  /\ d.root = d.marker.intent /\ d.root = b

Interrupted == undecided' = (undecided \/ Twin(disk', before))

\* A step fails, or finds what it refuses.
StepFails(x) ==
  /\ Busy(x)
  /\ \/ /\ After(x, Head(plan[x])) = {}
        /\ FailsFrom(x, disk) /\ UNCHANGED failures
     \/ /\ failures < MaxFailures /\ failures' = failures + 1
        /\ \E d \in Halfway(x, Head(plan[x])) : FailsFrom(x, d)
  /\ Interrupted
  /\ UNCHANGED <<seen, task, before, overlap, deaths>>

KillActor(x) ==
  /\ plan[x] # <<>> /\ deaths < MaxDeaths /\ deaths' = deaths + 1
  /\ disk' \in IF Busy(x) THEN Halfway(x, Head(plan[x])) ELSE {disk}
  /\ EndOp(x, "none") /\ Interrupted
  /\ UNCHANGED <<seen, task, before, overlap, failures>>

-----------------------------------------------------------------------------
(* The operations *)

Start(x) ==
  /\ doing[x] = "idle"
  /\ Do(x, "recover", <<"marker">>)
  /\ overlap' = (overlap \/ \E y \in Actor \ {x} : doing[y] # "idle")

readDirectorySource ==
  /\ Start("mat") /\ task' = [NoTask EXCEPT !.kind = "read"] /\ result' = "none"
  /\ UNCHANGED <<disk, seen, before, undecided, failures, deaths>>

\* Two profiles may hold the same tree, the rollback of a switch writes back what it found, and
\* a killed write may be tried again: a write may be of the tree that is live.
writeDirectorySource(value) ==
  /\ Start("mat") /\ disk.txn < MaxWrites
  /\ task' = [kind |-> "write", value |-> value, existing |-> FALSE] /\ result' = "none"
  /\ UNCHANGED <<disk, seen, before, undecided, failures, deaths>>

\* The rollback of a switch to the absence it found.
removeDirectorySource ==
  /\ Start("mat") /\ task' = [NoTask EXCEPT !.kind = "remove"] /\ result' = "none"
  /\ before' = Absent
  /\ UNCHANGED <<disk, seen, undecided, failures, deaths>>

directorySourceExists ==
  /\ Start("check")
  /\ UNCHANGED <<disk, seen, task, result, before, undecided, failures, deaths>>

DirNext ==
  \/ readDirectorySource \/ removeDirectorySource \/ directorySourceExists
  \/ \E value \in Tree : writeDirectorySource(value)
  \/ \E x \in Actor : ReadMarker(x) \/ Examine(x) \/ Step(x) \/ StepFails(x) \/ KillActor(x)

DirSpec == DirInit /\ [][DirNext]_dirVars

-----------------------------------------------------------------------------
\* Whatever fails or is killed in a write and in the recoveries after it, the tree
\* it replaces is whole in its place or in the backup until the new one is whole
\* in place (as long as no existence check ran meanwhile).
TreeKept ==
  ~overlap /\ before \in Tree =>
    before \in {disk.root, disk.backup} \/ disk.root \in Tree \ {before}

\* The same of every behaviour in which no rollback or recovery of a write was interrupted
\* just where the marker left behind does not tell the new tree from the old one.
TreeKeptUnlessUndecided == ~undecided => TreeKept

\* A write that reports success has its tree in place and nothing else left over;
\* one that reports that it restored what it found did so; a removal that succeeds
\* leaves nothing.
DirectoryTruthful ==
  doing["mat"] = "idle" /\ ~overlap =>
    /\ result = "ok" => Clean(disk)
    /\ result = "ok" /\ task.kind = "write" => disk.root = task.value
    /\ result = "ok" /\ task.kind = "remove" => disk.root = Absent
    /\ result = "restored" => disk.root = before
=============================================================================
