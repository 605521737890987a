------------------------------ MODULE TuiFlows ------------------------------
(***************************************************************************)
(* The screens of mat (src/src/app.tsx, app/state.ts): several mat         *)
(* processes show the profiles of one CLI and act on what the user saw     *)
(* when he answered.  A dialog carries the active profile it was drawn     *)
(* with; under the CLI lock the operation compares it with config.json.    *)
(* The operations themselves are the ones of module Switcher, here one     *)
(* step each; renaming a profile is taken apart.                           *)
(***************************************************************************)
EXTENDS Integers, Sequences

CONSTANTS
  Tui, Name, Account,
  Default,      \* the profile the first import creates
  None,
  MaxJobs,      \* bound: operations the users choose
  MaxHitches,  \* bound: failing steps and kills
  Patient       \* nobody presses a key while the ambient check of a dialog runs

ASSUME TuiAssumption ==
  /\ Default \in Name /\ None \notin Name \union Tui \union Account
  /\ MaxJobs \in Nat /\ MaxHitches \in Nat /\ Patient \in BOOLEAN

VARIABLES
  directory, \* the profile directories of the CLI
  active,    \* the active pointer of config.json
  live,      \* the login the CLI uses
  version,   \* the current token of each account
  prompted,  \* firstImportPromptShown
  lock,      \* the holder of the CLI mutation lock
  stack,     \* the screens of each process
  data,      \* what it loaded last
  work,      \* what it is waiting for
  jobs, hitches,
  consented, \* history: accounts an operation gave up by the name a user agreed to
  dangling   \* history: a rename ended half-way

disk == <<directory, active, live, version, prompted>>
bounds == <<jobs, hitches>>
tuiHistories == <<consented, dangling>>
tuiVars == <<disk, lock, stack, data, work, bounds, tuiHistories>>

Login == Account \X (0..1)
Empty == <<None, 0>>
Absent == [meta |-> None, login |-> Empty, out |-> FALSE]
Ops == {"switch", "recaptureSwitch", "discardSwitch", "create", "recaptureCreate", "fresh",
        "freshRecapture", "freshDiscard", "rename", "delete", "capture", "import"}
NoJob == [op |-> "none", name |-> None, old |-> None, shown |-> None]
Job == [op : Ops, name : Name \union {None}, old : Name \union {None}, shown : Name \union {None}]
Kinds == {"home", "profiles", "confirm", "freshness", "busy", "message", "firstImport"}
Screen(kind, job) == [kind |-> kind, job |-> job]
Waits == {"none", "ambient", "inspect", "lock", "work", "meta", "pointer", "refresh"}

Profiles == {n \in Name : directory[n] # Absent}
Top(t) == stack[t][Len(stack[t])]
Rest(t) == SubSeq(stack[t], 1, Len(stack[t]) - 1)

TuiTypeOK ==
  /\ \A n \in Name : /\ directory[n].meta \in Name \union {None} /\ directory[n].out \in BOOLEAN
                     /\ directory[n].login \in Login \union {Empty}
                     /\ directory[n].meta = None => directory[n] = Absent
  /\ active \in Name \union {None} /\ live \in Login \union {Empty}
  /\ version \in [Account -> 0..1] /\ prompted \in BOOLEAN
  /\ lock \in Tui \union {None}
  /\ \A t \in Tui :
       /\ stack[t] # <<>>
       /\ \A i \in DOMAIN stack[t] : stack[t][i].kind \in Kinds
                                      /\ stack[t][i].job \in Job \union {NoJob}
       /\ data[t].names \subseteq Name /\ data[t].active \in Name \union {None}
       /\ work[t].at \in Waits /\ work[t].job \in Job \union {NoJob}
       /\ lock = t <=> work[t].at \in {"work", "meta", "pointer"}
  /\ jobs \in 0..MaxJobs /\ hitches \in 0..MaxHitches
  /\ consented \subseteq Account /\ dangling \in BOOLEAN

-----------------------------------------------------------------------------
(* The reducer *)

Push(t, screen) == stack' = [stack EXCEPT ![t] = Append(@, screen)]
Replace(t, screen) == stack' = [stack EXCEPT ![t] = Append(Rest(t), screen)]
Home == <<Screen("home", NoJob)>>
Pop(t) == stack' = [stack EXCEPT ![t] = IF Len(@) <= 1 THEN Home ELSE Rest(t)]

\* loadAllData
Loaded == [active |-> active, names |-> Profiles]

\* initialize: the first screen of a process.
FirstScreen ==
  IF ~prompted /\ live # Empty /\ Profiles = {}
  THEN Screen("firstImport", [NoJob EXCEPT !.op = "import", !.name = Default, !.shown = active])
  ELSE Screen("home", NoJob)

NoWork == [at |-> "none", job |-> NoJob]
Wait(t, at, job) == work' = [work EXCEPT ![t] = [at |-> at, job |-> job]]
Hitch == hitches < MaxHitches /\ hitches' = hitches + 1

\* Another process in the place of one that ended.
Reopen(t) ==
  /\ stack' = [stack EXCEPT ![t] = <<FirstScreen>>] /\ data' = [data EXCEPT ![t] = Loaded]
  /\ Wait(t, "none", NoJob)

TuiInit ==
  /\ \/ /\ directory = [n \in Name |-> Absent] /\ active = None
        /\ live \in {Empty} \union {<<a, 0>> : a \in Account}
     \/ \E owner \in [Name -> Account \union {None}] :
          /\ \A m, n \in Name : owner[m] = owner[n] /\ m # n => owner[m] = None
          /\ active \in Name /\ owner[active] # None /\ live = <<owner[active], 0>>
          /\ directory = [n \in Name |-> IF owner[n] = None THEN Absent
                                   ELSE [meta |-> n, login |-> <<owner[n], 0>>, out |-> FALSE]]
  /\ version = [a \in Account |-> 0] /\ prompted = FALSE /\ lock = None
  /\ stack = [t \in Tui |-> <<FirstScreen>>] /\ data = [t \in Tui |-> Loaded]
  /\ work = [t \in Tui |-> NoWork] /\ jobs = 0 /\ hitches = 0
  /\ consented = {} /\ dangling = FALSE

-----------------------------------------------------------------------------
(* Keys.  Text entry and the choice of a start mode are part of the step that  *)
(* starts the operation; a process loads nothing meanwhile.                    *)

Listens(t, kind) == Top(t).kind = kind /\ (Patient => work[t].at = "none")
Keyboard == UNCHANGED <<disk, lock, data, hitches, dangling>>

Open(t) ==
  /\ Listens(t, "home") /\ Push(t, Screen("profiles", NoJob))
  /\ Keyboard /\ UNCHANGED <<work, jobs, consented>>

Back(t) ==
  /\ Listens(t, "profiles") \/ Listens(t, "confirm") \/ Listens(t, "freshness") \/ Listens(t, "message")
  /\ IF Top(t).job.op = "import" THEN stack' = [stack EXCEPT ![t] = Home] ELSE Pop(t)
  /\ Keyboard /\ UNCHANGED <<work, jobs, consented>>

Choose == jobs < MaxJobs /\ jobs' = jobs + 1
JobOf(t, op, name) == [NoJob EXCEPT !.op = op, !.name = name, !.shown = data[t].active]

\* onSwitchAction: without a stored login to compare there is nothing to save.
SelectSwitch(t, name) ==
  /\ Listens(t, "profiles") /\ name \in data[t].names
  /\ LET job == JobOf(t, "switch", name) IN
     IF data[t].active \in {name, None}
     THEN Wait(t, "ambient", job) /\ UNCHANGED stack
     ELSE Wait(t, "inspect", job) /\ Push(t, Screen("busy", NoJob))
  /\ Choose /\ Keyboard /\ UNCHANGED consented

\* onAddSubmit and onAddFreshSubmit
SelectAdd(t, name, op) ==
  /\ Listens(t, "profiles") /\ name \notin data[t].names /\ op \in {"create", "fresh"}
  /\ Push(t, Screen("busy", NoJob))
  /\ LET job == JobOf(t, op, name) IN
     Wait(t, IF data[t].active = None THEN "lock" ELSE "inspect", job)
  /\ Choose /\ Keyboard /\ UNCHANGED consented

SelectRename(t, old, name) ==
  /\ Listens(t, "profiles") /\ old \in data[t].names /\ name \notin data[t].names
  /\ Push(t, Screen("busy", NoJob))
  /\ Wait(t, "lock", [JobOf(t, "rename", name) EXCEPT !.old = old])
  /\ Choose /\ Keyboard /\ UNCHANGED consented

\* onDeleteAction, onCaptureAction
SelectConfirm(t, name, op) ==
  /\ Listens(t, "profiles") /\ name \in data[t].names /\ op \in {"delete", "capture"}
  /\ IF op = "delete" /\ data[t].active = name THEN Push(t, Screen("message", NoJob))
     ELSE Push(t, Screen("confirm", JobOf(t, op, name)))
  /\ Choose /\ Keyboard /\ UNCHANGED <<work, consented>>

Answer(t, job) ==
  /\ Wait(t, "lock", job) /\ Replace(t, Screen("busy", NoJob))
  /\ Keyboard /\ UNCHANGED <<jobs, consented>>

Confirm(t) == (Listens(t, "confirm") \/ Listens(t, "firstImport")) /\ Answer(t, Top(t).job)

AnswerFreshness(t, op) ==
  /\ Listens(t, "freshness")
  /\ op \in CASE Top(t).job.op = "switch" -> {"recaptureSwitch", "discardSwitch"}
              [] Top(t).job.op = "create" -> {"recaptureCreate", "create"}
              [] Top(t).job.op = "fresh"  -> {"freshRecapture", "freshDiscard"}
  /\ Answer(t, [Top(t).job EXCEPT !.op = op])

\* declineFirstImport
Decline(t) ==
  /\ Listens(t, "firstImport") /\ prompted' = TRUE /\ Replace(t, Screen("home", NoJob))
  /\ UNCHANGED <<directory, active, live, version, lock, data, work, bounds, tuiHistories>>

-----------------------------------------------------------------------------
(* Checks that precede a dialog *)

Checking == UNCHANGED <<disk, lock, data, tuiHistories>>

\* pushSwitchConfirmWithAmbient
AmbientDone(t) ==
  /\ work[t].at = "ambient"
  /\ Push(t, Screen("confirm", work[t].job)) /\ Wait(t, "none", NoJob)
  /\ Checking /\ UNCHANGED bounds

\* inspectAndRouteFreshness
Inspected(t) ==
  /\ work[t].at = "inspect"
  /\ LET job == work[t].job
         fresh == live = directory[job.shown].login IN
     \/ /\ fresh /\ UNCHANGED hitches
        /\ IF job.op = "switch"
           THEN Replace(t, Screen("confirm", job)) /\ Wait(t, "none", NoJob)
           ELSE Replace(t, Screen("busy", NoJob)) /\ Wait(t, "lock", job)
     \/ /\ ~fresh /\ Replace(t, Screen("freshness", job)) /\ Wait(t, "none", NoJob)
        /\ UNCHANGED hitches
     \/ Hitch /\ Replace(t, Screen("message", NoJob)) /\ Wait(t, "none", NoJob)
  /\ Checking /\ UNCHANGED jobs

-----------------------------------------------------------------------------
(* runBusyAction: the work under the lock *)

\* The catch of runBusyAction: a message, and no refresh.
ShowError(t) == Replace(t, Screen("message", NoJob))

Fail(t) == ShowError(t) /\ Wait(t, "none", NoJob) /\ UNCHANGED data

\* Mutant: an operation leaves its lock behind.
LockKept(t) == UNCHANGED lock

Unlock(t) == lock' = IF lock = t THEN None ELSE lock

\* markFirstImportPromptShown, whose failure is only logged.
MarkShown == (prompted' = TRUE /\ UNCHANGED hitches) \/ (Hitch /\ UNCHANGED prompted)

\* An import that fails is listed in the summary; the prompt was shown all the same.
TakeLock(t) ==
  /\ work[t].at = "lock"
  /\ IF lock = None
     THEN /\ lock' = t /\ work' = [work EXCEPT ![t].at = "work"]
          /\ UNCHANGED <<stack, data, prompted, hitches>>
     ELSE /\ UNCHANGED lock
          /\ IF work[t].job.op = "import"
             THEN MarkShown /\ Wait(t, "refresh", work[t].job) /\ UNCHANGED <<stack, data>>
             ELSE Fail(t) /\ UNCHANGED <<prompted, hitches>>
  /\ UNCHANGED <<directory, active, live, version, jobs, tuiHistories>>

\* Mutant: the dialog's word is taken for it.
ActiveAssumed(t) == TRUE

\* assertActiveProfileUnchanged; the first import also wants the profiles it saw.
StateAsShown(t) ==
  LET job == work[t].job IN
  /\ job.op # "rename" => active = job.shown
  /\ job.op = "import" => Profiles = data[t].names
  /\ job.op = "delete" => active # job.name

\* snapshotLiveToProfile: a login that is missing is carried forward.
Captured(d, name) ==
  [d EXCEPT ![name] =
     IF live = Empty THEN [@ EXCEPT !.meta = name]
     ELSE [meta |-> name, login |-> live, out |-> FALSE]]

\* switchProfile to another profile: the active one is saved first, unless the
\* user has decided otherwise; a profile without a login leaves the live one.
SwitchTo(d, name, save) ==
  LET saved == IF save /\ active # None /\ d[active] # Absent THEN Captured(d, active) ELSE d IN
  /\ directory' = saved /\ active' = name
  /\ live' = IF saved[name].login # Empty \/ saved[name].out THEN saved[name].login ELSE live
  /\ UNCHANGED <<version, prompted>>

Store(d) == directory' = d /\ UNCHANGED <<active, live, version, prompted>>
Unsaved(save) == save /\ live # Empty /\ (active = None \/ directory[active] = Absent)
NewLoggedOut(d, name) == [d EXCEPT ![name] = [Absent EXCEPT !.meta = name, !.out = TRUE]]
Saving(job) == job.op \in {"switch", "fresh"}
Recaptured(job) ==
  IF job.op \in {"recaptureSwitch", "recaptureCreate", "freshRecapture"} /\ job.shown # None
  THEN Captured(directory, job.shown) ELSE directory

\* What switchProfile and switchToNewLoggedOutProfile refuse.
Refuses(job) ==
  \/ /\ job.op \in {"switch", "recaptureSwitch", "discardSwitch"}
     /\ \/ directory[job.name] = Absent
        \/ directory[job.name].out /\ active # job.name /\ Unsaved(Saving(job))
  \/ /\ job.op \in {"fresh", "freshRecapture", "freshDiscard"}
     /\ directory[job.name] # Absent \/ Unsaved(Saving(job))

Execute(job) ==
  \/ job.op = "switch" /\ active = job.name /\ UNCHANGED disk
  \/ /\ job.op \in {"switch", "recaptureSwitch", "discardSwitch"} /\ active # job.name
     /\ SwitchTo(Recaptured(job), job.name, Saving(job))
  \/ job.op \in {"create", "recaptureCreate", "capture"} /\ Store(Captured(Recaptured(job), job.name))
  \/ /\ job.op \in {"fresh", "freshRecapture", "freshDiscard"}
     /\ SwitchTo(NewLoggedOut(Recaptured(job), job.name), job.name, Saving(job))
  \/ job.op = "delete" /\ Store([directory EXCEPT ![job.name] = Absent])

\* The login that an operation may cost: the one that is live, of the profile that
\* the dialog showed as active, or the one stored under the name the user chose.  The
\* name of a create is not checked again under the lock: what another process has
\* stored under it meanwhile is overwritten.
GivenUp(job) ==
  {a \in Account :
     \/ /\ a = live[1] /\ active = job.shown
        /\ \/ job.op \in {"discardSwitch", "freshDiscard"}
           \/ job.op = "switch" /\ job.shown = None
     \/ /\ a = directory[job.name].login[1]
        /\ \/ job.op \in {"delete", "create", "recaptureCreate"}
           \/ job.op = "capture" /\ job.name # job.shown}

\* The whole operation, or an error that leaves everything as it was.
Perform(t) ==
  LET job == work[t].job
      mayStart == StateAsShown(t) /\ ~Refuses(job)
  IN
  /\ work[t].at = "work" /\ job.op \notin {"rename", "import"}
  /\ \/ /\ mayStart /\ Execute(job) /\ Wait(t, "refresh", job)
        /\ consented' = consented \union GivenUp(job) /\ UNCHANGED <<stack, data, hitches>>
     \/ /\ (~mayStart /\ UNCHANGED hitches) \/ Hitch
        /\ Fail(t) /\ UNCHANGED <<disk, consented>>
  /\ Unlock(t) /\ UNCHANGED <<jobs, dangling>>

\* onFirstImport: the capture may succeed and the pointer fail.
Import(t) ==
  LET job == work[t].job IN
  /\ work[t].at = "work" /\ job.op = "import"
  /\ \/ StateAsShown(t) /\ directory' = Captured(directory, Default) /\ active' \in {Default, active}
     \/ UNCHANGED <<directory, active>>
  /\ MarkShown /\ Wait(t, "refresh", job) /\ Unlock(t)
  /\ UNCHANGED <<live, version, stack, data, jobs, tuiHistories>>

\* Nobody catches a failing refresh of the first import: the process ends.
Refresh(t) ==
  LET import == work[t].job.op = "import" IN
  /\ work[t].at = "refresh"
  /\ \/ /\ data' = [data EXCEPT ![t] = Loaded] /\ UNCHANGED hitches
        /\ Replace(t, Screen("message", IF import THEN work[t].job ELSE NoJob))
        /\ Wait(t, "none", NoJob)
     \/ ~import /\ Hitch /\ Fail(t)
     \/ import /\ Hitch /\ Reopen(t)
  /\ UNCHANGED <<disk, lock, jobs, tuiHistories>>

-----------------------------------------------------------------------------
(* renameProfile and the pointer *)

Moved(from, to) == [directory EXCEPT ![to] = directory[from], ![from] = Absent]

RenameDirectory(t) ==
  LET job == work[t].job IN
  /\ work[t].at = "work" /\ job.op = "rename"
  /\ \/ /\ directory[job.name] = Absent /\ directory[job.old] # Absent
        /\ Store(Moved(job.old, job.name)) /\ work' = [work EXCEPT ![t].at = "meta"]
        /\ UNCHANGED <<lock, stack, data, hitches>>
     \/ /\ directory[job.name] # Absent \/ directory[job.old] = Absent
        /\ Fail(t) /\ Unlock(t) /\ UNCHANGED <<disk, hitches>>
     \/ Hitch /\ Fail(t) /\ Unlock(t) /\ UNCHANGED disk
  /\ UNCHANGED <<jobs, tuiHistories>>

\* Mutant: the directory keeps its new name when its meta.json cannot be written.
RenameStays(job) == UNCHANGED <<disk, dangling>>

RenameBack(job) ==
  \/ Store(Moved(job.name, job.old)) /\ UNCHANGED dangling
  \/ dangling' = TRUE /\ UNCHANGED disk

RenameMeta(t) ==
  LET job == work[t].job IN
  /\ work[t].at = "meta"
  /\ \/ /\ Store([directory EXCEPT ![job.name].meta = job.name])
        /\ work' = [work EXCEPT ![t].at = "pointer"]
        /\ UNCHANGED <<lock, stack, data, hitches, dangling>>
     \/ Hitch /\ RenameBack(job) /\ Fail(t) /\ Unlock(t)
  /\ UNCHANGED <<jobs, consented>>

RenamePointer(t) ==
  LET job == work[t].job IN
  /\ work[t].at = "pointer"
  /\ \/ /\ active' = IF active = job.old THEN job.name ELSE active
        /\ Wait(t, "refresh", job) /\ UNCHANGED <<stack, data, hitches, dangling>>
     \/ /\ Hitch /\ Fail(t) /\ UNCHANGED active
        /\ dangling' = (dangling \/ active = job.old)
  /\ Unlock(t) /\ UNCHANGED <<directory, live, version, prompted, jobs, consented>>

-----------------------------------------------------------------------------
\* A process is killed, its lock reclaimed, and another one started.
Restart(t) ==
  /\ Hitch /\ Reopen(t) /\ Unlock(t)
  /\ dangling' = (dangling \/ work[t].at \in {"meta", "pointer"})
  /\ UNCHANGED <<disk, jobs, consented>>

\* The CLI refreshes the token it uses.
Rotate ==
  /\ live # Empty /\ live[2] = 0 /\ version[live[1]] = 0
  /\ live' = <<live[1], 1>> /\ version' = [version EXCEPT ![live[1]] = 1]
  /\ UNCHANGED <<directory, active, prompted, lock, stack, data, work, bounds, tuiHistories>>

Runs(t) ==
  \/ AmbientDone(t) \/ Inspected(t) \/ TakeLock(t) \/ Perform(t) \/ Import(t) \/ Refresh(t)
  \/ RenameDirectory(t) \/ RenameMeta(t) \/ RenamePointer(t)

KeyPress(t) ==
  \/ Open(t) \/ Back(t) \/ Confirm(t) \/ Decline(t)
  \/ \E op \in Ops : AnswerFreshness(t, op)
  \/ \E name \in Name : SelectSwitch(t, name)
  \/ \E name \in Name, op \in Ops : SelectAdd(t, name, op) \/ SelectConfirm(t, name, op)
  \/ \E old, name \in Name : SelectRename(t, old, name)

TuiNext == Rotate \/ \E t \in Tui : Runs(t) \/ KeyPress(t) \/ Restart(t)

TuiSpec == TuiInit /\ [][TuiNext]_tuiVars

-----------------------------------------------------------------------------
\* Between operations the active pointer names a profile that exists, and a profile
\* directory and the name in its meta.json agree, whichever profile another process
\* deletes or renames (app.tsx:1148, 1213; profile-store.ts:178).
ProfilesWellNamed ==
  lock = None /\ ~dangling =>
    /\ active \in Profiles \union {None}
    /\ \A n \in Profiles : directory[n].meta = n

\* The current token of every account that had one is live or stored, unless a user
\* gave up what was live or stored under the names that the dialog showed: what
\* another process did between a dialog and its answer costs nobody any other login
\* (app.tsx:759).
LoginsKept ==
  \A a \in Account : ~dangling /\ a \notin consented /\ version[a] = 1 =>
    <<a, 1>> \in {live} \union {directory[n].login : n \in Name}
=============================================================================
