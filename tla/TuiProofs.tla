----------------------------- MODULE TuiProofs -----------------------------
(***************************************************************************)
(* Proofs about the screens, for any number of mat processes, profiles,    *)
(* accounts, operations and hitches.  The operations are atomic under the  *)
(* lock but for a rename; the invariant says what a rename leaves in       *)
(* between, and that the active profile stores the login that is live: it  *)
(* is why saving it over what the profile stored costs nothing.            *)
(***************************************************************************)
EXTENDS TuiFlows, SequenceTheorems, TLAPS

-----------------------------------------------------------------------------
(* Screens: what a screen and a pending operation carry *)

Screens ==
  {s \in [kind : Kinds, job : Job \union {NoJob}] :
     /\ s.kind = "confirm" => s.job.op \in {"switch", "delete", "capture"} /\ s.job.name \in Name
     /\ s.kind = "freshness" => /\ s.job.op \in {"switch", "create", "fresh"}
                                /\ s.job.name \in Name /\ s.job.shown \in Name
     /\ s.kind = "firstImport" => s.job.op = "import" /\ s.job.name = Default}

\* The operations that speak of the profile that was shown as active.
AboutShown == {"recaptureSwitch", "discardSwitch", "recaptureCreate", "freshRecapture", "freshDiscard"}

Works ==
  {w \in [at : Waits, job : Job \union {NoJob}] :
     /\ w.at # "none" => w.job \in Job /\ w.job.name \in Name
     /\ w.at = "ambient" => w.job.op = "switch"
     /\ w.at = "inspect" => w.job.op \in {"switch", "create", "fresh"} /\ w.job.shown \in Name
     /\ w.at \in {"lock", "work"} => /\ w.job.op = "rename" => w.job.old \in Name
                                     /\ w.job.op \in AboutShown => w.job.shown \in Name
     /\ w.at \in {"meta", "pointer"} => w.job.op = "rename" /\ w.job.old \in Name}

ProfileRecord == [meta : Name \union {None}, login : Login \union {Empty}, out : BOOLEAN]
Stores == {d \in [Name -> ProfileRecord] : \A n \in Name : d[n].meta = None => d[n] = Absent}
LoadedData == [active : Name \union {None}, names : SUBSET Name]

Disk ==
  /\ directory \in Stores
  /\ active \in Name \union {None} /\ live \in Login \union {Empty}
  /\ version \in [Account -> 0..1]

Flags == prompted \in BOOLEAN /\ dangling \in BOOLEAN

Counted ==
  /\ jobs \in 0..MaxJobs /\ hitches \in 0..MaxHitches
  /\ consented \subseteq Account

Processes ==
  /\ stack \in [Tui -> Seq(Screens)] /\ data \in [Tui -> LoadedData] /\ work \in [Tui -> Works]
  /\ lock \in Tui \union {None}

\* What the screens, the pending operation and the lock of a process have to do with
\* each other: nothing but "busy" is on top of an operation that has begun, and the
\* question about the first import is asked before anything else and when there is
\* no profile.
Desk(t) ==
  /\ stack[t] # <<>>
  /\ work[t].at \notin {"none", "ambient"} => Top(t).kind = "busy"
  /\ lock = t <=> work[t].at \in {"work", "meta", "pointer"}
  /\ work[t].at \in {"lock", "work"} /\ work[t].job.op = "import" => data[t].names = {}
  /\ (\E i \in DOMAIN stack[t] : stack[t][i].kind = "firstImport") =>
       Len(stack[t]) = 1 /\ work[t].at = "none" /\ data[t].names = {}

Desks == \A t \in Tui : Desk(t)

TuiTyped == Disk /\ Flags /\ Counted /\ Processes /\ Desks

-----------------------------------------------------------------------------
(* NamesAgree: what a rename under way leaves in between *)

Renames(t) == work[t].at \in {"meta", "pointer"}

NamesAgree ==
  ~dangling =>
    /\ \A t \in Tui : work[t].at = "meta" =>
         /\ directory[work[t].job.old] = Absent
         /\ directory[work[t].job.name] # Absent
         /\ directory[work[t].job.name].meta = work[t].job.old
         /\ work[t].job.name \notin {work[t].job.old, active}
    /\ \A t \in Tui : work[t].at = "pointer" =>
         directory[work[t].job.name] # Absent
    /\ \A n \in Profiles :
         directory[n].meta = n \/ \E t \in Tui : work[t].at = "meta" /\ work[t].job.name = n
    /\ active \in Profiles \union {None} \/ \E t \in Tui : Renames(t) /\ work[t].job.old = active

-----------------------------------------------------------------------------
(* Logins *)

\* A token that anybody has was given out.
Issued ==
  /\ live[2] = 1 => version[live[1]] = 1
  /\ \A n \in Name : directory[n].login[2] = 1 => version[directory[n].login[1]] = 1

\* The profile that is active, also while it is being renamed.
IsActive(n) == n = active \/ \E t \in Tui : Renames(t) /\ work[t].job.old = active /\ n = work[t].job.name

\* What the active profile stores is the live login, perhaps with an older token.
ActiveIsLive ==
  ~dangling => \A n \in Name : IsActive(n) /\ live # Empty /\ directory[n].login # Empty =>
    directory[n].login[1] = live[1] /\ directory[n].login[2] <= live[2]

-----------------------------------------------------------------------------
(* The stack of screens *)

LEMMA Appended ==
  ASSUME NEW s \in Seq(Screens), NEW x \in Screens
  PROVE  LET r == Append(s, x) IN
         /\ r \in Seq(Screens) /\ r # <<>> /\ Len(r) = Len(s) + 1 /\ r[Len(r)] = x
         /\ \A i \in DOMAIN s : r[i] = s[i]
         /\ \A i \in DOMAIN r : i = Len(r) \/ i \in DOMAIN s
OBVIOUS

LEMMA Popped ==
  ASSUME NEW s \in Seq(Screens), s # <<>>
  PROVE  LET r == SubSeq(s, 1, Len(s) - 1) IN
         /\ r \in Seq(Screens) /\ Len(r) = Len(s) - 1
         /\ \A i \in DOMAIN r : i \in DOMAIN s /\ r[i] = s[i]
<1>1. Len(s) \in Nat \ {0}
  BY EmptySeq
<1>2. \A i \in 1..Len(s) - 1 : i \in 1..Len(s) /\ s[i] \in Screens
  BY <1>1
<1> DEFINE n == Len(s) - 1
<1>3. n \in Nat /\ n - 1 + 1 = n /\ \A i \in 1..n : 1 + i - 1 = i
  BY <1>1
<1>4. /\ SubSeq(s, 1, n) \in Seq(Screens)
      /\ Len(SubSeq(s, 1, n)) = IF 1 <= n THEN n - 1 + 1 ELSE 0
      /\ \A i \in 1..n - 1 + 1 : SubSeq(s, 1, n)[i] = s[1 + i - 1]
  <2> HIDE DEF n
  <2>1. \A i \in 1..n : s[i] \in Screens
    BY <1>2 DEF n
  <2> QED
    BY <1>3, <2>1, SubSeqProperties
<1>5. Len(SubSeq(s, 1, n)) = n /\ \A i \in 1..n : SubSeq(s, 1, n)[i] = s[i]
  BY <1>3, <1>4
<1> QED
  BY <1>1, <1>2, <1>3, <1>4, <1>5

LEMMA PlainParts ==
  /\ NoJob \in Job \union {NoJob} /\ NoJob.op = "none" /\ NoJob.op \notin Ops
  /\ \A k \in {"home", "profiles", "busy", "message"} : Screen(k, NoJob) \in Screens
  /\ \A j \in Job : Screen("message", j) \in Screens
  /\ NoWork \in Works
  /\ Home \in Seq(Screens) /\ Home # <<>> /\ Len(Home) = 1 /\ Home[1] = Screen("home", NoJob)
BY DEF Screens, Screen, NoJob, Job, Ops, Kinds, Works, Waits, NoWork, Home

NoneFirst(t) == \A i \in DOMAIN stack[t] : stack[t][i].kind # "firstImport"

\* What pushing or replacing a screen does to the screens.
Shows(t, s) ==
  /\ stack' \in [Tui -> Seq(Screens)] /\ stack'[t] # <<>> /\ Top(t)' = s
  /\ \A u \in Tui \ {t} : stack'[u] = stack[u]
  /\ s.kind # "firstImport" => NoneFirst(t)'

LEMMA NotAsking ==
  ASSUME TuiTyped, NEW t \in Tui, Top(t).kind # "firstImport" \/ work[t].at # "none"
  PROVE  NoneFirst(t)
<1>1. stack[t] \in Seq(Screens)
  BY DEF TuiTyped, Processes
<1> QED
  BY <1>1 DEF TuiTyped, Desks, Desk, NoneFirst, Top

LEMMA Pushed ==
  ASSUME TuiTyped, NEW t \in Tui, NoneFirst(t), NEW s \in Screens, Push(t, s)
  PROVE  Shows(t, s)
<1>1. stack[t] \in Seq(Screens)
  BY DEF TuiTyped, Processes
<1>2. stack'[t] = Append(stack[t], s)
  BY DEF Push, TuiTyped, Processes
<1> QED
  BY <1>1, <1>2, Appended DEF Push, TuiTyped, Processes, Shows, Top, NoneFirst

LEMMA Replaced ==
  ASSUME TuiTyped, NEW t \in Tui, NEW s \in Screens, Replace(t, s)
  PROVE  Shows(t, s)
<1>1. stack[t] \in Seq(Screens) /\ stack[t] # <<>>
  BY DEF TuiTyped, Processes, Desks, Desk
<1>2. stack'[t] = Append(Rest(t), s)
  BY DEF Replace, TuiTyped, Processes
<1>3. /\ Rest(t) \in Seq(Screens) /\ Len(Rest(t)) = Len(stack[t]) - 1
      /\ \A i \in DOMAIN Rest(t) : i \in DOMAIN stack[t] /\ Rest(t)[i] = stack[t][i]
  BY <1>1, Popped DEF Rest
<1>4. \A i \in DOMAIN Rest(t) : Rest(t)[i].kind # "firstImport"
  <2>1. CASE Len(stack[t]) = 1
    BY <1>3, <2>1
  <2>2. CASE NoneFirst(t)
    BY <1>3, <2>2 DEF NoneFirst
  <2> QED
    BY <2>1, <2>2 DEF TuiTyped, Desks, Desk, NoneFirst
<1> QED
  BY <1>1, <1>2, <1>3, <1>4, Appended DEF Replace, TuiTyped, Processes, Shows, Top, NoneFirst

\* A step of one process leaves the desks of the others as they are.
LEMMA OneDesk ==
  ASSUME TuiTyped, NEW t \in Tui,
         \A u \in Tui \ {t} : stack'[u] = stack[u] /\ data'[u] = data[u] /\ work'[u] = work[u],
         lock' = lock \/ (lock \in {None, t} /\ lock' \in {None, t}),
         Desk(t)'
  PROVE  Desks'
<1>1. \A u \in Tui \ {t} : Desk(u)'
  <2> SUFFICES ASSUME NEW u \in Tui \ {t} PROVE Desk(u)'
    OBVIOUS
  <2>1. Desk(u) /\ u # None
    BY TuiAssumption DEF TuiTyped, Desks
  <2>2. lock' = u <=> lock = u
    BY <2>1
  <2> QED
    BY <2>1, <2>2 DEF Desk, Top
<1> QED
  BY <1>1 DEF Desks

\* What a process shows and waits for after a step without its lock.
LEMMA FreeDesk ==
  ASSUME TuiTyped, NEW t \in Tui, NEW s \in Screens, Shows(t, s), s.kind # "firstImport",
         \A u \in Tui \ {t} : data'[u] = data[u] /\ work'[u] = work[u],
         lock' = lock \/ (lock \in {None, t} /\ lock' \in {None, t}),
         lock' # t, work'[t].at \in {"none", "ambient", "inspect", "lock", "refresh"},
         work'[t].at \notin {"none", "ambient"} => s.kind = "busy",
         work'[t].at = "lock" /\ work'[t].job.op = "import" => data'[t].names = {}
  PROVE  Desks'
<1>1. Desk(t)'
  BY DEF Desk, Shows, NoneFirst
<1> QED
  BY <1>1, OneDesk DEF Shows

-----------------------------------------------------------------------------
(* Types *)

LEMMA TuiInitTyped == TuiInit => TuiTyped
<1> SUFFICES ASSUME TuiInit PROVE TuiTyped
  OBVIOUS
<1>0. /\ version = [a \in Account |-> 0] /\ prompted = FALSE /\ lock = None
      /\ stack = [t \in Tui |-> <<FirstScreen>>] /\ data = [t \in Tui |-> Loaded]
      /\ work = [t \in Tui |-> NoWork] /\ jobs = 0 /\ hitches = 0
      /\ consented = {} /\ dangling = FALSE
  BY DEF TuiInit
<1>a. Empty \in Login \union {Empty} /\ \A a \in Account : <<a, 0>> \in Login
  BY DEF Login
<1>b. /\ directory \in [Name -> ProfileRecord]
      /\ \A n \in Name : directory[n].meta = None => directory[n] = Absent
      /\ active \in Name \union {None} /\ live \in Login \union {Empty}
  <2>1. CASE directory = [n \in Name |-> Absent] /\ active = None
             /\ live \in {Empty} \union {<<a, 0>> : a \in Account}
    BY <2>1, <1>a DEF ProfileRecord, Absent
  <2>2. ASSUME NEW owner \in [Name -> Account \union {None}],
               active \in Name, owner[active] # None, live = <<owner[active], 0>>,
               directory = [n \in Name |-> IF owner[n] = None THEN Absent
                                   ELSE [meta |-> n, login |-> <<owner[n], 0>>, out |-> FALSE]]
        PROVE  <1>b!:
    BY <2>2, <1>a, TuiAssumption DEF ProfileRecord, Absent
  <2> QED
    BY <2>1, <2>2 DEF TuiInit
<1>1. Disk
  BY <1>0, <1>b DEF Disk, Stores
<1>2. Counted
  BY <1>0, TuiAssumption DEF Counted
<1>3. FirstScreen \in Screens
  BY <1>1, TuiAssumption DEF FirstScreen, Screen, Screens, Kinds, Job, Ops, NoJob, Disk
<1>4. <<FirstScreen>> \in Seq(Screens)
  BY <1>3
<1>5. Loaded \in LoadedData /\ Loaded.names = Profiles
  BY <1>1 DEF Loaded, LoadedData, Disk, Profiles
<1>6. Processes
  BY <1>0, <1>4, <1>5, PlainParts DEF Processes
<1>7. FirstScreen.kind = "firstImport" => Profiles = {}
  BY DEF FirstScreen, Screen
<1>8. Len(<<FirstScreen>>) = 1 /\ DOMAIN <<FirstScreen>> = {1} /\ <<FirstScreen>> # <<>>
  OBVIOUS
<1>9. Desks
  <2> SUFFICES ASSUME NEW t \in Tui PROVE Desk(t)
    BY DEF Desks
  <2>1. stack[t] = <<FirstScreen>> /\ work[t].at = "none" /\ data[t].names = Profiles /\ lock # t
    BY <1>0, <1>5, TuiAssumption DEF NoWork
  <2> QED
    BY <2>1, <1>7, <1>8 DEF Desk
<1>10. Flags
  BY <1>0, Zenon DEF Flags
<1> QED
  BY <1>1, <1>2, <1>6, <1>9, <1>10 DEF TuiTyped

LEMMA ReopenTyped ==
  ASSUME TuiTyped, NEW t \in Tui, Reopen(t), lock' = IF lock = t THEN None ELSE lock
  PROVE  Processes' /\ Desks'
<1>3. FirstScreen \in Screens
  BY TuiAssumption DEF FirstScreen, Screen, Screens, Kinds, Job, Ops, NoJob, TuiTyped, Disk
<1>4. /\ <<FirstScreen>> \in Seq(Screens) /\ <<FirstScreen>> # <<>> /\ Len(<<FirstScreen>>) = 1
      /\ FirstScreen.kind = "firstImport" => Profiles = {}
      /\ DOMAIN <<FirstScreen>> = {1}
  BY <1>3 DEF FirstScreen, Screen
<1>2. Loaded \in LoadedData /\ Loaded.names = Profiles
  BY DEF Loaded, LoadedData, TuiTyped, Disk, Profiles
<1>5. Processes'
  <2>1. [at |-> "none", job |-> NoJob] \in Works
    BY PlainParts DEF NoWork
  <2>2. lock' \in Tui \union {None}
    BY DEF TuiTyped, Processes
  <2>3. stack' \in [Tui -> Seq(Screens)]
    BY <1>4 DEF Reopen, Processes, TuiTyped
  <2>4. data' \in [Tui -> LoadedData]
    BY <1>2 DEF Reopen, Processes, TuiTyped
  <2>5. work' \in [Tui -> Works]
    BY <2>1 DEF Reopen, Wait, Processes, TuiTyped
  <2> QED
    BY <2>2, <2>3, <2>4, <2>5 DEF Processes
<1>6. stack'[t] = <<FirstScreen>> /\ work'[t].at = "none" /\ data'[t].names = Profiles /\ lock' # t
  BY <1>2, TuiAssumption DEF Reopen, Wait, NoWork, Processes, TuiTyped
<1>7. Desk(t)'
  <2>1. \A i \in DOMAIN stack'[t] : stack'[t][i] = FirstScreen
    BY <1>4, <1>6
  <2>2. stack'[t] # <<>> /\ Len(stack'[t]) = 1
    BY <1>4, <1>6
  <2>3. \A i \in DOMAIN stack'[t] : stack'[t][i].kind = "firstImport" => data'[t].names = {}
    BY <1>4, <1>6, <2>1
  <2> QED
    BY <1>6, <2>2, <2>3 DEF Desk
<1> QED
  BY <1>5, <1>7, OneDesk DEF Reopen, Wait, TuiTyped, Processes

LEMMA TopScreen ==
  ASSUME TuiTyped, NEW t \in Tui
  PROVE  /\ Top(t) \in Screens
         /\ Top(t).kind # "busy" => work[t].at \in {"none", "ambient"} /\ lock # t
<1>1. stack[t] \in Seq(Screens) /\ stack[t] # <<>>
  BY DEF TuiTyped, Processes, Desks, Desk
<1> QED
  BY <1>1 DEF TuiTyped, Desks, Desk, Top

LEMMA JobShown ==
  ASSUME TuiTyped, NEW t \in Tui, NEW op \in Ops, NEW name \in Name
  PROVE  /\ JobOf(t, op, name) \in Job /\ JobOf(t, op, name).op = op
         /\ JobOf(t, op, name).name = name /\ JobOf(t, op, name).shown = data[t].active
         /\ data[t].active \in Name \union {None} /\ data[t].names \subseteq Name
BY DEF JobOf, Job, NoJob, TuiTyped, Processes, LoadedData

LEMMA OpenTyped ==
  ASSUME TuiTyped, NEW t \in Tui, Open(t)
  PROVE  TuiTyped'
<1> USE DEF Open, Keyboard, Listens
<1>1. Disk' /\ Flags' /\ Counted'
  BY DEF TuiTyped, Disk, Flags, Counted, disk
<1>2. Shows(t, Screen("profiles", NoJob))
  BY PlainParts, Pushed, NotAsking
<1>3. Processes'
  BY <1>2 DEF TuiTyped, Processes, Shows
<1>4. Desks'
  BY <1>2, TopScreen, FreeDesk, PlainParts DEF Screen, TuiTyped, Processes
<1> QED
  BY <1>1, <1>3, <1>4 DEF TuiTyped

LEMMA BackTyped ==
  ASSUME TuiTyped, NEW t \in Tui, Back(t)
  PROVE  TuiTyped'
<1> USE DEF Back, Keyboard, Listens
<1>1. Disk' /\ Flags' /\ Counted'
  BY DEF TuiTyped, Disk, Flags, Counted, disk
<1>2. work[t].at \in {"none", "ambient"} /\ lock # t /\ NoneFirst(t)
  BY TopScreen, NotAsking
<1>3. stack[t] \in Seq(Screens) /\ stack[t] # <<>> /\ Len(stack[t]) \in Nat
  BY DEF TuiTyped, Processes, Desks, Desk
<1>4. /\ stack' \in [Tui -> Seq(Screens)] /\ stack'[t] # <<>> /\ NoneFirst(t)'
      /\ \A u \in Tui \ {t} : stack'[u] = stack[u]
  <2>1. CASE stack' = [stack EXCEPT ![t] = Home]
    BY <2>1, PlainParts DEF TuiTyped, Processes, NoneFirst, Home, Screen
  <2>2. CASE stack' = [stack EXCEPT ![t] = Rest(t)] /\ ~(Len(stack[t]) <= 1)
    <3>1. /\ Rest(t) \in Seq(Screens) /\ Len(Rest(t)) = Len(stack[t]) - 1
          /\ \A i \in DOMAIN Rest(t) : i \in DOMAIN stack[t] /\ Rest(t)[i] = stack[t][i]
      BY <1>3, Popped DEF Rest
    <3>2. Rest(t) # <<>>
      BY <1>3, <2>2, <3>1
    <3> QED
      BY <1>2, <2>2, <3>1, <3>2 DEF TuiTyped, Processes, NoneFirst
  <2> QED
    BY <2>1, <2>2 DEF Pop, TuiTyped, Processes
<1>5. Processes'
  BY <1>4 DEF TuiTyped, Processes
<1>6. Desk(t)'
  BY <1>2, <1>4 DEF Desk, NoneFirst
<1>7. Desks'
  BY <1>4, <1>6, OneDesk
<1> QED
  BY <1>1, <1>5, <1>7 DEF TuiTyped

LEMMA SelectSwitchTyped ==
  ASSUME TuiTyped, NEW t \in Tui, NEW name \in Name, SelectSwitch(t, name)
  PROVE  TuiTyped'
<1> USE DEF SelectSwitch, Keyboard, Listens
<1> DEFINE job == JobOf(t, "switch", name)
<1>1. Disk' /\ Flags'
  BY DEF TuiTyped, Disk, Flags, disk
<1>2. Counted'
  BY TuiAssumption DEF TuiTyped, Counted, Choose
<1>3. job \in Job /\ job.op = "switch" /\ job.name = name /\ job.shown = data[t].active
      /\ data[t].active \in Name \union {None}
  BY JobShown DEF Ops
<1>4. work[t].at \in {"none", "ambient"} /\ lock # t /\ NoneFirst(t)
  BY TopScreen, NotAsking
<1> HIDE DEF job
<1>5. CASE Wait(t, "ambient", job) /\ UNCHANGED stack
  <2>1. [at |-> "ambient", job |-> job] \in Works
    BY <1>3 DEF Works, Waits
  <2>2. Processes'
    BY <1>5, <2>1 DEF TuiTyped, Processes, Wait
  <2>3. Desk(t)'
    BY <1>4, <1>5 DEF TuiTyped, Processes, Desks, Desk, NoneFirst, Wait
  <2>4. Desks'
    BY <1>5, <2>3, OneDesk DEF Wait, TuiTyped, Processes
  <2> QED
    BY <1>1, <1>2, <2>2, <2>4 DEF TuiTyped
<1>6. CASE Wait(t, "inspect", job) /\ Push(t, Screen("busy", NoJob)) /\ job.shown \in Name
  <2>1. [at |-> "inspect", job |-> job] \in Works
    BY <1>3, <1>6 DEF Works, Waits
  <2>2. Shows(t, Screen("busy", NoJob))
    BY <1>4, <1>6, PlainParts, Pushed
  <2>3. Processes'
    BY <1>6, <2>1, <2>2 DEF TuiTyped, Processes, Wait, Shows
  <2>4. Desks'
    BY <1>4, <1>6, <2>2, FreeDesk, PlainParts DEF Wait, Screen, TuiTyped, Processes
  <2> QED
    BY <1>1, <1>2, <2>3, <2>4 DEF TuiTyped
<1> QED
  BY <1>3, <1>5, <1>6 DEF job

LEMMA SelectAddTyped ==
  ASSUME TuiTyped, NEW t \in Tui, NEW name \in Name, NEW op \in Ops, SelectAdd(t, name, op)
  PROVE  TuiTyped'
<1> USE DEF SelectAdd, Keyboard, Listens
<1> DEFINE job == JobOf(t, op, name)
           at == IF data[t].active = None THEN "lock" ELSE "inspect"
<1>1. Disk' /\ Flags'
  BY DEF TuiTyped, Disk, Flags, disk
<1>2. Counted'
  BY TuiAssumption DEF TuiTyped, Counted, Choose
<1>3. /\ job \in Job /\ job.op \in {"create", "fresh"} /\ job.name = name
      /\ job.shown = data[t].active /\ data[t].active \in Name \union {None}
  BY JobShown
<1>4. /\ lock # t /\ NoneFirst(t) /\ Wait(t, at, job) /\ Push(t, Screen("busy", NoJob))
  BY TopScreen, NotAsking
<1>5. at \in {"lock", "inspect"} /\ [at |-> at, job |-> job] \in Works
  BY <1>3 DEF Works, Waits, AboutShown
<1> HIDE DEF job, at
<1>6. Shows(t, Screen("busy", NoJob))
  BY <1>4, PlainParts, Pushed
<1>7. Processes'
  BY <1>4, <1>5, <1>6 DEF TuiTyped, Processes, Wait, Shows
<1>8. Desks'
  BY <1>3, <1>4, <1>5, <1>6, FreeDesk, PlainParts DEF Wait, Screen, TuiTyped, Processes
<1> QED
  BY <1>1, <1>2, <1>7, <1>8 DEF TuiTyped

LEMMA SelectRenameTyped ==
  ASSUME TuiTyped, NEW t \in Tui, NEW old \in Name, NEW name \in Name, SelectRename(t, old, name)
  PROVE  TuiTyped'
<1> USE DEF SelectRename, Keyboard, Listens
<1> DEFINE job == [JobOf(t, "rename", name) EXCEPT !.old = old]
<1>1. Disk' /\ Flags'
  BY DEF TuiTyped, Disk, Flags, disk
<1>2. Counted'
  BY TuiAssumption DEF TuiTyped, Counted, Choose
<1>3. job \in Job /\ job.op = "rename" /\ job.name = name /\ job.old = old
  <2>1. "rename" \in Ops
    BY DEF Ops
  <2>2. JobOf(t, "rename", name) \in Job /\ JobOf(t, "rename", name).op = "rename"
        /\ JobOf(t, "rename", name).name = name
    BY <2>1, JobShown
  <2> QED
    BY <2>2 DEF Job
<1>4. lock # t /\ NoneFirst(t) /\ Wait(t, "lock", job) /\ Push(t, Screen("busy", NoJob))
  BY TopScreen, NotAsking
<1>5. [at |-> "lock", job |-> job] \in Works
  BY <1>3 DEF Works, Waits, AboutShown
<1>a. UNCHANGED <<data, lock>>
  OBVIOUS
<1> HIDE DEF job, SelectRename
<1>6. Shows(t, Screen("busy", NoJob))
  BY <1>4, PlainParts, Pushed
<1>7. Processes'
  BY <1>4, <1>5, <1>6, <1>a DEF TuiTyped, Processes, Wait, Shows
<1>8. Desks'
  BY <1>3, <1>4, <1>6, <1>a, FreeDesk, PlainParts DEF Wait, Screen, TuiTyped, Processes
<1> QED
  BY <1>1, <1>2, <1>7, <1>8 DEF TuiTyped

LEMMA SelectConfirmTyped ==
  ASSUME TuiTyped, NEW t \in Tui, NEW name \in Name, NEW op \in Ops, SelectConfirm(t, name, op)
  PROVE  TuiTyped'
<1> USE DEF SelectConfirm, Keyboard, Listens
<1> DEFINE job == JobOf(t, op, name)
<1>1. Disk' /\ Flags'
  BY DEF TuiTyped, Disk, Flags, disk
<1>2. Counted'
  BY TuiAssumption DEF TuiTyped, Counted, Choose
<1>3. job \in Job /\ job.op \in {"delete", "capture"} /\ job.name = name
  BY JobShown
<1>4. work[t].at \in {"none", "ambient"} /\ lock # t /\ NoneFirst(t)
  BY TopScreen, NotAsking
<1>5. Screen("confirm", job) \in Screens
  BY <1>3 DEF Screens, Screen, Kinds
<1>6. PICK s \in Screens : Push(t, s) /\ s.kind \in {"message", "confirm"}
  BY <1>5, PlainParts DEF Screen
<1>7. Shows(t, s)
  BY <1>4, <1>6, Pushed
<1>8. Processes'
  BY <1>7 DEF TuiTyped, Processes, Shows
<1>9. Desks'
  BY <1>4, <1>6, <1>7, FreeDesk DEF TuiTyped, Processes
<1> QED
  BY <1>1, <1>2, <1>8, <1>9 DEF TuiTyped

\* An answer starts the operation it was asked for.
LEMMA AnswerTyped ==
  ASSUME TuiTyped, NEW t \in Tui, NEW job \in Job, Top(t).kind # "busy", Answer(t, job),
         job.name \in Name, job.op # "rename", job.op \in AboutShown => job.shown \in Name,
         job.op = "import" => data[t].names = {}
  PROVE  TuiTyped'
<1> USE DEF Answer, Keyboard
<1>1. Disk' /\ Flags' /\ Counted'
  BY DEF TuiTyped, Disk, Flags, Counted, disk
<1>2. work[t].at \in {"none", "ambient"} /\ lock # t
  BY TopScreen
<1>3. [at |-> "lock", job |-> job] \in Works
  BY DEF Works, Waits
<1>4. Shows(t, Screen("busy", NoJob))
  BY PlainParts, Replaced
<1>5. Processes'
  BY <1>3, <1>4 DEF TuiTyped, Processes, Wait, Shows
<1>6. Desks'
  BY <1>2, <1>4, FreeDesk, PlainParts DEF Wait, Screen, TuiTyped, Processes
<1> QED
  BY <1>1, <1>5, <1>6 DEF TuiTyped

LEMMA ConfirmTyped ==
  ASSUME TuiTyped, NEW t \in Tui, Confirm(t)
  PROVE  TuiTyped'
<1> DEFINE job == Top(t).job
<1>1. Top(t) \in Screens /\ Top(t).kind \in {"confirm", "firstImport"} /\ Answer(t, job)
  BY TopScreen DEF Confirm, Listens
<1>2. job \in Job /\ job.name \in Name /\ job.op \in {"switch", "delete", "capture", "import"}
  BY <1>1, TuiAssumption, PlainParts DEF Screens
<1>3. job.op = "import" => data[t].names = {}
  <2>1. CASE Top(t).kind = "firstImport"
    <3>1. stack[t] \in Seq(Screens) /\ stack[t] # <<>>
      BY DEF TuiTyped, Processes, Desks, Desk
    <3> QED
      BY <2>1, <3>1 DEF TuiTyped, Desks, Desk, Top
  <2> QED
    BY <1>1, <2>1 DEF Screens
<1> HIDE DEF job
<1> QED
  BY <1>1, <1>2, <1>3, AnswerTyped DEF AboutShown

LEMMA AnswerFreshnessTyped ==
  ASSUME TuiTyped, NEW t \in Tui, NEW op \in Ops, AnswerFreshness(t, op)
  PROVE  TuiTyped'
<1> DEFINE job == [Top(t).job EXCEPT !.op = op]
<1>1. Top(t) \in Screens /\ Top(t).kind = "freshness" /\ Answer(t, job)
  BY TopScreen DEF AnswerFreshness, Listens
<1>2. /\ Top(t).job \in Job /\ Top(t).job.op \in {"switch", "create", "fresh"}
      /\ Top(t).job.name \in Name /\ Top(t).job.shown \in Name
  BY <1>1, PlainParts DEF Screens
<1>3. op \in {"recaptureSwitch", "discardSwitch", "recaptureCreate", "create", "freshRecapture", "freshDiscard"}
  BY <1>2 DEF AnswerFreshness
<1>4. job \in Job /\ job.op = op /\ job.name \in Name /\ job.shown \in Name
  BY <1>2 DEF Job
<1> HIDE DEF job
<1> QED
  BY <1>1, <1>3, <1>4, AnswerTyped

LEMMA DeclineTyped ==
  ASSUME TuiTyped, NEW t \in Tui, Decline(t)
  PROVE  TuiTyped'
<1> USE DEF Decline, Listens, bounds, tuiHistories
<1>1. Disk' /\ Counted'
  BY DEF TuiTyped, Disk, Counted
<1>2. Flags'
  BY Zenon DEF TuiTyped, Flags
<1>3. work[t].at \in {"none", "ambient"} /\ lock # t
  BY TopScreen
<1>4. Shows(t, Screen("home", NoJob))
  BY PlainParts, Replaced
<1>5. Processes'
  BY <1>4 DEF TuiTyped, Processes, Shows
<1>6. Desks'
  BY <1>3, <1>4, FreeDesk, PlainParts DEF Screen, TuiTyped, Processes
<1> QED
  BY <1>1, <1>2, <1>5, <1>6 DEF TuiTyped

LEMMA AmbientDoneTyped ==
  ASSUME TuiTyped, NEW t \in Tui, AmbientDone(t)
  PROVE  TuiTyped'
<1> USE DEF AmbientDone, Checking, bounds, tuiHistories
<1> DEFINE s == Screen("confirm", work[t].job)
<1>1. Disk' /\ Flags' /\ Counted'
  BY DEF TuiTyped, Disk, Flags, Counted, disk
<1>2. lock # t /\ NoneFirst(t) /\ Push(t, s) /\ Wait(t, "none", NoJob)
  BY NotAsking DEF TuiTyped, Desks, Desk
<1>3. s \in Screens /\ s.kind = "confirm"
  BY DEF TuiTyped, Processes, Works, Screens, Screen, Kinds
<1> HIDE DEF s
<1>4. Shows(t, s)
  BY <1>2, <1>3, Pushed
<1>5. Processes'
  BY <1>2, <1>4, PlainParts DEF TuiTyped, Processes, Shows, Wait, NoWork
<1>6. Desks'
  BY <1>2, <1>3, <1>4, FreeDesk DEF Wait, TuiTyped, Processes
<1> QED
  BY <1>1, <1>5, <1>6 DEF TuiTyped

LEMMA InspectedTyped ==
  ASSUME TuiTyped, NEW t \in Tui, Inspected(t)
  PROVE  TuiTyped'
<1> DEFINE job == work[t].job
<1>1. Disk' /\ Flags'
  BY DEF Inspected, Checking, tuiHistories, TuiTyped, Disk, Flags, disk
<1>2. Counted'
  BY TuiAssumption DEF Inspected, Checking, tuiHistories, TuiTyped, Counted, Hitch
<1>3. /\ job \in Job /\ job.name \in Name /\ job.shown \in Name
      /\ job.op \in {"switch", "create", "fresh"} /\ work[t].at = "inspect" /\ lock # t
  BY DEF Inspected, TuiTyped, Processes, Works, Desks, Desk
<1>4. /\ Screen("confirm", job) \in Screens \/ job.op # "switch"
      /\ Screen("freshness", job) \in Screens
  BY <1>3 DEF Screens, Screen, Kinds
<1>5. [at |-> "lock", job |-> job] \in Works /\ [at |-> "none", job |-> NoJob] \in Works
  BY <1>3, PlainParts DEF Works, Waits, AboutShown, NoWork
<1> HIDE DEF job
<1>6. PICK s \in Screens, w \in Works :
        /\ Replace(t, s) /\ work' = [work EXCEPT ![t] = w] /\ s.kind # "firstImport"
        /\ \/ w.at = "none"
           \/ w.at = "lock" /\ s.kind = "busy" /\ w.job.op # "import"
  BY <1>3, <1>4, <1>5, PlainParts DEF Inspected, Wait, Screen, job
<1>7. Shows(t, s) /\ UNCHANGED <<data, lock>>
  BY <1>6, Replaced DEF Inspected, Checking
<1>8. Processes'
  BY <1>6, <1>7 DEF TuiTyped, Processes, Shows
<1>9. Desks'
  BY <1>3, <1>6, <1>7, FreeDesk DEF TuiTyped, Processes
<1> QED
  BY <1>1, <1>2, <1>8, <1>9 DEF TuiTyped

\* An operation ends with a message.
LEMMA Failed ==
  ASSUME TuiTyped, NEW t \in Tui, Fail(t), (lock # t /\ lock' = lock) \/ Unlock(t)
  PROVE  Processes' /\ Desks'
<1>1. Shows(t, Screen("message", NoJob)) /\ Wait(t, "none", NoJob) /\ data' = data
  BY PlainParts, Replaced DEF Fail, ShowError
<1>2. [at |-> "none", job |-> NoJob] \in Works
  BY PlainParts DEF NoWork
<1>3. /\ lock' \in Tui \union {None} /\ lock' # t
      /\ lock' = lock \/ (lock \in {None, t} /\ lock' \in {None, t})
  BY TuiAssumption DEF TuiTyped, Processes, Unlock
<1>4. Processes'
  BY <1>1, <1>2, <1>3 DEF TuiTyped, Processes, Wait, Shows
<1>5. Desks'
  BY <1>1, <1>3, FreeDesk, PlainParts DEF Wait, Screen, TuiTyped, Processes
<1> QED
  BY <1>4, <1>5

\* An operation goes on behind the same screen.
LEMMA GoesOn ==
  ASSUME TuiTyped, NEW t \in Tui, NEW w \in Works, work' = [work EXCEPT ![t] = w],
         UNCHANGED <<stack, data>>, {work[t].at, w.at} \intersect {"none", "ambient"} = {},
         lock' = lock \/ (lock \in {None, t} /\ lock' \in {None, t}),
         lock' = t <=> w.at \in {"work", "meta", "pointer"},
         w.at \in {"lock", "work"} /\ w.job.op = "import" => data[t].names = {}
  PROVE  Processes' /\ Desks'
<1>1. Processes'
  BY DEF TuiTyped, Processes
<1>2. work'[t] = w
  BY DEF TuiTyped, Processes
<1>3. Desk(t)'
  BY <1>2 DEF Desk, Top, TuiTyped, Desks
<1>4. Desks'
  BY <1>3, OneDesk DEF TuiTyped, Processes
<1> QED
  BY <1>1, <1>4

LEMMA Locked ==
  ASSUME TuiTyped, NEW t \in Tui
  PROVE  /\ work[t] \in Works /\ work[t] = [at |-> work[t].at, job |-> work[t].job]
         /\ work[t].at # "none" => work[t].job \in Job /\ work[t].job.name \in Name
         /\ lock = t <=> work[t].at \in {"work", "meta", "pointer"}
         /\ work[t].at \in {"lock", "work"} /\ work[t].job.op = "import" => data[t].names = {}
         /\ t # None
BY TuiAssumption DEF TuiTyped, Processes, Works, Desks, Desk

LEMMA MarkShownTyped ==
  ASSUME TuiTyped, MarkShown
  PROVE  prompted' \in BOOLEAN /\ hitches' \in 0..MaxHitches
<1>1. prompted' \in BOOLEAN
  BY Zenon DEF TuiTyped, Flags, MarkShown
<1>2. hitches' \in 0..MaxHitches
  BY TuiAssumption DEF TuiTyped, Counted, MarkShown, Hitch
<1> QED
  BY <1>1, <1>2

LEMMA TakeLockTyped ==
  ASSUME TuiTyped, NEW t \in Tui, TakeLock(t)
  PROVE  TuiTyped'
<1> DEFINE job == work[t].job
<1>1. Disk' /\ Flags' /\ Counted'
  <2>1. prompted' \in BOOLEAN /\ hitches' \in 0..MaxHitches
    BY MarkShownTyped DEF TakeLock, TuiTyped, Flags, Counted
  <2> QED
    BY <2>1 DEF TakeLock, TuiTyped, Disk, Flags, Counted, tuiHistories
<1>2. work[t].at = "lock" /\ job \in Job /\ job.name \in Name /\ lock # t
  BY Locked DEF TakeLock
<1>3. CASE lock = None
  <2>1. [work[t] EXCEPT !.at = "work"] \in Works
    BY <1>2, Locked DEF Works, Waits
  <2>2. lock' = t /\ work' = [work EXCEPT ![t] = [work[t] EXCEPT !.at = "work"]] /\ UNCHANGED <<stack, data>>
    BY <1>3 DEF TakeLock, TuiTyped, Processes
  <2>3. Processes' /\ Desks'
    BY <1>2, <1>3, <2>1, <2>2, Locked, GoesOn DEF Works
  <2> QED
    BY <1>1, <2>3 DEF TuiTyped
<1>4. CASE lock # None /\ job.op = "import"
  <2>1. [at |-> "refresh", job |-> job] \in Works
    BY <1>2 DEF Works, Waits
  <2>2. Processes' /\ Desks'
    BY <1>2, <1>4, <2>1, GoesOn DEF TakeLock, Wait
  <2> QED
    BY <1>1, <2>2 DEF TuiTyped
<1>5. CASE lock # None /\ job.op # "import"
  <2>1. Processes' /\ Desks'
    BY <1>2, <1>5, Failed DEF TakeLock
  <2> QED
    BY <1>1, <2>1 DEF TuiTyped
<1> QED
  BY <1>3, <1>4, <1>5

-----------------------------------------------------------------------------
(* What the operations make of the profiles *)

LEMMA StoresKept ==
  ASSUME Disk, NEW d \in Stores, NEW name \in Name
  PROVE  /\ Captured(d, name) \in Stores
         /\ NewLoggedOut(d, name) \in Stores
         /\ [d EXCEPT ![name] = Absent] \in Stores
<1>1. name # None
  BY TuiAssumption
<1>2. Absent \in ProfileRecord /\ Absent.meta = None
  BY DEF Absent, ProfileRecord
<1>3. d[name] \in ProfileRecord
  BY DEF Stores
<1>4. Captured(d, name)[name] \in ProfileRecord /\ Captured(d, name)[name].meta = name
      /\ Captured(d, name) = [d EXCEPT ![name] = Captured(d, name)[name]]
  BY <1>3 DEF Stores, Captured, ProfileRecord, Disk
<1>5. NewLoggedOut(d, name)[name] \in ProfileRecord /\ NewLoggedOut(d, name)[name].meta = name
      /\ NewLoggedOut(d, name) = [d EXCEPT ![name] = NewLoggedOut(d, name)[name]]
  BY <1>2 DEF Stores, NewLoggedOut, ProfileRecord
<1>6. \A r \in ProfileRecord : r.meta = name \/ r = Absent => [d EXCEPT ![name] = r] \in Stores
  BY <1>1 DEF Stores
<1> QED
  BY <1>2, <1>4, <1>5, <1>6

LEMMA SwitchToDisk ==
  ASSUME Disk, NEW d \in Stores, NEW name \in Name, NEW save \in BOOLEAN, SwitchTo(d, name, save)
  PROVE  Disk' /\ prompted' = prompted
<1> DEFINE saved == IF save /\ active # None /\ d[active] # Absent THEN Captured(d, active) ELSE d
<1>1. saved \in Stores
  BY StoresKept DEF Disk
<1>2. saved[name].login \in Login \union {Empty}
  <2> HIDE DEF saved
  <2> QED
    BY <1>1 DEF Stores, ProfileRecord
<1>3. /\ directory' = saved /\ active' = name /\ UNCHANGED <<version, prompted>>
      /\ live' \in {saved[name].login, live}
  BY DEF SwitchTo
<1> HIDE DEF saved
<1> QED
  BY <1>1, <1>2, <1>3 DEF Disk

LEMMA ExecuteDisk ==
  ASSUME Disk, NEW job \in Job, job.name \in Name, Execute(job)
  PROVE  Disk' /\ prompted' = prompted
<1>1. Recaptured(job) \in Stores
  BY StoresKept DEF Recaptured, Disk, Job
<1>2. Saving(job) \in BOOLEAN
  BY DEF Saving
<1>3. CASE UNCHANGED disk
  BY <1>3 DEF disk, Disk
<1>4. CASE SwitchTo(Recaptured(job), job.name, Saving(job))
  BY <1>1, <1>2, <1>4, SwitchToDisk
<1>5. CASE Store(Captured(Recaptured(job), job.name))
  BY <1>1, <1>5, StoresKept DEF Store, Disk
<1>6. CASE SwitchTo(NewLoggedOut(Recaptured(job), job.name), job.name, Saving(job))
  BY <1>1, <1>2, <1>6, StoresKept, SwitchToDisk
<1>7. CASE Store([directory EXCEPT ![job.name] = Absent])
  BY <1>7, StoresKept DEF Store, Disk
<1> QED
  BY <1>3, <1>4, <1>5, <1>6, <1>7 DEF Execute

LEMMA PerformTyped ==
  ASSUME TuiTyped, NEW t \in Tui, Perform(t)
  PROVE  TuiTyped'
<1> DEFINE job == work[t].job
<1>1. work[t].at = "work" /\ job \in Job /\ job.name \in Name /\ lock = t
  BY Locked DEF Perform
<1>2. Disk' /\ prompted' = prompted
  <2>1. CASE Execute(job)
    BY <1>1, <2>1, ExecuteDisk DEF TuiTyped
  <2>2. CASE UNCHANGED disk
    BY <2>2 DEF disk, TuiTyped, Disk
  <2> QED
    BY <2>1, <2>2 DEF Perform
<1>3. Flags'
  BY <1>2 DEF Perform, TuiTyped, Flags
<1>4. Counted'
  <2>1. consented' \subseteq Account
    BY DEF Perform, TuiTyped, Counted, GivenUp
  <2>2. jobs' = jobs /\ hitches' \in 0..MaxHitches
    BY TuiAssumption DEF Perform, TuiTyped, Counted, Hitch
  <2> QED
    BY <2>1, <2>2 DEF TuiTyped, Counted
<1>5. Processes' /\ Desks'
  <2>1. CASE Fail(t)
    BY <2>1, Failed DEF Perform
  <2>2. CASE Wait(t, "refresh", job) /\ UNCHANGED <<stack, data>>
    <3>1. [at |-> "refresh", job |-> job] \in Works
      BY <1>1 DEF Works, Waits
    <3>2. lock' = None /\ t # None
      BY <1>1, Locked DEF Perform, Unlock
    <3> QED
      BY <1>1, <2>2, <3>1, <3>2, GoesOn DEF Wait
  <2> QED
    BY <2>1, <2>2 DEF Perform
<1> QED
  BY <1>2, <1>3, <1>4, <1>5 DEF TuiTyped

LEMMA ImportTyped ==
  ASSUME TuiTyped, NEW t \in Tui, Import(t)
  PROVE  TuiTyped'
<1> DEFINE job == work[t].job
<1>1. work[t].at = "work" /\ job \in Job /\ job.name \in Name /\ lock = t
  BY Locked DEF Import
<1>2. Disk'
  BY StoresKept, TuiAssumption DEF Import, TuiTyped, Disk
<1>3. prompted' \in BOOLEAN /\ hitches' \in 0..MaxHitches
  BY MarkShownTyped DEF Import
<1>4. Flags' /\ Counted'
  BY <1>3 DEF Import, TuiTyped, Flags, Counted, tuiHistories
<1>5. Processes' /\ Desks'
  <2>1. [at |-> "refresh", job |-> job] \in Works
    BY <1>1 DEF Works, Waits
  <2>2. lock' = None /\ t # None
    BY <1>1, Locked DEF Import, Unlock
  <2> QED
    BY <1>1, <2>1, <2>2, GoesOn DEF Import, Wait
<1> QED
  BY <1>2, <1>4, <1>5 DEF TuiTyped

LEMMA RefreshTyped ==
  ASSUME TuiTyped, NEW t \in Tui, Refresh(t)
  PROVE  TuiTyped'
<1>1. Disk' /\ Flags' /\ Counted'
  BY TuiAssumption DEF Refresh, TuiTyped, Disk, Flags, Counted, disk, tuiHistories, Hitch
<1>2. work[t].at = "refresh" /\ work[t].job \in Job /\ lock # t /\ lock' = lock
  BY Locked DEF Refresh
<1>3. Processes' /\ Desks'
  <2> DEFINE job == IF work[t].job.op = "import" THEN work[t].job ELSE NoJob
             s == Screen("message", job)
  <2>1. CASE data' = [data EXCEPT ![t] = Loaded] /\ Replace(t, s) /\ Wait(t, "none", NoJob)
    <3>1. s \in Screens /\ s.kind = "message"
      BY <1>2, PlainParts DEF Screen
    <3> HIDE DEF s
    <3>2. Shows(t, s)
      BY <2>1, <3>1, Replaced
    <3>3. Loaded \in LoadedData
      BY DEF Loaded, LoadedData, TuiTyped, Disk, Profiles
    <3>4. work' = [work EXCEPT ![t] = NoWork]
      BY <2>1 DEF Wait, NoWork
    <3>5. Processes'
      BY <1>2, <2>1, <3>2, <3>3, <3>4, PlainParts DEF TuiTyped, Processes, Shows
    <3>6. work'[t].at = "none"
      BY <3>4 DEF TuiTyped, Processes, NoWork
    <3>7. Desks'
      BY <1>2, <2>1, <3>1, <3>2, <3>4, <3>6, FreeDesk DEF TuiTyped, Processes
    <3> QED
      BY <3>5, <3>7
  <2>2. CASE Fail(t)
    BY <1>2, <2>2, Failed
  <2>3. CASE Reopen(t)
    <3>1. lock' = IF lock = t THEN None ELSE lock
      BY <1>2
    <3> QED
      BY <2>3, <3>1, ReopenTyped
  <2> QED
    BY <2>1, <2>2, <2>3 DEF Refresh
<1> QED
  BY <1>1, <1>3 DEF TuiTyped

LEMMA MovedStores ==
  ASSUME Disk, NEW from \in Name, NEW to \in Name
  PROVE  Moved(from, to) \in Stores
<1>1. Absent \in ProfileRecord
  BY DEF Absent, ProfileRecord
<1>2. directory[from] \in ProfileRecord /\ (directory[from].meta = None => directory[from] = Absent)
  BY DEF Disk, Stores
<1> QED
  BY <1>1, <1>2 DEF Disk, Stores, Moved

LEMMA RenameDirectoryTyped ==
  ASSUME TuiTyped, NEW t \in Tui, RenameDirectory(t)
  PROVE  TuiTyped'
<1> DEFINE job == work[t].job
<1>1. /\ work[t].at = "work" /\ job \in Job /\ job.name \in Name /\ lock = t
      /\ job.op = "rename" /\ job.old \in Name
  BY Locked DEF RenameDirectory, Works
<1>2. Disk'
  <2>1. CASE UNCHANGED disk
    BY <2>1 DEF TuiTyped, Disk, disk
  <2>2. CASE Store(Moved(job.old, job.name))
    BY <1>1, <2>2, MovedStores DEF TuiTyped, Disk, Store
  <2> QED
    BY <2>1, <2>2 DEF RenameDirectory
<1>3. Flags' /\ Counted'
  BY TuiAssumption DEF RenameDirectory, TuiTyped, Flags, Counted, tuiHistories, disk, Store, Hitch
<1>4. Processes' /\ Desks'
  <2>1. CASE Fail(t) /\ Unlock(t)
    BY <2>1, Failed
  <2>2. CASE work' = [work EXCEPT ![t].at = "meta"] /\ UNCHANGED <<lock, stack, data>>
    <3> DEFINE w == [work[t] EXCEPT !.at = "meta"]
    <3>1. w \in Works /\ w.at = "meta"
      BY <1>1, Locked DEF Works, Waits
    <3>2. work' = [work EXCEPT ![t] = w]
      BY <2>2 DEF TuiTyped, Processes
    <3> HIDE DEF w
    <3> QED
      BY <1>1, <2>2, <3>1, <3>2, GoesOn
  <2> QED
    BY <2>1, <2>2 DEF RenameDirectory
<1> QED
  BY <1>2, <1>3, <1>4 DEF TuiTyped

LEMMA RenameMetaTyped ==
  ASSUME TuiTyped, NEW t \in Tui, RenameMeta(t)
  PROVE  TuiTyped'
<1> DEFINE job == work[t].job
<1>1. /\ work[t].at = "meta" /\ job \in Job /\ job.name \in Name /\ lock = t
      /\ job.op = "rename" /\ job.old \in Name
  BY Locked DEF RenameMeta, Works
<1>2. Disk'
  <2>1. CASE UNCHANGED disk
    BY <2>1 DEF TuiTyped, Disk, disk
  <2>2. CASE Store(Moved(job.name, job.old))
    BY <1>1, <2>2, MovedStores DEF TuiTyped, Disk, Store
  <2>3. CASE Store([directory EXCEPT ![job.name].meta = job.name])
    BY <1>1, <2>3, TuiAssumption DEF TuiTyped, Disk, Store, Stores, ProfileRecord
  <2> QED
    BY <2>1, <2>2, <2>3 DEF RenameMeta, RenameBack
<1>3. prompted' = prompted /\ dangling' \in {dangling, TRUE}
  BY DEF RenameMeta, RenameBack, Store, disk
<1>4. Flags'
  BY <1>3, Zenon DEF TuiTyped, Flags
<1>5. Counted'
  BY TuiAssumption DEF RenameMeta, TuiTyped, Counted, Hitch
<1>6. Processes' /\ Desks'
  <2>1. CASE Fail(t) /\ Unlock(t)
    BY <2>1, Failed
  <2>2. CASE work' = [work EXCEPT ![t].at = "pointer"] /\ UNCHANGED <<lock, stack, data>>
    <3> DEFINE w == [work[t] EXCEPT !.at = "pointer"]
    <3>1. w \in Works /\ w.at = "pointer"
      BY <1>1, Locked DEF Works, Waits
    <3>2. work' = [work EXCEPT ![t] = w]
      BY <2>2 DEF TuiTyped, Processes
    <3> HIDE DEF w
    <3> QED
      BY <1>1, <2>2, <3>1, <3>2, GoesOn
  <2> QED
    BY <2>1, <2>2 DEF RenameMeta
<1> QED
  BY <1>2, <1>4, <1>5, <1>6 DEF TuiTyped

LEMMA RenamePointerTyped ==
  ASSUME TuiTyped, NEW t \in Tui, RenamePointer(t)
  PROVE  TuiTyped'
<1> DEFINE job == work[t].job
<1>1. /\ work[t].at = "pointer" /\ job \in Job /\ job.name \in Name /\ lock = t
      /\ job.op = "rename" /\ job.old \in Name
  BY Locked DEF RenamePointer, Works
<1>2. Disk'
  BY <1>1 DEF RenamePointer, TuiTyped, Disk
<1>3. Flags'
  <2>1. (dangling \/ active = job.old) \in BOOLEAN
    OBVIOUS
  <2>2. prompted' = prompted /\ dangling' \in {dangling, (dangling \/ active = job.old)}
    BY DEF RenamePointer
  <2> QED
    BY <2>1, <2>2, Zenon DEF TuiTyped, Flags
<1>4. Counted'
  BY TuiAssumption DEF RenamePointer, TuiTyped, Counted, Hitch
<1>5. Processes' /\ Desks'
  <2>1. CASE Fail(t)
    BY <2>1, Failed DEF RenamePointer
  <2>2. CASE Wait(t, "refresh", job) /\ UNCHANGED <<stack, data>>
    <3> DEFINE w == [at |-> "refresh", job |-> job]
    <3>1. w \in Works /\ w.at = "refresh"
      BY <1>1 DEF Works, Waits
    <3>2. work' = [work EXCEPT ![t] = w] /\ lock' = None /\ t # None
      BY <1>1, <2>2, Locked DEF Wait, RenamePointer, Unlock
    <3> HIDE DEF w
    <3> QED
      BY <1>1, <2>2, <3>1, <3>2, GoesOn
  <2> QED
    BY <2>1, <2>2 DEF RenamePointer
<1> QED
  BY <1>2, <1>3, <1>4, <1>5 DEF TuiTyped

LEMMA RestartTyped ==
  ASSUME TuiTyped, NEW t \in Tui, Restart(t)
  PROVE  TuiTyped'
<1>1. Disk' /\ Counted'
  BY TuiAssumption DEF Restart, TuiTyped, Disk, disk, Counted, Hitch
<1>2. Flags'
  <2>1. (dangling \/ work[t].at \in {"meta", "pointer"}) \in BOOLEAN
    OBVIOUS
  <2>2. prompted' = prompted /\ dangling' = (dangling \/ work[t].at \in {"meta", "pointer"})
    BY DEF Restart, disk
  <2> QED
    BY <2>1, <2>2, Zenon DEF TuiTyped, Flags
<1>3. Processes' /\ Desks'
  BY ReopenTyped DEF Restart, Unlock
<1> QED
  BY <1>1, <1>2, <1>3 DEF TuiTyped

LEMMA RotateTyped ==
  ASSUME TuiTyped, Rotate
  PROVE  TuiTyped'
<1>1. Flags' /\ Counted' /\ Processes' /\ Desks'
  BY DEF Rotate, TuiTyped, Flags, Counted, Processes, Desks, Desk, Top, bounds, tuiHistories
<1>2. live \in Login
  BY DEF Rotate, TuiTyped, Disk
<1>3. Disk'
  BY <1>2 DEF Rotate, TuiTyped, Disk, Login
<1> QED
  BY <1>1, <1>3 DEF TuiTyped

LEMMA TuiTypedStep == TuiTyped /\ [TuiNext]_tuiVars => TuiTyped'
<1> SUFFICES ASSUME TuiTyped, [TuiNext]_tuiVars PROVE TuiTyped'
  OBVIOUS
<1>1. CASE UNCHANGED tuiVars
  BY <1>1 DEF tuiVars, disk, bounds, tuiHistories, TuiTyped, Disk, Flags, Counted, Processes, Desks, Desk, Top
<1>2. CASE Rotate
  BY <1>2, RotateTyped
<1>3. ASSUME NEW t \in Tui, Restart(t) PROVE TuiTyped'
  BY <1>3, RestartTyped
<1>4. ASSUME NEW t \in Tui, Runs(t) PROVE TuiTyped'
  BY <1>4, AmbientDoneTyped, InspectedTyped, TakeLockTyped, PerformTyped, ImportTyped, RefreshTyped,
     RenameDirectoryTyped, RenameMetaTyped, RenamePointerTyped DEF Runs
<1>5. ASSUME NEW t \in Tui, KeyPress(t) PROVE TuiTyped'
  BY <1>5, OpenTyped, BackTyped, ConfirmTyped, DeclineTyped, AnswerFreshnessTyped, SelectSwitchTyped,
     SelectAddTyped, SelectConfirmTyped, SelectRenameTyped DEF KeyPress
<1> QED
  BY <1>1, <1>2, <1>3, <1>4, <1>5 DEF TuiNext
-----------------------------------------------------------------------------
(* What the pointers and the logins have to do with each other, step by step *)

Pointers == NamesAgree /\ (~dangling => Issued) /\ ActiveIsLive /\ LoginsKept

\* Nobody is in the middle of a rename.
Still == \A u \in Tui : ~Renames(u)

Well(d) == \A n \in Name : d[n] # Absent => d[n].meta = n
Agree == active \in Profiles \union {None} /\ Well(directory)
Tracks(d) ==
  active # None /\ live # Empty /\ d[active].login # Empty =>
    d[active].login[1] = live[1] /\ d[active].login[2] <= live[2]
IssuedIn(d) == \A n \in Name : d[n].login[2] = 1 => version[d[n].login[1]] = 1

\* A step that moves no profile, no pointer, no login and no rename.
Quiet ==
  /\ UNCHANGED <<directory, active, live, version, consented, dangling>>
  /\ \A u \in Tui : Renames(u) \/ Renames(u)' => work'[u] = work[u]

LEMMA QuietKeeps == ASSUME Pointers, Quiet PROVE Pointers'
<1>1. \A u \in Tui : Renames(u)' <=> Renames(u)
  BY DEF Quiet, Renames
<1>2. NamesAgree'
  BY <1>1 DEF Pointers, NamesAgree, Quiet, Renames, Profiles
<1>3. (~dangling => Issued)' /\ LoginsKept'
  BY DEF Pointers, Issued, LoginsKept, Quiet
<1>4. ActiveIsLive'
  <2>1. \A n \in Name : IsActive(n)' => IsActive(n)
    BY <1>1 DEF IsActive, Quiet
  <2> QED
    BY <2>1 DEF Pointers, ActiveIsLive, Quiet
<1> QED
  BY <1>2, <1>3, <1>4 DEF Pointers

\* What a rename leaves when it ends half-way.
LEMMA HalfWay ==
  ASSUME Pointers, dangling', UNCHANGED <<directory, live, version>>
  PROVE  Pointers'
BY DEF Pointers, NamesAgree, Issued, ActiveIsLive, LoginsKept

LEMMA WhenStill ==
  ASSUME Still
  PROVE  /\ NamesAgree <=> (~dangling => Agree)
         /\ TuiTyped => (ActiveIsLive <=> (~dangling => Tracks(directory)))
<1>1. NamesAgree <=> (~dangling => Agree)
  BY DEF Still, NamesAgree, Renames, Agree, Well, Profiles
<1>2. \A n \in Name : IsActive(n) <=> n = active
  BY DEF Still, IsActive
<1>3. ASSUME TuiTyped PROVE ActiveIsLive <=> (~dangling => Tracks(directory))
  <2>1. active \in Name \union {None} /\ None \notin Name
    BY <1>3, TuiAssumption DEF TuiTyped, Disk
  <2> QED
    BY <1>2, <2>1 DEF ActiveIsLive, Tracks
<1> QED
  BY <1>1, <1>3

\* The holder of the lock works; nobody is in the middle of a rename.
LEMMA Alone ==
  ASSUME TuiTyped, NEW t \in Tui, work[t].at = "work"
  PROVE  lock = t /\ Still /\ \A u \in Tui \ {t} : ~Renames(u)
<1>1. lock = t
  BY Locked
<1>2. \A u \in Tui : Renames(u) => u = t
  BY <1>1, Locked DEF Renames
<1> QED
  BY <1>1, <1>2 DEF Still, Renames

\* snapshotLiveToProfile costs the profile that is active nothing.
LEMMA CapturedKeeps ==
  ASSUME Disk, NEW d \in Stores, NEW name \in Name
  PROVE  LET c == Captured(d, name) IN
         /\ c \in Stores /\ c[name].meta = name /\ c[name] # Absent
         /\ \A n \in Name \ {name} : c[n] = d[n]
         /\ Well(d) => Well(c)
         /\ Issued /\ IssuedIn(d) => IssuedIn(c)
         /\ c[name].login = IF live = Empty THEN d[name].login ELSE live
<1> DEFINE c == Captured(d, name)
<1>1. c \in Stores
  BY StoresKept
<1>2. name # None
  BY TuiAssumption
<1>3. /\ c[name].meta = name /\ \A n \in Name \ {name} : c[n] = d[n]
      /\ c[name].login = IF live = Empty THEN d[name].login ELSE live
  BY DEF Captured, Stores, ProfileRecord
<1>4. c[name] # Absent
  BY <1>2, <1>3 DEF Absent
<1> HIDE DEF c
<1>5. Well(d) => Well(c)
  BY <1>3 DEF Well
<1>6. Issued /\ IssuedIn(d) => IssuedIn(c)
  BY <1>3 DEF Issued, IssuedIn
<1> QED
  BY <1>1, <1>3, <1>4, <1>5, <1>6 DEF c

LEMMA NoToken ==
  \A a \in Account : <<a, 1>> # Empty /\ <<a, 1>> # Absent.login
BY DEF Empty, Absent

-----------------------------------------------------------------------------
(* The operations under the lock *)

\* The state in which an operation starts.
Starts(job) ==
  /\ TuiTyped /\ job \in Job /\ job.name \in Name
  /\ job.op \in AboutShown => job.shown \in Name
  /\ job.op \in Ops \ {"rename", "import"}
  /\ active = job.shown
  /\ job.op = "delete" => active # job.name
  /\ Agree /\ Tracks(directory) /\ Issued /\ ~Refuses(job)

\* What it has to leave: the tokens of the accounts that it gives up may be gone.
Leaves(job) ==
  /\ Agree' /\ Tracks(directory)' /\ Issued'
  /\ \A a \in Account \ GivenUp(job) :
       <<a, 1>> \in {live} \union {directory[n].login : n \in Name} =>
       <<a, 1>> \in {live'} \union {directory'[n].login : n \in Name}

\* The active profile may be saved at any time.
LEMMA ActiveSaved ==
  ASSUME TuiTyped, active \in Name, Agree, Tracks(directory), Issued
  PROVE  LET c == Captured(directory, active) IN
         /\ c \in Stores /\ Well(c) /\ IssuedIn(c) /\ c[active] # Absent /\ Tracks(c)
         /\ \A n \in Name \ {active} : c[n] = directory[n]
         /\ live # Empty => c[active].login = live
         /\ \A a \in Account : directory[active].login = <<a, 1>> =>
              c[active].login = <<a, 1>> /\ (live # Empty => live = <<a, 1>>)
<1> DEFINE c == Captured(directory, active)
<1>0. Disk /\ directory \in Stores /\ live \in Login \union {Empty} /\ active # None
  BY TuiAssumption DEF TuiTyped, Disk
<1>1. /\ c \in Stores /\ c[active] # Absent /\ Well(c) /\ IssuedIn(c)
      /\ \A n \in Name \ {active} : c[n] = directory[n]
      /\ c[active].login = IF live = Empty THEN directory[active].login ELSE live
  BY <1>0, CapturedKeeps DEF Agree, Issued, IssuedIn
<1> HIDE DEF c
<1>2. \A a \in Account : directory[active].login = <<a, 1>> /\ live # Empty => live = <<a, 1>>
  BY <1>0, NoToken DEF Tracks, Login
<1>3. Tracks(c)
  BY <1>0, <1>1 DEF Tracks, Login
<1> QED
  BY <1>1, <1>2, <1>3 DEF c

LEMMA SwitchLeaves ==
  ASSUME NEW job, Starts(job), job.op \in {"switch", "recaptureSwitch", "discardSwitch"},
         active # job.name, SwitchTo(Recaptured(job), job.name, Saving(job))
  PROVE  Leaves(job)
<1> DEFINE d == Recaptured(job)
           saved == IF Saving(job) /\ active # None /\ d[active] # Absent THEN Captured(d, active) ELSE d
           name == job.name
           kept == active \in Name /\ job.op # "discardSwitch"
<1>0. /\ Disk /\ directory \in Stores /\ name \in Name /\ directory[name] # Absent
      /\ active \in Name \union {None} /\ live \in Login \union {Empty} /\ None \notin Name
  BY TuiAssumption DEF Starts, TuiTyped, Disk, Refuses
<1>1. saved = IF kept THEN Captured(directory, active) ELSE directory
  <2>1. CASE job.op = "switch"
    <3>1. d = directory /\ Saving(job)
      BY <2>1 DEF Recaptured, Saving
    <3>2. active \in Name => directory[active] # Absent
      BY <1>0 DEF Starts, Agree, Profiles
    <3> QED
      BY <1>0, <2>1, <3>1, <3>2
  <2>2. CASE job.op = "recaptureSwitch"
    <3>1. active \in Name /\ job.shown = active /\ active # None /\ ~Saving(job)
      BY <1>0, <2>2 DEF Starts, AboutShown, Saving
    <3>2. d = Captured(directory, active)
      BY <2>2, <3>1 DEF Recaptured
    <3> QED
      BY <2>2, <3>1, <3>2
  <2>3. CASE job.op = "discardSwitch"
    BY <2>3 DEF Recaptured, Saving
  <2> QED
    BY <2>1, <2>2, <2>3
<1>2. /\ directory' = saved /\ active' = name /\ version' = version
      /\ live' = IF saved[name].login # Empty \/ saved[name].out THEN saved[name].login ELSE live
  BY DEF SwitchTo
<1>3. /\ saved \in Stores /\ Well(saved) /\ IssuedIn(saved)
      /\ \A n \in Name \ {active} : saved[n] = directory[n]
      /\ kept /\ live # Empty => saved[active].login = live
      /\ ~kept => saved = directory
      /\ kept => \A a \in Account : directory[active].login = <<a, 1>> => saved[active].login = <<a, 1>>
  <2>1. CASE kept
    BY <1>1, <2>1, ActiveSaved DEF Starts
  <2>2. CASE ~kept
    BY <1>0, <1>1, <2>2 DEF Starts, Agree, Issued, IssuedIn
  <2> QED
    BY <2>1, <2>2
<1> HIDE DEF saved, d
<1>4. saved[name] = directory[name] /\ saved[name] # Absent /\ saved[name].login \in Login \union {Empty}
  BY <1>0, <1>3 DEF Stores, ProfileRecord
<1>5. Agree'
  BY <1>0, <1>2, <1>3, <1>4 DEF Agree, Profiles, Well
<1>6. Issued'
  BY <1>0, <1>2, <1>3 DEF Issued, IssuedIn, Starts
<1>7. Tracks(directory)'
  BY <1>2, <1>4 DEF Tracks, Login
<1>8. ASSUME NEW a \in Account \ GivenUp(job),
             <<a, 1>> \in {live} \union {directory[n].login : n \in Name}
      PROVE  <<a, 1>> \in {live'} \union {directory'[n].login : n \in Name}
  <2>1. CASE live = <<a, 1>>
    <3>1. kept
      <4> SUFFICES ASSUME ~kept PROVE a \in GivenUp(job)
        BY <1>8
      <4>1. a = live[1] /\ active = job.shown
        BY <2>1 DEF Starts
      <4>2. job.op = "discardSwitch" \/ (job.op = "switch" /\ job.shown = None)
        BY <1>0 DEF Starts, AboutShown
      <4> QED
        BY <4>1, <4>2 DEF GivenUp
    <3>2. saved[active].login = <<a, 1>>
      BY <1>3, <2>1, <3>1, NoToken
    <3> QED
      BY <1>2, <3>1, <3>2
  <2>2. ASSUME NEW n \in Name, directory[n].login = <<a, 1>> PROVE saved[n].login = <<a, 1>>
    BY <1>3, <2>2
  <2> QED
    BY <1>2, <1>8, <2>1, <2>2
<1> QED
  BY <1>5, <1>6, <1>7, <1>8 DEF Leaves

LEMMA CreateLeaves ==
  ASSUME NEW job, Starts(job), job.op \in {"create", "recaptureCreate", "capture"},
         Store(Captured(Recaptured(job), job.name))
  PROVE  Leaves(job)
<1> DEFINE d == Recaptured(job)
           name == job.name
           c == Captured(d, name)
<1>0. /\ Disk /\ directory \in Stores /\ name \in Name
      /\ active \in Name \union {None} /\ live \in Login \union {Empty} /\ None \notin Name
  BY TuiAssumption DEF Starts, TuiTyped, Disk
<1>1. d = directory \/ (active \in Name /\ d = Captured(directory, active))
  BY <1>0 DEF Recaptured, Starts
<1>2. /\ d \in Stores /\ Well(d) /\ IssuedIn(d) /\ Tracks(d)
      /\ \A n \in Name : directory[n] # Absent => d[n] # Absent
      /\ \A n \in Name, a \in Account : directory[n].login = <<a, 1>> => d[n].login = <<a, 1>>
  <2>1. CASE d = directory
    BY <1>0, <2>1 DEF Starts, Agree, Issued, IssuedIn
  <2>2. CASE active \in Name /\ d = Captured(directory, active)
    BY <2>2, ActiveSaved DEF Starts
  <2> QED
    BY <1>1, <2>1, <2>2
<1>3. directory' = c /\ UNCHANGED <<active, live, version>>
  BY DEF Store
<1> HIDE DEF d
<1>4. /\ c \in Stores /\ c[name] # Absent /\ Well(c) /\ IssuedIn(c)
      /\ \A n \in Name \ {name} : c[n] = d[n]
      /\ c[name].login = IF live = Empty THEN d[name].login ELSE live
  BY <1>0, <1>2, CapturedKeeps DEF Starts
<1> HIDE DEF c
<1>5. Agree'
  BY <1>2, <1>3, <1>4 DEF Agree, Profiles, Well, Starts
<1>6. Issued'
  BY <1>3, <1>4 DEF Issued, IssuedIn, Starts
<1>7. Tracks(directory)'
  <2>1. CASE active = name
    BY <1>0, <1>3, <1>4, <2>1 DEF Tracks, Login
  <2>2. CASE active # name
    BY <1>0, <1>2, <1>3, <1>4, <2>2 DEF Tracks
  <2> QED
    BY <2>1, <2>2
<1>8. ASSUME NEW a \in Account \ GivenUp(job),
             <<a, 1>> \in {live} \union {directory[n].login : n \in Name}
      PROVE  <<a, 1>> \in {live'} \union {directory'[n].login : n \in Name}
  <2>1. CASE live = <<a, 1>>
    BY <1>3, <2>1
  <2>2. ASSUME NEW n \in Name, directory[n].login = <<a, 1>>, live # <<a, 1>>
        PROVE  c[n].login = <<a, 1>>
    <3>1. CASE n # name
      BY <1>2, <1>4, <2>2, <3>1
    <3>2. CASE n = name
      <4>1. job.op = "capture" /\ name = active
        BY <1>8, <2>2, <3>2 DEF GivenUp, Starts
      <4>2. live = Empty
        BY <1>0, <2>2, <3>2, <4>1, ActiveSaved DEF Starts
      <4> QED
        BY <1>2, <1>4, <2>2, <3>2, <4>2
    <3> QED
      BY <3>1, <3>2
  <2> QED
    BY <1>3, <1>8, <2>1, <2>2
<1> QED
  BY <1>5, <1>6, <1>7, <1>8 DEF Leaves

LEMMA FreshLeaves ==
  ASSUME NEW job, Starts(job), job.op \in {"fresh", "freshRecapture", "freshDiscard"},
         SwitchTo(NewLoggedOut(Recaptured(job), job.name), job.name, Saving(job))
  PROVE  Leaves(job)
<1> DEFINE d == Recaptured(job)
           name == job.name
           e == NewLoggedOut(d, name)
           saved == IF Saving(job) /\ active # None /\ e[active] # Absent THEN Captured(e, active) ELSE e
           kept == active \in Name /\ job.op # "freshDiscard"
           base == IF kept THEN Captured(directory, active) ELSE directory
<1>0. /\ Disk /\ directory \in Stores /\ name \in Name /\ directory[name] = Absent /\ active # name
      /\ active \in Name \union {None} /\ live \in Login \union {Empty} /\ None \notin Name
      /\ ~Unsaved(Saving(job))
  BY TuiAssumption DEF Starts, TuiTyped, Disk, Refuses, Agree, Profiles
<1>1. /\ base \in Stores /\ Well(base) /\ IssuedIn(base)
      /\ \A n \in Name \ {active} : base[n] = directory[n]
      /\ kept /\ live # Empty => base[active].login = live
      /\ ~kept => base = directory
      /\ kept => \A a \in Account : directory[active].login = <<a, 1>> => base[active].login = <<a, 1>>
  <2>1. CASE kept
    BY <2>1, ActiveSaved DEF Starts
  <2>2. CASE ~kept
    BY <1>0, <2>2 DEF Starts, Agree, Issued, IssuedIn
  <2> QED
    BY <2>1, <2>2
<1>2. saved = [base EXCEPT ![name] = [Absent EXCEPT !.meta = name, !.out = TRUE]]
  <2>1. CASE job.op = "fresh"
    <3>1. d = directory /\ Saving(job)
      BY <2>1 DEF Recaptured, Saving
    <3>2. active \in Name => e[active] = directory[active] /\ directory[active] # Absent
      BY <1>0, <3>1 DEF Starts, Agree, Profiles, NewLoggedOut, Stores
    <3>3. CASE active \in Name
      <4>1. saved = Captured(e, active) /\ base = Captured(directory, active)
        BY <1>0, <2>1, <3>1, <3>2, <3>3
      <4> QED
        BY <1>0, <3>1, <3>2, <3>3, <4>1 DEF Captured, NewLoggedOut, Stores
    <3>4. CASE active = None
      BY <1>0, <3>1, <3>4 DEF NewLoggedOut
    <3> QED
      BY <1>0, <3>3, <3>4
  <2>2. CASE job.op = "freshRecapture"
    <3>1. active \in Name /\ job.shown = active /\ active # None /\ ~Saving(job)
      BY <1>0, <2>2 DEF Starts, AboutShown, Saving
    <3>2. d = Captured(directory, active)
      BY <2>2, <3>1 DEF Recaptured
    <3> QED
      BY <2>2, <3>1, <3>2 DEF NewLoggedOut
  <2>3. CASE job.op = "freshDiscard"
    BY <2>3 DEF Recaptured, Saving, NewLoggedOut
  <2> QED
    BY <2>1, <2>2, <2>3
<1>3. /\ directory' = saved /\ active' = name /\ version' = version
      /\ live' = IF saved[name].login # Empty \/ saved[name].out THEN saved[name].login ELSE live
  BY DEF SwitchTo
<1> HIDE DEF saved, d, e, base
<1>4. /\ saved[name].meta = name /\ saved[name].out /\ saved[name].login = Empty
      /\ saved[name] # Absent /\ \A n \in Name \ {name} : saved[n] = base[n]
  <2>1. name # None
    BY <1>0
  <2> QED
    BY <1>0, <1>1, <1>2, <2>1 DEF Stores, Absent
<1>5. live' = Empty
  BY <1>3, <1>4
<1>6. Agree'
  BY <1>0, <1>1, <1>3, <1>4 DEF Agree, Profiles, Well
<1>7. Issued'
  BY <1>1, <1>3, <1>4, <1>5 DEF Issued, IssuedIn, Empty
<1>8. Tracks(directory)'
  BY <1>5 DEF Tracks
<1>9. ASSUME NEW a \in Account \ GivenUp(job),
             <<a, 1>> \in {live} \union {directory[n].login : n \in Name}
      PROVE  <<a, 1>> \in {live'} \union {directory'[n].login : n \in Name}
  <2>1. CASE live = <<a, 1>>
    <3>1. kept
      <4> SUFFICES ASSUME ~kept PROVE a \in GivenUp(job)
        BY <1>9
      <4>1. a = live[1] /\ active = job.shown /\ live # Empty
        BY <2>1, NoToken DEF Starts
      <4>2. job.op = "freshDiscard"
        BY <1>0, <4>1 DEF Starts, AboutShown, Unsaved, Saving
      <4> QED
        BY <4>1, <4>2 DEF GivenUp
    <3>2. saved[active].login = <<a, 1>>
      BY <1>0, <1>1, <1>4, <2>1, <3>1, NoToken
    <3> QED
      BY <1>3, <3>1, <3>2
  <2>2. ASSUME NEW n \in Name, directory[n].login = <<a, 1>> PROVE saved[n].login = <<a, 1>>
    <3>1. n # name
      BY <1>0, <2>2, NoToken
    <3> QED
      BY <1>1, <1>4, <2>2, <3>1
  <2> QED
    BY <1>3, <1>9, <2>1, <2>2
<1> QED
  BY <1>6, <1>7, <1>8, <1>9 DEF Leaves

LEMMA DeleteLeaves ==
  ASSUME NEW job, Starts(job), job.op = "delete", Store([directory EXCEPT ![job.name] = Absent])
  PROVE  Leaves(job)
<1> DEFINE name == job.name
<1>0. /\ directory \in Stores /\ name \in Name /\ active # name /\ active \in Name \union {None}
      /\ None \notin Name
  BY TuiAssumption DEF Starts, TuiTyped, Disk
<1>1. /\ directory'[name] = Absent /\ \A n \in Name \ {name} : directory'[n] = directory[n]
      /\ UNCHANGED <<active, live, version>>
  BY <1>0 DEF Store, Stores
<1>2. Agree'
  BY <1>0, <1>1 DEF Starts, Agree, Profiles, Well
<1>3. Issued'
  BY <1>0, <1>1 DEF Starts, Issued, Absent, Empty
<1>4. Tracks(directory)'
  BY <1>0, <1>1 DEF Starts, Tracks
<1>5. ASSUME NEW a \in Account \ GivenUp(job),
             <<a, 1>> \in {live} \union {directory[n].login : n \in Name}
      PROVE  <<a, 1>> \in {live'} \union {directory'[n].login : n \in Name}
  <2>1. directory[name].login # <<a, 1>>
    BY <1>5 DEF GivenUp
  <2> QED
    BY <1>1, <1>5, <2>1
<1> QED
  BY <1>2, <1>3, <1>4, <1>5 DEF Leaves

LEMMA ExecuteLeaves ==
  ASSUME NEW job, Starts(job), Execute(job)
  PROVE  Leaves(job)
<1>1. CASE job.op = "switch" /\ active = job.name /\ UNCHANGED disk
  BY <1>1 DEF disk, Starts, Leaves, Agree, Profiles, Well, Tracks, Issued
<1> QED
  BY <1>1, SwitchLeaves, CreateLeaves, FreshLeaves, DeleteLeaves DEF Execute

-----------------------------------------------------------------------------
(* Every step keeps the pointers *)

\* A step of the holder of the lock that ends where nobody renames.
LEMMA StillAfter ==
  ASSUME TuiTyped, NEW t \in Tui, lock = t, work'[t].at \in {"none", "refresh"},
         \A u \in Tui \ {t} : work'[u] = work[u]
  PROVE  Still'
<1>1. \A u \in Tui \ {t} : ~Renames(u)
  BY Locked DEF Renames
<1> QED
  BY <1>1 DEF Still, Renames

LEMMA WorkOf ==
  ASSUME TuiTyped, NEW t \in Tui, NEW at, NEW job, Wait(t, at, job)
  PROVE  work'[t].at = at /\ work'[t].job = job /\ \A u \in Tui \ {t} : work'[u] = work[u]
BY DEF TuiTyped, Processes, Wait

\* A step of a process that does not rename, neither before nor after it.
LEMMA QuietStep ==
  ASSUME TuiTyped, NEW t \in Tui, UNCHANGED <<directory, active, live, version, consented, dangling>>,
         ~Renames(t), ~Renames(t)', \A u \in Tui \ {t} : work'[u] = work[u]
  PROVE  Quiet
BY DEF Quiet, Renames

LEMMA KeysQuiet ==
  ASSUME TuiTyped, NEW t \in Tui, KeyPress(t)
  PROVE  Quiet
<1>1. UNCHANGED <<directory, active, live, version, consented, dangling>>
  BY DEF KeyPress, Open, Back, Confirm, Decline, AnswerFreshness, SelectSwitch, SelectAdd, SelectConfirm,
     SelectRename, Answer, Keyboard, disk, tuiHistories
<1>2. UNCHANGED work \/ \E at \in {"ambient", "inspect", "lock"} : \E job : Wait(t, at, job)
  BY DEF KeyPress, Open, Back, Confirm, Decline, AnswerFreshness, SelectSwitch, SelectAdd, SelectConfirm,
     SelectRename, Answer
<1>3. CASE UNCHANGED work
  BY <1>1, <1>3 DEF Quiet
<1>4. CASE ~UNCHANGED work
  <2>1. Top(t).kind # "busy"
    BY <1>4 DEF KeyPress, Open, Back, Confirm, Decline, AnswerFreshness, SelectSwitch, SelectAdd, SelectConfirm,
       SelectRename, Listens
  <2>2. ~Renames(t)
    BY <2>1, TopScreen DEF Renames
  <2>3. PICK at \in {"ambient", "inspect", "lock"} : \E job : Wait(t, at, job)
    BY <1>2, <1>4
  <2>4. PICK job : Wait(t, at, job)
    BY <2>3
  <2> QED
    BY <1>1, <2>2, <2>3, <2>4, WorkOf, QuietStep DEF Renames
<1> QED
  BY <1>3, <1>4

\* The steps of a process that neither has the lock nor gets it for a rename.
LEMMA ChecksQuiet ==
  ASSUME TuiTyped, NEW t \in Tui, AmbientDone(t) \/ Inspected(t) \/ TakeLock(t) \/ Refresh(t)
  PROVE  Quiet
<1>1. UNCHANGED <<directory, active, live, version, consented, dangling>>
  BY DEF AmbientDone, Inspected, TakeLock, Refresh, Checking, disk, tuiHistories
<1>2. ~Renames(t)
  BY DEF AmbientDone, Inspected, TakeLock, Refresh, Renames
<1>3. work'[t].at \notin {"meta", "pointer"} /\ \A u \in Tui \ {t} : work'[u] = work[u]
  <2>1. CASE work' = [work EXCEPT ![t].at = "work"]
    BY <2>1 DEF TuiTyped, Processes
  <2>2. CASE Wait(t, "none", NoJob)
    BY <2>2, WorkOf
  <2>3. ASSUME NEW at \in {"lock", "refresh"}, Wait(t, at, work[t].job) PROVE <1>3!:
    BY <2>3, WorkOf
  <2> QED
    BY <2>1, <2>2, <2>3 DEF AmbientDone, Inspected, TakeLock, Refresh, Fail, Reopen
<1> QED
  BY <1>1, <1>2, <1>3, QuietStep DEF Renames

LEMMA PerformKeeps ==
  ASSUME TuiTyped, TuiTyped', Pointers, NEW t \in Tui, Perform(t)
  PROVE  Pointers'
<1> DEFINE job == work[t].job
<1>1. /\ work[t].at = "work" /\ job \in Job /\ job.name \in Name /\ lock = t
      /\ job.op \in AboutShown => job.shown \in Name
      /\ job.op \in Ops \ {"rename", "import"}
  BY Locked DEF Perform, Works, Job
<1>2. Still /\ ~Renames(t)
  BY <1>1, Alone DEF Still
<1>3. Still' /\ ~Renames(t)' /\ \A u \in Tui \ {t} : work'[u] = work[u]
  <2>1. work'[t].at \in {"none", "refresh"} /\ \A u \in Tui \ {t} : work'[u] = work[u]
    BY WorkOf DEF Perform, Fail
  <2> QED
    BY <1>1, <2>1, StillAfter DEF Still
<1>4. dangling' = dangling
  BY DEF Perform
<1>5. CASE UNCHANGED <<disk, consented>>
  <2>1. Quiet
    BY <1>2, <1>3, <1>4, <1>5, QuietStep DEF disk
  <2> QED
    BY <2>1, QuietKeeps
<1>6. CASE StateAsShown(t) /\ ~Refuses(job) /\ Execute(job) /\ consented' = consented \union GivenUp(job)
  <2>1. CASE dangling
    BY <1>4, <2>1 DEF Pointers, NamesAgree, ActiveIsLive, LoginsKept
  <2>2. CASE ~dangling
    <3>1. Agree /\ Tracks(directory)
      BY <1>2, <2>2, WhenStill DEF Pointers
    <3>2. Starts(job)
      BY <1>1, <1>6, <2>2, <3>1 DEF Starts, StateAsShown, Pointers
    <3>3. Leaves(job)
      BY <1>6, <3>2, ExecuteLeaves
    <3>4. (NamesAgree <=> (~dangling => Agree))' /\ (ActiveIsLive <=> (~dangling => Tracks(directory)))'
      BY <1>3, WhenStill, PTL
    <3>5. LoginsKept'
      <4>1. version' = version
        BY <1>6 DEF Execute, disk, SwitchTo, Store
      <4> QED
        BY <1>4, <1>6, <3>3, <4>1 DEF LoginsKept, Leaves, Pointers
    <3> QED
      BY <3>3, <3>4, <3>5 DEF Leaves, Pointers
  <2> QED
    BY <2>1, <2>2
<1> QED
  BY <1>5, <1>6 DEF Perform

\* The profiles it imports into are none: the pointer cannot be set either.
LEMMA ImportKeeps ==
  ASSUME TuiTyped, TuiTyped', Pointers, NEW t \in Tui, Import(t)
  PROVE  Pointers'
<1>1. work[t].at = "work" /\ lock = t /\ data[t].names = {}
  BY Locked DEF Import
<1>2. Still /\ ~Renames(t) /\ Disk
  BY <1>1, Alone DEF Still, TuiTyped
<1>3. Still' /\ ~Renames(t)' /\ \A u \in Tui \ {t} : work'[u] = work[u]
  <2>1. work'[t].at = "refresh" /\ \A u \in Tui \ {t} : work'[u] = work[u]
    BY WorkOf DEF Import
  <2> QED
    BY <1>1, <2>1, StillAfter DEF Still
<1>4. UNCHANGED <<live, version, consented, dangling>>
  BY DEF Import, tuiHistories
<1>5. CASE UNCHANGED <<directory, active>>
  <2>1. Quiet
    BY <1>2, <1>3, <1>4, <1>5, QuietStep
  <2> QED
    BY <2>1, QuietKeeps
<1>6. CASE StateAsShown(t) /\ directory' = Captured(directory, Default) /\ active' \in {Default, active}
  <2>1. CASE dangling
    BY <1>4, <2>1 DEF Pointers, NamesAgree, ActiveIsLive, LoginsKept
  <2>2. CASE ~dangling
    <3>1. \A n \in Name : directory[n] = Absent
      BY <1>1, <1>6 DEF StateAsShown, Profiles, Import
    <3>2. Agree /\ active = None /\ Issued /\ Default \in Name /\ None \notin Name
      BY <1>2, <2>2, <3>1, WhenStill, TuiAssumption DEF Pointers, Agree, Profiles
    <3> DEFINE c == Captured(directory, Default)
    <3>3. /\ Well(c) /\ c[Default] # Absent /\ IssuedIn(c)
          /\ \A n \in Name \ {Default} : c[n] = Absent
          /\ c[Default].login = IF live = Empty THEN Empty ELSE live
      <4>1. directory \in Stores /\ Well(directory) /\ IssuedIn(directory)
        BY <1>2, <3>2 DEF Disk, Agree, Issued, IssuedIn
      <4>2. directory[Default].login = Empty
        BY <3>1, <3>2 DEF Absent
      <4> QED
        BY <1>2, <3>1, <3>2, <4>1, <4>2, CapturedKeeps
    <3>4. directory' = c /\ active' \in {Default, None}
      BY <1>6, <3>2
    <3> HIDE DEF c
    <3>5. Agree'
      BY <3>2, <3>3, <3>4 DEF Agree, Profiles, Well
    <3>6. Issued'
      BY <1>4, <3>2, <3>3, <3>4 DEF Issued, IssuedIn
    <3>7. live \in Login \union {Empty}
      BY <1>2 DEF Disk
    <3>8. Tracks(directory)'
      BY <1>4, <3>2, <3>3, <3>4, <3>7 DEF Tracks, Login
    <3>9. (NamesAgree <=> (~dangling => Agree))' /\ (ActiveIsLive <=> (~dangling => Tracks(directory)))'
      BY <1>3, WhenStill, PTL
    <3>10. LoginsKept'
      <4>1. \A n \in Name, a \in Account : directory[n].login # <<a, 1>>
        BY <3>1, NoToken
      <4> QED
        BY <1>4, <4>1 DEF LoginsKept, Pointers
    <3> QED
      BY <3>5, <3>6, <3>8, <3>9, <3>10 DEF Pointers
  <2> QED
    BY <2>1, <2>2
<1> QED
  BY <1>5, <1>6 DEF Import

\* Where nothing moves but the profiles and the pointer, every login keeps a place.
LEMMA MovedKeeps ==
  ASSUME TuiTyped, NEW from \in Name, NEW to \in Name, directory[to] = Absent, directory[from] # Absent,
         directory' = Moved(from, to)
  PROVE  /\ from # to /\ directory'[to] = directory[from] /\ directory'[from] = Absent
         /\ \A n \in Name \ {from, to} : directory'[n] = directory[n]
         /\ Issued /\ UNCHANGED <<live, version>> => Issued'
         /\ LoginsKept /\ UNCHANGED <<live, version, consented, dangling>> => LoginsKept'
<1>1. directory \in Stores
  BY DEF TuiTyped, Disk
<1>2. /\ from # to /\ directory'[to] = directory[from] /\ directory'[from] = Absent
      /\ \A n \in Name \ {from, to} : directory'[n] = directory[n]
  BY <1>1 DEF Stores, Moved
<1>3. Issued /\ UNCHANGED <<live, version>> => Issued'
  <2>1. Absent.login[2] # 1
    BY DEF Absent, Empty
  <2> QED
    BY <1>2, <2>1 DEF Issued
<1>4. \A n \in Name, a \in Account : directory[n].login = <<a, 1>> =>
        \E m \in Name : directory'[m].login = <<a, 1>>
  BY <1>2, NoToken
<1>5. LoginsKept /\ UNCHANGED <<live, version, consented, dangling>> => LoginsKept'
  <2> SUFFICES ASSUME LoginsKept, UNCHANGED <<live, version, consented, dangling>>,
                      NEW a \in Account, ~dangling', a \notin consented', version'[a] = 1
               PROVE  <<a, 1>> \in {live'} \union {directory'[n].login : n \in Name}
    BY DEF LoginsKept
  <2>1. <<a, 1>> = live \/ \E n \in Name : directory[n].login = <<a, 1>>
    BY DEF LoginsKept
  <2> QED
    BY <1>4, <2>1
<1> QED
  BY <1>2, <1>3, <1>5

LEMMA RenameDirectoryKeeps ==
  ASSUME TuiTyped, TuiTyped', Pointers, NEW t \in Tui, RenameDirectory(t)
  PROVE  Pointers'
<1> DEFINE old == work[t].job.old
           name == work[t].job.name
<1>1. /\ work[t].at = "work" /\ lock = t /\ old \in Name /\ name \in Name
      /\ UNCHANGED <<active, live, version, consented, dangling>>
  BY Locked DEF RenameDirectory, Works, Store, disk, tuiHistories
<1>2. Still /\ ~Renames(t) /\ \A u \in Tui \ {t} : ~Renames(u)
  BY <1>1, Alone DEF Still
<1>3. CASE Fail(t) /\ UNCHANGED disk
  <2>1. work'[t].at = "none" /\ \A u \in Tui \ {t} : work'[u] = work[u]
    BY <1>3, WorkOf DEF Fail
  <2>2. Quiet
    BY <1>1, <1>2, <1>3, <2>1, QuietStep DEF Renames, disk
  <2> QED
    BY <2>2, QuietKeeps
<1>4. CASE /\ directory[name] = Absent /\ directory[old] # Absent
           /\ Store(Moved(old, name)) /\ work' = [work EXCEPT ![t].at = "meta"]
  <2>1. CASE dangling
    BY <1>1, <2>1 DEF Pointers, NamesAgree, ActiveIsLive, LoginsKept
  <2>2. CASE ~dangling
    <3>1. Agree /\ Tracks(directory) /\ Issued /\ LoginsKept
      BY <1>2, <2>2, WhenStill DEF Pointers
    <3>2. /\ old # name /\ directory'[name] = directory[old] /\ directory'[old] = Absent
          /\ \A n \in Name \ {old, name} : directory'[n] = directory[n]
          /\ Issued' /\ LoginsKept'
      BY <1>1, <1>4, <3>1, MovedKeeps DEF Store
    <3>3. /\ work'[t].at = "meta" /\ work'[t].job = work[t].job
          /\ \A u \in Tui \ {t} : work'[u] = work[u]
      BY <1>4 DEF TuiTyped, Processes
    <3>4. Renames(t)' /\ \A u \in Tui \ {t} : ~Renames(u)'
      BY <1>2, <3>3 DEF Renames
    <3>5. NamesAgree'
      <4>1. directory'[name] # Absent /\ directory'[name].meta = old
        BY <1>1, <1>4, <3>1, <3>2 DEF Agree, Well
      <4>2. \A u \in Tui : work'[u].at \in {"meta", "pointer"} => u = t
        BY <3>4 DEF Renames
      <4>3. \A n \in Profiles' : directory'[n].meta = n \/ n = name
        BY <3>1, <3>2 DEF Agree, Well, Profiles
      <4>4. active' \in Profiles' \union {None} \/ active' = old
        BY <1>1, <1>4, <3>1, <3>2 DEF Agree, Profiles
      <4>5. active # name /\ None \notin Name
        BY <1>1, <1>4, <3>1, TuiAssumption DEF Agree, Profiles
      <4> QED
        BY <1>1, <1>4, <3>1, <3>2, <3>3, <3>4, <4>1, <4>2, <4>3, <4>4, <4>5 DEF NamesAgree
    <3>6. ActiveIsLive'
      <4>1. \A n \in Name : IsActive(n)' => n = active \/ (old = active /\ n = name)
        BY <1>1, <3>3, <3>4 DEF IsActive
      <4>2. Absent.login = Empty /\ None \notin Name
        BY TuiAssumption DEF Absent
      <4>3. active = name => directory[active].login = Empty
        BY <1>4, <4>2
      <4> QED
        BY <1>1, <1>4, <3>1, <3>2, <4>1, <4>2, <4>3 DEF ActiveIsLive, Tracks, Agree, Profiles
    <3> QED
      BY <3>2, <3>5, <3>6 DEF Pointers
  <2> QED
    BY <2>1, <2>2
<1> QED
  BY <1>3, <1>4 DEF RenameDirectory

\* In the middle of a rename the others do nothing of the kind.
LEMMA Renaming ==
  ASSUME TuiTyped, NEW t \in Tui, Renames(t)
  PROVE  /\ lock = t /\ work[t].job.name \in Name /\ work[t].job.old \in Name
         /\ work[t].job.op = "rename" /\ active \in Name \union {None} /\ None \notin Name
         /\ \A u \in Tui \ {t} : ~Renames(u)
<1>1. lock = t
  BY Locked DEF Renames
<1>2. \A u \in Tui : Renames(u) => u = t
  BY <1>1, Locked DEF Renames
<1> QED
  BY <1>1, <1>2, Locked, TuiAssumption DEF Renames, Works, TuiTyped, Disk

LEMMA RenameMetaKeeps ==
  ASSUME TuiTyped, TuiTyped', Pointers, NEW t \in Tui, RenameMeta(t)
  PROVE  Pointers'
<1> DEFINE old == work[t].job.old
           name == work[t].job.name
<1>1. work[t].at = "meta" /\ Renames(t)
  BY DEF RenameMeta, Renames
<1>2. /\ lock = t /\ old \in Name /\ name \in Name /\ \A u \in Tui \ {t} : ~Renames(u)
      /\ active \in Name \union {None} /\ None \notin Name /\ directory \in Stores
  BY <1>1, Renaming DEF TuiTyped, Disk
<1>3. UNCHANGED <<active, live, version, consented>>
  BY DEF RenameMeta, RenameBack, Store, disk
<1>4. CASE dangling'
  <2>1. dangling' = dangling \/ directory' = directory
    BY DEF RenameMeta, RenameBack, Store, disk
  <2> QED
    BY <1>3, <1>4, <2>1 DEF Pointers, NamesAgree, ActiveIsLive, LoginsKept
<1>5. CASE ~dangling'
  <2>1. dangling' = dangling
    BY <1>5 DEF RenameMeta, RenameBack
  <2>2. /\ directory[old] = Absent /\ directory[name] # Absent /\ directory[name].meta = old
        /\ name \notin {old, active}
        /\ Issued /\ LoginsKept
    BY <1>1, <1>5, <2>1 DEF Pointers, NamesAgree
  <2>3. \A n \in Name \ {name} : directory[n] # Absent => directory[n].meta = n
    BY <1>2, <1>5, <2>1 DEF Pointers, NamesAgree, Renames, Profiles
  <2>4. active \in Profiles \union {None, old}
    BY <1>2, <1>5, <2>1 DEF Pointers, NamesAgree, Renames
  <2>5. \A n \in Name : (n = active \/ (old = active /\ n = name)) /\ live # Empty /\ directory[n].login # Empty =>
          directory[n].login[1] = live[1] /\ directory[n].login[2] <= live[2]
    BY <1>1, <1>5, <2>1 DEF Pointers, ActiveIsLive, IsActive
  <2>6. CASE /\ Store([directory EXCEPT ![name].meta = name]) /\ work' = [work EXCEPT ![t].at = "pointer"]
    <3>1. /\ directory'[name].meta = name /\ directory'[name].login = directory[name].login
          /\ \A n \in Name \ {name} : directory'[n] = directory[n]
      BY <1>2, <2>6 DEF Store, Stores, ProfileRecord
    <3>2. directory'[name] # Absent
      BY <1>2, <3>1 DEF Absent
    <3>3. /\ work'[t].at = "pointer" /\ work'[t].job = work[t].job
          /\ \A u \in Tui \ {t} : work'[u] = work[u]
      BY <2>6 DEF TuiTyped, Processes
    <3>4. Renames(t)' /\ \A u \in Tui \ {t} : ~Renames(u)'
      BY <1>2, <3>3 DEF Renames
    <3>5. NamesAgree'
      <4>1. \A u \in Tui : work'[u].at \in {"meta", "pointer"} => u = t
        BY <3>4 DEF Renames
      <4>2. active' \in Profiles' \union {None, old}
        BY <1>2, <1>3, <2>4, <3>1, <3>2 DEF Profiles
      <4> QED
        BY <2>3, <3>1, <3>2, <3>3, <3>4, <4>1, <4>2 DEF NamesAgree, Profiles
    <3>6. ActiveIsLive'
      <4>1. \A n \in Name : IsActive(n)' => n = active \/ (old = active /\ n = name)
        BY <1>3, <3>3, <3>4 DEF IsActive
      <4> QED
        BY <1>3, <2>5, <3>1, <4>1 DEF ActiveIsLive
    <3>7. Issued'
      BY <1>3, <2>2, <3>1 DEF Issued
    <3>8. LoginsKept'
      <4>1. \A n \in Name : directory'[n].login = directory[n].login
        BY <3>1
      <4> HIDE DEF name, old
      <4> QED
        BY <1>3, <2>1, <2>2, <4>1 DEF LoginsKept
    <3> QED
      BY <3>5, <3>6, <3>7, <3>8 DEF Pointers
  <2>7. CASE Store(Moved(name, old)) /\ Fail(t)
    <3>1. /\ directory'[old] = directory[name] /\ directory'[name] = Absent
          /\ \A n \in Name \ {old, name} : directory'[n] = directory[n]
          /\ Issued' /\ LoginsKept'
      BY <1>2, <1>3, <2>1, <2>2, <2>7, MovedKeeps DEF Store
    <3>2. Still'
      BY <1>2, <2>7, WorkOf, StillAfter DEF Fail
    <3>3. Agree'
      <4>1. Well(directory)'
        BY <2>2, <2>3, <3>1 DEF Well
      <4>2. active' \in Profiles' \union {None}
        BY <1>2, <1>3, <2>2, <2>4, <3>1 DEF Profiles
      <4> QED
        BY <4>1, <4>2 DEF Agree
    <3>4. Tracks(directory)'
      <4>1. active \in Name => directory'[active].login = directory[active].login
                               \/ (active = old /\ directory'[active].login = directory[name].login)
        BY <1>2, <2>2, <3>1
      <4> QED
        BY <1>2, <1>3, <2>5, <4>1 DEF Tracks
    <3>5. (NamesAgree <=> (~dangling => Agree))' /\ (ActiveIsLive <=> (~dangling => Tracks(directory)))'
      BY <3>2, WhenStill, PTL
    <3> QED
      BY <3>1, <3>3, <3>4, <3>5 DEF Pointers
  <2> QED
    BY <1>5, <2>6, <2>7 DEF RenameMeta, RenameBack
<1> QED
  BY <1>4, <1>5

LEMMA RenamePointerKeeps ==
  ASSUME TuiTyped, TuiTyped', Pointers, NEW t \in Tui, RenamePointer(t)
  PROVE  Pointers'
<1> DEFINE old == work[t].job.old
           name == work[t].job.name
<1>1. work[t].at = "pointer" /\ Renames(t) /\ UNCHANGED <<directory, live, version, consented>>
  BY DEF RenamePointer, Renames
<1>2. /\ lock = t /\ old \in Name /\ name \in Name /\ \A u \in Tui \ {t} : ~Renames(u)
      /\ active \in Name \union {None} /\ None \notin Name
  BY <1>1, Renaming
<1>3. Still'
  <2>1. work'[t].at \in {"none", "refresh"} /\ \A u \in Tui \ {t} : work'[u] = work[u]
    BY WorkOf DEF RenamePointer, Fail
  <2> QED
    BY <1>2, <2>1, StillAfter
<1>4. CASE dangling'
  BY <1>1, <1>4, HalfWay
<1>5. CASE ~dangling'
  <2>1. ~dangling
    BY <1>5 DEF RenamePointer
  <2>2. active' = IF active = old THEN name ELSE active
    BY <1>5 DEF RenamePointer
  <2>3. Issued /\ LoginsKept /\ directory[name] # Absent /\ active \in Profiles \union {None, old}
    BY <1>1, <1>2, <2>1 DEF Pointers, NamesAgree, Renames
  <2>4. \A n \in Profiles : directory[n].meta = n
    BY <1>1, <1>2, <2>1 DEF Pointers, NamesAgree, Renames
  <2>5. \A n \in Name : (n = active \/ (old = active /\ n = name)) /\ live # Empty /\ directory[n].login # Empty =>
          directory[n].login[1] = live[1] /\ directory[n].login[2] <= live[2]
    BY <1>1, <2>1 DEF Pointers, ActiveIsLive, IsActive
  <2>6. Agree'
    BY <1>1, <1>2, <2>2, <2>3, <2>4 DEF Agree, Well, Profiles
  <2>7. Tracks(directory)'
    BY <1>1, <1>2, <2>2, <2>5 DEF Tracks
  <2>8. Issued' /\ LoginsKept'
    BY <1>1, <1>5, <2>1, <2>3 DEF Issued, LoginsKept
  <2>9. (NamesAgree <=> (~dangling => Agree))' /\ (ActiveIsLive <=> (~dangling => Tracks(directory)))'
    BY <1>3, WhenStill, PTL
  <2> QED
    BY <2>6, <2>7, <2>8, <2>9 DEF Pointers
<1> QED
  BY <1>4, <1>5

LEMMA RestartKeeps ==
  ASSUME TuiTyped, Pointers, NEW t \in Tui, Restart(t)
  PROVE  Pointers'
<1>1. UNCHANGED <<directory, active, live, version, consented>>
  BY DEF Restart, disk
<1>2. CASE Renames(t)
  <2>1. dangling'
    BY <1>2 DEF Restart, Renames
  <2> QED
    BY <1>1, <2>1, HalfWay
<1>3. CASE ~Renames(t)
  <2>1. dangling' = (dangling \/ FALSE)
    BY <1>3 DEF Restart, Renames
  <2>2. dangling \in BOOLEAN
    BY DEF TuiTyped, Flags
  <2>3. dangling' = dangling
    BY <2>1, <2>2
  <2>4. work'[t].at = "none" /\ \A u \in Tui \ {t} : work'[u] = work[u]
    BY WorkOf DEF Restart, Reopen
  <2>5. Quiet
    BY <1>1, <1>3, <2>3, <2>4, QuietStep DEF Renames
  <2> QED
    BY <2>5, QuietKeeps
<1> QED
  BY <1>2, <1>3

LEMMA RotateKeeps ==
  ASSUME TuiTyped, Pointers, Rotate
  PROVE  Pointers'
<1>1. /\ live \in Login /\ live[1] \in Account /\ version \in [Account -> 0..1] /\ live[2] = 0
      /\ live' = <<live[1], 1>> /\ version' = [version EXCEPT ![live[1]] = 1]
      /\ UNCHANGED <<directory, active, work, consented, dangling>>
  BY DEF Rotate, TuiTyped, Disk, Login, tuiHistories
<1>2. /\ live'[1] = live[1] /\ live'[2] = 1 /\ live # Empty /\ version'[live[1]] = 1
      /\ \A a \in Account \ {live[1]} : version'[a] = version[a]
  BY <1>1 DEF Rotate
<1>3. NamesAgree'
  BY <1>1 DEF Pointers, NamesAgree, Renames, Profiles
<1>4. (~dangling => Issued)'
  <2>1. \A n \in Name : directory[n].login \in Login \union {Empty}
    BY DEF TuiTyped, Disk, Stores, ProfileRecord
  <2>2. \A n \in Name : directory[n].login[2] = 1 => directory[n].login[1] \in Account
    BY <2>1 DEF Login, Empty
  <2> QED
    BY <1>1, <1>2, <2>2 DEF Pointers, Issued
<1>5. ActiveIsLive'
  <2>1. \A n \in Name : IsActive(n)' <=> IsActive(n)
    BY <1>1 DEF IsActive, Renames
  <2>2. \A n \in Name : directory[n].login # Empty => directory[n].login[2] <= 1
    BY DEF TuiTyped, Disk, Stores, ProfileRecord, Login
  <2> QED
    BY <1>1, <1>2, <2>1, <2>2 DEF Pointers, ActiveIsLive
<1>6. LoginsKept'
  <2> SUFFICES ASSUME NEW a \in Account, ~dangling', a \notin consented', version'[a] = 1
               PROVE  <<a, 1>> \in {live'} \union {directory'[n].login : n \in Name}
    BY DEF LoginsKept
  <2>1. CASE a = live[1]
    BY <1>1, <2>1
  <2>2. CASE a # live[1]
    <3>1. <<a, 1>> # live
      BY <2>2
    <3>2. <<a, 1>> \in {live} \union {directory[n].login : n \in Name}
      BY <1>1, <1>2, <2>2 DEF Pointers, LoginsKept
    <3> QED
      BY <1>1, <3>1, <3>2
  <2> QED
    BY <2>1, <2>2
<1> QED
  BY <1>3, <1>4, <1>5, <1>6 DEF Pointers

LEMMA PointersStep == TuiTyped /\ TuiTyped' /\ Pointers /\ [TuiNext]_tuiVars => Pointers'
<1> SUFFICES ASSUME TuiTyped, TuiTyped', Pointers, [TuiNext]_tuiVars PROVE Pointers'
  OBVIOUS
<1>1. CASE UNCHANGED tuiVars
  <2>1. Quiet
    BY <1>1 DEF Quiet, tuiVars, disk, tuiHistories
  <2> QED
    BY <2>1, QuietKeeps
<1>2. CASE Rotate
  BY <1>2, RotateKeeps
<1>3. ASSUME NEW t \in Tui, Restart(t) PROVE Pointers'
  BY <1>3, RestartKeeps
<1>4. ASSUME NEW t \in Tui, Runs(t) PROVE Pointers'
  BY <1>4, ChecksQuiet, QuietKeeps, PerformKeeps, ImportKeeps, RenameDirectoryKeeps, RenameMetaKeeps,
     RenamePointerKeeps DEF Runs
<1>5. ASSUME NEW t \in Tui, KeyPress(t) PROVE Pointers'
  BY <1>5, KeysQuiet, QuietKeeps
<1> QED
  BY <1>1, <1>2, <1>3, <1>4, <1>5 DEF TuiNext

LEMMA PointersInit == TuiInit => Pointers
<1> SUFFICES ASSUME TuiInit PROVE Pointers
  OBVIOUS
<1>1. TuiTyped /\ Still /\ version = [a \in Account |-> 0]
  BY TuiInitTyped DEF TuiInit, Still, Renames, NoWork
<1>2. active \in Name \union {None} /\ None \notin Name
  BY <1>1, TuiAssumption DEF TuiTyped, Disk
<1>3. Agree /\ Tracks(directory) /\ Issued
  <2>1. CASE directory = [n \in Name |-> Absent] /\ active = None
             /\ live \in {Empty} \union {<<a, 0>> : a \in Account}
    BY <1>2, <2>1 DEF Agree, Well, Profiles, Tracks, Issued, Absent, Empty
  <2>2. ASSUME NEW owner \in [Name -> Account \union {None}],
               active \in Name, owner[active] # None, live = <<owner[active], 0>>,
               directory = [n \in Name |-> IF owner[n] = None THEN Absent
                                   ELSE [meta |-> n, login |-> <<owner[n], 0>>, out |-> FALSE]]
        PROVE  <1>3!:
    <3>1. \A n \in Name : directory[n] # Absent => directory[n].meta = n /\ owner[n] # None
      BY <2>2
    <3>2. directory[active] # Absent /\ directory[active].login = live
      <4>1. directory[active].meta = active
        BY <2>2
      <4> QED
        BY <1>2, <2>2, <4>1 DEF Absent
    <3>3. \A n \in Name : directory[n].login[2] = 0
      BY <2>2 DEF Absent, Empty
    <3> QED
      BY <2>2, <3>1, <3>2, <3>3 DEF Agree, Well, Profiles, Tracks, Issued
  <2> QED
    BY <2>1, <2>2 DEF TuiInit
<1>4. LoginsKept
  BY <1>1 DEF LoginsKept
<1> QED
  BY <1>1, <1>3, <1>4, WhenStill DEF Pointers

-----------------------------------------------------------------------------
TuiInv == TuiTyped /\ Pointers

LEMMA TuiSpecInv == TuiSpec => []TuiInv
<1>1. TuiInit => TuiInv
  BY TuiInitTyped, PointersInit DEF TuiInv
<1>2. TuiInv /\ [TuiNext]_tuiVars => TuiInv'
  BY TuiTypedStep, PointersStep DEF TuiInv
<1> QED
  BY <1>1, <1>2, PTL DEF TuiSpec

LEMMA TypedIsTypeOK == TuiTyped => TuiTypeOK
<1> SUFFICES ASSUME TuiTyped PROVE TuiTypeOK
  OBVIOUS
<1>1. \A n \in Name : /\ directory[n].meta \in Name \union {None} /\ directory[n].out \in BOOLEAN
                      /\ directory[n].login \in Login \union {Empty}
                      /\ directory[n].meta = None => directory[n] = Absent
  BY DEF TuiTyped, Disk, Stores, ProfileRecord
<1>2. /\ active \in Name \union {None} /\ live \in Login \union {Empty}
      /\ version \in [Account -> 0..1] /\ lock \in Tui \union {None}
      /\ jobs \in 0..MaxJobs /\ hitches \in 0..MaxHitches /\ consented \subseteq Account
  BY DEF TuiTyped, Disk, Counted, Processes
<1>3. prompted \in BOOLEAN /\ dangling \in BOOLEAN
  BY DEF TuiTyped, Flags
<1>4. ASSUME NEW t \in Tui
      PROVE  /\ stack[t] # <<>>
             /\ \A i \in DOMAIN stack[t] : stack[t][i].kind \in Kinds
                                            /\ stack[t][i].job \in Job \union {NoJob}
             /\ data[t].names \subseteq Name /\ data[t].active \in Name \union {None}
             /\ work[t].at \in Waits /\ work[t].job \in Job \union {NoJob}
             /\ lock = t <=> work[t].at \in {"work", "meta", "pointer"}
  <2>1. stack[t] \in Seq(Screens) /\ data[t] \in LoadedData /\ work[t] \in Works /\ Desk(t)
    BY DEF TuiTyped, Processes, Desks
  <2>2. \A i \in DOMAIN stack[t] : stack[t][i] \in Screens
    BY <2>1
  <2> QED
    BY <2>1, <2>2 DEF Desk, Screens, LoadedData, Works
<1> QED
  BY <1>1, <1>2, <1>3, <1>4 DEF TuiTypeOK

\* Every profile, screen and pending operation has its type, and exactly the process
\* that works under the CLI lock holds it, however many processes, profiles and
\* operations there are.
THEOREM TuiTypeCorrect == TuiSpec => []TuiTypeOK
<1>1. TuiInv => TuiTypeOK
  BY TypedIsTypeOK DEF TuiInv
<1> QED
  BY <1>1, TuiSpecInv, PTL

\* Between operations the pointer names a profile that exists and the names inside
\* the profile directories agree with theirs (app.tsx:1148, 1213).
THEOREM PointersKept == TuiSpec => []ProfilesWellNamed
<1>1. TuiInv => ProfilesWellNamed
  <2> SUFFICES ASSUME TuiInv, lock = None, ~dangling
               PROVE  active \in Profiles \union {None} /\ \A n \in Profiles : directory[n].meta = n
    BY DEF ProfilesWellNamed
  <2>1. Still
    BY Locked DEF TuiInv, Still, Renames
  <2> QED
    BY <2>1, WhenStill DEF TuiInv, Pointers, Agree, Well, Profiles
<1> QED
  BY <1>1, TuiSpecInv, PTL

\* Nobody loses a token to what another process does between a dialog and its answer,
\* unless the user gave up what is stored under the name the dialog showed
\* (app.tsx:759).
THEOREM NoLoginGivenAway == TuiSpec => []LoginsKept
<1>1. TuiInv => LoginsKept
  BY DEF TuiInv, Pointers
<1> QED
  BY <1>1, TuiSpecInv, PTL
=============================================================================
