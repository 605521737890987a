------------------------------ MODULE Switcher ------------------------------
(***************************************************************************)
(* src/src/core/switcher.ts: moving one CLI's live credentials between     *)
(* profiles.  A switch snapshots the live credentials into the active      *)
(* profile, writes the target's stored credentials to the live sources one *)
(* by one, rolls back to the live backup when one of them fails, and moves *)
(* the active pointer.                                                     *)
(*                                                                         *)
(* All of it runs under the CLI's mutation lock, so there is one operation *)
(* at a time.  A capture that succeeds is one step here; one that fails or *)
(* is killed leaves what ProfileCapture shows that it leaves, file by      *)
(* file: a part of the new artifacts, and a marker from which the next     *)
(* capture brings the old ones back.  A restore reads what is there.  The  *)
(* CLI rotates its tokens at any time, also while mat works.               *)
(***************************************************************************)
EXTENDS Integers, FiniteSetsExt

CONSTANTS
  Profile, Account,
  NoProfile,       \* the active pointer is unset
  NumSources,      \* the CLI's credential sources, in the order of its definition
  MaxGen,          \* bound: tokens issued per account and source
  MaxFaults,       \* bound: operations that report an error
  MaxKills,        \* bound: kills of mat
  PointerFaults    \* config.json and meta.json may fail to be written after a restore

Source == 1..NumSources
Meta == NumSources + 1      \* a capture commits meta.json after the sources
Artifact == 1..Meta

\* A token is the n-th one its account received for a source.
NoCred == [account |-> NoProfile, gen |-> 0]
Cred == [account : Account, gen : 1..MaxGen] \union {NoCred}

ASSUME SwitcherAssumption ==
  /\ NumSources \in Nat \ {0} /\ MaxGen \in Nat \ {0}
  /\ MaxFaults \in Nat /\ MaxKills \in Nat
  /\ NoProfile \notin Profile /\ NoProfile \notin Account
  /\ PointerFaults \in BOOLEAN

VARIABLES
  live,       \* the credentials in the CLI's own locations
  store,      \* the credentials stored in each profile
  exists,     \* the profiles that exist
  loggedOut,  \* those whose meta.json says startsLoggedOut
  marker,     \* what .mat-capture-txn.json brings back, of each profile
  barred,     \* profiles no capture accepts: the marker cannot be recovered, or no meta.json
  active,     \* the active pointer in config.json
  pc, op,     \* the next step of the running operation, and its arguments
  plan,       \* the restore plan: stored value, live backup, clearLive
  todo,       \* the sources its current loop has not done yet
  outcome,    \* how the last operation ended
  latest,     \* the last token issued per account and source
  given,      \* logins the user agreed to give up
  faults, kills

profiles == <<store, exists, loggedOut, marker, barred>>
world == <<latest, given>>
vars == <<live, profiles, active, pc, op, plan, todo, outcome, world, faults, kills>>

NoCreds == [s \in Source |-> NoCred]
NoMarker == [entries |-> {}, stored |-> NoCreds, out |-> FALSE]
NoPlan == [s \in Source |-> [stored |-> NoCred, backup |-> NoCred, clear |-> FALSE]]
NoOp == [kind |-> "none", to |-> NoProfile, skip |-> FALSE]
Kinds == {"none", "switch", "new", "capture", "import", "return"}
Restores == {"switch", "new", "return"}   \* the operations that call switchProfile

TypeOK ==
  /\ live \in [Source -> Cred]
  /\ store \in [Profile -> [Source -> Cred]]
  /\ loggedOut \subseteq exists /\ barred \subseteq exists /\ exists \subseteq Profile
  /\ marker \in [Profile -> [entries : SUBSET Artifact, stored : [Source -> Cred], out : BOOLEAN]]
  /\ active \in Profile \union {NoProfile}
  /\ pc \in {"idle", "create", "decide", "snapshot", "guard", "plan", "apply", "undo",
             "activate", "touch", "drop"}
  /\ op \in [kind : Kinds, to : Profile \union {NoProfile}, skip : BOOLEAN]
  /\ plan \in [Source -> [stored : Cred, backup : Cred, clear : BOOLEAN]]
  /\ todo \subseteq Source
  /\ outcome \in {"none", "ok", "same", "error", "broken", "killed"}
  /\ latest \in [Account -> [Source -> 0..MaxGen]]
  /\ given \subseteq Account \X Source
  /\ faults \in 0..MaxFaults /\ kills \in 0..MaxKills

Init ==
  /\ live = NoCreds /\ store = [p \in Profile |-> NoCreds]
  /\ exists = {} /\ loggedOut = {} /\ active = NoProfile
  /\ marker = [p \in Profile |-> NoMarker] /\ barred = {}
  /\ pc = "idle" /\ op = NoOp /\ plan = NoPlan /\ todo = {} /\ outcome = "none"
  /\ latest = [a \in Account |-> [s \in Source |-> 0]] /\ given = {}
  /\ faults = 0 /\ kills = 0

-----------------------------------------------------------------------------
(* Control flow *)

LoggedIn == {s \in Source : live[s] # NoCred}
Logins(creds) == {<<creds[s].account, s>> : s \in {t \in Source : creds[t] # NoCred}}

locals == <<op, plan>>

Goto(label, loop) == pc' = label /\ todo' = loop /\ UNCHANGED <<outcome, locals>>
End(how) ==
  pc' = "idle" /\ todo' = {} /\ outcome' = how /\ op' = NoOp /\ plan' = NoPlan
Fault == faults < MaxFaults /\ faults' = faults + 1

\* An exception ends the operation; switchToNewLoggedOutProfile first deletes
\* the profile it created.
ThrowAs(how) ==
  IF op.kind = "new" /\ pc # "create"
  THEN pc' = "drop" /\ todo' = {} /\ outcome' = how /\ UNCHANGED locals
  ELSE End(how)
Throw == ThrowAs("error")

-----------------------------------------------------------------------------
(* The entry points *)

Idle == pc = "idle"
Enter(kind, to, skip, label) ==
  /\ Idle
  /\ op' = [kind |-> kind, to |-> to, skip |-> skip]
  /\ pc' = label
  /\ UNCHANGED <<plan, todo, outcome, live, profiles, active, latest, faults, kills>>

SwitchProfile(to, skip) == Enter("switch", to, skip, "decide") /\ UNCHANGED given

\* A live login that neither the active profile nor the user's consent covers is
\* refused before the new profile is made; so is a name already taken.
SwitchToNewLoggedOutProfile(name, skip) ==
  /\ name \notin exists
  /\ skip \/ active \in exists \/ LoggedIn = {}
  /\ Enter("new", name, skip, "create") /\ UNCHANGED given

\* The TUI captures into the active profile or into a new one, and imports the
\* first login as the profile that becomes active.
SnapshotLiveToProfile(name) ==
  /\ name = active \/ name \notin exists
  /\ Enter("capture", name, FALSE, "snapshot") /\ UNCHANGED given

FirstImport(name) ==
  /\ exists = {} /\ active = NoProfile
  /\ Enter("import", name, FALSE, "snapshot") /\ UNCHANGED given

-----------------------------------------------------------------------------
(* switchToNewLoggedOutProfile, its own part *)

\* The directory of a profile without its meta.json.
Bare(p) ==
  /\ exists' = exists \union {p} /\ loggedOut' = loggedOut \ {p} /\ barred' = barred \union {p}
  /\ UNCHANGED <<store, marker>>

CreateProfile ==
  /\ pc = "create"
  /\ \/ /\ exists' = exists \union {op.to}
        /\ loggedOut' = loggedOut \union {op.to}
        /\ Goto("decide", {}) /\ UNCHANGED <<store, marker, barred, faults>>
     \/ Fault /\ Throw /\ UNCHANGED profiles
  /\ UNCHANGED <<live, active, world, kills>>

\* Mutant: a failed new start leaves its meta.json behind.
DropKeepsMeta ==
  /\ pc = "drop" /\ End(outcome)
  /\ exists' = exists \ {op.to} /\ UNCHANGED <<store, loggedOut, marker, barred, faults>>
  /\ UNCHANGED <<live, active, world, kills>>

\* A failed new start leaves no trace of the profile, best effort.
DropNewProfile ==
  /\ pc = "drop"
  /\ End(outcome)
  /\ \/ /\ exists' = exists \ {op.to} /\ loggedOut' = loggedOut \ {op.to}
        /\ store' = [store EXCEPT ![op.to] = NoCreds] /\ barred' = barred \ {op.to}
        /\ UNCHANGED <<marker, faults>>
     \/ Fault /\ (UNCHANGED profiles \/ Bare(op.to))
  /\ UNCHANGED <<live, active, world, kills>>

-----------------------------------------------------------------------------
(* switchProfileUnlocked *)

Saves == ~op.skip /\ active \in exists

\* The live credentials are given up when the user asked for it, or when there
\* is no active profile to save them into.
Decide ==
  /\ pc = "decide"
  /\ IF active = op.to /\ op.to \in exists THEN End("same")
     ELSE IF Saves THEN Goto("snapshot", {})
     ELSE Goto(IF ~op.skip /\ op.to \in loggedOut THEN "guard" ELSE "plan", {})
  /\ given' = IF pc' = "plan" /\ op.kind # "return" THEN given \union Logins(live) ELSE given
  /\ UNCHANGED <<live, profiles, active, latest, faults, kills>>

\* assertNoUnsavedLiveCredentials
Guard ==
  /\ pc = "guard"
  /\ IF LoggedIn # {} THEN Throw ELSE Goto("plan", {})
  /\ UNCHANGED <<live, profiles, active, world, faults, kills>>

\* Mutant: the switch snapshots into the profile it switches to.
DestinationTarget == op.to

\* The active profile, or the one the user captures into.
Destination == IF op.kind \in Restores THEN active ELSE op.to

-----------------------------------------------------------------------------
(* snapshotLiveToProfileUnlocked *)

\* The files of a profile as they are, and as the recovery of an interrupted capture leaves them.
torn == {p \in Profile : marker[p].entries # {}}
Image(p) == [stored |-> store[p], out |-> p \in loggedOut]
Settled(p) == IF p \in torn THEN [stored |-> marker[p].stored, out |-> marker[p].out] ELSE Image(p)

\* Mutant: a captured login leaves the profile marked as logged out.
MarkKept(p) == Settled(p).out

\* One captured login makes it an ordinary profile.
OutAfterCapture(p) == Settled(p).out /\ LoggedIn = {}

\* A source without a live value keeps what the profile has.
Captured(p) ==
  [stored |-> [s \in Source |-> IF s \in LoggedIn THEN live[s] ELSE Settled(p).stored[s]],
   out |-> OutAfterCapture(p)]
Entries == LoggedIn \union {Meta}
MarkerOf(p) == [entries |-> Entries, stored |-> Settled(p).stored, out |-> Settled(p).out]

\* The artifacts before c are the new ones, those from c on the old ones; c itself may be moved away.
Cut(c, away, old, new) ==
  [stored |-> [s \in Source |-> IF s < c THEN new.stored[s]
                                ELSE IF s = c /\ away THEN NoCred ELSE old.stored[s]],
   out |-> IF Meta < c THEN new.out ELSE old.out /\ ~(c = Meta /\ away)]

Files(p, image, left) ==
  /\ exists' = exists \union {p}
  /\ store' = [store EXCEPT ![p] = image.stored]
  /\ loggedOut' = IF image.out THEN loggedOut \union {p} ELSE loggedOut \ {p}
  /\ marker' = [marker EXCEPT ![p] = left]

\* The recovery puts the artifacts back from the last one on.  An artifact that is back has neither a
\* backup nor a staged file, and the next recovery refuses it.
RecoveryStops(p) ==
  /\ p \in torn
  /\ \E c \in 1..(Meta + 1), away \in BOOLEAN :
       /\ away => c \in marker[p].entries
       /\ Files(p, Cut(c, away, Settled(p), Image(p)), marker[p])
       /\ \/ UNCHANGED barred
          \/ (\E e \in marker[p].entries : e > c \/ (e = c /\ ~away)) /\ barred' = barred \union {p}

RolledBack(p) == Files(p, Settled(p), NoMarker) /\ UNCHANGED barred

\* The commit replaces the artifacts one by one, under a marker that brings the old ones back.
CommitStops(p) ==
  \E c \in 1..(Meta + 1), away \in BOOLEAN :
    /\ away => c \in Entries
    /\ Files(p, Cut(c, away, Settled(p), Captured(p)), MarkerOf(p))

\* The rollback of a commit that failed after its commit point writes the old artifacts over the new.
RewriteStops(p) ==
  /\ UNCHANGED barred
  /\ \E c \in 1..(Meta + 1) : Files(p, Cut(c, FALSE, Captured(p), Settled(p)), NoMarker)

MayBar(p) == UNCHANGED barred \/ barred' = barred \union {p}

CaptureDone(p) ==
  /\ p \notin barred
  /\ Files(p, Captured(p), NoMarker) /\ UNCHANGED <<barred, faults>>
  /\ CASE op.kind \in Restores -> Goto("plan", {})
       [] op.kind = "capture"  -> End("ok")
       [] op.kind = "import"   -> Goto("activate", {})

\* A capture that fails is rolled back, and a profile it made deleted, unless the recovery it begins
\* with or the rollback (one more failure) fails.
CaptureFails(p) ==
  /\ Throw
  /\ \/ p \in barred /\ UNCHANGED <<profiles, faults>>
     \/ /\ p \notin barred /\ Fault
        /\ (p \in exists /\ RolledBack(p)) \/ (p \notin exists /\ UNCHANGED profiles) \/ RecoveryStops(p)
     \/ /\ p \notin barred /\ faults + 1 < MaxFaults /\ faults' = faults + 2
        /\ CommitStops(p) /\ MayBar(p)

Snapshot ==
  /\ pc = "snapshot"
  /\ CaptureDone(Destination) \/ CaptureFails(Destination)
  /\ UNCHANGED <<live, active, world, kills>>

\* What a killed capture leaves behind; a failure may have come first.
CaptureKilled(p) ==
  /\ p \notin barred
  /\ \/ /\ UNCHANGED faults
        /\ \/ RecoveryStops(p) \/ RolledBack(p)
           \/ p \notin exists /\ Bare(p)
           \/ CommitStops(p) /\ UNCHANGED barred
     \/ Fault /\ ((CommitStops(p) /\ MayBar(p)) \/ RewriteStops(p))

-----------------------------------------------------------------------------
(* restoreProfileToLiveUnlocked *)

\* collectRestorePlan: every stored value and the live value it will replace, from the files of
\* the profile as they are.  A logged-out profile with nothing stored clears the live values instead.
Planned(p) == {s \in Source : p[s].stored # NoCred \/ p[s].clear}

ReadPlan ==
  LET clears == op.to \in loggedOut /\ \A s \in Source : store[op.to][s] = NoCred IN
  /\ plan' = [s \in Source |-> [stored |-> store[op.to][s], backup |-> live[s],
                                clear |-> clears /\ s \in LoggedIn]]
  /\ pc' = IF Planned(plan') = {} THEN "activate" ELSE "apply"
  /\ todo' = Planned(plan')
  /\ UNCHANGED <<op, outcome>>

CollectPlan ==
  /\ pc = "plan"
  /\ \/ op.to \in exists /\ ReadPlan /\ UNCHANGED faults
     \/ op.to \notin exists /\ Throw /\ UNCHANGED faults
     \/ Fault /\ Throw
  /\ UNCHANGED <<live, profiles, active, world, kills>>

\* Mutant: only the source that failed is rolled back.
ToUndoFailed(s) == {s}

ToUndo(s) == {t \in Planned(plan) : t <= s}

\* applyRestorePlan: a source that fails may still have been changed, so the
\* rollback starts with it.  What failed is the error, unless the rollback fails too.
Apply ==
  /\ pc = "apply"
  /\ LET s == Min(todo)
         written == live' = [live EXCEPT ![s] = plan[s].stored]
     IN
     \/ /\ written
        /\ IF todo = {s} THEN Goto("activate", {}) ELSE Goto("apply", todo \ {s})
        /\ UNCHANGED faults
     \/ /\ written \/ UNCHANGED live
        /\ Fault
        /\ pc' = "undo" /\ todo' = ToUndo(s) /\ outcome' = "error" /\ UNCHANGED locals
  /\ UNCHANGED <<profiles, active, world, kills>>

\* The rollback goes on after a source it cannot restore, and says so at the end.
Undo ==
  /\ pc = "undo"
  /\ LET s == Max(todo)
         undone == live' = [live EXCEPT ![s] = plan[s].backup]
         Continue(how) == IF todo = {s} THEN ThrowAs(how)
                          ELSE /\ pc' = "undo" /\ todo' = todo \ {s} /\ outcome' = how
                               /\ UNCHANGED locals
     IN
     \/ undone /\ Continue(outcome) /\ UNCHANGED faults
     \/ (undone \/ UNCHANGED live) /\ Fault /\ Continue("broken")
  /\ UNCHANGED <<profiles, active, world, kills>>

\* setActiveProfile
Activate ==
  /\ pc = "activate"
  /\ \/ /\ active' = op.to /\ UNCHANGED faults
        /\ IF op.kind = "import" THEN End("ok") ELSE Goto("touch", {})
     \/ /\ active' \in {active, op.to}
        /\ PointerFaults /\ Fault /\ Throw
  /\ UNCHANGED <<live, profiles, world, kills>>

\* touchProfile
Touch ==
  /\ pc = "touch"
  /\ \/ End("ok") /\ UNCHANGED faults
     \/ PointerFaults /\ Fault /\ Throw
  /\ UNCHANGED <<live, profiles, active, world, kills>>

Operate ==
  \/ CreateProfile \/ DropNewProfile \/ Decide \/ Guard \/ Snapshot
  \/ CollectPlan \/ Apply \/ Undo \/ Activate \/ Touch

-----------------------------------------------------------------------------
(* The environment *)

\* The user logs in from the CLI while it is logged out: a fresh token in each
\* source the login writes.
LogIn(a, written) ==
  /\ Idle /\ LoggedIn = {} /\ written # {}
  /\ \A s \in written : latest[a][s] < MaxGen
  /\ latest' = [latest EXCEPT ![a] = [s \in Source |-> IF s \in written THEN @[s] + 1 ELSE @[s]]]
  /\ live' = [s \in Source |->
               IF s \in written THEN [account |-> a, gen |-> latest'[a][s]] ELSE NoCred]
  /\ UNCHANGED <<profiles, active, pc, op, plan, todo, outcome, given, faults, kills>>

\* The CLI refreshes a token, which revokes the previous one.
Rotate(s) ==
  /\ s \in LoggedIn
  /\ LET a == live[s].account IN
     /\ live[s].gen = latest[a][s] /\ latest[a][s] < MaxGen
     /\ latest' = [latest EXCEPT ![a][s] = @ + 1]
     /\ live' = [live EXCEPT ![s].gen = @ + 1]
  /\ UNCHANGED <<profiles, active, pc, op, plan, todo, outcome, given, faults, kills>>

\* createProfile and deleteProfile are not atomic either.
Kill ==
  /\ ~Idle /\ kills < MaxKills
  /\ kills' = kills + 1
  /\ End("killed")
  /\ \/ UNCHANGED <<profiles, faults>>
     \/ pc \in {"create", "drop"} /\ Bare(op.to) /\ UNCHANGED faults
     \/ pc = "snapshot" /\ CaptureKilled(Destination)
  /\ UNCHANGED <<live, active, world>>

UsesCLI ==
  \/ \E a \in Account, written \in SUBSET Source : LogIn(a, written)
  \/ \E s \in Source : Rotate(s)

UserActs ==
  \/ \E p \in Profile, skip \in BOOLEAN :
       SwitchProfile(p, skip) \/ SwitchToNewLoggedOutProfile(p, skip)
  \/ \E p \in Profile : SnapshotLiveToProfile(p) \/ FirstImport(p)

Next == UserActs \/ Operate \/ UsesCLI \/ Kill

Spec == Init /\ [][Next]_vars

-----------------------------------------------------------------------------
\* The current token of every login the user did not give up is live or stored
\* in some profile: no switch, capture or rollback loses it.
LoginsSafe ==
  \A a \in Account, s \in Source :
    latest[a][s] > 0 /\ <<a, s>> \notin given =>
      LET token == [account |-> a, gen |-> latest[a][s]]
      IN  live[s] = token \/ \E p \in exists : store[p][s] = token

\* A restore is all or nothing (README.md:100): it reaches the active pointer with every planned source
\* in place, and a clean error leaves every source as it was; in both, the CLI may have renewed a token.
Renews(new, old) == new.account = old.account /\ new.gen >= old.gen

RestoreAllOrNothing ==
  [][/\ pc # "activate" /\ pc' = "activate" /\ op.kind \in Restores =>
          \A s \in Source :
            Renews(live'[s], IF s \in Planned(plan') THEN plan'[s].stored ELSE plan'[s].backup)
     /\ pc = "undo" /\ pc' # "undo" /\ outcome' = "error" =>
          \A s \in Source : Renews(live'[s], plan[s].backup)]_vars

\* A profile that starts logged out stores no login, nor will it when an interrupted capture is
\* recovered, so that starting it clears the live credentials; a dangling active pointer never
\* resurrects a profile.
LoggedOutIsEmpty ==
  /\ \A p \in Profile : Settled(p).out => Settled(p).stored = NoCreds
  /\ pc = "snapshot" /\ op.kind \in Restores => active \in exists
=============================================================================
