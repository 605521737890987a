----------------------------- MODULE ExecProofs -----------------------------
(***************************************************************************)
(* Proofs about Switcher and Exec for any number of profiles, accounts,    *)
(* sources, tokens, failures and kills: the types, that a logged-out       *)
(* profile stores nothing, that a restore is all or nothing, and that no   *)
(* switch, capture, rollback or exec loses a login or stores it with       *)
(* another account, as long as the live credentials and the active pointer *)
(* are not separated (adrift), which one failure cannot do.                *)
(***************************************************************************)
EXTENDS Exec, WellFoundedInduction, TLAPS

-----------------------------------------------------------------------------
(* The inductive invariant *)

\* Which operation is at which step, and with which arguments.
Operating ==
  /\ pc = "idle" => op = NoOp
  /\ pc # "idle" => op.kind # "none" /\ op.to \in Profile
  /\ pc \in {"create", "drop"} => op.kind = "new"
  /\ pc \in {"decide", "guard", "plan", "apply", "undo", "touch"} => op.kind \in Restores
  /\ pc = "activate" => op.kind \in Restores \union {"import"}
  /\ op.kind = "return" => op.skip /\ pc # "snapshot"
  /\ pc \in {"apply", "undo"} => todo # {} /\ todo \subseteq Planned(plan)
  /\ pc \in {"undo", "drop"} => outcome \in {"error", "broken"}
  /\ pc = "touch" => active = op.to

\* Which operation an exec waits for, and what is active when it succeeded.
Executing ==
  /\ phase # "none" => {exec.target, exec.previous} \subseteq Profile
  /\ phase = "swap" => Idle \/ (op.kind = "switch" /\ op.to = exec.target)
  /\ phase = "recapture" => Idle \/ (pc = "snapshot" /\ op.kind = "capture" /\ op.to = exec.target)
  /\ phase = "return" => Idle \/ (op.kind = "return" /\ op.to = exec.previous)
  /\ phase = "swap" /\ Idle /\ outcome = "ok" => active = exec.target
  /\ phase \in {"child", "recapture"} => active = exec.target
  /\ phase = "return" /\ Idle /\ outcome \in {"ok", "same"} => active = exec.previous

\* What a profile holds for a source once an interrupted capture is recovered.
Held(p, s) == Settled(p).stored[s]

\* A profile that does not exist, or starts logged out, stores no login.
Storing ==
  /\ \A p \in Profile : p \notin exists =>
       marker[p].entries = {} /\ \A s \in Source : store[p][s] = NoCred
  /\ \A p \in Profile : Settled(p).out => \A s \in Source : Held(p, s) = NoCred
  /\ pc = "create" => op.to \notin exists
  /\ op.kind = "new" /\ pc # "create" => op.to \in loggedOut /\ marker[op.to].entries = {}
  /\ pc = "snapshot" /\ op.kind \in Restores => active \in exists /\ active # op.to

\* No credential is newer than the last token its account received.
Issued(cred, s) == cred # NoCred => cred.gen <= latest[cred.account][s]

Tokens ==
  \A s \in Source :
    /\ Issued(live[s], s) /\ Issued(plan[s].stored, s) /\ Issued(plan[s].backup, s)
    /\ \A p \in Profile : Issued(store[p][s], s) /\ Issued(Held(p, s), s)

\* What is live while a restore writes and rolls back: the stored value of every source it has done,
\* the backup of every other, unless the CLI has renewed it.
Restoring ==
  /\ pc = "apply" => \A s \in Source :
       IF s \in Planned(plan) \ todo THEN Renews(live[s], plan[s].stored) /\ \A t \in todo : s < t
                                     ELSE Renews(live[s], plan[s].backup)
  /\ pc = "undo" /\ outcome = "error" => \A s \in Source \ todo : Renews(live[s], plan[s].backup)
  /\ pc = "activate" /\ op.kind \in Restores => \A s \in Source :
       Renews(live[s], IF s \in Planned(plan) THEN plan[s].stored ELSE plan[s].backup)

\* The credentials belong to the active profile: where it stores a login, in its files or in what
\* their recovery brings back, they are of the same account, and not older.
Fits(creds) ==
  active \in Profile => \A s \in Source :
    /\ store[active][s] # NoCred => Renews(creds[s], store[active][s])
    /\ Held(active, s) # NoCred => Renews(creds[s], Held(active, s))

\* The files that an interrupted capture left are of the accounts that the recovery brings back.
Agreeing ==
  \A p \in Profile, s \in Source :
    store[p][s] # NoCred /\ Held(p, s) # NoCred => Renews(store[p][s], Held(p, s))

Replacing == pc \in {"apply", "undo"} \/ (pc = "activate" /\ op.kind \in Restores)
Backup == [s \in Source |-> plan[s].backup]

Belonging ==
  /\ Agreeing
  /\ Replacing => Fits(Backup)
  /\ ~Replacing => Fits(live)
  /\ Replacing => \A s \in Source :
       plan[s].stored = store[op.to][s] /\ (Held(op.to, s) # NoCred => store[op.to][s] # NoCred)
  /\ pc = "activate" /\ op.kind = "import" => \A s \in Source :
       /\ store[op.to][s] # NoCred => Renews(live[s], store[op.to][s])
       /\ Held(op.to, s) = store[op.to][s]
  /\ pc = "snapshot" /\ op.kind \in {"capture", "import"} => op.to = active \/ op.to \notin exists

\* Before live credentials are replaced, every login that was not given up is in a profile.
Token(a, s) == [account |-> a, gen |-> latest[a][s]]
Safe ==
  \A a \in Account, s \in Source :
    latest[a][s] > 0 /\ <<a, s>> \notin given => \E p \in exists : store[p][s] = Token(a, s)

Sheltered ==
  \/ pc \in {"plan", "apply", "undo"}
  \/ pc = "decide" /\ op.kind = "return"
  \/ phase = "recapture" /\ Idle /\ outcome = "ok"

Saved == LoginsSafe /\ (Sheltered => Safe)

-----------------------------------------------------------------------------
(* The loops over the sources *)

\* A set of numbers that is not empty has a least one.
LEMMA LeastNumber ==
  ASSUME NEW T \in SUBSET Nat, T # {}
  PROVE  \E x \in T : \A y \in T : x <= y
<1>1. PICK x \in T : \A y \in T : ~(<<y, x>> \in OpToRel(<, Nat))
  BY NatLessThanWellFounded, WFMin
<1>2. \A y \in T : ~(y < x)
  BY <1>1 DEF OpToRel
<1> QED
  BY <1>2

\* A set of sources that is not empty has a first one (Apply).
LEMMA FirstSource ==
  ASSUME NEW T \in SUBSET Source, T # {}
  PROVE  Min(T) \in T /\ \A t \in T : Min(T) <= t
<1>1. \E s \in T : \A t \in T : s <= t
  BY LeastNumber, SwitcherAssumption DEF Source
<1> QED
  BY <1>1 DEF Min

\* It has a last one (Undo).
LEMMA LastSource ==
  ASSUME NEW T \in SUBSET Source, T # {}
  PROVE  Max(T) \in T /\ \A t \in T : t <= Max(T)
<1> DEFINE Above == {n \in Nat : \A t \in T : t <= n}
<1> USE SwitcherAssumption DEF Source
<1>1. NumSources \in Above
  OBVIOUS
<1>2. PICK m \in Above : \A n \in Above : m <= n
  BY <1>1, LeastNumber
<1>3. m \in T
  <2> SUFFICES ASSUME m \notin T PROVE FALSE
    OBVIOUS
  <2>1. \A t \in T : t \in Nat /\ t >= 1 /\ t <= m - 1
    OBVIOUS
  <2>2. m - 1 \in Nat
    <3>1. PICK t \in T : TRUE
      OBVIOUS
    <3> QED
      BY <2>1, <3>1
  <2>3. m - 1 \in Above
    BY <2>1, <2>2
  <2> QED
    BY <1>2, <2>2, <2>3
<1> QED
  BY <1>3 DEF Max

-----------------------------------------------------------------------------
(* Values *)

\* The values that are assigned have their types.
LEMMA Typed ==
  /\ NoCred \in Cred /\ NoOp \in [kind : Kinds, to : Profile \union {NoProfile}, skip : BOOLEAN]
  /\ NoPlan \in [Source -> [stored : Cred, backup : Cred, clear : BOOLEAN]]
  /\ \A c \in Cred : c # NoCred => c.account \in Account /\ c.gen \in 1..MaxGen
  /\ NoCreds \in [Source -> Cred] /\ \A s \in Source : NoCreds[s] = NoCred
  /\ NoMarker \in [entries : SUBSET Artifact, stored : [Source -> Cred], out : BOOLEAN]
BY SwitcherAssumption DEF NoCred, Cred, NoOp, NoPlan, Kinds, NoCreds, NoMarker

\* A later token of a later token is a later token.
LEMMA RenewsTransitive ==
  ASSUME NEW c \in Cred, NEW d \in Cred, NEW e \in Cred, Renews(c, d), Renews(d, e)
  PROVE  Renews(c, e)
<1>1. c.gen \in Nat /\ d.gen \in Nat /\ e.gen \in Nat
  BY SwitcherAssumption DEF Cred, NoCred
<1> QED
  BY <1>1 DEF Renews

\* A token is its own renewal, and renews nothing but a token.
LEMMA RenewsSome ==
  /\ \A c \in Cred : Renews(c, c)
  /\ \A c \in Cred, d \in Cred : Renews(c, d) /\ d # NoCred => c # NoCred
<1>1. \A c \in Cred : c.gen \in Nat
  BY SwitcherAssumption DEF Cred, NoCred
<1>2. \A d \in Cred : d # NoCred => d.account # NoProfile
  BY SwitcherAssumption, Typed
<1> QED
  BY <1>1, <1>2 DEF Renews, NoCred

-----------------------------------------------------------------------------
(* What a capture does to its profile, however it ends *)

Images == [stored : [Source -> Cred], out : BOOLEAN]

\* What a profile holds and what its files hold are images.
LEMMA ImageTyped ==
  ASSUME TypeOK, NEW p \in Profile
  PROVE  /\ Image(p) \in Images /\ Settled(p) \in Images /\ Captured(p) \in Images
         /\ MarkerOf(p) \in [entries : SUBSET Artifact, stored : [Source -> Cred], out : BOOLEAN]
         /\ \A s \in Source :
              /\ Image(p).stored[s] = store[p][s]
              /\ Settled(p).stored[s] = IF marker[p].entries # {} THEN marker[p].stored[s] ELSE store[p][s]
              /\ Captured(p).stored[s] = IF s \in LoggedIn THEN live[s] ELSE Settled(p).stored[s]
              /\ MarkerOf(p).stored[s] = Settled(p).stored[s]
         /\ Captured(p).out => Settled(p).out /\ LoggedIn = {}
         /\ MarkerOf(p).entries # {} /\ MarkerOf(p).out = Settled(p).out
<1>1. Image(p) \in Images /\ Settled(p) \in Images
  BY DEF TypeOK, Image, Settled, torn, Images
<1>2. /\ \A s \in Source : Captured(p).stored[s] = IF s \in LoggedIn THEN live[s] ELSE Settled(p).stored[s]
      /\ Captured(p).out = (Settled(p).out /\ LoggedIn = {})
  BY DEF Captured, OutAfterCapture
<1>3. Captured(p) \in Images
  BY <1>1 DEF TypeOK, Captured, OutAfterCapture, Images
<1>4. Entries \in SUBSET Artifact /\ Entries # {}
  BY SwitcherAssumption DEF Entries, LoggedIn, Artifact, Source, Meta
<1>5. MarkerOf(p) \in [entries : SUBSET Artifact, stored : [Source -> Cred], out : BOOLEAN]
  BY <1>1, <1>4 DEF MarkerOf, Images
<1>6. \A s \in Source :
        /\ Image(p).stored[s] = store[p][s]
        /\ Settled(p).stored[s] = IF marker[p].entries # {} THEN marker[p].stored[s] ELSE store[p][s]
  BY DEF Image, Settled, torn
<1> QED
  BY <1>1, <1>2, <1>3, <1>4, <1>5, <1>6 DEF MarkerOf

\* A cut set takes each artifact from one of the two.
LEMMA CutTyped ==
  ASSUME NEW c, NEW away \in BOOLEAN, NEW old \in Images, NEW new \in Images
  PROVE  /\ Cut(c, away, old, new) \in Images
         /\ \A s \in Source : Cut(c, away, old, new).stored[s] \in {NoCred, old.stored[s], new.stored[s]}
         /\ Cut(c, FALSE, old, new) \in Images
         /\ \A s \in Source : Cut(c, FALSE, old, new).stored[s] \in {old.stored[s], new.stored[s]}
BY Typed DEF Cut, Images

\* The files after a capture.
LEMMA FilesEffect ==
  ASSUME TypeOK, NEW p \in Profile, NEW image \in Images,
         NEW left \in [entries : SUBSET Artifact, stored : [Source -> Cred], out : BOOLEAN],
         Files(p, image, left)
  PROVE  /\ store' \in [Profile -> [Source -> Cred]]
         /\ marker' \in [Profile -> [entries : SUBSET Artifact, stored : [Source -> Cred], out : BOOLEAN]]
         /\ exists' = exists \union {p} /\ loggedOut' \subseteq exists'
         /\ \A q \in Profile : q # p =>
              store'[q] = store[q] /\ marker'[q] = marker[q] /\ (q \in loggedOut' <=> q \in loggedOut)
         /\ store'[p] = image.stored /\ marker'[p] = left /\ (p \in loggedOut' <=> image.out)
         /\ Settled(p)'.out <=> IF left.entries = {} THEN image.out ELSE left.out
         /\ \A s \in Source : Held(p, s)' = IF left.entries = {} THEN image.stored[s] ELSE left.stored[s]
<1>1. /\ store' \in [Profile -> [Source -> Cred]]
      /\ marker' \in [Profile -> [entries : SUBSET Artifact, stored : [Source -> Cred], out : BOOLEAN]]
      /\ exists' = exists \union {p} /\ loggedOut' \subseteq exists'
      /\ \A q \in Profile : q # p =>
           store'[q] = store[q] /\ marker'[q] = marker[q] /\ (q \in loggedOut' <=> q \in loggedOut)
      /\ store'[p] = image.stored /\ marker'[p] = left /\ (p \in loggedOut' <=> image.out)
  BY DEF TypeOK, Files, Images
<1>2. Settled(p)'.out <=> IF left.entries = {} THEN image.out ELSE left.out
  BY <1>1 DEF Settled, torn, Image
<1>3. \A s \in Source : Held(p, s)' = IF left.entries = {} THEN image.stored[s] ELSE left.stored[s]
  BY <1>1 DEF Held, Settled, torn, Image
<1> QED
  BY <1>1, <1>2, <1>3

\* What becomes of one profile: every artifact it has is one it had, one its recovery brings back or a
\* live one; and what it will hold once recovered changes to live logins only, in an ordinary profile.
Touches(p) ==
  /\ store' \in [Profile -> [Source -> Cred]]
  /\ marker' \in [Profile -> [entries : SUBSET Artifact, stored : [Source -> Cred], out : BOOLEAN]]
  /\ exists \subseteq exists' /\ exists' \subseteq exists \union {p}
  /\ loggedOut' \subseteq exists' /\ barred' \subseteq exists'
  /\ \A q \in Profile : q # p =>
       store'[q] = store[q] /\ marker'[q] = marker[q] /\ (q \in loggedOut' <=> q \in loggedOut)
  /\ p \notin exists' => store'[p] = store[p] /\ marker'[p] = marker[p]
  /\ \A s \in Source :
       /\ store'[p][s] \in {NoCred, store[p][s], Held(p, s), live[s]}
       /\ Held(p, s)' \in {Held(p, s), live[s]}
       /\ live[s] = NoCred => Held(p, s)' = Held(p, s)
       /\ Held(p, s)' # Held(p, s) => store'[p][s] = Held(p, s)'
  /\ Settled(p)'.out => Settled(p).out /\ \A s \in Source : Held(p, s)' = Held(p, s)

\* What a profile holds depends on its files and its marker.
LEMMA HeldKept ==
  ASSUME UNCHANGED <<store, marker>>
  PROVE  \A p \in Profile, s \in Source : Held(p, s)' = Held(p, s)
BY DEF Held, Settled, torn, Image

\* A profile whose files are not touched.
LEMMA Untouched ==
  ASSUME TypeOK, NEW p \in Profile, UNCHANGED profiles
  PROVE  Touches(p)
<1>1. UNCHANGED <<store, exists, loggedOut, marker, barred>>
  BY DEF profiles
<1>2. \A s \in Source : Held(p, s)' = Held(p, s)
  BY <1>1 DEF Held, Settled, torn, Image
<1>3. Settled(p)'.out = Settled(p).out
  BY <1>1 DEF Settled, torn, Image
<1> QED
  BY <1>1, <1>2, <1>3 DEF Touches, TypeOK

\* A profile without its meta.json.
LEMMA BareTouches ==
  ASSUME TypeOK, NEW p \in Profile, Bare(p), marker[p].entries = {}
  PROVE  Touches(p)
<1>1. /\ UNCHANGED <<store, marker>> /\ exists' = exists \union {p} /\ loggedOut' = loggedOut \ {p}
      /\ barred' = barred \union {p}
  BY DEF Bare
<1>2. \A s \in Source : Held(p, s)' = Held(p, s)
  BY <1>1 DEF Held, Settled, torn, Image
<1>3. ~Settled(p)'.out
  BY <1>1 DEF Settled, torn, Image
<1> QED
  BY <1>1, <1>2, <1>3 DEF Touches, TypeOK

\* The outcomes that write the files.
LEMMA FilesTouch ==
  ASSUME TypeOK, NEW p \in Profile, NEW image \in Images,
         NEW left \in [entries : SUBSET Artifact, stored : [Source -> Cred], out : BOOLEAN],
         Files(p, image, left), MayBar(p),
         \A s \in Source : image.stored[s] \in {NoCred, store[p][s], Settled(p).stored[s], Captured(p).stored[s]},
         IF left.entries = {}
         THEN /\ \A s \in Source : image.stored[s] \in {Settled(p).stored[s], Captured(p).stored[s]}
              /\ image.out => Settled(p).out /\ \A s \in Source : image.stored[s] = Settled(p).stored[s]
         ELSE (\A s \in Source : left.stored[s] = Settled(p).stored[s]) /\ (left.out => Settled(p).out)
  PROVE  Touches(p)
<1>1. /\ store' \in [Profile -> [Source -> Cred]]
      /\ marker' \in [Profile -> [entries : SUBSET Artifact, stored : [Source -> Cred], out : BOOLEAN]]
      /\ exists' = exists \union {p} /\ loggedOut' \subseteq exists'
      /\ \A q \in Profile : q # p =>
           store'[q] = store[q] /\ marker'[q] = marker[q] /\ (q \in loggedOut' <=> q \in loggedOut)
      /\ store'[p] = image.stored
      /\ Settled(p)'.out <=> IF left.entries = {} THEN image.out ELSE left.out
      /\ \A s \in Source : Held(p, s)' = IF left.entries = {} THEN image.stored[s] ELSE left.stored[s]
  BY FilesEffect
<1>2. \A s \in Source :
        /\ Settled(p).stored[s] = Held(p, s)
        /\ Captured(p).stored[s] = IF live[s] # NoCred THEN live[s] ELSE Held(p, s)
  BY ImageTyped DEF Held, LoggedIn
<1>3. barred' \subseteq exists'
  BY <1>1 DEF MayBar, TypeOK
<1>4. \A s \in Source :
       /\ store'[p][s] \in {NoCred, store[p][s], Held(p, s), live[s]}
       /\ Held(p, s)' \in {Held(p, s), live[s]}
       /\ live[s] = NoCred => Held(p, s)' = Held(p, s)
       /\ Held(p, s)' # Held(p, s) => store'[p][s] = Held(p, s)'
  <2> SUFFICES ASSUME NEW s \in Source
               PROVE  /\ store'[p][s] \in {NoCred, store[p][s], Held(p, s), live[s]}
                      /\ Held(p, s)' \in {Held(p, s), live[s]}
                      /\ live[s] = NoCred => Held(p, s)' = Held(p, s)
                      /\ Held(p, s)' # Held(p, s) => store'[p][s] = Held(p, s)'
    OBVIOUS
  <2> DEFINE new == image.stored[s]
             was == Held(p, s)
             now == Held(p, s)'
  <2>1. store'[p][s] = new /\ now = (IF left.entries = {} THEN new ELSE left.stored[s])
    BY <1>1
  <2>2. new \in {NoCred, store[p][s], was, live[s]}
    BY <1>2
  <2>3. CASE left.entries = {}
    <3>1. new \in {was, IF live[s] # NoCred THEN live[s] ELSE was}
      BY <1>2, <2>3
    <3>2. now = new
      BY <2>1, <2>3
    <3> HIDE DEF new, was, now
    <3> QED
      BY <2>1, <2>2, <3>1, <3>2 DEF was, now
  <2>4. CASE left.entries # {}
    <3>1. left.stored[s] = was
      BY <1>2, <2>4
    <3>2. now = was
      BY <2>1, <2>4, <3>1
    <3>3. store'[p][s] = new
      BY <2>1
    <3> HIDE DEF new, was, now
    <3>4. store'[p][s] \in {NoCred, store[p][s], was, live[s]}
      BY <2>2, <3>3
    <3> QED
      BY <3>2, <3>4 DEF was, now
  <2> QED
    BY <2>3, <2>4
<1>5. Settled(p)'.out => Settled(p).out /\ \A s \in Source : Held(p, s)' = Held(p, s)
  <2>1. CASE left.entries = {}
    <3>1. Settled(p)'.out => Settled(p).out
      BY <1>1, <2>1, Zenon
    <3>2. image.out => \A s \in Source : Held(p, s)' = Held(p, s)
      BY <1>1, <1>2, <2>1
    <3> QED
      BY <1>1, <2>1, <3>1, <3>2, Zenon
  <2>2. CASE left.entries # {}
    <3>1. Settled(p)'.out => Settled(p).out
      BY <1>1, <2>2, Zenon
    <3>2. \A s \in Source : Held(p, s)' = Held(p, s)
      BY <1>1, <1>2, <2>2
    <3> QED
      BY <3>1, <3>2, Zenon
  <2> QED
    BY <2>1, <2>2
<1>6. /\ exists \subseteq exists' /\ exists' \subseteq exists \union {p} /\ p \in exists'
      /\ loggedOut' \subseteq exists'
  BY <1>1
<1>7. /\ store' \in [Profile -> [Source -> Cred]]
      /\ marker' \in [Profile -> [entries : SUBSET Artifact, stored : [Source -> Cred], out : BOOLEAN]]
      /\ \A q \in Profile : q # p =>
           store'[q] = store[q] /\ marker'[q] = marker[q] /\ (q \in loggedOut' <=> q \in loggedOut)
  BY <1>1
<1> QED
  BY <1>3, <1>4, <1>5, <1>6, <1>7 DEF Touches

\* A recovery or a commit that stops, a rollback, a rewrite that stops, a capture that is done.
LEMMA CaptureTouches ==
  ASSUME TypeOK, NEW p \in Profile,
         \/ RecoveryStops(p) \/ RolledBack(p) \/ RewriteStops(p)
         \/ CommitStops(p) /\ MayBar(p)
         \/ Files(p, Captured(p), NoMarker) /\ UNCHANGED barred
  PROVE  Touches(p)
<1> DEFINE Fields == [entries : SUBSET Artifact, stored : [Source -> Cred], out : BOOLEAN]
<1>0. /\ Image(p) \in Images /\ Settled(p) \in Images /\ Captured(p) \in Images
      /\ MarkerOf(p) \in Fields /\ marker[p] \in Fields /\ NoMarker \in Fields /\ NoMarker.entries = {}
      /\ \A s \in Source : Image(p).stored[s] = store[p][s] /\ MarkerOf(p).stored[s] = Settled(p).stored[s]
      /\ MarkerOf(p).entries # {} /\ MarkerOf(p).out = Settled(p).out
      /\ Captured(p).out => Settled(p).out /\ LoggedIn = {}
      /\ \A s \in Source : Captured(p).stored[s] = IF s \in LoggedIn THEN live[s] ELSE Settled(p).stored[s]
  BY ImageTyped, Typed DEF TypeOK, NoMarker
<1>1. CASE RecoveryStops(p)
  <2>1. PICK c \in 1..(Meta + 1), away \in BOOLEAN :
          Files(p, Cut(c, away, Settled(p), Image(p)), marker[p])
    BY <1>1 DEF RecoveryStops
  <2>2. MayBar(p) /\ marker[p].entries # {}
    BY <1>1 DEF RecoveryStops, MayBar, torn
  <2>3. /\ Cut(c, away, Settled(p), Image(p)) \in Images
        /\ \A s \in Source : Cut(c, away, Settled(p), Image(p)).stored[s]
                              \in {NoCred, Settled(p).stored[s], Image(p).stored[s]}
    BY <1>0, CutTyped
  <2>4. /\ \A s \in Source : marker[p].stored[s] = Settled(p).stored[s]
        /\ marker[p].out = Settled(p).out
    BY <2>2 DEF Settled, torn
  <2> QED
    BY <1>0, <2>1, <2>2, <2>3, <2>4, FilesTouch
<1>2. CASE RolledBack(p)
  BY <1>0, <1>2, FilesTouch DEF RolledBack, MayBar
<1>3. CASE RewriteStops(p)
  <2>1. PICK c \in 1..(Meta + 1) : Files(p, Cut(c, FALSE, Captured(p), Settled(p)), NoMarker)
    BY <1>3 DEF RewriteStops
  <2>2. MayBar(p)
    BY <1>3 DEF RewriteStops, MayBar
  <2>3. /\ Cut(c, FALSE, Captured(p), Settled(p)) \in Images
        /\ \A s \in Source : Cut(c, FALSE, Captured(p), Settled(p)).stored[s]
                              \in {Captured(p).stored[s], Settled(p).stored[s]}
    BY <1>0, CutTyped
  <2>4. Cut(c, FALSE, Captured(p), Settled(p)).out =>
          Settled(p).out /\ \A s \in Source :
            Cut(c, FALSE, Captured(p), Settled(p)).stored[s] = Settled(p).stored[s]
    <3>1. CASE Meta < c
      <4>1. \A s \in Source : s < c
        BY <2>1, <3>1, SwitcherAssumption DEF Source, Meta
      <4> QED
        BY <3>1, <4>1 DEF Cut
    <3>2. CASE ~(Meta < c)
      BY <1>0, <3>2 DEF Cut
    <3> QED
      BY <3>1, <3>2
  <2> QED
    BY <1>0, <2>1, <2>2, <2>3, <2>4, FilesTouch
<1>4. CASE CommitStops(p) /\ MayBar(p)
  <2>1. PICK c \in 1..(Meta + 1), away \in BOOLEAN :
          Files(p, Cut(c, away, Settled(p), Captured(p)), MarkerOf(p))
    BY <1>4 DEF CommitStops
  <2>2. /\ Cut(c, away, Settled(p), Captured(p)) \in Images
        /\ \A s \in Source : Cut(c, away, Settled(p), Captured(p)).stored[s]
                              \in {NoCred, Settled(p).stored[s], Captured(p).stored[s]}
    BY <1>0, CutTyped
  <2> QED
    BY <1>0, <1>4, <2>1, <2>2, FilesTouch
<1>5. CASE Files(p, Captured(p), NoMarker) /\ UNCHANGED barred
  BY <1>0, <1>5, FilesTouch DEF MayBar
<1> QED
  BY <1>1, <1>2, <1>3, <1>4, <1>5

\* How a snapshot ends, for each kind of operation.
LEMMA SnapshotEnds ==
  ASSUME TypeOK, Operating, Storing, Snapshot
  PROVE  /\ op.kind \in {"switch", "new"} \/ op.kind \in {"capture", "import"}
         /\ pc = "snapshot" /\ UNCHANGED <<live, active, world, kills>> /\ faults' \in 0..MaxFaults
         /\ Destination \in Profile /\ Touches(Destination)
         /\ \/ Throw
            \/ /\ Files(Destination, Captured(Destination), NoMarker)
               /\ op.kind \in Restores => Goto("plan", {})
               /\ op.kind = "capture" => End("ok")
               /\ op.kind = "import" => Goto("activate", {})
<1>1. pc = "snapshot" /\ UNCHANGED <<live, active, world, kills>>
  BY DEF Snapshot
<1>2. op.kind \in {"switch", "new"} \/ op.kind \in {"capture", "import"}
  BY <1>1 DEF TypeOK, Operating, Kinds
<1>3. Destination \in Profile
  BY <1>1 DEF Destination, Operating, Storing, TypeOK
<1>4. CASE CaptureDone(Destination)
  <2>1. /\ Files(Destination, Captured(Destination), NoMarker) /\ UNCHANGED <<barred, faults>>
        /\ CASE op.kind \in Restores -> Goto("plan", {})
             [] op.kind = "capture"  -> End("ok")
             [] op.kind = "import"   -> Goto("activate", {})
    BY <1>4 DEF CaptureDone
  <2>2. Touches(Destination)
    BY <1>3, <2>1, CaptureTouches
  <2>3. CASE op.kind \in {"switch", "new"}
    BY <1>1, <1>3, <2>1, <2>2, <2>3 DEF Restores, TypeOK
  <2>4. CASE op.kind = "capture"
    BY <1>1, <1>3, <2>1, <2>2, <2>4 DEF Restores, TypeOK
  <2>5. CASE op.kind = "import"
    BY <1>1, <1>3, <2>1, <2>2, <2>5 DEF Restores, TypeOK
  <2> QED
    BY <1>2, <2>3, <2>4, <2>5
<1>5. CASE CaptureFails(Destination)
  <2>1. Throw
    BY <1>5 DEF CaptureFails
  <2>2. faults' \in 0..MaxFaults
    BY <1>5, SwitcherAssumption DEF CaptureFails, Fault, TypeOK
  <2>3. \/ UNCHANGED profiles \/ RecoveryStops(Destination) \/ RolledBack(Destination)
        \/ CommitStops(Destination) /\ MayBar(Destination)
    BY <1>5 DEF CaptureFails, profiles
  <2>4. Touches(Destination)
    BY <1>3, <2>3, CaptureTouches, Untouched
  <2> QED
    BY <1>1, <1>2, <1>3, <2>1, <2>2, <2>4
<1> QED
  BY <1>4, <1>5 DEF Snapshot

\* What a kill leaves of the profiles: one of them may be touched, the one of a running capture or the
\* new one that was being made or deleted.
LEMMA KillTouches ==
  ASSUME TypeOK, Operating, Storing, Kill
  PROVE  /\ End("killed") /\ kills' \in 0..MaxKills /\ faults' \in 0..MaxFaults
         /\ UNCHANGED <<live, active, world>> /\ ~Idle
         /\ \E p \in Profile :
              /\ Touches(p)
              /\ \/ UNCHANGED <<store, marker>>
                 \/ pc = "snapshot" /\ p = Destination
<1>1. /\ End("killed") /\ kills' \in 0..MaxKills /\ UNCHANGED <<live, active, world>> /\ ~Idle
  BY SwitcherAssumption DEF Kill, TypeOK
<1>2. op.to \in Profile
  BY <1>1 DEF Operating, Idle
<1>3. CASE UNCHANGED <<profiles, faults>>
  BY <1>1, <1>2, <1>3, Untouched DEF profiles, TypeOK
<1>4. CASE pc \in {"create", "drop"} /\ Bare(op.to) /\ UNCHANGED faults
  <2>1. marker[op.to].entries = {}
    BY <1>2, <1>4 DEF Operating, Storing
  <2>2. Touches(op.to) /\ UNCHANGED <<store, marker>>
    BY <1>2, <1>4, <2>1, BareTouches DEF Bare
  <2> QED
    BY <1>1, <1>2, <1>4, <2>2 DEF TypeOK
<1>5. CASE pc = "snapshot" /\ CaptureKilled(Destination)
  <2>1. Destination \in Profile
    BY <1>5 DEF Destination, Operating, Storing, TypeOK
  <2>2. PICK p \in Profile : p = Destination
    BY <2>1
  <2>3. CaptureKilled(p)
    BY <1>5, <2>2
  <2>4. faults' \in 0..MaxFaults
    BY <2>3, SwitcherAssumption DEF CaptureKilled, Fault, TypeOK
  <2>5. \/ RecoveryStops(p) \/ RolledBack(p) \/ RewriteStops(p)
        \/ p \notin exists /\ Bare(p)
        \/ CommitStops(p) /\ MayBar(p)
    <3> HIDE DEF RecoveryStops, RolledBack, RewriteStops, CommitStops, Bare
    <3> QED
      BY <2>3 DEF CaptureKilled, MayBar
  <2>6. ASSUME p \notin exists /\ Bare(p) PROVE Touches(p)
    <3>1. marker[p].entries = {}
      BY <2>6 DEF Storing
    <3> QED
      BY <2>6, <3>1, BareTouches
  <2>7. ASSUME \/ RecoveryStops(p) \/ RolledBack(p) \/ RewriteStops(p)
               \/ CommitStops(p) /\ MayBar(p)
        PROVE  Touches(p)
    BY <2>7, CaptureTouches
  <2>8. Touches(p)
    BY <2>5, <2>6, <2>7
  <2> QED
    BY <1>1, <1>5, <2>2, <2>4, <2>8
<1> QED
  BY <1>3, <1>4, <1>5 DEF Kill

-----------------------------------------------------------------------------
(* Types *)

\* A step of an operation keeps the types.
LEMMA OperateTyped ==
  ASSUME TypeOK, Operating, Storing, Operate
  PROVE  TypeOK'
<1> USE SwitcherAssumption, Typed DEF profiles, world, Fault
<1>1. CASE CreateProfile
  BY <1>1 DEF TypeOK, Operating, CreateProfile, Goto, Throw, ThrowAs, End, locals
<1>2. CASE DropNewProfile
  <2>1. /\ pc' = "idle" /\ op' = NoOp /\ plan' = NoPlan /\ todo' = {} /\ outcome' = outcome
        /\ UNCHANGED <<live, active, latest, given, kills>>
    BY <1>2 DEF DropNewProfile, End
  <2>2. CASE /\ exists' = exists \ {op.to} /\ loggedOut' = loggedOut \ {op.to}
             /\ store' = [store EXCEPT ![op.to] = NoCreds] /\ barred' = barred \ {op.to}
             /\ UNCHANGED <<marker, faults>>
    BY <2>1, <2>2 DEF TypeOK
  <2>3. CASE Fault /\ UNCHANGED profiles
    BY <2>1, <2>3 DEF TypeOK
  <2>4. CASE Fault /\ Bare(op.to)
    <3>1. op.to \in Profile
      BY <1>2 DEF DropNewProfile, Operating
    <3> QED
      BY <2>1, <2>4, <3>1 DEF TypeOK, Bare
  <2> QED
    BY <1>2, <2>2, <2>3, <2>4 DEF DropNewProfile
<1>3. CASE Decide
  <2>1. given' \in SUBSET (Account \X Source)
    BY <1>3 DEF Decide, Logins, TypeOK
  <2> QED
    BY <1>3, <2>1 DEF TypeOK, Decide, Goto, End, locals
<1>4. CASE Guard
  BY <1>4 DEF TypeOK, Operating, Guard, Goto, Throw, ThrowAs, End, locals
<1>5. CASE Snapshot
  <2>1. /\ UNCHANGED <<live, active, world, kills>> /\ faults' \in 0..MaxFaults
        /\ store' \in [Profile -> [Source -> Cred]]
        /\ marker' \in [Profile -> [entries : SUBSET Artifact, stored : [Source -> Cred], out : BOOLEAN]]
        /\ exists' \subseteq Profile /\ loggedOut' \subseteq exists' /\ barred' \subseteq exists'
    <3>1. Destination \in Profile /\ Touches(Destination)
      BY <1>5, SnapshotEnds
    <3> QED
      BY <1>5, <3>1, SnapshotEnds DEF Touches, TypeOK
  <2>2. Throw \/ Goto("plan", {}) \/ End("ok") \/ Goto("activate", {})
    BY <1>5, SnapshotEnds DEF Restores
  <2>3. pc = "snapshot"
    BY <1>5 DEF Snapshot
  <2> QED
    BY <2>1, <2>2, <2>3 DEF TypeOK, Throw, ThrowAs, Goto, End, locals
<1>6. CASE CollectPlan
  <2>1. CASE ReadPlan /\ op.to \in exists /\ UNCHANGED faults
    BY <1>6, <2>1 DEF TypeOK, CollectPlan, ReadPlan, Planned
  <2>2. CASE Throw
    BY <1>6, <2>2 DEF TypeOK, Operating, CollectPlan, Throw, ThrowAs, End, locals
  <2> QED
    BY <1>6, <2>1, <2>2 DEF CollectPlan
<1>7. CASE Apply
  <2>1. Min(todo) \in Source
    BY <1>7, FirstSource DEF Apply, Operating, TypeOK
  <2>2. [live EXCEPT ![Min(todo)] = plan[Min(todo)].stored] \in [Source -> Cred]
    BY <2>1 DEF TypeOK
  <2>3. ToUndo(Min(todo)) \in SUBSET Source
    BY DEF ToUndo, Planned
  <2>4. live' \in [Source -> Cred]
    BY <1>7, <2>2 DEF TypeOK, Apply
  <2>5. /\ pc' \in {"apply", "activate", "undo"} /\ todo' \subseteq Source
        /\ outcome' \in {outcome, "error"} /\ UNCHANGED <<op, plan>> /\ faults' \in 0..MaxFaults
    BY <1>7, <2>3 DEF TypeOK, Apply, Goto, locals
  <2> QED
    BY <1>7, <2>4, <2>5 DEF TypeOK, Apply
<1>8. CASE Undo
  <2>1. Max(todo) \in Source
    BY <1>8, LastSource DEF Undo, Operating, TypeOK
  <2>2. [live EXCEPT ![Max(todo)] = plan[Max(todo)].backup] \in [Source -> Cred]
    BY <2>1 DEF TypeOK
  <2>3. live' \in [Source -> Cred]
    BY <1>8, <2>2 DEF TypeOK, Undo
  <2> QED
    BY <1>8, <2>1, <2>3 DEF TypeOK, Operating, Undo, ThrowAs, End, locals
<1>9. CASE Activate
  BY <1>9 DEF TypeOK, Operating, Activate, Goto, Throw, ThrowAs, End, locals
<1>10. CASE Touch
  BY <1>10 DEF TypeOK, Operating, Touch, Throw, ThrowAs, End, locals
<1> QED
  BY <1>1, <1>2, <1>3, <1>4, <1>5, <1>6, <1>7, <1>8, <1>9, <1>10 DEF Operate

\* The CLI logs in or rotates a token.
LEMMA UsesCLITyped ==
  ASSUME TypeOK, UsesCLI
  PROVE  TypeOK'
<1> USE SwitcherAssumption, Typed DEF profiles
<1>1. ASSUME NEW a \in Account, NEW written \in SUBSET Source, LogIn(a, written)
      PROVE  TypeOK'
  <2>1. latest' \in [Account -> [Source -> 0..MaxGen]]
    BY <1>1 DEF TypeOK, LogIn
  <2>2. \A s \in written : latest'[a][s] \in 1..MaxGen
    BY <1>1 DEF TypeOK, LogIn
  <2>3. live' \in [Source -> Cred]
    BY <1>1, <2>2 DEF LogIn, Cred
  <2> QED
    BY <1>1, <2>1, <2>3 DEF TypeOK, LogIn
<1>2. ASSUME NEW s \in Source, Rotate(s)
      PROVE  TypeOK'
  <2>1. live[s].account \in Account /\ live[s].gen \in 1..MaxGen
    BY <1>2 DEF TypeOK, Rotate, LoggedIn
  <2>2. latest' \in [Account -> [Source -> 0..MaxGen]]
    BY <1>2, <2>1 DEF TypeOK, Rotate
  <2>3. live' = [live EXCEPT ![s] = [live[s] EXCEPT !.gen = live[s].gen + 1]]
    BY <1>2 DEF Rotate
  <2>4. [live[s] EXCEPT !.gen = live[s].gen + 1] \in Cred
    <3>1. live[s] \in [account : Account, gen : 1..MaxGen]
      BY <1>2 DEF TypeOK, Rotate, LoggedIn, Cred
    <3>2. live[s].gen + 1 \in 1..MaxGen
      BY <1>2, <2>1 DEF TypeOK, Rotate
    <3> QED
      BY <3>1, <3>2 DEF Cred
  <2>5. live' \in [Source -> Cred]
    BY <2>3, <2>4 DEF TypeOK
  <2> QED
    BY <1>2, <2>2, <2>5 DEF TypeOK, Rotate
<1> QED
  BY <1>1, <1>2 DEF UsesCLI

-----------------------------------------------------------------------------
(* What holds whatever fails, is killed or rotates *)

SwitcherInv == TypeOK /\ Operating /\ Storing /\ Tokens

\* An operation begins, for the user or for exec.
LEMMA EnterKeeps ==
  ASSUME SwitcherInv, NEW kind \in Kinds, NEW to \in Profile, NEW skip \in BOOLEAN, NEW label,
         Enter(kind, to, skip, label), given' \in SUBSET (Account \X Source),
         \/ kind \in {"switch", "return"} /\ label = "decide" /\ (kind = "return" => skip)
         \/ kind = "new" /\ label = "create" /\ to \notin exists
         \/ kind \in {"capture", "import"} /\ label = "snapshot"
  PROVE  SwitcherInv'
<1> USE DEF SwitcherInv
<1>1. /\ op' = [kind |-> kind, to |-> to, skip |-> skip] /\ pc' = label /\ Idle
      /\ UNCHANGED <<live, store, exists, loggedOut, marker, barred, active, plan, todo, outcome, latest,
                     faults, kills>>
  BY DEF Enter, profiles
<1>2. TypeOK'
  BY <1>1 DEF TypeOK
<1>3. Operating'
  BY <1>1 DEF Operating, Restores
<1>4. Storing'
  BY <1>1 DEF Storing, Held, Settled, torn, Image, Restores
<1>5. Tokens'
  BY <1>1, HeldKept DEF Tokens, Issued
<1> QED
  BY <1>2, <1>3, <1>4, <1>5

\* A step of an operation leads to a step that its arguments allow.
LEMMA OperateOperating ==
  ASSUME TypeOK, Operating, Storing, Operate
  PROVE  Operating'
<1> USE DEF Operating, Restores, NoOp
<1>1. CASE CreateProfile
  BY <1>1 DEF CreateProfile, Goto, Throw, ThrowAs, End, locals
<1>2. CASE DropNewProfile
  BY <1>2 DEF DropNewProfile, End
<1>3. CASE Decide
  BY <1>3 DEF Decide, Saves, Goto, End, locals
<1>4. CASE Guard
  BY <1>4 DEF Guard, Goto, Throw, ThrowAs, End, locals
<1>5. CASE Snapshot
  <2>1. pc = "snapshot" /\ UNCHANGED active
    BY <1>5 DEF Snapshot
  <2>2. CASE Throw
    BY <2>1, <2>2 DEF Throw, ThrowAs, End, locals
  <2>3. CASE Goto("plan", {}) /\ op.kind \in Restores
    BY <2>1, <2>3 DEF Goto, locals
  <2>4. CASE End("ok") \/ (Goto("activate", {}) /\ op.kind = "import")
    BY <2>1, <2>4 DEF Goto, End, locals
  <2>5. \/ Throw
        \/ Goto("plan", {}) /\ op.kind \in Restores
        \/ End("ok")
        \/ Goto("activate", {}) /\ op.kind = "import"
    BY <1>5, SnapshotEnds
  <2> QED
    BY <2>2, <2>3, <2>4, <2>5
<1>6. CASE CollectPlan
  <2>1. CASE ReadPlan
    BY <1>6, <2>1 DEF CollectPlan, ReadPlan
  <2>2. CASE Throw
    BY <1>6, <2>2 DEF CollectPlan, Throw, ThrowAs, End, locals
  <2> QED
    BY <1>6, <2>1, <2>2 DEF CollectPlan
<1>7. CASE Apply
  <2>1. Min(todo) \in Planned(plan)
    BY <1>7, FirstSource DEF Apply, TypeOK
  <2>2. ToUndo(Min(todo)) # {} /\ ToUndo(Min(todo)) \subseteq Planned(plan)
    BY <2>1, SwitcherAssumption DEF ToUndo, Planned, Source
  <2>3. CASE \/ Goto("activate", {})
             \/ Goto("apply", todo \ {Min(todo)}) /\ todo # {Min(todo)}
    BY <1>7, <2>1, <2>3 DEF Apply, Goto, locals
  <2>4. CASE pc' = "undo" /\ todo' = ToUndo(Min(todo)) /\ outcome' = "error" /\ UNCHANGED locals
    BY <1>7, <2>2, <2>4 DEF Apply, locals
  <2>5. \/ Goto("activate", {})
        \/ Goto("apply", todo \ {Min(todo)}) /\ todo # {Min(todo)}
        \/ pc' = "undo" /\ todo' = ToUndo(Min(todo)) /\ outcome' = "error" /\ UNCHANGED locals
    BY <1>7 DEF Apply
  <2> QED
    BY <2>3, <2>4, <2>5
<1>8. CASE Undo
  BY <1>8 DEF Undo, ThrowAs, End, locals
<1>9. CASE Activate
  BY <1>9 DEF Activate, Goto, Throw, ThrowAs, End, locals
<1>10. CASE Touch
  BY <1>10 DEF Touch, Throw, ThrowAs, End, locals
<1> QED
  BY <1>1, <1>2, <1>3, <1>4, <1>5, <1>6, <1>7, <1>8, <1>9, <1>10 DEF Operate

\* A touched profile still stores nothing when it does not exist or will be logged out.
LEMMA TouchesStoring ==
  ASSUME TypeOK, Storing, NEW q \in Profile, Touches(q)
  PROVE  /\ \A p \in Profile : p \notin exists' =>
              marker'[p].entries = {} /\ \A s \in Source : store'[p][s] = NoCred
         /\ \A p \in Profile : Settled(p)'.out => \A s \in Source : Held(p, s)' = NoCred
<1>1. \A p \in Profile : p # q =>
        Settled(p)'.out = Settled(p).out /\ \A s \in Source : Held(p, s)' = Held(p, s)
  BY DEF Touches, Held, Settled, torn, Image
<1>2. \A p \in Profile : p \notin exists' => p \notin exists /\ store'[p] = store[p] /\ marker'[p] = marker[p]
  BY DEF Touches
<1>3. Settled(q)'.out => Settled(q).out /\ \A s \in Source : Held(q, s)' = Held(q, s)
  BY DEF Touches
<1> QED
  BY <1>1, <1>2, <1>3 DEF Storing

\* It stores a login only in a profile that exists and is not logged out.
LEMMA OperateStoring ==
  ASSUME TypeOK, Operating, Storing, Operate
  PROVE  Storing'
<1> USE DEF Storing, Restores
<1>0. ASSUME UNCHANGED profiles
      PROVE  /\ \A p \in Profile : Settled(p)' = Settled(p) /\ \A s \in Source : Held(p, s)' = Held(p, s)
             /\ UNCHANGED <<store, exists, loggedOut, marker>>
  BY <1>0 DEF profiles, Held, Settled, torn, Image
<1>1. CASE CreateProfile
  <2>1. CASE Fault /\ Throw /\ UNCHANGED profiles
    BY <1>0, <1>1, <2>1 DEF CreateProfile, Throw, ThrowAs, End, locals, NoOp
  <2>2. CASE /\ exists' = exists \union {op.to} /\ loggedOut' = loggedOut \union {op.to}
             /\ Goto("decide", {}) /\ UNCHANGED <<store, marker, barred, faults>>
    <3>1. /\ \A p \in Profile, s \in Source : Held(p, s)' = Held(p, s)
          /\ \A p \in Profile : p # op.to => Settled(p)'.out = Settled(p).out
      BY <2>2 DEF Held, Settled, torn, Image
    <3>2. op.to \in Profile /\ op.to \notin exists /\ op.kind = "new" /\ pc = "create"
      BY <1>1 DEF CreateProfile, Operating
    <3>3. \A s \in Source : Held(op.to, s) = NoCred
      BY <3>2 DEF Held, Settled, torn, Image
    <3> QED
      BY <2>2, <3>1, <3>2, <3>3 DEF Goto, locals
  <2> QED
    BY <1>1, <2>1, <2>2 DEF CreateProfile
<1>2. CASE DropNewProfile
  <2>1. /\ op.to \in Profile /\ op.to \in loggedOut /\ marker[op.to].entries = {} /\ op' = NoOp /\ pc' = "idle"
    BY <1>2 DEF DropNewProfile, End, Operating
  <2>2. CASE Fault /\ UNCHANGED profiles
    BY <1>0, <2>1, <2>2 DEF NoOp
  <2>3. CASE Fault /\ Bare(op.to)
    <3>1. /\ \A p \in Profile, s \in Source : Held(p, s)' = Held(p, s)
          /\ \A p \in Profile : Settled(p)'.out => Settled(p).out
          /\ UNCHANGED <<store, marker>> /\ exists \subseteq exists'
      BY <2>3 DEF Bare, Held, Settled, torn, Image
    <3> QED
      BY <2>1, <3>1 DEF NoOp
  <2>4. CASE /\ exists' = exists \ {op.to} /\ loggedOut' = loggedOut \ {op.to}
             /\ store' = [store EXCEPT ![op.to] = NoCreds] /\ barred' = barred \ {op.to}
             /\ UNCHANGED <<marker, faults>>
    <3>1. PICK new \in Profile : new = op.to /\ marker[new].entries = {}
      BY <2>1
    <3>2. /\ store' = [store EXCEPT ![new] = NoCreds] /\ marker' = marker
          /\ exists' = exists \ {new} /\ loggedOut' = loggedOut \ {new}
      BY <2>4, <3>1
    <3>3. /\ store'[new] = NoCreds /\ \A s \in Source : NoCreds[s] = NoCred
          /\ \A p \in Profile \ {new} : store'[p] = store[p] /\ (p \in loggedOut' <=> p \in loggedOut)
      BY <3>2, Typed DEF TypeOK
    <3>4. Settled(new)'.stored = NoCreds
      BY <3>1, <3>2, <3>3 DEF Settled, torn, Image
    <3>5. \A p \in Profile \ {new} : Settled(p)' = Settled(p)
      BY <3>2, <3>3 DEF Settled, torn, Image
    <3>6. \A p \in Profile : p \notin exists' =>
            marker'[p].entries = {} /\ \A s \in Source : store'[p][s] = NoCred
      BY <3>1, <3>2, <3>3
    <3>7. ASSUME NEW p \in Profile, Settled(p)'.out, NEW s \in Source
          PROVE  Held(p, s)' = NoCred
      <4>1. CASE p = new
        BY <3>3, <3>4, <4>1 DEF Held
      <4>2. CASE p # new
        BY <3>5, <3>7, <4>2 DEF Held
      <4> QED
        BY <4>1, <4>2
    <3> QED
      BY <2>1, <3>6, <3>7 DEF NoOp
  <2> QED
    BY <1>2, <2>2, <2>3, <2>4 DEF DropNewProfile
<1>3. CASE Decide
  BY <1>0, <1>3 DEF Decide, Goto, End, locals, NoOp, Operating, Saves
<1>4. CASE Guard
  BY <1>0, <1>4 DEF Guard, Goto, Throw, ThrowAs, End, locals, NoOp
<1>5. CASE Snapshot
  <2>1. Destination \in Profile /\ Touches(Destination) /\ pc = "snapshot"
    BY <1>5, SnapshotEnds
  <2>2. /\ \A p \in Profile : p \notin exists' =>
             marker'[p].entries = {} /\ \A s \in Source : store'[p][s] = NoCred
        /\ \A p \in Profile : Settled(p)'.out => \A s \in Source : Held(p, s)' = NoCred
    BY <2>1, TouchesStoring
  <2>3. CASE op.kind \in {"switch", "new"}
    <3>1. op.to # Destination
      BY <2>1, <2>3 DEF Destination
    <3>2. pc' \in {"plan", "drop", "idle"} /\ (op' = op \/ (op' = NoOp /\ pc' = "idle"))
      BY <1>5, <2>1, <2>3, SnapshotEnds DEF Goto, Throw, ThrowAs, End, locals
    <3>3. op.to \in Profile
      BY <2>1 DEF Operating
    <3>4. op.kind = "new" => op.to \in loggedOut' /\ marker'[op.to].entries = {}
      BY <2>1, <3>1, <3>3 DEF Touches
    <3> QED
      BY <2>2, <2>3, <3>2, <3>4 DEF NoOp
  <2>4. CASE op.kind \in {"capture", "import"}
    <3>1. pc' \in {"idle", "activate"} /\ op' \in {op, NoOp}
      BY <1>5, <2>1, <2>4, SnapshotEnds DEF Goto, Throw, ThrowAs, End, locals
    <3> QED
      BY <2>2, <2>4, <3>1 DEF NoOp
  <2> QED
    BY <1>5, <2>3, <2>4, SnapshotEnds
<1>6. CASE CollectPlan
  BY <1>0, <1>6 DEF CollectPlan, ReadPlan, Throw, ThrowAs, End, locals, NoOp
<1>7. CASE Apply
  BY <1>0, <1>7 DEF Apply, Goto, locals
<1>8. CASE Undo
  BY <1>0, <1>8 DEF Undo, ThrowAs, End, locals, NoOp
<1>9. CASE Activate
  BY <1>0, <1>9 DEF Activate, Goto, Throw, ThrowAs, End, locals, NoOp
<1>10. CASE Touch
  BY <1>0, <1>10 DEF Touch, Throw, ThrowAs, End, locals, NoOp
<1> QED
  BY <1>1, <1>2, <1>3, <1>4, <1>5, <1>6, <1>7, <1>8, <1>9, <1>10 DEF Operate

\* No touched profile has newer tokens.
LEMMA TouchesTokens ==
  ASSUME TypeOK, Tokens, NEW q \in Profile, Touches(q), UNCHANGED latest
  PROVE  \A s \in Source, p \in Profile : Issued(store[p][s], s)' /\ Issued(Held(p, s), s)'
<1>1. \A s \in Source : Issued(NoCred, s)
  BY DEF Issued
<1>2. ASSUME NEW s \in Source
      PROVE  Issued(store'[q][s], s) /\ Issued(Held(q, s)', s)
  BY <1>1 DEF Touches, Tokens
<1>3. \A p \in Profile : p # q => store'[p] = store[p] /\ \A s \in Source : Held(p, s)' = Held(p, s)
  BY DEF Touches, Held, Settled, torn, Image
<1>4. \A s \in Source, p \in Profile : Issued(store'[p][s], s) /\ Issued(Held(p, s)', s)
  BY <1>2, <1>3 DEF Tokens
<1> QED
  BY <1>4 DEF Issued

\* A step moves credentials, it makes none.
LEMMA OperateTokens ==
  ASSUME TypeOK, Operating, Storing, Tokens, Operate
  PROVE  Tokens'
<1> USE HeldKept DEF Tokens, Issued
<1>0. /\ UNCHANGED latest
      /\ \A s \in Source : NoPlan[s].stored = NoCred /\ NoPlan[s].backup = NoCred
  BY DEF Operate, CreateProfile, DropNewProfile, Decide, Guard, Snapshot, CollectPlan, Apply, Undo,
         Activate, Touch, world, NoPlan
<1>1. CASE CreateProfile
  BY <1>0, <1>1 DEF CreateProfile, Goto, Throw, ThrowAs, End, locals, profiles
<1>2. CASE DropNewProfile
  <2>1. \A s \in Source, p \in Profile :
          store'[p][s] \in {store[p][s], NoCred} /\ Held(p, s)' \in {Held(p, s), NoCred}
    BY <1>2, Typed DEF DropNewProfile, profiles, Bare, TypeOK, Held, Settled, torn, Image
  <2>2. UNCHANGED live /\ plan' = NoPlan
    BY <1>2 DEF DropNewProfile, End
  <2> QED
    BY <1>0, <2>1, <2>2
<1>3. CASE Decide
  BY <1>0, <1>3 DEF Decide, Goto, End, locals, profiles
<1>4. CASE Guard
  BY <1>0, <1>4 DEF Guard, Goto, Throw, ThrowAs, End, locals, profiles
<1>5. CASE Snapshot
  <2>1. \A s \in Source, p \in Profile : Issued(store[p][s], s)' /\ Issued(Held(p, s), s)'
    BY <1>0, <1>5, SnapshotEnds, TouchesTokens
  <2>2. plan' \in {plan, NoPlan} /\ live' = live
    BY <1>5, SnapshotEnds DEF Restores, Goto, Throw, ThrowAs, End, locals
  <2> QED
    BY <1>0, <2>1, <2>2
<1>6. CASE CollectPlan
  <2>1. CASE ReadPlan /\ op.to \in exists
    <3>1. op.to \in Profile
      BY <2>1 DEF TypeOK
    <3>2. \A s \in Source : plan'[s].stored = store[op.to][s] /\ plan'[s].backup = live[s]
      BY <2>1 DEF ReadPlan
    <3> QED
      BY <1>0, <1>6, <3>1, <3>2 DEF CollectPlan, profiles
  <2>2. CASE Throw
    BY <1>0, <1>6, <2>2 DEF CollectPlan, Throw, ThrowAs, End, locals, profiles
  <2> QED
    BY <1>6, <2>1, <2>2 DEF CollectPlan
<1>7. CASE Apply
  <2>1. \A s \in Source : live'[s] \in {live[s], plan[s].stored}
    BY <1>7 DEF Apply, TypeOK
  <2>2. UNCHANGED <<plan, store, marker>>
    BY <1>7 DEF Apply, Goto, locals, profiles
  <2> QED
    BY <1>0, <2>1, <2>2
<1>8. CASE Undo
  <2>1. \A s \in Source : live'[s] \in {live[s], plan[s].backup}
    BY <1>8 DEF Undo, TypeOK
  <2>2. plan' \in {plan, NoPlan} /\ UNCHANGED <<store, marker>>
    BY <1>8 DEF Undo, ThrowAs, End, locals, profiles
  <2> QED
    BY <1>0, <2>1, <2>2
<1>9. CASE Activate
  BY <1>0, <1>9 DEF Activate, Goto, Throw, ThrowAs, End, locals, profiles
<1>10. CASE Touch
  BY <1>0, <1>10 DEF Touch, Throw, ThrowAs, End, locals, profiles
<1> QED
  BY <1>1, <1>2, <1>3, <1>4, <1>5, <1>6, <1>7, <1>8, <1>9, <1>10 DEF Operate

\* The last token of an account never gets older.
LEMMA UsesCLIKeeps ==
  ASSUME SwitcherInv, UsesCLI
  PROVE  SwitcherInv' /\ UNCHANGED <<store, exists, loggedOut, marker, barred, active, pc, op, plan, todo, outcome, given>>
<1> USE DEF SwitcherInv
<1>1. TypeOK'
  BY UsesCLITyped
<1>2. UNCHANGED <<store, exists, loggedOut, marker, barred, active, pc, op, plan, todo, outcome, given>>
  BY DEF UsesCLI, LogIn, Rotate, profiles
<1>3. Operating' /\ Storing'
  <2>1. /\ \A p \in Profile : Settled(p)'.out = Settled(p).out
        /\ \A p \in Profile, s \in Source : Held(p, s)' = Held(p, s)
    BY <1>2 DEF Held, Settled, torn, Image
  <2> QED
    BY <1>2, <2>1 DEF Operating, Storing, Planned
<1>4. \A a \in Account, s \in Source : latest[a][s] <= latest'[a][s]
  <2>1. ASSUME NEW b \in Account, NEW written \in SUBSET Source, LogIn(b, written),
               NEW a \in Account, NEW s \in Source
        PROVE  latest[a][s] <= latest'[a][s]
    <3>1. latest'[a][s] \in {latest[a][s], latest[a][s] + 1} /\ latest[a][s] \in Nat
      BY <2>1, SwitcherAssumption DEF LogIn, TypeOK
    <3> QED
      BY <3>1
  <2>2. ASSUME NEW t \in Source, Rotate(t), NEW a \in Account, NEW s \in Source
        PROVE  latest[a][s] <= latest'[a][s]
    <3>1. latest'[a][s] \in {latest[a][s], latest[a][s] + 1} /\ latest[a][s] \in Nat
      BY <2>2, SwitcherAssumption DEF Rotate, TypeOK
    <3> QED
      BY <3>1
  <2> QED
    BY <2>1, <2>2 DEF UsesCLI
<1>5. \A c \in Cred, s \in Source :
        Issued(c, s) /\ c # NoCred => c.gen <= latest'[c.account][s]
  BY <1>1, <1>4, Typed, SwitcherAssumption DEF Issued, TypeOK
<1>6. \A s \in Source : live'[s] # NoCred => live'[s].gen <= latest'[live'[s].account][s]
  <2>1. ASSUME NEW a \in Account, NEW written \in SUBSET Source, LogIn(a, written), NEW s \in Source
        PROVE  live'[s] # NoCred => live'[s].gen <= latest'[live'[s].account][s]
    BY <1>1, <2>1, SwitcherAssumption DEF LogIn, TypeOK
  <2>2. ASSUME NEW t \in Source, Rotate(t), NEW s \in Source
        PROVE  live'[s] # NoCred => live'[s].gen <= latest'[live'[s].account][s]
    <3>1. CASE s = t
      <4>1. /\ live[t] # NoCred /\ live[t].account \in Account
            /\ live'[t] = [live[t] EXCEPT !.gen = live[t].gen + 1]
            /\ live[t].gen = latest[live[t].account][t]
        BY <2>2, Typed DEF Rotate, TypeOK, LoggedIn
      <4>2. live'[t].account = live[t].account /\ live'[t].gen = live[t].gen + 1
        BY <4>1, Typed, SwitcherAssumption DEF Cred, NoCred, TypeOK
      <4>3. latest'[live[t].account][t] = latest[live[t].account][t] + 1
        BY <2>2, <4>1 DEF Rotate, TypeOK
      <4>4. live[t].gen + 1 <= live[t].gen + 1
        BY <4>1, SwitcherAssumption DEF TypeOK
      <4> QED
        BY <3>1, <4>1, <4>2, <4>3, <4>4
    <3>2. CASE s # t
      BY <1>5, <2>2, <3>2 DEF Rotate, TypeOK, Tokens
    <3> QED
      BY <3>1, <3>2
  <2> QED
    BY <2>1, <2>2 DEF UsesCLI
<1>7. Tokens'
  <2>1. \A p \in Profile, s \in Source : Held(p, s) \in Cred /\ Held(p, s)' = Held(p, s)
    BY <1>2, HeldKept, ImageTyped DEF Held, Images
  <2>2. ASSUME NEW s \in Source, NEW p \in Profile
        PROVE  Issued(store[p][s], s)' /\ Issued(Held(p, s), s)'
    <3>1. /\ store[p][s] \in Cred /\ Issued(store[p][s], s) /\ store'[p][s] = store[p][s]
          /\ Held(p, s) \in Cred /\ Issued(Held(p, s), s) /\ Held(p, s)' = Held(p, s)
      BY <1>2, <2>1 DEF Tokens, TypeOK
    <3> QED
      BY <1>5, <3>1 DEF Issued
  <2>3. ASSUME NEW s \in Source
        PROVE  Issued(live[s], s)' /\ Issued(plan[s].stored, s)' /\ Issued(plan[s].backup, s)'
    BY <1>2, <1>5, <1>6 DEF Tokens, Issued, TypeOK
  <2> QED
    BY <2>2, <2>3 DEF Tokens
<1> QED
  BY <1>1, <1>2, <1>3, <1>7

\* A step of an operation keeps the invariant.
LEMMA OperateKeeps ==
  ASSUME SwitcherInv, Operate
  PROVE  SwitcherInv'
BY OperateTyped, OperateOperating, OperateStoring, OperateTokens DEF SwitcherInv

\* mat is killed, or exec while no operation runs.
LEMMA EndKeeps ==
  ASSUME SwitcherInv, End("killed"), kills' \in 0..MaxKills, faults' \in 0..MaxFaults,
         UNCHANGED <<live, active, world>>, NEW p \in Profile, Touches(p)
  PROVE  SwitcherInv'
<1> USE DEF SwitcherInv
<1>1. /\ pc' = "idle" /\ todo' = {} /\ outcome' = "killed" /\ op' = NoOp /\ plan' = NoPlan
      /\ UNCHANGED <<live, active, latest, given>>
  BY DEF End, world
<1>2. TypeOK'
  BY <1>1, Typed, SwitcherAssumption DEF TypeOK, Touches
<1>3. Operating'
  BY <1>1 DEF Operating, NoOp
<1>4. Storing'
  BY <1>1, TouchesStoring DEF Storing, NoOp
<1>5. Tokens'
  <2>1. \A s \in Source, q \in Profile : Issued(store[q][s], s)' /\ Issued(Held(q, s), s)'
    BY <1>1, TouchesTokens
  <2>2. \A s \in Source : NoPlan[s].stored = NoCred /\ NoPlan[s].backup = NoCred
    BY DEF NoPlan
  <2>3. \A s \in Source : Issued(live[s], s)' /\ Issued(plan[s].stored, s)' /\ Issued(plan[s].backup, s)'
    BY <1>1, <2>2 DEF Issued, Tokens
  <2> QED
    BY <2>1, <2>3 DEF Tokens
<1> QED
  BY <1>2, <1>3, <1>4, <1>5

\* A step that is not of the switcher.
LEMMA Stutters ==
  ASSUME SwitcherInv, UNCHANGED vars
  PROVE  SwitcherInv' /\ UNCHANGED <<pc, op, outcome, active>>
<1> USE DEF SwitcherInv
<1>1. UNCHANGED <<live, store, exists, loggedOut, marker, barred, active, pc, op, plan, todo, outcome, latest,
                  given, faults, kills>>
  BY DEF vars, profiles, world
<1>2. /\ \A p \in Profile : Settled(p)' = Settled(p)
      /\ \A p \in Profile, s \in Source : Held(p, s)' = Held(p, s)
  BY <1>1 DEF Held, Settled, torn, Image
<1>3. TypeOK' /\ Operating'
  BY <1>1 DEF TypeOK, Operating, Planned
<1>4. Storing'
  BY <1>1, <1>2 DEF Storing
<1>5. Tokens'
  BY <1>1, <1>2 DEF Tokens, Issued
<1> QED
  BY <1>1, <1>3, <1>4, <1>5

-----------------------------------------------------------------------------
(* Exec *)

ExecInv == SwitcherInv /\ ExecTypeOK /\ Executing

\* The user or exec begins an operation with the arguments that EnterKeeps asks for.
LEMMA UserActsKeeps ==
  ASSUME SwitcherInv, UserActs
  PROVE  SwitcherInv' /\ pc' # "idle" /\ op'.kind # "return"
<1> USE EnterKeeps DEF Kinds
<1>0. given \in SUBSET (Account \X Source)
  BY DEF SwitcherInv, TypeOK
<1>1. ASSUME NEW p \in Profile, NEW skip \in BOOLEAN, SwitchProfile(p, skip)
      PROVE  SwitcherInv' /\ pc' # "idle" /\ op'.kind # "return"
  <2>1. Enter("switch", p, skip, "decide") /\ UNCHANGED given
    BY <1>1 DEF SwitchProfile
  <2> QED
    BY <1>0, <2>1 DEF Enter
<1>2. ASSUME NEW p \in Profile, NEW skip \in BOOLEAN, SwitchToNewLoggedOutProfile(p, skip)
      PROVE  SwitcherInv' /\ pc' # "idle" /\ op'.kind # "return"
  <2>1. Enter("new", p, skip, "create") /\ UNCHANGED given /\ p \notin exists
    BY <1>2 DEF SwitchToNewLoggedOutProfile
  <2> QED
    BY <1>0, <2>1 DEF Enter
<1>3. ASSUME NEW p \in Profile, SnapshotLiveToProfile(p)
      PROVE  SwitcherInv' /\ pc' # "idle" /\ op'.kind # "return"
  <2>1. Enter("capture", p, FALSE, "snapshot") /\ UNCHANGED given
    BY <1>3 DEF SnapshotLiveToProfile
  <2> QED
    BY <1>0, <2>1 DEF Enter
<1>4. ASSUME NEW p \in Profile, FirstImport(p)
      PROVE  SwitcherInv' /\ pc' # "idle" /\ op'.kind # "return"
  <2>1. Enter("import", p, FALSE, "snapshot") /\ UNCHANGED given
    BY <1>4 DEF FirstImport
  <2> QED
    BY <1>0, <2>1 DEF Enter
<1> QED
  BY <1>1, <1>2, <1>3, <1>4 DEF UserActs

\* What a step of an operation may change of what exec looks at.
LEMMA OperateForExec ==
  ASSUME SwitcherInv, Operate
  PROVE  /\ pc # "idle"
         /\ pc' = "idle" \/ UNCHANGED op
         /\ op.kind = "capture" => pc' = "idle" /\ UNCHANGED active
         /\ pc' = "idle" /\ outcome' \in {"ok", "same"} /\ op.kind \in Restores => active' = op.to
<1> USE DEF SwitcherInv, Operating, NoOp, Restores
<1>1. CASE CreateProfile
  BY <1>1 DEF CreateProfile, Goto, Throw, ThrowAs, End, locals
<1>2. CASE DropNewProfile
  BY <1>2 DEF DropNewProfile, End
<1>3. CASE Decide
  BY <1>3 DEF Decide, Saves, Goto, End, locals
<1>4. CASE Guard
  BY <1>4 DEF Guard, Goto, Throw, ThrowAs, End, locals
<1>5. CASE Snapshot
  <2>1. UNCHANGED active /\ pc = "snapshot"
    BY <1>5 DEF Snapshot
  <2>2. CASE Throw
    BY <2>1, <2>2 DEF Throw, ThrowAs, End, locals
  <2>3. CASE Goto("plan", {}) /\ op.kind \in {"switch", "new"}
    BY <2>1, <2>3 DEF Goto, locals
  <2>4. CASE End("ok") /\ op.kind = "capture"
    BY <2>1, <2>4 DEF End
  <2>5. CASE Goto("activate", {}) /\ op.kind = "import"
    BY <2>1, <2>5 DEF Goto, locals
  <2> QED
    BY <1>5, <2>2, <2>3, <2>4, <2>5, SnapshotEnds
<1>6. CASE CollectPlan
  <2>1. CASE ReadPlan
    BY <1>6, <2>1 DEF CollectPlan, ReadPlan
  <2>2. CASE Throw
    BY <1>6, <2>2 DEF CollectPlan, Throw, ThrowAs, End, locals
  <2> QED
    BY <1>6, <2>1, <2>2 DEF CollectPlan
<1>7. CASE Apply
  BY <1>7 DEF Apply, Goto, locals
<1>8. CASE Undo
  BY <1>8 DEF Undo, ThrowAs, End, locals
<1>9. CASE Activate
  BY <1>9 DEF Activate, Goto, Throw, ThrowAs, End, locals
<1>10. CASE Touch
  BY <1>10 DEF Touch, Throw, ThrowAs, End, locals
<1> QED
  BY <1>1, <1>2, <1>3, <1>4, <1>5, <1>6, <1>7, <1>8, <1>9, <1>10 DEF Operate

\* What a kill leaves, in an operation or between two.
LEMMA KillExecTouches ==
  ASSUME ExecInv, KillExec
  PROVE  /\ End("killed") /\ kills' \in 0..MaxKills /\ faults' \in 0..MaxFaults
         /\ UNCHANGED <<live, active, world>>
         /\ \E p \in Profile :
              /\ Touches(p)
              /\ \/ UNCHANGED <<store, marker>>
                 \/ pc = "snapshot" /\ p = Destination
<1>0. TypeOK /\ Operating /\ Storing
  BY DEF ExecInv, SwitcherInv
<1>1. CASE Kill
  BY <1>0, <1>1, KillTouches
<1>2. CASE /\ phase # "none" /\ Idle /\ kills < MaxKills
           /\ kills' = kills + 1 /\ End("killed")
           /\ UNCHANGED <<live, profiles, active, world, faults>>
  <2>1. exec.target \in Profile
    BY <1>2 DEF ExecInv, Executing
  <2>2. Touches(exec.target) /\ UNCHANGED <<store, marker>>
    BY <1>0, <1>2, <2>1, Untouched DEF profiles
  <2>3. kills' \in 0..MaxKills /\ faults' \in 0..MaxFaults
    BY <1>0, <1>2, SwitcherAssumption DEF TypeOK
  <2> QED
    BY <1>2, <2>1, <2>2, <2>3
<1> QED
  BY <1>1, <1>2 DEF KillExec

\* The inductive step: one case per action of exec.
LEMMA ExecInvStep ==
  ASSUME ExecInv, [ExecNext]_execVars
  PROVE  ExecInv'
<1> USE DEF ExecInv
<1>a. {adrift', outrun'} \subseteq BOOLEAN
  <2>1. adrift \in BOOLEAN /\ outrun \in BOOLEAN
    BY DEF ExecTypeOK
  <2>2. /\ adrift' = adrift \/ adrift' = (adrift \/ Separates)
        /\ outrun' = outrun \/ outrun' = (outrun \/ Outruns)
    BY DEF ExecNext, execVars
  <2>3. adrift' \in BOOLEAN
    BY <2>1, <2>2
  <2>4. outrun' \in BOOLEAN
    BY <2>1, <2>2
  <2> QED
    BY <2>3, <2>4
<1> USE <1>a
<1>0. TypeOK /\ Operating
  BY DEF SwitcherInv
<1>1. CASE phase = "none" /\ UserActs /\ UNCHANGED <<phase, exec>>
  <2>1. SwitcherInv' /\ pc' # "idle" /\ op'.kind # "return"
    BY <1>1, UserActsKeeps
  <2> QED
    BY <1>1, <2>1 DEF SwitcherInv, ExecTypeOK, Executing
<1>2. CASE Operate /\ UNCHANGED <<phase, exec>>
  <2>1. SwitcherInv'
    BY <1>2, OperateKeeps
  <2>2. ExecTypeOK'
    BY <1>0, <1>2, <2>1, OperateForExec DEF SwitcherInv, ExecTypeOK, Operating, NoOp
  <2>3. Executing'
    BY <1>0, <1>2, <2>1, OperateForExec DEF ExecTypeOK, Executing, Idle, Restores
  <2> QED
    BY <2>1, <2>2, <2>3
<1>3. CASE CLIRuns /\ UNCHANGED <<phase, exec>>
  <2>1. SwitcherInv' /\ UNCHANGED <<pc, op, outcome, active>>
    BY <1>3, UsesCLIKeeps DEF CLIRuns, UsesCLI
  <2> QED
    BY <1>3, <2>1 DEF SwitcherInv, ExecTypeOK, Executing, Idle
<1>4. ASSUME NEW target \in Profile, RunExec(target)
      PROVE  ExecInv'
  <2>1. /\ active \in Profile /\ pc = "idle" /\ phase = "none"
        /\ exec' = [target |-> target, previous |-> active] /\ exec' # NoExec
    BY <1>0, <1>4 DEF RunExec, TypeOK, Idle, NoExec
  <2>2. CASE target # active
    <3>1. Enter("switch", target, FALSE, "decide") /\ UNCHANGED given /\ phase' = "swap"
      BY <1>4, <2>2 DEF RunExec, SwitchProfile
    <3>2. SwitcherInv'
      BY <1>0, <3>1, EnterKeeps DEF TypeOK, Kinds
    <3>3. pc' = "decide" /\ op'.kind = "switch" /\ op'.to = target /\ active' = active
      BY <3>1 DEF Enter
    <3> QED
      BY <2>1, <3>1, <3>2, <3>3 DEF ExecTypeOK, Executing, SwitcherInv, Phases, Idle
  <2>3. CASE target = active
    <3>1. UNCHANGED vars /\ phase' = "child"
      BY <1>4, <2>3 DEF RunExec
    <3>2. SwitcherInv' /\ pc' = "idle" /\ op' = NoOp /\ active' = active
      BY <2>1, <3>1, Stutters DEF SwitcherInv, Operating
    <3> QED
      BY <2>1, <2>3, <3>1, <3>2 DEF ExecTypeOK, Executing, SwitcherInv, Phases, Idle, NoOp
  <2> QED
    BY <2>2, <2>3
<1>5. ASSUME UNCHANGED vars
      PROVE  SwitcherInv' /\ UNCHANGED <<pc, op, outcome, active>>
  BY <1>5, Stutters
<1>6. CASE Spawn
  BY <1>0, <1>5, <1>6 DEF Spawn, Leave, NoExec, ExecTypeOK, Executing, SwitcherInv, Phases, Idle, Operating, NoOp
<1>7. CASE ChildExits
  <2>1. CASE Swapped
    <3>1. /\ Enter("capture", exec.target, FALSE, "snapshot") /\ UNCHANGED given
          /\ phase = "child" /\ phase' = "recapture" /\ UNCHANGED exec
      BY <1>7, <2>1 DEF ChildExits
    <3>2. SwitcherInv'
      BY <1>0, <3>1, EnterKeeps DEF TypeOK, Kinds, Executing
    <3>3. /\ pc' = "snapshot" /\ op'.kind = "capture" /\ op'.to = exec.target /\ active' = active
      BY <3>1 DEF Enter
    <3> QED
      BY <3>1, <3>2, <3>3 DEF ExecTypeOK, Executing, SwitcherInv, Phases, Idle
  <2>2. CASE ~Swapped
    BY <1>0, <1>5, <1>7, <2>2 DEF ChildExits, Leave, NoExec, ExecTypeOK, Executing, SwitcherInv, Phases,
       Operating, NoOp
  <2> QED
    BY <2>1, <2>2
<1>8. CASE RestoreToActive
  <2>1. /\ Enter("return", exec.previous, TRUE, "decide")
        /\ phase = "recapture" /\ phase' = "return" /\ UNCHANGED exec
    BY <1>8 DEF RestoreToActive
  <2>2. given' \in SUBSET (Account \X Source)
    BY <1>0, <1>8, Typed DEF RestoreToActive, TypeOK, Logins
  <2>3. SwitcherInv'
    BY <2>1, <2>2, EnterKeeps DEF Kinds, Executing
  <2>4. pc' = "decide" /\ op'.kind = "return" /\ op'.to = exec.previous
    BY <2>1 DEF Enter
  <2> QED
    BY <2>1, <2>3, <2>4 DEF ExecTypeOK, Executing, SwitcherInv, Phases, Idle
<1>9. CASE Returns
  BY <1>0, <1>5, <1>9 DEF Returns, Leave, NoExec, ExecTypeOK, Executing, SwitcherInv, Phases, Idle, Operating, NoOp
<1>10. CASE KillExec
  <2>1. SwitcherInv' /\ pc' = "idle" /\ op' = NoOp
    BY <1>10, KillExecTouches, EndKeeps DEF End
  <2> QED
    BY <1>10, <2>1 DEF KillExec, Leave, NoExec, ExecTypeOK, Executing, SwitcherInv, Phases, NoOp
<1>11. CASE UNCHANGED execVars
  BY <1>5, <1>11 DEF execVars, ExecTypeOK, Executing, SwitcherInv, Idle
<1> QED
  BY <1>1, <1>2, <1>3, <1>4, <1>6, <1>7, <1>8, <1>9, <1>10, <1>11 DEF ExecNext, ExecActs

\* Nothing is live, stored or running at first.
LEMMA ExecInvInit ==
  ASSUME ExecInit
  PROVE  ExecInv
<1> USE SwitcherAssumption, Typed
<1>0. {adrift, outrun} \subseteq BOOLEAN
  BY Zenon DEF ExecInit
<1>1. TypeOK
  BY DEF ExecInit, Init, TypeOK
<1>2. \A p \in Profile :
        marker[p].entries = {} /\ \A s \in Source : Held(p, s) = NoCred /\ store[p][s] = NoCred
  <2>1. /\ \A p \in Profile : store[p] = NoCreds /\ marker[p].entries = {}
        /\ \A s \in Source : NoCreds[s] = NoCred
    BY DEF ExecInit, Init, NoMarker
  <2>2. \A p \in Profile : Settled(p).stored = store[p]
    BY <2>1 DEF Settled, torn, Image
  <2> QED
    BY <2>1, <2>2 DEF Held
<1>3. Operating /\ Storing
  BY <1>2 DEF ExecInit, Init, Operating, Storing, NoOp
<1>4. Tokens
  BY <1>2 DEF ExecInit, Init, Tokens, Issued, NoPlan
<1>5. ExecTypeOK /\ Executing
  BY <1>0, <1>1 DEF ExecInit, Init, ExecTypeOK, Executing, Phases, NoExec, NoOp
<1> QED
  BY <1>1, <1>3, <1>4, <1>5 DEF ExecInv, SwitcherInv

\* The invariant holds in every reachable state.
LEMMA ExecInvariance == ExecSpec => []ExecInv
BY ExecInvInit, ExecInvStep, PTL DEF ExecSpec

\* Every reachable state of the switcher and of exec is well typed, whatever fails, is killed or
\* rotates (switcher.ts, exec.ts).
THEOREM ExecTypeCorrect == ExecSpec => []ExecTypeOK
<1>1. ExecInv => ExecTypeOK
  BY DEF ExecInv
<1> QED
  BY <1>1, ExecInvariance, PTL

\* A profile that starts logged out stores no login, and the snapshot of a switch writes to a profile
\* that exists (createProfile, snapshotLiveToProfileUnlocked, switchProfileUnlocked).
THEOREM LoggedOutEmpty == ExecSpec => []LoggedOutIsEmpty
<1>1. ASSUME ExecInv, NEW p \in Profile, Settled(p).out
      PROVE  Settled(p).stored = NoCreds
  <2>1. Settled(p).stored \in [Source -> Cred] /\ \A s \in Source : Settled(p).stored[s] = NoCred
    BY <1>1, ImageTyped DEF ExecInv, SwitcherInv, Storing, Held, Images
  <2> QED
    BY <2>1 DEF NoCreds
<1>2. ExecInv => LoggedOutIsEmpty
  BY <1>1 DEF ExecInv, SwitcherInv, Storing, LoggedOutIsEmpty
<1> QED
  BY <1>2, ExecInvariance, PTL

-----------------------------------------------------------------------------
(* A restore is all or nothing *)

\* One step of the loop that writes the stored values.
LEMMA ApplyRestoring ==
  ASSUME TypeOK, Operating, Restoring, Apply
  PROVE  Restoring'
<1> DEFINE s == Min(todo)
<1> USE SwitcherAssumption
<1>1. /\ s \in todo /\ s \in Source /\ s \in Planned(plan) /\ todo \subseteq Planned(plan)
      /\ \A t \in todo : s <= t
  BY FirstSource DEF Apply, Operating, TypeOK
<1>2. /\ pc = "apply" /\ UNCHANGED <<op, plan>> /\ live' \in {live, [live EXCEPT ![s] = plan[s].stored]}
  BY DEF Apply, Goto, locals
<1>3. /\ \A t \in Source : t # s => live'[t] = live[t]
      /\ Planned(plan)' = Planned(plan) /\ Planned(plan) \subseteq Source
  BY <1>1, <1>2 DEF TypeOK, Planned
<1>4. \A t \in Source :
        IF t \in Planned(plan) \ todo THEN Renews(live[t], plan[t].stored) /\ \A u \in todo : t < u
                                      ELSE Renews(live[t], plan[t].backup)
  BY <1>2 DEF Restoring
<1>r. Renews(plan[s].stored, plan[s].stored)
  BY <1>1, RenewsSome DEF TypeOK
<1> HIDE DEF s
<1>5. CASE live' = [live EXCEPT ![s] = plan[s].stored] /\ todo = {s} /\ pc' = "activate"
  <2>1. \A t \in Source : Renews(live'[t], IF t \in Planned(plan) THEN plan[t].stored ELSE plan[t].backup)
    BY <1>1, <1>3, <1>4, <1>5, <1>r DEF TypeOK
  <2> QED
    BY <1>2, <1>3, <1>5, <2>1 DEF Restoring
<1>6. CASE live' = [live EXCEPT ![s] = plan[s].stored] /\ todo' = todo \ {s} /\ pc' = "apply"
  <2>1. Renews(live'[s], plan[s].stored) /\ \A u \in todo' : s < u
    BY <1>1, <1>6, <1>r DEF TypeOK, Source
  <2>2. ASSUME NEW t \in Source, t # s
        PROVE  IF t \in Planned(plan) \ todo' THEN Renews(live'[t], plan[t].stored) /\ \A u \in todo' : t < u
                                              ELSE Renews(live'[t], plan[t].backup)
    BY <1>1, <1>3, <1>4, <1>6, <2>2
  <2>3. \A t \in Source :
          IF t \in Planned(plan) \ todo' THEN Renews(live'[t], plan[t].stored) /\ \A u \in todo' : t < u
                                         ELSE Renews(live'[t], plan[t].backup)
    BY <1>1, <1>6, <2>1, <2>2
  <2> QED
    BY <1>2, <1>3, <1>6, <2>3 DEF Restoring
<1>7. CASE todo' = ToUndo(s) /\ pc' = "undo"
  <2>1. ASSUME NEW t \in Source \ ToUndo(s)
        PROVE  Renews(live'[t], plan[t].backup)
    <3>1. t # s
      BY <1>1, <2>1 DEF ToUndo, Source
    <3>2. ~(t \in Planned(plan) \ todo)
      BY <1>1, <1>4, <2>1 DEF ToUndo, Source
    <3> QED
      BY <1>3, <1>4, <3>1, <3>2
  <2> QED
    BY <1>2, <1>3, <1>7, <2>1 DEF Restoring
<1> QED
  BY <1>5, <1>6, <1>7 DEF Apply, Goto, s

\* One step of the loop that puts the backups back.
LEMMA UndoRestoring ==
  ASSUME TypeOK, Operating, Restoring, Undo
  PROVE  /\ Restoring'
         /\ pc' # "undo" /\ outcome' = "error" => \A s \in Source : Renews(live'[s], plan[s].backup)
<1> DEFINE s == Max(todo)
<1>1. s \in todo /\ s \in Source
  BY LastSource DEF Undo, Operating, TypeOK
<1>2. pc = "undo" /\ pc' \in {"undo", "idle", "drop"}
  BY DEF Undo, ThrowAs, End
<1>3. CASE outcome' = "error"
  <2>1. /\ live' = [live EXCEPT ![s] = plan[s].backup] /\ outcome = "error"
        /\ IF todo = {s} THEN pc' \in {"idle", "drop"} ELSE pc' = "undo" /\ todo' = todo \ {s} /\ plan' = plan
    BY <1>3 DEF Undo, ThrowAs, End, locals
  <2>2. live'[s] = plan[s].backup /\ Renews(plan[s].backup, plan[s].backup)
    BY <1>1, <2>1, RenewsSome DEF TypeOK
  <2>3. \A t \in Source \ todo : live'[t] = live[t] /\ Renews(live[t], plan[t].backup)
    BY <1>1, <1>2, <2>1 DEF Restoring, TypeOK
  <2>4. \A t \in Source : t \notin todo \/ t = s => Renews(live'[t], plan[t].backup)
    BY <2>2, <2>3
  <2> QED
    BY <1>2, <2>1, <2>4 DEF Restoring
<1>4. CASE outcome' # "error"
  BY <1>2, <1>4 DEF Restoring
<1> QED
  BY <1>3, <1>4

\* A step outside the two loops.
LEMMA OtherRestoring ==
  ASSUME TypeOK, Operating, Storing, Operate, ~Apply, ~Undo
  PROVE  Restoring'
<1>1. CASE CollectPlan
  <2>1. CASE ReadPlan
    <3>1. /\ \A s \in Source : plan'[s].backup = live'[s]
          /\ pc' = IF Planned(plan)' = {} THEN "activate" ELSE "apply"
          /\ todo' = Planned(plan)'
      BY <1>1, <2>1 DEF CollectPlan, ReadPlan, Planned
    <3>2. \A s \in Source : Renews(live'[s], plan'[s].backup)
      <4>1. \A s \in Source : live'[s] \in Cred
        BY <1>1 DEF CollectPlan, TypeOK
      <4> QED
        BY <3>1, <4>1, RenewsSome
    <3> QED
      BY <3>1, <3>2 DEF Restoring
  <2>2. CASE Throw
    BY <1>1, <2>2 DEF CollectPlan, Throw, ThrowAs, End, Restoring
  <2> QED
    BY <1>1, <2>1, <2>2 DEF CollectPlan
<1>2. CASE Snapshot
  <2>1. pc' \notin {"apply", "undo"} /\ (pc' = "activate" => op' = op /\ op.kind = "import")
    BY <1>2, SnapshotEnds DEF Snapshot, Goto, Throw, ThrowAs, End, locals, Restores
  <2> QED
    BY <2>1 DEF Restoring, Restores
<1>3. CASE CreateProfile \/ DropNewProfile \/ Decide \/ Guard \/ Activate \/ Touch
  <2>1. pc' \notin {"apply", "undo", "activate"}
    BY <1>3 DEF CreateProfile, DropNewProfile, Decide, Guard, Activate, Touch, Goto, Throw, ThrowAs, End
  <2> QED
    BY <2>1 DEF Restoring
<1> QED
  BY <1>1, <1>2, <1>3 DEF Operate

\* Every live token after a rotation is the one before or a later one of its account.
LEMMA RotateRenews ==
  ASSUME TypeOK, TypeOK', NEW t \in Source, Rotate(t)
  PROVE  \A s \in Source : Renews(live'[s], live[s])
<1>1. \A s \in Source : live[s] \in Cred
  BY DEF TypeOK
<1>2. ASSUME NEW s \in Source, s # t
      PROVE  Renews(live'[s], live[s])
  BY <1>1, <1>2, RenewsSome DEF Rotate, TypeOK
<1>3. Renews(live'[t], live[t])
  <2>1. live[t] \in [account : Account, gen : 1..MaxGen]
    BY DEF Rotate, LoggedIn, TypeOK, Cred
  <2>2. live'[t] = [live[t] EXCEPT !.gen = live[t].gen + 1]
    BY DEF Rotate, TypeOK
  <2>3. live'[t].account = live[t].account /\ live'[t].gen = live[t].gen + 1
    BY <2>1, <2>2
  <2> QED
    BY <2>1, <2>3, SwitcherAssumption DEF Renews
<1> QED
  BY <1>2, <1>3

\* The CLI renews tokens under a restore, or the user logs in while none runs.
LEMMA UsesCLIRestoring ==
  ASSUME SwitcherInv, Restoring, UsesCLI
  PROVE  Restoring'
<1> USE DEF SwitcherInv
<1>1. TypeOK' /\ UNCHANGED <<pc, op, plan, todo, outcome>>
  BY UsesCLIKeeps
<1>2. CASE pc = "idle"
  BY <1>1, <1>2 DEF Restoring
<1>3. ASSUME NEW t \in Source, Rotate(t)
      PROVE  Restoring'
  <2>1. /\ \A s \in Source : Renews(live'[s], live[s])
        /\ \A s \in Source : live[s] \in Cred /\ live'[s] \in Cred /\ plan[s].stored \in Cred /\ plan[s].backup \in Cred
    BY <1>1, <1>3, RotateRenews DEF TypeOK
  <2>2. \A s \in Source :
          /\ Renews(live[s], plan[s].stored) => Renews(live'[s], plan[s].stored)
          /\ Renews(live[s], plan[s].backup) => Renews(live'[s], plan[s].backup)
    BY <2>1, RenewsTransitive
  <2>3. Planned(plan)' = Planned(plan)
    BY <1>1 DEF Planned
  <2> QED
    BY <1>1, <2>2, <2>3 DEF Restoring
<1> QED
  BY <1>2, <1>3 DEF UsesCLI, LogIn, Idle

\* Only the steps of an operation, and rotations, write live sources while a restore runs.
LEMMA RestoringStep ==
  ASSUME ExecInv, Restoring, [ExecNext]_execVars
  PROVE  Restoring'
<1> USE DEF ExecInv, SwitcherInv
<1>1. CASE Operate
  BY <1>1, ApplyRestoring, UndoRestoring, OtherRestoring
<1>2. CASE pc' \in {"idle", "create", "decide", "snapshot"}
  BY <1>2 DEF Restoring
<1>3. CASE UNCHANGED <<live, op, plan, todo, outcome, pc>>
  BY <1>3 DEF Restoring, Planned
<1>4. CASE UserActs
  BY <1>2, <1>4 DEF UserActs, SwitchProfile, SwitchToNewLoggedOutProfile, SnapshotLiveToProfile,
     FirstImport, Enter
<1>5. CASE CLIRuns
  BY <1>2, <1>5, UsesCLIRestoring DEF CLIRuns, UsesCLI
<1>6. ASSUME NEW target \in Profile, RunExec(target)
      PROVE  Restoring'
  BY <1>2, <1>3, <1>6 DEF RunExec, SwitchProfile, Enter, vars
<1>7. CASE Spawn \/ Returns
  BY <1>3, <1>7 DEF Spawn, Returns, vars
<1>8. CASE ChildExits
  BY <1>2, <1>3, <1>8 DEF ChildExits, Enter, vars
<1>9. CASE RestoreToActive
  BY <1>2, <1>9 DEF RestoreToActive, Enter
<1>10. CASE KillExec
  BY <1>2, <1>10 DEF KillExec, Kill, End
<1>11. CASE UNCHANGED execVars
  BY <1>3, <1>11 DEF execVars, vars
<1> QED
  BY <1>1, <1>4, <1>5, <1>6, <1>7, <1>8, <1>9, <1>10, <1>11 DEF ExecNext, ExecActs

\* What RestoreAllOrNothing says of one step.
RestoredAll ==
  pc # "activate" /\ pc' = "activate" /\ op.kind \in Restores =>
    \A s \in Source : Renews(live'[s], IF s \in Planned(plan') THEN plan'[s].stored ELSE plan'[s].backup)
UndoneAll ==
  pc = "undo" /\ pc' # "undo" /\ outcome' = "error" => \A s \in Source : Renews(live'[s], plan[s].backup)

LEMMA RestoreStep ==
  ASSUME ExecInv, Restoring, ExecInv', Restoring', [ExecNext]_execVars
  PROVE  [RestoredAll /\ UndoneAll]_vars
<1>1. ASSUME pc # "activate", pc' = "activate", op.kind \in Restores, ~ UNCHANGED vars
      PROVE  \A s \in Source :
               Renews(live'[s], IF s \in Planned(plan') THEN plan'[s].stored ELSE plan'[s].backup)
  <2>1. pc # "idle" /\ (op' = op \/ op' = NoOp)
    <3>1. pc # "idle"
      BY <1>1 DEF ExecInv, SwitcherInv, Operating, NoOp, Restores
    <3>2. CASE Operate
      BY <1>1, <3>2, OperateForExec DEF ExecInv
    <3> QED
      BY <1>1, <3>1, <3>2 DEF ExecNext, ExecActs, UserActs, SwitchProfile, SwitchToNewLoggedOutProfile,
         SnapshotLiveToProfile, FirstImport, Enter, Idle, CLIRuns, UsesCLI, LogIn, Rotate, RunExec, Spawn,
         ChildExits, RestoreToActive, Returns, KillExec, Kill, End, execVars, ExecInv, ExecTypeOK
  <2>2. op' = op
    BY <1>1, <2>1 DEF ExecInv, SwitcherInv, Operating, NoOp
  <2> QED
    BY <1>1, <2>2 DEF Restoring, Planned
<1>2. ASSUME pc = "undo", pc' # "undo", outcome' = "error"
      PROVE  \A s \in Source : Renews(live'[s], plan[s].backup)
  <2>1. Operate \/ KillExec
    BY <1>2 DEF ExecNext, ExecActs, UserActs, SwitchProfile, SwitchToNewLoggedOutProfile,
       SnapshotLiveToProfile, FirstImport, Enter, Idle, CLIRuns, UsesCLI, LogIn, Rotate, RunExec, Spawn,
       ChildExits, RestoreToActive, Returns, execVars, vars, ExecInv, ExecTypeOK
  <2>2. ~KillExec
    BY <1>2, KillExecTouches DEF End
  <2>3. Undo
    BY <1>2, <2>1, <2>2 DEF Operate, CreateProfile, DropNewProfile, Decide, Guard, Snapshot, CollectPlan,
       Apply, Activate, Touch
  <2> QED
    BY <1>2, <2>3, UndoRestoring DEF ExecInv, SwitcherInv
<1>3. RestoredAll \/ UNCHANGED vars
  BY <1>1 DEF RestoredAll
<1>4. UndoneAll
  BY <1>2 DEF UndoneAll
<1> QED
  BY <1>3, <1>4

\* A restore that reaches the active pointer has every planned source in place, and one that fails
\* cleanly has put every source back; in both, the CLI may have renewed a token meanwhile
\* (applyRestorePlan).
THEOREM RestoresWhole == ExecSpec => RestoreAllOrNothing
<1>1. ExecInit => Restoring
  BY DEF ExecInit, Init, Restoring
<1>2. ExecInv /\ Restoring /\ [ExecNext]_execVars => Restoring'
  BY RestoringStep
<1>3. ExecInv /\ Restoring /\ ExecInv' /\ Restoring' /\ [ExecNext]_execVars =>
        [/\ pc # "activate" /\ pc' = "activate" /\ op.kind \in Restores =>
              \A s \in Source :
                Renews(live'[s], IF s \in Planned(plan') THEN plan'[s].stored ELSE plan'[s].backup)
         /\ pc = "undo" /\ pc' # "undo" /\ outcome' = "error" =>
              \A s \in Source : Renews(live'[s], plan[s].backup)]_vars
  BY RestoreStep DEF RestoredAll, UndoneAll
<1> QED
  BY <1>1, <1>2, <1>3, ExecInvariance, PTL DEF ExecSpec, RestoreAllOrNothing

-----------------------------------------------------------------------------
(* The live credentials belong to the active profile *)

\* What a profile holds, and has, is a credential for each source.
LEMMA CredTyped ==
  ASSUME TypeOK
  PROVE  /\ \A s \in Source : live[s] \in Cred /\ plan[s].stored \in Cred /\ plan[s].backup \in Cred
         /\ \A p \in Profile, s \in Source : store[p][s] \in Cred /\ Held(p, s) \in Cred
<1>1. \A p \in Profile, s \in Source : Held(p, s) \in Cred
  BY ImageTyped DEF Held, Images
<1> QED
  BY <1>1 DEF TypeOK

\* A profile that does not exist holds nothing.
LEMMA AbsentEmpty ==
  ASSUME Storing, NEW p \in Profile, p \notin exists, NEW s \in Source
  PROVE  store[p][s] = NoCred /\ Held(p, s) = NoCred
<1>1. marker[p].entries = {} /\ store[p][s] = NoCred
  BY DEF Storing
<1> QED
  BY <1>1 DEF Held, Settled, torn, Image

\* A step that at most empties profiles.
LEMMA FitsKept ==
  ASSUME UNCHANGED active,
         \A p \in Profile, s \in Source :
           store'[p][s] \in {NoCred, store[p][s]} /\ Held(p, s)' \in {NoCred, Held(p, s)}
  PROVE  /\ Agreeing => Agreeing'
         /\ Fits(live) /\ UNCHANGED live => Fits(live)'
         /\ Fits(Backup) /\ UNCHANGED plan => Fits(Backup)'
<1>1. Agreeing => Agreeing'
  BY DEF Agreeing
<1>2. Fits(live) /\ UNCHANGED live => Fits(live)'
  BY DEF Fits
<1>3. Fits(Backup) /\ UNCHANGED plan => Fits(Backup)'
  BY DEF Fits, Backup
<1> QED
  BY <1>1, <1>2, <1>3

\* One that does not write the files of profiles.
LEMMA FilesKept ==
  ASSUME UNCHANGED <<store, marker>>
  PROVE  \A p \in Profile, s \in Source :
           store'[p][s] \in {NoCred, store[p][s]} /\ Held(p, s)' \in {NoCred, Held(p, s)}
BY HeldKept

\* A capture into the active profile, or into one that holds nothing.
LEMMA TouchFits ==
  ASSUME TypeOK, Agreeing, Fits(live), UNCHANGED <<live, active>>, NEW q \in Profile, Touches(q),
         q = active \/ \A s \in Source : store[q][s] = NoCred /\ Held(q, s) = NoCred
  PROVE  /\ Agreeing' /\ Fits(live)'
         /\ \A s \in Source : store'[q][s] # NoCred => Renews(live[s], store'[q][s])
<1>1. \A p \in Profile : p # q => store'[p] = store[p] /\ \A s \in Source : Held(p, s)' = Held(p, s)
  BY DEF Touches, Held, Settled, torn, Image
<1>2. ASSUME NEW s \in Source
      PROVE  /\ store[q][s] # NoCred => Renews(live[s], store[q][s])
             /\ Held(q, s) # NoCred => Renews(live[s], Held(q, s))
             /\ store[q][s] # NoCred /\ Held(q, s) # NoCred => Renews(store[q][s], Held(q, s))
             /\ Renews(live[s], live[s]) /\ Renews(store[q][s], store[q][s]) /\ Renews(Held(q, s), Held(q, s))
  <2>1. live[s] \in Cred /\ store[q][s] \in Cred /\ Held(q, s) \in Cred
    BY CredTyped
  <2> QED
    BY <2>1, RenewsSome DEF Fits, Agreeing
<1>3. ASSUME NEW s \in Source
      PROVE  /\ store'[q][s] # NoCred => Renews(live[s], store'[q][s])
             /\ Held(q, s)' # NoCred => Renews(live[s], Held(q, s)')
             /\ store'[q][s] # NoCred /\ Held(q, s)' # NoCred => Renews(store'[q][s], Held(q, s)')
  <2>1. /\ store'[q][s] \in {NoCred, store[q][s], Held(q, s), live[s]}
        /\ Held(q, s)' \in {Held(q, s), live[s]}
        /\ Held(q, s)' # Held(q, s) => store'[q][s] = Held(q, s)'
    BY DEF Touches
  <2> QED
    BY <1>2, <2>1
<1>4. Agreeing'
  <2>1. ASSUME NEW p \in Profile, NEW s \in Source
        PROVE  store'[p][s] # NoCred /\ Held(p, s)' # NoCred => Renews(store'[p][s], Held(p, s)')
    BY <1>1, <1>3 DEF Agreeing
  <2> QED
    BY <2>1 DEF Agreeing
<1>5. Fits(live)'
  <2>1. ASSUME active \in Profile, NEW s \in Source
        PROVE  /\ store'[active][s] # NoCred => Renews(live[s], store'[active][s])
               /\ Held(active, s)' # NoCred => Renews(live[s], Held(active, s)')
    <3>1. CASE active = q
      BY <1>3, <3>1
    <3>2. CASE active # q
      BY <1>1, <2>1, <3>2 DEF Fits
    <3> QED
      BY <3>1, <3>2
  <2> QED
    BY <2>1 DEF Fits
<1> QED
  BY <1>3, <1>4, <1>5

\* The target of a restore that is in place is what the pointer may move to.
LEMMA RestoredFits ==
  ASSUME TypeOK, Restoring, Belonging, pc = "activate", op.kind \in Restores, op.to \in Profile, NEW s \in Source
  PROVE  /\ store[op.to][s] # NoCred => Renews(live[s], store[op.to][s])
         /\ Held(op.to, s) # NoCred => Renews(live[s], Held(op.to, s))
<1>1. plan[s].stored = store[op.to][s] /\ (Held(op.to, s) # NoCred => store[op.to][s] # NoCred)
  BY DEF Belonging, Replacing
<1>2. store[op.to][s] # NoCred => Renews(live[s], store[op.to][s])
  BY <1>1 DEF Restoring, Planned
<1>3. store[op.to][s] # NoCred /\ Held(op.to, s) # NoCred => Renews(store[op.to][s], Held(op.to, s))
  BY DEF Belonging, Agreeing
<1>4. live[s] \in Cred /\ store[op.to][s] \in Cred /\ Held(op.to, s) \in Cred
  BY CredTyped
<1> QED
  BY <1>1, <1>2, <1>3, <1>4, RenewsTransitive

\* The profile a capture goes to is the active one, or holds nothing.
LEMMA DestinationFits ==
  ASSUME SwitcherInv, Belonging, pc = "snapshot"
  PROVE  /\ Destination \in Profile
         /\ Destination = active \/ \A s \in Source : store[Destination][s] = NoCred /\ Held(Destination, s) = NoCred
         /\ Fits(live) /\ Agreeing
<1> USE DEF SwitcherInv
<1>1. Fits(live) /\ Agreeing
  BY DEF Belonging, Replacing
<1>2. Destination \in Profile
  BY DEF Destination, Operating, Storing, TypeOK
<1>3. Destination = active \/ Destination \notin exists
  BY DEF Destination, Operating, Belonging, Restores, Kinds, TypeOK
<1> QED
  BY <1>1, <1>2, <1>3, AbsentEmpty

\* A snapshot leaves the live credentials with the profile they belong to.
LEMMA SnapshotBelonging ==
  ASSUME SwitcherInv, Belonging, Snapshot
  PROVE  Belonging'
<1> USE DEF SwitcherInv
<1>1. pc = "snapshot" /\ UNCHANGED <<live, active>>
  BY DEF Snapshot
<1>2. PICK q \in Profile : q = Destination
  BY <1>1, DestinationFits
<1>3. Touches(q)
  BY <1>2, SnapshotEnds
<1>4. /\ Agreeing' /\ Fits(live)'
      /\ \A s \in Source : store'[q][s] # NoCred => Renews(live[s], store'[q][s])
  BY <1>1, <1>2, <1>3, DestinationFits, TouchFits
<1>5. CASE Throw
  <2>1. pc' \in {"idle", "drop"}
    BY <1>1, <1>5 DEF Throw, ThrowAs, End
  <2> QED
    BY <1>4, <2>1 DEF Belonging, Replacing
<1>6. CASE /\ Files(Destination, Captured(Destination), NoMarker)
           /\ op.kind \in Restores => Goto("plan", {})
           /\ op.kind = "capture" => End("ok")
           /\ op.kind = "import" => Goto("activate", {})
  <2>1. CASE op.kind \in {"switch", "new"}
    <3>1. pc' = "plan"
      BY <1>6, <2>1 DEF Goto, Restores
    <3> QED
      BY <1>4, <3>1 DEF Belonging, Replacing
  <2>2. CASE op.kind = "capture"
    <3>1. pc' = "idle"
      BY <1>6, <2>2 DEF End
    <3> QED
      BY <1>4, <3>1 DEF Belonging, Replacing
  <2>3. CASE op.kind = "import"
    <3>1. pc' = "activate" /\ op' = op /\ q = op.to
      BY <1>2, <1>6, <2>3 DEF Goto, locals, Destination, Restores
    <3>2. Captured(q) \in Images /\ NoMarker.entries = {}
          /\ NoMarker \in [entries : SUBSET Artifact, stored : [Source -> Cred], out : BOOLEAN]
      BY ImageTyped, Typed DEF NoMarker
    <3>3. Files(q, Captured(q), NoMarker)
      BY <1>2, <1>6
    <3>4. \A s \in Source : Held(q, s)' = store'[q][s]
      BY <3>2, <3>3, FilesEffect
    <3>5. ~Replacing' /\ pc' # "snapshot"
      BY <2>3, <3>1 DEF Replacing, Restores
    <3> QED
      BY <1>1, <1>4, <3>1, <3>4, <3>5 DEF Belonging
  <2> QED
    BY <2>1, <2>2, <2>3, SnapshotEnds
<1> QED
  BY <1>5, <1>6, SnapshotEnds

\* A step of an operation.
LEMMA OperateBelonging ==
  ASSUME SwitcherInv, Restoring, Belonging, Operate, ~Separates
  PROVE  Belonging'
<1> USE DEF SwitcherInv
<1>0. ASSUME UNCHANGED <<store, marker, active>>
      PROVE  /\ Agreeing' /\ (Fits(live) /\ UNCHANGED live => Fits(live)')
             /\ (Fits(Backup) /\ UNCHANGED plan => Fits(Backup)')
             /\ \A p \in Profile, s \in Source : Held(p, s)' = Held(p, s)
  BY <1>0, FilesKept, FitsKept, HeldKept DEF Belonging
<1>1. CASE CreateProfile
  <2>1. pc = "create" /\ pc' \in {"idle", "decide"} /\ UNCHANGED <<live, active, store, marker>>
    BY <1>1 DEF CreateProfile, Goto, Throw, ThrowAs, End, profiles
  <2>2. Agreeing' /\ Fits(live)'
    BY <1>0, <2>1 DEF Belonging, Replacing
  <2> QED
    BY <2>1, <2>2 DEF Belonging, Replacing
<1>2. CASE DropNewProfile
  <2>1. pc = "drop" /\ pc' = "idle" /\ UNCHANGED <<live, active>>
    BY <1>2 DEF DropNewProfile, End
  <2>2. CASE UNCHANGED <<store, marker>>
    <3>1. Agreeing' /\ Fits(live)'
      BY <1>0, <2>1, <2>2 DEF Belonging, Replacing
    <3> QED
      BY <2>1, <3>1 DEF Belonging, Replacing
  <2>3. CASE store' = [store EXCEPT ![op.to] = NoCreds] /\ loggedOut' = loggedOut \ {op.to} /\ UNCHANGED marker
    <3>1. PICK new \in Profile : new = op.to /\ marker[new].entries = {}
      BY <2>1 DEF Operating, Storing
    <3>2. store' = [store EXCEPT ![new] = NoCreds]
      BY <2>3, <3>1
    <3>3. /\ store'[new] = NoCreds /\ \A s \in Source : NoCreds[s] = NoCred
          /\ \A p \in Profile \ {new} : store'[p] = store[p]
      BY <3>2, Typed DEF TypeOK
    <3>4. Settled(new)'.stored = NoCreds
      BY <2>3, <3>1, <3>3 DEF Settled, torn, Image
    <3>5. \A p \in Profile \ {new} : Settled(p)'.stored = Settled(p).stored
      BY <2>3, <3>3 DEF Settled, torn, Image
    <3>6. \A p \in Profile, s \in Source :
            store'[p][s] \in {NoCred, store[p][s]} /\ Held(p, s)' \in {NoCred, Held(p, s)}
      BY <3>3, <3>4, <3>5 DEF Held
    <3>7. Agreeing' /\ Fits(live)'
      BY <2>1, <3>6, FitsKept DEF Belonging, Replacing
    <3> QED
      BY <2>1, <3>7 DEF Belonging, Replacing
  <2> QED
    BY <1>2, <2>2, <2>3 DEF DropNewProfile, Bare, profiles
<1>3. CASE Decide \/ Guard
  <2>1. /\ pc \in {"decide", "guard"} /\ pc' \in {"idle", "snapshot", "guard", "plan", "drop"}
        /\ UNCHANGED <<live, active, store, marker>>
    BY <1>3 DEF Decide, Guard, Goto, Throw, ThrowAs, End, profiles
  <2>2. Agreeing' /\ Fits(live)'
    BY <1>0, <2>1 DEF Belonging, Replacing
  <2>3. pc' = "snapshot" => op' = op /\ op.kind \in Restores
    BY <1>3, <2>1 DEF Decide, Guard, Goto, Throw, ThrowAs, End, locals, Operating
  <2> QED
    BY <2>1, <2>2, <2>3 DEF Belonging, Replacing, Restores
<1>4. CASE Snapshot
  BY <1>4, SnapshotBelonging
<1>5. CASE CollectPlan
  <2>1. /\ pc = "plan" /\ UNCHANGED <<live, active, store, marker>> /\ Fits(live) /\ op.kind \in Restores
    BY <1>5 DEF CollectPlan, profiles, Belonging, Replacing, Operating
  <2>2. CASE ReadPlan
    <3>1. /\ pc' \in {"activate", "apply"} /\ op' = op
          /\ \A s \in Source : plan'[s].backup = live[s] /\ plan'[s].stored = store[op.to][s]
      BY <2>2 DEF ReadPlan
    <3>2. Agreeing' /\ \A p \in Profile, s \in Source : Held(p, s)' = Held(p, s)
      BY <1>0, <2>1
    <3>3. Fits(Backup)'
      BY <2>1, <3>1, <3>2 DEF Fits, Backup
    <3>4. op.to \in Profile
      BY <2>1 DEF Operating
    <3>5. \A s \in Source : Held(op.to, s) # NoCred => store[op.to][s] # NoCred
      BY <2>1, <3>1 DEF Separates, MissesArtifact, Held
    <3>6. Replacing' /\ op'.kind \in Restores
      BY <2>1, <3>1 DEF Replacing
    <3> QED
      BY <2>1, <3>1, <3>2, <3>3, <3>4, <3>5, <3>6 DEF Belonging, Restores
  <2>3. CASE Throw
    <3>1. pc' \in {"idle", "drop"}
      BY <2>1, <2>3 DEF Throw, ThrowAs, End
    <3>2. Agreeing' /\ Fits(live)'
      BY <1>0, <2>1
    <3> QED
      BY <3>1, <3>2 DEF Belonging, Replacing
  <2> QED
    BY <1>5, <2>2, <2>3 DEF CollectPlan
<1>6. CASE Apply
  <2>1. /\ pc = "apply" /\ pc' \in {"apply", "undo", "activate"} /\ op.kind \in Restores /\ op.to \in Profile
        /\ UNCHANGED <<op, plan, active, store, marker>>
    BY <1>6 DEF Apply, Goto, locals, profiles, Operating
  <2>2. Agreeing' /\ Fits(Backup)' /\ \A p \in Profile, s \in Source : Held(p, s)' = Held(p, s)
    BY <1>0, <2>1 DEF Belonging, Replacing
  <2>3. Replacing /\ Replacing'
    BY <2>1 DEF Replacing
  <2> QED
    BY <2>1, <2>2, <2>3 DEF Belonging, Restores
<1>7. CASE Undo
  <2>1. /\ pc = "undo" /\ pc' \in {"undo", "idle", "drop"} /\ (pc' = "undo" => UNCHANGED <<op, plan>>)
        /\ UNCHANGED <<active, store, marker>> /\ Fits(Backup) /\ op.to \in Profile
    BY <1>7 DEF Undo, ThrowAs, End, locals, profiles, Belonging, Replacing, Operating
  <2>2. Agreeing' /\ \A p \in Profile, s \in Source : Held(p, s)' = Held(p, s)
    BY <1>0, <2>1
  <2>3. CASE pc' = "undo"
    <3>1. Fits(Backup)' /\ Replacing /\ Replacing'
      BY <1>0, <2>1, <2>3 DEF Replacing
    <3> QED
      BY <2>1, <2>2, <2>3, <3>1 DEF Belonging
  <2>4. CASE pc' # "undo"
    <3>1. \A s \in Source : Renews(live'[s], plan[s].backup)
      BY <1>7, <2>1, <2>4, UndoRestoring DEF Separates
    <3>2. TypeOK'
      BY <1>7, OperateTyped
    <3>3. ASSUME active \in Profile, NEW s \in Source
          PROVE  /\ store[active][s] # NoCred => Renews(live'[s], store[active][s])
                 /\ Held(active, s) # NoCred => Renews(live'[s], Held(active, s))
      <4>1. /\ live'[s] \in Cred /\ plan[s].backup \in Cred /\ store[active][s] \in Cred /\ Held(active, s) \in Cred
        BY <3>2, <3>3, CredTyped DEF TypeOK
      <4>2. /\ store[active][s] # NoCred => Renews(plan[s].backup, store[active][s])
            /\ Held(active, s) # NoCred => Renews(plan[s].backup, Held(active, s))
        BY <2>1, <3>3 DEF Fits, Backup
      <4> QED
        BY <3>1, <4>1, <4>2, RenewsTransitive
    <3>4. Fits(live)'
      BY <2>1, <2>2, <3>3 DEF Fits
    <3> QED
      BY <2>1, <2>2, <2>4, <3>4 DEF Belonging, Replacing
  <2> QED
    BY <2>3, <2>4
<1>8. CASE Activate
  <2>1. /\ pc = "activate" /\ pc' \in {"touch", "idle", "drop"} /\ active' \in {active, op.to}
        /\ UNCHANGED <<live, store, marker>> /\ op.to \in Profile
    BY <1>8 DEF Activate, Goto, Throw, ThrowAs, End, profiles, Operating
  <2>2. op.kind \in Restores => active' = op.to
    BY <2>1 DEF Separates
  <2>3. ASSUME NEW s \in Source
        PROVE  /\ store[op.to][s] # NoCred => Renews(live[s], store[op.to][s])
               /\ Held(op.to, s) # NoCred => Renews(live[s], Held(op.to, s))
    <3>1. CASE op.kind \in Restores
      BY <2>1, <3>1, RestoredFits
    <3>2. CASE op.kind = "import"
      BY <2>1, <3>2 DEF Belonging
    <3> QED
      BY <2>1, <3>1, <3>2 DEF Operating
  <2>4. active' # op.to => Fits(live) /\ active' = active
    BY <2>1, <2>2 DEF Belonging, Replacing
  <2>5. \A p \in Profile, s \in Source : Held(p, s)' = Held(p, s) /\ store'[p][s] = store[p][s]
    BY <2>1, HeldKept
  <2>6. Agreeing'
    BY <2>5 DEF Belonging, Agreeing
  <2>7. Fits(live)'
    <3>1. CASE active' = op.to
      BY <2>1, <2>3, <2>5, <3>1 DEF Fits
    <3>2. CASE active' # op.to
      BY <2>1, <2>4, <2>5, <3>2 DEF Fits
    <3> QED
      BY <3>1, <3>2
  <2> QED
    BY <2>1, <2>6, <2>7 DEF Belonging, Replacing
<1>9. CASE Touch
  <2>1. pc = "touch" /\ pc' \in {"idle", "drop"} /\ UNCHANGED <<live, active, store, marker>>
    BY <1>9 DEF Touch, Throw, ThrowAs, End, profiles
  <2>2. Agreeing' /\ Fits(live)'
    BY <1>0, <2>1 DEF Belonging, Replacing
  <2> QED
    BY <2>1, <2>2 DEF Belonging, Replacing
<1> QED
  BY <1>1, <1>2, <1>3, <1>4, <1>5, <1>6, <1>7, <1>8, <1>9 DEF Operate

\* The CLI logs in, while nothing is live, or rotates a token: never to an older one.
LEMMA UsesCLIBelonging ==
  ASSUME SwitcherInv, Belonging, UsesCLI
  PROVE  Belonging'
<1> USE DEF SwitcherInv
<1>1. /\ UNCHANGED <<pc, op, plan, store, marker, exists, active>> /\ TypeOK'
      /\ \A p \in Profile, s \in Source : Held(p, s)' = Held(p, s)
  BY UsesCLIKeeps, HeldKept
<1>2. Agreeing'
  BY <1>1 DEF Belonging, Agreeing
<1>3. Fits(Backup) => Fits(Backup)'
  BY <1>1 DEF Fits, Backup
<1>4. ASSUME NEW t \in Source, Rotate(t)
      PROVE  Belonging'
  <2>1. \A s \in Source : Renews(live'[s], live[s]) /\ live'[s] \in Cred
    BY <1>1, <1>4, RotateRenews DEF TypeOK
  <2>2. ASSUME NEW p \in Profile, NEW s \in Source
        PROVE  /\ Renews(live[s], store[p][s]) => Renews(live'[s], store[p][s])
               /\ Renews(live[s], Held(p, s)) => Renews(live'[s], Held(p, s))
    BY <2>1, CredTyped, RenewsTransitive
  <2>3. Fits(live) => Fits(live)'
    BY <1>1, <2>2 DEF Fits
  <2>4. pc = "activate" => op.to \in Profile
    BY DEF Operating
  <2>5. pc' = "activate" /\ op'.kind = "import" => \A s \in Source :
          /\ store'[op'.to][s] # NoCred => Renews(live'[s], store'[op'.to][s])
          /\ Held(op.to, s)' = store'[op'.to][s]
    BY <1>1, <2>2, <2>4 DEF Belonging
  <2>6. Replacing' = Replacing
    BY <1>1 DEF Replacing
  <2>7. Replacing => op.to \in Profile
    BY DEF Replacing, Operating
  <2>8. Replacing' => \A s \in Source :
          plan'[s].stored = store'[op'.to][s] /\ (Held(op.to, s)' # NoCred => store'[op'.to][s] # NoCred)
    BY <1>1, <2>6, <2>7 DEF Belonging
  <2>9. pc' = "snapshot" /\ op'.kind \in {"capture", "import"} => op'.to = active' \/ op'.to \notin exists'
    BY <1>1 DEF Belonging
  <2> QED
    BY <1>2, <1>3, <2>3, <2>5, <2>6, <2>8, <2>9 DEF Belonging
<1>5. ASSUME NEW a \in Account, NEW written \in SUBSET Source, LogIn(a, written)
      PROVE  Belonging'
  <2>1. pc = "idle" /\ \A s \in Source : live[s] = NoCred
    BY <1>5 DEF LogIn, Idle, LoggedIn
  <2>2. Fits(live)
    BY <2>1 DEF Belonging, Replacing
  <2>3. ASSUME active \in Profile, NEW s \in Source
        PROVE  store[active][s] = NoCred /\ Held(active, s) = NoCred
    BY <2>1, <2>2, <2>3, CredTyped, RenewsSome DEF Fits
  <2>4. Fits(live)'
    BY <1>1, <2>3 DEF Fits
  <2> QED
    BY <1>1, <1>2, <2>1, <2>4 DEF Belonging, Replacing
<1> QED
  BY <1>4, <1>5 DEF UsesCLI

\* The inductive step, for exec.
LEMMA BelongingStep ==
  ASSUME ExecInv, Restoring, Belonging, [ExecNext]_execVars, ~Separates
  PROVE  Belonging'
<1> USE DEF ExecInv, SwitcherInv
<1>0. ASSUME UNCHANGED <<live, store, marker, active>>, ~Replacing
      PROVE  Agreeing' /\ Fits(live)'
  BY <1>0, FilesKept, FitsKept DEF Belonging
<1>1. CASE Operate
  BY <1>1, OperateBelonging
<1>2. ASSUME UNCHANGED <<live, store, marker, active>>, ~Replacing, pc' \in {"idle", "create", "decide"}
      PROVE  Belonging'
  BY <1>0, <1>2 DEF Belonging, Replacing
<1>3. ASSUME UNCHANGED <<live, store, marker, exists, active>>, ~Replacing, pc' = "snapshot",
             op'.to = active \/ op'.to \notin exists
      PROVE  Belonging'
  BY <1>0, <1>3 DEF Belonging, Replacing
<1>4. ASSUME UNCHANGED vars
      PROVE  Belonging'
  <2>1. UNCHANGED <<live, store, marker, exists, active, pc, op, plan>>
    BY <1>4 DEF vars, profiles
  <2>2. \A p \in Profile, s \in Source : Held(p, s)' = Held(p, s)
    BY <2>1, HeldKept
  <2>3. Agreeing' /\ (Fits(live) => Fits(live)') /\ (Fits(Backup) => Fits(Backup)')
    BY <2>1, FilesKept, FitsKept DEF Belonging
  <2>4. Replacing' = Replacing
    BY <2>1 DEF Replacing
  <2>5. Replacing \/ pc = "activate" => op.to \in Profile
    BY DEF Replacing, Operating
  <2> QED
    BY <2>1, <2>2, <2>3, <2>4, <2>5 DEF Belonging
<1>5. Idle => ~Replacing
  BY DEF Idle, Replacing
<1>6. CASE UserActs
  <2>1. ASSUME NEW p \in Profile, NEW skip \in BOOLEAN,
               SwitchProfile(p, skip) \/ SwitchToNewLoggedOutProfile(p, skip)
        PROVE  Belonging'
    BY <1>2, <1>5, <2>1 DEF SwitchProfile, SwitchToNewLoggedOutProfile, Enter, profiles
  <2>2. ASSUME NEW p \in Profile, SnapshotLiveToProfile(p) \/ FirstImport(p)
        PROVE  Belonging'
    BY <1>3, <1>5, <2>2 DEF SnapshotLiveToProfile, FirstImport, Enter, profiles
  <2> QED
    BY <1>6, <2>1, <2>2 DEF UserActs
<1>7. CASE CLIRuns
  BY <1>7, UsesCLIBelonging DEF CLIRuns, UsesCLI
<1>8. ASSUME NEW target \in Profile, RunExec(target)
      PROVE  Belonging'
  BY <1>2, <1>4, <1>5, <1>8 DEF RunExec, SwitchProfile, Enter, profiles
<1>9. CASE Spawn \/ Returns
  BY <1>4, <1>9 DEF Spawn, Returns
<1>10. CASE ChildExits
  <2>1. CASE Swapped
    <3>1. /\ Enter("capture", exec.target, FALSE, "snapshot") /\ exec.target = active
      BY <1>10, <2>1 DEF ChildExits, Executing
    <3> QED
      BY <1>3, <1>5, <3>1 DEF Enter, profiles
  <2>2. CASE ~Swapped
    BY <1>4, <1>10, <2>2 DEF ChildExits
  <2> QED
    BY <2>1, <2>2
<1>11. CASE RestoreToActive
  BY <1>2, <1>5, <1>11 DEF RestoreToActive, Enter, profiles
<1>12. CASE KillExec
  <2>1. pc' = "idle" /\ outcome' = "killed" /\ UNCHANGED <<live, active>>
    BY <1>12, KillExecTouches DEF End
  <2>2. CASE UNCHANGED <<store, marker>>
    <3>1. CASE Replacing
      <4>1. pc = "activate" /\ op.kind \in Restores /\ op.to = active
        BY <2>1, <3>1 DEF Replacing, Separates
      <4>2. op.to \in Profile
        BY <4>1 DEF Operating
      <4>3. Fits(live)
        BY <4>1, <4>2, RestoredFits DEF Fits
      <4>4. Agreeing' /\ Fits(live)'
        BY <2>1, <2>2, <4>3, FilesKept, FitsKept DEF Belonging
      <4> QED
        BY <2>1, <4>4 DEF Belonging, Replacing
    <3> QED
      BY <1>2, <2>1, <2>2, <3>1
  <2>3. ASSUME NEW p \in Profile, Touches(p), pc = "snapshot", p = Destination
        PROVE  Belonging'
    <3>1. Agreeing' /\ Fits(live)'
      BY <2>1, <2>3, DestinationFits, TouchFits
    <3> QED
      BY <2>1, <3>1 DEF Belonging, Replacing
  <2> QED
    BY <1>12, <2>2, <2>3, KillExecTouches
<1>13. CASE UNCHANGED execVars
  BY <1>4, <1>13 DEF execVars
<1> QED
  BY <1>1, <1>6, <1>7, <1>8, <1>9, <1>10, <1>11, <1>12, <1>13 DEF ExecNext, ExecActs

-----------------------------------------------------------------------------
(* Every login survives *)

\* The live login of an account and a source is not a token of another one.
LEMMA LiveToken ==
  ASSUME TypeOK, NEW a \in Account, NEW s \in Source, live[s] = Token(a, s)
  PROVE  s \in LoggedIn /\ <<a, s>> \in Logins(live)
BY SwitcherAssumption DEF Token, LoggedIn, Logins, NoCred

\* What is given up with all live logins is safe.
LEMMA GivenUpSafe ==
  ASSUME TypeOK, LoginsSafe, UNCHANGED <<latest, store, exists>>,
         given' = given \union Logins(live) \/ (LoggedIn = {} /\ given' = given)
  PROVE  Safe'
<1>1. \A a \in Account, s \in Source :
        latest[a][s] > 0 /\ <<a, s>> \notin given =>
          live[s] = Token(a, s) \/ \E p \in exists : store[p][s] = Token(a, s)
  BY DEF LoginsSafe, Token
<1> QED
  BY <1>1, LiveToken DEF Safe, Token

\* A login in a profile stays there while the profiles do not change.
LEMMA SafeKept ==
  ASSUME Safe, UNCHANGED <<latest, store, exists>>, given \subseteq given'
  PROVE  Safe'
BY DEF Safe, Token

\* Logins survive a step that changes no credential.
LEMMA SurviveKept ==
  ASSUME LoginsSafe, UNCHANGED <<live, latest, store>>, given \subseteq given', exists \subseteq exists'
  PROVE  LoginsSafe'
BY DEF LoginsSafe

\* The current token that the profile of a capture has is live, or the profile is another one.
LEMMA DestinationToken ==
  ASSUME SwitcherInv, Belonging, pc = "snapshot", NEW a \in Account, NEW s \in Source,
         store[Destination][s] = Token(a, s), latest[a][s] > 0
  PROVE  live[s] = Token(a, s)
<1> USE SwitcherAssumption DEF SwitcherInv
<1>1. Token(a, s) # NoCred /\ Token(a, s).account = a /\ Token(a, s).gen = latest[a][s]
  BY DEF Token, NoCred
<1>2. Destination = active /\ active \in Profile /\ Fits(live)
  BY <1>1, DestinationFits
<1>3. Renews(live[s], Token(a, s))
  BY <1>1, <1>2 DEF Fits
<1>4. live[s].account = a /\ live[s].gen >= latest[a][s]
  BY <1>1, <1>3 DEF Renews
<1>5. live[s] # NoCred /\ live[s].gen <= latest[a][s]
  BY <1>4 DEF Tokens, Issued, NoCred
<1>6. live[s] \in [account : Account, gen : 1..MaxGen] /\ latest[a][s] \in Nat
  BY <1>5 DEF TypeOK, Cred
<1>7. live[s].gen = latest[a][s]
  BY <1>4, <1>5, <1>6
<1> QED
  BY <1>4, <1>6, <1>7 DEF Token

\* A capture that fails or is killed loses no login.
LEMMA TouchSurvives ==
  ASSUME SwitcherInv, Belonging, LoginsSafe, pc = "snapshot", NEW q \in Profile, q = Destination, Touches(q),
         UNCHANGED <<live, latest, given>>
  PROVE  LoginsSafe'
<1>1. SUFFICES ASSUME NEW a \in Account, NEW s \in Source, latest[a][s] > 0, <<a, s>> \notin given
               PROVE  live[s] = Token(a, s) \/ \E p \in exists' : store'[p][s] = Token(a, s)
  BY DEF LoginsSafe, Token
<1>2. live[s] = Token(a, s) \/ \E p \in exists : store[p][s] = Token(a, s)
  BY <1>1 DEF LoginsSafe, Token
<1>3. ASSUME NEW p \in exists, store[p][s] = Token(a, s)
      PROVE  live[s] = Token(a, s) \/ \E r \in exists' : store'[r][s] = Token(a, s)
  <2>1. CASE p = q
    BY <1>1, <1>3, <2>1, DestinationToken
  <2>2. CASE p # q
    <3>1. p \in exists' /\ store'[p] = store[p]
      BY <2>2 DEF Touches, SwitcherInv, TypeOK
    <3> QED
      BY <1>3, <3>1
  <2> QED
    BY <2>1, <2>2
<1> QED
  BY <1>2, <1>3

\* A capture that is done stores the current token of every login that is not elsewhere.
LEMMA SnapshotSafe ==
  ASSUME SwitcherInv, Belonging, LoginsSafe, pc = "snapshot", NEW q \in Profile, q = Destination,
         Files(q, Captured(q), NoMarker), UNCHANGED <<live, latest, given>>
  PROVE  Safe'
<1> USE DEF SwitcherInv
<1>1. Captured(q) \in Images
      /\ NoMarker \in [entries : SUBSET Artifact, stored : [Source -> Cred], out : BOOLEAN]
  BY ImageTyped, Typed
<1>2. /\ exists' = exists \union {q} /\ store'[q] = Captured(q).stored
      /\ \A p \in Profile : p # q => store'[p] = store[p]
  BY <1>1, FilesEffect
<1>3. SUFFICES ASSUME NEW a \in Account, NEW s \in Source, latest[a][s] > 0, <<a, s>> \notin given
               PROVE  \E p \in exists' : store'[p][s] = Token(a, s)
  BY DEF Safe, Token
<1>4. live[s] = Token(a, s) \/ \E p \in exists : store[p][s] = Token(a, s)
  BY <1>3 DEF LoginsSafe, Token
<1>5. CASE live[s] = Token(a, s)
  <2>1. s \in LoggedIn
    BY <1>5, LiveToken
  <2>2. store'[q][s] = live[s]
    BY <1>2, <2>1, ImageTyped
  <2> QED
    BY <1>2, <1>5, <2>2
<1>6. ASSUME NEW p \in exists, store[p][s] = Token(a, s)
      PROVE  \E r \in exists' : store'[r][s] = Token(a, s)
  <2>1. CASE p = q
    BY <1>3, <1>5, <1>6, <2>1, DestinationToken
  <2>2. CASE p # q
    BY <1>2, <1>6, <2>2 DEF TypeOK
  <2> QED
    BY <2>1, <2>2
<1> QED
  BY <1>4, <1>5, <1>6

\* A step of an operation.
LEMMA OperateSaved ==
  ASSUME ExecInv, Belonging, Saved, Operate, UNCHANGED <<phase, exec>>
  PROVE  Saved'
<1> USE SwitcherAssumption DEF ExecInv, SwitcherInv
<1>0. phase = "recapture" => pc = "snapshot" /\ op.kind = "capture"
  BY OperateForExec DEF Executing, Idle
<1>1. CASE CreateProfile
  <2>1. pc = "create" /\ pc' \in {"idle", "decide"} /\ (pc' = "decide" => op' = op) /\ op.kind = "new"
        /\ UNCHANGED <<live, latest, store, given>> /\ exists \subseteq exists'
    BY <1>1 DEF CreateProfile, Goto, Throw, ThrowAs, End, locals, profiles, world, Operating
  <2> QED
    BY <1>0, <2>1, SurviveKept DEF Saved, Sheltered
<1>2. CASE DropNewProfile
  <2>1. pc = "drop" /\ pc' = "idle" /\ UNCHANGED <<live, latest, given>>
    BY <1>2 DEF DropNewProfile, End, world
  <2>2. /\ \/ exists' = exists \ {op.to} /\ store' = [store EXCEPT ![op.to] = NoCreds]
           \/ exists \subseteq exists' /\ UNCHANGED store
    BY <1>2 DEF DropNewProfile, Bare, profiles
  <2>3. \A s \in Source : store[op.to][s] = NoCred
    <3>1. PICK new \in Profile : new = op.to /\ new \in loggedOut /\ marker[new].entries = {}
      BY <2>1 DEF Operating, Storing
    <3>2. Settled(new).out /\ Settled(new).stored = store[new]
      BY <3>1 DEF Settled, torn, Image
    <3> QED
      BY <3>1, <3>2 DEF Storing, Held
  <2>4. ASSUME NEW a \in Account, NEW s \in Source, NEW p \in exists, store[p][s] = Token(a, s)
        PROVE  p \in exists' /\ store'[p][s] = Token(a, s)
    <3>1. Token(a, s) # NoCred
      BY DEF Token, NoCred
    <3>2. p # op.to
      BY <2>3, <2>4, <3>1
    <3> QED
      BY <2>2, <2>4, <3>2 DEF TypeOK
  <2>5. LoginsSafe'
    BY <2>1, <2>4 DEF Saved, LoginsSafe, Token
  <2> QED
    BY <1>0, <2>1, <2>5 DEF Saved, Sheltered
<1>3. CASE Decide
  <2>1. /\ pc = "decide" /\ UNCHANGED <<live, latest, store, exists>>
        /\ pc' \in {"idle", "snapshot", "guard", "plan"} /\ (pc' # "idle" => op' = op)
        /\ given' = IF pc' = "plan" /\ op.kind # "return" THEN given \union Logins(live) ELSE given
    BY <1>3 DEF Decide, Goto, End, locals, profiles
  <2>2. LoginsSafe'
    BY <2>1, SurviveKept DEF Saved
  <2>3. CASE pc' = "plan" /\ op.kind # "return"
    <3>1. given' = given \union Logins(live) /\ UNCHANGED <<latest, store, exists>>
      BY <2>1, <2>3
    <3>2. Safe'
      BY <3>1, GivenUpSafe DEF Saved
    <3> QED
      BY <2>2, <3>2 DEF Saved
  <2>4. CASE pc' = "plan" /\ op.kind = "return"
    BY <2>1, <2>2, <2>4, SafeKept DEF Saved, Sheltered
  <2>5. CASE pc' # "plan"
    BY <1>0, <2>1, <2>2, <2>5 DEF Saved, Sheltered
  <2> QED
    BY <2>3, <2>4, <2>5
<1>4. CASE Guard
  <2>1. /\ pc = "guard" /\ UNCHANGED <<live, latest, store, exists, given>>
        /\ pc' \in {"idle", "drop", "plan"} /\ (pc' = "plan" => LoggedIn = {})
    BY <1>4 DEF Guard, Goto, Throw, ThrowAs, End, locals, profiles, world
  <2>2. LoginsSafe'
    BY <2>1, SurviveKept DEF Saved
  <2>3. CASE pc' = "plan"
    BY <2>1, <2>2, <2>3, GivenUpSafe DEF Saved
  <2>4. CASE pc' # "plan"
    BY <1>0, <2>1, <2>2, <2>4 DEF Saved, Sheltered
  <2> QED
    BY <2>3, <2>4
<1>5. CASE Snapshot
  <2>1. pc = "snapshot" /\ UNCHANGED <<live, latest, given>>
    BY <1>5 DEF Snapshot, world
  <2>2. PICK q \in Profile : q = Destination
    BY <2>1, DestinationFits
  <2>3. LoginsSafe'
    <3>1. Touches(q)
      BY <1>5, <2>2, SnapshotEnds
    <3> QED
      BY <2>1, <2>2, <3>1, TouchSurvives DEF Saved
  <2>4. CASE Throw
    <3>1. pc' \in {"idle", "drop"} /\ outcome' = "error"
      BY <2>1, <2>4 DEF Throw, ThrowAs, End
    <3> QED
      BY <2>3, <3>1 DEF Saved, Sheltered
  <2>5. CASE Files(Destination, Captured(Destination), NoMarker)
    <3>1. Safe'
      BY <2>1, <2>2, <2>5, SnapshotSafe DEF Saved
    <3> QED
      BY <2>3, <3>1 DEF Saved
  <2> QED
    BY <1>5, <2>4, <2>5, SnapshotEnds
<1>6. CASE CollectPlan \/ Apply \/ Undo
  <2>1. Safe /\ UNCHANGED <<latest, store, exists, given>>
    BY <1>6 DEF CollectPlan, Apply, Undo, profiles, world, Saved, Sheltered, Replacing
  <2>2. Safe'
    BY <2>1, SafeKept
  <2>3. LoginsSafe'
    BY <2>2 DEF Safe, LoginsSafe, Token
  <2> QED
    BY <2>2, <2>3 DEF Saved
<1>7. CASE Activate \/ Touch
  <2>1. pc \in {"activate", "touch"} /\ pc' \in {"touch", "idle", "drop"}
        /\ UNCHANGED <<live, latest, store, exists, given>>
    BY <1>7 DEF Activate, Touch, Goto, Throw, ThrowAs, End, profiles, world
  <2>2. LoginsSafe'
    BY <2>1, SurviveKept DEF Saved
  <2> QED
    BY <1>0, <2>1, <2>2 DEF Saved, Sheltered
<1> QED
  BY <1>1, <1>2, <1>3, <1>4, <1>5, <1>6, <1>7 DEF Operate


\* The CLI logs in where nothing is live, so that every earlier login is stored; a rotated token
\* replaces the live one of its account.
LEMMA UsesCLISurvives ==
  ASSUME SwitcherInv, LoginsSafe, UsesCLI
  PROVE  LoginsSafe'
<1> USE SwitcherAssumption DEF SwitcherInv
<1>1. UNCHANGED <<store, exists, given>>
  BY DEF UsesCLI, LogIn, Rotate, profiles
<1>2. SUFFICES ASSUME NEW a \in Account, NEW s \in Source, latest'[a][s] > 0, <<a, s>> \notin given
               PROVE  live'[s] = Token(a, s)' \/ \E p \in exists : store[p][s] = Token(a, s)'
  BY <1>1 DEF LoginsSafe, Token
<1>3. ASSUME NEW b \in Account, NEW written \in SUBSET Source, LogIn(b, written)
      PROVE  live'[s] = Token(a, s)' \/ \E p \in exists : store[p][s] = Token(a, s)'
  <2>1. LoggedIn = {}
    BY <1>3 DEF LogIn
  <2>2. CASE a = b /\ s \in written
    BY <1>3, <2>2 DEF LogIn, Token
  <2>3. CASE ~(a = b /\ s \in written)
    <3>1. latest'[a][s] = latest[a][s]
      BY <1>3, <2>3 DEF LogIn, TypeOK
    <3>2. live[s] # Token(a, s)
      BY <2>1, LiveToken
    <3> QED
      BY <1>2, <3>1, <3>2 DEF LoginsSafe, Token
  <2> QED
    BY <2>2, <2>3
<1>4. ASSUME NEW t \in Source, Rotate(t)
      PROVE  live'[s] = Token(a, s)' \/ \E p \in exists : store[p][s] = Token(a, s)'
  <2>1. /\ live[t] \in [account : Account, gen : 1..MaxGen]
        /\ live[t].gen = latest[live[t].account][t]
    BY <1>4 DEF Rotate, LoggedIn, TypeOK, Cred
  <2>2. live'[t] = [account |-> live[t].account, gen |-> live[t].gen + 1]
    BY <1>4, <2>1 DEF Rotate, TypeOK
  <2>3. CASE a = live[t].account /\ s = t
    BY <1>4, <2>1, <2>2, <2>3 DEF Rotate, TypeOK, Token
  <2>4. CASE ~(a = live[t].account /\ s = t)
    <3>1. latest'[a][s] = latest[a][s]
      BY <1>4, <2>1, <2>4 DEF Rotate, TypeOK
    <3>2. live[s] = Token(a, s) \/ \E p \in exists : store[p][s] = Token(a, s)
      BY <1>2, <3>1 DEF LoginsSafe, Token
    <3>3. live[s] = Token(a, s) => live'[s] = live[s]
      BY <1>4, <2>4 DEF Rotate, TypeOK, Token
    <3> QED
      BY <3>1, <3>2, <3>3 DEF Token
  <2> QED
    BY <2>3, <2>4
<1> QED
  BY <1>3, <1>4 DEF UsesCLI

\* A login or a rotation issues a token.
LEMMA IssuesToken ==
  ASSUME TypeOK, UsesCLI
  PROVE  latest' # latest
<1>1. ASSUME NEW a \in Account, NEW written \in SUBSET Source, LogIn(a, written)
      PROVE  latest' # latest
  <2>1. PICK s \in written : TRUE
    BY <1>1 DEF LogIn
  <2>2. latest'[a][s] = latest[a][s] + 1 /\ latest[a][s] \in Int
    BY <1>1 DEF LogIn, TypeOK
  <2> QED
    BY <2>2
<1>2. ASSUME NEW t \in Source, Rotate(t)
      PROVE  latest' # latest
  <2>1. live[t].account \in Account
    BY <1>2, Typed DEF Rotate, LoggedIn, TypeOK
  <2>2. latest'[live[t].account][t] = latest[live[t].account][t] + 1 /\ latest[live[t].account][t] \in Int
    BY <1>2, <2>1 DEF Rotate, TypeOK
  <2> QED
    BY <2>2
<1> QED
  BY <1>1, <1>2 DEF UsesCLI

\* The inductive step, for exec: the switch back is covered by the capture, or gives up what is live.
LEMMA SavedStep ==
  ASSUME ExecInv, Belonging, Saved, [ExecNext]_execVars, ~Outruns
  PROVE  Saved'
<1> USE DEF ExecInv, SwitcherInv
<1>1. ASSUME UNCHANGED <<live, latest, store, exists, given>>, ~Sheltered'
      PROVE  Saved'
  BY <1>1, SurviveKept DEF Saved
<1>2. CASE Operate /\ UNCHANGED <<phase, exec>>
  BY <1>2, OperateSaved
<1>3. CASE phase = "none" /\ UserActs /\ UNCHANGED <<phase, exec>>
  <2>1. UNCHANGED <<live, latest, store, exists, given>>
    BY <1>3 DEF UserActs, SwitchProfile, SwitchToNewLoggedOutProfile, SnapshotLiveToProfile, FirstImport,
       Enter, profiles
  <2>2. pc' \in {"decide", "create", "snapshot"} /\ op'.kind # "return"
    BY <1>3 DEF UserActs, SwitchProfile, SwitchToNewLoggedOutProfile, SnapshotLiveToProfile, FirstImport,
       Enter
  <2> QED
    BY <1>1, <1>3, <2>1, <2>2 DEF Sheltered
<1>4. CASE CLIRuns /\ UNCHANGED <<phase, exec>>
  <2>1. UsesCLI
    BY <1>4 DEF CLIRuns, UsesCLI
  <2>2. UNCHANGED <<pc, op, outcome>>
    BY <2>1, UsesCLIKeeps
  <2>3. latest' # latest
    BY <2>1, IssuesToken
  <2>4. ~Sheltered
    BY <2>3 DEF Outruns, Sheltered, Idle
  <2>5. ~Sheltered'
    BY <1>4, <2>2, <2>4 DEF Sheltered, Idle
  <2> QED
    BY <2>1, <2>5, UsesCLISurvives DEF Saved
<1>5. ASSUME NEW target \in Profile, RunExec(target)
      PROVE  Saved'
  <2>1. /\ UNCHANGED <<live, latest, store, exists, given>> /\ pc' \in {"idle", "decide"}
        /\ phase' \in {"swap", "child"} /\ (pc' = "decide" => op'.kind = "switch")
    BY <1>5 DEF RunExec, SwitchProfile, Enter, vars, profiles, world, Idle
  <2> QED
    BY <1>1, <2>1 DEF Sheltered
<1>6. CASE Spawn \/ Returns \/ (ChildExits /\ ~Swapped)
  <2>1. /\ UNCHANGED <<live, latest, store, exists, given, pc>> /\ pc = "idle"
        /\ phase' # "recapture"
    BY <1>6 DEF Spawn, Returns, ChildExits, Leave, vars, profiles, world, Idle, ExecTypeOK
  <2> QED
    BY <1>1, <2>1 DEF Sheltered
<1>7. CASE ChildExits /\ Swapped
  <2>1. UNCHANGED <<live, latest, store, exists, given>> /\ pc' = "snapshot"
    BY <1>7 DEF ChildExits, Enter, profiles
  <2> QED
    BY <1>1, <2>1 DEF Sheltered, Idle
<1>8. CASE RestoreToActive
  <2>1. /\ UNCHANGED <<live, latest, store, exists>> /\ given \subseteq given'
        /\ phase = "recapture" /\ Idle
        /\ given' = IF outcome = "ok" THEN given ELSE given \union Logins(live)
    BY <1>8 DEF RestoreToActive, Enter, profiles
  <2>2. Safe'
    <3>1. CASE outcome = "ok"
      BY <2>1, <3>1, SafeKept DEF Saved, Sheltered
    <3>2. CASE outcome # "ok"
      BY <2>1, <3>2, GivenUpSafe DEF Saved
    <3> QED
      BY <3>1, <3>2
  <2>3. LoginsSafe'
    BY <2>1, SurviveKept DEF Saved
  <2> QED
    BY <2>2, <2>3 DEF Saved
<1>9. CASE KillExec
  <2>1. UNCHANGED <<live, latest, given>> /\ pc' = "idle" /\ phase' = "none"
    BY <1>9, KillExecTouches DEF KillExec, Leave, End, world
  <2>2. PICK p \in Profile :
          /\ Touches(p)
          /\ \/ UNCHANGED <<store, marker>>
             \/ pc = "snapshot" /\ p = Destination
    BY <1>9, KillExecTouches
  <2>3. LoginsSafe'
    <3>1. CASE UNCHANGED <<store, marker>>
      <4>1. exists \subseteq exists'
        BY <2>2 DEF Touches
      <4> QED
        BY <2>1, <3>1, <4>1, SurviveKept DEF Saved
    <3>2. CASE pc = "snapshot" /\ p = Destination
      BY <2>1, <2>2, <3>2, TouchSurvives DEF Saved
    <3> QED
      BY <2>2, <3>1, <3>2
  <2> QED
    BY <2>1, <2>3 DEF Saved, Sheltered
<1>10. CASE UNCHANGED execVars
  BY <1>10 DEF execVars, vars, profiles, world, Saved, LoginsSafe, Sheltered, Safe, Token, Replacing, Idle
<1> QED
  BY <1>2, <1>3, <1>4, <1>5, <1>6, <1>7, <1>8, <1>9, <1>10 DEF ExecNext, ExecActs

\* As long as nothing separated the live credentials from the active pointer, they belong to it, and
\* as long as no rotation outran a snapshot, no login is lost.
SavedInv ==
  ExecInv /\ Restoring /\ (~adrift => Belonging) /\ (~adrift /\ ~outrun => Saved)

\* It holds in every reachable state.
LEMMA SavedInvariance == ExecSpec => []SavedInv
<1>1. ExecInit => SavedInv
  <2> SUFFICES ASSUME ExecInit PROVE SavedInv
    OBVIOUS
  <2>1. Restoring
    BY DEF ExecInit, Init, Restoring
  <2>2. Belonging
    <3>1. \A p \in Profile : p \notin exists
      BY DEF ExecInit, Init
    <3>2. \A p \in Profile, s \in Source : store[p][s] = NoCred /\ Held(p, s) = NoCred
      BY <3>1, ExecInvInit, AbsentEmpty DEF ExecInv, SwitcherInv
    <3> QED
      BY <3>2 DEF ExecInit, Init, Belonging, Replacing, Fits, Agreeing
  <2>3. Saved
    BY DEF ExecInit, Init, Saved, LoginsSafe, Sheltered
  <2> QED
    BY <2>1, <2>2, <2>3, ExecInvInit DEF SavedInv
<1>2. SavedInv /\ [ExecNext]_execVars => SavedInv'
  <2> SUFFICES ASSUME SavedInv, [ExecNext]_execVars
               PROVE  SavedInv'
    OBVIOUS
  <2>1. ExecInv' /\ Restoring'
    BY ExecInvStep, RestoringStep DEF SavedInv
  <2>2. CASE ExecNext
    <3>1. ~adrift' => ~adrift /\ ~Separates
      BY <2>2 DEF ExecNext
    <3>2. ~outrun' => ~outrun /\ ~Outruns
      BY <2>2 DEF ExecNext
    <3>3. ~adrift' => Belonging'
      BY <3>1, BelongingStep DEF SavedInv
    <3>4. ~adrift' /\ ~outrun' => Saved'
      BY <3>1, <3>2, SavedStep DEF SavedInv
    <3> QED
      BY <2>1, <3>3, <3>4 DEF SavedInv
  <2>3. CASE UNCHANGED execVars
    <3>1. UNCHANGED <<adrift, outrun, latest, pc, phase, op>>
      BY <2>3 DEF execVars, vars, world
    <3>2. ~Outruns
      BY <3>1 DEF Outruns
    <3>3. ~adrift /\ ~Separates => Belonging'
      BY BelongingStep DEF SavedInv
    <3>4. ~Separates
      BY <2>3, <3>1 DEF Separates, MissesArtifact, execVars, vars
    <3>5. ~adrift /\ ~outrun => Saved'
      BY <3>2, SavedStep DEF SavedInv
    <3>6. (~adrift => Belonging)' /\ (~adrift /\ ~outrun => Saved)'
      BY <3>1, <3>3, <3>4, <3>5
    <3> QED
      BY <2>1, <3>6 DEF SavedInv
  <2> QED
    BY <2>2, <2>3
<1> QED
  BY <1>1, <1>2, PTL DEF ExecSpec

\* No login is lost: the current token of every login the user did not give up is live or in a profile,
\* until a failure separates the live credentials from the active pointer, or the CLI rotates a token
\* after the snapshot that was to save it (switchProfileUnlocked, runExec).
THEOREM NoLoginLost == ExecSpec => []LoginsSurvive
<1>1. SavedInv => LoginsSurvive
  BY DEF SavedInv, Saved, LoginsSurvive
<1> QED
  BY <1>1, SavedInvariance, PTL

\* What a capture, however it ends, may do to the logins of a profile.
LEMMA TouchKeepsAccount ==
  ASSUME SwitcherInv, Belonging, pc = "snapshot", NEW q \in Profile, q = Destination, Touches(q),
         NEW p \in Profile, NEW s \in Source
  PROVE  /\ Held(p, s) # NoCred => Held(p, s)'.account = Held(p, s).account
         /\ store[p][s] # NoCred => store'[p][s] = NoCred \/ store'[p][s].account = store[p][s].account
<1>1. CASE p = q
  <2>1. /\ store'[p][s] \in {NoCred, store[p][s], Held(p, s), live[s]}
        /\ Held(p, s)' \in {Held(p, s), live[s]}
    BY <1>1 DEF Touches
  <2>2. /\ Held(p, s) # NoCred => Renews(live[s], Held(p, s))
        /\ store[p][s] # NoCred => Renews(live[s], store[p][s])
    BY <1>1, DestinationFits DEF Fits
  <2>3. store[p][s] # NoCred /\ Held(p, s) # NoCred => Renews(store[p][s], Held(p, s))
    BY DestinationFits DEF Agreeing
  <2> QED
    BY <2>1, <2>2, <2>3 DEF Renews
<1>2. CASE p # q
  <2>1. store'[p] = store[p] /\ Held(p, s)' = Held(p, s)
    BY <1>2 DEF Touches, Held, Settled, torn, Image
  <2> QED
    BY <2>1
<1> QED
  BY <1>1, <1>2

\* The steps at a snapshot.
LEMMA SnapshotStep ==
  ASSUME SavedInv, ~adrift, ExecNext, pc = "snapshot", NEW p \in Profile, NEW s \in Source
  PROVE  /\ Held(p, s) # NoCred => Held(p, s)'.account = Held(p, s).account
         /\ store[p][s] # NoCred => store'[p][s] = NoCred \/ store'[p][s].account = store[p][s].account
<1> USE DEF SavedInv, ExecInv, SwitcherInv
<1>0. PICK q \in Profile : q = Destination
  BY DestinationFits
<1>1. CASE UNCHANGED <<store, marker>>
  BY <1>1, HeldKept
<1>2. CASE Operate
  <2>1. Snapshot
    BY <1>2 DEF Operate, CreateProfile, DropNewProfile, Decide, Guard, CollectPlan, Apply, Undo, Activate,
       Touch
  <2>2. Touches(q)
    BY <1>0, <2>1, SnapshotEnds
  <2> QED
    BY <1>0, <2>2, TouchKeepsAccount
<1>3. CASE KillExec
  <2>1. PICK r \in Profile :
          /\ Touches(r)
          /\ \/ UNCHANGED <<store, marker>>
             \/ pc = "snapshot" /\ r = Destination
    BY <1>3, KillExecTouches
  <2> QED
    BY <1>1, <2>1, TouchKeepsAccount
<1>4. CASE ~Operate /\ ~KillExec
  <2>1. UNCHANGED <<store, marker>>
    BY <1>4 DEF ExecNext, ExecActs, UserActs, SwitchProfile, SwitchToNewLoggedOutProfile, SnapshotLiveToProfile,
       FirstImport, Enter, CLIRuns, UsesCLI, LogIn, Rotate, RunExec, Spawn, ChildExits, RestoreToActive,
       Returns, vars, profiles
  <2> QED
    BY <1>1, <2>1
<1> QED
  BY <1>2, <1>3, <1>4

\* No capture, finished, failed or killed, puts the login of one account where a profile stores that of
\* another, in its files or in what their recovery brings back (snapshotLiveToProfileUnlocked,
\* commitProfileCapture).
THEOREM AccountKept == ExecSpec => SnapshotKeepsAccount
<1>1. SavedInv /\ [ExecNext]_execVars =>
        [\A p \in Profile, s \in Source :
           ~adrift /\ pc = "snapshot" =>
             /\ Settled(p).stored[s] # NoCred =>
                  Settled(p)'.stored[s].account = Settled(p).stored[s].account
             /\ store[p][s] # NoCred =>
                  store'[p][s] = NoCred \/ store'[p][s].account = store[p][s].account]_execVars
  BY SnapshotStep DEF Held
<1> QED
  BY <1>1, SavedInvariance, PTL DEF ExecSpec, SnapshotKeepsAccount

\* An exec whose switch back succeeded leaves its caller's profile active with that profile's accounts
\* live; after a clean failure the live accounts are those of the profile left active (runExec).
THEOREM ComesBack == ExecSpec => ExecComesBack
<1>1. SavedInv /\ [ExecNext]_execVars =>
        [~adrift /\ phase = "return" /\ phase' = "none" /\ pc = "idle" /\ outcome' \in {"ok", "same", "error"} =>
           LET owner == IF outcome = "error" THEN exec.target ELSE exec.previous
           IN  /\ outcome # "error" => active = exec.previous
               /\ active = owner =>
                    \A s \in Source : store[owner][s] # NoCred =>
                      live[s].account = store[owner][s].account]_execVars
  <2> USE DEF SavedInv, ExecInv, SwitcherInv
  <2> SUFFICES ASSUME SavedInv, ~adrift, [ExecNext]_execVars, phase = "return", phase' = "none", pc = "idle",
                      outcome' \in {"ok", "same", "error"}
               PROVE  LET owner == IF outcome = "error" THEN exec.target ELSE exec.previous
                      IN  /\ outcome # "error" => active = exec.previous
                          /\ active = owner =>
                               \A s \in Source : store[owner][s] # NoCred =>
                                 live[s].account = store[owner][s].account
    OBVIOUS
  <2>1. outcome' = outcome
    <3>1. ~KillExec
      BY KillExecTouches DEF End
    <3> QED
      BY <3>1, OperateForExec DEF ExecNext, ExecActs, RunExec, Spawn, ChildExits, RestoreToActive, Returns, vars, Idle,
         execVars
  <2>2. outcome # "error" => active = exec.previous
    BY <2>1 DEF Executing, Idle
  <2>3. \A s \in Source : active \in Profile /\ store[active][s] # NoCred =>
          live[s].account = store[active][s].account
    BY DEF Belonging, Replacing, Fits, Renews
  <2>4. {exec.target, exec.previous} \subseteq Profile
    BY DEF Executing
  <2> QED
    BY <2>2, <2>3, <2>4
<1> QED
  BY <1>1, SavedInvariance, PTL DEF ExecSpec, ExecComesBack

-----------------------------------------------------------------------------
(* One failure *)

\* A single failure, other than of the pointer, leaves nothing that the rollback cannot undo, and no
\* half of a capture.
RollsBack ==
  /\ pc = "undo" => faults >= 1 /\ outcome = "error"
  /\ \A p \in Profile : marker[p].entries = {}

\* When mat is not killed and at most one operation fails, the pointer's not, nothing separates the
\* live credentials from the active pointer.
LEMMA OneFailureHeld ==
  ASSUME ~PointerFaults, MaxFaults <= 1, MaxKills = 0
  PROVE  ExecSpec => []~adrift
<1> USE SwitcherAssumption
<1>1. ExecInit => RollsBack
  BY DEF ExecInit, Init, RollsBack, NoMarker
<1>2. ASSUME ExecInv, RollsBack, [ExecNext]_execVars
      PROVE  RollsBack' /\ (~adrift => ~adrift')
  <2> USE <1>2 DEF ExecInv, SwitcherInv
  <2> SUFFICES RollsBack' /\ (~Separates \/ UNCHANGED execVars)
    BY DEF ExecNext, execVars
  <2>0. faults \in Nat /\ faults <= 1 /\ ~(kills < MaxKills)
    <3>1. faults \in 0..MaxFaults /\ kills \in 0..MaxKills
      BY DEF TypeOK
    <3> QED
      BY <3>1
  <2>m. ~MissesArtifact
    <3>1. pc = "plan" => op.to \in Profile
      BY DEF Operating
    <3>2. pc = "plan" => Settled(op.to).stored = store[op.to]
      BY <3>1 DEF RollsBack, Settled, torn, Image
    <3> QED
      BY <3>2 DEF MissesArtifact
  <2>1. CASE Apply
    <3>1. UNCHANGED marker
      BY <2>1 DEF Apply, profiles
    <3> QED
      BY <2>0, <2>1, <2>m, <3>1 DEF Apply, Goto, Fault, RollsBack, Separates, locals
  <2>2. CASE Undo
    <3>1. pc = "undo" /\ UNCHANGED marker
      BY <2>2 DEF Undo, profiles
    <3>2. faults >= 1 /\ outcome = "error"
      BY <3>1 DEF RollsBack
    <3>3. ~Fault
      BY <2>0, <3>2 DEF Fault
    <3> QED
      BY <2>2, <2>m, <3>1, <3>2, <3>3 DEF Undo, ThrowAs, End, RollsBack, Separates
  <2>3. CASE Activate
    <3>1. UNCHANGED marker
      BY <2>3 DEF Activate, profiles
    <3> QED
      BY <2>3, <2>m, <3>1 DEF Activate, Goto, End, RollsBack, Separates
  <2>4. ASSUME pc' # "undo", pc \notin {"apply", "undo", "activate"}, \A p \in Profile : marker'[p].entries = {}
        PROVE  RollsBack' /\ ~Separates
    BY <2>4, <2>m DEF RollsBack, Separates
  <2>5. CASE Snapshot
    <3>1. pc = "snapshot" /\ pc' # "undo"
      <4>1. Throw \/ Goto("plan", {}) \/ End("ok") \/ Goto("activate", {})
        BY <2>5, SnapshotEnds DEF Restores
      <4>2. pc = "snapshot"
        BY <2>5 DEF Snapshot
      <4> QED
        BY <4>1, <4>2 DEF Throw, ThrowAs, Goto, End
    <3>2. PICK q \in Profile : q = Destination
      BY <2>5, SnapshotEnds
    <3>3. ~RecoveryStops(q) /\ ~(faults + 1 < MaxFaults)
      BY <2>0 DEF RecoveryStops, RollsBack, torn
    <3>4. UNCHANGED marker \/ marker' = [marker EXCEPT ![q] = NoMarker]
      BY <2>5, <3>2, <3>3 DEF Snapshot, CaptureDone, CaptureFails, RolledBack, Files, profiles
    <3>5. \A p \in Profile : marker'[p].entries = {}
      BY <3>4 DEF RollsBack, NoMarker, TypeOK
    <3> QED
      BY <2>4, <3>1, <3>5
  <2>6. CASE CreateProfile \/ DropNewProfile \/ Decide \/ Guard \/ CollectPlan \/ Touch
    <3>1. pc' # "undo" /\ pc \notin {"apply", "undo", "activate"}
      BY <2>6 DEF CreateProfile, DropNewProfile, Decide, Guard, CollectPlan, ReadPlan, Touch, Goto, Throw,
         ThrowAs, End
    <3>2. UNCHANGED marker
      BY <2>6 DEF CreateProfile, DropNewProfile, Bare, Decide, Guard, CollectPlan, Touch, profiles
    <3> QED
      BY <2>4, <3>1, <3>2 DEF RollsBack
  <2>7. CASE Operate
    BY <2>1, <2>2, <2>3, <2>5, <2>6, <2>7 DEF Operate
  <2>8. CASE UNCHANGED execVars
    <3>1. UNCHANGED <<pc, faults, outcome, marker>>
      BY <2>8 DEF execVars, vars, profiles
    <3> QED
      BY <2>8, <3>1 DEF RollsBack
  <2>9. CASE CLIRuns
    <3>1. UNCHANGED <<pc, op, outcome, marker, active, faults>>
      BY <2>9 DEF CLIRuns, UsesCLI, LogIn, Rotate, profiles
    <3> QED
      BY <2>m, <3>1 DEF RollsBack, Separates
  <2>10. CASE ~Operate /\ ~CLIRuns /\ ~UNCHANGED execVars
    <3>1. ~KillExec
      BY <2>0 DEF KillExec, Kill
    <3>2. pc = "idle" /\ pc' # "undo" /\ UNCHANGED marker
      BY <2>10, <3>1 DEF ExecNext, ExecActs, UserActs, SwitchProfile, SwitchToNewLoggedOutProfile,
         SnapshotLiveToProfile, FirstImport, Enter, Idle, RunExec, Spawn,
         ChildExits, RestoreToActive, Returns, vars, profiles, ExecTypeOK
    <3> QED
      BY <2>4, <3>2 DEF RollsBack
  <2> QED
    BY <2>7, <2>8, <2>9, <2>10
<1>3. ExecInit => ~adrift
  BY DEF ExecInit
<1> QED
  BY <1>1, <1>2, <1>3, ExecInvariance, PTL DEF ExecSpec

\* So a single failure loses no login but one whose token the CLI rotated after the snapshot, and the
\* live credentials belong to the active profile in every state, which is what AccountKept and
\* ComesBack are conditional on.
THEOREM OneFailureLosesNothing ==
  ASSUME ~PointerFaults, MaxFaults <= 1, MaxKills = 0
  PROVE  ExecSpec => []~adrift /\ [](~outrun => LoginsSafe)
<1>1. LoginsSurvive /\ ~adrift => (~outrun => LoginsSafe)
  BY DEF LoginsSurvive
<1> QED
  BY <1>1, OneFailureHeld, NoLoginLost, PTL
=============================================================================
