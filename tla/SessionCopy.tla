----------------------------- MODULE SessionCopy ------------------------------
(* Planning a session and filling its directory (planSession and               *)
(* materializeSession of src/src/core/session.ts).  The definition of a CLI    *)
(* says which files are credentials, which directory they live in (a root),    *)
(* and which other files and directories of it a session gets copies of.       *)
(* Other programs rewrite these while they are copied; a replaced file or      *)
(* directory is a new one and never comes back under its old inode.            *)
EXTENDS Naturals, Sequences, FiniteSets, FiniteSetsExt, SequencesExt

CONSTANTS
  MaxRewrites,   \* bound: changes of other programs to the profile and the base directory
  MaxRefusals    \* bound: failing file operations

ASSUME CopyAssumption == {MaxRewrites, MaxRefusals} \subseteq Nat

-----------------------------------------------------------------------------
(* Definitions and plans.  A path is a sequence of segments. *)

Credential == {"auth", "key"}
InFile(path, saveAs) == [type |-> "file", path |-> path, saveAs |-> saveAs]
Root(env, base) == [env |-> env, base |-> base, subdir |-> <<>>, share |-> <<>>, shareDirs |-> <<>>]
Shared(rel) == [rel |-> rel, maxFiles |-> 2, maxBytes |-> 3, maxEntries |-> 3, maxDepth |-> 2]

Plain ==
  [sources |-> <<InFile(<<"h", "auth">>, "auth"), InFile(<<"h", "key">>, "key")>>,
   roots |-> <<[Root("HOME_OF", <<"h">>) EXCEPT !.share = << <<"config">> >>,
                                               !.shareDirs = <<Shared(<<"skills">>)>>]>>]
TwoRoots ==
  [sources |-> <<InFile(<<"h", "auth">>, "auth"), InFile(<<"g", "key">>, "key")>>,
   roots |-> <<[Root("HOME_OF", <<"h">>) EXCEPT !.subdir = <<"dot">>], Root("DATA_OF", <<"g">>)>>]

\* What a definition may get wrong: each of these is refused.
Wrong ==
  LET OfRoot(root) == [Plain EXCEPT !.roots = <<root>>]
      root == Plain.roots[1]
  IN  {[Plain EXCEPT !.roots = <<>>], [Plain EXCEPT !.roots = @ \o <<Root("AGAIN", <<"h">>)>>],
       [Plain EXCEPT !.sources[2].type = "keychain"], [Plain EXCEPT !.sources[2].path = <<"h", "sub", "key">>],
       [Plain EXCEPT !.sources[2].path = <<"g", "key">>]}
      \union {OfRoot([root EXCEPT !.subdir = s]) : s \in {<<"a", "b">>, <<"..">>}}
      \union {OfRoot([root EXCEPT !.share = s]) : s \in {<< <<"key">> >>, << <<"a", "b">> >>, << <<"..">> >>}}
      \union {OfRoot([root EXCEPT !.shareDirs = s]) :
                s \in {<<Shared(<<"skills">>), Shared(<<"skills">>)>>, <<Shared(<<"auth">>)>>,
                       <<Shared(<<"config">>)>>, <<Shared(<<"a", "b">>)>>,
                       <<[Shared(<<"skills">>) EXCEPT !.maxBytes = 0]>>}}

Single(rel) == Len(rel) = 1 /\ rel[1] # ".."

\* The roots whose base directory holds this path directly (directChildRel).
RootsOf(def, path) == {r \in DOMAIN def.roots : def.roots[r].base = Front(path)}

CredsOf(def, r) ==
  FlattenSeq([i \in DOMAIN def.sources |->
                IF RootsOf(def, def.sources[i].path) = {r} THEN <<def.sources[i]>> ELSE <<>>])
CredNames(def, r) == {<<Last(s.path)>> : s \in Range(CredsOf(def, r))}

\* planSession
PlanRefuses(def) ==
  \/ def.roots = <<>>
  \/ \E s \in Range(def.sources) : s.type # "file" \/ Cardinality(RootsOf(def, s.path)) # 1
  \/ \E r \in DOMAIN def.roots :
       LET root == def.roots[r]
           share == Range(root.share)
           dirs == [i \in DOMAIN root.shareDirs |-> root.shareDirs[i].rel]
       IN  \/ root.subdir # <<>> /\ ~Single(root.subdir)
           \/ \E rel \in share \union Range(dirs) : ~Single(rel) \/ rel \in CredNames(def, r)
           \/ ~IsInjective(dirs) \/ share \cap Range(dirs) # {}
           \/ \E d \in Range(root.shareDirs) : 0 \in {d.maxFiles, d.maxBytes, d.maxEntries, d.maxDepth}

\* materializeSession, root by root: the directories, the credentials, then the shares.
Tasks(def) ==
  FlattenSeq([r \in DOMAIN def.roots |->
    <<[op |-> "root", root |-> r, item |-> <<>>]>>
    \o [i \in DOMAIN CredsOf(def, r) |-> [op |-> "cred", root |-> r, item |-> CredsOf(def, r)[i]]]
    \o [i \in DOMAIN def.roots[r].share |-> [op |-> "share", root |-> r, item |-> def.roots[r].share[i]]]
    \o [i \in DOMAIN def.roots[r].shareDirs |->
          [op |-> "shareDir", root |-> r, item |-> def.roots[r].shareDirs[i]]]])

-----------------------------------------------------------------------------
(* The base directory *)

Spot == {<<"config">>, <<"skills">>, <<"skills", "a">>, <<"skills", "sub">>, <<"skills", "sub", "b">>}
Node(kind, id) == [kind |-> kind, id |-> id, links |-> 1, size |-> 1, own |-> TRUE]
NoNode == Node("none", 0)
Foreign == [Node("file", 1) EXCEPT !.own = FALSE]    \* what a link leads to
HardLink(id) == [Node("file", id) EXCEPT !.links = 2, !.own = FALSE]

Trees ==
  LET full == [s \in Spot |-> CASE s = <<"config">> -> Node("file", 2)
                                [] s = <<"skills">> -> Node("dir", 3)
                                [] s = <<"skills", "a">> -> Node("file", 4)
                                [] s = <<"skills", "sub">> -> Node("dir", 5)
                                [] OTHER -> Node("file", 6)]
  IN  {full, [full EXCEPT ![<<"config">>] = NoNode, ![<<"skills", "a">>] = HardLink(4)],
       [full EXCEPT ![<<"skills", "a">>].size = 2], [full EXCEPT ![<<"skills", "a">>].size = 3],
       [full EXCEPT ![<<"config">>] = Node("link", 2)]}

VARIABLES
  definition, credentials,   \* the CLI, and the version of each credential its profile stores, 0 if none
  tree,                  \* what the base directory holds
  copying,               \* what the session start does: its task, step, remembered file and totals
  walk,                 \* the directories it is in
  session,               \* the directory of the session
  rewrites, refusals,    \* bounds
  changed                \* history: what other programs have changed

copyVars == <<definition, credentials, tree, copying, walk, session, rewrites, refusals, changed>>

NoTotals == [files |-> 0, bytes |-> 0, entries |-> 0]
NoCopying == [step |-> "idle", task |-> 1, spot |-> <<>>, file |-> NoNode, total |-> NoTotals]
NoSession == [exists |-> "none", roots |-> {}, creds |-> <<>>, files |-> <<>>]

CopySteps == {"idle", "mkdir", "task", "share", "list", "entry", "look", "contain", "open", "verify",
          "read", "cleanup", "refused", "ready"}

CopyTypeOK ==
  /\ credentials \in [Credential -> 0..(2 + MaxRewrites)]
  /\ \A s \in Spot : tree[s].kind \in {"none", "file", "dir", "link"} /\ tree[s].size \in 1..(4 + MaxRewrites)
  /\ copying.step \in CopySteps /\ copying.total.files \in 0..3
  /\ session.exists \in {"none", "mine", "others", "lost", "stuck"}
  /\ \A i \in DOMAIN walk : walk[i].dir \in Spot
  /\ refusals \in 0..MaxRefusals /\ rewrites \in 0..MaxRewrites

CopyInit ==
  /\ definition = Plain /\ tree \in Trees
  /\ credentials \in {[c \in Credential |-> 1], [c \in Credential |-> IF c = "key" THEN 0 ELSE 1]}
  /\ copying = NoCopying /\ walk = <<>>
  /\ session \in {NoSession, [NoSession EXCEPT !.exists = "others"]}
  /\ rewrites = 0 /\ refusals = 0 /\ changed = {}

World == UNCHANGED <<definition, credentials, tree, rewrites, changed>>

\* What a path leads to when its last segment is not followed.
NodeAt(spot) ==
  LET above == {SubSeq(spot, 1, n) : n \in 1..(Len(spot) - 1)}
  IN  IF \E d \in above : tree[d].kind = "link" THEN Foreign
      ELSE IF \A d \in above : tree[d].kind = "dir" THEN tree[spot] ELSE NoNode

\* assertContainedRealpath: the path leads to a place in the base directory.
Contained(spot) == \A n \in 1..Len(spot) : tree[SubSeq(spot, 1, n)].kind \notin {"link", "none"}

Task == Tasks(definition)[copying.task]
Goes(step) == copying' = [copying EXCEPT !.step = step]
NextTask ==
  copying' = [NoCopying EXCEPT !.task = copying.task + 1,
                               !.step = IF copying.task = Len(Tasks(definition)) THEN "ready" ELSE "task"]
GiveUp == Goes("cleanup") /\ UNCHANGED <<walk, session, refusals>>

-----------------------------------------------------------------------------
(* The tasks *)

Tight == {[Plain EXCEPT !.roots[1].shareDirs[1].maxFiles = 1],
          [Plain EXCEPT !.roots[1].shareDirs[1].maxEntries = 2],
          [Plain EXCEPT !.roots[1].shareDirs[1].maxDepth = 1]}

PlanSession ==
  /\ copying.step = "idle"
  /\ definition' \in {Plain, TwoRoots} \union Wrong \union Tight
  /\ Goes(IF PlanRefuses(definition') THEN "refused" ELSE "mkdir")
  /\ UNCHANGED <<credentials, tree, walk, session, rewrites, refusals, changed>>

\* Mutant: the directory is made within the part that cleans up after itself.
MakeSessionCleaning ==
  /\ copying.step = "mkdir"
  /\ IF session.exists # "none" THEN Goes("cleanup") /\ UNCHANGED session
     ELSE Goes("task") /\ session' = [session EXCEPT !.exists = "mine"]
  /\ UNCHANGED <<walk, refusals>> /\ World

\* A directory that is there already belongs to somebody else.
MakeSession ==
  /\ copying.step = "mkdir"
  /\ IF session.exists # "none" THEN Goes("refused") /\ UNCHANGED session
     ELSE Goes("task") /\ session' = [session EXCEPT !.exists = "mine"]
  /\ UNCHANGED <<walk, refusals>> /\ World

MakeRoot ==
  /\ copying.step = "task" /\ Task.op = "root" /\ NextTask
  /\ session' = [session EXCEPT !.roots = @ \union {Task.root}]
  /\ UNCHANGED <<walk, refusals>> /\ World

\* A credential is copied from the profile, as it is now.
CopyCred ==
  /\ copying.step = "task" /\ Task.op = "cred"
  /\ LET value == credentials[Task.item.saveAs]
     IN  IF value = 0 THEN GiveUp
         ELSE /\ NextTask /\ UNCHANGED <<walk, refusals>>
              /\ session' = [session EXCEPT !.creds =
                    Append(@, [root |-> Task.root, rel |-> <<Last(Task.item.path)>>,
                               saveAs |-> Task.item.saveAs, value |-> value])]
  /\ World

\* materializeShareCopy: a file that is not there is left out; anything but a file is refused.
LookShare ==
  /\ copying.step = "task" /\ Task.op = "share"
  /\ CASE NodeAt(Task.item).kind = "none" -> NextTask /\ UNCHANGED <<walk, session, refusals>>
       [] NodeAt(Task.item).kind = "file" -> Goes("share") /\ UNCHANGED <<walk, session, refusals>>
       [] OTHER -> GiveUp
  /\ World

Copied(rel, node) ==
  session' = [session EXCEPT !.files = Append(@, [root |-> Task.root, rel |-> rel, node |-> node])]

\* It is opened without following a link, and whatever file is there by now is copied.
CopyShare ==
  /\ copying.step = "share"
  /\ IF NodeAt(Task.item).kind # "file" THEN GiveUp
     ELSE Copied(Task.item, NodeAt(Task.item)) /\ NextTask /\ UNCHANGED <<walk, refusals>>
  /\ World

-----------------------------------------------------------------------------
(* Copying a directory: materializeShareDirCopy and what it calls *)

Children(dir) == {s \in Spot : Len(s) = Len(dir) + 1 /\ Front(s) = dir /\ NodeAt(s).kind # "none"}
Descend(dir, id) == walk' = Append(walk, [dir |-> dir, id |-> id, left |-> {}])

LookShareDir ==
  /\ copying.step = "task" /\ Task.op = "shareDir"
  /\ LET node == NodeAt(Task.item.rel)
     IN  CASE node.kind = "none" -> NextTask /\ UNCHANGED <<walk, session, refusals>>
           [] node.kind = "dir" -> /\ Goes("list") /\ Descend(Task.item.rel, node.id)
                                   /\ UNCHANGED <<session, refusals>>
           [] OTHER -> GiveUp
  /\ World

Here == Last(walk)

\* assertShareDirSourceDirectory: neither the root of the copy nor this directory was replaced.
Unchanged(dir, id) ==
  /\ tree[walk[1].dir].kind = "dir" /\ tree[walk[1].dir].id = walk[1].id
  /\ Contained(dir) /\ NodeAt(dir).kind = "dir" /\ NodeAt(dir).id = id

\* What the directory holds is listed; the directory is the one that was looked at.
ListDirectory ==
  /\ copying.step = "list"
  /\ IF ~Unchanged(Here.dir, Here.id) THEN GiveUp
     ELSE /\ Goes("entry") /\ UNCHANGED <<session, refusals>>
          /\ walk' = [walk EXCEPT ![Len(walk)].left = Children(Here.dir)]
  /\ World

\* The next entry, in any order; after the last one the copy goes on in the directory above.
NextEntry ==
  /\ copying.step = "entry"
  /\ \/ ~Unchanged(Here.dir, Here.id) /\ GiveUp
     \/ /\ Unchanged(Here.dir, Here.id) /\ UNCHANGED <<session, refusals>>
        /\ \/ \E spot \in Here.left :
                /\ copying' = [copying EXCEPT !.step = "look", !.spot = spot]
                /\ walk' = [walk EXCEPT ![Len(walk)].left = @ \ {spot}]
           \/ /\ Here.left = {} /\ walk' = Front(walk)
              /\ IF Len(walk) = 1 THEN NextTask ELSE Goes("entry")
  /\ World

LookEntry ==
  /\ copying.step = "look"
  /\ LET spot == copying.spot
         node == NodeAt(spot)
         total == [copying.total EXCEPT !.entries = @ + 1]
     IN  IF \/ Len(spot) - 1 > Task.item.maxDepth \/ total.entries > Task.item.maxEntries
            \/ node.kind \in {"none", "link"} \/ (node.kind = "dir" /\ ~Unchanged(spot, node.id))
         THEN GiveUp
         ELSE /\ copying' = [copying EXCEPT !.step = IF node.kind = "dir" THEN "list" ELSE "contain",
                                            !.total = total, !.file = node]
              /\ IF node.kind = "dir" THEN Descend(spot, node.id) ELSE UNCHANGED walk
              /\ UNCHANGED <<session, refusals>>
  /\ World

CheckContained ==
  /\ copying.step = "contain"
  /\ IF Contained(copying.spot) THEN Goes("open") /\ UNCHANGED <<walk, session, refusals>> ELSE GiveUp
  /\ World

\* The file that is open must be the one that was looked at.
OpenFile ==
  /\ copying.step = "open"
  /\ LET node == NodeAt(copying.spot)
     IN  IF node.kind # "file" \/ node.id # copying.file.id THEN GiveUp
         ELSE /\ copying' = [copying EXCEPT !.step = "verify", !.file = node]
              /\ UNCHANGED <<walk, session, refusals>>
  /\ World

\* Mutant: only its place is looked at.
VerifyPlaceOnly ==
  /\ copying.step = "verify"
  /\ IF Contained(copying.spot) /\ NodeAt(copying.spot).id = copying.file.id
     THEN Goes("read") /\ UNCHANGED <<walk, session, refusals>> ELSE GiveUp
  /\ World

\* It is still in its place, has no other name, and fits the limits.
VerifyFile ==
  /\ copying.step = "verify"
  /\ IF /\ Contained(copying.spot) /\ NodeAt(copying.spot).id = copying.file.id
        /\ copying.file.links = 1 /\ copying.total.files + 1 <= Task.item.maxFiles
        /\ copying.total.bytes + copying.file.size <= Task.item.maxBytes
     THEN Goes("read") /\ UNCHANGED <<walk, session, refusals>> ELSE GiveUp
  /\ World

\* readBoundedFile: the file may have grown since.
ReadFile ==
  /\ copying.step = "read"
  /\ LET bytes == copying.total.bytes + copying.file.size
     IN  IF bytes > Task.item.maxBytes THEN GiveUp
         ELSE /\ Copied(copying.spot, copying.file)
              /\ copying' = [copying EXCEPT !.step = "entry", !.file = NoNode,
                                            !.total.files = @ + 1, !.total.bytes = bytes]
              /\ UNCHANGED <<walk, refusals>>
  /\ World

-----------------------------------------------------------------------------
(* Failures and other programs *)

Refusal == refusals < MaxRefusals /\ refusals' = refusals + 1

\* A file operation fails.
OperationFails ==
  /\ copying.step \in CopySteps \ {"idle", "mkdir", "cleanup", "refused", "ready"}
  /\ Refusal /\ Goes("cleanup") /\ UNCHANGED <<walk, session>> /\ World

\* removeSessionDir, whose failure is swallowed.
CleanUp ==
  /\ copying.step = "cleanup" /\ copying' = [NoCopying EXCEPT !.step = "refused"]
  /\ \/ /\ session' = [NoSession EXCEPT !.exists = IF session.exists = "others" THEN "lost" ELSE "none"]
        /\ UNCHANGED refusals
     \/ session' = [session EXCEPT !.exists = "stuck"] /\ Refusal
  /\ walk' = <<>> /\ World

Rewriting ==
  /\ copying.step \notin {"idle", "refused", "ready"}
  /\ rewrites < MaxRewrites /\ rewrites' = rewrites + 1
  /\ UNCHANGED <<definition, walk, session, refusals>>

\* Another mat captures into the profile, one artifact at a time, or removes it.
ChangeProfile ==
  /\ Rewriting
  /\ \E c \in Credential : \/ credentials' = [credentials EXCEPT ![c] = IF @ = 0 THEN 0 ELSE @ + 1]
                           \/ credentials' = [credentials EXCEPT ![c] = 0]
  /\ changed' = changed \union {"profile"} /\ UNCHANGED <<tree, copying>>

\* Another program replaces an entry by a new one, with nothing in it.
ReplaceEntry ==
  /\ Rewriting
  /\ \E spot \in {s \in Spot : Len(s) = 1 \/ NodeAt(Front(s)).kind = "dir"} :
       LET new == 10 + rewrites
       IN  \E node \in {Node("file", new), Node("dir", new), Node("link", new), HardLink(new), NoNode} :
             tree' = [s \in Spot |-> IF s = spot THEN node ELSE IF IsPrefix(spot, s) THEN NoNode ELSE tree[s]]
  /\ changed' = changed \union {"tree"} /\ UNCHANGED <<credentials, copying>>

\* It writes on: whoever has the file open sees it grow.
GrowFile ==
  /\ Rewriting
  /\ \E spot \in Spot \ {<<"config">>} :
       /\ tree[spot].kind = "file" /\ tree' = [tree EXCEPT ![spot].size = @ + 1]
       /\ copying' = IF copying.step \in {"verify", "read"} /\ copying.file.id = tree[spot].id
                     THEN [copying EXCEPT !.file.size = @ + 1] ELSE copying
  /\ changed' = changed \union {"tree"} /\ UNCHANGED credentials

CopyNext ==
  \/ PlanSession \/ MakeSession \/ MakeRoot \/ CopyCred \/ LookShare \/ CopyShare
  \/ LookShareDir \/ ListDirectory \/ NextEntry \/ LookEntry \/ CheckContained \/ OpenFile
  \/ VerifyFile \/ ReadFile \/ OperationFails \/ CleanUp
  \/ ChangeProfile \/ ReplaceEntry \/ GrowFile

CopySpec == CopyInit /\ [][CopyNext]_copyVars

-----------------------------------------------------------------------------
\* A session that starts holds every credential of its CLI once, under the name it has in its
\* root and not overwritten by a share; the directories it got copies of gave it files of their
\* own only, in their places and within the limits; and all of them, when nobody changed them
\* meanwhile.
SessionHolds ==
  copying.step = "ready" =>
    LET dirs == UNION {Range(definition.roots[r].shareDirs) : r \in DOMAIN definition.roots}
        In(d) == {i \in DOMAIN session.files : session.files[i].rel[1] = d.rel[1]}
        Size(i) == session.files[i].node.size
        Places(s) == [i \in DOMAIN s |-> <<s[i].root, s[i].rel>>]
    IN  /\ [i \in DOMAIN session.creds |-> session.creds[i].saveAs] \in
              {[i \in 1..2 |-> definition.sources[p[i]].saveAs] : p \in {<<1, 2>>, <<2, 1>>}}
        /\ "profile" \notin changed => \A i \in DOMAIN session.creds : session.creds[i].value = 1
        /\ IsInjective(Places(session.creds) \o Places(session.files))
        /\ \A d \in dirs :
             /\ \A i \in In(d) : session.files[i].node.own
             /\ Cardinality(In(d)) <= d.maxFiles
             /\ FoldSet(LAMBDA i, sum : sum + Size(i), 0, In(d)) <= d.maxBytes
        /\ dirs # {} /\ changed \subseteq {"profile"} =>
             Range([i \in DOMAIN session.files |-> session.files[i].rel])
               = {s \in Spot : NodeAt(s).kind = "file"}

\* A start that is refused leaves no directory behind, unless that very removal failed, and
\* does not touch the directory of another session; one that succeeds has met no failure.
StartAllOrNothing ==
  /\ copying.step = "refused" => session.exists \in {"none", "others", "stuck"}
  /\ session.exists = "stuck" => refusals > 0
  /\ copying.step = "ready" => session.exists = "mine" /\ refusals = 0
=============================================================================
