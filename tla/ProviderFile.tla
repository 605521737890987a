----------------------------- MODULE ProviderFile -----------------------------
(* The credential files of Goose's providers (src/src/core/sources.ts,         *)
(* pinned-write.ts, pinned-remove.ts).  mat reviews the directory and the file *)
(* and lets a helper process, whose working directory is that directory and    *)
(* not its path, replace or remove the file; other programs may put another    *)
(* directory or another file in the place at any time.                          *)
(*                                                                              *)
(* Directories and files have identities (device and inode); the review of     *)
(* owners, modes and links is the kind of an entry.                             *)
EXTENDS Naturals, FiniteSets

CONSTANTS
  Bytes,         \* contents of a file
  MaxSwaps,      \* bound: changes by other programs
  MaxUpsets      \* bound: failing steps, timeouts and deaths

ASSUME ProviderAssumption ==
  Bytes # {} /\ "part" \notin Bytes /\ MaxSwaps \in Nat /\ MaxUpsets \in Nat

Folder == {1, 2, 3}    \* the directories there may be; 0 is none
NoEntry == [id |-> 0, kind |-> "none", bytes |-> "part"]
Files == [id : 1..(MaxSwaps + 2), kind : {"file", "other"}, bytes : Bytes \union {"part"}]

VARIABLES
  folder,    \* the directory at the path, 0 when there is none
  entries,   \* the file each directory has under the name
  temps,     \* the temporary file of the helper in each directory
  call,      \* what mat does: operation, bytes, directory and file it reviewed, step
  helper,    \* the helper: its step, directory and input
  answer,    \* how the call ended, and what a read returned
  original,  \* history: the entry when the call began
  swaps, upsets,
  slipped    \* history: another program acted after the last check of the helper

providerVars == <<folder, entries, temps, call, helper, answer, original, swaps, upsets, slipped>>

NoCall == [op |-> "none", bytes |-> "part", folder |-> 0, file |-> NoEntry, step |-> "idle"]
NoHelper == [step |-> "none", folder |-> 0, bytes |-> "part"]

ProviderTypeOK ==
  /\ folder \in Folder \union {0}
  /\ entries \in [Folder -> Files \union {NoEntry}]
  /\ temps \in [Folder -> Bytes \union {"part", "none"}]
  /\ call \in [op : {"none", "read", "exists", "write", "remove"}, bytes : Bytes \union {"part"},
               folder : Folder \union {0}, file : Files \union {NoEntry},
               step : {"idle", "parents", "target", "open", "after", "helper", "wait", "parentsAgain"}]
  /\ helper \in [step : {"none", "start", "input", "open", "filled", "checked", "renamed"},
                 folder : Folder \union {0}, bytes : Bytes \union {"part"}]
  /\ answer.how \in {"none", "ok", "absent", "error", "killed"}

ProviderInit ==
  /\ folder \in {0, 1}
  /\ entries \in {[d \in Folder |-> IF d = 1 /\ folder = 1 THEN e ELSE NoEntry] :
                    e \in {NoEntry} \union [id : {1}, kind : {"file", "other"}, bytes : Bytes]}
  /\ temps = [d \in Folder |-> "none"]
  /\ call = NoCall /\ helper = NoHelper /\ answer = [how |-> "none", bytes |-> "part"]
  /\ original = NoEntry /\ swaps = 0 /\ upsets = 0 /\ slipped = FALSE

At(d) == IF d = 0 THEN NoEntry ELSE entries[d]
Fresh == MaxSwaps + 2    \* the identity of the file the helper makes

Upset == upsets < MaxUpsets /\ upsets' = upsets + 1
Rest == UNCHANGED <<folder, entries, temps, helper, original, swaps, upsets, slipped>>
Replies(how, bytes) == call' = [call EXCEPT !.step = "idle"] /\ answer' = [how |-> how, bytes |-> bytes]
Goes(step) == call' = [call EXCEPT !.step = step] /\ UNCHANGED answer

-----------------------------------------------------------------------------
(* The reviews of mat *)

Request(op, bytes) ==
  /\ call.step = "idle" /\ answer.how = "none"
  /\ call' = [NoCall EXCEPT !.op = op, !.bytes = bytes, !.step = "parents"]
  /\ original' = At(folder)
  /\ UNCHANGED <<folder, entries, temps, helper, answer, swaps, upsets, slipped>>

\* validateProviderParents: a write makes what is missing.
ReviewParents ==
  /\ call.step = "parents"
  /\ IF folder = 0 /\ call.op = "write"
     THEN \E d \in Folder : /\ folder' = d /\ At(d) = NoEntry
                            /\ call' = [call EXCEPT !.folder = d, !.step = "target"]
                            /\ UNCHANGED answer
     ELSE /\ UNCHANGED folder
          /\ IF folder = 0
             THEN Replies(IF call.op = "remove" THEN "ok" ELSE "absent", "part")
             ELSE /\ call' = [call EXCEPT !.folder = folder, !.step = "target"]
                  /\ UNCHANGED answer
  /\ UNCHANGED <<entries, temps, helper, original, swaps, upsets, slipped>>

\* Only a regular file with one name is used; then the parents must be unchanged.
ReviewTarget ==
  /\ call.step = "target"
  /\ LET st == At(folder)
     IN  IF st.kind = "other" THEN Replies("error", "part")
         ELSE IF st = NoEntry /\ call.op # "write"
         THEN Replies(IF call.op = "remove" THEN "ok" ELSE "absent", "part")
         ELSE IF folder # call.folder THEN Replies("error", "part")
         ELSE /\ call' = [call EXCEPT !.file = st,
                            !.step = IF call.op \in {"read", "exists"} THEN "open" ELSE "helper"]
              /\ UNCHANGED answer
  /\ Rest

\* checkedProviderRead, providerFileExistsChecked: what is opened is what was reviewed.
OpenFile ==
  /\ call.step = "open"
  /\ IF At(folder).id # call.file.id \/ At(folder).kind # "file" THEN Replies("error", "part")
     ELSE call' = [call EXCEPT !.step = "after", !.bytes = At(folder).bytes] /\ UNCHANGED answer
  /\ Rest

\* And is still there when it has been read.
ReviewAfter ==
  /\ call.step = "after"
  /\ IF folder # call.folder \/ At(folder).id # call.file.id \/ At(folder).kind # "file"
     THEN Replies("error", "part")
     ELSE Replies("ok", IF call.op = "read" THEN call.bytes ELSE "part")
  /\ Rest

-----------------------------------------------------------------------------
(* The helper *)

\* The helper starts in whatever directory has the path now.
SpawnHelper ==
  /\ call.step = "helper"
  /\ IF folder = 0 THEN Replies("error", "part") /\ UNCHANGED helper
     ELSE /\ helper' = [step |-> "start", folder |-> folder, bytes |-> call.bytes]
          /\ Goes("wait")
  /\ UNCHANGED <<folder, entries, temps, original, swaps, upsets, slipped>>

parentOk == helper.folder = call.folder
targetOk == At(helper.folder) = call.file

Refused ==
  /\ helper' = [helper EXCEPT !.step = "none"]
  /\ IF call.step = "wait" THEN Replies("error", "part") ELSE UNCHANGED <<call, answer>>
HelperGoes(step) == helper' = [helper EXCEPT !.step = step] /\ UNCHANGED <<call, answer>>
Clears == temps' = [temps EXCEPT ![helper.folder] = "none"]

\* Mutant: the helper takes its directory for the one that was reviewed.
PinsAnything ==
  /\ helper.step = "start"
  /\ IF targetOk THEN HelperGoes("input") /\ slipped' = FALSE ELSE Refused /\ UNCHANGED slipped
  /\ UNCHANGED <<folder, entries, temps, original, swaps, upsets>>

\* Before it takes its input, the helper compares its directory and the file with the review.
PinParent ==
  /\ helper.step = "start"
  /\ IF parentOk /\ targetOk THEN HelperGoes("input") /\ slipped' = FALSE
     ELSE Refused /\ UNCHANGED slipped
  /\ UNCHANGED <<folder, entries, temps, original, swaps, upsets>>

\* It fills a temporary file of its own.
OpenTemp ==
  /\ helper.step = "input" /\ call.op = "write"
  /\ temps' = [temps EXCEPT ![helper.folder] = "part"] /\ HelperGoes("open")
  /\ UNCHANGED <<folder, entries, original, swaps, upsets, slipped>>

FillTemp ==
  /\ helper.step = "open"
  /\ temps' = [temps EXCEPT ![helper.folder] = helper.bytes] /\ HelperGoes("filled")
  /\ UNCHANGED <<folder, entries, original, swaps, upsets, slipped>>

\* It looks again, and renames.
CheckAgain ==
  /\ helper.step = "filled" /\ slipped' = FALSE
  /\ IF parentOk /\ targetOk THEN HelperGoes("checked") /\ UNCHANGED temps ELSE Refused /\ Clears
  /\ UNCHANGED <<folder, entries, original, swaps, upsets>>

RenameTemp ==
  /\ helper.step = "checked"
  /\ entries' = [entries EXCEPT ![helper.folder] =
                   [id |-> Fresh, kind |-> "file", bytes |-> temps[helper.folder]]]
  /\ Clears /\ HelperGoes("renamed")
  /\ UNCHANGED <<folder, original, swaps, upsets, slipped>>

\* The new file must be in place; mat then looks at the path once more.
Activated ==
  /\ helper.step = "renamed"
  /\ IF At(helper.folder).id = Fresh
     THEN /\ helper' = [helper EXCEPT !.step = "none"]
          /\ IF call.step = "wait" THEN Goes("parentsAgain") ELSE UNCHANGED <<call, answer>>
     ELSE Refused
  /\ UNCHANGED <<folder, entries, temps, original, swaps, upsets, slipped>>

\* removePinnedChild, after the checks of PinParent.
UnlinkChild ==
  /\ helper.step = "input" /\ call.op = "remove"
  /\ entries' = [entries EXCEPT ![helper.folder] = NoEntry]
  /\ helper' = [helper EXCEPT !.step = "none"]
  /\ IF call.step = "wait" THEN Goes("parentsAgain") ELSE UNCHANGED <<call, answer>>
  /\ UNCHANGED <<folder, temps, original, swaps, upsets, slipped>>

ReviewParentsAgain ==
  /\ call.step = "parentsAgain"
  /\ Replies(IF folder = call.folder THEN "ok" ELSE "error", "part")
  /\ Rest

\* A step fails, or the helper is told to end because it took too long: it removes its
\* temporary file.  After the rename there is none.
HelperFails ==
  /\ helper.step # "none" /\ Upset
  /\ Refused /\ Clears
  /\ entries' \in {entries} \union
       IF call.op = "remove" /\ helper.step = "input"
       THEN {[entries EXCEPT ![helper.folder] = NoEntry]} ELSE {}
  /\ UNCHANGED <<folder, original, swaps, slipped>>

\* The helper outlives mat, and has no more input than mat had sent.
KillMat ==
  /\ call.step \notin {"idle"} /\ answer.how # "killed" /\ Upset
  /\ call' = [call EXCEPT !.step = "idle"] /\ answer' = [how |-> "killed", bytes |-> "part"]
  /\ helper' \in {helper, [helper EXCEPT !.bytes =
                             IF helper.step \in {"start", "input"} THEN "part" ELSE @]}
  /\ UNCHANGED <<folder, entries, temps, original, swaps, slipped>>

\* Another program replaces or removes the file, or the directory.
Swap ==
  /\ swaps < MaxSwaps /\ swaps' = swaps + 1 /\ slipped' = TRUE
  /\ \/ /\ folder # 0 /\ UNCHANGED folder
        /\ \E e \in {NoEntry} \union
                    [id : {swaps + 2}, kind : {"file", "other"}, bytes : Bytes] :
             entries' = [entries EXCEPT ![folder] = e]
     \/ \E d \in (Folder \union {0}) \ {folder} : folder' = d /\ UNCHANGED entries
  /\ UNCHANGED <<temps, call, helper, answer, original, upsets>>

ProviderNext ==
  \/ \E op \in {"read", "exists", "remove"} : Request(op, "part")
  \/ \E b \in Bytes : Request("write", b)
  \/ ReviewParents \/ ReviewTarget \/ OpenFile \/ ReviewAfter
  \/ SpawnHelper \/ PinParent \/ OpenTemp \/ FillTemp \/ CheckAgain \/ RenameTemp \/ Activated
  \/ UnlinkChild \/ ReviewParentsAgain \/ HelperFails \/ KillMat \/ Swap

ProviderSpec == ProviderInit /\ [][ProviderNext]_providerVars

-----------------------------------------------------------------------------
\* The helper never changes a directory other than the one mat reviewed, and while nobody
\* acts between its last look and its rename or unlink, it takes no file that mat did not
\* review.
ProviderPinned ==
  /\ \A d \in Folder : temps[d] # "none" => d = call.folder
  /\ helper.step \in {"input", "checked"} => parentOk /\ (slipped \/ targetOk)

\* A write that succeeds left its bytes, one that fails left the old file or the new one
\* whole, and neither leaves a temporary file; a read returns the bytes of the file that was
\* there; a removal that succeeds left nothing.  (mat may be killed while it hands the bytes
\* to the helper: then the new file may be a part of them.)
ProviderTruthful ==
  call.step = "idle" /\ helper.step = "none" /\ swaps = 0 /\ answer.how # "none" =>
    /\ \A d \in Folder : temps[d] = "none"
    /\ answer.how = "ok" /\ call.op = "write" => At(folder).bytes = call.bytes
    /\ answer.how = "ok" /\ call.op = "remove" => At(folder) = NoEntry
    /\ answer.how = "ok" /\ call.op = "read" => answer.bytes = original.bytes
    /\ call.op \in {"read", "exists"} => At(folder) = original
    /\ answer.how = "absent" => original = NoEntry
    /\ answer.how = "error" =>
         At(folder) \in {original, [id |-> Fresh, kind |-> "file", bytes |-> call.bytes]}
           \union IF call.op = "remove" THEN {NoEntry} ELSE {}
=============================================================================
