------------------------- MODULE AbstractRecapture -------------------------
(***************************************************************************)
(* What a session promises its profile when it ends: the credentials it    *)
(* still has replace the stored ones as one set, at most once.             *)
(***************************************************************************)
CONSTANTS Session, Cred, Value

VARIABLES
  image,       \* the credentials stored in the profile
  kept,        \* the credentials each session still had when it ended
  recaptured   \* the sessions that wrote theirs back

vars == <<image, kept, recaptured>>

Init ==
  /\ image \in [Cred -> Value]
  /\ kept = [s \in Session |-> {}]
  /\ recaptured = {}

End(s) ==
  /\ kept[s] = {}
  /\ \E found \in SUBSET Cred : kept' = [kept EXCEPT ![s] = found]
  /\ UNCHANGED <<image, recaptured>>

Recapture(s) ==
  /\ s \notin recaptured
  /\ recaptured' = recaptured \union {s}
  /\ image' = [c \in Cred |-> IF c \in kept[s] THEN s ELSE image[c]]
  /\ UNCHANGED kept

Next == \E s \in Session : End(s) \/ Recapture(s)

Spec == Init /\ [][Next]_vars
=============================================================================
