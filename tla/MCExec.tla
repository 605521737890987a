------------------------------- MODULE MCExec -------------------------------
(* Model-checking instance of Exec, and of the Switcher it is built from. *)
EXTENDS Exec, TLC, FiniteSets

Symmetry == Permutations(Profile) \union Permutations(Account)

\* Bounds: rotated tokens, failures and kills together; logins given up; and nothing follows an
\* operation that left live what does not belong to the active profile, or lost a rotated token.
Rotated == {login \in Account \X Source : latest[login[1]][login[2]] > 1}
Bounded ==
  /\ Cardinality(Rotated) + faults + kills <= 2
  /\ Cardinality(given) <= 2
  /\ ~((adrift \/ outrun) /\ Idle /\ phase = "none")
=============================================================================
