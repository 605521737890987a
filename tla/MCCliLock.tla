----------------------------- MODULE MCCliLock -----------------------------
(* Model-checking instance of CliLock. *)
EXTENDS CliLock, TLC

Symmetry == Permutations(Proc)

\* Bound: once a verdict has strayed, a run goes on only with a process left out.
OneLeftOut == strayed => \E p \in Proc : round[p] = 0 /\ round'[p] = 0

BoundedSpec ==
  /\ Init /\ [][Next /\ OneLeftOut]_vars
  /\ \A p \in Proc : WF_vars(Step(p))
=============================================================================
