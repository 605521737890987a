---------------------------- MODULE AbstractLock ----------------------------
(***************************************************************************)
(* What lockfile.ts promises its callers: the lock is granted to one       *)
(* process at a time, and a holder gives it up by releasing it or dying.   *)
(***************************************************************************)
CONSTANT Proc

VARIABLE holders   \* the processes that may touch the live credentials

Init == holders = {}

Grant(p) == holders = {} /\ holders' = {p}

Yield(p) == p \in holders /\ holders' = holders \ {p}

Next == \E p \in Proc : Grant(p) \/ Yield(p)

Spec == Init /\ [][Next]_holders
=============================================================================
