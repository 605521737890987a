----------------------------- MODULE MCDialogs -----------------------------
(* The screens, and whose login each freshness dialog compared when it was     *)
(* drawn (app.tsx:711, buildDialog): the report of the dialog, not the names   *)
(* of its two profiles.                                                        *)
EXTENDS TuiFlows

VARIABLE compared  \* history: the account that was live when the last report was made

DialogsInit == TuiInit /\ compared = [t \in Tui |-> None]

DialogsNext ==
  /\ TuiNext
  /\ compared' = [t \in Tui |-> IF work[t].at = "inspect" /\ Top(t)'.kind = "freshness"
                                THEN live[1] ELSE compared[t]]

DialogsSpec == DialogsInit /\ [][DialogsNext]_<<tuiVars, compared>>

\* What the user discards is what the dialog has shown him: under the lock, a switch
\* that gives up the only copy of the live login goes on only if that is the account
\* the report was about, whatever another process did in between (app.tsx:718-726, 758).
DiscardsWhatWasShown ==
  \A t \in Tui :
    /\ work[t].at = "work" /\ work[t].job.op \in {"discardSwitch", "freshDiscard"}
    /\ StateAsShown(t) /\ ~Refuses(work[t].job)
    /\ live # Empty /\ \A n \in Name : directory[n].login # live
    => live[1] = compared[t]
=============================================================================
