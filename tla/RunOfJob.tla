------------------------------ MODULE RunOfJob ------------------------------
(***************************************************************************)
(* What the end of a run promises to the rest of the system, without the   *)
(* exchange that brings it about.  A run that has ended is over for the    *)
(* server exactly once and as it began to end: an exiting job is finished, *)
(* a job to be rerun is queued again.  Its nodes are held until then and   *)
(* free from then on.  The MoM keeps the job while it runs, and gets rid   *)
(* of it in the end.  Only while the server has its MoM marked down may a  *)
(* run be over in another way, and then its Rerunable attribute alone      *)
(* says how.                                                               *)
(***************************************************************************)
CONSTANT Rerunnable    \* the job's Rerunable attribute

VARIABLES run,    \* the run as the server sees it
          held,   \* nodes and resources are assigned to the job
          has,    \* the MoM has the job
          lost    \* the server has marked the MoM down

abstract == <<run, held, has, lost>>

Over == {"finished", "queued"}

RunInit == run = "running" /\ held = TRUE /\ has = TRUE /\ lost = FALSE

\* the run ends, for good or to be rerun
End == run = "running" /\ run' \in {"exiting", "rerunning"} /\ UNCHANGED <<held, has, lost>>

\* the MoM deletes the job
Delete == run # "running" /\ has /\ has' = FALSE /\ UNCHANGED <<run, held, lost>>

\* the server lets go of the job
Leave == /\ \/ run = "exiting" /\ run' = "finished"
            \/ run = "rerunning" /\ run' = "queued"
         /\ held' = FALSE /\ UNCHANGED <<has, lost>>

\* the MoM is marked down, or up again
Contact == lost' = ~lost /\ UNCHANGED <<run, held, has>>

\* the server lets go of the job of a MoM that is marked down
GiveUp == /\ lost /\ run \notin Over
          /\ run' = IF Rerunnable THEN "queued" ELSE "finished"
          /\ held' = FALSE /\ UNCHANGED <<has, lost>>

RunNext == End \/ Delete \/ Leave \/ Contact \/ GiveUp

RunSpec == /\ RunInit /\ [][RunNext]_abstract
           /\ WF_abstract(Leave) /\ WF_abstract(run \in Over /\ Delete)
=============================================================================
