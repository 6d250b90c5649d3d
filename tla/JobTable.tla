------------------------------ MODULE JobTable ------------------------------
(***************************************************************************)
(* The job table of the PBS server: the list svr_alljobs of the jobs the   *)
(* server manages, the queues they are linked into, the state and substate *)
(* of each job, and the counters the server keeps beside the lists          *)
(* (sv_numjobs, sv_jobstates, qu_numjobs, qu_njstate).  The counters are    *)
(* redundant: every routine that links, unlinks or changes the state of a   *)
(* job has to move them, and queue deletion, routing limits, qstat and the  *)
(* shutdown sequence read only the counters, never the lists.               *)
(*                                                                          *)
(* The routines of svr_jobfunc.c and job_func.c that touch the table are    *)
(* operators that take a table and return a table; the handlers that call   *)
(* them are actions on the variable t.  What a MoM answers, what a client   *)
(* asks and whether a database call fails are nondeterministic here; the    *)
(* modules about the protocol between server and MoM use these operators.   *)
(***************************************************************************)
EXTENDS Integers, FiniteSets

CONSTANTS Jobs,          \* job ids
          Queues,        \* names a queue may have
          RouteQueues,   \* the queues of type QTYPE_RoutePush; the others execute jobs
          NoQueue,       \* a null ji_qhdr
          Chkpnt,        \* may jobs be checkpointed (Checkpoint attribute not "n")?
          HookDelete     \* may an execjob hook on the MoM reject a job with "delete"?

ASSUME TableAssumption ==
          /\ IsFiniteSet(Jobs)
          /\ RouteQueues \subseteq Queues
          /\ NoQueue \notin Queues
          /\ Queues \cap {"net", "later", "rejected"} = {}
          /\ Chkpnt \in BOOLEAN /\ HookDelete \in BOOLEAN

VARIABLE t               \* the table: see TableType

-----------------------------------------------------------------------------
(* States and substates of job.h; "none" is the substate of an id that no    *)
(* job has.  X (expired subjob) and B (begun array) belong to array jobs.    *)

JobStates == {"T", "Q", "H", "W", "R", "E", "X", "B", "M", "F"}

HistStates == {"M", "F"}

Substates == {"none", "TRANSIN", "TRANSICM", "TRNOUT", "QUEUED", "HELD", "WAITING",
              "PRERUN", "RUNNING", "SUSPEND", "SCHSUSP", "EXITING", "STAGEOUT",
              "STAGEDEL", "EXITED", "ABORT", "TERM", "RERUN", "RERUN1", "RERUN2",
              "RERUN3", "TERMINATED", "FINISHED", "FAILED", "MOVED"}

\* the substates svr_setjob_histinfo chooses from for a finished job
FinishSubstates == {"FINISHED", "FAILED", "TERMINATED"}

\* the fields of struct job, struct server and struct pbs_queue the table needs
TableType ==
  [st    : [Jobs -> JobStates],               \* ji_qs.ji_state
   ss    : [Jobs -> Substates],               \* ji_qs.ji_substate
   hold  : [Jobs -> BOOLEAN],                 \* JOB_ATR_hold is not zero
   wait  : [Jobs -> {"no", "future", "due"}], \* JOB_ATR_exectime and its work task
   chk   : [Jobs -> {"no", "set", "made"}],   \* JOB_SVFLG_CHKPT: "made" when a MoM
                                              \* really wrote a checkpoint
   disc  : [Jobs -> {"no", "now", "old"}],    \* ji_discard, waited for: of the present
                                              \* run, or of an earlier one
   qname : [Jobs -> Queues \cup {NoQueue}],   \* ji_qs.ji_queue
   all   : SUBSET Jobs,                       \* svr_alljobs
   qhdr  : [Jobs -> Queues \cup {NoQueue}],   \* ji_qhdr, and membership of qu_jobs
   svnum : Int,                               \* sv_numjobs
   sv    : [JobStates -> Int],                \* sv_jobstates
   qnum  : [Queues -> Int],                   \* qu_numjobs
   qst   : [Queues -> [JobStates -> Int]],    \* qu_njstate
   ques  : SUBSET Queues,                     \* svr_queues
   hist  : BOOLEAN]                           \* svr_history_enable

-----------------------------------------------------------------------------
(* Counters.                                                                *)

Shift(f, from, to) == [f EXCEPT ![from] = f[from] - 1,
                                ![to] = (IF from = to THEN f[from] - 1 ELSE f[to]) + 1]

Add(f, s, n) == [f EXCEPT ![s] = f[s] + n]

InState(tab, s) == {j \in tab.all : tab.st[j] = s}

InQueue(tab, q) == {j \in Jobs : tab.qhdr[j] = q}

InQueueState(tab, q, s) == {j \in Jobs : tab.qhdr[j] = q /\ tab.st[j] = s}

\* the states whose counters the loops of correct_ct set to zero:
\* indices below PBS_NUMJOBSTATE-4, that is TRANSIT .. EXITING
ResetStates == {"T", "Q", "H", "W", "R", "E"}

\* svr_jobfunc.c: recount after a counter was found negative
correct_ct(tab) ==
  [tab EXCEPT
     !.svnum = Cardinality(tab.all),
     !.sv    = [s \in JobStates |->
                  (IF s \in ResetStates THEN 0 ELSE tab.sv[s])
                     + Cardinality(InState(tab, s))],
     !.qnum  = [q \in Queues |->
                  IF q \in tab.ques THEN Cardinality(InQueue(tab, q) \cap tab.all)
                                    ELSE tab.qnum[q]],
     !.qst   = [q \in Queues |->
                  IF q \in tab.ques
                  THEN [s \in JobStates |->
                          (IF s \in ResetStates THEN 0 ELSE tab.qst[q][s])
                             + Cardinality(InQueueState(tab, q, s) \cap tab.all)]
                  ELSE tab.qst[q]]]

\* the queue a job names no longer exists ("there exist a small window ...")
UnknownQueue(tab, j) == tab.qname[j] \notin tab.ques

\* link a job; one whose queue is gone is linked, without a queue, only when
\* it is a history job.  Errors found after the linking leave the job linked:
\* the callers purge or abort it.
svr_enquejob(tab, j) ==
  LET linked == [tab EXCEPT !.all   = tab.all \cup {j},
                            !.svnum = tab.svnum + 1,
                            !.sv    = Add(tab.sv, tab.st[j], 1)]
      q == tab.qname[j]
  IN  IF UnknownQueue(tab, j)
      THEN IF tab.st[j] \in HistStates THEN linked ELSE tab
      ELSE [linked EXCEPT !.qhdr[j] = q,
                          !.qnum[q] = tab.qnum[q] + 1,
                          !.qst[q]  = Add(tab.qst[q], tab.st[j], 1)]

\* the job out of both lists, its counters decremented
Unlinked(tab, j) ==
  LET svr == IF j \in tab.all
             THEN [tab EXCEPT !.all   = tab.all \ {j},
                              !.svnum = tab.svnum - 1,
                              !.sv    = Add(tab.sv, tab.st[j], -1)]
             ELSE tab
      q == tab.qhdr[j]
  IN  IF q = NoQueue
      THEN svr
      ELSE [svr EXCEPT !.qhdr[j] = NoQueue,
                       !.qnum[q] = tab.qnum[q] - 1,
                       !.qst[q]  = Add(tab.qst[q], tab.st[j], -1)]

\* did a counter svr_dequejob decrements become negative?
bad_ct(tab, j) ==
  LET u == Unlinked(tab, j)
      q == tab.qhdr[j]
  IN  \/ j \in tab.all /\ (u.svnum < 0 \/ u.sv[tab.st[j]] < 0)
      \/ q # NoQueue /\ (u.qnum[q] < 0 \/ u.qst[q][tab.st[j]] < 0)

svr_dequejob(tab, j) ==
  IF bad_ct(tab, j) THEN correct_ct(Unlinked(tab, j)) ELSE Unlinked(tab, j)

-----------------------------------------------------------------------------
(* Job state.                                                               *)

\* mutant: the counters of the queue forgotten
ServerOnlyCounts(tab, j, ns) == [tab EXCEPT !.sv = Shift(tab.sv, tab.st[j], ns)]

\* move the counters of a job from its state to another one
MoveCounts(tab, j, ns) ==
  LET q == tab.qhdr[j] IN
  [tab EXCEPT !.sv  = Shift(tab.sv, tab.st[j], ns),
              !.qst = IF q = NoQueue THEN tab.qst
                      ELSE [tab.qst EXCEPT ![q] = Shift(tab.qst[q], tab.st[j], ns)]]

\* write ji_state and ji_substate
PutState(tab, j, ns, nss) == [tab EXCEPT !.st[j] = ns, !.ss[j] = nss]

svr_setjobstate(tab, j, ns, nss) ==
  IF tab.st[j] = "F"
  THEN tab
  ELSE LET moved == IF tab.ss[j] # "TRANSICM" /\ tab.st[j] # ns
                    THEN MoveCounts(tab, j, ns) ELSE tab
       IN  PutState(moved, j, ns, nss)

\* mutant: the state is returned for both results
SwappedEval(tab, j, forceeval) ==
  IF tab.hold[j] THEN <<"H", "H">> ELSE <<"Q", "Q">>

\* the state and substate a job ought to have
svr_evaljobstate(tab, j, forceeval) ==
  IF \/ tab.st[j] \in HistStates
     \/ ~forceeval /\ tab.st[j] \in {"R", "T"}
  THEN <<tab.st[j], tab.ss[j]>>
  ELSE IF tab.hold[j] THEN <<"H", "HELD">>
  ELSE IF tab.wait[j] = "future" THEN <<"W", "WAITING">>
  ELSE <<"Q", "QUEUED">>

\* the pair of calls nearly every handler ends with
EvalAndSet(tab, j, forceeval) ==
  LET new == svr_evaljobstate(tab, j, forceeval)
  IN  svr_setjobstate(tab, j, new[1], new[2])

\* mutant: the state is written and no counter moved
UncountedUpdate(tab, j, ns, nss) == PutState(tab, j, ns, nss)

svr_histjob_update(tab, j, ns, nss) ==
  LET moved == IF tab.st[j] # ns THEN MoveCounts(tab, j, ns) ELSE tab
  IN  PutState(moved, j, ns, nss)

\* keep a job as history; its work tasks are deleted.  (The name of the queue
\* a moved job is shown in is rewritten too; nothing enqueues the job again.)
svr_setjob_histinfo(tab, j, type, fin) ==
  LET upd == CASE type = "T_MOV_JOB"  -> svr_histjob_update(tab, j, "M", "MOVED")
               [] type = "T_FIN_JOB"  -> svr_histjob_update(tab, j, "F", fin)
               [] type = "T_MOM_DOWN" -> svr_histjob_update(tab, j, "F", "FAILED")
  IN  [upd EXCEPT !.wait[j] = "no"]

\* the job structure is freed; the id may be given to a new job
job_free(tab, j) ==
  [PutState(tab, j, "T", "none") EXCEPT
     !.hold[j] = FALSE, !.wait[j] = "no", !.chk[j] = "no", !.disc[j] = "no",
     !.qname[j] = NoQueue]

job_purge(tab, j) ==
  job_free(IF tab.ss[j] \in {"TRANSIN", "TRANSICM"} THEN tab ELSE svr_dequejob(tab, j), j)

\* mutant: svr_history_enable is not looked at
AlwaysHistory(tab, j, deletehistory, fin) ==
  IF deletehistory THEN job_purge(tab, j) ELSE svr_setjob_histinfo(tab, j, "T_FIN_JOB", fin)

svr_saveorpurge_finjobhist(tab, j, deletehistory, fin) ==
  IF tab.hist /\ ~deletehistory THEN svr_setjob_histinfo(tab, j, "T_FIN_JOB", fin)
                                ELSE job_purge(tab, j)

\* abort a job; killed says whether MoM took the SIGKILL of a running one
job_abt(tab, j, killed, deletehistory, fin) ==
  CASE tab.st[j] = "F" -> tab
    [] tab.st[j] = "R" ->
         LET ab == svr_setjobstate(tab, j, "R", "ABORT")
         IN  IF killed THEN ab ELSE svr_saveorpurge_finjobhist(ab, j, deletehistory, fin)
    [] tab.st[j] = "T" /\ tab.ss[j] = "TRNOUT" -> tab
    [] OTHER -> svr_saveorpurge_finjobhist(svr_setjobstate(tab, j, "E", "ABORT"),
                                           j, deletehistory, fin)

\* give a run up and put the job back
force_reque(tab, j) == EvalAndSet([tab EXCEPT !.chk[j] = "no"], j, TRUE)

\* post_discard_job once no MoM is waited for: the routine spares a job that
\* was put back meanwhile, and looks at no other state; ended jobs are ended again
Discarded(tab, j) ==
  LET d == [tab EXCEPT !.disc[j] = "no"]
  IN  CASE tab.st[j] = "Q" /\ tab.ss[j] = "QUEUED" -> d
        [] tab.ss[j] = "RERUN3" -> force_reque(d, j)
        [] OTHER -> IF tab.hist THEN svr_setjob_histinfo(d, j, "T_MOM_DOWN", "FAILED")
                                ELSE job_purge(d, j)

\* tell the MoMs of a run to discard it and say so (noack = 0); waits says
\* whether one of them is up.  A discard still waited for is not repeated.
discard_job(tab, j, waits) ==
  IF tab.disc[j] # "no" THEN tab
  ELSE IF waits THEN [tab EXCEPT !.disc[j] = "now"]
  ELSE Discarded(tab, j)

-----------------------------------------------------------------------------
(* Moving and routing.                                                      *)

\* qmove, or a route, to a queue of this server
local_move(tab, j, q) ==
  svr_enquejob([svr_dequejob(tab, j) EXCEPT !.qname[j] = q], j)

\* qmove, or a route, to another server: a child process sends the job
net_move(tab, j) == svr_setjobstate(tab, j, "T", "TRNOUT")

\* one attempt to route a job: the first destination that takes it is a queue
\* of this server or another server; none may take it now ("later"), or ever
\* ("rejected": no destination is left, or the job was too long in the queue)
job_route(tab, j, dest) ==
  CASE dest \in Queues    -> local_move(tab, j, dest)
    [] dest = "net"       -> net_move(tab, j)
    [] dest = "later"     -> tab
    [] dest = "rejected"  -> job_abt(tab, j, TRUE, FALSE, "FINISHED")

Destinations == t.ques \cup {"net", "later", "rejected"}

-----------------------------------------------------------------------------
(* Submission.                                                              *)

\* a job id is assigned and the attributes arrive; the queue exists now
req_quejob(j, q, hold, wait) ==
  /\ t.ss[j] = "none"
  /\ q \in t.ques
  /\ t' = [PutState(t, j, "T", "TRANSIN") EXCEPT
              !.hold[j] = hold, !.wait[j] = IF wait THEN "future" ELSE "no",
              !.qname[j] = q]

\* mutant: the job is linked with the substate of the commit
UnevaluatedCommit(j, outcome, dest) ==
  /\ t.ss[j] = "TRANSIN"
  /\ t' = svr_enquejob(PutState(t, j, "T", "TRANSICM"), j)

\* commit: evaluate the state, link the job, save it and, in a route queue,
\* try to route it once; every failure purges the job, but a user who may not
\* submit it leaves it as it is, until the connection is closed
req_commit(j, outcome, dest) ==
  /\ t.ss[j] = "TRANSIN"
  /\ LET cm == PutState(t, j, "T", "TRANSICM")
         en == svr_enquejob(EvalAndSet(cm, j, TRUE), j)
         routed == t.qname[j] \in RouteQueues
     IN  t' = IF outcome = "perm" THEN t                  \* svr_authorize_jobreq failed
              ELSE IF outcome = "entity"                  \* set_entity_* failed
              THEN job_purge(cm, j)
              ELSE IF outcome = "failed" \/ UnknownQueue(t, j) \/ (routed /\ dest = "rejected")
              THEN job_purge(en, j)
              ELSE IF routed THEN job_route(en, j, dest) ELSE en

\* the connection of a client closes in the middle of a submission (commit is
\* one step, so the job is not yet TRANSICM)
close_quejob(j) ==
  /\ t.ss[j] = "TRANSIN"
  /\ t' = job_purge(t, j)

-----------------------------------------------------------------------------
(* Holds and execution time.                                                *)

\* mutant: history jobs are not refused
RequestableHistory(j) == j \in t.all /\ t.st[j] # "E"

\* chk_job_request: the job is known, no history job, not exiting
Requestable(j) == j \in t.all /\ t.st[j] \notin HistStates \cup {"E"}

\* the hold is noted; when the job runs and its Checkpoint attribute allows
\* it, the MoM is asked to checkpoint it and the flag is set at once
req_holdjob(j) ==
  /\ Requestable(j)
  /\ ~t.hold[j]
  /\ LET held == [t EXCEPT !.hold[j] = TRUE]
     IN  t' = IF t.st[j] = "R" /\ t.ss[j] # "PRERUN" /\ Chkpnt
              THEN [held EXCEPT !.chk[j] = IF t.chk[j] = "no" THEN "set" ELSE t.chk[j]]
              ELSE EvalAndSet(held, j, FALSE)

req_releasejob(j) ==
  /\ Requestable(j)
  /\ t.hold[j]
  /\ t' = EvalAndSet([t EXCEPT !.hold[j] = FALSE], j, FALSE)

\* the clock passes the execution time of a job: its work task is due
exectime_passes(j) ==
  /\ t.wait[j] = "future"
  /\ t' = [t EXCEPT !.wait[j] = "due"]

job_wait_over(j) ==
  /\ t.wait[j] = "due"
  /\ t' = EvalAndSet([t EXCEPT !.wait[j] = "no"], j, FALSE)

-----------------------------------------------------------------------------
(* Moving jobs and queues.                                                  *)

req_movejob(j, dest) ==
  /\ Requestable(j)
  /\ t.st[j] \in {"Q", "H", "W"}
  /\ dest \in t.ques \cup {"net"}
  /\ t' = job_route(t, j, dest)

\* queue_route: the periodic attempt to route the jobs of a route queue
queue_route(j, dest) ==
  /\ j \in t.all /\ t.st[j] \in {"Q", "H", "W"}
  /\ t.qhdr[j] \in RouteQueues
  /\ t' = job_route(t, j, dest)

\* deleting a job in transit signals the child and marks the job
req_deletejob_transit(j) ==
  /\ j \in t.all /\ t.st[j] = "T"
  /\ t' = PutState(t, j, "T", "ABORT")

\* the child that sent the job for a qmove is done
post_movejob(j, sent) ==
  /\ j \in t.all /\ t.st[j] = "T"
  /\ t' = IF sent
          THEN IF t.hist THEN svr_setjob_histinfo(t, j, "T_MOV_JOB", "FINISHED")
                         ELSE job_purge(t, j)
          ELSE EvalAndSet(t, j, TRUE)

\* the child that sent the job along a route is done: when it failed, the
\* job leaves the Transit state and the next destination is tried at once,
\* unless the child was signalled to delete the job
post_routejob(j, r, dest) ==
  /\ j \in t.all /\ t.st[j] = "T"
  /\ t.qhdr[j] \in RouteQueues
  /\ t' = CASE r = "SEND_JOB_OK" ->
                 IF t.hist THEN svr_setjob_histinfo(t, j, "T_MOV_JOB", "FINISHED")
                           ELSE job_purge(t, j)
            [] r = "SEND_JOB_FATAL" /\ t.ss[j] = "ABORT" ->
                 svr_setjobstate(t, j, "Q", "ABORT")
            [] OTHER -> job_route(EvalAndSet(t, j, TRUE), j, dest)

\* exchange two jobs between their queues
req_orderjob(j1, j2) ==
  /\ Requestable(j1) /\ Requestable(j2)
  /\ t.st[j1] \notin {"R", "B"} /\ t.st[j2] \notin {"R", "B"}
  /\ t.qhdr[j1] # t.qhdr[j2]
  /\ LET sw == [t EXCEPT !.qname[j1] = t.qname[j2], !.qname[j2] = t.qname[j1]]
         dq == svr_dequejob(svr_dequejob(sw, j1), j2)
     IN  t' = svr_enquejob(svr_enquejob(dq, j1), j2)

mgr_queue_create(q) ==
  /\ q \notin t.ques
  /\ t' = [t EXCEPT !.ques = @ \cup {q}, !.qnum[q] = 0,
                    !.qst[q] = [s \in JobStates |-> 0]]

\* mutant: the history jobs of the queue keep pointing at it
PurgeKeepsLinks(q) ==
  /\ q \in t.ques
  /\ t.qnum[q] = 0 \/ (t.hist /\ \A j \in InQueue(t, q) : t.st[j] \in HistStates)
  /\ t' = [t EXCEPT !.ques = @ \ {q}]

\* mutant: the states of the jobs are not looked at
PurgeAnyQueue(q) ==
  /\ q \in t.ques /\ t.hist
  /\ t' = [t EXCEPT !.ques = @ \ {q}, !.qnum[q] = 0,
                    !.qst[q] = [s \in JobStates |-> 0],
                    !.qhdr   = [j \in Jobs |-> IF @[j] = q THEN NoQueue ELSE @[j]]]

\* delete a queue: refused while it has a job, unless history is enabled and
\* every job in it is a history job; those lose their queue
que_purge(q) ==
  /\ q \in t.ques
  /\ \/ t.qnum[q] = 0 /\ t' = [t EXCEPT !.ques = @ \ {q}]
     \/ /\ t.qnum[q] # 0 /\ t.hist
        /\ \A j \in InQueue(t, q) : t.st[j] \in HistStates \cup {"X"}
        /\ t' = [t EXCEPT !.ques = @ \ {q},
                          !.qnum[q] = @ - Cardinality(InQueue(t, q)),
                          !.qst[q]  = [s \in JobStates |->
                                         @[s] - Cardinality(InQueueState(t, q, s))],
                          !.qhdr    = [j \in Jobs |-> IF @[j] = q THEN NoQueue ELSE @[j]]]

-----------------------------------------------------------------------------
(* Running a job.                                                           *)

\* qrun or the scheduler: chk_job_torun, then svr_strtjob2; sent says whether
\* send_job accepted the job for the MoM
req_runjob(j, sent) ==
  /\ Requestable(j)
  /\ t.qhdr[j] \in Queues \ RouteQueues
  /\ t.st[j] # "T"
  /\ t.ss[j] \notin {"PRERUN", "RUNNING"}
  /\ LET old == [t EXCEPT !.disc[j] = IF t.disc[j] = "no" THEN "no" ELSE "old"]
         run == svr_setjobstate(old, j, "R", "PRERUN")
     IN  t' = IF sent THEN run ELSE EvalAndSet(run, j, TRUE)

\* the MoM reports a session: the job runs
job_is_running(j) ==
  /\ j \in t.all /\ t.st[j] = "R" /\ t.ss[j] = "PRERUN"
  /\ t' = svr_setjobstate(t, j, "R", "RUNNING")

\* the MoM refused the job; an execjob hook may ask for its deletion: the
\* state is then written without the counters and the job aborted
post_sendmom_failed(j, hookdelete, deletehistory) ==
  /\ j \in t.all /\ t.st[j] = "R" /\ t.ss[j] = "PRERUN"
  /\ t' = IF HookDelete /\ hookdelete
          THEN job_abt(PutState(t, j, "Q", "QUEUED"), j, TRUE,
                       deletehistory, "FAILED")
          ELSE EvalAndSet(t, j, TRUE)

\* the child that sends the job was signalled: the job is aborted, wherever it
\* runs, and put back.  (Without history a job whose SIGKILL could not be sent
\* is freed by job_abt and used after that; the case is left out.)
post_sendmom_signal(j, killed) ==
  /\ j \in t.all /\ t.st[j] = "R" /\ t.ss[j] = "PRERUN"
  /\ killed \/ t.hist
  /\ t' = force_reque(job_abt(t, j, killed, FALSE, "FAILED"), j)

\* suspend and resume
post_signal_req(j, ss) ==
  /\ j \in t.all /\ t.st[j] = "R" /\ t.ss[j] \in {"RUNNING", "SUSPEND", "SCHSUSP"}
  /\ t' = svr_setjobstate(t, j, "R", ss)

\* rerun asked for: the MoM is told to kill the job
req_rerunjob2(j) ==
  /\ j \in t.all /\ t.st[j] = "R" /\ t.ss[j] = "RUNNING"
  /\ t' = svr_setjobstate([t EXCEPT !.chk[j] = "no"], j, "R", "RERUN")

\* the MoM has checkpointed the job for a hold: the substate alone is written.
\* The MoM answers after it sent the obituary, so the job may be held by now;
\* a checkpoint that can be moved is no longer at the MoM.  A MoM that does
\* not checkpoint (PBSE_NOSUP) or fails changes nothing.
post_hold(j, mig) ==
  /\ j \in t.all /\ t.st[j] \notin HistStates \cup {"T"} /\ t.chk[j] = "set"
  /\ t' = PutState([t EXCEPT !.chk[j] = IF mig THEN "no" ELSE "made"], j, t.st[j], "RERUN")

\* the mother superior of a job stayed down: a job that can be rerun is marked
\* before its other MoMs are told to discard it.  (An exiting job that waited
\* for a restart has no nodes; it is not told apart.)
node_down_requeue(j, rerunable, waits) ==
  /\ j \in t.all /\ t.st[j] \in {"R", "E"}
  /\ t' = discard_job(IF rerunable THEN PutState(t, j, t.st[j], "RERUN3") ELSE t, j, waits)

\* what the exit status of an obituary makes of the substate: a run that
\* ended, one to be rerun, one that may not be, one that failed before it
\* began, a restart that failed
ObitSubstate(j, status) ==
  CASE status = "ended"                   -> t.ss[j]
    [] status \in {"rerun", "badrestart"} -> "RERUN"
    [] status = "norerun"                 -> "EXITING"
    [] status = "retry"                   -> "RERUN2"

ObitStatus == {"ended", "rerun", "badrestart", "norerun", "retry"}

\* the obituary of a run: rerun processing starts when the substate says so,
\* else end processing, unless the job has a checkpoint and is put back
job_obit(j, status) ==
  /\ j \in t.all
  /\ t.st[j] = "R" \/ (t.st[j] = "E" /\ t.ss[j] = "TERM")
  /\ LET ss == ObitSubstate(j, status)
         ck == IF status = "badrestart" THEN [t EXCEPT !.chk[j] = "no"] ELSE t
         ex == svr_setjobstate(t, j, "E", "EXITING")
     IN  t' = IF ss \in {"RERUN", "RERUN2"} THEN svr_setjobstate(ck, j, "E", ss)
              ELSE IF t.chk[j] # "no"       THEN EvalAndSet(ex, j, TRUE)
              ELSE ex

\* the obituary of a job that can be restarted from a checkpoint, which stays
\* at the MoM, and of one the MoM would not start for security
job_obit_requeue(j, security) ==
  /\ j \in t.all
  /\ t.st[j] = "R" \/ (t.st[j] = "E" /\ t.ss[j] = "TERM")
  /\ security \/ Chkpnt
  /\ t' = IF security
          THEN svr_setjobstate([t EXCEPT !.hold[j] = TRUE], j, "H", "HELD")
          ELSE EvalAndSet([t EXCEPT !.chk[j] = "made"], j, TRUE)

\* one stage of end processing: files copied out, staged files deleted, the
\* job deleted at the MoM; when a sister failed to delete it (PBSE_SISCOMM) the
\* job stays until it is discarded
on_job_exit(j, deletehistory, fin, waits) ==
  /\ j \in t.all /\ t.st[j] = "E"
  /\ \/ /\ t.ss[j] \in {"EXITING", "ABORT"}
        /\ t' = svr_setjobstate(t, j, "E", "STAGEOUT")
     \/ /\ t.ss[j] = "STAGEOUT"
        /\ t' = svr_setjobstate(t, j, "E", "STAGEDEL")
     \/ /\ t.ss[j] = "STAGEDEL"
        /\ t' = svr_setjobstate(t, j, "E", "EXITED")
     \/ /\ t.ss[j] = "EXITED"
        /\ \/ t' = svr_saveorpurge_finjobhist(t, j, deletehistory, fin)
           \/ t' = discard_job(t, j, waits)

\* one stage of rerun processing
on_job_rerun(j, waits) ==
  /\ j \in t.all /\ t.st[j] = "E"
  /\ \/ t.ss[j] = "RERUN"  /\ t' = svr_setjobstate(t, j, "E", "RERUN1")
     \/ t.ss[j] = "RERUN1" /\ t' = svr_setjobstate(t, j, "E", "RERUN2")
     \/ t.ss[j] = "RERUN2" /\ t' = svr_setjobstate(t, j, "E", "RERUN3")
     \/ t.ss[j] = "RERUN3" /\ t' = EvalAndSet(t, j, FALSE)
     \/ t.ss[j] = "RERUN3" /\ t' = discard_job(t, j, waits)

\* qrerun -W force, or a MoM that does not know the job it is to rerun: the
\* run is given up
req_rerunjob_force(j) ==
  /\ j \in t.all /\ t.st[j] = "R"
  /\ t' = force_reque(PutState(t, j, "R", "RERUN3"), j)

\* the last MoM a discard waits for answers or is found down.  An answer
\* counts when the job has not been run again, in whatever state it is by
\* then; the end of a stream counts for the jobs on the nodes of the MoM.
post_discard_job(j) ==
  /\ j \in t.all
  /\ t.disc[j] = "now" \/ (t.disc[j] = "old" /\ t.st[j] \in {"R", "E"})
  /\ t' = Discarded(t, j)

\* qdel of a job that is not running
req_deletejob(j, deletehistory) ==
  /\ Requestable(j) /\ t.st[j] \in {"Q", "H", "W"} /\ t.chk[j] = "no"
  /\ t' = job_abt(t, j, TRUE, deletehistory, "TERMINATED")

\* qdel of a job that waits to be restarted from a checkpoint: the MoM that
\* has the checkpoint goes through end processing
req_deletejob_chkpt(j) ==
  /\ Requestable(j) /\ t.st[j] \in {"Q", "H", "W"} /\ t.chk[j] # "no"
  /\ t' = svr_setjobstate(t, j, "E", "EXITING")

\* qdel -W force of a running job, or of one whose terminate action runs; of
\* another exiting job, through job_abt, or by end processing from its start
\* when the flag says it has a checkpoint
req_deletejob_force(j, deletehistory) ==
  /\ j \in t.all /\ t.st[j] \in {"R", "E"}
  /\ LET atmom == t.st[j] = "R" \/ t.ss[j] = "TERM"
         ss    == IF atmom THEN "EXITED" ELSE "ABORT"
     IN  t' = IF ~atmom /\ t.chk[j] # "no"
              THEN svr_setjobstate(t, j, "E", "EXITING")
              ELSE svr_saveorpurge_finjobhist(svr_setjobstate(t, j, "E", ss), j,
                                              deletehistory, "TERMINATED")

\* qdel of a job that is being rerun: "deleting instead of reruning"
req_deletejob_rerun(j) ==
  /\ j \in t.all /\ t.st[j] = "R" /\ t.ss[j] = "RERUN"
  /\ t' = PutState(t, j, "R", "RUNNING")

\* the MoM answered the termination signal of a qdel: its terminate action
\* runs, or it does not know the job
post_delete_mom1(j, deletehistory) ==
  /\ j \in t.all /\ t.st[j] \in {"R", "E"}
  /\ \/ t' = svr_setjobstate(t, j, "E", "TERM")
     \/ /\ t.ss[j] # "PRERUN"
        /\ t' = svr_saveorpurge_finjobhist(t, j, deletehistory, "TERMINATED")

-----------------------------------------------------------------------------
(* History.                                                                 *)

\* svr_clean_job_history, and qdel -x of a finished job
svr_clean_job_history(j) ==
  /\ j \in t.all /\ t.st[j] \in HistStates \cup {"X"}
  /\ t' = job_purge(t, j)

\* the server a job was moved to says that it ended: the substate of the
\* moved job follows
track_history_job(j) ==
  /\ t.hist
  /\ j \in t.all /\ t.st[j] = "M"
  /\ t' = svr_histjob_update(t, j, "M", "FINISHED")

set_job_history_enable ==
  /\ ~t.hist
  /\ t' = [t EXCEPT !.hist = TRUE]

\* history jobs are purged at once.  The loop over svr_alljobs is written in
\* closed form, which is what job_purge of one job after the other comes to
\* as long as no counter is wrong (see HookDelete).
unset_job_history_enable ==
  /\ t.hist /\ ~HookDelete
  /\ LET H == {j \in t.all : t.st[j] \in HistStates}
         Clear(f, v) == [j \in Jobs |-> IF j \in H THEN v ELSE f[j]]
     IN  t' = [t EXCEPT
                 !.hist  = FALSE,
                 !.all   = @ \ H,
                 !.svnum = @ - Cardinality(H),
                 !.sv    = [s \in JobStates |-> @[s] - Cardinality(InState(t, s) \cap H)],
                 !.qnum  = [q \in Queues |-> @[q] - Cardinality(InQueue(t, q) \cap H)],
                 !.qst   = [q \in Queues |-> [s \in JobStates |->
                              @[q][s] - Cardinality(InQueueState(t, q, s) \cap H)]],
                 !.qhdr  = Clear(t.qhdr, NoQueue),  !.qname = Clear(t.qname, NoQueue),
                 !.st    = Clear(t.st, "T"),        !.ss    = Clear(t.ss, "none"),
                 !.hold  = Clear(t.hold, FALSE),    !.wait  = Clear(t.wait, "no"),
                 !.chk   = Clear(t.chk, "no"),      !.disc  = Clear(t.disc, "no")]

-----------------------------------------------------------------------------
Init ==
  t = [st    |-> [j \in Jobs |-> "T"],
       ss    |-> [j \in Jobs |-> "none"],
       hold  |-> [j \in Jobs |-> FALSE],
       wait  |-> [j \in Jobs |-> "no"],
       chk   |-> [j \in Jobs |-> "no"],
       disc  |-> [j \in Jobs |-> "no"],
       qname |-> [j \in Jobs |-> NoQueue],
       all   |-> {},
       qhdr  |-> [j \in Jobs |-> NoQueue],
       svnum |-> 0,
       sv    |-> [s \in JobStates |-> 0],
       qnum  |-> [q \in Queues |-> 0],
       qst   |-> [q \in Queues |-> [s \in JobStates |-> 0]],
       ques  |-> Queues,
       hist  |-> FALSE]

Submission ==
  \E j \in Jobs :
     \/ \E q \in Queues, hold, wait \in BOOLEAN : req_quejob(j, q, hold, wait)
     \/ \E outcome \in {"perm", "entity", "failed", "ok"}, dest \in Destinations :
           req_commit(j, outcome, dest)
     \/ close_quejob(j)

HoldAndWait ==
  \E j \in Jobs :
     \/ req_holdjob(j) \/ req_releasejob(j) \/ exectime_passes(j) \/ job_wait_over(j)

Moving ==
  \/ \E j \in Jobs :
       \/ \E dest \in Destinations : req_movejob(j, dest) \/ queue_route(j, dest)
       \/ req_deletejob_transit(j)
       \/ \E sent \in BOOLEAN : post_movejob(j, sent)
       \/ \E r \in {"SEND_JOB_OK", "SEND_JOB_FATAL", "SEND_JOB_RETRY"},
             dest \in Destinations : post_routejob(j, r, dest)
  \/ \E j1, j2 \in Jobs : req_orderjob(j1, j2)
  \/ \E q \in Queues : mgr_queue_create(q) \/ que_purge(q)

Running ==
  \E j \in Jobs :
     \/ \E sent \in BOOLEAN : req_runjob(j, sent)
     \/ job_is_running(j)
     \/ \E hookdelete, dh \in BOOLEAN : post_sendmom_failed(j, hookdelete, dh)
     \/ \E killed \in BOOLEAN : post_sendmom_signal(j, killed)
     \/ \E ss \in {"RUNNING", "SUSPEND", "SCHSUSP"} : post_signal_req(j, ss)
     \/ req_rerunjob2(j)
     \/ \E rerunable, waits \in BOOLEAN : node_down_requeue(j, rerunable, waits)
     \/ \E mig \in BOOLEAN : post_hold(j, mig)
     \/ \E status \in ObitStatus : job_obit(j, status)
     \/ \E security \in BOOLEAN : job_obit_requeue(j, security)
     \/ \E dh, waits \in BOOLEAN, fin \in FinishSubstates : on_job_exit(j, dh, fin, waits)
     \/ \E waits \in BOOLEAN : on_job_rerun(j, waits)
     \/ req_rerunjob_force(j) \/ post_discard_job(j)

Deleting ==
  \E j \in Jobs, dh \in BOOLEAN :
     \/ req_deletejob(j, dh)
     \/ req_deletejob_chkpt(j)
     \/ req_deletejob_force(j, dh)
     \/ req_deletejob_rerun(j)
     \/ post_delete_mom1(j, dh)

History ==
  \/ \E j \in Jobs : svr_clean_job_history(j) \/ track_history_job(j)
  \/ set_job_history_enable
  \/ unset_job_history_enable

Next == Submission \/ HoldAndWait \/ Moving \/ Running \/ Deleting \/ History

Spec == Init /\ [][Next]_t

-----------------------------------------------------------------------------
(* Properties.                                                              *)

\* The table has its type.
TypeOK == t \in TableType

\* The server's counters say what its job list says: sv_numjobs is the number
\* of jobs linked in svr_alljobs and sv_jobstates[s] the number of those in
\* state s.  pbsd_main.c ends the server only when the counters of Running and
\* Exiting are zero, so a counter left behind stops the shutdown for ever.
ServerCounts ==
  /\ t.svnum = Cardinality(t.all)
  /\ \A s \in JobStates : t.sv[s] = Cardinality(InState(t, s))

\* The counters of every queue say what its list says; que_purge and
\* job_route decide from them alone.
QueueCounts ==
  \A q \in Queues :
     /\ t.qnum[q] = Cardinality(InQueue(t, q))
     /\ \A s \in JobStates : t.qst[q][s] = Cardinality(InQueueState(t, q, s))

\* No job points at a queue structure que_purge has freed, and a job that is
\* in a queue is in svr_alljobs too.
NoDanglingQueue ==
  \A j \in Jobs : t.qhdr[j] # NoQueue => t.qhdr[j] \in t.ques /\ j \in t.all

\* Only history jobs are without a queue: the handlers of requests for live
\* jobs (req_runjob, req_movejob, job_route) dereference ji_qhdr unchecked.
OnlyHistoryUnqueued ==
  \A j \in t.all : t.qhdr[j] = NoQueue => t.st[j] \in HistStates

\* A job is unknown to svr_alljobs exactly as long as it is being submitted.
\* job_purge looks only at the substate to decide whether to unlink the job:
\* a linked job with a submission substate would be freed inside the lists.
NewJobsApart ==
  \A j \in Jobs : t.ss[j] \in {"none", "TRANSIN", "TRANSICM"} <=> j \notin t.all

\* Without job_history_enable the server keeps no history job: every handler
\* that ends a job asks svr_history_enable, at the end of what may have been
\* a long exchange with a MoM or a destination server.
NoHistoryWhenOff ==
  ~t.hist => \A j \in t.all : t.st[j] \notin HistStates

\* A history job never comes back to life, whatever arrives for it late: it is
\* purged, or stays what it is, or a moved job whose discard is answered late
\* is made a finished one.  Its substate may still change (post_discard_job,
\* track_history_job); its state is the one thing every handler tells it by.
HistoryIsFinal ==
  [][\A j \in t.all : t.st[j] \in HistStates =>
        j \notin t'.all \/ t'.st[j] \in {t.st[j], "F"}]_t

\* A job whose run is over is ended or put back by its end processing alone:
\* it is not queued again while end processing has not finished with it.
ExitingLeavesByEndProcessing ==
  [][\A j \in t.all : t.st[j] = "E" /\ t.ss[j] \notin {"RERUN3", "TERM"} /\ j \in t'.all =>
        t'.st[j] \in {"E", "F"}]_t

\* JOB_SVFLG_CHKPT says that a MoM has a checkpoint of the job: job_obit, which
\* puts a job back instead of ending it when the flag is set, never puts back
\* a job that ran without a checkpoint having been made.
CheckpointFlagMeansFile ==
  [][\A j \in t.all : t.ss[j] = "RUNNING" /\ t'.st[j] \in {"Q", "H", "W"} =>
        t'.chk[j] # "set"]_t

=============================================================================
