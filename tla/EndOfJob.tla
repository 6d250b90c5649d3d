------------------------------ MODULE EndOfJob ------------------------------
(***************************************************************************)
(* The end of one run of a job: the exchange between the server and the    *)
(* MoM that ran it, over one TPP stream that may break.                     *)
(*                                                                          *)
(* The MoM announces the end with an obituary and repeats it until the      *)
(* server moves on.  The server then asks her, stage by stage, to return,   *)
(* copy and delete files and at last to delete the job, and lets go of the  *)
(* job when she has answered the last request.  Nothing ties an answer to   *)
(* the stage it was asked in: on_job_exit and on_job_rerun look at the      *)
(* substate the job has when the answer comes.  When the stream breaks all  *)
(* outstanding requests are answered with an error, the MoM is marked down, *)
(* and end of job processing goes on once she has said hello again.         *)
(*                                                                          *)
(* Jobs with one execution host; the sister MoMs of larger jobs and what    *)
(* happens to the job after this run are not part of this module.           *)
(***************************************************************************)
EXTENDS Naturals, Sequences

CONSTANTS Needs,           \* what a job's files may need: sets of requests, see ASSUME
          Statuses,        \* the exit statuses the MoM may report
          Rerunnable,      \* the job's Rerunable attribute
          SandboxPrivate,  \* the job has sandbox=private
          MaxPending,      \* bound: a MoM repeats an obituary only while fewer than
                           \* this many tasks and requests of the job and messages
                           \* to the MoM are pending
          MaxBreaks        \* bound: how often the stream breaks

ASSUME EndAssumption ==
          /\ Needs \subseteq SUBSET {"Rerun", "CopyFiles", "DelFiles"} /\ Needs # {}
          /\ Statuses \subseteq {"OK", "RERUN", "RETRY"} /\ Statuses # {}
          /\ Rerunnable \in BOOLEAN /\ SandboxPrivate \in BOOLEAN
          /\ MaxPending \in Nat /\ MaxBreaks \in Nat

VARIABLES sv,      \* the server's record of the job and its pending work
          mom,     \* the MoM's record of the job
          toMom,   \* messages on the stream, server to MoM
          toSvr,   \* and MoM to server
          link,    \* "down"; "hello": connected again, still marked INUSE_DOWN; "up"
          timer,   \* msr_wktask: node_down_requeue is scheduled
          breaks,  \* how often the stream has broken
          phase    \* of the server's main loop: "net", "immed" or "timed"

vars == <<sv, mom, toMom, toSvr, link, timer, breaks, phase>>

-----------------------------------------------------------------------------
ExitStages == {"EXITING", "STAGEOUT", "STAGEDEL", "EXITED"}

RerunStages == {"RERUN", "RERUN1", "RERUN2", "RERUN3"}

Exiting == ExitStages \cup RerunStages       \* the substates of JOB_STATE_EXITING

Left == {"FINISHED", "QUEUED"}               \* the run is over for the server

Request == {"Rerun", "CopyFiles", "DelFiles", "DeleteJob"}

\* what the job's files need (JOB_ATR_stagein and stageout, and a spool to return);
\* ji_substate; ji_momhandle (stale: the number of a stream that has broken);
\* whether nodes and resources are assigned; the work tasks for on_job_exit or
\* on_job_rerun, immediate, timed, and waiting in msr_deferred_cmds for an answer;
\* and the requests a step is about to write
ServerType ==
  [needs : Needs, ss : {"RUNNING"} \cup Exiting \cup Left, handle : {"none", "live", "stale"},
   nodes : BOOLEAN, immed : Nat, timed : Nat, deferred : Nat, ask : Seq(Request)]

\* the MoM's ji_substate ("none": she does not have the job), the exit status,
\* ji_mompost, whether ji_preq is a request on the present stream, and the
\* children whose end answers a request through a work task of their own
MomType ==
  [ss : {"none", "RUNNING", "OBIT", "EXITED"}, stat : Statuses \cup {"none", "INITABT"},
   post : {"none", "post_cpyfile", "post_delfile"}, preq : BOOLEAN, kids : Nat]

Message == [k : {"Ask"}, r : Request]
             \cup [k : {"Reply"}, code : {"done", "TRYAGAIN"}]
             \cup [k : {"JOBOBIT"}, stat : Statuses \cup {"INITABT"}]
             \cup [k : {"HELLO4"}, has : BOOLEAN]
             \cup [k : {"BADOBIT", "DISCARD_JOB", "CLUSTER_ADDRS", "DISCARD_DONE", "MOM_READY"}]

-----------------------------------------------------------------------------
(* The server's stages.  An operator takes the record sv and returns it with *)
(* the requests to write in the field ask.                                    *)

Immediately(s) == [s EXCEPT !.immed = @ + 1]

Later(s) == [s EXCEPT !.timed = @ + 1]

\* A request is written and waits for its answer.  Writing to a stream that has
\* broken fails, and the stage goes on as if the MoM had answered with an error.
issue_Drequest(s, r, failed) ==
  IF s.handle = "stale" THEN failed
                        ELSE [s EXCEPT !.deferred = @ + 1, !.ask = Append(@, r)]

rel_resc(s) == [s EXCEPT !.nodes = FALSE]

\* the job is freed and with it its work tasks, the deferred ones included
job_purge(s) == [s EXCEPT !.ss = "FINISHED", !.handle = "none",
                          !.immed = 0, !.timed = 0, !.deferred = 0]

\* the job is evaluated and queued again; its work tasks stay
force_reque(s) == [rel_resc(s) EXCEPT !.ss = "QUEUED", !.handle = "none"]

At(s, stage) == [s EXCEPT !.ss = stage]

\* a stage entered with no answer: ask for what it needs (on failure go on to next)
\* or, if the job needs nothing, leave a task for the following stage
Stage(s, r, next, skipTo) ==
  IF r \in s.needs THEN issue_Drequest(s, r, next) ELSE Immediately(At(s, skipTo))

ExitedFirst(s) == LET e == At(s, "EXITED")
                  IN  issue_Drequest(e, "DeleteJob", job_purge(rel_resc(e)))

StagedelFirst(s) == LET d == At(s, "STAGEDEL")
                    IN  Stage(d, "DelFiles", ExitedFirst(d), "EXITED")

StageoutFirst(s) == LET o == At(s, "STAGEOUT")
                    IN  Stage(o, "CopyFiles", StagedelFirst(o), "STAGEDEL")

\* on_job_exit with a work task that is no answer, and with an answer of the MoM
ExitFirst(s) ==
  CASE s.ss \in {"EXITING", "STAGEOUT"} -> StageoutFirst(s)
    [] s.ss = "STAGEDEL"                -> StagedelFirst(s)
    [] s.ss = "EXITED"                  -> ExitedFirst(s)

ExitReply(s, code) ==
  CASE s.ss = "EXITING"                          -> StageoutFirst(s)
    [] s.ss = "STAGEOUT"                         -> StagedelFirst(s)
    [] s.ss = "STAGEDEL" /\ code = "done"        -> ExitedFirst(s)
    [] s.ss = "EXITED" /\ code = "done"          -> job_purge(rel_resc(s))
    [] s.ss \in {"STAGEDEL", "EXITED"} /\ code = "TRYAGAIN" -> Later(s)

Rerun3First(s) == LET r == At(s, "RERUN3")
                  IN  issue_Drequest(r, "DeleteJob", force_reque(r))

Rerun2First(s) == LET r == At(s, "RERUN2") IN Stage(r, "DelFiles", Rerun3First(r), "RERUN3")

Rerun1First(s) == LET r == At(s, "RERUN1") IN Stage(r, "CopyFiles", Rerun2First(r), "RERUN2")

\* on_job_rerun likewise; a job that has been queued again has no stage left
RerunFirst(s) ==
  CASE s.ss = "RERUN"  -> Stage(s, "Rerun", Rerun1First(s), "RERUN1")
    [] s.ss = "RERUN1" -> Rerun1First(s)
    [] s.ss = "RERUN2" -> Rerun2First(s)
    [] s.ss = "RERUN3" -> Rerun3First(s)
    [] OTHER           -> s

\* Mutant: the last stage of a rerun lets go of the job like that of an exit.
PurgesRerun(s) ==
  CASE s.ss = "RERUN"  -> Rerun1First(s)
    [] s.ss = "RERUN1" -> Rerun2First(s)
    [] s.ss = "RERUN2" -> Rerun3First(s)
    [] s.ss = "RERUN3" -> job_purge(rel_resc(s))
    [] OTHER           -> s

RerunReply(s) ==
  CASE s.ss = "RERUN"  -> Rerun1First(s)
    [] s.ss = "RERUN1" -> Rerun2First(s)
    [] s.ss = "RERUN2" -> Rerun3First(s)
    [] s.ss = "RERUN3" -> force_reque(s)
    [] OTHER           -> s

First(s) == IF s.ss \in ExitStages THEN ExitFirst(s) ELSE RerunFirst(s)

Answered(s, code) == IF s.ss \in ExitStages THEN ExitReply(s, code) ELSE RerunReply(s)

\* The head of both routines, mom_comm: with the MoM up it connects the job to her
\* and the routine goes on; otherwise it comes back later, but a job that has been
\* connected before just returns.
Connected(s) == [s EXCEPT !.handle = IF @ = "none" THEN "live" ELSE @]

\* Mutant: a routine that cannot connect to the MoM does not come back later.
NoRetry(s) == s

Unreachable(s) == IF s.handle = "none" THEN Later(s) ELSE s

mom_comm(s, next) == IF link = "up" THEN next ELSE Unreachable(s)

\* the step's result: its requests are written to the stream
Write(s) == /\ sv' = [s EXCEPT !.ask = <<>>]
            /\ toMom' = toMom \o [i \in 1..Len(s.ask) |-> [k |-> "Ask", r |-> s.ask[i]]]

-----------------------------------------------------------------------------
Init ==
  /\ \E needs \in Needs :
       sv = [needs |-> needs, ss |-> "RUNNING", handle |-> "none", nodes |-> TRUE,
             immed |-> 0, timed |-> 0, deferred |-> 0, ask |-> <<>>]
  /\ mom = [ss |-> "RUNNING", stat |-> "none", post |-> "none", preq |-> FALSE, kids |-> 0]
  /\ toMom = <<>> /\ toSvr = <<>>
  /\ link = "up" /\ timer = FALSE /\ breaks = 0 /\ phase = "net"

\* The main loop: immediate tasks until there are none, then the timed tasks that are
\* due, then the messages that have come, as many as there are.  A timed task or a
\* message may leave an immediate task, and more of its kind may come before that runs.
immed_phase == phase' = "immed"

timed_phase == (phase = "timed" \/ sv.immed = 0) /\ phase' = "timed"

net_phase == (phase # "immed" \/ sv.immed = 0) /\ phase' = "net"

(* The server: a work task is dispatched from its main loop, a message is read. *)

dispatch(field) ==
  /\ sv[field] > 0
  /\ LET s == [sv EXCEPT ![field] = @ - 1] IN Write(mom_comm(s, First(Connected(s))))
  /\ UNCHANGED <<mom, toSvr, link, timer, breaks>>

dispatch_immed == dispatch("immed") /\ immed_phase

dispatch_timed == dispatch("timed") /\ timed_phase

Read(kind) == toSvr # <<>> /\ Head(toSvr).k = kind /\ toSvr' = Tail(toSvr) /\ net_phase

\* Mutant: an answer that belongs to no deferred request is counted as one.
UnmatchedReply ==
  /\ Read("Reply")
  /\ LET code == Head(toSvr).code
         s    == [sv EXCEPT !.deferred = @ - 1]
     IN  IF sv.ss \in Left THEN sv' = s /\ UNCHANGED toMom
         ELSE Write(mom_comm(s, Answered(Connected(s), code)))
  /\ UNCHANGED <<mom, link, timer, breaks>>

\* an answer is matched with its deferred request; one that belongs to a request of
\* a purged job finds none
process_DreplyRPP ==
  /\ Read("Reply")
  /\ LET code == Head(toSvr).code
         s    == [sv EXCEPT !.deferred = @ - 1]
     IN  IF sv.deferred = 0 THEN UNCHANGED <<sv, toMom>>
         ELSE Write(mom_comm(s, Answered(Connected(s), code)))
  /\ UNCHANGED <<mom, link, timer, breaks>>

\* what an exit status makes of the job; a rejected job that has run before
\* (JOB_SVFLG_HASRUN) is rerun, another one loses its files
ObitSubstates(stat) ==
  CASE stat = "OK"    -> {"EXITING"}
    [] stat = "RETRY" -> {"RERUN2", "RERUN"}
    [] stat \in {"RERUN", "INITABT"} -> IF Rerunnable THEN {"RERUN"} ELSE {"EXITING"}

\* An obituary.  Of a job that is exiting it restarts end processing at the substate
\* the job is in; the tasks there are stay (the search for the deferred one looks in
\* a list that issue_Drequest has taken it from).
job_obit ==
  /\ Read("JOBOBIT")
  /\ LET fresh == Immediately([sv EXCEPT !.handle = "none"])
     IN  CASE sv.ss \in Left    -> sv' = sv /\ toMom' = Append(toMom, [k |-> "BADOBIT"])
           [] sv.ss \in Exiting -> sv' = fresh /\ UNCHANGED toMom
           [] sv.ss = "RUNNING" -> (\E ss \in ObitSubstates(Head(toSvr).stat) : sv' = At(fresh, ss))
                                   /\ UNCHANGED toMom
  /\ UNCHANGED <<mom, link, timer, breaks>>

\* Mutant: the jobs a MoM reports are not compared with the server's.
HelloUnchecked ==
  /\ Read("HELLO4")
  /\ timer' = FALSE
  /\ toMom' = Append(toMom, [k |-> "CLUSTER_ADDRS"])
  /\ UNCHANGED <<sv, mom, link, breaks>>

\* IS_HELLO4: the requeue of jobs is called off, jobs the MoM should not have are
\* discarded, the MoM is sent the addresses
is_hello4 ==
  /\ Read("HELLO4")
  /\ timer' = FALSE
  /\ toMom' = toMom \o (IF Head(toSvr).has /\ sv.ss \in Left
                        THEN <<[k |-> "DISCARD_JOB"]>> ELSE <<>>)
                    \o <<[k |-> "CLUSTER_ADDRS"]>>
  /\ UNCHANGED <<sv, mom, link, breaks>>

\* The answer to the addresses: the MoM is up.  It takes a round trip to her, in
\* which the server's main loop has emptied its list of immediate tasks.
is_mom_ready ==
  /\ sv.immed = 0
  /\ Read("MOM_READY")
  /\ link' = "up"
  /\ UNCHANGED <<sv, mom, toMom, timer, breaks>>

is_discard_done ==
  /\ Read("DISCARD_DONE")
  /\ UNCHANGED <<sv, mom, toMom, link, timer, breaks>>

\* momptr_down marks the MoM down and arms the requeue of her jobs; it does so once
\* an hour, and not again before MOM_READY
momptr_down == timer' = (IF link = "up" THEN sv.nodes ELSE timer)

\* The close function of the stream answers all deferred requests with an end of file
\* while the MoM is not yet marked down.  In every stage this closes the connection
\* and leaves an immediate task (conn_to_mom_failed).
EofToAll(s) ==
  CASE s.deferred > 0 /\ s.ss \in Exiting ->
         [s EXCEPT !.handle = "none", !.immed = @ + s.deferred, !.deferred = 0]
    [] s.deferred > 0 /\ s.ss \notin Exiting -> [s EXCEPT !.handle = "stale", !.deferred = 0]
    [] s.deferred = 0 -> [s EXCEPT !.handle = IF @ = "live" THEN "stale" ELSE @]

stream_eof ==
  /\ link # "down" /\ breaks < MaxBreaks
  /\ breaks' = breaks + 1 /\ net_phase
  /\ link' = "down" /\ toMom' = <<>> /\ toSvr' = <<>>
  /\ sv' = EofToAll(sv)
  /\ mom' = [mom EXCEPT !.preq = FALSE, !.kids = 0]      \* their answers find no stream
  /\ momptr_down

\* the MoM has now been down for an hour and cannot be reached
momptr_down_again ==
  /\ link = "down" /\ ~timer /\ sv.nodes
  /\ timer' = TRUE /\ timed_phase
  /\ UNCHANGED <<sv, mom, toMom, toSvr, link, breaks>>

\* the timer expires: the only MoM of the job is down, so that discard_job finds
\* nobody to wait for and the job is requeued or purged at once
node_down_requeue ==
  /\ timer
  /\ timer' = FALSE /\ timed_phase
  /\ sv' = IF link = "up" \/ ~sv.nodes THEN sv
           ELSE IF Rerunnable THEN force_reque(At(sv, "RERUN3")) ELSE job_purge(rel_resc(sv))
  /\ UNCHANGED <<mom, toMom, toSvr, link, breaks>>

-----------------------------------------------------------------------------
(* The MoM.  What she sends while there is no stream is lost. *)

Done == [k |-> "Reply", code |-> "done"]        \* an acknowledgement or any error but

TryAgain == [k |-> "Reply", code |-> "TRYAGAIN"]    \* PBSE_TRYAGAIN

Say(msgs) == toSvr' = IF link = "down" THEN toSvr ELSE toSvr \o msgs

If(c, msgs) == IF c THEN msgs ELSE <<>>

Gone(m) == [m EXCEPT !.ss = "none", !.post = "none", !.preq = FALSE]

MomOnly == UNCHANGED <<sv, toMom, link, timer, breaks, phase>>

Obituary(m) == <<[k |-> "JOBOBIT", stat |-> m.stat]>> \o If(m.preq, <<Done>>)

Obit(m) == [m EXCEPT !.ss = "OBIT", !.post = "none", !.preq = FALSE]

\* the job ends; a status set by a restart stays
job_ends ==
  /\ mom.ss = "RUNNING"
  /\ \E stat \in IF mom.stat = "none" THEN Statuses ELSE {mom.stat} :
       LET m == [mom EXCEPT !.stat = stat] IN mom' = Obit(m) /\ Say(Obituary(m))
  /\ MomOnly

\* the main loop repeats an obituary after 45 seconds
resend_obit ==
  /\ mom.ss = "OBIT" /\ link # "down"
  /\ \A i \in 1..Len(toSvr) : toSvr[i].k # "JOBOBIT"
  /\ Len(toMom) + (IF sv.ss \in Left THEN 0 ELSE sv.immed + sv.timed + sv.deferred) < MaxPending
  /\ mom' = Obit(mom) /\ Say(Obituary(mom))
  /\ MomOnly

Take(kind) == toMom # <<>> /\ Head(toMom).k = kind /\ toMom' = Tail(toMom)

Asked(r) == Take("Ask") /\ Head(toMom).r = r

MomMsg == UNCHANGED <<sv, link, timer, breaks, phase>>

Copying == mom.post = "post_cpyfile"

Has == mom.ss # "none"

\* no other obituary while files are copied
Quiet(m) == [m EXCEPT !.ss = IF @ = "OBIT" THEN "EXITED" ELSE @]

req_rerunjob ==
  /\ Asked("Rerun")
  /\ \/ ~Has /\ mom' = mom /\ Say(<<Done>>)
     \/ Has /\ mom' = [Quiet(mom) EXCEPT !.kids = @ + 1] /\ UNCHANGED toSvr
     \/ Has /\ mom' = mom /\ Say(<<Done>>)                   \* fork fails
  /\ MomMsg

\* the child of post_rerunjob or post_cpyfile_nojob ends
post_nojob ==
  /\ mom.kids > 0
  /\ mom' = [mom EXCEPT !.kids = @ - 1] /\ Say(<<Done>>)
  /\ MomOnly

req_cpyfile ==
  /\ Asked("CopyFiles")
  /\ \/ ~Has /\ mom' = [mom EXCEPT !.kids = @ + 1] /\ UNCHANGED toSvr
     \/ Has /\ UNCHANGED toSvr
            /\ mom' = [Quiet(mom) EXCEPT !.post = "post_cpyfile", !.preq = TRUE]
     \/ mom' = Quiet(mom) /\ Say(<<Done>>)                    \* no such user, or fork fails
  /\ MomMsg

\* the copying child ends well, with files it could not copy, or is killed
post_cpyfile ==
  /\ Copying
  /\ LET m     == [mom EXCEPT !.post = "none", !.preq = FALSE]
         reply == If(mom.preq, <<Done>>)
     IN  \/ mom' = [m EXCEPT !.ss = "OBIT"] /\ Say(reply)
         \/ SandboxPrivate /\ mom' = m /\ Say(reply)
         \/ mom' = Obit(m) /\ Say(reply \o Obituary(m))
  /\ MomOnly

req_delfile ==
  /\ Asked("DelFiles")
  /\ \/ Copying /\ mom' = mom /\ Say(<<TryAgain>>)
     \/ Has /\ ~Copying /\ UNCHANGED toSvr
            /\ mom' = [mom EXCEPT !.ss = "EXITED", !.post = "post_delfile", !.preq = TRUE]
     \/ ~Has /\ UNCHANGED <<mom, toSvr>>                       \* nobody answers
     \/ ~Copying /\ Say(<<Done>>)                             \* fork fails
                 /\ mom' = [mom EXCEPT !.preq = FALSE]
  /\ MomMsg

post_delfile ==
  /\ mom.post = "post_delfile"
  /\ LET reply == If(mom.preq, <<Done>>)
         m     == Obit(mom)
     IN  mom' = m /\ (Say(reply) \/ Say(reply \o Obituary(m)))
  /\ MomOnly

req_deletejob ==
  /\ Asked("DeleteJob")
  /\ IF Has /\ Copying THEN mom' = mom /\ Say(<<TryAgain>>)
                       ELSE mom' = Gone(mom) /\ Say(<<Done>>)
  /\ MomMsg

rid_job ==
  /\ Take("BADOBIT")
  /\ mom' = Gone(mom) /\ UNCHANGED toSvr
  /\ MomMsg

is_discard_job ==
  /\ Take("DISCARD_JOB")
  /\ mom' = Gone(mom) /\ Say(<<[k |-> "DISCARD_DONE"]>>)
  /\ MomMsg

is_cluster_addrs ==
  /\ Take("CLUSTER_ADDRS")
  /\ mom' = mom /\ Say(<<[k |-> "MOM_READY"]>>)
  /\ MomMsg

\* a new stream, and the MoM's greeting with the jobs she has
reply_hello4 ==
  /\ link = "down"
  /\ link' = "hello" /\ toSvr' = <<[k |-> "HELLO4", has |-> Has]>>
  /\ UNCHANGED <<sv, mom, toMom, timer, breaks, phase>>

\* the MoM restarts while there is no stream: what was copied is forgotten, a job
\* that ran is aborted; substate EXITED has not been written to disk
init_abort_jobs ==
  /\ link = "down" /\ Has
  /\ mom' = [mom EXCEPT !.post = "none", !.kids = 0,
                        !.ss = IF @ = "EXITED" THEN "OBIT" ELSE @,
                        !.stat = IF mom.ss = "RUNNING" THEN "INITABT" ELSE @]
  /\ UNCHANGED <<sv, toMom, toSvr, link, timer, breaks, phase>>

-----------------------------------------------------------------------------
ServerStep == \/ dispatch_immed \/ dispatch_timed \/ process_DreplyRPP \/ job_obit
              \/ is_hello4 \/ is_mom_ready \/ is_discard_done

MomStep == \/ job_ends \/ resend_obit \/ req_rerunjob \/ post_nojob \/ req_cpyfile
           \/ post_cpyfile \/ req_delfile \/ post_delfile \/ req_deletejob \/ rid_job
           \/ is_discard_job \/ is_cluster_addrs \/ reply_hello4

Next == \/ ServerStep \/ MomStep
        \/ stream_eof \/ momptr_down_again \/ node_down_requeue \/ init_abort_jobs

\* Both main loops go on, and a broken stream is opened again (the server pings).
\* Nothing forces a break, a restart, or a MoM to stay away until jobs are requeued.
Fairness ==
  /\ WF_vars(dispatch_immed) /\ WF_vars(dispatch_timed)
  /\ WF_vars(process_DreplyRPP) /\ WF_vars(job_obit)
  /\ WF_vars(is_hello4) /\ WF_vars(is_mom_ready) /\ WF_vars(is_discard_done)
  /\ WF_vars(resend_obit) /\ WF_vars(post_nojob) /\ WF_vars(post_cpyfile)
  /\ WF_vars(post_delfile) /\ WF_vars(reply_hello4)
  /\ WF_vars(req_rerunjob \/ req_cpyfile \/ req_delfile \/ req_deletejob
             \/ rid_job \/ is_discard_job \/ is_cluster_addrs)

Safe == Init /\ [][Next]_vars

Spec == Safe /\ Fairness

-----------------------------------------------------------------------------
(* Properties *)

\* The records and the messages are of the kinds the code knows.
TypeOK ==
  /\ sv \in ServerType /\ mom \in MomType
  /\ toMom \in Seq(Message) /\ toSvr \in Seq(Message)
  /\ link \in {"down", "hello", "up"} /\ timer \in BOOLEAN /\ breaks \in 0..MaxBreaks
  /\ phase \in {"net", "immed", "timed"}

Announced == \E i \in 1..Len(toSvr) : toSvr[i].k = "JOBOBIT"

\* End processing never stalls: a job that is exiting has a task or an outstanding
\* request, or its MoM has sent, will repeat, or will go back to repeating the
\* obituary (on_job_exit and on_job_rerun return without a new task when the MoM is
\* down and the job was connected to her before; resend_obit makes up for it).
Driven ==
  sv.ss \in Exiting => \/ sv.immed + sv.timed + sv.deferred > 0
                       \/ mom.ss = "OBIT" \/ mom.post # "none" \/ Announced

\* At the end of its stages, on a stream that is up and that the job is connected to,
\* the server lets go of a job only when the MoM has deleted it: the answer it takes
\* for the one to Delete Job is that answer.  (on_job_exit and on_job_rerun do not
\* look at what was answered.)
DeletedBeforeLeft ==
  [][sv.ss \in {"EXITED", "RERUN3"} /\ sv'.ss \in Left /\ link = "up" /\ sv.handle # "stale"
       => mom.ss = "none"]_vars

\* While the MoM of a job that holds nodes is down, its requeue is scheduled
\* (momptr_down and node_down_requeue).
DownIsRequeued == link = "down" /\ sv.nodes => timer

\* End processing comes to its end however the stream breaks (on_job_exit,
\* on_job_rerun, and the obituaries the MoM repeats).
LeavesExiting == sv.ss \in Exiting ~> sv.ss \in Left

Phase(ss) == CASE ss = "RUNNING" -> "running"
               [] ss \in ExitStages -> "exiting"
               [] ss \in RerunStages -> "rerunning"
               [] ss = "FINISHED" -> "finished"
               [] ss = "QUEUED" -> "queued"

Run == INSTANCE RunOfJob WITH run <- Phase(sv.ss), held <- sv.nodes,
                              has <- mom.ss # "none", lost <- link # "up"

\* The exchange of obituaries, requests and answers over a stream that breaks
\* implements the run of a job as the rest of the server sees it (on_job_exit,
\* on_job_rerun, node_down_requeue and the MoM's side of them).
ImplementsRun == Run!RunSpec

\* Whatever files the job needs and however often the stream breaks, no step of the
\* server or the MoM does to the run what its specification does not allow: a run is
\* over once, as it began to end (on_job_exit, on_job_rerun) unless its MoM is marked
\* down then (node_down_requeue), and its nodes go in that step.
ImplementsRunSafely == Run!RunInit /\ [][Run!RunNext]_(Run!abstract)
=============================================================================
