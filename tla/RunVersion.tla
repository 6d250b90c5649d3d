----------------------------- MODULE RunVersion -----------------------------
(***************************************************************************)
(* The runs of one job and the number that tells them apart: run_version.   *)
(*                                                                          *)
(* The server starts the job on one MoM after another.  It takes the job    *)
(* back without the MoM's help when it has lost the MoM, when a manager     *)
(* forces it to, and when it crashes before it has saved that the job runs. *)
(* A MoM may therefore still have an earlier run, and what she says of it   *)
(* arrives while a later one is going on.  The server compares versions in  *)
(* obituaries, status updates and the list of jobs a MoM sends when she     *)
(* connects, and tells her to drop what is not the present run.             *)
(*                                                                          *)
(* A job that is recovered with the vnodes of a run may be run on them      *)
(* again ("qrun -H -"); the version of that run is not saved before it is   *)
(* sent, and what the numbers are good for holds as long as this is not     *)
(* used (reused).  The job has one execution host, is neither checkpointed  *)
(* nor staged in, which would keep its vnodes in the same way, and its end  *)
(* processing is the one request Delete Job; EndOfJob has its stages.       *)
(***************************************************************************)
EXTENDS Integers, Sequences

CONSTANTS Moms,
          NoMom,       \* exec_host is not set
          MaxRuns,     \* bound: how often the job is run
          MaxFaults,   \* bound: breaks of a stream, crashes of the server, forced reruns and
                       \* runs on the vnodes of an earlier run
          MaxQueue     \* bound: a MoM repeats herself while every stream has fewer unread messages

ASSUME RunVersionAssumption ==
  /\ NoMom \notin Moms
  /\ {MaxRuns, MaxFaults, MaxQueue} \subseteq Nat

VARIABLES up,      \* the server is running
          sv,      \* the job in the server's memory
          db,      \* the job in the database
          pend,    \* by MoM: the sends whose task post_sendmom is in msr_deferred_cmds; the
                   \* number of the run stands for the msgid
          link,    \* by MoM: the stream and the state of the node
          toMom, toSvr,    \* by MoM: what is unread on the stream
          mom,     \* by MoM: the job in her memory
          destin,  \* ji_destin: the MoM the job was sent to last
          runs,    \* history: how often the job has been run; the present run's number
          forced,  \* history: how the MoM was connected when qrerun -Wforce was used
          reused,  \* history: the job has been run on the vnodes of an earlier run
          faults   \* counter for the bound

vars == <<up, sv, db, pend, link, toMom, toSvr, mom, destin, runs, forced, reused, faults>>

bounds == <<forced, reused, faults>>

Fault == faults < MaxFaults /\ faults' = faults + 1

-----------------------------------------------------------------------------
\* PRERUN and RUNNING are the substates of JOB_STATE_RUNNING.  EXITING and RERUN stand
\* for the stages of on_job_exit and on_job_rerun.  "gone": purged
Running == {"PRERUN", "RUNNING"}

Exiting == {"EXITING", "RERUN"}

States == {"QUEUED", "gone"} \cup Running \cup Exiting

\* none: no stream.  pinged: the server has opened a stream and sent HELLO.  hello: the
\* MoM knows the stream, HELLO4 is not read yet.  init: the server has read it
\* (INUSE_INIT).  up: MOM_READY has come.  marked: was up, and has been marked down
\* with its stream open.  All but "up" have INUSE_DOWN.
Links == {"none", "pinged", "hello", "init", "up", "marked"}

\* the requeue timer of a MoM that is down is called off by HELLO4
Timed == {"none", "pinged", "hello", "marked"}

\* the MoM has server_stream
Connected == {"hello", "init", "up", "marked"}

NoJob == [ver |-> 0, run |-> 0, ss |-> "none"]

Has(m) == mom[m] # NoJob

Versions == 0..MaxRuns

\* the messages; run is history, except that it stands for the msgid of a send
AnyVersion == -1

Run(v, r)     == [k |-> "Run", ver |-> v, run |-> r]     \* Queue Job, script and Commit
Discard(v)    == [k |-> "DISCARD_JOB", ver |-> v]
BadObit       == [k |-> "BADOBIT"]
DeleteJob     == [k |-> "DeleteJob"]
Hello         == [k |-> "HELLO"]
ClusterAddrs  == [k |-> "CLUSTER_ADDRS"]

Reply(r, code) == [k |-> "Reply", id |-> r, code |-> code]  \* to the send of run r
Deleted       == [k |-> "Deleted"]                       \* to Delete Job
ResUsed(j)    == [k |-> "RESCUSED", ver |-> j.ver, run |-> j.run]   \* with the session id
JobObit(j)    == [k |-> "JOBOBIT", ver |-> j.ver, run |-> j.run]
Hello4(j)     == [k |-> "HELLO4", job |-> j]
MomReady      == [k |-> "MOM_READY"]

-----------------------------------------------------------------------------
Init ==
  /\ up = TRUE
  /\ sv = [st |-> "QUEUED", ver |-> 0, host |-> NoMom, asked |-> FALSE]
  /\ db = [st |-> "QUEUED", ver |-> 0, host |-> NoMom]
  /\ pend = [m \in Moms |-> {}]
  /\ link = [m \in Moms |-> "up"]
  /\ toMom = [m \in Moms |-> <<>>] /\ toSvr = [m \in Moms |-> <<>>]
  /\ mom = [m \in Moms |-> NoJob]
  /\ destin = NoMom
  /\ runs = 0 /\ forced = {} /\ reused = FALSE /\ faults = 0

\* job_save: the structure only, or the attributes (version and hosts) as well
SaveQuick(s) == db' = [db EXCEPT !.st = s.st]

SaveFull(s) == db' = [st |-> s.st, ver |-> s.ver, host |-> s.host]

\* what the server writes to a MoM it has a stream to
Tell(m, msgs) == toMom' = IF link[m] = "none" THEN toMom ELSE [toMom EXCEPT ![m] = @ \o msgs]

If(c, msgs) == IF c THEN msgs ELSE <<>>

-----------------------------------------------------------------------------
(* The server. *)

\* Mutant: the new version is not saved before the job is sent.
SaveStart(s) == SaveQuick(s)

\* assign_hosts has set ji_modified, so that svr_setjobstate writes the attributes
save_started(s) == SaveFull(s)

\* where_to_runjob, svr_strtjob2 and send_job_exec.  A job that still has an exec_vnode
\* is discarded there first.  If the MoM turns out to be down the job is queued again.
req_runjob(m) ==
  /\ up /\ sv.st = "QUEUED" /\ runs < MaxRuns
  /\ LET old == sv.host
         s   == [sv EXCEPT !.st = "PRERUN", !.ver = @ + 1, !.host = m]
         discards == [n \in Moms |-> If(n = old /\ link[n] = "up", <<Discard(sv.ver)>>)]
         sends == [n \in Moms |-> If(n = m /\ link[n] = "up", <<Run(s.ver, runs + 1)>>)]
     IN  /\ toMom' = [n \in Moms |-> toMom[n] \o discards[n] \o sends[n]]
         /\ IF link[m] = "up"
            THEN /\ sv' = s /\ save_started(s)
                 /\ pend' = [pend EXCEPT ![m] = @ \cup {runs + 1}] /\ destin' = m
            ELSE /\ sv' = [s EXCEPT !.st = "QUEUED", !.host = NoMom]
                 /\ db' = [st |-> "QUEUED", ver |-> s.ver, host |-> m]
                 /\ destin' = NoMom /\ UNCHANGED pend
  /\ runs' = runs + 1
  /\ UNCHANGED <<up, link, toSvr, mom, bounds>>

\* "qrun -H -": a job that has an exec_vnode, as one recovered in PRERUN has, is run there
\* again.  Nothing is discarded, and as assign_hosts changes no attribute the raised version
\* is not saved.
req_runjob_again ==
  /\ up /\ sv.st = "QUEUED" /\ sv.host # NoMom /\ runs < MaxRuns
  /\ Fault /\ reused' = TRUE
  /\ LET m == sv.host
         s == [sv EXCEPT !.st = "PRERUN", !.ver = @ + 1]
     IN  IF link[m] = "up"
         THEN /\ sv' = s /\ destin' = m
              /\ pend' = [pend EXCEPT ![m] = @ \cup {runs + 1}]
              /\ toMom' = [toMom EXCEPT ![m] = Append(@, Run(s.ver, runs + 1))]
         ELSE /\ sv' = [s EXCEPT !.st = "QUEUED", !.host = NoMom] /\ destin' = NoMom
              /\ UNCHANGED <<pend, toMom>>
  /\ SaveQuick(sv')
  /\ runs' = runs + 1
  /\ UNCHANGED <<up, link, toSvr, mom, forced>>

Read(m, kind) == /\ up /\ toSvr[m] # <<>> /\ Head(toSvr[m]).k = kind
                 /\ toSvr' = [toSvr EXCEPT ![m] = Tail(@)]

Msg(m) == Head(toSvr[m])

\* Mutant: a job whose send has failed is left as it is.
LeftAlone(s) == [s EXCEPT !.asked = FALSE]

\* post_sendmom when the send has failed: whatever the job is doing by now, it loses its
\* hosts and is queued (clear_exec_on_run_fail)
SendFailed(s) == IF s.st = "gone" THEN s
                 ELSE [s EXCEPT !.st = "QUEUED", !.host = NoMom, !.asked = FALSE]

\* The answer of a MoM to a job sent to her, matched by its msgid; accounting is not
\* modelled.
post_sendmom(m) ==
  /\ Read(m, "Reply")
  /\ pend' = [pend EXCEPT ![m] = @ \ {Msg(m).id}]
  /\ IF Msg(m).id \in pend[m] /\ Msg(m).code # "OK"
     THEN sv' = SendFailed(sv) /\ destin' = NoMom
     ELSE UNCHANGED <<sv, destin>>
  /\ IF sv'.st = sv.st THEN UNCHANGED db ELSE SaveQuick(sv')
  /\ UNCHANGED <<up, link, toMom, mom, runs, bounds>>

\* Mutant: updates of any run are taken.
AnyUpdate(s, v) == s.st = "PRERUN"

\* the session id of a run that has not been known to have begun
begins(s, v) == s.st = "PRERUN" /\ s.ver = v

stat_update(m) ==
  /\ Read(m, "RESCUSED")
  /\ IF begins(sv, Msg(m).ver) THEN sv' = [sv EXCEPT !.st = "RUNNING"] /\ SaveFull(sv')
     ELSE UNCHANGED <<sv, db>>
  /\ UNCHANGED <<up, pend, link, toMom, mom, destin, runs, bounds>>

\* Mutant: the version in an obituary is not looked at.
AnyObit(s, v) == s.st \in Running

\* the obituary is one of the present run
is_current(s, v) == s.st \in Running /\ v >= s.ver

\* An obituary begins the end of the present run, begins the processing of a job that
\* is exiting again, and is rejected otherwise.  The rejection names the job only.
job_obit(m) ==
  /\ Read(m, "JOBOBIT")
  /\ \/ /\ sv.st \in Exiting
        /\ sv' = [sv EXCEPT !.asked = FALSE]
        /\ UNCHANGED <<db, toMom>>
     \/ /\ is_current(sv, Msg(m).ver)
        /\ \E st \in Exiting : sv' = [sv EXCEPT !.st = st, !.asked = FALSE]
        /\ SaveQuick(sv') /\ UNCHANGED toMom
     \/ /\ sv.st \notin Exiting /\ ~is_current(sv, Msg(m).ver)
        /\ Tell(m, <<BadObit>>)
        /\ UNCHANGED <<sv, db>>
  /\ UNCHANGED <<up, pend, link, mom, destin, runs, bounds>>

\* on_job_exit and on_job_rerun: once connected, have the MoM delete the job
on_job_exit ==
  /\ up /\ sv.st \in Exiting /\ ~sv.asked /\ link[sv.host] = "up"
  /\ sv' = [sv EXCEPT !.asked = TRUE]
  /\ Tell(sv.host, <<DeleteJob>>)
  /\ UNCHANGED <<up, db, pend, link, toSvr, mom, destin, runs, bounds>>

\* Mutant: a requeue raises the version too.
Raised(s) == [s EXCEPT !.st = "QUEUED", !.host = NoMom, !.asked = FALSE, !.ver = @ + 1]

\* the job is queued again and its attributes saved; or it is purged with its tasks
force_reque(s) == [s EXCEPT !.st = "QUEUED", !.host = NoMom, !.asked = FALSE]

job_purge(s) == [s EXCEPT !.st = "gone", !.host = NoMom, !.asked = FALSE]

NoTasks(s) == pend' = IF s.st = "gone" THEN [m \in Moms |-> {}] ELSE pend

job_deleted(m) ==
  /\ Read(m, "Deleted")
  /\ sv' = CASE ~(sv.asked /\ sv.host = m) -> sv
             [] OTHER -> IF sv.st = "RERUN" THEN force_reque(sv) ELSE job_purge(sv)
  /\ IF sv' = sv THEN UNCHANGED db ELSE SaveFull(sv')
  /\ NoTasks(sv')
  /\ UNCHANGED <<up, link, toMom, mom, destin, runs, bounds>>

\* qrerun -Wforce of a manager: signal (which the discard behind it overtakes at the
\* MoM), discard, requeue
req_rerunjob_force ==
  /\ up /\ sv.st \in Running
  /\ Fault /\ UNCHANGED reused /\ forced' = forced \cup {link[sv.host]}
  /\ IF link[sv.host] = "up" THEN Tell(sv.host, <<Discard(sv.ver)>>) ELSE UNCHANGED toMom
  /\ sv' = force_reque(sv) /\ SaveFull(sv')
  /\ UNCHANGED <<up, pend, link, toSvr, mom, destin, runs>>

\* The MoM has been down for node_fail_requeue seconds.  discard_job has nobody to wait
\* for; a job that is not rerunnable is purged.
node_down_requeue ==
  /\ up /\ sv.host \in Moms /\ sv.st \in Running \cup Exiting
  /\ link[sv.host] \in Timed
  /\ sv' \in {force_reque(sv), job_purge(sv)} /\ SaveFull(sv')
  /\ NoTasks(sv')
  /\ UNCHANGED <<up, link, toMom, toSvr, mom, destin, runs, bounds>>

\* a MoM that is down is sent HELLO, on a new stream if need be
ping_a_mom(m) ==
  /\ up /\ link[m] \in {"none", "marked"}
  /\ link' = [link EXCEPT ![m] = IF @ = "none" THEN "pinged" ELSE "hello"]
  /\ toMom' = [toMom EXCEPT ![m] = Append(@, Hello)]
  /\ UNCHANGED <<up, sv, db, pend, toSvr, mom, destin, runs, bounds>>

\* Mutant: what the MoM has is not compared.
Unchecked(s, j) == <<>>

\* the job a MoM reports: unknown, of another version, or of the version of a job that
\* does not run.  A server without a version has not run the job.
mom_running_jobs(s, j) ==
  CASE j = NoJob                  -> <<>>
    [] j # NoJob /\ s.st = "gone" -> <<Discard(AnyVersion)>>
    [] OTHER -> If(j.ver # s.ver \/ s.st \notin Running \cup Exiting, <<Discard(j.ver)>>)

is_hello4(m) ==
  /\ Read(m, "HELLO4")
  /\ link' = [link EXCEPT ![m] = IF @ = "hello" THEN "init" ELSE @]
  /\ Tell(m, mom_running_jobs(sv, Msg(m).job) \o <<ClusterAddrs>>)
  /\ UNCHANGED <<up, sv, db, pend, mom, destin, runs, bounds>>

is_mom_ready(m) ==
  /\ Read(m, "MOM_READY")
  /\ link' = [link EXCEPT ![m] = "up"]
  /\ UNCHANGED <<up, sv, db, pend, toMom, mom, destin, runs, bounds>>

\* A stream breaks.  Its deferred requests are answered with PBSE_NORELYMOM: a send has
\* failed, and the MoM the job was sent to last is marked down.
stream_eof(m) ==
  /\ up /\ link[m] # "none" /\ Fault
  /\ pend' = [pend EXCEPT ![m] = {}]
  /\ LET s == IF sv.host = m THEN [sv EXCEPT !.asked = FALSE] ELSE sv
     IN  IF pend[m] # {} THEN sv' = SendFailed(s) /\ destin' = NoMom
                         ELSE sv' = s /\ UNCHANGED destin
  /\ IF sv'.st = sv.st THEN UNCHANGED db ELSE SaveQuick(sv')
  /\ link' = [n \in Moms |-> CASE n = m -> "none"
                               [] n # m /\ pend[m] # {} /\ n = destin /\ link[n] = "up" -> "marked"
                               [] OTHER -> link[n]]
  /\ toMom' = [toMom EXCEPT ![m] = <<>>] /\ toSvr' = [toSvr EXCEPT ![m] = <<>>]
  /\ UNCHANGED <<up, mom, runs, forced, reused>>

crash ==
  /\ up /\ Fault
  /\ up' = FALSE
  /\ pend' = [m \in Moms |-> {}]
  /\ link' = [m \in Moms |-> "none"]
  /\ toMom' = [m \in Moms |-> <<>>] /\ toSvr' = [m \in Moms |-> <<>>]
  /\ UNCHANGED <<sv, db, mom, destin, runs, forced, reused>>

\* pbsd_init_job: a job in PRERUN is queued, a running one goes on, and a task takes up
\* end processing of one that was exiting
recovered(st) == IF st = "PRERUN" THEN "QUEUED" ELSE st

pbsd_init ==
  /\ ~up /\ up' = TRUE
  /\ sv' = [st |-> recovered(db.st), ver |-> db.ver, host |-> db.host, asked |-> FALSE]
  /\ UNCHANGED <<db, pend, link, toMom, toSvr, mom, destin, runs, bounds>>

-----------------------------------------------------------------------------
(* The MoM. *)

Take(m, kind) == /\ toMom[m] # <<>> /\ Head(toMom[m]).k = kind
                 /\ toMom' = [toMom EXCEPT ![m] = Tail(@)]

Order(m) == Head(toMom[m])

\* without server_stream she says nothing
Say(m, msgs) == toSvr' = IF link[m] \in Connected THEN [toSvr EXCEPT ![m] = @ \o msgs]
                         ELSE toSvr

Becomes(m, j) == mom' = [mom EXCEPT ![m] = j]

\* the bound on what is repeated
Quiet == \A m \in Moms : Len(toSvr[m]) + Len(toMom[m]) < MaxQueue

MomOnly == UNCHANGED <<up, sv, db, pend, destin, runs, bounds>>

\* req_quejob and req_commit: a job she has already is taken over, and refused if it runs.
\* A job whose Commit is lost is purged when the stream closes.
req_commit(m) ==
  /\ Take(m, "Run")
  /\ LET o == Order(m)
     IN  IF mom[m].ss = "RUNNING"
         THEN /\ Becomes(m, [mom[m] EXCEPT !.ver = o.ver])
              /\ Say(m, <<Reply(o.run, "JOBEXIST")>>)
         ELSE /\ Becomes(m, [ver |-> o.ver, run |-> o.run, ss |-> "PRERUN"])
              /\ Say(m, <<Reply(o.run, "OK")>>)
  /\ MomOnly /\ UNCHANGED link

\* the job has a session
record_finish_exec(m) ==
  /\ mom[m].ss = "PRERUN"
  /\ Becomes(m, [mom[m] EXCEPT !.ss = "RUNNING"])
  /\ Say(m, <<ResUsed(mom[m])>>)
  /\ MomOnly /\ UNCHANGED <<link, toMom>>

\* the jobs that run are reported again and again
update_jobs_status(m) ==
  /\ mom[m].ss = "RUNNING" /\ link[m] \in Connected /\ Quiet
  /\ Say(m, <<ResUsed(mom[m])>>)
  /\ MomOnly /\ UNCHANGED <<link, toMom, mom>>

\* the job ends, or could not be started
send_obit(m) ==
  /\ mom[m].ss \in Running
  /\ Becomes(m, [mom[m] EXCEPT !.ss = "OBIT"])
  /\ Say(m, <<JobObit(mom[m])>>)
  /\ MomOnly /\ UNCHANGED <<link, toMom>>

\* an obituary is repeated until the job is deleted
resend_obit(m) ==
  /\ mom[m].ss = "OBIT" /\ link[m] \in Connected /\ Quiet
  /\ Say(m, <<JobObit(mom[m])>>)
  /\ MomOnly /\ UNCHANGED <<link, toMom, mom>>

rid_job(m) ==
  /\ Take(m, "BADOBIT")
  /\ Becomes(m, NoJob)
  /\ MomOnly /\ UNCHANGED <<link, toSvr>>

\* her answer DISCARD_DONE is of interest to jobs with several hosts only
is_discard_job(m) ==
  /\ Take(m, "DISCARD_JOB")
  /\ Becomes(m, IF Order(m).ver \in {AnyVersion, mom[m].ver} THEN NoJob ELSE mom[m])
  /\ MomOnly /\ UNCHANGED <<link, toSvr>>

req_deletejob(m) ==
  /\ Take(m, "DeleteJob")
  /\ Becomes(m, NoJob)
  /\ Say(m, <<Deleted>>)
  /\ MomOnly /\ UNCHANGED link

\* the stream on which HELLO came is server_stream from now on
reply_hello4(m) ==
  /\ Take(m, "HELLO")
  /\ link' = [link EXCEPT ![m] = IF @ = "pinged" THEN "hello" ELSE @]
  /\ toSvr' = [toSvr EXCEPT ![m] = Append(@, Hello4(mom[m]))]
  /\ MomOnly /\ UNCHANGED mom

is_cluster_addrs(m) ==
  /\ Take(m, "CLUSTER_ADDRS")
  /\ Say(m, <<MomReady>>)
  /\ MomOnly /\ UNCHANGED <<link, mom>>

-----------------------------------------------------------------------------
ServerReads(m) == \/ post_sendmom(m) \/ stat_update(m) \/ job_obit(m) \/ job_deleted(m)
                  \/ is_hello4(m) \/ is_mom_ready(m)

MomReads(m) == \/ req_commit(m) \/ rid_job(m) \/ is_discard_job(m) \/ req_deletejob(m)
               \/ reply_hello4(m) \/ is_cluster_addrs(m)

Next ==
  \/ on_job_exit \/ req_runjob_again \/ req_rerunjob_force \/ node_down_requeue \/ crash \/ pbsd_init
  \/ \E m \in Moms :
       \/ req_runjob(m) \/ ping_a_mom(m) \/ stream_eof(m)
       \/ ServerReads(m) \/ MomReads(m)
       \/ record_finish_exec(m) \/ update_jobs_status(m) \/ send_obit(m) \/ resend_obit(m)

\* Both daemons go on reading and working off their tasks, lost MoMs are pinged, a MoM
\* reports the jobs she has, and a server that has crashed is started again.
Fairness ==
  /\ WF_vars(on_job_exit) /\ WF_vars(pbsd_init)
  /\ \A m \in Moms :
       /\ WF_vars(ping_a_mom(m)) /\ WF_vars(ServerReads(m)) /\ WF_vars(MomReads(m))
       /\ WF_vars(record_finish_exec(m)) /\ WF_vars(update_jobs_status(m))
       /\ WF_vars(resend_obit(m))

Spec == Init /\ [][Next]_vars /\ Fairness

-----------------------------------------------------------------------------
(* Properties *)

Jobs == [ver : Versions, run : Versions, ss : {"none", "PRERUN", "RUNNING", "OBIT"}]

Orders == [k : {"BADOBIT", "DeleteJob", "HELLO", "CLUSTER_ADDRS"}]
            \cup [k : {"DISCARD_JOB"}, ver : Versions \cup {AnyVersion}]
            \cup [k : {"Run"}, ver : Versions, run : Versions]

Reports == [k : {"Deleted", "MOM_READY"}]
             \cup [k : {"Reply"}, id : Versions, code : {"OK", "JOBEXIST"}]
             \cup [k : {"RESCUSED", "JOBOBIT"}, ver : Versions, run : Versions]
             \cup [k : {"HELLO4"}, job : Jobs]

\* The variables have their types.
TypeOK ==
  /\ up \in BOOLEAN
  /\ sv \in [st : States, ver : Versions, host : Moms \cup {NoMom}, asked : BOOLEAN]
  /\ db \in [st : States, ver : Versions, host : Moms \cup {NoMom}]
  /\ pend \in [Moms -> SUBSET Versions] /\ link \in [Moms -> Links] /\ mom \in [Moms -> Jobs]
  /\ toMom \in [Moms -> Seq(Orders)] /\ toSvr \in [Moms -> Seq(Reports)]
  /\ destin \in Moms \cup {NoMom}
  /\ runs \in 0..MaxRuns /\ forced \subseteq Links /\ reused \in BOOLEAN
  /\ faults \in 0..MaxFaults

Present(m) == up /\ sv.host = m /\ sv.st \in Running \cup Exiting /\ mom[m].run = runs

\* No MoM knows a version the database does not: a run is never sent before its number
\* is safe, so that a crash cannot give the number to a second run (unless the job is run
\* on the vnodes of an earlier run: svr_setjobstate then saves the structure only).
VersionSaved ==
  ~reused /\ db.st # "gone" =>
    \A m \in Moms : /\ mom[m].ver <= db.ver
                    /\ \A i \in 1..Len(toMom[m]) :
                         toMom[m][i].k = "Run" => toMom[m][i].ver <= db.ver

\* Where the server takes the job to be running, the MoM has that very run, whatever has
\* been lost or repeated on the way (unless a manager has forced the job back or run it on
\* the vnodes of an earlier run).
RunIsThere ==
  up /\ sv.st = "RUNNING" /\ forced = {} /\ ~reused => Has(sv.host) /\ mom[sv.host].run = runs

\* A run is ended only by an obituary of that run (unless the job has been run on the
\* vnodes of an earlier run, which may give a number to two runs).
AcceptsPresentRun ==
  [][sv.st \in Running /\ sv'.st \in Exiting /\ ~reused =>
       \E m \in Moms : /\ toSvr[m] # <<>> /\ toSvr'[m] = Tail(toSvr[m])
                       /\ Msg(m).k = "JOBOBIT" /\ Msg(m).run = runs]_vars

\* A run the server has given up is in the end removed from its MoM (unless a manager has
\* forced the job back between HELLO4 and MOM_READY, or run it on the vnodes of an earlier
\* run).
OldRunsGo == \A m \in Moms :
  (Has(m) /\ ~Present(m)) ~> (Present(m) \/ ~Has(m) \/ "init" \in forced \/ reused)

\* The server hears of the run it has sent: PRERUN is left, and so is a run whose job has
\* ended (unless a manager forces the job back).
RunSettles ==
  /\ (sv.st = "PRERUN" /\ forced = {}) ~> (sv.st # "PRERUN" \/ forced # {})
  /\ \A m \in Moms : (Present(m) /\ mom[m].ss = "OBIT" /\ forced = {})
                       ~> (~Present(m) \/ forced # {})

\* A MoM that is told that her obituary was rejected deletes a run that is over: "Obit is
\* for an older run version ... Just tell Mom to junk job" (req_jobobit.c:1814).
JunksOldRuns == [][\A m \in Moms : Present(m) /\ rid_job(m) => mom[m].ss = "OBIT"]_vars
=============================================================================
