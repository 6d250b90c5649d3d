------------------------------- MODULE Depend -------------------------------
(***************************************************************************)
(* Dependencies between the jobs of one server (req_register.c).           *)
(*                                                                          *)
(* A job's depend attribute lists, type by type, the jobs it waits for      *)
(* (after...) and the jobs that wait for it (before...).  Each pair is kept *)
(* twice, once in each job, and nothing but the requests Register, Release, *)
(* Delete and Unregister that the server sends to itself keeps the two in   *)
(* step.  Such a request is carried out where it is sent; the work done     *)
(* with its answer is a task that runs when the main loop comes round, so   *)
(* other requests may be carried out in between.  A job that waits has the  *)
(* system hold and the substate DEPNHOLD.                                   *)
(*                                                                          *)
(* All jobs are in execution queues of this server, belong to one user and  *)
(* are no arrays.  Other holds, qrun of a held job, a type that is named    *)
(* with no job, and the MoM's side of running and ending are not part of    *)
(* this module.                                                             *)
(***************************************************************************)
EXTENDS Integers, FiniteSets, Sequences

CONSTANTS N,           \* how many jobs are submitted
          Types,       \* the dependency types the users name
          MaxDeps,     \* bound: how many dependencies one command names
          Counts,      \* the counts of "on" that users name, 0 when they do not name it
          NoCount,     \* they also name "on" without a count
          History,     \* job_history_enable
          LateFailure, \* a node may stay down while one of its jobs is ending
          Deaf,        \* the jobs whose MoM cannot be sent a signal (issue_signal fails)
          MaxAlters,   \* bound: how many jobs have their dependencies altered, once each
          MaxMoves,    \* bound: how often jobs are moved
          MaxRequeues  \* bound: how often jobs are queued again

ASSUME DependAssumption ==
          /\ N \in Nat /\ Types \subseteq 0..7
          /\ MaxDeps \in Nat /\ Counts \subseteq Nat /\ NoCount \in BOOLEAN
          /\ History \in BOOLEAN /\ LateFailure \in BOOLEAN /\ Deaf \subseteq Nat
          /\ MaxAlters \in Nat /\ MaxMoves \in Nat /\ MaxRequeues \in Nat

VARIABLES st,        \* the state of each job, and the substate where it matters
          dep,       \* depend: by job and type, the jobs of the list
          on,        \* depend: dp_numexp of the type "on", 0 when there is no such entry
          exit,      \* ji_exitstat: "ok" is 0
          tasks,     \* the immediate work tasks
          draining,  \* next_task is working them off
          alters,    \* the jobs whose dependencies have been altered
          moves, requeues,   \* counters for the bounds
          want,      \* history: the dependencies the users asked for, type by type
          wantOn,    \* history: and the count they asked for
          forced,    \* history: the jobs deleted by force while they ran or ended
          started,   \* history: the jobs that have begun a run
          ended,     \* history: how the runs of each job have ended
          blame      \* history: what each job was aborted for

vars == <<st, dep, on, exit, tasks, draining, alters, moves, requeues, want, wantOn,
          forced, started, ended, blame>>

bounds == <<alters, moves, requeues>>

asked == <<want, wantOn, forced>>

ran == <<started, ended>>

-----------------------------------------------------------------------------
Jobs == 1..N       \* job identifiers are given out in this order

AFTERSTART == 0
AFTEROK    == 1
AFTERNOTOK == 2
AFTERANY   == 3
After      == 0..3
Before     == 4..7
BEFORESTART == 4
BEFOREOK    == 5
BEFORENOTOK == 6
BEFOREANY   == 7

\* what the dependency is called at its other end: type ^ (BEFORESTART - AFTERSTART)
Mirror(t) == (t + 4) % 8

\* "new": not submitted; HELD is HELD/DEPNHOLD; SENT is PRERUN with the start time set
\* (the MoM has taken the job); KILLED is RUNNING/ABORT; STAGEOUT stands for all the
\* stages between EXITING and EXITED; "gone": purged
Waiting   == {"HELD", "QUEUED"}
OnMom     == {"PRERUN", "SENT", "RUNNING", "KILLED"}
Ending    == {"EXITING", "STAGEOUT", "EXITED"}
States    == {"new", "FINISHED", "gone"} \cup Waiting \cup OnMom \cup Ending

Unknown == {"new", "gone"}                 \* find_job finds nothing

\* "on" was named without a count: there is an entry, and its dp_numexp is 0
Uncounted == -1

Count == Nat \cup {Uncounted}

OnCounts == IF NoCount THEN Counts \cup {Uncounted} ELSE Counts

\* ji_substate >= JOB_SUBSTATE_RUNNING
RunningOrLater == {"RUNNING", "KILLED", "FINISHED"} \cup Ending

None == [t \in 0..7 |-> {}]

Pairs(j, ps) == {d \in SUBSET (Types \X (ps \ {j})) : Cardinality(d) <= MaxDeps}

Lists(d) == [t \in 0..7 |-> {e[2] : e \in {x \in d : x[1] = t}}]

S == [st |-> st, dep |-> dep, on |-> on, tasks |-> tasks, blame |-> blame]

Becomes(s) == /\ st' = s.st /\ dep' = s.dep /\ on' = s.on
              /\ tasks' = s.tasks /\ blame' = s.blame

-----------------------------------------------------------------------------
(* What the requests do.  An operator takes the record S and returns it.     *)

Add(s, j, t, p) == [s EXCEPT !.dep[j][t] = @ \cup {p}]

Drop(s, j, t, p) == [s EXCEPT !.dep[j][t] = @ \ {p}]

\* the work tasks linked to a job are deleted with it; answers to requests stay
Unlinked(q, j) ==
  LET r[i \in 0..Len(q)] ==
        IF i = 0 THEN <<>>
        ELSE IF q[i].job # j \/ q[i].fn \in {"post_doq", "post_doe"} THEN Append(r[i - 1], q[i])
        ELSE r[i - 1]
  IN  r[Len(q)]

job_free(s, j) == [s EXCEPT !.st[j] = "gone", !.tasks = Unlinked(@, j)]

\* svr_saveorpurge_finjobhist: a job of the history has no work tasks either
Finish(s, j) ==
  [s EXCEPT !.st[j] = IF History THEN "FINISHED" ELSE "gone", !.tasks = Unlinked(@, j)]

\* a running job is killed and ends later, unless the signal cannot be sent
job_abt(s, j, why) ==
  CASE s.st[j] = "FINISHED" -> s
    [] s.st[j] \in OnMom /\ j \notin Deaf -> [s EXCEPT !.st[j] = "KILLED", !.blame[j] = @ \cup {why}]
    [] OTHER                -> Finish([s EXCEPT !.blame[j] = @ \cup {why}], j)

\* mutant of Pending: dp_numexp is not looked at
PendingIgnoresOn(s, j) == \E t \in After : s.dep[j][t] # {}

\* the job waits for others, or for dependencies to be registered with it
Pending(s, j) == s.on[j] > 0 \/ \E t \in After : s.dep[j][t] # {}

\* svr_setjobstate leaves a finished job alone
set_depend_hold(s, j) ==
  CASE Pending(s, j) /\ s.st[j] # "FINISHED" -> [s EXCEPT !.st[j] = "HELD"]
    [] ~Pending(s, j) /\ s.st[j] = "HELD"    -> [s EXCEPT !.st[j] = "QUEUED"]
    [] OTHER                                 -> s

\* a Register that is rejected; one that is accepted leaves nothing to do for post_doq
Reject(s, j, t, p) ==
  [s EXCEPT !.tasks = Append(@, [fn |-> "post_doq", job |-> j, type |-> t, other |-> p])]

\* a task that needs the job only
Task(s, fn, j) == [s EXCEPT !.tasks = Append(@, [fn |-> fn, job |-> j])]

\* mutant of Register: a count that is used up is counted down all the same
RegisterUncounted(s, j, t, p) ==
  CASE s.st[p] \in Unknown -> Reject(s, j, t, p)
    [] s.st[p] \notin Unknown /\ t \in After -> Add(s, p, Mirror(t), j)
    [] s.st[p] \notin Unknown /\ t \in Before -> [Add(s, p, Mirror(t), j) EXCEPT !.on[p] = @ - 1]

\* Register of the dependency t of the job j on the job p.  A before... dependency uses
\* up one of the count that p asked for with "on", or the whole of an "on" without a
\* count; with no "on" left it is accepted only if p already has an entry of that type,
\* and changes nothing.  The hold of p is not looked at.
Register(s, j, t, p) ==
  CASE s.st[p] \in Unknown -> Reject(s, j, t, p)
    [] s.st[p] \notin Unknown /\ t \in After ->
         LET now == t = AFTERSTART /\ s.st[p] \in RunningOrLater
         IN  Add(IF now THEN Task(s, "post_run_depend", p) ELSE s, p, Mirror(t), j)
    [] s.st[p] \notin Unknown /\ t \in Before /\ s.on[p] # 0 ->
         IF j \in s.dep[p][Mirror(t)] THEN s
         ELSE [Add(s, p, Mirror(t), j) EXCEPT !.on[p] = IF @ = Uncounted THEN 0 ELSE @ - 1]
    [] s.st[p] \notin Unknown /\ t \in Before /\ s.on[p] = 0 ->
         IF s.dep[p][Mirror(t)] = {} THEN Reject(s, j, t, p) ELSE s

\* mutant of Release: the hold is left as it is
ReleaseKeepsHold(s, p, t, j) == IF s.st[j] \in Unknown THEN s ELSE Drop(s, j, Mirror(t), p)

\* Release by the job p of the job j, which p lists under the type t
Release(s, p, t, j) ==
  IF s.st[j] \in Unknown \/ p \notin s.dep[j][Mirror(t)] THEN s
  ELSE LET r == Drop(s, j, Mirror(t), p)
       IN  IF r.dep[j][Mirror(t)] = {} THEN set_depend_hold(r, j) ELSE r

\* Delete by the job p of the job j
Delete(s, p, t, j) ==
  IF s.st[j] \in Unknown THEN s
  ELSE job_abt(s, j, [why |-> "Delete", type |-> Mirror(t), other |-> p])

Unregister(s, j, t, p) ==
  IF s.st[p] \in Unknown THEN s ELSE set_depend_hold(Drop(s, p, Mirror(t), j), p)

\* mutant of send_depend_req: the exit status decides for "beforeany" too
SendIgnoresAny(s, j, t, p, caller) ==
  CASE caller = "que"             -> Register(s, j, t, p)
    [] caller = "alter"           -> Unregister(s, j, t, p)
    [] caller \in {"exec", "ok"} -> Release(s, j, t, p)
    [] caller = "bad" -> IF t = BEFORENOTOK THEN Release(s, j, t, p) ELSE Delete(s, j, t, p)

\* The request of the job j to the job p, which it lists under the type t.  The caller
\* decides on the operation; depend_on_exec leaves work to be done with the answer.
send_depend_req(s, j, t, p, caller) ==
  CASE caller = "que"   -> Register(s, j, t, p)
    [] caller = "alter" -> Unregister(s, j, t, p)
    [] caller = "exec"  -> [Release(s, j, t, p) EXCEPT
                              !.tasks = Append(@, [fn |-> "post_doe", job |-> j, other |-> p])]
    [] caller = "ok"  -> IF t = BEFORENOTOK THEN Delete(s, j, t, p) ELSE Release(s, j, t, p)
    [] caller = "bad" -> IF t = BEFOREOK THEN Delete(s, j, t, p) ELSE Release(s, j, t, p)

\* the jobs ps of one list, one after the other
SendToList(s, j, t, ps, caller) ==
  LET r[p \in 0..N] == IF p = 0 THEN s
                       ELSE IF p \in ps THEN send_depend_req(r[p - 1], j, t, p, caller)
                       ELSE r[p - 1]
  IN  r[N]

\* list by list
SendToAll(s, j, lists, caller) ==
  LET r[t \in 0..8] == IF t = 0 THEN s
                       ELSE SendToList(r[t - 1], j, t - 1, lists[t - 1], caller)
  IN  r[8]

\* every entry is registered, those that stand for jobs waiting for this one too
depend_on_que(s, j) == SendToAll(set_depend_hold(s, j), j, s.dep[j], "que")

\* the entries of the old value that the new one lacks
alter_unreg(s, j, old, new) == SendToAll(s, j, [t \in 0..7 |-> old[t] \ new[t]], "alter")

depend_on_exec(s, p) == SendToList(s, p, BEFORESTART, s.dep[p][BEFORESTART], "exec")

\* ok: the job's exit status is 0
depend_on_term(s, p, ok) ==
  SendToAll(s, p, [t \in 0..7 |-> IF t \in {BEFOREOK, BEFORENOTOK, BEFOREANY} THEN s.dep[p][t]
                                  ELSE {}],
            IF ok THEN "ok" ELSE "bad")

-----------------------------------------------------------------------------
(* The tasks.                                                                *)

post_doq(s, k) ==
  IF s.st[k.job] \in Unknown THEN s
  ELSE job_abt(s, k.job, [why |-> "Register", type |-> k.type, other |-> k.other])

\* mutant of post_doe: the type is deleted with the entry
DoeDeletesType(s, k) ==
  IF s.st[k.job] \in Unknown THEN s ELSE [s EXCEPT !.dep[k.job][BEFORESTART] = {}]

post_doe(s, k) ==
  IF s.st[k.job] \in Unknown THEN s ELSE Drop(s, k.job, BEFORESTART, k.other)


post_run_depend(s, k) == depend_on_exec(s, k.job)

\* the first stage: files are returned and copied
on_job_exit_first(s, k) == IF s.st[k.job] = "EXITING" THEN [s EXCEPT !.st[k.job] = "STAGEOUT"] ELSE s

next_task ==
  /\ tasks # <<>>
  /\ LET k == Head(tasks)
         s == [S EXCEPT !.tasks = Tail(@)]
     IN  Becomes(CASE k.fn = "post_doq"        -> post_doq(s, k)
                   [] k.fn = "post_doe"        -> post_doe(s, k)
                   [] k.fn = "post_run_depend" -> post_run_depend(s, k)
                   [] k.fn = "on_job_exit"     -> on_job_exit_first(s, k))
  /\ draining' = (tasks' # <<>>)
  /\ UNCHANGED <<exit, bounds, asked, ran>>

-----------------------------------------------------------------------------
(* Commands of the users.                                                    *)

Submitted == {j \in Jobs : st[j] # "new"}

svr_enquejob(j) ==
  /\ ~draining /\ st[j] = "new" /\ \A i \in 1..(j - 1) : st[i] # "new"
  /\ \E d \in Pairs(j, Submitted), n \in OnCounts :
       /\ Becomes(depend_on_que([S EXCEPT !.st[j] = "QUEUED", !.dep[j] = Lists(d), !.on[j] = n], j))
       /\ want' = [want EXCEPT ![j] = Lists(d)]
       /\ wantOn' = [wantOn EXCEPT ![j] = n]
  /\ UNCHANGED <<exit, draining, bounds, forced, ran>>

\* The types that are named replace those of the job, the others stay; naming nothing
\* takes all away.  n is the count of "on", 0 when it is not named.
set_depend(old, d, n) ==
  IF d = {} /\ n = 0 THEN None
  ELSE [t \in 0..7 |-> IF \E e \in d : e[1] = t THEN Lists(d)[t] ELSE old[t]]

set_on(old, d, n) == IF d # {} /\ n = 0 THEN old ELSE n

\* The new value is in the job by the time the action routine compares the two.
modify_job_attr(j) ==
  /\ ~draining /\ st[j] \in Waiting /\ j \notin alters /\ Cardinality(alters) < MaxAlters
  /\ \E d \in Pairs(j, Submitted), n \in OnCounts :
       LET new == set_depend(dep[j], d, n)
           s   == [S EXCEPT !.dep[j] = new, !.on[j] = set_on(@, d, n)]
       IN  /\ Becomes(depend_on_que(alter_unreg(s, j, s.dep[j], new), j))
           /\ want' = [want EXCEPT ![j] = set_depend(@, d, n)]
           /\ wantOn' = [wantOn EXCEPT ![j] = set_on(@, d, n)]
  /\ alters' = alters \cup {j}
  /\ UNCHANGED <<exit, draining, moves, requeues, forced, ran>>

\* qmove to another execution queue of this server
local_move(j) ==
  /\ ~draining /\ st[j] \in Waiting /\ moves < MaxMoves
  /\ Becomes(depend_on_que(S, j))
  /\ moves' = moves + 1
  /\ UNCHANGED <<exit, draining, alters, requeues, asked, ran>>

\* qdel of a job that is not with a MoM
req_deletejob(j) ==
  /\ ~draining /\ st[j] \in Waiting
  /\ Becomes(Finish(S, j))
  /\ UNCHANGED <<exit, draining, bounds, asked, ran>>

\* qdel -W force of a job that is with a MoM or ending, by a manager: the job is over at
\* once, and nobody is told.  (So is that of qdel of a job its MoM does not know.)
req_deletejob_force(j) ==
  /\ ~draining /\ st[j] \in OnMom \cup Ending
  /\ Becomes(Finish(S, j))
  /\ exit' = [exit EXCEPT ![j] = "bad"]
  /\ forced' = forced \cup {j}
  /\ UNCHANGED <<draining, bounds, want, wantOn, ran>>

-----------------------------------------------------------------------------
(* The run of a job.                                                         *)

\* the scheduler runs queued jobs only
svr_startjob(j) ==
  /\ ~draining /\ st[j] = "QUEUED"
  /\ st' = [st EXCEPT ![j] = "PRERUN"]
  /\ UNCHANGED <<dep, on, exit, tasks, draining, bounds, asked, ran, blame>>

\* done once for each run: ji_stime tells
complete_running(s, j) == IF s.st[j] = "PRERUN" THEN depend_on_exec(s, j) ELSE s

At(s, j, state) == [s EXCEPT !.st[j] = state]

\* the child that sent the job has ended well
post_sendmom(j) ==
  /\ ~draining /\ st[j] = "PRERUN"
  /\ Becomes(At(complete_running(S, j), j, "SENT"))
  /\ started' = started \cup {j}
  /\ UNCHANGED <<exit, draining, bounds, asked, ended>>

\* the MoM reports the session, which may be the first the server hears of the start
stat_update(j) ==
  /\ ~draining /\ st[j] \in {"PRERUN", "SENT"}
  /\ Becomes(depend_on_exec(At(complete_running(S, j), j, "RUNNING"), j))
  /\ started' = started \cup {j}
  /\ UNCHANGED <<exit, draining, bounds, asked, ended>>

ExitStatus(j, code) == /\ exit' = [exit EXCEPT ![j] = code]
                       /\ ended' = [ended EXCEPT ![j] = @ \cup {code}]

\* and so may be the obituary
job_obit(j) ==
  /\ ~draining /\ st[j] \in OnMom
  /\ \E code \in {"ok", "bad"} : ExitStatus(j, code)
  /\ Becomes(Task(At(complete_running(S, j), j, "EXITING"), "on_job_exit", j))
  /\ started' = started \cup {j}
  /\ UNCHANGED <<draining, bounds, asked>>

\* the jobs that node_down_requeue finds on a node
OnNode == IF LateFailure THEN OnMom \cup Ending ELSE OnMom

\* an unsuccessful start, a rerun, or node_down_requeue of a job that can be rerun
force_reque(j) ==
  /\ st[j] \in OnNode /\ (tasks = <<>> \/ (st[j] = "PRERUN" /\ ~draining))
  /\ requeues < MaxRequeues
  /\ Becomes(At(S, j, "QUEUED"))
  /\ requeues' = requeues + 1
  /\ UNCHANGED <<exit, draining, alters, moves, asked, ran>>

\* the stage EXITED, which is entered again when the MoM has to be asked again
on_job_exit(j) ==
  /\ ~draining /\ st[j] \in {"STAGEOUT", "EXITED"}
  /\ Becomes(depend_on_term(At(S, j, "EXITED"), j, exit[j] = "ok"))
  /\ UNCHANGED <<exit, draining, bounds, asked, ran>>

\* a job that cannot be rerun fails, and is over, when its node stays down
node_down_requeue(j) ==
  /\ tasks = <<>> /\ st[j] \in OnNode
  /\ ExitStatus(j, "bad")
  /\ Becomes(Finish(depend_on_term(S, j, FALSE), j))
  /\ UNCHANGED <<draining, bounds, asked, started>>

\* the run is over
job_purge(j) ==
  /\ ~draining /\ st[j] = "EXITED"
  /\ Becomes(Finish(S, j))
  /\ UNCHANGED <<exit, draining, bounds, asked, ran>>

\* and forgotten: the history is kept for job_history_duration
svr_clean_job_history(j) ==
  /\ tasks = <<>> /\ st[j] = "FINISHED"
  /\ Becomes(job_free(S, j))
  /\ UNCHANGED <<exit, draining, bounds, asked, ran>>

-----------------------------------------------------------------------------
Init ==
  /\ st = [j \in Jobs |-> "new"]
  /\ dep = [j \in Jobs |-> None] /\ want = dep
  /\ on = [j \in Jobs |-> 0] /\ wantOn = on
  /\ exit = [j \in Jobs |-> "none"]
  /\ tasks = <<>> /\ draining = FALSE
  /\ alters = {} /\ moves = 0 /\ requeues = 0
  /\ forced = {} /\ started = {} /\ ended = [j \in Jobs |-> {}] /\ blame = [j \in Jobs |-> {}]

Next ==
  \/ next_task
  \/ \E j \in Jobs : \/ svr_enquejob(j) \/ modify_job_attr(j) \/ local_move(j)
                     \/ req_deletejob(j) \/ req_deletejob_force(j)
                     \/ svr_startjob(j) \/ post_sendmom(j)
                     \/ stat_update(j) \/ job_obit(j) \/ force_reque(j) \/ on_job_exit(j)
                     \/ node_down_requeue(j) \/ job_purge(j) \/ svr_clean_job_history(j)

\* the main loop works off its tasks, and end of job processing is carried to its end
\* (EndOfJob!ImplementsRun) unless the job is taken from its node before
Fairness == /\ WF_vars(next_task)
            /\ \A j \in Jobs : WF_vars(st[j] = "STAGEOUT" /\ on_job_exit(j)) /\ WF_vars(job_purge(j))

Spec == Init /\ [][Next]_vars /\ Fairness

-----------------------------------------------------------------------------
(* Properties *)

Tasks == [fn : {"post_doq"}, job : Jobs, type : 0..7, other : Jobs]
           \cup [fn : {"post_doe"}, job : Jobs, other : Jobs]
           \cup [fn : {"post_run_depend", "on_job_exit"}, job : Jobs]

Reasons == [why : {"Register", "Delete"}, type : 0..7, other : Jobs]

\* The states, lists, counts and tasks are of the kinds the code knows; a count that is
\* used up is not counted down further.
TypeOK ==
  /\ st \in [Jobs -> States]
  /\ dep \in [Jobs -> [0..7 -> SUBSET Jobs]] /\ want \in [Jobs -> [0..7 -> SUBSET Jobs]]
  /\ on \in [Jobs -> Count] /\ wantOn \in [Jobs -> Count]
  /\ exit \in [Jobs -> {"none", "ok", "bad"}]
  /\ tasks \in Seq(Tasks)
  /\ draining \in BOOLEAN /\ alters \subseteq Jobs /\ moves \in 0..MaxMoves
  /\ requeues \in 0..MaxRequeues
  /\ forced \subseteq Jobs /\ started \subseteq Jobs /\ ended \in [Jobs -> SUBSET {"ok", "bad"}]
  /\ blame \in [Jobs -> SUBSET Reasons]

HeldAsPending(j) == st[j] \notin {"new", "FINISHED", "gone"} => (st[j] = "HELD" <=> Pending(S, j))

\* A job has the system hold exactly as long as it waits for something, whatever is
\* registered, released, altered or moved, and a job that has been started waits for
\* nothing; all this unless its user named "on" without a count.  (Register counts "on"
\* down without looking at the hold again, Release looks at it only when the last entry
\* of a type has gone: set_depend_hold.)
HeldIffDepends == \A j \in Jobs : wantOn[j] # Uncounted => HeldAsPending(j)

\* What set_depend_hold says of every job: "there are dependencies, set system hold
\* accordingly".  Register turns an "on" without a count into an entry and leaves the
\* job that now depends on another one without a hold.
AlwaysHeldAsPending == \A j \in Jobs : HeldAsPending(j)

\* a job that was aborted on its way to the MoM counts as started
Met(t, p) == CASE t = AFTERSTART -> p \in started \/ blame[p] # {}
               [] t = AFTEROK    -> "ok" \in ended[p]
               [] t = AFTERNOTOK -> "bad" \in ended[p]
               [] t = AFTERANY   -> ended[p] # {}

\* No job may run before the dependencies its user asked for are met: those it names
\* itself, and as many of those registered with it as it asked for with "on"
\* (req_register, depend_on_exec, depend_on_term).
NeverEarly ==
  \A j \in Jobs : st[j] \in {"QUEUED"} \cup OnMom =>
     /\ \A t \in After : \A p \in want[j][t] : Met(t, p)
     /\ Cardinality({e \in Before \X Jobs : j \in want[e[2]][e[1]] /\ Met(Mirror(e[1]), e[2])}) >= wantOn[j]

\* The two ends of a dependency agree: the job that is waited for has the one that
\* waits in its list, or the waiting job is about to be aborted (register_dep,
\* post_doe, post_doq).  Without its entry a waiting job would never be released.
Matched ==
  \A j \in Jobs, t \in After : st[j] = "HELD" =>
     \A p \in dep[j][t] :
        \/ j \in dep[p][Mirror(t)]
        \/ \E i \in 1..Len(tasks) : tasks[i].fn = "post_doq" /\ tasks[i].job = j

Waits(j, t, p) == st[j] = "HELD" /\ p \in dep[j][t]

NotAltered(j, p) == alters \cap {j, p} = {}

\* the types that lists may have entries of
InUse == {t \in After : {t, Mirror(t)} \cap Types # {}}

\* over before its end was processed: by force, or by an abort whose signal failed
CutOff(p) == p \in forced \/ (p \in Deaf /\ blame[p] # {})


NewBlame(why) == {e \in Jobs \X UNION {blame'[j] \ blame[j] : j \in Jobs} :
                     e[2] \in blame'[e[1]] \ blame[e[1]] /\ e[2].why = why}

\* A job is aborted over a dependency only when that dependency cannot be met any more,
\* or when its own request to register it was rejected (depend_on_term, post_doq).
AbortedForCause ==
  [][/\ \A e \in NewBlame("Delete")   : ~Met(e[2].type, e[2].other)
     /\ \A e \in NewBlame("Register") : e[2].other \in want[e[1]][e[2].type]]_vars

\* One job deletes another only while the other still waits for it (req_register,
\* depend_on_term).
DeletedWhileWaiting ==
  [][\A e \in NewBlame("Delete") : e[2].other \in dep[e[1]][e[2].type]]_vars
=============================================================================
