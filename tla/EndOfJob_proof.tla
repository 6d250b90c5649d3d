--------------------------- MODULE EndOfJob_proof ---------------------------
(***************************************************************************)
(* Proofs about EndOfJob: whatever files a job needs, whatever statuses the *)
(* MoM reports and however often the stream breaks, the records and the     *)
(* messages keep their types, and the exchange implements RunOfJob without  *)
(* its fairness: a run ends as it began to end, holds its nodes until then, *)
(* and is deleted by the MoM only when it is no longer running.             *)
(*                                                                          *)
(* IInv is the inductive invariant.  The operators that make up the stages  *)
(* of on_job_exit and on_job_rerun have a lemma each, and each action one   *)
(* that shows both that IInv is kept and that RunOfJob allows the step.     *)
(*                                                                          *)
(* Drive is a second invariant, for jobs whose files are chained: it counts *)
(* the requests and answers under way, and shows that end processing never  *)
(* stalls.                                                                  *)
(***************************************************************************)
EXTENDS EndOfJob, FiniteSetTheorems, TLAPS

-----------------------------------------------------------------------------
(* Messages.                                                                *)

\* no message of these kinds is on the stream
No(q, kinds) == \A i \in 1..Len(q) : q[i].k \notin kinds

\* Reading a message leaves the kinds of the others.
LEMMA SeqTail ==
  ASSUME NEW q \in Seq(Message), q # <<>>
  PROVE  /\ Head(q) \in Message
         /\ Tail(q) \in Seq(Message)
         /\ \A ks : No(q, ks) => No(Tail(q), ks) /\ Head(q).k \notin ks
<1>1. Head(q) \in Message /\ Tail(q) \in Seq(Message)
  OBVIOUS
<1>2. /\ Len(Tail(q)) = Len(q) - 1 /\ Len(q) \in Nat \ {0} /\ Head(q) = q[1]
      /\ \A i \in 1..Len(Tail(q)) : Tail(q)[i] = q[i + 1]
  OBVIOUS
<1> QED BY <1>1, <1>2 DEF No

\* Messages added to others bring their own kinds only.
LEMMA SeqAppend ==
  ASSUME NEW q \in Seq(Message), NEW r \in Seq(Message)
  PROVE  /\ q \o r \in Seq(Message)
         /\ \A ks : No(q, ks) /\ No(r, ks) => No(q \o r, ks)
<1>1. q \o r \in Seq(Message)
  OBVIOUS
<1>2. /\ Len(q \o r) = Len(q) + Len(r) /\ Len(q) \in Nat /\ Len(r) \in Nat
      /\ \A i \in 1..Len(q \o r) : (q \o r)[i] = IF i <= Len(q) THEN q[i] ELSE r[i - Len(q)]
  OBVIOUS
<1> QED BY <1>1, <1>2 DEF No

\* So does a single message.
LEMMA SeqOne ==
  ASSUME NEW q \in Seq(Message), NEW m \in Message
  PROVE  /\ <<m>> \in Seq(Message) /\ \A ks : m.k \notin ks => No(<<m>>, ks)
         /\ Append(q, m) \in Seq(Message)
         /\ \A ks : No(q, ks) /\ m.k \notin ks => No(Append(q, m), ks)
<1>1. <<m>> \in Seq(Message) /\ Append(q, m) \in Seq(Message)
  OBVIOUS
<1>2. Len(<<m>>) = 1 /\ <<m>>[1] = m
  OBVIOUS
<1>3. /\ Len(Append(q, m)) = Len(q) + 1 /\ Len(q) \in Nat
      /\ \A i \in 1..Len(Append(q, m)) : Append(q, m)[i] = IF i <= Len(q) THEN q[i] ELSE m
  OBVIOUS
<1> QED BY <1>1, <1>2, <1>3 DEF No

\* the messages with which the requests of a step are written
Asks(q) == [i \in 1..Len(q) |-> [k |-> "Ask", r |-> q[i]]]
\* The requests of a step are messages of the kind Ask.
LEMMA SeqAsks ==
  ASSUME NEW q \in Seq(Request)
  PROVE  /\ Asks(q) \in Seq(Message) /\ Len(Asks(q)) = Len(q)
         /\ \A ks : "Ask" \notin ks \/ q = <<>> => No(Asks(q), ks)
<1>1. \A i \in 1..Len(q) : [k |-> "Ask", r |-> q[i]] \in Message
  BY DEF Message
<1>2. Asks(q) \in Seq(Message) /\ Len(Asks(q)) = Len(q)
  BY <1>1 DEF Asks
<1>3. \A i \in 1..Len(q) : Asks(q)[i].k = "Ask"
  BY DEF Asks
<1> QED BY <1>2, <1>3 DEF No

-----------------------------------------------------------------------------
(* The server's stages.                                                     *)

\* A stage of a job that exits keeps it exiting with what it holds, or finishes it
\* with nothing held; of a job to be rerun likewise, but that one is queued again.
Onward(s, t, stages, over) ==
  /\ t \in ServerType
  /\ \/ t.ss \in stages /\ t.nodes = s.nodes
     \/ t.ss = over /\ ~t.nodes

ExitOn(s, t) == Onward(s, t, ExitStages, "FINISHED")

RerunOn(s, t) == Onward(s, t, RerunStages, "QUEUED")

\* A job moves to another stage of its end.
LEMMA AtType ==
  ASSUME NEW s \in ServerType, NEW stage \in Exiting
  PROVE  /\ At(s, stage) \in ServerType /\ At(s, stage).ss = stage
         /\ At(s, stage).nodes = s.nodes /\ At(s, stage).handle = s.handle
BY DEF At, ServerType, Exiting, ExitStages, RerunStages

\* A request is written and deferred.
LEMMA IssueType ==
  ASSUME NEW s \in ServerType, NEW r \in Request
  PROVE  LET t == [s EXCEPT !.deferred = @ + 1, !.ask = Append(@, r)]
         IN  t \in ServerType /\ t.ss = s.ss /\ t.nodes = s.nodes
<1>1. s.ask \in Seq(Request) /\ s.deferred \in Nat
  BY DEF ServerType
<1>2. Append(s.ask, r) \in Seq(Request) /\ s.deferred + 1 \in Nat
  BY <1>1
<1> QED
  BY <1>2 DEF ServerType

\* An immediate task is left.
LEMMA ImmediatelyType ==
  ASSUME NEW s \in ServerType
  PROVE  /\ Immediately(s) \in ServerType /\ Immediately(s).ss = s.ss
         /\ Immediately(s).nodes = s.nodes /\ Immediately(s).ask = s.ask
BY DEF Immediately, ServerType

\* A stage that has nothing to do leaves a task for the next.
LEMMA SkipType ==
  ASSUME NEW s \in ServerType, NEW stage \in Exiting
  PROVE  LET t == Immediately(At(s, stage))
         IN  t \in ServerType /\ t.ss = stage /\ t.nodes = s.nodes
<1>1. At(s, stage) \in ServerType /\ At(s, stage).ss = stage /\ At(s, stage).nodes = s.nodes
  BY AtType
<1> QED
  BY <1>1, ImmediatelyType

\* A timed task is left.
LEMMA LaterType ==
  ASSUME NEW s \in ServerType
  PROVE  /\ Later(s) \in ServerType /\ Later(s).ss = s.ss
         /\ Later(s).nodes = s.nodes /\ Later(s).ask = s.ask
BY DEF Later, ServerType

\* A purged job holds nothing.
LEMMA PurgeType ==
  ASSUME NEW s \in ServerType
  PROVE  LET t == job_purge(rel_resc(s))
         IN  t \in ServerType /\ t.ss = "FINISHED" /\ ~t.nodes /\ t.ask = s.ask
BY DEF job_purge, rel_resc, ServerType, Left

\* A job that is queued again holds nothing.
LEMMA RequeueType ==
  ASSUME NEW s \in ServerType
  PROVE  LET t == force_reque(s)
         IN  t \in ServerType /\ t.ss = "QUEUED" /\ ~t.nodes /\ t.ask = s.ask
BY DEF force_reque, rel_resc, ServerType, Left

\* on_job_exit in JOB_SUBSTATE_EXITED,
LEMMA ExitedFirstOn ==
  ASSUME NEW s \in ServerType
  PROVE  ExitOn(s, ExitedFirst(s))
<1> DEFINE e == At(s, "EXITED")
<1>1. e \in ServerType /\ e.ss = "EXITED" /\ e.nodes = s.nodes
  BY AtType DEF Exiting, ExitStages
<1>2. ExitOn(s, job_purge(rel_resc(e)))
  BY <1>1, PurgeType DEF ExitOn, Onward
<1>3. ExitOn(s, [e EXCEPT !.deferred = @ + 1, !.ask = Append(@, "DeleteJob")])
  <2> HIDE DEF e
  <2> QED BY <1>1, IssueType DEF ExitOn, Onward, Request, ExitStages
<1> QED
  BY <1>2, <1>3 DEF ExitedFirst, issue_Drequest

\* in JOB_SUBSTATE_STAGEDEL,
LEMMA StagedelFirstOn ==
  ASSUME NEW s \in ServerType
  PROVE  ExitOn(s, StagedelFirst(s))
<1> DEFINE d == At(s, "STAGEDEL")
<1>1. d \in ServerType /\ d.ss = "STAGEDEL" /\ d.nodes = s.nodes
  BY AtType DEF Exiting, ExitStages
<1> HIDE DEF d
<1>2. ExitOn(s, ExitedFirst(d))
  BY <1>1, ExitedFirstOn DEF ExitOn, Onward
<1>3. ExitOn(s, [d EXCEPT !.deferred = @ + 1, !.ask = Append(@, "DelFiles")])
  BY <1>1, IssueType DEF ExitOn, Onward, Request, ExitStages
<1>4. ExitOn(s, Immediately(At(d, "EXITED")))
  BY <1>1, SkipType DEF ExitOn, Onward, Exiting, ExitStages
<1> QED
  BY <1>2, <1>3, <1>4 DEF StagedelFirst, Stage, issue_Drequest, d

\* and in JOB_SUBSTATE_STAGEOUT.
LEMMA StageoutFirstOn ==
  ASSUME NEW s \in ServerType
  PROVE  ExitOn(s, StageoutFirst(s))
<1> DEFINE o == At(s, "STAGEOUT")
<1>1. o \in ServerType /\ o.ss = "STAGEOUT" /\ o.nodes = s.nodes
  BY AtType DEF Exiting, ExitStages
<1> HIDE DEF o
<1>2. ExitOn(s, StagedelFirst(o))
  BY <1>1, StagedelFirstOn DEF ExitOn, Onward
<1>3. ExitOn(s, [o EXCEPT !.deferred = @ + 1, !.ask = Append(@, "CopyFiles")])
  BY <1>1, IssueType DEF ExitOn, Onward, Request, ExitStages
<1>4. ExitOn(s, Immediately(At(o, "STAGEDEL")))
  BY <1>1, SkipType DEF ExitOn, Onward, Exiting, ExitStages
<1> QED
  BY <1>2, <1>3, <1>4 DEF StageoutFirst, Stage, issue_Drequest, o

\* on_job_exit with a task that is no answer.
LEMMA ExitFirstOn ==
  ASSUME NEW s \in ServerType, s.ss \in ExitStages
  PROVE  ExitOn(s, ExitFirst(s))
BY StageoutFirstOn, StagedelFirstOn, ExitedFirstOn DEF ExitFirst, ExitStages

\* on_job_exit with an answer, whichever request it belongs to.
LEMMA ExitReplyOn ==
  ASSUME NEW s \in ServerType, s.ss \in ExitStages, NEW code \in {"done", "TRYAGAIN"}
  PROVE  ExitOn(s, ExitReply(s, code))
<1>1. ExitOn(s, job_purge(rel_resc(s)))
  BY PurgeType DEF ExitOn, Onward
<1>2. ExitOn(s, Later(s))
  BY LaterType DEF ExitOn, Onward
<1> QED
  BY <1>1, <1>2, StageoutFirstOn, StagedelFirstOn, ExitedFirstOn DEF ExitReply, ExitStages

\* on_job_rerun in JOB_SUBSTATE_RERUN3,
LEMMA Rerun3FirstOn ==
  ASSUME NEW s \in ServerType
  PROVE  RerunOn(s, Rerun3First(s))
<1> DEFINE e == At(s, "RERUN3")
<1>1. e \in ServerType /\ e.ss = "RERUN3" /\ e.nodes = s.nodes
  BY AtType DEF Exiting, RerunStages
<1> HIDE DEF e
<1>2. RerunOn(s, force_reque(e))
  BY <1>1, RequeueType DEF RerunOn, Onward
<1>3. RerunOn(s, [e EXCEPT !.deferred = @ + 1, !.ask = Append(@, "DeleteJob")])
  BY <1>1, IssueType DEF RerunOn, Onward, Request, RerunStages
<1> QED
  BY <1>2, <1>3 DEF Rerun3First, issue_Drequest, e

\* in JOB_SUBSTATE_RERUN2,
LEMMA Rerun2FirstOn ==
  ASSUME NEW s \in ServerType
  PROVE  RerunOn(s, Rerun2First(s))
<1> DEFINE d == At(s, "RERUN2")
<1>1. d \in ServerType /\ d.ss = "RERUN2" /\ d.nodes = s.nodes
  BY AtType DEF Exiting, RerunStages
<1> HIDE DEF d
<1>2. RerunOn(s, Rerun3First(d))
  BY <1>1, Rerun3FirstOn DEF RerunOn, Onward
<1>3. RerunOn(s, [d EXCEPT !.deferred = @ + 1, !.ask = Append(@, "DelFiles")])
  BY <1>1, IssueType DEF RerunOn, Onward, Request, RerunStages
<1>4. RerunOn(s, Immediately(At(d, "RERUN3")))
  BY <1>1, SkipType DEF RerunOn, Onward, Exiting, RerunStages
<1> QED
  BY <1>2, <1>3, <1>4 DEF Rerun2First, Stage, issue_Drequest, d

\* and in JOB_SUBSTATE_RERUN1.
LEMMA Rerun1FirstOn ==
  ASSUME NEW s \in ServerType
  PROVE  RerunOn(s, Rerun1First(s))
<1> DEFINE o == At(s, "RERUN1")
<1>1. o \in ServerType /\ o.ss = "RERUN1" /\ o.nodes = s.nodes
  BY AtType DEF Exiting, RerunStages
<1> HIDE DEF o
<1>2. RerunOn(s, Rerun2First(o))
  BY <1>1, Rerun2FirstOn DEF RerunOn, Onward
<1>3. RerunOn(s, [o EXCEPT !.deferred = @ + 1, !.ask = Append(@, "CopyFiles")])
  BY <1>1, IssueType DEF RerunOn, Onward, Request, RerunStages
<1>4. RerunOn(s, Immediately(At(o, "RERUN2")))
  BY <1>1, SkipType DEF RerunOn, Onward, Exiting, RerunStages
<1> QED
  BY <1>2, <1>3, <1>4 DEF Rerun1First, Stage, issue_Drequest, o

\* on_job_rerun with a task that is no answer.
LEMMA RerunFirstOn ==
  ASSUME NEW s \in ServerType, s.ss \in RerunStages
  PROVE  RerunOn(s, RerunFirst(s))
<1>1. CASE s.ss = "RERUN"
  <2>1. RerunOn(s, [s EXCEPT !.deferred = @ + 1, !.ask = Append(@, "Rerun")])
    BY IssueType DEF RerunOn, Onward, Request
  <2>2. RerunOn(s, Immediately(At(s, "RERUN1")))
    BY SkipType DEF RerunOn, Onward, Exiting, RerunStages
  <2> QED
    BY <1>1, <2>1, <2>2, Rerun1FirstOn DEF RerunFirst, Stage, issue_Drequest
<1> QED
  BY <1>1, Rerun1FirstOn, Rerun2FirstOn, Rerun3FirstOn DEF RerunFirst, RerunStages

\* on_job_rerun with an answer, whichever request it belongs to.
LEMMA RerunReplyOn ==
  ASSUME NEW s \in ServerType, s.ss \in RerunStages
  PROVE  RerunOn(s, RerunReply(s))
<1>1. RerunOn(s, force_reque(s))
  BY RequeueType DEF RerunOn, Onward
<1> QED
  BY <1>1, Rerun1FirstOn, Rerun2FirstOn, Rerun3FirstOn DEF RerunReply, RerunStages

\* What a task or an answer makes of the job, whatever stage it is in: the run ends as
\* it began to end, and a run that is over stays so and asks for nothing.
Proceeds(s, t) ==
  /\ t \in ServerType
  /\ s.ss \in ExitStages => ExitOn(s, t)
  /\ s.ss \in RerunStages => RerunOn(s, t)
  /\ s.ss \in Left => t.ss = s.ss /\ t.nodes = s.nodes /\ t.ask = s.ask

\* A task takes the job on,
LEMMA FirstProceeds ==
  ASSUME NEW s \in ServerType, s.ss # "RUNNING"
  PROVE  Proceeds(s, First(s))
<1>1. CASE s.ss \in ExitStages
  BY <1>1, ExitFirstOn DEF First, Proceeds, ExitOn, Onward, ExitStages, RerunStages, Left
<1>2. CASE s.ss \in RerunStages
  BY <1>2, RerunFirstOn DEF First, Proceeds, RerunOn, Onward, ExitStages, RerunStages, Left
<1>3. CASE s.ss \in Left
  BY <1>3 DEF First, RerunFirst, Proceeds, ExitStages, RerunStages, Left
<1> QED
  BY <1>1, <1>2, <1>3 DEF ServerType, Exiting

\* and so does an answer.
LEMMA AnsweredProceeds ==
  ASSUME NEW s \in ServerType, s.ss # "RUNNING", NEW code \in {"done", "TRYAGAIN"}
  PROVE  Proceeds(s, Answered(s, code))
<1>1. CASE s.ss \in ExitStages
  BY <1>1, ExitReplyOn DEF Answered, Proceeds, ExitOn, Onward, ExitStages, RerunStages, Left
<1>2. CASE s.ss \in RerunStages
  BY <1>2, RerunReplyOn DEF Answered, Proceeds, RerunOn, Onward, ExitStages, RerunStages, Left
<1>3. CASE s.ss \in Left
  BY <1>3 DEF Answered, RerunReply, Proceeds, ExitStages, RerunStages, Left
<1> QED
  BY <1>1, <1>2, <1>3 DEF ServerType, Exiting

\* Connecting to the MoM, or not reaching her, changes nothing of this.
LEMMA ConnectProceeds ==
  ASSUME NEW s \in ServerType
  PROVE  /\ Connected(s) \in ServerType
         /\ Connected(s).ss = s.ss /\ Connected(s).nodes = s.nodes /\ Connected(s).ask = s.ask
         /\ Proceeds(s, Unreachable(s))
<1>1. /\ Connected(s) \in ServerType
      /\ Connected(s).ss = s.ss /\ Connected(s).nodes = s.nodes /\ Connected(s).ask = s.ask
  BY DEF Connected, ServerType
<1>2. Proceeds(s, Unreachable(s))
  BY LaterType DEF Unreachable, Proceeds, ExitOn, RerunOn, Onward
<1> QED
  BY <1>1, <1>2

\* What a step leaves to be written is written.
LEMMA Written ==
  ASSUME NEW s \in ServerType, NEW t, Proceeds(s, t), s.ss # "RUNNING", s.ask = <<>>,
         toMom \in Seq(Message), Write(t)
  PROVE  /\ Proceeds(s, sv') /\ sv'.ask = <<>> /\ toMom' \in Seq(Message)
         /\ \A ks : No(toMom, ks) /\ ("Ask" \notin ks \/ s.ss \in Left) => No(toMom', ks)
<1>1. t \in ServerType /\ t.ask \in Seq(Request) /\ (s.ss \in Left => t.ask = <<>>)
  BY DEF Proceeds, ServerType
<1>2. sv' = [t EXCEPT !.ask = <<>>] /\ toMom' = toMom \o Asks(t.ask)
  BY DEF Write, Asks
<1>3. /\ sv' \in ServerType /\ sv'.ask = <<>> /\ sv'.ss = t.ss /\ sv'.nodes = t.nodes
  BY <1>1, <1>2 DEF ServerType
<1>4. Proceeds(s, sv')
  BY <1>3 DEF Proceeds, ExitOn, RerunOn, Onward
<1>5. Asks(t.ask) \in Seq(Message) /\ \A ks : "Ask" \notin ks \/ s.ss \in Left => No(Asks(t.ask), ks)
  BY <1>1, SeqAsks
<1> QED
  BY <1>2, <1>3, <1>4, <1>5, SeqAppend

-----------------------------------------------------------------------------
(* The inductive invariant.                                                 *)

\* the run holds its nodes until the server lets go of it
HeldWhileRun == sv.nodes <=> sv.ss \notin Left

\* while the job runs for the server nothing of its end is under way
NothingEarly ==
  sv.ss = "RUNNING" => /\ sv.immed = 0 /\ sv.timed = 0 /\ sv.deferred = 0
                       /\ No(toMom, {"Ask", "BADOBIT", "DISCARD_JOB"})

\* while it runs at the MoM the server does not ask for its end either
MomUndisturbed ==
  mom.ss = "RUNNING" => /\ sv.ss \notin Exiting /\ mom.post = "none"
                        /\ No(toMom, {"Ask"}) /\ No(toSvr, {"JOBOBIT"})

\* a job that the MoM does not have has no files being copied or deleted, and one
\* that has ended has an exit status
MomRecord == /\ mom.ss = "none" => mom.post = "none"
             /\ mom.ss \in {"OBIT", "EXITED"} => mom.stat # "none"

AllWritten == sv.ask = <<>>

IInv == TypeOK /\ HeldWhileRun /\ NothingEarly /\ MomUndisturbed /\ MomRecord /\ AllWritten

\* The parts of a message the server reads have their types.
LEMMA MessageParts ==
  ASSUME NEW m \in Message
  PROVE  /\ m.k = "Reply" => m.code \in {"done", "TRYAGAIN"}
         /\ m.k = "JOBOBIT" => m.stat \in Statuses \cup {"INITABT"}
BY DEF Message

\* The messages of the server,
LEMMA ServerMessages ==
  /\ [k |-> "BADOBIT"] \in Message /\ [k |-> "DISCARD_JOB"] \in Message
  /\ [k |-> "CLUSTER_ADDRS"] \in Message
BY DEF Message

\* and those of the MoM.
LEMMA MomMessages ==
  /\ Done \in Message /\ TryAgain \in Message /\ [k |-> "DISCARD_DONE"] \in Message
  /\ [k |-> "MOM_READY"] \in Message
  /\ \A b \in BOOLEAN : [k |-> "HELLO4", has |-> b] \in Message
  /\ \A st \in Statuses \cup {"INITABT"} : [k |-> "JOBOBIT", stat |-> st] \in Message
BY DEF Message, Done, TryAgain

\* Initially the job runs and nothing is under way.
LEMMA InitOK == Init => IInv
<1> SUFFICES ASSUME Init PROVE IInv
  OBVIOUS
<1>1. <<>> \in Seq(Message) /\ <<>> \in Seq(Request) /\ \A ks : No(<<>>, ks)
  BY DEF No
<1>2. TypeOK
  <2>1. PICK needs \in Needs :
          sv = [needs |-> needs, ss |-> "RUNNING", handle |-> "none", nodes |-> TRUE,
                immed |-> 0, timed |-> 0, deferred |-> 0, ask |-> <<>>]
    BY DEF Init
  <2>2. sv \in ServerType
    BY <1>1, <2>1 DEF ServerType
  <2>3. mom \in MomType
    BY DEF Init, MomType
  <2>4. toMom = <<>> /\ toSvr = <<>> /\ link = "up" /\ phase = "net"
    BY DEF Init
  <2>5. timer \in BOOLEAN
    BY Zenon DEF Init
  <2>6. breaks \in 0..MaxBreaks
    BY EndAssumption DEF Init
  <2> QED
    BY <1>1, <2>2, <2>3, <2>4, <2>5, <2>6 DEF TypeOK
<1> QED
  BY <1>1, <1>2 DEF Init, IInv, HeldWhileRun, NothingEarly, MomUndisturbed, MomRecord,
                    AllWritten, Exiting, ExitStages, RerunStages, Left

-----------------------------------------------------------------------------
(* Steps as RunOfJob sees them.                                             *)

\* the step is one of RunOfJob, or a stutter
Refines == [Run!RunNext]_(Run!abstract)

\* What a task or an answer does to the run is Leave or nothing.
LEMMA ProceedRefines ==
  ASSUME IInv, sv.ss # "RUNNING", UNCHANGED <<mom, link>>,
         NEW s, s.ss = sv.ss, s.nodes = sv.nodes, Proceeds(s, sv')
  PROVE  Refines
<1>1. CASE sv.ss \in ExitStages
  <2>1. \/ sv'.ss \in ExitStages /\ sv'.nodes = sv.nodes
        \/ sv'.ss = "FINISHED" /\ ~sv'.nodes
    BY <1>1 DEF Proceeds, ExitOn, Onward
  <2>2. sv'.nodes \in BOOLEAN
    BY DEF Proceeds, ServerType
  <2> QED
    BY <1>1, <2>1, <2>2 DEF Refines, Run!RunNext, Run!Leave, Run!abstract, Phase, ExitStages,
                            RerunStages
<1>2. CASE sv.ss \in RerunStages
  <2>1. \/ sv'.ss \in RerunStages /\ sv'.nodes = sv.nodes
        \/ sv'.ss = "QUEUED" /\ ~sv'.nodes
    BY <1>2 DEF Proceeds, RerunOn, Onward
  <2>2. sv'.nodes \in BOOLEAN
    BY DEF Proceeds, ServerType
  <2> QED
    BY <1>2, <2>1, <2>2 DEF Refines, Run!RunNext, Run!Leave, Run!abstract, Phase, ExitStages,
                            RerunStages
<1>3. CASE sv.ss \in Left
  BY <1>3 DEF Refines, Run!abstract, Proceeds
<1> QED
  BY <1>1, <1>2, <1>3 DEF IInv, TypeOK, ServerType, Exiting

\* A step that changes neither the stage nor who has the job is a stutter, or Contact.
LEMMA KeepRefines ==
  ASSUME sv'.ss = sv.ss, sv'.nodes = sv.nodes, mom'.ss # "none" <=> mom.ss # "none"
  PROVE  Refines
<1>1. CASE link' # "up" <=> link # "up"
  BY <1>1 DEF Refines, Run!abstract
<1>2. CASE link' # "up" <=> link = "up"
  BY <1>2 DEF Refines, Run!RunNext, Run!Contact
<1> QED
  BY <1>1, <1>2

\* The MoM drops a job that no longer runs for the server: Delete.
LEMMA DeleteRefines ==
  ASSUME IInv, sv' = sv, sv.ss # "RUNNING", mom'.ss = "none", link' = link
  PROVE  Refines
<1>1. Phase(sv.ss) # "running"
  BY DEF Phase, IInv, TypeOK, ServerType, Exiting, ExitStages, RerunStages, Left
<1> QED
  BY <1>1 DEF Refines, Run!abstract, Run!RunNext, Run!Delete

-----------------------------------------------------------------------------
(* The server's steps.                                                      *)

\* What a step of the server that leaves the MoM alone must show.
LEMMA ServerSide ==
  ASSUME IInv, sv.ss # "RUNNING", UNCHANGED <<mom, link>>,
         NEW s, s \in ServerType, s.ss = sv.ss, s.nodes = sv.nodes, Proceeds(s, sv'),
         sv'.ask = <<>>, toMom' \in Seq(Message), toSvr' \in Seq(Message),
         No(toSvr, {"JOBOBIT"}) => No(toSvr', {"JOBOBIT"}),
         sv.ss \in Left /\ No(toMom, {"Ask"}) => No(toMom', {"Ask"}),
         timer' \in BOOLEAN, breaks' \in 0..MaxBreaks, phase' \in {"net", "immed", "timed"}
  PROVE  IInv' /\ Refines
<1>1. Refines
  BY ProceedRefines
<1>2. sv' \in ServerType
  BY DEF Proceeds
<1>3. TypeOK'
  BY <1>2 DEF IInv, TypeOK
<1>4. HeldWhileRun' /\ sv'.ss # "RUNNING"
  <2>1. CASE sv.ss \in ExitStages
    BY <2>1 DEF IInv, HeldWhileRun, Proceeds, ExitOn, Onward, ExitStages, Left
  <2>2. CASE sv.ss \in RerunStages
    BY <2>2 DEF IInv, HeldWhileRun, Proceeds, RerunOn, Onward, RerunStages, Left
  <2>3. CASE sv.ss \in Left
    BY <2>3 DEF IInv, HeldWhileRun, Proceeds, Left
  <2> QED
    BY <2>1, <2>2, <2>3 DEF ServerType, Exiting
<1>5. MomUndisturbed'
  <2> SUFFICES ASSUME mom.ss = "RUNNING"
               PROVE  /\ sv'.ss \notin Exiting /\ mom.post = "none"
                      /\ No(toMom', {"Ask"}) /\ No(toSvr', {"JOBOBIT"})
    BY DEF MomUndisturbed
  <2>1. sv.ss \in Left
    BY DEF IInv, MomUndisturbed, TypeOK, ServerType
  <2>2. sv'.ss \notin Exiting
    BY <2>1 DEF Proceeds, Left, Exiting, ExitStages, RerunStages
  <2> QED
    BY <2>1, <2>2 DEF IInv, MomUndisturbed
<1> QED
  BY <1>1, <1>3, <1>4, <1>5 DEF IInv, NothingEarly, MomRecord, AllWritten

\* A work task is dispatched (on_job_exit, on_job_rerun).
LEMMA dispatchOK ==
  ASSUME IInv, NEW field \in {"immed", "timed"}, dispatch(field),
         phase' \in {"net", "immed", "timed"}
  PROVE  IInv' /\ Refines
<1> DEFINE s == [sv EXCEPT ![field] = @ - 1]
<1>1. sv \in ServerType /\ sv[field] \in Nat \ {0} /\ sv.ss # "RUNNING"
  BY DEF dispatch, IInv, TypeOK, ServerType, NothingEarly
<1>2. /\ s \in ServerType /\ s.ss = sv.ss /\ s.nodes = sv.nodes /\ s.ask = <<>>
  BY <1>1 DEF ServerType, IInv, AllWritten
<1>3. Write(mom_comm(s, First(Connected(s)))) /\ mom' = mom
  BY DEF dispatch
<1> HIDE DEF s
<1>4. Proceeds(s, mom_comm(s, First(Connected(s))))
  BY <1>1, <1>2, ConnectProceeds, FirstProceeds DEF mom_comm, Proceeds, ExitOn, RerunOn, Onward
<1>5. /\ Proceeds(s, sv') /\ sv'.ask = <<>> /\ toMom' \in Seq(Message)
      /\ sv.ss \in Left /\ No(toMom, {"Ask"}) => No(toMom', {"Ask"})
  BY <1>1, <1>2, <1>3, <1>4, Written DEF IInv, TypeOK
<1> QED
  BY <1>1, <1>2, <1>3, <1>5, ServerSide DEF dispatch, IInv, TypeOK

\* The server reads a message.
LEMMA ReadOK ==
  ASSUME IInv, NEW kind, Read(kind)
  PROVE  /\ Head(toSvr) \in Message /\ Head(toSvr).k = kind
         /\ toSvr' \in Seq(Message) /\ phase' = "net"
         /\ No(toSvr, {"JOBOBIT"}) => No(toSvr', {"JOBOBIT"}) /\ kind # "JOBOBIT"
BY SeqTail DEF Read, net_phase, IInv, TypeOK

\* An answer comes in (process_DreplyRPP).
LEMMA process_DreplyRPP_OK ==
  ASSUME IInv, process_DreplyRPP
  PROVE  IInv' /\ Refines
<1> DEFINE s == [sv EXCEPT !.deferred = @ - 1]
           code == Head(toSvr).code
<1>1. /\ code \in {"done", "TRYAGAIN"} /\ toSvr' \in Seq(Message) /\ phase' = "net"
      /\ No(toSvr, {"JOBOBIT"}) => No(toSvr', {"JOBOBIT"})
  BY ReadOK, MessageParts DEF process_DreplyRPP
<1>2. CASE sv.deferred = 0
  <2>1. UNCHANGED <<sv, mom, toMom, link, timer, breaks>>
    BY <1>2 DEF process_DreplyRPP
  <2> QED
    BY <1>1, <2>1, KeepRefines DEF IInv, TypeOK, HeldWhileRun, NothingEarly, MomUndisturbed,
                                   MomRecord, AllWritten
<1>3. CASE sv.deferred # 0
  <2>1. sv \in ServerType /\ sv.deferred \in Nat \ {0} /\ sv.ss # "RUNNING"
    BY <1>3 DEF IInv, TypeOK, ServerType, NothingEarly
  <2>2. /\ s \in ServerType /\ s.ss = sv.ss /\ s.nodes = sv.nodes /\ s.ask = <<>>
    BY <2>1 DEF ServerType, IInv, AllWritten
  <2>3. /\ Write(mom_comm(s, Answered(Connected(s), code)))
        /\ UNCHANGED <<mom, link, timer, breaks>>
    BY <1>3 DEF process_DreplyRPP
  <2> HIDE DEF s, code
  <2>4. Proceeds(s, mom_comm(s, Answered(Connected(s), code)))
    BY <1>1, <2>1, <2>2, ConnectProceeds, AnsweredProceeds
       DEF mom_comm, Proceeds, ExitOn, RerunOn, Onward
  <2>5. /\ Proceeds(s, sv') /\ sv'.ask = <<>> /\ toMom' \in Seq(Message)
        /\ sv.ss \in Left /\ No(toMom, {"Ask"}) => No(toMom', {"Ask"})
    BY <2>1, <2>2, <2>3, <2>4, Written DEF IInv, TypeOK
  <2> QED
    BY <1>1, <2>1, <2>2, <2>3, <2>5, ServerSide DEF IInv, TypeOK
<1> QED
  BY <1>2, <1>3

\* An obituary ends the run or restarts end processing (job_obit).
LEMMA job_obit_OK ==
  ASSUME IInv, job_obit
  PROVE  IInv' /\ Refines
<1> DEFINE h == [sv EXCEPT !.handle = "none"]
           fresh == Immediately(h)
<1>1. /\ Head(toSvr).stat \in Statuses \cup {"INITABT"} /\ toSvr' \in Seq(Message)
      /\ phase' = "net" /\ ~No(toSvr, {"JOBOBIT"})
  BY ReadOK, MessageParts DEF job_obit
<1>2. sv \in ServerType /\ mom.ss # "RUNNING" /\ UNCHANGED <<mom, link, timer, breaks>>
  BY <1>1 DEF IInv, TypeOK, MomUndisturbed, job_obit
<1>3. h \in ServerType /\ h.ss = sv.ss /\ h.nodes = sv.nodes /\ h.ask = sv.ask
  BY <1>2 DEF ServerType
<1>4. /\ fresh \in ServerType /\ fresh.ss = sv.ss /\ fresh.nodes = sv.nodes
      /\ fresh.ask = <<>>
  <2> HIDE DEF h
  <2> QED
    BY <1>3, ImmediatelyType DEF IInv, AllWritten
<1>5. CASE sv.ss \in Left
  <2>1. sv' = sv /\ toMom' = Append(toMom, [k |-> "BADOBIT"]) /\ sv.ss # "RUNNING"
    BY <1>5 DEF job_obit, Left, Exiting, ExitStages, RerunStages
  <2>2. toMom' \in Seq(Message)
    BY <2>1, SeqOne, ServerMessages DEF IInv, TypeOK
  <2> QED
    BY <1>1, <1>2, <2>1, <2>2, KeepRefines
       DEF IInv, TypeOK, HeldWhileRun, NothingEarly, MomUndisturbed, MomRecord, AllWritten
<1>6. CASE sv.ss \in Exiting
  <2>1. sv' = fresh /\ toMom' = toMom /\ sv.ss # "RUNNING"
    BY <1>6 DEF job_obit, Left, Exiting, ExitStages, RerunStages
  <2> HIDE DEF fresh
  <2> QED
    BY <1>1, <1>2, <1>4, <2>1, KeepRefines
       DEF IInv, TypeOK, HeldWhileRun, NothingEarly, MomUndisturbed, MomRecord, AllWritten
<1>7. CASE sv.ss = "RUNNING"
  <2>1. /\ toMom' = toMom
        /\ \E ss \in ObitSubstates(Head(toSvr).stat) : sv' = At(fresh, ss)
    BY <1>7 DEF job_obit, Left, Exiting, ExitStages, RerunStages
  <2>2. PICK ss \in {"EXITING", "RERUN", "RERUN2"} : sv' = At(fresh, ss)
    BY <1>1, <2>1, EndAssumption DEF ObitSubstates
  <2> HIDE DEF fresh
  <2>3. /\ sv' \in ServerType /\ sv'.ss = ss /\ sv'.nodes = sv.nodes /\ sv'.ask = <<>>
    BY <1>4, <2>2 DEF At, ServerType, Exiting, ExitStages, RerunStages
  <2>4. Refines
    BY <1>2, <1>7, <2>3 DEF Refines, Run!RunNext, Run!End, Run!abstract, Phase, ExitStages,
                            RerunStages
  <2> QED
    BY <1>1, <1>2, <1>7, <2>1, <2>3, <2>4
       DEF IInv, TypeOK, HeldWhileRun, NothingEarly, MomUndisturbed, MomRecord, AllWritten, Left
<1> QED
  BY <1>2, <1>5, <1>6, <1>7 DEF ServerType

\* The MoM greets the server; a job it has left is discarded.
LEMMA is_hello4_OK ==
  ASSUME IInv, is_hello4
  PROVE  IInv' /\ Refines
<1> DEFINE d == IF Head(toSvr).has /\ sv.ss \in Left THEN <<[k |-> "DISCARD_JOB"]>> ELSE <<>>
           c == <<[k |-> "CLUSTER_ADDRS"]>>
<1>1. /\ toSvr' \in Seq(Message) /\ phase' = "net"
      /\ No(toSvr, {"JOBOBIT"}) => No(toSvr', {"JOBOBIT"})
  BY ReadOK DEF is_hello4
<1>2. /\ timer' = FALSE /\ UNCHANGED <<sv, mom, link, breaks>> /\ toMom' = toMom \o d \o c
  BY DEF is_hello4
<1>3. d \in Seq(Message) /\ \A ks : sv.ss \notin Left \/ "DISCARD_JOB" \notin ks => No(d, ks)
  BY SeqOne, ServerMessages DEF No, IInv, TypeOK
<1>4. c \in Seq(Message) /\ \A ks : "CLUSTER_ADDRS" \notin ks => No(c, ks)
  BY SeqOne, ServerMessages DEF IInv, TypeOK
<1> HIDE DEF d, c
<1>5. /\ toMom' \in Seq(Message)
      /\ \A ks : /\ No(toMom, ks) /\ "CLUSTER_ADDRS" \notin ks
                /\ (sv.ss \notin Left \/ "DISCARD_JOB" \notin ks) => No(toMom', ks)
  <2>1. /\ toMom \o d \in Seq(Message) /\ \A ks : No(toMom, ks) /\ No(d, ks) => No(toMom \o d, ks)
    BY <1>3, SeqAppend DEF IInv, TypeOK
  <2> QED
    BY <1>2, <1>3, <1>4, <2>1, SeqAppend
<1> QED
  BY <1>1, <1>2, <1>5, KeepRefines
     DEF IInv, TypeOK, HeldWhileRun, NothingEarly, MomUndisturbed, MomRecord, AllWritten, Left

\* The MoM is up again, or has discarded the job.
LEMMA is_mom_ready_OK ==
  ASSUME IInv, is_mom_ready \/ is_discard_done
  PROVE  IInv' /\ Refines
<1>1. /\ toSvr' \in Seq(Message) /\ phase' = "net"
      /\ No(toSvr, {"JOBOBIT"}) => No(toSvr', {"JOBOBIT"})
  BY ReadOK DEF is_mom_ready, is_discard_done
<1>2. UNCHANGED <<sv, mom, toMom, timer, breaks>> /\ link' \in {link, "up"}
  BY DEF is_mom_ready, is_discard_done
<1> QED
  BY <1>1, <1>2, KeepRefines
     DEF IInv, TypeOK, HeldWhileRun, NothingEarly, MomUndisturbed, MomRecord, AllWritten

\* The stream breaks and all deferred requests are answered.
LEMMA stream_eof_OK ==
  ASSUME IInv, stream_eof
  PROVE  IInv' /\ Refines
<1>1. /\ link' = "down" /\ toMom' = <<>> /\ toSvr' = <<>> /\ sv' = EofToAll(sv)
      /\ mom' = [mom EXCEPT !.preq = FALSE, !.kids = 0] /\ phase' = "net"
      /\ breaks' \in 0..MaxBreaks /\ timer' \in BOOLEAN
  <2>1. breaks' \in 0..MaxBreaks
    BY EndAssumption DEF stream_eof, IInv, TypeOK
  <2>2. timer' \in BOOLEAN
    <3>1. sv.nodes \in BOOLEAN /\ timer \in BOOLEAN
      BY DEF IInv, TypeOK, ServerType
    <3> QED
      BY <3>1, Zenon DEF stream_eof, momptr_down
  <2> QED
    BY <2>1, <2>2 DEF stream_eof, net_phase
<1>2. <<>> \in Seq(Message) /\ \A ks : No(<<>>, ks)
  BY DEF No
<1>3. sv \in ServerType /\ mom \in MomType
  BY DEF IInv, TypeOK
<1>4. /\ mom' \in MomType /\ mom'.ss = mom.ss /\ mom'.post = mom.post /\ mom'.stat = mom.stat
  BY <1>1, <1>3 DEF MomType
<1>5. /\ sv' \in ServerType /\ sv'.ss = sv.ss /\ sv'.nodes = sv.nodes /\ sv'.ask = sv.ask
      /\ sv.deferred = 0 => sv'.immed = sv.immed /\ sv'.timed = sv.timed /\ sv'.deferred = 0
  <2>1. CASE sv.deferred > 0 /\ sv.ss \in Exiting
    <3>1. sv' = [sv EXCEPT !.handle = "none", !.immed = @ + sv.deferred, !.deferred = 0]
      BY <1>1, <2>1 DEF EofToAll
    <3>2. sv.immed + sv.deferred \in Nat /\ sv.deferred # 0
      BY <1>3, <2>1 DEF ServerType
    <3> QED
      BY <1>3, <3>1, <3>2 DEF ServerType
  <2>2. CASE sv.deferred > 0 /\ sv.ss \notin Exiting
    BY <1>1, <1>3, <2>2 DEF EofToAll, ServerType
  <2>3. CASE sv.deferred = 0
    <3>1. sv' = [sv EXCEPT !.handle = IF @ = "live" THEN "stale" ELSE @]
      BY <1>1, <2>3 DEF EofToAll
    <3> QED
      BY <1>3, <2>3, <3>1 DEF ServerType
  <2> QED
    BY <1>3, <2>1, <2>2, <2>3 DEF ServerType
<1> QED
  BY <1>1, <1>2, <1>4, <1>5, KeepRefines
     DEF IInv, TypeOK, HeldWhileRun, NothingEarly, MomUndisturbed, MomRecord, AllWritten

\* The MoM has been down too long: the job is taken from her (GiveUp).
LEMMA node_down_OK ==
  ASSUME IInv, momptr_down_again \/ node_down_requeue
  PROVE  IInv' /\ Refines
<1>1. UNCHANGED <<mom, toMom, toSvr, link, breaks>> /\ timer' \in BOOLEAN /\ phase' = "timed"
  BY DEF momptr_down_again, node_down_requeue, timed_phase
<1>2. CASE sv' = sv
  BY <1>1, <1>2, KeepRefines
     DEF IInv, TypeOK, HeldWhileRun, NothingEarly, MomUndisturbed, MomRecord, AllWritten
<1>3. CASE sv' # sv
  <2>1. /\ sv.nodes /\ link # "up"
        /\ \/ Rerunnable /\ sv' = force_reque(At(sv, "RERUN3"))
           \/ ~Rerunnable /\ sv' = job_purge(rel_resc(sv))
    <3>1. /\ node_down_requeue
      BY <1>3, Zenon DEF momptr_down_again
    <3> QED
      BY <1>3, <3>1, Zenon DEF node_down_requeue
  <2>2. /\ sv' \in ServerType /\ ~sv'.nodes /\ sv'.ask = <<>>
        /\ sv'.ss = IF Rerunnable THEN "QUEUED" ELSE "FINISHED"
    <3>1. CASE Rerunnable
      <4>1. At(sv, "RERUN3") \in ServerType /\ At(sv, "RERUN3").ask = <<>>
        BY DEF At, ServerType, IInv, TypeOK, AllWritten, Exiting, RerunStages
      <4> QED
        BY <2>1, <3>1, <4>1, RequeueType
    <3>2. CASE ~Rerunnable
      BY <2>1, <3>2, PurgeType DEF IInv, TypeOK, AllWritten
    <3> QED
      BY <3>1, <3>2
  <2>3. sv.ss \notin Left
    BY <2>1 DEF IInv, HeldWhileRun
  <2>4. /\ Phase(sv.ss) \notin Run!Over /\ sv'.nodes = FALSE
        /\ Phase(sv'.ss) = IF Rerunnable THEN "queued" ELSE "finished"
    BY <2>2, <2>3 DEF Phase, Run!Over, IInv, TypeOK, ServerType, Exiting, ExitStages,
                      RerunStages, Left
  <2>5. Refines
    BY <1>1, <2>1, <2>4 DEF Refines, Run!RunNext, Run!GiveUp, Run!abstract
  <2> QED
    BY <1>1, <2>2, <2>5
       DEF IInv, TypeOK, HeldWhileRun, NothingEarly, MomUndisturbed, MomRecord, AllWritten,
           Left, Exiting, ExitStages, RerunStages
<1> QED
  BY <1>2, <1>3

-----------------------------------------------------------------------------
(* The MoM's steps.                                                         *)

\* What the MoM says is read in order, or lost.
LEMMA SayOK ==
  ASSUME IInv, NEW msgs \in Seq(Message), Say(msgs)
  PROVE  /\ toSvr' \in Seq(Message)
         /\ No(toSvr, {"JOBOBIT"}) /\ No(msgs, {"JOBOBIT"}) => No(toSvr', {"JOBOBIT"})
BY SeqAppend DEF Say, IInv, TypeOK

\* Her answers announce no end.
LEMMA Answers ==
  /\ <<Done>> \in Seq(Message) /\ No(<<Done>>, {"JOBOBIT"})
  /\ <<TryAgain>> \in Seq(Message) /\ No(<<TryAgain>>, {"JOBOBIT"})
  /\ \A b : If(b, <<Done>>) \in Seq(Message) /\ No(If(b, <<Done>>), {"JOBOBIT"})
<1>1. <<>> \in Seq(Message) /\ No(<<>>, {"JOBOBIT"})
  BY DEF No
<1>2. Done.k = "Reply" /\ TryAgain.k = "Reply"
  BY DEF Done, TryAgain
<1>3. /\ <<Done>> \in Seq(Message) /\ No(<<Done>>, {"JOBOBIT"})
      /\ <<TryAgain>> \in Seq(Message) /\ No(<<TryAgain>>, {"JOBOBIT"})
  <2>1. Done \in Message /\ TryAgain \in Message
    BY MomMessages
  <2> QED
    BY <1>2, <2>1 DEF No
<1> QED
  BY <1>1, <1>3 DEF If

\* An obituary has the exit status of the job.
LEMMA ObituaryOK ==
  ASSUME NEW m \in MomType, m.stat # "none"
  PROVE  Obituary(m) \in Seq(Message)
<1>1. [k |-> "JOBOBIT", stat |-> m.stat] \in Message
  BY MomMessages DEF MomType
<1>2. <<[k |-> "JOBOBIT", stat |-> m.stat]>> \in Seq(Message)
  BY <1>1
<1> QED
  BY <1>2, Answers, SeqAppend DEF Obituary

\* A message of the server's is read: while the job runs at the MoM it is no request.
LEMMA TakeOK ==
  ASSUME IInv, NEW kind, Take(kind)
  PROVE  /\ toMom' \in Seq(Message) /\ \A ks : No(toMom, ks) => No(toMom', ks)
         /\ kind \in {"Ask", "BADOBIT", "DISCARD_JOB"} => sv.ss # "RUNNING"
         /\ kind = "Ask" => mom.ss # "RUNNING"
BY SeqTail DEF Take, IInv, TypeOK, NothingEarly, MomUndisturbed

\* What a step of the MoM must show.
LEMMA MomSide ==
  ASSUME IInv, UNCHANGED <<sv, timer, breaks, phase>>, link' \in {"down", "hello", "up"},
         mom' \in MomType, toMom' \in Seq(Message), toSvr' \in Seq(Message),
         \A ks : No(toMom, ks) => No(toMom', ks),
         mom'.ss = "RUNNING" => /\ mom.ss = "RUNNING" /\ mom'.post = "none"
                                /\ No(toSvr, {"JOBOBIT"}) => No(toSvr', {"JOBOBIT"}),
         mom'.ss = "none" => mom'.post = "none",
         mom'.ss \in {"OBIT", "EXITED"} => mom'.stat # "none",
         mom.ss = "none" => mom'.ss = "none",
         mom'.ss = "none" => mom.ss = "none" \/ (sv.ss # "RUNNING" /\ link' = link)
  PROVE  IInv' /\ Refines
<1>1. IInv'
  BY DEF IInv, TypeOK, HeldWhileRun, NothingEarly, MomUndisturbed, MomRecord, AllWritten
<1>2. Refines
  BY KeepRefines, DeleteRefines
<1> QED
  BY <1>1, <1>2

\* The job ends at the MoM.
LEMMA job_ends_OK ==
  ASSUME IInv, job_ends
  PROVE  IInv' /\ Refines
<1>1. PICK stat \in IF mom.stat = "none" THEN Statuses ELSE {mom.stat} :
        LET m == [mom EXCEPT !.stat = stat] IN mom' = Obit(m) /\ Say(Obituary(m))
  BY DEF job_ends
<1> DEFINE m == [mom EXCEPT !.stat = stat]
<1>2. stat \in Statuses \cup {"INITABT"} /\ stat # "none"
  BY EndAssumption DEF IInv, TypeOK, MomType
<1>3. m \in MomType /\ m.stat # "none"
  BY <1>2 DEF IInv, TypeOK, MomType
<1>4. mom' = Obit(m) /\ Say(Obituary(m)) /\ mom.ss = "RUNNING"
  BY <1>1 DEF job_ends
<1> HIDE DEF m
<1>5. /\ mom' \in MomType /\ mom'.ss = "OBIT" /\ mom'.post = "none" /\ mom'.stat # "none"
  BY <1>3, <1>4 DEF Obit, MomType
<1>6. toSvr' \in Seq(Message)
  BY <1>3, <1>4, ObituaryOK, SayOK
<1>7. UNCHANGED <<sv, toMom, link, timer, breaks, phase>>
  BY DEF job_ends, MomOnly
<1> QED
  BY <1>4, <1>5, <1>6, <1>7, MomSide DEF IInv, TypeOK

\* The obituary is repeated.
LEMMA resend_obit_OK ==
  ASSUME IInv, resend_obit
  PROVE  IInv' /\ Refines
<1>1. /\ mom.ss = "OBIT" /\ mom' = Obit(mom) /\ Say(Obituary(mom))
      /\ UNCHANGED <<sv, toMom, link, timer, breaks, phase>>
  BY DEF resend_obit, MomOnly
<1>2. mom \in MomType /\ mom.stat # "none"
  BY <1>1 DEF IInv, TypeOK, MomRecord
<1>3. /\ mom' \in MomType /\ mom'.ss = "OBIT" /\ mom'.post = "none" /\ mom'.stat # "none"
  BY <1>1, <1>2 DEF Obit, MomType
<1>4. toSvr' \in Seq(Message)
  BY <1>1, <1>2, ObituaryOK, SayOK
<1> QED
  BY <1>1, <1>3, <1>4, MomSide DEF IInv, TypeOK

\* Rerun Job at the MoM.
LEMMA req_rerunjob_OK ==
  ASSUME IInv, req_rerunjob
  PROVE  IInv' /\ Refines
<1>1. /\ toMom' \in Seq(Message) /\ \A ks : No(toMom, ks) => No(toMom', ks)
      /\ mom.ss # "RUNNING"
  BY TakeOK DEF req_rerunjob, Asked
<1>2. UNCHANGED <<sv, link, timer, breaks, phase>> /\ mom \in MomType
  BY DEF req_rerunjob, MomMsg, IInv, TypeOK
<1>3. toSvr' \in Seq(Message)
  BY Answers, SayOK DEF req_rerunjob, IInv, TypeOK
<1>4. CASE mom' = mom
  BY <1>1, <1>2, <1>3, <1>4, MomSide DEF IInv, TypeOK, MomRecord
<1>5. CASE Has /\ mom' = [Quiet(mom) EXCEPT !.kids = @ + 1]
  <2>1. /\ mom' \in MomType /\ mom'.ss \in {"OBIT", "EXITED"} /\ mom'.stat = mom.stat
        /\ mom.ss \in {"OBIT", "EXITED"}
    <3>1. mom.kids + 1 \in Nat
      BY <1>2 DEF MomType
    <3>2. /\ Quiet(mom) \in MomType /\ Quiet(mom).ss = "EXITED" /\ Quiet(mom).stat = mom.stat
          /\ Quiet(mom).kids = mom.kids /\ mom.ss \in {"OBIT", "EXITED"}
      BY <1>1, <1>2, <1>5 DEF Quiet, Has, MomType
    <3> QED
      BY <1>5, <3>1, <3>2 DEF MomType
  <2> QED
    BY <1>1, <1>2, <1>3, <2>1, MomSide DEF IInv, TypeOK, MomRecord
<1> QED
  BY <1>4, <1>5 DEF req_rerunjob

\* A child of hers ends.
LEMMA post_nojob_OK ==
  ASSUME IInv, post_nojob
  PROVE  IInv' /\ Refines
<1>1. /\ mom.kids > 0 /\ mom' = [mom EXCEPT !.kids = @ - 1] /\ Say(<<Done>>)
      /\ UNCHANGED <<sv, toMom, link, timer, breaks, phase>>
  BY DEF post_nojob, MomOnly
<1>2. /\ mom' \in MomType /\ mom'.ss = mom.ss /\ mom'.post = mom.post /\ mom'.stat = mom.stat
  <2>1. mom \in MomType /\ mom.kids - 1 \in Nat
    BY <1>1 DEF IInv, TypeOK, MomType
  <2> QED
    BY <1>1, <2>1 DEF MomType
<1>3. /\ toSvr' \in Seq(Message)
      /\ No(toSvr, {"JOBOBIT"}) => No(toSvr', {"JOBOBIT"})
  BY <1>1, Answers, SayOK
<1> QED
  BY <1>1, <1>2, <1>3, MomSide DEF IInv, TypeOK, MomRecord, MomUndisturbed

\* Copy Files at the MoM.
LEMMA req_cpyfile_OK ==
  ASSUME IInv, req_cpyfile
  PROVE  IInv' /\ Refines
<1>1. /\ toMom' \in Seq(Message) /\ \A ks : No(toMom, ks) => No(toMom', ks)
      /\ mom.ss # "RUNNING"
  BY TakeOK DEF req_cpyfile, Asked
<1>2. UNCHANGED <<sv, link, timer, breaks, phase>> /\ mom \in MomType
  BY DEF req_cpyfile, MomMsg, IInv, TypeOK
<1>3. toSvr' \in Seq(Message)
  BY Answers, SayOK DEF req_cpyfile, IInv, TypeOK
<1>4. CASE mom.ss = "none"
  <2>1. mom' = [mom EXCEPT !.kids = @ + 1] \/ mom' = Quiet(mom)
    BY <1>4 DEF req_cpyfile, Has
  <2>2. mom' \in MomType /\ mom'.ss = "none" /\ mom'.post = "none"
    BY <1>2, <1>4, <2>1 DEF Quiet, MomType, IInv, MomRecord
  <2> QED
    BY <1>1, <1>2, <1>3, <1>4, <2>2, MomSide DEF IInv, TypeOK
<1>5. CASE mom.ss # "none"
  <2>1. \/ mom' = [Quiet(mom) EXCEPT !.post = "post_cpyfile", !.preq = TRUE]
        \/ mom' = Quiet(mom)
    BY <1>5 DEF req_cpyfile, Has
  <2>2. /\ mom' \in MomType /\ mom'.ss \in {"OBIT", "EXITED"} /\ mom'.stat = mom.stat
        /\ mom.ss \in {"OBIT", "EXITED"}
    BY <1>1, <1>2, <1>5, <2>1 DEF Quiet, MomType
  <2> QED
    BY <1>1, <1>2, <1>3, <2>2, MomSide DEF IInv, TypeOK, MomRecord
<1> QED
  BY <1>4, <1>5

\* The copying child ends.
LEMMA post_cpyfile_OK ==
  ASSUME IInv, post_cpyfile
  PROVE  IInv' /\ Refines
<1> DEFINE m == [mom EXCEPT !.post = "none", !.preq = FALSE]
           reply == If(mom.preq, <<Done>>)
<1>1. mom \in MomType /\ mom.ss \in {"OBIT", "EXITED"} /\ mom.stat # "none"
  BY DEF post_cpyfile, Copying, IInv, TypeOK, MomType, MomRecord, MomUndisturbed
<1>2. UNCHANGED <<sv, toMom, link, timer, breaks, phase>>
  BY DEF post_cpyfile, MomOnly
<1>3. m \in MomType /\ m.stat = mom.stat /\ m.ss = mom.ss /\ m.post = "none"
  BY <1>1 DEF MomType
<1>4. /\ mom' = [m EXCEPT !.ss = "OBIT"] \/ mom' = m \/ mom' = Obit(m)
      /\ Say(reply) \/ Say(reply \o Obituary(m))
  BY DEF post_cpyfile
<1> HIDE DEF m
<1>5. reply \in Seq(Message) /\ Obituary(m) \in Seq(Message)
  BY <1>1, <1>3, Answers, ObituaryOK
<1> HIDE DEF reply
<1>6. toSvr' \in Seq(Message)
  BY <1>4, <1>5, SeqAppend, SayOK
<1>7. mom' \in MomType /\ mom'.ss \in {"OBIT", "EXITED"} /\ mom'.stat = mom.stat
  BY <1>1, <1>3, <1>4 DEF MomType, Obit
<1> QED
  BY <1>1, <1>2, <1>6, <1>7, MomSide DEF IInv, TypeOK

\* Delete Files at the MoM.
LEMMA req_delfile_OK ==
  ASSUME IInv, req_delfile
  PROVE  IInv' /\ Refines
<1>1. /\ toMom' \in Seq(Message) /\ \A ks : No(toMom, ks) => No(toMom', ks)
      /\ mom.ss # "RUNNING"
  BY TakeOK DEF req_delfile, Asked
<1>2. UNCHANGED <<sv, link, timer, breaks, phase>> /\ mom \in MomType
  BY DEF req_delfile, MomMsg, IInv, TypeOK
<1>3. toSvr' \in Seq(Message)
  BY Answers, SayOK DEF req_delfile, IInv, TypeOK
<1>4. CASE mom' = mom \/ mom' = [mom EXCEPT !.preq = FALSE]
  <2>1. mom' \in MomType /\ mom'.ss = mom.ss /\ mom'.post = mom.post /\ mom'.stat = mom.stat
    BY <1>2, <1>4 DEF MomType
  <2> QED
    BY <1>1, <1>2, <1>3, <2>1, MomSide DEF IInv, TypeOK, MomRecord
<1>5. CASE Has /\ mom' = [mom EXCEPT !.ss = "EXITED", !.post = "post_delfile", !.preq = TRUE]
  <2>1. /\ mom' \in MomType /\ mom'.ss = "EXITED" /\ mom'.stat = mom.stat
        /\ mom.ss \in {"OBIT", "EXITED"}
    BY <1>1, <1>2, <1>5 DEF Has, MomType
  <2> QED
    BY <1>1, <1>2, <1>3, <2>1, MomSide DEF IInv, TypeOK, MomRecord
<1> QED
  BY <1>4, <1>5 DEF req_delfile

\* The deleting child ends.
LEMMA post_delfile_OK ==
  ASSUME IInv, post_delfile
  PROVE  IInv' /\ Refines
<1> DEFINE m == Obit(mom)
           reply == If(mom.preq, <<Done>>)
<1>1. mom \in MomType /\ mom.ss \in {"OBIT", "EXITED"} /\ mom.stat # "none"
  BY DEF post_delfile, IInv, TypeOK, MomType, MomRecord, MomUndisturbed
<1>2. /\ UNCHANGED <<sv, toMom, link, timer, breaks, phase>> /\ mom' = m
      /\ Say(reply) \/ Say(reply \o Obituary(m))
  BY DEF post_delfile, MomOnly
<1>3. m \in MomType /\ m.stat = mom.stat /\ m.ss = "OBIT"
  BY <1>1 DEF MomType, Obit
<1> HIDE DEF m
<1>4. reply \in Seq(Message) /\ Obituary(m) \in Seq(Message)
  BY <1>1, <1>3, Answers, ObituaryOK
<1> HIDE DEF reply
<1>5. toSvr' \in Seq(Message)
  BY <1>2, <1>4, SeqAppend, SayOK
<1> QED
  BY <1>1, <1>2, <1>3, <1>5, MomSide DEF IInv, TypeOK

\* The job is deleted at the MoM: on request, as rejected or as discarded.
LEMMA req_deletejob_OK ==
  ASSUME IInv, req_deletejob \/ rid_job \/ is_discard_job
  PROVE  IInv' /\ Refines
<1>1. /\ toMom' \in Seq(Message) /\ \A ks : No(toMom, ks) => No(toMom', ks)
      /\ sv.ss # "RUNNING" /\ (req_deletejob => mom.ss # "RUNNING")
  BY TakeOK DEF req_deletejob, rid_job, is_discard_job, Asked
<1>2. UNCHANGED <<sv, link, timer, breaks, phase>> /\ mom \in MomType
  BY DEF req_deletejob, rid_job, is_discard_job, MomMsg, IInv, TypeOK
<1>3. toSvr' \in Seq(Message)
  <2>1. <<[k |-> "DISCARD_DONE"]>> \in Seq(Message)
    BY MomMessages
  <2> QED
    BY <2>1, Answers, SayOK DEF req_deletejob, rid_job, is_discard_job, IInv, TypeOK
<1>4. CASE mom' = mom /\ req_deletejob
  BY <1>1, <1>2, <1>3, <1>4, MomSide DEF IInv, TypeOK, MomRecord
<1>5. CASE mom' = Gone(mom)
  <2>1. mom' \in MomType /\ mom'.ss = "none" /\ mom'.post = "none"
    BY <1>2, <1>5 DEF Gone, MomType
  <2> QED
    BY <1>1, <1>2, <1>3, <2>1, MomSide DEF IInv, TypeOK
<1> QED
  BY <1>4, <1>5 DEF req_deletejob, rid_job, is_discard_job

\* The MoM has got the addresses.
LEMMA is_cluster_addrs_OK ==
  ASSUME IInv, is_cluster_addrs
  PROVE  IInv' /\ Refines
<1>1. /\ toMom' \in Seq(Message) /\ \A ks : No(toMom, ks) => No(toMom', ks)
  BY TakeOK DEF is_cluster_addrs
<1>2. UNCHANGED <<sv, mom, link, timer, breaks, phase>>
  BY DEF is_cluster_addrs, MomMsg
<1>3. /\ toSvr' \in Seq(Message)
      /\ No(toSvr, {"JOBOBIT"}) => No(toSvr', {"JOBOBIT"})
  <2>1. <<[k |-> "MOM_READY"]>> \in Seq(Message) /\ No(<<[k |-> "MOM_READY"]>>, {"JOBOBIT"})
    BY MomMessages DEF No
  <2> QED
    BY <2>1, SayOK DEF is_cluster_addrs
<1> QED
  BY <1>1, <1>2, <1>3, MomSide DEF IInv, TypeOK, MomRecord, MomUndisturbed

\* A new stream is opened.
LEMMA reply_hello4_OK ==
  ASSUME IInv, reply_hello4
  PROVE  IInv' /\ Refines
<1>1. /\ UNCHANGED <<sv, mom, toMom, timer, breaks, phase>> /\ link' = "hello"
      /\ toSvr' = <<[k |-> "HELLO4", has |-> Has]>>
  BY DEF reply_hello4
<1>2. [k |-> "HELLO4", has |-> Has] \in Message
  BY MomMessages DEF Has
<1>3. toSvr' \in Seq(Message) /\ No(toSvr', {"JOBOBIT"})
  BY <1>1, <1>2 DEF No
<1>4. Refines
  BY <1>1, KeepRefines
<1>5. TypeOK'
  BY <1>1, <1>3 DEF IInv, TypeOK
<1> QED
  BY <1>1, <1>3, <1>4, <1>5 DEF IInv, HeldWhileRun, NothingEarly, MomUndisturbed, MomRecord, AllWritten

\* The MoM restarts.
LEMMA init_abort_jobs_OK ==
  ASSUME IInv, init_abort_jobs
  PROVE  IInv' /\ Refines
<1>1. /\ UNCHANGED <<sv, toMom, toSvr, link, timer, breaks, phase>> /\ mom.ss # "none"
      /\ mom' = [mom EXCEPT !.post = "none", !.kids = 0,
                            !.ss = IF @ = "EXITED" THEN "OBIT" ELSE @,
                            !.stat = IF mom.ss = "RUNNING" THEN "INITABT" ELSE @]
  BY DEF init_abort_jobs, Has
<1>2. mom \in MomType
  BY DEF IInv, TypeOK
<1>3. /\ mom' \in MomType /\ mom'.post = "none" /\ mom'.ss # "none"
      /\ mom'.ss = "RUNNING" <=> mom.ss = "RUNNING"
      /\ mom.ss # "RUNNING" => mom'.stat = mom.stat
  BY <1>1, <1>2 DEF MomType
<1> QED
  BY <1>1, <1>2, <1>3, MomSide DEF IInv, TypeOK, MomRecord, MomType

-----------------------------------------------------------------------------
\* Every step keeps the invariant and is one that RunOfJob allows.
LEMMA NextOK ==
  ASSUME IInv, [Next]_vars
  PROVE  IInv' /\ Refines
<1>1. CASE dispatch_immed
  BY <1>1, dispatchOK DEF dispatch_immed, immed_phase
<1>2. CASE dispatch_timed
  BY <1>2, dispatchOK DEF dispatch_timed, timed_phase
<1>3. CASE ServerStep /\ ~dispatch_immed /\ ~dispatch_timed
  BY <1>3, process_DreplyRPP_OK, job_obit_OK, is_hello4_OK, is_mom_ready_OK DEF ServerStep
<1>4. CASE MomStep
  BY <1>4, job_ends_OK, resend_obit_OK, req_rerunjob_OK, post_nojob_OK, req_cpyfile_OK,
     post_cpyfile_OK, req_delfile_OK, post_delfile_OK, req_deletejob_OK, is_cluster_addrs_OK,
     reply_hello4_OK DEF MomStep
<1>5. CASE stream_eof \/ momptr_down_again \/ node_down_requeue \/ init_abort_jobs
  BY <1>5, stream_eof_OK, node_down_OK, init_abort_jobs_OK
<1>6. CASE UNCHANGED vars
  BY <1>6, KeepRefines DEF vars, IInv, TypeOK, HeldWhileRun, NothingEarly, MomUndisturbed,
                           MomRecord, AllWritten
<1> QED
  BY <1>1, <1>2, <1>3, <1>4, <1>5, <1>6 DEF Next, ServerStep

\* While the job runs for the server or at the MoM nothing of its end is under way, nodes
\* are held exactly until the server lets go of the job, and the records keep their types
\* (job_obit, on_job_exit, on_job_rerun and the MoM's requests).
THEOREM IInvAlways == Safe => []IInv
<1>1. Init => IInv
  BY InitOK
<1>2. IInv /\ [Next]_vars => IInv'
  BY NextOK
<1> QED
  BY <1>1, <1>2, PTL DEF Safe

\* The server's and the MoM's records of the job and the messages between them are of the
\* kinds the code knows: no obituary without an exit status, no count below zero.
THEOREM TypeCorrect == Spec => []TypeOK
<1>1. IInv => TypeOK
  BY DEF IInv
<1> QED
  BY <1>1, IInvAlways, PTL DEF Spec

\* Whatever files the job needs and however often the stream breaks, the stages of
\* on_job_exit and on_job_rerun, node_down_requeue and the MoM do to the run only what
\* RunOfJob allows: it is left once and as it began to end, or, while the MoM is marked
\* down, as its Rerunable attribute says; its nodes are given back in that step and not
\* before, and the MoM keeps the job while it runs.
THEOREM RunImplemented == Spec => ImplementsRunSafely
<1>1. Init => Run!RunInit
  <2> SUFFICES ASSUME Init PROVE Run!RunInit
    OBVIOUS
  <2>1. sv.ss = "RUNNING" /\ sv.nodes = TRUE /\ mom.ss = "RUNNING" /\ link = "up"
    BY DEF Init
  <2> QED
    BY <2>1 DEF Run!RunInit, Phase, ExitStages, RerunStages
<1>2. IInv /\ [Next]_vars => [Run!RunNext]_(Run!abstract)
  BY NextOK DEF Refines
<1>3. Safe => Run!RunInit /\ [][Run!RunNext]_(Run!abstract)
  BY <1>1, <1>2, IInvAlways, PTL DEF Safe
<1> QED
  BY <1>3, PTL DEF Spec, ImplementsRunSafely

-----------------------------------------------------------------------------
(* Counting messages.                                                       *)

\* where messages of a set are on the stream, and how many there are
Places(q, ms) == {i \in 1..Len(q) : q[i] \in ms}

Num(q, ms) == Cardinality(Places(q, ms))

\* The messages on a stream can be counted,
LEMMA NumNat ==
  ASSUME NEW q \in Seq(Message), NEW ms
  PROVE  IsFiniteSet(Places(q, ms)) /\ Num(q, ms) \in Nat
<1>1. Len(q) \in Nat /\ Places(q, ms) \in SUBSET (1..Len(q))
  BY DEF Places
<1>2. IsFiniteSet(1..Len(q))
  BY <1>1, FS_Interval
<1>3. IsFiniteSet(Places(q, ms))
  BY <1>1, <1>2, FS_Subset
<1> QED
  BY <1>3, FS_CardinalityType DEF Num

\* those of a smaller set are not more,
LEMMA NumSubset ==
  ASSUME NEW q \in Seq(Message), NEW ms, NEW ns \in SUBSET ms
  PROVE  Num(q, ns) <= Num(q, ms)
<1>1. Places(q, ns) \in SUBSET Places(q, ms) /\ IsFiniteSet(Places(q, ms))
  BY NumNat DEF Places
<1> QED
  BY <1>1, FS_Subset DEF Num

\* an empty stream has none and one message counts for itself,
LEMMA NumOne ==
  ASSUME NEW ms, NEW m \in Message
  PROVE  Num(<<>>, ms) = 0 /\ Num(<<m>>, ms) = IF m \in ms THEN 1 ELSE 0
<1>1. Places(<<>>, ms) = {}
  BY DEF Places
<1>2. Len(<<m>>) = 1 /\ <<m>>[1] = m
  OBVIOUS
<1>3. Places(<<m>>, ms) = IF m \in ms THEN {1} ELSE {}
  BY <1>2 DEF Places
<1> QED
  BY <1>1, <1>3, FS_EmptySet, FS_Singleton DEF Num

\* those of two parts add up,
LEMMA NumConcat ==
  ASSUME NEW q \in Seq(Message), NEW p \in Seq(Message), NEW ms
  PROVE  Num(q \o p, ms) = Num(q, ms) + Num(p, ms)
<1> DEFINE Q == Places(q, ms)
           P == Places(p, ms)
           S == {i \in (Len(q) + 1)..(Len(q) + Len(p)) : p[i - Len(q)] \in ms}
           f == [i \in P |-> i + Len(q)]
<1>1. /\ Len(q \o p) = Len(q) + Len(p) /\ Len(q) \in Nat /\ Len(p) \in Nat
      /\ \A i \in 1..Len(q \o p) : (q \o p)[i] = IF i <= Len(q) THEN q[i] ELSE p[i - Len(q)]
  OBVIOUS
<1>2. Places(q \o p, ms) = Q \cup S /\ Q \cap S = {}
  BY <1>1 DEF Places
<1>3. f \in Bijection(P, S)
  <2>1. f \in [P -> S]
    BY <1>1 DEF Places
  <2>2. \A i, j \in P : f[i] = f[j] => i = j
    BY <1>1 DEF Places
  <2>3. \A j \in S : \E i \in P : f[i] = j
    <3> TAKE j \in S
    <3>1. j - Len(q) \in P /\ f[j - Len(q)] = j
      BY <1>1 DEF Places
    <3> QED
      BY <3>1
  <2> QED
    BY <2>1, <2>2, <2>3 DEF Bijection, Injection, Surjection, IsInjective
<1>4. IsFiniteSet(Q) /\ IsFiniteSet(P)
  BY NumNat
<1>5. ExistsBijection(P, S)
  BY <1>3 DEF ExistsBijection
<1> HIDE DEF Q, P, S, f
<1>6. IsFiniteSet(S) /\ Cardinality(S) = Cardinality(P)
  BY <1>4, <1>5, FS_Bijection
<1>7. Cardinality(Q \cup S) = Cardinality(Q) + Cardinality(S) - Cardinality(Q \cap S)
  BY <1>4, <1>6, FS_Union
<1>8. Cardinality(Q \cup S) = Cardinality(Q) + Cardinality(P)
  <2>1. Cardinality(Q) \in Nat /\ Cardinality(S) \in Nat
    BY <1>4, <1>6, FS_CardinalityType
  <2>2. Cardinality(Q \cap S) = 0
    BY <1>2, FS_EmptySet, Zenon
  <2> QED
    BY <1>6, <1>7, <2>1, <2>2
<1> QED
  BY <1>2, <1>8 DEF Num, Q, P

\* and so do the first and the rest.
LEMMA NumTail ==
  ASSUME NEW q \in Seq(Message), q # <<>>, NEW ms
  PROVE  Num(q, ms) = Num(Tail(q), ms) + (IF Head(q) \in ms THEN 1 ELSE 0)
<1> DEFINE h == <<Head(q)>>
<1>1. Head(q) \in Message /\ Tail(q) \in Seq(Message) /\ h \in Seq(Message)
  OBVIOUS
<1>2. Num(q, ms) = Num(h, ms) + Num(Tail(q), ms)
  <2>1. q = h \o Tail(q)
    OBVIOUS
  <2> HIDE DEF h
  <2>2. Num(h \o Tail(q), ms) = Num(h, ms) + Num(Tail(q), ms)
    BY <1>1, NumConcat
  <2> QED
    BY <2>1, <2>2, Zenon
<1>3. Num(Tail(q), ms) \in Nat
  BY <1>1, NumNat
<1> QED
  BY <1>1, <1>2, <1>3, NumOne

-----------------------------------------------------------------------------
(* Why end processing does not stall.                                       *)

\* A job whose files are returned has files to copy, and one whose files are copied has
\* files to delete; and what is copied comes back to the obituary (post_cpyfile).
Chained ==
  /\ ~SandboxPrivate
  /\ \A n \in Needs : /\ "Rerun" \in n => "CopyFiles" \in n
                      /\ "CopyFiles" \in n => "DelFiles" \in n

FinalStages == {"EXITED", "RERUN3"}

\* a request that the server may have made by the stage the job s is in
Fits(s, r) == /\ r = "Rerun" => "Rerun" \in s.needs
              /\ r = "CopyFiles" => "CopyFiles" \in s.needs /\ s.ss # "RERUN"
              /\ r = "DeleteJob" => s.ss \in FinalStages

\* the messages for the MoM of a job that is exiting
Fitting(s) == {m \in Message : /\ m.k \notin {"BADOBIT", "DISCARD_JOB"}
                               /\ m.k = "Ask" => Fits(s, m.r)}

\* every stage from here on has a request to make
Covers(s) == \/ s.ss \in FinalStages
             \/ /\ "CopyFiles" \in s.needs /\ "DelFiles" \in s.needs
                /\ s.ss = "RERUN" => "Rerun" \in s.needs

\* A stage takes the job on, and makes no request or one that fits.
MovesOn(s, t) ==
  /\ t.ss \in Exiting /\ t.needs = s.needs /\ t.handle = s.handle
  /\ t.ss = "RERUN" => s.ss = "RERUN"
  /\ s.ss \in FinalStages => t.ss \in FinalStages
  /\ \/ t.ask = <<>> /\ t.deferred = s.deferred
     \/ \E r \in Request : /\ t.ask = <<r>> /\ t.deferred = s.deferred + 1
                           /\ Fits(t, r) /\ s.handle # "stale"

\* It does so or lets go of the job; a stage that must makes a request if it can.
Moves(s, t, must) ==
  /\ t.ss \in Left \/ MovesOn(s, t)
  /\ must /\ s.handle # "stale" => t.ss \in Left \/ t.ask # <<>>

\* A request is written.
LEMMA IssueMoves ==
  ASSUME NEW s \in ServerType, s.ask = <<>>, NEW stage \in Exiting, NEW r \in Request,
         s.handle # "stale", stage = "RERUN" => s.ss = "RERUN",
         s.ss \in FinalStages => stage \in FinalStages, Fits(At(s, stage), r), NEW must
  PROVE  Moves(s, [At(s, stage) EXCEPT !.deferred = @ + 1, !.ask = Append(@, r)], must)
<1> DEFINE e == At(s, stage)
           t == [e EXCEPT !.deferred = @ + 1, !.ask = Append(@, r)]
<1>1. /\ e \in ServerType /\ e.ss = stage /\ e.needs = s.needs /\ e.handle = s.handle
      /\ e.deferred = s.deferred /\ e.ask = <<>>
  BY DEF At, ServerType
<1> HIDE DEF e
<1>2. Append(e.ask, r) = <<r>>
  BY <1>1
<1>3. /\ t.ss = stage /\ t.needs = s.needs /\ t.handle = s.handle
      /\ t.deferred = s.deferred + 1 /\ t.ask = <<r>>
  BY <1>1, <1>2 DEF ServerType
<1>4. Fits(e, r)
  BY DEF e
<1>5. Fits(t, r)
  BY <1>1, <1>3, <1>4 DEF Fits
<1> HIDE DEF t
<1>6. MovesOn(s, t) /\ t.ask # <<>>
  BY <1>3, <1>5 DEF MovesOn
<1> QED
  BY <1>6 DEF Moves, e, t

\* A stage that has nothing to ask for leaves a task for a later one.
LEMMA SkipMoves ==
  ASSUME NEW s \in ServerType, s.ask = <<>>, NEW stage \in Exiting,
         stage # "RERUN", s.ss \notin FinalStages
  PROVE  Moves(s, Immediately(At(s, stage)), FALSE)
<1> DEFINE t == Immediately(At(s, stage))
<1>1. /\ t.ss = stage /\ t.needs = s.needs /\ t.handle = s.handle
      /\ t.deferred = s.deferred /\ t.ask = <<>>
  BY DEF At, Immediately, ServerType
<1> HIDE DEF t
<1> QED
  BY <1>1 DEF Moves, MovesOn, t

\* What holds of the job in its next stage holds of it where it is.
LEMMA AtMoves ==
  ASSUME NEW s \in ServerType, s.ask = <<>>, NEW stage \in Exiting,
         stage # "RERUN", s.ss \notin FinalStages
  PROVE  /\ At(s, stage) \in ServerType /\ At(s, stage).ss = stage /\ At(s, stage).ask = <<>>
         /\ At(s, stage).handle = s.handle /\ At(s, stage).needs = s.needs
         /\ \A t, must : Moves(At(s, stage), t, must) => Moves(s, t, must)
<1> DEFINE e == At(s, stage)
<1>1. /\ e \in ServerType /\ e.ss = stage /\ e.needs = s.needs /\ e.handle = s.handle
      /\ e.deferred = s.deferred /\ e.ask = <<>>
  BY DEF At, ServerType
<1> HIDE DEF e
<1>2. ASSUME NEW t, NEW must, Moves(e, t, must) PROVE Moves(s, t, must)
  BY <1>1, <1>2 DEF Moves, MovesOn
<1> QED
  BY <1>1, <1>2 DEF e

\* Delete Job is asked for in the last stage of either routine,
LEMMA ExitedMoves ==
  ASSUME NEW s \in ServerType, s.ask = <<>>
  PROVE  /\ Moves(s, ExitedFirst(s), TRUE)
         /\ Moves(s, Rerun3First(s), TRUE)
<1>1. ASSUME s.handle # "stale" PROVE Moves(s, ExitedFirst(s), TRUE)
  <2>1. Fits(At(s, "EXITED"), "DeleteJob") /\ At(s, "EXITED").handle = s.handle
    BY DEF Fits, At, ServerType, FinalStages
  <2>2. Moves(s, [At(s, "EXITED") EXCEPT !.deferred = @ + 1, !.ask = Append(@, "DeleteJob")], TRUE)
    BY <1>1, <2>1, IssueMoves DEF Exiting, ExitStages, FinalStages, Request
  <2> QED
    BY <1>1, <2>1, <2>2 DEF ExitedFirst, issue_Drequest
<1>2. ASSUME s.handle # "stale" PROVE Moves(s, Rerun3First(s), TRUE)
  <2>1. Fits(At(s, "RERUN3"), "DeleteJob") /\ At(s, "RERUN3").handle = s.handle
    BY DEF Fits, At, ServerType, FinalStages
  <2>2. Moves(s, [At(s, "RERUN3") EXCEPT !.deferred = @ + 1, !.ask = Append(@, "DeleteJob")], TRUE)
    BY <1>2, <2>1, IssueMoves DEF Exiting, RerunStages, FinalStages, Request
  <2> QED
    BY <1>2, <2>1, <2>2 DEF Rerun3First, issue_Drequest
<1>3. ASSUME s.handle = "stale"
      PROVE  ExitedFirst(s).ss \in Left /\ Rerun3First(s).ss \in Left
  <2>1. /\ At(s, "EXITED") \in ServerType /\ At(s, "EXITED").handle = "stale"
        /\ At(s, "RERUN3") \in ServerType /\ At(s, "RERUN3").handle = "stale"
    BY <1>3 DEF At, ServerType, Exiting, ExitStages, RerunStages
  <2>2. /\ ExitedFirst(s) = job_purge(rel_resc(At(s, "EXITED")))
        /\ Rerun3First(s) = force_reque(At(s, "RERUN3"))
    BY <2>1 DEF ExitedFirst, Rerun3First, issue_Drequest
  <2> QED
    BY <2>1, <2>2, PurgeType, RequeueType DEF Left
<1> QED
  BY <1>1, <1>2, <1>3 DEF Moves

\* Delete Files in the one before it,
LEMMA StagedelMoves ==
  ASSUME NEW s \in ServerType, s.ask = <<>>, s.ss \notin FinalStages
  PROVE  /\ Moves(s, StagedelFirst(s), "DelFiles" \in s.needs)
         /\ Moves(s, Rerun2First(s), "DelFiles" \in s.needs)
<1> DEFINE d == At(s, "STAGEDEL")
           e == At(s, "RERUN2")
<1>1. /\ d \in ServerType /\ d.ss = "STAGEDEL" /\ d.ask = <<>>
      /\ d.handle = s.handle /\ d.needs = s.needs
      /\ \A t, must : Moves(d, t, must) => Moves(s, t, must)
  BY AtMoves DEF Exiting, ExitStages
<1>2. /\ e \in ServerType /\ e.ss = "RERUN2" /\ e.ask = <<>>
      /\ e.handle = s.handle /\ e.needs = s.needs
      /\ \A t, must : Moves(e, t, must) => Moves(s, t, must)
  BY AtMoves DEF Exiting, RerunStages
<1>3. ASSUME s.handle # "stale"
      PROVE  /\ Moves(s, [d EXCEPT !.deferred = @ + 1, !.ask = Append(@, "DelFiles")], TRUE)
             /\ Moves(s, [e EXCEPT !.deferred = @ + 1, !.ask = Append(@, "DelFiles")], TRUE)
  <2>1. Fits(d, "DelFiles") /\ Fits(e, "DelFiles")
    BY DEF Fits
  <2> QED
    BY <1>3, <2>1, IssueMoves DEF Exiting, ExitStages, RerunStages, Request
<1> HIDE DEF d, e
<1>4. Moves(s, ExitedFirst(d), TRUE) /\ Moves(s, Rerun3First(e), TRUE)
  BY <1>1, <1>2, ExitedMoves
<1>5. /\ Moves(s, Immediately(At(d, "EXITED")), FALSE)
      /\ Moves(s, Immediately(At(e, "RERUN3")), FALSE)
  BY <1>1, <1>2, SkipMoves DEF Exiting, ExitStages, RerunStages, FinalStages
<1>6. \A t : Moves(s, t, TRUE) => Moves(s, t, "DelFiles" \in s.needs)
  BY DEF Moves
<1>7. \A t : "DelFiles" \notin s.needs /\ Moves(s, t, FALSE) => Moves(s, t, "DelFiles" \in s.needs)
  BY DEF Moves
<1>8. Moves(s, StagedelFirst(s), "DelFiles" \in s.needs)
  BY <1>1, <1>3, <1>4, <1>5, <1>6, <1>7 DEF StagedelFirst, Stage, issue_Drequest, d
<1>9. Moves(s, Rerun2First(s), "DelFiles" \in s.needs)
  BY <1>2, <1>3, <1>4, <1>5, <1>6, <1>7 DEF Rerun2First, Stage, issue_Drequest, e
<1> QED
  BY <1>8, <1>9

\* and Copy Files before that.
LEMMA StageoutMoves ==
  ASSUME NEW s \in ServerType, s.ask = <<>>, s.ss \notin FinalStages
  PROVE  /\ Moves(s, StageoutFirst(s), "CopyFiles" \in s.needs)
         /\ Moves(s, Rerun1First(s), "CopyFiles" \in s.needs)
<1> DEFINE d == At(s, "STAGEOUT")
           e == At(s, "RERUN1")
<1>1. /\ d \in ServerType /\ d.ss = "STAGEOUT" /\ d.ask = <<>>
      /\ d.handle = s.handle /\ d.needs = s.needs
      /\ \A t, must : Moves(d, t, must) => Moves(s, t, must)
  BY AtMoves DEF Exiting, ExitStages
<1>2. /\ e \in ServerType /\ e.ss = "RERUN1" /\ e.ask = <<>>
      /\ e.handle = s.handle /\ e.needs = s.needs
      /\ \A t, must : Moves(e, t, must) => Moves(s, t, must)
  BY AtMoves DEF Exiting, RerunStages
<1>3. ASSUME s.handle # "stale", "CopyFiles" \in s.needs
      PROVE  /\ Moves(s, [d EXCEPT !.deferred = @ + 1, !.ask = Append(@, "CopyFiles")], TRUE)
             /\ Moves(s, [e EXCEPT !.deferred = @ + 1, !.ask = Append(@, "CopyFiles")], TRUE)
  <2>1. Fits(d, "CopyFiles") /\ Fits(e, "CopyFiles")
    BY <1>1, <1>2, <1>3 DEF Fits
  <2> QED
    BY <1>3, <2>1, IssueMoves DEF Exiting, ExitStages, RerunStages, Request
<1> HIDE DEF d, e
<1>4. /\ Moves(s, StagedelFirst(d), "DelFiles" \in s.needs)
      /\ Moves(s, Rerun2First(e), "DelFiles" \in s.needs)
  BY <1>1, <1>2, StagedelMoves DEF FinalStages
<1>5. /\ Moves(s, Immediately(At(d, "STAGEDEL")), FALSE)
      /\ Moves(s, Immediately(At(e, "RERUN2")), FALSE)
  BY <1>1, <1>2, SkipMoves DEF Exiting, ExitStages, RerunStages, FinalStages
<1>6. \A t : Moves(s, t, TRUE) => Moves(s, t, "CopyFiles" \in s.needs)
  BY DEF Moves
<1>7. \A t, must : s.handle = "stale" /\ Moves(s, t, must) => Moves(s, t, TRUE)
  BY DEF Moves
<1>8. \A t : "CopyFiles" \notin s.needs /\ Moves(s, t, FALSE)
               => Moves(s, t, "CopyFiles" \in s.needs)
  BY DEF Moves
<1>9. Moves(s, StageoutFirst(s), "CopyFiles" \in s.needs)
  BY <1>1, <1>3, <1>4, <1>5, <1>6, <1>7, <1>8 DEF StageoutFirst, Stage, issue_Drequest, d
<1>10. Moves(s, Rerun1First(s), "CopyFiles" \in s.needs)
  BY <1>2, <1>3, <1>4, <1>5, <1>6, <1>7, <1>8 DEF Rerun1First, Stage, issue_Drequest, e
<1> QED
  BY <1>9, <1>10

\* A task takes the job on, and where every stage has a request it makes one,
LEMMA FirstMoves ==
  ASSUME NEW s \in ServerType, s.ask = <<>>, s.ss \in Exiting
  PROVE  Moves(s, First(s), Covers(s))
<1>1. CASE s.ss \in FinalStages
  <2>1. First(s) = ExitedFirst(s) \/ First(s) = Rerun3First(s)
    BY <1>1, Zenon DEF First, ExitFirst, RerunFirst, FinalStages, ExitStages
  <2> QED
    BY <2>1, ExitedMoves DEF Moves
<1>2. CASE s.ss \in {"STAGEDEL", "RERUN2"}
  <2>1. First(s) = StagedelFirst(s) \/ First(s) = Rerun2First(s)
    BY <1>2, Zenon DEF First, ExitFirst, RerunFirst, ExitStages
  <2>2. s.ss \notin FinalStages /\ (Covers(s) => "DelFiles" \in s.needs)
    BY <1>2 DEF Covers, FinalStages
  <2> QED
    BY <2>1, <2>2, StagedelMoves DEF Moves
<1>3. CASE s.ss \in {"EXITING", "STAGEOUT", "RERUN1"}
  <2>1. First(s) = StageoutFirst(s) \/ First(s) = Rerun1First(s)
    BY <1>3, Zenon DEF First, ExitFirst, RerunFirst, ExitStages
  <2>2. s.ss \notin FinalStages /\ (Covers(s) => "CopyFiles" \in s.needs)
    BY <1>3 DEF Covers, FinalStages
  <2> QED
    BY <2>1, <2>2, StageoutMoves DEF Moves
<1>4. CASE s.ss = "RERUN"
  <2>1. First(s) = Stage(s, "Rerun", Rerun1First(s), "RERUN1") /\ s.ss \notin FinalStages
    BY <1>4 DEF First, RerunFirst, ExitStages, FinalStages
  <2>2. ASSUME "Rerun" \in s.needs, s.handle # "stale" PROVE Moves(s, First(s), TRUE)
    <3>1. At(s, "RERUN") = s
      BY <1>4 DEF At, ServerType
    <3>2. Fits(At(s, "RERUN"), "Rerun")
      BY <2>2, <3>1 DEF Fits
    <3>3. Moves(s, [At(s, "RERUN") EXCEPT !.deferred = @ + 1, !.ask = Append(@, "Rerun")], TRUE)
      BY <1>4, <2>1, <2>2, <3>2, IssueMoves DEF Exiting, RerunStages, Request
    <3> QED
      BY <2>1, <2>2, <3>1, <3>3 DEF Stage, issue_Drequest
  <2>3. ASSUME "Rerun" \notin s.needs PROVE Moves(s, First(s), FALSE) /\ ~Covers(s)
    <3>1. Moves(s, Immediately(At(s, "RERUN1")), FALSE)
      BY <2>1, SkipMoves DEF Exiting, RerunStages
    <3> QED
      BY <1>4, <2>1, <2>3, <3>1 DEF Stage, Covers, FinalStages
  <2>4. ASSUME "Rerun" \in s.needs, s.handle = "stale"
        PROVE  Moves(s, First(s), "CopyFiles" \in s.needs)
    BY <2>1, <2>4, StageoutMoves DEF Stage, issue_Drequest
  <2> QED
    BY <2>2, <2>3, <2>4 DEF Moves
<1> QED
  BY <1>1, <1>2, <1>3, <1>4 DEF Exiting, ExitStages, RerunStages, FinalStages

\* and so it is with an answer, unless that asks to try again.
LEMMA AnsweredMoves ==
  ASSUME NEW s \in ServerType, s.ask = <<>>, s.ss \in Exiting, NEW code \in {"done", "TRYAGAIN"}
  PROVE  Moves(s, Answered(s, code), Covers(s) /\ code = "done")
<1>1. CASE s.ss \in FinalStages
  <2>1. CASE code = "done" \/ s.ss = "RERUN3"
    <3>1. Answered(s, code) = job_purge(rel_resc(s)) \/ Answered(s, code) = force_reque(s)
      BY <1>1, <2>1, Zenon DEF Answered, ExitReply, RerunReply, FinalStages, ExitStages
    <3> QED
      BY <3>1, PurgeType, RequeueType DEF Moves, Left
  <2>2. CASE code = "TRYAGAIN" /\ s.ss = "EXITED"
    <3>1. Answered(s, code) = Later(s)
      BY <2>2 DEF Answered, ExitReply, ExitStages
    <3>2. MovesOn(s, Later(s))
      BY DEF MovesOn, Later, ServerType
    <3> QED
      BY <2>2, <3>1, <3>2 DEF Moves
  <2> QED
    BY <1>1, <2>1, <2>2 DEF FinalStages
<1>2. CASE s.ss \in {"STAGEDEL", "RERUN2"}
  <2>1. CASE code = "done" \/ s.ss = "RERUN2"
    <3>1. Answered(s, code) = ExitedFirst(s) \/ Answered(s, code) = Rerun3First(s)
      BY <1>2, <2>1, Zenon DEF Answered, ExitReply, RerunReply, ExitStages
    <3> QED
      BY <3>1, ExitedMoves DEF Moves
  <2>2. CASE code = "TRYAGAIN" /\ s.ss = "STAGEDEL"
    <3>1. Answered(s, code) = Later(s)
      BY <2>2 DEF Answered, ExitReply, ExitStages
    <3>2. MovesOn(s, Later(s))
      BY DEF MovesOn, Later, ServerType
    <3> QED
      BY <2>2, <3>1, <3>2 DEF Moves
  <2> QED
    BY <1>2, <2>1, <2>2
<1>3. CASE s.ss \in {"STAGEOUT", "RERUN1"}
  <2>1. Answered(s, code) = StagedelFirst(s) \/ Answered(s, code) = Rerun2First(s)
    BY <1>3, Zenon DEF Answered, ExitReply, RerunReply, ExitStages
  <2>2. s.ss \notin FinalStages /\ (Covers(s) => "DelFiles" \in s.needs)
    BY <1>3 DEF Covers, FinalStages
  <2> QED
    BY <2>1, <2>2, StagedelMoves DEF Moves
<1>4. CASE s.ss \in {"EXITING", "RERUN"}
  <2>1. Answered(s, code) = StageoutFirst(s) \/ Answered(s, code) = Rerun1First(s)
    BY <1>4, Zenon DEF Answered, ExitReply, RerunReply, ExitStages
  <2>2. s.ss \notin FinalStages /\ (Covers(s) => "CopyFiles" \in s.needs)
    BY <1>4 DEF Covers, FinalStages
  <2> QED
    BY <2>1, <2>2, StageoutMoves DEF Moves
<1> QED
  BY <1>1, <1>2, <1>3, <1>4 DEF Exiting, ExitStages, RerunStages, FinalStages

-----------------------------------------------------------------------------
(* The inductive invariant of Driven.                                       *)

Requests == {m \in Message : m.k = "Ask"}

Replies == {m \in Message : m.k = "Reply"}

\* what is under way for the requests the server waits for: requests and answers on the
\* stream, children, and the one request the MoM works at
Working(m) == IF m.preq THEN 1 ELSE 0

Owes(p, q, m) == Num(p, Requests) + Num(q, Replies) + m.kids + Working(m)

\* the MoM repeats the obituary or will
Alive(m) == m.ss = "OBIT" \/ m.post # "none"

\* a job whose MoM will not: an answer that moves it on is under way, or there is a task
\* that finds the job not connected and so comes back until the MoM is up
Pursues(s, q) ==
  /\ Covers(s) /\ s.handle # "stale"
  /\ \/ s.deferred > Num(q, {TryAgain})
     \/ s.deferred = 0 /\ s.handle = "none" /\ s.immed + s.timed > 0

\* requests wait, and the job is connected, only while the MoM is up, and no request waits
\* for an answer of a stream that has broken
Streams ==
  sv.ss \notin Left => /\ link # "up" => sv.deferred = 0
                       /\ sv.handle = "live" => link = "up"
                       /\ sv.handle = "stale" => sv.deferred = 0

\* a job that runs for the server has ended at the MoM at most
Unended == sv.ss = "RUNNING" => mom.ss \in {"RUNNING", "OBIT"}

\* no answer is under way that no request waits for
Paired == sv.ss \notin Left => Owes(toMom, toSvr, mom) <= sv.deferred

AllFit == sv.ss \in Exiting => toMom \in Seq(Fitting(sv))

Pursued == sv.ss \in Exiting /\ ~Alive(mom) => Pursues(sv, toSvr)

Drive == Streams /\ Unended /\ Paired /\ AllFit /\ Pursued

\* What is counted are numbers, and answers that ask to try again are answers.
LEMMA OwesNat ==
  ASSUME NEW p \in Seq(Message), NEW q \in Seq(Message), NEW m \in MomType
  PROVE  /\ Num(p, Requests) \in Nat /\ Num(q, Replies) \in Nat /\ Num(q, {TryAgain}) \in Nat
         /\ m.kids \in Nat /\ Working(m) \in {0, 1} /\ Owes(p, q, m) \in Nat
         /\ Num(q, {TryAgain}) <= Num(q, Replies) /\ Num(q, Replies) <= Owes(p, q, m)
<1>1. {TryAgain} \in SUBSET Replies
  BY MomMessages DEF Replies, TryAgain
<1>2. Num(q, {TryAgain}) <= Num(q, Replies)
  BY <1>1, NumSubset
<1>3. Num(p, Requests) \in Nat /\ Num(q, Replies) \in Nat /\ Num(q, {TryAgain}) \in Nat
  BY NumNat
<1>4. m.kids \in Nat /\ Working(m) \in {0, 1}
  BY DEF MomType, Working
<1> QED
  BY <1>2, <1>3, <1>4 DEF Owes

\* A stream of messages of one kind is one of a wider kind.
LEMMA SeqWiden ==
  ASSUME NEW A, NEW B, A \subseteq B, NEW q \in Seq(A)
  PROVE  q \in Seq(B)
<1>1. Len(q) \in Nat /\ q \in [1..Len(q) -> A]
  OBVIOUS
<1>2. q \in [1..Len(q) -> B]
  BY <1>1
<1> QED
  BY <1>1, <1>2

\* What fits a job fits it in its later stages.
LEMMA FittingMoves ==
  ASSUME NEW s, NEW t, t.needs = s.needs, t.ss = "RERUN" => s.ss = "RERUN",
         s.ss \in FinalStages => t.ss \in FinalStages
  PROVE  /\ Fitting(s) \subseteq Fitting(t)
         /\ Covers(s) => Covers(t)
<1>1. \A r : Fits(s, r) => Fits(t, r)
  BY DEF Fits
<1>2. Fitting(s) \subseteq Fitting(t)
  BY <1>1 DEF Fitting
<1> QED
  BY <1>2 DEF Covers

\* What a step that leaves the server's record alone must show.
LEMMA KeepDrive ==
  ASSUME IInv, IInv', Drive, sv' = sv, link = "up" => link' = "up",
         sv.ss = "RUNNING" => mom'.ss \in {"RUNNING", "OBIT"},
         sv.ss \notin Left => Owes(toMom', toSvr', mom') <= Owes(toMom, toSvr, mom),
         toMom \in Seq(Fitting(sv)) => toMom' \in Seq(Fitting(sv)),
         sv.ss \in Exiting /\ ~Alive(mom') =>
           \/ ~Alive(mom) /\ Num(toSvr', {TryAgain}) <= Num(toSvr, {TryAgain})
           \/ Pursues(sv, toSvr')
  PROVE  Drive'
<1>1. Streams' /\ Unended'
  BY DEF Drive, Streams, Unended
<1>2. Paired'
  <2>1. Owes(toMom, toSvr, mom) \in Nat /\ Owes(toMom', toSvr', mom') \in Nat
    BY OwesNat DEF IInv, TypeOK
  <2>2. sv.deferred \in Nat
    BY DEF IInv, TypeOK, ServerType
  <2> QED
    BY <2>1, <2>2 DEF Drive, Paired
<1>3. AllFit'
  BY DEF Drive, AllFit
<1>4. Pursued'
  <2> SUFFICES ASSUME sv.ss \in Exiting, ~Alive(mom') PROVE Pursues(sv, toSvr')
    BY DEF Pursued
  <2>1. CASE Pursues(sv, toSvr')
    BY <2>1
  <2>2. CASE ~Alive(mom) /\ Num(toSvr', {TryAgain}) <= Num(toSvr, {TryAgain})
    <3>1. Pursues(sv, toSvr)
      BY <2>2 DEF Drive, Pursued
    <3>2. Num(toSvr, {TryAgain}) \in Nat /\ Num(toSvr', {TryAgain}) \in Nat /\ sv.deferred \in Nat
      BY NumNat DEF IInv, TypeOK, ServerType
    <3> QED
      BY <2>2, <3>1, <3>2 DEF Pursues
  <2> QED
    BY <2>1, <2>2
<1> QED
  BY <1>1, <1>2, <1>3, <1>4 DEF Drive

\* What the MoM says is counted, or lost.
LEMMA SayCounts ==
  ASSUME IInv, NEW msgs \in Seq(Message), Say(msgs), NEW ms
  PROVE  Num(toSvr', ms) <= Num(toSvr, ms) + Num(msgs, ms)
<1>1. toSvr \in Seq(Message)
  BY DEF IInv, TypeOK
<1>2. Num(toSvr, ms) \in Nat /\ Num(msgs, ms) \in Nat
  BY <1>1, NumNat
<1>3. CASE toSvr' = toSvr
  BY <1>2, <1>3
<1>4. CASE toSvr' = toSvr \o msgs
  <2>1. Num(toSvr \o msgs, ms) = Num(toSvr, ms) + Num(msgs, ms)
    BY <1>1, NumConcat
  <2> QED
    BY <1>2, <1>4, <2>1
<1> QED
  BY <1>3, <1>4 DEF Say

\* The MoM's messages count as answers or not.
LEMMA SaidCounts ==
  /\ Num(<<>>, Replies) = 0 /\ Num(<<>>, {TryAgain}) = 0
  /\ Num(<<Done>>, Replies) = 1 /\ Num(<<Done>>, {TryAgain}) = 0
  /\ Num(<<TryAgain>>, Replies) = 1
  /\ \A m \in Message : m.k # "Reply" => Num(<<m>>, Replies) = 0 /\ Num(<<m>>, {TryAgain}) = 0
<1>1. Done \in Replies /\ TryAgain \in Replies /\ Done # TryAgain
  BY MomMessages DEF Replies, Done, TryAgain
<1>2. Done \in Message /\ TryAgain \in Message
  BY MomMessages
<1>3. ASSUME NEW m \in Message, m.k # "Reply" PROVE m \notin Replies /\ m \notin {TryAgain}
  <2>1. TryAgain.k = "Reply"
    BY DEF TryAgain
  <2> QED
    BY <1>3, <2>1 DEF Replies
<1>4. Num(<<>>, Replies) = 0 /\ Num(<<>>, {TryAgain}) = 0
  BY <1>2, NumOne
<1>5. Num(<<Done>>, Replies) = 1 /\ Num(<<Done>>, {TryAgain}) = 0 /\ Num(<<TryAgain>>, Replies) = 1
  <2>1. Done \notin {TryAgain}
    BY <1>1
  <2> QED
    BY <1>1, <1>2, <2>1, NumOne
<1>6. ASSUME NEW m \in Message, m.k # "Reply"
      PROVE  Num(<<m>>, Replies) = 0 /\ Num(<<m>>, {TryAgain}) = 0
  <2>1. m \notin Replies /\ m \notin {TryAgain}
    BY <1>3, <1>6
  <2> QED
    BY <2>1, NumOne
<1> QED
  BY <1>4, <1>5, <1>6

\* An obituary is no answer, but may be sent with one.
LEMMA ObituaryCounts ==
  ASSUME NEW m \in MomType, m.stat # "none"
  PROVE  /\ Num(Obituary(m), Replies) = Working(m)
         /\ Num(Obituary(m), {TryAgain}) = 0
<1> DEFINE o == [k |-> "JOBOBIT", stat |-> m.stat]
           d == If(m.preq, <<Done>>)
<1>1. o \in Message /\ o.k # "Reply"
  BY MomMessages DEF MomType
<1>2. Num(<<o>>, Replies) = 0 /\ Num(<<o>>, {TryAgain}) = 0 /\ <<o>> \in Seq(Message)
  <2> HIDE DEF o
  <2>1. <<o>> \in Seq(Message)
    BY <1>1
  <2>2. Num(<<o>>, Replies) = 0 /\ Num(<<o>>, {TryAgain}) = 0
    BY <1>1, SaidCounts, Zenon
  <2> QED
    BY <2>1, <2>2
<1>3. d \in Seq(Message)
  BY Answers
<1>4. Num(d, Replies) = Working(m) /\ Num(d, {TryAgain}) = 0
  BY SaidCounts DEF If, Working
<1> DEFINE w == <<o>>
<1>5. Obituary(m) = w \o d
  BY DEF Obituary
<1>6. Num(w, Replies) = 0 /\ Num(w, {TryAgain}) = 0 /\ w \in Seq(Message)
  BY <1>2
<1> HIDE DEF o, d, w
<1>7. \A ms : Num(Obituary(m), ms) = Num(w, ms) + Num(d, ms)
  BY <1>3, <1>5, <1>6, NumConcat
<1> QED
  <2>1. Working(m) \in {0, 1}
    BY DEF Working
  <2> QED
    BY <1>4, <1>6, <1>7, <2>1

\* The MoM returns to the obituary and answers the request she works at.
LEMMA BackToObit ==
  ASSUME IInv, IInv', Drive, UNCHANGED <<sv, toMom, link>>, mom'.ss = "OBIT",
         mom'.preq = FALSE, mom'.kids = mom.kids,
         Num(toSvr', Replies) <= Num(toSvr, Replies) + Working(mom)
  PROVE  Drive'
<1>1. Alive(mom') /\ Working(mom') = 0
  BY DEF Alive, Working
<1>2. Owes(toMom', toSvr', mom') <= Owes(toMom, toSvr, mom)
  <2>1. /\ Num(toMom, Requests) \in Nat /\ Num(toSvr, Replies) \in Nat /\ mom.kids \in Nat
        /\ Working(mom) \in {0, 1} /\ Num(toSvr', Replies) \in Nat
    BY OwesNat DEF IInv, TypeOK
  <2> QED
    BY <1>1, <2>1 DEF Owes
<1> QED
  BY <1>1, <1>2, KeepDrive

\* The job ends at the MoM, or its obituary is repeated.
LEMMA ObituaryDrive ==
  ASSUME IInv, IInv', Drive, job_ends \/ resend_obit
  PROVE  Drive'
<1>1. PICK m \in MomType : /\ m.stat # "none" /\ m.preq = mom.preq /\ m.kids = mom.kids
                           /\ mom' = Obit(m) /\ Say(Obituary(m))
  <2>1. CASE resend_obit
    BY <2>1 DEF resend_obit, IInv, TypeOK, MomRecord
  <2>2. CASE job_ends
    <3>1. PICK stat \in IF mom.stat = "none" THEN Statuses ELSE {mom.stat} :
            LET m == [mom EXCEPT !.stat = stat] IN mom' = Obit(m) /\ Say(Obituary(m))
      BY <2>2 DEF job_ends
    <3> DEFINE m == [mom EXCEPT !.stat = stat]
    <3>2. stat \in Statuses \cup {"INITABT"} /\ stat # "none"
      BY EndAssumption DEF IInv, TypeOK, MomType
    <3>3. m \in MomType /\ m.stat # "none" /\ m.preq = mom.preq /\ m.kids = mom.kids
      BY <3>2 DEF IInv, TypeOK, MomType
    <3> QED
      BY <3>1, <3>3
  <2> QED
    BY <2>1, <2>2
<1>2. UNCHANGED <<sv, toMom, link>>
  BY DEF job_ends, resend_obit, MomOnly
<1>3. mom'.ss = "OBIT" /\ mom'.preq = FALSE /\ mom'.kids = mom.kids
  BY <1>1 DEF Obit, MomType
<1>4. Num(toSvr', Replies) <= Num(toSvr, Replies) + Working(mom)
  <2>1. Working(m) = Working(mom)
    BY <1>1 DEF Working
  <2>2. Obituary(m) \in Seq(Message) /\ Num(Obituary(m), Replies) = Working(m)
    BY <1>1, ObituaryOK, ObituaryCounts
  <2> QED
    BY <1>1, <2>1, <2>2, SayCounts
<1> QED
  BY <1>2, <1>3, <1>4, BackToObit

\* The child that copies or deletes files ends.
LEMMA PostDrive ==
  ASSUME Chained, IInv, IInv', Drive, post_cpyfile \/ post_delfile
  PROVE  Drive'
<1> DEFINE reply == If(mom.preq, <<Done>>)
<1>1. mom \in MomType /\ mom.stat # "none"
  BY DEF post_cpyfile, post_delfile, Copying, IInv, TypeOK, MomType, MomRecord, MomUndisturbed
<1>2. UNCHANGED <<sv, toMom, link>>
  BY DEF post_cpyfile, post_delfile, MomOnly
<1>3. PICK m \in MomType : /\ m.stat # "none" /\ m.preq = FALSE
                           /\ Say(reply) \/ Say(reply \o Obituary(m))
                           /\ mom'.ss = "OBIT" /\ mom'.preq = FALSE /\ mom'.kids = mom.kids
  <2>1. CASE post_cpyfile
    <3> DEFINE m == [mom EXCEPT !.post = "none", !.preq = FALSE]
    <3>1. m \in MomType /\ m.stat # "none" /\ m.preq = FALSE /\ m.kids = mom.kids
      BY <1>1 DEF MomType
    <3>2. /\ mom' = [m EXCEPT !.ss = "OBIT"] \/ mom' = Obit(m)
          /\ Say(reply) \/ Say(reply \o Obituary(m))
      BY <2>1 DEF post_cpyfile, Chained
    <3> HIDE DEF m, reply
    <3>3. mom'.ss = "OBIT" /\ mom'.preq = FALSE /\ mom'.kids = mom.kids
      BY <3>1, <3>2 DEF Obit, MomType
    <3> QED
      BY <3>1, <3>2, <3>3
  <2>2. CASE post_delfile
    <3> DEFINE m == Obit(mom)
    <3>1. /\ m \in MomType /\ m.stat # "none" /\ m.preq = FALSE /\ m.kids = mom.kids
          /\ m.ss = "OBIT"
      BY <1>1 DEF MomType, Obit
    <3>2. mom' = m /\ (Say(reply) \/ Say(reply \o Obituary(m)))
      BY <2>2 DEF post_delfile
    <3> HIDE DEF m, reply
    <3> QED
      BY <3>1, <3>2
  <2> QED
    BY <2>1, <2>2
<1>4. reply \in Seq(Message) /\ Num(reply, Replies) = Working(mom) /\ Working(mom) \in {0, 1}
  BY Answers, SaidCounts DEF If, Working
<1>5. Obituary(m) \in Seq(Message) /\ Num(Obituary(m), Replies) = 0
  BY <1>3, ObituaryOK, ObituaryCounts DEF Working
<1> HIDE DEF reply
<1>6. /\ reply \o Obituary(m) \in Seq(Message)
      /\ Num(reply \o Obituary(m), Replies) = Working(mom)
  <2>1. Num(reply \o Obituary(m), Replies) = Num(reply, Replies) + Num(Obituary(m), Replies)
    BY <1>4, <1>5, NumConcat
  <2> QED
    BY <1>4, <1>5, <2>1, SeqAppend
<1>7. Num(toSvr', Replies) <= Num(toSvr, Replies) + Working(mom)
  BY <1>3, <1>4, <1>6, SayCounts
<1> QED
  BY <1>2, <1>3, <1>7, BackToObit

\* A message of the server's is read: a request is one less.
LEMMA TakeCounts ==
  ASSUME IInv, NEW kind, Take(kind)
  PROVE  /\ Num(toMom, Requests) = Num(toMom', Requests) + (IF kind = "Ask" THEN 1 ELSE 0)
         /\ \A ms : toMom \in Seq(ms) => toMom' \in Seq(ms) /\ Head(toMom) \in ms
<1>1. /\ toMom \in Seq(Message) /\ toMom # <<>> /\ Head(toMom) \in Message
      /\ toMom' = Tail(toMom) /\ Head(toMom).k = kind
  BY DEF Take, IInv, TypeOK
<1>2. Head(toMom) \in Requests <=> kind = "Ask"
  BY <1>1 DEF Requests
<1>3. Num(toMom, Requests)
        = Num(Tail(toMom), Requests) + (IF Head(toMom) \in Requests THEN 1 ELSE 0)
  BY <1>1, NumTail
<1>4. ASSUME NEW ms, toMom \in Seq(ms) PROVE Tail(toMom) \in Seq(ms) /\ Head(toMom) \in ms
  BY <1>1, <1>4
<1> QED
  BY <1>1, <1>2, <1>3, <1>4

\* A request of a job that is exiting fits its stage, and is one the server waits for.
LEMMA AskedFits ==
  ASSUME IInv, Drive, NEW r, Asked(r)
  PROVE  /\ sv.ss # "RUNNING" /\ mom.ss # "RUNNING"
         /\ sv.ss \in Exiting => /\ Fits(sv, r) /\ sv.handle # "stale"
                                 /\ sv.deferred > Num(toSvr, {TryAgain})
<1>1. Take("Ask") /\ Head(toMom).k = "Ask" /\ Head(toMom).r = r
  BY DEF Asked, Take
<1>2. sv.ss # "RUNNING" /\ mom.ss # "RUNNING"
  BY <1>1, TakeOK
<1>3. ASSUME sv.ss \in Exiting
      PROVE  Fits(sv, r) /\ sv.handle # "stale" /\ sv.deferred > Num(toSvr, {TryAgain})
  <2>1. toMom \in Seq(Fitting(sv)) /\ sv.ss \notin Left
    BY <1>3 DEF Drive, AllFit, Left, Exiting, ExitStages, RerunStages
  <2>2. Head(toMom) \in Fitting(sv)
    BY <1>1, <2>1, TakeCounts
  <2>3. Fits(sv, r)
    BY <1>1, <2>2 DEF Fitting
  <2>4. Num(toMom, Requests) >= 1
    <3>1. toMom' \in Seq(Message)
      BY <1>1, TakeOK
    <3>2. Num(toMom', Requests) \in Nat
      BY <3>1, NumNat
    <3> QED
      BY <1>1, <3>2, TakeCounts
  <2>5. sv.deferred > Num(toSvr, {TryAgain}) /\ sv.deferred # 0
    <3>1. /\ Num(toMom, Requests) \in Nat /\ Num(toSvr, Replies) \in Nat /\ mom.kids \in Nat
          /\ Num(toSvr, {TryAgain}) \in Nat /\ Working(mom) \in {0, 1}
          /\ Num(toSvr, {TryAgain}) <= Num(toSvr, Replies) /\ sv.deferred \in Nat
      BY OwesNat DEF IInv, TypeOK, ServerType
    <3>2. Owes(toMom, toSvr, mom) <= sv.deferred
      BY <2>1 DEF Drive, Paired
    <3> QED
      BY <2>4, <3>1, <3>2 DEF Owes
  <2> QED
    BY <2>1, <2>3, <2>5 DEF Drive, Streams
<1> QED
  BY <1>2, <1>3

\* What a step of the MoM that takes a request must show.
LEMMA AskedDrive ==
  ASSUME IInv, IInv', Drive, NEW r, Asked(r), MomMsg,
         Num(toSvr', Replies) + mom'.kids + Working(mom')
           <= Num(toSvr, Replies) + mom.kids + Working(mom) + 1,
         \/ Alive(mom')
         \/ ~Alive(mom) /\ Num(toSvr', {TryAgain}) <= Num(toSvr, {TryAgain})
         \/ /\ Num(toSvr', {TryAgain}) <= Num(toSvr, {TryAgain})
            /\ sv.ss \in Exiting => Covers(sv)
  PROVE  Drive'
<1>1. Take("Ask") /\ UNCHANGED <<sv, link>>
  BY DEF Asked, MomMsg
<1>2. /\ sv.ss # "RUNNING"
      /\ sv.ss \in Exiting => sv.handle # "stale" /\ sv.deferred > Num(toSvr, {TryAgain})
  BY AskedFits
<1>3. /\ Num(toMom, Requests) = Num(toMom', Requests) + 1
      /\ \A ms : toMom \in Seq(ms) => toMom' \in Seq(ms)
  BY <1>1, TakeCounts
<1>4. /\ Num(toMom, Requests) \in Nat /\ Num(toSvr, Replies) \in Nat /\ mom.kids \in Nat
      /\ Num(toMom', Requests) \in Nat /\ Num(toSvr', Replies) \in Nat /\ mom'.kids \in Nat
      /\ Working(mom) \in {0, 1} /\ Working(mom') \in {0, 1} /\ sv.deferred \in Nat
      /\ Num(toSvr, {TryAgain}) \in Nat /\ Num(toSvr', {TryAgain}) \in Nat
  BY OwesNat DEF IInv, TypeOK, ServerType
<1>5. Owes(toMom', toSvr', mom') <= Owes(toMom, toSvr, mom)
  <2>1. Num(toMom, Requests) = Num(toMom', Requests) + 1
    BY <1>3
  <2>2. Num(toSvr', Replies) + mom'.kids + Working(mom')
          <= Num(toSvr, Replies) + mom.kids + Working(mom) + 1
    OBVIOUS
  <2>3. Working(mom) \in Nat /\ Working(mom') \in Nat
    BY <1>4
  <2> QED
    BY <1>4, <2>1, <2>2, <2>3 DEF Owes
<1>6. sv.ss \in Exiting /\ ~Alive(mom') =>
        \/ ~Alive(mom) /\ Num(toSvr', {TryAgain}) <= Num(toSvr, {TryAgain})
        \/ Pursues(sv, toSvr')
  BY <1>2, <1>4 DEF Pursues
<1> QED
  BY <1>1, <1>2, <1>3, <1>5, <1>6, KeepDrive

\* One answer is given, or none.
LEMMA AnswerCounts ==
  ASSUME IInv, IInv'
  PROVE  /\ Say(<<Done>>) => /\ Num(toSvr', Replies) <= Num(toSvr, Replies) + 1
                             /\ Num(toSvr', {TryAgain}) <= Num(toSvr, {TryAgain})
         /\ Say(<<TryAgain>>) => Num(toSvr', Replies) <= Num(toSvr, Replies) + 1
         /\ toSvr' = toSvr => /\ Num(toSvr', Replies) <= Num(toSvr, Replies)
                              /\ Num(toSvr', {TryAgain}) <= Num(toSvr, {TryAgain})
<1>1. /\ Num(toSvr, Replies) \in Nat /\ Num(toSvr, {TryAgain}) \in Nat
  BY OwesNat DEF IInv, TypeOK
<1>2. ASSUME Say(<<Done>>)
      PROVE  /\ Num(toSvr', Replies) <= Num(toSvr, Replies) + 1
             /\ Num(toSvr', {TryAgain}) <= Num(toSvr, {TryAgain})
  <2>1. \A ms : Num(toSvr', ms) <= Num(toSvr, ms) + Num(<<Done>>, ms)
    BY <1>2, Answers, SayCounts
  <2>2. /\ Num(toSvr', Replies) <= Num(toSvr, Replies) + Num(<<Done>>, Replies)
        /\ Num(toSvr', {TryAgain}) <= Num(toSvr, {TryAgain}) + Num(<<Done>>, {TryAgain})
    BY <2>1
  <2> QED
    BY <1>1, <2>2, SaidCounts
<1>3. ASSUME Say(<<TryAgain>>)
      PROVE  Num(toSvr', Replies) <= Num(toSvr, Replies) + 1
  <2>1. Num(toSvr', Replies) <= Num(toSvr, Replies) + Num(<<TryAgain>>, Replies)
    BY <1>3, Answers, SayCounts
  <2> QED
    BY <1>1, <2>1, SaidCounts
<1>4. ASSUME toSvr' = toSvr
      PROVE  /\ Num(toSvr', Replies) <= Num(toSvr, Replies)
             /\ Num(toSvr', {TryAgain}) <= Num(toSvr, {TryAgain})
  BY <1>1, <1>4
<1> QED
  BY <1>2, <1>3, <1>4

\* Rerun Job: a child returns the files and no obituary is sent meanwhile, but copying
\* and deleting files follow.
LEMMA req_rerunjob_Drive ==
  ASSUME Chained, IInv, IInv', Drive, req_rerunjob
  PROVE  Drive'
<1>1. Asked("Rerun") /\ MomMsg /\ mom \in MomType /\ mom' \in MomType
  BY DEF req_rerunjob, IInv, TypeOK
<1>2. /\ Num(toSvr, Replies) \in Nat /\ Num(toSvr', Replies) \in Nat
      /\ Num(toSvr, {TryAgain}) \in Nat /\ Num(toSvr', {TryAgain}) \in Nat
      /\ mom.kids \in Nat /\ Working(mom) \in {0, 1}
  BY OwesNat DEF IInv, TypeOK
<1>3. CASE mom' = mom /\ Say(<<Done>>)
  <2>1. /\ Num(toSvr', Replies) <= Num(toSvr, Replies) + 1
        /\ Num(toSvr', {TryAgain}) <= Num(toSvr, {TryAgain})
    BY <1>3, AnswerCounts
  <2>2. /\ Num(toSvr', Replies) + mom'.kids + Working(mom')
             <= Num(toSvr, Replies) + mom.kids + Working(mom) + 1
    BY <1>2, <1>3, <2>1
  <2> QED
    BY <1>1, <1>3, <2>1, <2>2, AskedDrive
<1>4. CASE mom' = [Quiet(mom) EXCEPT !.kids = @ + 1] /\ toSvr' = toSvr
  <2>1. mom'.kids = mom.kids + 1 /\ mom'.preq = mom.preq
    BY <1>1, <1>4 DEF Quiet, MomType
  <2>2. Working(mom') = Working(mom)
    BY <2>1 DEF Working
  <2>3. /\ Num(toSvr', Replies) + mom'.kids + Working(mom')
             <= Num(toSvr, Replies) + mom.kids + Working(mom) + 1
        /\ Num(toSvr', {TryAgain}) <= Num(toSvr, {TryAgain})
    BY <1>2, <1>4, <2>1, <2>2
  <2>4. sv.ss \in Exiting => Covers(sv)
    <3>1. sv.ss \in Exiting => "Rerun" \in sv.needs
      BY <1>1, AskedFits DEF Fits
    <3>2. sv.needs \in Needs
      BY DEF IInv, TypeOK, ServerType
    <3> QED
      BY <3>1, <3>2 DEF Covers, Chained
  <2> QED
    BY <1>1, <2>3, <2>4, AskedDrive
<1> QED
  BY <1>3, <1>4 DEF req_rerunjob

\* Copy Files: no obituary is sent if the copying cannot begin, but deleting files follows.
LEMMA req_cpyfile_Drive ==
  ASSUME Chained, IInv, IInv', Drive, req_cpyfile
  PROVE  Drive'
<1>1. Asked("CopyFiles") /\ MomMsg /\ mom \in MomType /\ mom' \in MomType
  BY DEF req_cpyfile, IInv, TypeOK
<1>2. /\ Num(toSvr, Replies) \in Nat /\ Num(toSvr', Replies) \in Nat
      /\ Num(toSvr, {TryAgain}) \in Nat /\ Num(toSvr', {TryAgain}) \in Nat
      /\ mom.kids \in Nat /\ Working(mom) \in {0, 1} /\ Working(mom') \in {0, 1}
  BY OwesNat DEF IInv, TypeOK
<1>3. sv.ss \in Exiting => Covers(sv)
  <2>1. sv.ss \in Exiting => "CopyFiles" \in sv.needs /\ sv.ss # "RERUN"
    BY <1>1, AskedFits DEF Fits
  <2>2. sv.needs \in Needs
    BY DEF IInv, TypeOK, ServerType
  <2> QED
    BY <2>1, <2>2 DEF Covers, Chained
<1>4. CASE mom' = Quiet(mom) /\ Say(<<Done>>)
  <2>1. /\ Num(toSvr', Replies) <= Num(toSvr, Replies) + 1
        /\ Num(toSvr', {TryAgain}) <= Num(toSvr, {TryAgain})
    BY <1>4, AnswerCounts
  <2>2. mom'.kids = mom.kids /\ mom'.preq = mom.preq
    BY <1>1, <1>4 DEF Quiet, MomType
  <2>3. Working(mom') = Working(mom)
    BY <2>2 DEF Working
  <2>4. /\ Num(toSvr', Replies) + mom'.kids + Working(mom')
             <= Num(toSvr, Replies) + mom.kids + Working(mom) + 1
    BY <1>2, <2>1, <2>2, <2>3
  <2> QED
    BY <1>1, <1>3, <2>1, <2>4, AskedDrive
<1>5. CASE mom' = [mom EXCEPT !.kids = @ + 1] /\ toSvr' = toSvr
  <2>1. mom'.kids = mom.kids + 1 /\ mom'.preq = mom.preq
    BY <1>1, <1>5 DEF MomType
  <2>2. Working(mom') = Working(mom)
    BY <2>1 DEF Working
  <2>3. /\ Num(toSvr', Replies) + mom'.kids + Working(mom')
             <= Num(toSvr, Replies) + mom.kids + Working(mom) + 1
        /\ Num(toSvr', {TryAgain}) <= Num(toSvr, {TryAgain})
    BY <1>2, <1>5, <2>1, <2>2
  <2> QED
    BY <1>1, <1>3, <2>3, AskedDrive
<1>6. CASE mom' = [Quiet(mom) EXCEPT !.post = "post_cpyfile", !.preq = TRUE] /\ toSvr' = toSvr
  <2>1. mom'.kids = mom.kids /\ mom'.post = "post_cpyfile"
    BY <1>1, <1>6 DEF Quiet, MomType
  <2>2. /\ Num(toSvr', Replies) + mom'.kids + Working(mom')
             <= Num(toSvr, Replies) + mom.kids + Working(mom) + 1
    BY <1>2, <1>6, <2>1
  <2>3. Alive(mom')
    BY <2>1 DEF Alive
  <2> QED
    BY <1>1, <2>2, <2>3, AskedDrive
<1> QED
  BY <1>4, <1>5, <1>6 DEF req_cpyfile

\* Delete Files: the obituary is sent again when they are deleted.
LEMMA req_delfile_Drive ==
  ASSUME IInv, IInv', Drive, req_delfile
  PROVE  Drive'
<1>1. Asked("DelFiles") /\ MomMsg /\ mom \in MomType /\ mom' \in MomType
  BY DEF req_delfile, IInv, TypeOK
<1>2. /\ Num(toSvr, Replies) \in Nat /\ Num(toSvr', Replies) \in Nat
      /\ Num(toSvr, {TryAgain}) \in Nat /\ Num(toSvr', {TryAgain}) \in Nat
      /\ mom.kids \in Nat /\ Working(mom) \in {0, 1} /\ Working(mom') \in {0, 1}
  BY OwesNat DEF IInv, TypeOK
<1>3. CASE Copying /\ mom' = mom /\ Say(<<TryAgain>>)
  <2>1. Num(toSvr', Replies) <= Num(toSvr, Replies) + 1 /\ Alive(mom')
    BY <1>3, AnswerCounts DEF Copying, Alive
  <2>2. /\ Num(toSvr', Replies) + mom'.kids + Working(mom')
             <= Num(toSvr, Replies) + mom.kids + Working(mom) + 1
    BY <1>2, <1>3, <2>1
  <2> QED
    BY <1>1, <2>1, <2>2, AskedDrive
<1>4. CASE /\ mom' = [mom EXCEPT !.ss = "EXITED", !.post = "post_delfile", !.preq = TRUE]
           /\ toSvr' = toSvr
  <2>1. mom'.kids = mom.kids /\ mom'.post = "post_delfile"
    BY <1>1, <1>4 DEF MomType
  <2>2. /\ Num(toSvr', Replies) + mom'.kids + Working(mom')
             <= Num(toSvr, Replies) + mom.kids + Working(mom) + 1
    BY <1>2, <1>4, <2>1
  <2>3. Alive(mom')
    BY <2>1 DEF Alive
  <2> QED
    BY <1>1, <2>2, <2>3, AskedDrive
<1>5. CASE /\ mom' = mom \/ mom' = [mom EXCEPT !.preq = FALSE]
           /\ toSvr' = toSvr \/ Say(<<Done>>)
  <2>1. mom'.kids = mom.kids /\ mom'.ss = mom.ss /\ mom'.post = mom.post
    BY <1>1, <1>5 DEF MomType
  <2>2. Working(mom') <= Working(mom)
    <3>1. CASE mom' = mom
      BY <1>2, <3>1
    <3>2. CASE mom' = [mom EXCEPT !.preq = FALSE]
      <4>1. Working(mom') = 0
        BY <1>1, <3>2 DEF Working, MomType
      <4> QED
        BY <1>2, <4>1
    <3> QED
      BY <1>5, <3>1, <3>2
  <2>3. /\ Num(toSvr', Replies) <= Num(toSvr, Replies) + 1
        /\ Num(toSvr', {TryAgain}) <= Num(toSvr, {TryAgain})
    BY <1>2, <1>5, AnswerCounts
  <2>4. /\ Num(toSvr', Replies) + mom'.kids + Working(mom')
             <= Num(toSvr, Replies) + mom.kids + Working(mom) + 1
    BY <1>2, <2>1, <2>2, <2>3
  <2>5. Alive(mom') <=> Alive(mom)
    BY <2>1 DEF Alive
  <2> QED
    BY <1>1, <2>3, <2>4, <2>5, AskedDrive
<1> QED
  BY <1>3, <1>4, <1>5 DEF req_delfile

\* Delete Job, which is asked for in the last stage.
LEMMA req_deletejob_Drive ==
  ASSUME IInv, IInv', Drive, req_deletejob
  PROVE  Drive'
<1>1. Asked("DeleteJob") /\ MomMsg /\ mom \in MomType /\ mom' \in MomType
  BY DEF req_deletejob, IInv, TypeOK
<1>2. /\ Num(toSvr, Replies) \in Nat /\ Num(toSvr', Replies) \in Nat
      /\ Num(toSvr, {TryAgain}) \in Nat /\ Num(toSvr', {TryAgain}) \in Nat
      /\ mom.kids \in Nat /\ Working(mom) \in {0, 1} /\ Working(mom') \in {0, 1}
  BY OwesNat DEF IInv, TypeOK
<1>3. CASE Copying /\ mom' = mom /\ Say(<<TryAgain>>)
  <2>1. Num(toSvr', Replies) <= Num(toSvr, Replies) + 1 /\ Alive(mom')
    BY <1>3, AnswerCounts DEF Copying, Alive
  <2>2. /\ Num(toSvr', Replies) + mom'.kids + Working(mom')
             <= Num(toSvr, Replies) + mom.kids + Working(mom) + 1
    BY <1>2, <1>3, <2>1
  <2> QED
    BY <1>1, <2>1, <2>2, AskedDrive
<1>4. CASE mom' = Gone(mom) /\ Say(<<Done>>)
  <2>1. mom'.kids = mom.kids /\ mom'.preq = FALSE
    BY <1>1, <1>4 DEF Gone, MomType
  <2>2. Working(mom') = 0
    BY <2>1 DEF Working
  <2>3. /\ Num(toSvr', Replies) <= Num(toSvr, Replies) + 1
        /\ Num(toSvr', {TryAgain}) <= Num(toSvr, {TryAgain})
    BY <1>4, AnswerCounts
  <2>4. /\ Num(toSvr', Replies) + mom'.kids + Working(mom')
             <= Num(toSvr, Replies) + mom.kids + Working(mom) + 1
    BY <1>2, <2>1, <2>2, <2>3
  <2>5. sv.ss \in Exiting => Covers(sv)
    BY <1>1, AskedFits DEF Fits, Covers
  <2> QED
    BY <1>1, <2>3, <2>4, <2>5, AskedDrive
<1> QED
  BY <1>3, <1>4 DEF req_deletejob

\* A child ends and answers.
LEMMA post_nojob_Drive ==
  ASSUME IInv, IInv', Drive, post_nojob
  PROVE  Drive'
<1>1. /\ mom.kids > 0 /\ mom' = [mom EXCEPT !.kids = @ - 1] /\ Say(<<Done>>)
      /\ UNCHANGED <<sv, toMom, link>> /\ mom \in MomType
  BY DEF post_nojob, MomOnly, IInv, TypeOK
<1>2. /\ mom'.kids = mom.kids - 1 /\ mom'.preq = mom.preq /\ mom'.ss = mom.ss
      /\ mom'.post = mom.post
  BY <1>1 DEF MomType
<1>3. Working(mom') = Working(mom) /\ (Alive(mom') <=> Alive(mom))
  BY <1>2 DEF Working, Alive
<1>4. /\ Num(toSvr', Replies) <= Num(toSvr, Replies) + 1
      /\ Num(toSvr', {TryAgain}) <= Num(toSvr, {TryAgain})
  BY <1>1, AnswerCounts
<1>5. /\ Num(toMom, Requests) \in Nat /\ Num(toSvr, Replies) \in Nat
      /\ Num(toSvr', Replies) \in Nat /\ mom.kids \in Nat /\ Working(mom) \in {0, 1}
  BY OwesNat DEF IInv, TypeOK
<1>6. Owes(toMom', toSvr', mom') <= Owes(toMom, toSvr, mom)
  BY <1>1, <1>2, <1>3, <1>4, <1>5 DEF Owes
<1>7. sv.ss = "RUNNING" => mom'.ss \in {"RUNNING", "OBIT"}
  BY <1>2 DEF Drive, Unended
<1> QED
  BY <1>1, <1>3, <1>4, <1>6, <1>7, KeepDrive

\* The MoM is told to drop the job only when the server has let go of it.
LEMMA DropDrive ==
  ASSUME IInv, IInv', Drive, rid_job \/ is_discard_job
  PROVE  Drive'
<1>1. PICK kind \in {"BADOBIT", "DISCARD_JOB"} : Take(kind)
  BY DEF rid_job, is_discard_job
<1>2. sv.ss \in Left
  <2>1. sv.ss # "RUNNING"
    BY <1>1, TakeOK
  <2>2. ASSUME sv.ss \in Exiting PROVE FALSE
    <3>1. Head(toMom) \in Fitting(sv)
      BY <1>1, <2>2, TakeCounts DEF Drive, AllFit
    <3> QED
      BY <1>1, <3>1 DEF Fitting, Take
  <2> QED
    BY <2>1, <2>2 DEF IInv, TypeOK, ServerType
<1>3. /\ UNCHANGED <<sv, link>> /\ sv.ss \notin Exiting /\ sv.ss # "RUNNING"
      /\ toMom \in Seq(Fitting(sv)) => toMom' \in Seq(Fitting(sv))
  BY <1>1, <1>2, TakeCounts DEF rid_job, is_discard_job, MomMsg, Left, Exiting, ExitStages,
                                RerunStages
<1> QED
  BY <1>2, <1>3, KeepDrive

\* The MoM gets the addresses.
LEMMA is_cluster_addrs_Drive ==
  ASSUME IInv, IInv', Drive, is_cluster_addrs
  PROVE  Drive'
<1> DEFINE r == [k |-> "MOM_READY"]
<1>1. Take("CLUSTER_ADDRS") /\ UNCHANGED <<sv, mom, link>> /\ Say(<<r>>)
  BY DEF is_cluster_addrs, MomMsg
<1>2. r \in Message /\ r.k # "Reply"
  BY MomMessages
<1> HIDE DEF r
<1>3. <<r>> \in Seq(Message) /\ Num(<<r>>, Replies) = 0 /\ Num(<<r>>, {TryAgain}) = 0
  <2>1. <<r>> \in Seq(Message)
    BY <1>2
  <2>2. Num(<<r>>, Replies) = 0 /\ Num(<<r>>, {TryAgain}) = 0
    BY <1>2, SaidCounts, Zenon
  <2> QED
    BY <2>1, <2>2
<1>4. /\ Num(toMom, Requests) \in Nat /\ Num(toSvr, Replies) \in Nat
      /\ Num(toMom', Requests) \in Nat /\ Num(toSvr', Replies) \in Nat
      /\ Num(toSvr, {TryAgain}) \in Nat /\ mom.kids \in Nat /\ Working(mom) \in {0, 1}
  BY OwesNat DEF IInv, TypeOK
<1>5. /\ Num(toSvr', Replies) <= Num(toSvr, Replies)
      /\ Num(toSvr', {TryAgain}) <= Num(toSvr, {TryAgain})
  <2>1. \A ms : Num(toSvr', ms) <= Num(toSvr, ms) + Num(<<r>>, ms)
    BY <1>1, <1>3, SayCounts
  <2>2. /\ Num(toSvr', Replies) <= Num(toSvr, Replies) + Num(<<r>>, Replies)
        /\ Num(toSvr', {TryAgain}) <= Num(toSvr, {TryAgain}) + Num(<<r>>, {TryAgain})
    BY <2>1
  <2> QED
    BY <1>3, <1>4, <2>2
<1>6. /\ Num(toMom', Requests) = Num(toMom, Requests)
      /\ toMom \in Seq(Fitting(sv)) => toMom' \in Seq(Fitting(sv))
  BY <1>1, <1>4, TakeCounts
<1>7. Owes(toMom', toSvr', mom') <= Owes(toMom, toSvr, mom)
  <2>1. Num(toMom', Requests) = Num(toMom, Requests)
    BY <1>6
  <2> QED
    BY <1>1, <1>4, <1>5, <2>1 DEF Owes
<1>8. sv.ss = "RUNNING" => mom'.ss \in {"RUNNING", "OBIT"}
  BY <1>1 DEF Drive, Unended
<1> QED
  BY <1>1, <1>5, <1>6, <1>7, <1>8, KeepDrive

\* A new stream is opened: nothing is under way on it.
LEMMA reply_hello4_Drive ==
  ASSUME IInv, IInv', Drive, reply_hello4
  PROVE  Drive'
<1> DEFINE r == [k |-> "HELLO4", has |-> Has]
<1>1. /\ UNCHANGED <<sv, mom, toMom>> /\ link = "down" /\ link' = "hello" /\ toSvr' = <<r>>
  BY DEF reply_hello4
<1>2. r \in Message /\ r.k # "Reply"
  BY MomMessages DEF Has
<1> HIDE DEF r
<1>3. Num(toSvr', Replies) = 0 /\ Num(toSvr', {TryAgain}) = 0
  <2>1. Num(<<r>>, Replies) = 0 /\ Num(<<r>>, {TryAgain}) = 0
    BY <1>2, SaidCounts, Zenon
  <2> QED
    BY <1>1, <2>1
<1>4. /\ Num(toMom, Requests) \in Nat /\ Num(toSvr, Replies) \in Nat
      /\ Num(toSvr, {TryAgain}) \in Nat /\ mom.kids \in Nat /\ Working(mom) \in {0, 1}
  BY OwesNat DEF IInv, TypeOK
<1>5. Num(toSvr', {TryAgain}) <= Num(toSvr, {TryAgain})
  BY <1>3, <1>4
<1>6. Owes(toMom', toSvr', mom') <= Owes(toMom, toSvr, mom)
  BY <1>1, <1>3, <1>4 DEF Owes
<1>7. sv.ss = "RUNNING" => mom'.ss \in {"RUNNING", "OBIT"}
  BY <1>1 DEF Drive, Unended
<1> QED
  BY <1>1, <1>5, <1>6, <1>7, KeepDrive

\* The MoM restarts: a job that has ended is in OBIT again.
LEMMA init_abort_jobs_Drive ==
  ASSUME IInv, IInv', Drive, init_abort_jobs
  PROVE  Drive'
<1>1. /\ UNCHANGED <<sv, toMom, toSvr, link>> /\ mom.ss # "none" /\ mom \in MomType
      /\ mom' = [mom EXCEPT !.post = "none", !.kids = 0,
                            !.ss = IF @ = "EXITED" THEN "OBIT" ELSE @,
                            !.stat = IF mom.ss = "RUNNING" THEN "INITABT" ELSE @]
  BY DEF init_abort_jobs, Has, IInv, TypeOK
<1>2. /\ mom'.kids = 0 /\ mom'.preq = mom.preq
      /\ mom'.ss = IF mom.ss = "RUNNING" THEN "RUNNING" ELSE "OBIT"
  BY <1>1 DEF MomType
<1>3. Working(mom') = Working(mom) /\ (mom.ss # "RUNNING" => Alive(mom'))
  BY <1>2 DEF Working, Alive
<1>4. /\ Num(toMom, Requests) \in Nat /\ Num(toSvr, Replies) \in Nat
      /\ mom.kids \in Nat /\ Working(mom) \in {0, 1}
  BY OwesNat DEF IInv, TypeOK
<1>5. Owes(toMom', toSvr', mom') <= Owes(toMom, toSvr, mom)
  BY <1>1, <1>2, <1>3, <1>4 DEF Owes
<1>6. sv.ss \in Exiting => mom.ss # "RUNNING"
  BY DEF IInv, MomUndisturbed
<1> QED
  BY <1>1, <1>2, <1>3, <1>5, <1>6, KeepDrive

\* A job that the server has let go of is no concern of the invariant,
LEMMA LeftDrive ==
  ASSUME sv'.ss \in Left
  PROVE  Drive'
<1>1. sv'.ss \notin Exiting /\ sv'.ss # "RUNNING"
  BY DEF Left, Exiting, ExitStages, RerunStages
<1> QED
  BY <1>1 DEF Drive, Streams, Unended, Paired, AllFit, Pursued

\* and stays let go of.
LEMMA LeftStays ==
  ASSUME IInv, IInv', Refines, sv.ss \in Left
  PROVE  sv'.ss \in Left
<1>1. Phase(sv.ss) \in {"finished", "queued"}
  BY DEF Phase, Left, ExitStages, RerunStages
<1>2. Phase(sv'.ss) = Phase(sv.ss)
  BY <1>1 DEF Refines, Run!RunNext, Run!End, Run!Delete, Run!Leave, Run!Contact, Run!GiveUp, Run!Over,
              Run!abstract
<1>3. sv'.ss \in {"RUNNING"} \cup Exiting \cup Left
  BY DEF IInv, TypeOK, ServerType
<1> QED
  BY <1>1, <1>2, <1>3 DEF Phase, Left, Exiting, ExitStages, RerunStages

\* What a stage writes is counted and fits.
LEMMA WriteCounts ==
  ASSUME IInv, NEW s, s.deferred \in Nat, NEW t \in ServerType, MovesOn(s, t), Write(t)
  PROVE  /\ sv' \in ServerType /\ sv'.ss = t.ss /\ sv'.needs = t.needs /\ sv'.handle = t.handle
         /\ sv'.deferred = t.deferred
         /\ \/ /\ t.ask = <<>> /\ t.deferred = s.deferred /\ toMom' = toMom
            \/ /\ t.ask # <<>> /\ t.deferred = s.deferred + 1 /\ s.handle # "stale"
               /\ Num(toMom', Requests) = Num(toMom, Requests) + 1
               /\ toMom \in Seq(Fitting(t)) => toMom' \in Seq(Fitting(t))
<1>1. toMom \in Seq(Message) /\ Num(toMom, Requests) \in Nat
  BY NumNat DEF IInv, TypeOK
<1>2. sv' = [t EXCEPT !.ask = <<>>] /\ toMom' = toMom \o Asks(t.ask)
  BY DEF Write, Asks
<1>3. /\ sv' \in ServerType /\ sv'.ss = t.ss /\ sv'.needs = t.needs /\ sv'.handle = t.handle
      /\ sv'.deferred = t.deferred
  <2>1. <<>> \in Seq(Request)
    OBVIOUS
  <2> QED
    BY <1>2, <2>1 DEF ServerType
<1>4. CASE t.ask = <<>> /\ t.deferred = s.deferred
  <2>1. Asks(t.ask) = <<>>
    BY <1>4 DEF Asks
  <2>2. toMom' = toMom
    BY <1>1, <1>2, <2>1
  <2> QED
    BY <1>3, <1>4, <2>2
<1>5. ASSUME NEW r \in Request, t.ask = <<r>>, t.deferred = s.deferred + 1, Fits(t, r),
             s.handle # "stale"
      PROVE  /\ Num(toMom', Requests) = Num(toMom, Requests) + 1
             /\ toMom \in Seq(Fitting(t)) => toMom' \in Seq(Fitting(t))
  <2> DEFINE a == [k |-> "Ask", r |-> r]
             w == <<a>>
  <2>1. a \in Message /\ a \in Requests /\ a \in Fitting(t)
    BY <1>5 DEF Message, Requests, Fitting
  <2>2. Asks(t.ask) = w
    BY <1>5 DEF Asks
  <2> HIDE DEF a
  <2>3. w \in Seq(Message) /\ w \in Seq(Fitting(t))
    BY <2>1
  <2>4. Num(w, Requests) = 1
    BY <2>1, NumOne
  <2> HIDE DEF w
  <2>5. Num(toMom', Requests) = Num(toMom, Requests) + 1
    BY <1>1, <1>2, <2>2, <2>3, <2>4, NumConcat
  <2>6. ASSUME toMom \in Seq(Fitting(t)) PROVE toMom' \in Seq(Fitting(t))
    BY <1>2, <2>2, <2>3, <2>6
  <2> QED
    BY <2>5, <2>6
<1>6. CASE t.ask # <<>>
  <2>1. PICK r \in Request : /\ t.ask = <<r>> /\ t.deferred = s.deferred + 1
                             /\ Fits(t, r) /\ s.handle # "stale"
    BY <1>6 DEF MovesOn
  <2> QED
    BY <1>3, <1>5, <1>6, <2>1
<1>7. ASSUME t.ask = <<>> PROVE t.deferred = s.deferred
  <2>1. \A r \in Request : <<r>> # <<>>
    OBVIOUS
  <2> QED
    BY <1>7, <2>1 DEF MovesOn
<1> QED
  BY <1>4, <1>6, <1>7

\* What a task or an answer must show: s is the job as it was connected, t what the
\* routine makes of it.
LEMMA WriteDrive ==
  ASSUME IInv, IInv', Drive, sv.ss \in Exiting, link' = "up", mom' = mom,
         NEW s, NEW t \in ServerType, NEW must, s.deferred \in Nat,
         s.ss = sv.ss, s.needs = sv.needs, Moves(s, t, must), Write(t),
         s.handle = "stale" => s.deferred = 0,
         Owes(toMom, toSvr', mom) <= s.deferred,
         ~Alive(mom) => /\ Covers(sv) /\ s.handle # "stale"
                        /\ must \/ s.deferred > Num(toSvr', {TryAgain})
  PROVE  Drive'
<1>1. CASE t.ss \in Left
  <2>1. sv'.ss = t.ss
    BY DEF Write, ServerType
  <2> QED
    BY <1>1, <2>1, LeftDrive
<1>2. CASE t.ss \notin Left
  <2>1. /\ MovesOn(s, t) /\ t.ss \in Exiting /\ t.needs = sv.needs /\ t.handle = s.handle
        /\ t.ss = "RERUN" => sv.ss = "RERUN"
        /\ sv.ss \in FinalStages => t.ss \in FinalStages
        /\ must /\ s.handle # "stale" => t.ask # <<>>
    BY <1>2 DEF Moves, MovesOn
  <2>2. /\ sv'.ss = t.ss /\ sv'.needs = t.needs /\ sv'.handle = t.handle
        /\ sv'.deferred = t.deferred
        /\ \/ /\ t.ask = <<>> /\ t.deferred = s.deferred /\ toMom' = toMom
           \/ /\ t.ask # <<>> /\ t.deferred = s.deferred + 1 /\ s.handle # "stale"
              /\ Num(toMom', Requests) = Num(toMom, Requests) + 1
              /\ toMom \in Seq(Fitting(t)) => toMom' \in Seq(Fitting(t))
    BY <2>1, WriteCounts
  <2>3. /\ Num(toMom, Requests) \in Nat /\ Num(toSvr', Replies) \in Nat /\ mom.kids \in Nat
        /\ Num(toSvr', {TryAgain}) \in Nat /\ Working(mom) \in {0, 1}
        /\ Num(toSvr', {TryAgain}) <= Num(toSvr', Replies) /\ t.deferred \in Nat
    <3>1. /\ toMom \in Seq(Message) /\ toSvr' \in Seq(Message) /\ mom \in MomType
      BY DEF IInv, TypeOK
    <3> QED
      BY <3>1, OwesNat DEF ServerType
  <2>4. sv'.ss # "RUNNING" /\ sv'.ss \notin Left
    BY <2>1, <2>2 DEF Exiting, ExitStages, RerunStages, Left
  <2>5. Streams' /\ Unended'
    BY <2>1, <2>2, <2>4 DEF Streams, Unended
  <2>6. Paired'
    <3>1. Owes(toMom', toSvr', mom) <= t.deferred
      <4>1. Owes(toMom, toSvr', mom) <= s.deferred
        OBVIOUS
      <4>2. CASE toMom' = toMom /\ t.deferred = s.deferred
        BY <4>1, <4>2
      <4>3. CASE /\ t.deferred = s.deferred + 1
                 /\ Num(toMom', Requests) = Num(toMom, Requests) + 1
        BY <2>3, <4>1, <4>3 DEF Owes
      <4> QED
        BY <2>2, <4>2, <4>3
    <3> QED
      BY <2>2, <3>1 DEF Paired
  <2>7. AllFit' /\ (Covers(sv) => Covers(sv'))
    <3>1. Fitting(sv) \subseteq Fitting(sv') /\ (Covers(sv) => Covers(sv'))
      BY <2>1, <2>2, FittingMoves
    <3>2. toMom \in Seq(Fitting(sv)) => toMom \in Seq(Fitting(sv'))
      BY <3>1, SeqWiden
    <3>3. Fitting(sv') = Fitting(t)
      BY <2>2 DEF Fitting, Fits
    <3> QED
      BY <2>2, <3>1, <3>2, <3>3 DEF Drive, AllFit
  <2>8. Pursued'
    <3> SUFFICES ASSUME ~Alive(mom) PROVE Pursues(sv', toSvr')
      BY DEF Pursued
    <3>1. Covers(sv') /\ sv'.handle # "stale"
      BY <2>1, <2>2, <2>7
    <3>2. sv'.deferred > Num(toSvr', {TryAgain})
      <4>1. CASE must
        <5>1. t.deferred = s.deferred + 1
          BY <2>1, <2>2, <4>1
        <5> QED
          BY <2>2, <2>3, <5>1 DEF Owes
      <4>2. CASE s.deferred > Num(toSvr', {TryAgain})
        BY <2>2, <2>3, <4>2
      <4> QED
        BY <4>1, <4>2
    <3> QED
      BY <3>1, <3>2 DEF Pursues
  <2> QED
    BY <2>5, <2>6, <2>7, <2>8 DEF Drive
<1> QED
  BY <1>1, <1>2

\* Connecting the job to the MoM.
LEMMA ConnectedParts ==
  ASSUME NEW s \in ServerType
  PROVE  LET c == Connected(s)
         IN  /\ c.needs = s.needs /\ c.deferred = s.deferred /\ c.ss = s.ss /\ c.ask = s.ask
             /\ c.handle = "stale" <=> s.handle = "stale"
BY DEF Connected, ServerType

\* A work task is dispatched.
LEMMA dispatchDrive ==
  ASSUME IInv, IInv', Drive, sv.ss \notin Left, NEW field \in {"immed", "timed"}, dispatch(field)
  PROVE  Drive'
<1> DEFINE s == [sv EXCEPT ![field] = @ - 1]
           c == Connected(s)
<1>1. sv \in ServerType /\ sv[field] \in Nat \ {0} /\ sv.ss \in Exiting
  BY DEF dispatch, IInv, TypeOK, ServerType, NothingEarly
<1>2. /\ s \in ServerType /\ s.ss = sv.ss /\ s.needs = sv.needs /\ s.handle = sv.handle
      /\ s.deferred = sv.deferred /\ s.ask = <<>> /\ s.immed + s.timed = sv.immed + sv.timed - 1
  BY <1>1 DEF ServerType, IInv, AllWritten
<1>3. Write(mom_comm(s, First(c))) /\ mom' = mom /\ toSvr' = toSvr /\ link' = link
  BY DEF dispatch
<1> HIDE DEF s
<1>4. CASE link = "up"
  <2>1. /\ c \in ServerType /\ c.needs = sv.needs /\ c.deferred = sv.deferred /\ c.ss = sv.ss
        /\ c.ask = <<>> /\ (c.handle = "stale" <=> sv.handle = "stale")
    BY <1>2, ConnectProceeds, ConnectedParts
  <2> HIDE DEF c
  <2>2. Moves(c, First(c), Covers(c)) /\ First(c) \in ServerType
    <3>1. c.ss # "RUNNING"
      BY <1>1, <2>1 DEF Exiting, ExitStages, RerunStages
    <3> QED
      BY <1>1, <2>1, <3>1, FirstMoves, FirstProceeds DEF Proceeds
  <2>3. Write(First(c))
    BY <1>3, <1>4 DEF mom_comm
  <2>4. /\ c.deferred \in Nat /\ Owes(toMom, toSvr', mom) <= c.deferred
        /\ c.handle = "stale" => c.deferred = 0
    BY <1>1, <1>3, <2>1 DEF Drive, Paired, Streams, ServerType
  <2>5. ~Alive(mom) => Covers(sv) /\ c.handle # "stale" /\ Covers(c)
    BY <1>1, <2>1 DEF Drive, Pursued, Pursues, Covers
  <2> QED
    BY <1>1, <1>3, <1>4, <2>1, <2>2, <2>3, <2>4, <2>5, WriteDrive
<1>5. CASE link # "up"
  <2> DEFINE u == Unreachable(s)
  <2>1. /\ u \in ServerType /\ u.ss = sv.ss /\ u.needs = sv.needs /\ u.handle = sv.handle
        /\ u.deferred = sv.deferred /\ u.ask = <<>>
        /\ sv.handle = "none" => u.immed + u.timed = sv.immed + sv.timed
    <3>1. CASE s.handle # "none"
      BY <1>2, <3>1 DEF Unreachable
    <3>2. CASE s.handle = "none"
      <4>1. u = Later(s)
        BY <3>2 DEF Unreachable
      <4>2. /\ Later(s) \in ServerType /\ Later(s).ss = s.ss /\ Later(s).needs = s.needs
            /\ Later(s).handle = s.handle /\ Later(s).deferred = s.deferred
            /\ Later(s).ask = s.ask /\ Later(s).immed = s.immed /\ Later(s).timed = s.timed + 1
        BY <1>2 DEF Later, ServerType
      <4>3. s.immed \in Nat /\ s.timed \in Nat /\ sv.immed \in Nat /\ sv.timed \in Nat
        BY <1>1, <1>2 DEF ServerType
      <4> QED
        BY <1>2, <4>1, <4>2, <4>3
    <3> QED
      BY <3>1, <3>2
  <2>2. Write(u)
    BY <1>3, <1>5 DEF mom_comm
  <2> HIDE DEF u
  <2>3. sv' = u /\ toMom' = toMom
    <3>1. sv' = [u EXCEPT !.ask = <<>>] /\ toMom' = toMom \o Asks(u.ask)
      BY <2>2 DEF Write, Asks
    <3>2. Asks(u.ask) = <<>>
      BY <2>1 DEF Asks
    <3>3. [u EXCEPT !.ask = <<>>] = u
      BY <2>1 DEF ServerType
    <3>4. toMom \in Seq(Message)
      BY DEF IInv, TypeOK
    <3> QED
      BY <3>1, <3>2, <3>3, <3>4
  <2>4. sv.deferred = 0 /\ sv.handle # "live" /\ Streams' /\ Unended' /\ Paired'
    BY <1>1, <1>3, <1>5, <2>1, <2>3 DEF Drive, Streams, Unended, Paired
  <2>5. AllFit'
    <3>1. Fitting(sv') = Fitting(sv)
      BY <2>1, <2>3 DEF Fitting, Fits
    <3> QED
      BY <1>1, <2>3, <3>1 DEF Drive, AllFit
  <2>6. Pursued'
    <3> SUFFICES ASSUME ~Alive(mom) PROVE Pursues(sv', toSvr')
      BY <1>3 DEF Pursued
    <3>1. Pursues(sv, toSvr)
      BY <1>1 DEF Drive, Pursued
    <3>2. Num(toSvr, {TryAgain}) \in Nat
      BY NumNat DEF IInv, TypeOK
    <3>3. Covers(sv) /\ sv.handle = "none" /\ sv.immed + sv.timed > 0
      BY <2>4, <3>1, <3>2 DEF Pursues
    <3>4. Covers(sv')
      BY <2>1, <2>3, <3>3 DEF Covers
    <3> QED
      BY <2>1, <2>3, <2>4, <3>3, <3>4 DEF Pursues
  <2> QED
    BY <2>4, <2>5, <2>6 DEF Drive
<1> QED
  BY <1>4, <1>5

\* The server reads a message.
LEMMA ReadCounts ==
  ASSUME IInv, NEW kind, Read(kind)
  PROVE  /\ Num(toSvr, Replies) = Num(toSvr', Replies) + (IF kind = "Reply" THEN 1 ELSE 0)
         /\ kind # "Reply" => Num(toSvr, {TryAgain}) = Num(toSvr', {TryAgain})
         /\ kind = "Reply" /\ Head(toSvr).code = "TRYAGAIN" =>
              Num(toSvr, {TryAgain}) = Num(toSvr', {TryAgain}) + 1
<1>1. /\ toSvr \in Seq(Message) /\ toSvr # <<>> /\ Head(toSvr) \in Message
      /\ toSvr' = Tail(toSvr) /\ Head(toSvr).k = kind /\ Tail(toSvr) \in Seq(Message)
  BY DEF Read, IInv, TypeOK
<1>2. /\ Head(toSvr) \in Replies <=> kind = "Reply"
      /\ kind # "Reply" => Head(toSvr) \notin {TryAgain}
      /\ kind = "Reply" /\ Head(toSvr).code = "TRYAGAIN" => Head(toSvr) \in {TryAgain}
  <2>1. Head(toSvr) \in Replies <=> kind = "Reply"
    BY <1>1 DEF Replies
  <2>2. TryAgain.k = "Reply"
    BY DEF TryAgain
  <2>3. ASSUME NEW m \in Message, m.k = "Reply", m.code = "TRYAGAIN" PROVE m = TryAgain
    <3>1. m \in [k : {"Reply"}, code : {"done", "TRYAGAIN"}]
      BY <2>3 DEF Message
    <3> QED
      BY <2>3, <3>1 DEF TryAgain
  <2> QED
    BY <1>1, <2>1, <2>2, <2>3
<1>3. /\ Num(toSvr, Replies) = Num(toSvr', Replies) + (IF Head(toSvr) \in Replies THEN 1 ELSE 0)
      /\ Num(toSvr, {TryAgain})
           = Num(toSvr', {TryAgain}) + (IF Head(toSvr) \in {TryAgain} THEN 1 ELSE 0)
  BY <1>1, NumTail
<1>4. Num(toSvr', {TryAgain}) \in Nat
  BY <1>1, NumNat
<1> QED
  BY <1>2, <1>3, <1>4

\* An answer comes in.
LEMMA process_DreplyRPP_Drive ==
  ASSUME IInv, IInv', Drive, sv.ss \notin Left, process_DreplyRPP
  PROVE  Drive'
<1> DEFINE code == Head(toSvr).code
           s == [sv EXCEPT !.deferred = @ - 1]
           c == Connected(s)
<1>1. /\ code \in {"done", "TRYAGAIN"} /\ Read("Reply") /\ mom' = mom /\ link' = link
  BY ReadOK, MessageParts DEF process_DreplyRPP
<1>2. /\ Num(toSvr, Replies) = Num(toSvr', Replies) + 1
      /\ code = "TRYAGAIN" => Num(toSvr, {TryAgain}) = Num(toSvr', {TryAgain}) + 1
  BY <1>1, ReadCounts
<1>3. /\ Num(toMom, Requests) \in Nat /\ Num(toSvr, Replies) \in Nat /\ mom.kids \in Nat
      /\ Num(toSvr', Replies) \in Nat /\ Num(toSvr', {TryAgain}) \in Nat
      /\ Num(toSvr, {TryAgain}) \in Nat /\ Working(mom) \in {0, 1} /\ sv.deferred \in Nat
  BY OwesNat DEF IInv, TypeOK, ServerType
<1>4. Owes(toMom, toSvr, mom) <= sv.deferred /\ sv \in ServerType
  BY DEF Drive, Paired, IInv, TypeOK
<1> HIDE DEF code
<1>5. sv.deferred > 0 /\ Owes(toMom, toSvr', mom) <= sv.deferred - 1
  BY <1>2, <1>3, <1>4 DEF Owes
<1>6. sv.ss \in Exiting /\ link = "up" /\ sv.handle # "stale"
  <2>1. sv.deferred # 0
    BY <1>3, <1>5
  <2> QED
    BY <1>4, <2>1 DEF Drive, Streams, IInv, NothingEarly, ServerType
<1>7. /\ s \in ServerType /\ s.ss = sv.ss /\ s.needs = sv.needs /\ s.handle = sv.handle
      /\ s.deferred = sv.deferred - 1 /\ s.ask = <<>>
  <2>1. sv.deferred - 1 \in Nat
    BY <1>3, <1>5
  <2> QED
    BY <1>4, <2>1 DEF ServerType, IInv, AllWritten
<1>8. Write(Answered(c, code))
  <2>1. sv.deferred # 0
    BY <1>3, <1>5
  <2> QED
    BY <1>6, <2>1 DEF process_DreplyRPP, mom_comm, code
<1> HIDE DEF s
<1>9. /\ c \in ServerType /\ c.needs = sv.needs /\ c.deferred = sv.deferred - 1 /\ c.ss = sv.ss
      /\ c.ask = <<>> /\ c.handle # "stale"
  BY <1>6, <1>7, ConnectProceeds, ConnectedParts
<1> HIDE DEF c
<1>10. Moves(c, Answered(c, code), Covers(c) /\ code = "done") /\ Answered(c, code) \in ServerType
  <2>1. c.ss # "RUNNING"
    BY <1>6, <1>9 DEF Exiting, ExitStages, RerunStages
  <2> QED
    BY <1>1, <1>6, <1>9, <2>1, AnsweredMoves, AnsweredProceeds DEF Proceeds
<1>11. ~Alive(mom) => /\ Covers(sv) /\ c.handle # "stale"
                      /\ (Covers(c) /\ code = "done") \/ c.deferred > Num(toSvr', {TryAgain})
  <2> SUFFICES ASSUME ~Alive(mom)
               PROVE  /\ Covers(sv)
                      /\ (Covers(c) /\ code = "done") \/ c.deferred > Num(toSvr', {TryAgain})
    BY <1>9
  <2>1. Covers(sv) /\ sv.deferred > Num(toSvr, {TryAgain})
    BY <1>3, <1>5, <1>6 DEF Drive, Pursued, Pursues
  <2>2. Covers(c)
    BY <1>9, <2>1 DEF Covers
  <2>3. CASE code = "TRYAGAIN"
    BY <1>2, <1>3, <1>9, <2>1, <2>3
  <2> QED
    BY <1>1, <2>1, <2>2, <2>3
<1>12. c.deferred \in Nat /\ Owes(toMom, toSvr', mom) <= c.deferred /\ link' = "up"
  BY <1>1, <1>3, <1>5, <1>6, <1>9
<1> QED
  BY <1>1, <1>6, <1>8, <1>9, <1>10, <1>11, <1>12, WriteDrive

\* What is under way when a message that is no answer is read.
LEMMA ReadOwes ==
  ASSUME IInv, IInv', NEW kind, Read(kind), kind # "Reply", mom' = mom,
         Num(toMom', Requests) = Num(toMom, Requests)
  PROVE  /\ Owes(toMom', toSvr', mom') = Owes(toMom, toSvr, mom)
         /\ Num(toSvr', {TryAgain}) = Num(toSvr, {TryAgain})
<1>1. /\ Num(toSvr, Replies) = Num(toSvr', Replies) + 0
      /\ Num(toSvr, {TryAgain}) = Num(toSvr', {TryAgain})
  BY ReadCounts
<1>2. Num(toSvr', Replies) \in Nat
  BY OwesNat DEF IInv, TypeOK
<1> QED
  BY <1>1, <1>2 DEF Owes

\* An obituary ends the run or restarts end processing: a job that runs for the server
\* is still in OBIT at the MoM.
LEMMA job_obit_Drive ==
  ASSUME IInv, IInv', Drive, sv.ss \notin Left, job_obit
  PROVE  Drive'
<1> DEFINE h == [sv EXCEPT !.handle = "none"]
           fresh == Immediately(h)
<1>1. /\ Read("JOBOBIT") /\ mom' = mom /\ link' = link /\ sv \in ServerType
      /\ Head(toSvr).stat \in Statuses \cup {"INITABT"} /\ ~No(toSvr, {"JOBOBIT"})
  BY ReadOK, MessageParts DEF job_obit, IInv, TypeOK
<1>2. /\ fresh \in ServerType /\ fresh.ss = sv.ss /\ fresh.needs = sv.needs
      /\ fresh.handle = "none" /\ fresh.deferred = sv.deferred
      /\ fresh.immed + fresh.timed > 0
  <2>1. /\ h \in ServerType /\ h.ss = sv.ss /\ h.needs = sv.needs /\ h.handle = "none"
        /\ h.deferred = sv.deferred
    BY <1>1 DEF ServerType
  <2> HIDE DEF h
  <2>2. /\ fresh \in ServerType /\ fresh.ss = h.ss /\ fresh.needs = h.needs
        /\ fresh.handle = h.handle /\ fresh.deferred = h.deferred
        /\ fresh.immed = h.immed + 1 /\ fresh.timed = h.timed
    BY <2>1 DEF Immediately, ServerType
  <2>3. h.immed \in Nat /\ h.timed \in Nat
    BY <2>1 DEF ServerType
  <2> QED
    BY <2>1, <2>2, <2>3
<1>3. Owes(toMom, toSvr, mom) <= sv.deferred
  BY DEF Drive, Paired
<1>4. CASE sv.ss \in Exiting
  <2>1. sv' = fresh /\ toMom' = toMom
    BY <1>4 DEF job_obit, Left, Exiting, ExitStages, RerunStages
  <2> HIDE DEF fresh
  <2>2. /\ Owes(toMom', toSvr', mom') = Owes(toMom, toSvr, mom)
        /\ Num(toSvr', {TryAgain}) = Num(toSvr, {TryAgain})
    BY <1>1, <2>1, ReadOwes
  <2>3. Streams' /\ Unended' /\ Paired'
    BY <1>1, <1>2, <1>3, <2>1, <2>2 DEF Drive, Streams, Unended, Paired
  <2>4. AllFit'
    <3>1. Fitting(sv') = Fitting(sv)
      BY <1>2, <2>1 DEF Fitting, Fits
    <3> QED
      BY <1>4, <2>1, <3>1 DEF Drive, AllFit
  <2>5. Pursued'
    <3> SUFFICES ASSUME ~Alive(mom) PROVE Pursues(sv', toSvr')
      BY <1>1 DEF Pursued
    <3>1. Pursues(sv, toSvr)
      BY <1>4 DEF Drive, Pursued
    <3>2. Covers(sv')
      BY <1>2, <2>1, <3>1 DEF Pursues, Covers
    <3> QED
      BY <1>2, <2>1, <2>2, <3>1, <3>2 DEF Pursues
  <2> QED
    BY <2>3, <2>4, <2>5 DEF Drive
<1>5. CASE sv.ss = "RUNNING"
  <2>1. /\ toMom' = toMom
        /\ \E ss \in ObitSubstates(Head(toSvr).stat) : sv' = At(fresh, ss)
    BY <1>5 DEF job_obit, Left, Exiting, ExitStages, RerunStages
  <2>2. PICK ss \in {"EXITING", "RERUN", "RERUN2"} : sv' = At(fresh, ss)
    BY <1>1, <2>1, EndAssumption DEF ObitSubstates
  <2> HIDE DEF fresh
  <2>3. sv'.ss = ss /\ sv'.handle = "none" /\ sv'.deferred = 0 /\ sv.deferred = 0
    <3>1. sv.deferred = 0
      BY <1>5 DEF IInv, NothingEarly
    <3> QED
      BY <1>2, <2>2, <3>1 DEF At, ServerType
  <2>4. Alive(mom') /\ sv'.ss # "RUNNING"
    BY <1>1, <1>5, <2>3 DEF Drive, Unended, IInv, MomUndisturbed, Alive
  <2>5. Owes(toMom', toSvr', mom') = Owes(toMom, toSvr, mom)
    BY <1>1, <2>1, ReadOwes
  <2>6. Streams' /\ Unended' /\ Paired' /\ Pursued'
    BY <1>3, <2>3, <2>4, <2>5 DEF Streams, Unended, Paired, Pursued
  <2>7. AllFit'
    <3>1. /\ toMom \in Seq(Message) /\ No(toMom, {"Ask", "BADOBIT", "DISCARD_JOB"})
      BY <1>5 DEF IInv, TypeOK, NothingEarly
    <3>2. \A i \in 1..Len(toMom) : toMom[i] \in Fitting(sv')
      BY <3>1 DEF No, Fitting
    <3>3. Len(toMom) \in Nat /\ toMom \in [1..Len(toMom) -> Fitting(sv')]
      BY <3>1, <3>2
    <3>4. toMom \in Seq(Fitting(sv'))
      BY <3>3
    <3> QED
      BY <2>1, <3>4 DEF AllFit
  <2> QED
    BY <2>6, <2>7 DEF Drive
<1> QED
  BY <1>1, <1>4, <1>5 DEF ServerType

\* The MoM greets the server.
LEMMA is_hello4_Drive ==
  ASSUME IInv, IInv', Drive, sv.ss \notin Left, is_hello4
  PROVE  Drive'
<1> DEFINE a == [k |-> "CLUSTER_ADDRS"]
           w == <<a>>
<1>1. /\ Read("HELLO4") /\ UNCHANGED <<sv, mom, link>> /\ toMom \in Seq(Message)
      /\ toMom' = toMom \o <<>> \o w
  BY DEF is_hello4, IInv, TypeOK
<1>2. a \in Message /\ a \notin Requests /\ a \in Fitting(sv)
  BY ServerMessages DEF Requests, Fitting
<1> HIDE DEF a
<1>3. w \in Seq(Message) /\ w \in Seq(Fitting(sv))
  BY <1>2
<1>4. Num(w, Requests) = 0
  BY <1>2, NumOne
<1> HIDE DEF w
<1>5. toMom' = toMom \o w
  <2>1. toMom \o <<>> = toMom
    BY <1>1
  <2> QED
    BY <1>1, <2>1, Zenon
<1>6. Num(toMom', Requests) = Num(toMom, Requests)
  <2>1. Num(toMom, Requests) \in Nat
    BY <1>1, NumNat
  <2>2. Num(toMom \o w, Requests) = Num(toMom, Requests) + Num(w, Requests)
    BY <1>1, <1>3, NumConcat
  <2> QED
    BY <1>4, <1>5, <2>1, <2>2
<1>7. ASSUME toMom \in Seq(Fitting(sv)) PROVE toMom' \in Seq(Fitting(sv))
  BY <1>3, <1>5, <1>7
<1>8. /\ Owes(toMom', toSvr', mom') = Owes(toMom, toSvr, mom)
      /\ Num(toSvr', {TryAgain}) = Num(toSvr, {TryAgain})
  BY <1>1, <1>6, ReadOwes
<1>9. /\ Owes(toMom', toSvr', mom') <= Owes(toMom, toSvr, mom)
      /\ Num(toSvr', {TryAgain}) <= Num(toSvr, {TryAgain})
  <2>1. Owes(toMom, toSvr, mom) \in Nat /\ Num(toSvr, {TryAgain}) \in Nat
    BY OwesNat DEF IInv, TypeOK
  <2> QED
    BY <1>8, <2>1
<1>10. sv.ss = "RUNNING" => mom'.ss \in {"RUNNING", "OBIT"}
  BY <1>1 DEF Drive, Unended
<1> QED
  BY <1>1, <1>7, <1>9, <1>10, KeepDrive

\* The MoM is up, or has discarded the job.
LEMMA is_mom_ready_Drive ==
  ASSUME IInv, IInv', Drive, is_mom_ready \/ is_discard_done
  PROVE  Drive'
<1>1. PICK kind \in {"MOM_READY", "DISCARD_DONE"} : Read(kind)
  BY DEF is_mom_ready, is_discard_done
<1>2. UNCHANGED <<sv, mom, toMom>> /\ (link = "up" => link' = "up")
  BY DEF is_mom_ready, is_discard_done
<1>3. /\ Owes(toMom', toSvr', mom') = Owes(toMom, toSvr, mom)
      /\ Num(toSvr', {TryAgain}) = Num(toSvr, {TryAgain})
  BY <1>1, <1>2, ReadOwes
<1>4. /\ Owes(toMom', toSvr', mom') <= Owes(toMom, toSvr, mom)
      /\ Num(toSvr', {TryAgain}) <= Num(toSvr, {TryAgain})
  <2>1. Owes(toMom, toSvr, mom) \in Nat /\ Num(toSvr, {TryAgain}) \in Nat
    BY OwesNat DEF IInv, TypeOK
  <2> QED
    BY <1>3, <2>1
<1>5. sv.ss = "RUNNING" => mom'.ss \in {"RUNNING", "OBIT"}
  BY <1>2 DEF Drive, Unended
<1> QED
  BY <1>2, <1>4, <1>5, KeepDrive

\* The stream breaks: a task is left for every request that waited.
LEMMA stream_eof_Drive ==
  ASSUME IInv, IInv', Drive, sv.ss \notin Left, stream_eof
  PROVE  Drive'
<1>1. /\ link' = "down" /\ toMom' = <<>> /\ toSvr' = <<>> /\ sv' = EofToAll(sv)
      /\ mom' = [mom EXCEPT !.preq = FALSE, !.kids = 0] /\ sv \in ServerType /\ mom \in MomType
  BY DEF stream_eof, IInv, TypeOK
<1>2. /\ mom'.ss = mom.ss /\ mom'.post = mom.post /\ mom'.kids = 0 /\ mom'.preq = FALSE
  BY <1>1 DEF MomType
<1>3. Working(mom') = 0 /\ (Alive(mom') <=> Alive(mom))
  BY <1>2 DEF Working, Alive
<1>4. Num(toMom', Requests) = 0 /\ Num(toSvr', Replies) = 0 /\ Num(toSvr', {TryAgain}) = 0
  BY <1>1, NumOne, MomMessages
<1>5. Owes(toMom', toSvr', mom') = 0
  BY <1>2, <1>3, <1>4 DEF Owes
<1>6. /\ sv'.ss = sv.ss /\ sv'.needs = sv.needs /\ sv'.deferred = 0 /\ sv'.handle # "live"
      /\ sv.deferred > 0 /\ sv.ss \in Exiting => sv'.handle = "none" /\ sv'.immed + sv'.timed > 0
      /\ sv.deferred = 0 /\ sv.handle = "none" =>
           sv'.handle = "none" /\ sv'.immed = sv.immed /\ sv'.timed = sv.timed
  <2>1. CASE sv.deferred > 0 /\ sv.ss \in Exiting
    <3>1. sv' = [sv EXCEPT !.handle = "none", !.immed = @ + sv.deferred, !.deferred = 0]
      BY <1>1, <2>1 DEF EofToAll
    <3>2. sv.immed \in Nat /\ sv.deferred \in Nat /\ sv.timed \in Nat
      BY <1>1 DEF ServerType
    <3>3. /\ sv'.ss = sv.ss /\ sv'.needs = sv.needs /\ sv'.deferred = 0 /\ sv'.handle = "none"
          /\ sv'.immed = sv.immed + sv.deferred /\ sv'.timed = sv.timed
      BY <1>1, <3>1 DEF ServerType
    <3> QED
      BY <2>1, <3>2, <3>3
  <2>2. CASE sv.deferred > 0 /\ sv.ss \notin Exiting
    BY <1>1, <2>2 DEF EofToAll, ServerType
  <2>3. CASE sv.deferred = 0
    <3>1. sv' = [sv EXCEPT !.handle = IF @ = "live" THEN "stale" ELSE @]
      BY <1>1, <2>3 DEF EofToAll
    <3> QED
      BY <1>1, <2>3, <3>1 DEF ServerType
  <2> QED
    BY <1>1, <2>1, <2>2, <2>3 DEF ServerType
<1>7. Streams' /\ Paired'
  BY <1>5, <1>6 DEF Streams, Paired
<1>8. Unended'
  BY <1>2, <1>6 DEF Drive, Unended
<1>9. AllFit'
  <2>1. <<>> \in Seq(Fitting(sv'))
    OBVIOUS
  <2> QED
    BY <1>1, <2>1 DEF AllFit
<1>10. Pursued'
  <2> SUFFICES ASSUME sv.ss \in Exiting, ~Alive(mom) PROVE Pursues(sv', toSvr')
    BY <1>3, <1>6 DEF Pursued
  <2>1. Pursues(sv, toSvr)
    BY DEF Drive, Pursued
  <2>2. Covers(sv')
    BY <1>6, <2>1 DEF Pursues, Covers
  <2>3. sv'.handle = "none" /\ sv'.immed + sv'.timed > 0
    <3>1. sv.deferred \in Nat /\ Num(toSvr, {TryAgain}) \in Nat
      BY NumNat DEF IInv, TypeOK, ServerType
    <3>2. CASE sv.deferred > 0
      BY <1>6, <3>2
    <3>3. CASE sv.deferred = 0
      <4>1. sv.handle = "none" /\ sv.immed + sv.timed > 0
        BY <2>1, <3>1, <3>3 DEF Pursues
      <4> QED
        BY <1>6, <3>3, <4>1
    <3> QED
      BY <3>1, <3>2, <3>3
  <2> QED
    BY <1>6, <2>2, <2>3 DEF Pursues
<1> QED
  BY <1>7, <1>8, <1>9, <1>10 DEF Drive

\* The timer of a MoM that is down, which may end the run.
LEMMA node_down_Drive ==
  ASSUME IInv, IInv', Drive, momptr_down_again \/ node_down_requeue
  PROVE  Drive'
<1>1. UNCHANGED <<mom, toMom, toSvr, link>>
  BY DEF momptr_down_again, node_down_requeue
<1>2. CASE sv' = sv
  BY <1>1, <1>2 DEF Drive, Streams, Unended, Paired, AllFit, Pursued
<1>3. CASE sv' = force_reque(At(sv, "RERUN3"))
  <2>1. At(sv, "RERUN3") \in ServerType
    BY DEF At, ServerType, IInv, TypeOK, Exiting, RerunStages
  <2> QED
    BY <1>3, <2>1, RequeueType, LeftDrive DEF Left
<1>4. CASE sv' = job_purge(rel_resc(sv))
  BY <1>4, PurgeType, LeftDrive DEF IInv, TypeOK, Left
<1> QED
  BY <1>2, <1>3, <1>4, Zenon DEF momptr_down_again, node_down_requeue

-----------------------------------------------------------------------------
\* Every step keeps the invariant.
LEMMA NextDrive ==
  ASSUME Chained, IInv, Drive, [Next]_vars
  PROVE  Drive'
<1>1. IInv' /\ Refines
  BY NextOK
<1>2. CASE sv.ss \in Left
  BY <1>1, <1>2, LeftStays, LeftDrive
<1>3. CASE sv.ss \notin Left
  <2>1. CASE dispatch_immed \/ dispatch_timed
    BY <1>1, <1>3, <2>1, dispatchDrive DEF dispatch_immed, dispatch_timed
  <2>2. CASE ServerStep /\ ~dispatch_immed /\ ~dispatch_timed
    BY <1>1, <1>3, <2>2, process_DreplyRPP_Drive, job_obit_Drive, is_hello4_Drive,
       is_mom_ready_Drive DEF ServerStep
  <2>3. CASE MomStep
    BY <1>1, <2>3, ObituaryDrive, PostDrive, req_rerunjob_Drive, post_nojob_Drive,
       req_cpyfile_Drive, req_delfile_Drive, req_deletejob_Drive, DropDrive,
       is_cluster_addrs_Drive, reply_hello4_Drive DEF MomStep
  <2>4. CASE stream_eof \/ momptr_down_again \/ node_down_requeue \/ init_abort_jobs
    BY <1>1, <1>3, <2>4, stream_eof_Drive, node_down_Drive, init_abort_jobs_Drive
  <2>5. CASE UNCHANGED vars
    BY <2>5 DEF vars, Drive, Streams, Unended, Paired, AllFit, Pursued
  <2> QED
    BY <2>1, <2>2, <2>3, <2>4, <2>5 DEF Next
<1> QED
  BY <1>2, <1>3

\* Initially nothing is under way.
LEMMA InitDrive == Init => Drive
<1> SUFFICES ASSUME Init PROVE Drive
  OBVIOUS
<1>1. /\ sv.ss = "RUNNING" /\ sv.handle = "none" /\ sv.deferred = 0
  BY DEF Init
<1>2. /\ mom.ss = "RUNNING" /\ mom.kids = 0 /\ mom.preq = FALSE
  BY DEF Init
<1>3. toMom = <<>> /\ toSvr = <<>>
  BY DEF Init
<1>4. Num(toMom, Requests) = 0 /\ Num(toSvr, Replies) = 0 /\ Working(mom) = 0
  BY <1>2, <1>3, NumOne, MomMessages DEF Working
<1>5. Owes(toMom, toSvr, mom) = 0
  BY <1>2, <1>4 DEF Owes
<1>6. sv.ss \notin Exiting
  BY <1>1 DEF Exiting, ExitStages, RerunStages
<1> QED
  BY <1>1, <1>2, <1>5, <1>6 DEF Drive, Streams, Unended, Paired, AllFit, Pursued

\* End processing never stalls, however often the stream breaks and the MoM restarts, for
\* files that are deleted if they are copied and copied if they are returned, outside a
\* private sandbox: a job that is exiting has a task or an outstanding request, or its MoM
\* repeats the obituary or will (on_job_exit, on_job_rerun, job_obit, stream_eof and the
\* MoM's side of them).
THEOREM NeverStalls == ASSUME Chained PROVE Spec => []Driven
<1>1. Init => IInv /\ Drive
  BY InitOK, InitDrive
<1>2. IInv /\ Drive /\ [Next]_vars => (IInv /\ Drive)'
  BY NextOK, NextDrive
<1>3. IInv /\ Drive => Driven
  <2> SUFFICES ASSUME IInv, Drive, sv.ss \in Exiting, ~Alive(mom)
               PROVE  sv.immed + sv.timed + sv.deferred > 0
    BY DEF Driven, Alive
  <2>1. Pursues(sv, toSvr)
    BY DEF Drive, Pursued
  <2>2. /\ sv.immed \in Nat /\ sv.timed \in Nat /\ sv.deferred \in Nat
        /\ Num(toSvr, {TryAgain}) \in Nat
    BY NumNat DEF IInv, TypeOK, ServerType
  <2> QED
    BY <2>1, <2>2 DEF Pursues
<1> QED
  BY <1>1, <1>2, <1>3, PTL DEF Spec, Safe
=============================================================================
