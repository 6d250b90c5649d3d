---------------------------- MODULE Wanted_proof ----------------------------
(***************************************************************************)
(* The proof that no job runs before what its user asked for is met, and    *)
(* that none is aborted without a cause, as long as no job has been altered *)
(* or moved and nobody names "on" without a count.                          *)
(*                                                                          *)
(* What the requests of a job do to the others is summed up in two          *)
(* relations between the records before and after: Freed for those that    *)
(* tell of a start or an end, Enlisted for those that register.  Both are   *)
(* transitive, so that they hold of a whole list of requests if they hold   *)
(* of each one.                                                             *)
(***************************************************************************)
EXTENDS Matched_proof, FiniteSetTheorems

-----------------------------------------------------------------------------
(* Induction over the requests, for a set of records.                       *)

\* If no request to a job of the list leads out of G, the list does not.
LEMMA ListKeeps ==
  ASSUME NEW G, NEW s \in G, NEW j, NEW t, NEW ps, NEW caller,
         \A v \in G, p \in Jobs : p \in ps => send_depend_req(v, j, t, p, caller) \in G
  PROVE  SendToList(s, j, t, ps, caller) \in G
<1> DEFINE send(v, p) == send_depend_req(v, j, t, p, caller)
<1>0. N \in Nat
  BY DependAssumption
<1>1. \E r : Row(r, s, j, t, ps, caller, N)
  BY <1>0, RowExists
<1>2. PICK r : Row(r, s, j, t, ps, caller, N) /\ SendToList(s, j, t, ps, caller) = r[N]
  BY <1>1 DEF Row, SendToList
<1>3. r = [p \in 0..N |-> IF p = 0 THEN s ELSE IF p \in ps THEN send(r[p - 1], p) ELSE r[p - 1]]
  BY <1>2, Zenon DEF Row
<1>4. \A v \in G, p \in 1..N : p \in ps => send(v, p) \in G
  BY DEF Jobs
<1> DEFINE P == {p \in 0..N : r[p] \in G}
<1> HIDE DEF send
<1>5. r[0] = s /\ \A p \in 1..N : IF p \in ps THEN r[p] = send(r[p - 1], p) ELSE r[p] = r[p - 1]
  BY <1>0, <1>3
<1>6. 0 \in P
  BY <1>0, <1>5
<1>7. ASSUME NEW p \in 1..N, p - 1 \in P  PROVE p \in P
  BY <1>4, <1>5, <1>7
<1> HIDE DEF P
<1>8. 0..N \subseteq P
  BY <1>0, <1>6, <1>7, Induction
<1>9. N \in P
  BY <1>0, <1>8
<1> QED BY <1>2, <1>9 DEF P

\* Nor do all the lists.
LEMMA AllKeeps ==
  ASSUME NEW G, NEW s \in G, NEW j, NEW lists, NEW caller,
         \A v \in G, t \in 0..7, p \in Jobs : p \in lists[t] => send_depend_req(v, j, t, p, caller) \in G
  PROVE  SendToAll(s, j, lists, caller) \in G
<1> DEFINE send(v, t) == SendToList(v, j, t - 1, lists[t - 1], caller)
<1>1. \E r : Rows(r, s, j, lists, caller, 8)
  BY RowsExists
<1>2. PICK r : Rows(r, s, j, lists, caller, 8) /\ SendToAll(s, j, lists, caller) = r[8]
  BY <1>1 DEF Rows, SendToAll
<1>3. r = [t \in 0..8 |-> IF t = 0 THEN s ELSE send(r[t - 1], t)]
  BY <1>2, Zenon DEF Rows
<1>4. ASSUME NEW t \in 1..8, NEW v \in G  PROVE send(v, t) \in G
  <2> DEFINE i == t - 1
  <2>1. i \in 0..7
    OBVIOUS
  <2> HIDE DEF i
  <2>2. SendToList(v, j, i, lists[i], caller) \in G
    BY <2>1, ListKeeps
  <2> QED BY <2>2 DEF i
<1> DEFINE P == {t \in 0..8 : r[t] \in G}
<1> HIDE DEF send
<1>5. r[0] = s /\ \A t \in 1..8 : r[t] = send(r[t - 1], t)
  BY <1>3
<1>6. 0 \in P
  BY <1>5
<1>7. ASSUME NEW t \in 1..8, t - 1 \in P  PROVE t \in P
  BY <1>4, <1>5, <1>7
<1> HIDE DEF P
<1>8. 0..8 \subseteq P
  BY <1>6, <1>7, Induction
<1>9. 8 \in P
  BY <1>8
<1> QED BY <1>2, <1>9 DEF P

-----------------------------------------------------------------------------
(* Requests that tell of a start or an end.                                 *)

\* the states of a job that is over
OverNow == IF History THEN {"FINISHED", "gone"} ELSE {"gone"}

\* what may become of a job in the state a: it is released, killed for the reasons w, or over
Onward(a, b, w) ==
  \/ b = a
  \/ a = "HELD" /\ b = "QUEUED"
  \/ a \in OnMom /\ b = "KILLED" /\ w # {}
  \/ a \notin Unknown /\ b \in OverNow

\* jobs that are over stay so, and none is new again
Lasting(a, b) ==
  /\ a \in Unknown => b = a
  /\ a = "FINISHED" => b \in Over
  /\ b = "new" => a = "new"

\* From s to u, entries of p in the lists D of other jobs go, jobs are aborted for reasons
\* of B, and the job x may go on (0 is no job).
Freed(u, s, p, D, B, x) ==
  /\ u \in Rec /\ u.on = s.on
  /\ \A q \in Jobs, t \in After : \A y \in s.dep[q][t] : y \in u.dep[q][t] \/ (y = p /\ t \in D)
  /\ \A q \in Jobs : /\ q # x => Onward(s.st[q], u.st[q], u.blame[q])
                     /\ Lasting(s.st[q], u.st[q])
                     /\ s.blame[q] \subseteq u.blame[q]
                     /\ u.blame[q] \subseteq s.blame[q] \cup B
                     /\ s.st[q] \in Unknown => u.blame[q] = s.blame[q]
  /\ \A k \in Ts(u) : k \in Ts(s) \/ k.fn \in {"post_doe", "on_job_exit"}

\* Doing nothing frees nobody.
LEMMA FreedSelf ==
  ASSUME NEW s \in Rec, NEW p, NEW D, NEW B, NEW x
  PROVE  Freed(s, s, p, D, B, x)
BY DEF Freed, Onward, Lasting, Over

\* What leads onward twice leads onward.
LEMMA OnwardTwice ==
  ASSUME NEW a, NEW b, NEW c, NEW v, NEW w, Onward(a, b, v), Onward(b, c, w), v \subseteq w
  PROVE  Onward(a, c, w)
<1>1. \A e \in OverNow : e \notin OnMom /\ e # "HELD" /\ (e \in Unknown \/ e = "FINISHED")
  BY DEF OverNow, OnMom, Unknown
<1>2. "FINISHED" \in OverNow => "gone" \in OverNow
  BY DEF OverNow
<1>3. "QUEUED" \notin OnMom /\ "KILLED" \in OnMom /\ "HELD" \notin Unknown /\ "QUEUED" \notin Unknown
  BY DEF OnMom, Unknown
<1>4. \A e \in OnMom : e \notin Unknown /\ e # "HELD"
  BY DEF OnMom, Unknown
<1> QED BY <1>1, <1>2, <1>3, <1>4 DEF Onward

\* What happens to u happens to s.
LEMMA FreedTwice ==
  ASSUME NEW s, NEW u, NEW w, NEW p, NEW D, NEW B, NEW x, Freed(u, s, p, D, B, x), Freed(w, u, p, D, B, x)
  PROVE  Freed(w, s, p, D, B, x)
<1>1. w \in Rec /\ w.on = s.on
  BY DEF Freed
<1>2. \A q \in Jobs, t \in After : \A y \in s.dep[q][t] : y \in w.dep[q][t] \/ (y = p /\ t \in D)
  BY DEF Freed
<1>3. \A k \in Ts(w) : k \in Ts(s) \/ k.fn \in {"post_doe", "on_job_exit"}
  BY DEF Freed
<1>4. ASSUME NEW q \in Jobs
      PROVE  /\ q # x => Onward(s.st[q], w.st[q], w.blame[q])
             /\ Lasting(s.st[q], w.st[q])
             /\ s.blame[q] \subseteq w.blame[q]
             /\ w.blame[q] \subseteq s.blame[q] \cup B
             /\ s.st[q] \in Unknown => w.blame[q] = s.blame[q]
  <2>1. /\ q # x => Onward(s.st[q], u.st[q], u.blame[q])
        /\ Lasting(s.st[q], u.st[q])
        /\ s.blame[q] \subseteq u.blame[q]
        /\ u.blame[q] \subseteq s.blame[q] \cup B
        /\ s.st[q] \in Unknown => u.blame[q] = s.blame[q]
    BY DEF Freed
  <2>2. /\ q # x => Onward(u.st[q], w.st[q], w.blame[q])
        /\ Lasting(u.st[q], w.st[q])
        /\ u.blame[q] \subseteq w.blame[q]
        /\ w.blame[q] \subseteq u.blame[q] \cup B
        /\ u.st[q] \in Unknown => w.blame[q] = u.blame[q]
    BY DEF Freed
  <2>3. q # x => Onward(s.st[q], w.st[q], w.blame[q])
    BY <2>1, <2>2, OnwardTwice
  <2>4. Lasting(s.st[q], w.st[q])
    BY <2>1, <2>2 DEF Lasting, Over, Unknown
  <2>5. s.st[q] \in Unknown => w.blame[q] = s.blame[q]
    BY <2>1, <2>2 DEF Lasting
  <2> QED BY <2>1, <2>2, <2>3, <2>4, <2>5
<1> QED BY <1>1, <1>2, <1>3, <1>4 DEF Freed

\* What is true of no job is true of some, and more may be freed.
LEMMA FreedMore ==
  ASSUME NEW s, NEW u, NEW p, NEW D, NEW B, NEW E, NEW C, NEW x, NEW y, Freed(u, s, p, D, B, y),
         y = 0 \/ y = x, D \subseteq E, B \subseteq C
  PROVE  Freed(u, s, p, E, C, x)
<1>1. \A q \in Jobs : q # 0
  BY DEF Jobs
<1> QED BY <1>1 DEF Freed

\* A list of jobs that wait for j is changed.
LEMMA BeforeFreed ==
  ASSUME NEW s \in Rec, NEW j \in Jobs, NEW t \in Before, NEW ps \in SUBSET Jobs, NEW p, NEW D, NEW B
  PROVE  Freed([s EXCEPT !.dep[j][t] = ps], s, p, D, B, 0)
<1> DEFINE u == [s EXCEPT !.dep[j][t] = ps]
<1>1. t \in 0..7 /\ t \notin After
  BY DEF Before, After
<1>2. u = [s EXCEPT !.dep[j][t] = ps]
  OBVIOUS
<1> HIDE DEF u
<1>3. Replaced(u, s, j, t, ps)
  BY <1>1, <1>2, ReplacedIs
<1>4. u \in Rec /\ u.on = s.on /\ u.st = s.st /\ u.blame = s.blame /\ Ts(u) = Ts(s)
  BY <1>2, <1>3 DEF Replaced, Rec, Ts
<1>5. \A q \in Jobs, y \in After : u.dep[q][y] = s.dep[q][y]
  BY <1>1, <1>3 DEF Replaced, After
<1>6. Freed(u, s, p, D, B, 0)
  BY <1>4, <1>5 DEF Freed, Onward, Lasting, Over
<1> QED BY <1>6 DEF u

\* A job's state is set.
LEMMA AtFreed ==
  ASSUME NEW s \in Rec, NEW j \in Jobs, NEW state \in States, Lasting(s.st[j], state),
         NEW p, NEW D, NEW B
  PROVE  /\ Freed(At(s, j, state), s, p, D, B, j)
         /\ At(s, j, state).st[j] = state
         /\ \A q \in Jobs : q # j => At(s, j, state).st[q] = s.st[q]
<1> DEFINE u == At(s, j, state)
<1>1. /\ u \in Rec /\ u.on = s.on /\ u.dep = s.dep /\ u.blame = s.blame /\ u.tasks = s.tasks
      /\ u.st = [s.st EXCEPT ![j] = state]
  BY DEF At, Rec
<1>2. u.st[j] = state /\ \A q \in Jobs : q # j => u.st[q] = s.st[q]
  <2>1. s.st \in [Jobs -> States]
    BY DEF Rec
  <2> QED BY <1>1, <2>1
<1> HIDE DEF u
<1>3. Ts(u) = Ts(s)
  BY <1>1 DEF Ts
<1>4. \A q \in Jobs : Lasting(s.st[q], u.st[q])
  BY <1>2 DEF Lasting, Over
<1>5. Freed(u, s, p, D, B, j)
  BY <1>1, <1>2, <1>3, <1>4 DEF Freed, Onward
<1> QED BY <1>2, <1>5 DEF u

\* Where the job may go onward, nothing else happens.
LEMMA AtOnward ==
  ASSUME NEW s \in Rec, NEW j \in Jobs, NEW state \in States,
         Lasting(s.st[j], state), Onward(s.st[j], state, s.blame[j]), NEW p, NEW D, NEW B
  PROVE  Freed(At(s, j, state), s, p, D, B, 0)
<1> DEFINE u == At(s, j, state)
<1>1. /\ Freed(u, s, p, D, B, j) /\ u.st[j] = state
      /\ \A q \in Jobs : q # j => u.st[q] = s.st[q]
  BY AtFreed
<1>2. u.blame = s.blame
  BY DEF At, Rec
<1> HIDE DEF u
<1>3. \A q \in Jobs : Onward(s.st[q], u.st[q], u.blame[q])
  BY <1>1, <1>2 DEF Onward
<1>4. Freed(u, s, p, D, B, 0)
  BY <1>1, <1>3 DEF Freed
<1> QED BY <1>4 DEF u

\* Some tasks go, or tasks are added that answer a release or go on with an end.
LEMMA TasksFreed ==
  ASSUME NEW s \in Rec, NEW q \in Seq(Tasks), NEW p, NEW D, NEW B,
         \A k \in Elems(q) : k \in Ts(s) \/ k.fn \in {"post_doe", "on_job_exit"}
  PROVE  Freed([s EXCEPT !.tasks = q], s, p, D, B, 0)
<1> DEFINE u == [s EXCEPT !.tasks = q]
<1>1. /\ u \in Rec /\ u.on = s.on /\ u.dep = s.dep /\ u.blame = s.blame /\ u.st = s.st
      /\ u.tasks = q
  BY DEF Rec
<1> HIDE DEF u
<1>2. Freed(u, s, p, D, B, 0)
  BY <1>1 DEF Freed, Onward, Lasting, Over, Ts
<1> QED BY <1>2 DEF u

\* A task is added.
LEMMA AppendFreed ==
  ASSUME NEW s \in Rec, NEW k \in Tasks, k.fn \in {"post_doe", "on_job_exit"}, NEW p, NEW D, NEW B
  PROVE  Freed([s EXCEPT !.tasks = Append(@, k)], s, p, D, B, 0)
<1> DEFINE q == Append(s.tasks, k)
<1>1. s.tasks \in Seq(Tasks)
  BY DEF Rec
<1>2. q \in Seq(Tasks) /\ Elems(q) = Ts(s) \cup {k}
  BY <1>1, ElemsAppend DEF Ts
<1>3. [s EXCEPT !.tasks = Append(@, k)] = [s EXCEPT !.tasks = q]
  OBVIOUS
<1> HIDE DEF q
<1>4. Freed([s EXCEPT !.tasks = q], s, p, D, B, 0)
  BY <1>2, TasksFreed
<1> QED BY <1>3, <1>4

\* The job is over.
LEMMA FreeFreed ==
  ASSUME NEW s \in Rec, NEW j \in Jobs, s.st[j] \notin Unknown, NEW p, NEW D, NEW B
  PROVE  Freed(job_free(s, j), s, p, D, B, 0) /\ job_free(s, j).st[j] = "gone"
<1> DEFINE u == At(s, j, "gone")
           q == Unlinked(s.tasks, j)
           w == [u EXCEPT !.tasks = q]
<1>1. /\ "gone" \in States /\ Lasting(s.st[j], "gone")
      /\ Onward(s.st[j], "gone", s.blame[j])
  BY DEF States, Lasting, Over, Onward, OverNow
<1>2. Freed(u, s, p, D, B, 0) /\ u.st[j] = "gone"
  BY <1>1, AtOnward, AtFreed
<1>3. s.tasks \in Seq(Tasks) /\ u.tasks = s.tasks
  BY DEF Rec, At
<1>4. q \in Seq(Tasks) /\ Elems(q) \subseteq Elems(s.tasks)
  BY <1>3, UnlinkedType, ElemsUnlinked
<1>5. job_free(s, j) = w
  BY DEF job_free, At, Rec
<1>6. u \in Rec
  BY <1>2 DEF Freed
<1> HIDE DEF u, q
<1>7. Freed(w, u, p, D, B, 0)
  BY <1>3, <1>4, <1>6, TasksFreed DEF Ts
<1>8. w.st = u.st
  BY <1>6 DEF Rec
<1> HIDE DEF w
<1>9. Freed(w, s, p, D, B, 0)
  BY <1>2, <1>7, FreedTwice
<1> QED BY <1>2, <1>5, <1>8, <1>9

\* It may be kept in the history.
LEMMA FinishFreed ==
  ASSUME NEW s \in Rec, NEW j \in Jobs, s.st[j] \notin Unknown, NEW p, NEW D, NEW B
  PROVE  Freed(Finish(s, j), s, p, D, B, 0) /\ Finish(s, j).st[j] \in OverNow
<1> DEFINE e == IF History THEN "FINISHED" ELSE "gone"
           u == At(s, j, e)
           q == Unlinked(s.tasks, j)
           w == [u EXCEPT !.tasks = q]
<1>1. e \in OverNow /\ e \in {"FINISHED", "gone"}
  BY DEF OverNow
<1>2. Finish(s, j) = w
  BY DEF Finish, At, Rec
<1> HIDE DEF e
<1>3. e \in States /\ Lasting(s.st[j], e) /\ Onward(s.st[j], e, s.blame[j])
  BY <1>1 DEF States, Lasting, Over, Onward, Unknown
<1>4. Freed(u, s, p, D, B, 0) /\ u.st[j] = e
  BY <1>3, AtOnward, AtFreed
<1>5. s.tasks \in Seq(Tasks) /\ u.tasks = s.tasks
  BY DEF Rec, At
<1>6. q \in Seq(Tasks) /\ Elems(q) \subseteq Elems(s.tasks)
  BY <1>5, UnlinkedType, ElemsUnlinked
<1>7. u \in Rec
  BY <1>4 DEF Freed
<1> HIDE DEF u, q
<1>8. Freed(w, u, p, D, B, 0)
  BY <1>5, <1>6, <1>7, TasksFreed DEF Ts
<1>9. w.st = u.st
  BY <1>7 DEF Rec
<1> HIDE DEF w
<1>10. Freed(w, s, p, D, B, 0)
  BY <1>4, <1>8, FreedTwice
<1> QED BY <1>1, <1>2, <1>4, <1>9, <1>10

\* A job is aborted for a reason of B.
LEMMA AbtFreed ==
  ASSUME NEW s \in Rec, NEW j \in Jobs, s.st[j] \notin Unknown, NEW why \in Reasons, NEW p, NEW D, NEW B, why \in B
  PROVE  /\ Freed(job_abt(s, j, why), s, p, D, B, 0)
         /\ \A q \in Jobs : q # j => job_abt(s, j, why).blame[q] = s.blame[q]
<1> DEFINE b == [s EXCEPT !.blame[j] = @ \cup {why}]
<1>1. /\ b \in Rec /\ b.on = s.on /\ b.dep = s.dep /\ b.st = s.st /\ b.tasks = s.tasks
      /\ b.blame = [s.blame EXCEPT ![j] = @ \cup {why}]
  BY DEF Rec
<1>2. b.blame[j] = s.blame[j] \cup {why} /\ \A q \in Jobs : q # j => b.blame[q] = s.blame[q]
  <2>1. s.blame \in [Jobs -> SUBSET Reasons]
    BY DEF Rec
  <2> HIDE DEF b
  <2> QED BY <1>1, <2>1
<1>3. Freed(b, s, p, D, B, 0)
  <2> HIDE DEF b
  <2>1. Ts(b) = Ts(s)
    BY <1>1 DEF Ts
  <2>2. ASSUME NEW q \in Jobs
        PROVE  /\ Onward(s.st[q], b.st[q], b.blame[q])
               /\ Lasting(s.st[q], b.st[q])
               /\ s.blame[q] \subseteq b.blame[q]
               /\ b.blame[q] \subseteq s.blame[q] \cup B
               /\ s.st[q] \in Unknown => b.blame[q] = s.blame[q]
    <3>1. Onward(s.st[q], b.st[q], b.blame[q]) /\ Lasting(s.st[q], b.st[q])
      BY <1>1 DEF Onward, Lasting, Over
    <3> QED BY <1>2, <3>1
  <2> QED BY <1>1, <2>1, <2>2 DEF Freed
<1>4. CASE s.st[j] = "FINISHED"
  <2>1. job_abt(s, j, why) = s
    BY <1>4 DEF job_abt, OnMom
  <2> QED BY <2>1, FreedSelf
<1>5. CASE s.st[j] \in OnMom /\ j \notin Deaf
  <2> DEFINE u == At(b, j, "KILLED")
  <2>1. job_abt(s, j, why) = u
    BY <1>5 DEF job_abt, Rec, OnMom, At
  <2>2. b.blame[j] # {} /\ b.st[j] \in OnMom
    BY <1>1, <1>2, <1>5
  <2> HIDE DEF b
  <2>3. "KILLED" \in States /\ Lasting(b.st[j], "KILLED") /\ Onward(b.st[j], "KILLED", b.blame[j])
    BY <2>2 DEF States, Lasting, Onward, OnMom, Unknown
  <2>4. Freed(u, b, p, D, B, 0)
    BY <1>1, <2>3, AtOnward
  <2>5. u.blame = b.blame
    BY <1>1 DEF At, Rec
  <2> HIDE DEF u
  <2>6. Freed(u, s, p, D, B, 0)
    BY <1>3, <2>4, FreedTwice
  <2> QED BY <1>2, <2>1, <2>5, <2>6
<1>6. CASE s.st[j] # "FINISHED" /\ ~(s.st[j] \in OnMom /\ j \notin Deaf)
  <2> DEFINE u == Finish(b, j)
  <2>1. job_abt(s, j, why) = u
    BY <1>6 DEF job_abt
  <2> HIDE DEF b
  <2>2. Freed(u, b, p, D, B, 0)
    BY <1>1, FinishFreed
  <2>3. u.blame = b.blame
    BY <1>1 DEF Finish, Rec
  <2> HIDE DEF u
  <2>4. Freed(u, s, p, D, B, 0)
    BY <1>3, <2>2, FreedTwice
  <2> QED BY <1>2, <2>1, <2>3, <2>4
<1> QED BY <1>4, <1>5, <1>6

\* Delete aborts a job over its dependency on p.
LEMMA DeleteFreed ==
  ASSUME NEW s \in Rec, NEW p \in Jobs, NEW t \in 0..7, NEW j \in Jobs, NEW D, NEW B,
         [why |-> "Delete", type |-> Mirror(t), other |-> p] \in B
  PROVE  Freed(Delete(s, p, t, j), s, p, D, B, 0)
<1> DEFINE w == [why |-> "Delete", type |-> Mirror(t), other |-> p]
<1>1. w \in Reasons /\ w \in B
  BY MirrorType DEF Reasons
<1>2. CASE s.st[j] \in Unknown
  <2>1. Delete(s, p, t, j) = s
    BY <1>2 DEF Delete
  <2> QED BY <2>1, FreedSelf
<1>3. CASE s.st[j] \notin Unknown
  <2>1. Delete(s, p, t, j) = job_abt(s, j, w)
    BY <1>3 DEF Delete
  <2> HIDE DEF w
  <2> QED BY <1>1, <1>3, <2>1, AbtFreed
<1> QED BY <1>2, <1>3

\* Release drops the entry of p.
LEMMA ReleaseFreed ==
  ASSUME NEW s, NEW y, Fine(s, {}, y), NEW p \in Jobs, NEW t \in Before, NEW j \in Jobs,
         NEW D, Mirror(t) \in D, NEW B
  PROVE  Freed(Release(s, p, t, j), s, p, D, B, 0) /\ Calm(Release(s, p, t, j), s)
<1> DEFINE m == Mirror(t)
           r == Drop(s, j, m, p)
           ps == s.dep[j][m] \ {p}
<1>1. s \in Rec /\ m \in 0..7 /\ m \in After /\ m \in D
  BY MirrorType DEF Fine, Before
<1>2. CASE s.st[j] \in Unknown \/ p \notin s.dep[j][m]
  <2>1. Release(s, p, t, j) = s
    BY <1>2 DEF Release
  <2> QED BY <1>1, <2>1, FreedSelf DEF Calm
<1>3. CASE ~(s.st[j] \in Unknown \/ p \notin s.dep[j][m])
  <2>1. \/ Release(s, p, t, j) = set_depend_hold(r, j)
        \/ Release(s, p, t, j) = r
    BY <1>3, Zenon DEF Release
  <2> HIDE DEF m
  <2>2. ps \in SUBSET Jobs /\ r = [s EXCEPT !.dep[j][m] = ps]
    BY <1>1 DEF Drop, Rec
  <2>3. Replaced(r, s, j, m, ps)
    <3> HIDE DEF r, ps
    <3> QED BY <1>1, <2>2, ReplacedIs
  <2>4. r.on = s.on /\ r.st = s.st /\ r.blame = s.blame
    BY <1>1, <2>2 DEF Rec
  <2> HIDE DEF r
  <2>5. Freed(r, s, p, D, B, 0)
    <3>1. r \in Rec /\ Ts(r) = Ts(s)
      BY <2>3 DEF Replaced, Ts
    <3>2. \A q \in Jobs, z \in After : \A e \in s.dep[q][z] : e \in r.dep[q][z] \/ (e = p /\ z \in D)
      BY <1>1, <2>3 DEF Replaced, After
    <3> QED BY <2>4, <3>1, <3>2 DEF Freed, Onward, Lasting, Over
  <2>6. Pending(r, j) => Pending(s, j)
    <3>1. \A w \in After : r.dep[j][w] \subseteq s.dep[j][w]
      BY <2>3 DEF Replaced, After
    <3> QED BY <2>4, <3>1 DEF Pending
  <2>7. Pending(r, j) => r.st[j] \in {"HELD", "FINISHED"}
    BY <1>3, <2>4, <2>6 DEF Fine, Held, Over, Unknown
  <2>8. r \in Rec
    BY <2>5 DEF Freed
  <2>9. Freed(set_depend_hold(r, j), r, p, D, B, 0) /\ Calm(set_depend_hold(r, j), r)
    <3>1. CASE set_depend_hold(r, j) = r
      BY <2>8, <3>1, FreedSelf DEF Calm
    <3>2. CASE set_depend_hold(r, j) # r
      <4>1. \E state \in {"HELD", "QUEUED"} : set_depend_hold(r, j) = At(r, j, state) /\ r.st[j] = "HELD"
        BY <2>7, <3>2 DEF set_depend_hold, At
      <4>2. PICK state \in {"HELD", "QUEUED"} : set_depend_hold(r, j) = At(r, j, state) /\ r.st[j] = "HELD"
        BY <4>1
      <4>3. state \in States /\ Lasting(r.st[j], state) /\ Onward(r.st[j], state, r.blame[j])
        BY <4>2 DEF States, Waiting, Lasting, Onward, Unknown
      <4>4. /\ Freed(At(r, j, state), r, p, D, B, 0) /\ At(r, j, state).st[j] = state
            /\ \A q \in Jobs : q # j => At(r, j, state).st[q] = r.st[q]
        BY <2>8, <4>3, AtOnward, AtFreed
      <4> QED BY <4>2, <4>4 DEF Calm
    <3> QED BY <3>1, <3>2
  <2>10. Freed(set_depend_hold(r, j), s, p, D, B, 0)
    BY <2>5, <2>9, FreedTwice
  <2>11. Calm(r, s) /\ Calm(set_depend_hold(r, j), s)
    BY <2>4, <2>9 DEF Calm
  <2> QED BY <2>1, <2>5, <2>10, <2>11
<1> QED BY <1>2, <1>3

\* The jobs that wait for the start of p are released.
LEMMA ExecFreed ==
  ASSUME NEW s, NEW y, Fine(s, {}, y), NEW p \in Jobs, NEW D, AFTERSTART \in D, NEW B
  PROVE  Freed(depend_on_exec(s, p), s, p, D, B, 0) /\ Calm(depend_on_exec(s, p), s)
<1> DEFINE b == BEFORESTART
           ps == s.dep[p][b]
           G == {v \in Rec : Fine(v, {}, y) /\ Freed(v, s, p, D, B, 0) /\ Calm(v, s)}
<1>0. /\ b \in 0..7 /\ b \in Before /\ Mirror(b) = AFTERSTART
      /\ "exec" \in Callers /\ "exec" # "que"
  BY DEF BEFORESTART, Before, Mirror, AFTERSTART, Callers
<1>1. s \in G
  BY FreedSelf DEF Fine, Calm
<1>2. depend_on_exec(s, p) = SendToList(s, p, b, ps, "exec")
  BY DEF depend_on_exec
<1>3. ASSUME NEW v \in G, NEW q \in Jobs  PROVE send_depend_req(v, p, b, q, "exec") \in G
  <2> DEFINE u == Release(v, p, b, q)
             k == [fn |-> "post_doe", job |-> p, other |-> q]
             w == [u EXCEPT !.tasks = Append(@, k)]
  <2>1. send_depend_req(v, p, b, q, "exec") = w
    BY Zenon DEF send_depend_req
  <2> HIDE DEF b
  <2>2. Fine(send_depend_req(v, p, b, q, "exec"), {}, y)
    BY <1>0, <1>3, SendFine
  <2>3. Freed(u, v, p, D, B, 0) /\ Calm(u, v)
    BY <1>0, <1>3, ReleaseFreed
  <2>4. k \in Tasks /\ k.fn \in {"post_doe", "on_job_exit"}
    BY DEF Tasks
  <2>5. u \in Rec
    BY <2>3 DEF Freed
  <2> HIDE DEF u, k
  <2>6. Freed(w, u, p, D, B, 0)
    BY <2>4, <2>5, AppendFreed
  <2>9. w.st = u.st
    BY <2>5 DEF Rec
  <2> HIDE DEF w
  <2>10. Calm(w, s)
    BY <1>3, <2>3, <2>9 DEF Calm
  <2>7. Freed(w, s, p, D, B, 0)
    BY <1>3, <2>3, <2>6, FreedTwice
  <2>8. w \in Rec
    BY <2>7 DEF Freed
  <2> QED BY <2>1, <2>2, <2>7, <2>8, <2>10
<1> HIDE DEF G, ps, b
<1>4. SendToList(s, p, b, ps, "exec") \in G
  BY <1>1, <1>3, ListKeeps
<1> QED BY <1>2, <1>4 DEF G

\* the dependencies on p that are met when it ends
MetBy(ok) == IF ok THEN {AFTEROK, AFTERANY} ELSE {AFTERNOTOK, AFTERANY}

\* and what the jobs with the other ones are aborted for
EndOf(p, ok) == [why |-> "Delete", type |-> IF ok THEN AFTERNOTOK ELSE AFTEROK, other |-> p]

\* The jobs that wait for the end of p are released or aborted.
LEMMA TermFreed ==
  ASSUME NEW s, NEW y, Fine(s, {}, y), NEW p \in Jobs, NEW ok \in BOOLEAN
  PROVE  Freed(depend_on_term(s, p, ok), s, p, MetBy(ok), {EndOf(p, ok)}, 0)
<1> DEFINE l == [t \in 0..7 |-> IF t \in {BEFOREOK, BEFORENOTOK, BEFOREANY} THEN s.dep[p][t] ELSE {}]
           c == IF ok THEN "ok" ELSE "bad"
           D == MetBy(ok)
           B == {EndOf(p, ok)}
           G == {v \in Rec : Fine(v, {}, y) /\ Freed(v, s, p, D, B, 0)}
<1>1. s \in G
  BY FreedSelf DEF Fine
<1>2. depend_on_term(s, p, ok) = SendToAll(s, p, l, c)
  BY DEF depend_on_term
<1>3. c \in Callers /\ c # "que" /\ (ok <=> c = "ok") /\ (~ok <=> c = "bad")
  BY DEF Callers
<1>4. ASSUME NEW v \in G, NEW t \in 0..7, NEW q \in Jobs, q \in l[t]
      PROVE  send_depend_req(v, p, t, q, c) \in G
  <2> DEFINE u == send_depend_req(v, p, t, q, c)
  <2>1. t \in {BEFOREOK, BEFORENOTOK, BEFOREANY} /\ t \in Before
    BY <1>4 DEF BEFOREOK, BEFORENOTOK, BEFOREANY, Before
  <2>2. Fine(u, {}, y)
    <3> HIDE DEF c, l
    <3> QED BY <1>3, <1>4, SendFine
  <2>3. v \in Rec /\ Fine(v, {}, y)
    BY <1>4
  <2>4. ASSUME t = IF ok THEN BEFORENOTOK ELSE BEFOREOK
        PROVE  Freed(u, v, p, D, B, 0)
    <3>1. u = Delete(v, p, t, q)
      BY <1>3, <2>4 DEF send_depend_req
    <3>2. Mirror(t) = IF ok THEN AFTERNOTOK ELSE AFTEROK
      BY <2>4 DEF Mirror, BEFORENOTOK, BEFOREOK, AFTERNOTOK, AFTEROK
    <3>3. [why |-> "Delete", type |-> Mirror(t), other |-> p] \in B
      BY <3>2 DEF EndOf
    <3> HIDE DEF B, D
    <3>4. Freed(u, v, p, D, B, 0)
      BY <2>3, <3>1, <3>3, DeleteFreed
    <3> QED BY <3>4
  <2>5. ASSUME t # IF ok THEN BEFORENOTOK ELSE BEFOREOK
        PROVE  Freed(u, v, p, D, B, 0)
    <3>1. u = Release(v, p, t, q)
      BY <1>3, <2>5 DEF send_depend_req
    <3>2. Mirror(t) \in D
      BY <2>1, <2>5 DEF Mirror, MetBy, BEFORENOTOK, BEFOREOK, BEFOREANY, AFTERNOTOK, AFTEROK, AFTERANY
    <3> HIDE DEF B, D
    <3>3. Freed(u, v, p, D, B, 0)
      BY <2>1, <2>3, <3>1, <3>2, ReleaseFreed
    <3> QED BY <3>3
  <2> HIDE DEF u, B, D
  <2>6. Freed(u, v, p, D, B, 0)
    BY <2>4, <2>5
  <2>7. Freed(u, s, p, D, B, 0)
    BY <1>4, <2>6, FreedTwice
  <2>8. u \in Rec
    BY <2>7 DEF Freed
  <2> QED BY <2>2, <2>7, <2>8 DEF u
<1> HIDE DEF G, l, c
<1>5. SendToAll(s, p, l, c) \in G
  BY <1>1, <1>4, AllKeeps
<1> QED BY <1>2, <1>5 DEF G

-----------------------------------------------------------------------------
(* Requests that register.                                                  *)

\* the before... dependencies on q that are asked for (w), and registered or met (M)
Got(s, w, M, q) ==
  {e \in Before \X Jobs : /\ q \in w[e[2]][e[1]]
                          /\ e[2] \in s.dep[q][Mirror(e[1])] \/ <<Mirror(e[1]), e[2]>> \in M}

\* From s to u, entries of j are registered: what is counted down is got instead.
Enlisted(u, s, j, w, M) ==
  /\ u \in Rec /\ u.st = s.st /\ u.blame = s.blame
  /\ \A q \in Jobs, t \in After : s.dep[q][t] \subseteq u.dep[q][t]
  /\ \A q \in Jobs : s.on[q] + Cardinality(Got(s, w, M, q)) <= u.on[q] + Cardinality(Got(u, w, M, q))
  /\ \A k \in Ts(u) : \/ k \in Ts(s)
                      \/ k.fn = "post_doq" /\ k.job = j /\ k.other \in w[j][k.type]
                      \/ k.fn = "post_run_depend" /\ s.st[k.job] \in RunningOrLater

\* There are finitely many dependencies.
LEMMA GotFinite ==
  ASSUME NEW s, NEW w, NEW M, NEW q
  PROVE  IsFiniteSet(Got(s, w, M, q)) /\ Cardinality(Got(s, w, M, q)) \in Nat
<1>1. IsFiniteSet(Before) /\ IsFiniteSet(Jobs)
  <2>1. 4 \in Int /\ 7 \in Int /\ 1 \in Int /\ N \in Int
    BY DependAssumption
  <2>2. IsFiniteSet(4..7) /\ IsFiniteSet(1..N)
    BY <2>1, FS_Interval
  <2> QED BY <2>2 DEF Before, Jobs
<1>2. IsFiniteSet(Before \X Jobs)
  BY <1>1, FS_Product
<1>3. Got(s, w, M, q) \in SUBSET (Before \X Jobs)
  BY DEF Got
<1> DEFINE g == Got(s, w, M, q)
<1> HIDE DEF g
<1>4. g \in SUBSET (Before \X Jobs)
  BY <1>3 DEF g
<1>5. IsFiniteSet(g)
  BY <1>2, <1>4, FS_Subset
<1>6. Cardinality(g) \in Nat
  BY <1>5, FS_CardinalityType
<1> QED BY <1>5, <1>6 DEF g

\* More entries or more that is met do not make them fewer.
LEMMA GotGrows ==
  ASSUME NEW s, NEW u, NEW w, NEW x, NEW M, NEW L, NEW q, Got(s, w, M, q) \subseteq Got(u, x, L, q)
  PROVE  Cardinality(Got(s, w, M, q)) <= Cardinality(Got(u, x, L, q))
<1> DEFINE g == Got(s, w, M, q)  h == Got(u, x, L, q)
<1>1. IsFiniteSet(h) /\ g \in SUBSET h
  BY GotFinite
<1> HIDE DEF g, h
<1>2. Cardinality(g) <= Cardinality(h)
  BY <1>1, FS_Subset
<1> QED BY <1>2 DEF g, h

\* Doing nothing enlists nobody.
LEMMA EnlistedSelf ==
  ASSUME NEW s \in Rec, NEW j, NEW w, NEW M
  PROVE  Enlisted(s, s, j, w, M)
<1>1. \A q \in Jobs : s.on[q] + Cardinality(Got(s, w, M, q)) \in Int
  <2>1. \A q \in Jobs : s.on[q] \in Int
    BY DEF Rec, Count, Uncounted
  <2>2. \A q \in Jobs : Cardinality(Got(s, w, M, q)) \in Int
    BY GotFinite
  <2> QED BY <2>1, <2>2
<1> QED BY <1>1 DEF Enlisted

\* What is enlisted from u is enlisted from s.
LEMMA EnlistedTwice ==
  ASSUME NEW s \in Rec, NEW u, NEW v, NEW j, NEW w, NEW M, Enlisted(u, s, j, w, M), Enlisted(v, u, j, w, M)
  PROVE  Enlisted(v, s, j, w, M)
<1>1. /\ v \in Rec /\ v.st = s.st /\ v.blame = s.blame
      /\ \A q \in Jobs, t \in After : s.dep[q][t] \subseteq v.dep[q][t]
  BY DEF Enlisted
<1>2. \A k \in Ts(v) : \/ k \in Ts(s)
                       \/ k.fn = "post_doq" /\ k.job = j /\ k.other \in w[j][k.type]
                       \/ k.fn = "post_run_depend" /\ s.st[k.job] \in RunningOrLater
  BY DEF Enlisted
<1>3. ASSUME NEW q \in Jobs
      PROVE  s.on[q] + Cardinality(Got(s, w, M, q)) <= v.on[q] + Cardinality(Got(v, w, M, q))
  <2>1. u \in Rec /\ v \in Rec
    BY DEF Enlisted
  <2>2. s.on[q] \in Int /\ u.on[q] \in Int /\ v.on[q] \in Int
    BY <2>1 DEF Rec, Count, Uncounted
  <2>3. /\ Cardinality(Got(s, w, M, q)) \in Int /\ Cardinality(Got(u, w, M, q)) \in Int
        /\ Cardinality(Got(v, w, M, q)) \in Int
    BY GotFinite
  <2>4. /\ s.on[q] + Cardinality(Got(s, w, M, q)) <= u.on[q] + Cardinality(Got(u, w, M, q))
        /\ u.on[q] + Cardinality(Got(u, w, M, q)) <= v.on[q] + Cardinality(Got(v, w, M, q))
    BY DEF Enlisted
  <2> QED BY <2>2, <2>3, <2>4
<1> QED BY <1>1, <1>2, <1>3 DEF Enlisted

\* An entry is added, and the count stays.
LEMMA AddEnlisted ==
  ASSUME NEW s \in Rec, NEW u \in Rec, u.st = s.st, u.blame = s.blame, u.on = s.on, NEW j, NEW w, NEW M,
         \A q \in Jobs, t \in 0..7 : s.dep[q][t] \subseteq u.dep[q][t],
         \A k \in Ts(u) : \/ k \in Ts(s)
                          \/ k.fn = "post_doq" /\ k.job = j /\ k.other \in w[j][k.type]
                          \/ k.fn = "post_run_depend" /\ s.st[k.job] \in RunningOrLater
  PROVE  Enlisted(u, s, j, w, M)
<1>1. \A q \in Jobs, t \in After : s.dep[q][t] \subseteq u.dep[q][t]
  BY DEF After
<1>2. ASSUME NEW q \in Jobs
      PROVE  s.on[q] + Cardinality(Got(s, w, M, q)) <= u.on[q] + Cardinality(Got(u, w, M, q))
  <2>1. Got(s, w, M, q) \subseteq Got(u, w, M, q)
    <3>1. \A e \in Before \X Jobs : Mirror(e[1]) \in 0..7
      BY MirrorType DEF Before
    <3> QED BY <3>1 DEF Got
  <2>2. Cardinality(Got(s, w, M, q)) <= Cardinality(Got(u, w, M, q))
    BY <2>1, GotGrows
  <2>3. Cardinality(Got(s, w, M, q)) \in Int /\ Cardinality(Got(u, w, M, q)) \in Int
    BY GotFinite
  <2>4. s.on[q] \in Int
    BY DEF Rec, Count, Uncounted
  <2> QED BY <2>2, <2>3, <2>4
<1> QED BY <1>1, <1>2 DEF Enlisted

\* One of a count is turned into an entry, which is got.
LEMMA CountEnlisted ==
  ASSUME NEW s \in Rec, NEW j \in Jobs, NEW t \in Before, NEW p \in Jobs, s.on[p] # 0,
         NEW w, p \in w[j][t], NEW M, <<Mirror(t), j>> \notin M, j \notin s.dep[p][Mirror(t)]
  PROVE  Enlisted([Add(s, p, Mirror(t), j) EXCEPT !.on[p] = Left(@)], s, j, w, M)
<1> DEFINE m == Mirror(t)
           ps == s.dep[p][m] \cup {j}
           a == [s EXCEPT !.dep[p][m] = ps]
           n == Left(s.on[p])
           u == [Add(s, p, m, j) EXCEPT !.on[p] = Left(@)]
<1>1. m \in 0..7 /\ m \in After /\ t \in 0..7
  BY MirrorType DEF Before
<1> HIDE DEF m
<1>2. ps \in SUBSET Jobs
  BY <1>1 DEF Rec
<1>3. Replaced(a, s, p, m, ps)
  <2> HIDE DEF ps
  <2> QED BY <1>1, <1>2, ReplacedIs
<1>4. a.on = s.on /\ a.blame = s.blame /\ u = [a EXCEPT !.on[p] = n]
  BY <1>1 DEF Rec, Add
<1>5. n \in Count /\ n \in Nat /\ s.on[p] <= n + 1 /\ \A q \in Jobs : s.on[q] \in Int
  <2>1. \A q \in Jobs : s.on[q] \in Count
    BY DEF Rec
  <2>2. n \in Nat /\ (s.on[p] # Uncounted => n = s.on[p] - 1)
    BY <2>1, LeftType
  <2> HIDE DEF n
  <2> QED BY <2>1, <2>2 DEF Count, Uncounted
<1> HIDE DEF a, ps, n
<1>6. /\ u \in Rec /\ u.st = s.st /\ u.blame = s.blame /\ u.tasks = s.tasks /\ u.dep = a.dep
      /\ u.on = [s.on EXCEPT ![p] = n]
  <2>1. a \in Rec /\ a.st = s.st /\ a.tasks = s.tasks
    BY <1>3 DEF Replaced
  <2> HIDE DEF u
  <2>2. u.on = [s.on EXCEPT ![p] = n] /\ u.st = s.st /\ u.blame = s.blame /\ u.tasks = s.tasks
        /\ u.dep = a.dep
    BY <1>4, <2>1 DEF Rec
  <2>3. u \in Rec
    BY <1>4, <1>5, <2>1 DEF Rec
  <2> QED BY <2>2, <2>3
<1> HIDE DEF u
<1>7. u.on[p] = n /\ \A q \in Jobs : q # p => u.on[q] = s.on[q]
  <2>1. s.on \in [Jobs -> Count]
    BY DEF Rec
  <2> QED BY <1>6, <2>1
<1>8. \A q \in Jobs, y \in 0..7 : u.dep[q][y] = IF q = p /\ y = m THEN ps ELSE s.dep[q][y]
  BY <1>3, <1>6 DEF Replaced
<1>9. Ts(u) = Ts(s)
  BY <1>6 DEF Ts
<1>10. \A q \in Jobs, y \in 0..7 : s.dep[q][y] \subseteq u.dep[q][y]
  BY <1>8 DEF ps
<1>11. \A q \in Jobs : Got(s, w, M, q) \subseteq Got(u, w, M, q)
  <2>1. \A e \in Before \X Jobs : Mirror(e[1]) \in 0..7
    BY MirrorType DEF Before
  <2> QED BY <1>10, <2>1 DEF Got
<1>12. ASSUME NEW q \in Jobs
       PROVE  s.on[q] + Cardinality(Got(s, w, M, q)) <= u.on[q] + Cardinality(Got(u, w, M, q))
  <2> DEFINE g == Got(s, w, M, q)  h == Got(u, w, M, q)
  <2>1. Cardinality(g) \in Int /\ Cardinality(h) \in Int /\ IsFiniteSet(h) /\ IsFiniteSet(g)
    BY GotFinite
  <2>2. g \subseteq h
    BY <1>11
  <2>3. CASE q # p
    <3>1. Cardinality(g) <= Cardinality(h)
      BY <2>2, GotGrows
    <3> HIDE DEF g, h
    <3>2. s.on[q] + Cardinality(g) <= u.on[q] + Cardinality(h)
      BY <1>5, <1>7, <2>1, <2>3, <3>1
    <3> QED BY <3>2 DEF g, h
  <2>4. CASE q = p
    <3> DEFINE e == <<t, j>>
    <3>1. e \in Before \X Jobs /\ e[1] = t /\ e[2] = j /\ Mirror(e[1]) = m
      BY DEF m
    <3>2. j \in u.dep[p][m] /\ j \notin s.dep[p][m] /\ <<m, j>> \notin M
      BY <1>1, <1>8 DEF ps, m
    <3> HIDE DEF e
    <3>3. e \in h /\ e \notin g
      BY <2>4, <3>1, <3>2 DEF Got
    <3> HIDE DEF g, h
    <3>4. IsFiniteSet(g \cup {e}) /\ Cardinality(g \cup {e}) = Cardinality(g) + 1
      BY <2>1, <3>3, FS_AddElement
    <3>5. g \cup {e} \in SUBSET h
      BY <2>2, <3>3
    <3>6. Cardinality(g \cup {e}) <= Cardinality(h)
      BY <2>1, <3>5, FS_Subset
    <3>7. s.on[q] + Cardinality(g) <= u.on[q] + Cardinality(h)
      BY <1>5, <1>7, <2>1, <2>4, <3>4, <3>6
    <3> QED BY <3>7 DEF g, h
  <2> QED BY <2>3, <2>4
<1>13. \A q \in Jobs, y \in After : s.dep[q][y] \subseteq u.dep[q][y]
  BY <1>10 DEF After
<1>14. Enlisted(u, s, j, w, M)
  BY <1>6, <1>9, <1>12, <1>13 DEF Enlisted
<1> QED BY <1>14 DEF u, m, n

\* A Register that is rejected leaves a task about what was asked for.
LEMMA RejectEnlisted ==
  ASSUME NEW s \in Rec, NEW j \in Jobs, NEW t \in 0..7, NEW p \in Jobs, NEW w, p \in w[j][t], NEW M
  PROVE  Enlisted(Reject(s, j, t, p), s, j, w, M)
<1> DEFINE k == [fn |-> "post_doq", job |-> j, type |-> t, other |-> p]
           u == [s EXCEPT !.tasks = Append(@, k)]
<1>1. k \in Tasks /\ k.fn = "post_doq" /\ k.job = j /\ k.other \in w[j][k.type]
  BY DEF Tasks
<1>2. Reject(s, j, t, p) = u
  BY DEF Reject
<1> HIDE DEF k
<1>3. s.tasks \in Seq(Tasks)
  BY DEF Rec
<1>4. Append(s.tasks, k) \in Seq(Tasks) /\ Elems(Append(s.tasks, k)) = Ts(s) \cup {k}
  BY <1>1, <1>3, ElemsAppend DEF Ts
<1>5. /\ u \in Rec /\ u.st = s.st /\ u.dep = s.dep /\ u.on = s.on /\ u.blame = s.blame
      /\ u.tasks = Append(s.tasks, k)
  BY <1>4 DEF Rec
<1> HIDE DEF u
<1>6. Ts(u) = Ts(s) \cup {k}
  BY <1>4, <1>5 DEF Ts
<1>7. Enlisted(u, s, j, w, M)
  BY <1>1, <1>5, <1>6, AddEnlisted
<1> QED BY <1>2, <1>7

\* A job that runs is about to tell of it.
LEMMA TellEnlisted ==
  ASSUME NEW s \in Rec, NEW j, NEW p \in Jobs, s.st[p] \in RunningOrLater, NEW w, NEW M
  PROVE  /\ Enlisted(Task(s, "post_run_depend", p), s, j, w, M)
         /\ Task(s, "post_run_depend", p).on = s.on /\ Task(s, "post_run_depend", p).dep = s.dep
<1> DEFINE k == [fn |-> "post_run_depend", job |-> p]
           u == [s EXCEPT !.tasks = Append(@, k)]
<1>1. k \in Tasks /\ k.fn = "post_run_depend" /\ k.job = p
  BY DEF Tasks
<1>2. Task(s, "post_run_depend", p) = u
  BY DEF Task
<1> HIDE DEF k
<1>3. s.tasks \in Seq(Tasks)
  BY DEF Rec
<1>4. Append(s.tasks, k) \in Seq(Tasks) /\ Elems(Append(s.tasks, k)) = Ts(s) \cup {k}
  BY <1>1, <1>3, ElemsAppend DEF Ts
<1>5. /\ u \in Rec /\ u.st = s.st /\ u.dep = s.dep /\ u.on = s.on /\ u.blame = s.blame
      /\ u.tasks = Append(s.tasks, k)
  BY <1>4 DEF Rec
<1> HIDE DEF u
<1>6. Ts(u) = Ts(s) \cup {k}
  BY <1>4, <1>5 DEF Ts
<1>7. Enlisted(u, s, j, w, M)
  BY <1>1, <1>5, <1>6, AddEnlisted
<1> QED BY <1>2, <1>5, <1>7

\* Register of something j asks for.
LEMMA RegisterEnlisted ==
  ASSUME NEW s \in Rec, NEW j \in Jobs, NEW t \in 0..7, NEW p \in Jobs,
         NEW w, p \in w[j][t], NEW M, \A y \in After : <<y, j>> \notin M
  PROVE  Enlisted(Register(s, j, t, p), s, j, w, M)
<1> DEFINE m == Mirror(t)
<1>1. m \in 0..7
  BY MirrorType
<1>2. CASE s.st[p] \in Unknown
  <2>1. Register(s, j, t, p) = Reject(s, j, t, p)
    BY <1>2 DEF Register
  <2> QED BY <2>1, RejectEnlisted
<1>3. CASE s.st[p] \notin Unknown /\ t \in After
  <2> DEFINE v == IF t = AFTERSTART /\ s.st[p] \in RunningOrLater THEN Task(s, "post_run_depend", p) ELSE s
             u == Add(v, p, m, j)
             ps == v.dep[p][m] \cup {j}
  <2>1. t \notin Before
    BY <1>3 DEF After, Before
  <2>2. Register(s, j, t, p) = u
    BY <1>3, <2>1, Zenon DEF Register
  <2>3. Enlisted(v, s, j, w, M)
    BY TellEnlisted, EnlistedSelf
  <2>4. v \in Rec
    BY <2>3 DEF Enlisted
  <2> HIDE DEF v, m
  <2>5. ps \in SUBSET Jobs /\ u = [v EXCEPT !.dep[p][m] = ps]
    BY <1>1, <2>4 DEF Rec, Add
  <2>6. Replaced(u, v, p, m, ps)
    <3> HIDE DEF u, ps
    <3> QED BY <1>1, <2>4, <2>5, ReplacedIs
  <2>7. u.on = v.on /\ u.blame = v.blame
    BY <1>1, <2>4 DEF Rec, Add
  <2> HIDE DEF u
  <2>8. u \in Rec /\ u.st = v.st /\ Ts(u) = Ts(v)
    BY <2>6 DEF Replaced, Ts
  <2>9. \A q \in Jobs, y \in 0..7 : v.dep[q][y] \subseteq u.dep[q][y]
    BY <2>6 DEF Replaced
  <2>10. Enlisted(u, v, j, w, M)
    BY <2>4, <2>7, <2>8, <2>9, AddEnlisted
  <2>11. Enlisted(u, s, j, w, M)
    BY <2>3, <2>10, EnlistedTwice
  <2> QED BY <2>2, <2>11
<1>4. CASE s.st[p] \notin Unknown /\ t \in Before /\ s.on[p] # 0
  <2> DEFINE u == [Add(s, p, m, j) EXCEPT !.on[p] = Left(@)]
  <2>1. t \notin After /\ m \in After
    BY <1>4, MirrorType DEF Before, After
  <2>2. /\ j \in s.dep[p][m] => Register(s, j, t, p) = s
        /\ j \notin s.dep[p][m] => Register(s, j, t, p) = u
    BY <1>4, <2>1 DEF Register, Left
  <2>3. j \notin s.dep[p][m] => Enlisted(u, s, j, w, M)
    BY <1>4, <2>1, CountEnlisted
  <2> HIDE DEF u
  <2> QED BY <2>2, <2>3, EnlistedSelf
<1>5. CASE s.st[p] \notin Unknown /\ t \in Before /\ s.on[p] = 0
  <2>1. t \notin After /\ ~(s.on[p] # 0)
    BY <1>5 DEF Before, After
  <2>2. Register(s, j, t, p) = s \/ Register(s, j, t, p) = Reject(s, j, t, p)
    BY <1>5, <2>1 DEF Register
  <2> QED BY <2>2, EnlistedSelf, RejectEnlisted
<1>6. t \in After \/ t \in Before
  BY MirrorType
<1> QED BY <1>2, <1>3, <1>4, <1>5, <1>6

\* All the entries of j are registered.
LEMMA AllEnlisted ==
  ASSUME NEW s \in Rec, NEW j \in Jobs, NEW w, NEW M, \A y \in After : <<y, j>> \notin M
  PROVE  Enlisted(SendToAll(s, j, w[j], "que"), s, j, w, M)
<1> DEFINE G == {v \in Rec : Enlisted(v, s, j, w, M)}
           l == w[j]
<1>1. s \in G
  BY EnlistedSelf
<1>2. ASSUME NEW v \in G, NEW t \in 0..7, NEW p \in Jobs, p \in l[t]
      PROVE  send_depend_req(v, j, t, p, "que") \in G
  <2> DEFINE u == Register(v, j, t, p)
  <2>1. send_depend_req(v, j, t, p, "que") = u
    BY DEF send_depend_req
  <2>2. Enlisted(u, v, j, w, M)
    BY <1>2, RegisterEnlisted
  <2> HIDE DEF u
  <2>3. Enlisted(u, s, j, w, M)
    BY <1>2, <2>2, EnlistedTwice
  <2>4. u \in Rec
    BY <2>3 DEF Enlisted
  <2> QED BY <2>1, <2>3, <2>4
<1> HIDE DEF G, l
<1>3. SendToAll(s, j, l, "que") \in G
  BY <1>1, <1>2, AllKeeps
<1> QED BY <1>3 DEF G, l

-----------------------------------------------------------------------------
(* The invariant.                                                           *)

\* the dependencies that are met
MetSet == {e \in After \X Jobs : Met(e[1], e[2])}

\* what the runs of a job have left behind
Sound(q) ==
  /\ st[q] \in {"SENT", "RUNNING"} \cup Ending => q \in started
  /\ st[q] = "KILLED" => blame[q] # {}
  /\ ~History => st[q] # "FINISHED"
  /\ st[q] \in Ending => exit[q] \in ended[q]
  /\ st[q] = "new" => q \notin started /\ ended[q] = {} /\ blame[q] = {} /\ want[q] = None
  /\ ~LateFailure => /\ st[q] \in Ending => ended[q] \subseteq {exit[q]}
                     /\ st[q] \notin Ending \cup {"FINISHED", "gone"} => ended[q] = {}

\* What is asked for is in the lists, or met; a count that is used up has been got for it.
Asked ==
  \A q \in Jobs : st[q] \notin Over =>
     /\ \A t \in After : \A p \in want[q][t] : p \in dep[q][t] \/ Met(t, p)
     /\ wantOn[q] <= on[q] + Cardinality(Got(S, want, MetSet, q))

\* A job that is about to tell of its start has begun.
Telling == \A k \in Ts(S) : k.fn = "post_run_depend" => Met(AFTERSTART, k.job)

\* A registration that was rejected was asked for.
Answers == \A k \in Ts(S) : k.fn = "post_doq" => k.other \in want[k.job][k.type]

Wanted == (\A q \in Jobs : Sound(q)) /\ Answers /\ (~History => Asked /\ Telling)

\* what AbortedForCause says of a step
Cause ==
  /\ \A e \in NewBlame("Delete")   : ~Met(e[2].type, e[2].other)
  /\ \A e \in NewBlame("Register") : e[2].other \in want[e[1]][e[2].type]

\* What has been met stays met.
LEMMA MetGrows ==
  ASSUME started \subseteq started', \A q \in Jobs : ended[q] \subseteq ended'[q] /\ blame[q] \subseteq blame'[q]
  PROVE  (\A t \in After, p \in Jobs : Met(t, p) => Met(t, p)') /\ MetSet \subseteq MetSet'
<1>1. ASSUME NEW t \in After, NEW p \in Jobs, Met(t, p)  PROVE Met(t, p)'
  <2>1. ended[p] \subseteq ended'[p] /\ blame[p] \subseteq blame'[p]
    OBVIOUS
  <2>2. CASE t = 0
    BY <1>1, <2>1, <2>2 DEF Met, AFTERSTART, AFTEROK, AFTERNOTOK, AFTERANY
  <2>3. CASE t = 1
    BY <1>1, <2>1, <2>3 DEF Met, AFTERSTART, AFTEROK, AFTERNOTOK, AFTERANY
  <2>4. CASE t = 2
    BY <1>1, <2>1, <2>4 DEF Met, AFTERSTART, AFTEROK, AFTERNOTOK, AFTERANY
  <2>5. CASE t = 3
    BY <1>1, <2>1, <2>5 DEF Met, AFTERSTART, AFTEROK, AFTERNOTOK, AFTERANY
  <2> QED BY <2>2, <2>3, <2>4, <2>5 DEF After
<1>2. MetSet \subseteq MetSet'
  BY <1>1 DEF MetSet
<1> QED BY <1>1, <1>2

\* The variables that the operations work on.
LEMMA Parts == S.st = st /\ S.dep = dep /\ S.on = on /\ S.tasks = tasks /\ S.blame = blame
BY DEF S

\* What the operations give is what the variables become.
LEMMA BecomesIs ==
  ASSUME NEW u \in Rec, Becomes(u)
  PROVE  S' = u
<1>1. u = [st |-> u.st, dep |-> u.dep, on |-> u.on, tasks |-> u.tasks, blame |-> u.blame]
  BY DEF Rec
<1> QED BY <1>1 DEF Becomes, S

\* A job that has a cause to go onward is sound.
LEMMA SoundOnward ==
  ASSUME NEW q \in Jobs, Sound(q), Onward(st[q], st'[q], blame'[q]), Lasting(st[q], st'[q]),
         blame[q] \subseteq blame'[q], st[q] \in Unknown => blame'[q] = blame[q],
         want' = want, q \in started' <=> q \in started, ended'[q] = ended[q], exit'[q] = exit[q]
  PROVE  Sound(q)'
<1>1. CASE st'[q] = st[q]
  BY <1>1 DEF Sound, Unknown
<1>2. CASE st[q] = "HELD" /\ st'[q] = "QUEUED"
  BY <1>2 DEF Sound, Ending
<1>3. CASE st[q] \in OnMom /\ st'[q] = "KILLED" /\ blame'[q] # {}
  BY <1>3 DEF Sound, Ending, OnMom
<1>4. CASE st[q] \notin Unknown /\ st'[q] \in OverNow
  BY <1>4 DEF Sound, Ending, OverNow
<1> QED BY <1>1, <1>2, <1>3, <1>4 DEF Onward

\* New reasons are those that the operations give.
LEMMA FreedCause ==
  ASSUME NEW B, \A q \in Jobs : blame'[q] \subseteq blame[q] \cup B,
         \A w \in B : w.why = "Delete" /\ ~Met(w.type, w.other)
  PROVE  Cause
<1>1. ASSUME NEW why, NEW e \in NewBlame(why)
      PROVE  e[2] \in B /\ e[2].why = why
  BY <1>1 DEF NewBlame
<1>2. ~("Register" = "Delete")
  OBVIOUS
<1> QED BY <1>1, <1>2 DEF Cause

\* A step that tells of a start or an end.
LEMMA FreedStep ==
  ASSUME Wanted, NEW u, Becomes(u), NEW p \in Jobs, NEW D, NEW B, NEW x, Freed(u, S, p, D, B, x),
         Inv, want' = want, wantOn' = wantOn, started \subseteq started', started' \subseteq started \cup {x},
         \A q \in Jobs : /\ ended[q] \subseteq ended'[q]
                         /\ q # x => ended'[q] = ended[q] /\ exit'[q] = exit[q],
         ~History => \A t \in After : t \in D => Met(t, p)',
         x \in Jobs => Sound(x)'
  PROVE  /\ Wanted'
         /\ (\A w \in B : w.why = "Delete" /\ ~Met(w.type, w.other)) => Cause
<1>1. u \in Rec
  BY DEF Freed
<1>2. S' = u
  BY <1>1, BecomesIs
<1>3. st' = u.st /\ dep' = u.dep /\ on' = u.on /\ blame' = u.blame
  BY DEF Becomes
<1>4. /\ on' = on
      /\ \A q \in Jobs, t \in After : \A y \in dep[q][t] : y \in dep'[q][t] \/ (y = p /\ t \in D)
      /\ \A k \in Ts(u) : k \in Ts(S) \/ k.fn \in {"post_doe", "on_job_exit"}
  BY <1>3, Parts DEF Freed
<1>5. \A q \in Jobs : /\ q # x => Onward(st[q], st'[q], blame'[q])
                      /\ Lasting(st[q], st'[q])
                      /\ blame[q] \subseteq blame'[q]
                      /\ blame'[q] \subseteq blame[q] \cup B
                      /\ st[q] \in Unknown => blame'[q] = blame[q]
  BY <1>3, Parts DEF Freed
<1>6. (\A t \in After, r \in Jobs : Met(t, r) => Met(t, r)') /\ MetSet \subseteq MetSet'
  BY <1>5, MetGrows
<1>7. ASSUME NEW q \in Jobs  PROVE Sound(q)'
  <2>1. CASE q = x
    BY <2>1
  <2>2. CASE q # x
    <3>1. Sound(q) /\ (q \in started' <=> q \in started) /\ ended'[q] = ended[q] /\ exit'[q] = exit[q]
      BY <2>2 DEF Wanted
    <3> QED BY <1>5, <2>2, <3>1, SoundOnward
  <2> QED BY <2>1, <2>2
<1>8. Answers'
  <2>1. \A k \in Ts(u) : k.fn = "post_doq" => k \in Ts(S)
    BY <1>4
  <2> QED BY <1>2, <2>1 DEF Wanted, Answers
<1>9. S \in Rec
  BY DEF Inv, Fine
<1>10. ASSUME ~History  PROVE Telling'
  <2>1. \A k \in Ts(S) : k.job \in Jobs
    BY <1>9, TsType DEF Tasks
  <2>2. \A k \in Ts(u) : k.fn = "post_run_depend" => k \in Ts(S) /\ Met(AFTERSTART, k.job)
    BY <1>4, <1>10 DEF Wanted, Telling
  <2>3. AFTERSTART \in After
    BY DEF AFTERSTART, After
  <2> QED BY <1>2, <1>6, <2>1, <2>2, <2>3 DEF Telling
<1>11. ASSUME ~History  PROVE Asked'
  <2> SUFFICES ASSUME NEW q \in Jobs, st'[q] \notin Over
               PROVE  /\ \A t \in After : \A y \in want[q][t] : y \in dep'[q][t] \/ Met(t, y)'
                      /\ wantOn[q] <= on[q] + Cardinality(Got(u, want, MetSet', q))
    BY <1>2, <1>4 DEF Asked
  <2>1. st[q] \notin Over
    BY <1>5 DEF Lasting, Over, Unknown
  <2>2. /\ \A t \in After : \A y \in want[q][t] : y \in dep[q][t] \/ Met(t, y)
        /\ wantOn[q] <= on[q] + Cardinality(Got(S, want, MetSet, q))
    BY <1>11, <2>1 DEF Wanted, Asked
  <2>3. want \in [Jobs -> [0..7 -> SUBSET Jobs]] /\ wantOn[q] \in Int /\ on[q] \in Int
    <3>1. want \in [Jobs -> [0..7 -> SUBSET Jobs]] /\ wantOn[q] \in Count
      BY DEF Inv, Rest
    <3>2. on[q] \in Count
      BY <1>9, Parts DEF Rec
    <3> QED BY <3>1, <3>2 DEF Count, Uncounted
  <2>4. \A t \in After : want[q][t] \subseteq Jobs
    BY <2>3 DEF After
  <2>5. ASSUME NEW t \in After, NEW y \in want[q][t]  PROVE y \in dep'[q][t] \/ Met(t, y)'
    BY <1>4, <1>6, <1>11, <2>2, <2>4, <2>5
  <2>6. Got(S, want, MetSet, q) \subseteq Got(u, want, MetSet', q)
    <3> SUFFICES ASSUME NEW e \in Got(S, want, MetSet, q)  PROVE e \in Got(u, want, MetSet', q)
      OBVIOUS
    <3> DEFINE m == Mirror(e[1])
    <3>1. /\ e \in Before \X Jobs /\ q \in want[e[2]][e[1]]
          /\ e[2] \in dep[q][m] \/ <<m, e[2]>> \in MetSet
      BY Parts DEF Got
    <3>2. m \in After /\ e[2] \in Jobs
      BY <3>1, MirrorType DEF Before
    <3> HIDE DEF m
    <3>3. CASE <<m, e[2]>> \in MetSet
      BY <1>6, <3>1, <3>3 DEF Got, m
    <3>4. CASE e[2] \in dep[q][m]
      <4>1. e[2] \in u.dep[q][m] \/ (e[2] = p /\ m \in D)
        BY <1>3, <1>4, <3>2, <3>4
      <4>2. CASE e[2] \in u.dep[q][m]
        BY <3>1, <4>2 DEF Got, m
      <4>3. CASE e[2] = p /\ m \in D
        <5>1. Met(m, e[2])'
          BY <1>11, <3>2, <4>3
        <5>2. <<m, e[2]>> \in MetSet'
          BY <3>2, <5>1 DEF MetSet
        <5> QED BY <3>1, <5>2 DEF Got, m
      <4> QED BY <4>1, <4>2, <4>3
    <3> QED BY <3>1, <3>3, <3>4
  <2>7. Cardinality(Got(S, want, MetSet, q)) <= Cardinality(Got(u, want, MetSet', q))
    BY <2>6, GotGrows
  <2>8. Cardinality(Got(S, want, MetSet, q)) \in Int /\ Cardinality(Got(u, want, MetSet', q)) \in Int
    BY GotFinite
  <2>9. wantOn[q] <= on[q] + Cardinality(Got(u, want, MetSet', q))
    BY <2>2, <2>3, <2>7, <2>8
  <2> QED BY <2>5, <2>9
<1>12. ASSUME \A w \in B : w.why = "Delete" /\ ~Met(w.type, w.other)  PROVE Cause
  BY <1>5, <1>12, FreedCause
<1> QED BY <1>7, <1>8, <1>10, <1>11, <1>12 DEF Wanted

\* The invariant says that no job is early.
LEMMA WantedEarly == Counted /\ Wanted /\ ~History => NeverEarly
<1> SUFFICES ASSUME Counted, Wanted, ~History, NEW j \in Jobs, st[j] \in {"QUEUED"} \cup OnMom
             PROVE  /\ \A t \in After : \A p \in want[j][t] : Met(t, p)
                    /\ Cardinality({e \in Before \X Jobs : j \in want[e[2]][e[1]] /\ Met(Mirror(e[1]), e[2])})
                         >= wantOn[j]
  BY DEF NeverEarly
<1>1. S \in Rec /\ Held(S, j) /\ S.on[j] # Uncounted /\ S.st = st /\ S.dep = dep /\ S.on = on
  BY CountedFine, Parts DEF Fine
<1>2. ~Pending(S, j)
  BY <1>1 DEF Held, Over, OnMom
<1>3. (\A t \in After : dep[j][t] = {}) /\ on[j] \in Count /\ ~(on[j] > 0)
  BY <1>1, <1>2 DEF Pending, Rec
<1>4. on[j] = 0
  BY <1>1, <1>3 DEF Count, Uncounted
<1>5. /\ \A t \in After : \A p \in want[j][t] : p \in dep[j][t] \/ Met(t, p)
      /\ wantOn[j] <= on[j] + Cardinality(Got(S, want, MetSet, j))
  BY DEF Wanted, Asked, Over, OnMom
<1> DEFINE g == {e \in Before \X Jobs : j \in want[e[2]][e[1]] /\ Met(Mirror(e[1]), e[2])}
<1>6. Got(S, want, MetSet, j) = g
  <2>1. \A e \in Before \X Jobs : Mirror(e[1]) \in After /\ e[2] \in Jobs
    BY MirrorType DEF Before
  <2>2. \A e \in Before \X Jobs : <<Mirror(e[1]), e[2]>> \in MetSet <=> Met(Mirror(e[1]), e[2])
    BY <2>1 DEF MetSet
  <2> QED BY <1>1, <1>3, <2>1, <2>2 DEF Got
<1>7. Cardinality(g) \in Int /\ wantOn[j] \in Int
  <2>1. Cardinality(Got(S, want, MetSet, j)) \in Int
    BY GotFinite
  <2>2. wantOn[j] \in Int
    BY DEF Counted, Inv, Rest, Count, Uncounted
  <2> HIDE DEF g
  <2> QED BY <1>6, <2>1, <2>2
<1> HIDE DEF g
<1>8. Cardinality(g) >= wantOn[j]
  BY <1>4, <1>5, <1>6, <1>7
<1> QED BY <1>3, <1>5, <1>8 DEF g

\* It holds at the start.
LEMMA WantedInit == Init => Wanted
<1> SUFFICES ASSUME Init  PROVE Wanted
  OBVIOUS
<1>1. \A q \in Jobs : Sound(q)
  BY DEF Init, Sound, Ending
<1>2. Ts(S) = {}
  BY Parts DEF Init, Ts, Elems
<1>3. Asked
  BY DEF Init, Asked, Over
<1> QED BY <1>1, <1>2, <1>3 DEF Wanted, Answers, Telling

\* A step that leaves the runs of all jobs alone.
LEMMA QuietStep ==
  ASSUME Wanted, NEW u, Becomes(u), NEW p \in Jobs, NEW D, NEW B, Freed(u, S, p, D, B, 0),
         Inv, UNCHANGED <<exit, asked, ran>>, ~History => \A t \in After : t \in D => Met(t, p)
  PROVE  /\ Wanted'
         /\ (\A w \in B : w.why = "Delete" /\ ~Met(w.type, w.other)) => Cause
<1>1. 0 \notin Jobs
  BY DEF Jobs
<1>2. want' = want /\ wantOn' = wantOn /\ started' = started /\ ended' = ended /\ exit' = exit
  BY DEF asked, ran
<1>3. \A q \in Jobs : blame[q] \subseteq blame'[q]
  BY Parts DEF Freed, Becomes
<1>4. ~History => \A t \in After : t \in D => Met(t, p)'
  BY <1>2, <1>3, MetGrows
<1> QED BY <1>1, <1>2, <1>4, FreedStep

\* A job that is deleted or purged.
LEMMA OverWanted == ASSUME NEW j \in Jobs  PROVE Inv /\ Wanted /\ (req_deletejob(j) \/ job_purge(j)) => Wanted' /\ Cause
<1> SUFFICES ASSUME Inv, Wanted, req_deletejob(j) \/ job_purge(j)  PROVE Wanted' /\ Cause
  OBVIOUS
<1>1. Becomes(Finish(S, j)) /\ UNCHANGED <<exit, asked, ran>> /\ S.st[j] \notin Unknown
  BY Parts DEF req_deletejob, job_purge, Waiting, Unknown
<1>2. S \in Rec
  BY DEF Inv, Fine
<1>3. Freed(Finish(S, j), S, j, {}, {}, 0)
  BY <1>1, <1>2, FinishFreed
<1> QED BY <1>1, <1>3, QuietStep

\* A job that is deleted by force.
LEMMA ForceWanted == ASSUME NEW j \in Jobs  PROVE Inv /\ Wanted /\ req_deletejob_force(j) => Wanted' /\ Cause
<1> SUFFICES ASSUME Inv, Wanted, req_deletejob_force(j)  PROVE Wanted' /\ Cause
  OBVIOUS
<1> DEFINE u == Finish(S, j)
<1>1. /\ Becomes(u) /\ exit' = [exit EXCEPT ![j] = "bad"] /\ S.st[j] \notin Unknown
      /\ want' = want /\ wantOn' = wantOn /\ started' = started /\ ended' = ended
  BY Parts DEF req_deletejob_force, OnMom, Ending, Unknown, ran
<1>2. S \in Rec /\ exit \in [Jobs -> {"none", "ok", "bad"}]
  BY DEF Inv, Fine, Rest
<1>3. \A q \in Jobs : q # j => exit'[q] = exit[q]
  BY <1>1, <1>2
<1>4. Freed(u, S, j, {}, {}, 0) /\ u.st[j] \in OverNow
  BY <1>1, <1>2, FinishFreed
<1> HIDE DEF u
<1>5. Freed(u, S, j, {}, {}, j)
  BY <1>4, FreedMore
<1>6. st'[j] \in OverNow
  BY <1>1, <1>4 DEF Becomes
<1>7. Sound(j)'
  BY <1>6 DEF Sound, OverNow, Ending
<1> QED BY <1>1, <1>3, <1>5, <1>7, FreedStep

\* A job of the history is forgotten.
LEMMA CleanWanted == ASSUME NEW j \in Jobs  PROVE Inv /\ Wanted /\ svr_clean_job_history(j) => Wanted' /\ Cause
<1> SUFFICES ASSUME Inv, Wanted, svr_clean_job_history(j)  PROVE Wanted' /\ Cause
  OBVIOUS
<1>1. Becomes(job_free(S, j)) /\ UNCHANGED <<exit, asked, ran>> /\ S.st[j] \notin Unknown
  BY Parts DEF svr_clean_job_history, Unknown
<1>2. S \in Rec
  BY DEF Inv, Fine
<1>3. Freed(job_free(S, j), S, j, {}, {}, 0)
  BY <1>1, <1>2, FreeFreed
<1> QED BY <1>1, <1>3, QuietStep

\* A job is sent to a MoM, or queued again.
LEMMA SendWanted == ASSUME NEW j \in Jobs  PROVE Inv /\ Wanted /\ (svr_startjob(j) \/ force_reque(j)) => Wanted' /\ Cause
<1> SUFFICES ASSUME Inv, Wanted, svr_startjob(j) \/ force_reque(j)  PROVE Wanted' /\ Cause
  OBVIOUS
<1>1. S \in Rec
  BY DEF Inv, Fine
<1>2. PICK state \in {"PRERUN", "QUEUED"} :
        Becomes(At(S, j, state)) /\ (~LateFailure => st[j] \in {"QUEUED"} \cup OnMom)
  <2>1. CASE svr_startjob(j)
    <3> DEFINE u == At(S, j, "PRERUN")
    <3>2. /\ u.st = [st EXCEPT ![j] = "PRERUN"] /\ u.dep = dep /\ u.on = on
          /\ u.tasks = tasks /\ u.blame = blame
      BY <1>1, Parts DEF At, Rec
    <3> HIDE DEF u
    <3>3. Becomes(u) /\ st[j] = "QUEUED"
      BY <2>1, <3>2 DEF svr_startjob, Becomes
    <3> QED BY <3>3 DEF u
  <2>2. CASE force_reque(j)
    BY <2>2 DEF force_reque, OnNode
  <2> QED BY <2>1, <2>2
<1>3. UNCHANGED <<exit, asked, ran>> /\ st[j] \in {"QUEUED"} \cup OnMom \cup Ending
  BY DEF svr_startjob, force_reque, OnNode
<1>4. state \in States /\ Lasting(S.st[j], state)
  BY <1>3, Parts DEF States, Waiting, OnMom, Ending, Lasting, Unknown
<1>5. Freed(At(S, j, state), S, j, {}, {}, j) /\ At(S, j, state).st[j] = state
  BY <1>1, <1>4, AtFreed
<1>6. st'[j] = state
  BY <1>2, <1>5 DEF Becomes
<1>7. want' = want /\ wantOn' = wantOn /\ started' = started /\ ended' = ended /\ exit' = exit
  BY <1>3 DEF asked, ran
<1>8. Sound(j)'
  <2>1. Sound(j)
    BY DEF Wanted
  <2> QED BY <1>2, <1>3, <1>6, <1>7, <2>1 DEF Sound, Ending, OnMom
<1> QED BY <1>2, <1>5, <1>7, <1>8, FreedStep

\* The first that the server hears of a start.
LEMMA CompleteFreed ==
  ASSUME NEW s, NEW y, Fine(s, {}, y), NEW j \in Jobs
  PROVE  Freed(complete_running(s, j), s, j, {AFTERSTART}, {}, 0)
<1>1. s \in Rec
  BY DEF Fine
<1>2. Freed(depend_on_exec(s, j), s, j, {AFTERSTART}, {}, 0)
  BY ExecFreed
<1> QED BY <1>1, <1>2, FreedSelf DEF complete_running

\* A job that has begun meets the dependencies on its start.
LEMMA BegunMet ==
  ASSUME NEW j, j \in started'
  PROVE  \A t \in After : t \in {AFTERSTART} => Met(t, j)'
BY DEF Met, AFTERSTART, AFTEROK, AFTERNOTOK, AFTERANY

\* Whatever a job with a MoM is told, it can be told of a new state.
LEMMA BegunFreed ==
  ASSUME Counted, NEW j \in Jobs, st[j] \in OnMom, NEW state \in {"SENT", "RUNNING", "EXITING"}
  PROVE  LET v == At(complete_running(S, j), j, state)
         IN  Freed(v, S, j, {AFTERSTART}, {}, j) /\ v.st[j] = state
<1> DEFINE s == complete_running(S, j)
           v == At(s, j, state)
<1>1. Fine(S, {}, 0)
  BY CountedFine
<1>2. Freed(s, S, j, {AFTERSTART}, {}, 0)
  BY <1>1, CompleteFreed
<1>3. s \in Rec /\ s.st[j] # "new" /\ Onward(S.st[j], s.st[j], s.blame[j])
  BY <1>2, Parts DEF Freed, Lasting, OnMom, Jobs
<1>4. s.st[j] \notin Over
  <2>1. s.st[j] = S.st[j]
    <3>1. CASE S.st[j] = "PRERUN"
      <4>1. s = depend_on_exec(S, j) /\ S.st[j] # "HELD"
        BY <3>1 DEF complete_running
      <4>2. Calm(depend_on_exec(S, j), S)
        BY <1>1, ExecFreed
      <4> QED BY <4>1, <4>2 DEF Calm
    <3>2. CASE S.st[j] # "PRERUN"
      BY <3>2 DEF complete_running
    <3> QED BY <3>1, <3>2
  <2> QED BY <2>1, Parts DEF OnMom, Over
<1>5. state \in States /\ Lasting(s.st[j], state)
  BY <1>4 DEF States, OnMom, Ending, Lasting, Over, Unknown
<1> HIDE DEF s
<1>6. Freed(v, s, j, {AFTERSTART}, {}, j) /\ v.st[j] = state
  BY <1>3, <1>5, AtFreed
<1>7. Freed(s, S, j, {AFTERSTART}, {}, j)
  BY <1>2, FreedMore
<1> HIDE DEF v
<1>8. Freed(v, S, j, {AFTERSTART}, {}, j)
  BY <1>6, <1>7, FreedTwice
<1> QED BY <1>6, <1>8 DEF s, v

\* The MoM has taken the job.
LEMMA SentWanted == ASSUME NEW j \in Jobs  PROVE Counted /\ Wanted /\ post_sendmom(j) => Wanted' /\ Cause
<1> SUFFICES ASSUME Counted, Inv, Wanted, post_sendmom(j)  PROVE Wanted' /\ Cause
  BY DEF Counted
<1> DEFINE u == At(complete_running(S, j), j, "SENT")
<1>1. Becomes(u) /\ st[j] \in OnMom /\ started' = started \cup {j} /\ ended' = ended /\ exit' = exit
      /\ want' = want /\ wantOn' = wantOn
  BY DEF post_sendmom, OnMom, asked
<1>2. Freed(u, S, j, {AFTERSTART}, {}, j) /\ u.st[j] = "SENT"
  BY <1>1, BegunFreed
<1> HIDE DEF u
<1>3. st'[j] = "SENT"
  BY <1>1, <1>2 DEF Becomes
<1>4. Sound(j)'
  <2>1. Sound(j)
    BY DEF Wanted
  <2> QED BY <1>1, <1>3, <2>1 DEF Sound, Ending, OnMom
<1>5. \A t \in After : t \in {AFTERSTART} => Met(t, j)'
  BY <1>1, BegunMet
<1> QED BY <1>1, <1>2, <1>4, <1>5, FreedStep

\* The MoM reports that the job runs.
LEMMA StatWanted == ASSUME NEW j \in Jobs  PROVE Counted /\ Wanted /\ stat_update(j) => Wanted' /\ Cause
<1> SUFFICES ASSUME Counted, Inv, Wanted, stat_update(j)  PROVE Wanted' /\ Cause
  BY DEF Counted
<1> DEFINE c == complete_running(S, j)
           v == At(c, j, "RUNNING")
           u == depend_on_exec(v, j)
<1>1. Becomes(u) /\ st[j] \in OnMom /\ started' = started \cup {j} /\ ended' = ended /\ exit' = exit
      /\ want' = want /\ wantOn' = wantOn
  BY DEF stat_update, OnMom, asked
<1>2. Freed(v, S, j, {AFTERSTART}, {}, j) /\ v.st[j] = "RUNNING"
  BY <1>1, BegunFreed
<1>3. Fine(S, {}, j)
  BY <1>1, CountedStarted, Parts
<1>4. "RUNNING" \in States /\ "RUNNING" # "HELD"
  BY DEF States, OnMom
<1>5. Fine(c, {}, j)
  BY <1>3, CompleteFine
<1> HIDE DEF c
<1>6. Fine(v, {}, j)
  BY <1>4, <1>5, GoOn DEF At
<1> HIDE DEF v
<1>7. Freed(u, v, j, {AFTERSTART}, {}, 0) /\ Calm(u, v)
  BY <1>6, ExecFreed
<1> HIDE DEF u
<1>8. Freed(u, v, j, {AFTERSTART}, {}, j)
  BY <1>7, FreedMore
<1>9. Freed(u, S, j, {AFTERSTART}, {}, j)
  BY <1>2, <1>8, FreedTwice
<1>10. st'[j] = "RUNNING"
  BY <1>1, <1>2, <1>7 DEF Becomes, Calm
<1>11. Sound(j)'
  <2>1. Sound(j)
    BY DEF Wanted
  <2> QED BY <1>1, <1>10, <2>1 DEF Sound, Ending, OnMom
<1>12. \A t \in After : t \in {AFTERSTART} => Met(t, j)'
  BY <1>1, BegunMet
<1> QED BY <1>1, <1>9, <1>11, <1>12, FreedStep

\* The obituary is in.
LEMMA ObitWanted == ASSUME NEW j \in Jobs  PROVE Counted /\ Wanted /\ job_obit(j) => Wanted' /\ Cause
<1> SUFFICES ASSUME Counted, Inv, Wanted, job_obit(j)  PROVE Wanted' /\ Cause
  BY DEF Counted
<1> DEFINE v == At(complete_running(S, j), j, "EXITING")
           k == [fn |-> "on_job_exit", job |-> j]
           u == [v EXCEPT !.tasks = Append(@, k)]
<1>1. Becomes(u) /\ st[j] \in OnMom /\ started' = started \cup {j} /\ want' = want /\ wantOn' = wantOn
  BY DEF job_obit, Task, asked
<1>2. PICK code \in {"ok", "bad"} : /\ exit' = [exit EXCEPT ![j] = code]
                                    /\ ended' = [ended EXCEPT ![j] = @ \cup {code}]
  BY DEF job_obit, ExitStatus
<1>3. exit \in [Jobs -> {"none", "ok", "bad"}] /\ ended \in [Jobs -> SUBSET {"ok", "bad"}]
  BY DEF Inv, Rest
<1>4. /\ exit'[j] = code /\ ended'[j] = ended[j] \cup {code}
      /\ \A q \in Jobs : q # j => exit'[q] = exit[q] /\ ended'[q] = ended[q]
  BY <1>2, <1>3
<1>5. Freed(v, S, j, {AFTERSTART}, {}, j) /\ v.st[j] = "EXITING"
  BY <1>1, BegunFreed
<1>6. v \in Rec
  BY <1>5 DEF Freed
<1>7. k \in Tasks /\ k.fn \in {"post_doe", "on_job_exit"}
  BY DEF Tasks
<1> HIDE DEF v, k
<1>8. Freed(u, v, j, {AFTERSTART}, {}, 0) /\ u.st = v.st
  <2>1. Freed(u, v, j, {AFTERSTART}, {}, 0)
    BY <1>6, <1>7, AppendFreed
  <2> QED BY <1>6, <2>1 DEF Rec
<1> HIDE DEF u
<1>9. Freed(u, v, j, {AFTERSTART}, {}, j)
  BY <1>8, FreedMore
<1>10. Freed(u, S, j, {AFTERSTART}, {}, j)
  BY <1>5, <1>9, FreedTwice
<1>11. st'[j] = "EXITING"
  BY <1>1, <1>5, <1>8 DEF Becomes
<1>12. Sound(j)'
  <2>1. Sound(j)
    BY DEF Wanted
  <2>2. ~LateFailure => ended[j] = {}
    BY <1>1, <2>1 DEF Sound, Ending, OnMom
  <2> QED BY <1>1, <1>4, <1>11, <2>2 DEF Sound, Ending
<1>13. \A t \in After : t \in {AFTERSTART} => Met(t, j)'
  BY <1>1, <1>1, BegunMet
<1> QED BY <1>1, <1>4, <1>10, <1>12, <1>13, FreedStep

\* The end of a job meets what depends on such an end, and nothing else is met by it.
LEMMA EndMet ==
  ASSUME NEW j \in Jobs, NEW ok \in BOOLEAN, NEW code, code = IF ok THEN "ok" ELSE "bad"
  PROVE  /\ code \in ended'[j] => \A t \in After : t \in MetBy(ok) => Met(t, j)'
         /\ ended[j] \subseteq {code} => \A w \in {EndOf(j, ok)} : w.why = "Delete" /\ ~Met(w.type, w.other)
<1> DEFINE x == EndOf(j, ok)
<1>1. x.why = "Delete" /\ x.other = j /\ x.type = IF ok THEN AFTERNOTOK ELSE AFTEROK
  BY DEF EndOf
<1> HIDE DEF x
<1>2. CASE ok
  <2>1. code = "ok" /\ MetBy(ok) = {1, 3} /\ x.type = 2
    BY <1>1, <1>2 DEF MetBy, AFTEROK, AFTERNOTOK, AFTERANY
  <2>2. ASSUME code \in ended'[j]  PROVE Met(1, j)'
    BY <2>1, <2>2 DEF Met, AFTERSTART, AFTEROK, AFTERNOTOK, AFTERANY
  <2>3. ASSUME code \in ended'[j]  PROVE Met(3, j)'
    BY <2>1, <2>3 DEF Met, AFTERSTART, AFTEROK, AFTERNOTOK, AFTERANY
  <2>4. ASSUME ended[j] \subseteq {code}  PROVE ~Met(2, j)
    BY <2>1, <2>4 DEF Met, AFTERSTART, AFTEROK, AFTERNOTOK, AFTERANY
  <2> QED BY <1>1, <2>1, <2>2, <2>3, <2>4 DEF x
<1>3. CASE ~ok
  <2>1. code = "bad" /\ MetBy(ok) = {2, 3} /\ x.type = 1
    BY <1>1, <1>3 DEF MetBy, AFTEROK, AFTERNOTOK, AFTERANY
  <2>2. ASSUME code \in ended'[j]  PROVE Met(2, j)'
    BY <2>1, <2>2 DEF Met, AFTERSTART, AFTEROK, AFTERNOTOK, AFTERANY
  <2>3. ASSUME code \in ended'[j]  PROVE Met(3, j)'
    BY <2>1, <2>3 DEF Met, AFTERSTART, AFTEROK, AFTERNOTOK, AFTERANY
  <2>4. ASSUME ended[j] \subseteq {code}  PROVE ~Met(1, j)
    BY <2>1, <2>4 DEF Met, AFTERSTART, AFTEROK, AFTERNOTOK, AFTERANY
  <2> QED BY <1>1, <2>1, <2>2, <2>3, <2>4 DEF x
<1> QED BY <1>2, <1>3

\* The job has ended: those that wait for it are told.
LEMMA ExitWanted ==
  ASSUME NEW j \in Jobs
  PROVE  Counted /\ Wanted /\ on_job_exit(j) => Wanted' /\ (~LateFailure => Cause)
<1> SUFFICES ASSUME Counted, Inv, Wanted, on_job_exit(j)  PROVE Wanted' /\ (~LateFailure => Cause)
  BY DEF Counted
<1> DEFINE v == At(S, j, "EXITED")
           ok == exit[j] = "ok"
           u == depend_on_term(v, j, ok)
           D == MetBy(ok)
           B == {EndOf(j, ok)}
<1>1. /\ Becomes(u) /\ st[j] \in Ending /\ S.st[j] \in Ending
      /\ started' = started /\ ended' = ended /\ exit' = exit /\ want' = want /\ wantOn' = wantOn
  BY Parts DEF on_job_exit, Ending, asked, ran
<1>2. Fine(S, {}, j) /\ S \in Rec
  BY <1>1, CountedStarted DEF Fine
<1>3. "EXITED" \in States /\ "EXITED" # "HELD" /\ Lasting(S.st[j], "EXITED")
  BY <1>1 DEF States, Ending, Lasting, Over, Unknown
<1>4. Fine(v, {}, j)
  BY <1>2, <1>3, GoOn DEF At
<1>5. Freed(v, S, j, D, B, j) /\ v.st[j] = "EXITED"
  BY <1>2, <1>3, AtFreed
<1>6. ok \in BOOLEAN
  OBVIOUS
<1>7. /\ exit[j] \in ended[j] /\ ended[j] \subseteq {"ok", "bad"} /\ j \in started
      /\ ~LateFailure => ended[j] \subseteq {exit[j]}
  BY <1>1 DEF Wanted, Sound, Inv, Rest
<1> HIDE DEF v
<1>8. Freed(u, v, j, D, B, 0)
  <2> HIDE DEF ok
  <2> QED BY <1>4, <1>6, TermFreed
<1> DEFINE code == IF ok THEN "ok" ELSE "bad"
<1>7a. code = exit[j]
  BY <1>7
<1>8a. /\ code \in ended'[j] => \A t \in After : t \in D => Met(t, j)'
       /\ ended[j] \subseteq {code} => \A w \in B : w.why = "Delete" /\ ~Met(w.type, w.other)
  <2> HIDE DEF ok
  <2> QED BY <1>6, EndMet
<1> HIDE DEF code
<1>9. \A t \in After : t \in D => Met(t, j)'
  BY <1>7a, <1>1, <1>7, <1>8a
<1>10. ~LateFailure => \A w \in B : w.why = "Delete" /\ ~Met(w.type, w.other)
  BY <1>7a, <1>7, <1>8a
<1> HIDE DEF u, D, B
<1>11. Freed(u, v, j, D, B, j)
  BY <1>8, FreedMore
<1>12. Freed(u, S, j, D, B, j)
  BY <1>5, <1>11, FreedTwice
<1>13. st'[j] \in {"EXITED"} \cup OverNow
  <2>1. Onward("EXITED", u.st[j], u.blame[j])
    BY <1>5, <1>8 DEF Freed, Jobs
  <2> QED BY <1>1, <2>1 DEF Becomes, Onward, OnMom
<1>14. Sound(j)'
  BY <1>1, <1>7, <1>13 DEF Sound, Ending, OverNow
<1>15. /\ Wanted'
       /\ (\A w \in B : w.why = "Delete" /\ ~Met(w.type, w.other)) => Cause
  BY <1>1, <1>9, <1>12, <1>14, FreedStep
<1> QED BY <1>10, <1>15

\* The node of the job stays down.
LEMMA DownWanted ==
  ASSUME NEW j \in Jobs
  PROVE  Counted /\ Agreed /\ Wanted /\ node_down_requeue(j) => Wanted' /\ (~LateFailure => Cause)
<1> SUFFICES ASSUME Counted, Inv, Agreed, Wanted, node_down_requeue(j)
             PROVE  Wanted' /\ (~LateFailure => Cause)
  BY DEF Counted
<1> DEFINE v == depend_on_term(S, j, FALSE)
           u == Finish(v, j)
           D == MetBy(FALSE)
           B == {EndOf(j, FALSE)}
<1>1. /\ Becomes(u) /\ st[j] \in OnMom \cup Ending /\ (~LateFailure => st[j] \in OnMom)
      /\ started' = started /\ want' = want /\ wantOn' = wantOn
      /\ exit' = [exit EXCEPT ![j] = "bad"]
      /\ ended' = [ended EXCEPT ![j] = @ \cup {"bad"}]
  BY DEF node_down_requeue, OnNode, ExitStatus, asked
<1>2. exit \in [Jobs -> {"none", "ok", "bad"}] /\ ended \in [Jobs -> SUBSET {"ok", "bad"}]
  BY DEF Inv, Rest
<1>3. /\ exit'[j] = "bad" /\ ended'[j] = ended[j] \cup {"bad"}
      /\ \A q \in Jobs : q # j => exit'[q] = exit[q] /\ ended'[q] = ended[q]
  BY <1>1, <1>2
<1>4. Fine(S, {}, 0) /\ S.st[j] \notin Unknown /\ S.st[j] # "gone"
  BY <1>1, CountedFine, Parts DEF Unknown, OnMom, Ending
<1>5. Freed(v, S, j, D, B, 0)
  BY <1>4, TermFreed
<1>6. v.st[j] # "gone"
  BY <1>4, TermAgree DEF Agreed
<1>7. ~LateFailure => ended[j] = {}
  BY <1>1 DEF Wanted, Sound, OnMom, Ending
<1>7a. /\ "bad" \in ended'[j] => \A t \in After : t \in D => Met(t, j)'
       /\ ended[j] \subseteq {"bad"} => \A w \in B : w.why = "Delete" /\ ~Met(w.type, w.other)
  BY EndMet
<1> HIDE DEF v, D, B
<1>8. \A t \in After : t \in D => Met(t, j)'
  BY <1>3, <1>7a
<1>9. ~LateFailure => \A w \in B : w.why = "Delete" /\ ~Met(w.type, w.other)
  <2>1. ended[j] = {} => ended[j] \subseteq {"bad"}
    OBVIOUS
  <2> QED BY <1>7, <1>7a, <2>1
<1>10. v \in Rec /\ v.st[j] \notin Unknown
  BY <1>4, <1>5, <1>6 DEF Freed, Lasting, Unknown
<1>11. Freed(u, v, j, D, B, 0) /\ u.st[j] \in OverNow
  BY <1>10, FinishFreed
<1> HIDE DEF u
<1>12. Freed(u, S, j, D, B, 0)
  BY <1>5, <1>11, FreedTwice
<1>13. Freed(u, S, j, D, B, j)
  BY <1>12, FreedMore
<1>14. Sound(j)'
  <2>1. st'[j] \in OverNow
    BY <1>1, <1>11 DEF Becomes
  <2> QED BY <1>3, <2>1 DEF Sound, OverNow, Ending
<1>15. /\ Wanted'
       /\ (\A w \in B : w.why = "Delete" /\ ~Met(w.type, w.other)) => Cause
  BY <1>1, <1>3, <1>8, <1>13, <1>14, FreedStep
<1> QED BY <1>9, <1>15

\* What is left of the tasks frees nobody.
LEMMA HeadFreed ==
  ASSUME Counted, tasks # <<>>, NEW p, NEW D, NEW B
  PROVE  LET s == [S EXCEPT !.tasks = Tail(@)]
         IN  /\ Fine(s, {}, 0) /\ Freed(s, S, p, D, B, 0) /\ s.blame = blame /\ s.st = st
             /\ Head(tasks) \in Tasks /\ Head(tasks) \in Ts(S)
<1> DEFINE s == [S EXCEPT !.tasks = Tail(@)]
           q == Tail(tasks)
<1>1. Fine(S, {}, 0) /\ S \in Rec /\ S.tasks = tasks /\ tasks \in Seq(Tasks)
  BY CountedFine DEF Fine, Rec, S
<1>2. Head(tasks) \in Tasks /\ q \in Seq(Tasks) /\ Elems(tasks) = Elems(q) \cup {Head(tasks)}
  BY <1>1, ElemsTail
<1>3. s \in Rec /\ s.st = S.st /\ s.dep = S.dep /\ s.on = S.on /\ s.blame = S.blame
  BY <1>1, <1>2 DEF Rec
<1>4. s = [S EXCEPT !.tasks = q]
  BY <1>1
<1>5. Freed([S EXCEPT !.tasks = q], S, p, D, B, 0)
  <2> HIDE DEF q
  <2> QED BY <1>1, <1>2, TasksFreed DEF Ts
<1> HIDE DEF s, q
<1>6. Fine(s, {}, 0)
  BY <1>1, <1>3, OtherFine
<1>7. Head(tasks) \in Ts(S)
  BY <1>1, <1>2 DEF Ts
<1> QED BY <1>2, <1>3, <1>4, <1>5, <1>6, <1>7, Parts DEF s

\* A job whose registration was rejected is aborted for what it asked for.
LEMMA AnswerWanted ==
  ASSUME Inv, Wanted, NEW k \in Tasks, k \in Ts(S), k.fn = "post_doq", NEW s, Fine(s, {}, 0), s.blame = blame,
         NEW w, w = [why |-> "Register", type |-> k.type, other |-> k.other],
         Freed(s, S, k.job, {}, {w}, 0), NEW u, u = post_doq(s, k), Becomes(u), UNCHANGED <<exit, asked, ran>>
  PROVE  Wanted' /\ Cause
<1>1. k.job \in Jobs /\ w \in Reasons /\ w.why = "Register" /\ w.type = k.type /\ w.other = k.other
  BY DEF Tasks, Reasons
<1>2. s \in Rec
  BY DEF Fine
<1>3. u = IF s.st[k.job] \in Unknown THEN s ELSE job_abt(s, k.job, w)
  BY DEF post_doq
<1>4. Freed(u, s, k.job, {}, {w}, 0) /\ \A q \in Jobs : q # k.job => u.blame[q] = s.blame[q]
  <2>1. CASE s.st[k.job] \in Unknown
    BY <1>2, <1>3, <2>1, FreedSelf
  <2>2. CASE s.st[k.job] \notin Unknown
    <3>1. u = job_abt(s, k.job, w)
      BY <1>3, <2>2
    <3>2. /\ Freed(job_abt(s, k.job, w), s, k.job, {}, {w}, 0)
          /\ \A q \in Jobs : q # k.job => job_abt(s, k.job, w).blame[q] = s.blame[q]
      BY <1>1, <1>2, <2>2, AbtFreed
    <3> QED BY <3>1, <3>2
  <2> QED BY <2>1, <2>2
<1>5. Freed(u, S, k.job, {}, {w}, 0)
  BY <1>4, FreedTwice
<1>6. Wanted'
  BY <1>1, <1>5, QuietStep
<1>7. Cause
  <2>1. \A q \in Jobs : blame'[q] \subseteq blame[q] \cup {w} /\ (q # k.job => blame'[q] = blame[q])
    BY <1>4 DEF Freed, Becomes
  <2>2. w.other \in want[k.job][w.type]
    BY <1>1 DEF Wanted, Answers
  <2>3. ASSUME NEW why, NEW e \in NewBlame(why)
        PROVE  e[2] = w /\ e[2].why = why /\ e[1] = k.job
    BY <2>1, <2>3 DEF NewBlame
  <2> QED BY <1>1, <2>2, <2>3 DEF Cause
<1> QED BY <1>6, <1>7

\* The head of the tasks is taken off and done.
LEMMA TaskWanted == Counted /\ Wanted /\ next_task => Wanted' /\ Cause
<1> SUFFICES ASSUME Counted, Inv, Wanted, next_task  PROVE Wanted' /\ Cause
  BY DEF Counted
<1> DEFINE k == Head(tasks)
           s == [S EXCEPT !.tasks = Tail(@)]
           u == CASE k.fn = "post_doq"        -> post_doq(s, k)
                  [] k.fn = "post_doe"        -> post_doe(s, k)
                  [] k.fn = "post_run_depend" -> post_run_depend(s, k)
                  [] k.fn = "on_job_exit"     -> on_job_exit_first(s, k)
<1>1. tasks # <<>> /\ UNCHANGED <<exit, asked, ran>>
  BY DEF next_task
<1>2. /\ Fine(s, {}, 0) /\ s.blame = blame /\ s.st = st
      /\ k \in Tasks /\ k \in Ts(S)
      /\ \A p, D, B : Freed(s, S, p, D, B, 0)
  BY <1>1, HeadFreed
<1>3. Becomes(u)
  BY Zenon DEF next_task
<1> HIDE DEF k, s
<1>4. k.job \in Jobs /\ k.fn \in {"post_doq", "post_doe", "post_run_depend", "on_job_exit"} /\ s \in Rec
  BY <1>2 DEF Tasks, Fine
<1>5. CASE k.fn = "post_doq"
  <2>1. u = post_doq(s, k)
    BY <1>5
  <2> HIDE DEF u
  <2>2. Freed(s, S, k.job, {}, {[why |-> "Register", type |-> k.type, other |-> k.other]}, 0)
    BY <1>2
  <2> QED BY <1>1, <1>2, <1>3, <1>5, <2>1, <2>2, AnswerWanted
<1>6. CASE k.fn = "post_doe"
  <2> DEFINE ps == s.dep[k.job][BEFORESTART] \ {k.other}
             v == [s EXCEPT !.dep[k.job][BEFORESTART] = ps]
  <2>1. u = post_doe(s, k)
    BY <1>6
  <2> HIDE DEF u
  <2>2. BEFORESTART \in Before /\ BEFORESTART \in 0..7
    BY DEF BEFORESTART, Before
  <2>3. u = s \/ u = v
    BY <2>1 DEF post_doe, Drop
  <2>4. ps \in SUBSET Jobs
    BY <1>4, <2>2 DEF Rec
  <2>5. Freed(v, s, k.job, {}, {}, 0)
    <3> HIDE DEF ps
    <3> QED BY <1>4, <2>2, <2>4, BeforeFreed
  <2> HIDE DEF v
  <2>6. Freed(u, s, k.job, {}, {}, 0)
    BY <1>4, <2>3, <2>5, FreedSelf
  <2>7. Freed(u, S, k.job, {}, {}, 0)
    BY <1>2, <2>6, FreedTwice
  <2> QED BY <1>1, <1>3, <1>4, <2>7, QuietStep
<1>7. CASE k.fn = "post_run_depend"
  <2>1. u = depend_on_exec(s, k.job)
    BY <1>7 DEF post_run_depend
  <2> HIDE DEF u
  <2>2. Freed(u, s, k.job, {AFTERSTART}, {}, 0)
    BY <1>2, <1>4, <2>1, ExecFreed
  <2>3. Freed(s, S, k.job, {AFTERSTART}, {}, 0)
    BY <1>2
  <2>4. Freed(u, S, k.job, {AFTERSTART}, {}, 0)
    BY <2>2, <2>3, FreedTwice
  <2>5. ~History => \A t \in After : t \in {AFTERSTART} => Met(t, k.job)
    BY <1>2, <1>7 DEF Wanted, Telling
  <2> QED BY <1>1, <1>3, <1>4, <2>4, <2>5, QuietStep
<1>8. CASE k.fn = "on_job_exit"
  <2>1. u = on_job_exit_first(s, k)
    BY <1>8
  <2> HIDE DEF u
  <2>1a. PICK j \in Jobs : j = k.job
    BY <1>4
  <2>2. CASE st[j] = "EXITING"
    <3>1. u = At(s, j, "STAGEOUT")
      BY <1>2, <2>1a, <2>1, <2>2 DEF on_job_exit_first, At
    <3>2. "STAGEOUT" \in States /\ Lasting(s.st[j], "STAGEOUT")
      BY <1>2, <2>2 DEF States, Ending, Lasting, Unknown
    <3>3. Freed(u, s, j, {}, {}, j) /\ u.st[j] = "STAGEOUT"
      BY <1>4, <3>1, <3>2, AtFreed
    <3>4. Freed(s, S, j, {}, {}, j)
      BY <1>2, FreedMore
    <3>5. Freed(u, S, j, {}, {}, j)
      BY <3>3, <3>4, FreedTwice
    <3>6. want' = want /\ wantOn' = wantOn /\ started' = started /\ ended' = ended /\ exit' = exit
      BY <1>1 DEF asked, ran
    <3>7. Sound(j)'
      <4>1. Sound(j) /\ st'[j] = "STAGEOUT"
        BY <1>3, <1>4, <3>3 DEF Wanted, Becomes
      <4> QED BY <2>2, <3>6, <4>1 DEF Sound, Ending
    <3> QED BY <1>3, <1>4, <3>5, <3>6, <3>7, FreedStep
  <2>3. CASE st[j] # "EXITING"
    <3>1. u = s
      BY <1>2, <2>1a, <2>1, <2>3 DEF on_job_exit_first
    <3>2. Freed(u, S, j, {}, {}, 0)
      BY <1>2, <3>1
    <3> QED BY <1>1, <1>3, <1>4, <3>2, QuietStep
  <2> QED BY <2>2, <2>3
<1> QED BY <1>4, <1>5, <1>6, <1>7, <1>8

\* The hold of a job that is queued is set, and nothing else.
LEMMA QueuedHold ==
  ASSUME NEW s \in Rec, NEW j \in Jobs, s.st[j] = "QUEUED", NEW v, v = set_depend_hold(s, j)
  PROVE  /\ v \in Rec /\ v.dep = s.dep /\ v.on = s.on /\ v.tasks = s.tasks /\ v.blame = s.blame
         /\ v.st[j] \in Waiting /\ \A q \in Jobs : q # j => v.st[q] = s.st[q]
<1> DEFINE u == [s EXCEPT !.st[j] = "HELD"]
<1>1. v = s \/ v = u
  BY DEF set_depend_hold
<1>2. /\ u \in Rec /\ u.dep = s.dep /\ u.on = s.on /\ u.tasks = s.tasks /\ u.blame = s.blame
      /\ u.st = [s.st EXCEPT ![j] = "HELD"]
  BY DEF Rec, States, Waiting
<1>3. s.st \in [Jobs -> States]
  BY DEF Rec
<1>4. u.st[j] = "HELD" /\ \A q \in Jobs : q # j => u.st[q] = s.st[q]
  BY <1>2, <1>3
<1> HIDE DEF u
<1> QED BY <1>1, <1>2, <1>4 DEF Waiting

\* the job j is submitted with the dependencies l and the count n
Fresh(s, j, l, n) ==
  /\ s \in Rec /\ s.tasks = tasks /\ s.blame = blame
  /\ s.st[j] \in Waiting /\ s.dep[j] = l /\ s.on[j] = n
  /\ \A q \in Jobs : q # j => s.st[q] = st[q] /\ s.dep[q] = dep[q] /\ s.on[q] = on[q]

\* A job is submitted: its dependencies are in its lists.
LEMMA EnqueFresh ==
  ASSUME Inv, NEW j \in Jobs, svr_enquejob(j)
  PROVE  \E l \in [0..7 -> SUBSET Jobs], n \in OnCounts, v \in Rec :
            /\ Fresh(v, j, l, n) /\ Becomes(SendToAll(v, j, l, "que"))
            /\ want' = [want EXCEPT ![j] = l] /\ wantOn' = [wantOn EXCEPT ![j] = n]
<1>1. PICK d \in Pairs(j, Submitted), n \in OnCounts :
         /\ Becomes(depend_on_que([S EXCEPT !.st[j] = "QUEUED", !.dep[j] = Lists(d), !.on[j] = n], j))
         /\ want' = [want EXCEPT ![j] = Lists(d)]
         /\ wantOn' = [wantOn EXCEPT ![j] = n]
  BY Zenon DEF svr_enquejob
<1> DEFINE l == Lists(d)
           a == [S EXCEPT !.st[j] = "QUEUED"]
           s == [a EXCEPT !.dep[j] = l, !.on[j] = n]
           v == set_depend_hold(s, j)
<1>2. l \in [0..7 -> SUBSET Jobs] /\ n \in Count
  BY ListsType, OnCountsType DEF Submitted
<1>3. Becomes(depend_on_que(s, j)) /\ want' = [want EXCEPT ![j] = l] /\ wantOn' = [wantOn EXCEPT ![j] = n]
  BY <1>1
<1> HIDE DEF l
<1>4. S \in Rec
  BY DEF Inv, Fine
<1>5. /\ a \in Rec /\ a.st = [st EXCEPT ![j] = "QUEUED"] /\ a.dep = dep /\ a.on = on
      /\ a.tasks = tasks /\ a.blame = blame
  BY <1>4, Parts DEF Rec, States, Waiting
<1> HIDE DEF a
<1>6. /\ s \in Rec /\ s.st = a.st /\ s.dep = [a.dep EXCEPT ![j] = l] /\ s.on = [a.on EXCEPT ![j] = n]
      /\ s.tasks = a.tasks /\ s.blame = a.blame
  BY <1>2, <1>5 DEF Rec
<1> HIDE DEF s
<1>7. /\ st \in [Jobs -> States] /\ dep \in [Jobs -> [0..7 -> SUBSET Jobs]] /\ on \in [Jobs -> Count]
  BY <1>4, Parts DEF Rec
<1>8. /\ s.st[j] = "QUEUED" /\ s.dep[j] = l /\ s.on[j] = n
      /\ \A q \in Jobs : q # j => s.st[q] = st[q] /\ s.dep[q] = dep[q] /\ s.on[q] = on[q]
  BY <1>5, <1>6, <1>7
<1>9. Becomes(SendToAll(v, j, l, "que"))
  BY <1>3, <1>8 DEF depend_on_que
<1>10. /\ v \in Rec /\ v.dep = s.dep /\ v.on = s.on /\ v.tasks = s.tasks /\ v.blame = s.blame
       /\ v.st[j] \in Waiting /\ \A q \in Jobs : q # j => v.st[q] = s.st[q]
  BY <1>6, <1>8, QueuedHold
<1> HIDE DEF v
<1>11. Fresh(v, j, l, n)
  BY <1>5, <1>6, <1>8, <1>10 DEF Fresh
<1> QED BY <1>2, <1>3, <1>9, <1>10, <1>11

\* Nothing that depends on a job is met before the job is submitted.
LEMMA NewUnmet ==
  ASSUME NEW j \in Jobs, Sound(j), st[j] = "new"
  PROVE  \A t \in After : <<t, j>> \notin MetSet
<1>1. j \notin started /\ ended[j] = {} /\ blame[j] = {}
  BY DEF Sound
<1>2. ~Met(0, j) /\ ~Met(1, j)
  BY <1>1 DEF Met, AFTERSTART, AFTEROK, AFTERNOTOK, AFTERANY
<1>3. ~Met(2, j) /\ ~Met(3, j)
  BY <1>1 DEF Met, AFTERSTART, AFTEROK, AFTERNOTOK, AFTERANY
<1>4. \A t \in After : t = 0 \/ t = 1 \/ t = 2 \/ t = 3
  BY DEF After
<1> QED BY <1>2, <1>3, <1>4 DEF MetSet

\* A job that is submitted asks for what its user asked for.
LEMMA EnqueWanted == ASSUME NEW j \in Jobs  PROVE Counted /\ Wanted /\ svr_enquejob(j) => Wanted' /\ Cause
<1> SUFFICES ASSUME Counted, Inv, Wanted, svr_enquejob(j)  PROVE Wanted' /\ Cause
  BY DEF Counted
<1>1. PICK l \in [0..7 -> SUBSET Jobs], n \in OnCounts, v \in Rec :
         /\ Fresh(v, j, l, n) /\ Becomes(SendToAll(v, j, l, "que"))
         /\ want' = [want EXCEPT ![j] = l] /\ wantOn' = [wantOn EXCEPT ![j] = n]
  BY EnqueFresh
<1> DEFINE u == SendToAll(v, j, l, "que")
           W == want'
           M == MetSet
<1>2. st[j] = "new" /\ started' = started /\ ended' = ended /\ exit' = exit /\ Sound(j)
  BY DEF svr_enquejob, ran, Wanted
<1>3. /\ want \in [Jobs -> [0..7 -> SUBSET Jobs]] /\ wantOn \in [Jobs -> Count] /\ S \in Rec
      /\ tasks \in Seq(Tasks)
  BY DEF Inv, Rest, Fine, Rec, S
<1>4. /\ W[j] = l /\ wantOn'[j] = n
      /\ \A q \in Jobs : q # j => W[q] = want[q] /\ wantOn'[q] = wantOn[q]
  BY <1>1, <1>3
<1>5. Enlisted(u, v, j, W, M)
  <2>1. \A t \in After : <<t, j>> \notin M
    BY <1>2, NewUnmet
  <2>2. u = SendToAll(v, j, W[j], "que")
    BY <1>4
  <2> HIDE DEF u, W, M
  <2> QED BY <2>1, <2>2, AllEnlisted
<1>6. Becomes(u)
  BY <1>1
<1> HIDE DEF u
<1>7. u \in Rec /\ S' = u
  BY <1>5, <1>6, BecomesIs DEF Enlisted
<1>8. /\ st' = v.st /\ blame' = blame /\ dep' = u.dep /\ on' = u.on
  BY <1>1, <1>5, <1>6 DEF Becomes, Enlisted, Fresh
<1>9. (\A t, p : Met(t, p)' <=> Met(t, p)) /\ MetSet' = M
  <2>1. \A t, p : Met(t, p)' <=> Met(t, p)
    BY <1>2, <1>8 DEF Met
  <2> QED BY <2>1 DEF MetSet
<1>10. Cause
  <2>1. \A why : NewBlame(why) = {}
    BY <1>8 DEF NewBlame
  <2> QED BY <2>1 DEF Cause
<1>11. st'[j] \in Waiting /\ \A q \in Jobs : q # j => st'[q] = st[q]
  BY <1>1, <1>8 DEF Fresh
<1>12. \A q \in Jobs : Sound(q)'
  <2>1. Sound(j)'
    BY <1>2, <1>8, <1>11 DEF Sound, Waiting, Ending
  <2>2. ASSUME NEW q \in Jobs, q # j  PROVE Sound(q)'
    <3>1. Sound(q) /\ st'[q] = st[q] /\ want'[q] = want[q]
      BY <1>4, <1>11, <2>2 DEF Wanted
    <3> QED BY <1>2, <1>8, <3>1 DEF Sound
  <2> QED BY <2>1, <2>2
<1>13. Ts(v) = Ts(S) /\ Ts(S) \subseteq Tasks
  <2>1. Ts(v) = Ts(S)
    BY <1>1, Parts DEF Fresh, Ts
  <2> QED BY <1>3, <2>1, TsType
<1>14. \A k \in Ts(u) : \/ k \in Ts(S)
                        \/ k.fn = "post_doq" /\ k.job = j /\ k.other \in W[j][k.type]
                        \/ k.fn = "post_run_depend" /\ v.st[k.job] \in RunningOrLater
  BY <1>5, <1>13 DEF Enlisted
<1>15. Answers'
  <2> SUFFICES ASSUME NEW k \in Ts(u), k.fn = "post_doq"  PROVE k.other \in W[k.job][k.type]
    BY <1>7 DEF Answers
  <2>1. CASE k \in Ts(S)
    <3>1. k \in Tasks
      BY <1>13, <2>1
    <3>2. k.job \in Jobs /\ k.type \in 0..7
      BY <3>1 DEF Tasks
    <3>3. k.other \in want[k.job][k.type]
      BY <2>1 DEF Wanted, Answers
    <3>4. want[j] = None
      BY <1>2 DEF Sound
    <3>5. k.job # j
      BY <3>2, <3>3, <3>4 DEF None
    <3> QED BY <1>4, <3>2, <3>3, <3>5
  <2>2. CASE k \notin Ts(S)
    BY <1>14, <2>2
  <2> QED BY <2>1, <2>2
<1>16. ASSUME ~History  PROVE Telling'
  <2> SUFFICES ASSUME NEW k \in Ts(u), k.fn = "post_run_depend"  PROVE Met(AFTERSTART, k.job)
    BY <1>7, <1>9 DEF Telling
  <2>1. CASE k \in Ts(S)
    BY <1>16, <2>1 DEF Wanted, Telling
  <2>2. CASE k \notin Ts(S)
    <3>1. k \in Tasks
      BY <1>7, TsType
    <3>2. k.job \in Jobs /\ st'[k.job] \in RunningOrLater
      BY <1>8, <1>14, <2>2, <3>1 DEF Tasks
    <3>3. Sound(k.job)'
      BY <1>12, <3>2
    <3>4. k.job \in started \/ blame[k.job] # {}
      BY <1>2, <1>8, <1>16, <3>2, <3>3 DEF Sound, RunningOrLater, Ending
    <3> QED BY <3>4 DEF Met, AFTERSTART, AFTEROK, AFTERNOTOK, AFTERANY
  <2> QED BY <2>1, <2>2
<1>17. ASSUME ~History  PROVE Asked'
  <2> SUFFICES ASSUME NEW q \in Jobs, st'[q] \notin Over
               PROVE  /\ \A t \in After : \A y \in W[q][t] : y \in u.dep[q][t] \/ Met(t, y)
                      /\ wantOn'[q] <= u.on[q] + Cardinality(Got(u, W, M, q))
    BY <1>7, <1>8, <1>9 DEF Asked
  <2> HIDE DEF M
  <2>1. /\ \A t \in After : v.dep[q][t] \subseteq u.dep[q][t]
        /\ v.on[q] + Cardinality(Got(v, W, M, q)) <= u.on[q] + Cardinality(Got(u, W, M, q))
    BY <1>5 DEF Enlisted
  <2>2. v.on[q] \in Int /\ u.on[q] \in Int /\ wantOn[q] \in Int /\ on[q] \in Int
    <3>1. v.on[q] \in Count /\ u.on[q] \in Count /\ wantOn[q] \in Count /\ on[q] \in Count
      BY <1>1, <1>3, <1>7, Parts DEF Rec
    <3> QED BY <3>1 DEF Count, Uncounted
  <2>3. /\ Cardinality(Got(u, W, M, q)) \in Nat /\ Cardinality(Got(v, W, M, q)) \in Nat
        /\ Cardinality(Got(S, want, M, q)) \in Nat
    BY GotFinite
  <2>4. CASE q = j
    <3>1. v.dep[q] = l /\ v.on[q] = n /\ W[q] = l /\ wantOn'[q] = n
      BY <1>1, <1>4, <2>4 DEF Fresh
    <3>2. wantOn'[q] <= u.on[q] + Cardinality(Got(u, W, M, q))
      BY <2>1, <2>2, <2>3, <3>1
    <3> QED BY <2>1, <3>1, <3>2
  <2>5. CASE q # j
    <3>1. v.dep[q] = dep[q] /\ v.on[q] = on[q] /\ W[q] = want[q] /\ wantOn'[q] = wantOn[q] /\ st[q] \notin Over
      BY <1>1, <1>4, <1>11, <2>5 DEF Fresh
    <3>2. /\ \A t \in After : \A p \in want[q][t] : p \in dep[q][t] \/ Met(t, p)
          /\ wantOn[q] <= on[q] + Cardinality(Got(S, want, M, q))
      BY <1>17, <3>1 DEF Wanted, Asked, M
    <3>3. Got(S, want, M, q) \subseteq Got(v, W, M, q)
      <4> SUFFICES ASSUME NEW e \in Got(S, want, M, q)  PROVE e \in Got(v, W, M, q)
        OBVIOUS
      <4>1. /\ e \in Before \X Jobs /\ q \in want[e[2]][e[1]]
            /\ e[2] \in dep[q][Mirror(e[1])] \/ <<Mirror(e[1]), e[2]>> \in M
        BY Parts DEF Got
      <4>2. e[2] \in Jobs /\ e[1] \in 0..7
        BY <4>1 DEF Before
      <4>3. want[j] = None
        BY <1>2 DEF Sound
      <4>4. e[2] # j
        BY <4>1, <4>2, <4>3 DEF None
      <4>5. W[e[2]] = want[e[2]]
        BY <1>4, <4>2, <4>4
      <4> HIDE DEF W
      <4> QED BY <3>1, <4>1, <4>5 DEF Got
    <3>4. Cardinality(Got(S, want, M, q)) <= Cardinality(Got(v, W, M, q))
      BY <3>3, GotGrows
    <3>5. wantOn'[q] <= u.on[q] + Cardinality(Got(u, W, M, q))
      BY <2>1, <2>2, <2>3, <3>1, <3>2, <3>4
    <3>6. \A t \in After : \A y \in W[q][t] : y \in u.dep[q][t] \/ Met(t, y)
      BY <2>1, <3>1, <3>2
    <3> QED BY <3>5, <3>6
  <2> QED BY <2>4, <2>5
<1> QED BY <1>10, <1>12, <1>15, <1>16, <1>17 DEF Wanted

-----------------------------------------------------------------------------
(* The theorems.                                                            *)

\* Every step keeps the invariant and has its cause, unless dependencies are altered or a
\* job is moved.
LEMMA WantedNext ==
  Counted /\ Agreed /\ Wanted /\ Next => \/ Wanted' /\ (~LateFailure => Cause)
                                         \/ alters' # {}
                                         \/ moves' # 0
<1> SUFFICES ASSUME Counted, Inv, Agreed, Wanted, Next, alters' = {}, moves' = 0
             PROVE  Wanted' /\ (~LateFailure => Cause)
  BY DEF Counted
<1>1. CASE next_task
  BY <1>1, TaskWanted
<1>2. ASSUME NEW j \in Jobs  PROVE ~modify_job_attr(j)
  <2>1. modify_job_attr(j) => alters' = alters \cup {j}
    BY Zenon DEF modify_job_attr
  <2> QED BY <2>1
<1>3. ASSUME NEW j \in Jobs  PROVE ~local_move(j)
  <2>1. moves \in Nat
    BY DependAssumption DEF Inv, Rest
  <2> QED BY <2>1 DEF local_move
<1>4. ASSUME NEW j \in Jobs,
             \/ svr_enquejob(j) \/ req_deletejob(j) \/ req_deletejob_force(j) \/ svr_startjob(j)
             \/ post_sendmom(j) \/ stat_update(j) \/ job_obit(j) \/ force_reque(j) \/ on_job_exit(j)
             \/ node_down_requeue(j) \/ job_purge(j) \/ svr_clean_job_history(j)
      PROVE  Wanted' /\ (~LateFailure => Cause)
  BY <1>4, EnqueWanted, OverWanted, ForceWanted, SendWanted, SentWanted, StatWanted, ObitWanted,
     ExitWanted, DownWanted, CleanWanted
<1> QED BY <1>1, <1>2, <1>3, <1>4 DEF Next

\* A step that changes nothing keeps the invariant.
LEMMA WantedStutters == Wanted /\ UNCHANGED vars => Wanted'
<1> SUFFICES ASSUME Wanted, UNCHANGED vars  PROVE Wanted'
  OBVIOUS
<1>1. /\ st' = st /\ dep' = dep /\ on' = on /\ exit' = exit /\ tasks' = tasks /\ want' = want
      /\ wantOn' = wantOn /\ started' = started /\ ended' = ended /\ blame' = blame
  BY DEF vars
<1>2. S' = S
  BY <1>1 DEF S
<1>3. (\A t, p : Met(t, p)' <=> Met(t, p)) /\ MetSet' = MetSet
  <2>1. \A t, p : Met(t, p)' <=> Met(t, p)
    BY <1>1 DEF Met
  <2> QED BY <2>1 DEF MetSet
<1>4. \A q \in Jobs : Sound(q)'
  BY <1>1 DEF Wanted, Sound
<1>5. Answers'
  BY <1>1, <1>2 DEF Wanted, Answers
<1>6. ~History => Asked'
  BY <1>1, <1>2, <1>3 DEF Wanted, Asked
<1>7. ~History => Telling'
  BY <1>2, <1>3 DEF Wanted, Telling
<1> QED BY <1>4, <1>5, <1>6, <1>7 DEF Wanted

\* A job that has been moved stays counted.
LEMMA MovesGrow == Inv /\ [Next]_vars => moves = 0 \/ moves' # 0
<1> SUFFICES ASSUME Inv, [Next]_vars, moves # 0  PROVE moves' # 0
  OBVIOUS
<1>1. moves \in Nat
  BY DependAssumption DEF Inv, Rest
<1>2. CASE Next
  <2>1. ASSUME NEW j \in Jobs, local_move(j)  PROVE moves' = moves + 1
    BY <2>1 DEF local_move
  <2>2. ASSUME NEW j \in Jobs, svr_enquejob(j) \/ modify_job_attr(j)  PROVE moves' = moves
    <3>1. modify_job_attr(j) => moves' = moves
      BY Zenon DEF modify_job_attr
    <3>2. svr_enquejob(j) => UNCHANGED bounds
      BY Zenon DEF svr_enquejob
    <3> QED BY <2>2, <3>1, <3>2 DEF bounds
  <2>3. CASE next_task
    BY <2>3 DEF next_task, bounds
  <2>4. ASSUME NEW j \in Jobs,
               \/ req_deletejob(j) \/ req_deletejob_force(j) \/ svr_startjob(j)
               \/ post_sendmom(j) \/ stat_update(j) \/ job_obit(j) \/ force_reque(j)
               \/ on_job_exit(j) \/ node_down_requeue(j) \/ job_purge(j) \/ svr_clean_job_history(j)
        PROVE  moves' = moves
    BY <2>4 DEF req_deletejob, req_deletejob_force, svr_startjob, post_sendmom,
       stat_update, job_obit, force_reque, on_job_exit, node_down_requeue, job_purge,
       svr_clean_job_history, bounds
  <2> QED BY <1>1, <1>2, <2>1, <2>2, <2>3, <2>4 DEF Next
<1>3. CASE UNCHANGED vars
  BY <1>3 DEF vars
<1> QED BY <1>2, <1>3

\* what holds in every state
AskedFor == /\ Inv /\ (~NoCount /\ alters = {} => Agreed)
            /\ ~NoCount /\ alters = {} /\ moves = 0 => Wanted

\* It holds at the start.
LEMMA AskedForInit == Init => AskedFor
BY InvInit, AgreedInit, WantedInit DEF AskedFor

\* Every step keeps it.
LEMMA AskedForNext == AskedFor /\ [Next]_vars => AskedFor'
<1> SUFFICES ASSUME AskedFor, [Next]_vars  PROVE AskedFor'
  OBVIOUS
<1>1. Inv'
  BY InvNext DEF AskedFor
<1>2. alters' = {} => alters = {}
  BY AltersGrow
<1>3. ~NoCount /\ alters' = {} => Agreed'
  BY <1>2, AgreedNext DEF AskedFor, Counted
<1>4. alters' = {} /\ moves' = 0 => moves = 0
  BY MovesGrow DEF AskedFor
<1>5. ~NoCount /\ alters' = {} /\ moves' = 0 => Wanted'
  BY <1>2, <1>4, WantedNext, WantedStutters DEF AskedFor, Counted
<1> QED BY <1>1, <1>3, <1>5 DEF AskedFor

\* Without a history, where every "on" is named with a count, and as long as nobody alters
\* dependencies or moves jobs, no job may run before the dependencies its user asked for are met: every Release is sent
\* for a start or an end that has happened, and every "on" that is counted down has its
\* entry, or has been met (req_register, depend_on_exec, depend_on_term).
THEOREM NotEarly == Spec => [](~NoCount /\ ~History /\ alters = {} /\ moves = 0 => NeverEarly)
<1>1. Init => AskedFor
  BY AskedForInit
<1>2. AskedFor /\ [Next]_vars => AskedFor'
  BY AskedForNext
<1>3. AskedFor => (~NoCount /\ ~History /\ alters = {} /\ moves = 0 => NeverEarly)
  BY WantedEarly DEF AskedFor, Counted
<1> QED BY <1>1, <1>2, <1>3, PTL DEF Spec

\* The job that ends, or the answer to a Register, is the cause.
LEMMA CauseNext ==
  AskedFor /\ [Next]_vars /\ ~NoCount /\ ~LateFailure /\ alters' = {} /\ moves' = 0 => [Cause]_vars
<1> SUFFICES ASSUME AskedFor, Next, ~NoCount, ~LateFailure, alters' = {}, moves' = 0  PROVE Cause
  OBVIOUS
<1>1. alters = {} /\ moves = 0
  BY AltersGrow, MovesGrow DEF AskedFor
<1> QED BY <1>1, WantedNext DEF AskedFor, Counted

\* Where no node stays down while a job on it is ending, every "on" is named with a count,
\* nobody alters dependencies and no job is moved, a job is aborted over a dependency only when that dependency cannot
\* be met any more, or when its own request to register it was rejected
\* (depend_on_term, post_doq).
THEOREM AbortsForCause ==
  Spec /\ [](~NoCount /\ ~LateFailure /\ alters = {} /\ moves = 0) => AbortedForCause
<1>1. Init => AskedFor
  BY AskedForInit
<1>2. AskedFor /\ [Next]_vars => AskedFor'
  BY AskedForNext
<1> DEFINE Undisturbed == ~NoCount /\ ~LateFailure /\ alters = {} /\ moves = 0
<1>3. AskedFor /\ [Next]_vars /\ Undisturbed /\ Undisturbed' => [Cause]_vars
  BY CauseNext
<1>4. AbortedForCause <=> [][Cause]_vars
  BY DEF AbortedForCause, Cause
<1> HIDE DEF Undisturbed
<1>5. Spec /\ []Undisturbed => [][Cause]_vars
  BY <1>1, <1>2, <1>3, PTL DEF Spec
<1> QED BY <1>4, <1>5 DEF Undisturbed

=============================================================================
