---------------------------- MODULE Depend_proof ----------------------------
(***************************************************************************)
(* The proof that a job is held exactly while it depends on something.      *)
(*                                                                          *)
(* The requests of a job to the jobs of its lists are sent one after the    *)
(* other (SendToList, SendToAll), so that what holds after all of them is   *)
(* shown by induction.  Induction over the numbers is had from the fact     *)
(* that < is well founded, applied to the set of the counterexamples.       *)
(***************************************************************************)
EXTENDS Depend, WellFoundedInduction, TLAPS

-----------------------------------------------------------------------------
(* Induction.                                                               *)

\* A set of numbers has a least one.
LEMMA Least ==
  ASSUME NEW T, T \subseteq Nat, T # {}
  PROVE  \E x \in T : \A y \in T : x <= y
<1> DEFINE R == OpToRel(<, Nat)
<1>1. IsWellFoundedOn(R, Nat)
  BY NatLessThanWellFounded
<1>2. \A x, y \in Nat : x < y => <<x, y>> \in R
  BY DEF OpToRel
<1> HIDE DEF R
<1>3. \E x \in T : \A y \in T : ~(<<y, x>> \in R)
  BY <1>1, WFMin
<1>4. PICK x \in T : \A y \in T : ~(<<y, x>> \in R)
  BY <1>3
<1>5. ASSUME NEW y \in T  PROVE x <= y
  <2>1. x \in Nat /\ y \in Nat /\ ~(<<y, x>> \in R)
    BY <1>4
  <2>2. ~(y < x)
    BY <1>2, <2>1
  <2> QED BY <2>1, <2>2
<1> QED BY <1>5

\* Induction up to n, for a set in the place of the predicate.
LEMMA Induction ==
  ASSUME NEW n \in Nat, NEW P, 0 \in P, \A i \in 1..n : i - 1 \in P => i \in P
  PROVE  0..n \subseteq P
<1> SUFFICES ASSUME NEW k \in 0..n, k \notin P  PROVE FALSE
  OBVIOUS
<1> DEFINE T == (0..n) \ P
<1>1. T \subseteq Nat /\ T # {}
  OBVIOUS
<1>2. PICK x \in T : \A y \in T : x <= y
  BY <1>1, Least
<1>3. x \in 1..n
  BY <1>2
<1>4. x - 1 \notin T
  BY <1>2, <1>3
<1>5. x - 1 \in P
  BY <1>3, <1>4
<1> QED BY <1>2, <1>3, <1>5

-----------------------------------------------------------------------------
(* What the recursive definitions compute, step by step.                    *)

\* the first n of the tasks q
UnlinkedRow(r, q, j, n) ==
  r = [i \in 0..n |->
        IF i = 0 THEN <<>>
        ELSE IF q[i].job # j \/ q[i].fn \in {"post_doq", "post_doe"} THEN Append(r[i - 1], q[i])
        ELSE r[i - 1]]

\* The function that Unlinked is defined by exists.
LEMMA UnlinkedExists ==
  ASSUME NEW q, NEW j, NEW n \in Nat
  PROVE  \E r : UnlinkedRow(r, q, j, n)
<1> DEFINE P == {k \in Nat : \E r : UnlinkedRow(r, q, j, k)}
<1>1. 0 \in P
  <2>1. UnlinkedRow([i \in 0..0 |-> <<>>], q, j, 0)
    BY DEF UnlinkedRow
  <2> QED BY <2>1
<1>2. ASSUME NEW k \in 1..n, k - 1 \in P  PROVE k \in P
  <2>1. PICK r : UnlinkedRow(r, q, j, k - 1)
    BY <1>2
  <2> DEFINE v == IF q[k].job # j \/ q[k].fn \in {"post_doq", "post_doe"}
                  THEN Append(r[k - 1], q[k]) ELSE r[k - 1]
             w == [i \in 0..k |-> IF i = k THEN v ELSE r[i]]
  <2>2. \A i \in 0..(k - 1) :
          r[i] = IF i = 0 THEN <<>>
                 ELSE IF q[i].job # j \/ q[i].fn \in {"post_doq", "post_doe"}
                      THEN Append(r[i - 1], q[i]) ELSE r[i - 1]
    BY <2>1 DEF UnlinkedRow
  <2>3. \A i \in 0..k : (i # k => w[i] = r[i] /\ i \in 0..(k - 1)) /\ (i # 0 => w[i - 1] = r[i - 1])
    OBVIOUS
  <2>4. w[k] = v
    OBVIOUS
  <2>5. UnlinkedRow(w, q, j, k)
    <3>1. \A i \in 0..k : w[i] = IF i = 0 THEN <<>>
                 ELSE IF q[i].job # j \/ q[i].fn \in {"post_doq", "post_doe"}
                      THEN Append(w[i - 1], q[i]) ELSE w[i - 1]
      <4> HIDE DEF w
      <4> QED BY <2>2, <2>3, <2>4
    <3> QED BY <3>1 DEF UnlinkedRow
  <2> QED BY <2>5
<1> HIDE DEF P
<1>3. n \in P
  BY <1>1, <1>2, Induction
<1> QED BY <1>3 DEF P

\* What stays of the tasks T is of the same type Q.
LEMMA UnlinkedRowType ==
  ASSUME NEW q, NEW j, NEW n \in Nat, NEW r, UnlinkedRow(r, q, j, n), NEW T, NEW Q,
         \A i \in 1..n : q[i] \in T, <<>> \in Q, \A x \in Q, y \in T : Append(x, y) \in Q
  PROVE  r[n] \in Q
<1> DEFINE a(i) == Append(r[i - 1], q[i])
           c(i) == q[i].job # j \/ q[i].fn \in {"post_doq", "post_doe"}
<1>1. r = [i \in 0..n |-> IF i = 0 THEN <<>> ELSE IF c(i) THEN a(i) ELSE r[i - 1]]
  BY Zenon DEF UnlinkedRow
<1>2. \A i \in 1..n : r[i - 1] \in Q => a(i) \in Q
  BY Zenon
<1> DEFINE P == {i \in 0..n : r[i] \in Q}
<1> HIDE DEF a, c
<1>3. r[0] = <<>> /\ \A i \in 1..n : r[i] = a(i) \/ r[i] = r[i - 1]
  BY <1>1
<1>4. 0 \in P
  BY <1>3
<1>5. ASSUME NEW i \in 1..n, i - 1 \in P  PROVE i \in P
  BY <1>2, <1>3, <1>5
<1> HIDE DEF P
<1>6. n \in P
  <2>1. 0..n \subseteq P
    BY <1>4, <1>5, Induction
  <2> QED BY <2>1
<1> QED BY <1>6 DEF P

\* The tasks that stay are tasks.
LEMMA UnlinkedType ==
  ASSUME NEW q \in Seq(Tasks), NEW j
  PROVE  Unlinked(q, j) \in Seq(Tasks)
<1> DEFINE n == Len(q)  Q == Seq(Tasks)
<1>1. /\ n \in Nat /\ (\A i \in 1..n : q[i] \in Tasks)
      /\ <<>> \in Q /\ \A x \in Q, y \in Tasks : Append(x, y) \in Q
  OBVIOUS
<1>2. \E r : UnlinkedRow(r, q, j, n)
  BY <1>1, UnlinkedExists
<1>3. PICK r : UnlinkedRow(r, q, j, n) /\ Unlinked(q, j) = r[n]
  BY <1>2 DEF UnlinkedRow, Unlinked
<1> HIDE DEF n, Q
<1>4. r[n] \in Q
  BY <1>1, <1>3, UnlinkedRowType
<1> QED BY <1>3, <1>4 DEF Q

-----------------------------------------------------------------------------
(* Requests to several jobs.                                                *)

\* to the first n jobs
Row(r, s, j, t, ps, caller, n) ==
  r = [p \in 0..n |-> IF p = 0 THEN s
                      ELSE IF p \in ps THEN send_depend_req(r[p - 1], j, t, p, caller)
                      ELSE r[p - 1]]

\* The function that SendToList is defined by exists.
LEMMA RowExists ==
  ASSUME NEW s, NEW j, NEW t, NEW ps, NEW caller, NEW n \in Nat
  PROVE  \E r : Row(r, s, j, t, ps, caller, n)
<1> DEFINE P == {k \in Nat : \E r : Row(r, s, j, t, ps, caller, k)}
           step(k, x) == IF k \in ps THEN send_depend_req(x, j, t, k, caller) ELSE x
<1>1. 0 \in P
  <2>1. Row([i \in 0..0 |-> s], s, j, t, ps, caller, 0)
    BY DEF Row
  <2> QED BY <2>1
<1>2. ASSUME NEW k \in 1..n, k - 1 \in P  PROVE k \in P
  <2>1. PICK r : Row(r, s, j, t, ps, caller, k - 1)
    BY <1>2
  <2> DEFINE w == [i \in 0..k |-> IF i = k THEN step(k, r[k - 1]) ELSE r[i]]
  <2>2. \A i \in 0..(k - 1) : r[i] = IF i = 0 THEN s ELSE step(i, r[i - 1])
    BY <2>1 DEF Row
  <2>3. \A i \in 0..k : (i # k => w[i] = r[i] /\ i \in 0..(k - 1)) /\ (i # 0 => w[i - 1] = r[i - 1])
    OBVIOUS
  <2>4. w[k] = step(k, r[k - 1])
    OBVIOUS
  <2>5. \A i \in 0..k : w[i] = IF i = 0 THEN s ELSE step(i, w[i - 1])
    <3> HIDE DEF w, step
    <3> QED BY <2>2, <2>3, <2>4
  <2>6. Row(w, s, j, t, ps, caller, k)
    BY <2>5 DEF Row
  <2> QED BY <2>6
<1> HIDE DEF P
<1>3. n \in P
  BY <1>1, <1>2, Induction
<1> QED BY <1>3 DEF P

\* list by list
Rows(r, s, j, lists, caller, n) ==
  r = [t \in 0..n |-> IF t = 0 THEN s
                      ELSE SendToList(r[t - 1], j, t - 1, lists[t - 1], caller)]

\* The function that SendToAll is defined by exists.
LEMMA RowsExists ==
  ASSUME NEW s, NEW j, NEW lists, NEW caller, NEW n \in Nat
  PROVE  \E r : Rows(r, s, j, lists, caller, n)
<1> DEFINE P == {k \in Nat : \E r : Rows(r, s, j, lists, caller, k)}
           step(k, x) == SendToList(x, j, k - 1, lists[k - 1], caller)
<1>1. 0 \in P
  <2>1. Rows([i \in 0..0 |-> s], s, j, lists, caller, 0)
    BY DEF Rows
  <2> QED BY <2>1
<1>2. ASSUME NEW k \in 1..n, k - 1 \in P  PROVE k \in P
  <2>1. PICK r : Rows(r, s, j, lists, caller, k - 1)
    BY <1>2
  <2> DEFINE w == [i \in 0..k |-> IF i = k THEN step(k, r[k - 1]) ELSE r[i]]
  <2>2. \A i \in 0..(k - 1) : r[i] = IF i = 0 THEN s ELSE step(i, r[i - 1])
    BY <2>1 DEF Rows
  <2>3. \A i \in 0..k : (i # k => w[i] = r[i] /\ i \in 0..(k - 1)) /\ (i # 0 => w[i - 1] = r[i - 1])
    OBVIOUS
  <2>4. w[k] = step(k, r[k - 1])
    OBVIOUS
  <2>5. \A i \in 0..k : w[i] = IF i = 0 THEN s ELSE step(i, w[i - 1])
    <3> HIDE DEF w, step
    <3> QED BY <2>2, <2>3, <2>4
  <2>6. Rows(w, s, j, lists, caller, k)
    BY <2>5 DEF Rows
  <2> QED BY <2>6
<1> HIDE DEF P
<1>3. n \in P
  BY <1>1, <1>2, Induction
<1> QED BY <1>3 DEF P

-----------------------------------------------------------------------------
(* The operators.                                                           *)

Rec == [st : [Jobs -> States], dep : [Jobs -> [0..7 -> SUBSET Jobs]], on : [Jobs -> Count],
        tasks : Seq(Tasks), blame : [Jobs -> SUBSET Reasons]]

Over == {"new", "FINISHED", "gone"}

Held(s, q) == s.st[q] \notin Over => (s.st[q] = "HELD" <=> Pending(s, q))

\* every job that is not in X is held as it should be and has no "on" without a count,
\* and y waits for nothing (0 is no job)
Fine(s, X, y) ==
  /\ s \in Rec
  /\ \A q \in Jobs \ X : Held(s, q) /\ s.on[q] # Uncounted
  /\ \A q \in Jobs : q = y => ~Pending(s, q)

\* One job's state is set.
LEMMA AtFine ==
  ASSUME NEW s, NEW X, NEW y, Fine(s, X, y), NEW j \in Jobs, NEW state \in States,
         j \in X \/ state \in Over \/ (state = "HELD" <=> Pending(s, j))
  PROVE  Fine([s EXCEPT !.st[j] = state], X, y)
<1> DEFINE u == [s EXCEPT !.st[j] = state]
<1>1. u \in Rec /\ u.st = [s.st EXCEPT ![j] = state] /\ u.dep = s.dep /\ u.on = s.on
  BY DEF Fine, Rec
<1>2. u.st[j] = state /\ \A q \in Jobs : q # j => u.st[q] = s.st[q]
  BY <1>1 DEF Fine, Rec
<1>3. \A q \in Jobs : Pending(u, q) <=> Pending(s, q)
  BY <1>1 DEF Pending
<1> HIDE DEF u
<1> QED BY <1>1, <1>2, <1>3 DEF Fine, Held, u

\* Tasks and reasons have no part in it.
LEMMA OtherFine ==
  ASSUME NEW s, NEW X, NEW y, Fine(s, X, y), NEW u \in Rec, u.st = s.st, u.dep = s.dep, u.on = s.on
  PROVE  Fine(u, X, y)
BY DEF Fine, Held, Pending

\* A task is added.
LEMMA TaskFine ==
  ASSUME NEW s, NEW X, NEW y, Fine(s, X, y), NEW k \in Tasks
  PROVE  Fine([s EXCEPT !.tasks = Append(@, k)], X, y)
<1> DEFINE u == [s EXCEPT !.tasks = Append(@, k)]
<1>1. s \in Rec /\ Append(s.tasks, k) \in Seq(Tasks)
  BY DEF Fine, Rec
<1>2. u \in Rec /\ u.st = s.st /\ u.dep = s.dep /\ u.on = s.on
  BY <1>1 DEF Rec
<1> QED BY <1>2, OtherFine

\* A reason is noted.
LEMMA BlameFine ==
  ASSUME NEW s, NEW X, NEW y, Fine(s, X, y), NEW j \in Jobs, NEW why \in Reasons
  PROVE  Fine([s EXCEPT !.blame[j] = @ \cup {why}], X, y)
<1> DEFINE u == [s EXCEPT !.blame[j] = @ \cup {why}]
<1>1. s \in Rec /\ u \in Rec /\ u.st = s.st /\ u.dep = s.dep /\ u.on = s.on
  BY DEF Rec, Fine
<1> QED BY <1>1, OtherFine

\* One list of a job is set, and whether the job waits is the same as before.
LEMMA ListFine ==
  ASSUME NEW s, NEW X, NEW y, Fine(s, X, y), NEW j \in Jobs, NEW t \in 0..7, NEW ps \in SUBSET Jobs,
         \/ t \in Before
         \/ ps # {} /\ s.dep[j][t] # {}
         \/ j \in X /\ (j = y => ps = {})
  PROVE  Fine([s EXCEPT !.dep[j][t] = ps], X, y)
<1> DEFINE u == [s EXCEPT !.dep[j][t] = ps]
<1>1. /\ s \in Rec /\ u \in Rec /\ u.st = s.st /\ u.on = s.on
      /\ u.dep = [s.dep EXCEPT ![j] = [@ EXCEPT ![t] = ps]]
  BY DEF Fine, Rec
<1>2. \A q \in Jobs, z \in 0..7 : u.dep[q][z] = IF q = j /\ z = t THEN ps ELSE s.dep[q][z]
  BY <1>1 DEF Rec
<1> HIDE DEF u
<1>3. \A q \in Jobs : q # j => (Pending(u, q) <=> Pending(s, q))
  BY <1>1, <1>2 DEF Pending, After
<1>4. CASE t \in Before \/ (ps # {} /\ s.dep[j][t] # {})
  <2>1. Pending(u, j) <=> Pending(s, j)
    BY <1>1, <1>2, <1>4 DEF Pending, After, Before
  <2> QED BY <1>1, <1>3, <2>1 DEF Fine, Held, u
<1>5. CASE j \in X /\ (j = y => ps = {})
  <2>1. j = y => ~Pending(u, j)
    BY <1>1, <1>2, <1>5 DEF Pending, After, Fine
  <2> QED BY <1>1, <1>3, <1>5, <2>1 DEF Fine, Held, u
<1> QED BY <1>4, <1>5

\* More jobs may be left out.
LEMMA LessFine ==
  ASSUME NEW s, NEW X, NEW Y, NEW y, Fine(s, X, y), X \subseteq Y
  PROVE  Fine(s, Y, y)
BY DEF Fine

\* set_depend_hold puts a job's state right.
LEMMA HoldFine ==
  ASSUME NEW s, NEW j \in Jobs, NEW X, NEW Y, NEW y, Fine(s, Y, y), Y \subseteq X \cup {j},
         j \in X \/ s.on[j] # Uncounted
  PROVE  Fine(set_depend_hold(s, j), X, y)
<1> DEFINE Z == X \cup {j}
<1>1. s \in Rec /\ Fine(s, Z, y) /\ j \in Z
  BY DEF Fine
<1> HIDE DEF Z
<1>2. CASE Pending(s, j) /\ s.st[j] # "FINISHED"
  <2> DEFINE u == [s EXCEPT !.st[j] = "HELD"]
  <2>1. set_depend_hold(s, j) = u
    BY <1>2 DEF set_depend_hold
  <2>2. Fine(u, Z, y)
    BY <1>1, AtFine DEF States, Waiting
  <2>3. Held(u, j)
    <3>1. u.dep = s.dep /\ u.on = s.on /\ u.st[j] = "HELD"
      BY <1>1 DEF Rec
    <3> QED BY <1>2, <3>1 DEF Held, Pending
  <2>4. u.on = s.on
    BY <1>1 DEF Rec
  <2> HIDE DEF u
  <2> QED BY <2>1, <2>2, <2>3, <2>4 DEF Fine, Z
<1>3. CASE ~Pending(s, j) /\ s.st[j] = "HELD"
  <2> DEFINE u == [s EXCEPT !.st[j] = "QUEUED"]
  <2>1. set_depend_hold(s, j) = u
    BY <1>3 DEF set_depend_hold
  <2>2. Fine(u, Z, y)
    BY <1>1, AtFine DEF States, Waiting
  <2>3. Held(u, j)
    <3>1. u.dep = s.dep /\ u.on = s.on /\ u.st[j] = "QUEUED"
      BY <1>1 DEF Rec
    <3> QED BY <1>3, <3>1 DEF Held, Pending
  <2>4. u.on = s.on
    BY <1>1 DEF Rec
  <2> HIDE DEF u
  <2> QED BY <2>1, <2>2, <2>3, <2>4 DEF Fine, Z
<1>4. CASE /\ ~(Pending(s, j) /\ s.st[j] # "FINISHED")
           /\ ~(~Pending(s, j) /\ s.st[j] = "HELD")
  <2>1. set_depend_hold(s, j) = s
    BY <1>4 DEF set_depend_hold
  <2>2. Held(s, j)
    BY <1>4 DEF Held, Over
  <2> QED BY <1>1, <2>1, <2>2 DEF Fine, Z
<1> QED BY <1>2, <1>3, <1>4

-----------------------------------------------------------------------------
(* The requests.                                                            *)

\* The job and its tasks go.
LEMMA FreeFine ==
  ASSUME NEW s, NEW X, NEW y, Fine(s, X, y), NEW j \in Jobs
  PROVE  Fine(job_free(s, j), X, y)
<1> DEFINE u == [s EXCEPT !.st[j] = "gone"]
           w == job_free(s, j)
<1>1. Fine(u, X, y)
  BY AtFine DEF States, Over
<1>2. s.tasks \in Seq(Tasks)
  BY DEF Fine, Rec
<1>3. Unlinked(s.tasks, j) \in Seq(Tasks)
  BY <1>2, UnlinkedType
<1>4. w \in Rec /\ w.st = u.st /\ w.dep = u.dep /\ w.on = u.on
  BY <1>3 DEF job_free, Fine, Rec, States
<1> HIDE DEF u, w
<1>5. Fine(w, X, y)
  BY <1>1, <1>4, OtherFine
<1> QED BY <1>5 DEF w

\* The job is over.
LEMMA FinishFine ==
  ASSUME NEW s, NEW X, NEW y, Fine(s, X, y), NEW j \in Jobs
  PROVE  Fine(Finish(s, j), X, y)
<1> DEFINE e == IF History THEN "FINISHED" ELSE "gone"
           u == [s EXCEPT !.st[j] = e]
           w == Finish(s, j)
<1>0. e \in States /\ e \in Over
  BY DEF States, Over
<1>1. s.tasks \in Seq(Tasks) /\ s \in Rec
  BY DEF Fine, Rec
<1>2. Unlinked(s.tasks, j) \in Seq(Tasks)
  BY <1>1, UnlinkedType
<1>3. w = [s EXCEPT !.st[j] = e, !.tasks = Unlinked(s.tasks, j)]
  BY DEF Finish
<1> HIDE DEF e
<1>4. Fine(u, X, y)
  BY <1>0, AtFine
<1>5. w \in Rec /\ w.st = u.st /\ w.dep = u.dep /\ w.on = u.on
  <2> HIDE DEF w
  <2> QED BY <1>0, <1>1, <1>2, <1>3 DEF Rec
<1> HIDE DEF u, w
<1>6. Fine(w, X, y)
  BY <1>4, <1>5, OtherFine
<1> QED BY <1>6 DEF w

\* A running job is killed, unless the signal fails; any other one is over.
LEMMA AbtFine ==
  ASSUME NEW s, NEW X, NEW y, Fine(s, X, y), NEW j \in Jobs, NEW why \in Reasons
  PROVE  Fine(job_abt(s, j, why), X, y)
<1> DEFINE b == [s EXCEPT !.blame[j] = @ \cup {why}]
<1>0. Fine(b, X, y)
  BY BlameFine
<1>1. s \in Rec /\ Fine(b, X, y) /\ b.st = s.st /\ b.dep = s.dep /\ b.on = s.on
  <2>1. s \in Rec
    BY DEF Fine
  <2> QED BY <1>0, <2>1 DEF Rec
<1>2. CASE s.st[j] = "FINISHED"
  BY <1>2 DEF job_abt, OnMom
<1>3. CASE s.st[j] \in OnMom /\ j \notin Deaf
  <2> DEFINE u == [b EXCEPT !.st[j] = "KILLED"]
  <2>1. job_abt(s, j, why) = u
    BY <1>1, <1>3 DEF job_abt, Rec, OnMom
  <2>2. j \in X \/ ~Pending(b, j)
    BY <1>1, <1>3 DEF Fine, Held, Pending, OnMom, Over
  <2> HIDE DEF b
  <2>3. Fine(u, X, y)
    BY <1>1, <2>2, AtFine DEF States, OnMom
  <2> QED BY <2>1, <2>3
<1>4. CASE s.st[j] # "FINISHED" /\ ~(s.st[j] \in OnMom /\ j \notin Deaf)
  <2>1. job_abt(s, j, why) = Finish(b, j)
    BY <1>4 DEF job_abt
  <2> HIDE DEF b
  <2> QED BY <1>1, <2>1, FinishFine
<1> QED BY <1>2, <1>3, <1>4

\* The type at the other end is a type, after... for before... and the other way round.
LEMMA MirrorType ==
  ASSUME NEW t \in 0..7
  PROVE  /\ Mirror(t) \in 0..7
         /\ t \in After => Mirror(t) \in Before
         /\ t \in Before => Mirror(t) \in After
         /\ t \in After \/ t \in Before
BY DEF Mirror, After, Before

\* A rejected Register leaves a task.
LEMMA RejectFine ==
  ASSUME NEW s, NEW X, NEW y, Fine(s, X, y), NEW j \in Jobs, NEW t \in 0..7, NEW p \in Jobs
  PROVE  Fine(Reject(s, j, t, p), X, y)
<1> DEFINE k == [fn |-> "post_doq", job |-> j, type |-> t, other |-> p]
<1>1. k \in Tasks
  BY DEF Tasks
<1> HIDE DEF k
<1>2. Fine([s EXCEPT !.tasks = Append(@, k)], X, y)
  BY <1>1, TaskFine
<1> QED BY <1>2 DEF Reject, k

\* An entry is added to a list of jobs that wait for p.
LEMMA AddFine ==
  ASSUME NEW s, NEW X, NEW y, Fine(s, X, y), NEW p \in Jobs, NEW t \in Before, NEW j \in Jobs
  PROVE  Fine(Add(s, p, t, j), X, y)
<1> DEFINE ps == s.dep[p][t] \cup {j}
<1>1. s \in Rec /\ t \in 0..7 /\ ps \in SUBSET Jobs
  BY DEF Fine, Rec, Before
<1>2. Add(s, p, t, j) = [s EXCEPT !.dep[p][t] = ps]
  BY DEF Add
<1> HIDE DEF ps
<1>3. Fine([s EXCEPT !.dep[p][t] = ps], X, y)
  BY <1>1, ListFine
<1> QED BY <1>2, <1>3

\* what is left of "on" when one more job has registered
Left(n) == IF n = Uncounted THEN 0 ELSE n - 1

\* It is a count.
LEMMA LeftType ==
  ASSUME NEW n \in Count, n # 0
  PROVE  Left(n) \in Nat /\ (n # Uncounted => n > 0 /\ Left(n) = n - 1)
BY DEF Left, Count, Uncounted

\* An "on" is turned into an entry; a job that had a count goes on waiting.
LEMMA CountFine ==
  ASSUME NEW s, NEW X, Fine(s, X, 0), NEW p \in Jobs, NEW t \in After, NEW j \in Jobs, s.on[p] # 0
  PROVE  Fine([Add(s, p, t, j) EXCEPT !.on[p] = Left(@)], X, 0)
<1> DEFINE u == [Add(s, p, t, j) EXCEPT !.on[p] = Left(@)]
           ps == s.dep[p][t] \cup {j}
           n == Left(s.on[p])
<1>1. s \in Rec /\ t \in 0..7 /\ ps \in SUBSET Jobs /\ s.on[p] \in Count
  BY DEF Fine, Rec, After
<1>2. /\ u.st = s.st
      /\ u.on = [s.on EXCEPT ![p] = n]
      /\ u.dep = [s.dep EXCEPT ![p] = [@ EXCEPT ![t] = ps]]
  BY <1>1 DEF Rec, Add
<1>3. n \in Nat /\ n \in Count /\ n # Uncounted /\ (s.on[p] # Uncounted => s.on[p] > 0)
  <2>1. n \in Nat /\ (s.on[p] # Uncounted => s.on[p] > 0)
    BY <1>1, LeftType
  <2> QED BY <2>1 DEF Count, Uncounted
<1>4. u.on \in [Jobs -> Count] /\ u.dep \in [Jobs -> [0..7 -> SUBSET Jobs]]
  <2>1. s.on \in [Jobs -> Count] /\ s.dep \in [Jobs -> [0..7 -> SUBSET Jobs]]
    BY <1>1 DEF Rec
  <2> HIDE DEF u, ps, n
  <2>2. u.on \in [Jobs -> Count]
    BY <1>2, <1>3, <2>1
  <2>3. [s.dep[p] EXCEPT ![t] = ps] \in [0..7 -> SUBSET Jobs]
    BY <1>1, <2>1
  <2> QED BY <1>2, <2>1, <2>2, <2>3
<1>5. u = [s EXCEPT !.dep = u.dep, !.on = u.on]
  BY <1>1 DEF Rec, Add
<1>6. u \in Rec
  BY <1>1, <1>4, <1>5 DEF Rec
<1>7. u.dep[p][t] = ps /\ u.on[p] = n
  BY <1>1, <1>2 DEF Rec
<1>8. \A q \in Jobs : q # p => u.dep[q] = s.dep[q] /\ u.on[q] = s.on[q]
  BY <1>1, <1>2 DEF Rec
<1>9. ps # {}
  OBVIOUS
<1> HIDE DEF u, ps, n
<1>10. Pending(u, p)
  BY <1>7, <1>9 DEF Pending
<1>11. \A q \in Jobs : q # p => (Pending(u, q) <=> Pending(s, q))
  BY <1>8 DEF Pending
<1>12. p \in X \/ Pending(s, p)
  BY <1>3 DEF Fine, Pending
<1>13. Fine(u, X, 0)
  BY <1>2, <1>3, <1>6, <1>7, <1>8, <1>10, <1>11, <1>12 DEF Fine, Held, Jobs
<1> QED BY <1>13 DEF u

\* Register only ever adds a job that waits for p, or takes up one of its counts.
LEMMA RegisterFine ==
  ASSUME NEW s, NEW X, Fine(s, X, 0), NEW j \in Jobs, NEW t \in 0..7, NEW p \in Jobs
  PROVE  Fine(Register(s, j, t, p), X, 0)
<1>2. CASE s.st[p] \in Unknown
  <2>1. Register(s, j, t, p) = Reject(s, j, t, p)
    BY <1>2 DEF Register
  <2> QED BY <2>1, RejectFine
<1>3. CASE s.st[p] \notin Unknown /\ t \in After
  <2> DEFINE v == IF t = AFTERSTART /\ s.st[p] \in RunningOrLater THEN Task(s, "post_run_depend", p) ELSE s
             k == [fn |-> "post_run_depend", job |-> p]
  <2>0. t \notin Before
    BY <1>3 DEF After, Before
  <2>1. Register(s, j, t, p) = Add(v, p, Mirror(t), j)
    BY <1>3, <2>0, Zenon DEF Register
  <2>2. k \in Tasks
    BY DEF Tasks
  <2> HIDE DEF k
  <2>3. Fine([s EXCEPT !.tasks = Append(@, k)], X, 0)
    BY <2>2, TaskFine
  <2>4. Fine(v, X, 0)
    BY <2>3 DEF Task, k
  <2> HIDE DEF v
  <2>5. Mirror(t) \in Before
    BY <1>3, MirrorType
  <2> QED BY <2>1, <2>4, <2>5, AddFine
<1>4. CASE s.st[p] \notin Unknown /\ t \in Before /\ s.on[p] # 0
  <2> DEFINE u == [Add(s, p, Mirror(t), j) EXCEPT !.on[p] = Left(@)]
  <2>1. Mirror(t) \in After /\ t \notin After
    BY <1>4, MirrorType DEF Before, After
  <2>2. Fine(u, X, 0)
    BY <1>4, <2>1, CountFine
  <2> HIDE DEF u
  <2>3. Register(s, j, t, p) = s \/ Register(s, j, t, p) = u
    BY <1>4, <2>1 DEF Register, Left, u
  <2> QED BY <2>2, <2>3
<1>5. CASE s.st[p] \notin Unknown /\ t \in Before /\ s.on[p] = 0
  <2>1. t \notin After
    BY <1>5 DEF Before, After
  <2>2. Register(s, j, t, p) = s \/ Register(s, j, t, p) = Reject(s, j, t, p)
    BY <1>5, <2>1 DEF Register
  <2> QED BY <2>2, RejectFine
<1>6. t \in After \/ t \in Before
  BY MirrorType
<1> QED BY <1>2, <1>3, <1>4, <1>5, <1>6

\* An entry is dropped; the job is left out until it is looked at again.
LEMMA DropFine ==
  ASSUME NEW s, NEW X, NEW y, Fine(s, X, y), NEW j \in Jobs, NEW t \in 0..7, NEW p
  PROVE  Fine(Drop(s, j, t, p), X \cup {j}, y)
<1> DEFINE ps == s.dep[j][t] \ {p}
           Y == X \cup {j}
           u == [s EXCEPT !.dep[j][t] = ps]
<1>1. s \in Rec /\ ps \in SUBSET Jobs /\ Fine(s, Y, y) /\ j \in Y
  BY DEF Fine, Rec
<1>2. Drop(s, j, t, p) = u
  BY DEF Drop
<1>3. CASE j = y
  <2>1. t \in After => ps = {}
    BY <1>3 DEF Fine, Pending
  <2>2. t \in Before \/ ps = {}
    BY <2>1, MirrorType
  <2> HIDE DEF ps, Y
  <2>3. Fine(u, Y, y)
    BY <1>1, <2>2, ListFine
  <2> QED BY <1>2, <2>3 DEF Y
<1>4. CASE j # y
  <2> HIDE DEF ps, Y
  <2>1. Fine(u, Y, y)
    BY <1>1, <1>4, ListFine
  <2> QED BY <1>2, <2>1 DEF Y
<1> QED BY <1>3, <1>4

\* Release drops an entry, and looks at the job again if it was the last of its type.
LEMMA ReleaseFine ==
  ASSUME NEW s, NEW X, NEW y, Fine(s, X, y), NEW p \in Jobs, NEW t \in 0..7, NEW j \in Jobs
  PROVE  Fine(Release(s, p, t, j), X, y)
<1> DEFINE m == Mirror(t)
           r == Drop(s, j, m, p)
           ps == s.dep[j][m] \ {p}
<1>1. s \in Rec /\ m \in 0..7 /\ ps \in SUBSET Jobs
  BY MirrorType DEF Fine, Rec
<1>2. Fine(r, X \cup {j}, y)
  <2> HIDE DEF m
  <2> QED BY <1>1, DropFine
<1>3. r.dep[j][m] = ps /\ r = [s EXCEPT !.dep[j][m] = ps]
  <2> HIDE DEF m
  <2> QED BY <1>1 DEF Drop, Rec
<1>4. CASE s.st[j] \in Unknown \/ p \notin s.dep[j][m]
  BY <1>4 DEF Release
<1>5. CASE ~(s.st[j] \in Unknown \/ p \notin s.dep[j][m]) /\ ps = {}
  <2>1. Release(s, p, t, j) = set_depend_hold(r, j)
    <3> HIDE DEF ps
    <3> QED BY <1>3, <1>5 DEF Release
  <2>2. j \in X \/ r.on[j] # Uncounted
    BY <1>1, <1>3 DEF Fine, Rec
  <2> HIDE DEF r
  <2> QED BY <1>2, <2>1, <2>2, HoldFine
<1>6. CASE ~(s.st[j] \in Unknown \/ p \notin s.dep[j][m]) /\ ps # {}
  <2>1. Release(s, p, t, j) = r
    <3> HIDE DEF ps
    <3> QED BY <1>3, <1>6 DEF Release
  <2>2. s.dep[j][m] # {}
    BY <1>6
  <2> HIDE DEF ps, m
  <2>3. Fine([s EXCEPT !.dep[j][m] = ps], X, y)
    BY <1>1, <1>6, <2>2, ListFine
  <2> QED BY <1>3, <2>1, <2>3
<1> QED BY <1>4, <1>5, <1>6

\* Delete aborts the job.
LEMMA DeleteFine ==
  ASSUME NEW s, NEW X, NEW y, Fine(s, X, y), NEW p \in Jobs, NEW t \in 0..7, NEW j \in Jobs
  PROVE  Fine(Delete(s, p, t, j), X, y)
<1> DEFINE w == [why |-> "Delete", type |-> Mirror(t), other |-> p]
<1>1. w \in Reasons
  BY MirrorType DEF Reasons
<1> HIDE DEF w
<1>2. Fine(job_abt(s, j, w), X, y)
  BY <1>1, AbtFine
<1> QED BY <1>2 DEF Delete, w

\* Unregister drops an entry and looks at the job again.
LEMMA UnregisterFine ==
  ASSUME NEW s, NEW X, NEW y, Fine(s, X, y), NEW j \in Jobs, NEW t \in 0..7, NEW p \in Jobs
  PROVE  Fine(Unregister(s, j, t, p), X, y)
<1> DEFINE r == Drop(s, p, Mirror(t), j)
<1>1. Fine(r, X \cup {p}, y)
  BY MirrorType, DropFine
<1>2. p \in X \/ r.on[p] # Uncounted
  BY DEF Fine, Rec, Drop
<1> HIDE DEF r
<1>3. Fine(set_depend_hold(r, p), X, y)
  BY <1>1, <1>2, HoldFine
<1> QED BY <1>3 DEF Unregister, r

Callers == {"que", "alter", "exec", "ok", "bad"}

\* No request leaves a job held wrongly, and none but Register makes one wait.
LEMMA SendFine ==
  ASSUME NEW s, NEW X, NEW y, Fine(s, X, y), NEW j \in Jobs, NEW t \in 0..7, NEW p \in Jobs,
         NEW caller \in Callers, caller = "que" => y = 0
  PROVE  Fine(send_depend_req(s, j, t, p, caller), X, y)
<1>1. CASE caller = "que"
  <2>1. send_depend_req(s, j, t, p, caller) = Register(s, j, t, p)
    BY <1>1 DEF send_depend_req
  <2> QED BY <1>1, <2>1, RegisterFine
<1>2. CASE caller = "alter"
  <2>1. send_depend_req(s, j, t, p, caller) = Unregister(s, j, t, p)
    BY <1>2 DEF send_depend_req
  <2> QED BY <2>1, UnregisterFine
<1>3. CASE caller = "exec"
  <2> DEFINE r == Release(s, j, t, p)
             k == [fn |-> "post_doe", job |-> j, other |-> p]
  <2>1. send_depend_req(s, j, t, p, caller) = [r EXCEPT !.tasks = Append(@, k)]
    BY <1>3, Zenon DEF send_depend_req
  <2>2. Fine(r, X, y)
    BY ReleaseFine
  <2>3. k \in Tasks
    BY DEF Tasks
  <2> HIDE DEF r, k
  <2> QED BY <2>1, <2>2, <2>3, TaskFine
<1>4. CASE caller \in {"ok", "bad"}
  <2>1. send_depend_req(s, j, t, p, caller) \in {Delete(s, j, t, p), Release(s, j, t, p)}
    BY <1>4 DEF send_depend_req
  <2> QED BY <2>1, DeleteFine, ReleaseFine
<1> QED BY <1>1, <1>2, <1>3, <1>4 DEF Callers

-----------------------------------------------------------------------------
(* All the requests of a job.                                               *)

\* to the jobs of one list
LEMMA ListSent ==
  ASSUME NEW s, NEW X, NEW y, Fine(s, X, y), NEW j \in Jobs, NEW t \in 0..7, NEW ps,
         NEW caller \in Callers, caller = "que" => y = 0
  PROVE  Fine(SendToList(s, j, t, ps, caller), X, y)
<1> DEFINE send(v, p) == send_depend_req(v, j, t, p, caller)
           F(v) == Fine(v, X, y)
<1>0. N \in Nat
  BY DependAssumption
<1>1. \E r : Row(r, s, j, t, ps, caller, N)
  BY <1>0, RowExists
<1>2. PICK r : Row(r, s, j, t, ps, caller, N) /\ SendToList(s, j, t, ps, caller) = r[N]
  BY <1>1 DEF Row, SendToList
<1>3. r = [p \in 0..N |-> IF p = 0 THEN s ELSE IF p \in ps THEN send(r[p - 1], p) ELSE r[p - 1]]
  BY <1>2, Zenon DEF Row
<1>4. ASSUME NEW p \in 1..N, F(r[p - 1])  PROVE F(send(r[p - 1], p))
  BY <1>4, SendFine DEF Jobs
<1> DEFINE P == {p \in 0..N : F(r[p])}
<1> HIDE DEF send, F
<1>5. r[0] = s /\ \A p \in 1..N : r[p] = send(r[p - 1], p) \/ r[p] = r[p - 1]
  BY <1>0, <1>3
<1>6. 0 \in P
  BY <1>0, <1>5 DEF F
<1>7. ASSUME NEW p \in 1..N, p - 1 \in P  PROVE p \in P
  BY <1>4, <1>5, <1>7
<1> HIDE DEF P
<1>8. 0..N \subseteq P
  BY <1>0, <1>6, <1>7, Induction
<1>9. N \in P
  BY <1>0, <1>8
<1> QED BY <1>2, <1>9 DEF P, F

\* and to those of all the lists
LEMMA AllSent ==
  ASSUME NEW s, NEW X, NEW y, Fine(s, X, y), NEW j \in Jobs, NEW lists,
         NEW caller \in Callers, caller = "que" => y = 0
  PROVE  Fine(SendToAll(s, j, lists, caller), X, y)
<1> DEFINE send(v, t) == SendToList(v, j, t - 1, lists[t - 1], caller)
           F(v) == Fine(v, X, y)
<1>1. \E r : Rows(r, s, j, lists, caller, 8)
  BY RowsExists
<1>2. PICK r : Rows(r, s, j, lists, caller, 8) /\ SendToAll(s, j, lists, caller) = r[8]
  BY <1>1 DEF Rows, SendToAll
<1>3. r = [t \in 0..8 |-> IF t = 0 THEN s ELSE send(r[t - 1], t)]
  BY <1>2, Zenon DEF Rows
<1>4. ASSUME NEW t \in 1..8, F(r[t - 1])  PROVE F(send(r[t - 1], t))
  <2>1. t - 1 \in 0..7
    OBVIOUS
  <2> QED BY <1>4, <2>1, ListSent
<1> DEFINE P == {t \in 0..8 : F(r[t])}
<1> HIDE DEF send, F
<1>5. r[0] = s /\ \A t \in 1..8 : r[t] = send(r[t - 1], t)
  BY <1>3
<1>6. 0 \in P
  BY <1>5 DEF F
<1>7. ASSUME NEW t \in 1..8, t - 1 \in P  PROVE t \in P
  BY <1>4, <1>5, <1>7
<1> HIDE DEF P
<1>8. 0..8 \subseteq P
  BY <1>6, <1>7, Induction
<1>9. 8 \in P
  BY <1>8
<1> QED BY <1>2, <1>9 DEF P, F

\* A job whose list is new is looked at before its entries are registered.
LEMMA QueFine ==
  ASSUME NEW s, NEW j \in Jobs, NEW X, Fine(s, X \cup {j}, 0), j \in X \/ s.on[j] # Uncounted
  PROVE  Fine(depend_on_que(s, j), X, 0)
<1>1. Fine(set_depend_hold(s, j), X, 0)
  BY HoldFine
<1> QED BY <1>1, AllSent DEF depend_on_que, Callers

\* Nothing happens to a job for lists with nobody in them.
LEMMA NobodySent ==
  ASSUME NEW s, NEW j, NEW lists, NEW caller, \A t \in 0..7 : lists[t] = {}
  PROVE  SendToAll(s, j, lists, caller) = s
<1>1. ASSUME NEW v, NEW t  PROVE SendToList(v, j, t, {}, caller) = v
  <2>0. N \in Nat
    BY DependAssumption
  <2>1. \E r : Row(r, v, j, t, {}, caller, N)
    BY <2>0, RowExists
  <2>2. PICK r : Row(r, v, j, t, {}, caller, N) /\ SendToList(v, j, t, {}, caller) = r[N]
    BY <2>1 DEF Row, SendToList
  <2>3. r = [p \in 0..N |-> IF p = 0 THEN v ELSE r[p - 1]]
    BY <2>2 DEF Row
  <2> DEFINE P == {p \in 0..N : r[p] = v}
  <2>4. 0 \in P /\ \A p \in 1..N : p - 1 \in P => p \in P
    BY <2>0, <2>3
  <2> HIDE DEF P
  <2>5. 0..N \subseteq P
    BY <2>0, <2>4, Induction
  <2>6. N \in P
    BY <2>0, <2>5
  <2> QED BY <2>2, <2>6 DEF P
<1>2. \E r : Rows(r, s, j, lists, caller, 8)
  BY RowsExists
<1>3. PICK r : Rows(r, s, j, lists, caller, 8) /\ SendToAll(s, j, lists, caller) = r[8]
  BY <1>2 DEF Rows, SendToAll
<1>4. r[0] = s /\ \A t \in 1..8 : r[t] = SendToList(r[t - 1], j, t - 1, lists[t - 1], caller)
  BY <1>3 DEF Rows
<1>5. ASSUME NEW t \in 1..8  PROVE r[t] = r[t - 1]
  <2>1. lists[t - 1] = {}
    OBVIOUS
  <2> QED BY <1>1, <1>4, <2>1
<1> DEFINE P == {t \in 0..8 : r[t] = s}
<1>6. 0 \in P /\ \A t \in 1..8 : t - 1 \in P => t \in P
  BY <1>4, <1>5
<1> HIDE DEF P
<1>7. 0..8 \subseteq P
  BY <1>6, Induction
<1>8. 8 \in P
  BY <1>7
<1> QED BY <1>3, <1>8 DEF P

\* No entry is unregistered: the old value is the new one by then.
LEMMA AlterNobody ==
  ASSUME NEW s, NEW j, NEW new
  PROVE  alter_unreg(s, j, new, new) = s
<1> DEFINE l == [t \in 0..7 |-> new[t] \ new[t]]
<1>1. alter_unreg(s, j, new, new) = SendToAll(s, j, l, "alter") /\ \A t \in 0..7 : l[t] = {}
  BY DEF alter_unreg
<1> HIDE DEF l
<1> QED BY <1>1, NobodySent

\* The jobs that wait for a start are released.
LEMMA ExecFine ==
  ASSUME NEW s, NEW X, NEW y, Fine(s, X, y), NEW p \in Jobs
  PROVE  Fine(depend_on_exec(s, p), X, y)
<1>1. BEFORESTART \in 0..7 /\ "exec" \in Callers /\ "exec" # "que"
  BY DEF BEFORESTART, Callers
<1> QED BY <1>1, ListSent DEF depend_on_exec

\* The jobs that wait for an end are released or deleted.
LEMMA TermFine ==
  ASSUME NEW s, NEW X, NEW y, Fine(s, X, y), NEW p \in Jobs, NEW ok
  PROVE  Fine(depend_on_term(s, p, ok), X, y)
<1> DEFINE l == [t \in 0..7 |-> IF t \in {BEFOREOK, BEFORENOTOK, BEFOREANY} THEN s.dep[p][t] ELSE {}]
           c == IF ok THEN "ok" ELSE "bad"
<1>1. depend_on_term(s, p, ok) = SendToAll(s, p, l, c)
  BY DEF depend_on_term
<1>2. c \in Callers /\ c # "que"
  BY DEF Callers
<1> HIDE DEF l, c
<1> QED BY <1>1, <1>2, AllSent

-----------------------------------------------------------------------------
(* The tasks.                                                               *)

\* Whatever the task is, it leaves every job held as it should be.
LEMMA TasksFine ==
  ASSUME NEW s, NEW X, Fine(s, X, 0), NEW k \in Tasks
  PROVE  /\ k.fn = "post_doq" => Fine(post_doq(s, k), X, 0)
         /\ k.fn = "post_doe" => Fine(post_doe(s, k), X, 0)
         /\ k.fn = "post_run_depend" => Fine(post_run_depend(s, k), X, 0)
         /\ k.fn = "on_job_exit" => Fine(on_job_exit_first(s, k), X, 0)
<1>1. k.job \in Jobs
  BY DEF Tasks
<1>2. ASSUME k.fn = "post_doq"  PROVE Fine(post_doq(s, k), X, 0)
  <2> DEFINE w == [why |-> "Register", type |-> k.type, other |-> k.other]
  <2>1. w \in Reasons
    BY <1>2 DEF Tasks, Reasons
  <2> HIDE DEF w
  <2>2. Fine(job_abt(s, k.job, w), X, 0)
    BY <1>1, <2>1, AbtFine
  <2> QED BY <2>2 DEF post_doq, w
<1>3. ASSUME k.fn = "post_doe"  PROVE Fine(post_doe(s, k), X, 0)
  <2> DEFINE ps == s.dep[k.job][BEFORESTART] \ {k.other}
             t == BEFORESTART
  <2>1. t \in 0..7 /\ t \in Before
    BY DEF Before, BEFORESTART
  <2>2. ps \in SUBSET Jobs
    BY <1>1, <2>1 DEF Fine, Rec
  <2>3. Drop(s, k.job, t, k.other) = [s EXCEPT !.dep[k.job][t] = ps]
    BY DEF Drop
  <2> HIDE DEF ps, t
  <2>4. Fine([s EXCEPT !.dep[k.job][t] = ps], X, 0)
    BY <1>1, <2>1, <2>2, ListFine
  <2> QED BY <2>3, <2>4 DEF post_doe, t
<1>4. Fine(post_run_depend(s, k), X, 0)
  BY <1>1, ExecFine DEF post_run_depend
<1>5. Fine(on_job_exit_first(s, k), X, 0)
  <2>1. CASE s.st[k.job] = "EXITING"
    <3>1. k.job \in X \/ ~Pending(s, k.job)
      BY <1>1, <2>1 DEF Fine, Held, Over
    <3>2. Fine([s EXCEPT !.st[k.job] = "STAGEOUT"], X, 0)
      BY <1>1, <3>1, AtFine DEF States, Ending
    <3> QED BY <3>2 DEF on_job_exit_first
  <2> QED BY <2>1 DEF on_job_exit_first
<1> QED BY <1>2, <1>3, <1>4, <1>5

-----------------------------------------------------------------------------
(* The actions.                                                             *)

\* the part of TypeOK that S does not hold
Rest ==
  /\ want \in [Jobs -> [0..7 -> SUBSET Jobs]] /\ wantOn \in [Jobs -> Count]
  /\ exit \in [Jobs -> {"none", "ok", "bad"}]
  /\ draining \in BOOLEAN /\ alters \subseteq Jobs /\ moves \in 0..MaxMoves
  /\ requeues \in 0..MaxRequeues
  /\ forced \subseteq Jobs /\ started \subseteq Jobs /\ ended \in [Jobs -> SUBSET {"ok", "bad"}]

\* the jobs whose users named "on" without a count
Bare == {j \in Jobs : wantOn[j] = Uncounted}

\* the inductive invariant
Inv == Rest /\ (Bare # {} => NoCount) /\ Fine(S, Bare, 0)

\* It says of an "on" that has no count what the specification need not say.
LEMMA InvIs == Inv <=> /\ TypeOK /\ HeldIffDepends /\ (Bare # {} => NoCount)
                       /\ \A q \in Jobs : on[q] = Uncounted => wantOn[q] = Uncounted
<1>1. /\ S.st = st /\ S.dep = dep /\ S.on = on
      /\ S \in Rec <=> /\ st \in [Jobs -> States] /\ dep \in [Jobs -> [0..7 -> SUBSET Jobs]]
                       /\ on \in [Jobs -> Count] /\ tasks \in Seq(Tasks)
                       /\ blame \in [Jobs -> SUBSET Reasons]
  BY DEF S, Rec
<1>2. \A q \in Jobs : Held(S, q) <=> HeldAsPending(q)
  BY <1>1 DEF Held, HeldAsPending, Over
<1>3. (\A q \in Jobs \ Bare : Held(S, q) /\ S.on[q] # Uncounted)
      <=> HeldIffDepends /\ \A q \in Jobs : on[q] = Uncounted => wantOn[q] = Uncounted
  BY <1>1, <1>2 DEF HeldIffDepends, Bare
<1>4. \A q \in Jobs : q # 0
  BY DEF Jobs
<1> QED BY <1>1, <1>3, <1>4 DEF Inv, Rest, Fine, TypeOK

\* What the operations give is what the variables become.
LEMMA BecomesFine ==
  ASSUME NEW u, NEW X, Fine(u, X, 0), Becomes(u)
  PROVE  Fine(S', X, 0)
<1>1. u = [st |-> u.st, dep |-> u.dep, on |-> u.on, tasks |-> u.tasks, blame |-> u.blame]
  BY DEF Fine, Rec
<1>2. S' = u
  BY <1>1 DEF Becomes, S
<1> QED BY <1>2

\* The jobs without a count stay the same: the rest of the invariant.
LEMMA Kept ==
  ASSUME Inv, Fine(S', Bare, 0), Rest' /\ wantOn' = wantOn
  PROVE  Inv'
<1>1. Bare' = Bare
  BY DEF Bare
<1> QED BY <1>1 DEF Inv

\* u is s with the lists and the count of j replaced
Given(u, s, j, l, n) == u = [s EXCEPT !.dep[j] = l, !.on[j] = n]

\* A job gets lists and a count.
LEMMA NewFine ==
  ASSUME NEW s, NEW X, NEW j \in X, j \in Jobs, Fine(s, X, 0), NEW l \in [0..7 -> SUBSET Jobs],
         NEW n \in Count, NEW u, Given(u, s, j, l, n)
  PROVE  Fine(u, X, 0) /\ u.on[j] = n
<1>1. /\ s \in Rec /\ u \in Rec /\ u.st = s.st
      /\ u.dep = [s.dep EXCEPT ![j] = l] /\ u.on = [s.on EXCEPT ![j] = n]
  BY DEF Fine, Rec, Given
<1>2. u.on[j] = n /\ \A q \in Jobs : q # j => u.dep[q] = s.dep[q] /\ u.on[q] = s.on[q]
  BY <1>1 DEF Rec
<1> QED BY <1>1, <1>2 DEF Fine, Held, Pending, Jobs

\* The lists of a command name jobs.
LEMMA ListsType ==
  ASSUME NEW j, NEW ps \in SUBSET Jobs, NEW d \in Pairs(j, ps)
  PROVE  Lists(d) \in [0..7 -> SUBSET Jobs]
<1>1. \A e \in d : e[2] \in Jobs
  BY DEF Pairs
<1>2. \A t \in 0..7 : {e[2] : e \in {x \in d : x[1] = t}} \in SUBSET Jobs
  BY <1>1
<1> QED BY <1>2 DEF Lists

\* So do those that an alteration makes of them.
LEMMA SetType ==
  ASSUME NEW j, NEW ps \in SUBSET Jobs, NEW d \in Pairs(j, ps), NEW old \in [0..7 -> SUBSET Jobs],
         NEW n
  PROVE  set_depend(old, d, n) \in [0..7 -> SUBSET Jobs]
<1>1. Lists(d) \in [0..7 -> SUBSET Jobs]
  BY ListsType
<1>2. None \in [0..7 -> SUBSET Jobs]
  BY DEF None
<1> QED BY <1>1, <1>2 DEF set_depend

\* no job, when nothing is said of j
Unless(j, X) == IF j \in X THEN 0 ELSE j

\* A job that is started and not over waits for nothing.
LEMMA StartedFine ==
  ASSUME NEW s, NEW X, Fine(s, X, 0), NEW j \in Jobs, s.st[j] \in OnMom \cup Ending \cup {"QUEUED"}
  PROVE  (j \notin X => ~Pending(s, j)) /\ Fine(s, X, Unless(j, X))
BY DEF Fine, Held, OnMom, Ending, Over, Unless, Jobs

\* and stays so
LEMMA MoveOn ==
  ASSUME NEW s, NEW j \in Jobs, NEW X, Fine(s, X, Unless(j, X)), NEW state \in States, state # "HELD"
  PROVE  Fine([s EXCEPT !.st[j] = state], X, Unless(j, X))
<1>1. j \in X \/ ~Pending(s, j)
  BY DEF Fine, Unless
<1> QED BY <1>1, AtFine

\* What is fine with a job that waits for nothing is fine.
LEMMA Forget ==
  ASSUME NEW s, NEW X, NEW y, Fine(s, X, y)
  PROVE  Fine(s, X, 0)
BY DEF Fine, Jobs

\* The first that the server hears of a start releases those that wait for it.
LEMMA CompleteFine ==
  ASSUME NEW s, NEW j \in Jobs, NEW X, NEW y, Fine(s, X, y)
  PROVE  Fine(complete_running(s, j), X, y)
BY ExecFine DEF complete_running

\* The invariant holds at the start.
LEMMA InvInit == Init => Inv
<1> SUFFICES ASSUME Init  PROVE Inv
  OBVIOUS
<1>1. None \in [0..7 -> SUBSET Jobs]
  BY DEF None
<1>2. TypeOK
  <2>1. 0 \in Count /\ 0 # Uncounted /\ 0 \in 0..MaxMoves /\ 0 \in 0..MaxRequeues
    BY DependAssumption DEF Count, Uncounted
  <2>2. "new" \in States /\ <<>> \in Seq(Tasks)
    BY DEF States
  <2>3. /\ st \in [Jobs -> States] /\ tasks \in Seq(Tasks)
        /\ dep \in [Jobs -> [0..7 -> SUBSET Jobs]] /\ want \in [Jobs -> [0..7 -> SUBSET Jobs]]
        /\ on \in [Jobs -> Count] /\ wantOn \in [Jobs -> Count]
    BY <1>1, <2>1, <2>2 DEF Init
  <2>4. /\ exit \in [Jobs -> {"none", "ok", "bad"}]
        /\ ended \in [Jobs -> SUBSET {"ok", "bad"}] /\ blame \in [Jobs -> SUBSET Reasons]
    BY DEF Init
  <2>5. /\ draining \in BOOLEAN /\ alters \subseteq Jobs /\ forced \subseteq Jobs /\ started \subseteq Jobs
        /\ moves \in 0..MaxMoves /\ requeues \in 0..MaxRequeues
    BY <2>1 DEF Init
  <2> QED BY <2>3, <2>4, <2>5 DEF TypeOK
<1>3. HeldIffDepends
  BY DEF Init, HeldIffDepends, HeldAsPending
<1>4. Bare = {} /\ \A q \in Jobs : on[q] # Uncounted
  BY DEF Init, Bare, Uncounted
<1> QED BY <1>2, <1>3, <1>4, InvIs

\* The head of the tasks is taken off and done.
LEMMA TaskStep == Inv /\ next_task => Inv'
<1> SUFFICES ASSUME Inv, next_task  PROVE Inv'
  OBVIOUS
<1> DEFINE k == Head(tasks)
           s == [S EXCEPT !.tasks = Tail(@)]
           u == CASE k.fn = "post_doq"        -> post_doq(s, k)
                  [] k.fn = "post_doe"        -> post_doe(s, k)
                  [] k.fn = "post_run_depend" -> post_run_depend(s, k)
                  [] k.fn = "on_job_exit"     -> on_job_exit_first(s, k)
<1>1. Fine(S, Bare, 0) /\ S \in Rec /\ S.tasks = tasks /\ tasks \in Seq(Tasks) /\ tasks # <<>>
  BY DEF Inv, Fine, Rec, S, next_task
<1>2. k \in Tasks /\ Tail(tasks) \in Seq(Tasks)
  BY <1>1
<1>3. s \in Rec /\ s.st = S.st /\ s.dep = S.dep /\ s.on = S.on
  BY <1>1, <1>2 DEF Rec
<1>4. Fine(s, Bare, 0)
  <2> HIDE DEF s
  <2> QED BY <1>1, <1>3, OtherFine
<1>5. Becomes(u)
  BY Zenon DEF next_task
<1>6. k.fn \in {"post_doq", "post_doe", "post_run_depend", "on_job_exit"}
  BY <1>2 DEF Tasks
<1>7. Fine(u, Bare, 0)
  <2> HIDE DEF k, s
  <2>1. /\ k.fn = "post_doq" => Fine(post_doq(s, k), Bare, 0)
        /\ k.fn = "post_doe" => Fine(post_doe(s, k), Bare, 0)
        /\ k.fn = "post_run_depend" => Fine(post_run_depend(s, k), Bare, 0)
        /\ k.fn = "on_job_exit" => Fine(on_job_exit_first(s, k), Bare, 0)
    BY <1>2, <1>4, TasksFine
  <2> QED BY <1>6, <2>1
<1> HIDE DEF u, s, k
<1>8. Fine(S', Bare, 0)
  BY <1>5, <1>7, BecomesFine
<1>9. Rest' /\ wantOn' = wantOn
  BY DEF Inv, Rest, next_task, bounds, asked, ran
<1> QED BY <1>8, <1>9, Kept

\* What the users name for "on" is a count, or none where they may leave it out.
LEMMA OnCountsType == OnCounts \subseteq Count /\ (Uncounted \in OnCounts => NoCount)
<1>1. Counts \subseteq Nat /\ Uncounted \notin Nat
  BY DependAssumption DEF Uncounted
<1> QED BY <1>1 DEF OnCounts, Count

\* A job is given lists and a count, and what its user asked for is noted.
LEMMA NewStep ==
  ASSUME Inv, NEW j \in Jobs, NEW s, Fine(s, Bare \cup {j}, 0), Becomes(depend_on_que(s, j)), Rest',
         NEW n, wantOn' = [wantOn EXCEPT ![j] = n], n = Uncounted => NoCount,
         s.on[j] = Uncounted => n = Uncounted
  PROVE  Inv'
<1>1. wantOn \in [Jobs -> Count]
  BY DEF Inv, Rest
<1>2. wantOn'[j] = n /\ \A q \in Jobs : q # j => wantOn'[q] = wantOn[q]
  BY <1>1
<1> DEFINE B == Bare'
<1>3. B \cup {j} = Bare \cup {j} /\ (n = Uncounted <=> j \in B)
  BY <1>2 DEF Bare
<1> HIDE DEF B
<1>4. Fine(depend_on_que(s, j), B, 0)
  BY <1>3, QueFine
<1>5. Fine(S', B, 0)
  BY <1>4, BecomesFine
<1>6. Bare' # {} => NoCount
  <2> SUFFICES ASSUME NEW q \in Jobs, wantOn'[q] = Uncounted  PROVE NoCount
    BY DEF Bare
  <2> QED BY <1>2 DEF Inv, Bare
<1> QED BY <1>5, <1>6 DEF Inv, B

\* A job is submitted.
LEMMA EnqueStep == ASSUME NEW j \in Jobs  PROVE Inv /\ svr_enquejob(j) => Inv'
<1> SUFFICES ASSUME Inv, svr_enquejob(j)  PROVE Inv'
  OBVIOUS
<1>1. PICK d \in Pairs(j, Submitted), n \in OnCounts :
         /\ Becomes(depend_on_que([S EXCEPT !.st[j] = "QUEUED", !.dep[j] = Lists(d), !.on[j] = n], j))
         /\ want' = [want EXCEPT ![j] = Lists(d)]
         /\ wantOn' = [wantOn EXCEPT ![j] = n]
  BY Zenon DEF svr_enquejob
<1> DEFINE l == Lists(d)
           X == Bare \cup {j}
           a == [S EXCEPT !.st[j] = "QUEUED"]
           s == [a EXCEPT !.dep[j] = l, !.on[j] = n]
<1>2. l \in [0..7 -> SUBSET Jobs] /\ n \in Count /\ (n = Uncounted => NoCount)
  <2>1. l \in [0..7 -> SUBSET Jobs]
    BY ListsType DEF Submitted
  <2> QED BY <2>1, OnCountsType
<1>3. Becomes(depend_on_que(s, j)) /\ want' = [want EXCEPT ![j] = l]
  BY <1>1
<1>4. j \in X /\ Fine(S, X, 0)
  BY LessFine DEF Inv
<1> HIDE DEF l, X
<1>5. Fine(a, X, 0)
  BY <1>4, AtFine DEF States, Waiting
<1>6. Given(s, a, j, l, n)
  BY DEF Given
<1> HIDE DEF a, s
<1>7. Fine(s, X, 0) /\ s.on[j] = n
  BY <1>2, <1>4, <1>5, <1>6, NewFine
<1>8. Rest'
  BY <1>1, <1>2, <1>3 DEF Inv, Rest, svr_enquejob, bounds, ran
<1> QED BY <1>1, <1>2, <1>3, <1>7, <1>8, NewStep DEF X

\* The dependencies of a job are altered.
LEMMA AlterStep == ASSUME NEW j \in Jobs  PROVE Inv /\ modify_job_attr(j) => Inv'
<1> SUFFICES ASSUME Inv, modify_job_attr(j)  PROVE Inv'
  OBVIOUS
<1>1. PICK d \in Pairs(j, Submitted), n \in OnCounts :
         LET new == set_depend(dep[j], d, n)
             s   == [S EXCEPT !.dep[j] = new, !.on[j] = set_on(@, d, n)]
         IN  /\ Becomes(depend_on_que(alter_unreg(s, j, s.dep[j], new), j))
             /\ want' = [want EXCEPT ![j] = set_depend(@, d, n)]
             /\ wantOn' = [wantOn EXCEPT ![j] = set_on(@, d, n)]
  BY Zenon DEF modify_job_attr
<1> DEFINE new == set_depend(dep[j], d, n)
           wanted == set_depend(want[j], d, n)
           m   == set_on(on[j], d, n)
           w   == set_on(wantOn[j], d, n)
           s   == [S EXCEPT !.dep[j] = new, !.on[j] = m]
           X   == Bare \cup {j}
<1>2. Submitted \in SUBSET Jobs
  BY DEF Submitted
<1>3. /\ S \in Rec /\ dep[j] \in [0..7 -> SUBSET Jobs] /\ on[j] \in Count
      /\ want[j] \in [0..7 -> SUBSET Jobs] /\ wantOn[j] \in Count
  BY DEF Inv, Fine, Rec, S, Rest
<1>4. new \in [0..7 -> SUBSET Jobs] /\ wanted \in [0..7 -> SUBSET Jobs]
  BY <1>2, <1>3, SetType
<1>5. n \in Count /\ (n = Uncounted => NoCount)
  BY OnCountsType
<1>6. m \in Count /\ w \in Count
  BY <1>3, <1>5 DEF set_on
<1>7. on[j] = Uncounted => wantOn[j] = Uncounted
  BY InvIs
<1>8. wantOn[j] = Uncounted => NoCount
  BY DEF Inv, Bare
<1>9. (m = Uncounted => w = Uncounted) /\ (w = Uncounted => NoCount)
  BY <1>5, <1>7, <1>8 DEF set_on
<1>10. s.dep[j] = new
  BY <1>3 DEF Rec
<1>11. /\ want' = [want EXCEPT ![j] = wanted] /\ wantOn' = [wantOn EXCEPT ![j] = w]
       /\ Becomes(depend_on_que(alter_unreg(s, j, s.dep[j], new), j))
  BY <1>1 DEF S
<1> HIDE DEF new, wanted, m, w
<1>12. j \in X /\ Fine(S, X, 0)
  BY LessFine DEF Inv
<1> HIDE DEF X
<1>13. Given(s, S, j, new, m)
  BY DEF Given
<1> HIDE DEF s
<1>14. Fine(s, X, 0) /\ s.on[j] = m
  BY <1>4, <1>6, <1>12, <1>13, NewFine
<1>15. alter_unreg(s, j, s.dep[j], new) = s
  BY <1>10, AlterNobody
<1>16. Becomes(depend_on_que(s, j))
  BY <1>11, <1>15
<1>17. Rest'
  <2>1. want' \in [Jobs -> [0..7 -> SUBSET Jobs]]
    BY <1>4, <1>11 DEF Inv, Rest
  <2>2. wantOn' \in [Jobs -> Count]
    BY <1>6, <1>11 DEF Inv, Rest
  <2> QED BY <2>1, <2>2 DEF Inv, Rest, modify_job_attr, ran
<1>18. Fine(s, Bare \cup {j}, 0)
  BY <1>14 DEF X
<1>19. s.on[j] = Uncounted => w = Uncounted
  BY <1>9, <1>14
<1> QED BY <1>9, <1>11, <1>16, <1>17, <1>18, <1>19, NewStep

\* A job is moved: its entries are registered again.
LEMMA MoveStep == ASSUME NEW j \in Jobs  PROVE Inv /\ local_move(j) => Inv'
<1> SUFFICES ASSUME Inv, local_move(j)  PROVE Inv'
  OBVIOUS
<1>1. Fine(S, Bare \cup {j}, 0) /\ (j \in Bare \/ S.on[j] # Uncounted)
  BY LessFine DEF Inv, Fine
<1>2. Becomes(depend_on_que(S, j))
  BY DEF local_move
<1>3. Fine(S', Bare, 0)
  BY <1>1, <1>2, QueFine, BecomesFine
<1>4. Rest' /\ wantOn' = wantOn
  BY DependAssumption DEF Inv, Rest, local_move, asked, ran
<1> QED BY <1>3, <1>4, Kept

\* A job that waits is deleted.
LEMMA DeleteStep == ASSUME NEW j \in Jobs  PROVE Inv /\ req_deletejob(j) => Inv'
<1> SUFFICES ASSUME Inv, req_deletejob(j)  PROVE Inv'
  OBVIOUS
<1>1. Fine(S, Bare, 0) /\ Becomes(Finish(S, j))
  BY DEF Inv, req_deletejob
<1>2. Fine(S', Bare, 0)
  BY <1>1, FinishFine, BecomesFine
<1>3. Rest' /\ wantOn' = wantOn
  BY DEF Inv, Rest, req_deletejob, bounds, asked, ran
<1> QED BY <1>2, <1>3, Kept

\* One that is with its MoM, or ending, is deleted by force.
LEMMA ForceStep == ASSUME NEW j \in Jobs  PROVE Inv /\ req_deletejob_force(j) => Inv'
<1> SUFFICES ASSUME Inv, req_deletejob_force(j)  PROVE Inv'
  OBVIOUS
<1>1. Fine(S, Bare, 0) /\ Becomes(Finish(S, j))
  BY DEF Inv, req_deletejob_force
<1>2. Fine(S', Bare, 0)
  BY <1>1, FinishFine, BecomesFine
<1>3. Rest' /\ wantOn' = wantOn
  BY DEF Inv, Rest, req_deletejob_force, bounds, ran
<1> QED BY <1>2, <1>3, Kept

\* A queued job is started.
LEMMA StartStep == ASSUME NEW j \in Jobs  PROVE Inv /\ svr_startjob(j) => Inv'
<1> SUFFICES ASSUME Inv, svr_startjob(j)  PROVE Inv'
  OBVIOUS
<1> DEFINE u == [S EXCEPT !.st[j] = "PRERUN"]
<1>1. Fine(S, Bare, 0) /\ S.st[j] \in OnMom \cup Ending \cup {"QUEUED"}
  BY DEF Inv, svr_startjob, S
<1>2. Fine(u, Bare, Unless(j, Bare))
  <2>1. Fine(S, Bare, Unless(j, Bare))
    BY <1>1, StartedFine
  <2> QED BY <2>1, MoveOn DEF States, OnMom
<1>3. Becomes(u)
  BY DEF svr_startjob, Becomes, S
<1> HIDE DEF u
<1>4. Fine(S', Bare, 0)
  BY <1>2, <1>3, Forget, BecomesFine
<1>5. Rest' /\ wantOn' = wantOn
  BY DEF Inv, Rest, svr_startjob, bounds, asked, ran
<1> QED BY <1>4, <1>5, Kept

\* The MoM has taken the job.
LEMMA SentStep == ASSUME NEW j \in Jobs  PROVE Inv /\ post_sendmom(j) => Inv'
<1> SUFFICES ASSUME Inv, post_sendmom(j)  PROVE Inv'
  OBVIOUS
<1> DEFINE c == complete_running(S, j)
           u == At(c, j, "SENT")
<1>1. Fine(S, Bare, 0) /\ S.st[j] \in OnMom \cup Ending \cup {"QUEUED"}
  BY DEF Inv, post_sendmom, S, OnMom
<1>2. Fine(c, Bare, Unless(j, Bare))
  BY <1>1, StartedFine, CompleteFine
<1>3. Becomes(u)
  BY DEF post_sendmom
<1> HIDE DEF c
<1>4. Fine(u, Bare, Unless(j, Bare))
  BY <1>2, MoveOn DEF At, States, OnMom
<1> HIDE DEF u
<1>5. Fine(S', Bare, 0)
  BY <1>3, <1>4, Forget, BecomesFine
<1>6. Rest' /\ wantOn' = wantOn
  BY DEF Inv, Rest, post_sendmom, bounds, asked
<1> QED BY <1>5, <1>6, Kept

\* The MoM reports the session.
LEMMA StatStep == ASSUME NEW j \in Jobs  PROVE Inv /\ stat_update(j) => Inv'
<1> SUFFICES ASSUME Inv, stat_update(j)  PROVE Inv'
  OBVIOUS
<1> DEFINE c == complete_running(S, j)
           u == At(c, j, "RUNNING")
<1>1. Fine(S, Bare, 0) /\ S.st[j] \in OnMom \cup Ending \cup {"QUEUED"}
  BY DEF Inv, stat_update, S, OnMom
<1>2. Fine(c, Bare, Unless(j, Bare))
  BY <1>1, StartedFine, CompleteFine
<1>3. Becomes(depend_on_exec(u, j))
  BY DEF stat_update
<1> HIDE DEF c
<1>4. Fine(u, Bare, Unless(j, Bare))
  BY <1>2, MoveOn DEF At, States, OnMom
<1> HIDE DEF u
<1>5. Fine(S', Bare, 0)
  BY <1>3, <1>4, ExecFine, Forget, BecomesFine
<1>6. Rest' /\ wantOn' = wantOn
  BY DEF Inv, Rest, stat_update, bounds, asked
<1> QED BY <1>5, <1>6, Kept

\* An exit status is set.
LEMMA ExitType ==
  ASSUME Rest, NEW j \in Jobs, NEW code \in {"ok", "bad"}, ExitStatus(j, code)
  PROVE  exit' \in [Jobs -> {"none", "ok", "bad"}] /\ ended' \in [Jobs -> SUBSET {"ok", "bad"}]
BY DEF Rest, ExitStatus

\* The obituary is in.
LEMMA ObitStep == ASSUME NEW j \in Jobs  PROVE Inv /\ job_obit(j) => Inv'
<1> SUFFICES ASSUME Inv, job_obit(j)  PROVE Inv'
  OBVIOUS
<1> DEFINE c == complete_running(S, j)
           u == At(c, j, "EXITING")
           k == [fn |-> "on_job_exit", job |-> j]
<1>1. Fine(S, Bare, 0) /\ S.st[j] \in OnMom \cup Ending \cup {"QUEUED"}
  BY DEF Inv, job_obit, S
<1>2. Fine(c, Bare, Unless(j, Bare))
  BY <1>1, StartedFine, CompleteFine
<1>3. Becomes([u EXCEPT !.tasks = Append(@, k)])
  BY DEF job_obit, Task
<1> HIDE DEF c
<1>4. Fine(u, Bare, Unless(j, Bare)) /\ k \in Tasks
  BY <1>2, MoveOn DEF At, States, Ending, Tasks
<1> HIDE DEF u, k
<1>5. Fine(S', Bare, 0)
  BY <1>3, <1>4, TaskFine, Forget, BecomesFine
<1>6. Rest' /\ wantOn' = wantOn
  <2>1. PICK code \in {"ok", "bad"} : ExitStatus(j, code)
    BY DEF job_obit
  <2>2. exit' \in [Jobs -> {"none", "ok", "bad"}] /\ ended' \in [Jobs -> SUBSET {"ok", "bad"}]
    BY <2>1, ExitType DEF Inv
  <2> QED BY <2>2 DEF Inv, Rest, job_obit, bounds, asked
<1> QED BY <1>5, <1>6, Kept

\* A job is queued again.
LEMMA RequeStep == ASSUME NEW j \in Jobs  PROVE Inv /\ force_reque(j) => Inv'
<1> SUFFICES ASSUME Inv, force_reque(j)  PROVE Inv'
  OBVIOUS
<1> DEFINE u == At(S, j, "QUEUED")
<1>1. Fine(S, Bare, 0) /\ S.st[j] \in OnMom \cup Ending \cup {"QUEUED"}
  BY DEF Inv, force_reque, S, OnNode
<1>2. Fine(S, Bare, Unless(j, Bare))
  BY <1>1, StartedFine
<1>3. Becomes(u)
  BY DEF force_reque
<1>4. Fine(u, Bare, Unless(j, Bare))
  BY <1>2, MoveOn DEF At, States, Waiting
<1> HIDE DEF u
<1>5. Fine(S', Bare, 0)
  BY <1>3, <1>4, Forget, BecomesFine
<1>6. Rest' /\ wantOn' = wantOn
  BY DependAssumption DEF Inv, Rest, force_reque, asked, ran
<1> QED BY <1>5, <1>6, Kept

\* The job has ended: those that wait for it are told.
LEMMA ExitStep == ASSUME NEW j \in Jobs  PROVE Inv /\ on_job_exit(j) => Inv'
<1> SUFFICES ASSUME Inv, on_job_exit(j)  PROVE Inv'
  OBVIOUS
<1> DEFINE u == At(S, j, "EXITED")
           ok == exit[j] = "ok"
<1>1. Fine(S, Bare, 0) /\ S.st[j] \in OnMom \cup Ending \cup {"QUEUED"}
  BY DEF Inv, on_job_exit, S, Ending
<1>2. Fine(S, Bare, Unless(j, Bare))
  BY <1>1, StartedFine
<1>3. Becomes(depend_on_term(u, j, ok))
  BY DEF on_job_exit
<1>4. Fine(u, Bare, Unless(j, Bare))
  BY <1>2, MoveOn DEF At, States, Ending
<1> HIDE DEF u, ok
<1>5. Fine(S', Bare, 0)
  BY <1>3, <1>4, TermFine, Forget, BecomesFine
<1>6. Rest' /\ wantOn' = wantOn
  BY DEF Inv, Rest, on_job_exit, bounds, asked, ran
<1> QED BY <1>5, <1>6, Kept

\* The node of the job stays down.
LEMMA DownStep == ASSUME NEW j \in Jobs  PROVE Inv /\ node_down_requeue(j) => Inv'
<1> SUFFICES ASSUME Inv, node_down_requeue(j)  PROVE Inv'
  OBVIOUS
<1> DEFINE u == depend_on_term(S, j, FALSE)
<1>1. Fine(S, Bare, 0) /\ Becomes(Finish(u, j))
  BY DEF Inv, node_down_requeue
<1>2. Fine(u, Bare, 0)
  BY <1>1, TermFine
<1> HIDE DEF u
<1>3. Fine(S', Bare, 0)
  BY <1>1, <1>2, FinishFine, BecomesFine
<1>4. Rest' /\ wantOn' = wantOn
  <2>1. exit' \in [Jobs -> {"none", "ok", "bad"}] /\ ended' \in [Jobs -> SUBSET {"ok", "bad"}]
    BY ExitType DEF Inv, node_down_requeue
  <2> QED BY <2>1 DEF Inv, Rest, node_down_requeue, bounds, asked
<1> QED BY <1>3, <1>4, Kept

\* The run is over.
LEMMA PurgeStep == ASSUME NEW j \in Jobs  PROVE Inv /\ job_purge(j) => Inv'
<1> SUFFICES ASSUME Inv, job_purge(j)  PROVE Inv'
  OBVIOUS
<1>1. Fine(S, Bare, 0) /\ Becomes(Finish(S, j))
  BY DEF Inv, job_purge
<1>2. Fine(S', Bare, 0)
  BY <1>1, FinishFine, BecomesFine
<1>3. Rest' /\ wantOn' = wantOn
  BY DEF Inv, Rest, job_purge, bounds, asked, ran
<1> QED BY <1>2, <1>3, Kept

\* The history forgets the job.
LEMMA CleanStep == ASSUME NEW j \in Jobs  PROVE Inv /\ svr_clean_job_history(j) => Inv'
<1> SUFFICES ASSUME Inv, svr_clean_job_history(j)  PROVE Inv'
  OBVIOUS
<1>1. Fine(S, Bare, 0) /\ Becomes(job_free(S, j))
  BY DEF Inv, svr_clean_job_history
<1>2. Fine(S', Bare, 0)
  BY <1>1, FreeFine, BecomesFine
<1>3. Rest' /\ wantOn' = wantOn
  BY DEF Inv, Rest, svr_clean_job_history, bounds, asked, ran
<1> QED BY <1>2, <1>3, Kept

\* Every step keeps the invariant.
LEMMA InvNext == Inv /\ [Next]_vars => Inv'
<1>1. ASSUME Inv, Next  PROVE Inv'
  <2>1. CASE next_task
    BY <1>1, <2>1, TaskStep
  <2>2. ASSUME NEW j \in Jobs,
               \/ svr_enquejob(j) \/ modify_job_attr(j) \/ local_move(j)
               \/ req_deletejob(j) \/ req_deletejob_force(j) \/ svr_startjob(j) \/ post_sendmom(j)
               \/ stat_update(j) \/ job_obit(j) \/ force_reque(j) \/ on_job_exit(j)
               \/ node_down_requeue(j) \/ job_purge(j) \/ svr_clean_job_history(j)
        PROVE  Inv'
    BY <1>1, <2>2, EnqueStep, AlterStep, MoveStep, DeleteStep, ForceStep, StartStep, SentStep, StatStep,
       ObitStep, RequeStep, ExitStep, DownStep, PurgeStep, CleanStep
  <2> QED BY <1>1, <2>1, <2>2 DEF Next
<1>2. ASSUME Inv, UNCHANGED vars  PROVE Inv'
  <2>1. S' = S
    BY <1>2 DEF vars, S
  <2>2. Fine(S', Bare, 0)
    BY <1>2, <2>1 DEF Inv
  <2>3. Rest'
    BY <1>2 DEF Inv, Rest, vars
  <2>4. Bare' = Bare
    BY <1>2 DEF Bare, vars
  <2> QED BY <1>2, <2>2, <2>3, <2>4 DEF Inv
<1> QED BY <1>1, <1>2

-----------------------------------------------------------------------------
\* The states, lists, counts and tasks are of their kinds at all times; in particular
\* the count of "on" is never counted down past zero, however many jobs register
\* (register_dep).
THEOREM TypeCorrect == Spec => []TypeOK
<1>1. Inv => TypeOK
  BY InvIs
<1> QED BY <1>1, InvInit, InvNext, PTL DEF Spec

\* A job has the system hold exactly as long as it depends on something, for any
\* number of jobs and dependencies, whatever is registered, released, deleted, altered
\* or moved in between, unless its user named "on" without a count (set_depend_hold,
\* register_dep, unregister_dep, release_dep).
THEOREM HeldCorrect == Spec => []HeldIffDepends
<1>1. Inv => HeldIffDepends
  BY InvIs
<1> QED BY <1>1, InvInit, InvNext, PTL DEF Spec

=============================================================================
