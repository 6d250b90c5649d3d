---------------------------- MODULE Matched_proof ----------------------------
(***************************************************************************)
(* The proof that the two ends of a dependency agree, as long as no         *)
(* dependencies have been altered and nobody names "on" without a count.    *)
(* It goes along the requests as the proof of Depend_proof does, with Agree *)
(* in the place of Fine.                                                    *)
(***************************************************************************)
EXTENDS Depend_proof

-----------------------------------------------------------------------------
(* The tasks, as a set.                                                     *)

Elems(q) == {q[i] : i \in 1..Len(q)}

\* A task is added.
LEMMA ElemsAppend ==
  ASSUME NEW q \in Seq(Tasks), NEW k \in Tasks
  PROVE  Append(q, k) \in Seq(Tasks) /\ Elems(Append(q, k)) = Elems(q) \cup {k}
<1> DEFINE a == Append(q, k)  n == Len(q)
<1>1. /\ a \in Seq(Tasks) /\ n \in Nat /\ Len(a) = n + 1 /\ a[n + 1] = k
      /\ \A i \in 1..n : a[i] = q[i]
  OBVIOUS
<1> HIDE DEF a, n
<1>2. \A i \in 1..(n + 1) : i \in 1..n \/ i = n + 1
  BY <1>1
<1>3. (\A i \in 1..n : i \in 1..(n + 1)) /\ n + 1 \in 1..(n + 1)
  BY <1>1
<1>4. {a[i] : i \in 1..Len(a)} = {q[i] : i \in 1..n} \cup {k}
  BY <1>1, <1>2, <1>3
<1> QED BY <1>1, <1>4 DEF Elems, a, n

\* The first task is taken off.
LEMMA ElemsTail ==
  ASSUME NEW q \in Seq(Tasks), q # <<>>
  PROVE  /\ Tail(q) \in Seq(Tasks) /\ Head(q) \in Tasks
         /\ Elems(q) = Elems(Tail(q)) \cup {Head(q)}
<1> DEFINE a == Tail(q)  n == Len(q)  h == Head(q)
<1>1. /\ a \in Seq(Tasks) /\ h \in Tasks
      /\ n \in Nat /\ n >= 1 /\ Len(a) = n - 1 /\ h = q[1]
      /\ \A i \in 1..(n - 1) : a[i] = q[i + 1]
  OBVIOUS
<1> HIDE DEF a, n, h
<1>2. \A i \in 1..n : i = 1 \/ (i - 1 \in 1..(n - 1) /\ q[i] = a[i - 1])
  BY <1>1
<1>3. (\A i \in 1..(n - 1) : i + 1 \in 1..n) /\ 1 \in 1..n
  BY <1>1
<1>4. {q[i] : i \in 1..n} \subseteq {a[i] : i \in 1..(n - 1)} \cup {h}
  <2> SUFFICES ASSUME NEW i \in 1..n, q[i] # h  PROVE \E m \in 1..(n - 1) : a[m] = q[i]
    OBVIOUS
  <2>1. i - 1 \in 1..(n - 1) /\ q[i] = a[i - 1]
    BY <1>1, <1>2
  <2> QED BY <2>1
<1>5. {a[i] : i \in 1..(n - 1)} \subseteq {q[i] : i \in 1..n}
  BY <1>1, <1>3
<1>6. h \in {q[i] : i \in 1..n}
  BY <1>1, <1>3
<1>7. {q[i] : i \in 1..n} = {a[i] : i \in 1..Len(a)} \cup {h}
  BY <1>1, <1>4, <1>5, <1>6
<1> QED BY <1>1, <1>7 DEF Elems, a, n, h

\* Unlinked adds no task and keeps the answers.
LEMMA ElemsUnlinked ==
  ASSUME NEW q \in Seq(Tasks), NEW j
  PROVE  /\ Elems(Unlinked(q, j)) \subseteq Elems(q)
         /\ \A k \in Elems(q) : k.fn \in {"post_doq", "post_doe"} => k \in Elems(Unlinked(q, j))
<1> DEFINE n == Len(q)
           keep(k) == k.job # j \/ k.fn \in {"post_doq", "post_doe"}
<1>1. n \in Nat /\ (\A i \in 1..n : q[i] \in Tasks) /\ Elems(<<>>) = {} /\ <<>> \in Seq(Tasks)
  BY DEF Elems
<1>2. \E r : UnlinkedRow(r, q, j, n)
  BY <1>1, UnlinkedExists
<1>3. PICK r : UnlinkedRow(r, q, j, n) /\ Unlinked(q, j) = r[n]
  BY <1>2 DEF UnlinkedRow, Unlinked
<1> DEFINE a(i) == Append(r[i - 1], q[i])
<1>4. r = [i \in 0..n |-> IF i = 0 THEN <<>> ELSE IF keep(q[i]) THEN a(i) ELSE r[i - 1]]
  BY <1>3, Zenon DEF UnlinkedRow
<1> DEFINE Q == Seq(Tasks)
           E(v) == Elems(v)
           P == {i \in 0..n : /\ r[i] \in Q
                              /\ E(r[i]) \subseteq {q[m] : m \in 1..n}
                              /\ \A m \in 1..i : keep(q[m]) => q[m] \in E(r[i])}
<1>5. ASSUME NEW i \in 1..n, r[i - 1] \in Q  PROVE a(i) \in Q /\ E(a(i)) = E(r[i - 1]) \cup {q[i]}
  BY <1>1, <1>5, ElemsAppend
<1>6. E(<<>>) = {} /\ <<>> \in Q
  BY <1>1
<1> HIDE DEF n, a, keep, Q, E
<1>7. r[0] = <<>> /\ \A i \in 1..n : IF keep(q[i]) THEN r[i] = a(i) ELSE r[i] = r[i - 1]
  BY <1>1, <1>4
<1>8. 0 \in P
  BY <1>1, <1>6, <1>7
<1>9. ASSUME NEW i \in 1..n, i - 1 \in P  PROVE i \in P
  <2>1. /\ r[i - 1] \in Q /\ E(r[i - 1]) \subseteq {q[m] : m \in 1..n}
        /\ \A m \in 1..(i - 1) : keep(q[m]) => q[m] \in E(r[i - 1])
    BY <1>9
  <2>2. \A m \in 1..i : m \in 1..(i - 1) \/ m = i
    BY <1>1
  <2>3. CASE keep(q[i])
    <3>1. r[i] \in Q /\ E(r[i]) = E(r[i - 1]) \cup {q[i]}
      BY <1>5, <1>7, <2>1, <2>3
    <3> QED BY <1>1, <2>1, <2>2, <3>1
  <2>4. CASE ~keep(q[i])
    <3>1. r[i] = r[i - 1]
      BY <1>7, <2>4
    <3> QED BY <1>1, <2>1, <2>2, <2>4, <3>1
  <2> QED BY <2>3, <2>4
<1> HIDE DEF P
<1>10. 0..n \subseteq P
  BY <1>1, <1>8, <1>9, Induction
<1>11. n \in P
  BY <1>1, <1>10
<1>12. /\ E(r[n]) \subseteq {q[m] : m \in 1..n}
       /\ \A m \in 1..n : keep(q[m]) => q[m] \in E(r[n])
  BY <1>11 DEF P
<1>13. Elems(q) = {q[m] : m \in 1..n}
  BY DEF Elems, n
<1> QED BY <1>3, <1>12, <1>13 DEF E, keep

-----------------------------------------------------------------------------
(* The invariant, of a record.                                              *)

Ts(s) == Elems(s.tasks)

\* the states in which a job has not told others of its start
Early == {"new", "HELD", "QUEUED", "PRERUN"}

\* the job's registration has been rejected, and it is about to be aborted
Refused(s, q) == \E k \in Ts(s) : k.fn = "post_doq" /\ k.job = q

Told(s, q, t, p) == q \in s.dep[p][Mirror(t)] \/ Refused(s, q)

\* the entry of p in the list t comes behind that of n in the list a
Due(t, p, a, n) == t > a \/ (t = a /\ p > n)

\* Both ends agree, but for the entries of x behind (a, n), not registered yet
Both(s, x, a, n) ==
  \A q \in Jobs, t \in After : s.st[q] = "HELD" =>
     \A p \in s.dep[q][t] : Told(s, q, t, p) \/ (q = x /\ Due(t, p, a, n))

\* lists name other jobs, and such as have been submitted
Known(s) == \A q \in Jobs, t \in 0..7 : \A p \in s.dep[q][t] : p # q /\ s.st[p] # "new"

\* a job whose entry post_doe is about to drop has been released
Released(s) ==
  \A k \in Ts(s) : k.fn = "post_doe" =>
     /\ s.st[k.other] # "new"
     /\ s.st[k.other] = "gone" \/ k.job \notin s.dep[k.other][AFTERSTART]

\* those that tell of a start, but for z, have been started
Late(s, z) ==
  \A k \in Ts(s) : k.fn \in {"post_doe", "post_run_depend"} => k.job = z \/ s.st[k.job] \notin Early

Agree(s, x, a, n, z) ==
  /\ s \in Rec /\ Ts(s) \subseteq Tasks
  /\ Known(s) /\ Released(s) /\ Late(s, z) /\ Both(s, x, a, n)

\* The tasks of a record are tasks.
LEMMA TsType ==
  ASSUME NEW s \in Rec
  PROVE  Ts(s) \subseteq Tasks
<1>1. s.tasks \in Seq(Tasks)
  BY DEF Rec
<1> QED BY <1>1 DEF Ts, Elems

\* Nothing happens but that some tasks go, answers to Register not among them.
LEMMA SameAgree ==
  ASSUME NEW s, NEW x, NEW a, NEW n, NEW z, Agree(s, x, a, n, z), NEW u \in Rec,
         u.st = s.st, u.dep = s.dep, Ts(u) \subseteq Ts(s),
         \A k \in Ts(s) : k.fn = "post_doq" => k \in Ts(u)
  PROVE  Agree(u, x, a, n, z)
<1>1. \A q : Refused(s, q) => Refused(u, q)
  BY DEF Refused
<1>2. Both(u, x, a, n)
  BY <1>1 DEF Agree, Both, Told
<1>3. Known(u) /\ Released(u) /\ Late(u, z) /\ Ts(u) \subseteq Tasks
  BY DEF Agree, Known, Released, Late
<1> QED BY <1>2, <1>3 DEF Agree

\* One job's state is set, and the job is not held.
LEMMA AtAgree ==
  ASSUME NEW s, NEW x, NEW a, NEW n, NEW z, Agree(s, x, a, n, z), NEW j \in Jobs,
         NEW state \in States, state # "HELD", state # "new", s.st[j] = "gone" => state = "gone",
         \/ state \notin Early
         \/ j = z
         \/ \A k \in Ts(s) : k.fn \in {"post_doe", "post_run_depend"} => k.job # j
  PROVE  Agree([s EXCEPT !.st[j] = state], x, a, n, z)
<1> DEFINE u == [s EXCEPT !.st[j] = state]
<1>1. /\ s \in Rec /\ u \in Rec /\ u.st = [s.st EXCEPT ![j] = state]
      /\ u.dep = s.dep /\ u.tasks = s.tasks
  BY DEF Agree, Rec
<1>2. u.st[j] = state /\ \A q \in Jobs : q # j => u.st[q] = s.st[q]
  BY <1>1 DEF Rec
<1>3. Ts(u) = Ts(s)
  BY <1>1 DEF Ts
<1> HIDE DEF u
<1>4. \A k \in Ts(s) : /\ k.job \in Jobs
                       /\ k.fn = "post_doe" => k.other \in Jobs
  <2>1. Ts(s) \subseteq Tasks
    BY DEF Agree
  <2> QED BY <2>1 DEF Tasks
<1>5. Both(u, x, a, n)
  BY <1>1, <1>2, <1>3 DEF Agree, Both, Told, Refused
<1>6. \A q \in Jobs, t \in 0..7 : s.dep[q][t] \subseteq Jobs
  BY <1>1 DEF Rec
<1>7. Known(u)
  BY <1>1, <1>2, <1>6 DEF Agree, Known
<1>8. Released(u)
  BY <1>1, <1>2, <1>3, <1>4 DEF Agree, Released
<1>9. Late(u, z)
  BY <1>2, <1>3, <1>4 DEF Agree, Late
<1>10. Agree(u, x, a, n, z)
  BY <1>1, <1>3, <1>5, <1>7, <1>8, <1>9 DEF Agree
<1> QED BY <1>10 DEF u

\* A task is added.
LEMMA TaskAgree ==
  ASSUME NEW s, NEW x, NEW a, NEW n, NEW z, Agree(s, x, a, n, z), NEW k \in Tasks,
         k.fn = "post_doe" => /\ s.st[k.other] # "new"
                              /\ s.st[k.other] = "gone" \/ k.job \notin s.dep[k.other][AFTERSTART],
         k.fn \in {"post_doe", "post_run_depend"} => k.job = z \/ s.st[k.job] \notin Early
  PROVE  Agree([s EXCEPT !.tasks = Append(@, k)], x, a, n, z)
<1> DEFINE u == [s EXCEPT !.tasks = Append(@, k)]
<1>1. s \in Rec
  BY DEF Agree
<1>2. s.tasks \in Seq(Tasks)
  BY <1>1 DEF Rec
<1>3. Append(s.tasks, k) \in Seq(Tasks) /\ Elems(Append(s.tasks, k)) = Elems(s.tasks) \cup {k}
  BY <1>2, ElemsAppend
<1>4. u \in Rec /\ u.st = s.st /\ u.dep = s.dep /\ u.tasks = Append(s.tasks, k)
  BY <1>1, <1>3 DEF Rec
<1>5. Ts(u) = Ts(s) \cup {k}
  BY <1>3, <1>4 DEF Ts
<1> HIDE DEF u
<1>6. \A q : Refused(s, q) => Refused(u, q)
  BY <1>5 DEF Refused
<1>7. Both(u, x, a, n)
  BY <1>4, <1>6 DEF Agree, Both, Told
<1>8. Known(u) /\ Ts(u) \subseteq Tasks
  BY <1>4, <1>5 DEF Agree, Known
<1>9. Released(u) /\ Late(u, z)
  BY <1>4, <1>5 DEF Agree, Released, Late
<1>10. Agree(u, x, a, n, z)
  BY <1>4, <1>7, <1>8, <1>9 DEF Agree
<1> QED BY <1>10 DEF u

\* A rejected Register tells of all the entries of the job.
LEMMA RejectAgree ==
  ASSUME NEW s, NEW j \in Jobs, NEW t \in 0..7, NEW p \in Jobs, NEW a, NEW n, NEW z,
         Agree(s, j, a, n, z), NEW b, NEW m
  PROVE  Agree(Reject(s, j, t, p), j, b, m, z)
<1> DEFINE k == [fn |-> "post_doq", job |-> j, type |-> t, other |-> p]
           u == [s EXCEPT !.tasks = Append(@, k)]
<1>1. k \in Tasks /\ k.fn = "post_doq" /\ k.job = j
  BY DEF Tasks
<1> HIDE DEF k
<1>2. Agree(u, j, a, n, z)
  BY <1>1, TaskAgree
<1>3. s \in Rec /\ s.tasks \in Seq(Tasks)
  BY DEF Agree, Rec
<1>4. u.tasks = Append(s.tasks, k)
  BY <1>3 DEF Rec
<1>5. k \in Ts(u)
  BY <1>1, <1>3, <1>4, ElemsAppend DEF Ts
<1>6. u = Reject(s, j, t, p)
  BY DEF Reject, k
<1> HIDE DEF u
<1>7. Refused(u, j)
  BY <1>1, <1>5 DEF Refused
<1>8. Both(u, j, b, m)
  BY <1>2, <1>7 DEF Agree, Both, Told
<1>9. Agree(u, j, b, m, z)
  BY <1>2, <1>8 DEF Agree
<1> QED BY <1>6, <1>9

\* A job that is not held has nothing to register.
LEMMA DoneAgree ==
  ASSUME NEW s, NEW x, NEW a, NEW n, NEW z, Agree(s, x, a, n, z),
         \/ x \in Jobs /\ s.st[x] # "HELD"
         \/ x \notin Jobs
         \/ a = 8
  PROVE  Agree(s, 0, 0, 0, z)
<1>1. \A t \in After, p \in Jobs : ~Due(t, p, 8, n)
  BY DEF After, Due
<1>2. s \in Rec /\ \A q \in Jobs, t \in After : s.dep[q][t] \subseteq Jobs
  BY DEF Agree, Rec, After
<1>3. Both(s, 0, 0, 0)
  BY <1>1, <1>2 DEF Agree, Both
<1> QED BY <1>3 DEF Agree

\* A job that has told of its start is as the others.
LEMMA StartedAgree ==
  ASSUME NEW s, NEW x, NEW a, NEW n, NEW z, Agree(s, x, a, n, z), s.st[z] \notin Early
  PROVE  Agree(s, x, a, n, 0)
BY DEF Agree, Late

\* and may be left out
LEMMA StartingAgree ==
  ASSUME NEW s, NEW x, NEW a, NEW n, NEW z, Agree(s, x, a, n, 0)
  PROVE  Agree(s, x, a, n, z)
<1>1. \A k \in Ts(s) : k.job # 0
  <2>1. Ts(s) \subseteq Tasks
    BY DEF Agree
  <2> QED BY <2>1 DEF Tasks, Jobs
<1> QED BY <1>1 DEF Agree, Late

-----------------------------------------------------------------------------
(* Entries.                                                                 *)

\* u is s with the list t of the job j replaced by ps
Replaced(u, s, j, t, ps) ==
  /\ u \in Rec /\ u.st = s.st /\ u.tasks = s.tasks
  /\ \A q \in Jobs, y \in 0..7 : u.dep[q][y] = IF q = j /\ y = t THEN ps ELSE s.dep[q][y]

\* That is what EXCEPT does.
LEMMA ReplacedIs ==
  ASSUME NEW s \in Rec, NEW j \in Jobs, NEW t \in 0..7, NEW ps \in SUBSET Jobs
  PROVE  Replaced([s EXCEPT !.dep[j][t] = ps], s, j, t, ps)
<1> DEFINE u == [s EXCEPT !.dep[j][t] = ps]
<1>1. /\ u \in Rec /\ u.st = s.st /\ u.tasks = s.tasks
      /\ u.dep = [s.dep EXCEPT ![j] = [@ EXCEPT ![t] = ps]]
  BY DEF Rec
<1>2. \A q \in Jobs, y \in 0..7 : u.dep[q][y] = IF q = j /\ y = t THEN ps ELSE s.dep[q][y]
  BY <1>1 DEF Rec
<1> HIDE DEF u
<1>3. Replaced(u, s, j, t, ps)
  BY <1>1, <1>2 DEF Replaced
<1> QED BY <1>3 DEF u

\* A job loses an entry of a list of jobs it waits for, or of one that waits for it no more.
LEMMA LoseAgree ==
  ASSUME NEW s, NEW x, NEW a, NEW n, NEW z, Agree(s, x, a, n, z), NEW j \in Jobs, NEW t \in 0..7,
         NEW p \in Jobs, NEW u, Replaced(u, s, j, t, s.dep[j][t] \ {p}),
         \/ t \in After
         \/ t = BEFORESTART /\ (s.st[p] = "gone" \/ j \notin s.dep[p][AFTERSTART])
  PROVE  Agree(u, x, a, n, z)
<1>1. /\ u \in Rec /\ u.st = s.st /\ Ts(u) = Ts(s)
      /\ \A q \in Jobs, y \in 0..7 : u.dep[q][y] = IF q = j /\ y = t THEN s.dep[j][t] \ {p} ELSE s.dep[q][y]
  BY DEF Replaced, Ts
<1>2. \A q \in Jobs, y \in 0..7 : u.dep[q][y] \subseteq s.dep[q][y] /\ s.dep[q][y] \subseteq Jobs
  <2>1. s \in Rec
    BY DEF Agree
  <2>2. \A q \in Jobs, y \in 0..7 : s.dep[q][y] \subseteq Jobs
    BY <2>1 DEF Rec
  <2> QED BY <1>1, <2>2
<1>3. \A q : Refused(u, q) <=> Refused(s, q)
  BY <1>1 DEF Refused
<1>4. Both(u, x, a, n)
  <2> SUFFICES ASSUME NEW q \in Jobs, NEW y \in After, s.st[q] = "HELD", NEW r \in u.dep[q][y]
               PROVE  Told(u, q, y, r) \/ (q = x /\ Due(y, r, a, n))
    BY <1>1 DEF Both
  <2>1. y \in 0..7 /\ Mirror(y) \in Before /\ Mirror(y) \in 0..7 /\ Mirror(y) \notin After
    BY MirrorType DEF After, Before
  <2>2. r \in s.dep[q][y] /\ r \in Jobs
    BY <1>2, <2>1
  <2>3. Told(s, q, y, r) \/ (q = x /\ Due(y, r, a, n))
    BY <2>2 DEF Agree, Both
  <2>4. q \in s.dep[r][Mirror(y)] => q \in u.dep[r][Mirror(y)]
    <3>1. CASE t \in After
      BY <1>1, <2>1, <2>2, <3>1
    <3>2. CASE t = BEFORESTART /\ (s.st[p] = "gone" \/ j \notin s.dep[p][AFTERSTART])
      <4>1. Mirror(y) = BEFORESTART => y = AFTERSTART
        BY DEF Mirror, BEFORESTART, AFTERSTART, After
      <4>2. r = j /\ Mirror(y) = t => q # p
        BY <2>2, <3>2, <4>1
      <4> QED BY <1>1, <2>1, <2>2, <4>2
    <3> QED BY <3>1, <3>2
  <2> QED BY <1>3, <2>3, <2>4 DEF Told
<1>5. Known(u)
  BY <1>1, <1>2 DEF Agree, Known
<1>6. Released(u)
  <2>1. Ts(s) \subseteq Tasks
    BY DEF Agree
  <2>2. \A k \in Ts(s) : k.fn = "post_doe" => k.other \in Jobs
    BY <2>1 DEF Tasks
  <2>3. AFTERSTART \in 0..7
    BY DEF AFTERSTART
  <2> QED BY <1>1, <1>2, <2>2, <2>3 DEF Agree, Released
<1>7. Late(u, z) /\ Ts(u) \subseteq Tasks
  BY <1>1 DEF Agree, Late
<1> QED BY <1>1, <1>4, <1>5, <1>6, <1>7 DEF Agree

\* A job gets an entry of a list of jobs that wait for it: an entry of j is registered.
LEMMA AddAgree ==
  ASSUME NEW s, NEW j \in Jobs, NEW t \in After, NEW p \in Jobs, NEW z, Agree(s, j, t, p - 1, z),
         j # p, s.st[j] # "new"
  PROVE  Agree(Add(s, p, Mirror(t), j), j, t, p, z)
<1> DEFINE m == Mirror(t)
           ps == s.dep[p][m] \cup {j}
           u == Add(s, p, m, j)
<1>1. s \in Rec /\ m \in 0..7 /\ m \in Before /\ m \notin After /\ t \in 0..7
  BY MirrorType DEF Agree, After, Before
<1> HIDE DEF m
<1>2. ps \in SUBSET Jobs /\ u = [s EXCEPT !.dep[p][m] = ps]
  BY <1>1 DEF Rec, Add
<1> HIDE DEF ps, u
<1>3. Replaced(u, s, p, m, ps)
  BY <1>1, <1>2, ReplacedIs
<1>4. /\ u \in Rec /\ u.st = s.st /\ Ts(u) = Ts(s)
      /\ \A q \in Jobs, y \in 0..7 : u.dep[q][y] = IF q = p /\ y = m THEN ps ELSE s.dep[q][y]
  BY <1>3 DEF Replaced, Ts
<1>5. \A q : Refused(u, q) <=> Refused(s, q)
  BY <1>4 DEF Refused
<1>6. Both(u, j, t, p)
  <2> SUFFICES ASSUME NEW q \in Jobs, NEW y \in After, s.st[q] = "HELD", NEW r \in u.dep[q][y]
               PROVE  Told(u, q, y, r) \/ (q = j /\ Due(y, r, t, p))
    BY <1>4 DEF Both
  <2>1. y \in 0..7 /\ Mirror(y) \in 0..7 /\ y # m
    BY <1>1, MirrorType DEF After
  <2>2. r \in s.dep[q][y] /\ r \in Jobs
    <3>1. r \in s.dep[q][y]
      BY <1>4, <2>1
    <3> QED BY <1>1, <2>1, <3>1 DEF Rec
  <2>3. Told(s, q, y, r) \/ (q = j /\ Due(y, r, t, p - 1))
    BY <2>2 DEF Agree, Both
  <2>4. CASE Told(s, q, y, r)
    <3>1. q \in s.dep[r][Mirror(y)] => q \in u.dep[r][Mirror(y)]
      BY <1>4, <2>1, <2>2 DEF ps
    <3> QED BY <1>5, <2>4, <3>1 DEF Told
  <2>5. CASE q = j /\ Due(y, r, t, p - 1)
    <3>1. Due(y, r, t, p) \/ (y = t /\ r = p)
      BY <2>2, <2>5 DEF Due, Jobs, After
    <3>2. y = t /\ r = p => q \in u.dep[r][Mirror(y)]
      BY <1>1, <1>4, <2>5 DEF ps, m
    <3> QED BY <2>5, <3>1, <3>2 DEF Told
  <2> QED BY <2>3, <2>4, <2>5
<1>7. Known(u)
  BY <1>4 DEF Agree, Known, ps
<1>8. Released(u)
  <2>1. Ts(s) \subseteq Tasks
    BY DEF Agree
  <2>2. \A k \in Ts(s) : k.fn = "post_doe" => k.other \in Jobs
    BY <2>1 DEF Tasks
  <2>3. AFTERSTART \in 0..7 /\ AFTERSTART # m
    BY <1>1 DEF AFTERSTART, After
  <2> QED BY <1>4, <2>2, <2>3 DEF Agree, Released
<1>9. Late(u, z) /\ Ts(u) \subseteq Tasks
  BY <1>4 DEF Agree, Late
<1>10. Agree(u, j, t, p, z)
  BY <1>4, <1>6, <1>7, <1>8, <1>9 DEF Agree
<1> QED BY <1>10 DEF u, m

\* A count of p is turned into an entry of j, which has p in the list of those before.
LEMMA CountAgree ==
  ASSUME NEW s, NEW j \in Jobs, NEW t \in Before, NEW p \in Jobs, NEW a, NEW n,
         Agree(s, j, a, n, 0), p \in s.dep[j][t], s.st[j] \in Waiting, s.on[p] # 0
  PROVE  Agree([Add(s, p, Mirror(t), j) EXCEPT !.on[p] = Left(@)], j, a, n, 0)
<1> DEFINE m == Mirror(t)
           ps == s.dep[p][m] \cup {j}
           u == [Add(s, p, m, j) EXCEPT !.on[p] = Left(@)]
<1>1. /\ s \in Rec /\ m \in After /\ m \in 0..7 /\ t \in 0..7 /\ Mirror(m) = t /\ t \notin After
      /\ j # p /\ s.st[j] \in Early /\ s.st[j] # "new"
  <2>1. m \in After /\ m \in 0..7 /\ t \in 0..7 /\ Mirror(m) = t /\ t \notin After
    BY DEF Mirror, Before, After
  <2> QED BY <2>1 DEF Agree, Known, Waiting, Early
<1> HIDE DEF m
<1>2. ps \in SUBSET Jobs /\ Left(s.on[p]) \in Count
  <2>1. ps \in SUBSET Jobs /\ s.on[p] \in Count
    BY <1>1 DEF Rec
  <2> QED BY <2>1, LeftType DEF Count
<1>3. /\ u.st = s.st /\ u.tasks = s.tasks
      /\ u.on = [s.on EXCEPT ![p] = Left(s.on[p])]
      /\ u.dep = [s.dep EXCEPT ![p] = [@ EXCEPT ![m] = ps]]
  BY <1>1 DEF Rec, Add
<1>4. u = [s EXCEPT !.dep = u.dep, !.on = u.on]
  BY <1>1 DEF Rec, Add
<1> HIDE DEF ps, u
<1>5. s.on \in [Jobs -> Count] /\ s.dep \in [Jobs -> [0..7 -> SUBSET Jobs]]
  BY <1>1 DEF Rec
<1>6. u.on \in [Jobs -> Count]
  BY <1>2, <1>3, <1>5
<1>7. [s.dep[p] EXCEPT ![m] = ps] \in [0..7 -> SUBSET Jobs]
  BY <1>1, <1>2, <1>5
<1>8. u.dep \in [Jobs -> [0..7 -> SUBSET Jobs]]
  BY <1>3, <1>5, <1>7
<1>9. u \in Rec
  BY <1>1, <1>4, <1>6, <1>8 DEF Rec
<1>10. \A q \in Jobs, y \in 0..7 : u.dep[q][y] = IF q = p /\ y = m THEN ps ELSE s.dep[q][y]
  BY <1>1, <1>3, <1>5
<1>11. Ts(u) = Ts(s) /\ \A q : Refused(u, q) <=> Refused(s, q)
  BY <1>3 DEF Ts, Refused
<1>12. Both(u, j, a, n)
  <2> SUFFICES ASSUME NEW q \in Jobs, NEW y \in After, s.st[q] = "HELD", NEW r \in u.dep[q][y]
               PROVE  Told(u, q, y, r) \/ (q = j /\ Due(y, r, a, n))
    BY <1>3 DEF Both
  <2>1. y \in 0..7 /\ Mirror(y) \in 0..7 /\ Mirror(y) # m
    BY <1>1, MirrorType DEF After, Before
  <2>2. CASE r \in s.dep[q][y]
    <3>1. r \in Jobs
      BY <1>5, <2>1, <2>2
    <3>2. Told(s, q, y, r) \/ (q = j /\ Due(y, r, a, n))
      BY <2>2 DEF Agree, Both
    <3>3. q \in s.dep[r][Mirror(y)] => q \in u.dep[r][Mirror(y)]
      BY <1>10, <2>1, <3>1
    <3> QED BY <1>11, <3>2, <3>3 DEF Told
  <2>3. CASE r \notin s.dep[q][y]
    <3>1. q = p /\ y = m /\ r = j
      BY <1>10, <2>1, <2>3 DEF ps
    <3>2. p \in u.dep[j][t]
      BY <1>1, <1>10
    <3> QED BY <1>1, <3>1, <3>2 DEF Told
  <2> QED BY <2>2, <2>3
<1>13. Known(u)
  BY <1>1, <1>3, <1>10 DEF Agree, Known, ps
<1>14. Released(u)
  <2>1. Ts(s) \subseteq Tasks
    BY DEF Agree
  <2>2. \A k \in Ts(s) : k.fn = "post_doe" => k.other \in Jobs
    BY <2>1 DEF Tasks
  <2>3. \A k \in Ts(s) : k.fn = "post_doe" => k.job # j
    <3>1. \A k \in Ts(s) : k.job # 0
      BY <2>1 DEF Tasks, Jobs
    <3> QED BY <1>1, <3>1 DEF Agree, Late
  <2>4. AFTERSTART \in 0..7
    BY DEF AFTERSTART
  <2> QED BY <1>3, <1>10, <1>11, <2>2, <2>3, <2>4 DEF Agree, Released, ps
<1>15. Late(u, 0) /\ Ts(u) \subseteq Tasks
  BY <1>3, <1>11 DEF Agree, Late
<1>16. Agree(u, j, a, n, 0)
  BY <1>9, <1>12, <1>13, <1>14, <1>15 DEF Agree
<1> QED BY <1>16 DEF u, m

-----------------------------------------------------------------------------
(* The requests.                                                            *)

\* The job and its tasks go.
LEMMA FreeAgree ==
  ASSUME NEW s, NEW x, NEW a, NEW n, NEW z, Agree(s, x, a, n, z), NEW j \in Jobs
  PROVE  Agree(job_free(s, j), x, a, n, z)
<1> DEFINE u == [s EXCEPT !.st[j] = "gone"]
           w == job_free(s, j)
<1>1. Agree(u, x, a, n, z)
  BY AtAgree DEF States, Early
<1>2. s \in Rec
  BY DEF Agree
<1>3. s.tasks \in Seq(Tasks)
  BY <1>2 DEF Rec
<1>4. Unlinked(s.tasks, j) \in Seq(Tasks)
  BY <1>3, UnlinkedType
<1>5. /\ Elems(Unlinked(s.tasks, j)) \subseteq Elems(s.tasks)
      /\ \A k \in Elems(s.tasks) : k.fn \in {"post_doq", "post_doe"} => k \in Elems(Unlinked(s.tasks, j))
  BY <1>3, ElemsUnlinked
<1>6. w.tasks = Unlinked(s.tasks, j) /\ u.tasks = s.tasks /\ w.st = u.st /\ w.dep = u.dep
  BY <1>2 DEF job_free, Rec
<1>7. w \in Rec
  BY <1>2, <1>4 DEF job_free, Rec, States
<1> HIDE DEF u, w
<1>8. Ts(w) \subseteq Ts(u) /\ \A k \in Ts(u) : k.fn = "post_doq" => k \in Ts(w)
  BY <1>5, <1>6 DEF Ts
<1>9. Agree(w, x, a, n, z)
  BY <1>1, <1>6, <1>7, <1>8, SameAgree
<1> QED BY <1>9 DEF w

\* The job is over.
LEMMA FinishAgree ==
  ASSUME NEW s, NEW x, NEW a, NEW n, NEW z, Agree(s, x, a, n, z), NEW j \in Jobs, s.st[j] # "gone"
  PROVE  Agree(Finish(s, j), x, a, n, z)
<1> DEFINE e == IF History THEN "FINISHED" ELSE "gone"
           u == [s EXCEPT !.st[j] = e]
           w == Finish(s, j)
<1>0. e \in States /\ e \notin Early
  BY DEF States, Early
<1>1. w = [s EXCEPT !.st[j] = e, !.tasks = Unlinked(s.tasks, j)]
  BY DEF Finish
<1> HIDE DEF e
<1>2. Agree(u, x, a, n, z)
  <2>1. e # "HELD" /\ e # "new"
    BY <1>0 DEF Early
  <2> QED BY <1>0, <2>1, AtAgree
<1>3. s \in Rec /\ s.tasks \in Seq(Tasks)
  BY DEF Agree, Rec
<1>4. Unlinked(s.tasks, j) \in Seq(Tasks)
  BY <1>3, UnlinkedType
<1>5. /\ Elems(Unlinked(s.tasks, j)) \subseteq Elems(s.tasks)
      /\ \A k \in Elems(s.tasks) : k.fn \in {"post_doq", "post_doe"} => k \in Elems(Unlinked(s.tasks, j))
  BY <1>3, ElemsUnlinked
<1> HIDE DEF w
<1>6. w.tasks = Unlinked(s.tasks, j) /\ u.tasks = s.tasks /\ w.st = u.st /\ w.dep = u.dep
  BY <1>1, <1>3 DEF Rec
<1>7. w \in Rec
  BY <1>0, <1>1, <1>3, <1>4 DEF Rec
<1> HIDE DEF u
<1>8. Ts(w) \subseteq Ts(u) /\ \A k \in Ts(u) : k.fn = "post_doq" => k \in Ts(w)
  BY <1>5, <1>6 DEF Ts
<1>9. Agree(w, x, a, n, z)
  BY <1>2, <1>6, <1>7, <1>8, SameAgree
<1> QED BY <1>9 DEF w

\* It is not held then.
LEMMA FinishState ==
  ASSUME NEW s \in Rec, NEW j \in Jobs
  PROVE  Finish(s, j).st[j] \in {"FINISHED", "gone"}
BY DEF Finish, Rec

\* A reason is noted.
LEMMA BlameAgree ==
  ASSUME NEW s, NEW x, NEW a, NEW n, NEW z, Agree(s, x, a, n, z), NEW j \in Jobs, NEW why \in Reasons
  PROVE  Agree([s EXCEPT !.blame[j] = @ \cup {why}], x, a, n, z)
<1> DEFINE u == [s EXCEPT !.blame[j] = @ \cup {why}]
<1>1. s \in Rec
  BY DEF Agree
<1>2. u \in Rec /\ u.st = s.st /\ u.dep = s.dep /\ u.tasks = s.tasks
  BY <1>1 DEF Rec
<1> HIDE DEF u
<1>3. Ts(u) = Ts(s)
  BY <1>2 DEF Ts
<1>4. Agree(u, x, a, n, z)
  BY <1>2, <1>3, SameAgree
<1> QED BY <1>4 DEF u

\* An aborted job is killed or over, and not held.
LEMMA AbtAgree ==
  ASSUME NEW s, NEW x, NEW a, NEW n, NEW z, Agree(s, x, a, n, z), NEW j \in Jobs, NEW why \in Reasons,
         s.st[j] \notin Unknown
  PROVE  Agree(job_abt(s, j, why), x, a, n, z) /\ job_abt(s, j, why).st[j] # "HELD"
<1> DEFINE b == [s EXCEPT !.blame[j] = @ \cup {why}]
<1>1. Agree(b, x, a, n, z)
  BY BlameAgree
<1>2. s \in Rec
  BY DEF Agree
<1>3. b \in Rec /\ b.st = s.st
  BY <1>2 DEF Rec
<1>4. CASE s.st[j] = "FINISHED"
  <2>1. job_abt(s, j, why) = s
    BY <1>4 DEF job_abt, OnMom
  <2> QED BY <1>4, <2>1
<1>5. CASE s.st[j] \in OnMom /\ j \notin Deaf
  <2> DEFINE u == [b EXCEPT !.st[j] = "KILLED"]
  <2>1. job_abt(s, j, why) = u
    BY <1>2, <1>5 DEF job_abt, Rec, OnMom
  <2> HIDE DEF b
  <2>2. b.st[j] # "gone"
    BY <1>3, <1>5 DEF OnMom
  <2>3. "KILLED" \in States /\ "KILLED" \notin Early
    BY DEF States, OnMom, Early
  <2>4. Agree(u, x, a, n, z)
    BY <1>1, <2>2, <2>3, AtAgree
  <2>5. u.st[j] = "KILLED"
    BY <1>3 DEF Rec
  <2> QED BY <2>1, <2>4, <2>5
<1>6. CASE s.st[j] # "FINISHED" /\ ~(s.st[j] \in OnMom /\ j \notin Deaf)
  <2>1. job_abt(s, j, why) = Finish(b, j)
    BY <1>6 DEF job_abt
  <2> HIDE DEF b
  <2>2. Agree(Finish(b, j), x, a, n, z)
    BY <1>1, <1>3, FinishAgree DEF Unknown
  <2>3. Finish(b, j).st[j] # "HELD"
    BY <1>3, FinishState
  <2> QED BY <2>1, <2>2, <2>3
<1> QED BY <1>4, <1>5, <1>6

\* Delete aborts a job.
LEMMA DeleteAgree ==
  ASSUME NEW s, NEW x, NEW a, NEW n, NEW z, Agree(s, x, a, n, z),
         NEW p \in Jobs, NEW t \in 0..7, NEW j \in Jobs
  PROVE  Agree(Delete(s, p, t, j), x, a, n, z)
<1> DEFINE w == [why |-> "Delete", type |-> Mirror(t), other |-> p]
<1>1. w \in Reasons
  BY MirrorType DEF Reasons
<1> HIDE DEF w
<1>2. s.st[j] \notin Unknown => Agree(job_abt(s, j, w), x, a, n, z)
  BY <1>1, AbtAgree
<1> QED BY <1>2 DEF Delete, w

\* No job is told to wait that did not, and none starts.
Calm(u, s) ==
  \A q \in Jobs : u.st[q] = s.st[q] \/ (s.st[q] = "HELD" /\ u.st[q] = "QUEUED")

\* A job is looked at again.
LEMMA HoldAgree ==
  ASSUME NEW s, NEW x, NEW a, NEW n, NEW z,
         Agree(s, x, a, n, z), NEW j \in Jobs, Pending(s, j) => s.st[j] \in {"HELD", "FINISHED"}
  PROVE  Agree(set_depend_hold(s, j), x, a, n, z) /\ Calm(set_depend_hold(s, j), s)
         /\ set_depend_hold(s, j).dep = s.dep
<1>1. s \in Rec
  BY DEF Agree
<1>2. CASE ~Pending(s, j) /\ s.st[j] = "HELD"
  <2> DEFINE u == [s EXCEPT !.st[j] = "QUEUED"]
  <2>1. set_depend_hold(s, j) = u
    BY <1>2 DEF set_depend_hold
  <2>2. j = z \/ \A k \in Ts(s) : k.fn \in {"post_doe", "post_run_depend"} => k.job # j
    BY <1>2 DEF Agree, Late, Early
  <2>3. "QUEUED" \in States
    BY DEF States, Waiting
  <2>4. Agree(u, x, a, n, z)
    BY <1>2, <2>2, <2>3, AtAgree
  <2>5. u.st = [s.st EXCEPT ![j] = "QUEUED"] /\ u.dep = s.dep
    BY <1>1 DEF Rec
  <2>6. s.st \in [Jobs -> States]
    BY <1>1 DEF Rec
  <2> HIDE DEF u
  <2>7. Calm(u, s)
    BY <1>2, <2>5, <2>6 DEF Calm
  <2> QED BY <2>1, <2>4, <2>5, <2>7
<1>3. CASE ~(~Pending(s, j) /\ s.st[j] = "HELD")
  <2> DEFINE u == set_depend_hold(s, j)
  <2>1. u \in Rec /\ u.st = s.st /\ u.dep = s.dep /\ u.tasks = s.tasks
    <3>1. CASE Pending(s, j) /\ s.st[j] # "FINISHED"
      <4>1. u = [s EXCEPT !.st[j] = "HELD"] /\ s.st[j] = "HELD"
        BY <3>1 DEF set_depend_hold
      <4> HIDE DEF u
      <4>2. u.st = [s.st EXCEPT ![j] = "HELD"] /\ u.dep = s.dep /\ u.tasks = s.tasks
        BY <1>1, <4>1 DEF Rec
      <4>3. u \in Rec
        BY <1>1, <4>1 DEF Rec, States, Waiting
      <4>4. u.st = s.st
        <5>1. s.st \in [Jobs -> States]
          BY <1>1 DEF Rec
        <5> QED BY <4>1, <4>2, <5>1
      <4> QED BY <4>2, <4>3, <4>4
    <3>2. CASE ~(Pending(s, j) /\ s.st[j] # "FINISHED")
      <4>1. u = s
        BY <1>3, <3>2 DEF set_depend_hold
      <4> QED BY <1>1, <4>1
    <3> QED BY <3>1, <3>2
  <2> HIDE DEF u
  <2>2. Ts(u) = Ts(s)
    BY <2>1 DEF Ts
  <2>3. Agree(u, x, a, n, z)
    BY <2>1, <2>2, SameAgree
  <2>4. Calm(u, s)
    BY <2>1 DEF Calm
  <2> QED BY <2>1, <2>3, <2>4 DEF u
<1> QED BY <1>2, <1>3

\* Release drops an entry of the job that waits.
LEMMA ReleaseAgree ==
  ASSUME NEW s, NEW x, NEW a, NEW n, NEW z, Agree(s, x, a, n, z), NEW y, Fine(s, {}, y),
         NEW p \in Jobs, NEW t \in Before, NEW j \in Jobs
  PROVE  /\ Agree(Release(s, p, t, j), x, a, n, z)
         /\ Calm(Release(s, p, t, j), s)
         /\ \/ s.st[j] \in Unknown
            \/ p \notin Release(s, p, t, j).dep[j][Mirror(t)]
<1> DEFINE m == Mirror(t)
           r == Drop(s, j, m, p)
           ps == s.dep[j][m] \ {p}
<1>1. s \in Rec /\ m \in 0..7 /\ m \in After
  BY MirrorType DEF Agree, Before
<1>2. CASE s.st[j] \in Unknown \/ p \notin s.dep[j][m]
  <2>1. Release(s, p, t, j) = s
    BY <1>2 DEF Release
  <2> QED BY <1>2, <2>1 DEF Calm
<1>3. CASE ~(s.st[j] \in Unknown \/ p \notin s.dep[j][m])
  <2>1. \/ Release(s, p, t, j) = set_depend_hold(r, j)
        \/ Release(s, p, t, j) = r
    BY <1>3, Zenon DEF Release
  <2> HIDE DEF m
  <2>2. ps \in SUBSET Jobs /\ r = [s EXCEPT !.dep[j][m] = ps]
    BY <1>1 DEF Drop, Rec
  <2>3. Replaced(r, s, j, m, ps)
    <3> HIDE DEF r, ps
    <3> QED BY <1>1, <2>2, ReplacedIs
  <2>4. r.on = s.on /\ r.st = s.st /\ r.dep[j][m] = ps
    BY <1>1, <2>2 DEF Rec
  <2> HIDE DEF r
  <2>5. Agree(r, x, a, n, z)
    BY <1>1, <2>3, LoseAgree
  <2>6. Pending(r, j) => Pending(s, j)
    <3>1. \A w \in After : r.dep[j][w] \subseteq s.dep[j][w]
      BY <2>3 DEF Replaced, After
    <3> QED BY <2>4, <3>1 DEF Pending
  <2>7. Pending(r, j) => r.st[j] \in {"HELD", "FINISHED"}
    BY <1>3, <2>4, <2>6 DEF Fine, Held, Over, Unknown
  <2>8. /\ Agree(set_depend_hold(r, j), x, a, n, z) /\ Calm(set_depend_hold(r, j), r)
        /\ set_depend_hold(r, j).dep = r.dep
    BY <2>5, <2>7, HoldAgree
  <2>9. Calm(r, s) /\ Calm(set_depend_hold(r, j), s)
    BY <2>4, <2>8 DEF Calm
  <2>10. p \notin r.dep[j][m]
    BY <2>4
  <2> QED BY <2>1, <2>5, <2>8, <2>9, <2>10 DEF m
<1> QED BY <1>2, <1>3

\* What a Register leaves alone.
Aside(u, s, j) == u.st = s.st /\ u.dep[j] = s.dep[j]

\* Register registers the entry p of the list t of j.
LEMMA RegisterAgree ==
  ASSUME NEW s, NEW j \in Jobs, NEW t \in 0..7, NEW p \in Jobs, Agree(s, j, t, p - 1, 0),
         p \in s.dep[j][t], s.st[j] \in Waiting
  PROVE  Agree(Register(s, j, t, p), j, t, p, 0) /\ Aside(Register(s, j, t, p), s, j)
<1>1. s \in Rec /\ p # j /\ s.st[j] # "new" /\ s.st[p] # "new"
  BY DEF Agree, Rec, Known, Waiting
<1>2. ASSUME Register(s, j, t, p) = Reject(s, j, t, p)
      PROVE  Agree(Register(s, j, t, p), j, t, p, 0) /\ Aside(Register(s, j, t, p), s, j)
  <2>1. Agree(Reject(s, j, t, p), j, t, p, 0)
    BY RejectAgree
  <2>2. Reject(s, j, t, p).st = s.st /\ Reject(s, j, t, p).dep = s.dep
    BY <1>1 DEF Reject, Rec
  <2> QED BY <1>2, <2>1, <2>2 DEF Aside
<1>3. CASE s.st[p] \in Unknown
  <2>1. Register(s, j, t, p) = Reject(s, j, t, p)
    BY <1>3 DEF Register
  <2> QED BY <1>2, <2>1
<1>4. CASE s.st[p] \notin Unknown /\ t \in After
  <2> DEFINE k == [fn |-> "post_run_depend", job |-> p]
             w == [s EXCEPT !.tasks = Append(@, k)]
             v == IF t = AFTERSTART /\ s.st[p] \in RunningOrLater THEN Task(s, "post_run_depend", p) ELSE s
             m == Mirror(t)
  <2>0. t \notin Before
    BY <1>4 DEF After, Before
  <2>1. Register(s, j, t, p) = Add(v, p, m, j)
    BY <1>4, <2>0, Zenon DEF Register
  <2>2. k \in Tasks /\ k.fn = "post_run_depend" /\ k.job = p
    BY DEF Tasks
  <2>3. s.st[p] \in RunningOrLater => s.st[p] \notin Early
    BY DEF RunningOrLater, Early, Ending
  <2>4. Task(s, "post_run_depend", p) = w
    BY DEF Task
  <2> HIDE DEF k
  <2>5. s.st[p] \in RunningOrLater => Agree(w, j, t, p - 1, 0)
    BY <2>2, <2>3, TaskAgree
  <2>6. w.st = s.st /\ w.dep = s.dep /\ w.on = s.on
    BY <1>1 DEF Rec
  <2> HIDE DEF w
  <2>7. Agree(v, j, t, p - 1, 0) /\ v.st = s.st /\ v.dep = s.dep
    BY <2>4, <2>5, <2>6
  <2> HIDE DEF v
  <2>8. Agree(Add(v, p, m, j), j, t, p, 0)
    BY <1>1, <1>4, <2>7, AddAgree
  <2>9. Add(v, p, m, j).st = v.st /\ Add(v, p, m, j).dep[j] = v.dep[j]
    <3>1. v \in Rec
      BY <2>7 DEF Agree
    <3> QED BY <1>1, <3>1 DEF Add, Rec
  <2> QED BY <2>1, <2>7, <2>8, <2>9 DEF Aside
<1>5. ASSUME t \in Before, Register(s, j, t, p) = s
      PROVE  Agree(Register(s, j, t, p), j, t, p, 0) /\ Aside(Register(s, j, t, p), s, j)
  <2>1. \A q \in After, w \in Jobs : ~Due(q, w, t, p)
    BY <1>5 DEF After, Before, Due
  <2>2. \A q \in After, w \in Jobs : ~Due(q, w, t, p - 1)
    BY <1>5 DEF After, Before, Due
  <2>3. \A q \in Jobs, w \in After : s.dep[q][w] \subseteq Jobs
    BY <1>1 DEF Rec, After
  <2>4. Both(s, j, t, p)
    BY <2>2, <2>3 DEF Agree, Both
  <2> QED BY <1>5, <2>4 DEF Agree, Aside
<1>6. CASE s.st[p] \notin Unknown /\ t \in Before /\ s.on[p] # 0
  <2> DEFINE u == [Add(s, p, Mirror(t), j) EXCEPT !.on[p] = Left(@)]
  <2>1. t \notin After
    BY <1>6 DEF Before, After
  <2>2. Register(s, j, t, p) = s \/ Register(s, j, t, p) = u
    BY <1>6, <2>1 DEF Register, Left
  <2>3. Agree(u, j, t, p - 1, 0)
    BY <1>6, CountAgree
  <2>4. u.st = s.st /\ u.dep[j] = s.dep[j]
    BY <1>1 DEF Add, Rec
  <2> HIDE DEF u
  <2>5. Agree(u, j, t, p, 0)
    <3>1. \A q \in After, w \in Jobs : ~Due(q, w, t, p - 1)
      BY <1>6 DEF After, Before, Due
    <3>2. u \in Rec
      BY <2>3 DEF Agree
    <3>3. \A q \in Jobs, w \in After : u.dep[q][w] \subseteq Jobs
      BY <3>2 DEF Rec, After
    <3>4. Both(u, j, t, p)
      BY <2>3, <3>1, <3>3 DEF Agree, Both
    <3> QED BY <2>3, <3>4 DEF Agree
  <2> QED BY <1>5, <1>6, <2>2, <2>4, <2>5 DEF Aside
<1>7. CASE s.st[p] \notin Unknown /\ t \in Before /\ s.on[p] = 0
  <2>1. t \notin After
    BY <1>7 DEF Before, After
  <2>2. Register(s, j, t, p) = s \/ Register(s, j, t, p) = Reject(s, j, t, p)
    BY <1>7, <2>1 DEF Register
  <2> QED BY <1>2, <1>5, <1>7, <2>2
<1>8. t \in After \/ t \in Before
  BY MirrorType
<1> QED BY <1>3, <1>4, <1>6, <1>7, <1>8

-----------------------------------------------------------------------------
(* All the requests of a job.                                               *)

\* An entry that is not there need not be registered.
LEMMA SkipAgree ==
  ASSUME NEW s, NEW j \in Jobs, NEW t \in 0..7, NEW p \in Jobs, Agree(s, j, t, p - 1, 0), p \notin s.dep[j][t]
  PROVE  Agree(s, j, t, p, 0)
<1>1. s \in Rec
  BY DEF Agree
<1>2. \A q \in Jobs, y \in After : s.dep[q][y] \subseteq Jobs
  BY <1>1 DEF Rec, After
<1>3. \A y \in After, r \in Jobs : Due(y, r, t, p - 1) => Due(y, r, t, p) \/ (y = t /\ r = p)
  BY DEF Due, Jobs, After
<1>4. Both(s, j, t, p)
  BY <1>2, <1>3 DEF Agree, Both
<1> QED BY <1>4 DEF Agree

\* The entries of one list are registered.
LEMMA ListRegistered ==
  ASSUME NEW s, NEW j \in Jobs, NEW t \in 0..7, Agree(s, j, t, 0, 0), s.st[j] \in Waiting
  PROVE  /\ Agree(SendToList(s, j, t, s.dep[j][t], "que"), j, t + 1, 0, 0)
         /\ Aside(SendToList(s, j, t, s.dep[j][t], "que"), s, j)
<1> DEFINE ps == s.dep[j][t]
           send(v, p) == send_depend_req(v, j, t, p, "que")
           F(v, p) == Agree(v, j, t, p, 0) /\ Aside(v, s, j)
<1>0. N \in Nat
  BY DependAssumption
<1>1. \E r : Row(r, s, j, t, ps, "que", N)
  BY <1>0, RowExists
<1>2. PICK r : Row(r, s, j, t, ps, "que", N) /\ SendToList(s, j, t, ps, "que") = r[N]
  BY <1>1 DEF Row, SendToList
<1>3. r = [p \in 0..N |-> IF p = 0 THEN s ELSE IF p \in ps THEN send(r[p - 1], p) ELSE r[p - 1]]
  BY <1>2, Zenon DEF Row
<1>4. ASSUME NEW p \in 1..N, F(r[p - 1], p - 1)
      PROVE  (p \in ps => F(send(r[p - 1], p), p)) /\ (p \notin ps => F(r[p - 1], p))
  <2>1. p \in Jobs
    BY DEF Jobs
  <2>2. send(r[p - 1], p) = Register(r[p - 1], j, t, p)
    BY DEF send_depend_req
  <2>3. r[p - 1].dep[j][t] = ps /\ r[p - 1].st[j] \in Waiting /\ r[p - 1].dep[j] = s.dep[j] /\ r[p - 1].st = s.st
    BY <1>4 DEF Aside
  <2>4. ASSUME p \in ps  PROVE F(send(r[p - 1], p), p)
    <3>1. /\ Agree(Register(r[p - 1], j, t, p), j, t, p, 0)
          /\ Aside(Register(r[p - 1], j, t, p), r[p - 1], j)
      BY <1>4, <2>1, <2>3, <2>4, RegisterAgree
    <3> QED BY <2>2, <2>3, <3>1 DEF Aside
  <2>5. ASSUME p \notin ps  PROVE F(r[p - 1], p)
    BY <1>4, <2>1, <2>3, <2>5, SkipAgree
  <2> QED BY <2>4, <2>5
<1>5. F(s, 0)
  BY DEF Aside
<1> DEFINE P == {p \in 0..N : F(r[p], p)}
<1> HIDE DEF send, F, ps
<1>6. r[0] = s /\ \A p \in 1..N : IF p \in ps THEN r[p] = send(r[p - 1], p) ELSE r[p] = r[p - 1]
  BY <1>0, <1>3
<1>7. 0 \in P
  BY <1>0, <1>5, <1>6
<1>8. ASSUME NEW p \in 1..N, p - 1 \in P  PROVE p \in P
  BY <1>4, <1>6, <1>8
<1> HIDE DEF P
<1>9. 0..N \subseteq P
  BY <1>0, <1>7, <1>8, Induction
<1>10. N \in P
  BY <1>0, <1>9
<1>11. Agree(r[N], j, t, N, 0) /\ Aside(r[N], s, j)
  BY <1>10 DEF P, F
<1>12. Agree(r[N], j, t + 1, 0, 0)
  <2> DEFINE v == r[N]
  <2>1. Agree(v, j, t, N, 0) /\ v \in Rec
    BY <1>11 DEF Agree
  <2> HIDE DEF v
  <2>2. \A q \in Jobs, y \in After : v.dep[q][y] \subseteq Jobs
    BY <2>1 DEF Rec, After
  <2>3. \A y \in After, w \in Jobs : Due(y, w, t, N) => Due(y, w, t + 1, 0)
    BY <1>0 DEF Due, Jobs, After
  <2>4. Both(v, j, t + 1, 0)
    BY <2>1, <2>2, <2>3 DEF Agree, Both
  <2>5. Agree(v, j, t + 1, 0, 0)
    BY <2>1, <2>4 DEF Agree
  <2> QED BY <2>5 DEF v
<1> QED BY <1>2, <1>11, <1>12 DEF ps

\* And those of all the lists, so that both ends agree.
LEMMA AllRegistered ==
  ASSUME NEW s, NEW j \in Jobs, Agree(s, j, 0, 0, 0), s.st[j] \in Waiting
  PROVE  Agree(SendToAll(s, j, s.dep[j], "que"), 0, 0, 0, 0)
<1> DEFINE lists == s.dep[j]
           send(v, t) == SendToList(v, j, t - 1, lists[t - 1], "que")
           F(v, t) == Agree(v, j, t, 0, 0) /\ Aside(v, s, j)
<1>1. \E r : Rows(r, s, j, lists, "que", 8)
  BY RowsExists
<1>2. PICK r : Rows(r, s, j, lists, "que", 8) /\ SendToAll(s, j, lists, "que") = r[8]
  BY <1>1 DEF Rows, SendToAll
<1>3. r = [t \in 0..8 |-> IF t = 0 THEN s ELSE send(r[t - 1], t)]
  BY <1>2, Zenon DEF Rows
<1>4. ASSUME NEW t \in 1..8, F(r[t - 1], t - 1)  PROVE F(send(r[t - 1], t), t)
  <2> DEFINE v == r[t - 1]  i == t - 1
  <2>1. i \in 0..7 /\ i + 1 = t
    OBVIOUS
  <2>2. Agree(v, j, i, 0, 0) /\ v.dep[j] = lists /\ v.st = s.st
    BY <1>4 DEF Aside
  <2> HIDE DEF v, i
  <2>3. /\ Agree(SendToList(v, j, i, v.dep[j][i], "que"), j, i + 1, 0, 0)
        /\ Aside(SendToList(v, j, i, v.dep[j][i], "que"), v, j)
    BY <2>1, <2>2, ListRegistered
  <2>4. F(SendToList(v, j, i, lists[i], "que"), t)
    BY <2>1, <2>2, <2>3 DEF Aside
  <2> QED BY <2>4 DEF v, i
<1>5. F(s, 0)
  BY DEF Aside
<1> DEFINE P == {t \in 0..8 : F(r[t], t)}
<1> HIDE DEF send, F, lists
<1>6. r[0] = s /\ \A t \in 1..8 : r[t] = send(r[t - 1], t)
  BY <1>3
<1>7. 0 \in P
  BY <1>5, <1>6
<1>8. ASSUME NEW t \in 1..8, t - 1 \in P  PROVE t \in P
  BY <1>4, <1>6, <1>8
<1> HIDE DEF P
<1>9. 0..8 \subseteq P
  BY <1>7, <1>8, Induction
<1>10. 8 \in P
  BY <1>9
<1>11. Agree(r[8], j, 8, 0, 0)
  BY <1>10 DEF P, F
<1>12. Agree(r[8], 0, 0, 0, 0)
  BY <1>11, DoneAgree
<1> QED BY <1>2, <1>12 DEF lists

\* A job that is submitted or moved.
LEMMA QueAgree ==
  ASSUME NEW s, NEW j \in Jobs, Agree(s, j, 0, 0, 0), s.st[j] \in Waiting
  PROVE  Agree(depend_on_que(s, j), 0, 0, 0, 0)
<1> DEFINE v == set_depend_hold(s, j)
<1>1. s \in Rec /\ s.st \in [Jobs -> States]
  BY DEF Agree, Rec
<1>2. v \in {s, [s EXCEPT !.st[j] = "HELD"], [s EXCEPT !.st[j] = "QUEUED"]}
  BY DEF set_depend_hold
<1>3. /\ v \in Rec /\ v.st[j] \in Waiting /\ v.dep = s.dep /\ v.tasks = s.tasks
      /\ \A q \in Jobs : q # j => v.st[q] = s.st[q]
  <2> HIDE DEF v
  <2>1. "HELD" \in States /\ "QUEUED" \in States
    BY DEF States, Waiting
  <2>2. CASE v = s
    BY <1>1, <2>2
  <2>3. CASE v = [s EXCEPT !.st[j] = "HELD"]
    <3>1. v \in Rec /\ v.st = [s.st EXCEPT ![j] = "HELD"] /\ v.dep = s.dep /\ v.tasks = s.tasks
      BY <1>1, <2>1, <2>3 DEF Rec
    <3> QED BY <1>1, <3>1 DEF Waiting
  <2>4. CASE v = [s EXCEPT !.st[j] = "QUEUED"]
    <3>1. v \in Rec /\ v.st = [s.st EXCEPT ![j] = "QUEUED"] /\ v.dep = s.dep /\ v.tasks = s.tasks
      BY <1>1, <2>1, <2>4 DEF Rec
    <3> QED BY <1>1, <3>1 DEF Waiting
  <2> QED BY <1>2, <2>2, <2>3, <2>4
<1> HIDE DEF v
<1>4. Ts(v) = Ts(s) /\ \A q : Refused(v, q) <=> Refused(s, q)
  BY <1>3 DEF Ts, Refused
<1>5. \A q \in Jobs, t \in 0..7 : s.dep[q][t] \subseteq Jobs
  BY <1>1 DEF Rec
<1>6. \A t \in After, p \in Jobs : Due(t, p, 0, 0) /\ t \in 0..7
  BY DEF Due, After, Jobs
<1>7. Both(v, j, 0, 0)
  BY <1>3, <1>4, <1>5, <1>6 DEF Agree, Both, Told
<1>8. Known(v)
  BY <1>3, <1>5 DEF Agree, Known, Waiting
<1>9. Ts(s) \subseteq Tasks
  BY DEF Agree
<1>10. \A k \in Ts(s) : k.job \in Jobs /\ (k.fn = "post_doe" => k.other \in Jobs)
  BY <1>9 DEF Tasks
<1>11. Late(v, 0)
  BY <1>3, <1>4, <1>10 DEF Agree, Late, Early, Waiting, Jobs
<1>12. Released(v)
  BY <1>3, <1>4, <1>10 DEF Agree, Released, Waiting
<1>13. Agree(v, j, 0, 0, 0)
  BY <1>3, <1>4, <1>7, <1>8, <1>9, <1>11, <1>12 DEF Agree
<1>14. Agree(SendToAll(v, j, v.dep[j], "que"), 0, 0, 0, 0)
  BY <1>3, <1>13, AllRegistered
<1> QED BY <1>3, <1>14 DEF depend_on_que, v

\* The jobs that wait for the start of j are released; z is j if it is being started.
LEMMA ExecAgree ==
  ASSUME NEW s, NEW j \in Jobs, NEW y, Fine(s, {}, y), NEW z, Agree(s, 0, 0, 0, z),
         s.st[j] # "HELD", j = z \/ s.st[j] \notin Early
  PROVE  /\ Agree(depend_on_exec(s, j), 0, 0, 0, z)
         /\ Fine(depend_on_exec(s, j), {}, y)
         /\ depend_on_exec(s, j).st[j] = s.st[j]
<1> DEFINE b == BEFORESTART
           ps == s.dep[j][b]
           send(v, p) == send_depend_req(v, j, b, p, "exec")
           F(v) == /\ Agree(v, 0, 0, 0, z) /\ Fine(v, {}, y) /\ v.st[j] = s.st[j]
                   /\ \A p \in ps : v.st[p] # "new"
<1>0. /\ N \in Nat /\ b \in 0..7 /\ b \in Before /\ Mirror(b) = AFTERSTART
      /\ "exec" \in Callers /\ "exec" # "que"
  BY DependAssumption DEF BEFORESTART, Before, Mirror, AFTERSTART, Callers
<1>1. \E r : Row(r, s, j, b, ps, "exec", N)
  BY <1>0, RowExists
<1>2. PICK r : Row(r, s, j, b, ps, "exec", N) /\ SendToList(s, j, b, ps, "exec") = r[N]
  BY <1>1 DEF Row, SendToList
<1>3. r = [p \in 0..N |-> IF p = 0 THEN s ELSE IF p \in ps THEN send(r[p - 1], p) ELSE r[p - 1]]
  BY <1>2, Zenon DEF Row
<1>4. ASSUME NEW p \in 1..N, p \in ps, NEW v, F(v)  PROVE F(send(v, p))
  <2> DEFINE u == Release(v, j, b, p)
             k == [fn |-> "post_doe", job |-> j, other |-> p]
             w == [u EXCEPT !.tasks = Append(@, k)]
  <2>1. p \in Jobs
    BY DEF Jobs
  <2>2. send(v, p) = w
    BY Zenon DEF send_depend_req
  <2> HIDE DEF b
  <2>3. Fine(send(v, p), {}, y)
    BY <1>0, <1>4, <2>1, SendFine
  <2>4. /\ Agree(u, 0, 0, 0, z) /\ Calm(u, v)
        /\ v.st[p] \in Unknown \/ j \notin u.dep[p][Mirror(b)]
    BY <1>0, <1>4, <2>1, ReleaseAgree
  <2>5. k \in Tasks /\ k.fn = "post_doe" /\ k.job = j /\ k.other = p
    BY <2>1 DEF Tasks
  <2>6. u.st[j] = s.st[j] /\ \A q \in Jobs : v.st[q] # "new" => u.st[q] # "new"
    BY <1>4, <2>4 DEF Calm
  <2>7. v.st[p] = "gone" => u.st[p] = "gone"
    BY <2>1, <2>4 DEF Calm
  <2>8. u.st[p] # "new" /\ (u.st[p] = "gone" \/ j \notin u.dep[p][AFTERSTART])
    BY <1>0, <1>4, <2>1, <2>4, <2>6, <2>7 DEF Unknown
  <2>9. u \in Rec
    BY <2>4 DEF Agree
  <2> HIDE DEF u, k
  <2>10. Agree(w, 0, 0, 0, z)
    BY <2>4, <2>5, <2>6, <2>8, TaskAgree
  <2>11. w.st = u.st
    BY <2>9 DEF Rec
  <2>12. ps \subseteq Jobs
    <3>1. s \in Rec
      BY DEF Fine
    <3> QED BY <1>0, <3>1 DEF Rec
  <2> QED BY <1>4, <2>2, <2>3, <2>6, <2>10, <2>11, <2>12
<1>5. F(s)
  BY <1>0 DEF Agree, Known
<1>6. depend_on_exec(s, j) = r[N]
  BY <1>2 DEF depend_on_exec
<1> DEFINE P == {p \in 0..N : F(r[p])}
<1> HIDE DEF send, F, ps, b
<1>7. r[0] = s /\ \A p \in 1..N : IF p \in ps THEN r[p] = send(r[p - 1], p) ELSE r[p] = r[p - 1]
  BY <1>0, <1>3
<1>8. 0 \in P
  BY <1>0, <1>5, <1>7
<1>9. ASSUME NEW p \in 1..N, p - 1 \in P  PROVE p \in P
  BY <1>4, <1>7, <1>9
<1> HIDE DEF P
<1>10. 0..N \subseteq P
  BY <1>0, <1>8, <1>9, Induction
<1>11. N \in P
  BY <1>0, <1>10
<1> QED BY <1>6, <1>11 DEF P, F

\* Delete touches the state of no other job.
LEMMA DeleteElse ==
  ASSUME NEW s \in Rec, NEW p, NEW t, NEW j \in Jobs, NEW q \in Jobs, q # j
  PROVE  Delete(s, p, t, j).st[q] = s.st[q]
<1> DEFINE w == [why |-> "Delete", type |-> Mirror(t), other |-> p]
           b == [s EXCEPT !.blame[j] = @ \cup {w}]
<1>1. s.st \in [Jobs -> States]
  BY DEF Rec
<1>2. b.st = s.st /\ \A v : [b EXCEPT !.st[j] = v].st = [s.st EXCEPT ![j] = v]
  BY DEF Rec
<1>3. \A v : [s EXCEPT !.st[j] = v, !.blame[j] = @ \cup {w}].st = [s.st EXCEPT ![j] = v]
  BY DEF Rec
<1>4. Finish(b, j).st \in {[s.st EXCEPT ![j] = "FINISHED"], [s.st EXCEPT ![j] = "gone"]}
  BY <1>2 DEF Finish, Rec
<1> HIDE DEF w, b
<1>5. job_abt(s, j, w).st \in {s.st, [s.st EXCEPT ![j] = "KILLED"], [s.st EXCEPT ![j] = "FINISHED"],
                               [s.st EXCEPT ![j] = "gone"]}
  BY <1>3, <1>4 DEF job_abt, b
<1>6. job_abt(s, j, w).st[q] = s.st[q]
  BY <1>1, <1>5
<1> QED BY <1>6 DEF Delete, w

\* The jobs of one list that wait for the end of j are released or deleted.
LEMMA ListEnded ==
  ASSUME NEW s, NEW j \in Jobs, NEW y, Fine(s, {}, y), Agree(s, 0, 0, 0, 0),
         NEW t \in 0..7, NEW ps, t \in Before \/ ps = {}, j \notin ps, s.st[j] # "gone",
         NEW caller \in {"ok", "bad"}
  PROVE  LET u == SendToList(s, j, t, ps, caller)
         IN  Agree(u, 0, 0, 0, 0) /\ Fine(u, {}, y) /\ u.st[j] # "gone"
<1> DEFINE send(v, p) == send_depend_req(v, j, t, p, caller)
           F(v) == Agree(v, 0, 0, 0, 0) /\ Fine(v, {}, y) /\ v.st[j] # "gone"
<1>0. N \in Nat /\ caller \in Callers /\ caller # "que"
  BY DependAssumption DEF Callers
<1>1. \E r : Row(r, s, j, t, ps, caller, N)
  BY <1>0, RowExists
<1>2. PICK r : Row(r, s, j, t, ps, caller, N) /\ SendToList(s, j, t, ps, caller) = r[N]
  BY <1>1 DEF Row, SendToList
<1>3. r = [p \in 0..N |-> IF p = 0 THEN s ELSE IF p \in ps THEN send(r[p - 1], p) ELSE r[p - 1]]
  BY <1>2, Zenon DEF Row
<1>4. ASSUME NEW p \in 1..N, p \in ps, NEW v, F(v)  PROVE F(send(v, p))
  <2>1. p \in Jobs /\ t \in Before
    BY <1>4 DEF Jobs
  <2>2. Fine(send(v, p), {}, y)
    BY <1>0, <1>4, <2>1, SendFine
  <2>3. send(v, p) \in {Delete(v, j, t, p), Release(v, j, t, p)}
    BY DEF send_depend_req
  <2>4. Agree(Delete(v, j, t, p), 0, 0, 0, 0)
    BY <1>4, <2>1, DeleteAgree
  <2>5. Agree(Release(v, j, t, p), 0, 0, 0, 0) /\ Calm(Release(v, j, t, p), v)
    BY <1>4, <2>1, ReleaseAgree
  <2>6. Release(v, j, t, p).st[j] # "gone"
    BY <1>4, <2>5 DEF Calm
  <2>7. Delete(v, j, t, p).st[j] # "gone"
    <3>1. v \in Rec /\ p # j
      BY <1>4 DEF Fine
    <3>2. Delete(v, j, t, p).st[j] = v.st[j]
      BY <2>1, <3>1, DeleteElse
    <3> QED BY <1>4, <3>2
  <2> HIDE DEF send
  <2> QED BY <2>2, <2>3, <2>4, <2>5, <2>6, <2>7
<1>5. F(s)
  OBVIOUS
<1> DEFINE P == {p \in 0..N : F(r[p])}
<1> HIDE DEF send, F
<1>7. r[0] = s /\ \A p \in 1..N : IF p \in ps THEN r[p] = send(r[p - 1], p) ELSE r[p] = r[p - 1]
  BY <1>0, <1>3
<1>8. 0 \in P
  BY <1>0, <1>5, <1>7
<1>9. ASSUME NEW p \in 1..N, p - 1 \in P  PROVE p \in P
  BY <1>4, <1>7, <1>9
<1> HIDE DEF P
<1>10. 0..N \subseteq P
  BY <1>0, <1>8, <1>9, Induction
<1>11. N \in P
  BY <1>0, <1>10
<1> QED BY <1>2, <1>11 DEF P, F

\* And those of all the lists.
LEMMA TermAgree ==
  ASSUME NEW s, NEW j \in Jobs, NEW y, Fine(s, {}, y), Agree(s, 0, 0, 0, 0), NEW ok,
         s.st[j] # "gone"
  PROVE  /\ Agree(depend_on_term(s, j, ok), 0, 0, 0, 0) /\ Fine(depend_on_term(s, j, ok), {}, y)
         /\ depend_on_term(s, j, ok).st[j] # "gone"
<1> DEFINE lists == [t \in 0..7 |-> IF t \in {BEFOREOK, BEFORENOTOK, BEFOREANY} THEN s.dep[j][t] ELSE {}]
           caller == IF ok THEN "ok" ELSE "bad"
           send(v, t) == SendToList(v, j, t - 1, lists[t - 1], caller)
           F(v) == Agree(v, 0, 0, 0, 0) /\ Fine(v, {}, y) /\ v.st[j] # "gone"
<1>0. /\ caller \in {"ok", "bad"}
      /\ \A t \in 0..7 : (t \in Before \/ lists[t] = {}) /\ j \notin lists[t]
      /\ depend_on_term(s, j, ok) = SendToAll(s, j, lists, caller)
  <2>1. \A t \in 0..7 : j \notin s.dep[j][t]
    BY DEF Agree, Known
  <2> QED BY <2>1 DEF depend_on_term, Before, BEFOREOK, BEFORENOTOK, BEFOREANY
<1> HIDE DEF lists, caller
<1>1. \E r : Rows(r, s, j, lists, caller, 8)
  BY RowsExists
<1>2. PICK r : Rows(r, s, j, lists, caller, 8) /\ SendToAll(s, j, lists, caller) = r[8]
  BY <1>1 DEF Rows, SendToAll
<1>3. r = [t \in 0..8 |-> IF t = 0 THEN s ELSE send(r[t - 1], t)]
  BY <1>2, Zenon DEF Rows
<1>4. ASSUME NEW t \in 1..8, NEW v, F(v)  PROVE F(send(v, t))
  <2> DEFINE i == t - 1
  <2>1. i \in 0..7 /\ (i \in Before \/ lists[i] = {}) /\ j \notin lists[i]
    BY <1>0
  <2> HIDE DEF i
  <2>2. F(SendToList(v, j, i, lists[i], caller))
    BY <1>0, <1>4, <2>1, ListEnded
  <2> QED BY <2>2 DEF i
<1>5. F(s)
  OBVIOUS
<1> DEFINE P == {t \in 0..8 : F(r[t])}
<1> HIDE DEF send, F
<1>6. r[0] = s /\ \A t \in 1..8 : r[t] = send(r[t - 1], t)
  BY <1>3
<1>7. 0 \in P
  BY <1>5, <1>6
<1>8. ASSUME NEW t \in 1..8, t - 1 \in P  PROVE t \in P
  BY <1>4, <1>6, <1>8
<1> HIDE DEF P
<1>9. 0..8 \subseteq P
  BY <1>7, <1>8, Induction
<1>10. 8 \in P
  BY <1>9
<1> QED BY <1>0, <1>2, <1>10 DEF P, F

-----------------------------------------------------------------------------
(* The actions.                                                             *)

Agreed == Agree(S, 0, 0, 0, 0)

\* nobody names "on" without a count
Counted == Inv /\ ~NoCount

\* Then every job is held as it should be.
LEMMA CountedFine == Counted => Fine(S, {}, 0)
<1>1. Counted => Bare = {}
  BY DEF Counted, Inv
<1> QED BY <1>1 DEF Counted, Inv

\* and one that has been started waits for nothing.
LEMMA CountedStarted ==
  ASSUME Counted, NEW j \in Jobs, S.st[j] \in OnMom \cup Ending \cup {"QUEUED"}
  PROVE  ~Pending(S, j) /\ Fine(S, {}, j)
<1>1. Fine(S, {}, 0)
  BY CountedFine
<1> QED BY <1>1 DEF Fine, Held, OnMom, Ending, Over

\* It goes on without waiting.
LEMMA GoOn ==
  ASSUME NEW s, NEW j \in Jobs, Fine(s, {}, j), NEW state \in States, state # "HELD"
  PROVE  Fine([s EXCEPT !.st[j] = state], {}, j)
<1>1. ~Pending(s, j)
  BY DEF Fine
<1> QED BY <1>1, AtFine

\* What the operations give is what the variables become.
LEMMA BecomesAgree ==
  ASSUME NEW u, Agree(u, 0, 0, 0, 0), Becomes(u)
  PROVE  Agreed'
<1>1. u = [st |-> u.st, dep |-> u.dep, on |-> u.on, tasks |-> u.tasks, blame |-> u.blame]
  BY DEF Agree, Rec
<1>2. S' = u
  BY <1>1 DEF Becomes, S
<1> QED BY <1>2 DEF Agreed

\* It says that the ends match.
LEMMA AgreedMatched == Agreed => Matched
<1> SUFFICES ASSUME Agreed, NEW j \in Jobs, NEW t \in After, st[j] = "HELD", NEW p \in dep[j][t]
             PROVE  \/ j \in dep[p][Mirror(t)]
                    \/ \E i \in 1..Len(tasks) : tasks[i].fn = "post_doq" /\ tasks[i].job = j
  BY DEF Matched
<1>1. S.st = st /\ S.dep = dep /\ S.tasks = tasks
  BY DEF S
<1>2. j # 0
  BY DEF Jobs
<1>3. Told(S, j, t, p)
  BY <1>1, <1>2 DEF Agreed, Agree, Both
<1> QED BY <1>1, <1>3 DEF Told, Refused, Ts, Elems

\* It holds at the start.
LEMMA AgreedInit == Init => Agreed
<1> SUFFICES ASSUME Init  PROVE Agreed
  OBVIOUS
<1>1. S \in Rec
  BY InvInit DEF Inv, Fine
<1>2. /\ S.st = [j \in Jobs |-> "new"] /\ S.dep = [j \in Jobs |-> None] /\ S.tasks = <<>>
  BY DEF S, Init
<1>3. Ts(S) = {}
  BY <1>2 DEF Ts, Elems
<1>4. Known(S)
  BY <1>2 DEF Known, None
<1>5. Both(S, 0, 0, 0)
  BY <1>2 DEF Both
<1>6. Released(S) /\ Late(S, 0)
  BY <1>3 DEF Released, Late
<1> QED BY <1>1, <1>3, <1>4, <1>5, <1>6 DEF Agreed, Agree

\* The head of the tasks is taken off and done.
LEMMA TaskEnds == Counted /\ Agreed /\ next_task => Agreed'
<1> SUFFICES ASSUME Counted, Agreed, next_task  PROVE Agreed'
  OBVIOUS
<1> DEFINE k == Head(tasks)
           s == [S EXCEPT !.tasks = Tail(@)]
           u == CASE k.fn = "post_doq"        -> post_doq(s, k)
                  [] k.fn = "post_doe"        -> post_doe(s, k)
                  [] k.fn = "post_run_depend" -> post_run_depend(s, k)
                  [] k.fn = "on_job_exit"     -> on_job_exit_first(s, k)
<1>1. Fine(S, {}, 0) /\ S \in Rec /\ S.tasks = tasks /\ tasks \in Seq(Tasks) /\ tasks # <<>>
  BY CountedFine DEF Fine, Rec, S, next_task
<1>2. k \in Tasks /\ Tail(tasks) \in Seq(Tasks) /\ Elems(tasks) = Elems(Tail(tasks)) \cup {k}
  BY <1>1, ElemsTail
<1>3. s \in Rec /\ s.st = S.st /\ s.dep = S.dep /\ s.on = S.on /\ s.tasks = Tail(tasks)
  BY <1>1, <1>2 DEF Rec
<1>4. Becomes(u)
  BY Zenon DEF next_task
<1> HIDE DEF k, s
<1>5. Ts(S) = Ts(s) \cup {k}
  BY <1>1, <1>2, <1>3 DEF Ts
<1>6. Fine(s, {}, 0)
  BY <1>1, <1>3, OtherFine
<1>7. k.job \in Jobs /\ k.fn \in {"post_doq", "post_doe", "post_run_depend", "on_job_exit"}
  BY <1>2 DEF Tasks
<1>8. ASSUME k.fn # "post_doq"  PROVE Agree(s, 0, 0, 0, 0)
  BY <1>3, <1>5, <1>8, SameAgree DEF Agreed
<1>9. CASE k.fn = "post_doq"
  <2> DEFINE w == [why |-> "Register", type |-> k.type, other |-> k.other]
  <2>1. w \in Reasons
    BY <1>2, <1>9 DEF Tasks, Reasons
  <2>2. u = post_doq(s, k)
    BY <1>9
  <2> HIDE DEF u
  <2>3. Both(s, k.job, 0, 0)
    <3>1. \A t \in After, p \in Jobs : Due(t, p, 0, 0) /\ t \in 0..7
      BY DEF Due, After, Jobs
    <3>2. \A q \in Jobs, t \in 0..7 : s.dep[q][t] \subseteq Jobs
      BY <1>3 DEF Rec
    <3>3. \A q : q # k.job => (Refused(S, q) => Refused(s, q))
      BY <1>5 DEF Refused
    <3>4. 0 \notin Jobs
      BY DEF Jobs
    <3> QED BY <1>3, <3>1, <3>2, <3>3, <3>4 DEF Agreed, Agree, Both, Told
  <2>4. Agree(s, k.job, 0, 0, 0)
    BY <1>3, <1>5, <2>3 DEF Agreed, Agree, Known, Released, Late
  <2> HIDE DEF w
  <2>5. CASE s.st[k.job] \in Unknown
    <3>1. u = s
      BY <2>2, <2>5 DEF post_doq
    <3>2. s.st[k.job] # "HELD"
      BY <2>5 DEF Unknown
    <3>3. Agree(s, 0, 0, 0, 0)
      BY <1>7, <2>4, <3>2, DoneAgree
    <3> QED BY <1>4, <3>1, <3>3, BecomesAgree
  <2>6. CASE s.st[k.job] \notin Unknown
    <3> DEFINE v == job_abt(s, k.job, w)
    <3>1. u = v
      BY <2>2, <2>6 DEF post_doq, w
    <3>2. Agree(v, k.job, 0, 0, 0) /\ v.st[k.job] # "HELD"
      BY <1>7, <2>1, <2>4, <2>6, AbtAgree
    <3> HIDE DEF v
    <3>3. Agree(v, 0, 0, 0, 0)
      BY <1>7, <3>2, DoneAgree
    <3> QED BY <1>4, <3>1, <3>3, BecomesAgree
  <2> QED BY <2>5, <2>6
<1>10. CASE k.fn = "post_doe"
  <2> DEFINE b == BEFORESTART
             ps == s.dep[k.job][b] \ {k.other}
             v == [s EXCEPT !.dep[k.job][b] = ps]
  <2>1. b \in 0..7 /\ k.other \in Jobs
    BY <1>2, <1>10 DEF BEFORESTART, Tasks
  <2>2. ps \in SUBSET Jobs
    BY <1>3, <1>7, <2>1 DEF Rec
  <2>3. u = post_doe(s, k)
    BY <1>10
  <2> HIDE DEF u
  <2>4. u = s \/ u = v
    BY <2>3 DEF post_doe, Drop
  <2>5. s.st[k.other] = "gone" \/ k.job \notin s.dep[k.other][AFTERSTART]
    BY <1>3, <1>5, <1>10 DEF Agreed, Agree, Released
  <2>6. Replaced(v, s, k.job, b, ps)
    <3> HIDE DEF ps, b
    <3> QED BY <1>3, <1>7, <2>1, <2>2, ReplacedIs
  <2> HIDE DEF v
  <2>7. Agree(v, 0, 0, 0, 0)
    BY <1>7, <1>8, <1>10, <2>1, <2>5, <2>6, LoseAgree
  <2> QED BY <1>4, <1>8, <1>10, <2>4, <2>7, BecomesAgree
<1>11. CASE k.fn = "post_run_depend"
  <2>1. u = depend_on_exec(s, k.job)
    BY <1>11 DEF post_run_depend
  <2> HIDE DEF u
  <2>2. s.st[k.job] \notin Early
    <3>1. k.job # 0
      BY <1>7 DEF Jobs
    <3> QED BY <1>3, <1>5, <1>11, <3>1 DEF Agreed, Agree, Late
  <2>3. s.st[k.job] # "HELD"
    BY <2>2 DEF Early
  <2>4. Agree(depend_on_exec(s, k.job), 0, 0, 0, 0)
    BY <1>6, <1>7, <1>8, <1>11, <2>2, <2>3, ExecAgree
  <2> QED BY <1>4, <2>1, <2>4, BecomesAgree
<1>12. CASE k.fn = "on_job_exit"
  <2> DEFINE v == [s EXCEPT !.st[k.job] = "STAGEOUT"]
  <2>1. u = on_job_exit_first(s, k)
    BY <1>12
  <2> HIDE DEF u
  <2>2. u = s \/ (u = v /\ s.st[k.job] = "EXITING")
    BY <2>1 DEF on_job_exit_first
  <2>3. s.st[k.job] = "EXITING" => Agree(v, 0, 0, 0, 0)
    BY <1>7, <1>8, <1>12, AtAgree DEF States, Ending, Early
  <2> HIDE DEF v
  <2> QED BY <1>4, <1>8, <1>12, <2>2, <2>3, BecomesAgree
<1> QED BY <1>7, <1>9, <1>10, <1>11, <1>12

\* A job is submitted.
LEMMA EnqueEnds == ASSUME NEW j \in Jobs  PROVE Counted /\ Agreed /\ svr_enquejob(j) => Agreed'
<1> SUFFICES ASSUME Counted, Agreed, svr_enquejob(j)  PROVE Agreed'
  OBVIOUS
<1>1. PICK d \in Pairs(j, Submitted), n \in OnCounts :
         Becomes(depend_on_que([S EXCEPT !.st[j] = "QUEUED", !.dep[j] = Lists(d), !.on[j] = n], j))
  BY Zenon DEF svr_enquejob
<1> DEFINE l == Lists(d)
           u == [S EXCEPT !.st[j] = "QUEUED", !.dep[j] = l, !.on[j] = n]
<1>2. l \in [0..7 -> SUBSET Jobs] /\ \A t \in 0..7 : \A p \in l[t] : p # j /\ st[p] # "new"
  <2>1. \A e \in d : e[2] # j /\ e[2] \in Submitted
    BY DEF Pairs
  <2>2. \A t \in 0..7 : l[t] = {e[2] : e \in {x \in d : x[1] = t}}
    BY DEF Lists
  <2>3. \A t \in 0..7 : \A p \in l[t] : p # j /\ st[p] # "new"
    BY <2>1, <2>2 DEF Submitted
  <2>4. l \in [0..7 -> SUBSET Jobs]
    BY ListsType DEF Submitted
  <2> QED BY <2>3, <2>4
<1>3. Becomes(depend_on_que(u, j))
  BY <1>1
<1> HIDE DEF l
<1>4. S \in Rec /\ S.st = st /\ S.dep = dep /\ S.tasks = tasks /\ st[j] = "new"
  BY DEF Agreed, Agree, S, svr_enquejob
<1>5. /\ u.st = [st EXCEPT ![j] = "QUEUED"] /\ u.dep = [dep EXCEPT ![j] = l] /\ u.tasks = tasks
      /\ u.on = [on EXCEPT ![j] = n]
  BY <1>4 DEF S
<1>6. u \in Rec
  <2>1. "QUEUED" \in States /\ n \in Count
    BY OnCountsType DEF States, Waiting
  <2> QED BY <1>2, <1>4, <2>1 DEF Rec
<1> HIDE DEF u
<1>7. /\ u.st[j] = "QUEUED" /\ u.dep[j] = l
      /\ \A q \in Jobs : q # j => u.st[q] = st[q] /\ u.dep[q] = dep[q]
      /\ \A q \in Jobs, t \in 0..7 : dep[q][t] \subseteq Jobs
  <2>1. st \in [Jobs -> States] /\ dep \in [Jobs -> [0..7 -> SUBSET Jobs]]
    BY <1>4 DEF Rec
  <2> QED BY <1>5, <2>1
<1>8. Ts(u) = Ts(S) /\ \A q : Refused(u, q) <=> Refused(S, q)
  BY <1>4, <1>5 DEF Ts, Refused
<1>9. \A q \in Jobs, t \in 0..7 : \A p \in dep[q][t] : p # q /\ p # j /\ st[p] # "new"
  BY <1>4 DEF Agreed, Agree, Known
<1>10. Known(u)
  BY <1>2, <1>7, <1>9 DEF Known
<1>11. Both(u, j, 0, 0)
  <2>1. \A t \in After : t \in 0..7 /\ Mirror(t) \in 0..7
    BY MirrorType DEF After
  <2>2. \A q \in Jobs, t \in After : st[q] = "HELD" => \A p \in dep[q][t] : Told(S, q, t, p)
    BY <1>4 DEF Agreed, Agree, Both, Jobs
  <2>3. ASSUME NEW q \in Jobs, NEW t \in After, u.st[q] = "HELD", NEW p \in u.dep[q][t]
        PROVE  Told(u, q, t, p)
    <3>1. q # j /\ p \in dep[q][t] /\ p \in Jobs /\ p # j
      BY <1>7, <1>9, <2>1, <2>3
    <3>2. Told(S, q, t, p)
      BY <1>7, <2>2, <2>3, <3>1
    <3> QED BY <1>4, <1>7, <1>8, <3>1, <3>2 DEF Told
  <2> QED BY <2>3 DEF Both
<1>12. Ts(S) \subseteq Tasks
  BY DEF Agreed, Agree
<1>13. \A k \in Ts(S) : k.job \in Jobs /\ k.job # 0 /\ (k.fn = "post_doe" => k.other \in Jobs)
  BY <1>12 DEF Tasks, Jobs
<1>14. \A k \in Ts(S) : k.fn \in {"post_doe", "post_run_depend"} => k.job # j
  BY <1>4, <1>13 DEF Agreed, Agree, Late, Early
<1>15. \A k \in Ts(S) : k.fn = "post_doe" => k.other # j
  BY <1>4 DEF Agreed, Agree, Released
<1>16. Late(u, 0)
  BY <1>4, <1>7, <1>8, <1>13, <1>14 DEF Agreed, Agree, Late
<1>17. Released(u)
  BY <1>4, <1>7, <1>8, <1>13, <1>15 DEF Agreed, Agree, Released
<1>18. Agree(u, j, 0, 0, 0)
  BY <1>6, <1>8, <1>10, <1>11, <1>12, <1>16, <1>17 DEF Agree
<1>19. Agree(depend_on_que(u, j), 0, 0, 0, 0)
  BY <1>7, <1>18, QueAgree DEF Waiting
<1> QED BY <1>3, <1>19, BecomesAgree

\* A job is moved: its entries are registered again.
LEMMA MoveEnds == ASSUME NEW j \in Jobs  PROVE Counted /\ Agreed /\ local_move(j) => Agreed'
<1> SUFFICES ASSUME Counted, Agreed, local_move(j)  PROVE Agreed'
  OBVIOUS
<1>1. Becomes(depend_on_que(S, j)) /\ S.st[j] \in Waiting
  BY DEF local_move, S
<1>2. Agree(S, j, 0, 0, 0)
  <2>1. 0 \notin Jobs
    BY DEF Jobs
  <2>2. Both(S, j, 0, 0)
    BY <2>1 DEF Agreed, Agree, Both
  <2> QED BY <2>2 DEF Agreed, Agree
<1>3. Agree(depend_on_que(S, j), 0, 0, 0, 0)
  BY <1>1, <1>2, QueAgree
<1> QED BY <1>1, <1>3, BecomesAgree

\* A job is deleted, or its run is over.
LEMMA OverEnds ==
  ASSUME NEW j \in Jobs
  PROVE  Agreed /\ (req_deletejob(j) \/ req_deletejob_force(j) \/ job_purge(j)) => Agreed'
<1> SUFFICES ASSUME Agreed, req_deletejob(j) \/ req_deletejob_force(j) \/ job_purge(j)  PROVE Agreed'
  OBVIOUS
<1>1. Becomes(Finish(S, j)) /\ S.st[j] # "gone"
  BY DEF req_deletejob, req_deletejob_force, job_purge, S, Waiting, OnMom, Ending
<1>2. Agree(Finish(S, j), 0, 0, 0, 0)
  BY <1>1, FinishAgree DEF Agreed
<1> QED BY <1>1, <1>2, BecomesAgree

\* The history forgets the job.
LEMMA CleanEnds == ASSUME NEW j \in Jobs  PROVE Agreed /\ svr_clean_job_history(j) => Agreed'
<1> SUFFICES ASSUME Agreed, svr_clean_job_history(j)  PROVE Agreed'
  OBVIOUS
<1>1. Becomes(job_free(S, j))
  BY DEF svr_clean_job_history
<1>2. Agree(job_free(S, j), 0, 0, 0, 0)
  BY FreeAgree DEF Agreed
<1> QED BY <1>1, <1>2, BecomesAgree

\* No task tells of the start of a job that is not started.
LEMMA Untold ==
  ASSUME NEW s, Agree(s, 0, 0, 0, 0), NEW j \in Jobs, s.st[j] \in Early
  PROVE  \A k \in Ts(s) : k.fn \in {"post_doe", "post_run_depend"} => k.job # j
<1>1. j # 0
  BY DEF Jobs
<1> QED BY <1>1 DEF Agree, Late

\* A queued job is started.
LEMMA StartEnds == ASSUME NEW j \in Jobs  PROVE Agreed /\ svr_startjob(j) => Agreed'
<1> SUFFICES ASSUME Agreed, svr_startjob(j)  PROVE Agreed'
  OBVIOUS
<1> DEFINE u == [S EXCEPT !.st[j] = "PRERUN"]
<1>1. Becomes(u) /\ S.st[j] = "QUEUED"
  BY DEF svr_startjob, Becomes, S
<1>2. \A k \in Ts(S) : k.fn \in {"post_doe", "post_run_depend"} => k.job # j
  BY <1>1, Untold DEF Agreed, Early
<1>3. "PRERUN" \in States
  BY DEF States, OnMom
<1>4. Agree(u, 0, 0, 0, 0)
  BY <1>1, <1>2, <1>3, AtAgree DEF Agreed
<1> HIDE DEF u
<1> QED BY <1>1, <1>4, BecomesAgree

\* A job is queued again.
LEMMA RequeEnds == ASSUME NEW j \in Jobs  PROVE Agreed /\ force_reque(j) => Agreed'
<1> SUFFICES ASSUME Agreed, force_reque(j)  PROVE Agreed'
  OBVIOUS
<1> DEFINE u == [S EXCEPT !.st[j] = "QUEUED"]
<1>1. Becomes(u) /\ S.st[j] # "gone" /\ (S.tasks = <<>> \/ S.st[j] = "PRERUN")
  BY DEF force_reque, At, S, OnNode, OnMom, Ending
<1>2. \A k \in Ts(S) : k.fn \in {"post_doe", "post_run_depend"} => k.job # j
  <2>1. CASE S.tasks = <<>>
    BY <2>1 DEF Ts, Elems
  <2>2. CASE S.st[j] = "PRERUN"
    BY <2>2, Untold DEF Agreed, Early
  <2> QED BY <1>1, <2>1, <2>2
<1>3. "QUEUED" \in States
  BY DEF States, Waiting
<1>4. Agree(u, 0, 0, 0, 0)
  BY <1>1, <1>2, <1>3, AtAgree DEF Agreed
<1> HIDE DEF u
<1> QED BY <1>1, <1>4, BecomesAgree

\* The first that the server hears of a start releases those that wait for it.
LEMMA CompleteAgree ==
  ASSUME NEW s, NEW j \in Jobs, Fine(s, {}, j), Agree(s, 0, 0, 0, 0), s.st[j] \in OnMom,
         NEW state \in States, state \notin Early
  PROVE  Agree(At(complete_running(s, j), j, state), 0, 0, 0, 0)
<1> DEFINE c == complete_running(s, j)
           u == [c EXCEPT !.st[j] = state]
<1>1. s.st[j] # "HELD" /\ s.st[j] # "gone" /\ Agree(s, 0, 0, 0, j)
  BY StartingAgree DEF OnMom
<1>2. Agree(c, 0, 0, 0, j) /\ c.st[j] = s.st[j]
  BY <1>1, ExecAgree DEF complete_running
<1> HIDE DEF c
<1>3. state # "HELD" /\ state # "new"
  BY DEF Early
<1>4. Agree(u, 0, 0, 0, j)
  BY <1>1, <1>2, <1>3, AtAgree
<1>5. u.st[j] = state
  <2>1. c \in Rec
    BY <1>2 DEF Agree
  <2> QED BY <2>1 DEF Rec
<1>6. u = At(complete_running(s, j), j, state)
  BY DEF At, c
<1> HIDE DEF u
<1>7. Agree(u, 0, 0, 0, 0)
  BY <1>4, <1>5, StartedAgree
<1> QED BY <1>6, <1>7

\* The MoM has taken the job.
LEMMA SentEnds == ASSUME NEW j \in Jobs  PROVE Counted /\ Agreed /\ post_sendmom(j) => Agreed'
<1> SUFFICES ASSUME Counted, Agreed, post_sendmom(j)  PROVE Agreed'
  OBVIOUS
<1>1. S.st[j] \in OnMom /\ Becomes(At(complete_running(S, j), j, "SENT"))
  BY DEF post_sendmom, S, OnMom
<1>2. Fine(S, {}, j)
  BY <1>1, CountedStarted
<1>3. "SENT" \in States /\ "SENT" \notin Early
  BY DEF States, OnMom, Early
<1>4. Agree(At(complete_running(S, j), j, "SENT"), 0, 0, 0, 0)
  BY <1>1, <1>2, <1>3, CompleteAgree DEF Agreed
<1> QED BY <1>1, <1>4, BecomesAgree

\* The MoM reports the session.
LEMMA StatEnds == ASSUME NEW j \in Jobs  PROVE Counted /\ Agreed /\ stat_update(j) => Agreed'
<1> SUFFICES ASSUME Counted, Agreed, stat_update(j)  PROVE Agreed'
  OBVIOUS
<1> DEFINE c == complete_running(S, j)
           u == At(c, j, "RUNNING")
<1>1. S.st[j] \in OnMom /\ Becomes(depend_on_exec(u, j))
  BY DEF stat_update, S, OnMom
<1>2. Fine(S, {}, j)
  BY <1>1, CountedStarted
<1>3. "RUNNING" \in States /\ "RUNNING" \notin Early /\ "RUNNING" # "HELD"
  BY DEF States, OnMom, Early
<1>4. Agree(u, 0, 0, 0, 0)
  BY <1>1, <1>2, <1>3, CompleteAgree DEF Agreed
<1>5. Fine(c, {}, j)
  BY <1>2, CompleteFine
<1> HIDE DEF c
<1>6. Fine(u, {}, j)
  BY <1>3, <1>5, GoOn DEF At
<1>7. u.st[j] = "RUNNING"
  <2>1. c \in Rec
    BY <1>5 DEF Fine
  <2> QED BY <2>1 DEF At, Rec
<1> HIDE DEF u
<1>8. Agree(depend_on_exec(u, j), 0, 0, 0, 0)
  BY <1>3, <1>4, <1>6, <1>7, ExecAgree
<1> QED BY <1>1, <1>8, BecomesAgree

\* The obituary is in.
LEMMA ObitEnds == ASSUME NEW j \in Jobs  PROVE Counted /\ Agreed /\ job_obit(j) => Agreed'
<1> SUFFICES ASSUME Counted, Agreed, job_obit(j)  PROVE Agreed'
  OBVIOUS
<1> DEFINE u == At(complete_running(S, j), j, "EXITING")
           k == [fn |-> "on_job_exit", job |-> j]
<1>1. S.st[j] \in OnMom /\ Becomes([u EXCEPT !.tasks = Append(@, k)])
  BY DEF job_obit, S, Task
<1>2. Fine(S, {}, j)
  BY <1>1, CountedStarted
<1>3. "EXITING" \in States /\ "EXITING" \notin Early
  BY DEF States, Ending, Early
<1>4. Agree(u, 0, 0, 0, 0)
  BY <1>1, <1>2, <1>3, CompleteAgree DEF Agreed
<1>5. k \in Tasks /\ k.fn = "on_job_exit"
  BY DEF Tasks
<1> HIDE DEF u, k
<1>6. Agree([u EXCEPT !.tasks = Append(@, k)], 0, 0, 0, 0)
  BY <1>4, <1>5, TaskAgree
<1> QED BY <1>1, <1>6, BecomesAgree

\* The job has ended: those that wait for it are told.
LEMMA ExitEnds == ASSUME NEW j \in Jobs  PROVE Counted /\ Agreed /\ on_job_exit(j) => Agreed'
<1> SUFFICES ASSUME Counted, Agreed, on_job_exit(j)  PROVE Agreed'
  OBVIOUS
<1> DEFINE u == At(S, j, "EXITED")
           ok == exit[j] = "ok"
<1>1. Becomes(depend_on_term(u, j, ok)) /\ S.st[j] \in Ending
  BY DEF on_job_exit, S, Ending
<1>2. Fine(S, {}, j)
  BY <1>1, CountedStarted
<1>3. "EXITED" \in States /\ "EXITED" \notin Early /\ "EXITED" # "HELD" /\ "EXITED" # "new"
  BY DEF States, Ending, Early
<1>4. Fine(u, {}, j)
  BY <1>2, <1>3, GoOn DEF At
<1>5. Agree(u, 0, 0, 0, 0)
  <2>1. S.st[j] # "gone"
    BY <1>1 DEF Ending
  <2> QED BY <1>3, <2>1, AtAgree DEF At, Agreed
<1>6. u.st[j] # "gone"
  <2>1. S \in Rec
    BY <1>2 DEF Fine
  <2> QED BY <2>1 DEF At, Rec
<1> HIDE DEF u, ok
<1>7. Agree(depend_on_term(u, j, ok), 0, 0, 0, 0)
  BY <1>4, <1>5, <1>6, TermAgree
<1> QED BY <1>1, <1>7, BecomesAgree

\* The node of the job stays down.
LEMMA DownEnds == ASSUME NEW j \in Jobs  PROVE Counted /\ Agreed /\ node_down_requeue(j) => Agreed'
<1> SUFFICES ASSUME Counted, Agreed, node_down_requeue(j)  PROVE Agreed'
  OBVIOUS
<1> DEFINE u == depend_on_term(S, j, FALSE)
<1>1. Fine(S, {}, 0) /\ Becomes(Finish(u, j)) /\ S.st[j] # "gone"
  BY CountedFine DEF node_down_requeue, S, OnNode, OnMom, Ending
<1>2. Agree(u, 0, 0, 0, 0) /\ u.st[j] # "gone"
  BY <1>1, TermAgree DEF Agreed
<1> HIDE DEF u
<1>3. Agree(Finish(u, j), 0, 0, 0, 0)
  BY <1>2, FinishAgree
<1> QED BY <1>1, <1>3, BecomesAgree

\* No step but an alteration makes the ends disagree.
LEMMA AgreedNext == Counted /\ Agreed /\ [Next]_vars => Agreed' \/ alters' # {}
<1> SUFFICES ASSUME Counted, Agreed, [Next]_vars  PROVE Agreed' \/ alters' # {}
  OBVIOUS
<1>1. CASE next_task
  BY <1>1, TaskEnds
<1>2. ASSUME NEW j \in Jobs, modify_job_attr(j)  PROVE alters' # {}
  BY <1>2 DEF modify_job_attr
<1>3. ASSUME NEW j \in Jobs,
             \/ svr_enquejob(j) \/ local_move(j) \/ req_deletejob(j)
             \/ req_deletejob_force(j) \/ svr_startjob(j) \/ post_sendmom(j) \/ stat_update(j) \/ job_obit(j) \/ force_reque(j)
             \/ on_job_exit(j) \/ node_down_requeue(j) \/ job_purge(j) \/ svr_clean_job_history(j)
      PROVE  Agreed'
  BY <1>3, EnqueEnds, MoveEnds, OverEnds, StartEnds, SentEnds, StatEnds, ObitEnds, RequeEnds,
     ExitEnds, DownEnds, CleanEnds
<1>4. CASE UNCHANGED vars
  <2>1. S' = S
    BY <1>4 DEF vars, S
  <2> QED BY <2>1 DEF Agreed
<1> QED BY <1>1, <1>2, <1>3, <1>4 DEF Next

\* Nothing that has been altered becomes unaltered.
LEMMA AltersGrow == [Next]_vars => alters \subseteq alters'
<1> SUFFICES ASSUME [Next]_vars  PROVE alters \subseteq alters'
  OBVIOUS
<1>1. CASE Next
  <2>1. ASSUME NEW j \in Jobs, modify_job_attr(j)  PROVE alters \subseteq alters'
    BY <2>1 DEF modify_job_attr
  <2>2. ASSUME NEW j \in Jobs, svr_enquejob(j)  PROVE alters' = alters
    BY <2>2 DEF svr_enquejob, bounds
  <2>3. CASE next_task
    BY <2>3 DEF next_task, bounds
  <2>4. ASSUME NEW j \in Jobs,
               \/ local_move(j) \/ req_deletejob(j) \/ req_deletejob_force(j) \/ svr_startjob(j)
               \/ post_sendmom(j) \/ stat_update(j) \/ job_obit(j) \/ force_reque(j)
               \/ on_job_exit(j) \/ node_down_requeue(j) \/ job_purge(j) \/ svr_clean_job_history(j)
        PROVE  alters' = alters
    BY <2>4 DEF local_move, req_deletejob, req_deletejob_force, svr_startjob, post_sendmom,
       stat_update, job_obit, force_reque, on_job_exit, node_down_requeue, job_purge,
       svr_clean_job_history, bounds
  <2> QED BY <1>1, <2>1, <2>2, <2>3, <2>4 DEF Next
<1>2. CASE UNCHANGED vars
  BY <1>2 DEF vars
<1> QED BY <1>1, <1>2

-----------------------------------------------------------------------------
\* The two ends of every dependency agree, or the job that waits is about to be
\* aborted, as long as no dependencies have been altered and no "on" is named without a
\* count: for any number of jobs, dependencies, moves, requeues, node failures and forced
\* deletions (register_dep, post_doe, post_doq).
THEOREM EndsAgree == Spec => [](~NoCount /\ alters = {} => Matched)
<1> DEFINE I == Inv /\ (~NoCount /\ alters = {} => Agreed)
<1>1. Init => I
  BY InvInit, AgreedInit
<1>2. I /\ [Next]_vars => I'
  <2> SUFFICES ASSUME I, [Next]_vars  PROVE I'
    OBVIOUS
  <2>1. Inv'
    BY InvNext
  <2>2. ~NoCount /\ alters' = {} => Agreed'
    BY AgreedNext, AltersGrow DEF Counted
  <2> QED BY <2>1, <2>2
<1>3. I => (~NoCount /\ alters = {} => Matched)
  BY AgreedMatched
<1> HIDE DEF I
<1> QED BY <1>1, <1>2, <1>3, PTL DEF Spec

=============================================================================
