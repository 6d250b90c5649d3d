--------------------------- MODULE JobTable_proof ---------------------------
(***************************************************************************)
(* Proofs about JobTable: for every set of jobs and of queues, the counters *)
(* of the server and of the queues agree with the lists, the links between  *)
(* jobs and queues are right, and history jobs stay as they are, as long as *)
(* no execjob hook asks for the deletion of a job (~HookDelete).            *)
(*                                                                          *)
(* Good is the inductive invariant.  It speaks of a table, not of t, since  *)
(* the handlers build intermediate tables: each routine has a lemma saying  *)
(* which part of Good it needs and keeps, and each group of handlers one    *)
(* saying that it leads from a good table to a good table.                  *)
(***************************************************************************)
EXTENDS JobTable, FiniteSetTheorems, TLAPS

-----------------------------------------------------------------------------
(* Counters and lists.                                                      *)

\* every counter is the size of the list it counts
Counted(tab) ==
  /\ tab.svnum = Cardinality(tab.all)
  /\ \A s \in JobStates : tab.sv[s] = Cardinality(InState(tab, s))
  /\ \A q \in Queues : tab.qnum[q] = Cardinality(InQueue(tab, q))
  /\ \A q \in Queues, s \in JobStates :
        tab.qst[q][s] = Cardinality(InQueueState(tab, q, s))

\* a job in a queue is in svr_alljobs and the queue exists
Linked(tab) ==
  \A j \in Jobs : tab.qhdr[j] # NoQueue => tab.qhdr[j] \in tab.ques /\ j \in tab.all

Core(tab) == tab \in TableType /\ Counted(tab) /\ Linked(tab)

\* what a condition adds to a count
One(b) == IF b THEN 1 ELSE 0

\* tab and r differ in job j alone
SameBut(tab, r, j) ==
  /\ tab.all \ {j} = r.all \ {j}
  /\ \A k \in Jobs \ {j} : /\ tab.st[k] = r.st[k] /\ tab.ss[k] = r.ss[k]
                           /\ tab.qhdr[k] = r.qhdr[k] /\ tab.qname[k] = r.qname[k]

\* the counters of r follow from those of tab by what became of j
Recount(tab, r, j) ==
  /\ r.svnum = tab.svnum + One(j \in r.all) - One(j \in tab.all)
  /\ \A s \in JobStates :
        r.sv[s] = tab.sv[s] + One(j \in r.all /\ r.st[j] = s)
                            - One(j \in tab.all /\ tab.st[j] = s)
  /\ \A q \in Queues :
        r.qnum[q] = tab.qnum[q] + One(r.qhdr[j] = q) - One(tab.qhdr[j] = q)
  /\ \A q \in Queues, s \in JobStates :
        r.qst[q][s] = tab.qst[q][s] + One(r.qhdr[j] = q /\ r.st[j] = s)
                                    - One(tab.qhdr[j] = q /\ tab.st[j] = s)

\* Sets that differ in one element at most differ in size by what it adds.
LEMMA OneElement ==
  ASSUME NEW A \in SUBSET Jobs, NEW B \in SUBSET Jobs, NEW j, A \ {j} = B \ {j}
  PROVE  Cardinality(B) = Cardinality(A) + One(j \in B) - One(j \in A)
<1>1. IsFiniteSet(A) /\ IsFiniteSet(B)
  BY FS_Subset, TableAssumption
<1>2. /\ Cardinality(A) \in Nat /\ Cardinality(B) \in Nat
  BY <1>1, FS_CardinalityType
<1>3. ASSUME NEW S, IsFiniteSet(S), Cardinality(S) \in Nat
      PROVE  Cardinality(S \ {j}) = Cardinality(S) - One(j \in S)
  <2>1. Cardinality(S \ {j}) = IF j \in S THEN Cardinality(S) - 1 ELSE Cardinality(S)
    BY <1>3, FS_RemoveElement
  <2> QED
    BY <1>3, <2>1 DEF One
<1>4. /\ Cardinality(A \ {j}) = Cardinality(A) - One(j \in A)
      /\ Cardinality(B \ {j}) = Cardinality(B) - One(j \in B)
  BY <1>1, <1>2, <1>3
<1>5. One(j \in A) \in Nat /\ One(j \in B) \in Nat
  BY DEF One
<1>6. Cardinality(A \ {j}) = Cardinality(B \ {j})
  OBVIOUS
<1>7. Cardinality(A) - One(j \in A) = Cardinality(B) - One(j \in B)
  BY <1>4, <1>6
<1> DEFINE a == Cardinality(A)
           b == Cardinality(B)
           x == One(j \in A)
           y == One(j \in B)
<1>8. a \in Nat /\ b \in Nat /\ x \in Nat /\ y \in Nat /\ a - x = b - y
  BY <1>2, <1>5, <1>7
<1> HIDE DEF a, b, x, y
<1>9. b = a + y - x
  BY <1>8
<1> QED
  BY <1>9 DEF a, b, x, y

\* If the lists change for one job and the counters follow, they still match.
LEMMA OneJob ==
  ASSUME NEW tab, NEW r, NEW j \in Jobs, tab.all \in SUBSET Jobs, r.all \in SUBSET Jobs,
         SameBut(tab, r, j), Recount(tab, r, j), Counted(tab)
  PROVE  Counted(r)
<1>1. r.svnum = Cardinality(r.all)
  <2>1. Cardinality(r.all) = Cardinality(tab.all) + One(j \in r.all) - One(j \in tab.all)
    BY OneElement DEF SameBut
  <2> QED
    BY <2>1 DEF Recount, Counted
<1>2. ASSUME NEW s \in JobStates
      PROVE  r.sv[s] = Cardinality(InState(r, s))
  <2>1. /\ InState(tab, s) \in SUBSET Jobs /\ InState(r, s) \in SUBSET Jobs
        /\ InState(tab, s) \ {j} = InState(r, s) \ {j}
        /\ j \in InState(tab, s) <=> j \in tab.all /\ tab.st[j] = s
        /\ j \in InState(r, s) <=> j \in r.all /\ r.st[j] = s
    BY DEF SameBut, InState
  <2>2. Cardinality(InState(r, s)) = Cardinality(InState(tab, s))
           + One(j \in InState(r, s)) - One(j \in InState(tab, s))
    BY <2>1, OneElement
  <2> QED
    BY <2>1, <2>2 DEF Recount, Counted, One
<1>3. ASSUME NEW q \in Queues
      PROVE  r.qnum[q] = Cardinality(InQueue(r, q))
  <2>1. /\ InQueue(tab, q) \in SUBSET Jobs /\ InQueue(r, q) \in SUBSET Jobs
        /\ InQueue(tab, q) \ {j} = InQueue(r, q) \ {j}
        /\ j \in InQueue(tab, q) <=> tab.qhdr[j] = q
        /\ j \in InQueue(r, q) <=> r.qhdr[j] = q
    BY DEF SameBut, InQueue
  <2>2. Cardinality(InQueue(r, q)) = Cardinality(InQueue(tab, q))
           + One(j \in InQueue(r, q)) - One(j \in InQueue(tab, q))
    BY <2>1, OneElement
  <2> QED
    BY <2>1, <2>2 DEF Recount, Counted, One
<1>4. ASSUME NEW q \in Queues, NEW s \in JobStates
      PROVE  r.qst[q][s] = Cardinality(InQueueState(r, q, s))
  <2>1. /\ InQueueState(tab, q, s) \in SUBSET Jobs /\ InQueueState(r, q, s) \in SUBSET Jobs
        /\ InQueueState(tab, q, s) \ {j} = InQueueState(r, q, s) \ {j}
        /\ j \in InQueueState(tab, q, s) <=> tab.qhdr[j] = q /\ tab.st[j] = s
        /\ j \in InQueueState(r, q, s) <=> r.qhdr[j] = q /\ r.st[j] = s
    BY DEF SameBut, InQueueState
  <2>2. Cardinality(InQueueState(r, q, s)) = Cardinality(InQueueState(tab, q, s))
           + One(j \in InQueueState(r, q, s)) - One(j \in InQueueState(tab, q, s))
    BY <2>1, OneElement
  <2> QED
    BY <2>1, <2>2 DEF Recount, Counted, One
<1> QED
  BY <1>1, <1>2, <1>3, <1>4 DEF Counted

\* r is right again and only job j is not what it was in tab
Step(tab, r, j) ==
  /\ Core(r)
  /\ SameBut(tab, r, j)
  /\ r.ques = tab.ques /\ r.hist = tab.hist

\* Steps that touch the same job compose.
LEMMA StepTransitive ==
  ASSUME NEW tab, NEW r, NEW u, NEW j, Step(tab, r, j), Step(r, u, j)
  PROVE  Step(tab, u, j)
BY DEF Step, SameBut

\* A table that recounts one job, and links it properly, is right.
LEMMA StepByCounts ==
  ASSUME NEW tab, NEW r \in TableType, NEW j \in Jobs, Core(tab),
         SameBut(tab, r, j), Recount(tab, r, j),
         r.ques = tab.ques, r.hist = tab.hist,
         r.qhdr[j] # NoQueue => r.qhdr[j] \in r.ques /\ j \in r.all
  PROVE  Step(tab, r, j)
<1>1. tab.all \in SUBSET Jobs /\ r.all \in SUBSET Jobs
  BY DEF Core, TableType
<1>2. Counted(r)
  BY <1>1, OneJob DEF Core
<1>3. Linked(r)
  BY DEF Core, Linked, SameBut
<1> QED
  BY <1>2, <1>3 DEF Step, Core

\* Add changes one counter.
LEMMA AddType ==
  ASSUME NEW f \in [JobStates -> Int], NEW s \in JobStates, NEW n \in Int
  PROVE  /\ Add(f, s, n) \in [JobStates -> Int]
         /\ \A x \in JobStates : Add(f, s, n)[x] = IF x = s THEN f[x] + n ELSE f[x]
BY DEF Add

\* Shift moves one from a counter to another, and does nothing when they are one.
LEMMA ShiftType ==
  ASSUME NEW f \in [JobStates -> Int], NEW s \in JobStates, NEW u \in JobStates
  PROVE  /\ Shift(f, s, u) \in [JobStates -> Int]
         /\ \A x \in JobStates : Shift(f, s, u)[x] = f[x] + One(x = u) - One(x = s)
BY DEF Shift, One

\* Writing the server fields keeps the type.
LEMMA RetypeServer ==
  ASSUME NEW tab \in TableType, NEW A \in SUBSET Jobs, NEW n \in Int,
         NEW f \in [JobStates -> Int]
  PROVE  [tab EXCEPT !.all = A, !.svnum = n, !.sv = f] \in TableType
BY DEF TableType

\* Writing the queue fields of one job keeps the type.
LEMMA RetypeQueue ==
  ASSUME NEW tab \in TableType, NEW j \in Jobs, NEW q \in Queues,
         NEW h \in Queues \cup {NoQueue}, NEW n \in Int, NEW f \in [JobStates -> Int]
  PROVE  [tab EXCEPT !.qhdr[j] = h, !.qnum[q] = n, !.qst[q] = f] \in TableType
BY DEF TableType

\* Writing the queue list and the counters of one queue keeps the type.
LEMMA RetypeQueues ==
  ASSUME NEW tab \in TableType, NEW Q \in SUBSET Queues, NEW q \in Queues,
         NEW n \in Int, NEW f \in [JobStates -> Int]
  PROVE  [tab EXCEPT !.ques = Q, !.qnum[q] = n, !.qst[q] = f] \in TableType
BY DEF TableType

\* The same with the queue headers of the jobs.
LEMMA RetypeHeaders ==
  ASSUME NEW tab \in TableType, NEW Q \in SUBSET Queues, NEW q \in Queues, NEW n \in Int,
         NEW f \in [JobStates -> Int], NEW h \in [Jobs -> Queues \cup {NoQueue}]
  PROVE  [tab EXCEPT !.ques = Q, !.qnum[q] = n, !.qst[q] = f, !.qhdr = h] \in TableType
BY DEF TableType

\* svr_enquejob of a job in neither list links it, counts it, and leaves an
\* unlinked job alone when its queue is unknown and it is no history job.
LEMMA Enqueue ==
  ASSUME NEW tab, Core(tab), NEW j \in Jobs, j \notin tab.all, tab.qhdr[j] = NoQueue
  PROVE  LET r == svr_enquejob(tab, j) IN
         /\ Step(tab, r, j)
         /\ r.st = tab.st /\ r.ss = tab.ss /\ r.qname = tab.qname
         /\ IF UnknownQueue(tab, j)
            THEN /\ j \in r.all <=> tab.st[j] \in HistStates
                 /\ r.qhdr[j] = NoQueue
            ELSE j \in r.all /\ r.qhdr[j] = tab.qname[j]
<1> DEFINE r == svr_enquejob(tab, j)
           q == tab.qname[j]
           s == tab.st[j]
           linked == [tab EXCEPT !.all   = tab.all \cup {j},
                                 !.svnum = tab.svnum + 1,
                                 !.sv    = Add(tab.sv, tab.st[j], 1)]
<1>0. tab \in TableType /\ s \in JobStates /\ q \in Queues \cup {NoQueue}
      /\ tab.ques \subseteq Queues
  BY DEF Core, TableType
<1>a. /\ Add(tab.sv, s, 1) \in [JobStates -> Int]
      /\ \A x \in JobStates : Add(tab.sv, s, 1)[x] = IF x = s THEN tab.sv[x] + 1 ELSE tab.sv[x]
  <2>1. tab.sv \in [JobStates -> Int]
    BY <1>0 DEF TableType
  <2> DEFINE sv == tab.sv
  <2>2. sv \in [JobStates -> Int] /\ s \in JobStates /\ 1 \in Int
    BY <1>0, <2>1
  <2> HIDE DEF sv, s
  <2>3. /\ Add(sv, s, 1) \in [JobStates -> Int]
        /\ \A x \in JobStates : Add(sv, s, 1)[x] = IF x = s THEN sv[x] + 1 ELSE sv[x]
    BY <2>2, AddType
  <2> QED
    BY <2>3 DEF sv
<1>l. linked \in TableType
  <2>1. tab.svnum + 1 \in Int
    BY <1>0 DEF TableType
  <2>2. tab.all \cup {j} \in SUBSET Jobs
    BY <1>0 DEF TableType
  <2> QED
    BY <1>0, <1>a, <2>1, <2>2, RetypeServer
<1>1. CASE UnknownQueue(tab, j) /\ s \notin HistStates
  BY <1>0, <1>1 DEF svr_enquejob, Core, Step, SameBut
<1>2. CASE UnknownQueue(tab, j) /\ s \in HistStates
  <2>1. r = linked
    BY <1>2 DEF svr_enquejob
  <2>3. /\ r.all = tab.all \cup {j} /\ r.svnum = tab.svnum + 1
        /\ r.sv = Add(tab.sv, s, 1) /\ r.st = tab.st /\ r.ss = tab.ss
        /\ r.qhdr = tab.qhdr /\ r.qname = tab.qname /\ r.hist = tab.hist
        /\ r.qnum = tab.qnum /\ r.qst = tab.qst /\ r.ques = tab.ques
    BY <1>0, <2>1 DEF TableType
  <2>4. Recount(tab, r, j)
    <3>1. \A x \in Queues : tab.qhdr[j] # x /\ r.qhdr[j] # x
      BY <2>3, TableAssumption
    <3>2. tab.svnum \in Int /\ \A x \in JobStates : tab.sv[x] \in Int
      BY <1>0 DEF TableType
    <3>3. /\ \A x \in Queues : tab.qnum[x] \in Int
          /\ \A x \in Queues, y \in JobStates : tab.qst[x][y] \in Int
      BY <1>0 DEF TableType
    <3> QED
      BY <1>a, <2>3, <3>1, <3>2, <3>3 DEF Recount, One
  <2>5. SameBut(tab, r, j)
    BY <2>3 DEF SameBut
  <2>6. Step(tab, r, j)
    BY <1>l, <2>1, <2>3, <2>4, <2>5, StepByCounts
  <2> QED
    BY <1>2, <2>3, <2>6
<1>3. CASE ~UnknownQueue(tab, j)
  <2>0. q \in tab.ques /\ q \in Queues
    BY <1>0, <1>3 DEF UnknownQueue
  <2>1. r = [linked EXCEPT !.qhdr[j] = q, !.qnum[q] = tab.qnum[q] + 1,
                           !.qst[q] = Add(tab.qst[q], s, 1)]
    BY <1>3 DEF svr_enquejob
  <2>a. tab.qst[q] \in [JobStates -> Int] /\ tab.qnum[q] + 1 \in Int
    BY <1>0, <2>0 DEF TableType
  <2>2. /\ Add(tab.qst[q], s, 1) \in [JobStates -> Int]
        /\ \A x \in JobStates :
              Add(tab.qst[q], s, 1)[x] = IF x = s THEN tab.qst[q][x] + 1 ELSE tab.qst[q][x]
    BY <1>0, <2>a DEF Add
  <2>3. r \in TableType
    <3> DEFINE n == tab.qnum[q] + 1
               f == Add(tab.qst[q], s, 1)
    <3>1. r = [linked EXCEPT !.qhdr[j] = q, !.qnum[q] = n, !.qst[q] = f]
      BY <2>1
    <3>2. n \in Int /\ f \in [JobStates -> Int] /\ q \in Queues
      BY <2>0, <2>a, <2>2
    <3> HIDE DEF linked, n, f, q, r
    <3> QED
      BY <1>l, <3>1, <3>2, RetypeQueue
  <2>4. /\ r.all = tab.all \cup {j} /\ r.svnum = tab.svnum + 1
        /\ r.sv = Add(tab.sv, s, 1) /\ r.st = tab.st /\ r.ss = tab.ss
        /\ r.qhdr = [tab.qhdr EXCEPT ![j] = q]
        /\ r.qnum = [tab.qnum EXCEPT ![q] = tab.qnum[q] + 1]
        /\ r.qst = [tab.qst EXCEPT ![q] = Add(tab.qst[q], s, 1)]
        /\ r.qname = tab.qname /\ r.hist = tab.hist /\ r.ques = tab.ques
    BY <1>0, <2>1 DEF TableType
  <2>5. Recount(tab, r, j)
    <3>1. q # NoQueue
      BY <2>0, TableAssumption
    <3>2. r.qhdr[j] = q /\ tab.qhdr[j] = NoQueue /\ r.st[j] = s
      BY <1>0, <2>4 DEF TableType
    <3>3. \A x \in Queues : r.qnum[x] = IF x = q THEN tab.qnum[x] + 1 ELSE tab.qnum[x]
      BY <1>0, <2>4 DEF TableType
    <3>4. \A x \in Queues, y \in JobStates :
             r.qst[x][y] = IF x = q /\ y = s THEN tab.qst[x][y] + 1 ELSE tab.qst[x][y]
      BY <1>0, <2>2, <2>4 DEF TableType
    <3> QED
      BY <1>0, <1>a, <2>4, <3>1, <3>2, <3>3, <3>4, TableAssumption DEF Recount, One, TableType
  <2>6. SameBut(tab, r, j)
    BY <1>0, <2>4 DEF SameBut, TableType
  <2>7. r.qhdr[j] = q
    BY <1>0, <2>4 DEF TableType
  <2>8. Step(tab, r, j)
    BY <2>0, <2>3, <2>4, <2>5, <2>6, <2>7, StepByCounts
  <2> QED
    BY <1>3, <2>4, <2>7, <2>8
<1> QED
  BY <1>1, <1>2, <1>3

\* The counters of a right table are not negative.
LEMMA CountsNatural ==
  ASSUME NEW tab, Core(tab)
  PROVE  /\ tab.svnum \in Nat
         /\ \A s \in JobStates : tab.sv[s] \in Nat
         /\ \A q \in Queues : tab.qnum[q] \in Nat
         /\ \A q \in Queues, s \in JobStates : tab.qst[q][s] \in Nat
<1>1. \A S \in SUBSET Jobs : Cardinality(S) \in Nat
  BY FS_Subset, FS_CardinalityType, TableAssumption
<1>2. tab.all \in SUBSET Jobs
  BY DEF Core, TableType
<1>3. /\ \A s : InState(tab, s) \in SUBSET Jobs
      /\ \A q : InQueue(tab, q) \in SUBSET Jobs
      /\ \A q, s : InQueueState(tab, q, s) \in SUBSET Jobs
  BY <1>2 DEF InState, InQueue, InQueueState
<1> QED
  BY <1>1, <1>2, <1>3 DEF Core, Counted

\* Unlinking takes a job out of both lists and out of the counters.
LEMMA Unlink ==
  ASSUME NEW tab, Core(tab), NEW j \in Jobs
  PROVE  LET r == Unlinked(tab, j) IN
         /\ Step(tab, r, j)
         /\ r.st = tab.st /\ r.ss = tab.ss /\ r.qname = tab.qname
         /\ j \notin r.all /\ r.qhdr[j] = NoQueue
<1> DEFINE r == Unlinked(tab, j)
           q == tab.qhdr[j]
           s == tab.st[j]
           svr == [tab EXCEPT !.all   = tab.all \ {j},
                              !.svnum = tab.svnum - 1,
                              !.sv    = Add(tab.sv, tab.st[j], -1)]
<1>0. /\ tab \in TableType /\ s \in JobStates /\ q \in Queues \cup {NoQueue}
      /\ q # NoQueue => j \in tab.all /\ q \in Queues
      /\ tab.svnum \in Int /\ \A x \in JobStates : tab.sv[x] \in Int
      /\ \A x \in Queues : tab.qnum[x] \in Int
      /\ \A x \in Queues, y \in JobStates : tab.qst[x][y] \in Int
  BY DEF Core, TableType, Linked
<1>a. /\ Add(tab.sv, s, -1) \in [JobStates -> Int]
      /\ \A x \in JobStates : Add(tab.sv, s, -1)[x] = IF x = s THEN tab.sv[x] - 1 ELSE tab.sv[x]
  BY <1>0 DEF TableType, Add
<1>l. svr \in TableType
  <2>1. tab.svnum - 1 \in Int
    BY <1>0
  <2>2. tab.all \ {j} \in SUBSET Jobs
    BY <1>0 DEF TableType
  <2> QED
    BY <1>0, <1>a, <2>1, <2>2, RetypeServer
<1>1. CASE j \notin tab.all
  BY <1>0, <1>1 DEF Unlinked, Core, Step, SameBut
<1>2. CASE j \in tab.all /\ q = NoQueue
  <2>1. r = svr
    BY <1>2 DEF Unlinked
  <2>2. /\ r.all = tab.all \ {j} /\ r.svnum = tab.svnum - 1
        /\ r.sv = Add(tab.sv, s, -1) /\ r.st = tab.st /\ r.ss = tab.ss
        /\ r.qhdr = tab.qhdr /\ r.qname = tab.qname /\ r.hist = tab.hist
        /\ r.qnum = tab.qnum /\ r.qst = tab.qst /\ r.ques = tab.ques
    BY <1>0, <2>1 DEF TableType
  <2>3. Recount(tab, r, j)
    <3>1. \A x \in Queues : tab.qhdr[j] # x /\ r.qhdr[j] # x
      BY <1>2, <2>2, TableAssumption
    <3> QED
      BY <1>0, <1>2, <1>a, <2>2, <3>1 DEF Recount, One
  <2>4. SameBut(tab, r, j)
    BY <2>2 DEF SameBut
  <2>5. Step(tab, r, j)
    BY <1>l, <1>2, <2>1, <2>2, <2>3, <2>4, StepByCounts
  <2> QED
    BY <1>2, <2>2, <2>5
<1>3. CASE j \in tab.all /\ q # NoQueue
  <2> DEFINE n == tab.qnum[q] - 1
             f == Add(tab.qst[q], s, -1)
  <2>0. q \in Queues /\ q # NoQueue
    BY <1>0, <1>3
  <2>1. r = [svr EXCEPT !.qhdr[j] = NoQueue, !.qnum[q] = n, !.qst[q] = f]
    BY <1>3 DEF Unlinked
  <2>2. tab.qst[q] \in [JobStates -> Int] /\ n \in Int
    BY <1>0, <2>0 DEF TableType
  <2>3. /\ f \in [JobStates -> Int]
        /\ \A x \in JobStates : f[x] = IF x = s THEN tab.qst[q][x] - 1 ELSE tab.qst[q][x]
    BY <1>0, <2>2 DEF Add
  <2>4. /\ r.all = tab.all \ {j} /\ r.svnum = tab.svnum - 1
        /\ r.sv = Add(tab.sv, s, -1) /\ r.st = tab.st /\ r.ss = tab.ss
        /\ r.qhdr = [tab.qhdr EXCEPT ![j] = NoQueue]
        /\ r.qnum = [tab.qnum EXCEPT ![q] = n]
        /\ r.qst = [tab.qst EXCEPT ![q] = f]
        /\ r.qname = tab.qname /\ r.hist = tab.hist /\ r.ques = tab.ques
    BY <1>0, <2>1 DEF TableType
  <2>5. r \in TableType
    <3> HIDE DEF svr, n, f, q, r
    <3> QED
      BY <1>l, <2>0, <2>1, <2>2, <2>3, RetypeQueue
  <2>6. r.qhdr[j] = NoQueue
    BY <1>0, <2>4 DEF TableType
  <2>7. Recount(tab, r, j)
    <3>1. \A x \in Queues : r.qnum[x] = IF x = q THEN tab.qnum[x] - 1 ELSE tab.qnum[x]
      BY <1>0, <2>4 DEF TableType
    <3>2. \A x \in Queues, y \in JobStates :
             r.qst[x][y] = IF x = q /\ y = s THEN tab.qst[x][y] - 1 ELSE tab.qst[x][y]
      BY <1>0, <2>3, <2>4 DEF TableType
    <3>3. \A x \in Queues : r.qhdr[j] # x
      BY <2>6, TableAssumption
    <3> QED
      BY <1>0, <1>3, <1>a, <2>4, <3>1, <3>2, <3>3 DEF Recount, One
  <2>8. SameBut(tab, r, j)
    BY <1>0, <2>4 DEF SameBut, TableType
  <2>9. Step(tab, r, j)
    BY <2>4, <2>5, <2>6, <2>7, <2>8, StepByCounts
  <2> QED
    BY <2>4, <2>6, <2>9
<1> QED
  BY <1>1, <1>2, <1>3

\* svr_dequejob never has to recount.
LEMMA Dequeue ==
  ASSUME NEW tab, Core(tab), NEW j \in Jobs
  PROVE  svr_dequejob(tab, j) = Unlinked(tab, j)
<1> DEFINE u == Unlinked(tab, j)
<1>1. Core(u)
  BY Unlink DEF Step
<1>2. tab.st[j] \in JobStates /\ tab.qhdr[j] \in Queues \cup {NoQueue}
  BY DEF Core, TableType
<1>3. ~bad_ct(tab, j)
  BY <1>1, <1>2, CountsNatural DEF bad_ct
<1> QED
  BY <1>3 DEF svr_dequejob

-----------------------------------------------------------------------------
(* Job state.                                                               *)

\* j went to state ns, substate nss, and stayed in its lists
Changed(tab, r, j, ns, nss) ==
  /\ Step(tab, r, j)
  /\ r.st[j] = ns /\ r.ss[j] = nss
  /\ r.all = tab.all /\ r.qhdr = tab.qhdr /\ r.qname = tab.qname

\* Writing the state of a linked job with its counters moved keeps the counts.
LEMMA Move ==
  ASSUME NEW tab, Core(tab), NEW j \in tab.all, NEW ns \in JobStates, NEW nss \in Substates
  PROVE  Changed(tab, PutState(MoveCounts(tab, j, ns), j, ns, nss), j, ns, nss)
<1> DEFINE r == PutState(MoveCounts(tab, j, ns), j, ns, nss)
           q == tab.qhdr[j]
           s == tab.st[j]
           f == Shift(tab.sv, s, ns)
           g == IF q = NoQueue THEN tab.qst
                ELSE [tab.qst EXCEPT ![q] = Shift(tab.qst[q], s, ns)]
<1>0. /\ tab \in TableType /\ j \in Jobs /\ s \in JobStates /\ q \in Queues \cup {NoQueue}
      /\ q # NoQueue => q \in tab.ques
      /\ tab.svnum \in Int /\ \A x \in JobStates : tab.sv[x] \in Int
      /\ \A x \in Queues : tab.qnum[x] \in Int /\ tab.qst[x] \in [JobStates -> Int]
      /\ \A x \in Queues, y \in JobStates : tab.qst[x][y] \in Int
      /\ tab.sv \in [JobStates -> Int] /\ tab.qst \in [Queues -> [JobStates -> Int]]
  BY DEF Core, TableType, Linked
<1>1. /\ f \in [JobStates -> Int]
      /\ \A x \in JobStates : f[x] = tab.sv[x] + One(x = ns) - One(x = s)
  BY <1>0, ShiftType
<1>2. /\ g \in [Queues -> [JobStates -> Int]]
      /\ \A x \in Queues, y \in JobStates :
            g[x][y] = tab.qst[x][y] + One(x = q /\ y = ns) - One(x = q /\ y = s)
  <2>1. CASE q = NoQueue
    BY <1>0, <2>1, TableAssumption DEF One
  <2>2. CASE q # NoQueue
    <3> DEFINE c == tab.qst[q]
               h == Shift(c, s, ns)
    <3>1. q \in Queues /\ c \in [JobStates -> Int]
      BY <1>0, <2>2
    <3>2. /\ h \in [JobStates -> Int]
          /\ \A x \in JobStates : h[x] = c[x] + One(x = ns) - One(x = s)
      <4>1. s \in JobStates
        BY <1>0
      <4> HIDE DEF c, s
      <4>2. c \in [JobStates -> Int]
        BY <3>1
      <4> QED
        BY <4>1, <4>2, ShiftType
    <3>3. g = [tab.qst EXCEPT ![q] = h]
      BY <2>2
    <3> HIDE DEF h, g, q, s
    <3>4. g \in [Queues -> [JobStates -> Int]]
      BY <1>0, <3>1, <3>2, <3>3
    <3>5. ASSUME NEW x \in Queues, NEW y \in JobStates
          PROVE  g[x][y] = tab.qst[x][y] + One(x = q /\ y = ns) - One(x = q /\ y = s)
      <4>1. CASE x = q
        BY <1>0, <3>1, <3>2, <3>3, <4>1 DEF One
      <4>2. CASE x # q
        BY <1>0, <3>1, <3>2, <3>3, <4>2 DEF One
      <4> QED
        BY <4>1, <4>2
    <3> QED
      BY <3>4, <3>5
  <2> QED
    BY <2>1, <2>2
<1>3. r = [[tab EXCEPT !.sv = f, !.qst = g] EXCEPT !.st[j] = ns, !.ss[j] = nss]
  BY DEF MoveCounts, PutState
<1> HIDE DEF r, f, g
<1>4. /\ r \in TableType
      /\ r.sv = f /\ r.qst = g /\ r.svnum = tab.svnum /\ r.qnum = tab.qnum
      /\ r.all = tab.all /\ r.qhdr = tab.qhdr /\ r.qname = tab.qname
      /\ r.ques = tab.ques /\ r.hist = tab.hist
      /\ r.st = [tab.st EXCEPT ![j] = ns] /\ r.ss = [tab.ss EXCEPT ![j] = nss]
  BY <1>0, <1>1, <1>2, <1>3 DEF TableType
<1>5. /\ r.st[j] = ns /\ r.ss[j] = nss
      /\ \A k \in Jobs \ {j} : r.st[k] = tab.st[k] /\ r.ss[k] = tab.ss[k]
  BY <1>0, <1>4 DEF TableType
<1>6. Recount(tab, r, j)
  BY <1>0, <1>1, <1>2, <1>4, <1>5 DEF Recount, One
<1>7. SameBut(tab, r, j)
  BY <1>4, <1>5 DEF SameBut
<1>8. Step(tab, r, j)
  BY <1>0, <1>4, <1>6, <1>7, StepByCounts
<1> QED
  BY <1>4, <1>5, <1>8 DEF r, Changed

\* A write of the state that needs no counter: the state stays, or the job is
\* not linked yet.
LEMMA NoMove ==
  ASSUME NEW tab, Core(tab), NEW j \in Jobs, NEW ns \in JobStates, NEW nss \in Substates,
         j \in tab.all => ns = tab.st[j]
  PROVE  Changed(tab, PutState(tab, j, ns, nss), j, ns, nss)
<1> DEFINE r == PutState(tab, j, ns, nss)
<1>0. /\ tab \in TableType /\ tab.all \subseteq Jobs
      /\ j \notin tab.all => tab.qhdr[j] = NoQueue
      /\ tab.svnum \in Int /\ \A x \in JobStates : tab.sv[x] \in Int
      /\ \A x \in Queues : tab.qnum[x] \in Int
      /\ \A x \in Queues, y \in JobStates : tab.qst[x][y] \in Int
  BY DEF Core, TableType, Linked
<1>1. /\ r \in TableType
      /\ r.sv = tab.sv /\ r.qst = tab.qst /\ r.svnum = tab.svnum /\ r.qnum = tab.qnum
      /\ r.all = tab.all /\ r.qhdr = tab.qhdr /\ r.qname = tab.qname
      /\ r.ques = tab.ques /\ r.hist = tab.hist
      /\ r.st = [tab.st EXCEPT ![j] = ns] /\ r.ss = [tab.ss EXCEPT ![j] = nss]
  BY <1>0 DEF TableType, PutState
<1>2. /\ r.st[j] = ns /\ r.ss[j] = nss
      /\ \A k \in Jobs \ {j} : r.st[k] = tab.st[k] /\ r.ss[k] = tab.ss[k]
  BY <1>0, <1>1 DEF TableType
<1> HIDE DEF r
<1>3. Recount(tab, r, j)
  BY <1>0, <1>1, <1>2, TableAssumption DEF Recount, One
<1>4. SameBut(tab, r, j)
  BY <1>1, <1>2 DEF SameBut
<1>5. Linked(tab)
  BY DEF Core
<1>6. Step(tab, r, j)
  BY <1>1, <1>3, <1>4, <1>5, StepByCounts DEF Linked
<1> QED
  BY <1>1, <1>2, <1>6 DEF r, Changed

\* svr_setjobstate of a job that is linked, or that is being committed
LEMMA SetState ==
  ASSUME NEW tab, Core(tab), NEW j \in Jobs, NEW ns \in JobStates, NEW nss \in Substates,
         tab.st[j] # "F", j \notin tab.all <=> tab.ss[j] = "TRANSICM"
  PROVE  Changed(tab, svr_setjobstate(tab, j, ns, nss), j, ns, nss)
<1>1. CASE tab.ss[j] # "TRANSICM" /\ tab.st[j] # ns
  <2>1. svr_setjobstate(tab, j, ns, nss)
           = PutState(MoveCounts(tab, j, ns), j, ns, nss)
    BY <1>1 DEF svr_setjobstate
  <2> QED
    BY <1>1, <2>1, Move
<1>2. CASE ~(tab.ss[j] # "TRANSICM" /\ tab.st[j] # ns)
  <2>1. svr_setjobstate(tab, j, ns, nss) = PutState(tab, j, ns, nss)
    BY <1>2 DEF svr_setjobstate
  <2> QED
    BY <1>2, <2>1, NoMove
<1> QED
  BY <1>1, <1>2

\* svr_histjob_update keeps the counts.
LEMMA HistUpdate ==
  ASSUME NEW tab, Core(tab), NEW j \in tab.all, NEW ns \in JobStates, NEW nss \in Substates
  PROVE  Changed(tab, svr_histjob_update(tab, j, ns, nss), j, ns, nss)
<1>0. j \in Jobs
  BY DEF Core, TableType
<1>1. CASE tab.st[j] # ns
  <2>1. svr_histjob_update(tab, j, ns, nss)
           = PutState(MoveCounts(tab, j, ns), j, ns, nss)
    BY <1>1 DEF svr_histjob_update
  <2> QED
    BY <1>1, <2>1, Move
<1>2. CASE tab.st[j] = ns
  <2>1. svr_histjob_update(tab, j, ns, nss) = PutState(tab, j, ns, nss)
    BY <1>2 DEF svr_histjob_update
  <2> QED
    BY <1>0, <1>2, <2>1, NoMove
<1> QED
  BY <1>1, <1>2

-----------------------------------------------------------------------------
(* The links of a job: what the counters do not say.                        *)

\* substates of a job that is not in svr_alljobs yet
Submitting == {"none", "TRANSIN", "TRANSICM"}

\* the links of job j fit its state
Placed(tab, j) ==
  /\ tab.ss[j] \in Submitting <=> j \notin tab.all
  /\ j \notin tab.all => tab.st[j] = "T"
  /\ tab.st[j] \notin {"X", "B"}
  /\ tab.qhdr[j] # NoQueue => tab.qname[j] = tab.qhdr[j]
  /\ j \in tab.all /\ tab.qhdr[j] = NoQueue => tab.st[j] \in HistStates
  /\ j \in tab.all /\ ~tab.hist => tab.st[j] \notin HistStates

\* the inductive invariant
Good(tab) == Core(tab) /\ \A j \in Jobs : Placed(tab, j)

\* everything but job j is as it should be
Others(tab, j) == Core(tab) /\ \A k \in Jobs \ {j} : Placed(tab, k)

\* Good is right for every job; Others for all but one.
LEMMA GoodOthers ==
  ASSUME NEW tab, NEW j
  PROVE  /\ Good(tab) => Others(tab, j)
         /\ Others(tab, j) /\ Placed(tab, j) => Good(tab)
BY DEF Good, Others

\* A step on job j leaves the links of the other jobs alone.
LEMMA OthersStep ==
  ASSUME NEW tab, NEW r, NEW j, Others(tab, j), Step(tab, r, j)
  PROVE  Others(r, j)
BY DEF Others, Step, SameBut, Placed

\* the attributes of a job matter neither to counters nor to links
SameLinks(tab, r) ==
  /\ r.st = tab.st /\ r.ss = tab.ss /\ r.all = tab.all /\ r.qhdr = tab.qhdr
  /\ r.svnum = tab.svnum /\ r.sv = tab.sv /\ r.qnum = tab.qnum /\ r.qst = tab.qst
  /\ r.ques = tab.ques /\ r.hist = tab.hist

\* Writing attributes leaves a right table right.
LEMMA Attributes ==
  ASSUME NEW tab, NEW r \in TableType, SameLinks(tab, r), Core(tab)
  PROVE  /\ Core(r)
         /\ \A j : (\A k \in Jobs \ {j} : r.qname[k] = tab.qname[k]) => Step(tab, r, j)
         /\ Good(tab) /\ r.qname = tab.qname => Good(r)
<1>1. Core(r)
  BY DEF SameLinks, Core, Counted, Linked, InState, InQueue, InQueueState
<1>2. \A j : (\A k \in Jobs \ {j} : r.qname[k] = tab.qname[k]) => Step(tab, r, j)
  BY <1>1 DEF Step, SameBut, SameLinks
<1>3. Good(tab) /\ r.qname = tab.qname => Good(r)
  BY <1>1 DEF Good, Placed, SameLinks
<1> QED
  BY <1>1, <1>2, <1>3

\* job_free of an unlinked job touches nothing else.
LEMMA Free ==
  ASSUME NEW tab, NEW j \in Jobs, Core(tab), j \notin tab.all
  PROVE  LET r == job_free(tab, j) IN
         Step(tab, r, j) /\ r.st[j] = "T" /\ r.ss[j] = "none" /\ j \notin r.all
<1> DEFINE p == PutState(tab, j, "T", "none")
           r == [p EXCEPT !.hold[j] = FALSE, !.wait[j] = "no", !.chk[j] = "no",
                           !.disc[j] = "no", !.qname[j] = NoQueue]
<1>1. Changed(tab, p, j, "T", "none")
  BY NoMove DEF JobStates, Substates
<1>2. Core(p) /\ Step(tab, p, j) /\ p.st[j] = "T" /\ p.ss[j] = "none" /\ p.all = tab.all
  BY <1>1 DEF Changed, Step
<1> HIDE DEF p
<1>3. p \in TableType
  BY <1>2 DEF Core
<1>4. r \in TableType
  BY <1>3 DEF TableType
<1>5. SameLinks(p, r) /\ \A k \in Jobs \ {j} : r.qname[k] = p.qname[k]
  BY <1>3 DEF TableType, SameLinks
<1>6. Step(p, r, j)
  BY <1>2, <1>4, <1>5, Attributes
<1>7. Step(tab, r, j)
  BY <1>2, <1>6, StepTransitive
<1>8. job_free(tab, j) = r
  BY DEF job_free, p
<1> HIDE DEF r
<1> QED
  BY <1>2, <1>5, <1>7, <1>8 DEF SameLinks

\* job_purge leaves a table without the job, whatever was wrong with the job
LEMMA Purge ==
  ASSUME NEW tab, NEW j \in Jobs, Others(tab, j),
         tab.ss[j] \in {"TRANSIN", "TRANSICM"} => j \notin tab.all
  PROVE  Good(job_purge(tab, j)) /\ Step(tab, job_purge(tab, j), j)
         /\ j \notin job_purge(tab, j).all
<1> DEFINE d == IF tab.ss[j] \in {"TRANSIN", "TRANSICM"} THEN tab ELSE svr_dequejob(tab, j)
           r == job_free(d, j)
<1>0. Core(tab)
  BY DEF Others
<1>1. Step(tab, d, j) /\ j \notin d.all
  <2>1. CASE tab.ss[j] \in {"TRANSIN", "TRANSICM"}
    BY <1>0, <2>1 DEF Step, SameBut
  <2>2. CASE ~(tab.ss[j] \in {"TRANSIN", "TRANSICM"})
    BY <1>0, <2>2, Dequeue, Unlink
  <2> QED
    BY <2>1, <2>2
<1>2. job_purge(tab, j) = r
  BY DEF job_purge
<1> HIDE DEF d
<1>3. Core(d)
  BY <1>1 DEF Step
<1>4. Step(d, r, j) /\ r.st[j] = "T" /\ r.ss[j] = "none" /\ j \notin r.all
  BY <1>1, <1>3, Free
<1> HIDE DEF r
<1>5. Step(tab, r, j)
  BY <1>1, <1>4, StepTransitive
<1>6. Placed(r, j)
  BY <1>4 DEF Placed, Submitting, Step, Core, Linked
<1> QED
  BY <1>2, <1>4, <1>5, <1>6, OthersStep, GoodOthers

-----------------------------------------------------------------------------
(* The routines the handlers are made of, on a right table.                 *)

\* the states of a job that is neither history nor part of an array
LiveStates == JobStates \ (HistStates \cup {"X", "B"})

\* a right table and a job of it that is not history
Live(tab, j) == Good(tab) /\ j \in tab.all /\ tab.st[j] \notin HistStates

\* what each routine delivers
Result(tab, r, j) == Good(r) /\ Step(tab, r, j)

\* What is known of a live job.
LEMMA LiveFacts ==
  ASSUME NEW tab, NEW j, Live(tab, j)
  PROVE  /\ Core(tab) /\ Good(tab) /\ Others(tab, j) /\ j \in Jobs /\ j \in tab.all
         /\ tab.ss[j] \notin Submitting
         /\ tab.qhdr[j] # NoQueue /\ tab.qname[j] = tab.qhdr[j]
         /\ tab.st[j] \in LiveStates /\ tab.ss[j] \in Substates
         /\ tab.st[j] # "F"
<1>1. Core(tab) /\ Good(tab) /\ j \in tab.all /\ tab.st[j] \notin HistStates
  BY DEF Live, Good
<1>2. tab \in TableType
  BY <1>1 DEF Core
<1>3. j \in Jobs /\ tab.st[j] \in JobStates /\ tab.ss[j] \in Substates
  BY <1>1, <1>2 DEF TableType
<1>4. Placed(tab, j)
  BY <1>1, <1>3 DEF Good
<1> QED
  BY <1>1, <1>3, <1>4, GoodOthers DEF Placed, LiveStates, HistStates

\* svr_setjobstate of a live job to a live state keeps it live.
LEMMA SetLive ==
  ASSUME NEW tab, NEW j, Live(tab, j), NEW ns \in LiveStates,
         NEW nss \in Substates, nss \notin Submitting
  PROVE  LET r == svr_setjobstate(tab, j, ns, nss) IN
         /\ Changed(tab, r, j, ns, nss) /\ Result(tab, r, j) /\ Live(r, j)
<1> DEFINE r == svr_setjobstate(tab, j, ns, nss)
<1>1. Changed(tab, r, j, ns, nss)
  BY LiveFacts, SetState DEF LiveStates, Submitting
<1>2. /\ Step(tab, r, j) /\ r.st[j] = ns /\ r.ss[j] = nss /\ j \in r.all
      /\ r.qhdr[j] # NoQueue /\ r.qname[j] = r.qhdr[j]
  BY <1>1, LiveFacts DEF Changed
<1>3. Placed(r, j)
  BY <1>2 DEF Placed, LiveStates
<1>4. Good(r)
  BY <1>2, <1>3, LiveFacts, OthersStep, GoodOthers
<1> QED
  BY <1>1, <1>2, <1>4 DEF Result, Live, LiveStates

\* Writing attributes of a live job keeps it live.
LEMMA AttrLive ==
  ASSUME NEW tab, NEW j, Live(tab, j), NEW r \in TableType, SameLinks(tab, r),
         r.qname = tab.qname
  PROVE  Result(tab, r, j) /\ Live(r, j)
<1>1. Good(r) /\ Step(tab, r, j)
  BY LiveFacts, Attributes
<1> QED
  BY <1>1 DEF Result, Live, SameLinks

\* The hold and the checkpoint flag are such attributes.
LEMMA FlagLive ==
  ASSUME NEW tab, NEW j, Live(tab, j)
  PROVE  /\ \A c \in {"no", "set", "made"} :
               LET r == [tab EXCEPT !.chk[j] = c] IN
               Result(tab, r, j) /\ Live(r, j) /\ r.st[j] = tab.st[j] /\ r.ss[j] = tab.ss[j]
         /\ \A b \in BOOLEAN :
               LET r == [tab EXCEPT !.hold[j] = b] IN
               Result(tab, r, j) /\ Live(r, j) /\ r.st[j] = tab.st[j] /\ r.ss[j] = tab.ss[j]
<1>0. tab \in TableType /\ j \in Jobs
  BY LiveFacts DEF Core
<1>1. ASSUME NEW c \in {"no", "set", "made"}
      PROVE  LET r == [tab EXCEPT !.chk[j] = c] IN
             Result(tab, r, j) /\ Live(r, j) /\ r.st[j] = tab.st[j] /\ r.ss[j] = tab.ss[j]
  <2> DEFINE r == [tab EXCEPT !.chk[j] = c]
  <2>1. r \in TableType /\ SameLinks(tab, r) /\ r.qname = tab.qname
    BY <1>0 DEF TableType, SameLinks
  <2> HIDE DEF r
  <2>2. Result(tab, r, j) /\ Live(r, j) /\ r.st[j] = tab.st[j] /\ r.ss[j] = tab.ss[j]
    BY <2>1, AttrLive DEF SameLinks
  <2> QED
    BY <2>2 DEF r
<1>2. ASSUME NEW b \in BOOLEAN
      PROVE  LET r == [tab EXCEPT !.hold[j] = b] IN
             Result(tab, r, j) /\ Live(r, j) /\ r.st[j] = tab.st[j] /\ r.ss[j] = tab.ss[j]
  <2> DEFINE r == [tab EXCEPT !.hold[j] = b]
  <2>1. r \in TableType /\ SameLinks(tab, r) /\ r.qname = tab.qname
    BY <1>0 DEF TableType, SameLinks
  <2> HIDE DEF r
  <2>2. Result(tab, r, j) /\ Live(r, j) /\ r.st[j] = tab.st[j] /\ r.ss[j] = tab.ss[j]
    BY <2>1, AttrLive DEF SameLinks
  <2> QED
    BY <2>2 DEF r
<1> QED
  BY <1>1, <1>2

\* Writing the substate alone of a live job keeps it live.
LEMMA PutLive ==
  ASSUME NEW tab, NEW j, Live(tab, j), NEW nss \in Substates, nss \notin Submitting
  PROVE  LET r == PutState(tab, j, tab.st[j], nss) IN Result(tab, r, j) /\ Live(r, j)
<1> DEFINE ns == tab.st[j]
           r == PutState(tab, j, ns, nss)
<1>0. ns \in LiveStates /\ ns \in JobStates /\ j \in Jobs /\ Core(tab)
  BY LiveFacts DEF LiveStates
<1>1. Changed(tab, r, j, ns, nss)
  BY <1>0, NoMove
<1>2. /\ Step(tab, r, j) /\ r.st[j] = ns /\ r.ss[j] = nss /\ j \in r.all
      /\ r.qhdr[j] # NoQueue /\ r.qname[j] = r.qhdr[j]
  BY <1>1, LiveFacts DEF Changed
<1>3. Placed(r, j)
  BY <1>0, <1>2 DEF Placed, LiveStates
<1>4. Good(r)
  BY <1>2, <1>3, LiveFacts, OthersStep, GoodOthers
<1> QED
  BY <1>0, <1>2, <1>4 DEF Result, Live, LiveStates

\* svr_evaljobstate never sends a live job to a history state.
LEMMA EvalLive ==
  ASSUME NEW tab, NEW j, Live(tab, j), NEW force \in BOOLEAN
  PROVE  LET r == EvalAndSet(tab, j, force) IN
         /\ Result(tab, r, j) /\ Live(r, j)
         /\ r.all = tab.all /\ r.qhdr = tab.qhdr /\ r.qname = tab.qname
<1> DEFINE new == svr_evaljobstate(tab, j, force)
           r == svr_setjobstate(tab, j, new[1], new[2])
<1>1. \E ns \in LiveStates, nss \in Substates \ Submitting : new = <<ns, nss>>
  <2>1. tab.st[j] \in LiveStates /\ tab.ss[j] \in Substates \ Submitting
    BY LiveFacts
  <2>2. \/ new = <<tab.st[j], tab.ss[j]>> \/ new = <<"H", "HELD">>
        \/ new = <<"W", "WAITING">> \/ new = <<"Q", "QUEUED">>
    BY DEF svr_evaljobstate
  <2>3. {"H", "W", "Q"} \subseteq LiveStates
    BY DEF LiveStates, JobStates, HistStates
  <2>4. {"HELD", "WAITING", "QUEUED"} \subseteq Substates \ Submitting
    BY DEF Substates, Submitting
  <2> QED
    BY <2>1, <2>2, <2>3, <2>4
<1>2. PICK ns \in LiveStates, nss \in Substates \ Submitting : new = <<ns, nss>>
  BY <1>1
<1>3. new[1] = ns /\ new[2] = nss
  BY <1>2
<1>4. Changed(tab, r, j, ns, nss) /\ Result(tab, r, j) /\ Live(r, j)
  BY <1>3, SetLive
<1>5. EvalAndSet(tab, j, force) = r
  BY DEF EvalAndSet
<1> QED
  BY <1>4, <1>5 DEF Changed

\* svr_setjob_histinfo turns a linked job into a history job in place.
LEMMA HistInfo ==
  ASSUME NEW tab, NEW j, Good(tab), j \in tab.all, tab.hist,
         NEW type \in {"T_MOV_JOB", "T_FIN_JOB", "T_MOM_DOWN"}, NEW fin \in FinishSubstates
  PROVE  /\ Result(tab, svr_setjob_histinfo(tab, j, type, fin), j)
         /\ type # "T_MOV_JOB" => svr_setjob_histinfo(tab, j, type, fin).st[j] = "F"
<1> DEFINE ns == IF type = "T_MOV_JOB" THEN "M" ELSE "F"
           nss == IF type = "T_MOV_JOB" THEN "MOVED"
                  ELSE IF type = "T_FIN_JOB" THEN fin ELSE "FAILED"
           u == svr_histjob_update(tab, j, ns, nss)
           r == [u EXCEPT !.wait[j] = "no"]
<1>0. Core(tab) /\ j \in Jobs /\ Others(tab, j)
  BY GoodOthers DEF Good, Core, TableType
<1>1. svr_setjob_histinfo(tab, j, type, fin) = r
  BY DEF svr_setjob_histinfo
<1>2. ns \in HistStates /\ ns \in JobStates /\ nss \in Substates /\ nss \notin Submitting
  BY DEF HistStates, JobStates, Substates, Submitting, FinishSubstates
<1>f. type # "T_MOV_JOB" => ns = "F"
  OBVIOUS
<1> HIDE DEF ns, nss
<1>3. Changed(tab, u, j, ns, nss)
  BY <1>0, <1>2, HistUpdate
<1>4. /\ Step(tab, u, j) /\ Core(u) /\ u.st[j] = ns /\ u.ss[j] = nss /\ j \in u.all
      /\ u.hist /\ u.qname = tab.qname /\ u.qhdr = tab.qhdr
  BY <1>3 DEF Changed, Step
<1> HIDE DEF u
<1>5. Placed(u, j)
  BY <1>0, <1>2, <1>4 DEF Placed, HistStates, Good
<1>6. Good(u)
  BY <1>0, <1>4, <1>5, OthersStep, GoodOthers
<1>7. u \in TableType
  BY <1>4 DEF Core
<1>8. r \in TableType
  BY <1>7 DEF TableType
<1>9. SameLinks(u, r) /\ r.qname = u.qname
  BY <1>7 DEF TableType, SameLinks
<1> HIDE DEF r
<1>10. Step(u, r, j) /\ Good(r)
  BY <1>4, <1>6, <1>8, <1>9, Attributes
<1>11. Step(tab, r, j)
  BY <1>4, <1>10, StepTransitive
<1>12. r.st[j] = ns
  BY <1>4, <1>9 DEF SameLinks
<1> QED
  BY <1>1, <1>f, <1>10, <1>11, <1>12 DEF Result

\* job_purge of any job of a right table.
LEMMA PurgeLinked ==
  ASSUME NEW tab, NEW j \in Jobs, Good(tab)
  PROVE  Result(tab, job_purge(tab, j), j) /\ j \notin job_purge(tab, j).all
<1>1. Others(tab, j) /\ Placed(tab, j)
  BY GoodOthers DEF Good
<1>2. tab.ss[j] \in {"TRANSIN", "TRANSICM"} => j \notin tab.all
  BY <1>1 DEF Placed, Submitting
<1> QED
  BY <1>1, <1>2, Purge DEF Result

\* svr_saveorpurge_finjobhist of a linked job.
LEMMA SaveOrPurge ==
  ASSUME NEW tab, NEW j, Good(tab), j \in tab.all, NEW dh \in BOOLEAN,
         NEW fin \in FinishSubstates
  PROVE  Result(tab, svr_saveorpurge_finjobhist(tab, j, dh, fin), j)
<1>1. j \in Jobs
  BY DEF Good, Core, TableType
<1>2. CASE tab.hist /\ ~dh
  BY <1>2, HistInfo DEF svr_saveorpurge_finjobhist
<1>3. CASE ~(tab.hist /\ ~dh)
  BY <1>1, <1>3, PurgeLinked DEF svr_saveorpurge_finjobhist
<1> QED
  BY <1>2, <1>3

\* Results on the same job compose.
LEMMA ResultTransitive ==
  ASSUME NEW tab, NEW r, NEW u, NEW j, Result(tab, r, j), Result(r, u, j)
  PROVE  Result(tab, u, j)
BY StepTransitive DEF Result

\* end a live job: a state for the record, then history or oblivion
LEMMA EndLive ==
  ASSUME NEW tab, NEW j, Live(tab, j), NEW ns \in LiveStates, NEW nss \in Substates,
         nss \notin Submitting, NEW dh \in BOOLEAN, NEW fin \in FinishSubstates
  PROVE  Result(tab, svr_saveorpurge_finjobhist(svr_setjobstate(tab, j, ns, nss), j, dh, fin), j)
<1> DEFINE u == svr_setjobstate(tab, j, ns, nss)
<1>1. Result(tab, u, j) /\ Live(u, j)
  BY SetLive
<1>2. Good(u) /\ j \in u.all
  BY <1>1 DEF Live
<1> HIDE DEF u
<1>3. Result(u, svr_saveorpurge_finjobhist(u, j, dh, fin), j)
  BY <1>2, SaveOrPurge
<1>4. Result(tab, svr_saveorpurge_finjobhist(u, j, dh, fin), j)
  BY <1>1, <1>3, ResultTransitive
<1> QED
  BY <1>4 DEF u

\* job_abt of a live job, whatever MoM answers.
LEMMA Abort ==
  ASSUME NEW tab, NEW j, Live(tab, j), NEW killed \in BOOLEAN, NEW dh \in BOOLEAN,
         NEW fin \in FinishSubstates
  PROVE  Result(tab, job_abt(tab, j, killed, dh, fin), j)
<1>1. {"R", "E"} \subseteq LiveStates /\ "ABORT" \in Substates /\ "ABORT" \notin Submitting
  BY DEF LiveStates, JobStates, HistStates, Substates, Submitting
<1>2. tab.st[j] # "F" /\ Result(tab, tab, j)
  BY LiveFacts DEF Result, Step, SameBut
<1>3. CASE tab.st[j] = "R" /\ killed
  <2>1. job_abt(tab, j, killed, dh, fin) = svr_setjobstate(tab, j, "R", "ABORT")
    BY <1>3 DEF job_abt
  <2> QED
    BY <1>1, <2>1, SetLive
<1>4. CASE tab.st[j] = "R" /\ ~killed
  <2>1. job_abt(tab, j, killed, dh, fin)
          = svr_saveorpurge_finjobhist(svr_setjobstate(tab, j, "R", "ABORT"), j, dh, fin)
    BY <1>4 DEF job_abt
  <2> QED
    BY <1>1, <2>1, EndLive
<1>5. CASE tab.st[j] = "T" /\ tab.ss[j] = "TRNOUT"
  BY <1>2, <1>5 DEF job_abt
<1>6. CASE tab.st[j] # "R" /\ ~(tab.st[j] = "T" /\ tab.ss[j] = "TRNOUT")
  <2>1. job_abt(tab, j, killed, dh, fin)
          = svr_saveorpurge_finjobhist(svr_setjobstate(tab, j, "E", "ABORT"), j, dh, fin)
    BY <1>2, <1>6 DEF job_abt
  <2> QED
    BY <1>1, <2>1, EndLive
<1> QED
  BY <1>3, <1>4, <1>5, <1>6

\* take a job out of its lists, name a queue, link it again
LEMMA Relink ==
  ASSUME NEW tab, NEW j, Live(tab, j), NEW q \in tab.ques
  PROVE  Result(tab, local_move(tab, j, q), j)
<1> DEFINE d == svr_dequejob(tab, j)
           e == [d EXCEPT !.qname[j] = q]
           r == svr_enquejob(e, j)
<1>0. Core(tab) /\ j \in Jobs /\ q \in Queues /\ q # NoQueue
  BY LiveFacts, TableAssumption DEF Core, TableType
<1>1. /\ Step(tab, d, j) /\ Core(d) /\ d.st = tab.st /\ d.ss = tab.ss
      /\ j \notin d.all /\ d.qhdr[j] = NoQueue /\ d.ques = tab.ques
  BY <1>0, Unlink, Dequeue DEF Step
<1>2. d \in TableType
  BY <1>1 DEF Core
<1> HIDE DEF d
<1>3. /\ e \in TableType /\ SameLinks(d, e) /\ e.qname[j] = q
      /\ \A k \in Jobs \ {j} : e.qname[k] = d.qname[k]
  BY <1>0, <1>2 DEF TableType, SameLinks
<1> HIDE DEF e
<1>4. Step(d, e, j)
  BY <1>1, <1>3, Attributes
<1>5. Core(e) /\ j \notin e.all /\ e.qhdr[j] = NoQueue /\ ~UnknownQueue(e, j)
  BY <1>1, <1>3, <1>4 DEF Step, SameLinks, UnknownQueue
<1>6. /\ Step(e, r, j) /\ r.st = e.st /\ r.ss = e.ss /\ j \in r.all
      /\ r.qhdr[j] = q /\ r.qname[j] = q
  BY <1>0, <1>3, <1>5, Enqueue
<1> HIDE DEF r
<1>7. Step(tab, r, j)
  BY <1>1, <1>4, <1>6, StepTransitive
<1>8. r.st[j] = tab.st[j] /\ r.ss[j] = tab.ss[j]
  BY <1>1, <1>3, <1>6 DEF SameLinks
<1>9. Placed(r, j)
  BY <1>0, <1>6, <1>8, LiveFacts DEF Placed, LiveStates
<1>10. Good(r)
  BY <1>7, <1>9, LiveFacts, OthersStep, GoodOthers
<1>11. local_move(tab, j, q) = r
  BY DEF local_move, r, e, d
<1> QED
  BY <1>7, <1>10, <1>11 DEF Result

\* job_route of a live job, whatever destination takes it.
LEMMA Route ==
  ASSUME NEW tab, NEW j, Live(tab, j), NEW dest \in tab.ques \cup {"net", "later", "rejected"}
  PROVE  Result(tab, job_route(tab, j, dest), j)
<1>0. tab.ques \subseteq Queues /\ Result(tab, tab, j)
  BY LiveFacts DEF Core, TableType, Result, Step, SameBut
<1>1. CASE dest \in tab.ques
  <2>1. job_route(tab, j, dest) = local_move(tab, j, dest)
    BY <1>0, <1>1, TableAssumption DEF job_route
  <2> QED
    BY <1>1, <2>1, Relink
<1>2. CASE dest = "net"
  <2>1. "T" \in LiveStates /\ "TRNOUT" \in Substates /\ "TRNOUT" \notin Submitting
    BY DEF LiveStates, JobStates, HistStates, Substates, Submitting
  <2> QED
    BY <1>2, <2>1, SetLive, TableAssumption DEF job_route, net_move
<1>3. CASE dest = "later"
  BY <1>0, <1>3, TableAssumption DEF job_route
<1>4. CASE dest = "rejected"
  <2>1. "FINISHED" \in FinishSubstates
    BY DEF FinishSubstates
  <2> QED
    BY <1>4, <2>1, Abort, TableAssumption DEF job_route
<1> QED
  BY <1>0, <1>1, <1>2, <1>3, <1>4

\* Evaluating leaves history jobs alone, and without force jobs being submitted too.
LEMMA EvalAny ==
  ASSUME NEW tab, NEW j \in Jobs, Good(tab), NEW force \in BOOLEAN,
         ~force \/ tab.st[j] \in HistStates \/ Live(tab, j)
  PROVE  LET r == EvalAndSet(tab, j, force) IN
         /\ Result(tab, r, j)
         /\ ~Live(tab, j) => r.st[j] = tab.st[j] /\ r.ss[j] = tab.ss[j] /\ r.all = tab.all
<1> DEFINE r == EvalAndSet(tab, j, force)
           p == PutState(tab, j, tab.st[j], tab.ss[j])
<1>0. Core(tab) /\ tab.st[j] \in JobStates /\ tab.ss[j] \in Substates /\ Placed(tab, j)
  BY DEF Good, Core, TableType
<1>1. CASE Live(tab, j)
  BY <1>1, EvalLive
<1>2. CASE ~Live(tab, j)
  <2>1. tab.st[j] \in HistStates \cup {"R", "T"}
    BY <1>0, <1>2 DEF Live, Placed
  <2>2. svr_evaljobstate(tab, j, force) = <<tab.st[j], tab.ss[j]>>
    BY <1>2, <2>1 DEF svr_evaljobstate
  <2>3. r = tab \/ r = p
    <3>1. r = svr_setjobstate(tab, j, tab.st[j], tab.ss[j])
      <4> DEFINE new == svr_evaljobstate(tab, j, force)
      <4>1. r = svr_setjobstate(tab, j, new[1], new[2])
        BY DEF EvalAndSet
      <4>2. new[1] = tab.st[j] /\ new[2] = tab.ss[j]
        BY <2>2
      <4> HIDE DEF r, new
      <4> QED
        BY <4>1, <4>2
    <3> HIDE DEF r, p
    <3> QED
      BY <3>1 DEF svr_setjobstate, p
  <2>4. Changed(tab, p, j, tab.st[j], tab.ss[j])
    BY <1>0, NoMove
  <2>5. Step(tab, p, j) /\ p.st[j] = tab.st[j] /\ p.ss[j] = tab.ss[j] /\ p.all = tab.all
        /\ p.qhdr = tab.qhdr /\ p.qname = tab.qname /\ p.hist = tab.hist
    BY <2>4 DEF Changed, Step
  <2>6. Placed(p, j)
    BY <1>0, <2>5 DEF Placed
  <2>7. Result(tab, p, j)
    BY <2>5, <2>6, OthersStep, GoodOthers DEF Result
  <2>8. Result(tab, tab, j)
    BY <1>0 DEF Result, Step, SameBut
  <2> HIDE DEF p, r
  <2> QED
    BY <1>2, <2>3, <2>5, <2>7, <2>8 DEF r
<1> QED
  BY <1>1, <1>2

-----------------------------------------------------------------------------
(* The handlers.                                                            *)

\* what HistoryIsFinal says of one step
Final(tab, r) ==
  \A k \in tab.all : tab.st[k] \in HistStates =>
     k \notin r.all \/ r.st[k] \in {tab.st[k], "F"}

\* what each handler delivers
OK(tab, r) == Good(r) /\ Final(tab, r)

\* A routine applied to a live job, or that drops or keeps its job, is final.
LEMMA LiveResult ==
  ASSUME NEW tab, NEW r, NEW j, Result(tab, r, j), tab.all \subseteq Jobs,
         \/ Live(tab, j)
         \/ j \notin tab.all
         \/ j \notin r.all
         \/ r.st[j] \in {tab.st[j], "F"}
  PROVE  OK(tab, r)
BY DEF OK, Result, Step, SameBut, Final, Live

\* The parts of Good most proofs need.
LEMMA AllJobs ==
  ASSUME NEW tab, Good(tab)
  PROVE  tab.all \subseteq Jobs /\ tab \in TableType /\ Core(tab)
BY DEF Good, Core, TableType

\* A routine applied to a live job delivers what a handler must.
LEMMA LiveOK ==
  ASSUME NEW tab, NEW r, NEW j, Live(tab, j), Result(tab, r, j)
  PROVE  OK(tab, r)
BY LiveResult, AllJobs DEF Live

\* Holds, releases and execution times.
LEMMA Holding ==
  ASSUME Good(t), HoldAndWait
  PROVE  OK(t, t')
<1>0. t \in TableType /\ Core(t) /\ t.all \subseteq Jobs
  BY AllJobs
<1>1. PICK j \in Jobs : req_holdjob(j) \/ req_releasejob(j) \/ exectime_passes(j) \/ job_wait_over(j)
  BY DEF HoldAndWait
<1>2. ASSUME NEW b \in BOOLEAN, Requestable(j),
             t' = EvalAndSet([t EXCEPT !.hold[j] = b], j, FALSE)
      PROVE  OK(t, t')
  <2> DEFINE h == [t EXCEPT !.hold[j] = b]
  <2>1. h \in TableType /\ SameLinks(t, h) /\ h.qname = t.qname
    BY <1>0 DEF TableType, SameLinks
  <2> HIDE DEF h
  <2>2. Step(t, h, j) /\ Good(h)
    BY <1>0, <2>1, Attributes
  <2>3. Live(t, j) /\ Live(h, j)
    BY <1>2, <2>1, <2>2 DEF Requestable, Live, SameLinks
  <2>4. Result(h, t', j) /\ Result(t, h, j)
    BY <1>2, <2>2, <2>3, EvalLive DEF h, Result
  <2> QED
    BY <2>3, <2>4, ResultTransitive, LiveOK
<1>3. CASE req_holdjob(j)
  <2> DEFINE held == [t EXCEPT !.hold[j] = TRUE]
             c == IF t.chk[j] = "no" THEN "set" ELSE t.chk[j]
  <2>1. CASE t' = [held EXCEPT !.chk[j] = c]
    <3>1. Live(t, j)
      BY <1>3 DEF req_holdjob, Requestable, Live
    <3>2. Result(t, held, j) /\ Live(held, j)
      BY <3>1, FlagLive
    <3>3. c \in {"no", "set", "made"}
      BY <1>0 DEF TableType
    <3> HIDE DEF held, c
    <3>4. Result(held, t', j)
      BY <2>1, <3>2, <3>3, FlagLive
    <3> QED
      BY <3>1, <3>2, <3>4, ResultTransitive, LiveOK
  <2>2. CASE t' = EvalAndSet(held, j, FALSE)
    BY <1>2, <1>3, <2>2 DEF req_holdjob
  <2> QED
    BY <1>3, <2>1, <2>2 DEF req_holdjob
<1>4. CASE req_releasejob(j)
  BY <1>2, <1>4 DEF req_releasejob
<1>5. CASE exectime_passes(j)
  <2>1. t' = [t EXCEPT !.wait[j] = "due"]
    BY <1>5 DEF exectime_passes
  <2>2. t' \in TableType /\ SameLinks(t, t') /\ t'.qname = t.qname
    BY <1>0, <2>1 DEF TableType, SameLinks
  <2>3. Good(t')
    BY <1>0, <2>2, Attributes
  <2> QED
    BY <2>2, <2>3 DEF OK, Final, SameLinks
<1>6. CASE job_wait_over(j)
  <2> DEFINE h == [t EXCEPT !.wait[j] = "no"]
  <2>0. t' = EvalAndSet(h, j, FALSE)
    BY <1>6 DEF job_wait_over
  <2>1. h \in TableType /\ SameLinks(t, h) /\ h.qname = t.qname
    BY <1>0 DEF TableType, SameLinks
  <2> HIDE DEF h
  <2>2. Step(t, h, j) /\ Good(h)
    BY <1>0, <2>1, Attributes
  <2>3. /\ Result(h, t', j)
        /\ ~Live(h, j) => t'.st[j] = h.st[j] /\ t'.ss[j] = h.ss[j] /\ t'.all = h.all
    BY <2>0, <2>2, EvalAny
  <2>4. Result(t, t', j)
    BY <2>2, <2>3, ResultTransitive DEF Result
  <2> QED
    BY <1>0, <2>1, <2>3, <2>4, LiveResult DEF Live, SameLinks
<1> QED
  BY <1>1, <1>3, <1>4, <1>5, <1>6

\* Submission: a job is linked only by a commit that succeeds.
LEMMA SubmissionOK ==
  ASSUME Good(t), Submission
  PROVE  OK(t, t')
<1>0. t \in TableType /\ Core(t) /\ t.all \subseteq Jobs
  BY AllJobs
<1>a. {"T", "Q", "H", "W"} \subseteq LiveStates /\ LiveStates \subseteq JobStates
  BY DEF LiveStates, JobStates, HistStates
<1>b. Submitting \subseteq Substates /\ {"QUEUED", "HELD", "WAITING"} \subseteq Substates \ Submitting
  BY DEF Substates, Submitting
<1>1. ASSUME NEW j \in Jobs, NEW q \in Queues, NEW hold \in BOOLEAN, NEW wait \in BOOLEAN,
             req_quejob(j, q, hold, wait)
      PROVE  OK(t, t')
  <2> DEFINE p == PutState(t, j, "T", "TRANSIN")
  <2>1. t.ss[j] = "none" /\ t' = [p EXCEPT !.hold[j] = hold,
                       !.wait[j] = IF wait THEN "future" ELSE "no", !.qname[j] = q]
    BY <1>1 DEF req_quejob
  <2>2. j \notin t.all
    BY <2>1 DEF Good, Placed, Submitting
  <2>3. Changed(t, p, j, "T", "TRANSIN")
    BY <1>0, <1>a, <1>b, <2>2, NoMove DEF Submitting
  <2>4. Step(t, p, j) /\ Core(p) /\ p.st[j] = "T" /\ p.ss[j] = "TRANSIN" /\ j \notin p.all
    BY <2>2, <2>3 DEF Changed, Step
  <2> HIDE DEF p
  <2>5. p \in TableType
    BY <2>4 DEF Core
  <2>6. /\ t' \in TableType /\ SameLinks(p, t')
        /\ \A k \in Jobs \ {j} : t'.qname[k] = p.qname[k]
    BY <2>1, <2>5 DEF TableType, SameLinks
  <2>7. Step(t, t', j) /\ Core(t')
    BY <2>4, <2>6, Attributes, StepTransitive
  <2>8. Placed(t', j)
    BY <2>4, <2>6, <2>7 DEF Placed, Submitting, SameLinks, Core, Linked
  <2>9. Result(t, t', j)
    BY <2>7, <2>8, OthersStep, GoodOthers DEF Result
  <2> QED
    BY <1>0, <2>2, <2>9, LiveResult
<1>p. CASE UNCHANGED t
  BY <1>p DEF OK, Final
<1>2. ASSUME NEW j \in Jobs, NEW outcome, NEW dest \in Destinations,
             req_commit(j, outcome, dest), outcome # "perm"
      PROVE  OK(t, t')
  <2> DEFINE cm == PutState(t, j, "T", "TRANSICM")
             ev == EvalAndSet(cm, j, TRUE)
             en == svr_enquejob(ev, j)
  <2>1. t.ss[j] = "TRANSIN"
    BY <1>2 DEF req_commit
  <2>2. j \notin t.all /\ t.st[j] = "T"
    BY <2>1 DEF Good, Placed, Submitting
  <2>3. Changed(t, cm, j, "T", "TRANSICM")
    BY <1>0, <1>a, <1>b, <2>2, NoMove DEF Submitting
  <2>4. /\ Step(t, cm, j) /\ Core(cm) /\ cm.st[j] = "T" /\ cm.ss[j] = "TRANSICM"
        /\ cm.all = t.all /\ cm.qname = t.qname /\ cm.qhdr = t.qhdr
    BY <2>3 DEF Changed, Step
  <2>5. \E ns \in {"Q", "H", "W"}, nss \in {"QUEUED", "HELD", "WAITING"} :
           ev = svr_setjobstate(cm, j, ns, nss)
    <3> DEFINE new == svr_evaljobstate(cm, j, TRUE)
    <3> HIDE DEF cm
    <3>1. ev = svr_setjobstate(cm, j, new[1], new[2])
      BY DEF EvalAndSet
    <3>2. new = <<"H", "HELD">> \/ new = <<"W", "WAITING">> \/ new = <<"Q", "QUEUED">>
      BY <2>4 DEF svr_evaljobstate, HistStates
    <3> HIDE DEF new, ev
    <3> QED
      BY <3>1, <3>2
  <2>6. PICK ns \in {"Q", "H", "W"}, nss \in {"QUEUED", "HELD", "WAITING"} :
           ev = svr_setjobstate(cm, j, ns, nss)
    BY <2>5
  <2> HIDE DEF cm
  <2>7. Changed(cm, ev, j, ns, nss)
    <3>1. ns \in JobStates /\ nss \in Substates /\ j \notin cm.all
      BY <1>a, <1>b, <2>2, <2>4
    <3>2. /\ Core(cm) /\ cm.st[j] # "F" /\ (j \notin cm.all <=> cm.ss[j] = "TRANSICM")
      BY <2>4, <3>1
    <3>3. Changed(cm, svr_setjobstate(cm, j, ns, nss), j, ns, nss)
      BY <3>1, <3>2, SetState
    <3> QED
      BY <2>6, <3>3
  <2>8. /\ Step(cm, ev, j) /\ Core(ev) /\ ev.st[j] = ns /\ ev.ss[j] = nss /\ j \notin ev.all
        /\ ev.qname = t.qname /\ ev.ques = t.ques /\ ev.qhdr[j] = t.qhdr[j]
    BY <2>2, <2>4, <2>7 DEF Changed, Step
  <2> HIDE DEF ev
  <2>9. t.qhdr[j] = NoQueue
    BY <1>0, <2>2 DEF Core, Linked
  <2>10. /\ Step(ev, en, j) /\ en.st[j] = ns /\ en.ss[j] = nss /\ en.qname = t.qname
         /\ ~UnknownQueue(t, j) => j \in en.all /\ en.qhdr[j] = t.qname[j]
    BY <2>8, <2>9, Enqueue DEF UnknownQueue
  <2> HIDE DEF en
  <2>11. Others(cm, j) /\ Others(en, j) /\ Step(t, en, j)
    BY <2>4, <2>8, <2>10, OthersStep, GoodOthers, StepTransitive
  <2>12. Result(t, job_purge(cm, j), j)
    BY <2>2, <2>4, <2>11, Purge, StepTransitive DEF Result
  <2>13. Result(t, job_purge(en, j), j)
    BY <2>10, <2>11, Purge, StepTransitive DEF Result
  <2>14. ASSUME ~UnknownQueue(t, j)
         PROVE  Result(t, en, j) /\ Live(en, j)
    <3>1. t.qname[j] # NoQueue
      BY <1>0, <2>14, TableAssumption DEF UnknownQueue, TableType
    <3>2. Placed(en, j)
      BY <1>b, <2>10, <2>14, <3>1 DEF Placed, HistStates
    <3> QED
      BY <2>10, <2>11, <2>14, <3>2, GoodOthers DEF Result, Live, HistStates
  <2>15. Result(t, t', j)
    <3>1. en.ques = t.ques
      BY <2>11 DEF Step
    <3>2. ASSUME ~UnknownQueue(t, j)
          PROVE  Result(t, job_route(en, j, dest), j)
      <4>1. Result(en, job_route(en, j, dest), j)
        BY <2>14, <3>1, <3>2, Route DEF Destinations
      <4> QED
        BY <2>14, <3>2, <4>1, ResultTransitive
    <3>3. \/ t' = job_purge(cm, j) \/ t' = job_purge(en, j)
          \/ ~UnknownQueue(t, j) /\ (t' = en \/ t' = job_route(en, j, dest))
      <4>1. t' = IF outcome = "entity" THEN job_purge(cm, j)
                 ELSE IF \/ outcome = "failed" \/ UnknownQueue(t, j)
                         \/ t.qname[j] \in RouteQueues /\ dest = "rejected"
                 THEN job_purge(en, j)
                 ELSE IF t.qname[j] \in RouteQueues THEN job_route(en, j, dest) ELSE en
        BY <1>2 DEF req_commit, en, ev, cm
      <4> QED
        BY <4>1
    <3> QED
      BY <2>12, <2>13, <2>14, <3>2, <3>3
  <2> QED
    BY <1>0, <2>2, <2>15, LiveResult
<1>3. ASSUME NEW j \in Jobs, close_quejob(j)
      PROVE  OK(t, t')
  <2>1. Result(t, t', j) /\ j \notin t'.all
    BY <1>3, PurgeLinked DEF close_quejob
  <2> QED
    BY <1>0, <2>1, LiveResult
<1>4. ASSUME NEW j \in Jobs, NEW outcome, NEW dest \in Destinations,
             req_commit(j, outcome, dest), outcome = "perm"
      PROVE  OK(t, t')
  BY <1>4, <1>p DEF req_commit
<1> QED
  BY <1>1, <1>2, <1>3, <1>4 DEF Submission

\* force_reque puts a live job back.
LEMMA RequeLive ==
  ASSUME NEW tab, NEW j, Live(tab, j)
  PROVE  Result(tab, force_reque(tab, j), j)
<1> DEFINE c == [tab EXCEPT !.chk[j] = "no"]
<1>1. Result(tab, c, j) /\ Live(c, j)
  BY FlagLive
<1> HIDE DEF c
<1>2. Result(c, EvalAndSet(c, j, TRUE), j)
  BY <1>1, EvalLive
<1> QED
  BY <1>1, <1>2, ResultTransitive DEF force_reque, c

\* A job whose last MoM has discarded it, in whatever state it is.
LEMMA DiscardedOK ==
  ASSUME NEW tab, NEW j, Good(tab), j \in tab.all
  PROVE  Result(tab, Discarded(tab, j), j) /\ OK(tab, Discarded(tab, j))
<1> DEFINE d == [tab EXCEPT !.disc[j] = "no"]
           q == force_reque(d, j)
           h == svr_setjob_histinfo(d, j, "T_MOM_DOWN", "FAILED")
           r == Discarded(tab, j)
<1>0. tab \in TableType /\ Core(tab) /\ tab.all \subseteq Jobs /\ j \in Jobs
  BY AllJobs
<1>1. d \in TableType /\ SameLinks(tab, d) /\ d.qname = tab.qname
  BY <1>0 DEF TableType, SameLinks
<1>2. \/ r = d
      \/ r = q
      \/ tab.hist /\ r = h
      \/ r = job_purge(d, j)
  BY DEF Discarded
<1> HIDE DEF d
<1>3. Step(tab, d, j) /\ Good(d) /\ Result(tab, d, j)
  BY <1>0, <1>1, Attributes DEF Result
<1>4. /\ j \in d.all /\ d.st[j] = tab.st[j] /\ d.hist = tab.hist /\ d.all \subseteq Jobs
      /\ Live(tab, j) => Live(d, j)
  BY <1>0, <1>1, <1>3 DEF SameLinks, Live
<1> HIDE DEF q, h, r
<1>5. ASSUME NEW u, Result(d, u, j), \/ Live(tab, j)
                                     \/ j \notin u.all
                                     \/ u.st[j] \in {tab.st[j], "F"}
      PROVE  Result(tab, u, j) /\ OK(tab, u)
  BY <1>0, <1>3, <1>5, ResultTransitive, LiveResult
<1>6. CASE r = d
  BY <1>0, <1>3, <1>4, <1>6, LiveResult DEF r
<1>7. CASE r = q
  <2>1. CASE Live(tab, j)
    <3>1. Result(d, q, j)
      BY <1>4, <2>1, RequeLive DEF q
    <3> QED
      BY <1>5, <1>7, <2>1, <3>1 DEF r
  <2>2. CASE tab.st[j] \in HistStates
    <3> DEFINE c == [d EXCEPT !.chk[j] = "no"]
    <3>1. c \in TableType /\ SameLinks(d, c) /\ c.qname = d.qname
      BY <1>0, <1>1 DEF TableType, SameLinks
    <3>2. q = EvalAndSet(c, j, TRUE)
      BY DEF q, force_reque
    <3> HIDE DEF c
    <3>3. Step(d, c, j) /\ Good(c) /\ c.st[j] = tab.st[j]
      BY <1>0, <1>3, <1>4, <3>1, Attributes, AllJobs DEF SameLinks
    <3>4. ~Live(c, j) /\ Result(d, c, j)
      BY <2>2, <3>3 DEF Live, Result
    <3>5. Result(c, q, j) /\ q.st[j] = c.st[j]
      BY <1>0, <2>2, <3>2, <3>3, <3>4, EvalAny
    <3>6. Result(d, q, j) /\ q.st[j] \in {tab.st[j], "F"}
      BY <3>3, <3>4, <3>5, ResultTransitive
    <3> QED
      BY <1>5, <1>7, <3>6 DEF r
  <2> QED
    BY <2>1, <2>2 DEF Live
<1>8. CASE tab.hist /\ r = h
  <2>1. "FAILED" \in FinishSubstates
    BY DEF FinishSubstates
  <2>2. Result(d, h, j) /\ h.st[j] = "F"
    BY <1>3, <1>4, <1>8, <2>1, HistInfo DEF h
  <2> QED
    BY <1>5, <1>8, <2>2 DEF r
<1>9. CASE r = job_purge(d, j)
  <2>1. Result(d, job_purge(d, j), j) /\ j \notin job_purge(d, j).all
    BY <1>0, <1>3, PurgeLinked
  <2> QED
    BY <1>5, <1>9, <2>1 DEF r
<1> QED
  BY <1>2, <1>6, <1>7, <1>8, <1>9

\* discard_job of a live job.
LEMMA Discard ==
  ASSUME NEW tab, NEW j, Live(tab, j), NEW waits \in BOOLEAN
  PROVE  Result(tab, discard_job(tab, j, waits), j)
<1> DEFINE w == [tab EXCEPT !.disc[j] = "now"]
<1>0. Core(tab) /\ tab \in TableType /\ j \in Jobs /\ Good(tab) /\ j \in tab.all
  BY LiveFacts DEF Core
<1>1. w \in TableType /\ SameLinks(tab, w) /\ w.qname = tab.qname
  BY <1>0 DEF TableType, SameLinks
<1>2. discard_job(tab, j, waits) \in {tab, w, Discarded(tab, j)}
  BY DEF discard_job
<1> HIDE DEF w
<1>3. Result(tab, w, j) /\ Result(tab, tab, j)
  BY <1>0, <1>1, AttrLive DEF Result, Step, SameBut
<1> QED
  BY <1>0, <1>2, <1>3, DiscardedOK

\* Running: every handler ends in a state change or in the end of a live job.
LEMMA RunningOK ==
  ASSUME Good(t), ~HookDelete, Running
  PROVE  OK(t, t')
<1>0. t \in TableType /\ Core(t) /\ t.all \subseteq Jobs
  BY AllJobs
<1>a. {"R", "E", "T", "Q", "H"} \subseteq LiveStates
  BY DEF LiveStates, JobStates, HistStates
<1>b. {"PRERUN", "RUNNING", "SUSPEND", "SCHSUSP", "RERUN", "RERUN1", "RERUN2", "RERUN3",
       "EXITING", "STAGEOUT", "STAGEDEL", "EXITED", "TERM", "HELD"} \subseteq Substates \ Submitting
  BY DEF Substates, Submitting
<1>c. ASSUME NEW j \in t.all, t.st[j] \in {"R", "E"}
      PROVE  Live(t, j)
  BY <1>c DEF Live, HistStates
<1>1. ASSUME NEW j \in Jobs, NEW sent \in BOOLEAN, req_runjob(j, sent)
      PROVE  OK(t, t')
  <2> DEFINE old == [t EXCEPT !.disc[j] = IF t.disc[j] = "no" THEN "no" ELSE "old"]
             run == svr_setjobstate(old, j, "R", "PRERUN")
  <2>1. Live(t, j)
    BY <1>1 DEF req_runjob, Requestable, Live
  <2>a. old \in TableType /\ SameLinks(t, old) /\ old.qname = t.qname
    BY <1>0 DEF TableType, SameLinks
  <2>b. t' = run \/ t' = EvalAndSet(run, j, TRUE)
    BY <1>1 DEF req_runjob
  <2> HIDE DEF old
  <2>c. Result(t, old, j) /\ Live(old, j)
    BY <2>1, <2>a, AttrLive
  <2>2. Result(t, run, j) /\ Live(run, j)
    BY <1>a, <1>b, <2>c, SetLive, ResultTransitive
  <2> HIDE DEF run
  <2>3. Result(run, EvalAndSet(run, j, TRUE), j)
    BY <2>2, EvalLive
  <2> QED
    BY <2>1, <2>2, <2>3, <2>b, ResultTransitive, LiveOK
<1>2. ASSUME NEW j \in Jobs, job_is_running(j)
      PROVE  OK(t, t')
  BY <1>2, <1>a, <1>b, <1>c, SetLive, LiveOK DEF job_is_running
<1>3. ASSUME NEW j \in Jobs, NEW hd \in BOOLEAN, NEW dh \in BOOLEAN,
             post_sendmom_failed(j, hd, dh)
      PROVE  OK(t, t')
  <2>1. Live(t, j) /\ t' = EvalAndSet(t, j, TRUE)
    BY <1>3, <1>c DEF post_sendmom_failed
  <2> QED
    BY <2>1, EvalLive, LiveOK
<1>4. ASSUME NEW j \in Jobs, NEW ss \in {"RUNNING", "SUSPEND", "SCHSUSP"}, post_signal_req(j, ss)
      PROVE  OK(t, t')
  BY <1>4, <1>a, <1>b, <1>c, SetLive, LiveOK DEF post_signal_req
<1>5. ASSUME NEW j \in Jobs, req_rerunjob2(j)
      PROVE  OK(t, t')
  <2> DEFINE c == [t EXCEPT !.chk[j] = "no"]
  <2>1. Live(t, j) /\ t' = svr_setjobstate(c, j, "R", "RERUN")
    BY <1>5, <1>c DEF req_rerunjob2
  <2>2. Result(t, c, j) /\ Live(c, j)
    BY <2>1, FlagLive
  <2> HIDE DEF c
  <2>3. Result(c, t', j)
    BY <1>a, <1>b, <2>1, <2>2, SetLive
  <2> QED
    BY <2>1, <2>2, <2>3, ResultTransitive, LiveOK
<1>6. ASSUME NEW j \in Jobs, NEW rerunable \in BOOLEAN, NEW waits \in BOOLEAN,
             node_down_requeue(j, rerunable, waits)
      PROVE  OK(t, t')
  <2> DEFINE p == PutState(t, j, t.st[j], "RERUN3")
             m == IF rerunable THEN p ELSE t
  <2>1. Live(t, j) /\ t' = discard_job(m, j, waits)
    BY <1>6, <1>c DEF node_down_requeue
  <2>2. Result(t, p, j) /\ Live(p, j)
    BY <1>b, <2>1, PutLive
  <2>3. Result(t, t, j)
    BY <1>0 DEF Result, Step, SameBut
  <2> HIDE DEF p
  <2>4. Result(t, m, j) /\ Live(m, j)
    BY <2>1, <2>2, <2>3
  <2> HIDE DEF m
  <2>5. Result(m, t', j)
    BY <2>1, <2>4, Discard
  <2> QED
    BY <2>1, <2>4, <2>5, ResultTransitive, LiveOK
<1>7. ASSUME NEW j \in Jobs, NEW mig \in BOOLEAN, post_hold(j, mig)
      PROVE  OK(t, t')
  <2> DEFINE m == IF mig THEN "no" ELSE "made"
             c == [t EXCEPT !.chk[j] = m]
  <2>1. Live(t, j) /\ t' = PutState(c, j, t.st[j], "RERUN")
    BY <1>7 DEF post_hold, Live
  <2>2. m \in {"no", "set", "made"}
    OBVIOUS
  <2> HIDE DEF m
  <2>3. Result(t, c, j) /\ Live(c, j) /\ c.st[j] = t.st[j]
    <3>1. \A x \in {"no", "set", "made"} :
             LET r == [t EXCEPT !.chk[j] = x] IN
             Result(t, r, j) /\ Live(r, j) /\ r.st[j] = t.st[j] /\ r.ss[j] = t.ss[j]
      BY <2>1, FlagLive
    <3> QED
      BY <2>2, <3>1
  <2> HIDE DEF c
  <2>4. Result(c, t', j)
    BY <1>b, <2>1, <2>3, PutLive
  <2> QED
    BY <2>1, <2>3, <2>4, ResultTransitive, LiveOK
<1>8. ASSUME NEW j \in Jobs, NEW status \in ObitStatus, job_obit(j, status)
      PROVE  OK(t, t')
  <2> DEFINE ss == ObitSubstate(j, status)
             bad == [t EXCEPT !.chk[j] = "no"]
             ck == IF status = "badrestart" THEN bad ELSE t
             ex == svr_setjobstate(t, j, "E", "EXITING")
  <2>1. Live(t, j)
    BY <1>8, <1>c DEF job_obit
  <2>2. \/ ss \in {"RERUN", "RERUN2"} /\ t' = svr_setjobstate(ck, j, "E", ss)
        \/ t' = EvalAndSet(ex, j, TRUE)
        \/ t' = ex
    BY <1>8 DEF job_obit
  <2>3. Result(t, bad, j) /\ Live(bad, j)
    BY <2>1, FlagLive
  <2>4. Result(t, t, j)
    BY <2>1, FlagLive DEF Result, Live, Step, SameBut, Good
  <2>5. Result(t, ck, j) /\ Live(ck, j)
    BY <2>1, <2>3, <2>4
  <2>6. Result(t, ex, j) /\ Live(ex, j)
    BY <1>a, <1>b, <2>1, SetLive
  <2> HIDE DEF ss, ck, ex, bad
  <2>7. CASE ss \in {"RERUN", "RERUN2"} /\ t' = svr_setjobstate(ck, j, "E", ss)
    <3>1. ss \in Substates /\ ss \notin Submitting
      BY <1>b, <2>7
    <3>2. Result(ck, t', j)
      BY <1>a, <2>5, <2>7, <3>1, SetLive
    <3> QED
      BY <2>1, <2>5, <3>2, ResultTransitive, LiveOK
  <2>8. CASE t' = EvalAndSet(ex, j, TRUE)
    <3>1. Result(ex, t', j)
      BY <2>6, <2>8, EvalLive
    <3> QED
      BY <2>1, <2>6, <3>1, ResultTransitive, LiveOK
  <2>9. CASE t' = ex
    BY <2>1, <2>6, <2>9, LiveOK
  <2> QED
    BY <2>2, <2>7, <2>8, <2>9
<1>9. ASSUME NEW j \in Jobs, NEW security \in BOOLEAN, job_obit_requeue(j, security)
      PROVE  OK(t, t')
  <2> DEFINE h == [t EXCEPT !.hold[j] = TRUE]
             c == [t EXCEPT !.chk[j] = "made"]
  <2>1. Live(t, j)
    BY <1>9, <1>c DEF job_obit_requeue
  <2>2. Result(t, h, j) /\ Live(h, j) /\ Result(t, c, j) /\ Live(c, j)
    BY <2>1, FlagLive
  <2>3. t' = svr_setjobstate(h, j, "H", "HELD") \/ t' = EvalAndSet(c, j, TRUE)
    BY <1>9 DEF job_obit_requeue
  <2> HIDE DEF h, c
  <2>4. Result(h, t', j) \/ Result(c, t', j)
    BY <1>a, <1>b, <2>2, <2>3, SetLive, EvalLive
  <2> QED
    BY <2>1, <2>2, <2>4, ResultTransitive, LiveOK
<1>10. ASSUME NEW j \in Jobs, NEW dh \in BOOLEAN, NEW fin \in FinishSubstates,
              NEW waits \in BOOLEAN, on_job_exit(j, dh, fin, waits)
       PROVE  OK(t, t')
  <2>1. Live(t, j)
    BY <1>10, <1>c DEF on_job_exit
  <2>2. ASSUME NEW nss \in {"STAGEOUT", "STAGEDEL", "EXITED"},
               t' = svr_setjobstate(t, j, "E", nss)
        PROVE  OK(t, t')
    <3>1. nss \in Substates /\ nss \notin Submitting /\ "E" \in LiveStates
      BY <1>a, <1>b
    <3>2. Result(t, t', j)
      BY <2>1, <2>2, <3>1, SetLive
    <3> QED
      BY <2>1, <3>2, LiveOK
  <2>3. CASE t' = svr_saveorpurge_finjobhist(t, j, dh, fin)
    <3>1. Good(t) /\ j \in t.all
      BY <2>1 DEF Live
    <3>2. Result(t, t', j)
      BY <2>3, <3>1, SaveOrPurge
    <3> QED
      BY <2>1, <3>2, LiveOK
  <2>4. CASE t' = discard_job(t, j, waits)
    BY <2>1, <2>4, Discard, LiveOK
  <2> QED
    BY <1>10, <2>2, <2>3, <2>4 DEF on_job_exit
<1>11. ASSUME NEW j \in Jobs, NEW waits \in BOOLEAN, on_job_rerun(j, waits)
       PROVE  OK(t, t')
  <2>1. Live(t, j)
    BY <1>11, <1>c DEF on_job_rerun
  <2>2. ASSUME NEW nss \in {"RERUN1", "RERUN2", "RERUN3"},
               t' = svr_setjobstate(t, j, "E", nss)
        PROVE  OK(t, t')
    <3>1. nss \in Substates /\ nss \notin Submitting /\ "E" \in LiveStates
      BY <1>a, <1>b
    <3>2. Result(t, t', j)
      BY <2>1, <2>2, <3>1, SetLive
    <3> QED
      BY <2>1, <3>2, LiveOK
  <2>3. CASE t' = EvalAndSet(t, j, FALSE)
    BY <2>1, <2>3, EvalLive, LiveOK
  <2>4. CASE t' = discard_job(t, j, waits)
    BY <2>1, <2>4, Discard, LiveOK
  <2> QED
    BY <1>11, <2>2, <2>3, <2>4 DEF on_job_rerun
<1>12. ASSUME NEW j \in Jobs, req_rerunjob_force(j)
       PROVE  OK(t, t')
  <2> DEFINE p == PutState(t, j, t.st[j], "RERUN3")
  <2>1. Live(t, j) /\ t' = force_reque(p, j)
    BY <1>12, <1>c DEF req_rerunjob_force
  <2>2. Result(t, p, j) /\ Live(p, j)
    BY <1>b, <2>1, PutLive
  <2> HIDE DEF p
  <2> QED
    BY <2>1, <2>2, RequeLive, ResultTransitive, LiveOK
<1>13. ASSUME NEW j \in Jobs, post_discard_job(j)
       PROVE  OK(t, t')
  BY <1>13, DiscardedOK DEF post_discard_job
<1>14. ASSUME NEW j \in Jobs, NEW killed \in BOOLEAN, post_sendmom_signal(j, killed)
       PROVE  OK(t, t')
  <2> DEFINE ab == svr_setjobstate(t, j, "R", "ABORT")
             a == job_abt(t, j, killed, FALSE, "FAILED")
  <2>1. Live(t, j) /\ t.st[j] = "R" /\ (killed \/ t.hist) /\ t' = force_reque(a, j)
    BY <1>14, <1>c DEF post_sendmom_signal
  <2>2. "ABORT" \in Substates /\ "ABORT" \notin Submitting /\ "FAILED" \in FinishSubstates
    BY DEF Substates, Submitting, FinishSubstates
  <2>3. Result(t, ab, j) /\ Live(ab, j) /\ ab.hist = t.hist
    BY <1>a, <2>1, <2>2, SetLive DEF Result, Step
  <2>4. a = IF killed THEN ab ELSE svr_saveorpurge_finjobhist(ab, j, FALSE, "FAILED")
    BY <2>1 DEF job_abt
  <2> HIDE DEF ab, a
  <2>5. CASE killed
    BY <2>1, <2>3, <2>4, <2>5, RequeLive, ResultTransitive, LiveOK
  <2>6. CASE ~killed
    <3> DEFINE c == [a EXCEPT !.chk[j] = "no"]
    <3>1. a = svr_setjob_histinfo(ab, j, "T_FIN_JOB", "FAILED")
      BY <2>1, <2>3, <2>4, <2>6 DEF svr_saveorpurge_finjobhist
    <3>2. Result(ab, a, j) /\ a.st[j] = "F"
      BY <2>1, <2>2, <2>3, <2>6, <3>1, HistInfo DEF Live
    <3>3. a \in TableType /\ Core(a) /\ Good(a)
      BY <3>2, AllJobs DEF Result
    <3>4. c \in TableType /\ SameLinks(a, c) /\ c.qname = a.qname
      BY <3>3 DEF TableType, SameLinks
    <3>5. t' = EvalAndSet(c, j, TRUE)
      BY <2>1 DEF force_reque
    <3> HIDE DEF c
    <3>6. Step(a, c, j) /\ Good(c) /\ c.st[j] = "F"
      BY <3>2, <3>3, <3>4, Attributes DEF SameLinks
    <3>7. Result(c, t', j)
      BY <3>5, <3>6, EvalAny DEF HistStates
    <3>8. Result(t, a, j) /\ Result(a, c, j)
      BY <2>3, <3>2, <3>6, ResultTransitive DEF Result
    <3> QED
      BY <2>1, <3>7, <3>8, ResultTransitive, LiveOK
  <2> QED
    BY <2>5, <2>6
<1> QED
  BY <1>1, <1>2, <1>3, <1>4, <1>5, <1>6, <1>7, <1>8, <1>9, <1>10, <1>11, <1>12, <1>13,
     <1>14 DEF Running

\* Deleting.
LEMMA DeletingOK ==
  ASSUME Good(t), Deleting
  PROVE  OK(t, t')
<1>a. {"R", "E"} \subseteq LiveStates
  BY DEF LiveStates, JobStates, HistStates
<1>b. {"EXITING", "EXITED", "ABORT", "TERM", "RUNNING"} \subseteq Substates \ Submitting
  BY DEF Substates, Submitting
<1>c. ASSUME NEW j \in Jobs, Requestable(j)
      PROVE  Live(t, j)
  BY <1>c DEF Requestable, Live
<1>d. ASSUME NEW j \in t.all, t.st[j] \in {"R", "E"}
      PROVE  Live(t, j)
  BY <1>d DEF Live, HistStates
<1>e. "TERMINATED" \in FinishSubstates
  BY DEF FinishSubstates
<1>1. ASSUME NEW j \in Jobs, NEW dh \in BOOLEAN, req_deletejob(j, dh)
      PROVE  OK(t, t')
  BY <1>1, <1>c, <1>e, Abort, LiveOK DEF req_deletejob
<1>2. ASSUME NEW j \in Jobs, req_deletejob_chkpt(j)
      PROVE  OK(t, t')
  BY <1>2, <1>a, <1>b, <1>c, SetLive, LiveOK DEF req_deletejob_chkpt
<1>3. ASSUME NEW j \in Jobs, NEW dh \in BOOLEAN, req_deletejob_force(j, dh)
      PROVE  OK(t, t')
  <2> DEFINE nss == IF t.st[j] = "R" \/ t.ss[j] = "TERM" THEN "EXITED" ELSE "ABORT"
  <2>1. /\ Live(t, j)
        /\ \/ t' = svr_setjobstate(t, j, "E", "EXITING")
           \/ t' = svr_saveorpurge_finjobhist(svr_setjobstate(t, j, "E", nss), j, dh, "TERMINATED")
    BY <1>3, <1>d DEF req_deletejob_force
  <2>2. nss \in Substates /\ nss \notin Submitting
    BY <1>b
  <2> HIDE DEF nss
  <2>3. CASE t' = svr_setjobstate(t, j, "E", "EXITING")
    BY <1>a, <1>b, <2>1, <2>3, SetLive, LiveOK
  <2>4. CASE t' = svr_saveorpurge_finjobhist(svr_setjobstate(t, j, "E", nss), j, dh, "TERMINATED")
    BY <1>a, <1>e, <2>1, <2>2, <2>4, EndLive, LiveOK
  <2> QED
    BY <2>1, <2>3, <2>4
<1>4. ASSUME NEW j \in Jobs, req_deletejob_rerun(j)
      PROVE  OK(t, t')
  <2>1. Live(t, j) /\ t' = PutState(t, j, t.st[j], "RUNNING")
    BY <1>4, <1>d DEF req_deletejob_rerun
  <2> QED
    BY <1>b, <2>1, PutLive, LiveOK
<1>5. ASSUME NEW j \in Jobs, NEW dh \in BOOLEAN, post_delete_mom1(j, dh)
      PROVE  OK(t, t')
  <2>1. Live(t, j)
    BY <1>5, <1>d DEF post_delete_mom1
  <2>2. CASE t' = svr_setjobstate(t, j, "E", "TERM")
    BY <1>a, <1>b, <2>1, <2>2, SetLive, LiveOK
  <2>3. CASE t' = svr_saveorpurge_finjobhist(t, j, dh, "TERMINATED")
    <3>1. Good(t) /\ j \in t.all
      BY <2>1 DEF Live
    <3>2. Result(t, t', j)
      BY <1>e, <2>3, <3>1, SaveOrPurge
    <3> QED
      BY <2>1, <3>2, LiveOK
  <2> QED
    BY <1>5, <2>2, <2>3 DEF post_delete_mom1
<1> QED
  BY <1>1, <1>2, <1>3, <1>4, <1>5 DEF Deleting

\* moving, routing, transit
LEMMA TransferOK ==
  ASSUME Good(t), NEW j \in Jobs,
         \/ \E dest \in Destinations : req_movejob(j, dest) \/ queue_route(j, dest)
         \/ req_deletejob_transit(j)
         \/ \E sent \in BOOLEAN : post_movejob(j, sent)
         \/ \E r \in {"SEND_JOB_OK", "SEND_JOB_FATAL", "SEND_JOB_RETRY"},
               dest \in Destinations : post_routejob(j, r, dest)
  PROVE  OK(t, t')
<1>0. t \in TableType /\ Core(t) /\ t.all \subseteq Jobs
  BY AllJobs
<1>a. {"T", "Q"} \subseteq LiveStates /\ "T" \in JobStates
  BY DEF LiveStates, JobStates, HistStates
<1>b. "ABORT" \in Substates /\ "ABORT" \notin Submitting /\ "FINISHED" \in FinishSubstates
  BY DEF Substates, Submitting, FinishSubstates
<1>c. ASSUME j \in t.all, t.st[j] = "T"
      PROVE  Live(t, j)
  BY <1>c DEF Live, HistStates
<1>1. ASSUME NEW dest \in Destinations, req_movejob(j, dest) \/ queue_route(j, dest)
      PROVE  OK(t, t')
  <2>1. Live(t, j) /\ t' = job_route(t, j, dest)
    BY <1>1 DEF req_movejob, queue_route, Requestable, Live, HistStates
  <2> QED
    BY <2>1, Route, LiveOK DEF Destinations
<1>2. CASE req_deletejob_transit(j)
  <2>1. Live(t, j) /\ t.st[j] = "T" /\ t' = PutState(t, j, "T", "ABORT")
    BY <1>2, <1>c DEF req_deletejob_transit
  <2>2. Changed(t, t', j, "T", "ABORT")
    BY <1>0, <1>a, <1>b, <2>1, NoMove
  <2>3. /\ Step(t, t', j) /\ t'.st[j] = "T" /\ t'.ss[j] = "ABORT" /\ j \in t'.all
        /\ t'.qhdr[j] # NoQueue /\ t'.qname[j] = t'.qhdr[j]
    BY <2>1, <2>2, LiveFacts DEF Changed
  <2>4. Placed(t', j)
    BY <1>b, <2>3 DEF Placed, HistStates
  <2>5. Result(t, t', j)
    BY <2>1, <2>3, <2>4, LiveFacts, OthersStep, GoodOthers DEF Result
  <2> QED
    BY <2>1, <2>5, LiveOK
<1>d. ASSUME Live(t, j),
             t' = IF t.hist THEN svr_setjob_histinfo(t, j, "T_MOV_JOB", "FINISHED")
                            ELSE job_purge(t, j)
      PROVE  OK(t, t')
  <2>1. CASE t.hist
    <3>1. Good(t) /\ j \in t.all /\ t' = svr_setjob_histinfo(t, j, "T_MOV_JOB", "FINISHED")
      BY <1>d, <2>1, LiveFacts
    <3> QED
      BY <1>b, <1>d, <2>1, <3>1, HistInfo, LiveOK
  <2>2. CASE ~t.hist
    BY <1>d, <2>2, PurgeLinked, LiveOK
  <2> QED
    BY <2>1, <2>2
<1>3. ASSUME NEW sent \in BOOLEAN, post_movejob(j, sent)
      PROVE  OK(t, t')
  <2>1. Live(t, j)
    BY <1>3, <1>c DEF post_movejob
  <2>2. CASE sent
    BY <1>3, <1>d, <2>1, <2>2 DEF post_movejob
  <2>3. CASE ~sent
    <3>1. t' = EvalAndSet(t, j, TRUE)
      BY <1>3, <2>3 DEF post_movejob
    <3> QED
      BY <2>1, <3>1, EvalLive, LiveOK
  <2> QED
    BY <2>2, <2>3
<1>4. ASSUME NEW r \in {"SEND_JOB_OK", "SEND_JOB_FATAL", "SEND_JOB_RETRY"},
             NEW dest \in Destinations, post_routejob(j, r, dest)
      PROVE  OK(t, t')
  <2>1. Live(t, j)
    BY <1>4, <1>c DEF post_routejob
  <2>2. CASE r = "SEND_JOB_OK"
    BY <1>4, <1>d, <2>1, <2>2 DEF post_routejob
  <2>3. CASE r = "SEND_JOB_FATAL" /\ t.ss[j] = "ABORT"
    <3>1. t' = svr_setjobstate(t, j, "Q", "ABORT")
      BY <1>4, <2>3 DEF post_routejob
    <3> QED
      BY <1>a, <1>b, <2>1, <3>1, SetLive, LiveOK
  <2>4. CASE r # "SEND_JOB_OK" /\ ~(r = "SEND_JOB_FATAL" /\ t.ss[j] = "ABORT")
    <3> DEFINE e == EvalAndSet(t, j, TRUE)
    <3>1. t' = job_route(e, j, dest)
      BY <1>4, <2>4 DEF post_routejob
    <3>2. Result(t, e, j) /\ Live(e, j)
      BY <2>1, EvalLive
    <3> HIDE DEF e
    <3>3. dest \in e.ques \cup {"net", "later", "rejected"}
      BY <3>2 DEF Result, Step, Destinations
    <3>4. Result(e, t', j)
      BY <3>1, <3>2, <3>3, Route
    <3> QED
      BY <2>1, <3>2, <3>4, ResultTransitive, LiveOK
  <2> QED
    BY <2>2, <2>3, <2>4
<1> QED
  BY <1>1, <1>2, <1>3, <1>4

\* req_orderjob relinks two jobs at once: the counts hold again at the end.
LEMMA OrderOK ==
  ASSUME Good(t), NEW j1 \in Jobs, NEW j2 \in Jobs, req_orderjob(j1, j2)
  PROVE  OK(t, t')
<1> DEFINE sw == [t EXCEPT !.qname[j1] = t.qname[j2], !.qname[j2] = t.qname[j1]]
           d1 == svr_dequejob(sw, j1)
           d2 == svr_dequejob(d1, j2)
           e1 == svr_enquejob(d2, j1)
           e2 == svr_enquejob(e1, j2)
<1>0. t \in TableType /\ Core(t) /\ t.all \subseteq Jobs
  BY AllJobs
<1>1. /\ Live(t, j1) /\ Live(t, j2) /\ j1 # j2 /\ t' = e2
  BY DEF req_orderjob, Requestable, Live
<1>2. /\ sw \in TableType /\ SameLinks(t, sw)
      /\ sw.qname[j1] = t.qname[j2] /\ sw.qname[j2] = t.qname[j1]
      /\ \A k \in Jobs \ {j1, j2} : sw.qname[k] = t.qname[k]
  BY <1>0, <1>1 DEF TableType, SameLinks
<1> HIDE DEF sw
<1>3. Core(sw)
  BY <1>0, <1>2, Attributes
<1>4. /\ Step(sw, d1, j1) /\ Core(d1) /\ d1.st = sw.st /\ d1.ss = sw.ss
      /\ d1.qname = sw.qname /\ j1 \notin d1.all /\ d1.qhdr[j1] = NoQueue
  BY <1>3, Dequeue, Unlink DEF Step
<1> HIDE DEF d1
<1>5. /\ Step(d1, d2, j2) /\ Core(d2) /\ d2.st = sw.st /\ d2.ss = sw.ss
      /\ d2.qname = sw.qname /\ j2 \notin d2.all /\ d2.qhdr[j2] = NoQueue
  BY <1>4, Dequeue, Unlink DEF Step
<1> HIDE DEF d2
<1>6. j1 \notin d2.all /\ d2.qhdr[j1] = NoQueue
  BY <1>1, <1>4, <1>5 DEF Step, SameBut
<1>7. /\ t.qname[j1] = t.qhdr[j1] /\ t.qhdr[j1] # NoQueue /\ t.qname[j1] \in t.ques
      /\ t.qname[j2] = t.qhdr[j2] /\ t.qhdr[j2] # NoQueue /\ t.qname[j2] \in t.ques
  BY <1>0, <1>1, LiveFacts DEF Core, Linked
<1>8. d1.ques = t.ques /\ d2.ques = t.ques
  BY <1>2, <1>4, <1>5 DEF Step, SameLinks
<1>9. /\ Step(d2, e1, j1) /\ Core(e1) /\ e1.st = sw.st /\ e1.ss = sw.ss
      /\ e1.qname = sw.qname /\ j1 \in e1.all /\ e1.qhdr[j1] = t.qname[j2]
      /\ e1.ques = t.ques
  BY <1>2, <1>5, <1>6, <1>7, <1>8, Enqueue DEF Step, UnknownQueue
<1> HIDE DEF e1
<1>10. j2 \notin e1.all /\ e1.qhdr[j2] = NoQueue
  BY <1>1, <1>5, <1>9 DEF Step, SameBut
<1>11. /\ Step(e1, e2, j2) /\ Core(e2) /\ e2.st = sw.st /\ e2.ss = sw.ss
       /\ e2.qname = sw.qname /\ j2 \in e2.all /\ e2.qhdr[j2] = t.qname[j1]
  BY <1>2, <1>7, <1>9, <1>10, Enqueue DEF Step, UnknownQueue
<1> HIDE DEF e2
<1>12. e2.st = t.st /\ e2.ss = t.ss /\ e2.hist = t.hist
  BY <1>2, <1>4, <1>5, <1>9, <1>11 DEF Step, SameLinks
<1>13. ASSUME NEW k \in Jobs \ {j1, j2}
       PROVE  Placed(e2, k)
  <2>1. (k \in e2.all <=> k \in t.all) /\ e2.qhdr[k] = t.qhdr[k] /\ e2.qname[k] = t.qname[k]
    BY <1>2, <1>4, <1>5, <1>9, <1>11 DEF Step, SameBut, SameLinks
  <2> QED
    BY <1>12, <2>1 DEF Good, Placed
<1>14. /\ j1 \in e2.all /\ e2.qhdr[j1] = t.qname[j2] /\ e2.qname[j1] = t.qname[j2]
       /\ j2 \in e2.all /\ e2.qhdr[j2] = t.qname[j1] /\ e2.qname[j2] = t.qname[j1]
  BY <1>1, <1>2, <1>9, <1>11 DEF Step, SameBut
<1>15. Placed(e2, j1) /\ Placed(e2, j2)
  BY <1>1, <1>7, <1>12, <1>14 DEF Good, Placed, Live
<1>16. Good(e2)
  BY <1>11, <1>13, <1>15 DEF Good
<1> QED
  BY <1>1, <1>12, <1>16 DEF OK, Final

\* Creating a queue, and deleting one with no job or only history jobs.
LEMMA QueuesOK ==
  ASSUME Good(t), NEW q \in Queues, mgr_queue_create(q) \/ que_purge(q)
  PROVE  OK(t, t')
<1>0. t \in TableType /\ Core(t) /\ Counted(t) /\ Linked(t) /\ t.all \subseteq Jobs
  BY AllJobs DEF Core
<1>a. \A S \in SUBSET Jobs : IsFiniteSet(S)
  BY FS_Subset, TableAssumption
<1>b. InQueue(t, q) \in SUBSET Jobs /\ \A s : InQueueState(t, q, s) \subseteq InQueue(t, q)
  BY DEF InQueue, InQueueState
<1>1. CASE mgr_queue_create(q)
  <2>1. InQueue(t, q) = {}
    BY <1>0, <1>1, TableAssumption DEF InQueue, Linked, mgr_queue_create
  <2>2. \A s : InQueueState(t, q, s) = {}
    BY <1>b, <2>1
  <2> DEFINE z == [s \in JobStates |-> 0]
  <2>3. t' = [t EXCEPT !.ques = t.ques \cup {q}, !.qnum[q] = 0, !.qst[q] = z]
    BY <1>1 DEF mgr_queue_create
  <2>4. z \in [JobStates -> Int] /\ \A s \in JobStates : z[s] = 0
    OBVIOUS
  <2> HIDE DEF z
  <2>t. t' \in TableType
    <3> DEFINE Q == t.ques \cup {q}
    <3>1. Q \in SUBSET Queues /\ 0 \in Int
      BY <1>0 DEF TableType
    <3>2. t' = [t EXCEPT !.ques = Q, !.qnum[q] = 0, !.qst[q] = z]
      BY <2>3
    <3> HIDE DEF Q
    <3> QED
      BY <1>0, <2>4, <3>1, <3>2, RetypeQueues
  <2>5. /\ t'.ques = t.ques \cup {q} /\ t'.qnum = [t.qnum EXCEPT ![q] = 0]
        /\ t'.qst = [t.qst EXCEPT ![q] = z] /\ t'.all = t.all /\ t'.st = t.st
        /\ t'.ss = t.ss /\ t'.qhdr = t.qhdr /\ t'.qname = t.qname
        /\ t'.svnum = t.svnum /\ t'.sv = t.sv /\ t'.hist = t.hist
    BY <1>0, <2>3, <2>4 DEF TableType
  <2>6. /\ \A s : InState(t', s) = InState(t, s)
        /\ \A p : InQueue(t', p) = InQueue(t, p)
        /\ \A p, s : InQueueState(t', p, s) = InQueueState(t, p, s)
    BY <2>5 DEF InState, InQueue, InQueueState
  <2>7. Cardinality({}) = 0
    BY FS_EmptySet
  <2>8. /\ \A p \in Queues : t'.qnum[p] = IF p = q THEN 0 ELSE t.qnum[p]
        /\ \A p \in Queues, s \in JobStates : t'.qst[p][s] = IF p = q THEN 0 ELSE t.qst[p][s]
    BY <1>0, <2>4, <2>5 DEF TableType
  <2>9. Counted(t')
    <3>1. t'.svnum = Cardinality(t'.all) /\ \A s \in JobStates : t'.sv[s] = Cardinality(InState(t', s))
      BY <1>0, <2>5, <2>6 DEF Counted
    <3>2. \A p \in Queues : t'.qnum[p] = Cardinality(InQueue(t', p))
      BY <1>0, <2>1, <2>6, <2>7, <2>8 DEF Counted
    <3>3. \A p \in Queues, s \in JobStates : t'.qst[p][s] = Cardinality(InQueueState(t', p, s))
      BY <1>0, <2>2, <2>6, <2>7, <2>8 DEF Counted
    <3> QED
      BY <3>1, <3>2, <3>3 DEF Counted
  <2>10. Linked(t')
    BY <1>0, <2>5 DEF Linked
  <2>11. \A j \in Jobs : Placed(t', j)
    BY <2>5 DEF Good, Placed
  <2> QED
    BY <2>t, <2>5, <2>9, <2>10, <2>11 DEF OK, Good, Core, Final
<1>2. CASE que_purge(q) /\ t.qnum[q] = 0
  <2>1. InQueue(t, q) = {}
    BY <1>0, <1>2, <1>a, <1>b, FS_EmptySet DEF Counted
  <2>2. t' = [t EXCEPT !.ques = t.ques \ {q}]
    BY <1>2 DEF que_purge
  <2>3. /\ t' \in TableType
        /\ t'.ques = t.ques \ {q} /\ t'.qnum = t.qnum
        /\ t'.qst = t.qst /\ t'.all = t.all /\ t'.st = t.st
        /\ t'.ss = t.ss /\ t'.qhdr = t.qhdr /\ t'.qname = t.qname
        /\ t'.svnum = t.svnum /\ t'.sv = t.sv /\ t'.hist = t.hist
    BY <1>0, <2>2 DEF TableType
  <2>4. Counted(t')
    BY <1>0, <2>3 DEF Counted, InState, InQueue, InQueueState
  <2>5. Linked(t')
    BY <1>0, <2>1, <2>3 DEF Linked, InQueue
  <2>6. \A j \in Jobs : Placed(t', j)
    BY <2>3 DEF Good, Placed
  <2> QED
    BY <2>3, <2>4, <2>5, <2>6 DEF OK, Good, Core, Final
<1>3. CASE que_purge(q) /\ t.qnum[q] # 0
  <2> DEFINE n == t.qnum[q] - Cardinality(InQueue(t, q))
             f == [s \in JobStates |-> t.qst[q][s] - Cardinality(InQueueState(t, q, s))]
             h == [j \in Jobs |-> IF t.qhdr[j] = q THEN NoQueue ELSE t.qhdr[j]]
  <2>1. /\ t' = [t EXCEPT !.ques = t.ques \ {q}, !.qnum[q] = n, !.qst[q] = f, !.qhdr = h]
        /\ t.hist
        /\ \A j \in InQueue(t, q) : t.st[j] \in HistStates \cup {"X"}
    BY <1>3 DEF que_purge
  <2>2. n = 0
    BY <1>0 DEF Counted, TableType
  <2>3. f \in [JobStates -> Int] /\ \A s \in JobStates : f[s] = 0
    <3>1. \A s \in JobStates : t.qst[q][s] \in Int /\ t.qst[q][s] = Cardinality(InQueueState(t, q, s))
      BY <1>0 DEF Counted, TableType
    <3> QED
      BY <3>1
  <2>4. /\ h \in [Jobs -> Queues \cup {NoQueue}]
        /\ \A j \in Jobs : h[j] = IF t.qhdr[j] = q THEN NoQueue ELSE t.qhdr[j]
    BY <1>0 DEF TableType
  <2> HIDE DEF n, f, h
  <2>t. t' \in TableType
    <3>1. t.ques \ {q} \in SUBSET Queues /\ n \in Int
      BY <1>0, <2>2 DEF TableType
    <3> QED
      BY <1>0, <2>1, <2>3, <2>4, <3>1, RetypeHeaders
  <2>5. /\ t'.ques = t.ques \ {q} /\ t'.qnum = [t.qnum EXCEPT ![q] = 0]
        /\ t'.qst = [t.qst EXCEPT ![q] = f] /\ t'.all = t.all /\ t'.st = t.st
        /\ t'.ss = t.ss /\ t'.qhdr = h /\ t'.qname = t.qname
        /\ t'.svnum = t.svnum /\ t'.sv = t.sv /\ t'.hist = t.hist
    BY <1>0, <2>1, <2>2, <2>3, <2>4 DEF TableType
  <2>6. /\ \A s : InState(t', s) = InState(t, s)
        /\ \A p \in Queues : InQueue(t', p) = IF p = q THEN {} ELSE InQueue(t, p)
        /\ \A p \in Queues, s \in JobStates :
              InQueueState(t', p, s) = IF p = q THEN {} ELSE InQueueState(t, p, s)
    BY <2>4, <2>5, TableAssumption DEF InState, InQueue, InQueueState
  <2>7. Cardinality({}) = 0
    BY FS_EmptySet
  <2>8. /\ \A p \in Queues : t'.qnum[p] = IF p = q THEN 0 ELSE t.qnum[p]
        /\ \A p \in Queues, s \in JobStates : t'.qst[p][s] = IF p = q THEN 0 ELSE t.qst[p][s]
    BY <1>0, <2>3, <2>5 DEF TableType
  <2>9. Counted(t')
    <3>1. t'.svnum = Cardinality(t'.all) /\ \A s \in JobStates : t'.sv[s] = Cardinality(InState(t', s))
      BY <1>0, <2>5, <2>6 DEF Counted
    <3>2. \A p \in Queues : t'.qnum[p] = Cardinality(InQueue(t', p))
      BY <1>0, <2>6, <2>7, <2>8 DEF Counted
    <3>3. ASSUME NEW p \in Queues, NEW s \in JobStates
          PROVE  t'.qst[p][s] = Cardinality(InQueueState(t', p, s))
      <4>1. t.qst[p][s] = Cardinality(InQueueState(t, p, s))
        BY <1>0 DEF Counted
      <4>2. /\ InQueueState(t', p, s) = IF p = q THEN {} ELSE InQueueState(t, p, s)
            /\ t'.qst[p][s] = IF p = q THEN 0 ELSE t.qst[p][s]
        BY <2>6, <2>8
      <4> QED
        BY <2>7, <4>1, <4>2
    <3> QED
      BY <3>1, <3>2, <3>3 DEF Counted
  <2>10. Linked(t')
    BY <1>0, <2>4, <2>5 DEF Linked
  <2>11. \A j \in Jobs : Placed(t', j)
    BY <2>1, <2>4, <2>5 DEF Good, Placed, InQueue
  <2> QED
    BY <2>t, <2>5, <2>9, <2>10, <2>11 DEF OK, Good, Core, Final
<1> QED
  BY <1>1, <1>2, <1>3

\* The size of a set difference.
LEMMA RemoveSubset ==
  ASSUME NEW S \in SUBSET Jobs, NEW H \in SUBSET Jobs
  PROVE  Cardinality(S \ H) = Cardinality(S) - Cardinality(S \cap H)
<1>1. \A A \in SUBSET Jobs : IsFiniteSet(A) /\ Cardinality(A) \in Nat
  BY FS_Subset, FS_CardinalityType, TableAssumption
<1>2. /\ S \ H \in SUBSET Jobs /\ S \cap H \in SUBSET Jobs
      /\ (S \ H) \cup (S \cap H) = S /\ (S \ H) \cap (S \cap H) = {}
  OBVIOUS
<1>3. Cardinality((S \ H) \cup (S \cap H)) =
        Cardinality(S \ H) + Cardinality(S \cap H) - Cardinality((S \ H) \cap (S \cap H))
  BY <1>1, <1>2, FS_Union
<1>4. Cardinality((S \ H) \cap (S \cap H)) = 0
  BY <1>2, FS_EmptySet
<1>5. Cardinality(S) = Cardinality(S \ H) + Cardinality(S \cap H)
  <2>1. Cardinality((S \ H) \cup (S \cap H)) = Cardinality(S)
    BY <1>2
  <2>2. Cardinality(S \ H) \in Nat /\ Cardinality(S \cap H) \in Nat
    BY <1>1, <1>2
  <2> QED
    BY <1>3, <1>4, <2>1, <2>2
<1>6. Cardinality(S \ H) \in Nat /\ Cardinality(S \cap H) \in Nat
  BY <1>1, <1>2
<1> QED
  BY <1>5, <1>6

\* Disabling the history purges every history job and no other.
LEMMA UnsetOK ==
  ASSUME Good(t), unset_job_history_enable
  PROVE  OK(t, t')
<1>0. t \in TableType /\ Core(t) /\ Counted(t) /\ Linked(t) /\ t.all \subseteq Jobs
  BY AllJobs DEF Core
<1> DEFINE H == {j \in t.all : t.st[j] \in HistStates}
           Clear(f, v) == [j \in Jobs |-> IF j \in H THEN v ELSE f[j]]
           sv == [s \in JobStates |-> t.sv[s] - Cardinality(InState(t, s) \cap H)]
           qnum == [q \in Queues |-> t.qnum[q] - Cardinality(InQueue(t, q) \cap H)]
           qst == [q \in Queues |-> [s \in JobStates |->
                     t.qst[q][s] - Cardinality(InQueueState(t, q, s) \cap H)]]
           n == t.svnum - Cardinality(H)
           A == t.all \ H
           qhdr == Clear(t.qhdr, NoQueue)
           qname == Clear(t.qname, NoQueue)
           st == Clear(t.st, "T")
           ss == Clear(t.ss, "none")
           hold == Clear(t.hold, FALSE)
           chk == Clear(t.chk, "no")
           disc == Clear(t.disc, "no")
           wait == Clear(t.wait, "no")
<1>1. t' = [t EXCEPT !.hist = FALSE, !.all = A, !.svnum = n, !.sv = sv, !.qnum = qnum,
                     !.qst = qst, !.qhdr = qhdr, !.qname = qname, !.st = st, !.ss = ss,
                     !.hold = hold, !.wait = wait, !.chk = chk, !.disc = disc]
  BY DEF unset_job_history_enable
<1>2. \A S \in SUBSET Jobs : Cardinality(S) \in Nat
  BY FS_Subset, FS_CardinalityType, TableAssumption
<1>3. H \in SUBSET Jobs /\ H \subseteq t.all /\ A \in SUBSET Jobs
  BY <1>0
<1>4. /\ \A s : InState(t, s) \in SUBSET Jobs
      /\ \A q : InQueue(t, q) \in SUBSET Jobs
      /\ \A q, s : InQueueState(t, q, s) \in SUBSET Jobs
  BY <1>0 DEF InState, InQueue, InQueueState
<1>r. \A S \in SUBSET Jobs : /\ Cardinality(S \ H) = Cardinality(S) - Cardinality(S \cap H)
                             /\ Cardinality(S) - Cardinality(S \cap H) \in Int
  <2> HIDE DEF H
  <2>1. \A S \in SUBSET Jobs : S \cap H \in SUBSET Jobs
    BY <1>3
  <2>2. \A S \in SUBSET Jobs : Cardinality(S) \in Nat /\ Cardinality(S \cap H) \in Nat
    BY <1>2, <2>1
  <2>3. \A S \in SUBSET Jobs : Cardinality(S \ H) = Cardinality(S) - Cardinality(S \cap H)
    <3>1. TAKE S \in SUBSET Jobs
    <3>2. H \in SUBSET Jobs
      BY <1>3
    <3> QED
      BY <3>2, RemoveSubset
  <2>4. \A S \in SUBSET Jobs : Cardinality(S) - Cardinality(S \cap H) \in Int
    BY <2>2
  <2> QED
    BY <2>3, <2>4
<1>5. /\ n = Cardinality(A) /\ n \in Int
      /\ sv \in [JobStates -> Int]
      /\ \A s \in JobStates : sv[s] = Cardinality(InState(t, s) \ H)
  <2>1. n = Cardinality(t.all \ H) /\ n \in Int
    <3>1. t.all \cap H = H
      BY <1>3
    <3> HIDE DEF H
    <3> QED
      BY <1>0, <1>r, <3>1 DEF Counted
  <2> HIDE DEF H
  <2>2. \A s \in JobStates : /\ t.sv[s] - Cardinality(InState(t, s) \cap H) = Cardinality(InState(t, s) \ H)
                             /\ t.sv[s] - Cardinality(InState(t, s) \cap H) \in Int
    BY <1>0, <1>4, <1>r DEF Counted
  <2> QED
    BY <2>1, <2>2
<1>6. /\ qnum \in [Queues -> Int]
      /\ \A q \in Queues : qnum[q] = Cardinality(InQueue(t, q) \ H)
  <2> HIDE DEF H
  <2>1. \A q \in Queues : /\ t.qnum[q] - Cardinality(InQueue(t, q) \cap H) = Cardinality(InQueue(t, q) \ H)
                          /\ t.qnum[q] - Cardinality(InQueue(t, q) \cap H) \in Int
    BY <1>0, <1>4, <1>r DEF Counted
  <2> QED
    BY <2>1
<1>7. /\ qst \in [Queues -> [JobStates -> Int]]
      /\ \A q \in Queues, s \in JobStates : qst[q][s] = Cardinality(InQueueState(t, q, s) \ H)
  <2> HIDE DEF H
  <2>1. \A q \in Queues, s \in JobStates :
          /\ t.qst[q][s] - Cardinality(InQueueState(t, q, s) \cap H) = Cardinality(InQueueState(t, q, s) \ H)
          /\ t.qst[q][s] - Cardinality(InQueueState(t, q, s) \cap H) \in Int
    BY <1>0, <1>4, <1>r DEF Counted
  <2> QED
    BY <2>1
<1>8. /\ qhdr \in [Jobs -> Queues \cup {NoQueue}] /\ qname \in [Jobs -> Queues \cup {NoQueue}]
      /\ st \in [Jobs -> JobStates] /\ ss \in [Jobs -> Substates]
      /\ hold \in [Jobs -> BOOLEAN] /\ wait \in [Jobs -> {"no", "future", "due"}]
      /\ chk \in [Jobs -> {"no", "set", "made"}] /\ disc \in [Jobs -> {"no", "now", "old"}]
  <2> HIDE DEF H
  <2>1. "T" \in JobStates /\ "none" \in Substates
    BY DEF JobStates, Substates
  <2> QED
    BY <1>0, <2>1 DEF TableType
<1>9. \A j \in Jobs : /\ qhdr[j] = IF j \in H THEN NoQueue ELSE t.qhdr[j]
                      /\ qname[j] = IF j \in H THEN NoQueue ELSE t.qname[j]
                      /\ st[j] = IF j \in H THEN "T" ELSE t.st[j]
                      /\ ss[j] = IF j \in H THEN "none" ELSE t.ss[j]
  <2> HIDE DEF H
  <2> QED
    OBVIOUS
<1>h. \A j \in Jobs : j \in H <=> j \in t.all /\ t.st[j] \in HistStates
  OBVIOUS
<1>k. A = t.all \ H
  OBVIOUS
<1> HIDE DEF H, sv, qnum, qst, n, A, qhdr, qname, st, ss, hold, wait, chk, disc
<1>10. t' \in TableType
  BY <1>0, <1>1, <1>3, <1>5, <1>6, <1>7, <1>8 DEF TableType
<1>11. /\ t'.all = A /\ t'.svnum = n /\ t'.sv = sv /\ t'.qnum = qnum /\ t'.qst = qst
       /\ t'.qhdr = qhdr /\ t'.qname = qname /\ t'.st = st /\ t'.ss = ss
       /\ t'.ques = t.ques /\ t'.hist = FALSE
  BY <1>0, <1>1 DEF TableType
<1>12. /\ \A s \in JobStates : InState(t', s) = InState(t, s) \ H
       /\ \A q \in Queues : InQueue(t', q) = InQueue(t, q) \ H
       /\ \A q \in Queues, s \in JobStates : InQueueState(t', q, s) = InQueueState(t, q, s) \ H
  BY <1>0, <1>3, <1>9, <1>k, <1>11, TableAssumption DEF InState, InQueue, InQueueState
<1>13. Counted(t')
  BY <1>5, <1>6, <1>7, <1>11, <1>12 DEF Counted
<1>14. Linked(t')
  BY <1>0, <1>9, <1>k, <1>11 DEF Linked
<1>15. \A j \in Jobs : Placed(t', j)
  BY <1>9, <1>h, <1>k, <1>11 DEF Good, Placed, Submitting
<1>16. Final(t, t')
  BY <1>h, <1>k, <1>0, <1>11 DEF Final
<1> QED
  BY <1>10, <1>13, <1>14, <1>15, <1>16 DEF OK, Good, Core

\* History.
LEMMA HistoryOK ==
  ASSUME Good(t), History
  PROVE  OK(t, t')
<1>0. t \in TableType /\ Core(t) /\ t.all \subseteq Jobs
  BY AllJobs
<1>1. ASSUME NEW j \in Jobs, svr_clean_job_history(j)
      PROVE  OK(t, t')
  BY <1>0, <1>1, PurgeLinked, LiveResult DEF svr_clean_job_history
<1>4. ASSUME NEW j \in Jobs, track_history_job(j)
      PROVE  OK(t, t')
  <2>1. /\ j \in t.all /\ t.st[j] = "M" /\ t.hist
        /\ t' = svr_histjob_update(t, j, "M", "FINISHED")
    BY <1>4 DEF track_history_job
  <2>2. "M" \in JobStates /\ "FINISHED" \in Substates /\ "FINISHED" \notin Submitting
    BY DEF JobStates, Substates, Submitting
  <2>3. Changed(t, t', j, "M", "FINISHED")
    BY <1>0, <2>1, <2>2, HistUpdate
  <2>4. /\ Step(t, t', j) /\ t'.st[j] = "M" /\ t'.ss[j] = "FINISHED" /\ j \in t'.all
        /\ t'.hist /\ t'.qname = t.qname /\ t'.qhdr = t.qhdr
    BY <2>1, <2>3 DEF Changed, Step
  <2>5. Placed(t', j)
    BY <2>1, <2>2, <2>4 DEF Good, Placed, HistStates
  <2>6. Result(t, t', j)
    BY <2>4, <2>5, OthersStep, GoodOthers DEF Result
  <2> QED
    BY <1>0, <2>1, <2>4, <2>6, LiveResult
<1>2. CASE set_job_history_enable
  <2>1. t' = [t EXCEPT !.hist = TRUE]
    BY <1>2 DEF set_job_history_enable
  <2>2. /\ t' \in TableType
        /\ t'.ques = t.ques /\ t'.qnum = t.qnum
        /\ t'.qst = t.qst /\ t'.all = t.all /\ t'.st = t.st
        /\ t'.ss = t.ss /\ t'.qhdr = t.qhdr /\ t'.qname = t.qname
        /\ t'.svnum = t.svnum /\ t'.sv = t.sv /\ t'.hist
    BY <1>0, <2>1 DEF TableType
  <2>3. Counted(t') /\ Linked(t')
    BY <1>0, <2>2 DEF Core, Counted, Linked, InState, InQueue, InQueueState
  <2>4. \A j \in Jobs : Placed(t', j)
    BY <2>2 DEF Good, Placed
  <2> QED
    BY <2>2, <2>3, <2>4 DEF OK, Good, Core, Final
<1>3. CASE unset_job_history_enable
  BY <1>3, UnsetOK
<1> QED
  BY <1>1, <1>2, <1>3, <1>4 DEF History

-----------------------------------------------------------------------------
(* The theorems.                                                            *)

\* The empty table is good.
LEMMA InitGood ==
  ASSUME Init
  PROVE  Good(t)
<1>1. t \in TableType
  BY DEF Init, TableType, JobStates, Substates
<1>2. /\ t.all = {} /\ t.svnum = 0 /\ \A j \in Jobs : t.qhdr[j] = NoQueue
      /\ \A s \in JobStates : t.sv[s] = 0
      /\ \A q \in Queues : t.qnum[q] = 0 /\ \A s \in JobStates : t.qst[q][s] = 0
      /\ \A j \in Jobs : t.st[j] = "T" /\ t.ss[j] = "none"
  BY DEF Init
<1>3. /\ \A s : InState(t, s) = {}
      /\ \A q \in Queues : InQueue(t, q) = {}
      /\ \A q \in Queues : \A s : InQueueState(t, q, s) = {}
  BY <1>2, TableAssumption DEF InState, InQueue, InQueueState
<1>4. Counted(t)
  BY <1>2, <1>3, FS_EmptySet DEF Counted
<1> QED
  BY <1>1, <1>2, <1>4 DEF Good, Core, Linked, Placed, Submitting

\* Every step leads from a good table to a good one, and keeps history jobs.
LEMMA NextOK ==
  ASSUME Good(t), ~HookDelete, [Next]_t
  PROVE  OK(t, t')
<1>1. CASE Next
  <2>1. CASE Moving
    BY <2>1, TransferOK, OrderOK, QueuesOK DEF Moving
  <2> QED
    BY <1>1, <2>1, SubmissionOK, Holding, RunningOK, DeletingOK, HistoryOK DEF Next
<1>2. CASE UNCHANGED t
  BY <1>2 DEF OK, Final
<1> QED
  BY <1>1, <1>2

\* The table of the server is always good: Good is inductive.
THEOREM GoodAlways ==
  ASSUME ~HookDelete
  PROVE  Spec => []Good(t)
<1>1. Init => Good(t)
  BY InitGood
<1>2. Good(t) /\ [Next]_t => Good(t)'
  BY NextOK DEF OK
<1> QED
  BY <1>1, <1>2, PTL DEF Spec

\* Every handler keeps the type of the table.
THEOREM TypeCorrect ==
  ASSUME ~HookDelete
  PROVE  Spec => []TypeOK
<1>1. Good(t) => TypeOK
  BY DEF Good, Core, TypeOK
<1> QED
  BY <1>1, GoodAlways, PTL

\* What the inductive invariant says of links and history.
LEMMA GoodLinks ==
  ASSUME Good(t)
  PROVE  NoDanglingQueue /\ OnlyHistoryUnqueued /\ NewJobsApart /\ NoHistoryWhenOff
<1>1. t.all \subseteq Jobs /\ Linked(t)
  BY AllJobs DEF Core
<1>2. \A j \in Jobs : Placed(t, j)
  BY DEF Good
<1> QED
  BY <1>1, <1>2 DEF NoDanglingQueue, Linked, OnlyHistoryUnqueued, NewJobsApart,
                    NoHistoryWhenOff, Placed, Submitting

\* The server's counters sv_numjobs and sv_jobstates always agree with svr_alljobs, for any
\* number of jobs and queues: correct_ct is never needed unless the delete action of a
\* hook wrote a job state without the counters.
THEOREM CountsAlwaysMatch ==
  ASSUME ~HookDelete
  PROVE  Spec => []ServerCounts
<1>1. Good(t) => ServerCounts
  BY DEF Good, Core, Counted, ServerCounts
<1> QED
  BY <1>1, GoodAlways, PTL

\* So do the counters qu_numjobs and qu_njstate of every queue with its list, through
\* moves, routes, and the deletion of queues.
THEOREM QueueCountsAlwaysMatch ==
  ASSUME ~HookDelete
  PROVE  Spec => []QueueCounts
<1>1. Good(t) => QueueCounts
  BY DEF Good, Core, Counted, QueueCounts
<1> QED
  BY <1>1, GoodAlways, PTL

\* No job points at a queue that que_purge has freed.
THEOREM LinksAlwaysRight ==
  ASSUME ~HookDelete
  PROVE  Spec => []NoDanglingQueue
<1>1. Good(t) => NoDanglingQueue
  BY GoodLinks
<1> QED
  BY <1>1, GoodAlways, PTL

\* Only history jobs are ever left without a queue.
THEOREM LiveJobsQueued ==
  ASSUME ~HookDelete
  PROVE  Spec => []OnlyHistoryUnqueued
<1>1. Good(t) => OnlyHistoryUnqueued
  BY GoodLinks
<1> QED
  BY <1>1, GoodAlways, PTL

\* A job that is being submitted is in no list, and every other job is: job_purge can tell
\* by the substate whether a job has to be unlinked.
THEOREM PurgeCanTell ==
  ASSUME ~HookDelete
  PROVE  Spec => []NewJobsApart
<1>1. Good(t) => NewJobsApart
  BY GoodLinks
<1> QED
  BY <1>1, GoodAlways, PTL

\* There is no history job while job_history_enable is off, whenever it is unset.
THEOREM HistoryIsSwitchedOff ==
  ASSUME ~HookDelete
  PROVE  Spec => []NoHistoryWhenOff
<1>1. Good(t) => NoHistoryWhenOff
  BY GoodLinks
<1> QED
  BY <1>1, GoodAlways, PTL

\* No handler brings a finished or moved job back to life, late answers to a discard,
\* which look at no state, included: it is purged, stays, or a moved one becomes finished.
THEOREM HistoryNeverReturns ==
  ASSUME ~HookDelete
  PROVE  Spec => HistoryIsFinal
<1>1. Good(t) /\ [Next]_t =>
        [\A j \in t.all : t.st[j] \in HistStates =>
           j \notin t'.all \/ t'.st[j] \in {t.st[j], "F"}]_t
  BY NextOK DEF OK, Final
<1> QED
  BY <1>1, GoodAlways, PTL DEF Spec, HistoryIsFinal

=============================================================================
