-------------------------- MODULE RunVersion_proof --------------------------
(***************************************************************************)
(* Proofs about RunVersion, for any MoMs and any bounds.                    *)
(*                                                                          *)
(* The number of the present run is runs.  It is in memory and in the       *)
(* database from the moment it is taken (Numbers), and one order alone      *)
(* carries it to a MoM (Ahead).  What bears that number afterwards is either *)
(* the present run or an earlier one whose job was overwritten by the order *)
(* (Bad), and never both (OneKind).  An overwritten job does no harm as the *)
(* refusal of the send goes before whatever is said of it (Shielded).       *)
(***************************************************************************)
EXTENDS RunVersion, TLAPS

Positions(s) == 1..Len(s)

\* what tells of a run
Tells == {"RESCUSED", "JOBOBIT"}

\* Every number in use is at most that of the present run, which is known and saved.
Numbers ==
  /\ sv.ver = runs /\ db.ver = runs
  /\ \A m \in Moms :
       /\ mom[m].ver <= runs
       /\ \A i \in Positions(toMom[m]) :
            toMom[m][i].k = "Run" => /\ toMom[m][i].ver = toMom[m][i].run
                                     /\ toMom[m][i].run \in 1..runs
       /\ \A i \in Positions(toSvr[m]) :
            /\ (toSvr[m][i].k \in Tells => toSvr[m][i].ver <= runs)
            /\ (toSvr[m][i].k = "Reply" => toSvr[m][i].id <= runs)

\* A job that has been started is on a host, in memory and in the database.
Hosts ==
  /\ up /\ sv.st \in Running \cup Exiting => sv.host \in Moms /\ db.host = sv.host /\ runs > 0
  /\ db.st \in {"RUNNING"} \cup Exiting => db.host \in Moms /\ runs > 0
  /\ sv.st = db.st \/ (sv.st = "QUEUED" /\ db.st = "PRERUN")

\* The server does not take the job to be started; it waits for the MoM's answer
Settled == /\ db.st \in {"QUEUED", "PRERUN", "gone"}
           /\ up => sv.st \in {"QUEUED", "gone"}

Sent(m) == /\ db.st \in {"QUEUED", "PRERUN", "gone"}
           /\ up /\ sv.st = "PRERUN" /\ runs \in pend[m]

\* the order that carries the present run
Carries(m, i) == i \in Positions(toMom[m]) /\ toMom[m][i].k = "Run" /\ toMom[m][i].run = runs

OnTheWay == \E m \in Moms : \E i \in Positions(toMom[m]) : Carries(m, i)

\* the number of the present run, with that run or an earlier one
Numbered(x) == x.ver = runs /\ x.ver > 0

Good(x) == Numbered(x) /\ x.run = runs

Bad(x) == Numbered(x) /\ x.run # runs

Told(m, i) == i \in Positions(toSvr[m]) /\ toSvr[m][i].k \in Tells

Answers(m, i) == i \in Positions(toSvr[m]) /\ toSvr[m][i].k = "Reply" /\ toSvr[m][i].id = runs

SomeGood == \E m \in Moms : Good(mom[m]) \/ \E i \in Positions(toSvr[m]) : Told(m, i) /\ Good(toSvr[m][i])

SomeBad == \E m \in Moms : Bad(mom[m]) \/ \E i \in Positions(toSvr[m]) : Told(m, i) /\ Bad(toSvr[m][i])

\* While the order is on its way nothing else has its number and nobody has answered it.
Ahead ==
  /\ \A m, n \in Moms : \A i \in Positions(toMom[m]), j \in Positions(toMom[n]) :
       Carries(m, i) /\ Carries(n, j) => m = n /\ i = j
  /\ \A m \in Moms : \A i \in Positions(toMom[m]) : Carries(m, i) => Settled \/ Sent(m)
  /\ \A m \in Moms : \A i \in Positions(toMom[m]) : toMom[m][i].k = "Run" => link[m] \in Connected
  /\ OnTheWay => /\ ~SomeGood /\ ~SomeBad
                 /\ \A m \in Moms : \A i \in Positions(toSvr[m]) : ~Answers(m, i)

\* the present run and an earlier one never share the number, and a send that overwrote an
\* earlier one is not answered OK
OneKind ==
  SomeBad => /\ ~SomeGood
             /\ \A m \in Moms : \A i \in Positions(toSvr[m]) :
                  Answers(m, i) => toSvr[m][i].code # "OK"

\* before the j-th message of the MoM the server reads that the send was refused
Refused(m, j) == \E i \in Positions(toSvr[m]) :
                   i < j /\ Answers(m, i) /\ toSvr[m][i].code = "JOBEXIST"

Shielded ==
  \A m \in Moms :
    /\ Bad(mom[m]) => Settled \/ (Sent(m) /\ Refused(m, Len(toSvr[m]) + 1))
    /\ \A j \in Positions(toSvr[m]) :
         Told(m, j) /\ Bad(toSvr[m][j]) => Settled \/ (Sent(m) /\ Refused(m, j))

\* the types of what the numbers are about
Types ==
  /\ up \in BOOLEAN
  /\ sv \in [st : States, ver : Versions, host : Moms \cup {NoMom}, asked : BOOLEAN]
  /\ db \in [st : States, ver : Versions, host : Moms \cup {NoMom}]
  /\ pend \in [Moms -> SUBSET Versions] /\ link \in [Moms -> Links] /\ mom \in [Moms -> Jobs]
  /\ toMom \in [Moms -> Seq(Orders)] /\ toSvr \in [Moms -> Seq(Reports)]
  /\ runs \in 0..MaxRuns /\ forced \subseteq Links /\ faults \in 0..MaxFaults

IInv == Types /\ Numbers /\ Hosts /\ Ahead /\ OneKind /\ Shielded

-----------------------------------------------------------------------------
(* Streams.                                                                 *)

\* t is s without its first d messages, and whatever else it has are no runs
RunsOf(s, t, d) == \A i \in Positions(t) :
                     t[i].k = "Run" => i + d \in Positions(s) /\ s[i + d] = t[i]

\* ... and whatever else it has tells of job j or of no job, or answers a send before r
SaysOf(s, t, d, j, r) ==
  \A i \in Positions(t) :
    t[i].k \in Tells \cup {"Reply"} =>
      \/ i + d \in Positions(s) /\ s[i + d] = t[i]
      \/ i + d > Len(s) /\ t[i].k \in Tells /\ t[i].ver = j.ver /\ t[i].run = j.run
      \/ t[i].k = "Reply" /\ t[i].id < r

\* no answer to the send of run r is among the first d messages
AnswersOf(s, t, d, r) ==
  \A i \in Positions(s) :
    s[i].k = "Reply" /\ s[i].id = r => i - d \in Positions(t) /\ t[i - d] = s[i]

\* Orders that stay, are read, follow, or are lost with the stream.
LEMMA RunsKept ==
  ASSUME NEW s \in Seq(Orders)
  PROVE  /\ RunsOf(s, s, 0)
         /\ s # <<>> => RunsOf(s, Tail(s), 1)
         /\ \A r \in Seq(Orders) : (\A i \in Positions(r) : r[i].k # "Run") => RunsOf(s, s \o r, 0)
         /\ RunsOf(s, <<>>, 0)
<1>1. RunsOf(s, s, 0)
  BY DEF RunsOf, Positions
<1>2. s # <<>> => RunsOf(s, Tail(s), 1)
  BY DEF RunsOf, Positions
<1>3. ASSUME NEW r \in Seq(Orders), \A i \in Positions(r) : r[i].k # "Run"
      PROVE  RunsOf(s, s \o r, 0)
  <2>1. /\ Len(s \o r) = Len(s) + Len(r) /\ Len(s) \in Nat /\ Len(r) \in Nat
        /\ \A i \in 1..Len(s \o r) : (s \o r)[i] = IF i <= Len(s) THEN s[i] ELSE r[i - Len(s)]
    OBVIOUS
  <2> QED BY <2>1, <1>3 DEF RunsOf, Positions
<1>4. RunsOf(s, <<>>, 0)
  BY DEF RunsOf, Positions
<1> QED BY <1>1, <1>2, <1>3, <1>4

\* Reports that stay, are read, follow, or are lost with the stream.
LEMMA SaysKept ==
  ASSUME NEW s \in Seq(Reports), NEW j \in Jobs, NEW r
  PROVE  /\ SaysOf(s, s, 0, j, r) /\ AnswersOf(s, s, 0, r)
         /\ s # <<>> => /\ SaysOf(s, Tail(s), 1, j, r)
                        /\ Head(s).k # "Reply" \/ Head(s).id # r => AnswersOf(s, Tail(s), 1, r)
         /\ \A x \in Reports : x.k \notin Tells \cup {"Reply"} \/ x = ResUsed(j) \/ x = JobObit(j)
              => SaysOf(s, s \o <<x>>, 0, j, r) /\ AnswersOf(s, s \o <<x>>, 0, r)
         /\ SaysOf(s, <<>>, 0, j, r)
<1>1. SaysOf(s, s, 0, j, r) /\ AnswersOf(s, s, 0, r)
  BY DEF SaysOf, AnswersOf, Positions
<1>2. ASSUME s # <<>>
      PROVE  /\ SaysOf(s, Tail(s), 1, j, r)
             /\ Head(s).k # "Reply" \/ Head(s).id # r => AnswersOf(s, Tail(s), 1, r)
  <2>1. /\ Len(Tail(s)) = Len(s) - 1 /\ Len(s) \in Nat /\ Head(s) = s[1]
        /\ \A i \in 1..Len(Tail(s)) : Tail(s)[i] = s[i + 1]
    BY <1>2
  <2> QED BY <2>1 DEF SaysOf, AnswersOf, Positions
<1>3. ASSUME NEW x \in Reports,
             x.k \notin Tells \cup {"Reply"} \/ x = ResUsed(j) \/ x = JobObit(j)
      PROVE  SaysOf(s, s \o <<x>>, 0, j, r) /\ AnswersOf(s, s \o <<x>>, 0, r)
  <2>1. /\ Len(s \o <<x>>) = Len(s) + 1 /\ Len(s) \in Nat
        /\ \A i \in 1..Len(s \o <<x>>) : (s \o <<x>>)[i] = IF i <= Len(s) THEN s[i] ELSE x
    OBVIOUS
  <2>2. x.k \in Tells \cup {"Reply"} => x.k \in Tells /\ x.ver = j.ver /\ x.run = j.run
    BY <1>3 DEF ResUsed, JobObit, Tells
  <2>3. SaysOf(s, s \o <<x>>, 0, j, r)
    BY <2>1, <2>2 DEF SaysOf, Positions
  <2>4. AnswersOf(s, s \o <<x>>, 0, r)
    BY <2>1 DEF AnswersOf, Positions
  <2> QED BY <2>3, <2>4
<1>4. SaysOf(s, <<>>, 0, j, r)
  BY DEF SaysOf, Positions
<1> QED BY <1>1, <1>2, <1>3, <1>4

-----------------------------------------------------------------------------
(* Steps that neither number a run nor take one.                            *)

OrdersKept == \A n \in Moms : \E d \in {0, 1} : RunsOf(toMom[n], toMom'[n], d)

\* no answer is lost on which the server waits
ReportsKept == \A n \in Moms : \E d \in {0, 1} :
                 /\ SaysOf(toSvr[n], toSvr'[n], d, mom[n], runs)
                 /\ ~Settled' /\ Sent(n)' => AnswersOf(toSvr[n], toSvr'[n], d, runs)

LinksKept == \A n \in Moms : link[n] \in Connected => link'[n] \in Connected \/ toMom'[n] = <<>>

JobsKept == \A n \in Moms : \/ mom'[n].ver = 0
                            \/ mom'[n].ver < runs
                            \/ mom'[n].ver = mom[n].ver /\ mom'[n].run = mom[n].run

\* the server does not come to take the job to be started as long as there is an order or
\* an earlier run with the number
StateKept == OnTheWay \/ SomeBad => /\ Settled => Settled'
                                    /\ \A n \in Moms : Sent(n) => Settled' \/ Sent(n)'

VersionKept == runs' = runs /\ sv'.ver = runs /\ db'.ver = runs

\* These steps preserve the invariant about numbers.
LEMMA KeepsNumbers ==
  ASSUME Types, Types', Numbers, Ahead, OneKind, Shielded,
         OrdersKept, ReportsKept, LinksKept, JobsKept, StateKept, VersionKept
  PROVE  Numbers' /\ Ahead' /\ OneKind' /\ Shielded'
<1>0. /\ runs \in Nat /\ runs' = runs
      /\ \A n \in Moms : /\ mom[n] \in Jobs /\ mom'[n] \in Jobs
                        /\ mom[n].ver \in Nat /\ mom'[n].ver \in Nat
                        /\ Len(toMom[n]) \in Nat /\ Len(toMom'[n]) \in Nat
                        /\ Len(toSvr[n]) \in Nat /\ Len(toSvr'[n]) \in Nat
  <2>1. runs \in Nat /\ runs' = runs
    BY DEF Types, VersionKept
  <2>2. \A j \in Jobs : j.ver \in Nat
    BY DEF Jobs, Versions
  <2>3. ASSUME NEW n \in Moms  PROVE  mom[n] \in Jobs /\ mom'[n] \in Jobs
    BY DEF Types
  <2>4. ASSUME NEW n \in Moms
        PROVE  /\ Len(toMom[n]) \in Nat /\ Len(toMom'[n]) \in Nat
               /\ Len(toSvr[n]) \in Nat /\ Len(toSvr'[n]) \in Nat
    <3>1. /\ toMom[n] \in Seq(Orders) /\ toMom'[n] \in Seq(Orders)
          /\ toSvr[n] \in Seq(Reports) /\ toSvr'[n] \in Seq(Reports)
      BY DEF Types
    <3> QED BY <3>1
  <2> QED BY <2>1, <2>2, <2>3, <2>4
\* where an order and a report come from
<1>1. ASSUME NEW n \in Moms
      PROVE  \E d \in {0, 1} : RunsOf(toMom[n], toMom'[n], d)
  BY DEF OrdersKept
<1>2. ASSUME NEW n \in Moms, NEW i \in Positions(toMom'[n]), toMom'[n][i].k = "Run"
      PROVE  \E h \in Positions(toMom[n]) : toMom[n][h] = toMom'[n][i]
  BY <1>1, <1>2 DEF RunsOf
<1>3. ASSUME NEW n \in Moms, NEW i \in Positions(toSvr'[n]), toSvr'[n][i].k \in Tells
      PROVE  \/ \E h \in Positions(toSvr[n]) : toSvr[n][h] = toSvr'[n][i]
             \/ toSvr'[n][i].ver = mom[n].ver /\ toSvr'[n][i].run = mom[n].run
  BY <1>3 DEF ReportsKept, SaysOf, Tells
<1>4. ASSUME NEW n \in Moms, NEW i \in Positions(toSvr'[n]), toSvr'[n][i].k = "Reply"
      PROVE  \/ \E h \in Positions(toSvr[n]) : toSvr[n][h] = toSvr'[n][i]
             \/ toSvr'[n][i].id < runs
  BY <1>4 DEF ReportsKept, SaysOf, Tells
<1>5. Numbers'
  <2> SUFFICES ASSUME NEW m \in Moms
               PROVE  /\ mom'[m].ver <= runs
                      /\ \A i \in Positions(toMom'[m]) :
                           toMom'[m][i].k = "Run" => /\ toMom'[m][i].ver = toMom'[m][i].run
                                                    /\ toMom'[m][i].run \in 1..runs
                      /\ \A i \in Positions(toSvr'[m]) :
                           /\ (toSvr'[m][i].k \in Tells => toSvr'[m][i].ver <= runs)
                           /\ (toSvr'[m][i].k = "Reply" => toSvr'[m][i].id <= runs)
    BY DEF Numbers, VersionKept
  <2>1. mom'[m].ver <= runs
    BY <1>0 DEF Numbers, JobsKept
  <2>2. ASSUME NEW i \in Positions(toMom'[m]), toMom'[m][i].k = "Run"
        PROVE  toMom'[m][i].ver = toMom'[m][i].run /\ toMom'[m][i].run \in 1..runs
    BY <1>2, <2>2 DEF Numbers
  <2>3. ASSUME NEW i \in Positions(toSvr'[m]), toSvr'[m][i].k \in Tells
        PROVE  toSvr'[m][i].ver <= runs
    BY <1>3, <2>3 DEF Numbers
  <2>4. ASSUME NEW i \in Positions(toSvr'[m]), toSvr'[m][i].k = "Reply"
        PROVE  toSvr'[m][i].id <= runs
    <3>1. toSvr'[m][i].id \in Nat
      <4>1. toSvr'[m][i] \in Reports
        BY <1>0 DEF Types, Positions
      <4> QED BY <2>4, <4>1 DEF Reports, Versions
    <3> QED BY <1>0, <1>4, <2>4, <3>1 DEF Numbers
  <2> QED BY <2>1, <2>2, <2>3, <2>4
\* nothing new
<1>6. OnTheWay' => OnTheWay
  BY <1>0, <1>2 DEF OnTheWay, Carries
<1>7. SomeGood' => SomeGood
  <2>1. ASSUME NEW m \in Moms, Good(mom[m])'  PROVE  SomeGood
    BY <1>0, <2>1 DEF JobsKept, Good, Numbered, SomeGood
  <2>2. ASSUME NEW m \in Moms, NEW i \in Positions(toSvr'[m]), Told(m, i)', Good(toSvr[m][i])'
        PROVE  SomeGood
    <3>1. CASE \E h \in Positions(toSvr[m]) : toSvr[m][h] = toSvr'[m][i]
      BY <1>0, <2>2, <3>1 DEF Good, Numbered, SomeGood, Told
    <3>2. CASE toSvr'[m][i].ver = mom[m].ver /\ toSvr'[m][i].run = mom[m].run
      BY <1>0, <2>2, <3>2 DEF Good, Numbered, SomeGood, Told
    <3> QED BY <1>3, <2>2, <3>1, <3>2 DEF Told
  <2> QED BY <2>1, <2>2 DEF SomeGood
<1>8. SomeBad' => SomeBad
  <2>1. ASSUME NEW m \in Moms, Bad(mom[m])'  PROVE  SomeBad
    BY <1>0, <2>1 DEF JobsKept, Bad, Numbered, SomeBad
  <2>2. ASSUME NEW m \in Moms, NEW i \in Positions(toSvr'[m]), Told(m, i)', Bad(toSvr[m][i])'
        PROVE  SomeBad
    <3>1. CASE \E h \in Positions(toSvr[m]) : toSvr[m][h] = toSvr'[m][i]
      BY <1>0, <2>2, <3>1 DEF Bad, Numbered, SomeBad, Told
    <3>2. CASE toSvr'[m][i].ver = mom[m].ver /\ toSvr'[m][i].run = mom[m].run
      BY <1>0, <2>2, <3>2 DEF Bad, Numbered, SomeBad, Told
    <3> QED BY <1>3, <2>2, <3>1, <3>2 DEF Told
  <2> QED BY <2>1, <2>2 DEF SomeBad
<1>9. ASSUME NEW m \in Moms, NEW i \in Positions(toSvr'[m]), Answers(m, i)'
      PROVE  \E h \in Positions(toSvr[m]) : Answers(m, h) /\ toSvr[m][h] = toSvr'[m][i]
  BY <1>0, <1>4, <1>9 DEF Answers
<1>10. Ahead'
  <2>1. ASSUME NEW m \in Moms, NEW n \in Moms,
               NEW i \in Positions(toMom'[m]), NEW j \in Positions(toMom'[n]),
               Carries(m, i)', Carries(n, j)'
        PROVE  m = n /\ i = j
    <3>1. PICK d \in {0, 1} : RunsOf(toMom[m], toMom'[m], d)
      BY <1>1
    <3>2. PICK e \in {0, 1} : RunsOf(toMom[n], toMom'[n], e)
      BY <1>1
    <3>3. Carries(m, i + d) /\ i + d \in Positions(toMom[m])
      BY <1>0, <2>1, <3>1 DEF RunsOf, Carries
    <3>4. Carries(n, j + e) /\ j + e \in Positions(toMom[n])
      BY <1>0, <2>1, <3>2 DEF RunsOf, Carries
    <3>5. m = n /\ i + d = j + e
      BY <3>3, <3>4 DEF Ahead
    <3>6. Carries(m, j + d)
      BY <1>0, <2>1, <3>1, <3>5 DEF RunsOf, Carries
    <3>7. j + d = j + e
      BY <3>4, <3>5, <3>6 DEF Ahead, Carries
    <3> QED BY <3>5, <3>7, i \in Int, j \in Int DEF Positions
  <2>2. ASSUME NEW m \in Moms, NEW i \in Positions(toMom'[m]), Carries(m, i)'
        PROVE  Settled' \/ Sent(m)'
    <3>1. \E h \in Positions(toMom[m]) : Carries(m, h)
      BY <1>0, <1>2, <2>2 DEF Carries
    <3>2. OnTheWay /\ (Settled \/ Sent(m))
      BY <3>1 DEF OnTheWay, Ahead
    <3> QED BY <3>2 DEF StateKept
  <2>3. ASSUME NEW m \in Moms, NEW i \in Positions(toMom'[m]), toMom'[m][i].k = "Run"
        PROVE  link'[m] \in Connected
    <3>1. link[m] \in Connected
      BY <1>2, <2>3 DEF Ahead
    <3>2. toMom'[m] # <<>>
      BY <1>0 DEF Positions
    <3> QED BY <3>1, <3>2 DEF LinksKept
  <2>4. OnTheWay' => /\ ~SomeGood' /\ ~SomeBad'
                     /\ \A m \in Moms : \A i \in Positions(toSvr'[m]) : ~Answers(m, i)'
    BY <1>6, <1>7, <1>8, <1>9 DEF Ahead
  <2> QED BY <2>1, <2>2, <2>3, <2>4 DEF Ahead
<1>11. OneKind'
  BY <1>7, <1>8, <1>9 DEF OneKind
<1>12. Shielded'
  <2> SUFFICES ASSUME NEW m \in Moms, ~Settled'
               PROVE  /\ Bad(mom[m])' => Sent(m)' /\ Refused(m, Len(toSvr[m]) + 1)'
                      /\ \A j \in Positions(toSvr'[m]) :
                           Told(m, j)' /\ Bad(toSvr[m][j])' => Sent(m)' /\ Refused(m, j)'
    BY DEF Shielded
  <2>1. PICK d \in {0, 1} : /\ SaysOf(toSvr[m], toSvr'[m], d, mom[m], runs)
                            /\ Sent(m)' => AnswersOf(toSvr[m], toSvr'[m], d, runs)
    BY DEF ReportsKept
  <2>2. SomeBad => ~Settled /\ (Sent(m) => Sent(m)')
    BY DEF StateKept
  \* a refusal stays before what it was before
  <2>3. ASSUME NEW j \in Nat, Sent(m)', Refused(m, j + d), j <= Len(toSvr'[m]) + 1
        PROVE  Refused(m, j)'
    <3>1. PICK i \in Positions(toSvr[m]) : /\ i < j + d /\ Answers(m, i)
                                           /\ toSvr[m][i].code = "JOBEXIST"
      BY <2>3 DEF Refused
    <3>2. i - d \in Positions(toSvr'[m]) /\ toSvr'[m][i - d] = toSvr[m][i]
      BY <2>1, <2>3, <3>1 DEF AnswersOf, Answers
    <3>3. i - d < j
      BY <1>0, <3>1 DEF Positions
    <3> QED BY <1>0, <3>1, <3>2, <3>3 DEF Refused, Answers
  <2>4. ASSUME Bad(mom[m])'
        PROVE  Sent(m)' /\ Refused(m, Len(toSvr[m]) + 1)'
    <3>1. Bad(mom[m]) /\ SomeBad
      BY <1>0, <2>4 DEF JobsKept, Bad, Numbered, SomeBad
    <3>2. Sent(m)' /\ Refused(m, Len(toSvr[m]) + 1)
      BY <2>2, <3>1 DEF Shielded
    <3>3. PICK i \in Positions(toSvr[m]) : Answers(m, i) /\ toSvr[m][i].code = "JOBEXIST"
      BY <3>2 DEF Refused
    <3>4. i - d \in Positions(toSvr'[m]) /\ toSvr'[m][i - d] = toSvr[m][i]
      BY <2>1, <3>2, <3>3 DEF AnswersOf, Answers
    <3>5. i - d < Len(toSvr'[m]) + 1
      BY <1>0, <3>4 DEF Positions
    <3> QED BY <1>0, <3>2, <3>3, <3>4, <3>5 DEF Refused, Answers
  <2>5. ASSUME NEW j \in Positions(toSvr'[m]), Told(m, j)', Bad(toSvr[m][j])'
        PROVE  Sent(m)' /\ Refused(m, j)'
    <3>0. j \in Nat /\ j <= Len(toSvr'[m]) + 1
      BY <1>0 DEF Positions
    <3>1. CASE j + d \in Positions(toSvr[m]) /\ toSvr[m][j + d] = toSvr'[m][j]
      <4>1. Told(m, j + d) /\ Bad(toSvr[m][j + d]) /\ SomeBad
        BY <1>0, <2>5, <3>1 DEF Told, Bad, Numbered, SomeBad
      <4>2. Sent(m)' /\ Refused(m, j + d)
        BY <2>2, <3>1, <4>1 DEF Shielded
      <4> QED BY <2>3, <3>0, <4>2
    <3>2. CASE j + d > Len(toSvr[m]) /\ toSvr'[m][j].ver = mom[m].ver /\ toSvr'[m][j].run = mom[m].run
      <4>1. Bad(mom[m]) /\ SomeBad
        BY <1>0, <2>5, <3>2 DEF Told, Bad, Numbered, SomeBad
      <4>2. Sent(m)' /\ Refused(m, Len(toSvr[m]) + 1)
        BY <2>2, <4>1 DEF Shielded
      <4>3. Refused(m, j + d)
        BY <1>0, <3>2, <4>2 DEF Refused, Positions
      <4> QED BY <2>3, <3>0, <4>2, <4>3
    <3> QED BY <2>1, <2>5, <3>1, <3>2 DEF SaysOf, Told, Tells
  <2> QED BY <2>4, <2>5
<1> QED BY <1>5, <1>10, <1>11, <1>12

-----------------------------------------------------------------------------
(* What the steps do to the streams.                                        *)

\* The messages have their types.
LEMMA MessageTypes ==
  /\ NoJob \in Jobs
  /\ \A v \in Versions, r \in Versions : Run(v, r) \in Orders
  /\ \A v \in Versions \cup {AnyVersion} : Discard(v) \in Orders
  /\ {BadObit, DeleteJob, Hello, ClusterAddrs} \subseteq Orders
  /\ \A r \in Versions, c \in {"OK", "JOBEXIST"} : Reply(r, c) \in Reports
  /\ \A j \in Jobs : ResUsed(j) \in Reports /\ JobObit(j) \in Reports /\ Hello4(j) \in Reports
  /\ {Deleted, MomReady} \subseteq Reports
<1>1. NoJob \in Jobs
  BY RunVersionAssumption DEF NoJob, Jobs, Versions
<1>2. /\ \A v \in Versions, r \in Versions : Run(v, r) \in Orders
      /\ \A v \in Versions \cup {AnyVersion} : Discard(v) \in Orders
      /\ {BadObit, DeleteJob, Hello, ClusterAddrs} \subseteq Orders
  BY DEF Orders, Run, Discard, BadObit, DeleteJob, Hello, ClusterAddrs
<1>3. /\ \A r \in Versions, c \in {"OK", "JOBEXIST"} : Reply(r, c) \in Reports
      /\ \A j \in Jobs : Hello4(j) \in Reports
      /\ {Deleted, MomReady} \subseteq Reports
  BY DEF Reports, Reply, Hello4, Deleted, MomReady
<1>4. \A j \in Jobs : ResUsed(j) \in Reports /\ JobObit(j) \in Reports
  BY DEF Reports, ResUsed, JobObit, Jobs
<1> QED BY <1>1, <1>2, <1>3, <1>4

\* The MoM reads an order.
LEMMA TakeKeeps ==
  ASSUME Types, NEW m \in Moms, NEW kind, Take(m, kind)
  PROVE  /\ Order(m) \in Orders /\ Order(m).k = kind
         /\ toMom' \in [Moms -> Seq(Orders)]
         /\ OrdersKept
<1>1. toMom[m] \in Seq(Orders) /\ toMom[m] # <<>> /\ toMom \in [Moms -> Seq(Orders)]
  BY DEF Types, Take
<1>2. Order(m) \in Orders /\ Order(m).k = kind /\ Tail(toMom[m]) \in Seq(Orders)
  BY <1>1 DEF Order, Take
<1>3. toMom' = [toMom EXCEPT ![m] = Tail(toMom[m])]
  BY DEF Take
<1>4. toMom' \in [Moms -> Seq(Orders)]
  BY <1>1, <1>2, <1>3
<1>5. ASSUME NEW n \in Moms
      PROVE  \E d \in {0, 1} : RunsOf(toMom[n], toMom'[n], d)
  <2>1. CASE n = m
    BY <1>1, <1>3, <2>1, RunsKept
  <2>2. CASE n # m
    <3>1. toMom[n] \in Seq(Orders) /\ toMom'[n] = toMom[n]
      BY <1>1, <1>3, <2>2
    <3> QED BY <3>1, RunsKept
  <2> QED BY <2>1, <2>2
<1> QED BY <1>2, <1>4, <1>5 DEF OrdersKept

\* Orders that stay.
LEMMA SameOrders ==
  ASSUME Types, UNCHANGED toMom
  PROVE  toMom' \in [Moms -> Seq(Orders)] /\ OrdersKept
<1>1. \A n \in Moms : toMom[n] \in Seq(Orders)
  BY DEF Types
<1>2. \A n \in Moms : RunsOf(toMom[n], toMom'[n], 0)
  BY <1>1, RunsKept
<1> QED BY <1>2 DEF OrdersKept, Types

\* Orders other than a run follow.
LEMMA TellKeeps ==
  ASSUME Types, NEW m \in Moms, NEW msgs \in Seq(Orders),
         \A i \in Positions(msgs) : msgs[i].k # "Run",
         toMom' = toMom \/ toMom' = [toMom EXCEPT ![m] = @ \o msgs]
  PROVE  toMom' \in [Moms -> Seq(Orders)] /\ OrdersKept
<1>1. CASE toMom' = toMom
  BY <1>1, SameOrders
<1>2. CASE toMom' = [toMom EXCEPT ![m] = @ \o msgs]
  <2>1. toMom[m] \in Seq(Orders) /\ toMom \in [Moms -> Seq(Orders)]
    BY DEF Types
  <2>2. toMom[m] \o msgs \in Seq(Orders)
    BY <2>1
  <2>3. toMom' \in [Moms -> Seq(Orders)]
    BY <1>2, <2>1, <2>2
  <2>4. ASSUME NEW n \in Moms
        PROVE  RunsOf(toMom[n], toMom'[n], 0)
    <3>1. CASE n = m
      <4>1. toMom'[n] = toMom[n] \o msgs
        BY <1>2, <2>1, <3>1
      <4> QED BY <2>1, <3>1, <4>1, RunsKept
    <3>2. CASE n # m
      <4>1. toMom[n] \in Seq(Orders) /\ toMom'[n] = toMom[n]
        BY <1>2, <2>1, <3>2
      <4> QED BY <4>1, RunsKept
    <3> QED BY <3>1, <3>2
  <2> QED BY <2>3, <2>4 DEF OrdersKept
<1> QED BY <1>1, <1>2

\* The server reads a report that is no answer, or one it does not wait for.
LEMMA ReadKeeps ==
  ASSUME Types, NEW m \in Moms, NEW kind, Read(m, kind)
  PROVE  /\ Msg(m) \in Reports /\ Msg(m).k = kind /\ Msg(m) = toSvr[m][1]
         /\ 1 \in Positions(toSvr[m])
         /\ toSvr' \in [Moms -> Seq(Reports)]
         /\ kind # "Reply" \/ Msg(m).id # runs \/ Settled' \/ ~Sent(m)' => ReportsKept
<1>1. toSvr[m] \in Seq(Reports) /\ toSvr[m] # <<>> /\ toSvr \in [Moms -> Seq(Reports)]
  BY DEF Types, Read
<1>2. /\ Msg(m) \in Reports /\ Msg(m).k = kind /\ Msg(m) = toSvr[m][1]
      /\ 1 \in Positions(toSvr[m])
      /\ Tail(toSvr[m]) \in Seq(Reports)
  BY <1>1 DEF Msg, Read, Positions
<1>3. toSvr' = [toSvr EXCEPT ![m] = Tail(toSvr[m])]
  BY DEF Read
<1>4. toSvr' \in [Moms -> Seq(Reports)]
  BY <1>1, <1>2, <1>3
<1>5. ASSUME NEW n \in Moms, kind # "Reply" \/ Msg(m).id # runs \/ Settled' \/ ~Sent(m)'
      PROVE  \E d \in {0, 1} : /\ SaysOf(toSvr[n], toSvr'[n], d, mom[n], runs)
                               /\ ~Settled' /\ Sent(n)' => AnswersOf(toSvr[n], toSvr'[n], d, runs)
  <2>0. mom[n] \in Jobs /\ toSvr[n] \in Seq(Reports)
    BY DEF Types
  <2>1. CASE n = m
    <3>1. toSvr'[n] = Tail(toSvr[n]) /\ toSvr[n] # <<>> /\ Head(toSvr[n]).k = kind
          /\ Head(toSvr[n]) = Msg(m)
      BY <1>1, <1>2, <1>3, <2>1 DEF Msg
    <3>2. SaysOf(toSvr[n], toSvr'[n], 1, mom[n], runs)
      BY <2>0, <3>1, SaysKept
    <3>3. kind # "Reply" \/ Msg(m).id # runs => AnswersOf(toSvr[n], toSvr'[n], 1, runs)
      BY <2>0, <3>1, SaysKept
    <3> QED BY <1>5, <2>1, <3>2, <3>3
  <2>2. CASE n # m
    <3>1. toSvr'[n] = toSvr[n]
      BY <1>1, <1>3, <2>2
    <3> QED BY <2>0, <3>1, SaysKept
  <2> QED BY <2>1, <2>2
<1> QED BY <1>2, <1>4, <1>5 DEF ReportsKept

\* Reports that stay.
LEMMA SameReports ==
  ASSUME Types, UNCHANGED toSvr
  PROVE  toSvr' \in [Moms -> Seq(Reports)] /\ ReportsKept
<1>1. \A n \in Moms : toSvr[n] \in Seq(Reports) /\ mom[n] \in Jobs
  BY DEF Types
<1>2. \A n \in Moms : SaysOf(toSvr[n], toSvr'[n], 0, mom[n], runs) /\ AnswersOf(toSvr[n], toSvr'[n], 0, runs)
  BY <1>1, SaysKept
<1> QED BY <1>2 DEF ReportsKept, Types

\* The MoM tells of her job or of none.
LEMMA SayKeeps ==
  ASSUME Types, NEW m \in Moms, NEW x \in Reports,
         x.k \notin Tells \cup {"Reply"} \/ x = ResUsed(mom[m]) \/ x = JobObit(mom[m]),
         toSvr' = toSvr \/ toSvr' = [toSvr EXCEPT ![m] = @ \o <<x>>]
  PROVE  toSvr' \in [Moms -> Seq(Reports)] /\ ReportsKept
<1>1. CASE toSvr' = toSvr
  BY <1>1, SameReports
<1>2. CASE toSvr' = [toSvr EXCEPT ![m] = @ \o <<x>>]
  <2>1. toSvr[m] \in Seq(Reports) /\ toSvr \in [Moms -> Seq(Reports)]
    BY DEF Types
  <2>2. toSvr[m] \o <<x>> \in Seq(Reports)
    BY <2>1
  <2>3. toSvr' \in [Moms -> Seq(Reports)]
    BY <1>2, <2>1, <2>2
  <2>4. ASSUME NEW n \in Moms
        PROVE  SaysOf(toSvr[n], toSvr'[n], 0, mom[n], runs) /\ AnswersOf(toSvr[n], toSvr'[n], 0, runs)
    <3>0. mom[n] \in Jobs /\ toSvr[n] \in Seq(Reports)
      BY DEF Types
    <3>1. CASE n = m
      <4>1. toSvr'[n] = toSvr[n] \o <<x>>
        BY <1>2, <2>1, <3>1
      <4> QED BY <3>0, <3>1, <4>1, SaysKept
    <3>2. CASE n # m
      <4>1. toSvr'[n] = toSvr[n]
        BY <1>2, <2>1, <3>2
      <4> QED BY <3>0, <4>1, SaysKept
    <3> QED BY <3>1, <3>2
  <2> QED BY <2>3, <2>4 DEF ReportsKept
<1> QED BY <1>1, <1>2

-----------------------------------------------------------------------------
(* The MoM.                                                                 *)

\* The server's part is left alone.
LEMMA MomStep ==
  ASSUME IInv, MomOnly, NEW m \in Moms,
         link' \in [Moms -> Links], toMom' \in [Moms -> Seq(Orders)],
         toSvr' \in [Moms -> Seq(Reports)], NEW j \in Jobs, mom' = [mom EXCEPT ![m] = j],
         j = NoJob \/ (j.ver = mom[m].ver /\ j.run = mom[m].run),
         OrdersKept, ReportsKept, LinksKept
  PROVE  IInv'
<1>1. Types'
  BY DEF IInv, Types, MomOnly, bounds
<1>2. Hosts'
  BY DEF IInv, Hosts, MomOnly
<1>3. JobsKept
  <2>1. ASSUME NEW n \in Moms, mom'[n].ver # 0
        PROVE  mom'[n].ver = mom[n].ver /\ mom'[n].run = mom[n].run
    <3>1. CASE n = m
      <4>1. mom'[n] = j
        BY <3>1 DEF IInv, Types
      <4>2. j # NoJob
        BY <2>1, <4>1 DEF NoJob
      <4> QED BY <3>1, <4>1, <4>2
    <3>2. CASE n # m
      BY <3>2 DEF IInv, Types
    <3> QED BY <3>1, <3>2
  <2> QED BY <2>1 DEF JobsKept
<1>4. StateKept
  BY DEF StateKept, Settled, Sent, MomOnly
<1>5. VersionKept
  BY DEF VersionKept, MomOnly, IInv, Numbers
<1> QED BY <1>1, <1>2, <1>3, <1>4, <1>5, KeepsNumbers DEF IInv

\* A message alone.
LEMMA SayIs ==
  ASSUME NEW m \in Moms, NEW x, Say(m, <<x>>)
  PROVE  toSvr' = toSvr \/ toSvr' = [toSvr EXCEPT ![m] = @ \o <<x>>]
BY DEF Say

\* The steps of record_finish_exec, update_jobs_status, send_obit and resend_obit.
LEMMA MomTells ==
  ASSUME IInv, NEW m \in Moms,
         record_finish_exec(m) \/ update_jobs_status(m) \/ send_obit(m) \/ resend_obit(m)
  PROVE  IInv'
<1>1. /\ MomOnly /\ UNCHANGED <<link, toMom>>
      /\ \/ Say(m, <<ResUsed(mom[m])>>)
         \/ Say(m, <<JobObit(mom[m])>>)
  BY DEF record_finish_exec, update_jobs_status, send_obit, resend_obit
<1>2. mom[m] \in Jobs /\ mom \in [Moms -> Jobs] /\ Types
  BY DEF IInv, Types
<1>3. PICK j \in Jobs : mom' = [mom EXCEPT ![m] = j] /\ j.ver = mom[m].ver /\ j.run = mom[m].run
  <2>1. CASE record_finish_exec(m)
    <3>1. [mom[m] EXCEPT !.ss = "RUNNING"] \in Jobs
      BY <1>2 DEF Jobs
    <3> QED BY <1>2, <2>1, <3>1 DEF record_finish_exec, Becomes, Jobs
  <2>2. CASE send_obit(m)
    <3>1. [mom[m] EXCEPT !.ss = "OBIT"] \in Jobs
      BY <1>2 DEF Jobs
    <3> QED BY <1>2, <2>2, <3>1 DEF send_obit, Becomes, Jobs
  <2>3. CASE update_jobs_status(m) \/ resend_obit(m)
    BY <1>2, <2>3 DEF update_jobs_status, resend_obit
  <2> QED BY <2>1, <2>2, <2>3
<1>4. ResUsed(mom[m]) \in Reports /\ JobObit(mom[m]) \in Reports
  BY <1>2, MessageTypes
<1>5. toSvr' \in [Moms -> Seq(Reports)] /\ ReportsKept
  <2>1. CASE Say(m, <<ResUsed(mom[m])>>)
    BY <1>2, <1>4, <2>1, SayIs, SayKeeps
  <2>2. CASE Say(m, <<JobObit(mom[m])>>)
    BY <1>2, <1>4, <2>2, SayIs, SayKeeps
  <2> QED BY <1>1, <2>1, <2>2
<1>6. toMom' \in [Moms -> Seq(Orders)] /\ OrdersKept
  BY <1>1, <1>2, SameOrders
<1>7. link' \in [Moms -> Links] /\ LinksKept
  BY <1>1 DEF IInv, Types, LinksKept
<1> QED BY <1>1, <1>3, <1>5, <1>6, <1>7, MomStep

\* The steps of rid_job, is_discard_job and req_deletejob.
LEMMA MomDrops ==
  ASSUME IInv, NEW m \in Moms, rid_job(m) \/ is_discard_job(m) \/ req_deletejob(m)
  PROVE  IInv'
<1>1. /\ MomOnly /\ UNCHANGED link
      /\ Take(m, "BADOBIT") \/ Take(m, "DISCARD_JOB") \/ Take(m, "DeleteJob")
  BY DEF rid_job, is_discard_job, req_deletejob
<1>2. mom[m] \in Jobs /\ mom \in [Moms -> Jobs] /\ Types
  BY DEF IInv, Types
<1>3. PICK j \in Jobs : mom' = [mom EXCEPT ![m] = j] /\ (j = NoJob \/ j = mom[m])
  BY <1>2, MessageTypes DEF rid_job, is_discard_job, req_deletejob, Becomes
<1>4. toSvr' = toSvr \/ Say(m, <<Deleted>>)
  BY DEF rid_job, is_discard_job, req_deletejob
<1>5. toSvr' \in [Moms -> Seq(Reports)] /\ ReportsKept
  <2>1. Deleted \in Reports /\ Deleted.k \notin Tells \cup {"Reply"}
    BY MessageTypes DEF Deleted, Tells
  <2> QED BY <1>2, <1>4, <2>1, SayIs, SayKeeps
<1>6. toMom' \in [Moms -> Seq(Orders)] /\ OrdersKept
  BY <1>1, <1>2, TakeKeeps
<1>7. link' \in [Moms -> Links] /\ LinksKept
  BY <1>1 DEF IInv, Types, LinksKept
<1> QED BY <1>1, <1>3, <1>5, <1>6, <1>7, MomStep

\* The steps of reply_hello4 and is_cluster_addrs.
LEMMA MomGreets ==
  ASSUME IInv, NEW m \in Moms, reply_hello4(m) \/ is_cluster_addrs(m)
  PROVE  IInv'
<1>1. MomOnly /\ UNCHANGED mom /\ (Take(m, "HELLO") \/ Take(m, "CLUSTER_ADDRS"))
  BY DEF reply_hello4, is_cluster_addrs
<1>2. /\ mom[m] \in Jobs /\ mom' = [mom EXCEPT ![m] = mom[m]] /\ Types
      /\ toSvr \in [Moms -> Seq(Reports)] /\ toSvr[m] \in Seq(Reports)
      /\ link \in [Moms -> Links]
  BY <1>1 DEF IInv, Types
<1>3. Hello4(mom[m]) \in Reports /\ MomReady \in Reports
  BY <1>2, MessageTypes
<1>4. PICK x \in Reports : /\ x.k \notin Tells \cup {"Reply"}
                           /\ toSvr' = toSvr \/ toSvr' = [toSvr EXCEPT ![m] = @ \o <<x>>]
  <2>1. CASE reply_hello4(m)
    <3>1. Append(toSvr[m], Hello4(mom[m])) = toSvr[m] \o <<Hello4(mom[m])>>
      BY <1>2, <1>3
    <3>2. Hello4(mom[m]).k \notin Tells \cup {"Reply"}
      BY DEF Hello4, Tells
    <3> QED BY <1>3, <2>1, <3>1, <3>2 DEF reply_hello4
  <2>2. CASE is_cluster_addrs(m)
    <3>1. MomReady.k \notin Tells \cup {"Reply"} /\ Say(m, <<MomReady>>)
      BY <2>2 DEF MomReady, Tells, is_cluster_addrs
    <3> QED BY <1>3, <3>1, SayIs
  <2> QED BY <2>1, <2>2
<1>5. toSvr' \in [Moms -> Seq(Reports)] /\ ReportsKept
  BY <1>2, <1>4, SayKeeps
<1>6. toMom' \in [Moms -> Seq(Orders)] /\ OrdersKept
  BY <1>1, <1>2, TakeKeeps
<1>7. link' \in [Moms -> Links] /\ LinksKept
  BY <1>2 DEF reply_hello4, is_cluster_addrs, LinksKept, Connected, Links
<1> QED BY <1>1, <1>2, <1>5, <1>6, <1>7, MomStep

-----------------------------------------------------------------------------
(* The server.                                                              *)

SvType == [st : States, ver : Versions, host : Moms \cup {NoMom}, asked : BOOLEAN]

DbType == [st : States, ver : Versions, host : Moms \cup {NoMom}]

\* The MoMs' jobs and the number are left alone.
LEMMA ServerStep ==
  ASSUME IInv, UNCHANGED <<mom, runs>>, forced' \subseteq Links, faults' \in 0..MaxFaults,
         up' \in BOOLEAN, sv' \in SvType, db' \in DbType, pend' \in [Moms -> SUBSET Versions],
         link' \in [Moms -> Links], toMom' \in [Moms -> Seq(Orders)],
         toSvr' \in [Moms -> Seq(Reports)],
         sv'.ver = sv.ver, db'.ver = db.ver \/ db'.ver = sv.ver,
         Hosts', OrdersKept, ReportsKept, LinksKept, StateKept
  PROVE  IInv'
<1>1. Types'
  BY DEF IInv, Types, SvType, DbType
<1>2. JobsKept
  BY DEF JobsKept
<1>3. VersionKept
  BY DEF VersionKept, IInv, Numbers
<1> QED BY <1>1, <1>2, <1>3, KeepsNumbers DEF IInv

\* The job where it is, as the server and the database have it.
LEMMA ServerTypes ==
  ASSUME IInv
  PROVE  /\ Types /\ up \in BOOLEAN /\ sv \in SvType /\ db \in DbType
         /\ pend \in [Moms -> SUBSET Versions] /\ link \in [Moms -> Links]
         /\ forced \subseteq Links /\ faults \in 0..MaxFaults
         /\ sv.st \in States /\ db.st \in States /\ Hosts
         /\ sv.ver = runs /\ db.ver = runs
BY DEF IInv, Types, SvType, DbType, Numbers

\* The operators that change the job.
LEMMA Requeues ==
  ASSUME NEW s \in SvType
  PROVE  /\ SendFailed(s) \in SvType /\ SendFailed(s).ver = s.ver
         /\ SendFailed(s).st = (IF s.st = "gone" THEN "gone" ELSE "QUEUED")
         /\ force_reque(s) \in SvType /\ force_reque(s).ver = s.ver
         /\ force_reque(s).st = "QUEUED"
         /\ job_purge(s) \in SvType /\ job_purge(s).ver = s.ver
         /\ job_purge(s).st = "gone"
         /\ [s EXCEPT !.asked = FALSE] \in SvType /\ [s EXCEPT !.asked = TRUE] \in SvType
<1>1. "QUEUED" \in States /\ "gone" \in States
  BY DEF States
<1>2. /\ [s EXCEPT !.asked = FALSE] \in SvType /\ [s EXCEPT !.asked = TRUE] \in SvType
  BY DEF SvType
<1>3. force_reque(s) \in SvType /\ force_reque(s).ver = s.ver /\ force_reque(s).st = "QUEUED"
  BY <1>1 DEF SvType, force_reque
<1>4. job_purge(s) \in SvType /\ job_purge(s).ver = s.ver /\ job_purge(s).st = "gone"
  BY <1>1 DEF SvType, job_purge
<1>5. /\ SendFailed(s) \in SvType /\ SendFailed(s).ver = s.ver
      /\ SendFailed(s).st = (IF s.st = "gone" THEN "gone" ELSE "QUEUED")
  BY <1>1 DEF SvType, SendFailed
<1> QED BY <1>2, <1>3, <1>4, <1>5

\* job_save keeps the types.
LEMMA Saves ==
  ASSUME NEW s \in SvType, db \in DbType
  PROVE  /\ SaveQuick(s) => /\ db' \in DbType /\ db'.st = s.st
                            /\ db'.ver = db.ver /\ db'.host = db.host
         /\ SaveFull(s) => /\ db' \in DbType /\ db'.st = s.st
                           /\ db'.ver = s.ver /\ db'.host = s.host
BY DEF SaveQuick, SaveFull, SvType, DbType

\* The state of the job is left alone, or the job is not running any more.
LEMMA KeepsState ==
  \/ up' = up /\ sv'.st = sv.st /\ db'.st = db.st /\ pend' = pend /\ runs' = runs
  \/ db'.st \in {"QUEUED", "PRERUN", "gone"} /\ sv'.st \in {"QUEUED", "gone"}
  \/ ~OnTheWay /\ ~SomeBad
  => StateKept
BY DEF StateKept, Settled, Sent

\* A job that is not running needs no host.
LEMMA HostsIdle ==
  ASSUME db'.st \in {"QUEUED", "PRERUN", "gone"}, sv'.st \in {"QUEUED", "gone"},
         sv'.st = db'.st \/ (sv'.st = "QUEUED" /\ db'.st = "PRERUN")
  PROVE  Hosts'
BY DEF Hosts, Running, Exiting

\* The step of on_job_exit.
LEMMA StepExit ==
  ASSUME IInv, on_job_exit
  PROVE  IInv'
<1>1. /\ up /\ sv.st \in Exiting /\ sv' = [sv EXCEPT !.asked = TRUE]
      /\ UNCHANGED <<up, db, pend, link, toSvr, mom, runs, forced, faults>>
      /\ Tell(sv.host, <<DeleteJob>>)
  BY DEF on_job_exit, bounds
<1>2. sv.host \in Moms
  BY <1>1, ServerTypes DEF Hosts
<1>3. /\ sv' \in SvType /\ sv'.st = sv.st /\ sv'.ver = sv.ver /\ sv'.host = sv.host
  BY <1>1, ServerTypes, Requeues DEF SvType
<1>4. toMom' \in [Moms -> Seq(Orders)] /\ OrdersKept
  <2>1. <<DeleteJob>> \in Seq(Orders) /\ \A i \in Positions(<<DeleteJob>>) : <<DeleteJob>>[i].k # "Run"
    BY MessageTypes DEF DeleteJob, Positions
  <2> QED BY <1>1, <1>2, <2>1, TellKeeps, ServerTypes DEF Tell
<1>5. toSvr' \in [Moms -> Seq(Reports)] /\ ReportsKept
  BY <1>1, SameReports, ServerTypes
<1>6. LinksKept
  BY <1>1 DEF LinksKept
<1>7. StateKept
  BY <1>1, <1>3, KeepsState
<1>8. Hosts'
  BY <1>1, <1>3, ServerTypes DEF Hosts
<1> QED BY <1>1, <1>3, <1>4, <1>5, <1>6, <1>7, <1>8, ServerStep, ServerTypes

\* The steps of req_rerunjob_force and node_down_requeue.
LEMMA StepRequeue ==
  ASSUME IInv, req_rerunjob_force \/ node_down_requeue
  PROVE  IInv'
<1>1. /\ sv' \in {force_reque(sv), job_purge(sv)} /\ SaveFull(sv')
      /\ UNCHANGED <<up, link, toSvr, mom, runs>>
      /\ up /\ sv.st \in Running \cup Exiting
      /\ pend' = pend \/ pend' = [m \in Moms |-> {}]
      /\ faults' = faults \/ Fault
      /\ forced' = forced \/ forced' = forced \cup {link[sv.host]}
      /\ toMom' = toMom \/ Tell(sv.host, <<Discard(sv.ver)>>)
  BY DEF req_rerunjob_force, node_down_requeue, bounds, NoTasks
<1>2. sv.host \in Moms
  BY <1>1, ServerTypes DEF Hosts
<1>3. /\ sv' \in SvType /\ sv'.st \in {"QUEUED", "gone"} /\ sv'.ver = sv.ver
      /\ db' \in DbType /\ db'.st = sv'.st /\ db'.ver = sv'.ver
  <2>1. sv \in SvType /\ db \in DbType
    BY ServerTypes
  <2>2. sv' \in SvType /\ sv'.st \in {"QUEUED", "gone"} /\ sv'.ver = sv.ver
    BY <1>1, <2>1, Requeues
  <2> QED BY <1>1, <2>1, <2>2, Saves
<1>4. toMom' \in [Moms -> Seq(Orders)] /\ OrdersKept
  <2>1. sv.ver \in Versions
    BY ServerTypes DEF SvType
  <2>2. Discard(sv.ver) \in Orders /\ Discard(sv.ver).k # "Run"
    BY <2>1, MessageTypes DEF Discard
  <2>3. /\ <<Discard(sv.ver)>> \in Seq(Orders)
        /\ \A i \in Positions(<<Discard(sv.ver)>>) : <<Discard(sv.ver)>>[i].k # "Run"
    BY <2>2 DEF Positions
  <2> QED BY <1>1, <1>2, <2>3, TellKeeps, ServerTypes DEF Tell
<1>5. toSvr' \in [Moms -> Seq(Reports)] /\ ReportsKept
  BY <1>1, SameReports, ServerTypes
<1>6. LinksKept
  BY <1>1 DEF LinksKept
<1>7. StateKept
  BY <1>1, <1>3, KeepsState
<1>8. Hosts'
  BY <1>3, HostsIdle
<1>9. faults' \in 0..MaxFaults
  BY <1>1, ServerTypes, RunVersionAssumption DEF Fault
<1>10. forced' \subseteq Links
  BY <1>1, <1>2, ServerTypes
<1>11. pend' \in [Moms -> SUBSET Versions]
  BY <1>1, ServerTypes
<1> QED BY <1>1, <1>3, <1>4, <1>5, <1>6, <1>7, <1>8, <1>9, <1>10, <1>11, ServerStep, ServerTypes

\* The step of ping_a_mom.
LEMMA StepPing ==
  ASSUME IInv, NEW m \in Moms, ping_a_mom(m)
  PROVE  IInv'
<1>1. /\ link' = [link EXCEPT ![m] = IF @ = "none" THEN "pinged" ELSE "hello"]
      /\ link[m] \in {"none", "marked"}
      /\ toMom' = [toMom EXCEPT ![m] = Append(@, Hello)]
      /\ UNCHANGED <<up, sv, db, pend, toSvr, mom, runs, forced, faults>>
  BY DEF ping_a_mom, bounds
<1>2. toMom' \in [Moms -> Seq(Orders)] /\ OrdersKept
  <2>1. Hello \in Orders /\ Hello.k # "Run"
    BY MessageTypes DEF Hello
  <2>2. <<Hello>> \in Seq(Orders) /\ \A i \in Positions(<<Hello>>) : <<Hello>>[i].k # "Run"
    BY <2>1 DEF Positions
  <2>3. toMom[m] \in Seq(Orders)
    BY ServerTypes DEF Types
  <2>4. Append(toMom[m], Hello) = toMom[m] \o <<Hello>>
    BY <2>1, <2>3
  <2> QED BY <1>1, <2>2, <2>4, TellKeeps, ServerTypes
<1>3. toSvr' \in [Moms -> Seq(Reports)] /\ ReportsKept
  BY <1>1, SameReports, ServerTypes
<1>4. link' \in [Moms -> Links] /\ LinksKept
  BY <1>1, ServerTypes DEF LinksKept, Links, Connected
<1>5. StateKept
  BY <1>1, KeepsState
<1>6. Hosts'
  BY <1>1, ServerTypes DEF Hosts
<1> QED BY <1>1, <1>2, <1>3, <1>4, <1>5, <1>6, ServerStep, ServerTypes

\* The steps of is_hello4 and is_mom_ready.
LEMMA StepHello ==
  ASSUME IInv, NEW m \in Moms, is_hello4(m) \/ is_mom_ready(m)
  PROVE  IInv'
<1>1. /\ Read(m, "HELLO4") \/ Read(m, "MOM_READY")
      /\ UNCHANGED <<up, sv, db, pend, mom, runs, forced, faults>>
      /\ \/ link' = [link EXCEPT ![m] = IF @ = "hello" THEN "init" ELSE @]
         \/ link' = [link EXCEPT ![m] = "up"]
  BY DEF is_hello4, is_mom_ready, bounds
<1>2. toSvr' \in [Moms -> Seq(Reports)] /\ ReportsKept
  BY <1>1, ReadKeeps, ServerTypes
<1>3. toMom' \in [Moms -> Seq(Orders)] /\ OrdersKept
  <2>1. CASE is_mom_ready(m)
    BY <2>1, SameOrders, ServerTypes DEF is_mom_ready
  <2>2. CASE is_hello4(m)
    <3> DEFINE msgs == mom_running_jobs(sv, Msg(m).job) \o <<ClusterAddrs>>
    <3>1. Msg(m) \in Reports /\ Msg(m).k = "HELLO4"
      BY <2>2, ReadKeeps, ServerTypes DEF is_hello4
    <3>2. Msg(m).job \in Jobs
      BY <3>1 DEF Reports
    <3>3. Msg(m).job.ver \in Versions
      BY <3>2 DEF Jobs
    <3>4. /\ Discard(AnyVersion) \in Orders /\ Discard(AnyVersion).k # "Run"
          /\ Discard(Msg(m).job.ver) \in Orders /\ Discard(Msg(m).job.ver).k # "Run"
          /\ ClusterAddrs \in Orders /\ ClusterAddrs.k # "Run"
      BY <3>3, MessageTypes DEF Discard, ClusterAddrs
    <3>5. \/ mom_running_jobs(sv, Msg(m).job) = <<>>
          \/ mom_running_jobs(sv, Msg(m).job) = <<Discard(AnyVersion)>>
          \/ mom_running_jobs(sv, Msg(m).job) = <<Discard(Msg(m).job.ver)>>
      BY DEF mom_running_jobs, If
    <3>6. msgs \in Seq(Orders) /\ \A i \in Positions(msgs) : msgs[i].k # "Run"
      <4>1. CASE mom_running_jobs(sv, Msg(m).job) = <<>>
        BY <3>4, <4>1 DEF Positions
      <4>2. ASSUME NEW x \in Orders, x.k # "Run", mom_running_jobs(sv, Msg(m).job) = <<x>>
            PROVE  msgs \in Seq(Orders) /\ \A i \in Positions(msgs) : msgs[i].k # "Run"
        <5>1. msgs = <<x>> \o <<ClusterAddrs>>
          BY <4>2
        <5>2. /\ <<x>> \o <<ClusterAddrs>> \in Seq(Orders)
              /\ \A i \in Positions(<<x>> \o <<ClusterAddrs>>) : (<<x>> \o <<ClusterAddrs>>)[i].k # "Run"
          BY <3>4, <4>2 DEF Positions
        <5> QED BY <5>1, <5>2
      <4> QED BY <3>4, <3>5, <4>1, <4>2
    <3>7. toMom' = toMom \/ toMom' = [toMom EXCEPT ![m] = @ \o msgs]
      BY <2>2 DEF is_hello4, Tell
    <3> HIDE DEF msgs
    <3> QED BY <3>6, <3>7, TellKeeps, ServerTypes
  <2> QED BY <2>1, <2>2
<1>4. link' \in [Moms -> Links] /\ LinksKept
  BY <1>1, ServerTypes DEF LinksKept, Links, Connected
<1>5. StateKept
  BY <1>1, KeepsState
<1>6. Hosts'
  BY <1>1, ServerTypes DEF Hosts
<1> QED BY <1>1, <1>2, <1>3, <1>4, <1>5, <1>6, ServerStep, ServerTypes

\* The step of post_sendmom: either the send is known to have failed, or the answer is
\* not that of a send that overwrote an earlier run.
LEMMA StepAnswer ==
  ASSUME IInv, NEW m \in Moms, post_sendmom(m)
  PROVE  IInv'
<1> DEFINE s == IF Msg(m).id \in pend[m] /\ Msg(m).code # "OK" THEN SendFailed(sv) ELSE sv
<1>1. /\ Read(m, "Reply") /\ up /\ sv' = s
      /\ pend' = [pend EXCEPT ![m] = @ \ {Msg(m).id}]
      /\ IF sv'.st = sv.st THEN UNCHANGED db ELSE SaveQuick(sv')
      /\ UNCHANGED <<up, link, toMom, mom, runs, forced, faults>>
  BY DEF post_sendmom, bounds, Read
<1>2. /\ Msg(m) \in Reports /\ Msg(m).k = "Reply" /\ Msg(m) = toSvr[m][1]
      /\ 1 \in Positions(toSvr[m]) /\ toSvr' \in [Moms -> Seq(Reports)]
      /\ Msg(m).id # runs \/ Settled' \/ ~Sent(m)' => ReportsKept
  BY <1>1, ReadKeeps, ServerTypes
<1>3. /\ sv' \in SvType /\ sv'.ver = sv.ver
      /\ \/ sv' = sv
         \/ /\ sv.st # "gone" /\ sv'.st = "QUEUED" /\ Msg(m).id \in pend[m]
            /\ Msg(m).code # "OK"
  BY <1>1, ServerTypes, Requeues DEF SendFailed
<1>4. /\ db' \in DbType /\ db'.ver = db.ver /\ db'.host = db.host
      /\ db'.st = (IF sv'.st = sv.st THEN db.st ELSE sv'.st)
  <2>1. CASE sv'.st = sv.st
    BY <1>1, <2>1, ServerTypes
  <2>2. CASE sv'.st # sv.st
    BY <1>1, <1>3, <2>2, ServerTypes, Saves
  <2> QED BY <2>1, <2>2
<1>5. pend' \in [Moms -> SUBSET Versions]
  BY <1>1, ServerTypes
<1>6. CASE sv' # sv
  <2>1. /\ db'.st \in {"QUEUED", "PRERUN", "gone"} /\ sv'.st \in {"QUEUED", "gone"}
        /\ sv'.st = db'.st \/ (sv'.st = "QUEUED" /\ db'.st = "PRERUN")
    BY <1>1, <1>3, <1>4, <1>6, ServerTypes DEF Hosts
  <2>2. Settled' /\ StateKept /\ Hosts'
    BY <2>1, HostsIdle, KeepsState DEF Settled
  <2>3. toMom' \in [Moms -> Seq(Orders)] /\ OrdersKept /\ LinksKept
    BY <1>1, SameOrders, ServerTypes DEF LinksKept
  <2> QED BY <1>1, <1>2, <1>3, <1>4, <1>5, <2>2, <2>3, ServerStep, ServerTypes
<1>7. CASE sv' = sv
  <2>1. Hosts' /\ db'.st = db.st
    BY <1>1, <1>4, <1>7, ServerTypes DEF Hosts
  <2>2. toMom' \in [Moms -> Seq(Orders)] /\ OrdersKept /\ LinksKept
    BY <1>1, SameOrders, ServerTypes DEF LinksKept
  <2>3. Msg(m).id # runs \/ Settled' \/ ~Sent(m)'
    BY <1>1, ServerTypes DEF Sent
  <2>4. StateKept
    <3>1. CASE Msg(m).id # runs
      <4>1. Settled => Settled'
        BY <1>1, <1>7, <2>1 DEF Settled
      <4>2. ASSUME NEW n \in Moms, Sent(n)  PROVE  Sent(n)'
        BY <1>1, <1>7, <2>1, <3>1, <4>2, ServerTypes DEF Sent
      <4> QED BY <4>1, <4>2 DEF StateKept
    <3>2. CASE Msg(m).id = runs
      <4>1. Answers(m, 1)
        BY <1>2, <3>2 DEF Answers
      <4>2. ~OnTheWay
        BY <1>2, <4>1 DEF IInv, Ahead
      <4>3. CASE ~SomeBad
        BY <4>2, <4>3 DEF StateKept
      <4>4. CASE SomeBad
        <5>1. Msg(m).code # "OK"
          BY <1>2, <4>1, <4>4 DEF IInv, OneKind
        <5>2. Settled => Settled'
          BY <1>1, <1>7, <2>1 DEF Settled
        <5>3. Sent(m) => sv.st # "gone" /\ Msg(m).id \in pend[m] /\ sv.st = "PRERUN"
          BY <3>2 DEF Sent
        <5>4. ~Sent(m)
          <6>1. SUFFICES ASSUME Sent(m)  PROVE  FALSE
            OBVIOUS
          <6>2. sv' = SendFailed(sv)
            BY <1>1, <5>1, <5>3, <6>1
          <6>3. SendFailed(sv).st = "QUEUED"
            BY <5>3, <6>1, Requeues, ServerTypes
          <6> QED BY <1>7, <5>3, <6>1, <6>2, <6>3
        <5>5. ASSUME NEW n \in Moms, Sent(n)  PROVE  Sent(n)'
          BY <1>1, <1>7, <2>1, <5>4, <5>5, ServerTypes DEF Sent
        <5> QED BY <5>2, <5>5 DEF StateKept
      <4> QED BY <4>3, <4>4
    <3> QED BY <3>1, <3>2
  <2> QED BY <1>1, <1>2, <1>3, <1>4, <1>5, <2>1, <2>2, <2>3, <2>4, ServerStep, ServerTypes
<1> QED BY <1>6, <1>7

\* A report that bears the number and has been reached by the server is of the present run.
LEMMA ReportPresent ==
  ASSUME IInv, NEW m \in Moms, up, sv.st \in Running,
         1 \in Positions(toSvr[m]), toSvr[m][1].k \in Tells, toSvr[m][1].ver >= runs
  PROVE  /\ toSvr[m][1].ver = runs /\ toSvr[m][1].run = runs
         /\ ~OnTheWay /\ ~SomeBad
<1>1. runs \in Nat /\ runs > 0
  BY DEF IInv, Types, Hosts
<1>2. toSvr[m][1] \in Reports
  <2>1. toSvr[m] \in Seq(Reports)
    BY DEF IInv, Types
  <2> QED BY <2>1 DEF Positions
<1>3. toSvr[m][1].ver \in Nat /\ toSvr[m][1].ver <= runs
  BY <1>2 DEF Reports, Tells, Versions, IInv, Numbers
<1>4. toSvr[m][1].ver = runs /\ Numbered(toSvr[m][1]) /\ Told(m, 1)
  BY <1>1, <1>3 DEF Numbered, Told
<1>5. ~Bad(toSvr[m][1])
  <2>1. ~Refused(m, 1)
    BY DEF Refused, Positions
  <2>2. ~Settled
    BY DEF Settled, Running, IInv, Hosts
  <2>3. SUFFICES ASSUME Bad(toSvr[m][1])  PROVE  FALSE
    OBVIOUS
  <2>4. Settled \/ (Sent(m) /\ Refused(m, 1))
    BY <1>4, <2>3 DEF IInv, Shielded
  <2> QED BY <2>1, <2>2, <2>4
<1>6. Good(toSvr[m][1]) /\ SomeGood
  BY <1>4, <1>5 DEF Good, Bad, SomeGood
<1>7. ~OnTheWay /\ ~SomeBad
  BY <1>6 DEF IInv, Ahead, OneKind
<1> QED BY <1>4, <1>6, <1>7 DEF Good

\* The step of stat_update.
LEMMA StepUpdate ==
  ASSUME IInv, NEW m \in Moms, stat_update(m)
  PROVE  IInv'
<1>1. /\ Read(m, "RESCUSED") /\ up
      /\ UNCHANGED <<up, pend, link, toMom, mom, runs, forced, faults>>
      /\ IF begins(sv, Msg(m).ver) THEN sv' = [sv EXCEPT !.st = "RUNNING"] /\ SaveFull(sv')
         ELSE UNCHANGED <<sv, db>>
  BY DEF stat_update, bounds, Read
<1>2. /\ Msg(m) \in Reports /\ Msg(m).k = "RESCUSED" /\ Msg(m) = toSvr[m][1]
      /\ 1 \in Positions(toSvr[m]) /\ toSvr' \in [Moms -> Seq(Reports)] /\ ReportsKept
  BY <1>1, ReadKeeps, ServerTypes
<1>3. toMom' \in [Moms -> Seq(Orders)] /\ OrdersKept /\ LinksKept
  BY <1>1, SameOrders, ServerTypes DEF LinksKept
<1>4. CASE begins(sv, Msg(m).ver)
  <2>1. sv.st = "PRERUN" /\ Msg(m).ver = runs /\ runs \in Nat
    BY <1>4, ServerTypes DEF begins, Types
  <2>2. ~OnTheWay /\ ~SomeBad
    BY <1>1, <1>2, <2>1, ReportPresent DEF Running, Tells
  <2>3. /\ sv' \in SvType /\ sv'.ver = sv.ver /\ sv'.host = sv.host /\ sv'.st = "RUNNING"
    BY <1>1, <1>4, ServerTypes DEF SvType, States, Running
  <2>4. db' \in DbType /\ db'.ver = sv'.ver /\ db'.host = sv'.host /\ db'.st = sv'.st
    BY <1>1, <1>4, <2>3, ServerTypes, Saves
  <2>5. StateKept
    BY <2>2, KeepsState
  <2>6. Hosts'
    BY <1>1, <2>1, <2>3, <2>4, ServerTypes DEF Hosts, Running
  <2> QED BY <1>1, <1>2, <1>3, <2>3, <2>4, <2>5, <2>6, ServerStep, ServerTypes
<1>5. CASE ~begins(sv, Msg(m).ver)
  <2>1. Hosts' /\ StateKept
    BY <1>1, <1>5, ServerTypes, KeepsState DEF Hosts
  <2> QED BY <1>1, <1>2, <1>3, <1>5, <2>1, ServerStep, ServerTypes
<1> QED BY <1>4, <1>5

\* The step of job_obit.
LEMMA StepObit ==
  ASSUME IInv, NEW m \in Moms, job_obit(m)
  PROVE  IInv'
<1>1. /\ Read(m, "JOBOBIT") /\ up
      /\ UNCHANGED <<up, pend, link, mom, runs, forced, faults>>
  BY DEF job_obit, bounds, Read
<1>2. /\ Msg(m) \in Reports /\ Msg(m).k = "JOBOBIT" /\ Msg(m) = toSvr[m][1]
      /\ 1 \in Positions(toSvr[m]) /\ toSvr' \in [Moms -> Seq(Reports)] /\ ReportsKept
  BY <1>1, ReadKeeps, ServerTypes
<1>3. LinksKept
  BY <1>1 DEF LinksKept
<1>4. CASE sv.st \in Exiting /\ sv' = [sv EXCEPT !.asked = FALSE] /\ UNCHANGED <<db, toMom>>
  <2>1. sv' \in SvType /\ sv'.st = sv.st /\ sv'.ver = sv.ver /\ sv'.host = sv.host
    BY <1>4, ServerTypes, Requeues DEF SvType
  <2>2. toMom' \in [Moms -> Seq(Orders)] /\ OrdersKept
    BY <1>4, SameOrders, ServerTypes
  <2>3. Hosts' /\ StateKept
    BY <1>1, <1>4, <2>1, ServerTypes, KeepsState DEF Hosts
  <2> QED BY <1>1, <1>2, <1>3, <1>4, <2>1, <2>2, <2>3, ServerStep, ServerTypes
<1>5. CASE /\ is_current(sv, Msg(m).ver)
           /\ \E st \in Exiting : sv' = [sv EXCEPT !.st = st, !.asked = FALSE]
           /\ SaveQuick(sv') /\ UNCHANGED toMom
  <2>1. sv.st \in Running /\ Msg(m).ver >= runs
    BY <1>5, ServerTypes DEF is_current
  <2>2. ~OnTheWay /\ ~SomeBad
    BY <1>1, <1>2, <2>1, ReportPresent DEF Tells
  <2>3. PICK st \in Exiting : sv' = [sv EXCEPT !.st = st, !.asked = FALSE]
    BY <1>5
  <2>4. st \in States
    BY DEF States
  <2>5. sv' \in SvType /\ sv'.st \in Exiting /\ sv'.ver = sv.ver /\ sv'.host = sv.host
    BY <2>3, <2>4, ServerTypes DEF SvType
  <2>6. db' \in DbType /\ db'.ver = db.ver /\ db'.host = db.host /\ db'.st = sv'.st
    BY <1>5, <2>5, ServerTypes, Saves
  <2>7. toMom' \in [Moms -> Seq(Orders)] /\ OrdersKept
    BY <1>5, SameOrders, ServerTypes
  <2>8. StateKept
    BY <2>2, KeepsState
  <2>9. Hosts'
    BY <1>1, <2>1, <2>5, <2>6, ServerTypes DEF Hosts
  <2> QED BY <1>1, <1>2, <1>3, <2>5, <2>6, <2>7, <2>8, <2>9, ServerStep, ServerTypes
<1>6. CASE Tell(m, <<BadObit>>) /\ UNCHANGED <<sv, db>>
  <2>1. <<BadObit>> \in Seq(Orders) /\ \A i \in Positions(<<BadObit>>) : <<BadObit>>[i].k # "Run"
    BY MessageTypes DEF BadObit, Positions
  <2>2. toMom' \in [Moms -> Seq(Orders)] /\ OrdersKept
    BY <1>6, <2>1, TellKeeps, ServerTypes DEF Tell
  <2>3. Hosts' /\ StateKept
    BY <1>1, <1>6, ServerTypes, KeepsState DEF Hosts
  <2> QED BY <1>1, <1>2, <1>3, <1>6, <2>2, <2>3, ServerStep, ServerTypes
<1> QED BY <1>4, <1>5, <1>6 DEF job_obit

\* The step of job_deleted.
LEMMA StepDeleted ==
  ASSUME IInv, NEW m \in Moms, job_deleted(m)
  PROVE  IInv'
<1>1. /\ Read(m, "Deleted") /\ up
      /\ sv' \in {sv, force_reque(sv), job_purge(sv)}
      /\ IF sv' = sv THEN UNCHANGED db ELSE SaveFull(sv')
      /\ pend' = IF sv'.st = "gone" THEN [n \in Moms |-> {}] ELSE pend
      /\ UNCHANGED <<up, link, toMom, mom, runs, forced, faults>>
  BY DEF job_deleted, bounds, Read, NoTasks
<1>2. toSvr' \in [Moms -> Seq(Reports)] /\ ReportsKept
  BY <1>1, ReadKeeps, ServerTypes
<1>3. toMom' \in [Moms -> Seq(Orders)] /\ OrdersKept /\ LinksKept
  BY <1>1, SameOrders, ServerTypes DEF LinksKept
<1>4. pend' \in [Moms -> SUBSET Versions]
  BY <1>1, ServerTypes
<1>5. CASE sv' # sv
  <2>1. sv' \in SvType /\ sv'.ver = sv.ver /\ sv'.st \in {"QUEUED", "gone"}
    BY <1>1, <1>5, ServerTypes, Requeues
  <2>2. db' \in DbType /\ db'.ver = sv'.ver /\ db'.st = sv'.st
    BY <1>1, <1>5, <2>1, ServerTypes, Saves
  <2>3. Hosts' /\ StateKept
    BY <2>1, <2>2, HostsIdle, KeepsState
  <2> QED BY <1>1, <1>2, <1>3, <1>4, <2>1, <2>2, <2>3, ServerStep, ServerTypes
<1>6. CASE sv' = sv
  <2>1. Hosts'
    BY <1>1, <1>6, ServerTypes DEF Hosts
  <2>2. StateKept
    <3>1. CASE sv.st = "gone"
      BY <1>1, <1>6, <3>1, ServerTypes, KeepsState DEF Hosts
    <3>2. CASE sv.st # "gone"
      BY <1>1, <1>6, <3>2, KeepsState
    <3> QED BY <3>1, <3>2
  <2> QED BY <1>1, <1>2, <1>3, <1>4, <1>6, <2>1, <2>2, ServerStep, ServerTypes
<1> QED BY <1>5, <1>6

\* The step of stream_eof: what was sent has failed, or the server did not wait for it.
LEMMA StepEof ==
  ASSUME IInv, NEW m \in Moms, stream_eof(m)
  PROVE  IInv'
<1> DEFINE s == IF sv.host = m THEN [sv EXCEPT !.asked = FALSE] ELSE sv
<1>1. /\ up /\ Fault /\ pend' = [pend EXCEPT ![m] = {}]
      /\ sv' = IF pend[m] # {} THEN SendFailed(s) ELSE s
      /\ IF sv'.st = sv.st THEN UNCHANGED db ELSE SaveQuick(sv')
      /\ toMom' = [toMom EXCEPT ![m] = <<>>] /\ toSvr' = [toSvr EXCEPT ![m] = <<>>]
      /\ UNCHANGED <<up, mom, runs, forced>>
  BY DEF stream_eof
<1>2. s \in SvType /\ s.st = sv.st /\ s.ver = sv.ver /\ s.host = sv.host
  BY ServerTypes, Requeues DEF SvType
<1> HIDE DEF s
<1>3. /\ sv' \in SvType /\ sv'.ver = sv.ver
      /\ \/ pend[m] # {} /\ sv'.st = IF sv.st = "gone" THEN "gone" ELSE "QUEUED"
         \/ pend[m] = {} /\ sv'.st = sv.st /\ sv'.host = sv.host
  <2>1. CASE pend[m] # {}
    <3>1. sv' = SendFailed(s)
      BY <1>1, <2>1
    <3>2. /\ SendFailed(s) \in SvType /\ SendFailed(s).ver = s.ver
          /\ SendFailed(s).st = (IF s.st = "gone" THEN "gone" ELSE "QUEUED")
      BY <1>2, Requeues
    <3> QED BY <1>2, <2>1, <3>1, <3>2
  <2>2. CASE pend[m] = {}
    BY <1>1, <1>2, <2>2
  <2> QED BY <2>1, <2>2
<1>4. /\ db' \in DbType /\ db'.ver = db.ver /\ db'.host = db.host
      /\ db'.st = (IF sv'.st = sv.st THEN db.st ELSE sv'.st)
  <2>1. CASE sv'.st = sv.st
    BY <1>1, <2>1, ServerTypes
  <2>2. CASE sv'.st # sv.st
    BY <1>1, <1>3, <2>2, ServerTypes, Saves
  <2> QED BY <2>1, <2>2
<1>5. faults' \in 0..MaxFaults
  BY <1>1, ServerTypes, RunVersionAssumption DEF Fault
<1>6. pend' \in [Moms -> SUBSET Versions] /\ pend'[m] = {} /\ \A n \in Moms : n # m => pend'[n] = pend[n]
  BY <1>1, ServerTypes
<1>7. toMom' \in [Moms -> Seq(Orders)] /\ OrdersKept
  <2>1. toMom \in [Moms -> Seq(Orders)] /\ \A n \in Moms : toMom[n] \in Seq(Orders)
    BY ServerTypes DEF Types
  <2>2. \A n \in Moms : RunsOf(toMom[n], toMom'[n], 0)
    BY <1>1, <2>1, RunsKept
  <2> QED BY <1>1, <2>1, <2>2 DEF OrdersKept
<1>8. toSvr' \in [Moms -> Seq(Reports)] /\ ReportsKept
  <2>1. /\ toSvr \in [Moms -> Seq(Reports)]
        /\ \A n \in Moms : toSvr[n] \in Seq(Reports) /\ mom[n] \in Jobs
    BY ServerTypes DEF Types
  <2>2. ASSUME NEW n \in Moms
        PROVE  /\ SaysOf(toSvr[n], toSvr'[n], 0, mom[n], runs)
               /\ Sent(n)' => AnswersOf(toSvr[n], toSvr'[n], 0, runs)
    <3>1. CASE n = m
      <4>1. ~Sent(n)'
        BY <1>6, <3>1 DEF Sent
      <4>2. toSvr'[n] = <<>>
        BY <1>1, <2>1, <3>1
      <4> QED BY <2>1, <4>1, <4>2, SaysKept
    <3>2. CASE n # m
      <4>1. toSvr'[n] = toSvr[n]
        BY <1>1, <2>1, <3>2
      <4> QED BY <2>1, <4>1, SaysKept
    <3> QED BY <3>1, <3>2
  <2>3. toSvr' \in [Moms -> Seq(Reports)]
    BY <1>1, <2>1
  <2> QED BY <2>2, <2>3 DEF ReportsKept
<1>9. link' \in [Moms -> Links] /\ LinksKept
  <2>1. /\ link' \in [Moms -> Links]
        /\ \A n \in Moms : n # m => link'[n] \in {link[n], "marked"}
        /\ \A n \in Moms : n # m /\ link'[n] = "marked" => link[n] \in {"up", "marked"}
    BY ServerTypes DEF stream_eof, Links
  <2>2. toMom'[m] = <<>>
    BY <1>1, ServerTypes DEF Types
  <2> QED BY <2>1, <2>2 DEF LinksKept, Connected
<1>10. Hosts' /\ StateKept
  <2>1. CASE pend[m] # {}
    <3>1. /\ db'.st \in {"QUEUED", "PRERUN", "gone"} /\ sv'.st \in {"QUEUED", "gone"}
          /\ sv'.st = db'.st \/ (sv'.st = "QUEUED" /\ db'.st = "PRERUN")
      BY <1>1, <1>3, <1>4, <2>1, ServerTypes DEF Hosts
    <3> QED BY <3>1, HostsIdle, KeepsState
  <2>2. CASE pend[m] = {}
    <3>1. Hosts'
      BY <1>1, <1>3, <1>4, <2>2, ServerTypes DEF Hosts
    <3>2. Settled => Settled'
      BY <1>1, <1>3, <1>4, <2>2 DEF Settled
    <3>3. ASSUME NEW n \in Moms, Sent(n)  PROVE  Sent(n)'
      BY <1>1, <1>3, <1>4, <1>6, <2>2, <3>3 DEF Sent
    <3> QED BY <3>1, <3>2, <3>3 DEF StateKept
  <2> QED BY <2>1, <2>2
<1> QED BY <1>1, <1>3, <1>4, <1>5, <1>6, <1>7, <1>8, <1>9, <1>10, ServerStep, ServerTypes

\* The step of crash.
LEMMA StepCrash ==
  ASSUME IInv, crash
  PROVE  IInv'
<1>1. /\ up /\ up' = FALSE /\ Fault /\ pend' = [m \in Moms |-> {}]
      /\ link' = [m \in Moms |-> "none"]
      /\ toMom' = [m \in Moms |-> <<>>] /\ toSvr' = [m \in Moms |-> <<>>]
      /\ UNCHANGED <<sv, db, mom, runs, forced>>
  BY DEF crash
<1>2. faults' \in 0..MaxFaults
  BY <1>1, ServerTypes, RunVersionAssumption DEF Fault
<1>3. toMom' \in [Moms -> Seq(Orders)] /\ OrdersKept /\ LinksKept
  <2>1. \A n \in Moms : toMom[n] \in Seq(Orders)
    BY ServerTypes DEF Types
  <2>2. \A n \in Moms : RunsOf(toMom[n], toMom'[n], 0) /\ toMom'[n] = <<>>
    BY <1>1, <2>1, RunsKept
  <2> QED BY <1>1, <2>2 DEF OrdersKept, LinksKept
<1>4. toSvr' \in [Moms -> Seq(Reports)] /\ ReportsKept
  <2>1. \A n \in Moms : toSvr[n] \in Seq(Reports) /\ mom[n] \in Jobs
    BY ServerTypes DEF Types
  <2>2. \A n \in Moms : SaysOf(toSvr[n], toSvr'[n], 0, mom[n], runs) /\ ~Sent(n)'
    BY <1>1, <2>1, SaysKept DEF Sent
  <2> QED BY <1>1, <2>2 DEF ReportsKept
<1>5. StateKept
  BY <1>1 DEF StateKept, Settled, Sent
<1>6. Hosts'
  BY <1>1, ServerTypes DEF Hosts
<1>7. link' \in [Moms -> Links] /\ pend' \in [Moms -> SUBSET Versions] /\ up' \in BOOLEAN
  BY <1>1 DEF Links
<1> QED BY <1>1, <1>2, <1>3, <1>4, <1>5, <1>6, <1>7, ServerStep, ServerTypes

\* The step of pbsd_init.
LEMMA StepInit ==
  ASSUME IInv, pbsd_init
  PROVE  IInv'
<1>1. /\ ~up /\ up' = TRUE
      /\ sv' = [st |-> recovered(db.st), ver |-> db.ver, host |-> db.host, asked |-> FALSE]
      /\ UNCHANGED <<db, pend, link, toMom, toSvr, mom, runs, forced, faults>>
  BY DEF pbsd_init, bounds
<1>2. recovered(db.st) \in States /\ db.ver \in Versions /\ db.host \in Moms \cup {NoMom}
  BY ServerTypes DEF recovered, States, DbType
<1>3. sv' \in SvType /\ sv'.st = recovered(db.st) /\ sv'.ver = sv.ver /\ sv'.host = db.host
  BY <1>1, <1>2, ServerTypes DEF SvType
<1>4. toMom' \in [Moms -> Seq(Orders)] /\ OrdersKept /\ LinksKept
  BY <1>1, SameOrders, ServerTypes DEF LinksKept
<1>5. toSvr' \in [Moms -> Seq(Reports)] /\ ReportsKept
  BY <1>1, SameReports, ServerTypes
<1>6. StateKept
  BY <1>1, <1>3 DEF StateKept, Settled, Sent, recovered
<1>7. Hosts'
  BY <1>1, <1>3, ServerTypes DEF Hosts, recovered, Running, Exiting
<1> QED BY <1>1, <1>3, <1>4, <1>5, <1>6, <1>7, ServerStep, ServerTypes

-----------------------------------------------------------------------------
(* The number is taken.                                                     *)

\* What the MoM's order is.
LEMMA RunOrder ==
  ASSUME IInv, NEW m \in Moms, Take(m, "Run")
  PROVE  /\ toMom[m][1] = Order(m) /\ 1 \in Positions(toMom[m])
         /\ Order(m) \in [k : {"Run"}, ver : Versions, run : Versions]
         /\ Order(m).ver = Order(m).run /\ Order(m).run \in 1..runs
         /\ link[m] \in Connected
<1>1. toMom[m] \in Seq(Orders) /\ toMom[m] # <<>>
  BY DEF IInv, Types, Take
<1>2. toMom[m][1] = Order(m) /\ 1 \in Positions(toMom[m]) /\ Order(m) \in Orders
  BY <1>1 DEF Order, Positions
<1>3. Order(m).k = "Run"
  BY DEF Take, Order
<1>4. Order(m) \in [k : {"Run"}, ver : Versions, run : Versions]
  BY <1>2, <1>3 DEF Orders
<1> QED BY <1>2, <1>3, <1>4 DEF IInv, Numbers, Ahead

\* The MoM's answer.
LEMMA CommitIs ==
  ASSUME IInv, NEW m \in Moms, req_commit(m)
  PROVE  \E j \in Jobs, code \in {"OK", "JOBEXIST"} :
           /\ mom' = [mom EXCEPT ![m] = j] /\ j.ver = Order(m).ver
           /\ toSvr' = [toSvr EXCEPT ![m] = @ \o <<Reply(Order(m).run, code)>>]
           /\ code = "OK" => j.run = Order(m).run
           /\ Reply(Order(m).run, code) \in Reports
<1>1. Take(m, "Run")
  BY DEF req_commit
<1>2. Order(m).ver \in Versions /\ Order(m).run \in Versions /\ link[m] \in Connected
  BY <1>1, RunOrder
<1>3. mom[m] \in Jobs
  BY DEF IInv, Types
<1>4. CASE mom[m].ss = "RUNNING"
  <2>1. [mom[m] EXCEPT !.ver = Order(m).ver] \in Jobs /\ [mom[m] EXCEPT !.ver = Order(m).ver].ver = Order(m).ver
    BY <1>2, <1>3 DEF Jobs
  <2>2. Reply(Order(m).run, "JOBEXIST") \in Reports
    BY <1>2, MessageTypes
  <2> QED BY <1>2, <1>4, <2>1, <2>2 DEF req_commit, Becomes, Say
<1>5. CASE mom[m].ss # "RUNNING"
  <2>1. [ver |-> Order(m).ver, run |-> Order(m).run, ss |-> "PRERUN"] \in Jobs
    BY <1>2 DEF Jobs
  <2>2. Reply(Order(m).run, "OK") \in Reports
    BY <1>2, MessageTypes
  <2> QED BY <1>2, <1>5, <2>1, <2>2 DEF req_commit, Becomes, Say
<1> QED BY <1>4, <1>5

\* The step of req_commit: from now on the number is that of the present run, or of an
\* earlier one that has been overwritten and whose send is refused.
LEMMA StepCommit ==
  ASSUME IInv, NEW m \in Moms, req_commit(m)
  PROVE  IInv'
<1>1. PICK j \in Jobs, code \in {"OK", "JOBEXIST"} :
           /\ mom' = [mom EXCEPT ![m] = j] /\ j.ver = Order(m).ver
           /\ toSvr' = [toSvr EXCEPT ![m] = @ \o <<Reply(Order(m).run, code)>>]
           /\ code = "OK" => j.run = Order(m).run
           /\ Reply(Order(m).run, code) \in Reports
  BY CommitIs
<1>2. Take(m, "Run") /\ MomOnly /\ UNCHANGED link
  BY DEF req_commit
<1>3. /\ toMom[m][1] = Order(m) /\ 1 \in Positions(toMom[m])
      /\ Order(m).k = "Run" /\ Order(m).ver = Order(m).run /\ Order(m).run \in 1..runs
  BY <1>2, RunOrder
<1>4. /\ Types /\ runs \in Nat
      /\ toMom \in [Moms -> Seq(Orders)] /\ toSvr \in [Moms -> Seq(Reports)]
      /\ mom \in [Moms -> Jobs] /\ \A n \in Moms : mom[n] \in Jobs
  BY DEF IInv, Types
<1> DEFINE x == Reply(Order(m).run, code)
<1>5. x \in Reports /\ x.k = "Reply" /\ x.id = Order(m).run /\ x.code = code
  BY <1>1 DEF Reply
<1> HIDE DEF x
\* the streams
<1>6. /\ toMom' \in [Moms -> Seq(Orders)] /\ OrdersKept
  BY <1>2, <1>4, TakeKeeps
<1>7. /\ toSvr[m] \in Seq(Reports) /\ Len(toSvr[m]) \in Nat
      /\ toSvr'[m] = toSvr[m] \o <<x>> /\ toSvr[m] \o <<x>> \in Seq(Reports)
      /\ \A n \in Moms : n # m => toSvr'[n] = toSvr[n]
      /\ toSvr' \in [Moms -> Seq(Reports)]
  <2>1. toSvr[m] \in Seq(Reports) /\ Len(toSvr[m]) \in Nat
    BY <1>4
  <2>2. toSvr[m] \o <<x>> \in Seq(Reports)
    BY <1>5, <2>1
  <2>3. toSvr' = [toSvr EXCEPT ![m] = toSvr[m] \o <<x>>]
    BY <1>1 DEF x
  <2> QED BY <1>4, <2>1, <2>2, <2>3
<1>8. /\ Len(toSvr'[m]) = Len(toSvr[m]) + 1 /\ toSvr'[m][Len(toSvr[m]) + 1] = x
      /\ \A i \in 1..Len(toSvr[m]) : toSvr'[m][i] = toSvr[m][i]
  BY <1>5, <1>7
<1>9. mom'[m] = j /\ \A n \in Moms : n # m => mom'[n] = mom[n]
  BY <1>1, <1>4
<1>10. Types'
  BY <1>1, <1>2, <1>4, <1>6, <1>7 DEF Types, MomOnly, bounds
<1>11. Hosts'
  BY <1>2 DEF IInv, Hosts, MomOnly
<1>12. LinksKept
  BY <1>2 DEF LinksKept
<1>13. VersionKept
  BY <1>2 DEF VersionKept, MomOnly, IInv, Numbers
<1>14. Settled' = Settled /\ \A n \in Moms : Sent(n)' = Sent(n)
  BY <1>2 DEF Settled, Sent, MomOnly
<1>15. CASE Order(m).run # runs
  <2>1. Order(m).run < runs
    BY <1>3, <1>4, <1>15
  <2>2. JobsKept
    BY <1>1, <1>3, <1>9, <2>1 DEF JobsKept
  <2>3. ReportsKept
    <3>1. ASSUME NEW n \in Moms
          PROVE  SaysOf(toSvr[n], toSvr'[n], 0, mom[n], runs) /\ AnswersOf(toSvr[n], toSvr'[n], 0, runs)
      <4>1. CASE n = m
        BY <1>5, <1>7, <1>8, <2>1, <4>1 DEF SaysOf, AnswersOf, Positions
      <4>2. CASE n # m
        BY <1>4, <1>7, <4>2, SaysKept
      <4> QED BY <4>1, <4>2
    <3> QED BY <3>1 DEF ReportsKept
  <2>4. StateKept
    BY <1>14 DEF StateKept
  <2> QED BY <1>6, <1>10, <1>11, <1>12, <1>13, <2>2, <2>3, <2>4, KeepsNumbers DEF IInv
<1>16. CASE Order(m).run = runs
  <2>1. Carries(m, 1) /\ OnTheWay
    BY <1>3, <1>16 DEF Carries, OnTheWay
  <2>2. /\ ~SomeGood /\ ~SomeBad
        /\ \A n \in Moms : \A i \in Positions(toSvr[n]) : ~Answers(n, i)
        /\ Settled \/ Sent(m)
    BY <1>3, <2>1 DEF IInv, Ahead
  <2>3. runs' = runs
    BY <1>2 DEF MomOnly
  <2>4. \A n \in Moms : \A i \in Positions(toMom'[n]) :
          toMom'[n][i].k = "Run" => \E h \in Positions(toMom[n]) :
            /\ toMom[n][h] = toMom'[n][i]
            /\ n = m => h = i + 1
    <3>1. toMom'[m] = Tail(toMom[m]) /\ toMom[m] \in Seq(Orders) /\ toMom[m] # <<>>
      BY <1>2, <1>4 DEF Take
    <3>2. \A i \in Positions(toMom'[m]) : i + 1 \in Positions(toMom[m]) /\ toMom[m][i + 1] = toMom'[m][i]
      BY <3>1 DEF Positions
    <3>3. \A n \in Moms : n # m => toMom'[n] = toMom[n]
      BY <1>2, <1>4 DEF Take
    <3> QED BY <3>2, <3>3
  <2>5. ~OnTheWay'
    <3>1. SUFFICES ASSUME NEW n \in Moms, NEW i \in Positions(toMom'[n]), Carries(n, i)'
                   PROVE  FALSE
      BY DEF OnTheWay
    <3>2. PICK h \in Positions(toMom[n]) : toMom[n][h] = toMom'[n][i] /\ (n = m => h = i + 1)
      BY <2>4, <3>1 DEF Carries
    <3>3. Carries(n, h)
      BY <2>3, <3>1, <3>2 DEF Carries
    <3>4. n = m /\ h = 1
      BY <1>3, <2>1, <3>2, <3>3 DEF IInv, Ahead
    <3>5. i \in Int /\ i >= 1
      BY DEF Positions
    <3> QED BY <3>2, <3>4, <3>5
  \* only the MoM's own job has the number
  <2>6. ASSUME NEW n \in Moms, NEW i \in Positions(toSvr'[n])
        PROVE  /\ ~(Told(n, i)' /\ Numbered(toSvr[n][i])')
               /\ Answers(n, i)' => toSvr'[n][i] = x
    <3>1. CASE n = m /\ i = Len(toSvr[m]) + 1
      BY <1>5, <1>8, <3>1 DEF Told, Tells
    <3>2. CASE ~(n = m /\ i = Len(toSvr[m]) + 1)
      <4>1. i \in Positions(toSvr[n]) /\ toSvr'[n][i] = toSvr[n][i]
        BY <1>7, <1>8, <3>2 DEF Positions
      <4>2. ~Answers(n, i)'
        BY <2>2, <2>3, <4>1 DEF Answers
      <4>3. ~(Told(n, i) /\ Numbered(toSvr[n][i]))
        BY <2>2, <4>1 DEF SomeGood, SomeBad, Good, Bad
      <4> QED BY <2>3, <4>1, <4>2, <4>3 DEF Told, Numbered
    <3> QED BY <3>1, <3>2
  <2>7. ASSUME NEW n \in Moms, n # m  PROVE  ~Numbered(mom[n])'
    BY <1>9, <2>2, <2>3, <2>7 DEF SomeGood, SomeBad, Good, Bad, Numbered
  <2>8. SomeGood' => Good(mom[m])'
    BY <2>6, <2>7 DEF SomeGood, Good
  <2>9. SomeBad' => Bad(mom[m])'
    BY <2>6, <2>7 DEF SomeBad, Bad
  <2>10. Bad(mom[m])' => code = "JOBEXIST"
    BY <1>1, <1>9, <1>16, <2>3 DEF Bad
  <2>11. Numbers'
    <3>1. ASSUME NEW n \in Moms, NEW i \in Positions(toMom'[n]), toMom'[n][i].k = "Run"
          PROVE  toMom'[n][i].ver = toMom'[n][i].run /\ toMom'[n][i].run \in 1..runs
      BY <2>4, <3>1 DEF IInv, Numbers
    <3>2. ASSUME NEW n \in Moms, NEW i \in Positions(toSvr'[n])
          PROVE  /\ (toSvr'[n][i].k \in Tells => toSvr'[n][i].ver <= runs)
                 /\ (toSvr'[n][i].k = "Reply" => toSvr'[n][i].id <= runs)
      <4>1. CASE n = m /\ i = Len(toSvr[m]) + 1
        BY <1>4, <1>5, <1>8, <1>16, <4>1 DEF Tells
      <4>2. CASE ~(n = m /\ i = Len(toSvr[m]) + 1)
        <5>1. i \in Positions(toSvr[n]) /\ toSvr'[n][i] = toSvr[n][i]
          BY <1>7, <1>8, <4>2 DEF Positions
        <5> QED BY <5>1 DEF IInv, Numbers
      <4> QED BY <4>1, <4>2
    <3>3. ASSUME NEW n \in Moms  PROVE  mom'[n].ver <= runs
      BY <1>1, <1>3, <1>4, <1>9, <1>16 DEF IInv, Numbers
    <3> QED BY <1>13, <2>3, <3>1, <3>2, <3>3 DEF Numbers, VersionKept
  <2>12. Ahead'
    <3>1. ASSUME NEW n \in Moms, NEW i \in Positions(toMom'[n]), toMom'[n][i].k = "Run"
          PROVE  link'[n] \in Connected
      BY <1>2, <2>4, <3>1 DEF IInv, Ahead
    <3>2. \A n \in Moms : \A i \in Positions(toMom'[n]) : ~Carries(n, i)'
      BY <2>5 DEF OnTheWay
    <3> QED BY <2>5, <3>1, <3>2 DEF Ahead
  <2>13. OneKind'
    <3>1. ASSUME SomeBad'  PROVE  ~SomeGood'
      BY <2>8, <2>9, <3>1 DEF Good, Bad
    <3>2. ASSUME SomeBad', NEW n \in Moms, NEW i \in Positions(toSvr'[n]), Answers(n, i)'
          PROVE  toSvr'[n][i].code # "OK"
      BY <1>5, <2>6, <2>9, <2>10, <3>2
    <3> QED BY <3>1, <3>2 DEF OneKind
  <2>14. Shielded'
    <3>1. ASSUME Bad(mom[m])'
          PROVE  Refused(m, Len(toSvr[m]) + 1)'
      <4>1. Len(toSvr[m]) + 1 \in Positions(toSvr'[m]) /\ Len(toSvr[m]) + 1 < Len(toSvr'[m]) + 1
        BY <1>7, <1>8 DEF Positions
      <4>2. \E i \in Positions(toSvr'[m]) :
              /\ i < Len(toSvr'[m]) + 1 /\ toSvr'[m][i].k = "Reply" /\ toSvr'[m][i].id = runs'
              /\ toSvr'[m][i].code = "JOBEXIST"
        BY <1>5, <1>8, <1>16, <2>3, <2>10, <3>1, <4>1
      <4> QED BY <4>2 DEF Refused, Answers
    <3> QED BY <1>14, <2>2, <2>6, <2>7, <3>1 DEF Shielded, Bad
  <2> QED BY <1>10, <1>11, <2>11, <2>12, <2>13, <2>14 DEF IInv
<1> QED BY <1>15, <1>16

\* t is q, possibly the order x, and the order y at the end if there is z
Adds(q, x, y, z, t) ==
  /\ t \in Seq(Orders) /\ Len(t) \in Nat
  /\ \A i \in Positions(t) : \/ i \in Positions(q) /\ t[i] = q[i]
                             \/ t[i] = x
                             \/ z # <<>> /\ t[i] = y /\ i = Len(t)

\* What req_runjob writes to a MoM: the discard of what she had, then the run.
LEMMA Sends ==
  ASSUME NEW q \in Seq(Orders), NEW x \in Orders, NEW y \in Orders,
         NEW v \in Seq(Orders), v = <<>> \/ v = <<x>>,
         NEW z \in Seq(Orders), z = <<>> \/ z = <<y>>
  PROVE  Adds(q, x, y, z, q \o v \o z)
<1>1. /\ q \o v \in Seq(Orders) /\ Len(q) \in Nat /\ Len(q \o v) = Len(q) + Len(v)
      /\ Len(v) \in {0, 1} /\ Len(q \o v) \in Nat
      /\ \A i \in 1..Len(q \o v) : \/ i \in 1..Len(q) /\ (q \o v)[i] = q[i]
                                   \/ (q \o v)[i] = x
  <2>1. CASE v = <<>>
    BY <2>1
  <2>2. CASE v = <<x>>
    BY <2>2
  <2> QED BY <2>1, <2>2
<1>2. CASE z = <<>>
  <2>1. q \o v \o z = q \o v
    BY <1>1, <1>2
  <2> QED BY <1>1, <2>1 DEF Positions, Adds
<1>3. CASE z = <<y>>
  <2>1. /\ q \o v \o z \in Seq(Orders) /\ Len(q \o v \o z) = Len(q \o v) + 1
        /\ \A i \in 1..Len(q \o v) : (q \o v \o z)[i] = (q \o v)[i]
        /\ (q \o v \o z)[Len(q \o v) + 1] = y
    BY <1>1, <1>3
  <2>2. z # <<>>
    BY <1>3
  <2> QED BY <1>1, <2>1, <2>2 DEF Positions, Adds
<1> QED BY <1>2, <1>3

\* The step of req_runjob: the number is new.
LEMMA StepRun ==
  ASSUME IInv, NEW m \in Moms, req_runjob(m)
  PROVE  IInv'
<1> DEFINE s == [sv EXCEPT !.st = "PRERUN", !.ver = @ + 1, !.host = m]
           discards == [n \in Moms |-> If(n = sv.host /\ link[n] = "up", <<Discard(sv.ver)>>)]
           sends == [n \in Moms |-> If(n = m /\ link[n] = "up", <<Run(s.ver, runs + 1)>>)]
<1>1. /\ up /\ sv.st = "QUEUED" /\ runs < MaxRuns /\ runs' = runs + 1
      /\ UNCHANGED <<up, link, toSvr, mom, forced, faults>>
      /\ toMom' = [n \in Moms |-> toMom[n] \o discards[n] \o sends[n]]
      /\ IF link[m] = "up"
         THEN /\ sv' = s /\ SaveFull(s)
              /\ pend' = [pend EXCEPT ![m] = @ \cup {runs + 1}]
         ELSE /\ sv' = [s EXCEPT !.st = "QUEUED", !.host = NoMom]
              /\ db' = [st |-> "QUEUED", ver |-> s.ver, host |-> m]
              /\ UNCHANGED pend
  BY Zenon DEF req_runjob, bounds, save_started
<1>2. /\ runs \in Nat /\ runs + 1 \in Versions /\ MaxRuns \in Nat
      /\ sv.ver = runs /\ sv.ver \in Versions /\ toMom \in [Moms -> Seq(Orders)]
      /\ toSvr \in [Moms -> Seq(Reports)] /\ mom \in [Moms -> Jobs]
      /\ \A n \in Moms : Len(toMom[n]) \in Nat /\ Len(toSvr[n]) \in Nat
  <2>0. runs < MaxRuns
    BY <1>1
  <2>1. runs \in Nat /\ MaxRuns \in Nat /\ runs + 1 \in Versions
    BY <2>0, RunVersionAssumption DEF IInv, Types, Versions
  <2>2. \A n \in Moms : toMom[n] \in Seq(Orders) /\ toSvr[n] \in Seq(Reports)
    BY DEF IInv, Types
  <2> QED BY <2>1, <2>2 DEF IInv, Types, Numbers
<1>3. s \in SvType /\ s.ver = runs + 1 /\ s.st = "PRERUN" /\ s.host = m
  <2>1. "PRERUN" \in States /\ sv.ver + 1 = runs + 1
    BY <1>2 DEF States, Running
  <2> QED BY <1>2, <2>1, ServerTypes DEF SvType
<1> DEFINE x == Discard(sv.ver)
           y == Run(s.ver, runs + 1)
<1>4. /\ x \in Orders /\ x.k = "DISCARD_JOB"
      /\ y \in Orders /\ y.k = "Run" /\ y.ver = runs + 1 /\ y.run = runs + 1
  BY <1>2, <1>3, MessageTypes DEF Run, Discard
<1> HIDE DEF s, x, y, discards, sends
\* where orders come from
<1>5. ASSUME NEW n \in Moms
      PROVE  /\ toMom'[n] \in Seq(Orders) /\ Len(toMom'[n]) \in Nat
             /\ \A i \in Positions(toMom'[n]) :
                  \/ i \in Positions(toMom[n]) /\ toMom'[n][i] = toMom[n][i]
                  \/ toMom'[n][i] = x
                  \/ n = m /\ link[n] = "up" /\ toMom'[n][i] = y /\ i = Len(toMom'[n])
  <2>1. toMom'[n] = toMom[n] \o discards[n] \o sends[n]
    BY <1>1
  <2>2. /\ discards[n] = If(n = sv.host /\ link[n] = "up", <<x>>)
        /\ sends[n] = If(n = m /\ link[n] = "up", <<y>>)
    BY DEF x, y, discards, sends
  <2>3. toMom[n] \in Seq(Orders)
    BY <1>2
  <2>4. /\ discards[n] \in Seq(Orders) /\ (discards[n] = <<>> \/ discards[n] = <<x>>)
        /\ sends[n] \in Seq(Orders) /\ (sends[n] = <<>> \/ sends[n] = <<y>>)
        /\ sends[n] # <<>> => n = m /\ link[n] = "up"
    BY <1>4, <2>2 DEF If
  <2> DEFINE v == discards[n]
             z == sends[n]
  <2>5. /\ toMom'[n] = toMom[n] \o v \o z
        /\ v \in Seq(Orders) /\ (v = <<>> \/ v = <<x>>)
        /\ z \in Seq(Orders) /\ (z = <<>> \/ z = <<y>>)
    BY <2>1, <2>4
  <2> HIDE DEF v, z
  <2>6. Adds(toMom[n], x, y, z, toMom[n] \o v \o z)
    BY <1>4, <2>3, <2>5, Sends
  <2> QED BY <2>4, <2>5, <2>6 DEF z, Adds
<1>6. toMom' \in [Moms -> Seq(Orders)]
  BY <1>1, <1>5
<1>7. sv' \in SvType /\ db' \in DbType /\ pend' \in [Moms -> SUBSET Versions]
      /\ sv'.ver = runs + 1 /\ db'.ver = runs + 1
  <2>1. CASE link[m] = "up"
    <3>1. db' \in DbType /\ db'.ver = s.ver
      <4>1. SaveFull(s)
        BY <1>1, <2>1
      <4> QED BY <1>3, <4>1, ServerTypes, Saves
    <3>2. pend' \in [Moms -> SUBSET Versions]
      <4>1. pend' = [pend EXCEPT ![m] = pend[m] \cup {runs + 1}]
        BY <1>1, <2>1
      <4>2. pend[m] \cup {runs + 1} \in SUBSET Versions /\ pend \in [Moms -> SUBSET Versions]
        BY <1>2, ServerTypes
      <4> QED BY <4>1, <4>2
    <3> QED BY <1>1, <1>3, <2>1, <3>1, <3>2
  <2>2. CASE link[m] # "up"
    <3>1. "QUEUED" \in States /\ s.ver \in Versions
      BY <1>2, <1>3 DEF States
    <3>2. /\ sv' = [s EXCEPT !.st = "QUEUED", !.host = NoMom]
          /\ db' = [st |-> "QUEUED", ver |-> s.ver, host |-> m]
          /\ pend' = pend
      BY <1>1, <2>2
    <3>3. sv' \in SvType /\ sv'.ver = runs + 1
      BY <1>3, <3>1, <3>2 DEF SvType
    <3>4. db' \in DbType /\ db'.ver = runs + 1
      BY <1>3, <3>1, <3>2 DEF DbType
    <3> QED BY <3>2, <3>3, <3>4, ServerTypes
  <2> QED BY <2>1, <2>2
<1>8. Types'
  <2>1. runs' \in 0..MaxRuns
    BY <1>1, <1>2
  <2> QED BY <1>1, <1>6, <1>7, <2>1 DEF IInv, Types, SvType, DbType
<1>9. /\ link[m] = "up" => /\ Sent(m)' /\ sv'.st = "PRERUN" /\ sv'.host = m
                           /\ db'.st = "PRERUN" /\ db'.host = m
      /\ link[m] # "up" => sv'.st = "QUEUED" /\ db'.st = "QUEUED"
  <2>1. CASE link[m] = "up"
    <3>1. /\ sv'.st = "PRERUN" /\ sv'.host = m /\ db'.st = "PRERUN" /\ db'.host = m
      BY <1>1, <1>3, <2>1, ServerTypes, Saves
    <3>2. runs' \in pend'[m]
      BY <1>1, <2>1, ServerTypes
    <3> QED BY <1>1, <2>1, <3>1, <3>2 DEF Sent
  <2>2. CASE link[m] # "up"
    <3>1. /\ sv' = [s EXCEPT !.st = "QUEUED", !.host = NoMom]
          /\ db' = [st |-> "QUEUED", ver |-> s.ver, host |-> m]
      BY <1>1, <2>2
    <3>2. [s EXCEPT !.st = "QUEUED", !.host = NoMom].st = "QUEUED"
      BY <1>3 DEF SvType
    <3> QED BY <2>2, <3>1, <3>2
  <2> QED BY <2>1, <2>2
<1>10. Hosts'
  BY <1>1, <1>2, <1>9 DEF Hosts, Running, Exiting
<1>11. ASSUME NEW n \in Moms, NEW i \in Positions(toMom'[n]), toMom'[n][i].k = "Run"
       PROVE  \/ i \in Positions(toMom[n]) /\ toMom'[n][i] = toMom[n][i]
              \/ n = m /\ link[n] = "up" /\ toMom'[n][i] = y /\ i = Len(toMom'[n])
  BY <1>4, <1>5, <1>11
<1>12. ASSUME NEW n \in Moms, NEW i \in Positions(toMom'[n]), Carries(n, i)'
       PROVE  n = m /\ link[m] = "up" /\ i = Len(toMom'[n])
  <2>1. CASE i \in Positions(toMom[n]) /\ toMom'[n][i] = toMom[n][i]
    <3>1. toMom[n][i].run \in 1..runs
      BY <1>12, <2>1 DEF IInv, Numbers, Carries
    <3>2. runs' = runs + 1
      BY <1>1
    <3>3. toMom[n][i].run = runs'
      BY <1>12, <2>1 DEF Carries
    <3> QED BY <1>2, <3>1, <3>2, <3>3
  <2> QED BY <1>11, <1>12, <2>1 DEF Carries
<1>13. Numbers'
  <2>1. ASSUME NEW n \in Moms, NEW i \in Positions(toMom'[n]), toMom'[n][i].k = "Run"
        PROVE  toMom'[n][i].ver = toMom'[n][i].run /\ toMom'[n][i].run \in 1..(runs + 1)
    <3>1. CASE toMom'[n][i] = y
      BY <1>2, <1>4, <3>1
    <3>2. CASE i \in Positions(toMom[n]) /\ toMom'[n][i] = toMom[n][i]
      <4>1. toMom[n][i].ver = toMom[n][i].run /\ toMom[n][i].run \in 1..runs
        BY <2>1, <3>2 DEF IInv, Numbers
      <4> QED BY <1>2, <3>2, <4>1
    <3> QED BY <1>11, <2>1, <3>1, <3>2
  <2>2. ASSUME NEW n \in Moms, NEW i \in Positions(toSvr'[n])
        PROVE  /\ (toSvr'[n][i].k \in Tells => toSvr'[n][i].ver <= runs + 1)
               /\ (toSvr'[n][i].k = "Reply" => toSvr'[n][i].id <= runs + 1)
    <3>1. toSvr[n][i] \in Reports /\ i \in Positions(toSvr[n])
      BY <1>1, <1>2 DEF Positions
    <3>2. /\ (toSvr[n][i].k \in Tells => toSvr[n][i].ver \in Nat)
          /\ (toSvr[n][i].k = "Reply" => toSvr[n][i].id \in Nat)
      BY <3>1 DEF Reports, Tells, Versions
    <3>3. /\ (toSvr[n][i].k \in Tells => toSvr[n][i].ver <= runs)
          /\ (toSvr[n][i].k = "Reply" => toSvr[n][i].id <= runs)
      BY <3>1 DEF IInv, Numbers
    <3> QED BY <1>1, <1>2, <3>2, <3>3
  <2>3. ASSUME NEW n \in Moms  PROVE  mom'[n].ver <= runs + 1
    <3>1. mom[n] \in Jobs /\ mom[n].ver <= runs
      BY <1>2 DEF IInv, Numbers
    <3>2. mom[n].ver \in Nat
      BY <3>1 DEF Jobs, Versions
    <3> QED BY <1>1, <1>2, <3>1, <3>2
  <2>4. runs' = runs + 1 /\ sv'.ver = runs' /\ db'.ver = runs'
    BY <1>1, <1>7
  <2> QED BY <2>1, <2>2, <2>3, <2>4 DEF Numbers
<1>14. ASSUME NEW n \in Moms
       PROVE  /\ ~Numbered(mom[n])'
              /\ \A i \in Positions(toSvr'[n]) : /\ ~(Told(n, i)' /\ Numbered(toSvr[n][i])')
                                                /\ ~Answers(n, i)'
  <2>1. ~Numbered(mom[n])'
    BY <1>1, <1>2 DEF Numbered, IInv, Numbers
  <2>2. ASSUME NEW i \in Positions(toSvr'[n])
        PROVE  /\ ~(Told(n, i)' /\ Numbered(toSvr[n][i])')
               /\ ~Answers(n, i)'
    BY <1>1, <1>2 DEF Told, Numbered, Answers, IInv, Numbers
  <2> QED BY <2>1, <2>2
<1>15. ~SomeGood' /\ ~SomeBad'
  BY <1>14 DEF SomeGood, SomeBad, Good, Bad
<1>16. Ahead'
  <2>1. ASSUME NEW n \in Moms, NEW h \in Moms, NEW i \in Positions(toMom'[n]),
               NEW j \in Positions(toMom'[h]), Carries(n, i)', Carries(h, j)'
        PROVE  n = h /\ i = j
    BY <1>12, <2>1
  <2>2. ASSUME NEW n \in Moms, NEW i \in Positions(toMom'[n]), Carries(n, i)'
        PROVE  Settled' \/ Sent(n)'
    BY <1>9, <1>12, <2>2
  <2>3. ASSUME NEW n \in Moms, NEW i \in Positions(toMom'[n]), toMom'[n][i].k = "Run"
        PROVE  link'[n] \in Connected
    BY <1>1, <1>11, <2>3 DEF IInv, Ahead, Connected
  <2> QED BY <1>14, <1>15, <2>1, <2>2, <2>3 DEF Ahead
<1>17. OneKind' /\ Shielded'
  BY <1>14, <1>15 DEF OneKind, Shielded, Bad
<1> QED BY <1>8, <1>10, <1>13, <1>16, <1>17 DEF IInv

-----------------------------------------------------------------------------
(* Theorems.                                                                *)

\* The invariant holds at the start: nothing has been run.
LEMMA InitInv == Init => IInv
<1> SUFFICES ASSUME Init  PROVE  IInv
  OBVIOUS
<1>1. Types
  <2>1. 0 \in Versions /\ MaxFaults \in Nat /\ "QUEUED" \in States /\ "up" \in Links
    BY RunVersionAssumption DEF Versions, States, Links
  <2> QED BY <2>1, MessageTypes DEF Init, Types, Versions
<1>2. \A m \in Moms : /\ Positions(toMom[m]) = {} /\ Positions(toSvr[m]) = {}
                      /\ mom[m] = NoJob
  <2>1. \A m \in Moms : toMom[m] = <<>> /\ toSvr[m] = <<>> /\ mom[m] = NoJob
    BY DEF Init
  <2>2. Positions(<<>>) = {}
    BY DEF Positions
  <2> QED BY <2>1, <2>2
<1>3. Numbers
  BY <1>2 DEF Init, Numbers, NoJob
<1>4. Hosts
  BY DEF Init, Hosts, Running, Exiting
<1>5. ~OnTheWay /\ ~SomeGood /\ ~SomeBad
  BY <1>2 DEF OnTheWay, SomeGood, SomeBad, Good, Bad, Numbered, NoJob
<1>6. Ahead /\ OneKind /\ Shielded
  <2>1. Ahead /\ OneKind
    BY <1>2, <1>5 DEF Ahead, OneKind
  <2>2. \A m \in Moms : ~Bad(mom[m])
    BY <1>5 DEF SomeBad
  <2> QED BY <1>2, <2>1, <2>2 DEF Shielded
<1> QED BY <1>1, <1>3, <1>4, <1>6 DEF IInv

\* A step that changes nothing.
LEMMA StepIdle ==
  ASSUME IInv, UNCHANGED vars
  PROVE  IInv'
<1>1. UNCHANGED <<up, sv, db, pend, link, toMom, toSvr, mom, runs, forced, faults>>
  BY DEF vars
<1>2. LinksKept /\ StateKept /\ Hosts'
  BY <1>1, ServerTypes, KeepsState DEF LinksKept, Hosts
<1> QED BY <1>1, <1>2, ServerStep, ServerTypes, SameOrders, SameReports

\* Every step preserves the invariant.
LEMMA NextInv ==
  ASSUME IInv, [Next]_vars, ~reused'
  PROVE  IInv'
<1>0. ~req_runjob_again
  BY DEF req_runjob_again
<1>1. CASE UNCHANGED vars
  BY <1>1, StepIdle
<1>2. CASE on_job_exit
  BY <1>2, StepExit
<1>3. CASE req_rerunjob_force \/ node_down_requeue
  BY <1>3, StepRequeue
<1>4. CASE crash
  BY <1>4, StepCrash
<1>5. CASE pbsd_init
  BY <1>5, StepInit
<1>6. ASSUME NEW m \in Moms, req_runjob(m) \/ ping_a_mom(m) \/ stream_eof(m)  PROVE  IInv'
  BY <1>6, StepRun, StepPing, StepEof
<1>7. ASSUME NEW m \in Moms, ServerReads(m)  PROVE  IInv'
  BY <1>7, StepAnswer, StepUpdate, StepObit, StepDeleted, StepHello DEF ServerReads
<1>8. ASSUME NEW m \in Moms, MomReads(m)  PROVE  IInv'
  BY <1>8, StepCommit, MomDrops, MomGreets DEF MomReads
<1>9. ASSUME NEW m \in Moms,
             record_finish_exec(m) \/ update_jobs_status(m) \/ send_obit(m) \/ resend_obit(m)
      PROVE  IInv'
  BY <1>9, MomTells
<1> QED BY <1>0, <1>1, <1>2, <1>3, <1>4, <1>5, <1>6, <1>7, <1>8, <1>9 DEF Next

\* What the numbers are good for is lost for ever once a job is run on the vnodes of an
\* earlier run.
LEMMA ReusedOnce ==
  ASSUME [Next]_vars, ~reused'
  PROVE  reused' = reused
<1>0. ~req_runjob_again
  BY DEF req_runjob_again
<1>1. CASE UNCHANGED vars
  BY <1>1 DEF vars
<1>2. CASE on_job_exit \/ node_down_requeue \/ req_rerunjob_force \/ crash \/ pbsd_init
  BY <1>2 DEF on_job_exit, node_down_requeue, req_rerunjob_force, crash, pbsd_init, bounds
<1>3. ASSUME NEW m \in Moms, req_runjob(m) \/ ping_a_mom(m) \/ stream_eof(m)
      PROVE  reused' = reused
  BY <1>3 DEF req_runjob, ping_a_mom, stream_eof, bounds
<1>4. ASSUME NEW m \in Moms, ServerReads(m)
      PROVE  reused' = reused
  BY <1>4 DEF ServerReads, post_sendmom, stat_update, job_obit, job_deleted, is_hello4,
              is_mom_ready, bounds
<1>5. ASSUME NEW m \in Moms, MomReads(m)
      PROVE  reused' = reused
  BY <1>5 DEF MomReads, req_commit, rid_job, is_discard_job, req_deletejob, reply_hello4,
              is_cluster_addrs, MomOnly, bounds
<1>6. ASSUME NEW m \in Moms,
             record_finish_exec(m) \/ update_jobs_status(m) \/ send_obit(m) \/ resend_obit(m)
      PROVE  reused' = reused
  BY <1>6 DEF record_finish_exec, update_jobs_status, send_obit, resend_obit, MomOnly, bounds
<1> QED BY <1>0, <1>1, <1>2, <1>3, <1>4, <1>5, <1>6 DEF Next

\* The invariant as long as no job has been run on the vnodes of an earlier run.
Kept == ~reused => IInv

\* The invariant about the numbers of the runs holds whatever is lost, repeated or forced,
\* until a job is run on the vnodes of an earlier run.
THEOREM NumbersInv == Spec => []Kept
<1>1. Init => Kept
  BY InitInv DEF Kept
<1>2. ASSUME Kept, [Next]_vars  PROVE  Kept'
  BY <1>2, NextInv, ReusedOnce DEF Kept
<1> QED BY <1>1, <1>2, PTL DEF Spec

\* No MoM ever knows, or is sent, a version that the database does not have, so that a
\* server that crashes does not give the version of one run to another (svr_strtjob2
\* saves the job before it is sent), unless the job is run with "qrun -H -" on the vnodes
\* of an earlier run, whose version is sent unsaved.
THEOREM SavedBeforeSent == Spec => []VersionSaved
<1>1. Kept => VersionSaved
  <2> SUFFICES ASSUME IInv, NEW m \in Moms
               PROVE  /\ mom[m].ver <= db.ver
                      /\ \A i \in 1..Len(toMom[m]) :
                           toMom[m][i].k = "Run" => toMom[m][i].ver <= db.ver
    BY DEF VersionSaved, Kept
  <2>1. runs \in Nat /\ db.ver = runs /\ mom[m].ver <= runs
    BY DEF IInv, Types, Numbers
  <2>2. ASSUME NEW i \in 1..Len(toMom[m]), toMom[m][i].k = "Run"
        PROVE  toMom[m][i].ver <= runs
    <3>1. toMom[m][i].ver = toMom[m][i].run /\ toMom[m][i].run \in 1..runs
      BY <2>2 DEF IInv, Numbers, Positions
    <3> QED BY <2>1, <3>1
  <2> QED BY <2>1, <2>2
<1> QED BY <1>1, NumbersInv, PTL

\* The end of a run begins with an obituary of that very run, although versions are all
\* that is compared and a MoM may have put the new version on a run she already had.
LEMMA EndsByItsObit ==
  ASSUME IInv, [Next]_vars, sv.st \in Running, sv'.st \in Exiting
  PROVE  \E m \in Moms : /\ toSvr[m] # <<>> /\ toSvr'[m] = Tail(toSvr[m])
                         /\ Msg(m).k = "JOBOBIT" /\ Msg(m).run = runs
<1>0. /\ "PRERUN" \notin Exiting /\ "RUNNING" \notin Exiting /\ "QUEUED" \notin Exiting
      /\ "gone" \notin Exiting /\ sv.st \notin Exiting /\ sv'.st # sv.st
  BY DEF Exiting, Running
<1>1. sv \in SvType /\ \A s : SendFailed(s).st = s.st \/ SendFailed(s).st \notin Exiting
  BY <1>0, ServerTypes DEF SendFailed
<1>2. ASSUME NEW m \in Moms, job_obit(m)
      PROVE  /\ toSvr[m] # <<>> /\ toSvr'[m] = Tail(toSvr[m])
             /\ Msg(m).k = "JOBOBIT" /\ Msg(m).run = runs
  <2>1. Read(m, "JOBOBIT") /\ up /\ toSvr \in [Moms -> Seq(Reports)]
    BY <1>2, ServerTypes DEF job_obit, Read, Types
  <2>2. Msg(m).k = "JOBOBIT" /\ Msg(m) = toSvr[m][1] /\ 1 \in Positions(toSvr[m])
    BY <2>1, ReadKeeps, ServerTypes
  <2>3. is_current(sv, Msg(m).ver)
    BY <1>0, <1>2 DEF job_obit
  <2>4. Msg(m).ver >= runs
    BY <2>3, ServerTypes DEF is_current
  <2>5. Msg(m).run = runs
    BY <2>1, <2>2, <2>4, ReportPresent DEF Tells
  <2> QED BY <2>1, <2>2, <2>5 DEF Read
\* no other step
<1>3. CASE UNCHANGED sv
  BY <1>0, <1>3
<1>4. CASE on_job_exit \/ req_rerunjob_force \/ node_down_requeue
  <2>1. /\ [sv EXCEPT !.asked = TRUE].st = sv.st
        /\ force_reque(sv).st = "QUEUED" /\ job_purge(sv).st = "gone"
    BY <1>1 DEF SvType, force_reque, job_purge
  <2> QED BY <1>0, <1>4, <2>1 DEF on_job_exit, req_rerunjob_force, node_down_requeue
<1>5. CASE crash \/ pbsd_init
  <2>1. CASE crash
    BY <1>0, <2>1 DEF crash
  <2>2. CASE pbsd_init
    <3>1. db.st = sv.st
      BY <1>0, ServerTypes DEF Hosts, Running
    <3> QED BY <1>0, <2>2, <3>1 DEF pbsd_init, recovered
  <2> QED BY <1>5, <2>1, <2>2
<1>8. ~req_runjob_again
  BY <1>0 DEF req_runjob_again, Running
<1>6. ASSUME NEW m \in Moms, req_runjob(m) \/ stream_eof(m) \/ post_sendmom(m)
             \/ stat_update(m) \/ job_deleted(m)
      PROVE  FALSE
  <2>1. CASE req_runjob(m)
    BY <1>0, <2>1 DEF req_runjob, Running
  <2>2. CASE post_sendmom(m)
    BY <1>0, <1>1, <2>2 DEF post_sendmom
  <2>3. CASE stream_eof(m)
    <3>1. [sv EXCEPT !.asked = FALSE].st = sv.st
      BY <1>1 DEF SvType
    <3> QED BY <1>0, <1>1, <2>3, <3>1 DEF stream_eof
  <2>4. CASE stat_update(m)
    <3>1. [sv EXCEPT !.st = "RUNNING"].st = "RUNNING"
      BY <1>1 DEF SvType
    <3> QED BY <1>0, <2>4, <3>1 DEF stat_update
  <2>5. CASE job_deleted(m)
    <3>1. force_reque(sv).st = "QUEUED" /\ job_purge(sv).st = "gone"
      BY <1>1, Requeues
    <3> QED BY <1>0, <2>5, <3>1 DEF job_deleted
  <2> QED BY <1>6, <2>1, <2>2, <2>3, <2>4, <2>5
<1>7. ASSUME NEW m \in Moms, ping_a_mom(m) \/ is_hello4(m) \/ is_mom_ready(m) \/ MomReads(m)
             \/ record_finish_exec(m) \/ update_jobs_status(m) \/ send_obit(m) \/ resend_obit(m)
      PROVE  UNCHANGED sv
  BY <1>7 DEF ping_a_mom, is_hello4, is_mom_ready, MomReads, record_finish_exec,
              update_jobs_status, send_obit, resend_obit, req_commit, rid_job,
              is_discard_job, req_deletejob, reply_hello4, is_cluster_addrs, MomOnly
<1> QED BY <1>2, <1>3, <1>4, <1>5, <1>6, <1>7, <1>8 DEF Next, vars, ServerReads

\* A run is ended only by an obituary of that run, whatever has been forced, lost or
\* overwritten before (job_obit compares the versions), as long as no job has been run on
\* the vnodes of an earlier run.
THEOREM EndedByItself == Spec => AcceptsPresentRun
<1>1. Kept /\ [Next]_vars =>
        [sv.st \in Running /\ sv'.st \in Exiting /\ ~reused =>
           \E m \in Moms : /\ toSvr[m] # <<>> /\ toSvr'[m] = Tail(toSvr[m])
                           /\ Msg(m).k = "JOBOBIT" /\ Msg(m).run = runs]_vars
  BY EndsByItsObit DEF Kept
<1> QED BY <1>1, NumbersInv, PTL DEF Spec, AcceptsPresentRun

-----------------------------------------------------------------------------
(* The types, whatever numbers are given twice.                             *)

\* A job that has been started is on a host; the host in memory is that in the database.
Placed ==
  /\ up /\ sv.st \in Running \cup Exiting => sv.host \in Moms
  /\ up /\ sv.host # NoMom => db.host = sv.host
  /\ db.st \in {"RUNNING"} \cup Exiting => db.host \in Moms

TInv == TypeOK /\ sv.ver <= runs /\ db.ver <= runs /\ Placed

\* What is known of the variables one by one.
LEMMA TypesAre ==
  ASSUME TInv
  PROVE  /\ Types /\ up \in BOOLEAN /\ sv \in SvType /\ db \in DbType
         /\ pend \in [Moms -> SUBSET Versions] /\ link \in [Moms -> Links]
         /\ mom \in [Moms -> Jobs]
         /\ toMom \in [Moms -> Seq(Orders)] /\ toSvr \in [Moms -> Seq(Reports)]
         /\ destin \in Moms \cup {NoMom} /\ reused \in BOOLEAN
         /\ runs \in 0..MaxRuns /\ forced \subseteq Links /\ faults \in 0..MaxFaults
         /\ sv.st \in States /\ sv.ver \in Nat /\ db.ver \in Nat
BY RunVersionAssumption DEF TInv, TypeOK, Types, SvType, DbType, Versions

\* The variables have their types again.
LEMMA TypesAgain ==
  ASSUME up' \in BOOLEAN, sv' \in SvType, db' \in DbType, pend' \in [Moms -> SUBSET Versions],
         link' \in [Moms -> Links], mom' \in [Moms -> Jobs],
         toMom' \in [Moms -> Seq(Orders)], toSvr' \in [Moms -> Seq(Reports)],
         destin' \in Moms \cup {NoMom}, reused' \in BOOLEAN,
         runs' \in 0..MaxRuns, forced' \subseteq Links, faults' \in 0..MaxFaults,
         sv'.ver <= runs', db'.ver <= runs', Placed'
  PROVE  TInv'
BY DEF TInv, TypeOK, SvType, DbType

\* The message of a MoM.
LEMMA SayTypes ==
  ASSUME TInv, NEW m \in Moms, NEW x \in Reports,
         Say(m, <<x>>) \/ toSvr' = [toSvr EXCEPT ![m] = Append(@, x)]
  PROVE  toSvr' \in [Moms -> Seq(Reports)]
<1>1. toSvr[m] \in Seq(Reports) /\ toSvr \in [Moms -> Seq(Reports)]
  BY TypesAre
<1>2. toSvr[m] \o <<x>> \in Seq(Reports) /\ Append(toSvr[m], x) \in Seq(Reports)
  BY <1>1
<1> QED BY <1>1, <1>2 DEF Say

\* The message of the server.
LEMMA TellTypes ==
  ASSUME TInv, NEW m, NEW msgs \in Seq(Orders), Tell(m, msgs)
  PROVE  toMom' \in [Moms -> Seq(Orders)]
<1>1. toMom \in [Moms -> Seq(Orders)]
  BY TypesAre
<1>2. CASE m \in Moms
  <2>1. toMom[m] \o msgs \in Seq(Orders)
    BY <1>1, <1>2
  <2> QED BY <1>1, <1>2, <2>1 DEF Tell
<1>3. CASE m \notin Moms
  BY <1>1, <1>3 DEF Tell
<1> QED BY <1>2, <1>3

\* Where the job is stays as it was, or the job does not run any more.
LEMMA PlacedStays ==
  ASSUME TInv, up' = up,
         \/ sv'.st \in {"QUEUED", "gone"} /\ sv'.host = NoMom /\ db'.st \in {"QUEUED", "gone"}
         \/ sv'.st = sv.st /\ sv'.host = sv.host /\ db' = db
         \/ sv'.st = sv.st /\ sv'.host = NoMom /\ db' = db /\ sv.st \in {"QUEUED", "gone"}
  PROVE  Placed'
BY DEF TInv, Placed, Running, Exiting

\* The steps of a MoM.
LEMMA MomTypes ==
  ASSUME TInv, NEW m \in Moms,
         \/ MomReads(m)
         \/ record_finish_exec(m) \/ update_jobs_status(m) \/ send_obit(m) \/ resend_obit(m)
  PROVE  TInv'
<1>1. MomOnly
  BY DEF MomReads, req_commit, rid_job, is_discard_job, req_deletejob, reply_hello4,
         is_cluster_addrs, record_finish_exec, update_jobs_status, send_obit, resend_obit
<1>2. UNCHANGED <<up, sv, db, pend, destin, runs, forced, reused, faults>>
  BY <1>1 DEF MomOnly, bounds
<1>3. Types /\ mom[m] \in Jobs /\ mom \in [Moms -> Jobs] /\ link \in [Moms -> Links]
  BY TypesAre
<1>4. toMom' \in [Moms -> Seq(Orders)]
  <2>1. ASSUME NEW kind, Take(m, kind)  PROVE  toMom' \in [Moms -> Seq(Orders)]
    BY <1>3, <2>1, TakeKeeps
  <2>2. \/ UNCHANGED toMom \/ Take(m, "Run") \/ Take(m, "BADOBIT") \/ Take(m, "DISCARD_JOB")
        \/ Take(m, "DeleteJob") \/ Take(m, "HELLO") \/ Take(m, "CLUSTER_ADDRS")
    BY DEF MomReads, req_commit, rid_job, is_discard_job, req_deletejob, reply_hello4,
           is_cluster_addrs, record_finish_exec, update_jobs_status, send_obit, resend_obit
  <2> QED BY <2>1, <2>2, TypesAre
<1>5. link' \in [Moms -> Links]
  <2>1. UNCHANGED link \/ link' = [link EXCEPT ![m] = IF @ = "pinged" THEN "hello" ELSE @]
    BY DEF MomReads, req_commit, rid_job, is_discard_job, req_deletejob, reply_hello4,
           is_cluster_addrs, record_finish_exec, update_jobs_status, send_obit, resend_obit
  <2> QED BY <1>3, <2>1 DEF Links
<1>6. /\ ResUsed(mom[m]) \in Reports /\ JobObit(mom[m]) \in Reports /\ Deleted \in Reports
      /\ MomReady \in Reports /\ Hello4(mom[m]) \in Reports /\ NoJob \in Jobs
  BY <1>3, MessageTypes
<1>7. mom' \in [Moms -> Jobs] /\ toSvr' \in [Moms -> Seq(Reports)]
  <2>1. CASE req_commit(m)
    <3>1. Order(m) \in Orders /\ Order(m).k = "Run"
      BY <1>3, <2>1, TakeKeeps DEF req_commit
    <3>2. Order(m).ver \in Versions /\ Order(m).run \in Versions
      BY <3>1 DEF Orders
    <3>3. Reply(Order(m).run, "JOBEXIST") \in Reports /\ Reply(Order(m).run, "OK") \in Reports
      BY <3>2, MessageTypes
    <3>4. [mom[m] EXCEPT !.ver = Order(m).ver] \in Jobs
      BY <1>3, <3>2 DEF Jobs
    <3>5. [ver |-> Order(m).ver, run |-> Order(m).run, ss |-> "PRERUN"] \in Jobs
      BY <3>2 DEF Jobs
    <3>6. mom' \in [Moms -> Jobs]
      BY <1>3, <2>1, <3>4, <3>5 DEF req_commit, Becomes
    <3>7. Say(m, <<Reply(Order(m).run, "JOBEXIST")>>) \/ Say(m, <<Reply(Order(m).run, "OK")>>)
      BY <2>1 DEF req_commit
    <3> QED BY <3>3, <3>6, <3>7, SayTypes
  <2>2. CASE rid_job(m) \/ is_discard_job(m)
    BY <1>3, <1>6, <2>2, TypesAre DEF rid_job, is_discard_job, Becomes
  <2>3. CASE req_deletejob(m)
    BY <1>3, <1>6, <2>3, SayTypes DEF req_deletejob, Becomes
  <2>4. CASE reply_hello4(m)
    BY <1>3, <1>6, <2>4, SayTypes DEF reply_hello4
  <2>5. CASE is_cluster_addrs(m)
    BY <1>3, <1>6, <2>5, SayTypes DEF is_cluster_addrs
  <2>6. CASE record_finish_exec(m)
    <3>1. [mom[m] EXCEPT !.ss = "RUNNING"] \in Jobs
      BY <1>3 DEF Jobs
    <3> QED BY <1>3, <1>6, <2>6, <3>1, SayTypes DEF record_finish_exec, Becomes
  <2>7. CASE send_obit(m)
    <3>1. [mom[m] EXCEPT !.ss = "OBIT"] \in Jobs
      BY <1>3 DEF Jobs
    <3> QED BY <1>3, <1>6, <2>7, <3>1, SayTypes DEF send_obit, Becomes
  <2>8. CASE update_jobs_status(m) \/ resend_obit(m)
    BY <1>3, <1>6, <2>8, SayTypes DEF update_jobs_status, resend_obit
  <2> QED BY <2>1, <2>2, <2>3, <2>4, <2>5, <2>6, <2>7, <2>8 DEF MomReads
<1>8. Placed'
  BY <1>2, PlacedStays DEF TInv, Placed
<1>9. sv'.ver <= runs' /\ db'.ver <= runs'
  BY <1>2 DEF TInv
<1> QED BY <1>2, <1>4, <1>5, <1>7, <1>8, <1>9, TypesAre, TypesAgain

\* The steps of the server that neither give a number nor read a report.
LEMMA TasksTypes ==
  ASSUME TInv,
         on_job_exit \/ req_rerunjob_force \/ node_down_requeue \/ crash \/ pbsd_init
  PROVE  TInv'
<1>0. sv \in SvType /\ db \in DbType /\ sv.ver <= runs /\ db.ver <= runs /\ Placed
  BY TypesAre DEF TInv
<1>1. CASE on_job_exit
  <2>1. sv' = [sv EXCEPT !.asked = TRUE] /\ Tell(sv.host, <<DeleteJob>>)
        /\ UNCHANGED <<up, db, pend, link, toSvr, mom, destin, runs, forced, reused, faults>>
    BY <1>1 DEF on_job_exit, bounds
  <2>2. sv' \in SvType /\ sv'.st = sv.st /\ sv'.host = sv.host /\ sv'.ver = sv.ver
    BY <1>0, <2>1, Requeues DEF SvType
  <2>3. <<DeleteJob>> \in Seq(Orders)
    BY MessageTypes
  <2>4. toMom' \in [Moms -> Seq(Orders)]
    BY <2>1, <2>3, TellTypes
  <2>5. Placed'
    BY <2>1, <2>2, PlacedStays
  <2> QED BY <1>0, <2>1, <2>2, <2>4, <2>5, TypesAre, TypesAgain
<1>2. CASE req_rerunjob_force \/ node_down_requeue
  <2>1. /\ sv' \in {force_reque(sv), job_purge(sv)} /\ SaveFull(sv')
        /\ UNCHANGED <<up, link, toSvr, mom, destin, runs, reused>>
        /\ up /\ sv.st \in Running \cup Exiting
        /\ pend' = pend \/ pend' = [m \in Moms |-> {}]
        /\ faults' = faults \/ Fault
        /\ forced' = forced \/ forced' = forced \cup {link[sv.host]}
        /\ toMom' = toMom \/ Tell(sv.host, <<Discard(sv.ver)>>)
    BY <1>2 DEF req_rerunjob_force, node_down_requeue, bounds, NoTasks
  <2>2. /\ sv' \in SvType /\ sv'.st \in {"QUEUED", "gone"} /\ sv'.ver = sv.ver
        /\ sv'.host = NoMom
    <3>1. force_reque(sv).host = NoMom /\ job_purge(sv).host = NoMom
      BY <1>0 DEF force_reque, job_purge, SvType
    <3> QED BY <1>0, <2>1, <3>1, Requeues
  <2>3. db' \in DbType /\ db'.st = sv'.st /\ db'.ver = sv'.ver
    BY <1>0, <2>1, <2>2, Saves
  <2>4. toMom' \in [Moms -> Seq(Orders)]
    <3>1. Discard(sv.ver) \in Orders
      BY <1>0, MessageTypes DEF SvType
    <3>2. <<Discard(sv.ver)>> \in Seq(Orders)
      BY <3>1
    <3> QED BY <2>1, <3>2, TellTypes, TypesAre
  <2>5. faults' \in 0..MaxFaults
    BY <2>1, TypesAre, RunVersionAssumption DEF Fault
  <2>6. forced' \subseteq Links
    BY <1>0, <2>1, TypesAre DEF Placed
  <2>7. Placed'
    BY <2>1, <2>2, <2>3, PlacedStays
  <2>8. pend' \in [Moms -> SUBSET Versions]
    BY <2>1, TypesAre
  <2> QED BY <1>0, <2>1, <2>2, <2>3, <2>4, <2>5, <2>6, <2>7, <2>8, TypesAre, TypesAgain
<1>3. CASE crash
  <2>1. /\ up' = FALSE /\ Fault /\ pend' = [m \in Moms |-> {}]
        /\ link' = [m \in Moms |-> "none"]
        /\ toMom' = [m \in Moms |-> <<>>] /\ toSvr' = [m \in Moms |-> <<>>]
        /\ UNCHANGED <<sv, db, mom, destin, runs, forced, reused>>
    BY <1>3 DEF crash
  <2>2. faults' \in 0..MaxFaults
    BY <2>1, TypesAre, RunVersionAssumption DEF Fault
  <2>3. link' \in [Moms -> Links] /\ pend' \in [Moms -> SUBSET Versions] /\ up' \in BOOLEAN
    BY <2>1 DEF Links
  <2>4. toMom' \in [Moms -> Seq(Orders)] /\ toSvr' \in [Moms -> Seq(Reports)]
    BY <2>1
  <2>5. Placed'
    BY <1>0, <2>1 DEF Placed
  <2> QED BY <1>0, <2>1, <2>2, <2>3, <2>4, <2>5, TypesAre, TypesAgain
<1>4. CASE pbsd_init
  <2>1. /\ up' = TRUE
        /\ sv' = [st |-> recovered(db.st), ver |-> db.ver, host |-> db.host, asked |-> FALSE]
        /\ UNCHANGED <<db, pend, link, toMom, toSvr, mom, destin, runs, forced, reused, faults>>
    BY <1>4 DEF pbsd_init, bounds
  <2>2. recovered(db.st) \in States
    BY <1>0 DEF recovered, States, DbType
  <2>3. sv' \in SvType /\ sv'.st = recovered(db.st) /\ sv'.ver = db.ver /\ sv'.host = db.host
    BY <1>0, <2>1, <2>2 DEF SvType, DbType
  <2>4. Placed'
    BY <1>0, <2>1, <2>3 DEF Placed, recovered, Running, Exiting
  <2> QED BY <1>0, <2>1, <2>3, <2>4, TypesAre, TypesAgain
<1> QED BY <1>1, <1>2, <1>3, <1>4

\* The steps in which the server gives a number.
LEMMA NumberTypes ==
  ASSUME TInv, req_runjob_again \/ \E m \in Moms : req_runjob(m)
  PROVE  TInv'
<1>0. /\ sv \in SvType /\ db \in DbType /\ sv.ver <= runs /\ db.ver <= runs /\ Placed
      /\ runs \in Nat /\ MaxRuns \in Nat /\ sv.ver \in Nat /\ db.ver \in Nat
      /\ toMom \in [Moms -> Seq(Orders)] /\ pend \in [Moms -> SUBSET Versions]
  BY TypesAre, RunVersionAssumption DEF TInv
<1>1. /\ up /\ sv.st = "QUEUED" /\ runs < MaxRuns /\ runs' = runs + 1
      /\ UNCHANGED <<up, link, toSvr, mom, forced>>
  BY Zenon DEF req_runjob_again, req_runjob, bounds
<1>2. /\ runs + 1 \in Versions /\ runs' \in 0..MaxRuns /\ sv.ver + 1 \in Versions
      /\ sv.ver + 1 <= runs' /\ db.ver <= runs' /\ "PRERUN" \in States /\ "QUEUED" \in States
  BY <1>0, <1>1 DEF Versions, States, Running
<1>3. Run(sv.ver + 1, runs + 1) \in Orders /\ Discard(sv.ver) \in Orders
  BY <1>0, <1>2, MessageTypes DEF SvType
<1>4. CASE req_runjob_again
  <2> DEFINE m == sv.host
  <2>1. m \in Moms /\ reused' = TRUE /\ Fault /\ SaveQuick(sv')
    BY <1>0, <1>4 DEF req_runjob_again, SvType
  <2>2. /\ sv' \in SvType /\ sv'.ver = sv.ver + 1
        /\ \/ sv'.st = "PRERUN" /\ sv'.host = m
           \/ sv'.st = "QUEUED" /\ sv'.host = NoMom
    <3> DEFINE s == [sv EXCEPT !.st = "PRERUN", !.ver = @ + 1]
    <3>1. sv' = s \/ sv' = [s EXCEPT !.st = "QUEUED", !.host = NoMom]
      BY <1>4, Zenon DEF req_runjob_again
    <3>2. s \in SvType /\ s.ver = sv.ver + 1 /\ s.st = "PRERUN" /\ s.host = m
      BY <1>0, <1>2 DEF SvType
    <3> HIDE DEF s, m
    <3> QED BY <1>2, <3>1, <3>2 DEF SvType
  <2>3. db' \in DbType /\ db'.st = sv'.st /\ db'.ver = db.ver /\ db'.host = db.host
    BY <1>0, <2>1, <2>2, Saves
  <2>4. destin' \in Moms \cup {NoMom}
    BY <1>4, <2>1 DEF req_runjob_again
  <2>5. pend' \in [Moms -> SUBSET Versions]
    <3>1. pend' = pend \/ pend' = [pend EXCEPT ![m] = pend[m] \cup {runs + 1}]
      BY <1>4 DEF req_runjob_again
    <3> QED BY <1>0, <1>2, <2>1, <3>1
  <2>6. toMom' \in [Moms -> Seq(Orders)]
    <3>1. \/ toMom' = toMom
          \/ toMom' = [toMom EXCEPT ![m] = Append(toMom[m], Run(sv.ver + 1, runs + 1))]
      BY <1>0, <1>4 DEF req_runjob_again, SvType
    <3>2. toMom[m] \in Seq(Orders)
      BY <1>0, <2>1
    <3>3. Append(toMom[m], Run(sv.ver + 1, runs + 1)) \in Seq(Orders)
      BY <1>3, <2>1, <3>2
    <3> QED BY <1>0, <3>1, <3>3
  <2>7. faults' \in 0..MaxFaults
    BY <2>1, TypesAre, RunVersionAssumption DEF Fault
  <2>8. Placed'
    BY <1>0, <1>1, <2>1, <2>2, <2>3 DEF Placed, Running, Exiting
  <2> QED BY <1>1, <1>2, <2>1, <2>2, <2>3, <2>4, <2>5, <2>6, <2>7, <2>8, TypesAre, TypesAgain
<1>5. ASSUME NEW m \in Moms, req_runjob(m)  PROVE  TInv'
  <2> DEFINE s == [sv EXCEPT !.st = "PRERUN", !.ver = @ + 1, !.host = m]
             discards == [n \in Moms |-> If(n = sv.host /\ link[n] = "up", <<Discard(sv.ver)>>)]
             sends == [n \in Moms |-> If(n = m /\ link[n] = "up", <<Run(s.ver, runs + 1)>>)]
  <2>1. /\ toMom' = [n \in Moms |-> toMom[n] \o discards[n] \o sends[n]]
        /\ IF link[m] = "up"
           THEN /\ sv' = s /\ SaveFull(s)
                /\ pend' = [pend EXCEPT ![m] = @ \cup {runs + 1}] /\ destin' = m
           ELSE /\ sv' = [s EXCEPT !.st = "QUEUED", !.host = NoMom]
                /\ db' = [st |-> "QUEUED", ver |-> s.ver, host |-> m]
                /\ destin' = NoMom /\ UNCHANGED pend
        /\ UNCHANGED <<reused, faults>>
    BY <1>5, Zenon DEF req_runjob, bounds, save_started
  <2>2. s \in SvType /\ s.ver = sv.ver + 1 /\ s.st = "PRERUN" /\ s.host = m
    BY <1>0, <1>2 DEF SvType
  <2>3. Run(s.ver, runs + 1) \in Orders
    BY <1>3, <2>2
  <2> HIDE DEF s
  <2>4. toMom' \in [Moms -> Seq(Orders)]
    <3>1. ASSUME NEW n \in Moms  PROVE toMom[n] \o discards[n] \o sends[n] \in Seq(Orders)
      <4>1. discards[n] \in Seq(Orders)
        BY <1>3 DEF If
      <4>2. sends[n] \in Seq(Orders)
        BY <2>3 DEF If
      <4>3. toMom[n] \in Seq(Orders)
        BY <1>0
      <4> HIDE DEF discards, sends
      <4> QED BY <4>1, <4>2, <4>3
    <3> HIDE DEF discards, sends
    <3> QED BY <2>1, <3>1
  <2> HIDE DEF discards, sends
  <2>5. /\ sv' \in SvType /\ sv'.ver = sv.ver + 1
        /\ destin' \in Moms \cup {NoMom}
        /\ sv'.host = (IF link[m] = "up" THEN m ELSE NoMom)
    BY <2>1, <2>2, <1>2 DEF SvType
  <2>6. db' \in DbType /\ db'.ver = sv.ver + 1 /\ db'.host = m
        /\ db'.st \in {"PRERUN", "QUEUED"}
    <3>1. CASE link[m] = "up"
      BY <1>0, <2>1, <2>2, <3>1, Saves
    <3>2. CASE link[m] # "up"
      BY <1>2, <2>1, <2>2, <3>2 DEF DbType, SvType
    <3> QED BY <3>1, <3>2
  <2>7. pend' \in [Moms -> SUBSET Versions]
    BY <1>0, <1>2, <2>1
  <2>8. Placed'
    <3>1. CASE link[m] = "up"
      BY <2>5, <2>6, <3>1 DEF Placed, Running, Exiting
    <3>2. CASE link[m] # "up"
      <4>1. sv'.st = "QUEUED"
        BY <2>1, <2>2, <3>2 DEF SvType
      <4> QED BY <2>5, <2>6, <3>2, <4>1 DEF Placed, Running, Exiting
    <3> QED BY <3>1, <3>2
  <2> QED BY <1>1, <1>2, <2>1, <2>4, <2>5, <2>6, <2>7, <2>8, TypesAre, TypesAgain
<1> QED BY <1>4, <1>5

\* The steps in which a stream is opened, breaks or is read by the server.
LEMMA StreamTypes ==
  ASSUME TInv, NEW m \in Moms, ping_a_mom(m) \/ stream_eof(m) \/ ServerReads(m)
  PROVE  TInv'
<1>0. /\ sv \in SvType /\ db \in DbType /\ sv.ver <= runs /\ db.ver <= runs /\ Placed /\ Types
      /\ pend \in [Moms -> SUBSET Versions] /\ link \in [Moms -> Links]
      /\ toMom \in [Moms -> Seq(Orders)] /\ toSvr \in [Moms -> Seq(Reports)]
  BY TypesAre DEF TInv
<1>1. CASE ping_a_mom(m)
  <2>1. /\ link' = [link EXCEPT ![m] = IF @ = "none" THEN "pinged" ELSE "hello"]
        /\ toMom' = [toMom EXCEPT ![m] = Append(@, Hello)]
        /\ UNCHANGED <<up, sv, db, pend, toSvr, mom, destin, runs, forced, reused, faults>>
    BY <1>1 DEF ping_a_mom, bounds
  <2>2. Hello \in Orders /\ toMom[m] \in Seq(Orders)
    BY <1>0, MessageTypes
  <2>3. Append(toMom[m], Hello) \in Seq(Orders)
    BY <2>2
  <2>4. toMom' \in [Moms -> Seq(Orders)] /\ link' \in [Moms -> Links]
    BY <1>0, <2>1, <2>3 DEF Links
  <2>5. Placed'
    BY <2>1, PlacedStays
  <2> QED BY <1>0, <2>1, <2>4, <2>5, TypesAre, TypesAgain
<1>2. CASE stream_eof(m)
  <2> DEFINE s == IF sv.host = m THEN [sv EXCEPT !.asked = FALSE] ELSE sv
  <2>1. /\ Fault /\ pend' = [pend EXCEPT ![m] = {}]
        /\ sv' = IF pend[m] # {} THEN SendFailed(s) ELSE s
        /\ IF sv'.st = sv.st THEN UNCHANGED db ELSE SaveQuick(sv')
        /\ toMom' = [toMom EXCEPT ![m] = <<>>] /\ toSvr' = [toSvr EXCEPT ![m] = <<>>]
        /\ UNCHANGED <<up, mom, runs, forced, reused>>
        /\ destin' \in {destin, NoMom}
    BY <1>2 DEF stream_eof
  <2>2. s \in SvType /\ s.st = sv.st /\ s.ver = sv.ver /\ s.host = sv.host
    BY <1>0, Requeues DEF SvType
  <2> HIDE DEF s
  <2>3. /\ sv' \in SvType /\ sv'.ver = sv.ver
        /\ \/ sv'.st = "QUEUED" /\ sv'.host = NoMom
           \/ sv'.st = sv.st /\ sv'.host = sv.host
    <3>1. SendFailed(s) \in SvType /\ SendFailed(s).ver = s.ver
      BY <2>2, Requeues
    <3>2. \/ SendFailed(s).st = "QUEUED" /\ SendFailed(s).host = NoMom
          \/ SendFailed(s).st = s.st /\ SendFailed(s).host = s.host
      BY <2>2 DEF SendFailed, SvType
    <3> QED BY <2>1, <2>2, <3>1, <3>2
  <2>4. /\ db' \in DbType /\ db'.ver = db.ver
        /\ db' = db \/ db'.st = "QUEUED"
        /\ sv'.st = sv.st => db' = db
    BY <1>0, <2>1, <2>3, Saves
  <2>5. faults' \in 0..MaxFaults
    BY <2>1, TypesAre, RunVersionAssumption DEF Fault
  <2>6. /\ pend' \in [Moms -> SUBSET Versions] /\ toMom' \in [Moms -> Seq(Orders)]
        /\ toSvr' \in [Moms -> Seq(Reports)]
    BY <1>0, <2>1
  <2>7. link' \in [Moms -> Links]
    BY <1>0, <1>2 DEF stream_eof, Links
  <2>8. Placed'
    BY <1>0, <2>1, <2>3, <2>4 DEF Placed, Running, Exiting
  <2> QED BY <1>0, <2>1, <2>3, <2>4, <2>5, <2>6, <2>7, <2>8, TypesAre, TypesAgain
<1>3. ASSUME ServerReads(m)
      PROVE  /\ UNCHANGED <<up, mom, runs, forced, reused, faults>>
             /\ toSvr' \in [Moms -> Seq(Reports)] /\ up
  <2>1. ASSUME NEW kind, Read(m, kind)  PROVE  toSvr' \in [Moms -> Seq(Reports)] /\ up
    BY <1>0, <2>1, ReadKeeps DEF Read
  <2>2. \/ Read(m, "Reply") \/ Read(m, "RESCUSED") \/ Read(m, "JOBOBIT")
        \/ Read(m, "Deleted") \/ Read(m, "HELLO4") \/ Read(m, "MOM_READY")
    BY <1>3, Zenon DEF ServerReads, post_sendmom, stat_update, job_obit, job_deleted,
                       is_hello4, is_mom_ready
  <2>3. UNCHANGED <<up, mom, runs, forced, reused, faults>>
    <3>1. UNCHANGED <<up, mom, runs, bounds>>
      BY <1>3, Zenon DEF ServerReads, post_sendmom, stat_update, job_obit, job_deleted,
                         is_hello4, is_mom_ready
    <3> QED BY <3>1 DEF bounds
  <2> QED BY <2>1, <2>2, <2>3
<1>4. CASE post_sendmom(m)
  <2>1. /\ pend' = [pend EXCEPT ![m] = @ \ {Msg(m).id}]
        /\ sv' \in {SendFailed(sv), sv} /\ destin' \in {destin, NoMom}
        /\ IF sv'.st = sv.st THEN UNCHANGED db ELSE SaveQuick(sv')
        /\ UNCHANGED <<link, toMom>> /\ ServerReads(m)
    BY <1>4 DEF post_sendmom, ServerReads
  <2>2. /\ sv' \in SvType /\ sv'.ver = sv.ver
        /\ \/ sv'.st = "QUEUED" /\ sv'.host = NoMom
           \/ sv'.st = sv.st /\ sv'.host = sv.host
    <3>1. SendFailed(sv) \in SvType /\ SendFailed(sv).ver = sv.ver
      BY <1>0, Requeues
    <3>2. \/ SendFailed(sv).st = "QUEUED" /\ SendFailed(sv).host = NoMom
          \/ SendFailed(sv).st = sv.st /\ SendFailed(sv).host = sv.host
      BY <1>0 DEF SendFailed, SvType
    <3> QED BY <1>0, <2>1, <3>1, <3>2
  <2>3. /\ db' \in DbType /\ db'.ver = db.ver
        /\ db' = db \/ db'.st = "QUEUED"
        /\ sv'.st = sv.st => db' = db
    BY <1>0, <2>1, <2>2, Saves
  <2>4. pend' \in [Moms -> SUBSET Versions]
    BY <1>0, <2>1
  <2>5. Placed'
    BY <1>0, <1>3, <2>1, <2>2, <2>3 DEF Placed, Running, Exiting
  <2> QED BY <1>0, <1>3, <2>1, <2>2, <2>3, <2>4, <2>5, TypesAre, TypesAgain
<1>5. CASE stat_update(m)
  <2>1. /\ \/ sv' = [sv EXCEPT !.st = "RUNNING"] /\ sv.st = "PRERUN" /\ SaveFull(sv')
           \/ UNCHANGED <<sv, db>>
        /\ UNCHANGED <<pend, link, toMom, destin>> /\ ServerReads(m)
    BY <1>5 DEF stat_update, ServerReads, begins
  <2>2. CASE sv' = [sv EXCEPT !.st = "RUNNING"] /\ sv.st = "PRERUN" /\ SaveFull(sv')
    <3>1. sv' \in SvType /\ sv'.ver = sv.ver /\ sv'.host = sv.host /\ sv'.st = "RUNNING"
      BY <1>0, <2>2 DEF SvType, States, Running
    <3>2. db' \in DbType /\ db'.ver = sv'.ver /\ db'.host = sv'.host /\ db'.st = "RUNNING"
      BY <1>0, <2>2, <3>1, Saves
    <3>3. Placed'
      BY <1>0, <1>3, <2>1, <2>2, <3>1, <3>2 DEF Placed, Running, Exiting
    <3> QED BY <1>0, <1>3, <2>1, <3>1, <3>2, <3>3, TypesAre, TypesAgain
  <2>3. CASE UNCHANGED <<sv, db>>
    <3>1. Placed'
      BY <1>3, <2>1, <2>3, PlacedStays
    <3> QED BY <1>0, <1>3, <2>1, <2>3, <3>1, TypesAre, TypesAgain
  <2> QED BY <2>1, <2>2, <2>3
<1>6. CASE job_obit(m)
  <2>0. \/ sv.st \in Exiting /\ sv' = [sv EXCEPT !.asked = FALSE] /\ UNCHANGED <<db, toMom>>
        \/ /\ sv.st \in Running /\ SaveQuick(sv') /\ UNCHANGED toMom
           /\ \E st \in Exiting : sv' = [sv EXCEPT !.st = st, !.asked = FALSE]
        \/ Tell(m, <<BadObit>>) /\ UNCHANGED <<sv, db>>
    BY <1>6, Zenon DEF job_obit, is_current
  <2>1. UNCHANGED <<pend, link, destin>> /\ ServerReads(m)
    BY <1>6, Zenon DEF job_obit, ServerReads
  <2>2. toMom' \in [Moms -> Seq(Orders)]
    <3>1. <<BadObit>> \in Seq(Orders)
      BY MessageTypes
    <3>2. UNCHANGED toMom \/ Tell(m, <<BadObit>>)
      BY <2>0, Zenon
    <3> QED BY <1>0, <3>1, <3>2, TellTypes
  <2>3. CASE sv.st \in Exiting /\ sv' = [sv EXCEPT !.asked = FALSE] /\ UNCHANGED <<db, toMom>>
    <3>1. sv' \in SvType /\ sv'.ver = sv.ver /\ sv'.host = sv.host /\ sv'.st = sv.st
      BY <1>0, <2>3, Requeues DEF SvType
    <3>2. Placed'
      BY <1>3, <2>1, <2>3, <3>1, PlacedStays
    <3> QED BY <1>0, <1>3, <2>1, <2>2, <2>3, <3>1, <3>2, TypesAre, TypesAgain
  <2>4. CASE /\ sv.st \in Running /\ SaveQuick(sv')
             /\ \E st \in Exiting : sv' = [sv EXCEPT !.st = st, !.asked = FALSE]
    <3>1. /\ sv' \in SvType /\ sv'.ver = sv.ver /\ sv'.host = sv.host /\ sv'.st \in Exiting
      BY <1>0, <2>4 DEF SvType, States
    <3>2. db' \in DbType /\ db'.ver = db.ver /\ db'.host = db.host /\ db'.st = sv'.st
      BY <1>0, <2>4, <3>1, Saves
    <3>3. NoMom \notin Moms
      BY RunVersionAssumption
    <3>4. Placed'
      BY <1>0, <1>3, <2>1, <2>4, <3>1, <3>2, <3>3 DEF Placed
    <3> QED BY <1>0, <1>3, <2>1, <2>2, <3>1, <3>2, <3>4, TypesAre, TypesAgain
  <2>5. CASE UNCHANGED <<sv, db>>
    <3>1. Placed'
      BY <1>3, <2>1, <2>5, PlacedStays
    <3> QED BY <1>0, <1>3, <2>1, <2>2, <2>5, <3>1, TypesAre, TypesAgain
  <2> QED BY <2>0, <2>3, <2>4, <2>5, Zenon
<1>7. CASE job_deleted(m)
  <2>1. /\ sv' \in {sv, force_reque(sv), job_purge(sv)}
        /\ IF sv' = sv THEN UNCHANGED db ELSE SaveFull(sv')
        /\ pend' = (IF sv'.st = "gone" THEN [n \in Moms |-> {}] ELSE pend)
        /\ UNCHANGED <<link, toMom, destin>> /\ ServerReads(m)
    BY <1>7 DEF job_deleted, NoTasks, ServerReads
  <2>2. pend' \in [Moms -> SUBSET Versions]
    BY <1>0, <2>1
  <2>3. CASE sv' = sv
    <3>1. Placed'
      BY <1>3, <2>1, <2>3, PlacedStays
    <3> QED BY <1>0, <1>3, <2>1, <2>2, <2>3, <3>1, TypesAre, TypesAgain
  <2>4. CASE sv' # sv
    <3>1. force_reque(sv).host = NoMom /\ job_purge(sv).host = NoMom
      BY <1>0 DEF force_reque, job_purge, SvType
    <3>2. /\ sv' \in SvType /\ sv'.ver = sv.ver /\ sv'.host = NoMom
          /\ sv'.st \in {"QUEUED", "gone"}
      <4>1. sv' = force_reque(sv) \/ sv' = job_purge(sv)
        BY <2>1, <2>4
      <4>2. /\ force_reque(sv) \in SvType /\ force_reque(sv).ver = sv.ver
            /\ force_reque(sv).st = "QUEUED"
            /\ job_purge(sv) \in SvType /\ job_purge(sv).ver = sv.ver
            /\ job_purge(sv).st = "gone"
        BY <1>0, Requeues
      <4> QED BY <3>1, <4>1, <4>2
    <3>3. db' \in DbType /\ db'.ver = sv'.ver /\ db'.st = sv'.st
      BY <1>0, <2>1, <2>4, <3>2, Saves
    <3>4. Placed'
      BY <1>3, <2>1, <3>2, <3>3, PlacedStays
    <3> QED BY <1>0, <1>3, <2>1, <2>2, <3>2, <3>3, <3>4, TypesAre, TypesAgain
  <2> QED BY <2>3, <2>4
<1>8. CASE is_hello4(m) \/ is_mom_ready(m)
  <2>1. /\ UNCHANGED <<sv, db, pend, destin>> /\ ServerReads(m)
        /\ \/ link' = [link EXCEPT ![m] = IF @ = "hello" THEN "init" ELSE @]
           \/ link' = [link EXCEPT ![m] = "up"]
    BY <1>8 DEF is_hello4, is_mom_ready, ServerReads
  <2>2. link' \in [Moms -> Links]
    BY <1>0, <2>1 DEF Links
  <2>3. toMom' \in [Moms -> Seq(Orders)]
    <3>1. CASE is_mom_ready(m)
      BY <1>0, <3>1 DEF is_mom_ready
    <3>2. CASE is_hello4(m)
      <4>1. Msg(m) \in Reports /\ Msg(m).k = "HELLO4"
        BY <1>0, <3>2, ReadKeeps DEF is_hello4
      <4>2. Msg(m).job \in Jobs
        BY <4>1 DEF Reports
      <4>3. Msg(m).job.ver \in Versions
        BY <4>2 DEF Jobs
      <4>4. /\ Discard(AnyVersion) \in Orders /\ Discard(Msg(m).job.ver) \in Orders
            /\ ClusterAddrs \in Orders
        BY <4>3, MessageTypes
      <4>5. mom_running_jobs(sv, Msg(m).job) \in Seq(Orders)
        BY <4>4 DEF mom_running_jobs, If
      <4> DEFINE q == mom_running_jobs(sv, Msg(m).job)
      <4>6. q \in Seq(Orders) /\ Tell(m, q \o <<ClusterAddrs>>)
        BY <3>2, <4>5 DEF is_hello4
      <4> HIDE DEF q
      <4>7. q \o <<ClusterAddrs>> \in Seq(Orders)
        BY <4>4, <4>6
      <4> QED BY <4>6, <4>7, TellTypes
    <3> QED BY <1>8, <3>1, <3>2
  <2>4. Placed'
    BY <1>3, <2>1, PlacedStays
  <2> QED BY <1>0, <1>3, <2>1, <2>2, <2>3, <2>4, TypesAre, TypesAgain
<1> QED BY <1>1, <1>2, <1>4, <1>5, <1>6, <1>7, <1>8 DEF ServerReads

\* The variables have their types, for any MoMs and any bounds, although a number may be
\* given twice ("qrun -H -").
THEOREM TypeCorrect == Spec => []TypeOK
<1>1. Init => TInv
  <2> SUFFICES ASSUME Init  PROVE  TInv
    OBVIOUS
  <2>1. /\ 0 \in Versions /\ MaxFaults \in Nat /\ MaxRuns \in Nat
        /\ "QUEUED" \in States /\ "up" \in Links
    BY RunVersionAssumption DEF Versions, States, Links
  <2>2. TypeOK
    <3>1. Types
      BY <2>1, MessageTypes DEF Init, Types, Versions
    <3>2. destin \in Moms \cup {NoMom} /\ reused \in BOOLEAN
      BY DEF Init
    <3> QED BY <3>1, <3>2 DEF Types, TypeOK
  <2>3. Placed
    BY DEF Init, Placed, Running, Exiting
  <2> QED BY <2>2, <2>3 DEF TInv, Init
<1>2. TInv /\ [Next]_vars => TInv'
  <2> SUFFICES ASSUME TInv, [Next]_vars  PROVE  TInv'
    OBVIOUS
  <2>1. CASE UNCHANGED vars
    <3>1. UNCHANGED <<up, sv, db, pend, link, toMom, toSvr, mom, destin, runs, forced, reused,
                      faults>>
      BY <2>1 DEF vars
    <3> QED BY <3>1 DEF TInv, TypeOK, Placed
  <2>2. CASE Next
    BY <2>2, MomTypes, TasksTypes, NumberTypes, StreamTypes DEF Next
  <2> QED BY <2>1, <2>2
<1>3. TInv => TypeOK
  BY DEF TInv
<1> QED BY <1>1, <1>2, <1>3, PTL DEF Spec

=============================================================================
