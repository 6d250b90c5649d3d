--------------------------- MODULE RunThere_proof ---------------------------
(***************************************************************************)
(* The proof that a job the server takes to be running is on its MoM, as    *)
(* long as no manager has forced a job back (RunIsThere).                   *)
(*                                                                          *)
(* What may be on a stream depends on how far its greeting has come and on  *)
(* what the server has the MoM's job for (Role).  Fits says which streams,  *)
(* jobs and outstanding sends go together.  It is a statement about values  *)
(* alone, so that the lemmas about it are free of actions; each action is   *)
(* then shown to lead from one that fits to another.                        *)
(***************************************************************************)
EXTENDS RunVersion_proof

Kinds(q, ks) == \A i \in Positions(q) : q[i].k \in ks

\* what the server has the MoM's job for; one that is down will read it in the database,
\* and queue a job that was being sent
RoleOf(st) == CASE st = "PRERUN"   -> "pre"
                [] st = "RUNNING"  -> "run"
                [] st \in Exiting  -> "exit"
                [] OTHER           -> "off"

RoleAt(h, st, m) == IF h = m THEN RoleOf(st) ELSE "off"

Role(m) == IF up THEN RoleAt(sv.host, sv.st, m) ELSE RoleAt(db.host, recovered(db.st), m)

\* The MoM has reported the job she has, and goes on with it.
Reported(j, ts) ==
  /\ 1 \in Positions(ts) /\ ts[1].k = "HELLO4"
  /\ ts[1].job.ver = j.ver /\ ts[1].job.run = j.run /\ (j = NoJob => ts[1].job = NoJob)
  /\ \A i \in Positions(ts) : i # 1 => ts[i].k \in Tells

\* The server has read the report.  A job it does not want is to be discarded before the
\* MoM reads CLUSTER_ADDRS ...
Sorted(role, j, tm, ts) ==
  /\ Kinds(ts, Tells)
  /\ \E c \in Positions(tm) :
       /\ tm[c].k = "CLUSTER_ADDRS"
       /\ \A i \in Positions(tm) :
            i # c => role = "off" /\ tm[i].k \in {"DISCARD_JOB", "BADOBIT"}
       /\ role = "off" /\ j # NoJob =>
            \E i \in Positions(tm) : /\ i < c /\ tm[i].k = "DISCARD_JOB"
                                     /\ tm[i].ver \in {AnyVersion, j.ver}

\* ... so that she has none when she says MOM_READY, unless it is wanted.
Ready(role, j, tm, ts) ==
  /\ role # "off" => tm = <<>>
  /\ role = "off" => j = NoJob /\ Kinds(tm, {"DISCARD_JOB", "BADOBIT"})
  /\ \E c \in Positions(ts) : /\ ts[c].k = "MOM_READY"
                              /\ \A i \in Positions(ts) : i # c => ts[i].k \in Tells
                              /\ role = "off" => c = Len(ts)

\* On a stream that is up: nothing for a MoM without the job, ...
Unused(j, tm, ts, p) ==
  /\ j = NoJob /\ p = {}
  /\ Kinds(tm, {"DISCARD_JOB", "BADOBIT", "DeleteJob"}) /\ Kinds(ts, {"Deleted"})

\* ... the order, behind what was meant for earlier runs, ...
Ordered(j, tm, ts, p, r) ==
  /\ j = NoJob /\ p = {r} /\ Kinds(ts, {"Deleted"})
  /\ Len(tm) \in Positions(tm)
  /\ tm[Len(tm)].k = "Run" /\ tm[Len(tm)].ver = r /\ tm[Len(tm)].run = r
  /\ \A i \in Positions(tm) : i # Len(tm) => tm[i].k \in {"DISCARD_JOB", "BADOBIT", "DeleteJob"}

\* ... the answer and what she tells of the run, behind her answers about earlier runs, ...
Taken(j, tm, ts, p, r) ==
  /\ j # NoJob /\ tm = <<>>
  /\ p # {} => \E c \in Positions(ts) : /\ ts[c].k = "Reply" /\ ts[c].id = r /\ p = {r}
                                        /\ \A i \in Positions(ts) : i < c => ts[i].k = "Deleted"
  /\ \A i \in Positions(ts) : \/ ts[i].k = "Reply" /\ ts[i].code = "OK"
                              \/ ts[i].k \in Tells
                              \/ ts[i].k = "Deleted"
  /\ \A h, i \in Positions(ts) : h < i /\ ts[i].k = "Deleted" => ts[h].k = "Deleted"

\* ... or the deletion, which is the last she does.
Ending(j, tm, ts, p) ==
  /\ p = {} /\ Kinds(tm, {"DeleteJob"}) /\ Kinds(ts, Tells \cup {"Reply", "Deleted"})
  /\ \A i \in Positions(ts) : ts[i].k = "Deleted" => j = NoJob
  /\ \A h, i \in Positions(ts) : h < i /\ ts[h].k = "Deleted" => ts[i].k = "Deleted"

Fits(role, l, tm, ts, j, p, r) ==
  /\ j = NoJob \/ j.ver > 0
  /\ l # "marked"
  /\ role # "off" => /\ j = NoJob \/ (j.ver = r /\ j.run = r)
                     /\ \A i \in Positions(ts) : ts[i].k \in Tells => ts[i].ver = r
  /\ l # "up" => p = {} /\ (role \in {"pre", "run"} => j # NoJob)
  /\ l = "none" => tm = <<>> /\ ts = <<>>
  /\ l = "pinged" => tm = <<Hello>> /\ ts = <<>>
  /\ l = "hello" => tm = <<>> /\ Reported(j, ts)
  /\ l = "init" => Sorted(role, j, tm, ts) \/ Ready(role, j, tm, ts)
  /\ l = "up" /\ role = "off" => Unused(j, tm, ts, p)
  /\ l = "up" /\ role = "pre" => Ordered(j, tm, ts, p, r) \/ Taken(j, tm, ts, p, r)
  /\ l = "up" /\ role = "run" => Taken(j, tm, ts, p, r)
  /\ l = "up" /\ role = "exit" => Ending(j, tm, ts, p)

Local(m) == Fits(Role(m), link[m], toMom[m], toSvr[m], mom[m], pend[m], runs)

\* The number is nowhere but at the MoM the job is on; the server waits for the answer to
\* Delete Job in the end of a run only; a server that is down has no streams.
Apart ==
  /\ \A m, n \in Moms :
       Role(n) # "off" /\ m # n =>
         /\ mom[m].ver # runs
         /\ \A i \in Positions(toSvr[m]) : Told(m, i) => toSvr[m][i].ver # runs
  /\ up /\ sv.asked => sv.st \in Exiting
  /\ ~up => \A m \in Moms : link[m] = "none"

Whole == Apart /\ \A m \in Moms : Local(m)

\* The job is where it was sent to last.
Aimed ==
  /\ up /\ sv.st \in Running \cup Exiting => destin = sv.host
  /\ ~up /\ db.st \in {"RUNNING"} \cup Exiting => destin = db.host

There == forced = {} /\ ~reused => Whole /\ Aimed

-----------------------------------------------------------------------------
(* Streams.                                                                 *)

Roles == {"off", "pre", "run", "exit"}

\* t is s without its first message; t is s and one message more.
Shorter(s, t) ==
  /\ Len(s) \in Nat /\ Len(s) >= 1 /\ Len(t) = Len(s) - 1 /\ Head(s) = s[1] /\ 1 \in Positions(s)
  /\ \A i \in Positions(t) : i \in Nat /\ i >= 1 /\ i + 1 \in Positions(s) /\ t[i] = s[i + 1]
  /\ \A i \in Positions(s) : i \in Nat /\ (i # 1 => i > 1 /\ i - 1 \in Positions(t) /\ t[i - 1] = s[i])

Longer(s, x, t) ==
  /\ Len(s) \in Nat /\ Len(t) = Len(s) + 1
  /\ Len(s) + 1 \in Positions(t) /\ t[Len(s) + 1] = x
  /\ \A i \in Positions(s) : i \in Nat /\ i \in Positions(t) /\ t[i] = s[i] /\ i <= Len(s)
  /\ \A i \in Positions(t) : i = Len(s) + 1 \/ i \in Positions(s)

\* A message of the MoM is read, ...
LEMMA LessReports ==
  ASSUME NEW s \in Seq(Reports), s # <<>>
  PROVE  Tail(s) \in Seq(Reports) /\ Shorter(s, Tail(s))
BY DEF Positions, Shorter

\* ... or one of the server; ...
LEMMA LessOrders ==
  ASSUME NEW s \in Seq(Orders), s # <<>>
  PROVE  Tail(s) \in Seq(Orders) /\ Shorter(s, Tail(s))
BY DEF Positions, Shorter

\* ... the MoM says something, ...
LEMMA MoreReports ==
  ASSUME NEW s \in Seq(Reports), NEW x \in Reports, NEW t, t = s \o <<x>>
  PROVE  t \in Seq(Reports) /\ Longer(s, x, t)
BY DEF Positions, Longer

\* ... or the server does.
LEMMA MoreOrders ==
  ASSUME NEW s \in Seq(Orders), NEW x \in Orders, NEW t, t = s \o <<x>>
  PROVE  t \in Seq(Orders) /\ Longer(s, x, t)
BY DEF Positions, Longer

\* Two orders.
LEMMA TwoOrders ==
  ASSUME NEW a \in Orders, NEW b \in Orders
  PROVE  <<a>> \o <<b>> = <<a, b>>
<1>1. <<a>> \in Seq(Orders) /\ <<b>> \in Seq(Orders) /\ <<a, b>> \in Seq(Orders)
  OBVIOUS
<1> DEFINE u == <<a>> \o <<b>>
<1> DEFINE v == <<a, b>>
<1>2. u \in Seq(Orders) /\ Len(u) = 2 /\ u[1] = a /\ u[2] = b
  BY <1>1
<1>3. v \in Seq(Orders) /\ Len(v) = 2 /\ v[1] = a /\ v[2] = b
  BY <1>1
<1> HIDE DEF u, v
<1>4. \A i \in 1..2 : i = 1 \/ i = 2
  OBVIOUS
<1>5. DOMAIN u = 1..2 /\ DOMAIN v = 1..2
  BY <1>2, <1>3
<1>6. \A i \in 1..2 : u[i] = v[i]
  BY <1>2, <1>3, <1>4
<1>7. u = v
  BY <1>2, <1>3, <1>5, <1>6
<1> QED BY <1>7 DEF u, v

-----------------------------------------------------------------------------
(* What fits still fits.                                                    *)

\* The MoM tells of the job she has.
LEMMA FitsTells ==
  ASSUME NEW role \in Roles, NEW l \in Links, NEW tm \in Seq(Orders), NEW ts \in Seq(Reports),
         NEW j \in Jobs, NEW p \in SUBSET Versions, NEW r \in Nat,
         Fits(role, l, tm, ts, j, p, r),
         NEW k \in Jobs, j # NoJob, k # NoJob, k.ver = j.ver, k.run = j.run,
         NEW x \in Reports, x.k \in Tells, x.ver = j.ver,
         NEW t \in Seq(Reports),
         (l \in Connected /\ t = ts \o <<x>>) \/ (l \notin Connected /\ t = ts)
  PROVE  Fits(role, l, tm, t, k, p, r)
<1>0. /\ k.ver > 0 /\ x.k \notin {"Deleted", "Reply", "HELLO4", "MOM_READY"}
      /\ role # "off" => /\ k.ver = r /\ k.run = r /\ x.ver = r
                         /\ \A i \in Positions(ts) : ts[i].k \in Tells => ts[i].ver = r
  BY DEF Fits, Tells
<1>1. CASE l \notin Connected
  BY <1>0, <1>1 DEF Fits, Connected, Links
<1>2. CASE l \in Connected
  <2>0. t = ts \o <<x>>
    BY <1>2
  <2>a. Longer(ts, x, t)
    BY <2>0, MoreReports
  <2>1. /\ Len(ts) \in Nat /\ Len(t) = Len(ts) + 1
        /\ Len(ts) + 1 \in Positions(t) /\ t[Len(ts) + 1] = x
        /\ \A i \in Positions(ts) : i \in Positions(t) /\ t[i] = ts[i] /\ i <= Len(ts)
        /\ \A i \in Positions(t) : i = Len(ts) + 1 \/ i \in Positions(ts)
    BY <2>a DEF Longer
  <2>2. role # "off" => \A i \in Positions(t) : t[i].k \in Tells => t[i].ver = r
    BY <1>0, <2>1
  <2>3. CASE l = "hello"
    <3>1. Reported(j, ts) /\ tm = <<>>
      BY <2>3 DEF Fits
    <3>2. Reported(k, t)
      BY <1>0, <2>1, <3>1 DEF Reported, Positions
    <3> QED BY <1>0, <2>2, <2>3, <3>1, <3>2 DEF Fits
  <2>4. CASE l = "init"
    <3>1. Sorted(role, j, tm, ts) => Sorted(role, k, tm, t)
      BY <2>1 DEF Sorted, Kinds
    <3>2. ASSUME Ready(role, j, tm, ts)  PROVE  Ready(role, k, tm, t)
      <4>1. role # "off" /\ tm = <<>>
        BY <3>2 DEF Ready
      <4>2. PICK c \in Positions(ts) : /\ ts[c].k = "MOM_READY"
                                      /\ \A i \in Positions(ts) : i # c => ts[i].k \in Tells
        BY <3>2 DEF Ready
      <4>3. c \in Positions(t) /\ t[c].k = "MOM_READY"
        BY <2>1, <4>2
      <4>4. \A i \in Positions(t) : i # c => t[i].k \in Tells
        BY <2>1, <4>2
      <4> QED BY <4>1, <4>3, <4>4 DEF Ready
    <3> QED BY <1>0, <2>2, <2>4, <3>1, <3>2 DEF Fits
  <2>5. CASE l = "up"
    <3>1. role # "off" /\ ~Ordered(j, tm, ts, p, r)
      BY <2>5 DEF Fits, Unused, Ordered
    <3>2. ASSUME Taken(j, tm, ts, p, r)  PROVE  Taken(k, tm, t, p, r)
      <4>1. tm = <<>>
        BY <3>2 DEF Taken
      <4>2. ASSUME p # {}
            PROVE  \E c \in Positions(t) : /\ t[c].k = "Reply" /\ t[c].id = r /\ p = {r}
                                           /\ \A i \in Positions(t) : i < c => t[i].k = "Deleted"
        <5>1. PICK c \in Positions(ts) : /\ ts[c].k = "Reply" /\ ts[c].id = r /\ p = {r}
                                        /\ \A i \in Positions(ts) : i < c => ts[i].k = "Deleted"
          BY <3>2, <4>2 DEF Taken
        <5>2. c \in Positions(t) /\ t[c] = ts[c] /\ c <= Len(ts) /\ c \in Nat
          BY <2>1, <5>1 DEF Positions
        <5>3. \A i \in Positions(t) : i < c => i \in Positions(ts) /\ t[i] = ts[i]
          BY <2>1, <5>2 DEF Positions
        <5> QED BY <5>1, <5>2, <5>3
      <4>3. \A i \in Positions(t) : \/ t[i].k = "Reply" /\ t[i].code = "OK"
                                    \/ t[i].k \in Tells
                                    \/ t[i].k = "Deleted"
        BY <2>1, <3>2 DEF Taken
      <4>4. \A h, i \in Positions(t) : h < i /\ t[i].k = "Deleted" => t[h].k = "Deleted"
        BY <1>0, <2>1, <3>2 DEF Taken, Positions
      <4> QED BY <4>1, <4>2, <4>3, <4>4 DEF Taken
    <3>3. Ending(j, tm, ts, p) => Ending(k, tm, t, p)
      BY <1>0, <2>1 DEF Ending, Kinds, Positions
    <3> QED BY <1>0, <2>2, <2>5, <3>1, <3>2, <3>3 DEF Fits, Roles
  <2> QED BY <1>2, <2>3, <2>4, <2>5 DEF Connected, Fits
<1> QED BY <1>1, <1>2

Alone(role, l, tm, ts, j, p, r) ==
  /\ l = "up" /\ role = "pre" /\ j = NoJob /\ Head(tm).ver = r /\ Head(tm).run = r
  /\ Tail(tm) = <<>> /\ p = {r} /\ Kinds(ts, {"Deleted"})

\* The order is alone on the stream, to a MoM who has nothing, ...
LEMMA FitsOrder ==
  ASSUME NEW role \in Roles, NEW l \in Links, NEW tm \in Seq(Orders), NEW ts \in Seq(Reports),
         NEW j \in Jobs, NEW p \in SUBSET Versions, NEW r \in Nat,
         Fits(role, l, tm, ts, j, p, r),
         tm # <<>>, Head(tm).k = "Run"
  PROVE  Alone(role, l, tm, ts, j, p, r)
<1>1. /\ Tail(tm) \in Seq(Orders) /\ Len(tm) \in Nat /\ Len(tm) >= 1 /\ Len(Tail(tm)) = Len(tm) - 1
      /\ Head(tm) = tm[1] /\ 1 \in Positions(tm)
  BY LessOrders DEF Shorter
<1>2. l = "up"
  <2>1. l # "none" /\ l # "hello" /\ l # "marked"
    BY DEF Fits
  <2>2. l # "pinged"
    BY <1>1 DEF Fits, Hello
  <2>3. l # "init"
    BY <1>1 DEF Fits, Sorted, Ready, Kinds
  <2> QED BY <2>1, <2>2, <2>3 DEF Links
<1>3. role = "pre" /\ Ordered(j, tm, ts, p, r)
  BY <1>1, <1>2 DEF Fits, Roles, Unused, Taken, Ending, Kinds
<1>4. Len(tm) = 1 /\ Tail(tm) = <<>> /\ j = NoJob /\ Head(tm).ver = r /\ Head(tm).run = r
  BY <1>1, <1>3 DEF Ordered
<1> QED BY <1>2, <1>3, <1>4 DEF Ordered, Alone

\* ... and she takes the run.
LEMMA FitsCommit ==
  ASSUME NEW ts, Kinds(ts, {"Deleted"}), NEW r \in Nat, r > 0, NEW k, k.ver = r, k.run = r,
         NEW x, x.k = "Reply", x.id = r, x.code = "OK", NEW t, Longer(ts, x, t)
  PROVE  Fits("pre", "up", <<>>, t, k, {r}, r)
<1>2. /\ Len(ts) \in Nat /\ Len(t) = Len(ts) + 1
      /\ Len(ts) + 1 \in Positions(t) /\ t[Len(ts) + 1] = x
      /\ \A i \in Positions(t) :
           i = Len(ts) + 1 \/ (i \in Positions(ts) /\ t[i] = ts[i] /\ i <= Len(ts))
  BY DEF Longer
<1>3. \A i \in Positions(t) : i = Len(ts) + 1 \/ t[i].k = "Deleted"
  BY <1>2 DEF Kinds
<1>4. x.k \notin Tells /\ "Deleted" \notin Tells /\ x.k # "Deleted" /\ k # NoJob
  BY DEF Tells, NoJob
<1>5. Taken(k, <<>>, t, {r}, r)
  BY <1>2, <1>3, <1>4 DEF Taken, Positions
<1>6. \A i \in Positions(t) : t[i].k \in Tells => t[i].ver = r
  BY <1>2, <1>3, <1>4
<1> QED BY <1>5, <1>6 DEF Fits

\* The MoM deletes a run that was rejected or is to be discarded: not the one the server
\* wants.
LEMMA FitsDrop ==
  ASSUME NEW role \in Roles, NEW l \in Links, NEW tm \in Seq(Orders), NEW ts \in Seq(Reports),
         NEW j \in Jobs, NEW p \in SUBSET Versions, NEW r \in Nat,
         Fits(role, l, tm, ts, j, p, r),
         tm # <<>>, Head(tm).k \in {"BADOBIT", "DISCARD_JOB"}, NEW k \in Jobs,
         k = NoJob \/ (k = j /\ Head(tm).k = "DISCARD_JOB" /\ Head(tm).ver \notin {AnyVersion, j.ver})
  PROVE  Fits(role, l, Tail(tm), ts, k, p, r)
<1>1. /\ Tail(tm) \in Seq(Orders) /\ Len(tm) \in Nat /\ Len(tm) >= 1 /\ Len(Tail(tm)) = Len(tm) - 1
      /\ Head(tm) = tm[1] /\ 1 \in Positions(tm)
      /\ \A i \in Positions(Tail(tm)) : i + 1 \in Positions(tm) /\ Tail(tm)[i] = tm[i + 1]
      /\ \A i \in Positions(tm) : i # 1 => i - 1 \in Positions(Tail(tm)) /\ Tail(tm)[i - 1] = tm[i]
  BY LessOrders DEF Shorter, Positions
<1>2. l \in {"init", "up"}
  <2>1. l # "none" /\ l # "hello" /\ l # "marked"
    BY DEF Fits
  <2>2. l # "pinged"
    BY <1>1 DEF Fits, Hello
  <2> QED BY <2>1, <2>2 DEF Links
<1> DEFINE t == Tail(tm)
<1>3. /\ Len(t) = Len(tm) - 1 /\ Len(tm) \in Nat
      /\ \A i \in Positions(t) : i + 1 \in Positions(tm) /\ t[i] = tm[i + 1] /\ i \in Nat
      /\ \A i \in Positions(tm) : i # 1 => i - 1 \in Positions(t) /\ t[i - 1] = tm[i] /\ i \in Nat
  BY <1>1 DEF Positions
<1> HIDE DEF t
<1>4. CASE l = "init"
  <2>1. ASSUME Sorted(role, j, tm, ts)  PROVE  role = "off" /\ Sorted(role, k, t, ts)
    <3>1. PICK c \in Positions(tm) :
            /\ tm[c].k = "CLUSTER_ADDRS"
            /\ \A i \in Positions(tm) :
                 i # c => role = "off" /\ tm[i].k \in {"DISCARD_JOB", "BADOBIT"}
            /\ role = "off" /\ j # NoJob =>
                 \E i \in Positions(tm) : /\ i < c /\ tm[i].k = "DISCARD_JOB"
                                          /\ tm[i].ver \in {AnyVersion, j.ver}
      BY <2>1 DEF Sorted
    <3>2. c # 1 /\ role = "off"
      BY <1>1, <3>1
    <3>3. c - 1 \in Positions(t) /\ t[c - 1].k = "CLUSTER_ADDRS"
      BY <1>3, <3>1, <3>2
    <3>4. ASSUME NEW i \in Positions(t), i # c - 1
          PROVE  t[i].k \in {"DISCARD_JOB", "BADOBIT"}
      <4>1. i + 1 \in Positions(tm) /\ t[i] = tm[i + 1] /\ i + 1 # c
        BY <1>3, <3>1, <3>4 DEF Positions
      <4> QED BY <3>1, <4>1
    <3>5. ASSUME k # NoJob
          PROVE  \E i \in Positions(t) : /\ i < c - 1 /\ t[i].k = "DISCARD_JOB"
                                         /\ t[i].ver \in {AnyVersion, k.ver}
      <4>1. k = j /\ tm[1].ver \notin {AnyVersion, j.ver}
        BY <1>1, <3>5
      <4>2. PICK i \in Positions(tm) : /\ i < c /\ tm[i].k = "DISCARD_JOB"
                                       /\ tm[i].ver \in {AnyVersion, j.ver}
        BY <3>1, <3>2, <3>5, <4>1
      <4>3. i # 1 /\ i - 1 \in Positions(t) /\ t[i - 1] = tm[i] /\ i - 1 < c - 1
        BY <1>3, <4>1, <4>2 DEF Positions
      <4> QED BY <4>1, <4>2, <4>3
    <3> QED BY <2>1, <3>2, <3>3, <3>4, <3>5 DEF Sorted
  <2>2. ASSUME Ready(role, j, tm, ts)  PROVE  role = "off" /\ Ready(role, k, t, ts)
    <3>1. role = "off" /\ k = NoJob /\ Kinds(t, {"DISCARD_JOB", "BADOBIT"})
      BY <1>3, <2>2 DEF Ready, Kinds
    <3> QED BY <2>2, <3>1 DEF Ready
  <2>3. role = "off" /\ (Sorted(role, k, t, ts) \/ Ready(role, k, t, ts))
    BY <1>4, <2>1, <2>2 DEF Fits
  <2> QED BY <1>4, <2>3 DEF Fits, t
<1>5. CASE l = "up"
  <2>1. role \in {"off", "pre"} /\ (role = "pre" => Ordered(j, tm, ts, p, r))
    BY <1>1, <1>5 DEF Fits, Roles, Taken, Ending, Kinds
  <2>2. CASE role = "off"
    <3>1. Unused(k, t, ts, p)
      BY <1>3, <1>5, <2>2 DEF Fits, Unused, Kinds
    <3> QED BY <1>5, <2>2, <3>1 DEF Fits, t
  <2>3. CASE role = "pre"
    <3>1. Len(tm) # 1
      BY <1>1, <2>1, <2>3 DEF Ordered
    <3>2. Ordered(k, t, ts, p, r)
      <4>1. Len(t) \in Positions(t) /\ t[Len(t)] = tm[Len(tm)]
        BY <1>1, <1>3, <3>1 DEF Positions
      <4>2. \A i \in Positions(t) : i # Len(t) => i + 1 # Len(tm)
        BY <1>3 DEF Positions
      <4> QED BY <1>3, <2>1, <2>3, <4>1, <4>2 DEF Ordered
    <3> QED BY <1>5, <2>3, <3>2 DEF Fits, t, Ordered
  <2> QED BY <2>1, <2>2, <2>3
<1> QED BY <1>2, <1>4, <1>5

\* The MoM deletes the job as she is told.
LEMMA FitsDelete ==
  ASSUME NEW role \in Roles, NEW l \in Links, NEW tm \in Seq(Orders), NEW ts \in Seq(Reports),
         NEW j \in Jobs, NEW p \in SUBSET Versions, NEW r \in Nat,
         Fits(role, l, tm, ts, j, p, r),
         tm # <<>>, Head(tm).k = "DeleteJob",
         NEW x \in Reports, x.k = "Deleted", NEW t, t = ts \o <<x>>
  PROVE  l = "up" /\ Fits(role, l, Tail(tm), t, NoJob, p, r)
<1> DEFINE u == Tail(tm)
<1>1. Shorter(tm, u)
  BY LessOrders
<1>2. Longer(ts, x, t) /\ t \in Seq(Reports)
  BY MoreReports
<1> HIDE DEF u
<1>3. tm[1].k = "DeleteJob" /\ 1 \in Positions(tm)
  BY <1>1 DEF Shorter
<1>4. l = "up"
  <2>1. l # "none" /\ l # "hello" /\ l # "marked"
    BY DEF Fits
  <2>2. l # "pinged"
    BY DEF Fits, Hello
  <2>3. l # "init"
    BY <1>3 DEF Fits, Sorted, Ready, Kinds
  <2> QED BY <2>1, <2>2, <2>3 DEF Links
<1>5. \A i \in Positions(t) : (i = Len(ts) + 1 /\ t[i].k = "Deleted") \/ (i \in Positions(ts) /\ t[i] = ts[i])
  BY <1>2 DEF Longer
<1>6. role # "off" => \A i \in Positions(t) : t[i].k \in Tells => t[i].ver = r
  BY <1>5 DEF Fits, Tells
<1>7. \A i \in Positions(u) : i + 1 \in Positions(tm) /\ u[i] = tm[i + 1]
  BY <1>1 DEF Shorter
<1>8. CASE role = "off"
  <2>1. Unused(NoJob, u, t, p)
    BY <1>4, <1>5, <1>7, <1>8 DEF Fits, Unused, Kinds
  <2> QED BY <1>4, <1>8, <2>1 DEF Fits, u
<1>9. CASE role = "pre"
  <2>1. Ordered(j, tm, ts, p, r)
    BY <1>3, <1>4, <1>9 DEF Fits, Taken
  <2>2. Len(tm) # 1
    BY <1>3, <2>1 DEF Ordered
  <2>3. Len(u) \in Positions(u) /\ u[Len(u)] = tm[Len(tm)]
    BY <1>1, <2>2 DEF Shorter, Positions
  <2>4. \A i \in Positions(u) : i # Len(u) => i + 1 # Len(tm)
    BY <1>1 DEF Shorter, Positions
  <2>5. Ordered(NoJob, u, t, p, r)
    <3>1. Kinds(t, {"Deleted"})
      BY <1>5, <2>1 DEF Ordered, Kinds
    <3> QED BY <1>7, <2>1, <2>3, <2>4, <3>1 DEF Ordered
  <2> QED BY <1>4, <1>6, <1>9, <2>5 DEF Fits, u
<1>10. CASE role = "run"
  BY <1>3, <1>4, <1>10 DEF Fits, Taken
<1>11. CASE role = "exit"
  <2>1. Ending(j, tm, ts, p)
    BY <1>4, <1>11 DEF Fits
  <2>2. p = {} /\ Kinds(u, {"DeleteJob"}) /\ Kinds(t, Tells \cup {"Reply", "Deleted"})
    BY <1>5, <1>7, <2>1 DEF Ending, Kinds
  <2>3. \A h, i \in Positions(t) : h < i /\ t[h].k = "Deleted" => t[i].k = "Deleted"
    <3> SUFFICES ASSUME NEW h \in Positions(t), NEW i \in Positions(t), h < i, t[h].k = "Deleted"
                 PROVE  t[i].k = "Deleted"
      OBVIOUS
    <3>1. i = Len(ts) + 1 \/ (i \in Positions(ts) /\ h \in Positions(ts) /\ t[i] = ts[i] /\ t[h] = ts[h])
      BY <1>2, <1>5 DEF Longer, Positions
    <3> QED BY <1>5, <2>1, <3>1 DEF Ending
  <2>4. Ending(NoJob, u, t, p)
    BY <2>2, <2>3 DEF Ending
  <2> QED BY <1>4, <1>6, <1>11, <2>4 DEF Fits, u
<1> QED BY <1>4, <1>8, <1>9, <1>10, <1>11 DEF Roles

\* The MoM takes the stream on which she was greeted, and says what she has.
LEMMA FitsGreeted ==
  ASSUME NEW role \in Roles, NEW l \in Links, NEW tm \in Seq(Orders), NEW ts \in Seq(Reports),
         NEW j \in Jobs, NEW p \in SUBSET Versions, NEW r \in Nat,
         Fits(role, l, tm, ts, j, p, r),
         tm # <<>>, Head(tm).k = "HELLO"
  PROVE  l = "pinged" /\ ts = <<>> /\ Fits(role, "hello", Tail(tm), <<Hello4(j)>>, j, p, r)
<1>1. Shorter(tm, Tail(tm))
  BY LessOrders
<1>2. tm[1].k = "HELLO" /\ 1 \in Positions(tm)
  BY <1>1 DEF Shorter
<1>3. l = "pinged"
  <2>1. l # "none" /\ l # "hello" /\ l # "marked"
    BY DEF Fits
  <2>2. l # "init"
    BY <1>2 DEF Fits, Sorted, Ready, Kinds
  <2>3. l # "up"
    BY <1>2 DEF Fits, Roles, Unused, Ordered, Taken, Ending, Kinds
  <2> QED BY <2>1, <2>2, <2>3 DEF Links
<1>4. tm = <<Hello>> /\ ts = <<>>
  BY <1>3 DEF Fits
<1>5. Tail(tm) = <<>>
  BY <1>4
<1> DEFINE t == <<Hello4(j)>>
<1>6. Len(t) = 1 /\ t[1].k = "HELLO4" /\ t[1].job = j
  BY DEF Hello4
<1> HIDE DEF t
<1>7. Reported(j, t)
  BY <1>6 DEF Reported, Positions
<1>8. \A i \in Positions(t) : t[i].k \notin Tells
  BY <1>6 DEF Positions, Tells
<1>9. Fits(role, "hello", <<>>, t, j, p, r)
  BY <1>3, <1>7, <1>8 DEF Fits
<1> QED BY <1>3, <1>4, <1>5, <1>9 DEF t

\* The MoM has carried out what stood before CLUSTER_ADDRS.
LEMMA FitsAddrs ==
  ASSUME NEW role \in Roles, NEW l \in Links, NEW tm \in Seq(Orders), NEW ts \in Seq(Reports),
         NEW j \in Jobs, NEW p \in SUBSET Versions, NEW r \in Nat,
         Fits(role, l, tm, ts, j, p, r),
         tm # <<>>, Head(tm).k = "CLUSTER_ADDRS",
         NEW x \in Reports, x.k = "MOM_READY", NEW t, t = ts \o <<x>>
  PROVE  l = "init" /\ Fits(role, l, Tail(tm), t, j, p, r)
<1> DEFINE u == Tail(tm)
<1>1. Shorter(tm, u) /\ u \in Seq(Orders)
  BY LessOrders
<1>2. Longer(ts, x, t) /\ t \in Seq(Reports)
  BY MoreReports
<1> HIDE DEF u
<1>3. tm[1].k = "CLUSTER_ADDRS" /\ 1 \in Positions(tm)
  BY <1>1 DEF Shorter
<1>4. l = "init"
  <2>1. l # "none" /\ l # "hello" /\ l # "marked"
    BY DEF Fits
  <2>2. l # "pinged"
    BY DEF Fits, Hello
  <2>3. l # "up"
    BY <1>3 DEF Fits, Roles, Unused, Ordered, Taken, Ending, Kinds
  <2> QED BY <2>1, <2>2, <2>3 DEF Links
<1>5. Sorted(role, j, tm, ts)
  BY <1>3, <1>4 DEF Fits, Ready, Kinds
<1>6. /\ \A i \in Positions(tm) : i # 1 => role = "off" /\ tm[i].k \in {"DISCARD_JOB", "BADOBIT"}
      /\ role = "off" => j = NoJob
  <2>1. PICK c \in Positions(tm) :
          /\ tm[c].k = "CLUSTER_ADDRS"
          /\ \A i \in Positions(tm) :
               i # c => role = "off" /\ tm[i].k \in {"DISCARD_JOB", "BADOBIT"}
          /\ role = "off" /\ j # NoJob =>
               \E i \in Positions(tm) : /\ i < c /\ tm[i].k = "DISCARD_JOB"
                                        /\ tm[i].ver \in {AnyVersion, j.ver}
    BY <1>5 DEF Sorted
  <2>2. c = 1
    BY <1>3, <2>1
  <2>3. \A i \in Positions(tm) : ~(i < 1)
    BY DEF Positions
  <2> QED BY <2>1, <2>2, <2>3
<1>7. \A i \in Positions(u) : i + 1 \in Positions(tm) /\ u[i] = tm[i + 1] /\ i + 1 # 1
  BY <1>1 DEF Shorter, Positions
<1>8. role = "off" => j = NoJob /\ Kinds(u, {"DISCARD_JOB", "BADOBIT"})
  BY <1>6, <1>7 DEF Kinds
<1>9. role # "off" => u = <<>>
  <2>1. role # "off" => \A i \in Positions(u) : FALSE
    BY <1>6, <1>7
  <2>2. Len(u) \in Nat /\ (Len(u) = 0 => u = <<>>)
    BY <1>1
  <2> QED BY <2>1, <2>2 DEF Positions
<1>10. /\ Len(t) \in Positions(t) /\ t[Len(t)].k = "MOM_READY"
       /\ \A i \in Positions(t) : i # Len(t) => i \in Positions(ts) /\ t[i] = ts[i]
  BY <1>2 DEF Longer
<1>11. \A i \in Positions(t) : i # Len(t) => t[i].k \in Tells
  BY <1>5, <1>10 DEF Sorted, Kinds
<1>12. Ready(role, j, u, t)
  BY <1>8, <1>9, <1>10, <1>11 DEF Ready
<1>13. role # "off" => \A i \in Positions(t) : t[i].k \in Tells => t[i].ver = r
  BY <1>10 DEF Fits, Tells
<1> QED BY <1>4, <1>12, <1>13 DEF Fits, u

\* The server reads what the MoM tells of the job, and the job may go on in its course.
LEMMA FitsTold ==
  ASSUME NEW role \in Roles, NEW l \in Links, NEW tm \in Seq(Orders), NEW ts \in Seq(Reports),
         NEW j \in Jobs, NEW p \in SUBSET Versions, NEW r \in Nat,
         Fits(role, l, tm, ts, j, p, r),
         ts # <<>>, Head(ts).k \in Tells, NEW s \in Roles,
         \/ s = role
         \/ role = "pre" /\ s = "run"
         \/ role \in {"pre", "run"} /\ s = "exit"
  PROVE  l \in {"init", "up"} /\ (role = "off" => l = "init") /\ Fits(s, l, tm, Tail(ts), j, p, r)
<1> DEFINE t == Tail(ts)
<1>1. Shorter(ts, t)
  BY LessReports
<1> HIDE DEF t
<1>2. /\ ts[1].k \in Tells /\ 1 \in Positions(ts) /\ Len(ts) \in Nat /\ Len(t) = Len(ts) - 1
      /\ \A i \in Positions(t) : i \in Nat /\ i >= 1 /\ i + 1 \in Positions(ts) /\ t[i] = ts[i + 1]
      /\ \A i \in Positions(ts) : i \in Nat /\ (i # 1 => i > 1 /\ i - 1 \in Positions(t) /\ t[i - 1] = ts[i])
  BY <1>1 DEF Shorter
<1>3. l \in {"init", "up"}
  <2>1. l # "none" /\ l # "pinged" /\ l # "marked"
    BY DEF Fits
  <2>2. l # "hello"
    BY <1>2 DEF Fits, Reported, Tells
  <2> QED BY <2>1, <2>2 DEF Links
<1>4. (s = "off") <=> (role = "off")
  OBVIOUS
<1>5. s # "off" => \A i \in Positions(t) : t[i].k \in Tells => t[i].ver = r
  BY <1>2, <1>4 DEF Fits
<1>6. CASE l = "init"
  <2>1. ASSUME Sorted(role, j, tm, ts)  PROVE  Sorted(s, j, tm, t)
    <3>1. Kinds(t, Tells)
      BY <1>2, <2>1 DEF Sorted, Kinds
    <3> QED BY <1>4, <2>1, <3>1 DEF Sorted
  <2>2. ASSUME Ready(role, j, tm, ts)  PROVE  Ready(s, j, tm, t)
    <3>1. PICK c \in Positions(ts) : /\ ts[c].k = "MOM_READY"
                                     /\ \A i \in Positions(ts) : i # c => ts[i].k \in Tells
                                     /\ role = "off" => c = Len(ts)
      BY <2>2 DEF Ready
    <3>2. c # 1
      BY <1>2, <3>1 DEF Tells
    <3>3. c - 1 \in Positions(t) /\ t[c - 1].k = "MOM_READY" /\ c \in Nat
      BY <1>2, <3>1, <3>2
    <3>4. \A i \in Positions(t) : i # c - 1 => t[i].k \in Tells
      BY <1>2, <3>1, <3>3
    <3>5. s = "off" => c - 1 = Len(t)
      BY <1>2, <1>4, <3>1
    <3> QED BY <1>4, <2>2, <3>3, <3>4, <3>5 DEF Ready
  <2> QED BY <1>4, <1>5, <1>6, <2>1, <2>2 DEF Fits, t
<1>7. CASE l = "up"
  <2>1. role # "off" /\ (role \in {"pre", "run"} => Taken(j, tm, ts, p, r))
    BY <1>2, <1>7 DEF Fits, Unused, Ordered, Kinds, Tells
  <2>2. CASE role \in {"pre", "run"}
    <3>1. /\ j # NoJob /\ tm = <<>>
          /\ \A i \in Positions(ts) : \/ ts[i].k = "Reply" /\ ts[i].code = "OK"
                                      \/ ts[i].k \in Tells
                                      \/ ts[i].k = "Deleted"
      BY <2>1, <2>2 DEF Taken
    <3>2. \A i \in Positions(ts) : ts[i].k # "Deleted"
      <4> SUFFICES ASSUME NEW i \in Positions(ts), ts[i].k = "Deleted"  PROVE FALSE
        OBVIOUS
      <4>1. 1 < i
        BY <1>2 DEF Tells
      <4>2. ts[1].k = "Deleted"
        BY <1>2, <2>1, <2>2, <4>1 DEF Taken
      <4> QED BY <1>2, <4>2 DEF Tells
    <3>3. p = {}
      <4> SUFFICES ASSUME p # {}  PROVE FALSE
        OBVIOUS
      <4>1. PICK c \in Positions(ts) : /\ ts[c].k = "Reply"
                                       /\ \A i \in Positions(ts) : i < c => ts[i].k = "Deleted"
        BY <2>1, <2>2 DEF Taken
      <4>2. 1 < c
        BY <1>2, <4>1 DEF Tells
      <4> QED BY <1>2, <3>2, <4>1, <4>2
    <3>4. /\ \A i \in Positions(t) : t[i].k # "Deleted"
          /\ \A i \in Positions(t) : \/ t[i].k = "Reply" /\ t[i].code = "OK"
                                     \/ t[i].k \in Tells
      BY <1>2, <3>1, <3>2
    <3>5. Taken(j, tm, t, p, r)
      BY <3>1, <3>3, <3>4 DEF Taken
    <3>6. Ending(j, tm, t, p)
      <4>1. Kinds(tm, {"DeleteJob"})
        BY <3>1 DEF Kinds, Positions
      <4>2. Kinds(t, Tells \cup {"Reply", "Deleted"})
        BY <3>4 DEF Kinds
      <4> QED BY <3>3, <3>4, <4>1, <4>2 DEF Ending
    <3> QED BY <1>4, <1>5, <1>7, <2>2, <3>5, <3>6 DEF Fits, t
  <2>3. CASE role = "exit"
    <3>1. Ending(j, tm, ts, p) /\ s = "exit"
      BY <1>7, <2>3 DEF Fits
    <3>2. Kinds(t, Tells \cup {"Reply", "Deleted"})
      BY <1>2, <3>1 DEF Ending, Kinds
    <3>3. \A i \in Positions(t) : t[i].k = "Deleted" => j = NoJob
      BY <1>2, <3>1 DEF Ending
    <3>4. \A h, i \in Positions(t) : h < i /\ t[h].k = "Deleted" => t[i].k = "Deleted"
      <4> SUFFICES ASSUME NEW h \in Positions(t), NEW i \in Positions(t), h < i, t[h].k = "Deleted"
                   PROVE  t[i].k = "Deleted"
        OBVIOUS
      <4>1. h + 1 < i + 1 /\ h + 1 \in Positions(ts) /\ i + 1 \in Positions(ts)
        BY <1>2
      <4> QED BY <1>2, <3>1, <4>1 DEF Ending
    <3>5. Ending(j, tm, t, p)
      BY <3>1, <3>2, <3>3, <3>4 DEF Ending
    <3> QED BY <1>5, <1>7, <2>3, <3>1, <3>5 DEF Fits, t
  <2> QED BY <2>1, <2>2, <2>3 DEF Roles
<1>8. role = "off" => l = "init"
  BY <1>2, <1>3 DEF Fits, Unused, Kinds, Tells
<1> QED BY <1>3, <1>6, <1>7, <1>8

\* The server reads the answer to the send: it is that of the run, and the job was taken.
LEMMA FitsAnswer ==
  ASSUME NEW role \in Roles, NEW l \in Links, NEW tm \in Seq(Orders), NEW ts \in Seq(Reports),
         NEW j \in Jobs, NEW p \in SUBSET Versions, NEW r \in Nat,
         Fits(role, l, tm, ts, j, p, r),
         ts # <<>>, Head(ts).k = "Reply"
  PROVE  /\ Head(ts).id \in p => Head(ts).code = "OK"
         /\ Fits(role, l, tm, Tail(ts), j, p \ {Head(ts).id}, r)
<1> DEFINE t == Tail(ts)
<1> DEFINE q == p \ {Head(ts).id}
<1>1. Shorter(ts, t)
  BY LessReports
<1> HIDE DEF t
<1>2. /\ Head(ts) = ts[1] /\ ts[1].k = "Reply" /\ 1 \in Positions(ts) /\ Len(ts) \in Nat
      /\ \A i \in Positions(t) : i \in Nat /\ i >= 1 /\ i + 1 \in Positions(ts) /\ t[i] = ts[i + 1]
      /\ \A i \in Positions(ts) : i \in Nat /\ (i # 1 => i > 1)
  BY <1>1 DEF Shorter
<1>3. l = "up"
  <2>1. l # "none" /\ l # "pinged" /\ l # "marked"
    BY DEF Fits
  <2>2. l # "hello"
    BY <1>2 DEF Fits, Reported
  <2>3. l # "init"
    BY <1>2 DEF Fits, Sorted, Ready, Kinds, Tells
  <2> QED BY <2>1, <2>2, <2>3 DEF Links
<1>4. role # "off" /\ (role \in {"pre", "run"} => Taken(j, tm, ts, p, r))
  BY <1>2, <1>3 DEF Fits, Unused, Ordered, Kinds
<1>5. \A i \in Positions(t) : t[i].k \in Tells => t[i].ver = r
  BY <1>2, <1>4 DEF Fits
<1>6. CASE role \in {"pre", "run"}
  <2>1. /\ j # NoJob /\ tm = <<>>
        /\ \A i \in Positions(ts) : \/ ts[i].k = "Reply" /\ ts[i].code = "OK"
                                    \/ ts[i].k \in Tells
                                    \/ ts[i].k = "Deleted"
        /\ \A h, i \in Positions(ts) : h < i /\ ts[i].k = "Deleted" => ts[h].k = "Deleted"
    BY <1>4, <1>6 DEF Taken
  <2>2. ts[1].code = "OK"
    BY <1>2, <2>1 DEF Tells
  <2>3. q = {}
    <3>1. CASE p = {}
      BY <3>1
    <3>2. CASE p # {}
      <4>1. PICK c \in Positions(ts) : /\ ts[c].k = "Reply" /\ ts[c].id = r /\ p = {r}
                                       /\ \A i \in Positions(ts) : i < c => ts[i].k = "Deleted"
        BY <1>4, <1>6, <3>2 DEF Taken
      <4>2. c = 1
        BY <1>2, <4>1
      <4> QED BY <1>2, <4>1, <4>2
    <3> QED BY <3>1, <3>2
  <2>4. \A h, i \in Positions(t) : h < i /\ t[i].k = "Deleted" => t[h].k = "Deleted"
    <3> SUFFICES ASSUME NEW h \in Positions(t), NEW i \in Positions(t), h < i, t[i].k = "Deleted"
                 PROVE  t[h].k = "Deleted"
      OBVIOUS
    <3>1. h + 1 < i + 1 /\ h + 1 \in Positions(ts) /\ i + 1 \in Positions(ts)
      BY <1>2
    <3> QED BY <1>2, <2>1, <3>1
  <2>5. \A i \in Positions(t) : \/ t[i].k = "Reply" /\ t[i].code = "OK"
                                \/ t[i].k \in Tells
                                \/ t[i].k = "Deleted"
    BY <1>2, <2>1
  <2> HIDE DEF q
  <2>6. Taken(j, tm, t, q, r)
    BY <2>1, <2>3, <2>4, <2>5 DEF Taken
  <2>7. Fits(role, l, tm, t, j, q, r)
    BY <1>3, <1>5, <1>6, <2>6 DEF Fits
  <2> QED BY <1>2, <2>2, <2>7 DEF t, q
<1>7. CASE role = "exit"
  <2>1. Ending(j, tm, ts, p)
    BY <1>3, <1>7 DEF Fits
  <2>2. Kinds(t, Tells \cup {"Reply", "Deleted"})
    BY <1>2, <2>1 DEF Ending, Kinds
  <2>3. \A i \in Positions(t) : t[i].k = "Deleted" => j = NoJob
    BY <1>2, <2>1 DEF Ending
  <2>4. \A h, i \in Positions(t) : h < i /\ t[h].k = "Deleted" => t[i].k = "Deleted"
    <3> SUFFICES ASSUME NEW h \in Positions(t), NEW i \in Positions(t), h < i, t[h].k = "Deleted"
                 PROVE  t[i].k = "Deleted"
      OBVIOUS
    <3>1. h + 1 < i + 1 /\ h + 1 \in Positions(ts) /\ i + 1 \in Positions(ts)
      BY <1>2
    <3> QED BY <1>2, <2>1, <3>1 DEF Ending
  <2>5. q = {} /\ p = {}
    BY <2>1 DEF Ending
  <2> HIDE DEF q
  <2>6. Ending(j, tm, t, q)
    BY <2>1, <2>2, <2>3, <2>4, <2>5 DEF Ending
  <2>7. Fits(role, l, tm, t, j, q, r)
    BY <1>3, <1>5, <1>7, <2>6 DEF Fits
  <2> QED BY <2>5, <2>7 DEF t, q
<1> QED BY <1>4, <1>6, <1>7 DEF Roles

\* The server rejects an obituary, or discards a run, that is not the job's.
LEMMA FitsOff ==
  ASSUME NEW l \in Links, NEW tm \in Seq(Orders), NEW ts \in Seq(Reports),
         NEW j \in Jobs, NEW p \in SUBSET Versions, NEW r \in Nat,
         Fits("off", l, tm, ts, j, p, r), l \in {"init", "up"},
         NEW x \in Orders, x.k \in {"BADOBIT", "DISCARD_JOB"}, NEW u, u = tm \o <<x>>
  PROVE  Fits("off", l, u, ts, j, p, r)
<1>1. Longer(tm, x, u) /\ u \in Seq(Orders)
  BY MoreOrders
<1>2. /\ \A i \in Positions(tm) : i \in Positions(u) /\ u[i] = tm[i]
      /\ \A i \in Positions(u) : u[i] = x \/ (i \in Positions(tm) /\ u[i] = tm[i])
  BY <1>1 DEF Longer
<1>3. CASE l = "up"
  <2>1. Unused(j, u, ts, p)
    BY <1>2, <1>3 DEF Fits, Unused, Kinds
  <2> QED BY <1>3, <2>1 DEF Fits
<1>4. CASE l = "init"
  <2>1. ASSUME Sorted("off", j, tm, ts)  PROVE  Sorted("off", j, u, ts)
    <3>1. PICK c \in Positions(tm) :
            /\ tm[c].k = "CLUSTER_ADDRS"
            /\ \A i \in Positions(tm) : i # c => tm[i].k \in {"DISCARD_JOB", "BADOBIT"}
            /\ j # NoJob =>
                 \E i \in Positions(tm) : /\ i < c /\ tm[i].k = "DISCARD_JOB"
                                          /\ tm[i].ver \in {AnyVersion, j.ver}
      BY <2>1 DEF Sorted
    <3>2. c \in Positions(u) /\ u[c].k = "CLUSTER_ADDRS"
      BY <1>2, <3>1
    <3>3. \A i \in Positions(u) : i # c => u[i].k \in {"DISCARD_JOB", "BADOBIT"}
      BY <1>2, <3>1
    <3>4. j # NoJob => \E i \in Positions(u) : /\ i < c /\ u[i].k = "DISCARD_JOB"
                                               /\ u[i].ver \in {AnyVersion, j.ver}
      BY <1>2, <3>1
    <3> QED BY <2>1, <3>2, <3>3, <3>4 DEF Sorted
  <2>2. ASSUME Ready("off", j, tm, ts)  PROVE  Ready("off", j, u, ts)
    <3>1. Kinds(u, {"DISCARD_JOB", "BADOBIT"})
      BY <1>2, <2>2 DEF Ready, Kinds
    <3> QED BY <2>2, <3>1 DEF Ready
  <2> QED BY <1>4, <2>1, <2>2 DEF Fits
<1> QED BY <1>3, <1>4

\* The server reads that the job has been deleted: nothing else follows, if it has waited
\* for that.
LEMMA FitsDeleted ==
  ASSUME NEW role \in Roles, NEW l \in Links, NEW tm \in Seq(Orders), NEW ts \in Seq(Reports),
         NEW j \in Jobs, NEW p \in SUBSET Versions, NEW r \in Nat,
         Fits(role, l, tm, ts, j, p, r),
         ts # <<>>, Head(ts).k = "Deleted"
  PROVE  /\ Fits(role, l, tm, Tail(ts), j, p, r)
         /\ role = "exit" => Fits("off", l, tm, Tail(ts), j, p, r)
<1> DEFINE t == Tail(ts)
<1>1. Shorter(ts, t)
  BY LessReports
<1> HIDE DEF t
<1>2. /\ ts[1].k = "Deleted" /\ 1 \in Positions(ts) /\ Len(ts) \in Nat
      /\ \A i \in Positions(t) : i \in Nat /\ i >= 1 /\ i + 1 \in Positions(ts) /\ t[i] = ts[i + 1]
      /\ \A i \in Positions(ts) : i \in Nat /\ (i # 1 => i > 1 /\ i - 1 \in Positions(t) /\ t[i - 1] = ts[i])
  BY <1>1 DEF Shorter
<1>3. l = "up"
  <2>1. l # "none" /\ l # "pinged" /\ l # "marked"
    BY DEF Fits
  <2>2. l # "hello"
    BY <1>2 DEF Fits, Reported
  <2>3. l # "init"
    BY <1>2 DEF Fits, Sorted, Ready, Kinds, Tells
  <2> QED BY <2>1, <2>2, <2>3 DEF Links
<1>4. role # "off" => \A i \in Positions(t) : t[i].k \in Tells => t[i].ver = r
  BY <1>2 DEF Fits
<1>5. ASSUME Unused(j, tm, ts, p)  PROVE  Unused(j, tm, t, p)
  BY <1>2, <1>5 DEF Unused, Kinds
<1>6. ASSUME Ordered(j, tm, ts, p, r)  PROVE  Ordered(j, tm, t, p, r)
  <2>1. Kinds(t, {"Deleted"})
    BY <1>2, <1>6 DEF Ordered, Kinds
  <2> QED BY <1>6, <2>1 DEF Ordered
<1>7. ASSUME Taken(j, tm, ts, p, r)  PROVE  Taken(j, tm, t, p, r)
  <2>1. j # NoJob /\ tm = <<>>
    BY <1>7 DEF Taken
  <2>2. ASSUME p # {}
        PROVE  \E c \in Positions(t) : /\ t[c].k = "Reply" /\ t[c].id = r /\ p = {r}
                                       /\ \A i \in Positions(t) : i < c => t[i].k = "Deleted"
    <3>1. PICK c \in Positions(ts) : /\ ts[c].k = "Reply" /\ ts[c].id = r /\ p = {r}
                                     /\ \A i \in Positions(ts) : i < c => ts[i].k = "Deleted"
      BY <1>7, <2>2 DEF Taken
    <3>2. c # 1
      BY <1>2, <3>1
    <3>3. c - 1 \in Positions(t) /\ t[c - 1] = ts[c] /\ c \in Nat
      BY <1>2, <3>2
    <3>4. \A i \in Positions(t) : i < c - 1 => t[i].k = "Deleted"
      BY <1>2, <3>1, <3>3
    <3> QED BY <3>1, <3>3, <3>4
  <2>3. \A i \in Positions(t) : \/ t[i].k = "Reply" /\ t[i].code = "OK"
                                \/ t[i].k \in Tells
                                \/ t[i].k = "Deleted"
    BY <1>2, <1>7 DEF Taken
  <2>4. \A h, i \in Positions(t) : h < i /\ t[i].k = "Deleted" => t[h].k = "Deleted"
    <3> SUFFICES ASSUME NEW h \in Positions(t), NEW i \in Positions(t), h < i, t[i].k = "Deleted"
                 PROVE  t[h].k = "Deleted"
      OBVIOUS
    <3>1. h + 1 < i + 1 /\ h + 1 \in Positions(ts) /\ i + 1 \in Positions(ts)
      BY <1>2
    <3> QED BY <1>2, <1>7, <3>1 DEF Taken
  <2> QED BY <2>1, <2>2, <2>3, <2>4 DEF Taken
<1>8. ASSUME Ending(j, tm, ts, p)  PROVE  Ending(j, tm, t, p) /\ Unused(j, tm, t, p)
  <2>1. j = NoJob /\ p = {} /\ Kinds(tm, {"DeleteJob"})
    BY <1>2, <1>8 DEF Ending
  <2>2. \A i \in Positions(t) : t[i].k = "Deleted"
    <3> SUFFICES ASSUME NEW i \in Positions(t)  PROVE t[i].k = "Deleted"
      OBVIOUS
    <3>1. 1 < i + 1 /\ i + 1 \in Positions(ts) /\ t[i] = ts[i + 1]
      BY <1>2
    <3> QED BY <1>2, <1>8, <3>1 DEF Ending
  <2> QED BY <2>1, <2>2 DEF Ending, Unused, Kinds
<1>9. Fits(role, l, tm, t, j, p, r)
  BY <1>3, <1>4, <1>5, <1>6, <1>7, <1>8 DEF Fits, Roles
<1>10. role = "exit" => Fits("off", l, tm, t, j, p, r)
  BY <1>3, <1>8 DEF Fits
<1> QED BY <1>9, <1>10 DEF t

\* The server reads what the MoM has: a job it does not want is discarded.
LEMMA FitsReported ==
  ASSUME NEW role \in Roles, NEW l \in Links, NEW tm \in Seq(Orders), NEW ts \in Seq(Reports),
         NEW j \in Jobs, NEW p \in SUBSET Versions, NEW r \in Nat,
         Fits(role, l, tm, ts, j, p, r),
         ts # <<>>, Head(ts).k = "HELLO4"
  PROVE  /\ l = "hello" /\ tm = <<>>
         /\ Head(ts).job.ver = j.ver /\ (j = NoJob => Head(ts).job = NoJob)
         /\ (role # "off" \/ j = NoJob) => Fits(role, "init", <<ClusterAddrs>>, Tail(ts), j, p, r)
         /\ \A d \in Orders : role = "off" /\ d.k = "DISCARD_JOB" /\ d.ver \in {AnyVersion, j.ver}
              => Fits(role, "init", <<d, ClusterAddrs>>, Tail(ts), j, p, r)
<1> DEFINE t == Tail(ts)
<1>1. Shorter(ts, t)
  BY LessReports
<1> HIDE DEF t
<1>2. /\ Head(ts) = ts[1] /\ ts[1].k = "HELLO4" /\ 1 \in Positions(ts) /\ Len(ts) \in Nat
      /\ \A i \in Positions(t) : i \in Nat /\ i >= 1 /\ i + 1 \in Positions(ts) /\ t[i] = ts[i + 1]
  BY <1>1 DEF Shorter
<1>3. l = "hello"
  <2>1. l # "none" /\ l # "pinged" /\ l # "marked"
    BY DEF Fits
  <2>2. l # "init"
    BY <1>2 DEF Fits, Sorted, Ready, Kinds, Tells
  <2>3. l # "up"
    BY <1>2 DEF Fits, Roles, Unused, Ordered, Taken, Ending, Kinds, Tells
  <2> QED BY <2>1, <2>2, <2>3 DEF Links
<1>4. tm = <<>> /\ Reported(j, ts)
  BY <1>3 DEF Fits
<1>5. Kinds(t, Tells)
  <2>1. \A i \in Positions(t) : i + 1 # 1
    BY <1>2
  <2> QED BY <1>2, <1>4, <2>1 DEF Reported, Kinds
<1>6. role # "off" => \A i \in Positions(t) : t[i].k \in Tells => t[i].ver = r
  BY <1>2 DEF Fits
<1>7. ASSUME role # "off" \/ j = NoJob
      PROVE  Fits(role, "init", <<ClusterAddrs>>, t, j, p, r)
  <2> DEFINE u == <<ClusterAddrs>>
  <2>1. Len(u) = 1 /\ u[1].k = "CLUSTER_ADDRS"
    BY DEF ClusterAddrs
  <2> HIDE DEF u
  <2>2. Sorted(role, j, u, t)
    BY <1>5, <1>7, <2>1 DEF Sorted, Positions
  <2>3. Fits(role, "init", u, t, j, p, r)
    BY <1>3, <1>6, <2>2 DEF Fits
  <2> QED BY <2>3 DEF u
<1>8. ASSUME NEW d \in Orders, role = "off", d.k = "DISCARD_JOB", d.ver \in {AnyVersion, j.ver}
      PROVE  Fits(role, "init", <<d, ClusterAddrs>>, t, j, p, r)
  <2> DEFINE u == <<d, ClusterAddrs>>
  <2>1. Len(u) = 2 /\ u[1] = d /\ u[2].k = "CLUSTER_ADDRS"
    BY DEF ClusterAddrs
  <2> HIDE DEF u
  <2>2. 1 \in Positions(u) /\ 2 \in Positions(u) /\ \A i \in Positions(u) : i = 1 \/ i = 2
    BY <2>1 DEF Positions
  <2>3. Sorted(role, j, u, t)
    BY <1>5, <1>8, <2>1, <2>2 DEF Sorted
  <2>4. Fits(role, "init", u, t, j, p, r)
    BY <1>3, <1>8, <2>3 DEF Fits
  <2> QED BY <2>4 DEF u
<1>9. Head(ts).job.ver = j.ver /\ (j = NoJob => Head(ts).job = NoJob)
  BY <1>2, <1>4 DEF Reported
<1> QED BY <1>3, <1>4, <1>7, <1>8, <1>9 DEF t

\* The MoM is ready: she has the job that is wanted of her or none.
LEMMA FitsReady ==
  ASSUME NEW role \in Roles, NEW l \in Links, NEW tm \in Seq(Orders), NEW ts \in Seq(Reports),
         NEW j \in Jobs, NEW p \in SUBSET Versions, NEW r \in Nat,
         Fits(role, l, tm, ts, j, p, r),
         ts # <<>>, Head(ts).k = "MOM_READY"
  PROVE  l = "init" /\ Fits(role, "up", tm, Tail(ts), j, p, r)
<1> DEFINE t == Tail(ts)
<1>1. Shorter(ts, t) /\ t \in Seq(Reports)
  BY LessReports
<1> HIDE DEF t
<1>2. /\ ts[1].k = "MOM_READY" /\ 1 \in Positions(ts) /\ Len(ts) \in Nat /\ Len(t) = Len(ts) - 1
      /\ \A i \in Positions(t) : i \in Nat /\ i >= 1 /\ i + 1 \in Positions(ts) /\ t[i] = ts[i + 1]
  BY <1>1 DEF Shorter
<1>3. l = "init"
  <2>1. l # "none" /\ l # "pinged" /\ l # "marked"
    BY DEF Fits
  <2>2. l # "hello"
    BY <1>2 DEF Fits, Reported
  <2>3. l # "up"
    BY <1>2 DEF Fits, Roles, Unused, Ordered, Taken, Ending, Kinds, Tells
  <2> QED BY <2>1, <2>2, <2>3 DEF Links
<1>4. Ready(role, j, tm, ts)
  BY <1>2, <1>3 DEF Fits, Sorted, Kinds, Tells
<1>5. \A i \in Positions(ts) : i # 1 => ts[i].k \in Tells /\ role # "off"
  <2>1. PICK c \in Positions(ts) : /\ ts[c].k = "MOM_READY"
                                   /\ \A i \in Positions(ts) : i # c => ts[i].k \in Tells
                                   /\ role = "off" => c = Len(ts)
    BY <1>4 DEF Ready
  <2>2. c = 1
    BY <1>2, <2>1 DEF Tells
  <2>3. role = "off" => Len(ts) = 1
    BY <2>1, <2>2
  <2>4. Len(ts) = 1 => \A i \in Positions(ts) : i = 1
    BY DEF Positions
  <2> QED BY <2>1, <2>2, <2>3, <2>4
<1>6. \A i \in Positions(t) : t[i].k \in Tells /\ role # "off"
  <2>1. \A i \in Positions(t) : i + 1 # 1
    BY <1>2
  <2> QED BY <1>2, <1>5, <2>1
<1>7. role # "off" => \A i \in Positions(t) : t[i].k \in Tells => t[i].ver = r
  BY <1>2 DEF Fits
<1>8. p = {} /\ (role \in {"pre", "run"} => j # NoJob)
  BY <1>3 DEF Fits
<1>9. role = "off" => Unused(j, tm, t, p)
  BY <1>4, <1>6, <1>8 DEF Unused, Ready, Kinds
<1>10. role \in {"pre", "run"} => Taken(j, tm, t, p, r)
  BY <1>4, <1>6, <1>8 DEF Taken, Ready, Tells
<1>11. role = "exit" => Ending(j, tm, t, p)
  <2>1. role = "exit" => Kinds(tm, {"DeleteJob"})
    BY <1>4 DEF Ready, Kinds, Positions
  <2> QED BY <1>6, <1>8, <2>1 DEF Ending, Kinds, Tells
<1>12. Fits(role, "up", tm, t, j, p, r)
  BY <1>3, <1>7, <1>8, <1>9, <1>10, <1>11 DEF Fits
<1> QED BY <1>3, <1>12 DEF t

\* The server asks the MoM to delete a job that has ended.
LEMMA FitsAsked ==
  ASSUME NEW tm \in Seq(Orders), NEW ts \in Seq(Reports),
         NEW j \in Jobs, NEW p \in SUBSET Versions, NEW r \in Nat,
         Fits("exit", "up", tm, ts, j, p, r),
         NEW x \in Orders, x.k = "DeleteJob", NEW u, u = tm \o <<x>>
  PROVE  Fits("exit", "up", u, ts, j, p, r)
<1>1. Longer(tm, x, u)
  BY MoreOrders
<1>2. \A i \in Positions(u) : u[i] = x \/ (i \in Positions(tm) /\ u[i] = tm[i])
  BY <1>1 DEF Longer
<1>3. Ending(j, tm, ts, p)
  BY DEF Fits
<1>4. Kinds(u, {"DeleteJob"})
  BY <1>2, <1>3 DEF Ending, Kinds
<1>5. Ending(j, u, ts, p)
  BY <1>3, <1>4 DEF Ending
<1> QED BY <1>5 DEF Fits

\* The server gives up a job on a MoM that is down.
LEMMA FitsGivenUp ==
  ASSUME NEW role \in Roles, NEW l \in Links, NEW tm \in Seq(Orders), NEW ts \in Seq(Reports),
         NEW j \in Jobs, NEW p \in SUBSET Versions, NEW r \in Nat,
         Fits(role, l, tm, ts, j, p, r), l \in Timed
  PROVE  Fits("off", l, tm, ts, j, p, r)
BY DEF Fits, Timed

\* The server greets a MoM it has lost.
LEMMA FitsPinged ==
  ASSUME NEW role \in Roles, NEW tm \in Seq(Orders), NEW ts \in Seq(Reports),
         NEW j \in Jobs, NEW p \in SUBSET Versions, NEW r \in Nat,
         Fits(role, "none", tm, ts, j, p, r)
  PROVE  tm = <<>> /\ Fits(role, "pinged", <<Hello>>, ts, j, p, r)
BY DEF Fits

\* A stream is lost; what the server was waiting for is answered, and a run whose send so
\* failed is given up.
LEMMA FitsLost ==
  ASSUME NEW role \in Roles, NEW l \in Links, NEW tm \in Seq(Orders), NEW ts \in Seq(Reports),
         NEW j \in Jobs, NEW p \in SUBSET Versions, NEW r \in Nat,
         Fits(role, l, tm, ts, j, p, r), NEW s \in Roles,
         s # "off" => s = role /\ (p # {} => s # "pre")
  PROVE  Fits(s, "none", <<>>, <<>>, j, {}, r)
<1>1. s \in {"pre", "run"} => j # NoJob
  BY DEF Fits, Ordered, Taken
<1>2. \A i \in Positions(<<>>) : FALSE
  BY DEF Positions
<1> QED BY <1>1, <1>2 DEF Fits

\* An outstanding send is that of the present run.
LEMMA FitsSent ==
  ASSUME NEW role \in Roles, NEW l \in Links, NEW tm, NEW ts, NEW j, NEW p, NEW r,
         Fits(role, l, tm, ts, j, p, r), p # {}
  PROVE  l = "up" /\ role \in {"pre", "run"}
BY DEF Fits, Roles, Unused, Ending

\* The number of runs does not matter to a MoM without the job.
LEMMA FitsAny ==
  ASSUME NEW l \in Links, NEW tm, NEW ts, NEW j, NEW p, NEW r, NEW s,
         Fits("off", l, tm, ts, j, p, r)
  PROVE  Fits("off", l, tm, ts, j, p, s)
BY DEF Fits

\* The server sends the job to a MoM that is up.
LEMMA FitsSend ==
  ASSUME NEW tm \in Seq(Orders), NEW ts \in Seq(Reports),
         NEW j \in Jobs, NEW p \in SUBSET Versions, NEW r, NEW s \in Nat,
         Fits("off", "up", tm, ts, j, p, r),
         NEW x \in Orders, x.k = "Run", x.ver = s, x.run = s, NEW u, u = tm \o <<x>>
  PROVE  Fits("pre", "up", u, ts, j, p \cup {s}, s)
<1>1. Longer(tm, x, u)
  BY MoreOrders
<1>2. /\ Len(u) \in Positions(u) /\ u[Len(u)] = x
      /\ \A i \in Positions(u) : i # Len(u) => i \in Positions(tm) /\ u[i] = tm[i]
  BY <1>1 DEF Longer
<1>3. Unused(j, tm, ts, p)
  BY DEF Fits
<1> DEFINE q == p \cup {s}
<1>4. q = {s} /\ j = NoJob
  BY <1>3 DEF Unused
<1> HIDE DEF q
<1>5. Ordered(j, u, ts, q, s)
  BY <1>2, <1>3, <1>4 DEF Ordered, Unused, Kinds
<1>6. \A i \in Positions(ts) : ts[i].k \notin Tells
  BY <1>3 DEF Unused, Kinds, Tells
<1>7. Fits("pre", "up", u, ts, j, q, s)
  BY <1>4, <1>5, <1>6 DEF Fits
<1> QED BY <1>7 DEF q

-----------------------------------------------------------------------------
(* Steps at one MoM.                                                        *)

\* What the server has the job for depends on its state, ...
LEMMA RoleAtIs ==
  ASSUME NEW h, NEW st \in States, NEW m
  PROVE  /\ RoleAt(h, st, m) \in Roles
         /\ (RoleAt(h, st, m) # "off" <=> h = m /\ st \in Running \cup Exiting)
         /\ (RoleAt(h, st, m) = "pre" <=> h = m /\ st = "PRERUN")
         /\ (RoleAt(h, st, m) = "run" <=> h = m /\ st = "RUNNING")
         /\ (RoleAt(h, st, m) = "exit" <=> h = m /\ st \in Exiting)
BY DEF RoleAt, RoleOf, Roles, Running, Exiting, States

\* ... and is that of a state again after a crash.
LEMMA RecoveredIs ==
  ASSUME NEW st \in States
  PROVE  /\ recovered(st) \in States
         /\ recovered(st) # "PRERUN"
         /\ \A x \in {"RUNNING"} \cup Exiting : recovered(st) = x <=> st = x
BY DEF recovered, States, Running, Exiting

\* The types of what Fits is about.
LEMMA FitTypes ==
  ASSUME IInv, NEW m \in Moms
  PROVE  /\ Role(m) \in Roles /\ link[m] \in Links /\ toMom[m] \in Seq(Orders)
         /\ toSvr[m] \in Seq(Reports) /\ mom[m] \in Jobs /\ pend[m] \in SUBSET Versions
         /\ runs \in Nat /\ runs \in Versions
         /\ link \in [Moms -> Links] /\ toMom \in [Moms -> Seq(Orders)]
         /\ toSvr \in [Moms -> Seq(Reports)] /\ mom \in [Moms -> Jobs]
         /\ pend \in [Moms -> SUBSET Versions]
<1>1. Types /\ sv.st \in States /\ db.st \in States
  BY ServerTypes
<1>2. Role(m) \in Roles
  BY <1>1, RoleAtIs, RecoveredIs DEF Role
<1> QED BY <1>1, <1>2, RunVersionAssumption DEF Types, Versions

\* What the server has the MoM's job for.
LEMMA RoleIs ==
  ASSUME IInv, NEW m \in Moms
  PROVE  /\ up => /\ (Role(m) # "off" <=> sv.host = m /\ sv.st \in Running \cup Exiting)
                  /\ (Role(m) = "pre" <=> sv.host = m /\ sv.st = "PRERUN")
                  /\ (Role(m) = "run" <=> sv.host = m /\ sv.st = "RUNNING")
                  /\ (Role(m) = "exit" <=> sv.host = m /\ sv.st \in Exiting)
         /\ ~up => /\ Role(m) # "pre"
                   /\ (Role(m) # "off" <=> db.host = m /\ db.st \in {"RUNNING"} \cup Exiting)
                   /\ (Role(m) = "run" <=> db.host = m /\ db.st = "RUNNING")
                   /\ (Role(m) = "exit" <=> db.host = m /\ db.st \in Exiting)
<1>1. sv.st \in States /\ db.st \in States
  BY ServerTypes
<1>2. CASE up
  <2>1. Role(m) = RoleAt(sv.host, sv.st, m)
    BY <1>2 DEF Role
  <2> QED BY <1>1, <1>2, <2>1, RoleAtIs
<1>3. CASE ~up
  <2>1. Role(m) = RoleAt(db.host, recovered(db.st), m)
    BY <1>3 DEF Role
  <2>2. /\ recovered(db.st) \in States /\ recovered(db.st) # "PRERUN"
        /\ \A x \in {"RUNNING"} \cup Exiting : recovered(db.st) = x <=> db.st = x
    BY <1>1, RecoveredIs
  <2>3. /\ (recovered(db.st) \in Running \cup Exiting <=> db.st \in {"RUNNING"} \cup Exiting)
        /\ (recovered(db.st) = "RUNNING" <=> db.st = "RUNNING")
        /\ (recovered(db.st) \in Exiting <=> db.st \in Exiting)
    BY <2>2 DEF Running, Exiting
  <2> QED BY <1>3, <2>1, <2>2, <2>3, RoleAtIs
<1> QED BY <1>2, <1>3

\* A job in use has a number, and is used at one MoM.
LEMMA RoleOne ==
  ASSUME IInv, NEW m \in Moms, Role(m) # "off"
  PROVE  runs > 0 /\ \A n \in Moms : n # m => Role(n) = "off"
<1>1. Hosts
  BY ServerTypes
<1>2. CASE up
  <2>1. \A n \in Moms : Role(n) # "off" => sv.host = n /\ sv.st \in Running \cup Exiting
    BY <1>2, RoleIs
  <2> QED BY <1>1, <1>2, <2>1 DEF Hosts
<1>3. CASE ~up
  <2>1. \A n \in Moms : Role(n) # "off" => db.host = n /\ db.st \in {"RUNNING"} \cup Exiting
    BY <1>3, RoleIs
  <2> QED BY <1>1, <2>1 DEF Hosts
<1> QED BY <1>2, <1>3

\* The MoM says nothing of a number but the one she has.
Echo(s, t, j) == \A i \in Positions(t) : t[i].k \in Tells =>
                   t[i].ver = j.ver \/ \E h \in Positions(s) : s[h] = t[i]

\* The ways in which a stream changes.
LEMMA Echoes ==
  ASSUME NEW s \in Seq(Reports), NEW j
  PROVE  /\ Echo(s, s, j) /\ Echo(s, <<>>, j)
         /\ s # <<>> => Echo(s, Tail(s), j)
         /\ \A x \in Reports : \A t :
              (x.k \in Tells => x.ver = j.ver) /\ t = s \o <<x>> => Echo(s, t, j)
<1>1. Echo(s, s, j)
  BY DEF Echo
<1>2. Echo(s, <<>>, j)
  BY DEF Echo, Positions
<1>3. ASSUME s # <<>>  PROVE  Echo(s, Tail(s), j)
  <2>1. Shorter(s, Tail(s))
    BY <1>3, LessReports
  <2> QED BY <2>1 DEF Shorter, Echo
<1>4. ASSUME NEW x \in Reports, NEW t, x.k \in Tells => x.ver = j.ver, t = s \o <<x>>
      PROVE  Echo(s, t, j)
  <2>1. Longer(s, x, t)
    BY <1>4, MoreReports
  <2> QED BY <1>4, <2>1 DEF Longer, Echo
<1> QED BY <1>1, <1>2, <1>3, <1>4

\* Nothing happens to the other MoMs.
Elsewhere(m) ==
  \A n \in Moms : n # m => /\ link'[n] = link[n] /\ toMom'[n] = toMom[n] /\ toSvr'[n] = toSvr[n]
                           /\ mom'[n] = mom[n] /\ pend'[n] = pend[n]

\* A step at one MoM.
LEMMA AtOne ==
  ASSUME IInv, Whole, NEW m \in Moms, Elsewhere(m), runs' = runs,
         \A n \in Moms : n # m => \/ Role(n)' = Role(n)
                                  \/ Role(n)' = "off" /\ pend[n] = {} /\ link[n] \in Timed,
         Role(m)' # "off" => Role(m) # "off",
         Local(m)',
         mom'[m].ver = 0 \/ mom'[m].ver = mom[m].ver \/ Role(m) # "off",
         Echo(toSvr[m], toSvr'[m], mom[m]),
         (up /\ sv.asked => sv.st \in Exiting)',
         ~up' => ~up /\ link'[m] = "none"
  PROVE  Whole'
<1>1. ASSUME NEW n \in Moms  PROVE Local(n)'
  <2>1. CASE n = m
    BY <2>1
  <2>2. CASE n # m
    <3>1. Fits(Role(n), link[n], toMom[n], toSvr[n], mom[n], pend[n], runs)
      BY DEF Whole, Local
    <3>2. /\ link'[n] = link[n] /\ toMom'[n] = toMom[n] /\ toSvr'[n] = toSvr[n]
          /\ mom'[n] = mom[n] /\ pend'[n] = pend[n] /\ runs' = runs
      BY <2>2 DEF Elsewhere
    <3>3. CASE Role(n)' = Role(n)
      BY <3>1, <3>2, <3>3 DEF Local
    <3>4. CASE Role(n)' = "off" /\ link[n] \in Timed
      <4>1. Fits("off", link[n], toMom[n], toSvr[n], mom[n], pend[n], runs)
        BY <3>1, <3>4, FitTypes, FitsGivenUp
      <4> QED BY <3>2, <3>4, <4>1 DEF Local
    <3> QED BY <2>2, <3>3, <3>4
  <2> QED BY <2>1, <2>2
<1>2. \A n \in Moms : Role(n)' # "off" => Role(n) # "off"
  OBVIOUS
<1>3. ASSUME NEW k \in Moms, NEW n \in Moms, Role(n)' # "off", k # n
      PROVE  /\ mom'[k].ver # runs'
             /\ \A i \in Positions(toSvr'[k]) : Told(k, i)' => toSvr'[k][i].ver # runs'
  <2>1. /\ mom[k].ver # runs
        /\ \A i \in Positions(toSvr[k]) : toSvr[k][i].k \in Tells => toSvr[k][i].ver # runs
    BY <1>2, <1>3 DEF Whole, Apart, Told
  <2>2. runs > 0 /\ Role(k) = "off"
    BY <1>2, <1>3, RoleOne
  <2>3. CASE k = m
    <3>1. mom'[k].ver # runs'
      BY <2>1, <2>2, <2>3
    <3>2. ASSUME NEW i \in Positions(toSvr'[k]), toSvr'[k][i].k \in Tells
          PROVE  toSvr'[k][i].ver # runs'
      BY <2>1, <2>3, <3>2 DEF Echo
    <3> QED BY <3>1, <3>2 DEF Told
  <2>4. CASE k # m
    BY <2>1, <2>4 DEF Elsewhere, Told
  <2> QED BY <2>3, <2>4
<1>4. ~up' => \A n \in Moms : link'[n] = "none"
  BY DEF Whole, Apart, Elsewhere
<1>5. Apart'
  BY <1>3, <1>4 DEF Apart
<1> QED BY <1>1, <1>5 DEF Whole

\* A step of the MoM.
LEMMA MomWhole ==
  ASSUME IInv, Whole, NEW m \in Moms, MomOnly, Elsewhere(m),
         Fits(Role(m), link'[m], toMom'[m], toSvr'[m], mom'[m], pend[m], runs),
         mom'[m].ver = 0 \/ mom'[m].ver = mom[m].ver \/ Role(m) # "off",
         Echo(toSvr[m], toSvr'[m], mom[m]),
         link[m] = "none" => link'[m] = "none"
  PROVE  Whole'
<1>1. up' = up /\ sv' = sv /\ db' = db /\ pend' = pend /\ runs' = runs
  BY DEF MomOnly
<1>2. \A n \in Moms : Role(n)' = Role(n)
  BY <1>1 DEF Role
<1>3. Local(m)'
  BY <1>1, <1>2 DEF Local
<1>4. (up /\ sv.asked => sv.st \in Exiting)'
  BY <1>1 DEF Whole, Apart
<1>5. ~up' => ~up /\ link'[m] = "none"
  BY <1>1 DEF Whole, Apart
<1> QED BY <1>1, <1>2, <1>3, <1>4, <1>5, AtOne

\* The steps of record_finish_exec, update_jobs_status, send_obit and resend_obit.
LEMMA TellsWhole ==
  ASSUME IInv, Whole, NEW m \in Moms,
         record_finish_exec(m) \/ update_jobs_status(m) \/ send_obit(m) \/ resend_obit(m)
  PROVE  Whole'
<1>1. /\ MomOnly /\ link' = link /\ toMom' = toMom /\ pend' = pend
      /\ Say(m, <<ResUsed(mom[m])>>) \/ Say(m, <<JobObit(mom[m])>>)
  BY DEF record_finish_exec, update_jobs_status, send_obit, resend_obit, MomOnly
<1>2. /\ Role(m) \in Roles /\ link[m] \in Links /\ toMom[m] \in Seq(Orders)
      /\ toSvr[m] \in Seq(Reports) /\ mom[m] \in Jobs /\ pend[m] \in SUBSET Versions /\ runs \in Nat
      /\ toSvr \in [Moms -> Seq(Reports)] /\ mom \in [Moms -> Jobs]
  BY FitTypes
<1>3. PICK x \in Reports : x.k \in Tells /\ x.ver = mom[m].ver /\ Say(m, <<x>>)
  <2>1. ResUsed(mom[m]) \in Reports /\ JobObit(mom[m]) \in Reports
    BY <1>2, MessageTypes
  <2>2. /\ ResUsed(mom[m]).k \in Tells /\ ResUsed(mom[m]).ver = mom[m].ver
        /\ JobObit(mom[m]).k \in Tells /\ JobObit(mom[m]).ver = mom[m].ver
    BY DEF ResUsed, JobObit, Tells
  <2> QED BY <1>1, <2>1, <2>2
<1>4. PICK k \in Jobs : /\ mom' = [mom EXCEPT ![m] = k] /\ k.ver = mom[m].ver /\ k.run = mom[m].run
                        /\ k # NoJob /\ mom[m] # NoJob
  <2>1. CASE record_finish_exec(m)
    <3> DEFINE k == [mom[m] EXCEPT !.ss = "RUNNING"]
    <3>1. k \in Jobs /\ k.ver = mom[m].ver /\ k.run = mom[m].run /\ k # NoJob
      BY <1>2 DEF Jobs, NoJob
    <3>2. mom' = [mom EXCEPT ![m] = k] /\ mom[m] # NoJob
      BY <2>1 DEF record_finish_exec, Becomes, NoJob
    <3> HIDE DEF k
    <3> QED BY <3>1, <3>2
  <2>2. CASE send_obit(m)
    <3> DEFINE k == [mom[m] EXCEPT !.ss = "OBIT"]
    <3>1. k \in Jobs /\ k.ver = mom[m].ver /\ k.run = mom[m].run /\ k # NoJob
      BY <1>2 DEF Jobs, NoJob
    <3>2. mom' = [mom EXCEPT ![m] = k] /\ mom[m] # NoJob
      BY <2>2 DEF send_obit, Becomes, NoJob, Running
    <3> HIDE DEF k
    <3> QED BY <3>1, <3>2
  <2>3. CASE update_jobs_status(m) \/ resend_obit(m)
    <3>1. mom' = [mom EXCEPT ![m] = mom[m]] /\ mom[m] # NoJob
      BY <1>2, <2>3 DEF update_jobs_status, resend_obit, NoJob
    <3> QED BY <1>2, <3>1
  <2> QED BY <2>1, <2>2, <2>3
<1> DEFINE t == IF link[m] \in Connected THEN toSvr[m] \o <<x>> ELSE toSvr[m]
<1>5. toSvr' = [toSvr EXCEPT ![m] = t]
  BY <1>2, <1>3 DEF Say
<1>6. t \in Seq(Reports)
  BY <1>2, <1>3
<1>7. Echo(toSvr[m], t, mom[m])
  BY <1>2, <1>3, Echoes
<1>8. /\ toSvr'[m] = t /\ mom'[m] = k /\ link'[m] = link[m] /\ toMom'[m] = toMom[m]
      /\ Elsewhere(m)
  <2>1. toSvr'[m] = t /\ \A n \in Moms : n # m => toSvr'[n] = toSvr[n]
    BY <1>2, <1>5
  <2>2. mom'[m] = k /\ \A n \in Moms : n # m => mom'[n] = mom[n]
    BY <1>2, <1>4
  <2> QED BY <1>1, <2>1, <2>2 DEF Elsewhere
<1>9. (link[m] \in Connected /\ t = toSvr[m] \o <<x>>) \/ (link[m] \notin Connected /\ t = toSvr[m])
  OBVIOUS
<1> HIDE DEF t
<1>10. Fits(Role(m), link[m], toMom[m], toSvr[m], mom[m], pend[m], runs)
  BY DEF Whole, Local
<1>11. Fits(Role(m), link[m], toMom[m], t, k, pend[m], runs)
  BY <1>2, <1>3, <1>4, <1>6, <1>9, <1>10, FitsTells
<1> QED BY <1>1, <1>4, <1>7, <1>8, <1>11, MomWhole

\* The steps of rid_job and is_discard_job.
LEMMA DropWhole ==
  ASSUME IInv, Whole, NEW m \in Moms, rid_job(m) \/ is_discard_job(m)
  PROVE  Whole'
<1>1. /\ MomOnly /\ link' = link /\ toSvr' = toSvr /\ pend' = pend
      /\ toMom[m] # <<>> /\ toMom' = [toMom EXCEPT ![m] = Tail(@)]
      /\ Head(toMom[m]).k \in {"BADOBIT", "DISCARD_JOB"}
  BY DEF rid_job, is_discard_job, Take, MomOnly
<1>2. /\ Role(m) \in Roles /\ link[m] \in Links /\ toMom[m] \in Seq(Orders)
      /\ toSvr[m] \in Seq(Reports) /\ mom[m] \in Jobs /\ pend[m] \in SUBSET Versions /\ runs \in Nat
      /\ toMom \in [Moms -> Seq(Orders)] /\ mom \in [Moms -> Jobs]
  BY FitTypes
<1>3. PICK k \in Jobs :
        /\ mom' = [mom EXCEPT ![m] = k]
        /\ \/ k = NoJob
           \/ /\ k = mom[m] /\ Head(toMom[m]).k = "DISCARD_JOB"
              /\ Head(toMom[m]).ver \notin {AnyVersion, mom[m].ver}
  <2>1. CASE rid_job(m)
    BY <2>1, MessageTypes DEF rid_job, Becomes
  <2>2. CASE is_discard_job(m) /\ Order(m).ver \in {AnyVersion, mom[m].ver}
    BY <2>2, MessageTypes DEF is_discard_job, Becomes
  <2>3. CASE is_discard_job(m) /\ Order(m).ver \notin {AnyVersion, mom[m].ver}
    BY <1>2, <2>3 DEF is_discard_job, Becomes, Take, Order
  <2> QED BY <2>1, <2>2, <2>3
<1>4. /\ toMom'[m] = Tail(toMom[m]) /\ mom'[m] = k /\ link'[m] = link[m] /\ toSvr'[m] = toSvr[m]
      /\ Elsewhere(m)
  BY <1>1, <1>2, <1>3 DEF Elsewhere
<1>5. Fits(Role(m), link[m], toMom[m], toSvr[m], mom[m], pend[m], runs)
  BY DEF Whole, Local
<1>6. Fits(Role(m), link[m], Tail(toMom[m]), toSvr[m], k, pend[m], runs)
  BY <1>1, <1>2, <1>3, <1>5, FitsDrop
<1>7. k.ver = 0 \/ k.ver = mom[m].ver
  BY <1>3 DEF NoJob
<1>8. Echo(toSvr[m], toSvr[m], mom[m])
  BY <1>2, Echoes
<1> QED BY <1>1, <1>4, <1>6, <1>7, <1>8, MomWhole

\* The step of req_deletejob.
LEMMA DeleteWhole ==
  ASSUME IInv, Whole, NEW m \in Moms, req_deletejob(m)
  PROVE  Whole'
<1>1. /\ MomOnly /\ link' = link /\ pend' = pend /\ Say(m, <<Deleted>>)
      /\ toMom[m] # <<>> /\ toMom' = [toMom EXCEPT ![m] = Tail(@)]
      /\ Head(toMom[m]).k = "DeleteJob" /\ mom' = [mom EXCEPT ![m] = NoJob]
  BY DEF req_deletejob, Take, MomOnly, Becomes
<1>2. /\ Role(m) \in Roles /\ link[m] \in Links /\ toMom[m] \in Seq(Orders)
      /\ toSvr[m] \in Seq(Reports) /\ mom[m] \in Jobs /\ pend[m] \in SUBSET Versions /\ runs \in Nat
      /\ toMom \in [Moms -> Seq(Orders)] /\ mom \in [Moms -> Jobs] /\ toSvr \in [Moms -> Seq(Reports)]
  BY FitTypes
<1>3. Fits(Role(m), link[m], toMom[m], toSvr[m], mom[m], pend[m], runs)
  BY DEF Whole, Local
<1>4. Deleted \in Reports /\ Deleted.k = "Deleted" /\ Deleted.k \notin Tells
  BY MessageTypes DEF Deleted, Tells
<1> DEFINE t == toSvr[m] \o <<Deleted>>
<1>5. link[m] = "up" /\ Fits(Role(m), link[m], Tail(toMom[m]), t, NoJob, pend[m], runs)
  BY <1>1, <1>2, <1>3, <1>4, FitsDelete
<1>6. toSvr' = [toSvr EXCEPT ![m] = t]
  BY <1>1, <1>5 DEF Say, Connected
<1>7. Echo(toSvr[m], t, mom[m])
  BY <1>2, <1>4, Echoes
<1> HIDE DEF t
<1>8. /\ toMom'[m] = Tail(toMom[m]) /\ mom'[m] = NoJob /\ link'[m] = link[m] /\ toSvr'[m] = t
      /\ Elsewhere(m)
  BY <1>1, <1>2, <1>6 DEF Elsewhere
<1>9. NoJob.ver = 0
  BY DEF NoJob
<1> QED BY <1>1, <1>5, <1>7, <1>8, <1>9, MomWhole

\* The step of reply_hello4.
LEMMA GreetWhole ==
  ASSUME IInv, Whole, NEW m \in Moms, reply_hello4(m)
  PROVE  Whole'
<1>1. /\ MomOnly /\ mom' = mom /\ pend' = pend
      /\ toMom[m] # <<>> /\ toMom' = [toMom EXCEPT ![m] = Tail(@)] /\ Head(toMom[m]).k = "HELLO"
      /\ link' = [link EXCEPT ![m] = IF @ = "pinged" THEN "hello" ELSE @]
      /\ toSvr' = [toSvr EXCEPT ![m] = Append(@, Hello4(mom[m]))]
  BY DEF reply_hello4, Take, MomOnly
<1>2. /\ Role(m) \in Roles /\ link[m] \in Links /\ toMom[m] \in Seq(Orders)
      /\ toSvr[m] \in Seq(Reports) /\ mom[m] \in Jobs /\ pend[m] \in SUBSET Versions /\ runs \in Nat
      /\ toMom \in [Moms -> Seq(Orders)] /\ link \in [Moms -> Links] /\ toSvr \in [Moms -> Seq(Reports)]
  BY FitTypes
<1>3. Fits(Role(m), link[m], toMom[m], toSvr[m], mom[m], pend[m], runs)
  BY DEF Whole, Local
<1>4. /\ link[m] = "pinged" /\ toSvr[m] = <<>>
      /\ Fits(Role(m), "hello", Tail(toMom[m]), <<Hello4(mom[m])>>, mom[m], pend[m], runs)
  BY <1>1, <1>2, <1>3, FitsGreeted
<1>5. Hello4(mom[m]) \in Reports /\ Hello4(mom[m]).k \notin Tells
  BY <1>2, MessageTypes DEF Hello4, Tells
<1> DEFINE t == <<Hello4(mom[m])>>
<1>6. Append(toSvr[m], Hello4(mom[m])) = t /\ t = toSvr[m] \o <<Hello4(mom[m])>>
  BY <1>4, <1>5
<1>7. Echo(toSvr[m], t, mom[m])
  BY <1>2, <1>5, <1>6, Echoes
<1>8. /\ toMom'[m] = Tail(toMom[m]) /\ link'[m] = "hello" /\ toSvr'[m] = t
      /\ Elsewhere(m)
  <2>1. toSvr'[m] = t /\ \A n \in Moms : n # m => toSvr'[n] = toSvr[n]
    BY <1>1, <1>2, <1>6
  <2>2. link'[m] = "hello" /\ \A n \in Moms : n # m => link'[n] = link[n]
    BY <1>1, <1>2, <1>4
  <2> QED BY <1>1, <1>2, <2>1, <2>2 DEF Elsewhere
<1> HIDE DEF t
<1>9. Fits(Role(m), "hello", Tail(toMom[m]), t, mom[m], pend[m], runs)
  BY <1>4 DEF t
<1> QED BY <1>1, <1>4, <1>7, <1>8, <1>9, MomWhole

\* The step of is_cluster_addrs.
LEMMA AddrsWhole ==
  ASSUME IInv, Whole, NEW m \in Moms, is_cluster_addrs(m)
  PROVE  Whole'
<1>1. /\ MomOnly /\ link' = link /\ mom' = mom /\ pend' = pend /\ Say(m, <<MomReady>>)
      /\ toMom[m] # <<>> /\ toMom' = [toMom EXCEPT ![m] = Tail(@)]
      /\ Head(toMom[m]).k = "CLUSTER_ADDRS"
  BY DEF is_cluster_addrs, Take, MomOnly
<1>2. /\ Role(m) \in Roles /\ link[m] \in Links /\ toMom[m] \in Seq(Orders)
      /\ toSvr[m] \in Seq(Reports) /\ mom[m] \in Jobs /\ pend[m] \in SUBSET Versions /\ runs \in Nat
      /\ toMom \in [Moms -> Seq(Orders)] /\ toSvr \in [Moms -> Seq(Reports)]
  BY FitTypes
<1>3. Fits(Role(m), link[m], toMom[m], toSvr[m], mom[m], pend[m], runs)
  BY DEF Whole, Local
<1>4. MomReady \in Reports /\ MomReady.k = "MOM_READY" /\ MomReady.k \notin Tells
  BY MessageTypes DEF MomReady, Tells
<1> DEFINE t == toSvr[m] \o <<MomReady>>
<1>5. link[m] = "init" /\ Fits(Role(m), link[m], Tail(toMom[m]), t, mom[m], pend[m], runs)
  BY <1>1, <1>2, <1>3, <1>4, FitsAddrs
<1>6. toSvr' = [toSvr EXCEPT ![m] = t]
  BY <1>1, <1>5 DEF Say, Connected
<1>7. Echo(toSvr[m], t, mom[m])
  BY <1>2, <1>4, Echoes
<1> HIDE DEF t
<1>8. /\ toMom'[m] = Tail(toMom[m]) /\ mom'[m] = mom[m] /\ link'[m] = link[m] /\ toSvr'[m] = t
      /\ Elsewhere(m)
  BY <1>1, <1>2, <1>6 DEF Elsewhere
<1> QED BY <1>1, <1>5, <1>7, <1>8, MomWhole

\* The step of req_commit: as there is no job, it is taken.
LEMMA CommitWhole ==
  ASSUME IInv, Whole, NEW m \in Moms, req_commit(m)
  PROVE  Whole'
<1>1. /\ MomOnly /\ link' = link /\ pend' = pend
      /\ toMom[m] # <<>> /\ toMom' = [toMom EXCEPT ![m] = Tail(@)]
      /\ Head(toMom[m]).k = "Run"
  BY DEF req_commit, Take, MomOnly
<1>2. /\ Role(m) \in Roles /\ link[m] \in Links /\ toMom[m] \in Seq(Orders)
      /\ toSvr[m] \in Seq(Reports) /\ mom[m] \in Jobs /\ pend[m] \in SUBSET Versions
      /\ runs \in Nat /\ runs \in Versions
      /\ toMom \in [Moms -> Seq(Orders)] /\ toSvr \in [Moms -> Seq(Reports)] /\ mom \in [Moms -> Jobs]
  BY FitTypes
<1>3. Fits(Role(m), link[m], toMom[m], toSvr[m], mom[m], pend[m], runs)
  BY DEF Whole, Local
<1>4. /\ link[m] = "up" /\ Role(m) = "pre" /\ mom[m] = NoJob
      /\ Head(toMom[m]).ver = runs /\ Head(toMom[m]).run = runs
      /\ Tail(toMom[m]) = <<>> /\ pend[m] = {runs} /\ Kinds(toSvr[m], {"Deleted"})
  <2>1. Alone(Role(m), link[m], toMom[m], toSvr[m], mom[m], pend[m], runs)
    BY <1>1, <1>2, <1>3, FitsOrder
  <2> QED BY <2>1 DEF Alone
<1>5. runs > 0
  BY <1>4, RoleOne
<1> DEFINE k == [ver |-> runs, run |-> runs, ss |-> "PRERUN"]
<1> DEFINE x == Reply(runs, "OK")
<1> DEFINE t == toSvr[m] \o <<x>>
<1>6. k \in Jobs /\ k.ver = runs /\ k.run = runs
  BY <1>2 DEF Jobs
<1>7. x \in Reports /\ x.k = "Reply" /\ x.id = runs /\ x.code = "OK" /\ x.k \notin Tells
  BY <1>2, MessageTypes DEF Reply, Tells
<1>8. mom' = [mom EXCEPT ![m] = k] /\ toSvr' = [toSvr EXCEPT ![m] = t]
  BY <1>4 DEF req_commit, Order, NoJob, Becomes, Say, Connected
<1> HIDE DEF k, x
<1>9. Fits(Role(m), link[m], Tail(toMom[m]), t, k, pend[m], runs)
  <2>1. Longer(toSvr[m], x, t)
    BY <1>2, <1>7, MoreReports
  <2> HIDE DEF t
  <2>2. Fits("pre", "up", <<>>, t, k, {runs}, runs)
    BY <1>2, <1>4, <1>5, <1>6, <1>7, <2>1, FitsCommit
  <2> QED BY <1>4, <2>2
<1>10. Echo(toSvr[m], t, mom[m])
  BY <1>2, <1>7, Echoes
<1> HIDE DEF t
<1>11. /\ toMom'[m] = Tail(toMom[m]) /\ mom'[m] = k /\ link'[m] = link[m] /\ toSvr'[m] = t
       /\ Elsewhere(m)
  BY <1>1, <1>2, <1>8 DEF Elsewhere
<1> QED BY <1>1, <1>4, <1>9, <1>10, <1>11, MomWhole

-----------------------------------------------------------------------------
(* Steps of the server.                                                     *)

\* A job that stays as it is.
LEMMA SameRole ==
  ASSUME up, up', sv'.host = sv.host, sv'.st = sv.st
  PROVE  \A n \in Moms : Role(n)' = Role(n)
BY DEF Role

\* A step of the server that concerns one MoM.
LEMMA ServerOne ==
  ASSUME IInv, Whole, NEW m \in Moms, up, up', runs' = runs, Elsewhere(m), mom'[m] = mom[m],
         \A n \in Moms : n # m => Role(n)' = Role(n),
         Role(m)' # "off" => Role(m) # "off",
         Fits(Role(m)', link'[m], toMom'[m], toSvr'[m], mom[m], pend'[m], runs),
         toSvr'[m] = toSvr[m] \/ (toSvr[m] # <<>> /\ toSvr'[m] = Tail(toSvr[m])),
         sv'.asked => sv'.st \in Exiting
  PROVE  Whole'
<1>1. Echo(toSvr[m], toSvr'[m], mom[m])
  BY FitTypes, Echoes
<1>2. Local(m)'
  BY DEF Local
<1>3. (up /\ sv.asked => sv.st \in Exiting)'
  OBVIOUS
<1> QED BY <1>1, <1>2, <1>3, AtOne

\* The step of on_job_exit.
LEMMA AskWhole ==
  ASSUME IInv, Whole, on_job_exit
  PROVE  Whole'
<1> DEFINE m == sv.host
<1>1. /\ up /\ up' = up /\ sv.st \in Exiting /\ link[m] = "up" /\ sv' = [sv EXCEPT !.asked = TRUE]
      /\ toMom' = [toMom EXCEPT ![m] = @ \o <<DeleteJob>>]
      /\ link' = link /\ toSvr' = toSvr /\ mom' = mom /\ pend' = pend /\ runs' = runs
  BY DEF on_job_exit, Tell
<1>2. m \in Moms /\ sv \in SvType
  BY <1>1, ServerTypes DEF Hosts
<1>3. sv'.host = sv.host /\ sv'.st = sv.st
  BY <1>1, <1>2 DEF SvType
<1>4. \A n \in Moms : Role(n)' = Role(n)
  BY <1>1, <1>3, SameRole
<1>5. Role(m) = "exit"
  BY <1>1, <1>2, RoleIs
<1> HIDE DEF m
<1>6. /\ toMom[m] \in Seq(Orders) /\ toMom \in [Moms -> Seq(Orders)]
      /\ toSvr[m] \in Seq(Reports) /\ mom[m] \in Jobs /\ pend[m] \in SUBSET Versions /\ runs \in Nat
  BY <1>2, FitTypes
<1>7. Fits("exit", "up", toMom[m], toSvr[m], mom[m], pend[m], runs)
  BY <1>1, <1>2, <1>5 DEF Whole, Local
<1>8. DeleteJob \in Orders /\ DeleteJob.k = "DeleteJob"
  BY MessageTypes DEF DeleteJob
<1> DEFINE u == toMom[m] \o <<DeleteJob>>
<1>9. Fits("exit", "up", u, toSvr[m], mom[m], pend[m], runs)
  BY <1>6, <1>7, <1>8, FitsAsked
<1> HIDE DEF u
<1>10. toMom'[m] = u /\ Elsewhere(m)
  BY <1>1, <1>2, <1>6 DEF Elsewhere, u
<1>11. sv'.st \in Exiting
  BY <1>1, <1>3
<1> QED BY <1>1, <1>2, <1>4, <1>5, <1>9, <1>10, <1>11, ServerOne

\* The step of ping_a_mom.
LEMMA PingWhole ==
  ASSUME IInv, Whole, NEW m \in Moms, ping_a_mom(m)
  PROVE  Whole'
<1>1. /\ up /\ up' = up /\ link[m] \in {"none", "marked"} /\ sv' = sv /\ db' = db
      /\ link' = [link EXCEPT ![m] = IF @ = "none" THEN "pinged" ELSE "hello"]
      /\ toMom' = [toMom EXCEPT ![m] = Append(@, Hello)]
      /\ toSvr' = toSvr /\ mom' = mom /\ pend' = pend /\ runs' = runs
  BY DEF ping_a_mom
<1>2. /\ Role(m) \in Roles /\ link[m] \in Links /\ toMom[m] \in Seq(Orders)
      /\ toSvr[m] \in Seq(Reports) /\ mom[m] \in Jobs /\ pend[m] \in SUBSET Versions /\ runs \in Nat
      /\ toMom \in [Moms -> Seq(Orders)] /\ link \in [Moms -> Links]
  BY FitTypes
<1>3. Fits(Role(m), link[m], toMom[m], toSvr[m], mom[m], pend[m], runs)
  BY DEF Whole, Local
<1>4. link[m] = "none"
  BY <1>1, <1>3 DEF Fits
<1>5. toMom[m] = <<>> /\ Fits(Role(m), "pinged", <<Hello>>, toSvr[m], mom[m], pend[m], runs)
  BY <1>2, <1>3, <1>4, FitsPinged
<1> DEFINE u == <<Hello>>
<1>6. Append(toMom[m], Hello) = u
  BY <1>5
<1> HIDE DEF u
<1>7. toMom'[m] = u /\ link'[m] = "pinged" /\ Elsewhere(m)
  BY <1>1, <1>2, <1>4, <1>6 DEF Elsewhere
<1>8. \A n \in Moms : Role(n)' = Role(n)
  BY <1>1, SameRole
<1>9. sv'.asked => sv'.st \in Exiting
  BY <1>1 DEF Whole, Apart
<1>10. Fits(Role(m), "pinged", u, toSvr[m], mom[m], pend[m], runs)
  BY <1>5 DEF u
<1> QED BY <1>1, <1>7, <1>8, <1>9, <1>10, ServerOne

\* The step of is_mom_ready.
LEMMA ReadyWhole ==
  ASSUME IInv, Whole, NEW m \in Moms, is_mom_ready(m)
  PROVE  Whole'
<1>1. /\ up /\ up' = up /\ sv' = sv /\ link' = [link EXCEPT ![m] = "up"]
      /\ toSvr[m] # <<>> /\ toSvr' = [toSvr EXCEPT ![m] = Tail(@)] /\ Head(toSvr[m]).k = "MOM_READY"
      /\ toMom' = toMom /\ mom' = mom /\ pend' = pend /\ runs' = runs
  BY DEF is_mom_ready, Read
<1>2. /\ Role(m) \in Roles /\ link[m] \in Links /\ toMom[m] \in Seq(Orders)
      /\ toSvr[m] \in Seq(Reports) /\ mom[m] \in Jobs /\ pend[m] \in SUBSET Versions /\ runs \in Nat
      /\ toSvr \in [Moms -> Seq(Reports)] /\ link \in [Moms -> Links]
  BY FitTypes
<1>3. Fits(Role(m), link[m], toMom[m], toSvr[m], mom[m], pend[m], runs)
  BY DEF Whole, Local
<1>4. Fits(Role(m), "up", toMom[m], Tail(toSvr[m]), mom[m], pend[m], runs)
  BY <1>1, <1>2, <1>3, FitsReady
<1>5. toSvr'[m] = Tail(toSvr[m]) /\ link'[m] = "up" /\ Elsewhere(m)
  BY <1>1, <1>2 DEF Elsewhere
<1>6. \A n \in Moms : Role(n)' = Role(n)
  BY <1>1, SameRole
<1>7. sv'.asked => sv'.st \in Exiting
  BY <1>1 DEF Whole, Apart
<1> QED BY <1>1, <1>4, <1>5, <1>6, <1>7, ServerOne

\* The step of post_sendmom: the send has not failed.
LEMMA AnswerWhole ==
  ASSUME IInv, Whole, NEW m \in Moms, post_sendmom(m)
  PROVE  Whole'
<1>1. /\ up /\ up' = up /\ link' = link
      /\ toSvr[m] # <<>> /\ toSvr' = [toSvr EXCEPT ![m] = Tail(@)] /\ Head(toSvr[m]).k = "Reply"
      /\ pend' = [pend EXCEPT ![m] = @ \ {Head(toSvr[m]).id}]
      /\ toMom' = toMom /\ mom' = mom /\ runs' = runs
  BY DEF post_sendmom, Read, Msg
<1>2. /\ Role(m) \in Roles /\ link[m] \in Links /\ toMom[m] \in Seq(Orders)
      /\ toSvr[m] \in Seq(Reports) /\ mom[m] \in Jobs /\ pend[m] \in SUBSET Versions /\ runs \in Nat
      /\ toSvr \in [Moms -> Seq(Reports)] /\ pend \in [Moms -> SUBSET Versions]
  BY FitTypes
<1>3. Fits(Role(m), link[m], toMom[m], toSvr[m], mom[m], pend[m], runs)
  BY DEF Whole, Local
<1> DEFINE q == pend[m] \ {Head(toSvr[m]).id}
<1>4. /\ Head(toSvr[m]).id \in pend[m] => Head(toSvr[m]).code = "OK"
      /\ Fits(Role(m), link[m], toMom[m], Tail(toSvr[m]), mom[m], q, runs)
  BY <1>1, <1>2, <1>3, FitsAnswer
<1>5. sv' = sv
  BY <1>4 DEF post_sendmom, Msg
<1>6. toSvr'[m] = Tail(toSvr[m]) /\ pend'[m] = q /\ Elsewhere(m)
  BY <1>1, <1>2 DEF Elsewhere
<1>7. \A n \in Moms : Role(n)' = Role(n)
  BY <1>1, <1>5, SameRole
<1>8. sv'.asked => sv'.st \in Exiting
  BY <1>1, <1>5 DEF Whole, Apart
<1> HIDE DEF q
<1> QED BY <1>1, <1>4, <1>6, <1>7, <1>8, ServerOne

\* The step of is_hello4: the job is discarded unless it is the present run at its MoM.
LEMMA HelloWhole ==
  ASSUME IInv, Whole, NEW m \in Moms, is_hello4(m)
  PROVE  Whole'
<1> DEFINE j == Head(toSvr[m]).job
<1>1. /\ up /\ up' = up /\ sv' = sv
      /\ toSvr[m] # <<>> /\ toSvr' = [toSvr EXCEPT ![m] = Tail(@)] /\ Head(toSvr[m]).k = "HELLO4"
      /\ link' = [link EXCEPT ![m] = IF @ = "hello" THEN "init" ELSE @]
      /\ Tell(m, mom_running_jobs(sv, j) \o <<ClusterAddrs>>)
      /\ mom' = mom /\ pend' = pend /\ runs' = runs
  BY DEF is_hello4, Read, Msg
<1>2. /\ Role(m) \in Roles /\ link[m] \in Links /\ toMom[m] \in Seq(Orders)
      /\ toSvr[m] \in Seq(Reports) /\ mom[m] \in Jobs /\ pend[m] \in SUBSET Versions /\ runs \in Nat
      /\ toSvr \in [Moms -> Seq(Reports)] /\ link \in [Moms -> Links] /\ toMom \in [Moms -> Seq(Orders)]
  BY FitTypes
<1>3. Fits(Role(m), link[m], toMom[m], toSvr[m], mom[m], pend[m], runs)
  BY DEF Whole, Local
<1>4. /\ link[m] = "hello" /\ toMom[m] = <<>>
      /\ j.ver = mom[m].ver /\ (mom[m] = NoJob => j = NoJob)
      /\ (Role(m) # "off" \/ mom[m] = NoJob) =>
           Fits(Role(m), "init", <<ClusterAddrs>>, Tail(toSvr[m]), mom[m], pend[m], runs)
      /\ \A d \in Orders :
           Role(m) = "off" /\ d.k = "DISCARD_JOB" /\ d.ver \in {AnyVersion, mom[m].ver}
             => Fits(Role(m), "init", <<d, ClusterAddrs>>, Tail(toSvr[m]), mom[m], pend[m], runs)
  BY <1>1, <1>2, <1>3, FitsReported
<1> DEFINE w == mom_running_jobs(sv, j) \o <<ClusterAddrs>>
<1> HIDE DEF j
<1>5. ClusterAddrs \in Orders /\ Discard(AnyVersion) \in Orders /\ Discard(j.ver) \in Orders
  BY <1>2, <1>4, MessageTypes DEF Jobs
<1>6. Fits(Role(m), "init", w, Tail(toSvr[m]), mom[m], pend[m], runs)
  <2>1. sv.ver = runs /\ sv.st \in States /\ Hosts
    BY ServerTypes
  <2>2. CASE mom[m] = NoJob
    <3>0. j = NoJob
      BY <1>4, <2>2
    <3>1. mom_running_jobs(sv, j) = <<>>
      BY <3>0 DEF mom_running_jobs
    <3>2. w = <<ClusterAddrs>>
      BY <1>5, <3>1
    <3> QED BY <1>4, <2>2, <3>2
  <2>3. CASE mom[m] # NoJob
    <3>1. mom[m].ver > 0 /\ (Role(m) # "off" => mom[m].ver = runs)
      BY <1>3, <2>3 DEF Fits
    <3>2. j # NoJob
      BY <1>2, <1>4, <3>1 DEF NoJob
    <3>3. CASE Role(m) # "off"
      <4>1. sv.st \in Running \cup Exiting /\ sv.st # "gone" /\ j.ver = sv.ver
        BY <1>1, <1>4, <2>1, <3>1, <3>3, RoleIs DEF Running, Exiting
      <4>2. mom_running_jobs(sv, j) = <<>>
        BY <3>2, <4>1 DEF mom_running_jobs, If
      <4>3. w = <<ClusterAddrs>>
        BY <1>5, <4>2
      <4> QED BY <1>4, <3>3, <4>3
    <3>4. CASE Role(m) = "off" /\ sv.st = "gone"
      <4>1. mom_running_jobs(sv, j) = <<Discard(AnyVersion)>>
        BY <3>2, <3>4 DEF mom_running_jobs
      <4>2. w = <<Discard(AnyVersion), ClusterAddrs>>
        BY <1>5, <4>1, TwoOrders
      <4>3. Discard(AnyVersion).k = "DISCARD_JOB" /\ Discard(AnyVersion).ver = AnyVersion
        BY DEF Discard
      <4> QED BY <1>4, <1>5, <3>4, <4>2, <4>3
    <3>5. CASE Role(m) = "off" /\ sv.st # "gone"
      <4>1. j.ver # sv.ver \/ sv.st \notin Running \cup Exiting
        <5> SUFFICES ASSUME sv.st \in Running \cup Exiting  PROVE  j.ver # sv.ver
          OBVIOUS
        <5>1. sv.host \in Moms /\ Role(sv.host) # "off" /\ sv.host # m
          BY <1>1, <2>1, <3>5, RoleIs DEF Hosts
        <5>2. mom[m].ver # runs
          BY <5>1 DEF Whole, Apart
        <5> QED BY <1>4, <2>1, <5>2
      <4>2. mom_running_jobs(sv, j) = <<Discard(j.ver)>>
        BY <3>2, <3>5, <4>1 DEF mom_running_jobs, If
      <4>3. w = <<Discard(j.ver), ClusterAddrs>>
        BY <1>5, <4>2, TwoOrders
      <4>4. Discard(j.ver).k = "DISCARD_JOB" /\ Discard(j.ver).ver = mom[m].ver
        BY <1>4 DEF Discard
      <4> QED BY <1>4, <1>5, <3>5, <4>3, <4>4
    <3> QED BY <3>3, <3>4, <3>5
  <2> QED BY <2>2, <2>3
<1>7. w \in Seq(Orders)
  <2>1. mom_running_jobs(sv, j) \in Seq(Orders)
    BY <1>5 DEF mom_running_jobs, If
  <2> QED BY <1>5, <2>1
<1>8. toMom' = [toMom EXCEPT ![m] = @ \o w]
  BY <1>1, <1>4 DEF Tell
<1> HIDE DEF w
<1>9. toMom'[m] = w
  BY <1>2, <1>4, <1>7, <1>8
<1>10. toSvr'[m] = Tail(toSvr[m]) /\ link'[m] = "init"
  BY <1>1, <1>2, <1>4
<1>11. Elsewhere(m)
  BY <1>1, <1>2, <1>8 DEF Elsewhere
<1>12. \A n \in Moms : Role(n)' = Role(n)
  BY <1>1, SameRole
<1>13. sv'.asked => sv'.st \in Exiting
  BY <1>1 DEF Whole, Apart
<1> QED BY <1>1, <1>6, <1>9, <1>10, <1>11, <1>12, <1>13, ServerOne

\* The job is taken further, or taken from the MoM it is on.
LEMMA NewRole ==
  ASSUME IInv, NEW m \in Moms, up, up', sv.host = m, sv'.host \in {m, NoMom}, sv'.st \in States
  PROVE  /\ \A n \in Moms : n # m => Role(n)' = Role(n)
         /\ (Role(m)' # "off" <=> sv'.host = m /\ sv'.st \in Running \cup Exiting)
         /\ (Role(m)' = "run" <=> sv'.host = m /\ sv'.st = "RUNNING")
         /\ (Role(m)' = "exit" <=> sv'.host = m /\ sv'.st \in Exiting)
<1>1. \A n \in Moms : Role(n)' = RoleAt(sv'.host, sv'.st, n)
  BY DEF Role
<1>2. \A n \in Moms : n # m => Role(n)' = "off" /\ Role(n) = "off"
  BY <1>1, RunVersionAssumption DEF Role, RoleAt
<1> QED BY <1>1, <1>2, RoleAtIs

\* What is told of the number of the present run comes from its MoM.
LEMMA PresentHost ==
  ASSUME IInv, Whole, up, sv.st \in Running \cup Exiting, NEW m \in Moms,
         toSvr[m] # <<>>, Head(toSvr[m]).k \in Tells, Head(toSvr[m]).ver = runs
  PROVE  sv.host = m
<1>1. sv.host \in Moms
  BY ServerTypes DEF Hosts
<1>2. Role(sv.host) # "off"
  BY <1>1, RoleIs
<1>3. Told(m, 1) /\ 1 \in Positions(toSvr[m]) /\ toSvr[m][1].ver = runs
  <2>1. Shorter(toSvr[m], Tail(toSvr[m]))
    BY FitTypes, LessReports
  <2> QED BY <2>1 DEF Shorter, Told
<1> QED BY <1>1, <1>2, <1>3 DEF Whole, Apart

\* The step of stat_update.
LEMMA UpdateWhole ==
  ASSUME IInv, Whole, NEW m \in Moms, stat_update(m)
  PROVE  Whole'
<1>1. /\ up /\ up' = up /\ link' = link
      /\ toSvr[m] # <<>> /\ toSvr' = [toSvr EXCEPT ![m] = Tail(@)] /\ Head(toSvr[m]).k = "RESCUSED"
      /\ toMom' = toMom /\ mom' = mom /\ runs' = runs /\ pend' = pend
  BY DEF stat_update, Read
<1>2. /\ Role(m) \in Roles /\ link[m] \in Links /\ toMom[m] \in Seq(Orders)
      /\ toSvr[m] \in Seq(Reports) /\ mom[m] \in Jobs /\ pend[m] \in SUBSET Versions /\ runs \in Nat
      /\ toSvr \in [Moms -> Seq(Reports)]
  BY FitTypes
<1>3. Fits(Role(m), link[m], toMom[m], toSvr[m], mom[m], pend[m], runs)
  BY DEF Whole, Local
<1>4. Head(toSvr[m]).k \in Tells
  BY <1>1 DEF Tells
<1>5. toSvr'[m] = Tail(toSvr[m]) /\ Elsewhere(m)
  BY <1>1, <1>2 DEF Elsewhere
<1>6. sv \in SvType /\ sv.ver = runs
  BY ServerTypes
<1>7. CASE begins(sv, Msg(m).ver)
  <2>1. sv.st = "PRERUN" /\ Head(toSvr[m]).ver = runs /\ sv' = [sv EXCEPT !.st = "RUNNING"]
    BY <1>6, <1>7 DEF begins, Msg, stat_update
  <2>2. sv'.st = "RUNNING" /\ sv'.host = sv.host /\ sv'.asked = sv.asked
    BY <1>6, <2>1 DEF SvType
  <2>3. sv.host = m
    BY <1>1, <1>4, <2>1, PresentHost DEF Running
  <2>4. Role(m) = "pre"
    BY <1>1, <2>1, <2>3, RoleIs
  <2>5. (\A n \in Moms : n # m => Role(n)' = Role(n)) /\ Role(m)' = "run"
    BY <1>1, <2>2, <2>3, NewRole DEF States, Running
  <2>6. Fits("run", link[m], toMom[m], Tail(toSvr[m]), mom[m], pend[m], runs)
    <3>1. "run" \in Roles /\ Fits("pre", link[m], toMom[m], toSvr[m], mom[m], pend[m], runs)
      BY <1>3, <2>4 DEF Roles
    <3> QED BY <1>1, <1>2, <1>4, <2>4, <3>1, FitsTold
  <2>7. ~sv'.asked
    BY <1>1, <2>1, <2>2 DEF Whole, Apart, Exiting
  <2> QED BY <1>1, <1>5, <2>4, <2>5, <2>6, <2>7, ServerOne
<1>8. CASE ~begins(sv, Msg(m).ver)
  <2>1. sv' = sv
    BY <1>8 DEF stat_update
  <2>2. \A n \in Moms : Role(n)' = Role(n)
    BY <1>1, <2>1, SameRole
  <2>3. Fits(Role(m), link[m], toMom[m], Tail(toSvr[m]), mom[m], pend[m], runs)
    BY <1>1, <1>2, <1>3, <1>4, FitsTold
  <2>4. sv'.asked => sv'.st \in Exiting
    BY <1>1, <2>1 DEF Whole, Apart
  <2> QED BY <1>1, <1>5, <2>2, <2>3, <2>4, ServerOne
<1> QED BY <1>7, <1>8

\* The step of job_obit.
LEMMA ObitWhole ==
  ASSUME IInv, Whole, NEW m \in Moms, job_obit(m)
  PROVE  Whole'
<1>1. /\ up /\ up' = up /\ link' = link
      /\ toSvr[m] # <<>> /\ toSvr' = [toSvr EXCEPT ![m] = Tail(@)] /\ Head(toSvr[m]).k = "JOBOBIT"
      /\ mom' = mom /\ runs' = runs /\ pend' = pend
  BY DEF job_obit, Read
<1>2. /\ Role(m) \in Roles /\ link[m] \in Links /\ toMom[m] \in Seq(Orders)
      /\ toSvr[m] \in Seq(Reports) /\ mom[m] \in Jobs /\ pend[m] \in SUBSET Versions /\ runs \in Nat
      /\ toSvr \in [Moms -> Seq(Reports)] /\ toMom \in [Moms -> Seq(Orders)]
  BY FitTypes
<1>3. Fits(Role(m), link[m], toMom[m], toSvr[m], mom[m], pend[m], runs)
  BY DEF Whole, Local
<1>4. Head(toSvr[m]).k \in Tells
  BY <1>1 DEF Tells
<1>5. toSvr'[m] = Tail(toSvr[m]) /\ (toMom' = toMom => Elsewhere(m))
  BY <1>1, <1>2 DEF Elsewhere
<1>6. sv \in SvType /\ sv.ver = runs
  BY ServerTypes
<1>7. Head(toSvr[m]).ver \in Nat /\ Head(toSvr[m]).ver <= runs
  <2>1. Head(toSvr[m]) = toSvr[m][1] /\ 1 \in Positions(toSvr[m])
    BY <1>1, <1>2, LessReports DEF Shorter
  <2>2. Head(toSvr[m]) \in Reports
    BY <1>1, <1>2
  <2>3. Head(toSvr[m]).ver \in Nat
    BY <1>4, <2>2 DEF Reports, Tells, Versions
  <2> QED BY <1>4, <2>1, <2>3 DEF IInv, Numbers
<1>8. CASE sv.st \in Exiting /\ sv' = [sv EXCEPT !.asked = FALSE] /\ toMom' = toMom
  <2>1. sv'.st = sv.st /\ sv'.host = sv.host
    BY <1>6, <1>8 DEF SvType
  <2>2. \A n \in Moms : Role(n)' = Role(n)
    BY <1>1, <2>1, SameRole
  <2>3. Fits(Role(m), link[m], toMom[m], Tail(toSvr[m]), mom[m], pend[m], runs)
    BY <1>1, <1>2, <1>3, <1>4, FitsTold
  <2> QED BY <1>1, <1>5, <1>8, <2>1, <2>2, <2>3, ServerOne
<1>9. CASE /\ is_current(sv, Msg(m).ver) /\ toMom' = toMom
           /\ \E st \in Exiting : sv' = [sv EXCEPT !.st = st, !.asked = FALSE]
  <2>1. sv'.st \in Exiting /\ sv'.host = sv.host
    BY <1>6, <1>9 DEF SvType
  <2>2. sv.st \in Running /\ Head(toSvr[m]).ver = runs
    <3>1. sv.st \in Running /\ Head(toSvr[m]).ver >= runs
      BY <1>6, <1>9 DEF is_current, Msg
    <3> QED BY <1>2, <1>7, <3>1
  <2>3. sv.host = m
    BY <1>1, <1>4, <2>2, PresentHost
  <2>4. Role(m) \in {"pre", "run"}
    BY <1>1, <2>2, <2>3, RoleIs DEF Running
  <2>5. (\A n \in Moms : n # m => Role(n)' = Role(n)) /\ Role(m)' = "exit"
    BY <1>1, <2>1, <2>3, NewRole DEF States
  <2>6. Fits("exit", link[m], toMom[m], Tail(toSvr[m]), mom[m], pend[m], runs)
    BY <1>1, <1>2, <1>3, <1>4, <2>4, FitsTold DEF Roles
  <2> QED BY <1>1, <1>5, <1>9, <2>1, <2>4, <2>5, <2>6, ServerOne
<1>10. CASE /\ sv.st \notin Exiting /\ ~is_current(sv, Msg(m).ver)
            /\ Tell(m, <<BadObit>>) /\ sv' = sv
  <2>1. Role(m) = "off"
    <3> SUFFICES ASSUME Role(m) # "off"  PROVE FALSE
      OBVIOUS
    <3>1. sv.st \in Running
      BY <1>1, <1>10, RoleIs
    <3>2. Head(toSvr[m]) = toSvr[m][1] /\ 1 \in Positions(toSvr[m])
      BY <1>1, <1>2, LessReports DEF Shorter
    <3>3. Head(toSvr[m]).ver = runs
      BY <1>3, <1>4, <3>2 DEF Fits
    <3>4. is_current(sv, Msg(m).ver)
      BY <1>2, <1>6, <3>1, <3>3 DEF is_current, Msg
    <3> QED BY <1>10, <3>4
  <2>2. link[m] = "init" /\ Fits("off", link[m], toMom[m], Tail(toSvr[m]), mom[m], pend[m], runs)
    <3>1. /\ Fits(Role(m), link[m], toMom[m], Tail(toSvr[m]), mom[m], pend[m], runs)
          /\ Role(m) = "off" => link[m] = "init"
      BY <1>1, <1>2, <1>3, <1>4, FitsTold
    <3> QED BY <2>1, <3>1
  <2>3. BadObit \in Orders /\ BadObit.k = "BADOBIT" /\ Tail(toSvr[m]) \in Seq(Reports)
    BY <1>1, <1>2, MessageTypes, LessReports DEF BadObit
  <2> DEFINE u == toMom[m] \o <<BadObit>>
  <2>4. Fits("off", link[m], u, Tail(toSvr[m]), mom[m], pend[m], runs)
    BY <1>2, <2>2, <2>3, FitsOff
  <2>5. toMom' = [toMom EXCEPT ![m] = u]
    BY <1>10, <2>2 DEF Tell
  <2> HIDE DEF u
  <2>6. toMom'[m] = u /\ Elsewhere(m)
    BY <1>1, <1>2, <2>5 DEF Elsewhere
  <2>7. \A n \in Moms : Role(n)' = Role(n)
    BY <1>1, <1>10, SameRole
  <2>8. sv'.asked => sv'.st \in Exiting
    BY <1>1, <1>10 DEF Whole, Apart
  <2> QED BY <1>1, <1>5, <2>1, <2>4, <2>6, <2>7, <2>8, ServerOne
<1> QED BY <1>8, <1>9, <1>10 DEF job_obit

\* A job that is purged has no send outstanding.
LEMMA NoSends ==
  ASSUME IInv, Whole, NEW s, NoTasks(s),
         s.st = "gone" => \A n \in Moms : Role(n) \notin {"pre", "run"} \/ link[n] # "up"
  PROVE  \A n \in Moms : pend'[n] = pend[n]
<1>1. CASE s.st # "gone"
  BY <1>1 DEF NoTasks
<1>2. CASE s.st = "gone"
  <2>1. ASSUME NEW n \in Moms  PROVE  pend[n] = {}
    <3>1. Fits(Role(n), link[n], toMom[n], toSvr[n], mom[n], pend[n], runs)
      BY DEF Whole, Local
    <3> QED BY <1>2, <3>1, FitTypes, FitsSent
  <2> QED BY <1>2, <2>1 DEF NoTasks
<1> QED BY <1>1, <1>2

\* The operators that take the job from its MoM.
LEMMA TakenBack ==
  ASSUME NEW s \in SvType, NEW r, r = force_reque(s) \/ r = job_purge(s)
  PROVE  r.host = NoMom /\ r.st \in {"QUEUED", "gone"} /\ r.asked = FALSE
BY DEF SvType, force_reque, job_purge

\* The step of job_deleted.
LEMMA DeletedWhole ==
  ASSUME IInv, Whole, NEW m \in Moms, job_deleted(m)
  PROVE  Whole'
<1>1. /\ up /\ up' = up /\ link' = link /\ toMom' = toMom
      /\ toSvr[m] # <<>> /\ toSvr' = [toSvr EXCEPT ![m] = Tail(@)] /\ Head(toSvr[m]).k = "Deleted"
      /\ mom' = mom /\ runs' = runs /\ NoTasks(sv')
  BY DEF job_deleted, Read
<1>2. /\ Role(m) \in Roles /\ link[m] \in Links /\ toMom[m] \in Seq(Orders)
      /\ toSvr[m] \in Seq(Reports) /\ mom[m] \in Jobs /\ pend[m] \in SUBSET Versions /\ runs \in Nat
      /\ toSvr \in [Moms -> Seq(Reports)]
  BY FitTypes
<1>3. Fits(Role(m), link[m], toMom[m], toSvr[m], mom[m], pend[m], runs)
  BY DEF Whole, Local
<1>4. /\ Fits(Role(m), link[m], toMom[m], Tail(toSvr[m]), mom[m], pend[m], runs)
      /\ Role(m) = "exit" => Fits("off", link[m], toMom[m], Tail(toSvr[m]), mom[m], pend[m], runs)
  BY <1>1, <1>2, <1>3, FitsDeleted
<1>5. sv \in SvType
  BY ServerTypes
<1>6. CASE sv.asked /\ sv.host = m
  <2>1. sv' = force_reque(sv) \/ sv' = job_purge(sv)
    BY <1>6 DEF job_deleted
  <2>2. sv'.host = NoMom /\ sv'.st \in {"QUEUED", "gone"} /\ sv'.asked = FALSE
    BY <1>5, <2>1, TakenBack
  <2>3. Role(m) = "exit" /\ sv.st \in Exiting
    BY <1>1, <1>6, RoleIs DEF Whole, Apart
  <2>4. (\A n \in Moms : n # m => Role(n)' = Role(n)) /\ Role(m)' = "off"
    BY <1>1, <1>6, <2>2, NewRole DEF States, Running, Exiting
  <2>5. \A n \in Moms : Role(n) \notin {"pre", "run"}
    BY <2>3, RoleOne
  <2>6. \A n \in Moms : pend'[n] = pend[n]
    BY <1>1, <2>5, NoSends
  <2>7. toSvr'[m] = Tail(toSvr[m]) /\ Elsewhere(m)
    BY <1>1, <1>2, <2>6 DEF Elsewhere
  <2> QED BY <1>1, <1>4, <2>2, <2>3, <2>4, <2>6, <2>7, ServerOne
<1>7. CASE ~(sv.asked /\ sv.host = m)
  <2>1. sv' = sv
    BY <1>7 DEF job_deleted
  <2>2. \A n \in Moms : Role(n)' = Role(n)
    BY <1>1, <2>1, SameRole
  <2>3. sv.st = "gone" => \A n \in Moms : Role(n) \notin {"pre", "run"}
    BY <1>1, RoleIs DEF Running, Exiting
  <2>4. \A n \in Moms : pend'[n] = pend[n]
    BY <1>1, <2>1, <2>3, NoSends
  <2>5. toSvr'[m] = Tail(toSvr[m]) /\ Elsewhere(m)
    BY <1>1, <1>2, <2>4 DEF Elsewhere
  <2>6. sv'.asked => sv'.st \in Exiting
    BY <1>1, <2>1 DEF Whole, Apart
  <2> QED BY <1>1, <1>4, <2>2, <2>4, <2>5, <2>6, ServerOne
<1> QED BY <1>6, <1>7

\* The step of node_down_requeue.
LEMMA RequeueWhole ==
  ASSUME IInv, Whole, node_down_requeue
  PROVE  Whole'
<1>1. PICK m \in Moms : m = sv.host
  BY DEF node_down_requeue
<1>2. /\ up /\ up' = up /\ link' = link /\ toMom' = toMom /\ toSvr' = toSvr
      /\ mom' = mom /\ runs' = runs /\ NoTasks(sv') /\ link[m] \in Timed
      /\ sv.st \in Running \cup Exiting
      /\ sv' = force_reque(sv) \/ sv' = job_purge(sv)
  BY <1>1 DEF node_down_requeue
<1>3. /\ Role(m) \in Roles /\ link[m] \in Links /\ toMom[m] \in Seq(Orders)
      /\ toSvr[m] \in Seq(Reports) /\ mom[m] \in Jobs /\ pend[m] \in SUBSET Versions /\ runs \in Nat
  BY FitTypes
<1>4. Fits(Role(m), link[m], toMom[m], toSvr[m], mom[m], pend[m], runs)
  BY DEF Whole, Local
<1>5. Fits("off", link[m], toMom[m], toSvr[m], mom[m], pend[m], runs)
  BY <1>2, <1>3, <1>4, FitsGivenUp
<1>6. sv'.host = NoMom /\ sv'.st \in {"QUEUED", "gone"} /\ sv'.asked = FALSE
  BY <1>2, ServerTypes, TakenBack
<1>7. Role(m) # "off"
  BY <1>1, <1>2, RoleIs
<1>8. (\A n \in Moms : n # m => Role(n)' = Role(n)) /\ Role(m)' = "off"
  BY <1>1, <1>2, <1>6, NewRole DEF States, Running, Exiting
<1>9. \A n \in Moms : Role(n) \notin {"pre", "run"} \/ link[n] # "up"
  BY <1>2, <1>7, RoleOne DEF Timed
<1>10. \A n \in Moms : pend'[n] = pend[n]
  BY <1>2, <1>9, NoSends
<1>11. Elsewhere(m)
  BY <1>2, <1>10 DEF Elsewhere
<1> QED BY <1>2, <1>5, <1>6, <1>7, <1>8, <1>10, <1>11, ServerOne

\* The step of stream_eof: the send that was outstanding on the stream is that of the
\* present run, so that no other MoM is marked down.
LEMMA EofWhole ==
  ASSUME IInv, Whole, Aimed, NEW m \in Moms, stream_eof(m)
  PROVE  Whole'
<1>1. /\ up /\ up' = up /\ mom' = mom /\ runs' = runs
      /\ pend' = [pend EXCEPT ![m] = {}]
      /\ toMom' = [toMom EXCEPT ![m] = <<>>] /\ toSvr' = [toSvr EXCEPT ![m] = <<>>]
  BY DEF stream_eof
<1>2. /\ Role(m) \in Roles /\ link[m] \in Links /\ toMom[m] \in Seq(Orders)
      /\ toSvr[m] \in Seq(Reports) /\ mom[m] \in Jobs /\ pend[m] \in SUBSET Versions /\ runs \in Nat
      /\ toSvr \in [Moms -> Seq(Reports)] /\ toMom \in [Moms -> Seq(Orders)]
      /\ pend \in [Moms -> SUBSET Versions]
  BY FitTypes
<1>3. Fits(Role(m), link[m], toMom[m], toSvr[m], mom[m], pend[m], runs)
  BY DEF Whole, Local
<1>4. sv \in SvType
  BY ServerTypes
<1>5. pend[m] # {} => sv.host = m /\ sv.st \in Running
  BY <1>1, <1>2, <1>3, FitsSent, RoleIs DEF Running
<1>6. link'[m] = "none" /\ toMom'[m] = <<>> /\ toSvr'[m] = <<>> /\ pend'[m] = {} /\ mom'[m] = mom[m]
  BY <1>1, <1>2 DEF stream_eof
<1>7. Elsewhere(m)
  <2>0. pend[m] # {} => destin = m
    BY <1>1, <1>5 DEF Aimed
  <2>1. ASSUME NEW n \in Moms, n # m  PROVE link'[n] = link[n]
    BY <2>0, <2>1 DEF stream_eof
  <2> QED BY <1>1, <1>2, <2>1 DEF Elsewhere
<1>8. /\ \A n \in Moms : n # m => Role(n)' = Role(n)
      /\ Role(m)' # "off" => Role(m)' = Role(m) /\ pend[m] = {}
      /\ Role(m)' \in Roles
      /\ sv'.asked => sv'.st \in Exiting
  <2>1. CASE pend[m] # {}
    <3> DEFINE s == [sv EXCEPT !.asked = FALSE]
    <3>1. s \in SvType /\ s.st = sv.st /\ sv.st # "gone"
      BY <1>4, <1>5, <2>1 DEF SvType, Running
    <3>2. sv' = SendFailed(s)
      BY <1>5, <2>1 DEF stream_eof
    <3> HIDE DEF s
    <3>3. sv'.st = "QUEUED" /\ sv'.host = NoMom /\ sv'.asked = FALSE
      BY <3>1, <3>2 DEF SendFailed, SvType
    <3>4. (\A n \in Moms : n # m => Role(n)' = Role(n)) /\ Role(m)' = "off"
      BY <1>1, <1>5, <2>1, <3>3, NewRole DEF States, Running, Exiting
    <3> QED BY <3>3, <3>4 DEF Roles
  <2>2. CASE pend[m] = {}
    <3>1. sv' = IF sv.host = m THEN [sv EXCEPT !.asked = FALSE] ELSE sv
      BY <2>2 DEF stream_eof
    <3>2. sv'.st = sv.st /\ sv'.host = sv.host /\ (sv'.asked => sv.asked)
      BY <1>4, <3>1 DEF SvType
    <3>3. \A n \in Moms : Role(n)' = Role(n)
      BY <1>1, <3>2, SameRole
    <3>4. sv.asked => sv.st \in Exiting
      BY <1>1 DEF Whole, Apart
    <3> QED BY <1>2, <2>2, <3>2, <3>3, <3>4
  <2> QED BY <2>1, <2>2
<1>9. Local(m)'
  <2>1. Fits(Role(m)', "none", <<>>, <<>>, mom[m], {}, runs)
    BY <1>2, <1>3, <1>8, FitsLost
  <2> QED BY <1>1, <1>6, <2>1 DEF Local
<1>10. Echo(toSvr[m], toSvr'[m], mom[m])
  BY <1>2, <1>6, Echoes
<1> QED BY <1>1, <1>6, <1>7, <1>8, <1>9, <1>10, AtOne

\* The step of crash.
LEMMA CrashWhole ==
  ASSUME IInv, Whole, crash
  PROVE  Whole'
<1>1. /\ up /\ ~up' /\ sv' = sv /\ db' = db /\ mom' = mom /\ runs' = runs
      /\ pend' = [m \in Moms |-> {}] /\ link' = [m \in Moms |-> "none"]
      /\ toMom' = [m \in Moms |-> <<>>] /\ toSvr' = [m \in Moms |-> <<>>]
  BY DEF crash
<1>2. ASSUME NEW m \in Moms
      PROVE  /\ Role(m)' \in Roles
             /\ Role(m)' # "off" => Role(m)' = Role(m) /\ Role(m)' # "pre"
  <2> DEFINE c == recovered(db.st)
  <2>1. c \in States /\ c # "PRERUN" /\ (\A x \in {"RUNNING"} \cup Exiting : c = x <=> db.st = x)
    BY ServerTypes, RecoveredIs
  <2>2. Role(m)' = RoleAt(db.host, c, m) /\ Role(m) = RoleAt(sv.host, sv.st, m)
    BY <1>1 DEF Role
  <2> HIDE DEF c
  <2>3. CASE RoleAt(db.host, c, m) = "off"
    BY <2>2, <2>3 DEF Roles
  <2>4. CASE RoleAt(db.host, c, m) # "off"
    <3>1. db.host = m /\ c \in Running \cup Exiting
      BY <2>1, <2>4, RoleAtIs
    <3>2. c \in {"RUNNING"} \cup Exiting
      BY <2>1, <3>1 DEF Running
    <3>3. db.st = c
      BY <2>1, <3>2
    <3>4. sv.st = db.st
      BY <3>2, <3>3, ServerTypes DEF Hosts, Exiting
    <3>5. sv.host = db.host
      BY <1>1, <3>2, <3>3, <3>4, ServerTypes DEF Hosts, Running
    <3> QED BY <2>1, <2>2, <3>3, <3>4, <3>5, RoleAtIs
  <2> QED BY <2>3, <2>4
<1>3. ASSUME NEW m \in Moms  PROVE Local(m)'
  <2>1. Fits(Role(m), link[m], toMom[m], toSvr[m], mom[m], pend[m], runs)
    BY DEF Whole, Local
  <2>2. Fits(Role(m)', "none", <<>>, <<>>, mom[m], {}, runs)
    BY <1>2, <2>1, FitTypes, FitsLost
  <2> QED BY <1>1, <2>2 DEF Local
<1>4. Apart'
  <2>1. ASSUME NEW m \in Moms, NEW n \in Moms, Role(n)' # "off", m # n
        PROVE  mom[m].ver # runs
    BY <1>2, <2>1 DEF Whole, Apart
  <2>2. \A m \in Moms : toSvr'[m] = <<>> /\ link'[m] = "none" /\ mom'[m] = mom[m]
    BY <1>1
  <2> QED BY <1>1, <2>1, <2>2 DEF Apart, Positions
<1> QED BY <1>3, <1>4 DEF Whole

\* The step of pbsd_init.
LEMMA InitWhole ==
  ASSUME IInv, Whole, pbsd_init
  PROVE  Whole'
<1>1. /\ ~up /\ up' /\ UNCHANGED <<mom, runs, pend, link, toMom, toSvr>>
      /\ sv' = [st |-> recovered(db.st), ver |-> db.ver, host |-> db.host, asked |-> FALSE]
  BY DEF pbsd_init
<1>2. \A m \in Moms : Role(m)' = Role(m)
  BY <1>1 DEF Role
<1>3. ASSUME NEW m \in Moms  PROVE Local(m)'
  BY <1>1, <1>2 DEF Whole, Local
<1>4. Apart'
  BY <1>1, <1>2 DEF Whole, Apart, Told
<1> QED BY <1>3, <1>4 DEF Whole

\* The new number is nowhere yet.
LEMMA NewNumber ==
  ASSUME IInv, NEW m \in Moms
  PROVE  /\ mom[m].ver # runs + 1
         /\ \A i \in Positions(toSvr[m]) : Told(m, i) => toSvr[m][i].ver # runs + 1
<1>1. runs \in Nat /\ mom[m] \in Jobs /\ toSvr[m] \in Seq(Reports)
  BY FitTypes
<1>2. mom[m].ver \in Nat /\ mom[m].ver <= runs
  BY <1>1 DEF Jobs, Versions, IInv, Numbers
<1>3. ASSUME NEW i \in Positions(toSvr[m]), Told(m, i)
      PROVE  toSvr[m][i].ver \in Nat /\ toSvr[m][i].ver <= runs
  <2>1. toSvr[m][i] \in Reports /\ toSvr[m][i].k \in Tells
    BY <1>1, <1>3 DEF Positions, Told
  <2>2. toSvr[m][i].ver \in Nat
    BY <2>1 DEF Reports, Tells, Versions
  <2> QED BY <2>1, <2>2 DEF IInv, Numbers
<1> QED BY <1>1, <1>2, <1>3

\* Nothing is appended.
LEMMA NoMore == ASSUME NEW s \in Seq(Orders)  PROVE s \o <<>> = s
OBVIOUS

\* The step of req_runjob: a run that is queued is no MoM's, and the order goes to one
\* without a job or to nobody.
LEMMA RunWhole ==
  ASSUME IInv, Whole, NEW m \in Moms, req_runjob(m)
  PROVE  Whole'
<1> DEFINE d(n) == If(n = sv.host /\ link[n] = "up", <<Discard(sv.ver)>>)
           w == Run(sv.ver + 1, runs + 1)
           t(n) == If(n = m /\ link[n] = "up", <<w>>)
           u(n) == toMom[n] \o d(n)
<1>1. /\ up /\ up' = up /\ sv.st = "QUEUED" /\ link' = link /\ toSvr' = toSvr /\ mom' = mom
      /\ runs' = runs + 1 /\ runs < MaxRuns
  BY DEF req_runjob
<1>2. sv \in SvType /\ sv.ver = runs /\ runs \in Nat /\ runs + 1 \in Versions
  <2>1. sv \in SvType /\ sv.ver = runs /\ runs \in Nat
    BY ServerTypes, FitTypes
  <2> QED BY <1>1, <2>1, RunVersionAssumption DEF Versions
<1>3. sv.st \notin Running \cup Exiting
  BY <1>1 DEF Running, Exiting
<1>4. \A n \in Moms : Role(n) = "off"
  BY <1>1, <1>3, RoleIs
<1>5. \A n \in Moms : toMom'[n] = u(n) \o t(n)
  <2>1. [sv EXCEPT !.st = "PRERUN", !.ver = @ + 1, !.host = m].ver = sv.ver + 1
    BY <1>2 DEF SvType
  <2> DEFINE s == [sv EXCEPT !.st = "PRERUN", !.ver = @ + 1, !.host = m]
             discards == [n \in Moms |-> If(n = sv.host /\ link[n] = "up", <<Discard(sv.ver)>>)]
             sends == [n \in Moms |-> If(n = m /\ link[n] = "up", <<Run(s.ver, runs + 1)>>)]
  <2>2. toMom' = [n \in Moms |-> toMom[n] \o discards[n] \o sends[n]]
    BY Zenon DEF req_runjob
  <2>3. \A n \in Moms : discards[n] = d(n) /\ sends[n] = t(n)
    BY <2>1
  <2> HIDE DEF discards, sends, d, t
  <2> QED BY <2>2, <2>3
<1>6. ASSUME NEW n \in Moms
      PROVE  /\ u(n) \in Seq(Orders)
             /\ Fits("off", link[n], u(n), toSvr[n], mom[n], pend[n], runs)
  <2>1. Fits("off", link[n], toMom[n], toSvr[n], mom[n], pend[n], runs)
    BY <1>4 DEF Whole, Local
  <2>2. /\ link[n] \in Links /\ toMom[n] \in Seq(Orders) /\ toSvr[n] \in Seq(Reports)
        /\ mom[n] \in Jobs /\ pend[n] \in SUBSET Versions
    BY FitTypes
  <2>3. CASE n = sv.host /\ link[n] = "up"
    <3>1. Discard(sv.ver) \in Orders /\ Discard(sv.ver).k = "DISCARD_JOB"
      BY <1>2, MessageTypes DEF Discard, SvType
    <3>2. u(n) = toMom[n] \o <<Discard(sv.ver)>>
      BY <2>3 DEF If
    <3> HIDE DEF u, d
    <3>3. u(n) \in Seq(Orders)
      BY <2>2, <3>1, <3>2
    <3> QED BY <1>2, <2>1, <2>2, <2>3, <3>1, <3>2, <3>3, FitsOff
  <2>4. CASE ~(n = sv.host /\ link[n] = "up")
    <3>1. u(n) = toMom[n] \o <<>>
      BY <2>4 DEF If
    <3> HIDE DEF u, d
    <3>2. u(n) = toMom[n]
      BY <2>2, <3>1, NoMore
    <3> QED BY <2>1, <2>2, <3>2
  <2> QED BY <2>3, <2>4
<1> HIDE DEF d, u
<1>7. ASSUME NEW n \in Moms, n # m \/ link[m] # "up"  PROVE  toMom'[n] = u(n)
  <2>1. t(n) = <<>>
    BY <1>7 DEF If
  <2>2. toMom'[n] = u(n) \o <<>>
    BY <1>5, <2>1
  <2> QED BY <1>6, <2>2, NoMore
<1>8. ASSUME NEW n \in Moms  PROVE Fits("off", link[n], u(n), toSvr[n], mom[n], pend[n], runs + 1)
  BY <1>6, FitTypes, FitsAny
<1>9. CASE link[m] = "up"
  <2>1. /\ sv' = [sv EXCEPT !.st = "PRERUN", !.ver = @ + 1, !.host = m]
        /\ pend' = [pend EXCEPT ![m] = @ \cup {runs + 1}]
    BY <1>9 DEF req_runjob
  <2>2. sv'.st = "PRERUN" /\ sv'.host = m /\ sv'.asked = sv.asked
    BY <1>2, <2>1 DEF SvType
  <2>3. ASSUME NEW n \in Moms
        PROVE  Role(n)' = RoleAt(m, "PRERUN", n)
    BY <1>1, <2>2 DEF Role
  <2>4. Role(m)' = "pre" /\ \A n \in Moms : n # m => Role(n)' = "off"
    BY <2>3, RoleAtIs DEF States, Running
  <2>5. toMom'[m] = u(m) \o <<w>>
    BY <1>5, <1>9 DEF If
  <2>6. w \in Orders /\ w.k = "Run" /\ w.ver = runs + 1 /\ w.run = runs + 1
    BY <1>2, MessageTypes DEF Run
  <2> HIDE DEF w
  <2>7. Fits("pre", link[m], toMom'[m], toSvr[m], mom[m], pend[m] \cup {runs + 1}, runs + 1)
    <3>1. /\ u(m) \in Seq(Orders) /\ toSvr[m] \in Seq(Reports) /\ mom[m] \in Jobs
          /\ pend[m] \in SUBSET Versions /\ runs + 1 \in Nat
          /\ Fits("off", "up", u(m), toSvr[m], mom[m], pend[m], runs)
      BY <1>2, <1>6, <1>9, FitTypes
    <3> DEFINE z == runs + 1  v == toMom'[m]
    <3>2. z \in Nat /\ w.ver = z /\ w.run = z /\ v = u(m) \o <<w>>
      BY <2>5, <2>6, <3>1
    <3> HIDE DEF z, v
    <3>3. Fits("pre", "up", v, toSvr[m], mom[m], pend[m] \cup {z}, z)
      BY <2>6, <3>1, <3>2, FitsSend
    <3> QED BY <1>9, <3>3 DEF z, v
  <2>8. pend'[m] = pend[m] \cup {runs + 1} /\ \A n \in Moms : n # m => pend'[n] = pend[n]
    BY <2>1, FitTypes
  <2>9. ASSUME NEW n \in Moms  PROVE Local(n)'
    <3>1. CASE n = m
      BY <1>1, <2>4, <2>7, <2>8, <3>1 DEF Local
    <3>2. CASE n # m
      BY <1>1, <1>7, <1>8, <2>4, <2>8, <3>2 DEF Local
    <3> QED BY <3>1, <3>2
  <2>10. ~sv'.asked
    BY <1>1, <1>3, <2>2 DEF Whole, Apart
  <2>11. Apart'
    BY <1>1, <2>10, NewNumber DEF Apart, Told
  <2> QED BY <2>9, <2>11 DEF Whole
<1>10. CASE link[m] # "up"
  <2> DEFINE s == [sv EXCEPT !.st = "PRERUN", !.ver = @ + 1, !.host = m]
  <2>1. sv' = [s EXCEPT !.st = "QUEUED", !.host = NoMom] /\ pend' = pend
    BY <1>10 DEF req_runjob
  <2>2. s.asked = sv.asked /\ sv'.st = "QUEUED" /\ sv'.host = NoMom /\ sv'.asked = sv.asked
    BY <1>2, <2>1 DEF SvType
  <2>3. ASSUME NEW n \in Moms  PROVE Role(n)' = "off"
    <3>1. Role(n)' = RoleAt(NoMom, "QUEUED", n)
      BY <1>1, <2>2 DEF Role
    <3> QED BY <3>1, RunVersionAssumption DEF RoleAt
  <2>4. ASSUME NEW n \in Moms  PROVE Local(n)'
    BY <1>1, <1>7, <1>8, <1>10, <2>1, <2>3 DEF Local
  <2>5. ~sv'.asked
    BY <1>1, <1>3, <2>2 DEF Whole, Apart
  <2>6. Apart'
    BY <1>1, <2>3, <2>5 DEF Apart
  <2> QED BY <2>4, <2>6 DEF Whole
<1> QED BY <1>9, <1>10

-----------------------------------------------------------------------------
(* The invariant.                                                           *)

\* At first no MoM has a job and every stream is up and empty.
LEMMA InitThere == Init => There
<1>0. Init => Aimed
  BY DEF Init, Aimed, Running, Exiting
<1> SUFFICES ASSUME Init  PROVE Whole
  BY <1>0 DEF There
<1>1. up /\ sv.st = "QUEUED" /\ sv.host = NoMom /\ sv.asked = FALSE
  BY DEF Init
<1>2. ASSUME NEW m \in Moms
      PROVE  /\ link[m] = "up" /\ toMom[m] = <<>> /\ toSvr[m] = <<>>
             /\ mom[m] = NoJob /\ pend[m] = {} /\ Role(m) = "off"
  <2>1. Role(m) = "off"
    BY <1>1, RunVersionAssumption DEF Role, RoleAt
  <2> QED BY <2>1 DEF Init
<1>3. Positions(<<>>) = {}
  BY DEF Positions
<1>4. Fits("off", "up", <<>>, <<>>, NoJob, {}, runs)
  BY <1>3 DEF Fits, Unused, Kinds
<1>5. \A m \in Moms : Local(m)
  BY <1>2, <1>4 DEF Local
<1>6. Apart
  BY <1>1, <1>2 DEF Apart
<1> QED BY <1>5, <1>6 DEF Whole

\* A step that forces no job back.
LEMMA StepWhole ==
  ASSUME IInv, Whole, Aimed, Next, ~req_rerunjob_force, ~req_runjob_again
  PROVE  Whole'
<1>1. CASE on_job_exit
  BY <1>1, AskWhole
<1>2. CASE node_down_requeue
  BY <1>2, RequeueWhole
<1>3. CASE crash
  BY <1>3, CrashWhole
<1>4. CASE pbsd_init
  BY <1>4, InitWhole
<1>5. ASSUME NEW m \in Moms, req_runjob(m) \/ ping_a_mom(m) \/ stream_eof(m)
      PROVE  Whole'
  BY <1>5, RunWhole, PingWhole, EofWhole
<1>6. ASSUME NEW m \in Moms, ServerReads(m)
      PROVE  Whole'
  BY <1>6, AnswerWhole, UpdateWhole, ObitWhole, DeletedWhole, HelloWhole, ReadyWhole
     DEF ServerReads
<1>7. ASSUME NEW m \in Moms, MomReads(m)
      PROVE  Whole'
  BY <1>7, CommitWhole, DropWhole, DeleteWhole, GreetWhole, AddrsWhole DEF MomReads
<1>8. ASSUME NEW m \in Moms,
             record_finish_exec(m) \/ update_jobs_status(m) \/ send_obit(m) \/ resend_obit(m)
      PROVE  Whole'
  BY <1>8, TellsWhole
<1> QED BY <1>1, <1>2, <1>3, <1>4, <1>5, <1>6, <1>7, <1>8 DEF Next

\* Only qrerun -Wforce writes the history of what was forced.
LEMMA ForcedOnly ==
  ASSUME Next
  PROVE  req_rerunjob_force \/ forced' = forced
<1>6. CASE req_runjob_again
  BY <1>6 DEF req_runjob_again
<1>1. CASE on_job_exit \/ node_down_requeue \/ crash \/ pbsd_init
  BY <1>1 DEF on_job_exit, node_down_requeue, crash, pbsd_init, bounds
<1>2. ASSUME NEW m \in Moms, req_runjob(m) \/ ping_a_mom(m) \/ stream_eof(m)
      PROVE  forced' = forced
  BY <1>2 DEF req_runjob, ping_a_mom, stream_eof, bounds
<1>3. ASSUME NEW m \in Moms, ServerReads(m)
      PROVE  forced' = forced
  BY <1>3 DEF ServerReads, post_sendmom, stat_update, job_obit, job_deleted, is_hello4,
              is_mom_ready, bounds
<1>4. ASSUME NEW m \in Moms, MomReads(m)
      PROVE  forced' = forced
  BY <1>4 DEF MomReads, req_commit, rid_job, is_discard_job, req_deletejob, reply_hello4,
              is_cluster_addrs, MomOnly, bounds
<1>5. ASSUME NEW m \in Moms,
             record_finish_exec(m) \/ update_jobs_status(m) \/ send_obit(m) \/ resend_obit(m)
      PROVE  forced' = forced
  BY <1>5 DEF record_finish_exec, update_jobs_status, send_obit, resend_obit, MomOnly, bounds
<1> QED BY <1>1, <1>2, <1>3, <1>4, <1>5, <1>6 DEF Next

\* The job is sent to the MoM it is on.
LEMMA StepAimed ==
  ASSUME IInv, Aimed, Next, ~req_runjob_again
  PROVE  Aimed'
<1>0. /\ sv \in SvType /\ db \in DbType /\ Hosts /\ sv.st \in States
  BY ServerTypes
<1>1. ASSUME up' = up, destin' = destin, db'.st = db.st \/ up,
             db'.host = db.host \/ up,
             \/ sv'.st \in {"QUEUED", "gone"}
             \/ sv'.host = sv.host /\ sv.st \in Running \cup Exiting
             \/ sv'.st = sv.st /\ sv'.host = sv.host
      PROVE  Aimed'
  BY <1>1 DEF Aimed, Running, Exiting
<1>2. ASSUME up, up', \/ sv'.st \in {"QUEUED", "gone"}
                      \/ sv'.st = sv.st /\ sv'.host = sv.host /\ destin' = destin
      PROVE  Aimed'
  BY <1>2 DEF Aimed, Running, Exiting
<1>3. CASE on_job_exit
  BY <1>0, <1>1, <1>3 DEF on_job_exit, SvType
<1>4. CASE req_rerunjob_force \/ node_down_requeue
  <2>1. sv' \in {force_reque(sv), job_purge(sv)} /\ up /\ up' = up
    BY <1>4 DEF req_rerunjob_force, node_down_requeue
  <2>2. sv'.st \in {"QUEUED", "gone"}
    BY <1>0, <2>1, Requeues
  <2> QED BY <1>2, <2>1, <2>2
<1>5. CASE crash
  <2>1. up /\ ~up' /\ UNCHANGED <<sv, db, destin>>
    BY <1>5 DEF crash
  <2>2. db.st \in {"RUNNING"} \cup Exiting => sv.st \in Running \cup Exiting
    BY <1>0 DEF Hosts, Running, Exiting
  <2> QED BY <1>0, <2>1, <2>2 DEF Aimed, Hosts
<1>6. CASE pbsd_init
  <2>1. ~up /\ up' /\ UNCHANGED <<db, destin>> /\ sv'.st = recovered(db.st) /\ sv'.host = db.host
    BY <1>6 DEF pbsd_init
  <2> QED BY <2>1 DEF Aimed, recovered, Running, Exiting
<1>7. ASSUME NEW m \in Moms, req_runjob(m)  PROVE  Aimed'
  <2>1. /\ up /\ up' = up
        /\ \/ destin' = m /\ sv' = [sv EXCEPT !.st = "PRERUN", !.ver = @ + 1, !.host = m]
           \/ \E s : sv' = [s EXCEPT !.st = "QUEUED", !.host = NoMom] /\ s \in SvType
    <3> DEFINE s == [sv EXCEPT !.st = "PRERUN", !.ver = @ + 1, !.host = m]
    <3>1. /\ up /\ up' = up /\ sv.st = "QUEUED" /\ runs < MaxRuns
          /\ IF link[m] = "up" THEN sv' = s /\ destin' = m
             ELSE sv' = [s EXCEPT !.st = "QUEUED", !.host = NoMom]
      BY <1>7, Zenon DEF req_runjob
    <3>2. s \in SvType
      <4>1. sv.ver + 1 \in Versions /\ "PRERUN" \in States
        BY <3>1, ServerTypes, RunVersionAssumption DEF Versions, States, Running, IInv, Types
      <4> QED BY <1>0, <4>1 DEF SvType
    <3> QED BY <3>1, <3>2
  <2>2. \/ destin' = m /\ sv'.host = m
        \/ sv'.st = "QUEUED"
    BY <1>0, <2>1 DEF SvType
  <2> QED BY <2>1, <2>2 DEF Aimed, Running, Exiting
<1>8. ASSUME NEW m \in Moms, ping_a_mom(m)  PROVE  Aimed'
  BY <1>1, <1>8 DEF ping_a_mom
<1>9. ASSUME NEW m \in Moms, stream_eof(m)  PROVE  Aimed'
  <2> DEFINE s == IF sv.host = m THEN [sv EXCEPT !.asked = FALSE] ELSE sv
  <2>1. /\ up /\ up' = up
        /\ sv' = SendFailed(s) \/ (sv' = s /\ destin' = destin)
    BY <1>9 DEF stream_eof
  <2>2. s \in SvType /\ s.st = sv.st /\ s.host = sv.host
    BY <1>0, Requeues DEF SvType
  <2> HIDE DEF s
  <2>3. SendFailed(s).st \in {"QUEUED", "gone"}
    BY <2>2, Requeues
  <2> QED BY <1>2, <2>1, <2>2, <2>3
<1>10. ASSUME NEW m \in Moms, post_sendmom(m)  PROVE  Aimed'
  <2>1. up /\ up' = up /\ (sv' = SendFailed(sv) \/ (sv' = sv /\ destin' = destin))
    BY <1>10 DEF post_sendmom, Read
  <2>2. SendFailed(sv).st \in {"QUEUED", "gone"}
    BY <1>0, Requeues
  <2> QED BY <1>2, <2>1, <2>2
<1>11. ASSUME NEW m \in Moms, stat_update(m)  PROVE  Aimed'
  <2>1. /\ up /\ up' = up /\ destin' = destin
        /\ sv' = sv \/ (sv.st = "PRERUN" /\ sv' = [sv EXCEPT !.st = "RUNNING"])
    BY <1>11 DEF stat_update, Read, begins
  <2>2. sv'.host = sv.host
    BY <1>0, <2>1 DEF SvType
  <2> QED BY <1>1, <2>1, <2>2 DEF Running
<1>12. ASSUME NEW m \in Moms, job_obit(m)  PROVE  Aimed'
  <2>1. /\ up /\ up' = up /\ destin' = destin
        /\ \/ sv' = sv
           \/ /\ sv.st \in Running \cup Exiting
              /\ \E st \in Exiting : sv' = [sv EXCEPT !.st = st, !.asked = FALSE]
           \/ sv.st \in Exiting /\ sv' = [sv EXCEPT !.asked = FALSE]
    BY <1>12 DEF job_obit, Read, is_current
  <2>2. sv'.host = sv.host /\ (sv' = sv \/ sv.st \in Running \cup Exiting)
    BY <1>0, <2>1 DEF SvType
  <2> QED BY <1>1, <2>1, <2>2
<1>13. ASSUME NEW m \in Moms, job_deleted(m)  PROVE  Aimed'
  <2>1. up /\ up' = up /\ destin' = destin /\ sv' \in {sv, force_reque(sv), job_purge(sv)}
    BY <1>13 DEF job_deleted, Read
  <2>2. sv' = sv \/ sv'.st \in {"QUEUED", "gone"}
    BY <1>0, <2>1, Requeues
  <2> QED BY <1>2, <2>1, <2>2
<1>14. ASSUME NEW m \in Moms, is_hello4(m) \/ is_mom_ready(m)  PROVE  Aimed'
  BY <1>1, <1>14 DEF is_hello4, is_mom_ready
<1>15. ASSUME NEW m \in Moms,
              \/ MomReads(m)
              \/ record_finish_exec(m) \/ update_jobs_status(m) \/ send_obit(m) \/ resend_obit(m)
       PROVE  Aimed'
  <2>1. MomOnly
    BY <1>15 DEF MomReads, req_commit, rid_job, is_discard_job, req_deletejob, reply_hello4,
         is_cluster_addrs, record_finish_exec, update_jobs_status, send_obit, resend_obit
  <2> QED BY <1>1, <2>1 DEF MomOnly
<1> QED BY <1>3, <1>4, <1>5, <1>6, <1>7, <1>8, <1>9, <1>10, <1>11, <1>12, <1>13, <1>14, <1>15
        DEF Next, ServerReads

\* Every step leads from streams that fit to streams that fit.
LEMMA NextThere == Kept /\ There /\ [Next]_vars => There'
<1> SUFFICES ASSUME Kept, There, [Next]_vars, ~reused'  PROVE There'
  BY DEF There
<1>0. IInv /\ ~reused /\ ~req_runjob_again
  BY ReusedOnce DEF Kept, req_runjob_again
<1>1. CASE UNCHANGED vars
  <2>1. \A m \in Moms : Role(m)' = Role(m)
    BY <1>1 DEF vars, Role
  <2>2. forced' = forced /\ (\A m \in Moms : Local(m)' <=> Local(m)) /\ (Apart' <=> Apart)
    BY <1>1, <2>1 DEF vars, Local, Apart, Told
  <2>3. Aimed' <=> Aimed
    BY <1>1 DEF vars, Aimed
  <2> QED BY <1>0, <2>2, <2>3 DEF There, Whole
<1>2. CASE req_rerunjob_force
  <2>1. forced' # {}
    BY <1>2 DEF req_rerunjob_force
  <2> QED BY <2>1 DEF There
<1>3. CASE Next /\ ~req_rerunjob_force
  <2>1. forced' = forced
    BY <1>3, ForcedOnly
  <2>2. Whole /\ Aimed => Whole'
    BY <1>0, <1>3, StepWhole
  <2>3. Aimed => Aimed'
    BY <1>0, <1>3, StepAimed
  <2> QED BY <1>0, <2>1, <2>2, <2>3 DEF There
<1> QED BY <1>1, <1>2, <1>3

\* What is under way fits the state the server has the job in, whatever streams break and
\* however often the server crashes, until a manager forces a job back
\* or runs it on the vnodes of an earlier run.
THEOREM StreamsFit == Spec => []There
<1>1. Init => There
  BY InitThere
<1>2. Kept /\ There /\ [Next]_vars => There'
  BY NextThere
<1> QED BY <1>1, <1>2, NumbersInv, PTL DEF Spec

\* A job the server takes to be running is on its MoM, and is the very run that was sent
\* last, whatever streams break and however often the server crashes, until a manager
\* forces a job back or runs it on the vnodes of an earlier run (HELLO4, MOM_READY and the
\* discards between them see to it).
THEOREM RunningIsThere == Spec => []RunIsThere
<1>1. Kept /\ There => RunIsThere
  <2> SUFFICES ASSUME IInv, There, up, sv.st = "RUNNING", forced = {}, ~reused
               PROVE  Has(sv.host) /\ mom[sv.host].run = runs
    BY DEF RunIsThere, Kept
  <2>1. sv.host \in Moms
    BY ServerTypes DEF Hosts, Running
  <2>2. Role(sv.host) = "run"
    BY <2>1, RoleIs
  <2>3. Local(sv.host)
    BY <2>1 DEF There, Whole
  <2> QED BY <2>2, <2>3 DEF Local, Fits, Taken, Has
<1> QED BY <1>1, NumbersInv, StreamsFit, PTL

=============================================================================
