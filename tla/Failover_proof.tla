--------------------------- MODULE Failover_proof ---------------------------
(***************************************************************************)
(* Proofs about Failover: for any kinds and any number of faults, starts   *)
(* and stops, the records stay of their types, a request to stop the data  *)
(* service never hits the one its sender has started since, and the        *)
(* secondary answers a primary that is back only when it has saved its     *)
(* data.                                                                    *)
(*                                                                          *)
(* Inv is the inductive invariant.  Each operator of the model has a lemma, *)
(* each action one with a step for every part of Inv it can disturb; Frame  *)
(* is about the other parts.                                                *)
(***************************************************************************)
EXTENDS Failover, TLAPS

PrimOK == p \in PrimType /\ (p.at \notin Listening => p = NewPrim(p.at))

SecdOK == s \in SecdType /\ (s.at \notin Listening => s.st = "RUN")

ToPrim == {"Register", "Ack", "EOF"}

ToSecd == {"Ok", "Reject", "HandShake", "SecdShutdown", "SecdGoInactive", "EOF", "RST"}

ConnOK ==
  /\ sock \in Conns \cup {None} /\ sc \in Conns \cup {None}
  /\ pc \subseteq Conns /\ toP \in [Conns -> Seq(ToPrim)] /\ toS \in Seq(ToSecd)

FileOK ==
  /\ back \in {"none", "sent", "saved", "acked", "eof", "lost"}
  /\ secact \in BOOLEAN /\ quiet \in BOOLEAN /\ net \in BOOLEAN
  /\ db \in {"none", "P", "S"} /\ dbclose \in {"none", "P", "S"}
  /\ faults \in 0..MaxFaults /\ idle \in BOOLEAN

\* a secondary that is about to answer the primary and to start afresh has stopped its
\* data service; with it comes OwnDbSurvives
DbOK == OwnDbSurvives /\ (s.at = "leaving" => db # "S")

Inv == PrimOK /\ SecdOK /\ ConnOK /\ FileOK /\ DbOK

\* The types of the records, connections and files together are TypeOK.
LEMMA TypeParts == TypeOK <=> PrimOK /\ SecdOK /\ ConnOK /\ FileOK
BY DEF TypeOK, PrimOK, SecdOK, ConnOK, FileOK, ToPrim, ToSecd

\* A part of the invariant whose variables an action leaves alone stays true.
LEMMA Frame ==
  ASSUME Inv
  PROVE  /\ UNCHANGED p => PrimOK'
         /\ UNCHANGED s => SecdOK'
         /\ UNCHANGED <<sock, sc, pc, toP, toS>> => ConnOK'
         /\ UNCHANGED <<back, secact, quiet, db, dbclose, net, faults, idle>> => FileOK'
         /\ UNCHANGED <<s, db, dbclose>> => DbOK'
BY DEF Inv, PrimOK, SecdOK, ConnOK, FileOK, DbOK, OwnDbSurvives

\* A primary that starts has a fresh record (main),
LEMMA NewPrimOK ==
  ASSUME NEW at \in {"off", "taking", "asking", "db", "init"}
  PROVE  /\ NewPrim(at) \in PrimType /\ NewPrim(at).at = at
         /\ p' = NewPrim(at) => PrimOK'
<1>1. <<>> \in Seq({"HandShake", "Shut"})
  OBVIOUS
<1>2. NewPrim(at) \in PrimType /\ NewPrim(at).at = at
  BY <1>1 DEF NewPrim, PrimType
<1> QED
  BY <1>2 DEF PrimOK

\* and is still fresh a step further on.
LEMMA NewPrimAt == \A at, at2 : [NewPrim(at2) EXCEPT !.at = at] = NewPrim(at)
BY DEF NewPrim

\* A primary that is starting takes its next step with that record.
LEMMA PrimStarts ==
  ASSUME PrimOK, p.at \notin Listening,
         NEW at \in {"taking", "asking", "db", "init"}, p' = [p EXCEPT !.at = at]
  PROVE  PrimOK'
BY NewPrimOK, NewPrimAt DEF PrimOK

\* A secondary that starts, or starts afresh, has a fresh record too.
LEMMA NewSecdOK ==
  ASSUME NEW at \in {"off", "inactive"}, s' = NewSecd(at)
  PROVE  SecdOK' /\ s'.at = at
BY DEF NewSecd, SecdType, SecdOK

\* A task of the primary is dispatched.
LEMMA dispatch_task_OK ==
  ASSUME NEW x \in PrimType, x.pend # <<>>
  PROVE  dispatch_task(x) \in PrimType /\ dispatch_task(x).at = x.at
<1>1. Tail(x.pend) \in Seq({"HandShake", "Shut"})
  BY DEF PrimType
<1>2. (IF Head(x.pend) = "Shut" THEN FALSE ELSE x.dly) \in BOOLEAN
  BY DEF PrimType
<1> QED
  BY <1>1, <1>2 DEF dispatch_task, PrimType

\* A connection at its end empties the list of its tasks.
LEMMA process_Dreply_eof_OK ==
  ASSUME NEW x \in PrimType
  PROVE  process_Dreply_eof(x) \in PrimType /\ process_Dreply_eof(x).at = x.at
<1>1. CASE x.pend = <<>>
  BY <1>1 DEF process_Dreply_eof
<1>2. CASE x.pend # <<>>
  <2> DEFINE d == dispatch_task(x)
  <2>1. d \in PrimType /\ d.at = x.at
    BY <1>2, dispatch_task_OK
  <2>2. (d.left \/ Len(x.pend) > 1) \in BOOLEAN /\ <<>> \in Seq({"HandShake", "Shut"})
    OBVIOUS
  <2>3. process_Dreply_eof(x) = [d EXCEPT !.left = @ \/ Len(x.pend) > 1, !.pend = <<>>]
    BY <1>2 DEF process_Dreply_eof
  <2> HIDE DEF d
  <2> QED
    BY <2>1, <2>2, <2>3 DEF PrimType
<1> QED
  BY <1>1, <1>2

\* A request to the secondary leaves a task and a message.
LEMMA issue_Drequest_OK ==
  ASSUME ConnOK, NEW x \in PrimType, x.at \in Listening, NEW task \in {"HandShake", "Shut"},
         NEW msg \in ToSecd, issue_Drequest(x, task, msg)
  PROVE  PrimOK' /\ toS' \in Seq(ToSecd)
<1>1. Append(x.pend, task) \in Seq({"HandShake", "Shut"})
  BY DEF PrimType
<1>2. p' \in PrimType /\ p'.at = x.at
  BY <1>1 DEF issue_Drequest, PrimType
<1>3. toS' \in Seq(ToSecd)
  BY DEF issue_Drequest, ConnOK
<1> QED
  BY <1>2, <1>3 DEF PrimOK

\* What the secondary writes is of the kinds the primary reads.
LEMMA WriteOK ==
  ASSUME ConnOK, NEW msgs \in Seq(ToPrim)
  PROVE  Write(msgs) \in [Conns -> Seq(ToPrim)]
BY DEF Write, ConnOK

\* The messages the secondary writes, and what it reads of a broken connection.
LEMMA Said ==
  /\ <<"EOF">> \in Seq(ToPrim) /\ <<"Ack">> \in Seq(ToPrim) /\ <<"Register">> \in Seq(ToPrim)
  /\ <<"Ack", "EOF">> \in Seq(ToPrim)
  /\ <<>> \in Seq(ToSecd) /\ <<"RST">> \in Seq(ToSecd)
BY DEF ToPrim, ToSecd

\* The secondary closes its end of the connection.
LEMMA CloseSockOK ==
  ASSUME ConnOK, CloseSock
  PROVE  /\ sock' = None /\ toS' \in Seq(ToSecd) /\ toP' \in [Conns -> Seq(ToPrim)]
         /\ UNCHANGED <<sc, pc>> => ConnOK'
BY WriteOK, Said DEF CloseSock, ConnOK

\* The end of the primary is closed by its exit, or is gone with its host.
LEMMA ClosePrimaryOK ==
  ASSUME ConnOK, ClosePrimary \/ (PrimaryGone /\ UNCHANGED toS), UNCHANGED sock
  PROVE  ConnOK'
<1>1. "EOF" \in ToSecd /\ "RST" \in ToSecd
  BY DEF ToSecd
<1>2. toS' \in Seq(ToSecd)
  <2>1. toS \in Seq(ToSecd)
    BY DEF ConnOK
  <2>2. toS' \in {toS, Append(toS, "EOF"), Append(toS, "RST")}
    BY DEF ClosePrimary
  <2> QED
    BY <1>1, <2>1, <2>2
<1>3. toP' \in [Conns -> Seq(ToPrim)]
  <2>1. toP' = [c \in Conns |-> <<>>] /\ <<>> \in Seq(ToPrim)
    BY DEF ClosePrimary, PrimaryGone
  <2> QED
    BY <2>1
<1>4. sc' = None /\ pc' = {} /\ sock' = sock
  BY DEF ClosePrimary, PrimaryGone
<1> QED
  BY <1>2, <1>3, <1>4 DEF ConnOK

\* A new connection is made while the secondary is inactive.
LEMMA connect_primary_OK ==
  ASSUME Inv, s.at = "inactive", connect_primary
  PROVE  SecdOK' /\ s'.at = "inactive" /\ (UNCHANGED sc => ConnOK')
<1>1. PICK c \in Conns : /\ sock' = c /\ toS' = <<>> /\ toP' = Write(<<"EOF">>)
                         /\ pc' = pc \cup {c} /\ s' = [s EXCEPT !.fo = "conn"]
  BY DEF connect_primary
<1>2. SecdOK' /\ s'.at = "inactive"
  BY <1>1 DEF Inv, SecdOK, SecdType
<1>3. UNCHANGED sc => ConnOK'
  BY <1>1, WriteOK, Said DEF Inv, ConnOK
<1> QED
  BY <1>2, <1>3

\* A request is read and acknowledged.
LEMMA AcknowledgeOK ==
  ASSUME ConnOK, toS # <<>>, Acknowledge, UNCHANGED <<sc, pc>>
  PROVE  ConnOK'
<1>1. Tail(toS) \in Seq(ToSecd) /\ "RST" \in ToSecd
  BY DEF ConnOK, ToSecd
<1>2. Append(Tail(toS), "RST") \in Seq(ToSecd)
  BY <1>1
<1> QED
  BY <1>1, <1>2, WriteOK, Said DEF Acknowledge, ConnOK

\* The primary reads a message.
LEMMA ArrivedOK ==
  ASSUME ConnOK, NEW c \in Conns, NEW msg, Arrived(c, msg)
  PROVE  toP' \in [Conns -> Seq(ToPrim)]
BY DEF Arrived, ConnOK

\* Faults, starts and stops are counted up to their bound.
LEMMA DisturbanceOK ==
  ASSUME FileOK, Disturbance
  PROVE  faults' \in 0..MaxFaults
BY FailoverAssumption DEF FileOK, Disturbance

-----------------------------------------------------------------------------
(* The primary.                                                             *)

\* The primary is started: main with a fresh record.
LEMMA start_primary_OK ==
  ASSUME Inv, start_primary
  PROVE  Inv'
<1>1. SecdOK' /\ ConnOK' /\ DbOK'
  BY Frame DEF start_primary
<1>2. PrimOK'
  BY NewPrimOK DEF start_primary
<1>3. FileOK'
  <2>1. faults' \in 0..MaxFaults
    BY DisturbanceOK DEF start_primary, Inv
  <2>2. /\ idle' = FALSE /\ back' = "none"
        /\ UNCHANGED <<secact, quiet, db, dbclose, net>>
    BY DEF start_primary
  <2> QED
    BY <2>1, <2>2 DEF Inv, FileOK
<1> QED
  BY <1>1, <1>2, <1>3 DEF Inv

\* takeover_from_secondary has sent FAILOVER_PrimIsBack.
LEMMA takeover_from_secondary_OK ==
  ASSUME Inv, takeover_from_secondary
  PROVE  Inv'
<1>1. SecdOK' /\ ConnOK' /\ DbOK'
  BY Frame DEF takeover_from_secondary
<1>2. PrimOK'
  BY PrimStarts DEF takeover_from_secondary, Inv, Listening
<1>3. FileOK'
  BY DEF Inv, FileOK, takeover_from_secondary
<1> QED
  BY <1>1, <1>2, <1>3 DEF Inv

\* The answer lets the primary go on, or it gives up (takeover_from_secondary).
LEMMA takeover_reply_OK ==
  ASSUME Inv, takeover_reply
  PROVE  Inv'
<1>1. SecdOK' /\ ConnOK' /\ DbOK'
  BY Frame DEF takeover_reply
<1>2. PrimOK'
  <2>1. CASE p' = [p EXCEPT !.at = "db"]
    BY <2>1, PrimStarts DEF takeover_reply, Inv, Listening
  <2>2. CASE p' = NewPrim("off")
    BY <2>2, NewPrimOK
  <2> QED
    BY <2>1, <2>2 DEF takeover_reply
<1>3. FileOK'
  BY DEF Inv, FileOK, takeover_reply
<1> QED
  BY <1>1, <1>2, <1>3 DEF Inv

\* A secondary that cannot be reached is taken for gone (main).
LEMMA secondary_is_gone_OK ==
  ASSUME Inv, secondary_is_gone
  PROVE  Inv'
<1>1. SecdOK' /\ ConnOK' /\ DbOK'
  BY Frame DEF secondary_is_gone
<1>2. PrimOK'
  BY PrimStarts DEF secondary_is_gone, prim_goes_active, Inv, Listening
<1>3. FileOK'
  BY DEF Inv, FileOK, secondary_is_gone, prim_goes_active
<1> QED
  BY <1>1, <1>2, <1>3 DEF Inv

\* The primary looks for the data service: it never asks its own to stop.
LEMMA prim_connect_db_OK ==
  ASSUME Inv, prim_connect_db
  PROVE  Inv'
<1>1. SecdOK' /\ ConnOK'
  BY Frame DEF prim_connect_db
<1>2. PrimOK'
  BY PrimStarts DEF prim_connect_db, Inv, Listening
<1>3. FileOK'
  BY DEF Inv, FileOK, prim_connect_db, connect_db
<1>4. DbOK'
  BY DEF Inv, DbOK, OwnDbSurvives, prim_connect_db, connect_db, FileOK
<1> QED
  BY <1>1, <1>2, <1>3, <1>4 DEF Inv

\* The primary enters its main loop (pbsd_init).
LEMMA prim_init_OK ==
  ASSUME Inv, prim_init
  PROVE  Inv'
<1>1. SecdOK' /\ ConnOK' /\ FileOK' /\ DbOK'
  BY Frame DEF prim_init
<1>2. PrimOK'
  BY DEF prim_init, Inv, PrimOK, PrimType, Listening
<1> QED
  BY <1>1, <1>2 DEF Inv

\* The primary has lost its data service (panic_stop_db).
LEMMA prim_panic_stop_db_OK ==
  ASSUME Inv, prim_panic_stop_db
  PROVE  Inv'
<1>1. SecdOK' /\ FileOK' /\ DbOK'
  BY Frame DEF prim_panic_stop_db
<1>2. PrimOK'
  BY NewPrimOK DEF prim_panic_stop_db
<1>3. ConnOK'
  BY ClosePrimaryOK DEF Inv, prim_panic_stop_db
<1> QED
  BY <1>1, <1>2, <1>3 DEF Inv

\* A handshake is sent, or secondary_active makes the primary step back.
LEMMA primary_handshake_OK ==
  ASSUME Inv, primary_handshake
  PROVE  Inv'
<1>1. SecdOK' /\ DbOK'
  BY Frame DEF primary_handshake
<1>2. PrimOK'
  <2> DEFINE x == IF secact THEN [p EXCEPT !.st = "SECIDLE", !.dly = FALSE] ELSE p
  <2>1. x \in PrimType /\ x.at = "serving"
    BY DEF primary_handshake, InLoop, Inv, PrimOK, PrimType
  <2>2. issue_Drequest(x, "HandShake", "HandShake")
    BY DEF primary_handshake
  <2> HIDE DEF x
  <2> QED
    BY <2>1, <2>2, issue_Drequest_OK DEF Inv, Listening, ToSecd
<1>3. ConnOK'
  <2> DEFINE x == IF secact THEN [p EXCEPT !.st = "SECIDLE", !.dly = FALSE] ELSE p
  <2>1. issue_Drequest(x, "HandShake", "HandShake")
    BY DEF primary_handshake
  <2> HIDE DEF x
  <2> QED
    BY <2>1 DEF issue_Drequest, primary_handshake, Inv, ConnOK, ToSecd
<1>4. FileOK'
  BY DEF Inv, FileOK, primary_handshake
<1> QED
  BY <1>1, <1>2, <1>3, <1>4 DEF Inv

\* An answer of the secondary dispatches its task (process_Dreply).
LEMMA process_Dreply_OK ==
  ASSUME Inv, NEW c \in Conns, process_Dreply(c)
  PROVE  Inv'
<1>1. SecdOK' /\ FileOK' /\ DbOK'
  BY Frame DEF process_Dreply
<1>2. PrimOK'
  <2>1. p' = dispatch_task(p) /\ p.at = "serving" /\ p.pend # <<>> /\ p \in PrimType
    BY DEF process_Dreply, Arrived, Inv, PrimOK
  <2> QED
    BY <2>1, dispatch_task_OK DEF PrimOK, Listening
<1>3. ConnOK'
  BY ArrivedOK DEF process_Dreply, Inv, ConnOK
<1> QED
  BY <1>1, <1>2, <1>3 DEF Inv

\* The registered connection is at its end (close_secondary).
LEMMA close_secondary_OK ==
  ASSUME Inv, NEW c \in Conns, close_secondary(c)
  PROVE  Inv'
<1>1. SecdOK' /\ FileOK' /\ DbOK'
  BY Frame DEF close_secondary
<1>2. PrimOK'
  <2>1. p' \in {p, process_Dreply_eof(p)} /\ p.at = "serving" /\ p \in PrimType
    BY DEF close_secondary, Arrived, Inv, PrimOK
  <2> QED
    BY <2>1, process_Dreply_eof_OK DEF PrimOK, Listening
<1>3. ConnOK'
  BY ArrivedOK DEF close_secondary, Inv, ConnOK
<1> QED
  BY <1>1, <1>2, <1>3 DEF Inv

\* A connection that is not acknowledged is given up.
LEMMA connection_timeout_OK ==
  ASSUME Inv, connection_timeout
  PROVE  Inv'
<1>1. SecdOK' /\ FileOK' /\ DbOK'
  BY Frame DEF connection_timeout
<1>2. PrimOK'
  <2>1. p' = process_Dreply_eof(p) /\ p.at = "serving" /\ p \in PrimType
    BY DEF connection_timeout, Inv, PrimOK
  <2> QED
    BY <2>1, process_Dreply_eof_OK DEF PrimOK, Listening
<1>3. ConnOK'
  BY DEF connection_timeout, Inv, ConnOK
<1> QED
  BY <1>1, <1>2, <1>3 DEF Inv

\* A secondary registers, or is rejected (req_failover).
LEMMA req_failover_register_OK ==
  ASSUME Inv, NEW c \in Conns, req_failover_register(c)
  PROVE  Inv'
<1>1. PrimOK' /\ SecdOK' /\ FileOK' /\ DbOK'
  BY Frame DEF req_failover_register
<1>2. ConnOK'
  <2>1. toP' \in [Conns -> Seq(ToPrim)]
    BY ArrivedOK DEF req_failover_register, Inv
  <2>2. toS' \in Seq(ToSecd)
    BY DEF req_failover_register, Inv, ConnOK, ToSecd
  <2> QED
    BY <2>1, <2>2 DEF req_failover_register, Inv, ConnOK
<1> QED
  BY <1>1, <1>2 DEF Inv

\* The last job is done (main).
LEMMA shutdown_done_OK ==
  ASSUME Inv, shutdown_done
  PROVE  Inv'
<1>1. SecdOK' /\ ConnOK' /\ FileOK' /\ DbOK'
  BY Frame DEF shutdown_done
<1>2. PrimOK'
  BY DEF shutdown_done, Inv, PrimOK, PrimType, Listening
<1> QED
  BY <1>1, <1>2 DEF Inv

\* The primary leaves its main loop.
LEMMA prim_leave_loop_OK ==
  ASSUME Inv, prim_leave_loop
  PROVE  Inv'
<1>1. SecdOK' /\ ConnOK' /\ FileOK' /\ DbOK'
  BY Frame DEF prim_leave_loop
<1>2. PrimOK'
  BY DEF prim_leave_loop, Inv, PrimOK, PrimType, Listening
<1> QED
  BY <1>1, <1>2 DEF Inv

\* The primary stops its data service; a request to stop one may stay.
LEMMA prim_stop_db_OK ==
  ASSUME Inv, prim_stop_db
  PROVE  Inv'
<1>1. SecdOK' /\ ConnOK'
  BY Frame DEF prim_stop_db
<1>2. PrimOK'
  BY DEF prim_stop_db, Inv, PrimOK, PrimType, Listening
<1>3. FileOK'
  BY DEF Inv, FileOK, prim_stop_db
<1>4. DbOK'
  BY DEF Inv, DbOK, OwnDbSurvives, prim_stop_db
<1> QED
  BY <1>1, <1>2, <1>3, <1>4 DEF Inv

\* The primary exits or starts afresh.
LEMMA prim_exit_OK ==
  ASSUME Inv, prim_exit
  PROVE  Inv'
<1>1. SecdOK' /\ DbOK'
  BY Frame DEF prim_exit
<1>2. PrimOK'
  BY NewPrimOK DEF prim_exit
<1>3. ConnOK'
  BY ClosePrimaryOK DEF Inv, prim_exit
<1>4. FileOK'
  BY DEF Inv, FileOK, prim_exit
<1> QED
  BY <1>1, <1>2, <1>3, <1>4 DEF Inv

\* qterm, with or without a message to the secondary (svr_shutdown).
LEMMA svr_shutdown_OK ==
  ASSUME Inv, svr_shutdown
  PROVE  Inv'
<1>1. SecdOK' /\ DbOK'
  BY Frame DEF svr_shutdown
<1>2. PrimOK'
  <2>1. /\ p \in PrimType /\ p.at = "serving" /\ ConnOK
    BY DEF svr_shutdown, InLoop, Inv, PrimOK
  <2>2. PICK tell \in Tells, type \in Types :
          LET x == [p EXCEPT !.st = type, !.dly = FALSE]
          IN  \/ /\ tell # "none" /\ sc # None
                 /\ tell_secondary([x EXCEPT !.dly = TRUE], tell)
              \/ p' = x \/ p' = [x EXCEPT !.st = "DOWN"]
    BY DEF svr_shutdown
  <2> DEFINE x == [p EXCEPT !.st = type, !.dly = FALSE]
             y == [x EXCEPT !.dly = TRUE]
             z == [x EXCEPT !.st = "DOWN"]
  <2>3. type \in {"SHUT", "DOWN"} /\ tell \in {"none"} \cup ToSecd
    BY FailoverAssumption DEF ToSecd
  <2>4. x \in PrimType /\ x.at = "serving"
    BY <2>1, <2>3 DEF PrimType
  <2>5. y \in PrimType /\ y.at = "serving" /\ z \in PrimType /\ z.at = "serving"
    BY <2>1, <2>3 DEF PrimType
  <2>6. CASE p' \in {x, z}
    <3> HIDE DEF x, z
    <3> QED
      BY <2>4, <2>5, <2>6 DEF PrimOK, Listening
  <2>7. CASE tell # "none" /\ issue_Drequest(y, "Shut", tell)
    <3> HIDE DEF y
    <3> QED
      BY <2>1, <2>3, <2>5, <2>7, issue_Drequest_OK DEF Listening
  <2> QED
    BY <2>2, <2>6, <2>7 DEF tell_secondary
<1>3. ConnOK'
  <2>1. PICK tell \in Tells : (tell # "none" /\ toS' = Append(toS, tell)) \/ toS' = toS
    BY DEF svr_shutdown, tell_secondary, issue_Drequest
  <2>2. tell \in {"none"} \cup ToSecd
    BY FailoverAssumption DEF ToSecd
  <2> QED
    BY <2>1, <2>2 DEF svr_shutdown, Inv, ConnOK
<1>4. FileOK'
  <2>1. faults' \in 0..MaxFaults
    BY DisturbanceOK DEF svr_shutdown, Inv
  <2>2. idle' \in BOOLEAN
    BY DEF svr_shutdown
  <2> QED
    BY <2>1, <2>2 DEF svr_shutdown, Inv, FileOK
<1> QED
  BY <1>1, <1>2, <1>3, <1>4 DEF Inv

\* qterm -F (req_shutdown).
LEMMA req_shutdown_secdonly_OK ==
  ASSUME Inv, req_shutdown_secdonly
  PROVE  Inv'
<1>1. SecdOK' /\ DbOK'
  BY Frame DEF req_shutdown_secdonly
<1>2. PrimOK'
  <2>1. /\ p \in PrimType /\ p.at = "serving" /\ ConnOK /\ "SecdShutdown" \in ToSecd
    BY DEF req_shutdown_secdonly, InLoop, Inv, PrimOK, ToSecd
  <2>2. issue_Drequest(p, "Shut", "SecdShutdown") \/ p' = p
    BY DEF req_shutdown_secdonly, tell_secondary
  <2> QED
    BY <2>1, <2>2, issue_Drequest_OK DEF PrimOK, Listening
<1>3. ConnOK'
  <2>1. toS' = Append(toS, "SecdShutdown") \/ toS' = toS
    BY DEF req_shutdown_secdonly, tell_secondary, issue_Drequest
  <2>2. "SecdShutdown" \in ToSecd
    BY DEF ToSecd
  <2> QED
    BY <2>1, <2>2 DEF req_shutdown_secdonly, Inv, ConnOK
<1>4. FileOK'
  BY DisturbanceOK DEF req_shutdown_secdonly, Inv, FileOK
<1> QED
  BY <1>1, <1>2, <1>3, <1>4 DEF Inv

-----------------------------------------------------------------------------
(* The secondary while it is inactive.                                      *)

\* The secondary is started.
LEMMA start_secondary_OK ==
  ASSUME Inv, start_secondary
  PROVE  Inv'
<1>1. PrimOK' /\ ConnOK'
  BY Frame DEF start_secondary
<1>2. SecdOK'
  BY NewSecdOK DEF start_secondary
<1>3. FileOK'
  BY DisturbanceOK DEF start_secondary, Inv, FileOK
<1>4. DbOK'
  BY NewSecdOK DEF Inv, DbOK, OwnDbSurvives, start_secondary
<1> QED
  BY <1>1, <1>2, <1>3, <1>4 DEF Inv

\* be_secondary connects to the primary, or has waited too long.
LEMMA secd_connect_OK ==
  ASSUME Inv, secd_connect
  PROVE  Inv'
<1>1. PrimOK' /\ FileOK'
  BY Frame DEF secd_connect, NoPrimaryChange
<1>2. SecdOK'
  <2>1. CASE connect_primary
    BY <2>1, connect_primary_OK DEF secd_connect, Secondary
  <2>2. CASE ~connect_primary
    BY <2>2 DEF secd_connect, Secondary, Inv, SecdOK, SecdType, Listening
  <2> QED
    BY <2>1, <2>2
<1>3. ConnOK'
  <2>1. CASE connect_primary
    BY <2>1, connect_primary_OK DEF secd_connect, Secondary, NoPrimaryChange
  <2>2. CASE ~connect_primary
    BY <2>2, CloseSockOK DEF secd_connect, NoPrimaryChange, Inv
  <2> QED
    BY <2>1, <2>2
<1>4. DbOK'
  <2>1. CASE connect_primary
    BY <2>1, connect_primary_OK DEF secd_connect, Secondary, NoPrimaryChange, Inv, DbOK, OwnDbSurvives
  <2>2. CASE ~connect_primary
    BY <2>2 DEF secd_connect, Secondary, NoPrimaryChange, Inv, SecdOK, SecdType, DbOK, OwnDbSurvives
  <2> QED
    BY <2>1, <2>2
<1> QED
  BY <1>1, <1>2, <1>3, <1>4 DEF Inv

\* The time of takeov_on_nocontact has come.
LEMMA nocontact_time_OK ==
  ASSUME Inv, nocontact_time
  PROVE  Inv'
<1>1. PrimOK' /\ ConnOK' /\ FileOK'
  BY Frame DEF nocontact_time, NoPrimaryChange
<1>2. SecdOK'
  BY DEF nocontact_time, Secondary, Inv, SecdOK, SecdType, Listening
<1>3. DbOK'
  BY DEF nocontact_time, Secondary, NoPrimaryChange, Inv, SecdOK, SecdType, DbOK, OwnDbSurvives
<1> QED
  BY <1>1, <1>2, <1>3 DEF Inv

\* be_secondary sends FAILOVER_Register.
LEMMA secd_register_OK ==
  ASSUME Inv, secd_register
  PROVE  Inv'
<1>1. PrimOK' /\ FileOK'
  BY Frame DEF secd_register, NoPrimaryChange
<1>2. SecdOK'
  BY DEF secd_register, Secondary, Inv, SecdOK, SecdType, Listening
<1>3. ConnOK'
  <2>1. CASE CloseSock
    BY <2>1, CloseSockOK DEF secd_register, NoPrimaryChange, Inv
  <2>2. CASE ~CloseSock
    <3>1. toP' = Write(<<"Register">>) /\ UNCHANGED <<sock, pc, sc>>
      BY <2>2 DEF secd_register, NoPrimaryChange
    <3>2. toS' \in {toS, <<"RST">>}
      BY <2>2 DEF secd_register
    <3> QED
      BY <3>1, <3>2, WriteOK, Said DEF Inv, ConnOK
  <2> QED
    BY <2>1, <2>2
<1>4. DbOK'
  BY DEF secd_register, Secondary, NoPrimaryChange, Inv, SecdOK, SecdType, DbOK, OwnDbSurvives
<1> QED
  BY <1>1, <1>2, <1>3, <1>4 DEF Inv

\* The answer to FAILOVER_Register (read_reg_reply).
LEMMA read_reg_reply_OK ==
  ASSUME Inv, read_reg_reply
  PROVE  Inv'
<1>1. PrimOK' /\ FileOK'
  BY Frame DEF read_reg_reply, NoPrimaryChange
<1>2. SecdOK'
  <2>1. CASE s' = NewSecd("off")
    BY <2>1, NewSecdOK
  <2>2. CASE s' # NewSecd("off")
    BY <2>2 DEF read_reg_reply, Got, Inv, SecdOK, SecdType, Listening
  <2> QED
    BY <2>1, <2>2
<1>3. ConnOK'
  <2>1. CASE CloseSock
    BY <2>1, CloseSockOK DEF read_reg_reply, NoPrimaryChange, Inv
  <2>2. CASE ~CloseSock
    <3>1. toS # <<>> /\ toS' = Tail(toS) /\ UNCHANGED <<sock, toP, pc, sc>>
      BY <2>2 DEF read_reg_reply, NoPrimaryChange, Got
    <3> QED
      BY <3>1 DEF Inv, ConnOK
  <2> QED
    BY <2>1, <2>2
<1>4. DbOK'
  <2>1. CASE s' = NewSecd("off")
    BY <2>1, NewSecdOK DEF read_reg_reply, NoPrimaryChange, Inv, DbOK, OwnDbSurvives
  <2>2. CASE s' # NewSecd("off")
    BY <2>2 DEF read_reg_reply, Got, NoPrimaryChange, Inv, SecdOK, SecdType, DbOK, OwnDbSurvives
  <2> QED
    BY <2>1, <2>2
<1> QED
  BY <1>1, <1>2, <1>3, <1>4 DEF Inv

\* FAILOVER_HandShake at the secondary.
LEMMA req_failover_handshake_OK ==
  ASSUME Inv, req_failover_handshake
  PROVE  Inv'
<1>1. PrimOK' /\ FileOK'
  BY Frame DEF req_failover_handshake, NoPrimaryChange
<1>2. SecdOK'
  BY DEF req_failover_handshake, Secondary, Inv, SecdOK, SecdType, Listening, Got
<1>3. ConnOK'
  BY AcknowledgeOK DEF req_failover_handshake, Got, NoPrimaryChange, Inv
<1>4. DbOK'
  BY DEF req_failover_handshake, Secondary, NoPrimaryChange, Inv, SecdOK, SecdType, DbOK, OwnDbSurvives, Got
<1> QED
  BY <1>1, <1>2, <1>3, <1>4 DEF Inv

\* FAILOVER_SecdGoInactive at the secondary.
LEMMA req_failover_goinactive_OK ==
  ASSUME Inv, req_failover_goinactive
  PROVE  Inv'
<1>1. PrimOK' /\ FileOK'
  BY Frame DEF req_failover_goinactive, NoPrimaryChange
<1>2. SecdOK'
  BY DEF req_failover_goinactive, Secondary, Inv, SecdOK, SecdType, Listening, Got
<1>3. ConnOK'
  BY AcknowledgeOK DEF req_failover_goinactive, Got, NoPrimaryChange, Inv
<1>4. DbOK'
  BY DEF req_failover_goinactive, Secondary, NoPrimaryChange, Inv, SecdOK, SecdType, DbOK, OwnDbSurvives, Got
<1> QED
  BY <1>1, <1>2, <1>3, <1>4 DEF Inv

\* FAILOVER_SecdShutdown at the secondary.
LEMMA req_failover_shutdown_OK ==
  ASSUME Inv, req_failover_shutdown
  PROVE  Inv'
<1>1. PrimOK' /\ FileOK'
  BY Frame DEF req_failover_shutdown, NoPrimaryChange
<1>2. SecdOK'
  BY NewSecdOK DEF req_failover_shutdown
<1>3. ConnOK'
  BY WriteOK, Said DEF req_failover_shutdown, NoPrimaryChange, Inv, ConnOK
<1>4. DbOK'
  BY NewSecdOK DEF req_failover_shutdown, NoPrimaryChange, Inv, DbOK, OwnDbSurvives
<1> QED
  BY <1>1, <1>2, <1>3, <1>4 DEF Inv

\* The connection to the primary is closed or reset.
LEMMA read_fo_request_OK ==
  ASSUME Inv, read_fo_request
  PROVE  Inv'
<1>1. PrimOK' /\ FileOK'
  BY Frame DEF read_fo_request, NoPrimaryChange
<1>2. SecdOK'
  BY DEF read_fo_request, Secondary, Inv, SecdOK, SecdType, Listening, Got
<1>3. ConnOK'
  BY CloseSockOK DEF read_fo_request, NoPrimaryChange, Inv
<1>4. DbOK'
  BY DEF read_fo_request, Secondary, NoPrimaryChange, Inv, SecdOK, SecdType, DbOK, OwnDbSurvives, Got
<1> QED
  BY <1>1, <1>2, <1>3, <1>4 DEF Inv

\* The secondary was told to stay idle.
LEMMA secd_inact_OK ==
  ASSUME Inv, secd_inact
  PROVE  Inv'
<1>1. PrimOK' /\ FileOK'
  BY Frame DEF secd_inact, NoPrimaryChange
<1>2. SecdOK'
  BY DEF secd_inact, Secondary, Inv, SecdOK, SecdType, Listening
<1>3. ConnOK'
  <2>1. /\ sock' = None /\ toS' = <<>> /\ UNCHANGED <<pc, sc>>
        /\ toP' = Write(<<"Ack", "EOF">>) \/ toP' = Write(<<"EOF">>)
    BY DEF secd_inact, NoPrimaryChange
  <2> QED
    BY <2>1, WriteOK, Said DEF Inv, ConnOK
<1>4. DbOK'
  BY DEF secd_inact, Secondary, NoPrimaryChange, Inv, SecdOK, SecdType, DbOK, OwnDbSurvives
<1> QED
  BY <1>1, <1>2, <1>3, <1>4 DEF Inv

\* No handshake for a while.
LEMMA handshake_missed_OK ==
  ASSUME Inv, handshake_missed
  PROVE  Inv'
<1>1. PrimOK' /\ ConnOK' /\ FileOK'
  BY Frame DEF handshake_missed, NoPrimaryChange
<1>2. SecdOK'
  BY DEF handshake_missed, Secondary, Inv, SecdOK, SecdType, Listening
<1>3. DbOK'
  BY DEF handshake_missed, Secondary, NoPrimaryChange, Inv, SecdOK, SecdType, DbOK, OwnDbSurvives
<1> QED
  BY <1>1, <1>2, <1>3 DEF Inv

\* be_secondary looks at svrlive.
LEMMA secd_nohsk_OK ==
  ASSUME Inv, secd_nohsk
  PROVE  Inv'
<1>1. PrimOK' /\ ConnOK' /\ FileOK'
  BY Frame DEF secd_nohsk, NoPrimaryChange
<1>2. SecdOK'
  BY DEF secd_nohsk, Secondary, Inv, SecdOK, SecdType, Listening
<1>3. DbOK'
  BY DEF secd_nohsk, Secondary, NoPrimaryChange, Inv, SecdOK, SecdType, DbOK, OwnDbSurvives
<1> QED
  BY <1>1, <1>2, <1>3 DEF Inv

\* be_secondary tries the primary a last time.
LEMMA secd_takeov_OK ==
  ASSUME Inv, secd_takeov
  PROVE  Inv'
<1>1. PrimOK' /\ FileOK'
  BY Frame DEF secd_takeov, NoPrimaryChange
<1>2. SecdOK'
  <2>1. CASE connect_primary
    BY <2>1, connect_primary_OK DEF secd_takeov, Secondary
  <2>2. CASE ~connect_primary
    BY <2>2 DEF secd_takeov, Secondary, Inv, SecdOK, SecdType, Listening
  <2> QED
    BY <2>1, <2>2
<1>3. ConnOK'
  <2>1. CASE connect_primary
    BY <2>1, connect_primary_OK DEF secd_takeov, Secondary, NoPrimaryChange
  <2>2. CASE ~connect_primary
    BY <2>2, CloseSockOK DEF secd_takeov, NoPrimaryChange, Inv
  <2> QED
    BY <2>1, <2>2
<1>4. DbOK'
  <2>1. CASE connect_primary
    BY <2>1, connect_primary_OK DEF secd_takeov, Secondary, NoPrimaryChange, Inv, DbOK, OwnDbSurvives
  <2>2. CASE ~connect_primary
    BY <2>2 DEF secd_takeov, Secondary, NoPrimaryChange, Inv, SecdOK, SecdType, DbOK, OwnDbSurvives
  <2> QED
    BY <2>1, <2>2
<1> QED
  BY <1>1, <1>2, <1>3, <1>4 DEF Inv

\* The secondary takes over, with the primary stonithed or not.
LEMMA secd_go_active_OK ==
  ASSUME Inv, secd_go_active
  PROVE  Inv'
<1>1. PrimOK'
  <2>1. p' = p \/ p' = NewPrim("off")
    BY DEF secd_go_active
  <2> QED
    BY <2>1, NewPrimOK, Frame
<1>2. SecdOK'
  BY DEF secd_go_active, Secondary, Inv, SecdOK, SecdType, Listening
<1>3. ConnOK'
  <2>1. CASE UNCHANGED <<sc, pc, toP>>
    BY <2>1, Frame DEF secd_go_active
  <2>2. CASE PrimaryGone
    BY <2>2, ClosePrimaryOK DEF secd_go_active, Inv
  <2> QED
    BY <2>1, <2>2 DEF secd_go_active
<1>4. FileOK'
  BY DEF Inv, FileOK, secd_go_active
<1>5. DbOK'
  BY DEF Inv, DbOK, OwnDbSurvives, secd_go_active, Secondary, SecdOK, SecdType
<1> QED
  BY <1>1, <1>2, <1>3, <1>4, <1>5 DEF Inv

-----------------------------------------------------------------------------
(* The secondary while it is active, and the files.                         *)

\* The active secondary looks for the data service.
LEMMA secd_connect_db_OK ==
  ASSUME Inv, secd_connect_db
  PROVE  Inv'
<1>1. PrimOK' /\ ConnOK'
  BY Frame DEF secd_connect_db
<1>2. SecdOK'
  BY DEF secd_connect_db, Inv, SecdOK, SecdType, Listening
<1>3. FileOK'
  BY DEF Inv, FileOK, secd_connect_db, connect_db
<1>4. DbOK'
  BY DEF Inv, DbOK, OwnDbSurvives, secd_connect_db, connect_db, SecdOK, SecdType, FileOK
<1> QED
  BY <1>1, <1>2, <1>3, <1>4 DEF Inv

\* The active secondary enters its main loop.
LEMMA secd_init_OK ==
  ASSUME Inv, secd_init
  PROVE  Inv'
<1>1. PrimOK' /\ ConnOK' /\ FileOK'
  BY Frame DEF secd_init
<1>2. SecdOK'
  BY DEF secd_init, Inv, SecdOK, SecdType, Listening
<1>3. DbOK'
  BY DEF Inv, DbOK, OwnDbSurvives, secd_init, SecdOK, SecdType
<1> QED
  BY <1>1, <1>2, <1>3 DEF Inv

\* The secondary has lost its data service (panic_stop_db).
LEMMA secd_panic_stop_db_OK ==
  ASSUME Inv, secd_panic_stop_db
  PROVE  Inv'
<1>1. PrimOK' /\ ConnOK'
  BY Frame DEF secd_panic_stop_db
<1>2. SecdOK'
  BY NewSecdOK DEF secd_panic_stop_db
<1>3. FileOK'
  BY DEF Inv, FileOK, secd_panic_stop_db
<1>4. DbOK'
  BY NewSecdOK DEF Inv, DbOK, OwnDbSurvives, secd_panic_stop_db
<1> QED
  BY <1>1, <1>2, <1>3, <1>4 DEF Inv

\* FAILOVER_PrimIsBack is kept, not answered (req_failover).
LEMMA req_failover_primisback_OK ==
  ASSUME Inv, req_failover_primisback
  PROVE  Inv'
<1>1. PrimOK' /\ ConnOK'
  BY Frame DEF req_failover_primisback
<1>2. SecdOK'
  BY DEF req_failover_primisback, Inv, SecdOK, SecdType, Listening
<1>3. FileOK'
  BY DEF Inv, FileOK, req_failover_primisback
<1>4. DbOK'
  BY DEF Inv, DbOK, OwnDbSurvives, req_failover_primisback, SecdOK, SecdType
<1> QED
  BY <1>1, <1>2, <1>3, <1>4 DEF Inv

\* The secondary finds that it has to step back.
LEMMA secd_leave_loop_OK ==
  ASSUME Inv, secd_leave_loop
  PROVE  Inv'
<1>1. PrimOK' /\ ConnOK' /\ FileOK'
  BY Frame DEF secd_leave_loop
<1>2. SecdOK'
  BY DEF secd_leave_loop, Inv, SecdOK, SecdType, Listening
<1>3. DbOK'
  BY DEF Inv, DbOK, OwnDbSurvives, secd_leave_loop, SecdOK, SecdType
<1> QED
  BY <1>1, <1>2, <1>3 DEF Inv

\* The data service of the secondary is stopped before it leaves.
LEMMA secd_stop_db_OK ==
  ASSUME Inv, secd_stop_db
  PROVE  Inv'
<1>1. PrimOK' /\ ConnOK'
  BY Frame DEF secd_stop_db
<1>2. SecdOK'
  BY DEF secd_stop_db, Inv, SecdOK, SecdType, Listening
<1>3. FileOK'
  BY DEF Inv, FileOK, secd_stop_db
<1>4. DbOK'
  BY DEF Inv, DbOK, OwnDbSurvives, secd_stop_db, SecdOK, SecdType
<1> QED
  BY <1>1, <1>2, <1>3, <1>4 DEF Inv

\* The waiting primary is answered, with no data service left running.
LEMMA secd_exit_OK ==
  ASSUME Inv, secd_exit
  PROVE  Inv'
<1>1. PrimOK' /\ ConnOK'
  BY Frame DEF secd_exit
<1>2. SecdOK'
  BY NewSecdOK DEF secd_exit
<1>3. FileOK'
  BY DEF Inv, FileOK, secd_exit
<1>4. DbOK'
  BY NewSecdOK DEF Inv, DbOK, OwnDbSurvives, secd_exit
<1> QED
  BY <1>1, <1>2, <1>3, <1>4 DEF Inv

\* qterm of an active secondary.
LEMMA secd_shutdown_OK ==
  ASSUME Inv, secd_shutdown
  PROVE  Inv'
<1>1. PrimOK' /\ ConnOK'
  BY Frame DEF secd_shutdown
<1>2. SecdOK'
  BY DEF secd_shutdown, Inv, SecdOK, SecdType, Listening
<1>3. FileOK'
  BY DisturbanceOK DEF secd_shutdown, Inv, FileOK
<1>4. DbOK'
  BY DEF Inv, DbOK, OwnDbSurvives, secd_shutdown, SecdOK, SecdType
<1> QED
  BY <1>1, <1>2, <1>3, <1>4 DEF Inv

\* The monitor of the data service stops it and removes the request.
LEMMA check_and_stop_db_OK ==
  ASSUME Inv, check_and_stop_db
  PROVE  Inv'
<1>1. PrimOK' /\ SecdOK' /\ ConnOK'
  BY Frame DEF check_and_stop_db
<1>2. FileOK'
  BY DEF Inv, FileOK, check_and_stop_db
<1>3. DbOK'
  BY DEF Inv, DbOK, OwnDbSurvives, check_and_stop_db
<1> QED
  BY <1>1, <1>2, <1>3 DEF Inv

\* A live server touches svrlive.
LEMMA update_svrlive_OK ==
  ASSUME Inv, update_svrlive
  PROVE  Inv'
<1>1. PrimOK' /\ SecdOK' /\ ConnOK' /\ DbOK'
  BY Frame DEF update_svrlive
<1>2. FileOK'
  BY DEF Inv, FileOK, update_svrlive
<1> QED
  BY <1>1, <1>2 DEF Inv

\* svrlive has not changed for secondary_delay.
LEMMA secondary_delay_OK ==
  ASSUME Inv, secondary_delay
  PROVE  Inv'
<1>1. PrimOK' /\ SecdOK' /\ ConnOK' /\ DbOK'
  BY Frame DEF secondary_delay
<1>2. FileOK'
  BY DEF Inv, FileOK, secondary_delay
<1> QED
  BY <1>1, <1>2 DEF Inv

-----------------------------------------------------------------------------
(* Faults.                                                                  *)

\* The primary is killed.
LEMMA prim_killed_OK ==
  ASSUME Inv, prim_killed
  PROVE  Inv'
<1>1. SecdOK' /\ DbOK'
  BY Frame DEF prim_killed
<1>2. PrimOK'
  BY NewPrimOK DEF prim_killed
<1>3. ConnOK'
  BY ClosePrimaryOK DEF prim_killed, Inv
<1>4. FileOK'
  BY DisturbanceOK DEF Fault, Inv, FileOK, prim_killed
<1> QED
  BY <1>1, <1>2, <1>3, <1>4 DEF Inv

\* The host of the primary crashes, its data service with it.
LEMMA prim_crashes_OK ==
  ASSUME Inv, prim_crashes
  PROVE  Inv'
<1>1. SecdOK'
  BY Frame DEF prim_crashes
<1>2. PrimOK'
  BY NewPrimOK DEF prim_crashes
<1>3. ConnOK'
  BY ClosePrimaryOK DEF prim_crashes, Inv
<1>4. FileOK'
  BY DisturbanceOK DEF Fault, Inv, FileOK, prim_crashes
<1>5. DbOK'
  BY DEF Inv, DbOK, OwnDbSurvives, prim_crashes
<1> QED
  BY <1>1, <1>2, <1>3, <1>4, <1>5 DEF Inv

\* The secondary is killed.
LEMMA secd_killed_OK ==
  ASSUME Inv, secd_killed
  PROVE  Inv'
<1>1. PrimOK'
  BY Frame DEF secd_killed
<1>2. SecdOK'
  BY NewSecdOK DEF secd_killed
<1>3. ConnOK'
  BY CloseSockOK DEF secd_killed, Inv
<1>4. FileOK'
  BY DisturbanceOK DEF Fault, Inv, FileOK, secd_killed
<1>5. DbOK'
  BY NewSecdOK DEF Inv, DbOK, OwnDbSurvives, secd_killed
<1> QED
  BY <1>1, <1>2, <1>3, <1>4, <1>5 DEF Inv

\* The host of the secondary crashes, its data service with it.
LEMMA secd_crashes_OK ==
  ASSUME Inv, secd_crashes
  PROVE  Inv'
<1>1. PrimOK'
  BY Frame DEF secd_crashes
<1>2. SecdOK'
  BY NewSecdOK DEF secd_crashes
<1>3. ConnOK'
  BY Said DEF secd_crashes, Inv, ConnOK
<1>4. FileOK'
  BY DisturbanceOK DEF Fault, Inv, FileOK, secd_crashes
<1>5. DbOK'
  BY NewSecdOK DEF Inv, DbOK, OwnDbSurvives, secd_crashes
<1> QED
  BY <1>1, <1>2, <1>3, <1>4, <1>5 DEF Inv

\* The network is cut.
LEMMA partition_OK ==
  ASSUME Inv, partition
  PROVE  Inv'
<1>1. PrimOK' /\ SecdOK' /\ ConnOK' /\ DbOK'
  BY Frame DEF partition
<1>2. FileOK'
  <2>1. faults' \in 0..MaxFaults
    BY DisturbanceOK DEF partition, Fault, Inv
  <2>2. net' = FALSE /\ UNCHANGED <<back, secact, quiet, db, dbclose, idle>>
    BY DEF partition
  <2> QED
    BY <2>1, <2>2 DEF Inv, FileOK
<1> QED
  BY <1>1, <1>2 DEF Inv

\* The network is mended.
LEMMA heal_OK ==
  ASSUME Inv, heal
  PROVE  Inv'
<1>1. PrimOK' /\ SecdOK' /\ ConnOK' /\ DbOK'
  BY Frame DEF heal
<1>2. FileOK'
  BY DEF Inv, FileOK, heal
<1> QED
  BY <1>1, <1>2 DEF Inv

\* A server does not get to run.
LEMMA stall_OK ==
  ASSUME Inv, stall
  PROVE  Inv'
<1>1. PrimOK' /\ SecdOK' /\ ConnOK' /\ DbOK'
  BY Frame DEF stall
<1>2. FileOK'
  BY DisturbanceOK DEF Fault, Inv, FileOK, stall
<1> QED
  BY <1>1, <1>2 DEF Inv

-----------------------------------------------------------------------------
\* Initially both servers are off and nothing runs.
LEMMA InitOK == Init => Inv
<1> SUFFICES ASSUME Init PROVE Inv
  OBVIOUS
<1>1. PrimOK
  BY NewPrimOK DEF Init, PrimOK
<1>2. SecdOK /\ s.at = "off"
  BY DEF Init, SecdOK, NewSecd, SecdType
<1>3. ConnOK
  BY Said DEF Init, ConnOK
<1>4. FileOK
  <2>1. /\ back = "none" /\ db = "none" /\ dbclose = "none" /\ faults \in 0..MaxFaults
    BY FailoverAssumption DEF Init
  <2>2. secact = FALSE /\ quiet = TRUE /\ net = TRUE /\ idle = FALSE
    BY Zenon DEF Init
  <2>3. {secact, quiet, net, idle} \subseteq BOOLEAN
    BY <2>2, Zenon
  <2> QED
    BY <2>1, <2>3 DEF FileOK
<1>5. DbOK
  BY <1>2 DEF Init, DbOK, OwnDbSurvives
<1> QED
  BY <1>1, <1>2, <1>3, <1>4, <1>5 DEF Inv

\* Every step of Next, of a server, a file or a fault, keeps the invariant.
LEMMA NextOK ==
  ASSUME Inv, [Next]_vars
  PROVE  Inv'
<1>1. CASE Primary
  BY <1>1, takeover_from_secondary_OK, takeover_reply_OK, secondary_is_gone_OK,
     prim_connect_db_OK, prim_init_OK, prim_panic_stop_db_OK, primary_handshake_OK,
     connection_timeout_OK, process_Dreply_OK, close_secondary_OK,
     req_failover_register_OK, shutdown_done_OK, prim_leave_loop_OK, prim_stop_db_OK,
     prim_exit_OK DEF Primary
<1>2. CASE Inactive
  BY <1>2, secd_connect_OK, nocontact_time_OK, secd_register_OK, read_reg_reply_OK,
     req_failover_handshake_OK, req_failover_goinactive_OK, req_failover_shutdown_OK,
     read_fo_request_OK, secd_inact_OK, handshake_missed_OK, secd_nohsk_OK,
     secd_takeov_OK, secd_go_active_OK DEF Inactive
<1>3. CASE Active
  BY <1>3, secd_connect_db_OK, secd_init_OK, secd_panic_stop_db_OK,
     req_failover_primisback_OK, secd_leave_loop_OK, secd_stop_db_OK, secd_exit_OK DEF
     Active
<1>4. CASE Files
  BY <1>4, check_and_stop_db_OK, update_svrlive_OK, secondary_delay_OK DEF Files
<1>5. CASE Operator
  BY <1>5, start_primary_OK, start_secondary_OK, svr_shutdown_OK,
     req_shutdown_secdonly_OK, secd_shutdown_OK DEF Operator
<1>6. CASE FaultStep
  BY <1>6, prim_killed_OK, prim_crashes_OK, secd_killed_OK, secd_crashes_OK,
     partition_OK, heal_OK, stall_OK DEF FaultStep
<1>7. CASE UNCHANGED vars
  BY <1>7, Frame DEF vars, Inv
<1> QED
  BY <1>1, <1>2, <1>3, <1>4, <1>5, <1>6, <1>7 DEF Next

\* The inductive invariant holds however the servers are started, stopped, killed and cut
\* off from each other (main, be_secondary, req_failover and the data service's monitor).
THEOREM InvAlways == Spec => []Inv
<1>1. Init => Inv
  BY InitOK
<1>2. Inv /\ [Next]_vars => Inv'
  BY NextOK
<1> QED
  BY <1>1, <1>2, PTL DEF Spec

\* The records and messages of both servers stay of their types, and a server that is
\* not yet in its main loop has a fresh record (main starts afresh by execv).
THEOREM TypeCorrect == Spec => []TypeOK
<1>1. Inv => TypeOK
  BY TypeParts DEF Inv
<1> QED
  BY <1>1, InvAlways, PTL

\* A request in pbs_dbclose never names the host whose data service runs: a server is not
\* hit by the request it has left itself (touch_db_stop_file, clear_stop_db_file).
THEOREM RequestNeverHitsOwn == Spec => []OwnDbSurvives
<1>1. Inv => OwnDbSurvives
  BY DEF Inv, DbOK
<1> QED
  BY <1>1, InvAlways, PTL

\* FAILOVER_PrimIsBack is answered by a secondary whose data is saved, whose data service
\* is stopped and that is no longer marked active (req_failover, the end of main).
THEOREM AnsweredWhenSaved == Spec => HandoverSaved
<1>1. ASSUME Inv, [Next]_vars
      PROVE  [back' = "acked" /\ back # "acked" => db # "S" /\ ~secact']_vars
  <2> SUFFICES ASSUME Next, back' = "acked", back # "acked"
               PROVE  db # "S" /\ ~secact'
    BY <1>1
  <2>1. ~Primary /\ ~Inactive /\ ~Files /\ ~Operator /\ ~FaultStep
    BY DEF Primary, takeover_from_secondary, takeover_reply, secondary_is_gone,
     prim_connect_db, prim_init, prim_panic_stop_db, primary_handshake,
     connection_timeout, process_Dreply, close_secondary, req_failover_register,
     shutdown_done, prim_leave_loop, prim_stop_db, prim_exit, Inactive, NoPrimaryChange,
     secd_connect, nocontact_time, secd_register, read_reg_reply,
     req_failover_handshake, req_failover_goinactive, req_failover_shutdown,
     read_fo_request, secd_inact, handshake_missed, secd_nohsk, secd_takeov,
     secd_go_active, Files, check_and_stop_db, update_svrlive, secondary_delay,
     Operator, start_primary, start_secondary, svr_shutdown, req_shutdown_secdonly,
     secd_shutdown, FaultStep, prim_killed, prim_crashes, secd_killed, secd_crashes,
     partition, heal, stall
  <2>2. Active
    BY <2>1 DEF Next
  <2>3. secd_exit
    BY <2>2 DEF Active, secd_connect_db, secd_init, secd_panic_stop_db,
       req_failover_primisback, secd_leave_loop, secd_stop_db
  <2> QED
    BY <1>1, <2>3 DEF secd_exit, Inv, DbOK
<1> QED
  BY <1>1, InvAlways, PTL DEF Spec, HandoverSaved
=============================================================================
