------------------------------ MODULE Failover ------------------------------
(***************************************************************************)
(* The primary and the secondary server of a failover pair.                *)
(*                                                                         *)
(* Both run on hosts that share PBS_HOME: the file svrlive, whose time a   *)
(* live server keeps touching, the file secondary_active, which says that  *)
(* the secondary has taken over, and the data service, which a lock allows *)
(* to run on one host at a time.  An inactive secondary registers with the *)
(* primary over TCP and is sent a handshake every few seconds; when they   *)
(* stop and svrlive stands still, or when it cannot reach the primary, it  *)
(* takes over.  A primary that starts tells an active secondary to step    *)
(* back and waits until it has saved its data.                             *)
(*                                                                         *)
(* Time is abstract: quiet says that svrlive has not changed for longer    *)
(* than secondary_delay, which cannot come about while a server that keeps *)
(* touching it is running (unless it stalls, a fault).                     *)
(***************************************************************************)
EXTENDS Naturals, Sequences

CONSTANTS Faults,      \* the kinds of faults that may happen
          MaxFaults,   \* bound: how many faults, starts and stops happen
          Tells,       \* what a server that is stopped tells the secondary (qterm)
          Types,       \* whether it waits for its jobs ("SHUT") or not ("DOWN")
          MaxPend      \* bound: handshakes sent while fewer than this many
                       \* requests to the secondary are unanswered

ASSUME FailoverAssumption ==
          /\ Faults \subseteq {"kill", "crash", "partition", "stall"}
          /\ MaxFaults \in Nat /\ MaxPend \in Nat \ {0}
          /\ Tells \subseteq {"none", "SecdShutdown", "SecdGoInactive"}
          /\ Types \subseteq {"SHUT", "DOWN"}

VARIABLES p,        \* the primary server
          s,        \* the secondary server
          sock,     \* sec_sock: the secondary's end of its connection to the primary
          sc,       \* Secondary_connection: the registered connection at the primary
          pc,       \* the connections the primary's host knows of
          toP,      \* what the primary has still to read, by connection
          toS,      \* what the secondary has still to read from sock
          back,     \* how far FAILOVER_PrimIsBack has come on a connection of its own
          secact,   \* the file secondary_active exists
          quiet,    \* svrlive has not changed for longer than secondary_delay
          db,       \* the host whose data service runs and holds the lock
          dbclose,  \* the file pbs_dbclose: who asks for the data service to stop
          net,      \* the hosts can reach each other over TCP
          faults,   \* how many faults, starts and stops have happened
          idle      \* the primary went down by qterm -i and has not started since

vars == <<p, s, sock, sc, pc, toP, toS, back, secact, quiet, db, dbclose, net, faults, idle>>

-----------------------------------------------------------------------------
Conns == {1, 2}

None == 0

\* Where a server's main program is; its state attribute; SV_STATE_PRIMDLY; the
\* requests to the secondary on task_list_event, in order; and whether tasks of a
\* connection that is gone were left on that list
PrimType ==
  [at : {"off", "taking", "asking", "db", "init", "serving", "saving", "leaving"},
   st : {"RUN", "SHUT", "DOWN", "SECIDLE"}, dly : BOOLEAN,
   pend : Seq({"HandShake", "Shut"}), left : BOOLEAN]

\* The same; Secondary_state; and time_now > takeov_on_nocontact
SecdType ==
  [at : {"off", "inactive", "db", "init", "serving", "saving", "leaving"},
   st : {"RUN", "DOWN", "SECIDLE"}, late : BOOLEAN,
   fo : {"noconn", "conn", "regsent", "handsk", "nohsk", "takeov", "goactive", "inact", "idle"}]

NewPrim(at) == [at |-> at, st |-> "RUN", dly |-> FALSE, pend |-> <<>>, left |-> FALSE]

NewSecd(at) == [at |-> at, st |-> "RUN", late |-> FALSE, fo |-> "noconn"]

Init ==
  /\ p = NewPrim("off") /\ s = NewSecd("off")
  /\ sock = None /\ sc = None /\ pc = {} /\ toP = [c \in Conns |-> <<>>] /\ toS = <<>>
  /\ back = "none" /\ secact = FALSE /\ quiet = TRUE
  /\ db = "none" /\ dbclose = "none" /\ net = TRUE /\ faults = 0 /\ idle = FALSE

Disturbance == faults < MaxFaults /\ faults' = faults + 1

Fault(kind) == kind \in Faults /\ Disturbance

Secondary(state) == s.at = "inactive" /\ s.fo = state

Listening == {"serving", "saving", "leaving"}    \* init_network to net_close

Touching == {"db", "init", "serving"}

Alive == p.at \in Touching \/ s.at \in Touching  \* somebody keeps touching svrlive

\* The primary's process is gone.  The secondary reads an end of file, or is reset
\* when the primary has left something unread.
PrimaryGone == sc' = None /\ pc' = {} /\ toP' = [c \in Conns |-> <<>>]

ClosePrimary ==
  /\ PrimaryGone
  /\ toS' = IF sock \notin pc THEN toS
            ELSE Append(toS, IF toP[sock] = <<>> THEN "EOF" ELSE "RST")

\* What the secondary writes; a primary that does not know the connection resets it.
Write(msgs) ==
  IF sock \in pc THEN [toP EXCEPT ![sock] = @ \o msgs] ELSE toP

\* close_conn(sec_sock)
CloseSock == sock' = None /\ toS' = <<>> /\ toP' = Write(<<"EOF">>)

-----------------------------------------------------------------------------
(* The primary starts: it takes control back from an active secondary.        *)

start_primary ==
  /\ p.at = "off" /\ Disturbance
  /\ p' = NewPrim("taking") /\ idle' = FALSE /\ back' = "none"
  /\ UNCHANGED <<s, sock, sc, pc, toP, toS, secact, quiet, db, dbclose, net>>

\* takeover_from_secondary connects and sends FAILOVER_PrimIsBack ...
takeover_from_secondary ==
  /\ p.at = "taking" /\ net /\ s.at \in Listening
  /\ p' = [p EXCEPT !.at = "asking"] /\ back' = "sent"
  /\ UNCHANGED <<s, sock, sc, pc, toP, toS, secact, quiet, db, dbclose, net, faults, idle>>

\* Mutant: the file is left in place
prim_goes_active_keeps_file ==
  /\ p' = [p EXCEPT !.at = "db"] /\ secact' = secact /\ quiet' = FALSE

\* what the primary does before it looks for the data service
prim_goes_active == /\ p' = [p EXCEPT !.at = "db"] /\ secact' = FALSE /\ quiet' = FALSE

\* Mutant: no limit on the wait for the answer
takeover_reply_waits ==
  /\ p.at = "asking" /\ net
  /\ \/ back = "acked" /\ prim_goes_active
     \/ back = "eof" /\ p' = NewPrim("off") /\ UNCHANGED <<secact, quiet>>
  /\ back' = "none"
  /\ UNCHANGED <<s, sock, sc, pc, toP, toS, db, dbclose, net, faults, idle>>

\* ... and its answer lets the primary go on; without one it gives up
takeover_reply ==
  /\ p.at = "asking"
  /\ \/ /\ net /\ back = "acked"
        /\ p' = [p EXCEPT !.at = "db"] /\ secact' = FALSE
     \/ /\ net /\ back = "eof"
        /\ p' = NewPrim("off") /\ UNCHANGED secact
     \/ /\ back = "lost" \/ (~net /\ back # "none")           \* after 600 seconds
        /\ p' = NewPrim("off") /\ UNCHANGED secact
  /\ back' = "none"
  /\ UNCHANGED <<s, sock, sc, pc, toP, toS, quiet, db, dbclose, net, faults, idle>>

\* A secondary that cannot be reached is taken for gone when it is not marked
\* active, or when svrlive has not changed for secondary_delay.
secondary_is_gone ==
  /\ p.at = "taking" /\ ~(net /\ s.at \in Listening)
  /\ ~secact \/ quiet
  /\ prim_goes_active
  /\ UNCHANGED <<s, sock, sc, pc, toP, toS, back, db, dbclose, net, faults, idle>>

-----------------------------------------------------------------------------
(* Both servers: the data service, initialisation, and svrlive.  h is the host  *)
(* of the server, at where its main program is next.                            *)

\* Mutant: the monitor of a data service that starts leaves pbs_dbclose alone
connect_db_keeps_request(h, at) ==
  \/ db \in {h, "none"} /\ at = "init" /\ db' = h /\ dbclose' = dbclose
  \/ db \notin {h, "none"} /\ net /\ at = "db" /\ dbclose' = h /\ db' = db

\* the data service runs here or nowhere (then it is started, and its monitor
\* clears a request to stop it that is left over); or it runs on the other host,
\* is connected to, found wrong and asked to stop
connect_db(h, at) ==
  \/ /\ db \in {h, "none"} /\ at = "init"
     /\ db' = h /\ dbclose' = IF db = "none" THEN "none" ELSE dbclose
  \/ /\ db \notin {h, "none"} /\ net /\ at = "db"
     /\ dbclose' = h /\ db' = db

prim_connect_db ==
  /\ p.at = "db"
  /\ \E at \in {"db", "init"} : connect_db("P", at) /\ p' = [p EXCEPT !.at = at]
  /\ UNCHANGED <<s, sock, sc, pc, toP, toS, back, secact, quiet, net, faults, idle>>

secd_connect_db ==
  /\ s.at = "db"
  /\ \E at \in {"db", "init"} : connect_db("S", at) /\ s' = [s EXCEPT !.at = at]
  /\ UNCHANGED <<p, sock, sc, pc, toP, toS, back, secact, quiet, net, faults, idle>>

\* pbsd_init and init_network, then the main loop
prim_init == /\ p.at = "init" /\ db = "P" /\ p' = [p EXCEPT !.at = "serving"]
             /\ UNCHANGED <<s, sock, sc, pc, toP, toS, back, secact, quiet, db, dbclose, net, faults, idle>>

secd_init == /\ s.at = "init" /\ db = "S" /\ s' = [s EXCEPT !.at = "serving"]
             /\ UNCHANGED <<p, sock, sc, pc, toP, toS, back, secact, quiet, db, dbclose, net, faults, idle>>

\* the monitor of the data service finds pbs_dbclose
check_and_stop_db ==
  /\ db # "none" /\ dbclose # "none"
  /\ db' = "none" /\ dbclose' = "none"
  /\ UNCHANGED <<p, s, sock, sc, pc, toP, toS, back, secact, quiet, net, faults, idle>>

update_svrlive ==
  /\ quiet /\ Alive /\ quiet' = FALSE
  /\ UNCHANGED <<p, s, sock, sc, pc, toP, toS, back, secact, db, dbclose, net, faults, idle>>

secondary_delay ==
  /\ ~quiet /\ ~Alive /\ quiet' = TRUE
  /\ UNCHANGED <<p, s, sock, sc, pc, toP, toS, back, secact, db, dbclose, net, faults, idle>>

\* a server that uses its data service and has lost it exits without further ado
UsesDb == {"init", "serving", "saving"}

prim_panic_stop_db ==
  /\ p.at \in UsesDb /\ db # "P"
  /\ p' = NewPrim("off") /\ ClosePrimary
  /\ UNCHANGED <<s, sock, back, secact, quiet, db, dbclose, net, faults, idle>>

secd_panic_stop_db ==
  /\ s.at \in UsesDb /\ db # "S"
  /\ s' = NewSecd("off")
  /\ back' = IF back \in {"sent", "saved"} THEN "eof" ELSE back
  /\ UNCHANGED <<p, sock, sc, pc, toP, toS, secact, quiet, db, dbclose, net, faults, idle>>

-----------------------------------------------------------------------------
(* The primary's main loop.                                                    *)

\* a request to the registered secondary: what it reads and the task that waits
issue_Drequest(x, task, msg) ==
  /\ p' = [x EXCEPT !.pend = Append(@, task)]
  /\ toS' = IF sock = sc THEN Append(toS, msg) ELSE toS

\* the main loop goes round again: the state is not plainly DOWN or SECIDLE
InLoop == p.at = "serving" /\ (p.dly \/ p.st \in {"RUN", "SHUT"})

primary_handshake ==
  /\ InLoop /\ sc # None /\ Len(p.pend) < MaxPend
  /\ LET x == IF secact THEN [p EXCEPT !.st = "SECIDLE", !.dly = FALSE] ELSE p
     IN  issue_Drequest(x, "HandShake", "HandShake")
  /\ quiet' = FALSE
  /\ UNCHANGED <<s, sock, sc, pc, toP, back, secact, db, dbclose, net, faults, idle>>

\* failover_send_shutdown: with the secondary registered its answer is waited for
tell_secondary(x, tell) ==
  IF sc # None THEN issue_Drequest(x, "Shut", tell) ELSE p' = p /\ toS' = toS

\* qterm: a state of its own for a shutdown that waits for the jobs; a second
\* immediate one is not waited for
svr_shutdown ==
  /\ InLoop /\ Disturbance
  /\ \E tell \in Tells, type \in Types :
       LET x == [p EXCEPT !.st = type, !.dly = FALSE]
       IN  /\ \/ /\ tell # "none" /\ sc # None
                 /\ tell_secondary([x EXCEPT !.dly = TRUE], tell)
              \/ /\ tell = "none" \/ sc = None
                 /\ \/ p' = x
                    \/ tell = "none" /\ p.st = "SHUT" /\ ~p.dly /\ p' = [x EXCEPT !.st = "DOWN"]
                 /\ toS' = toS
           /\ idle' = (tell = "SecdGoInactive" /\ sc # None)
  /\ UNCHANGED <<s, sock, sc, pc, toP, back, secact, quiet, db, dbclose, net>>

\* qterm -F: only the secondary is to go
req_shutdown_secdonly ==
  /\ InLoop /\ Disturbance /\ "SecdShutdown" \in Tells
  /\ tell_secondary(p, "SecdShutdown")
  /\ UNCHANGED <<s, sock, sc, pc, toP, back, secact, quiet, db, dbclose, net, idle>>

\* the work task of a request is dispatched: rel_handshake or fo_shutdown_reply
dispatch_task(x) == [x EXCEPT !.pend = Tail(@),
                              !.dly = IF Head(x.pend) = "Shut" THEN FALSE ELSE @]

\* the registered connection is at its end: one waiting task is dispatched, what
\* else waits on the connection stays on task_list_event
process_Dreply_eof(x) ==
  IF x.pend = <<>> THEN x
  ELSE [dispatch_task(x) EXCEPT !.left = @ \/ Len(x.pend) > 1, !.pend = <<>>]

Arrived(c, msg) == /\ p.at = "serving" /\ net
                   /\ toP[c] # <<>> /\ Head(toP[c]) = msg
                   /\ toP' = [toP EXCEPT ![c] = Tail(@)]

process_Dreply(c) ==
  /\ Arrived(c, "Ack") /\ c = sc /\ p.pend # <<>>
  /\ p' = dispatch_task(p)
  /\ UNCHANGED <<s, sock, sc, pc, toS, back, secact, quiet, db, dbclose, net, faults, idle>>

close_secondary(c) ==
  /\ Arrived(c, "EOF")
  /\ p' = IF c = sc THEN process_Dreply_eof(p) ELSE p
  /\ sc' = IF c = sc THEN None ELSE sc
  /\ pc' = pc \ {c}
  /\ UNCHANGED <<s, sock, toS, back, secact, quiet, db, dbclose, net, faults, idle>>

\* a connection whose other end has vanished is given up when requests on it are
\* not acknowledged
connection_timeout ==
  /\ p.at = "serving" /\ sc # None /\ p.pend # <<>>
  /\ ~net \/ (sc # sock /\ toP[sc] = <<>>)
  /\ p' = process_Dreply_eof(p) /\ sc' = None /\ pc' = pc \ {sc}
  /\ toP' = [toP EXCEPT ![sc] = <<>>]
  /\ UNCHANGED <<s, sock, toS, back, secact, quiet, db, dbclose, net, faults, idle>>

\* FAILOVER_Register
req_failover_register(c) ==
  /\ Arrived(c, "Register")
  /\ LET reply == IF sc # None THEN "Reject" ELSE "Ok"
     IN  toS' = IF sock = c THEN Append(toS, reply) ELSE toS
  /\ sc' = IF sc # None THEN sc ELSE c
  /\ UNCHANGED <<p, s, sock, pc, back, secact, quiet, db, dbclose, net, faults, idle>>

\* no job is running any more and no child or reply is waited for
shutdown_done ==
  /\ p.at = "serving" /\ p.st = "SHUT" /\ ~p.dly /\ p.pend = <<>> /\ ~p.left
  /\ p' = [p EXCEPT !.st = "DOWN", !.at = "saving"]
  /\ UNCHANGED <<s, sock, sc, pc, toP, toS, back, secact, quiet, db, dbclose, net, faults, idle>>

\* out of the main loop; everything is saved and the local data service stopped, if it
\* still runs (stop_db returns when it does not)
prim_leave_loop ==
  /\ p.at = "serving" /\ p.st \in {"DOWN", "SECIDLE"} /\ ~p.dly
  /\ p' = [p EXCEPT !.at = "saving"]
  /\ UNCHANGED <<s, sock, sc, pc, toP, toS, back, secact, quiet, db, dbclose, net, faults, idle>>

prim_stop_db ==
  /\ p.at = "saving"
  /\ db' = IF db = "P" THEN "none" ELSE db
  /\ p' = [p EXCEPT !.at = "leaving"] /\ quiet' = FALSE
  /\ UNCHANGED <<s, sock, sc, pc, toP, toS, back, secact, dbclose, net, faults, idle>>

\* connections are closed; the server exits, or starts afresh
prim_exit ==
  /\ p.at = "leaving"
  /\ p' = NewPrim(IF p.st = "SECIDLE" THEN "taking" ELSE "off") /\ ClosePrimary
  /\ back' = "none"
  /\ UNCHANGED <<s, sock, secact, quiet, db, dbclose, net, faults, idle>>

-----------------------------------------------------------------------------
(* The inactive secondary, be_secondary: one step per state of its loop.      *)

start_secondary ==
  /\ s.at = "off" /\ Disturbance
  /\ s' = NewSecd("inactive")
  /\ UNCHANGED <<p, sock, sc, pc, toP, toS, back, secact, quiet, db, dbclose, net, idle>>

Reachable == net /\ p.at \in Listening

Free(c) == c \notin pc \cup {sock}

\* a new connection (an old one is closed first), and Secondary_state becomes conn
connect_primary ==
  \E c \in Conns :
    /\ Free(c) /\ Reachable
    /\ sock' = c /\ toS' = <<>> /\ toP' = Write(<<"EOF">>) /\ pc' = pc \cup {c}
    /\ s' = [s EXCEPT !.fo = "conn"]

NoPrimaryChange == UNCHANGED <<p, sc, back, secact, quiet, db, dbclose, net, faults, idle>>

secd_connect ==
  /\ Secondary("noconn") \/ Secondary("idle")
  /\ \/ connect_primary
     \/ /\ ~Reachable /\ s.fo = "noconn" /\ s.late
        /\ s' = [s EXCEPT !.fo = "takeov"] /\ CloseSock /\ UNCHANGED pc
  /\ NoPrimaryChange

\* The time of takeov_on_nocontact is set once, when the secondary starts; it is
\* later than an answer on its way takes.
nocontact_time ==
  /\ back = "acked" => ~net
  /\ s.at = "inactive" /\ ~s.late /\ s' = [s EXCEPT !.late = TRUE]
  /\ UNCHANGED <<sock, pc, toP, toS>> /\ NoPrimaryChange

secd_register ==
  /\ Secondary("conn")
  /\ \/ /\ s' = [s EXCEPT !.fo = "regsent"] /\ toP' = Write(<<"Register">>)
        /\ toS' \in IF sock \in pc THEN {toS} ELSE {<<"RST">>} \cup ({toS} \ {<<>>})
        /\ UNCHANGED sock
     \/ /\ toS # <<>>                                  \* put_failover fails
        /\ s' = [s EXCEPT !.fo = "noconn"] /\ CloseSock
  /\ UNCHANGED pc /\ NoPrimaryChange

Got(msgs) == s.at = "inactive" /\ net /\ toS # <<>> /\ Head(toS) \in msgs

\* The answer to Register.  DIS_EOD means that the connection was reset with the
\* request unread; any other failure, and a rejection, ends the secondary.
read_reg_reply ==
  /\ s.fo \in {"conn", "regsent"}
  /\ \/ /\ Got({"Ok"}) /\ s' = [s EXCEPT !.fo = "handsk"]
        /\ toS' = Tail(toS) /\ UNCHANGED <<sock, toP>>
     \/ /\ Got({"RST"}) /\ s.fo = "regsent"
        /\ s' = [s EXCEPT !.fo = "takeov"]
        /\ toS' = Tail(toS) /\ UNCHANGED <<sock, toP>>
     \/ /\ Got({"Reject", "EOF"}) \/ (Got({"RST"}) /\ s.fo = "conn")
        /\ s' = NewSecd("off") /\ CloseSock
  /\ UNCHANGED pc /\ NoPrimaryChange

\* The acknowledgement of a request that has been read
Acknowledge == /\ toP' = Write(<<"Ack">>) /\ UNCHANGED sock
               /\ toS' = IF sock \in pc THEN Tail(toS) ELSE Append(Tail(toS), "RST")

Shaking == {"handsk", "nohsk"}

req_failover_handshake ==
  /\ Got({"HandShake"}) /\ s.fo \in Shaking
  /\ s' = [s EXCEPT !.fo = "handsk"] /\ Acknowledge
  /\ UNCHANGED pc /\ NoPrimaryChange

req_failover_goinactive ==
  /\ Got({"SecdGoInactive"}) /\ s.fo \in Shaking
  /\ s' = [s EXCEPT !.fo = "inact"] /\ Acknowledge
  /\ UNCHANGED pc /\ NoPrimaryChange

req_failover_shutdown ==
  /\ Got({"SecdShutdown"}) /\ s.fo \in Shaking \cup {"inact"}
  /\ s' = NewSecd("off") /\ sock' = None /\ toS' = <<>> /\ toP' = Write(<<"Ack", "EOF">>)
  /\ UNCHANGED pc /\ NoPrimaryChange

\* the end of the connection: closed in good order, or reset
read_fo_request ==
  /\ Got({"EOF", "RST"}) /\ s.fo \in Shaking
  /\ s' = [s EXCEPT !.fo = IF Head(toS) = "EOF" THEN "nohsk" ELSE "noconn"]
  /\ CloseSock /\ UNCHANGED pc /\ NoPrimaryChange

\* Told to stay inactive: one event is waited for, at most 600 seconds, whatever
\* it is; then the connection is closed.
secd_inact ==
  /\ Secondary("inact")
  /\ \/ /\ Got({"HandShake", "SecdGoInactive"}) /\ toP' = Write(<<"Ack", "EOF">>)
     \/ /\ Got({"EOF", "RST"}) \/ sock \notin pc \/ ~net
        /\ toP' = Write(<<"EOF">>)
  /\ s' = [s EXCEPT !.fo = "idle"] /\ sock' = None /\ toS' = <<>>
  /\ UNCHANGED pc /\ NoPrimaryChange

\* no handshake for a while
handshake_missed ==
  /\ Secondary("handsk") /\ s' = [s EXCEPT !.fo = "nohsk"]
  /\ UNCHANGED <<sock, pc, toP, toS>> /\ NoPrimaryChange

\* Mutant: without handshakes the secondary only ever reconnects
secd_nohsk_reconnects ==
  /\ Secondary("nohsk") /\ sock = None /\ s' = [s EXCEPT !.fo = "handsk"]
  /\ UNCHANGED <<sock, pc, toP, toS>> /\ NoPrimaryChange

secd_nohsk ==
  /\ Secondary("nohsk")
  /\ \/ quiet /\ s' = [s EXCEPT !.fo = "takeov"]
     \/ ~quiet /\ Alive /\ sock = None /\ s' = [s EXCEPT !.fo = "noconn"]
  /\ UNCHANGED <<sock, pc, toP, toS>> /\ NoPrimaryChange

\* one last attempt to reach the primary
secd_takeov ==
  /\ Secondary("takeov")
  /\ \/ connect_primary
     \/ ~Reachable /\ s' = [s EXCEPT !.fo = "goactive"] /\ CloseSock /\ UNCHANGED pc
  /\ NoPrimaryChange

\* without a stonith script, or when it has worked, which brings the primary's
\* host down; svrlive is touched only later, in the loop that waits for the data service
secd_go_active ==
  /\ Secondary("goactive")
  /\ s' = [s EXCEPT !.at = "db"] /\ secact' = TRUE
  /\ \/ UNCHANGED <<p, sc, pc, toP, back, db>>
     \/ /\ p' = NewPrim("off") /\ PrimaryGone /\ back' = "none"
        /\ db' = IF db = "P" THEN "none" ELSE db
  /\ UNCHANGED <<sock, toS, quiet, dbclose, net, faults, idle>>

-----------------------------------------------------------------------------
(* The active secondary.                                                      *)

\* Mutant: acknowledged at once, as the other failover requests are
req_failover_primisback_acks ==
  /\ s.at = "serving" /\ net /\ back = "sent"
  /\ s' = [s EXCEPT !.st = "SECIDLE"] /\ secact' = FALSE /\ back' = "acked"
  /\ UNCHANGED <<p, sock, sc, pc, toP, toS, quiet, db, dbclose, net, faults, idle>>

\* FAILOVER_PrimIsBack; the answer has to wait until everything is saved
req_failover_primisback ==
  /\ s.at = "serving" /\ net /\ back = "sent"
  /\ s' = [s EXCEPT !.st = "SECIDLE"] /\ secact' = FALSE /\ back' = "saved"
  /\ UNCHANGED <<p, sock, sc, pc, toP, toS, quiet, db, dbclose, net, faults, idle>>

secd_leave_loop ==
  /\ s.at = "serving" /\ (s.st = "SECIDLE" \/ ~secact)
  /\ s' = [s EXCEPT !.at = "saving", !.st = "SECIDLE"]
  /\ UNCHANGED <<p, sock, sc, pc, toP, toS, back, secact, quiet, db, dbclose, net, faults, idle>>

secd_stop_db ==
  /\ s.at = "saving"
  /\ db' = IF db = "S" THEN "none" ELSE db
  /\ s' = [s EXCEPT !.at = "leaving"] /\ quiet' = FALSE
  /\ UNCHANGED <<p, sock, sc, pc, toP, toS, back, secact, dbclose, net, faults, idle>>

\* Mutant: the state of the server survives its start afresh
secd_exit_keeps_state ==
  /\ s.at = "leaving"
  /\ s' = [s EXCEPT !.at = IF s.st = "SECIDLE" THEN "inactive" ELSE "off", !.fo = "noconn"]
  /\ secact' = FALSE
  /\ back' = CASE back = "saved" /\ s.st = "SECIDLE" -> "acked"
               [] back = "sent" -> "eof"
               [] OTHER -> back
  /\ UNCHANGED <<p, sock, sc, pc, toP, toS, quiet, db, dbclose, net, faults, idle>>

\* the file is removed, a waiting primary answered, and the server starts afresh
secd_exit ==
  /\ s.at = "leaving"
  /\ s' = NewSecd(IF s.st = "SECIDLE" THEN "inactive" ELSE "off")
  /\ secact' = FALSE
  /\ back' = CASE back = "saved" /\ s.st = "SECIDLE" -> "acked"
               [] back = "sent" -> "eof"
               [] OTHER -> back
  /\ UNCHANGED <<p, sock, sc, pc, toP, toS, quiet, db, dbclose, net, faults, idle>>

\* qterm of an active secondary
secd_shutdown ==
  /\ s.at = "serving" /\ s.st = "RUN" /\ Types # {} /\ Disturbance
  /\ s' = [s EXCEPT !.at = "saving", !.st = "DOWN"]
  /\ UNCHANGED <<p, sock, sc, pc, toP, toS, back, secact, quiet, db, dbclose, net, idle>>

-----------------------------------------------------------------------------
(* Faults: a server process is killed, a host crashes, the network is cut and *)
(* mended, a server does not get to run for longer than secondary_delay.       *)

prim_killed ==
  /\ Fault("kill") /\ p.at # "off"
  /\ p' = NewPrim("off") /\ ClosePrimary /\ back' = "none"
  /\ UNCHANGED <<s, sock, secact, quiet, db, dbclose, net, idle>>

prim_crashes ==
  /\ Fault("crash") /\ p.at # "off"
  /\ p' = NewPrim("off") /\ PrimaryGone /\ back' = "none"
  /\ db' = IF db = "P" THEN "none" ELSE db
  /\ UNCHANGED <<s, sock, toS, secact, quiet, dbclose, net, idle>>

secd_killed ==
  /\ Fault("kill") /\ s.at # "off"
  /\ s' = NewSecd("off") /\ CloseSock
  /\ back' = IF back \in {"sent", "saved"} THEN "eof" ELSE back
  /\ UNCHANGED <<p, sc, pc, secact, quiet, db, dbclose, net, idle>>

secd_crashes ==
  /\ Fault("crash") /\ s.at # "off"
  /\ s' = NewSecd("off") /\ sock' = None /\ toS' = <<>>
  /\ db' = IF db = "S" THEN "none" ELSE db
  /\ back' = IF back \in {"sent", "saved"} THEN "lost" ELSE back
  /\ UNCHANGED <<p, sc, pc, toP, secact, quiet, dbclose, net, idle>>

partition ==
  /\ Fault("partition") /\ net /\ net' = FALSE
  /\ UNCHANGED <<p, s, sock, sc, pc, toP, toS, back, secact, quiet, db, dbclose, idle>>

heal ==
  /\ ~net /\ net' = TRUE
  /\ UNCHANGED <<p, s, sock, sc, pc, toP, toS, back, secact, quiet, db, dbclose, faults, idle>>

stall ==
  /\ Fault("stall") /\ ~quiet /\ Alive /\ quiet' = TRUE
  /\ UNCHANGED <<p, s, sock, sc, pc, toP, toS, back, secact, db, dbclose, net, idle>>

-----------------------------------------------------------------------------
Primary == \/ takeover_from_secondary \/ takeover_reply \/ secondary_is_gone
           \/ prim_connect_db \/ prim_init \/ prim_panic_stop_db
           \/ primary_handshake \/ connection_timeout
           \/ \E c \in Conns : process_Dreply(c) \/ close_secondary(c) \/ req_failover_register(c)
           \/ shutdown_done \/ prim_leave_loop \/ prim_stop_db \/ prim_exit

Inactive == \/ secd_connect \/ nocontact_time \/ secd_register \/ read_reg_reply
            \/ req_failover_handshake \/ req_failover_goinactive \/ req_failover_shutdown
            \/ read_fo_request \/ secd_inact \/ handshake_missed
            \/ secd_nohsk \/ secd_takeov \/ secd_go_active

Active == \/ secd_connect_db \/ secd_init \/ secd_panic_stop_db
          \/ req_failover_primisback \/ secd_leave_loop \/ secd_stop_db \/ secd_exit

Files == check_and_stop_db \/ update_svrlive \/ secondary_delay

Operator == \/ start_primary \/ start_secondary
            \/ svr_shutdown \/ req_shutdown_secdonly \/ secd_shutdown

FaultStep == \/ prim_killed \/ prim_crashes \/ secd_killed \/ secd_crashes
             \/ partition \/ heal \/ stall

Next == Primary \/ Inactive \/ Active \/ Files \/ Operator \/ FaultStep

\* Every loop goes on: each step of a server that stays possible is taken, the
\* monitor and the clock do theirs, and the network is mended.
Fairness ==
  /\ WF_vars(takeover_from_secondary) /\ WF_vars(takeover_reply) /\ WF_vars(secondary_is_gone)
  /\ WF_vars(prim_connect_db) /\ WF_vars(prim_init) /\ WF_vars(prim_panic_stop_db)
  /\ WF_vars(primary_handshake) /\ WF_vars(connection_timeout)
  /\ \A c \in Conns : WF_vars(process_Dreply(c) \/ close_secondary(c) \/ req_failover_register(c))
  /\ SF_vars(shutdown_done) /\ WF_vars(prim_leave_loop \/ prim_stop_db \/ prim_exit)
  /\ WF_vars(secd_connect) /\ WF_vars(nocontact_time) /\ WF_vars(secd_register)
  /\ WF_vars(read_reg_reply \/ req_failover_handshake \/ req_failover_goinactive
               \/ req_failover_shutdown \/ read_fo_request \/ secd_inact)
  /\ WF_vars(handshake_missed) /\ WF_vars(secd_nohsk) /\ WF_vars(secd_takeov) /\ WF_vars(secd_go_active)
  /\ WF_vars(Active) /\ WF_vars(check_and_stop_db) /\ WF_vars(update_svrlive)
  /\ WF_vars(secondary_delay) /\ WF_vars(heal)

Spec == Init /\ [][Next]_vars /\ Fairness

-----------------------------------------------------------------------------
(* Properties *)

\* The records, the connections and the messages are of the kinds the code knows, and
\* a server that is not yet in its main loop has a fresh record (main starts afresh
\* by execv, with no state, no task and no connection of the server it was).
TypeOK ==
  /\ p \in PrimType /\ (p.at \notin Listening => p = NewPrim(p.at))
  /\ s \in SecdType /\ (s.at \notin Listening => s.st = "RUN")
  /\ sock \in Conns \cup {None} /\ sc \in Conns \cup {None}
  /\ pc \subseteq Conns /\ toP \in [Conns -> Seq({"Register", "Ack", "EOF"})]
  /\ toS \in Seq({"Ok", "Reject", "HandShake", "SecdShutdown", "SecdGoInactive", "EOF", "RST"})
  /\ back \in {"none", "sent", "saved", "acked", "eof", "lost"}
  /\ secact \in BOOLEAN /\ quiet \in BOOLEAN /\ net \in BOOLEAN
  /\ db \in {"none", "P", "S"} /\ dbclose \in {"none", "P", "S"}
  /\ faults \in 0..MaxFaults /\ idle \in BOOLEAN

ActiveStates == {"db", "init", "serving", "saving", "leaving"}

\* The secondary answers FAILOVER_PrimIsBack only when it has saved everything and its
\* data service is stopped, with secondary_active removed (req_failover keeps the
\* request in saved_takeover_req, main answers it at its end).
HandoverSaved == [][back' = "acked" /\ back # "acked" => db # "S" /\ ~secact']_vars

\* A request to stop the data service never hits the one the asking server has started
\* since (touch_db_stop_file names no host; clear_stop_db_file and the monitor).
OwnDbSurvives == dbclose # "none" => dbclose # db

\* Whatever has failed, been started or stopped, and in whatever order, in the end
\* the pair comes to rest: the primary serves and the secondary is inactive or off,
\* or the secondary serves and the primary is off, or neither runs (the take over
\* loop of main, primary_handshake and the test of secondary_active in the main
\* loop do not chase one another, nor do the two over the data service).
Settled == \/ <>[](p.at = "serving" /\ s.at \notin ActiveStates)
           \/ <>[](s.at = "serving" /\ p.at = "off")
           \/ <>[](p.at = "off" /\ s.at \notin ActiveStates)

\* When the primary is gone the secondary takes over, unless it was told to stay idle,
\* exits, or the primary is started again (be_secondary).  A secondary that has sent
\* Register is excepted: it waits for the answer without a limit.
TakesOver == (p.at = "off" /\ s.at = "inactive" /\ s.fo # "regsent")
                ~> (s.at \in {"serving", "off"} \/ p.at # "off" \/ s.fo = "idle")

\* A primary that is started comes to serve or gives up, whatever the secondary does
\* meanwhile (takeover_from_secondary and the loops of main).
StartEnds == p.at \in {"taking", "asking", "db", "init"} ~> p.at \in {"serving", "off"}

\* A shutdown that was asked for comes to its end: main leaves its loop once the jobs
\* are done and the secondary has answered or is gone.
ShutdownEnds == (p.at = "serving" /\ p.st \in {"SHUT", "DOWN"}) ~> p.at # "serving"

\* After qterm -i the secondary stays inactive while the primary is down
\* (FAILOVER_SecdGoInactive).
IdleStaysIdle == idle => s.at \notin ActiveStates
=============================================================================
