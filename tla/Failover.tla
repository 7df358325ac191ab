------------------------------ MODULE Failover ------------------------------
(***************************************************************************)
(* The PBS Pro primary/secondary server failover protocol of               *)
(* src/src/server/failover.c.                                              *)
(*                                                                         *)
(* Two server processes share the files svrlive (its mtime is the          *)
(* liveness signal) and secondary_active (the active-marker) and talk over *)
(* TCP connections carrying FailOver requests:                             *)
(*   - the primary runs primary_handshake every HANDSHAKE_TIME, accepts    *)
(*     REGISTER, and signals the secondary when it shuts down;             *)
(*   - the secondary runs the be_secondary state machine, whose state      *)
(*     advances both in the loop and in the socket callbacks read_reg_reply *)
(*     and read_fo_request, which run inside wait_request;                 *)
(*   - a secondary that takes over runs the stonith hook first, and a      *)
(*     primary that restarts while it is active reclaims the floor with    *)
(*     takeover_from_secondary.                                            *)
(*                                                                         *)
(* Each TCP connection is a record with, per side, whether that side's     *)
(* socket is open and the FIFO queue of messages addressed to it, and      *)
(* whether the network broke the connection.  Wall-clock time is one       *)
(* global clock `now`; the sleep() calls of the code are not modelled as   *)
(* time because any process may be arbitrarily slow anyway.  Memory        *)
(* allocation failures (alloc_br returning NULL) are not modelled.         *)
(***************************************************************************)
EXTENDS Naturals, Integers, Sequences, FiniteSets

CONSTANTS
    HANDSHAKE_TIME,    \* period of primary_handshake and secondary_handshake
    NO_CONTACT_WAIT,   \* the 60 * 5 seconds of takeov_on_nocontact
    SecondaryDelay,    \* configured secondary_delay, -1 = start as active
    StonithInstalled,  \* TRUE iff PBS_HOME/server_priv/stonith exists
    MaxConn,           \* bound: TCP connections opened in one behaviour
    MarkerWriteMayFail, \* the fopen of secondary_active may fail
    SecondaryMayCrash   \* the secondary process may crash (not restarted)

ASSUME HANDSHAKE_TIME \in Nat \ {0}
ASSUME NO_CONTACT_WAIT \in Nat
ASSUME SecondaryDelay \in Nat \cup {-1}
ASSUME StonithInstalled \in BOOLEAN
ASSUME MaxConn \in Nat \ {0}
ASSUME MarkerWriteMayFail \in BOOLEAN
ASSUME SecondaryMayCrash \in BOOLEAN

ConnIds == 1..MaxConn
Sides == {"P", "S"}                 \* the primary's and the secondary's end
Other(s) == IF s = "P" THEN "S" ELSE "P"
NoConn == -1                        \* sec_sock / Secondary_connection unset
LostConn == -2                      \* Secondary_connection after a failed send
SbloopCap == 5                      \* sbloop is only ever tested as sbloop > 4

(* Secondary_state values; SECONDARY_STATE_shutd is never assigned. *)
SecStates == {"noconn", "conn", "regsent", "handsk", "nohsk", "takeov",
              "inact", "idle"}

(* Requests FAILOVER_* and replies, by the side that reads them. *)
ToSecondary == {"RegOk", "RegBusy", "HandShake", "SecdShutdown",
                "SecdGoInactive", "SecdTakeOver", "PrimIsBack"}
ToPrimary == {"Register", "AckHandShake", "AckControl", "AckPrimIsBack"}
ShutdownTypes == {"SecdShutdown", "SecdGoInactive", "SecdTakeOver"}

(* set_task(WORK_Timed, time_now + HANDSHAKE_TIME, ...) *)
NextHandshake(t) == t + HANDSHAKE_TIME

(* secondary_delay after be_secondary has replaced -1 by 0 *)
secondary_delay == IF SecondaryDelay = -1 THEN 0 ELSE SecondaryDelay

VARIABLES
    now,                  \* time(0), the same clock for both hosts
    \* primary process
    pState,               \* down | up | shutdown_wait | reclaim_wait
    Secondary_connection, \* handle of the registered secondary, -1 or -2
    pNextTick,            \* when the primary_handshake work task is due
    pConn,                \* connection of takeover_from_secondary, or 0
    \* shared files
    svrlive,              \* mtime of PBS_HOME/server_priv/svrlive
    marker,               \* PBS_HOME/server_priv/secondary_active exists
    \* secondary process
    sRole,                \* standby | active | quiescing | exit0 | exit1 | crashed
    Secondary_state,
    sec_sock,
    secFunc,              \* cn_func of sec_sock: read_reg_reply | read_fo_request
    sPc,                  \* where the standby process is (see below)
    hd_time, mytime, sbtime, sbloop, loop, takeov_on_nocontact,
    sNextTick,            \* when the secondary_handshake work task is due
    savedReq,             \* connection of saved_takeover_req, or 0
    \* network
    conns, nconn

primVars == <<pState, Secondary_connection, pNextTick, pConn>>
secVars == <<sRole, Secondary_state, sec_sock, secFunc, sPc, hd_time, mytime,
             sbtime, sbloop, loop, takeov_on_nocontact, sNextTick, savedReq>>
vars == <<now, primVars, svrlive, marker, secVars, conns, nconn>>

-----------------------------------------------------------------------------
(* Connections.                                                            *)

Conn == [open : [Sides -> BOOLEAN], q : [Sides -> Seq(ToSecondary \cup ToPrimary)],
         broken : BOOLEAN]
Unused == [open |-> [s \in Sides |-> FALSE], q |-> [s \in Sides |-> <<>>],
           broken |-> FALSE]
Fresh == [Unused EXCEPT !.open = [s \in Sides |-> TRUE]]

Healthy(cs, c) == cs[c].open["P"] /\ cs[c].open["S"] /\ ~cs[c].broken

(* Results of a write on side `from` (put_failover, issue_Drequest,        *)
(* reply_send): it succeeds on a healthy connection; once the peer is gone *)
(* it may still succeed, the data being lost, or fail.                     *)
WriteResults(cs, c, from) ==
    IF Healthy(cs, c) THEN {TRUE}
    ELSE IF cs[c].open[from] THEN {TRUE, FALSE} ELSE {FALSE}

Write(cs, c, from, m) ==
    IF Healthy(cs, c) THEN [cs EXCEPT ![c].q[Other(from)] = Append(@, m)] ELSE cs

(* close_conn: the side's socket is closed and its unread input dropped; a *)
(* connection closed at both ends is forgotten.                           *)
Closed(r, s) == IF r.open[Other(s)] THEN [r EXCEPT !.open[s] = FALSE, !.q[s] = <<>>]
                ELSE Unused
Close(cs, c, s) == [cs EXCEPT ![c] = Closed(@, s)]
CloseAll(cs, s) == [c \in ConnIds |-> Closed(cs[c], s)]
Pop(cs, c, s) == [cs EXCEPT ![c].q[s] = Tail(@)]

(* What a read on side s of c returns: the next message, else end of file  *)
(* once the peer closed, else EOF or a read error once the network broke.  *)
Events(c, s) ==
    IF conns[c].q[s] /= <<>> THEN {Head(conns[c].q[s])}
    ELSE IF conns[c].broken THEN {"EOF", "ERR"}
    ELSE IF ~conns[c].open[Other(s)] THEN {"EOF"}
    ELSE {}

Readable(c, s) == conns[c].open[s] /\ Events(c, s) /= {}

PrimaryListening == pState \in {"up", "shutdown_wait"}
SecondaryListening == sRole \in {"active", "quiescing"}

(* alt_conn: client_to_svr under alarm(sec), whose handler alm_handler    *)
(* only interrupts the connect; the noconn state calls client_to_svr       *)
(* without the alarm, with the same outcomes.  The result is a new socket  *)
(* when the peer server is listening (one of the MaxConn sockets of the    *)
(* model), or -1 when the connect is refused or times out, which it may do *)
(* either way.                                                             *)
AltConn(listening) ==
    IF listening /\ nconn < MaxConn THEN {nconn + 1, NoConn} ELSE {NoConn}

-----------------------------------------------------------------------------
(* Primary server.                                                         *)

(* The primary process ends (exit, crash, recycle, killed by stonith): the *)
(* kernel closes its sockets and its statics are gone.                     *)
PrimaryGone(cs) ==
    /\ pState' = "down"
    /\ conns' = CloseAll(cs, "P")
    /\ Secondary_connection' = NoConn
    /\ pConn' = 0

(* primary_handshake: touch svrlive; if a secondary is registered, send it *)
(* a HandShake (on failure close the connection and set -2) and stat the   *)
(* marker, recycling the server if the secondary went active; re-arm the   *)
(* work task.  update_svrlive may fail, leaving the mtime as it was.       *)
primary_handshake ==
    /\ pState = "up"
    /\ now >= pNextTick
    /\ svrlive' \in {now, svrlive}
    /\ pNextTick' = NextHandshake(now)
    /\ IF Secondary_connection \in ConnIds
         THEN LET c == Secondary_connection IN
              \E ok \in WriteResults(conns, c, "P") :
                 LET cs == IF ok THEN Write(conns, c, "P", "HandShake")
                                 ELSE Close(conns, c, "P")
                 IN  IF marker
                       THEN PrimaryGone(cs)  \* SV_STATE_SECIDLE: recycle
                       ELSE /\ conns' = cs
                            /\ Secondary_connection' = IF ok THEN c ELSE LostConn
                            /\ UNCHANGED <<pState, pConn>>
         ELSE UNCHANGED <<conns, Secondary_connection, pState, pConn>>
    /\ UNCHANGED <<now, marker, secVars, nconn>>

(* req_failover, FAILOVER_Register, at the primary: busy if a secondary is *)
(* registered (-1 and -2 both count as none); else register this           *)
(* connection (close_secondary is its close function) and reply the hostid.*)
req_failover_register(c) ==
    /\ PrimaryListening
    /\ conns[c].open["P"]
    /\ conns[c].q["P"] /= <<>>
    /\ Head(conns[c].q["P"]) = "Register"
    /\ IF Secondary_connection \in ConnIds
         THEN /\ conns' = Write(Pop(conns, c, "P"), c, "P", "RegBusy")
              /\ UNCHANGED Secondary_connection
         ELSE /\ conns' = Write(Pop(conns, c, "P"), c, "P", "RegOk")
              /\ Secondary_connection' = c
    /\ UNCHANGED <<now, pState, pNextTick, pConn, svrlive, marker, secVars, nconn>>

(* process_Dreply on the registered connection: the reply to a HandShake   *)
(* is freed by rel_handshake.                                              *)
rel_handshake(c) ==
    /\ PrimaryListening
    /\ conns[c].open["P"]
    /\ conns[c].q["P"] /= <<>>
    /\ Head(conns[c].q["P"]) = "AckHandShake"
    /\ conns' = Pop(conns, c, "P")
    /\ UNCHANGED <<now, primVars, svrlive, marker, secVars, nconn>>

(* fo_shutdown_reply clears SV_STATE_PRIMDLY and the shutting down primary *)
(* leaves its main loop and exits.                                         *)
fo_shutdown_reply(c) ==
    /\ pState = "shutdown_wait"
    /\ conns[c].open["P"]
    /\ conns[c].q["P"] /= <<>>
    /\ Head(conns[c].q["P"]) = "AckControl"
    /\ PrimaryGone(Pop(conns, c, "P"))
    /\ UNCHANGED <<now, pNextTick, svrlive, marker, secVars, nconn>>

(* End of file or read error on a primary socket: close_conn runs the      *)
(* close function close_secondary, which forgets the registration if it    *)
(* was this connection.                                                    *)
close_secondary(c) ==
    /\ PrimaryListening
    /\ conns[c].open["P"]
    /\ Events(c, "P") \cap {"EOF", "ERR"} /= {}
    /\ conns' = Close(conns, c, "P")
    /\ Secondary_connection' = IF Secondary_connection = c THEN NoConn
                               ELSE Secondary_connection
    /\ UNCHANGED <<now, pState, pNextTick, pConn, svrlive, marker, secVars, nconn>>

(* failover_send_shutdown(type), called when the primary shuts down.  With *)
(* no secondary (-1) it returns 1; with -2 issue_Drequest fails on the bad *)
(* handle and it returns 1; the server then exits.  After a successful     *)
(* send the server waits for the reply (SV_STATE_PRIMDLY).                 *)
failover_send_shutdown(type) ==
    /\ pState = "up"
    /\ \/ /\ Secondary_connection \in {NoConn, LostConn}
          /\ PrimaryGone(conns)
       \/ /\ Secondary_connection \in ConnIds
          /\ LET c == Secondary_connection IN
             \E ok \in WriteResults(conns, c, "P") :
                IF ok THEN /\ conns' = Write(conns, c, "P", type)
                           /\ pState' = "shutdown_wait"
                           /\ UNCHANGED <<Secondary_connection, pConn>>
                      ELSE PrimaryGone(Close(conns, c, "P"))
    /\ UNCHANGED <<now, pNextTick, svrlive, marker, secVars, nconn>>

(* The reply to the shutdown request does not come within the deadline:  *)
(* the primary exits anyway.                                             *)
shutdown_deadline ==
    /\ pState = "shutdown_wait"
    /\ PrimaryGone(conns)
    /\ UNCHANGED <<now, pNextTick, svrlive, marker, secVars, nconn>>

(* The serving primary process crashes or its host goes down.             *)
primary_crash ==
    /\ pState = "up"
    /\ PrimaryGone(conns)
    /\ UNCHANGED <<now, pNextTick, svrlive, marker, secVars, nconn>>

(* Server start-up without a marker (pbsd_main): serve as the primary and  *)
(* call primary_handshake at once.                                         *)
primary_start ==
    /\ pState = "down"
    /\ ~marker
    /\ pState' = "up"
    /\ pNextTick' = now
    /\ UNCHANGED <<now, Secondary_connection, pConn, svrlive, marker, secVars,
                   conns, nconn>>

(* takeover_from_secondary, at start-up with the marker present: connect   *)
(* to the secondary (alt_conn, 4 s) and send PrimIsBack, then wait for the *)
(* reply with goidle_ack set.  If the connection cannot be made it        *)
(* returns 0 (failover.c:977-978) and what follows is up to its caller,    *)
(* pbsd_main, which is not in this code: the failed connect changes no     *)
(* variable, so it is no step here.  Connecting and sending are one step:  *)
(* put_failover on a fresh, healthy connection cannot fail in this model.  *)
takeover_from_secondary ==
    /\ pState = "down"
    /\ marker
    /\ \E c \in AltConn(SecondaryListening) \ {NoConn} :
       /\ conns' = [conns EXCEPT ![c] = [Fresh EXCEPT !.q["S"] = <<"PrimIsBack">>]]
       /\ nconn' = c
       /\ pConn' = c
    /\ pState' = "reclaim_wait"
    /\ UNCHANGED <<now, Secondary_connection, pNextTick, svrlive, marker, secVars>>

(* read_reg_reply at the reclaiming primary: an ok reply clears goidle_ack *)
(* and the primary goes on to serve; EOF or an error reply exits(1), since *)
(* the primary's Secondary_state is never SECONDARY_STATE_regsent.         *)
reclaim_reply ==
    /\ pState = "reclaim_wait"
    /\ Readable(pConn, "P")
    /\ \E ev \in Events(pConn, "P") :
          IF ev = "AckPrimIsBack"
            THEN /\ pState' = "up"
                 /\ pNextTick' = now
                 /\ conns' = Close(Pop(conns, pConn, "P"), pConn, "P")
                 /\ pConn' = 0
                 /\ UNCHANGED Secondary_connection
            ELSE /\ PrimaryGone(conns)
                 /\ UNCHANGED pNextTick
    /\ UNCHANGED <<now, svrlive, marker, secVars, nconn>>

(* wait_request(600) returns with goidle_ack still set: exit(2).          *)
reclaim_timeout ==
    /\ pState = "reclaim_wait"
    /\ PrimaryGone(conns)
    /\ UNCHANGED <<now, pNextTick, svrlive, marker, secVars, nconn>>

-----------------------------------------------------------------------------
(* Secondary server, standing by: the be_secondary loop.                   *)
(*                                                                         *)
(* sPc is where the secondary process is: "loop" at the top of the loop;   *)
(* "wait" in the wait_request(1) that ends each iteration, where at most   *)
(* one socket callback runs; "fo_wait" in the wait_request(600) that       *)
(* req_failover makes after acknowledging SecdTakeOver, and "fo_ret" when  *)
(* a callback has run inside that nested wait; "inact_wait" in the        *)
(* wait_request(600) of SECONDARY_STATE_inact and "inact_ret" once it has  *)
(* returned, with "inact_fo_wait" and "inact_fo_ret" for a req_failover    *)
(* wait nested inside it.                                                  *)

(* One iteration of the loop: time_now = time(0); ++loop; switch. *)
LoopStep ==
    /\ sRole = "standby"
    /\ sPc = "loop"
    /\ loop' = (loop + 1) % 3
    /\ sPc' = "wait"

(* sec_sock is closed if it is open (close_conn(sec_sock)). *)
DropSecSock(cs) == IF sec_sock \in ConnIds THEN Close(cs, sec_sock, "S") ELSE cs

(* client_to_svr / alt_conn reaches the primary: add_conn with             *)
(* read_reg_reply as the read function and Secondary_state conn.           *)
DialPrimary(cs) ==
    \E sock \in AltConn(PrimaryListening) \ {NoConn} :
       /\ conns' = [cs EXCEPT ![sock] = Fresh]
       /\ nconn' = sock
       /\ sec_sock' = sock
       /\ secFunc' = "reg"
       /\ Secondary_state' = "conn"

(* Mutant of be_secondary_noconn: sec_sock is overwritten by the new     *)
(* connection without close_conn on the old one.                          *)
be_secondary_noconn_no_close ==
    /\ LoopStep
    /\ Secondary_state \in {"noconn", "idle"}
    /\ sbloop' = 0
    /\ sbtime' = 0
    /\ mytime' = 0
    /\ \/ DialPrimary(conns)
       \/ /\ sec_sock' = NoConn
          /\ Secondary_state' =
                IF Secondary_state = "noconn"
                   /\ (SecondaryDelay = -1 \/ now > takeov_on_nocontact)
                THEN "takeov" ELSE Secondary_state
          /\ UNCHANGED <<conns, secFunc, nconn>>
    /\ UNCHANGED <<now, primVars, svrlive, marker, sRole, hd_time,
                   takeov_on_nocontact, sNextTick, savedReq>>

(* Mutant of be_secondary_noconn: a failed connect never leads to takeov, *)
(* the secondary waits for the primary in noconn as it does in idle.      *)
be_secondary_noconn_never_takeov ==
    /\ LoopStep
    /\ Secondary_state \in {"noconn", "idle"}
    /\ sbloop' = 0
    /\ sbtime' = 0
    /\ mytime' = 0
    /\ \/ DialPrimary(DropSecSock(conns))
       \/ /\ conns' = DropSecSock(conns)
          /\ sec_sock' = NoConn
          /\ UNCHANGED <<Secondary_state, secFunc, nconn>>
    /\ UNCHANGED <<now, primVars, svrlive, marker, sRole, hd_time,
                   takeov_on_nocontact, sNextTick, savedReq>>

(* SECONDARY_STATE_noconn / _idle: reset the svrlive watch, close sec_sock *)
(* and reconnect; if that fails, take over when noconn and either started  *)
(* with -1 or past takeov_on_nocontact, else sleep and retry.              *)
be_secondary_noconn ==
    /\ LoopStep
    /\ Secondary_state \in {"noconn", "idle"}
    /\ sbloop' = 0
    /\ sbtime' = 0
    /\ mytime' = 0
    /\ \/ DialPrimary(DropSecSock(conns))
       \/ /\ conns' = DropSecSock(conns)
          /\ sec_sock' = NoConn
          /\ Secondary_state' =
                IF Secondary_state = "noconn"
                   /\ (SecondaryDelay = -1 \/ now > takeov_on_nocontact)
                THEN "takeov" ELSE Secondary_state
          /\ UNCHANGED <<secFunc, nconn>>
    /\ UNCHANGED <<now, primVars, svrlive, marker, sRole, hd_time,
                   takeov_on_nocontact, sNextTick, savedReq>>

(* SECONDARY_STATE_conn: send FAILOVER_Register; on failure back to noconn. *)
be_secondary_conn ==
    /\ LoopStep
    /\ Secondary_state = "conn"
    /\ \E ok \in WriteResults(conns, sec_sock, "S") :
          IF ok THEN /\ conns' = Write(conns, sec_sock, "S", "Register")
                     /\ Secondary_state' = "regsent"
                     /\ UNCHANGED sec_sock
                ELSE /\ conns' = Close(conns, sec_sock, "S")
                     /\ Secondary_state' = "noconn"
                     /\ sec_sock' = NoConn
    /\ UNCHANGED <<now, primVars, svrlive, marker, sRole, secFunc, hd_time,
                   mytime, sbtime, sbloop, takeov_on_nocontact, sNextTick,
                   savedReq, nconn>>

(* SECONDARY_STATE_regsent: nothing, read_reg_reply moves the state. *)
be_secondary_regsent ==
    /\ LoopStep
    /\ Secondary_state = "regsent"
    /\ UNCHANGED <<now, primVars, svrlive, marker, sRole, Secondary_state,
                   sec_sock, secFunc, hd_time, mytime, sbtime, sbloop,
                   takeov_on_nocontact, sNextTick, savedReq, conns, nconn>>

(* SECONDARY_STATE_handsk: no handshake for 2 * HANDSHAKE_TIME: nohsk. *)
be_secondary_handsk ==
    /\ LoopStep
    /\ Secondary_state = "handsk"
    /\ Secondary_state' = IF now >= hd_time + 2 * HANDSHAKE_TIME
                          THEN "nohsk" ELSE "handsk"
    /\ UNCHANGED <<now, primVars, svrlive, marker, sRole, sec_sock, secFunc,
                   hd_time, mytime, sbtime, sbloop, takeov_on_nocontact,
                   sNextTick, savedReq, conns, nconn>>

(* SECONDARY_STATE_nohsk, when stat(path_svrlive) succeeds: a newer mtime  *)
(* is remembered with the local time it was seen, and after more than 4    *)
(* such changes with no socket the secondary reconnects; an mtime older    *)
(* than secondary_delay means takeover.                                    *)
(* Mutant of NohskStatOk: time_now >= mytime + secondary_delay. *)
NohskStatOk_nonstrict ==
    \/ /\ svrlive > sbtime
       /\ sbtime' = svrlive
       /\ mytime' = now
       /\ sbloop' = IF sbloop < SbloopCap THEN sbloop + 1 ELSE sbloop
       /\ Secondary_state' = IF sbloop > 4 /\ sec_sock = NoConn
                             THEN "noconn" ELSE "nohsk"
    \/ /\ ~(svrlive > sbtime)
       /\ Secondary_state' = IF now >= mytime + secondary_delay
                             THEN "takeov" ELSE "nohsk"
       /\ UNCHANGED <<sbtime, mytime, sbloop>>

(* Mutant of NohskStatOk: mytime = time_now is done on every successful  *)
(* stat, not only when the mtime changed.                                  *)
NohskStatOk_mytime_always ==
    /\ mytime' = now
    /\ \/ /\ svrlive > sbtime
          /\ sbtime' = svrlive
          /\ sbloop' = IF sbloop < SbloopCap THEN sbloop + 1 ELSE sbloop
          /\ Secondary_state' = IF sbloop > 4 /\ sec_sock = NoConn
                                THEN "noconn" ELSE "nohsk"
       \/ /\ ~(svrlive > sbtime)
          /\ Secondary_state' = IF now > mytime + secondary_delay
                                THEN "takeov" ELSE "nohsk"
          /\ UNCHANGED <<sbtime, sbloop>>

NohskStatOk ==
    \/ /\ svrlive > sbtime
       /\ sbtime' = svrlive
       /\ mytime' = now
       /\ sbloop' = IF sbloop < SbloopCap THEN sbloop + 1 ELSE sbloop
       /\ Secondary_state' = IF sbloop > 4 /\ sec_sock = NoConn
                             THEN "noconn" ELSE "nohsk"
    \/ /\ ~(svrlive > sbtime)
       /\ Secondary_state' = IF now > mytime + secondary_delay
                             THEN "takeov" ELSE "nohsk"
       /\ UNCHANGED <<sbtime, mytime, sbloop>>

(* ... when the stat fails: after secondary_delay without a handshake the  *)
(* secondary assumes it is the one cut off and goes to noconn; otherwise,  *)
(* with no socket, every third iteration it tries alt_conn(primaddr, 8).   *)
NohskStatFails ==
    /\ UNCHANGED <<sbtime, mytime, sbloop>>
    /\ \/ /\ now > hd_time + secondary_delay
          /\ Secondary_state' = "noconn"
          /\ UNCHANGED <<sec_sock, secFunc, conns, nconn>>
       \/ /\ ~(now > hd_time + secondary_delay)
          /\ sec_sock = NoConn
          /\ loop' = 0
          /\ DialPrimary(conns)
       \/ /\ ~(now > hd_time + secondary_delay)
          /\ UNCHANGED <<Secondary_state, sec_sock, secFunc, conns, nconn>>

be_secondary_nohsk ==
    /\ LoopStep
    /\ Secondary_state = "nohsk"
    /\ \/ /\ NohskStatOk
          /\ UNCHANGED <<sec_sock, secFunc, conns, nconn>>
       \/ NohskStatFails
    /\ UNCHANGED <<now, primVars, svrlive, marker, sRole, hd_time,
                   takeov_on_nocontact, sNextTick, savedReq>>

(* check_and_invoke_stonith(pbs_primary), by its effect: with no script    *)
(* (stat fails with ENOENT) it returns 0 at once and the primary is left   *)
(* as it is; a script that exits 0 has brought the primary down and 0 is   *)
(* returned, unless reading its output back fails (malloc, read), which   *)
(* returns -1; a script that exits non-zero returns -1 whether or not it   *)
(* brought the primary down.                                               *)
check_and_invoke_stonith ==
    IF StonithInstalled
      THEN {[rc |-> 0, killed |-> TRUE], [rc |-> -1, killed |-> TRUE],
            [rc |-> -1, killed |-> FALSE]}
      ELSE {[rc |-> 0, killed |-> FALSE]}

(* What the hook did to the primary, given the connections cs. *)
StonithEffect(r, cs) ==
    IF r.killed
      THEN PrimaryGone(cs)
      ELSE /\ conns' = cs
           /\ UNCHANGED <<pState, Secondary_connection, pConn>>

(* SECONDARY_STATE_takeov: close any socket and try alt_conn(primaddr, 8)  *)
(* one last time.  Failing that, check_and_invoke_stonith: on a non-zero   *)
(* rc the secondary sleeps and stays in takeov; on 0 it sets               *)
(* pbs_failover_active, writes the marker and returns to become active,    *)
(* where secondary_handshake is started at once.  The result of           *)
(* fopen(path_secondaryact, "w") is tested only to skip the write: when    *)
(* it fails the secondary becomes active all the same, with no marker.     *)
TakeOver ==
    /\ sRole' = "active"
    /\ marker' \in IF MarkerWriteMayFail THEN BOOLEAN ELSE {TRUE}
    /\ sNextTick' = now
    /\ sec_sock' = NoConn
    /\ UNCHANGED <<Secondary_state, secFunc, nconn>>

(* Mutant of be_secondary_takeov: the rc of check_and_invoke_stonith is   *)
(* not tested, a failed hook is taken for success.                        *)
be_secondary_takeov_ignores_rc ==
    /\ LoopStep
    /\ Secondary_state = "takeov"
    /\ LET cs == DropSecSock(conns) IN
       \/ /\ DialPrimary(cs)
          /\ UNCHANGED <<primVars, marker, sRole, sNextTick>>
       \/ \E r \in check_and_invoke_stonith :
             /\ StonithEffect(r, cs)
             /\ TakeOver
    /\ UNCHANGED <<now, pNextTick, svrlive, hd_time, mytime, sbtime, sbloop,
                   takeov_on_nocontact, savedReq>>

be_secondary_takeov ==
    /\ LoopStep
    /\ Secondary_state = "takeov"
    /\ LET cs == DropSecSock(conns) IN
       \/ /\ DialPrimary(cs)
          /\ UNCHANGED <<primVars, marker, sRole, sNextTick>>
       \/ \E r \in check_and_invoke_stonith :
             /\ StonithEffect(r, cs)
             /\ IF r.rc = 0
                  THEN TakeOver
                  ELSE /\ sec_sock' = NoConn
                       /\ UNCHANGED <<marker, sRole, Secondary_state, secFunc,
                                      sNextTick, nconn>>
    /\ UNCHANGED <<now, pNextTick, svrlive, hd_time, mytime, sbtime, sbloop,
                   takeov_on_nocontact, savedReq>>

(* SECONDARY_STATE_inact: wait for the primary to close the connection   *)
(* (wait_request(600), in which callbacks of sec_sock still run).          *)
be_secondary_inact ==
    /\ sRole = "standby"
    /\ sPc = "loop"
    /\ Secondary_state = "inact"
    /\ loop' = (loop + 1) % 3
    /\ sPc' = "inact_wait"
    /\ UNCHANGED <<now, primVars, svrlive, marker, sRole, Secondary_state,
                   sec_sock, secFunc, hd_time, mytime, sbtime, sbloop,
                   takeov_on_nocontact, sNextTick, savedReq, conns, nconn>>

(* Mutant of be_secondary_inact_done: sec_sock reset to 0 instead of -1. *)
be_secondary_inact_done_zero_sock ==
    /\ sRole = "standby"
    /\ \/ sPc = "inact_ret"
       \/ sPc = "inact_wait" /\ ~(sec_sock \in ConnIds /\ Readable(sec_sock, "S"))
    /\ conns' = DropSecSock(conns)
    /\ sec_sock' = 0
    /\ Secondary_state' = "idle"
    /\ sPc' = "wait"
    /\ UNCHANGED <<now, primVars, svrlive, marker, sRole, secFunc, hd_time,
                   mytime, sbtime, sbloop, loop, takeov_on_nocontact,
                   sNextTick, savedReq, nconn>>

(* The wait_request(600) of inact has returned (one callback ran, or none  *)
(* was due), and after sleep(10) sec_sock is closed and the state becomes  *)
(* idle, whatever the callback made of it; then the wait_request(1) that   *)
(* ends the iteration.                                                     *)
be_secondary_inact_done ==
    /\ sRole = "standby"
    /\ \/ sPc = "inact_ret"
       \/ sPc = "inact_wait" /\ ~(sec_sock \in ConnIds /\ Readable(sec_sock, "S"))
    /\ conns' = DropSecSock(conns)
    /\ sec_sock' = NoConn
    /\ Secondary_state' = "idle"
    /\ sPc' = "wait"
    /\ UNCHANGED <<now, primVars, svrlive, marker, sRole, secFunc, hd_time,
                   mytime, sbtime, sbloop, loop, takeov_on_nocontact,
                   sNextTick, savedReq, nconn>>

SecSockReadable == sec_sock \in ConnIds /\ Readable(sec_sock, "S")

(* wait_request(1) at the end of the iteration returns with nothing read. *)
wait_request_timeout ==
    /\ sRole = "standby"
    /\ sPc = "wait"
    /\ ~SecSockReadable
    /\ sPc' = "loop"
    /\ UNCHANGED <<now, primVars, svrlive, marker, sRole, Secondary_state,
                   sec_sock, secFunc, hd_time, mytime, sbtime, sbloop, loop,
                   takeov_on_nocontact, sNextTick, savedReq, conns, nconn>>

(* wait_request(1) returns -1: back to noconn with sec_sock closed. *)
wait_request_error ==
    /\ sRole = "standby"
    /\ sPc = "wait"
    /\ Secondary_state' = "noconn"
    /\ conns' = DropSecSock(conns)
    /\ sec_sock' = NoConn
    /\ sPc' = "loop"
    /\ UNCHANGED <<now, primVars, svrlive, marker, sRole, secFunc, hd_time,
                   mytime, sbtime, sbloop, loop, takeov_on_nocontact,
                   sNextTick, savedReq, nconn>>

(* The wait_requests a callback of sec_sock runs in, and where control    *)
(* goes once one callback has run in each.                                 *)
WaitReturnsTo == [wait |-> "loop", fo_wait |-> "fo_ret",
                  inact_wait |-> "inact_ret", inact_fo_wait |-> "inact_fo_ret"]

(* A read callback of sec_sock runs inside a wait_request. *)
CallbackOn(f) ==
    /\ sRole = "standby"
    /\ sPc \in DOMAIN WaitReturnsTo
    /\ secFunc = f
    /\ SecSockReadable

AfterCallback == sPc' = WaitReturnsTo[sPc]

(* The secondary process exits with the given code. *)
SecondaryExit(code, cs) ==
    /\ sRole' = code
    /\ conns' = CloseAll(cs, "S")
    /\ sec_sock' = NoConn

(* read_reg_reply at the secondary: an ok reply with the primary's hostid  *)
(* switches the socket to read_fo_request and starts the handshake watch   *)
(* (license.fo is written; if that fails, exit(1)); EOF while regsent      *)
(* means the primary died after we connected: take over; any other EOF,    *)
(* error or rejection: exit(1).                                            *)
read_reg_reply ==
    /\ CallbackOn("reg")
    /\ \E ev \in Events(sec_sock, "S") :
          \/ /\ ev = "RegOk"
             /\ conns' = Pop(conns, sec_sock, "S")
             /\ secFunc' = "fo"
             /\ Secondary_state' = "handsk"
             /\ hd_time' = now
             /\ AfterCallback
             /\ UNCHANGED <<sRole, sec_sock>>
          \/ /\ ev = "EOF"
             /\ Secondary_state = "regsent"
             /\ Secondary_state' = "takeov"
             /\ AfterCallback
             /\ UNCHANGED <<conns, sRole, sec_sock, secFunc, hd_time>>
          \/ /\ \/ ev \in {"RegBusy", "ERR", "RegOk"}
                \/ ev = "EOF" /\ Secondary_state /= "regsent"
             /\ SecondaryExit("exit1", conns)
             /\ UNCHANGED <<Secondary_state, secFunc, hd_time, sPc>>
    /\ UNCHANGED <<now, primVars, svrlive, marker, mytime, sbtime, sbloop,
                   loop, takeov_on_nocontact, sNextTick, savedReq, nconn>>

(* read_fo_request and req_failover at the standby secondary.  EOF moves   *)
(* to nohsk unless inact or noconn, a read error to noconn, both closing   *)
(* sec_sock.  HandShake records hd_time (nohsk -> handsk); SecdShutdown is *)
(* acknowledged and the process exits(0); SecdGoInactive moves to inact;   *)
(* SecdTakeOver moves to takeov, is acknowledged, and is followed by the   *)
(* nested wait_request(600).                                               *)
read_fo_request ==
    /\ CallbackOn("fo")
    /\ LET c == sec_sock
           Reply(m) == Write(Pop(conns, c, "S"), c, "S", m)
       IN \E ev \in Events(c, "S") :
          \/ /\ ev = "EOF"
             /\ Secondary_state' = IF Secondary_state \in {"inact", "noconn"}
                                   THEN Secondary_state ELSE "nohsk"
             /\ conns' = Close(conns, c, "S")
             /\ sec_sock' = NoConn
             /\ AfterCallback
             /\ UNCHANGED <<sRole, hd_time>>
          \/ /\ ev = "ERR"
             /\ Secondary_state' = "noconn"
             /\ conns' = Close(conns, c, "S")
             /\ sec_sock' = NoConn
             /\ AfterCallback
             /\ UNCHANGED <<sRole, hd_time>>
          \/ /\ ev = "HandShake"
             /\ hd_time' = now
             /\ Secondary_state' = IF Secondary_state = "nohsk"
                                   THEN "handsk" ELSE Secondary_state
             /\ conns' = Reply("AckHandShake")
             /\ AfterCallback
             /\ UNCHANGED <<sRole, sec_sock>>
          \/ /\ ev = "SecdShutdown"
             /\ SecondaryExit("exit0", Reply("AckControl"))
             /\ UNCHANGED <<Secondary_state, hd_time, sPc>>
          \/ /\ ev = "SecdGoInactive"
             /\ Secondary_state' = "inact"
             /\ conns' = Reply("AckControl")
             /\ AfterCallback
             /\ UNCHANGED <<sRole, sec_sock, hd_time>>
          \/ /\ ev = "SecdTakeOver"
             /\ Secondary_state' = "takeov"
             /\ conns' = Reply("AckControl")
             /\ sPc' = IF sPc \in {"inact_wait", "inact_fo_wait"}
                       THEN "inact_fo_wait" ELSE "fo_wait"
             /\ UNCHANGED <<sRole, sec_sock, hd_time>>
    /\ UNCHANGED <<now, primVars, svrlive, marker, secFunc, mytime, sbtime,
                   sbloop, loop, takeov_on_nocontact, sNextTick, savedReq, nconn>>

(* The nested wait_request(600) of req_failover returns (after one         *)
(* callback, or with nothing read); sec_sock, if still open, is closed.    *)
(* The callback then returns to the wait_request it ran in: the one that   *)
(* ends the loop, or inact's.                                              *)
req_failover_takeover_return ==
    /\ sRole = "standby"
    /\ \/ sPc \in {"fo_ret", "inact_fo_ret"}
       \/ sPc \in {"fo_wait", "inact_fo_wait"} /\ ~SecSockReadable
    /\ conns' = DropSecSock(conns)
    /\ sec_sock' = NoConn
    /\ sPc' = IF sPc \in {"fo_ret", "fo_wait"} THEN "loop" ELSE "inact_ret"
    /\ UNCHANGED <<now, primVars, svrlive, marker, sRole, Secondary_state,
                   secFunc, hd_time, mytime, sbtime, sbloop, loop,
                   takeov_on_nocontact, sNextTick, savedReq, nconn>>

-----------------------------------------------------------------------------
(* Secondary server, active.                                               *)

(* secondary_handshake: touch svrlive every HANDSHAKE_TIME. *)
secondary_handshake ==
    /\ SecondaryListening
    /\ now >= sNextTick
    /\ svrlive' \in {now, svrlive}
    /\ sNextTick' = NextHandshake(now)
    /\ UNCHANGED <<now, primVars, marker, sRole, Secondary_state, sec_sock,
                   secFunc, sPc, hd_time, mytime, sbtime, sbloop, loop,
                   takeov_on_nocontact, savedReq, conns, nconn>>

(* Mutant of req_failover_primisback: the unlink of the marker is left   *)
(* out.                                                                    *)
req_failover_primisback_keeps_marker(c) ==
    /\ sRole = "active"
    /\ conns[c].open["S"]
    /\ conns[c].q["S"] /= <<>>
    /\ Head(conns[c].q["S"]) = "PrimIsBack"
    /\ sRole' = "quiescing"
    /\ savedReq' = c
    /\ conns' = Pop(conns, c, "S")
    /\ UNCHANGED <<now, primVars, svrlive, marker, Secondary_state, sec_sock,
                   secFunc, sPc, hd_time, mytime, sbtime, sbloop, loop,
                   takeov_on_nocontact, sNextTick, nconn>>

(* req_failover, FAILOVER_PrimIsBack, at the active secondary: go          *)
(* SV_STATE_SECIDLE, unlink the marker and keep the request to acknowledge *)
(* it later (saved_takeover_req).                                          *)
req_failover_primisback(c) ==
    /\ sRole = "active"
    /\ conns[c].open["S"]
    /\ conns[c].q["S"] /= <<>>
    /\ Head(conns[c].q["S"]) = "PrimIsBack"
    /\ marker' = FALSE
    /\ sRole' = "quiescing"
    /\ savedReq' = c
    /\ conns' = Pop(conns, c, "S")
    /\ UNCHANGED <<now, primVars, svrlive, Secondary_state, sec_sock, secFunc,
                   sPc, hd_time, mytime, sbtime, sbloop, loop,
                   takeov_on_nocontact, sNextTick, nconn>>

(* Once quiesced, the server acknowledges saved_takeover_req and restarts  *)
(* as the standby: be_secondary from its beginning.                        *)
ack_saved_takeover_req ==
    /\ sRole = "quiescing"
    /\ conns' = CloseAll(Write(conns, savedReq, "S", "AckPrimIsBack"), "S")
    /\ sRole' = "standby"
    /\ Secondary_state' = "noconn"
    /\ sec_sock' = NoConn
    /\ secFunc' = "reg"
    /\ sPc' = "loop"
    /\ hd_time' = now
    /\ mytime' = 0
    /\ sbtime' = 0
    /\ sbloop' = 0
    /\ loop' = 0
    /\ takeov_on_nocontact' = now + NO_CONTACT_WAIT + secondary_delay
    /\ savedReq' = 0
    /\ UNCHANGED <<now, primVars, svrlive, marker, sNextTick, nconn>>

-----------------------------------------------------------------------------
(* Environment: the clock and the network.                                 *)

Tick ==
    /\ now' = now + 1
    /\ UNCHANGED <<primVars, svrlive, marker, secVars, conns, nconn>>

(* The secondary process crashes or its host goes down, in any role: the  *)
(* kernel closes its sockets; a marker it wrote stays on the shared disk.  *)
(* Its restart by a supervisor is outside this code and not modelled.     *)
secondary_crash ==
    /\ SecondaryMayCrash
    /\ sRole \in {"standby", "active", "quiescing"}
    /\ sRole' = "crashed"
    /\ conns' = CloseAll(conns, "S")
    /\ sec_sock' = NoConn
    /\ savedReq' = 0
    /\ UNCHANGED <<now, primVars, svrlive, marker, Secondary_state, secFunc,
                   sPc, hd_time, mytime, sbtime, sbloop, loop,
                   takeov_on_nocontact, sNextTick, nconn>>

(* The network breaks connection c: data in flight is lost and both ends   *)
(* will read EOF or an error.                                              *)
ConnectionBreak(c) ==
    /\ Healthy(conns, c)
    /\ conns' = [conns EXCEPT ![c].broken = TRUE,
                              ![c].q = [s \in Sides |-> <<>>]]
    /\ UNCHANGED <<now, primVars, svrlive, marker, secVars, nconn>>

-----------------------------------------------------------------------------

(* The primary is starting or down; the secondary process has just entered *)
(* be_secondary (hd_time = time(0)); svrlive has some earlier mtime.       *)
Init ==
    /\ now = 1
    /\ pState \in {"up", "down"}
    /\ Secondary_connection = NoConn
    /\ pNextTick = 1
    /\ pConn = 0
    /\ svrlive = 0
    /\ marker = FALSE
    /\ sRole = "standby"
    /\ Secondary_state = "noconn"
    /\ sec_sock = NoConn
    /\ secFunc = "reg"
    /\ sPc = "loop"
    /\ hd_time = 1
    /\ mytime = 0
    /\ sbtime = 0
    /\ sbloop = 0
    /\ loop = 0
    /\ takeov_on_nocontact = 1 + NO_CONTACT_WAIT + secondary_delay
    /\ sNextTick = 0
    /\ savedReq = 0
    /\ conns = [c \in ConnIds |-> Unused]
    /\ nconn = 0

Next ==
    \/ Tick
    \/ primary_handshake
    \/ \E t \in ShutdownTypes : failover_send_shutdown(t)
    \/ shutdown_deadline
    \/ primary_crash
    \/ secondary_crash
    \/ primary_start
    \/ takeover_from_secondary
    \/ reclaim_reply
    \/ reclaim_timeout
    \/ be_secondary_noconn
    \/ be_secondary_conn
    \/ be_secondary_regsent
    \/ be_secondary_handsk
    \/ be_secondary_nohsk
    \/ be_secondary_takeov
    \/ be_secondary_inact
    \/ be_secondary_inact_done
    \/ wait_request_timeout
    \/ wait_request_error
    \/ read_reg_reply
    \/ read_fo_request
    \/ req_failover_takeover_return
    \/ secondary_handshake
    \/ ack_saved_takeover_req
    \/ \E c \in ConnIds :
          \/ req_failover_register(c)
          \/ rel_handshake(c)
          \/ fo_shutdown_reply(c)
          \/ close_secondary(c)
          \/ req_failover_primisback(c)
          \/ ConnectionBreak(c)

Spec == Init /\ [][Next]_vars

(* The standby secondary is one single-threaded process: each pass of the  *)
(* be_secondary loop, the wait_request(1) that ends it and the callbacks   *)
(* that wait_request runs.  A process that can run eventually does.        *)
StandbyStep ==
    \/ be_secondary_noconn
    \/ be_secondary_conn
    \/ be_secondary_regsent
    \/ be_secondary_handsk
    \/ be_secondary_nohsk
    \/ be_secondary_takeov
    \/ be_secondary_inact
    \/ be_secondary_inact_done
    \/ wait_request_timeout
    \/ wait_request_error
    \/ read_reg_reply
    \/ read_fo_request
    \/ req_failover_takeover_return

(* wait_request returns other than with an error: the select timed out or *)
(* a callback ran.  A wait_request that failed on every call would reset   *)
(* the secondary to noconn after every pass of the loop.                   *)
WaitReturns == wait_request_timeout \/ read_reg_reply \/ read_fo_request

-----------------------------------------------------------------------------
(* Properties.                                                             *)

TypeOK ==
    /\ now \in Nat \ {0}
    /\ pState \in {"down", "up", "shutdown_wait", "reclaim_wait"}
    /\ Secondary_connection \in ConnIds \cup {NoConn, LostConn}
    /\ pNextTick \in 1..now + HANDSHAKE_TIME
    /\ pConn \in ConnIds \cup {0}
    /\ svrlive \in 0..now
    /\ marker \in BOOLEAN
    /\ sRole \in {"standby", "active", "quiescing", "exit0", "exit1", "crashed"}
    /\ Secondary_state \in SecStates
    /\ sec_sock \in ConnIds \cup {NoConn}
    /\ secFunc \in {"reg", "fo"}
    /\ sPc \in {"loop", "wait", "fo_wait", "fo_ret", "inact_wait", "inact_ret",
                "inact_fo_wait", "inact_fo_ret"}
    /\ {hd_time, mytime, sbtime} \subseteq 0..now
    /\ sbloop \in 0..SbloopCap
    /\ loop \in 0..2
    /\ takeov_on_nocontact \in Nat
    /\ sNextTick \in 0..now + HANDSHAKE_TIME
    /\ savedReq \in ConnIds \cup {0}
    /\ conns \in [ConnIds -> Conn]
    /\ nconn \in 0..MaxConn

(* Split brain: the primary serving (or still shutting down) and the       *)
(* secondary active never coincide.  It rests on the stonith kill before   *)
(* be_secondary returns, on the start-up check of the marker, and on the   *)
(* active secondary quiescing before it acknowledges PrimIsBack.           *)
NoDualActive == ~(PrimaryListening /\ sRole = "active")

(* The secondary_active marker exists exactly while the secondary is       *)
(* active: be_secondary writes it on takeover and req_failover unlinks it  *)
(* on PrimIsBack; a marker left behind makes every primary start-up try   *)
(* to reclaim from a secondary that is not there.  Only a crash of the     *)
(* active secondary leaves it behind.                                      *)
MarkerMeansSecondaryActive ==
    /\ sRole = "active" => marker
    /\ marker => sRole \in {"active", "crashed"}

(* The primary's registration never names a connection the secondary has  *)
(* abandoned while that connection is still up: every path of             *)
(* be_secondary that drops or replaces sec_sock closes it first.  A stale  *)
(* registration makes the primary answer the next REGISTER with busy.      *)
RegistrationNotStale ==
    Secondary_connection \in ConnIds /\ Healthy(conns, Secondary_connection)
        => sec_sock = Secondary_connection

(* The be_secondary loop decides takeover in nohsk only when svrlive has   *)
(* not been touched for strictly more than secondary_delay seconds (the    *)
(* strict comparison time_now > mytime + secondary_delay, with mytime the  *)
(* time the last change of the mtime was seen).                            *)
TakeoverOnlyAfterStagnantLiveness ==
    [][/\ sPc = "loop"
       /\ Secondary_state = "nohsk"
       /\ Secondary_state' = "takeov"
       => now > svrlive + secondary_delay]_vars

(* Spec section 4.6, reply handler for REGISTER's reply: an EOF outside   *)
(* REGSENT or any other error returns the secondary to NOCONN.  The code  *)
(* of read_reg_reply exits(1) instead, so a standby that loses the        *)
(* primary between connecting and sending REGISTER, or whose REGISTER    *)
(* meets its own stale registration, is gone.                             *)
SecondaryNotRejected == sRole /= "exit1"

(* Spec section 4.6 and scenario 2: on SECD_TAKEOVER the secondary replies,*)
(* sleeps and moves to TAKEOV.  In the code the nested wait_request(600)  *)
(* of req_failover still runs read_fo_request on sec_sock, so the         *)
(* primary's close that follows is read as an EOF and the state becomes   *)
(* NOHSK before the loop resumes.                                          *)
HandoffGoesStraightToTakeover ==
    [][(sPc \in {"fo_wait", "fo_ret"} /\ sPc' = "loop")
         => Secondary_state' = "takeov"]_vars

(* Spec section 4.5 step 3: at every handshake tick the primary stats the *)
(* marker and, if a secondary became active, restarts.  primary_handshake *)
(* makes the stat only while a secondary is registered, so a primary that *)
(* lost the connection before the takeover serves on beside it.           *)
DisplacedPrimaryStepsDown ==
    [][(pState = "up" /\ marker /\ pNextTick' /= pNextTick) => pState' = "down"]_vars

(* req_failover, FAILOVER_SecdGoInactive: the primary is shutting down    *)
(* and the "Secondary should remain inactive" (failover.c:510).  Once in   *)
(* inact, and in idle after it, the standby leaves the passive states only *)
(* by reconnecting to a primary (conn); read_fo_request keeps inact on the *)
(* EOF of the primary going down for this reason (failover.c:592).  Steps  *)
(* inside inact's own wait_request(600) are not judged: whatever its       *)
(* callback does, be_secondary sets idle when it returns (failover.c:1301). *)
InactWait == {"inact_wait", "inact_ret", "inact_fo_wait", "inact_fo_ret"}

PassiveUntilPrimaryReturns ==
    [][sRole = "standby" /\ Secondary_state \in {"inact", "idle"}
       /\ sPc \notin InactWait
        => Secondary_state' \in {"inact", "idle", "conn"}]_vars

Waiting == sRole = "standby" /\ Secondary_state /= "idle"

(* Standing by ends: once the primary is down for good, a standby that is *)
(* not idle eventually leaves the standby role: it goes active, or it      *)
(* exits, exit(0) on a SecdShutdown or exit(1) on an error.  be_secondary  *)
(* reaches takeov from noconn when time_now passes takeov_on_nocontact,    *)
(* and from handsk through nohsk when the handshakes stop and svrlive goes *)
(* stale.  SECONDARY_STATE_idle (after SecdGoInactive) waits for the       *)
(* primary by design.                                                      *)
StandbyTakesOver == <>[](pState = "down") => [](Waiting ~> ~Waiting)

-----------------------------------------------------------------------------
(* Refinement of FailoverRoles: the primary serves while it listens (up   *)
(* or in the shutdown wait), the secondary while its role is active.      *)

ServingServers ==
    (IF PrimaryListening THEN {"primary"} ELSE {})
        \cup (IF sRole = "active" THEN {"secondary"} ELSE {})

Roles == INSTANCE FailoverRoles WITH serving <- ServingServers, marker <- marker

(* Every step of the two servers is a step of FailoverRoles: the primary  *)
(* serves only when no marker exists (pbsd_main's start-up check, or the  *)
(* acknowledgement of PrimIsBack after the secondary removed it), the      *)
(* secondary becomes active only in the step that takes the primary out of *)
(* service (be_secondary_takeov with check_and_invoke_stonith) and writes  *)
(* the marker, and the marker goes exactly when the active role does      *)
(* (req_failover on PrimIsBack).                                           *)
ImplementsFailoverRoles == Roles!Spec

=============================================================================
