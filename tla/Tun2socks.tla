----------------------------- MODULE Tun2socks -----------------------------
(***************************************************************************)
(* One TCP client of tun2socks: the connection an application opened into  *)
(* the tun device (a pcb of lwIP) relayed over a SOCKS5 connection to      *)
(* ss-local (badvpn/tun2socks/tun2socks.c, socksclient/BSocksClient.c,     *)
(* system/BConnection_unix.c).                                             *)
(*                                                                         *)
(* Everything runs in one thread.  The reactor hands out one event at a    *)
(* time (a segment for lwIP, a timer, a file descriptor) and then runs the *)
(* jobs that the event pushed, the last one first.  A callback of lwIP     *)
(* (accept, recv, sent) runs the jobs it pushed itself before it returns   *)
(* (SYNC_FROMHERE ... SYNC_COMMIT), so that the client, its pcb and its    *)
(* SOCKS connection may all be gone by then: the DEAD mechanism tells the  *)
(* callback, and ERR_ABRT tells lwIP, whether the pcb was aborted.         *)
(*                                                                         *)
(* Bytes are numbered in each direction.  A segment of lwIP carries one of *)
(* data, FIN or an acknowledgement.                                        *)
(***************************************************************************)
EXTENDS Integers, SequencesExt

CONSTANTS
    Wnd,          \* TCP_WND: the receive window and the size of client->buf
    SndBuf,       \* TCP_SND_BUF: what lwIP queues for the application
    RecvBuf,      \* CLIENT_SOCKS_RECV_BUF_SIZE
    UpBytes,      \* bound: bytes the application sends
    DownBytes     \* bound: bytes the proxy answers

ASSUME SizesAssumption ==
    /\ Wnd \in Nat \ {0} /\ SndBuf \in Nat \ {0} /\ RecvBuf \in Nat \ {0}
    /\ UpBytes \in Nat /\ DownBytes \in Nat

VARIABLES
    st,           \* the client, its pcb, its SOCKS connection and the pending jobs
    env           \* what the application and the proxy did

vars == <<st, env>>

Bytes(n) == [i \in 1..n |-> i]

NoClient ==
    [live |-> FALSE, aborted |-> FALSE, dead |-> "null", client_closed |-> FALSE,
     buf |-> <<>>, socks_up |-> FALSE, socks_closed |-> FALSE,
     rbuf |-> <<>>, rsent |-> 0, waiting |-> FALSE, pending |-> 0]

NoCall == [fn |-> "none", killed |-> 0, abrt |-> FALSE]

\* wild records that memory was written that is no longer the client's.
Init ==
    /\ st = [c |-> NoClient,
             pcb |-> [state |-> "syn_rcvd", wnd |-> Wnd, unacked |-> 0, end |-> "none",
                      recv |-> FALSE, sent |-> FALSE, err |-> FALSE, refused |-> FALSE],
             sk |-> [state |-> "none", send |-> "ready", recv |-> "ready"],
             jobs |-> <<>>, call |-> NoCall, wild |-> FALSE, up |-> <<>>, down |-> <<>>]
    /\ env = [sent |-> 0, fin |-> FALSE, answer |-> 0, read |-> 0, eof |-> FALSE,
              failed |-> FALSE, quit |-> FALSE]

PcbOpen == {"established", "close_wait"}

Push(s, job) == [s EXCEPT !.jobs = <<job>> \o @]

Pop(s) == [s EXCEPT !.jobs = Tail(@)]
-----------------------------------------------------------------------------
(* The end of a client. *)

\* DEAD_KILL_WITH: the value goes to the variable that dead_aborted points to,
\* a local variable of the callback that is running or that once ran.
DeadKill(s, value) ==
    CASE s.c.dead = "null" -> s
      [] s.c.dead = "frame" -> [s EXCEPT !.call.killed = value]
      [] OTHER -> [s EXCEPT !.wild = TRUE]

\* Mutant: the client is freed and the kill does not look at aborted.
DeallocKills(s) ==
    LET t == DeadKill(s, -1) IN [t EXCEPT !.c = NoClient, !.wild = @ \/ ~s.c.live]

client_dealloc(s) ==
    LET t == IF s.c.aborted THEN s ELSE DeadKill(s, -1)
    IN [t EXCEPT !.c = NoClient, !.wild = @ \/ ~s.c.live]

\* tcp_abort frees the pcb and resets the connection.
client_abort_pcb(s) ==
    DeadKill([s EXCEPT !.pcb.state = "freed", !.pcb.end = "rst",
                       !.call.abrt = TRUE, !.c.aborted = TRUE], 1)

\* tcp_close resets the connection when not all data was confirmed (or the
\* last of it was refused), and closes it with a FIN behind the queued data
\* otherwise.  In either case lwIP alone knows the pcb from then on.
tcp_close(s) ==
    IF s.pcb.wnd # Wnd \/ s.pcb.refused
    THEN [s EXCEPT !.pcb.state = "freed", !.pcb.end = "rst"]
    ELSE [s EXCEPT !.pcb.state = "closing", !.pcb.end = "fin"]

BSocksClient_Free(s) ==
    [s EXCEPT !.sk = [state |-> "freed", send |-> "ready", recv |-> "ready"], !.jobs = <<>>]

\* client_free_socks up to the point where SOCKS is closed.
SocksFreed(s) ==
    LET t == BSocksClient_Free(s)
    IN [t EXCEPT !.c.socks_closed = TRUE,
                 !.pcb.recv = @ /\ (~s.c.socks_up \/ s.c.client_closed)]

\* The pcb is gone; the buffered data is still sent to SOCKS.
client_handle_freed_client(s) ==
    LET t == [s EXCEPT !.c.client_closed = TRUE]
    IN IF t.c.buf # <<>> /\ ~t.c.socks_closed
       THEN t
       ELSE client_dealloc(IF t.c.socks_closed THEN t ELSE SocksFreed(t))

CallbacksRemoved(s) == [s EXCEPT !.pcb.recv = FALSE, !.pcb.sent = FALSE, !.pcb.err = FALSE]

\* tcp_close may fail by its contract, and the pcb is aborted then.
client_free_client(s) ==
    LET t == CallbacksRemoved(s)
    IN {client_handle_freed_client(tcp_close(t)),
        client_handle_freed_client(client_abort_pcb(t))}

client_abort_client(s) == client_handle_freed_client(client_abort_pcb(CallbacksRemoved(s)))

\* SOCKS is gone; the data for the application is still sent.
client_free_socks(s) ==
    LET t == SocksFreed(s)
        unsent == t.c.socks_up /\ (t.c.rbuf # <<>> \/ t.c.pending > 0)
    IN CASE ~t.c.client_closed /\ unsent -> {t}
         [] ~t.c.client_closed /\ ~unsent -> client_free_client(t)
         [] t.c.client_closed -> {client_dealloc(t)}

\* The program ends: every client is aborted.
client_murder(s) ==
    LET t == IF s.c.client_closed THEN s
             ELSE [client_abort_pcb(CallbacksRemoved(s)) EXCEPT !.c.client_closed = TRUE]
    IN client_dealloc(IF t.c.socks_closed THEN t
                      ELSE [BSocksClient_Free(t) EXCEPT !.c.socks_closed = TRUE])
-----------------------------------------------------------------------------
(* From the application to SOCKS. *)

client_send_to_socks(s) == Push([s EXCEPT !.sk.send = "busy"], "send")

\* n bytes were written: they leave the buffer and are confirmed to lwIP.
client_socks_send_handler_done(s, n) ==
    LET t == [s EXCEPT !.sk.send = "ready", !.c.buf = SubSeq(s.c.buf, n + 1, Len(s.c.buf)),
                       !.pcb.wnd = IF s.c.client_closed THEN @ ELSE @ + n]
    IN IF t.c.buf # <<>> THEN {client_send_to_socks(t)}
       ELSE IF t.c.client_closed THEN client_free_socks(t) ELSE {t}

\* Mutant: the new data goes before the old.
RecvAppends(s, data) ==
    IF Len(s.c.buf) + Len(data) > Wnd
    THEN [s EXCEPT !.pcb.refused = TRUE]
    ELSE [s EXCEPT !.c.buf = data \o @]

\* client_recv_func with data, up to the point where SOCKS is told.
RecvBuffered(s, data) ==
    IF Len(s.c.buf) + Len(data) > Wnd
    THEN [s EXCEPT !.pcb.refused = TRUE]
    ELSE [s EXCEPT !.c.buf = @ \o data]

client_recv_func(s, data) ==
    LET t == RecvBuffered(s, data)
    IN IF t.c.buf = data /\ t.c.socks_up THEN client_send_to_socks(t) ELSE t
-----------------------------------------------------------------------------
(* From SOCKS to the application. *)

client_socks_recv_initiate(s) == Push([s EXCEPT !.sk.recv = "busy"], "recv")

\* tcp_write took n bytes.
Queued(s, n) ==
    [s EXCEPT !.c.rsent = @ + n, !.c.pending = @ + n, !.pcb.unacked = @ + n,
              !.down = @ \o SubSeq(s.c.rbuf, s.c.rsent + 1, s.c.rsent + n)]

\* What is left to queue waits for an acknowledgement, if one can come.
SentOut(s) ==
    IF s.c.rsent < Len(s.c.rbuf)
    THEN IF s.c.pending = 0 THEN client_abort_client(s)
         ELSE [s EXCEPT !.c.waiting = TRUE]
    ELSE [s EXCEPT !.c.rbuf = <<>>, !.c.rsent = 0]

\* tcp_write takes what there is room for, or nothing (ERR_MEM); an error of
\* tcp_output aborts the client.
client_socks_recv_send_out(s) ==
    LET fits == {0, Min({Len(s.c.rbuf) - s.c.rsent, SndBuf - s.pcb.unacked})}
    IN {SentOut(Queued(s, n)) : n \in fits} \cup {client_abort_client(Queued(s, n)) : n \in fits}

\* Nothing to do after an abort; otherwise the next data is asked for once the
\* last is queued.
ReadOn(s) ==
    IF ~s.c.live \/ s.c.client_closed \/ s.c.rbuf # <<>> \/ s.c.socks_closed THEN s
    ELSE client_socks_recv_initiate(s)

client_socks_recv_handler_done(s, data) ==
    LET t == [s EXCEPT !.sk.recv = "ready"]
        u == [t EXCEPT !.c.rbuf = data, !.c.rsent = 0, !.c.waiting = FALSE]
    IN IF s.c.client_closed THEN {t}
       ELSE {ReadOn(v) : v \in client_socks_recv_send_out(u)}

\* Mutant: the client that waits for room is not sent on.
SentFuncForgets(s, len) ==
    LET t == [s EXCEPT !.c.pending = @ - len]
    IN IF t.c.socks_closed /\ t.c.pending = 0 THEN client_free_client(t) ELSE {t}

\* lwIP's data was acknowledged: queue more of it, or close behind the last.
client_sent_func(s, len) ==
    LET t == [s EXCEPT !.c.pending = @ - len]
    IN IF t.c.rbuf # <<>>
       THEN {ReadOn(v) : v \in client_socks_recv_send_out([t EXCEPT !.c.waiting = FALSE])}
       ELSE IF t.c.socks_closed /\ t.c.pending = 0 THEN client_free_client(t) ELSE {t}

\* BSOCKSCLIENT_EVENT_UP.
SocksUp(s) ==
    LET t == [s EXCEPT !.c.socks_up = TRUE, !.pcb.sent = @ \/ ~s.c.client_closed]
        u == IF t.c.buf # <<>> THEN client_send_to_socks(t) ELSE t
    IN IF u.c.client_closed THEN u ELSE client_socks_recv_initiate(u)
-----------------------------------------------------------------------------
(* The jobs. *)

\* The steps of the SOCKS handshake without authentication, each a message
\* written or read; the last is the end of the reply.
Handshake == <<"sending_hello", "sent_hello", "sending_request", "sent_request",
               "received_reply_header", "up">>

HandshakeNext(state) ==
    LET i == CHOOSE j \in DOMAIN Handshake : Handshake[j] = state
    IN Handshake[i + 1]

\* recv_handler_done and send_handler_done of BSocksClient.c.
HandshakeStep(s) ==
    LET t == [s EXCEPT !.sk.state = HandshakeNext(@)]
    IN IF t.sk.state = "up" THEN SocksUp(t) ELSE Push(t, "control")

connector_handler(s) == Push([s EXCEPT !.sk.state = "sending_hello"], "control")

\* The socket of the SOCKS connection fails: BSOCKSCLIENT_EVENT_ERROR.
SocksError(s) ==
    /\ st' \in client_free_socks(s)
    /\ env' = [env EXCEPT !.failed = TRUE]

\* connection_send with a socket that takes n bytes.
Write(s) ==
    \E n \in 1..Len(s.c.buf) :
        /\ st' \in client_socks_send_handler_done(
                       [s EXCEPT !.up = @ \o SubSeq(s.c.buf, 1, n)], n)
        /\ UNCHANGED env

\* connection_recv with a socket that has data, or its end.
Read(s) ==
    \/ \E n \in 1..Min({RecvBuf, env.answer - env.read}) :
        /\ st' \in client_socks_recv_handler_done(s, [i \in 1..n |-> env.read + i])
        /\ env' = [env EXCEPT !.read = @ + n]
    \/ /\ env.eof /\ env.read = env.answer
       /\ st' \in client_free_socks(s)
       /\ UNCHANGED env

\* One job.  The socket may block (or the reactor's limit stop the job): the
\* operation then waits for the file descriptor.
RunJob ==
    /\ st.jobs # <<>>
    /\ LET s == Pop(st) job == Head(st.jobs) IN
       \/ job = "connected" /\ st' = connector_handler(s) /\ UNCHANGED env
       \/ job = "control" /\ st' = HandshakeStep(s) /\ UNCHANGED env
       \/ job = "send" /\ Write(s)
       \/ job = "recv" /\ Read(s)
       \/ job # "connected" /\ st' = s /\ UNCHANGED env
       \/ SocksError(s)
-----------------------------------------------------------------------------
(* The callbacks of lwIP. *)

Idle == st.jobs = <<>> /\ st.call.fn = "none" /\ ~env.quit

\* DEAD_ENTER.
Enter(s, fn) == [s EXCEPT !.call = [NoCall EXCEPT !.fn = fn], !.c.dead = "frame"]

\* The end of the callback: DEAD_LEAVE2 restores dead_aborted unless it was
\* killed, and a client that lives on after an abort keeps a pointer to a
\* variable that is gone.
Return ==
    /\ st.call.fn # "none" /\ st.jobs = <<>>
    /\ st' = [st EXCEPT !.call = NoCall,
                        !.c.dead = IF ~st.c.live \/ st.call.killed = 0 THEN "null" ELSE "stale"]
    /\ UNCHANGED env

\* Without memory or a socket the callback fails and lwIP aborts the pcb; the
\* connection to the proxy may be there at once.
listener_accept_func ==
    /\ Idle /\ st.pcb.state = "syn_rcvd"
    /\ LET s == [st EXCEPT !.c = [NoClient EXCEPT !.live = TRUE], !.sk.state = "connecting",
                           !.pcb.state = "established", !.pcb.recv = TRUE, !.pcb.err = TRUE]
       IN \/ st' = Enter(s, "accept")
          \/ st' = Push(Enter(s, "accept"), "connected")
          \/ st' = [st EXCEPT !.pcb.state = "freed", !.pcb.end = "rst"]
    /\ UNCHANGED env

\* A segment of data: without a recv callback lwIP confirms and drops it.
Data ==
    /\ Idle /\ st.pcb.state = "established"
    /\ \E n \in 1..Min({st.pcb.wnd, UpBytes - env.sent}) :
        /\ IF st.pcb.recv
           THEN st' = client_recv_func(Enter([st EXCEPT !.pcb.wnd = @ - n], "recv"),
                                       [i \in 1..n |-> env.sent + i])
           ELSE UNCHANGED st
        /\ env' = [env EXCEPT !.sent = @ + n]

\* A FIN: without a recv callback nobody is told.
Fin ==
    /\ Idle /\ st.pcb.state = "established"
    /\ LET s == [st EXCEPT !.pcb.state = "close_wait"]
       IN IF st.pcb.recv THEN st' \in client_free_client(Enter(s, "recv")) ELSE st' = s
    /\ env' = [env EXCEPT !.fin = st.pcb.recv]

Ack ==
    /\ Idle /\ st.pcb.state \in PcbOpen /\ st.pcb.sent
    /\ \E n \in 1..st.pcb.unacked :
        st' \in client_sent_func(Enter([st EXCEPT !.pcb.unacked = @ - n], "sent"), n)
    /\ UNCHANGED env

\* A reset from the application, or lwIP gave up on it: client_err_func.
client_err_func ==
    /\ Idle /\ st.pcb.state \in PcbOpen
    /\ LET s == [CallbacksRemoved(st) EXCEPT !.pcb.state = "freed", !.pcb.end = "rst"]
       IN st' = IF st.pcb.err THEN client_handle_freed_client(s) ELSE s
    /\ UNCHANGED env
-----------------------------------------------------------------------------
(* The file descriptor of the SOCKS connection, and the proxy. *)

CanRead == st.sk.recv = "busy" /\ (env.read < env.answer \/ env.eof)

\* The socket is ready: what waits for it goes on, the write first.
connection_fd_handler ==
    /\ Idle
    /\ \/ st.sk.state = "connecting" /\ st' = connector_handler(st) /\ UNCHANGED env
       \/ st.sk.state \in Range(Front(Handshake)) /\ st' = HandshakeStep(st) /\ UNCHANGED env
       \/ st.sk.send = "busy" /\ Write(IF CanRead THEN Push(st, "recv") ELSE st)
       \/ st.sk.send = "busy" /\ Write(st)
       \/ CanRead /\ Read(st)

\* The connection fails, or the proxy refuses the request.
SocksFails ==
    /\ Idle /\ st.sk.state \notin {"none", "freed"}
    /\ SocksError(st)

Proxy ==
    /\ Idle /\ st.sk.state = "up" /\ ~env.eof
    /\ \/ env.answer < DownBytes /\ env' = [env EXCEPT !.answer = @ + 1]
       \/ env' = [env EXCEPT !.eof = TRUE]
    /\ UNCHANGED st

\* The event loop was left.
Terminate ==
    /\ Idle /\ st.pcb.state # "syn_rcvd"
    /\ st' = IF st.c.live THEN client_murder(st) ELSE st
    /\ env' = [env EXCEPT !.quit = TRUE]

Next ==
    \/ RunJob \/ Return
    \/ listener_accept_func \/ Data \/ Fin \/ Ack \/ client_err_func
    \/ connection_fd_handler \/ SocksFails \/ Proxy
    \/ Terminate

Spec == Init /\ [][Next]_vars

\* The reactor runs its jobs and callbacks to the end; ss-local takes what is
\* written and answers the handshake; the application acknowledges what it
\* gets, or lwIP gives up on it.
FairSpec ==
    /\ Spec
    /\ WF_vars(RunJob) /\ WF_vars(Return)
    /\ WF_vars(connection_fd_handler)
    /\ WF_vars(st.pcb.unacked > 0 /\ (Ack \/ client_err_func))
-----------------------------------------------------------------------------
(* Properties. *)

\* Type invariant.  It holds the bounds of the code's arrays, too: the client's
\* buffer takes Wnd bytes at most, socks_recv_buf_used never exceeds the
\* buffer, and two jobs at most wait beside a callback.
TypeOK ==
    /\ st.c \in [live : BOOLEAN, aborted : BOOLEAN, dead : {"null", "frame", "stale"},
                 client_closed : BOOLEAN, buf : BoundedSeq(1..UpBytes, Wnd),
                 socks_up : BOOLEAN, socks_closed : BOOLEAN,
                 rbuf : BoundedSeq(1..DownBytes, RecvBuf), rsent : 0..RecvBuf,
                 waiting : BOOLEAN, pending : 0..SndBuf]
    /\ st.pcb \in [state : PcbOpen \cup {"syn_rcvd", "closing", "freed"}, wnd : 0..Wnd,
                   unacked : 0..SndBuf, end : {"none", "fin", "rst"}, recv : BOOLEAN,
                   sent : BOOLEAN, err : BOOLEAN, refused : BOOLEAN]
    /\ st.sk \in [state : Range(Handshake) \cup {"none", "connecting", "freed"},
                  send : {"ready", "busy"}, recv : {"ready", "busy"}]
    /\ st.jobs \in BoundedSeq({"connected", "control", "send", "recv"}, 2)
    /\ st.call \in [fn : {"none", "accept", "recv", "sent"}, killed : -1..1, abrt : BOOLEAN]

\* client_recv_func's "no buffer for data !?!": data is confirmed to lwIP only
\* when it has left the buffer, so that the window never lets in more than the
\* buffer has room for and no segment is refused.
WindowFitsBuffer ==
    /\ ~st.pcb.refused
    /\ st.pcb.recv /\ st.c.live => st.pcb.wnd + Len(st.c.buf) = Wnd

\* client_recv_func, client_socks_send_handler_done: the proxy gets the bytes
\* of the application in order, and while SOCKS is open the buffer holds
\* exactly the bytes it has not got.
UploadConserved ==
    IF st.c.live /\ ~st.c.socks_closed
    THEN st.up \o st.c.buf = Bytes(env.sent)
    ELSE IsPrefix(st.up, Bytes(env.sent))

\* client_socks_recv_send_out: the application gets the bytes of the proxy in
\* order, and while it is there the buffer holds exactly those it has not got.
AnswerConserved ==
    IF st.c.live /\ ~st.c.client_closed
    THEN st.down \o SubSeq(st.c.rbuf, st.c.rsent + 1, Len(st.c.rbuf)) = Bytes(env.read)
    ELSE IsPrefix(st.down, Bytes(env.read))

\* "Return ERR_ABRT if and only if tcp_abort was called from this callback":
\* whatever the jobs run by the callback did, killed tells it.
AbortReported ==
    st.call.fn # "none" /\ st.jobs = <<>> => (st.call.killed > 0) = st.call.abrt

\* client_dealloc, client_abort_pcb: the client is freed once, and nothing is
\* written through dead_aborted after the callback it points into returned.
NothingWrittenAfterFree == ~st.wild

\* client_free_client, client_free_socks, client_murder: lwIP has a callback
\* of this client only while the client has its pcb, and the client has a pcb
\* only while lwIP keeps it.
PcbAndClientAgree ==
    /\ st.pcb.recv \/ st.pcb.sent \/ st.pcb.err => st.c.live /\ ~st.c.client_closed
    /\ st.c.live /\ ~st.c.client_closed => st.pcb.state \in PcbOpen /\ st.pcb.err

\* client_sent_func's assertions: what lwIP has not seen acknowledged is what
\* the client counts as pending; data that waits for room has an
\* acknowledgement to wait for, and every other open client is reading (or
\* was told to by its buffer).
NeverStalled ==
    Idle /\ st.c.live /\ st.c.socks_up =>
        /\ ~st.c.client_closed => st.c.pending = st.pcb.unacked
        /\ ~st.c.client_closed /\ st.c.rbuf # <<>> => st.c.waiting /\ st.c.pending > 0
        /\ ~st.c.client_closed /\ ~st.c.socks_closed /\ st.c.rbuf = <<>> => st.sk.recv = "busy"
        /\ ~st.c.socks_closed /\ st.c.buf # <<>> => st.sk.send = "busy"

\* client_free_socks ("waiting until buffered data is sent to client"): the
\* application that did not end the connection itself sees a FIN only behind
\* all that was read from the proxy, which is its whole answer unless the
\* connection to it failed.
EndAfterAnswer ==
    st.pcb.end = "fin" /\ ~env.fin =>
        /\ st.down = Bytes(env.read)
        /\ ~env.failed => env.read = env.answer

\* client_handle_freed_client ("waiting untill buffered data is sent to
\* SOCKS"): when the application has ended its data, the client goes only
\* after the proxy has got all of it, unless SOCKS failed or the proxy or the
\* program ended.
UploadCompleted ==
    env.fin /\ ~st.c.live /\ ~env.failed /\ ~env.eof /\ ~env.quit =>
        st.up = Bytes(env.sent)

\* client_dealloc: a client that lost one side does not stay: what is buffered
\* for the other side is delivered, or that side fails too.
HalfClosedIsFreed ==
    (st.c.live /\ (st.c.client_closed \/ st.c.socks_closed)) ~> ~st.c.live

\* client_sent_func, client_socks_recv_handler_done: whatever the proxy
\* answers reaches the application, unless the connection ends.
AnswerFlows ==
    \A n \in 1..DownBytes :
        (env.answer >= n /\ st.c.socks_up) ~> (Len(st.down) >= n \/ ~st.c.live
                                               \/ st.c.client_closed \/ st.c.socks_closed)

\* The client, its pcb and its SOCKS connection agree whatever callback or job
\* runs: the window, the pending bytes, the callbacks that lwIP holds, and what
\* a callback that was aborted from inside tells lwIP.
ClientInv ==
    /\ TypeOK /\ WindowFitsBuffer /\ PcbAndClientAgree /\ NeverStalled
    /\ AbortReported /\ NothingWrittenAfterFree

\* Both directions are relayed in order and to their end.
BytesConserved == UploadConserved /\ AnswerConserved /\ EndAfterAnswer /\ UploadCompleted

\* An answer flows, and what is left of a half-closed client flows out.
Drains == AnswerFlows /\ HalfClosedIsFreed

=============================================================================
