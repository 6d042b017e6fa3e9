------------------------------ MODULE LocalRelay ------------------------------
(***************************************************************************)
(* One connection of ss-local (shadowsocks-libev local.c): the SOCKS5      *)
(* handshake with the client, the choice between the server and a direct   *)
(* connection, and the relay of both directions.  server_t is the client's *)
(* side and remote_t the other one, as in the code; "c" is both of them.   *)
(* Callbacks of the event loop are actions; what a callback calls is an    *)
(* operator that gives the set of states the call may end in.              *)
(*                                                                         *)
(* The client's stream is a sequence of units: the two parts of the method *)
(* request, the two parts of the SOCKS5 request, and bytes 1, 2, ... of    *)
(* payload.  Upstream and downstream are sealed by the operators of Aead.  *)
(* The filter of salts, which all connections share, is in AeadStream.     *)
(***************************************************************************)
EXTENDS Integers, Aead

CONSTANTS BufSize,      \* SOCKET_BUF_SIZE, in units
          UpBytes,      \* bound: payload of the client
          DownChunks,   \* bound: chunks of one byte from the other side
          SniLen        \* payload in which parse_packet finds an answer

ASSUME LocalRelayAssumption ==
    /\ BufSize \in Nat /\ BufSize >= 4
    /\ UpBytes \in Nat /\ DownChunks \in Nat /\ SniLen \in Nat

VARIABLES
    env,        \* the request, the routing rules and the options; constant
    c,          \* server_t and remote_t
    net,        \* the connection to the other side, as the kernel has it
    client,     \* [pos, read, fin]: units written, units received, end of stream
    remote      \* the same of the other side

vars == <<env, c, net, client, remote>>

Watchers == {"server_recv", "server_send", "remote_recv", "remote_send",
             "delayed_connect", "timeout"}

Plain(v) == Unit("plain", <<>>, 0, v)

Socks(v) == Unit("socks", <<>>, 0, v)

Bytes(n) == [i \in 1..n |-> Plain(i)]

Hello == <<Socks("ver"), Socks("methods"), Socks("req"), Socks("addr")>>

ClientStream == Hello \o Bytes(UpBytes)

\* What the other side writes: the bytes, to the client of a direct connection,
\* or one chunk for each of them.
SealedAnswer ==
    LET seal[k \in 0..DownChunks] ==
            IF k = 0 THEN [buf |-> <<>>, ctx |-> aead_ctx_init("peer")]
            ELSE LET r == aead_encrypt(<<Plain(k)>>, Password, seal[k - 1].ctx, ppbloom_init)
                 IN  [buf |-> seal[k - 1].buf \o r.buf, ctx |-> r.ctx]
    IN  seal[DownChunks].buf

RemoteStream == IF c.remote = "direct" THEN Bytes(DownChunks) ELSE SealedAnswer

------------------------------------------------------------------------------
(* buffer_t *)

Empty == [data |-> <<>>, idx |-> 0, len |-> 0]

Buffer(data) == [data |-> data, idx |-> 0, len |-> Len(data)]

\* What is still to be sent: len units from data + idx.
Pending(buf) == SubSeq(buf.data, buf.idx + 1, buf.idx + buf.len)

\* recv to data + len.
RecvTo(buf, units) ==
    [data |-> SubSeq(buf.data, 1, buf.len) \o units, idx |-> buf.idx, len |-> buf.len + Len(units)]

bprepend(dst, src) ==
    [dst EXCEPT !.data = SubSeq(src.data, 1, src.len) \o SubSeq(@, 1, dst.len),
                !.len = @ + src.len]

\* send accepts one unit, or all of them; repeated, this reaches every split.
Sent(len) == {1, len} \cap 1..len

\* recv of what a socket with n units holds, into a buffer with that much room.
Received(n, room) == {k \in {1, IF n < room THEN n ELSE room} : 0 < k /\ k <= room /\ k <= n}

------------------------------------------------------------------------------
(* Opening and closing *)

\* new_server, new_remote
NewServer ==
    [stage |-> "STAGE_INIT", on |-> {"server_recv"}, buf |-> Empty, abuf |-> Empty,
     remote |-> "null", rbuf |-> Empty, connected |-> FALSE,
     e_ctx |-> aead_ctx_init("own"), d_ctx |-> aead_ctx_init("none"),
     fast_open |-> env.fast_open, tx |-> 0, rx |-> 0,
     up |-> <<>>, down |-> <<>>, why |-> "open"]

\* close_and_free_remote and close_and_free_server, which every path calls
\* together: watchers are stopped, descriptors closed, memory freed.
Close(s, why) ==
    [s EXCEPT !.stage = "freed", !.on = {}, !.buf = Empty, !.abuf = Empty, !.rbuf = Empty,
              !.remote = "null", !.connected = FALSE, !.why = why]

------------------------------------------------------------------------------
(* server_stream *)

\* What is relayed is counted and sealed, and the address goes before it.
Seal(s) ==
    LET r == aead_encrypt(SubSeq(s.rbuf.data, 1, s.rbuf.len), Password, s.e_ctx, ppbloom_init)
        sealed == [s EXCEPT !.tx = @ + s.rbuf.len, !.e_ctx = r.ctx,
                            !.rbuf = [@ EXCEPT !.data = r.buf, !.len = Len(r.buf)]]
    IN  IF s.remote = "direct" THEN s
        ELSE [sealed EXCEPT !.rbuf = bprepend(@, s.abuf), !.abuf = Empty]

\* Mutant: the client is still read.
WaitForSendAndRecv(s) == [s EXCEPT !.on = @ \cup {"remote_send"}]

WaitForSend(s) ==
    [s EXCEPT !.on = (@ \ {"server_recv"}) \cup {"remote_send"}]

\* protect_socket: -1 is a failure; 1, the answer of the VPN service when it
\* could not protect the socket, goes on like a success.
Protect(s) ==
    IF ~env.vpn THEN {s}
    ELSE {s, Close(s, "protect")}

\* connect, or sendto with MSG_FASTOPEN, which may not be supported and is not
\* tried again then.  No timer runs while sendto is in progress.
Connect(s) ==
    LET sent(k) == [s EXCEPT !.rbuf.len = @ - k, !.rbuf.idx = k,
                             !.up = @ \o SubSeq(s.rbuf.data, 1, k)]
        timed(t) == [WaitForSend(t) EXCEPT !.on = @ \cup {"timeout"}]
    IN  {Close(s, "error")}
        \cup IF ~s.fast_open \/ s.remote = "direct" THEN {timed(s)}
             ELSE {Close([s EXCEPT !.fast_open = FALSE], "error"), WaitForSend(s)} \cup {timed(sent(k)) : k \in Sent(s.rbuf.len)}

\* send on a connection that is up.
SendUp(s) ==
    {Close(s, "error"), WaitForSend([s EXCEPT !.rbuf.idx = 0])}
    \cup {LET t == [s EXCEPT !.up = @ \o SubSeq(s.rbuf.data, 1, k)]
          IN  IF k < s.rbuf.len
              THEN WaitForSend([t EXCEPT !.rbuf.len = @ - k, !.rbuf.idx = k])
              ELSE [t EXCEPT !.rbuf = Empty] : k \in Sent(s.rbuf.len)}

server_stream(s) ==
    LET t == Seal(s)
    IN  IF s.connected THEN SendUp(t)
        ELSE UNION {IF p.stage = "freed" THEN {p} ELSE Connect([p EXCEPT !.rbuf.idx = 0])
                    : p \in Protect(t)}

------------------------------------------------------------------------------
(* server_handshake *)

\* server_handshake_reply: the fake reply, sent once.
Reply(s) ==
    IF s.stage # "STAGE_HANDSHAKE" THEN {s}
    ELSE {[s EXCEPT !.down = Append(@, Socks("reply"))], Close(s, "error")}

\* The access control list, with the answers of acl_match_host for the host
\* name and for the address (1 black list, -1 white list, 0 neither).
Bypass(domain, sni) ==
    LET host_match == IF sni \/ domain THEN env.host ELSE 0
        ip_match == IF domain /\ env.vpn THEN 0 ELSE env.ip
        ByList == IF env.acl = "white" THEN ip_match >= 0 ELSE ip_match > 0
    IN  /\ env.acl # "none"
        /\ ~(env.vpn /\ env.dns)
        /\ host_match > 0 \/ (host_match = 0 /\ ByList)
        /\ ~(domain /\ env.vpn)

\* create_remote: what becomes of it if the name does not resolve or there is no
\* socket; a connection that cannot be direct goes to the server.
Routes(domain, sni) ==
    {"proxied", "null"} \cup (IF Bypass(domain, sni) THEN {"direct"} ELSE {})

\* From the reply to the end: the request is cut off, the remote is made, and
\* the address is sealed.  Without payload the connection waits for some, 50 ms.
Route(s, sni) ==
    LET domain == env.atyp = "domain"
        payload == SubSeq(s.buf.data, 3, s.buf.len)
        header == IF sni /\ env.acl # "none" /\ env.is_remote_dns THEN Socks("host") ELSE Socks("addr")
        Made(kind) ==
            LET r == aead_encrypt(<<header>>, Password, s.e_ctx, ppbloom_init)
                t == [s EXCEPT !.stage = "STAGE_STREAM", !.remote = kind,
                               !.buf = Buffer(payload), !.rbuf = Buffer(payload)]
            IN  IF kind = "direct" THEN [t EXCEPT !.abuf = Buffer(<<header>>)]
                ELSE [t EXCEPT !.abuf = Buffer(r.buf), !.e_ctx = r.ctx]
    IN  UNION {IF kind = "null" THEN {Close(s, "error")}
               ELSE IF payload # <<>> \/ sni THEN server_stream(Made(kind))
               ELSE {[Made(kind) EXCEPT !.on = @ \cup {"delayed_connect"}]}
               : kind \in Routes(domain, sni)}

\* parse_packet on the payload so far, for an address with port 80 or 443:
\* -1 if it is not complete.
HostnameLen(s) ==
    IF env.atyp # "ip" \/ env.sni = "no" THEN 0
    ELSE IF s.buf.len - 2 < SniLen THEN -1
    ELSE IF env.sni = "found" THEN 1 ELSE -2

\* Wait for the rest of the first packet, once, and only if there is room for it.
WaitForSni(s) ==
    HostnameLen(s) = -1 /\ s.buf.len < BufSize /\ s.stage # "STAGE_SNI"

server_handshake(s) ==
    LET Replied == {t \in Reply(s) : t.stage # "freed"}
        Refused == {t \in Reply(s) : t.stage = "freed"}
    IN  IF s.buf.len < 1 THEN {s}
        ELSE IF env.cmd = "udp" THEN Reply(s)
        ELSE IF env.cmd = "other" THEN {Close(s, "protocol")}
        ELSE IF env.atyp = "other" THEN {Close(s, "protocol")}
        ELSE IF s.buf.len < 2 THEN {s}
        ELSE IF WaitForSni(s)
        THEN Refused \cup {[t EXCEPT !.stage = "STAGE_SNI", !.on = @ \cup {"delayed_connect"}]
                           : t \in Replied}
        ELSE Refused \cup UNION {Route(t, HostnameLen(s) > 0) : t \in Replied}

\* The method request: it is answered, and what follows it is the request.
Method(s) ==
    IF s.buf.len < 1 THEN {s}
    ELSE IF env.ver # "ok" THEN {Close(s, "protocol")}
    ELSE IF s.buf.len < 2 THEN {s}
    ELSE IF env.methods # "ok" THEN {Close(s, "protocol")}
    ELSE LET t == [s EXCEPT !.stage = "STAGE_HANDSHAKE", !.down = Append(@, Socks("method")),
                            !.buf = Buffer(SubSeq(s.buf.data, 3, s.buf.len))]
         IN  IF t.buf.len > 0 THEN server_handshake(t) ELSE {t}

\* The loop of server_recv_cb.
Serve(s) ==
    CASE s.stage = "STAGE_STREAM" -> server_stream(s)
      [] s.stage = "STAGE_INIT" -> Method(s)
      [] OTHER -> server_handshake(s)

------------------------------------------------------------------------------
(* The event loop *)

\* The requests: what the client asks for and what the rules say about it.
Request(cmd, atyp, sni, acl, host, ip) ==
    [ver |-> "ok", methods |-> "ok", cmd |-> cmd, atyp |-> atyp, sni |-> sni,
     acl |-> acl, host |-> host, ip |-> ip, dns |-> FALSE, is_remote_dns |-> TRUE,
     vpn |-> FALSE, fast_open |-> FALSE, spurious |-> FALSE]

Requests ==
    LET plain == Request("connect", "domain", "no", "none", 0, 0)
        sniffed == Request("connect", "ip", "found", "black", 0, 0)
    IN  {[plain EXCEPT !.fast_open = TRUE], [plain EXCEPT !.spurious = TRUE],
         [plain EXCEPT !.acl = "black", !.host = 1, !.fast_open = TRUE],
         [plain EXCEPT !.acl = "white", !.host = 1, !.vpn = TRUE],
         [plain EXCEPT !.cmd = "udp"], [plain EXCEPT !.cmd = "other"],
         [plain EXCEPT !.atyp = "other"], [plain EXCEPT !.ver = "other"],
         [plain EXCEPT !.methods = "other"],
         sniffed, [sniffed EXCEPT !.sni = "none"],
         [sniffed EXCEPT !.host = 1, !.is_remote_dns = FALSE]}

Init ==
    /\ env \in Requests
    /\ c = [NewServer EXCEPT !.stage = "none", !.on = {}]
    /\ net = "idle"
    /\ client = [pos |-> 0, read |-> 0, fin |-> FALSE]
    /\ remote = [pos |-> 0, read |-> 0, fin |-> FALSE]

Freed == c.stage = "freed"

\* The environment: the client writes, the other side, which answers once it
\* knows the address, writes chunks, and both may end their stream.
ClientWrite ==
    /\ ~Freed /\ ~client.fin /\ client.pos < Len(ClientStream)
    /\ client' = [client EXCEPT !.pos = @ + 1]
    /\ UNCHANGED <<env, c, net, remote>>

ClientEnd ==
    /\ ~Freed /\ ~client.fin
    /\ client' = [client EXCEPT !.fin = TRUE]
    /\ UNCHANGED <<env, c, net, remote>>

HasAddress == c.remote = "direct" \/ Len(c.up) >= SaltLen + LenBlock + 1 + TagLen

RemoteWrite ==
    /\ net = "up" /\ ~Freed /\ ~remote.fin /\ HasAddress
    /\ remote.pos < DownChunks
    /\ remote' = [remote EXCEPT !.pos = @ + 1]
    /\ UNCHANGED <<env, c, net, client>>

RemoteEnd ==
    /\ net = "up" /\ ~Freed /\ ~remote.fin
    /\ remote' = [remote EXCEPT !.fin = TRUE]
    /\ UNCHANGED <<env, c, net, client>>

\* The kernel's answer to connect.
Established ==
    /\ net = "pending" /\ ~Freed
    /\ net' \in {"up", "refused"}
    /\ UNCHANGED <<env, c, client, remote>>

\* A callback ended in state d; connect was called if remote_send waits for it.
Becomes(d) ==
    /\ c' = d
    /\ net' = IF net = "idle" /\ "remote_send" \in d.on THEN "pending" ELSE net

accept_cb ==
    /\ c.stage = "none"
    /\ Becomes(NewServer)
    /\ UNCHANGED <<env, client, remote>>

ServerBuf == IF c.remote = "null" THEN c.buf ELSE c.rbuf

\* server_recv_cb with data.  The delayed connection is cancelled by it.
server_recv_cb ==
    /\ "server_recv" \in c.on
    /\ \E k \in Received(client.pos - client.read, BufSize - ServerBuf.len) :
           LET units == SubSeq(ClientStream, client.read + 1, client.read + k)
               s == [c EXCEPT !.on = @ \ {"delayed_connect"}]
               t == IF c.remote = "null" THEN [s EXCEPT !.buf = RecvTo(@, units)]
                    ELSE [s EXCEPT !.rbuf = RecvTo(@, units)]
           IN  /\ \E d \in Serve(t) : Becomes(d)
               /\ client' = [client EXCEPT !.read = @ + k]
    /\ UNCHANGED <<env, remote>>

\* server_recv_cb when recv returns 0, which it also does without room.
ServerRecvEnd ==
    /\ "server_recv" \in c.on
    /\ \/ client.fin /\ client.read = client.pos
       \/ client.read < client.pos /\ ServerBuf.len >= BufSize
    /\ Becomes(Close(c, "client_eof"))
    /\ UNCHANGED <<env, client, remote>>

\* server_recv_cb when recv fails, or says EAGAIN after a spurious wakeup.
ServerRecvFails ==
    /\ "server_recv" \in c.on
    /\ \/ Becomes(Close(c, "error"))
       \/ env.spurious /\ Becomes([c EXCEPT !.on = @ \ {"delayed_connect"}])
    /\ UNCHANGED <<env, client, remote>>

\* delayed_connect_cb: server_recv_cb without a recv.
delayed_connect_cb ==
    /\ "delayed_connect" \in c.on
    /\ \E d \in Serve([c EXCEPT !.on = @ \ {"delayed_connect"}]) : Becomes(d)
    /\ UNCHANGED <<env, client, remote>>

\* Mutant: the other side is not read again.
ServerSendForgets ==
    /\ "server_send" \in c.on
    /\ \E k \in Sent(c.buf.len) :
           LET t == [c EXCEPT !.down = @ \o SubSeq(Pending(c.buf), 1, k)]
           IN  Becomes(IF k < c.buf.len THEN [t EXCEPT !.buf.len = @ - k, !.buf.idx = @ + k]
                       ELSE [t EXCEPT !.buf = Empty, !.on = @ \ {"server_send"}])
    /\ UNCHANGED <<env, client, remote>>

\* server_send_cb.  Without data it closes the connection.
server_send_cb ==
    /\ "server_send" \in c.on
    /\ IF c.buf.len = 0 THEN Becomes(Close(c, "empty"))
       ELSE \/ Becomes(Close(c, "error"))
            \/ \E k \in Sent(c.buf.len) :
                  LET t == [c EXCEPT !.down = @ \o SubSeq(Pending(c.buf), 1, k)]
                  IN  Becomes(IF k < c.buf.len
                              THEN [t EXCEPT !.buf.len = @ - k, !.buf.idx = @ + k]
                              ELSE [t EXCEPT !.buf = Empty,
                                             !.on = (@ \ {"server_send"}) \cup {"remote_recv"}])
    /\ UNCHANGED <<env, client, remote>>

\* remote_timeout_cb
remote_timeout_cb ==
    /\ "timeout" \in c.on
    /\ Becomes(Close(c, "timeout"))
    /\ UNCHANGED <<env, client, remote>>

\* The units that the first n chunks of the other side make.
UnitsOf(n) ==
    IF c.remote = "direct" \/ n = 0 THEN n ELSE SaltLen + n * (LenBlock + 1 + TagLen)

\* The end of remote_recv_cb: what was decrypted is sent to the client, or left
\* in the buffer until the client takes it.
SendDown(s) ==
    LET Wait(t) == [t EXCEPT !.on = (@ \ {"remote_recv"}) \cup {"server_send"}]
    IN  {Close(s, "error"), Wait([s EXCEPT !.buf.idx = 0])}
        \cup {LET t == [s EXCEPT !.down = @ \o SubSeq(s.buf.data, 1, k)]
              IN  IF k < s.buf.len
                  THEN Wait([t EXCEPT !.buf.len = @ - k, !.buf.idx = k])
                  ELSE t : k \in Sent(s.buf.len)}

\* remote_recv_cb with data: counted, decrypted and sent.
remote_recv_cb ==
    /\ "remote_recv" \in c.on
    /\ \E k \in Received(UnitsOf(remote.pos) - remote.read, BufSize) :
           LET units == SubSeq(RemoteStream, remote.read + 1, remote.read + k)
               r == aead_decrypt(units, c.d_ctx, ppbloom_init)
               t == [c EXCEPT !.rx = @ + k, !.d_ctx = r.ctx]
           IN  /\ IF c.remote = "direct"
                  THEN \E d \in SendDown([c EXCEPT !.buf = [@ EXCEPT !.data = units, !.len = k]]) : Becomes(d)
                  ELSE CASE r.err = "ERROR" -> Becomes(Close(t, "crypto"))
                         [] r.err = "NEED_MORE" ->
                                Becomes([t EXCEPT !.buf = [@ EXCEPT !.data = units, !.len = k]])
                         [] r.err = "OK" ->
                                \E d \in SendDown([t EXCEPT !.buf = [@ EXCEPT !.data = r.buf,
                                                                            !.len = Len(r.buf)]]) :
                                    Becomes(d)
               /\ remote' = [remote EXCEPT !.read = @ + k]
    /\ UNCHANGED <<env, client>>

\* remote_recv_cb when recv returns 0 or fails.
RemoteRecvEnd ==
    /\ "remote_recv" \in c.on
    /\ \/ remote.fin /\ remote.read = UnitsOf(remote.pos) /\ Becomes(Close(c, "remote_eof"))
       \/ Becomes(Close(c, "error"))
    /\ UNCHANGED <<env, client, remote>>

\* The part of remote_send_cb that finds the connection established.
NowConnected(s) ==
    [s EXCEPT !.connected = TRUE, !.on = (@ \ {"timeout"}) \cup {"remote_recv"}]

\* Mutant: the second part starts again where the first one ended.
SendPendingFrom(s) ==
    {LET t == [s EXCEPT !.up = @ \o SubSeq(Pending(s.rbuf), 1, k)]
     IN  IF k < s.rbuf.len THEN [t EXCEPT !.rbuf.len = @ - k, !.rbuf.idx = k]
         ELSE [t EXCEPT !.rbuf = Empty, !.on = (@ \ {"remote_send"}) \cup {"server_recv"}]
     : k \in Sent(s.rbuf.len)}

\* The part of remote_send_cb that sends.
SendPending(s) ==
    {Close(s, "error")}
    \cup {LET t == [s EXCEPT !.up = @ \o SubSeq(Pending(s.rbuf), 1, k)]
          IN  IF k < s.rbuf.len
              THEN [t EXCEPT !.rbuf.len = @ - k, !.rbuf.idx = @ + k]
              ELSE [t EXCEPT !.rbuf = Empty,
                             !.on = (@ \ {"remote_send"}) \cup {"server_recv"}]
          : k \in Sent(s.rbuf.len)}

\* remote_send_cb: the outcome of connect, or room to send.
remote_send_cb ==
    /\ "remote_send" \in c.on /\ net \in {"up", "refused"}
    /\ LET s == IF c.connected THEN c ELSE NowConnected(c)
       IN  IF ~c.connected /\ net = "refused" THEN Becomes(Close(c, "error"))
           ELSE IF ~c.connected /\ c.rbuf.len = 0
           THEN Becomes([s EXCEPT !.on = (@ \ {"remote_send"}) \cup {"server_recv"}])
           ELSE IF c.rbuf.len = 0 THEN Becomes(Close(c, "empty"))
           ELSE \E d \in SendPending(s) : Becomes(d)
    /\ UNCHANGED <<env, client, remote>>

\* free_connections, after a signal ended the loop.
free_connections ==
    /\ ~Freed
    /\ Becomes(Close(c, "signal"))
    /\ UNCHANGED <<env, client, remote>>

Callbacks ==
    \/ accept_cb
    \/ server_recv_cb
    \/ ServerRecvEnd
    \/ ServerRecvFails
    \/ delayed_connect_cb
    \/ server_send_cb
    \/ remote_timeout_cb
    \/ remote_recv_cb
    \/ RemoteRecvEnd
    \/ remote_send_cb

Next ==
    \/ ClientWrite
    \/ ClientEnd
    \/ RemoteWrite
    \/ RemoteEnd
    \/ Established
    \/ Callbacks
    \/ free_connections

Spec == Init /\ [][Next]_vars

\* What server_recv_cb and remote_recv_cb do to the streams they read: no other
\* step does it, and each of them does it whenever it is enabled.
ClientRead ==
    /\ "server_recv" \in c.on
    /\ \E k \in Received(client.pos - client.read, BufSize - ServerBuf.len) :
           client' = [client EXCEPT !.read = @ + k]

RemoteRead ==
    /\ "remote_recv" \in c.on
    /\ \E k \in Received(UnitsOf(remote.pos) - remote.read, BufSize) :
           remote' = [remote EXCEPT !.read = @ + k]

\* The loop runs every callback that is due; the kernel ends every connect, and
\* both peers take what is sent to them.
FairSpec ==
    /\ Spec
    /\ WF_vars(accept_cb) /\ WF_client(ClientRead) /\ WF_vars(delayed_connect_cb)
    /\ WF_vars(server_send_cb) /\ WF_remote(RemoteRead) /\ WF_vars(remote_send_cb)
    /\ WF_vars(Established)

------------------------------------------------------------------------------
(* Properties *)

BufferOK(buf) == buf.idx \in Nat /\ buf.len \in Nat /\ buf.idx + buf.len <= Len(buf.data)

\* The types of the state.  recv never writes past SOCKET_BUF_SIZE, and a send
\* never reads past what is in a buffer.
TypeOK ==
    /\ c.stage \in {"none", "STAGE_INIT", "STAGE_HANDSHAKE", "STAGE_SNI", "STAGE_STREAM", "freed"}
    /\ c.on \subseteq Watchers
    /\ c.remote \in {"null", "direct", "proxied"}
    /\ c.buf.len <= BufSize
    /\ "server_send" \in c.on => BufferOK(c.buf)
    /\ "remote_send" \in c.on => BufferOK(c.rbuf)
    /\ net \in {"idle", "pending", "up", "refused"}

Opened(units) == aead_decrypt(units, aead_ctx_init("none"), ppbloom_init)

Payload == Bytes(client.read - Len(Hello))

\* server_stream, remote_send_cb: whatever the order of connect, partial sends
\* and the delayed connection, the units handed to the kernel and the ones still
\* in the buffers are a stream that the server opens to the address, once, and
\* the client's bytes in order; a direct connection gets the bytes alone.
UpstreamConserved ==
    c.stage = "STAGE_STREAM" =>
        IF c.remote = "direct" THEN c.up \o Pending(c.rbuf) = Payload
        ELSE LET o == Opened(c.up \o Pending(c.abuf) \o Pending(c.rbuf))
             IN  /\ o.err = "OK" /\ o.ctx.chunk = <<>>
                 /\ Head(o.buf) \in {Socks("addr"), Socks("host")} /\ Tail(o.buf) = Payload

\* remote_recv_cb, server_send_cb: the client gets both replies and then the
\* bytes of every chunk that arrived completely, in order, none twice; what it
\* did not take yet is in the buffer.
DownstreamConserved ==
    c.stage = "STAGE_STREAM" =>
        LET chunks == {n \in 0..DownChunks : UnitsOf(n) <= remote.read}
            n == CHOOSE m \in chunks : \A k \in chunks : k <= m
        IN  c.down \o (IF "server_send" \in c.on THEN Pending(c.buf) ELSE <<>>)
                = <<Socks("method"), Socks("reply")>> \o Bytes(n)

\* server_recv_cb: the end of the client's stream is acted on only when all that
\* the client wrote has been sent on.
ClientEndAfterData ==
    [][c.stage = "STAGE_STREAM" /\ c'.why = "client_eof" =>
           client.fin /\ client.read = client.pos /\ Pending(c.rbuf) = <<>>]_vars

\* remote_recv_cb: the end of the other side's stream closes the client's
\* connection only when the client has got every byte of it.
RemoteEndAfterData ==
    [][~Freed /\ c'.why = "remote_eof" => Len(c.down) = 2 + remote.pos]_vars

\* server_recv_cb: a connection of a client that is still there is never taken
\* for closed, however the first packet fills the buffer (the recv of 0 bytes).
NoFalseEnd == c.why = "client_eof" /\ env.cmd = "connect" => client.fin

\* The branches of server_send_cb and remote_send_cb that close a connection
\* because there is nothing to send are never taken, and no chunk of a server
\* with the right password is refused.
NeverClosedForNothing == c.why \notin {"empty", "crypto"}

\* The counters that the app shows: the payload of the client before and the
\* units of the server after sealing, each once; direct connections not at all.
TrafficCounted ==
    c.stage = "STAGE_STREAM" =>
        IF c.remote = "direct" THEN c.tx = 0 /\ c.rx = 0
        ELSE c.tx = Len(Payload) /\ c.rx = remote.read

\* Every byte a client sends after its request reaches the other side, unless
\* the connection is closed.
ClientServed ==
    \A n \in 1..UpBytes :
        env.cmd = "connect" /\ client.pos >= Len(Hello) + n
            ~> Freed \/ IF c.remote = "direct" THEN Len(c.up) >= n
                        ELSE c.up # <<>> /\ Len(Opened(c.up).buf) > n

\* delayed_connect_cb: after the request a connection is made although the client
\* waits for the other side to speak first.
ConnectsWithoutData ==
    ~env.spurious /\ c.stage \in {"STAGE_SNI", "STAGE_STREAM"} ~> c.connected \/ Freed

\* What the other side sends reaches the client, unless the connection is closed.
AnswerServed ==
    \A n \in 1..DownChunks : remote.pos >= n ~> Freed \/ Len(c.down) >= 2 + n

\* In both directions bytes are relayed in order and once and are counted once,
\* and a connection is not given up without a reason.
RelayInv ==
    /\ TypeOK /\ UpstreamConserved /\ DownstreamConserved
    /\ TrafficCounted /\ NoFalseEnd /\ NeverClosedForNothing

\* Either end of stream is acted on behind the data that was sent before it.
EndAfterData == ClientEndAfterData /\ RemoteEndAfterData

\* A client's request leads to a connection, and what either side sends gets to
\* the other one: each callback that stops a watcher leaves one that starts it.
Served == ConnectsWithoutData /\ ClientServed /\ AnswerServed

==============================================================================
